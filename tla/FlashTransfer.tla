--------------------------- MODULE FlashTransfer ----------------------------
(***************************************************************************)
(* A flash download: RequestDownload (0x34), TransferData (0x36),          *)
(* RequestTransferExit (0x37) and the flash routines of RoutineControl     *)
(* (0x31), under the diagnostic session.  Each action is one pass of       *)
(* UdsServer::process() with the request of the tester and, unless it is   *)
(* lost, the response reaching it.                                         *)
(*                                                                         *)
(* Outside this repository: the tester, which follows                      *)
(* docs/flash_sequence.md and repeats a request it has no response to; and *)
(* the application, whose callbacks may refuse and whose accept callback   *)
(* starts the TransferData service (nothing in the library does).  A data  *)
(* callback that fails has programmed nothing.                             *)
(***************************************************************************)
EXTENDS UdsSession, Sequences

CONSTANTS
    SeqMod,         \* the block sequence counter is a byte: 256
    Blocks,         \* blocks of the image
    StartTick       \* the tick at which the ECU is observed first

ASSUME FlashConstants ==
    /\ SeqMod \in Nat \ {0, 1}
    /\ Blocks \in Nat \ {0}
    /\ StartTick \in Tick

VARIABLES
    session,    \* m_session of the server
    tick,       \* the tick provider
    dl,         \* RequestDownloadService::m_active
    td,         \* TransferDataService: m_active, m_expected_seq
    flash,      \* flash memory: blocks programmed since the last erase
    tester      \* step, block to send, and whether the last request went unanswered

ecuVars == <<dl, td, flash>>
vars == <<session, tick, ecuVars, tester>>

TransferObject == [active : BOOLEAN, expected : 0 .. SeqMod - 1]

Started == [active |-> TRUE, expected |-> 1]
Stopped == [active |-> FALSE, expected |-> 1]

Steps == {"Session", "Erase", "Download", "Close", "Transfer", "Exit", "Verify", "Done"}

TesterObject == [step : Steps, block : 1 .. Blocks, retry : BOOLEAN]

NewTester == [step |-> "Session", block |-> 1, retry |-> FALSE]

Init ==
    /\ session = NewSession
    /\ tick = StartTick
    /\ dl = FALSE
    /\ td = Stopped
    /\ flash = <<>>
    /\ tester = NewTester

-----------------------------------------------------------------------------
(***************************************************************************)
(* The services.  Each relates the state before and after handle() and the *)
(* response it gives.                                                      *)
(***************************************************************************)
Alive == KeepAlive(session, tick)

Programming == Alive.current = "Programming"

RequestDownload(reply) ==
    \/ ~Programming /\ reply = "WrongSession" /\ UNCHANGED ecuVars
    \/ Programming /\ dl /\ reply = "RequestSequenceError" /\ UNCHANGED ecuVars
    \/ Programming /\ ~dl /\ reply = "Failure" /\ UNCHANGED ecuVars
    \/ /\ Programming
       /\ ~dl
       /\ reply = "Positive"
       /\ dl' = TRUE
       /\ td' = Started
       /\ UNCHANGED flash

\* Mutant: the counter does not wrap.
NextExpectedNoWrap(seq) == seq + 1

NextExpected(seq) == IF seq = SeqMod - 1 THEN 0 ELSE seq + 1

\* Mutant: a block that was received before is accepted again.
ExpectedOrRepeated(seq) == seq \in {td.expected, (td.expected + SeqMod - 1) % SeqMod}

Expected(seq) == seq = td.expected

\* handle() asks for no session.
TransferData(seq, block, reply) ==
    \/ ~td.active /\ reply = "RequestSequenceError" /\ UNCHANGED ecuVars
    \/ /\ td.active
       /\ ~Expected(seq)
       /\ reply = "WrongBlockSequenceCounter"
       /\ UNCHANGED ecuVars
    \/ td.active /\ Expected(seq) /\ reply = "Failure" /\ UNCHANGED ecuVars
    \/ /\ td.active
       /\ Expected(seq)
       /\ reply = "Positive"
       /\ flash' = Append(flash, block)
       /\ td' = [td EXCEPT !.expected = NextExpected(seq)]
       /\ UNCHANGED dl

\* Mutant: only the download service is reset.
TransferExitHalf(reply) ==
    \/ ~dl /\ reply = "RequestSequenceError" /\ UNCHANGED ecuVars
    \/ dl /\ reply = "Failure" /\ UNCHANGED ecuVars
    \/ dl /\ reply = "Positive" /\ dl' = FALSE /\ UNCHANGED <<td, flash>>

RequestTransferExit(reply) ==
    \/ ~dl /\ reply = "RequestSequenceError" /\ UNCHANGED ecuVars
    \/ dl /\ reply = "Failure" /\ UNCHANGED ecuVars
    \/ dl /\ reply = "Positive" /\ dl' = FALSE /\ td' = Stopped /\ UNCHANGED flash

\* erase_start(); a failing erase_sector() may have erased.
StartErase(reply) ==
    \/ ~Programming /\ reply = "WrongSession" /\ UNCHANGED ecuVars
    \/ /\ Programming
       /\ reply = "Failure"
       /\ flash' \in {flash, <<>>}
       /\ UNCHANGED <<dl, td>>
    \/ Programming /\ reply = "Positive" /\ flash' = <<>> /\ UNCHANGED <<dl, td>>

\* verify_start() with the image as expected data.
Image == [b \in 1 .. Blocks |-> b]

StartVerify(reply) ==
    /\ reply = IF ~Programming THEN "WrongSession"
               ELSE IF flash = Image THEN "Positive" ELSE "Mismatch"
    /\ UNCHANGED ecuVars

\* DiagnosticSessionControl gives the session s.
EnterSession(new, s, reply) ==
    /\ IF TransitionAllowed(Alive, new)
       THEN reply = "Positive" /\ s = Transition(Alive, new)
       ELSE reply = "ConditionsNotCorrect" /\ s = Alive
    /\ UNCHANGED ecuVars

Replies == {"Positive", "Failure", "Mismatch", "WrongSession", "RequestSequenceError",
            "WrongBlockSequenceCounter", "ConditionsNotCorrect"}

-----------------------------------------------------------------------------
(***************************************************************************)
(* The tester.  A negative response that says a repeated request has been  *)
(* handled already counts as the positive one that was lost; a download    *)
(* that is still open is closed first; anything else makes it start over.  *)
(***************************************************************************)
NextStep == [Session |-> "Erase", Erase |-> "Download", Close |-> "Download",
             Download |-> "Transfer", Exit |-> "Verify", Verify |-> "Done"]

Onward(t) ==
    IF t.step # "Transfer"
    THEN [step |-> NextStep[t.step], block |-> 1, retry |-> FALSE]
    ELSE IF t.block < Blocks
    THEN [t EXCEPT !.block = @ + 1, !.retry = FALSE]
    ELSE [step |-> "Exit", block |-> 1, retry |-> FALSE]

HandledBefore(t, reply) ==
    \/ t.retry /\ <<t.step, reply>> \in {<<"Session", "ConditionsNotCorrect">>,
                                        <<"Transfer", "WrongBlockSequenceCounter">>,
                                        <<"Exit", "RequestSequenceError">>}
    \/ t.step = "Close" /\ reply = "RequestSequenceError"

Heard(t, reply) ==
    IF reply = "Positive" \/ HandledBefore(t, reply) THEN Onward(t)
    ELSE IF reply = "Failure" THEN [t EXCEPT !.retry = FALSE]
    ELSE IF t.step = "Download" /\ reply = "RequestSequenceError"
    THEN [t EXCEPT !.step = "Close", !.retry = FALSE]
    ELSE NewTester

Unanswered(t) == [t EXCEPT !.retry = TRUE]

\* A pass of the server whose service leaves the session s.
Pass(s) == session' = Update(s, tick) /\ UNCHANGED tick

Ask(step, reply) ==
    /\ tester.step = step
    /\ Pass(Alive)
    /\ tester' \in {Unanswered(tester), Heard(tester, reply)}

AskErase == \E r \in Replies : StartErase(r) /\ Ask("Erase", r)
AskDownload == \E r \in Replies : RequestDownload(r) /\ Ask("Download", r)
AskTransfer == \E r \in Replies :
    TransferData(tester.block % SeqMod, tester.block, r) /\ Ask("Transfer", r)
AskExit == \E r \in Replies, step \in {"Exit", "Close"} :
    RequestTransferExit(r) /\ Ask(step, r)
AskVerify == \E r \in Replies : StartVerify(r) /\ Ask("Verify", r)

\* Programming is entered from Default: a tester that starts over goes there first.
AskSession ==
    /\ tester.step = "Session"
    /\ \E new \in {"Default", "Programming"}, r \in Replies,
          s \in {Alive, Transition(Alive, "Default"), Transition(Alive, "Programming")} :
          /\ EnterSession(new, s, r)
          /\ Pass(s)
          /\ tester' \in {Unanswered(tester),
                          IF new = "Default" THEN NewTester ELSE Heard(tester, r)}

LoseRequest ==
    /\ tester.step # "Done"
    /\ tester' = Unanswered(tester)
    /\ UNCHANGED <<session, tick, ecuVars>>

StartOver ==
    /\ tester' = NewTester
    /\ UNCHANGED <<session, tick, ecuVars>>

-----------------------------------------------------------------------------
IdlePass == Pass(session) /\ UNCHANGED <<ecuVars, tester>>

Advance ==
    /\ tick < MaxTick
    /\ tick' = tick + 1
    /\ UNCHANGED <<session, ecuVars, tester>>

\* A reset of the processor keeps the flash memory and nothing else.
Restart ==
    /\ session' = NewSession
    /\ tick' = StartTick
    /\ dl' = FALSE
    /\ td' = Stopped
    /\ UNCHANGED <<flash, tester>>

Next ==
    \/ AskSession \/ AskErase \/ AskDownload \/ AskTransfer \/ AskExit \/ AskVerify
    \/ LoseRequest \/ StartOver
    \/ IdlePass \/ Advance \/ Restart

Spec == Init /\ [][Next]_vars

-----------------------------------------------------------------------------
TypeOK ==
    /\ session \in SessionObject
    /\ tick \in Tick
    /\ dl \in BOOLEAN
    /\ td \in TransferObject
    /\ flash \in Seq(1 .. Blocks)
    /\ tester \in TesterObject

\* Over refusals, restarts and exits, RequestDownload and TransferData agree
\* on whether a transfer is open, and a closed one waits for block 1.
TransferPaired == td.active = dl /\ (~td.active => td.expected = 1)

\* A tester that got through to verification finds the whole image, each
\* block once and in order, whatever was lost, repeated, refused or reset.
CompletedIsWhole == tester.step \in {"Verify", "Done"} => flash = Image

\* The download implements FlashImage.
Abstract == INSTANCE FlashImage WITH complete <- tester.step \in {"Verify", "Done"}
DownloadImplementsImage == Abstract!ImageSpec
=============================================================================
