------------------------ MODULE FlashTransferProofs -------------------------
(***************************************************************************)
(* Proofs about FlashTransfer: for an image of any number of blocks and a  *)
(* block counter of any width, the two services agree on whether a         *)
(* transfer is open, a download that got through has written the whole     *)
(* image, and every step is a step of FlashImage.                          *)
(***************************************************************************)
EXTENDS FlashTransfer, SequenceTheorems, TLAPS

-----------------------------------------------------------------------------
(* The block counter.                                                      *)

LEMMA ModUnique ==
    ASSUME NEW q \in Nat, NEW r \in 0 .. SeqMod - 1
    PROVE  (SeqMod * q + r) % SeqMod = r
BY FlashConstants

\* Block b + 1 has the number that follows that of block b.
LEMMA NextExpectedIsNextBlock ==
    ASSUME NEW b \in Nat
    PROVE  /\ b % SeqMod \in 0 .. SeqMod - 1
           /\ NextExpected(b % SeqMod) \in 0 .. SeqMod - 1
           /\ NextExpected(b % SeqMod) = (b + 1) % SeqMod
<1> DEFINE q == b \div SeqMod
           r == b % SeqMod
<1>1. q \in Nat /\ r \in 0 .. SeqMod - 1 /\ b = SeqMod * q + r
  BY FlashConstants, Z3
<1>2. SeqMod \in Nat /\ SeqMod > 1
  BY FlashConstants
<1> SUFFICES (b + 1) % SeqMod = IF r = SeqMod - 1 THEN 0 ELSE r + 1
  BY <1>1, <1>2 DEF NextExpected
<1> HIDE DEF q, r
<1>3. CASE r = SeqMod - 1
  <2>1. b + 1 = SeqMod * (q + 1) + 0 /\ q + 1 \in Nat /\ 0 \in 0 .. SeqMod - 1
    BY <1>1, <1>2, <1>3
  <2>2. (b + 1) % SeqMod = 0
    BY <2>1, ModUnique
  <2>3. QED
    BY <1>3, <2>2
<1>4. CASE r # SeqMod - 1
  <2>1. b + 1 = SeqMod * q + (r + 1) /\ r + 1 \in 0 .. SeqMod - 1
    BY <1>1, <1>2, <1>4
  <2>2. (b + 1) % SeqMod = r + 1
    BY <1>1, <2>1, ModUnique
  <2>3. QED
    BY <1>4, <2>2
<1>5. QED
  BY <1>3, <1>4

\* Two blocks in a row have different numbers.
LEMMA NumbersDiffer ==
    ASSUME NEW b \in Nat
    PROVE  (b + 1) % SeqMod # b % SeqMod
<1>1. \A seq \in 0 .. SeqMod - 1 : NextExpected(seq) # seq
  BY FlashConstants DEF NextExpected
<1>2. QED
  BY <1>1, NextExpectedIsNextBlock

-----------------------------------------------------------------------------
(* The image.                                                              *)

\* The first n blocks of the image.
UpTo(n) == [b \in 1 .. n |-> b]

LEMMA UpToIsSeq ==
    ASSUME NEW n \in Nat
    PROVE  /\ UpTo(n) \in Seq(1 .. n)
           /\ Len(UpTo(n)) = n
<1>1. UpTo(n) \in [1 .. n -> 1 .. n]
  BY DEF UpTo
<1>2. UpTo(n) \in Seq(1 .. n)
  BY <1>1, SeqDef
<1>3. QED
  BY <1>1, <1>2, LenProperties

LEMMA UpToNone == UpTo(0) = <<>>
<1>1. UpTo(0) \in Seq(1 .. 0) /\ Len(UpTo(0)) = 0
  BY UpToIsSeq
<1>2. QED
  BY <1>1, EmptySeq

LEMMA UpToNext ==
    ASSUME NEW n \in Nat
    PROVE  Append(UpTo(n), n + 1) = UpTo(n + 1)
<1>1. /\ UpTo(n) \in Seq(Nat) /\ Len(UpTo(n)) = n
      /\ UpTo(n + 1) \in Seq(Nat) /\ Len(UpTo(n + 1)) = n + 1
  <2>1. 1 .. n \subseteq Nat /\ 1 .. (n + 1) \subseteq Nat
    OBVIOUS
  <2>2. QED
    BY <2>1, UpToIsSeq, SeqMonotonic
<1>2. Append(UpTo(n), n + 1) \in Seq(Nat) /\ Len(Append(UpTo(n), n + 1)) = n + 1
  BY <1>1
<1>3. \A i \in 1 .. n + 1 : Append(UpTo(n), n + 1)[i] = UpTo(n + 1)[i]
  BY <1>1 DEF UpTo
<1>4. QED
  BY <1>1, <1>2, <1>3, SeqEqual

LEMMA ImageIsUpTo == Image = UpTo(Blocks) /\ Blocks \in Nat \ {0}
BY FlashConstants DEF Image, UpTo

-----------------------------------------------------------------------------
(* The session.                                                            *)

SessionRule == session \in SessionObject /\ tick \in Tick

\* The session's methods keep its type.
LEMMA SessionMethodsType ==
    ASSUME NEW s \in SessionObject, NEW now \in Tick, NEW new \in SessionType
    PROVE  /\ KeepAlive(s, now) \in SessionObject
           /\ Transition(s, new) \in SessionObject
           /\ Update(s, now) \in SessionObject
<1>1. 0 \in Tick /\ (now + S3) % TickMod \in Tick
  BY SessionConstants DEF Tick
<1>2. KeepAlive(s, now) \in SessionObject
  BY <1>1 DEF SessionObject, KeepAlive
<1>3. Transition(s, new) \in SessionObject
  BY <1>1 DEF SessionObject, SessionType, Transition, Reset
<1>4. Update(s, now) \in SessionObject
  BY <1>1 DEF SessionObject, SessionType, Update
<1>5. QED
  BY <1>2, <1>3, <1>4

LEMMA PassKeepsSession ==
    ASSUME SessionRule, NEW s \in SessionObject, Pass(s)
    PROVE  SessionRule'
BY SessionMethodsType DEF SessionRule, Pass, SessionType

LEMMA AliveType == SessionRule => Alive \in SessionObject
BY SessionMethodsType DEF SessionRule, Alive, SessionType

LEMMA SessionNext ==
    ASSUME SessionRule, [Next]_vars
    PROVE  SessionRule'
<1>1. Alive \in SessionObject
  BY AliveType
<1>2. CASE AskSession
  <2>1. PICK s \in {Alive, Transition(Alive, "Default"), Transition(Alive, "Programming")} :
          Pass(s)
    BY <1>2 DEF AskSession
  <2>2. s \in SessionObject
    BY <1>1, <2>1, SessionMethodsType DEF SessionRule, SessionType
  <2>3. QED
    BY <2>1, <2>2, PassKeepsSession
<1>3. CASE AskErase \/ AskDownload \/ AskTransfer \/ AskExit \/ AskVerify
  <2>1. Pass(Alive)
    BY <1>3 DEF AskErase, AskDownload, AskTransfer, AskExit, AskVerify, Ask
  <2>2. QED
    BY <1>1, <2>1, PassKeepsSession
<1>4. CASE IdlePass
  BY <1>4, PassKeepsSession DEF IdlePass, SessionRule
<1>5. CASE Advance
  BY <1>5, SessionConstants DEF Advance, SessionRule, Tick
<1>6. CASE Restart
  BY <1>6, FlashConstants, SessionConstants
     DEF Restart, SessionRule, NewSession, SessionObject, SessionType, Tick
<1>7. CASE LoseRequest \/ StartOver \/ UNCHANGED vars
  BY <1>7 DEF LoseRequest, StartOver, vars, SessionRule
<1>8. QED
  BY <1>2, <1>3, <1>4, <1>5, <1>6, <1>7 DEF Next

-----------------------------------------------------------------------------
(* The services.                                                           *)

ServiceRule ==
    /\ dl \in BOOLEAN
    /\ td \in TransferObject
    /\ flash \in Seq(1 .. Blocks)
    /\ TransferPaired

LEMMA ServiceNext ==
    ASSUME ServiceRule, tester \in TesterObject, [Next]_vars
    PROVE  ServiceRule'
<1> USE DEF ServiceRule, TransferPaired
<1>1. Started \in TransferObject /\ Stopped \in TransferObject
  BY FlashConstants DEF TransferObject, Started, Stopped
<1>2. Started.active = TRUE /\ Stopped.active = FALSE /\ Stopped.expected = 1
  BY DEF Started, Stopped
<1>3. <<>> \in Seq(1 .. Blocks)
  BY EmptySeq
<1>4. CASE AskErase
  BY <1>3, <1>4 DEF AskErase, StartErase, ecuVars
<1>5. CASE AskDownload
  BY <1>1, <1>2, <1>5 DEF AskDownload, RequestDownload, ecuVars
<1>6. CASE AskTransfer
  <2>1. PICK r \in Replies : TransferData(tester.block % SeqMod, tester.block, r)
    BY <1>6 DEF AskTransfer
  <2>2. CASE UNCHANGED ecuVars
    BY <2>2 DEF ecuVars
  <2>3. CASE /\ td.active
             /\ Expected(tester.block % SeqMod)
             /\ flash' = Append(flash, tester.block)
             /\ td' = [td EXCEPT !.expected = NextExpected(tester.block % SeqMod)]
             /\ UNCHANGED dl
    <3>1. tester.block \in 1 .. Blocks /\ tester.block \in Nat
      BY DEF TesterObject
    <3>2. NextExpected(tester.block % SeqMod) \in 0 .. SeqMod - 1
      BY <3>1, NextExpectedIsNextBlock
    <3>3. td' \in TransferObject /\ td'.active
      BY <2>3, <3>2 DEF TransferObject
    <3>4. flash' \in Seq(1 .. Blocks)
      BY <2>3, <3>1
    <3>5. QED
      BY <2>3, <3>3, <3>4
  <2>4. QED
    BY <2>1, <2>2, <2>3 DEF TransferData
<1>7. CASE AskExit
  <2>1. PICK r \in Replies : RequestTransferExit(r)
    BY <1>7 DEF AskExit
  <2>2. UNCHANGED ecuVars \/ (dl' = FALSE /\ td' = Stopped /\ UNCHANGED flash)
    BY <2>1 DEF RequestTransferExit
  <2>3. QED
    BY <1>1, <1>2, <2>2 DEF ecuVars
<1>8. CASE AskVerify
  <2>1. UNCHANGED ecuVars
    BY <1>8 DEF AskVerify, StartVerify
  <2>2. QED
    BY <2>1 DEF ecuVars
<1>9. CASE AskSession
  <2>1. UNCHANGED ecuVars
    BY <1>9 DEF AskSession, EnterSession
  <2>2. QED
    BY <2>1 DEF ecuVars
<1>10. CASE Restart
  BY <1>1, <1>2, <1>10 DEF Restart
<1>11. CASE LoseRequest \/ StartOver \/ IdlePass \/ Advance \/ UNCHANGED vars
  BY <1>11 DEF LoseRequest, StartOver, IdlePass, Advance, vars, ecuVars
<1>12. QED
  BY <1>4, <1>5, <1>6, <1>7, <1>8, <1>9, <1>10, <1>11 DEF Next

-----------------------------------------------------------------------------
(* The tester.                                                             *)

LEMMA NewTesterType == NewTester \in TesterObject /\ NewTester.step = "Session"
BY FlashConstants DEF NewTester, TesterObject, Steps

LEMMA UnansweredType ==
    ASSUME tester \in TesterObject
    PROVE  /\ Unanswered(tester) \in TesterObject
           /\ Unanswered(tester).step = tester.step
           /\ Unanswered(tester).block = tester.block
           /\ Unanswered(tester).retry
BY DEF TesterObject, Unanswered

\* The step after each step but the transfer of a block.
LEMMA OnwardStep ==
    ASSUME tester \in TesterObject, tester.step \notin {"Transfer", "Done"}
    PROVE  /\ Onward(tester) \in TesterObject
           /\ Onward(tester).block = 1
           /\ tester.step = "Session" => Onward(tester).step = "Erase"
           /\ tester.step = "Erase" => Onward(tester).step = "Download"
           /\ tester.step = "Close" => Onward(tester).step = "Download"
           /\ tester.step = "Download" => Onward(tester).step = "Transfer"
           /\ tester.step = "Exit" => Onward(tester).step = "Verify"
           /\ tester.step = "Verify" => Onward(tester).step = "Done"
<1>1. /\ tester.step = "Session" => NextStep[tester.step] = "Erase"
      /\ tester.step = "Erase" => NextStep[tester.step] = "Download"
      /\ tester.step = "Close" => NextStep[tester.step] = "Download"
      /\ tester.step = "Download" => NextStep[tester.step] = "Transfer"
      /\ tester.step = "Exit" => NextStep[tester.step] = "Verify"
      /\ tester.step = "Verify" => NextStep[tester.step] = "Done"
  BY DEF NextStep
<1>2. Onward(tester) = [step |-> NextStep[tester.step], block |-> 1, retry |-> FALSE]
  BY DEF Onward
<1>3. NextStep[tester.step] \in Steps
  BY <1>1 DEF TesterObject, Steps
<1>4. 1 \in 1 .. Blocks
  BY FlashConstants
<1>5. QED
  BY <1>1, <1>2, <1>3, <1>4 DEF TesterObject

LEMMA OnwardBlock ==
    ASSUME tester \in TesterObject, tester.step = "Transfer"
    PROVE  /\ Onward(tester) \in TesterObject
           /\ tester.block < Blocks =>
                 Onward(tester).step = "Transfer" /\ Onward(tester).block = tester.block + 1
           /\ tester.block = Blocks => Onward(tester).step = "Exit"
           /\ tester.block < Blocks \/ tester.block = Blocks
<1>1. tester.block \in 1 .. Blocks /\ Blocks \in Nat \ {0}
  BY FlashConstants DEF TesterObject
<1>2. CASE tester.block < Blocks
  <2>1. Onward(tester) = [tester EXCEPT !.block = @ + 1, !.retry = FALSE]
    BY <1>2 DEF Onward
  <2>2. tester.block + 1 \in 1 .. Blocks
    BY <1>1, <1>2
  <2>3. Onward(tester) \in TesterObject
    BY <2>1, <2>2 DEF TesterObject
  <2>4. Onward(tester).step = "Transfer" /\ Onward(tester).block = tester.block + 1
    BY <2>1 DEF TesterObject
  <2>5. QED
    BY <1>1, <1>2, <2>3, <2>4
<1>3. CASE ~(tester.block < Blocks)
  BY <1>1, <1>3 DEF Onward, TesterObject, Steps
<1>4. QED
  BY <1>2, <1>3

\* What the tester does with a response, in four cases.
LEMMA HeardCases ==
    ASSUME tester \in TesterObject, NEW r
    PROVE  \/ /\ r = "Positive" \/ HandledBefore(tester, r)
              /\ Heard(tester, r) = Onward(tester)
           \/ /\ r = "Failure"
              /\ Heard(tester, r) = [tester EXCEPT !.retry = FALSE]
           \/ /\ tester.step = "Download"
              /\ Heard(tester, r) = [tester EXCEPT !.step = "Close", !.retry = FALSE]
           \/ Heard(tester, r) = NewTester
BY DEF Heard

LEMMA HeardType ==
    ASSUME tester \in TesterObject, tester.step # "Done", NEW r
    PROVE  Heard(tester, r) \in TesterObject
<1>1. Onward(tester) \in TesterObject
  BY OnwardStep, OnwardBlock
<1>2. [tester EXCEPT !.retry = FALSE] \in TesterObject
  BY DEF TesterObject
<1>3. [tester EXCEPT !.step = "Close", !.retry = FALSE] \in TesterObject
  BY DEF TesterObject, Steps
<1>4. QED
  BY <1>1, <1>2, <1>3, NewTesterType, HeardCases

\* The steps a response can lead to; the next one only as the protocol says.
LEMMA HeardStep ==
    ASSUME tester \in TesterObject, NEW r
    PROVE  LET step == Heard(tester, r).step IN
           /\ tester.step = "Session" => step \in {"Session", "Erase"}
           /\ tester.step = "Erase" =>
                 step \in {"Erase", "Session"} \/ (r = "Positive" /\ step = "Download")
           /\ tester.step = "Download" =>
                 \/ step \in {"Download", "Close", "Session"}
                 \/ r = "Positive" /\ step = "Transfer" /\ Heard(tester, r).block = 1
           /\ tester.step = "Close" => step \in {"Close", "Download", "Session"}
           /\ tester.step = "Exit" => step \in {"Exit", "Verify", "Session"}
           /\ tester.step = "Verify" => step \in {"Verify", "Done", "Session"}
<1>1. CASE (r = "Positive" \/ HandledBefore(tester, r)) /\ Heard(tester, r) = Onward(tester)
  <2>1. tester.step \in {"Erase", "Download"} => r = "Positive"
    BY <1>1 DEF HandledBefore
  <2>2. QED
    BY <1>1, <2>1, OnwardStep
<1>2. CASE Heard(tester, r) = [tester EXCEPT !.retry = FALSE]
  BY <1>2 DEF TesterObject
<1>3. CASE /\ tester.step = "Download"
           /\ Heard(tester, r) = [tester EXCEPT !.step = "Close", !.retry = FALSE]
  BY <1>3 DEF TesterObject
<1>4. CASE Heard(tester, r) = NewTester
  BY <1>4, NewTesterType
<1>5. QED
  BY <1>1, <1>2, <1>3, <1>4, HeardCases

LEMMA AskType ==
    ASSUME tester \in TesterObject, NEW step, step # "Done", NEW r, Ask(step, r)
    PROVE  tester' \in TesterObject
BY UnansweredType, HeardType DEF Ask

LEMMA TesterNext ==
    ASSUME tester \in TesterObject, [Next]_vars
    PROVE  tester' \in TesterObject
<1>1. CASE AskErase \/ AskDownload \/ AskTransfer \/ AskExit \/ AskVerify
  BY <1>1, AskType DEF AskErase, AskDownload, AskTransfer, AskExit, AskVerify
<1>2. CASE AskSession
  BY <1>2, NewTesterType, UnansweredType, HeardType DEF AskSession
<1>3. CASE LoseRequest \/ StartOver
  BY <1>3, NewTesterType, UnansweredType DEF LoseRequest, StartOver
<1>4. CASE IdlePass \/ Advance \/ Restart \/ UNCHANGED vars
  BY <1>4 DEF IdlePass, Advance, Restart, vars
<1>5. QED
  BY <1>1, <1>2, <1>3, <1>4 DEF Next

-----------------------------------------------------------------------------
(* How far the download has come.                                          *)

\* Flash holds the blocks before b and an open transfer waits for b.
AtBlock(b) == flash = UpTo(b - 1) /\ (td.active => td.expected = b % SeqMod)

\* A tester that is to send a block again may be one block behind the ECU.
DownloadRule ==
    /\ tester.step \in {"Download", "Close"} => flash = <<>>
    /\ tester.step = "Transfer" =>
          AtBlock(tester.block) \/ (tester.retry /\ AtBlock(tester.block + 1))
    /\ tester.step \in {"Exit", "Verify", "Done"} => flash = Image

\* A download that is opened waits for the first block.
LEMMA OpenedAtFirst ==
    ASSUME flash = <<>>, UNCHANGED flash, td' = Started
    PROVE  AtBlock(1)'
<1>1. 1 % SeqMod = 1
  <2>1. SeqMod * 0 + 1 = 1 /\ 1 \in 0 .. SeqMod - 1
    BY FlashConstants
  <2>2. QED
    BY <2>1, ModUnique
<1>2. flash' = UpTo(1 - 1) /\ td'.expected = 1
  BY UpToNone DEF Started
<1>3. QED
  BY <1>1, <1>2 DEF AtBlock

\* A block that is accepted takes the ECU to the next one.
LEMMA BlockAccepted ==
    ASSUME NEW b \in Nat \ {0}, td \in TransferObject, AtBlock(b),
           flash' = Append(flash, b),
           td' = [td EXCEPT !.expected = NextExpected(b % SeqMod)]
    PROVE  AtBlock(b + 1)'
<1>1. flash' = UpTo(b)
  <2>1. b - 1 \in Nat /\ (b - 1) + 1 = b
    OBVIOUS
  <2>2. QED
    BY <2>1, UpToNext DEF AtBlock
<1>2. td'.expected = (b + 1) % SeqMod
  BY NextExpectedIsNextBlock DEF TransferObject
<1>3. (b + 1) - 1 = b
  OBVIOUS
<1>4. QED
  BY <1>1, <1>2, <1>3 DEF AtBlock

\* Nothing but the tester's step is needed when flash and transfer stay.
LEMMA UnchangedRule ==
    ASSUME DownloadRule, UNCHANGED flash,
           UNCHANGED td \/ ~td'.active,
           tester' = tester \/ (tester \in TesterObject /\ tester' = Unanswered(tester))
    PROVE  DownloadRule'
<1>1. /\ tester'.step = tester.step /\ tester'.block = tester.block
      /\ tester.retry => tester'.retry
  BY UnansweredType
<1>2. ASSUME NEW b, AtBlock(b) PROVE AtBlock(b)'
  BY <1>2 DEF AtBlock
<1>3. QED
  BY <1>1, <1>2 DEF DownloadRule

LEMMA TransferKeepsRule ==
    ASSUME DownloadRule, ServiceRule, tester \in TesterObject, AskTransfer
    PROVE  DownloadRule'
<1>0. PICK b \in Nat \ {0} : b = tester.block
  BY DEF TesterObject
<1>1. PICK r \in Replies : TransferData(b % SeqMod, b, r) /\ Ask("Transfer", r)
  BY <1>0 DEF AskTransfer
<1>2. /\ tester.step = "Transfer" /\ td \in TransferObject
      /\ tester' = Unanswered(tester) \/ tester' = Heard(tester, r)
  BY <1>1 DEF Ask, TesterObject, ServiceRule
<1>3. AtBlock(b) \/ (tester.retry /\ AtBlock(b + 1))
  BY <1>0, <1>2 DEF DownloadRule
<1>4. td.active /\ Expected(b % SeqMod) => AtBlock(b)
  BY <1>2, <1>3, NumbersDiffer DEF AtBlock, Expected
<1>5. td.active /\ ~Expected(b % SeqMod) => AtBlock(b + 1)
  BY <1>2, <1>3 DEF AtBlock, Expected
<1>6. ASSUME AtBlock(b + 1)', tester' = Onward(tester) PROVE DownloadRule'
  <2>1. CASE b < Blocks
    <3>1. tester'.step = "Transfer" /\ tester'.block = b + 1
      BY <1>0, <1>2, <1>6, <2>1, OnwardBlock
    <3>2. QED
      BY <1>6, <3>1 DEF DownloadRule, AtBlock
  <2>2. CASE b = Blocks
    <3>1. tester'.step = "Exit"
      BY <1>0, <1>2, <1>6, <2>2, OnwardBlock
    <3>2. flash' = UpTo((b + 1) - 1) /\ (b + 1) - 1 = b
      BY <1>2, <1>6 DEF AtBlock
    <3>3. flash' = Image
      BY <2>2, <3>2, ImageIsUpTo
    <3>4. QED
      BY <3>1, <3>3 DEF DownloadRule
  <2>3. QED
    BY <1>0, <1>2, <2>1, <2>2, OnwardBlock
<1>7. CASE tester' = NewTester
  BY <1>7, NewTesterType DEF DownloadRule
<1>8. CASE ~td.active /\ r = "RequestSequenceError" /\ UNCHANGED ecuVars
  <2>1. CASE tester' = Unanswered(tester)
    BY <1>8, <2>1, UnchangedRule DEF ecuVars
  <2>2. CASE tester' = Heard(tester, r)
    <3>1. Heard(tester, r) = NewTester
      BY <1>2, <1>8 DEF Heard, HandledBefore
    <3>2. QED
      BY <1>7, <2>2, <3>1
  <2>3. QED
    BY <1>2, <2>1, <2>2
<1>9. CASE /\ td.active /\ ~Expected(b % SeqMod)
           /\ r = "WrongBlockSequenceCounter" /\ UNCHANGED ecuVars
  <2>1. CASE tester' = Unanswered(tester)
    BY <1>9, <2>1, UnchangedRule DEF ecuVars
  <2>2. CASE tester' = Heard(tester, r)
    <3>1. AtBlock(b + 1)'
      BY <1>5, <1>9, <1>3 DEF AtBlock, ecuVars
    <3>2. Heard(tester, r) \in {Onward(tester), NewTester}
      BY <1>2, <1>9 DEF Heard
    <3>3. QED
      BY <1>6, <1>7, <2>2, <3>1, <3>2
  <2>3. QED
    BY <1>2, <2>1, <2>2
<1>10. CASE td.active /\ Expected(b % SeqMod) /\ r = "Failure" /\ UNCHANGED ecuVars
  <2>1. CASE tester' = Unanswered(tester)
    BY <1>10, <2>1, UnchangedRule DEF ecuVars
  <2>2. CASE tester' = Heard(tester, r)
    <3>1. Heard(tester, r) = [tester EXCEPT !.retry = FALSE]
      BY <1>2, <1>10 DEF Heard, HandledBefore
    <3>2. tester'.step = "Transfer" /\ tester'.block = b
      BY <1>0, <1>2, <2>2, <3>1 DEF TesterObject
    <3>3. AtBlock(b)'
      BY <1>4, <1>10 DEF AtBlock, ecuVars
    <3>4. QED
      BY <3>2, <3>3 DEF DownloadRule, AtBlock
  <2>3. QED
    BY <1>2, <2>1, <2>2
<1>11. CASE /\ td.active /\ Expected(b % SeqMod) /\ r = "Positive"
            /\ flash' = Append(flash, b)
            /\ td' = [td EXCEPT !.expected = NextExpected(b % SeqMod)]
  <2>1. AtBlock(b + 1)'
    BY <1>2, <1>4, <1>11, BlockAccepted
  <2>2. CASE tester' = Unanswered(tester)
    <3>1. tester'.step = "Transfer" /\ tester'.block = b /\ tester'.retry
      BY <1>0, <1>2, <2>2, UnansweredType
    <3>2. QED
      BY <2>1, <3>1 DEF DownloadRule, AtBlock
  <2>3. CASE tester' = Heard(tester, r)
    <3>1. Heard(tester, r) = Onward(tester)
      BY <1>11 DEF Heard
    <3>2. QED
      BY <1>6, <2>1, <2>3, <3>1
  <2>4. QED
    BY <1>2, <2>2, <2>3
<1>12. QED
  BY <1>1, <1>8, <1>9, <1>10, <1>11 DEF TransferData

LEMMA DownloadNext ==
    ASSUME DownloadRule, ServiceRule, tester \in TesterObject, [Next]_vars
    PROVE  DownloadRule'
<1>1. CASE AskErase
  <2>1. PICK r \in Replies : StartErase(r) /\ Ask("Erase", r)
    BY <1>1 DEF AskErase
  <2>2. \/ tester'.step \in {"Erase", "Session"}
        \/ r = "Positive" /\ tester'.step = "Download"
    BY <2>1, UnansweredType, HeardStep DEF Ask
  <2>3. r = "Positive" => flash' = <<>>
    BY <2>1 DEF StartErase
  <2>4. QED
    BY <2>2, <2>3 DEF DownloadRule
<1>2. CASE AskDownload
  <2>1. PICK r \in Replies : RequestDownload(r) /\ Ask("Download", r)
    BY <1>2 DEF AskDownload
  <2>2. tester.step = "Download" /\ flash = <<>> /\ UNCHANGED flash
    BY <2>1 DEF Ask, DownloadRule, RequestDownload, ecuVars
  <2>3. \/ tester'.step \in {"Download", "Close", "Session"}
        \/ r = "Positive" /\ tester'.step = "Transfer" /\ tester'.block = 1
    BY <2>1, <2>2, UnansweredType, HeardStep DEF Ask
  <2>4. r = "Positive" => td' = Started
    BY <2>1 DEF RequestDownload
  <2>5. r = "Positive" => AtBlock(1)'
    BY <2>2, <2>4, OpenedAtFirst
  <2>6. QED
    BY <2>2, <2>3, <2>5 DEF DownloadRule, AtBlock
<1>3. CASE AskTransfer
  BY <1>3, TransferKeepsRule
<1>4. CASE AskExit
  <2>1. PICK r \in Replies, step \in {"Exit", "Close"} :
          RequestTransferExit(r) /\ Ask(step, r)
    BY <1>4 DEF AskExit
  <2>2. UNCHANGED flash /\ tester.step = step
    BY <2>1 DEF RequestTransferExit, Ask, ecuVars
  <2>3. /\ step = "Exit" => tester'.step \in {"Exit", "Verify", "Session"}
        /\ step = "Close" => tester'.step \in {"Close", "Download", "Session"}
    BY <2>1, <2>2, UnansweredType, HeardStep DEF Ask
  <2>4. QED
    BY <2>1, <2>2, <2>3, ImageIsUpTo DEF DownloadRule
<1>5. CASE AskVerify
  <2>1. PICK r \in Replies : StartVerify(r) /\ Ask("Verify", r)
    BY <1>5 DEF AskVerify
  <2>2. UNCHANGED flash /\ tester.step = "Verify"
    BY <2>1 DEF StartVerify, Ask, ecuVars
  <2>3. tester'.step \in {"Verify", "Done", "Session"}
    BY <2>1, <2>2, UnansweredType, HeardStep DEF Ask
  <2>4. QED
    BY <2>2, <2>3 DEF DownloadRule, Image
<1>6. CASE AskSession
  <2>1. tester'.step \in {"Session", "Erase"}
    BY <1>6, UnansweredType, NewTesterType, HeardStep DEF AskSession
  <2>2. QED
    BY <2>1 DEF DownloadRule
<1>7. CASE LoseRequest
  BY <1>7, UnchangedRule DEF LoseRequest, ecuVars
<1>8. CASE StartOver
  BY <1>8, NewTesterType DEF StartOver, DownloadRule
<1>9. CASE Restart
  <2>1. UNCHANGED <<flash, tester>> /\ ~td'.active
    BY <1>9 DEF Restart, Stopped
  <2>2. QED
    BY <2>1, UnchangedRule
<1>10. CASE IdlePass \/ Advance \/ UNCHANGED vars
  BY <1>10, UnchangedRule DEF IdlePass, Advance, vars, ecuVars
<1>11. QED
  BY <1>1, <1>2, <1>3, <1>4, <1>5, <1>6, <1>7, <1>8, <1>9, <1>10 DEF Next

-----------------------------------------------------------------------------
(* The inductive invariant and what follows from it.                       *)

FlashInd == SessionRule /\ ServiceRule /\ tester \in TesterObject /\ DownloadRule

LEMMA FlashInitInd == Init => FlashInd
<1> SUFFICES ASSUME Init PROVE FlashInd
  OBVIOUS
<1>1. SessionRule
  BY FlashConstants, SessionConstants
     DEF Init, SessionRule, NewSession, SessionObject, SessionType, Tick
<1>2. ServiceRule
  <2>1. Stopped \in TransferObject /\ Stopped.active = FALSE /\ Stopped.expected = 1
    BY FlashConstants DEF Stopped, TransferObject
  <2>2. dl = FALSE /\ td = Stopped /\ flash \in Seq(1 .. Blocks)
    BY EmptySeq DEF Init
  <2>3. QED
    BY <2>1, <2>2 DEF ServiceRule, TransferPaired
<1>3. tester \in TesterObject /\ DownloadRule
  BY NewTesterType DEF Init, DownloadRule
<1>4. QED
  BY <1>1, <1>2, <1>3 DEF FlashInd

LEMMA FlashNextInd ==
    ASSUME FlashInd, [Next]_vars
    PROVE  FlashInd'
BY SessionNext, ServiceNext, TesterNext, DownloadNext DEF FlashInd

LEMMA FlashIndInvariant == Spec => []FlashInd
<1>1. FlashInd /\ [Next]_vars => FlashInd'
  BY FlashNextInd
<1>2. QED
  BY <1>1, FlashInitInd, PTL DEF Spec

\* The state keeps its types: the block counter stays in its byte and flash
\* holds blocks of the image only.
THEOREM FlashTypeCorrect == Spec => []TypeOK
<1>1. FlashInd => TypeOK
  BY DEF FlashInd, SessionRule, ServiceRule, TypeOK
<1>2. QED
  BY <1>1, FlashIndInvariant, PTL

\* RequestDownload and TransferData agree on whether a transfer is open.
THEOREM TransferPairedCorrect == Spec => []TransferPaired
<1>1. FlashInd => TransferPaired
  BY DEF FlashInd, ServiceRule
<1>2. QED
  BY <1>1, FlashIndInvariant, PTL

\* A tester that got as far as verification has the whole image in flash,
\* whatever was lost, repeated, refused, timed out or reset on the way.
THEOREM CompletedIsWholeCorrect == Spec => []CompletedIsWhole
<1>1. FlashInd => CompletedIsWhole
  BY DEF FlashInd, DownloadRule, CompletedIsWhole
<1>2. QED
  BY <1>1, FlashIndInvariant, PTL

-----------------------------------------------------------------------------
(* Refinement of FlashImage.                                               *)

Completed == tester.step \in {"Verify", "Done"}

\* A step that leaves flash alone and stays on one side of completion, starts
\* over, or completes with the image in flash is an abstract step.
LEMMA FlashKeptImplements ==
    ASSUME UNCHANGED flash, Completed' => Completed \/ flash = Image
    PROVE  [Abstract!ImageNext]_(Abstract!imageVars)
<1>1. Abstract!Image = Image
  BY DEF Abstract!Image, Image
<1>2. CASE Completed' = Completed
  BY <1>2 DEF Abstract!imageVars, Completed
<1>3. CASE Completed /\ ~Completed'
  BY <1>3 DEF Abstract!ImageNext, Abstract!StartOver, Completed
<1>4. CASE ~Completed /\ Completed'
  BY <1>1, <1>4 DEF Abstract!ImageNext, Abstract!Complete, Completed
<1>5. QED
  BY <1>2, <1>3, <1>4 DEF Completed

LEMMA TransferImplements ==
    ASSUME FlashInd, AskTransfer
    PROVE  [Abstract!ImageNext]_(Abstract!imageVars)
<1>1. PICK r \in Replies :
        TransferData(tester.block % SeqMod, tester.block, r) /\ Ask("Transfer", r)
  BY DEF AskTransfer
<1>2. /\ tester.step = "Transfer" /\ ~Completed
      /\ tester.block \in 1 .. Blocks /\ tester.block \in Nat /\ Blocks \in Nat
  BY <1>1, FlashConstants DEF FlashInd, Ask, TesterObject, Completed
<1>3. tester'.step \in {"Transfer", "Exit", "Session", "Close"}
  <2>1. Heard(tester, r).step \in {"Transfer", "Exit", "Session"}
    BY <1>2, HeardCases, OnwardBlock, NewTesterType DEF FlashInd, TesterObject
  <2>2. QED
    BY <1>1, <1>2, <2>1, UnansweredType DEF Ask, FlashInd
<1>4. ~Completed'
  BY <1>3 DEF Completed
<1>5. CASE UNCHANGED flash
  BY <1>4, <1>5, FlashKeptImplements
<1>6. CASE /\ td.active /\ Expected(tester.block % SeqMod)
           /\ flash' = Append(flash, tester.block)
  <2>1. AtBlock(tester.block)
    BY <1>2, <1>6, NumbersDiffer DEF FlashInd, DownloadRule, AtBlock, Expected
  <2>2. Len(flash) = tester.block - 1
    <3>1. tester.block - 1 \in Nat
      BY <1>2
    <3>2. QED
      BY <2>1, <3>1, UpToIsSeq DEF AtBlock
  <2>3. Abstract!Program
    BY <1>2, <1>4, <1>6, <2>2 DEF Abstract!Program, Completed
  <2>4. QED
    BY <2>3 DEF Abstract!ImageNext
<1>7. QED
  BY <1>1, <1>5, <1>6 DEF TransferData, ecuVars

LEMMA EraseImplements ==
    ASSUME FlashInd, AskErase
    PROVE  [Abstract!ImageNext]_(Abstract!imageVars)
<1>1. PICK r \in Replies : StartErase(r) /\ Ask("Erase", r)
  BY DEF AskErase
<1>2. tester'.step \in {"Erase", "Session", "Download"} /\ tester.step = "Erase"
  BY <1>1, UnansweredType, HeardStep DEF Ask, FlashInd
<1>3. ~Completed /\ ~Completed'
  BY <1>2 DEF Completed
<1>4. flash' = flash \/ flash' = <<>>
  BY <1>1 DEF StartErase, ecuVars
<1>5. CASE flash' = <<>>
  BY <1>3, <1>5 DEF Abstract!ImageNext, Abstract!Erase, Completed
<1>6. CASE UNCHANGED flash
  BY <1>3, <1>6, FlashKeptImplements
<1>7. QED
  BY <1>4, <1>5, <1>6

LEMMA FlashStepImplements ==
    ASSUME FlashInd, FlashInd', [Next]_vars
    PROVE  [Abstract!ImageNext]_(Abstract!imageVars)
<1>1. UNCHANGED flash => [Abstract!ImageNext]_(Abstract!imageVars)
  <2>1. Completed' => flash' = Image
    <3>1. CompletedIsWhole'
      BY DEF FlashInd, DownloadRule, CompletedIsWhole
    <3>2. QED
      BY <3>1 DEF CompletedIsWhole, Completed, Image
  <2>2. QED
    BY <2>1, FlashKeptImplements
<1>2. CASE AskTransfer
  BY <1>2, TransferImplements
<1>3. CASE AskErase
  BY <1>3, EraseImplements
<1>4. CASE ~AskTransfer /\ ~AskErase
  <2>1. CASE AskDownload \/ AskExit \/ AskVerify \/ AskSession
    BY <1>1, <2>1 DEF AskDownload, AskExit, AskVerify, AskSession, RequestDownload,
       RequestTransferExit, StartVerify, EnterSession, ecuVars
  <2>2. CASE LoseRequest \/ StartOver \/ IdlePass \/ Advance \/ Restart \/ UNCHANGED vars
    BY <1>1, <2>2 DEF LoseRequest, StartOver, IdlePass, Advance, Restart, vars, ecuVars
  <2>3. QED
    BY <1>4, <2>1, <2>2 DEF Next
<1>5. QED
  BY <1>2, <1>3, <1>4

\* The services, under losses, retries, time-outs and resets, implement the
\* abstract image: blocks in order, each once, and complete only when whole.
THEOREM DownloadImplementsImageCorrect == Spec => DownloadImplementsImage
<1>1. Init => Abstract!ImageInit
  BY DEF Init, Abstract!ImageInit, NewTester
<1>2. FlashInd /\ FlashInd' /\ [Next]_vars => [Abstract!ImageNext]_(Abstract!imageVars)
  BY FlashStepImplements
<1>3. QED
  BY <1>1, <1>2, FlashIndInvariant, PTL DEF Spec, DownloadImplementsImage, Abstract!ImageSpec
=============================================================================
