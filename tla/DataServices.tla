---------------------------- MODULE DataServices ----------------------------
(***************************************************************************)
(* ReadDataByIdentifier (0x22), WriteDataByIdentifier (0x2E),              *)
(* ReadMemoryByAddress (0x23) and WriteMemoryByAddress (0x3D).  Their      *)
(* handlers keep nothing; the data are the application's, behind           *)
(* callbacks.                                                              *)
(*                                                                         *)
(* Outside this repository: the application.  A read callback gives the    *)
(* value of its identifier when it fits into the room it is told of, and   *)
(* nothing otherwise; the memory callbacks serve the cells there are, and  *)
(* a callback that refuses to write has written nothing.                   *)
(***************************************************************************)
EXTENDS Integers, Sequences, SequencesExt

CONSTANTS
    Readable,       \* identifiers with a read_fn
    Writable,       \* identifiers that are writable and have a write_fn
    DidUnknown,     \* one without an entry
    DataLength,     \* the length of the value of each identifier
    Values,         \* values of identifiers and of memory cells
    FirstValue,
    Room,           \* sizeof(m_resp_buf)
    MaxDids,        \* bound: identifiers in a request
    ByteBase,       \* 256
    WordBytes,      \* bytes of uint32_t and size_t: 4
    Header,         \* bytes of a request to write before the data: 4 to 32
    Formats,        \* the bytes an address or a size is given in, 0 to 15 of them
    Cells           \* memory cells the application serves, from address 0

Dids == Readable \cup Writable

ASSUME DataConstants ==
    /\ DidUnknown \notin Dids
    /\ DataLength \in [Dids -> Nat \ {0}]
    /\ FirstValue \in Values
    /\ {Room, ByteBase, WordBytes, MaxDids, Header, Cells} \subseteq Nat \ {0}
    /\ Formats \subseteq Seq(0 .. ByteBase - 1)

VARIABLES
    store,      \* the application's values, by identifier
    memory,     \* its memory
    written,    \* history: both, as the positive answers told the tester; no
                \* memory once it wrote where a word does not reach
    asked,      \* the last request, when it was to read
    answer      \* its answer: what was read, or a negative response code

dataVars == <<store, memory, written, asked, answer>>

Address == 0 .. Cells - 1

Nothing == [kind |-> "None"]
NoMemory == <<>>

DataInit ==
    /\ store = [d \in Dids |-> FirstValue]
    /\ memory = [a \in Address |-> FirstValue]
    /\ written = [store |-> store, memory |-> memory]
    /\ asked = Nothing
    /\ answer = <<>>

-----------------------------------------------------------------------------
(***************************************************************************)
(* Identifiers.                                                            *)
(***************************************************************************)
\* Mutant: the room for the identifier is not asked for.
RefusalNoRoom(pos, did) ==
    CASE did \notin Dids -> "RequestOutOfRange"
      [] did \in Dids \ Readable -> "ConditionsNotCorrect"
      [] OTHER -> "None"

\* Why the loop stops at an identifier, when pos bytes are already there.
Refusal(pos, did) ==
    CASE did \notin Dids -> "RequestOutOfRange"
      [] did \in Dids \ Readable -> "ConditionsNotCorrect"
      [] did \in Readable /\ pos + 2 > Room - 1 -> "ResponseTooLong"
      [] did \in Readable /\ pos + 2 <= Room - 1 /\ DataLength[did] > Room - (pos + 2) ->
             "ConditionsNotCorrect"
      [] OTHER -> "None"

\* One turn of the loop of ReadDataByIdentifierService::handle().
ReadNext(read, did) ==
    IF read.nrc # "None" THEN read
    ELSE IF Refusal(read.pos, did) # "None"
    THEN [read EXCEPT !.nrc = Refusal(read.pos, did)]
    ELSE [read EXCEPT !.pos = @ + 2 + DataLength[did],
                      !.data = Append(@, <<did, store[did]>>)]

ReadDataByIdentifier(dids) ==
    /\ asked' = [kind |-> "ReadDids", dids |-> dids]
    /\ LET read == FoldLeft(ReadNext, [pos |-> 1, data |-> <<>>, nrc |-> "None"], dids)
       IN  answer' = IF read.nrc # "None" THEN <<read.nrc>> ELSE read.data
    /\ UNCHANGED <<store, memory, written>>

\* What was asked before is forgotten, so that only reads are remembered.
WriteDataByIdentifier(did, value, ok) ==
    /\ asked' = Nothing
    /\ \/ /\ did \notin Dids
          /\ answer' = <<"RequestOutOfRange">>
          /\ UNCHANGED <<store, written>>
       \/ /\ did \in Dids \ Writable
          /\ answer' = <<"SecurityAccessDenied">>
          /\ UNCHANGED <<store, written>>
       \/ /\ did \in Writable
          /\ ~ok
          /\ answer' = <<"GeneralProgrammingFailure">>
          /\ UNCHANGED <<store, written>>
       \/ /\ did \in Writable
          /\ ok
          /\ answer' = <<>>
          /\ store' = [store EXCEPT ![did] = value]
          /\ written' = [written EXCEPT !.store[did] = value]
    /\ UNCHANGED memory

-----------------------------------------------------------------------------
(***************************************************************************)
(* Memory.  An address and a size come as 0 to 15 bytes, the first byte    *)
(* the highest.                                                            *)
(***************************************************************************)
\* The values a number of so many bytes has.
Power[k \in Nat] == IF k = 0 THEN 1 ELSE ByteBase * Power[k - 1]

\* The loop that shifts the bytes into a word.
Number ==
    [ bytes \in Formats |->
        LET n[i \in 0 .. Len(bytes)] ==
                IF i = 0 THEN 0
                ELSE (n[i - 1] * ByteBase + bytes[i]) % Power[WordBytes]
        IN  n[Len(bytes)] ]

\* What the memory callbacks serve.
Served(address, size) == address + size <= Cells

ReadMemoryByAddress(address, size) ==
    /\ asked' = [kind |-> "ReadMemory", address |-> address, size |-> size]
    /\ answer' =
          IF address = <<>> \/ size = <<>> THEN <<"IncorrectLength">>
          ELSE IF Number[size] = 0 \/ Number[size] > Room - 1 THEN <<"ResponseTooLong">>
          ELSE IF ~Served(Number[address], Number[size]) THEN <<"RequestOutOfRange">>
          ELSE [i \in 1 .. Number[size] |-> memory[Number[address] + i - 1]]
    /\ UNCHANGED <<store, memory, written>>

\* What is written is one value throughout; the request may hold too little of it.
Filled(cells, address, size, value) ==
    [a \in Address |-> IF a \in address .. address + size - 1 THEN value ELSE cells[a]]

\* What a tester means by the bytes of an address or a size: a number with as many
\* digits as there are bytes.  Beyond what a word holds it differs from Number.
Meant ==
    [ bytes \in Formats |->
        LET n == Len(bytes)
        IN  FoldLeft(+, 0, [i \in 1 .. n |-> bytes[i] * Power[n - i]]) ]

Beyond(address, size) ==
    Meant[address] >= Power[WordBytes] \/ Meant[size] >= Power[WordBytes]

\* Whether a request with so many bytes of data has too few; the sum of header
\* and size is a word.
TooShort(size, given) == Header + given < (Header + Number[size]) % Power[WordBytes]

WriteMemoryByAddress(address, size, value, given, ok) ==
    LET refused == address = <<>> \/ size = <<>> \/ TooShort(size, given)
    IN  /\ asked' = Nothing
        /\ UNCHANGED store
        /\ \/ /\ refused
              /\ answer' = <<"IncorrectLength">>
              /\ UNCHANGED <<memory, written>>
           \/ /\ ~refused
              /\ ~(ok /\ Served(Number[address], Number[size]))
              /\ answer' = <<"GeneralProgrammingFailure">>
              /\ UNCHANGED <<memory, written>>
           \/ /\ ~refused
              /\ ok
              /\ Served(Number[address], Number[size])
              /\ answer' = <<>>
              /\ memory' = Filled(memory, Number[address], Number[size], value)
              /\ written' = [written EXCEPT !.memory =
                    IF @ = NoMemory \/ Beyond(address, size) THEN NoMemory
                    ELSE Filled(@, Meant[address], Meant[size], value)]

DataNext ==
    \/ \E dids \in SeqOf(Dids \cup {DidUnknown}, MaxDids) :
           dids # <<>> /\ ReadDataByIdentifier(dids)
    \/ \E did \in Dids \cup {DidUnknown}, value \in Values, ok \in BOOLEAN :
           WriteDataByIdentifier(did, value, ok)
    \/ \E address, size \in Formats : ReadMemoryByAddress(address, size)
    \/ \E address, size \in Formats, value \in Values, given \in {0, Cells}, ok \in BOOLEAN :
           WriteMemoryByAddress(address, size, value, given, ok)

DataSpec == DataInit /\ [][DataNext]_dataVars

-----------------------------------------------------------------------------
\* The negative response codes of reads.
Refusals ==
    {"IncorrectLength", "RequestOutOfRange", "ConditionsNotCorrect", "ResponseTooLong"}

\* The length of a positive answer to a request for these identifiers.
AnswerLength(dids) ==
    1 + FoldLeft(LAMBDA n, d : n + 2 + DataLength[d], 0, dids)

\* A read is answered with all of what was asked for, in order, each value the one
\* a tester last wrote; identifiers exactly when every one of them can be read and
\* the whole answer fits, memory wherever the bytes of its address and size, few
\* or many, say it is.  Otherwise the answer is one negative response code.  For
\* memory this is said only as long as every address and size was of a value that
\* a word holds: of a longer one the code drops the upper bytes, and serves or
\* writes another address.
ReadsCoherent ==
    /\ asked.kind = "ReadDids" =>
          LET whole == [i \in 1 .. Len(asked.dids) |->
                          <<asked.dids[i], written.store[asked.dids[i]]>>]
          IN  IF /\ \A i \in 1 .. Len(asked.dids) : asked.dids[i] \in Readable
                 /\ AnswerLength(asked.dids) <= Room
              THEN answer = whole
              ELSE Len(answer) = 1 /\ answer[1] \in Refusals
    /\ /\ asked.kind = "ReadMemory"
       /\ written.memory # NoMemory
       /\ ~Beyond(asked.address, asked.size)
       => LET first == Meant[asked.address]
              size == Meant[asked.size]
          IN  IF /\ asked.address # <<>> /\ size > 0 /\ size < Room
                 /\ first + size <= Cells
              THEN answer = [i \in 1 .. size |-> written.memory[first + i - 1]]
              ELSE Len(answer) = 1 /\ answer[1] \in Refusals
=============================================================================
