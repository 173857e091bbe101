-------------------------- MODULE DtcManagerProofs --------------------------
(***************************************************************************)
(* Proofs about DtcManager: for any codes, any size of the table and any   *)
(* order of tests, cycles and clears, the table is well formed and each    *)
(* status byte says nothing that did not happen to its code; and about     *)
(* DtcReport: what a tester reads of the table is the truth.               *)
(***************************************************************************)
EXTENDS DtcReport, SequenceTheorems, FiniteSetTheorems, WellFoundedInduction, TLAPS

\* What each operation on one entry does to its rules.
EntryRules(e, life) ==
    /\ e \in Entry /\ life \in History
    /\ Meaning(e.status, life)

LEMMA NewEntryRules ==
    ASSUME NEW code \in Codes
    PROVE  EntryRules(NewEntry(code), Unlived)
BY DEF EntryRules, NewEntry, Unlived, Entry, History, NotTested, StatusBits,
       Meaning

LEMMA TestRules ==
    ASSUME NEW e, NEW life, EntryRules(e, life), NEW failed \in BOOLEAN
    PROVE  EntryRules([e EXCEPT !.status = StatusAfter(@, failed)], Tested(life, failed))
<1> DEFINE status == StatusAfter(e.status, failed)
           f == [e EXCEPT !.status = StatusAfter(@, failed)]
<1>1. status \in SUBSET StatusBits
  BY DEF EntryRules, Entry, StatusAfter, NotTested, StatusBits
<1>2. f \in Entry /\ f.status = status
  BY <1>1 DEF EntryRules, Entry
<1>3. Tested(life, failed) \in History
  BY DEF EntryRules, History, Tested
<1>4. Meaning(status, Tested(life, failed))
  <2>1. CASE failed
    BY <2>1 DEF EntryRules, Entry, History, Meaning, StatusAfter, NotTested, Tested
  <2>2. CASE ~failed
    BY <2>2 DEF EntryRules, Entry, History, Meaning, StatusAfter, NotTested, Tested
  <2>3. QED
    BY <2>1, <2>2
<1>5. QED
  BY <1>2, <1>3, <1>4 DEF EntryRules

LEMMA CycleRules ==
    ASSUME NEW e, NEW life, EntryRules(e, life)
    PROVE  EntryRules([e EXCEPT !.status = AfterCycle(@)], CycleEnded(life))
<1> DEFINE status == AfterCycle(e.status)
           f == [e EXCEPT !.status = AfterCycle(@)]
<1>1. status \in SUBSET StatusBits
  BY DEF EntryRules, Entry, AfterCycle, StatusBits
<1>2. f \in Entry /\ f.status = status
  BY <1>1 DEF EntryRules, Entry
<1>3. CycleEnded(life) \in History
  BY DEF EntryRules, History, CycleEnded
<1>4. Meaning(status, CycleEnded(life))
  BY DEF EntryRules, History, Meaning, AfterCycle, CycleEnded
<1>5. QED
  BY <1>2, <1>3, <1>4 DEF EntryRules

LEMMA SnapshotRules ==
    ASSUME NEW e, NEW life, EntryRules(e, life), NEW data \in Snapshots
    PROVE  EntryRules([e EXCEPT !.snapshot = data], life)
BY DEF EntryRules, Entry

-----------------------------------------------------------------------------
\* The inductive invariant, entry by entry.
DtcInd ==
    /\ dtcs \in Seq(Entry)
    /\ lived \in Seq(History)
    /\ Len(lived) = Len(dtcs)
    /\ Len(dtcs) <= MaxDtcs
    /\ \A i \in 1 .. Len(dtcs) : EntryRules(dtcs[i], lived[i])
    /\ \A i, j \in 1 .. Len(dtcs) : dtcs[i].code = dtcs[j].code => i = j

\* It is the conjunction of what the run checks.
LEMMA DtcIndImplies ==
    DtcInd => DtcTypeOK /\ StatusMeaning
BY DEF DtcInd, DtcTypeOK, StatusMeaning, EntryRules

\* An operation on the entries one by one, which keeps the codes and the
\* rules of each, keeps the invariant.
LEMMA EntrywiseKeepsInd ==
    ASSUME DtcInd,
           dtcs' = [i \in DOMAIN dtcs |-> dtcs'[i]],
           lived' = [i \in DOMAIN lived |-> lived'[i]],
           \A i \in 1 .. Len(dtcs) :
               EntryRules(dtcs'[i], lived'[i]) /\ dtcs'[i].code = dtcs[i].code
    PROVE  DtcInd'
<1> DEFINE n == Len(dtcs)
<1>1. n \in Nat /\ DOMAIN dtcs = 1 .. n /\ DOMAIN lived = 1 .. n
  BY LenProperties DEF DtcInd
<1>2. dtcs' \in [1 .. n -> Entry] /\ lived' \in [1 .. n -> History]
  BY <1>1 DEF EntryRules
<1> HIDE DEF n
<1>3. dtcs' \in Seq(Entry) /\ lived' \in Seq(History)
  <2>1. ASSUME NEW S, NEW f \in [1 .. n -> S] PROVE f \in Seq(S)
    <3>1. f \in UNION {[1 .. k -> S] : k \in Nat}
      BY <1>1, Zenon
    <3>2. QED
      BY <3>1, SeqDef, Zenon
  <2>2. QED
    BY <1>2, <2>1, Zenon
<1>4. Len(dtcs') = n /\ Len(lived') = n
  BY <1>1, <1>2, <1>3, LenProperties
<1>5. QED
  BY <1>3, <1>4 DEF DtcInd, n

LEMMA RegisterInd ==
    ASSUME DtcInd, NEW code \in Codes, Register(code)
    PROVE  DtcInd'
<1> DEFINE n == Len(dtcs)
<1>1. n \in Nat /\ DOMAIN dtcs = 1 .. n /\ n + 1 <= MaxDtcs
  BY DtcConstants DEF DtcInd, Register
<1>2. EntryRules(NewEntry(code), Unlived)
  BY NewEntryRules
<1>3. dtcs' \in Seq(Entry) /\ lived' \in Seq(History)
  BY <1>2 DEF DtcInd, Register, EntryRules
<1>4. Len(dtcs') = n + 1 /\ Len(lived') = n + 1
  BY DEF DtcInd, Register
<1>5. /\ dtcs'[n + 1] = NewEntry(code) /\ lived'[n + 1] = Unlived
      /\ \A i \in 1 .. n : dtcs'[i] = dtcs[i] /\ lived'[i] = lived[i]
  BY <1>1 DEF DtcInd, Register
<1>6. \A i \in 1 .. n : dtcs[i].code # code
  BY <1>1 DEF Register, Known
<1>7. NewEntry(code).code = code
  BY DEF NewEntry
<1>8. \A i \in 1 .. n + 1 : EntryRules(dtcs'[i], lived'[i])
  BY <1>1, <1>2, <1>5 DEF DtcInd
<1>9. \A i, j \in 1 .. n + 1 : dtcs'[i].code = dtcs'[j].code => i = j
  BY <1>1, <1>5, <1>6, <1>7 DEF DtcInd
<1>10. QED
  BY <1>1, <1>3, <1>4, <1>8, <1>9 DEF DtcInd

LEMMA SetTestResultInd ==
    ASSUME DtcInd, NEW code \in Codes, NEW failed \in BOOLEAN, SetTestResult(code, failed)
    PROVE  DtcInd'
<1>1. PICK i \in DOMAIN dtcs :
        /\ dtcs' = [dtcs EXCEPT ![i].status = StatusAfter(@, failed)]
        /\ lived' = [lived EXCEPT ![i] = Tested(@, failed)]
  BY DEF SetTestResult
<1>2. DOMAIN dtcs = 1 .. Len(dtcs) /\ DOMAIN lived = 1 .. Len(dtcs)
  BY LenProperties DEF DtcInd
<1>3. dtcs'[i] = [dtcs[i] EXCEPT !.status = StatusAfter(@, failed)]
      /\ lived'[i] = Tested(lived[i], failed)
  BY <1>1, <1>2
<1>4. EntryRules(dtcs'[i], lived'[i])
  BY <1>2, <1>3, TestRules DEF DtcInd
<1>5. dtcs'[i].code = dtcs[i].code
  BY <1>2, <1>3 DEF DtcInd, EntryRules, Entry
<1>6. \A j \in 1 .. Len(dtcs) : j # i => dtcs'[j] = dtcs[j] /\ lived'[j] = lived[j]
  BY <1>1, <1>2
<1>7. \A j \in 1 .. Len(dtcs) :
        EntryRules(dtcs'[j], lived'[j]) /\ dtcs'[j].code = dtcs[j].code
  BY <1>4, <1>5, <1>6 DEF DtcInd
<1>8. QED
  BY <1>1, <1>2, <1>7, EntrywiseKeepsInd

LEMMA SetSnapshotInd ==
    ASSUME DtcInd, NEW code \in Codes, NEW data \in Snapshots, SetSnapshot(code, data)
    PROVE  DtcInd'
<1>1. PICK i \in DOMAIN dtcs : dtcs' = [dtcs EXCEPT ![i].snapshot = data]
  BY DEF SetSnapshot
<1>2. DOMAIN dtcs = 1 .. Len(dtcs) /\ DOMAIN lived = 1 .. Len(dtcs)
  BY LenProperties DEF DtcInd
<1>3. lived' = lived /\ dtcs'[i] = [dtcs[i] EXCEPT !.snapshot = data]
  BY <1>1 DEF SetSnapshot
<1>4. EntryRules(dtcs'[i], lived'[i])
  BY <1>2, <1>3, SnapshotRules DEF DtcInd
<1>5. dtcs'[i].code = dtcs[i].code
  BY <1>2, <1>3 DEF DtcInd, EntryRules, Entry
<1>6. \A j \in 1 .. Len(dtcs) : j # i => dtcs'[j] = dtcs[j]
  BY <1>1, <1>2
<1>7. \A j \in 1 .. Len(dtcs) :
        EntryRules(dtcs'[j], lived'[j]) /\ dtcs'[j].code = dtcs[j].code
  BY <1>3, <1>4, <1>5, <1>6 DEF DtcInd
<1>8. dtcs' = [j \in DOMAIN dtcs |-> dtcs'[j]]
  BY <1>1
<1>9. lived' = [j \in DOMAIN lived |-> lived'[j]]
  <2>1. lived \in [1 .. Len(lived) -> History]
    BY LenProperties DEF DtcInd
  <2>2. QED
    BY <1>3, <2>1
<1>10. QED
  BY <1>7, <1>8, <1>9, EntrywiseKeepsInd

LEMMA UpdateOpCycleInd ==
    ASSUME DtcInd, UpdateOpCycle
    PROVE  DtcInd'
<1>1. DOMAIN dtcs = 1 .. Len(dtcs) /\ DOMAIN lived = 1 .. Len(dtcs)
  BY LenProperties DEF DtcInd
<1>2. \A i \in 1 .. Len(dtcs) :
        /\ dtcs'[i] = [dtcs[i] EXCEPT !.status = AfterCycle(@)]
        /\ lived'[i] = CycleEnded(lived[i])
  BY <1>1 DEF UpdateOpCycle
<1>3. ASSUME NEW i \in 1 .. Len(dtcs) PROVE EntryRules(dtcs'[i], lived'[i])
  <2>1. EntryRules(dtcs[i], lived[i])
    BY DEF DtcInd
  <2>2. EntryRules([dtcs[i] EXCEPT !.status = AfterCycle(@)], CycleEnded(lived[i]))
    BY <2>1, CycleRules
  <2>3. QED
    BY <1>2, <2>2
<1>4. \A i \in 1 .. Len(dtcs) : dtcs'[i].code = dtcs[i].code
  <2>1. \A i \in 1 .. Len(dtcs) : dtcs[i] \in Entry
    BY DEF DtcInd, EntryRules
  <2>2. QED
    BY <1>2, <2>1 DEF Entry
<1>5. dtcs' = [i \in DOMAIN dtcs |-> dtcs'[i]] /\ lived' = [i \in DOMAIN lived |-> lived'[i]]
  BY DEF UpdateOpCycle
<1>6. QED
  BY <1>3, <1>4, <1>5, EntrywiseKeepsInd

LEMMA ClearInd ==
    ASSUME DtcInd, NEW group \in SUBSET CodeBits, ClearDiagnosticInformation(group)
    PROVE  DtcInd'
<1>1. DOMAIN dtcs = 1 .. Len(dtcs) /\ DOMAIN lived = 1 .. Len(dtcs)
  BY LenProperties DEF DtcInd
<1>2. ASSUME NEW i \in 1 .. Len(dtcs)
      PROVE  EntryRules(dtcs'[i], lived'[i]) /\ dtcs'[i].code = dtcs[i].code
  <2>1. EntryRules(dtcs[i], lived[i]) /\ dtcs[i].code \in Codes
    BY DEF DtcInd, EntryRules, Entry
  <2>2. CASE InGroup(group, dtcs[i].code)
    <3>1. dtcs'[i] = NewEntry(dtcs[i].code) /\ lived'[i] = Unlived
      BY <1>1, <2>2 DEF ClearDiagnosticInformation, Cleared
    <3>2. NewEntry(dtcs[i].code).code = dtcs[i].code
      BY DEF NewEntry
    <3>3. QED
      BY <2>1, <3>1, <3>2, NewEntryRules
  <2>3. CASE ~InGroup(group, dtcs[i].code)
    BY <1>1, <2>1, <2>3 DEF ClearDiagnosticInformation
  <2>4. QED
    BY <2>2, <2>3
<1>3. dtcs' = [i \in DOMAIN dtcs |-> dtcs'[i]] /\ lived' = [i \in DOMAIN lived |-> lived'[i]]
  BY DEF ClearDiagnosticInformation
<1>4. QED
  BY <1>2, <1>3, EntrywiseKeepsInd

-----------------------------------------------------------------------------
\* Every step keeps the invariant.
LEMMA DtcNextInd ==
    ASSUME DtcInd, [DtcNext]_dtcVars
    PROVE  DtcInd'
<1>1. CASE \E code \in Codes : Register(code)
  BY <1>1, RegisterInd
<1>2. CASE \E code \in Codes, failed \in BOOLEAN : SetTestResult(code, failed)
  BY <1>2, SetTestResultInd
<1>3. CASE \E code \in Codes, data \in Snapshots : SetSnapshot(code, data)
  BY <1>3, SetSnapshotInd
<1>4. CASE UpdateOpCycle
  BY <1>4, UpdateOpCycleInd
<1>5. CASE \E group \in SUBSET CodeBits : ClearDiagnosticInformation(group)
  BY <1>5, ClearInd
<1>6. CASE UNCHANGED dtcVars
  BY <1>6 DEF dtcVars, DtcInd
<1>7. QED
  BY <1>1, <1>2, <1>3, <1>4, <1>5, <1>6 DEF DtcNext

LEMMA DtcInitInd == DtcInit => DtcInd
BY DtcConstants, EmptySeq DEF DtcInit, DtcInd

LEMMA DtcIndInvariant == DtcSpec => []DtcInd
<1>1. DtcInd /\ [DtcNext]_dtcVars => DtcInd'
  BY DtcNextInd
<1>2. QED
  BY <1>1, DtcInitInd, PTL DEF DtcSpec

\* The table holds at most MaxDtcs codes and none twice.
THEOREM DtcTypeCorrect == DtcSpec => []DtcTypeOK
BY DtcIndInvariant, DtcIndImplies, PTL

\* Every status byte has the last result, the failures since the clear and the tests
\* that were not run, and no bit of it is set without a failure to show for it.
THEOREM StatusMeaningCorrect == DtcSpec => []StatusMeaning
BY DtcIndInvariant, DtcIndImplies, PTL

-----------------------------------------------------------------------------
(* Induction, and folds over a table.                                      *)

\* Every non-empty set of numbers has a least one.
LEMMA LeastElement ==
    ASSUME NEW T \in SUBSET Nat, T # {}
    PROVE  \E x \in T : \A y \in T : x <= y
<1>1. PICK R : R = OpToRel(<, Nat)
  OBVIOUS
<1>2. IsWellFoundedOn(R, Nat)
  BY <1>1, NatLessThanWellFounded
<1>3. PICK x \in T : \A y \in T : ~ (<<y, x>> \in R)
  BY <1>2, WFMin
<1>4. ASSUME NEW y \in T PROVE x <= y
  <2>1. x \in Nat /\ y \in Nat
    OBVIOUS
  <2>2. SUFFICES ASSUME y < x PROVE FALSE
    BY <2>1
  <2>3. <<y, x>> \in OpToRel(<, Nat)
    BY <2>1, <2>2 DEF OpToRel
  <2>4. QED
    BY <1>1, <1>3, <2>3
<1>5. QED
  BY <1>4

\* Induction, over the numbers that are in a set.
LEMMA Upwards ==
    ASSUME NEW n \in Nat, NEW S, 0 \in S,
           \A k \in Nat : k < n /\ k \in S => k + 1 \in S
    PROVE  \A k \in 0 .. n : k \in S
<1>1. PICK T : T = (0 .. n) \ S
  OBVIOUS
<1>2. SUFFICES ASSUME T # {} PROVE FALSE
  BY <1>1
<1>3. PICK x \in T : \A y \in T : x <= y
  <2>1. T \in SUBSET Nat
    BY <1>1
  <2>2. QED
    BY <1>2, <2>1, LeastElement
<1>4. x \in 0 .. n /\ x # 0 /\ x \notin S
  BY <1>1
<1>5. PICK k \in Nat : k = x - 1 /\ k < n /\ k \in 0 .. n
  BY <1>4
<1>6. k \notin T
  <2>1. ~(x <= k)
    BY <1>4, <1>5
  <2>2. QED
    BY <1>3, <2>1
<1>7. QED
  BY <1>1, <1>4, <1>5, <1>6

\* G folded over 1 .. n, the greatest index last.
IsFold(f, n, T, b, G) ==
    /\ f \in [SUBSET (1 .. n) -> T]
    /\ \A s \in SUBSET (1 .. n) : f[s] = IF s = {} THEN b ELSE G[<<Max(s), f[s \ {Max(s)}]>>]

\* There is such a fold.
LEMMA FoldExists ==
    ASSUME NEW n \in Nat, NEW T, NEW b \in T, NEW G \in [(1 .. n) \X T -> T]
    PROVE  \E f : IsFold(f, n, T, b, G)
<1>1. PICK S : S = { m \in Nat : \E f : IsFold(f, m, T, b, G) }
  OBVIOUS
<1>2. 0 \in S
  <2>1. SUBSET (1 .. 0) = {{}}
    OBVIOUS
  <2>2. IsFold([s \in SUBSET (1 .. 0) |-> b], 0, T, b, G)
    BY <2>1 DEF IsFold
  <2>3. QED
    BY <1>1, <2>2
<1>3. ASSUME NEW m \in Nat, m < n, m \in S PROVE m + 1 \in S
  <2>1. PICK f : IsFold(f, m, T, b, G)
    BY <1>1, <1>3
  <2>2. PICK p \in 1 .. n : p = m + 1
    BY <1>3
  <2>3. PICK g : g = [s \in SUBSET (1 .. p) |-> IF p \in s THEN G[<<p, f[s \ {p}]>>] ELSE f[s]]
    OBVIOUS
  <2>4. ASSUME NEW s \in SUBSET (1 .. p) PROVE s \ {p} \in SUBSET (1 .. m)
    BY <2>2
  <2>5. g \in [SUBSET (1 .. p) -> T]
    <3>1. ASSUME NEW s \in SUBSET (1 .. p)
          PROVE  (IF p \in s THEN G[<<p, f[s \ {p}]>>] ELSE f[s]) \in T
      <4>1. f[s \ {p}] \in T
        BY <2>1, <2>4 DEF IsFold
      <4>2. CASE p \in s
        BY <4>1, <4>2
      <4>3. CASE p \notin s
        <5>1. s \ {p} = s
          BY <4>3
        <5>2. QED
          BY <4>1, <4>3, <5>1
      <4>4. QED
        BY <4>2, <4>3
    <3>2. QED
      BY <2>3, <3>1
  <2>6. ASSUME NEW s \in SUBSET (1 .. p), NEW x
        PROVE  s \ {x} \in SUBSET (1 .. p)
    OBVIOUS
  <2>7. ASSUME NEW s \in SUBSET (1 .. p)
        PROVE  g[s] = IF s = {} THEN b ELSE G[<<Max(s), g[s \ {Max(s)}]>>]
    <3>1. CASE p \in s
      <4>1. Max(s) = p
        <5>1. \A y \in s : y \in Int /\ p >= y
          BY <2>2
        <5>2. \A x \in s : (\A y \in s : x >= y) => x = p
          BY <2>2, <3>1
        <5>3. QED
          BY <3>1, <5>1, <5>2 DEF Max
      <4>2. p \notin s \ {p} /\ s \ {p} \in SUBSET (1 .. p)
        OBVIOUS
      <4>3. g[s \ {p}] = f[s \ {p}]
        BY <2>3, <4>2
      <4>4. QED
        BY <2>3, <3>1, <4>1, <4>3
    <3>2. CASE p \notin s
      <4>1. s \in SUBSET (1 .. m)
        BY <2>4, <3>2
      <4>2. PICK r : r = s \ {Max(s)}
        OBVIOUS
      <4>3. r \in SUBSET (1 .. p) /\ p \notin r
        BY <3>2, <4>2
      <4>4. g[s] = f[s] /\ g[r] = f[r]
        BY <2>3, <3>2, <4>3
      <4>5. QED
        BY <2>1, <4>1, <4>2, <4>4 DEF IsFold
    <3>3. QED
      BY <3>1, <3>2
  <2>8. IsFold(g, p, T, b, G)
    BY <2>5, <2>7 DEF IsFold
  <2>9. QED
    BY <1>1, <2>2, <2>8
<1>4. n \in S
  BY <1>2, <1>3, Upwards
<1>5. QED
  BY <1>1, <1>4

\* A set of some of the numbers up to n has a greatest one.
LEMMA GreatestIsIn ==
    ASSUME NEW n \in Nat, NEW s \in SUBSET (1 .. n), s # {}
    PROVE  Max(s) \in s
<1>1. PICK T : T = { n - x : x \in s }
  OBVIOUS
<1>2. T \in SUBSET Nat /\ T # {}
  <2>1. \A x \in s : n - x \in Nat
    OBVIOUS
  <2>2. PICK x : x \in s
    OBVIOUS
  <2>3. n - x \in T
    BY <1>1, <2>2
  <2>4. QED
    BY <1>1, <2>1, <2>3
<1>3. PICK y \in T : \A z \in T : y <= z
  BY <1>2, LeastElement
<1>4. PICK m \in s : y = n - m
  BY <1>1
<1>5. ASSUME NEW x \in s PROVE m >= x
  <2>1. n - x \in T
    BY <1>1
  <2>2. n - m <= n - x
    BY <1>3, <1>4, <2>1
  <2>3. m \in Nat /\ x \in Nat
    OBVIOUS
  <2>4. QED
    BY <2>2, <2>3
<1>6. QED
  BY <1>5 DEF Max

-----------------------------------------------------------------------------
(* What service 0x19 makes of the table.                                   *)

\* One turn of for_each() with write_dtc_cb().
Taken(mask, max, r, e) ==
    IF r.stopped \/ ~Selected(e.status, mask) THEN r
    ELSE IF ~Fits(r.pos, max) THEN [r EXCEPT !.stopped = TRUE]
    ELSE [r EXCEPT !.pos = @ + 4, !.list = Append(@, <<e.code, e.status \cap mask>>)]

Start == [pos |-> 3, list |-> <<>>, stopped |-> FALSE]

Listed == Codes \X SUBSET StatusBits

Progress == [pos : Nat, list : Seq(Listed), stopped : BOOLEAN]

\* A turn keeps the types.
LEMMA TakenType ==
    ASSUME NEW mask, NEW max, NEW r \in Progress, NEW e \in Entry
    PROVE  Taken(mask, max, r, e) \in Progress
<1>1. <<e.code, e.status \cap mask>> \in Listed
  BY DEF Listed, Entry
<1>2. Append(r.list, <<e.code, e.status \cap mask>>) \in Seq(Listed)
  BY <1>1 DEF Progress
<1>3. r.pos + 4 \in Nat
  BY DEF Progress
<1>4. PICK entry : entry = <<e.code, e.status \cap mask>> /\ Append(r.list, entry) \in Seq(Listed)
  BY <1>2
<1>5. /\ [r EXCEPT !.stopped = TRUE] \in Progress
      /\ [r EXCEPT !.pos = @ + 4, !.list = Append(@, entry)] \in Progress
  BY <1>3, <1>4 DEF Progress
<1>6. QED
  BY <1>4, <1>5 DEF Taken

\* The loop as a fold over the subsets of the table, greatest index last.
IsLoop(f, mask, max) ==
    f = [ s \in SUBSET (DOMAIN dtcs) |->
            IF s = {} THEN Start ELSE Taken(mask, max, f[s \ {Max(s)}], dtcs[Max(s)]) ]

\* If there is such a fold at all, the report is the list of one.
LEMMA ReportIsFold ==
    ASSUME NEW mask, NEW max, NEW g, IsLoop(g, mask, max)
    PROVE  \E f : IsLoop(f, mask, max) /\ ReportDtcs(mask, max) = f[DOMAIN dtcs].list
BY Zenon DEF ReportDtcs, FoldLeft, MapThenFoldSet, IsLoop, Taken, Start

\* There is one.
LEMMA LoopExists ==
    ASSUME NEW mask, NEW max, dtcs \in Seq(Entry)
    PROVE  \E g : IsLoop(g, mask, max)
<1>1. PICK n \in Nat : n = Len(dtcs) /\ DOMAIN dtcs = 1 .. n
  OBVIOUS
<1>2. PICK G : G = [ p \in (1 .. n) \X Progress |-> Taken(mask, max, p[2], dtcs[p[1]]) ]
  OBVIOUS
<1>3. ASSUME NEW p \in (1 .. n) \X Progress
      PROVE  Taken(mask, max, p[2], dtcs[p[1]]) \in Progress
  <2>1. p[2] \in Progress /\ dtcs[p[1]] \in Entry
    BY <1>1
  <2>2. QED
    BY <2>1, TakenType
<1>4. G \in [(1 .. n) \X Progress -> Progress]
  BY <1>2, <1>3
<1>5. Start \in Progress
  BY DEF Start, Progress
<1>6. PICK g : IsFold(g, n, Progress, Start, G)
  BY <1>4, <1>5, FoldExists
<1>7. ASSUME NEW s \in SUBSET (1 .. n)
      PROVE  g[s] = IF s = {} THEN Start ELSE Taken(mask, max, g[s \ {Max(s)}], dtcs[Max(s)])
  <2>1. CASE s = {}
    BY <1>6, <2>1 DEF IsFold
  <2>2. CASE s # {}
    <3>1. PICK m : m = Max(s)
      OBVIOUS
    <3>2. m \in 1 .. n
      <4>1. m \in s
        BY <2>2, <3>1, GreatestIsIn
      <4>2. QED
        BY <4>1
    <3>3. PICK r : r = g[s \ {m}]
      OBVIOUS
    <3>4. r \in Progress
      <4>1. s \ {m} \in SUBSET (1 .. n)
        OBVIOUS
      <4>2. QED
        BY <1>6, <3>3, <4>1 DEF IsFold
    <3>5. g[s] = G[<<m, r>>]
      BY <1>6, <2>2, <3>1, <3>3 DEF IsFold
    <3>6. G[<<m, r>>] = Taken(mask, max, r, dtcs[m])
      BY <1>2, <3>2, <3>4
    <3>7. QED
      BY <2>2, <3>1, <3>3, <3>5, <3>6
  <2>3. QED
    BY <2>1, <2>2
<1>8. g = [ s \in SUBSET (1 .. n) |-> g[s] ]
  BY <1>6 DEF IsFold
<1>9. IsLoop(g, mask, max)
  BY <1>1, <1>7, <1>8 DEF IsLoop
<1>10. QED
  BY <1>9

\* So the report is made in turns, one for each code of the table.
LEMMA ReportInTurns ==
    ASSUME NEW mask, NEW max, dtcs \in Seq(Entry)
    PROVE  \E r : /\ r[0] = Start
                  /\ \A k \in 1 .. Len(dtcs) : r[k] = Taken(mask, max, r[k - 1], dtcs[k])
                  /\ ReportDtcs(mask, max) = r[Len(dtcs)].list
<1>1. PICK n \in Nat : n = Len(dtcs) /\ DOMAIN dtcs = 1 .. n
  OBVIOUS
<1>2. PICK f : IsLoop(f, mask, max) /\ ReportDtcs(mask, max) = f[DOMAIN dtcs].list
  <2>1. PICK g : IsLoop(g, mask, max)
    BY LoopExists
  <2>2. QED
    BY <2>1, ReportIsFold
<1>3. PICK r : r = [ k \in 0 .. n |-> f[1 .. k] ]
  OBVIOUS
<1>4. r[0] = Start
  <2>1. 1 .. 0 = {} /\ {} \in SUBSET (1 .. n)
    OBVIOUS
  <2>2. f[{}] = Start
    BY <1>1, <1>2, <2>1 DEF IsLoop
  <2>3. QED
    BY <1>3, <2>1, <2>2
<1>5. ASSUME NEW k \in 1 .. n PROVE r[k] = Taken(mask, max, r[k - 1], dtcs[k])
  <2>1. PICK s : s = 1 .. k
    OBVIOUS
  <2>2. s \in SUBSET (1 .. n) /\ s # {} /\ s \ {k} = 1 .. k - 1
    <3>1. k \in s
      BY <2>1
    <3>2. \A x : x \in s \ {k} <=> x \in 1 .. k - 1
      BY <2>1
    <3>3. \A x \in s : x \in 1 .. n
      BY <1>1, <2>1
    <3>4. QED
      BY <3>1, <3>2, <3>3
  <2>3. Max(s) = k
    <3>1. \A y \in s : y \in Int /\ k >= y
      BY <2>1
    <3>2. k \in s /\ k \in Nat
      BY <2>1
    <3>3. ASSUME NEW x \in s, \A y \in s : x >= y PROVE x = k
      <4>1. x >= k /\ k >= x /\ x \in Int
        BY <2>1, <3>2, <3>3
      <4>2. QED
        BY <3>2, <4>1
    <3>4. QED
      BY <3>1, <3>2, <3>3 DEF Max
  <2>4. f[s] = Taken(mask, max, f[s \ {k}], dtcs[k])
    BY <1>1, <1>2, <2>2, <2>3 DEF IsLoop
  <2>5. r[k] = f[s] /\ r[k - 1] = f[s \ {k}]
    <3>1. k \in 0 .. n /\ k - 1 \in 0 .. n
      OBVIOUS
    <3>2. r[k] = f[1 .. k] /\ r[k - 1] = f[1 .. k - 1]
      BY <1>3, <3>1
    <3>3. QED
      BY <2>1, <2>2, <3>2
  <2>6. QED
    BY <2>4, <2>5
<1>6. r[n] = f[DOMAIN dtcs]
  BY <1>1, <1>3
<1>7. QED
  BY <1>1, <1>2, <1>4, <1>5, <1>6

-----------------------------------------------------------------------------
(* Counting.                                                               *)

\* How many elements of a set are among the first k numbers.
Among(A, k) == Cardinality({ i \in 1 .. k : i \in A })

LEMMA AmongNone == ASSUME NEW A PROVE Among(A, 0) = 0
<1>1. { i \in 1 .. 0 : i \in A } = {}
  OBVIOUS
<1>2. QED
  BY <1>1, FS_EmptySet DEF Among

\* The next number counts if it is in the set.
LEMMA AmongNext ==
    ASSUME NEW A, NEW k \in Nat
    PROVE  /\ Among(A, k) \in Nat
           /\ k + 1 \in A => Among(A, k + 1) = Among(A, k) + 1
           /\ k + 1 \notin A => Among(A, k + 1) = Among(A, k)
<1>1. PICK B, C : B = { i \in 1 .. k : i \in A } /\ C = { i \in 1 .. k + 1 : i \in A }
  OBVIOUS
<1>2. IsFiniteSet(B) /\ Cardinality(B) \in Nat
  <2>1. IsFiniteSet(1 .. k)
    BY FS_Interval
  <2>2. B \subseteq 1 .. k
    BY <1>1
  <2>3. QED
    BY <2>1, <2>2, FS_Subset, FS_CardinalityType
<1>3. CASE k + 1 \in A
  <2>1. PICK m : m = k + 1
    OBVIOUS
  <2>2. \A x : x \in C <=> x \in B \cup {m}
    BY <1>1, <1>3, <2>1
  <2>3. C = B \cup {m} /\ m \notin B
    BY <1>1, <2>1, <2>2
  <2>4. Cardinality(C) = Cardinality(B) + 1
    BY <1>2, <2>3, FS_AddElement
  <2>5. QED
    BY <1>1, <1>2, <1>3, <2>4 DEF Among
<1>4. CASE k + 1 \notin A
  <2>1. B = C
    BY <1>1, <1>4
  <2>2. QED
    BY <1>1, <1>2, <1>4, <2>1 DEF Among
<1>5. QED
  BY <1>3, <1>4

\* The count of more numbers is not less.
LEMMA AmongGrows ==
    ASSUME NEW A, NEW k \in Nat, NEW i \in 1 .. k
    PROVE  Among(A, i) <= Among(A, k) /\ (i \in A => Among(A, i) \in Nat \ {0})
<1>1. PICK S : S = { m \in Nat : m < i \/ Among(A, i) <= Among(A, m) }
  OBVIOUS
<1>2. 0 \in S
  BY <1>1
<1>3. ASSUME NEW m \in Nat, m < k, m \in S PROVE m + 1 \in S
  <2>1. CASE m + 1 < i
    BY <1>1, <2>1
  <2>2. CASE m + 1 = i
    <3>1. Among(A, i) \in Nat
      BY AmongNext
    <3>2. Among(A, i) <= Among(A, m + 1)
      BY <2>2, <3>1
    <3>3. QED
      BY <1>1, <3>2
  <2>3. CASE m >= i
    <3>1. Among(A, i) \in Nat /\ Among(A, m) \in Nat /\ Among(A, i) <= Among(A, m)
      BY <1>1, <1>3, <2>3, AmongNext
    <3>2. Among(A, m + 1) = Among(A, m) + 1 \/ Among(A, m + 1) = Among(A, m)
      BY AmongNext
    <3>3. QED
      BY <1>1, <3>1, <3>2
  <2>4. QED
    BY <2>1, <2>2, <2>3
<1>4. k \in S
  BY <1>2, <1>3, Upwards
<1>5. Among(A, i) <= Among(A, k)
  BY <1>1, <1>4
<1>6. ASSUME i \in A PROVE Among(A, i) \in Nat \ {0}
  <2>1. PICK h \in Nat : i = h + 1
    <3>1. i - 1 \in Nat /\ i = (i - 1) + 1
      OBVIOUS
    <3>2. QED
      BY <3>1
  <2>2. Among(A, h) \in Nat /\ Among(A, i) = Among(A, h) + 1
    BY <1>6, <2>1, AmongNext
  <2>3. QED
    BY <2>2
<1>7. QED
  BY <1>5, <1>6

-----------------------------------------------------------------------------
(* The report, code by code.                                               *)

Chosen(mask) == { i \in DOMAIN dtcs : Selected(dtcs[i].status, mask) }

Shown(i, mask) == <<dtcs[i].code, dtcs[i].status \cap mask>>

\* After k turns the codes chosen among the first k are listed, in order, all of
\* them unless one did not fit.
TurnRule(r, k, mask, max) ==
    /\ r \in Progress
    /\ r.pos = 3 + 4 * Len(r.list)
    /\ Len(r.list) <= Among(Chosen(mask), k)
    /\ r.list # <<>> => r.pos <= max
    /\ ~r.stopped => Len(r.list) = Among(Chosen(mask), k)
    /\ r.stopped => r.pos + 4 > max
    /\ \A i \in 1 .. k :
          i \in Chosen(mask) /\ Among(Chosen(mask), i) <= Len(r.list) =>
              r.list[Among(Chosen(mask), i)] = Shown(i, mask)
    /\ \A j \in 1 .. Len(r.list) : \E i \in 1 .. k : r.list[j] = Shown(i, mask)

\* A turn that lists nothing more.
LEMMA IdleTurn ==
    ASSUME NEW mask, NEW max \in Nat, NEW k \in Nat, NEW r, NEW t,
           TurnRule(r, k, mask, max), k + 1 \in DOMAIN dtcs,
           t \in Progress, t.pos = r.pos, t.list = r.list,
           t.stopped => t.pos + 4 > max,
           ~t.stopped => k + 1 \notin Chosen(mask) /\ ~r.stopped
    PROVE  TurnRule(t, k + 1, mask, max)
<1>1. PICK A : A = Chosen(mask)
  OBVIOUS
<1>2. PICK m : m = k + 1
  OBVIOUS
<1>3. PICK a, b : a = Among(A, k) /\ b = Among(A, m)
  OBVIOUS
<1>4. a \in Nat /\ (m \in A => b = a + 1) /\ (m \notin A => b = a)
  BY <1>2, <1>3, AmongNext
<1>5. PICK n \in Nat : n = Len(r.list)
  BY DEF TurnRule, Progress
<1>6. n <= a /\ (~r.stopped => n = a)
  BY <1>1, <1>3, <1>5 DEF TurnRule
<1>7. n <= b /\ (~t.stopped => n = b)
  BY <1>1, <1>2, <1>4, <1>6
<1>8. ASSUME NEW i \in 1 .. m, i \in A, Among(A, i) <= n
      PROVE  r.list[Among(A, i)] = Shown(i, mask)
  <2>1. CASE i \in 1 .. k
    BY <1>1, <1>5, <1>8, <2>1 DEF TurnRule
  <2>2. CASE i = m
    BY <1>3, <1>4, <1>6, <1>8, <2>2
  <2>3. QED
    BY <1>2, <2>1, <2>2
<1>9. ASSUME NEW j \in 1 .. n
      PROVE  \E i \in 1 .. m : r.list[j] = Shown(i, mask)
  <2>1. PICK i \in 1 .. k : r.list[j] = Shown(i, mask)
    BY <1>5 DEF TurnRule
  <2>2. i \in 1 .. m
    BY <1>2
  <2>3. QED
    BY <2>1, <2>2
<1>10. t.pos = 3 + 4 * n /\ (r.list # <<>> => t.pos <= max)
  BY <1>5 DEF TurnRule
<1>11. TurnRule(t, m, mask, max)
  BY <1>1, <1>3, <1>5, <1>7, <1>8, <1>9, <1>10 DEF TurnRule
<1>12. QED
  BY <1>2, <1>11

\* A turn that lists the next code.
LEMMA ListingTurn ==
    ASSUME NEW mask, NEW max \in Nat, NEW k \in Nat, NEW r, NEW t,
           TurnRule(r, k, mask, max), k + 1 \in Chosen(mask),
           ~r.stopped, r.pos + 4 <= max, Shown(k + 1, mask) \in Listed,
           t \in Progress, t.pos = r.pos + 4, ~t.stopped,
           t.list = Append(r.list, Shown(k + 1, mask))
    PROVE  TurnRule(t, k + 1, mask, max)
<1>1. PICK A : A = Chosen(mask)
  OBVIOUS
<1>2. PICK m : m = k + 1
  OBVIOUS
<1>3. PICK a, b : a = Among(A, k) /\ b = Among(A, m)
  OBVIOUS
<1>4. a \in Nat /\ b = a + 1
  BY <1>1, <1>2, <1>3, AmongNext
<1>5. PICK n \in Nat : n = Len(r.list)
  BY DEF TurnRule, Progress
<1>6. n = a /\ r.list \in Seq(Listed)
  BY <1>1, <1>3, <1>5 DEF TurnRule, Progress
<1>7. PICK s \in Listed : s = Shown(m, mask) /\ t.list = Append(r.list, s)
  BY <1>2
<1>8. /\ Len(t.list) = n + 1 /\ t.list[n + 1] = s
      /\ \A j \in 1 .. n : t.list[j] = r.list[j]
  <2>1. PICK q \in Seq(Listed) : q = r.list
    BY <1>6
  <2>2. /\ Len(Append(q, s)) = Len(q) + 1 /\ Append(q, s)[Len(q) + 1] = s
        /\ \A j \in 1 .. Len(q) : Append(q, s)[j] = q[j]
    OBVIOUS
  <2>3. QED
    BY <1>5, <1>7, <2>1, <2>2
<1>9. ASSUME NEW i \in 1 .. m, i \in A, Among(A, i) <= n + 1
      PROVE  t.list[Among(A, i)] = Shown(i, mask)
  <2>1. CASE i \in 1 .. k
    <3>1. Among(A, i) <= a /\ Among(A, i) \in Nat \ {0}
      BY <1>3, <1>9, <2>1, AmongGrows
    <3>2. Among(A, i) \in 1 .. n
      BY <1>6, <3>1
    <3>3. r.list[Among(A, i)] = Shown(i, mask)
      BY <1>1, <1>5, <1>9, <2>1, <3>2 DEF TurnRule
    <3>4. QED
      BY <1>8, <3>2, <3>3
  <2>2. CASE i = m
    BY <1>3, <1>4, <1>6, <1>7, <1>8, <2>2
  <2>3. i \in 1 .. k \/ i = m
    BY <1>2
  <2>4. QED
    BY <2>1, <2>2, <2>3
<1>10. ASSUME NEW j \in 1 .. n + 1
       PROVE  \E i \in 1 .. m : t.list[j] = Shown(i, mask)
  <2>1. CASE j \in 1 .. n
    <3>1. PICK i \in 1 .. k : r.list[j] = Shown(i, mask)
      BY <1>5, <2>1 DEF TurnRule
    <3>2. i \in 1 .. m
      BY <1>2
    <3>3. QED
      BY <1>8, <2>1, <3>1, <3>2
  <2>2. CASE j = n + 1
    <3>1. m \in 1 .. m
      BY <1>2
    <3>2. QED
      BY <1>7, <1>8, <2>2, <3>1
  <2>3. j \in 1 .. n \/ j = n + 1
    OBVIOUS
  <2>4. QED
    BY <2>1, <2>2, <2>3
<1>11. t.pos = 3 + 4 * (n + 1) /\ t.pos <= max
  BY <1>5 DEF TurnRule
<1>12. PICK l : l = t.list /\ Len(l) = n + 1 /\ b = n + 1
  BY <1>4, <1>6, <1>8
<1>13. /\ t.pos = 3 + 4 * Len(l) /\ t.pos <= max /\ Len(l) <= b /\ Len(l) = b
       /\ \A i \in 1 .. m : i \in A /\ Among(A, i) <= Len(l) => l[Among(A, i)] = Shown(i, mask)
       /\ \A j \in 1 .. Len(l) : \E i \in 1 .. m : l[j] = Shown(i, mask)
  <2>1. Len(l) \in Nat /\ t.pos = 3 + 4 * Len(l) /\ t.pos <= max /\ Len(l) <= b /\ Len(l) = b
    <3>1. t.list = l /\ Len(l) = n + 1 /\ Len(l) = b
      BY <1>12
    <3>2. QED
      BY <1>4, <1>11, <3>1
  <2>2. \A i \in 1 .. m : i \in A /\ Among(A, i) <= Len(l) => l[Among(A, i)] = Shown(i, mask)
    BY <1>9, <1>12
  <2>3. \A j \in 1 .. Len(l) : \E i \in 1 .. m : l[j] = Shown(i, mask)
    BY <1>10, <1>12
  <2>4. QED
    BY <2>1, <2>2, <2>3
<1>14. TurnRule(t, m, mask, max)
  BY <1>1, <1>3, <1>12, <1>13, Zenon DEF TurnRule
<1>15. QED
  BY <1>2, <1>14

\* Each turn keeps the rule.
LEMMA NextTurn ==
    ASSUME NEW mask, NEW max \in Nat, NEW k \in Nat, NEW r,
           dtcs \in Seq(Entry), k + 1 \in 1 .. Len(dtcs), TurnRule(r, k, mask, max)
    PROVE  TurnRule(Taken(mask, max, r, dtcs[k + 1]), k + 1, mask, max)
<1>1. PICK e \in Entry : e = dtcs[k + 1]
  OBVIOUS
<1>2. PICK t : t = Taken(mask, max, r, e)
  OBVIOUS
<1>3. r \in Progress /\ t \in Progress
  BY <1>2, TakenType DEF TurnRule
<1>4. k + 1 \in DOMAIN dtcs /\ (k + 1 \in Chosen(mask) <=> Selected(e.status, mask))
  BY <1>1 DEF Chosen
<1>5. CASE r.stopped \/ ~Selected(e.status, mask)
  <2>1. t = r
    BY <1>2, <1>5 DEF Taken
  <2>2. r.stopped => r.pos + 4 > max
    BY DEF TurnRule
  <2>3. QED
    BY <1>1, <1>2, <1>3, <1>4, <1>5, <2>1, <2>2, IdleTurn
<1>6. CASE ~r.stopped /\ Selected(e.status, mask) /\ ~(r.pos + 4 <= max)
  <2>1. t = [r EXCEPT !.stopped = TRUE]
    BY <1>2, <1>6 DEF Taken, Fits
  <2>2. t.pos = r.pos /\ t.list = r.list /\ t.stopped
    BY <1>3, <2>1 DEF Progress
  <2>3. t.pos + 4 > max
    <3>1. r.pos \in Nat
      BY <1>3 DEF Progress
    <3>2. QED
      BY <1>6, <2>2, <3>1
  <2>4. QED
    BY <1>1, <1>2, <1>3, <1>4, <2>2, <2>3, IdleTurn
<1>7. CASE ~r.stopped /\ Selected(e.status, mask) /\ r.pos + 4 <= max
  <2>1. PICK s : s = Shown(k + 1, mask)
    OBVIOUS
  <2>2. s = <<e.code, e.status \cap mask>> /\ s \in Listed
    BY <1>1, <2>1 DEF Shown, Listed, Entry
  <2>3. t = [r EXCEPT !.pos = @ + 4, !.list = Append(@, s)]
    BY <1>2, <1>7, <2>2 DEF Taken, Fits
  <2>4. t.pos = r.pos + 4 /\ t.list = Append(r.list, s) /\ ~t.stopped
    BY <1>3, <1>7, <2>3 DEF Progress
  <2>5. QED
    BY <1>1, <1>2, <1>3, <1>4, <1>7, <2>1, <2>2, <2>4, ListingTurn
<1>8. QED
  BY <1>5, <1>6, <1>7

\* What a request by status mask is answered with.
LEMMA ReportIs ==
    ASSUME NEW mask, NEW max \in Nat, dtcs \in Seq(Entry)
    PROVE  \E r : TurnRule(r, Len(dtcs), mask, max) /\ ReportDtcs(mask, max) = r.list
<1>1. PICK n \in Nat : n = Len(dtcs)
  OBVIOUS
<1>2. PICK r : /\ r[0] = Start
               /\ \A k \in 1 .. n : r[k] = Taken(mask, max, r[k - 1], dtcs[k])
               /\ ReportDtcs(mask, max) = r[n].list
  BY <1>1, ReportInTurns
<1>3. PICK S : S = { k \in Nat : TurnRule(r[k], k, mask, max) }
  OBVIOUS
<1>4. 0 \in S
  <2>1. Start \in Progress /\ Start.pos = 3 /\ Start.list = <<>> /\ ~Start.stopped
    BY DEF Start, Progress
  <2>2. Among(Chosen(mask), 0) = 0 /\ Len(<<>>) = 0
    BY AmongNone
  <2>3. 1 .. 0 = {}
    OBVIOUS
  <2>4. TurnRule(Start, 0, mask, max)
    BY <2>1, <2>2, <2>3 DEF TurnRule
  <2>5. QED
    BY <1>2, <1>3, <2>4
<1>5. ASSUME NEW k \in Nat, k < n, k \in S PROVE k + 1 \in S
  <2>1. k + 1 \in 1 .. n /\ (k + 1) - 1 = k
    BY <1>5
  <2>2. r[k + 1] = Taken(mask, max, r[k], dtcs[k + 1])
    BY <1>2, <2>1
  <2>3. TurnRule(r[k], k, mask, max)
    BY <1>3, <1>5
  <2>4. TurnRule(r[k + 1], k + 1, mask, max)
    BY <1>1, <2>1, <2>2, <2>3, NextTurn
  <2>5. QED
    BY <1>3, <2>4
<1>6. \A k \in 0 .. n : k \in S
  BY <1>4, <1>5, Upwards
<1>7. n \in S
  BY <1>6
<1>8. QED
  BY <1>1, <1>2, <1>3, <1>7

\* The codes a mask of one bit chooses are those whose history says so.
LEMMA ChosenLived ==
    ASSUME DtcInd, NEW bit \in {"testFailed", "testFailedSinceLastClear", "testNotCompletedThisOpCycle"},
           NEW i \in 1 .. Len(dtcs)
    PROVE  i \in Chosen({bit}) <=> Lived(i, bit)
<1>1. EntryRules(dtcs[i], lived[i]) /\ i \in DOMAIN dtcs
  BY DEF DtcInd
<1>2. {bit} # StatusBits
  BY DEF StatusBits
<1>3. Selected(dtcs[i].status, {bit}) <=> bit \in dtcs[i].status
  BY <1>2 DEF Selected
<1>4. bit \in dtcs[i].status <=> Lived(i, bit)
  <2>1. Meaning(dtcs[i].status, lived[i])
    BY <1>1 DEF EntryRules
  <2>2. CASE bit = "testFailed"
    BY <2>1, <2>2 DEF Meaning, Lived
  <2>3. CASE bit = "testFailedSinceLastClear"
    BY <2>1, <2>3 DEF Meaning, Lived
  <2>4. CASE bit = "testNotCompletedThisOpCycle"
    BY <2>1, <2>4 DEF Meaning, Lived
  <2>5. QED
    BY <2>2, <2>3, <2>4
<1>5. QED
  BY <1>1, <1>3, <1>4 DEF Chosen

\* What the report by one bit promises: ReportTruthful, for one bit and one buffer.
ReportedByBit(bit, max) ==
    LET report == ReportDtcs({bit}, max)
        all == Living(Len(dtcs), bit)
    IN  /\ CountByStatus({bit}) = all
        /\ Len(report) <= all
        /\ Len(report) < all => 3 + 4 * (Len(report) + 1) > max
        /\ report # <<>> => 3 + 4 * Len(report) <= max
        /\ \A i \in DOMAIN dtcs :
              Lived(i, bit) /\ Living(i, bit) <= Len(report) =>
                  report[Living(i, bit)][1] = dtcs[i].code

\* The report by one bit is the truth about the tests: the turns of the loop list the
\* chosen codes in their order.
LEMMA ReportByBit ==
    ASSUME DtcInd, NEW bit \in {"testFailed", "testFailedSinceLastClear", "testNotCompletedThisOpCycle"},
           NEW max \in Nat
    PROVE  ReportedByBit(bit, max)
<1> DEFINE report == ReportDtcs({bit}, max)
           all == Living(Len(dtcs), bit)
<1> HIDE DEF report, all
<1>1. PICK n \in Nat : n = Len(dtcs) /\ DOMAIN dtcs = 1 .. n
  BY DEF DtcInd
<1>2. PICK A : A = Chosen({bit})
  OBVIOUS
<1>3. \A i \in 1 .. n : i \in A <=> Lived(i, bit)
  BY <1>1, <1>2, ChosenLived
<1>4. ASSUME NEW k \in 0 .. n PROVE Living(k, bit) = Among(A, k)
  <2>1. { j \in 1 .. k : Lived(j, bit) } = { j \in 1 .. k : j \in A }
    BY <1>3
  <2>2. QED
    BY <2>1 DEF Living, Among
<1>5. CountByStatus({bit}) = Among(A, n)
  <2>1. A = { j \in 1 .. n : j \in A }
    BY <1>1, <1>2 DEF Chosen
  <2>2. CountByStatus({bit}) = Cardinality(A)
    BY <1>2 DEF CountByStatus, Chosen
  <2>3. QED
    BY <2>1, <2>2 DEF Among
<1>6. all = Among(A, n) /\ all \in Nat
  BY <1>1, <1>4, AmongNext DEF all
<1>7. PICK r : TurnRule(r, n, {bit}, max) /\ report = r.list
  <2>1. dtcs \in Seq(Entry)
    BY DEF DtcInd
  <2>2. QED
    BY <1>1, <2>1, ReportIs DEF report
<1>8. PICK m \in Nat : m = Len(report) /\ r.pos = 3 + 4 * m
  BY <1>7 DEF TurnRule, Progress
<1>9. m <= all /\ (~r.stopped => m = all) /\ (r.stopped => r.pos + 4 > max)
      /\ (report # <<>> => r.pos <= max)
  BY <1>2, <1>6, <1>7, <1>8 DEF TurnRule
<1>10. m < all => 3 + 4 * (m + 1) > max
  BY <1>6, <1>8, <1>9
<1>11. ASSUME NEW i \in 1 .. n, Lived(i, bit), Living(i, bit) <= m
       PROVE  report[Living(i, bit)][1] = dtcs[i].code
  <2>1. i \in A /\ Living(i, bit) = Among(A, i)
    BY <1>3, <1>4, <1>11
  <2>2. \A j \in 1 .. n : j \in A /\ Among(A, j) <= Len(r.list) =>
            r.list[Among(A, j)] = Shown(j, {bit})
    BY <1>2, <1>7 DEF TurnRule
  <2>3. report[Among(A, i)] = Shown(i, {bit})
    BY <1>7, <1>8, <1>11, <2>1, <2>2
  <2>4. PICK c, d : c = dtcs[i].code /\ report[Among(A, i)] = <<c, d>>
    BY <2>3 DEF Shown
  <2>5. report[Among(A, i)][1] = c
    <3>1. <<c, d>>[1] = c
      OBVIOUS
    <3>2. QED
      BY <2>4, <3>1, Zenon
  <2>6. QED
    BY <2>1, <2>4, <2>5
<1>12. QED
  <2>1. CountByStatus({bit}) = all
    BY <1>5, <1>6
  <2>2. Len(report) < all => 3 + 4 * (Len(report) + 1) > max
    BY <1>8, <1>10
  <2>3. Len(report) <= all /\ (report # <<>> => 3 + 4 * Len(report) <= max)
    BY <1>8, <1>9
  <2>4. \A i \in DOMAIN dtcs :
           Lived(i, bit) /\ Living(i, bit) <= Len(report) =>
               report[Living(i, bit)][1] = dtcs[i].code
    BY <1>1, <1>8, <1>11
  <2>5. QED
    BY <2>1, <2>2, <2>3, <2>4, Zenon DEF ReportedByBit, report, all

\* And a code is listed as failed in this cycle only if it has.
LEMMA ReportOfCycle ==
    ASSUME DtcInd, NEW mask, NEW max \in Nat, NEW k \in DOMAIN ReportDtcs(mask, max)
    PROVE  \E i \in DOMAIN dtcs :
              /\ ReportDtcs(mask, max)[k] = <<dtcs[i].code, dtcs[i].status \cap mask>>
              /\ "testFailedThisOpCycle" \in ReportDtcs(mask, max)[k][2] => lived[i].cycleFailed
<1>1. PICK n \in Nat : n = Len(dtcs) /\ DOMAIN dtcs = 1 .. n
  BY DEF DtcInd
<1>2. PICK report : report = ReportDtcs(mask, max)
  OBVIOUS
<1>3. PICK r : TurnRule(r, n, mask, max) /\ report = r.list
  <2>1. dtcs \in Seq(Entry)
    BY DEF DtcInd
  <2>2. QED
    BY <1>1, <1>2, <2>1, ReportIs
<1>4. k \in 1 .. Len(r.list)
  <2>1. r.list \in Seq(Listed)
    BY <1>3 DEF TurnRule, Progress
  <2>2. QED
    BY <1>2, <1>3, <2>1
<1>5. PICK i \in 1 .. n : report[k] = Shown(i, mask)
  BY <1>3, <1>4 DEF TurnRule
<1>6. EntryRules(dtcs[i], lived[i])
  BY <1>1 DEF DtcInd
<1>7. report[k][2] = dtcs[i].status \cap mask
  BY <1>5 DEF Shown
<1>8. "testFailedThisOpCycle" \in report[k][2] => lived[i].cycleFailed
  BY <1>6, <1>7 DEF EntryRules, Meaning
<1>9. QED
  BY <1>1, <1>2, <1>5, <1>8 DEF Shown

\* What service 0x19 reports is the truth, for any table, mask and buffer: the
\* count and the list by one bit have the codes whose tests went so, cut only where
\* the buffer ends, and no code is listed as failed in a cycle in which it has not.
THEOREM ReportTruthfulCorrect == DtcSpec => []ReportTruthful
<1>1. DtcInd => ReportTruthful
  <2> SUFFICES ASSUME DtcInd PROVE ReportTruthful
    OBVIOUS
  <2>1. ReportRoom \subseteq Nat
    BY ReportConstants
  <2>2. ASSUME NEW bit \in {"testFailed", "testFailedSinceLastClear", "testNotCompletedThisOpCycle"},
               NEW max \in ReportRoom
        PROVE  ReportedByBit(bit, max)
    BY <2>1, ReportByBit
  <2>3. ASSUME NEW mask \in StatusMasks, NEW max \in ReportRoom, NEW k \in DOMAIN ReportDtcs(mask, max)
        PROVE  \E i \in DOMAIN dtcs :
                  /\ ReportDtcs(mask, max)[k] = <<dtcs[i].code, dtcs[i].status \cap mask>>
                  /\ "testFailedThisOpCycle" \in ReportDtcs(mask, max)[k][2] =>
                         lived[i].cycleFailed
    BY <2>1, ReportOfCycle
  <2>4. QED
    BY <2>2, <2>3, Zenon DEF ReportTruthful, ReportedByBit
<1>2. QED
  BY <1>1, DtcIndInvariant, PTL
=============================================================================
