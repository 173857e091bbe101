----------------------------- MODULE DtcManager -----------------------------
(***************************************************************************)
(* The trouble codes of the ECU (class DtcManager): a table of codes, each *)
(* with the status byte of ISO 14229-1 D.2 and a snapshot.  The            *)
(* application registers codes, reports test results and snapshots and     *)
(* ends operation cycles; the tester clears them with service 0x14.        *)
(*                                                                         *)
(* A code and a status byte are the sets of their bits.                    *)
(***************************************************************************)
EXTENDS Integers, Sequences

CONSTANTS
    CodeBits,       \* bits of a code: 0 .. 23
    Codes,          \* codes the application knows
    MaxDtcs,        \* kMaxDtcs: 64
    Snapshots,      \* snapshot data
    NoSnapshot      \* snapshot_len = 0

ASSUME DtcConstants ==
    /\ Codes \subseteq SUBSET CodeBits
    /\ MaxDtcs \in Nat
    /\ NoSnapshot \notin Snapshots

VARIABLES
    dtcs,       \* m_dtcs, the first m_count entries
    lived       \* history: per entry, its tests since the clear, in this cycle
                \* and in the one before

dtcVars == <<dtcs, lived>>

StatusBits == {"testFailed", "testFailedThisOpCycle", "pendingDtc", "confirmedDtc",
               "testNotCompletedSinceLastClear", "testFailedSinceLastClear",
               "testNotCompletedThisOpCycle", "warningIndicatorRequested"}

NotTested == {"testNotCompletedSinceLastClear", "testNotCompletedThisOpCycle"}

Entry == [code : Codes, status : SUBSET StatusBits, snapshot : Snapshots \cup {NoSnapshot}]

History == [last : {"none", "failed", "passed"}, failed : BOOLEAN,
            cycleTested : BOOLEAN, cycleFailed : BOOLEAN, lastCycleFailed : BOOLEAN]

NewEntry(code) == [code |-> code, status |-> NotTested, snapshot |-> NoSnapshot]

Unlived == [last |-> "none", failed |-> FALSE,
            cycleTested |-> FALSE, cycleFailed |-> FALSE, lastCycleFailed |-> FALSE]

DtcInit == dtcs = <<>> /\ lived = <<>>

-----------------------------------------------------------------------------
\* Mutant: register_dtc() does not look for the code.
KnownNever(code) == FALSE

\* find(): codes are distinct, so at most one entry.
Known(code) == \E i \in DOMAIN dtcs : dtcs[i].code = code

\* register_dtc() refuses a full table and a code that is there.
Register(code) ==
    /\ Len(dtcs) < MaxDtcs
    /\ ~Known(code)
    /\ dtcs' = Append(dtcs, NewEntry(code))
    /\ lived' = Append(lived, Unlived)

\* A passed test takes back what a failed one of the same cycle has set.
StatusAfter(status, failed) ==
    LET tested == status \ NotTested IN
    IF failed
    THEN tested \cup {"testFailed", "testFailedThisOpCycle", "testFailedSinceLastClear",
                      "pendingDtc", "confirmedDtc"}
    ELSE tested \ {"testFailed", "testFailedThisOpCycle", "pendingDtc"}

Tested(life, failed) ==
    [last |-> IF failed THEN "failed" ELSE "passed",
     failed |-> life.failed \/ failed,
     cycleTested |-> TRUE,
     cycleFailed |-> life.cycleFailed \/ failed,
     lastCycleFailed |-> life.lastCycleFailed]

SetTestResult(code, failed) ==
    \E i \in DOMAIN dtcs :
        /\ dtcs[i].code = code
        /\ dtcs' = [dtcs EXCEPT ![i].status = StatusAfter(@, failed)]
        /\ lived' = [lived EXCEPT ![i] = Tested(@, failed)]

\* set_snapshot(); set_freeze_frame() ignores its record number and is the same.
SetSnapshot(code, data) ==
    /\ \E i \in DOMAIN dtcs :
          dtcs[i].code = code /\ dtcs' = [dtcs EXCEPT ![i].snapshot = data]
    /\ UNCHANGED lived

\* Mutant: testFailedThisOpCycle survives the end of the cycle.
AfterCycleFailedKept(status) == status \cup {"testNotCompletedThisOpCycle"}

AfterCycle(status) ==
    (status \ {"testFailedThisOpCycle"}) \cup {"testNotCompletedThisOpCycle"}

CycleEnded(life) == [life EXCEPT !.cycleTested = FALSE, !.cycleFailed = FALSE,
                                 !.lastCycleFailed = life.cycleFailed]

UpdateOpCycle ==
    /\ dtcs' = [i \in DOMAIN dtcs |-> [dtcs[i] EXCEPT !.status = AfterCycle(@)]]
    /\ lived' = [i \in DOMAIN lived |-> CycleEnded(lived[i])]

\* clear_all() for group 0xFFFFFF, else clear_group(): every code that has all
\* the bits of the group (all of them, when the group is 0).
InGroup(group, code) == group = CodeBits \/ group \subseteq code

Cleared(e) == NewEntry(e.code)

ClearDiagnosticInformation(group) ==
    /\ dtcs' = [i \in DOMAIN dtcs |->
                   IF InGroup(group, dtcs[i].code) THEN Cleared(dtcs[i]) ELSE dtcs[i]]
    /\ lived' = [i \in DOMAIN lived |->
                   IF InGroup(group, dtcs[i].code) THEN Unlived ELSE lived[i]]

DtcNext ==
    \/ \E code \in Codes : Register(code)
    \/ \E code \in Codes, failed \in BOOLEAN : SetTestResult(code, failed)
    \/ \E code \in Codes, data \in Snapshots : SetSnapshot(code, data)
    \/ UpdateOpCycle
    \/ \E group \in SUBSET CodeBits : ClearDiagnosticInformation(group)

DtcSpec == DtcInit /\ [][DtcNext]_dtcVars

-----------------------------------------------------------------------------
\* Types; no code is registered twice.
DtcTypeOK ==
    /\ dtcs \in Seq(Entry)
    /\ lived \in Seq(History)
    /\ Len(dtcs) <= MaxDtcs
    /\ Len(lived) = Len(dtcs)
    /\ \A i, j \in DOMAIN dtcs : dtcs[i].code = dtcs[j].code => i = j

Meaning(status, life) ==
    /\ "testFailed" \in status <=> life.last = "failed"
    /\ "testFailedSinceLastClear" \in status <=> life.failed
    /\ "testNotCompletedSinceLastClear" \in status <=> life.last = "none"
    /\ "testNotCompletedThisOpCycle" \in status <=> ~life.cycleTested
    /\ "testFailedThisOpCycle" \in status => life.cycleFailed
    /\ "pendingDtc" \in status => life.failed
    /\ "confirmedDtc" \in status => life.failed

\* Whatever tests, cycles and clears have come, four bits of the status byte mean
\* what docs/dtc_status_bits.md says: the last result, a failure since the clear,
\* and a test since the clear and in this cycle.  Of three bits only half is
\* claimed, that none is set without a failure, in this cycle or since the clear:
\* what the document says of the first two is CycleFailuresKept below, and the
\* threshold it has for confirmedDTC is nowhere in the code.
StatusMeaning == \A i \in DOMAIN dtcs : Meaning(dtcs[i].status, lived[i])

-----------------------------------------------------------------------------
\* What the documentation says and the code does not keep: testFailedThisOperation-
\* Cycle is "Failed at least once this cycle" (docs/dtc_status_bits.md:8) and
\* pendingDTC "Failed in current or previous cycle" (:9), whatever the later tests
\* say.  A passed test takes both back.
CycleFailuresKept ==
    \A i \in DOMAIN dtcs :
        /\ "testFailedThisOpCycle" \in dtcs[i].status <=> lived[i].cycleFailed
        /\ "pendingDtc" \in dtcs[i].status <=>
              lived[i].cycleFailed \/ lived[i].lastCycleFailed
=============================================================================
