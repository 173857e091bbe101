------------------------------ MODULE DtcReport ------------------------------
(***************************************************************************)
(* ReadDTCInformation (0x19) on the table of trouble codes: how many have  *)
(* a status bit of a mask, and which.  It changes nothing.  Sub-functions  *)
(* 0x02 and 0x0A are handled alike, mask and all.                          *)
(***************************************************************************)
EXTENDS DtcManager, SequencesExt, FiniteSets

CONSTANTS StatusMasks,  \* status masks of requests
          ReportRoom    \* sizes of the response buffer: sizeof(m_resp_buf) in the code

ASSUME ReportConstants == StatusMasks \subseteq SUBSET StatusBits /\ ReportRoom \subseteq Nat

\* A mask of 0xFF selects every code, also one whose status is 0.
Selected(status, mask) == mask = StatusBits \/ status \cap mask # {}

\* count_by_status()
CountByStatus(mask) == Cardinality({ i \in DOMAIN dtcs : Selected(dtcs[i].status, mask) })

\* Mutant: a code that fits exactly is left out.
FitsTightly(pos, max) == pos + 4 < max

Fits(pos, max) == pos + 4 <= max

\* for_each() with write_dtc_cb(): four bytes a code, until one does not fit.
ReportDtcs(mask, max) ==
    LET Report(r, e) ==
            IF r.stopped \/ ~Selected(e.status, mask) THEN r
            ELSE IF ~Fits(r.pos, max) THEN [r EXCEPT !.stopped = TRUE]
            ELSE [r EXCEPT !.pos = @ + 4,
                           !.list = Append(@, <<e.code, e.status \cap mask>>)]
    IN  FoldLeft(Report, [pos |-> 3, list |-> <<>>, stopped |-> FALSE], dtcs).list

-----------------------------------------------------------------------------
\* The codes whose history has what a mask of one bit asks for, if it says so.
Lived(i, bit) ==
    CASE bit = "testFailed" -> lived[i].last = "failed"
      [] bit = "testFailedSinceLastClear" -> lived[i].failed
      [] bit = "testNotCompletedThisOpCycle" -> ~lived[i].cycleTested

\* How many of them are among the first i of the table.
Living(i, bit) == Cardinality({ j \in 1 .. i : Lived(j, bit) })

\* What a tester reads is the truth about the codes: a list by one status bit has
\* the codes whose tests went so, in the order of the table and each once, and is
\* cut only where the buffer ends; the count says how many there are, so a list
\* that was cut is known to be (UdsServer's buffer has room for all 64 codes and
\* never cuts one); and a code listed as failed in this cycle has failed in it.
ReportTruthful ==
    /\ \A bit \in {"testFailed", "testFailedSinceLastClear", "testNotCompletedThisOpCycle"},
          max \in ReportRoom :
          LET report == ReportDtcs({bit}, max)
              all == Living(Len(dtcs), bit)
          IN  /\ CountByStatus({bit}) = all
              /\ Len(report) <= all
              /\ Len(report) < all => 3 + 4 * (Len(report) + 1) > max
              /\ report # <<>> => 3 + 4 * Len(report) <= max
              /\ \A i \in DOMAIN dtcs :
                    Lived(i, bit) /\ Living(i, bit) <= Len(report) =>
                        report[Living(i, bit)][1] = dtcs[i].code
    /\ \A mask \in StatusMasks, max \in ReportRoom : \A k \in DOMAIN ReportDtcs(mask, max) :
          \E i \in DOMAIN dtcs :
              /\ ReportDtcs(mask, max)[k] = <<dtcs[i].code, dtcs[i].status \cap mask>>
              /\ "testFailedThisOpCycle" \in ReportDtcs(mask, max)[k][2] => lived[i].cycleFailed
=============================================================================
