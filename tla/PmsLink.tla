------------------------------- MODULE PmsLink -------------------------------
(***************************************************************************)
(* What a worker and PMS say to each other about a session: the gate is    *)
(* asked while the argv is rewritten (PassGate), the reports are made once *)
(* ffmpeg runs (Progress), and both depend on the same PMS. Of the tasks   *)
(* on the worker, Reported's is followed past its check.                   *)
(***************************************************************************)
EXTENDS PassGate, Progress

CONSTANT Reported

ASSUME ReportedAssumption == Reported \in Sessions

linkVars == << pms, active, wants, gate, report >>

LinkTypeOK ==
  /\ PmsTypeOK
  /\ GateTypeOK
  /\ ReportTypeOK
  /\ running => check[Reported].at = "decided"

LinkInit == PmsInit /\ GateInit /\ ReportInit

\* handleTask: the argv is rewritten, hwAccelAllowed with it, then ffmpeg started
\* and the prelude's and the reporter's goroutines.
Starts ==
  /\ check[Reported].at = "decided"
  /\ ReportStarts
  /\ UNCHANGED gate

ReportStep == Reports /\ UNCHANGED gate

GateStep ==
  /\ \E s \in Sessions : (s = Reported => ~ running) /\ (Arrives(s) \/ Checks(s))
  /\ UNCHANGED report

LinkNext ==
  \/ GateStep
  \/ (PmsMoves \/ Tick) /\ UNCHANGED report
  \/ Starts
  \/ ReportStep
  \/ ReportEnds /\ UNCHANGED gate

(***************************************************************************)
(* A PUT ends within its timeout, and ffmpeg reports its progress for as   *)
(* long as it runs, throttled or not. Nothing is assumed of the gate.      *)
(***************************************************************************)
LinkFairness ==
  /\ WF_linkVars(SendPrelude /\ UNCHANGED gate)
  /\ WF_linkVars(putProgressTick /\ UNCHANGED gate)
  /\ \A g \in Goroutines : WF_linkVars((Answered(g) \/ Applied(g)) /\ UNCHANGED gate)

LinkSpec == LinkInit /\ [][LinkNext]_linkVars /\ LinkFairness

=============================================================================
