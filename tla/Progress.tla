------------------------------- MODULE Progress -------------------------------
(***************************************************************************)
(* The reports one session's agent makes to PMS (worker/agent/             *)
(* progress_report.go): the prelude's PUTs and, at the same time, one PUT  *)
(* for every block of ffmpeg's -progress output. Every answer may clear    *)
(* the throttle signal; only a progress PUT's can set it. While it is on,  *)
(* reports leave out the speed.                                            *)
(***************************************************************************)
EXTENDS Pms

CONSTANT Prelude  \* how many PUTs sendPrelude makes

ASSUME PreludeAssumption == Prelude \in Nat

VARIABLES
  running,  \* ffmpeg runs, and the goroutines with it
  throttle, \* throttleSignal
  left,     \* PUTs of the prelude not sent yet
  put,      \* each goroutine's PUT: its state or its answer
  asserted, \* history: PMS's last answer to a progress PUT asserted canThrottle
  failed    \* history: a PUT has failed since then

report == << running, throttle, left, put, asserted, failed >>
reportVars == << pms, active, wants, report >>

Goroutines == {"prelude", "progress"}

ReportTypeOK ==
  /\ {running, throttle, asserted, failed} \subseteq BOOLEAN
  /\ left \in 0..Prelude
  /\ put \in [Goroutines -> {"none", "sent", "ok", "canThrottle", "failed"}]
  /\ ~ running => ~ throttle /\ \A g \in Goroutines : put[g] = "none"

ReportInit ==
  /\ running = FALSE
  /\ throttle = FALSE
  /\ left = 0
  /\ put = [g \in Goroutines |-> "none"]
  /\ asserted = FALSE
  /\ failed = FALSE

-----------------------------------------------------------------------------
\* With a signal of its own: &throttleSignal{}.
ReportStarts ==
  /\ ~ running
  /\ running' = TRUE
  /\ left' = Prelude
  /\ throttle' = FALSE
  /\ UNCHANGED << pms, active, wants, put, asserted, failed >>

\* ffmpeg ends, and the context with it: what PUTs are under way come to nothing.
ReportEnds ==
  /\ running
  /\ running' = FALSE
  /\ throttle' = FALSE
  /\ left' = 0
  /\ put' = [g \in Goroutines |-> "none"]
  /\ asserted' = FALSE
  /\ failed' = FALSE
  /\ UNCHANGED << pms, active, wants >>

SendPrelude ==
  /\ put["prelude"] = "none"
  /\ left > 0
  /\ left' = left - 1
  /\ put' = [put EXCEPT !["prelude"] = "sent"]
  /\ UNCHANGED << pms, active, wants, running, throttle, asserted, failed >>

\* A block of -progress is complete: speed goes with it unless throttle is on.
putProgressTick ==
  /\ running
  /\ put["progress"] = "none"
  /\ put' = [put EXCEPT !["progress"] = "sent"]
  /\ UNCHANGED << pms, active, wants, running, throttle, left, asserted, failed >>

\* PMS answers, or nobody does for four seconds. It may refuse a PUT of the prelude.
Answers(g) ==
  IF pms # "up" THEN {"failed"}
  ELSE IF g = "prelude" THEN {"ok", "failed"}
  ELSE {IF wants THEN "canThrottle" ELSE "ok"}

Answered(g) ==
  /\ put[g] = "sent"
  /\ \E a \in Answers(g) :
       /\ put' = [put EXCEPT ![g] = a]
       /\ asserted' = IF g = "progress" /\ a # "failed" THEN a = "canThrottle" ELSE asserted
       /\ failed' = (failed /\ (g = "progress" => a = "failed"))
  /\ UNCHANGED << pms, active, wants, running, throttle, left >>

\* Mutant: a failure leaves the signal alone.
FailureIgnored(g) == IF put[g] = "failed" \/ g = "prelude" THEN throttle ELSE put[g] = "canThrottle"

\* Mutant: whatever kind of PUT it was.
AnyKind(g) == put[g] = "canThrottle"

\* Mutant: the signal is only ever set.
Sticky(g) == put[g] # "failed" /\ (throttle \/ put[g] = "canThrottle")

\* doPlexPUT: any failure clears the signal, a progress PUT's success sets it anew.
Signal(g) ==
  CASE put[g] = "failed" -> FALSE
    [] put[g] # "failed" /\ g = "progress" -> put[g] = "canThrottle"
    [] OTHER -> throttle

Applied(g) ==
  /\ put[g] \notin {"none", "sent"}
  /\ put' = [put EXCEPT ![g] = "none"]
  /\ throttle' = Signal(g)
  /\ failed' = (failed \/ put[g] = "failed")
  /\ UNCHANGED << pms, active, wants, running, left, asserted >>

Reports == SendPrelude \/ putProgressTick \/ \E g \in Goroutines : Answered(g) \/ Applied(g)

-----------------------------------------------------------------------------
(***************************************************************************)
(* Properties.                                                             *)
(***************************************************************************)
\* PMS, which takes a reported speed for leave to end the throttle, is told none
\* while its last answer asserts canThrottle, unless a PUT has failed since.
SpeedHeldBack ==
  [][put["progress"] = "none" /\ put'["progress"] = "sent" /\ ~ throttle
       => ~ asserted \/ failed]_reportVars

\* "Fail open": while PMS stays out of reach, or unwell, the session does not
\* stay throttled.
FailsOpen == <>[](running /\ pms # "up") => <>[] ~ throttle

\* What PMS goes on wanting comes to be, whatever the prelude meets.
FollowsPMS ==
  \A on \in BOOLEAN : <>[](running /\ pms = "up" /\ wants = on) => <>[](throttle = on)

=============================================================================
