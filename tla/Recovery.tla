------------------------------ MODULE Recovery ------------------------------
(***************************************************************************)
(* The life of one task in the orchestrator (orchestrator/failover.go):    *)
(* dispatchTask, streamFrom, recover and waitForRecoveryWorker, for one    *)
(* PMS request against a fleet whose health is being probed meanwhile.     *)
(*                                                                         *)
(* Timestamps appear by what they are compared for: that a worker's        *)
(* lastProbeStart is after its refusal is kept as its membership in newer, *)
(* and time.Now().Before(deadline) as late. Module WorkerLoad has the      *)
(* timestamps themselves (healthySince).                                   *)
(***************************************************************************)
EXTENDS Integers, FiniteSets

CONSTANTS
  Workers,        \* worker urls
  Nobody,         \* no worker
  maxRecoveries,  \* const maxRecoveries
  MaxEvents       \* bound on probes and pool changes, for model checking

ASSUME NobodyAssumption == Nobody \notin Workers
ASSUME MovesAssumption == maxRecoveries \in Nat \ {0}

VARIABLES
  phase,          \* where the handler is
  order,          \* dispatchTask's candidates not tried yet
  wk,             \* the worker of the attempt being made
  code,           \* what it answered, "ok" until it does: an error other than 503, or not
  moves,          \* recover's moves, 0 before it is called
  broken,         \* recover's broken
  refused,        \* recover's refused
  late,           \* the move's deadline has passed
  headersWritten, \* pmsStream.headersWritten
  lastByte,       \* pmsStream.lastByte, "none" when wroteAny is false
  gone,           \* r.Context() is done: PMS has gone away
  fault,          \* why the error in streamFrom's hands: the worker, or the client's leaving
  charged,        \* that error was found to be the worker's: markDown comes next
  result,         \* how the handler returned
  healthy,        \* the pool's healthy workers
  newer,          \* the refused workers a probe begun since has stored for
  probing,        \* the probe in flight: begun before or after the refusal
  orphan,         \* workers whose pool entry was replaced since schedule() read it
  writer,         \* history: who wrote last
  broke,          \* history: workers whose stream broke under this task
  accepts,        \* history: attempts accepted
  wronged,        \* history: workers marked down for an error of the client's
  parting,        \* history: workers marked down after the client had gone
  events          \* probes and pool changes so far

task == << phase, order, wk, code, moves, broken, refused, late >>
response == << headersWritten, lastByte, result, writer >>
fleet == << healthy, newer, probing, orphan, events >>
history == << broke, accepts >>
blame == << wronged, parting >>
context == << gone, fault, charged, blame >>
vars == << task, response, fleet, history, context >>

Phases == {"new", "dispatching", "posting", "streaming", "picking", "waiting", "ended"}
Results == {"none", "unavailable", "done", "client gone", "no worker", "exhausted"}

TypeOK ==
  /\ phase \in Phases
  /\ order \in SUBSET Workers
  /\ wk \in Workers \cup {Nobody}
  /\ (phase \in {"posting", "streaming"}) <=> (wk # Nobody)
  /\ code \in {"ok", "error"}
  /\ moves \in 0..maxRecoveries
  /\ broken \in SUBSET Workers
  /\ refused \in SUBSET Workers
  /\ late \in BOOLEAN
  /\ headersWritten \in BOOLEAN
  /\ lastByte \in {"none", "newline", "other"}
  /\ gone \in BOOLEAN
  /\ fault \in {"none", "worker", "client"}
  /\ charged \in BOOLEAN
  /\ result \in Results
  /\ healthy \in SUBSET Workers
  /\ newer \in SUBSET Workers
  /\ probing \in [Workers -> {"none", "older", "newer"}]
  /\ orphan \in SUBSET Workers
  /\ writer \in Workers \cup {Nobody}
  /\ broke \in SUBSET Workers
  /\ accepts \in Nat
  /\ wronged \in SUBSET Workers
  /\ parting \in SUBSET Workers
  /\ events \in Nat

Init ==
  /\ phase = "new"
  /\ order = {}
  /\ wk = Nobody
  /\ code = "ok"
  /\ moves = 0
  /\ broken = {}
  /\ refused = {}
  /\ late = FALSE
  /\ headersWritten = FALSE
  /\ lastByte = "none"
  /\ gone \in BOOLEAN
  /\ fault = "none"
  /\ charged = FALSE
  /\ result = "none"
  /\ healthy \in SUBSET Workers
  /\ newer = {}
  /\ probing = [w \in Workers |-> "none"]
  /\ orphan = {}
  /\ writer = Nobody
  /\ broke = {}
  /\ accepts = 0
  /\ wronged = {}
  /\ parting = {}
  /\ events = 0

Recovering == moves > 0

-----------------------------------------------------------------------------
(***************************************************************************)
(* dispatchTask.                                                           *)
(***************************************************************************)
Return(how) ==
  /\ phase' = "ended"
  /\ wk' = Nobody
  /\ result' = how
  /\ fault' = "none"
  /\ charged' = FALSE
  /\ UNCHANGED << order, code, moves, broken, refused, late >>

\* The order is computed once; which order is the strategy's business.
schedule ==
  /\ phase = "new"
  /\ phase' = "dispatching"
  /\ order' = healthy
  /\ orphan' = {}
  /\ UNCHANGED << wk, code, moves, broken, refused, late, response,
                  healthy, newer, probing, events, history, context >>

tryNext(w) ==
  /\ phase = "dispatching"
  /\ w \in order
  /\ order' = order \ {w}
  /\ wk' = w
  /\ phase' = "posting"
  /\ UNCHANGED << code, moves, broken, refused, late, response, fleet, history, context >>

\* No worker, or none that took the task: http.Error 503.
allAtCapacity ==
  /\ phase = "dispatching"
  /\ order = {}
  /\ Return("unavailable")
  /\ UNCHANGED << headersWritten, lastByte, writer, fleet, history, gone, blame >>

-----------------------------------------------------------------------------
(***************************************************************************)
(* streamFrom.  An error of Do's or Read's, the test of the context that   *)
(* decides whose it is, and markDown are three steps: PMS may leave        *)
(* between any two of them.                                                *)
(***************************************************************************)
\* proxyClient.Do or resp.Body.Read fails, for a reason of the worker's.
UpstreamFails ==
  /\ phase \in {"posting", "streaming"}
  /\ fault = "none"
  /\ fault' = "worker"
  /\ UNCHANGED << task, response, fleet, history, gone, charged, blame >>

\* Mutant: the upstream request does not carry the request's context.
NotCancelled == FALSE

Cancelled == gone

\* It fails because PMS has gone, and the upstream request's context with it.
UpstreamCancelled ==
  /\ phase \in {"posting", "streaming"}
  /\ fault = "none"
  /\ Cancelled
  /\ fault' = "client"
  /\ UNCHANGED << task, response, fleet, history, gone, charged, blame >>

\* Mutant: every error is the worker's fault.
AnyFault == TRUE

\* ps.r.Context().Err() == nil.
ContextLive == ~gone

\* The error is taken for the worker's, and nothing is tested again.
Charges ==
  /\ fault # "none"
  /\ ~charged
  /\ ContextLive
  /\ charged' = TRUE
  /\ UNCHANGED << task, response, fleet, history, gone, fault, blame >>

\* outClientGone: with the request's context done, the error is nobody's.
ClientGone ==
  /\ phase \in {"posting", "streaming"}
  /\ fault # "none"
  /\ ~charged
  /\ gone
  /\ Return("client gone")
  /\ UNCHANGED << headersWritten, lastByte, writer, fleet, history, gone, blame >>

\* On the entry the attempt holds, which may no longer be the pool's.
markDown(w) ==
  /\ healthy' = IF w \in orphan THEN healthy ELSE healthy \ {w}
  /\ wronged' = IF fault = "client" THEN wronged \cup {w} ELSE wronged
  /\ parting' = IF gone THEN parting \cup {w} ELSE parting

\* The error is dealt with: a new attempt has none.
ErrorHandled ==
  /\ fault' = "none"
  /\ charged' = FALSE
  /\ UNCHANGED gone

\* outRefused. Recovery notes when; dispatch just goes on with its order.
Refused ==
  /\ wk' = Nobody
  /\ IF Recovering
       THEN /\ phase' = "picking"
            /\ refused' = refused \cup {wk}
       ELSE /\ phase' = "dispatching"
            /\ UNCHANGED refused
  /\ UNCHANGED << order, code, moves, broken, late, response, history >>

\* Nothing probed so far is newer than this moment.
ProbesNowOlder(w) ==
  IF Recovering
    THEN /\ newer' = newer \ {w}
         /\ probing' = [probing EXCEPT ![w] = IF @ = "newer" THEN "older" ELSE @]
    ELSE UNCHANGED << newer, probing >>

\* A 503: at capacity or draining. So ends an attempt whose request cannot be
\* built, too.
Answers503 ==
  /\ phase = "posting"
  /\ fault = "none"
  /\ Refused
  /\ ProbesNowOlder(wk)
  /\ UNCHANGED << healthy, orphan, events, context >>

\* Do's error is charged to the worker, be PMS there still or not.
Unreachable ==
  /\ phase = "posting"
  /\ charged
  /\ Refused
  /\ markDown(wk)
  /\ ErrorHandled
  /\ ProbesNowOlder(wk)
  /\ UNCHANGED << orphan, events >>

\* Mutant: the new worker's output is appended as it comes.
MidLine == lastByte

\* The last byte once a line left open by the previous worker has been ended.
LineEnded == IF headersWritten /\ lastByte = "other" THEN "newline" ELSE lastByte

\* Any other answer accepts the task: the headers go out unless they have, and
\* dispatchTask never goes back to its order.
Accepted ==
  /\ phase = "posting"
  /\ fault = "none"
  /\ phase' = "streaming"
  /\ code' \in {"ok", "error"}
  /\ headersWritten' = TRUE
  /\ lastByte' = LineEnded
  /\ accepts' = accepts + 1
  /\ order' = {}
  /\ UNCHANGED << wk, moves, broken, refused, late, writer, result,
                  fleet, broke, context >>

\* A buffer of the worker's output. A write may succeed after PMS has gone.
Write ==
  /\ phase = "streaming"
  /\ fault = "none"
  /\ lastByte' \in {"newline", "other"}
  /\ writer' = wk
  /\ UNCHANGED << headersWritten, result, task, fleet, history, context >>

\* A write to PMS fails; one that is under way when PMS goes need not.
WriteFails ==
  /\ phase = "streaming"
  /\ fault = "none"
  /\ gone
  /\ Return("client gone")
  /\ UNCHANGED << headersWritten, lastByte, writer, fleet, history, gone, blame >>

EOF ==
  /\ phase = "streaming"
  /\ fault = "none"
  /\ Return("done")
  /\ UNCHANGED << headersWritten, lastByte, writer, fleet, history, gone, blame >>

-----------------------------------------------------------------------------
(***************************************************************************)
(* recover.                                                                *)
(***************************************************************************)
\* Mutant: the workers that broke under earlier moves are forgotten.
OnlyThisBroke == {wk}

\* broken, the worker whose stream has just broken included.
BrokenNow == broken \cup {wk}

MovesSpent == moves = maxRecoveries

\* The stream's error is charged to the worker: it is marked down and the next
\* move starts, with a deadline of its own, unless all are spent.
Breaks ==
  /\ phase = "streaming"
  /\ charged
  /\ markDown(wk)
  /\ ErrorHandled
  /\ broke' = broke \cup {wk}
  /\ broken' = BrokenNow
  /\ IF MovesSpent
       THEN /\ phase' = "ended"
            /\ result' = "exhausted"
            /\ UNCHANGED << moves, late >>
       ELSE /\ phase' = "picking"
            /\ moves' = moves + 1
            /\ late' = FALSE
            /\ UNCHANGED result
  /\ wk' = Nobody
  /\ code' = "ok"
  /\ UNCHANGED << order, refused, headersWritten, lastByte, writer,
                  newer, probing, orphan, events, accepts >>

\* pick's filter: not one that broke, not one that refused and has not been
\* found healthy since.
Eligible == {w \in healthy \ broken : w \in refused => w \in newer}

pick(w) ==
  /\ phase = "picking"
  /\ w \in Eligible
  /\ wk' = w
  /\ phase' = "posting"
  /\ orphan' = {}
  /\ UNCHANGED << order, code, moves, broken, refused, late, response,
                  healthy, newer, probing, events, history, context >>

pickFindsNone ==
  /\ phase = "picking"
  /\ Eligible = {}
  /\ phase' = "waiting"
  /\ UNCHANGED << order, wk, code, moves, broken, refused, late, response, fleet, history, context >>

\* !time.Now().Before(deadline)
DeadlinePassed == late

\* Within the deadline: rediscover, sleep and pick again.
rediscover ==
  /\ phase = "waiting"
  /\ ~DeadlinePassed
  /\ phase' = "picking"
  /\ UNCHANGED << order, wk, code, moves, broken, refused, late, response, fleet, history, context >>

GiveUp ==
  /\ phase = "waiting"
  /\ DeadlinePassed
  /\ Return("no worker")
  /\ UNCHANGED << headersWritten, lastByte, writer, fleet, history, gone, blame >>

\* recover's own test of the context, and the two of waitForRecoveryWorker.
ClientGoneInRecovery ==
  /\ phase \in {"picking", "waiting"}
  /\ gone
  /\ Return("client gone")
  /\ UNCHANGED << headersWritten, lastByte, writer, fleet, history, gone, blame >>

-----------------------------------------------------------------------------
(***************************************************************************)
(* What goes on meanwhile.                                                 *)
(***************************************************************************)
DeadlinePasses ==
  /\ Recovering
  /\ ~late
  /\ late' = TRUE
  /\ UNCHANGED << phase, order, wk, code, moves, broken, refused, response, fleet, history, context >>

PMSLeaves ==
  /\ ~gone
  /\ gone' = TRUE
  /\ UNCHANGED << task, response, fleet, history, fault, charged, blame >>

ProbeStarts(w) ==
  /\ events < MaxEvents
  /\ events' = events + 1
  /\ probing[w] = "none"
  /\ probing' = [probing EXCEPT ![w] = "newer"]
  /\ UNCHANGED << task, response, healthy, newer, orphan, history, context >>

\* probeWorker stores an answer, with the start of its own probe.
ProbeStores(w) ==
  /\ probing[w] # "none"
  /\ probing' = [probing EXCEPT ![w] = "none"]
  /\ \/ healthy' = healthy \cup {w}
     \/ healthy' = healthy \ {w}
  /\ newer' = IF probing[w] = "newer" /\ w \in refused THEN newer \cup {w} ELSE newer \ {w}
  /\ UNCHANGED << task, response, orphan, events, history, context >>

\* A probe that gets no answer leaves lastProbeStart alone.
ProbeFails(w) ==
  /\ probing[w] # "none"
  /\ probing' = [probing EXCEPT ![w] = "none"]
  /\ healthy' = healthy \ {w}
  /\ UNCHANGED << task, response, newer, orphan, events, history, context >>

\* The entry leaves the pool, and the one that may come back is zero-valued;
\* a probe in flight writes into the old one.
Replaced(w) ==
  /\ events < MaxEvents
  /\ events' = events + 1
  /\ healthy' = healthy \ {w}
  /\ newer' = newer \ {w}
  /\ probing' = [probing EXCEPT ![w] = "none"]
  /\ orphan' = orphan \cup {w}
  /\ UNCHANGED << task, response, history, context >>

-----------------------------------------------------------------------------
Fails == UpstreamFails \/ UpstreamCancelled
HandlesError == Charges \/ ClientGone \/ Unreachable \/ Breaks
Attempt == Answers503 \/ Accepted
Stream == Write \/ WriteFails \/ EOF
Dispatch == schedule \/ allAtCapacity \/ \E w \in Workers : tryNext(w)
Wait ==
  \/ \E w \in Workers : pick(w)
  \/ pickFindsNone
  \/ rediscover
  \/ GiveUp
  \/ ClientGoneInRecovery

Probing(w) == ProbeStarts(w) \/ ProbeStores(w) \/ ProbeFails(w) \/ Replaced(w)

Next ==
  \/ Dispatch
  \/ Attempt
  \/ Stream
  \/ Fails
  \/ HandlesError
  \/ Wait
  \/ DeadlinePasses
  \/ PMSLeaves
  \/ \E w \in Workers : Probing(w)

Spec == Init /\ [][Next]_vars

(***************************************************************************)
(* The handler's goroutine runs, a cancelled call returns and time passes. *)
(* Nothing is assumed of a worker: it may never answer, and may stream for *)
(* ever.                                                                   *)
(***************************************************************************)
Fairness ==
  /\ WF_vars(Dispatch)
  /\ WF_vars(UpstreamCancelled)
  /\ WF_vars(HandlesError)
  /\ WF_vars(Wait)
  /\ WF_vars(DeadlinePasses)

FairSpec == Spec /\ Fairness

-----------------------------------------------------------------------------
(***************************************************************************)
(* Properties.                                                             *)
(***************************************************************************)

\* A worker whose stream broke is never streaming this session again, however
\* healthy its later probes find it.
BrokenNeverReused == phase = "streaming" => wk \notin broke

\* One session occupies at most 1 + maxRecoveries workers, one at a time, each
\* move but the last ended by a stream that broke.
MovesBounded == accepts <= 1 + maxRecoveries /\ accepts <= Cardinality(broke) + 1

\* PMS going away is never taken for a worker's failure, although the test of
\* the context and markDown are apart and dispatch goes on down its order: no
\* worker is marked down for a call that PMS's leaving cancelled, and after PMS
\* has left at most one is, whose own error had been tested just before.
ClientNotBlamed == wronged = {} /\ Cardinality(parting) <= 1

\* Once PMS has gone the handler returns, whatever it was doing and however
\* long the worker would go on; and a recovery that finds no worker does not wait
\* past its deadline for ever.
HandlerReturns ==
  /\ gone ~> phase = "ended"
  /\ phase = "waiting" ~> phase \in {"posting", "ended"}

\* The PMS side of the task (module TaskStream).
PMS == INSTANCE TaskStream WITH
  status <- IF result = "unavailable" THEN "unavailable"
            ELSE IF headersWritten THEN "stream" ELSE "none",
  line <- IF lastByte = "other" THEN writer ELSE Nobody,
  closed <- phase = "ended"

\* Across refusals, moves and crashes, PMS sees one response of whole lines.
OneResponse == PMS!StreamSpec

=============================================================================
