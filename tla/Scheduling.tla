----------------------------- MODULE Scheduling -----------------------------
(***************************************************************************)
(* Which worker a task is offered to (schedule and orderTier of            *)
(* orchestrator/main.go, the loop of dispatchTask in failover.go), for     *)
(* dispatches that rank the same fleet at the same time while probes and   *)
(* other dispatches change what they rank by.                              *)
(*                                                                         *)
(* The account of a worker is the one of module WorkerLoad; here a probe,  *)
(* an accept and a reading of the account are each one step.               *)
(***************************************************************************)
EXTENDS Integers, SequencesExt

CONSTANTS
  Workers,      \* the urls of the pool, as numbers: they are sorted
  Dispatches,   \* the tasks PMS sends
  MaxSessions,  \* worker.maxSessions: 0 when it is not known
  GpuLoads,     \* what worker.gpuLoad may be, in halves of the engines' time
  FirstBackend, \* the backends the first probes found
  Strategies,   \* what SCALEPLEX_LB_STRATEGY may be
  MaxProbes,    \* bound on probes, for model checking
  MaxPolls      \* and on the cursor that recovery may advance

ASSUME WorkersAssumption == Workers \subseteq Nat /\ IsFiniteSet(Workers)
ASSUME DispatchesAssumption == IsFiniteSet(Dispatches)
ASSUME MaxSessionsAssumption == MaxSessions \in [Workers -> Nat]
ASSUME GpuLoadsAssumption == GpuLoads \subseteq Nat /\ 0 \in GpuLoads
ASSUME FirstBackendAssumption == FirstBackend \in [Workers -> {"hw", "sw"}]
ASSUME BoundsAssumption == MaxProbes \in Nat /\ MaxPolls \in Nat
ASSUME StrategiesAssumption ==
  Strategies \subseteq {"load", "round-robin", "least-sessions", "random"}

VARIABLES
  strategy,  \* pool.strategy
  flatPool,  \* pool.flatPool
  rrCursor,  \* pool.rrCursor
  healthy,   \* the workers whose healthy is set
  backend,   \* worker.backend: "hw" stands for vaapi, nvenc and not reported yet
  gpuLoad,   \* worker.gpuLoad
  reported,  \* the sessions behind worker.activeSessions
  fresh,     \* worker.accepted: those accepted since the last probe
  phase,     \* where each dispatch is
  unsplit,   \* schedule's healthy, not yet put in a tier
  tier,      \* schedule's two tiers; a flat pool is the first of them
  rr,        \* schedule's rr
  place,     \* sort.SliceStable: the tier, the index to insert, and how far it is
  tried,     \* how many workers of the order dispatchTask has tried
  listed,    \* history: the workers that were healthy when they were listed
  missed,    \* history: how much a ranking under way has missed of the changes
  probes     \* stored so far

entries == << healthy, backend, gpuLoad, reported, fresh >>
ranking == << unsplit, tier, rr, place, listed >>
vars == << strategy, flatPool, rrCursor, entries, ranking, phase, tried, missed, probes >>

NoTiers == [k \in 1..2 |-> << >>]

Phases == {"new", "drawing", "splitting", "sorting", "trying", "posting", "streaming", "ended"}

order(d) == tier[d][1] \o tier[d][2]
Current(d) == order(d)[tried[d]]

TypeOK ==
  /\ strategy \in Strategies
  /\ flatPool \in BOOLEAN
  /\ rrCursor \in Nat
  /\ healthy \in SUBSET Workers
  /\ backend \in [Workers -> {"hw", "sw"}]
  /\ gpuLoad \in [Workers -> GpuLoads]
  /\ reported \in [Workers -> SUBSET Dispatches]
  /\ fresh \in [Workers -> SUBSET Dispatches]
  /\ phase \in [Dispatches -> Phases]
  /\ unsplit \in [Dispatches -> Seq(Workers)]
  /\ tier \in [Dispatches -> [1..2 -> Seq(Workers)]]
  /\ place \in [Dispatches -> [tier : 1..2, insert : Nat, at : Nat]]
  /\ tried \in [Dispatches -> Nat]
  /\ \A d \in Dispatches :
       /\ tried[d] \in 0..Len(order(d))
       /\ phase[d] \in {"posting", "streaming"} => tried[d] > 0
       /\ strategy = "round-robin" /\ phase[d] \in {"sorting", "trying"} => rr[d] > 0
  /\ rr \in [Dispatches -> Nat]
  /\ listed \in [Dispatches -> SUBSET Workers]
  /\ missed \in [Dispatches -> Nat]
  /\ probes \in 0..MaxProbes

\* Where sort.SliceStable starts in a tier.
Start(k) == [tier |-> k, insert |-> 2, at |-> 2]

\* The first probes have been stored, and found every worker idle.
Init ==
  /\ strategy \in Strategies
  /\ flatPool \in BOOLEAN
  /\ rrCursor = 0
  /\ healthy = Workers
  /\ backend = FirstBackend
  /\ gpuLoad = [w \in Workers |-> 0]
  /\ reported = [w \in Workers |-> {}]
  /\ fresh = [w \in Workers |-> {}]
  /\ phase = [d \in Dispatches |-> "new"]
  /\ unsplit = [d \in Dispatches |-> << >>]
  /\ tier = [d \in Dispatches |-> NoTiers]
  /\ rr = [d \in Dispatches |-> 0]
  /\ place = [d \in Dispatches |-> Start(1)]
  /\ tried = [d \in Dispatches |-> 0]
  /\ listed = [d \in Dispatches |-> {}]
  /\ missed = [d \in Dispatches |-> 0]
  /\ probes = 0

-----------------------------------------------------------------------------
(***************************************************************************)
(* What the strategies compare.                                            *)
(***************************************************************************)
On(w, phases) == {d \in Dispatches : phase[d] \in phases /\ Current(d) = w}

sessions(w) ==
  Cardinality(reported[w]) + Cardinality(On(w, {"posting"})) + Cardinality(fresh[w])

\* Loads are fractions, as a numerator and a denominator.
Below(f, g) == f[1] * g[2] < g[1] * f[2]

Saturation(w) == << sessions(w), IF MaxSessions[w] > 0 THEN MaxSessions[w] ELSE 1 >>

\* A worker that is not healthy ranks after any that is.
load(w) ==
  CASE w \notin healthy -> << 1000, 1 >>
    [] w \in healthy /\ Below(Saturation(w), << gpuLoad[w], 2 >>) -> << gpuLoad[w], 2 >>
    [] OTHER -> Saturation(w)

\* Mutant: a dispatch counts once it is answered.
LessAnswered(w, v) ==
  IF strategy = "load"
    THEN Below(load(w), load(v))
    ELSE Cardinality(reported[w]) + Cardinality(fresh[w])
           < Cardinality(reported[v]) + Cardinality(fresh[v])

Less(w, v) ==
  IF strategy = "load" THEN Below(load(w), load(v)) ELSE sessions(w) < sessions(v)

Compared == strategy \in {"load", "least-sessions"}

-----------------------------------------------------------------------------
(***************************************************************************)
(* schedule.                                                               *)
(***************************************************************************)
Moves(d, from, to) ==
  /\ phase[d] = from
  /\ phase' = [phase EXCEPT ![d] = to]

\* By url, the smallest first.
Sorted(ws) ==
  CHOOSE s \in SetToSeqs(ws) : \A i, j \in DOMAIN s : i < j => s[i] < s[j]

\* Which the order of pool.list is: that of a map, any. It matters to a stable sort
\* by count or load; the other strategies order a tier whatever it was.
Orders(ws) ==
  IF Compared THEN SetToSeqs(ws) ELSE {Sorted(ws)}

\* Of no worker there is nothing to split.
Drawn(ws) == IF ws = {} THEN "trying" ELSE "splitting"

\* pool.list and the snapshots.
Lists(d) ==
  /\ Moves(d, "new", IF strategy = "round-robin" THEN "drawing" ELSE Drawn(healthy))
  /\ \E ws \in Orders(healthy) : unsplit' = [unsplit EXCEPT ![d] = ws]
  /\ listed' = [listed EXCEPT ![d] = healthy]
  /\ UNCHANGED << strategy, flatPool, rrCursor, entries, tier, rr, place, tried, probes >>

Draws(d) ==
  /\ Moves(d, "drawing", Drawn(listed[d]))
  /\ rrCursor' = rrCursor + 1
  /\ rr' = [rr EXCEPT ![d] = rrCursor']
  /\ UNCHANGED << strategy, flatPool, entries, unsplit, tier, place, tried, listed, probes >>

\* The rest of schedule's healthy, and whether it was the last.
TakesNext(d) ==
  /\ phase[d] = "splitting"
  /\ unsplit' = [unsplit EXCEPT ![d] = Tail(@)]
  /\ phase' = [phase EXCEPT ![d] = IF Len(unsplit[d]) = 1 THEN "sorting" ELSE @]
  /\ UNCHANGED << strategy, flatPool, rrCursor, entries, rr, place, tried, listed, probes >>

\* Mutant: the backend read once to put a worker in the first tier, and again to
\* put it in the second.
SplitsReadingTwice(d) ==
  /\ TakesNext(d)
  /\ LET w == Head(unsplit[d])
     IN  \E again \in {"hw", "sw"} :
           tier' = [tier EXCEPT
             ![d][1] = IF flatPool \/ backend[w] = "hw" THEN Append(@, w) ELSE @,
             ![d][2] = IF ~ flatPool /\ again = "sw" THEN Append(@, w) ELSE @]

\* Each worker's backend is read (isHW) when its turn comes.
Splits(d) ==
  /\ TakesNext(d)
  /\ LET w == Head(unsplit[d])
         k == IF flatPool \/ backend[w] = "hw" THEN 1 ELSE 2
     IN  tier' = [tier EXCEPT ![d][k] = Append(@, w)]

-----------------------------------------------------------------------------
(***************************************************************************)
(* orderTier.                                                              *)
(***************************************************************************)
\* The tier is in order: on to the second, or to the first attempt.
TierOrdered(d) ==
  IF place[d].tier = 1
    THEN /\ place' = [place EXCEPT ![d] = Start(2)]
         /\ UNCHANGED phase
    ELSE /\ phase' = [phase EXCEPT ![d] = "trying"]
         /\ place' = [place EXCEPT ![d] = Start(1)]

\* sort.SliceStable inserts one worker after the other, and compares what it
\* reads of the two at that moment.
Compares(d) ==
  /\ phase[d] = "sorting" /\ Compared
  /\ LET p == place[d]
         ws == tier[d][p.tier]
         swaps == Less(ws[p.at], ws[p.at - 1])
     IN  /\ p.insert <= Len(ws)
         /\ tier' = [tier EXCEPT ![d][p.tier] =
                       IF swaps THEN [ws EXCEPT ![p.at] = ws[p.at - 1], ![p.at - 1] = ws[p.at]]
                                ELSE ws]
         /\ place' = [place EXCEPT ![d] =
                       IF swaps /\ p.at > 2
                         THEN [p EXCEPT !.at = p.at - 1]
                         ELSE [p EXCEPT !.insert = p.insert + 1, !.at = p.insert + 1]]
  /\ UNCHANGED << strategy, flatPool, rrCursor, entries, phase, unsplit, rr, tried, listed,
                  probes >>

HasSorted(d) ==
  /\ phase[d] = "sorting" /\ Compared
  /\ place[d].insert > Len(tier[d][place[d].tier])
  /\ TierOrdered(d)
  /\ UNCHANGED << strategy, flatPool, rrCursor, entries, unsplit, tier, rr, tried, listed,
                  probes >>

\* Mutant: the rotation taken modulo the whole pool.
offsetOfPool(d, n) == ((rr[d] - 1) % Cardinality(listed[d])) % n

\* The first dispatch starts on the first worker.
offset(d, n) == (rr[d] - 1) % n

Rotate(ws, off) == SubSeq(ws, off + 1, Len(ws)) \o SubSeq(ws, 1, off)

rotated(d, ws) ==
  Rotate(Sorted(ws), IF ws = {} THEN 0 ELSE offset(d, Cardinality(ws)))

Rotates(d) ==
  /\ phase[d] = "sorting" /\ strategy = "round-robin"
  /\ LET k == place[d].tier
     IN  tier' = [tier EXCEPT ![d][k] = rotated(d, ToSet(@))]
  /\ TierOrdered(d)
  /\ UNCHANGED << strategy, flatPool, rrCursor, entries, unsplit, rr, tried, listed, probes >>

Shuffles(d) ==
  /\ phase[d] = "sorting" /\ strategy = "random"
  /\ LET k == place[d].tier
     IN  \E ws \in SetToSeqs(ToSet(tier[d][k])) : tier' = [tier EXCEPT ![d][k] = ws]
  /\ TierOrdered(d)
  /\ UNCHANGED << strategy, flatPool, rrCursor, entries, unsplit, rr, tried, listed, probes >>

-----------------------------------------------------------------------------
(***************************************************************************)
(* dispatchTask and streamFrom, as far as the account goes.                *)
(***************************************************************************)
Others == << strategy, flatPool, rrCursor, backend, gpuLoad, reported, probes >>

\* The handler returns, and what it ranked is forgotten.
Returns(d, from) ==
  /\ Moves(d, from, "ended")
  /\ tier' = [tier EXCEPT ![d] = NoTiers]
  /\ rr' = [rr EXCEPT ![d] = 0]
  /\ tried' = [tried EXCEPT ![d] = 0]
  /\ listed' = [listed EXCEPT ![d] = {}]
  /\ UNCHANGED << unsplit, place >>

\* streamFrom: worker.begin.
begin(d) ==
  /\ Moves(d, "trying", "posting")
  /\ tried[d] < Len(order(d))
  /\ tried' = [tried EXCEPT ![d] = @ + 1]
  /\ UNCHANGED << Others, ranking, healthy, fresh >>

\* No worker listed, or none that took the task.
AllAtCapacity(d) ==
  /\ tried[d] = Len(order(d))
  /\ Returns(d, "trying")
  /\ UNCHANGED << Others, healthy, fresh >>

Refuses(d) ==
  /\ Moves(d, "posting", "trying")
  /\ UNCHANGED << Others, ranking, healthy, fresh, tried >>

Unreachable(d) ==
  /\ Moves(d, "posting", "trying")
  /\ healthy' = healthy \ {Current(d)}
  /\ UNCHANGED << Others, ranking, fresh, tried >>

Accepts(d) ==
  /\ Moves(d, "posting", "streaming")
  /\ fresh' = [fresh EXCEPT ![Current(d)] = @ \cup {d}]
  /\ UNCHANGED << Others, ranking, healthy, tried >>

\* The stream is over; when it broke, the worker is marked down.
Ends(d) ==
  /\ Returns(d, "streaming")
  /\ fresh' = [w \in Workers |-> fresh[w] \ {d}]
  /\ healthy' \in {healthy, healthy \ {Current(d)}}
  /\ UNCHANGED Others

-----------------------------------------------------------------------------
(***************************************************************************)
(* Meanwhile.                                                              *)
(***************************************************************************)
\* The sessions the worker had when it answered: those streaming, and some whose
\* answer the dispatcher has not read. The worker may have come back another. Only
\* load reads the GPU's.
probeWorker(w) ==
  /\ probes < MaxProbes
  /\ probes' = probes + 1
  /\ healthy' \in {healthy \cup {w}, healthy \ {w}}
  /\ \E b \in {"hw", "sw"} : backend' = [backend EXCEPT ![w] = b]
  /\ \E g \in IF strategy = "load" THEN GpuLoads ELSE {gpuLoad[w]} :
       gpuLoad' = [gpuLoad EXCEPT ![w] = g]
  /\ \E early \in SUBSET On(w, {"posting"}) :
       reported' = [reported EXCEPT ![w] = On(w, {"streaming"}) \cup early]
  /\ fresh' = [fresh EXCEPT ![w] = {}]
  /\ UNCHANGED << strategy, flatPool, rrCursor, ranking, phase, tried >>

\* A task in recovery asks schedule for a worker, and takes none that others rank.
waitForRecoveryWorker ==
  /\ strategy = "round-robin"
  /\ rrCursor < MaxPolls
  /\ rrCursor' = rrCursor + 1
  /\ UNCHANGED << strategy, flatPool, entries, ranking, phase, tried, probes >>

-----------------------------------------------------------------------------
Dispatch(d) ==
  \/ Lists(d) \/ Draws(d) \/ Splits(d)
  \/ Compares(d) \/ HasSorted(d) \/ Rotates(d) \/ Shuffles(d)
  \/ begin(d) \/ AllAtCapacity(d) \/ Refuses(d) \/ Unreachable(d) \/ Accepts(d) \/ Ends(d)

Step ==
  \/ \E d \in Dispatches : Dispatch(d)
  \/ \E w \in Workers : probeWorker(w)
  \/ waitForRecoveryWorker

Distance(m, n) == IF m < n THEN n - m ELSE m - n

\* By how much a step changes the one count it changes, or whether it changes a load.
Change ==
  LET drifts == {Distance(sessions(w), sessions(w)') : w \in Workers} \ {0}
  IN  CASE strategy = "load" -> IF \E w \in Workers : load(w)' # load(w) THEN 1 ELSE 0
        [] strategy # "load" /\ drifts = {} -> 0
        [] OTHER -> CHOOSE n \in drifts : TRUE

Ranking(d) ==
  \/ phase[d] \in {"splitting", "sorting"}
  \/ phase[d] = "trying" /\ tried[d] = 0

Notes ==
  missed' = [d \in Dispatches |->
              IF Compared /\ Ranking(d) /\ Ranking(d)' THEN missed[d] + Change ELSE 0]

Next == Step /\ Notes

Spec == Init /\ [][Next]_vars

-----------------------------------------------------------------------------
(***************************************************************************)
(* Properties.                                                             *)
(***************************************************************************)
Ranked(d) == phase[d] \in {"trying", "posting", "streaming"}

\* However the backends and the loads change while a fleet is split and sorted,
\* every worker listed is in the order once: none is offered a task twice, and
\* none is passed over (schedule, main.go:557-598).
EachOnce ==
  /\ TypeOK
  /\ \A d \in Dispatches : Ranked(d) =>
       ToSet(order(d)) = listed[d] /\ Len(order(d)) = Cardinality(listed[d])

\* The tier the first attempt is made in.
Peers(d) == ToSet(IF tier[d][1] = << >> THEN tier[d][2] ELSE tier[d][1])

NotAbove(d, v, w) ==
  IF strategy = "least-sessions"
    THEN sessions(v) <= sessions(w) + missed[d]
    ELSE missed[d] = 0 => ~ Less(w, v)

\* The first worker tried is the least loaded of its tier, but for what has changed
\* since the fleet was listed: by the number of sessions it exceeds none by more
\* than the sessions that came and went meanwhile, and by load it exceeds none
\* unless one changed. The sort compares moving counts (orderTier, main.go:605,
\* 618).
FirstIsNearLeast ==
  \A d \in Dispatches :
    Compared /\ phase[d] = "trying" /\ tried[d] = 0 =>
      \A w \in Peers(d) : NotAbove(d, order(d)[1], w)

\* Dispatches that draw successive cursors over the same tier start on successive
\* workers of it, whichever of them gets there first (main.go:611-612).
Rotation ==
  \A d, e \in Dispatches :
    /\ strategy = "round-robin"
    /\ Ranked(d) /\ Ranked(e)
    /\ rr[e] = rr[d] + 1
    /\ Peers(d) = Peers(e)
    /\ Peers(d) # {}
    => LET later == {w \in Peers(d) : w > order(d)[1]}
       IN  order(e)[1] = CHOOSE w \in Peers(d) :
             /\ later # {} => w \in later
             /\ \A v \in IF later # {} THEN later ELSE Peers(d) : w <= v

=============================================================================
