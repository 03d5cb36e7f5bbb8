----------------------------- MODULE WorkerLoad -----------------------------
(***************************************************************************)
(* The orchestrator's account of one worker (struct worker of              *)
(* orchestrator/main.go and dispatchTicket of orchestrator/failover.go):   *)
(* what it believes the worker is running, put together from dispatches it *)
(* is making now and from /capability probes whose answers arrive late and *)
(* in any order.  worker.downAt, which nothing reads, is left out.         *)
(*                                                                         *)
(* Every action is one critical section of the code (one hold of worker.mu *)
(* or one atomic add), so that dispatches and probes interleave between    *)
(* them exactly as the goroutines may.                                     *)
(***************************************************************************)
EXTENDS Integers, FiniteSets

CONSTANTS
  Tickets,  \* the dispatch attempts made against this worker
  Probes,   \* the probe goroutines that may be in flight at once
  MaxTime   \* bound on the clock, for model checking

ASSUME TicketsFinite == IsFiniteSet(Tickets)
ASSUME MaxTimeNat == MaxTime \in Nat

VARIABLES
  clock,           \* time.Now(): only its order matters, and two readings may be equal
  ticket,          \* the phase of each dispatchTicket
  agent,           \* the worker's side of each dispatch (worker/agent handleTask)
  pending,         \* worker.pending
  acceptedAt,      \* worker.accepted: the accept time, NotAccepted when absent
  healthy,         \* worker.healthy
  lastProbeStart,  \* worker.lastProbeStart
  reported,        \* the sessions behind worker.activeSessions
  probe,           \* the probes in flight
  answeredAt       \* history: when the worker gave the answer last stored

vars == << clock, ticket, agent, pending, acceptedAt, healthy, lastProbeStart,
           reported, probe, answeredAt >>

(***************************************************************************)
(* A ticket is "pending" from begin(); "accepting" between the two halves  *)
(* of accept(); "accepted" while the stream runs; "failing" and "breaking" *)
(* while the dispatcher, its upstream lost before or after accept(), has   *)
(* markDown() still to call.                                               *)
(***************************************************************************)
TicketPhase == {"new", "pending", "failing", "accepting", "accepted", "breaking", "ended"}

\* The agent's handler has not answered, holds a registered session, has
\* unregistered it, or answered with an error before registering anything.
AgentPhase == {"none", "running", "gone", "denied"}

NotAccepted == -1
Times == Nat
IdleProbe == [phase |-> "idle", start |-> 0, sample |-> {}, ok |-> FALSE, at |-> 0]
ProbeRecord == [phase : {"idle", "asked", "answered"}, start : Times,
                sample : SUBSET Tickets, ok : BOOLEAN, at : Times]

InPending  == {t \in Tickets : ticket[t] \in {"pending", "failing"}}
InAccepted == {t \in Tickets : ticket[t] \in {"accepted", "breaking"}}

\* Sessions registered on the worker (the agent's registry.activeCount).
Running == {t \in Tickets : agent[t] = "running"}

TypeOK ==
  /\ clock \in Times
  /\ ticket \in [Tickets -> TicketPhase]
  /\ agent \in [Tickets -> AgentPhase]
  /\ pending \in Nat
  /\ acceptedAt \in [Tickets -> Times \cup {NotAccepted}]
  /\ healthy \in BOOLEAN
  /\ lastProbeStart \in Times
  /\ reported \in SUBSET Tickets
  /\ probe \in [Probes -> ProbeRecord]
  /\ answeredAt \in Times

\* A pool entry as refresh, loadList and register create it: zero-valued.
Init ==
  /\ clock = 0
  /\ ticket = [t \in Tickets |-> "new"]
  /\ agent = [t \in Tickets |-> "none"]
  /\ pending = 0
  /\ acceptedAt = [t \in Tickets |-> NotAccepted]
  /\ healthy = FALSE
  /\ lastProbeStart = 0
  /\ reported = {}
  /\ probe = [p \in Probes |-> IdleProbe]
  /\ answeredAt = 0

Tick ==
  /\ clock < MaxTime
  /\ clock' = clock + 1
  /\ UNCHANGED << ticket, agent, pending, acceptedAt, healthy, lastProbeStart,
                  reported, probe, answeredAt >>

-----------------------------------------------------------------------------
(***************************************************************************)
(* The load the scheduler ranks by.                                        *)
(***************************************************************************)

\* Mutant: the freshness test made strict, at.After(lastProbeStart).
FreshStrict == {t \in Tickets : acceptedAt[t] # NotAccepted /\ acceptedAt[t] > lastProbeStart}

\* Accepted sessions the last stored probe cannot be trusted to include:
\* !at.Before(lastProbeStart).
Fresh == {t \in Tickets : acceptedAt[t] # NotAccepted /\ acceptedAt[t] >= lastProbeStart}

inFlight == pending + Cardinality(Fresh)

\* What sessions(), and load() before it divides, add up. They read the three
\* terms one after the other: module LoadRead.
sessions == Cardinality(reported) + inFlight

healthySince(time) == healthy /\ lastProbeStart > time

-----------------------------------------------------------------------------
(***************************************************************************)
(* The dispatcher: begin, the two halves of accept, end, markDown.         *)
(***************************************************************************)
Phase(t, from, to) ==
  /\ ticket[t] = from
  /\ ticket' = [ticket EXCEPT ![t] = to]

begin(t) ==
  /\ Phase(t, "new", "pending")
  /\ pending' = pending + 1
  /\ UNCHANGED << clock, agent, acceptedAt, healthy, lastProbeStart, reported,
                  probe, answeredAt >>

\* accept(), first half: dispatchEnd(). Any answer but a 503 gets here, an
\* error status included.
acceptEnds(t) ==
  /\ agent[t] # "none"
  /\ Phase(t, "pending", "accepting")
  /\ pending' = pending - 1
  /\ UNCHANGED << clock, agent, acceptedAt, healthy, lastProbeStart, reported,
                  probe, answeredAt >>

\* accept(), second half: the accepted map, under worker.mu.
acceptInserts(t) ==
  /\ Phase(t, "accepting", "accepted")
  /\ acceptedAt' = [acceptedAt EXCEPT ![t] = clock]
  /\ UNCHANGED << clock, agent, pending, healthy, lastProbeStart, reported,
                  probe, answeredAt >>

\* Mutant: a refused dispatch stays in flight.
EndKeepsPending(t) ==
  /\ ticket[t] \in {"pending", "failing", "accepted", "breaking"}
  /\ ticket' = [ticket EXCEPT ![t] = "ended"]
  /\ acceptedAt' = [acceptedAt EXCEPT ![t] = NotAccepted]
  /\ UNCHANGED pending

\* ticket.end(): gives back whichever of the two contributions is still held.
end(t) ==
  /\ ticket[t] \in {"pending", "failing", "accepted", "breaking"}
  /\ ticket' = [ticket EXCEPT ![t] = "ended"]
  /\ IF t \in InAccepted
       THEN acceptedAt' = [acceptedAt EXCEPT ![t] = NotAccepted] /\ UNCHANGED pending
       ELSE pending' = pending - 1 /\ UNCHANGED acceptedAt

\* streamFrom returns without blaming the worker: a 503, the client gone
\* before or after the answer, or the end of the stream.
Return(t) ==
  /\ \/ ticket[t] = "pending"
     \/ ticket[t] = "accepted"
  /\ end(t)
  /\ UNCHANGED << clock, agent, healthy, lastProbeStart, reported, probe,
                  answeredAt >>

\* The upstream failed: a transport error before the answer or in the body.
markDown(t) ==
  /\ \/ Phase(t, "pending", "failing")
     \/ Phase(t, "accepted", "breaking")
  /\ healthy' = FALSE
  /\ UNCHANGED << clock, agent, pending, acceptedAt, lastProbeStart, reported,
                  probe, answeredAt >>

\* The deferred ticket.end() that follows a markDown.
ReturnAfterFailure(t) ==
  /\ ticket[t] \in {"failing", "breaking"}
  /\ end(t)
  /\ UNCHANGED << clock, agent, healthy, lastProbeStart, reported, probe,
                  answeredAt >>

-----------------------------------------------------------------------------
(***************************************************************************)
(* The worker, as the orchestrator sees it (worker/agent handleTask).      *)
(***************************************************************************)
AgentSteps(t, from, to) ==
  /\ agent[t] = from
  /\ agent' = [agent EXCEPT ![t] = to]
  /\ UNCHANGED << clock, ticket, pending, acceptedAt, healthy, lastProbeStart,
                  reported, probe, answeredAt >>

\* The handler registers the session, then sends the headers. A request whose
\* dispatcher has already given up may still be registered.
AgentRegisters(t) == ticket[t] # "new" /\ AgentSteps(t, "none", "running")

\* An answer given before registering: 503, 400, 405 or 500.
AgentDenies(t) == ticket[t] # "new" /\ AgentSteps(t, "none", "denied")

\* ffmpeg exits or is killed and the handler unregisters the session.
AgentUnregisters(t) == AgentSteps(t, "running", "gone")

-----------------------------------------------------------------------------
(***************************************************************************)
(* probeWorker: the start time is read first, the worker's answer and the  *)
(* store under worker.mu follow at any later time. Probes of probeAll and  *)
(* of probeAllSync overlap.                                                *)
(***************************************************************************)
ProbeStarts(p) ==
  /\ probe[p].phase = "idle"
  /\ probe' = [probe EXCEPT ![p] = [phase |-> "asked", start |-> clock,
                                    sample |-> {}, ok |-> FALSE, at |-> clock]]
  /\ UNCHANGED << clock, ticket, agent, pending, acceptedAt, healthy,
                  lastProbeStart, reported, answeredAt >>

\* The agent's handleCapability: ok is ffmpeg_ok, ready and not draining.
ProbeAnswered(p) ==
  /\ probe[p].phase = "asked"
  /\ \E ok \in BOOLEAN :
       probe' = [probe EXCEPT ![p] = [phase |-> "answered", start |-> probe[p].start,
                                      sample |-> Running, ok |-> ok, at |-> clock]]
  /\ UNCHANGED << clock, ticket, agent, pending, acceptedAt, healthy,
                  lastProbeStart, reported, answeredAt >>

\* Mutant: lastProbeStart takes the time the answer is stored.
ProbeStoresNow(p) ==
  /\ probe[p].phase = "answered"
  /\ healthy' = probe[p].ok
  /\ lastProbeStart' = clock
  /\ reported' = probe[p].sample
  /\ answeredAt' = probe[p].at
  /\ probe' = [probe EXCEPT ![p] = IdleProbe]
  /\ UNCHANGED << clock, ticket, agent, pending, acceptedAt >>

ProbeStores(p) ==
  /\ probe[p].phase = "answered"
  /\ healthy' = probe[p].ok
  /\ lastProbeStart' = probe[p].start
  /\ reported' = probe[p].sample
  /\ answeredAt' = probe[p].at
  /\ probe' = [probe EXCEPT ![p] = IdleProbe]
  /\ UNCHANGED << clock, ticket, agent, pending, acceptedAt >>

\* A transport error, the probe timeout or an undecodable answer: only the
\* health is written, the counters of the last good probe stay.
ProbeFails(p) ==
  /\ probe[p].phase \in {"asked", "answered"}
  /\ healthy' = FALSE
  /\ probe' = [probe EXCEPT ![p] = IdleProbe]
  /\ UNCHANGED << clock, ticket, agent, pending, acceptedAt, lastProbeStart,
                  reported, answeredAt >>

-----------------------------------------------------------------------------
Dispatcher(t) ==
  \/ begin(t)
  \/ acceptEnds(t)
  \/ acceptInserts(t)
  \/ Return(t)
  \/ markDown(t)
  \/ ReturnAfterFailure(t)

Agent(t) == AgentRegisters(t) \/ AgentDenies(t) \/ AgentUnregisters(t)

Prober(p) == ProbeStarts(p) \/ ProbeAnswered(p) \/ ProbeStores(p) \/ ProbeFails(p)

Next ==
  \/ Tick
  \/ \E t \in Tickets : Dispatcher(t) \/ Agent(t)
  \/ \E p \in Probes : Prober(p)

Spec == Init /\ [][Next]_vars

-----------------------------------------------------------------------------
(***************************************************************************)
(* Properties.                                                             *)
(***************************************************************************)

\* The two in-flight ledgers hold exactly the dispatches that are under way:
\* no refusal, failure or client disconnect leaks a count or gives one back
\* twice, so an idle worker never looks loaded and never looks negative.
LedgerExact ==
  /\ pending = Cardinality(InPending)
  /\ \A t \in Tickets : acceptedAt[t] # NotAccepted <=> t \in InAccepted

\* Sessions running on the worker whose stream this orchestrator still
\* holds, bar the instant inside accept().
Live == {t \in Running : t \in InPending \cup InAccepted}

\* However late and out of order probe answers are stored, the account (the
\* terms worker.sessions and worker.load add up) never falls below the number
\* of sessions really running on the worker.
LoadCoversLive == Cardinality(Live) <= sessions

\* healthySince(time), by which recovery decides to try a worker again,
\* is true only if the worker itself answered a probe after that time.
ReuseIsJustified ==
  \A time \in 0..MaxTime : healthySince(time) => answeredAt > time

=============================================================================
