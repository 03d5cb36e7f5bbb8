-------------------------- MODULE WorkerLoadProofs --------------------------
(***************************************************************************)
(* Proofs about WorkerLoad, for any finite set of dispatches and any set   *)
(* of probes; and about LoadRead, from the inductive invariant of the      *)
(* account.                                                                *)
(***************************************************************************)
EXTENDS LoadRead, FiniteSetTheorems, TLAPS

(***************************************************************************)
(* The strengthening.  LoadCoversLive is about the probe stored last; it   *)
(* survives the store of another because every probe still under way       *)
(* already covers, by its sample or by its start time, each session it     *)
(* could make the orchestrator forget.                                     *)
(***************************************************************************)

\* No reading of the clock is in the future, and an answer follows its probe.
StampsOrdered ==
  /\ lastProbeStart <= clock
  /\ lastProbeStart <= answeredAt
  /\ \A p \in Probes : probe[p].start <= clock /\ probe[p].start <= probe[p].at

\* A dispatch is accepted only on an answer, which follows the registration.
AcceptedWereAnswered ==
  \A t \in Tickets : ticket[t] \in {"accepting", "accepted", "breaking"} => agent[t] # "none"

\* The last stored probe, with the accepts since it began, covers the live sessions.
StoredProbeCovers ==
  \A t \in Running \cap InAccepted : acceptedAt[t] >= lastProbeStart \/ t \in reported

\* So does every probe whose answer is on its way.
PendingProbesCover ==
  \A p \in Probes : probe[p].phase = "answered" =>
    \A t \in Running \cap InAccepted : acceptedAt[t] >= probe[p].start \/ t \in probe[p].sample

IInv ==
  /\ TypeOK
  /\ LedgerExact
  /\ StampsOrdered
  /\ AcceptedWereAnswered
  /\ StoredProbeCovers
  /\ PendingProbesCover

-----------------------------------------------------------------------------
(***************************************************************************)
(* The ledgers.                                                            *)
(***************************************************************************)

\* The pending tickets are finitely many, and a phase change of one ticket
\* moves it alone in or out of them.
LEMMA PendingFinite == IsFiniteSet(InPending)
  BY TicketsFinite, FS_Subset DEF InPending

LEMMA PendingCount ==
  /\ Cardinality(InPending) \in Nat
  /\ \A t \in InPending : Cardinality(InPending) - 1 \in Nat
<1>1. Cardinality(InPending) \in Nat /\ (InPending # {} => Cardinality(InPending) # 0)
  BY PendingFinite, FS_CardinalityType, FS_EmptySet
<1> QED
  BY <1>1

LEMMA PendingGrows ==
  ASSUME NEW t \in Tickets, t \notin InPending, InPending' = InPending \cup {t}
  PROVE  Cardinality(InPending') = Cardinality(InPending) + 1
  BY PendingFinite, FS_AddElement

LEMMA PendingShrinks ==
  ASSUME NEW t \in Tickets, t \in InPending, InPending' = InPending \ {t}
  PROVE  Cardinality(InPending') = Cardinality(InPending) - 1
  BY PendingFinite, FS_RemoveElement

LEMMA LedgerInit == Init => LedgerExact
<1> SUFFICES ASSUME Init PROVE LedgerExact
  OBVIOUS
<1>1. InPending = {} /\ InAccepted = {}
  BY DEF Init, InPending, InAccepted
<1>2. Cardinality(InPending) = 0
  BY <1>1, FS_EmptySet
<1> QED
  BY <1>1, <1>2 DEF Init, LedgerExact

\* What an end() does to the ledgers, on whichever of the two paths.
LEMMA EndKeepsLedger ==
  ASSUME TypeOK, LedgerExact, NEW t \in Tickets, end(t)
  PROVE  LedgerExact'
<1>1. CASE t \in InAccepted
  <2>1. InPending' = InPending /\ InAccepted' = InAccepted \ {t}
    BY <1>1 DEF end, InPending, InAccepted, TypeOK
  <2> QED
    BY <1>1, <2>1 DEF end, LedgerExact, TypeOK
<1>2. CASE t \notin InAccepted
  <2>1. t \in InPending /\ InPending' = InPending \ {t} /\ InAccepted' = InAccepted
    BY <1>2 DEF end, InPending, InAccepted, TypeOK
  <2>2. Cardinality(InPending') = Cardinality(InPending) - 1
    BY <2>1, PendingShrinks
  <2> QED
    BY <1>2, <2>1, <2>2 DEF end, LedgerExact
<1> QED
  BY <1>1, <1>2

LEMMA LedgerStep == TypeOK /\ LedgerExact /\ [Next]_vars => LedgerExact'
<1> SUFFICES ASSUME TypeOK, LedgerExact, [Next]_vars
             PROVE  LedgerExact'
  OBVIOUS
<1>1. ASSUME UNCHANGED << ticket, pending, acceptedAt >>
      PROVE  LedgerExact'
  BY <1>1 DEF LedgerExact, InPending, InAccepted
<1>2. ASSUME NEW t \in Tickets, Dispatcher(t)
      PROVE  LedgerExact'
  <2>1. CASE begin(t)
    <3>1. t \notin InPending /\ InPending' = InPending \cup {t} /\ InAccepted' = InAccepted
      BY <2>1 DEF begin, Phase, InPending, InAccepted, TypeOK
    <3>2. Cardinality(InPending') = Cardinality(InPending) + 1
      BY <3>1, PendingGrows
    <3> QED
      BY <2>1, <3>1, <3>2 DEF begin, LedgerExact
  <2>2. CASE acceptEnds(t)
    <3>1. t \in InPending /\ InPending' = InPending \ {t} /\ InAccepted' = InAccepted
      BY <2>2 DEF acceptEnds, Phase, InPending, InAccepted, TypeOK
    <3>2. Cardinality(InPending') = Cardinality(InPending) - 1
      BY <3>1, PendingShrinks
    <3> QED
      BY <2>2, <3>1, <3>2 DEF acceptEnds, LedgerExact
  <2>3. CASE acceptInserts(t)
    <3>1. InPending' = InPending /\ InAccepted' = InAccepted \cup {t}
      BY <2>3 DEF acceptInserts, Phase, InPending, InAccepted, TypeOK
    <3>2. clock # NotAccepted
      BY DEF TypeOK, Times, NotAccepted
    <3> QED
      BY <2>3, <3>1, <3>2 DEF acceptInserts, LedgerExact, TypeOK
  <2>4. CASE Return(t) \/ ReturnAfterFailure(t)
    BY <2>4, EndKeepsLedger DEF Return, ReturnAfterFailure
  <2>5. CASE markDown(t)
    <3>1. InPending' = InPending /\ InAccepted' = InAccepted
      BY <2>5 DEF markDown, Phase, InPending, InAccepted, TypeOK
    <3> QED
      BY <2>5, <3>1 DEF markDown, LedgerExact
  <2> QED
    BY <1>2, <2>1, <2>2, <2>3, <2>4, <2>5 DEF Dispatcher
<1>3. CASE Tick
  BY <1>1, <1>3 DEF Tick
<1>4. ASSUME NEW t \in Tickets, Agent(t)
      PROVE  LedgerExact'
  BY <1>1, <1>4 DEF Agent, AgentRegisters, AgentDenies, AgentUnregisters, AgentSteps
<1>5. ASSUME NEW p \in Probes, Prober(p)
      PROVE  LedgerExact'
  BY <1>1, <1>5 DEF Prober, ProbeStarts, ProbeAnswered, ProbeStores, ProbeFails
<1>6. CASE UNCHANGED vars
  BY <1>1, <1>6 DEF vars
<1> QED
  BY <1>2, <1>3, <1>4, <1>5, <1>6 DEF Next

-----------------------------------------------------------------------------
(***************************************************************************)
(* Types.  That pending is never negative needs the ledger.                *)
(***************************************************************************)
LEMMA TypeInit == Init => TypeOK
<1>1. IdleProbe \in ProbeRecord
  BY DEF IdleProbe, ProbeRecord, Times
<1>2. Init => probe \in [Probes -> ProbeRecord]
  BY <1>1 DEF Init
<1>3. Init => clock \in Times /\ lastProbeStart \in Times /\ answeredAt \in Times
  BY DEF Init, Times
<1>4. Init => ticket \in [Tickets -> TicketPhase] /\ agent \in [Tickets -> AgentPhase]
  BY DEF Init, TicketPhase, AgentPhase
<1>5. Init => acceptedAt \in [Tickets -> Times \cup {NotAccepted}]
  BY DEF Init
<1>6. Init => reported \in SUBSET Tickets
  BY DEF Init
<1>7. Init => pending \in Nat
  BY DEF Init
<1>8. Init => healthy \in BOOLEAN
  BY DEF Init
<1> QED
  BY <1>2, <1>3, <1>4, <1>5, <1>6, <1>7, <1>8 DEF TypeOK

LEMMA EndKeepsType ==
  ASSUME TypeOK, LedgerExact, NEW t \in Tickets, end(t)
  PROVE  /\ ticket' \in [Tickets -> TicketPhase]
         /\ pending' \in Nat
         /\ acceptedAt' \in [Tickets -> Times \cup {NotAccepted}]
<1>1. ticket' \in [Tickets -> TicketPhase]
  BY DEF end, TypeOK, TicketPhase
<1>2. acceptedAt' \in [Tickets -> Times \cup {NotAccepted}]
  BY DEF end, TypeOK
<1>3. pending' \in Nat
  <2>1. CASE t \in InAccepted
    BY <2>1 DEF end, TypeOK
  <2>2. CASE t \notin InAccepted
    <3>1. t \in InPending /\ pending = Cardinality(InPending) /\ pending' = pending - 1
      BY <2>2 DEF end, InPending, InAccepted, LedgerExact
    <3> QED
      BY <3>1, PendingCount
  <2> QED
    BY <2>1, <2>2
<1> QED
  BY <1>1, <1>2, <1>3

LEMMA TypeStep == TypeOK /\ LedgerExact /\ [Next]_vars => TypeOK'
<1> SUFFICES ASSUME TypeOK, LedgerExact, [Next]_vars
             PROVE  TypeOK'
  OBVIOUS
<1> USE DEF TypeOK
<1>1. CASE Tick
  BY <1>1 DEF Tick, Times
<1>2. ASSUME NEW t \in Tickets, Dispatcher(t)
      PROVE  TypeOK'
  <2>1. CASE begin(t)
    BY <2>1 DEF begin, Phase, TicketPhase
  <2>2. CASE acceptEnds(t)
    <3>1. t \in InPending /\ pending = Cardinality(InPending)
      BY <2>2 DEF acceptEnds, Phase, InPending, LedgerExact
    <3>2. pending - 1 \in Nat
      BY <3>1, PendingCount
    <3> QED
      BY <2>2, <3>2 DEF acceptEnds, Phase, TicketPhase
  <2>3. CASE acceptInserts(t)
    BY <2>3 DEF acceptInserts, Phase, TicketPhase
  <2>4. CASE Return(t)
    BY <2>4, EndKeepsType DEF Return
  <2>5. CASE markDown(t)
    BY <2>5 DEF markDown, Phase, TicketPhase
  <2>6. CASE ReturnAfterFailure(t)
    BY <2>6, EndKeepsType DEF ReturnAfterFailure
  <2> QED
    BY <1>2, <2>1, <2>2, <2>3, <2>4, <2>5, <2>6 DEF Dispatcher
<1>3. ASSUME NEW t \in Tickets, Agent(t)
      PROVE  TypeOK'
  BY <1>3 DEF Agent, AgentRegisters, AgentDenies, AgentUnregisters, AgentSteps,
              AgentPhase
<1>4. ASSUME NEW p \in Probes, Prober(p)
      PROVE  TypeOK'
  <2> IdleProbe \in ProbeRecord
    BY DEF IdleProbe, ProbeRecord, Times
  <2> probe[p] \in ProbeRecord
    OBVIOUS
  <2>1. CASE ProbeStarts(p)
    <3>1. [phase |-> "asked", start |-> clock, sample |-> {}, ok |-> FALSE,
           at |-> clock] \in ProbeRecord
      BY DEF ProbeRecord
    <3> QED
      BY <2>1, <3>1 DEF ProbeStarts
  <2>2. CASE ProbeAnswered(p)
    <3>1. PICK ok \in BOOLEAN :
            probe' = [probe EXCEPT ![p] =
                        [phase |-> "answered", start |-> probe[p].start,
                         sample |-> Running, ok |-> ok, at |-> clock]]
      BY <2>2 DEF ProbeAnswered
    <3>2. [phase |-> "answered", start |-> probe[p].start, sample |-> Running,
           ok |-> ok, at |-> clock] \in ProbeRecord
      BY DEF ProbeRecord, Running
    <3> QED
      BY <2>2, <3>1, <3>2 DEF ProbeAnswered
  <2>3. CASE ProbeStores(p)
    BY <2>3 DEF ProbeStores, ProbeRecord
  <2>4. CASE ProbeFails(p)
    BY <2>4 DEF ProbeFails
  <2> QED
    BY <1>4, <2>1, <2>2, <2>3, <2>4 DEF Prober
<1>5. CASE UNCHANGED vars
  BY <1>5 DEF vars
<1> QED
  BY <1>1, <1>2, <1>3, <1>4, <1>5 DEF Next

LEMMA TypedLedger == Spec => [](TypeOK /\ LedgerExact)
<1>1. Init => TypeOK /\ LedgerExact
  BY TypeInit, LedgerInit
<1>2. (TypeOK /\ LedgerExact) /\ [Next]_vars => (TypeOK /\ LedgerExact)'
  BY TypeStep, LedgerStep
<1> QED
  BY <1>1, <1>2, PTL DEF Spec

\* The type invariant: every variable keeps the type its Go field has, and
\* the atomic counter of unanswered dispatches never goes negative.
THEOREM TypeCorrect == Spec => []TypeOK
  BY TypedLedger, PTL

\* The ledgers of worker.pending and worker.accepted hold exactly the
\* dispatches under way: no path through streamFrom leaks a count.
THEOREM LedgerCorrect == Spec => []LedgerExact
  BY TypedLedger, PTL

-----------------------------------------------------------------------------
(***************************************************************************)
(* The probes.                                                             *)
(***************************************************************************)
Covered == StampsOrdered /\ AcceptedWereAnswered /\ StoredProbeCovers /\ PendingProbesCover

LEMMA CoveredInit == Init => Covered
  BY DEF Init, Covered, StampsOrdered, AcceptedWereAnswered, StoredProbeCovers,
         PendingProbesCover, IdleProbe, Running, InAccepted

\* A step that only takes tickets out of the accepted ones, sessions off the
\* worker or the clock forward leaves both covers in place.
LEMMA CoversShrink ==
  ASSUME StoredProbeCovers, PendingProbesCover,
         (Running \cap InAccepted)' \subseteq Running \cap InAccepted,
         \A t \in (Running \cap InAccepted)' : acceptedAt'[t] = acceptedAt[t],
         UNCHANGED << lastProbeStart, reported, probe >>
  PROVE  StoredProbeCovers' /\ PendingProbesCover'
  BY DEF StoredProbeCovers, PendingProbesCover

LEMMA CoveredStep == TypeOK /\ TypeOK' /\ Covered /\ [Next]_vars => Covered'
<1> SUFFICES ASSUME TypeOK, TypeOK', Covered, [Next]_vars
             PROVE  Covered'
  OBVIOUS
<1> USE DEF Covered
<1>1. ASSUME NEW t \in Tickets, Dispatcher(t)
      PROVE  Covered'
  <2>1. CASE begin(t) \/ acceptEnds(t) \/ Return(t) \/ markDown(t) \/ ReturnAfterFailure(t)
    <3>1. UNCHANGED << clock, agent, lastProbeStart, reported, probe, answeredAt >>
      BY <2>1 DEF begin, acceptEnds, Return, markDown, ReturnAfterFailure
    <3>2. StampsOrdered'
      BY <3>1 DEF StampsOrdered
    <3>3. AcceptedWereAnswered'
      BY <2>1 DEF begin, acceptEnds, Return, markDown, ReturnAfterFailure, end, Phase,
                  AcceptedWereAnswered, TypeOK
    <3>4. InAccepted' \subseteq InAccepted
      BY <2>1 DEF begin, acceptEnds, Return, markDown, ReturnAfterFailure, end, Phase,
                  InAccepted, TypeOK
    <3>5. \A u \in InAccepted' : acceptedAt'[u] = acceptedAt[u]
      BY <2>1 DEF begin, acceptEnds, Return, markDown, ReturnAfterFailure, end, Phase,
                  InAccepted, TypeOK
    <3>6. (Running \cap InAccepted)' \subseteq Running \cap InAccepted
      BY <3>1, <3>4 DEF Running
    <3> QED
      BY <3>1, <3>2, <3>3, <3>5, <3>6, CoversShrink
  <2>2. CASE acceptInserts(t)
    <3>1. StampsOrdered'
      BY <2>2 DEF acceptInserts, StampsOrdered
    <3>2. AcceptedWereAnswered'
      BY <2>2 DEF acceptInserts, Phase, AcceptedWereAnswered, TypeOK
    <3>3. InAccepted' = InAccepted \cup {t} /\ Running' = Running
      BY <2>2 DEF acceptInserts, Phase, InAccepted, Running, TypeOK
    <3>4. \A u \in Tickets : acceptedAt'[u] = IF u = t THEN clock ELSE acceptedAt[u]
      BY <2>2 DEF acceptInserts, TypeOK
    <3>5. StoredProbeCovers'
      BY <2>2, <3>3, <3>4 DEF acceptInserts, StampsOrdered, StoredProbeCovers, InAccepted
    <3>6. PendingProbesCover'
      BY <2>2, <3>3, <3>4 DEF acceptInserts, StampsOrdered, PendingProbesCover, InAccepted
    <3> QED
      BY <3>1, <3>2, <3>5, <3>6
  <2> QED
    BY <1>1, <2>1, <2>2 DEF Dispatcher
<1>2. ASSUME NEW t \in Tickets, Agent(t)
      PROVE  Covered'
  <2>1. UNCHANGED << clock, ticket, acceptedAt, lastProbeStart, reported, probe, answeredAt >>
    BY <1>2 DEF Agent, AgentRegisters, AgentDenies, AgentUnregisters, AgentSteps
  <2>2. StampsOrdered'
    BY <2>1 DEF StampsOrdered
  <2>3. AcceptedWereAnswered'
    BY <1>2 DEF Agent, AgentRegisters, AgentDenies, AgentUnregisters, AgentSteps,
                AcceptedWereAnswered, TypeOK
  \* A session appears only while its dispatch has not been accepted.
  <2>4. (Running \cap InAccepted)' \subseteq Running \cap InAccepted
    BY <1>2, <2>1 DEF Agent, AgentRegisters, AgentDenies, AgentUnregisters, AgentSteps,
                AcceptedWereAnswered, Running, InAccepted, TypeOK
  <2> QED
    BY <2>1, <2>2, <2>3, <2>4, CoversShrink
<1>3. ASSUME NEW p \in Probes, Prober(p)
      PROVE  Covered'
  <2>0. UNCHANGED << clock, ticket, agent, acceptedAt >>
    BY <1>3 DEF Prober, ProbeStarts, ProbeAnswered, ProbeStores, ProbeFails
  <2>1. AcceptedWereAnswered' /\ Running' = Running /\ InAccepted' = InAccepted
    BY <2>0 DEF AcceptedWereAnswered, Running, InAccepted
  <2>2. CASE ProbeStarts(p) \/ ProbeFails(p)
    <3>1. /\ probe'[p].phase # "answered"
          /\ probe'[p].start <= clock /\ probe'[p].start <= probe'[p].at
          /\ \A q \in Probes \ {p} : probe'[q] = probe[q]
      BY <2>2 DEF ProbeStarts, ProbeFails, IdleProbe, TypeOK, Times
    <3>2. UNCHANGED << lastProbeStart, reported, answeredAt >>
      BY <2>2 DEF ProbeStarts, ProbeFails
    <3> QED
      BY <2>0, <2>1, <3>1, <3>2 DEF StampsOrdered, StoredProbeCovers, PendingProbesCover
  <2>3. CASE ProbeAnswered(p)
    <3>1. /\ probe'[p].start = probe[p].start
          /\ probe'[p].at = clock
          /\ probe'[p].sample = Running
          /\ \A q \in Probes \ {p} : probe'[q] = probe[q]
      BY <2>3 DEF ProbeAnswered, TypeOK
    <3>2. UNCHANGED << lastProbeStart, reported, answeredAt >>
      BY <2>3 DEF ProbeAnswered
    <3> QED
      BY <2>0, <2>1, <3>1, <3>2 DEF StampsOrdered, StoredProbeCovers, PendingProbesCover
  <2>4. CASE ProbeStores(p)
    <3>1. /\ lastProbeStart' = probe[p].start
          /\ answeredAt' = probe[p].at
          /\ reported' = probe[p].sample
          /\ probe[p].phase = "answered"
      BY <2>4 DEF ProbeStores
    <3>2. probe'[p] = IdleProbe /\ \A q \in Probes \ {p} : probe'[q] = probe[q]
      BY <2>4 DEF ProbeStores, TypeOK
    <3>3. StampsOrdered'
      BY <2>0, <3>1, <3>2 DEF StampsOrdered, IdleProbe, TypeOK, Times
    <3>4. StoredProbeCovers'
      BY <2>0, <2>1, <3>1 DEF StoredProbeCovers, PendingProbesCover
    <3>5. PendingProbesCover'
      BY <2>0, <2>1, <3>2 DEF PendingProbesCover, IdleProbe
    <3> QED
      BY <2>1, <3>3, <3>4, <3>5
  <2> QED
    BY <1>3, <2>2, <2>3, <2>4 DEF Prober
<1>4. CASE Tick
  BY <1>4 DEF Tick, StampsOrdered, AcceptedWereAnswered, StoredProbeCovers,
              PendingProbesCover, Running, InAccepted, TypeOK, Times, ProbeRecord
<1>5. CASE UNCHANGED vars
  BY <1>5 DEF vars, StampsOrdered, AcceptedWereAnswered, StoredProbeCovers,
              PendingProbesCover, Running, InAccepted
<1> QED
  BY <1>1, <1>2, <1>3, <1>4, <1>5 DEF Next

LEMMA InductiveInvariant == Spec => []IInv
<1>1. Init => Covered
  BY CoveredInit
<1>2. TypeOK /\ TypeOK' /\ Covered /\ [Next]_vars => Covered'
  BY CoveredStep
<1>3. Spec => []Covered
  BY <1>1, <1>2, TypeCorrect, PTL DEF Spec
<1>4. TypeOK /\ LedgerExact /\ Covered => IInv
  BY DEF Covered, IInv
<1> QED
  BY <1>3, <1>4, TypeCorrect, LedgerCorrect, PTL

-----------------------------------------------------------------------------
(***************************************************************************)
(* The theorems.                                                           *)
(***************************************************************************)
LEMMA UnionBound ==
  ASSUME NEW A, IsFiniteSet(A), NEW B, IsFiniteSet(B)
  PROVE  IsFiniteSet(A \cup B) /\ Cardinality(A \cup B) <= Cardinality(A) + Cardinality(B)
<1>1. IsFiniteSet(A \cap B)
  BY FS_Subset
<1>2. Cardinality(A) \in Nat /\ Cardinality(B) \in Nat /\ Cardinality(A \cap B) \in Nat
  BY <1>1, FS_CardinalityType
<1>3. IsFiniteSet(A \cup B)
      /\ Cardinality(A \cup B) = Cardinality(A) + Cardinality(B) - Cardinality(A \cap B)
  BY FS_Union, Zenon
<1> QED
  BY <1>2, <1>3

\* Every live session is pending, freshly accepted or reported; so the count
\* the scheduler ranks by never falls below what the worker runs.
THEOREM LoadNeverUnderestimates == Spec => []LoadCoversLive
<1>1. IInv => LoadCoversLive
  <2> SUFFICES ASSUME IInv
               PROVE  LoadCoversLive
    OBVIOUS
  <2>1. Live \subseteq (InPending \cup Fresh) \cup reported
    BY DEF IInv, StoredProbeCovers, LedgerExact, Live, Fresh, InPending, InAccepted, Running
  <2>2. IsFiniteSet(InPending) /\ IsFiniteSet(Fresh) /\ IsFiniteSet(reported)
    BY PendingFinite, TicketsFinite, FS_Subset DEF Fresh, IInv, TypeOK
  <2>3. /\ IsFiniteSet(InPending \cup Fresh)
        /\ Cardinality(InPending \cup Fresh) <= Cardinality(InPending) + Cardinality(Fresh)
    BY <2>2, UnionBound
  <2>4. /\ IsFiniteSet((InPending \cup Fresh) \cup reported)
        /\ Cardinality((InPending \cup Fresh) \cup reported)
             <= Cardinality(InPending \cup Fresh) + Cardinality(reported)
    BY <2>2, <2>3, UnionBound
  <2>5. IsFiniteSet(Live) /\ Cardinality(Live) <= Cardinality((InPending \cup Fresh) \cup reported)
    BY <2>1, <2>4, FS_Subset
  <2>6. /\ Cardinality(Live) \in Nat
        /\ Cardinality(InPending) \in Nat
        /\ Cardinality(Fresh) \in Nat
        /\ Cardinality(reported) \in Nat
        /\ Cardinality(InPending \cup Fresh) \in Nat
        /\ Cardinality((InPending \cup Fresh) \cup reported) \in Nat
    BY <2>2, <2>3, <2>4, <2>5, FS_CardinalityType
  <2>7. pending = Cardinality(InPending)
    BY DEF IInv, LedgerExact
  <2> QED
    BY <2>3, <2>4, <2>5, <2>6, <2>7 DEF LoadCoversLive, sessions, inFlight
<1> QED
  BY <1>1, InductiveInvariant, PTL

\* Recovery tries a worker again only after it has answered a newer probe.
THEOREM ReuseAlwaysJustified == Spec => []ReuseIsJustified
<1>1. IInv => ReuseIsJustified
  <2> SUFFICES ASSUME IInv, NEW time \in 0..MaxTime, lastProbeStart > time
               PROVE  answeredAt > time
    BY DEF ReuseIsJustified, healthySince
  <2>1. lastProbeStart \in Nat /\ answeredAt \in Nat /\ lastProbeStart <= answeredAt
    BY DEF IInv, StampsOrdered, TypeOK, Times
  <2> QED
    BY <2>1, MaxTimeNat
<1> QED
  BY <1>1, InductiveInvariant, PTL

-----------------------------------------------------------------------------
(***************************************************************************)
(* LoadRead: the account read in parts while it moves.                     *)
(***************************************************************************)
\* The reader leaves the account alone.
LEMMA ReadRunsTheAccount == ReadSpec => Spec
<1>1. ReadInit => Init
  BY DEF ReadInit
<1>2. [ReadNext]_readVars => [Next]_vars
  BY DEF ReadNext, readActive, inFlightReads, Reads, Meanwhile, readVars
<1> QED
  BY <1>1, <1>2, PTL DEF ReadSpec, Spec

\* Every set of tickets has a cardinality.
LEMMA TicketsCount ==
  ASSUME NEW S \in SUBSET Tickets
  PROVE  IsFiniteSet(S) /\ Cardinality(S) \in Nat
<1>1. IsFiniteSet(S)
  BY TicketsFinite, FS_Subset
<1> QED
  BY <1>1, FS_CardinalityType

LEMMA AccountSets ==
  ASSUME TypeOK
  PROVE  /\ reported \in SUBSET Tickets /\ Fresh \in SUBSET Tickets
         /\ InPending \in SUBSET Tickets /\ Live \in SUBSET Tickets
BY DEF TypeOK, Fresh, InPending, Live, Running

-----------------------------------------------------------------------------
(***************************************************************************)
(* Type correctness.                                                       *)
(***************************************************************************)
LEMMA ReadTypeStep ==
  ASSUME ReadTypeOK, TypeOK, [ReadNext]_readVars
  PROVE  ReadTypeOK'
<1>1. Cardinality(reported) \in Nat /\ Cardinality(Fresh) \in Nat /\ pending \in Nat
  BY AccountSets, TicketsCount DEF TypeOK
<1>2. Live \in SUBSET Tickets
  BY AccountSets
<1>3. CASE readActive
  BY <1>1, <1>2, <1>3 DEF readActive, ReadTypeOK, Terms
<1>4. ASSUME NEW term, NEW n \in Nat, NEW next \in Terms, Reads(term, n, next)
      PROVE  ReadTypeOK'
  BY <1>4 DEF Reads, ReadTypeOK
<1>5. CASE inFlightReads
  BY <1>1, <1>4, <1>5 DEF inFlightReads, Terms
<1>6. CASE Meanwhile
  BY <1>6 DEF Meanwhile, ReadTypeOK
<1>7. CASE UNCHANGED readVars
  BY <1>7 DEF readVars, reader, ReadTypeOK
<1> QED
  BY <1>3, <1>5, <1>6, <1>7 DEF ReadNext

\* The reader's variables keep their types; in particular the sum is a count.
THEOREM ReadTypeCorrect == ReadSpec => []ReadTypeOK
<1>1. ReadInit => ReadTypeOK
  <2>1. ReadInit => reading \in Terms /\ watched \in SUBSET Tickets
    BY DEF ReadInit, Terms
  <2>2. ReadInit => sum \in Nat
    BY DEF ReadInit
  <2>3. ReadInit => probed \in BOOLEAN
    BY DEF ReadInit
  <2> QED
    BY <2>1, <2>2, <2>3 DEF ReadTypeOK
<1>2. ReadTypeOK /\ TypeOK /\ [ReadNext]_readVars => ReadTypeOK'
  BY ReadTypeStep
<1> QED
  BY <1>1, <1>2, ReadRunsTheAccount, TypeCorrect, PTL DEF ReadSpec

-----------------------------------------------------------------------------
(***************************************************************************)
(* The reading.  A watched session that is pending when pending is read is *)
(* in the sum; one that is not by then is accepted, or about to be, and    *)
(* will be in the accepted map as long as it lives: the map is read last.  *)
(***************************************************************************)
\* What has been watched has begun, on both sides.
WatchedBegan == \A t \in watched : ticket[t] # "new" /\ agent[t] # "none"

\* Between the reads, P are the tickets that were pending.
Split(P) ==
  /\ sum = Cardinality(reported) + Cardinality(P)
  /\ watched \cap Live \subseteq reported \cup P \cup Fresh

SumCovers ==
  /\ reading = "pending" /\ ~ probed => sum = Cardinality(reported)
  /\ reading = "accepted" /\ ~ probed => \E P \in SUBSET Tickets : Split(P)
  /\ ReadCoversUnlessProbed

\* A live session is in one of the three terms.
LEMMA LiveIsCounted ==
  ASSUME IInv
  PROVE  Live \subseteq reported \cup InPending \cup Fresh
BY DEF IInv, StoredProbeCovers, LedgerExact, Live, Fresh, InPending, InAccepted, Running

LEMMA WatchedStep ==
  ASSUME TypeOK, ReadTypeOK, WatchedBegan, [ReadNext]_readVars
  PROVE  WatchedBegan'
<1>1. CASE readActive
  BY <1>1 DEF readActive, WatchedBegan, Live, Running, InPending, InAccepted, vars
<1>2. CASE inFlightReads
  BY <1>2 DEF inFlightReads, Reads, WatchedBegan, vars
<1>3. CASE UNCHANGED readVars
  BY <1>3 DEF readVars, vars, reader, WatchedBegan
<1>4. CASE Meanwhile
  <2>1. watched' = watched /\ watched \in SUBSET Tickets
    BY <1>4 DEF Meanwhile, ReadTypeOK
  <2>2. ASSUME NEW t \in Tickets, Dispatcher(t)
        PROVE  agent' = agent /\ \A u \in Tickets : ticket[u] # "new" => ticket'[u] # "new"
    BY <2>2 DEF Dispatcher, begin, acceptEnds, acceptInserts, Return, markDown,
                ReturnAfterFailure, end, Phase, TypeOK
  <2>3. ASSUME NEW t \in Tickets, Agent(t)
        PROVE  ticket' = ticket /\ \A u \in Tickets : agent[u] # "none" => agent'[u] # "none"
    BY <2>3 DEF Agent, AgentRegisters, AgentDenies, AgentUnregisters, AgentSteps, TypeOK
  <2>4. ASSUME NEW p \in Probes, Prober(p)
        PROVE  ticket' = ticket /\ agent' = agent
    BY <2>4 DEF Prober, ProbeStarts, ProbeAnswered, ProbeStores, ProbeFails
  <2>5. Tick => ticket' = ticket /\ agent' = agent
    BY DEF Tick
  <2> QED
    BY <1>4, <2>1, <2>2, <2>3, <2>4, <2>5 DEF Meanwhile, Next, WatchedBegan
<1> QED
  BY <1>1, <1>2, <1>3, <1>4 DEF ReadNext

\* Tickets change phase, and enter and leave the accepted map, by dispatchers only.
LEMMA OnlyDispatchers ==
  ASSUME Next
  PROVE  (\E t \in Tickets : Dispatcher(t)) \/ UNCHANGED << ticket, acceptedAt >>
BY DEF Next, Agent, AgentRegisters, AgentDenies, AgentUnregisters, AgentSteps,
       Prober, ProbeStarts, ProbeAnswered, ProbeStores, ProbeFails, Tick

\* While dispatches and probes go on and none of these is stored, what was covered
\* and still lives is covered: it stays in the accepted map, or only now enters it.
LEMMA CoverStays ==
  ASSUME IInv, LedgerExact', WatchedBegan, ReadTypeOK, Meanwhile, ~ probed', NEW P,
         watched \cap Live \subseteq reported \cup P \cup Fresh
  PROVE  (watched \cap Live)' \subseteq reported' \cup P \cup Fresh'
<1>1. TypeOK /\ LedgerExact /\ AcceptedWereAnswered /\ lastProbeStart <= clock
  BY DEF IInv, StampsOrdered
<1>2. Next /\ watched' = watched /\ reported' = reported /\ lastProbeStart' = lastProbeStart
  BY DEF Meanwhile
<1> SUFFICES ASSUME NEW t \in Tickets, t \in watched, t \in Live'
             PROVE  t \in reported \cup P \cup Fresh'
  BY <1>1, <1>2 DEF ReadTypeOK
<1>3. ticket[t] # "new" /\ agent[t] # "none"
  BY DEF WatchedBegan
<1>4. agent'[t] = "running"
  BY DEF Live, Running
<1>5. agent[t] = "running"
  <2>1. ASSUME NEW u \in Tickets, Agent(u)
        PROVE  agent[t] = "running"
    BY <1>1, <1>3, <1>4, <2>1
       DEF Agent, AgentRegisters, AgentDenies, AgentUnregisters, AgentSteps, TypeOK
  <2>2. ASSUME NEW u \in Tickets, Dispatcher(u)
        PROVE  agent' = agent
    BY <2>2 DEF Dispatcher, begin, acceptEnds, acceptInserts, Return, markDown,
                ReturnAfterFailure
  <2>3. ASSUME NEW p \in Probes, Prober(p)
        PROVE  agent' = agent
    BY <2>3 DEF Prober, ProbeStarts, ProbeAnswered, ProbeStores, ProbeFails
  <2>4. Tick => agent' = agent
    BY DEF Tick
  <2> QED
    BY <1>2, <1>4, <2>1, <2>2, <2>3, <2>4 DEF Next
<1>6. ticket'[t] \in {"pending", "failing", "accepted", "breaking"}
  BY DEF Live, InPending, InAccepted
<1>7. CASE ticket[t] = "accepting"
  <2>1. PICK u \in Tickets : Dispatcher(u)
    BY <1>2, <1>6, <1>7, OnlyDispatchers
  <2>2. u = t /\ acceptInserts(u)
    BY <1>1, <1>6, <1>7, <2>1
       DEF Dispatcher, begin, acceptEnds, acceptInserts, Return, markDown,
           ReturnAfterFailure, end, Phase, TypeOK
  <2>3. acceptedAt'[t] = clock
    BY <1>1, <2>2 DEF acceptInserts, TypeOK
  <2>4. clock # NotAccepted
    BY <1>1 DEF TypeOK, Times, NotAccepted
  <2> QED
    BY <1>1, <1>2, <2>3, <2>4 DEF Fresh
<1>8. CASE ticket[t] # "accepting"
  <2>1. ticket[t] \in {"pending", "failing", "accepted", "breaking"}
    <3>1. ticket[t] # "ended"
      <4>1. ASSUME NEW u \in Tickets, Dispatcher(u), ticket[t] = "ended"
            PROVE  ticket'[t] = "ended"
        BY <1>1, <4>1 DEF Dispatcher, begin, acceptEnds, acceptInserts, Return, markDown,
                          ReturnAfterFailure, end, Phase, TypeOK
      <4> QED
        BY <1>2, <1>6, <4>1, OnlyDispatchers
    <3> QED
      BY <1>1, <1>3, <1>8, <3>1 DEF TypeOK, TicketPhase
  <2>2. t \in reported \cup P \cup Fresh
    BY <1>5, <2>1 DEF Live, Running, InPending, InAccepted
  <2>3. CASE t \in Fresh
    <3>1. acceptedAt'[t] # NotAccepted
      <4>1. t \in InAccepted
        BY <1>1, <2>3 DEF Fresh, LedgerExact
      <4>2. t \in InAccepted'
        <5>1. ASSUME NEW u \in Tickets, Dispatcher(u)
              PROVE  ticket'[t] \notin {"pending", "failing"}
          BY <1>1, <4>1, <5>1 DEF Dispatcher, begin, acceptEnds, acceptInserts, Return,
                 markDown, ReturnAfterFailure, end, Phase, InAccepted, TypeOK
        <5> QED
          BY <1>2, <1>6, <4>1, <5>1, OnlyDispatchers DEF InAccepted
      <4> QED
        BY <4>2 DEF LedgerExact
    <3>2. acceptedAt'[t] = acceptedAt[t]
      <4>1. ASSUME NEW u \in Tickets, Dispatcher(u)
            PROVE  acceptedAt'[t] \in {acceptedAt[t], NotAccepted}
        BY <1>1, <1>8, <4>1 DEF Dispatcher, begin, acceptEnds, acceptInserts, Return,
               markDown, ReturnAfterFailure, end, Phase, TypeOK
      <4> QED
        BY <1>2, <3>1, <4>1, OnlyDispatchers
    <3> QED
      BY <1>2, <2>3, <3>2 DEF Fresh
  <2> QED
    BY <2>2, <2>3
<1> QED
  BY <1>7, <1>8

\* The last read, of the accepted map, covers what is watched to the end.
LEMMA LastReadCovers ==
  ASSUME TypeOK, ReadTypeOK, NEW P \in SUBSET Tickets, Split(P)
  PROVE  Cardinality(watched \cap Live) <= sum + Cardinality(Fresh)
<1>1. /\ IsFiniteSet(reported) /\ IsFiniteSet(P) /\ IsFiniteSet(Fresh)
      /\ Cardinality(reported) \in Nat /\ Cardinality(P) \in Nat /\ Cardinality(Fresh) \in Nat
  BY AccountSets, TicketsCount
<1>2. /\ IsFiniteSet(reported \cup P)
      /\ Cardinality(reported \cup P) <= Cardinality(reported) + Cardinality(P)
  BY <1>1, UnionBound
<1>3. /\ IsFiniteSet((reported \cup P) \cup Fresh)
      /\ Cardinality((reported \cup P) \cup Fresh) <= Cardinality(reported \cup P) + Cardinality(Fresh)
  BY <1>1, <1>2, UnionBound
<1>4. /\ IsFiniteSet(watched \cap Live)
      /\ Cardinality(watched \cap Live) <= Cardinality((reported \cup P) \cup Fresh)
  BY <1>3, FS_Subset DEF Split
<1>5. /\ Cardinality(reported \cup P) \in Nat
      /\ Cardinality((reported \cup P) \cup Fresh) \in Nat
      /\ Cardinality(watched \cap Live) \in Nat
  BY <1>2, <1>3, <1>4, FS_CardinalityType
<1>6. sum = Cardinality(reported) + Cardinality(P)
  BY DEF Split
<1> QED
  BY <1>1, <1>2, <1>3, <1>4, <1>5, <1>6

LEMMA SumStep ==
  ASSUME IInv, LedgerExact', ReadTypeOK, WatchedBegan, SumCovers, [ReadNext]_readVars
  PROVE  SumCovers'
<1>1. TypeOK /\ pending = Cardinality(InPending) /\ InPending \in SUBSET Tickets
  BY AccountSets DEF IInv, LedgerExact
<1>2. CASE readActive
  BY <1>2 DEF readActive, SumCovers, ReadCoversUnlessProbed, vars
<1>3. CASE Reads("pending", pending, "accepted")
  <2>1. ~ probed => Split(InPending)'
    <3>1. UNCHANGED << reported, InPending, Fresh, Live, watched >>
      BY <1>3 DEF Reads, vars, InPending, Fresh, Live, Running, InAccepted
    <3>2. watched \cap Live \subseteq reported \cup InPending \cup Fresh
      BY LiveIsCounted
    <3>3. ~ probed => sum' = Cardinality(reported) + Cardinality(InPending)
      BY <1>1, <1>3 DEF Reads, SumCovers
    <3> QED
      BY <3>1, <3>2, <3>3 DEF Split
  <2>2. ~ probed => \E P \in SUBSET Tickets : Split(P)'
    BY <1>1, <2>1, <1>3 DEF Reads, vars, InPending, Split
  <2> QED
    BY <1>3, <2>2 DEF Reads, SumCovers, ReadCoversUnlessProbed
<1>4. CASE Reads("accepted", Cardinality(Fresh), "nothing")
  <2>1. ASSUME ~ probed
        PROVE  Cardinality(watched') <= sum'
    <3>1. PICK P \in SUBSET Tickets : Split(P)
      BY <1>4, <2>1 DEF Reads, SumCovers
    <3> QED
      BY <1>1, <1>4, <3>1, LastReadCovers DEF Reads
  <2> QED
    BY <1>4, <2>1 DEF Reads, SumCovers, ReadCoversUnlessProbed
<1>5. CASE Meanwhile
  <2>1. UNCHANGED << reading, sum, watched >> /\ (probed => probed')
    BY <1>5 DEF Meanwhile
  <2>2. ~ probed' => reported' = reported
    BY <1>5 DEF Meanwhile
  <2>3. ASSUME ~ probed', reading = "accepted"
        PROVE  \E P \in SUBSET Tickets : Split(P)'
    <3>1. PICK P \in SUBSET Tickets : Split(P)
      BY <2>1, <2>3 DEF SumCovers
    <3>2. (watched \cap Live)' \subseteq reported' \cup P \cup Fresh'
      BY <1>5, <2>3, <3>1, CoverStays DEF Split
    <3>3. Split(P)'
      BY <2>1, <2>2, <2>3, <3>1, <3>2 DEF Split
    <3> QED
      BY <3>3
  <2>4. reading = "nothing" /\ ~ probed' => Cardinality(watched) <= sum
    BY <2>1 DEF SumCovers, ReadCoversUnlessProbed
  <2> QED
    BY <2>1, <2>2, <2>3, <2>4 DEF SumCovers, ReadCoversUnlessProbed
<1>6. CASE UNCHANGED readVars
  BY <1>6 DEF readVars, vars, reader, SumCovers, ReadCoversUnlessProbed, Split, Live, Running,
              InPending, InAccepted, Fresh
<1> QED
  BY <1>2, <1>3, <1>4, <1>5, <1>6 DEF ReadNext, inFlightReads

\* A reading during which no probe is stored counts every session watched.
THEOREM ReadingAlwaysCovers == ReadSpec => []ReadCoversUnlessProbed
<1>1. ReadInit => WatchedBegan /\ SumCovers
  BY DEF ReadInit, WatchedBegan, SumCovers, ReadCoversUnlessProbed
<1>2. TypeOK /\ ReadTypeOK /\ WatchedBegan /\ [ReadNext]_readVars => WatchedBegan'
  BY WatchedStep
<1>3. IInv /\ LedgerExact' /\ ReadTypeOK /\ WatchedBegan /\ SumCovers /\ [ReadNext]_readVars
        => SumCovers'
  BY SumStep
<1>4. IInv => TypeOK /\ LedgerExact
  BY DEF IInv
<1>5. SumCovers => ReadCoversUnlessProbed
  BY DEF SumCovers
<1> QED
  BY <1>1, <1>2, <1>3, <1>4, <1>5, ReadRunsTheAccount, InductiveInvariant, ReadTypeCorrect, PTL
     DEF ReadSpec

=============================================================================
