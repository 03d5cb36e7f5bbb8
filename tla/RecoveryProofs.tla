--------------------------- MODULE RecoveryProofs ---------------------------
(***************************************************************************)
(* Proofs about a transcode's way through the pool, for any fleet, any     *)
(* maxRecoveries and any number of probes, refusals and pool changes:      *)
(* one task's dispatch and recovery (module Recovery), then what PMS is    *)
(* told of the transcode (module Session).                                 *)
(***************************************************************************)
EXTENDS Session, FiniteSetTheorems, TLAPS

USE DEF task, response, fleet, history, context, blame

-----------------------------------------------------------------------------
(***************************************************************************)
(* Type correctness.                                                       *)
(***************************************************************************)
LEMMA TypeInit == Init => TypeOK
<1> SUFFICES ASSUME Init PROVE TypeOK
  OBVIOUS
<1>1. probing \in [Workers -> {"none", "older", "newer"}]
  BY DEF Init
<1>2. wk \in Workers \cup {Nobody} /\ ((phase \in {"posting", "streaming"}) <=> (wk # Nobody))
  BY DEF Init
<1>3. moves \in 0..maxRecoveries
  BY MovesAssumption DEF Init
<1> QED
  BY <1>1, <1>2, <1>3 DEF Init, TypeOK, Phases, Results

\* The counters count.
LEMMA NextNat == \A n \in Nat : n + 1 \in Nat
  OBVIOUS

LEMMA NonZero == \A m \in 0..maxRecoveries : m + 1 # 0
  BY MovesAssumption

LEMMA NextMove == \A m \in 0..maxRecoveries : m # maxRecoveries => m + 1 \in 0..maxRecoveries
  BY MovesAssumption

\* The type invariant in parts, each about variables that change together.
TypedTask ==
  /\ phase \in Phases
  /\ order \in SUBSET Workers
  /\ wk \in Workers \cup {Nobody}
  /\ (phase \in {"posting", "streaming"}) <=> (wk # Nobody)
  /\ code \in {"ok", "error"}
  /\ moves \in 0..maxRecoveries
  /\ broken \in SUBSET Workers
  /\ refused \in SUBSET Workers
  /\ late \in BOOLEAN

TypedResponse ==
  /\ headersWritten \in BOOLEAN
  /\ lastByte \in {"none", "newline", "other"}
  /\ result \in Results
  /\ writer \in Workers \cup {Nobody}
  /\ broke \in SUBSET Workers
  /\ accepts \in Nat

TypedContext ==
  /\ gone \in BOOLEAN
  /\ fault \in {"none", "worker", "client"}
  /\ charged \in BOOLEAN
  /\ wronged \in SUBSET Workers
  /\ parting \in SUBSET Workers

TypedFleet ==
  /\ healthy \in SUBSET Workers
  /\ newer \in SUBSET Workers
  /\ probing \in [Workers -> {"none", "older", "newer"}]
  /\ orphan \in SUBSET Workers
  /\ events \in Nat

LEMMA TypeParts == TypeOK <=> TypedTask /\ TypedResponse /\ TypedContext /\ TypedFleet
  BY Zenon DEF TypeOK, TypedTask, TypedResponse, TypedContext, TypedFleet

LEMMA TypePartsNext == TypeOK' <=> TypedTask' /\ TypedResponse' /\ TypedContext' /\ TypedFleet'
  BY Zenon DEF TypeOK, TypedTask, TypedResponse, TypedContext, TypedFleet

LEMMA TaskKept == TypedTask /\ UNCHANGED task => TypedTask'
  BY Zenon DEF TypedTask

LEMMA ResponseKept == TypedResponse /\ UNCHANGED << response, history >> => TypedResponse'
  BY Zenon DEF TypedResponse

LEMMA ContextKept == TypedContext /\ UNCHANGED context => TypedContext'
  BY Zenon DEF TypedContext

LEMMA FleetKept == TypedFleet /\ UNCHANGED fleet => TypedFleet'
  BY Zenon DEF TypedFleet

LEMMA TypeStutter == TypeOK /\ UNCHANGED vars => TypeOK'
  BY TypeParts, TypePartsNext, TaskKept, ResponseKept, ContextKept, FleetKept, Zenon DEF vars

LEMMA TypeProbing == \A w \in Workers : TypeOK /\ Probing(w) => TypeOK'
<1> SUFFICES ASSUME NEW w \in Workers, TypedTask, TypedResponse, TypedContext, TypedFleet, Probing(w)
             PROVE TypedTask' /\ TypedResponse' /\ TypedContext' /\ TypedFleet'
  BY TypeParts, TypePartsNext, Zenon
<1>1. /\ healthy' \in SUBSET Workers /\ newer' \in SUBSET Workers
      /\ orphan' \in SUBSET Workers
  BY DEF Probing, ProbeStarts, ProbeStores, ProbeFails, Replaced, TypedFleet
<1>2. probing' \in [Workers -> {"none", "older", "newer"}]
  BY DEF Probing, ProbeStarts, ProbeStores, ProbeFails, Replaced, TypedFleet
<1>3. events' \in Nat
  BY NextNat, Zenon DEF Probing, ProbeStarts, ProbeStores, ProbeFails, Replaced, TypedFleet
<1>4. UNCHANGED << task, response, history, context >>
  BY Zenon DEF Probing, ProbeStarts, ProbeStores, ProbeFails, Replaced
<1>5. TypedFleet'
  BY <1>1, <1>2, <1>3, Zenon DEF TypedFleet
<1> QED
  BY <1>4, <1>5, TaskKept, ResponseKept, ContextKept, Zenon

LEMMA TypeWaiting == TypeOK /\ (pickFindsNone \/ rediscover) => TypeOK'
<1> SUFFICES ASSUME TypedTask, TypedResponse, TypedContext, TypedFleet, pickFindsNone \/ rediscover
             PROVE TypedTask' /\ TypedResponse' /\ TypedContext' /\ TypedFleet'
  BY TypeParts, TypePartsNext, Zenon
<1>1. phase' \in {"picking", "waiting"} /\ phase \in {"picking", "waiting"}
  BY Zenon DEF pickFindsNone, rediscover
<1>2. UNCHANGED << order, wk, code, moves, broken, refused, late >>
  BY Zenon DEF pickFindsNone, rediscover
<1>3. UNCHANGED << response, fleet, history, context >>
  BY Zenon DEF pickFindsNone, rediscover
<1>4. wk = Nobody
  BY <1>1 DEF TypedTask
<1>5. phase' \in Phases /\ phase' \notin {"posting", "streaming"}
  BY <1>1 DEF Phases
<1>6. TypedTask'
  BY <1>2, <1>4, <1>5, Zenon DEF TypedTask
<1> QED
  BY <1>3, <1>6, ResponseKept, ContextKept, FleetKept, Zenon

\* A candidate, or the order of candidates, is taken from the pool.
LEMMA TypeChoosing ==
  TypeOK /\ (schedule \/ \E w \in Workers : tryNext(w) \/ pick(w)) => TypeOK'
<1> SUFFICES ASSUME TypedTask, TypedResponse, TypedContext, TypedFleet,
                    schedule \/ \E w \in Workers : tryNext(w) \/ pick(w)
             PROVE TypedTask' /\ TypedResponse' /\ TypedContext' /\ TypedFleet'
  BY TypeParts, TypePartsNext, Zenon
<1>1. UNCHANGED << code, moves, broken, refused, late, response, history, context >>
  BY Zenon DEF schedule, tryNext, pick
<1>2. UNCHANGED << healthy, newer, probing, events >> /\ orphan' \in {orphan, {}}
  BY DEF schedule, tryNext, pick
<1>3. order' \in SUBSET Workers
  BY DEF schedule, tryNext, pick, TypedTask, TypedFleet
<1>4. \/ phase' = "posting" /\ wk' \in Workers
      \/ phase = "new" /\ phase' = "dispatching" /\ wk' = wk
  BY DEF schedule, tryNext, pick
<1>5. /\ phase' \in Phases /\ wk' \in Workers \cup {Nobody}
      /\ (phase' \in {"posting", "streaming"}) <=> (wk' # Nobody)
  BY <1>4, NobodyAssumption DEF TypedTask, Phases
<1>6. TypedTask'
  BY <1>1, <1>3, <1>5, Zenon DEF TypedTask
<1>7. TypedFleet'
  BY <1>2 DEF TypedFleet
<1> QED
  BY <1>1, <1>6, <1>7, ResponseKept, ContextKept, Zenon

LEMMA TypeTime == TypeOK /\ (DeadlinePasses \/ PMSLeaves) => TypeOK'
<1> SUFFICES ASSUME TypedTask, TypedResponse, TypedContext, TypedFleet, DeadlinePasses \/ PMSLeaves
             PROVE TypedTask' /\ TypedResponse' /\ TypedContext' /\ TypedFleet'
  BY TypeParts, TypePartsNext, Zenon
<1>1. /\ late' = late \/ late' \in BOOLEAN
      /\ gone' = gone \/ gone' \in BOOLEAN
  BY Zenon DEF DeadlinePasses, PMSLeaves
<1>2. /\ UNCHANGED << phase, order, wk, code, moves, broken, refused, response, fleet, history >>
      /\ UNCHANGED << fault, charged, blame >>
  BY Zenon DEF DeadlinePasses, PMSLeaves
<1>3. TypedTask'
  BY <1>1, <1>2, Zenon DEF TypedTask
<1>4. TypedContext'
  BY <1>1, <1>2, Zenon DEF TypedContext
<1> QED
  BY <1>2, <1>3, <1>4, ResponseKept, FleetKept, Zenon

LEMMA TypeFault == TypeOK /\ (Fails \/ Charges) => TypeOK'
<1> SUFFICES ASSUME TypedTask, TypedResponse, TypedContext, TypedFleet, Fails \/ Charges
             PROVE TypedTask' /\ TypedResponse' /\ TypedContext' /\ TypedFleet'
  BY TypeParts, TypePartsNext, Zenon
<1>1. UNCHANGED << task, response, fleet, history, gone, blame >>
  BY Zenon DEF Fails, UpstreamFails, UpstreamCancelled, Charges
<1>2. fault' \in {"none", "worker", "client"} /\ charged' \in BOOLEAN
  BY DEF Fails, UpstreamFails, UpstreamCancelled, Charges, TypedContext
<1>3. TypedContext'
  BY <1>1, <1>2, Zenon DEF TypedContext
<1> QED
  BY <1>1, <1>3, TaskKept, ResponseKept, FleetKept, Zenon

\* What a call's end leaves of the error it may have ended with.
LEMMA MarkedTyped ==
  ASSUME TypedContext, NEW w \in Workers, markDown(w), ErrorHandled
  PROVE  TypedContext'
  BY DEF TypedContext, markDown, ErrorHandled

LEMMA TypeStep == TypeOK /\ [Next]_vars => TypeOK'
<1> SUFFICES ASSUME TypeOK, [Next]_vars PROVE TypeOK'
  OBVIOUS
<1> USE NobodyAssumption, MovesAssumption DEF TypeOK, Phases, Results
<1>1. CASE schedule
  BY <1>1, TypeChoosing, Zenon
<1>2. ASSUME NEW w \in Workers, tryNext(w) \/ pick(w) PROVE TypeOK'
  BY <1>2, TypeChoosing, Zenon
<1>3. CASE allAtCapacity
  BY <1>3 DEF allAtCapacity, Return
<1>4. CASE Answers503
  <2>1. newer' \in SUBSET Workers /\ probing' \in [Workers -> {"none", "older", "newer"}]
    BY <1>4 DEF Answers503, ProbesNowOlder
  <2>2. refused' \in SUBSET Workers
    BY <1>4 DEF Answers503, Refused
  <2>3. TypedContext' /\ TypedTask'
    BY <1>4, <2>2, TypeParts, ContextKept DEF Answers503, Refused, TypedTask
  <2> QED
    BY <1>4, <2>1, <2>3 DEF Answers503, Refused, TypedTask, TypedContext
<1>5. CASE Unreachable
  <2>1. newer' \in SUBSET Workers /\ probing' \in [Workers -> {"none", "older", "newer"}]
    BY <1>5 DEF Unreachable, ProbesNowOlder
  <2>2. refused' \in SUBSET Workers /\ healthy' \in SUBSET Workers
    BY <1>5 DEF Unreachable, Refused, markDown
  <2>3. TypedContext'
    BY <1>5, MarkedTyped, TypeParts DEF Unreachable
  <2> QED
    BY <1>5, <2>1, <2>2, <2>3 DEF Unreachable, Refused, TypedContext
<1>6. CASE ClientGone \/ WriteFails \/ EOF
  <2>1. CASE ClientGone
    BY <2>1 DEF ClientGone, Return
  <2>2. CASE WriteFails
    BY <2>2 DEF WriteFails, Return
  <2>3. CASE EOF
    BY <2>3 DEF EOF, Return
  <2> QED
    BY <1>6, <2>1, <2>2, <2>3
<1>7. CASE Accepted
  <2>1. lastByte' \in {"none", "newline", "other"} /\ wk # Nobody
    BY <1>7 DEF Accepted, LineEnded
  <2>2. phase' = "streaming" /\ headersWritten' \in BOOLEAN
    BY <1>7, Zenon DEF Accepted
  <2>4. accepts' \in Nat
    BY <1>7, NextNat, Zenon DEF Accepted
  <2>3. /\ UNCHANGED << wk, moves, broken, refused, late, writer, result, fleet, broke, context >>
        /\ code' \in {"ok", "error"} /\ order' = {}
    BY <1>7 DEF Accepted
  <2> QED
    BY <2>1, <2>2, <2>3, <2>4
<1>8. CASE Write
  <2>1. lastByte' \in {"none", "newline", "other"} /\ writer' \in Workers \cup {Nobody}
    BY <1>8 DEF Write
  <2>2. UNCHANGED << headersWritten, result, task, fleet, history, context >>
    BY <1>8 DEF Write
  <2>3. TypedTask' /\ TypedContext' /\ TypedFleet'
    BY <2>2, TypeParts, TaskKept, ContextKept, FleetKept, Zenon
  <2>4. TypedResponse'
    BY <2>1, <2>2 DEF TypedResponse
  <2> QED
    BY <2>3, <2>4, TypePartsNext, Zenon
<1>9. CASE Breaks
  <2>1. healthy' \in SUBSET Workers /\ broken' \in SUBSET Workers /\ broke' \in SUBSET Workers
    BY <1>9 DEF Breaks, markDown, BrokenNow
  <2>4. TypedContext'
    BY <1>9, MarkedTyped, TypeParts DEF Breaks
  <2>2. CASE MovesSpent
    BY <1>9, <2>1, <2>2, <2>4 DEF Breaks, TypedContext
  <2>3. CASE ~MovesSpent
    <3>1. moves' \in 0..maxRecoveries
      BY <1>9, <2>3, NextMove, Zenon DEF Breaks, MovesSpent
    <3>2. late' \in BOOLEAN
      BY <1>9, <2>3, Zenon DEF Breaks
    <3> QED
      BY <1>9, <2>1, <2>3, <2>4, <3>1, <3>2 DEF Breaks, TypedContext
  <2> QED
    BY <2>2, <2>3
<1>11. CASE pickFindsNone \/ rediscover
  <2>1. CASE pickFindsNone
    BY <2>1, TypeWaiting, Zenon
  <2>2. CASE rediscover
    BY <2>2, TypeWaiting, Zenon
  <2> QED
    BY <1>11, <2>1, <2>2
<1>12. CASE GiveUp \/ ClientGoneInRecovery
  BY <1>12 DEF GiveUp, ClientGoneInRecovery, Return
<1>13. CASE DeadlinePasses \/ PMSLeaves
  <2>1. CASE DeadlinePasses
    BY <2>1, TypeTime, Zenon
  <2>2. CASE PMSLeaves
    BY <2>2, TypeTime, Zenon
  <2> QED
    BY <1>13, <2>1, <2>2
<1>14. ASSUME NEW w \in Workers, Probing(w) PROVE TypeOK'
  BY <1>14, TypeProbing, Zenon
<1>15. CASE UNCHANGED vars
  BY <1>15, TypeStutter, Zenon
<1>16. CASE Fails \/ Charges
  BY <1>16, TypeFault, Zenon
<1> QED
  BY <1>1, <1>2, <1>3, <1>4, <1>5, <1>6, <1>7, <1>8, <1>9, <1>11,
     <1>12, <1>13, <1>14, <1>15, <1>16 DEF Next, Dispatch, Attempt, Stream, HandlesError, Wait

\* Every variable keeps its type; an attempt is being made exactly while the
\* handler holds a worker.
THEOREM TypeCorrect == Spec => []TypeOK
  BY TypeInit, TypeStep, PTL DEF Spec

-----------------------------------------------------------------------------
(***************************************************************************)
(* The handler's control: when the headers are out, and whose line is open.*)
(***************************************************************************)
Control ==
  /\ phase \in {"new", "dispatching"} => moves = 0
  /\ phase \in {"picking", "waiting"} => moves # 0
  /\ moves = 0 /\ phase \in {"new", "dispatching", "posting"} => ~headersWritten
  /\ phase = "streaming" => headersWritten
  /\ ~headersWritten => lastByte = "none"
  /\ phase # "ended" => result = "none"

OpenMeansLine ==
  /\ lastByte = "other" => writer \in Workers
  /\ phase = "streaming" /\ lastByte = "other" => writer = wk

LEMMA ControlInit == Init => Control /\ OpenMeansLine
  BY DEF Init, Control, OpenMeansLine

LEMMA ControlStep == TypeOK /\ Control /\ [Next]_vars => Control'
<1> SUFFICES ASSUME TypeOK, Control, [Next]_vars PROVE Control'
  OBVIOUS
<1>0. moves \in 0..maxRecoveries
  BY DEF TypeOK
<1> USE DEF Control
<1>1. CASE schedule
  BY <1>1 DEF schedule
<1>2. ASSUME NEW w \in Workers, tryNext(w) PROVE Control'
  BY <1>2 DEF tryNext
<1>3. CASE allAtCapacity \/ ClientGone \/ WriteFails \/ EOF \/ GiveUp \/ ClientGoneInRecovery
  BY <1>3 DEF allAtCapacity, ClientGone, WriteFails, EOF, GiveUp, ClientGoneInRecovery, Return
<1>4. CASE Answers503 \/ Unreachable
  <2>1. Recovering <=> moves # 0
    BY <1>0, MovesAssumption DEF Recovering
  <2> QED
    <3>1. phase = "posting" /\ Refused
      BY <1>4 DEF Answers503, Unreachable
    <3>2. CASE Recovering
      BY <2>1, <3>1, <3>2 DEF Refused
    <3>3. CASE ~Recovering
      BY <2>1, <3>1, <3>3 DEF Refused
    <3> QED
      BY <3>2, <3>3
<1>5. CASE Accepted
  BY <1>5 DEF Accepted, LineEnded
<1>6. CASE Write
  BY <1>6 DEF Write
<1>7. CASE Breaks
  <2>2. CASE MovesSpent
    BY <1>7, <2>2 DEF Breaks
  <2>3. CASE ~MovesSpent
    <3>1. phase' = "picking" /\ UNCHANGED << headersWritten, lastByte, result >>
      BY <1>7, <2>3, Zenon DEF Breaks
    <3>2. moves' # 0
      BY <1>0, <1>7, <2>3, NonZero, Zenon DEF Breaks
    <3> QED
      BY <1>7, <3>1, <3>2 DEF Breaks
  <2> QED
    BY <2>2, <2>3
<1>8. ASSUME NEW w \in Workers, pick(w) PROVE Control'
  BY <1>8 DEF pick
<1>9. CASE pickFindsNone \/ rediscover
  BY <1>9 DEF pickFindsNone, rediscover
<1>10. CASE DeadlinePasses \/ PMSLeaves
  BY <1>10 DEF DeadlinePasses, PMSLeaves
<1>11. ASSUME NEW w \in Workers, Probing(w) PROVE Control'
  BY <1>11 DEF Probing, ProbeStarts, ProbeStores, ProbeFails, Replaced
<1>12. CASE UNCHANGED vars
  BY <1>12 DEF vars
<1>13. CASE Fails \/ Charges
  BY <1>13 DEF Fails, UpstreamFails, UpstreamCancelled, Charges
<1> QED
  BY <1>1, <1>2, <1>3, <1>4, <1>5, <1>6, <1>7, <1>8, <1>9, <1>10, <1>11, <1>12, <1>13
  DEF Next, Dispatch, Attempt, Stream, HandlesError, Wait

\* A worker's line is left open only by the attempt that is streaming: the one
\* that takes over has ended it first.
LEMMA OpenLineStep == TypeOK /\ Control /\ OpenMeansLine /\ [Next]_vars => OpenMeansLine'
<1> SUFFICES ASSUME TypeOK, Control, OpenMeansLine, [Next]_vars PROVE OpenMeansLine'
  OBVIOUS
<1>0. phase \in {"posting", "streaming"} => wk \in Workers
  BY DEF TypeOK
<1> USE DEF OpenMeansLine
<1>1. CASE phase' # "streaming" /\ UNCHANGED << lastByte, writer >>
  BY <1>1
<1>2. CASE Accepted
  <2>1. phase = "posting" => lastByte' # "other"
    BY <1>2 DEF Accepted, LineEnded, Control
  <2> QED
    BY <1>2, <2>1 DEF Accepted
<1>3. CASE Write
  BY <1>0, <1>3 DEF Write
<1>4. CASE UNCHANGED << phase, lastByte, writer, wk >>
  BY <1>4
<1>5. CASE Dispatch
  BY <1>1, <1>5 DEF Dispatch, schedule, tryNext, allAtCapacity, Return
<1>6. CASE Answers503 \/ Unreachable
  BY <1>1, <1>6 DEF Answers503, Unreachable, Refused
<1>7. CASE ClientGone \/ WriteFails \/ EOF
  BY <1>1, <1>7 DEF ClientGone, WriteFails, EOF, Return
<1>8. CASE Breaks
  BY <1>1, <1>8 DEF Breaks
<1>9. CASE Wait
  BY <1>1, <1>9 DEF Wait, pick, pickFindsNone, rediscover, GiveUp, ClientGoneInRecovery, Return
<1>10. CASE DeadlinePasses \/ PMSLeaves
  BY <1>4, <1>10 DEF DeadlinePasses, PMSLeaves
<1>11. ASSUME NEW w \in Workers, Probing(w) PROVE OpenMeansLine'
  BY <1>4, <1>11 DEF Probing, ProbeStarts, ProbeStores, ProbeFails, Replaced
<1>12. CASE UNCHANGED vars
  BY <1>4, <1>12 DEF vars
<1>13. CASE Fails \/ Charges
  BY <1>4, <1>13 DEF Fails, UpstreamFails, UpstreamCancelled, Charges
<1> QED
  BY <1>2, <1>3, <1>5, <1>6, <1>7, <1>8, <1>9, <1>10, <1>11, <1>12, <1>13
  DEF Next, Attempt, Stream, HandlesError

-----------------------------------------------------------------------------
(***************************************************************************)
(* The count of moves: each but the current one has cost a worker.         *)
(***************************************************************************)
Count ==
  /\ IsFiniteSet(broke)
  /\ broken = broke
  /\ phase # "ended" => Cardinality(broke) = moves
  /\ phase \notin {"streaming", "ended"} => accepts = Cardinality(broke)
  /\ phase = "streaming" => accepts = Cardinality(broke) + 1
  /\ phase = "ended" => accepts \in {Cardinality(broke), Cardinality(broke) + 1}
  /\ accepts <= 1 + maxRecoveries
  /\ phase \in {"posting", "streaming"} => wk \notin broke

LEMMA CountInit == Init => Count
  BY FS_EmptySet, MovesAssumption DEF Init, Count

LEMMA CountStep == TypeOK /\ Control /\ Count /\ [Next]_vars => Count'
<1> SUFFICES ASSUME TypeOK, Control, Count, [Next]_vars PROVE Count'
  OBVIOUS
<1>0. /\ IsFiniteSet(broke) /\ Cardinality(broke) \in Nat
      /\ moves \in 0..maxRecoveries /\ maxRecoveries \in Nat
  BY FS_CardinalityType, MovesAssumption DEF TypeOK, Count
<1>1. CASE /\ phase \notin {"streaming", "ended"} /\ phase' # "streaming"
           /\ phase' = "posting" => wk' \notin broke
           /\ UNCHANGED << broke, broken, accepts, moves >>
  BY <1>0, <1>1 DEF Count
<1>2. CASE UNCHANGED << phase, wk, broke, broken, accepts, moves >>
  BY <1>2 DEF Count
<1>3. CASE phase = "streaming" /\ phase' = "ended" /\ UNCHANGED << broke, broken, accepts, moves >>
  BY <1>0, <1>3 DEF Count
<1>4. CASE schedule \/ allAtCapacity
  BY <1>1, <1>4 DEF schedule, allAtCapacity, Return
<1>5. ASSUME NEW w \in Workers, tryNext(w) PROVE Count'
  <2>1. phase = "dispatching" /\ moves = 0
    BY <1>5 DEF tryNext, Control
  <2>2. broke = {}
    BY <1>0, <2>1, FS_EmptySet DEF Count
  <2> QED
    BY <1>1, <1>5, <2>2 DEF tryNext
<1>6. CASE Answers503 \/ Unreachable
  BY <1>1, <1>6 DEF Answers503, Unreachable, Refused
<1>7. CASE Fails \/ Charges
  BY <1>2, <1>7 DEF Fails, UpstreamFails, UpstreamCancelled, Charges
<1>8. CASE Accepted
  <2>1. /\ phase = "posting" /\ phase' = "streaming" /\ accepts' = accepts + 1
        /\ UNCHANGED << wk, broke, broken, moves >>
    BY <1>8, Zenon DEF Accepted
  <2> QED
    BY <1>0, <2>1 DEF Count
<1>9. CASE Write
  BY <1>2, <1>9 DEF Write
<1>10. CASE ClientGone \/ WriteFails \/ EOF
  <2>1. phase' = "ended" /\ UNCHANGED << broke, broken, accepts, moves >>
    BY <1>10 DEF ClientGone, WriteFails, EOF, Return
  <2>2. phase # "ended"
    BY <1>10 DEF ClientGone, WriteFails, EOF
  <2> QED
    BY <1>1, <1>3, <2>1, <2>2
<1>11. CASE Breaks
  <2>1. /\ phase = "streaming" /\ phase' \in {"picking", "ended"}
        /\ broke' = broke \cup {wk} /\ broken' = broken \cup {wk} /\ UNCHANGED accepts
    BY <1>11 DEF Breaks, BrokenNow
  <2>2. phase' = "picking" => moves' = moves + 1
    BY <1>11 DEF Breaks
  <2>3. IsFiniteSet(broke') /\ Cardinality(broke') = Cardinality(broke) + 1
    BY <1>0, <2>1, FS_AddElement DEF Count
  <2> QED
    BY <1>0, <2>1, <2>2, <2>3 DEF Count
<1>12. ASSUME NEW w \in Workers, pick(w) PROVE Count'
  BY <1>1, <1>12 DEF pick, Eligible, Count
<1>13. CASE pickFindsNone \/ rediscover \/ GiveUp \/ ClientGoneInRecovery
  BY <1>1, <1>13 DEF pickFindsNone, rediscover, GiveUp, ClientGoneInRecovery, Return
<1>14. CASE DeadlinePasses \/ PMSLeaves
  BY <1>2, <1>14 DEF DeadlinePasses, PMSLeaves
<1>15. ASSUME NEW w \in Workers, Probing(w) PROVE Count'
  BY <1>2, <1>15 DEF Probing, ProbeStarts, ProbeStores, ProbeFails, Replaced
<1>16. CASE UNCHANGED vars
  BY <1>2, <1>16 DEF vars
<1> QED
  BY <1>4, <1>5, <1>6, <1>7, <1>8, <1>9, <1>10, <1>11, <1>12, <1>13, <1>14, <1>15, <1>16
  DEF Next, Dispatch, Attempt, Stream, HandlesError, Wait

-----------------------------------------------------------------------------
(***************************************************************************)
(* The blame: an error that is charged was the worker's, because one that  *)
(* PMS's leaving caused would have found the context done; and nothing is  *)
(* charged once it is done, so the markDown under way is the last.         *)
(***************************************************************************)
Blame ==
  /\ fault = "client" => gone
  /\ charged => fault = "worker"
  /\ wronged = {}
  /\ parting # {} => gone /\ ~charged
  /\ parting = {} \/ \E w \in Workers : parting = {w}

LEMMA BlameInit == Init => Blame
  BY DEF Init, Blame

\* A step that leaves no charge under way and marks nobody down.
LEMMA BlameSettled ==
  ASSUME Blame, UNCHANGED << gone, blame >>, fault' = "none", ~charged'
  PROVE  Blame'
  BY DEF Blame

LEMMA BlameKept == Blame /\ UNCHANGED context => Blame'
  BY DEF Blame

LEMMA Marking ==
  ASSUME Blame, NEW w \in Workers, charged, markDown(w), ErrorHandled
  PROVE  Blame'
<1>1. wronged' = {} /\ fault' = "none" /\ ~charged' /\ gone' = gone
  BY DEF Blame, markDown, ErrorHandled
<1>2. parting' = IF gone THEN {w} ELSE {}
  BY DEF Blame, markDown
<1> QED
  BY <1>1, <1>2 DEF Blame

LEMMA BlameStep == TypeOK /\ Blame /\ [Next]_vars => Blame'
<1> SUFFICES ASSUME TypeOK, Blame, [Next]_vars PROVE Blame'
  OBVIOUS
<1>0. phase \in {"posting", "streaming"} => wk \in Workers
  BY DEF TypeOK
<1>1. CASE schedule
  BY <1>1, BlameKept DEF schedule
<1>2. ASSUME NEW w \in Workers, tryNext(w) PROVE Blame'
  BY <1>2, BlameKept DEF tryNext
<1>3. CASE allAtCapacity \/ GiveUp \/ ClientGoneInRecovery
  BY <1>3, BlameSettled DEF allAtCapacity, GiveUp, ClientGoneInRecovery, Return
<1>4. CASE ClientGone \/ WriteFails \/ EOF
  BY <1>4, BlameSettled DEF ClientGone, WriteFails, EOF, Return
<1>5. CASE Answers503 \/ Accepted \/ Write
  BY <1>5, BlameKept DEF Answers503, Accepted, Write
<1>6. CASE UpstreamFails
  BY <1>6 DEF UpstreamFails, Blame
<1>7. CASE UpstreamCancelled
  BY <1>7 DEF UpstreamCancelled, Cancelled, Blame
<1>8. CASE Charges
  BY <1>8 DEF Charges, ContextLive, Blame, TypeOK
<1>9. CASE Unreachable
  BY <1>0, <1>9, Marking DEF Unreachable
<1>10. CASE Breaks
  BY <1>0, <1>10, Marking DEF Breaks
<1>11. ASSUME NEW w \in Workers, pick(w) PROVE Blame'
  BY <1>11, BlameKept DEF pick
<1>12. CASE pickFindsNone \/ rediscover \/ DeadlinePasses
  BY <1>12, BlameKept DEF pickFindsNone, rediscover, DeadlinePasses
<1>13. CASE PMSLeaves
  BY <1>13 DEF PMSLeaves, Blame
<1>14. ASSUME NEW w \in Workers, Probing(w) PROVE Blame'
  BY <1>14, BlameKept DEF Probing, ProbeStarts, ProbeStores, ProbeFails, Replaced
<1>15. CASE UNCHANGED vars
  BY <1>15, BlameKept DEF vars
<1> QED
  BY <1>1, <1>2, <1>3, <1>4, <1>5, <1>6, <1>7, <1>8, <1>9, <1>10, <1>11, <1>12, <1>13, <1>14,
     <1>15 DEF Next, Dispatch, Attempt, Stream, Fails, HandlesError, Wait

IInv == TypeOK /\ Control /\ OpenMeansLine /\ Count /\ Blame

LEMMA InductiveInvariant == Spec => []IInv
<1>1. Init => IInv
  BY TypeInit, ControlInit, CountInit, BlameInit DEF IInv
<1>2. IInv /\ [Next]_vars => IInv'
  BY TypeStep, ControlStep, OpenLineStep, CountStep, BlameStep DEF IInv
<1> QED
  BY <1>1, <1>2, PTL DEF Spec

-----------------------------------------------------------------------------
(***************************************************************************)
(* The results.                                                            *)
(***************************************************************************)

\* A worker whose stream broke is never used again for the session (the map
\* broken of recover, and schedule's snapshot taken before it).
THEOREM BrokenNeverServesAgain == Spec => []BrokenNeverReused
<1>1. IInv => BrokenNeverReused
  BY DEF IInv, Count, BrokenNeverReused
<1> QED
  BY <1>1, InductiveInvariant, PTL

\* A session is accepted by at most 1 + maxRecoveries workers, one more than
\* the streams that broke (the loop of recover).
THEOREM MovesAlwaysBounded == Spec => []MovesBounded
<1>1. IInv => MovesBounded
  <2> SUFFICES ASSUME IInv PROVE MovesBounded
    OBVIOUS
  <2>1. Cardinality(broke) \in Nat
    BY FS_CardinalityType DEF IInv, Count
  <2>2. accepts <= 1 + maxRecoveries
    BY DEF IInv, Count
  <2>3. accepts \in {Cardinality(broke), Cardinality(broke) + 1}
    BY DEF IInv, Count
  <2> QED
    BY <2>1, <2>2, <2>3 DEF MovesBounded
<1> QED
  BY <1>1, InductiveInvariant, PTL

\* For any fleet, and wherever PMS's leaving falls between an error, the test of
\* the context and markDown (streamFrom, for Do and for Read), no worker is marked
\* down for a cancelled call, and at most one after PMS has left.
THEOREM ClientNeverBlamed == Spec => []ClientNotBlamed
<1>1. IInv => ClientNotBlamed
  <2> SUFFICES ASSUME IInv PROVE ClientNotBlamed
    OBVIOUS
  <2>1. wronged = {} /\ (parting = {} \/ \E w \in Workers : parting = {w})
    BY DEF IInv, Blame
  <2>2. Cardinality({}) = 0 /\ \A w \in Workers : Cardinality({w}) = 1
    BY FS_EmptySet, FS_Singleton
  <2>3. Cardinality(parting) = 0 \/ Cardinality(parting) = 1
    BY <2>1, <2>2
  <2> QED
    BY <2>1, <2>3 DEF ClientNotBlamed
<1> QED
  BY <1>1, InductiveInvariant, PTL

(***************************************************************************)
(* The task implements TaskStream.                                         *)
(***************************************************************************)
LEMMA StreamStep == IInv /\ IInv' /\ [Next]_vars => [PMS!StreamNext]_(PMS!streamVars)
<1> SUFFICES ASSUME IInv, IInv', [Next]_vars
             PROVE  PMS!StreamNext \/ UNCHANGED PMS!streamVars
  OBVIOUS
<1> USE DEF IInv
<1>1. CASE UNCHANGED << headersWritten, lastByte, writer, result >> /\ (phase' = "ended" <=> phase = "ended")
  BY <1>1 DEF PMS!streamVars
<1>2. CASE /\ phase # "ended" /\ phase' = "ended" /\ result' # "unavailable"
           /\ UNCHANGED << headersWritten, lastByte, writer >>
  <2>1. PMS!Close
    BY <1>2 DEF PMS!Close, Control
  <2> QED
    BY <2>1 DEF PMS!StreamNext
<1>3. CASE schedule
  BY <1>1, <1>3 DEF schedule
<1>4. ASSUME NEW w \in Workers, tryNext(w) PROVE PMS!StreamNext \/ UNCHANGED PMS!streamVars
  BY <1>1, <1>4 DEF tryNext
<1>5. CASE allAtCapacity
  <2>1. phase = "dispatching" /\ ~headersWritten /\ lastByte = "none" /\ result = "none"
    BY <1>5 DEF allAtCapacity, Control
  <2>2. PMS!Unavailable
    BY <1>5, <2>1 DEF allAtCapacity, Return, PMS!Unavailable
  <2> QED
    BY <2>2 DEF PMS!StreamNext
<1>6. CASE Answers503 \/ Unreachable
  BY <1>1, <1>6 DEF Answers503, Unreachable, Refused
<1>7. CASE ClientGone \/ WriteFails \/ EOF \/ GiveUp \/ ClientGoneInRecovery
  <2>1. phase # "ended"
    BY <1>7 DEF ClientGone, WriteFails, EOF, GiveUp, ClientGoneInRecovery
  <2> QED
    BY <1>2, <1>7, <2>1 DEF ClientGone, WriteFails, EOF, GiveUp, ClientGoneInRecovery, Return
<1>8. CASE Accepted
  <2>1. /\ phase = "posting" /\ phase' = "streaming" /\ headersWritten' /\ result = "none"
        /\ lastByte' = LineEnded /\ UNCHANGED << writer, result >>
    BY <1>8 DEF Accepted, Control
  <2>2. CASE ~headersWritten
    <3>1. lastByte = "none" /\ lastByte' = "none"
      BY <2>1, <2>2 DEF Control, LineEnded
    <3>2. PMS!Answer
      BY <2>1, <2>2, <3>1 DEF PMS!Answer
    <3> QED
      BY <3>2 DEF PMS!StreamNext
  <2>3. CASE headersWritten /\ lastByte = "other"
    <3>1. lastByte' = "newline" /\ writer # Nobody
      BY <2>1, <2>3, NobodyAssumption DEF LineEnded, OpenMeansLine
    <3>2. PMS!Terminate
      BY <2>1, <2>3, <3>1 DEF PMS!Terminate
    <3> QED
      BY <3>2 DEF PMS!StreamNext
  <2>4. CASE headersWritten /\ lastByte # "other"
    BY <2>1, <2>4 DEF LineEnded, PMS!streamVars
  <2> QED
    BY <2>2, <2>3, <2>4
<1>9. CASE Write
  <2>1. /\ phase = "streaming" /\ writer' = wk /\ lastByte' \in {"newline", "other"}
        /\ UNCHANGED << headersWritten, result, phase >>
    BY <1>9 DEF Write
  <2>2. wk \in Workers /\ headersWritten /\ result = "none"
    BY <2>1 DEF TypeOK, Control
  <2>3. PMS!Output(wk)
    BY <2>1, <2>2 DEF PMS!Output, OpenMeansLine
  <2> QED
    BY <2>2, <2>3 DEF PMS!StreamNext
<1>10. CASE Breaks
  <2>1. CASE MovesSpent
    BY <1>2, <1>10, <2>1 DEF Breaks
  <2>2. CASE ~MovesSpent
    BY <1>1, <1>10, <2>2 DEF Breaks
  <2> QED
    BY <2>1, <2>2
<1>11. ASSUME NEW w \in Workers, pick(w) PROVE PMS!StreamNext \/ UNCHANGED PMS!streamVars
  BY <1>1, <1>11 DEF pick
<1>12. CASE pickFindsNone \/ rediscover
  BY <1>1, <1>12 DEF pickFindsNone, rediscover
<1>13. CASE DeadlinePasses \/ PMSLeaves
  BY <1>1, <1>13 DEF DeadlinePasses, PMSLeaves
<1>14. ASSUME NEW w \in Workers, Probing(w) PROVE PMS!StreamNext \/ UNCHANGED PMS!streamVars
  BY <1>1, <1>14 DEF Probing, ProbeStarts, ProbeStores, ProbeFails, Replaced
<1>15. CASE UNCHANGED vars
  BY <1>1, <1>15 DEF vars
<1>16. CASE Fails \/ Charges
  BY <1>1, <1>16 DEF Fails, UpstreamFails, UpstreamCancelled, Charges
<1> QED
  BY <1>3, <1>4, <1>5, <1>6, <1>7, <1>8, <1>9, <1>10, <1>11, <1>12, <1>13, <1>14, <1>15, <1>16
  DEF Next, Dispatch, Attempt, Stream, HandlesError, Wait

\* Whatever the fleet does, PMS receives one response: one status line, and a
\* body in which no line mixes the output of two workers.
THEOREM OneResponseOnly == Spec => OneResponse
<1>1. Init => PMS!StreamInit
  BY DEF Init, PMS!StreamInit
<1> QED
  BY <1>1, StreamStep, InductiveInvariant, PTL DEF Spec, OneResponse, PMS!StreamSpec

-----------------------------------------------------------------------------
(***************************************************************************)
(* What PMS is told of a transcode (module Session), for any fleet, any    *)
(* number of moves and any number of workers lost on the way.              *)
(***************************************************************************)
HIDE DEF task, response, fleet, history, context, blame

(***************************************************************************)
(* SuccessIsReal: the shim's exit status comes from an exit line, and that *)
(* from an ffmpeg that has ended.                                          *)
(***************************************************************************)
Real ==
  /\ completed \in BOOLEAN
  /\ ff = "success" => completed
  /\ routed = "success" => completed
  /\ exit = "success" => completed

LEMMA RealInit == SessionInit => Real
BY DEF SessionInit, Assumed, Real

LEMMA RealKept ==
  ASSUME Real, UNCHANGED << exit, routed, completed >>, ff' = ff \/ ff' # "success"
  PROVE  Real'
BY DEF Real

LEMMA RealStep == Real /\ [SessionNext]_sessionVars => Real'
<1> SUFFICES ASSUME Real, [SessionNext]_sessionVars PROVE Real'
  OBVIOUS
<1>1. CASE Prepares \/ TaskRefused \/ Output \/ ErrorBody \/ Hangup
  BY <1>1, RealKept DEF Prepares, TaskRefused, Output, ErrorBody, Hangup, Idle, client, agents, ghosts
<1>16. CASE TaskFails \/ TaskCharged
  BY <1>16, RealKept DEF TaskFails, TaskCharged, Idle, client, agents, ghosts
<1>2. CASE WorkerStarts
  BY <1>2, RealKept DEF WorkerStarts, client
<1>3. CASE TaskUnreachable
  BY <1>3, RealKept DEF TaskUnreachable, Leaves, Crashes, client, ghosts
<1>4. CASE TaskAccepted
  BY <1>4, RealKept DEF TaskAccepted, agents, ghosts
<1>5. CASE TaskBreaks \/ TaskCancelled \/ TaskWriteFails \/ TaskEnds
  BY <1>5, RealKept
     DEF TaskBreaks, TaskCancelled, TaskWriteFails, TaskEnds, Leaves, Crashes, client, ghosts
<1>6. CASE OrchestratorDies
  BY <1>6, RealKept DEF OrchestratorDies, Leaves, client, agents, ghosts
<1>7. ASSUME NEW how \in {"success", "failure"}, FfmpegEnds(how)
      PROVE  Real'
  <2>1. completed' \in BOOLEAN /\ (completed => completed') /\ (how = "success" => completed')
    BY <1>7, Zenon DEF FfmpegEnds, Real
  <2>2. ff' = how /\ routed' = routed /\ exit' = exit
    BY <1>7 DEF FfmpegEnds, client
  <2> QED
    BY <2>1, <2>2, Zenon DEF Real
<1>8. CASE Drained \/ Truncated
  BY <1>8, RealKept DEF Drained, Truncated, client, ghosts
<1>9. CASE ExitLine
  <2>1. routed' = routed \/ routed' = ff
    BY <1>9 DEF ExitLine, ExitRouted
  <2>2. ff' = "over" /\ exit' = exit /\ completed' = completed
    BY <1>9 DEF ExitLine, ghosts
  <2> QED
    BY <2>1, <2>2 DEF Real
<1>10. ASSUME NEW w \in Workers, StrayStops(w)
       PROVE  Real'
  BY <1>10, RealKept DEF StrayStops, client, ghosts
<1>11. CASE ShimExits
  <2>1. ExitStatus = "success" => routed = "success"
    BY DEF ExitStatus
  <2>2. exit' = ExitStatus /\ routed' = routed /\ ff' = ff /\ completed' = completed
    BY <1>11 DEF ShimExits, agents, ghosts
  <2> QED
    BY <2>1, <2>2 DEF Real
<1>12. CASE ShimDies \/ Cancels
  BY <1>12 DEF ShimDies, Cancels, agents, ghosts, Real
<1>13. CASE Signalled \/ KillLooksUp \/ KillLost \/ KillTimesOut
  BY <1>13, RealKept DEF Signalled, KillLooksUp, KillLost, KillTimesOut, client, agents, ghosts
<1>14. CASE KillArrives
  BY <1>14, RealKept DEF KillArrives, client
<1>15. CASE UNCHANGED sessionVars
  BY <1>15, RealKept DEF sessionVars, client, agents, ghosts
<1> QED
  BY <1>1, <1>2, <1>3, <1>4, <1>5, <1>6, <1>7, <1>8, <1>9, <1>10, <1>11, <1>12, <1>13, <1>14,
     <1>15, <1>16 DEF SessionNext

\* For any fleet and any number of moves, PMS is told that a transcode
\* succeeded only if an ffmpeg of the session did (shim main.go, routeLine and
\* the exit status it keeps).
THEOREM SuccessAlwaysReal == SessionSpec => []SuccessIsReal
<1>1. Real => SuccessIsReal
  BY DEF Real, SuccessIsReal
<1> QED
  BY <1>1, RealInit, RealStep, PTL DEF SessionSpec

-----------------------------------------------------------------------------
(***************************************************************************)
(* SuccessIsTold.  An ffmpeg exists while an attempt is under way; an open *)
(* line is the last writer's; a line that is open when the ffmpeg has      *)
(* succeeded and all its output is read is one that lost its end; so the   *)
(* exit line is routed unless it did, and what it said stays.              *)
(***************************************************************************)
Placed ==
  /\ phase \in {"posting", "streaming"} => wk # Nobody
  /\ ff # "none" => phase \in {"posting", "streaming"}
  /\ unread => ff \in {"success", "failure"}
  /\ ff \in {"success", "failure"} => last = ff
  /\ result # "none" => phase = "ended"

Lined ==
  /\ phase = "streaming" => headersWritten
  /\ lastByte = "other" => headersWritten
  /\ phase = "streaming" /\ lastByte = "other" => writer = wk

Read ==
  ff = "success" /\ ~ unread /\ ~ cut /\ phase = "streaming" => lastByte # "other"

Heard ==
  /\ ff = "over" /\ last = "success" /\ ~ cut => routed = "success"
  /\ result = "done" /\ code = "ok" /\ ~ cut /\ last = "success" => routed = "success"

Told ==
  /\ exit \in {"failure", "tempfail"} /\ signal = "none" => phase = "ended"
  /\ SuccessIsTold

ToldInv == Placed /\ Lined /\ Read /\ Heard /\ Told

LEMMA ToldInit == SessionInit => ToldInv
BY DEF SessionInit, Init, Assumed, ToldInv, Placed, Lined, Read, Heard, Told, SuccessIsTold

\* What dispatch and recovery do between two attempts.
LEMMA BetweenAttempts ==
  ASSUME Prepares
  PROVE  /\ UNCHANGED << headersWritten, lastByte, writer, code >>
         /\ \/ UNCHANGED << phase, wk, result >>
            \/ /\ phase \notin {"posting", "streaming", "ended"}
               /\ phase' # "streaming"
               /\ phase' = "posting" => wk' # Nobody
               /\ result' = result \/ (phase' = "ended" /\ result' # "done")
<1>1. CASE Dispatch
  BY <1>1, NobodyAssumption
     DEF Dispatch, schedule, tryNext, allAtCapacity, Return, response
<1>2. CASE Wait
  BY <1>2, NobodyAssumption
     DEF Wait, pick, pickFindsNone, rediscover, GiveUp, ClientGoneInRecovery, Return, response
<1>3. CASE DeadlinePasses
  BY <1>3 DEF DeadlinePasses, response
<1>4. ASSUME NEW w \in Workers, Probing(w)
      PROVE  UNCHANGED << headersWritten, lastByte, writer, code, phase, wk, result >>
  BY <1>4 DEF Probing, ProbeStarts, ProbeStores, ProbeFails, Replaced, task, response
<1> QED
  BY <1>1, <1>2, <1>3, <1>4 DEF Prepares

LEMMA PreparesStep ==
  ASSUME ToldInv, Prepares
  PROVE  ToldInv'
<1>1. UNCHANGED << exit, routed, status, signal, ff, unread, last, cut >>
  BY DEF Prepares, Idle, client, killing, agents, ghosts
<1>2. Placed' /\ Lined' /\ Read'
  BY <1>1, BetweenAttempts DEF ToldInv, Placed, Lined, Read
<1>3. Heard'
  BY <1>1, BetweenAttempts DEF ToldInv, Heard
<1>4. Told'
  BY <1>1, BetweenAttempts DEF ToldInv, Placed, Told, SuccessIsTold
<1> QED
  BY <1>2, <1>3, <1>4 DEF ToldInv

\* The end of an attempt, whatever ends it.
LEMMA AttemptEnds ==
  ASSUME ToldInv, phase # "ended", phase' \notin {"posting", "streaming"}, ff' = "none",
         ~ unread', UNCHANGED << headersWritten, lastByte, writer >>,
         UNCHANGED << exit, routed, status, signal, last, cut >>,
         \/ result' = result
         \/ /\ phase' = "ended"
            /\ result' = "done" /\ code' = "ok" => ff = "over"
  PROVE  ToldInv'
<1>1. Placed' /\ Lined' /\ Read'
  BY DEF ToldInv, Placed, Lined, Read
<1>2. Heard'
  BY DEF ToldInv, Placed, Heard
<1>3. Told'
  BY DEF ToldInv, Placed, Told, SuccessIsTold
<1> QED
  BY <1>1, <1>2, <1>3 DEF ToldInv

\* A step of the agent, of an ffmpeg or of a kill, which leaves the task alone.
LEMMA AgentStep ==
  ASSUME ToldInv, phase \in {"posting", "streaming"},
         UNCHANGED << phase, wk, result, code, headersWritten, lastByte, writer >>,
         UNCHANGED << exit, routed, status, signal >>,
         Placed', Read', ff' = "over" => UNCHANGED << ff, last, cut >>
  PROVE  ToldInv'
<1>1. Lined'
  BY DEF ToldInv, Lined
<1>2. Heard'
  BY DEF ToldInv, Placed, Heard
<1>3. Told'
  BY DEF ToldInv, Placed, Told, SuccessIsTold
<1> QED
  BY <1>1, <1>2, <1>3 DEF ToldInv
\* A line the agent writes; lines that follow one another are one worker's.
LEMMA WriteStep ==
  ASSUME ToldInv, Write, UNCHANGED << exit, status, signal, last, cut >>, Placed',
         ff' = "success" => lastByte' = "newline",
         ff' = "over" /\ last = "success" /\ ~ cut => routed' = "success"
  PROVE  ToldInv'
<1>1. /\ phase = "streaming" /\ writer' = wk
      /\ UNCHANGED << phase, wk, result, code, headersWritten >>
  BY DEF Write, task
<1>2. Lined' /\ Read'
  BY <1>1 DEF ToldInv, Lined, Read
<1>3. Heard'
  BY <1>1 DEF ToldInv, Placed, Heard
<1>4. Told'
  BY <1>1 DEF ToldInv, Placed, Told, SuccessIsTold
<1> QED
  BY <1>2, <1>3, <1>4 DEF ToldInv

\* A step of the shim, or of its kill.
LEMMA ShimStep ==
  ASSUME ToldInv,
         UNCHANGED << phase, wk, result, code, headersWritten, lastByte, writer >>,
         UNCHANGED << routed, status, ff, unread, last, cut >>,
         Told'
  PROVE  ToldInv'
BY DEF ToldInv, Placed, Lined, Read, Heard

-----------------------------------------------------------------------------
\* The orchestrator's side of an attempt.
LEMMA OrchestratorStep ==
  ASSUME ToldInv,
         \/ TaskRefused \/ TaskUnreachable \/ TaskAccepted \/ TaskFails \/ TaskCharged
         \/ TaskBreaks \/ TaskCancelled \/ TaskWriteFails \/ TaskEnds \/ OrchestratorDies
  PROVE  ToldInv'
<1>1. CASE TaskRefused
  <2>1. /\ phase = "posting" /\ phase' \in {"picking", "dispatching"}
        /\ UNCHANGED << headersWritten, lastByte, writer, result >>
    BY <1>1 DEF TaskRefused, Answers503, Refused, response
  <2>2. /\ ff = "none" /\ ff' = "none" /\ unread' = unread
        /\ UNCHANGED << exit, routed, status, signal, last, cut >>
    BY <1>1 DEF TaskRefused, Idle, client, killing, agents, ghosts
  <2>3. ~ unread'
    BY <2>2 DEF ToldInv, Placed
  <2> QED
    BY <2>1, <2>2, <2>3, AttemptEnds
<1>2. CASE TaskUnreachable
  <2>1. /\ phase = "posting" /\ phase' \in {"picking", "dispatching"}
        /\ UNCHANGED << headersWritten, lastByte, writer, result >>
    BY <1>2 DEF TaskUnreachable, Unreachable, Refused, response
  <2>2. /\ ff' = "none" /\ ~ unread'
        /\ UNCHANGED << exit, routed, status, signal, last, cut >>
    BY <1>2 DEF TaskUnreachable, Leaves, Crashes, client, killing, ghosts
  <2> QED
    BY <2>1, <2>2, AttemptEnds
<1>3. CASE TaskAccepted
  <2>1. /\ phase = "posting" /\ phase' = "streaming" /\ headersWritten'
        /\ UNCHANGED << wk, writer, result >>
        /\ UNCHANGED << exit, routed, signal, ff, unread, last, cut >>
    BY <1>3 DEF TaskAccepted, Accepted, killing, agents, ghosts
  <2>2. lastByte' # "other"
    BY <1>3 DEF TaskAccepted, Accepted, LineEnded, ToldInv, Lined
  <2>3. Placed' /\ Lined' /\ Read'
    BY <2>1, <2>2 DEF ToldInv, Placed, Lined, Read
  <2>4. Heard' /\ Told'
    BY <2>1 DEF ToldInv, Placed, Heard, Told, SuccessIsTold
  <2> QED
    BY <2>3, <2>4 DEF ToldInv
<1>4. CASE TaskBreaks
  <2>1. /\ phase = "streaming" /\ phase' \in {"picking", "ended"}
        /\ UNCHANGED << headersWritten, lastByte, writer >>
        /\ result' = result \/ (phase' = "ended" /\ result' = "exhausted")
    BY <1>4 DEF TaskBreaks, Breaks
  <2>2. /\ ff' = "none" /\ ~ unread'
        /\ UNCHANGED << exit, routed, status, signal, last, cut >>
    BY <1>4 DEF TaskBreaks, Leaves, Crashes, client, killing, ghosts
  <2> QED
    BY <2>1, <2>2, AttemptEnds
<1>5. CASE TaskCancelled \/ TaskWriteFails
  <2>1. /\ phase # "ended" /\ phase' = "ended" /\ result' = "client gone"
        /\ UNCHANGED << headersWritten, lastByte, writer >>
    BY <1>5 DEF TaskCancelled, TaskWriteFails, ClientGone, WriteFails, Return
  <2>2. /\ ff' = "none" /\ ~ unread'
        /\ UNCHANGED << exit, routed, status, signal, last, cut >>
    BY <1>5 DEF TaskCancelled, TaskWriteFails, Leaves, client, killing, ghosts
  <2> QED
    BY <2>1, <2>2, AttemptEnds
<1>6. CASE TaskEnds
  <2>1. /\ phase = "streaming" /\ phase' = "ended" /\ result' = "done" /\ code' = code
        /\ ff = "over" \/ code = "error"
        /\ UNCHANGED << headersWritten, lastByte, writer >>
    BY <1>6 DEF TaskEnds, EOF, Return
  <2>2. /\ ff' = "none" /\ ~ unread'
        /\ UNCHANGED << exit, routed, status, signal, last, cut >>
    BY <1>6 DEF TaskEnds, Leaves, client, killing, ghosts
  <2> QED
    BY <2>1, <2>2, AttemptEnds
<1>7. CASE OrchestratorDies
  <2>1. /\ phase # "ended" /\ phase' = "ended" /\ result' = "none"
        /\ UNCHANGED << headersWritten, lastByte, writer >>
        /\ UNCHANGED << exit, routed, status, signal, last, cut >>
    BY <1>7 DEF OrchestratorDies, Return, client, killing, ghosts
  <2>2. ff' = "none" /\ ~ unread'
    <3>1. CASE wk = Nobody
      <4>1. ff' = ff /\ unread' = unread
        BY <1>7, <3>1 DEF OrchestratorDies, agents
      <4> QED
        BY <3>1, <4>1 DEF ToldInv, Placed
    <3>2. CASE wk # Nobody
      BY <1>7, <3>2 DEF OrchestratorDies, Leaves
    <3> QED
      BY <3>1, <3>2
  <2> QED
    BY <2>1, <2>2, AttemptEnds
<1>8. CASE TaskFails \/ TaskCharged
  <2>1. UNCHANGED << phase, wk, result, code, headersWritten, lastByte, writer >>
    BY <1>8 DEF TaskFails, TaskCharged, Fails, UpstreamFails, UpstreamCancelled, Charges, task, response
  <2>2. UNCHANGED << exit, routed, status, signal, ff, unread, last, cut >>
    BY <1>8 DEF TaskFails, TaskCharged, Idle, client, killing, agents, ghosts
  <2>3. Told'
    BY <2>1, <2>2 DEF ToldInv, Told, SuccessIsTold
  <2> QED
    BY <2>1, <2>2, <2>3, ShimStep
<1> QED
  BY <1>1, <1>2, <1>3, <1>4, <1>5, <1>6, <1>7, <1>8

\* The agent's side of it.
LEMMA WorkerStep ==
  ASSUME ToldInv,
         \/ WorkerStarts \/ Output \/ ErrorBody \/ Drained \/ Truncated \/ ExitLine
         \/ \E how \in {"success", "failure"} : FfmpegEnds(how)
         \/ \E w \in Workers : StrayStops(w)
  PROVE  ToldInv'
<1>1. CASE WorkerStarts
  <2>1. /\ phase = "posting" /\ ff = "none" /\ ff' = "running" /\ unread' = unread
        /\ UNCHANGED << phase, wk, result, code, headersWritten, lastByte, writer >>
        /\ UNCHANGED << exit, routed, status, signal >>
    BY <1>1 DEF WorkerStarts, vars, task, response, client, killing
  <2>2. Placed' /\ Read'
    BY <2>1 DEF ToldInv, Placed, Read
  <2> QED
    BY <2>1, <2>2, AgentStep
<1>2. CASE Output \/ ErrorBody
  <2>1. /\ Write
        /\ UNCHANGED << exit, routed, status, signal, ff, unread, last, cut >>
    BY <1>2 DEF Output, ErrorBody, Idle, client, killing, agents, ghosts
  <2>2. Placed'
    BY <2>1 DEF Write, task, ToldInv, Placed
  <2>3. ff' = "success" => lastByte' = "newline"
    BY <1>2, <2>1 DEF Output, ErrorBody
  <2>4. ff' = "over" /\ last = "success" /\ ~ cut => routed' = "success"
    BY <2>1 DEF ToldInv, Heard
  <2> QED
    BY <2>1, <2>2, <2>3, <2>4, WriteStep
<1>3. CASE Drained
  <2>1. /\ Write /\ lastByte' = "newline" /\ unread /\ ~ unread'
        /\ UNCHANGED << exit, routed, status, signal, ff, last, cut >>
    BY <1>3 DEF Drained, client, killing, ghosts
  <2>2. Placed'
    BY <2>1 DEF Write, task, ToldInv, Placed
  <2>3. ff' = "over" /\ last = "success" /\ ~ cut => routed' = "success"
    BY <2>1 DEF ToldInv, Heard
  <2> QED
    BY <2>1, <2>2, <2>3, WriteStep
<1>4. CASE Truncated
  <2>1. /\ unread /\ ~ unread' /\ cut' = OpenLine
        /\ UNCHANGED << phase, wk, result, code, headersWritten, lastByte, writer >>
        /\ UNCHANGED << exit, routed, status, signal, ff, last >>
    BY <1>4 DEF Truncated, vars, task, response, client, killing
  <2>2. Placed'
    BY <2>1 DEF ToldInv, Placed
  <2>3. Read'
    BY <2>1 DEF ToldInv, Lined, Read, OpenLine
  <2>4. ff' # "over" /\ phase \in {"posting", "streaming"}
    BY <2>1 DEF ToldInv, Placed
  <2> QED
    BY <2>1, <2>2, <2>3, <2>4, AgentStep
<1>5. CASE ExitLine
  <2>1. /\ Write /\ lastByte' = "newline" /\ ff' = "over" /\ routed' \in ExitRouted
        /\ ff \in {"success", "failure"} /\ ~ unread /\ unread' = unread
        /\ UNCHANGED << exit, status, signal, last, cut >>
    BY <1>5 DEF ExitLine, killing, ghosts
  <2>2. Placed'
    BY <2>1 DEF Write, task, ToldInv, Placed
  <2>3. last = ff /\ phase = "streaming"
    BY <2>1 DEF Write, ToldInv, Placed
  <2>4. last = "success" /\ ~ cut => routed' = "success"
    BY <2>1, <2>3 DEF ToldInv, Read, ExitRouted
  <2> QED
    BY <2>1, <2>2, <2>4, WriteStep
<1>6. ASSUME NEW how \in {"success", "failure"}, FfmpegEnds(how)
      PROVE  ToldInv'
  <2>1. /\ ff = "running" /\ ff' = how /\ last' = how /\ cut' = cut
        /\ UNCHANGED << phase, wk, result, code, headersWritten, lastByte, writer >>
        /\ UNCHANGED << exit, routed, status, signal >>
    BY <1>6 DEF FfmpegEnds, vars, task, response, client, killing
  <2>2. ~ unread' /\ OpenLine => how = "failure"
    BY <1>6 DEF FfmpegEnds
  <2>3. Placed'
    BY <2>1 DEF ToldInv, Placed
  <2>4. Read'
    BY <2>1, <2>2 DEF ToldInv, Lined, Read, OpenLine
  <2>5. phase \in {"posting", "streaming"}
    BY <2>1 DEF ToldInv, Placed
  <2> QED
    BY <2>1, <2>3, <2>4, <2>5, AgentStep
<1>7. ASSUME NEW w \in Workers, StrayStops(w)
      PROVE  ToldInv'
  <2>1. /\ UNCHANGED << phase, wk, result, code, headersWritten, lastByte, writer >>
        /\ UNCHANGED << exit, routed, status, signal, ff, unread, last, cut >>
    BY <1>7 DEF StrayStops, vars, task, response, client, killing, ghosts
  <2>2. Told'
    BY <2>1 DEF ToldInv, Told, SuccessIsTold
  <2> QED
    BY <2>1, <2>2, ShimStep
<1> QED
  BY <1>1, <1>2, <1>3, <1>4, <1>5, <1>6, <1>7

\* The shim's and the kill's.
LEMMA ClientStep ==
  ASSUME ToldInv,
         \/ ShimExits \/ ShimDies \/ Signalled \/ KillLooksUp \/ KillArrives \/ KillLost
         \/ KillTimesOut \/ Cancels \/ Hangup
  PROVE  ToldInv'
<1> DEFINE Alone ==
      /\ UNCHANGED << phase, wk, result, code, headersWritten, lastByte, writer >>
      /\ UNCHANGED << routed, status, ff, unread, last, cut >>
<1>1. CASE ShimExits
  <2>1. Alone /\ signal' = signal /\ phase = "ended" /\ exit' = ExitStatus
    BY <1>1 DEF ShimExits, vars, task, response, killing, agents, ghosts
  <2>2. exit' \in {"failure", "tempfail"} /\ result = "done" /\ status = "ok" => routed = exit'
    BY <2>1 DEF ExitStatus
  <2>3. Told'
    BY <2>1, <2>2 DEF ToldInv, Heard, Told, SuccessIsTold
  <2> QED
    BY <2>1, <2>3, ShimStep
<1>2. CASE ShimDies
  <2>1. Alone /\ signal' = signal /\ exit' = "killed"
    BY <1>2 DEF ShimDies, vars, task, response, killing, agents, ghosts
  <2>2. Told'
    BY <2>1 DEF Told, SuccessIsTold
  <2> QED
    BY <2>1, <2>2, ShimStep
<1>3. CASE Cancels
  <2>1. Alone /\ signal' = signal /\ signal = "answered"
    BY <1>3 DEF Cancels, vars, task, response, killing, agents, ghosts
  <2>2. Told'
    BY <2>1 DEF Told, SuccessIsTold
  <2> QED
    BY <2>1, <2>2, ShimStep
<1>4. CASE Signalled \/ KillLooksUp \/ KillLost \/ KillTimesOut
  <2>1. Alone /\ exit' = exit /\ (signal' = signal \/ signal' # "none")
    BY <1>4 DEF Signalled, KillLooksUp, KillLost, KillTimesOut, Answered, vars, task, response,
                client, agents, ghosts
  <2>2. Told'
    BY <2>1 DEF ToldInv, Told, SuccessIsTold
  <2> QED
    BY <2>1, <2>2, ShimStep
<1>5. CASE KillArrives
  <2>1. /\ UNCHANGED << phase, wk, result, code, headersWritten, lastByte, writer >>
        /\ UNCHANGED << exit, routed, status, cut >>
        /\ signal' = signal \/ signal' # "none"
    BY <1>5 DEF KillArrives, Answered, vars, task, response, client
  <2>2. \/ UNCHANGED << ff, unread, last >>
        \/ ff = "running" /\ ff' = "failure" /\ last' = "failure"
    BY <1>5 DEF KillArrives
  <2>3. CASE UNCHANGED << ff, unread, last >>
    <3>1. Told'
      BY <2>1, <2>3 DEF ToldInv, Told, SuccessIsTold
    <3> QED
      BY <2>1, <2>3, <3>1, ShimStep
  <2>4. CASE ff = "running" /\ ff' = "failure" /\ last' = "failure"
    <3>1. Placed' /\ Lined' /\ Read'
      BY <2>1, <2>4 DEF ToldInv, Placed, Lined, Read
    <3>2. Heard' /\ Told'
      BY <2>1, <2>4 DEF ToldInv, Heard, Told, SuccessIsTold
    <3> QED
      BY <3>1, <3>2 DEF ToldInv
  <2> QED
    BY <2>2, <2>3, <2>4
<1>6. CASE Hangup
  <2>1. Alone /\ exit' = exit /\ signal' = signal
    BY <1>6 DEF Hangup, PMSLeaves, Idle, task, response, client, killing, agents, ghosts
  <2>2. Told'
    BY <2>1 DEF ToldInv, Told, SuccessIsTold
  <2> QED
    BY <2>1, <2>2, ShimStep
<1> QED
  BY <1>1, <1>2, <1>3, <1>4, <1>5, <1>6

LEMMA ToldInvariant == SessionSpec => []ToldInv
<1>1. ToldInv /\ UNCHANGED sessionVars => ToldInv'
  BY DEF sessionVars, vars, task, response, client, killing, agents, ghosts,
         ToldInv, Placed, Lined, Read, Heard, Told, SuccessIsTold
<1>2. ToldInv /\ [SessionNext]_sessionVars => ToldInv'
  BY <1>1, PreparesStep, OrchestratorStep, WorkerStep, ClientStep DEF SessionNext
<1> QED
  BY <1>2, ToldInit, PTL DEF SessionSpec

\* For any fleet and any number of streams that broke before, a transcode that
\* succeeded and whose stream ended cleanly is reported as one, but for the
\* exceptions SuccessIsTold names (the shim's routeLine, the agent's exit line,
\* the newline streamFrom ends an open line with).
THEOREM SuccessAlwaysTold == SessionSpec => []SuccessIsTold
<1>1. ToldInv => SuccessIsTold
  BY DEF ToldInv, Told
<1> QED
  BY <1>1, ToldInvariant, PTL
-----------------------------------------------------------------------------
(***************************************************************************)
(* Type correctness, above all that the tracker's entry is the worker that *)
(* streams, whatever moved, refused or cancelled the session.              *)
(***************************************************************************)
Tracked ==
  /\ wk \in Workers \cup {Nobody}
  /\ sessions = IF phase = "streaming" THEN wk ELSE Nobody

ClientTyped ==
  /\ shim \in {"waiting", "done"}
  /\ exit \in {"none", "success", "failure", "tempfail", "killed"}
  /\ routed \in {"success", "failure"}
  /\ status \in {"none", "ok", "error"}
  /\ signal \in {"none", "posted", "forwarded", "answered"}
  /\ kill \in Workers \cup {Nobody}

AgentsTyped ==
  /\ ff \in {"none", "running", "success", "failure", "over"}
  /\ entry \in [Workers -> {"none", "current", "stray"}]
  /\ stray \subseteq Workers
  /\ last \in {"none", "success", "failure"}
  /\ completed \in BOOLEAN
  /\ cut \in BOOLEAN

Typed == Tracked /\ ClientTyped /\ AgentsTyped

LEMMA TypedInit == SessionInit => Typed
BY DEF SessionInit, Init, Assumed, Typed, Tracked, ClientTyped, AgentsTyped

LEMMA LeavesTyped ==
  ASSUME Placed, Tracked, AgentsTyped, Leaves \/ Crashes, UNCHANGED << last, completed, cut >>
  PROVE  AgentsTyped'
<1>1. ff = "running" => wk \in Workers
  BY DEF Placed, Tracked
<1>2. stray' \subseteq Workers /\ ff' = "none"
  BY <1>1 DEF Leaves, Crashes, AgentsTyped
<1>3. entry' \in [Workers -> {"none", "current", "stray"}]
  BY DEF Leaves, Crashes, AgentsTyped
<1>4. last' \in {"none", "success", "failure"} /\ completed' \in BOOLEAN /\ cut' \in BOOLEAN
  BY Zenon DEF AgentsTyped
<1> QED
  BY <1>2, <1>3, <1>4, Zenon DEF AgentsTyped

LEMMA TrackedStep ==
  ASSUME ToldInv, Tracked, [SessionNext]_sessionVars
  PROVE  Tracked'
<1> DEFINE Alone == UNCHANGED << phase, wk, sessions >>
<1>1. CASE Alone
  BY <1>1 DEF Tracked
<1>2. CASE Prepares
  <2>1. wk' \in Workers \cup {Nobody}
    BY <1>2 DEF Tracked, Prepares, Dispatch, Wait, schedule, tryNext, allAtCapacity, pick, pickFindsNone,
       rediscover, GiveUp, ClientGoneInRecovery, DeadlinePasses, Probing, ProbeStarts, ProbeStores,
       ProbeFails, Replaced, Return, task
  <2>2. sessions' = sessions
    BY <1>2 DEF Prepares, Idle
  <2> QED
    BY <1>2, <2>1, <2>2, BetweenAttempts DEF Tracked
<1>3. CASE TaskRefused
  BY <1>3 DEF TaskRefused, Answers503, Refused, Idle, Tracked
<1>4. CASE TaskUnreachable
  BY <1>4 DEF TaskUnreachable, Unreachable, Refused, Tracked
<1>5. CASE TaskAccepted
  BY <1>5 DEF TaskAccepted, Accepted, Tracked
<1>6. CASE TaskBreaks
  BY <1>6 DEF TaskBreaks, Breaks, Forgets, Tracked
<1>7. CASE TaskCancelled \/ TaskWriteFails \/ TaskEnds \/ OrchestratorDies
  BY <1>7 DEF TaskCancelled, TaskWriteFails, TaskEnds, OrchestratorDies, ClientGone, WriteFails,
              EOF, Return, Forgets, Tracked
<1>8. CASE Output \/ ErrorBody \/ Drained \/ ExitLine
  BY <1>8, <1>1 DEF Output, ErrorBody, Drained, ExitLine, Write, task, Idle
<1>9. ASSUME WorkerStarts \/ Truncated \/ (\E how \in {"success", "failure"} : FfmpegEnds(how))
      PROVE  Alone
  BY <1>9 DEF WorkerStarts, Truncated, FfmpegEnds, vars, task
<1>10. ASSUME (\E w \in Workers : StrayStops(w)) \/ ShimExits \/ ShimDies \/ Signalled
       PROVE  Alone
  BY <1>10 DEF StrayStops, ShimExits, ShimDies, Signalled, vars, task
<1>11. ASSUME KillLooksUp \/ KillArrives \/ KillLost \/ KillTimesOut \/ Cancels
       PROVE  Alone
  BY <1>11 DEF KillLooksUp, KillArrives, KillLost, KillTimesOut, Cancels, vars, task
<1>12. ASSUME Hangup \/ UNCHANGED sessionVars
       PROVE  Alone
  BY <1>12 DEF Hangup, PMSLeaves, Idle, task, sessionVars, vars
<1>13. ASSUME TaskFails \/ TaskCharged
       PROVE  Alone
  BY <1>13 DEF TaskFails, TaskCharged, Fails, UpstreamFails, UpstreamCancelled, Charges, Idle, task
<1> QED
  BY <1>1, <1>2, <1>3, <1>4, <1>5, <1>6, <1>7, <1>8, <1>9, <1>10, <1>11, <1>12, <1>13
  DEF SessionNext

LEMMA ClientTypedStep ==
  ASSUME ToldInv, Tracked, ClientTyped, [SessionNext]_sessionVars
  PROVE  ClientTyped'
<1> DEFINE Alone == UNCHANGED << shim, exit, routed, status, signal, kill >>
<1>1. CASE Alone
  BY <1>1 DEF ClientTyped
<1>2. CASE TaskAccepted
  BY <1>2 DEF TaskAccepted, Accepted, killing, ClientTyped
<1>3. CASE ExitLine
  BY <1>3 DEF ExitLine, ExitRouted, killing, ClientTyped
<1>4. CASE ShimExits \/ ShimDies \/ Cancels
  BY <1>4 DEF ShimExits, ShimDies, Cancels, ExitStatus, killing, ClientTyped
<1>5. CASE KillLooksUp
  BY <1>5 DEF KillLooksUp, client, ClientTyped, Tracked
<1>6. CASE Signalled \/ KillArrives \/ KillLost \/ KillTimesOut
  BY <1>6 DEF Signalled, KillArrives, KillLost, KillTimesOut, Answered, client, ClientTyped
<1>7. ASSUME \/ Prepares \/ TaskRefused \/ TaskFails \/ TaskCharged
             \/ Output \/ ErrorBody \/ Hangup
      PROVE  Alone
  BY <1>7 DEF Prepares, TaskRefused, TaskFails, TaskCharged, Output, ErrorBody, Hangup, Idle,
              client, killing
<1>8. ASSUME \/ TaskUnreachable \/ TaskBreaks \/ TaskCancelled \/ TaskWriteFails
             \/ TaskEnds \/ OrchestratorDies
      PROVE  Alone
  BY <1>8 DEF TaskUnreachable, TaskBreaks, TaskCancelled, TaskWriteFails, TaskEnds,
              OrchestratorDies, client, killing
<1>9. ASSUME \/ WorkerStarts \/ Drained \/ Truncated
             \/ \E how \in {"success", "failure"} : FfmpegEnds(how)
             \/ \E w \in Workers : StrayStops(w)
             \/ UNCHANGED sessionVars
      PROVE  Alone
  BY <1>9 DEF WorkerStarts, Drained, Truncated, FfmpegEnds, StrayStops, sessionVars, client, killing
<1> QED
  BY <1>1, <1>2, <1>3, <1>4, <1>5, <1>6, <1>7, <1>8, <1>9 DEF SessionNext

LEMMA AgentsTypedStep ==
  ASSUME ToldInv, Tracked, AgentsTyped, [SessionNext]_sessionVars
  PROVE  AgentsTyped'
<1> DEFINE Alone == UNCHANGED << ff, entry, stray, last, completed, cut >>
<1>1. CASE Alone
  BY <1>1, Zenon DEF AgentsTyped
<1>2. CASE WorkerStarts
  BY <1>2 DEF WorkerStarts, AgentsTyped
<1>3. CASE TaskUnreachable \/ TaskBreaks \/ TaskCancelled \/ TaskWriteFails \/ TaskEnds
  BY <1>3, LeavesTyped
     DEF TaskUnreachable, TaskBreaks, TaskCancelled, TaskWriteFails, TaskEnds, ghosts, ToldInv
<1>4. CASE OrchestratorDies
  BY <1>1, <1>4, LeavesTyped DEF OrchestratorDies, agents, ghosts, ToldInv
<1>5. ASSUME NEW how \in {"success", "failure"}, FfmpegEnds(how)
      PROVE  AgentsTyped'
  <2>1. /\ ff' = how /\ last' = how
        /\ UNCHANGED << entry, stray, cut >>
    BY <1>5 DEF FfmpegEnds
  <2>2. completed' \in BOOLEAN
    BY <1>5, Zenon DEF FfmpegEnds
  <2> QED
    BY <2>1, <2>2 DEF AgentsTyped
<1>6. CASE Truncated
  <2>1. cut' \in BOOLEAN
    BY <1>6, Zenon DEF Truncated, OpenLine
  <2>2. UNCHANGED << ff, entry, stray, last, completed >>
    BY <1>6 DEF Truncated
  <2> QED
    BY <2>1, <2>2, Zenon DEF AgentsTyped
<1>7. CASE ExitLine
  BY <1>7 DEF ExitLine, ghosts, AgentsTyped
<1>8. ASSUME NEW w \in Workers, StrayStops(w)
      PROVE  AgentsTyped'
  BY <1>8 DEF StrayStops, ghosts, AgentsTyped
<1>9. CASE KillArrives
  BY <1>9 DEF KillArrives, AgentsTyped
<1>10. ASSUME \/ Prepares \/ TaskRefused \/ TaskAccepted \/ TaskFails \/ TaskCharged
              \/ Output \/ ErrorBody \/ Hangup
       PROVE  Alone
  BY <1>10 DEF Prepares, TaskRefused, TaskAccepted, TaskFails, TaskCharged, Output, ErrorBody,
               Hangup, Idle, agents, ghosts
<1>11. ASSUME Drained \/ ShimExits \/ ShimDies \/ Signalled
       PROVE  Alone
  BY <1>11 DEF Drained, ShimExits, ShimDies, Signalled, agents, ghosts
<1>12. ASSUME KillLooksUp \/ KillLost \/ KillTimesOut \/ Cancels \/ UNCHANGED sessionVars
       PROVE  Alone
  BY <1>12 DEF KillLooksUp, KillLost, KillTimesOut, Cancels, sessionVars, agents, ghosts
<1> QED
  BY <1>1, <1>2, <1>3, <1>4, <1>5, <1>6, <1>7, <1>8, <1>9, <1>10, <1>11, <1>12 DEF SessionNext

\* Every reachable state of a session is well typed: the tracker names the
\* worker that streams and nobody else (handleTask, sessions.set and del), and
\* an ffmpeg's output is unread only after it has ended.
THEOREM SessionTypeCorrect == SessionSpec => []SessionTypeOK
<1>1. ToldInv /\ Typed /\ [SessionNext]_sessionVars => Typed'
  BY TrackedStep, ClientTypedStep, AgentsTypedStep DEF Typed
<1>2. SessionSpec => []Typed
  BY <1>1, TypedInit, ToldInvariant, PTL DEF SessionSpec
<1>3. ToldInv /\ Typed => SessionTypeOK
  BY DEF ToldInv, Placed, Typed, Tracked, ClientTyped, AgentsTyped, SessionTypeOK
<1> QED
  BY <1>2, <1>3, ToldInvariant, PTL
=============================================================================
