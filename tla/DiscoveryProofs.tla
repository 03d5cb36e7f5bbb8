-------------------------- MODULE DiscoveryProofs ---------------------------
(***************************************************************************)
(* Proofs about the worker pool (module Discovery), for any set of         *)
(* workers, any WORKERS_LIST and any number of concurrent lookups; and     *)
(* about PushHeartbeat, for any timeout, reaper period and backoff, from   *)
(* the inductive invariant of the pool.                                    *)
(***************************************************************************)
EXTENDS PushHeartbeat, TLAPS

(***************************************************************************)
(* The strengthening: each source bit, taken alone, says exactly what its  *)
(* source last said, and a process that is down holds no pool.             *)
(***************************************************************************)
BitsExact ==
  \A u \in Urls :
    /\ "dns" \in sources[u] <=> u \in applied
    /\ "list" \in sources[u] <=> up /\ u \in List
    /\ "push" \in sources[u] <=> u \in pushing

DownIsEmpty == ~up => applied = {} /\ pushing = {}

IInv == TypeOK /\ BitsExact /\ DownIsEmpty

-----------------------------------------------------------------------------
(***************************************************************************)
(* Type correctness.                                                       *)
(***************************************************************************)
LEMMA TypeInit == Init => TypeOK
<1> SUFFICES ASSUME Init PROVE TypeOK
  OBVIOUS
<1>1. workers = {u \in Urls : sources[u] # {}}
  BY DEF Init
<1>2. silence \in [Urls -> 0..Stale]
  BY TimeoutAssumption DEF Init, Stale
<1>3. faults \in 0..MaxFaults
  BY MaxFaultsAssumption DEF Init
<1>4. lookup \in [Lookups -> (SUBSET Urls) \cup {NoAnswer}]
  BY DEF Init
<1> QED
  BY <1>1, <1>2, <1>3, <1>4 DEF Init, TypeOK

\* Vouching keeps the pool well typed: each url vouched for has an entry and
\* each entry a source.
LEMMA VouchTypes ==
  ASSUME TypeOK, NEW urls \in SUBSET Urls, NEW source \in Sources, Vouch(urls, source)
  PROVE  /\ workers' \in SUBSET Urls
         /\ sources' \in [Urls -> SUBSET Sources]
         /\ workers' = {u \in Urls : sources'[u] # {}}
         /\ known' \in SUBSET workers'
  BY DEF TypeOK, Vouch

LEMMA TypeStep == TypeOK /\ [Next]_vars => TypeOK'
<1> SUFFICES ASSUME TypeOK, [Next]_vars PROVE TypeOK'
  OBVIOUS
<1> USE TimeoutAssumption, MaxFaultsAssumption
<1>1. CASE loadList
  <2>1. Vouch(List, "list") /\ List \in SUBSET Urls /\ "list" \in Sources
    BY <1>1, ListAssumption DEF loadList, Sources
  <2>2. up' \in BOOLEAN
    BY <1>1 DEF loadList
  <2> QED
    BY <1>1, <2>1, <2>2, VouchTypes DEF loadList, TypeOK
<1>2. ASSUME NEW r \in Lookups, LookupHost(r) PROVE TypeOK'
  BY <1>2 DEF LookupHost, TypeOK
<1>3. ASSUME NEW r \in Lookups, refresh(r) PROVE TypeOK'
  <2>1. lookup[r] \in SUBSET Urls
    BY <1>3 DEF refresh, TypeOK
  <2>2. /\ workers' \in SUBSET Urls
        /\ sources' \in [Urls -> SUBSET Sources]
        /\ known' \in SUBSET workers'
    BY <1>3, <2>1 DEF refresh, TypeOK, Sources
  <2>3. workers' = {u \in Urls : sources'[u] # {}}
    <3>1. \A u \in Urls : sources'[u] =
            IF u \in lookup[r] THEN sources[u] \cup {"dns"} ELSE sources[u] \ {"dns"}
      BY <1>3 DEF refresh
    <3>2. \A u \in Urls : u \in workers' <=>
            (u \in workers \/ u \in lookup[r]) /\ ~(sources[u] = {"dns"} /\ u \notin lookup[r])
      BY <1>3, <2>1 DEF refresh, TypeOK
    <3>3. \A u \in Urls : u \in workers <=> sources[u] # {}
      BY DEF TypeOK
    <3>4. ASSUME NEW u \in Urls PROVE u \in workers' <=> sources'[u] # {}
      <4>1. CASE u \in lookup[r]
        BY <3>1, <3>2, <4>1
      <4>2. CASE u \notin lookup[r]
        <5>1. sources'[u] = sources[u] \ {"dns"}
          BY <3>1, <4>2
        <5>2. u \in workers' <=> sources[u] # {} /\ sources[u] # {"dns"}
          BY <3>2, <3>3, <4>2
        <5> QED
          BY <5>1, <5>2
      <4> QED
        BY <4>1, <4>2
    <3> QED
      BY <2>2, <3>4
  <2>4. /\ lookup' \in [Lookups -> (SUBSET Urls) \cup {NoAnswer}]
        /\ applied' \in SUBSET Urls
    BY <1>3, <2>1 DEF refresh, TypeOK
  <2> QED
    BY <1>3, <2>2, <2>3, <2>4 DEF refresh, TypeOK
<1>4. ASSUME NEW u \in Urls, register(u) PROVE TypeOK'
  <2>1. Vouch({u}, "push") /\ {u} \in SUBSET Urls /\ "push" \in Sources
    BY <1>4 DEF register, Sources
  <2>2. silence' \in [Urls -> 0..Stale] /\ pushing' \in SUBSET Urls
    BY <1>4 DEF register, TypeOK, Stale
  <2> QED
    BY <1>4, <2>1, <2>2, VouchTypes DEF register, TypeOK
<1>5. ASSUME NEW u \in Urls, Use(u) PROVE TypeOK'
  BY <1>5 DEF Use, TypeOK
<1>6. CASE reapPush
  <2>1. /\ workers' \in SUBSET Urls
        /\ sources' \in [Urls -> SUBSET Sources]
        /\ known' \in SUBSET workers'
        /\ pushing' \in SUBSET Urls
    BY <1>6 DEF reapPush, TypeOK
  <2>2. workers' = {u \in Urls : sources'[u] # {}}
    <3> DEFINE late == {u \in workers : "push" \in sources[u] /\ silence[u] > Timeout}
    <3>1. workers' = workers \ {u \in late : sources[u] = {"push"}}
      BY <1>6, Zenon DEF reapPush
    <3>2. \A u \in Urls : sources'[u] = IF u \in late THEN sources[u] \ {"push"} ELSE sources[u]
      BY <1>6, Zenon DEF reapPush
    <3>3. \A u \in Urls : u \in workers <=> sources[u] # {}
      BY Zenon DEF TypeOK
    <3> HIDE DEF late
    <3>4. ASSUME NEW u \in Urls PROVE u \in workers' <=> sources'[u] # {}
      <4>1. CASE u \in late
        <5>1. sources'[u] = sources[u] \ {"push"}
          BY <3>2, <4>1
        <5>2. u \in workers' <=> u \in workers /\ sources[u] # {"push"}
          BY <3>1, <4>1
        <5> QED
          BY <3>3, <4>1, <5>1, <5>2
      <4>2. CASE u \notin late
        BY <3>1, <3>2, <3>3, <4>2
      <4> QED
        BY <4>1, <4>2
    <3> QED
      BY <2>1, <3>4 DEF TypeOK
  <2> QED
    BY <1>6, <2>1, <2>2 DEF reapPush, TypeOK
<1>7. CASE Age
  <2>1. silence' \in [Urls -> 0..Stale]
    BY <1>7 DEF Age, TypeOK, Stale
  <2> QED
    BY <1>7, <2>1 DEF Age, TypeOK
<1>8. CASE Rollout
  BY <1>8 DEF Rollout, TypeOK
<1>9. CASE Crash
  <2>1. silence' \in [Urls -> 0..Stale] /\ faults' \in 0..MaxFaults
    BY <1>9 DEF Crash, TypeOK, Stale
  <2>2. workers' = {u \in Urls : sources'[u] # {}}
    BY <1>9 DEF Crash
  <2> QED
    BY <1>9, <2>1, <2>2 DEF Crash, TypeOK
<1>10. CASE UNCHANGED vars
  BY <1>10 DEF vars, TypeOK
<1> QED
  BY <1>1, <1>2, <1>3, <1>4, <1>5, <1>6, <1>7, <1>8, <1>9, <1>10 DEF Next

\* Every variable keeps its type; among them, an entry is in the pool exactly
\* as long as it has a source (delete of refresh and of reapPush).
THEOREM TypeCorrect == Spec => []TypeOK
  BY TypeInit, TypeStep, PTL DEF Spec

-----------------------------------------------------------------------------
(***************************************************************************)
(* Each bit agrees with its source.                                        *)
(***************************************************************************)
LEMMA BitsInit == Init => BitsExact /\ DownIsEmpty
  BY DEF Init, BitsExact, DownIsEmpty

LEMMA BitsStep == IInv /\ [Next]_vars => BitsExact' /\ DownIsEmpty'
<1> SUFFICES ASSUME IInv, [Next]_vars PROVE BitsExact' /\ DownIsEmpty'
  OBVIOUS
<1> USE DEF IInv
<1>1. CASE loadList
  BY <1>1 DEF loadList, Vouch, TypeOK, BitsExact, DownIsEmpty
<1>2. ASSUME NEW r \in Lookups, LookupHost(r) PROVE BitsExact' /\ DownIsEmpty'
  BY <1>2 DEF LookupHost, BitsExact, DownIsEmpty
<1>3. ASSUME NEW r \in Lookups, refresh(r) PROVE BitsExact' /\ DownIsEmpty'
  <2>1. up /\ up' = up /\ pushing' = pushing /\ applied' = lookup[r]
    BY <1>3 DEF refresh
  <2>2. \A u \in Urls : sources'[u] =
          IF u \in lookup[r] THEN sources[u] \cup {"dns"} ELSE sources[u] \ {"dns"}
    BY <1>3 DEF refresh
  <2>3. ASSUME NEW u \in Urls
        PROVE  /\ "dns" \in sources'[u] <=> u \in applied'
               /\ "list" \in sources'[u] <=> "list" \in sources[u]
               /\ "push" \in sources'[u] <=> "push" \in sources[u]
    <3>1. CASE u \in lookup[r]
      <4>1. sources'[u] = sources[u] \cup {"dns"}
        BY <2>2, <3>1
      <4> QED
        BY <2>1, <3>1, <4>1
    <3>2. CASE u \notin lookup[r]
      <4>1. sources'[u] = sources[u] \ {"dns"}
        BY <2>2, <3>2
      <4> QED
        BY <2>1, <3>2, <4>1
    <3> QED
      BY <3>1, <3>2
  <2> QED
    BY <2>1, <2>3 DEF BitsExact, DownIsEmpty
<1>4. ASSUME NEW u \in Urls, register(u) PROVE BitsExact' /\ DownIsEmpty'
  BY <1>4 DEF register, Vouch, TypeOK, BitsExact, DownIsEmpty
<1>5. ASSUME NEW u \in Urls, Use(u) PROVE BitsExact' /\ DownIsEmpty'
  BY <1>5 DEF Use, BitsExact, DownIsEmpty
<1>6. CASE reapPush
  <2> DEFINE late == {u \in workers : "push" \in sources[u] /\ silence[u] > Timeout}
  <2>1. up /\ up' = up /\ applied' = applied /\ pushing' = pushing \ late
    BY <1>6 DEF reapPush
  <2>2. \A u \in Urls : sources'[u] =
          IF u \in late THEN sources[u] \ {"push"} ELSE sources[u]
    BY <1>6 DEF reapPush
  <2> HIDE DEF late
  <2> QED
    BY <2>1, <2>2 DEF BitsExact, DownIsEmpty
<1>7. CASE Age
  BY <1>7 DEF Age, BitsExact, DownIsEmpty
<1>8. CASE Rollout
  BY <1>8 DEF Rollout, BitsExact, DownIsEmpty
<1>9. CASE Crash
  BY <1>9 DEF Crash, BitsExact, DownIsEmpty
<1>10. CASE UNCHANGED vars
  BY <1>10 DEF vars, BitsExact, DownIsEmpty
<1> QED
  BY <1>1, <1>2, <1>3, <1>4, <1>5, <1>6, <1>7, <1>8, <1>9, <1>10 DEF Next

LEMMA InductiveInvariant == Spec => []IInv
<1>1. Init => IInv
  BY TypeInit, BitsInit DEF IInv
<1>2. IInv /\ [Next]_vars => IInv'
  BY TypeStep, BitsStep DEF IInv
<1> QED
  BY <1>1, <1>2, PTL DEF Spec

-----------------------------------------------------------------------------
(***************************************************************************)
(* The results.                                                            *)
(***************************************************************************)

\* A worker is in the pool exactly when one of the three sources vouches for
\* it, whatever the order of lookups, heartbeats, reaps and restarts.
THEOREM PoolAlwaysVouched == Spec => []PoolIsVouched
<1>1. IInv => PoolIsVouched
  <2> SUFFICES ASSUME IInv, up PROVE workers = List \cup applied \cup pushing
    BY DEF PoolIsVouched
  <2>1. \A u \in Urls : u \in workers <=> u \in List \cup applied \cup pushing
    BY DEF IInv, TypeOK, BitsExact, Sources
  <2> QED
    BY <2>1, ListAssumption DEF IInv, TypeOK
<1> QED
  BY <1>1, InductiveInvariant, PTL

\* An entry that holds health or in-flight tickets is neither dropped nor
\* replaced by a fresh one while a source vouches for its worker.
THEOREM KnowledgeNeverLost == Spec => KnowledgeKept
<1> DEFINE Kept == \A u \in known : up' /\ u \in List \cup applied' \cup pushing' => u \in known'
<1>1. IInv /\ [Next]_vars => [Kept]_vars
  <2> SUFFICES ASSUME IInv, Next,
                      NEW u \in known, up', u \in List \cup applied' \cup pushing'
               PROVE  u \in known'
    OBVIOUS
  <2>1. u \in workers /\ u \in Urls
    BY DEF IInv, TypeOK
  <2>2. CASE loadList
    BY <2>2 DEF loadList, Vouch
  <2>3. ASSUME NEW r \in Lookups, LookupHost(r) PROVE u \in known'
    BY <2>3 DEF LookupHost
  <2>4. ASSUME NEW r \in Lookups, refresh(r) PROVE u \in known'
    BY <2>1, <2>4 DEF refresh, IInv, BitsExact
  <2>5. ASSUME NEW v \in Urls, register(v) PROVE u \in known'
    BY <2>5 DEF register, Vouch
  <2>6. ASSUME NEW v \in Urls, Use(v) PROVE u \in known'
    BY <2>6 DEF Use
  <2>7. CASE reapPush
    BY <2>1, <2>7 DEF reapPush, IInv, BitsExact
  <2>8. CASE Age \/ Rollout
    BY <2>8 DEF Age, Rollout
  <2>9. CASE Crash
    BY <2>9 DEF Crash
  <2> QED
    BY <2>2, <2>3, <2>4, <2>5, <2>6, <2>7, <2>8, <2>9 DEF Next
<1> QED
  BY <1>1, InductiveInvariant, PTL DEF Spec, KnowledgeKept

-----------------------------------------------------------------------------
(***************************************************************************)
(* PushHeartbeat: the loops and the clock around the pool.                 *)
(***************************************************************************)
\* A step of the loops is a step of the pool, or only a link's.
LEMMA LoopRunsThePool ==
  ASSUME HeartbeatNext
  PROVE  [Next]_vars \/ \E u \in Urls : LinkChanges(u)
BY DEF HeartbeatNext, Boot, Post, PostSucceeds, PostFails, Reap, Tick, Down, Next

LEMMA LinkKeepsThePool ==
  ASSUME IInv, NEW u \in Urls, LinkChanges(u)
  PROVE  IInv'
<1>1. faults' \in 0..MaxFaults
  BY MaxFaultsAssumption DEF LinkChanges, IInv, TypeOK
<1>2. TypeOK'
  BY <1>1 DEF LinkChanges, IInv, TypeOK
<1>3. BitsExact' /\ DownIsEmpty'
  BY DEF LinkChanges, IInv, BitsExact, DownIsEmpty
<1> QED
  BY <1>2, <1>3 DEF IInv

LEMMA PoolInvariant == HeartbeatSpec => []IInv
<1>1. HeartbeatInit => IInv
  BY TypeInit, BitsInit DEF HeartbeatInit, IInv
<1>2. IInv /\ [HeartbeatNext]_allVars => IInv'
  <2> SUFFICES ASSUME IInv, [HeartbeatNext]_allVars PROVE IInv'
    OBVIOUS
  <2>1. [Next]_vars => IInv'
    BY TypeStep, BitsStep DEF IInv
  <2>2. CASE UNCHANGED allVars
    BY <2>1, <2>2 DEF allVars
  <2>3. CASE HeartbeatNext
    BY <2>1, <2>3, LoopRunsThePool, LinkKeepsThePool
  <2> QED
    BY <2>2, <2>3
<1> QED
  BY <1>1, <1>2, PTL DEF HeartbeatSpec

-----------------------------------------------------------------------------
(***************************************************************************)
(* Type correctness of the loops.                                          *)
(***************************************************************************)
Sleeps == 0..MaxBackoff
Backoffs == 1..MaxBackoff

LEMMA BackoffFacts ==
  /\ 0 \in Sleeps /\ 1 \in Sleeps /\ 1 \in Backoffs
  /\ \A b \in Backoffs : b \in Sleeps
  /\ \A b \in Backoffs : (IF 2 * b > MaxBackoff THEN MaxBackoff ELSE 2 * b) \in Backoffs
  /\ \A n \in Sleeps : n > 0 => n - 1 \in Sleeps
BY MaxBackoffAssumption DEF Sleeps, Backoffs

LoopsOK ==
  /\ posting \in SUBSET Urls
  /\ sleep \in [Urls -> Sleeps]
  /\ backoff \in [Urls -> Backoffs]

LEMMA LoopsStep ==
  ASSUME LoopsOK, [HeartbeatNext]_allVars
  PROVE  LoopsOK'
<1>1. CASE UNCHANGED << posting, sleep, backoff >>
  BY <1>1 DEF LoopsOK
<1>2. ASSUME NEW u \in Urls, Post(u)
      PROVE  LoopsOK'
  BY <1>2 DEF Post, LoopsOK
<1>3. ASSUME NEW u \in Urls, PostSucceeds(u)
      PROVE  LoopsOK'
  BY <1>3, BackoffFacts DEF PostSucceeds, LoopsOK
<1>4. ASSUME NEW u \in Urls, PostFails(u)
      PROVE  LoopsOK'
  <2>1. backoff[u] \in Backoffs /\ backoff[u] \in Sleeps
    BY BackoffFacts DEF LoopsOK
  <2>2. (IF 2 * backoff[u] > MaxBackoff THEN MaxBackoff ELSE 2 * backoff[u]) \in Backoffs
    BY <2>1, BackoffFacts
  <2> DEFINE next == IF 2 * backoff[u] > MaxBackoff THEN MaxBackoff ELSE 2 * backoff[u]
  <2>3. backoff' = [backoff EXCEPT ![u] = next] /\ sleep' = [sleep EXCEPT ![u] = backoff[u]]
        /\ posting' = posting \ {u}
    BY <1>4 DEF PostFails
  <2> HIDE DEF next
  <2>4. next \in Backoffs
    BY <2>2 DEF next
  <2> QED
    BY <2>1, <2>3, <2>4 DEF LoopsOK
<1>5. CASE Tick
  <2>1. ASSUME NEW u \in Urls
        PROVE  (IF u \in posting THEN 0 ELSE sleep[u] - 1) \in Sleeps
    <3>1. CASE u \in posting
      BY <3>1, BackoffFacts
    <3>2. CASE u \notin posting
      BY <1>5, <3>2, BackoffFacts DEF Tick, LoopsOK
    <3> QED
      BY <3>1, <3>2
  <2> QED
    BY <1>5, <2>1 DEF Tick, LoopsOK
<1>6. ASSUME Boot \/ Reap \/ Down \/ (\E u \in Urls : LinkChanges(u)) \/ UNCHANGED allVars
      PROVE  UNCHANGED << posting, sleep, backoff >>
  BY <1>6 DEF Boot, Reap, Down, LinkChanges, allVars, loopVars
<1> QED
  BY <1>1, <1>2, <1>3, <1>4, <1>5, <1>6 DEF HeartbeatNext
LEMMA LoopsInit == HeartbeatInit => LoopsOK
BY BackoffFacts DEF HeartbeatInit, LoopsOK

-----------------------------------------------------------------------------
(***************************************************************************)
(* The reaper.  How long a worker is overdue and what is left until the    *)
(* next tick add up to a reaper period at most, because time does not pass *)
(* a tick that is due; and a worker that is overdue is one the tick takes. *)
(***************************************************************************)
OverdueIsLate ==
  \A u \in Urls : overdue[u] > 0 => up /\ "push" \in sources[u] /\ silence[u] > Timeout

Deadline ==
  /\ link \in [Urls -> BOOLEAN]
  /\ reapIn \in 0..ReapEvery
  /\ overdue \in [Urls -> Nat]
  /\ OverdueIsLate
  /\ \A u \in Urls : overdue[u] + reapIn <= ReapEvery

LEMMA DeadlineInit == HeartbeatInit => Deadline
BY ReapEveryAssumption DEF HeartbeatInit, Deadline, OverdueIsLate

LEMMA DeadlineKept ==
  ASSUME Deadline, UNCHANGED << link, reapIn, overdue >>,
         UNCHANGED << up, sources, silence >>
  PROVE  Deadline'
BY DEF Deadline, OverdueIsLate

\* The clock.
LEMMA TickKeepsDeadline ==
  ASSUME IInv, Deadline, Tick
  PROVE  Deadline'
<1>1. /\ up => reapIn \in Nat /\ reapIn > 0
      /\ reapIn' = IF up THEN reapIn - 1 ELSE reapIn
      /\ link' = link /\ up' = up /\ sources' = sources
  BY DEF Tick, Age, Deadline
<1>2. silence' = [u \in Urls |-> IF silence[u] = Stale THEN Stale ELSE silence[u] + 1]
  BY DEF Tick, Age
<1>3. overdue' = [u \in Urls |->
        IF "push" \in sources[u] /\ silence'[u] > Timeout /\ overdue[u] <= ReapEvery
        THEN overdue[u] + 1 ELSE overdue[u]]
  BY DEF Tick
<1>4. reapIn' \in 0..ReapEvery
  <2>1. reapIn \in 0..ReapEvery
    BY DEF Deadline
  <2>2. CASE up
    BY <1>1, <2>1, <2>2, ReapEveryAssumption
  <2>3. CASE ~ up
    BY <1>1, <2>1, <2>3
  <2> QED
    BY <2>2, <2>3
<1>5. ASSUME NEW u \in Urls
      PROVE  /\ overdue'[u] \in Nat
             /\ overdue'[u] > 0 => up' /\ "push" \in sources'[u] /\ silence'[u] > Timeout
             /\ overdue'[u] + reapIn' <= ReapEvery
  <2>1. "push" \in sources[u] => up
    BY DEF IInv, BitsExact, DownIsEmpty
  <2>2. overdue[u] \in Nat /\ silence[u] \in 0..Stale
    BY DEF Deadline, IInv, TypeOK
  <2>3. silence[u] > Timeout => silence'[u] > Timeout
    BY <1>2, <2>2, TimeoutAssumption DEF Stale
  <2>4. CASE overdue'[u] = overdue[u]
    <3>1. overdue[u] > 0 => up /\ "push" \in sources[u] /\ silence[u] > Timeout
      BY DEF Deadline, OverdueIsLate
    <3>2. overdue[u] > 0 => up' /\ "push" \in sources'[u] /\ silence'[u] > Timeout
      BY <1>1, <2>3, <3>1
    <3>3. overdue[u] + reapIn <= ReapEvery /\ reapIn \in Nat
      BY DEF Deadline
    <3>4. reapIn' <= reapIn /\ reapIn' \in Nat
      <4>1. CASE up
        BY <1>1, <3>3, <4>1
      <4>2. CASE ~ up
        BY <1>1, <3>3, <4>2
      <4> QED
        BY <4>1, <4>2
    <3>5. overdue[u] + reapIn' <= ReapEvery
      BY <2>2, <3>3, <3>4, ReapEveryAssumption
    <3> QED
      BY <2>2, <2>4, <3>2, <3>5
  <2>5. CASE overdue'[u] # overdue[u]
    <3>1. /\ "push" \in sources[u] /\ silence'[u] > Timeout
          /\ overdue'[u] = overdue[u] + 1
      BY <1>3, <2>5
    <3>2. up
      BY <2>1, <3>1
    <3>3. overdue[u] + reapIn <= ReapEvery /\ reapIn \in Nat
      BY DEF Deadline
    <3>4. overdue'[u] + reapIn' <= ReapEvery
      BY <1>1, <2>2, <3>1, <3>2, <3>3, ReapEveryAssumption
    <3>5. up' /\ "push" \in sources'[u]
      BY <1>1, <3>1, <3>2
    <3>6. overdue'[u] \in Nat
      BY <2>2, <3>1
    <3> QED
      BY <3>1, <3>4, <3>5, <3>6
  <2> QED
    BY <2>4, <2>5
<1>6. overdue' \in [Urls -> Nat]
  BY <1>3, <1>5
<1> QED
  BY <1>1, <1>4, <1>5, <1>6 DEF Deadline, OverdueIsLate

\* A tick of the reaper leaves nobody overdue.
LEMMA ReapKeepsDeadline ==
  ASSUME IInv, Deadline, Reap
  PROVE  Deadline'
<1>1. /\ reapIn' = ReapEvery /\ link' = link
      /\ overdue' = [u \in Urls |-> IF "push" \in sources'[u] THEN overdue[u] ELSE 0]
  BY DEF Reap
<1>2. ASSUME NEW u \in Urls
      PROVE  overdue'[u] = 0
  <2>1. CASE overdue[u] > 0
    <3>1. "push" \in sources[u] /\ silence[u] > Timeout
      BY <2>1 DEF Deadline, OverdueIsLate
    <3>2. u \in workers
      BY <3>1 DEF IInv, TypeOK
    <3>3. u \in {v \in workers : "push" \in sources[v] /\ silence[v] > Timeout}
      BY <3>1, <3>2
    <3>4. sources'[u] = sources[u] \ {"push"}
      BY <3>3, Zenon DEF Reap, reapPush
    <3> QED
      BY <1>1, <3>4
  <2>2. CASE ~(overdue[u] > 0)
    BY <1>1, <2>2 DEF Deadline
  <2> QED
    BY <2>1, <2>2
<1>3. overdue' = [u \in Urls |-> 0]
  BY <1>1, <1>2
<1> QED
  BY <1>1, <1>3, ReapEveryAssumption DEF Deadline, OverdueIsLate

LEMMA DeadlineStep ==
  ASSUME IInv, Deadline, [HeartbeatNext]_allVars
  PROVE  Deadline'
<1>1. CASE Boot
  <2>1. ASSUME NEW u \in Urls
        PROVE  overdue[u] = 0
    BY <1>1 DEF Boot, loadList, Deadline, OverdueIsLate
  <2>2. reapIn' = ReapEvery /\ link' = link /\ overdue' = overdue
    BY <1>1 DEF Boot
  <2> QED
    BY <2>1, <2>2, ReapEveryAssumption DEF Deadline, OverdueIsLate
<1>2. ASSUME NEW u \in Urls, Post(u) \/ PostFails(u)
      PROVE  Deadline'
  BY <1>2, DeadlineKept DEF Post, PostFails, vars
<1>3. ASSUME NEW u \in Urls, PostSucceeds(u)
      PROVE  Deadline'
  <2>1. /\ overdue' = [overdue EXCEPT ![u] = 0]
        /\ link' = link /\ reapIn' = reapIn /\ up' = up
    BY <1>3 DEF PostSucceeds, register
  <2>2. \A v \in Urls \ {u} : sources'[v] = sources[v] /\ silence'[v] = silence[v]
    BY <1>3 DEF PostSucceeds, register, Vouch, IInv, TypeOK
  <2>3. overdue' \in [Urls -> Nat] /\ overdue'[u] = 0
    BY <2>1 DEF Deadline
  <2>4. \A v \in Urls \ {u} : overdue'[v] = overdue[v]
    BY <2>1 DEF Deadline
  <2>5. OverdueIsLate'
    BY <2>1, <2>2, <2>3, <2>4 DEF Deadline, OverdueIsLate
  <2>6. \A v \in Urls : overdue'[v] + reapIn' <= ReapEvery
    BY <2>1, <2>3, <2>4 DEF Deadline
  <2> QED
    BY <2>1, <2>3, <2>5, <2>6 DEF Deadline
<1>4. ASSUME NEW u \in Urls, LinkChanges(u)
      PROVE  Deadline'
  <2>1. link' \in [Urls -> BOOLEAN]
    BY <1>4, Zenon DEF LinkChanges, Deadline
  <2>2. UNCHANGED << up, sources, silence, reapIn, overdue >>
    BY <1>4 DEF LinkChanges
  <2> QED
    BY <2>1, <2>2 DEF Deadline, OverdueIsLate
<1>5. CASE Down
  <2>1. link' = link /\ reapIn' = reapIn /\ overdue' = [u \in Urls |-> 0]
    BY <1>5 DEF Down
  <2> QED
    BY <2>1 DEF Deadline, OverdueIsLate
<1>6. CASE UNCHANGED allVars
  BY <1>6, DeadlineKept DEF allVars, loopVars, vars
<1> QED
  BY <1>1, <1>2, <1>3, <1>4, <1>5, <1>6, TickKeepsDeadline, ReapKeepsDeadline DEF HeartbeatNext

-----------------------------------------------------------------------------
LEMMA HeartbeatInvariant == HeartbeatSpec => [](IInv /\ LoopsOK /\ Deadline)
<1>1. HeartbeatInit => LoopsOK /\ Deadline
  BY LoopsInit, DeadlineInit
<1>2. IInv /\ LoopsOK /\ Deadline /\ [HeartbeatNext]_allVars => (LoopsOK /\ Deadline)'
  BY LoopsStep, DeadlineStep
<1> QED
  BY <1>1, <1>2, PoolInvariant, PTL DEF HeartbeatSpec

\* Every reachable state of the loops is well typed: above all a backoff stays
\* between a second and its cap, and a sleep below it (registerLoop).
THEOREM HeartbeatTypeCorrect == HeartbeatSpec => []HeartbeatTypeOK
<1>1. LoopsOK /\ Deadline => HeartbeatTypeOK
  BY ReapEveryAssumption DEF LoopsOK, Deadline, HeartbeatTypeOK, Sleeps, Backoffs
<1> QED
  BY <1>1, HeartbeatInvariant, PTL

\* For any timeout and any reaper period, across crashes of the orchestrator
\* and faults of the links, a worker gone silent is out of the pool within the
\* two together (reapPush, pushReaperLoop).
THEOREM SilentAlwaysLeave == HeartbeatSpec => []SilentWorkerLeaves
<1>1. Deadline => SilentWorkerLeaves
  <2> SUFFICES ASSUME Deadline, NEW u \in Urls PROVE overdue[u] <= ReapEvery
    BY DEF SilentWorkerLeaves
  <2>1. overdue[u] \in Nat /\ reapIn \in Nat /\ overdue[u] + reapIn <= ReapEvery
    BY DEF Deadline
  <2> QED
    BY <2>1, ReapEveryAssumption
<1> QED
  BY <1>1, HeartbeatInvariant, PTL

-----------------------------------------------------------------------------
(***************************************************************************)
(* One lost heartbeat.  A worker whose POSTs take no time sleeps one       *)
(* interval after a success and, the backoff being reset, one more after   *)
(* the first failure: its silence and what is left of its sleep are two    *)
(* intervals at most until it has lost two in a row.                       *)
(***************************************************************************)
Heard ==
  /\ losses \in [Urls -> 0..2]
  /\ \A u \in Urls \ slow : "push" \in sources[u] /\ losses[u] <= 1 =>
       /\ losses[u] = 0 => backoff[u] = 1
       /\ silence[u] + sleep[u] <= losses[u] + 1

LEMMA HeardInit == HeartbeatInit => Heard
BY DEF HeartbeatInit, Init, Heard

LEMMA HeardKept ==
  ASSUME Heard, UNCHANGED << losses, slow, silence, sleep, backoff >>,
         \A u \in Urls : "push" \in sources'[u] => "push" \in sources[u]
  PROVE  Heard'
BY DEF Heard

\* Time passes only for a worker that sleeps, or makes it slow.
LEMMA TickKeepsHeard ==
  ASSUME IInv, LoopsOK, Heard, Tick
  PROVE  Heard'
<1>1. /\ losses' = losses /\ backoff' = backoff /\ sources' = sources
      /\ slow' = slow \cup posting
      /\ silence' = [u \in Urls |-> IF silence[u] = Stale THEN Stale ELSE silence[u] + 1]
      /\ sleep' = [u \in Urls |-> IF u \in posting THEN 0 ELSE sleep[u] - 1]
  BY DEF Tick, Age
<1>2. SUFFICES ASSUME NEW u \in Urls \ slow', "push" \in sources'[u], losses'[u] <= 1
               PROVE  /\ losses'[u] = 0 => backoff'[u] = 1
                      /\ silence'[u] + sleep'[u] <= losses'[u] + 1
  BY <1>1 DEF Heard
<1>3. u \in Urls \ slow /\ u \notin posting
  BY <1>1, <1>2
<1>4. silence[u] \in Nat /\ sleep[u] \in Nat /\ losses[u] \in Nat
  BY TimeoutAssumption, MaxBackoffAssumption DEF IInv, TypeOK, Stale, LoopsOK, Sleeps, Heard
<1>5. silence'[u] <= silence[u] + 1 /\ silence'[u] \in Nat
  BY <1>1, <1>4
<1>6. sleep'[u] = sleep[u] - 1
  BY <1>1, <1>3
<1>7. /\ losses[u] = 0 => backoff[u] = 1
      /\ silence[u] + sleep[u] <= losses[u] + 1
  BY <1>1, <1>2, <1>3 DEF Heard
<1> QED
  BY <1>1, <1>4, <1>5, <1>6, <1>7

LEMMA FailureKeepsHeard ==
  ASSUME IInv, LoopsOK, Heard, NEW u \in Urls, PostFails(u)
  PROVE  Heard'
<1> DEFINE lost == IF losses[u] = 2 THEN 2 ELSE losses[u] + 1
<1>1. /\ losses' = [losses EXCEPT ![u] = lost]
      /\ sleep' = [sleep EXCEPT ![u] = backoff[u]]
      /\ slow' = slow /\ sources' = sources /\ silence' = silence
      /\ \A v \in Urls \ {u} : backoff'[v] = backoff[v]
  BY DEF PostFails, vars, LoopsOK
<1>2. losses[u] \in 0..2 /\ lost \in 1..2 /\ losses' \in [Urls -> 0..2]
  <2>1. losses[u] \in 0..2
    BY DEF Heard
  <2>2. lost \in 1..2
    BY <2>1
  <2> HIDE DEF lost
  <2> QED
    BY <1>1, <2>1, <2>2 DEF Heard
<1>3. SUFFICES ASSUME NEW v \in Urls \ slow, "push" \in sources[v], losses'[v] <= 1
               PROVE  /\ losses'[v] = 0 => backoff'[v] = 1
                      /\ silence[v] + sleep'[v] <= losses'[v] + 1
  BY <1>1, <1>2 DEF Heard
<1>4. CASE v # u
  <2>1. losses'[v] = losses[v] /\ sleep'[v] = sleep[v] /\ backoff'[v] = backoff[v]
    BY <1>1, <1>4 DEF Heard, LoopsOK
  <2> QED
    BY <1>3, <2>1 DEF Heard
<1>5. CASE v = u
  <2>1. losses'[u] = lost /\ sleep'[u] = backoff[u]
    BY <1>1 DEF Heard, LoopsOK
  <2>2. losses[u] = 0 /\ lost = 1
    BY <1>2, <1>3, <1>5, <2>1
  <2>3. backoff[u] = 1 /\ silence[u] + sleep[u] <= 1
    BY <1>3, <1>5, <2>2 DEF Heard
  <2>4. silence[u] \in Nat /\ sleep[u] \in Nat
    BY TimeoutAssumption, MaxBackoffAssumption DEF IInv, TypeOK, Stale, LoopsOK, Sleeps
  <2> HIDE DEF lost
  <2> QED
    BY <1>5, <2>1, <2>2, <2>3, <2>4
<1> QED
  BY <1>4, <1>5

LEMMA SuccessKeepsHeard ==
  ASSUME IInv, LoopsOK, Heard, NEW u \in Urls, PostSucceeds(u)
  PROVE  Heard'
<1>1. /\ losses' = [losses EXCEPT ![u] = 0]
      /\ sleep' = [sleep EXCEPT ![u] = 1]
      /\ backoff' = [backoff EXCEPT ![u] = 1]
      /\ silence' = [silence EXCEPT ![u] = 0]
      /\ slow' = slow
  BY DEF PostSucceeds, register
<1>2. /\ losses'[u] = 0 /\ sleep'[u] = 1 /\ backoff'[u] = 1 /\ silence'[u] = 0
      /\ losses' \in [Urls -> 0..2]
  BY <1>1 DEF Heard, LoopsOK, IInv, TypeOK
<1>3. ASSUME NEW v \in Urls \ {u}
      PROVE  /\ losses'[v] = losses[v] /\ sleep'[v] = sleep[v] /\ backoff'[v] = backoff[v]
             /\ silence'[v] = silence[v] /\ sources'[v] = sources[v]
  BY <1>1 DEF PostSucceeds, register, Vouch, Heard, LoopsOK, IInv, TypeOK
<1> QED
  BY <1>1, <1>2, <1>3 DEF Heard

LEMMA HeardStep ==
  ASSUME IInv, LoopsOK, Heard, [HeartbeatNext]_allVars
  PROVE  Heard'
<1>1. CASE Boot
  <2>1. sources' = [u \in Urls |-> IF u \in List THEN sources[u] \cup {"list"} ELSE sources[u]]
    BY <1>1 DEF Boot, loadList, Vouch
  <2> QED
    BY <1>1, <2>1, HeardKept DEF Boot, loadList
<1>2. ASSUME NEW u \in Urls, Post(u)
      PROVE  Heard'
  BY <1>2, HeardKept DEF Post, vars
<1>3. ASSUME NEW u \in Urls, LinkChanges(u)
      PROVE  Heard'
  BY <1>3, HeardKept DEF LinkChanges
<1>4. CASE Reap
  <2>1. UNCHANGED << losses, slow, silence, sleep, backoff >>
    BY <1>4 DEF Reap, reapPush
  <2>2. \A u \in Urls : sources'[u] \in {sources[u], sources[u] \ {"push"}}
    BY <1>4 DEF Reap, reapPush
  <2> QED
    BY <2>1, <2>2, HeardKept
<1>5. CASE Down
  <2>1. losses' = losses /\ sources' = [u \in Urls |-> {}]
    BY <1>5 DEF Down, Crash
  <2> QED
    BY <2>1 DEF Heard
<1>6. CASE UNCHANGED allVars
  BY <1>6, HeardKept DEF allVars, loopVars, vars
<1> QED
  BY <1>1, <1>2, <1>3, <1>4, <1>5, <1>6, TickKeepsHeard, FailureKeepsHeard, SuccessKeepsHeard
     DEF HeartbeatNext

\* What the property asks of one step: only the reaper takes the PUSH source
\* of a worker away, and only from one silent beyond the timeout.
LEMMA LossStep ==
  ASSUME IInv, LoopsOK, Heard, [HeartbeatNext]_allVars, Timeout >= 2,
         NEW u \in Urls \ slow', "push" \in sources[u], losses'[u] <= 1, up'
  PROVE  "push" \in sources'[u]
<1>1. CASE Boot
  BY <1>1 DEF Boot, loadList, Vouch
<1>2. ASSUME NEW v \in Urls, Post(v) \/ PostFails(v) \/ LinkChanges(v)
      PROVE  sources' = sources
  BY <1>2 DEF Post, PostFails, LinkChanges, vars
<1>3. ASSUME NEW v \in Urls, PostSucceeds(v)
      PROVE  "push" \in sources'[u]
  BY <1>3 DEF PostSucceeds, register, Vouch
<1>4. CASE Reap
  <2>1. losses' = losses /\ slow' = slow
    BY <1>4 DEF Reap
  <2>2. silence[u] + sleep[u] <= losses[u] + 1 /\ losses[u] <= 1
    BY <2>1 DEF Heard
  <2>3. silence[u] \in Nat /\ sleep[u] \in Nat /\ losses[u] \in Nat
    BY TimeoutAssumption, MaxBackoffAssumption DEF IInv, TypeOK, Stale, LoopsOK, Sleeps, Heard
  <2>4. ~(silence[u] > Timeout)
    BY <2>2, <2>3, TimeoutAssumption
  <2>5. u \notin {v \in workers : "push" \in sources[v] /\ silence[v] > Timeout}
    BY <2>4
  <2> QED
    BY <1>4, <2>5 DEF Reap, reapPush
<1>5. CASE Tick
  BY <1>5 DEF Tick, Age
<1>6. CASE Down
  BY <1>6 DEF Down, Crash
<1>7. CASE UNCHANGED allVars
  BY <1>7 DEF allVars, vars
<1> QED
  BY <1>1, <1>2, <1>3, <1>4, <1>5, <1>6, <1>7 DEF HeartbeatNext

\* Where the timeout is two heartbeats or more (the default is three), one
\* lost POST in a row never costs a worker its place, whatever the orchestrator,
\* the links and the other workers do (registerLoop, reapPush).
THEOREM OneLossNeverReaped ==
  ASSUME Timeout >= 2
  PROVE  HeartbeatSpec => OneLossTolerated
<1>1. HeartbeatInit => Heard
  BY HeardInit
<1>2. IInv /\ LoopsOK /\ Deadline /\ Heard /\ [HeartbeatNext]_allVars => Heard'
  BY HeardStep
<1>3. IInv /\ LoopsOK /\ Heard /\ [HeartbeatNext]_allVars =>
        \A u \in Urls \ slow' :
          "push" \in sources[u] /\ losses'[u] <= 1 /\ up' => "push" \in sources'[u]
  BY LossStep
<1> QED
  BY <1>1, <1>2, <1>3, HeartbeatInvariant, PTL DEF HeartbeatSpec, OneLossTolerated

=============================================================================
