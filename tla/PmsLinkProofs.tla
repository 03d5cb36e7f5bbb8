---------------------------- MODULE PmsLinkProofs ----------------------------
(***************************************************************************)
(* Proofs about PassGate and PmsLink, for any number of sessions and keys, *)
(* any TTL and any timeout.                                                *)
(***************************************************************************)
EXTENDS PmsLink, TLAPS

(***************************************************************************)
(* Ages.                                                                   *)
(***************************************************************************)
\* An age that is capped stays below its cap.
LEMMA OlderBounded ==
  ASSUME NEW limit \in Nat, NEW n \in 0..limit
  PROVE  Older(n, limit) \in 0..limit
BY DEF Older

\* Two ages apart by at most Timeout stay so, as their caps are Timeout apart.
LEMMA OlderApart ==
  ASSUME NEW a \in 0..passCacheTTL, NEW g \in 0..(Window + 1), g <= a + Timeout
  PROVE  Older(g, Window + 1) <= Older(a, passCacheTTL) + Timeout
BY TTLAssumption, TimeoutAssumption DEF Older, Window

\* An age that has not reached its cap counts every tick.
LEMMA OlderAtMostNext ==
  ASSUME NEW limit \in Nat, NEW g \in 0..limit
  PROVE  Older(g, limit) <= g + 1
BY DEF Older

LEMMA WindowNat == Window \in Nat /\ Window + 1 \in Nat /\ Timeout <= Window
BY TTLAssumption, TimeoutAssumption DEF Window

-----------------------------------------------------------------------------
(***************************************************************************)
(* Type correctness.                                                       *)
(***************************************************************************)
Ages == [granted : 0..Window + 1, denied : 0..Window + 1]
Entries == [active : BOOLEAN, age : 0..passCacheTTL]
Places == {Nowhere} \cup Arrived \cup Probing \cup Decided

CacheOK == DOMAIN cache \subseteq Keys /\ cache \in [DOMAIN cache -> Entries]
CheckOK == check \in [Sessions -> Places]
SinceOK == since \in [Keys -> Ages]

LEMMA TypeParts == GateTypeOK <=> CacheOK /\ CheckOK /\ SinceOK
BY DEF GateTypeOK, CacheOK, CheckOK, SinceOK, Ages, Entries, Places

\* Only a probe's field asked and its answer set a probe apart.
LEMMA ProbeFields ==
  ASSUME NEW p \in Places, p.at = "probing"
  PROVE  p \in Probing
BY DEF Places, Nowhere, Arrived, Probing, Decided

LEMMA ArrivedFields ==
  ASSUME NEW p \in Places, p.at = "arrived"
  PROVE  p \in Arrived
BY DEF Places, Nowhere, Arrived, Probing, Decided

LEMMA InitTypeOK == PmsInit /\ GateInit => GateTypeOK
<1> SUFFICES ASSUME PmsInit, GateInit PROVE CacheOK /\ CheckOK /\ SinceOK
  BY TypeParts
<1>1. CacheOK
  BY DEF GateInit, CacheOK
<1>2. CheckOK
  BY DEF GateInit, CheckOK, Places
<1>3. SinceOK
  <2>1. 0 \in 0..Window + 1 /\ Window + 1 \in 0..Window + 1
    BY WindowNat
  <2> QED
    BY <2>1 DEF GateInit, SinceOK, Ages
<1> QED
  BY <1>1, <1>2, <1>3

\* A step of one session keeps the shapes, if its own place has one.
LEMMA DecideKeepsShape ==
  ASSUME CheckOK, NEW s \in Sessions, NEW b \in BOOLEAN, Decide(s, b)
  PROVE  CheckOK'
BY DEF CheckOK, Decide, Places, Decided

LEMMA PutKeepsShape ==
  ASSUME CacheOK, NEW k \in Keys, NEW b \in BOOLEAN, cache' = Put(k, b)
  PROVE  CacheOK'
<1>1. 0 \in 0..passCacheTTL
  BY TTLAssumption
<1>2. [active |-> b, age |-> 0] \in Entries
  BY <1>1 DEF Entries
<1> QED
  BY <1>2 DEF CacheOK, Put

LEMMA ArrivesKeepsType ==
  ASSUME GateTypeOK, NEW s \in Sessions, Arrives(s)
  PROVE  GateTypeOK'
<1>1. CacheOK /\ CheckOK /\ SinceOK
  BY TypeParts
<1>2. CacheOK' /\ SinceOK'
  BY <1>1 DEF Arrives, CacheOK, SinceOK
<1>3. CheckOK'
  BY <1>1 DEF Arrives, CheckOK, Places
<1> QED
  BY <1>2, <1>3, TypeParts, PTL

LEMMA ChecksKeepType ==
  ASSUME GateTypeOK, NEW s \in Sessions, Checks(s)
  PROVE  GateTypeOK'
<1>1. CacheOK /\ CheckOK /\ SinceOK
  BY TypeParts
<1>2. check[s] \in Places
  BY <1>1 DEF CheckOK
<1> SUFFICES CacheOK' /\ CheckOK' /\ SinceOK'
  BY TypeParts, PTL
<1>3. CASE FlagDecides(s)
  <2>1. CacheOK' /\ SinceOK'
    BY <1>1, <1>3 DEF FlagDecides, CacheOK, SinceOK
  <2>2. \E b \in BOOLEAN : Decide(s, b)
    BY <1>3 DEF FlagDecides
  <2> QED
    BY <1>1, <2>1, <2>2, DecideKeepsShape
<1>4. CASE CacheDecides(s)
  <2>1. CacheOK' /\ SinceOK'
    BY <1>1, <1>4 DEF CacheDecides, CacheOK, SinceOK
  <2>2. cache[check[s].key].active \in BOOLEAN
    BY <1>1, <1>4 DEF CacheDecides, CacheOK, Fresh, Entries
  <2> QED
    BY <1>1, <1>4, <2>1, <2>2, DecideKeepsShape DEF CacheDecides
<1>5. CASE ProbeSent(s)
  <2>1. CacheOK' /\ SinceOK'
    BY <1>1, <1>5 DEF ProbeSent, CacheOK, SinceOK
  <2>2. [at |-> "probing", key |-> check[s].key, asked |-> 0, answer |-> "none"] \in Places
    BY <1>5, TimeoutAssumption DEF ProbeSent, Places, Probing
  <2>3. CheckOK'
    BY <1>1, <1>5, <2>2 DEF ProbeSent, CheckOK
  <2> QED
    BY <2>1, <2>3
<1>6. CASE ProbeAnswered(s)
  <2>1. CacheOK' /\ SinceOK'
    BY <1>1, <1>6 DEF ProbeAnswered, CacheOK, SinceOK
  <2>2. check[s] \in Probing
    BY <1>2, <1>6, ProbeFields DEF ProbeAnswered
  <2>3. \A a \in {"no", "yes"} : [check[s] EXCEPT !.answer = a] \in Places
    BY <2>2 DEF Places, Probing
  <2>4. CheckOK'
    BY <1>1, <1>6, <2>3 DEF ProbeAnswered, CheckOK
  <2> QED
    BY <2>1, <2>4
<1>7. CASE ProbeFails(s)
  <2>1. CacheOK' /\ SinceOK'
    BY <1>1, <1>7 DEF ProbeFails, CacheOK, SinceOK
  <2>2. check[s] \in Probing
    BY <1>2, <1>7, ProbeFields DEF ProbeFails
  <2>3. [check[s] EXCEPT !.answer = "failed"] \in Places
    BY <2>2 DEF Places, Probing
  <2>4. CheckOK'
    BY <1>1, <1>7, <2>3 DEF ProbeFails, CheckOK
  <2> QED
    BY <2>1, <2>4
<1>8. CASE ProbeDecides(s)
  <2>1. check[s] \in Probing
    BY <1>2, <1>8, ProbeFields DEF ProbeDecides
  <2>2. check[s].key \in Keys /\ (check[s].answer = "yes") \in BOOLEAN
    BY <2>1 DEF Probing
  <2>3. CacheOK'
    BY <1>1, <1>8, <2>2, PutKeepsShape DEF ProbeDecides, Stored, CacheOK
  <2>4. CheckOK'
    BY <1>1, <1>8, <2>2, DecideKeepsShape DEF ProbeDecides
  <2>5. SinceOK'
    BY <1>1, <1>8 DEF ProbeDecides, SinceOK
  <2> QED
    BY <2>3, <2>4, <2>5
<1> QED
  BY <1>3, <1>4, <1>5, <1>6, <1>7, <1>8 DEF Checks

LEMMA PmsMovesKeepType ==
  ASSUME GateTypeOK, PmsMoves
  PROVE  GateTypeOK'
<1>1. CacheOK /\ CheckOK /\ SinceOK
  BY TypeParts
<1>2. CacheOK' /\ CheckOK'
  BY <1>1 DEF PmsMoves, CacheOK, CheckOK
<1>3. 0 \in 0..Window + 1
  BY WindowNat
<1>4. SinceOK'
  BY <1>1, <1>3 DEF PmsMoves, Seen, SinceOK, Ages
<1> QED
  BY <1>2, <1>4, TypeParts, PTL

LEMMA TickKeepsType ==
  ASSUME GateTypeOK, Tick
  PROVE  GateTypeOK'
<1>1. CacheOK /\ CheckOK /\ SinceOK
  BY TypeParts
<1>2. CacheOK'
  <2>1. passCacheTTL \in Nat
    BY TTLAssumption
  <2>2. ASSUME NEW k \in DOMAIN cache
        PROVE  [cache[k] EXCEPT !.age = Older(@, passCacheTTL)] \in Entries
    <3>1. cache[k] \in Entries
      BY <1>1 DEF CacheOK
    <3>2. Older(cache[k].age, passCacheTTL) \in 0..passCacheTTL
      BY <2>1, <3>1, OlderBounded DEF Entries
    <3> QED
      BY <3>1, <3>2 DEF Entries
  <2> QED
    BY <1>1, <2>2 DEF Tick, CacheOK
<1>3. CheckOK'
  <2>1. ASSUME NEW s \in Sessions, check[s].at = "probing"
        PROVE  [check[s] EXCEPT !.asked = @ + 1] \in Places
    <3>1. check[s] \in Probing
      BY <1>1, <2>1, ProbeFields DEF CheckOK
    <3>2. check[s].asked < Timeout
      BY <2>1 DEF Tick, Patience
    <3>3. check[s].asked + 1 \in 0..Timeout
      BY <3>1, <3>2, TimeoutAssumption DEF Probing
    <3>4. [check[s] EXCEPT !.asked = @ + 1] \in Probing
      BY <3>1, <3>3 DEF Probing
    <3> QED
      BY <3>4 DEF Places
  <2>2. check' \in [Sessions -> Places]
    BY <1>1, <2>1 DEF Tick, CheckOK
  <2> QED
    BY <2>2 DEF CheckOK
<1>4. SinceOK'
  <2>1. 0 \in 0..Window + 1
    BY WindowNat
  <2>2. ASSUME NEW k \in Keys
        PROVE  /\ Older(since[k].granted, Window + 1) \in 0..Window + 1
               /\ Older(since[k].denied, Window + 1) \in 0..Window + 1
    BY <1>1, WindowNat, OlderBounded DEF SinceOK, Ages
  <2> QED
    BY <2>1, <2>2 DEF Tick, SinceOK, Ages
<1> QED
  BY <1>2, <1>3, <1>4, TypeParts, PTL

\* The type invariant holds of every reachable state of the gate.
THEOREM GateTypeCorrect == GateSpec => []GateTypeOK
<1>1. PmsInit /\ GateInit => GateTypeOK
  BY InitTypeOK
<1>2. GateTypeOK /\ [GateNext]_gateVars => GateTypeOK'
  <2> SUFFICES ASSUME GateTypeOK, [GateNext]_gateVars PROVE GateTypeOK'
    OBVIOUS
  <2>1. CASE UNCHANGED gateVars
    BY <2>1 DEF gateVars, gate, GateTypeOK
  <2>2. CASE GateNext
    BY <2>2, ArrivesKeepsType, ChecksKeepType, PmsMovesKeepType, TickKeepsType DEF GateNext
  <2> QED
    BY <2>1, <2>2
<1> QED
  BY <1>1, <1>2, PTL DEF GateSpec

-----------------------------------------------------------------------------
(***************************************************************************)
(* What the worker holds is backed by what PMS said.                       *)
(*                                                                         *)
(* The properties speak of one step, a decision. What makes them true is   *)
(* an invariant: an entry's age and a probe's are never more than the      *)
(* probe's timeout ahead of the answer they stand for, whichever probes    *)
(* overlapped.                                                             *)
(***************************************************************************)
\* What PMS says now, it has just said.
Current ==
  \A k \in Keys : /\ Grants(k) => since[k].granted = 0
                  /\ Denies(k) => since[k].denied = 0

CacheBacked ==
  \A k \in DOMAIN cache :
    /\ cache[k].active => since[k].granted <= cache[k].age + Timeout
    /\ ~ cache[k].active => since[k].denied <= cache[k].age + Timeout

ProbesBacked ==
  \A s \in Sessions :
    /\ check[s].at = "probing" /\ check[s].answer = "yes"
         => since[check[s].key].granted <= check[s].asked
    /\ check[s].at = "probing" /\ check[s].answer = "no"
         => since[check[s].key].denied <= check[s].asked

Backed == GateTypeOK /\ Current /\ CacheBacked /\ ProbesBacked

LEMMA InitBacked == PmsInit /\ GateInit => Backed
<1> SUFFICES ASSUME PmsInit, GateInit PROVE Backed
  OBVIOUS
<1>1. GateTypeOK
  BY InitTypeOK
<1>2. Current
  BY DEF GateInit, Current
<1>3. CacheBacked
  <2>1. cache = << >>
    BY DEF GateInit
  <2>2. DOMAIN cache = {}
    BY <2>1
  <2> QED
    BY <2>2 DEF CacheBacked
<1>4. ProbesBacked
  BY DEF GateInit, ProbesBacked, Nowhere
<1> QED
  BY <1>1, <1>2, <1>3, <1>4 DEF Backed

\* A step that leaves PMS and the ages alone leaves alone what speaks of them.
LEMMA StillCurrent ==
  ASSUME Current, UNCHANGED << pms, active, since >>
  PROVE  Current'
BY DEF Current, Grants, Denies

LEMMA CacheStillBacked ==
  ASSUME CacheBacked, UNCHANGED << cache, since >>
  PROVE  CacheBacked'
BY DEF CacheBacked

\* A session whose place is no probe's with an answer breaks nothing.
LEMMA ProbesStillBacked ==
  ASSUME CheckOK, ProbesBacked, UNCHANGED since, NEW s \in Sessions, NEW p,
         check' = [check EXCEPT ![s] = p],
         p.at = "probing" => p.answer \notin {"yes", "no"}
  PROVE  ProbesBacked'
BY DEF CheckOK, ProbesBacked

LEMMA DecideKeepsProbes ==
  ASSUME CheckOK, ProbesBacked, UNCHANGED since, NEW s \in Sessions, NEW b, Decide(s, b)
  PROVE  ProbesBacked'
BY ProbesStillBacked DEF Decide

LEMMA ArrivesKeepsBacked ==
  ASSUME Backed, NEW s \in Sessions, Arrives(s)
  PROVE  Current' /\ CacheBacked' /\ ProbesBacked'
<1>1. Current' /\ CacheBacked'
  BY StillCurrent, CacheStillBacked DEF Backed, Arrives
<1>2. PICK a \in Arrived : check' = [check EXCEPT ![s] = a]
  BY DEF Arrives
<1>3. ProbesBacked'
  BY <1>2, TypeParts, ProbesStillBacked DEF Backed, Arrives, Arrived
<1> QED
  BY <1>1, <1>3

LEMMA ChecksKeepBacked ==
  ASSUME Backed, NEW s \in Sessions, Checks(s)
  PROVE  Current' /\ CacheBacked' /\ ProbesBacked'
<1>1. CacheOK /\ CheckOK /\ SinceOK /\ Current /\ CacheBacked /\ ProbesBacked
  BY TypeParts DEF Backed
<1>2. check[s] \in Places
  BY <1>1 DEF CheckOK
<1>3. CASE FlagDecides(s)
  <2>1. Current' /\ CacheBacked'
    BY <1>1, <1>3, StillCurrent, CacheStillBacked DEF FlagDecides
  <2>2. ProbesBacked'
    BY <1>1, <1>3, DecideKeepsProbes DEF FlagDecides
  <2> QED
    BY <2>1, <2>2
<1>4. CASE CacheDecides(s)
  <2>1. Current' /\ CacheBacked'
    BY <1>1, <1>4, StillCurrent, CacheStillBacked DEF CacheDecides
  <2>2. ProbesBacked'
    BY <1>1, <1>4, DecideKeepsProbes DEF CacheDecides
  <2> QED
    BY <2>1, <2>2
<1>5. CASE ProbeSent(s)
  <2>1. Current' /\ CacheBacked'
    BY <1>1, <1>5, StillCurrent, CacheStillBacked DEF ProbeSent
  <2>2. ProbesBacked'
    BY <1>1, <1>5, ProbesStillBacked DEF ProbeSent
  <2> QED
    BY <2>1, <2>2
<1>6. CASE ProbeAnswered(s)
  <2>1. Current' /\ CacheBacked'
    BY <1>1, <1>6, StillCurrent, CacheStillBacked DEF ProbeAnswered
  <2>2. check[s] \in Probing
    BY <1>2, <1>6, ProbeFields DEF ProbeAnswered
  <2> DEFINE k == check[s].key
             a == IF Denies(k) THEN "no" ELSE "yes"
  <2>3. k \in Keys /\ 0 <= check[s].asked
    BY <2>2, TimeoutAssumption DEF Probing
  <2>4. check'[s] = [check[s] EXCEPT !.answer = a]
    BY <1>1, <1>6 DEF ProbeAnswered, CheckOK
  <2>5. check'[s].answer = a /\ check'[s].key = k /\ check'[s].asked = check[s].asked
    BY <2>2, <2>4 DEF Probing
  <2>6. a = "yes" => since[k].granted = 0
    BY <1>1, <2>3 DEF Current, Grants, Denies
  <2>7. a = "no" => since[k].denied = 0
    BY <1>1, <2>3 DEF Current
  <2>8. ASSUME NEW t \in Sessions, t # s
        PROVE  check'[t] = check[t]
    BY <1>1, <1>6, <2>8 DEF ProbeAnswered, CheckOK
  <2>9. since' = since
    BY <1>6 DEF ProbeAnswered
  <2>10. ProbesBacked'
    BY <1>1, <2>3, <2>5, <2>6, <2>7, <2>8, <2>9 DEF ProbesBacked
  <2> QED
    BY <2>1, <2>10
<1>7. CASE ProbeFails(s)
  <2>1. Current' /\ CacheBacked'
    BY <1>1, <1>7, StillCurrent, CacheStillBacked DEF ProbeFails
  <2>2. check[s] \in Probing
    BY <1>2, <1>7, ProbeFields DEF ProbeFails
  <2>3. [check[s] EXCEPT !.answer = "failed"].answer = "failed"
    BY <2>2 DEF Probing
  <2>4. ProbesBacked'
    BY <1>1, <1>7, <2>3, ProbesStillBacked DEF ProbeFails
  <2> QED
    BY <2>1, <2>4
<1>8. CASE ProbeDecides(s)
  <2>1. Current'
    BY <1>1, <1>8, StillCurrent DEF ProbeDecides
  <2>2. check[s] \in Probing
    BY <1>2, <1>8, ProbeFields DEF ProbeDecides
  <2>3. check[s].key \in Keys /\ check[s].asked <= Timeout /\ check[s].asked \in Nat
    BY <2>2, TimeoutAssumption DEF Probing
  <2>4. check[s].answer = "yes" => since[check[s].key].granted <= 0 + Timeout
    <3>1. since[check[s].key].granted \in Nat
      BY <1>1, <2>3, WindowNat DEF SinceOK, Ages
    <3> QED
      BY <1>1, <1>8, <2>3, <3>1, TimeoutAssumption DEF ProbesBacked, ProbeDecides
  <2>5. check[s].answer = "no" => since[check[s].key].denied <= 0 + Timeout
    <3>1. since[check[s].key].denied \in Nat
      BY <1>1, <2>3, WindowNat DEF SinceOK, Ages
    <3> QED
      BY <1>1, <1>8, <2>3, <3>1, TimeoutAssumption DEF ProbesBacked, ProbeDecides
  <2>6. check[s].answer \in {"yes", "no", "failed"}
    BY <2>2, <1>8 DEF Probing, ProbeDecides
  <2>7. since' = since
    BY <1>8 DEF ProbeDecides
  <2>8. CacheBacked'
    <3>1. CASE check[s].answer = "failed"
      BY <1>1, <1>8, <3>1, <2>7, CacheStillBacked DEF ProbeDecides, Stored
    <3>2. CASE check[s].answer # "failed"
      <4>1. cache' = Put(check[s].key, check[s].answer = "yes")
        BY <1>8, <3>2 DEF ProbeDecides, Stored
      <4> QED
        BY <1>1, <3>2, <4>1, <2>4, <2>5, <2>6, <2>7 DEF CacheBacked, Put
    <3> QED
      BY <3>1, <3>2
  <2>9. ProbesBacked'
    BY <1>1, <1>8, <2>7, DecideKeepsProbes DEF ProbeDecides
  <2> QED
    BY <2>1, <2>8, <2>9
<1> QED
  BY <1>3, <1>4, <1>5, <1>6, <1>7, <1>8 DEF Checks

LEMMA PmsMovesKeepBacked ==
  ASSUME Backed, PmsMoves
  PROVE  Current' /\ CacheBacked' /\ ProbesBacked'
<1>1. CacheOK /\ CheckOK /\ SinceOK /\ CacheBacked /\ ProbesBacked
  BY TypeParts DEF Backed
<1>2. Current'
  BY DEF PmsMoves, Seen, Current
<1>3. ASSUME NEW k \in Keys
      PROVE  since'[k].granted <= since[k].granted /\ since'[k].denied <= since[k].denied
  <2>1. since[k].granted \in Nat /\ since[k].denied \in Nat
    BY <1>1, WindowNat DEF SinceOK, Ages
  <2> QED
    BY <2>1 DEF PmsMoves, Seen
<1>4. ASSUME NEW k \in Keys
      PROVE  /\ since[k].granted \in Nat /\ since'[k].granted \in Nat
             /\ since[k].denied \in Nat /\ since'[k].denied \in Nat
  <2>1. since[k].granted \in Nat /\ since[k].denied \in Nat
    BY <1>1, WindowNat DEF SinceOK, Ages
  <2> QED
    BY <2>1 DEF PmsMoves, Seen
<1>5. CacheBacked'
  <2>1. cache' = cache /\ DOMAIN cache \subseteq Keys
    BY <1>1 DEF PmsMoves, CacheOK
  <2>2. ASSUME NEW k \in DOMAIN cache
        PROVE  cache[k].age + Timeout \in Int
    BY <1>1, TTLAssumption, TimeoutAssumption DEF CacheOK, Entries
  <2>3. ASSUME NEW k \in DOMAIN cache, cache[k].active
        PROVE  since'[k].granted <= cache[k].age + Timeout
    BY <1>1, <1>3, <1>4, <2>1, <2>2, <2>3 DEF CacheBacked
  <2>4. ASSUME NEW k \in DOMAIN cache, ~ cache[k].active
        PROVE  since'[k].denied <= cache[k].age + Timeout
    BY <1>1, <1>3, <1>4, <2>1, <2>2, <2>4 DEF CacheBacked
  <2> QED
    BY <2>1, <2>3, <2>4 DEF CacheBacked
<1>6. ProbesBacked'
  <2>1. check' = check
    BY DEF PmsMoves
  <2>2. ASSUME NEW s \in Sessions, check[s].at = "probing"
        PROVE  check[s].key \in Keys /\ check[s].asked \in Int
    <3>1. check[s] \in Probing
      BY <1>1, <2>2, ProbeFields DEF CheckOK
    <3> QED
      BY <3>1, TimeoutAssumption DEF Probing
  <2>3. ASSUME NEW s \in Sessions, check[s].at = "probing", check[s].answer = "yes"
        PROVE  since'[check[s].key].granted <= check[s].asked
    BY <1>1, <1>3, <1>4, <2>2, <2>3 DEF ProbesBacked
  <2>4. ASSUME NEW s \in Sessions, check[s].at = "probing", check[s].answer = "no"
        PROVE  since'[check[s].key].denied <= check[s].asked
    BY <1>1, <1>3, <1>4, <2>2, <2>4 DEF ProbesBacked
  <2> QED
    BY <2>1, <2>3, <2>4 DEF ProbesBacked
<1> QED
  BY <1>2, <1>5, <1>6

LEMMA TickKeepsBacked ==
  ASSUME Backed, Tick
  PROVE  Current' /\ CacheBacked' /\ ProbesBacked'
<1>1. CacheOK /\ CheckOK /\ SinceOK /\ Current /\ CacheBacked /\ ProbesBacked
  BY TypeParts DEF Backed
<1>2. ASSUME NEW k \in Keys
      PROVE  (Grants(k)' <=> Grants(k)) /\ (Denies(k)' <=> Denies(k))
  BY DEF Tick, Grants, Denies
<1>3. Current'
  BY <1>2 DEF Tick, Current
<1>4. ASSUME NEW k \in Keys
      PROVE  since[k].granted \in 0..(Window + 1) /\ since[k].denied \in 0..(Window + 1)
  BY <1>1 DEF SinceOK, Ages
<1>5. ASSUME NEW k \in Keys
      PROVE  /\ since'[k].granted \in {0, Older(since[k].granted, Window + 1)}
             /\ since'[k].denied \in {0, Older(since[k].denied, Window + 1)}
  BY DEF Tick
<1>6. CacheBacked'
  <2>1. DOMAIN cache' = DOMAIN cache /\ DOMAIN cache \subseteq Keys
    BY <1>1 DEF Tick, CacheOK
  <2>2. ASSUME NEW k \in DOMAIN cache
        PROVE  /\ cache'[k].active = cache[k].active
               /\ cache'[k].age = Older(cache[k].age, passCacheTTL)
               /\ cache[k].age \in 0..passCacheTTL
    BY <1>1 DEF Tick, CacheOK, Entries
  <2>3. ASSUME NEW k \in DOMAIN cache
        PROVE  0 <= Older(cache[k].age, passCacheTTL) + Timeout
    <3>1. Older(cache[k].age, passCacheTTL) \in 0..passCacheTTL
      BY <2>2, OlderBounded, TTLAssumption
    <3> QED
      BY <3>1, TTLAssumption, TimeoutAssumption
  <2>4. ASSUME NEW k \in DOMAIN cache, cache[k].active
        PROVE  since'[k].granted <= Older(cache[k].age, passCacheTTL) + Timeout
    <3>1. since[k].granted <= cache[k].age + Timeout
      BY <1>1, <2>4 DEF CacheBacked
    <3>2. Older(since[k].granted, Window + 1) <= Older(cache[k].age, passCacheTTL) + Timeout
      BY <1>4, <2>1, <2>2, <3>1, OlderApart
    <3> QED
      BY <1>5, <2>1, <2>3, <3>2
  <2>5. ASSUME NEW k \in DOMAIN cache, ~ cache[k].active
        PROVE  since'[k].denied <= Older(cache[k].age, passCacheTTL) + Timeout
    <3>1. since[k].denied <= cache[k].age + Timeout
      BY <1>1, <2>5 DEF CacheBacked
    <3>2. Older(since[k].denied, Window + 1) <= Older(cache[k].age, passCacheTTL) + Timeout
      BY <1>4, <2>1, <2>2, <3>1, OlderApart
    <3> QED
      BY <1>5, <2>1, <2>3, <3>2
  <2> QED
    BY <2>1, <2>2, <2>4, <2>5 DEF CacheBacked
<1>7. ASSUME NEW k \in Keys
      PROVE  /\ since'[k].granted <= since[k].granted + 1
             /\ since[k].granted \in Nat /\ since'[k].granted \in Nat
             /\ since'[k].denied <= since[k].denied + 1
             /\ since[k].denied \in Nat /\ since'[k].denied \in Nat
  <2>1. ASSUME NEW g \in 0..(Window + 1), NEW h \in {0, Older(g, Window + 1)}
        PROVE  g \in Nat /\ h \in Nat /\ h <= g + 1
    BY WindowNat DEF Older
  <2> QED
    BY <1>4, <1>5, <2>1
<1>8. ProbesBacked'
  <2>1. ASSUME NEW s \in Sessions, check'[s].at = "probing"
        PROVE  /\ check[s] \in Probing
               /\ check'[s] = [check[s] EXCEPT !.asked = @ + 1]
    <3>1. check[s].at = "probing"
      BY <1>1, <2>1 DEF Tick, CheckOK
    <3> QED
      BY <1>1, <3>1, ProbeFields DEF Tick, CheckOK
  <2>2. ASSUME NEW s \in Sessions, check'[s].at = "probing"
        PROVE  /\ check[s].at = "probing"
               /\ check'[s].key = check[s].key /\ check[s].key \in Keys
               /\ check'[s].answer = check[s].answer
               /\ check'[s].asked = check[s].asked + 1 /\ check[s].asked \in Nat
    <3>1. check[s] \in Probing
      BY <2>1, <2>2
    <3>2. check'[s] = [check[s] EXCEPT !.asked = @ + 1]
      BY <2>1, <2>2
    <3>3. check[s].at = "probing" /\ check[s].key \in Keys /\ check[s].asked \in 0..Timeout
      BY <3>1 DEF Probing
    <3>4. /\ check'[s].key = check[s].key
          /\ check'[s].answer = check[s].answer
          /\ check'[s].asked = check[s].asked + 1
      BY <3>1, <3>2 DEF Probing
    <3> QED
      BY <3>3, <3>4, TimeoutAssumption
  <2>3. ASSUME NEW s \in Sessions, check'[s].at = "probing", check[s].answer = "yes"
        PROVE  since'[check[s].key].granted <= check[s].asked + 1
    <3> DEFINE k == check[s].key
    <3>1. k \in Keys /\ check[s].asked \in Nat
      BY <2>2, <2>3
    <3>2. since[k].granted <= check[s].asked
      BY <1>1, <2>2, <2>3 DEF ProbesBacked
    <3>3. /\ since'[k].granted <= since[k].granted + 1
          /\ since[k].granted \in Nat /\ since'[k].granted \in Nat
      BY <1>7, <3>1
    <3> HIDE DEF k
    <3>4. since'[k].granted <= check[s].asked + 1
      BY <3>1, <3>2, <3>3
    <3> QED
      BY <3>4 DEF k
  <2>4. ASSUME NEW s \in Sessions, check'[s].at = "probing", check[s].answer = "no"
        PROVE  since'[check[s].key].denied <= check[s].asked + 1
    <3> DEFINE k == check[s].key
    <3>1. k \in Keys /\ check[s].asked \in Nat
      BY <2>2, <2>4
    <3>2. since[k].denied <= check[s].asked
      BY <1>1, <2>2, <2>4 DEF ProbesBacked
    <3>3. /\ since'[k].denied <= since[k].denied + 1
          /\ since[k].denied \in Nat /\ since'[k].denied \in Nat
      BY <1>7, <3>1
    <3> HIDE DEF k
    <3>4. since'[k].denied <= check[s].asked + 1
      BY <3>1, <3>2, <3>3
    <3> QED
      BY <3>4 DEF k
  <2> QED
    BY <2>2, <2>3, <2>4 DEF ProbesBacked
<1> QED
  BY <1>3, <1>6, <1>8

LEMMA BackedInvariant == GateSpec => []Backed
<1>1. PmsInit /\ GateInit => Backed
  BY InitBacked
<1>2. Backed /\ [GateNext]_gateVars => Backed'
  <2> SUFFICES ASSUME Backed, [GateNext]_gateVars PROVE Backed'
    OBVIOUS
  <2>1. GateTypeOK'
    <3>1. CASE UNCHANGED gateVars
      BY <3>1 DEF gateVars, gate, GateTypeOK, Backed
    <3>2. CASE GateNext
      BY <3>2, ArrivesKeepsType, ChecksKeepType, PmsMovesKeepType, TickKeepsType
         DEF GateNext, Backed
    <3> QED
      BY <3>1, <3>2
  <2>2. Current' /\ CacheBacked' /\ ProbesBacked'
    <3>1. CASE UNCHANGED gateVars
      <4>1. Current'
        BY <3>1, StillCurrent DEF gateVars, gate, Backed
      <4>2. CacheBacked'
        BY <3>1, CacheStillBacked DEF gateVars, gate, Backed
      <4>3. ProbesBacked'
        BY <3>1 DEF gateVars, gate, Backed, ProbesBacked
      <4> QED
        BY <4>1, <4>2, <4>3
    <3>2. CASE GateNext
      BY <3>2, ArrivesKeepsBacked, ChecksKeepBacked, PmsMovesKeepBacked, TickKeepsBacked
         DEF GateNext
    <3> QED
      BY <3>1, <3>2
  <2> QED
    BY <2>1, <2>2 DEF Backed
<1> QED
  BY <1>1, <1>2, PTL DEF GateSpec

-----------------------------------------------------------------------------
(***************************************************************************)
(* What a decision rests on.                                               *)
(***************************************************************************)
\* A decision about s that is the worker's own is a hit of the cache or a probe's end.
LEMMA OwnRuling ==
  ASSUME GateTypeOK, GateNext, NEW s \in Sessions, Rules(s)
  PROVE  CacheDecides(s) \/ ProbeDecides(s)
<1>1. CheckOK
  BY TypeParts
<1>2. check[s] \in Places /\ check[s].at # "decided"
  BY <1>1 DEF Rules, CheckOK
<1>3. CASE \E t \in Sessions : Arrives(t) \/ Checks(t)
  <2>1. PICK t \in Sessions : Arrives(t) \/ Checks(t)
    BY <1>3
  <2>2. t = s
    BY <1>1, <1>2, <2>1
       DEF Rules, CheckOK, Arrives, Checks, FlagDecides, CacheDecides, ProbeSent,
           ProbeAnswered, ProbeFails, ProbeDecides, Decide
  <2>3. ~ Arrives(s)
    <3>1. ASSUME NEW a \in Arrived, check' = [check EXCEPT ![s] = a] PROVE check'[s].at = "arrived"
      BY <1>1, <3>1 DEF CheckOK, Arrived
    <3> QED
      BY <3>1 DEF Arrives, Rules
  <2>4. ~ FlagDecides(s)
    BY DEF FlagDecides, Rules
  <2>5. ~ ProbeSent(s)
    BY <1>1 DEF ProbeSent, Rules, CheckOK
  <2>6. ~ ProbeAnswered(s) /\ ~ ProbeFails(s)
    <3>1. ASSUME check[s] \in Probing, NEW a, check' = [check EXCEPT ![s].answer = a]
          PROVE  check'[s].at = "probing"
      BY <1>1, <3>1 DEF CheckOK, Probing
    <3>2. check[s].at = "probing" => check[s] \in Probing
      BY <1>2, ProbeFields
    <3> QED
      BY <3>1, <3>2 DEF ProbeAnswered, ProbeFails, Rules
  <2> QED
    BY <2>1, <2>2, <2>3, <2>4, <2>5, <2>6 DEF Checks
<1>4. CASE PmsMoves
  BY <1>2, <1>4 DEF PmsMoves, Rules
<1>5. CASE Tick
  <2>1. check'[s].at = check[s].at
    <3>1. CASE check[s].at = "probing"
      <4>1. check[s] \in Probing
        BY <1>2, <3>1, ProbeFields
      <4> QED
        BY <1>5, <3>1, <4>1 DEF Tick, Probing
    <3>2. CASE check[s].at # "probing"
      BY <1>5, <3>2 DEF Tick
    <3> QED
      BY <3>1, <3>2
  <2> QED
    BY <1>2, <2>1 DEF Rules
<1> QED
  BY <1>3, <1>4, <1>5 DEF GateNext

\* A hit is younger than the TTL, so what it stands for is inside the window.
LEMMA HitIsBacked ==
  ASSUME Backed, NEW s \in Sessions, CacheDecides(s)
  PROVE  /\ check'[s].allowed => since[check[s].key].granted <= Window
         /\ ~ check'[s].allowed => since[check[s].key].denied <= Window
<1> DEFINE k == check[s].key
<1>1. CacheOK /\ CheckOK /\ SinceOK /\ CacheBacked
  BY TypeParts DEF Backed
<1>2. k \in DOMAIN cache /\ k \in Keys /\ cache[k].age < passCacheTTL
  BY DEF CacheDecides, Fresh
<1>3. check'[s].allowed = cache[k].active
  BY <1>1 DEF CacheDecides, Decide, CheckOK
<1>4. cache[k].age \in Nat
  BY <1>1, <1>2, TTLAssumption DEF CacheOK, Entries
<1>5. since[k].granted \in Nat /\ since[k].denied \in Nat
  BY <1>1, <1>2, WindowNat DEF SinceOK, Ages
<1>6. cache[k].age + Timeout <= Window
  BY <1>2, <1>4, TTLAssumption, TimeoutAssumption DEF Window
<1>7. ASSUME NEW n \in Nat, n <= cache[k].age + Timeout
      PROVE  n <= Window
  BY <1>4, <1>6, <1>7, WindowNat, TimeoutAssumption
<1>8. cache[k].active => since[k].granted <= cache[k].age + Timeout
  BY <1>1, <1>2 DEF CacheBacked
<1>9. ~ cache[k].active => since[k].denied <= cache[k].age + Timeout
  BY <1>1, <1>2 DEF CacheBacked
<1> HIDE DEF k
<1>10. cache[k].active => since[k].granted <= Window
  BY <1>5, <1>7, <1>8
<1>11. ~ cache[k].active => since[k].denied <= Window
  BY <1>5, <1>7, <1>9
<1> QED
  BY <1>3, <1>10, <1>11 DEF k

\* A probe ends within its timeout, and what it was told is as old at most.
LEMMA ProbeIsBacked ==
  ASSUME Backed, NEW s \in Sessions, ProbeDecides(s)
  PROVE  /\ check'[s].allowed => since[check[s].key].granted <= Window
         /\ ~ check'[s].allowed => \/ check[s].at = "probing" /\ check[s].answer = "failed"
                                   \/ since[check[s].key].denied <= Window
<1> DEFINE k == check[s].key
<1>1. CacheOK /\ CheckOK /\ SinceOK /\ ProbesBacked
  BY TypeParts DEF Backed
<1>2. check[s].at = "probing" /\ check[s] \in Probing
  BY <1>1, ProbeFields DEF ProbeDecides, CheckOK
<1>3. k \in Keys /\ check[s].asked \in 0..Timeout /\ check[s].answer \in {"yes", "no", "failed"}
  BY <1>2 DEF Probing, ProbeDecides
<1>4. check'[s].allowed = (check[s].answer = "yes")
  BY <1>1 DEF ProbeDecides, Decide, CheckOK
<1>5. since[k].granted \in Nat /\ since[k].denied \in Nat
  BY <1>1, <1>3, WindowNat DEF SinceOK, Ages
<1>6. ASSUME NEW n \in Nat, n <= check[s].asked
      PROVE  n <= Window
  BY <1>3, <1>6, WindowNat, TimeoutAssumption
<1>7. check[s].answer = "yes" => since[k].granted <= check[s].asked
  BY <1>1, <1>2 DEF ProbesBacked
<1>8. check[s].answer = "no" => since[k].denied <= check[s].asked
  BY <1>1, <1>2 DEF ProbesBacked
<1> HIDE DEF k
<1>9. check[s].answer = "yes" => since[k].granted <= Window
  BY <1>5, <1>6, <1>7
<1>10. check[s].answer = "no" => since[k].denied <= Window
  BY <1>5, <1>6, <1>8
<1> QED
  BY <1>2, <1>3, <1>4, <1>9, <1>10 DEF k

\* Hardware is never forced on an answer of PMS's older than the TTL and the timeout.
THEOREM AllowAlwaysBacked == GateSpec => AllowIsBacked
<1>1. Backed /\ [GateNext]_gateVars
        => [\A s \in Sessions :
              Rules(s) /\ check'[s].allowed => since[check[s].key].granted <= Window]_gateVars
  BY OwnRuling, HitIsBacked, ProbeIsBacked DEF Backed
<1> QED
  BY <1>1, BackedInvariant, PTL DEF GateSpec, AllowIsBacked

\* Only its own failed probe, or a denial as recent as that, denies a session hardware.
THEOREM DenyAlwaysBacked == GateSpec => DenyIsBacked
<1>1. Backed /\ [GateNext]_gateVars
        => [\A s \in Sessions :
              Rules(s) /\ ~ check'[s].allowed =>
                \/ check[s].at = "probing" /\ check[s].answer = "failed"
                \/ since[check[s].key].denied <= Window]_gateVars
  BY OwnRuling, HitIsBacked, ProbeIsBacked DEF Backed
<1> QED
  BY <1>1, BackedInvariant, PTL DEF GateSpec, DenyIsBacked

\* Either way a ruling rests on what PMS said recently, or on the session's own
\* failed probe.
THEOREM RulingsAlwaysBacked == GateSpec => RulingIsBacked
<1>1. Backed /\ [GateNext]_gateVars
        => [\A s \in Sessions : Rules(s) =>
              IF check'[s].allowed
              THEN since[check[s].key].granted <= Window
              ELSE \/ check[s].at = "probing" /\ check[s].answer = "failed"
                   \/ since[check[s].key].denied <= Window]_gateVars
  BY OwnRuling, HitIsBacked, ProbeIsBacked DEF Backed
<1> QED
  BY <1>1, BackedInvariant, PTL DEF GateSpec, RulingIsBacked

-----------------------------------------------------------------------------
(***************************************************************************)
(* The gate beside the reports.                                            *)
(***************************************************************************)
\* A worker that also reports runs the gate unchanged: every step of the link is a
\* step of the gate, or leaves all that the gate sees alone.
THEOREM LinkRunsTheGate == LinkSpec => GateSpec
<1>1. LinkInit => PmsInit /\ GateInit
  BY DEF LinkInit
<1>2. [LinkNext]_linkVars => [GateNext]_gateVars
  <2> SUFFICES ASSUME [LinkNext]_linkVars PROVE [GateNext]_gateVars
    OBVIOUS
  <2>1. CASE UNCHANGED linkVars
    BY <2>1 DEF linkVars, gateVars
  <2>2. CASE GateStep
    BY <2>2 DEF GateStep, GateNext
  <2>3. CASE (PmsMoves \/ Tick) /\ UNCHANGED report
    BY <2>3 DEF GateNext
  <2>4. CASE Starts
    BY <2>4 DEF Starts, ReportStarts, gateVars
  <2>5. CASE ReportStep
    BY <2>5 DEF ReportStep, Reports, SendPrelude, putProgressTick, Answered, Applied, gateVars
  <2>6. CASE ReportEnds /\ UNCHANGED gate
    BY <2>6 DEF ReportEnds, gateVars
  <2> QED
    BY <2>1, <2>2, <2>3, <2>4, <2>5, <2>6 DEF LinkNext
<1> QED
  BY <1>1, <1>2, PTL DEF LinkSpec, GateSpec

-----------------------------------------------------------------------------
(***************************************************************************)
(* The reports.                                                            *)
(***************************************************************************)
PutOK == put \in [Goroutines -> {"none", "sent", "ok", "canThrottle", "failed"}]

Flags == running \in BOOLEAN /\ throttle \in BOOLEAN /\ asserted \in BOOLEAN /\ failed \in BOOLEAN

\* Without ffmpeg no report is under way and nothing is remembered of any.
AtRest == ~ running => /\ ~ throttle /\ ~ asserted /\ left = 0
                       /\ \A g \in Goroutines : put[g] = "none"

\* An assertion PMS has made is in force, or its answer is about to be applied.
Held == /\ asserted /\ ~ failed => throttle \/ put["progress"] = "canThrottle"
        /\ put["progress"] = "ok" => ~ asserted

Reporting == PutOK /\ Flags /\ left \in 0..Prelude /\ AtRest /\ Held

LEMMA ReportingType == Reporting => ReportTypeOK
<1> SUFFICES ASSUME Reporting PROVE ReportTypeOK
  OBVIOUS
<1>1. {running, throttle, asserted, failed} \subseteq BOOLEAN
  BY DEF Reporting, Flags
<1>2. ~ running => ~ throttle /\ \A g \in Goroutines : put[g] = "none"
  BY DEF Reporting, AtRest
<1> QED
  BY <1>1, <1>2 DEF Reporting, PutOK, ReportTypeOK

LEMMA InitReporting == ReportInit => Reporting
<1> SUFFICES ASSUME ReportInit PROVE Reporting
  OBVIOUS
<1>1. PutOK /\ Flags /\ left \in 0..Prelude
  <2>1. PutOK
    BY DEF ReportInit, PutOK
  <2>2. Flags
    BY DEF ReportInit, Flags
  <2>3. left \in 0..Prelude
    BY PreludeAssumption DEF ReportInit
  <2> QED
    BY <2>1, <2>2, <2>3
<1>2. AtRest /\ Held
  BY DEF ReportInit, AtRest, Held, Goroutines
<1> QED
  BY <1>1, <1>2 DEF Reporting

LEMMA StillReporting == Reporting /\ UNCHANGED report => Reporting'
BY DEF Reporting, PutOK, Flags, AtRest, Held, report

LEMMA StartsReporting ==
  ASSUME Reporting, ReportStarts
  PROVE  Reporting'
<1>1. PutOK' /\ Flags' /\ left' \in 0..Prelude
  <2>1. PutOK'
    BY DEF Reporting, ReportStarts, PutOK
  <2>2. Flags'
    BY DEF Reporting, ReportStarts, Flags
  <2>3. left' \in 0..Prelude
    BY PreludeAssumption DEF ReportStarts
  <2> QED
    BY <2>1, <2>2, <2>3
<1>2. AtRest' /\ Held'
  BY DEF Reporting, ReportStarts, AtRest, Held, Goroutines
<1> QED
  BY <1>1, <1>2 DEF Reporting

LEMMA EndsReporting ==
  ASSUME Reporting, ReportEnds
  PROVE  Reporting'
<1>1. PutOK' /\ Flags' /\ left' \in 0..Prelude
  <2>1. PutOK'
    BY DEF Reporting, ReportEnds, PutOK
  <2>2. Flags'
    BY DEF Reporting, ReportEnds, Flags
  <2>3. left' \in 0..Prelude
    BY PreludeAssumption DEF ReportEnds
  <2> QED
    BY <2>1, <2>2, <2>3
<1>2. AtRest' /\ Held'
  BY DEF ReportEnds, AtRest, Held, Goroutines
<1> QED
  BY <1>1, <1>2 DEF Reporting

LEMMA SendsReporting ==
  ASSUME Reporting, SendPrelude \/ putProgressTick
  PROVE  Reporting'
<1>1. PutOK' /\ Flags'
  BY DEF Reporting, SendPrelude, putProgressTick, PutOK, Flags, Goroutines
<1>2. left' \in 0..Prelude
  BY PreludeAssumption DEF Reporting, SendPrelude, putProgressTick
<1>3. running /\ running'
  BY PreludeAssumption DEF Reporting, SendPrelude, putProgressTick, AtRest
<1>4. put'["progress"] \in {put["progress"], "sent"} /\ (put["progress"] = "none" \/ put'["progress"] = put["progress"])
  BY DEF Reporting, SendPrelude, putProgressTick, PutOK, Goroutines
<1>5. AtRest' /\ Held'
  BY <1>3, <1>4 DEF Reporting, SendPrelude, putProgressTick, AtRest, Held
<1> QED
  BY <1>1, <1>2, <1>5 DEF Reporting

LEMMA AnsweredReporting ==
  ASSUME Reporting, NEW g \in Goroutines, Answered(g)
  PROVE  Reporting'
<1>1. PICK a \in Answers(g) :
        /\ put' = [put EXCEPT ![g] = a]
        /\ asserted' = IF g = "progress" /\ a # "failed" THEN a = "canThrottle" ELSE asserted
        /\ failed' = (failed /\ (g = "progress" => a = "failed"))
  BY DEF Answered
<1>2. a \in {"ok", "canThrottle", "failed"} /\ (a = "canThrottle" => g = "progress")
  <2>1. CASE pms # "up"
    BY <1>1, <2>1 DEF Answers
  <2>2. CASE pms = "up" /\ g = "prelude"
    BY <1>1, <2>2 DEF Answers
  <2>3. CASE pms = "up" /\ g # "prelude"
    BY <1>1, <2>3 DEF Answers, Goroutines
  <2> QED
    BY <2>1, <2>2, <2>3
<1>3. running /\ running' /\ put[g] = "sent"
  BY DEF Reporting, AtRest, Answered
<1>4. PutOK' /\ Flags' /\ left' \in 0..Prelude
  BY <1>1, <1>2 DEF Reporting, PutOK, Flags, Answered
<1>5. put'[g] = a /\ (g # "progress" => put'["progress"] = put["progress"])
  BY <1>1 DEF Reporting, PutOK, Goroutines
<1>6. Held'
  <2>1. CASE g # "progress"
    BY <1>1, <1>5, <2>1 DEF Reporting, Held, Answered
  <2>2. CASE g = "progress"
    BY <1>1, <1>2, <1>3, <1>5, <2>2 DEF Reporting, Held, Answered
  <2> QED
    BY <2>1, <2>2
<1> QED
  BY <1>3, <1>4, <1>6 DEF Reporting, AtRest

LEMMA AppliedReporting ==
  ASSUME Reporting, NEW g \in Goroutines, Applied(g)
  PROVE  Reporting'
<1>1. put[g] \in {"ok", "canThrottle", "failed"}
  BY DEF Reporting, PutOK, Applied
<1>2. running /\ running'
  BY <1>1 DEF Reporting, AtRest, Applied
<1>3. /\ put[g] = "failed" => throttle' = FALSE
      /\ put[g] # "failed" /\ g = "progress" => throttle' = (put[g] = "canThrottle")
      /\ put[g] # "failed" /\ g # "progress" => throttle' = throttle
  BY DEF Applied, Signal
<1>4. PutOK' /\ left' \in 0..Prelude
  BY DEF Reporting, PutOK, Applied
<1>5. Flags'
  BY <1>3 DEF Reporting, Flags, Applied
<1>6. put'[g] = "none" /\ (g # "progress" => put'["progress"] = put["progress"])
  BY DEF Reporting, PutOK, Applied, Goroutines
<1>7. failed' = (failed \/ put[g] = "failed") /\ asserted' = asserted
  BY DEF Applied
<1>8. Held'
  <2>1. CASE put[g] = "failed"
    <3>1. failed'
      BY <1>7, <2>1
    <3>2. put'["progress"] = "ok" => put["progress"] = "ok"
      BY <1>6
    <3>3. asserted' = asserted /\ (put["progress"] = "ok" => ~ asserted)
      BY <1>7 DEF Reporting, Held
    <3>4. put'["progress"] = "ok" => ~ asserted'
      BY <3>2, <3>3
    <3> QED
      BY <3>1, <3>4 DEF Held
  <2>2. CASE put[g] # "failed" /\ g # "progress"
    <3>1. failed' = failed
      BY <1>7, <2>2 DEF Reporting, Flags
    <3>2. throttle' = throttle /\ asserted' = asserted /\ put'["progress"] = put["progress"]
      BY <1>3, <1>6, <1>7, <2>2
    <3> QED
      BY <3>1, <3>2 DEF Reporting, Held
  <2>3. CASE put[g] # "failed" /\ g = "progress"
    BY <1>1, <1>3, <1>6, <1>7, <2>3 DEF Reporting, Held
  <2> QED
    BY <2>1, <2>2, <2>3
<1> QED
  BY <1>2, <1>4, <1>5, <1>8 DEF Reporting, AtRest

\* What every step of the link does to the reports.
LEMMA LinkKeepsReporting ==
  ASSUME Reporting, [LinkNext]_linkVars
  PROVE  Reporting'
<1>1. CASE UNCHANGED report
  BY <1>1, StillReporting
<1>2. CASE Starts
  BY <1>2, StartsReporting DEF Starts
<1>3. CASE ReportStep
  BY <1>3, SendsReporting, AnsweredReporting, AppliedReporting DEF ReportStep, Reports
<1>4. CASE ReportEnds
  BY <1>4, EndsReporting
<1> QED
  BY <1>1, <1>2, <1>3, <1>4 DEF LinkNext, GateStep, linkVars

LEMMA ReportingInvariant == LinkSpec => []Reporting
<1>1. LinkInit => Reporting
  BY InitReporting DEF LinkInit
<1>2. Reporting /\ [LinkNext]_linkVars => Reporting'
  BY LinkKeepsReporting
<1> QED
  BY <1>1, <1>2, PTL DEF LinkSpec

\* PMS is told no speed while its last word, an assertion of canThrottle, stands.
THEOREM SpeedAlwaysHeldBack == LinkSpec => SpeedHeldBack
<1>1. Reporting =>
        [put["progress"] = "none" /\ put'["progress"] = "sent" /\ ~ throttle
           => ~ asserted \/ failed]_reportVars
  BY DEF Reporting, Held
<1> QED
  BY <1>1, ReportingInvariant, PTL DEF SpeedHeldBack

-----------------------------------------------------------------------------
(***************************************************************************)
(* Type correctness of the link.                                           *)
(***************************************************************************)
\* While ffmpeg runs, its session's check is over, and no step reopens it.
LEMMA LinkKeepsDecided ==
  ASSUME GateTypeOK, running => check[Reported].at = "decided", [LinkNext]_linkVars
  PROVE  (running => check[Reported].at = "decided")'
<1>1. CheckOK
  BY TypeParts
<1>2. CASE GateStep
  <2>1. PICK s \in Sessions : (s = Reported => ~ running) /\ (Arrives(s) \/ Checks(s))
    BY <1>2 DEF GateStep
  <2>2. running' = running
    BY <1>2 DEF GateStep, report
  <2>3. s # Reported => check'[Reported] = check[Reported]
    BY <1>1, <2>1, ReportedAssumption
       DEF CheckOK, Arrives, Checks, FlagDecides, CacheDecides, ProbeSent,
           ProbeAnswered, ProbeFails, ProbeDecides, Decide
  <2> QED
    BY <2>1, <2>2, <2>3
<1>3. CASE (PmsMoves \/ Tick) /\ UNCHANGED report
  <2>1. check[Reported].at = "decided" => check'[Reported] = check[Reported]
    BY <1>1, <1>3, ReportedAssumption DEF PmsMoves, Tick, CheckOK
  <2>2. running' = running
    BY <1>3 DEF report
  <2> QED
    BY <2>1, <2>2
<1>4. CASE Starts
  BY <1>4 DEF Starts, gate
<1>5. CASE ReportStep
  BY <1>5 DEF ReportStep, Reports, SendPrelude, putProgressTick, Answered, Applied, gate
<1>6. CASE ReportEnds
  BY <1>6 DEF ReportEnds
<1>7. CASE UNCHANGED linkVars
  BY <1>7 DEF linkVars, gate, report
<1> QED
  BY <1>2, <1>3, <1>4, <1>5, <1>6, <1>7 DEF LinkNext

LEMMA LinkKeepsPms ==
  ASSUME PmsTypeOK, [LinkNext]_linkVars
  PROVE  PmsTypeOK'
<1>1. CASE UNCHANGED << pms, active, wants >>
  BY <1>1 DEF PmsTypeOK
<1>2. CASE PmsChanges
  BY <1>2 DEF PmsTypeOK, PmsChanges
<1>3. CASE GateStep
  <2>1. UNCHANGED << pms, active, wants >>
    BY <1>3 DEF GateStep, Arrives, Checks, FlagDecides, CacheDecides, ProbeSent,
                ProbeAnswered, ProbeFails, ProbeDecides
  <2> QED
    BY <1>1, <2>1
<1>4. CASE Starts \/ ReportStep \/ ReportEnds
  <2>1. UNCHANGED << pms, active, wants >>
    BY <1>4 DEF Starts, ReportStarts, ReportStep, Reports, SendPrelude, putProgressTick,
                Answered, Applied, ReportEnds
  <2> QED
    BY <1>1, <2>1
<1> QED
  BY <1>1, <1>2, <1>3, <1>4 DEF LinkNext, PmsMoves, Tick, linkVars

\* The type invariant the run checks holds for any sessions, keys, TTL and timeout.
THEOREM LinkTypeCorrect == LinkSpec => []LinkTypeOK
<1> DEFINE Over == running => check[Reported].at = "decided"
<1>1. LinkInit => PmsTypeOK /\ Over
  BY DEF LinkInit, PmsInit, ReportInit
<1>2. PmsTypeOK /\ [LinkNext]_linkVars => PmsTypeOK'
  BY LinkKeepsPms
<1>3. GateTypeOK /\ Over /\ [LinkNext]_linkVars => Over'
  BY LinkKeepsDecided
<1>4. PmsTypeOK /\ GateTypeOK /\ Reporting /\ Over => LinkTypeOK
  BY ReportingType DEF LinkTypeOK
<1> HIDE DEF Over
<1> QED
  BY <1>1, <1>2, <1>3, <1>4, LinkRunsTheGate, GateTypeCorrect, ReportingInvariant, PTL
     DEF LinkSpec

=============================================================================
