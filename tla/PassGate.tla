------------------------------- MODULE PassGate -------------------------------
(***************************************************************************)
(* The Plex Pass gate of a worker (worker/agent/pass_gate.go): each session*)
(* that would force hardware on an argv Plex left to software asks         *)
(* hwAccelAllowed. Checks of several sessions overlap and share a cache.   *)
(*                                                                         *)
(* Time is counted in ticks, and an instant is kept as its age, up to the  *)
(* age beyond which nothing tells the difference.                          *)
(***************************************************************************)
EXTENDS Pms

CONSTANTS
  Sessions,     \* tasks under way on the worker
  Unwired,      \* the key of a session whose env lacks the base or the token
  passCacheTTL, \* const passCacheTTL
  Timeout       \* httpPassCheck's, of the whole exchange

ASSUME TTLAssumption == passCacheTTL \in Nat \ {0}
ASSUME TimeoutAssumption == Timeout \in Nat

VARIABLES
  cache, \* passCache: a map from keys to answers and how old they are
  check, \* for each session, where its check is
  since  \* history: for each key, how long ago PMS granted and denied a Pass

gate == << cache, check, since >>
gateVars == << pms, active, wants, gate >>

\* How old the answer behind a decision may be.
Window == passCacheTTL - 1 + Timeout

\* The longest a probe lasts.
Patience == Timeout

Nowhere == [at |-> "none"]
Arrived == [at : {"arrived"}, key : Keys \cup {Unwired}, flag : {"1", "0", "absent"}]
Probing == [at : {"probing"}, key : Keys, asked : 0..Timeout,
            answer : {"none", "yes", "no", "failed"}]
Decided == [at : {"decided"}, allowed : BOOLEAN]

GateTypeOK ==
  /\ DOMAIN cache \subseteq Keys
  /\ cache \in [DOMAIN cache -> [active : BOOLEAN, age : 0..passCacheTTL]]
  /\ check \in [Sessions -> {Nowhere} \cup Arrived \cup Probing \cup Decided]
  /\ since \in [Keys -> [granted : 0..Window + 1, denied : 0..Window + 1]]

Grants(k) == k \in active
Denies(k) == k \notin active \/ pms = "unwell"

GateInit ==
  /\ cache = << >>
  /\ check = [s \in Sessions |-> Nowhere]
  /\ since = [k \in Keys |-> [granted |-> IF Grants(k) THEN 0 ELSE Window + 1,
                              denied |-> IF Denies(k) THEN 0 ELSE Window + 1]]

-----------------------------------------------------------------------------
\* The shim's collectEnv: the flag is what its own query of PMS said at the spawn, or
\* the operator; the gate does not look behind it.
Arrives(s) ==
  /\ check[s].at \in {"none", "decided"}
  /\ \E a \in Arrived : check' = [check EXCEPT ![s] = a]
  /\ UNCHANGED << pms, active, wants, cache, since >>

Decide(s, b) == check' = [check EXCEPT ![s] = [at |-> "decided", allowed |-> b]]

\* SCALEPLEX_PASS_ACTIVE is trusted; without it, and without a PMS, all is allowed.
FlagDecides(s) ==
  /\ check[s].at = "arrived"
  /\ \/ check[s].flag # "absent" /\ Decide(s, check[s].flag = "1")
     \/ check[s].flag = "absent" /\ check[s].key = Unwired /\ Decide(s, TRUE)
  /\ UNCHANGED << pms, active, wants, cache, since >>

Fresh(k) == k \in DOMAIN cache /\ cache[k].age < passCacheTTL

\* The lookup, under passCacheMu: a hit decides,
CacheDecides(s) ==
  /\ check[s].at = "arrived"
  /\ check[s].flag = "absent"
  /\ check[s].key \in Keys
  /\ Fresh(check[s].key)
  /\ Decide(s, cache[check[s].key].active)
  /\ UNCHANGED << pms, active, wants, cache, since >>

\* a miss asks PMS, the mutex free again.
ProbeSent(s) ==
  /\ check[s].at = "arrived"
  /\ check[s].flag = "absent"
  /\ check[s].key \in Keys
  /\ ~ Fresh(check[s].key)
  /\ check' = [check EXCEPT ![s] = [at |-> "probing", key |-> check[s].key,
                                    asked |-> 0, answer |-> "none"]]
  /\ UNCHANGED << pms, active, wants, cache, since >>

\* Any status but 200, and a body without the attribute, are a "no".
ProbeAnswered(s) ==
  /\ check[s].at = "probing"
  /\ check[s].answer = "none"
  /\ pms # "down"
  /\ check' = [check EXCEPT ![s].answer = IF Denies(check[s].key) THEN "no" ELSE "yes"]
  /\ UNCHANGED << pms, active, wants, cache, since >>

\* An error: no connection, an answer cut short, or the timeout.
ProbeFails(s) ==
  /\ check[s].at = "probing"
  /\ pms = "down" \/ check[s].asked = Timeout
  /\ check' = [check EXCEPT ![s].answer = "failed"]
  /\ check[s].answer # "failed"
  /\ UNCHANGED << pms, active, wants, cache, since >>

Put(k, b) ==
  [j \in DOMAIN cache \cup {k} |-> IF j = k THEN [active |-> b, age |-> 0] ELSE cache[j]]

\* Mutant: a failure is stored as a "no".
StoredAlways(s) == Put(check[s].key, check[s].answer = "yes")

\* "don't cache (retry next session)"
Stored(s) ==
  IF check[s].answer = "failed" THEN cache
  ELSE Put(check[s].key, check[s].answer = "yes")

\* passCheck returns: the answer is stored with the time of now, whatever
\* another check has stored meanwhile.
ProbeDecides(s) ==
  /\ check[s].at = "probing"
  /\ check[s].answer # "none"
  /\ cache' = Stored(s)
  /\ Decide(s, check[s].answer = "yes")
  /\ UNCHANGED << pms, active, wants, since >>

-----------------------------------------------------------------------------
Older(n, limit) == IF n < limit THEN n + 1 ELSE limit

\* What PMS grants and denies at an instant is zero ticks old.
Seen ==
  since' = [k \in Keys |-> [granted |-> IF Grants(k)' THEN 0 ELSE since[k].granted,
                            denied |-> IF Denies(k)' THEN 0 ELSE since[k].denied]]

PmsMoves ==
  /\ PmsChanges
  /\ Seen
  /\ UNCHANGED << cache, check >>

\* Time passes, but not past the timeout of a probe.
Tick ==
  /\ \A s \in Sessions : check[s].at = "probing" => check[s].asked < Patience
  /\ cache' = [k \in DOMAIN cache |-> [cache[k] EXCEPT !.age = Older(@, passCacheTTL)]]
  /\ check' = [s \in Sessions |->
                 IF check[s].at = "probing" THEN [check[s] EXCEPT !.asked = @ + 1] ELSE check[s]]
  /\ since' = [k \in Keys |->
                 [granted |-> IF Grants(k) THEN 0 ELSE Older(since[k].granted, Window + 1),
                  denied |-> IF Denies(k) THEN 0 ELSE Older(since[k].denied, Window + 1)]]
  /\ UNCHANGED << pms, active, wants >>

Checks(s) ==
  \/ FlagDecides(s) \/ CacheDecides(s)
  \/ ProbeSent(s) \/ ProbeAnswered(s) \/ ProbeFails(s) \/ ProbeDecides(s)

GateNext ==
  \/ \E s \in Sessions : Arrives(s) \/ Checks(s)
  \/ PmsMoves
  \/ Tick

GateSpec == PmsInit /\ GateInit /\ [][GateNext]_gateVars

-----------------------------------------------------------------------------
(***************************************************************************)
(* Properties.                                                             *)
(***************************************************************************)
\* The worker itself decides about s in this step, on what it knows of PMS.
Rules(s) ==
  /\ check'[s].at = "decided"
  /\ \/ check[s].at = "probing"
     \/ check[s].at = "arrived" /\ check[s].flag = "absent" /\ check[s].key # Unwired

\* Hardware is never granted on an answer that is older than the cache's TTL and
\* a probe's timeout: whatever checks overlap and in whatever order they store
\* their answers, the account had its Pass that recently.
AllowIsBacked ==
  [][\A s \in Sessions :
       Rules(s) /\ check'[s].allowed => since[check[s].key].granted <= Window]_gateVars

\* A Pass user is denied only because this session's own probe failed, or because
\* PMS has denied the Pass as recently as that: another's failure denies nobody.
DenyIsBacked ==
  [][\A s \in Sessions :
       Rules(s) /\ ~ check'[s].allowed =>
         \/ check[s].at = "probing" /\ check[s].answer = "failed"
         \/ since[check[s].key].denied <= Window]_gateVars

\* The two together, of each ruling.
RulingIsBacked ==
  [][\A s \in Sessions : Rules(s) =>
       IF check'[s].allowed
       THEN since[check[s].key].granted <= Window
       ELSE \/ check[s].at = "probing" /\ check[s].answer = "failed"
            \/ since[check[s].key].denied <= Window]_gateVars

=============================================================================
