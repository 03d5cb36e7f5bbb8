--------------------------------- MODULE Pms ---------------------------------
(***************************************************************************)
(* PMS as its HTTP clients see it (external): whether it answers, whether  *)
(* the account of a token has a Plex Pass, and whether it wants a session  *)
(* throttled. All of it changes at any time.                               *)
(***************************************************************************)
EXTENDS Integers

CONSTANT Keys  \* pairs of a PMS base and a token

VARIABLES
  pms,    \* "up", "unwell" (it answers, but not what it is asked) or "down"
  active, \* the keys whose account has a Pass
  wants   \* its next answer to a progress report asserts canThrottle

PmsTypeOK ==
  /\ pms \in {"up", "unwell", "down"}
  /\ active \in SUBSET Keys
  /\ wants \in BOOLEAN

PmsInit == PmsTypeOK

PmsChanges ==
  \/ /\ pms' \in {"up", "unwell", "down"} \ {pms}
     /\ UNCHANGED << active, wants >>
  \/ \E k \in Keys :
       /\ active' \in {active \cup {k}, active \ {k}} \ {active}
       /\ UNCHANGED << pms, wants >>
  \/ /\ wants' = ~ wants
     /\ UNCHANGED << pms, active >>

=============================================================================
