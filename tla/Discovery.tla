------------------------------ MODULE Discovery ------------------------------
(***************************************************************************)
(* The orchestrator's worker pool (type pool of orchestrator/main.go):     *)
(* which workers it knows, and which of three discovery sources vouch for  *)
(* each.  DNS answers are taken before the pool lock and applied under it, *)
(* by the refresh tick and by any number of recoveries (rediscover), so an *)
(* answer may be applied after a newer one.                                *)
(***************************************************************************)
EXTENDS Integers, FiniteSets

CONSTANTS
  Urls,      \* worker urls, the keys of pool.workers
  List,      \* the entries of WORKERS_LIST
  Lookups,   \* the goroutines that may be resolving at once
  Timeout,   \* WORKERS_PUSH_TIMEOUT_SECONDS, in units of the heartbeat interval
  MaxFaults  \* bound on zone changes and crashes, for model checking

ASSUME ListAssumption == List \subseteq Urls
ASSUME TimeoutAssumption == Timeout \in Nat \ {0}
ASSUME MaxFaultsAssumption == MaxFaults \in Nat

VARIABLES
  up,        \* the orchestrator process has passed main's start-up
  workers,   \* the keys present in pool.workers
  sources,   \* worker.sources of each entry, {} where there is none
  silence,   \* now - worker.lastHeartbeat, saturated just above Timeout
  known,     \* entries that hold something: health, load, in-flight tickets
  lookup,    \* the answer each resolving goroutine holds, NoAnswer when none
  zone,      \* the addresses DNS serves (external)
  faults,    \* zone changes and crashes so far
  applied,   \* history: the lookup answer applied last
  pushing    \* history: the workers registered and not reaped since

vars == << up, workers, sources, silence, known, lookup, zone, faults, applied, pushing >>

Sources == {"dns", "list", "push"}
NoAnswer == {"no answer"}
Stale == Timeout + 1

TypeOK ==
  /\ up \in BOOLEAN
  /\ workers \in SUBSET Urls
  /\ sources \in [Urls -> SUBSET Sources]
  /\ workers = {u \in Urls : sources[u] # {}}
  /\ silence \in [Urls -> 0..Stale]
  /\ known \in SUBSET workers
  /\ lookup \in [Lookups -> (SUBSET Urls) \cup {NoAnswer}]
  /\ zone \in SUBSET Urls
  /\ faults \in 0..MaxFaults
  /\ applied \in SUBSET Urls
  /\ pushing \in SUBSET Urls

Init ==
  /\ up = FALSE
  /\ workers = {}
  /\ sources = [u \in Urls |-> {}]
  /\ silence = [u \in Urls |-> Stale]
  /\ known = {}
  /\ lookup = [r \in Lookups |-> NoAnswer]
  /\ zone \in SUBSET Urls
  /\ faults = 0
  /\ applied = {}
  /\ pushing = {}

-----------------------------------------------------------------------------
\* Mutant: a vouched worker gets a new entry even when it has one.
VouchAfresh(urls, source) ==
  /\ workers' = workers \cup urls
  /\ sources' = [u \in Urls |-> IF u \in urls THEN {source} ELSE sources[u]]
  /\ known' = known \ urls

\* An entry for each of the urls; one that exists gains the source and keeps
\* all it holds.
Vouch(urls, source) ==
  /\ workers' = workers \cup urls
  /\ sources' = [u \in Urls |-> IF u \in urls THEN sources[u] \cup {source} ELSE sources[u]]
  /\ UNCHANGED known

\* main: loadList runs once, before the loops and the HTTP server.
loadList ==
  /\ ~up
  /\ up' = TRUE
  /\ Vouch(List, "list")
  /\ UNCHANGED << silence, lookup, zone, faults, applied, pushing >>

\* refresh, outside the lock: net.LookupHost answers. A failed lookup, and that
\* of a name without addresses is one, returns without touching the pool: it is
\* no step at all.
LookupHost(r) ==
  /\ up
  /\ zone # {}
  /\ lookup[r] = NoAnswer
  /\ lookup' = [lookup EXCEPT ![r] = zone]
  /\ UNCHANGED << up, workers, sources, silence, known, zone, faults, applied, pushing >>

\* Mutant: the second loop, the one that withdraws, is missing.
RefreshOnlyAdds(r) ==
  /\ up
  /\ lookup[r] # NoAnswer
  /\ Vouch(lookup[r], "dns")
  /\ applied' = lookup[r]
  /\ lookup' = [lookup EXCEPT ![r] = NoAnswer]
  /\ UNCHANGED << up, silence, zone, faults, pushing >>

\* Mutant: an entry missing from the answer is deleted whoever else vouches.
RefreshDeletes(r) ==
  /\ up
  /\ lookup[r] # NoAnswer
  /\ LET gone == {u \in workers : "dns" \in sources[u] /\ u \notin lookup[r]}
     IN  /\ workers' = (workers \cup lookup[r]) \ gone
         /\ known' = known \ gone
         /\ sources' = [u \in Urls |->
              IF u \in lookup[r] THEN sources[u] \cup {"dns"}
              ELSE IF u \in gone THEN {} ELSE sources[u]]
  /\ applied' = lookup[r]
  /\ lookup' = [lookup EXCEPT ![r] = NoAnswer]
  /\ UNCHANGED << up, silence, zone, faults, pushing >>

\* refresh, under pool.mu: the answer's urls gain the DNS source, the others
\* lose it, and an entry with no source left is deleted with all it holds.
refresh(r) ==
  /\ up
  /\ lookup[r] # NoAnswer
  /\ LET gone == {u \in workers : sources[u] = {"dns"} /\ u \notin lookup[r]}
     IN  /\ workers' = (workers \cup lookup[r]) \ gone
         /\ known' = known \ gone
         /\ sources' = [u \in Urls |->
              IF u \in lookup[r] THEN sources[u] \cup {"dns"} ELSE sources[u] \ {"dns"}]
  /\ applied' = lookup[r]
  /\ lookup' = [lookup EXCEPT ![r] = NoAnswer]
  /\ UNCHANGED << up, silence, zone, faults, pushing >>

\* Mutant: a heartbeat from a worker the pool does not hold is ignored.
RegisterRefreshes(u) ==
  /\ up
  /\ IF u \in workers
       THEN /\ sources' = [sources EXCEPT ![u] = @ \cup {"push"}]
            /\ silence' = [silence EXCEPT ![u] = 0]
            /\ pushing' = pushing \cup {u}
       ELSE UNCHANGED << sources, silence, pushing >>
  /\ UNCHANGED << up, workers, known, lookup, zone, faults, applied >>

\* handleRegister: first registration and heartbeat alike.
register(u) ==
  /\ up
  /\ Vouch({u}, "push")
  /\ silence' = [silence EXCEPT ![u] = 0]
  /\ pushing' = pushing \cup {u}
  /\ UNCHANGED << up, lookup, zone, faults, applied >>

\* The PUSH source of every late worker goes, and with it an entry nobody
\* else vouches for.
reapPush ==
  /\ up
  /\ LET late == {u \in workers : "push" \in sources[u] /\ silence[u] > Timeout}
         gone == {u \in late : sources[u] = {"push"}}
     IN  /\ workers' = workers \ gone
         /\ known' = known \ gone
         /\ sources' = [u \in Urls |-> IF u \in late THEN sources[u] \ {"push"} ELSE sources[u]]
         /\ pushing' = pushing \ late
  /\ UNCHANGED << up, silence, lookup, zone, faults, applied >>

\* Whoever holds the entry writes into it: a probe's answer, a dispatch.
Use(u) ==
  /\ up
  /\ u \in workers \ known
  /\ known' = known \cup {u}
  /\ UNCHANGED << up, workers, sources, silence, lookup, zone, faults, applied, pushing >>

\* One heartbeat interval passes.
Age ==
  /\ silence' = [u \in Urls |-> IF silence[u] = Stale THEN Stale ELSE silence[u] + 1]
  /\ UNCHANGED << up, workers, sources, known, lookup, zone, faults, applied, pushing >>

\* Pods come and go behind the headless service.
Rollout ==
  /\ faults < MaxFaults
  /\ faults' = faults + 1
  /\ zone' \in SUBSET Urls
  /\ UNCHANGED << up, workers, sources, silence, known, lookup, applied, pushing >>

\* The orchestrator dies; nothing of the pool is persisted.
Crash ==
  /\ up
  /\ faults < MaxFaults
  /\ faults' = faults + 1
  /\ up' = FALSE
  /\ workers' = {}
  /\ sources' = [u \in Urls |-> {}]
  /\ silence' = [u \in Urls |-> Stale]
  /\ known' = {}
  /\ lookup' = [r \in Lookups |-> NoAnswer]
  /\ applied' = {}
  /\ pushing' = {}
  /\ UNCHANGED zone

-----------------------------------------------------------------------------
Next ==
  \/ loadList
  \/ \E r \in Lookups : LookupHost(r) \/ refresh(r)
  \/ \E u \in Urls : register(u) \/ Use(u)
  \/ reapPush
  \/ Age
  \/ Rollout
  \/ Crash

Spec == Init /\ [][Next]_vars

(***************************************************************************)
(* main starts the process, discoveryLoop looks DNS up on every tick and   *)
(* applies the answer.  That lookups are not failing for ever is assumed   *)
(* of the DNS server; nothing is assumed of workers registering.           *)
(***************************************************************************)
Fairness ==
  /\ WF_vars(loadList)
  /\ \A r \in Lookups : WF_vars(LookupHost(r)) /\ WF_vars(refresh(r))

FairSpec == Spec /\ Fairness

-----------------------------------------------------------------------------
(***************************************************************************)
(* Properties.                                                             *)
(***************************************************************************)

\* A worker is in the pool exactly when WORKERS_LIST names it, the DNS answer
\* applied last holds it, or it has registered and not been reaped; no order
\* of the three sources' events strands an entry or removes one still vouched.
PoolIsVouched ==
  up => workers = List \cup applied \cup pushing

\* While any source vouches for a worker, its entry is never dropped or
\* recreated: its health and in-flight tickets survive the other sources.
KnowledgeKept ==
  [][\A u \in known : up' /\ u \in List \cup applied' \cup pushing' => u \in known']_vars

\* Once the zone is stable, and has an address at all, the pool comes to agree
\* with it, though lookups made before the change may still be applied after
\* newer ones. A zone that has emptied takes nobody away.
PoolConverges ==
  <>[](up /\ (zone # {} => \A u \in Urls : "dns" \in sources[u] <=> u \in zone))

=============================================================================
