---------------------------- MODULE PushHeartbeat ----------------------------
(***************************************************************************)
(* PUSH discovery end to end, in time: registerLoop of the workers         *)
(* (worker/agent/register.go) against register and reapPush of the pool    *)
(* (module Discovery).  One unit of time is the heartbeat interval, 5s; a  *)
(* deadline that has come is acted on before time passes it.               *)
(***************************************************************************)
EXTENDS Discovery

CONSTANTS
  ReapEvery,  \* WORKERS_PUSH_REAP_SECONDS
  MaxBackoff  \* maxBackoffSeconds

ASSUME ReapEveryAssumption == ReapEvery \in Nat \ {0}
ASSUME MaxBackoffAssumption == MaxBackoff \in Nat \ {0}

VARIABLES
  link,     \* whether a worker's POST gets through, and promptly (external)
  posting,  \* workers inside postRegister: http.DefaultClient has no timeout
  sleep,    \* what is left of a worker's sleep before its next POST
  backoff,  \* registerLoop's backoff
  reapIn,   \* what is left until the next tick of pushReaperLoop
  losses,   \* history: consecutive failed POSTs, saturated at 2
  slow,     \* history: workers one of whose POSTs has taken time
  overdue   \* history: how long a worker has been listed past its timeout

loopVars == << link, posting, sleep, backoff, reapIn, losses, slow, overdue >>
allVars == << vars, loopVars >>

HeartbeatTypeOK ==
  /\ link \in [Urls -> BOOLEAN]
  /\ posting \in SUBSET Urls
  /\ sleep \in [Urls -> 0..MaxBackoff]
  /\ backoff \in [Urls -> 1..MaxBackoff]
  /\ reapIn \in Nat

HeartbeatInit ==
  /\ Init
  /\ link \in [Urls -> BOOLEAN]
  /\ posting = {}
  /\ sleep = [u \in Urls |-> 0]
  /\ backoff = [u \in Urls |-> 1]
  /\ reapIn = ReapEvery
  /\ losses = [u \in Urls |-> 0]
  /\ slow = {}
  /\ overdue = [u \in Urls |-> 0]

-----------------------------------------------------------------------------
\* The orchestrator's process starts: so does its reaper's ticker.
Boot ==
  /\ loadList
  /\ reapIn' = ReapEvery
  /\ UNCHANGED << link, posting, sleep, backoff, losses, slow, overdue >>

\* registerLoop wakes up and calls postRegister.
Post(u) ==
  /\ u \notin posting
  /\ sleep[u] = 0
  /\ posting' = posting \cup {u}
  /\ UNCHANGED << vars, link, sleep, backoff, reapIn, losses, slow, overdue >>

\* Mutant: a success leaves the backoff where the failures took it.
PostSucceedsKeepingBackoff(u) ==
  /\ u \in posting
  /\ link[u]
  /\ register(u)
  /\ posting' = posting \ {u}
  /\ sleep' = [sleep EXCEPT ![u] = 1]
  /\ losses' = [losses EXCEPT ![u] = 0]
  /\ overdue' = [overdue EXCEPT ![u] = 0]
  /\ UNCHANGED << link, backoff, reapIn, slow >>

\* A 2xx answer: handleRegister has run; the next POST is one interval away.
PostSucceeds(u) ==
  /\ u \in posting
  /\ link[u]
  /\ register(u)
  /\ posting' = posting \ {u}
  /\ sleep' = [sleep EXCEPT ![u] = 1]
  /\ backoff' = [backoff EXCEPT ![u] = 1]
  /\ losses' = [losses EXCEPT ![u] = 0]
  /\ overdue' = [overdue EXCEPT ![u] = 0]
  /\ UNCHANGED << link, reapIn, slow >>

\* A transport error: sleep for the backoff, which then doubles up to the cap.
PostFails(u) ==
  /\ u \in posting
  /\ ~(up /\ link[u])
  /\ posting' = posting \ {u}
  /\ sleep' = [sleep EXCEPT ![u] = backoff[u]]
  /\ backoff' = [backoff EXCEPT ![u] =
                   IF 2 * backoff[u] > MaxBackoff THEN MaxBackoff ELSE 2 * backoff[u]]
  /\ losses' = [losses EXCEPT ![u] = IF losses[u] = 2 THEN 2 ELSE losses[u] + 1]
  /\ UNCHANGED << vars, link, reapIn, slow, overdue >>

\* Mutant: the two durations of pushReaperLoop swapped.
ReapSwapped ==
  /\ reapIn = 0
  /\ reapPush
  /\ reapIn' = Timeout
  /\ overdue' = [u \in Urls |-> IF "push" \in sources'[u] THEN overdue[u] ELSE 0]
  /\ UNCHANGED << link, posting, sleep, backoff, losses, slow >>

\* One tick of pushReaperLoop.
Reap ==
  /\ reapIn = 0
  /\ reapPush
  /\ reapIn' = ReapEvery
  /\ overdue' = [u \in Urls |-> IF "push" \in sources'[u] THEN overdue[u] ELSE 0]
  /\ UNCHANGED << link, posting, sleep, backoff, losses, slow >>

\* Time passes, past no sleeper and no reaper that is due. A POST over a good
\* link is answered at once; over a bad one it may hang for as long as it likes.
Tick ==
  /\ up => reapIn > 0
  /\ \A u \in Urls \ posting : sleep[u] > 0
  /\ \A u \in posting : ~(up /\ link[u])
  /\ Age
  /\ sleep' = [u \in Urls |-> IF u \in posting THEN 0 ELSE sleep[u] - 1]
  /\ reapIn' = IF up THEN reapIn - 1 ELSE reapIn
  /\ slow' = slow \cup posting
  /\ overdue' = [u \in Urls |->
       IF "push" \in sources[u] /\ silence'[u] > Timeout /\ overdue[u] <= ReapEvery
       THEN overdue[u] + 1 ELSE overdue[u]]
  /\ UNCHANGED << link, posting, backoff, losses >>

\* The network between a worker and the orchestrator goes or comes back.
LinkChanges(u) ==
  /\ faults < MaxFaults
  /\ faults' = faults + 1
  /\ link' = [link EXCEPT ![u] = ~ link[u]]
  /\ UNCHANGED << up, workers, sources, silence, known, lookup, zone, applied, pushing,
                  posting, sleep, backoff, reapIn, losses, slow, overdue >>

Down ==
  /\ Crash
  /\ overdue' = [u \in Urls |-> 0]
  /\ UNCHANGED << link, posting, sleep, backoff, reapIn, losses, slow >>

HeartbeatNext ==
  \/ Boot
  \/ \E u \in Urls : Post(u) \/ PostSucceeds(u) \/ PostFails(u) \/ LinkChanges(u)
  \/ Reap
  \/ Tick
  \/ Down

\* The loops run and time passes; a POST that hangs fails in the end.
HeartbeatFairness ==
  /\ WF_allVars(Boot)
  /\ \A u \in Urls : WF_allVars(Post(u)) /\ WF_allVars(PostSucceeds(u)) /\ WF_allVars(PostFails(u))
  /\ WF_allVars(Reap)
  /\ WF_allVars(Tick)

HeartbeatSpec == HeartbeatInit /\ [][HeartbeatNext]_allVars /\ HeartbeatFairness

-----------------------------------------------------------------------------
(***************************************************************************)
(* Properties.                                                             *)
(***************************************************************************)

\* One lost heartbeat in a row never takes a live worker out of the pool,
\* however many separate ones it loses over its life.
OneLossTolerated ==
  [][\A u \in Urls \ slow' :
       "push" \in sources[u] /\ losses'[u] <= 1 /\ up' => "push" \in sources'[u]]_allVars

\* A worker gone silent is out of the pool within the timeout plus one
\* reaper period.
SilentWorkerLeaves == \A u \in Urls : overdue[u] <= ReapEvery

\* Once the orchestrator is up and a worker's link holds, the worker is in
\* the pool and stays there, whatever backoff the outage left it with.
WorkerRejoins ==
  \A u \in Urls : <>[](up /\ link[u]) => <>[](u \in workers)

=============================================================================
