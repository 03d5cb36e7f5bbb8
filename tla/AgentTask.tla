------------------------------ MODULE AgentTask ------------------------------
(***************************************************************************)
(* A worker's agent (worker/agent/main.go and drain.go): the handlers of   *)
(* POST /task and the ffmpeg each one runs, the registry by which a task   *)
(* is counted, killed and replaced, and the drain that ends the agent.     *)
(***************************************************************************)
EXTENDS Integers, FiniteSets

CONSTANTS
  Handlers,  \* the requests of POST /task
  Sessions,  \* session ids
  session,   \* taskRequest.SessionID: that of a request retried or moved back is the same
  Nobody,    \* no entry
  Caps       \* what WORKER_MAX_SESSIONS may be: 0 is no cap

ASSUME NobodyAssumption == Nobody \notin Handlers
ASSUME SessionAssumption == session \in [Handlers -> Sessions]
ASSUME SessionsAssumption == IsFiniteSet(Sessions)
ASSUME CapsAssumption == Caps \subseteq Nat

VARIABLES
  cap,        \* maxSessions()
  phase,      \* where each handler is
  cancelled,  \* the handler's ctx is done
  ffmpeg,     \* its child
  registry,   \* taskRegistry.tasks
  stage,      \* of the agent: serving, draining, stopping or exited
  timedOut,   \* waitForSessions gave up
  raced,      \* history: two requests were between the cap check and register
  overtaken,  \* history: tasks whose entry another's unregister deleted
  unseen,     \* history: the handlers past isDraining and not registered at its end
  cut         \* history: the tasks, not told to stop, that died with the agent

agent == << stage, timedOut, unseen, cut >>
vars == << cap, phase, cancelled, ffmpeg, registry, agent, raced, overtaken >>

Phases == {"idle", "arrived", "serving", "admitted", "spawned", "registered", "streaming",
           "unregistering", "ended"}
In(phases) == {h \in Handlers : phase[h] \in phases}
activeCount == Cardinality({s \in Sessions : registry[s] # Nobody})

\* With the types, that no ffmpeg outlives its handler.
TypeOK ==
  /\ cap \in Caps
  /\ phase \in [Handlers -> Phases]
  /\ cancelled \in [Handlers -> BOOLEAN]
  /\ ffmpeg \in [Handlers -> {"none", "running", "exited"}]
  /\ \A h \in Handlers :
       ffmpeg[h] = "running" => phase[h] \in {"spawned", "registered", "streaming"}
  /\ registry \in [Sessions -> Handlers \cup {Nobody}]
  /\ stage \in {"serving", "draining", "stopping", "exited"}
  /\ timedOut \in BOOLEAN
  /\ raced \in BOOLEAN
  /\ overtaken \in SUBSET Handlers
  /\ unseen \in SUBSET Handlers
  /\ cut \in SUBSET Handlers

Init ==
  /\ cap \in Caps
  /\ phase = [h \in Handlers |-> "idle"]
  /\ cancelled = [h \in Handlers |-> FALSE]
  /\ ffmpeg = [h \in Handlers |-> "none"]
  /\ registry = [s \in Sessions |-> Nobody]
  /\ stage = "serving"
  /\ timedOut = FALSE
  /\ raced = FALSE
  /\ overtaken = {}
  /\ unseen = {}
  /\ cut = {}

-----------------------------------------------------------------------------
(***************************************************************************)
(* handleTask. Its steps interleave with those of other requests: nothing  *)
(* is held from one to the next.                                           *)
(***************************************************************************)
Moves(h, from, to) ==
  /\ stage # "exited"
  /\ phase[h] = from
  /\ phase' = [phase EXCEPT ![h] = to]

Arrives(h) ==
  /\ stage \in {"serving", "draining"}
  /\ Moves(h, "idle", "arrived")
  /\ UNCHANGED << cap, cancelled, ffmpeg, registry, agent, raced, overtaken >>

\* isDraining, and the 503.
ChecksDraining(h) ==
  /\ Moves(h, "arrived", IF stage = "serving" THEN "serving" ELSE "ended")
  /\ UNCHANGED << cap, cancelled, ffmpeg, registry, agent, raced, overtaken >>

\* Mutant: one session too many.
AtCapOver == cap > 0 /\ activeCount > cap

AtCap == cap > 0 /\ activeCount >= cap

\* The soft cap, and the 503.
ChecksCap(h) ==
  /\ Moves(h, "serving", IF AtCap THEN "ended" ELSE "admitted")
  /\ raced' = (raced \/ (~ AtCap /\ In({"admitted", "spawned"}) # {}))
  /\ UNCHANGED << cap, cancelled, ffmpeg, registry, agent, overtaken >>

\* cmd.Start, which fails when ctx is done.
Spawns(h) ==
  /\ ~ cancelled[h]
  /\ Moves(h, "admitted", "spawned")
  /\ ffmpeg' = [ffmpeg EXCEPT ![h] = "running"]
  /\ UNCHANGED << cap, cancelled, registry, agent, raced, overtaken >>

\* A pipe or the child cannot be made: 500.
SpawnFails(h) ==
  /\ Moves(h, "admitted", "ended")
  /\ UNCHANGED << cap, cancelled, ffmpeg, registry, agent, raced, overtaken >>

\* Mutant: the task of a retry is dropped in favour of the one that runs.
RegistersFirst(h) ==
  /\ Moves(h, "spawned", "registered")
  /\ registry' = [registry EXCEPT ![session[h]] = IF @ = Nobody THEN h ELSE @]
  /\ UNCHANGED << cap, cancelled, ffmpeg, agent, raced, overtaken >>

\* The prior task of the session, if any, is cancelled.
register(h) ==
  /\ Moves(h, "spawned", "registered")
  /\ cancelled' = [p \in Handlers |-> cancelled[p] \/ p = registry[session[h]]]
  /\ registry' = [registry EXCEPT ![session[h]] = h]
  /\ UNCHANGED << cap, ffmpeg, agent, raced, overtaken >>

\* The 200, and the streams after it.
Answers(h) ==
  /\ Moves(h, "registered", "streaming")
  /\ UNCHANGED << cap, cancelled, ffmpeg, registry, agent, raced, overtaken >>

\* cmd.Wait and the pipes' readers, then the last line: whether ffmpeg succeeded,
\* crashed or was killed, the response ends cleanly.
Waits(h) ==
  /\ ffmpeg[h] = "exited"
  /\ Moves(h, "streaming", "unregistering")
  /\ UNCHANGED << cap, cancelled, ffmpeg, registry, agent, raced, overtaken >>

\* The deferred calls: the session's entry is deleted, whosever it is.
unregister(h) ==
  /\ Moves(h, "unregistering", "ended")
  /\ registry' = [registry EXCEPT ![session[h]] = Nobody]
  /\ overtaken' = overtaken \cup ({registry[session[h]]} \ {h, Nobody})
  /\ cancelled' = [cancelled EXCEPT ![h] = TRUE]
  /\ UNCHANGED << cap, ffmpeg, agent, raced >>

-----------------------------------------------------------------------------
(***************************************************************************)
(* ffmpeg, and those who may end it.                                       *)
(***************************************************************************)
FfmpegStops(h) ==
  /\ ffmpeg[h] = "running"
  /\ ffmpeg' = [ffmpeg EXCEPT ![h] = "exited"]
  /\ UNCHANGED << cap, phase, cancelled, registry, agent, raced, overtaken >>

\* It finishes, or crashes.
FfmpegExits(h) == FfmpegStops(h)

\* Mutant: it is killed by way of the registry.
FfmpegKilledIfRegistered(h) == cancelled[h] /\ registry[session[h]] = h /\ FfmpegStops(h)

\* exec.CommandContext kills it when ctx is done.
FfmpegKilled(h) == cancelled[h] /\ FfmpegStops(h)

\* r.Context(): the orchestrator closes the stream.
Disconnects(h) ==
  /\ phase[h] \notin {"idle", "ended"}
  /\ ~ cancelled[h]
  /\ stage # "exited"
  /\ cancelled' = [cancelled EXCEPT ![h] = TRUE]
  /\ UNCHANGED << cap, phase, ffmpeg, registry, agent, raced, overtaken >>

\* kill. It cancels outside the lock: were the task replaced meanwhile, register has
\* cancelled it, and the one that replaced it goes on.
kill(s) ==
  /\ stage # "exited"
  /\ registry[s] # Nobody
  /\ cancelled' = [cancelled EXCEPT ![registry[s]] = TRUE]
  /\ UNCHANGED << cap, phase, ffmpeg, registry, agent, raced, overtaken >>

-----------------------------------------------------------------------------
(***************************************************************************)
(* serveWithDrain.                                                         *)
(***************************************************************************)
Terminated ==
  /\ stage = "serving"
  /\ stage' = "draining"
  /\ UNCHANGED << cap, phase, cancelled, ffmpeg, registry, timedOut, unseen, cut,
                  raced, overtaken >>

StopsWaiting(late) ==
  /\ stage = "draining"
  /\ stage' = "stopping"
  /\ timedOut' = late
  /\ unseen' = In({"serving", "admitted", "spawned"})
  /\ UNCHANGED << cap, phase, cancelled, ffmpeg, registry, cut, raced, overtaken >>

\* Mutant: one session left is as good as none.
NearlyIdle == activeCount <= 1 /\ StopsWaiting(FALSE)

\* waitForSessions counts no session.
Idle == activeCount = 0 /\ StopsWaiting(FALSE)

\* Mutant: the sessions are waited for, however long they take.
NeverLate == activeCount = 0 /\ StopsWaiting(TRUE)

\* SCALEPLEX_DRAIN_SECONDS have passed, and some are left.
Late == activeCount > 0 /\ StopsWaiting(TRUE)

\* After srv.Shutdown: each child dies by its Pdeathsig.
Exits ==
  /\ stage = "stopping"
  /\ stage' = "exited"
  /\ cut' = {h \in Handlers : ffmpeg[h] = "running" /\ ~ cancelled[h]}
  /\ ffmpeg' = [h \in Handlers |-> IF ffmpeg[h] = "running" THEN "exited" ELSE ffmpeg[h]]
  /\ UNCHANGED << cap, phase, cancelled, registry, timedOut, unseen, raced, overtaken >>

-----------------------------------------------------------------------------
handleTask(h) ==
  \/ ChecksDraining(h) \/ ChecksCap(h) \/ Spawns(h) \/ SpawnFails(h) \/ register(h)
  \/ Answers(h) \/ Waits(h) \/ unregister(h)

serveWithDrain == Idle \/ Late \/ Exits

Next ==
  \/ \E h \in Handlers :
       \/ Arrives(h) \/ handleTask(h) \/ FfmpegExits(h) \/ FfmpegKilled(h)
       \/ Disconnects(h)
  \/ \E s \in Sessions : kill(s)
  \/ Terminated
  \/ serveWithDrain

\* Go runs its goroutines, the kernel delivers a SIGKILL, and the drain has a
\* deadline. Nothing makes a request come, ffmpeg finish or anyone leave.
FairSpec ==
  /\ Init /\ [][Next]_vars
  /\ \A h \in Handlers :
       WF_vars(handleTask(h)) /\ WF_vars(FfmpegKilled(h))
  /\ WF_vars(serveWithDrain)

-----------------------------------------------------------------------------
(***************************************************************************)
(* Properties.                                                             *)
(***************************************************************************)
\* No entry outlasts its task: whatever ended it, the worker neither counts nor
\* refuses for a session that is gone (main.go:567-575).
EntryIsLive ==
  \A s \in Sessions :
    registry[s] # Nobody =>
      /\ session[registry[s]] = s
      /\ phase[registry[s]] \in {"registered", "streaming", "unregistering"}

\* A task that has not been told to stop is counted, can be killed and can be asked
\* for its checkpoint, from before its answer on (the orchestrator's account needs
\* that), unless an older task of its session has returned since and taken the
\* entry away: unregister does not look whose it is (main.go:118-122).
EntryUnlessOvertaken ==
  \A h \in In({"registered", "streaming"}) :
    cancelled[h] \/ registry[session[h]] = h \/ h \in overtaken

\* The two together: the registry tells the sessions that run from those that do
\* not, up to overtaking.
EntryExact == EntryIsLive /\ EntryUnlessOvertaken

\* The cap holds for the tasks not told to stop, as long as no two requests were
\* admitted on the same count and no entry was taken away (main.go:435-439).
CapUnlessRaced ==
  cap > 0 /\ ~ raced /\ overtaken = {} =>
    Cardinality({h \in In({"registered", "streaming"}) : ~ cancelled[h]}) <= cap

\* An agent that exits without having waited to the end of its time cuts no task but
\* those its count did not show: admitted before the signal and not registered when
\* the wait ended, or taken out of the registry (drain.go:57-68).
QuietExit ==
  stage = "exited" /\ ~ timedOut => cut \subseteq unseen \cup overtaken

\* Told to stop, the agent does, however long its sessions run (drain.go:55-99).
DrainEnds == stage = "draining" ~> stage = "exited"

\* A task whose client leaves, that is killed or is replaced, ends, and so does its
\* ffmpeg, registered or not: no orphan holds the GPU (main.go:441, 502).
CancelledEnds ==
  \A h \in Handlers :
    cancelled[h] /\ stage = "serving" ~>
      ffmpeg[h] # "running" /\ (phase[h] = "ended" \/ stage # "serving")

=============================================================================
