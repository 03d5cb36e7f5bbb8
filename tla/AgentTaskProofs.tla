--------------------------- MODULE AgentTaskProofs ---------------------------
(***************************************************************************)
(* Proofs about AgentTask, for any set of requests, any finite set of      *)
(* sessions and any caps.                                                  *)
(***************************************************************************)
EXTENDS AgentTask, FiniteSetTheorems, TLAPS

-----------------------------------------------------------------------------
(***************************************************************************)
(* Type correctness.                                                       *)
(***************************************************************************)
LEMMA TypeInit == Init => TypeOK
BY DEF Init, TypeOK, Phases

LEMMA HandlerKeepsType ==
  ASSUME TypeOK, NEW h \in Handlers, Arrives(h) \/ handleTask(h)
  PROVE  TypeOK'
<1> USE DEF TypeOK, Moves
<1>1. CASE Arrives(h)
  BY <1>1 DEF Arrives, agent, Phases
<1>2. CASE ChecksDraining(h)
  BY <1>2 DEF ChecksDraining, agent, Phases
<1>3. CASE ChecksCap(h)
  <2>1. raced' \in BOOLEAN
    BY <1>3 DEF ChecksCap
  <2> QED
    BY <1>3, <2>1 DEF ChecksCap, agent, Phases
<1>4. CASE Spawns(h)
  BY <1>4 DEF Spawns, agent, Phases
<1>5. CASE SpawnFails(h)
  BY <1>5 DEF SpawnFails, agent, Phases
<1>6. CASE register(h)
  <2>1. cancelled' \in [Handlers -> BOOLEAN]
    BY <1>6 DEF register
  <2>2. registry' \in [Sessions -> Handlers \cup {Nobody}]
    BY <1>6, SessionAssumption DEF register
  <2> QED
    BY <1>6, <2>1, <2>2 DEF register, agent, Phases
<1>7. CASE Answers(h)
  BY <1>7 DEF Answers, agent, Phases
<1>8. CASE Waits(h)
  BY <1>8 DEF Waits, agent, Phases
<1>9. CASE unregister(h)
  <2>1. registry[session[h]] \in Handlers \cup {Nobody}
    BY SessionAssumption
  <2>2. overtaken' \in SUBSET Handlers
    BY <1>9, <2>1 DEF unregister
  <2> QED
    BY <1>9, <2>2 DEF unregister, agent, Phases
<1> QED
  BY <1>1, <1>2, <1>3, <1>4, <1>5, <1>6, <1>7, <1>8, <1>9 DEF handleTask

LEMMA OthersKeepType ==
  ASSUME TypeOK,
         \/ \E h \in Handlers : FfmpegExits(h) \/ FfmpegKilled(h) \/ Disconnects(h)
         \/ \E s \in Sessions : kill(s)
         \/ Terminated
         \/ serveWithDrain
  PROVE  TypeOK'
<1> USE DEF TypeOK
<1>1. ASSUME NEW h \in Handlers, FfmpegStops(h)
      PROVE  TypeOK'
  BY <1>1 DEF FfmpegStops, agent
<1>2. ASSUME NEW h \in Handlers, Disconnects(h)
      PROVE  TypeOK'
  BY <1>2 DEF Disconnects, agent
<1>3. ASSUME NEW s \in Sessions, kill(s)
      PROVE  TypeOK'
  BY <1>3 DEF kill, agent
<1>4. CASE Terminated
  BY <1>4 DEF Terminated
<1>5. ASSUME NEW late \in BOOLEAN, StopsWaiting(late)
      PROVE  TypeOK'
  BY <1>5 DEF StopsWaiting, In
<1>6. CASE Exits
  BY <1>6 DEF Exits
<1> QED
  BY <1>1, <1>2, <1>3, <1>4, <1>5, <1>6 DEF FfmpegExits, FfmpegKilled, serveWithDrain, Idle, Late

LEMMA TypeStep == TypeOK /\ [Next]_vars => TypeOK'
<1> SUFFICES ASSUME TypeOK, [Next]_vars PROVE TypeOK'
  OBVIOUS
<1>1. CASE UNCHANGED vars
  BY <1>1 DEF vars, agent, TypeOK
<1>2. CASE Next
  BY <1>2, HandlerKeepsType, OthersKeepType DEF Next
<1> QED
  BY <1>1, <1>2

\* The types, and that no ffmpeg outlives its handler.
THEOREM TypeCorrect == FairSpec => []TypeOK
<1>1. Init => TypeOK
  BY TypeInit
<1>2. TypeOK /\ [Next]_vars => TypeOK'
  BY TypeStep
<1> QED
  BY <1>1, <1>2, PTL DEF FairSpec

-----------------------------------------------------------------------------
(***************************************************************************)
(* The registry.  Two steps write it; no other step takes a handler that   *)
(* has an entry out of the phases in which it may have one.                *)
(***************************************************************************)
Entered == {"registered", "streaming", "unregistering"}

\* A step that leaves the registry alone, and takes no handler out of Entered.
LEMMA EntriesStay ==
  ASSUME TypeOK, EntryIsLive, registry' = registry,
         \A h \in Handlers : phase[h] \in Entered => phase'[h] \in Entered
  PROVE  EntryIsLive'
BY NobodyAssumption DEF EntryIsLive, TypeOK, Entered

\* What is neither register nor unregister.
Elsewhere ==
  \/ \E h \in Handlers :
       \/ Arrives(h) \/ ChecksDraining(h) \/ ChecksCap(h) \/ Spawns(h) \/ SpawnFails(h)
       \/ Answers(h) \/ Waits(h)
       \/ FfmpegStops(h) \/ Disconnects(h)
  \/ \E s \in Sessions : kill(s)
  \/ Terminated \/ (\E late \in BOOLEAN : StopsWaiting(late)) \/ Exits
  \/ UNCHANGED vars

LEMMA StepCases ==
  ASSUME [Next]_vars
  PROVE  Elsewhere \/ \E h \in Handlers : register(h) \/ unregister(h)
BY DEF Next, handleTask, serveWithDrain, Idle, Late, FfmpegExits, FfmpegKilled, Elsewhere

LEMMA ElsewherePhases ==
  ASSUME TypeOK, Elsewhere
  PROVE  /\ registry' = registry /\ overtaken' = overtaken /\ cap' = cap
         /\ \A h \in Handlers : phase[h] \in Entered => phase'[h] \in Entered
         /\ \A h \in Handlers : phase'[h] \in {"registered", "streaming"}
              => phase[h] \in {"registered", "streaming"}
         /\ \A h \in Handlers : cancelled[h] => cancelled'[h]
<1> USE DEF TypeOK, Moves, Entered
<1>1. ASSUME NEW h \in Handlers,
             \/ Arrives(h) \/ ChecksDraining(h) \/ ChecksCap(h) \/ Spawns(h) \/ SpawnFails(h)
             \/ Answers(h) \/ Waits(h)
      PROVE  /\ registry' = registry /\ overtaken' = overtaken /\ cap' = cap
             /\ cancelled' = cancelled
             /\ \A g \in Handlers : phase[g] \in Entered => phase'[g] \in Entered
             /\ \A g \in Handlers : phase'[g] \in {"registered", "streaming"}
                  => phase[g] \in {"registered", "streaming"}
  BY <1>1 DEF Arrives, ChecksDraining, ChecksCap, Spawns, SpawnFails, Answers, Waits
<1>2. ASSUME NEW h \in Handlers, FfmpegStops(h) \/ Disconnects(h)
      PROVE  /\ registry' = registry /\ overtaken' = overtaken /\ cap' = cap
             /\ phase' = phase
             /\ \A g \in Handlers : cancelled[g] => cancelled'[g]
  BY <1>2 DEF FfmpegStops, Disconnects
<1>3. ASSUME NEW s \in Sessions, kill(s)
      PROVE  /\ registry' = registry /\ overtaken' = overtaken /\ cap' = cap
             /\ phase' = phase
             /\ \A g \in Handlers : cancelled[g] => cancelled'[g]
  BY <1>3 DEF kill
<1>4. ASSUME Terminated \/ (\E late \in BOOLEAN : StopsWaiting(late)) \/ Exits \/ UNCHANGED vars
      PROVE  /\ registry' = registry /\ overtaken' = overtaken /\ cap' = cap
             /\ phase' = phase
             /\ cancelled' = cancelled
  BY <1>4 DEF Terminated, StopsWaiting, Exits, vars
<1> QED
  BY <1>1, <1>2, <1>3, <1>4 DEF Elsewhere

LEMMA EntryStep == TypeOK /\ EntryIsLive /\ [Next]_vars => EntryIsLive'
<1> SUFFICES ASSUME TypeOK, EntryIsLive, [Next]_vars PROVE EntryIsLive'
  OBVIOUS
<1>1. CASE Elsewhere
  BY <1>1, ElsewherePhases, EntriesStay
<1>2. ASSUME NEW h \in Handlers, register(h)
      PROVE  EntryIsLive'
  BY <1>2, SessionAssumption, NobodyAssumption DEF register, Moves, EntryIsLive, TypeOK
<1>3. ASSUME NEW h \in Handlers, unregister(h)
      PROVE  EntryIsLive'
  BY <1>3, SessionAssumption, NobodyAssumption DEF unregister, Moves, EntryIsLive, TypeOK
<1> QED
  BY <1>1, <1>2, <1>3, StepCases

LEMMA OwnStep == TypeOK /\ EntryUnlessOvertaken /\ [Next]_vars => EntryUnlessOvertaken'
<1> SUFFICES ASSUME TypeOK, EntryUnlessOvertaken, [Next]_vars PROVE EntryUnlessOvertaken'
  OBVIOUS
<1>1. CASE Elsewhere
  BY <1>1, ElsewherePhases DEF EntryUnlessOvertaken, In
<1>2. ASSUME NEW h \in Handlers, register(h)
      PROVE  EntryUnlessOvertaken'
  BY <1>2, SessionAssumption DEF register, Moves, EntryUnlessOvertaken, In, TypeOK
<1>3. ASSUME NEW h \in Handlers, unregister(h)
      PROVE  EntryUnlessOvertaken'
  <2>1. ASSUME NEW g \in In({"registered", "streaming"})'
        PROVE  (cancelled[g] \/ registry[session[g]] = g \/ g \in overtaken)'
    <3>1. g # h /\ g \in In({"registered", "streaming"})
      BY <1>3, <2>1 DEF unregister, Moves, In, TypeOK
    <3>2. cancelled[g] \/ registry[session[g]] = g \/ g \in overtaken
      BY <3>1 DEF EntryUnlessOvertaken
    <3>3. cancelled[g] => cancelled'[g]
      BY <1>3, <3>1 DEF unregister, TypeOK
    <3>4. CASE registry[session[g]] = g /\ session[g] = session[h]
      BY <1>3, <3>1, <3>4, NobodyAssumption DEF unregister, In
    <3>5. CASE registry[session[g]] = g /\ session[g] # session[h]
      BY <1>3, <3>1, <3>5, SessionAssumption DEF unregister, In, TypeOK
    <3>6. g \in overtaken => g \in overtaken'
      BY <1>3 DEF unregister
    <3> QED
      BY <3>2, <3>3, <3>4, <3>5, <3>6
  <2> QED
    BY <2>1 DEF EntryUnlessOvertaken
<1> QED
  BY <1>1, <1>2, <1>3, StepCases

\* No entry outlasts its task.
THEOREM EntriesAlwaysLive == FairSpec => []EntryIsLive
<1>1. Init => EntryIsLive
  BY DEF Init, EntryIsLive
<1>2. TypeOK /\ EntryIsLive /\ [Next]_vars => EntryIsLive'
  BY EntryStep
<1> QED
  BY <1>1, <1>2, TypeCorrect, PTL DEF FairSpec

\* A task not told to stop has its entry, or lost it to an older one's unregister.
THEOREM TasksKeepEntries == FairSpec => []EntryUnlessOvertaken
<1>1. Init => EntryUnlessOvertaken
  BY DEF Init, EntryUnlessOvertaken, In
<1>2. TypeOK /\ EntryUnlessOvertaken /\ [Next]_vars => EntryUnlessOvertaken'
  BY OwnStep
<1> QED
  BY <1>1, <1>2, TypeCorrect, PTL DEF FairSpec

\* The registry names the tasks that run, and no others, but for overtaking.
THEOREM EntriesAlwaysExact == FairSpec => []EntryExact
BY EntriesAlwaysLive, TasksKeepEntries, PTL DEF EntryExact

-----------------------------------------------------------------------------
(***************************************************************************)
(* The cap.  A request between its cap check and its registration is alone *)
(* there, unless two have raced; so the count it was admitted on can only  *)
(* have gone down since.                                                   *)
(***************************************************************************)
Between == In({"admitted", "spawned"})
Taken == {s \in Sessions : registry[s] # Nobody}

Alone == ~ raced => \A g, h \in Between : g = h

Room == cap > 0 /\ ~ raced => /\ Cardinality(Taken) <= cap
                              /\ Between # {} => Cardinality(Taken) < cap

LEMMA TakenCounts ==
  /\ IsFiniteSet(Taken) /\ Cardinality(Taken) \in Nat
  /\ IsFiniteSet(Taken') /\ Cardinality(Taken') \in Nat
<1>1. Taken \in SUBSET Sessions /\ Taken' \in SUBSET Sessions
  BY DEF Taken
<1>2. IsFiniteSet(Taken) /\ IsFiniteSet(Taken')
  BY <1>1, SessionsAssumption, FS_Subset
<1> QED
  BY <1>2, FS_CardinalityType

\* The registry no fuller, nobody admitted: there is still room.
LEMMA RoomStays ==
  ASSUME TypeOK, Alone, Room, Taken' \subseteq Taken, Between' \subseteq Between,
         raced' = raced, cap' = cap
  PROVE  Alone' /\ Room'
<1>1. Alone'
  BY DEF Alone
<1>2. Cardinality(Taken') <= Cardinality(Taken)
  BY TakenCounts, FS_Subset
<1>3. cap \in Nat
  BY CapsAssumption DEF TypeOK
<1>4. ASSUME cap > 0, ~ raced
      PROVE  /\ Cardinality(Taken') <= cap
             /\ Between' # {} => Cardinality(Taken') < cap
  <2>1. Cardinality(Taken) <= cap /\ (Between # {} => Cardinality(Taken) < cap)
    BY <1>4 DEF Room
  <2>2. Cardinality(Taken') <= cap
    BY <1>2, <1>3, <2>1, TakenCounts
  <2>3. ASSUME Between' # {}
        PROVE  Cardinality(Taken') < cap
    <3>1. Between # {}
      BY <2>3
    <3>2. Cardinality(Taken) < cap
      BY <2>1, <3>1
    <3> QED
      BY <1>2, <1>3, <3>2, TakenCounts
  <2> QED
    BY <2>2, <2>3
<1>5. Room'
  BY <1>4 DEF Room
<1> QED
  BY <1>1, <1>5

LEMMA ChecksCapKeepsRoom ==
  ASSUME TypeOK, Alone, Room, NEW h \in Handlers, ChecksCap(h)
  PROVE  Alone' /\ Room'
<1>1. Taken' = Taken /\ cap' = cap
  BY DEF ChecksCap, Taken
<1>2. CASE AtCap
  <2>1. raced' = raced /\ Between' \subseteq Between
    BY <1>2 DEF ChecksCap, Moves, Between, In, TypeOK
  <2> QED
    BY <1>1, <2>1, RoomStays
<1>3. CASE ~ AtCap
  <2>1. cap > 0 => Cardinality(Taken) < cap
    <3>1. cap \in Nat
      BY CapsAssumption DEF TypeOK
    <3>2. ~ (cap > 0 /\ Cardinality(Taken) >= cap)
      BY <1>3 DEF AtCap, activeCount, Taken
    <3> QED
      BY <3>1, <3>2, TakenCounts
  <2>2. Between' \subseteq Between \cup {h}
    BY <1>3 DEF ChecksCap, Moves, Between, In, TypeOK
  <2>3. ~ raced' => ~ raced /\ Between = {}
    BY <1>3 DEF ChecksCap, Between
  <2>4. Alone'
    BY <2>2, <2>3 DEF Alone
  <2>5. Room'
    <3>1. cap > 0 => Cardinality(Taken) <= cap
      BY <2>1, TakenCounts, CapsAssumption DEF TypeOK
    <3> QED
      BY <1>1, <2>1, <3>1 DEF Room
  <2> QED
    BY <2>4, <2>5
<1> QED
  BY <1>2, <1>3

LEMMA RegisterKeepsRoom ==
  ASSUME TypeOK, Alone, Room, NEW h \in Handlers, register(h)
  PROVE  Alone' /\ Room'
<1>1. /\ h \in Between /\ Between' = Between \ {h}
      /\ raced' = raced /\ cap' = cap
  BY DEF register, Moves, Between, In, TypeOK
<1>2. Alone'
  BY <1>1 DEF Alone
<1>3. ~ raced => Between' = {}
  BY <1>1 DEF Alone
<1>4. Taken' = Taken \cup {session[h]}
  BY SessionAssumption, NobodyAssumption DEF register, Taken, TypeOK
<1>5. Cardinality(Taken') <= Cardinality(Taken) + 1
  <2>1. Cardinality(Taken') \in {Cardinality(Taken), Cardinality(Taken) + 1}
    BY <1>4, TakenCounts, FS_AddElement
  <2> QED
    BY <2>1, TakenCounts
<1>6. cap \in Nat
  BY CapsAssumption DEF TypeOK
<1>7. ASSUME cap > 0, ~ raced
      PROVE  Cardinality(Taken') <= cap
  <2>1. Cardinality(Taken) < cap
    BY <1>1, <1>7 DEF Room
  <2> QED
    BY <1>5, <1>6, <2>1, TakenCounts
<1>8. Room'
  BY <1>1, <1>3, <1>7 DEF Room
<1> QED
  BY <1>2, <1>8

LEMMA RoomStep == TypeOK /\ Alone /\ Room /\ [Next]_vars => Alone' /\ Room'
<1> SUFFICES ASSUME TypeOK, Alone, Room, [Next]_vars PROVE Alone' /\ Room'
  OBVIOUS
<1>1. ASSUME NEW h \in Handlers, register(h)
      PROVE  Alone' /\ Room'
  BY <1>1, RegisterKeepsRoom
<1>2. ASSUME NEW h \in Handlers, ChecksCap(h)
      PROVE  Alone' /\ Room'
  BY <1>2, ChecksCapKeepsRoom
<1>3. ASSUME NEW h \in Handlers, unregister(h)
      PROVE  Alone' /\ Room'
  <2>1. Between' \subseteq Between /\ raced' = raced /\ cap' = cap
    BY <1>3 DEF unregister, Moves, Between, In, TypeOK
  <2>2. Taken' \subseteq Taken
    BY <1>3, SessionAssumption DEF unregister, Taken, TypeOK
  <2> QED
    BY <2>1, <2>2, RoomStays
<1>4. ASSUME NEW h \in Handlers,
             \/ Arrives(h) \/ ChecksDraining(h) \/ Spawns(h) \/ SpawnFails(h)
             \/ Answers(h) \/ Waits(h)
      PROVE  Alone' /\ Room'
  <2>1. Between' \subseteq Between
    BY <1>4 DEF Arrives, ChecksDraining, Spawns, SpawnFails, Answers, Waits, Moves, Between,
                In, TypeOK
  <2>2. raced' = raced /\ cap' = cap /\ registry' = registry
    BY <1>4 DEF Arrives, ChecksDraining, Spawns, SpawnFails, Answers, Waits
  <2>3. Taken' = Taken
    BY <2>2 DEF Taken
  <2> QED
    BY <2>1, <2>2, <2>3, RoomStays
<1>5. CASE UNCHANGED << cap, phase, registry, raced >>
  <2>1. Between' = Between /\ Taken' = Taken
    BY <1>5 DEF Between, In, Taken
  <2> QED
    BY <1>5, <2>1, RoomStays
<1>6. ASSUME \/ \E h \in Handlers : FfmpegStops(h) \/ Disconnects(h)
             \/ \E s \in Sessions : kill(s)
             \/ Terminated \/ (\E late \in BOOLEAN : StopsWaiting(late)) \/ Exits
             \/ UNCHANGED vars
      PROVE  UNCHANGED << cap, phase, registry, raced >>
  BY <1>6 DEF FfmpegStops, Disconnects, kill, Terminated, StopsWaiting, Exits, vars
<1> QED
  BY <1>1, <1>2, <1>3, <1>4, <1>5, <1>6, StepCases DEF Elsewhere

\* The tasks that have their entries are no more than the entries.
LEMMA EntriesBoundTasks ==
  ASSUME TypeOK, EntryUnlessOvertaken, overtaken = {}
  PROVE  LET n == Cardinality({h \in In({"registered", "streaming"}) : ~ cancelled[h]})
         IN  n \in Nat /\ n <= Cardinality(Taken)
<1> DEFINE Tasks == {h \in In({"registered", "streaming"}) : ~ cancelled[h]}
           own == [h \in Tasks |-> session[h]]
<1>1. ASSUME NEW h \in Tasks
      PROVE  session[h] \in Taken /\ registry[session[h]] = h
  BY SessionAssumption, NobodyAssumption DEF EntryUnlessOvertaken, Taken, In
<1>2. own \in [Tasks -> Taken]
  BY <1>1
<1>3. \A g, h \in Tasks : own[g] = own[h] => g = h
  BY <1>1
<1>4. own \in Injection(Tasks, Taken)
  BY <1>2, <1>3 DEF Injection, IsInjective
<1> HIDE DEF Tasks, own
<1>5. IsFiniteSet(Tasks) /\ Cardinality(Tasks) <= Cardinality(Taken)
  BY <1>4, TakenCounts, FS_Injection
<1>6. Cardinality(Tasks) \in Nat
  BY <1>5, FS_CardinalityType
<1> QED
  BY <1>5, <1>6 DEF Tasks

\* Without a race for the cap, and with every entry in place, the cap holds.
THEOREM CapAlwaysHeld == FairSpec => []CapUnlessRaced
<1>1. Init => Alone /\ Room
  <2> SUFFICES ASSUME Init PROVE Alone /\ Room
    OBVIOUS
  <2>1. Taken = {} /\ Between = {}
    BY DEF Init, Taken, Between, In
  <2>2. Cardinality(Taken) = 0
    BY <2>1, FS_EmptySet
  <2>3. cap \in Nat
    BY CapsAssumption DEF Init
  <2> QED
    BY <2>1, <2>2, <2>3 DEF Alone, Room
<1>2. TypeOK /\ (Alone /\ Room) /\ [Next]_vars => (Alone /\ Room)'
  BY RoomStep
<1>3. TypeOK /\ EntryUnlessOvertaken /\ Room => CapUnlessRaced
  <2> SUFFICES ASSUME TypeOK, EntryUnlessOvertaken, Room, cap > 0, ~ raced, overtaken = {}
               PROVE  Cardinality({h \in In({"registered", "streaming"}) : ~ cancelled[h]}) <= cap
    BY DEF CapUnlessRaced
  <2> DEFINE n == Cardinality({h \in In({"registered", "streaming"}) : ~ cancelled[h]})
  <2>1. n \in Nat /\ n <= Cardinality(Taken) /\ Cardinality(Taken) <= cap
    BY EntriesBoundTasks DEF Room
  <2> HIDE DEF n
  <2>2. n <= cap
    BY <2>1, TakenCounts, CapsAssumption DEF TypeOK
  <2> QED
    BY <2>2 DEF n
<1> QED
  BY <1>1, <1>2, <1>3, TypeCorrect, TasksKeepEntries, PTL DEF FairSpec

-----------------------------------------------------------------------------
(***************************************************************************)
(* The exit.  Once the wait is over no request is admitted, so those it    *)
(* did not see are the last; the others it counted, and it counted none.   *)
(***************************************************************************)
AllSeen == stage = "stopping" => In({"serving", "admitted", "spawned"}) \subseteq unseen

Settled ==
  stage = "stopping" /\ ~ timedOut =>
    \A h \in Handlers :
      ffmpeg[h] = "running" => cancelled[h] \/ h \in unseen \cup overtaken

Quiet == AllSeen /\ Settled /\ QuietExit

\* What has been excused stays so while the agent stays where it is.
LEMMA QuietStays ==
  ASSUME TypeOK, Quiet, UNCHANGED agent,
         \A h \in Handlers : cancelled[h] => cancelled'[h],
         overtaken \subseteq overtaken',
         stage = "stopping" =>
           /\ In({"serving", "admitted", "spawned"})' \subseteq In({"serving", "admitted", "spawned"})
           /\ \A h \in Handlers : ffmpeg'[h] = "running" => ffmpeg[h] = "running" \/ h \in unseen
  PROVE  Quiet'
<1>1. AllSeen'
  BY DEF Quiet, AllSeen, agent
<1>2. Settled'
  BY DEF Quiet, Settled, agent
<1>3. QuietExit'
  BY DEF Quiet, QuietExit, agent
<1> QED
  BY <1>1, <1>2, <1>3 DEF Quiet

\* The wait that found no session: who runs has been told to stop, is not yet
\* registered, or has lost its entry.
LEMMA IdleIsSettled ==
  ASSUME TypeOK, EntryUnlessOvertaken, Idle
  PROVE  Settled'
<1>1. Taken = {}
  BY TakenCounts, FS_EmptySet DEF Idle, activeCount, Taken
<1>2. ASSUME NEW h \in Handlers, ffmpeg[h] = "running"
      PROVE  cancelled[h] \/ h \in unseen' \cup overtaken
  <2>1. CASE phase[h] = "spawned"
    BY <2>1 DEF Idle, StopsWaiting, In
  <2>2. CASE phase[h] \in {"registered", "streaming"}
    <3>1. registry[session[h]] # h
      BY <1>1, SessionAssumption, NobodyAssumption DEF Taken
    <3> QED
      BY <2>2, <3>1 DEF EntryUnlessOvertaken, In
  <2> QED
    BY <1>2, <2>1, <2>2 DEF TypeOK
<1> QED
  BY <1>2 DEF Idle, StopsWaiting, Settled

LEMMA QuietStep == TypeOK /\ EntryUnlessOvertaken /\ Quiet /\ [Next]_vars => Quiet'
<1> SUFFICES ASSUME TypeOK, EntryUnlessOvertaken, Quiet, [Next]_vars PROVE Quiet'
  OBVIOUS
<1> DEFINE Late3 == {"serving", "admitted", "spawned"}
<1>1. ASSUME NEW h \in Handlers, Arrives(h) \/ handleTask(h)
      PROVE  Quiet'
  <2>1. UNCHANGED agent /\ overtaken \subseteq overtaken'
    BY <1>1 DEF Arrives, handleTask, ChecksDraining, ChecksCap, Spawns, SpawnFails, register,
                Answers, Waits, unregister
  <2>2. \A g \in Handlers : cancelled[g] => cancelled'[g]
    BY <1>1 DEF Arrives, handleTask, ChecksDraining, ChecksCap, Spawns, SpawnFails, register,
                Answers, Waits, unregister, TypeOK
  <2>3. stage = "stopping" => In(Late3)' \subseteq In(Late3)
    BY <1>1 DEF Arrives, handleTask, ChecksDraining, ChecksCap, Spawns, SpawnFails, register,
                Answers, Waits, unregister, Moves, In, TypeOK
  <2>4. ASSUME stage = "stopping", NEW g \in Handlers, ffmpeg'[g] = "running"
        PROVE  ffmpeg[g] = "running" \/ g \in unseen
    <3>1. CASE Spawns(h)
      <4>1. h \in unseen
        BY <2>4, <3>1 DEF Spawns, Moves, Quiet, AllSeen, In
      <4>2. g # h => ffmpeg'[g] = ffmpeg[g]
        BY <3>1 DEF Spawns, TypeOK
      <4> QED
        BY <2>4, <4>1, <4>2
    <3>2. CASE ~ Spawns(h)
      BY <1>1, <2>4, <3>2 DEF Arrives, handleTask, ChecksDraining, ChecksCap, SpawnFails, register,
                Answers, Waits, unregister
    <3> QED
      BY <3>1, <3>2
  <2> QED
    BY <2>1, <2>2, <2>3, <2>4, QuietStays
<1>2. ASSUME \/ \E h \in Handlers : FfmpegStops(h) \/ Disconnects(h)
             \/ \E s \in Sessions : kill(s)
             \/ UNCHANGED vars
      PROVE  Quiet'
  <2>1. UNCHANGED << agent, overtaken, phase >>
    BY <1>2 DEF FfmpegStops, Disconnects, kill, vars
  <2>2. \A g \in Handlers : cancelled[g] => cancelled'[g]
    BY <1>2 DEF FfmpegStops, Disconnects, kill, vars, TypeOK
  <2>3. \A g \in Handlers : ffmpeg'[g] = "running" => ffmpeg[g] = "running"
    BY <1>2 DEF FfmpegStops, Disconnects, kill, vars, TypeOK
  <2>4. In(Late3)' = In(Late3)
    BY <2>1 DEF In
  <2> QED
    BY <2>1, <2>2, <2>3, <2>4, QuietStays
<1>3. CASE Terminated
  BY <1>3 DEF Terminated, Quiet, AllSeen, Settled, QuietExit
<1>4. CASE Idle
  <2>1. AllSeen' /\ QuietExit'
    BY <1>4 DEF Idle, StopsWaiting, AllSeen, QuietExit, In
  <2> QED
    BY <1>4, <2>1, IdleIsSettled DEF Quiet
<1>5. CASE Late
  BY <1>5 DEF Late, StopsWaiting, Quiet, AllSeen, Settled, QuietExit, In
<1>6. CASE Exits
  <2>1. AllSeen' /\ Settled'
    BY <1>6 DEF Exits, AllSeen, Settled
  <2>2. QuietExit'
    BY <1>6 DEF Exits, Quiet, Settled, QuietExit
  <2> QED
    BY <2>1, <2>2 DEF Quiet
<1> QED
  BY <1>1, <1>2, <1>3, <1>4, <1>5, <1>6 DEF Next, serveWithDrain, FfmpegExits, FfmpegKilled

\* An exit that waited long enough cuts only tasks its count could not show.
THEOREM ExitAlwaysQuiet == FairSpec => []QuietExit
<1>1. Init => Quiet
  BY DEF Init, Quiet, AllSeen, Settled, QuietExit
<1>2. TypeOK /\ EntryUnlessOvertaken /\ Quiet /\ [Next]_vars => Quiet'
  BY QuietStep
<1>3. Quiet => QuietExit
  BY DEF Quiet
<1> QED
  BY <1>1, <1>2, <1>3, TypeCorrect, TasksKeepEntries, PTL DEF FairSpec
=============================================================================
