-------------------------- MODULE CheckpointProofs --------------------------
(***************************************************************************)
(* Proofs about Checkpoint, for any length of segment, any positions the   *)
(* user may play from or seek to, and any number of segments and attempts. *)
(***************************************************************************)
EXTENDS Checkpoint, TLAPS

-----------------------------------------------------------------------------
(***************************************************************************)
(* Type correctness.                                                       *)
(***************************************************************************)
LEMMA RequestType ==
  ASSUME NEW dash \in Muxers, NEW time \in Nat
  PROVE  /\ Request(dash, time) \in Argv
         /\ Request(dash, time).dash = dash /\ Request(dash, time).seek = time
<1>1. time \div Duration \in Nat
  BY DurationAssumption
<1> QED BY <1>1 DEF Request, Argv

LEMMA FirstType ==
  ASSUME NEW argv \in Argv
  PROVE  First(argv) \in Nat /\ SegmentTime(argv) \in Nat /\ argv.dash \in Muxers /\ argv.seek \in Nat
BY DurationAssumption DEF First, Argv, SegmentTime

LEMMA ResumedType ==
  ASSUME NEW argv \in Argv, hint \in Hints \cup {NoHint}
  PROVE  Resumed(argv) \in Argv
<1>1. CASE Applicable(argv)
  <2>1. hint.origin \in Nat /\ hint.last \in Nat
    BY <1>1 DEF Applicable, Hints
  <2>2. hint.last * SegmentTime(argv) \in Nat
    BY <2>1, FirstType
  <2>3. hint.origin + hint.last * SegmentTime(argv) \in Nat /\ hint.last + 1 \in Nat
    BY <2>1, <2>2
  <2>4. Inject(argv) \in Argv
    BY <2>3 DEF Inject, Argv
  <2> QED BY <1>1, <2>4 DEF Resumed
<1>2. CASE ~ Applicable(argv)
  BY <1>2 DEF Resumed
<1> QED BY <1>1, <1>2

LEMMA StartType ==
  ASSUME NEW argv \in Argv, NEW n \in Nat
  PROVE  StartOf(argv, n) \in Int /\ WrittenWith(argv, n) \in Int
<1>1. argv.seek \in Int /\ First(argv) \in Int /\ Duration \in Int
  BY FirstType, DurationAssumption
<1>2. \A i \in Int : argv.seek + (i - First(argv)) * Duration \in Int
  BY <1>1
<1> QED BY <1>2 DEF StartOf, WrittenWith

\* What starts an attempt types what it sets.
LEMMA StartsType ==
  ASSUME TypeOK, NEW argv \in Argv, Starts(argv)
  PROVE  /\ phase' = "streaming" /\ body' = argv /\ next' = First(argv) /\ lastSeq' = 0
         /\ next' \in Nat /\ starts' \in 0..MaxStarts
BY FirstType, BoundsAssumption DEF Starts, TypeOK

LEMMA DropsType ==
  ASSUME TypeOK, NEW argv, DropStale(argv)
  PROVE  hint' \in Hints \cup {NoHint}
BY DEF DropStale, TypeOK

LEMMA TaskType ==
  ASSUME TypeOK, NEW argv \in Argv, handleTask(argv)
  PROVE  /\ phase' = "streaming" /\ body' = Resumed(argv) /\ body' \in Argv /\ origin' = body'.seek
         /\ next' = First(body') /\ next' \in Nat /\ lastSeq' = 0 /\ origin' \in Nat
         /\ starts' \in 0..MaxStarts /\ hint' \in Hints \cup {NoHint}
         /\ begun' = begun \cup {origin'} /\ begun' \subseteq Nat
<1>1. Resumed(argv) \in Argv
  BY ResumedType DEF TypeOK
<1>2. Resumed(argv).seek \in Nat
  BY <1>1, FirstType
<1>3. Starts(Resumed(argv)) /\ DropStale(argv)
  BY DEF handleTask
<1> QED BY <1>1, <1>2, <1>3, StartsType, DropsType DEF handleTask, TypeOK

LEMMA TypeInit == Init => TypeOK
<1> SUFFICES ASSUME Init PROVE TypeOK
  OBVIOUS
<1>1. asked \in Nat
  BY TimesAssumption DEF Init
<1>2. request \in Argv /\ request = body
  BY <1>1, RequestType DEF Init
<1>3. First(body) \in Nat
  BY <1>2, FirstType
<1>4. /\ phase = "idle" /\ origin = asked /\ next = First(body) /\ lastSeq = 0
      /\ hint = NoHint /\ fetched = NoHint /\ starts = 0 /\ begun = {} /\ back = FALSE
      /\ told = NothingTold(asked) /\ resumed = FALSE /\ written = asked
  BY DEF Init
<1>5. told \in [start : Nat, next : Nat]
  BY <1>1, <1>4 DEF NothingTold
<1>6. back \in BOOLEAN /\ resumed \in BOOLEAN
  BY <1>4
<1>7. starts \in 0..MaxStarts
  BY <1>4, BoundsAssumption
<1>8. request \in Argv /\ body \in Argv /\ origin \in Nat /\ next \in Nat /\ asked \in Nat /\ written \in Nat
  BY <1>1, <1>2, <1>3, <1>4
<1> QED BY <1>4, <1>5, <1>6, <1>7, <1>8 DEF TypeOK

LEMMA TypeStep == TypeOK /\ [Next]_vars => TypeOK'
<1> SUFFICES ASSUME TypeOK, [Next]_vars PROVE TypeOK'
  OBVIOUS
<1>1. CASE PlexSpawns
  <2>1. request \in Argv /\ handleTask(request)
    BY <1>1 DEF PlexSpawns, TypeOK
  <2>2. resumed' \in BOOLEAN
    BY <1>1 DEF PlexSpawns, NotesResumed
  <2> QED BY <1>1, <2>1, <2>2, TaskType DEF PlexSpawns, TypeOK
<1>2. CASE PlexIsRefused
  <2>1. hint' \in Hints \cup {NoHint}
    BY <1>2, DropsType DEF PlexIsRefused
  <2> QED BY <1>2, <2>1 DEF PlexIsRefused, history, TypeOK
<1>3. ASSUME NEW time \in UserSeeks, UserSeeksTo(time) PROVE TypeOK'
  <2>1. time \in Nat /\ request.dash \in Muxers
    BY TimesAssumption, FirstType DEF TypeOK
  <2>2. request' \in Argv
    BY <1>3, <2>1, RequestType DEF UserSeeksTo
  <2>3. handleTask(Request(request.dash, time)) /\ request' = Request(request.dash, time)
    BY <1>3 DEF UserSeeksTo
  <2>4. back' \in BOOLEAN /\ resumed' \in BOOLEAN /\ asked' = time /\ written' = time
        /\ told' = NothingTold(time) /\ fetched' = fetched
    BY <1>3 DEF UserSeeksTo, Applicable
  <2> QED BY <2>1, <2>2, <2>3, <2>4, TaskType DEF TypeOK, NothingTold
<1>4. CASE TaskDone \/ TaskEnds \/ StreamBreaks
  BY <1>4 DEF TaskDone, TaskEnds, StreamBreaks, history, TypeOK
<1>5. CASE MoveAccepted
  <2>1. Resumed(body) \in Argv
    BY ResumedType DEF TypeOK
  <2>2. hint' \in Hints \cup {NoHint}
    BY <1>5, DropsType DEF MoveAccepted
  <2>3. resumed' \in BOOLEAN
    BY <1>5 DEF MoveAccepted, NotesResumed
  <2> QED BY <1>5, <2>1, <2>2, <2>3, StartsType DEF MoveAccepted, TypeOK
<1>6. CASE MoveRefused
  <2>1. Resumed(body) \in Argv /\ First(Resumed(body)) \in Nat
    BY ResumedType, FirstType DEF TypeOK
  <2>2. hint' \in Hints \cup {NoHint}
    BY <1>6, DropsType DEF MoveRefused
  <2>3. resumed' \in BOOLEAN
    BY <1>6 DEF MoveRefused, NotesResumed
  <2> QED BY <1>6, <2>1, <2>2, <2>3 DEF MoveRefused, TypeOK
<1>7. CASE SegmentAppears
  <2>1. First(body) \in Nat /\ next \in Nat /\ written \in Nat /\ WrittenWith(body, next) \in Int
    BY FirstType, StartType DEF TypeOK
  <2>2. next' = next + 1 /\ written' \in Nat
    BY <1>7, <2>1 DEF SegmentAppears
  <2>3. lastSeq' = 0 \/ lastSeq' \in First(body)'..(next' - 1)
    BY <1>7, <2>1, <2>2 DEF SegmentAppears, TypeOK, First
  <2> QED BY <1>7, <2>1, <2>2, <2>3 DEF SegmentAppears, TypeOK
<1>8. CASE watchChunkSequence \/ watchAndPatchMatroskaChunks
  <2>1. Notes
    BY <1>8 DEF watchChunkSequence, watchAndPatchMatroskaChunks
  <2>2. First(body) \in Nat /\ next \in Nat
    BY FirstType DEF TypeOK
  <2>3. lastSeq' \in First(body)..(next - 1)
    BY <2>1, <2>2 DEF Notes
  <2> QED BY <2>1, <2>3 DEF Notes, history, TypeOK, First
<1>9. CASE fetchLastSeq
  <2>1. lastSeq \in Nat
    BY FirstType DEF TypeOK
  <2> QED BY <1>9, <2>1 DEF fetchLastSeq, history, TypeOK, Hints
<1>10. CASE put
  <2>1. told' \in [start : Nat, next : Nat]
    <3>1. CASE fetched.origin = origin /\ 0 < fetched.last /\ fetched.last = lastSeq
      <4>1. First(body) \in Nat /\ body.seek \in Nat /\ next \in Nat /\ fetched \in Hints
        BY <1>10, FirstType DEF put, TypeOK
      <4>2. lastSeq \in Nat /\ lastSeq >= First(body)
        BY <3>1, <4>1 DEF TypeOK, Hints
      <4>3. (lastSeq - First(body)) * Duration \in Nat
        <5>1. lastSeq - First(body) \in Nat
          BY <4>1, <4>2
        <5> QED BY <5>1, DurationAssumption
      <4>4. StartOf(body, lastSeq) \in Nat /\ lastSeq + 1 \in Nat
        BY <4>1, <4>2, <4>3 DEF StartOf
      <4> QED BY <1>10, <3>1, <4>4 DEF put
    <3>2. CASE ~ (fetched.origin = origin /\ 0 < fetched.last /\ fetched.last = lastSeq)
      BY <1>10, <3>2 DEF put, TypeOK
    <3> QED BY <3>1, <3>2
  <2> QED BY <1>10, <2>1 DEF put, TypeOK
<1>11. CASE Expires
  BY <1>11 DEF Expires, TypeOK, NothingTold
<1>12. CASE UNCHANGED vars
  BY <1>12 DEF vars, history, TypeOK, First
<1> QED BY <1>1, <1>2, <1>3, <1>4, <1>5, <1>6, <1>7, <1>8, <1>9, <1>10, <1>11, <1>12 DEF Next

\* Checkpoint: every reachable state is well typed; in particular the worker's
\* counter holds no number its attempt has not given a segment (lastSeq, which each
\* start resets).
THEOREM TypeCorrect == Spec => []TypeOK
BY TypeInit, TypeStep, PTL DEF Spec

-----------------------------------------------------------------------------
(***************************************************************************)
(* Every hint is about a position a task began at.                         *)
(***************************************************************************)
OriginsBegan ==
  /\ hint # NoHint => hint.origin \in begun
  /\ fetched # NoHint => fetched.origin \in begun
  /\ phase # "idle" => origin \in begun

LEMMA DropsKeep ==
  ASSUME NEW argv, DropStale(argv)
  PROVE  hint' = hint \/ (hint' = NoHint /\ hint.last > 0 /\ argv.seek # hint.origin)
BY DEF DropStale

LEMMA OriginsStep == TypeOK /\ OriginsBegan /\ [Next]_vars => OriginsBegan'
<1> SUFFICES ASSUME TypeOK, OriginsBegan, [Next]_vars PROVE OriginsBegan'
  OBVIOUS
<1>1. ASSUME NEW argv \in Argv, handleTask(argv), fetched' = fetched PROVE OriginsBegan'
  <2>1. hint' = hint \/ hint' = NoHint
    BY <1>1, DropsKeep DEF handleTask
  <2>2. begun' = begun \cup {origin'}
    BY <1>1 DEF handleTask
  <2> QED BY <1>1, <2>1, <2>2 DEF OriginsBegan
<1>2. CASE PlexSpawns
  BY <1>1, <1>2 DEF PlexSpawns, TypeOK
<1>3. ASSUME NEW time \in UserSeeks, UserSeeksTo(time) PROVE OriginsBegan'
  <2>1. Request(request.dash, time) \in Argv
    BY TimesAssumption, FirstType, RequestType DEF TypeOK
  <2>2. handleTask(Request(request.dash, time)) /\ fetched' = fetched
    BY <1>3 DEF UserSeeksTo
  <2> QED BY <1>1, <2>1, <2>2
<1>4. CASE PlexIsRefused
  <2>1. hint' = hint \/ hint' = NoHint
    BY <1>4, DropsKeep DEF PlexIsRefused
  <2> QED BY <1>4, <2>1 DEF PlexIsRefused, history, OriginsBegan
<1>5. CASE MoveAccepted \/ MoveRefused
  <2>1. hint' = hint \/ hint' = NoHint
    BY <1>5, DropsKeep DEF MoveAccepted, MoveRefused
  <2>2. phase # "idle" /\ UNCHANGED << origin, fetched, begun >>
    BY <1>5 DEF MoveAccepted, MoveRefused
  <2> QED BY <2>1, <2>2 DEF OriginsBegan
<1>6. CASE TaskDone \/ TaskEnds \/ StreamBreaks
  BY <1>6 DEF TaskDone, TaskEnds, StreamBreaks, history, OriginsBegan
<1>7. CASE SegmentAppears \/ watchChunkSequence \/ watchAndPatchMatroskaChunks
  BY <1>7 DEF SegmentAppears, watchChunkSequence, watchAndPatchMatroskaChunks, Notes, history,
              OriginsBegan
<1>8. CASE fetchLastSeq
  BY <1>8 DEF fetchLastSeq, history, OriginsBegan
<1>9. CASE put \/ Expires
  BY <1>9 DEF put, Expires, OriginsBegan
<1>10. CASE UNCHANGED vars
  BY <1>10 DEF vars, history, OriginsBegan
<1> QED BY <1>2, <1>3, <1>4, <1>5, <1>6, <1>7, <1>8, <1>9, <1>10 DEF Next

LEMMA BegunInvariant == Spec => [](TypeOK /\ OriginsBegan)
<1>1. Init => TypeOK /\ OriginsBegan
  BY TypeInit DEF Init, OriginsBegan
<1>2. TypeOK /\ OriginsBegan /\ [Next]_vars => (TypeOK /\ OriginsBegan)'
  BY TypeStep, OriginsStep
<1> QED BY <1>1, <1>2, PTL DEF Spec

\* Where no task began, no hint applies.
LEMMA ElsewhereStartsThere ==
  ASSUME TypeOK, OriginsBegan, NEW argv \in Argv, argv.seek \notin begun
  PROVE  ~ Applicable(argv) /\ Resumed(argv) = argv
BY DEF OriginsBegan, Applicable, Resumed

\* Checkpoint: a seek to where no task of the session began starts there, whatever the
\* cache holds and however late an answer about another position was stored (the
\* comparison of seeks in resumeIfApplicable, checkpoint.go:228).
THEOREM SeekAlwaysHonoured == Spec => SeekHonoured
<1>1. TypeOK /\ OriginsBegan /\ [Next]_vars =>
        [\A time \in UserSeeks : UserSeeksTo(time) /\ time \notin begun => body'.seek = time]_vars
  <2>1. ASSUME TypeOK, OriginsBegan, NEW time \in UserSeeks, UserSeeksTo(time), time \notin begun
        PROVE  body'.seek = time
    <3> DEFINE argv == Request(request.dash, time)
    <3>1. argv \in Argv /\ argv.seek = time
      BY <2>1, TimesAssumption, FirstType, RequestType DEF TypeOK
    <3>2. handleTask(argv)
      BY <2>1 DEF UserSeeksTo
    <3> HIDE DEF argv
    <3>3. body' = argv
      BY <2>1, <3>1, <3>2, TaskType, ElsewhereStartsThere
    <3> QED BY <3>1, <3>3
  <2> QED BY <2>1
<1> QED BY <1>1, BegunInvariant, PTL DEF Spec, SeekHonoured

-----------------------------------------------------------------------------
(***************************************************************************)
(* A session the segment muxer plays from the start, until it is resumed.  *)
(***************************************************************************)
Plain == ~ request.dash /\ asked = 0 /\ ~ resumed /\ ~ back

\* Its segments are numbered from 0 and begin at their number.
PlainArgv(argv) == ~ argv.dash /\ argv.seek = 0 /\ argv.startNumber = 0

\* What the worker counts, what is on its way and what is cached has been written.
CountsWritten ==
  /\ next >= 1 => (next - 1) * Duration <= written
  /\ lastSeq * Duration <= written
  /\ hint # NoHint /\ hint.origin = 0 => hint.last * Duration <= written
  /\ fetched # NoHint /\ fetched.origin = 0 => fetched.last * Duration <= written

\* What the cache was told of it holds still, and no answer, and no count an answer
\* may be read from, is behind it.
ToldIsCached ==
  \/ told = NothingTold(0)
  \/ /\ told.next > 1 /\ told.start = (told.next - 1) * Duration
     /\ hint # NoHint /\ hint.origin = 0 /\ told.next - 1 <= hint.last
     /\ fetched # NoHint => fetched.origin = 0 /\ told.next - 1 <= fetched.last
     /\ phase = "streaming" => told.next - 1 <= lastSeq

PlainStory ==
  /\ request = Request(request.dash, asked)
  /\ Plain => /\ origin = 0 /\ PlainArgv(request) /\ PlainArgv(body)
              /\ CountsWritten
              /\ ToldIsCached

LEMMA Scale ==
  ASSUME NEW a \in Nat, NEW b \in Nat, a <= b
  PROVE  a * Duration <= b * Duration /\ a * Duration \in Nat /\ b * Duration \in Nat
<1>1. Duration \in Nat
  BY DurationAssumption
<1>2. PICK e \in Nat : b = a + e
  <2>1. b - a \in Nat /\ b = a + (b - a)
    OBVIOUS
  <2> QED BY <2>1
<1>3. b * Duration = a * Duration + e * Duration /\ e * Duration \in Nat /\ a * Duration \in Nat
  BY <1>1, <1>2
<1> QED BY <1>3

LEMMA PlainRequest ==
  ASSUME NEW dash, ~ dash
  PROVE  PlainArgv(Request(dash, 0))
<1>1. 0 \div Duration = 0
  BY DurationAssumption
<1> QED BY <1>1 DEF Request, PlainArgv

LEMMA PlainNumbers ==
  ASSUME NEW argv, PlainArgv(argv)
  PROVE  /\ First(argv) = 0 /\ SegmentTime(argv) = Duration
         /\ \A n \in Nat : StartOf(argv, n) = n * Duration /\ WrittenWith(argv, n) = n * Duration
<1>1. First(argv) = 0 /\ SegmentTime(argv) = Duration
  BY DEF PlainArgv, First, SegmentTime
<1>2. ASSUME NEW n \in Nat PROVE StartOf(argv, n) = n * Duration
  <2>1. n - 0 = n /\ n * Duration \in Nat
    BY DurationAssumption
  <2> QED BY <1>1, <2>1 DEF StartOf, PlainArgv
<1> QED BY <1>1, <1>2 DEF WrittenWith, PlainArgv

LEMMA Counts ==
  ASSUME TypeOK
  PROVE  /\ lastSeq \in Nat /\ next \in Nat /\ written \in Nat
         /\ hint # NoHint => hint \in Hints /\ hint.origin \in Nat /\ hint.last \in Nat
         /\ fetched # NoHint => fetched \in Hints /\ fetched.origin \in Nat /\ fetched.last \in Nat
         /\ told.start \in Nat /\ told.next \in Nat
<1>1. First(body) \in Nat
  BY FirstType DEF TypeOK
<1> QED BY <1>1 DEF TypeOK, Hints

\* Until a hint applies, the cache was told of nothing.
LEMMA NothingToldYet ==
  ASSUME TypeOK, Plain, PlainStory, NEW argv, PlainArgv(argv), ~ Applicable(argv)
  PROVE  told = NothingTold(0)
<1>1. SUFFICES ASSUME told.next > 1, hint # NoHint, hint.origin = 0, told.next - 1 <= hint.last
               PROVE  FALSE
  BY DEF PlainStory, ToldIsCached
<1>2. hint.last > 0
  BY <1>1, Counts
<1> QED BY <1>1, <1>2 DEF Applicable, PlainArgv

\* An attempt that no hint applies to begins the story again.
LEMMA FreshStory ==
  ASSUME TypeOK, Plain, PlainStory, NEW argv, PlainArgv(argv), ~ Applicable(argv),
         DropStale(argv), lastSeq' = 0, next' = 0, UNCHANGED << told, written, fetched >>
  PROVE  CountsWritten' /\ ToldIsCached'
<1>1. hint' # NoHint => hint' = hint
  BY DropsKeep
<1>2. 0 * Duration = 0 /\ written \in Nat
  BY Counts, DurationAssumption
<1>3. CountsWritten'
  BY <1>1, <1>2 DEF CountsWritten, PlainStory
<1>4. told = NothingTold(0)
  BY NothingToldYet
<1> QED BY <1>3, <1>4 DEF ToldIsCached, NothingTold

LEMMA PlainInit == Init => PlainStory
<1> SUFFICES ASSUME Init PROVE PlainStory
  OBVIOUS
<1>1. request = Request(request.dash, asked) /\ body = request
  BY DEF Init, Request
<1>2. ASSUME Plain PROVE PlainArgv(request) /\ next = 0
  <2>1. PlainArgv(request)
    BY <1>1, <1>2, PlainRequest DEF Plain
  <2> QED BY <1>1, <2>1, PlainNumbers DEF Init
<1>3. 0 * Duration = 0
  BY DurationAssumption
<1> QED BY <1>1, <1>2, <1>3 DEF Init, Plain, PlainStory, CountsWritten, ToldIsCached

LEMMA PlainStep ==
  ASSUME TypeOK, OriginsBegan, PlainStory, [Next]_vars
  PROVE  PlainStory'
<1>1. ASSUME NEW time \in UserSeeks, UserSeeksTo(time) PROVE PlainStory'
  <2> DEFINE argv == Request(request.dash, time)
  <2>1. /\ request' = argv /\ asked' = time /\ handleTask(argv) /\ written' = time
        /\ told' = NothingTold(time) /\ fetched' = fetched /\ back' = (time \in begun)
    BY <1>1 DEF UserSeeksTo
  <2>2. argv \in Argv /\ argv.dash = request.dash /\ argv.seek = time
    BY TimesAssumption, FirstType, RequestType DEF TypeOK
  <2>3. request' = Request(request'.dash, asked')
    BY <2>1, <2>2
  <2>4. SUFFICES ASSUME Plain'
                 PROVE  /\ origin' = 0 /\ PlainArgv(request') /\ PlainArgv(body')
                        /\ CountsWritten' /\ ToldIsCached'
    BY <2>3 DEF PlainStory, PlainArgv
  <2>5. time = 0 /\ 0 \notin begun /\ ~ argv.dash
    BY <2>1, <2>2, <2>4 DEF Plain
  <2>6. PlainArgv(argv)
    BY <2>2, <2>5, PlainRequest
  <2> HIDE DEF argv
  <2>7. body' = argv /\ origin' = 0 /\ lastSeq' = 0 /\ next' = 0
    BY <2>1, <2>2, <2>5, <2>6, TaskType, ElsewhereStartsThere, PlainNumbers
  <2>8. hint' # NoHint => hint' = hint
    BY <2>1, DropsKeep DEF handleTask
  <2>9. /\ hint' # NoHint => hint'.origin # 0
        /\ fetched' # NoHint => fetched'.origin # 0
    BY <2>1, <2>5, <2>8 DEF OriginsBegan
  <2>10. 0 * Duration = 0
    BY DurationAssumption
  <2> QED BY <2>1, <2>5, <2>6, <2>7, <2>9, <2>10 DEF CountsWritten, ToldIsCached
<1>2. ASSUME ~ \E time \in UserSeeks : UserSeeksTo(time)
      PROVE  request' = request /\ asked' = asked /\ (Plain' => Plain)
  <2>1. request' = request /\ asked' = asked /\ back' = back /\ (resumed' = FALSE => resumed = FALSE)
    BY <1>2 DEF Next, PlexSpawns, PlexIsRefused, TaskDone, TaskEnds, StreamBreaks, MoveAccepted,
                MoveRefused, SegmentAppears, watchChunkSequence, watchAndPatchMatroskaChunks, Notes,
                fetchLastSeq, put, Expires, vars, history, NotesResumed, TypeOK
  <2> QED BY <2>1 DEF Plain
<1>3. CASE ~ \E time \in UserSeeks : UserSeeksTo(time)
  <2>1. request' = request /\ asked' = asked /\ (Plain' => Plain)
    BY <1>2, <1>3
  <2>2. SUFFICES ASSUME Plain', Plain
                 PROVE  origin' = 0 /\ PlainArgv(body') /\ CountsWritten' /\ ToldIsCached'
    BY <2>1 DEF PlainStory, PlainArgv
  <2>3. /\ origin = 0 /\ PlainArgv(request) /\ PlainArgv(body) /\ CountsWritten /\ ToldIsCached
    BY <2>2 DEF PlainStory
  <2>4. /\ First(body) = 0 /\ First(request) = 0
        /\ \A n \in Nat : StartOf(body, n) = n * Duration /\ WrittenWith(body, n) = n * Duration
    BY <2>3, PlainNumbers
  <2>5. CASE PlexSpawns
    <3>1. ~ Applicable(request) /\ handleTask(request) /\ UNCHANGED << told, written, fetched >>
      BY <2>2, <2>5 DEF PlexSpawns, NotesResumed, Plain
    <3>2. body' = request /\ origin' = 0 /\ lastSeq' = 0 /\ next' = 0
      BY <3>1, <2>3, <2>4 DEF handleTask, Resumed, Starts, PlainArgv
    <3> QED BY <3>1, <3>2, <2>2, <2>3, FreshStory DEF handleTask
  <2>6. CASE MoveAccepted \/ MoveRefused
    <3>1. /\ ~ Applicable(body) /\ UNCHANGED << told, written, fetched, origin >> /\ DropStale(body)
      BY <2>2, <2>6 DEF MoveAccepted, MoveRefused, NotesResumed, Plain
    <3>2. body' = body /\ lastSeq' = 0 /\ next' = 0
      BY <3>1, <2>4, <2>6 DEF MoveAccepted, MoveRefused, Resumed, Starts, First
    <3> QED BY <3>1, <3>2, <2>2, <2>3, FreshStory
  <2>7. CASE PlexIsRefused
    <3>1. hint' = hint \/ (hint' = NoHint /\ hint.last > 0 /\ request.seek # hint.origin)
      BY <2>7, DropsKeep DEF PlexIsRefused
    <3>2. UNCHANGED << phase, origin, body, next, lastSeq, fetched, told, written >>
      BY <2>7 DEF PlexIsRefused, history
    <3>3. CountsWritten'
      BY <3>1, <3>2, <2>3 DEF CountsWritten
    <3>4. ToldIsCached'
      BY <3>1, <3>2, <2>3 DEF ToldIsCached, PlainArgv
    <3> QED BY <3>2, <3>3, <3>4, <2>3
  <2>8. CASE TaskDone \/ TaskEnds \/ StreamBreaks
    BY <2>3, <2>8 DEF TaskDone, TaskEnds, StreamBreaks, history, CountsWritten, ToldIsCached
  <2>9. CASE SegmentAppears
    <3>1. /\ UNCHANGED << phase, origin, body, lastSeq, hint, fetched, told >> /\ next' = next + 1
          /\ written' = IF WrittenWith(body, next) > written THEN WrittenWith(body, next) ELSE written
      BY <2>9 DEF SegmentAppears
    <3>2. WrittenWith(body, next) = next * Duration /\ next * Duration \in Nat
      BY <2>4, Counts, Scale
    <3>3. written \in Nat /\ written' \in Nat /\ written <= written' /\ next * Duration <= written'
      BY <3>1, <3>2, Counts
    <3>4. CountsWritten'
      <4>1. next' - 1 = next
        BY <3>1, Counts
      <4>2. lastSeq * Duration \in Nat /\ lastSeq * Duration <= written
        BY <2>3, Counts, Scale DEF CountsWritten
      <4>3. hint # NoHint /\ hint.origin = 0 =>
              hint.last * Duration \in Nat /\ hint.last * Duration <= written
        BY <2>3, Counts, Scale DEF CountsWritten
      <4>4. fetched # NoHint /\ fetched.origin = 0 =>
              fetched.last * Duration \in Nat /\ fetched.last * Duration <= written
        BY <2>3, Counts, Scale DEF CountsWritten
      <4>5. lastSeq' * Duration <= written'
        BY <3>1, <3>3, <4>2
      <4>6. hint' # NoHint /\ hint'.origin = 0 => hint'.last * Duration <= written'
        BY <3>1, <3>3, <4>3
      <4>7. fetched' # NoHint /\ fetched'.origin = 0 => fetched'.last * Duration <= written'
        BY <3>1, <3>3, <4>4
      <4> QED BY <3>3, <4>1, <4>5, <4>6, <4>7 DEF CountsWritten
    <3> QED BY <3>1, <3>4, <2>3 DEF ToldIsCached
  <2>10. CASE watchChunkSequence \/ watchAndPatchMatroskaChunks
    <3>1. /\ UNCHANGED << phase, origin, body, next, hint, fetched, told, written >>
          /\ lastSeq < next - 1 /\ lastSeq' = next - 1
      BY <2>10 DEF watchChunkSequence, watchAndPatchMatroskaChunks, Notes, history
    <3>2. lastSeq \in Nat /\ next \in Nat /\ next >= 1 /\ told.next \in Nat
      BY <3>1, Counts
    <3>3. CountsWritten'
      BY <3>1, <3>2, <2>3 DEF CountsWritten
    <3>4. told.next - 1 <= lastSeq => told.next - 1 <= lastSeq'
      BY <3>1, <3>2
    <3> QED BY <3>1, <3>3, <3>4, <2>3 DEF ToldIsCached
  <2>11. CASE fetchLastSeq
    <3>1. /\ UNCHANGED << phase, origin, body, next, lastSeq, hint, told, written >>
          /\ phase = "streaming" /\ fetched' = [origin |-> origin, last |-> lastSeq]
      BY <2>11 DEF fetchLastSeq, history
    <3>2. fetched'.origin = 0 /\ fetched'.last = lastSeq
      BY <3>1, <2>3
    <3> QED BY <3>1, <3>2, <2>3 DEF CountsWritten, ToldIsCached
  <2>12. CASE put
    <3>1. /\ UNCHANGED << phase, origin, body, next, lastSeq, written >>
          /\ fetched # NoHint /\ hint' = fetched /\ fetched' = NoHint
          /\ told' = IF fetched.origin = origin /\ 0 < fetched.last /\ fetched.last = lastSeq
                       THEN [start |-> StartOf(body, lastSeq), next |-> lastSeq + 1]
                       ELSE told
      BY <2>12 DEF put
    <3>2. CountsWritten'
      BY <3>1, <2>3 DEF CountsWritten
    <3>3. lastSeq \in Nat /\ fetched.last \in Nat /\ told.next \in Nat
      BY <3>1, Counts
    <3>4. CASE fetched.origin = origin /\ 0 < fetched.last /\ fetched.last = lastSeq
      <4>1. told' = [start |-> lastSeq * Duration, next |-> lastSeq + 1]
        BY <3>1, <3>3, <3>4, <2>4
      <4>2. told'.next = lastSeq + 1 /\ told'.start = lastSeq * Duration
        BY <4>1
      <4>3. told'.next > 1 /\ told'.next - 1 = lastSeq
        BY <4>2, <3>3, <3>4
      <4> QED BY <3>1, <3>2, <3>3, <3>4, <4>2, <4>3, <2>3 DEF ToldIsCached
    <3>5. CASE ~ (fetched.origin = origin /\ 0 < fetched.last /\ fetched.last = lastSeq)
      BY <3>1, <3>2, <3>5, <2>3 DEF ToldIsCached
    <3> QED BY <3>4, <3>5
  <2>13. CASE Expires
    <3>1. /\ UNCHANGED << origin, body, next, lastSeq, fetched, written >>
          /\ hint' = NoHint /\ told' = NothingTold(0)
      BY <2>2, <2>13 DEF Expires, Plain
    <3> QED BY <3>1, <2>3 DEF CountsWritten, ToldIsCached, NothingTold
  <2>14. CASE UNCHANGED vars
    BY <2>3, <2>14 DEF vars, history, CountsWritten, ToldIsCached
  <2> QED BY <1>3, <2>5, <2>6, <2>7, <2>8, <2>9, <2>10, <2>11, <2>12, <2>13, <2>14 DEF Next
<1> QED BY <1>1, <1>3

IInv == TypeOK /\ OriginsBegan /\ PlainStory

LEMMA InductiveInvariant == Spec => []IInv
<1>1. Init => IInv
  BY TypeInit, PlainInit DEF Init, OriginsBegan, IInv
<1>2. IInv /\ [Next]_vars => IInv'
  BY TypeStep, OriginsStep, PlainStep DEF IInv
<1> QED BY <1>1, <1>2, PTL DEF Spec

\* What an attempt on a plain argv is given, resumed or not.
LEMMA ResumesWhereTold ==
  ASSUME IInv, Plain, NEW argv, PlainArgv(argv), body' = Resumed(argv)
  PROVE  /\ told.start <= body'.seek
         /\ body'.seek <= written
         /\ First(body') >= told.next
<1>1. PlainStory /\ TypeOK /\ CountsWritten /\ ToldIsCached
  BY DEF IInv, PlainStory
<1>2. told.next \in Nat /\ written \in Nat
  BY <1>1, Counts
<1>3. CASE Applicable(argv)
  <2>1. hint # NoHint /\ hint.origin = 0 /\ hint.last \in Nat /\ hint.last > 0
    BY <1>1, <1>3, Counts DEF Applicable, PlainArgv
  <2>2. SegmentTime(argv) = Duration
    BY PlainNumbers
  <2>3. hint.last * Duration \in Nat /\ hint.last * Duration <= written
    BY <1>1, <2>1, Scale DEF CountsWritten
  <2>4. body'.seek = hint.last * Duration /\ ~ body'.dash /\ body'.startNumber = hint.last + 1
    <3>1. 0 + hint.last * Duration = hint.last * Duration
      BY <2>3
    <3> QED BY <1>3, <2>1, <2>2, <3>1 DEF Resumed, Inject, PlainArgv
  <2>5. First(body') = hint.last + 1
    BY <2>4 DEF First
  <2>6. CASE told = NothingTold(0)
    BY <2>1, <2>3, <2>4, <2>5, <2>6 DEF NothingTold
  <2>7. CASE /\ told.next > 1 /\ told.start = (told.next - 1) * Duration
             /\ told.next - 1 <= hint.last
    <3>1. told.next - 1 \in Nat
      BY <1>2, <2>7
    <3>2. told.start <= hint.last * Duration
      BY <3>1, <2>1, <2>7, Scale
    <3>3. hint.last + 1 >= told.next
      BY <1>2, <2>1, <2>7
    <3> QED BY <2>3, <2>4, <2>5, <3>2, <3>3
  <2> QED BY <1>1, <2>6, <2>7 DEF ToldIsCached
<1>4. CASE ~ Applicable(argv)
  <2>1. told = NothingTold(0)
    BY <1>1, <1>4, NothingToldYet
  <2>2. body' = argv /\ body'.seek = 0 /\ First(body') = 0
    BY <1>4, PlainNumbers DEF Resumed, PlainArgv
  <2> QED BY <1>2, <2>1, <2>2 DEF NothingTold
<1> QED BY <1>3, <1>4

\* Checkpoint: the first resumption of a session that the segment muxer plays from the
\* start begins no earlier than what the cache was last told of, no later than what is
\* written, and writes under no number the cache was told of (resumeIfApplicable,
\* main.go:879-884; checkpoint.go:234-235), for any segment length, however many
\* refusals, breaks and late answers came before it.
THEOREM FirstResumeAlwaysExact == Spec => FirstResumeExact
<1>1. IInv /\ [Next]_vars => [FirstResume => /\ told.start <= body'.seek
                                             /\ body'.seek <= written
                                             /\ First(body') >= told.next]_vars
  <2>1. ASSUME IInv, Next, FirstResume
        PROVE  /\ told.start <= body'.seek
               /\ body'.seek <= written
               /\ First(body') >= told.next
    <3>1. Plain /\ starts' > starts /\ request' = request
      BY <2>1 DEF FirstResume, Resumes, Plain
    <3>2. PlainArgv(request) /\ PlainArgv(body) /\ starts \in Nat
      BY <2>1, <3>1, BoundsAssumption DEF IInv, PlainStory, TypeOK
    <3>3. body' = Resumed(request) \/ body' = Resumed(body)
      <4>1. starts' # starts
        BY <3>1, <3>2
      <4>2. CASE PlexSpawns
        BY <4>2 DEF PlexSpawns, handleTask, Starts
      <4>3. CASE \E time \in UserSeeks : UserSeeksTo(time)
        <5>1. handleTask(request)
          BY <4>3, <3>1 DEF UserSeeksTo
        <5> QED BY <5>1 DEF handleTask, Starts
      <4>4. CASE MoveAccepted
        BY <4>4 DEF MoveAccepted, Starts
      <4> QED BY <2>1, <4>1, <4>2, <4>3, <4>4
              DEF Next, PlexIsRefused, TaskDone, TaskEnds, StreamBreaks, MoveRefused, SegmentAppears,
                  watchChunkSequence, watchAndPatchMatroskaChunks, Notes, fetchLastSeq, put, Expires,
                  history
    <3> QED BY <2>1, <3>1, <3>2, <3>3, ResumesWhereTold
  <2> QED BY <2>1
<1> QED BY <1>1, InductiveInvariant, PTL DEF Spec, FirstResumeExact

=============================================================================
