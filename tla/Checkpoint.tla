----------------------------- MODULE Checkpoint -----------------------------
(***************************************************************************)
(* Resuming a Plex transcode session (orchestrator/checkpoint.go, fed by   *)
(* the worker's segment watchers through /checkpoint): the hint cached for *)
(* the session's UUID, and the moves and retries that start from it.       *)
(* Times are in seconds of media.                                          *)
(***************************************************************************)
EXTENDS Integers

CONSTANTS
  Muxers,       \* whether PMS may ask for -f dash, and for the segment muxer
  Duration,     \* how long a segment is
  Plays,        \* where a session may start: 0, or where the user left off
  UserSeeks,    \* where the user may seek to
  NoHint,       \* no entry in cpCache.m, or no answer under way
  MaxSegments,  \* bound on the segments of an attempt, for model checking
  MaxStarts     \* bound on the attempts accepted, for model checking

ASSUME DurationAssumption == Duration \in Nat \ {0}
ASSUME MuxersAssumption == Muxers \subseteq BOOLEAN
ASSUME TimesAssumption == Plays \subseteq Nat /\ UserSeeks \subseteq Nat
ASSUME BoundsAssumption == MaxSegments \in Nat /\ MaxStarts \in Nat

VARIABLES
  phase,    \* no task, one streaming, one recover moves, or one ended by EOF
  request,  \* the argv PMS sends for the session
  origin,   \* the -ss of pmsStream.args, which pollCheckpoint is given
  body,     \* the argv of the attempt: recover's body
  next,     \* the number ffmpeg gives its next segment
  lastSeq,  \* runningTask.lastSeq on the worker
  hint,     \* cpCache.m for the session's UUID
  fetched,  \* the worker's answer, fetched by a poller and not yet put
  starts,   \* attempts accepted
  asked,    \* history: where the user last asked to be
  begun,    \* history: where the tasks so far began
  back,     \* history: where the user last asked to be, a task had begun before
  told,     \* history: what the cache was last told of
  resumed,  \* history: an argv has been given resume flags since the last ask
  written   \* history: up to where the media has been written in full

history == << asked, begun, back, told, resumed, written >>
vars == << phase, request, origin, body, next, lastSeq, hint, fetched, starts, history >>

-----------------------------------------------------------------------------
(***************************************************************************)
(* The options resumption reads and writes.                                *)
(***************************************************************************)
Argv == [dash : Muxers, seek : Nat, startNumber : Nat, skipTo : Nat]
Hints == [origin : Nat, last : Nat]

\* segmentTimeFromArgs: -segment_time is the segment muxer's option; a DASH
\* argv has -seg_duration, and gets the default.
SegmentTime(argv) == IF argv.dash THEN 1 ELSE Duration

\* What PMS asks for at a time: DASH counts segments from 1 with
\* -skip_to_segment, the segment muxer from 0 with -segment_start_number.
Request(dash, time) ==
  [dash |-> dash,
   seek |-> time,
   startNumber |-> IF dash THEN 0 ELSE time \div Duration,
   skipTo |-> IF dash THEN 1 + time \div Duration ELSE 0]

\* The number ffmpeg gives its first segment: a muxer takes its own option.
First(argv) == IF argv.dash THEN argv.skipTo ELSE argv.startNumber

\* The media at which segment n starts in the output of an argv.
StartOf(argv, n) == argv.seek + (n - First(argv)) * Duration

\* A dash chunk appears under its name when it is finished, a segment of the
\* segment muxer when it is opened.
WrittenWith(argv, n) == IF argv.dash THEN StartOf(argv, n + 1) ELSE StartOf(argv, n)

NothingTold(time) == [start |-> time, next |-> 0]

TypeOK ==
  /\ phase \in {"idle", "streaming", "moving", "done"}
  /\ request \in Argv
  /\ origin \in Nat
  /\ body \in Argv
  /\ next \in Nat
  /\ lastSeq = 0 \/ lastSeq \in First(body)..(next - 1)
  /\ hint \in Hints \cup {NoHint}
  /\ fetched \in Hints \cup {NoHint}
  /\ starts \in 0..MaxStarts
  /\ asked \in Nat
  /\ begun \subseteq Nat
  /\ back \in BOOLEAN
  /\ told \in [start : Nat, next : Nat]
  /\ resumed \in BOOLEAN
  /\ written \in Nat

Init ==
  /\ phase = "idle"
  /\ asked \in Plays
  /\ request \in {Request(dash, asked) : dash \in Muxers}
  /\ origin = asked
  /\ body = request
  /\ next = First(body)
  /\ lastSeq = 0
  /\ hint = NoHint
  /\ fetched = NoHint
  /\ starts = 0
  /\ begun = {}
  /\ back = FALSE
  /\ told = NothingTold(asked)
  /\ resumed = FALSE
  /\ written = asked

-----------------------------------------------------------------------------
(***************************************************************************)
(* resumeIfApplicable and injectResumeFlags.                               *)
(***************************************************************************)
\* Mutant: any hint of the session will do.
AnyHint(argv) == hint # NoHint /\ hint.last > 0

Applicable(argv) == hint # NoHint /\ hint.last > 0 /\ argv.seek = hint.origin

\* Mutant: the number of the segment that was written last.
InjectSameNumber(argv) ==
  [argv EXCEPT !.seek = hint.origin + hint.last * SegmentTime(argv), !.startNumber = hint.last]

Inject(argv) ==
  [argv EXCEPT !.seek = hint.origin + hint.last * SegmentTime(argv), !.startNumber = hint.last + 1]

Resumed(argv) == IF Applicable(argv) THEN Inject(argv) ELSE argv

NotesResumed(argv) == resumed' = (resumed \/ Applicable(argv))

\* The hint of another position is dropped, one that counts no segment kept.
DropStale(argv) ==
  hint' = IF hint # NoHint /\ hint.last > 0 /\ argv.seek # hint.origin THEN NoHint ELSE hint

\* Mutant: the counter of the previous attempt kept.
StartsCounting(argv) ==
  /\ starts < MaxStarts
  /\ starts' = starts + 1
  /\ phase' = "streaming"
  /\ body' = argv
  /\ next' = First(argv)
  /\ UNCHANGED lastSeq

\* An attempt is accepted: a worker starts ffmpeg on the argv.
Starts(argv) ==
  /\ starts < MaxStarts
  /\ starts' = starts + 1
  /\ phase' = "streaming"
  /\ body' = argv
  /\ next' = First(argv)
  /\ lastSeq' = 0

-----------------------------------------------------------------------------
(***************************************************************************)
(* Requests from PMS: handleTask, then dispatchTask.                       *)
(***************************************************************************)
NoTask == phase \in {"idle", "done"}

\* pmsStream.args is the argv dispatchTask is given, resumed or not.
handleTask(argv) ==
  /\ NoTask
  /\ DropStale(argv)
  /\ origin' = Resumed(argv).seek
  /\ Starts(Resumed(argv))
  /\ begun' = begun \cup {origin'}

\* Plex spawns the session, and spawns it again when the task has ended.
PlexSpawns ==
  /\ handleTask(request)
  /\ NotesResumed(request)
  /\ UNCHANGED << request, fetched, asked, back, told, written >>

\* Every worker refuses, and PMS is answered 503.
PlexIsRefused ==
  /\ NoTask
  /\ DropStale(request)
  /\ UNCHANGED << phase, request, origin, body, next, lastSeq, fetched, starts, history >>

\* The user seeks: Plex ends the task and spawns the session, of the same UUID,
\* at the new position.
UserSeeksTo(time) ==
  /\ starts > 0
  /\ request' = Request(request.dash, time)
  /\ handleTask(request')
  /\ asked' = time
  /\ back' = (time \in begun)
  /\ told' = NothingTold(time)
  /\ resumed' = Applicable(request')
  /\ written' = time
  /\ UNCHANGED fetched

\* streamFrom returns outDone at EOF, and dispatchTask returns.
TaskDone ==
  /\ phase = "streaming"
  /\ phase' = "done"
  /\ UNCHANGED << request, origin, body, next, lastSeq, hint, fetched, starts, history >>

\* PMS leaves, or recover gives up.
TaskEnds ==
  /\ ~ NoTask
  /\ phase' = "idle"
  /\ UNCHANGED << request, origin, body, next, lastSeq, hint, fetched, starts, history >>

-----------------------------------------------------------------------------
(***************************************************************************)
(* recover: every attempt, those refused included, takes the body the      *)
(* previous one left through withResume.                                   *)
(***************************************************************************)
StreamBreaks ==
  /\ phase = "streaming"
  /\ phase' = "moving"
  /\ UNCHANGED << request, origin, body, next, lastSeq, hint, fetched, starts, history >>

MoveAccepted ==
  /\ phase = "moving"
  /\ DropStale(body)
  /\ Starts(Resumed(body))
  /\ NotesResumed(body)
  /\ UNCHANGED << request, origin, fetched, asked, begun, back, told, written >>

MoveRefused ==
  /\ phase = "moving"
  /\ DropStale(body)
  /\ body' = Resumed(body)
  /\ next' = First(body')
  /\ lastSeq' = 0
  /\ NotesResumed(body)
  /\ UNCHANGED << phase, request, origin, fetched, starts, asked, begun, back, told, written >>

-----------------------------------------------------------------------------
(***************************************************************************)
(* The worker and the poller of the attempt.                               *)
(***************************************************************************)
\* ffmpeg goes on to its next segment.
SegmentAppears ==
  /\ phase = "streaming"
  /\ next < First(body) + MaxSegments
  /\ next' = next + 1
  /\ written' = IF WrittenWith(body, next) > written THEN WrittenWith(body, next) ELSE written
  /\ UNCHANGED << phase, request, origin, body, lastSeq, hint, fetched, starts, asked, begun,
                  back, told, resumed >>

\* The highest number seen is kept. A watcher may start after the first segment
\* has appeared, and miss it.
Notes ==
  /\ phase = "streaming"
  /\ lastSeq < next - 1
  /\ next > First(body)
  /\ lastSeq' = next - 1
  /\ UNCHANGED << phase, request, origin, body, next, hint, fetched, starts, history >>

watchChunkSequence == body.dash /\ Notes
watchAndPatchMatroskaChunks == ~ body.dash /\ Notes

\* pollCheckpoint: the worker's answer, 0 until it has noted a segment.
fetchLastSeq ==
  /\ phase = "streaming"
  /\ fetched = NoHint
  /\ fetched' = [origin |-> origin, last |-> lastSeq]
  /\ UNCHANGED << phase, request, origin, body, next, lastSeq, hint, starts, history >>

\* The answer is cached, though the attempt may be over by then. What takes longer
\* than a poller's tick of two seconds is not considered: no other answer is fetched.
put ==
  /\ fetched # NoHint
  /\ hint' = fetched
  /\ fetched' = NoHint
  /\ told' = IF fetched.origin = origin /\ 0 < fetched.last /\ fetched.last = lastSeq
               THEN [start |-> StartOf(body, lastSeq), next |-> lastSeq + 1]
               ELSE told
  /\ UNCHANGED << phase, request, origin, body, next, lastSeq, starts, asked, begun, back,
                  resumed, written >>

\* get: the hint is older than the cache's ttl.
Expires ==
  /\ phase # "streaming"
  /\ hint # NoHint
  /\ hint' = NoHint
  /\ told' = NothingTold(asked)
  /\ UNCHANGED << phase, request, origin, body, next, lastSeq, fetched, starts, asked, begun,
                  back, resumed, written >>

-----------------------------------------------------------------------------
Next ==
  \/ PlexSpawns
  \/ PlexIsRefused
  \/ \E time \in UserSeeks : UserSeeksTo(time)
  \/ TaskDone
  \/ TaskEnds
  \/ StreamBreaks
  \/ MoveAccepted
  \/ MoveRefused
  \/ SegmentAppears
  \/ watchChunkSequence
  \/ watchAndPatchMatroskaChunks
  \/ fetchLastSeq
  \/ put
  \/ Expires

Spec == Init /\ [][Next]_vars

-----------------------------------------------------------------------------
(***************************************************************************)
(* Properties.                                                             *)
(***************************************************************************)
Resumes == starts' > starts /\ UNCHANGED request

\* The first resumption of a session the segment muxer plays from the start, where
\* no earlier task began: the case in which resumePTS and -segment_start_number
\* mean what they say.
FirstResume == Resumes /\ ~ resumed /\ asked = 0 /\ ~ back /\ ~ request.dash

\* It starts no earlier than the segment the cache was last told of, be it a move
\* or a retry, so that what the client has buffered is not transcoded again; no
\* later than the media written in full, so that the client misses nothing; and
\* writes under no number the cache was told of, so that a segment the client may
\* hold is not replaced (resumeIfApplicable, main.go:879-884; the arithmetic of
\* resumePTS and nextSeq, checkpoint.go:234-235).
FirstResumeExact ==
  [][FirstResume => /\ told.start <= body'.seek
                    /\ body'.seek <= written
                    /\ First(body') >= told.next]_vars

\* A seek to where no task of the session began starts there, whatever the cache
\* holds and however late an answer about another position comes (the comparison of
\* seeks, checkpoint.go:228).
SeekHonoured ==
  [][\A time \in UserSeeks : UserSeeksTo(time) /\ time \notin begun => body'.seek = time]_vars

-----------------------------------------------------------------------------
(***************************************************************************)
(* What the documents say of every resumption, and the code does not do.   *)
(***************************************************************************)
\* A session moved or retried twice resumes where it was, as one moved once does:
\* "the worker resumes exactly where the previous one stopped".
NoRedo == [][Resumes => body'.seek >= told.start]_vars

=============================================================================
