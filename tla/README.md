# A specification of scaleplex

scaleplex moves the transcodes of a Plex Media Server (PMS) onto a fleet of
workers. PMS spawns a *shim* in the place of its transcoder; the shim posts the
task to the *orchestrator*, which streams it from a *worker*, whose *agent*
rewrites the argv and runs a patched ffmpeg. The worker's output comes back over
the same HTTP response; its segments go to a directory PMS shares. When a worker
fails in mid-stream the orchestrator moves the task to another one, resumed at
the segment the last one had reached, while PMS goes on reading one response.

The modules in this directory model that, translated from the code; TLC checks
them on small instances (`*.cfg`) and TLAPS proves the most important of their
properties for all instances (`*Proofs.tla`). Paths below are under `src/`.

    tlc -config Recovery.cfg MCRecovery      # one run
    tlapm RecoveryProofs.tla                 # one module of proofs

`PROJECT.json` maps each definition to the lines it models, each property to a
mutation of the code that breaks it, and each hazard to the properties about it.

## Inventory

| Component | State | Operations | Interacts by | Hard part | What makes it correct |
|---|---|---|---|---|---|
| Worker account (`orchestrator/main.go`, `failover.go`) | per worker: pending, accepted, activeSessions, lastProbeStart, healthy | begin, accept, end, markDown, probeWorker, load | mutex and atomics between dispatches and probes | probes overlap and are stored late; the account is read in parts | nothing leaks; no live session goes uncounted; a worker is reused only if it came back |
| Scheduling (`main.go`) | strategy, tiers, the round-robin cursor | schedule, orderTier | reads the accounts live | it sorts by values that change; ranking and counting-in are apart | every worker offered once; the first is the least loaded |
| Pool and discovery (`main.go`) | workers, by url, and who vouches for each | loadList, refresh, register, reapPush | DNS, environment, heartbeats | late answers, three sources, restarts | in the pool exactly if vouched for; never recreated |
| PUSH registration (`worker/agent/register.go`) | backoff | registerLoop | heartbeats to the orchestrator | backoff against the reaper's age | a silent worker leaves, a live one stays or returns |
| Dispatch and recovery (`failover.go`) | order, broken, refused, moves, the PMS response | dispatchTask, streamFrom, recover, waitForRecoveryWorker | HTTP to workers and PMS, probes | failures at every step, the client leaving | one response; bounded moves; no broken worker reused; it ends |
| Checkpoints (`orchestrator/checkpoint.go`, `worker/agent/checkpoint.go`, `segwatch.go`) | cpCache, lastSeq | pollCheckpoint, resumeIfApplicable, injectResumeFlags, watchers | polling the worker; argv | late pollers, seeks, repeated moves | a resumption neither repeats nor skips; a seek is a seek |
| Agent (`worker/agent/main.go`, `drain.go`) | registry, draining | handleTask, kill, serveWithDrain | ffmpeg, contexts, signals | replacement, admission, drain races | counted while it runs, gone when it ends |
| Session tracker and kill (`main.go` 622-643, 897-932) | session -> worker | set, del, handleTaskByID | recovery, PMS | kill during a move | a kill reaches the worker |
| Progress and throttle (`worker/agent/progress_report.go`) | throttleSignal | runProgressReporter, putProgressTick, sendPrelude | PUTs to PMS | two goroutines' PUTs fail and overlap | no speed while throttled; throttling fails open and follows PMS |
| Plex Pass gate (`worker/agent/pass_gate.go`) | cached answers and their times | hwAccelAllowed, httpPassCheck | HTTP to PMS | overlapping probes, errors | a grant or a denial rests on an answer no older than the cache's ttl and a probe; it fails closed, for the session that asked |
| Argv rewriter (`rewriter*.go`, `dialect.go`, `source_backend.go`) | none | Rewrite | the Pass gate; ffmpeg | the order of its passes, giving up half-way | an argv the worker can run that shows what Plex asked for, where Plex asked for it |
| Shim (`shim/cmd/shim`) | exit code by the last exit line | main, streamAndDemultiplex, killRemote | the task's response, a kill, signals | streams that break in mid-line; a signal at any moment | PMS is told what ffmpeg did; a signal ends it; nothing runs on |
| Relay (`shim/cmd/relay`) | none | the handler, rewriteSegmentListCSV | between ffmpeg and PMS | addresses three passes rewrite | PMS gets each report at its own address, in its own times |
| clientfix (`clientfix/`) | none | rewriting a client's decision request, splitting by SNI | between clients and PMS | - | - |
| Tools, patches, packaging, metrics | - | - | - | - | - |

## Modules

**WorkerLoad** is the account of one worker. A step is one critical section: one
hold of `worker.mu` or one atomic add. A ticket goes from *pending* (`begin`)
through the two halves of `accept` to *accepted*, and `end` gives back whichever
it holds; `failing` and `breaking` are the moments before `markDown` is followed
by the deferred `end`. A probe reads its start time, is answered by the agent
with the sessions registered then, and is stored, at any later time and in any
order. **LoadRead** extends it with a reader that adds up the account in the
three separate reads the code makes.

**Scheduling** is `schedule` and `orderTier`: the healthy workers are listed,
split by backend one after the other, and each tier is sorted by insertion, one
comparison of live values at a time (or rotated, or shuffled); then
`dispatchTask` offers the task down the order. Several dispatches do so at once.
Here a probe, an accept and a reading of one account are one step each;
WorkerLoad and LoadRead have what that leaves out.

**Discovery** is the pool and its three sources. `refresh` is split at the
lookup: an answer is applied at any later time; of an empty zone there is none, since
`net.LookupHost` fails and `refresh` returns. `silence` is the age of
`lastHeartbeat`. **PushHeartbeat** composes it with the workers' `registerLoop`
and the reaper's ticker, in units of the heartbeat interval, with links that
fail and an orchestrator that restarts.

**Recovery** is one PMS request from arrival to return. `late` is the recovery
deadline; `newer` holds the refused workers for which a probe begun since has
been stored (`healthySince`), and `orphan` those whose pool entry was replaced
under the dispatch, which `markDown` then no longer reaches. An error of `Do` or
`Read` (`UpstreamFails`, or `UpstreamCancelled` when it is PMS's leaving that ended
the call), the test of `r.Context().Err()` (`Charges`, `ClientGone`) and `markDown`
with what follows it (`Unreachable`, `Breaks`) are three steps, and PMS may leave
between any two. `fault` is whose the error is, `charged` what the test found. **TaskStream** is
the abstract specification it implements: what PMS may see is one status line, a
body of whole lines, each by one worker, and an end.

**Checkpoint** is one Plex session over its attempts: PMS's argv, the argv each
attempt is given (`body`), ffmpeg's next segment, the worker's `lastSeq`, the
cache and the answer a poller has under way. A session may start where its user
left off, and seek. Argvs are the four things resumption
reads or writes: muxer, seek, `-segment_start_number`, `-skip_to_segment`. What
ffmpeg and Plex do with them is external; the tests and the captured argvs
(`worker/agent/rewriter_test.go`, `test/corpus`) fix it.

**AgentTask** is the agent: handlers of `POST /task` between whose checks, spawn
and registration anything may happen; the registry; the drain.

**Session** extends Recovery with both ends: the shim PMS spawns, the kill its
signal makes, `sessionTracker`, and the ffmpegs the workers start. The response
is the state of its last line, because the shim reads the exit status off a line
and a broken stream may have left one open. `stray` are workers whose ffmpeg
nobody streams any more: cut off, or started by a post whose answer was lost. What
became of a worker when its call failed is decided with the last of the call's three
steps, since nothing of it is seen before.

**Pms** is PMS as a worker asks it: it may be up, answering errors, or down, and
changes its mind. **PassGate** is `hwAccelAllowed` for several sessions on one
cache; each probe is sent, answered and stored at different times. **Progress** is
the prelude and the reporter of one session, each with a PUT under way, and
`throttleSignal`. **PmsLink** composes the three: the argv is rewritten, and the
gate asked, before ffmpeg and its reports start.

**FilterGraph** is the video filtergraph: what the rewriter reads off one
(`extractGraphFacts`), what it writes (`composeBurn`), and, as external
operators, what ffmpeg makes of it: in which memory the filters leave the frames,
one after the other (`Memory`), and whether a sample then has ten bits, which the last
filter that sets a depth decides (`TenBits`). **Transport** is the rest of an argv, sound and
addresses, and the passes over it. **Relay** is the handler of the relay as an
operator over requests; a row of a list has the kind of its name, `media-N.ts` of a
transport stream, `chunk-N` of matroska, `sub-chunk-N` of subtitles (`ChunkName`), as
the relay touches only the first. **Rewriter** is `Rewrite`: one action per phase, in the
code's order, each of which may give up (`Bail`). An argv is a record of the
choices that decide whether ffmpeg can run it and what it shows; rates, sizes,
presets and styles are left out. Its constant `Jobs` may be any argvs of Plex's
shape (`PlexVideos`, `PlexGraphs`, `PlexTransports`), with graphs and lists of any
length, of names from any set `Names`.

MC modules give the constants values TLC needs, and symmetry sets; MCRewriter's
argvs are the shapes that occur in `test/corpus` and in the replay tests, and some
that no worker can take. `*Proofs` modules extend their module, and one that
extends it, with its theorems.

## Runs

All pass but the last two, which are expected to find a counterexample.

| Run | Bounds | Shows |
|---|---|---|
| `load` | 2 dispatches, 2 overlapping probes, 2 instants, one reading | `LedgerExact`, `LoadCoversLive`, `ReuseIsJustified`, `ReadCoversUnlessProbed` |
| `scheduling` | 3 workers (2 GPU, 1 CPU), 2 dispatches, all strategies, tiered and flat, 1 probe, cursor up to 4 | `EachOnce`, `FirstIsNearLeast`, `Rotation` |
| `discovery` | 1 listed and 1 other worker, 2 lookups at once, 3 zone changes or crashes | `PoolIsVouched`, `KnowledgeKept`, `PoolConverges` |
| `heartbeat` | 1 worker, 4 link changes or crashes, timeout 3, reaper 1, backoff up to 6 intervals | `SilentWorkerLeaves`, `OneLossTolerated`, `WorkerRejoins` |
| `recovery` | 3 workers, 2 moves, 2 probes or pool changes | `BrokenNeverReused`, `ClientNotBlamed`, `OneResponse` (refinement), `HandlerReturns` |
| `checkpoint` | 3 attempts, 3 segments of 2 s each, either muxer, played from 0 s or 4 s, seeks to 0 s, 4 s and 20 s | `FirstResumeExact`, `SeekHonoured` |
| `agent` | 3 requests, two of one session, no cap or a cap of one | `EntryExact`, `CapUnlessRaced`, `QuietExit`, `DrainEnds`, `CancelledEnds` |
| `rewriter` | every argv shape of the corpus, streams named by ordinal or by id, the three muxers, the burns of an NVIDIA worker's bitmaps, and eleven odd ones, with and without a base, a token and the throttle, GPU workers of either kind and a CPU one, with and without OpenCL, forcing and a Pass | `FramesMatch`, `PictureKept`, `ProfileMatches`, `AxesHonoured`, `GraphConnected`, `NothingPlexOnly`, `RelayServes` |
| `session` | 2 workers, 2 moves (the second finds no worker), no probes or pool changes | `SuccessIsReal`, `SuccessIsTold`, `SignalEnds`, `NothingLeftRunning` |
| `pms` | 2 sessions of one key or none, a ttl of 2, a timeout of 1, one PUT of the prelude | `RulingIsBacked`, `SpeedHeldBack`, `FailsOpen`, `FollowsPMS` |
| `checkpoint_again` | 3 attempts | the second resumption of a session is lost (`NoRedo`) |
| `rewriter_tonemap` | as `rewriter` | an HDR overlay burn loses its tone mapping (`ToneMappedIffPlexDoes`) |

A module's type invariant is proved; Checkpoint's is an invariant of its run as
well, Scheduling's a conjunct of `EachOnce` and Rewriter's one of `PictureKept`.
That the moves are bounded (`MovesBounded`) is proved.

Why the bounds are enough. The account's hazards need a session accepted while
one probe is under way and another is stored: two tickets, two probes and two
instants have every order of those. Clock readings are compared, never
subtracted, so two instants have all outcomes of one comparison; `ReuseIsJustified`
and `LoadCoversLive` are proved for all. A sort of three has a comparison
that follows another's result; two tiers of sizes two and one have
rotations that do not divide. Discovery treats workers independently: one listed
and one not are all the kinds, and two lookups are enough to apply one out of
order. Recovery keeps no counts of workers but `moves`: three workers are one
broken, one refused and one more, or two broken and the one to go on with. A
move's number is bounded by `maxRecoveries`, which is 3 in the code and 2 in the
run, the least with which a worker may break under an earlier move than the last; the safety properties
are proved for all values. Three attempts are a first one, its resumption and
the one after, which is the one that goes wrong. Two requests of a session and
one of another have every replacement and every race for a cap of one; three of
one session would add a second overtaking, of the same kind as the first.

Session's hazards are an open line that another worker's output follows, and a
kill that meets a move: two workers and one move have both, with an attempt
before and after. Probes and pool changes decide only who is chosen, and
Recovery's run has them. In PmsLink a probe overlaps another of its key, or a
hit; a ttl of two ticks and a timeout of one keep "just stored", "about to
expire" and "expired" apart, and the gate's properties are proved for all. Nothing
in the reporter counts PUTs but the prelude, of which one may be late.
Rewrite has no state beyond its argv: its cases are the argvs, and the corpus is
what Plex was seen to send.

LoadRead does not follow a reading further once it is over or no property speaks
of it any more (`Followed`), and starts none of an idle worker. Histories
(`told`, `written`, `missed`, `overtaken`, `cut`, ...) are commented as such in
the modules: no guard reads them.

### Fairness

Only steps that the program's own scheduling takes are fair. A goroutine that can
run does (`loadList`, `refresh`, the steps of `dispatchTask` and `handleTask`,
the loops of `registerLoop` and `pushReaperLoop`), time passes and deadlines
expire, DNS lookups return (`net.LookupHost` has a timeout), a cancelled
request's I/O fails (`UpstreamCancelled`), its error is dealt with (`HandlesError`),
and a cancelled child is killed (`FfmpegKilled`). A worker need not answer, break or reach EOF; ffmpeg
need not finish; a client need not leave; a zone and a link change a bounded
number of times, which stands for being stable for long enough. In PushHeartbeat
a hung POST fails in the end: `http.DefaultClient` has no timeout of its own, the
TCP connection's is assumed. In Session the shim's and the handler's goroutines
run, `killRemote`'s timeout passes, and a closed connection is noticed at its other
end, however late: `handleTask` is cancelled with its request, and TCP keepalives
find a partition. A kill may always be lost. In PmsLink a PUT ends within its
timeout, and ffmpeg writes progress for as long as it runs, throttled or not.

`PoolConverges` therefore says that late DNS answers do no lasting harm once the zone
has settled on addresses (of an emptied zone nothing can be said, see below),
`HandlerReturns` that a recovery does not hang on probes that keep storing, and
`DrainEnds` and `CancelledEnds` that an agent's exit and a killed task do not
depend on ffmpeg's goodwill. `SignalEnds` and `NothingLeftRunning` say the same of
a whole session, for a kill that finds no worker because the session is between
two: the shim's exit is what ends the task then. `FailsOpen` and `FollowsPMS` say
that a throttle outlives neither a PMS that cannot be reached nor its own wish.

## Proofs

| Module | Theorems | Assumes |
|---|---|---|
| `WorkerLoadProofs` | `TypeCorrect`, `LedgerCorrect`, `LoadNeverUnderestimates`, `ReuseAlwaysJustified`; of LoadRead `ReadTypeCorrect`, `ReadingAlwaysCovers` | `Tickets` is finite, `MaxTime` a natural number |
| `SchedulingProofs` | `RankedOnce`, `AlwaysRotates`, `FirstAlwaysNearLeast` | finitely many workers and dispatches; loads are natural numbers, 0 (not known) among them |
| `DiscoveryProofs` | `TypeCorrect`, `PoolAlwaysVouched`, `KnowledgeNeverLost`; of PushHeartbeat `HeartbeatTypeCorrect`, `SilentAlwaysLeave`, `OneLossNeverReaped` | `Timeout`, `MaxFaults` are natural numbers; the periods are positive |
| `RecoveryProofs` | `TypeCorrect`, `BrokenNeverServesAgain`, `MovesAlwaysBounded`, `ClientNeverBlamed`, `OneResponseOnly`; of Session `SuccessAlwaysReal`, `SuccessAlwaysTold`, `SessionTypeCorrect` | `Nobody` is no worker, `maxRecoveries` at least 1 |
| `CheckpointProofs` | `TypeCorrect`, `SeekAlwaysHonoured`, `FirstResumeAlwaysExact` | a positive `Duration`; positions are natural numbers |
| `AgentTaskProofs` | `TypeCorrect`, `EntriesAlwaysLive`, `TasksKeepEntries`, `EntriesAlwaysExact`, `CapAlwaysHeld`, `ExitAlwaysQuiet` | finitely many sessions, caps are natural numbers |
| `RewriterProofs` | `TypeCorrect`, `AxesAlwaysHonoured`, `PictureAlwaysKept`, `GraphAlwaysConnected`, `FramesAlwaysMatch`, `ProfileAlwaysMatches`, `NothingPlexEver`, `RelayAlwaysServes` | argvs of Plex's shape, of any length; any worker, source and environment |
| `PmsLinkProofs` | `GateTypeCorrect`, `AllowAlwaysBacked`, `DenyAlwaysBacked`, `RulingsAlwaysBacked`, `LinkRunsTheGate`, `SpeedAlwaysHeldBack`, `LinkTypeCorrect` | a positive ttl, a timeout and a prelude in the natural numbers |

Plex's shape (`JobsAssumption`) is what the 249 argvs of
`worker/agent/testdata/replay-corpus` all have: the graph scales in main memory and
names a format, or uploads first; there is a label for each of its nodes; `-map`
takes the last one and the sound has a later one; a text burn has its
`-map_inlineass` and a sidecar its sink; an overlay is the one
`detectBitmapOverlayBurn` knows and has no `select`; a list of the picture is there
only with a segment muxer. Plex's host has one backend (`PlexHost`); a software
encoder's graph has no filter of a GPU, and its decoder, a GPU's or not, leaves the
frames in main memory (`PlexSoftware`); a GPU's encoder has a graph that uploads
first, ends where the encoder takes its frames, names each depth it sets and gives
an H.264 encoder eight bits (`PlexHardware`). Of the worker, that only
a VAAPI one maps tones by OpenCL (`rewriter.go:593-602`).

*WorkerLoad.* The ledger is inductive with the types: `pending` is the cardinality
of the pending tickets, so it is positive when one gives its count back. That the
account covers the live sessions is not inductive: the next probe to be stored
may lower it. The strengthening (`IInv`) says of every probe under way what must
hold when it is stored. `PendingProbesCover`: an answered probe's sample contains
each accepted session that runs, or the session was accepted at or after the
probe's start; it holds when the worker answers because a session is registered
before its dispatch is answered (`AcceptedWereAnswered`) and is kept by an accept
because no probe starts in the future (`StampsOrdered`). `StoredProbeCovers` is
the same of the probe stored last, whichever that was. Hence overlapping
probes, late or out of order, are harmless to the count; they would not be
if the freshness test were strict. A session replaced in the agent's registry
(see `EntryUnlessOvertaken`) falls outside the assumption: there the worker itself
no longer counts it.

*Scheduling.* `EachOnce` needs to know where the sort is. `Placed`: its two indices
are inside the tier; `Listing`: what is left to split and the two tiers hold the
listed workers between them, each once. A comparison swaps neighbours or ends an
insertion, so it keeps both whatever values it read; nothing is assumed of them.
`RotatedSoFar`: a tier that is in order is its workers by url, rotated by the
cursor, from which `Rotation` follows by the arithmetic of successive remainders.
`FirstIsNearLeast` needs that the head of what has been inserted leads the rest:
`Leading` says so but for what was missed. A change in one worker's load after the
listing moves it by no more than is added to `missed` in the same step
(`FreshIsHere`: a session is counted where it streams); that the sort's comparisons
contradict one another meanwhile does not matter.

*Discovery.* `BitsExact`: each source's bit says what that source said last. The
union of the three is the pool.

*Recovery.* `Control` ties the phase to `moves`, `broken` and `wk`; `OpenLine`
that an open line is the last writer's; `Count` that attempts accepted are one
more than the breaks, and breaks at most the moves. `OneResponseOnly` is the
refinement of TaskStream: initial states map to initial states and each step to
a step or a stutter, the only interesting one being an accept after a break in
mid-line, which maps to `Terminate`. `ClientNotBlamed` is inductive only with `Blame`:
an error that is charged was found so while PMS was there, so it is the worker's; and
once a worker has been marked down after PMS left, no error is charged any more. So
PMS's leaving can cost at most the one worker whose error had passed the test.

*Checkpoint.* `OriginsBegan`: the cache, the answer under way and the poller speak of
positions where a task began, so none can be mistaken for a new position
(`SeekHonoured`). `PlainStory` is the case of `FirstResumeExact`: until such a
session is resumed, `CountsWritten` says that every count on its way to the cache is
of segments written in full, and `ToldIsCached` that what the cache was told stays in
it and no later answer is behind it, because a worker's count only grows. The
resumption's arithmetic is then that of the segments' ends.

*LoadRead.* Every reading runs the account (`ReadRunsTheAccount`), so WorkerLoad's
`IInv` is at hand. Between the second read and the third, `Split`: the sum is what
was reported and some set P of tickets, and every watched session still live is
reported, in P, or stamped as accepted since the probe. The map is read last, so a
ticket that left P by then is in it.

*PushHeartbeat.* Time may not pass a reaper's tick that is due; so how long a
silent worker is overdue and what is left until the next tick add up to at most
one period (`Deadline`), and an overdue worker is one that tick takes
(`OverdueIsLate`).

*AgentTask.* Between its cap check and its registration a request is alone, or two
have raced (`Alone`); so the count it was admitted on can only have gone down
(`Room`). `Settled`: once the drain's wait has ended, whatever runs is cancelled,
was past the check, or was overtaken.

*PmsLink.* `RulingIsBacked` speaks of one step. `Backed` is the invariant behind it:
an entry's age, and that of the answer a probe brings, is at most a timeout less
than the age of what PMS said, whichever probes overlap. The composition is shown
to run the gate (`LinkRunsTheGate`), so what is proved of it holds there.
`Held`: an assertion of PMS's is in force or about to be applied; no PUT of the
prelude can undo it unless it failed.

*Rewriter.* Each phase has a lemma per invariant. `Phased`: an argv has lost its font
paths after the first phase, its transport and its reports are untouched until the
last, and one that is given up is Plex's without those paths; hence `NothingPlexOnly`
(but for `HexSound`) and, with what the last phase does to each address (`Sent`), `RelayServes`. The axes
take four parts: what the gate let through (`GateHeld`), that no backend's mark
appears before it (`Marked`), what the decoder's phases decide (`Decided`) and what
the encoder's do (`Settled`). `PicInv` is the invariant of the picture. `Source`: the
graph is still Plex's, but for the OpenCL chain, or one drawn for a GPU. `Shows`: it
maps tones, burns and skips as Plex's does. `Joins`: the output takes its last label,
which is less than the sound's, and what is burned has its stream. That a graph
composed anew never takes the sound's label is a matter of counting: Plex's has a
label for each node, and what is composed needs no more labels than Plex's graph had
nodes (the lemmas `Room`, `OverlayRoom` and `BurnRoom`). No phase checks that.

`ProfileMatches` rests on `Profiled`: what a GPU's encoder is fed names its depth
(`Deep`), when it is Plex's graph as when it is one drawn from its facts, and the
profile is written from those names. `TenIsNamed` says that then the names and the
depth agree. `FramesMatch` rests on `Framed`, which has a part for each phase: Plex's
argv matches Plex's host (`Untouched`); after the reshape it matches this worker
wherever it is on a GPU (`Readied`); the decoder's phase decides what is still to be
moved (`Decides`), and what the encoder gets, or the OpenCL pass, matches again
(`Placed`, `Settles`). `Memory` is a recursive function over the filters, and graphs
are of any length: what a chain of filters does to the frames is shown by induction
over sets of numbers (`Least`, `AllNumbers`), and a graph that has a chain replaced or a
node removed is compared with its parts (`Path` and the lemmas after it).

*Session.* Both properties of success come from tying the line to its writer.
`Lined`: an open line is the current worker's, if there is one. `Read`: an
ffmpeg that succeeded and is read to its end leaves no line open, unless its last
line was cut (`cut`). `Heard`: so the exit line stands on a line of its own
and is routed, whatever streams broke before.

Liveness (`PoolConverges`, `WorkerRejoins`, `HandlerReturns`,
`DrainEnds`, `CancelledEnds`, `SignalEnds`, `NothingLeftRunning`, `FailsOpen`,
`FollowsPMS`) is model-checked only: the prover has neither fairness of steps nor
ENABLED. Every other property the passing runs check is proved.

## Where the code differs from what is said of it

The runs that expect a violation, with the lines they contradict, are the
`findings` of `PROJECT.json`. Others were met while modelling:

- Between the halves of `accept` (`failover.go:65-70`) a session is in neither
  ledger; `Live` leaves that instant out. `failover.go:46-48` has no such gap.
- A probe sent before a failure and stored after it undoes `markDown`
  (`main.go:491` against 186-188). Recovery is not misled: `ReuseIsJustified`.
- A probe stored after a newer one takes `lastProbeStart` back, and sessions may
  be counted twice for one round of probes (`main.go:492` against 117-120).
- A probe stored between the two reads of `load` hides the session it has just
  moved from one term to the other (`main.go:151-155` against 148-149):
  `ReadCoversUnlessProbed` has the condition.
- A zone that has become empty takes no worker away: `net.LookupHost` fails, `refresh`
  returns (`main.go:335-340`), and the last answer's workers stay in the pool, marked
  down by probes but listed. `PoolConverges` is about zones with an address.
- `ctx.Err()` is tested before `markDown`, not with it (`failover.go:159-163`, 215-219):
  a worker that really failed may be marked down after PMS has left. `ClientNotBlamed`
  says that it is one worker at most, and none for a call that PMS's leaving ended.
- Recovery's polls draw from the round-robin cursor, so that the next dispatch
  does not start on the next worker (`main.go:611-612`): `Rotation` is about
  successive cursors.
- `cpCache.drop` is not called when a stream ends cleanly, as its comment says
  (`checkpoint.go:129-132`). The hint stays for its ttl.
- `injectResumeFlags` sets `-segment_start_number` for the dash muxer too, whose
  option is `-skip_to_segment` (`segwatch.go:10-12`), and the segment duration of
  a DASH argv is taken to be 1 s (`checkpoint.go:72-84`). Hence `FirstResume` is
  about the segment muxer, played from the start. A DASH session started midway
  resumes too far: the position is computed from a number that already counts from
  the file's start, and the offset is added again (`checkpoint.go:234`).
- A user's seek back to where a task of the session began has that task's seek: within
  the ttl it is taken for a retry and resumed where the task was
  (`checkpoint.go:228`). `SeekHonoured` is about positions where no task began.
- A recovery target that answers with an error status counts as recovered
  (`failover.go:176`): its body, if any, ends the session.
- Arrivals rank the fleet before they are counted in, so that two at once may
  choose one idle worker while another is idle (`failover.go:228`).
  `FirstIsNearLeast` allows for what changed since the ranking.
- `unregister` deletes whatever task holds the session's entry
  (`worker/agent/main.go:118-122`); `docs/audit-2026-05-22.md:36` knows.
  `overtaken` is exactly that, and the conditions of `EntryUnlessOvertaken`,
  `CapUnlessRaced` and `QuietExit` say how far it reaches.
- The cap is checked and taken in two steps (`TUNING.md:46` calls it soft).
- `runProgressReporter` says that the prelude must have been sent before it is
  called (`progress_report.go:103-106`, and `main.go:662-665`); both are started as
  goroutines (`main.go:666-674`), so a progress PUT may reach PMS first.
- Nothing bounds how long a worker may be silent on an open stream: `proxyClient`
  has no read timeout (`main.go:661`), so a hung worker is never recovered from.
- `cmd.Wait` closes ffmpeg's pipes when it exits, before their readers have drained
  them (`worker/agent/main.go:679`). A line whose end is lost swallows the agent's
  exit line, and the shim exits 1 although ffmpeg succeeded: the condition `~ cut`
  of `SuccessIsTold`.
- `streamPrefixed` puts its prefix before each chunk of 4096 bytes, not before each
  line.
- A session whose first answer is an error status that then breaks is recovered,
  but the shim has taken the status: the condition `status = "ok"`.
- A recovery posts the environment of the spawn again, with the Pass flag PMS gave
  then, which no age bounds.
- `pass_gate.go` says one query in five minutes reaches PMS; checks that overlap
  ask once each. An answer other than 200, of a PMS that starts up, is stored as "no
  Pass" for the whole ttl, where the header says that a hiccup degrades only "until
  the query recovers".
- A filtergraph of another backend that the rewriter cannot read is left in an argv
  that is otherwise reshaped (`rewriter_sw.go:185`, `source_backend.go:260`), and
  options of a decoder of another backend are found in the form `-hwaccel:0` only,
  not `#0x..` (`source_backend.go:245`): `UnreadForeign` and `HexForeign` in
  `FramesMatch`. Where that backend's decoder had not left its frames on the GPU, the
  graph is drawn anew without an upload and `-hwaccel_output_format` is not added
  (`source_backend.go:244`, 262-271): `DownloadedForeign`. No argv of the corpus is of
  these kinds.
- The swap of EAE codecs is called on a bail as a "safety net on EVERY bail"
  (`rewriter.go:2357-2369`), but `audioCodecFlag` (1644-1659) takes `-codec:N` with a
  decimal N only. `-codec:#0x02 eac3_eae`, of the form that 2094-2096 call Plex's
  preferred one, keeps the decoder that the worker's ffmpeg does not have, rewritten or
  given up: `HexSound` in `NothingPlexOnly`. Only the bail for a missing video decoder
  drops it. The tests have the form with `aac` (`rewriter_test.go:1912`).
- An AMD worker maps the tones of a text burn inside `inlineass`, after the format
  the profile is read from (`rewriter.go:3157-3163`): `MapsInBurn`, an HEVC encoder
  told main10 and handed nv12. Where such an argv asks for H.264 the graph is
  composed a second time, with nv12 before the filter that maps.
- An argv that is Plex's own for an AMD worker keeps `tonemap_opencl` as it is.
- A CPU worker does not recognise an optimiser's remux.
- Recomposing a bitmap overlay would drop a `select` of a seek (`rewriter.go:3074-3142`
  has no `appendSelectStage`); no argv seen has both, and `PlexGraphs` has none.
- The overlay of an NVIDIA worker's argv in HDR maps tones by `tonemap_cuda`, which
  `detectBitmapOverlayBurn` does not know either (`rewriter.go:1095`): it is lost as
  SCALEPLEX_TONEMAP's is (`ForgottenOverlay`). `rewriter.go:870-873` says that this
  path has not been tried.
- A CPU pipeline with a bitmap burn that is to be forced to hardware is given up
  as having no video filter.
- When the rewriter gives up on an HLS argv, the list's address gets no
  `scaleplex_seg_time`, so the relay leaves its times as the muxer wrote them;
  `RelayServes` says which is which.
- The list of a matroska session gets its `scaleplex_seg_time` too, as
  `rewriter_segment_mkv_test.go` asks, but its rows are called `chunk-N` and the relay
  rewrites `media-N.ts` only (`shim/cmd/relay/main.go:52`, 203-206): what PMS is told is
  what the muxer wrote, right as long as `-copyts` stays in the argv.
- `watchAndPatchMatroskaChunks` is started with offset 0 because "the relay does
  that" (`worker/agent/main.go:603-609`); `shim/cmd/relay/main.go` does not, and
  `rewriter.go:1954-1962` says that nothing is left to patch.

## Not modelled

- JSON, URL and header syntax, environment variables, metrics and logs; the figures
  a progress report carries; sizes, rates, presets and styles in argvs.
- `load.go`: GPU load is whatever number Scheduling picks. (An engine that vanishes
  from sysfs reads 0, and when it returns its difference is clamped to 1, a spike of
  one sample.)
- `probesize.go`, `probe.go`: a cache on disk in front of ffprobe, whose answers are
  `media` in Rewriter.
- `matroska.go`, `stderr_watch.go`: parsing of media and of ffmpeg's words. What the
  watchers tell the checkpoint is in Checkpoint.
- The passes of the rewriter over libva's environment and HOME; the shim's
  directory re-reader, which changes nothing; the reporter's log forwarder, off by
  default.
- clientfix, the corpus tools, the ffmpeg patches, charts and images.
- A worker behind a partition may go on writing segments to the shared directory
  while another resumes the session. Session says that it stops in the end; what the
  two write meanwhile needs the directory as a component.

## Plan

What is left, in the order of its worth:

1. **SegmentDirectory**: the shared directory with two writers, composed of Session's
   strays and Checkpoint's numbers. Property: a segment a client has fetched is never
   replaced by other media.
2. **ProbeCache** and **EngineLoad**: validity by inode and time; averages of
   counters that wrap.
3. **Clientfix** as operators over decision requests.
4. Proofs: lemmas two proof modules share, in a module of their own; liveness, when
   the prover has rules for fairness.
