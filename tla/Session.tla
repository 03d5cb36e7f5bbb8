------------------------------- MODULE Session -------------------------------
(***************************************************************************)
(* One transcode from end to end: the shim that PMS spawns in ffmpeg's     *)
(* place (shim/cmd/shim/main.go), the orchestrator's handler of its task   *)
(* (module Recovery), the kill a signal makes of it, and the ffmpegs that  *)
(* workers start for it (worker/agent/main.go).                            *)
(*                                                                         *)
(* Bytes reach the shim in the order they are written, so the response is  *)
(* the state of its last line (Recovery's lastByte); a line the agent      *)
(* writes at once arrives whole or not at all.                             *)
(***************************************************************************)
EXTENDS Recovery

VARIABLES
  shim,      \* "waiting" for the response and its end, or "done"
  exit,      \* how it exited, "none" until it is done
  routed,    \* streamAndDemultiplex's exitCode, by what an exit line said
  status,    \* of the response: "none", "ok" or "error"
  signal,    \* the shim's signal: "none", "posted" (killRemote), "forwarded", "answered"
  kill,      \* the worker a kill is on its way to
  sessions,  \* sessionTracker's entry for the session
  ff,        \* the attempt's ffmpeg: "none", "running", how it ended, or "over"
  unread,    \* it has ended before all its output was read
  entry,     \* whose entry each worker's registry holds for the session
  stray,     \* workers with an ffmpeg whose task nobody streams any more
  completed, \* history: an ffmpeg of the session has succeeded
  last,      \* history: how the last one started ended, "none" while it runs
  cut        \* history: the ffmpeg's last line has lost its end

client == << shim, exit, routed, status >>
killing == << signal, kill >>
agents == << ff, unread, entry, stray >>
ghosts == << completed, last, cut >>
sessionVars == << vars, client, killing, sessions, agents, ghosts >>

SessionTypeOK ==
  /\ shim \in {"waiting", "done"}
  /\ exit \in {"none", "success", "failure", "tempfail", "killed"}
  /\ routed \in {"success", "failure"}
  /\ status \in {"none", "ok", "error"}
  /\ signal \in {"none", "posted", "forwarded", "answered"}
  /\ kill \in Workers \cup {Nobody}
  /\ sessions = IF phase = "streaming" THEN wk ELSE Nobody
  /\ ff \in {"none", "running", "success", "failure", "over"}
  /\ unread => ff \in {"success", "failure"}
  /\ entry \in [Workers -> {"none", "current", "stray"}]
  /\ stray \subseteq Workers
  /\ ff = "running" => wk # Nobody
  /\ last \in {"none", "success", "failure"}
  /\ {completed, cut} \subseteq BOOLEAN

\* Mutant: success until an exit line says otherwise.
AssumedSuccess == "success"

\* "assume failure unless we see explicit success"
Assumed == "failure"

SessionInit ==
  /\ Init
  /\ ~ gone
  /\ shim = "waiting"
  /\ exit = "none"
  /\ routed = Assumed
  /\ status = "none"
  /\ signal = "none"
  /\ kill = Nobody
  /\ sessions = Nobody
  /\ ff = "none"
  /\ unread = FALSE
  /\ entry = [w \in Workers |-> "none"]
  /\ stray = {}
  /\ completed = FALSE
  /\ last = "none"
  /\ cut = FALSE

-----------------------------------------------------------------------------
(***************************************************************************)
(* The attempt, from the orchestrator's side.                              *)
(***************************************************************************)
\* The orchestrator closes the attempt's connection: an ffmpeg still running
\* is left behind, until its agent notices.
Leaves ==
  /\ ff' = "none"
  /\ unread' = FALSE
  /\ stray' = IF ff = "running" THEN stray \cup {wk} ELSE stray
  /\ entry' = [entry EXCEPT ![wk] = IF @ # "current" THEN @
                                    ELSE IF ff = "running" THEN "stray" ELSE "none"]

\* The worker itself is gone, and its ffmpegs with it.
Crashes ==
  /\ ff' = "none"
  /\ unread' = FALSE
  /\ stray' = stray \ {wk}
  /\ entry' = [entry EXCEPT ![wk] = "none"]

Idle == UNCHANGED << client, killing, sessions, agents, ghosts >>

Prepares == (Dispatch \/ Wait \/ DeadlinePasses \/ (\E w \in Workers : Probing(w))) /\ Idle

\* The agent's handleTask spawns ffmpeg, registers it and answers.
WorkerStarts ==
  /\ phase = "posting"
  /\ ff = "none"
  /\ ff' = "running"
  /\ entry' = [entry EXCEPT ![wk] = "current"]
  /\ last' = "none"
  /\ cut' = FALSE
  /\ UNCHANGED << vars, client, killing, sessions, unread, stray, completed >>

TaskRefused ==
  /\ ff = "none"
  /\ Answers503
  /\ Idle

\* Do or Read returns an error. What happened to the worker's side of the
\* connection shows when the attempt is over.
TaskFails == Fails /\ Idle

TaskCharged == Charges /\ Idle

\* The answer is lost, if there was one.
TaskUnreachable ==
  /\ Unreachable
  /\ Leaves \/ Crashes
  /\ UNCHANGED << client, killing, sessions, ghosts >>

TaskAccepted ==
  /\ Accepted
  /\ code' = IF ff = "none" THEN "error" ELSE "ok"
  /\ status' = IF status = "none" THEN code' ELSE status
  /\ sessions' = wk
  /\ UNCHANGED << shim, exit, routed, killing, agents, ghosts >>

\* sessions.del when streamFrom returns.
Forgets == sessions' = Nobody

TaskBreaks ==
  /\ Breaks
  /\ Leaves \/ Crashes
  /\ Forgets
  /\ UNCHANGED << client, killing, ghosts >>

TaskCancelled ==
  /\ ClientGone
  /\ Leaves
  /\ Forgets
  /\ UNCHANGED << client, killing, ghosts >>

TaskWriteFails ==
  /\ WriteFails
  /\ Leaves
  /\ Forgets
  /\ UNCHANGED << client, killing, ghosts >>

TaskEnds ==
  /\ EOF
  /\ ff = "over" \/ code = "error"
  /\ Leaves
  /\ Forgets
  /\ UNCHANGED << client, killing, ghosts >>

\* The orchestrator crashes, and every connection with it: a new one knows
\* nothing of the session.
OrchestratorDies ==
  /\ phase # "ended"
  /\ Return("none")
  /\ IF wk = Nobody THEN UNCHANGED agents ELSE Leaves
  /\ Forgets
  /\ UNCHANGED << headersWritten, lastByte, writer, fleet, history, gone, blame, client, killing, ghosts >>

-----------------------------------------------------------------------------
(***************************************************************************)
(* The agent's side: streamPrefixed and the end of handleTask.             *)
(***************************************************************************)
\* A chunk of ffmpeg's output: it need not end a line.
Output ==
  /\ ff = "running"
  /\ Write
  /\ Idle

\* http.Error's line.
ErrorBody ==
  /\ code = "error"
  /\ lastByte # "newline"
  /\ Write
  /\ lastByte' = "newline"
  /\ Idle

\* The line the ffmpeg is writing.
OpenLine == lastByte = "other" /\ writer = wk

\* The process ends. What it wrote last ends a line, but may not be read yet.
FfmpegEnds(how) ==
  /\ ff = "running"
  /\ ff' = how
  /\ unread' \in {u \in BOOLEAN : ~ u /\ OpenLine => how = "failure"}
  /\ completed' = (completed \/ how = "success")
  /\ last' = how
  /\ UNCHANGED << vars, client, killing, sessions, entry, stray, cut >>

\* The readers get the rest,
Drained ==
  /\ unread
  /\ Write
  /\ lastByte' = "newline"
  /\ unread' = FALSE
  /\ UNCHANGED << client, killing, sessions, ff, entry, stray, ghosts >>

\* or cmd.Wait closes the pipes before they do.
Truncated ==
  /\ unread
  /\ unread' = FALSE
  /\ cut' = OpenLine
  /\ UNCHANGED << vars, client, killing, sessions, ff, entry, stray, completed, last >>

\* What routeLine makes of the exit line: nothing, when it follows an unfinished
\* one; but a carriage return, too, ends a line for splitLinesKeepDelim.
ExitRouted == IF lastByte = "other" THEN {routed, ff} ELSE {ff}

\* "[scaleplex] ffmpeg exit: ..."; the handler returns and unregisters the session,
\* whoever's entry it is.
ExitLine ==
  /\ ff \in {"success", "failure"}
  /\ ~ unread
  /\ Write
  /\ lastByte' = "newline"
  /\ routed' \in ExitRouted
  /\ ff' = "over"
  /\ entry' = [entry EXCEPT ![wk] = "none"]
  /\ UNCHANGED << shim, exit, status, killing, sessions, unread, stray, ghosts >>

\* The agent's request context is done: its ffmpeg is killed.
StrayStops(w) ==
  /\ w \in stray
  /\ stray' = stray \ {w}
  /\ entry' = [entry EXCEPT ![w] = "none"]
  /\ UNCHANGED << vars, client, killing, sessions, ff, unread, ghosts >>

-----------------------------------------------------------------------------
(***************************************************************************)
(* The shim, and the kill its signal makes.                                *)
(***************************************************************************)
\* statusToExit, or die without an answer, or what the exit lines said.
ExitStatus ==
  CASE result = "unavailable" -> "tempfail"
    [] result # "unavailable" /\ status # "ok" -> "failure"
    [] OTHER -> routed

ShimExits ==
  /\ shim = "waiting"
  /\ phase = "ended"
  /\ shim' = "done"
  /\ exit' = ExitStatus
  /\ UNCHANGED << vars, routed, status, killing, sessions, agents, ghosts >>

\* SIGKILL: no handler runs.
ShimDies ==
  /\ shim = "waiting"
  /\ shim' = "done"
  /\ exit' = "killed"
  /\ UNCHANGED << vars, routed, status, killing, sessions, agents, ghosts >>

Signalled ==
  /\ shim = "waiting"
  /\ signal = "none"
  /\ signal' = "posted"
  /\ UNCHANGED << vars, client, kill, sessions, agents, ghosts >>

\* handleTaskByID: 404 when the session is nobody's at this moment.
KillLooksUp ==
  /\ signal = "posted"
  /\ signal' = IF sessions = Nobody THEN "answered" ELSE "forwarded"
  /\ kill' = sessions
  /\ UNCHANGED << vars, client, sessions, agents, ghosts >>

Answered == IF signal = "forwarded" THEN "answered" ELSE signal

\* registry.kill: whatever the session's entry names, if there is one.
KillArrives ==
  /\ kill # Nobody
  /\ kill' = Nobody
  /\ signal' = Answered
  /\ CASE entry[kill] = "current" /\ ff = "running" ->
            /\ ff' = "failure"
            /\ unread' \in BOOLEAN
            /\ last' = "failure"
            /\ UNCHANGED stray
       [] entry[kill] = "stray" ->
            /\ stray' = stray \ {kill}
            /\ UNCHANGED << ff, unread, last >>
       [] OTHER -> UNCHANGED << ff, unread, stray, last >>
  /\ UNCHANGED << vars, client, sessions, entry, completed, cut >>

KillLost ==
  /\ kill # Nobody
  /\ kill' = Nobody
  /\ signal' = Answered
  /\ UNCHANGED << vars, client, sessions, agents, ghosts >>

\* Mutant: the shim waits for the answer as long as it takes.
NoTimeout == {}

\* killRemote waits for one second,
Timed == {"posted", "forwarded"}

KillTimesOut ==
  /\ signal \in Timed
  /\ signal' = "answered"
  /\ UNCHANGED << vars, client, kill, sessions, agents, ghosts >>

\* and then cancels the shim's own request, having read what it has read.
Cancels ==
  /\ signal = "answered"
  /\ shim = "waiting"
  /\ shim' = "done"
  /\ exit' \in {"failure", routed}
  /\ UNCHANGED << vars, routed, status, killing, sessions, agents, ghosts >>

\* The shim's connection closes with its process.
Hangup ==
  /\ shim = "done"
  /\ PMSLeaves
  /\ Idle

-----------------------------------------------------------------------------
SessionNext ==
  \/ Prepares
  \/ WorkerStarts \/ TaskRefused \/ TaskUnreachable \/ TaskAccepted
  \/ TaskFails \/ TaskCharged \/ TaskBreaks \/ TaskCancelled \/ TaskWriteFails
  \/ TaskEnds \/ OrchestratorDies
  \/ Output \/ ErrorBody
  \/ (\E how \in {"success", "failure"} : FfmpegEnds(how))
  \/ Drained \/ Truncated \/ ExitLine
  \/ (\E w \in Workers : StrayStops(w))
  \/ ShimExits \/ ShimDies \/ Signalled
  \/ KillLooksUp \/ KillArrives \/ KillLost \/ KillTimesOut \/ Cancels
  \/ Hangup

(***************************************************************************)
(* The goroutines of the shim and of the handler run, timeouts pass, and a *)
(* closed connection is noticed at its other end, however late: by a       *)
(* reset, or by TCP keepalives across a partition. Nothing is assumed of   *)
(* ffmpeg, or of a kill.                                                   *)
(***************************************************************************)
SessionFairness ==
  /\ WF_sessionVars(Dispatch /\ Idle)
  /\ WF_sessionVars(Wait /\ Idle)
  /\ WF_sessionVars(DeadlinePasses /\ Idle)
  /\ WF_sessionVars(UpstreamCancelled /\ Idle)
  /\ WF_sessionVars(TaskCharged \/ TaskCancelled \/ TaskUnreachable \/ TaskBreaks)
  /\ \A w \in Workers : WF_sessionVars(StrayStops(w))
  /\ WF_sessionVars(KillTimesOut)
  /\ WF_sessionVars(Cancels)
  /\ WF_sessionVars(Hangup)

SessionSpec == SessionInit /\ [][SessionNext]_sessionVars /\ SessionFairness

-----------------------------------------------------------------------------
(***************************************************************************)
(* Properties.                                                             *)
(***************************************************************************)
\* PMS is told that a transcode succeeded only if an ffmpeg of the session
\* did: not when the stream just ends, when every worker is lost or when a
\* worker answers an error in the middle of a recovery.
SuccessIsReal == exit = "success" => completed

\* When the session's last ffmpeg succeeded and its stream ended cleanly, PMS
\* is told so, over any number of streams that broke before. Three exceptions:
\* the shim was interrupted; the first answer was an error status, which the
\* response keeps; ffmpeg's last line lost its end when cmd.Wait closed the
\* pipes (main.go:679), and the exit line came out behind it.
SuccessIsTold ==
  /\ exit \in {"failure", "tempfail"}
  /\ result = "done"
  /\ code = "ok"
  /\ signal = "none"
  /\ status = "ok"
  /\ ~ cut
  => last # "success"

\* Whatever a signal meets - no worker, a kill that is lost, a recovery under
\* way - the shim exits.
SignalEnds == signal # "none" ~> shim = "done"

\* Once the shim is gone no ffmpeg of the session runs anywhere, be it one that
\* a kill missed, one that a recovery started meanwhile, or one left behind by
\* a broken connection.
NothingLeftRunning == shim = "done" ~> ff # "running" /\ stray = {}

=============================================================================
