----------------------------- MODULE TaskStream -----------------------------
(***************************************************************************)
(* What one task promises the Plex Media Server (PMS) it came from, and    *)
(* all that a shim can see of the workers behind it: one HTTP response,    *)
(* whose body is made of whole lines, each the work of one worker.         *)
(***************************************************************************)
CONSTANTS
  Workers,  \* who may produce output
  Nobody    \* the producer of a terminated line: not a worker

VARIABLES
  status,   \* the status line: "none", "stream" (a worker's) or "unavailable"
  line,     \* whose unterminated line the body ends with
  closed    \* whether the response is over

streamVars == << status, line, closed >>

StreamTypeOK ==
  /\ status \in {"none", "stream", "unavailable"}
  /\ line \in Workers \cup {Nobody}
  /\ closed \in BOOLEAN

StreamInit ==
  /\ status = "none"
  /\ line = Nobody
  /\ closed = FALSE

\* No worker takes the task: the 503 is the whole response.
Unavailable ==
  /\ ~closed
  /\ status = "none"
  /\ status' = "unavailable"
  /\ closed' = TRUE
  /\ UNCHANGED line

\* The first worker to take it gives the response its status.
Answer ==
  /\ ~closed
  /\ status = "none"
  /\ status' = "stream"
  /\ UNCHANGED << line, closed >>

\* A worker adds to its own line or starts one, and may leave it open.
Output(w) ==
  /\ ~closed
  /\ status = "stream"
  /\ line \in {Nobody, w}
  /\ line' \in {Nobody, w}
  /\ UNCHANGED << status, closed >>

\* The open line is ended on its worker's behalf.
Terminate ==
  /\ ~closed
  /\ line # Nobody
  /\ line' = Nobody
  /\ UNCHANGED << status, closed >>

Close ==
  /\ ~closed
  /\ closed' = TRUE
  /\ UNCHANGED << status, line >>

StreamNext ==
  \/ Unavailable
  \/ Answer
  \/ \E w \in Workers : Output(w)
  \/ Terminate
  \/ Close

StreamSpec == StreamInit /\ [][StreamNext]_streamVars

=============================================================================
