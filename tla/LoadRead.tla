------------------------------ MODULE LoadRead ------------------------------
(***************************************************************************)
(* How the scheduler reads the account of a worker (sessions and load of   *)
(* orchestrator/main.go): activeSessions under one hold of worker.mu, then *)
(* in inFlight the atomic pending, then the accepted map under another,    *)
(* while dispatches and probes go on (module WorkerLoad). One reading is   *)
(* made, at any moment.                                                    *)
(***************************************************************************)
EXTENDS WorkerLoad

VARIABLES
  reading,  \* what the reader reads next, "nothing" when it has the sum
  sum,      \* what it has added up
  watched,  \* history: sessions live when it began, and at the end still
  probed    \* history: whether a probe has been stored since

reader == << reading, sum, watched, probed >>
readVars == << vars, reader >>

Terms == {"active", "pending", "accepted", "nothing"}

ReadTypeOK ==
  /\ reading \in Terms
  /\ sum \in Nat
  /\ watched \in SUBSET Tickets
  /\ probed \in BOOLEAN

ReadInit ==
  /\ Init
  /\ reading = "active"
  /\ sum = 0
  /\ watched = {}
  /\ probed = FALSE

-----------------------------------------------------------------------------
\* snapshot, in load, and the first half of sessions. Of an idle worker, any sum
\* will do.
readActive ==
  /\ reading = "active"
  /\ Live # {}
  /\ sum' = Cardinality(reported)
  /\ reading' = "pending"
  /\ watched' = Live
  /\ probed' = FALSE
  /\ UNCHANGED vars

Reads(term, n, next) ==
  /\ reading = term
  /\ sum' = sum + n
  /\ reading' = next
  /\ watched' = IF next = "nothing" THEN watched \cap Live ELSE watched
  /\ UNCHANGED << vars, probed >>

\* Mutant: the two reads of inFlight in the other order.
inFlightSwapped ==
  \/ Reads("pending", Cardinality(Fresh), "accepted")
  \/ Reads("accepted", pending, "nothing")

inFlightReads ==
  \/ Reads("pending", pending, "accepted")
  \/ Reads("accepted", Cardinality(Fresh), "nothing")

\* Of a reading that is over, or that ReadCoversUnlessProbed says nothing of any
\* more, what happens next is left out: it bounds the state space.
Followed ==
  \/ reading = "active"
  \/ reading # "nothing" /\ ~ probed /\ watched \cap Live # {}

\* The dispatchers, the worker and the probes meanwhile.
Meanwhile ==
  /\ Followed
  /\ Next
  /\ probed' = (probed \/ answeredAt' # answeredAt \/ reported' # reported
                       \/ lastProbeStart' # lastProbeStart)
  /\ UNCHANGED << reading, sum, watched >>

-----------------------------------------------------------------------------
ReadNext == readActive \/ inFlightReads \/ Meanwhile

ReadSpec == ReadInit /\ [][ReadNext]_readVars

-----------------------------------------------------------------------------
(***************************************************************************)
(* Properties.                                                             *)
(***************************************************************************)
\* A reading during which no probe is stored counts every session that was live
\* when it began and when it ended, though its ticket may move from pending to
\* accepted between the reads: inFlight reads pending first.
ReadCoversUnlessProbed ==
  reading = "nothing" /\ ~ probed => Cardinality(watched) <= sum

=============================================================================
