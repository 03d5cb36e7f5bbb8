---------------------------- MODULE MCAgentTask -----------------------------
(***************************************************************************)
(* AgentTask on a small instance: three requests, the first two of one     *)
(* session.                                                                *)
(***************************************************************************)
EXTENDS AgentTask

CONSTANTS h1, h2, h3, s1, s2

MCHandlers == {h1, h2, h3}
MCSessions == {s1, s2}
MCSession == [h \in MCHandlers |-> IF h = h3 THEN s2 ELSE s1]
=============================================================================
