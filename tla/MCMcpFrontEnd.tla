--------------------------- MODULE MCMcpFrontEnd ---------------------------
(***************************************************************************)
(* Three calls for TLC, of a client that overlaps two of them at a time and   *)
(* of one that waits for each answer.  A server is spawned at most once a    *)
(* call, so MaxServers is the number of calls and never binds.             *)
(***************************************************************************)
EXTENDS McpFrontEnd, FiniteSets

CONSTANTS plain, slow, fatal

VARIABLE serial     \* the client waits for each answer

MixedCalls == {plain, slow, fatal}
SlowCalls  == {slow}
FatalCalls == {fatal}

MCInit == Init /\ serial \in BOOLEAN

MCNext ==
  /\ Next
  /\ serial' = serial
  /\ Cardinality(Busy') <= IF serial THEN 1 ELSE 2

MCSpec == MCInit /\ [][MCNext]_<<vars, serial>> /\ Fairness

(***************************************************************************)
(* A client that waits for each answer gets one for every call, whether the *)
(* server starts, dies, is killed by the timer or cannot listen (serve).    *)
(***************************************************************************)
SerialCallAnswered ==
  \A c \in Calls : (serial /\ pc[c] = "asking") ~> pc[c] = "done"
=============================================================================
