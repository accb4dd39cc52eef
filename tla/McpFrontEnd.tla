---------------------------- MODULE McpFrontEnd ----------------------------
(***************************************************************************)
(* The MCP front end (tools/mcp/bendcad-mcp.mjs) when BENDCAD_PORT routes  *)
(* design calls to a resident server process: serve, ask, the exit         *)
(* handlers and the line reader.                                           *)
(*                                                                         *)
(* The front end is one event loop, so a handler runs to its next await as *)
(* one step.  The servers are processes of their own: they start, listen,  *)
(* answer one connection at a time and die, and the front end learns of a  *)
(* death only when the exit event is delivered, which may be after the     *)
(* connection was seen to close.                                           *)
(*                                                                         *)
(* Left out: calls routed to a one-shot command line (cli), a server that  *)
(* somebody else started on the same port, and the front end itself being  *)
(* killed.                                                                 *)
(***************************************************************************)
EXTENDS Naturals, FiniteSets

CONSTANTS
  Calls,       \* the tool calls a client may make
  Nobody,      \* no call
  Slow,        \* those whose request never ends by itself
  Fatal,       \* those whose request ends the server (an unreadable design)
  MaxServers,  \* bound: how many servers are spawned
  MaxTries     \* connection attempts of one call (600 in the code)

ASSUME CallsAssumption ==
  /\ Nobody \notin Calls
  /\ Slow \subseteq Calls
  /\ Fatal \subseteq Calls \ Slow
ASSUME BoundsAssumption ==
  /\ MaxServers \in Nat
  /\ MaxTries \in Nat \ {0}

Servers == 1..MaxServers
None    == 0

VARIABLES
  state,     \* of each server process
  signalled, \* whether a server died by a signal (its exitCode stays null)
  serving,   \* the call each server is answering
  server,    \* the front end's server variable
  pc,        \* of each call
  live,      \* the server each call captured
  peer,      \* the server each call connected to
  late,      \* whether the call's timer fired
  armed,     \* whether it may still fire
  tries,     \* failed connection attempts
  got,       \* what was received: "nothing", "part", "whole"
  outcome,   \* what the call was told
  closed,    \* the client closed the input
  exited     \* the front end ended

processes == <<state, signalled, serving>>
calls     == <<pc, live, peer, late, armed, tries, got, outcome>>
vars      == <<processes, server, calls, closed, exited>>

Pending(c) == pc[c] \in {"asking", "connected"}
Busy       == {c \in Calls : Pending(c)}
Running(s) == state[s] \in {"starting", "up"}

Init ==
  /\ state = [s \in Servers |-> "unborn"]
  /\ signalled = [s \in Servers |-> FALSE]
  /\ serving = [s \in Servers |-> Nobody]
  /\ server = None
  /\ pc = [c \in Calls |-> "idle"]
  /\ live = [c \in Calls |-> None]
  /\ peer = [c \in Calls |-> None]
  /\ late = [c \in Calls |-> FALSE]
  /\ armed = [c \in Calls |-> FALSE]
  /\ tries = [c \in Calls |-> 0]
  /\ got = [c \in Calls |-> "nothing"]
  /\ outcome = [c \in Calls |-> "none"]
  /\ closed = FALSE
  /\ exited = FALSE

(***************************************************************************)
(* A signal ends a running server and does nothing to any other.           *)
(***************************************************************************)
Kill(s) ==
  IF s # None /\ Running(s)
  THEN /\ state' = [state EXCEPT ![s] = "dead"]
       /\ signalled' = [signalled EXCEPT ![s] = TRUE]
       /\ serving' = [serving EXCEPT ![s] = Nobody]
  ELSE UNCHANGED processes

(***************************************************************************)
(* When the last pending call of a closed input is answered the front end  *)
(* exits, and its exit handler kills the server it knows of.               *)
(***************************************************************************)
Leave_KeepServer(busy, isClosed) ==
  /\ exited' = (busy = {} /\ isClosed)
  /\ UNCHANGED processes
Leave(busy, isClosed) ==
  IF busy = {} /\ isClosed
  THEN exited' = TRUE /\ Kill(server)
  ELSE UNCHANGED <<exited, processes>>

(***************************************************************************)
(* The handlers of the front end.                                          *)
(***************************************************************************)
CanStart(c) ==
  /\ pc[c] = "idle" /\ ~closed /\ ~exited

Unborn == {s \in Servers : state[s] = "unborn"}

Spawned(s) ==
  /\ s \in Unborn /\ \A t \in Unborn : s <= t
  /\ state' = [state EXCEPT ![s] = "starting"]
  /\ server' = s

Attached_AlwaysSpawn == \E s \in Servers : Spawned(s)
Attached ==
  \/ server = None /\ \E s \in Servers : Spawned(s)
  \/ server # None /\ UNCHANGED <<state, server>>

CallStart(c) ==
  /\ CanStart(c)
  /\ Attached
  /\ pc' = [pc EXCEPT ![c] = "asking"]
  /\ live' = [live EXCEPT ![c] = server']
  /\ armed' = [armed EXCEPT ![c] = TRUE]
  /\ UNCHANGED <<signalled, serving, peer, late, tries, got, outcome, closed, exited>>

Tell(c, what) ==
  /\ pc' = [pc EXCEPT ![c] = "done"]
  /\ outcome' = [outcome EXCEPT ![c] = what]
  /\ tries' = [tries EXCEPT ![c] = 0]
  /\ Leave(Busy \ {c}, closed)

(***************************************************************************)
(* ask: connects when some server listens.                                 *)
(***************************************************************************)
Connect(c) ==
  /\ pc[c] = "asking" /\ ~exited
  /\ \E s \in Servers :
       /\ state[s] = "up"
       /\ peer' = [peer EXCEPT ![c] = s]
  /\ pc' = [pc EXCEPT ![c] = "connected"]
  /\ UNCHANGED <<processes, server, live, late, armed, tries, got, outcome, closed, exited>>

(***************************************************************************)
(* A refused attempt: the call gives up when the server it captured is     *)
(* known to have exited with a code, or after its last attempt.            *)
(***************************************************************************)
ExitCodeKnown(s) == state[s] = "reaped" /\ ~signalled[s]

GivesUp_OnExitCode(c) == ExitCodeKnown(live[c])
GivesUp(c) == ExitCodeKnown(live[c]) \/ tries[c] + 1 = MaxTries

Refused(c) ==
  /\ pc[c] = "asking" /\ ~exited
  /\ \A s \in Servers : state[s] # "up"
  /\ IF GivesUp(c)
     THEN /\ armed' = [armed EXCEPT ![c] = FALSE]
          /\ Tell(c, "unreachable")
     ELSE /\ tries' = [tries EXCEPT ![c] = @ + 1]
          /\ UNCHANGED <<processes, pc, armed, outcome, exited>>
  /\ UNCHANGED <<server, live, peer, late, got, closed>>

(***************************************************************************)
(* The connection closes: after the whole answer, or with its server.      *)
(***************************************************************************)
Verdict_Closed(c) == IF got[c] # "nothing" THEN "ok" ELSE "signal"
Verdict(c) ==
  CASE got[c] # "nothing"            -> "ok"
    [] got[c] = "nothing" /\ late[c]  -> "timeout"
    [] got[c] = "nothing" /\ ~late[c] -> "signal"

ConnectionClosed(c) ==
  /\ pc[c] = "connected"
  /\ got[c] = "whole" \/ ~Running(peer[c])

ConnectionCloses_TimerLeft(c) ==
  /\ ConnectionClosed(c) /\ ~exited
  /\ Tell(c, Verdict(c))
  /\ UNCHANGED <<armed, server, live, peer, late, got, closed>>
ConnectionCloses(c) ==
  /\ ConnectionClosed(c) /\ ~exited
  /\ armed' = [armed EXCEPT ![c] = FALSE]
  /\ Tell(c, Verdict(c))
  /\ UNCHANGED <<server, live, peer, late, got, closed>>

TimerFires_KeepServer(c) ==
  /\ armed[c] /\ ~exited
  /\ armed' = [armed EXCEPT ![c] = FALSE]
  /\ late' = [late EXCEPT ![c] = TRUE]
  /\ UNCHANGED <<processes, server, pc, live, peer, tries, got, outcome, closed, exited>>
TimerFires(c) ==
  /\ armed[c] /\ ~exited
  /\ armed' = [armed EXCEPT ![c] = FALSE]
  /\ late' = [late EXCEPT ![c] = TRUE]
  /\ Kill(live[c])
  /\ UNCHANGED <<server, pc, live, peer, tries, got, outcome, closed, exited>>

ExitEvent(s) ==
  /\ state[s] = "dead" /\ ~exited
  /\ state' = [state EXCEPT ![s] = "reaped"]
  /\ server' = None
  /\ UNCHANGED <<signalled, serving, calls, closed, exited>>

CloseInput ==
  /\ ~closed
  /\ closed' = TRUE
  /\ Leave(Busy, TRUE)
  /\ UNCHANGED <<server, calls>>

(***************************************************************************)
(* The server processes.                                                   *)
(***************************************************************************)
ServerListens(s) ==
  /\ state[s] = "starting"
  /\ state' = [state EXCEPT ![s] = "up"]
  /\ UNCHANGED <<signalled, serving, server, calls, closed, exited>>

Dies(s, bySignal) ==
  /\ state' = [state EXCEPT ![s] = "dead"]
  /\ signalled' = [signalled EXCEPT ![s] = bySignal]
  /\ serving' = [serving EXCEPT ![s] = Nobody]

(* The port is still taken: serve fails before it listens. *)
ServerCannotListen(s) ==
  /\ state[s] = "starting"
  /\ Dies(s, FALSE)
  /\ UNCHANGED <<server, calls, closed, exited>>

Waiting(s) ==
  {c \in Calls : pc[c] = "connected" /\ peer[c] = s /\ got[c] = "nothing"}

ServerAccepts(s) ==
  /\ state[s] = "up" /\ serving[s] = Nobody
  /\ \E c \in Waiting(s) : serving' = [serving EXCEPT ![s] = c]
  /\ UNCHANGED <<state, signalled, server, calls, closed, exited>>

(* An unreadable design ends the server, with an exit code or a signal. *)
ServerFails(s) ==
  /\ state[s] = "up" /\ serving[s] \in Fatal
  /\ \E bySignal \in BOOLEAN : Dies(s, bySignal)
  /\ UNCHANGED <<server, calls, closed, exited>>

(* A long answer arrives in pieces. *)
ServerSends(s) ==
  /\ state[s] = "up" /\ serving[s] \in Calls \ (Slow \union Fatal)
  /\ LET c == serving[s] IN
       \/ /\ got[c] = "nothing"
          /\ got' = [got EXCEPT ![c] = "part"]
          /\ UNCHANGED serving
       \/ /\ got[c] = "part"
          /\ got' = [got EXCEPT ![c] = "whole"]
          /\ serving' = [serving EXCEPT ![s] = Nobody]
  /\ UNCHANGED <<state, signalled, server, pc, live, peer, late, armed, tries,
                 outcome, closed, exited>>

Exited == exited /\ UNCHANGED vars

CallSteps(c) ==
  CallStart(c) \/ Connect(c) \/ Refused(c) \/ ConnectionCloses(c) \/ TimerFires(c)

ServerSteps(s) ==
  \/ ExitEvent(s) \/ ServerListens(s) \/ ServerCannotListen(s)
  \/ ServerAccepts(s) \/ ServerFails(s) \/ ServerSends(s)

Next ==
  \/ \E c \in Calls : CallSteps(c)
  \/ \E s \in Servers : ServerSteps(s)
  \/ CloseInput
  \/ Exited

(***************************************************************************)
(* The event loop runs every ready callback and the operating system every *)
(* process; the client may stop calling.                                   *)
(***************************************************************************)
Fairness ==
  /\ \A c \in Calls : WF_vars(Connect(c) \/ Refused(c) \/ ConnectionCloses(c))
  /\ \A c \in Calls : WF_vars(TimerFires(c))
  /\ \A s \in Servers : WF_vars(ServerSteps(s))

Spec     == Init /\ [][Next]_vars

-----------------------------------------------------------------------------
TypeOK ==
  /\ state \in [Servers -> {"unborn", "starting", "up", "dead", "reaped"}]
  /\ signalled \in [Servers -> BOOLEAN]
  /\ serving \in [Servers -> Calls \union {Nobody}]
  /\ server \in Servers \union {None}
  /\ pc \in [Calls -> {"idle", "asking", "connected", "done"}]
  /\ live \in [Calls -> Servers \union {None}]
  /\ peer \in [Calls -> Servers \union {None}]
  /\ late \in [Calls -> BOOLEAN]
  /\ armed \in [Calls -> BOOLEAN]
  /\ tries \in [Calls -> 0..(MaxTries - 1)]
  /\ got \in [Calls -> {"nothing", "part", "whole"}]
  /\ outcome \in [Calls -> {"none", "ok", "timeout", "signal", "unreachable"}]
  /\ closed \in BOOLEAN
  /\ exited \in BOOLEAN

(***************************************************************************)
(* At most one server runs, and it is the one the server variable names,   *)
(* so a timer or the exit handler can reach it (spawn and the 'exit'       *)
(* handler in serve).                                                      *)
(***************************************************************************)
OneServer == \A s \in Servers : Running(s) => server = s

(***************************************************************************)
(* The front end leaves nothing behind: it exits only when every call was  *)
(* answered, and no server outlives it (rl 'close', busy, process 'exit'). *)
(***************************************************************************)
NothingLeft ==
  exited => /\ \A s \in Servers : ~Running(s)
            /\ Busy = {}

(***************************************************************************)
(* A server is killed only by the timer of a call that is still pending    *)
(* and was started on it, or when the front end exits: a timer that was    *)
(* not cleared would kill the server of somebody else's call.              *)
(***************************************************************************)
KilledFor(s) ==
  \/ exited'
  \/ \E c \in Calls : Pending(c) /\ live[c] = s /\ late'[c]
  \/ serving[s] \in Fatal
KilledForCause ==
  [][\A s \in Servers : Running(s) /\ signalled'[s] => KilledFor(s)]_vars

(***************************************************************************)
(* A call told that its server closed lost it to somebody else: to the     *)
(* timer of another call on the same server, or to a request the server    *)
(* could not survive.  Its own timeout is never reported that way (late in *)
(* serve).                                                                 *)
(***************************************************************************)
LostToOthers ==
  \A c \in Calls : outcome[c] = "signal" =>
    \/ \E d \in Calls \ {c} : late[d] /\ live[d] = peer[c]
    \/ \E d \in Fatal : peer[d] = peer[c]

(***************************************************************************)
(* Why: a dead server stays in the variable until its exit event, and only *)
(* a pending call's timer is armed.                                        *)
(***************************************************************************)
DeadIsServer    == \A s \in Servers : state[s] = "dead" => server = s
TimersPending   == \A c \in Calls : armed[c] => Pending(c)
SignalledIsDead == \A s \in Servers : signalled[s] => state[s] \in {"dead", "reaped"}
ExitedIsClosed  == exited => closed

IInv == TypeOK /\ OneServer /\ DeadIsServer /\ NothingLeft /\ TimersPending
          /\ SignalledIsDead /\ ExitedIsClosed
=============================================================================
