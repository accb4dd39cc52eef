------------------------- MODULE McpFrontEndProofs -------------------------
(***************************************************************************)
(* For every set of overlapping calls: the front end runs at most one      *)
(* server, can always reach it, kills it only for a pending call, and      *)
(* leaves nothing behind.                                                  *)
(***************************************************************************)
EXTENDS McpFrontEnd, TLAPS

USE CallsAssumption, BoundsAssumption

LEMMA InitIInv == ASSUME Init PROVE IInv
<1>1. TypeOK
  <2>1. FALSE \in BOOLEAN
    BY Zenon
  <2>2. 0 \in 0..(MaxTries - 1)
    OBVIOUS
  <2>3. QED
    BY <2>1, <2>2 DEF Init, TypeOK, None
<1>2. OneServer /\ DeadIsServer /\ NothingLeft /\ TimersPending /\ SignalledIsDead /\ ExitedIsClosed
  BY DEF Init, OneServer, DeadIsServer, NothingLeft, TimersPending, SignalledIsDead, ExitedIsClosed,
         Running
<1>3. QED
  BY <1>1, <1>2 DEF IInv

(***************************************************************************)
(* A signal to the server keeps every fact about processes, and the server *)
(* it was sent to no longer runs.                                          *)
(***************************************************************************)
ProcessesOK ==
  /\ state \in [Servers -> {"unborn", "starting", "up", "dead", "reaped"}]
  /\ signalled \in [Servers -> BOOLEAN]
  /\ serving \in [Servers -> Calls \union {Nobody}]
  /\ SignalledIsDead

LEMMA KillOK ==
  ASSUME ProcessesOK, NEW t \in Servers \union {None}, Kill(t)
  PROVE  /\ ProcessesOK'
         /\ \A s \in Servers : Running(s)' => Running(s)
         /\ t # None => ~Running(t)'
         /\ \A s \in Servers : state'[s] = "dead" => state[s] = "dead" \/ Running(s)
         /\ \A s \in Servers : s # t => UNCHANGED <<state[s], signalled[s]>>
  BY DEF ProcessesOK, SignalledIsDead, Kill, Running, processes, None, Servers

(***************************************************************************)
(* Telling a call ends it, and with it perhaps the front end.              *)
(***************************************************************************)
LEMMA TellOK ==
  ASSUME IInv, NEW c \in Calls, Pending(c), ~exited,
         NEW what \in {"ok", "timeout", "signal", "unreachable"}, Tell(c, what),
         armed' = [armed EXCEPT ![c] = FALSE],
         UNCHANGED <<server, live, peer, late, got, closed>>
  PROVE  /\ IInv'
         /\ \A s \in Servers : Running(s) /\ signalled'[s] => exited'
<1> USE DEF IInv
<1>1. Busy' = Busy \ {c}
  BY DEF Tell, Busy, Pending, TypeOK
<1>2. CASE Busy \ {c} = {} /\ closed
  <2>1. exited' /\ Kill(server)
    BY <1>2 DEF Tell, Leave
  <2>2. server \in Servers \union {None} /\ ProcessesOK
    BY DEF TypeOK, ProcessesOK
  <2>3. /\ ProcessesOK'
        /\ \A s \in Servers : Running(s)' => Running(s)
        /\ \A s \in Servers : state'[s] = "dead" => state[s] = "dead" \/ Running(s)
        /\ server # None => ~Running(server)'
    BY <2>1, <2>2, KillOK
  <2>4. \A s \in Servers : ~Running(s)'
    BY <2>3 DEF OneServer, Servers, None
  <2>5. TypeOK'
    BY <2>1, <2>3 DEF TypeOK, ProcessesOK, Tell, Leave
  <2>6. TimersPending'
    BY DEF Tell, TimersPending, Pending, TypeOK
  <2>7. OneServer' /\ DeadIsServer' /\ NothingLeft' /\ SignalledIsDead' /\ ExitedIsClosed'
    BY <1>1, <1>2, <2>1, <2>3, <2>4
    DEF OneServer, DeadIsServer, NothingLeft, SignalledIsDead, ExitedIsClosed, ProcessesOK
  <2>8. QED
    BY <2>1, <2>5, <2>6, <2>7
<1>3. CASE ~(Busy \ {c} = {} /\ closed)
  <2>1. UNCHANGED <<exited, processes>>
    BY <1>3 DEF Tell, Leave
  <2>2. TypeOK'
    BY <2>1 DEF TypeOK, Tell, processes
  <2>3. TimersPending'
    BY DEF Tell, TimersPending, Pending, TypeOK
  <2>4. OneServer' /\ DeadIsServer' /\ NothingLeft' /\ SignalledIsDead' /\ ExitedIsClosed'
    BY <2>1 DEF OneServer, DeadIsServer, NothingLeft, SignalledIsDead, ExitedIsClosed, processes, Running
  <2>5. \A s \in Servers : Running(s) => ~signalled'[s]
    BY <2>1 DEF SignalledIsDead, Running, processes
  <2>6. QED
    BY <2>2, <2>3, <2>4, <2>5
<1>4. QED
  BY <1>2, <1>3

(***************************************************************************)
(* Every step keeps the invariant, and kills only for cause.               *)
(***************************************************************************)
Killed == \A s \in Servers : Running(s) /\ signalled'[s] => KilledFor(s)

LEMMA StepIInv == ASSUME IInv, [Next]_vars PROVE IInv' /\ Killed
<1> USE DEF IInv
<1>0. \A s \in Servers : Running(s) => ~signalled[s]
  BY DEF SignalledIsDead, Running
<1>1. CASE UNCHANGED vars \/ Exited
  BY <1>0, <1>1 DEF vars, Exited, processes, calls, TypeOK, OneServer, DeadIsServer, NothingLeft,
     TimersPending, SignalledIsDead, ExitedIsClosed, Running, Pending, Busy, Killed
<1>2. ASSUME NEW c \in Calls, CallStart(c) PROVE IInv' /\ Killed
  <2>1. /\ ~exited /\ ~exited' /\ ~closed /\ ~closed'
        /\ UNCHANGED <<signalled, serving, peer, late, tries, got, outcome>>
    BY <1>2 DEF CallStart, CanStart
  <2>2. server' \in Servers /\ state' \in [Servers -> {"unborn", "starting", "up", "dead", "reaped"}]
    BY <1>2 DEF CallStart, Attached, Spawned, Unborn, TypeOK
  <2>3. TypeOK'
    BY <1>2, <2>1, <2>2 DEF CallStart, TypeOK
  <2>4. OneServer' /\ DeadIsServer'
    BY <1>2, <2>1 DEF CallStart, Attached, Spawned, Unborn, OneServer, DeadIsServer, Running, TypeOK, Servers, None
  <2>5. TimersPending'
    BY <1>2, <2>1 DEF CallStart, TimersPending, Pending, TypeOK
  <2>6. SignalledIsDead'
    BY <1>2, <2>1 DEF CallStart, Attached, Spawned, Unborn, SignalledIsDead, Running, TypeOK
  <2>7. QED
    BY <1>0, <2>1, <2>3, <2>4, <2>5, <2>6 DEF NothingLeft, ExitedIsClosed, Killed
<1>3. ASSUME NEW c \in Calls, Connect(c) PROVE IInv' /\ Killed
  <2>1. TypeOK' /\ TimersPending'
    BY <1>3 DEF Connect, TypeOK, TimersPending, Pending, processes
  <2>2. QED
    BY <1>0, <1>3, <2>1 DEF Connect, processes, OneServer, DeadIsServer, NothingLeft, SignalledIsDead,
       ExitedIsClosed, Running, Killed
<1>4. ASSUME NEW c \in Calls, Refused(c) PROVE IInv' /\ Killed
  <2>1. CASE GivesUp(c)
    <3>1. Tell(c, "unreachable") /\ armed' = [armed EXCEPT ![c] = FALSE]
      BY <1>4, <2>1 DEF Refused
    <3>2. Pending(c) /\ ~exited /\ UNCHANGED <<server, live, peer, late, got, closed>>
      BY <1>4 DEF Refused, Pending
    <3>3. QED
      BY <3>1, <3>2, TellOK DEF Killed, KilledFor
  <2>2. CASE ~GivesUp(c)
    <3>1. /\ tries' = [tries EXCEPT ![c] = @ + 1]
          /\ UNCHANGED <<processes, pc, armed, outcome, exited, server, live, peer, late, got, closed>>
      BY <1>4, <2>2 DEF Refused
    <3>2. tries[c] \in 0..(MaxTries - 1) /\ tries[c] + 1 # MaxTries
      BY <2>2 DEF GivesUp, TypeOK
    <3>3. tries' \in [Calls -> 0..(MaxTries - 1)]
      BY <3>1, <3>2 DEF TypeOK
    <3>4. TypeOK'
      BY <3>1, <3>3 DEF TypeOK, processes
    <3>5. QED
      BY <1>0, <3>1, <3>4 DEF processes, OneServer, DeadIsServer, NothingLeft, TimersPending,
         SignalledIsDead, ExitedIsClosed, Running, Pending, Busy, Killed
  <2>3. QED
    BY <2>1, <2>2
<1>5. ASSUME NEW c \in Calls, ConnectionCloses(c) PROVE IInv' /\ Killed
  <2>1. Verdict(c) \in {"ok", "timeout", "signal", "unreachable"}
    BY DEF Verdict, TypeOK
  <2>2. Pending(c) /\ ~exited
    BY <1>5 DEF ConnectionCloses, ConnectionClosed, Pending
  <2>3. QED
    BY <1>5, <2>1, <2>2, TellOK DEF ConnectionCloses, Killed, KilledFor
<1>6. ASSUME NEW c \in Calls, TimerFires(c) PROVE IInv' /\ Killed
  <2>1. /\ armed[c] /\ Kill(live[c]) /\ ~exited
        /\ armed' = [armed EXCEPT ![c] = FALSE] /\ late' = [late EXCEPT ![c] = TRUE]
        /\ UNCHANGED <<server, pc, live, peer, tries, got, outcome, closed, exited>>
    BY <1>6 DEF TimerFires
  <2>2. live[c] \in Servers \union {None} /\ ProcessesOK
    BY DEF TypeOK, ProcessesOK
  <2>3. /\ ProcessesOK'
        /\ \A s \in Servers : Running(s)' => Running(s)
        /\ \A s \in Servers : state'[s] = "dead" => state[s] = "dead" \/ Running(s)
        /\ \A s \in Servers : s # live[c] => UNCHANGED <<state[s], signalled[s]>>
    BY <2>1, <2>2, KillOK
  <2>4. TypeOK'
    <3>1. TRUE \in BOOLEAN /\ FALSE \in BOOLEAN
      BY Zenon
    <3>2. late' \in [Calls -> BOOLEAN] /\ armed' \in [Calls -> BOOLEAN]
      BY <2>1, <3>1 DEF TypeOK
    <3>3. QED
      BY <2>1, <2>3, <3>2 DEF TypeOK, ProcessesOK
  <2>5. TimersPending' /\ Pending(c) /\ late'[c]
    BY <2>1 DEF TimersPending, Pending, TypeOK
  <2>6. Killed
    BY <1>0, <2>3, <2>5 DEF Killed, KilledFor
  <2>7. QED
    BY <2>1, <2>3, <2>4, <2>5, <2>6 DEF ProcessesOK, OneServer, DeadIsServer, NothingLeft, ExitedIsClosed
<1>7. ASSUME NEW s \in Servers, ExitEvent(s) PROVE IInv' /\ Killed
  <2>1. \A t \in Servers : ~Running(t)'
    BY <1>7 DEF ExitEvent, OneServer, DeadIsServer, Running, TypeOK
  <2>2. TypeOK'
    BY <1>7 DEF ExitEvent, TypeOK, calls
  <2>3. QED
    BY <1>0, <1>7, <2>1, <2>2 DEF ExitEvent, calls, OneServer, DeadIsServer, NothingLeft, TimersPending,
       SignalledIsDead, ExitedIsClosed, Pending, Killed, TypeOK
<1>8. ASSUME CloseInput PROVE IInv' /\ Killed
  <2>1. closed' /\ ~exited /\ Leave(Busy, TRUE) /\ UNCHANGED <<server, calls>>
    BY <1>8 DEF CloseInput, ExitedIsClosed
  <2>2. TimersPending' /\ Busy' = Busy
    BY <2>1 DEF calls, TimersPending, Pending, Busy
  <2>3. CASE Busy = {}
    <3>1. exited' /\ Kill(server)
      BY <2>1, <2>3 DEF Leave
    <3>2. server \in Servers \union {None} /\ ProcessesOK
      BY DEF TypeOK, ProcessesOK
    <3>3. /\ ProcessesOK'
          /\ \A s \in Servers : Running(s)' => Running(s)
          /\ \A s \in Servers : state'[s] = "dead" => state[s] = "dead" \/ Running(s)
          /\ server # None => ~Running(server)'
      BY <2>1, <3>1, <3>2, KillOK
    <3>4. \A s \in Servers : ~Running(s)'
      BY <2>1, <3>3 DEF OneServer, Servers, None
    <3>5. TypeOK'
      BY <2>1, <3>1, <3>3, <1>8 DEF TypeOK, ProcessesOK, calls, CloseInput
    <3>6. QED
      BY <2>1, <2>2, <2>3, <3>1, <3>3, <3>4, <3>5
      DEF ProcessesOK, OneServer, DeadIsServer, NothingLeft, ExitedIsClosed, Killed, KilledFor
  <2>4. CASE Busy # {}
    <3>1. UNCHANGED <<exited, processes>>
      BY <2>1, <2>4 DEF Leave
    <3>2. TypeOK'
      BY <1>8, <3>1 DEF CloseInput, TypeOK, processes, calls
    <3>3. QED
      BY <1>0, <2>1, <2>2, <3>1, <3>2 DEF processes, OneServer, DeadIsServer, NothingLeft,
         SignalledIsDead, ExitedIsClosed, Running, Killed
  <2>5. QED
    BY <2>3, <2>4
<1>9. ASSUME NEW s \in Servers, ServerListens(s) PROVE IInv' /\ Killed
  <2>1. TypeOK'
    BY <1>9 DEF ServerListens, TypeOK, calls
  <2>2. OneServer' /\ DeadIsServer' /\ NothingLeft' /\ SignalledIsDead'
    BY <1>9 DEF ServerListens, calls, OneServer, DeadIsServer, NothingLeft, SignalledIsDead, Running,
       Busy, Pending, TypeOK
  <2>3. QED
    BY <1>0, <1>9, <2>1, <2>2 DEF ServerListens, calls, TimersPending, ExitedIsClosed,
       Pending, Killed
<1>10. ASSUME NEW s \in Servers, NEW b \in BOOLEAN, Dies(s, b), state[s] \in {"starting", "up"},
              UNCHANGED <<server, calls, closed, exited>>
       PROVE  /\ IInv'
              /\ \A t \in Servers : Running(t) /\ signalled'[t] => t = s /\ b
  <2>1. TypeOK'
    BY <1>10 DEF Dies, TypeOK, calls
  <2>2. OneServer' /\ DeadIsServer' /\ NothingLeft' /\ SignalledIsDead'
    BY <1>10 DEF Dies, calls, OneServer, DeadIsServer, NothingLeft, SignalledIsDead, Running, Busy,
       Pending, TypeOK
  <2>3. TimersPending' /\ ExitedIsClosed'
    BY <1>10 DEF calls, TimersPending, ExitedIsClosed, Pending
  <2>4. QED
    BY <1>0, <1>10, <2>1, <2>2, <2>3 DEF Dies, TypeOK
<1>11. ASSUME NEW s \in Servers, ServerCannotListen(s) PROVE IInv' /\ Killed
  <2>1. FALSE \in BOOLEAN
    BY Zenon
  <2>2. QED
    BY <1>10, <1>11, <2>1 DEF ServerCannotListen, Killed
<1>12. ASSUME NEW s \in Servers, ServerFails(s) PROVE IInv' /\ Killed
  <2>1. PICK b \in BOOLEAN : Dies(s, b)
    BY <1>12 DEF ServerFails
  <2>2. QED
    BY <1>10, <1>12, <2>1 DEF ServerFails, Killed, KilledFor
<1>13. ASSUME NEW s \in Servers, ServerAccepts(s) PROVE IInv' /\ Killed
  <2>1. TypeOK'
    BY <1>13 DEF ServerAccepts, Waiting, TypeOK, calls
  <2>2. QED
    BY <1>0, <1>13, <2>1 DEF ServerAccepts, calls, OneServer, DeadIsServer, NothingLeft, TimersPending,
       SignalledIsDead, ExitedIsClosed, Running, Busy, Pending, Killed
<1>14. ASSUME NEW s \in Servers, ServerSends(s) PROVE IInv' /\ Killed
  <2>1. TypeOK'
    BY <1>14 DEF ServerSends, TypeOK
  <2>2. QED
    BY <1>0, <1>14, <2>1 DEF ServerSends, OneServer, DeadIsServer, NothingLeft, TimersPending,
       SignalledIsDead, ExitedIsClosed, Running, Busy, Pending, Killed
<1>15. QED
  BY <1>1, <1>2, <1>3, <1>4, <1>5, <1>6, <1>7, <1>8, <1>9, <1>11, <1>12, <1>13, <1>14
  DEF Next, CallSteps, ServerSteps

LEMMA Inductive == Spec => []IInv
<1>1. Init => IInv
  BY InitIInv
<1>2. IInv /\ [Next]_vars => IInv'
  BY StepIInv
<1>3. QED
  BY <1>1, <1>2, PTL DEF Spec

(***************************************************************************)
(* The variables keep their types, for every number of calls and servers.  *)
(***************************************************************************)
THEOREM FrontEndTypes == Spec => []TypeOK
<1>1. IInv => TypeOK
  BY DEF IInv
<1>2. QED
  BY <1>1, Inductive, PTL

(***************************************************************************)
(* At most one server runs and the front end can reach it.                 *)
(***************************************************************************)
THEOREM AtMostOneServer == Spec => []OneServer
<1>1. IInv => OneServer
  BY DEF IInv
<1>2. QED
  BY <1>1, Inductive, PTL

(***************************************************************************)
(* The front end exits with every call answered and no server running.     *)
(***************************************************************************)
THEOREM LeavesNothing == Spec => []NothingLeft
<1>1. IInv => NothingLeft
  BY DEF IInv
<1>2. QED
  BY <1>1, Inductive, PTL

(***************************************************************************)
(* A server is killed only by the timer of a pending call that was started *)
(* on it, by its own fatal request, or at the exit.                        *)
(***************************************************************************)
THEOREM KillsForCause == Spec => KilledForCause
<1>1. IInv /\ [Next]_vars => [Killed]_vars
  BY StepIInv
<1>2. Spec => [][Killed]_vars
  BY <1>1, Inductive, PTL DEF Spec
<1>3. QED
  BY <1>2 DEF KilledForCause, Killed

(***************************************************************************)
(* Why a call loses its server: whoever stopped it was late on it, or sent *)
(* it the request it could not survive.  A call has a peer once it has     *)
(* connected, to a server that was up then; a server serves a call that    *)
(* connected to it; only a call that started is late.                      *)
(***************************************************************************)
Met(c)     == pc[c] \in {"connected", "done"}
Seen(s)    == state[s] \in {"up", "dead", "reaped"}
Gone(s)    == state[s] \in {"dead", "reaped"}
Stopped(s) == \/ \E d \in Calls : late[d] /\ live[d] = s
              \/ \E d \in Fatal : peer[d] = s
Introduced ==
  \A c \in Calls :
    /\ peer[c] # None => Met(c) /\ Seen(peer[c])
    /\ pc[c] = "connected" => peer[c] # None
    /\ outcome[c] = "signal" => peer[c] # None
    /\ late[c] => pc[c] # "idle"
Served ==
  \A s \in Servers : serving[s] # Nobody => peer[serving[s]] = s
Explained ==
  exited \/ \A c \in Calls : peer[c] # None /\ Gone(peer[c]) => Stopped(peer[c])

LInv == Introduced /\ Served /\ Explained /\ LostToOthers

(***************************************************************************)
(* What a signal does to the servers, in the words of LInv.                *)
(***************************************************************************)
LEMMA KillEffect ==
  ASSUME TypeOK, NEW t \in Servers \union {None}, Kill(t)
  PROVE  /\ \A s \in Servers : \/ state'[s] = state[s]
                               \/ s = t /\ Running(s) /\ state'[s] = "dead"
         /\ \A s \in Servers : serving'[s] = serving[s] \/ serving'[s] = Nobody
  BY DEF TypeOK, Kill, Running, processes, None, Servers

(***************************************************************************)
(* A step that tells no call anything and connects none.                   *)
(***************************************************************************)
LEMMA QuietKeeps ==
  ASSUME TypeOK, LInv, UNCHANGED <<pc, live, peer, outcome>>, exited => exited',
         \A c \in Calls : late[c] => late'[c],
         \A c \in Calls : late'[c] => pc[c] # "idle",
         \A s \in Servers : Seen(s) => Seen(s)',
         \A s \in Servers : \/ serving'[s] = serving[s] \/ serving'[s] = Nobody
                            \/ peer[serving'[s]] = s,
         exited' \/ \A s \in Servers : Gone(s)' => Gone(s) \/ ~ Seen(s) \/ Stopped(s)'
  PROVE  LInv'
<1>1. \A c \in Calls : peer[c] \in Servers \union {None}
  BY DEF TypeOK
<1>2. Introduced'
  BY <1>1 DEF LInv, Introduced, Met
<1>3. Served'
  BY DEF LInv, Served
<1>4. \A s \in Servers : Stopped(s) => Stopped(s)'
  BY DEF Stopped
<1>5. Explained'
  BY <1>1, <1>4 DEF LInv, Explained, Introduced
<1>6. LostToOthers'
  BY DEF LInv, LostToOthers
<1> QED
  BY <1>2, <1>3, <1>5, <1>6 DEF LInv

(***************************************************************************)
(* A call that is told its server closed was not late itself.              *)
(***************************************************************************)
LEMMA TellsLost ==
  ASSUME TypeOK, LInv, NEW c \in Calls, NEW what, Tell(c, what), ~exited, Pending(c),
         what = "signal" => ~late[c] /\ peer[c] # None /\ Gone(peer[c]),
         UNCHANGED <<server, live, peer, late, got, closed>>
  PROVE  LInv'
<1>1. /\ pc' = [pc EXCEPT ![c] = "done"] /\ outcome' = [outcome EXCEPT ![c] = what]
      /\ Leave(Busy \ {c}, closed)
  BY DEF Tell
<1>2. /\ \A s \in Servers : state'[s] = state[s] \/ (Running(s) /\ state'[s] = "dead")
      /\ \A s \in Servers : serving'[s] = serving[s] \/ serving'[s] = Nobody
      /\ exited' \/ state' = state
  <2>1. CASE Busy \ {c} = {} /\ closed
    BY <1>1, <2>1, KillEffect DEF Leave, TypeOK
  <2>2. CASE ~ (Busy \ {c} = {} /\ closed)
    BY <1>1, <2>2 DEF Leave, processes
  <2> QED
    BY <2>1, <2>2
<1>3. \A d \in Calls : peer[d] \in Servers \union {None}
  BY DEF TypeOK
<1>4. \A s \in Servers : Seen(s) => Seen(s)'
  BY <1>2 DEF Seen
<1>5. \A d \in Calls : /\ pc'[d] = IF d = c THEN "done" ELSE pc[d]
                       /\ outcome'[d] = IF d = c THEN what ELSE outcome[d]
  BY <1>1 DEF TypeOK
<1>6. Introduced'
  BY <1>3, <1>4, <1>5 DEF LInv, Introduced, Met, Pending
<1>7. Served'
  BY <1>2 DEF LInv, Served
<1>8. Explained'
  BY <1>2 DEF LInv, Explained, Stopped, Gone
<1>9. LostToOthers'
  <2> SUFFICES ASSUME NEW d \in Calls, outcome'[d] = "signal"
               PROVE  \/ \E e \in Calls \ {d} : late[e] /\ live[e] = peer[d]
                      \/ \E e \in Fatal : peer[e] = peer[d]
    BY DEF LostToOthers
  <2>1. CASE d = c
    <3>1. Stopped(peer[c]) /\ ~ late[c]
      BY <1>5, <2>1 DEF LInv, Explained
    <3> QED
      BY <2>1, <3>1 DEF Stopped
  <2>2. CASE d # c
    BY <1>5, <2>2 DEF LInv, LostToOthers
  <2> QED
    BY <2>1, <2>2
<1> QED
  BY <1>6, <1>7, <1>8, <1>9 DEF LInv

(***************************************************************************)
(* A call that starts was not late; one that connects had no peer before.  *)
(***************************************************************************)
LEMMA StartKeeps ==
  ASSUME TypeOK, LInv, NEW c \in Calls, CallStart(c)
  PROVE  LInv'
<1>1. /\ pc[c] = "idle" /\ pc' = [pc EXCEPT ![c] = "asking"]
      /\ live' = [live EXCEPT ![c] = server']
      /\ UNCHANGED <<serving, peer, late, outcome, exited>>
      /\ \A s \in Servers : \/ state'[s] = state[s]
                            \/ state[s] = "unborn" /\ state'[s] = "starting"
  BY DEF CallStart, CanStart, Attached, Spawned, Unborn, TypeOK
<1>2. ~ late[c] /\ peer[c] = None
  BY <1>1 DEF LInv, Introduced, Met
<1>3. \A d \in Calls : d # c => pc'[d] = pc[d] /\ live'[d] = live[d]
  BY <1>1 DEF TypeOK
<1>4. pc'[c] = "asking"
  BY <1>1 DEF TypeOK
<1>5. \A d \in Calls : peer[d] \in Servers \union {None}
  BY DEF TypeOK
<1>6. \A s \in Servers : /\ Seen(s) => Seen(s)'
                         /\ Gone(s)' => Gone(s)
                         /\ Stopped(s) => Stopped(s)'
  BY <1>1, <1>2, <1>3 DEF Seen, Gone, Stopped
<1>7. Introduced'
  BY <1>1, <1>2, <1>3, <1>4, <1>5, <1>6 DEF LInv, Introduced, Met
<1>8. Served'
  BY <1>1 DEF LInv, Served
<1>9. Explained'
  BY <1>1, <1>5, <1>6 DEF LInv, Explained
<1>10. LostToOthers'
  BY <1>1, <1>2, <1>3 DEF LInv, LostToOthers
<1> QED
  BY <1>7, <1>8, <1>9, <1>10 DEF LInv

LEMMA ConnectKeeps ==
  ASSUME TypeOK, LInv, NEW c \in Calls, Connect(c)
  PROVE  LInv'
<1>1. /\ pc[c] = "asking" /\ pc' = [pc EXCEPT ![c] = "connected"]
      /\ UNCHANGED <<state, serving, live, late, outcome, exited>>
  BY DEF Connect, processes
<1>2. PICK s \in Servers : state[s] = "up" /\ peer' = [peer EXCEPT ![c] = s]
  BY DEF Connect
<1>3. peer[c] = None /\ outcome[c] # "signal" /\ s # None
  BY <1>1 DEF LInv, Introduced, Met, Servers, None
<1>4. \A d \in Calls : d # c => pc'[d] = pc[d] /\ peer'[d] = peer[d]
  BY <1>1, <1>2 DEF TypeOK
<1>5. pc'[c] = "connected" /\ peer'[c] = s
  BY <1>1, <1>2 DEF TypeOK
<1>6. \A d \in Calls : peer[d] \in Servers \union {None}
  BY DEF TypeOK
<1>7. Introduced'
  <2>1. Introduced
    BY DEF LInv
  <2>2. \A d \in Calls : d # c =>
          /\ peer'[d] # None => Met(d)' /\ Seen(peer[d])'
          /\ pc'[d] = "connected" => peer'[d] # None
          /\ outcome'[d] = "signal" => peer'[d] # None
          /\ late'[d] => pc'[d] # "idle"
    BY <1>1, <1>4, <2>1 DEF Introduced, Met, Seen
  <2>3. Met(c)' /\ Seen(s)' /\ outcome'[c] # "signal"
    BY <1>1, <1>2, <1>3, <1>5 DEF Met, Seen
  <2> QED
    BY <1>3, <1>4, <1>5, <2>2, <2>3 DEF Introduced, Seen
<1>8. Served'
  <2> SUFFICES ASSUME NEW t \in Servers, serving[t] # Nobody PROVE peer'[serving[t]] = t
    BY <1>1 DEF Served
  <2>1. serving[t] \in Calls /\ peer[serving[t]] = t /\ t # None
    BY DEF TypeOK, LInv, Served, Servers, None
  <2> QED
    BY <1>3, <1>4, <2>1
<1>9. Explained'
  <2>1. \A t \in Servers : Stopped(t) => Stopped(t)'
    <3> SUFFICES ASSUME NEW t \in Servers, Stopped(t) PROVE Stopped(t)'
      OBVIOUS
    <3>1. t # None
      BY DEF Servers, None
    <3>2. CASE \E d \in Calls : late[d] /\ live[d] = t
      BY <1>1, <3>2 DEF Stopped
    <3>3. ASSUME NEW d \in Fatal, peer[d] = t PROVE Stopped(t)'
      <4>1. d \in Calls /\ d # c
        BY <1>3, <3>1, <3>3
      <4> QED
        BY <1>4, <3>3, <4>1 DEF Stopped
    <3> QED
      BY <3>2, <3>3 DEF Stopped
  <2> SUFFICES ASSUME ~ exited, NEW d \in Calls, peer'[d] # None, Gone(peer[d])'
               PROVE  Stopped(peer[d])'
    BY <1>1 DEF Explained, Gone
  <2>2. d # c
    BY <1>1, <1>2, <1>5 DEF Gone
  <2>3. peer'[d] = peer[d] /\ peer[d] \in Servers /\ Gone(peer[d])
    BY <1>1, <1>4, <1>6, <2>2 DEF Gone
  <2>4. Stopped(peer[d])
    BY <2>3 DEF LInv, Explained, Servers, None
  <2> QED
    BY <2>1, <2>3, <2>4
<1>10. LostToOthers'
  <2> SUFFICES ASSUME NEW d \in Calls, outcome[d] = "signal"
               PROVE  \/ \E e \in Calls \ {d} : late[e] /\ live[e] = peer'[d]
                      \/ \E e \in Fatal : peer'[e] = peer'[d]
    BY <1>1 DEF LostToOthers
  <2>1. d # c /\ peer'[d] = peer[d] /\ peer[d] # None
    BY <1>3, <1>4 DEF LInv, Introduced
  <2>2. CASE \E e \in Calls \ {d} : late[e] /\ live[e] = peer[d]
    BY <2>1, <2>2
  <2>3. ASSUME NEW e \in Fatal, peer[e] = peer[d]
        PROVE  \E f \in Fatal : peer'[f] = peer'[d]
    BY <1>3, <1>4, <2>1, <2>3
  <2> QED
    BY <2>2, <2>3 DEF LInv, LostToOthers
<1> QED
  BY <1>7, <1>8, <1>9, <1>10 DEF LInv

(***************************************************************************)
(* Every step keeps what explains the lost calls.                          *)
(***************************************************************************)
LEMMA StepLInv == ASSUME IInv, LInv, [Next]_vars PROVE LInv'
<1>0. /\ TypeOK
      /\ \A c \in Calls : late[c] => pc[c] # "idle"
  BY DEF IInv, LInv, Introduced
<1>1. CASE UNCHANGED vars \/ Exited
  <2>1. UNCHANGED vars
    BY <1>1 DEF Exited
  <2> QED
    BY <1>0, <2>1, QuietKeeps DEF vars, processes, calls, Seen, Gone
<1>2. ASSUME NEW c \in Calls, CallStart(c) PROVE LInv'
  BY <1>0, <1>2, StartKeeps
<1>3. ASSUME NEW c \in Calls, Connect(c) PROVE LInv'
  BY <1>0, <1>3, ConnectKeeps
<1>4. ASSUME NEW c \in Calls, Refused(c) PROVE LInv'
  <2>1. CASE GivesUp(c)
    <3>1. /\ Tell(c, "unreachable") /\ Pending(c) /\ ~ exited
          /\ UNCHANGED <<server, live, peer, late, got, closed>>
      BY <1>4, <2>1 DEF Refused, Pending
    <3> QED
      BY <1>0, <3>1, TellsLost
  <2>2. CASE ~ GivesUp(c)
    <3>1. UNCHANGED <<processes, pc, live, peer, outcome, exited, late>>
      BY <1>4, <2>2 DEF Refused
    <3> QED
      BY <1>0, <3>1, QuietKeeps DEF processes, Seen, Gone
  <2> QED
    BY <2>1, <2>2
<1>5. ASSUME NEW c \in Calls, ConnectionCloses(c) PROVE LInv'
  <2>1. /\ Tell(c, Verdict(c)) /\ Pending(c) /\ ~ exited
        /\ pc[c] = "connected" /\ (got[c] = "whole" \/ ~ Running(peer[c]))
        /\ UNCHANGED <<server, live, peer, late, got, closed>>
    BY <1>5 DEF ConnectionCloses, ConnectionClosed, Pending
  <2>2. peer[c] # None /\ Seen(peer[c])
    BY <2>1 DEF LInv, Introduced
  <2>3. ASSUME Verdict(c) = "signal" PROVE ~ late[c] /\ Gone(peer[c])
    <3>1. got[c] = "nothing" /\ ~ late[c]
      BY <1>0, <2>3 DEF Verdict, TypeOK
    <3> QED
      BY <2>1, <2>2, <3>1 DEF Running, Seen, Gone
  <2> HIDE DEF Verdict
  <2> QED
    BY <1>0, <2>1, <2>2, <2>3, TellsLost
<1>6. ASSUME NEW c \in Calls, TimerFires(c) PROVE LInv'
  <2>1. /\ armed[c] /\ Kill(live[c]) /\ live[c] \in Servers \union {None}
        /\ late' = [late EXCEPT ![c] = TRUE]
        /\ UNCHANGED <<pc, live, peer, outcome, exited>>
    BY <1>0, <1>6 DEF TimerFires, TypeOK
  <2>2. \A s \in Servers : /\ \/ state'[s] = state[s]
                              \/ s = live[c] /\ Running(s) /\ state'[s] = "dead"
                           /\ serving'[s] = serving[s] \/ serving'[s] = Nobody
    BY <1>0, <2>1, KillEffect
  <2>3. late'[c] /\ \A d \in Calls : d # c => late'[d] = late[d]
    BY <1>0, <2>1 DEF TypeOK
  <2>4. pc[c] # "idle"
    BY <2>1 DEF IInv, TimersPending, Pending
  <2>5. Stopped(live[c])'
    BY <2>1, <2>3 DEF Stopped
  <2>6. \A s \in Servers : /\ Seen(s) => Seen(s)'
                           /\ Gone(s)' => Gone(s) \/ s = live[c]
    BY <2>2 DEF Seen, Gone
  <2>7. /\ \A d \in Calls : late[d] => late'[d]
        /\ \A d \in Calls : late'[d] => pc[d] # "idle"
    BY <1>0, <2>3, <2>4
  <2>8. \A s \in Servers : Gone(s)' => Gone(s) \/ Stopped(s)'
    BY <2>1, <2>5, <2>6 DEF Stopped
  <2> QED
    BY <1>0, <2>1, <2>2, <2>6, <2>7, <2>8, QuietKeeps
<1>7. ASSUME NEW s \in Servers, ExitEvent(s) PROVE LInv'
  <2>1. /\ UNCHANGED <<serving, pc, live, peer, late, outcome, exited>>
        /\ \A t \in Servers : \/ state'[t] = state[t]
                              \/ state[t] = "dead" /\ state'[t] = "reaped"
    BY <1>0, <1>7 DEF ExitEvent, calls, TypeOK
  <2> QED
    BY <1>0, <2>1, QuietKeeps DEF Seen, Gone
<1>8. ASSUME CloseInput PROVE LInv'
  <2>1. Leave(Busy, TRUE) /\ UNCHANGED <<pc, live, peer, late, outcome>>
    BY <1>8 DEF CloseInput, calls
  <2>2. /\ \A s \in Servers : state'[s] = state[s] \/ (Running(s) /\ state'[s] = "dead")
        /\ \A s \in Servers : serving'[s] = serving[s] \/ serving'[s] = Nobody
        /\ exited' \/ (state' = state /\ exited' = exited)
    <3>1. CASE Busy = {}
      BY <1>0, <2>1, <3>1, KillEffect DEF Leave, TypeOK
    <3>2. CASE Busy # {}
      BY <2>1, <3>2 DEF Leave, processes
    <3> QED
      BY <3>1, <3>2
  <2> QED
    BY <1>0, <2>1, <2>2, QuietKeeps DEF Seen, Gone
<1>9. ASSUME NEW s \in Servers, ServerListens(s) PROVE LInv'
  <2>1. /\ UNCHANGED <<serving, pc, live, peer, late, outcome, exited>>
        /\ \A t \in Servers : \/ state'[t] = state[t]
                              \/ state[t] = "starting" /\ state'[t] = "up"
    BY <1>0, <1>9 DEF ServerListens, calls, TypeOK
  <2> QED
    BY <1>0, <2>1, QuietKeeps DEF Seen, Gone
<1>10. ASSUME NEW s \in Servers, NEW b \in BOOLEAN, Dies(s, b), Running(s),
              ~ Seen(s) \/ Stopped(s), UNCHANGED <<server, calls, closed, exited>>
       PROVE  LInv'
  <2>1. /\ UNCHANGED <<pc, live, peer, late, outcome, exited>>
        /\ \A t \in Servers : \/ state'[t] = state[t]
                              \/ t = s /\ state'[t] = "dead"
        /\ \A t \in Servers : serving'[t] = serving[t] \/ serving'[t] = Nobody
    BY <1>0, <1>10 DEF Dies, calls, TypeOK
  <2>2. Stopped(s)' <=> Stopped(s)
    BY <2>1 DEF Stopped
  <2>3. \A t \in Servers : /\ Seen(t) => Seen(t)'
                           /\ Gone(t)' => Gone(t) \/ t = s
    BY <2>1 DEF Seen, Gone
  <2>4. \A t \in Servers : Gone(t)' => Gone(t) \/ ~ Seen(t) \/ Stopped(t)'
    BY <1>10, <2>2, <2>3
  <2> QED
    BY <1>0, <2>1, <2>3, <2>4, QuietKeeps
<1>11. ASSUME NEW s \in Servers, ServerCannotListen(s) PROVE LInv'
  <2>1. FALSE \in BOOLEAN
    BY Zenon
  <2>2. Running(s) /\ ~ Seen(s) /\ Dies(s, FALSE) /\ UNCHANGED <<server, calls, closed, exited>>
    BY <1>11 DEF ServerCannotListen, Running, Seen
  <2> QED
    BY <1>10, <2>1, <2>2
<1>12. ASSUME NEW s \in Servers, ServerFails(s) PROVE LInv'
  <2>1. PICK b \in BOOLEAN : Dies(s, b)
    BY <1>12 DEF ServerFails
  <2>2. Running(s) /\ serving[s] \in Fatal /\ UNCHANGED <<server, calls, closed, exited>>
    BY <1>12 DEF ServerFails, Running
  <2>3. peer[serving[s]] = s
    BY <2>2 DEF LInv, Served
  <2>4. Stopped(s)
    BY <2>2, <2>3 DEF Stopped
  <2> QED
    BY <1>10, <2>1, <2>2, <2>4
<1>13. ASSUME NEW s \in Servers, ServerAccepts(s) PROVE LInv'
  <2>1. PICK c \in Waiting(s) : serving' = [serving EXCEPT ![s] = c]
    BY <1>13 DEF ServerAccepts
  <2>2. peer[c] = s /\ UNCHANGED <<state, pc, live, peer, late, outcome, exited>>
    BY <1>13, <2>1 DEF ServerAccepts, Waiting, calls
  <2>3. \A t \in Servers : serving'[t] = serving[t] \/ peer[serving'[t]] = t
    BY <1>0, <2>1, <2>2 DEF TypeOK
  <2> QED
    BY <1>0, <2>2, <2>3, QuietKeeps DEF Seen, Gone
<1>14. ASSUME NEW s \in Servers, ServerSends(s) PROVE LInv'
  <2>1. /\ UNCHANGED <<state, pc, live, peer, late, outcome, exited>>
        /\ \A t \in Servers : serving'[t] = serving[t] \/ serving'[t] = Nobody
    BY <1>0, <1>14 DEF ServerSends, TypeOK
  <2> QED
    BY <1>0, <2>1, QuietKeeps DEF Seen, Gone
<1> QED
  BY <1>1, <1>2, <1>3, <1>4, <1>5, <1>6, <1>7, <1>8, <1>9, <1>11, <1>12, <1>13, <1>14
  DEF Next, CallSteps, ServerSteps

(***************************************************************************)
(* A call told that its server closed lost it to the timer of another call *)
(* on the same server, or to a request the server could not survive, for   *)
(* every number of overlapping calls.                                      *)
(***************************************************************************)
THEOREM LostCallsExplained == Spec => []LostToOthers
<1>1. Init => LInv
  BY DEF Init, LInv, Introduced, Served, Explained, LostToOthers, None
<1>2. IInv /\ LInv /\ [Next]_vars => LInv'
  BY StepLInv
<1>3. LInv => LostToOthers
  BY DEF LInv
<1> QED
  BY <1>1, <1>2, <1>3, Inductive, PTL DEF Spec
=============================================================================
