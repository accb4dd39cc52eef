------------------------------ MODULE KernelServer ------------------------------
(***************************************************************************)
(* The kernel host of the legacy application: one process that reads        *)
(* framed requests on one thread, runs at most one of them on a worker      *)
(* thread, and bounds every geometry operation with a watchdog thread.      *)
(*                                                                         *)
(*   reader   main's loop: answers health and stats itself, claims the      *)
(*            worker for an evaluation or an export, cancels, stops at the  *)
(*            end of its input                                              *)
(*   worker   RunWork: the operations one by one, then the mesh packets or  *)
(*            the STEP publication, then one answer                         *)
(*   dog      OperationWatchdog: at most one armed deadline, and the first  *)
(*            cause (a cancel or an elapsed deadline) that claims a request *)
(*                                                                         *)
(* The three share busy, current and the flag `cancelled' every operation   *)
(* polls.  Time is the action DeadlinePasses; geometry is an outcome.       *)
(***************************************************************************)
EXTENDS Naturals, FiniteSets, StepExport

CONSTANTS
  Works,        \* ids of requests the worker runs
  Exports,      \* those of them that publish a STEP file
  Cancels,      \* ids of cancel requests
  Target,       \* the work each cancel names
  Immediate,    \* ids of requests the reader answers itself
  Faulty,       \* frames whose handling throws out of the reader's loop
  NOps,         \* the operations of each work's document
  NBodies       \* bodies an evaluation describes, a mesh packet each

\* An id is used for one request.
ASSUME KernelServerAssumption ==
  /\ Exports \subseteq Works
  /\ Works \cap Cancels = {} /\ Works \cap Immediate = {} /\ Cancels \cap Immediate = {}
  /\ Works \cap {"none", "before", "nobody"} = {}
  /\ Target \in [Cancels -> Works]
  /\ NOps \in [Works -> Nat] /\ NBodies \in Nat

Requests == Works \cup Cancels \cup Immediate
Codes == {"success", "BUSY", "TIMEOUT", "CANCELLED", "OPERATION", "INTERNAL_ERROR"}

VARIABLES
  unread,       \* frames the client has not sent yet
  reader,       \* [pc, id]: what the reader thread does
  worker,       \* [pc, work, op, outcome]: the worker thread
  busy, current, cancelled,
  dog,          \* the watchdog's fields under its mutex
  watch,        \* what Run captured before its timed wait
  slow,         \* <<work, op>> whose deadline elapsed while it ran
  meshes,       \* the binary stream: <<work, body>> packets
  answer,       \* the control stream: the answer to each request
  first         \* which came first for a work: a cancel or a trip

hostVars == <<unread, reader, worker, busy, current, cancelled>>
dogVars == <<dog, watch, slow>>
vars == <<hostVars, dogVars, meshes, answer, first, exportVars>>

None == "none"
NoOperation == <<None, 0>>
NoThread == [pc |-> "none", work |-> None, op |-> 0, outcome |-> None]

Init ==
  /\ unread = Requests \cup Faulty
  /\ reader = [pc |-> "reading", id |-> None]
  /\ worker = NoThread
  /\ busy = FALSE /\ current = None /\ cancelled = FALSE
  /\ \E timed \in BOOLEAN :
       dog = [timed |-> timed, armed |-> FALSE, gen |-> 0, op |-> NoOperation,
              cause |-> None, tripped |-> NoOperation]
  /\ watch = [gen |-> 0, op |-> NoOperation]
  /\ slow = {} /\ meshes = {}
  /\ answer = [r \in Requests |-> None]
  /\ first = [w \in Works |-> None]
  /\ ExportInit

(***************************************************************************)
(* The watchdog's operations, each under its mutex.                         *)
(***************************************************************************)
BeginRequest(d) ==
  [d EXCEPT !.tripped = NoOperation, !.cause = None, !.armed = FALSE, !.gen = @ + 1]

BeginOperation(d, op) ==
  IF d.timed THEN [d EXCEPT !.op = op, !.armed = TRUE, !.gen = @ + 1] ELSE d

EndOperation(d) ==
  IF d.armed THEN [d EXCEPT !.armed = FALSE, !.gen = @ + 1] ELSE d

CancelDog(d) ==
  [d EXCEPT !.cause = IF @ = None THEN "cancel" ELSE @, !.armed = FALSE, !.gen = @ + 1]

Alive == reader.pc \notin {"exited", "crashed"}
Stopped == reader.pc \in {"stopping", "exited", "crashed"}

\* The running operation outlives its budget.
DeadlinePasses ==
  /\ worker.pc = "op" /\ dog.timed
  /\ slow' = slow \cup {<<worker.work, worker.op>>}
  /\ UNCHANGED <<hostVars, dog, watch, meshes, answer, first, exportVars>>

\* Run waits on the armed deadline: the generation and deadline it captured.
Watch ==
  /\ Alive /\ dog.armed /\ watch.gen # dog.gen
  /\ watch' = [gen |-> dog.gen, op |-> dog.op]
  /\ UNCHANGED <<hostVars, dog, slow, meshes, answer, first, exportVars>>

\* Mutant: the woken watchdog does not look whether its operation is still the one.
SameOperation_NoGeneration == TRUE

SameOperation == watch.gen = dog.gen

\* Mutant: the deadline is recorded and the flag the operation polls is not set.
Expire_NoFlag ==
  /\ Alive
  /\ watch.op \in slow /\ dog.armed /\ SameOperation
  /\ IF dog.cause # None
     THEN dog' = [dog EXCEPT !.armed = FALSE] /\ UNCHANGED first
     ELSE /\ dog' = [dog EXCEPT !.armed = FALSE, !.cause = "timeout", !.tripped = dog.op]
          /\ first' = [first EXCEPT ![dog.op[1]] = IF @ = None THEN "timeout" ELSE @]
  /\ UNCHANGED <<unread, reader, worker, busy, current, cancelled, watch, slow, meshes,
                 answer, exportVars>>

\* The wait times out on the same armed operation; the first cause wins.
Expire ==
  /\ Alive
  /\ watch.op \in slow /\ dog.armed /\ SameOperation
  /\ IF dog.cause # None
     THEN dog' = [dog EXCEPT !.armed = FALSE] /\ UNCHANGED <<cancelled, first>>
     ELSE /\ dog' = [dog EXCEPT !.armed = FALSE, !.cause = "timeout", !.tripped = dog.op]
          /\ cancelled' = TRUE
          /\ first' = [first EXCEPT ![dog.op[1]] = IF @ = None THEN "timeout" ELSE @]
  /\ UNCHANGED <<unread, reader, worker, busy, current, watch, slow, meshes, answer,
                 exportVars>>

(***************************************************************************)
(* The reader thread.                                                       *)
(***************************************************************************)
Answer(r, code) == answer' = [answer EXCEPT ![r] = code]

Read(r) == reader.pc = "reading" /\ r \in unread /\ unread' = unread \ {r}

\* health, stats, an unknown method, a bad version: answered on the spot.
HandleImmediate(r) ==
  /\ Read(r) /\ Answer(r, "success")
  /\ UNCHANGED <<reader, worker, busy, current, cancelled, dogVars, meshes, first, exportVars>>

\* StartWork: the worker is claimed, or the request refused.
StartWork(r) ==
  /\ Read(r)
  /\ IF busy
     THEN Answer(r, "BUSY") /\ UNCHANGED <<reader, busy>>
     ELSE /\ busy' = TRUE /\ reader' = [pc |-> "claiming", id |-> r]
          /\ UNCHANGED answer
  /\ UNCHANGED <<worker, current, cancelled, dogVars, meshes, first, exportVars>>

WorkerEnded == worker.pc \in {"none", "done"}

\* The previous worker is joined, then the request is named under the mutex.
Claim ==
  /\ reader.pc = "claiming" /\ WorkerEnded
  /\ worker' = NoThread
  /\ current' = reader.id /\ cancelled' = FALSE
  /\ reader' = [reader EXCEPT !.pc = "launching"]
  /\ UNCHANGED <<unread, busy, dogVars, meshes, answer, first, exportVars>>

Launch ==
  /\ reader.pc = "launching"
  /\ dog' = BeginRequest(dog)
  /\ worker' = [NoThread EXCEPT !.pc = "next", !.work = reader.id]
  /\ reader' = [pc |-> "reading", id |-> None]
  /\ UNCHANGED <<unread, busy, current, cancelled, watch, slow, meshes, answer, first,
                 exportVars>>

\* HandleCancel: a cancel of the running request claims its cause.
CancelCurrent(c) ==
  /\ dog' = CancelDog(dog)
  /\ cancelled' = TRUE
  /\ reader' = [pc |-> "joining", id |-> c]
  /\ first' = [first EXCEPT ![Target[c]] = IF @ = None THEN "cancel" ELSE @]
  /\ UNCHANGED answer

HandleCancel(c) ==
  /\ Read(c)
  /\ Target[c] \notin unread
  /\ IF busy /\ Target[c] = current
     THEN CancelCurrent(c)
     ELSE Answer(c, "success") /\ UNCHANGED <<reader, cancelled, dog, first>>
  /\ UNCHANGED <<worker, busy, current, watch, slow, meshes, exportVars>>

\* Mutant: the acknowledgement does not wait for the worker.
CancelJoined_AtOnce == TRUE

CancelJoined == WorkerEnded

CancelAcknowledge ==
  /\ reader.pc = "joining" /\ CancelJoined
  /\ worker' = IF WorkerEnded THEN NoThread ELSE worker
  /\ Answer(reader.id, "success")
  /\ reader' = [pc |-> "reading", id |-> None]
  /\ UNCHANGED <<unread, busy, current, cancelled, dogVars, meshes, first, exportVars>>

\* With the process go its threads and its memory.
MemoryGone ==
  /\ worker' = NoThread
  /\ busy' = FALSE /\ current' = None /\ cancelled' = FALSE
  /\ dog' = [dog EXCEPT !.armed = FALSE, !.gen = 0, !.op = NoOperation, !.cause = None,
                        !.tripped = NoOperation]
  /\ watch' = [gen |-> 0, op |-> NoOperation]
  /\ slow' = {}

\* The input ends, or a frame throws: Stop runs, and the process leaves.
Stop ==
  /\ reader.pc = "reading"
  /\ \/ UNCHANGED unread
     \/ \E f \in Faulty \cap unread : unread' = unread \ {f}
  /\ cancelled' = TRUE
  /\ reader' = [pc |-> "stopping", id |-> None]
  /\ UNCHANGED <<worker, busy, current, dogVars, meshes, answer, first, exportVars>>

Exit ==
  /\ reader.pc = "stopping" /\ WorkerEnded
  /\ reader' = [reader EXCEPT !.pc = "exited"]
  /\ MemoryGone
  /\ UNCHANGED <<unread, meshes, answer, first, exportVars>>

(***************************************************************************)
(* The worker thread.                                                       *)
(***************************************************************************)
Turn(pc) == worker' = [worker EXCEPT !.pc = pc]
Settled(outcome) == worker' = [worker EXCEPT !.pc = "settling", !.outcome = outcome]

\* ScopedOperation opens around the next operation, or the operations are over.
NextOperation ==
  /\ worker.pc = "next"
  /\ IF worker.op < NOps[worker.work]
     THEN /\ worker' = [worker EXCEPT !.pc = "op", !.op = @ + 1]
          /\ dog' = BeginOperation(dog, <<worker.work, worker.op + 1>>)
     ELSE Turn(IF worker.work \in Exports THEN "publish" ELSE "shape") /\ UNCHANGED dog
  /\ UNCHANGED <<unread, reader, busy, current, cancelled, watch, slow, meshes, answer, first,
                 exportVars>>

\* The operation returns or fails, or it polls the flag and unwinds; its scope
\* ends with it.
OperationReturns == Turn("next") \/ Settled("OPERATION")
OperationPolls == cancelled /\ Settled("Cancelled")

LeaveOperation ==
  /\ worker.pc = "op"
  /\ dog' = EndOperation(dog)
  /\ UNCHANGED <<unread, reader, busy, current, cancelled, watch, slow, meshes, answer, first,
                 exportVars>>

RunOperation == OperationReturns /\ LeaveOperation
PollFlag == OperationPolls /\ LeaveOperation

Described(w) == {m \in meshes : m[1] = w}

\* ShapeEvaluatedBodies: poll, tessellate, and send the packet of each body.
ShapeBody ==
  /\ worker.pc = "shape"
  /\ IF cancelled
     THEN Settled("Cancelled") /\ UNCHANGED meshes
     ELSE \/ /\ Cardinality(Described(worker.work)) < NBodies
             /\ meshes' = meshes \cup {<<worker.work, Cardinality(Described(worker.work)) + 1>>}
             /\ UNCHANGED worker
          \/ Cardinality(Described(worker.work)) = NBodies
             /\ Settled("success") /\ UNCHANGED meshes
          \/ Settled("OPERATION") /\ UNCHANGED meshes
  /\ UNCHANGED <<unread, reader, busy, current, cancelled, dogVars, answer, first, exportVars>>

\* One step of the STEP publication, and the outcome it may end with.
Publish ==
  /\ worker.pc = "publish"
  /\ \/ /\ PublishStep(worker.work) /\ UNCHANGED worker
     \/ /\ PublishDone /\ Settled("success")
     \/ /\ PublishFails /\ Settled("INTERNAL_ERROR")
     \/ /\ cancelled /\ PublishPolls(worker.work) /\ Settled("Cancelled")
  /\ UNCHANGED <<unread, reader, busy, current, cancelled, dogVars, meshes, answer, first>>

\* The catch clauses: a Cancelled is a TIMEOUT when the watchdog tripped.
CodeOf(outcome) ==
  IF outcome = "Cancelled"
  THEN IF dog.tripped # NoOperation THEN "TIMEOUT" ELSE "CANCELLED"
  ELSE outcome

\* Mutant: the response is written while busy is still set.
Settle_AnswerFirst ==
  /\ worker.pc = "settling"
  /\ IF answer[worker.work] = None
     THEN Answer(worker.work, CodeOf(worker.outcome)) /\ UNCHANGED worker
     ELSE worker' = [worker EXCEPT !.pc = "clearing", !.outcome = CodeOf(@)] /\ UNCHANGED answer
  /\ UNCHANGED <<unread, reader, busy, current, cancelled, dogVars, meshes, first, exportVars>>

Settle ==
  /\ worker.pc = "settling"
  /\ worker' = [worker EXCEPT !.pc = "clearing", !.outcome = CodeOf(@)]
  /\ UNCHANGED <<unread, reader, busy, current, cancelled, dogVars, meshes, answer, first,
                 exportVars>>

\* busy is cleared under the mutex, before the response is written.
ClearBusy ==
  /\ worker.pc = "clearing"
  /\ busy' = FALSE /\ current' = None
  /\ Turn("writing")
  /\ UNCHANGED <<unread, reader, cancelled, dogVars, meshes, answer, first, exportVars>>

\* A response over the frame budget is replaced by an INTERNAL_ERROR.
WriteResponse ==
  /\ worker.pc = "writing"
  /\ \/ Answer(worker.work, worker.outcome)
     \/ worker.outcome = "success" /\ worker.work \notin Exports
        /\ Answer(worker.work, "INTERNAL_ERROR")
  /\ Turn("done")
  /\ UNCHANGED <<unread, reader, busy, current, cancelled, dogVars, meshes, first, exportVars>>

(***************************************************************************)
(* The supervisor kills the process, or the machine stops.                  *)
(***************************************************************************)
Crash ==
  /\ Alive
  /\ reader' = [pc |-> "crashed", id |-> None]
  /\ MemoryGone
  /\ ExportCrash
  /\ UNCHANGED <<unread, meshes, answer, first>>

Dog == Watch \/ Expire
ReaderStep ==
  \/ \E r \in Immediate : HandleImmediate(r)
  \/ \E r \in Works : StartWork(r)
  \/ \E c \in Cancels : HandleCancel(c)
  \/ Claim \/ Launch \/ CancelAcknowledge \/ Stop \/ Exit
WorkerStep ==
  \/ NextOperation \/ PollFlag \/ ShapeBody \/ Publish
  \/ Settle \/ ClearBusy \/ WriteResponse

Next == DeadlinePasses \/ Dog \/ ReaderStep \/ WorkerStep \/ RunOperation \/ Crash

\* The threads of the process are scheduled and time passes.  An operation is
\* only required to poll: that it ends by itself is not assumed.
Fairness ==
  /\ WF_vars(Claim \/ Launch \/ CancelAcknowledge \/ Exit)
  /\ WF_vars(WorkerStep)
  /\ WF_vars(DeadlinePasses) /\ WF_vars(Watch) /\ WF_vars(Expire)

Spec == Init /\ [][Next]_vars /\ Fairness

(***************************************************************************)
(* Properties.                                                              *)
(***************************************************************************)
\* What interrupts a work is told as it happened: TIMEOUT only when a deadline
\* claimed this very work first and the operation it names really ran over its
\* budget; CANCELLED only when a cancel of this work came first, or the host is
\* stopping.  Nothing an earlier request left behind reaches the next one.
InterruptHonest ==
  /\ \A w \in Works :
       /\ answer[w] = "TIMEOUT" => first[w] = "timeout"
       /\ answer[w] = "CANCELLED" => first[w] = "cancel" \/ Stopped
  /\ dog.tripped # NoOperation => dog.tripped \in slow

\* A client told that its cancel is done may rely on the work it named being
\* over: it no longer holds the worker, whatever answer it was given.
CancelIsBarrier ==
  \A c \in Cancels : answer[c] = "success" => ~(busy /\ current = Target[c])

\* A work is refused as BUSY only while another one has not been answered: a
\* client that sends its next request on reading an answer is never refused.
Unanswered(r) == r \notin unread /\ answer[r] = None
BusyIsTrue ==
  [][\A w \in Works : answer[w] = None /\ answer'[w] = "BUSY"
       => \E v \in Works \ {w} : Unanswered(v)]_vars

\* The file at the output path is at every moment, a crash included, one that
\* was whole; a work told CANCELLED or TIMEOUT has not replaced it, a verified
\* export never leaves one that does not read back, and a published one stays.
ExportHonest ==
  /\ TargetWhole
  /\ \A e \in Exports :
       /\ answer[e] \in {"CANCELLED", "TIMEOUT"} => target.of # e
       /\ answer[e] = "success" => target.of # "before"
  /\ target.of \in Verified => ~Garbled(target.state)

\* With a time budget every request the host reads is answered, also the one
\* running when the input ends, unless the process is killed: an operation that
\* would never end, but polls, is ended by the watchdog.
EveryRequestAnswered ==
  \A r \in Requests :
    (dog.timed /\ Unanswered(r)) ~> (answer[r] # None \/ reader.pc = "crashed")
================================================================================
