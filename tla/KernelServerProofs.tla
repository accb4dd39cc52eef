--------------------------- MODULE KernelServerProofs ---------------------------
(***************************************************************************)
(* Proofs about the kernel host, for every set of requests: what interrupts  *)
(* a work is told as it happened, an acknowledged cancel is a barrier, BUSY  *)
(* is true, and the file an export writes is always whole.                  *)
(*                                                                         *)
(* The inductive invariant has four parts: who holds the worker (Holding);   *)
(* what the watchdog and the flag know of the work that holds it and what    *)
(* the worker will tell of it (Armed, Caused and Told: Interrupting); what   *)
(* an acknowledged cancel leaves behind (Barrier); how far a publication is  *)
(* and whose file is at the output path (Progress and Replacing:             *)
(* Publishing).                                                             *)
(***************************************************************************)
EXTENDS KernelServer, TLAPS

ActivePcs == {"next", "op", "shape", "publish", "settling", "clearing"}
Active == worker.pc \in ActivePcs
Starting == reader.pc \in {"claiming", "launching"}
Returned == {"success", "OPERATION", "INTERNAL_ERROR"}

Readers == [pc : {"reading", "claiming", "launching", "joining", "stopping", "exited",
                  "crashed"},
            id : Requests \cup {None}]
Workers == [pc : ActivePcs \cup {"none", "writing", "done"}, work : Works \cup {None},
            op : Nat, outcome : Codes \cup {None, "Cancelled"}]
Operands == (Works \cup {None}) \X Nat
Dogs == [timed : BOOLEAN, armed : BOOLEAN, gen : Nat, op : Operands,
         cause : {None, "cancel", "timeout"}, tripped : Operands]
ThreadTypes == reader \in Readers /\ worker \in Workers /\ busy \in BOOLEAN
DogTypes == dog \in Dogs /\ watch \in [gen : Nat, op : Operands]
WorkTypes ==
  /\ cancelled \in BOOLEAN
  /\ answer \in [Requests -> Codes \cup {None}]
  /\ first \in [Works -> {None, "cancel", "timeout"}]
Types == ThreadTypes /\ DogTypes /\ WorkTypes

\* One work holds the worker, from its claim to the moment busy is cleared.  A work
\* still unread, being started or at work has no answer yet.
Holding ==
  /\ busy <=> Active \/ Starting
  /\ ~ (Active /\ Starting)
  /\ Active => current = worker.work
  /\ ~ Active /\ reader.pc # "launching" => current = None
  /\ Active \/ worker.pc = "writing"
       => worker.work \in Works \ unread /\ answer[worker.work] = None
  /\ Starting => /\ reader.id \in Works \ unread
                 /\ answer[reader.id] = None /\ first[reader.id] = None
                 /\ worker.pc = "writing" => worker.work # reader.id
  /\ reader.pc = "launching" => WorkerEnded /\ current = reader.id
  /\ reader.pc = "joining" => reader.id \in Cancels /\ Target[reader.id] \notin unread
  /\ reader.pc \in {"exited", "crashed"} => worker.pc = "none"
  /\ \A w \in Works \cap unread : answer[w] = None /\ first[w] = None

\* The watchdog is armed for the operation under way only, and what woke it is that
\* operation.
Armed ==
  /\ dog.armed => worker.pc = "op" /\ dog.op = <<worker.work, worker.op>>
  /\ watch.gen <= dog.gen
  /\ dog.armed /\ SameOperation => watch.op = dog.op
  /\ dog.cause = "timeout" <=> dog.tripped # NoOperation

\* Its cause is the one that came first for the work at work, and nothing but a
\* cause, or the end of the host, raises the flag.
Caused ==
  /\ Active => /\ first[worker.work] = dog.cause
               /\ cancelled => dog.cause # None \/ Stopped
  /\ reader.pc = "launching" => ~ cancelled

\* What the worker is about to tell is what happened to its work.
Told ==
  /\ worker.pc = "settling" =>
       /\ worker.outcome \in Returned \cup {"Cancelled"}
       /\ worker.outcome = "Cancelled" => dog.cause # None \/ Stopped
  /\ worker.pc \in {"clearing", "writing"} =>
       /\ worker.outcome \in Returned \cup {"TIMEOUT", "CANCELLED"}
       /\ worker.outcome = "TIMEOUT" => first[worker.work] = "timeout"
       /\ worker.outcome = "CANCELLED" => first[worker.work] = "cancel" \/ Stopped

Interrupting == Armed /\ Caused /\ Told

\* The work an acknowledged cancel names is over: it was read, is not being started
\* and is not at work.
Barrier ==
  \A c \in Cancels : answer[c] = "success" =>
    /\ Target[c] \notin unread
    /\ Starting => reader.id # Target[c]
    /\ Active => worker.work # Target[c]

\* Only the publication under way has a step to take, and its file is whole before
\* it replaces the target.
Files == [of : Works \cup {"before", "nobody"},
          state : {"absent", "partial", "written", "garbled", "synced", "garbledSynced"}]
Progress ==
  /\ target \in Files /\ flushed \in Files /\ temp \in Files
  /\ step \in {"transfer", "write", "sync", "verify", "rename", "directory"}
  /\ worker.pc # "publish" => step = "transfer"
  /\ worker.pc = "publish" => worker.work \in Exports
  /\ worker.pc = "shape" => worker.work \notin Exports
  /\ step = "sync" => temp.of = worker.work /\ temp.state \in {"written", "garbled"}
  /\ step \in {"verify", "rename"} => temp.of = worker.work /\ OnDisk(temp)
  /\ step = "rename" /\ worker.work \in Verified => ~ Garbled(temp.state)
  /\ step = "directory" => target.of = worker.work
  /\ OnDisk(target) /\ OnDisk(flushed)
  /\ target.of \in Verified => ~ Garbled(target.state)
  /\ flushed.of \in Verified => ~ Garbled(flushed.state)
  /\ target.of = "before" => flushed.of = "before"

\* No work interrupted before its publication is done has replaced the target.
Replaced(w) == target.of = w \/ flushed.of = w
Replacing ==
  /\ \A w \in Works \cap unread : ~ Replaced(w)
  /\ Starting => ~ Replaced(reader.id)
  /\ worker.pc \in {"next", "op", "shape"} => ~ Replaced(worker.work)
  /\ worker.pc = "publish" /\ step # "directory" => ~ Replaced(worker.work)
  /\ worker.pc \in {"settling", "clearing", "writing"} =>
       /\ worker.outcome \in {"Cancelled", "TIMEOUT", "CANCELLED"} => ~ Replaced(worker.work)
       /\ worker.outcome = "success" /\ worker.work \in Exports => flushed.of # "before"
  /\ \A e \in Exports :
       /\ answer[e] \in {"CANCELLED", "TIMEOUT"} => ~ Replaced(e)
       /\ answer[e] = "success" => flushed.of # "before"
Publishing == Progress /\ Replacing

IInv == Types /\ Holding /\ Interrupting /\ InterruptHonest /\ Barrier /\ Publishing

-----------------------------------------------------------------------------
(***************************************************************************)
(* What the steps with several outcomes do to the worker and the watchdog.  *)
(***************************************************************************)

\* The worker's turn and the end of a work keep which work it is.
LEMMA TurnEffect ==
  ASSUME worker \in Workers, NEW p \in ActivePcs \cup {"none", "writing", "done"}, Turn(p)
  PROVE  /\ worker' \in Workers /\ worker'.pc = p
         /\ worker'.work = worker.work /\ worker'.op = worker.op
         /\ worker'.outcome = worker.outcome
BY DEF Turn, Workers

LEMMA SettledEffect ==
  ASSUME worker \in Workers, NEW o \in Codes \cup {None, "Cancelled"}, Settled(o)
  PROVE  /\ worker' \in Workers /\ worker'.pc = "settling"
         /\ worker'.work = worker.work /\ worker'.outcome = o
BY DEF Settled, Workers, ActivePcs

\* The watchdog is armed for the operation begun, or left alone.
LEMMA NextOperationEffect ==
  ASSUME Types, Holding, Interrupting, NextOperation
  PROVE  /\ worker' \in Workers /\ dog' \in Dogs
         /\ worker.pc = "next" /\ worker'.pc \in {"op", "shape", "publish"}
         /\ worker'.work = worker.work /\ worker'.outcome = worker.outcome
         /\ worker'.pc = "publish" => worker.work \in Exports
         /\ worker'.pc = "shape" => worker.work \notin Exports
         /\ dog'.cause = dog.cause /\ dog'.tripped = dog.tripped /\ dog'.gen >= dog.gen
         /\ dog'.armed => /\ worker'.pc = "op" /\ dog'.op = <<worker'.work, worker'.op>>
                          /\ dog'.gen = dog.gen + 1
         /\ UNCHANGED <<unread, reader, busy, current, cancelled, watch, slow, meshes,
                         answer, first, target, flushed, temp, step>>
<1> USE DEF ActivePcs, Active
<1>0. UNCHANGED <<unread, reader, busy, current, cancelled, watch, slow, meshes,
                 answer, first, target, flushed, temp, step>>
  BY DEF NextOperation, exportVars
<1> USE <1>0
<1>1. worker.pc = "next" /\ ~ dog.armed /\ worker \in Workers /\ dog \in Dogs
  BY DEF NextOperation, Interrupting, Armed, Types, ThreadTypes, DogTypes
<1>2. CASE worker.op < NOps[worker.work]
  <2>1. worker' = [worker EXCEPT !.pc = "op", !.op = @ + 1]
    BY <1>2 DEF NextOperation
  <2>2. /\ worker' \in Workers /\ worker'.pc = "op" /\ worker'.op = worker.op + 1
        /\ worker'.work = worker.work /\ worker'.outcome = worker.outcome
    <3>1. PICK n \in Nat : n = worker.op + 1
      BY <1>1 DEF Workers
    <3>2. worker' = [worker EXCEPT !.pc = "op", !.op = n]
      BY <1>1, <2>1, <3>1 DEF Workers
    <3>3. worker' \in Workers /\ worker'.pc = "op" /\ worker'.op = n
          /\ worker'.work = worker.work /\ worker'.outcome = worker.outcome
      BY <1>1, <3>2 DEF Workers
    <3> QED
      BY <3>1, <3>3
  <2>3. dog' = BeginOperation(dog, <<worker.work, worker.op + 1>>)
    BY <1>2 DEF NextOperation
  <2>4. <<worker.work, worker.op + 1>> \in Operands
    BY <1>1 DEF Workers, Operands
  <2>5. CASE dog.timed
    <3> DEFINE o == <<worker.work, worker.op + 1>>
    <3>1. PICK g \in Nat : g = dog.gen + 1 /\ g >= dog.gen
      BY <1>1 DEF Dogs
    <3>2. dog' = [dog EXCEPT !.op = o, !.armed = TRUE, !.gen = g]
      BY <1>1, <2>3, <2>5, <3>1 DEF BeginOperation, Dogs
    <3>3. o = <<worker'.work, worker'.op>>
      BY <2>2
    <3> HIDE DEF o
    <3>4. o \in Operands
      BY <2>4 DEF o
    <3>5. /\ dog'.armed /\ dog'.op = o /\ dog'.gen = g
          /\ dog'.cause = dog.cause /\ dog'.tripped = dog.tripped
      BY <1>1, <3>2 DEF Dogs
    <3>6. dog' \in Dogs
      BY <1>1, <3>2, <3>4 DEF Dogs
    <3> QED
      BY <1>1, <2>2, <3>1, <3>3, <3>5, <3>6
  <2>6. CASE ~ dog.timed
    BY <1>1, <2>2, <2>3, <2>6 DEF BeginOperation, Dogs
  <2> QED
    BY <2>5, <2>6
<1>3. CASE ~ (worker.op < NOps[worker.work])
  <2>1. dog' = dog /\ Turn(IF worker.work \in Exports THEN "publish" ELSE "shape")
    BY <1>3 DEF NextOperation
  <2>2. CASE worker.work \in Exports
    <3>1. Turn("publish")
      BY <2>1, <2>2
    <3> QED
      BY <1>1, <2>1, <2>2, <3>1, TurnEffect DEF Dogs
  <2>3. CASE worker.work \notin Exports
    <3>1. Turn("shape")
      BY <2>1, <2>3
    <3> QED
      BY <1>1, <2>1, <2>3, <3>1, TurnEffect DEF Dogs
  <2> QED
    BY <2>2, <2>3
<1> QED
  BY <1>2, <1>3

\* The scope of an operation disarms the watchdog, however the operation ends.
LEMMA LeaveOperationEffect ==
  ASSUME Types, LeaveOperation, OperationReturns \/ OperationPolls
  PROVE  /\ worker' \in Workers /\ dog' \in Dogs
         /\ worker.pc = "op" /\ worker'.work = worker.work
         /\ \/ worker'.pc = "next"
            \/ worker'.pc = "settling" /\ worker'.outcome = "OPERATION"
            \/ worker'.pc = "settling" /\ worker'.outcome = "Cancelled" /\ cancelled
         /\ dog'.cause = dog.cause /\ dog'.tripped = dog.tripped /\ dog'.gen >= dog.gen
         /\ ~ dog'.armed
         /\ UNCHANGED <<unread, reader, busy, current, cancelled, watch, slow, meshes,
                         answer, first, target, flushed, temp, step>>
<1>0. UNCHANGED <<unread, reader, busy, current, cancelled, watch, slow, meshes,
                 answer, first, target, flushed, temp, step>>
  BY DEF LeaveOperation, exportVars
<1> USE <1>0
<1>1. worker \in Workers /\ dog \in Dogs /\ worker.pc = "op" /\ dog' = EndOperation(dog)
  BY DEF Types, ThreadTypes, DogTypes, LeaveOperation
<1>2. /\ dog' \in Dogs /\ ~ dog'.armed
      /\ dog'.cause = dog.cause /\ dog'.tripped = dog.tripped /\ dog'.gen >= dog.gen
  <2>1. PICK g \in Nat : g = dog.gen + 1 /\ g >= dog.gen
    BY <1>1 DEF Dogs
  <2>2. CASE dog.armed
    <3>1. dog' = [dog EXCEPT !.armed = FALSE, !.gen = g]
      BY <1>1, <2>1, <2>2 DEF EndOperation, Dogs
    <3>2. /\ dog' \in Dogs /\ ~ dog'.armed /\ dog'.gen = g
          /\ dog'.cause = dog.cause /\ dog'.tripped = dog.tripped
      BY <1>1, <3>1 DEF Dogs
    <3> QED
      BY <2>1, <3>2
  <2>3. CASE ~ dog.armed
    BY <1>1, <2>3 DEF EndOperation, Dogs
  <2> QED
    BY <2>2, <2>3
<1>3. CASE Turn("next")
  BY <1>1, <1>2, <1>3, TurnEffect DEF ActivePcs
<1>4. CASE Settled("OPERATION")
  BY <1>1, <1>2, <1>4, SettledEffect DEF Codes
<1>5. CASE OperationPolls
  BY <1>1, <1>2, <1>5, SettledEffect DEF OperationPolls
<1> QED
  BY <1>3, <1>4, <1>5 DEF OperationReturns

\* Meshes are sent one by one until the work settles.
LEMMA ShapeBodyEffect ==
  ASSUME Types, ShapeBody
  PROVE  /\ worker' \in Workers /\ worker.pc = "shape" /\ worker'.work = worker.work
         /\ \/ worker' = worker
            \/ /\ worker'.pc = "settling"
               /\ \/ worker'.outcome \in {"success", "OPERATION"}
                  \/ worker'.outcome = "Cancelled" /\ cancelled
         /\ UNCHANGED <<unread, reader, busy, current, cancelled, dog, watch, slow,
                         answer, first, target, flushed, temp, step>>
<1>0. UNCHANGED <<unread, reader, busy, current, cancelled, dog, watch, slow,
                 answer, first, target, flushed, temp, step>>
  BY DEF ShapeBody, dogVars, exportVars
<1> USE <1>0
<1>1. worker \in Workers /\ worker.pc = "shape"
  BY DEF Types, ThreadTypes, ShapeBody
<1>2. \/ worker' = worker
      \/ Settled("success")
      \/ Settled("OPERATION")
      \/ Settled("Cancelled") /\ cancelled
  <2>1. CASE cancelled
    BY <2>1 DEF ShapeBody
  <2>2. CASE ~ cancelled
    <3> DEFINE n == Cardinality(Described(worker.work))
    <3>1. \/ n < NBodies /\ UNCHANGED worker
          \/ n = NBodies /\ Settled("success")
          \/ Settled("OPERATION")
      BY <2>2 DEF ShapeBody
    <3> HIDE DEF n
    <3> QED
      BY <3>1
  <2> QED
    BY <2>1, <2>2
<1>3. CASE worker' = worker
  BY <1>1, <1>3
<1>4. CASE Settled("success") \/ Settled("OPERATION")
  BY <1>1, <1>4, SettledEffect DEF Codes
<1>5. CASE Settled("Cancelled") /\ cancelled
  BY <1>1, <1>5, SettledEffect
<1> QED
  BY <1>2, <1>3, <1>4, <1>5

\* The same of a publication.
LEMMA PublishEffect ==
  ASSUME Types, Publish
  PROVE  /\ worker' \in Workers /\ worker.pc = "publish" /\ worker'.work = worker.work
         /\ \/ worker' = worker /\ PublishStep(worker.work)
            \/ /\ worker'.pc = "settling"
               /\ \/ worker'.outcome = "success" /\ PublishDone
                  \/ worker'.outcome = "INTERNAL_ERROR" /\ PublishFails
                  \/ worker'.outcome = "Cancelled" /\ cancelled /\ PublishPolls(worker.work)
         /\ UNCHANGED <<unread, reader, busy, current, cancelled, dog, watch, slow,
                         meshes, answer, first>>
<1>0. UNCHANGED <<unread, reader, busy, current, cancelled, dog, watch, slow,
                 meshes, answer, first>>
  BY DEF Publish, dogVars
<1> USE <1>0
<1>1. worker \in Workers /\ worker.pc = "publish"
  BY DEF Types, ThreadTypes, Publish
<1>2. \/ PublishStep(worker.work) /\ worker' = worker
      \/ PublishDone /\ Settled("success")
      \/ PublishFails /\ Settled("INTERNAL_ERROR")
      \/ cancelled /\ PublishPolls(worker.work) /\ Settled("Cancelled")
  BY DEF Publish
<1>3. CASE PublishStep(worker.work) /\ worker' = worker
  BY <1>1, <1>3
<1>4. CASE PublishDone /\ Settled("success")
  BY <1>1, <1>4, SettledEffect DEF Codes
<1>5. CASE PublishFails /\ Settled("INTERNAL_ERROR")
  BY <1>1, <1>5, SettledEffect DEF Codes
<1>6. CASE cancelled /\ PublishPolls(worker.work) /\ Settled("Cancelled")
  BY <1>1, <1>6, SettledEffect
<1> QED
  BY <1>2, <1>3, <1>4, <1>5, <1>6

\* A work begins with no cause and the watchdog disarmed.
LEMMA LaunchEffect ==
  ASSUME Types, Holding, Launch
  PROVE  /\ worker' \in Workers /\ dog' \in Dogs
         /\ reader.pc = "launching" /\ WorkerEnded /\ reader.id \in Works
         /\ first[reader.id] = None /\ busy /\ current = reader.id
         /\ worker'.pc = "next" /\ worker'.work = reader.id /\ worker'.outcome = None
         /\ reader' \in Readers /\ reader'.pc = "reading"
         /\ ~ dog'.armed /\ dog'.cause = None /\ dog'.tripped = NoOperation
         /\ dog'.gen = dog.gen + 1
         /\ UNCHANGED <<unread, busy, current, cancelled, watch, slow, meshes, answer,
                         first, target, flushed, temp, step>>
<1>0. UNCHANGED <<unread, busy, current, cancelled, watch, slow, meshes, answer,
                 first, target, flushed, temp, step>>
  BY DEF Launch, exportVars
<1> USE <1>0
<1>1. dog \in Dogs /\ dog' = BeginRequest(dog)
  BY DEF Types, DogTypes, Launch
<1>2. /\ dog' \in Dogs /\ ~ dog'.armed /\ dog'.cause = None /\ dog'.tripped = NoOperation
      /\ dog'.gen = dog.gen + 1
  <2>1. dog' = [dog EXCEPT !.tripped = NoOperation, !.cause = None, !.armed = FALSE,
                           !.gen = dog.gen + 1]
    BY <1>1 DEF BeginRequest, Dogs
  <2>2. dog.gen + 1 \in Nat /\ NoOperation \in Operands
    BY <1>1 DEF Dogs, Operands, NoOperation
  <2> QED
    BY <1>1, <2>1, <2>2 DEF Dogs
<1>3. worker' = [pc |-> "next", work |-> reader.id, op |-> 0, outcome |-> None]
  BY DEF Launch, NoThread
<1>4. /\ reader.pc = "launching" /\ WorkerEnded /\ reader.id \in Works
      /\ first[reader.id] = None /\ busy /\ current = reader.id
  BY DEF Holding, Launch, Starting
<1>5. reader' \in Readers /\ reader'.pc = "reading"
  BY DEF Launch, Readers
<1> QED
  BY <1>2, <1>3, <1>4, <1>5 DEF Workers, ActivePcs

\* A cancel of the work at work: the first cause stays, the watchdog is disarmed.
LEMMA CancelEffect ==
  ASSUME Types, NEW c \in Cancels, CancelCurrent(c)
  PROVE  /\ dog' \in Dogs /\ ~ dog'.armed /\ dog'.tripped = dog.tripped
         /\ dog'.cause = IF dog.cause = None THEN "cancel" ELSE dog.cause
         /\ dog'.gen = dog.gen + 1
         /\ reader' \in Readers /\ reader'.pc = "joining" /\ reader'.id = c
         /\ \A w \in Works :
              first'[w] = IF w = Target[c] /\ first[w] = None THEN "cancel" ELSE first[w]
         /\ first' \in [Works -> {None, "cancel", "timeout"}]
         /\ cancelled' = TRUE /\ answer' = answer
<1>1. dog \in Dogs /\ dog' = CancelDog(dog)
  BY DEF Types, DogTypes, CancelCurrent
<1>2. /\ dog' \in Dogs /\ ~ dog'.armed /\ dog'.tripped = dog.tripped
      /\ dog'.cause = IF dog.cause = None THEN "cancel" ELSE dog.cause
      /\ dog'.gen = dog.gen + 1
  <2> DEFINE cause == IF dog.cause = None THEN "cancel" ELSE dog.cause
  <2>1. dog' = [dog EXCEPT !.cause = cause, !.armed = FALSE, !.gen = dog.gen + 1]
    BY <1>1 DEF CancelDog, Dogs
  <2>2. dog.gen + 1 \in Nat /\ cause \in {None, "cancel", "timeout"}
    BY <1>1 DEF Dogs
  <2>3. QED
    BY <1>1, <2>1, <2>2 DEF Dogs
<1>3. reader' \in Readers /\ reader'.pc = "joining" /\ reader'.id = c
  BY DEF CancelCurrent, Readers, Requests
<1>4. first' = [first EXCEPT ![Target[c]] = IF @ = None THEN "cancel" ELSE @]
  BY DEF CancelCurrent
<1>5. first' \in [Works -> {None, "cancel", "timeout"}]
  BY <1>4 DEF Types, WorkTypes
<1>6. \A w \in Works :
        first'[w] = IF w = Target[c] /\ first[w] = None THEN "cancel" ELSE first[w]
  BY <1>4 DEF Types, WorkTypes
<1> QED
  BY <1>2, <1>3, <1>5, <1>6 DEF CancelCurrent

\* The watchdog interrupts the operation it was armed for, if nothing did before.
LEMMA ExpireEffect ==
  ASSUME Types, Holding, Interrupting, Expire
  PROVE  /\ worker.pc = "op" /\ dog' \in Dogs /\ ~ dog'.armed /\ dog'.gen = dog.gen
         /\ first' \in [Works -> {None, "cancel", "timeout"}]
         /\ \/ /\ dog.cause # None /\ dog'.cause = dog.cause /\ dog'.tripped = dog.tripped
               /\ first' = first /\ cancelled' = cancelled
            \/ /\ dog.cause = None /\ dog'.cause = "timeout" /\ cancelled' = TRUE
               /\ dog'.tripped \in slow /\ dog'.tripped # NoOperation
               /\ first[worker.work] = None
               /\ \A w \in Works :
                    first'[w] = IF w = worker.work THEN "timeout" ELSE first[w]
         /\ UNCHANGED <<unread, reader, worker, busy, current, watch, slow, meshes,
                         answer, target, flushed, temp, step>>
<1>0. UNCHANGED <<unread, reader, worker, busy, current, watch, slow, meshes,
                 answer, target, flushed, temp, step>>
  BY DEF Expire, exportVars
<1> USE <1>0
<1>1. /\ dog \in Dogs /\ dog.armed /\ worker.pc = "op" /\ worker.work \in Works
      /\ dog.op = <<worker.work, worker.op>> /\ dog.op \in slow
      /\ first[worker.work] = dog.cause
  BY DEF Types, ThreadTypes, DogTypes, Holding, Interrupting, Armed, Caused, Expire,
         Active, ActivePcs
<1>2. dog.op # NoOperation /\ dog.op[1] = worker.work
  BY <1>1, KernelServerAssumption DEF NoOperation, None
<1>3. CASE dog.cause # None
  <2>1. dog' = [dog EXCEPT !.armed = FALSE] /\ UNCHANGED <<cancelled, first>>
    BY <1>3 DEF Expire
  <2> QED
    BY <1>1, <1>3, <2>1 DEF Dogs, Types, WorkTypes
<1>4. CASE dog.cause = None
  <2>1. /\ dog' = [dog EXCEPT !.armed = FALSE, !.cause = "timeout", !.tripped = dog.op]
        /\ first' = [first EXCEPT ![dog.op[1]] = IF @ = None THEN "timeout" ELSE @]
        /\ cancelled' = TRUE
    BY <1>4 DEF Expire
  <2>2. first' = [first EXCEPT ![worker.work] = "timeout"]
    BY <1>1, <1>2, <1>4, <2>1 DEF Types, WorkTypes
  <2>5. \A w \in Works : first'[w] = IF w = worker.work THEN "timeout" ELSE first[w]
    BY <2>2 DEF Types, WorkTypes
  <2>3. first' \in [Works -> {None, "cancel", "timeout"}]
    BY <2>2 DEF Types, WorkTypes
  <2>4. /\ dog' \in Dogs /\ ~ dog'.armed /\ dog'.gen = dog.gen /\ dog'.cause = "timeout"
        /\ dog'.tripped = dog.op
    BY <1>1, <2>1 DEF Dogs
  <2> QED
    BY <1>1, <1>2, <1>4, <2>1, <2>3, <2>4, <2>5
<1> QED
  BY <1>3, <1>4

\* The process leaves nothing of its memory.
LEMMA MemoryGoneEffect ==
  ASSUME Types, Exit \/ Crash
  PROVE  /\ reader' \in Readers
         /\ reader'.pc \in {"exited", "crashed"}
         /\ worker' \in Workers /\ worker'.pc = "none"
         /\ busy' = FALSE /\ cancelled' = FALSE /\ current' = None
         /\ UNCHANGED <<unread, meshes, answer, first>>
         /\ dog' \in Dogs /\ ~ dog'.armed /\ dog'.gen = 0 /\ dog'.cause = None
         /\ dog'.tripped = NoOperation
         /\ watch' \in [gen : Nat, op : Operands] /\ watch'.gen = 0
<1>0. /\ MemoryGone /\ reader' \in Readers /\ UNCHANGED <<unread, meshes, answer, first>>
      /\ reader'.pc \in {"exited", "crashed"}
  BY DEF Exit, Crash, MemoryGone, Types, ThreadTypes, Readers
<1>1. NoOperation \in Operands /\ dog \in Dogs
  BY DEF NoOperation, Operands, Types, DogTypes
<1>2. dog' = [dog EXCEPT !.armed = FALSE, !.gen = 0, !.op = NoOperation, !.cause = None,
                         !.tripped = NoOperation]
  BY <1>0 DEF MemoryGone
<1>3. dog' \in Dogs
  BY <1>1, <1>2 DEF Dogs
<1>4. /\ ~ dog'.armed /\ dog'.gen = 0 /\ dog'.cause = None
      /\ dog'.tripped = NoOperation
  BY <1>1, <1>2 DEF Dogs
<1>5. watch' = [gen |-> 0, op |-> NoOperation]
  BY <1>0 DEF MemoryGone
<1>6. watch' \in [gen : Nat, op : Operands] /\ watch'.gen = 0
  BY <1>1, <1>5
<1>7. worker' \in Workers /\ worker'.pc = "none"
  BY <1>0 DEF MemoryGone, NoThread, Workers, ActivePcs
<1> QED
  BY <1>0, <1>3, <1>4, <1>6, <1>7 DEF MemoryGone

\* The woken watchdog keeps what it was armed with.
LEMMA WatchEffect ==
  ASSUME Types, Watch
  PROVE  /\ watch' \in [gen : Nat, op : Operands]
         /\ watch'.gen = dog.gen /\ watch'.op = dog.op /\ dog' = dog
         /\ UNCHANGED <<unread, reader, worker, busy, current, cancelled, slow, meshes,
                         answer, first, target, flushed, temp, step>>
<1>0. UNCHANGED <<unread, reader, worker, busy, current, cancelled, slow, meshes,
                 answer, first, target, flushed, temp, step>>
  BY DEF Watch, hostVars, exportVars
<1> USE <1>0
<1>1. watch' = [gen |-> dog.gen, op |-> dog.op] /\ dog' = dog
  BY DEF Watch
<1>2. dog.gen \in Nat /\ dog.op \in Operands
  BY DEF Types, DogTypes, Dogs
<1> QED
  BY <1>1, <1>2

\* Generations are numbers.
LEMMA GenerationTypes ==
  /\ Types => dog.gen \in Nat /\ watch.gen \in Nat
  /\ dog' \in Dogs => dog'.gen \in Nat
BY DEF Types, DogTypes, Dogs

\* A cancel is answered at once, or claims the work it names, which is at work.
CancelAnswered(c) ==
  /\ ~ (busy /\ Target[c] = current)
  /\ answer' = [answer EXCEPT ![c] = "success"] /\ UNCHANGED <<reader, cancelled, dog, first>>
CancelClaims(c) ==
  /\ Active /\ worker.work = Target[c] /\ worker.work \in Works
  /\ dog' \in Dogs /\ ~ dog'.armed /\ dog'.tripped = dog.tripped
  /\ dog'.cause = IF dog.cause = None THEN "cancel" ELSE dog.cause
  /\ dog'.gen = dog.gen + 1
  /\ reader' \in Readers /\ reader'.pc = "joining" /\ reader'.id = c
  /\ \A w \in Works :
       first'[w] = IF w = Target[c] /\ first[w] = None THEN "cancel" ELSE first[w]
  /\ first' \in [Works -> {None, "cancel", "timeout"}]
  /\ cancelled' = TRUE /\ answer' = answer

LEMMA HandleCancelEffect ==
  ASSUME Types, Holding, NEW c \in Cancels, HandleCancel(c)
  PROVE  /\ reader.pc = "reading" /\ c \in unread /\ unread' = unread \ {c}
         /\ Target[c] \notin unread
         /\ UNCHANGED <<worker, busy, current, watch, slow, meshes>>
         /\ UNCHANGED <<target, flushed, temp, step>>
         /\ CancelAnswered(c) \/ CancelClaims(c)
<1>1. /\ reader.pc = "reading" /\ c \in unread /\ unread' = unread \ {c}
      /\ Target[c] \notin unread
      /\ UNCHANGED <<worker, busy, current, watch, slow, meshes>>
      /\ UNCHANGED <<target, flushed, temp, step>>
  BY DEF HandleCancel, Read, exportVars
<1>2. CASE busy /\ Target[c] = current
  <2>1. Active /\ worker.work = Target[c] /\ worker.work \in Works
    BY <1>1, <1>2 DEF Holding, Starting
  <2>2. CancelCurrent(c)
    BY <1>2 DEF HandleCancel
  <2> QED
    BY <1>1, <2>1, <2>2, CancelEffect DEF CancelClaims
<1>3. CASE ~ (busy /\ Target[c] = current)
  <2>1. CancelAnswered(c)
    BY <1>3 DEF HandleCancel, Answer, CancelAnswered
  <2> QED
    BY <1>1, <2>1
<1> QED
  BY <1>2, <1>3

-----------------------------------------------------------------------------
(***************************************************************************)
(* One lemma for each part of the invariant, one step for each action.      *)
(***************************************************************************)

\* Every step keeps the types of the threads' records.
LEMMA ThreadTypesKept ==
  ASSUME Types, Holding, Interrupting, [Next]_vars
  PROVE  ThreadTypes'
<1> USE KernelServerAssumption
        DEF Types, ThreadTypes, Readers, Workers, Holding, ActivePcs, Active, Starting,
            Returned, Requests, Codes, None
<1>1. CASE DeadlinePasses
  BY <1>1 DEF DeadlinePasses, hostVars, dogVars
<1>2. CASE Watch
  BY <1>2, WatchEffect
<1>3. CASE Expire
  BY <1>3, ExpireEffect
<1>4. ASSUME NEW r \in Immediate, HandleImmediate(r) PROVE ThreadTypes'
  BY <1>4 DEF HandleImmediate, Read, Answer, hostVars, dogVars
<1>5. ASSUME NEW r \in Works, StartWork(r) PROVE ThreadTypes'
  <2>1. /\ reader.pc = "reading" /\ r \in unread /\ unread' = unread \ {r}
        /\ UNCHANGED <<worker, current, cancelled, dog, watch, slow, meshes, first>>
    BY <1>5 DEF StartWork, Read, dogVars
  <2>2. CASE busy
    <3>1. answer' = [answer EXCEPT ![r] = "BUSY"] /\ UNCHANGED <<reader, busy>>
      BY <1>5, <2>2 DEF StartWork, Answer
    <3> QED
      BY <1>5, <2>1, <2>2, <3>1
  <2>3. CASE ~ busy
    <3>1. /\ busy' = TRUE /\ answer' = answer
          /\ reader' = [pc |-> "claiming", id |-> r]
      BY <1>5, <2>3 DEF StartWork
    <3> QED
      BY <1>5, <2>1, <2>3, <3>1
  <2> QED
    BY <2>2, <2>3
<1>6. ASSUME NEW c \in Cancels, HandleCancel(c) PROVE ThreadTypes'
  <2>1. CASE CancelAnswered(c)
    BY <1>6, <2>1, HandleCancelEffect DEF CancelAnswered
  <2>2. CASE CancelClaims(c)
    BY <1>6, <2>2, HandleCancelEffect DEF CancelClaims
  <2> QED
    BY <1>6, <2>1, <2>2, HandleCancelEffect
<1>7. CASE Claim
  BY <1>7 DEF Claim, WorkerEnded, NoThread, hostVars, dogVars
<1>8. CASE Launch
  BY <1>8, LaunchEffect
<1>9. CASE CancelAcknowledge
  BY <1>9
     DEF CancelAcknowledge, CancelJoined, WorkerEnded, NoThread, Answer, hostVars, dogVars
<1>10. CASE Stop
  BY <1>10 DEF Stop, hostVars, dogVars
<1>11. CASE Exit
  BY <1>11, MemoryGoneEffect
<1>12. CASE NextOperation
  BY <1>12, NextOperationEffect
<1>13. CASE PollFlag
  <2>1. LeaveOperation /\ OperationPolls
    BY <1>13 DEF PollFlag
  <2> QED
    BY <2>1, LeaveOperationEffect
<1>14. CASE RunOperation
  <2>1. LeaveOperation /\ OperationReturns
    BY <1>14 DEF RunOperation
  <2> QED
    BY <2>1, LeaveOperationEffect
<1>15. CASE ShapeBody
  BY <1>15, ShapeBodyEffect
<1>16. CASE Publish
  BY <1>16, PublishEffect
<1>17. CASE Settle
  BY <1>17 DEF Settle, CodeOf, hostVars, dogVars
<1>18. CASE ClearBusy
  BY <1>18 DEF ClearBusy, Turn, hostVars, dogVars
<1>19. CASE WriteResponse
  BY <1>19 DEF WriteResponse, Answer, Turn, hostVars, dogVars
<1>20. CASE Crash
  BY <1>20, MemoryGoneEffect
<1>21. CASE UNCHANGED vars
  BY <1>21 DEF vars, hostVars, dogVars
<1> QED
  BY <1>1, <1>2, <1>3, <1>4, <1>5, <1>6, <1>7, <1>8, <1>9, <1>10, <1>11,
     <1>12, <1>13, <1>14, <1>15, <1>16, <1>17, <1>18, <1>19, <1>20, <1>21
     DEF Next, Dog, ReaderStep, WorkerStep

\* Every step keeps the types of the watchdog.
LEMMA DogTypesKept ==
  ASSUME Types, Holding, Interrupting, [Next]_vars
  PROVE  DogTypes'
<1> USE KernelServerAssumption
        DEF Types, DogTypes, Operands, ActivePcs, Active, Starting, Returned, Requests,
            Codes, None
<1>1. CASE DeadlinePasses
  BY <1>1 DEF DeadlinePasses, hostVars, dogVars
<1>2. CASE Watch
  BY <1>2, WatchEffect
<1>3. CASE Expire
  BY <1>3, ExpireEffect
<1>4. ASSUME NEW r \in Immediate, HandleImmediate(r) PROVE DogTypes'
  BY <1>4 DEF HandleImmediate, Read, Answer, hostVars, dogVars
<1>5. ASSUME NEW r \in Works, StartWork(r) PROVE DogTypes'
  BY <1>5 DEF StartWork, Read, Answer, hostVars, dogVars
<1>6. ASSUME NEW c \in Cancels, HandleCancel(c) PROVE DogTypes'
  <2>1. CASE CancelAnswered(c)
    BY <1>6, <2>1, HandleCancelEffect DEF CancelAnswered
  <2>2. CASE CancelClaims(c)
    BY <1>6, <2>2, HandleCancelEffect DEF CancelClaims
  <2> QED
    BY <1>6, <2>1, <2>2, HandleCancelEffect
<1>7. CASE Claim
  BY <1>7 DEF Claim, WorkerEnded, NoThread, hostVars, dogVars
<1>8. CASE Launch
  BY <1>8, LaunchEffect
<1>9. CASE CancelAcknowledge
  BY <1>9
     DEF CancelAcknowledge, CancelJoined, WorkerEnded, NoThread, Answer, hostVars, dogVars
<1>10. CASE Stop
  BY <1>10 DEF Stop, hostVars, dogVars
<1>11. CASE Exit
  BY <1>11, MemoryGoneEffect
<1>12. CASE NextOperation
  BY <1>12, NextOperationEffect
<1>13. CASE PollFlag
  <2>1. LeaveOperation /\ OperationPolls
    BY <1>13 DEF PollFlag
  <2> QED
    BY <2>1, LeaveOperationEffect
<1>14. CASE RunOperation
  <2>1. LeaveOperation /\ OperationReturns
    BY <1>14 DEF RunOperation
  <2> QED
    BY <2>1, LeaveOperationEffect
<1>15. CASE ShapeBody
  BY <1>15, ShapeBodyEffect
<1>16. CASE Publish
  BY <1>16, PublishEffect
<1>17. CASE Settle
  BY <1>17 DEF Settle, CodeOf, hostVars, dogVars
<1>18. CASE ClearBusy
  BY <1>18 DEF ClearBusy, Turn, hostVars, dogVars
<1>19. CASE WriteResponse
  BY <1>19 DEF WriteResponse, Answer, Turn, hostVars, dogVars
<1>20. CASE Crash
  BY <1>20, MemoryGoneEffect
<1>21. CASE UNCHANGED vars
  BY <1>21 DEF vars, hostVars, dogVars
<1> QED
  BY <1>1, <1>2, <1>3, <1>4, <1>5, <1>6, <1>7, <1>8, <1>9, <1>10, <1>11,
     <1>12, <1>13, <1>14, <1>15, <1>16, <1>17, <1>18, <1>19, <1>20, <1>21
     DEF Next, Dog, ReaderStep, WorkerStep

\* Every step keeps the types of what is told of the works.
LEMMA WorkTypesKept ==
  ASSUME Types, Holding, Interrupting, [Next]_vars
  PROVE  WorkTypes'
<1> USE KernelServerAssumption
        DEF Types, ThreadTypes, WorkTypes, Workers, Readers, Holding, Interrupting, Told,
            ActivePcs, Active, Starting, Returned, Requests, Codes, None
<1>1. CASE DeadlinePasses
  BY <1>1 DEF DeadlinePasses, hostVars, dogVars
<1>2. CASE Watch
  BY <1>2, WatchEffect
<1>3. CASE Expire
  BY <1>3, ExpireEffect
<1>4. ASSUME NEW r \in Immediate, HandleImmediate(r) PROVE WorkTypes'
  BY <1>4 DEF HandleImmediate, Read, Answer, hostVars, dogVars
<1>5. ASSUME NEW r \in Works, StartWork(r) PROVE WorkTypes'
  BY <1>5 DEF StartWork, Read, Answer, hostVars, dogVars
<1>6. ASSUME NEW c \in Cancels, HandleCancel(c) PROVE WorkTypes'
  <2>1. CASE CancelAnswered(c)
    BY <1>6, <2>1, HandleCancelEffect DEF CancelAnswered
  <2>2. CASE CancelClaims(c)
    BY <1>6, <2>2, HandleCancelEffect DEF CancelClaims
  <2> QED
    BY <1>6, <2>1, <2>2, HandleCancelEffect
<1>7. CASE Claim
  BY <1>7 DEF Claim, WorkerEnded, NoThread, hostVars, dogVars
<1>8. CASE Launch
  BY <1>8, LaunchEffect
<1>9. CASE CancelAcknowledge
  BY <1>9
     DEF CancelAcknowledge, CancelJoined, WorkerEnded, NoThread, Answer, hostVars, dogVars
<1>10. CASE Stop
  BY <1>10 DEF Stop, hostVars, dogVars
<1>11. CASE Exit
  BY <1>11, MemoryGoneEffect
<1>12. CASE NextOperation
  BY <1>12, NextOperationEffect
<1>13. CASE PollFlag
  <2>1. LeaveOperation /\ OperationPolls
    BY <1>13 DEF PollFlag
  <2> QED
    BY <2>1, LeaveOperationEffect
<1>14. CASE RunOperation
  <2>1. LeaveOperation /\ OperationReturns
    BY <1>14 DEF RunOperation
  <2> QED
    BY <2>1, LeaveOperationEffect
<1>15. CASE ShapeBody
  BY <1>15, ShapeBodyEffect
<1>16. CASE Publish
  BY <1>16, PublishEffect
<1>17. CASE Settle
  BY <1>17 DEF Settle, CodeOf, hostVars, dogVars
<1>18. CASE ClearBusy
  BY <1>18 DEF ClearBusy, Turn, hostVars, dogVars
<1>19. CASE WriteResponse
  BY <1>19 DEF WriteResponse, Answer, Turn, hostVars, dogVars
<1>20. CASE Crash
  BY <1>20, MemoryGoneEffect
<1>21. CASE UNCHANGED vars
  BY <1>21 DEF vars, hostVars, dogVars
<1> QED
  BY <1>1, <1>2, <1>3, <1>4, <1>5, <1>6, <1>7, <1>8, <1>9, <1>10, <1>11,
     <1>12, <1>13, <1>14, <1>15, <1>16, <1>17, <1>18, <1>19, <1>20, <1>21
     DEF Next, Dog, ReaderStep, WorkerStep

\* The same of who holds the worker.
LEMMA HoldingKept ==
  ASSUME Types, Holding, Interrupting, [Next]_vars
  PROVE  Holding'
<1> USE KernelServerAssumption
        DEF Types, ThreadTypes, WorkTypes, Holding, ActivePcs, Active, Starting,
            Returned, Requests, Codes, None, WorkerEnded, Alive
<1>1. CASE DeadlinePasses
  BY <1>1 DEF DeadlinePasses, hostVars, dogVars
<1>2. CASE Watch
  BY <1>2, WatchEffect
<1>3. CASE Expire
  <2>1. /\ worker.pc = "op"
        /\ \A w \in Works : w # worker.work => first'[w] = first[w]
    <3> HIDE DEF Types, ThreadTypes, WorkTypes, Holding
    <3> QED
      BY <1>3, ExpireEffect
  <2>2. UNCHANGED <<unread, reader, worker, busy, current, answer>>
    BY <1>3 DEF Expire
  <2>3. worker.work \in Works \ unread
    BY <2>1
  <2> QED
    BY <2>1, <2>2, <2>3
<1>4. ASSUME NEW r \in Immediate, HandleImmediate(r) PROVE Holding'
  BY <1>4 DEF HandleImmediate, Read, Answer, hostVars, dogVars
<1>5. ASSUME NEW r \in Works, StartWork(r) PROVE Holding'
  BY <1>5 DEF StartWork, Read, Answer, hostVars, dogVars
<1>6. ASSUME NEW c \in Cancels, HandleCancel(c) PROVE Holding'
  <2>1. CASE CancelAnswered(c)
    BY <1>6, <2>1, HandleCancelEffect DEF CancelAnswered
  <2>2. CASE CancelClaims(c)
    BY <1>6, <2>2, HandleCancelEffect DEF CancelClaims
  <2> QED
    BY <1>6, <2>1, <2>2, HandleCancelEffect
<1>7. CASE Claim
  BY <1>7 DEF Claim, WorkerEnded, NoThread, hostVars, dogVars
<1>8. CASE Launch
  BY <1>8, LaunchEffect
<1>9. CASE CancelAcknowledge
  BY <1>9
     DEF CancelAcknowledge, CancelJoined, WorkerEnded, NoThread, Answer, hostVars, dogVars
<1>10. CASE Stop
  BY <1>10 DEF Stop, hostVars, dogVars
<1>11. CASE Exit
  BY <1>11, MemoryGoneEffect
<1>12. CASE NextOperation
  BY <1>12, NextOperationEffect
<1>13. CASE PollFlag
  <2>1. LeaveOperation /\ OperationPolls
    BY <1>13 DEF PollFlag
  <2> QED
    BY <2>1, LeaveOperationEffect
<1>14. CASE RunOperation
  <2>1. LeaveOperation /\ OperationReturns
    BY <1>14 DEF RunOperation
  <2> QED
    BY <2>1, LeaveOperationEffect
<1>15. CASE ShapeBody
  BY <1>15, ShapeBodyEffect
<1>16. CASE Publish
  BY <1>16, PublishEffect
<1>17. CASE Settle
  BY <1>17 DEF Settle, CodeOf, hostVars, dogVars
<1>18. CASE ClearBusy
  BY <1>18 DEF ClearBusy, Turn, hostVars, dogVars
<1>19. CASE WriteResponse
  BY <1>19 DEF WriteResponse, Answer, Turn, hostVars, dogVars
<1>20. CASE Crash
  BY <1>20, MemoryGoneEffect
<1>21. CASE UNCHANGED vars
  BY <1>21 DEF vars, hostVars, dogVars
<1> QED
  BY <1>1, <1>2, <1>3, <1>4, <1>5, <1>6, <1>7, <1>8, <1>9, <1>10, <1>11,
     <1>12, <1>13, <1>14, <1>15, <1>16, <1>17, <1>18, <1>19, <1>20, <1>21
     DEF Next, Dog, ReaderStep, WorkerStep

\* The same of what the watchdog is armed for.
LEMMA ArmedKept ==
  ASSUME Types, Holding, Interrupting, [Next]_vars
  PROVE  Armed'
<1> USE KernelServerAssumption, GenerationTypes
        DEF Types, ThreadTypes, DogTypes, Holding, Interrupting, Armed, ActivePcs,
            Active, Starting, Returned, Requests, Codes, None, WorkerEnded,
            SameOperation, NoOperation
<1>1. CASE DeadlinePasses
  BY <1>1 DEF DeadlinePasses, hostVars, dogVars
<1>2. CASE Watch
  BY <1>2, WatchEffect
<1>3. CASE Expire
  BY <1>3, ExpireEffect
<1>4. ASSUME NEW r \in Immediate, HandleImmediate(r) PROVE Armed'
  BY <1>4 DEF HandleImmediate, Read, Answer, hostVars, dogVars
<1>5. ASSUME NEW r \in Works, StartWork(r) PROVE Armed'
  BY <1>5 DEF StartWork, Read, Answer, hostVars, dogVars
<1>6. ASSUME NEW c \in Cancels, HandleCancel(c) PROVE Armed'
  <2>1. CASE CancelAnswered(c)
    BY <1>6, <2>1, HandleCancelEffect DEF CancelAnswered
  <2>2. CASE CancelClaims(c)
    BY <1>6, <2>2, HandleCancelEffect DEF CancelClaims
  <2> QED
    BY <1>6, <2>1, <2>2, HandleCancelEffect
<1>7. CASE Claim
  BY <1>7 DEF Claim, WorkerEnded, NoThread, hostVars, dogVars
<1>8. CASE Launch
  BY <1>8, LaunchEffect
<1>9. CASE CancelAcknowledge
  BY <1>9
     DEF CancelAcknowledge, CancelJoined, WorkerEnded, NoThread, Answer, hostVars, dogVars
<1>10. CASE Stop
  BY <1>10 DEF Stop, hostVars, dogVars
<1>11. CASE Exit
  BY <1>11, MemoryGoneEffect
<1>12. CASE NextOperation
  BY <1>12, NextOperationEffect
<1>13. CASE PollFlag
  <2>1. LeaveOperation /\ OperationPolls
    BY <1>13 DEF PollFlag
  <2> QED
    BY <2>1, LeaveOperationEffect
<1>14. CASE RunOperation
  <2>1. LeaveOperation /\ OperationReturns
    BY <1>14 DEF RunOperation
  <2> QED
    BY <2>1, LeaveOperationEffect
<1>15. CASE ShapeBody
  BY <1>15, ShapeBodyEffect
<1>16. CASE Publish
  BY <1>16, PublishEffect
<1>17. CASE Settle
  BY <1>17 DEF Settle, CodeOf, hostVars, dogVars
<1>18. CASE ClearBusy
  BY <1>18 DEF ClearBusy, Turn, hostVars, dogVars
<1>19. CASE WriteResponse
  BY <1>19 DEF WriteResponse, Answer, Turn, hostVars, dogVars
<1>20. CASE Crash
  BY <1>20, MemoryGoneEffect
<1>21. CASE UNCHANGED vars
  BY <1>21 DEF vars, hostVars, dogVars
<1> QED
  BY <1>1, <1>2, <1>3, <1>4, <1>5, <1>6, <1>7, <1>8, <1>9, <1>10, <1>11,
     <1>12, <1>13, <1>14, <1>15, <1>16, <1>17, <1>18, <1>19, <1>20, <1>21
     DEF Next, Dog, ReaderStep, WorkerStep

\* The same of what interrupts the work at work.
LEMMA CausedKept ==
  ASSUME Types, Holding, Interrupting, [Next]_vars
  PROVE  Caused'
<1> USE KernelServerAssumption
        DEF Types, ThreadTypes, DogTypes, WorkTypes, Holding, Interrupting, Caused,
            ActivePcs, Active, Starting, Returned, Requests, Codes, None, WorkerEnded,
            Stopped, NoOperation
<1>1. CASE DeadlinePasses
  BY <1>1 DEF DeadlinePasses, hostVars, dogVars
<1>2. CASE Watch
  BY <1>2, WatchEffect
<1>3. CASE Expire
  BY <1>3, ExpireEffect
<1>4. ASSUME NEW r \in Immediate, HandleImmediate(r) PROVE Caused'
  BY <1>4 DEF HandleImmediate, Read, Answer, hostVars, dogVars
<1>5. ASSUME NEW r \in Works, StartWork(r) PROVE Caused'
  BY <1>5 DEF StartWork, Read, Answer, hostVars, dogVars
<1>6. ASSUME NEW c \in Cancels, HandleCancel(c) PROVE Caused'
  <2>1. CASE CancelAnswered(c)
    BY <1>6, <2>1, HandleCancelEffect DEF CancelAnswered
  <2>2. CASE CancelClaims(c)
    BY <1>6, <2>2, HandleCancelEffect DEF CancelClaims
  <2> QED
    BY <1>6, <2>1, <2>2, HandleCancelEffect
<1>7. CASE Claim
  BY <1>7 DEF Claim, WorkerEnded, NoThread, hostVars, dogVars
<1>8. CASE Launch
  BY <1>8, LaunchEffect
<1>9. CASE CancelAcknowledge
  BY <1>9
     DEF CancelAcknowledge, CancelJoined, WorkerEnded, NoThread, Answer, hostVars, dogVars
<1>10. CASE Stop
  BY <1>10 DEF Stop, hostVars, dogVars
<1>11. CASE Exit
  BY <1>11, MemoryGoneEffect
<1>12. CASE NextOperation
  BY <1>12, NextOperationEffect
<1>13. CASE PollFlag
  <2>1. LeaveOperation /\ OperationPolls
    BY <1>13 DEF PollFlag
  <2> QED
    BY <2>1, LeaveOperationEffect
<1>14. CASE RunOperation
  <2>1. LeaveOperation /\ OperationReturns
    BY <1>14 DEF RunOperation
  <2> QED
    BY <2>1, LeaveOperationEffect
<1>15. CASE ShapeBody
  BY <1>15, ShapeBodyEffect
<1>16. CASE Publish
  BY <1>16, PublishEffect
<1>17. CASE Settle
  BY <1>17 DEF Settle, CodeOf, hostVars, dogVars
<1>18. CASE ClearBusy
  BY <1>18 DEF ClearBusy, Turn, hostVars, dogVars
<1>19. CASE WriteResponse
  BY <1>19 DEF WriteResponse, Answer, Turn, hostVars, dogVars
<1>20. CASE Crash
  BY <1>20, MemoryGoneEffect
<1>21. CASE UNCHANGED vars
  BY <1>21 DEF vars, hostVars, dogVars
<1> QED
  BY <1>1, <1>2, <1>3, <1>4, <1>5, <1>6, <1>7, <1>8, <1>9, <1>10, <1>11,
     <1>12, <1>13, <1>14, <1>15, <1>16, <1>17, <1>18, <1>19, <1>20, <1>21
     DEF Next, Dog, ReaderStep, WorkerStep

\* The same of what the worker is about to tell.
LEMMA ToldKept ==
  ASSUME Types, Holding, Interrupting, [Next]_vars
  PROVE  Told'
<1> USE KernelServerAssumption
        DEF Types, ThreadTypes, DogTypes, WorkTypes, Holding, Interrupting, Armed,
            Caused, Told, ActivePcs, Active, Starting, Returned, Requests, Codes, None,
            WorkerEnded, Stopped, NoOperation
<1>1. CASE DeadlinePasses
  BY <1>1 DEF DeadlinePasses, hostVars, dogVars
<1>2. CASE Watch
  BY <1>2, WatchEffect
<1>3. CASE Expire
  BY <1>3, ExpireEffect
<1>4. ASSUME NEW r \in Immediate, HandleImmediate(r) PROVE Told'
  BY <1>4 DEF HandleImmediate, Read, Answer, hostVars, dogVars
<1>5. ASSUME NEW r \in Works, StartWork(r) PROVE Told'
  BY <1>5 DEF StartWork, Read, Answer, hostVars, dogVars
<1>6. ASSUME NEW c \in Cancels, HandleCancel(c) PROVE Told'
  <2>1. CASE CancelAnswered(c)
    BY <1>6, <2>1, HandleCancelEffect DEF CancelAnswered
  <2>2. CASE CancelClaims(c)
    BY <1>6, <2>2, HandleCancelEffect DEF CancelClaims
  <2> QED
    BY <1>6, <2>1, <2>2, HandleCancelEffect
<1>7. CASE Claim
  BY <1>7 DEF Claim, WorkerEnded, NoThread, hostVars, dogVars
<1>8. CASE Launch
  BY <1>8, LaunchEffect
<1>9. CASE CancelAcknowledge
  BY <1>9
     DEF CancelAcknowledge, CancelJoined, WorkerEnded, NoThread, Answer, hostVars, dogVars
<1>10. CASE Stop
  BY <1>10 DEF Stop, hostVars, dogVars
<1>11. CASE Exit
  BY <1>11, MemoryGoneEffect
<1>12. CASE NextOperation
  BY <1>12, NextOperationEffect
<1>13. CASE PollFlag
  <2>1. LeaveOperation /\ OperationPolls
    BY <1>13 DEF PollFlag
  <2> QED
    BY <2>1, LeaveOperationEffect
<1>14. CASE RunOperation
  <2>1. LeaveOperation /\ OperationReturns
    BY <1>14 DEF RunOperation
  <2> QED
    BY <2>1, LeaveOperationEffect
<1>15. CASE ShapeBody
  BY <1>15, ShapeBodyEffect
<1>16. CASE Publish
  BY <1>16, PublishEffect
<1>17. CASE Settle
  BY <1>17 DEF Settle, CodeOf, hostVars, dogVars
<1>18. CASE ClearBusy
  BY <1>18 DEF ClearBusy, Turn, hostVars, dogVars
<1>19. CASE WriteResponse
  BY <1>19 DEF WriteResponse, Answer, Turn, hostVars, dogVars
<1>20. CASE Crash
  BY <1>20, MemoryGoneEffect
<1>21. CASE UNCHANGED vars
  BY <1>21 DEF vars, hostVars, dogVars
<1> QED
  BY <1>1, <1>2, <1>3, <1>4, <1>5, <1>6, <1>7, <1>8, <1>9, <1>10, <1>11,
     <1>12, <1>13, <1>14, <1>15, <1>16, <1>17, <1>18, <1>19, <1>20, <1>21
     DEF Next, Dog, ReaderStep, WorkerStep

\* The same of what was told.
LEMMA HonestKept ==
  ASSUME Types, Holding, Interrupting, InterruptHonest, [Next]_vars
  PROVE  InterruptHonest'
<1> USE KernelServerAssumption
        DEF Types, ThreadTypes, DogTypes, WorkTypes, Holding, Interrupting, Armed,
            Caused, Told, InterruptHonest, ActivePcs, Active, Starting, Returned,
            Requests, Codes, None, Stopped, NoOperation
<1>1. CASE DeadlinePasses
  BY <1>1 DEF DeadlinePasses, hostVars, dogVars
<1>2. CASE Watch
  BY <1>2, WatchEffect
<1>3. CASE Expire
  BY <1>3, ExpireEffect
<1>4. ASSUME NEW r \in Immediate, HandleImmediate(r) PROVE InterruptHonest'
  BY <1>4 DEF HandleImmediate, Read, Answer, hostVars, dogVars
<1>5. ASSUME NEW r \in Works, StartWork(r) PROVE InterruptHonest'
  BY <1>5 DEF StartWork, Read, Answer, hostVars, dogVars
<1>6. ASSUME NEW c \in Cancels, HandleCancel(c) PROVE InterruptHonest'
  <2>1. CASE CancelAnswered(c)
    BY <1>6, <2>1, HandleCancelEffect DEF CancelAnswered
  <2>2. CASE CancelClaims(c)
    BY <1>6, <2>2, HandleCancelEffect DEF CancelClaims
  <2> QED
    BY <1>6, <2>1, <2>2, HandleCancelEffect
<1>7. CASE Claim
  BY <1>7 DEF Claim, WorkerEnded, NoThread, hostVars, dogVars
<1>8. CASE Launch
  BY <1>8, LaunchEffect
<1>9. CASE CancelAcknowledge
  BY <1>9
     DEF CancelAcknowledge, CancelJoined, WorkerEnded, NoThread, Answer, hostVars, dogVars
<1>10. CASE Stop
  BY <1>10 DEF Stop, hostVars, dogVars
<1>11. CASE Exit
  BY <1>11, MemoryGoneEffect
<1>12. CASE NextOperation
  BY <1>12, NextOperationEffect
<1>13. CASE PollFlag
  <2>1. LeaveOperation /\ OperationPolls
    BY <1>13 DEF PollFlag
  <2> QED
    BY <2>1, LeaveOperationEffect
<1>14. CASE RunOperation
  <2>1. LeaveOperation /\ OperationReturns
    BY <1>14 DEF RunOperation
  <2> QED
    BY <2>1, LeaveOperationEffect
<1>15. CASE ShapeBody
  BY <1>15, ShapeBodyEffect
<1>16. CASE Publish
  BY <1>16, PublishEffect
<1>17. CASE Settle
  BY <1>17 DEF Settle, CodeOf, hostVars, dogVars
<1>18. CASE ClearBusy
  BY <1>18 DEF ClearBusy, Turn, hostVars, dogVars
<1>19. CASE WriteResponse
  BY <1>19 DEF WriteResponse, Answer, Turn, hostVars, dogVars
<1>20. CASE Crash
  BY <1>20, MemoryGoneEffect
<1>21. CASE UNCHANGED vars
  BY <1>21 DEF vars, hostVars, dogVars
<1> QED
  BY <1>1, <1>2, <1>3, <1>4, <1>5, <1>6, <1>7, <1>8, <1>9, <1>10, <1>11,
     <1>12, <1>13, <1>14, <1>15, <1>16, <1>17, <1>18, <1>19, <1>20, <1>21
     DEF Next, Dog, ReaderStep, WorkerStep

\* The same of how far the publication is.
LEMMA ProgressKept ==
  ASSUME Types, Holding, Interrupting, Progress, [Next]_vars
  PROVE  Progress'
<1> USE KernelServerAssumption
        DEF Types, ThreadTypes, Holding, Progress, OnDisk, Garbled, ActivePcs, Active,
            Starting, Returned, Requests, Codes, None, WorkerEnded, Alive, NoThread
<1>1. CASE DeadlinePasses
  BY <1>1 DEF DeadlinePasses, hostVars, dogVars, exportVars
<1>2. CASE Watch
  BY <1>2, WatchEffect
<1>3. CASE Expire
  BY <1>3, ExpireEffect
<1>4. ASSUME NEW r \in Immediate, HandleImmediate(r) PROVE Progress'
  BY <1>4 DEF HandleImmediate, Read, Answer, hostVars, dogVars, exportVars
<1>5. ASSUME NEW r \in Works, StartWork(r) PROVE Progress'
  BY <1>5 DEF StartWork, Read, Answer, hostVars, dogVars, exportVars
<1>6. ASSUME NEW c \in Cancels, HandleCancel(c) PROVE Progress'
  <2>1. CASE CancelAnswered(c)
    BY <1>6, <2>1, HandleCancelEffect DEF CancelAnswered
  <2>2. CASE CancelClaims(c)
    BY <1>6, <2>2, HandleCancelEffect DEF CancelClaims
  <2> QED
    BY <1>6, <2>1, <2>2, HandleCancelEffect
<1>7. CASE Claim
  BY <1>7 DEF Claim, WorkerEnded, NoThread, hostVars, dogVars, exportVars
<1>8. CASE Launch
  BY <1>8, LaunchEffect
<1>9. CASE CancelAcknowledge
  BY <1>9
     DEF CancelAcknowledge, CancelJoined, WorkerEnded, NoThread, Answer, hostVars,
         dogVars, exportVars
<1>10. CASE Stop
  BY <1>10 DEF Stop, hostVars, dogVars, exportVars
<1>11. CASE Exit
  BY <1>11, MemoryGoneEffect DEF Exit, exportVars
<1>12. CASE NextOperation
  BY <1>12, NextOperationEffect
<1>13. CASE PollFlag
  <2>1. LeaveOperation /\ OperationPolls
    BY <1>13 DEF PollFlag
  <2> QED
    BY <2>1, LeaveOperationEffect
<1>14. CASE RunOperation
  <2>1. LeaveOperation /\ OperationReturns
    BY <1>14 DEF RunOperation
  <2> QED
    BY <2>1, LeaveOperationEffect
<1>15. CASE ShapeBody
  BY <1>15, ShapeBodyEffect
<1>16. CASE Publish
  <2>1. UNCHANGED <<unread, reader, busy, current, answer>>
    BY <1>16 DEF Publish, dogVars
  <2>2. /\ worker.pc = "publish" /\ worker'.work = worker.work /\ worker' \in Workers
        /\ worker.work \in Works /\ worker.work \in Exports
        /\ worker.work \notin {"none", "before", "nobody"}
    BY <1>16, PublishEffect
  <2>3. CASE worker' = worker /\ PublishStep(worker.work)
    <3>1. CASE Transfer
      BY <2>2, <2>3, <3>1 DEF Transfer, Goto
    <3>2. CASE WriteTemp(worker.work)
      BY <2>2, <2>3, <3>2 DEF WriteTemp, Goto, Files
    <3>3. CASE FsyncFile(worker.work)
      BY <2>2, <2>3, <3>3 DEF FsyncFile, Goto, Files
    <3>4. CASE ReopenVerify
      BY <2>2, <2>3, <3>4 DEF ReopenVerify, Goto
    <3>5. CASE RenameOverTarget
      <4>1. NoFile \in Files
        BY DEF NoFile, Files
      <4> QED
        BY <2>2, <2>3, <3>5, <4>1 DEF RenameOverTarget, Goto
    <3> QED
      BY <2>3, <3>1, <3>2, <3>3, <3>4, <3>5 DEF PublishStep
  <2>4. CASE worker'.pc = "settling" /\ PublishDone
    BY <2>2, <2>4 DEF PublishDone, Goto
  <2>5. CASE worker'.pc = "settling" /\ RemoveTemp
    <3>1. NoFile \in Files
      BY DEF NoFile, Files
    <3> QED
      BY <2>2, <2>5, <3>1 DEF RemoveTemp, Goto
  <2> QED
    BY <1>16, <2>3, <2>4, <2>5, PublishEffect DEF PublishFails, PublishPolls
<1>17. CASE Settle
  BY <1>17 DEF Settle, CodeOf, hostVars, dogVars, exportVars
<1>18. CASE ClearBusy
  BY <1>18 DEF ClearBusy, Turn, hostVars, dogVars, exportVars
<1>19. CASE WriteResponse
  BY <1>19 DEF WriteResponse, Answer, Turn, hostVars, dogVars, exportVars
<1>20. CASE Crash
  <2>1. worker'.pc = "none" /\ ExportCrash
    BY <1>20 DEF Crash, MemoryGone
  <2>2. AfterPowerLoss(target) = target
    BY DEF AfterPowerLoss
  <2>3. AfterPowerLoss(temp) \in Files
    BY DEF AfterPowerLoss, Files
  <2> QED
    BY <2>1, <2>2, <2>3 DEF ExportCrash
<1>21. CASE UNCHANGED vars
  BY <1>21 DEF vars, hostVars, dogVars, exportVars
<1> QED
  BY <1>1, <1>2, <1>3, <1>4, <1>5, <1>6, <1>7, <1>8, <1>9, <1>10, <1>11,
     <1>12, <1>13, <1>14, <1>15, <1>16, <1>17, <1>18, <1>19, <1>20, <1>21
     DEF Next, Dog, ReaderStep, WorkerStep

\* The same of whose file is at the output path.
LEMMA ReplacingKept ==
  ASSUME Types, Holding, Interrupting, Publishing, [Next]_vars
  PROVE  Replacing'
<1> USE KernelServerAssumption
        DEF Types, ThreadTypes, WorkTypes, Holding, Publishing, Replacing, Replaced,
            ActivePcs, Active, Starting, Returned, Requests, Codes, None, WorkerEnded,
            Alive, NoThread
<1>1. CASE DeadlinePasses
  BY <1>1 DEF DeadlinePasses, hostVars, dogVars, exportVars
<1>2. CASE Watch
  BY <1>2, WatchEffect
<1>3. CASE Expire
  <2>1. UNCHANGED <<unread, reader, worker, answer, target, flushed, step>>
    BY <1>3 DEF Expire, exportVars
  <2> QED
    BY <2>1
<1>4. ASSUME NEW r \in Immediate, HandleImmediate(r) PROVE Replacing'
  BY <1>4 DEF HandleImmediate, Read, Answer, hostVars, dogVars, exportVars
<1>5. ASSUME NEW r \in Works, StartWork(r) PROVE Replacing'
  BY <1>5 DEF StartWork, Read, Answer, hostVars, dogVars, exportVars
<1>6. ASSUME NEW c \in Cancels, HandleCancel(c) PROVE Replacing'
  <2>1. CASE CancelAnswered(c)
    BY <1>6, <2>1, HandleCancelEffect DEF CancelAnswered
  <2>2. CASE CancelClaims(c)
    BY <1>6, <2>2, HandleCancelEffect DEF CancelClaims
  <2> QED
    BY <1>6, <2>1, <2>2, HandleCancelEffect
<1>7. CASE Claim
  BY <1>7 DEF Claim, WorkerEnded, NoThread, hostVars, dogVars, exportVars
<1>8. CASE Launch
  BY <1>8, LaunchEffect
<1>9. CASE CancelAcknowledge
  BY <1>9
     DEF CancelAcknowledge, CancelJoined, WorkerEnded, NoThread, Answer, hostVars,
         dogVars, exportVars
<1>10. CASE Stop
  BY <1>10 DEF Stop, hostVars, dogVars, exportVars
<1>11. CASE Exit
  BY <1>11, MemoryGoneEffect DEF Exit, exportVars
<1>12. CASE NextOperation
  BY <1>12, NextOperationEffect
<1>13. CASE PollFlag
  <2>1. LeaveOperation /\ OperationPolls
    BY <1>13 DEF PollFlag
  <2> QED
    BY <2>1, LeaveOperationEffect
<1>14. CASE RunOperation
  <2>1. LeaveOperation /\ OperationReturns
    BY <1>14 DEF RunOperation
  <2> QED
    BY <2>1, LeaveOperationEffect
<1>15. CASE ShapeBody
  <2>1. worker.work \notin Exports
    BY <1>15, ShapeBodyEffect DEF Progress
  <2> QED
    BY <1>15, <2>1, ShapeBodyEffect
<1>16. CASE Publish
  <2>1. UNCHANGED <<unread, reader, busy, current, answer>>
    BY <1>16 DEF Publish, dogVars
  <2>2. /\ worker.pc = "publish" /\ worker'.work = worker.work
        /\ worker.work \in Works \ unread /\ answer[worker.work] = None /\ ~ Starting
        /\ worker.work \notin {"none", "before", "nobody"} /\ worker.work \in Exports
    BY <1>16, PublishEffect DEF Progress
  <2>3. CASE worker' = worker /\ PublishStep(worker.work)
    <3>1. CASE UNCHANGED <<target, flushed>> /\ step # "directory" /\ step' # "directory"
      BY <2>1, <2>2, <2>3, <3>1
    <3>2. CASE RenameOverTarget
      BY <2>1, <2>2, <2>3, <3>2 DEF RenameOverTarget, Goto, Progress
    <3> QED
      BY <2>3, <3>1, <3>2
         DEF PublishStep, Transfer, WriteTemp, FsyncFile, ReopenVerify, Goto
  <2>4. CASE worker'.pc = "settling" /\ worker'.outcome = "success" /\ PublishDone
    BY <2>1, <2>2, <2>4 DEF PublishDone, Goto, Progress
  <2>5. CASE worker'.pc = "settling" /\ worker'.outcome = "INTERNAL_ERROR" /\ PublishFails
    BY <2>1, <2>2, <2>5 DEF PublishFails, RemoveTemp, Goto
  <2>6. CASE worker'.pc = "settling" /\ worker'.outcome = "Cancelled"
            /\ PublishPolls(worker.work)
    <3>1. step # "directory"
      BY <2>6 DEF PublishPolls, Polled
    <3> QED
      BY <2>1, <2>2, <2>6, <3>1 DEF PublishPolls, RemoveTemp, Goto
  <2> QED
    BY <1>16, <2>3, <2>4, <2>5, <2>6, PublishEffect
<1>17. CASE Settle
  BY <1>17 DEF Settle, CodeOf, hostVars, dogVars, exportVars
<1>18. CASE ClearBusy
  BY <1>18 DEF ClearBusy, Turn, hostVars, dogVars, exportVars
<1>19. CASE WriteResponse
  BY <1>19 DEF WriteResponse, Answer, Turn, hostVars, dogVars, exportVars
<1>20. CASE Crash
  <2>1. /\ worker'.pc = "none" /\ reader'.pc = "crashed" /\ ExportCrash
        /\ UNCHANGED <<unread, answer>>
    BY <1>20 DEF Crash, MemoryGone
  <2>2. AfterPowerLoss(target) = target
    BY DEF AfterPowerLoss, Progress, OnDisk
  <2> QED
    BY <2>1, <2>2 DEF ExportCrash
<1>21. CASE UNCHANGED vars
  BY <1>21 DEF vars, hostVars, dogVars, exportVars
<1> QED
  BY <1>1, <1>2, <1>3, <1>4, <1>5, <1>6, <1>7, <1>8, <1>9, <1>10, <1>11,
     <1>12, <1>13, <1>14, <1>15, <1>16, <1>17, <1>18, <1>19, <1>20, <1>21
     DEF Next, Dog, ReaderStep, WorkerStep

\* The same of what an acknowledged cancel leaves behind.
LEMMA BarrierKept ==
  ASSUME Types, Holding, Interrupting, Barrier, [Next]_vars
  PROVE  Barrier'
<1> USE KernelServerAssumption
        DEF Types, ThreadTypes, DogTypes, WorkTypes, Holding, Barrier, ActivePcs, Active,
            Starting, Returned, Requests, Codes, None, WorkerEnded
<1>1. CASE DeadlinePasses
  BY <1>1 DEF DeadlinePasses, hostVars, dogVars
<1>2. CASE Watch
  BY <1>2, WatchEffect
<1>3. CASE Expire
  <2>1. UNCHANGED <<unread, reader, worker, answer>>
    BY <1>3 DEF Expire, exportVars
  <2> QED
    BY <2>1
<1>4. ASSUME NEW r \in Immediate, HandleImmediate(r) PROVE Barrier'
  BY <1>4 DEF HandleImmediate, Read, Answer, hostVars, dogVars
<1>5. ASSUME NEW r \in Works, StartWork(r) PROVE Barrier'
  BY <1>5 DEF StartWork, Read, Answer, hostVars, dogVars
<1>6. ASSUME NEW c \in Cancels, HandleCancel(c) PROVE Barrier'
  <2>1. CASE CancelAnswered(c)
    BY <1>6, <2>1, HandleCancelEffect DEF CancelAnswered
  <2>2. CASE CancelClaims(c)
    BY <1>6, <2>2, HandleCancelEffect DEF CancelClaims
  <2> QED
    BY <1>6, <2>1, <2>2, HandleCancelEffect
<1>7. CASE Claim
  BY <1>7 DEF Claim, WorkerEnded, NoThread, hostVars, dogVars
<1>8. CASE Launch
  BY <1>8, LaunchEffect
<1>9. CASE CancelAcknowledge
  BY <1>9
     DEF CancelAcknowledge, CancelJoined, WorkerEnded, NoThread, Answer, hostVars, dogVars
<1>10. CASE Stop
  BY <1>10 DEF Stop, hostVars, dogVars
<1>11. CASE Exit
  BY <1>11, MemoryGoneEffect
<1>12. CASE NextOperation
  BY <1>12, NextOperationEffect
<1>13. CASE PollFlag
  <2>1. LeaveOperation /\ OperationPolls
    BY <1>13 DEF PollFlag
  <2> QED
    BY <2>1, LeaveOperationEffect
<1>14. CASE RunOperation
  <2>1. LeaveOperation /\ OperationReturns
    BY <1>14 DEF RunOperation
  <2> QED
    BY <2>1, LeaveOperationEffect
<1>15. CASE ShapeBody
  BY <1>15, ShapeBodyEffect
<1>16. CASE Publish
  BY <1>16, PublishEffect
<1>17. CASE Settle
  BY <1>17 DEF Settle, CodeOf, hostVars, dogVars
<1>18. CASE ClearBusy
  BY <1>18 DEF ClearBusy, Turn, hostVars, dogVars
<1>19. CASE WriteResponse
  BY <1>19 DEF WriteResponse, Answer, Turn, hostVars, dogVars
<1>20. CASE Crash
  BY <1>20, MemoryGoneEffect
<1>21. CASE UNCHANGED vars
  BY <1>21 DEF vars, hostVars, dogVars
<1> QED
  BY <1>1, <1>2, <1>3, <1>4, <1>5, <1>6, <1>7, <1>8, <1>9, <1>10, <1>11,
     <1>12, <1>13, <1>14, <1>15, <1>16, <1>17, <1>18, <1>19, <1>20, <1>21
     DEF Next, Dog, ReaderStep, WorkerStep

-----------------------------------------------------------------------------
(***************************************************************************)
(* The invariant is inductive, and the theorems.                            *)
(***************************************************************************)

\* The invariant holds at the start.
LEMMA IInvInit ==
  ASSUME Init
  PROVE  IInv
<1> USE KernelServerAssumption DEF Init
<1>1. NoOperation \in Operands
  BY DEF NoOperation, Operands
<1>2. Types
  <2>1. ThreadTypes /\ WorkTypes
    BY DEF ThreadTypes, WorkTypes, Readers, Workers, NoThread, Requests, Codes
  <2>2. DogTypes
    BY <1>1 DEF DogTypes, Dogs
  <2> QED
    BY <2>1, <2>2 DEF Types
<1>3. Holding
  BY DEF Holding, Active, ActivePcs, Starting, NoThread, Requests
<1>4. Interrupting
  BY DEF Interrupting, Armed, Caused, Told, Active, ActivePcs, NoThread, None
<1>5. InterruptHonest /\ Barrier
  BY DEF InterruptHonest, Barrier, Requests, None
<1>6. Progress
  <2>1. target = [of |-> "before", state |-> "synced"] /\ flushed = target
        /\ temp = [of |-> "nobody", state |-> "absent"] /\ step = "transfer"
    BY DEF ExportInit, Before, NoFile
  <2>2. target \in Files /\ flushed \in Files /\ temp \in Files
    BY <2>1 DEF Files
  <2> QED
    BY <2>1, <2>2 DEF Progress, NoThread, OnDisk, Garbled
<1>7. Replacing
  BY DEF Replacing, Replaced, ExportInit, Before, NoThread, Starting, Requests, None
<1> QED
  BY <1>2, <1>3, <1>4, <1>5, <1>6, <1>7 DEF IInv, Publishing

\* Each part is kept by its own lemma.
LEMMA IInvNext ==
  ASSUME IInv, [Next]_vars
  PROVE  IInv'
<1> USE DEF IInv
<1>1. Types'
  BY ThreadTypesKept, DogTypesKept, WorkTypesKept DEF Types
<1>2. Holding' /\ InterruptHonest' /\ Barrier'
  BY HoldingKept, HonestKept, BarrierKept
<1>3. Interrupting'
  BY ArmedKept, CausedKept, ToldKept DEF Interrupting
<1>4. Publishing'
  BY ProgressKept, ReplacingKept DEF Publishing
<1> QED
  BY <1>1, <1>2, <1>3, <1>4

\* So it holds always.
LEMMA IInvHolds == Spec => []IInv
<1>1. Init => IInv
  BY IInvInit
<1>2. IInv /\ [Next]_vars => IInv'
  BY IInvNext
<1> QED
  BY <1>1, <1>2, PTL DEF Spec

\* Whatever the requests: a TIMEOUT is told only of a work whose own operation ran

\* over its budget, a CANCELLED only of one that was cancelled or whose host stops.
THEOREM InterruptsHonest == Spec => []InterruptHonest
<1>1. IInv => InterruptHonest
  BY DEF IInv
<1> QED
  BY <1>1, IInvHolds, PTL

\* Whatever the requests: once a cancel is acknowledged, the work it named does not

\* hold the worker again.
THEOREM CancelBarrier == Spec => []CancelIsBarrier
<1>1. IInv => CancelIsBarrier
  <2> SUFFICES ASSUME IInv, NEW c \in Cancels, answer[c] = "success", busy,
                      current = Target[c]
               PROVE  FALSE
    BY DEF CancelIsBarrier
  <2> USE DEF IInv, Holding, Barrier, Starting
  <2>1. CASE Active
    BY <2>1
  <2>2. CASE reader.pc = "launching"
    BY <2>2
  <2>3. CASE ~ Active /\ reader.pc = "claiming"
    BY <2>3, KernelServerAssumption DEF None
  <2> QED
    BY <2>1, <2>2, <2>3
<1> QED
  BY <1>1, IInvHolds, PTL

\* Whatever the requests and the operations: the file an export writes is one that was

\* whole, at every moment and after every crash, and is the export's own when it is
\* answered with success and another's when it was interrupted.
THEOREM ExportsHonest == Spec => []ExportHonest
<1>1. IInv => ExportHonest
  BY DEF IInv, Publishing, Progress, Replacing, Replaced, ExportHonest, TargetWhole
<1> QED
  BY <1>1, IInvHolds, PTL

\* Whatever the requests: BUSY is told only while another work awaits its answer.
THEOREM BusyTold == Spec => BusyIsTrue
<1>1. ASSUME IInv, [Next]_vars, NEW w \in Works, answer[w] = None, answer'[w] = "BUSY"
      PROVE  \E v \in Works \ {w} : Unanswered(v)
  <2> USE DEF None
  <2>1. ASSUME NEW r \in Works, StartWork(r) PROVE \E v \in Works \ {w} : Unanswered(v)
    <3>1. busy /\ reader.pc = "reading" /\ r \in unread /\ w = r
      <4>1. busy
        BY <1>1, <2>1 DEF StartWork
      <4>2. Answer(r, "BUSY") /\ reader.pc = "reading" /\ r \in unread
        BY <2>1, <4>1 DEF StartWork, Read
      <4> QED
        BY <1>1, <4>1, <4>2 DEF Answer, IInv, Types, WorkTypes
    <3>2. worker.work \in Works \ unread /\ answer[worker.work] = None
      BY <1>1, <3>1 DEF IInv, Holding, Starting
    <3> QED
      BY <3>1, <3>2 DEF Unanswered
  <2>2. CASE answer' = answer
    BY <1>1, <2>2
  <2>3. ASSUME NEW r \in Requests, NEW code \in Codes \ {"BUSY"}, Answer(r, code) PROVE FALSE
    BY <1>1, <2>3 DEF Answer, IInv, Types, WorkTypes
  <2>4. ASSUME NEW r \in Immediate, HandleImmediate(r) PROVE FALSE
    BY <2>3, <2>4 DEF HandleImmediate, Requests, Codes
  <2>5. ASSUME NEW c \in Cancels, HandleCancel(c)
        PROVE  answer' = answer \/ Answer(c, "success")
    BY <1>1, <2>5, HandleCancelEffect DEF IInv, CancelAnswered, CancelClaims, Answer
  <2>6. CASE CancelAcknowledge
    BY <1>1, <2>3, <2>6 DEF CancelAcknowledge, IInv, Holding, Requests, Codes
  <2>7. CASE WriteResponse
    <3>1. worker.pc = "writing" /\ worker.work \in Requests
      BY <1>1, <2>7 DEF WriteResponse, IInv, Holding, Requests
    <3>2. worker.outcome \in Codes \ {"BUSY"}
      BY <1>1, <3>1 DEF IInv, Interrupting, Told, Returned, Codes
    <3> QED
      BY <2>3, <2>7, <3>1, <3>2 DEF WriteResponse, Codes
  <2>8. CASE DeadlinePasses \/ Dog \/ Claim \/ Launch \/ Stop \/ Exit \/ Crash
    BY <2>2, <2>8 DEF DeadlinePasses, Dog, Watch, Expire, Claim, Launch, Stop, Exit, Crash
  <2>9. CASE NextOperation \/ PollFlag \/ RunOperation \/ ShapeBody \/ Publish
    BY <2>2, <2>9
       DEF NextOperation, PollFlag, RunOperation, LeaveOperation, ShapeBody, Publish
  <2>10. CASE Settle \/ ClearBusy \/ UNCHANGED vars
    BY <2>2, <2>10 DEF Settle, ClearBusy, vars
  <2>11. "success" \in Codes \ {"BUSY"} /\ Cancels \subseteq Requests
    BY DEF Codes, Requests
  <2> QED
    BY <1>1, <2>1, <2>2, <2>3, <2>4, <2>5, <2>6, <2>7, <2>8, <2>9, <2>10, <2>11
       DEF Next, ReaderStep, WorkerStep
<1>2. IInv /\ [Next]_vars
        => \A w \in Works : answer[w] = None /\ answer'[w] = "BUSY"
             => \E v \in Works \ {w} : Unanswered(v)
  BY <1>1
<1> QED
  BY <1>2, IInvHolds, PTL DEF Spec, BusyIsTrue
================================================================================
