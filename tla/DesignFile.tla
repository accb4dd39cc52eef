----------------------------- MODULE DesignFile -----------------------------
(***************************************************************************)
(* One design file and the requests on it (src/c06/cli.bend): read_file,   *)
(* load, apply_parsed, commit_go, write_file and main_new.                 *)
(*                                                                         *)
(* The resident server takes requests in turn: it reads the file, decides, *)
(* writes if it commits, and only then answers.  Opening the file for      *)
(* writing empties it; the text follows in one or more pieces.  A request  *)
(* may be killed at any step with the process that serves it (the timer of *)
(* McpFrontEnd, or a crash), also inside the write: what was written then  *)
(* stays.  One-shot command lines that wait for each other behave the same.*)
(*                                                                         *)
(* Left out: several processes on the file at once, which no document      *)
(* promises to order, and a write the system refuses, which ends the       *)
(* process (IO.pass).                                                      *)
(***************************************************************************)
EXTENDS DesignEdits, FiniteSets

CONSTANTS
  Requests,  \* the requests made of the file
  Kind,      \* of each: "apply", "query", "new"
  Edits,     \* of each apply, the list of edits
  Initial,   \* the design in the file at the start
  MaxKills   \* bound: how many are killed

ASSUME RequestsAssumption ==
  /\ Kind \in [Requests -> {"apply", "query", "new"}]
  /\ Builds(Initial)
  /\ MaxKills \in Nat

VARIABLES
  file,     \* its text: [d |-> whole items, cut |-> ends inside an item]
  stage,    \* of each request
  base,     \* the design each request loaded
  draft,    \* the design each request is about to write
  verdict,  \* the line each request will print or send
  told,     \* what its client heard
  kills

vars == <<file, stage, base, draft, verdict, told, kills>>

Said(what) == [what |-> what, saw |-> EmptyDesign]
Nothing    == Said("nothing")

Whole(d) == [d |-> d, cut |-> FALSE]

Init ==
  /\ file = Whole(Initial)
  /\ stage = [r \in Requests |-> "waiting"]
  /\ base = [r \in Requests |-> EmptyDesign]
  /\ draft = [r \in Requests |-> EmptyDesign]
  /\ verdict = [r \in Requests |-> Nothing]
  /\ told = [r \in Requests |-> Nothing]
  /\ kills = 0

(***************************************************************************)
(* load: the parser answers with the innermost open list, so a text that   *)
(* ends inside an item loads as a design without items.                    *)
(***************************************************************************)
Load(f) == IF f.cut THEN EmptyDesign ELSE f.d

Working   == {"read", "opening", "writing", "answering"}
Ended     == {"done", "torn"}
Writing   == {r \in Requests : stage[r] = "writing"}
Quiet     == Writing = {}

InTurn_Concurrent(r) == TRUE
InTurn(r) == \A q \in Requests : stage[q] \notin Working

Answers(r, v) ==
  /\ stage' = [stage EXCEPT ![r] = "answering"]
  /\ verdict' = [verdict EXCEPT ![r] = v]

Query(r) ==
  /\ stage[r] = "waiting" /\ Kind[r] = "query" /\ InTurn(r)
  /\ base' = [base EXCEPT ![r] = Load(file)]
  /\ Answers(r, [what |-> "shown", saw |-> Load(file)])
  /\ UNCHANGED <<file, draft, told, kills>>

Read(r) ==
  /\ stage[r] = "waiting" /\ Kind[r] = "apply" /\ InTurn(r)
  /\ base' = [base EXCEPT ![r] = Load(file)]
  /\ draft' = [draft EXCEPT ![r] = Edited(Load(file), Edits[r])]
  /\ stage' = [stage EXCEPT ![r] = "read"]
  /\ UNCHANGED <<file, verdict, told, kills>>

(***************************************************************************)
(* apply_go and commit_e: malformed edits, then a design that does not     *)
(* build, are refused before the file is opened.                           *)
(***************************************************************************)
Refuse(r) ==
  /\ stage[r] = "read"
  /\ ~EditsOk(Edits[r]) \/ ~Builds(draft[r])
  /\ Answers(r, Said(IF EditsOk(Edits[r]) THEN "rejected" ELSE "invalid"))
  /\ UNCHANGED <<file, base, draft, told, kills>>

Accept_Unchecked(r) ==
  /\ stage[r] = "read"
  /\ EditsOk(Edits[r])
  /\ stage' = [stage EXCEPT ![r] = "opening"]
  /\ UNCHANGED <<file, base, draft, verdict, told, kills>>
Accept(r) ==
  /\ stage[r] = "read"
  /\ EditsOk(Edits[r]) /\ Builds(draft[r])
  /\ stage' = [stage EXCEPT ![r] = "opening"]
  /\ UNCHANGED <<file, base, draft, verdict, told, kills>>

New(r) ==
  /\ stage[r] = "waiting" /\ Kind[r] = "new" /\ InTurn(r)
  /\ base' = [base EXCEPT ![r] = Load(file)]
  /\ stage' = [stage EXCEPT ![r] = "opening"]
  /\ UNCHANGED <<file, draft, verdict, told, kills>>

(***************************************************************************)
(* write_file.                                                             *)
(***************************************************************************)
Truncate(r) ==
  /\ stage[r] = "opening"
  /\ file' = Whole(EmptyDesign)
  /\ stage' = [stage EXCEPT ![r] = "writing"]
  /\ UNCHANGED <<base, draft, verdict, told, kills>>

(* part_show prints the nodes before the materials. *)
FirstNodes(ns) ==
  {[i \in 1..n |-> ns[i]] : n \in {k \in 0..Len(ns) : 1..k \subseteq DOMAIN ns}}

Beginnings(d) ==
  {f \in [d   : [nodes : FirstNodes(d.nodes), mats : SUBSET d.mats],
          cut : BOOLEAN] :
     f.d.mats # {} => f.d.nodes = d.nodes}

WritePart(r) ==
  /\ stage[r] = "writing" /\ file = Whole(EmptyDesign)
  /\ file' \in Beginnings(draft[r])
  /\ UNCHANGED <<stage, base, draft, verdict, told, kills>>

WriteRest(r) ==
  /\ stage[r] = "writing"
  /\ file' = Whole(draft[r])
  /\ Answers(r, Said(IF Kind[r] = "new" THEN "created" ELSE "committed"))
  /\ UNCHANGED <<base, draft, told, kills>>

Tell_KeepOpen(r) ==
  /\ stage[r] = "answering"
  /\ told' = [told EXCEPT ![r] = verdict[r]]
  /\ UNCHANGED <<file, stage, base, draft, verdict, kills>>
Tell(r) ==
  /\ stage[r] = "answering"
  /\ told' = [told EXCEPT ![r] = verdict[r]]
  /\ stage' = [stage EXCEPT ![r] = "done"]
  /\ UNCHANGED <<file, base, draft, verdict, kills>>

(***************************************************************************)
(* The process that serves the request dies, or the request was waiting    *)
(* for a process that died.  A write that was under way is torn: the file  *)
(* keeps what it holds.                                                    *)
(***************************************************************************)
Kill(r) ==
  /\ stage[r] \notin Ended /\ kills < MaxKills
  /\ stage' = [stage EXCEPT ![r] = IF @ = "writing" THEN "torn" ELSE "done"]
  /\ told' = [told EXCEPT ![r] = Said("killed")]
  /\ kills' = kills + 1
  /\ UNCHANGED <<file, base, draft, verdict>>

AllTold == (\A r \in Requests : stage[r] \in Ended) /\ UNCHANGED vars

Serve(r) ==
  \/ Query(r) \/ Read(r) \/ Refuse(r) \/ Accept(r) \/ New(r)
  \/ Truncate(r) \/ WritePart(r) \/ WriteRest(r) \/ Tell(r)

Next == (\E r \in Requests : Serve(r) \/ Kill(r)) \/ AllTold

(***************************************************************************)
(* The server goes on with what it took, and takes what is waiting; the    *)
(* system finishes a write.                                                *)
(***************************************************************************)
Fairness == \A r \in Requests :
  /\ WF_vars(Serve(r))
  /\ WF_vars(WriteRest(r))

Spec     == Init /\ [][Next]_vars
FairSpec == Spec /\ Fairness

-----------------------------------------------------------------------------
(***************************************************************************)
(* Whenever nobody is writing, the next request loads a design that        *)
(* builds, though edits replace nodes in place and delete what others      *)
(* stand on, and though a request may have been killed while it wrote: the *)
(* edited design is evaluated before the file is opened (commit_e), and    *)
(* every beginning of its text loads as nodes that stand on each other     *)
(* alone.  Only a torn write leaves an item cut.                           *)
(***************************************************************************)
FileBuilds == Quiet =>
  /\ Builds(Load(file))
  /\ file.cut => \E r \in Requests : stage[r] = "torn"

(***************************************************************************)
(* The design the clients may rely on: what the file held before the       *)
(* request that is writing it opened it.                                   *)
(***************************************************************************)
Committed == IF Quiet THEN Load(file) ELSE base[CHOOSE r \in Writing : TRUE]

(* What a request that is killed while it writes d may leave. *)
LeftOf(d) == {Load(f) : f \in {Whole(EmptyDesign)} \union Beginnings(d)}

Promise == INSTANCE AtomicDesign WITH design <- Committed, Left <- LeftOf

(***************************************************************************)
(* Served in turn, every request takes effect at once and is answered with *)
(* what took effect (srv_loop takes one connection at a time; commit_go    *)
(* answers after write_file); a client that hears nothing, because its     *)
(* request was killed, finds the design as it was, as it should be, or -   *)
(* when the kill came inside write_file - a beginning of what it should    *)
(* be, and never a mixture of two designs.                                 *)
(***************************************************************************)
Linearizable == Promise!Spec

(***************************************************************************)
(* Why: at most one request is at work; what it loaded is the committed    *)
(* design until it is answered, what it will write is that design edited,  *)
(* it opens the file only when that builds, and while it writes the file   *)
(* holds a beginning of it.                                                *)
(***************************************************************************)
Shaped ==
  /\ stage \in [Requests -> Working \union Ended \union {"waiting"}]
  /\ DOMAIN base = Requests /\ DOMAIN draft = Requests
  /\ DOMAIN verdict = Requests /\ DOMAIN told = Requests

OneAtWork == \A q, r \in Requests :
  stage[q] \in Working /\ stage[r] \in Working => q = r

Loaded == \A r \in Requests : stage[r] \in {"read", "opening"} => base[r] = Load(file)

Drafted == \A r \in Requests :
  /\ stage[r] = "waiting" => draft[r] = EmptyDesign
  /\ stage[r] = "read" => Kind[r] = "apply"
  /\ stage[r] \in {"read", "opening", "writing"} /\ Kind[r] = "apply"
       => draft[r] = Edited(base[r], Edits[r])
  /\ stage[r] \in {"opening", "writing"} =>
       \/ Kind[r] = "apply" /\ EditsOk(Edits[r]) /\ Builds(draft[r])
       \/ Kind[r] = "new" /\ draft[r] = EmptyDesign

Undecided == \A r \in Requests :
  /\ stage[r] \in {"waiting", "read", "opening", "writing"} => verdict[r] = Nothing
  /\ stage[r] = "answering" => verdict[r] # Nothing
  /\ stage[r] \notin Ended => told[r] = Nothing

Written == \A r \in Writing :
  file = Whole(EmptyDesign) \/ file \in Beginnings(draft[r])

IInv == Shaped /\ OneAtWork /\ Loaded /\ Drafted /\ Undecided /\ Written /\ FileBuilds

(***************************************************************************)
(* Every request is told something.                                        *)
(***************************************************************************)
EveryRequestTold == \A r \in Requests : <>(told[r] # Nothing)

=============================================================================
