---------------------------- MODULE AtomicDesign ---------------------------
(***************************************************************************)
(* What a design file promises its clients (docs/c06-contract.md, section  *)
(* 8: "apply is atomic"): every request takes effect at one moment between *)
(* being made and being answered.  An apply then changes the whole design  *)
(* or nothing, a query sees one committed design, and new starts over.  A  *)
(* client whose answer is lost knows nothing about the effect.             *)
(*                                                                         *)
(* Left says what a write that is torn by a kill may leave; the document's *)
(* own words leave no room for one, which would be Left(d) = {}.           *)
(***************************************************************************)
CONSTANTS
  Requests, Kind, Edits,  \* the requests, their kinds, the edits of an apply
  Initial, EmptyDesign,   \* the design at the start, and the one new makes
  Edited(_, _),           \* a design with edits applied
  EditsOk(_),             \* edits are well formed
  Builds(_),              \* a design may be committed
  Left(_)                 \* what a torn write of a design may leave

VARIABLES
  design,   \* the committed design
  verdict,  \* what each request came to
  told      \* what its client heard

avars == <<design, verdict, told>>

Said(what) == [what |-> what, saw |-> EmptyDesign]
Nothing    == Said("nothing")

Init ==
  /\ design = Initial
  /\ verdict = [r \in Requests |-> Nothing]
  /\ told = [r \in Requests |-> Nothing]

Becomes(r, d, v) ==
  /\ verdict[r] = Nothing /\ told[r] = Nothing
  /\ design' = d
  /\ verdict' = [verdict EXCEPT ![r] = v]
  /\ UNCHANGED told

Invalid(r) ==
  /\ Kind[r] = "apply" /\ ~EditsOk(Edits[r])
  /\ Becomes(r, design, Said("invalid"))

Reject(r) ==
  /\ Kind[r] = "apply" /\ EditsOk(Edits[r]) /\ ~Builds(Edited(design, Edits[r]))
  /\ Becomes(r, design, Said("rejected"))

Commit(r) ==
  /\ Kind[r] = "apply" /\ EditsOk(Edits[r]) /\ Builds(Edited(design, Edits[r]))
  /\ Becomes(r, Edited(design, Edits[r]), Said("committed"))

Look(r) ==
  /\ Kind[r] = "query"
  /\ Becomes(r, design, [what |-> "shown", saw |-> design])

StartOver(r) ==
  /\ Kind[r] = "new"
  /\ Becomes(r, EmptyDesign, Said("created"))

Hear(r) ==
  /\ verdict[r] # Nothing /\ told[r] = Nothing
  /\ told' = [told EXCEPT ![r] = verdict[r]]
  /\ UNCHANGED <<design, verdict>>

Lose(r) ==
  /\ told[r] = Nothing
  /\ told' = [told EXCEPT ![r] = Said("killed")]
  /\ UNCHANGED <<design, verdict>>

Asked(r) == IF Kind[r] = "new" THEN EmptyDesign ELSE Edited(design, Edits[r])

Tear(r) ==
  /\ verdict[r] = Nothing
  /\ \/ Kind[r] = "new"
     \/ Kind[r] = "apply" /\ EditsOk(Edits[r]) /\ Builds(Asked(r))
  /\ told[r] = Nothing /\ told' = [told EXCEPT ![r] = Said("killed")]
  /\ design' \in Left(Asked(r))
  /\ UNCHANGED verdict

Next == \E r \in Requests :
  Invalid(r) \/ Reject(r) \/ Commit(r) \/ Look(r) \/ StartOver(r) \/ Hear(r)
  \/ Lose(r) \/ Tear(r)

Spec == Init /\ [][Next]_avars
=============================================================================
