------------------------------- MODULE StepExport -------------------------------
(***************************************************************************)
(* The publication of a STEP file: write a temporary beside the target,     *)
(* flush it, read it back, rename it over the target, flush the directory.  *)
(* ExportStepXde takes the same path without the reading back.              *)
(*                                                                         *)
(* A file's content is [of, state]: whose export it is, and                 *)
(*   "partial"  what a write cut short leaves                               *)
(*   "written"  complete in the page cache, lost to a machine that stops    *)
(*   "garbled"  complete and not readable as STEP                           *)
(*   "synced", "garbledSynced"  the same, on the disk                       *)
(***************************************************************************)
CONSTANTS Verified    \* the exports that read their temporary back

VARIABLES
  target,       \* the file at the output path
  flushed,      \* the file there once the directory was last flushed
  temp,         \* the temporary, or NoFile
  step          \* the next step of the publication

exportVars == <<target, flushed, temp, step>>

NoFile == [of |-> "nobody", state |-> "absent"]
Before == [of |-> "before", state |-> "synced"]
Garbled(state) == state \in {"garbled", "garbledSynced"}
OnDisk(file) == file.state \in {"synced", "garbledSynced"}

ExportInit ==
  target = Before /\ flushed = Before /\ temp = NoFile /\ step = "transfer"

Goto(s) == step' = s

\* STEPControl_Writer: the bodies become a STEP model, nothing on disk yet.
Transfer == step = "transfer" /\ Goto("write") /\ UNCHANGED <<target, flushed, temp>>

WriteTemp(w) ==
  /\ step = "write"
  /\ \E s \in {"written", "garbled"} : temp' = [of |-> w, state |-> s]
  /\ Goto("sync") /\ UNCHANGED <<target, flushed>>

\* Mutant: the temporary is renamed without having been flushed.
FsyncFile_Skipped(w) ==
  /\ step = "sync"
  /\ Goto(IF w \in Verified THEN "verify" ELSE "rename") /\ UNCHANGED <<target, flushed, temp>>

FsyncFile(w) ==
  /\ step = "sync"
  /\ temp' = [temp EXCEPT !.state = IF @ = "written" THEN "synced" ELSE "garbledSynced"]
  /\ Goto(IF w \in Verified THEN "verify" ELSE "rename") /\ UNCHANGED <<target, flushed>>

\* InspectStep throws unless the bytes parse as STEP with roots.
ReopenVerify ==
  /\ step = "verify" /\ ~Garbled(temp.state)
  /\ Goto("rename") /\ UNCHANGED <<target, flushed, temp>>

RenameOverTarget ==
  /\ step = "rename"
  /\ target' = temp /\ temp' = NoFile
  /\ Goto("directory") /\ UNCHANGED flushed

PublishStep(w) ==
  Transfer \/ WriteTemp(w) \/ FsyncFile(w) \/ ReopenVerify \/ RenameOverTarget

\* The directory is opened, flushed and closed: the export is published.
PublishDone ==
  step = "directory" /\ flushed' = target /\ Goto("transfer") /\ UNCHANGED <<target, temp>>

\* RemoveTempBestEffort: the catch clause removes the temporary, or fails to.
RemoveTemp ==
  /\ temp' \in {NoFile, temp}
  /\ Goto("transfer") /\ UNCHANGED <<target, flushed>>

\* Any step may throw, the directory's flush after the rename included.
PublishFails == RemoveTemp

\* ExportStep polls before the write, after the flush and while it reads back;
\* ExportStepXde between the write and the flush.  Nothing polls once the
\* rename has begun.
Polled(w) == IF w \in Verified THEN {"transfer", "write", "verify"} ELSE {"transfer", "sync"}

PublishPolls(w) == step \in Polled(w) /\ RemoveTemp

\* A killed process leaves the files as they are; a machine that stops loses
\* what was not flushed, and may lose a rename the directory was not flushed for.
AfterPowerLoss(file) ==
  IF file = NoFile \/ OnDisk(file) THEN file ELSE [file EXCEPT !.state = "partial"]

ExportCrash ==
  /\ step' = "transfer" /\ UNCHANGED flushed
  /\ \/ UNCHANGED <<target, temp>>
     \/ target' \in {flushed, AfterPowerLoss(target)} /\ temp' = AfterPowerLoss(temp)

\* Whatever happens, the file at the output path is one that was once whole.
TargetWhole == OnDisk(target)
================================================================================
