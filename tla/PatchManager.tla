----------------------------- MODULE PatchManager -----------------------------
(***************************************************************************)
(* The patch manager of the agent (agent_core/patch_manager.py): a plan is  *)
(* a list of file changes, applied one after another; the first failure     *)
(* restores a snapshot of the files the plan names.  A patch that was       *)
(* applied can be rolled back, change by change, last change first.         *)
(*                                                                         *)
(* One call runs at a time.  Between two file operations of a call the      *)
(* process may crash; a file operation may fail, before it did anything or  *)
(* in the middle of a write.  The user edits files between calls.           *)
(*                                                                         *)
(* Abstractions.  A path names a regular file or nothing; directories made  *)
(* on the way are left out.  A write that failed half way leaves CutShort.  *)
(* A plan gives contents as read_text does, with \n for every line end:  *)
(* AsRead says what it makes of a file's bytes.  The snapshot               *)
(* apply_patch_plan takes itself is never read again and is left out, and   *)
(* so are a snapshot that cannot be taken, which ends the call before a     *)
(* file is touched, and failed_patches, which only a getter reads.          *)
(***************************************************************************)
EXTENDS Naturals, Sequences, SequencesExt, FiniteSets

CONSTANTS
    Paths,
    Contents,       \* whole contents of a file
    AsRead,         \* the text read_text gives for each of them
    Nothing,        \* no file; in a change, content not given
    CutShort,       \* the content of a file whose write was cut short
    Changes,        \* the changes plans are made of
    MaxPlan,        \* bound: changes in a plan
    MaxPatchCalls,  \* bound: calls of apply_patch_plan and rollback_patch
    MaxEdits,       \* bound: edits by the user
    Faults          \* what may go wrong: subset of FaultKinds

FaultKinds == {"apply", "restore", "crash"}

(* change_type is any string; the patch manager knows these three.          *)
KnownTypes == {"modified", "added", "deleted"}

ChangeTypes == KnownTypes \cup {"unknown"}

ASSUME PatchAssumption ==
    /\ Nothing # CutShort
    /\ {Nothing, CutShort} \cap Contents = {}
    /\ AsRead \in [Contents -> Contents]
    /\ \A content \in Contents : AsRead[AsRead[content]] = AsRead[content]
    /\ Changes \subseteq [path : Paths, type : ChangeTypes,
                          old : Contents \cup {Nothing}, new : Contents \cup {Nothing}]
    /\ MaxPlan \in Nat
    /\ MaxPatchCalls \in Nat
    /\ MaxEdits \in Nat
    /\ Faults \subseteq FaultKinds

VARIABLES
    files,      \* the content of every path
    patching,   \* the call under way
    applied,    \* applied_patches: changes, files before and after
    patchCalls, \* calls made
    edits,      \* edits made
    mishaps     \* history: the faults of the call under way or just ended

patchVars == <<files, patching, applied, patchCalls, edits, mishaps>>
-----------------------------------------------------------------------------
Plans == UNION {[1 .. n -> Changes] : n \in 1 .. MaxPlan}

\* A call: what is left to do, what was there before it, how it went so far.
Idle == [at |-> "idle", todo |-> <<>>, plan |-> <<>>, before |-> <<>>, patch |-> 0, ok |-> TRUE]

Busy(at) == patching.at = at

Reads(p, text, fs) == fs[p] \in Contents /\ AsRead[fs[p]] = text

(* apply_file_change: what it asks of the file before it touches it.        *)
Applicable(c, fs) ==
    CASE c.type = "modified" -> c.old # Nothing /\ c.new # Nothing /\ Reads(c.path, c.old, fs)
      [] c.type = "added"    -> c.new # Nothing /\ fs[c.path] = Nothing
      [] c.type = "deleted"  -> c.old # Nothing => Reads(c.path, c.old, fs)
      [] OTHER               -> FALSE

Applied(c, fs) == [fs EXCEPT ![c.path] = IF c.type = "deleted" THEN Nothing ELSE c.new]

(* A change that fails leaves the file alone, or torn when a write was cut  *)
(* short.                                                                   *)
Failed(c, fs) ==
    {fs} \cup (IF Applicable(c, fs) /\ c.type # "deleted"
               THEN {[fs EXCEPT ![c.path] = CutShort]} ELSE {})

(* The reverse of a change, as rollback_patch builds it.                    *)
ReverseChange(c) ==
    [path |-> c.path, old |-> c.new, new |-> c.old,
     type |-> CASE c.type = "modified" -> "modified"
                [] c.type = "deleted"  -> "added"
                [] c.type = "added"    -> "deleted"
                [] OTHER               -> c.type]
-----------------------------------------------------------------------------
(* apply_patch_plan: the snapshot is taken before anything changes.         *)
ApplyPatchPlan(plan) ==
    /\ Busy("idle")
    /\ patchCalls < MaxPatchCalls
    /\ patchCalls' = patchCalls + 1
    /\ patching' = [Idle EXCEPT !.at = "apply", !.todo = plan, !.plan = plan, !.before = files]
    /\ mishaps' = {}
    /\ UNCHANGED <<files, applied, edits>>

(* One change of the loop succeeds ... *)
ApplyChange ==
    /\ Busy("apply")
    /\ patching.todo # <<>>
    /\ Applicable(Head(patching.todo), files)
    /\ files' = Applied(Head(patching.todo), files)
    /\ patching' = [patching EXCEPT !.todo = Tail(@)]
    /\ UNCHANGED <<applied, patchCalls, edits, mishaps>>

(* ... or is refused, or raises: all the changes are gone through again to  *)
(* restore their files.                                                     *)
ApplyChangeFails ==
    /\ Busy("apply")
    /\ patching.todo # <<>>
    /\ \/ /\ ~Applicable(Head(patching.todo), files)
          /\ UNCHANGED <<files, mishaps>>
       \/ /\ "apply" \in Faults
          /\ files' \in Failed(Head(patching.todo), files)
          /\ mishaps' = mishaps \cup {"apply"}
    /\ patching' = [patching EXCEPT !.at = "restore", !.todo = patching.plan, !.ok = FALSE]
    /\ UNCHANGED <<applied, patchCalls, edits>>

Finish(at) ==
    /\ patching' = [patching EXCEPT !.at = at, !.todo = <<>>]
    /\ UNCHANGED <<files, patchCalls, edits, mishaps>>

ApplyDone ==
    /\ Busy("apply")
    /\ patching.todo = <<>>
    /\ applied' = Append(applied, [plan |-> patching.plan, before |-> patching.before, after |-> files])
    /\ Finish("returned")

(* Mutant of Restored: files the plan created stay. *)
RestoredExisting(p) ==
    IF patching.before[p] = Nothing THEN files ELSE [files EXCEPT ![p] = patching.before[p]]

(* _restore_from_snapshot, one file: what was there is copied back, what    *)
(* was not there is removed.                                                *)
Restored(p) == [files EXCEPT ![p] = patching.before[p]]

RestoreFile ==
    /\ Busy("restore")
    /\ patching.todo # <<>>
    /\ files' = Restored(Head(patching.todo).path)
    /\ patching' = [patching EXCEPT !.todo = Tail(@)]
    /\ UNCHANGED <<applied, patchCalls, edits, mishaps>>

(* A restore cut short: the copy was not begun, was torn, or was whole and   *)
(* only its times were not set.                                             *)
RestoreCut(p) ==
    {files} \cup (IF patching.before[p] = Nothing THEN {}
                  ELSE {[files EXCEPT ![p] = CutShort], Restored(p)})

(* A copy that fails ends the restore; the snapshot is removed all the same. *)
RestoreFails ==
    /\ "restore" \in Faults
    /\ Busy("restore")
    /\ patching.todo # <<>>
    /\ files' \in RestoreCut(Head(patching.todo).path)
    /\ mishaps' = mishaps \cup {"restore"}
    /\ patching' = [patching EXCEPT !.at = "returned", !.todo = <<>>]
    /\ UNCHANGED <<applied, patchCalls, edits>>

RestoreDone ==
    /\ Busy("restore")
    /\ patching.todo = <<>>
    /\ Finish("returned")
    /\ UNCHANGED applied
-----------------------------------------------------------------------------
(* Mutant of Undoing: the changes are reversed first to last. *)
UndoingInOrder(plan) == [i \in DOMAIN plan |-> ReverseChange(plan[i])]

Undoing(plan) == [i \in DOMAIN plan |-> ReverseChange(Reverse(plan)[i])]

(* rollback_patch of a patch that was applied. *)
RollbackPatch(i) ==
    /\ Busy("idle")
    /\ patchCalls < MaxPatchCalls
    /\ patchCalls' = patchCalls + 1
    /\ patching' = [Idle EXCEPT !.at = "undo", !.todo = Undoing(applied[i].plan), !.patch = i, !.before = files]
    /\ mishaps' = {}
    /\ UNCHANGED <<files, applied, edits>>

(* Mutant of UndoChange: the file is not compared first. *)
UndoChangeBlindly ==
    /\ Busy("undo")
    /\ patching.todo # <<>>
    /\ files' = Applied(Head(patching.todo), files)
    /\ patching' = [patching EXCEPT !.todo = Tail(@)]
    /\ UNCHANGED <<applied, patchCalls, edits, mishaps>>

UndoChange ==
    /\ Busy("undo")
    /\ patching.todo # <<>>
    /\ Applicable(Head(patching.todo), files)
    /\ files' = Applied(Head(patching.todo), files)
    /\ patching' = [patching EXCEPT !.todo = Tail(@)]
    /\ UNCHANGED <<applied, patchCalls, edits, mishaps>>

(* Mutant of UndoChangeFails: the failure is not noted. *)
UndoChangeFailsUnnoted ==
    /\ Busy("undo")
    /\ patching.todo # <<>>
    /\ ~Applicable(Head(patching.todo), files)
    /\ patching' = [patching EXCEPT !.todo = Tail(@)]
    /\ UNCHANGED <<files, applied, patchCalls, edits, mishaps>>

(* A failure is noted, and the other changes are still reversed. *)
UndoChangeFails ==
    /\ Busy("undo")
    /\ patching.todo # <<>>
    /\ \/ /\ ~Applicable(Head(patching.todo), files)
          /\ UNCHANGED <<files, mishaps>>
       \/ /\ "apply" \in Faults
          /\ files' \in Failed(Head(patching.todo), files)
          /\ mishaps' = mishaps \cup {"apply"}
    /\ patching' = [patching EXCEPT !.todo = Tail(@), !.ok = FALSE]
    /\ UNCHANGED <<applied, patchCalls, edits>>

UndoDone ==
    /\ Busy("undo")
    /\ patching.todo = <<>>
    /\ Finish("undone")
    /\ UNCHANGED applied
-----------------------------------------------------------------------------
Return ==
    /\ patching.at \in {"returned", "undone"}
    /\ patching' = Idle
    /\ UNCHANGED <<files, applied, patchCalls, edits, mishaps>>

(* The process dies during a call; a write under way may be cut short.  The *)
(* record of applied patches was in its memory.                             *)
PatchCrash ==
    /\ "crash" \in Faults
    /\ patching.at \in {"apply", "restore", "undo"}
    /\ patching.todo # <<>>
    /\ files' \in IF Busy("restore") THEN RestoreCut(Head(patching.todo).path)
                  ELSE Failed(Head(patching.todo), files)
    /\ patching' = [patching EXCEPT !.at = "crashed"]
    /\ applied' = <<>>
    /\ mishaps' = mishaps \cup {"crash"}
    /\ UNCHANGED <<patchCalls, edits>>

Restart ==
    /\ Busy("crashed")
    /\ patching' = Idle
    /\ UNCHANGED <<files, applied, patchCalls, edits, mishaps>>

(* The user writes or removes a file between two calls. *)
Edit(p, content) ==
    /\ Busy("idle")
    /\ edits < MaxEdits
    /\ edits' = edits + 1
    /\ files' = [files EXCEPT ![p] = content]
    /\ UNCHANGED <<patching, applied, patchCalls, mishaps>>

PatchInit ==
    /\ files \in [Paths -> Contents \cup {Nothing}]
    /\ patching = Idle
    /\ applied = <<>>
    /\ patchCalls = 0
    /\ edits = 0
    /\ mishaps = {}

ApplyStep == ApplyChange \/ ApplyChangeFails \/ ApplyDone

RestoreStep == RestoreFile \/ RestoreFails \/ RestoreDone

UndoStep == UndoChange \/ UndoChangeFails \/ UndoDone

PatchNext ==
    \/ \E plan \in Plans : ApplyPatchPlan(plan)
    \/ \E i \in DOMAIN applied : RollbackPatch(i)
    \/ \E p \in Paths, content \in Contents \cup {Nothing} : Edit(p, content)
    \/ ApplyStep \/ RestoreStep \/ UndoStep \/ Return \/ PatchCrash \/ Restart

PatchSpec == PatchInit /\ [][PatchNext]_patchVars
-----------------------------------------------------------------------------
(* What a user of the patch manager may rely on for the files of a plan.      *)
(* A plan that failed left every file as it was before, whichever change    *)
(* failed and how, a path named by several changes included, unless the     *)
(* restore itself failed or the process crashed.                            *)
FailureRestoresAll ==
    Busy("returned") /\ ~patching.ok /\ mishaps \cap {"restore", "crash"} = {} =>
        files = patching.before

(* A patch nobody touched since rolls back to exactly the files before it,  *)
(* unless it deletes a file without giving its content.                     *)
Reversible(plan) == \A i \in DOMAIN plan : plan[i].type = "deleted" => plan[i].old # Nothing

UntouchedRollsBack ==
    Busy("undone") /\ mishaps = {} =>
        LET patch == applied[patching.patch] IN
        patching.before = patch.after /\ Reversible(patch.plan) =>
            patching.ok /\ files = patch.before

(* "True if rollback successful, False otherwise" (patch_manager.py:278): a  *)
(* rollback that returned True left the files of its plan as they were      *)
(* before the patch, whatever happened to them in between.                  *)
TrueMeansRolledBack ==
    Busy("undone") /\ patching.ok =>
        LET patch == applied[patching.patch] IN
        \A i \in DOMAIN patch.plan :
            files[patch.plan[i].path] = patch.before[patch.plan[i].path]

(* A rollback only replaces what some change of its patch wrote: a file the *)
(* user edited since keeps the edit.                                        *)
KeepsEdits ==
    Busy("undo") => \A p \in Paths :
        files'[p] # files[p] =>
            \E i \in DOMAIN patching.todo :
                /\ patching.todo[i].path = p
                /\ IF patching.todo[i].type = "added" THEN files[p] = Nothing
                   ELSE Reads(p, patching.todo[i].old, files)

RollbackKeepsEdits == [][KeepsEdits]_patchVars
=============================================================================
