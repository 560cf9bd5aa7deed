----------------------------- MODULE AgentProps -----------------------------
(***************************************************************************)
(* The agent: its task store, the verdicts and outputs made from it, and     *)
(* the plans it reviews and the commands it runs.  These three share no       *)
(* state and a call of one ends before the next begins, so a behaviour       *)
(* looks at the tasks, at plans or at a command, as focus says.              *)
(***************************************************************************)
EXTENDS AgentPipeline, ToolRunner

VARIABLE focus

vars == <<storeVars, pipeVars, reviewVars, toolVars, focus>>

\* The checks of a change in the patch manager; no state of it is looked at.
Patching == INSTANCE PatchManager WITH
    Paths <- {1}, Contents <- {1, 2}, AsRead <- [content \in {1, 2} |-> content],
    Nothing <- None, CutShort <- Torn, Changes <- Change, MaxPlan <- 1, MaxPatchCalls <- 0,
    MaxEdits <- 0, Faults <- {}, files <- <<None>>, patching <- <<>>, applied <- <<>>,
    patchCalls <- 0, edits <- 0, mishaps <- {}

Init ==
    /\ StoreInit /\ PipeInit /\ ReviewInit
    /\ \/ focus \in {"tasks", "plans"} /\ request = None /\ run = [at |-> "none"]
          /\ child = "none" /\ code = 0 /\ helper = NoHelper
       \/ focus = "command" /\ ToolInit

Next ==
    \/ /\ focus = "tasks"
       /\ StoreStep \/ PipeNext
       /\ UNCHANGED <<reviewVars, toolVars, focus>>
    \/ /\ focus = "plans"
       /\ Propose \/ Review
       /\ UNCHANGED <<storeVars, pipeVars, toolVars, focus>>
    \/ /\ focus = "command"
       /\ ToolNext
       /\ UNCHANGED <<storeVars, pipeVars, reviewVars, focus>>

Spec == Init /\ [][Next]_vars

(* What a call had changed when it returned is there after a crash and a     *)
(* restart, wherever the crash struck and whatever the holders of tasks did  *)
(* in between without a call, unless a save was cut short by the crash or    *)
(* raised and no later one succeeded (save_state, load_state).               *)
AckedSurvives == [][call = "down" /\ call' = "idle" /\ ~cut => mem' = acked]_vars

(* Every task the orchestrator knows is in exactly one place of exactly one  *)
(* tree: that of a root, or of a task whose parent was unknown when it was   *)
(* created, across resets, unregistered sub-tasks and restarts               *)
(* (create_task, add_subtask, get_task_tree).                                *)
Stray(t) == ~mem[t].root /\ ~Known(mem[t].parent)

Tops == {t \in Tasks : Known(t) /\ (mem[t].root \/ Stray(t))}

Places(t, top) ==
    LET tree == TaskTree(mem)[top] IN {i \in DOMAIN tree : tree[i] = t}

EveryTaskInOneTree ==
    call # "down" =>
        \A t \in {u \in Tasks : Known(u)} :
            \E top \in Tops :
                /\ Cardinality(Places(t, top)) = 1
                /\ \A other \in Tops \ {top} : Places(t, other) = {}

(* An output that claims success claims nothing false of a task that did not *)
(* change since its verdict: it completed, and all the tests it counts       *)
(* passed (judge.py, finalizer.py).  A task that did change may have failed   *)
(* since, and the claim then stands beside the numbers that refute it.       *)
SuccessIsEarned ==
    output # None /\ output.success /\ output.seen = output.verdict.seen =>
        output.status = "completed" /\ output.passed = output.tests

(* A change the patch manager would refuse whatever the file holds is a      *)
(* high-severity finding of the critic (critic.py:92, patch_manager.py:93),  *)
(* unless the patch manager does not know its type: change_type is a free    *)
(* string, refused at patch_manager.py:134, and the critic has nothing to    *)
(* say of one it does not know.                                              *)
Hopeless(change) == \A content \in {None, 1, 2} : ~Patching!Applicable(change, <<content>>)

CriticCatchesHopeless ==
    review # None =>
        \A i \in DOMAIN review.plan.changes :
            Hopeless(review.plan.changes[i]) =>
                \/ review.plan.changes[i].type \notin Patching!KnownTypes
                \/ "high" \in review.findings

(* When a command that timed out returns, its child is dead.  A helper lives *)
(* on only where the output was lost, and in the group only where the child  *)
(* was found dead after half a second, of the SIGTERM or by itself: no       *)
(* SIGKILL is sent then (run_command).                                       *)
TimeoutLeavesNoGroup ==
    At("returned") /\ run.timedOut =>
        /\ child = "dead"
        /\ helper.alive => ~run.whole
        /\ helper.alive /\ helper.inGroup => code # -9
-----------------------------------------------------------------------------
\* For the model checker: tasks are only compared for equality.
TaskSymmetry == Permutations(Tasks)
=============================================================================
