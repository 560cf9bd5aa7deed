---------------------------- MODULE Orchestrator ----------------------------
(***************************************************************************)
(* The task store of the agent (agent_core/orchestrator.py, schemas.py):    *)
(* tasks with a status, sub-tasks and test results, saved whole into one    *)
(* file at the end of every call that changed something.                    *)
(*                                                                         *)
(* A save truncates the file and then dumps into it, so a crash or an       *)
(* object that cannot be pickled leaves it Torn; the change is in memory by *)
(* then.  The caller also holds the tasks themselves and changes them       *)
(* without a call, hence without a save.                                    *)
(*                                                                         *)
(* Abstractions.  Test results are counted.  Patches, artifacts and errors  *)
(* are there or not.  Roots keep the order of creation, which loading       *)
(* rebuilds, so the root list is a flag of the task.                        *)
(***************************************************************************)
EXTENDS Naturals, Sequences, SequencesExt, FiniteSets

CONSTANTS
    Tasks,      \* task ids, each used once
    None,
    Torn,       \* a file that was truncated and not dumped whole
    MaxCalls    \* bound: calls and changes by the holder of a task

TaskState ==
    [status : {"pending", "in_progress", "completed", "failed", "cancelled"},
     parent : Tasks \cup {None}, subs : Seq(Tasks), passed : Nat, failed : Nat,
     error : BOOLEAN, patched : BOOLEAN, lasting : BOOLEAN, registered : BOOLEAN, root : BOOLEAN]

Stores == [Tasks -> TaskState \cup {None}]

ASSUME OrchestratorAssumption ==
    /\ IsFiniteSet(Tasks)
    /\ {None, Torn} \cap (Tasks \cup TaskState \cup Stores) = {}
    /\ None # Torn
    /\ MaxCalls \in Nat

VARIABLES
    mem,        \* the orchestrator's tasks, and the sub-tasks they hold
    disk,       \* None, Torn or the tasks saved last
    call,       \* the call under way: "idle", "open", "dump" or "down"
    made,       \* ids ever used
    acked,      \* history: mem when a call last returned
    cut,        \* history: a save failed or was cut short since then
    calls

storeVars == <<mem, disk, call, made, acked, cut, calls>>
-----------------------------------------------------------------------------
Empty == [t \in Tasks |-> None]

NewTask(parent) ==
    [status |-> "pending", parent |-> parent, subs |-> <<>>, passed |-> 0, failed |-> 0,
     error |-> FALSE, patched |-> FALSE, lasting |-> TRUE, registered |-> TRUE, root |-> FALSE]

Known(t) == mem[t] # None /\ mem[t].registered

(* get_task_tree of a task: itself, then the trees of its sub-tasks that    *)
(* the orchestrator knows.                                                  *)
TaskTree(store) ==
    LET tree[t \in Tasks] ==
            IF store[t] = None \/ ~store[t].registered THEN <<>>
            ELSE <<t>> \o FlattenSeq([i \in DOMAIN store[t].subs |-> tree[store[t].subs[i]]])
    IN  tree

(* A call that changed the tasks saves them before it returns.              *)
Saves(store) ==
    /\ call = "idle"
    /\ calls < MaxCalls
    /\ calls' = calls + 1
    /\ mem' = store
    /\ call' = "open"
    /\ UNCHANGED <<disk, acked, cut>>

Update(t, task) == Saves([mem EXCEPT ![t] = task]) /\ UNCHANGED made

(* A change by the holder of the task, without a call.                      *)
Held(store) ==
    /\ call = "idle"
    /\ calls < MaxCalls
    /\ calls' = calls + 1
    /\ mem' = store
    /\ UNCHANGED <<disk, call, acked, cut>>
-----------------------------------------------------------------------------
(* Mutant of CreateTask: a task whose parent is unknown becomes a root, and  *)
(* so does one with a parent. *)
CreateTaskAlwaysRoot(t, parent) ==
    /\ t \notin made
    /\ made' = made \cup {t}
    /\ Saves(LET store == [mem EXCEPT ![t] = [NewTask(parent) EXCEPT !.root = TRUE]] IN
             IF parent # None /\ Known(parent)
             THEN [store EXCEPT ![parent].subs = Append(@, t)] ELSE store)

(* create_task: without a parent a root; under a parent it does not know,   *)
(* neither a root nor a sub-task.                                           *)
CreateTask(t, parent) ==
    /\ t \notin made
    /\ made' = made \cup {t}
    /\ Saves(LET store == [mem EXCEPT ![t] = [NewTask(parent) EXCEPT !.root = (parent = None)]] IN
             IF parent # None /\ Known(parent)
             THEN [store EXCEPT ![parent].subs = Append(@, t)] ELSE store)

StartTask(t) ==
    /\ Known(t)
    /\ mem[t].status = "pending"
    /\ Update(t, [mem[t] EXCEPT !.status = "in_progress"])

(* Mutant of CompleteTask: the call returns without a save. *)
CompleteTaskUnsaved(t, success) ==
    /\ Known(t)
    /\ mem[t].status = "in_progress"
    /\ mem' = [mem EXCEPT ![t].status = IF success THEN "completed" ELSE "failed"]
    /\ acked' = mem'
    /\ UNCHANGED <<disk, call, made, cut, calls>>

CompleteTask(t, success) ==
    /\ Known(t)
    /\ mem[t].status = "in_progress"
    /\ Update(t, [mem[t] EXCEPT !.status = IF success THEN "completed" ELSE "failed"])

(* fail_task asks nothing of the status.                                    *)
FailTask(t) ==
    /\ Known(t)
    /\ Update(t, [mem[t] EXCEPT !.status = "failed", !.error = TRUE])

CancelTask(t) ==
    /\ Known(t)
    /\ mem[t].status \notin {"completed", "failed"}
    /\ Update(t, [mem[t] EXCEPT !.status = "cancelled"])

Counted(task, passed) ==
    IF passed THEN [task EXCEPT !.passed = @ + 1] ELSE [task EXCEPT !.failed = @ + 1]

AddTestResult(t, passed) ==
    /\ Known(t)
    /\ Update(t, Counted(mem[t], passed))

Reset == Saves(Empty) /\ UNCHANGED made
-----------------------------------------------------------------------------
(* TaskState.add_subtask: the orchestrator never hears of the sub-task.     *)
AddSubtask(t, sub) ==
    /\ mem[t] # None
    /\ sub \notin made
    /\ made' = made \cup {sub}
    /\ Held(LET store == [mem EXCEPT ![sub] = [NewTask(t) EXCEPT !.registered = FALSE]] IN
            [store EXCEPT ![t].subs = Append(@, sub)])

(* TaskState.add_test_result, patches_applied and artifacts, the last with  *)
(* an object that does not pickle or without.                               *)
HolderChanges(t) ==
    /\ mem[t] # None
    /\ Held([mem EXCEPT ![t] = [@ EXCEPT !.patched = TRUE]])
       \/ Held([mem EXCEPT ![t] = [@ EXCEPT !.lasting = ~@]])
       \/ \E passed \in BOOLEAN : Held([mem EXCEPT ![t] = Counted(@, passed)])
    /\ UNCHANGED made
-----------------------------------------------------------------------------
(* save_state opens the file for writing, which empties it ...              *)
SaveOpen ==
    /\ call = "open"
    /\ disk' = Torn
    /\ call' = "dump"
    /\ UNCHANGED <<mem, made, acked, cut, calls>>

Pickles(store) == \A t \in Tasks : store[t] # None => store[t].lasting

(* ... and dumps.                                                           *)
SaveDump ==
    /\ call = "dump"
    /\ Pickles(mem)
    /\ disk' = mem
    /\ acked' = mem
    /\ cut' = FALSE
    /\ call' = "idle"
    /\ UNCHANGED <<mem, made, calls>>

(* A dump that raises leaves the change in memory and the file torn.        *)
SaveFails ==
    /\ call = "dump"
    /\ ~Pickles(mem)
    /\ cut' = TRUE
    /\ call' = "idle"
    /\ UNCHANGED <<mem, disk, made, acked, calls>>

Crash ==
    /\ call # "down"
    /\ mem' = Empty
    /\ cut' = (cut \/ call = "dump")
    /\ call' = "down"
    /\ UNCHANGED <<disk, made, acked, calls>>

(* Mutant of LoadState: only tasks that are still open are taken over. *)
LoadStateOpenOnly ==
    /\ call = "down"
    /\ mem' = IF disk \in {None, Torn} THEN Empty
              ELSE [t \in Tasks |-> IF disk[t] # None /\ disk[t].status = "completed"
                                    THEN None ELSE disk[t]]
    /\ call' = "idle"
    /\ UNCHANGED <<disk, made, acked, cut, calls>>

(* A new process loads the file, or starts empty when there is none or      *)
(* load_state raises.                                                       *)
LoadState ==
    /\ call = "down"
    /\ mem' = IF disk \in {None, Torn} THEN Empty ELSE disk
    /\ call' = "idle"
    /\ UNCHANGED <<disk, made, acked, cut, calls>>

StoreInit ==
    /\ mem = Empty
    /\ disk = None
    /\ call = "idle"
    /\ made = {}
    /\ acked = Empty
    /\ cut = FALSE
    /\ calls = 0

TaskCall(t) ==
    \/ \E parent \in made \cup {None} : CreateTask(t, parent)
    \/ StartTask(t) \/ FailTask(t) \/ CancelTask(t)
    \/ \E outcome \in BOOLEAN : CompleteTask(t, outcome) \/ AddTestResult(t, outcome)

TaskHolder(t) == HolderChanges(t) \/ \E sub \in Tasks : AddSubtask(t, sub)

StoreNext ==
    \/ \E t \in Tasks : TaskCall(t) \/ TaskHolder(t)
    \/ Reset \/ SaveOpen \/ SaveDump \/ SaveFails \/ Crash \/ LoadState
=============================================================================
