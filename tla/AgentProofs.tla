----------------------------- MODULE AgentProofs -----------------------------
(***************************************************************************)
(* Proofs about the agent, for any tasks and any number of calls: its saved *)
(* state, the trees of its tasks, the claims of its outputs, its critic, the *)
(* commands it kills; and about the patch manager it hands its changes to:   *)
(* what a failed plan and a rollback leave, for any paths, contents, changes, *)
(* bounds and faults, and however often a plan names a path.                 *)
(***************************************************************************)
EXTENDS AgentProps, PatchManager, CommonLemmas

USE DEF storeVars, pipeVars, reviewVars, toolVars

(* The part of the agent a step belongs to; the others stand still.          *)
LEMMA StepCases ==
    ASSUME [Next]_vars
    PROVE  /\ StoreStep \/ PipeNext \/ UNCHANGED <<storeVars, pipeVars>>
           /\ Propose \/ Review \/ UNCHANGED reviewVars
           /\ ToolNext \/ UNCHANGED toolVars
  BY DEF Next, vars
-----------------------------------------------------------------------------
(* The process of a command while run_command still waits for it was not     *)
(* killed; once it was, neither it nor a helper in its group lives.  Output   *)
(* is whole only when no helper holds the pipes, and none can start then.    *)
Running == [at : {"called", "communicate", "terminate", "poll", "collect", "returned"},
            result : Int, timedOut : BOOLEAN, whole : BOOLEAN]

GroupGone == helper.alive => ~helper.inGroup \/ code # -9

OutputGone == helper.alive => ~run.whole

ToolInv ==
    /\ run \in Running \/ run = [at |-> "none"]
    /\ code \in Int
    /\ helper \in [alive : BOOLEAN, inGroup : BOOLEAN]
    /\ At("called") => child = "none" /\ code = 0
    /\ run.at \in {"communicate", "terminate", "poll"} => child \in {"alive", "dead"} /\ code # -9
    /\ At("collect") \/ (At("returned") /\ run.timedOut) => child = "dead" /\ GroupGone
    /\ At("returned") /\ run.timedOut => OutputGone

LEMMA ToolInitial == Init => ToolInv
<1> SUFFICES ASSUME Init
             PROVE  ToolInv
  OBVIOUS
<1> USE DEF Init, ToolInv, GroupGone, OutputGone, At, NoHelper
<1>1. CASE ToolInit
  BY <1>1 DEF ToolInit, Running
<1>2. CASE run = [at |-> "none"] /\ code = 0 /\ helper = NoHelper
  BY <1>2
<1> QED
  BY <1>1, <1>2

LEMMA ToolStep == ToolInv /\ [Next]_vars => ToolInv'
<1> SUFFICES ASSUME ToolInv, [Next]_vars
             PROVE  ToolInv'
  OBVIOUS
<1> USE DEF ToolInv, Running, GroupGone, OutputGone, At, Goto, Returned
<1>1. CASE RunCommandRefused
  <2>1. Refusal \in Int
    BY <1>1 DEF RunCommandRefused, Refusal
  <2> QED
    BY <1>1, <2>1 DEF RunCommandRefused
<1>2. CASE Popen
  BY <1>2 DEF Popen
<1>3. CASE Communicated
  BY <1>3 DEF Communicated
<1>4. CASE TimeoutExpires
  BY <1>4 DEF TimeoutExpires
<1>5. CASE TerminateGroup
  <2>1. PICK obeying \in SUBSET {"child", "helper"} : Signalled(obeying, 15)
    BY <1>5 DEF TerminateGroup
  <2>2. run \in Running /\ run' = [run EXCEPT !.at = "poll"]
    BY <1>5 DEF TerminateGroup
  <2>3. run' \in Running /\ run'.at = "poll"
    BY <2>2
  <2>4. child' \in {"alive", "dead"} /\ code' \in Int /\ code' # -9
    BY <1>5, <2>1 DEF TerminateGroup, Signalled
  <2>5. helper' \in [alive : BOOLEAN, inGroup : BOOLEAN]
    BY <2>1 DEF Signalled
  <2> QED
    BY <2>3, <2>4, <2>5
<1>6. CASE KillGroup
  <2>2. run \in Running /\ run' = [run EXCEPT !.at = "collect"]
    BY <1>6 DEF KillGroup
  <2>3. run' \in Running /\ run'.at = "collect"
    BY <2>2
  <2>4. CASE child = "alive"
    <3>1. child' = "dead" /\ code' = -9
      BY <1>6, <2>4 DEF KillGroup, Signalled
    <3>2. helper' = IF helper.inGroup THEN [helper EXCEPT !.alive = FALSE] ELSE helper
      BY <1>6, <2>4 DEF KillGroup, Signalled
    <3>3. helper' \in [alive : BOOLEAN, inGroup : BOOLEAN]
      BY <3>2
    <3>4. GroupGone'
      BY <3>2
    <3> QED
      BY <2>3, <3>1, <3>3, <3>4
  <2>5. CASE child # "alive"
    BY <1>6, <2>3, <2>5 DEF KillGroup
  <2> QED
    BY <2>4, <2>5
<1>7. CASE Collect
  <2>1. child' = "dead" /\ GroupGone' /\ UNCHANGED <<code, helper>>
    BY <1>7 DEF Collect
  <2>2. \E whole \in BOOLEAN :
            /\ run' = [at |-> "returned", result |-> -1, timedOut |-> TRUE, whole |-> whole]
            /\ whole => ~helper.alive
    BY <1>7, ~TRUE = FALSE DEF Collect, PipesClosed
  <2>3. run' \in Running /\ run'.at = "returned" /\ OutputGone'
    BY <2>1, <2>2
  <2> QED
    BY <2>1, <2>3
<1>8. CASE ChildEnds
  <2>1. code' \in Int /\ code' # -9 /\ child = "alive" /\ child' = "dead"
    BY <1>8 DEF ChildEnds
  <2> QED
    BY <1>8, <2>1 DEF ChildEnds
<1>9. CASE HelperStarts
  BY <1>9 DEF HelperStarts, NoHelper
<1>10. CASE HelperEnds
  BY <1>10 DEF HelperEnds
<1>11. CASE UNCHANGED toolVars
  BY <1>11
<1> QED
  BY <1>1, <1>2, <1>3, <1>4, <1>5, <1>6, <1>7, <1>8, <1>9, <1>10, <1>11, StepCases
     DEF ToolNext, RunCommand

(* No child survives the timeout of its command; a helper survives only at    *)
(* the price of the output, and in the group only where no SIGKILL was sent,  *)
(* whatever ends or starts when (run_command).                               *)
THEOREM TimeoutKills == Spec => []TimeoutLeavesNoGroup
<1>1. ToolInv => TimeoutLeavesNoGroup
  BY DEF ToolInv, TimeoutLeavesNoGroup, GroupGone, OutputGone, At
<1> QED
  BY <1>1, ToolInitial, ToolStep, PTL DEF Spec
-----------------------------------------------------------------------------
(* The store is well-typed: a change of one task leaves it so.               *)
LEMMA ChangedStore ==
    ASSUME NEW store \in Stores, NEW t \in Tasks, NEW task \in TaskState \cup {None}
    PROVE  [store EXCEPT ![t] = task] \in Stores
  BY DEF Stores

LEMMA NewTaskTyped ==
    ASSUME NEW parent \in Tasks \cup {None}
    PROVE  NewTask(parent) \in TaskState
  BY DEF NewTask, TaskState

LEMMA FlagTyped ==
    ASSUME NEW task \in TaskState, NEW flag \in BOOLEAN
    PROVE  /\ [task EXCEPT !.root = flag] \in TaskState
           /\ [task EXCEPT !.registered = flag] \in TaskState
           /\ [task EXCEPT !.patched = flag] \in TaskState
           /\ [task EXCEPT !.lasting = flag] \in TaskState
  BY DEF TaskState

LEMMA GainsSubtask ==
    ASSUME NEW task \in TaskState, NEW sub \in Tasks
    PROVE  [task EXCEPT !.subs = Append(@, sub)] \in TaskState
  BY DEF TaskState

LEMMA CountedTyped ==
    ASSUME NEW task \in TaskState, NEW passed \in BOOLEAN
    PROVE  Counted(task, passed) \in TaskState
  BY DEF Counted, TaskState

LEMMA EmptyTyped == Empty \in Stores
  BY DEF Empty, Stores

(* What every change of the tasks in memory keeps: their types, and that ids *)
(* in use are tasks.                                                         *)
MemInv == mem \in Stores /\ made \subseteq Tasks

LEMMA CallKeepsMem ==
    ASSUME MemInv, NEW t \in Tasks, TaskCall(t) \/ TaskHolder(t)
    PROVE  MemInv' /\ UNCHANGED <<disk, acked, cut>> /\ call' \in {"open", "idle"} /\ call = "idle"
<1> USE DEF MemInv
<1>1. mem[t] # None => mem[t] \in TaskState
  BY DEF Stores
<1>2. ASSUME NEW parent \in made \cup {None}, CreateTask(t, parent)
      PROVE  MemInv' /\ UNCHANGED <<disk, acked, cut>> /\ call' = "open" /\ call = "idle"
  <2> DEFINE new == [NewTask(parent) EXCEPT !.root = (parent = None)]
             store == [mem EXCEPT ![t] = new]
  <2>1. new \in TaskState
    <3>1. NewTask(parent) \in TaskState /\ (parent = None) \in BOOLEAN
      BY <1>2, NewTaskTyped
    <3> QED
      BY <3>1, FlagTyped
  <2>2. store \in Stores
    BY <2>1, ChangedStore
  <2>3. CASE parent # None /\ Known(parent)
    <3>1. parent \in Tasks /\ store[parent] \in TaskState
      BY <2>1, <2>3 DEF Known, Stores
    <3>2. [store EXCEPT ![parent] = [store[parent] EXCEPT !.subs = Append(@, t)]] \in Stores
      BY <2>2, <3>1, ChangedStore, GainsSubtask
    <3>3. [store EXCEPT ![parent].subs = Append(@, t)] \in Stores
      BY <3>2
    <3> QED
      BY <1>2, <2>3, <3>3 DEF CreateTask, Saves
  <2>4. CASE ~(parent # None /\ Known(parent))
    BY <1>2, <2>2, <2>4 DEF CreateTask, Saves
  <2> QED
    BY <2>3, <2>4
<1>3. ASSUME NEW task \in TaskState, Update(t, task)
      PROVE  MemInv' /\ UNCHANGED <<disk, acked, cut>> /\ call' = "open" /\ call = "idle"
  BY <1>3, ChangedStore DEF Update, Saves
<1>4. StartTask(t) => \E task \in TaskState : Update(t, task)
  BY <1>1 DEF StartTask, Known, TaskState
<1>5. FailTask(t) => \E task \in TaskState : Update(t, task)
  BY <1>1 DEF FailTask, Known, TaskState
<1>6. CancelTask(t) => \E task \in TaskState : Update(t, task)
  BY <1>1 DEF CancelTask, Known, TaskState
<1>7. ASSUME NEW outcome \in BOOLEAN, CompleteTask(t, outcome)
      PROVE  \E task \in TaskState : Update(t, task)
  BY <1>1, <1>7 DEF CompleteTask, Known, TaskState
<1>8. ASSUME NEW outcome \in BOOLEAN, AddTestResult(t, outcome)
      PROVE  \E task \in TaskState : Update(t, task)
  BY <1>1, <1>8, CountedTyped DEF AddTestResult, Known
<1>9. ASSUME NEW task \in TaskState, Held([mem EXCEPT ![t] = task]), UNCHANGED made
      PROVE  MemInv' /\ UNCHANGED <<disk, acked, cut>> /\ call' = "idle" /\ call = "idle"
  BY <1>9, ChangedStore DEF Held
<1>10. HolderChanges(t) => \E task \in TaskState : Held([mem EXCEPT ![t] = task]) /\ UNCHANGED made
  <2> SUFFICES ASSUME HolderChanges(t)
               PROVE  \E task \in TaskState : Held([mem EXCEPT ![t] = task]) /\ UNCHANGED made
    OBVIOUS
  <2>1. mem[t] \in TaskState /\ UNCHANGED made
    BY <1>1 DEF HolderChanges
  <2>2. mem[t].lasting \in BOOLEAN
    BY <2>1 DEF TaskState
  <2>3. CASE Held([mem EXCEPT ![t] = [@ EXCEPT !.patched = TRUE]])
    BY <2>1, <2>3, FlagTyped
  <2>4. CASE Held([mem EXCEPT ![t] = [@ EXCEPT !.lasting = ~@]])
    BY <2>1, <2>2, <2>4, FlagTyped
  <2>5. CASE \E passed \in BOOLEAN : Held([mem EXCEPT ![t] = Counted(@, passed)])
    BY <2>1, <2>5, CountedTyped
  <2> QED
    BY <2>3, <2>4, <2>5 DEF HolderChanges
<1>11. ASSUME NEW sub \in Tasks, AddSubtask(t, sub)
       PROVE  MemInv' /\ UNCHANGED <<disk, acked, cut>> /\ call' = "idle" /\ call = "idle"
  <2> DEFINE new == [NewTask(t) EXCEPT !.registered = FALSE]
             store == [mem EXCEPT ![sub] = new]
  <2>1. new \in TaskState
    <3>1. NewTask(t) \in TaskState
      BY NewTaskTyped
    <3> QED
      BY <3>1, FlagTyped
  <2>2. store \in Stores
    BY <2>1, ChangedStore
  <2>3. store[t] \in TaskState
    BY <1>1, <1>11, <2>1 DEF AddSubtask, Stores
  <2>4. [store EXCEPT ![t] = [store[t] EXCEPT !.subs = Append(@, sub)]] \in Stores
    BY <2>2, <2>3, ChangedStore, GainsSubtask
  <2>5. [store EXCEPT ![t].subs = Append(@, sub)] \in Stores
    BY <2>4
  <2>6. Held([store EXCEPT ![t].subs = Append(@, sub)]) /\ made' = made \cup {sub}
    BY <1>11 DEF AddSubtask
  <2> HIDE DEF new, store
  <2> QED
    BY <2>5, <2>6 DEF Held
<1> QED
  BY <1>2, <1>3, <1>4, <1>5, <1>6, <1>7, <1>8, <1>9, <1>10, <1>11 DEF TaskCall, TaskHolder
-----------------------------------------------------------------------------
(* Unless a save was cut short, the tasks acknowledged last are the ones a   *)
(* load would find, but while a save is rewriting the file.                  *)
Saved == IF disk \in {None, Torn} THEN Empty ELSE disk

StoreInv ==
    /\ MemInv
    /\ acked \in Stores
    /\ disk \in Stores \cup {None, Torn}
    /\ call \in {"idle", "open", "dump", "down"}
    /\ ~cut /\ call # "dump" => acked = Saved

LEMMA StoreInitial == Init => StoreInv
  BY EmptyTyped DEF Init, StoreInit, StoreInv, MemInv, Saved

LEMMA StoreStepKeeps == StoreInv /\ StoreNext => StoreInv'
<1> SUFFICES ASSUME StoreInv, StoreNext
             PROVE  StoreInv'
  OBVIOUS
<1> USE DEF StoreInv, Saved
<1>1. ASSUME NEW t \in Tasks, TaskCall(t) \/ TaskHolder(t)
      PROVE  StoreInv'
  BY <1>1, CallKeepsMem
<1>2. CASE Reset
  BY <1>2, EmptyTyped DEF Reset, Saves, MemInv
<1>3. CASE SaveOpen
  BY <1>3 DEF SaveOpen, MemInv
<1>4. CASE SaveDump
  BY <1>4, OrchestratorAssumption DEF SaveDump, MemInv
<1>5. CASE SaveFails
  BY <1>5 DEF SaveFails, MemInv
<1>6. CASE Crash
  BY <1>6, EmptyTyped DEF Crash, MemInv
<1>7. CASE LoadState
  BY <1>7, EmptyTyped DEF LoadState, MemInv
<1> QED
  BY <1>1, <1>2, <1>3, <1>4, <1>5, <1>6, <1>7 DEF StoreNext

LEMMA StoreOrNothing ==
    ASSUME [Next]_vars
    PROVE  StoreNext \/ UNCHANGED storeVars
  BY StepCases DEF StoreStep, PipeNext, JudgeTaskCompletion, GenerateTaskReport, FinalizeTask, ClearReports

LEMMA StoreStepInv == StoreInv /\ [Next]_vars => StoreInv'
<1> SUFFICES ASSUME StoreInv, [Next]_vars
             PROVE  StoreInv'
  OBVIOUS
<1>1. CASE StoreNext
  BY <1>1, StoreStepKeeps
<1>2. CASE UNCHANGED storeVars
  BY <1>2 DEF StoreInv, MemInv, Saved, Stores, TaskState, Empty
<1> QED
  BY <1>1, <1>2, StoreOrNothing

(* What the last returned call had changed is what a restart finds, unless a *)
(* save was cut short or raised, for any tasks and any number of calls       *)
(* (save_state, load_state).                                                 *)
THEOREM AckedTasksSurvive == Spec => AckedSurvives
<1>1. StoreInv /\ [Next]_vars => [call = "down" /\ call' = "idle" /\ ~cut => mem' = acked]_vars
  <2> SUFFICES ASSUME StoreInv, [Next]_vars, call = "down", call' = "idle", ~cut
               PROVE  mem' = acked
    OBVIOUS
  <2>1. LoadState
    <3>1. \A t \in Tasks : ~TaskCall(t) /\ ~TaskHolder(t)
      BY CallKeepsMem DEF StoreInv
    <3>2. ~Reset /\ ~SaveOpen /\ ~SaveDump /\ ~SaveFails /\ ~Crash
      BY DEF Reset, Saves, SaveOpen, SaveDump, SaveFails, Crash
    <3> QED
      BY <3>1, <3>2, StoreOrNothing DEF StoreNext
  <2> QED
    BY <2>1 DEF LoadState, StoreInv, Saved
<1> QED
  BY <1>1, StoreInitial, StoreStepInv, PTL DEF Spec, AckedSurvives
-----------------------------------------------------------------------------
(* The links between tasks.  A sub-task has one parent and one place under    *)
(* it; a task that the orchestrator knows beside its parent is under it; and  *)
(* no task is below itself, because a parent is older than its sub-tasks.     *)
Subs(store, t) == ToSet(store[t].subs)

Alive(store, t) == store[t] # None /\ store[t].registered

Deepens(store, depth) ==
    \A t, p \in Tasks : store[t] # None /\ store[t].parent = p => depth[p] < depth[t]

Deep(store) == \E bound \in Nat : \E depth \in [Tasks -> 0 .. bound] : Deepens(store, depth)

Forest(store, ids) ==
    /\ \A t \in Tasks : store[t] # None =>
           /\ t \in ids /\ store[t].parent \in ids \cup {None}
           /\ store[t].root <=> store[t].parent = None
           /\ IsInjective(store[t].subs)
           /\ \A s \in Subs(store, t) : store[s] # None /\ store[s].parent = t
    /\ \A t, p \in Tasks :
           Alive(store, t) /\ store[t].parent = p /\ Alive(store, p) => t \in Subs(store, p)
    /\ Deep(store)

LEMMA SubsAreTasks ==
    ASSUME NEW store \in Stores, NEW t \in Tasks, store[t] # None
    PROVE  /\ store[t].subs \in Seq(Tasks) /\ Subs(store, t) \subseteq Tasks
           /\ DOMAIN store[t].subs = 1 .. Len(store[t].subs) /\ Len(store[t].subs) \in Nat
           /\ store[t].parent \in Tasks \cup {None} /\ store[t].registered \in BOOLEAN
           /\ store[t].root \in BOOLEAN
<1>1. store[t] \in TaskState
  BY DEF Stores
<1>2. store[t].subs \in Seq(Tasks) /\ store[t].parent \in Tasks \cup {None}
      /\ store[t].registered \in BOOLEAN /\ store[t].root \in BOOLEAN
  BY <1>1 DEF TaskState
<1> DEFINE q == store[t].subs
<1>3. q \in Seq(Tasks)
  BY <1>2
<1> HIDE DEF q
<1>4. DOMAIN q = 1 .. Len(q) /\ Len(q) \in Nat /\ \A i \in 1 .. Len(q) : q[i] \in Tasks
  BY <1>3, LenProperties
<1>5. ToSet(q) \subseteq Tasks
  BY <1>4 DEF ToSet
<1> QED
  BY <1>2, <1>4, <1>5 DEF q, Subs

(* What holds of a task once it holds of its sub-tasks holds of all tasks;    *)
(* and what holds of a task once it holds of its parent.                     *)
LEMMA FromTheLeaves ==
    ASSUME NEW bound \in Nat, NEW depth \in [Tasks -> 0 .. bound], NEW Q, NEW below,
           \A t \in Tasks : \A s \in below[t] : s \in Tasks /\ depth[t] < depth[s],
           \A t \in Tasks : (\A s \in below[t] : s \in Q) => t \in Q
    PROVE  \A t \in Tasks : t \in Q
<1> DEFINE T == {k \in 0 .. bound + 1 : \A t \in Tasks : bound - depth[t] < k => t \in Q}
<1>1. 0 \in T
  BY DEF T
<1>2. ASSUME NEW k \in 1 .. bound + 1, k - 1 \in T
      PROVE  k \in T
  <2>1. ASSUME NEW t \in Tasks, bound - depth[t] < k
        PROVE  t \in Q
    <3>1. ASSUME NEW s \in below[t]
          PROVE  s \in Q
      <4>1. s \in Tasks /\ depth[t] < depth[s]
        OBVIOUS
      <4>2. depth[s] \in Int /\ depth[t] \in Int
        BY <4>1
      <4>3. bound - depth[s] < k - 1
        BY <2>1, <4>1, <4>2
      <4> QED
        BY <1>2, <4>1, <4>3
    <3> QED
      BY <3>1
  <2> QED
    BY <2>1
<1>3. bound + 1 \in T
  <2>1. bound + 1 \in Nat /\ bound + 1 \in 0 .. bound + 1
    OBVIOUS
  <2> HIDE DEF T
  <2> QED
    BY <1>1, <1>2, <2>1, AllReached
<1> TAKE t \in Tasks
<1>4. depth[t] \in 0 .. bound
  OBVIOUS
<1>5. bound - depth[t] < bound + 1
  BY <1>4
<1> QED
  BY <1>3, <1>5

LEMMA FromTheTop ==
    ASSUME NEW store \in Stores, NEW bound \in Nat, NEW depth \in [Tasks -> 0 .. bound],
           Deepens(store, depth), NEW Q,
           \A t \in Tasks : (store[t] # None /\ store[t].parent \in Tasks => store[t].parent \in Q) => t \in Q
    PROVE  \A t \in Tasks : t \in Q
<1> DEFINE up == [t \in Tasks |-> bound - depth[t]]
           below == [t \in Tasks |-> {p \in Tasks : store[t] # None /\ store[t].parent = p}]
<1>1. up \in [Tasks -> 0 .. bound]
  <2>1. \A t \in Tasks : bound - depth[t] \in 0 .. bound
    <3> TAKE t \in Tasks
    <3>1. depth[t] \in 0 .. bound
      OBVIOUS
    <3> QED
      BY <3>1
  <2> QED
    BY <2>1
<1>2. ASSUME NEW t \in Tasks, NEW s \in below[t]
      PROVE  s \in Tasks /\ up[t] < up[s]
  <2>1. s \in Tasks /\ depth[s] < depth[t]
    BY DEF Deepens
  <2>2. depth[s] \in Int /\ depth[t] \in Int
    BY <2>1
  <2> QED
    BY <2>1, <2>2
<1>3. ASSUME NEW t \in Tasks, \A s \in below[t] : s \in Q
      PROVE  t \in Q
  BY <1>3
<1> HIDE DEF up, below
<1> QED
  BY <1>1, <1>2, <1>3, FromTheLeaves

(* The tree of a task from those of its sub-tasks.                           *)
Branch(store, trees, t) ==
    IF store[t] = None \/ ~store[t].registered THEN <<>>
    ELSE <<t>> \o FlattenSeq([i \in DOMAIN store[t].subs |-> trees[store[t].subs[i]]])

LEMMA BranchFacts ==
    ASSUME NEW store \in Stores, NEW trees, NEW t \in Tasks, 
           store[t] # None => \A s \in Subs(store, t) : trees[s] \in Seq(Tasks)
    PROVE  /\ Branch(store, trees, t) \in Seq(Tasks)
           /\ ~Alive(store, t) => ToSet(Branch(store, trees, t)) = {}
           /\ Alive(store, t) =>
                  ToSet(Branch(store, trees, t)) = {t} \cup UNION {ToSet(trees[s]) : s \in Subs(store, t)}
           /\ ~Alive(store, t) => IsInjective(Branch(store, trees, t))
           /\ /\ Alive(store, t) 
              /\ IsInjective(store[t].subs)
              /\ \A s \in Subs(store, t) : IsInjective(trees[s]) /\ t \notin ToSet(trees[s])
              /\ \A r, s \in Subs(store, t) : r # s => ToSet(trees[r]) \cap ToSet(trees[s]) = {}
              => IsInjective(Branch(store, trees, t))
<1>1. CASE ~Alive(store, t)
  <2>1. Branch(store, trees, t) = <<>>
    BY <1>1 DEF Branch, Alive
  <2> QED
    BY <1>1, <2>1 DEF ToSet, IsInjective
<1>2. CASE Alive(store, t)
  <2> DEFINE q == store[t].subs
             parts == [i \in DOMAIN q |-> trees[q[i]]]
  <2>1. Branch(store, trees, t) = <<t>> \o FlattenSeq(parts)
    BY <1>2 DEF Branch, Alive
  <2>2. q \in Seq(Tasks) /\ DOMAIN q = 1 .. Len(q) /\ Len(q) \in Nat /\ Subs(store, t) = ToSet(q)
    BY <1>2, SubsAreTasks DEF Alive, Subs
  <2>3. Subs(store, t) = {q[i] : i \in 1 .. Len(q)} /\ \A s \in Subs(store, t) : trees[s] \in Seq(Tasks)
    BY <1>2, <2>2 DEF ToSet, Alive
  <2> HIDE DEF q
  <2>4. parts \in [1 .. Len(q) -> Seq(Tasks)] /\ \A i \in 1 .. Len(q) : parts[i] = trees[q[i]]
    BY <2>2, <2>3
  <2> HIDE DEF parts
  <2>5. parts \in Seq(Seq(Tasks)) /\ Len(parts) = Len(q)
    BY <2>2, <2>4, FunctionIsSeq
  <2> DEFINE rest == FlattenSeq(parts)
  <2>6. /\ rest \in Seq(Tasks)
        /\ ToSet(rest) = UNION {ToSet(parts[k]) : k \in 1 .. Len(q)}
        /\ (\A k \in 1 .. Len(q) : IsInjective(parts[k]))
           /\ (\A k, m \in 1 .. Len(q) : k # m => ToSet(parts[k]) \cap ToSet(parts[m]) = {})
           => IsInjective(rest)
    BY <2>5, FlattenMembers
  <2> HIDE DEF rest
  <2>7. ToSet(rest) = UNION {ToSet(trees[s]) : s \in Subs(store, t)}
    BY <2>3, <2>4, <2>6
  <2> DEFINE one == <<t>>
  <2>8. one \in Seq(Tasks) /\ ToSet(one) = {t} /\ IsInjective(one)
    BY DEF ToSet, IsInjective
  <2> HIDE DEF one
  <2>9. one \o rest \in Seq(Tasks) /\ ToSet(one \o rest) = {t} \cup ToSet(rest)
    <3>1. one \o rest \in Seq(Tasks)
      BY <2>6, <2>8, ConcatProperties
    <3>2. ToSet(one \o rest) = ToSet(one) \cup ToSet(rest)
      BY <2>6, <2>8, ConcatMembers
    <3> QED
      BY <2>8, <3>1, <3>2
  <2>10. ASSUME IsInjective(q),
                \A s \in Subs(store, t) : IsInjective(trees[s]) /\ t \notin ToSet(trees[s]),
                \A r, s \in Subs(store, t) : r # s => ToSet(trees[r]) \cap ToSet(trees[s]) = {}
         PROVE  IsInjective(one \o rest)
    <3>1. \A k \in 1 .. Len(q) : IsInjective(parts[k])
      BY <2>3, <2>4, <2>10
    <3>2. ASSUME NEW k \in 1 .. Len(q), NEW m \in 1 .. Len(q), k # m
          PROVE  ToSet(parts[k]) \cap ToSet(parts[m]) = {}
      <4>1. q[k] # q[m]
        BY <2>2, <2>10, <3>2 DEF IsInjective
      <4>2. q[k] \in Subs(store, t) /\ q[m] \in Subs(store, t)
        BY <2>3
      <4>3. ToSet(trees[q[k]]) \cap ToSet(trees[q[m]]) = {}
        BY <2>10, <4>1, <4>2
      <4> QED
        BY <2>4, <4>3
    <3>3. IsInjective(rest)
      BY <2>6, <3>1, <3>2
    <3>4. t \notin ToSet(rest)
      BY <2>7, <2>10
    <3>5. ToSet(one) \cap ToSet(rest) = {}
      BY <2>8, <3>4
    <3> QED
      BY <2>6, <2>8, <3>3, <3>5, ConcatInjective
  <2> QED
    BY <1>2, <2>1, <2>7, <2>9, <2>10 DEF q, rest, one
<1> QED
  BY <1>1, <1>2

(* The trees of a forest are well defined.                                   *)
LEMMA TreesExist ==
    ASSUME NEW store \in Stores, NEW ids, Forest(store, ids)
    PROVE  TaskTree(store) = [t \in Tasks |-> Branch(store, TaskTree(store), t)]
<1> DEFINE Solves(f) == f = [t \in Tasks |-> Branch(store, f, t)]
           V == [Tasks -> Seq(Tasks)]
<1>1. PICK bound \in Nat : \E depth \in [Tasks -> 0 .. bound] : Deepens(store, depth)
  BY DEF Forest, Deep
<1>2. PICK depth \in [Tasks -> 0 .. bound] : Deepens(store, depth)
  BY <1>1
<1> DEFINE n == bound + 2
           turn == [k \in 1 .. n |-> [f \in V |-> [t \in Tasks |-> Branch(store, f, t)]]]
           none == [t \in Tasks |-> <<>>]
<1>3. ASSUME NEW f \in V, NEW t \in Tasks
      PROVE  Branch(store, f, t) \in Seq(Tasks)
  <2>1. store[t] # None => \A s \in Subs(store, t) : f[s] \in Seq(Tasks)
    BY SubsAreTasks
  <2> QED
    BY <2>1, BranchFacts
<1>4. Loop(n, V, none, turn)
  <2>1. \A f \in V : [t \in Tasks |-> Branch(store, f, t)] \in V
    BY <1>3
  <2>2. turn \in [1 .. n -> [V -> V]]
    BY <2>1
  <2>3. none \in V /\ n \in Nat
    BY DEF none
  <2> HIDE DEF turn, none, n, V
  <2> QED
    BY <2>2, <2>3 DEF Loop
<1>5. PICK F : LoopRun(F, n, V, none, turn)
  <2> HIDE DEF turn, none, n, V
  <2> QED
    BY <1>4, LoopRuns
<1>6. F \in [0 .. n -> V] /\ \A k \in 1 .. n : F[k] = [t \in Tasks |-> Branch(store, F[k - 1], t)]
  <2>1. F \in [0 .. n -> V] /\ \A k \in 1 .. n : F[k] = turn[k][F[k - 1]]
    BY <1>5 DEF LoopRun
  <2>2. \A k \in 1 .. n : k - 1 \in 0 .. n
    OBVIOUS
  <2>3. \A k \in 1 .. n : F[k - 1] \in V
    <3> HIDE DEF n, V, turn
    <3> QED
      BY <2>1, <2>2
  <2>4. \A k \in 1 .. n : \A f \in V : turn[k][f] = [t \in Tasks |-> Branch(store, f, t)]
    <3> HIDE DEF n, V
    <3> QED
      BY DEF turn
  <2> HIDE DEF n, V, turn
  <2> QED
    BY <2>1, <2>3, <2>4
<1> HIDE DEF turn, none, V
<1> DEFINE T == {k \in 0 .. bound + 1 : \A t \in Tasks : bound - depth[t] < k => F[k + 1][t] = F[k][t]}
<1>7. 0 \in T
  OBVIOUS
<1>8. ASSUME NEW k \in 1 .. bound + 1, k - 1 \in T
      PROVE  k \in T
  <2>0. k \in 1 .. n /\ k + 1 \in 1 .. n /\ (k - 1) + 1 = k /\ (k + 1) - 1 = k /\ k \in 0 .. bound + 1
    OBVIOUS
  <2>1. ASSUME NEW t \in Tasks, bound - depth[t] < k
        PROVE  F[k + 1][t] = F[k][t]
    <3>1. F[k + 1][t] = Branch(store, F[k], t) /\ F[k][t] = Branch(store, F[k - 1], t)
      <4>1. F[k + 1] = [u \in Tasks |-> Branch(store, F[(k + 1) - 1], u)]
        BY <1>6, <2>0
      <4>2. F[k] = [u \in Tasks |-> Branch(store, F[k - 1], u)]
        BY <1>6, <2>0
      <4>3. F[(k + 1) - 1] = F[k]
        BY <2>0
      <4> QED
        BY <4>1, <4>2, <4>3
    <3>2. CASE ~Alive(store, t)
      BY <3>1, <3>2 DEF Branch, Alive
    <3>3. CASE Alive(store, t)
      <4> DEFINE q == store[t].subs
      <4>1. ASSUME NEW i \in DOMAIN q
            PROVE  F[k][q[i]] = F[k - 1][q[i]]
        <5> DEFINE s == q[i]
        <5>1. s \in Subs(store, t)
          BY DEF Subs, ToSet
        <5>2. s \in Tasks /\ store[s] # None /\ store[s].parent = t
          BY <3>3, <5>1, SubsAreTasks DEF Forest, Alive
        <5> HIDE DEF s
        <5>3. depth[t] < depth[s] /\ depth[s] \in Int /\ depth[t] \in Int
          BY <1>2, <5>2 DEF Deepens
        <5>4. bound - depth[s] < k - 1
          BY <2>1, <5>3
        <5>5. F[(k - 1) + 1][s] = F[k - 1][s]
          BY <1>8, <5>2, <5>4
        <5> QED
          BY <2>0, <5>5 DEF s
      <4>2. [i \in DOMAIN q |-> F[k][q[i]]] = [i \in DOMAIN q |-> F[k - 1][q[i]]]
        BY <4>1
      <4> QED
        BY <3>1, <4>2 DEF Branch
    <3> QED
      BY <3>2, <3>3
  <2> QED
    BY <2>0, <2>1
<1>9. bound + 1 \in T
  <2>1. bound + 1 \in Nat /\ bound + 1 \in 0 .. bound + 1
    OBVIOUS
  <2> HIDE DEF T
  <2> QED
    BY <1>7, <1>8, <2>1, AllReached
<1> DEFINE g == F[bound + 1]
<1>10. Solves(g)
  <2>1. bound + 2 \in 1 .. n /\ (bound + 2) - 1 = bound + 1 /\ (bound + 1) + 1 = bound + 2
        /\ bound + 1 \in 1 .. n
    OBVIOUS
  <2>2. F[bound + 2] = [t \in Tasks |-> Branch(store, g, t)]
    BY <1>6, <2>1
  <2>3. g = [t \in Tasks |-> Branch(store, F[(bound + 1) - 1], t)]
    BY <1>6, <2>1
  <2>4. ASSUME NEW t \in Tasks
        PROVE  F[bound + 2][t] = g[t]
    <3>1. depth[t] \in 0 .. bound
      OBVIOUS
    <3>2. bound - depth[t] < bound + 1
      BY <3>1
    <3>3. F[(bound + 1) + 1][t] = F[bound + 1][t]
      BY <1>9, <3>2
    <3> QED
      BY <2>1, <3>3
  <2> HIDE DEF g
  <2> QED
    BY <2>2, <2>3, <2>4
<1>11. TaskTree(store) = CHOOSE f : Solves(f)
  BY DEF TaskTree, Branch
<1> HIDE DEF Solves
<1>12. Solves(TaskTree(store))
  BY <1>10, <1>11
<1> QED
  BY <1>12 DEF Solves

(* What a tree holds: its own task, and what the trees of its sub-tasks hold. *)
LEMMA TreeMembers ==
    ASSUME NEW store \in Stores, NEW ids, Forest(store, ids)
    PROVE  /\ TaskTree(store) \in [Tasks -> Seq(Tasks)]
           /\ \A t \in Tasks : ToSet(TaskTree(store)[t]) =
                  IF Alive(store, t)
                  THEN {t} \cup UNION {ToSet(TaskTree(store)[s]) : s \in Subs(store, t)} ELSE {}
<1> DEFINE tree == TaskTree(store)
           below == [t \in Tasks |-> IF Alive(store, t) THEN Subs(store, t) ELSE {}]
           Q == {t \in Tasks : tree[t] \in Seq(Tasks)}
<1>1. tree = [t \in Tasks |-> Branch(store, tree, t)]
  BY TreesExist
<1>2. PICK bound \in Nat : \E depth \in [Tasks -> 0 .. bound] : Deepens(store, depth)
  BY DEF Forest, Deep
<1>3. PICK depth \in [Tasks -> 0 .. bound] : Deepens(store, depth)
  BY <1>2
<1> HIDE DEF tree
<1>4. ASSUME NEW t \in Tasks, NEW s \in below[t]
      PROVE  s \in Tasks /\ depth[t] < depth[s]
  <2>1. Alive(store, t) /\ s \in Subs(store, t)
    OBVIOUS
  <2>2. s \in Tasks /\ store[s] # None /\ store[s].parent = t
    BY <2>1, SubsAreTasks DEF Forest, Alive
  <2> QED
    BY <1>3, <2>2 DEF Deepens
<1>5. ASSUME NEW t \in Tasks, \A s \in below[t] : s \in Q
      PROVE  t \in Q
  <2>1. CASE Alive(store, t)
    <3>1. \A s \in Subs(store, t) : tree[s] \in Seq(Tasks)
      BY <1>5, <2>1
    <3>2. Branch(store, tree, t) \in Seq(Tasks)
      BY <3>1, BranchFacts
    <3> QED
      BY <1>1, <3>2
  <2>2. CASE ~Alive(store, t)
    <3>1. Branch(store, tree, t) = <<>>
      BY <2>2 DEF Branch, Alive
    <3>2. <<>> \in Seq(Tasks)
      OBVIOUS
    <3> QED
      BY <1>1, <3>1, <3>2
  <2> QED
    BY <2>1, <2>2
<1>6. \A t \in Tasks : t \in Q
  <2> HIDE DEF Q, below
  <2> QED
    BY <1>4, <1>5, FromTheLeaves
<1>7. tree \in [Tasks -> Seq(Tasks)]
  BY <1>1, <1>6
<1>8. ASSUME NEW t \in Tasks
      PROVE  ToSet(tree[t]) = IF Alive(store, t)
                              THEN {t} \cup UNION {ToSet(tree[s]) : s \in Subs(store, t)} ELSE {}
  <2>1. store[t] # None => \A s \in Subs(store, t) : tree[s] \in Seq(Tasks)
    BY <1>7, SubsAreTasks
  <2>2. tree[t] = Branch(store, tree, t)
    BY <1>1
  <2> QED
    BY <2>1, <2>2, BranchFacts
<1> QED
  BY <1>7, <1>8 DEF tree

(* A task in the tree of another is below it, and so is its parent.          *)
LEMMA BelowTheTop ==
    ASSUME NEW store \in Stores, NEW ids, Forest(store, ids),
           NEW bound \in Nat, NEW depth \in [Tasks -> 0 .. bound], Deepens(store, depth)
    PROVE  \A t \in Tasks : \A x \in ToSet(TaskTree(store)[t]) :
               /\ x \in Tasks /\ Alive(store, x) /\ Alive(store, t)
               /\ x # t => /\ depth[t] < depth[x] /\ store[x].parent \in Tasks
                           /\ store[x].parent \in ToSet(TaskTree(store)[t])
<1> DEFINE In(t) == ToSet(TaskTree(store)[t])
           below == [t \in Tasks |-> IF Alive(store, t) THEN Subs(store, t) ELSE {}]
           Below(t, x) == /\ x \in Tasks /\ Alive(store, x) /\ Alive(store, t)
                          /\ x # t => /\ depth[t] < depth[x] /\ store[x].parent \in Tasks
                                      /\ store[x].parent \in In(t)
           Q == {t \in Tasks : \A x \in In(t) : Below(t, x)}
<1>1. \A t \in Tasks : In(t) = IF Alive(store, t) THEN {t} \cup UNION {In(s) : s \in Subs(store, t)} ELSE {}
  BY TreeMembers
<1> HIDE DEF In
<1>2. ASSUME NEW t \in Tasks, NEW s \in below[t]
      PROVE  s \in Tasks /\ depth[t] < depth[s] /\ store[s].parent = t /\ Alive(store, t) /\ s \in Subs(store, t)
  <2>1. Alive(store, t) /\ s \in Subs(store, t)
    OBVIOUS
  <2>2. s \in Tasks /\ store[s] # None /\ store[s].parent = t
    BY <2>1, SubsAreTasks DEF Forest, Alive
  <2> QED
    BY <2>1, <2>2 DEF Deepens
<1>3. ASSUME NEW t \in Tasks, \A s \in below[t] : s \in Q
      PROVE  t \in Q
  <2>1. ASSUME NEW x \in In(t)
        PROVE  Below(t, x)
    <3>1. Alive(store, t)
      BY <1>1
    <3>2. t \in In(t)
      BY <1>1, <3>1
    <3>3. CASE x = t
      BY <3>1, <3>3
    <3>4. CASE x # t
      <4>1. PICK s \in Subs(store, t) : x \in In(s)
        BY <1>1, <3>1, <3>4
      <4>2. s \in below[t]
        BY <3>1
      <4>3. s \in Tasks /\ depth[t] < depth[s] /\ store[s].parent = t
        BY <1>2, <4>2
      <4>4. Below(s, x)
        BY <1>3, <4>1, <4>2
      <4>5. In(s) \subseteq In(t)
        BY <1>1, <3>1
      <4>6. CASE x = s
        BY <3>1, <3>2, <4>3, <4>4, <4>6
      <4>7. CASE x # s
        <5>1. depth[s] < depth[x] /\ x \in Tasks
          BY <4>4, <4>7
        <5>2. depth[s] \in Int /\ depth[t] \in Int /\ depth[x] \in Int
          BY <4>3, <5>1
        <5>3. depth[t] < depth[x]
          BY <4>3, <5>1, <5>2
        <5> QED
          BY <3>1, <4>4, <4>5, <4>7, <5>3
      <4> QED
        BY <4>6, <4>7
    <3> QED
      BY <3>3, <3>4
  <2> QED
    BY <2>1
<1>4. \A t \in Tasks : t \in Q
  <2>1. \A t \in Tasks : \A s \in below[t] : s \in Tasks /\ depth[t] < depth[s]
    BY <1>2
  <2> HIDE DEF Q, below
  <2> QED
    BY <1>3, <2>1, FromTheLeaves
<1> QED
  BY <1>4 DEF In

(* Of two trees with a task in common one is part of the other.              *)
LEMMA SharedMeansNested ==
    ASSUME NEW store \in Stores, NEW ids, Forest(store, ids)
    PROVE  \A x \in Tasks : \A a, b \in Tasks :
               x \in ToSet(TaskTree(store)[a]) /\ x \in ToSet(TaskTree(store)[b]) =>
                   a \in ToSet(TaskTree(store)[b]) \/ b \in ToSet(TaskTree(store)[a])
<1> DEFINE In(t) == ToSet(TaskTree(store)[t])
           Nested(x, a, b) == x \in In(a) /\ x \in In(b) => a \in In(b) \/ b \in In(a)
           Q == {x \in Tasks : \A a, b \in Tasks : Nested(x, a, b)}
<1>1. PICK bound \in Nat : \E depth \in [Tasks -> 0 .. bound] : Deepens(store, depth)
  BY DEF Forest, Deep
<1>2. PICK depth \in [Tasks -> 0 .. bound] : Deepens(store, depth)
  BY <1>1
<1>3. \A t \in Tasks : \A x \in In(t) : Alive(store, x) /\ (x # t => store[x].parent \in Tasks /\ store[x].parent \in In(t))
  BY <1>2, BelowTheTop
<1> HIDE DEF In
<1>4. ASSUME NEW x \in Tasks, store[x] # None /\ store[x].parent \in Tasks => store[x].parent \in Q
      PROVE  x \in Q
  <2>1. ASSUME NEW a \in Tasks, NEW b \in Tasks, x \in In(a), x \in In(b)
        PROVE  a \in In(b) \/ b \in In(a)
    <3>1. CASE x = a \/ x = b
      BY <2>1, <3>1
    <3>2. CASE x # a /\ x # b
      <4>1. store[x] # None /\ store[x].parent \in Tasks /\ store[x].parent \in In(a) /\ store[x].parent \in In(b)
        BY <1>3, <2>1, <3>2 DEF Alive
      <4> QED
        BY <1>4, <4>1
    <3> QED
      BY <3>1, <3>2
  <2> QED
    BY <2>1
<1>5. \A x \in Tasks : x \in Q
  <2> HIDE DEF Q
  <2> QED
    BY <1>2, <1>4, FromTheTop
<1> QED
  BY <1>5 DEF In

(* No task is in a tree twice.                                               *)
LEMMA NoTaskTwice ==
    ASSUME NEW store \in Stores, NEW ids, Forest(store, ids)
    PROVE  \A t \in Tasks : IsInjective(TaskTree(store)[t])
<1> DEFINE tree == TaskTree(store)
           In(t) == ToSet(tree[t])
           below == [t \in Tasks |-> IF Alive(store, t) THEN Subs(store, t) ELSE {}]
           Q == {t \in Tasks : IsInjective(tree[t])}
<1>1. PICK bound \in Nat : \E depth \in [Tasks -> 0 .. bound] : Deepens(store, depth)
  BY DEF Forest, Deep
<1>2. PICK depth \in [Tasks -> 0 .. bound] : Deepens(store, depth)
  BY <1>1
<1>3. \A t \in Tasks : \A x \in In(t) :
          x # t => depth[t] < depth[x] /\ store[x].parent \in In(t)
  BY <1>2, BelowTheTop
<1>4. \A x, a, b \in Tasks : x \in In(a) /\ x \in In(b) => a \in In(b) \/ b \in In(a)
  BY SharedMeansNested
<1>5. tree = [t \in Tasks |-> Branch(store, tree, t)] /\ tree \in [Tasks -> Seq(Tasks)]
  BY TreesExist, TreeMembers
<1>6. \A t \in Tasks : In(t) \subseteq Tasks
  BY <1>2, BelowTheTop
<1> HIDE DEF tree, In
<1>7. ASSUME NEW t \in Tasks, NEW s \in below[t]
      PROVE  s \in Tasks /\ depth[t] < depth[s] /\ store[s].parent = t
  <2>1. Alive(store, t) /\ s \in Subs(store, t)
    OBVIOUS
  <2>2. s \in Tasks /\ store[s] # None /\ store[s].parent = t
    BY <2>1, SubsAreTasks DEF Forest, Alive
  <2> QED
    BY <1>2, <2>2 DEF Deepens
<1>8. ASSUME NEW t \in Tasks, NEW r \in below[t], NEW s \in below[t], r # s
      PROVE  r \notin In(s)
  <2> SUFFICES ASSUME r \in In(s) PROVE FALSE
    OBVIOUS
  <2>1. r \in Tasks /\ s \in Tasks /\ store[r].parent = t /\ depth[t] < depth[s]
    BY <1>7
  <2>2. t \in In(s)
    BY <1>3, <1>8, <2>1
  <2>3. depth[t] \in Int /\ depth[s] \in Int
    BY <2>1
  <2>4. t # s
    BY <2>1, <2>3
  <2>5. depth[s] < depth[t]
    BY <1>3, <2>1, <2>2, <2>4
  <2> QED
    BY <2>1, <2>3, <2>5
<1>9. ASSUME NEW t \in Tasks, \A s \in below[t] : s \in Q
      PROVE  t \in Q
  <2>1. store[t] # None => \A s \in Subs(store, t) : tree[s] \in Seq(Tasks)
    BY <1>5, SubsAreTasks
  <2>2. tree[t] = Branch(store, tree, t)
    BY <1>5
  <2>3. CASE ~Alive(store, t)
    BY <2>1, <2>2, <2>3, BranchFacts
  <2>4. CASE Alive(store, t)
    <3>0. Subs(store, t) = below[t]
      BY <2>4
    <3>1. ASSUME NEW s \in Subs(store, t)
          PROVE  IsInjective(tree[s]) /\ t \notin ToSet(tree[s])
      <4>1. IsInjective(tree[s])
        BY <1>9, <3>0
      <4>2. s \in Tasks /\ depth[t] < depth[s]
        BY <1>7, <3>0
      <4>3. depth[t] \in Int /\ depth[s] \in Int
        BY <4>2
      <4>4. ~(depth[s] < depth[t]) /\ t # s
        BY <4>2, <4>3
      <4>5. t \notin In(s)
        BY <1>3, <4>2, <4>4
      <4> QED
        BY <4>1, <4>5 DEF In
    <3>2. ASSUME NEW r \in Subs(store, t), NEW s \in Subs(store, t), r # s
          PROVE  ToSet(tree[r]) \cap ToSet(tree[s]) = {}
      <4>1. r \in Tasks /\ s \in Tasks
        BY <1>7, <3>0
      <4>2. r \notin In(s) /\ s \notin In(r)
        BY <1>8, <3>0, <3>2
      <4>3. In(r) \cap In(s) = {}
        BY <1>4, <1>6, <4>1, <4>2
      <4> QED
        BY <4>3 DEF In
    <3>3. IsInjective(store[t].subs)
      BY <2>4 DEF Forest, Alive
    <3>4. IsInjective(Branch(store, tree, t))
      BY <2>1, <2>4, <3>1, <3>2, <3>3, BranchFacts
    <3> QED
      BY <2>2, <3>4
  <2> QED
    BY <2>3, <2>4
<1>10. \A t \in Tasks : t \in Q
  <2>1. \A t \in Tasks : \A s \in below[t] : s \in Tasks /\ depth[t] < depth[s]
    BY <1>7
  <2> HIDE DEF Q, below
  <2> QED
    BY <1>9, <2>1, FromTheLeaves
<1> QED
  BY <1>10 DEF tree

(* The tree of a task holds the known sub-tasks of all it holds.             *)
LEMMA TreesAreWhole ==
    ASSUME NEW store \in Stores, NEW ids, Forest(store, ids)
    PROVE  \A t, p, s \in Tasks :
               p \in ToSet(TaskTree(store)[t]) /\ s \in Subs(store, p) /\ Alive(store, s) =>
                   s \in ToSet(TaskTree(store)[t])
<1> DEFINE In(t) == ToSet(TaskTree(store)[t])
           below == [t \in Tasks |-> IF Alive(store, t) THEN Subs(store, t) ELSE {}]
           Q == {t \in Tasks : \A p, s \in Tasks :
                    p \in In(t) /\ s \in Subs(store, p) /\ Alive(store, s) => s \in In(t)}
<1>1. PICK bound \in Nat : \E depth \in [Tasks -> 0 .. bound] : Deepens(store, depth)
  BY DEF Forest, Deep
<1>2. PICK depth \in [Tasks -> 0 .. bound] : Deepens(store, depth)
  BY <1>1
<1>3. \A t \in Tasks : In(t) = IF Alive(store, t) THEN {t} \cup UNION {In(s) : s \in Subs(store, t)} ELSE {}
  BY TreeMembers
<1> HIDE DEF In
<1>4. ASSUME NEW t \in Tasks, NEW s \in below[t]
      PROVE  s \in Tasks /\ depth[t] < depth[s]
  <2>1. Alive(store, t) /\ s \in Subs(store, t)
    OBVIOUS
  <2>2. s \in Tasks /\ store[s] # None /\ store[s].parent = t
    BY <2>1, SubsAreTasks DEF Forest, Alive
  <2> QED
    BY <1>2, <2>2 DEF Deepens
<1>5. ASSUME NEW t \in Tasks, \A s \in below[t] : s \in Q
      PROVE  t \in Q
  <2>1. ASSUME NEW p \in Tasks, NEW s \in Tasks, p \in In(t), s \in Subs(store, p), Alive(store, s)
        PROVE  s \in In(t)
    <3>1. Alive(store, t)
      BY <1>3, <2>1
    <3>2. CASE p = t
      <4>1. s \in In(s)
        BY <1>3, <2>1
      <4> QED
        BY <1>3, <2>1, <3>1, <3>2, <4>1
    <3>3. CASE p # t
      <4>1. PICK r \in Subs(store, t) : p \in In(r)
        BY <1>3, <2>1, <3>1, <3>3
      <4>2. r \in Q
        BY <1>5, <3>1
      <4>3. s \in In(r)
        BY <2>1, <4>1, <4>2
      <4> QED
        BY <1>3, <3>1, <4>3
    <3> QED
      BY <3>2, <3>3
  <2> QED
    BY <2>1
<1>6. \A t \in Tasks : t \in Q
  <2>1. \A t \in Tasks : \A s \in below[t] : s \in Tasks /\ depth[t] < depth[s]
    BY <1>4
  <2> HIDE DEF Q, below
  <2> QED
    BY <1>5, <2>1, FromTheLeaves
<1> QED
  BY <1>6 DEF In

(* Every known task is in the tree of a top, and in one of them only.        *)
LEMMA TopsCover ==
    ASSUME mem \in Stores, NEW ids, Forest(mem, ids)
    PROVE  \A t \in Tasks : Known(t) => \E top \in Tops : t \in ToSet(TaskTree(mem)[top])
<1> DEFINE In(t) == ToSet(TaskTree(mem)[t])
           Q == {t \in Tasks : Known(t) => \E top \in Tops : t \in In(top)}
<1>1. PICK bound \in Nat : \E depth \in [Tasks -> 0 .. bound] : Deepens(mem, depth)
  BY DEF Forest, Deep
<1>2. PICK depth \in [Tasks -> 0 .. bound] : Deepens(mem, depth)
  BY <1>1
<1>3. \A t \in Tasks : Alive(mem, t) => t \in In(t)
  BY TreeMembers
<1>4. \A t, p, s \in Tasks : p \in In(t) /\ s \in Subs(mem, p) /\ Alive(mem, s) => s \in In(t)
  BY TreesAreWhole
<1> HIDE DEF In
<1>5. \A t : Known(t) <=> Alive(mem, t)
  BY DEF Known, Alive
<1>6. ASSUME NEW t \in Tasks, mem[t] # None /\ mem[t].parent \in Tasks => mem[t].parent \in Q
      PROVE  t \in Q
  <2> SUFFICES ASSUME Known(t) PROVE \E top \in Tops : t \in In(top)
    OBVIOUS
  <2>1. Alive(mem, t) /\ mem[t] # None
    BY <1>5 DEF Known
  <2>2. CASE t \in Tops
    BY <1>3, <2>1, <2>2
  <2>3. CASE t \notin Tops
    <3>1. ~mem[t].root /\ Known(mem[t].parent)
      BY <2>3 DEF Tops, Stray
    <3>2. mem[t].parent \in Tasks
      BY <2>1, <3>1, SubsAreTasks DEF Forest
    <3> DEFINE p == mem[t].parent
    <3>3. t \in Subs(mem, p)
      BY <1>5, <2>1, <3>1, <3>2 DEF Forest
    <3>4. PICK top \in Tops : p \in In(top)
      BY <1>6, <2>1, <3>1, <3>2
    <3>5. top \in Tasks
      BY DEF Tops
    <3>6. t \in In(top)
      BY <1>4, <2>1, <3>2, <3>3, <3>4, <3>5
    <3> QED
      BY <3>6
  <2> QED
    BY <2>2, <2>3
<1>7. \A t \in Tasks : t \in Q
  <2> HIDE DEF Q
  <2> QED
    BY <1>2, <1>6, FromTheTop
<1> QED
  BY <1>7 DEF In

LEMMA TopsApart ==
    ASSUME mem \in Stores, NEW ids, Forest(mem, ids),
           NEW a \in Tops, NEW b \in Tops, a # b, NEW t \in ToSet(TaskTree(mem)[a])
    PROVE  t \notin ToSet(TaskTree(mem)[b])
<1> DEFINE In(u) == ToSet(TaskTree(mem)[u])
<1>1. PICK bound \in Nat : \E depth \in [Tasks -> 0 .. bound] : Deepens(mem, depth)
  BY DEF Forest, Deep
<1>2. PICK depth \in [Tasks -> 0 .. bound] : Deepens(mem, depth)
  BY <1>1
<1>3. \A u \in Tasks : \A x \in In(u) :
          x \in Tasks /\ Alive(mem, x) /\ (x # u => mem[x].parent \in Tasks /\ mem[x].parent \in In(u))
  BY <1>2, BelowTheTop
<1>4. \A x, u, v \in Tasks : x \in In(u) /\ x \in In(v) => u \in In(v) \/ v \in In(u)
  BY SharedMeansNested
<1> HIDE DEF In
<1>5. ASSUME NEW u \in Tops, NEW v \in Tops, u # v
      PROVE  u \notin In(v)
  <2> SUFFICES ASSUME u \in In(v) PROVE FALSE
    OBVIOUS
  <2>1. u \in Tasks /\ v \in Tasks /\ Known(u) /\ (mem[u].root \/ Stray(u))
    BY DEF Tops
  <2>2. mem[u].parent \in Tasks /\ mem[u].parent \in In(v)
    BY <1>3, <1>5, <2>1
  <2>3. Known(mem[u].parent)
    BY <1>3, <2>1, <2>2 DEF Known, Alive
  <2>4. mem[u].parent # None
    BY <2>2, OrchestratorAssumption
  <2>5. ~mem[u].root
    BY <2>1, <2>4 DEF Forest, Known
  <2> QED
    BY <2>1, <2>3, <2>5 DEF Stray
<1>6. a \in Tasks /\ b \in Tasks
  BY DEF Tops
<1>7. t \in In(a) /\ t \in Tasks
  BY <1>3, <1>6 DEF In
<1>8. t \notin In(b)
  BY <1>4, <1>5, <1>6, <1>7
<1> QED
  BY <1>8 DEF In

LEMMA ForestIsSound ==
    ASSUME mem \in Stores, NEW ids, Forest(mem, ids)
    PROVE  EveryTaskInOneTree
<1> SUFFICES ASSUME NEW t \in Tasks, Known(t)
             PROVE  \E top \in Tops : /\ Cardinality(Places(t, top)) = 1
                                      /\ \A other \in Tops \ {top} : Places(t, other) = {}
  BY DEF EveryTaskInOneTree
<1> DEFINE tree == TaskTree(mem)
<1>1. PICK top \in Tops : t \in ToSet(tree[top])
  BY TopsCover
<1>2. IsInjective(tree[top])
  BY NoTaskTwice DEF Tops
<1>3. \A other \in Tops \ {top} : t \notin ToSet(tree[other])
  BY <1>1, TopsApart
<1>4. \A u : Places(t, u) = {i \in DOMAIN tree[u] : tree[u][i] = t}
  BY DEF Places
<1> HIDE DEF tree
<1>5. Cardinality(Places(t, top)) = 1
  <2>1. PICK i \in DOMAIN tree[top] : tree[top][i] = t
    BY <1>1 DEF ToSet
  <2>2. Places(t, top) = {i}
    BY <1>2, <1>4, <2>1 DEF IsInjective
  <2> QED
    BY <2>2, FS_Singleton
<1>6. \A other \in Tops \ {top} : Places(t, other) = {}
  BY <1>3, <1>4 DEF ToSet
<1> QED
  BY <1>5, <1>6
-----------------------------------------------------------------------------
(* A change that leaves the links alone leaves the forest alone.             *)
SameLinks(store, next) ==
    \A t \in Tasks :
        /\ next[t] = None <=> store[t] = None
        /\ store[t] # None =>
               /\ next[t].parent = store[t].parent /\ next[t].subs = store[t].subs
               /\ next[t].root = store[t].root /\ next[t].registered = store[t].registered

LEMMA ForestKept ==
    ASSUME NEW store \in Stores, NEW next, NEW ids, NEW more, Forest(store, ids), SameLinks(store, next), ids \subseteq more
    PROVE  Forest(next, more)
<1>1. \A t \in Tasks : store[t] # None => Subs(next, t) = Subs(store, t) /\ Subs(store, t) \subseteq Tasks
  BY SubsAreTasks DEF SameLinks, Subs
<1>2. \A t \in Tasks : Alive(next, t) <=> Alive(store, t)
  BY DEF SameLinks, Alive
<1>3. Deep(next)
  <2>1. \A bound \in Nat : \A depth \in [Tasks -> 0 .. bound] : Deepens(store, depth) => Deepens(next, depth)
    BY DEF Deepens, SameLinks
  <2> QED
    BY <2>1 DEF Forest, Deep
<1>4. ASSUME NEW t \in Tasks, next[t] # None
      PROVE  /\ t \in more /\ next[t].parent \in more \cup {None}
             /\ next[t].root <=> next[t].parent = None
             /\ IsInjective(next[t].subs)
             /\ \A s \in Subs(next, t) : next[s] # None /\ next[s].parent = t
  <2>1. store[t] # None /\ next[t].parent = store[t].parent /\ next[t].subs = store[t].subs
        /\ next[t].root = store[t].root
    BY <1>4 DEF SameLinks
  <2>2. \A s \in Subs(store, t) : store[s] # None /\ store[s].parent = t /\ s \in Tasks
    BY <1>1, <2>1 DEF Forest
  <2>3. \A s \in Subs(next, t) : next[s] # None /\ next[s].parent = t
    BY <1>1, <2>1, <2>2 DEF SameLinks
  <2> QED
    BY <2>1, <2>3 DEF Forest
<1>5. ASSUME NEW t \in Tasks, NEW p \in Tasks, Alive(next, t), next[t].parent = p, Alive(next, p)
      PROVE  t \in Subs(next, p)
  <2>1. Alive(store, t) /\ Alive(store, p) /\ store[t].parent = p
    BY <1>2, <1>5 DEF SameLinks, Alive
  <2>2. t \in Subs(store, p)
    BY <2>1 DEF Forest
  <2> QED
    BY <1>1, <2>1, <2>2 DEF Alive
<1> QED
  BY <1>3, <1>4, <1>5 DEF Forest

LEMMA ForestEmpty ==
    ASSUME NEW ids
    PROVE  Forest(Empty, ids)
<1>1. \A t \in Tasks : Empty[t] = None
  BY DEF Empty
<1>2. [t \in Tasks |-> 0] \in [Tasks -> 0 .. 0] /\ Deepens(Empty, [t \in Tasks |-> 0])
  BY <1>1 DEF Deepens
<1>3. Deep(Empty)
  BY <1>2 DEF Deep
<1> QED
  BY <1>1, <1>3 DEF Forest, Alive

LEMMA AppendNew ==
    ASSUME NEW q \in Seq(Tasks), NEW x \in Tasks, IsInjective(q), x \notin ToSet(q)
    PROVE  IsInjective(Append(q, x)) /\ ToSet(Append(q, x)) = ToSet(q) \cup {x}
<1> DEFINE one == <<x>>
<1>1. Append(q, x) = q \o one
  BY AppendIsConcat
<1>2. one \in Seq(Tasks) /\ ToSet(one) = {x} /\ IsInjective(one)
  BY DEF ToSet, IsInjective
<1> HIDE DEF one
<1>3. ToSet(q) \cap ToSet(one) = {}
  BY <1>2
<1> QED
  BY <1>1, <1>2, <1>3, ConcatMembers, ConcatInjective

(* A new task hangs under its parent or, where the orchestrator does not know *)
(* the parent or does not hear of the task, under no one.                    *)
LEMMA LeafAdded ==
    ASSUME NEW store \in Stores, NEW ids \in SUBSET Tasks, Forest(store, ids),
           NEW t \in Tasks \ ids, NEW p \in ids \cup {None}, NEW new \in TaskState,
           new.parent = p, new.subs = <<>>, new.root <=> p = None,
           NEW adopted \in BOOLEAN, adopted => p # None /\ store[p] # None,
           new.registered /\ p # None /\ Alive(store, p) => adopted,
           NEW next,
           next = IF adopted THEN [[store EXCEPT ![t] = new] EXCEPT ![p].subs = Append(@, t)]
                  ELSE [store EXCEPT ![t] = new]
    PROVE  Forest(next, ids \cup {t})
<1>0. None \notin Tasks /\ None \notin TaskState
  BY OrchestratorAssumption
<1>1. store[t] = None /\ t # p /\ new # None
  BY <1>0 DEF Forest
<1>2. next[t] = new
  BY <1>1 DEF Stores
<1>3. ASSUME NEW u \in Tasks, u # t
      PROVE  /\ next[u] = None <=> store[u] = None
             /\ store[u] # None =>
                    /\ next[u].parent = store[u].parent /\ next[u].root = store[u].root
                    /\ next[u].registered = store[u].registered
                    /\ next[u].subs = IF adopted /\ u = p THEN Append(store[u].subs, t) ELSE store[u].subs
  <2>1. CASE adopted /\ u = p
    <3>1. store[u] \in TaskState /\ [store EXCEPT ![t] = new][u] = store[u] /\ u \in DOMAIN store
      BY <1>0, <1>3, <2>1 DEF Stores
    <3>2. next[u] = [store[u] EXCEPT !.subs = Append(@, t)]
      BY <2>1, <3>1 DEF Stores
    <3>3. next[u] \in TaskState
      BY <3>1, <3>2, GainsSubtask
    <3> QED
      BY <1>0, <2>1, <3>1, <3>2, <3>3 DEF TaskState
  <2>2. CASE ~(adopted /\ u = p)
    <3>1. next[u] = store[u]
      BY <1>0, <1>3, <2>2 DEF Stores
    <3> QED
      BY <2>2, <3>1
  <2> QED
    BY <2>1, <2>2
<1>4. ASSUME NEW u \in Tasks, u # t, store[u] # None
      PROVE  /\ Subs(next, u) = Subs(store, u) \cup (IF adopted /\ u = p THEN {t} ELSE {})
             /\ IsInjective(next[u].subs) /\ Subs(store, u) \subseteq Tasks /\ t \notin Subs(store, u)
  <2>1. store[u].subs \in Seq(Tasks) /\ IsInjective(store[u].subs) /\ Subs(store, u) \subseteq Tasks
    BY <1>4, SubsAreTasks DEF Forest
  <2>2. t \notin ToSet(store[u].subs)
    BY <1>1, <1>4 DEF Forest, Subs
  <2>3. /\ IsInjective(Append(store[u].subs, t))
        /\ ToSet(Append(store[u].subs, t)) = ToSet(store[u].subs) \cup {t}
    BY <2>1, <2>2, AppendNew
  <2>4. CASE adopted /\ u = p
    <3>1. next[u].subs = Append(store[u].subs, t)
      BY <1>3, <1>4, <2>4
    <3> QED
      BY <2>1, <2>2, <2>3, <2>4, <3>1 DEF Subs
  <2>5. CASE ~(adopted /\ u = p)
    <3>1. next[u].subs = store[u].subs
      BY <1>3, <1>4, <2>5
    <3> QED
      BY <2>1, <2>2, <2>5, <3>1 DEF Subs
  <2> QED
    BY <2>4, <2>5
<1>5. Subs(next, t) = {} /\ IsInjective(next[t].subs)
  <2>1. next[t].subs = <<>>
    BY <1>2
  <2>2. ToSet(<<>>) = {} /\ IsInjective(<<>>)
    BY DEF ToSet, IsInjective
  <2> QED
    BY <2>1, <2>2 DEF Subs
<1>6. Deep(next)
  <2>1. PICK bound \in Nat : \E depth \in [Tasks -> 0 .. bound] : Deepens(store, depth)
    BY DEF Forest, Deep
  <2>2. PICK depth \in [Tasks -> 0 .. bound] : Deepens(store, depth)
    BY <2>1
  <2> DEFINE d == [u \in Tasks |-> IF u = t THEN bound + 1 ELSE depth[u]]
  <2>3. d \in [Tasks -> 0 .. bound + 1]
    <3>1. \A u \in Tasks : depth[u] \in 0 .. bound + 1
      <4> TAKE u \in Tasks
      <4>1. depth[u] \in 0 .. bound
        OBVIOUS
      <4> QED
        BY <4>1
    <3>2. bound + 1 \in 0 .. bound + 1
      OBVIOUS
    <3> QED
      BY <3>1, <3>2
  <2>4. ASSUME NEW u \in Tasks, NEW v \in Tasks, next[u] # None, next[u].parent = v
        PROVE  d[v] < d[u]
    <3>1. v # t
      <4>1. CASE u = t
        BY <1>1, <1>2, <2>4, <4>1
      <4>2. CASE u # t
        <5>1. store[u] # None /\ store[u].parent = v
          BY <1>3, <2>4, <4>2
        <5>2. v \in ids \cup {None}
          BY <5>1 DEF Forest
        <5> QED
          BY <1>0, <5>2
      <4> QED
        BY <4>1, <4>2
    <3>2. depth[v] \in 0 .. bound /\ d[v] = depth[v]
      BY <3>1
    <3>3. CASE u = t
      <4>1. d[u] = bound + 1
        BY <3>3
      <4> HIDE DEF d
      <4> QED
        BY <3>2, <4>1
    <3>4. CASE u # t
      <4>1. store[u] # None /\ store[u].parent = v
        BY <1>3, <2>4, <3>4
      <4>2. depth[v] < depth[u] /\ d[u] = depth[u]
        BY <2>2, <3>4, <4>1 DEF Deepens
      <4> QED
        BY <3>2, <4>2
    <3> QED
      BY <3>3, <3>4
  <2>5. Deepens(next, d)
    <3> HIDE DEF d
    <3> QED
      BY ONLY <2>4 DEF Deepens
  <2>6. bound + 1 \in Nat
    OBVIOUS
  <2> HIDE DEF d
  <2> QED
    BY <2>3, <2>5, <2>6 DEF Deep
<1>7. ASSUME NEW u \in Tasks, next[u] # None
      PROVE  /\ u \in ids \cup {t} /\ next[u].parent \in ids \cup {t} \cup {None}
             /\ next[u].root <=> next[u].parent = None
             /\ IsInjective(next[u].subs)
             /\ \A s \in Subs(next, u) : next[s] # None /\ next[s].parent = u
  <2>1. CASE u = t
    BY <1>2, <1>5, <2>1
  <2>2. CASE u # t
    <3>1. store[u] # None /\ next[u].parent = store[u].parent /\ next[u].root = store[u].root
      BY <1>3, <1>7, <2>2
    <3>2. \A s \in Subs(store, u) : s \in Tasks /\ s # t /\ store[s] # None /\ store[s].parent = u
      BY <1>4, <2>2, <3>1 DEF Forest
    <3>3. \A s \in Subs(store, u) : next[s] # None /\ next[s].parent = u
      BY <1>3, <3>2
    <3>4. adopted /\ u = p => next[t] # None /\ next[t].parent = u
      BY <1>1, <1>2
    <3>5. \A s \in Subs(next, u) : next[s] # None /\ next[s].parent = u
      BY <1>4, <2>2, <3>1, <3>3, <3>4
    <3> QED
      BY <1>4, <2>2, <3>1, <3>5 DEF Forest
  <2> QED
    BY <2>1, <2>2
<1>8. ASSUME NEW u \in Tasks, NEW v \in Tasks, Alive(next, u), next[u].parent = v, Alive(next, v)
      PROVE  u \in Subs(next, v)
  <2>1. CASE u = t
    <3>1. v = p /\ p \in Tasks /\ new.registered
      BY <1>2, <1>8, <2>1 DEF Alive
    <3>2. Alive(store, p)
      BY <1>1, <1>3, <1>8, <3>1 DEF Alive
    <3>3. adopted
      BY <1>0, <3>1, <3>2
    <3> QED
      BY <1>1, <1>4, <2>1, <3>1, <3>2, <3>3 DEF Alive
  <2>2. CASE u # t
    <3>1. Alive(store, u) /\ store[u].parent = v
      BY <1>3, <1>8, <2>2 DEF Alive
    <3>2. v # t
      <4>1. v \in ids \cup {None}
        BY <3>1 DEF Forest, Alive
      <4> QED
        BY <1>0, <4>1
    <3>3. Alive(store, v)
      BY <1>3, <1>8, <3>2 DEF Alive
    <3>4. u \in Subs(store, v)
      BY <3>1, <3>3 DEF Forest
    <3> QED
      BY <1>4, <3>2, <3>3, <3>4 DEF Alive
  <2> QED
    BY <2>1, <2>2
<1> QED
  BY <1>6, <1>7, <1>8 DEF Forest

(* What a call or the holder of a task does to the links.                    *)
LEMMA LinksOfUpdate ==
    ASSUME mem \in Stores, NEW t \in Tasks, mem[t] # None, NEW task \in TaskState,
           task.parent = mem[t].parent, task.subs = mem[t].subs,
           task.root = mem[t].root, task.registered = mem[t].registered
    PROVE  SameLinks(mem, [mem EXCEPT ![t] = task])
<1>1. task # None
  BY OrchestratorAssumption
<1>2. \A u \in Tasks : [mem EXCEPT ![t] = task][u] = IF u = t THEN task ELSE mem[u]
  BY DEF Stores
<1> QED
  BY <1>1, <1>2 DEF SameLinks

LEMMA ChangeKeepsForest ==
    ASSUME MemInv, Forest(mem, made), NEW t \in Tasks, TaskCall(t) \/ TaskHolder(t)
    PROVE  Forest(mem', made') /\ made \subseteq made'
<1> USE DEF MemInv
<1>1. mem[t] # None => mem[t] \in TaskState
  BY DEF Stores
<1>2. ASSUME NEW parent \in made \cup {None}, CreateTask(t, parent)
      PROVE  Forest(mem', made') /\ made \subseteq made'
  <2> DEFINE new == [NewTask(parent) EXCEPT !.root = (parent = None)]
             adopted == parent # None /\ Known(parent)
  <2>1. NewTask(parent) \in TaskState /\ (parent = None) \in BOOLEAN
    BY <1>2, NewTaskTyped
  <2>2. new \in TaskState
    BY <2>1, FlagTyped
  <2>3. new.parent = parent /\ new.subs = <<>> /\ (new.root <=> parent = None)
    BY DEF NewTask
  <2>4. adopted \in BOOLEAN /\ (adopted => parent # None /\ mem[parent] # None)
        /\ (new.registered /\ parent # None /\ Alive(mem, parent) => adopted)
    BY DEF Known, Alive
  <2>5. mem' = IF adopted THEN [[mem EXCEPT ![t] = new] EXCEPT ![parent].subs = Append(@, t)]
               ELSE [mem EXCEPT ![t] = new]
    BY <1>2 DEF CreateTask, Saves
  <2>6. t \in Tasks \ made /\ made' = made \cup {t} /\ made \in SUBSET Tasks
    BY <1>2 DEF CreateTask
  <2>7. parent \in made \cup {None} /\ mem \in Stores /\ Forest(mem, made)
    OBVIOUS
  <2> HIDE DEF new, adopted
  <2>8. Forest(mem', made \cup {t})
    <3>0. TRUE \in BOOLEAN /\ FALSE \in BOOLEAN
      OBVIOUS
    <3>1. CASE adopted
      <4>1. mem' = IF TRUE THEN [[mem EXCEPT ![t] = new] EXCEPT ![parent].subs = Append(@, t)]
                   ELSE [mem EXCEPT ![t] = new]
        BY <2>5, <3>1
      <4>2. TRUE => parent # None /\ mem[parent] # None
        BY <2>4, <3>1
      <4>3. new.registered /\ parent # None /\ Alive(mem, parent) => TRUE
        OBVIOUS
      <4> QED
        BY ONLY <2>2, <2>3, <2>6, <2>7, <3>0, <4>1, <4>2, <4>3, LeafAdded
    <3>2. CASE ~adopted
      <4>1. mem' = IF FALSE THEN [[mem EXCEPT ![t] = new] EXCEPT ![parent].subs = Append(@, t)]
                   ELSE [mem EXCEPT ![t] = new]
        BY <2>5, <3>2
      <4>2. FALSE => parent # None /\ mem[parent] # None
        OBVIOUS
      <4>3. new.registered /\ parent # None /\ Alive(mem, parent) => FALSE
        BY <2>4, <3>2
      <4> QED
        BY ONLY <2>2, <2>3, <2>6, <2>7, <3>0, <4>1, <4>2, <4>3, LeafAdded
    <3> QED
      BY <3>1, <3>2
  <2> QED
    BY <2>6, <2>8
<1>3. ASSUME NEW sub \in Tasks, AddSubtask(t, sub)
      PROVE  Forest(mem', made') /\ made \subseteq made'
  <2> DEFINE new == [NewTask(t) EXCEPT !.registered = FALSE]
  <2>1. NewTask(t) \in TaskState
    BY NewTaskTyped
  <2>2. new \in TaskState
    BY <2>1, FlagTyped
  <2>3. new.parent = t /\ new.subs = <<>> /\ (new.root <=> t = None) /\ ~new.registered
    BY OrchestratorAssumption DEF NewTask
  <2>4. mem' = [[mem EXCEPT ![sub] = new] EXCEPT ![t].subs = Append(@, sub)]
    BY <1>3 DEF AddSubtask, Held
  <2>5. sub \in Tasks \ made /\ made' = made \cup {sub} /\ made \in SUBSET Tasks /\ mem[t] # None
    BY <1>3 DEF AddSubtask
  <2>6. t \in made \cup {None} /\ t # None
    BY <2>5, OrchestratorAssumption DEF Forest
  <2>7. mem' = IF TRUE THEN [[mem EXCEPT ![sub] = new] EXCEPT ![t].subs = Append(@, sub)]
               ELSE [mem EXCEPT ![sub] = new]
    BY <2>4
  <2>8. TRUE \in BOOLEAN
    OBVIOUS
  <2> HIDE DEF new
  <2>9. Forest(mem', made \cup {sub})
    BY <2>2, <2>3, <2>5, <2>6, <2>7, <2>8, LeafAdded
  <2> QED
    BY <2>5, <2>9
<1>4. ASSUME NEW task \in TaskState, mem[t] # None, mem' = [mem EXCEPT ![t] = task], UNCHANGED made,
             task.parent = mem[t].parent, task.subs = mem[t].subs,
             task.root = mem[t].root, task.registered = mem[t].registered
      PROVE  Forest(mem', made') /\ made \subseteq made'
  <2>1. SameLinks(mem, mem')
    BY <1>4, LinksOfUpdate
  <2> QED
    BY <1>4, <2>1, ForestKept
<1> DEFINE Links(task) == /\ task \in TaskState /\ mem[t] # None
                          /\ task.parent = mem[t].parent /\ task.subs = mem[t].subs
                          /\ task.root = mem[t].root /\ task.registered = mem[t].registered
<1>5. StartTask(t) => \E task : Links(task) /\ Update(t, task)
  BY <1>1 DEF StartTask, Known, TaskState
<1>6. FailTask(t) => \E task : Links(task) /\ Update(t, task)
  BY <1>1 DEF FailTask, Known, TaskState
<1>7. CancelTask(t) => \E task : Links(task) /\ Update(t, task)
  BY <1>1 DEF CancelTask, Known, TaskState
<1>8. ASSUME NEW outcome \in BOOLEAN, CompleteTask(t, outcome)
      PROVE  \E task : Links(task) /\ Update(t, task)
  BY <1>1, <1>8 DEF CompleteTask, Known, TaskState
<1>9. ASSUME NEW outcome \in BOOLEAN, mem[t] # None
      PROVE  Links(Counted(mem[t], outcome))
  <2>1. mem[t] \in TaskState /\ Counted(mem[t], outcome) \in TaskState
    BY <1>1, <1>9, CountedTyped
  <2> QED
    BY <1>9, <2>1 DEF Counted, TaskState
<1>10. ASSUME NEW outcome \in BOOLEAN, AddTestResult(t, outcome)
       PROVE  \E task : Links(task) /\ Update(t, task)
  BY <1>9, <1>10 DEF AddTestResult, Known
<1>11. HolderChanges(t) => \E task : Links(task) /\ mem' = [mem EXCEPT ![t] = task] /\ UNCHANGED made
  <2> SUFFICES ASSUME HolderChanges(t)
               PROVE  \E task : Links(task) /\ mem' = [mem EXCEPT ![t] = task] /\ UNCHANGED made
    OBVIOUS
  <2>1. mem[t] # None /\ mem[t] \in TaskState /\ UNCHANGED made
    BY <1>1 DEF HolderChanges
  <2>2. CASE Held([mem EXCEPT ![t] = [@ EXCEPT !.patched = TRUE]])
    <3>1. Links([mem[t] EXCEPT !.patched = TRUE])
      BY <2>1 DEF TaskState
    <3> QED
      BY <2>1, <2>2, <3>1 DEF Held
  <2>3. CASE Held([mem EXCEPT ![t] = [@ EXCEPT !.lasting = ~@]])
    <3>1. \A flag \in BOOLEAN : Links([mem[t] EXCEPT !.lasting = flag])
      BY <2>1 DEF TaskState
    <3>2. mem[t].lasting \in BOOLEAN
      BY <2>1 DEF TaskState
    <3> HIDE DEF Links
    <3>3. \E task : Links(task) /\ Held([mem EXCEPT ![t] = task])
      BY <2>1, <2>3, <3>1, <3>2
    <3> QED
      BY <2>1, <3>3 DEF Held
  <2>4. CASE \E passed \in BOOLEAN : Held([mem EXCEPT ![t] = Counted(@, passed)])
    BY <1>9, <2>1, <2>4 DEF Held
  <2> QED
    BY <2>2, <2>3, <2>4 DEF HolderChanges
<1>12. ASSUME NEW task, Links(task), Update(t, task) \/ (mem' = [mem EXCEPT ![t] = task] /\ UNCHANGED made)
       PROVE  Forest(mem', made') /\ made \subseteq made'
  <2>1. mem' = [mem EXCEPT ![t] = task] /\ UNCHANGED made
    BY <1>12 DEF Update, Saves
  <2> QED
    BY <1>4, <1>12, <2>1
<1> HIDE DEF Links
<1> QED
  BY <1>2, <1>3, <1>5, <1>6, <1>7, <1>8, <1>10, <1>11, <1>12 DEF TaskCall, TaskHolder
-----------------------------------------------------------------------------
(* The tasks in memory are a forest, and so are the ones a load would find.   *)
ForestInv ==
    /\ Forest(mem, made)
    /\ disk \notin {None, Torn} => Forest(disk, made)

LEMMA ForestInitial == Init => ForestInv
  BY ForestEmpty DEF Init, StoreInit, ForestInv

LEMMA SameForest ==
    ASSUME NEW store \in Stores, NEW ids, NEW more, Forest(store, ids), ids \subseteq more
    PROVE  Forest(store, more)
<1>1. SameLinks(store, store)
  BY DEF SameLinks
<1> QED
  BY <1>1, ForestKept

LEMMA ForestStep == StoreInv /\ ForestInv /\ [Next]_vars => ForestInv'
<1> SUFFICES ASSUME StoreInv, ForestInv, [Next]_vars
             PROVE  ForestInv'
  OBVIOUS
<1>1. MemInv /\ disk \in Stores \cup {None, Torn}
  BY DEF StoreInv
<1> USE DEF ForestInv
<1>2. ASSUME NEW t \in Tasks, TaskCall(t) \/ TaskHolder(t)
      PROVE  ForestInv'
  <2>1. Forest(mem', made') /\ made \subseteq made' /\ UNCHANGED disk
    BY <1>1, <1>2, ChangeKeepsForest, CallKeepsMem
  <2>2. disk \notin {None, Torn} => Forest(disk, made')
    BY <1>1, <2>1, SameForest
  <2> QED
    BY <2>1, <2>2
<1>3. CASE Reset
  BY <1>3, ForestEmpty DEF Reset, Saves
<1>4. CASE SaveOpen
  BY <1>4 DEF SaveOpen
<1>5. CASE SaveDump
  BY <1>5 DEF SaveDump
<1>6. CASE SaveFails
  BY <1>6 DEF SaveFails
<1>7. CASE Crash
  BY <1>7, ForestEmpty DEF Crash
<1>8. CASE LoadState
  BY <1>8, ForestEmpty DEF LoadState
<1>9. CASE UNCHANGED storeVars
  BY <1>9
<1> QED
  BY <1>2, <1>3, <1>4, <1>5, <1>6, <1>7, <1>8, <1>9, StoreOrNothing DEF StoreNext

(* Every task the orchestrator knows is in exactly one place of exactly one  *)
(* tree, for any tasks and any number of calls, crashes and restarts         *)
(* (create_task, add_subtask, get_task_tree, load_state).                    *)
THEOREM TasksAreInOneTree == Spec => []EveryTaskInOneTree
<1>1. StoreInv /\ ForestInv => EveryTaskInOneTree
  BY ForestIsSound DEF StoreInv, MemInv, ForestInv
<1>2. Init => StoreInv /\ ForestInv
  BY StoreInitial, ForestInitial
<1>3. StoreInv /\ ForestInv /\ [Next]_vars => (StoreInv /\ ForestInv)'
  BY StoreStepInv, ForestStep
<1> QED
  BY <1>1, <1>2, <1>3, PTL DEF Spec
-----------------------------------------------------------------------------
(* A verdict says of the task it has seen what the criteria say, and an      *)
(* output repeats its verdict beside the numbers of the task it has seen.    *)
HonestVerdict(v) == v.seen \in TaskState /\ (v.success => ComputeOverallSuccess(v.seen))

HonestOutput(o) ==
    /\ o.success => o.verdict.success
    /\ HonestVerdict(o.verdict)
    /\ o.status = o.seen.status
    /\ o.passed = o.seen.passed
    /\ o.tests = o.seen.passed + o.seen.failed

PipeInv ==
    /\ verdict # None => HonestVerdict(verdict)
    /\ output # None => HonestOutput(output)

(* The criteria a successful task meets.                                     *)
LEMMA SuccessMeans ==
    ASSUME NEW task \in TaskState, ComputeOverallSuccess(task)
    PROVE  task.status = "completed" /\ task.passed = task.passed + task.failed
<1>1. (task.status = "completed") \in Criteria(task)
  BY DEF Criteria
<1>2. task.status = "completed"
  BY <1>1 DEF ComputeOverallSuccess
<1>3. CASE task.passed + task.failed > 0
  <2>1. (task.failed = 0) \in Criteria(task)
    BY <1>3 DEF Criteria
  <2>2. task.failed = 0
    BY <2>1 DEF ComputeOverallSuccess
  <2> QED
    BY <1>2, <2>2 DEF TaskState
<1>4. CASE ~(task.passed + task.failed > 0)
  BY <1>2, <1>4 DEF TaskState
<1> QED
  BY <1>3, <1>4

LEMMA JudgedHonestly ==
    ASSUME MemInv, NEW t \in Tasks, mem[t] # None
    PROVE  HonestVerdict(Judged(t))
  BY DEF MemInv, Stores, HonestVerdict, Judged

LEMMA FinalizedHonestly ==
    ASSUME NEW t \in Tasks, HonestVerdict(verdict)
    PROVE  HonestOutput(FinalOutput(t))
  BY DEF HonestOutput, FinalOutput, HonestVerdict

LEMMA PipeStepInv == StoreInv /\ PipeInv /\ [Next]_vars => PipeInv'
<1> SUFFICES ASSUME StoreInv, PipeInv, [Next]_vars
             PROVE  PipeInv'
  OBVIOUS
<1> USE DEF PipeInv
<1>1. CASE StoreStep
  BY <1>1 DEF StoreStep, HonestVerdict, HonestOutput
<1>2. ASSUME NEW t \in Tasks, JudgeTaskCompletion(t)
      PROVE  PipeInv'
  BY <1>2, JudgedHonestly DEF JudgeTaskCompletion, StoreInv
<1>3. ASSUME NEW t \in Tasks, GenerateTaskReport(t)
      PROVE  PipeInv'
  BY <1>3 DEF GenerateTaskReport
<1>4. ASSUME NEW t \in Tasks, FinalizeTask(t)
      PROVE  PipeInv'
  BY <1>4, FinalizedHonestly DEF FinalizeTask
<1>5. CASE ClearReports
  BY <1>5 DEF ClearReports
<1>6. CASE UNCHANGED <<storeVars, pipeVars>>
  BY <1>6
<1> QED
  BY <1>1, <1>2, <1>3, <1>4, <1>5, <1>6, StepCases DEF PipeNext

(* No output claims success beside numbers that refute it, unless the task   *)
(* changed after its verdict, whatever the calls and crashes before it       *)
(* (judge.py, finalizer.py).                                                 *)
THEOREM OutputsAreEarned == Spec => []SuccessIsEarned
<1>1. Init => PipeInv
  BY DEF Init, PipeInit, PipeInv
<1>2. PipeInv => SuccessIsEarned
  BY SuccessMeans DEF PipeInv, SuccessIsEarned, HonestOutput, HonestVerdict
<1> QED
  BY <1>1, <1>2, StoreInitial, StoreStepInv, PipeStepInv, PTL DEF Spec
-----------------------------------------------------------------------------
(* Only plans of the agent wait for the critic, and what it found last is    *)
(* what it finds in that plan.                                               *)
ReviewInv ==
    /\ plans \in Seq(PatchPlan)
    /\ review # None =>
          review.plan \in PatchPlan /\ review.findings = CritiquePatchPlan(review.plan)

LEMMA PlaceholderTyped == PlaceholderPlan \in PatchPlan
  BY DEF PlaceholderPlan, PatchPlan

LEMMA ReviewStepInv == ReviewInv /\ [Next]_vars => ReviewInv'
<1> SUFFICES ASSUME ReviewInv, [Next]_vars
             PROVE  ReviewInv'
  OBVIOUS
<1> USE DEF ReviewInv
<1>1. ASSUME NEW special \in UNION {[1 .. n -> BOOLEAN] : n \in 1 .. 2},
             plans' = SolveProblems(special), UNCHANGED review
      PROVE  ReviewInv'
  <2>1. PICK n \in 1 .. 2 : special \in [1 .. n -> BOOLEAN]
    BY <1>1
  <2>2. plans' \in [1 .. n -> PatchPlan]
    BY <1>1, <2>1, PlaceholderTyped DEF SolveProblems
  <2>3. plans' \in Seq(PatchPlan)
    BY <2>1, <2>2
  <2> QED
    BY <1>1, <2>3
<1>2. ASSUME NEW plan \in PatchPlan, plans' = <<plan>>, UNCHANGED review
      PROVE  ReviewInv'
  BY <1>2
<1>3. CASE Review
  BY <1>3 DEF Review
<1>4. CASE UNCHANGED reviewVars
  BY <1>4
<1> QED
  BY <1>1, <1>2, <1>3, <1>4, StepCases DEF Propose

(* The contents a change asks for are contents it applies to: only a change  *)
(* with something missing applies to none, and that the critic calls high.   *)
LEMMA HopelessIsHigh ==
    ASSUME NEW c \in Change, Hopeless(c), c.type \in Patching!KnownTypes
    PROVE  "high" \in CritiqueChange(c)
<1> USE DEF Hopeless, Patching!Applicable, Patching!Reads, Patching!KnownTypes, Change, CritiqueChange
<1>1. CASE c.type = "modified"
  BY <1>1
<1>2. CASE c.type = "added"
  BY <1>2
<1>3. CASE c.type = "deleted"
  BY <1>3
<1> QED
  BY <1>1, <1>2, <1>3

(* A change of a type the patch manager knows that it refuses whatever the   *)
(* file holds is a finding of high severity, in every plan under review      *)
(* (critic.py, patch_manager.py).                                            *)
THEOREM HopelessPlansAreCaught == Spec => []CriticCatchesHopeless
<1>1. Init => ReviewInv
  BY DEF Init, ReviewInit, ReviewInv
<1>2. ReviewInv => CriticCatchesHopeless
  <2> SUFFICES ASSUME ReviewInv, review # None, NEW i \in DOMAIN review.plan.changes,
                      Hopeless(review.plan.changes[i]),
                      review.plan.changes[i].type \in Patching!KnownTypes
               PROVE  "high" \in review.findings
    BY DEF CriticCatchesHopeless
  <2> DEFINE plan == review.plan
  <2>1. plan \in PatchPlan /\ review.findings = CritiquePatchPlan(plan)
    BY DEF ReviewInv
  <2>2. plan.changes # <<>> /\ plan.changes[i] \in Change
    BY <2>1 DEF PatchPlan
  <2>3. "high" \in CritiqueChange(plan.changes[i])
    BY <2>2, HopelessIsHigh
  <2>4. "high" \in UNION {CritiqueChange(plan.changes[j]) : j \in DOMAIN plan.changes}
    BY <2>3
  <2> QED
    BY <2>1, <2>2, <2>4 DEF CritiquePatchPlan
<1> QED
  BY <1>1, <1>2, ReviewStepInv, PTL DEF Spec
-----------------------------------------------------------------------------
(* The patch manager.  The first invariant says where a call may have left   *)
(* its marks.  While a plan is applied, only files the plan names differ     *)
(* from the snapshot, and the changes still to come name files of the plan.  *)
(* While it is restored, only files still to be restored differ.  The others *)
(* follow the changes of a patch: what each of them asked for, and found,    *)
(* when it ran, and which of them a rollback has undone.                     *)
Given == Contents \cup {Nothing}

Stored == Contents \cup {Nothing, CutShort}

Files == [Paths -> Stored]

AnyChange == [path : Paths, type : ChangeTypes, old : Given, new : Given]

Touched(todo) == {todo[i].path : i \in DOMAIN todo}

Differ(p) == files[p] # patching.before[p]

Steps == {"idle", "apply", "restore", "undo", "returned", "undone", "crashed"}

CallType ==
    [at : Steps, todo : Seq(AnyChange), plan : Seq(AnyChange),
     before : Files \cup {<<>>}, patch : Nat, ok : BOOLEAN]

PatchType == [plan : Seq(AnyChange), before : Files, after : Files]

PatchTypes ==
    /\ files \in Files
    /\ patching \in CallType
    /\ applied \in Seq(PatchType)

(* A call that has a snapshot to go back to. *)
HasSnapshot == patching.at \in {"apply", "restore"} => patching.before \in Files

ApplyMarks ==
    Busy("apply") =>
        /\ patching.ok
        /\ Touched(patching.todo) \subseteq Touched(patching.plan)
        /\ \A p \in Paths : Differ(p) => p \in Touched(patching.plan)

RestoreMarks ==
    Busy("restore") => \A p \in Paths : Differ(p) => p \in Touched(patching.todo)

PatchInv == PatchTypes /\ HasSnapshot /\ ApplyMarks /\ RestoreMarks /\ FailureRestoresAll
-----------------------------------------------------------------------------
(* A list of changes that is not empty has a first change, and the files    *)
(* it names are that of the first and those of the others.                  *)
LEMMA FirstAndOthers ==
    ASSUME NEW todo \in Seq(AnyChange), todo # <<>>
    PROVE  /\ Head(todo) \in AnyChange
           /\ Tail(todo) \in Seq(AnyChange)
           /\ Touched(todo) = {Head(todo).path} \cup Touched(Tail(todo))
<1>1. Head(todo) \in AnyChange /\ Tail(todo) \in Seq(AnyChange)
  OBVIOUS
<1>2. /\ Len(todo) \in Nat \ {0}
      /\ DOMAIN todo = 1 .. Len(todo)
      /\ DOMAIN Tail(todo) = 1 .. Len(todo) - 1
      /\ Head(todo) = todo[1]
      /\ \A i \in 1 .. Len(todo) - 1 : Tail(todo)[i] = todo[i + 1]
  OBVIOUS
<1>3. ASSUME NEW p \in Touched(todo)
      PROVE  p \in {Head(todo).path} \cup Touched(Tail(todo))
  <2>1. PICK i \in 1 .. Len(todo) : p = todo[i].path
    BY <1>2, <1>3 DEF Touched
  <2>2. CASE i = 1
    BY <1>2, <2>1, <2>2
  <2>3. CASE i # 1
    <3>1. i - 1 \in 1 .. Len(todo) - 1 /\ Tail(todo)[i - 1] = todo[i]
      BY <1>2, <2>1, <2>3
    <3> QED
      BY <1>2, <2>1, <3>1 DEF Touched
  <2> QED
    BY <2>2, <2>3
<1>4. ASSUME NEW p \in {Head(todo).path} \cup Touched(Tail(todo))
      PROVE  p \in Touched(todo)
  <2>1. CASE p = Head(todo).path
    BY <1>2, <2>1 DEF Touched
  <2>2. CASE p \in Touched(Tail(todo))
    <3>1. PICK i \in 1 .. Len(todo) - 1 : p = Tail(todo)[i].path
      BY <1>2, <2>2 DEF Touched
    <3>2. i + 1 \in 1 .. Len(todo) /\ p = todo[i + 1].path
      BY <1>2, <3>1
    <3> QED
      BY <1>2, <3>2 DEF Touched
  <2> QED
    BY <1>4, <2>1, <2>2
<1> QED
  BY <1>1, <1>3, <1>4

(* What a plan may hold, and what its reverse holds, are changes. *)
LEMMA PlansAreChanges ==
    ASSUME NEW plan \in Plans
    PROVE  plan \in Seq(AnyChange)
<1>1. Changes \subseteq AnyChange /\ MaxPlan \in Nat
  BY PatchAssumption DEF AnyChange, Given, ChangeTypes, KnownTypes
<1>2. PICK n \in 1 .. MaxPlan : plan \in [1 .. n -> Changes]
  BY DEF Plans
<1>3. plan \in [1 .. n -> AnyChange] /\ n \in Nat
  BY <1>1, <1>2
<1> QED
  BY <1>3

(* No change at all is a list of changes. *)
LEMMA NothingToDo == <<>> \in Seq(AnyChange)
OBVIOUS

LEMMA UndoingIsChanges ==
    ASSUME NEW plan \in Seq(AnyChange)
    PROVE  Undoing(plan) \in Seq(AnyChange)
<1>1. Len(plan) \in Nat /\ DOMAIN plan = 1 .. Len(plan)
  OBVIOUS
<1>2. ASSUME NEW c \in AnyChange PROVE ReverseChange(c) \in AnyChange
  BY <1>2 DEF ReverseChange, AnyChange, ChangeTypes, KnownTypes
<1>3. ASSUME NEW i \in 1 .. Len(plan) PROVE Reverse(plan)[i] \in AnyChange
  BY <1>1 DEF Reverse
<1>4. Undoing(plan) \in [1 .. Len(plan) -> AnyChange]
  BY <1>1, <1>2, <1>3 DEF Undoing
<1> QED
  BY <1>1, <1>4

(* What a change does, or leaves when it fails, are files that differ from  *)
(* those before at its path only.                                           *)
LEMMA AppliedTouchesOne ==
    ASSUME NEW fs \in Files, NEW c \in AnyChange, Applicable(c, fs)
    PROVE  /\ Applied(c, fs) \in Files
           /\ \A p \in Paths : p # c.path => Applied(c, fs)[p] = fs[p]
BY DEF Applied, Files, AnyChange, Stored, Given

LEMMA FailedTouchesOne ==
    ASSUME NEW fs \in Files, NEW c \in AnyChange, NEW gs \in Failed(c, fs)
    PROVE  /\ gs \in Files
           /\ \A p \in Paths : p # c.path => gs[p] = fs[p]
<1>1. gs = fs \/ gs = [fs EXCEPT ![c.path] = CutShort]
  BY DEF Failed
<1> QED
  BY <1>1 DEF Files, AnyChange, Stored
-----------------------------------------------------------------------------
LEMMA InitPatch == PatchInit => PatchInv
<1> SUFFICES ASSUME PatchInit PROVE PatchInv
  OBVIOUS
<1>1. patching \in CallType /\ patching.at = "idle"
  BY DEF PatchInit, Idle, CallType, Steps
<1>2. files \in Files /\ applied \in Seq(PatchType)
  BY DEF PatchInit, Files, Stored
<1> QED
  BY <1>1, <1>2 DEF PatchInv, PatchTypes, HasSnapshot, ApplyMarks, RestoreMarks,
     FailureRestoresAll, Busy

(* A step that ends in a place where nothing is said of the files only has  *)
(* to keep the types.                                                       *)
LEMMA TypesAreEnough ==
    ASSUME PatchTypes', patching'.at \in {"idle", "undo", "undone", "crashed"}
    PROVE  PatchInv'
BY DEF PatchInv, HasSnapshot, ApplyMarks, RestoreMarks, FailureRestoresAll, Busy

LEMMA ApplyPatchPlanStep ==
    ASSUME PatchInv, NEW plan \in Plans, ApplyPatchPlan(plan)
    PROVE  PatchInv'
<1>1. plan \in Seq(AnyChange)
  BY PlansAreChanges
<1>2. /\ patching'.at = "apply" /\ patching'.ok /\ patching'.todo = plan
      /\ patching'.plan = plan /\ patching'.before = files
      /\ patching' \in CallType
  BY <1>1 DEF ApplyPatchPlan, Idle, CallType, Steps, PatchInv, PatchTypes
<1>3. PatchTypes'
  BY <1>2 DEF PatchInv, PatchTypes, ApplyPatchPlan
<1>4. \A p \in Paths : ~Differ(p)'
  BY <1>2 DEF Differ, ApplyPatchPlan
<1> QED
  BY <1>2, <1>3, <1>4 DEF PatchInv, PatchTypes, HasSnapshot, ApplyMarks, RestoreMarks,
     FailureRestoresAll, Busy, ApplyPatchPlan

LEMMA RollbackPatchStep ==
    ASSUME PatchInv, NEW i \in DOMAIN applied, RollbackPatch(i)
    PROVE  PatchInv'
<1>1. applied[i] \in PatchType /\ i \in Nat
  BY DEF PatchInv, PatchTypes
<1>2. Undoing(applied[i].plan) \in Seq(AnyChange)
  BY <1>1, UndoingIsChanges DEF PatchType
<1>3. patching' \in CallType /\ patching'.at = "undo"
  BY <1>1, <1>2, NothingToDo DEF RollbackPatch, Idle, CallType, Steps, PatchInv, PatchTypes
<1>4. PatchTypes'
  BY <1>3 DEF PatchInv, PatchTypes, RollbackPatch
<1> QED
  BY <1>3, <1>4, TypesAreEnough

LEMMA EditStep ==
    ASSUME PatchInv, NEW p \in Paths, NEW content \in Given, Edit(p, content)
    PROVE  PatchInv'
<1>1. PatchTypes'
  BY DEF PatchInv, PatchTypes, Edit, Files, Stored, Given
<1> QED
  BY <1>1, TypesAreEnough DEF Edit, Busy

LEMMA ApplyChangeStep ==
    ASSUME PatchInv, ApplyChange
    PROVE  PatchInv'
<1> DEFINE c == Head(patching.todo)
<1>1. patching.todo \in Seq(AnyChange) /\ patching.todo # <<>> /\ patching \in CallType /\ patching.at = "apply"
  BY DEF PatchInv, PatchTypes, CallType, ApplyChange, Busy
<1>2. /\ c \in AnyChange
      /\ Tail(patching.todo) \in Seq(AnyChange)
      /\ Touched(patching.todo) = {c.path} \cup Touched(Tail(patching.todo))
  BY <1>1, FirstAndOthers
<1>3. /\ files' \in Files
      /\ \A p \in Paths : p # c.path => files'[p] = files[p]
  BY <1>2, AppliedTouchesOne DEF ApplyChange, PatchInv, PatchTypes
<1>4. /\ patching' \in CallType
      /\ patching'.at = "apply" /\ patching'.ok = patching.ok /\ patching'.before = patching.before
      /\ patching'.plan = patching.plan /\ patching'.todo = Tail(patching.todo)
  BY <1>1, <1>2 DEF ApplyChange, CallType
<1>5. \A p \in Paths : Differ(p)' => p \in Touched(patching.plan)
  BY <1>1, <1>2, <1>3, <1>4 DEF Differ, PatchInv, ApplyMarks, Busy
<1> HIDE DEF c
<1> QED
  BY <1>1, <1>2, <1>3, <1>4, <1>5 DEF PatchInv, PatchTypes, HasSnapshot, ApplyMarks,
     RestoreMarks, FailureRestoresAll, Busy, ApplyChange

LEMMA ApplyChangeFailsStep ==
    ASSUME PatchInv, ApplyChangeFails
    PROVE  PatchInv'
<1> DEFINE c == Head(patching.todo)
<1>1. patching.todo \in Seq(AnyChange) /\ patching.todo # <<>> /\ patching \in CallType /\ patching.at = "apply"
  BY DEF PatchInv, PatchTypes, CallType, ApplyChangeFails, Busy
<1>2. c \in AnyChange /\ c.path \in Touched(patching.todo)
  BY <1>1, FirstAndOthers
<1>3. files' = files \/ files' \in Failed(c, files)
  BY DEF ApplyChangeFails
<1>4. /\ files' \in Files
      /\ \A p \in Paths : p # c.path => files'[p] = files[p]
  BY <1>2, <1>3, FailedTouchesOne DEF PatchInv, PatchTypes
<1>5. /\ patching' \in CallType
      /\ patching'.at = "restore" /\ patching'.before = patching.before /\ patching'.todo = patching.plan
  BY <1>1 DEF ApplyChangeFails, CallType, Steps
<1>6. \A p \in Paths : Differ(p)' => p \in Touched(patching.plan)
  BY <1>1, <1>2, <1>4, <1>5 DEF Differ, PatchInv, ApplyMarks, Busy
<1> HIDE DEF c
<1> QED
  BY <1>1, <1>4, <1>5, <1>6 DEF PatchInv, PatchTypes, HasSnapshot, ApplyMarks,
     RestoreMarks, FailureRestoresAll, Busy, ApplyChangeFails

LEMMA ApplyDoneStep ==
    ASSUME PatchInv, ApplyDone
    PROVE  PatchInv'
<1>1. patching \in CallType /\ patching.at = "apply" /\ patching.ok /\ patching.before \in Files
  BY DEF PatchInv, PatchTypes, HasSnapshot, ApplyMarks, ApplyDone, Busy
<1>2. patching' \in CallType /\ patching'.at = "returned" /\ patching'.ok
  BY <1>1 DEF ApplyDone, Finish, CallType, Steps
<1>3. [plan |-> patching.plan, before |-> patching.before, after |-> files] \in PatchType
  BY <1>1 DEF PatchInv, PatchTypes, PatchType, CallType
<1>4. applied' \in Seq(PatchType) /\ files' \in Files
  BY <1>3 DEF ApplyDone, Finish, PatchInv, PatchTypes
<1> QED
  BY <1>2, <1>4 DEF PatchInv, PatchTypes, HasSnapshot, ApplyMarks, RestoreMarks,
     FailureRestoresAll, Busy

LEMMA RestoreFileStep ==
    ASSUME PatchInv, RestoreFile
    PROVE  PatchInv'
<1> DEFINE c == Head(patching.todo)
<1>1. /\ patching.todo \in Seq(AnyChange) /\ patching.todo # <<>>
      /\ patching \in CallType /\ patching.at = "restore" /\ patching.before \in Files
  BY DEF PatchInv, PatchTypes, HasSnapshot, CallType, RestoreFile, Busy
<1>2. /\ c \in AnyChange
      /\ Tail(patching.todo) \in Seq(AnyChange)
      /\ Touched(patching.todo) = {c.path} \cup Touched(Tail(patching.todo))
  BY <1>1, FirstAndOthers
<1>3. c.path \in Paths
  BY <1>2 DEF AnyChange
<1>4. /\ files' \in Files
      /\ files'[c.path] = patching.before[c.path]
      /\ \A p \in Paths : p # c.path => files'[p] = files[p]
  BY <1>1, <1>3 DEF RestoreFile, Restored, PatchInv, PatchTypes, Files
<1>5. /\ patching' \in CallType
      /\ patching'.at = "restore" /\ patching'.before = patching.before
      /\ patching'.todo = Tail(patching.todo)
  BY <1>1, <1>2 DEF RestoreFile, CallType
<1>6. \A p \in Paths : Differ(p)' => p \in Touched(Tail(patching.todo))
  BY <1>1, <1>2, <1>4, <1>5 DEF Differ, PatchInv, RestoreMarks, Busy
<1> HIDE DEF c
<1> QED
  BY <1>1, <1>4, <1>5, <1>6 DEF PatchInv, PatchTypes, HasSnapshot, ApplyMarks,
     RestoreMarks, FailureRestoresAll, Busy, RestoreFile

(* What a restore cut short leaves. *)
LEMMA RestoreCutIsFiles ==
    ASSUME PatchInv, patching.at = "restore", patching.todo # <<>>,
           NEW gs \in RestoreCut(Head(patching.todo).path)
    PROVE  gs \in Files
<1>1. patching.todo \in Seq(AnyChange) /\ patching.before \in Files
  BY DEF PatchInv, PatchTypes, HasSnapshot, CallType
<1>2. Head(patching.todo).path \in Paths
  BY <1>1, FirstAndOthers DEF AnyChange
<1> QED
  BY <1>1, <1>2 DEF RestoreCut, Restored, PatchInv, PatchTypes, Files, Stored

LEMMA RestoreFailsStep ==
    ASSUME PatchInv, RestoreFails
    PROVE  PatchInv'
<1>1. patching \in CallType /\ patching.at = "restore" /\ patching.todo # <<>>
  BY DEF PatchInv, PatchTypes, RestoreFails, Busy
<1>2. files' \in Files
  BY <1>1, RestoreCutIsFiles DEF RestoreFails
<1>3. patching' \in CallType /\ patching'.at = "returned"
  BY <1>1, NothingToDo DEF RestoreFails, CallType, Steps
<1>4. "restore" \in mishaps'
  BY DEF RestoreFails
<1> QED
  BY <1>2, <1>3, <1>4 DEF PatchInv, PatchTypes, HasSnapshot, ApplyMarks, RestoreMarks,
     FailureRestoresAll, Busy, RestoreFails

LEMMA RestoreDoneStep ==
    ASSUME PatchInv, RestoreDone
    PROVE  PatchInv'
<1>1. /\ patching \in CallType /\ patching.at = "restore" /\ patching.todo = <<>>
      /\ patching.before \in Files /\ files \in Files
  BY DEF PatchInv, PatchTypes, HasSnapshot, RestoreDone, Busy
<1>2. /\ patching' \in CallType /\ patching'.at = "returned" /\ patching'.before = patching.before
      /\ files' = files /\ applied' = applied
  BY <1>1 DEF RestoreDone, Finish, CallType, Steps
<1>3. \A p \in Paths : files[p] = patching.before[p]
  BY <1>1 DEF PatchInv, RestoreMarks, Differ, Touched, Busy
<1>4. files = patching.before
  BY <1>1, <1>3 DEF Files
<1> QED
  BY <1>2, <1>4 DEF PatchInv, PatchTypes, HasSnapshot, ApplyMarks, RestoreMarks,
     FailureRestoresAll, Busy

(* The steps of a rollback, and those that leave a call: only types.        *)
LEMMA UndoStepStep ==
    ASSUME PatchInv, UndoStep
    PROVE  PatchInv'
<1>1. patching \in CallType /\ patching.todo \in Seq(AnyChange) /\ patching.at = "undo"
  BY DEF PatchInv, PatchTypes, CallType, UndoStep, UndoChange, UndoChangeFails, UndoDone, Busy
<1>2. CASE UndoChange
  <2>1. Head(patching.todo) \in AnyChange /\ Tail(patching.todo) \in Seq(AnyChange)
    BY <1>1, <1>2, FirstAndOthers DEF UndoChange
  <2>2. files' \in Files
    BY <1>2, <2>1, AppliedTouchesOne DEF UndoChange, PatchInv, PatchTypes
  <2>3. patching' \in CallType /\ patching'.at = "undo"
    BY <1>1, <1>2, <2>1 DEF UndoChange, CallType
  <2> QED
    BY <1>2, <2>2, <2>3, TypesAreEnough DEF PatchInv, PatchTypes, UndoChange
<1>3. CASE UndoChangeFails
  <2>1. Head(patching.todo) \in AnyChange /\ Tail(patching.todo) \in Seq(AnyChange)
    BY <1>1, <1>3, FirstAndOthers DEF UndoChangeFails
  <2>2. files' = files \/ files' \in Failed(Head(patching.todo), files)
    BY <1>3 DEF UndoChangeFails
  <2>3. files' \in Files
    BY <2>1, <2>2, FailedTouchesOne DEF PatchInv, PatchTypes
  <2>4. patching' \in CallType /\ patching'.at = "undo"
    BY <1>1, <1>3, <2>1 DEF UndoChangeFails, CallType
  <2> QED
    BY <1>3, <2>3, <2>4, TypesAreEnough DEF PatchInv, PatchTypes, UndoChangeFails
<1>4. CASE UndoDone
  <2>1. patching' \in CallType /\ patching'.at = "undone"
    BY <1>1, <1>4 DEF UndoDone, Finish, CallType, Steps
  <2> QED
    BY <1>4, <2>1, TypesAreEnough DEF PatchInv, PatchTypes, UndoDone, Finish
<1> QED
  BY <1>2, <1>3, <1>4 DEF UndoStep

LEMMA IdleStep ==
    ASSUME PatchInv, Return \/ Restart
    PROVE  PatchInv'
<1>1. Idle \in CallType /\ Idle.at = "idle"
  BY NothingToDo DEF Idle, CallType, Steps
<1>2. patching' = Idle
  BY DEF Return, Restart
<1> QED
  BY <1>1, <1>2, TypesAreEnough DEF PatchInv, PatchTypes, Return, Restart

LEMMA CrashStep ==
    ASSUME PatchInv, PatchCrash
    PROVE  PatchInv'
<1>1. patching \in CallType /\ patching.todo \in Seq(AnyChange) /\ patching.todo # <<>>
  BY DEF PatchInv, PatchTypes, CallType, PatchCrash
<1>2. files' \in Files
  <2>1. CASE Busy("restore")
    BY <1>1, <2>1, RestoreCutIsFiles DEF PatchCrash, Busy
  <2>2. CASE ~Busy("restore")
    BY <1>1, <2>2, FirstAndOthers, FailedTouchesOne DEF PatchCrash, PatchInv, PatchTypes
  <2> QED
    BY <2>1, <2>2
<1>3. patching' \in CallType /\ patching'.at = "crashed"
  BY <1>1 DEF PatchCrash, CallType, Steps
<1> QED
  BY <1>2, <1>3, TypesAreEnough DEF PatchTypes, PatchCrash

LEMMA NextPatch == PatchInv /\ [PatchNext]_patchVars => PatchInv'
<1> SUFFICES ASSUME PatchInv, [PatchNext]_patchVars PROVE PatchInv'
  OBVIOUS
<1>1. CASE UNCHANGED patchVars
  BY <1>1 DEF patchVars, PatchInv, PatchTypes, HasSnapshot, ApplyMarks, RestoreMarks,
     FailureRestoresAll, Differ, Busy
<1>2. CASE \E plan \in Plans : ApplyPatchPlan(plan)
  BY <1>2, ApplyPatchPlanStep
<1>3. CASE \E i \in DOMAIN applied : RollbackPatch(i)
  BY <1>3, RollbackPatchStep
<1>4. CASE \E p \in Paths, content \in Given : Edit(p, content)
  BY <1>4, EditStep
<1>5. CASE ApplyStep
  BY <1>5, ApplyChangeStep, ApplyChangeFailsStep, ApplyDoneStep DEF ApplyStep
<1>6. CASE RestoreStep
  BY <1>6, RestoreFileStep, RestoreFailsStep, RestoreDoneStep DEF RestoreStep
<1>7. CASE UndoStep
  BY <1>7, UndoStepStep
<1>8. CASE Return \/ Restart
  BY <1>8, IdleStep
<1>9. CASE PatchCrash
  BY <1>9, CrashStep
<1> QED
  BY <1>1, <1>2, <1>3, <1>4, <1>5, <1>6, <1>7, <1>8, <1>9 DEF PatchNext, Given

(* A plan that failed left every file as it was before, unless the restore  *)
(* itself failed or the process crashed (transactional_apply).              *)
THEOREM FailureLeavesNoTrace == PatchSpec => []FailureRestoresAll
<1>1. PatchInv => FailureRestoresAll
  BY DEF PatchInv
<1> QED
  BY <1>1, InitPatch, NextPatch, PTL DEF PatchSpec
-----------------------------------------------------------------------------
(* Why a rollback keeps the edits of a user.  Undoing a change asks the     *)
(* file for what the change wrote; only a deletion whose content is not     *)
(* given asks for nothing.  Such a deletion would undo an addition without  *)
(* content, which cannot have been applied.                                 *)
Blank(c) == c.type = "added" /\ c.new = Nothing

Listed(c, todo) == \E j \in DOMAIN todo : todo[j] = c

BlanksToCome ==
    Busy("apply") =>
        \A i \in DOMAIN patching.plan : Blank(patching.plan[i]) => Listed(patching.plan[i], patching.todo)

NoBlankApplied ==
    \A k \in DOMAIN applied :
        \A i \in DOMAIN applied[k].plan : ~Blank(applied[k].plan[i])

Careless(c) == c.type = "deleted" /\ c.old = Nothing

UndoAsks == Busy("undo") => \A j \in DOMAIN patching.todo : ~Careless(patching.todo[j])

UndoInv == BlanksToCome /\ NoBlankApplied /\ UndoAsks

(* What is listed is the first change or among the others.                  *)
LEMMA FirstOrListed ==
    ASSUME NEW todo \in Seq(AnyChange), todo # <<>>, NEW c, Listed(c, todo)
    PROVE  c = Head(todo) \/ Listed(c, Tail(todo))
<1>1. PICK j \in DOMAIN todo : todo[j] = c
  BY DEF Listed
<1>2. /\ Len(todo) \in Nat /\ j \in 1 .. Len(todo)
      /\ DOMAIN Tail(todo) = 1 .. Len(todo) - 1
      /\ Head(todo) = todo[1]
      /\ \A i \in 1 .. Len(todo) - 1 : Tail(todo)[i] = todo[i + 1]
  BY <1>1
<1>3. CASE j = 1
  BY <1>1, <1>2, <1>3
<1>4. CASE j # 1
  <2>1. j - 1 \in 1 .. Len(todo) - 1 /\ Tail(todo)[j - 1] = todo[j]
    BY <1>2, <1>4
  <2> QED
    BY <1>1, <1>2, <2>1 DEF Listed
<1> QED
  BY <1>3, <1>4

(* What holds of the first of some changes and of all of them holds of the  *)
(* others.                                                                  *)
LEMMA OthersAsk ==
    ASSUME NEW todo \in Seq(AnyChange), todo # <<>>,
           \A j \in DOMAIN todo : ~Careless(todo[j])
    PROVE  \A j \in DOMAIN Tail(todo) : ~Careless(Tail(todo)[j])
<1> SUFFICES ASSUME NEW j \in DOMAIN Tail(todo) PROVE ~Careless(Tail(todo)[j])
  OBVIOUS
<1>1. Tail(todo)[j] = todo[j + 1] /\ j + 1 \in DOMAIN todo
  OBVIOUS
<1> QED
  BY <1>1

LEMMA UndoingAsks ==
    ASSUME NEW plan \in Seq(AnyChange),
           \A i \in DOMAIN plan : ~Blank(plan[i])
    PROVE  \A j \in DOMAIN Undoing(plan) : ~Careless(Undoing(plan)[j])
<1> SUFFICES ASSUME NEW j \in DOMAIN Undoing(plan) PROVE ~Careless(Undoing(plan)[j])
  OBVIOUS
<1>1. Len(plan) \in Nat /\ DOMAIN plan = 1 .. Len(plan) /\ j \in 1 .. Len(plan)
  BY DEF Undoing
<1>2. PICK i \in 1 .. Len(plan) : Reverse(plan)[j] = plan[i]
  BY <1>1 DEF Reverse
<1>3. Undoing(plan)[j] = ReverseChange(plan[i])
  BY <1>1, <1>2 DEF Undoing
<1>4. plan[i] \in AnyChange /\ ~Blank(plan[i])
  BY <1>1, <1>2
<1> QED
  BY <1>3, <1>4 DEF ReverseChange, Careless, Blank, AnyChange, ChangeTypes, KnownTypes

LEMMA InitUndo == PatchInit => UndoInv
BY DEF PatchInit, Idle, UndoInv, BlanksToCome, NoBlankApplied, UndoAsks, Busy

LEMMA NextUndo == PatchInv /\ UndoInv /\ [PatchNext]_patchVars => UndoInv'
<1> SUFFICES ASSUME PatchInv, UndoInv, [PatchNext]_patchVars PROVE UndoInv'
  OBVIOUS
<1> USE DEF UndoInv
<1>0. /\ patching \in CallType /\ patching.todo \in Seq(AnyChange)
      /\ applied \in Seq(PatchType)
  BY DEF PatchInv, PatchTypes, CallType
<1>1. ASSUME UNCHANGED applied, patching'.at \notin {"apply", "undo"}
      PROVE  UndoInv'
  BY <1>1 DEF BlanksToCome, NoBlankApplied, UndoAsks, Busy
<1>2. ASSUME UNCHANGED <<applied, patching>>
      PROVE  UndoInv'
  BY <1>2 DEF BlanksToCome, NoBlankApplied, UndoAsks, Busy
<1>3. CASE UNCHANGED patchVars
  BY <1>2, <1>3 DEF patchVars
<1>4. ASSUME NEW plan \in Plans, ApplyPatchPlan(plan)
      PROVE  UndoInv'
  <2>1. patching'.at = "apply" /\ patching'.todo = plan /\ patching'.plan = plan /\ applied' = applied
    BY <1>4 DEF ApplyPatchPlan, Idle
  <2> QED
    BY <2>1 DEF BlanksToCome, NoBlankApplied, UndoAsks, Busy, Listed
<1>5. ASSUME NEW i \in DOMAIN applied, RollbackPatch(i)
      PROVE  UndoInv'
  <2>0. applied[i] \in PatchType
    BY <1>0
  <2>1. applied[i].plan \in Seq(AnyChange)
    BY <2>0 DEF PatchType
  <2>2. \A j \in DOMAIN Undoing(applied[i].plan) : ~Careless(Undoing(applied[i].plan)[j])
    BY <1>5, <2>1, UndoingAsks DEF NoBlankApplied
  <2>3. patching'.at = "undo" /\ patching'.todo = Undoing(applied[i].plan) /\ applied' = applied
    BY <1>5 DEF RollbackPatch, Idle
  <2> QED
    BY <2>2, <2>3 DEF BlanksToCome, NoBlankApplied, UndoAsks, Busy
<1>6. CASE \E p \in Paths, content \in Given : Edit(p, content)
  BY <1>2, <1>6 DEF Edit
<1>7. CASE ApplyChange
  <2>1. /\ patching.at = "apply" /\ patching.todo # <<>> /\ applied' = applied
        /\ patching'.at = "apply" /\ patching'.todo = Tail(patching.todo) /\ patching'.plan = patching.plan
    BY <1>0, <1>7 DEF ApplyChange, Busy, CallType
  <2>2. ~Blank(Head(patching.todo))
    BY <1>7 DEF ApplyChange, Applicable, Blank
  <2>3. ASSUME NEW i \in DOMAIN patching.plan, Blank(patching.plan[i])
        PROVE  Listed(patching.plan[i], Tail(patching.todo))
    <3>1. Listed(patching.plan[i], patching.todo)
      BY <2>1, <2>3 DEF BlanksToCome, Busy
    <3>2. patching.plan[i] # Head(patching.todo)
      BY <2>2, <2>3
    <3> QED
      BY <1>0, <2>1, <3>1, <3>2, FirstOrListed
  <2> QED
    BY <2>1, <2>3 DEF BlanksToCome, NoBlankApplied, UndoAsks, Busy
<1>8. CASE ApplyDone
  <2>1. patching.at = "apply" /\ patching.todo = <<>> /\ patching'.at = "returned"
    BY <1>0, <1>8 DEF ApplyDone, Finish, Busy, CallType
  <2>2. \A i \in DOMAIN patching.plan : ~Blank(patching.plan[i])
    BY <2>1 DEF BlanksToCome, Busy, Listed
  <2> DEFINE patch == [plan |-> patching.plan, before |-> patching.before, after |-> files]
  <2>3. patch.plan = patching.plan
    OBVIOUS
  <2>4. applied' = Append(applied, patch)
    BY <1>8 DEF ApplyDone
  <2> HIDE DEF patch
  <2>5. ASSUME NEW k \in DOMAIN applied'
        PROVE  applied'[k] = patch \/ (k \in DOMAIN applied /\ applied'[k] = applied[k])
    BY <1>0, <2>4
  <2>6. NoBlankApplied'
    BY <2>2, <2>3, <2>5 DEF NoBlankApplied
  <2> QED
    BY <2>1, <2>6 DEF BlanksToCome, UndoAsks, Busy
<1>9. CASE UndoChange \/ UndoChangeFails
  <2>1. /\ patching.at = "undo" /\ patching.todo # <<>> /\ applied' = applied
        /\ patching'.at = "undo" /\ patching'.todo = Tail(patching.todo)
    BY <1>0, <1>9 DEF UndoChange, UndoChangeFails, Busy, CallType
  <2>2. \A j \in DOMAIN Tail(patching.todo) : ~Careless(Tail(patching.todo)[j])
    BY <1>0, <2>1, OthersAsk DEF UndoAsks, Busy
  <2> QED
    BY <2>1, <2>2 DEF BlanksToCome, NoBlankApplied, UndoAsks, Busy
<1>10. CASE ApplyChangeFails
  BY <1>0, <1>1, <1>10 DEF ApplyChangeFails, CallType
<1>11. CASE RestoreStep \/ UndoDone
  <2>1. patching'.at \in {"restore", "returned", "undone"} /\ applied' = applied
    BY <1>0, <1>11 DEF RestoreStep, RestoreFile, RestoreFails, RestoreDone, UndoDone, Finish,
       Busy, CallType
  <2> QED
    BY <1>1, <2>1
<1>12. CASE Return \/ Restart
  <2>1. patching' = Idle /\ applied' = applied
    BY <1>12 DEF Return, Restart
  <2> QED
    BY <1>1, <2>1 DEF Idle
<1>13. CASE PatchCrash
  <2>1. patching'.at = "crashed" /\ applied' = <<>>
    BY <1>0, <1>13 DEF PatchCrash, CallType
  <2> QED
    BY <2>1 DEF BlanksToCome, NoBlankApplied, UndoAsks, Busy
<1> QED
  BY <1>3, <1>4, <1>5, <1>6, <1>7, <1>8, <1>9, <1>10, <1>11, <1>12, <1>13
     DEF PatchNext, ApplyStep, UndoStep, Given

(* A change that asks, and touches a file, was answered.                    *)
LEMMA TouchedWasAsked ==
    ASSUME NEW fs \in Files, NEW c \in AnyChange, ~Careless(c), NEW gs, NEW p \in Paths,
           (Applicable(c, fs) /\ gs = Applied(c, fs)) \/ gs \in Failed(c, fs),
           gs[p] # fs[p]
    PROVE  /\ c.path = p
           /\ IF c.type = "added" THEN fs[p] = Nothing ELSE Reads(p, c.old, fs)
<1>1. Applicable(c, fs)
  BY DEF Failed
<1>2. c.path = p
  BY <1>1 DEF Failed, Applied, Files, AnyChange
<1>3. CASE c.type = "modified"
  BY <1>1, <1>2, <1>3 DEF Applicable
<1>4. CASE c.type = "added"
  BY <1>1, <1>2, <1>4 DEF Applicable
<1>5. CASE c.type = "deleted"
  BY <1>1, <1>2, <1>5 DEF Applicable, Careless
<1>6. c.type # "unknown"
  BY <1>1 DEF Applicable
<1> QED
  BY <1>2, <1>3, <1>4, <1>5, <1>6 DEF AnyChange, ChangeTypes, KnownTypes

LEMMA UndoStepAsks ==
    ASSUME PatchInv, UndoInv, [PatchNext]_patchVars, Busy("undo"), NEW p \in Paths,
           files'[p] # files[p]
    PROVE  \E i \in DOMAIN patching.todo :
               /\ patching.todo[i].path = p
               /\ IF patching.todo[i].type = "added" THEN files[p] = Nothing
                  ELSE Reads(p, patching.todo[i].old, files)
<1> DEFINE c == Head(patching.todo)
<1>1. UndoChange \/ UndoChangeFails \/ PatchCrash
  BY DEF PatchNext, patchVars, Busy, ApplyPatchPlan, RollbackPatch, Edit, ApplyStep, RestoreStep, UndoStep,
     ApplyChange, ApplyChangeFails, ApplyDone, RestoreFile, RestoreFails, RestoreDone,
     UndoDone, Return, Restart, Finish
<1>2. patching.todo \in Seq(AnyChange) /\ patching.todo # <<>> /\ files \in Files
  BY <1>1 DEF PatchInv, PatchTypes, CallType, UndoChange, UndoChangeFails, PatchCrash
<1>3. 1 \in DOMAIN patching.todo /\ c = patching.todo[1] /\ c \in AnyChange
  BY <1>2
<1>4. ~Careless(c)
  BY <1>3 DEF UndoInv, UndoAsks
<1>5. (Applicable(c, files) /\ files' = Applied(c, files)) \/ files' \in Failed(c, files)
  BY <1>1 DEF UndoChange, UndoChangeFails, PatchCrash, Busy
<1> HIDE DEF c
<1>6. /\ c.path = p
      /\ IF c.type = "added" THEN files[p] = Nothing ELSE Reads(p, c.old, files)
  BY <1>2, <1>3, <1>4, <1>5, TouchedWasAsked
<1> QED
  BY <1>3, <1>6

(* A rollback only replaces what some change of its patch wrote             *)
(* (rollback_patch, apply_file_change).                                     *)
THEOREM EditsAreKept == PatchSpec => RollbackKeepsEdits
<1>1. PatchInv /\ UndoInv /\ [PatchNext]_patchVars => [KeepsEdits]_patchVars
  BY UndoStepAsks DEF KeepsEdits
<1> QED
  BY <1>1, InitPatch, NextPatch, InitUndo, NextUndo, PTL DEF PatchSpec, RollbackKeepsEdits
-----------------------------------------------------------------------------
(* What a rollback that returns True has done.  Three facts meet.  The      *)
(* first change of a path found there what was there before the patch.  A   *)
(* rollback goes through the changes last to first and stays True only if   *)
(* each of them was undone, so for each path the first change is the last   *)
(* to be undone.  And what undoing a change leaves is what the change asked *)
(* for.  Nothing is needed of what the user did in between.                 *)

(* What applying a change leaves at its path, and what undoing it leaves.   *)
Result(c) == IF c.type = "deleted" THEN Nothing ELSE c.new

Origin(c) == IF c.type = "added" THEN Nothing ELSE c.old

(* What a change asks of the content of its path.                           *)
Asks(c, x) ==
    CASE c.type = "modified" -> c.old # Nothing /\ c.new # Nothing /\ x \in Contents /\ AsRead[x] = c.old
      [] c.type = "added"    -> c.new # Nothing /\ x = Nothing
      [] c.type = "deleted"  -> c.old # Nothing => x \in Contents /\ AsRead[x] = c.old
      [] OTHER               -> FALSE

(* The content of a path after the first n changes of a plan.               *)
Touches(plan, n, p) == {i \in 1 .. n : plan[i].path = p}

FileAt(plan, before, n, p) ==
    LET T == Touches(plan, n, p) IN
    IF T = {} THEN before[p]
    ELSE Result(plan[CHOOSE i \in T : \A j \in T : j <= i])

(* The first n changes of a plan ran, one after another.                    *)
Ran(plan, before, after, n) ==
    /\ \A p \in Paths : after[p] = FileAt(plan, before, n, p)
    /\ \A i \in 1 .. n : Asks(plan[i], FileAt(plan, before, i - 1, plan[i].path))

\* No change from the k-th on, before the i-th, is of the path of the i-th.
FirstSince(plan, k, i) == \A j \in k .. i - 1 : plan[j].path # plan[i].path

Undoable(c) == c.type = "deleted" => c.old # Nothing

LEMMA ApplicableAsks ==
    ASSUME NEW fs \in Files, NEW c \in AnyChange
    PROVE  Applicable(c, fs) <=> Asks(c, fs[c.path])
BY DEF Applicable, Asks, Reads, AnyChange, ChangeTypes, KnownTypes

LEMMA FileAtStep ==
    ASSUME NEW plan, NEW before, NEW n \in Nat \ {0}, NEW p
    PROVE  FileAt(plan, before, n, p) =
               IF plan[n].path = p THEN Result(plan[n])
               ELSE FileAt(plan, before, n - 1, p)
<1>1. CASE plan[n].path = p
  <2> DEFINE T == Touches(plan, n, p)
             m == CHOOSE i \in T : \A j \in T : j <= i
  <2>1. n \in T /\ \A j \in T : j \in Nat /\ j <= n
    BY <1>1 DEF Touches
  <2>2. m \in T /\ \A j \in T : j <= m
    <3> HIDE DEF T
    <3> QED
      BY <2>1
  <2>3. m = n
    <3> HIDE DEF T, m
    <3> QED
      BY <2>1, <2>2
  <2>4. FileAt(plan, before, n, p) = Result(plan[m])
    BY <2>1 DEF FileAt
  <2> HIDE DEF m
  <2> QED
    BY <1>1, <2>3, <2>4
<1>2. CASE plan[n].path # p
  <2>1. Touches(plan, n, p) = Touches(plan, n - 1, p)
    BY <1>2 DEF Touches
  <2> QED
    BY <1>2, <2>1 DEF FileAt
<1> QED
  BY <1>1, <1>2

LEMMA FileAtStart ==
    ASSUME NEW plan, NEW before, NEW p
    PROVE  FileAt(plan, before, 0, p) = before[p]
BY DEF FileAt, Touches

(* A path some change touches has a first change.                           *)
LEMMA FirstTouch ==
    ASSUME NEW plan, NEW n \in Nat, NEW i \in 1 .. n
    PROVE  \E m \in 1 .. n : plan[m].path = plan[i].path /\ FirstSince(plan, 1, m)
<1> DEFINE T == {j \in Nat : j \in 1 .. n /\ plan[j].path = plan[i].path}
           less == {jk \in Nat \X Nat : jk[1] < jk[2]}
<1>0. IsWellFoundedOn(less, Nat)
  BY NatLessThanWellFounded DEF OpToRel
<1>1. i \in T /\ T \subseteq Nat
  OBVIOUS
<1>2. PICK m \in T : \A j \in T : ~(<<j, m>> \in less)
  <2> HIDE DEF T, less
  <2> QED
    BY <1>0, <1>1, WFMin
<1>3. \A j \in T : ~(j < m)
  BY <1>1, <1>2
<1>4. FirstSince(plan, 1, m)
  BY <1>2, <1>3 DEF FirstSince
<1> QED
  BY <1>2, <1>4

LEMMA RanStep ==
    ASSUME NEW plan \in Seq(AnyChange), NEW n \in Nat, n + 1 <= Len(plan),
           NEW before, NEW fs \in Files, Ran(plan, before, fs, n),
           Applicable(plan[n + 1], fs)
    PROVE  Ran(plan, before, Applied(plan[n + 1], fs), n + 1)
<1> DEFINE c == plan[n + 1]
           gs == Applied(c, fs)
<1>1. c \in AnyChange /\ n + 1 \in Nat \ {0} /\ (n + 1) - 1 = n
  OBVIOUS
<1>2. \A p \in Paths : FileAt(plan, before, n + 1, p) =
          IF c.path = p THEN Result(c) ELSE FileAt(plan, before, n, p)
  <2> TAKE p \in Paths
  <2>1. FileAt(plan, before, n + 1, p) =
            IF c.path = p THEN Result(c) ELSE FileAt(plan, before, (n + 1) - 1, p)
    BY <1>1, FileAtStep
  <2> QED
    BY <1>1, <2>1
<1> HIDE DEF c
<1>3. \A p \in Paths : gs[p] = IF c.path = p THEN Result(c) ELSE fs[p]
  BY <1>1 DEF Applied, Result, Files
<1>4. \A p \in Paths : gs[p] = FileAt(plan, before, n + 1, p)
  BY <1>2, <1>3 DEF Ran
<1>5. Asks(c, FileAt(plan, before, n, c.path))
  BY <1>1, ApplicableAsks DEF Ran, AnyChange, c
<1>6. ASSUME NEW i \in 1 .. n + 1
      PROVE  Asks(plan[i], FileAt(plan, before, i - 1, plan[i].path))
  BY <1>1, <1>5 DEF Ran, c
<1> QED
  BY <1>4, <1>6 DEF Ran, c

(* The changes of a plan after the n-th are undone: none of them is beyond  *)
(* undoing, and a path has what the first of them that touches it found.    *)
UndoneFrom(plan, fs, n) ==
    \A i \in n + 1 .. Len(plan) :
        /\ Undoable(plan[i])
        /\ FirstSince(plan, n + 1, i) => fs[plan[i].path] = Origin(plan[i])

LEMMA UndoingLeavesOrigin ==
    ASSUME NEW fs \in Files, NEW c \in AnyChange, Applicable(ReverseChange(c), fs)
    PROVE  /\ Undoable(c)
           /\ \A p \in Paths : Applied(ReverseChange(c), fs)[p] =
                                   IF c.path = p THEN Origin(c) ELSE fs[p]
<1>1. CASE c.type = "modified"
  BY <1>1 DEF Applicable, Applied, ReverseChange, Origin, Undoable, Files, AnyChange
<1>2. CASE c.type = "added"
  BY <1>2 DEF Applicable, Applied, ReverseChange, Origin, Undoable, Files, AnyChange
<1>3. CASE c.type = "deleted"
  BY <1>3 DEF Applicable, Applied, ReverseChange, Origin, Undoable, Files, AnyChange
<1>4. c.type # "unknown"
  BY DEF Applicable, ReverseChange
<1> QED
  BY <1>1, <1>2, <1>3, <1>4 DEF AnyChange, ChangeTypes, KnownTypes

LEMMA UndoneStep ==
    ASSUME NEW plan \in Seq(AnyChange), NEW n \in 1 .. Len(plan), NEW fs \in Files,
           UndoneFrom(plan, fs, n), Applicable(ReverseChange(plan[n]), fs)
    PROVE  UndoneFrom(plan, Applied(ReverseChange(plan[n]), fs), n - 1)
<1> DEFINE gs == Applied(ReverseChange(plan[n]), fs)
<1>1. plan[n] \in AnyChange /\ Len(plan) \in Nat
  OBVIOUS
<1>2. /\ Undoable(plan[n])
      /\ \A p \in Paths : gs[p] = IF plan[n].path = p THEN Origin(plan[n]) ELSE fs[p]
  BY <1>1, UndoingLeavesOrigin
<1> HIDE DEF gs
<1>3. ASSUME NEW i \in n .. Len(plan)
      PROVE  /\ Undoable(plan[i])
             /\ FirstSince(plan, n, i) => gs[plan[i].path] = Origin(plan[i])
  <2>0. plan[i] \in AnyChange /\ plan[i].path \in Paths
    <3>1. i \in 1 .. Len(plan)
      BY <1>1
    <3>2. plan[i] \in AnyChange
      BY <3>1
    <3> QED
      BY <3>2 DEF AnyChange
  <2>1. CASE i = n
    BY <1>2, <2>0, <2>1
  <2>2. CASE i # n
    <3>1. i \in n + 1 .. Len(plan)
      BY <2>2
    <3>2. FirstSince(plan, n, i) => FirstSince(plan, n + 1, i) /\ plan[n].path # plan[i].path
      BY <3>1 DEF FirstSince
    <3> QED
      BY <1>2, <2>0, <3>1, <3>2 DEF UndoneFrom
  <2> QED
    BY <2>1, <2>2
<1> QED
  BY <1>3 DEF UndoneFrom, gs

(* Text that read_text reads as it is.                                      *)
PlainText == \A content \in Contents : AsRead[content] = content

(* Undoing the last change that ran leads back to where it started.         *)
LEMMA ExactStep ==
    ASSUME PlainText, NEW plan \in Seq(AnyChange), NEW before, NEW after,
           Ran(plan, before, after, Len(plan)), Reversible(plan),
           NEW n \in 1 .. Len(plan), NEW fs \in Files,
           \A p \in Paths : fs[p] = FileAt(plan, before, n, p)
    PROVE  /\ Applicable(ReverseChange(plan[n]), fs)
           /\ \A p \in Paths :
                  Applied(ReverseChange(plan[n]), fs)[p] = FileAt(plan, before, n - 1, p)
<1> DEFINE c == plan[n]
           x == FileAt(plan, before, n - 1, c.path)
<1>1. c \in AnyChange /\ n \in Nat \ {0} /\ n \in DOMAIN plan
  OBVIOUS
<1>2. Asks(c, x) /\ (c.type = "deleted" => c.old # Nothing)
  BY <1>1 DEF Ran, Reversible
<1>3. \A p \in Paths : fs[p] = IF c.path = p THEN Result(c) ELSE FileAt(plan, before, n - 1, p)
  <2> TAKE p \in Paths
  <2>1. FileAt(plan, before, n, p) =
            IF plan[n].path = p THEN Result(plan[n]) ELSE FileAt(plan, before, n - 1, p)
    <3>1. n \in Nat \ {0}
      BY <1>1
    <3> QED
      BY ONLY <3>1, FileAtStep
  <2> QED
    BY <2>1
<1> HIDE DEF c, x
<1>4. c.path \in Paths /\ fs[c.path] = Result(c)
  BY <1>1, <1>3 DEF AnyChange
<1>5. ReverseChange(c) \in AnyChange /\ ReverseChange(c).path = c.path
  BY <1>1 DEF ReverseChange, AnyChange, ChangeTypes, KnownTypes
<1>6. Asks(ReverseChange(c), fs[c.path]) /\ x = Origin(c)
  <2>1. CASE c.type = "modified"
    BY <1>1, <1>2, <1>4, <2>1 DEF Asks, ReverseChange, Result, Origin, PlainText, AnyChange, Given
  <2>2. CASE c.type = "added"
    BY <1>1, <1>2, <1>4, <2>2 DEF Asks, ReverseChange, Result, Origin, PlainText, AnyChange, Given
  <2>3. CASE c.type = "deleted"
    BY <1>1, <1>2, <1>4, <2>3 DEF Asks, ReverseChange, Result, Origin, PlainText, AnyChange, Given
  <2>4. c.type # "unknown"
    BY <1>2 DEF Asks
  <2> QED
    BY <1>1, <2>1, <2>2, <2>3, <2>4 DEF AnyChange, ChangeTypes, KnownTypes
<1>7. Applicable(ReverseChange(c), fs)
  BY <1>5, <1>6, ApplicableAsks
<1>8. \A p \in Paths : Applied(ReverseChange(c), fs)[p] =
                           IF c.path = p THEN Origin(c) ELSE fs[p]
  BY <1>1, <1>7, UndoingLeavesOrigin
<1> QED
  BY <1>3, <1>6, <1>7, <1>8 DEF c, x

(* The invariant: what ran of the plan being applied, what ran of every     *)
(* patch applied, and what is undone of the patch being rolled back.        *)
ToCome == Len(patching.plan) - Len(patching.todo)

ApplyRan ==
    Busy("apply") =>
        /\ ToCome \in Nat
        /\ \A j \in 1 .. Len(patching.todo) : patching.todo[j] = patching.plan[ToCome + j]
        /\ Ran(patching.plan, patching.before, files, ToCome)

PatchRan(patch) == Ran(patch.plan, patch.before, patch.after, Len(patch.plan))

AppliedRan == \A k \in DOMAIN applied : PatchRan(applied[k])

\* The patch under rollback was not touched and can be undone.
Untouched(patch) ==
    PlainText /\ mishaps = {} /\ patching.before = patch.after /\ Reversible(patch.plan)

UndoRan(patch) ==
    /\ Len(patching.todo) <= Len(patch.plan)
    /\ \A j \in 1 .. Len(patching.todo) :
           patching.todo[j] = ReverseChange(patch.plan[Len(patching.todo) + 1 - j])
    /\ patching.ok => UndoneFrom(patch.plan, files, Len(patching.todo))
    /\ Untouched(patch) =>
           /\ patching.ok
           /\ \A p \in Paths : files[p] = FileAt(patch.plan, patch.before, Len(patching.todo), p)

Undoes ==
    /\ patching.at \in {"undo", "undone"} =>
           patching.patch \in DOMAIN applied /\ UndoRan(applied[patching.patch])
    /\ patching.at = "undone" => patching.todo = <<>>

TraceInv == ApplyRan /\ AppliedRan /\ Undoes

LEMMA InitTrace == PatchInit => TraceInv
BY DEF PatchInit, Idle, TraceInv, ApplyRan, AppliedRan, Undoes, Busy

LEMMA Elsewhere ==
    ASSUME TraceInv, UNCHANGED applied, patching'.at \notin {"apply", "undo", "undone"}
    PROVE  TraceInv'
BY DEF TraceInv, ApplyRan, AppliedRan, PatchRan, Undoes, Busy

LEMMA ApplyPatchPlanTrace ==
    ASSUME PatchInv, TraceInv, NEW plan \in Plans, ApplyPatchPlan(plan)
    PROVE  TraceInv'
<1>1. plan \in Seq(AnyChange)
  BY PlansAreChanges
<1>2. /\ patching'.at = "apply" /\ patching'.todo = plan /\ patching'.plan = plan /\ patching'.before = files
      /\ files' = files /\ applied' = applied
  BY DEF ApplyPatchPlan, Idle
<1>3. Len(plan) \in Nat /\ ToCome' = 0
  BY <1>1, <1>2 DEF ToCome
<1>4. Ran(plan, files, files, 0)
  BY FileAtStart DEF Ran
<1> QED
  BY <1>2, <1>3, <1>4 DEF TraceInv, ApplyRan, AppliedRan, PatchRan, Undoes, Busy

LEMMA ApplyChangeTrace ==
    ASSUME PatchInv, TraceInv, ApplyChange
    PROVE  TraceInv'
<1> DEFINE n == ToCome
           rest == Tail(patching.todo)
<1>1. /\ patching.at = "apply" /\ patching.todo \in Seq(AnyChange) /\ patching.todo # <<>>
      /\ patching.plan \in Seq(AnyChange) /\ files \in Files /\ patching \in CallType
  BY DEF PatchInv, PatchTypes, CallType, ApplyChange, Busy
<1>2. /\ n \in Nat
      /\ \A j \in 1 .. Len(patching.todo) : patching.todo[j] = patching.plan[n + j]
      /\ Ran(patching.plan, patching.before, files, n)
  BY <1>1 DEF TraceInv, ApplyRan, Busy
<1>3. /\ Len(patching.todo) \in Nat \ {0} /\ Len(patching.plan) \in Nat
      /\ Len(rest) = Len(patching.todo) - 1
      /\ \A j \in 1 .. Len(rest) : rest[j] = patching.todo[j + 1]
      /\ Head(patching.todo) = patching.todo[1]
  BY <1>1
<1>4. /\ patching'.at = "apply" /\ patching'.todo = rest /\ patching'.plan = patching.plan
      /\ patching'.before = patching.before /\ applied' = applied
      /\ files' = Applied(Head(patching.todo), files)
  BY <1>1 DEF ApplyChange, CallType
<1>5. Len(patching.plan) = n + Len(patching.todo)
  BY <1>3 DEF ToCome
<1> HIDE DEF n, rest
<1>6. n + 1 <= Len(patching.plan) /\ Head(patching.todo) = patching.plan[n + 1]
  BY <1>2, <1>3, <1>5
<1>7. Applicable(patching.plan[n + 1], files)
  BY <1>6 DEF ApplyChange
<1>8. Ran(patching.plan, patching.before, files', n + 1)
  BY <1>1, <1>2, <1>4, <1>6, <1>7, RanStep
<1>9. ToCome' = n + 1
  BY <1>2, <1>3, <1>4, <1>5 DEF ToCome
<1>10. ASSUME NEW j \in 1 .. Len(rest) PROVE rest[j] = patching.plan[(n + 1) + j]
  <2>1. j + 1 \in 1 .. Len(patching.todo) /\ n + (j + 1) = (n + 1) + j
    BY <1>2, <1>3
  <2> QED
    BY <1>2, <1>3, <2>1
<1> QED
  BY <1>2, <1>4, <1>8, <1>9, <1>10 DEF TraceInv, ApplyRan, AppliedRan, PatchRan, Undoes, Busy

LEMMA ApplyDoneTrace ==
    ASSUME PatchInv, TraceInv, ApplyDone
    PROVE  TraceInv'
<1> DEFINE patch == [plan |-> patching.plan, before |-> patching.before, after |-> files]
<1>1. /\ patching.at = "apply" /\ patching.todo = <<>> /\ patching.plan \in Seq(AnyChange)
      /\ patching \in CallType /\ applied \in Seq(PatchType)
  BY DEF PatchInv, PatchTypes, CallType, ApplyDone, Busy
<1>2. ToCome = Len(patching.plan)
  BY <1>1 DEF ToCome
<1>3. PatchRan(patch)
  BY <1>1, <1>2 DEF PatchRan, TraceInv, ApplyRan, Busy
<1>4. patching'.at = "returned" /\ applied' = Append(applied, patch)
  BY <1>1 DEF ApplyDone, Finish, CallType
<1> HIDE DEF patch
<1>5. ASSUME NEW k \in DOMAIN applied'
      PROVE  applied'[k] = patch \/ (k \in DOMAIN applied /\ applied'[k] = applied[k])
  BY <1>1, <1>4
<1>6. AppliedRan'
  BY <1>3, <1>5 DEF TraceInv, AppliedRan, PatchRan
<1> QED
  BY <1>4, <1>6 DEF TraceInv, ApplyRan, Undoes, Busy

LEMMA RollbackTrace ==
    ASSUME PatchInv, TraceInv, NEW k \in DOMAIN applied, RollbackPatch(k)
    PROVE  TraceInv'
<1> DEFINE patch == applied[k]
           plan == patch.plan
<1>1. patch \in PatchType /\ k \in Nat
  BY DEF PatchInv, PatchTypes
<1>2. plan \in Seq(AnyChange) /\ PatchRan(patch)
  BY <1>1 DEF PatchType, TraceInv, AppliedRan
<1>3. /\ patching'.at = "undo" /\ patching'.todo = Undoing(plan) /\ patching'.patch = k /\ patching'.ok
      /\ patching'.before = files /\ files' = files /\ applied' = applied
  BY DEF RollbackPatch, Idle
<1> HIDE DEF plan
<1>4. /\ Len(plan) \in Nat /\ Len(Undoing(plan)) = Len(plan)
      /\ \A j \in 1 .. Len(plan) : Undoing(plan)[j] = ReverseChange(plan[Len(plan) + 1 - j])
  <2>1. Len(plan) \in Nat /\ DOMAIN plan = 1 .. Len(plan)
    BY <1>2
  <2>2. DOMAIN Undoing(plan) = 1 .. Len(plan)
    BY <2>1 DEF Undoing
  <2>3. Undoing(plan) \in Seq(AnyChange)
    BY <1>2, UndoingIsChanges
  <2>4. Len(Undoing(plan)) = Len(plan)
    BY <2>1, <2>2, <2>3
  <2>5. ASSUME NEW j \in 1 .. Len(plan)
        PROVE  Undoing(plan)[j] = ReverseChange(plan[Len(plan) + 1 - j])
    <3>1. Reverse(plan)[j] = plan[Len(plan) + 1 - j]
      BY <2>1 DEF Reverse
    <3> QED
      BY <2>1, <3>1 DEF Undoing
  <2> QED
    BY <2>1, <2>4, <2>5
<1>5. UndoneFrom(plan, files, Len(plan))
  BY <1>4 DEF UndoneFrom
<1>6. files = patch.after => \A p \in Paths : files[p] = FileAt(plan, patch.before, Len(plan), p)
  BY <1>2 DEF PatchRan, Ran, plan
<1>7. UndoRan(patch)'
  BY <1>3, <1>4, <1>5, <1>6 DEF UndoRan, Untouched, plan
<1> HIDE DEF patch
<1>8. applied'[patching'.patch] = patch /\ patching'.patch \in DOMAIN applied'
  BY <1>3 DEF patch
<1>9. Undoes'
  BY <1>3, <1>7, <1>8 DEF Undoes, UndoRan, Untouched, patch
<1> QED
  BY <1>3, <1>9 DEF TraceInv, ApplyRan, AppliedRan, PatchRan, Busy

(* What every step of the loop of a rollback starts from.                   *)
LEMMA AtUndo ==
    ASSUME PatchInv, TraceInv, Busy("undo"), patching.todo # <<>>,
           NEW patch, patch = applied[patching.patch], NEW n, n = Len(patching.todo)
    PROVE  /\ patching \in CallType /\ files \in Files
           /\ patching.patch \in DOMAIN applied /\ patch \in PatchType
           /\ patch.plan \in Seq(AnyChange) /\ PatchRan(patch) /\ UndoRan(patch)
           /\ n \in 1 .. Len(patch.plan)
           /\ Head(patching.todo) = ReverseChange(patch.plan[n])
           /\ Len(Tail(patching.todo)) = n - 1
           /\ \A j \in 1 .. n - 1 :
                  Tail(patching.todo)[j] = ReverseChange(patch.plan[(n - 1) + 1 - j])
<1>1. patching \in CallType /\ files \in Files /\ patching.todo \in Seq(AnyChange)
  BY DEF PatchInv, PatchTypes, CallType
<1>2. patching.patch \in DOMAIN applied /\ UndoRan(patch) /\ PatchRan(patch)
  BY DEF TraceInv, AppliedRan, Undoes, Busy
<1>3. patch \in PatchType
  BY <1>2 DEF PatchInv, PatchTypes
<1>4. patch.plan \in Seq(AnyChange) /\ Len(patch.plan) \in Nat
  BY <1>3 DEF PatchType
<1>5. /\ n \in Nat \ {0} /\ Len(Tail(patching.todo)) = n - 1 /\ Head(patching.todo) = patching.todo[1]
      /\ \A j \in 1 .. n - 1 : Tail(patching.todo)[j] = patching.todo[j + 1]
  BY <1>1
<1>6. /\ n <= Len(patch.plan)
      /\ \A j \in 1 .. n : patching.todo[j] = ReverseChange(patch.plan[n + 1 - j])
  BY <1>2 DEF UndoRan
<1>7. patching.todo[1] = ReverseChange(patch.plan[n])
  <2>1. 1 \in 1 .. n /\ n + 1 - 1 = n
    BY <1>5
  <2> QED
    BY <1>6, <2>1
<1>8. ASSUME NEW j \in 1 .. n - 1
      PROVE  Tail(patching.todo)[j] = ReverseChange(patch.plan[(n - 1) + 1 - j])
  <2>1. j + 1 \in 1 .. n
    BY <1>5
  <2>2. \A a, b \in Nat : a + 1 - (b + 1) = (a - 1) + 1 - b
    OBVIOUS
  <2>3. n \in Nat /\ j \in Nat
    BY <1>5
  <2> QED
    BY <1>5, <1>6, <2>1, <2>2, <2>3
<1> QED
  BY <1>1, <1>2, <1>3, <1>4, <1>5, <1>6, <1>7, <1>8

LEMMA UndoChangeTrace ==
    ASSUME PatchInv, TraceInv, UndoChange
    PROVE  TraceInv'
<1> DEFINE patch == applied[patching.patch]
           n == Len(patching.todo)
           rest == Tail(patching.todo)
<1>0. Busy("undo") /\ patching.todo # <<>>
  BY DEF UndoChange
<1>1. /\ patching \in CallType /\ files \in Files
      /\ patching.patch \in DOMAIN applied /\ patch \in PatchType
      /\ patch.plan \in Seq(AnyChange) /\ PatchRan(patch) /\ UndoRan(patch)
      /\ n \in 1 .. Len(patch.plan)
      /\ Head(patching.todo) = ReverseChange(patch.plan[n])
      /\ Len(rest) = n - 1
      /\ \A j \in 1 .. n - 1 : rest[j] = ReverseChange(patch.plan[(n - 1) + 1 - j])
  BY <1>0, AtUndo
<1>2. /\ patching'.at = "undo" /\ patching'.todo = rest /\ patching'.patch = patching.patch
      /\ patching'.ok = patching.ok /\ patching'.before = patching.before
      /\ applied' = applied /\ mishaps' = mishaps
      /\ files' = Applied(ReverseChange(patch.plan[n]), files)
      /\ Applicable(ReverseChange(patch.plan[n]), files)
  BY <1>0, <1>1 DEF UndoChange, Busy, CallType
<1> HIDE DEF patch, n, rest
<1>3. patching.ok => UndoneFrom(patch.plan, files', n - 1)
  BY <1>1, <1>2, UndoneStep DEF UndoRan, n
<1>4. Untouched(patch) =>
          patching.ok /\ \A p \in Paths : files'[p] = FileAt(patch.plan, patch.before, n - 1, p)
  <2> SUFFICES ASSUME Untouched(patch)
               PROVE  patching.ok /\ \A p \in Paths : files'[p] = FileAt(patch.plan, patch.before, n - 1, p)
    OBVIOUS
  <2>1. patching.ok /\ \A p \in Paths : files[p] = FileAt(patch.plan, patch.before, n, p)
    BY <1>1 DEF UndoRan, n
  <2>2. \A p \in Paths : files'[p] = FileAt(patch.plan, patch.before, n - 1, p)
    BY <1>1, <1>2, <2>1, ExactStep DEF Untouched, PatchRan
  <2> QED
    BY <2>1, <2>2
<1>5. Len(patching'.todo) = n - 1 /\ n - 1 \in Nat /\ n - 1 <= Len(patch.plan)
  BY <1>1, <1>2
<1>6. UndoRan(patch)'
  BY <1>1, <1>2, <1>3, <1>4, <1>5 DEF UndoRan, Untouched, patch
<1>7. Undoes'
  BY <1>1, <1>2, <1>6 DEF Undoes, UndoRan, Untouched, patch
<1> QED
  BY <1>2, <1>7 DEF TraceInv, ApplyRan, AppliedRan, PatchRan, Busy

LEMMA UndoChangeFailsTrace ==
    ASSUME PatchInv, TraceInv, UndoChangeFails
    PROVE  TraceInv'
<1> DEFINE patch == applied[patching.patch]
           n == Len(patching.todo)
           rest == Tail(patching.todo)
<1>0. Busy("undo") /\ patching.todo # <<>>
  BY DEF UndoChangeFails
<1>1. /\ patching \in CallType /\ files \in Files
      /\ patching.patch \in DOMAIN applied /\ patch \in PatchType
      /\ patch.plan \in Seq(AnyChange) /\ PatchRan(patch) /\ UndoRan(patch)
      /\ n \in 1 .. Len(patch.plan)
      /\ Head(patching.todo) = ReverseChange(patch.plan[n])
      /\ Len(rest) = n - 1
      /\ \A j \in 1 .. n - 1 : rest[j] = ReverseChange(patch.plan[(n - 1) + 1 - j])
  BY <1>0, AtUndo
<1>2. /\ patching'.at = "undo" /\ patching'.todo = rest /\ patching'.patch = patching.patch
      /\ ~patching'.ok /\ patching'.before = patching.before /\ applied' = applied
  BY <1>0, <1>1 DEF UndoChangeFails, Busy, CallType
<1>3. \/ ~Applicable(ReverseChange(patch.plan[n]), files) /\ UNCHANGED mishaps
      \/ mishaps' # {}
  BY <1>1 DEF UndoChangeFails
<1> HIDE DEF patch, n, rest
<1>4. ~Untouched(patch)'
  <2> SUFFICES ASSUME Untouched(patch)' PROVE FALSE
    OBVIOUS
  <2>1. Untouched(patch) /\ ~Applicable(ReverseChange(patch.plan[n]), files)
    BY <1>2, <1>3 DEF Untouched, patch
  <2>2. \A p \in Paths : files[p] = FileAt(patch.plan, patch.before, n, p)
    BY <1>1, <2>1 DEF UndoRan, n
  <2>3. Applicable(ReverseChange(patch.plan[n]), files)
    BY <1>1, <2>1, <2>2, ExactStep DEF Untouched, PatchRan
  <2> QED
    BY <2>1, <2>3
<1>5. Len(patching'.todo) = n - 1 /\ n - 1 \in Nat /\ n - 1 <= Len(patch.plan)
  BY <1>1, <1>2
<1>6. UndoRan(patch)'
  BY <1>1, <1>2, <1>4, <1>5 DEF UndoRan, patch
<1>7. Undoes'
  BY <1>1, <1>2, <1>6 DEF Undoes, UndoRan, Untouched, patch
<1> QED
  BY <1>2, <1>7 DEF TraceInv, ApplyRan, AppliedRan, PatchRan, Busy

LEMMA UndoDoneTrace ==
    ASSUME PatchInv, TraceInv, UndoDone
    PROVE  TraceInv'
<1>1. patching \in CallType /\ patching.at = "undo" /\ patching.todo = <<>>
  BY DEF PatchInv, PatchTypes, UndoDone, Busy
<1>2. /\ patching'.at = "undone" /\ patching'.todo = patching.todo /\ patching'.patch = patching.patch
      /\ patching'.ok = patching.ok /\ patching'.before = patching.before
      /\ UNCHANGED <<files, applied, mishaps>>
  BY <1>1 DEF UndoDone, Finish, CallType
<1>3. Undoes'
  BY <1>1, <1>2 DEF TraceInv, Undoes, UndoRan, Untouched
<1> QED
  BY <1>2, <1>3 DEF TraceInv, ApplyRan, AppliedRan, PatchRan, Busy

LEMMA NextTrace == PatchInv /\ TraceInv /\ [PatchNext]_patchVars => TraceInv'
<1> SUFFICES ASSUME PatchInv, TraceInv, [PatchNext]_patchVars PROVE TraceInv'
  OBVIOUS
<1>0. patching \in CallType
  BY DEF PatchInv, PatchTypes
<1>1. CASE UNCHANGED patchVars
  BY <1>1 DEF patchVars, TraceInv, ApplyRan, ToCome, AppliedRan, PatchRan, Undoes, UndoRan,
     Untouched, Busy
<1>2. CASE \E plan \in Plans : ApplyPatchPlan(plan)
  BY <1>2, ApplyPatchPlanTrace
<1>3. CASE \E k \in DOMAIN applied : RollbackPatch(k)
  BY <1>3, RollbackTrace
<1>4. CASE \E p \in Paths, content \in Given : Edit(p, content)
  BY <1>4, Elsewhere DEF Edit, Busy
<1>5. CASE ApplyStep
  <2>1. CASE ApplyChangeFails
    BY <1>0, <2>1, Elsewhere DEF ApplyChangeFails, CallType
  <2> QED
    BY <1>5, <2>1, ApplyChangeTrace, ApplyDoneTrace DEF ApplyStep
<1>6. CASE RestoreStep
  <2>1. patching'.at \in {"restore", "returned"} /\ applied' = applied
    BY <1>0, <1>6 DEF RestoreStep, RestoreFile, RestoreFails, RestoreDone, Finish, Busy, CallType
  <2> QED
    BY <2>1, Elsewhere
<1>7. CASE UndoStep
  BY <1>7, UndoChangeTrace, UndoChangeFailsTrace, UndoDoneTrace DEF UndoStep
<1>8. CASE Return \/ Restart
  BY <1>8, Elsewhere DEF Return, Restart, Idle
<1>9. CASE PatchCrash
  <2>1. patching'.at = "crashed" /\ applied' = <<>>
    BY <1>0, <1>9 DEF PatchCrash, CallType
  <2> QED
    BY <2>1 DEF TraceInv, ApplyRan, AppliedRan, Undoes, Busy
<1> QED
  BY <1>1, <1>2, <1>3, <1>4, <1>5, <1>6, <1>7, <1>8, <1>9 DEF PatchNext, Given

(* The same file, up to what read_text does not show.                       *)
SameText(x, y) == x = y \/ (x \in Contents /\ y \in Contents /\ AsRead[x] = AsRead[y])

TrueMeansSameText ==
    Busy("undone") /\ patching.ok =>
        LET patch == applied[patching.patch] IN
        \A i \in DOMAIN patch.plan :
            SameText(files[patch.plan[i].path], patch.before[patch.plan[i].path])

(* When all of a plan is undone, a path it touches reads as before it.      *)
LEMMA UndoneReadsAsBefore ==
    ASSUME NEW plan \in Seq(AnyChange), NEW before, NEW after,
           Ran(plan, before, after, Len(plan)),
           NEW fs, UndoneFrom(plan, fs, 0), NEW i \in DOMAIN plan
    PROVE  SameText(fs[plan[i].path], before[plan[i].path])
<1>1. Len(plan) \in Nat /\ DOMAIN plan = 1 .. Len(plan)
  OBVIOUS
<1>2. PICK m \in 1 .. Len(plan) : plan[m].path = plan[i].path /\ FirstSince(plan, 1, m)
  BY <1>1, FirstTouch
<1> DEFINE c == plan[m]
           x == before[c.path]
<1>3. c \in AnyChange
  BY <1>1
<1>4. Undoable(c) /\ fs[c.path] = Origin(c)
  <2>1. 0 + 1 = 1
    OBVIOUS
  <2> QED
    BY <1>2, <2>1 DEF UndoneFrom
<1>5. FileAt(plan, before, m - 1, c.path) = x
  BY <1>1, <1>2 DEF FileAt, Touches, FirstSince
<1>6. Asks(c, x)
  BY <1>1, <1>5 DEF Ran
<1> HIDE DEF c, x
<1>7. SameText(Origin(c), x)
  <2>1. CASE c.type = "added"
    BY <1>6, <2>1 DEF Asks, Origin, SameText
  <2>2. CASE c.type \in {"modified", "deleted"}
    <3>1. Origin(c) = c.old /\ x \in Contents /\ AsRead[x] = c.old
      BY <1>4, <1>6, <2>2 DEF Asks, Origin, Undoable
    <3>2. AsRead[x] \in Contents /\ AsRead[AsRead[x]] = AsRead[x]
      BY <3>1, PatchAssumption
    <3> QED
      BY <3>1, <3>2 DEF SameText
  <2>3. c.type # "unknown"
    BY <1>6 DEF Asks
  <2> QED
    BY <1>3, <2>1, <2>2, <2>3 DEF AnyChange, ChangeTypes, KnownTypes
<1> QED
  BY <1>2, <1>4, <1>7 DEF c, x

(* A rollback that is over: its patch, what ran of it and what is undone.   *)
LEMMA AtUndone ==
    ASSUME PatchInv, TraceInv, Busy("undone"),
           NEW patch, patch = applied[patching.patch]
    PROVE  /\ files \in Files /\ patch \in PatchType /\ patch.plan \in Seq(AnyChange)
           /\ PatchRan(patch) /\ UndoRan(patch) /\ Len(patching.todo) = 0
<1>1. patching.patch \in DOMAIN applied /\ UndoRan(patch) /\ PatchRan(patch) /\ patching.todo = <<>>
  BY DEF TraceInv, AppliedRan, Undoes, Busy
<1>2. files \in Files /\ patch \in PatchType
  BY <1>1 DEF PatchInv, PatchTypes
<1> QED
  BY <1>1, <1>2 DEF PatchType

LEMMA RolledBackText == PatchInv /\ TraceInv => TrueMeansSameText
<1> SUFFICES ASSUME PatchInv, TraceInv, Busy("undone"), patching.ok,
                    NEW patch, patch = applied[patching.patch], NEW i \in DOMAIN patch.plan
             PROVE  SameText(files[patch.plan[i].path], patch.before[patch.plan[i].path])
  BY DEF TrueMeansSameText
<1>1. /\ patch.plan \in Seq(AnyChange)
      /\ PatchRan(patch) /\ UndoRan(patch) /\ Len(patching.todo) = 0
  BY AtUndone
<1>2. UndoneFrom(patch.plan, files, 0)
  BY <1>1 DEF UndoRan
<1> QED
  BY <1>1, <1>2, UndoneReadsAsBefore DEF PatchRan

LEMMA RolledBackPlain == PlainText /\ TrueMeansSameText => TrueMeansRolledBack
<1>1. ASSUME PlainText, NEW x, NEW y, SameText(x, y) PROVE x = y
  BY <1>1 DEF PlainText, SameText
<1> QED
  BY <1>1 DEF TrueMeansSameText, TrueMeansRolledBack

LEMMA RolledBackWhole == PlainText /\ PatchInv /\ TraceInv => UntouchedRollsBack
<1> SUFFICES ASSUME PlainText, PatchInv, TraceInv, Busy("undone"), mishaps = {},
                    NEW patch, patch = applied[patching.patch],
                    patching.before = patch.after, Reversible(patch.plan)
             PROVE  patching.ok /\ files = patch.before
  BY DEF UntouchedRollsBack
<1>1. /\ files \in Files /\ patch \in PatchType /\ UndoRan(patch) /\ Len(patching.todo) = 0
  BY AtUndone
<1>2. patching.ok /\ \A p \in Paths : files[p] = FileAt(patch.plan, patch.before, 0, p)
  BY <1>1 DEF UndoRan, Untouched
<1>3. \A p \in Paths : files[p] = patch.before[p]
  BY <1>2, FileAtStart
<1>4. patch.before \in Files
  BY <1>1 DEF PatchType
<1> QED
  BY <1>1, <1>2, <1>3, <1>4 DEF Files

LEMMA TraceAlways == PatchSpec => [](PatchInv /\ TraceInv)
BY InitPatch, NextPatch, InitTrace, NextTrace, PTL DEF PatchSpec

(* Whatever the user edited in between, and whichever operation failed, a   *)
(* rollback that returned True left every file of its plan reading as it    *)
(* did before the patch (rollback_patch).                                   *)
THEOREM TrueRollbackReadsAsBefore == PatchSpec => []TrueMeansSameText
BY TraceAlways, RolledBackText, PTL

(* ... and being as it was, where files have no line ends but \n: comparing *)
(* what read_text gives cannot tell a \r\n that the patch has replaced.     *)
THEOREM TrueRollbackIsRollback ==
    ASSUME PlainText
    PROVE  PatchSpec => []TrueMeansRolledBack
<1>1. PatchInv /\ TraceInv => TrueMeansRolledBack
  BY RolledBackText, RolledBackPlain
<1> QED
  BY <1>1, TraceAlways, PTL

(* For such files, a patch nobody touched since, and that gives the content *)
(* of what it deletes, rolls back to exactly the files before it.           *)
THEOREM UntouchedPatchRollsBack ==
    ASSUME PlainText
    PROVE  PatchSpec => []UntouchedRollsBack
<1>1. PatchInv /\ TraceInv => UntouchedRollsBack
  BY RolledBackWhole
<1> QED
  BY <1>1, TraceAlways, PTL
=============================================================================
