---------------------------- MODULE AgentPipeline ----------------------------
(***************************************************************************)
(* What the agent makes of a task of the store (agent_core): the solver      *)
(* turns failed tests into patch plans, the critic reviews a plan, the      *)
(* judge gives a verdict, the report generator and the finalizer write it    *)
(* up.  A verdict is a value of its own: the task may change between the     *)
(* judge and the finalizer.                                                  *)
(*                                                                         *)
(* A patch plan is what the critic looks at: its changes, with or without    *)
(* their contents, and whether its texts say enough.                         *)
(***************************************************************************)
EXTENDS Orchestrator

VARIABLES
    verdict,    \* the verdict in hand: its task, what it says, the task then
    reports,    \* what the report of each task says, None without one
    output,     \* the final output written last
    plans,      \* patch plans that wait for the critic
    review      \* the plan reviewed last and the severities found

pipeVars == <<verdict, reports, output>>

reviewVars == <<plans, review>>

Change == [path : {1}, type : {"modified", "added", "deleted", "unknown"}, old : {None, 1, 2}, new : {None, 1, 2}]

PatchPlan == [changes : {<<>>} \cup {<<c>> : c \in Change}, texts : BOOLEAN,
              risks : {"none", "low", "named"}, impact : BOOLEAN]
-----------------------------------------------------------------------------
(* solve_problems: one plan per failed test, in order.  The two special      *)
(* solvers pass arguments PatchPlan.add_file_change does not have and raise, *)
(* and every other problem gets a plan without changes.                      *)
PlaceholderPlan == [changes |-> <<>>, texts |-> TRUE, risks |-> "none", impact |-> FALSE]

SolverRaises(special) == \E i \in DOMAIN special : special[i]

SolveProblems(special) == [i \in DOMAIN special |-> PlaceholderPlan]

(* Mutant of CritiqueChange: the two contents of a modified file are         *)
(* compared before they are looked for. *)
CritiqueChangeComparesFirst(c) ==
    CASE c.type = "modified" /\ c.old = c.new -> {"low"}
      [] c.type = "modified" /\ c.old # c.new /\ None \in {c.old, c.new} -> {"high"}
      [] c.type = "added" /\ c.new = None     -> {"high"}
      [] c.type = "deleted" /\ c.old = None   -> {"medium"}
      [] OTHER -> {}

CritiqueChange(c) ==
    CASE c.type = "modified" /\ None \in {c.old, c.new} -> {"high"}
      [] c.type = "modified" /\ None \notin {c.old, c.new} /\ c.old = c.new -> {"low"}
      [] c.type = "added" /\ c.new = None   -> {"high"}
      [] c.type = "deleted" /\ c.old = None -> {"medium"}
      [] OTHER -> {}

(* critique_patch_plan: the severities of what it finds.                     *)
CritiquePatchPlan(plan) ==
    (IF plan.texts THEN {} ELSE {"medium"})
    \cup (IF plan.changes = <<>> THEN {"high"}
          ELSE UNION {CritiqueChange(plan.changes[i]) : i \in DOMAIN plan.changes})
    \cup (CASE plan.risks = "none" -> {"low"}
            [] plan.risks = "low" -> {"medium"}
            [] plan.risks = "named" -> {})
    \cup (IF plan.impact THEN {} ELSE {"low"})

(* Plans come from the solver, one failed test special or not, or from       *)
(* another author.                                                           *)
Propose ==
    /\ plans = <<>>
    /\ \/ \E special \in UNION {[1 .. n -> BOOLEAN] : n \in 1 .. 2} :
             /\ ~SolverRaises(special)
             /\ plans' = SolveProblems(special)
       \/ \E plan \in PatchPlan : plans' = <<plan>>
    /\ UNCHANGED review

Review ==
    /\ plans # <<>>
    /\ plans' = Tail(plans)
    /\ review' = [plan |-> Head(plans), findings |-> CritiquePatchPlan(Head(plans))]

ReviewInit == plans = <<>> /\ review = None
-----------------------------------------------------------------------------
AllTestsPassed(task) == task.passed > 0 /\ task.failed = 0

(* AgentVerdict.from_task_state *)
VerdictFromTaskState(task) == task.status = "completed" /\ AllTestsPassed(task)

(* _apply_judgment_criteria: what it requires of the task.  Tests count only *)
(* when there are any.                                                       *)
Criteria(task) ==
    (IF task.passed + task.failed > 0 THEN {task.failed = 0} ELSE {})
    \cup {~task.error, task.status = "completed"}
    \cup (IF task.failed > 0 THEN {task.patched} ELSE {})

(* It takes the length of a count when tests failed and patches were         *)
(* applied, which raises.                                                    *)
CriteriaRaise(task) == task.failed > 0 /\ task.patched

ComputeOverallSuccess(task) == FALSE \notin Criteria(task)

(* _generate_judgment_summary *)
JudgmentSummary(task) ==
    IF VerdictFromTaskState(task) THEN "all tests passing"
    ELSE IF task.status \in {"failed", "cancelled"} THEN task.status
    ELSE "is " \o task.status

Judged(t) ==
    [task |-> t, success |-> ComputeOverallSuccess(mem[t]),
     summary |-> JudgmentSummary(mem[t]), seen |-> mem[t]]

JudgeTaskCompletion(t) ==
    /\ call = "idle"
    /\ mem[t] # None
    /\ ~CriteriaRaise(mem[t])
    /\ verdict' = Judged(t)
    /\ UNCHANGED <<storeVars, reports, output>>

(* generate_task_report, with the verdict in hand or, without one, with one  *)
(* of its own.                                                               *)
GenerateTaskReport(t) ==
    /\ call = "idle"
    /\ mem[t] # None
    /\ \/ /\ verdict # None /\ verdict.task = t
          /\ reports' = [reports EXCEPT ![t] = verdict.success]
       \/ /\ ~CriteriaRaise(mem[t])
          /\ reports' = [reports EXCEPT ![t] = ComputeOverallSuccess(mem[t])]
    /\ UNCHANGED <<storeVars, verdict, output>>

(* Mutant of FinalOutput: the title follows the status of the task. *)
FinalOutputOfStatus(t) ==
    [task |-> t, success |-> mem[t].status = "completed",
     status |-> mem[t].status, passed |-> mem[t].passed,
     tests |-> mem[t].passed + mem[t].failed, verdict |-> verdict, seen |-> mem[t]]

(* finalize_task: the title and the claim "All n tests passed" follow the    *)
(* verdict, the numbers the task as it is now.                               *)
FinalOutput(t) ==
    [task |-> t, success |-> verdict.success,
     status |-> mem[t].status, passed |-> mem[t].passed,
     tests |-> mem[t].passed + mem[t].failed, verdict |-> verdict, seen |-> mem[t]]

FinalizeTask(t) ==
    /\ call = "idle"
    /\ mem[t] # None
    /\ verdict # None
    /\ verdict.task = t
    /\ output' = FinalOutput(t)
    /\ UNCHANGED <<storeVars, verdict, reports>>

ClearReports ==
    /\ reports' = [t \in Tasks |-> None]
    /\ verdict' = None
    /\ output' = None
    /\ UNCHANGED storeVars

PipeInit ==
    /\ verdict = None
    /\ reports = [t \in Tasks |-> None]
    /\ output = None

(* A process that dies takes verdict, reports and output with it.            *)
StoreStep ==
    /\ StoreNext
    /\ IF call' = "down" THEN verdict' = None /\ output' = None /\ reports' = [t \in Tasks |-> None]
       ELSE UNCHANGED pipeVars

PipeNext ==
    \/ \E t \in Tasks : JudgeTaskCompletion(t) \/ GenerateTaskReport(t) \/ FinalizeTask(t)
    \/ ClearReports
=============================================================================
