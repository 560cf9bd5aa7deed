----------------------------- MODULE ToolRunner -----------------------------
(***************************************************************************)
(* One run_command of the agent's tool runner (agent_core/tool_runner.py):   *)
(* the answers given before anything runs, the child process in a group of   *)
(* its own, and the timeout: SIGTERM to the group, half a second, SIGKILL    *)
(* to the group if the child still lives, one more second for the output.    *)
(*                                                                         *)
(* The child may start a helper, in its group or not, that inherits its      *)
(* pipes: communicate() returns when the child has ended and nobody holds    *)
(* the pipes.  Any process may end by itself at any time, obey SIGTERM at    *)
(* once or ignore it; none survives SIGKILL.                                 *)
(*                                                                         *)
(* Abstractions.  The permission rules are an input: what they answer for    *)
(* the command.  Output is whole or lost.                                    *)
(***************************************************************************)
EXTENDS Integers

VARIABLES
    request,    \* what run_command was called with, and what the rules answer
    run,        \* where run_command is, and what it returned
    child,      \* "none", "alive", "dead": the child and ...
    code,       \* ... its exit code, negative for a signal
    helper      \* the helper, if it was started: [alive, inGroup]

toolVars == <<request, run, child, code, helper>>
-----------------------------------------------------------------------------
Requests ==
    [permission : {"denied", "confirm", "allowed"}, confirmed : BOOLEAN,
     inside : BOOLEAN, found : BOOLEAN, timeout : BOOLEAN]

NoHelper == [alive |-> FALSE, inGroup |-> FALSE]

At(step) == run.at = step

Goto(step) == run' = [run EXCEPT !.at = step]

Returned(result, timedOut) ==
    run' = [at |-> "returned", result |-> result, timedOut |-> timedOut, whole |-> ~timedOut]

\* killed_by_signal of the result: a timeout reads as signal 1.
KilledBySignal == IF run.result < 0 THEN -run.result ELSE 0

PipesClosed == ~helper.alive
-----------------------------------------------------------------------------
(* The answers without a process: -1 not permitted, -2 not confirmed, -4     *)
(* outside the workspace, -3 when Popen raises.                              *)
Refusal ==
    CASE request.permission = "denied" -> -1
      [] request.permission = "confirm" /\ ~request.confirmed -> -2
      [] request.permission # "denied" /\ (request.permission = "confirm" => request.confirmed) ->
            IF ~request.inside THEN -4 ELSE IF ~request.found THEN -3 ELSE 0

RunCommandRefused ==
    /\ At("called")
    /\ Refusal # 0
    /\ Returned(Refusal, FALSE)
    /\ UNCHANGED <<request, child, code, helper>>

Popen ==
    /\ At("called")
    /\ Refusal = 0
    /\ child' = "alive"
    /\ Goto("communicate")
    /\ UNCHANGED <<request, code, helper>>

Communicated ==
    /\ At("communicate")
    /\ child = "dead"
    /\ PipesClosed
    /\ Returned(code, FALSE)
    /\ UNCHANGED <<request, child, code, helper>>

TimeoutExpires ==
    /\ At("communicate")
    /\ request.timeout
    /\ child = "alive" \/ ~PipesClosed
    /\ Goto("terminate")
    /\ UNCHANGED <<request, child, code, helper>>

(* Who obeys a signal sent to the group, and who does not.                   *)
Signalled(obeying, signal) ==
    /\ child' = IF "child" \in obeying THEN "dead" ELSE child
    /\ code' = IF "child" \in obeying /\ child = "alive" THEN -signal ELSE code
    /\ helper' = IF "helper" \in obeying /\ helper.inGroup THEN [helper EXCEPT !.alive = FALSE] ELSE helper

TerminateGroup ==
    /\ At("terminate")
    /\ \E obeying \in SUBSET {"child", "helper"} : Signalled(obeying, 15)
    /\ Goto("poll")
    /\ UNCHANGED request

(* Mutant of KillGroup: only the child is killed. *)
KillChildOnly ==
    /\ At("poll")
    /\ IF child = "alive" THEN Signalled({"child"}, 9) ELSE UNCHANGED <<child, code, helper>>
    /\ Goto("collect")
    /\ UNCHANGED request

KillGroup ==
    /\ At("poll")
    /\ IF child = "alive" THEN Signalled({"child", "helper"}, 9) ELSE UNCHANGED <<child, code, helper>>
    /\ Goto("collect")
    /\ UNCHANGED request

(* The output is lost if somebody still holds the pipes a second later; the  *)
(* result is the same.                                                       *)
Collect ==
    /\ At("collect")
    /\ \/ /\ child = "dead" /\ PipesClosed
          /\ run' = [at |-> "returned", result |-> -1, timedOut |-> TRUE, whole |-> TRUE]
       \/ /\ child = "alive" \/ ~PipesClosed
          /\ Returned(-1, TRUE)
    /\ UNCHANGED <<request, child, code, helper>>
-----------------------------------------------------------------------------
(* The processes.                                                            *)
ChildEnds ==
    /\ child = "alive"
    /\ child' = "dead"
    /\ code' \in {0, 1, -11}
    /\ UNCHANGED <<request, run, helper>>

HelperStarts ==
    /\ child = "alive"
    /\ helper = NoHelper
    /\ \E inGroup \in BOOLEAN : helper' = [alive |-> TRUE, inGroup |-> inGroup]
    /\ UNCHANGED <<request, run, child, code>>

HelperEnds ==
    /\ helper.alive
    /\ helper' = [helper EXCEPT !.alive = FALSE]
    /\ UNCHANGED <<request, run, child, code>>

ToolInit ==
    /\ request \in Requests
    /\ run = [at |-> "called", result |-> 0, timedOut |-> FALSE, whole |-> FALSE]
    /\ child = "none"
    /\ code = 0
    /\ helper = NoHelper

RunCommand ==
    RunCommandRefused \/ Popen \/ Communicated \/ TimeoutExpires \/ TerminateGroup \/ KillGroup \/ Collect

ToolNext == RunCommand \/ ChildEnds \/ HelperStarts \/ HelperEnds
=============================================================================
