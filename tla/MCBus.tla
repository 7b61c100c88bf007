------------------------------- MODULE MCBus -------------------------------
(***************************************************************************)
(* The event bus (EventBus), and beside it the engine that runs workflows  *)
(* for what one of its groups reads (Workflows).  The first has any        *)
(* handler behind it, the second one group with its own: they have no      *)
(* variable in common, and the bus rests while the workflows are checked.  *)
(***************************************************************************)
EXTENDS EventBus

CONSTANTS Message, Price, BatchSize, MaxCrashes, MaxFaults

VARIABLES stream, cursor, facts, up, registered, at, step, rows,
          attempted, failed, offered, lost, early, crashes, faults

W == INSTANCE Workflows WITH batch <- facts

ASSUME BusAssumption == W!WorkflowsAssumption

workflows == <<stream, cursor, facts, up, registered, at, step, rows, attempted, failed,
               offered, lost, early, crashes, faults>>

(* Workflows!Spec, the bus at rest.                                        *)
WorkflowsSpec ==
  /\ Init /\ W!Init /\ [][W!Next /\ UNCHANGED vars]_<<vars, workflows>>
  /\ WF_workflows(W!Boot) /\ WF_workflows(W!Register)
  /\ WF_workflows(W!Read) /\ WF_workflows(W!Dispatch)

(* The workflows an event reaches: every part of Workflows' properties.    *)
WorkflowsTried == W!WorkflowsTried

(* What they leave behind: every part of Workflows' properties.            *)
OutcomesWhole == W!OutcomesWhole

(* No failing workflow, crash or restart stops the group (Workflows).      *)
GroupGoesOn == W!GroupGoesOn
=============================================================================
