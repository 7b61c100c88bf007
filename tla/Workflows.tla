----------------------------- MODULE Workflows -----------------------------
(***************************************************************************)
(* WorkflowEngine: one consumer group of the event bus whose handler runs  *)
(* every registered workflow that an event triggers, one after another;    *)
(* with the workflows CommerceBootstrapService and                         *)
(* AutomationRuntimeService register: the draft and task for an inbound    *)
(* message (SalesAgentService.reply), the alert of a message, the alert of *)
(* a changed price.                                                        *)
(*                                                                         *)
(* The engine subscribes when its module is initialised; the workflows are *)
(* registered later, by two hooks of the application's bootstrap.  Between *)
(* the two, the group already reads.  The handler never rejects, so every  *)
(* event it ends with is acknowledged; what a crash leaves unacknowledged  *)
(* is not read again (module EventBus).                                    *)
(***************************************************************************)
EXTENDS Integers, Sequences, FiniteSets, SequencesExt

CONSTANTS Message, Price,   \* facts: MessageReceived, PriceChanged
          BatchSize,        \* COUNT of xreadgroup
          MaxCrashes, MaxFaults

(* Assumed where the constants get their values (MCBus).                  *)
WorkflowsAssumption ==
  /\ IsFiniteSet(Message) /\ IsFiniteSet(Price) /\ Message \cap Price = {}
  /\ BatchSize \in Nat \ {0} /\ {MaxCrashes, MaxFaults} \subseteq Nat

VARIABLES
  stream,       \* facts in the order of the stream
  cursor,       \* how many of them the group was given
  batch,        \* those of them the loop has not acknowledged
  up,           \* the process has subscribed
  registered,   \* workflows in the order of the Map
  at,           \* index of the workflow that runs or ran last, 0 at a fact's beginning
  step,         \* its next step
  rows,         \* what the workflows wrote about each fact
  attempted,    \* history: workflows that were run for each fact
  failed,       \* history: those of them that rejected
  offered,      \* history: workflows registered when the handler ended with a fact
  lost,         \* history: facts whose batch a crash cut off
  early,        \* history: facts in the stream before all hooks had run
  crashes, faults

group   == <<stream, cursor, batch>>
engine  == <<up, registered, at, step>>
history == <<attempted, failed, offered, lost, early>>
vars    == <<group, engine, rows, history, crashes, faults>>

Fact == Message \cup Price

(* What each hook registers.                                               *)
Hooks == {<<"reply">>, <<"messageAlert", "priceAlert">>}
Workflow == UNION {ToSet(h) : h \in Hooks}

Triggers(w, e) == IF w = "priceAlert" THEN e \in Price ELSE e \in Message

Row  == [notes : Nat, tasks : Nat, inApp : Nat, dispatched : Nat, executed : Nat]
Step == {"next", "notify", "ai", "review", "handOver", "call", "inApp", "dispatch", "execute"}

TypeOK ==
  /\ stream \in Seq(Fact) /\ cursor \in 0..Len(stream)
  /\ batch \in Seq(Fact) /\ Len(batch) <= BatchSize
  /\ up \in BOOLEAN
  /\ registered \in Seq(Workflow) /\ at \in 0..Len(registered) /\ step \in Step
  /\ rows \in [Fact -> Row]
  /\ {attempted, failed, offered} \subseteq [Fact -> SUBSET Workflow]
  /\ lost \subseteq Fact /\ early \subseteq Fact
  /\ crashes \in 0..MaxCrashes /\ faults \in 0..MaxFaults

Init ==
  /\ stream = <<>> /\ cursor = 0 /\ batch = <<>>
  /\ up = FALSE /\ registered = <<>> /\ at = 0 /\ step = "next"
  /\ rows = [e \in Fact |-> [notes |-> 0, tasks |-> 0, inApp |-> 0, dispatched |-> 0, executed |-> 0]]
  /\ attempted = [e \in Fact |-> {}] /\ failed = attempted /\ offered = attempted
  /\ lost = {} /\ early = {} /\ crashes = 0 /\ faults = 0

-----------------------------------------------------------------------------
(* The process and the stream.                                             *)

Complete == ToSet(registered) = Workflow

(* WorkflowEngine.onModuleInit                                             *)
Boot ==
  /\ ~up /\ up' = TRUE
  /\ early' = early \cup ToSet(SubSeq(stream, cursor + 1, Len(stream)))
  /\ UNCHANGED <<group, registered, at, step, rows, attempted, failed, offered, lost, crashes, faults>>

(* onApplicationBootstrap of one of the two, WorkflowEngine.register       *)
Register ==
  /\ up
  /\ \E h \in Hooks :
       /\ ToSet(h) \cap ToSet(registered) = {}
       /\ registered' = registered \o h
  /\ UNCHANGED <<group, up, at, step, rows, history, crashes, faults>>

Publish(e) ==
  /\ up /\ e \notin ToSet(stream)
  /\ stream' = Append(stream, e)
  /\ early' = IF Complete THEN early ELSE early \cup {e}
  /\ UNCHANGED <<cursor, batch, engine, rows, attempted, failed, offered, lost, crashes, faults>>

(* Mutant of Crash: what was not acknowledged is read again.               *)
CrashRedelivers ==
  /\ up /\ crashes < MaxCrashes /\ crashes' = crashes + 1
  /\ up' = FALSE /\ registered' = <<>> /\ at' = 0 /\ step' = "next" /\ batch' = <<>>
  /\ cursor' = cursor - Len(batch)
  /\ UNCHANGED <<stream, rows, history, faults>>

Crash ==
  /\ up /\ crashes < MaxCrashes /\ crashes' = crashes + 1
  /\ up' = FALSE /\ registered' = <<>> /\ at' = 0 /\ step' = "next" /\ batch' = <<>>
  /\ lost' = lost \cup ToSet(batch)
  /\ UNCHANGED <<stream, cursor, rows, attempted, failed, offered, early, faults>>

-----------------------------------------------------------------------------
(* EventBusService.subscribe: read a batch; WorkflowEngine.dispatch: run   *)
(* what is registered, the Map being read while it grows.                  *)

Read ==
  /\ up /\ batch = <<>> /\ cursor < Len(stream)
  /\ \E n \in 1..BatchSize :
       /\ cursor + n <= Len(stream)
       /\ batch' = SubSeq(stream, cursor + 1, cursor + n)
       /\ cursor' = cursor + n
  /\ UNCHANGED <<stream, engine, rows, history, crashes, faults>>

Event == Head(batch)
Running == registered[at]

(* Workflows still to be tried for the fact under way.                     *)
Matching == {i \in DOMAIN registered : i > at /\ Triggers(registered[i], Event)}

FirstStep(w) == IF w = "reply" THEN "notify" ELSE "inApp"

RunWorkflow ==
  /\ batch # <<>> /\ step = "next" /\ Matching # {}
  /\ LET i == CHOOSE i \in Matching : \A j \in Matching : i <= j IN
       /\ at' = i
       /\ step' = FirstStep(registered[i])
       /\ attempted' = [attempted EXCEPT ![Event] = @ \cup {registered[i]}]
  /\ UNCHANGED <<group, up, registered, rows, failed, offered, lost, early, crashes, faults>>

(* Mutant of Acknowledge: what a workflow failed on is held back.          *)
AcknowledgeClean ==
  /\ batch # <<>> /\ step = "next" /\ Matching = {} /\ failed[Event] = {}
  /\ batch' = Tail(batch) /\ at' = 0
  /\ offered' = [offered EXCEPT ![Event] = ToSet(registered)]
  /\ UNCHANGED <<stream, cursor, up, registered, step, rows, attempted, failed, lost, early, crashes, faults>>

Acknowledge ==
  /\ batch # <<>> /\ step = "next" /\ Matching = {}
  /\ batch' = Tail(batch) /\ at' = 0
  /\ offered' = [offered EXCEPT ![Event] = ToSet(registered)]
  /\ UNCHANGED <<stream, cursor, up, registered, step, rows, attempted, failed, lost, early, crashes, faults>>

(* The step of a workflow that writes one row and goes on.                 *)
Write(from, field, to) ==
  /\ step = from /\ step' = to
  /\ rows' = [rows EXCEPT ![Event][field] = @ + 1]
  /\ UNCHANGED <<group, up, registered, at, history, crashes, faults>>

(* Mutant of WorkflowFails: the loop over the workflows is inside the try. *)
FailureStops ==
  /\ step # "next" /\ faults < MaxFaults /\ faults' = faults + 1
  /\ step' = "next" /\ at' = Len(registered)
  /\ failed' = [failed EXCEPT ![Event] = @ \cup {Running}]
  /\ UNCHANGED <<group, up, registered, rows, attempted, offered, lost, early, crashes>>

(* dispatch's catch: the workflow's error is logged, the next one is run.  *)
Catch ==
  /\ step # "next" /\ faults < MaxFaults /\ faults' = faults + 1
  /\ step' = "next"
  /\ failed' = [failed EXCEPT ![Event] = @ \cup {Running}]
  /\ UNCHANGED <<group, up, registered, at, attempted, offered, lost, early, crashes>>

WorkflowFails == Catch /\ UNCHANGED rows

(* The last row of a workflow: what comes after it, the entry of the log or*)
(* the rest of publish, may still reject.                                  *)
WriteLast(from, field) ==
  \/ Write(from, field, "next")
  \/ /\ step = from /\ Catch
     /\ rows' = [rows EXCEPT ![Event][field] = @ + 1]

-----------------------------------------------------------------------------
(* 'auto-reply-task': NotificationEngine.notify, then SalesAgent.reply: by *)
(* the confidence of the draft, a task to review it, or a task and a       *)
(* notification for the manager.                                           *)

NotifyInbox == Write("notify", "notes", "ai")

Draft ==
  /\ step = "ai" /\ step' \in {"review", "handOver"}
  /\ UNCHANGED <<group, up, registered, at, rows, history, crashes, faults>>

CreateReviewTask == WriteLast("review", "tasks")
CreateManagerTask == Write("handOver", "tasks", "call")
NotifyManager == WriteLast("call", "notes")

-----------------------------------------------------------------------------
(* An alert: NotificationChannelService.dispatch, which catches what the   *)
(* channel throws and publishes NotificationDispatched, then               *)
(* AutomationExecuted.                                                     *)

InApp ==
  \/ Write("inApp", "inApp", "dispatch")
  \/ /\ step = "inApp" /\ step' = "dispatch"
     /\ faults < MaxFaults /\ faults' = faults + 1
     /\ UNCHANGED <<group, up, registered, at, rows, history, crashes>>

PublishDispatched == Write("dispatch", "dispatched", "execute")
PublishExecuted == WriteLast("execute", "executed")

Dispatch ==
  \/ RunWorkflow \/ Acknowledge
  \/ NotifyInbox \/ Draft \/ CreateReviewTask \/ CreateManagerTask \/ NotifyManager
  \/ InApp \/ PublishDispatched \/ PublishExecuted

Next ==
  \/ Boot \/ Register \/ Read \/ Dispatch \/ WorkflowFails \/ Crash
  \/ \E e \in Fact : Publish(e)

(* The process is started again, its hooks run, its loop goes on.          *)
Spec ==
  /\ Init /\ [][Next]_vars
  /\ WF_vars(Boot) /\ WF_vars(Register) /\ WF_vars(Read) /\ WF_vars(Dispatch)

-----------------------------------------------------------------------------
(* Properties.                                                             *)

Ended(e) == \E i \in 1..cursor : stream[i] = e /\ e \notin ToSet(batch) /\ e \notin lost

(* One workflow's error never keeps the others from the event, whatever    *)
(* order the hooks ran in: each that was registered by the end of its      *)
(* dispatch was run (dispatch).                                            *)
FailureContained ==
  \A e \in Fact : Ended(e) => \A w \in offered[e] : Triggers(w, e) => w \in attempted[e]

(* Only a fact that was in the stream before the hooks had run can miss a  *)
(* workflow (onModuleInit against onApplicationBootstrap).                 *)
MissedOnlyEarly ==
  \A e \in Fact \ early : Ended(e) => \A w \in Workflow : Triggers(w, e) => w \in attempted[e]

(* Each fact is offered to every workflow that was there in time, and one  *)
(* that was there is tried whatever happened to the others (dispatch).     *)
WorkflowsTried == TypeOK /\ FailureContained /\ MissedOnlyEarly

(* No crash, restart or growing Map makes a workflow write twice about a   *)
(* fact.                                                                   *)
WrittenOnce ==
  \A e \in Fact :
    LET r == rows[e] IN r.tasks <= 1 /\ r.notes <= 1 + r.tasks /\ r.inApp <= 1 /\ r.executed <= 1

(* A reply that was run to its end left its notification and its task, an  *)
(* alert its two events, in this order, whatever was caught in between.    *)
OutcomeWhole ==
  \A e \in Fact :
    LET r == rows[e]
        whole == attempted[e] \ failed[e] IN
    /\ r.executed <= r.dispatched
    /\ r.tasks <= r.notes
    /\ Ended(e) /\ "reply" \in whole => r.tasks = 1 /\ r.notes > 0
    /\ Ended(e) /\ whole \cap {"messageAlert", "priceAlert"} # {} => r.executed = 1

(* What the workflows wrote about a fact is there once, and whole if they  *)
(* ran to their end (SalesAgent.reply, NotificationChannelService.dispatch).*)
OutcomesWhole == WrittenOnce /\ OutcomeWhole

(* No failing workflow, crash or restart stops the group: every fact that  *)
(* is published is done with, or its batch was cut off.                    *)
GroupGoesOn == \A e \in Fact : e \in ToSet(stream) ~> (Ended(e) \/ e \in lost)
=============================================================================
