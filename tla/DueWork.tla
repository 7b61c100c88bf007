------------------------------ MODULE DueWork ------------------------------
(***************************************************************************)
(* Three loops over rows that write one row after another, with no         *)
(* transaction around them: AvitoFollowUpEngineService.tick (every hour),  *)
(* AutomationRulesService.evaluateAll and                                  *)
(* PriceIntelligenceService.generateForTenant (the scheduler's tick and an *)
(* operator's request).  Calls of each overlap, throw, or are cut off by a *)
(* restart.                                                                *)
(*                                                                         *)
(* What a rule looks at and what the model advises is a free choice; an    *)
(* ad's recommendations depend on no other ad's, so one ad stands for all. *)
(***************************************************************************)
EXTENDS Integers, FiniteSets

CONSTANTS FollowUp,      \* rows of avitoFollowUp, all of them due
          Rule,          \* enabled rules with actionType task
          Call,          \* ticks and requests under way
          MaxRequests,   \* bound on calls of the loops over rules and ads
          MaxFaults

ASSUME DueWorkAssumption ==
  /\ IsFiniteSet(FollowUp) /\ IsFiniteSet(Rule) /\ IsFiniteSet(Call)
  /\ MaxRequests \in Nat /\ MaxFaults \in Nat

VARIABLES
  followUps,   \* status, tasks and notifications of each follow-up
  fired,       \* of each rule: item of the day, tasks, triggerCount
  pending,     \* pending price recommendations of the ad
  pc,          \* next step of each call
  todo,        \* rows it has read and not done
  requests, faults

calls  == <<pc, todo>>
counts == <<requests, faults>>
vars   == <<followUps, fired, pending, calls, counts>>

Pc == {"idle", "task", "notify", "execute", "check", "item", "act", "count", "look", "advise"}

TypeOK ==
  /\ followUps \in [FollowUp -> [status : {"pending", "executed"}, tasks : Nat, notified : Nat]]
  /\ fired \in [Rule -> [item : BOOLEAN, tasks : Nat, triggerCount : Nat]]
  /\ pending \in Nat
  /\ pc \in [Call -> Pc] /\ todo \in [Call -> SUBSET (FollowUp \cup Rule)]
  /\ requests \in 0..MaxRequests /\ faults \in 0..MaxFaults

Init ==
  /\ followUps = [f \in FollowUp |-> [status |-> "pending", tasks |-> 0, notified |-> 0]]
  /\ fired = [r \in Rule |-> [item |-> FALSE, tasks |-> 0, triggerCount |-> 0]]
  /\ pending = 0
  /\ pc = [c \in Call |-> "idle"] /\ todo = [c \in Call |-> {}]
  /\ requests = 0 /\ faults = 0

Goto(c, step) == pc' = [pc EXCEPT ![c] = step] /\ UNCHANGED todo

Begin(c, step, rows) ==
  /\ pc[c] = "idle"
  /\ pc' = [pc EXCEPT ![c] = step] /\ todo' = [todo EXCEPT ![c] = rows]

(* The row a call is at, in the order of the database.                     *)
At(c) == CHOOSE r \in todo[c] : TRUE

NextRow(c, step) ==
  /\ todo' = [todo EXCEPT ![c] = @ \ {At(c)}]
  /\ pc' = [pc EXCEPT ![c] = IF todo[c] = {At(c)} THEN "idle" ELSE step]

Leave(c) == pc' = [pc EXCEPT ![c] = "idle"] /\ todo' = [todo EXCEPT ![c] = {}]

-----------------------------------------------------------------------------
(* AvitoFollowUpEngineService.tick.  One that finds nothing due does       *)
(* nothing.                                                                *)

(* Mutant of Due: a row with a task counts as served.                      *)
DueOnce == {f \in FollowUp : followUps[f].status = "pending" /\ followUps[f].tasks = 0}

Due == {f \in FollowUp : followUps[f].status = "pending"}

(* Mutant of BeginFollowUps: rows are marked when they are read.           *)
MarkFirst(c) ==
  /\ Due # {}
  /\ Begin(c, "task", Due)
  /\ followUps' = [f \in FollowUp |-> [followUps[f] EXCEPT !.status = "executed"]]
  /\ UNCHANGED <<fired, pending, counts>>

BeginFollowUps(c) ==
  /\ Due # {}
  /\ Begin(c, "task", Due)
  /\ UNCHANGED <<followUps, fired, pending, counts>>

CreateTask(c) ==
  /\ pc[c] = "task"
  /\ followUps' = [followUps EXCEPT ![At(c)].tasks = @ + 1]
  /\ Goto(c, "notify")
  /\ UNCHANGED <<fired, pending, counts>>

Notify(c) ==
  /\ pc[c] = "notify"
  /\ followUps' = [followUps EXCEPT ![At(c)].notified = @ + 1]
  /\ Goto(c, "execute")
  /\ UNCHANGED <<fired, pending, counts>>

MarkExecuted(c) ==
  /\ pc[c] = "execute"
  /\ followUps' = [followUps EXCEPT ![At(c)].status = "executed"]
  /\ NextRow(c, "task")
  /\ UNCHANGED <<fired, pending, counts>>

-----------------------------------------------------------------------------
(* AutomationRulesService.evaluateAll: the observatory item, upserted by   *)
(* rule and day; the task; the row of the rule.                            *)

Ask == requests < MaxRequests /\ requests' = requests + 1 /\ UNCHANGED faults

BeginRules(c) ==
  /\ Ask /\ Rule # {}
  /\ Begin(c, "check", Rule)
  /\ UNCHANGED <<followUps, fired, pending>>

CheckRule(c) ==
  /\ pc[c] = "check"
  /\ Goto(c, "item") \/ NextRow(c, "check")
  /\ UNCHANGED <<followUps, fired, pending, counts>>

UpsertItem(c) ==
  /\ pc[c] = "item"
  /\ fired' = [fired EXCEPT ![At(c)].item = TRUE]
  /\ Goto(c, "act")
  /\ UNCHANGED <<followUps, pending, counts>>

Act(c) ==
  /\ pc[c] = "act"
  /\ fired' = [fired EXCEPT ![At(c)].tasks = @ + 1]
  /\ Goto(c, "count")
  /\ UNCHANGED <<followUps, pending, counts>>

CountTrigger(c) ==
  /\ pc[c] = "count"
  /\ fired' = [fired EXCEPT ![At(c)].triggerCount = @ + 1]
  /\ NextRow(c, "check")
  /\ UNCHANGED <<followUps, pending, counts>>

-----------------------------------------------------------------------------
(* PriceIntelligenceService: no recommendation is made while one is        *)
(* pending; the model's answer comes between the look and the insert.      *)

BeginPrices(c) ==
  /\ Ask
  /\ Begin(c, "look", {})
  /\ UNCHANGED <<followUps, fired, pending>>

LookForPending(c) ==
  /\ pc[c] = "look"
  /\ Goto(c, IF pending > 0 THEN "idle" ELSE "advise")
  /\ UNCHANGED <<followUps, fired, pending, counts>>

Advise(c) ==
  /\ pc[c] = "advise"
  /\ pending' \in {pending, pending + 1}
  /\ Goto(c, "idle")
  /\ UNCHANGED <<followUps, fired, counts>>

Dismiss ==
  /\ pending > 0 /\ pending' = pending - 1
  /\ UNCHANGED <<followUps, fired, calls, counts>>

-----------------------------------------------------------------------------
Fault == faults < MaxFaults /\ faults' = faults + 1 /\ UNCHANGED requests

(* An await rejects: the whole call gives up, rows it has written stay.    *)
Throws(c) ==
  /\ pc[c] # "idle" /\ Fault
  /\ Leave(c)
  /\ UNCHANGED <<followUps, fired, pending>>

Restart ==
  /\ \E c \in Call : pc[c] # "idle"
  /\ Fault
  /\ pc' = [c \in Call |-> "idle"] /\ todo' = [c \in Call |-> {}]
  /\ UNCHANGED <<followUps, fired, pending>>

Continue(c) ==
  \/ CreateTask(c) \/ Notify(c) \/ MarkExecuted(c)
  \/ CheckRule(c) \/ UpsertItem(c) \/ Act(c) \/ CountTrigger(c)
  \/ LookForPending(c) \/ Advise(c)

Next ==
  \/ \E c \in Call : BeginFollowUps(c) \/ BeginRules(c) \/ BeginPrices(c) \/ Continue(c) \/ Throws(c)
  \/ Dismiss \/ Restart

-----------------------------------------------------------------------------
(* Properties.                                                             *)

Working(c, row, steps) == pc[c] \in steps /\ todo[c] # {} /\ At(c) = row

(* A follow-up is marked only when its task and its notification are       *)
(* there, and each tick under way at once or cut off makes one more task   *)
(* at most, however the ticks overlap (tick).                              *)
FollowUpsAccounted ==
  \A f \in FollowUp :
    /\ followUps[f].status = "executed" => followUps[f].tasks > 0 /\ followUps[f].notified > 0
    /\ followUps[f].notified <= followUps[f].tasks
    /\ followUps[f].tasks <= Cardinality(Call) * (faults + 1)

(* A rule's count lags its tasks by those under way and by at most one per *)
(* call that a fault cut off, and it never counts what it did not do.      *)
TriggersCounted ==
  \A r \in Rule :
    LET lag == fired[r].tasks - fired[r].triggerCount IN
    /\ lag >= Cardinality({c \in Call : Working(c, r, {"count"})})
    /\ lag <= Cardinality({c \in Call : Working(c, r, {"count"})}) + faults * Cardinality(Call)
    /\ fired[r].tasks > 0 => fired[r].item

(* Looking first and inserting after the model has answered lets           *)
(* overlapping calls recommend twice for an ad, but no more of them than   *)
(* run at a time, whatever is dismissed in between (generateForTenant).    *)
PendingBounded ==
  pending + Cardinality({c \in Call : pc[c] = "advise"}) <= Cardinality(Call)

(* Whatever was done twice is accounted for by calls that ran at once or   *)
(* were cut off: follow-up tasks, rule hits, price recommendations.        *)
WorkAccounted == TypeOK /\ FollowUpsAccounted /\ TriggersCounted /\ PendingBounded
=============================================================================
