----------------------------- MODULE Schedulers -----------------------------
(***************************************************************************)
(* AvitoAutomationSchedulerService.tick, every five minutes: for every     *)
(* tenant the watchers and rules, once a day the daily analyses and, in    *)
(* the seventh hour, the morning report and its notification.              *)
(*                                                                         *)
(* The timer fires whether or not its last tick has ended.  Two keys in    *)
(* memory say which day's daily work and morning report are done: read for *)
(* each tenant, written at the end of a tick.  A tick that throws is       *)
(* logged and gives up.  The four daily analyses of a tenant stand for one *)
(* row, and what an operator asks for himself is left out; DueWork has     *)
(* what rules and price recommendations write.  What the channels make of  *)
(* a notification is nothing to the tick: one that fails is caught, one    *)
(* without an address delivers nothing, and it goes on either way          *)
(* (NotificationChannelService.dispatch).  So a report is dispatched here, *)
(* which is not to say that anybody was told.                              *)
(***************************************************************************)
EXTENDS Integers, Sequences, FiniteSets

CONSTANTS Tenants,       \* organizations, each once, in the order findMany gives them
          Tick,          \* ticks under way
          Days,          \* days 1..Days, each before, in and after the seventh hour
          MaxFaults

ASSUME SchedulersAssumption ==
  /\ Tenants \in Seq(STRING) /\ Tenants # <<>> /\ IsFiniteSet(Tick)
  /\ \A i, j \in DOMAIN Tenants : Tenants[i] = Tenants[j] => i = j
  /\ Days \in Nat \ {0} /\ MaxFaults \in Nat

VARIABLES
  clock,       \* 3d - 2: day d before its report's hour; 3d - 1: that hour; 3d: after it
  daily,       \* lastDailyKey, 0 if none
  morning,     \* lastMorningKey, 0 if none
  served,      \* daily work of each tenant and day: none, once, more (2)
  reports,     \* morning reports, likewise
  dispatched,  \* reports handed to the tenant's channels, likewise
  pc,          \* next step of each tick
  now,         \* when it began
  at,          \* number of the tenant it is at
  disturbed,   \* history: days with a fault or with overlapping ticks
  faults

keys  == <<daily, morning>>
rows  == <<served, reports, dispatched>>
ticks == <<pc, now, at>>
vars  == <<clock, keys, rows, ticks, disturbed, faults>>

Day     == 1..Days
Tenant  == {Tenants[i] : i \in DOMAIN Tenants}
DayOf(t) == (t + 2) \div 3
SeventhHour(t) == t % 3 = 2  \* getUTCHours() = 7

Pc == {"idle", "rules", "daily", "morning", "report", "tell", "end"}

TypeOK ==
  /\ clock \in 1..(3 * Days)
  /\ daily \in 0..Days /\ morning \in 0..Days
  /\ served \in [Tenant -> [Day -> 0..2]]
  /\ reports \in [Tenant -> [Day -> 0..2]]
  /\ dispatched \in [Tenant -> [Day -> 0..2]]
  /\ pc \in [Tick -> Pc]
  /\ now \in [Tick -> 1..(3 * Days)]
  /\ at \in [Tick -> DOMAIN Tenants]
  /\ disturbed \subseteq Day
  /\ faults \in 0..MaxFaults

Init ==
  /\ clock = 1 /\ daily = 0 /\ morning = 0
  /\ served = [t \in Tenant |-> [d \in Day |-> 0]]
  /\ reports = served /\ dispatched = served
  /\ pc = [c \in Tick |-> "idle"] /\ now = [c \in Tick |-> 1] /\ at = [c \in Tick |-> 1]
  /\ disturbed = {} /\ faults = 0

-----------------------------------------------------------------------------
(* Control.                                                                *)

More(n) == IF n = 2 THEN 2 ELSE n + 1

Here(c)  == Tenants[at[c]]
Today(c) == DayOf(now[c])
Running  == {c \in Tick : pc[c] # "idle"}

Goto(c, step) == pc' = [pc EXCEPT ![c] = step] /\ UNCHANGED <<now, at>>

Leave(c) ==
  /\ pc' = [pc EXCEPT ![c] = "idle"]
  /\ now' = [now EXCEPT ![c] = 1] /\ at' = [at EXCEPT ![c] = 1]

NextTenant(c) ==
  IF at[c] = Len(Tenants) THEN Goto(c, "end")
  ELSE /\ pc' = [pc EXCEPT ![c] = "rules"]
       /\ at' = [at EXCEPT ![c] = @ + 1]
       /\ UNCHANGED now

(* The timer fires; `take: 50` is not reached.                             *)
BeginTick(c) ==
  /\ pc[c] = "idle"
  /\ pc' = [pc EXCEPT ![c] = "rules"] /\ now' = [now EXCEPT ![c] = clock]
  /\ at' = [at EXCEPT ![c] = 1]
  /\ disturbed' = IF Running = {} THEN disturbed
                  ELSE disturbed \cup {DayOf(clock)} \cup {Today(d) : d \in Running}
  /\ UNCHANGED <<clock, keys, rows, faults>>

(* Mutant of EvaluateAll: the day's key is set when its work begins.       *)
KeyFirst(c) ==
  /\ pc[c] = "rules"
  /\ Goto(c, IF daily # Today(c) THEN "daily" ELSE "morning")
  /\ daily' = Today(c)
  /\ UNCHANGED <<clock, morning, rows, disturbed, faults>>

(* The watchers and rules of a tenant, and the look at lastDailyKey.       *)
EvaluateAll(c) ==
  /\ pc[c] = "rules"
  /\ Goto(c, IF daily # Today(c) THEN "daily" ELSE "morning")
  /\ UNCHANGED <<clock, keys, rows, disturbed, faults>>

ScanDaily(c) ==
  /\ pc[c] = "daily"
  /\ served' = [served EXCEPT ![Here(c)][Today(c)] = More(@)]
  /\ Goto(c, "morning")
  /\ UNCHANGED <<clock, keys, reports, dispatched, disturbed, faults>>

CheckMorning(c) ==
  /\ pc[c] = "morning"
  /\ IF morning # Today(c) /\ SeventhHour(now[c]) THEN Goto(c, "report") ELSE NextTenant(c)
  /\ UNCHANGED <<clock, keys, rows, disturbed, faults>>

GenerateMorningReport(c) ==
  /\ pc[c] = "report"
  /\ reports' = [reports EXCEPT ![Here(c)][Today(c)] = More(@)]
  /\ Goto(c, "tell")
  /\ UNCHANGED <<clock, keys, served, dispatched, disturbed, faults>>

(* The channels of the matching policies, or in_app, one after the other.  *)
Dispatch(c) == dispatched' = [dispatched EXCEPT ![Here(c)][Today(c)] = More(@)]

DispatchFiltered(c) ==
  /\ pc[c] = "tell"
  /\ Dispatch(c)
  /\ NextTenant(c)
  /\ UNCHANGED <<clock, keys, served, reports, disturbed, faults>>

(* Mutant of EndTick: the daily key is never written.                      *)
KeyForgotten(c) ==
  /\ pc[c] = "end"
  /\ morning' = IF SeventhHour(now[c]) THEN Today(c) ELSE morning
  /\ Leave(c)
  /\ UNCHANGED <<clock, daily, rows, disturbed, faults>>

EndTick(c) ==
  /\ pc[c] = "end"
  /\ daily' = Today(c)
  /\ morning' = IF SeventhHour(now[c]) THEN Today(c) ELSE morning
  /\ Leave(c)
  /\ UNCHANGED <<clock, rows, disturbed, faults>>

-----------------------------------------------------------------------------
(* Around the ticks.                                                       *)

(* Bound: the time ends in the last day's seventh hour.                    *)
Elapse ==
  /\ clock < 3 * Days - 1 /\ clock' = clock + 1
  /\ UNCHANGED <<keys, rows, ticks, disturbed, faults>>

Disturb(days) ==
  /\ faults < MaxFaults /\ faults' = faults + 1
  /\ disturbed' = disturbed \cup days

(* An await rejects: the whole tick gives up, be it that the channels were *)
(* served and the event about one is not published.                        *)
Throws(c) ==
  /\ pc[c] \notin {"idle", "end"}
  /\ Disturb({Today(c)})
  /\ UNCHANGED dispatched \/ (pc[c] = "tell" /\ Dispatch(c))
  /\ Leave(c)
  /\ UNCHANGED <<clock, keys, served, reports>>

(* The keys are in memory only.                                            *)
Restart ==
  /\ Disturb({DayOf(clock)} \cup {Today(c) : c \in Running})
  /\ daily' = 0 /\ morning' = 0
  /\ pc' = [c \in Tick |-> "idle"] /\ now' = [c \in Tick |-> 1] /\ at' = [c \in Tick |-> 1]
  /\ UNCHANGED <<clock, rows>>

Continue(c) ==
  \/ EvaluateAll(c) \/ ScanDaily(c) \/ CheckMorning(c)
  \/ GenerateMorningReport(c) \/ DispatchFiltered(c) \/ EndTick(c)

Next ==
  \/ \E c \in Tick : BeginTick(c) \/ Continue(c) \/ Throws(c)
  \/ Elapse \/ Restart

(* The timer goes on firing, every await settles, time passes.             *)
Spec ==
  /\ Init /\ [][Next]_vars
  /\ WF_vars(Elapse)
  /\ \A c \in Tick : WF_vars(BeginTick(c)) /\ WF_vars(Continue(c))

-----------------------------------------------------------------------------
(* Properties.                                                             *)

(* However ticks overlap, throw, cross midnight or are cut off by a        *)
(* restart: a key that says a day is done is right about every tenant.     *)
(* What the morning key vouches for is that the report was handed to the   *)
(* tenant's channels, not that one delivered it: tick does not look.       *)
KeyMeansDone ==
  /\ daily # 0 => \A t \in Tenant : served[t][daily] > 0
  /\ morning # 0 => \A t \in Tenant : dispatched[t][morning] > 0

(* No dispatch without its report, and no report that is not dispatched    *)
(* but for the tick in between, or a fault.                                *)
ReportIsDispatched ==
  \A t \in Tenant, d \in Day :
    /\ dispatched[t][d] <= reports[t][d]
    /\ reports[t][d] > 0 /\ dispatched[t][d] = 0 =>
         \/ d \in disturbed
         \/ \E c \in Tick : pc[c] = "tell" /\ Here(c) = t /\ Today(c) = d

(* A day without a fault and without overlapping ticks sees its daily work *)
(* and its report at most once, and the report is dispatched, once (tick). *)
OnceWhenCalm ==
  /\ TypeOK
  /\ ReportIsDispatched
  /\ \A t \in Tenant, d \in Day \ disturbed :
       served[t][d] < 2 /\ reports[t][d] < 2 /\ dispatched[t][d] < 2

(* No combination of keys leaves a day's work undone: on the last day,     *)
(* each tenant is served, though ticks may throw or the process restart.   *)
EveryoneServed == \A t \in Tenant : <>(served[t][Days] > 0)
=============================================================================
