-------------------------- MODULE SchedulersProofs --------------------------
(***************************************************************************)
(* A key of the automation scheduler that says a day is done is right, and *)
(* a calm day is done once, for every number of tenants, of overlapping    *)
(* ticks, days and faults.                                                 *)
(***************************************************************************)
EXTENDS Schedulers, TLAPS

(* A tick has served, for its own day, every tenant it has passed; that it *)
(* may have skipped one is covered by the key it read then...              *)
PassedServed ==
  \A c \in Tick : \A i \in DOMAIN Tenants :
    \/ pc[c] = "idle"
    \/ i > at[c] /\ pc[c] # "end"
    \/ i = at[c] /\ pc[c] \in {"rules", "daily"}
    \/ served[Tenants[i]][Today(c)] > 0

(* ... and, in the seventh hour, has dispatched the report of every tenant *)
(* it has passed.                                                          *)
PassedDispatched ==
  \A c \in Tick : \A i \in DOMAIN Tenants :
    \/ pc[c] = "idle"
    \/ ~SeventhHour(now[c])
    \/ i >= at[c] /\ pc[c] # "end"
    \/ dispatched[Tenants[i]][Today(c)] > 0

(* The inductive invariant. *)
IInv == TypeOK /\ KeyMeansDone /\ PassedServed /\ PassedDispatched

-----------------------------------------------------------------------------
LEMMA DayInRange ==
  ASSUME NEW t \in 1..(3 * Days)
  PROVE  DayOf(t) \in Day
BY SchedulersAssumption DEF DayOf, Day

LEMMA TenantsExist ==
  /\ Len(Tenants) \in Nat \ {0}
  /\ DOMAIN Tenants = 1..Len(Tenants)
  /\ \A i \in DOMAIN Tenants : Tenants[i] \in Tenant
BY SchedulersAssumption DEF Tenant

(* What a step adds to a table of counts.                                  *)
LEMMA CountsGrow ==
  ASSUME NEW table \in [Tenant -> [Day -> 0..2]], NEW t \in Tenant, NEW d \in Day
  PROVE  LET table2 == [table EXCEPT ![t][d] = More(@)] IN
         /\ table2 \in [Tenant -> [Day -> 0..2]]
         /\ \A u \in Tenant, e \in Day : table2[u][e] >= table[u][e]
         /\ table2[t][d] > 0
<1> DEFINE table2 == [table EXCEPT ![t][d] = More(@)]
<1>1. More(table[t][d]) \in 1..2 /\ More(table[t][d]) >= table[t][d]
  BY DEF More
<1>2. table2 \in [Tenant -> [Day -> 0..2]]
  BY <1>1
<1>3. \A u \in Tenant, e \in Day :
        table2[u][e] = IF u = t /\ e = d THEN More(table[t][d]) ELSE table[u][e]
  OBVIOUS
<1> QED
  BY <1>1, <1>2, <1>3

(* Handing a report to the channels counts it.                             *)
LEMMA DispatchCounts ==
  ASSUME TypeOK, NEW c \in Tick, Here(c) \in Tenant, Today(c) \in Day, Dispatch(c)
  PROVE  /\ dispatched' \in [Tenant -> [Day -> 0..2]]
         /\ \A t \in Tenant, d \in Day : dispatched'[t][d] >= dispatched[t][d]
         /\ dispatched'[Here(c)][Today(c)] > 0
<1>1. dispatched \in [Tenant -> [Day -> 0..2]]
  BY DEF TypeOK
<1> QED
  BY <1>1, CountsGrow DEF Dispatch

-----------------------------------------------------------------------------
(* Where a tick may go.                                                    *)
LEMMA TicksTyped ==
  ASSUME TypeOK, NEW c \in Tick
  PROVE  /\ Today(c) \in Day
         /\ Here(c) \in Tenant
         /\ \A step \in Pc : Goto(c, step) => pc' \in [Tick -> Pc]
         /\ NextTenant(c) =>
              /\ pc' \in [Tick -> Pc] /\ at' \in [Tick -> DOMAIN Tenants]
              /\ now' = now
         /\ Leave(c) =>
              /\ pc' \in [Tick -> Pc] /\ at' \in [Tick -> DOMAIN Tenants]
              /\ now' \in [Tick -> 1..(3 * Days)]
<1>1. Today(c) \in Day
  BY DayInRange DEF TypeOK, Today
<1>2. Here(c) \in Tenant
  BY TenantsExist DEF TypeOK, Here
<1>3. \A step \in Pc : Goto(c, step) => pc' \in [Tick -> Pc]
  BY DEF TypeOK, Goto
<1>4. NextTenant(c) => /\ pc' \in [Tick -> Pc] /\ at' \in [Tick -> DOMAIN Tenants] /\ now' = now
  <2>1. CASE at[c] = Len(Tenants)
    BY <2>1 DEF TypeOK, NextTenant, Goto, Pc
  <2>2. CASE at[c] # Len(Tenants)
    <3>1. at[c] + 1 \in DOMAIN Tenants
      BY <2>2, TenantsExist DEF TypeOK
    <3> QED
      BY <2>2, <3>1 DEF TypeOK, NextTenant, Pc
  <2> QED
    BY <2>1, <2>2
<1>5. Leave(c) => /\ pc' \in [Tick -> Pc] /\ at' \in [Tick -> DOMAIN Tenants]
                  /\ now' \in [Tick -> 1..(3 * Days)]
  BY TenantsExist, SchedulersAssumption DEF TypeOK, Leave, Pc
<1> QED
  BY <1>1, <1>2, <1>3, <1>4, <1>5

LEMMA TypePreserved ==
  ASSUME TypeOK, [Next]_vars
  PROVE  TypeOK'
<1>1. CASE UNCHANGED vars
  BY <1>1 DEF TypeOK, vars, keys, rows, ticks
<1>2. ASSUME NEW c \in Tick, BeginTick(c) PROVE TypeOK'
  <2>1. disturbed' \subseteq Day
    BY <1>2, TicksTyped, DayInRange DEF TypeOK, BeginTick, Running
  <2>2. pc' \in [Tick -> Pc] /\ now' \in [Tick -> 1..(3 * Days)] /\ at' \in [Tick -> DOMAIN Tenants]
    BY <1>2, TenantsExist DEF TypeOK, BeginTick, Pc
  <2> QED
    BY <1>2, <2>1, <2>2 DEF TypeOK, BeginTick, keys, rows
<1>3. ASSUME NEW c \in Tick, EvaluateAll(c) PROVE TypeOK'
  <2>1. pc' \in [Tick -> Pc] /\ UNCHANGED <<now, at>>
    BY <1>3, TicksTyped DEF EvaluateAll, Goto, Pc
  <2> QED
    BY <1>3, <2>1 DEF TypeOK, EvaluateAll, keys, rows
<1>4. ASSUME NEW c \in Tick, ScanDaily(c) PROVE TypeOK'
  <2>1. pc' \in [Tick -> Pc] /\ UNCHANGED <<now, at>>
    BY <1>4, TicksTyped DEF ScanDaily, Goto, Pc
  <2>2. served' \in [Tenant -> [Day -> 0..2]]
    BY <1>4, TicksTyped, CountsGrow DEF TypeOK, ScanDaily
  <2> QED
    BY <1>4, <2>1, <2>2 DEF TypeOK, ScanDaily, keys
<1>5. ASSUME NEW c \in Tick, CheckMorning(c) PROVE TypeOK'
  <2>1. pc' \in [Tick -> Pc] /\ now' = now /\ at' \in [Tick -> DOMAIN Tenants]
    BY <1>5, TicksTyped DEF TypeOK, CheckMorning, Goto, Pc
  <2> QED
    BY <1>5, <2>1 DEF TypeOK, CheckMorning, keys, rows
<1>6. ASSUME NEW c \in Tick, GenerateMorningReport(c) PROVE TypeOK'
  <2>1. pc' \in [Tick -> Pc] /\ UNCHANGED <<now, at>>
    BY <1>6, TicksTyped DEF GenerateMorningReport, Goto, Pc
  <2>2. reports' \in [Tenant -> [Day -> 0..2]]
    BY <1>6, TicksTyped, CountsGrow DEF TypeOK, GenerateMorningReport
  <2> QED
    BY <1>6, <2>1, <2>2 DEF TypeOK, GenerateMorningReport, keys
<1>7. ASSUME NEW c \in Tick, DispatchFiltered(c) PROVE TypeOK'
  <2>1. pc' \in [Tick -> Pc] /\ now' = now /\ at' \in [Tick -> DOMAIN Tenants]
    BY <1>7, TicksTyped DEF DispatchFiltered
  <2>2. dispatched' \in [Tenant -> [Day -> 0..2]]
    BY <1>7, TicksTyped, DispatchCounts DEF DispatchFiltered
  <2> QED
    BY <1>7, <2>1, <2>2 DEF TypeOK, DispatchFiltered, keys
<1>8. ASSUME NEW c \in Tick, EndTick(c) PROVE TypeOK'
  <2>1. daily' \in 0..Days /\ morning' \in 0..Days
    BY <1>8, TicksTyped DEF TypeOK, EndTick, Day
  <2> QED
    BY <1>8, <2>1, TicksTyped DEF TypeOK, EndTick, rows
<1>9. CASE Elapse
  BY <1>9, SchedulersAssumption DEF TypeOK, Elapse, keys, rows, ticks
<1>10. ASSUME NEW c \in Tick, Throws(c) PROVE TypeOK'
  <2>1. faults' \in 0..MaxFaults /\ disturbed' \subseteq Day
    BY <1>10, TicksTyped, SchedulersAssumption DEF TypeOK, Throws, Disturb
  <2>2. dispatched' \in [Tenant -> [Day -> 0..2]]
    BY <1>10, TicksTyped, DispatchCounts DEF TypeOK, Throws
  <2> QED
    BY <1>10, <2>1, <2>2, TicksTyped DEF TypeOK, Throws, keys
<1>11. CASE Restart
  <2>1. faults' \in 0..MaxFaults /\ disturbed' \subseteq Day
    BY <1>11, TicksTyped, DayInRange, SchedulersAssumption DEF TypeOK, Restart, Disturb, Running
  <2>2. pc' \in [Tick -> Pc] /\ now' \in [Tick -> 1..(3 * Days)] /\ at' \in [Tick -> DOMAIN Tenants]
    BY <1>11, TenantsExist, SchedulersAssumption DEF Restart, Pc
  <2> QED
    BY <1>11, <2>1, <2>2, SchedulersAssumption DEF TypeOK, Restart, rows
<1> QED
  BY <1>1, <1>2, <1>3, <1>4, <1>5, <1>6, <1>7, <1>8, <1>9, <1>10, <1>11 DEF Next, Continue

-----------------------------------------------------------------------------
(* Counts only grow and the keys stand: then they stay right, and what the *)
(* other ticks have passed stays passed.                                   *)
LEMMA OthersStand ==
  ASSUME IInv, TypeOK', NEW c \in Tick,
         UNCHANGED keys,
         \A t \in Tenant, d \in Day : served'[t][d] >= served[t][d] /\ dispatched'[t][d] >= dispatched[t][d],
         \A d \in Tick \ {c} : pc'[d] = pc[d] /\ now'[d] = now[d] /\ at'[d] = at[d]
  PROVE  /\ KeyMeansDone'
         /\ \A d \in Tick \ {c}, i \in DOMAIN Tenants :
              /\ \/ pc'[d] = "idle"
                 \/ i > at'[d] /\ pc'[d] # "end"
                 \/ i = at'[d] /\ pc'[d] \in {"rules", "daily"}
                 \/ served'[Tenants[i]][DayOf(now'[d])] > 0
              /\ \/ pc'[d] = "idle"
                 \/ ~SeventhHour(now'[d])
                 \/ i >= at'[d] /\ pc'[d] # "end"
                 \/ dispatched'[Tenants[i]][DayOf(now'[d])] > 0
<1>1. \A t \in Tenant, d \in Day : /\ served[t][d] > 0 => served'[t][d] > 0
                                   /\ dispatched[t][d] > 0 => dispatched'[t][d] > 0
  <2>1. \A t \in Tenant, d \in Day : /\ served[t][d] \in 0..2 /\ served'[t][d] \in 0..2
                                     /\ dispatched[t][d] \in 0..2 /\ dispatched'[t][d] \in 0..2
    BY DEF IInv, TypeOK
  <2> QED
    BY <2>1
<1>2. KeyMeansDone'
  <2>1. daily' = daily /\ morning' = morning /\ daily \in 0..Days /\ morning \in 0..Days
    BY DEF IInv, TypeOK, keys
  <2> QED
    BY <1>1, <2>1, SchedulersAssumption DEF IInv, KeyMeansDone, Day
<1>3. ASSUME NEW d \in Tick \ {c}, NEW i \in DOMAIN Tenants
      PROVE  Tenants[i] \in Tenant /\ DayOf(now[d]) \in Day
  BY <1>3, TenantsExist, TicksTyped DEF IInv, Today
<1> QED
  BY <1>1, <1>2, <1>3 DEF IInv, PassedServed, PassedDispatched, Today

(* The same for the tick that steps.                                       *)
Stood(c) ==
  \A i \in DOMAIN Tenants :
    /\ \/ pc[c] = "idle"
       \/ i > at[c] /\ pc[c] # "end"
       \/ i = at[c] /\ pc[c] \in {"rules", "daily"}
       \/ served[Tenants[i]][Today(c)] > 0
    /\ \/ pc[c] = "idle"
       \/ ~SeventhHour(now[c])
       \/ i >= at[c] /\ pc[c] # "end"
       \/ dispatched[Tenants[i]][Today(c)] > 0

LEMMA Assembles ==
  ASSUME IInv, TypeOK', NEW c \in Tick,
         UNCHANGED keys,
         \A t \in Tenant, d \in Day : served'[t][d] >= served[t][d] /\ dispatched'[t][d] >= dispatched[t][d],
         \A d \in Tick \ {c} : pc'[d] = pc[d] /\ now'[d] = now[d] /\ at'[d] = at[d],
         Stood(c)'
  PROVE  IInv'
<1>1. PassedServed'
  BY OthersStand DEF PassedServed, Stood, Today
<1>2. PassedDispatched'
  BY OthersStand DEF PassedDispatched, Stood, Today
<1> QED
  BY <1>1, <1>2, OthersStand DEF IInv

(* The move to the next tenant keeps what is known of those before it.     *)
LEMMA MovesOn ==
  ASSUME TypeOK, NEW c \in Tick, NextTenant(c),
         \A i \in DOMAIN Tenants : i <= at[c] =>
           /\ served'[Tenants[i]][Today(c)] > 0
           /\ SeventhHour(now[c]) => dispatched'[Tenants[i]][Today(c)] > 0
  PROVE  Stood(c)' /\ \A d \in Tick \ {c} : pc'[d] = pc[d] /\ now'[d] = now[d] /\ at'[d] = at[d]
<1>1. at[c] \in 1..Len(Tenants) /\ DOMAIN Tenants = 1..Len(Tenants) /\ Len(Tenants) \in Nat
  BY TenantsExist DEF TypeOK
<1>2. CASE at[c] = Len(Tenants)
  <2>1. pc'[c] = "end" /\ UNCHANGED <<now, at>> /\ \A d \in Tick \ {c} : pc'[d] = pc[d]
    BY <1>2 DEF TypeOK, NextTenant, Goto
  <2> QED
    BY <1>1, <1>2, <2>1 DEF Stood, Today
<1>3. CASE at[c] # Len(Tenants)
  <2>1. /\ pc'[c] = "rules" /\ at'[c] = at[c] + 1 /\ now' = now
        /\ \A d \in Tick \ {c} : pc'[d] = pc[d] /\ at'[d] = at[d]
    BY <1>3 DEF TypeOK, NextTenant
  <2> QED
    BY <1>1, <2>1 DEF Stood, Today
<1> QED
  BY <1>2, <1>3

(* A tick moves within a tenant.                                           *)
LEMMA MovesWithin ==
  ASSUME TypeOK, NEW c \in Tick, NEW step \in Pc, Goto(c, step)
  PROVE  /\ pc'[c] = step /\ UNCHANGED <<now, at>>
         /\ \A d \in Tick \ {c} : pc'[d] = pc[d] /\ now'[d] = now[d] /\ at'[d] = at[d]
BY DEF TypeOK, Goto

LEMMA Leaves ==
  ASSUME TypeOK, NEW c \in Tick, Leave(c)
  PROVE  /\ Stood(c)'
         /\ \A d \in Tick \ {c} : pc'[d] = pc[d] /\ now'[d] = now[d] /\ at'[d] = at[d]
BY DEF TypeOK, Leave, Stood

-----------------------------------------------------------------------------
LEMMA InvariantPreserved ==
  ASSUME IInv, [Next]_vars
  PROVE  IInv'
<1>1. TypeOK'
  BY TypePreserved DEF IInv
<1>2. /\ rows' = rows => \A t \in Tenant, d \in Day :
            served'[t][d] >= served[t][d] /\ dispatched'[t][d] >= dispatched[t][d]
      /\ DOMAIN Tenants = 1..Len(Tenants) /\ Len(Tenants) \in Nat
      /\ \A i \in DOMAIN Tenants : Tenants[i] \in Tenant
  <2>1. \A t \in Tenant, d \in Day : served[t][d] \in 0..2 /\ dispatched[t][d] \in 0..2
    BY DEF IInv, TypeOK
  <2> QED
    BY <2>1, TenantsExist DEF rows
<1>3. CASE UNCHANGED vars
  BY <1>3, <1>1 DEF IInv, KeyMeansDone, PassedServed, PassedDispatched, Today, vars, keys, rows, ticks
<1>4. ASSUME NEW c \in Tick, BeginTick(c) PROVE IInv'
  <2>1. /\ pc'[c] = "rules" /\ at'[c] = 1
        /\ \A d \in Tick \ {c} : pc'[d] = pc[d] /\ now'[d] = now[d] /\ at'[d] = at[d]
    BY <1>4 DEF IInv, TypeOK, BeginTick
  <2>2. Stood(c)'
    BY <1>2, <2>1 DEF Stood
  <2> QED
    BY <1>1, <1>2, <1>4, <2>1, <2>2, Assembles DEF BeginTick
<1>5. ASSUME NEW c \in Tick, EvaluateAll(c) PROVE IInv'
  <2>1. daily = Today(c) => \A t \in Tenant : served[t][Today(c)] > 0
    <3>1. Today(c) # 0
      BY TicksTyped, SchedulersAssumption DEF IInv, Day
    <3> QED
      BY <3>1 DEF IInv, KeyMeansDone
  <2>2. PICK step \in {"daily", "morning"} :
          /\ Goto(c, step)
          /\ step = "morning" => daily = Today(c)
    BY <1>5 DEF EvaluateAll
  <2>3. Stood(c)'
    BY <1>2, <1>5, <2>1, <2>2, MovesWithin
       DEF IInv, TypeOK, Stood, PassedServed, PassedDispatched, EvaluateAll, rows, Today, Pc
  <2> QED
    BY <1>1, <1>2, <1>5, <2>2, <2>3, MovesWithin, Assembles DEF IInv, EvaluateAll, Pc
<1>6. ASSUME NEW c \in Tick, ScanDaily(c) PROVE IInv'
  <2>1. /\ Goto(c, "morning")
        /\ served'[Here(c)][Today(c)] > 0
        /\ dispatched' = dispatched
        /\ \A t \in Tenant, d \in Day : served'[t][d] >= served[t][d]
    BY <1>6, TicksTyped, CountsGrow DEF IInv, TypeOK, ScanDaily
  <2>2. \A t \in Tenant, d \in Day : dispatched'[t][d] >= dispatched[t][d]
    <3>1. \A t \in Tenant, d \in Day : dispatched[t][d] \in 0..2
      BY DEF IInv, TypeOK
    <3> QED
      BY <2>1, <3>1
  <2>3. \A t \in Tenant, d \in Day : served[t][d] > 0 => served'[t][d] > 0
    <3>1. \A t \in Tenant, d \in Day : served[t][d] \in 0..2 /\ served'[t][d] \in 0..2
      BY <1>1 DEF IInv, TypeOK
    <3> QED
      BY <2>1, <3>1
  <2>4. Stood(c)'
    BY <1>2, <1>6, <2>1, <2>3, MovesWithin, TicksTyped
       DEF IInv, TypeOK, Stood, PassedServed, PassedDispatched, ScanDaily, Today, Here, Pc
  <2> QED
    BY <1>1, <1>6, <2>1, <2>2, <2>4, MovesWithin, Assembles DEF IInv, ScanDaily, Pc
<1>7. ASSUME NEW c \in Tick, CheckMorning(c) PROVE IInv'
  <2>1. \A i \in DOMAIN Tenants : i <= at[c] => served[Tenants[i]][Today(c)] > 0
    <3>1. at[c] \in 1..Len(Tenants)
      BY <1>2 DEF IInv, TypeOK
    <3> QED
      BY <1>2, <1>7, <3>1 DEF IInv, PassedServed, CheckMorning
  <2>2. CASE morning # Today(c) /\ SeventhHour(now[c])
    <3>1. Goto(c, "report") /\ UNCHANGED <<keys, rows>>
      BY <1>7, <2>2 DEF CheckMorning
    <3>2. Stood(c)'
      BY <1>2, <1>7, <2>1, <3>1, MovesWithin
         DEF IInv, TypeOK, Stood, PassedDispatched, CheckMorning, rows, Today, Pc
    <3> QED
      BY <1>1, <1>2, <3>1, <3>2, MovesWithin, Assembles DEF IInv, Pc
  <2>3. CASE ~(morning # Today(c) /\ SeventhHour(now[c]))
    <3>1. NextTenant(c) /\ UNCHANGED <<keys, rows>>
      BY <1>7, <2>3 DEF CheckMorning
    <3>2. SeventhHour(now[c]) => \A t \in Tenant : dispatched[t][Today(c)] > 0
      BY <2>3, TicksTyped, SchedulersAssumption DEF IInv, KeyMeansDone, Day
    <3> QED
      BY <1>1, <1>2, <2>1, <3>1, <3>2, MovesOn, Assembles DEF IInv, rows
  <2> QED
    BY <2>2, <2>3
<1>8. ASSUME NEW c \in Tick, GenerateMorningReport(c) PROVE IInv'
  <2>1. Goto(c, "tell") /\ UNCHANGED <<keys, served, dispatched>>
    BY <1>8 DEF GenerateMorningReport
  <2>2. \A t \in Tenant, d \in Day : served'[t][d] >= served[t][d] /\ dispatched'[t][d] >= dispatched[t][d]
    BY <2>1 DEF IInv, TypeOK
  <2>3. Stood(c)'
    BY <1>2, <1>8, <2>1, MovesWithin
       DEF IInv, TypeOK, Stood, PassedServed, PassedDispatched, GenerateMorningReport, Today, Pc
  <2> QED
    BY <1>1, <2>1, <2>2, <2>3, MovesWithin, Assembles DEF IInv, Pc
<1>9. ASSUME NEW c \in Tick, DispatchFiltered(c) PROVE IInv'
  <2>1. /\ NextTenant(c)
        /\ dispatched'[Here(c)][Today(c)] > 0
        /\ UNCHANGED <<keys, served>>
        /\ \A t \in Tenant, d \in Day : dispatched'[t][d] >= dispatched[t][d]
    BY <1>9, TicksTyped, DispatchCounts DEF IInv, DispatchFiltered
  <2>2. \A t \in Tenant, d \in Day : served'[t][d] >= served[t][d]
    <3>1. \A t \in Tenant, d \in Day : served[t][d] \in 0..2
      BY DEF IInv, TypeOK
    <3> QED
      BY <2>1, <3>1
  <2>3. \A t \in Tenant, d \in Day : dispatched[t][d] > 0 => dispatched'[t][d] > 0
    <3>1. \A t \in Tenant, d \in Day : dispatched[t][d] \in 0..2 /\ dispatched'[t][d] \in 0..2
      BY <1>1 DEF IInv, TypeOK
    <3> QED
      BY <2>1, <3>1
  <2>4. \A i \in DOMAIN Tenants : i <= at[c] =>
          /\ served'[Tenants[i]][Today(c)] > 0
          /\ SeventhHour(now[c]) => dispatched'[Tenants[i]][Today(c)] > 0
    <3>1. at[c] \in 1..Len(Tenants) /\ Today(c) \in Day
      BY <1>2, TicksTyped DEF IInv, TypeOK
    <3>2. \A i \in DOMAIN Tenants : i <= at[c] => served'[Tenants[i]][Today(c)] > 0
      BY <1>2, <1>9, <2>1, <3>1 DEF IInv, PassedServed, DispatchFiltered
    <3>3. ASSUME NEW i \in DOMAIN Tenants, i < at[c], SeventhHour(now[c])
          PROVE  dispatched'[Tenants[i]][Today(c)] > 0
      BY <1>2, <1>9, <2>3, <3>1, <3>3 DEF IInv, PassedDispatched, DispatchFiltered
    <3> QED
      BY <1>2, <2>1, <3>1, <3>2, <3>3 DEF Here
  <2> QED
    BY <1>1, <2>1, <2>2, <2>4, MovesOn, Assembles DEF IInv
<1>10. ASSUME NEW c \in Tick, EndTick(c) PROVE IInv'
  <2>1. /\ \A t \in Tenant : served[t][Today(c)] > 0
        /\ SeventhHour(now[c]) => \A t \in Tenant : dispatched[t][Today(c)] > 0
    BY <1>2, <1>10 DEF IInv, PassedServed, PassedDispatched, EndTick, Tenant
  <2>2. KeyMeansDone'
    BY <1>10, <2>1 DEF IInv, KeyMeansDone, EndTick, rows
  <2>3. Stood(c)' /\ \A d \in Tick \ {c} : pc'[d] = pc[d] /\ now'[d] = now[d] /\ at'[d] = at[d]
    BY <1>10, Leaves DEF IInv, EndTick
  <2>4. PassedServed'
    BY <1>10, <2>3 DEF IInv, PassedServed, Stood, Today, EndTick, rows
  <2>5. PassedDispatched'
    BY <1>10, <2>3 DEF IInv, PassedDispatched, Stood, Today, EndTick, rows
  <2> QED
    BY <1>1, <2>2, <2>4, <2>5 DEF IInv
<1>11. CASE Elapse
  BY <1>1, <1>11 DEF IInv, KeyMeansDone, PassedServed, PassedDispatched, Today, Elapse, keys, rows, ticks
<1>12. ASSUME NEW c \in Tick, Throws(c) PROVE IInv'
  <2>1. /\ Leave(c) /\ UNCHANGED <<keys, served>>
        /\ \A t \in Tenant, d \in Day : dispatched'[t][d] >= dispatched[t][d]
    <3>1. \A t \in Tenant, d \in Day : dispatched[t][d] \in 0..2
      BY DEF IInv, TypeOK
    <3>2. dispatched' = dispatched \/ Dispatch(c)
      BY <1>12 DEF Throws
    <3> QED
      BY <1>12, <3>1, <3>2, TicksTyped, DispatchCounts DEF IInv, Throws
  <2>2. \A t \in Tenant, d \in Day : served'[t][d] >= served[t][d]
    <3>1. \A t \in Tenant, d \in Day : served[t][d] \in 0..2
      BY DEF IInv, TypeOK
    <3> QED
      BY <2>1, <3>1
  <2> QED
    BY <1>1, <2>1, <2>2, Leaves, Assembles DEF IInv
<1>13. CASE Restart
  BY <1>1, <1>13 DEF IInv, KeyMeansDone, PassedServed, PassedDispatched, Restart
<1> QED
  BY <1>3, <1>4, <1>5, <1>6, <1>7, <1>8, <1>9, <1>10, <1>11, <1>12, <1>13 DEF Next, Continue

LEMMA InvariantInitially == Init => IInv
<1> SUFFICES ASSUME Init PROVE IInv
  OBVIOUS
<1>1. TypeOK
  BY TenantsExist, SchedulersAssumption DEF Init, TypeOK, Pc
<1> QED
  BY <1>1 DEF Init, IInv, KeyMeansDone, PassedServed, PassedDispatched

LEMMA Invariance == Spec => []IInv
BY InvariantInitially, InvariantPreserved, PTL DEF Spec

(* The state of the scheduler is well-typed, whatever its ticks do.        *)
THEOREM Typed == Spec => []TypeOK
BY Invariance, PTL DEF IInv

(* However many ticks overlap, throw, cross midnight or are cut off by a   *)
(* restart: a key that says a day is done is right about every tenant, so  *)
(* skipping on it skips nothing (AvitoAutomationSchedulerService.tick).    *)
(* The morning key is right about the dispatch: whether a channel          *)
(* delivered anything is not what it says.                                 *)
THEOREM KeysAreRight == Spec => []KeyMeansDone
BY Invariance, PTL DEF IInv

-----------------------------------------------------------------------------
(* Calm days.                                                              *)

(* A tick under way is done with a tenant's daily work, or with its        *)
(* report.                                                                 *)
PastDaily(c, i) ==
  /\ pc[c] # "idle"
  /\ i < at[c] \/ pc[c] = "end" \/ (i = at[c] /\ pc[c] \notin {"rules", "daily"})

PastReport(c, i) == i < at[c] \/ pc[c] = "end" \/ (i = at[c] /\ pc[c] = "tell")

(* Ticks begin in the past, and those that run at once disturb their days. *)
TicksApart ==
  /\ \A c \in Running : now[c] <= clock
  /\ \A c, e \in Running : c # e => Today(c) \in disturbed

(* A day nobody disturbs is untouched until it comes, and while a tick of  *)
(* an earlier day goes on.                                                 *)
Untouched(t, d) == served[t][d] = 0 /\ reports[t][d] = 0

DaysToCome ==
  \A t \in Tenant, d \in Day :
    \/ DayOf(clock) < d
    \/ d \notin disturbed /\ \E c \in Running : Today(c) < d
    => Untouched(t, d)

(* A tick that goes ahead has seen a key of another day.                   *)
LooksFirst ==
  \A c \in Tick :
    /\ pc[c] \in {"report", "tell"} => SeventhHour(now[c])
    /\ Today(c) \notin disturbed /\ pc[c] = "daily" => daily # Today(c)
    /\ Today(c) \notin disturbed /\ pc[c] = "report" => morning # Today(c)

(* What was done on a calm day was done once, and nobody will do it again: *)
(* the key says so, the day is over, or the tick that did it goes on.      *)
ServedOnce ==
  \A i \in DOMAIN Tenants, d \in Day \ disturbed :
    served[Tenants[i]][d] # 0 =>
      /\ served[Tenants[i]][d] = 1
      /\ \/ daily = d
         \/ d < DayOf(clock) /\ \A c \in Running : Today(c) # d
         \/ \E c \in Running : Today(c) = d /\ PastDaily(c, i)

ReportedOnce ==
  \A i \in DOMAIN Tenants, d \in Day \ disturbed :
    reports[Tenants[i]][d] # 0 =>
      /\ reports[Tenants[i]][d] = 1
      /\ \/ morning = d
         \/ 3 * d - 1 < clock /\ \A c \in Running : now[c] # 3 * d - 1
         \/ \E c \in Running : now[c] = 3 * d - 1 /\ PastReport(c, i)

(* Every tick about to tell has a report of its own to tell of, as far as  *)
(* the counts go.                                                          *)
Untold(c) ==
  \/ reports[Here(c)][Today(c)] = 2
  \/ dispatched[Here(c)][Today(c)] < reports[Here(c)][Today(c)]

ReportsToTell ==
  /\ \A c \in Tick : pc[c] = "tell" => Untold(c)
  /\ \A c, e \in Tick :
       /\ c # e /\ pc[c] = "tell" /\ pc[e] = "tell"
       /\ Here(c) = Here(e) /\ Today(c) = Today(e)
       => reports[Here(c)][Today(c)] = 2

(* The inductive invariant of calm days.                                   *)
CalmInv ==
  /\ TicksApart /\ DaysToCome /\ LooksFirst
  /\ ServedOnce /\ ReportedOnce
  /\ ReportIsDispatched /\ ReportsToTell

-----------------------------------------------------------------------------
(* A day and its hours.                                                    *)
LEMMA HoursOfDays ==
  ASSUME NEW t \in 1..(3 * Days)
  PROVE  /\ DayOf(t) \in Day
         /\ t \in (3 * DayOf(t) - 2)..(3 * DayOf(t))
         /\ SeventhHour(t) <=> t = 3 * DayOf(t) - 1
         /\ \A d \in Day : t = 3 * d - 1 => DayOf(t) = d
BY SchedulersAssumption DEF DayOf, Day, SeventhHour

(* What the steps of one tick have in common.                              *)
OneMoves(c) ==
  /\ \A e \in Tick \ {c} : pc'[e] = pc[e] /\ now'[e] = now[e] /\ at'[e] = at[e]
  /\ clock' = clock
  /\ pc'[c] = "idle" \/ (pc[c] # "idle" /\ now'[c] = now[c] /\ disturbed' = disturbed)

LEMMA StepMovesOne ==
  ASSUME TypeOK, NEW c \in Tick, Continue(c) \/ Throws(c)
  PROVE  /\ OneMoves(c)
         /\ disturbed \subseteq disturbed'
         /\ pc[c] # "idle"
<1>1. CASE EvaluateAll(c)
  BY <1>1 DEF TypeOK, EvaluateAll, Goto, OneMoves
<1>2. CASE ScanDaily(c)
  BY <1>2 DEF TypeOK, ScanDaily, Goto, OneMoves
<1>3. CASE CheckMorning(c)
  BY <1>3 DEF TypeOK, CheckMorning, Goto, NextTenant, OneMoves
<1>4. CASE GenerateMorningReport(c)
  BY <1>4 DEF TypeOK, GenerateMorningReport, Goto, OneMoves
<1>5. CASE DispatchFiltered(c)
  BY <1>5 DEF TypeOK, DispatchFiltered, Goto, NextTenant, OneMoves
<1>6. CASE EndTick(c)
  BY <1>6 DEF TypeOK, EndTick, Leave, OneMoves
<1>7. CASE Throws(c)
  BY <1>7 DEF TypeOK, Throws, Disturb, Leave, OneMoves
<1> QED
  BY <1>1, <1>2, <1>3, <1>4, <1>5, <1>6, <1>7 DEF Continue

LEMMA ApartKept ==
  ASSUME TypeOK, TypeOK', TicksApart, [Next]_vars
  PROVE  TicksApart'
<1>1. CASE UNCHANGED vars
  BY <1>1 DEF TicksApart, Running, Today, vars, ticks
<1>2. ASSUME NEW c \in Tick, BeginTick(c) PROVE TicksApart'
  <2>1. /\ pc'[c] = "rules" /\ now'[c] = clock /\ clock' = clock /\ pc[c] = "idle"
        /\ \A e \in Tick \ {c} : pc'[e] = pc[e] /\ now'[e] = now[e]
        /\ clock \in Int
    BY <1>2 DEF TypeOK, BeginTick
  <2>2. CASE Running = {}
    BY <2>1, <2>2 DEF TicksApart, Running
  <2>3. CASE Running # {}
    <3>1. DayOf(clock) \in disturbed' /\ \A e \in Running : Today(e) \in disturbed'
      BY <1>2, <2>3 DEF BeginTick
    <3> QED
      BY <2>1, <3>1 DEF TicksApart, Running, Today
  <2> QED
    BY <2>2, <2>3
<1>3. ASSUME NEW c \in Tick, Continue(c) \/ Throws(c) PROVE TicksApart'
  BY <1>3, StepMovesOne DEF TicksApart, Running, Today, OneMoves
<1>4. CASE Elapse
  BY <1>4 DEF TypeOK, TicksApart, Running, Today, Elapse, ticks
<1>5. CASE Restart
  BY <1>5 DEF TicksApart, Running, Restart
<1> QED
  BY <1>1, <1>2, <1>3, <1>4, <1>5 DEF Next

LEMMA DaysToComeKept ==
  ASSUME TypeOK, TypeOK', TicksApart, TicksApart', DaysToCome, [Next]_vars
  PROVE  DaysToCome'
<1>0. /\ clock \in 1..(3 * Days) /\ clock' \in 1..(3 * Days)
      /\ \A c \in Tick : now[c] \in 1..(3 * Days) /\ now'[c] \in 1..(3 * Days)
  BY DEF TypeOK
<1>1. /\ \A c \in Running : Today(c) <= DayOf(clock)
      /\ DayOf(clock) \in Int /\ DayOf(clock') \in Int
      /\ \A c \in Tick : Today(c) \in Int /\ Today(c)' \in Int
      /\ clock <= clock' => DayOf(clock) <= DayOf(clock')
  BY <1>0, HoursOfDays DEF TicksApart, Running, Today, Day
<1>2. CASE UNCHANGED vars
  BY <1>2 DEF DaysToCome, Untouched, Running, Today, vars, ticks, rows
<1>3. ASSUME NEW c \in Tick, BeginTick(c) PROVE DaysToCome'
  <2>1. /\ pc'[c] = "rules" /\ now'[c] = clock /\ clock' = clock /\ pc[c] = "idle"
        /\ \A e \in Tick \ {c} : pc'[e] = pc[e] /\ now'[e] = now[e]
        /\ disturbed \subseteq disturbed' /\ served' = served /\ reports' = reports
    BY <1>3 DEF TypeOK, BeginTick, rows
  <2> QED
    BY <1>1, <2>1 DEF DaysToCome, Untouched, Running, Today
<1>4. ASSUME NEW c \in Tick, Continue(c) \/ Throws(c), served' = served, reports' = reports
      PROVE  DaysToCome'
  BY <1>4, StepMovesOne DEF DaysToCome, Untouched, Running, Today, OneMoves
<1>5. ASSUME NEW c \in Tick, Continue(c),
             \A t \in Tenant, d \in Day \ {Today(c)} :
               served'[t][d] = served[t][d] /\ reports'[t][d] = reports[t][d]
      PROVE  DaysToCome'
  <2>1. OneMoves(c) /\ disturbed \subseteq disturbed' /\ c \in Running
    BY <1>5, StepMovesOne DEF Running
  <2>2. Today(c) <= DayOf(clock) /\ clock' = clock
    BY <1>1, <2>1 DEF OneMoves
  <2>3. ASSUME NEW t \in Tenant, NEW d \in Day, DayOf(clock) < d
        PROVE  Untouched(t, d)'
    BY <1>1, <1>5, <2>2, <2>3 DEF DaysToCome, Untouched, Day
  <2>4. ASSUME NEW t \in Tenant, NEW d \in Day, d \notin disturbed', NEW e \in Tick, pc'[e] # "idle",
               Today(e)' < d
        PROVE  Untouched(t, d)'
    <3>1. e \in Running /\ Today(e) = Today(e)'
      BY <2>1, <2>4 DEF OneMoves, Running, Today
    <3>2. d # Today(c)
      BY <1>1, <2>1, <2>4, <3>1 DEF TicksApart
    <3> QED
      BY <1>5, <2>1, <2>4, <3>1, <3>2 DEF DaysToCome, Untouched
  <2> QED
    BY <2>2, <2>3, <2>4 DEF DaysToCome, Running
<1>6. CASE Elapse
  BY <1>1, <1>6 DEF TypeOK, DaysToCome, Untouched, Running, Today, Elapse, ticks, rows, Day
<1>7. CASE Restart
  BY <1>7 DEF DaysToCome, Untouched, Running, Restart, rows
<1>8. ASSUME NEW c \in Tick, Continue(c) PROVE DaysToCome'
  <2>1. CASE EvaluateAll(c) \/ CheckMorning(c) \/ DispatchFiltered(c) \/ EndTick(c)
    BY <1>4, <1>8, <2>1 DEF EvaluateAll, CheckMorning, DispatchFiltered, EndTick, rows
  <2>2. CASE ScanDaily(c)
    BY <1>5, <1>8, <2>2, TicksTyped DEF TypeOK, ScanDaily
  <2>3. CASE GenerateMorningReport(c)
    BY <1>5, <1>8, <2>3, TicksTyped DEF TypeOK, GenerateMorningReport
  <2> QED
    BY <1>8, <2>1, <2>2, <2>3 DEF Continue
<1>9. ASSUME NEW c \in Tick, Throws(c) PROVE DaysToCome'
  BY <1>4, <1>9 DEF Throws, rows
<1> QED
  BY <1>2, <1>3, <1>6, <1>7, <1>8, <1>9 DEF Next

LEMMA LooksFirstKept ==
  ASSUME TypeOK, TypeOK', TicksApart, LooksFirst, [Next]_vars
  PROVE  LooksFirst'
<1>1. CASE UNCHANGED vars
  BY <1>1 DEF LooksFirst, Today, vars, ticks, keys
<1>2. ASSUME NEW c \in Tick, BeginTick(c) PROVE LooksFirst'
  <2>1. /\ pc'[c] = "rules" /\ UNCHANGED keys /\ disturbed \subseteq disturbed'
        /\ \A e \in Tick \ {c} : pc'[e] = pc[e] /\ now'[e] = now[e]
    BY <1>2 DEF TypeOK, BeginTick
  <2> QED
    BY <2>1 DEF LooksFirst, Today, keys
<1>3. ASSUME NEW c \in Tick, Continue(c) \/ Throws(c), UNCHANGED keys,
             \/ pc'[c] \notin {"daily", "report", "tell"}
             \/ pc'[c] = "daily" /\ daily # Today(c)
             \/ pc'[c] = "report" /\ morning # Today(c) /\ SeventhHour(now[c])
             \/ pc'[c] = "tell" /\ pc[c] = "report"
      PROVE  LooksFirst'
  BY <1>3, StepMovesOne DEF LooksFirst, Today, OneMoves, keys
<1>4. ASSUME NEW c \in Tick, Continue(c) PROVE LooksFirst'
  <2>1. CASE EvaluateAll(c)
    BY <1>3, <1>4, <2>1 DEF TypeOK, EvaluateAll, Goto
  <2>2. CASE ScanDaily(c)
    BY <1>3, <1>4, <2>2 DEF TypeOK, ScanDaily, Goto
  <2>3. CASE CheckMorning(c)
    BY <1>3, <1>4, <2>3 DEF TypeOK, CheckMorning, Goto, NextTenant
  <2>4. CASE GenerateMorningReport(c)
    BY <1>3, <1>4, <2>4 DEF TypeOK, GenerateMorningReport, Goto
  <2>5. CASE DispatchFiltered(c)
    BY <1>3, <1>4, <2>5 DEF TypeOK, DispatchFiltered, Goto, NextTenant
  <2>6. CASE EndTick(c)
    <3>1. OneMoves(c) /\ disturbed' = disturbed /\ pc[c] # "idle" /\ pc'[c] = "idle"
      BY <1>4, <2>6, StepMovesOne DEF TypeOK, EndTick, Leave
    <3>2. \A e \in Tick \ {c} : pc[e] # "idle" => Today(e) \in disturbed
      BY <3>1 DEF TicksApart, Running
    <3> QED
      BY <3>1, <3>2 DEF LooksFirst, OneMoves, Today
  <2> QED
    BY <1>4, <2>1, <2>2, <2>3, <2>4, <2>5, <2>6 DEF Continue
<1>5. ASSUME NEW c \in Tick, Throws(c) PROVE LooksFirst'
  BY <1>3, <1>5 DEF TypeOK, Throws, Leave
<1>6. CASE Elapse
  BY <1>6 DEF LooksFirst, Today, Elapse, ticks, keys
<1>7. CASE Restart
  BY <1>7 DEF LooksFirst, Restart
<1> QED
  BY <1>1, <1>2, <1>4, <1>5, <1>6, <1>7 DEF Next

(* A step of a tick that keeps the daily key and the rows keeps what is    *)
(* known of the daily work, as long as the tick does not leave.            *)
LEMMA ServedStands ==
  ASSUME TypeOK, TypeOK', ServedOnce, NEW c \in Tick, Continue(c) \/ Throws(c),
         served' = served, daily' = daily,
         \/ pc'[c] = "idle" /\ Today(c) \in disturbed'
         \/ \A i \in DOMAIN Tenants : PastDaily(c, i) => PastDaily(c, i)'
  PROVE  ServedOnce'
<1>1. OneMoves(c) /\ disturbed \subseteq disturbed' /\ pc[c] # "idle" /\ clock' = clock
  BY StepMovesOne DEF OneMoves
<1> SUFFICES ASSUME NEW i \in DOMAIN Tenants, NEW d \in Day \ disturbed', served[Tenants[i]][d] # 0,
                    daily # d
             PROVE  \/ d < DayOf(clock) /\ \A e \in Running' : Today(e)' # d
                    \/ \E e \in Running' : Today(e)' = d /\ PastDaily(e, i)'
  BY <1>1 DEF ServedOnce
<1>2. \/ d < DayOf(clock) /\ \A e \in Running : Today(e) # d
      \/ \E e \in Running : Today(e) = d /\ PastDaily(e, i)
  BY <1>1 DEF ServedOnce
<1>3. \A e \in Running' : e \in Running /\ Today(e)' = Today(e)
  BY <1>1 DEF OneMoves, Running, Today
<1>4. CASE \E e \in Running : Today(e) = d /\ PastDaily(e, i)
  <2>1. PICK e \in Running : Today(e) = d /\ PastDaily(e, i)
    BY <1>4
  <2>2. CASE e # c
    BY <1>1, <2>1, <2>2 DEF OneMoves, Running, Today, PastDaily
  <2>3. CASE e = c
    <3>1. PastDaily(c, i)' /\ Today(c) = d
      BY <2>1, <2>3
    <3>2. c \in Running' /\ Today(c)' = d
      BY <1>1, <3>1 DEF PastDaily, Running, OneMoves, Today
    <3> QED
      BY <3>1, <3>2
  <2> QED
    BY <2>2, <2>3
<1> QED
  BY <1>2, <1>3, <1>4

(* Going on to the next tenant leaves the one behind.                      *)
LEMMA PassesOn ==
  ASSUME TypeOK, NEW c \in Tick, NextTenant(c), pc[c] \in {"morning", "tell"},
         NEW i \in DOMAIN Tenants
  PROVE  /\ PastDaily(c, i) => PastDaily(c, i)'
         /\ PastReport(c, i) \/ i = at[c] => PastReport(c, i)'
<1>1. at[c] \in Int /\ i \in Int
  BY TenantsExist DEF TypeOK
<1>2. CASE at[c] = Len(Tenants)
  <2>1. pc'[c] = "end"
    BY <1>2 DEF TypeOK, NextTenant, Goto
  <2> QED
    BY <2>1 DEF PastDaily, PastReport
<1>3. CASE at[c] # Len(Tenants)
  <2>1. pc'[c] = "rules" /\ at'[c] = at[c] + 1
    BY <1>3 DEF TypeOK, NextTenant
  <2>2. i <= at[c] => i < at'[c]
    BY <1>1, <2>1
  <2>3. i < at[c] => i <= at[c]
    BY <1>1
  <2> QED
    BY <1>1, <2>1, <2>2, <2>3 DEF PastDaily, PastReport
<1> QED
  BY <1>2, <1>3

LEMMA ServedOnceKept ==
  ASSUME TypeOK, TypeOK', TicksApart, DaysToCome, LooksFirst, ServedOnce, [Next]_vars
  PROVE  ServedOnce'
<1>0. /\ DOMAIN Tenants = 1..Len(Tenants) /\ Len(Tenants) \in Nat
      /\ \A i \in DOMAIN Tenants : Tenants[i] \in Tenant
      /\ \A c \in Tick : at[c] \in DOMAIN Tenants
      /\ \A c \in Tick : Today(c) \in Day /\ Here(c) \in Tenant
      /\ clock \in 1..(3 * Days) /\ DayOf(clock) \in Day
      /\ \A d \in Day : d \in Nat \ {0}
      /\ \A c \in Running : Today(c) <= DayOf(clock)
  <2>1. \A c \in Tick : now[c] \in 1..(3 * Days)
    BY DEF TypeOK
  <2>2. clock \in 1..(3 * Days)
    BY DEF TypeOK
  <2>3. \A c \in Running : Today(c) <= DayOf(clock)
    BY <2>1, <2>2, HoursOfDays DEF TicksApart, Running, Today, Day
  <2>4. DayOf(clock) \in Day /\ \A d \in Day : d \in Nat \ {0}
    BY <2>2, HoursOfDays DEF Day
  <2>5. \A c \in Tick : at[c] \in DOMAIN Tenants
    BY DEF TypeOK
  <2> QED
    BY <2>2, <2>3, <2>4, <2>5, TenantsExist, TicksTyped
<1>1. CASE UNCHANGED vars
  BY <1>1 DEF ServedOnce, PastDaily, Running, Today, vars, keys, rows, ticks
<1>2. ASSUME NEW c \in Tick, BeginTick(c) PROVE ServedOnce'
  <2>1. /\ pc'[c] = "rules" /\ now'[c] = clock /\ pc[c] = "idle"
        /\ \A e \in Tick \ {c} : pc'[e] = pc[e] /\ now'[e] = now[e] /\ at'[e] = at[e]
        /\ clock' = clock /\ daily' = daily /\ served' = served
    BY <1>2 DEF TypeOK, BeginTick, keys, rows
  <2>2. CASE Running = {}
    <3>1. disturbed' = disturbed /\ \A e \in Running' : Today(e)' = DayOf(clock)
      BY <1>2, <2>1, <2>2 DEF BeginTick, Running, Today
    <3> QED
      BY <1>0, <2>1, <2>2, <3>1 DEF ServedOnce
  <2>3. CASE Running # {}
    <3>1. /\ DayOf(clock) \in disturbed' /\ disturbed \subseteq disturbed'
          /\ \A e \in Running : Today(e) \in disturbed'
      BY <1>2, <2>3 DEF BeginTick
    <3>2. \A e \in Running' : Today(e)' \in disturbed'
      BY <2>1, <3>1 DEF Running, Today
    <3> QED
      BY <2>1, <3>1, <3>2 DEF ServedOnce
  <2> QED
    BY <2>2, <2>3
<1>3. ASSUME NEW c \in Tick, EvaluateAll(c) PROVE ServedOnce'
  <2>1. \A i \in DOMAIN Tenants : PastDaily(c, i) => PastDaily(c, i)'
    BY <1>3 DEF TypeOK, EvaluateAll, Goto, PastDaily
  <2> QED
    BY <1>3, <2>1, ServedStands DEF EvaluateAll, Continue, keys, rows
<1>4. ASSUME NEW c \in Tick, CheckMorning(c) PROVE ServedOnce'
  <2>1. ASSUME NEW i \in DOMAIN Tenants PROVE PastDaily(c, i) => PastDaily(c, i)'
    <3>1. CASE NextTenant(c)
      BY <1>4, <3>1, PassesOn DEF CheckMorning
    <3>2. CASE Goto(c, "report")
      BY <1>4, <3>2 DEF TypeOK, CheckMorning, Goto, PastDaily
    <3> QED
      BY <1>4, <3>1, <3>2 DEF CheckMorning
  <2> QED
    BY <1>4, <2>1, ServedStands DEF CheckMorning, Continue, keys, rows
<1>5. ASSUME NEW c \in Tick, GenerateMorningReport(c) PROVE ServedOnce'
  <2>1. \A i \in DOMAIN Tenants : PastDaily(c, i) => PastDaily(c, i)'
    BY <1>5 DEF TypeOK, GenerateMorningReport, Goto, PastDaily
  <2> QED
    BY <1>5, <2>1, ServedStands DEF GenerateMorningReport, Continue, keys
<1>6. ASSUME NEW c \in Tick, DispatchFiltered(c) PROVE ServedOnce'
  <2>1. \A i \in DOMAIN Tenants : PastDaily(c, i) => PastDaily(c, i)'
    BY <1>6, PassesOn DEF DispatchFiltered
  <2> QED
    BY <1>6, <2>1, ServedStands DEF DispatchFiltered, Continue, keys
<1>7. ASSUME NEW c \in Tick, Throws(c) PROVE ServedOnce'
  BY <1>7, ServedStands DEF TypeOK, Throws, Disturb, Leave, keys, rows
<1>8. ASSUME NEW c \in Tick, ScanDaily(c) PROVE ServedOnce'
  <2>1. /\ OneMoves(c) /\ disturbed' = disturbed /\ c \in Running /\ pc[c] = "daily" /\ pc'[c] = "morning"
        /\ at'[c] = at[c] /\ daily' = daily /\ now' = now /\ clock' = clock
    BY <1>8, StepMovesOne DEF TypeOK, ScanDaily, Goto, Continue, Running, keys, OneMoves
  <2> SUFFICES ASSUME NEW i \in DOMAIN Tenants, NEW d \in Day \ disturbed, served'[Tenants[i]][d] # 0
               PROVE  /\ served'[Tenants[i]][d] = 1
                      /\ \/ daily = d
                         \/ d < DayOf(clock) /\ \A e \in Running' : Today(e)' # d
                         \/ \E e \in Running' : Today(e)' = d /\ PastDaily(e, i)'
    BY <2>1 DEF ServedOnce
  <2>2. Running' = Running /\ \A e \in Tick : Today(e)' = Today(e)
    BY <2>1 DEF OneMoves, Running, Today
  <2>3. ASSUME NEW e \in Running PROVE PastDaily(e, i) => PastDaily(e, i)'
    <3>1. CASE e = c
      BY <2>1, <3>1 DEF PastDaily
    <3>2. CASE e # c
      BY <2>1, <3>2 DEF OneMoves, PastDaily, Running
    <3> QED
      BY <3>1, <3>2
  <2>4. CASE i = at[c] /\ d = Today(c)
    <3>1. daily # d
      BY <2>1, <2>4 DEF LooksFirst
    <3>2. served[Tenants[i]][d] = 0
      <4>1. \A e \in Running : Today(e) = d => e = c
        BY <2>1, <2>4 DEF TicksApart
      <4>2. ~PastDaily(c, i)
        BY <1>0, <2>1, <2>4 DEF PastDaily
      <4> QED
        BY <2>1, <2>4, <3>1, <4>1, <4>2 DEF ServedOnce
    <3>3. served'[Tenants[i]][d] = 1
      BY <1>0, <1>8, <2>4, <3>2 DEF TypeOK, ScanDaily, Here, More
    <3>4. PastDaily(c, i)'
      BY <2>1, <2>4 DEF PastDaily
    <3> QED
      BY <2>1, <2>2, <2>4, <3>3, <3>4
  <2>5. CASE ~(i = at[c] /\ d = Today(c))
    <3>1. Tenants[i] # Here(c) \/ d # Today(c)
      BY <1>0, <2>5, SchedulersAssumption DEF Here
    <3>2. served'[Tenants[i]][d] = served[Tenants[i]][d]
      BY <1>0, <1>8, <3>1 DEF TypeOK, ScanDaily
    <3>3. /\ served[Tenants[i]][d] = 1
          /\ \/ daily = d
             \/ d < DayOf(clock) /\ \A e \in Running : Today(e) # d
             \/ \E e \in Running : Today(e) = d /\ PastDaily(e, i)
      BY <3>2 DEF ServedOnce
    <3>4. \A e \in Running : Today(e)' = Today(e)
      BY <2>2 DEF Running
    <3> QED
      BY <2>2, <2>3, <3>2, <3>3, <3>4
  <2> QED
    BY <2>4, <2>5
<1>9. ASSUME NEW c \in Tick, EndTick(c) PROVE ServedOnce'
  <2>1. /\ OneMoves(c) /\ disturbed' = disturbed /\ c \in Running /\ pc'[c] = "idle"
        /\ daily' = Today(c) /\ served' = served /\ clock' = clock
    BY <1>9, StepMovesOne DEF TypeOK, EndTick, Leave, Continue, Running, rows, OneMoves
  <2> SUFFICES ASSUME NEW i \in DOMAIN Tenants, NEW d \in Day \ disturbed, served[Tenants[i]][d] # 0,
                      d # Today(c)
               PROVE  d < DayOf(clock) /\ \A e \in Running' : Today(e)' # d
    BY <2>1 DEF ServedOnce
  <2>2. \A e \in Running' : e \in Running /\ e # c /\ Today(e)' = Today(e)
    BY <2>1 DEF OneMoves, Running, Today
  <2>3. \A e \in Running' : Today(e)' \in disturbed
    BY <2>1, <2>2 DEF TicksApart
  <2>4. ~(Today(c) < d)
    BY <1>0, <2>1 DEF DaysToCome, Untouched
  <2>5. Today(c) <= DayOf(clock) /\ Today(c) \in Nat /\ DayOf(clock) \in Nat /\ d \in Nat /\ d # Today(c)
    BY <1>0, <2>1 DEF Running
  <2> QED
    BY <2>3, <2>4, <2>5
<1>10. CASE Elapse
  <2>1. clock' = clock + 1 /\ clock' \in 1..(3 * Days) /\ clock \in Nat
    BY <1>10 DEF TypeOK, Elapse
  <2>2. DayOf(clock) <= DayOf(clock') /\ DayOf(clock') \in Nat
    BY <1>0, <2>1, HoursOfDays DEF Day
  <2>3. \A d \in Day : d < DayOf(clock) => d < DayOf(clock')
    BY <1>0, <2>2
  <2> QED
    BY <1>10, <2>3 DEF ServedOnce, PastDaily, Running, Today, Elapse, keys, rows, ticks
<1>11. CASE Restart
  <2>1. /\ Running' = {} /\ served' = served /\ clock' = clock
        /\ disturbed' = disturbed \cup {DayOf(clock)} \cup {Today(c) : c \in Running}
    BY <1>11 DEF Restart, Disturb, Running, rows
  <2>2. ASSUME NEW i \in DOMAIN Tenants, NEW d \in Day \ disturbed', served[Tenants[i]][d] # 0
        PROVE  d < DayOf(clock) /\ served[Tenants[i]][d] = 1
    <3>1. ~(DayOf(clock) < d) /\ d # DayOf(clock)
      BY <1>0, <2>1, <2>2 DEF DaysToCome, Untouched
    <3> QED
      BY <1>0, <2>1, <2>2, <3>1 DEF ServedOnce
  <2> QED
    BY <2>1, <2>2 DEF ServedOnce
<1> QED
  BY <1>1, <1>2, <1>3, <1>4, <1>5, <1>6, <1>7, <1>8, <1>9, <1>10, <1>11 DEF Next, Continue

(* The same for the morning key and the reports.                           *)
LEMMA ReportsStand ==
  ASSUME TypeOK, TypeOK', ReportedOnce, NEW c \in Tick, Continue(c) \/ Throws(c),
         reports' = reports, morning' = morning,
         \/ pc'[c] = "idle" /\ Today(c) \in disturbed'
         \/ /\ pc'[c] # "idle"
            /\ \A i \in DOMAIN Tenants : PastReport(c, i) => PastReport(c, i)'
  PROVE  ReportedOnce'
<1>1. OneMoves(c) /\ disturbed \subseteq disturbed' /\ pc[c] # "idle" /\ clock' = clock
  BY StepMovesOne DEF OneMoves
<1> SUFFICES ASSUME NEW i \in DOMAIN Tenants, NEW d \in Day \ disturbed', reports[Tenants[i]][d] # 0,
                    morning # d
             PROVE  \/ 3 * d - 1 < clock /\ \A e \in Running' : now'[e] # 3 * d - 1
                    \/ \E e \in Running' : now'[e] = 3 * d - 1 /\ PastReport(e, i)'
  BY <1>1 DEF ReportedOnce
<1>2. \/ 3 * d - 1 < clock /\ \A e \in Running : now[e] # 3 * d - 1
      \/ \E e \in Running : now[e] = 3 * d - 1 /\ PastReport(e, i)
  BY <1>1 DEF ReportedOnce
<1>3. \A e \in Running' : e \in Running /\ now'[e] = now[e]
  BY <1>1 DEF OneMoves, Running
<1>4. CASE \E e \in Running : now[e] = 3 * d - 1 /\ PastReport(e, i)
  <2>1. PICK e \in Running : now[e] = 3 * d - 1 /\ PastReport(e, i)
    BY <1>4
  <2>2. CASE e # c
    BY <1>1, <2>1, <2>2 DEF OneMoves, Running, PastReport
  <2>3. CASE e = c
    <3>1. d = Today(c)
      <4>1. now[c] \in 1..(3 * Days)
        BY DEF TypeOK
      <4> QED
        BY <2>1, <2>3, <4>1, HoursOfDays DEF Today
    <3>2. PastReport(c, i)' /\ pc'[c] # "idle"
      BY <2>1, <2>3, <3>1
    <3>3. c \in Running' /\ now'[c] = 3 * d - 1
      BY <1>1, <2>1, <2>3, <3>2 DEF Running, OneMoves
    <3> QED
      BY <3>2, <3>3
  <2> QED
    BY <2>2, <2>3
<1> QED
  BY <1>2, <1>3, <1>4

LEMMA ReportedOnceKept ==
  ASSUME TypeOK, TypeOK', TicksApart, DaysToCome, LooksFirst, ReportedOnce, [Next]_vars
  PROVE  ReportedOnce'
<1>0. /\ DOMAIN Tenants = 1..Len(Tenants) /\ Len(Tenants) \in Nat
      /\ \A i \in DOMAIN Tenants : Tenants[i] \in Tenant
      /\ \A c \in Tick : at[c] \in DOMAIN Tenants
      /\ \A c \in Tick : Today(c) \in Day /\ Here(c) \in Tenant
      /\ \A d \in Day : d \in Nat \ {0}
  <2>1. \A c \in Tick : at[c] \in DOMAIN Tenants
    BY DEF TypeOK
  <2>2. \A d \in Day : d \in Nat \ {0}
    BY DEF Day
  <2> QED
    BY <2>1, <2>2, TenantsExist, TicksTyped
<1>1. /\ clock \in Nat /\ \A c \in Tick : now[c] \in Nat
      /\ DayOf(clock) \in Nat /\ DayOf(clock) \in Day
      /\ clock \in (3 * DayOf(clock) - 2)..(3 * DayOf(clock))
      /\ \A c \in Tick : now[c] \in (3 * Today(c) - 2)..(3 * Today(c))
      /\ \A c \in Tick : SeventhHour(now[c]) <=> now[c] = 3 * Today(c) - 1
      /\ \A c \in Tick, d \in Day : now[c] = 3 * d - 1 => Today(c) = d
      /\ \A c \in Running : now[c] <= clock
  <2>1. clock \in 1..(3 * Days) /\ \A c \in Tick : now[c] \in 1..(3 * Days)
    BY DEF TypeOK
  <2>2. /\ DayOf(clock) \in Day /\ DayOf(clock) \in Nat
        /\ clock \in (3 * DayOf(clock) - 2)..(3 * DayOf(clock))
    BY <2>1, HoursOfDays DEF Day
  <2>3. ASSUME NEW c \in Tick
        PROVE  /\ now[c] \in (3 * Today(c) - 2)..(3 * Today(c))
               /\ SeventhHour(now[c]) <=> now[c] = 3 * Today(c) - 1
               /\ \A d \in Day : now[c] = 3 * d - 1 => Today(c) = d
    BY <2>1, HoursOfDays DEF Today
  <2>4. \A c \in Running : now[c] <= clock
    BY DEF TicksApart
  <2>5. clock \in Nat /\ \A c \in Tick : now[c] \in Nat
    BY <2>1, SchedulersAssumption
  <2> QED
    BY <2>2, <2>3, <2>4, <2>5
<1>2. CASE UNCHANGED vars
  BY <1>2 DEF ReportedOnce, PastReport, Running, vars, keys, rows, ticks
<1>3. ASSUME NEW c \in Tick, BeginTick(c) PROVE ReportedOnce'
  <2>1. /\ pc'[c] = "rules" /\ now'[c] = clock /\ pc[c] = "idle"
        /\ \A e \in Tick \ {c} : pc'[e] = pc[e] /\ now'[e] = now[e] /\ at'[e] = at[e]
        /\ clock' = clock /\ morning' = morning /\ reports' = reports
    BY <1>3 DEF TypeOK, BeginTick, keys, rows
  <2>2. CASE Running = {}
    <3>1. disturbed' = disturbed /\ \A e \in Running' : now'[e] = clock
      BY <1>3, <2>1, <2>2 DEF BeginTick, Running
    <3> QED
      BY <1>0, <1>1, <2>1, <2>2, <3>1 DEF ReportedOnce
  <2>3. CASE Running # {}
    <3>1. /\ DayOf(clock) \in disturbed' /\ disturbed \subseteq disturbed'
          /\ \A e \in Running : Today(e) \in disturbed'
      BY <1>3, <2>3 DEF BeginTick
    <3>2. ASSUME NEW d \in Day \ disturbed', NEW e \in Running' PROVE now'[e] # 3 * d - 1
      <4>1. CASE e = c
        <5>1. d # DayOf(clock)
          BY <3>1, <3>2
        <5> QED
          BY <1>0, <1>1, <2>1, <4>1, <5>1
      <4>2. CASE e # c
        <5>1. e \in Running /\ now'[e] = now[e]
          BY <2>1, <4>2 DEF Running
        <5>2. d # Today(e) /\ Today(e) \in Nat /\ e \in Tick /\ d \in Nat
          BY <1>0, <3>1, <3>2, <5>1 DEF Running
        <5> QED
          BY <1>1, <5>1, <5>2
      <4> QED
        BY <4>1, <4>2
    <3>3. ASSUME NEW d \in Day \ disturbed', NEW e \in Running PROVE now[e] # 3 * d - 1
      <4>1. d # Today(e) /\ Today(e) \in Nat /\ e \in Tick /\ d \in Nat
        BY <1>0, <3>1, <3>3 DEF Running
      <4> QED
        BY <1>1, <4>1
    <3> QED
      BY <2>1, <3>1, <3>2, <3>3 DEF ReportedOnce
  <2> QED
    BY <2>2, <2>3
<1>4. ASSUME NEW c \in Tick, EvaluateAll(c) PROVE ReportedOnce'
  <2>1. pc'[c] # "idle" /\ \A i \in DOMAIN Tenants : PastReport(c, i) => PastReport(c, i)'
    BY <1>4 DEF TypeOK, EvaluateAll, Goto, PastReport
  <2> QED
    BY <1>4, <2>1, ReportsStand DEF EvaluateAll, Continue, keys, rows
<1>5. ASSUME NEW c \in Tick, CheckMorning(c) PROVE ReportedOnce'
  <2>1. ASSUME NEW i \in DOMAIN Tenants PROVE PastReport(c, i) => PastReport(c, i)'
    <3>1. CASE NextTenant(c)
      BY <1>5, <3>1, PassesOn DEF CheckMorning
    <3>2. CASE Goto(c, "report")
      BY <1>5, <3>2 DEF TypeOK, CheckMorning, Goto, PastReport
    <3> QED
      BY <1>5, <3>1, <3>2 DEF CheckMorning
  <2>2. pc'[c] # "idle"
    BY <1>5 DEF TypeOK, CheckMorning, Goto, NextTenant
  <2> QED
    BY <1>5, <2>1, <2>2, ReportsStand DEF CheckMorning, Continue, keys, rows
<1>6. ASSUME NEW c \in Tick, ScanDaily(c) PROVE ReportedOnce'
  <2>1. pc'[c] # "idle" /\ \A i \in DOMAIN Tenants : PastReport(c, i) => PastReport(c, i)'
    BY <1>6 DEF TypeOK, ScanDaily, Goto, PastReport
  <2> QED
    BY <1>6, <2>1, ReportsStand DEF ScanDaily, Continue, keys
<1>7. ASSUME NEW c \in Tick, DispatchFiltered(c) PROVE ReportedOnce'
  <2>1. \A i \in DOMAIN Tenants : PastReport(c, i) => PastReport(c, i)'
    BY <1>7, PassesOn DEF DispatchFiltered
  <2>2. pc'[c] # "idle"
    BY <1>7 DEF TypeOK, DispatchFiltered, Goto, NextTenant
  <2> QED
    BY <1>7, <2>1, <2>2, ReportsStand DEF DispatchFiltered, Continue, keys
<1>8. ASSUME NEW c \in Tick, Throws(c) PROVE ReportedOnce'
  BY <1>8, ReportsStand DEF TypeOK, Throws, Disturb, Leave, keys, rows
<1>9. ASSUME NEW c \in Tick, GenerateMorningReport(c) PROVE ReportedOnce'
  <2>1. /\ OneMoves(c) /\ disturbed' = disturbed /\ c \in Running /\ pc[c] = "report" /\ pc'[c] = "tell"
        /\ at'[c] = at[c] /\ morning' = morning /\ now' = now /\ clock' = clock
    BY <1>9, StepMovesOne DEF TypeOK, GenerateMorningReport, Goto, Continue, Running, keys, OneMoves
  <2> SUFFICES ASSUME NEW i \in DOMAIN Tenants, NEW d \in Day \ disturbed, reports'[Tenants[i]][d] # 0
               PROVE  /\ reports'[Tenants[i]][d] = 1
                      /\ \/ morning = d
                         \/ 3 * d - 1 < clock /\ \A e \in Running' : now'[e] # 3 * d - 1
                         \/ \E e \in Running' : now'[e] = 3 * d - 1 /\ PastReport(e, i)'
    BY <2>1 DEF ReportedOnce
  <2>2. Running' = Running
    BY <2>1 DEF OneMoves, Running
  <2>3. ASSUME NEW e \in Running PROVE PastReport(e, i) => PastReport(e, i)'
    <3>1. CASE e = c
      BY <2>1, <3>1 DEF PastReport
    <3>2. CASE e # c
      BY <2>1, <3>2 DEF OneMoves, PastReport, Running
    <3> QED
      BY <3>1, <3>2
  <2>4. CASE i = at[c] /\ d = Today(c)
    <3>1. morning # d /\ now[c] = 3 * d - 1
      BY <1>1, <2>1, <2>4 DEF LooksFirst
    <3>2. reports[Tenants[i]][d] = 0
      <4>1. \A e \in Running : now[e] = 3 * d - 1 => e = c
        <5>1. \A e \in Running : now[e] = 3 * d - 1 => Today(e) = d
          BY <1>0, <1>1 DEF Running
        <5> QED
          BY <2>1, <2>4, <5>1 DEF TicksApart
      <4>2. ~PastReport(c, i)
        BY <1>0, <2>1, <2>4 DEF PastReport
      <4> QED
        BY <2>1, <2>4, <3>1, <4>1, <4>2 DEF ReportedOnce
    <3>3. reports'[Tenants[i]][d] = 1
      BY <1>0, <1>9, <2>4, <3>2 DEF TypeOK, GenerateMorningReport, Here, More
    <3>4. PastReport(c, i)'
      BY <2>1, <2>4 DEF PastReport
    <3> QED
      BY <2>1, <2>2, <3>1, <3>3, <3>4
  <2>5. CASE ~(i = at[c] /\ d = Today(c))
    <3>1. Tenants[i] # Here(c) \/ d # Today(c)
      BY <1>0, <2>5, SchedulersAssumption DEF Here
    <3>2. reports'[Tenants[i]][d] = reports[Tenants[i]][d]
      BY <1>0, <1>9, <3>1 DEF TypeOK, GenerateMorningReport
    <3>3. /\ reports[Tenants[i]][d] = 1
          /\ \/ morning = d
             \/ 3 * d - 1 < clock /\ \A e \in Running : now[e] # 3 * d - 1
             \/ \E e \in Running : now[e] = 3 * d - 1 /\ PastReport(e, i)
      BY <3>2 DEF ReportedOnce
    <3> QED
      BY <2>1, <2>2, <2>3, <3>2, <3>3
  <2> QED
    BY <2>4, <2>5
<1>10. ASSUME NEW c \in Tick, EndTick(c) PROVE ReportedOnce'
  <2>1. /\ OneMoves(c) /\ disturbed' = disturbed /\ c \in Running /\ pc'[c] = "idle"
        /\ morning' = IF SeventhHour(now[c]) THEN Today(c) ELSE morning
        /\ reports' = reports /\ clock' = clock
    BY <1>10, StepMovesOne DEF TypeOK, EndTick, Leave, Continue, Running, rows, OneMoves
  <2> SUFFICES ASSUME NEW i \in DOMAIN Tenants, NEW d \in Day \ disturbed, reports[Tenants[i]][d] # 0,
                      d # morning'
               PROVE  3 * d - 1 < clock /\ \A e \in Running' : now'[e] # 3 * d - 1
    BY <2>1 DEF ReportedOnce
  <2>2. ASSUME NEW e \in Running' PROVE now'[e] # 3 * d - 1
    <3>1. e \in Running /\ e # c /\ now'[e] = now[e] /\ e \in Tick
      BY <2>1 DEF OneMoves, Running
    <3>2. Today(e) # d
      BY <2>1, <3>1 DEF TicksApart
    <3> QED
      BY <1>0, <1>1, <3>1, <3>2
  <2>3. c \in Tick /\ Today(c) \in Nat /\ d \in Nat /\ now[c] <= clock
    BY <1>0, <1>1, <2>1
  <2>4. CASE SeventhHour(now[c])
    <3>1. Today(c) # d /\ now[c] = 3 * Today(c) - 1
      BY <1>1, <2>1, <2>4
    <3>2. ~(Today(c) < d)
      BY <1>0, <2>1 DEF DaysToCome, Untouched
    <3> QED
      BY <1>1, <2>2, <2>3, <3>1, <3>2
  <2>5. CASE ~SeventhHour(now[c])
    <3>1. d # morning
      BY <1>1, <2>1, <2>5
    <3>2. \/ 3 * d - 1 < clock
          \/ \E e \in Running : now[e] = 3 * d - 1 /\ PastReport(e, i)
      BY <3>1 DEF ReportedOnce
    <3>3. ASSUME NEW e \in Running, now[e] = 3 * d - 1 PROVE FALSE
      <4>1. e \in Tick /\ e # c /\ Today(e) = d
        BY <1>0, <1>1, <2>3, <2>5, <3>3 DEF Running
      <4> QED
        BY <2>1, <4>1 DEF TicksApart
    <3> QED
      BY <2>2, <3>2, <3>3
  <2> QED
    BY <2>4, <2>5
<1>11. CASE Elapse
  <2>1. clock' = clock + 1 /\ \A d \in Day : 3 * d - 1 < clock => 3 * d - 1 < clock'
    BY <1>0, <1>1, <1>11 DEF Elapse
  <2> QED
    BY <1>11, <2>1 DEF ReportedOnce, PastReport, Running, Elapse, keys, rows, ticks
<1>12. CASE Restart
  <2>1. /\ Running' = {} /\ reports' = reports /\ clock' = clock
        /\ disturbed' = disturbed \cup {DayOf(clock)} \cup {Today(c) : c \in Running}
    BY <1>12 DEF Restart, Disturb, Running, rows
  <2>2. ASSUME NEW i \in DOMAIN Tenants, NEW d \in Day \ disturbed', reports[Tenants[i]][d] # 0
        PROVE  3 * d - 1 < clock /\ reports[Tenants[i]][d] = 1
    <3>1. ~(DayOf(clock) < d) /\ d # DayOf(clock) /\ d \in Nat
      BY <1>0, <2>1, <2>2 DEF DaysToCome, Untouched
    <3> QED
      BY <1>0, <1>1, <2>1, <2>2, <3>1 DEF ReportedOnce
  <2> QED
    BY <2>1, <2>2 DEF ReportedOnce
<1> QED
  BY <1>2, <1>3, <1>4, <1>5, <1>6, <1>7, <1>8, <1>9, <1>10, <1>11, <1>12 DEF Next, Continue

(* Nothing a tick writes changes what it is about to tell of.              *)
LEMMA ReportsToldKept ==
  ASSUME TypeOK, TypeOK', ReportIsDispatched, ReportsToTell, [Next]_vars
  PROVE  ReportIsDispatched' /\ ReportsToTell'
<1>0. /\ \A t \in Tenant, d \in Day : reports[t][d] \in 0..2 /\ dispatched[t][d] \in 0..2
      /\ \A c \in Tick : Today(c) \in Day /\ Here(c) \in Tenant
  BY TicksTyped DEF TypeOK
<1>1. CASE UNCHANGED vars
  BY <1>1 DEF ReportIsDispatched, ReportsToTell, Untold, Here, Today, vars, ticks, rows
<1>2. ASSUME reports' = reports, dispatched' = dispatched, disturbed \subseteq disturbed',
             \A c \in Tick : \/ pc'[c] = "tell" /\ pc[c] = "tell" /\ now'[c] = now[c] /\ at'[c] = at[c]
                             \/ pc'[c] # "tell" /\ (pc[c] # "tell" \/ Today(c) \in disturbed')
      PROVE  ReportIsDispatched' /\ ReportsToTell'
  <2>1. ReportsToTell'
    BY <1>2 DEF ReportsToTell, Untold, Here, Today
  <2>2. ReportIsDispatched'
    BY <1>2 DEF ReportIsDispatched, Here, Today
  <2> QED
    BY <2>1, <2>2
<1>12. ASSUME NEW c \in Tick, pc[c] = "tell", Dispatch(c), pc'[c] # "tell",
              reports' = reports, disturbed \subseteq disturbed',
              \A e \in Tick \ {c} : pc'[e] = pc[e] /\ now'[e] = now[e] /\ at'[e] = at[e]
       PROVE  ReportIsDispatched' /\ ReportsToTell'
  <2> DEFINE h == Here(c)
             y == Today(c)
  <2>1. /\ h \in Tenant /\ y \in Day
        /\ dispatched'[h][y] = More(dispatched[h][y])
        /\ \A t \in Tenant, d \in Day : ~(t = h /\ d = y) => dispatched'[t][d] = dispatched[t][d]
    BY <1>0, <1>12 DEF TypeOK, Dispatch
  <2>2. \A e \in Tick \ {c} : Here(e)' = Here(e) /\ Today(e)' = Today(e)
    BY <1>12 DEF Here, Today
  <2>3. More(dispatched[h][y]) \in 1..2 /\ More(dispatched[h][y]) <= reports[h][y]
    BY <1>0, <1>12, <2>1 DEF More, ReportsToTell, Untold
  <2> HIDE DEF h, y
  <2>4. ReportIsDispatched'
    <3>1. \A t \in Tenant, d \in Day : dispatched'[t][d] <= reports'[t][d]
      BY <1>0, <1>12, <2>1, <2>3 DEF ReportIsDispatched
    <3>2. ASSUME NEW t \in Tenant, NEW d \in Day, reports'[t][d] > 0, dispatched'[t][d] = 0
          PROVE  \/ d \in disturbed'
                 \/ \E e \in Tick : pc'[e] = "tell" /\ Here(e)' = t /\ Today(e)' = d
      <4>1. ~(t = h /\ d = y)
        BY <1>12, <2>1, <2>3, <3>2
      <4>2. \/ d \in disturbed
            \/ \E e \in Tick : pc[e] = "tell" /\ Here(e) = t /\ Today(e) = d
        BY <1>12, <2>1, <3>2, <4>1 DEF ReportIsDispatched
      <4> QED
        BY <1>12, <2>1, <2>2, <4>1, <4>2 DEF h, y
    <3> QED
      BY <1>12, <3>1, <3>2 DEF ReportIsDispatched
  <2>5. ASSUME NEW e \in Tick, pc'[e] = "tell" PROVE Untold(e)'
    <3>1. e # c /\ pc[e] = "tell"
      BY <1>12, <2>1, <2>5
    <3>2. CASE Here(e) = h /\ Today(e) = y
      BY <1>12, <2>1, <2>2, <3>1, <3>2 DEF Untold, ReportsToTell, h, y
    <3>3. CASE ~(Here(e) = h /\ Today(e) = y)
      BY <1>0, <1>12, <2>1, <2>2, <3>1, <3>3 DEF Untold, ReportsToTell
    <3> QED
      BY <1>12, <3>2, <3>3
  <2>6. ASSUME NEW e \in Tick, NEW g \in Tick, e # g, pc'[e] = "tell", pc'[g] = "tell",
               Here(e)' = Here(g)', Today(e)' = Today(g)'
        PROVE  reports'[Here(e)'][Today(e)'] = 2
    <3>1. e # c /\ g # c /\ pc[e] = "tell" /\ pc[g] = "tell"
      BY <1>12, <2>1, <2>6
    <3> QED
      BY <1>12, <2>1, <2>2, <2>6, <3>1 DEF ReportsToTell
  <2> QED
    BY <1>12, <2>4, <2>5, <2>6 DEF ReportsToTell
<1>3. ASSUME NEW c \in Tick, BeginTick(c) PROVE ReportIsDispatched' /\ ReportsToTell'
  BY <1>2, <1>3 DEF TypeOK, BeginTick, rows
<1>4. ASSUME NEW c \in Tick, EvaluateAll(c) \/ ScanDaily(c) PROVE ReportIsDispatched' /\ ReportsToTell'
  BY <1>2, <1>4 DEF TypeOK, EvaluateAll, ScanDaily, Goto, rows
<1>5. ASSUME NEW c \in Tick, CheckMorning(c) PROVE ReportIsDispatched' /\ ReportsToTell'
  BY <1>2, <1>5 DEF TypeOK, CheckMorning, Goto, NextTenant, rows
<1>6. ASSUME NEW c \in Tick, EndTick(c) PROVE ReportIsDispatched' /\ ReportsToTell'
  BY <1>2, <1>6 DEF TypeOK, EndTick, Leave, rows
<1>7. ASSUME NEW c \in Tick, Throws(c) PROVE ReportIsDispatched' /\ ReportsToTell'
  <2>1. CASE dispatched' = dispatched
    BY <1>2, <1>7, <2>1 DEF TypeOK, Throws, Disturb, Leave
  <2>2. CASE pc[c] = "tell" /\ Dispatch(c)
    BY <1>7, <1>12, <2>2 DEF TypeOK, Throws, Disturb, Leave
  <2> QED
    BY <1>7, <2>1, <2>2 DEF Throws
<1>8. CASE Elapse
  BY <1>2, <1>8 DEF Elapse, rows, ticks
<1>9. CASE Restart
  BY <1>2, <1>9 DEF Restart, Disturb, Running, rows
<1>10. ASSUME NEW c \in Tick, GenerateMorningReport(c) PROVE ReportIsDispatched' /\ ReportsToTell'
  <2> DEFINE h == Here(c)
             y == Today(c)
  <2>1. /\ pc[c] = "report" /\ pc' = [pc EXCEPT ![c] = "tell"] /\ now' = now /\ at' = at
        /\ dispatched' = dispatched /\ disturbed' = disturbed /\ h \in Tenant /\ y \in Day
        /\ reports'[h][y] = More(reports[h][y])
        /\ \A t \in Tenant, d \in Day : ~(t = h /\ d = y) => reports'[t][d] = reports[t][d]
    BY <1>0, <1>10 DEF TypeOK, GenerateMorningReport, Goto
  <2>2. \A e \in Tick : Here(e)' = Here(e) /\ Today(e)' = Today(e)
    BY <2>1 DEF Here, Today
  <2>3. /\ More(reports[h][y]) \in 1..2 /\ dispatched[h][y] <= reports[h][y]
        /\ More(reports[h][y]) = 2 \/ dispatched[h][y] < More(reports[h][y])
        /\ reports[h][y] = 0 \/ More(reports[h][y]) = 2
    BY <1>0, <2>1 DEF More, ReportIsDispatched
  <2>4. pc'[c] = "tell" /\ \A e \in Tick \ {c} : pc'[e] = pc[e]
    BY <2>1 DEF TypeOK
  <2> HIDE DEF h, y
  <2>5. ReportIsDispatched'
    <3>1. \A t \in Tenant, d \in Day : dispatched'[t][d] <= reports'[t][d]
      BY <1>0, <2>1, <2>3 DEF ReportIsDispatched
    <3>2. ASSUME NEW t \in Tenant, NEW d \in Day, reports'[t][d] > 0, dispatched'[t][d] = 0
          PROVE  \/ d \in disturbed'
                 \/ \E e \in Tick : pc'[e] = "tell" /\ Here(e)' = t /\ Today(e)' = d
      <4>1. CASE t = h /\ d = y
        BY <2>2, <2>4, <4>1 DEF h, y
      <4>2. CASE ~(t = h /\ d = y)
        BY <2>1, <2>2, <2>4, <3>2, <4>2 DEF ReportIsDispatched
      <4> QED
        BY <4>1, <4>2
    <3> QED
      BY <3>1, <3>2 DEF ReportIsDispatched
  <2>6. ASSUME NEW e \in Tick, pc'[e] = "tell" PROVE Untold(e)'
    <3>1. CASE Here(e) = h /\ Today(e) = y
      BY <2>1, <2>2, <2>3, <3>1 DEF Untold
    <3>2. CASE ~(Here(e) = h /\ Today(e) = y)
      <4>1. e # c
        BY <3>2 DEF h, y
      <4> QED
        BY <1>0, <2>1, <2>2, <2>4, <2>6, <3>2, <4>1 DEF Untold, ReportsToTell
    <3> QED
      BY <3>1, <3>2
  <2>7. ASSUME NEW e \in Tick, NEW g \in Tick, e # g, pc'[e] = "tell", pc'[g] = "tell",
               Here(e) = Here(g), Today(e) = Today(g)
        PROVE  reports'[Here(e)][Today(e)] = 2
    <3>1. CASE Here(e) = h /\ Today(e) = y
      <4>1. PICK k \in {e, g} : k # c
        BY <2>7
      <4>2. Untold(k) /\ Here(k) = h /\ Today(k) = y
        BY <2>4, <2>7, <3>1, <4>1 DEF ReportsToTell
      <4>3. reports[h][y] # 0
        BY <1>0, <2>1, <4>2 DEF Untold
      <4> QED
        BY <2>1, <2>3, <3>1, <4>3
    <3>2. CASE ~(Here(e) = h /\ Today(e) = y)
      <4>1. e # c /\ g # c
        BY <2>7, <3>2 DEF h, y
      <4> QED
        BY <1>0, <2>1, <2>4, <2>7, <3>2, <4>1 DEF ReportsToTell
    <3> QED
      BY <3>1, <3>2
  <2> QED
    BY <2>2, <2>5, <2>6, <2>7 DEF ReportsToTell
<1>11. ASSUME NEW c \in Tick, DispatchFiltered(c) PROVE ReportIsDispatched' /\ ReportsToTell'
  BY <1>11, <1>12 DEF TypeOK, DispatchFiltered, NextTenant, Goto
<1> QED
  BY <1>1, <1>3, <1>4, <1>5, <1>6, <1>7, <1>8, <1>9, <1>10, <1>11 DEF Next, Continue

-----------------------------------------------------------------------------
LEMMA CalmInitially == Init => CalmInv
<1> SUFFICES ASSUME Init PROVE CalmInv
  OBVIOUS
<1>1. /\ \A t \in Tenant, d \in Day : served[t][d] = 0 /\ reports[t][d] = 0 /\ dispatched[t][d] = 0
      /\ \A c \in Tick : pc[c] = "idle"
      /\ \A i \in DOMAIN Tenants : Tenants[i] \in Tenant
  BY TenantsExist DEF Init
<1> QED
  BY <1>1 DEF CalmInv, TicksApart, DaysToCome, Untouched, LooksFirst, ServedOnce, ReportedOnce,
              ReportIsDispatched, ReportsToTell, Running

LEMMA CalmInvariance == Spec => [](TypeOK /\ CalmInv)
<1>1. Init => TypeOK /\ CalmInv
  BY InvariantInitially, CalmInitially DEF IInv
<1>2. ASSUME TypeOK, CalmInv, [Next]_vars PROVE TypeOK' /\ CalmInv'
  BY <1>2, TypePreserved, ApartKept, DaysToComeKept, LooksFirstKept, ServedOnceKept,
     ReportedOnceKept, ReportsToldKept DEF CalmInv
<1> QED
  BY <1>1, <1>2, PTL DEF Spec

(* A day on which no tick throws, none overlaps another and the process    *)
(* does not restart sees a tenant's daily work, its report and its         *)
(* dispatch at most once, though the keys are read for every tenant and    *)
(* written only at a tick's end; and a report that is made is handed to    *)
(* the channels, but for the tick in between or a fault (tick).            *)
THEOREM CalmDaysAreServedOnce == Spec => []OnceWhenCalm
<1>1. ASSUME TypeOK, CalmInv PROVE OnceWhenCalm
  <2> SUFFICES ASSUME NEW t \in Tenant, NEW d \in Day \ disturbed
               PROVE  served[t][d] < 2 /\ reports[t][d] < 2 /\ dispatched[t][d] < 2
    BY <1>1 DEF OnceWhenCalm, CalmInv
  <2>1. PICK i \in DOMAIN Tenants : t = Tenants[i]
    BY DEF Tenant
  <2>2. served[t][d] \in 0..1 /\ reports[t][d] \in 0..1
    BY <1>1, <2>1 DEF CalmInv, ServedOnce, ReportedOnce
  <2>3. dispatched[t][d] \in 0..2 /\ dispatched[t][d] <= reports[t][d]
    BY <1>1 DEF TypeOK, CalmInv, ReportIsDispatched
  <2> QED
    BY <2>2, <2>3
<1> QED
  BY <1>1, CalmInvariance, PTL
=============================================================================
