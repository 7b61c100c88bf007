------------------------------ MODULE LiveSync ------------------------------
(***************************************************************************)
(* AvitoLiveSyncEngineService keeps one account's read models up to date.  *)
(* A sync worker (profile, items, messenger...) has a row in the database  *)
(* that says when it is due and how its last run ended.  Jobs wait in one  *)
(* in-memory queue: a worker, or Full, every enabled worker in order.      *)
(*                                                                         *)
(* Whoever calls processQueue takes jobs off that queue and runs them: a   *)
(* tick of the scheduler, which setInterval starts whether or not the last *)
(* one is done, or a request for a full sync.  They interleave at every    *)
(* await: a Caller is one such call, and a step of it runs from one await  *)
(* to the next.  One API process, which may die and start again.  The      *)
(* workers delivery and jobs, disabled for want of an API, are left out.   *)
(***************************************************************************)
EXTENDS Naturals, SequencesExt

CONSTANTS Worker,
          Full,        \* the job "every enabled worker"
          Order,       \* the workers, in the order of a full sync
          Announced,   \* workers with a domain event of their own
          Messenger,   \* the worker a webhook asks for
          Ticker,      \* ticks of the scheduler under way at one time
          Requester,   \* requests for a full sync under way at one time
          Webhook,     \* the handler of a webhook
          TickRows,    \* due rows a tick reads: 10
          TickJobs,    \* jobs a tick runs: 5
          RequestJobs  \* jobs a request runs: 20
CONSTANTS None,
          MaxQueue,    \* bound: rows fall due only while fewer jobs wait
          MaxFaults,   \* bound: failures and restarts
          MaxCalls     \* bound: requests, webhooks and schedule changes

Caller == Ticker \cup Requester

ASSUME LiveSyncAssumption ==
  /\ Order \in Seq(Worker) /\ ToSet(Order) = Worker /\ Len(Order) = Cardinality(Worker)
  /\ Full \notin Worker /\ None \notin Worker /\ Webhook \notin Caller
  /\ Announced \subseteq Worker /\ Messenger \in Worker
  /\ {TickRows, TickJobs, RequestJobs} \subseteq Nat \ {0}
  /\ {MaxQueue, MaxFaults, MaxCalls} \subseteq Nat

VARIABLES
  due,      \* rows: workers with nextSyncAt <= now, the oldest first
  enabled,  \* rows
  status,   \* rows: lastStatus
  boot,         \* bootstrapReadyAccounts has not queued its full sync yet
  queue,        \* the engine's jobs
  activeWorker, \* the worker it says it is running
  at,       \* where each caller and the webhook handler is
  jobs,     \* how many more jobs a caller runs
  full,     \* whether its job is a full sync
  todo,     \* workers it still has to run, the one it runs first; for a tick
            \* that has polled, the rows it read
  result,   \* what executeWorker returned to it
  current,  \* who read the event stream live:<account> and nothing was
            \* appended to it since
  faults, calls,
  owed,     \* history: workers whose row says "completed", not announced yet
  cut,      \* history: workers whose last run ended without writing the row
  stray     \* history: activeWorker is left over from a run that did not start

rows   == <<due, enabled, status>>
engine == <<boot, queue, activeWorker, stray>>
mine   == <<jobs, full, todo, result>>
vars   == <<rows, engine, at, mine, current, faults, calls, owed, cut>>

InTry == {"execute", "read", "append", "readOwn", "appendOwn"}
At    == InTry \cup {"idle", "polled", "row", "mark", "fail", "account", "next"}

TypeOK ==
  /\ due \in Seq(Worker) /\ IsInjective(due)
  /\ enabled \in [Worker -> BOOLEAN]
  /\ status \in [Worker -> {"pending", "running", "completed", "failed"}]
  /\ boot \in BOOLEAN
  /\ queue \in Seq(Worker \cup {Full})
  /\ activeWorker \in Worker \cup {None}
  /\ at \in [Caller \cup {Webhook} -> At \cup {"enqueue"}]
  /\ \A c \in Caller : at[c] \in At /\ (at[c] \in InTry \cup {"row", "mark", "fail"} => todo[c] # <<>>)
  /\ jobs \in [Caller -> Nat]
  /\ full \in [Caller -> BOOLEAN]
  /\ todo \in [Caller -> Seq(Worker)]
  /\ result \in [Caller -> {"none", "completed", "failed"}]
  /\ current \subseteq Caller \cup {Webhook}
  /\ faults \in 0..MaxFaults /\ calls \in 0..MaxCalls
  /\ owed \subseteq Worker /\ cut \subseteq Worker /\ stray \in BOOLEAN

(* The process starts and finds the account ready: ensureWorkers made its  *)
(* rows, all due at once.                                                  *)
Init ==
  /\ due = Order
  /\ enabled = [w \in Worker |-> TRUE]
  /\ status = [w \in Worker |-> "pending"]
  /\ boot = TRUE
  /\ queue = <<>>
  /\ activeWorker = None
  /\ at = [c \in Caller \cup {Webhook} |-> "idle"]
  /\ jobs = [c \in Caller |-> 0]
  /\ full = [c \in Caller |-> FALSE]
  /\ todo = [c \in Caller |-> <<>>]
  /\ result = [c \in Caller |-> "none"]
  /\ current = {}
  /\ faults = 0 /\ calls = 0
  /\ owed = {} /\ cut = {} /\ stray = FALSE

-----------------------------------------------------------------------------
Goto(c, step) == at' = [at EXCEPT ![c] = step]

(* Where in the rows s, each of which is there once, w is; s without it.   *)
Place(s, w)   == CHOOSE i \in DOMAIN s : s[i] = w
Without(s, w) == IF w \in ToSet(s) THEN RemoveAt(s, Place(s, w)) ELSE s

(* The caller has begun the run of a worker / is between the first write   *)
(* to its row and the last.                                                *)
Runs(c, w)    == at[c] \in InTry \cup {"mark", "fail"} /\ Head(todo[c]) = w
Running(c, w) == at[c] \in InTry \cup {"fail"} /\ Head(todo[c]) = w

SetActive(w) == activeWorker' = w /\ stray' = FALSE

(* The call is over, whether it returns or throws. *)
Leave(c) ==
  /\ Goto(c, "idle")
  /\ jobs' = [jobs EXCEPT ![c] = 0]
  /\ full' = [full EXCEPT ![c] = FALSE]
  /\ todo' = [todo EXCEPT ![c] = <<>>]
  /\ result' = [result EXCEPT ![c] = "none"]

(* processQueue's loop up to its first await, with n jobs left to run and  *)
(* the jobs q waiting.  The worker of a job becomes the active one.        *)
TakeJob(c, n, q) ==
  IF n = 0 \/ q = <<>>
  THEN Leave(c) /\ queue' = q /\ activeWorker' = activeWorker /\ stray' = stray
  ELSE /\ queue' = Tail(q)
       /\ jobs' = [jobs EXCEPT ![c] = n - 1]
       /\ full' = [full EXCEPT ![c] = Head(q) = Full]
       /\ UNCHANGED result
       /\ IF Head(q) = Full
          THEN /\ Goto(c, "row")
               /\ todo' = [todo EXCEPT ![c] = Order]
               /\ activeWorker' = activeWorker /\ stray' = stray
          ELSE /\ Goto(c, "mark")
               /\ todo' = [todo EXCEPT ![c] = <<Head(q)>>]
               /\ SetActive(Head(q))

-----------------------------------------------------------------------------
(* The interval of a worker has passed since its row was stored. *)
Elapse(w) ==
  /\ w \notin ToSet(due)
  /\ Len(queue) < MaxQueue
  /\ due' = Append(due, w)
  /\ UNCHANGED <<enabled, status, engine, at, mine, current, faults, calls, owed, cut>>

(* updateSchedule: another interval, due at once, perhaps switched on/off. *)
UpdateSchedule(w) ==
  /\ calls < MaxCalls
  /\ calls' = calls + 1
  /\ due' = Append(Without(due, w), w)
  /\ \E e \in BOOLEAN : enabled' = [enabled EXCEPT ![w] = e]
  /\ UNCHANGED <<status, engine, at, mine, current, faults, owed, cut>>

(* Of the rows S the first in the order of due: each has before it those   *)
(* listed before it, and if there is room for more, they are all.  There   *)
(* is one such list.                                                       *)
FirstRows(S) ==
  {s \in UNION {[1..n -> S] : n \in 0..TickRows} :
     /\ \A i \in DOMAIN s :
          {s[j] : j \in 1..(i - 1)} = {w \in S : Place(due, w) < Place(due, s[i])}
     /\ Len(s) = TickRows \/ ToSet(s) = S}

(* Mutant of DueRows: a row that says "running" is taken to be in hand. *)
DueRows_NotRunning ==
  FirstRows({w \in ToSet(due) : enabled[w] /\ status[w] # "running"})

(* getDueWorkers. *)
DueRows == FirstRows({w \in ToSet(due) : enabled[w]})

(* tick, up to its first await; it goes on from the rows it read. *)
Poll(c) ==
  /\ at[c] = "idle"
  /\ \E s \in DueRows : todo' = [todo EXCEPT ![c] = s]
  /\ Goto(c, "polled")
  /\ UNCHANGED <<rows, engine, jobs, full, result, current, faults, calls, owed, cut>>

EnqueueDue(c) ==
  /\ at[c] = "polled"
  /\ TakeJob(c, TickJobs, queue \o todo[c])
  /\ UNCHANGED <<boot, rows, current, faults, calls, owed, cut>>

(* triggerFullSync and syncAccount, after ensureWorkers. *)
Request(c) ==
  /\ at[c] = "idle"
  /\ calls < MaxCalls
  /\ calls' = calls + 1
  /\ TakeJob(c, RequestJobs, Append(queue, Full))
  /\ UNCHANGED <<boot, rows, current, faults, owed, cut>>
-----------------------------------------------------------------------------
(* A full sync reads a worker's row and skips it if it is disabled...      *)
NextOfFull(c) ==
  /\ at[c] = "row"
  /\ IF enabled[Head(todo[c])]
     THEN Goto(c, "mark") /\ SetActive(Head(todo[c])) /\ UNCHANGED todo
     ELSE /\ todo' = [todo EXCEPT ![c] = Tail(@)]
          /\ Goto(c, IF Len(todo[c]) = 1 THEN "account" ELSE "row")
          /\ UNCHANGED <<activeWorker, stray>>
  /\ UNCHANGED <<rows, boot, queue, jobs, full, result, current, faults, calls, owed, cut>>

(* ... and writes the account's row when it has done the last of them.     *)
NextJob(c) ==
  /\ at[c] \in {"account", "next"}
  /\ TakeJob(c, jobs[c], queue)
  /\ UNCHANGED <<boot, rows, current, faults, calls, owed, cut>>

(* runWorker: the row says "running" while Avito is asked. *)
MarkRunning(c) ==
  /\ at[c] = "mark"
  /\ status' = [status EXCEPT ![Head(todo[c])] = "running"]
  /\ cut' = cut \ {Head(todo[c])}
  /\ Goto(c, "execute")
  /\ UNCHANGED <<due, enabled, engine, mine, current, faults, calls, owed>>

(* executeWorker returns, "completed" or one of the rest ("failed" here),  *)
(* and the row is stored: nextSyncAt is an interval away.                  *)
RunWorker(c) ==
  /\ at[c] = "execute"
  /\ \E r \in {"completed", "failed"} :
       LET w == Head(todo[c]) IN
       /\ result' = [result EXCEPT ![c] = r]
       /\ status' = [status EXCEPT ![w] = r]
       /\ due' = Without(due, w)
       /\ cut' = cut \ {w}
       /\ owed' = IF r = "completed" THEN owed \cup {w} ELSE owed \ {w}
  /\ Goto(c, "read")
  /\ UNCHANGED <<enabled, engine, jobs, full, todo, current, faults, calls>>

-----------------------------------------------------------------------------
(* AvitoEventPublisher.publish reads the stream and then appends to it at  *)
(* the version it read: of two that read the same version one fails.       *)
ReadStream(c) ==
  /\ \/ at[c] = "read" /\ Goto(c, "append")
     \/ at[c] = "readOwn" /\ Goto(c, "appendOwn")
  /\ current' = current \cup {c}
  /\ UNCHANGED <<rows, engine, mine, faults, calls, owed, cut>>

(* Mutants of RunEnds: no `finally`; a full sync goes on past its last     *)
(* worker.                                                                 *)
RunEnds_NoFinally(c) ==
  /\ UNCHANGED <<activeWorker, stray>>
  /\ todo' = [todo EXCEPT ![c] = Tail(@)]
  /\ Goto(c, IF ~full[c] THEN "next" ELSE IF Len(todo[c]) = 1 THEN "account" ELSE "row")
  /\ result' = [result EXCEPT ![c] = "none"]
  /\ UNCHANGED <<queue, jobs, full>>

RunEnds_PastLast(c) ==
  /\ activeWorker' = None /\ stray' = FALSE
  /\ todo' = [todo EXCEPT ![c] = Tail(@)]
  /\ Goto(c, IF full[c] THEN "row" ELSE "next")
  /\ result' = [result EXCEPT ![c] = "none"]
  /\ UNCHANGED <<queue, jobs, full>>

(* runWorker returns: its `finally`, then the next worker or job. *)
RunEnds(c) ==
  /\ activeWorker' = None /\ stray' = FALSE
  /\ todo' = [todo EXCEPT ![c] = Tail(@)]
  /\ Goto(c, IF ~full[c] THEN "next" ELSE IF Len(todo[c]) = 1 THEN "account" ELSE "row")
  /\ result' = [result EXCEPT ![c] = "none"]
  /\ UNCHANGED <<queue, jobs, full>>

HasOwnEvent(c) == result[c] = "completed" /\ Head(todo[c]) \in Announced

(* SyncWorkerCompleted, then the worker's own event if it completed.       *)
AppendEvent(c) ==
  /\ c \in current
  /\ current' = {}
  /\ \/ /\ at[c] = "append"
        /\ owed' = owed \ {Head(todo[c])}
        /\ IF HasOwnEvent(c)
           THEN Goto(c, "readOwn") /\ UNCHANGED <<queue, activeWorker, stray, mine>>
           ELSE RunEnds(c)
     \/ /\ at[c] = "appendOwn"
        /\ RunEnds(c)
        /\ UNCHANGED owed
  /\ UNCHANGED <<boot, rows, faults, calls, cut>>

(* Mutant of Conflict: the publisher logs it, as IntelligenceEventPublisher *)
(* does, and the run goes on.                                              *)
Conflict_Logged(c) ==
  /\ at[c] \in {"append", "appendOwn"}
  /\ c \notin current
  /\ RunEnds(c)
  /\ UNCHANGED <<boot, rows, current, faults, calls, owed, cut>>

Conflict(c) ==
  /\ at[c] \in {"append", "appendOwn"}
  /\ c \notin current
  /\ Goto(c, "fail")
  /\ UNCHANGED <<rows, engine, mine, current, faults, calls, owed, cut>>

(* Mutant of WriteFailed: the retry is counted, lastStatus left alone. *)
WriteFailed_CountsOnly(c) ==
  /\ at[c] = "fail"
  /\ RunEnds(c)
  /\ UNCHANGED <<boot, rows, current, faults, calls, owed, cut>>

(* runWorker's catch: the row says "failed" and stays due if it was.       *)
WriteFailed(c) ==
  /\ at[c] = "fail"
  /\ status' = [status EXCEPT ![Head(todo[c])] = "failed"]
  /\ cut' = cut \ {Head(todo[c])}
  /\ owed' = owed \ {Head(todo[c])}
  /\ RunEnds(c)
  /\ UNCHANGED <<boot, due, enabled, current, faults, calls>>

-----------------------------------------------------------------------------
(* A webhook announces itself on the same stream and asks for Messenger.   *)
WebhookRead ==
  /\ at[Webhook] = "idle"
  /\ calls < MaxCalls
  /\ calls' = calls + 1
  /\ current' = current \cup {Webhook}
  /\ Goto(Webhook, "append")
  /\ UNCHANGED <<rows, engine, mine, faults, owed, cut>>

WebhookAppend ==
  /\ at[Webhook] = "append"
  /\ IF Webhook \in current
     THEN current' = {} /\ Goto(Webhook, "enqueue")
     ELSE Goto(Webhook, "idle") /\ UNCHANGED current
  /\ UNCHANGED <<rows, engine, mine, faults, calls, owed, cut>>

WebhookEnqueue ==
  /\ at[Webhook] = "enqueue"
  /\ queue' = Append(queue, Messenger)
  /\ Goto(Webhook, "idle")
  /\ UNCHANGED <<rows, boot, activeWorker, stray, mine, current, faults, calls, owed, cut>>

-----------------------------------------------------------------------------
Bootstrap ==
  /\ boot
  /\ boot' = FALSE
  /\ queue' = Append(queue, Full)
  /\ UNCHANGED <<rows, activeWorker, stray, at, mine, current, faults, calls, owed, cut>>

(* What a run's try block awaits throws. *)
Throws(c) ==
  /\ at[c] \in InTry
  /\ faults < MaxFaults
  /\ faults' = faults + 1
  /\ Goto(c, "fail")
  /\ current' = current \ {c}
  /\ UNCHANGED <<rows, engine, mine, calls, owed, cut>>

(* An await outside it throws, and so does processQueue: in runWorker's    *)
(* first write, activeWorker stays; in its catch, `finally` clears it.     *)
Rejects(c) ==
  /\ at[c] \in {"polled", "row", "account", "mark", "fail"}
  /\ faults < MaxFaults
  /\ faults' = faults + 1
  /\ Leave(c)
  /\ activeWorker' = IF at[c] = "fail" THEN None ELSE activeWorker
  /\ stray' = ((stray \/ at[c] = "mark") /\ at[c] # "fail")
  /\ cut' = IF at[c] = "fail" THEN cut \cup {Head(todo[c])} ELSE cut
  /\ UNCHANGED <<boot, rows, queue, current, calls, owed>>

(* The process dies and starts again: the rows are what is left. *)
Crash ==
  /\ faults < MaxFaults
  /\ faults' = faults + 1
  /\ boot' = TRUE
  /\ queue' = <<>>
  /\ activeWorker' = None /\ stray' = FALSE
  /\ at' = [c \in Caller \cup {Webhook} |-> "idle"]
  /\ jobs' = [c \in Caller |-> 0]
  /\ full' = [c \in Caller |-> FALSE]
  /\ todo' = [c \in Caller |-> <<>>]
  /\ result' = [c \in Caller |-> "none"]
  /\ current' = {}
  /\ cut' = cut \cup {w \in Worker : \E c \in Caller : Running(c, w)}
  /\ UNCHANGED <<rows, calls, owed>>

Continue(c) ==
  \/ EnqueueDue(c) \/ NextOfFull(c) \/ NextJob(c)
  \/ MarkRunning(c) \/ RunWorker(c)
  \/ ReadStream(c) \/ AppendEvent(c) \/ Conflict(c) \/ WriteFailed(c)

Tick(c) == c \in Ticker /\ Poll(c)

Next ==
  \/ \E w \in Worker : Elapse(w) \/ UpdateSchedule(w)
  \/ \E c \in Requester : Request(c)
  \/ \E c \in Caller : Tick(c) \/ Continue(c) \/ Throws(c) \/ Rejects(c)
  \/ WebhookRead \/ WebhookAppend \/ WebhookEnqueue \/ Bootstrap \/ Crash

(* The timer goes on firing and every await settles. *)
Fairness == \A c \in Caller : WF_vars(Tick(c) \/ Continue(c))

Spec == Init /\ [][Next]_vars /\ Fairness

-----------------------------------------------------------------------------
(* sync-dashboard.md, "Active worker": a worker shown as active is being   *)
(* run, however many calls share the field; the exception is a run whose   *)
(* first write threw, outside the try whose `finally` clears it.           *)
ActiveWorkerRuns ==
  activeWorker # None /\ ~stray => \E c \in Caller : Runs(c, activeWorker)

(* A row that says "running" has a run behind it, unless that run could    *)
(* not write its end: runs of one worker that overlap do not leave it so.  *)
RunningHasRunner ==
  \A w \in Worker \ cut :
    status[w] = "running" => \E c \in Caller : Running(c, w)

(* A worker at rest whose row says "completed" announced a completed run:  *)
(* the read model does not run ahead of the event log, except over a run   *)
(* that could not write its end.                                           *)
CompletedIsAnnounced ==
  \A w \in Worker \ cut :
    status[w] = "completed" /\ (\A c \in Caller : ~Running(c, w)) => w \notin owed

(* sync-engine.md, "Retry": a due worker is run, unless it is disabled:    *)
(* neither restarts nor a backlog of jobs nor full syncs starve it.        *)
DueIsRun ==
  \A w \in Worker :
    w \in ToSet(due) /\ enabled[w] ~>
      (\E c \in Caller : Running(c, w)) \/ ~enabled[w]
=============================================================================
