--------------------------- MODULE LiveSyncProofs ---------------------------
(***************************************************************************)
(* What the live sync engine says of a worker is backed by a run or by an  *)
(* event, for every set of workers, ticks and requests, every batch size   *)
(* and any number of failures and restarts.                                *)
(*                                                                         *)
(* And what AdCatalog says of the table its worker `items` writes: the row *)
(* of an ad shows its stream, the counters lose nothing but imports a bump *)
(* overlaps, and an item has no more rows than calls run at a time, for    *)
(* every set of ads, items and calls, and any number of requests.          *)
(***************************************************************************)
EXTENDS MCCatalog, FiniteSetTheorems, SequenceTheorems, WellFoundedInduction, TLAPS

(* The domains, which is all of the types the invariants rest on. *)
Shape ==
  /\ at \in [Caller \cup {Webhook} -> At \cup {"enqueue"}]
  /\ todo = [c \in Caller |-> todo[c]]
  /\ status = [w \in Worker |-> status[w]]

(* The runs that can be behind a row that says "running"...                *)
MarkedBy(c, w) == at[c] \in {"execute", "fail"} /\ Head(todo[c]) = w

(* ... and those that still have to announce a row that says "completed"   *)
(* or to take it back.                                                     *)
OwedBy(c, w) == at[c] \in {"execute", "read", "append", "fail"} /\ Head(todo[c]) = w

Marked ==
  \A w \in Worker \ cut : status[w] = "running" => \E c \in Caller : MarkedBy(c, w)

Owing == \A w \in owed \cap Worker : w \notin cut => \E c \in Caller : OwedBy(c, w)

(* The inductive invariant. *)
IInv == Shape /\ ActiveWorkerRuns /\ Marked /\ Owing

-----------------------------------------------------------------------------
(* A step of a caller that does not move it out of a run, nor touch what   *)
(* the invariant says of it: the rest of the callers stand where they did. *)
LEMMA TakesJob ==
  ASSUME IInv, NEW c \in Caller, NEW n, NEW q,
         at[c] \notin InTry \cup {"mark", "fail"},
         TakeJob(c, n, q), UNCHANGED <<rows, owed, cut>>
  PROVE  IInv'
<1>1. Shape'
  BY LiveSyncAssumption DEF IInv, Shape, TakeJob, Leave, Goto, SetActive, At, InTry, rows
<1>2. \A d \in Caller \ {c} : at'[d] = at[d] /\ todo'[d] = todo[d]
  BY DEF IInv, Shape, TakeJob, Leave, Goto
<1>3. ActiveWorkerRuns'
  <2>1. CASE activeWorker' = activeWorker /\ stray' = stray
    BY <1>2, <2>1 DEF IInv, ActiveWorkerRuns, Runs
  <2>2. CASE SetActive(Head(q)) /\ at' = [at EXCEPT ![c] = "mark"]
                                /\ todo' = [todo EXCEPT ![c] = <<Head(q)>>]
    <3>1. at'[c] = "mark" /\ Head(todo'[c]) = Head(q)
      BY <2>2 DEF IInv, Shape
    <3> QED
      BY <3>1, <2>2 DEF ActiveWorkerRuns, Runs, SetActive
  <2> QED
    BY <2>1, <2>2 DEF TakeJob, Goto
<1>4. Marked'
  BY <1>2 DEF IInv, Marked, MarkedBy, rows, InTry
<1>5. Owing'
  BY <1>2 DEF IInv, Owing, OwedBy, InTry
<1> QED
  BY <1>1, <1>3, <1>4, <1>5 DEF IInv

(* The end of a run hands activeWorker back, and only its caller moves.    *)
LEMMA EndsRun ==
  ASSUME IInv, NEW c \in Caller, RunEnds(c)
  PROVE  /\ ActiveWorkerRuns'
         /\ at' \in [Caller \cup {Webhook} -> At \cup {"enqueue"}]
         /\ todo' = [d \in Caller |-> todo'[d]]
         /\ \A d \in Caller \ {c} : at'[d] = at[d] /\ todo'[d] = todo[d]
<1>1. ActiveWorkerRuns'
  BY DEF RunEnds, ActiveWorkerRuns
<1>2. at' \in [Caller \cup {Webhook} -> At \cup {"enqueue"}]
  BY DEF IInv, Shape, RunEnds, Goto, At
<1> QED
  BY <1>1, <1>2 DEF IInv, Shape, RunEnds, Goto

(* The row says "running", and its run is behind it. *)
LEMMA MarksRow ==
  ASSUME IInv, NEW c \in Caller, MarkRunning(c)
  PROVE  IInv'
<1>1. Shape'
  BY DEF IInv, Shape, MarkRunning, Goto, mine, At, InTry
<1>2. /\ at'[c] = "execute" /\ todo' = todo
      /\ \A d \in Caller \ {c} : at'[d] = at[d]
  BY DEF IInv, Shape, MarkRunning, Goto, mine
<1>3. ActiveWorkerRuns'
  BY <1>2 DEF IInv, ActiveWorkerRuns, Runs, InTry, MarkRunning, engine
<1>4. Marked'
  BY <1>2 DEF IInv, Shape, Marked, MarkedBy, MarkRunning
<1>5. Owing'
  BY <1>2 DEF IInv, Owing, OwedBy, MarkRunning
<1> QED
  BY <1>1, <1>3, <1>4, <1>5 DEF IInv

(* The row is stored, and its event is due if it says "completed".         *)
LEMMA StoresRow ==
  ASSUME IInv, NEW c \in Caller, RunWorker(c)
  PROVE  IInv'
<1>1. PICK r \in {"completed", "failed"} :
        /\ status' = [status EXCEPT ![Head(todo[c])] = r]
        /\ cut' = cut \ {Head(todo[c])}
        /\ owed' = IF r = "completed" THEN owed \cup {Head(todo[c])}
                                      ELSE owed \ {Head(todo[c])}
  BY DEF RunWorker
<1>2. /\ at[c] = "execute" /\ at'[c] = "read" /\ todo' = todo
      /\ \A d \in Caller \ {c} : at'[d] = at[d]
  BY DEF IInv, Shape, RunWorker, Goto
<1>3. Shape'
  BY <1>1 DEF IInv, Shape, RunWorker, Goto, At, InTry
<1>4. ActiveWorkerRuns'
  BY <1>2 DEF IInv, ActiveWorkerRuns, Runs, InTry, RunWorker, engine
<1>5. Marked'
  BY <1>1, <1>2 DEF IInv, Shape, Marked, MarkedBy
<1>6. Owing'
  BY <1>1, <1>2 DEF IInv, Owing, OwedBy
<1> QED
  BY <1>3, <1>4, <1>5, <1>6 DEF IInv

(* SyncWorkerCompleted pays the debt; an event of its own follows it.      *)
LEMMA AnnouncesRun ==
  ASSUME IInv, NEW c \in Caller, AppendEvent(c)
  PROVE  IInv'
<1>1. UNCHANGED <<rows, cut>>
  BY DEF AppendEvent
<1>2. CASE at[c] = "append" /\ HasOwnEvent(c)
  <2>1. /\ at'[c] = "readOwn" /\ todo' = todo /\ owed' = owed \ {Head(todo[c])}
        /\ \A d \in Caller \ {c} : at'[d] = at[d]
    BY <1>2 DEF IInv, Shape, AppendEvent, Goto, mine
  <2>2. Shape'
    BY <1>2 DEF IInv, Shape, AppendEvent, Goto, mine, rows, At, InTry
  <2>3. ActiveWorkerRuns'
    BY <1>2, <2>1 DEF IInv, ActiveWorkerRuns, Runs, InTry, AppendEvent
  <2>4. Marked' /\ Owing'
    BY <1>1, <1>2, <2>1 DEF IInv, Marked, MarkedBy, Owing, OwedBy, rows
  <2> QED
    BY <2>2, <2>3, <2>4 DEF IInv
<1>3. CASE RunEnds(c) /\ (\/ at[c] = "append" /\ owed' = owed \ {Head(todo[c])}
                          \/ at[c] = "appendOwn" /\ owed' = owed)
  <2>1. Shape' /\ ActiveWorkerRuns'
    BY <1>1, <1>3, EndsRun DEF IInv, Shape, rows
  <2>2. Marked' /\ Owing'
    BY <1>1, <1>3, EndsRun DEF IInv, Marked, MarkedBy, Owing, OwedBy, rows
  <2> QED
    BY <2>1, <2>2 DEF IInv
<1> QED
  BY <1>2, <1>3 DEF AppendEvent

(* The catch of a failed run settles the row whatever it said.             *)
LEMMA FailsRow ==
  ASSUME IInv, NEW c \in Caller, WriteFailed(c)
  PROVE  IInv'
<1>1. Shape' /\ ActiveWorkerRuns'
  BY EndsRun DEF IInv, Shape, WriteFailed
<1>2. Marked'
  BY EndsRun DEF IInv, Shape, Marked, MarkedBy, WriteFailed
<1>3. Owing'
  BY EndsRun DEF IInv, Owing, OwedBy, WriteFailed
<1> QED
  BY <1>1, <1>2, <1>3 DEF IInv

(* Within a run: a read of the stream, a conflict, an exception. *)
LEMMA StaysInRun ==
  ASSUME IInv, NEW c \in Caller, ReadStream(c) \/ Conflict(c) \/ Throws(c)
  PROVE  IInv'
<1>1. UNCHANGED <<rows, engine, todo, owed, cut>>
  BY DEF ReadStream, Conflict, Throws, mine
<1>2. /\ \/ at[c] = "read" /\ at'[c] = "append"
         \/ at[c] = "readOwn" /\ at'[c] = "appendOwn"
         \/ at[c] \in InTry /\ at'[c] = "fail"
      /\ \A d \in Caller \ {c} : at'[d] = at[d]
  BY DEF IInv, Shape, ReadStream, Conflict, Throws, Goto, InTry
<1>3. Shape'
  BY <1>1 DEF IInv, Shape, ReadStream, Conflict, Throws, Goto, rows, At, InTry
<1>4. ActiveWorkerRuns'
  BY <1>1, <1>2 DEF IInv, ActiveWorkerRuns, Runs, InTry, engine
<1>5. Marked'
  BY <1>1, <1>2 DEF IInv, Marked, MarkedBy, rows, InTry
<1>6. Owing'
  BY <1>1, <1>2 DEF IInv, Owing, OwedBy, InTry
<1> QED
  BY <1>3, <1>4, <1>5, <1>6 DEF IInv

(* Between two runs: a full sync goes on to its next worker, a tick reads  *)
(* the rows that are due.                                                  *)
LEMMA WalksOn ==
  ASSUME IInv, NEW c \in Caller, NextOfFull(c) \/ Poll(c)
  PROVE  IInv'
<1>1. UNCHANGED <<rows, owed, cut>>
  BY DEF NextOfFull, Poll
<1>2. /\ at[c] \in {"row", "idle"}
      /\ \A d \in Caller \ {c} : at'[d] = at[d] /\ todo'[d] = todo[d]
  BY DEF IInv, Shape, NextOfFull, Poll, Goto
<1>3. Shape'
  BY <1>1 DEF IInv, Shape, NextOfFull, Poll, Goto, rows, At
<1>4. ActiveWorkerRuns'
  <2>1. CASE UNCHANGED <<activeWorker, stray>>
    BY <1>2, <2>1 DEF IInv, ActiveWorkerRuns, Runs, InTry
  <2>2. CASE Goto(c, "mark") /\ SetActive(Head(todo[c])) /\ UNCHANGED todo
    <3>1. at'[c] = "mark"
      BY <2>2 DEF IInv, Shape, Goto
    <3> QED
      BY <2>2, <3>1 DEF ActiveWorkerRuns, Runs, SetActive
  <2> QED
    BY <2>1, <2>2 DEF NextOfFull, Poll, engine
<1>5. Marked' /\ Owing'
  BY <1>1, <1>2 DEF IInv, Marked, MarkedBy, Owing, OwedBy, rows
<1> QED
  BY <1>3, <1>4, <1>5 DEF IInv

(* A call that throws leaves: out of a catch the worker's row is unwritten, *)
(* out of a first write activeWorker is left over.                         *)
LEMMA LeavesBehind ==
  ASSUME IInv, NEW c \in Caller, Rejects(c)
  PROVE  IInv'
<1>1. /\ UNCHANGED <<rows, owed>>
      /\ at[c] \in {"polled", "row", "account", "mark", "fail"}
      /\ at[c] = "fail" => cut' = cut \cup {Head(todo[c])} /\ activeWorker' = None
      /\ at[c] # "fail" => cut' = cut /\ activeWorker' = activeWorker
  BY DEF Rejects
<1>2. stray' <=> (stray \/ at[c] = "mark") /\ at[c] # "fail"
  BY Zenon DEF Rejects
<1>3. \A d \in Caller \ {c} : at'[d] = at[d] /\ todo'[d] = todo[d]
  BY DEF IInv, Shape, Rejects, Leave, Goto
<1>4. Shape'
  BY <1>1 DEF IInv, Shape, Rejects, Leave, Goto, rows, At
<1>5. ActiveWorkerRuns'
  BY <1>1, <1>2, <1>3 DEF IInv, ActiveWorkerRuns, Runs, InTry
<1>6. Marked'
  BY <1>1, <1>3 DEF IInv, Marked, MarkedBy, rows
<1>7. Owing'
  BY <1>1, <1>3 DEF IInv, Owing, OwedBy, rows
<1> QED
  BY <1>4, <1>5, <1>6, <1>7 DEF IInv

(* A restart forgets every run, and counts the row of each as unwritten.   *)
LEMMA Restarts ==
  ASSUME IInv, Crash
  PROVE  IInv'
<1>1. Shape'
  BY DEF IInv, Shape, Crash, rows, At
<1>2. ActiveWorkerRuns'
  BY DEF ActiveWorkerRuns, Crash
<1>3. Marked'
  BY DEF IInv, Marked, MarkedBy, Running, InTry, Crash, rows
<1>4. Owing'
  BY DEF IInv, Owing, OwedBy, Running, InTry, Crash
<1> QED
  BY <1>1, <1>2, <1>3, <1>4 DEF IInv

(* Nothing a webhook, a schedule or the clock does touches a run.          *)
LEMMA OtherSteps ==
  ASSUME IInv,
         UNCHANGED <<todo, status, activeWorker, stray, owed, cut>>,
         \/ UNCHANGED at
         \/ \E step \in At \cup {"enqueue"} : Goto(Webhook, step)
  PROVE  IInv'
<1>1. Shape'
  BY DEF IInv, Shape, Goto
<1>2. \A c \in Caller : at'[c] = at[c]
  BY LiveSyncAssumption DEF IInv, Shape, Goto
<1>3. ActiveWorkerRuns' /\ Marked' /\ Owing'
  BY <1>2 DEF IInv, ActiveWorkerRuns, Runs, Marked, MarkedBy, Owing, OwedBy
<1> QED
  BY <1>1, <1>3 DEF IInv

(* The inductive invariant holds in every reachable state. *)
THEOREM Invariance == Spec => []IInv
<1>1. Init => IInv
  BY DEF Init, IInv, Shape, At, ActiveWorkerRuns, Marked, Owing
<1>2. IInv /\ [Next]_vars => IInv'
  <2> SUFFICES ASSUME IInv, [Next]_vars PROVE IInv'
    OBVIOUS
  <2>1. ASSUME NEW c \in Caller, Continue(c) PROVE IInv'
    <3>1. CASE EnqueueDue(c)
      BY <3>1, TakesJob DEF EnqueueDue, InTry
    <3>2. CASE NextJob(c)
      BY <3>2, TakesJob DEF NextJob, InTry
    <3>3. CASE NextOfFull(c)
      BY <3>3, WalksOn
    <3>4. CASE MarkRunning(c)
      BY <3>4, MarksRow
    <3>5. CASE RunWorker(c)
      BY <3>5, StoresRow
    <3>6. CASE ReadStream(c) \/ Conflict(c)
      BY <3>6, StaysInRun
    <3>7. CASE AppendEvent(c)
      BY <3>7, AnnouncesRun
    <3>8. CASE WriteFailed(c)
      BY <3>8, FailsRow
    <3> QED
      BY <2>1, <3>1, <3>2, <3>3, <3>4, <3>5, <3>6, <3>7, <3>8 DEF Continue
  <2>2. ASSUME NEW c \in Caller, Tick(c) PROVE IInv'
    BY <2>2, WalksOn DEF Tick
  <2>3. ASSUME NEW c \in Requester, Request(c) PROVE IInv'
    BY <2>3, TakesJob DEF Request, InTry, Caller
  <2>4. ASSUME NEW c \in Caller, Throws(c) PROVE IInv'
    BY <2>4, StaysInRun
  <2>5. ASSUME NEW c \in Caller, Rejects(c) PROVE IInv'
    BY <2>5, LeavesBehind
  <2>6. CASE Crash
    BY <2>6, Restarts
  <2>7. ASSUME NEW w \in Worker, Elapse(w) \/ UpdateSchedule(w) PROVE IInv'
    BY <2>7, OtherSteps DEF Elapse, UpdateSchedule, engine, mine
  <2>8. CASE WebhookRead \/ WebhookAppend \/ WebhookEnqueue \/ Bootstrap
    BY <2>8, OtherSteps DEF WebhookRead, WebhookAppend, WebhookEnqueue, Bootstrap,
       rows, engine, mine, At, InTry
  <2>9. CASE UNCHANGED vars
    BY <2>9, OtherSteps DEF vars, rows, engine, mine
  <2> QED
    BY <2>1, <2>2, <2>3, <2>4, <2>5, <2>6, <2>7, <2>8, <2>9 DEF Next
<1> QED
  BY <1>1, <1>2, PTL DEF Spec

-----------------------------------------------------------------------------
(* getActiveWorker names only workers that some call is running, unless a  *)
(* run's first write threw.                                                *)
THEOREM ActiveWorkerIsRun == Spec => []ActiveWorkerRuns
<1>1. IInv => ActiveWorkerRuns
  BY DEF IInv
<1> QED
  BY Invariance, <1>1, PTL

(* A row that says "running" has a run behind it, unless the run could not *)
(* write its end.                                                          *)
THEOREM RunningIsReal == Spec => []RunningHasRunner
<1>1. IInv => RunningHasRunner
  BY DEF IInv, Marked, MarkedBy, RunningHasRunner, Running, InTry
<1> QED
  BY Invariance, <1>1, PTL

(* A worker at rest whose row says "completed" has announced it.           *)
THEOREM CompletedWasAnnounced == Spec => []CompletedIsAnnounced
<1>1. IInv => CompletedIsAnnounced
  BY DEF IInv, Owing, OwedBy, CompletedIsAnnounced, Running, InTry
<1> QED
  BY Invariance, <1>1, PTL

-----------------------------------------------------------------------------
(* TypeOK, by whose variables it speaks of. *)
WorkersTyped ==
  /\ due \in Seq(Worker) /\ IsInjective(due)
  /\ enabled \in [Worker -> BOOLEAN]
  /\ status \in [Worker -> {"pending", "running", "completed", "failed"}]

EngineTyped ==
  /\ boot \in BOOLEAN
  /\ queue \in Seq(Worker \cup {Full})
  /\ activeWorker \in Worker \cup {None}
  /\ stray \in BOOLEAN

(* Who is to run a worker, or runs it, has it at the head of todo. *)
HaveWorkers ==
  \A c \in Caller :
    at[c] \in At /\ (at[c] \in InTry \cup {"row", "mark", "fail"} => todo[c] # <<>>)

CallersTyped ==
  /\ at \in [Caller \cup {Webhook} -> At \cup {"enqueue"}]
  /\ HaveWorkers
  /\ jobs \in [Caller -> Nat]
  /\ full \in [Caller -> BOOLEAN]
  /\ todo \in [Caller -> Seq(Worker)]
  /\ result \in [Caller -> {"none", "completed", "failed"}]

RestTyped ==
  /\ current \subseteq Caller \cup {Webhook}
  /\ faults \in 0..MaxFaults /\ calls \in 0..MaxCalls
  /\ owed \subseteq Worker /\ cut \subseteq Worker

(* The parts are TypeOK, in a state and in the next. *)
LEMMA TypedParts ==
  /\ TypeOK <=> WorkersTyped /\ EngineTyped /\ CallersTyped /\ RestTyped
  /\ TypeOK' <=> WorkersTyped' /\ EngineTyped' /\ CallersTyped' /\ RestTyped'
BY DEF TypeOK, WorkersTyped, EngineTyped, CallersTyped, RestTyped, HaveWorkers

(* A row taken out of a list of different rows. *)
LEMMA WithoutTyped ==
  ASSUME NEW s \in Seq(Worker), IsInjective(s), NEW w
  PROVE  Without(s, w) \in Seq(Worker) /\ IsInjective(Without(s, w))
         /\ w \notin ToSet(Without(s, w))
<1>1. CASE w \notin ToSet(s)
  BY <1>1 DEF Without
<1>2. CASE w \in ToSet(s)
  <2> DEFINE k == Place(s, w)
             t == Without(s, w)
  <2>1. k \in 1..Len(s) /\ s[k] = w
    BY <1>2 DEF ToSet, Place
  <2>2. t = SubSeq(s, 1, k - 1) \o SubSeq(s, k + 1, Len(s))
    BY <1>2 DEF Without, RemoveAt
  <2> HIDE DEF k, t
  <2>3. /\ SubSeq(s, 1, k - 1) \in Seq(Worker) /\ Len(SubSeq(s, 1, k - 1)) = k - 1
        /\ \A i \in 1..(k - 1) : SubSeq(s, 1, k - 1)[i] = s[i]
    BY <2>1
  <2>4. /\ SubSeq(s, k + 1, Len(s)) \in Seq(Worker) /\ Len(SubSeq(s, k + 1, Len(s))) = Len(s) - k
        /\ \A i \in 1..(Len(s) - k) : SubSeq(s, k + 1, Len(s))[i] = s[i + k]
    BY <2>1
  <2> DEFINE a == SubSeq(s, 1, k - 1)
             b == SubSeq(s, k + 1, Len(s))
  <2> HIDE DEF a, b
  <2>5. /\ t = a \o b /\ a \in Seq(Worker) /\ b \in Seq(Worker)
         /\ Len(a) = k - 1 /\ Len(b) = Len(s) - k
    BY <2>2, <2>3, <2>4 DEF a, b
  <2>6. /\ t \in Seq(Worker) /\ Len(t) = Len(a) + Len(b)
        /\ \A i \in 1..(Len(a) + Len(b)) : t[i] = IF i <= Len(a) THEN a[i] ELSE b[i - Len(a)]
    BY <2>5, ConcatProperties
  <2>7. /\ t \in Seq(Worker) /\ Len(t) = Len(s) - 1
        /\ \A i \in 1..Len(t) : t[i] = IF i < k THEN s[i] ELSE s[i + 1]
    <3>1. Len(s) \in Nat
      OBVIOUS
    <3>2. \A i \in 1..(k - 1) : a[i] = s[i]
      BY <2>3 DEF a
    <3>3. \A i \in 1..(Len(s) - k) : b[i] = s[i + k]
      BY <2>4 DEF b
    <3>4. Len(t) = Len(s) - 1
      BY <3>1, <2>1, <2>5, <2>6
    <3>5. ASSUME NEW i \in 1..Len(t) PROVE t[i] = IF i < k THEN s[i] ELSE s[i + 1]
      <4>1. CASE i < k
        BY <4>1, <3>1, <3>2, <3>4, <2>1, <2>5, <2>6
      <4>2. CASE i >= k
        <5>1. i - (k - 1) \in 1..(Len(s) - k) /\ (i - (k - 1)) + k = i + 1
          BY <4>2, <3>1, <3>4, <2>1
        <5>2. t[i] = b[i - (k - 1)]
          <6>1. ~(i <= Len(a)) /\ Len(a) = k - 1
            BY <4>2, <2>1, <2>5
          <6>2. i \in 1..(Len(a) + Len(b))
            BY <2>6
          <6> QED
            BY <6>1, <6>2, <2>6
        <5> QED
          BY <4>2, <5>1, <5>2, <3>3, <2>1
      <4> QED
        BY <4>1, <4>2, <3>1, <3>4, <2>1
    <3> QED
      BY <3>4, <3>5, <2>6
  <2>8. \A i \in 1..Len(t) : \E j \in 1..Len(s) :
           t[i] = s[j] /\ j # k /\ j = IF i < k THEN i ELSE i + 1
    BY <2>1, <2>7
  <2>9. IsInjective(t)
    BY <2>1, <2>7, <2>8 DEF IsInjective
  <2>10. w \notin ToSet(t)
    BY <2>1, <2>7, <2>8 DEF IsInjective, ToSet
  <2> QED
    BY <2>7, <2>9, <2>10 DEF t
<1> QED
  BY <1>1, <1>2

(* A row put behind those it is not among. *)
LEMMA AppendTyped ==
  ASSUME NEW s \in Seq(Worker), IsInjective(s), NEW w \in Worker, w \notin ToSet(s)
  PROVE  Append(s, w) \in Seq(Worker) /\ IsInjective(Append(s, w))
<1>1. /\ Append(s, w) \in Seq(Worker) /\ Len(Append(s, w)) = Len(s) + 1
      /\ \A i \in 1..(Len(s) + 1) : Append(s, w)[i] = IF i = Len(s) + 1 THEN w ELSE s[i]
  OBVIOUS
<1>2. \A i \in 1..Len(s) : s[i] # w
  BY DEF ToSet
<1> QED
  BY <1>1, <1>2 DEF IsInjective

(* The order of a full sync is a list of different workers, and not empty. *)
LEMMA OrderTyped == Order \in Seq(Worker) /\ Order # <<>> /\ IsInjective(Order)
<1>1. /\ Order \in Seq(Worker) /\ ToSet(Order) = Worker
      /\ Len(Order) = Cardinality(Worker) /\ Messenger \in Worker
  BY LiveSyncAssumption
<1>2. IsFiniteSet(1..Len(Order)) /\ Cardinality(1..Len(Order)) = Len(Order)
  BY <1>1, FS_Interval
<1>3. Order \in Surjection(1..Len(Order), Worker)
  BY <1>1 DEF ToSet, Surjection
<1>4. Order \in Injection(1..Len(Order), Worker)
  BY <1>1, <1>2, <1>3, FS_SurjSameCardinalityImpliesInj
<1> QED
  BY <1>1, <1>4 DEF ToSet, Injection, IsInjective

(* The end of a call, in whatever way. *)
LEMMA LeaveTyped ==
  ASSUME CallersTyped, NEW c \in Caller, Leave(c)
  PROVE  CallersTyped'
<1>1. /\ at' = [at EXCEPT ![c] = "idle"]
      /\ jobs' = [jobs EXCEPT ![c] = 0]
      /\ full' = [full EXCEPT ![c] = FALSE]
      /\ todo' = [todo EXCEPT ![c] = <<>>]
      /\ result' = [result EXCEPT ![c] = "none"]
  BY DEF Leave, Goto
<1>2. /\ at' \in [Caller \cup {Webhook} -> At \cup {"enqueue"}]
      /\ HaveWorkers'
  BY <1>1 DEF CallersTyped, At, InTry, HaveWorkers
<1>3. todo' \in [Caller -> Seq(Worker)]
  BY <1>1 DEF CallersTyped, HaveWorkers
<1> QED
  BY <1>1, <1>2, <1>3 DEF CallersTyped, HaveWorkers

(* A call takes up a job, or is over. *)
LEMMA TakeTyped ==
  ASSUME CallersTyped, EngineTyped, NEW c \in Caller, NEW n \in Nat,
         NEW q \in Seq(Worker \cup {Full}), TakeJob(c, n, q), boot' = boot
  PROVE  CallersTyped' /\ EngineTyped'
<1>1. CASE n = 0 \/ q = <<>>
  BY <1>1, LeaveTyped DEF TakeJob, EngineTyped
<1>2. CASE n # 0 /\ q # <<>>
  <2>1. Head(q) \in Worker \cup {Full} /\ Tail(q) \in Seq(Worker \cup {Full})
    BY <1>2
  <2>2. /\ jobs' = [jobs EXCEPT ![c] = n - 1]
        /\ full' = [full EXCEPT ![c] = Head(q) = Full]
        /\ result' = result /\ queue' = Tail(q)
    BY <1>2 DEF TakeJob
  <2>3. jobs' \in [Caller -> Nat] /\ full' \in [Caller -> BOOLEAN] /\ result' = result
    <3>1. n - 1 \in Nat
      BY <1>2
    <3>2. (Head(q) = Full) \in BOOLEAN
      OBVIOUS
    <3> QED
      BY <2>2, <3>1, <3>2 DEF CallersTyped, HaveWorkers
  <2>4. CASE Head(q) = Full
    <3>1. /\ at' = [at EXCEPT ![c] = "row"] /\ todo' = [todo EXCEPT ![c] = Order]
          /\ activeWorker' = activeWorker /\ stray' = stray
      BY <1>2, <2>4 DEF TakeJob, Goto
    <3>2. /\ at' \in [Caller \cup {Webhook} -> At \cup {"enqueue"}]
          /\ todo' \in [Caller -> Seq(Worker)]
          /\ HaveWorkers'
      BY <3>1, OrderTyped DEF CallersTyped, At, InTry, HaveWorkers
    <3> QED
      BY <2>1, <2>2, <2>3, <3>1, <3>2 DEF CallersTyped, EngineTyped, HaveWorkers
  <2>5. CASE Head(q) # Full
    <3>1. /\ at' = [at EXCEPT ![c] = "mark"] /\ todo' = [todo EXCEPT ![c] = <<Head(q)>>]
          /\ activeWorker' = Head(q) /\ stray' = FALSE
      BY <1>2, <2>5 DEF TakeJob, Goto, SetActive
    <3>2. Head(q) \in Worker /\ <<Head(q)>> \in Seq(Worker) /\ <<Head(q)>> # <<>>
      BY <2>1, <2>5
    <3>3. /\ at' \in [Caller \cup {Webhook} -> At \cup {"enqueue"}]
          /\ todo' \in [Caller -> Seq(Worker)]
          /\ HaveWorkers'
      BY <3>1, <3>2 DEF CallersTyped, At, InTry, HaveWorkers
    <3> QED
      BY <2>1, <2>2, <2>3, <3>1, <3>2, <3>3 DEF CallersTyped, EngineTyped, HaveWorkers
  <2> QED
    BY <2>4, <2>5
<1> QED
  BY <1>1, <1>2

(* A run is over: there is a next worker if the call goes to its row. *)
LEMMA EndTyped ==
  ASSUME CallersTyped, EngineTyped, NEW c \in Caller, todo[c] # <<>>, RunEnds(c), boot' = boot
  PROVE  CallersTyped' /\ EngineTyped'
<1>1. /\ activeWorker' = None /\ stray' = FALSE /\ queue' = queue
      /\ todo' = [todo EXCEPT ![c] = Tail(todo[c])]
      /\ result' = [result EXCEPT ![c] = "none"]
      /\ UNCHANGED <<jobs, full>>
  BY DEF RunEnds, CallersTyped, HaveWorkers
<1>2. EngineTyped'
  BY <1>1 DEF EngineTyped
<1>3. todo[c] \in Seq(Worker) /\ Len(todo[c]) \in Nat \ {0}
      /\ Tail(todo[c]) \in Seq(Worker) /\ Len(Tail(todo[c])) = Len(todo[c]) - 1
  BY DEF CallersTyped, HaveWorkers
<1>4. PICK step \in {"next", "account", "row"} :
        at' = [at EXCEPT ![c] = step] /\ (step = "row" => Len(todo[c]) # 1)
  BY DEF RunEnds, Goto
<1>5. at' \in [Caller \cup {Webhook} -> At \cup {"enqueue"}]
  BY <1>4 DEF CallersTyped, At, HaveWorkers
<1>6. ASSUME NEW d \in Caller
      PROVE  at'[d] \in At /\ (at'[d] \in InTry \cup {"row", "mark", "fail"} => todo'[d] # <<>>)
  <2>1. CASE d # c
    BY <2>1, <1>1, <1>4 DEF CallersTyped, HaveWorkers
  <2>2. CASE d = c
    <3>1. at'[c] = step /\ todo'[c] = Tail(todo[c])
      BY <1>1, <1>4 DEF CallersTyped, HaveWorkers
    <3>2. step = "row" => Len(Tail(todo[c])) # 0
      BY <1>3, <1>4
    <3>3. step = "row" => Tail(todo[c]) # <<>>
      BY <3>2
    <3> QED
      BY <2>2, <3>1, <3>3, <1>4 DEF At, InTry
  <2> QED
    BY <2>1, <2>2
<1>7. todo' \in [Caller -> Seq(Worker)] /\ result' \in [Caller -> {"none", "completed", "failed"}]
  BY <1>1, <1>3 DEF CallersTyped, HaveWorkers
<1> QED
  BY <1>1, <1>2, <1>5, <1>6, <1>7 DEF CallersTyped, HaveWorkers

(* A call goes on to another step, with the workers it had. *)
LEMMA GotoTyped ==
  ASSUME CallersTyped, NEW c \in Caller, NEW step \in At, Goto(c, step),
         step \in InTry \cup {"row", "mark", "fail"} => todo[c] # <<>>,
         UNCHANGED <<jobs, full, todo>>, result' \in [Caller -> {"none", "completed", "failed"}]
  PROVE  CallersTyped'
<1>1. at' = [at EXCEPT ![c] = step]
  BY DEF Goto
<1>2. at' \in [Caller \cup {Webhook} -> At \cup {"enqueue"}]
  BY <1>1 DEF CallersTyped, HaveWorkers
<1>3. \A d \in Caller : at'[d] = IF d = c THEN step ELSE at[d]
  BY <1>1 DEF CallersTyped, HaveWorkers
<1> QED
  BY <1>2, <1>3 DEF CallersTyped, HaveWorkers

(* getDueWorkers hands a tick workers, whichever rows are due. *)
LEMMA PollTyped ==
  ASSUME TypeOK, NEW c \in Caller, Poll(c)
  PROVE  TypeOK'
<1>1. PICK s \in DueRows : todo' = [todo EXCEPT ![c] = s]
  BY DEF Poll
<1>2. PICK n \in Nat : s \in [1..n -> ToSet(due)]
  BY LiveSyncAssumption DEF DueRows, FirstRows
<1>3. s \in Seq(Worker)
  <2>1. ToSet(due) \subseteq Worker
    BY DEF TypeOK, ToSet
  <2>2. s \in [1..n -> Worker]
    BY <1>2, <2>1
  <2> QED
    BY <2>2
<1>4. /\ at' = [at EXCEPT ![c] = "polled"]
      /\ UNCHANGED <<rows, engine, jobs, full, result, current, faults, calls, owed, cut>>
  BY DEF Poll, Goto
<1>5. CallersTyped'
  <2>1. at' \in [Caller \cup {Webhook} -> At \cup {"enqueue"}]
    BY <1>4 DEF TypeOK, At
  <2>2. todo' \in [Caller -> Seq(Worker)]
    BY <1>1, <1>3 DEF TypeOK
  <2>3. HaveWorkers'
    BY <1>1, <1>4 DEF TypeOK, At, InTry, HaveWorkers
  <2> QED
    BY <1>4, <2>1, <2>2, <2>3 DEF CallersTyped, TypeOK, HaveWorkers
<1> QED
  BY <1>4, <1>5, TypedParts DEF WorkersTyped, EngineTyped, RestTyped, rows, engine

(* A worker that falls due is put behind the others, once. *)
LEMMA ClockTyped ==
  ASSUME TypeOK, NEW w \in Worker, Elapse(w) \/ UpdateSchedule(w)
  PROVE  TypeOK'
<1>1. UNCHANGED <<status, engine, at, mine, current, faults, owed, cut>>
  BY DEF Elapse, UpdateSchedule
<1>2. WorkersTyped'
  <2>1. CASE Elapse(w)
    BY <2>1, AppendTyped DEF TypeOK, WorkersTyped, Elapse
  <2>2. CASE UpdateSchedule(w)
    <3>1. due' \in Seq(Worker) /\ IsInjective(due')
      BY <2>2, WithoutTyped, AppendTyped DEF TypeOK, UpdateSchedule
    <3>2. enabled' \in [Worker -> BOOLEAN]
      BY <2>2 DEF TypeOK, UpdateSchedule
    <3> QED
      BY <1>1, <3>1, <3>2 DEF WorkersTyped, TypeOK
  <2> QED
    BY <2>1, <2>2
<1>3. RestTyped'
  <2>1. calls' \in 0..MaxCalls
    BY LiveSyncAssumption DEF TypeOK, Elapse, UpdateSchedule
  <2> QED
    BY <1>1, <2>1 DEF TypeOK, RestTyped
<1>4. EngineTyped' /\ CallersTyped'
  BY <1>1 DEF TypeOK, EngineTyped, CallersTyped, engine, mine, HaveWorkers
<1> QED
  BY <1>2, <1>3, <1>4, TypedParts

(* A step that takes a job, from the queue as it is or with more behind.   *)
LEMMA TakingTyped ==
  ASSUME TypeOK, NEW c \in Caller, EnqueueDue(c) \/ NextJob(c) \/ Request(c)
  PROVE  TypeOK'
<1>1. /\ UNCHANGED <<boot, rows, current, faults, owed, cut>>
      /\ calls' \in 0..MaxCalls
  BY LiveSyncAssumption DEF TypeOK, EnqueueDue, NextJob, Request
<1>2. EngineTyped /\ CallersTyped
  BY TypedParts
<1>3. PICK n \in Nat, q \in Seq(Worker \cup {Full}) : TakeJob(c, n, q)
  <2>1. CASE EnqueueDue(c)
    <3>1. todo[c] \in Seq(Worker \cup {Full}) /\ queue \in Seq(Worker \cup {Full})
      <4>1. todo[c] \in Seq(Worker)
        BY DEF TypeOK
      <4> QED
        BY <4>1 DEF TypeOK
    <3>2. queue \o todo[c] \in Seq(Worker \cup {Full})
      BY <3>1, ConcatProperties
    <3> QED
      BY <2>1, <3>2, LiveSyncAssumption DEF EnqueueDue
  <2>2. CASE NextJob(c)
    BY <2>2 DEF NextJob, TypeOK
  <2>3. CASE Request(c)
    <3>1. queue \in Seq(Worker \cup {Full})
      BY DEF TypeOK
    <3>2. Append(queue, Full) \in Seq(Worker \cup {Full})
      BY <3>1
    <3>3. RequestJobs \in Nat
      BY LiveSyncAssumption
    <3> QED
      BY <2>3, <3>2, <3>3 DEF Request
  <2> QED
    BY <2>1, <2>2, <2>3
<1>4. EngineTyped' /\ CallersTyped'
  BY <1>1, <1>2, <1>3, TakeTyped
<1> QED
  BY <1>1, <1>4, TypedParts DEF TypeOK, WorkersTyped, RestTyped, rows

(* A full sync skips a worker only if there is another, or leaves the list. *)
LEMMA NextOfFullTyped ==
  ASSUME TypeOK, NEW c \in Caller, NextOfFull(c)
  PROVE  TypeOK'
<1>1. /\ UNCHANGED <<rows, boot, queue, jobs, full, result, current, faults, calls, owed, cut>>
      /\ at[c] = "row"
  BY DEF NextOfFull
<1>2. /\ todo[c] \in Seq(Worker) /\ todo[c] # <<>> /\ Head(todo[c]) \in Worker
      /\ Len(todo[c]) \in Nat \ {0}
      /\ Tail(todo[c]) \in Seq(Worker) /\ Len(Tail(todo[c])) = Len(todo[c]) - 1
  <2>1. todo[c] \in Seq(Worker) /\ todo[c] # <<>>
    BY <1>1 DEF TypeOK
  <2> QED
    BY <2>1, HeadTailProperties
<1>3. CASE Goto(c, "mark") /\ SetActive(Head(todo[c])) /\ UNCHANGED todo
  <2>1. CallersTyped'
    BY <1>1, <1>2, <1>3, GotoTyped, TypedParts DEF At, CallersTyped, HaveWorkers
  <2> QED
    BY <1>1, <1>2, <1>3, <2>1, TypedParts DEF WorkersTyped, RestTyped, EngineTyped, SetActive, rows
<1>4. CASE /\ todo' = [todo EXCEPT ![c] = Tail(@)]
           /\ Goto(c, IF Len(todo[c]) = 1 THEN "account" ELSE "row")
           /\ UNCHANGED <<activeWorker, stray>>
  <2>1. PICK step \in {"account", "row"} :
          at' = [at EXCEPT ![c] = step] /\ (step = "row" => Len(todo[c]) # 1)
    BY <1>4 DEF Goto
  <2>2. step = "row" => Tail(todo[c]) # <<>>
    <3>1. step = "row" => Len(Tail(todo[c])) # 0
      BY <1>2, <2>1
    <3> QED
      BY <3>1
  <2>3. todo' = [todo EXCEPT ![c] = Tail(todo[c])]
    BY <1>4 DEF TypeOK
  <2>4. at' \in [Caller \cup {Webhook} -> At \cup {"enqueue"}] /\ todo' \in [Caller -> Seq(Worker)]
    BY <1>2, <2>1, <2>3 DEF TypeOK, At
  <2>5. HaveWorkers'
    <3>1. \A d \in Caller : at'[d] = (IF d = c THEN step ELSE at[d])
                            /\ todo'[d] = (IF d = c THEN Tail(todo[c]) ELSE todo[d])
      BY <2>1, <2>3 DEF TypeOK
    <3> QED
      BY <3>1, <2>2 DEF TypeOK, HaveWorkers, At, InTry
  <2>6. CallersTyped'
    BY <1>1, <2>4, <2>5 DEF CallersTyped, TypeOK, HaveWorkers
  <2> QED
    BY <1>1, <1>4, <2>6, TypedParts DEF WorkersTyped, RestTyped, EngineTyped, rows
<1> QED
  BY <1>3, <1>4 DEF NextOfFull

(* The steps of a run but its end. *)
LEMMA RunTyped ==
  ASSUME TypeOK, NEW c \in Caller,
         MarkRunning(c) \/ RunWorker(c) \/ ReadStream(c) \/ Conflict(c) \/ Throws(c)
  PROVE  TypeOK'
<1>1. /\ todo[c] \in Seq(Worker) /\ todo[c] # <<>> /\ Head(todo[c]) \in Worker
      /\ UNCHANGED <<enabled, engine, jobs, full, todo, calls>>
  <2>1. at[c] \in InTry \cup {"mark"}
    BY DEF MarkRunning, RunWorker, ReadStream, Conflict, Throws, InTry
  <2>2. todo[c] \in Seq(Worker) /\ todo[c] # <<>>
    BY <2>1 DEF TypeOK
  <2>3. UNCHANGED <<enabled, engine, jobs, full, todo, calls>>
    BY DEF MarkRunning, RunWorker, ReadStream, Conflict, Throws, rows, mine
  <2> QED
    BY <2>2, <2>3, HeadTailProperties
<1>2. PICK step \in InTry \cup {"fail"} : Goto(c, step)
  BY DEF MarkRunning, RunWorker, ReadStream, Conflict, Throws, InTry
<1>3. result' \in [Caller -> {"none", "completed", "failed"}]
  BY DEF MarkRunning, RunWorker, ReadStream, Conflict, Throws, TypeOK, mine
<1>4. CallersTyped'
  BY <1>1, <1>2, <1>3, GotoTyped, TypedParts DEF At
<1>5. EngineTyped'
  BY <1>1, TypedParts DEF EngineTyped, engine
<1>6. status' \in [Worker -> {"pending", "running", "completed", "failed"}]
  BY DEF MarkRunning, RunWorker, ReadStream, Conflict, Throws, TypeOK, rows
<1>7. due' \in Seq(Worker) /\ IsInjective(due')
  <2>1. CASE RunWorker(c)
    BY <2>1, WithoutTyped DEF RunWorker, TypeOK
  <2>2. CASE due' = due
    BY <2>2 DEF TypeOK
  <2> QED
    BY <2>1, <2>2 DEF MarkRunning, ReadStream, Conflict, Throws, rows
<1>8. RestTyped'
  <2>1. current' \subseteq Caller \cup {Webhook}
    BY DEF MarkRunning, RunWorker, ReadStream, Conflict, Throws, TypeOK
  <2>2. faults' \in 0..MaxFaults
    BY LiveSyncAssumption DEF MarkRunning, RunWorker, ReadStream, Conflict, Throws, TypeOK
  <2>3. owed' \subseteq Worker /\ cut' \subseteq Worker
    BY <1>1 DEF MarkRunning, RunWorker, ReadStream, Conflict, Throws, TypeOK
  <2> QED
    BY <1>1, <2>1, <2>2, <2>3 DEF RestTyped, TypeOK
<1> QED
  BY <1>1, <1>4, <1>5, <1>6, <1>7, <1>8, TypedParts DEF WorkersTyped

(* The end of a run, or the step to the event of its own. *)
LEMMA EndingTyped ==
  ASSUME TypeOK, NEW c \in Caller, AppendEvent(c) \/ WriteFailed(c)
  PROVE  TypeOK'
<1>1. todo[c] # <<>> /\ boot' = boot
  BY DEF AppendEvent, WriteFailed, TypeOK, InTry
<1>2. EngineTyped /\ CallersTyped
  BY TypedParts
<1>3. CallersTyped' /\ EngineTyped'
  <2>1. CASE RunEnds(c)
    BY <1>1, <1>2, <2>1, EndTyped
  <2>2. CASE Goto(c, "readOwn") /\ UNCHANGED <<queue, activeWorker, stray, mine>>
    <3>1. EngineTyped'
      BY <1>1, <1>2, <2>2 DEF EngineTyped
    <3>2. CallersTyped'
      BY <1>1, <1>2, <2>2, GotoTyped DEF CallersTyped, At, InTry, mine, HaveWorkers
    <3> QED
      BY <3>1, <3>2
  <2> QED
    BY <2>1, <2>2 DEF AppendEvent, WriteFailed
<1>4. WorkersTyped'
  BY DEF AppendEvent, WriteFailed, TypeOK, WorkersTyped, rows
<1>5. RestTyped'
  BY DEF AppendEvent, WriteFailed, TypeOK, RestTyped
<1> QED
  BY <1>3, <1>4, <1>5, TypedParts

(* A webhook and the bootstrap only add a job. *)
LEMMA WebhookTyped ==
  ASSUME TypeOK, WebhookRead \/ WebhookAppend \/ WebhookEnqueue \/ Bootstrap
  PROVE  TypeOK'
<1>1. UNCHANGED <<rows, mine, activeWorker, stray, faults, owed, cut>>
  BY DEF WebhookRead, WebhookAppend, WebhookEnqueue, Bootstrap, engine
<1>2. CallersTyped'
  <2>1. /\ at' \in [Caller \cup {Webhook} -> At \cup {"enqueue"}]
        /\ \A c \in Caller : at'[c] = at[c]
    <3>1. at' = at \/ \E step \in At \cup {"enqueue"} : at' = [at EXCEPT ![Webhook] = step]
      BY DEF WebhookRead, WebhookAppend, WebhookEnqueue, Bootstrap, Goto, At, InTry
    <3> QED
      <4>1. at \in [Caller \cup {Webhook} -> At \cup {"enqueue"}] /\ Webhook \notin Caller
        BY LiveSyncAssumption DEF TypeOK
      <4> QED
        BY <3>1, <4>1
  <2> QED
    BY <1>1, <2>1 DEF TypeOK, CallersTyped, mine, HaveWorkers
<1>3. EngineTyped'
  <2>1. boot' \in BOOLEAN
    BY DEF WebhookRead, WebhookAppend, WebhookEnqueue, Bootstrap, engine, TypeOK
  <2>2. queue' \in Seq(Worker \cup {Full})
    <3>1. queue' = queue \/ \E j \in Worker \cup {Full} : queue' = Append(queue, j)
      BY LiveSyncAssumption DEF WebhookRead, WebhookAppend, WebhookEnqueue, Bootstrap, engine
    <3> QED
      <4>1. queue \in Seq(Worker \cup {Full})
        BY DEF TypeOK
      <4> QED
        BY <3>1, <4>1
  <2> QED
    BY <1>1, <2>1, <2>2 DEF TypeOK, EngineTyped
<1>4. RestTyped'
  <2>1. current' \subseteq Caller \cup {Webhook}
    BY DEF WebhookRead, WebhookAppend, WebhookEnqueue, Bootstrap, TypeOK
  <2>2. calls' \in 0..MaxCalls
    BY LiveSyncAssumption DEF WebhookRead, WebhookAppend, WebhookEnqueue, Bootstrap, TypeOK
  <2> QED
    BY <1>1, <2>1, <2>2 DEF TypeOK, RestTyped
<1>5. WorkersTyped'
  BY <1>1 DEF TypeOK, WorkersTyped, rows
<1> QED
  BY <1>2, <1>3, <1>4, <1>5, TypedParts

(* A call that throws leaves nothing behind but a worker counted as cut.   *)
LEMMA RejectsTyped ==
  ASSUME TypeOK, NEW c \in Caller, Rejects(c)
  PROVE  TypeOK'
<1>1. CallersTyped'
  BY LeaveTyped, TypedParts DEF Rejects
<1>2. UNCHANGED <<boot, rows, queue, current, calls, owed>>
  BY DEF Rejects
<1>3. activeWorker' \in Worker \cup {None}
  BY DEF Rejects, TypeOK
<1>4. stray' \in BOOLEAN
  BY Zenon DEF Rejects
<1>5. faults' \in 0..MaxFaults
  BY LiveSyncAssumption DEF Rejects, TypeOK
<1>6. cut' \subseteq Worker
  <2>1. CASE at[c] = "fail"
    <3>1. todo[c] \in Seq(Worker) /\ todo[c] # <<>>
      BY <2>1 DEF TypeOK
    <3>2. Head(todo[c]) \in Worker
      BY <3>1, HeadTailProperties
    <3> QED
      BY <2>1, <3>2 DEF Rejects, TypeOK
  <2>2. CASE at[c] # "fail"
    BY <2>2 DEF Rejects, TypeOK
  <2> QED
    BY <2>1, <2>2
<1> QED
  BY <1>1, <1>2, <1>3, <1>4, <1>5, <1>6, TypedParts DEF WorkersTyped, EngineTyped, RestTyped, rows

(* A restart forgets what was in memory. *)
LEMMA CrashTyped ==
  ASSUME TypeOK, Crash
  PROVE  TypeOK'
<1>1. CallersTyped'
  <2>1. at' = [c \in Caller \cup {Webhook} |-> "idle"] /\ todo' = [c \in Caller |-> <<>>]
        /\ jobs' = [c \in Caller |-> 0] /\ full' = [c \in Caller |-> FALSE]
        /\ result' = [c \in Caller |-> "none"]
    BY DEF Crash
  <2>2. \A c \in Caller : at'[c] = "idle"
    BY <2>1
  <2>3. at' \in [Caller \cup {Webhook} -> At \cup {"enqueue"}]
    BY <2>1 DEF At
  <2> QED
    BY <2>1, <2>2, <2>3 DEF CallersTyped, At, InTry, HaveWorkers
<1>2. EngineTyped'
  <2>1. /\ boot' = TRUE /\ queue' = <<>> /\ activeWorker' = None /\ stray' = FALSE
    BY DEF Crash
  <2>2. <<>> \in Seq(Worker \cup {Full})
    OBVIOUS
  <2> QED
    BY <2>1, <2>2 DEF EngineTyped
<1>3. RestTyped'
  BY LiveSyncAssumption DEF Crash, TypeOK, RestTyped
<1>4. WorkersTyped'
  BY DEF Crash, TypeOK, WorkersTyped, rows
<1> QED
  BY <1>1, <1>2, <1>3, <1>4, TypedParts

(* Rows, queue and calls keep their types, and a call that is to run a     *)
(* worker, or is in its run, has one: whatever fails and restarts, no step *)
(* of runFullSync or runWorker takes a worker off an empty list.           *)
THEOREM TypeCorrect == Spec => []TypeOK
<1>1. Init => TypeOK
  <2> SUFFICES ASSUME Init PROVE TypeOK
    OBVIOUS
  <2>1. WorkersTyped
    BY OrderTyped DEF Init, WorkersTyped
  <2>2. EngineTyped
    <3>1. boot = TRUE /\ queue = <<>> /\ activeWorker = None /\ stray = FALSE
      BY DEF Init
    <3>2. <<>> \in Seq(Worker \cup {Full})
      OBVIOUS
    <3> QED
      BY <3>1, <3>2 DEF EngineTyped
  <2>3. CallersTyped
    <3>1. at \in [Caller \cup {Webhook} -> At \cup {"enqueue"}] /\ \A c \in Caller : at[c] = "idle"
      BY DEF Init, At
    <3> QED
      BY <3>1 DEF Init, CallersTyped, At, InTry, HaveWorkers
  <2>4. RestTyped
    BY LiveSyncAssumption DEF Init, RestTyped
  <2> QED
    BY <2>1, <2>2, <2>3, <2>4, TypedParts
<1>2. TypeOK /\ [Next]_vars => TypeOK'
  <2> SUFFICES ASSUME TypeOK, [Next]_vars PROVE TypeOK'
    OBVIOUS
  <2>1. ASSUME NEW c \in Caller, Continue(c) PROVE TypeOK'
    BY <2>1, TakingTyped, NextOfFullTyped, RunTyped, EndingTyped DEF Continue
  <2>2. ASSUME NEW c \in Caller, Tick(c) PROVE TypeOK'
    BY <2>2, PollTyped DEF Tick
  <2>3. ASSUME NEW c \in Requester, Request(c) PROVE TypeOK'
    BY <2>3, TakingTyped DEF Caller
  <2>4. ASSUME NEW c \in Caller, Throws(c) PROVE TypeOK'
    BY <2>4, RunTyped
  <2>5. ASSUME NEW c \in Caller, Rejects(c) PROVE TypeOK'
    BY <2>5, RejectsTyped
  <2>6. ASSUME NEW w \in Worker, Elapse(w) \/ UpdateSchedule(w) PROVE TypeOK'
    BY <2>6, ClockTyped
  <2>7. CASE UNCHANGED vars
    BY <2>7 DEF TypeOK, vars, rows, engine, mine
  <2> QED
    BY <2>1, <2>2, <2>3, <2>4, <2>5, <2>6, <2>7, WebhookTyped, CrashTyped DEF Next
<1> QED
  BY <1>1, <1>2, PTL DEF Spec

-----------------------------------------------------------------------------
(* The ads.  A stream is read as in AdCatalog, from a log that is given.   *)

Tellings(l, what, x, n) == {i \in 1..n : l[i].what = what /\ l[i].of = x}
Pricings(l, x, n)   == Tellings(l, "created", x, n) \cup Tellings(l, "price", x, n)
IsCreated(l, x, n)  == Tellings(l, "created", x, n) # {}
IsArchived(l, x, n) == Tellings(l, "archived", x, n) # {}
Newest(S)           == CHOOSE i \in S : \A j \in S : i >= j
PriceIn(l, x, n)    == l[Newest(Pricings(l, x, n))].value

RowsIn(cat, x) == {r \in 1..Len(cat) : cat[r].of = x}
ItemAt(S)      == CHOOSE i \in S : TRUE

(* The types, of values that are given.                                    *)
LogTyped(l) == l \in Seq(A!Event)
RowsTyped(cat, pd) ==
  cat \in Seq(A!Row) /\ pd \in Seq([added : Nat, under : Nat]) /\ Len(pd) = Len(cat)
BumpTyped(b, n) == b \in [row : 0..n, messages : Nat, spend : Nat]
AvitoTyped(av)  == av \in [Item -> A!Price]
CallsTyped(p, h, ld) == p \in [Call -> A!Pc] /\ h \in [Call -> A!Local] /\ ld \subseteq Call
CountsTyped(o, ra, be) == o \in 0..MaxOps /\ ra \in [Ad -> 0..MaxOps] /\ be \subseteq Ad

Typed ==
  /\ LogTyped(log) /\ applied \in 0..Len(log)
  /\ RowsTyped(catalog, paid) /\ BumpTyped(bump, Len(catalog))
  /\ AvitoTyped(avito) /\ CallsTyped(pc, local, loaded) /\ CountsTyped(ops, raised, behind)

(* What a call holds between two steps.                                    *)
HoldsRow  == {"load", "save", "loadArchive", "archive", "add", "update"}
HoldsItem == {"find", "update", "create"}
Held(c, s, h, cat, ld) ==
  /\ s \in HoldsRow => h.row \in 1..Len(cat)
  /\ s \in {"save", "archive"} => cat[h.row].of \in Ad
  /\ s \in HoldsItem => h.todo # {}
  /\ s = "update" => cat[h.row].of = ItemAt(h.todo)
  /\ c \in ld => s \in {"save", "archive"}

CallsHold == \A c \in Call : Held(c, pc[c], local[c], catalog, loaded)

(* A stream begins with "created", and ends with "archived" once.          *)
Preceded(l)    == \A i \in 1..Len(l) : l[i].what \in {"price", "archived"} => IsCreated(l, l[i].of, i - 1)
ToldOnce(l)    == \A i, j \in 1..Len(l) :
  /\ l[i].what = l[j].what /\ l[i].of = l[j].of
  /\ l[i].what \in {"created", "archived"}
  => i = j
AboutRows(l, n) == \A i \in 1..Len(l) : l[i].what = "message" => l[i].of \in 1..n
WithinRaises(l, ra) ==
  \A i \in 1..Len(l) : l[i].what \in {"created", "price"} => l[i].value <= 1 + ra[l[i].of]

LogShape ==
  Preceded(log) /\ ToldOnce(log) /\ AboutRows(log, Len(catalog)) /\ WithinRaises(log, raised)

(* Raises: those answered, and those under way.                            *)
Counted(l, ra, be, x) ==
  /\ ~IsCreated(l, x, Len(l)) => ra[x] = 0
  /\ IsCreated(l, x, Len(l)) /\ x \notin be => PriceIn(l, x, Len(l)) = 1 + ra[x]
RaisesCounted == \A ad \in Ad : Counted(log, raised, behind, ad)

Known(c, s, h, ld, l, ra, be, x) ==
  /\ s \in {"load", "save"} => h.amount \in 1..(2 + ra[x])
  /\ c \in ld /\ s = "save" /\ x \notin be => h.amount = PriceIn(l, x, Len(l)) + 1
  /\ c \in ld /\ s = "archive" => ~IsArchived(l, x, Len(l))
AmountsKnown ==
  \A c \in Call : pc[c] \in HoldsRow /\ catalog[local[c].row].of \in Ad =>
    Known(c, pc[c], local[c], loaded, log, raised, behind, catalog[local[c].row].of)

Raising(p) == {c \in Call : p[c] \in {"load", "save"}}
OpsBound(p, ra, o) == \A ad \in Ad : ra[ad] + Cardinality(Raising(p)) <= o

(* Rows of ads show their stream, and there is one for each.               *)
Shows(r, l, n) ==
  r.of \in Ad =>
    /\ IsCreated(l, r.of, n)
    /\ r.price = PriceIn(l, r.of, n)
    /\ r.status = "archived" <=> IsArchived(l, r.of, n)
RowsShow(cat, l, n) ==
  /\ \A r \in 1..Len(cat) : Shows(cat[r], l, n)
  /\ \A r, q \in 1..Len(cat) : cat[r].of = cat[q].of /\ cat[r].of \in Ad => r = q
  /\ \A ad \in Ad : IsCreated(l, ad, n) => \E r \in 1..Len(cat) : cat[r].of = ad

(* What bump holds.                                                        *)
BumpHolds(b, l, n, cat, pd) ==
  b # A!NoBump =>
    /\ b.row \in 1..Len(cat) /\ n < Len(l)
    /\ l[n + 1].what = "message" /\ l[n + 1].of = b.row
    /\ b.messages = cat[b.row].messages
    /\ b.spend \in (pd[b.row].added - pd[b.row].under)..pd[b.row].added

(* The counters of a row.                                                  *)
Counts(r, l, n, row, pd) ==
  /\ row.messages = Cardinality(Tellings(l, "message", r, n))
  /\ row.spend \in (pd.added - pd.under)..pd.added
RowsCount(cat, l, n, pd) == \A r \in 1..Len(cat) : Counts(r, l, n, cat[r], pd[r])

(* Calls that found no row of an item yet.                                 *)
Creators(p, h, i) == {c \in Call : p[c] = "create" /\ ItemAt(h[c].todo) = i}
ItemsBounded(cat, p, h) ==
  \A i \in Item : Cardinality(RowsIn(cat, i)) + Cardinality(Creators(p, h, i)) <= Cardinality(Call)

CatalogInv ==
  /\ Typed /\ CallsHold /\ LogShape /\ RaisesCounted /\ AmountsKnown /\ OpsBound(pc, raised, ops)
  /\ RowsShow(catalog, log, applied) /\ BumpHolds(bump, log, applied, catalog, paid)
  /\ RowsCount(catalog, log, applied, paid) /\ ItemsBounded(catalog, pc, local)

-----------------------------------------------------------------------------
(* Reading a log.                                                          *)

(* The last of some positions is one of them.                              *)
LEMMA NewestIs ==
  ASSUME NEW n \in Nat, NEW S \in SUBSET (1..n), S # {}
  PROVE  Newest(S) \in S /\ \A j \in S : j <= Newest(S)
<1> DEFINE T == {n - i : i \in S}
<1>1. T \in SUBSET Nat /\ T # {}
  <2>1. \A i \in S : n - i \in Nat
    OBVIOUS
  <2>2. T \in SUBSET Nat
    BY <2>1
  <2>3. PICK i \in S : TRUE
    OBVIOUS
  <2>4. n - i \in T
    OBVIOUS
  <2> QED
    BY <2>2, <2>4
<1>2. IsWellFoundedOn(OpToRel(<, Nat), Nat)
  BY NatLessThanWellFounded DEF OpToRel
<1>3. PICK m \in T : \A k \in T : ~(<<k, m>> \in OpToRel(<, Nat))
  BY <1>1, <1>2, WFMin
<1>4. \A k \in T : ~(k < m)
  BY <1>1, <1>3 DEF OpToRel
<1>5. PICK i \in S : m = n - i
  OBVIOUS
<1>6. \A j \in S : i >= j
  <2> SUFFICES ASSUME NEW j \in S PROVE i >= j
    OBVIOUS
  <2>1. ~(n - j < n - i)
    BY <1>4, <1>5
  <2> QED
    BY <2>1
<1> QED
  BY <1>6 DEF Newest

(* A position after all others is the last.                                *)
LEMMA NewestAdded ==
  ASSUME NEW n \in Nat, NEW S \in SUBSET (1..n)
  PROVE  Newest(S \cup {n + 1}) = n + 1
<1>1. \A i \in S \cup {n + 1} : (\A j \in S \cup {n + 1} : i >= j) <=> i = n + 1
  OBVIOUS
<1> QED
  BY <1>1 DEF Newest

(* What one more event adds to what is told.                               *)
LEMMA NextTold ==
  ASSUME NEW l, NEW n \in Nat, NEW what, NEW x
  PROVE  /\ l[n + 1].what = what /\ l[n + 1].of = x =>
              Tellings(l, what, x, n + 1) = Tellings(l, what, x, n) \cup {n + 1}
         /\ l[n + 1].what # what \/ l[n + 1].of # x =>
              Tellings(l, what, x, n + 1) = Tellings(l, what, x, n)
<1>1. \A i : i \in 1..(n + 1) <=> i \in 1..n \/ i = n + 1
  OBVIOUS
<1> QED
  BY <1>1 DEF Tellings

(* Told now...                                                             *)
LEMMA ToldNow ==
  ASSUME NEW l, NEW n \in Nat, NEW what, NEW x, l[n + 1].what = what, l[n + 1].of = x
  PROVE  Tellings(l, what, x, n + 1) = Tellings(l, what, x, n) \cup {n + 1}
<1>1. \A i : i \in 1..(n + 1) <=> i \in 1..n \/ i = n + 1
  OBVIOUS
<1> QED
  BY <1>1 DEF Tellings

(* ... or not.                                                             *)
LEMMA NotToldNow ==
  ASSUME NEW l, NEW n \in Nat, NEW what, NEW x, l[n + 1].what # what
  PROVE  Tellings(l, what, x, n + 1) = Tellings(l, what, x, n)
<1>1. \A i : i \in 1..(n + 1) <=> i \in 1..n \/ i = n + 1
  OBVIOUS
<1> QED
  BY <1>1 DEF Tellings

(* A price is that of the last event that sets one.                        *)
LEMMA NextPrice ==
  ASSUME NEW l, NEW n \in Nat, NEW x
  PROVE  /\ l[n + 1].what \in {"created", "price"} /\ l[n + 1].of = x => PriceIn(l, x, n + 1) = l[n + 1].value
         /\ l[n + 1].what \notin {"created", "price"} \/ l[n + 1].of # x =>
              PriceIn(l, x, n + 1) = PriceIn(l, x, n)
<1>1. Pricings(l, x, n) \in SUBSET (1..n)
  BY DEF Pricings, Tellings
<1>2. CASE l[n + 1].what \in {"created", "price"} /\ l[n + 1].of = x
  <2>1. Pricings(l, x, n + 1) = Pricings(l, x, n) \cup {n + 1}
    <3>1. CASE l[n + 1].what = "created"
      <4>1. Tellings(l, "created", x, n + 1) = Tellings(l, "created", x, n) \cup {n + 1}
        BY <1>2, <3>1, NextTold
      <4>2. Tellings(l, "price", x, n + 1) = Tellings(l, "price", x, n)
        BY <3>1, NextTold
      <4> QED
        BY <4>1, <4>2 DEF Pricings
    <3>2. CASE l[n + 1].what = "price"
      <4>1. Tellings(l, "price", x, n + 1) = Tellings(l, "price", x, n) \cup {n + 1}
        BY <1>2, <3>2, NextTold
      <4>2. Tellings(l, "created", x, n + 1) = Tellings(l, "created", x, n)
        BY <3>2, NextTold
      <4> QED
        BY <4>1, <4>2 DEF Pricings
    <3> QED
      BY <1>2, <3>1, <3>2
  <2> QED
    BY <1>1, <1>2, <2>1, NewestAdded DEF PriceIn
<1>3. CASE l[n + 1].what \notin {"created", "price"} \/ l[n + 1].of # x
  <2>1. Pricings(l, x, n + 1) = Pricings(l, x, n)
    BY <1>3, NextTold DEF Pricings
  <2> QED
    BY <1>3, <2>1 DEF PriceIn
<1> QED
  BY <1>2, <1>3

(* Logs that agree so far tell the same.                                   *)
LEMMA SamePast ==
  ASSUME NEW l, NEW m, NEW n \in Nat, \A i \in 1..n : l[i] = m[i]
  PROVE  /\ \A what, x : Tellings(l, what, x, n) = Tellings(m, what, x, n)
         /\ \A x : IsCreated(l, x, n) <=> IsCreated(m, x, n)
         /\ \A x : IsArchived(l, x, n) <=> IsArchived(m, x, n)
         /\ \A x : IsCreated(l, x, n) => PriceIn(l, x, n) = PriceIn(m, x, n)
<1>1. \A what, x : Tellings(l, what, x, n) = Tellings(m, what, x, n)
  BY DEF Tellings
<1>2. ASSUME NEW x, IsCreated(l, x, n) PROVE PriceIn(l, x, n) = PriceIn(m, x, n)
  <2>1. Pricings(l, x, n) = Pricings(m, x, n)
    BY <1>1 DEF Pricings
  <2>2. Pricings(l, x, n) \in SUBSET (1..n) /\ Pricings(l, x, n) # {}
    BY <1>2 DEF Pricings, Tellings, IsCreated
  <2>3. Newest(Pricings(l, x, n)) \in 1..n
    BY <2>2, NewestIs
  <2> QED
    BY <2>1, <2>3 DEF PriceIn
<1> QED
  BY <1>1, <1>2 DEF IsCreated, IsArchived

(* What is told by n and by n + 1.                                         *)
LEMMA NextReads ==
  ASSUME NEW l, NEW n \in Nat, NEW x
  PROVE  /\ IsCreated(l, x, n + 1) <=>
              IsCreated(l, x, n) \/ (l[n + 1].what = "created" /\ l[n + 1].of = x)
         /\ IsArchived(l, x, n + 1) <=>
              IsArchived(l, x, n) \/ (l[n + 1].what = "archived" /\ l[n + 1].of = x)
<1>1. ASSUME NEW what
      PROVE  Tellings(l, what, x, n + 1) # {} <=>
               Tellings(l, what, x, n) # {} \/ (l[n + 1].what = what /\ l[n + 1].of = x)
  <2>1. CASE l[n + 1].what = what /\ l[n + 1].of = x
    <3>1. Tellings(l, what, x, n + 1) = Tellings(l, what, x, n) \cup {n + 1}
      BY <2>1, ToldNow
    <3> QED
      BY <2>1, <3>1
  <2>2. CASE ~(l[n + 1].what = what /\ l[n + 1].of = x)
    <3>1. Tellings(l, what, x, n + 1) = Tellings(l, what, x, n)
      BY <2>2, NextTold
    <3> QED
      BY <2>2, <3>1
  <2> QED
    BY <2>1, <2>2
<1> QED
  BY <1>1 DEF IsCreated, IsArchived

(* A stream that exists goes on existing.                                  *)
LEMMA ReadsOn ==
  ASSUME NEW l, NEW n \in Nat, NEW k \in 0..n, NEW x, IsCreated(l, x, k)
  PROVE  IsCreated(l, x, n)
BY DEF IsCreated, Tellings

(* A price that is known is one of the log's.                              *)
LEMMA PriceIsTold ==
  ASSUME NEW l, NEW n \in Nat, NEW x, IsCreated(l, x, n)
  PROVE  \E i \in 1..n : l[i].what \in {"created", "price"} /\ l[i].of = x /\ PriceIn(l, x, n) = l[i].value
<1>1. Pricings(l, x, n) \in SUBSET (1..n) /\ Pricings(l, x, n) # {}
  BY DEF Pricings, Tellings, IsCreated
<1>2. Newest(Pricings(l, x, n)) \in Pricings(l, x, n)
  BY <1>1, NewestIs
<1> QED
  BY <1>2 DEF Pricings, Tellings, PriceIn

(* The module's own words for it.                                          *)
LEMMA ReadsAs ==
  /\ \A x, n : A!Created(x, n) <=> IsCreated(log, x, n)
  /\ \A x, n : A!Archived(x, n) <=> IsArchived(log, x, n)
  /\ \A x, n : A!Priced(x, n) = PriceIn(log, x, n)
<1>1. \A what, x, n : A!Told(x, what, n) = Tellings(log, what, x, n)
  BY DEF A!Told, Tellings
<1>2. \A S : A!Max(S) = Newest(S)
  BY DEF A!Max, Newest
<1> QED
  BY <1>1, <1>2 DEF A!Created, A!Archived, A!Priced, IsCreated, IsArchived, PriceIn, Pricings

(* So are finite sets, and their sizes.                                    *)
LEMMA SameSizes ==
  /\ \A S : A!IsFiniteSet(S) <=> IsFiniteSet(S)
  /\ \A S : A!Cardinality(S) = Cardinality(S)
<1>1. \A S : A!IsFiniteSet(S) <=> IsFiniteSet(S)
  BY DEF A!IsFiniteSet, IsFiniteSet
<1>2. \A S : A!Cardinality(S) = Cardinality(S)
  BY DEF A!Cardinality, Cardinality
<1> QED
  BY <1>1, <1>2

(* Calls can be counted.                                                   *)
LEMMA CallsFinite == IsFiniteSet(Call)
BY CatalogAssumption, SameSizes DEF A!AdCatalogAssumption

(* The type invariant, of variables.                                       *)
LEMMA TypesAre == A!TypeOK <=> Typed
BY DEF A!TypeOK, Typed, LogTyped, RowsTyped, BumpTyped, AvitoTyped, CallsTyped, CountsTyped

-----------------------------------------------------------------------------
(* A log that has grown by one event.                                      *)

Grown(l, e, m) == LogTyped(l) /\ e \in A!Event /\ m = Append(l, e)

(* Such a log, place by place.                                             *)
LEMMA Grows ==
  ASSUME NEW l, NEW e, NEW m, Grown(l, e, m)
  PROVE  /\ LogTyped(m) /\ Len(l) \in Nat /\ Len(m) = Len(l) + 1
         /\ m[Len(l) + 1] = e /\ \A i \in 1..Len(l) : l[i] = m[i]
BY AppendProperties, LenProperties DEF LogTyped, Grown

(* It tells what it told, up to where it ended.                            *)
LEMMA GrownTells ==
  ASSUME NEW l, NEW e, NEW m, Grown(l, e, m), NEW n \in 0..Len(l)
  PROVE  /\ \A what, x : Tellings(l, what, x, n) = Tellings(m, what, x, n)
         /\ \A x : IsCreated(l, x, n) <=> IsCreated(m, x, n)
         /\ \A x : IsArchived(l, x, n) <=> IsArchived(m, x, n)
         /\ \A x : IsCreated(l, x, n) => PriceIn(l, x, n) = PriceIn(m, x, n)
<1>1. Len(l) \in Nat /\ \A i \in 1..Len(l) : l[i] = m[i]
  BY Grows
<1>2. n \in Nat /\ \A i \in 1..n : l[i] = m[i]
  BY <1>1
<1> QED
  BY <1>2, SamePast

(* What the longer log tells at its end.                                   *)
LEMMA EndTells ==
  ASSUME NEW l, NEW e, NEW m, Grown(l, e, m), NEW x
  PROVE  /\ IsCreated(m, x, Len(m)) <=> IsCreated(l, x, Len(l)) \/ (e.what = "created" /\ e.of = x)
         /\ IsArchived(m, x, Len(m)) <=> IsArchived(l, x, Len(l)) \/ (e.what = "archived" /\ e.of = x)
         /\ e.what \in {"created", "price"} /\ e.of = x => PriceIn(m, x, Len(m)) = e.value
         /\ (e.what \notin {"created", "price"} \/ e.of # x) /\ IsCreated(l, x, Len(l)) =>
              PriceIn(m, x, Len(m)) = PriceIn(l, x, Len(l))
<1>1. Len(l) \in Nat /\ Len(m) = Len(l) + 1 /\ m[Len(l) + 1] = e /\ Len(l) \in 0..Len(l)
  BY Grows
<1>2. /\ IsCreated(l, x, Len(l)) <=> IsCreated(m, x, Len(l))
      /\ IsArchived(l, x, Len(l)) <=> IsArchived(m, x, Len(l))
      /\ IsCreated(l, x, Len(l)) => PriceIn(l, x, Len(l)) = PriceIn(m, x, Len(l))
  BY <1>1, GrownTells
<1>3. /\ IsCreated(m, x, Len(m)) <=> IsCreated(m, x, Len(l)) \/ (e.what = "created" /\ e.of = x)
      /\ IsArchived(m, x, Len(m)) <=> IsArchived(m, x, Len(l)) \/ (e.what = "archived" /\ e.of = x)
  <2>1. /\ IsCreated(m, x, Len(l) + 1) <=>
             IsCreated(m, x, Len(l)) \/ (m[Len(l) + 1].what = "created" /\ m[Len(l) + 1].of = x)
        /\ IsArchived(m, x, Len(l) + 1) <=>
             IsArchived(m, x, Len(l)) \/ (m[Len(l) + 1].what = "archived" /\ m[Len(l) + 1].of = x)
    BY <1>1, NextReads
  <2> QED
    BY <1>1, <2>1, Zenon
<1>4. /\ e.what \in {"created", "price"} /\ e.of = x => PriceIn(m, x, Len(m)) = e.value
      /\ e.what \notin {"created", "price"} \/ e.of # x => PriceIn(m, x, Len(m)) = PriceIn(m, x, Len(l))
  BY <1>1, NextPrice
<1> QED
  BY <1>2, <1>3, <1>4

(* What may be appended.                                                   *)
Fits(e, l, n, ra) ==
  /\ e.what \in {"price", "archived"} => IsCreated(l, e.of, Len(l))
  /\ e.what = "created" => ~IsCreated(l, e.of, Len(l))
  /\ e.what = "archived" => ~IsArchived(l, e.of, Len(l))
  /\ e.what = "message" => e.of \in 1..n
  /\ e.what \in {"created", "price"} => e.value <= 1 + ra[e.of]

(* Whom an event is about.                                                 *)
LEMMA EventsAre ==
  ASSUME NEW e \in A!Event
  PROVE  /\ e.what \in {"created", "price", "archived", "message"}
         /\ e.what # "message" => e.of \in Ad /\ e.value \in A!Price
         /\ e.what = "message" => e.of \in Nat
BY DEF A!Event

(* A log that grew by an event that fits keeps its shape.                  *)
LEMMA ShapeGrows ==
  ASSUME NEW l, NEW e, NEW m, Grown(l, e, m), NEW n,
         NEW ra \in [Ad -> Nat], NEW rb \in [Ad -> Nat], \A ad \in Ad : ra[ad] <= rb[ad],
         Preceded(l), ToldOnce(l), AboutRows(l, n), WithinRaises(l, ra),
         Fits(e, l, n, rb)
  PROVE  Preceded(m) /\ ToldOnce(m) /\ AboutRows(m, n) /\ WithinRaises(m, rb)
<1>1. /\ Len(l) \in Nat /\ Len(m) = Len(l) + 1
      /\ m[Len(l) + 1] = e /\ \A i \in 1..Len(l) : l[i] = m[i]
  BY Grows
<1>2. \A i \in 1..Len(m) : i \in 1..Len(l) \/ i = Len(l) + 1
  BY <1>1
<1>3. \A i \in 1..Len(l) : l[i] \in A!Event
  BY ElementOfSeq DEF LogTyped, Grown
<1>4. Preceded(m)
  <2> SUFFICES ASSUME NEW i \in 1..Len(m), m[i].what \in {"price", "archived"}
               PROVE  IsCreated(m, m[i].of, i - 1)
    BY DEF Preceded
  <2>1. CASE i \in 1..Len(l)
    <3>1. IsCreated(l, l[i].of, i - 1) /\ i - 1 \in 0..Len(l)
      BY <1>1, <2>1 DEF Preceded
    <3>2. IsCreated(m, l[i].of, i - 1)
      BY <3>1, GrownTells
    <3> QED
      BY <1>1, <2>1, <3>2
  <2>2. CASE i = Len(l) + 1
    <3>1. IsCreated(l, e.of, Len(l)) /\ Len(l) \in 0..Len(l) /\ m[i] = e /\ i - 1 = Len(l)
      BY <1>1, <2>2 DEF Fits
    <3>2. IsCreated(m, e.of, Len(l))
      BY <3>1, GrownTells
    <3> QED
      BY <3>1, <3>2
  <2> QED
    BY <1>2, <2>1, <2>2
<1>5. ToldOnce(m)
  <2>1. ASSUME NEW i \in 1..Len(l),
               l[i].what = e.what, l[i].of = e.of, e.what \in {"created", "archived"}
        PROVE  FALSE
    <3>1. Tellings(l, e.what, e.of, Len(l)) # {}
      BY <2>1 DEF Tellings
    <3> QED
      BY <2>1, <3>1 DEF Fits, IsCreated, IsArchived
  <2> SUFFICES ASSUME NEW i \in 1..Len(m), NEW j \in 1..Len(m),
                      m[i].what = m[j].what, m[i].of = m[j].of, m[i].what \in {"created", "archived"}
               PROVE  i = j
    BY DEF ToldOnce
  <2>2. CASE i \in 1..Len(l) /\ j \in 1..Len(l)
    BY <1>1, <2>2 DEF ToldOnce
  <2>3. CASE i \in 1..Len(l) /\ j = Len(l) + 1
    BY <1>1, <2>1, <2>3
  <2>4. CASE i = Len(l) + 1 /\ j \in 1..Len(l)
    BY <1>1, <2>1, <2>4
  <2> QED
    BY <1>2, <2>2, <2>3, <2>4
<1>6. AboutRows(m, n)
  BY <1>1, <1>2 DEF AboutRows, Fits
<1>7. WithinRaises(m, rb)
  <2> SUFFICES ASSUME NEW i \in 1..Len(m), m[i].what \in {"created", "price"}
               PROVE  m[i].value <= 1 + rb[m[i].of]
    BY DEF WithinRaises
  <2>1. CASE i \in 1..Len(l)
    <3>1. l[i].value <= 1 + ra[l[i].of] /\ l[i].of \in Ad /\ l[i].value \in Nat
      BY <1>1, <1>3, <2>1, EventsAre, CatalogAssumption DEF WithinRaises, A!Price, A!AdCatalogAssumption
    <3> QED
      BY <1>1, <2>1, <3>1
  <2>2. CASE i = Len(l) + 1
    BY <1>1, <2>2 DEF Fits
  <2> QED
    BY <1>2, <2>1, <2>2
<1> QED
  BY <1>4, <1>5, <1>6, <1>7

(* Rows say nothing of the end of the log.                                 *)
LEMMA RowsAbide ==
  ASSUME NEW l, NEW e, NEW m, Grown(l, e, m), NEW n \in 0..Len(l),
         NEW cat, NEW pd, NEW b,
         RowsShow(cat, l, n), RowsCount(cat, l, n, pd), BumpHolds(b, l, n, cat, pd)
  PROVE  RowsShow(cat, m, n) /\ RowsCount(cat, m, n, pd) /\ BumpHolds(b, m, n, cat, pd)
<1>1. /\ Len(l) \in Nat /\ Len(m) = Len(l) + 1 /\ \A i \in 1..Len(l) : l[i] = m[i]
      /\ n \in Int
  BY Grows
<1>2. /\ \A what, x : Tellings(l, what, x, n) = Tellings(m, what, x, n)
      /\ \A x : IsCreated(l, x, n) <=> IsCreated(m, x, n)
      /\ \A x : IsArchived(l, x, n) <=> IsArchived(m, x, n)
      /\ \A x : IsCreated(l, x, n) => PriceIn(l, x, n) = PriceIn(m, x, n)
  BY GrownTells
<1>3. RowsShow(cat, m, n)
  <2>1. \A r : Shows(r, l, n) => Shows(r, m, n)
    BY <1>2 DEF Shows
  <2> QED
    BY <1>2, <2>1 DEF RowsShow
<1>4. RowsCount(cat, m, n, pd)
  BY <1>2 DEF RowsCount, Counts
<1>5. BumpHolds(b, m, n, cat, pd)
  <2>1. n < Len(l) => n < Len(m) /\ n + 1 \in 1..Len(l)
    BY <1>1
  <2> QED
    BY <1>1, <2>1 DEF BumpHolds
<1> QED
  BY <1>3, <1>4, <1>5

-----------------------------------------------------------------------------
(* Calls.                                                                  *)

(* A step of a call leaves the others where they are.                      *)
LEMMA MovesOne ==
  ASSUME CallsTyped(pc, local, loaded), NEW c \in Call, NEW s \in A!Pc, NEW h \in A!Local,
         pc' = [pc EXCEPT ![c] = s], local' = [local EXCEPT ![c] = h], loaded' \subseteq Call
  PROVE  /\ CallsTyped(pc', local', loaded')
         /\ pc'[c] = s /\ local'[c] = h
         /\ \A d \in Call \ {c} : pc'[d] = pc[d] /\ local'[d] = local[d]
BY DEF CallsTyped

(* A table keeps its rows, and whose they are.                             *)
Stay(cat, kat) ==
  /\ Len(cat) \in Nat /\ Len(kat) \in Nat /\ Len(cat) <= Len(kat)
  /\ \A r \in 1..Len(cat) : kat[r].of = cat[r].of

(* Calls outside C go on holding what they hold.                           *)
LEMMA HoldsOn ==
  ASSUME CallsHold, NEW C, Stay(catalog, catalog'),
         \A d \in Call \ C : pc'[d] = pc[d] /\ local'[d] = local[d] /\ (d \in loaded' => d \in loaded),
         \A d \in Call \cap C : Held(d, pc'[d], local'[d], catalog', loaded')
  PROVE  CallsHold'
<1> SUFFICES ASSUME NEW d \in Call PROVE Held(d, pc'[d], local'[d], catalog', loaded')
  BY DEF CallsHold
<1>1. CASE d \notin C
  <2>1. Held(d, pc[d], local[d], catalog, loaded)
    BY DEF CallsHold
  <2>2. pc'[d] = pc[d] /\ local'[d] = local[d] /\ (d \in loaded' => d \in loaded)
    BY <1>1
  <2>3. \A r \in 1..Len(catalog) : r \in 1..Len(catalog') /\ catalog'[r].of = catalog[r].of
    BY DEF Stay
  <2>4. HoldsRow = {"load", "save", "loadArchive", "archive", "add", "update"}
    BY DEF HoldsRow
  <2> QED
    BY <2>1, <2>2, <2>3, <2>4 DEF Held
<1> QED
  BY <1>1

(* ... and knowing what they know, if no one spoke of their ad.            *)
LEMMA AmountsOn ==
  ASSUME CallsHold, AmountsKnown, NEW C, Stay(catalog, catalog'),
         raised \in [Ad -> Nat], raised' \in [Ad -> Nat],
         \A ad \in Ad : raised[ad] <= raised'[ad], behind \subseteq behind',
         \A d \in Call \ C : pc'[d] = pc[d] /\ local'[d] = local[d] /\ (d \in loaded' => d \in loaded),
         \A d \in Call \ C : d \in loaded' =>
           LET x == catalog[local[d].row].of IN
           /\ pc[d] = "save" => PriceIn(log', x, Len(log')) = PriceIn(log, x, Len(log))
           /\ pc[d] = "archive" => (IsArchived(log', x, Len(log')) => IsArchived(log, x, Len(log))),
         \A d \in Call \cap C : pc'[d] \in HoldsRow /\ catalog'[local'[d].row].of \in Ad =>
           Known(d, pc'[d], local'[d], loaded', log', raised', behind', catalog'[local'[d].row].of)
  PROVE  AmountsKnown'
<1> SUFFICES ASSUME NEW d \in Call, pc'[d] \in HoldsRow, catalog'[local'[d].row].of \in Ad
             PROVE  Known(d, pc'[d], local'[d], loaded', log', raised', behind', catalog'[local'[d].row].of)
  BY DEF AmountsKnown, HoldsRow
<1>1. CASE d \notin C
  <2> DEFINE x == catalog[local[d].row].of
  <2>1. pc'[d] = pc[d] /\ local'[d] = local[d] /\ (d \in loaded' => d \in loaded)
    BY <1>1
  <2>2. local[d].row \in 1..Len(catalog)
    BY <2>1 DEF CallsHold, Held
  <2>3. catalog'[local'[d].row].of = x /\ x \in Ad
    BY <2>1, <2>2 DEF Stay
  <2>4. Known(d, pc[d], local[d], loaded, log, raised, behind, x)
    BY <2>1, <2>3 DEF AmountsKnown
  <2>5. d \in loaded' =>
           /\ pc[d] = "save" => PriceIn(log', x, Len(log')) = PriceIn(log, x, Len(log))
           /\ pc[d] = "archive" => (IsArchived(log', x, Len(log')) => IsArchived(log, x, Len(log)))
    BY <1>1
  <2>6. local[d].amount \in 1..(2 + raised[x]) => local[d].amount \in 1..(2 + raised'[x])
    BY <2>3
  <2> HIDE DEF x
  <2>7. Known(d, pc[d], local[d], loaded', log', raised', behind', x)
    BY <2>1, <2>4, <2>5, <2>6 DEF Known
  <2> QED
    BY <2>1, <2>3, <2>7
<1> QED
  BY <1>1

(* Requests that may still raise a price.                                  *)
LEMMA RaisingIs ==
  ASSUME NEW c \in Call, \A d \in Call \ {c} : pc'[d] = pc[d]
  PROVE  /\ IsFiniteSet(Raising(pc)) /\ IsFiniteSet(Raising(pc'))
         /\ Cardinality(Raising(pc)) \in Nat /\ Cardinality(Raising(pc')) \in Nat
         /\ pc'[c] \in {"load", "save"} =>
              Cardinality(Raising(pc')) =
                IF pc[c] \in {"load", "save"} THEN Cardinality(Raising(pc)) ELSE Cardinality(Raising(pc)) + 1
         /\ pc'[c] \notin {"load", "save"} =>
              Cardinality(Raising(pc')) =
                IF pc[c] \in {"load", "save"} THEN Cardinality(Raising(pc)) - 1 ELSE Cardinality(Raising(pc))
<1>1. IsFiniteSet(Call)
  BY CallsFinite
<1>2. IsFiniteSet(Raising(pc)) /\ IsFiniteSet(Raising(pc'))
  BY <1>1, FS_Subset DEF Raising
<1>3. Cardinality(Raising(pc)) \in Nat /\ Cardinality(Raising(pc')) \in Nat
  BY <1>2, FS_CardinalityType
<1>4. CASE pc'[c] \in {"load", "save"}
  <2>1. Raising(pc') = Raising(pc) \cup {c}
    BY <1>4 DEF Raising
  <2>2. c \in Raising(pc) <=> pc[c] \in {"load", "save"}
    BY DEF Raising
  <2>3. Cardinality(Raising(pc) \cup {c}) =
          IF c \in Raising(pc) THEN Cardinality(Raising(pc)) ELSE Cardinality(Raising(pc)) + 1
    BY <1>2, FS_AddElement
  <2> QED
    BY <1>2, <1>3, <1>4, <2>1, <2>2, <2>3
<1>5. CASE pc'[c] \notin {"load", "save"}
  <2>1. Raising(pc') = Raising(pc) \ {c}
    BY <1>5 DEF Raising
  <2>2. c \in Raising(pc) <=> pc[c] \in {"load", "save"}
    BY DEF Raising
  <2>3. Cardinality(Raising(pc) \ {c}) =
          IF c \in Raising(pc) THEN Cardinality(Raising(pc)) - 1 ELSE Cardinality(Raising(pc))
    BY <1>2, FS_RemoveElement
  <2> QED
    BY <1>2, <1>3, <1>5, <2>1, <2>2, <2>3
<1> QED
  BY <1>2, <1>3, <1>4, <1>5

(* Calls that found no row of an item.                                     *)
LEMMA CreatorsAre ==
  ASSUME NEW c \in Call, \A d \in Call \ {c} : pc'[d] = pc[d] /\ local'[d] = local[d], NEW i
  PROVE  /\ IsFiniteSet(Creators(pc, local, i)) /\ Cardinality(Creators(pc, local, i)) \in Nat
         /\ pc[c] # "create" /\ pc'[c] # "create" => Creators(pc', local', i) = Creators(pc, local, i)
         /\ pc[c] = "create" /\ pc'[c] # "create" =>
              Creators(pc', local', i) = Creators(pc, local, i) \ {c}
         /\ pc[c] = "create" /\ ItemAt(local[c].todo) # i => c \notin Creators(pc, local, i)
         /\ pc[c] = "create" /\ ItemAt(local[c].todo) = i => c \in Creators(pc, local, i)
         /\ pc'[c] = "create" /\ ItemAt(local'[c].todo) # i /\ pc[c] # "create" =>
              Creators(pc', local', i) = Creators(pc, local, i)
         /\ Creators(pc', local', i) \subseteq Call /\ Creators(pc, local, i) \subseteq Call
<1>1. IsFiniteSet(Call)
  BY CallsFinite
<1>2. IsFiniteSet(Creators(pc, local, i)) /\ Cardinality(Creators(pc, local, i)) \in Nat
  BY <1>1, FS_Subset, FS_CardinalityType DEF Creators
<1>3. pc[c] # "create" /\ pc'[c] # "create" => Creators(pc', local', i) = Creators(pc, local, i)
  BY DEF Creators
<1>4. pc[c] = "create" /\ pc'[c] # "create" => Creators(pc', local', i) = Creators(pc, local, i) \ {c}
  BY DEF Creators
<1>5. pc'[c] = "create" /\ ItemAt(local'[c].todo) # i /\ pc[c] # "create" =>
        Creators(pc', local', i) = Creators(pc, local, i)
  BY DEF Creators
<1>6. /\ pc[c] = "create" /\ ItemAt(local[c].todo) # i => c \notin Creators(pc, local, i)
      /\ pc[c] = "create" /\ ItemAt(local[c].todo) = i => c \in Creators(pc, local, i)
      /\ Creators(pc', local', i) \subseteq Call /\ Creators(pc, local, i) \subseteq Call
  BY DEF Creators
<1> QED
  BY <1>2, <1>3, <1>4, <1>5, <1>6

-----------------------------------------------------------------------------
(* Steps that move a call and leave the log and the table alone.           *)

(* Of such a step, everything but the counters follows.                    *)
LEMMA CallMoves ==
  ASSUME CatalogInv, NEW c \in Call, NEW s \in A!Pc, NEW h \in A!Local,
         pc' = [pc EXCEPT ![c] = s], local' = [local EXCEPT ![c] = h],
         UNCHANGED <<log, applied, bump, catalog, paid, avito>>,
         CountsTyped(ops', raised', behind'),
         \A ad \in Ad : raised[ad] <= raised'[ad], behind \subseteq behind',
         loaded' \subseteq Call, \A d \in Call \ {c} : d \in loaded' => d \in loaded,
         Held(c, s, h, catalog, loaded'),
         s \in HoldsRow /\ catalog[h.row].of \in Ad =>
           Known(c, s, h, loaded', log, raised', behind', catalog[h.row].of),
         RaisesCounted', OpsBound(pc', raised', ops'), ItemsBounded(catalog', pc', local')
  PROVE  CatalogInv'
<1>0. /\ Typed /\ CallsHold /\ LogShape /\ RaisesCounted /\ AmountsKnown
      /\ RowsShow(catalog, log, applied) /\ BumpHolds(bump, log, applied, catalog, paid)
      /\ RowsCount(catalog, log, applied, paid)
  BY DEF CatalogInv
<1>1. /\ LogTyped(log) /\ applied \in 0..Len(log)
      /\ RowsTyped(catalog, paid) /\ BumpTyped(bump, Len(catalog))
      /\ AvitoTyped(avito) /\ CallsTyped(pc, local, loaded) /\ CountsTyped(ops, raised, behind)
  BY <1>0 DEF Typed
<1>2. /\ CallsTyped(pc', local', loaded') /\ pc'[c] = s /\ local'[c] = h
      /\ \A d \in Call \ {c} : pc'[d] = pc[d] /\ local'[d] = local[d]
  BY <1>1 DEF CallsTyped
<1>3. Typed'
  BY <1>1, <1>2 DEF Typed
<1>4. Len(catalog) \in Nat
  BY <1>1, LenProperties DEF RowsTyped
<1>5. Stay(catalog, catalog')
  BY <1>4 DEF Stay
<1>6. CallsHold'
  <2>1. \A d \in Call \ {c} : pc'[d] = pc[d] /\ local'[d] = local[d] /\ (d \in loaded' => d \in loaded)
    BY <1>2
  <2>2. catalog' = catalog
    OBVIOUS
  <2>3. \A d \in Call \cap {c} : Held(d, pc'[d], local'[d], catalog', loaded')
    BY <1>2, <2>2
  <2> QED
    BY <1>0, <1>5, <2>1, <2>3, HoldsOn
<1>7. raised \in [Ad -> Nat] /\ raised' \in [Ad -> Nat]
  BY <1>1, CatalogAssumption DEF CountsTyped, A!AdCatalogAssumption
<1>8. AmountsKnown'
  <2>1. \A d \in Call \ {c} : d \in loaded' =>
           LET x == catalog[local[d].row].of IN
           /\ pc[d] = "save" => PriceIn(log', x, Len(log')) = PriceIn(log, x, Len(log))
           /\ pc[d] = "archive" => (IsArchived(log', x, Len(log')) => IsArchived(log, x, Len(log)))
    OBVIOUS
  <2>2. \A d \in Call \ {c} : pc'[d] = pc[d] /\ local'[d] = local[d] /\ (d \in loaded' => d \in loaded)
    BY <1>2
  <2>3. \A d \in Call \cap {c} : pc'[d] \in HoldsRow /\ catalog'[local'[d].row].of \in Ad =>
          Known(d, pc'[d], local'[d], loaded', log', raised', behind', catalog'[local'[d].row].of)
    BY <1>2
  <2> QED
    BY <1>0, <1>5, <1>7, <2>1, <2>2, <2>3, AmountsOn
<1>9. LogShape'
  <2>1. WithinRaises(log, raised')
    <3> SUFFICES ASSUME NEW i \in 1..Len(log), log[i].what \in {"created", "price"}
                 PROVE  log[i].value <= 1 + raised'[log[i].of]
      BY DEF WithinRaises
    <3>1. log[i].value <= 1 + raised[log[i].of]
      BY <1>0 DEF LogShape, WithinRaises
    <3>2. log[i] \in A!Event
      BY <1>1, ElementOfSeq DEF LogTyped
    <3>3. log[i].of \in Ad /\ log[i].value \in Nat
      BY <3>2, EventsAre, CatalogAssumption DEF A!Price, A!AdCatalogAssumption
    <3> QED
      BY <1>7, <3>1, <3>3
  <2> QED
    BY <1>0, <2>1 DEF LogShape
<1>10. /\ RowsShow(catalog', log', applied') /\ BumpHolds(bump', log', applied', catalog', paid')
       /\ RowsCount(catalog', log', applied', paid')
  BY <1>0
<1> QED
  BY <1>3, <1>6, <1>8, <1>9, <1>10 DEF CatalogInv

(* Such a step that answers no raise, begins none unasked, inserts nothing.*)
LEMMA QuietMove ==
  ASSUME CatalogInv, NEW c \in Call, NEW s \in A!Pc, NEW h \in A!Local,
         pc' = [pc EXCEPT ![c] = s], local' = [local EXCEPT ![c] = h],
         UNCHANGED <<log, applied, bump, catalog, paid, avito, raised, behind>>,
         ops' \in 0..MaxOps, ops <= ops',
         s \in {"load", "save"} => pc[c] \in {"load", "save"} \/ ops' = ops + 1,
         s # "create" /\ pc[c] # "create",
         loaded' \subseteq Call, \A d \in Call \ {c} : d \in loaded' => d \in loaded,
         Held(c, s, h, catalog, loaded'),
         s \in HoldsRow /\ catalog[h.row].of \in Ad =>
           Known(c, s, h, loaded', log, raised, behind, catalog[h.row].of)
  PROVE  CatalogInv'
<1>1. /\ CallsTyped(pc, local, loaded) /\ CountsTyped(ops, raised, behind)
      /\ OpsBound(pc, raised, ops) /\ ItemsBounded(catalog, pc, local) /\ RaisesCounted
  BY DEF CatalogInv, Typed
<1>2. /\ pc'[c] = s /\ local'[c] = h
      /\ \A d \in Call \ {c} : pc'[d] = pc[d] /\ local'[d] = local[d]
  BY <1>1 DEF CallsTyped
<1>3. CountsTyped(ops', raised', behind') /\ \A ad \in Ad : raised[ad] <= raised'[ad]
  BY <1>1, CatalogAssumption DEF CountsTyped, A!AdCatalogAssumption
<1>4. RaisesCounted'
  BY <1>1 DEF RaisesCounted
<1>5. OpsBound(pc', raised', ops')
  <2> SUFFICES ASSUME NEW ad \in Ad PROVE raised[ad] + Cardinality(Raising(pc')) <= ops'
    BY DEF OpsBound
  <2>1. raised[ad] + Cardinality(Raising(pc)) <= ops /\ raised[ad] \in Int /\ ops \in Int /\ ops' \in Int
    BY <1>1, CatalogAssumption DEF OpsBound, CountsTyped, A!AdCatalogAssumption
  <2>2. /\ Cardinality(Raising(pc)) \in Nat /\ Cardinality(Raising(pc')) \in Nat
        /\ s \in {"load", "save"} =>
              Cardinality(Raising(pc')) =
                IF pc[c] \in {"load", "save"} THEN Cardinality(Raising(pc)) ELSE Cardinality(Raising(pc)) + 1
        /\ s \notin {"load", "save"} =>
              Cardinality(Raising(pc')) =
                IF pc[c] \in {"load", "save"} THEN Cardinality(Raising(pc)) - 1 ELSE Cardinality(Raising(pc))
    BY <1>2, RaisingIs
  <2> QED
    BY <2>1, <2>2
<1>6. ItemsBounded(catalog', pc', local')
  <2>1. \A i : Creators(pc', local', i) = Creators(pc, local, i)
    BY <1>2, CreatorsAre
  <2> QED
    BY <1>1, <2>1 DEF ItemsBounded
<1> QED
  BY <1>3, <1>4, <1>5, <1>6, CallMoves

(* What a step needs of the types.                                         *)
LEMMA CallOf ==
  ASSUME CatalogInv, NEW c \in Call
  PROVE  /\ pc[c] \in A!Pc /\ local[c] \in A!Local
         /\ local[c].row \in Nat /\ local[c].amount \in Nat
         /\ local[c].seen \in [Item -> A!Price] /\ local[c].todo \subseteq Item
         /\ loaded \subseteq Call /\ ops \in 0..MaxOps /\ MaxOps \in Nat
         /\ Held(c, pc[c], local[c], catalog, loaded)
<1>1. pc[c] \in A!Pc /\ local[c] \in A!Local /\ loaded \subseteq Call
  BY DEF CatalogInv, Typed, CallsTyped
<1>2. /\ local[c].row \in Nat /\ local[c].amount \in Nat
      /\ local[c].seen \in [Item -> A!Price] /\ local[c].todo \subseteq Item
  BY <1>1 DEF A!Local
<1>3. ops \in 0..MaxOps /\ MaxOps \in Nat
  BY CatalogAssumption DEF CatalogInv, Typed, CountsTyped, A!AdCatalogAssumption
<1>4. Held(c, pc[c], local[c], catalog, loaded)
  BY DEF CatalogInv, CallsHold
<1> QED
  BY <1>1, <1>2, <1>3, <1>4

(* What a step needs of a row.                                             *)
LEMMA RowOf ==
  ASSUME CatalogInv, NEW r \in 1..Len(catalog)
  PROVE  /\ Len(catalog) \in Nat /\ catalog[r] \in A!Row
         /\ catalog[r].of \in Ad \cup Item /\ catalog[r].price \in A!Price /\ catalog[r].price \in Nat
         /\ catalog[r].messages \in Nat /\ catalog[r].spend \in Nat
         /\ paid[r] \in [added : Nat, under : Nat] /\ DOMAIN catalog = 1..Len(catalog)
<1>1. catalog \in Seq(A!Row) /\ paid \in Seq([added : Nat, under : Nat]) /\ Len(paid) = Len(catalog)
  BY DEF CatalogInv, Typed, RowsTyped
<1>2. catalog[r] \in A!Row /\ Len(catalog) \in Nat /\ DOMAIN catalog = 1..Len(catalog)
  BY <1>1, ElementOfSeq, LenProperties
<1>3. paid[r] \in [added : Nat, under : Nat]
  BY <1>1, ElementOfSeq
<1>4. A!Price \subseteq Nat
  BY CatalogAssumption DEF A!Price, A!AdCatalogAssumption
<1> QED
  BY <1>2, <1>3, <1>4 DEF A!Row

(* The price a row shows is within the raises that were answered.          *)
LEMMA ShownPrice ==
  ASSUME CatalogInv, NEW r \in 1..Len(catalog), catalog[r].of \in Ad
  PROVE  /\ catalog[r].price \in 1..(1 + raised[catalog[r].of])
         /\ IsCreated(log, catalog[r].of, Len(log))
         /\ raised[catalog[r].of] \in Nat
<1> DEFINE ad == catalog[r].of
<1>1. /\ LogTyped(log) /\ applied \in 0..Len(log) /\ WithinRaises(log, raised)
      /\ Shows(catalog[r], log, applied) /\ CountsTyped(ops, raised, behind)
  BY DEF CatalogInv, Typed, LogShape, RowsShow
<1>2. IsCreated(log, ad, applied) /\ catalog[r].price = PriceIn(log, ad, applied)
  BY <1>1 DEF Shows
<1>3. Len(log) \in Nat /\ applied \in Nat
  BY <1>1, LenProperties DEF LogTyped
<1>4. PICK i \in 1..applied : /\ log[i].what \in {"created", "price"} /\ log[i].of = ad
                              /\ PriceIn(log, ad, applied) = log[i].value
  BY <1>2, <1>3, PriceIsTold
<1>5. i \in 1..Len(log)
  BY <1>1, <1>3
<1>6. log[i].value <= 1 + raised[ad]
  BY <1>1, <1>4, <1>5 DEF WithinRaises
<1>7. raised[ad] \in Nat
  BY <1>1, CatalogAssumption DEF CountsTyped, A!AdCatalogAssumption
<1>8. catalog[r].price \in Nat \ {0}
  BY RowOf, CatalogAssumption DEF A!Price, A!AdCatalogAssumption
<1>9. IsCreated(log, ad, Len(log))
  BY <1>1, <1>2, <1>3, ReadsOn
<1> QED
  BY <1>2, <1>4, <1>6, <1>7, <1>8, <1>9

(* Bulk price_change reads the row.                                        *)
LEMMA ReadRowStep == ASSUME CatalogInv, NEW c \in Call, A!ReadRow(c) PROVE CatalogInv'
<1>1. PICK r \in 1..Len(catalog) : A!Goto(c, "load", [local[c] EXCEPT !.row = r, !.amount = catalog[r].price + 1])
  <2>1. catalog \in Seq(A!Row)
    BY DEF CatalogInv, Typed, RowsTyped
  <2>2. DOMAIN catalog = 1..Len(catalog)
    BY <2>1, LenProperties
  <2> QED
    BY <2>2 DEF A!ReadRow
<1> DEFINE h == [local[c] EXCEPT !.row = r, !.amount = catalog[r].price + 1]
<1>2. /\ pc[c] = "idle" /\ ops < MaxOps /\ ops' = ops + 1
      /\ UNCHANGED <<log, applied, bump, catalog, paid, avito, loaded, raised, behind>>
      /\ pc' = [pc EXCEPT ![c] = "load"] /\ local' = [local EXCEPT ![c] = h]
  BY <1>1 DEF A!ReadRow, A!Ask, A!Goto
<1>3. h \in A!Local /\ h.row = r /\ h.amount = catalog[r].price + 1
  <2>1. local[c] \in A!Local /\ catalog[r].price + 1 \in Nat
    BY CallOf, RowOf
  <2>2. r \in Nat
    OBVIOUS
  <2> QED
    BY <2>1, <2>2 DEF A!Local
<1>4. "load" \in A!Pc
  BY DEF A!Pc
<1>5. c \notin loaded
  BY <1>2, CallOf DEF Held
<1>6. Held(c, "load", h, catalog, loaded)
  BY <1>3, <1>5 DEF Held, HoldsItem
<1>7. catalog[r].of \in Ad => Known(c, "load", h, loaded, log, raised, behind, catalog[r].of)
  BY <1>3, <1>5, ShownPrice DEF Known
<1>8. ops' \in 0..MaxOps /\ ops <= ops' /\ loaded \subseteq Call
  BY <1>2, CallOf
<1> HIDE DEF h
<1> QED
  BY <1>2, <1>3, <1>4, <1>6, <1>7, <1>8, QuietMove

(* A call that is done holds nothing.                                      *)
LEMMA DoneHolds ==
  ASSUME CatalogInv, NEW c \in Call, A!Done(c)
  PROVE  \E h \in A!Local :
           /\ pc' = [pc EXCEPT ![c] = "idle"] /\ local' = [local EXCEPT ![c] = h]
           /\ "idle" \in A!Pc /\ "idle" \notin HoldsRow \cup {"load", "save", "create"}
           /\ \A cat, ld : c \notin ld => Held(c, "idle", h, cat, ld)
<1> DEFINE h == [local[c] EXCEPT !.row = 0, !.amount = 0]
<1>1. h \in A!Local
  <2>1. local[c] \in A!Local
    BY CallOf
  <2> QED
    BY <2>1 DEF A!Local
<1>2. pc' = [pc EXCEPT ![c] = "idle"] /\ local' = [local EXCEPT ![c] = h]
  BY DEF A!Done, A!Goto
<1>3. "idle" \in A!Pc /\ "idle" \notin HoldsRow \cup {"load", "save", "create"}
  BY DEF A!Pc, HoldsRow
<1> HIDE DEF h
<1>4. \A cat, ld : c \notin ld => Held(c, "idle", h, cat, ld)
  BY DEF Held, HoldsRow, HoldsItem
<1> QED
  BY <1>1, <1>2, <1>3, <1>4

(* A call ends without a word.                                             *)
LEMMA GivesUp ==
  ASSUME CatalogInv, NEW c \in Call, A!Done(c), c \notin loaded, pc[c] # "create",
         UNCHANGED <<log, applied, bump, catalog, paid, avito, loaded, ops, raised, behind>>
  PROVE  CatalogInv'
<1>1. PICK h \in A!Local :
           /\ pc' = [pc EXCEPT ![c] = "idle"] /\ local' = [local EXCEPT ![c] = h]
           /\ "idle" \in A!Pc /\ "idle" \notin HoldsRow \cup {"load", "save", "create"}
           /\ \A cat, ld : c \notin ld => Held(c, "idle", h, cat, ld)
  BY DoneHolds
<1>2. ops' \in 0..MaxOps /\ ops <= ops' /\ loaded' \subseteq Call
  BY CallOf
<1>3. Held(c, "idle", h, catalog, loaded')
  BY <1>1
<1> QED
  BY <1>1, <1>2, <1>3, QuietMove

(* loadOrThrow.                                                            *)
LEMMA LoadMissingStep == ASSUME CatalogInv, NEW c \in Call, A!LoadMissing(c) PROVE CatalogInv'
<1>1. /\ pc[c] \in {"load", "loadArchive"} /\ A!Done(c)
      /\ UNCHANGED <<log, applied, bump, catalog, paid, avito, loaded, ops, raised, behind>>
  BY DEF A!LoadMissing, A!count
<1>2. c \notin loaded
  BY <1>1, CallOf DEF Held
<1> QED
  BY <1>1, <1>2, GivesUp

(* A save that comes too late.                                             *)
LEMMA ConflictStep == ASSUME CatalogInv, NEW c \in Call, A!Conflict(c) PROVE CatalogInv'
<1>1. /\ pc[c] \in {"save", "archive"} /\ A!Done(c) /\ c \notin loaded
      /\ UNCHANGED <<log, applied, bump, catalog, paid, avito, loaded, ops, raised, behind>>
  BY DEF A!Conflict, A!count
<1> QED
  BY <1>1, GivesUp

(* Archive and ImportSpend take a row, and nothing of what it says.        *)
LEMMA TakesRow ==
  ASSUME CatalogInv, NEW c \in Call, NEW s \in {"loadArchive", "add"}, NEW r \in 1..Len(catalog),
         A!Goto(c, s, [local[c] EXCEPT !.row = r]), pc[c] = "idle", A!Ask,
         UNCHANGED <<log, applied, bump, catalog, paid, avito, loaded, raised, behind>>
  PROVE  CatalogInv'
<1> DEFINE h == [local[c] EXCEPT !.row = r]
<1>1. /\ ops < MaxOps /\ ops' = ops + 1
      /\ pc' = [pc EXCEPT ![c] = s] /\ local' = [local EXCEPT ![c] = h]
  BY DEF A!Ask, A!Goto
<1>2. h \in A!Local /\ h.row = r
  <2>1. local[c] \in A!Local
    BY CallOf
  <2> QED
    BY <2>1 DEF A!Local
<1>3. s \in A!Pc
  BY DEF A!Pc
<1>4. c \notin loaded
  BY CallOf DEF Held
<1> HIDE DEF h
<1>5. Held(c, s, h, catalog, loaded)
  BY <1>2, <1>4 DEF Held, HoldsItem
<1>6. Known(c, s, h, loaded, log, raised, behind, catalog[h.row].of)
  BY <1>4 DEF Known
<1>7. ops' \in 0..MaxOps /\ ops <= ops' /\ loaded \subseteq Call
  BY <1>1, CallOf
<1> QED
  BY <1>1, <1>2, <1>3, <1>5, <1>6, <1>7, QuietMove

(* Rows are numbered from one.                                             *)
LEMMA RowsAre == ASSUME CatalogInv PROVE DOMAIN catalog = 1..Len(catalog)
<1>1. catalog \in Seq(A!Row)
  BY DEF CatalogInv, Typed, RowsTyped
<1> QED
  BY <1>1, LenProperties

(* A request to archive.                                                   *)
LEMMA ArchiveStep == ASSUME CatalogInv, NEW c \in Call, A!Archive(c) PROVE CatalogInv'
<1>1. PICK r \in 1..Len(catalog) : A!Goto(c, "loadArchive", [local[c] EXCEPT !.row = r])
  BY RowsAre DEF A!Archive
<1> QED
  BY <1>1, TakesRow DEF A!Archive

(* A request to import spend.                                              *)
LEMMA ImportSpendStep == ASSUME CatalogInv, NEW c \in Call, A!ImportSpend(c) PROVE CatalogInv'
<1>1. PICK r \in 1..Len(catalog) : A!Goto(c, "add", [local[c] EXCEPT !.row = r])
  BY RowsAre DEF A!ImportSpend
<1> QED
  BY <1>1, TakesRow DEF A!ImportSpend

(* AdAggregate.archive, loaded.                                            *)
LEMMA LoadArchiveStep == ASSUME CatalogInv, NEW c \in Call, A!LoadArchive(c) PROVE CatalogInv'
<1> DEFINE ad == catalog[local[c].row].of
<1>1. /\ pc[c] = "loadArchive" /\ ad \in Ad
      /\ UNCHANGED <<log, applied, bump, catalog, paid, avito, ops, raised, behind>>
  BY DEF A!LoadArchive, A!count
<1>2. CASE A!Archived(ad, Len(log))
  <2>1. A!Done(c) /\ loaded' = loaded
    BY <1>2 DEF A!LoadArchive
  <2>2. c \notin loaded
    BY <1>1, CallOf DEF Held
  <2> QED
    BY <1>1, <2>1, <2>2, GivesUp
<1>3. CASE ~A!Archived(ad, Len(log))
  <2>1. /\ pc' = [pc EXCEPT ![c] = "archive"] /\ local' = [local EXCEPT ![c] = local[c]]
        /\ loaded' = loaded \cup {c}
    BY <1>3 DEF A!LoadArchive, A!Goto
  <2>2. "archive" \in A!Pc /\ local[c] \in A!Local
    BY CallOf DEF A!Pc
  <2>3. Held(c, "archive", local[c], catalog, loaded')
    BY <1>1, CallOf DEF Held, HoldsRow, HoldsItem
  <2>4. ~IsArchived(log, ad, Len(log))
    BY <1>3, ReadsAs
  <2>5. Known(c, "archive", local[c], loaded', log, raised, behind, ad)
    BY <2>4 DEF Known
  <2>6. ops' \in 0..MaxOps /\ ops <= ops' /\ loaded' \subseteq Call
    BY <1>1, <2>1, CallOf
  <2> QED
    BY <1>1, <2>1, <2>2, <2>3, <2>5, <2>6, QuietMove
<1> QED
  BY <1>2, <1>3

(* A raise is answered: it is no longer under way.                         *)
LEMMA RaisedOnce ==
  ASSUME CatalogInv, NEW c \in Call, pc[c] \in {"load", "save"}, NEW ad \in Ad,
         pc'[c] \notin {"load", "save"}, \A d \in Call \ {c} : pc'[d] = pc[d],
         raised' = [raised EXCEPT ![ad] = @ + 1], ops' = ops, behind' \subseteq Ad
  PROVE  /\ CountsTyped(ops', raised', behind') /\ OpsBound(pc', raised', ops')
         /\ raised \in [Ad -> Nat] /\ raised' \in [Ad -> Nat]
         /\ raised'[ad] = raised[ad] + 1 /\ raised'[ad] <= MaxOps
         /\ \A x \in Ad \ {ad} : raised'[x] = raised[x]
         /\ \A x \in Ad : raised[x] <= raised'[x]
<1>1. /\ ops \in 0..MaxOps /\ MaxOps \in Nat /\ raised \in [Ad -> 0..MaxOps]
      /\ \A x \in Ad : raised[x] + Cardinality(Raising(pc)) <= ops
  BY CatalogAssumption DEF CatalogInv, Typed, CountsTyped, OpsBound, A!AdCatalogAssumption
<1>2. /\ Cardinality(Raising(pc)) \in Nat /\ Cardinality(Raising(pc')) \in Nat
      /\ Cardinality(Raising(pc')) = Cardinality(Raising(pc)) - 1
  BY RaisingIs
<1>3. \A x \in Ad : raised[x] \in Nat /\ raised[x] + 1 <= ops
  BY <1>1, <1>2
<1>4. raised'[ad] = raised[ad] + 1 /\ \A x \in Ad \ {ad} : raised'[x] = raised[x]
  BY <1>1
<1>5. raised' \in [Ad -> 0..MaxOps]
  <2>1. raised[ad] + 1 \in 0..MaxOps
    BY <1>1, <1>3
  <2> QED
    BY <1>1, <2>1
<1>6. OpsBound(pc', raised', ops')
  <2> SUFFICES ASSUME NEW x \in Ad PROVE raised'[x] + Cardinality(Raising(pc')) <= ops
    BY DEF OpsBound
  <2>1. raised'[x] = raised[x] \/ raised'[x] = raised[x] + 1
    BY <1>4
  <2> QED
    BY <1>1, <1>2, <1>3, <2>1
<1>7. \A x \in Ad : raised[x] <= raised'[x]
  <2> SUFFICES ASSUME NEW x \in Ad PROVE raised[x] <= raised'[x]
    OBVIOUS
  <2>1. raised'[x] = raised[x] \/ raised'[x] = raised[x] + 1
    BY <1>4
  <2> QED
    BY <1>3, <2>1
<1>8. raised \in [Ad -> Nat] /\ raised' \in [Ad -> Nat]
  BY <1>1, <1>5
<1>9. raised'[ad] <= MaxOps
  BY <1>1, <1>5
<1> QED
  BY <1>1, <1>4, <1>5, <1>6, <1>7, <1>8, <1>9 DEF CountsTyped

(* AdAggregate.changePrice, loaded: the same price is answered at once.    *)
LEMMA LoadStep == ASSUME CatalogInv, NEW c \in Call, A!Load(c) PROVE CatalogInv'
<1> DEFINE ad == catalog[local[c].row].of
           price == PriceIn(log, ad, Len(log))
<1>1. /\ pc[c] = "load" /\ ad \in Ad
      /\ UNCHANGED <<log, applied, bump, catalog, paid, avito, ops>>
  BY DEF A!Load
<1>2. A!Priced(ad, Len(log)) = price
  BY ReadsAs
<1>3. behind' = IF local[c].amount = price + 1 THEN behind ELSE behind \cup {ad}
  BY <1>2 DEF A!Load
<1>4. behind \subseteq behind' /\ behind' \subseteq Ad
  BY <1>1, <1>3 DEF CatalogInv, Typed, CountsTyped
<1>5. local[c].row \in 1..Len(catalog) /\ c \notin loaded
  BY <1>1, CallOf DEF Held, HoldsRow
<1>6. Known(c, pc[c], local[c], loaded, log, raised, behind, ad)
  BY <1>1 DEF CatalogInv, AmountsKnown, HoldsRow
<1>7. IsCreated(log, ad, Len(log))
  BY <1>1, <1>5, ShownPrice
<1>8. RaisesCounted /\ ItemsBounded(catalog, pc, local) /\ CallsTyped(pc, local, loaded)
      /\ CountsTyped(ops, raised, behind) /\ OpsBound(pc, raised, ops)
  BY DEF CatalogInv, Typed
<1> HIDE DEF ad, price
<1>9. CASE local[c].amount = price
  <2>1. A!Done(c) /\ raised' = [raised EXCEPT ![ad] = @ + 1] /\ loaded' = loaded
    BY <1>2, <1>9 DEF A!Load, ad
  <2>2. PICK h \in A!Local :
           /\ pc' = [pc EXCEPT ![c] = "idle"] /\ local' = [local EXCEPT ![c] = h]
           /\ "idle" \in A!Pc /\ "idle" \notin HoldsRow \cup {"load", "save", "create"}
           /\ \A cat, ld : c \notin ld => Held(c, "idle", h, cat, ld)
    BY <2>1, DoneHolds
  <2>3. /\ pc'[c] = "idle" /\ local'[c] = h
        /\ \A d \in Call \ {c} : pc'[d] = pc[d] /\ local'[d] = local[d]
    BY <1>8, <2>2 DEF CallsTyped
  <2>4. /\ CountsTyped(ops', raised', behind') /\ OpsBound(pc', raised', ops')
        /\ raised \in [Ad -> Nat] /\ raised' \in [Ad -> Nat]
        /\ raised'[ad] = raised[ad] + 1
        /\ \A x \in Ad \ {ad} : raised'[x] = raised[x]
        /\ \A x \in Ad : raised[x] <= raised'[x]
    BY <1>1, <1>4, <2>1, <2>3, RaisedOnce
  <2>5. ad \in behind'
    <3>1. local[c].amount \in Int
      BY CallOf
    <3>2. local[c].amount # price + 1
      BY <1>9, <3>1
    <3> QED
      BY <1>3, <3>2
  <2>6. RaisesCounted'
    <3> SUFFICES ASSUME NEW x \in Ad PROVE Counted(log', raised', behind', x)
      BY DEF RaisesCounted
    <3>1. Counted(log, raised, behind, x)
      BY <1>8 DEF RaisesCounted
    <3>2. CASE x = ad
      BY <1>1, <1>7, <2>5, <3>2 DEF Counted
    <3>3. CASE x # ad
      BY <1>1, <1>4, <2>4, <3>1, <3>3 DEF Counted
    <3> QED
      BY <3>2, <3>3
  <2>7. ItemsBounded(catalog', pc', local')
    <3>1. \A i : Creators(pc', local', i) = Creators(pc, local, i)
      BY <1>1, <2>3, CreatorsAre
    <3> QED
      BY <1>1, <1>8, <3>1 DEF ItemsBounded
  <2>8. loaded' \subseteq Call /\ Held(c, "idle", h, catalog, loaded')
    BY <2>1, <2>2, <1>5, CallOf
  <2> QED
    BY <1>1, <1>4, <2>1, <2>2, <2>4, <2>6, <2>7, <2>8, CallMoves
<1>10. CASE local[c].amount # price
  <2>1. /\ pc' = [pc EXCEPT ![c] = "save"] /\ local' = [local EXCEPT ![c] = local[c]]
        /\ loaded' = loaded \cup {c} /\ raised' = raised
    BY <1>2, <1>10 DEF A!Load, A!Goto, ad
  <2>2. "save" \in A!Pc /\ local[c] \in A!Local /\ loaded' \subseteq Call
    BY <2>1, CallOf DEF A!Pc
  <2>3. /\ pc'[c] = "save" /\ local'[c] = local[c]
        /\ \A d \in Call \ {c} : pc'[d] = pc[d] /\ local'[d] = local[d]
    BY <2>1, <2>2, <1>8, MovesOne
  <2>4. CountsTyped(ops', raised', behind') /\ \A x \in Ad : raised[x] <= raised'[x]
    BY <1>1, <1>4, <1>8, <2>1, CatalogAssumption DEF CountsTyped, A!AdCatalogAssumption
  <2>5. Held(c, "save", local[c], catalog, loaded')
    BY <1>1, <1>5 DEF Held, HoldsRow, HoldsItem, ad
  <2>6. Known(c, "save", local[c], loaded', log, raised', behind', ad)
    BY <1>1, <1>3, <1>6, <2>1 DEF Known, price
  <2>7. RaisesCounted'
    <3> SUFFICES ASSUME NEW x \in Ad PROVE Counted(log', raised', behind', x)
      BY DEF RaisesCounted
    <3>1. Counted(log, raised, behind, x)
      BY <1>8 DEF RaisesCounted
    <3> QED
      BY <1>1, <1>4, <2>1, <3>1 DEF Counted
  <2>8. OpsBound(pc', raised', ops')
    <3>1. Raising(pc') = Raising(pc)
      BY <1>1, <2>3 DEF Raising
    <3> QED
      BY <1>1, <1>8, <2>1, <3>1 DEF OpsBound
  <2>9. ItemsBounded(catalog', pc', local')
    <3>1. \A i : Creators(pc', local', i) = Creators(pc, local, i)
      BY <1>1, <2>3, CreatorsAre
    <3> QED
      BY <1>1, <1>8, <3>1 DEF ItemsBounded
  <2>10. catalog[local[c].row].of = ad
    BY DEF ad
  <2> QED
    BY <1>1, <1>4, <2>1, <2>2, <2>4, <2>5, <2>6, <2>7, <2>8, <2>9, <2>10, CallMoves
<1> QED
  BY <1>9, <1>10

(* Listing the account, and looking for a row of the next item.            *)
LEMMA ListItemsStep == ASSUME CatalogInv, NEW c \in Call, A!ListItems(c) PROVE CatalogInv'
<1> DEFINE h == [local[c] EXCEPT !.seen = avito, !.todo = Item]
<1>1. /\ pc[c] = "idle" /\ Item # {}
      /\ UNCHANGED <<log, applied, bump, catalog, paid, avito, loaded, ops, raised, behind>>
      /\ pc' = [pc EXCEPT ![c] = "find"] /\ local' = [local EXCEPT ![c] = h]
  BY DEF A!ListItems, A!Goto, A!count
<1>2. h \in A!Local /\ h.todo = Item
  <2>1. local[c] \in A!Local
    BY CallOf
  <2>2. avito \in [Item -> A!Price]
    BY DEF CatalogInv, Typed, AvitoTyped
  <2> QED
    BY <2>1, <2>2 DEF A!Local
<1>3. "find" \in A!Pc /\ "find" \notin HoldsRow
  BY DEF A!Pc, HoldsRow
<1>4. c \notin loaded
  BY <1>1, CallOf DEF Held
<1> HIDE DEF h
<1>5. Held(c, "find", h, catalog, loaded)
  BY <1>1, <1>2, <1>3, <1>4 DEF Held
<1>6. ops' \in 0..MaxOps /\ ops <= ops' /\ loaded \subseteq Call
  BY <1>1, CallOf
<1> QED
  BY <1>1, <1>2, <1>3, <1>5, <1>6, QuietMove

(* syncItems looks for a row of the item.                                  *)
LEMMA FindItemStep == ASSUME CatalogInv, NEW c \in Call, A!FindItem(c) PROVE CatalogInv'
<1> DEFINE item == ItemAt(local[c].todo)
<1>1. /\ pc[c] = "find"
      /\ UNCHANGED <<log, applied, bump, catalog, paid, avito, loaded, ops, raised, behind>>
  BY DEF A!FindItem, A!count
<1>2. A!At(c) = item /\ A!RowsOf(item) = RowsIn(catalog, item)
  BY RowsAre DEF A!At, ItemAt, A!RowsOf, RowsIn
<1>3. c \notin loaded /\ local[c].todo # {}
  BY <1>1, CallOf DEF Held, HoldsItem
<1>4. /\ ops' \in 0..MaxOps /\ ops <= ops' /\ loaded' \subseteq Call
      /\ CountsTyped(ops', raised', behind') /\ \A ad \in Ad : raised[ad] <= raised'[ad]
      /\ behind \subseteq behind'
  BY <1>1, CallOf, CatalogAssumption DEF CatalogInv, Typed, CountsTyped, A!AdCatalogAssumption
<1>5. /\ CallsTyped(pc, local, loaded) /\ RaisesCounted /\ OpsBound(pc, raised, ops)
      /\ ItemsBounded(catalog, pc, local)
  BY DEF CatalogInv, Typed
<1>6. CASE \E r \in RowsIn(catalog, item) : A!Goto(c, "update", [local[c] EXCEPT !.row = r])
  <2>1. PICK r \in RowsIn(catalog, item) : A!Goto(c, "update", [local[c] EXCEPT !.row = r])
    BY <1>6
  <2> DEFINE h == [local[c] EXCEPT !.row = r]
  <2>2. r \in 1..Len(catalog) /\ catalog[r].of = item
    BY DEF RowsIn
  <2>3. pc' = [pc EXCEPT ![c] = "update"] /\ local' = [local EXCEPT ![c] = h]
    BY <2>1 DEF A!Goto
  <2>4. h \in A!Local /\ h.row = r /\ h.todo = local[c].todo
    <3>1. local[c] \in A!Local /\ r \in Nat
      BY <2>2, CallOf
    <3> QED
      BY <3>1 DEF A!Local
  <2>5. "update" \in A!Pc
    BY DEF A!Pc
  <2> HIDE DEF h
  <2>6. Held(c, "update", h, catalog, loaded)
    BY <1>3, <2>2, <2>4 DEF Held
  <2>7. Known(c, "update", h, loaded, log, raised, behind, catalog[h.row].of)
    BY DEF Known
  <2> QED
    BY <1>1, <1>4, <2>3, <2>4, <2>5, <2>6, <2>7, QuietMove
<1>7. CASE RowsIn(catalog, item) = {} /\ A!Goto(c, "create", local[c])
  <2>1. pc' = [pc EXCEPT ![c] = "create"] /\ local' = [local EXCEPT ![c] = local[c]]
    BY <1>7 DEF A!Goto
  <2>2. "create" \in A!Pc /\ "create" \notin HoldsRow /\ local[c] \in A!Local
    BY CallOf DEF A!Pc, HoldsRow
  <2>3. Held(c, "create", local[c], catalog, loaded')
    BY <1>1, <1>3, <2>2 DEF Held
  <2>4. /\ pc'[c] = "create" /\ local'[c] = local[c]
        /\ \A d \in Call \ {c} : pc'[d] = pc[d] /\ local'[d] = local[d]
    BY <1>4, <1>5, <2>1, <2>2, MovesOne
  <2>5. RaisesCounted'
    BY <1>1, <1>5 DEF RaisesCounted
  <2>6. OpsBound(pc', raised', ops')
    <3>1. Raising(pc') = Raising(pc)
      BY <1>1, <2>4 DEF Raising
    <3> QED
      BY <1>1, <1>5, <3>1 DEF OpsBound
  <2>7. ItemsBounded(catalog', pc', local')
    <3> SUFFICES ASSUME NEW i \in Item
                 PROVE  Cardinality(RowsIn(catalog, i)) + Cardinality(Creators(pc', local', i)) <= Cardinality(Call)
      BY <1>1 DEF ItemsBounded
    <3>1. CASE i = item
      <4>1. Creators(pc', local', i) \subseteq Call
        BY DEF Creators
      <4>2. /\ IsFiniteSet(Creators(pc', local', i))
            /\ Cardinality(Creators(pc', local', i)) <= Cardinality(Call)
        BY <4>1, CallsFinite, FS_Subset
      <4>3. Cardinality(RowsIn(catalog, i)) = 0
        BY <1>7, <3>1, FS_EmptySet
      <4>4. Cardinality(Creators(pc', local', i)) \in Nat
        BY <4>2, FS_CardinalityType
      <4> QED
        BY <4>2, <4>3, <4>4
    <3>2. CASE i # item
      <4>1. Creators(pc', local', i) = Creators(pc, local, i)
        BY <1>1, <2>4, <3>2, CreatorsAre
      <4> QED
        BY <1>5, <4>1 DEF ItemsBounded
    <3> QED
      BY <3>1, <3>2
  <2>8. \A d \in Call \ {c} : d \in loaded' => d \in loaded
    BY <1>1
  <2> QED
    BY <1>1, <1>4, <2>1, <2>2, <2>3, <2>5, <2>6, <2>7, <2>8, CallMoves
<1> QED
  BY <1>2, <1>6, <1>7 DEF A!FindItem

-----------------------------------------------------------------------------
(* Steps that tell the log an event.                                       *)

(* An event that fits, and what is left to show of its step.               *)
LEMMA TellStep ==
  ASSUME CatalogInv, NEW e, Grown(log, e, log'),
         UNCHANGED <<applied, bump, catalog, paid, avito>>,
         CallsTyped(pc', local', loaded'), CountsTyped(ops', raised', behind'),
         \A ad \in Ad : raised[ad] <= raised'[ad],
         Fits(e, log, Len(catalog), raised'),
         CallsHold', AmountsKnown', RaisesCounted', OpsBound(pc', raised', ops'),
         ItemsBounded(catalog', pc', local')
  PROVE  CatalogInv'
<1>1. /\ LogTyped(log) /\ applied \in 0..Len(log) /\ RowsTyped(catalog, paid)
      /\ BumpTyped(bump, Len(catalog)) /\ AvitoTyped(avito) /\ CountsTyped(ops, raised, behind)
      /\ Preceded(log) /\ ToldOnce(log) /\ AboutRows(log, Len(catalog)) /\ WithinRaises(log, raised)
      /\ RowsShow(catalog, log, applied) /\ BumpHolds(bump, log, applied, catalog, paid)
      /\ RowsCount(catalog, log, applied, paid)
  BY DEF CatalogInv, Typed, LogShape
<1>2. LogTyped(log') /\ Len(log) \in Nat /\ Len(log') = Len(log) + 1
  BY Grows
<1>3. applied' \in 0..Len(log')
  BY <1>1, <1>2
<1>4. Typed'
  BY <1>1, <1>2, <1>3 DEF Typed
<1>5. raised \in [Ad -> Nat] /\ raised' \in [Ad -> Nat]
  BY <1>1, CatalogAssumption DEF CountsTyped, A!AdCatalogAssumption
<1>6. Preceded(log') /\ ToldOnce(log') /\ AboutRows(log', Len(catalog)) /\ WithinRaises(log', raised')
  BY <1>1, <1>5, ShapeGrows
<1>7. LogShape'
  BY <1>6 DEF LogShape
<1>8. /\ RowsShow(catalog, log', applied) /\ BumpHolds(bump, log', applied, catalog, paid)
      /\ RowsCount(catalog, log', applied, paid)
  BY <1>1, RowsAbide
<1> QED
  BY <1>4, <1>7, <1>8 DEF CatalogInv

(* One that moves no call: neither CreateAd nor Message concerns an ad     *)
(* that has a row.                                                         *)
LEMMA OutsideTells ==
  ASSUME CatalogInv, NEW e, Grown(log, e, log'),
         UNCHANGED <<applied, bump, catalog, paid, avito, pc, local, loaded, ops, raised, behind>>,
         Fits(e, log, Len(catalog), raised), e.what \in {"created", "message"},
         e.what = "created" => e.value = 1
  PROVE  CatalogInv'
<1>1. /\ CallsTyped(pc, local, loaded) /\ CountsTyped(ops, raised, behind) /\ RowsTyped(catalog, paid)
      /\ CallsHold /\ AmountsKnown /\ RaisesCounted /\ OpsBound(pc, raised, ops)
      /\ ItemsBounded(catalog, pc, local)
  BY DEF CatalogInv, Typed
<1>2. raised \in [Ad -> Nat] /\ raised' \in [Ad -> Nat] /\ \A ad \in Ad : raised[ad] <= raised'[ad]
  BY <1>1, CatalogAssumption DEF CountsTyped, A!AdCatalogAssumption
<1>3. Stay(catalog, catalog')
  BY <1>1, LenProperties DEF Stay, RowsTyped
<1>4. CallsHold'
  BY <1>1 DEF CallsHold
<1>5. AmountsKnown'
  <2>1. \A d \in Call \ {} : d \in loaded' =>
           LET x == catalog[local[d].row].of IN
           /\ pc[d] = "save" => PriceIn(log', x, Len(log')) = PriceIn(log, x, Len(log))
           /\ pc[d] = "archive" => (IsArchived(log', x, Len(log')) => IsArchived(log, x, Len(log)))
    <3> SUFFICES ASSUME NEW d \in Call, d \in loaded, pc[d] \in {"save", "archive"}
                 PROVE  LET x == catalog[local[d].row].of IN
                        /\ PriceIn(log', x, Len(log')) = PriceIn(log, x, Len(log))
                        /\ IsArchived(log', x, Len(log')) => IsArchived(log, x, Len(log))
      OBVIOUS
    <3> DEFINE x == catalog[local[d].row].of
    <3>1. local[d].row \in 1..Len(catalog) /\ x \in Ad
      BY CallOf DEF Held, HoldsRow
    <3>2. IsCreated(log, x, Len(log))
      BY <3>1, ShownPrice
    <3> HIDE DEF x
    <3>3. e.what # "archived" /\ (e.what \notin {"created", "price"} \/ e.of # x)
      BY <3>2 DEF Fits
    <3>4. /\ PriceIn(log', x, Len(log')) = PriceIn(log, x, Len(log))
          /\ IsArchived(log', x, Len(log')) => IsArchived(log, x, Len(log))
      BY <3>2, <3>3, EndTells
    <3> QED
      BY <3>4 DEF x
  <2>2. /\ \A d \in Call \ {} : pc'[d] = pc[d] /\ local'[d] = local[d] /\ (d \in loaded' => d \in loaded)
        /\ \A d \in Call \cap {} : pc'[d] \in HoldsRow /\ catalog'[local'[d].row].of \in Ad =>
             Known(d, pc'[d], local'[d], loaded', log', raised', behind', catalog'[local'[d].row].of)
        /\ behind \subseteq behind'
    OBVIOUS
  <2> QED
    BY <1>1, <1>2, <1>3, <2>1, <2>2, AmountsOn
<1>6. RaisesCounted'
  <2> SUFFICES ASSUME NEW x \in Ad PROVE Counted(log', raised', behind', x)
    BY DEF RaisesCounted
  <2>1. Counted(log, raised, behind, x) /\ raised[x] \in Nat
    BY <1>1, <1>2 DEF RaisesCounted
  <2>2. /\ IsCreated(log', x, Len(log')) <=> IsCreated(log, x, Len(log)) \/ (e.what = "created" /\ e.of = x)
        /\ e.what \in {"created", "price"} /\ e.of = x => PriceIn(log', x, Len(log')) = e.value
        /\ (e.what \notin {"created", "price"} \/ e.of # x) /\ IsCreated(log, x, Len(log)) =>
              PriceIn(log', x, Len(log')) = PriceIn(log, x, Len(log))
    BY EndTells
  <2>3. CASE e.what = "created" /\ e.of = x
    <3>1. ~IsCreated(log, x, Len(log))
      BY <2>3 DEF Fits
    <3>2. raised'[x] = 0 /\ IsCreated(log', x, Len(log')) /\ PriceIn(log', x, Len(log')) = 1
      BY <2>1, <2>2, <2>3, <3>1 DEF Counted
    <3> QED
      BY <3>2 DEF Counted
  <2>4. CASE e.what # "created" \/ e.of # x
    BY <2>1, <2>2, <2>4 DEF Counted
  <2> QED
    BY <2>3, <2>4
<1>7. CallsTyped(pc', local', loaded') /\ CountsTyped(ops', raised', behind')
      /\ OpsBound(pc', raised', ops') /\ ItemsBounded(catalog', pc', local')
      /\ Fits(e, log, Len(catalog), raised')
  BY <1>1
<1> QED
  BY <1>2, <1>4, <1>5, <1>6, <1>7, TellStep

(* AdsService.create.                                                      *)
LEMMA CreateAdStep == ASSUME CatalogInv, NEW ad \in Ad, A!CreateAd(ad) PROVE CatalogInv'
<1> DEFINE e == [what |-> "created", of |-> ad, value |-> 1]
<1>1. /\ log' = Append(log, e) /\ ~A!Created(ad, Len(log))
      /\ UNCHANGED <<applied, bump, catalog, paid, avito, pc, local, loaded, ops, raised, behind>>
  BY DEF A!CreateAd, A!Tell, A!calls, A!count
<1>2. e \in A!Event
  BY CatalogAssumption DEF A!Event, A!Price, A!AdCatalogAssumption
<1>3. LogTyped(log) /\ CountsTyped(ops, raised, behind)
  BY DEF CatalogInv, Typed
<1>4. e.what = "created" /\ e.of = ad /\ e.value = 1
  OBVIOUS
<1> HIDE DEF e
<1>5. Grown(log, e, log')
  BY <1>1, <1>2, <1>3 DEF Grown
<1>6. ~IsCreated(log, ad, Len(log))
  BY <1>1, ReadsAs
<1>7. raised[ad] \in Nat
  BY <1>3, CatalogAssumption DEF CountsTyped, A!AdCatalogAssumption
<1>8. Fits(e, log, Len(catalog), raised)
  BY <1>4, <1>6, <1>7 DEF Fits
<1> QED
  BY <1>1, <1>4, <1>5, <1>8, OutsideTells

(* A message about an item.                                                *)
LEMMA MessageStep == ASSUME CatalogInv, A!Message PROVE CatalogInv'
<1>1. PICK r \in 1..Len(catalog) : A!Tell("message", r, 0)
  BY RowsAre DEF A!Message
<1> DEFINE e == [what |-> "message", of |-> r, value |-> 0]
<1>2. /\ log' = Append(log, e)
      /\ UNCHANGED <<applied, bump, catalog, paid, avito, pc, local, loaded, ops, raised, behind>>
  BY <1>1 DEF A!Message, A!Tell, A!calls, A!count
<1>3. e \in A!Event
  BY DEF A!Event
<1>4. LogTyped(log)
  BY DEF CatalogInv, Typed
<1>5. e.what = "message" /\ e.of = r
  OBVIOUS
<1> HIDE DEF e
<1>6. Grown(log, e, log')
  BY <1>2, <1>3, <1>4 DEF Grown
<1>7. Fits(e, log, Len(catalog), raised)
  BY <1>5 DEF Fits
<1> QED
  BY <1>2, <1>5, <1>6, <1>7, OutsideTells

(* A save by a call that is current, of an event about its ad.             *)
LEMMA SaveTells ==
  ASSUME CatalogInv, NEW c \in Call, pc[c] \in {"save", "archive"}, c \in loaded,
         NEW ad, ad = catalog[local[c].row].of,
         NEW e, Grown(log, e, log'), e.of = ad, e.what \in {"price", "archived"},
         UNCHANGED <<applied, bump, catalog, paid, avito, ops, behind>>,
         A!Done(c), loaded' = loaded \ A!Overtaken(ad),
         CountsTyped(ops', raised', behind'), \A x \in Ad : raised[x] <= raised'[x],
         Fits(e, log, Len(catalog), raised'),
         RaisesCounted', OpsBound(pc', raised', ops')
  PROVE  CatalogInv'
<1>1. /\ CallsTyped(pc, local, loaded) /\ CountsTyped(ops, raised, behind) /\ RowsTyped(catalog, paid)
      /\ CallsHold /\ AmountsKnown /\ ItemsBounded(catalog, pc, local)
  BY DEF CatalogInv, Typed
<1>2. PICK h \in A!Local :
           /\ pc' = [pc EXCEPT ![c] = "idle"] /\ local' = [local EXCEPT ![c] = h]
           /\ "idle" \in A!Pc /\ "idle" \notin HoldsRow \cup {"load", "save", "create"}
           /\ \A cat, ld : c \notin ld => Held(c, "idle", h, cat, ld)
  BY DoneHolds
<1>3. \A d \in loaded' : d \in loaded /\ catalog[local[d].row].of # ad
  BY DEF A!Overtaken
<1>4. /\ CallsTyped(pc', local', loaded') /\ pc'[c] = "idle" /\ local'[c] = h
      /\ \A d \in Call \ {c} : pc'[d] = pc[d] /\ local'[d] = local[d]
  <2>1. loaded' \subseteq Call
    BY <1>1, <1>3 DEF CallsTyped
  <2> QED
    BY <1>1, <1>2, <2>1, MovesOne
<1>5. Stay(catalog, catalog')
  BY <1>1, LenProperties DEF Stay, RowsTyped
<1>6. \A d \in Call \ {c} : pc'[d] = pc[d] /\ local'[d] = local[d] /\ (d \in loaded' => d \in loaded)
  BY <1>3, <1>4
<1>7. CallsHold'
  <2>1. c \notin loaded'
    BY <1>3
  <2>2. \A d \in Call \cap {c} : Held(d, pc'[d], local'[d], catalog', loaded')
    BY <1>2, <1>4, <2>1
  <2> QED
    BY <1>1, <1>5, <1>6, <2>2, HoldsOn
<1>8. raised \in [Ad -> Nat] /\ raised' \in [Ad -> Nat] /\ behind \subseteq behind'
  BY <1>1, CatalogAssumption DEF CountsTyped, A!AdCatalogAssumption
<1>9. AmountsKnown'
  <2>1. \A d \in Call \ {c} : d \in loaded' =>
           LET x == catalog[local[d].row].of IN
           /\ pc[d] = "save" => PriceIn(log', x, Len(log')) = PriceIn(log, x, Len(log))
           /\ pc[d] = "archive" => (IsArchived(log', x, Len(log')) => IsArchived(log, x, Len(log)))
    <3> SUFFICES ASSUME NEW d \in Call, d \in loaded', pc[d] \in {"save", "archive"}
                 PROVE  LET x == catalog[local[d].row].of IN
                        /\ PriceIn(log', x, Len(log')) = PriceIn(log, x, Len(log))
                        /\ IsArchived(log', x, Len(log')) => IsArchived(log, x, Len(log))
      OBVIOUS
    <3> DEFINE x == catalog[local[d].row].of
    <3>1. local[d].row \in 1..Len(catalog) /\ x \in Ad
      BY CallOf DEF Held, HoldsRow
    <3>2. IsCreated(log, x, Len(log)) /\ x # ad
      BY <1>3, <3>1, ShownPrice
    <3> HIDE DEF x
    <3>3. /\ PriceIn(log', x, Len(log')) = PriceIn(log, x, Len(log))
          /\ IsArchived(log', x, Len(log')) => IsArchived(log, x, Len(log))
      BY <3>2, EndTells
    <3> QED
      BY <3>3 DEF x
  <2>2. \A d \in Call \cap {c} : pc'[d] \in HoldsRow /\ catalog'[local'[d].row].of \in Ad =>
          Known(d, pc'[d], local'[d], loaded', log', raised', behind', catalog'[local'[d].row].of)
    BY <1>2, <1>4
  <2> QED
    BY <1>1, <1>5, <1>6, <1>8, <2>1, <2>2, AmountsOn
<1>10. ItemsBounded(catalog', pc', local')
  <2>1. \A i : Creators(pc', local', i) = Creators(pc, local, i)
    BY <1>4, CreatorsAre
  <2> QED
    BY <1>1, <2>1 DEF ItemsBounded
<1> QED
  BY <1>4, <1>7, <1>9, <1>10, TellStep

(* The save of an archived ad.                                             *)
LEMMA SaveArchivedStep == ASSUME CatalogInv, NEW c \in Call, A!SaveArchived(c) PROVE CatalogInv'
<1> DEFINE ad == catalog[local[c].row].of
           e == [what |-> "archived", of |-> ad, value |-> PriceIn(log, ad, Len(log))]
<1>1. /\ pc[c] = "archive" /\ c \in loaded /\ A!Done(c)
      /\ log' = Append(log, e) /\ loaded' = loaded \ A!Overtaken(ad)
      /\ UNCHANGED <<applied, bump, catalog, paid, avito, ops, raised, behind>>
  BY ReadsAs DEF A!SaveArchived, A!Tell, A!count
<1>2. local[c].row \in 1..Len(catalog) /\ ad \in Ad
  BY <1>1, CallOf DEF Held, HoldsRow
<1>3. IsCreated(log, ad, Len(log))
  BY <1>2, ShownPrice
<1>4. ~IsArchived(log, ad, Len(log))
  <2>1. Known(c, pc[c], local[c], loaded, log, raised, behind, ad)
    BY <1>1, <1>2 DEF CatalogInv, AmountsKnown, HoldsRow
  <2> QED
    BY <1>1, <2>1 DEF Known
<1>5. /\ LogTyped(log) /\ CountsTyped(ops, raised, behind) /\ RaisesCounted
      /\ OpsBound(pc, raised, ops) /\ CallsTyped(pc, local, loaded)
  BY DEF CatalogInv, Typed
<1> HIDE DEF ad
<1>6. e \in A!Event
  <2>1. Len(log) \in Nat
    BY <1>5, LenProperties DEF LogTyped
  <2>2. PICK i \in 1..Len(log) : /\ log[i].what \in {"created", "price"} /\ log[i].of = ad
                                 /\ PriceIn(log, ad, Len(log)) = log[i].value
    BY <1>3, <2>1, PriceIsTold
  <2>3. log[i] \in A!Event
    BY <1>5, ElementOfSeq DEF LogTyped
  <2>4. PriceIn(log, ad, Len(log)) \in A!Price
    BY <2>2, <2>3, EventsAre
  <2> QED
    BY <1>2, <2>4 DEF A!Event
<1>7. e.what = "archived" /\ e.of = ad
  OBVIOUS
<1> HIDE DEF e
<1>8. Grown(log, e, log')
  BY <1>1, <1>5, <1>6 DEF Grown
<1>9. Fits(e, log, Len(catalog), raised')
  BY <1>3, <1>4, <1>7 DEF Fits
<1>10. CountsTyped(ops', raised', behind') /\ \A x \in Ad : raised[x] <= raised'[x]
  BY <1>1, <1>5, CatalogAssumption DEF CountsTyped, A!AdCatalogAssumption
<1>11. RaisesCounted'
  <2> SUFFICES ASSUME NEW x \in Ad PROVE Counted(log', raised', behind', x)
    BY DEF RaisesCounted
  <2>1. Counted(log, raised, behind, x)
    BY <1>5 DEF RaisesCounted
  <2>2. /\ IsCreated(log', x, Len(log')) <=> IsCreated(log, x, Len(log))
        /\ IsCreated(log, x, Len(log)) => PriceIn(log', x, Len(log')) = PriceIn(log, x, Len(log))
    BY <1>7, <1>8, EndTells
  <2> QED
    BY <1>1, <2>1, <2>2 DEF Counted
<1>12. OpsBound(pc', raised', ops')
  <2>1. PICK h : pc' = [pc EXCEPT ![c] = "idle"]
    BY <1>1 DEF A!Done, A!Goto
  <2>2. Raising(pc') = Raising(pc)
    BY <1>1, <1>5, <2>1 DEF Raising, CallsTyped
  <2> QED
    BY <1>1, <1>5, <2>2 DEF OpsBound
<1>13. ad = catalog[local[c].row].of
  BY DEF ad
<1> QED
  BY <1>1, <1>7, <1>8, <1>9, <1>10, <1>11, <1>12, <1>13, SaveTells

(* The save of a price.                                                    *)
LEMMA SaveStep == ASSUME CatalogInv, NEW c \in Call, A!Save(c) PROVE CatalogInv'
<1> DEFINE ad == catalog[local[c].row].of
           e == [what |-> "price", of |-> ad, value |-> local[c].amount]
<1>1. /\ pc[c] = "save" /\ c \in loaded /\ A!Done(c)
      /\ log' = Append(log, e) /\ loaded' = loaded \ A!Overtaken(ad)
      /\ raised' = [raised EXCEPT ![ad] = @ + 1]
      /\ UNCHANGED <<applied, bump, catalog, paid, avito, ops, behind>>
  BY DEF A!Save, A!Tell
<1>2. local[c].row \in 1..Len(catalog) /\ ad \in Ad
  BY <1>1, CallOf DEF Held, HoldsRow
<1>3. IsCreated(log, ad, Len(log))
  BY <1>2, ShownPrice
<1>4. /\ LogTyped(log) /\ CountsTyped(ops, raised, behind) /\ RaisesCounted
      /\ OpsBound(pc, raised, ops) /\ CallsTyped(pc, local, loaded)
  BY DEF CatalogInv, Typed
<1>5. /\ local[c].amount \in 1..(2 + raised[ad])
      /\ ad \notin behind => local[c].amount = PriceIn(log, ad, Len(log)) + 1
  <2>1. Known(c, pc[c], local[c], loaded, log, raised, behind, ad)
    BY <1>1, <1>2 DEF CatalogInv, AmountsKnown, HoldsRow
  <2> QED
    BY <1>1, <2>1 DEF Known
<1>6. pc'[c] = "idle" /\ \A d \in Call \ {c} : pc'[d] = pc[d]
  BY <1>1, <1>4 DEF A!Done, A!Goto, CallsTyped
<1>7. behind' \subseteq Ad
  BY <1>1, <1>4 DEF CountsTyped
<1> HIDE DEF ad
<1>8. /\ CountsTyped(ops', raised', behind') /\ OpsBound(pc', raised', ops')
      /\ raised \in [Ad -> Nat] /\ raised' \in [Ad -> Nat]
      /\ raised'[ad] = raised[ad] + 1 /\ raised'[ad] <= MaxOps
      /\ \A x \in Ad \ {ad} : raised'[x] = raised[x]
      /\ \A x \in Ad : raised[x] <= raised'[x]
  BY <1>1, <1>2, <1>6, <1>7, RaisedOnce
<1>9. e \in A!Event
  <2>1. raised[ad] \in Nat /\ MaxOps \in Nat /\ MaxChanges \in Nat
    BY <1>2, <1>8, CatalogAssumption DEF A!AdCatalogAssumption
  <2>2. local[c].amount \in A!Price
    BY <1>5, <1>8, <2>1 DEF A!Price
  <2> QED
    BY <1>2, <2>2 DEF A!Event
<1>10. e.what = "price" /\ e.of = ad /\ e.value = local[c].amount
  OBVIOUS
<1> HIDE DEF e
<1>11. Grown(log, e, log')
  BY <1>1, <1>4, <1>9 DEF Grown
<1>12. Fits(e, log, Len(catalog), raised')
  <2>1. local[c].amount <= 1 + raised'[ad]
    BY <1>2, <1>5, <1>8
  <2> QED
    BY <1>3, <1>10, <2>1 DEF Fits
<1>13. RaisesCounted'
  <2> SUFFICES ASSUME NEW x \in Ad PROVE Counted(log', raised', behind', x)
    BY DEF RaisesCounted
  <2>1. Counted(log, raised, behind, x)
    BY <1>4 DEF RaisesCounted
  <2>2. /\ IsCreated(log', x, Len(log')) <=> IsCreated(log, x, Len(log))
        /\ x = ad => PriceIn(log', x, Len(log')) = local[c].amount
        /\ x # ad /\ IsCreated(log, x, Len(log)) => PriceIn(log', x, Len(log')) = PriceIn(log, x, Len(log))
    BY <1>10, <1>11, EndTells
  <2>3. CASE x = ad
    <3>1. ad \notin behind => local[c].amount = raised[ad] + 2
      <4>1. ad \notin behind => PriceIn(log, ad, Len(log)) = 1 + raised[ad]
        BY <1>3, <2>1, <2>3 DEF Counted
      <4>2. raised[ad] \in Nat
        BY <1>2, <1>8
      <4> QED
        BY <1>5, <4>1, <4>2
    <3>2. raised[ad] \in Nat
      BY <1>2, <1>8
    <3> QED
      BY <1>1, <1>3, <1>8, <2>2, <2>3, <3>1, <3>2 DEF Counted
  <2>4. CASE x # ad
    BY <1>1, <1>8, <2>1, <2>2, <2>4 DEF Counted
  <2> QED
    BY <2>3, <2>4
<1>14. ad = catalog[local[c].row].of
  BY DEF ad
<1> QED
  BY <1>1, <1>8, <1>10, <1>11, <1>12, <1>13, <1>14, SaveTells

-----------------------------------------------------------------------------
(* Steps that write the table.                                             *)

(* A row is written, or added.                                             *)
LEMMA RowWritten ==
  ASSUME CatalogInv, NEW r \in 1..Len(catalog), NEW w \in A!Row, w.of = catalog[r].of,
         catalog' = [catalog EXCEPT ![r] = w]
  PROVE  /\ catalog' \in Seq(A!Row) /\ Len(catalog') = Len(catalog) /\ Stay(catalog, catalog')
         /\ catalog'[r] = w /\ \A q \in 1..Len(catalog) \ {r} : catalog'[q] = catalog[q]
         /\ \A x : RowsIn(catalog', x) = RowsIn(catalog, x)
<1>1. catalog \in Seq(A!Row) /\ Len(catalog) \in Nat
  BY LenProperties DEF CatalogInv, Typed, RowsTyped
<1>2. catalog' \in Seq(A!Row) /\ Len(catalog') = Len(catalog)
  BY <1>1, ExceptSeq
<1>3. catalog'[r] = w /\ \A q \in 1..Len(catalog) \ {r} : catalog'[q] = catalog[q]
  BY <1>1, ExceptSeq
<1>4. \A q \in 1..Len(catalog) : catalog'[q].of = catalog[q].of
  BY <1>3
<1>5. Stay(catalog, catalog')
  BY <1>1, <1>2, <1>4 DEF Stay
<1>6. \A x : RowsIn(catalog', x) = RowsIn(catalog, x)
  BY <1>2, <1>4 DEF RowsIn
<1> QED
  BY <1>2, <1>3, <1>5, <1>6

(* ... or added at the end.                                                *)
LEMMA RowAdded ==
  ASSUME CatalogInv, NEW x, NEW price, NEW kind, A!Insert(x, price, kind),
         x \in Ad \cup Item, price \in A!Price, kind \in {"draft", "active"}
  PROVE  /\ RowsTyped(catalog', paid') /\ Len(catalog) \in Nat /\ Len(catalog') = Len(catalog) + 1
         /\ Stay(catalog, catalog')
         /\ \A q \in 1..Len(catalog) : catalog'[q] = catalog[q] /\ paid'[q] = paid[q]
         /\ catalog'[Len(catalog) + 1] = [of |-> x, price |-> price, status |-> kind, messages |-> 0, spend |-> 0]
         /\ paid'[Len(catalog) + 1] = [added |-> 0, under |-> 0]
         /\ \A y : y # x => RowsIn(catalog', y) = RowsIn(catalog, y)
         /\ RowsIn(catalog', x) = RowsIn(catalog, x) \cup {Len(catalog) + 1}
         /\ Len(catalog) + 1 \notin RowsIn(catalog, x)
<1> DEFINE w == [of |-> x, price |-> price, status |-> kind, messages |-> 0, spend |-> 0]
           p == [added |-> 0, under |-> 0]
<1>1. catalog \in Seq(A!Row) /\ paid \in Seq([added : Nat, under : Nat]) /\ Len(paid) = Len(catalog)
  BY DEF CatalogInv, Typed, RowsTyped
<1>2. catalog' = Append(catalog, w) /\ paid' = Append(paid, p)
  BY DEF A!Insert
<1>3. w \in A!Row /\ p \in [added : Nat, under : Nat] /\ w.of = x
  BY DEF A!Row
<1> HIDE DEF w, p
<1>4. /\ catalog' \in Seq(A!Row) /\ Len(catalog) \in Nat /\ Len(catalog') = Len(catalog) + 1
      /\ catalog'[Len(catalog) + 1] = w /\ \A q \in 1..Len(catalog) : catalog'[q] = catalog[q]
  BY <1>1, <1>2, <1>3, AppendProperties, LenProperties
<1>5. /\ paid' \in Seq([added : Nat, under : Nat]) /\ Len(paid') = Len(catalog) + 1
      /\ paid'[Len(catalog) + 1] = p /\ \A q \in 1..Len(catalog) : paid'[q] = paid[q]
  BY <1>1, <1>2, <1>3, AppendProperties, LenProperties
<1>6. RowsTyped(catalog', paid')
  BY <1>4, <1>5 DEF RowsTyped
<1>7. Stay(catalog, catalog')
  BY <1>4 DEF Stay
<1>8. \A q : q \in 1..(Len(catalog) + 1) <=> q \in 1..Len(catalog) \/ q = Len(catalog) + 1
  BY <1>4
<1>9. /\ \A y : y # x => RowsIn(catalog', y) = RowsIn(catalog, y)
      /\ RowsIn(catalog', x) = RowsIn(catalog, x) \cup {Len(catalog) + 1}
  BY <1>3, <1>4, <1>8 DEF RowsIn
<1>10. Len(catalog) + 1 \notin RowsIn(catalog, x)
  BY <1>4 DEF RowsIn
<1> QED
  BY <1>4, <1>5, <1>6, <1>7, <1>9, <1>10 DEF w, p

(* What calls know is not of the table.                                    *)
LEMMA TableStep ==
  ASSUME CatalogInv, UNCHANGED <<log, avito, loaded, ops, raised, behind>>,
         NEW C, \A d \in Call \ C : pc'[d] = pc[d] /\ local'[d] = local[d],
         \A d \in Call \cap C : pc'[d] \notin HoldsRow /\ Held(d, pc'[d], local'[d], catalog', loaded),
         CallsTyped(pc', local', loaded), OpsBound(pc', raised, ops),
         applied' \in 0..Len(log), RowsTyped(catalog', paid'), BumpTyped(bump', Len(catalog')),
         Stay(catalog, catalog'),
         RowsShow(catalog', log, applied'), BumpHolds(bump', log, applied', catalog', paid'),
         RowsCount(catalog', log, applied', paid'), ItemsBounded(catalog', pc', local')
  PROVE  CatalogInv'
<1>1. /\ LogTyped(log) /\ AvitoTyped(avito) /\ CallsTyped(pc, local, loaded) /\ CountsTyped(ops, raised, behind)
      /\ CallsHold /\ AmountsKnown /\ RaisesCounted
      /\ Preceded(log) /\ ToldOnce(log) /\ AboutRows(log, Len(catalog)) /\ WithinRaises(log, raised)
  BY DEF CatalogInv, Typed, LogShape
<1>2. Typed'
  BY <1>1 DEF Typed
<1>3. CallsHold'
  <2>1. \A d \in Call \ C : pc'[d] = pc[d] /\ local'[d] = local[d] /\ (d \in loaded' => d \in loaded)
    OBVIOUS
  <2>2. \A d \in Call \cap C : Held(d, pc'[d], local'[d], catalog', loaded')
    OBVIOUS
  <2> QED
    BY <1>1, <2>1, <2>2, HoldsOn
<1>4. LogShape'
  <2>1. AboutRows(log, Len(catalog'))
    <3>1. \A r \in 1..Len(catalog) : r \in 1..Len(catalog')
      BY DEF Stay
    <3> QED
      BY <1>1, <3>1 DEF AboutRows
  <2> QED
    BY <1>1, <2>1 DEF LogShape
<1>5. RaisesCounted'
  BY <1>1 DEF RaisesCounted
<1>6. AmountsKnown'
  <2>1. raised \in [Ad -> Nat] /\ raised' \in [Ad -> Nat] /\ behind \subseteq behind'
        /\ \A ad \in Ad : raised[ad] <= raised'[ad]
    BY <1>1, CatalogAssumption DEF CountsTyped, A!AdCatalogAssumption
  <2>2. \A d \in Call \ C : pc'[d] = pc[d] /\ local'[d] = local[d] /\ (d \in loaded' => d \in loaded)
    OBVIOUS
  <2>3. \A d \in Call \ C : d \in loaded' =>
           LET x == catalog[local[d].row].of IN
           /\ pc[d] = "save" => PriceIn(log', x, Len(log')) = PriceIn(log, x, Len(log))
           /\ pc[d] = "archive" => (IsArchived(log', x, Len(log')) => IsArchived(log, x, Len(log)))
    OBVIOUS
  <2>4. \A d \in Call \cap C : pc'[d] \in HoldsRow /\ catalog'[local'[d].row].of \in Ad =>
           Known(d, pc'[d], local'[d], loaded', log', raised', behind', catalog'[local'[d].row].of)
    OBVIOUS
  <2> QED
    BY <1>1, <2>1, <2>2, <2>3, <2>4, AmountsOn
<1> QED
  BY <1>2, <1>3, <1>4, <1>5, <1>6 DEF CatalogInv

(* The projection moves no call.                                           *)
LEMMA ProjectionStep ==
  ASSUME CatalogInv, UNCHANGED <<log, avito, pc, local, loaded, ops, raised, behind>>,
         applied' \in 0..Len(log), RowsTyped(catalog', paid'), BumpTyped(bump', Len(catalog')),
         Stay(catalog, catalog'),
         \A i \in Item : RowsIn(catalog', i) = RowsIn(catalog, i),
         RowsShow(catalog', log, applied'), BumpHolds(bump', log, applied', catalog', paid'),
         RowsCount(catalog', log, applied', paid')
  PROVE  CatalogInv'
<1>1. CallsTyped(pc', local', loaded) /\ OpsBound(pc', raised, ops)
  BY DEF CatalogInv, Typed
<1>2. ItemsBounded(catalog', pc', local')
  BY DEF CatalogInv, ItemsBounded
<1>3. /\ \A d \in Call \ {} : pc'[d] = pc[d] /\ local'[d] = local[d]
      /\ \A d \in Call \cap {} : pc'[d] \notin HoldsRow /\ Held(d, pc'[d], local'[d], catalog', loaded)
  OBVIOUS
<1> QED
  BY <1>1, <1>2, <1>3, TableStep

(* A call that was about a row, or an item, is done with it.               *)
LEMMA WriteStep ==
  ASSUME CatalogInv, NEW c \in Call, pc[c] \in {"add", "update", "create"},
         UNCHANGED <<log, applied, bump, avito, loaded, ops, raised, behind>>,
         NEW s \in {"idle", "find"}, NEW h \in A!Local,
         pc' = [pc EXCEPT ![c] = s], local' = [local EXCEPT ![c] = h],
         \A cat, ld : c \notin ld => Held(c, s, h, cat, ld),
         RowsTyped(catalog', paid'), Stay(catalog, catalog'),
         RowsShow(catalog', log, applied), BumpHolds(bump, log, applied, catalog', paid'),
         RowsCount(catalog', log, applied, paid'), ItemsBounded(catalog', pc', local')
  PROVE  CatalogInv'
<1>1. /\ CallsTyped(pc, local, loaded) /\ OpsBound(pc, raised, ops) /\ applied \in 0..Len(log)
      /\ BumpTyped(bump, Len(catalog))
  BY DEF CatalogInv, Typed
<1>2. s \in A!Pc /\ s \notin HoldsRow
  BY DEF A!Pc, HoldsRow
<1>3. /\ CallsTyped(pc', local', loaded) /\ pc'[c] = s /\ local'[c] = h
      /\ \A d \in Call \ {c} : pc'[d] = pc[d] /\ local'[d] = local[d]
  <2>1. loaded' \subseteq Call /\ loaded' = loaded
    BY <1>1 DEF CallsTyped
  <2> QED
    BY <1>1, <1>2, <2>1, MovesOne
<1>4. c \notin loaded
  BY CallOf DEF Held
<1>5. \A d \in Call \cap {c} : pc'[d] \notin HoldsRow /\ Held(d, pc'[d], local'[d], catalog', loaded)
  BY <1>2, <1>3, <1>4
<1>6. OpsBound(pc', raised, ops)
  <2>1. Raising(pc') = Raising(pc)
    BY <1>3 DEF Raising
  <2> QED
    BY <1>1, <2>1 DEF OpsBound
<1>7. BumpTyped(bump', Len(catalog'))
  <2>1. 0..Len(catalog) \subseteq 0..Len(catalog')
    BY DEF Stay
  <2> QED
    BY <1>1, <2>1 DEF BumpTyped
<1>8. applied' \in 0..Len(log) /\ applied' = applied /\ bump' = bump
  BY <1>1
<1> QED
  BY <1>3, <1>5, <1>6, <1>7, <1>8, TableStep

(* A range that is shifted, or reaches further.                            *)
LEMMA WithinSum ==
  ASSUME NEW n \in Int, NEW a \in Int, NEW u \in Int, n \in (a - u)..a,
         NEW m, m = n + 1, NEW b, b = a + 1, NEW v, v = u \/ v = u + 1
  PROVE  /\ m \in (b - v)..b
         /\ v = u + 1 => n \in (b - v)..b
OBVIOUS

(* What an import adds to what was paid.                                   *)
LEMMA PaidMore ==
  ASSUME NEW p \in [added : Nat, under : Nat], NEW u \in Nat
  PROVE  /\ [p EXCEPT !.added = @ + 1, !.under = u] \in [added : Nat, under : Nat]
         /\ [p EXCEPT !.added = @ + 1, !.under = u].added = p.added + 1
         /\ [p EXCEPT !.added = @ + 1, !.under = u].under = u
<1>1. \A n \in Nat : [p EXCEPT !.added = n, !.under = u] \in [added : Nat, under : Nat]
  OBVIOUS
<1>2. [p EXCEPT !.added = @ + 1, !.under = u].added = p.added + 1
  OBVIOUS
<1>3. [p EXCEPT !.added = @ + 1, !.under = u].under = u
  OBVIOUS
<1>4. p.added + 1 \in Nat
  OBVIOUS
<1> QED
  BY <1>1, <1>2, <1>3, <1>4

(* importSpend.                                                            *)
LEMMA SpendAdded ==
  ASSUME CatalogInv, NEW c \in Call, pc[c] = "add", A!Done(c), A!Increment(local[c].row),
         UNCHANGED <<log, applied, bump, avito, loaded, ops, raised, behind>>
  PROVE  CatalogInv'
<1> DEFINE r == local[c].row
           w == [catalog[r] EXCEPT !.spend = @ + 1]
           u == IF bump.row = r THEN paid[r].under + 1 ELSE paid[r].under
           p == [paid[r] EXCEPT !.added = @ + 1, !.under = u]
<1>1. /\ pc[c] = "add" /\ A!Done(c)
      /\ catalog' = [catalog EXCEPT ![r] = w] /\ paid' = [paid EXCEPT ![r] = p]
      /\ UNCHANGED <<log, applied, bump, avito, loaded, ops, raised, behind>>
  BY DEF A!Increment
<1>2. r \in 1..Len(catalog)
  BY <1>1, CallOf DEF Held, HoldsRow
<1>3. /\ catalog[r] \in A!Row /\ catalog[r].spend \in Nat /\ catalog[r].messages \in Nat
      /\ paid[r] \in [added : Nat, under : Nat] /\ Len(catalog) \in Nat
  BY <1>2, RowOf
<1>4. /\ w \in A!Row /\ w.of = catalog[r].of /\ w.price = catalog[r].price /\ w.status = catalog[r].status
      /\ w.messages = catalog[r].messages /\ w.spend = catalog[r].spend + 1
  BY <1>3 DEF A!Row
<1>5. /\ p \in [added : Nat, under : Nat] /\ p.added = paid[r].added + 1
      /\ bump.row = r => p.under = paid[r].under + 1
      /\ bump.row # r => p.under = paid[r].under
  <2>1. /\ paid[r].added \in Nat /\ paid[r].under \in Nat
        /\ bump.row = r => u = paid[r].under + 1
        /\ bump.row # r => u = paid[r].under
    BY <1>3
  <2>2. u \in Nat
    BY <2>1
  <2> HIDE DEF u
  <2>3. p \in [added : Nat, under : Nat] /\ p.added = paid[r].added + 1 /\ p.under = u
    BY <1>3, <2>2, PaidMore
  <2> QED
    BY <2>1, <2>3
<1> HIDE DEF w, p, u, r
<1>6. /\ catalog' \in Seq(A!Row) /\ Len(catalog') = Len(catalog) /\ Stay(catalog, catalog')
      /\ catalog'[r] = w /\ \A q \in 1..Len(catalog) \ {r} : catalog'[q] = catalog[q]
      /\ \A x : RowsIn(catalog', x) = RowsIn(catalog, x)
  BY <1>1, <1>2, <1>4, RowWritten
<1>7. /\ RowsTyped(catalog, paid) /\ RowsShow(catalog, log, applied)
      /\ BumpHolds(bump, log, applied, catalog, paid) /\ RowsCount(catalog, log, applied, paid)
      /\ CallsTyped(pc, local, loaded) /\ ItemsBounded(catalog, pc, local)
  BY DEF CatalogInv, Typed
<1>8. /\ paid' \in Seq([added : Nat, under : Nat]) /\ Len(paid') = Len(catalog)
      /\ paid'[r] = p /\ \A q \in 1..Len(catalog) \ {r} : paid'[q] = paid[q]
  BY <1>1, <1>2, <1>5, <1>7, ExceptSeq DEF RowsTyped
<1>9. RowsTyped(catalog', paid')
  BY <1>6, <1>8 DEF RowsTyped
<1>10. RowsShow(catalog', log, applied)
  <2>1. \A q \in 1..Len(catalog) : /\ catalog'[q].of = catalog[q].of /\ catalog'[q].price = catalog[q].price
                                   /\ catalog'[q].status = catalog[q].status
    BY <1>4, <1>6
  <2>2. \A q \in 1..Len(catalog) : Shows(catalog[q], log, applied) => Shows(catalog'[q], log, applied)
    BY <2>1 DEF Shows
  <2> QED
    BY <1>6, <1>7, <2>1, <2>2 DEF RowsShow
<1>11. RowsCount(catalog', log, applied, paid')
  <2> SUFFICES ASSUME NEW q \in 1..Len(catalog) PROVE Counts(q, log, applied, catalog'[q], paid'[q])
    BY <1>6 DEF RowsCount
  <2>1. Counts(q, log, applied, catalog[q], paid[q])
    BY <1>7 DEF RowsCount
  <2>2. CASE q = r
    <3>1. w.spend \in (p.added - p.under)..p.added
      <4>1. catalog[r].spend \in (paid[r].added - paid[r].under)..paid[r].added
        BY <2>1, <2>2 DEF Counts
      <4>2. paid[r].added \in Nat /\ paid[r].under \in Nat
        BY <1>3
      <4>3. /\ w.spend = catalog[r].spend + 1 /\ p.added = paid[r].added + 1
            /\ p.under = paid[r].under \/ p.under = paid[r].under + 1
            /\ catalog[r].spend \in Int /\ paid[r].added \in Int /\ paid[r].under \in Int
        BY <1>3, <1>4, <1>5
      <4> QED
        BY <4>1, <4>3, WithinSum
    <3> QED
      BY <1>4, <1>6, <1>8, <2>1, <2>2, <3>1 DEF Counts
  <2>3. CASE q # r
    BY <1>6, <1>8, <2>1, <2>3
  <2> QED
    BY <2>2, <2>3
<1>12. BumpHolds(bump, log, applied, catalog', paid')
  <2> SUFFICES ASSUME bump # A!NoBump
               PROVE  /\ bump.row \in 1..Len(catalog) /\ applied < Len(log)
                      /\ log[applied + 1].what = "message" /\ log[applied + 1].of = bump.row
                      /\ bump.messages = catalog'[bump.row].messages
                      /\ bump.spend \in (paid'[bump.row].added - paid'[bump.row].under)..paid'[bump.row].added
    BY <1>6 DEF BumpHolds
  <2>1. /\ bump.row \in 1..Len(catalog) /\ applied < Len(log)
        /\ log[applied + 1].what = "message" /\ log[applied + 1].of = bump.row
        /\ bump.messages = catalog[bump.row].messages
        /\ bump.spend \in (paid[bump.row].added - paid[bump.row].under)..paid[bump.row].added
    BY <1>7 DEF BumpHolds
  <2>2. CASE bump.row = r
    <3>1. paid[r].added \in Nat /\ paid[r].under \in Nat
      BY <1>3
    <3>2. bump.spend \in (p.added - p.under)..p.added
      <4>1. bump.spend \in (paid[r].added - paid[r].under)..paid[r].added /\ bump.spend \in Int
        BY <2>1, <2>2, <3>1
      <4>2. p.added = paid[r].added + 1 /\ p.under = paid[r].under + 1
        BY <1>5, <2>2
      <4>3. bump.spend + 1 = bump.spend + 1
        OBVIOUS
      <4> QED
        BY <3>1, <4>1, <4>2, <4>3, WithinSum
    <3> QED
      BY <1>4, <1>6, <1>8, <2>1, <2>2, <3>2
  <2>3. CASE bump.row # r
    BY <1>6, <1>8, <2>1, <2>3
  <2> QED
    BY <2>2, <2>3
<1>13. PICK h \in A!Local :
           /\ pc' = [pc EXCEPT ![c] = "idle"] /\ local' = [local EXCEPT ![c] = h]
           /\ "idle" \in A!Pc /\ "idle" \notin HoldsRow \cup {"load", "save", "create"}
           /\ \A cat, ld : c \notin ld => Held(c, "idle", h, cat, ld)
  BY <1>1, DoneHolds
<1>14. ItemsBounded(catalog', pc', local')
  <2>1. pc'[c] = "idle" /\ \A d \in Call \ {c} : pc'[d] = pc[d] /\ local'[d] = local[d]
    BY <1>7, <1>13 DEF CallsTyped
  <2>2. \A i : Creators(pc', local', i) = Creators(pc, local, i)
    BY <1>1, <2>1, CreatorsAre
  <2> QED
    BY <1>6, <1>7, <2>2 DEF ItemsBounded
<1> QED
  BY <1>1, <1>6, <1>9, <1>10, <1>11, <1>12, <1>13, <1>14, WriteStep

(* The increment of an import, or none.                                    *)
LEMMA AddSpendStep == ASSUME CatalogInv, NEW c \in Call, A!AddSpend(c) PROVE CatalogInv'
<1>1. /\ pc[c] = "add" /\ A!Done(c)
      /\ UNCHANGED <<log, applied, bump, avito, loaded, ops, raised, behind>>
  BY DEF A!AddSpend, A!count
<1>2. CASE UNCHANGED <<catalog, paid>>
  <2>1. c \notin loaded
    BY <1>1, CallOf DEF Held
  <2> QED
    BY <1>1, <1>2, <2>1, GivesUp
<1>3. CASE ~UNCHANGED <<catalog, paid>>
  BY <1>1, <1>3, SpendAdded DEF A!AddSpend
<1> QED
  BY <1>2, <1>3

(* What the projection sees before a step.                                 *)
LEMMA NextEvent ==
  ASSUME CatalogInv, applied < Len(log)
  PROVE  /\ Len(log) \in Nat /\ applied \in Nat /\ applied + 1 \in 1..Len(log) /\ applied + 1 \in 0..Len(log)
         /\ A!Event1 = log[applied + 1] /\ log[applied + 1] \in A!Event
         /\ Preceded(log) /\ ToldOnce(log) /\ AboutRows(log, Len(catalog))
         /\ RowsShow(catalog, log, applied) /\ BumpHolds(bump, log, applied, catalog, paid)
         /\ RowsCount(catalog, log, applied, paid) /\ RowsTyped(catalog, paid)
         /\ BumpTyped(bump, Len(catalog)) /\ Len(catalog) \in Nat
<1>1. /\ LogTyped(log) /\ applied \in 0..Len(log)
      /\ Preceded(log) /\ ToldOnce(log) /\ AboutRows(log, Len(catalog))
      /\ RowsShow(catalog, log, applied) /\ BumpHolds(bump, log, applied, catalog, paid)
      /\ RowsCount(catalog, log, applied, paid) /\ RowsTyped(catalog, paid)
      /\ BumpTyped(bump, Len(catalog))
  BY DEF CatalogInv, Typed, LogShape
<1>2. Len(log) \in Nat /\ Len(catalog) \in Nat
  BY <1>1, LenProperties DEF LogTyped, RowsTyped
<1>3. applied \in Nat /\ applied + 1 \in 1..Len(log) /\ applied + 1 \in 0..Len(log)
  BY <1>1, <1>2
<1>4. log[applied + 1] \in A!Event
  BY <1>1, <1>3, ElementOfSeq DEF LogTyped
<1>5. A!Event1 = log[applied + 1]
  BY DEF A!Event1
<1> QED
  BY <1>1, <1>2, <1>3, <1>4, <1>5

(* AdProjection inserts the row of an ad, once.                            *)
LEMMA ProjectCreatedStep == ASSUME CatalogInv, A!ProjectCreated PROVE CatalogInv'
<1> DEFINE n == applied + 1
           e == log[n]
           r == Len(catalog) + 1
<1>1. /\ applied < Len(log) /\ bump = A!NoBump
      /\ UNCHANGED <<log, bump, avito, pc, local, loaded, ops, raised, behind>> /\ applied' = applied + 1
  BY DEF A!ProjectCreated, A!Behind, A!calls, A!count
<1>2. /\ Len(log) \in Nat /\ applied \in Nat /\ n \in 1..Len(log) /\ n \in 0..Len(log)
      /\ e \in A!Event /\ e.what = "created" /\ A!Insert(e.of, e.value, "draft")
      /\ Preceded(log) /\ ToldOnce(log) /\ AboutRows(log, Len(catalog))
      /\ RowsShow(catalog, log, applied) /\ RowsCount(catalog, log, applied, paid)
      /\ BumpTyped(bump, Len(catalog)) /\ Len(catalog) \in Nat
  BY <1>1, NextEvent DEF A!ProjectCreated
<1>3. e.of \in Ad /\ e.value \in A!Price
  BY <1>2, EventsAre
<1> HIDE DEF e
<1>4. /\ RowsTyped(catalog', paid') /\ Len(catalog') = r
      /\ Stay(catalog, catalog')
      /\ \A q \in 1..Len(catalog) : catalog'[q] = catalog[q] /\ paid'[q] = paid[q]
      /\ catalog'[r] = [of |-> e.of, price |-> e.value, status |-> "draft", messages |-> 0, spend |-> 0]
      /\ paid'[r] = [added |-> 0, under |-> 0]
      /\ \A y : y # e.of => RowsIn(catalog', y) = RowsIn(catalog, y)
  BY <1>2, <1>3, RowAdded
<1>5. \A q : q \in 1..r <=> q \in 1..Len(catalog) \/ q = r
  BY <1>2
<1>6. \A i \in Item : RowsIn(catalog', i) = RowsIn(catalog, i)
  BY <1>3, <1>4, CatalogAssumption DEF A!AdCatalogAssumption
<1>7. ~IsCreated(log, e.of, applied) /\ ~IsArchived(log, e.of, applied)
  <2>1. ASSUME NEW i \in 1..applied, log[i].what = "created", log[i].of = e.of PROVE FALSE
    <3>1. i \in 1..Len(log) /\ i # n
      BY <1>1, <1>2
    <3> QED
      BY <1>2, <2>1, <3>1 DEF ToldOnce, e
  <2>2. ~IsCreated(log, e.of, applied)
    BY <2>1 DEF IsCreated, Tellings
  <2>3. ASSUME NEW i \in 1..applied, log[i].what = "archived", log[i].of = e.of PROVE FALSE
    <3>1. i \in 1..Len(log) /\ i - 1 \in 0..applied
      BY <1>1, <1>2
    <3>2. IsCreated(log, e.of, i - 1)
      BY <1>2, <2>3, <3>1 DEF Preceded
    <3> QED
      BY <1>2, <2>2, <3>1, <3>2, ReadsOn
  <2> QED
    BY <2>2, <2>3 DEF IsArchived, Tellings
<1>8. ASSUME NEW x
      PROVE  /\ IsCreated(log, x, n) <=> IsCreated(log, x, applied) \/ x = e.of
             /\ IsArchived(log, x, n) <=> IsArchived(log, x, applied)
             /\ x = e.of => PriceIn(log, x, n) = e.value
             /\ x # e.of => PriceIn(log, x, n) = PriceIn(log, x, applied)
  <2>1. e.what = "created" /\ e = log[applied + 1] /\ applied \in Nat
    BY <1>2 DEF e
  <2>2. /\ IsCreated(log, x, applied + 1) <=>
             IsCreated(log, x, applied) \/ (e.what = "created" /\ e.of = x)
        /\ IsArchived(log, x, applied + 1) <=>
             IsArchived(log, x, applied) \/ (e.what = "archived" /\ e.of = x)
    BY <2>1, NextReads
  <2>3. /\ e.what \in {"created", "price"} /\ e.of = x => PriceIn(log, x, applied + 1) = e.value
        /\ e.what \notin {"created", "price"} \/ e.of # x =>
             PriceIn(log, x, applied + 1) = PriceIn(log, x, applied)
    BY <2>1, NextPrice
  <2> QED
    BY <2>1, <2>2, <2>3
<1>9. RowsShow(catalog', log, n)
  <2>1. ASSUME NEW q \in 1..Len(catalog) PROVE catalog[q].of # e.of /\ Shows(catalog'[q], log, n)
    <3>1. Shows(catalog[q], log, applied)
      BY <1>2 DEF RowsShow
    <3>2. catalog[q].of # e.of
      BY <1>3, <1>7, <3>1 DEF Shows
    <3> QED
      BY <1>4, <1>8, <3>1, <3>2 DEF Shows
  <2>2. Shows(catalog'[r], log, n) /\ catalog'[r].of = e.of
    <3>1. /\ catalog'[r].of = e.of /\ catalog'[r].price = e.value /\ catalog'[r].status = "draft"
      BY <1>4
    <3>2. /\ IsCreated(log, e.of, n) /\ PriceIn(log, e.of, n) = e.value /\ ~IsArchived(log, e.of, n)
      BY <1>7, <1>8
    <3> QED
      BY <3>1, <3>2 DEF Shows
  <2>3. \A q \in 1..Len(catalog') : Shows(catalog'[q], log, n)
    BY <1>4, <1>5, <2>1, <2>2
  <2>4. \A q, s \in 1..Len(catalog') :
          catalog'[q].of = catalog'[s].of /\ catalog'[q].of \in Ad => q = s
    <3>1. \A q, s \in 1..Len(catalog) : catalog[q].of = catalog[s].of /\ catalog[q].of \in Ad => q = s
      BY <1>2 DEF RowsShow
    <3> QED
      BY <1>4, <1>5, <2>1, <2>2, <3>1
  <2>5. \A ad \in Ad : IsCreated(log, ad, n) => \E q \in 1..Len(catalog') : catalog'[q].of = ad
    <3> SUFFICES ASSUME NEW ad \in Ad, IsCreated(log, ad, n)
                 PROVE  \E q \in 1..Len(catalog') : catalog'[q].of = ad
      OBVIOUS
    <3>1. CASE ad = e.of
      BY <1>4, <1>5, <2>2, <3>1
    <3>2. CASE ad # e.of
      <4>1. IsCreated(log, ad, applied)
        BY <1>8, <3>2
      <4>2. PICK q \in 1..Len(catalog) : catalog[q].of = ad
        BY <1>2, <4>1 DEF RowsShow
      <4> QED
        BY <1>4, <1>5, <4>2
    <3> QED
      BY <3>1, <3>2
  <2> QED
    BY <2>3, <2>4, <2>5 DEF RowsShow
<1>10. RowsCount(catalog', log, n, paid')
  <2> SUFFICES ASSUME NEW q \in 1..Len(catalog') PROVE Counts(q, log, n, catalog'[q], paid'[q])
    BY DEF RowsCount
  <2>1. Tellings(log, "message", q, n) = Tellings(log, "message", q, applied)
    <3>1. log[applied + 1].what # "message" /\ applied \in Nat
      BY <1>2 DEF e
    <3>2. Tellings(log, "message", q, applied + 1) = Tellings(log, "message", q, applied)
      BY <3>1, NotToldNow
    <3> QED
      BY <3>2
  <2>2. CASE q \in 1..Len(catalog)
    <3>1. Counts(q, log, applied, catalog[q], paid[q])
      BY <1>2, <2>2 DEF RowsCount
    <3> QED
      BY <1>4, <2>1, <2>2, <3>1 DEF Counts
  <2>3. CASE q = r
    <3>1. Tellings(log, "message", q, applied) = {}
      <4> SUFFICES ASSUME NEW i \in 1..applied, log[i].what = "message", log[i].of = r PROVE FALSE
        BY <2>3 DEF Tellings
      <4>1. i \in 1..Len(log)
        BY <1>1, <1>2
      <4>2. r \in 1..Len(catalog)
        BY <1>2, <4>1 DEF AboutRows
      <4> QED
        BY <1>2, <4>2
    <3>2. Cardinality(Tellings(log, "message", q, n)) = 0
      BY <2>1, <3>1, FS_EmptySet
    <3>3. catalog'[q].messages = 0 /\ catalog'[q].spend = 0 /\ paid'[q].added = 0 /\ paid'[q].under = 0
      BY <1>4, <2>3
    <3> QED
      BY <3>2, <3>3 DEF Counts
  <2> QED
    BY <1>4, <1>5, <2>2, <2>3
<1>11. BumpHolds(bump', log, n, catalog', paid')
  BY <1>1 DEF BumpHolds
<1>12. BumpTyped(bump', Len(catalog'))
  <2>1. 0..Len(catalog) \subseteq 0..Len(catalog')
    BY <1>4 DEF Stay
  <2> QED
    BY <1>1, <1>2, <2>1 DEF BumpTyped
<1>13. applied' \in 0..Len(log) /\ applied' = n
  BY <1>1, <1>2
<1> QED
  BY <1>1, <1>4, <1>6, <1>9, <1>10, <1>11, <1>12, <1>13, ProjectionStep

(* AdProjection writes a price or a status.                                *)
LEMMA ProjectChangeStep == ASSUME CatalogInv, A!ProjectChange PROVE CatalogInv'
<1> DEFINE n == applied + 1
           e == log[n]
<1>1. /\ applied < Len(log) /\ bump = A!NoBump
      /\ UNCHANGED <<log, bump, paid, avito, pc, local, loaded, ops, raised, behind>> /\ applied' = applied + 1
  BY DEF A!ProjectChange, A!Behind, A!calls, A!count
<1>2. /\ Len(log) \in Nat /\ applied \in Nat /\ n \in 1..Len(log) /\ n \in 0..Len(log)
      /\ e \in A!Event /\ e.what \in {"price", "archived"}
      /\ RowsShow(catalog, log, applied) /\ RowsCount(catalog, log, applied, paid)
      /\ BumpTyped(bump, Len(catalog)) /\ Len(catalog) \in Nat /\ RowsTyped(catalog, paid)
  BY <1>1, NextEvent DEF A!ProjectChange
<1>3. e.of \in Ad /\ e.value \in A!Price
  BY <1>2, EventsAre
<1>4. PICK r \in A!RowsOf(e.of) :
        catalog' = IF e.what = "price" THEN [catalog EXCEPT ![r].price = e.value]
                   ELSE [catalog EXCEPT ![r].status = "archived"]
  BY <1>1, NextEvent DEF A!ProjectChange
<1>5. r \in 1..Len(catalog) /\ catalog[r].of = e.of
  BY <1>4, RowsAre DEF A!RowsOf
<1> DEFINE w == IF e.what = "price" THEN [catalog[r] EXCEPT !.price = e.value]
                ELSE [catalog[r] EXCEPT !.status = "archived"]
<1>6. catalog' = [catalog EXCEPT ![r] = w]
  <2>1. CASE e.what = "price"
    BY <1>4, <2>1
  <2>2. CASE e.what # "price"
    BY <1>4, <2>2
  <2> QED
    BY <2>1, <2>2
<1> HIDE DEF e
<1>7. /\ w \in A!Row /\ w.of = e.of /\ w.messages = catalog[r].messages /\ w.spend = catalog[r].spend
      /\ e.what = "price" => w.price = e.value /\ w.status = catalog[r].status
      /\ e.what # "price" => w.price = catalog[r].price /\ w.status = "archived"
  <2>1. catalog[r] \in A!Row
    BY <1>5, RowOf
  <2>2. CASE e.what = "price"
    BY <1>3, <1>5, <2>1, <2>2 DEF A!Row
  <2>3. CASE e.what # "price"
    BY <1>3, <1>5, <2>1, <2>3 DEF A!Row
  <2> QED
    BY <2>2, <2>3
<1> HIDE DEF w
<1>8. /\ catalog' \in Seq(A!Row) /\ Len(catalog') = Len(catalog) /\ Stay(catalog, catalog')
      /\ catalog'[r] = w /\ \A q \in 1..Len(catalog) \ {r} : catalog'[q] = catalog[q]
      /\ \A x : RowsIn(catalog', x) = RowsIn(catalog, x)
  BY <1>5, <1>6, <1>7, RowWritten
<1>9. ASSUME NEW x
      PROVE  /\ IsCreated(log, x, n) <=> IsCreated(log, x, applied)
             /\ IsArchived(log, x, n) <=> IsArchived(log, x, applied) \/ (e.what = "archived" /\ x = e.of)
             /\ e.what = "price" /\ x = e.of => PriceIn(log, x, n) = e.value
             /\ e.what # "price" \/ x # e.of => PriceIn(log, x, n) = PriceIn(log, x, applied)
  <2>1. e.what # "created" /\ e = log[applied + 1]
    BY <1>2 DEF e
  <2>2. /\ IsCreated(log, x, applied + 1) <=>
             IsCreated(log, x, applied) \/ (e.what = "created" /\ e.of = x)
        /\ IsArchived(log, x, applied + 1) <=>
             IsArchived(log, x, applied) \/ (e.what = "archived" /\ e.of = x)
    BY <1>2, <2>1, NextReads
  <2>3. /\ e.what \in {"created", "price"} /\ e.of = x => PriceIn(log, x, applied + 1) = e.value
        /\ e.what \notin {"created", "price"} \/ e.of # x =>
             PriceIn(log, x, applied + 1) = PriceIn(log, x, applied)
    BY <1>2, <2>1, NextPrice
  <2> QED
    BY <1>2, <2>1, <2>2, <2>3
<1>10. RowsShow(catalog', log, n)
  <2>1. ASSUME NEW q \in 1..Len(catalog) PROVE Shows(catalog'[q], log, n)
    <3>1. Shows(catalog[q], log, applied)
      BY <1>2 DEF RowsShow
    <3>2. CASE q = r
      <4>1. /\ IsCreated(log, e.of, applied) /\ catalog[r].price = PriceIn(log, e.of, applied)
            /\ catalog[r].status = "archived" <=> IsArchived(log, e.of, applied)
        BY <1>3, <1>5, <3>1, <3>2 DEF Shows
      <4>2. /\ w.price = PriceIn(log, e.of, n) /\ IsCreated(log, e.of, n)
            /\ w.status = "archived" <=> IsArchived(log, e.of, n)
        <5>1. CASE e.what = "price"
          BY <1>7, <1>9, <4>1, <5>1
        <5>2. CASE e.what = "archived"
          BY <1>7, <1>9, <4>1, <5>2
        <5> QED
          BY <1>2, <5>1, <5>2
      <4> QED
        BY <1>7, <1>8, <3>2, <4>2 DEF Shows
    <3>3. CASE q # r
      <4>1. catalog[q].of \in Ad => catalog[q].of # e.of
        BY <1>2, <1>5, <3>3 DEF RowsShow
      <4>2. catalog'[q] = catalog[q]
        BY <1>8, <3>3
      <4> QED
        BY <1>9, <3>1, <4>1, <4>2 DEF Shows
    <3> QED
      BY <3>2, <3>3
  <2>2. \A q \in 1..Len(catalog) : catalog'[q].of = catalog[q].of
    BY <1>8 DEF Stay
  <2> QED
    BY <1>2, <1>8, <1>9, <2>1, <2>2 DEF RowsShow
<1>11. RowsCount(catalog', log, n, paid')
  <2> SUFFICES ASSUME NEW q \in 1..Len(catalog) PROVE Counts(q, log, n, catalog'[q], paid[q])
    BY <1>1, <1>8 DEF RowsCount
  <2>1. Tellings(log, "message", q, n) = Tellings(log, "message", q, applied)
    <3>1. log[applied + 1].what # "message" /\ applied \in Nat
      BY <1>2 DEF e
    <3>2. Tellings(log, "message", q, applied + 1) = Tellings(log, "message", q, applied)
      BY <3>1, NotToldNow
    <3> QED
      BY <3>2
  <2>2. Counts(q, log, applied, catalog[q], paid[q])
    BY <1>2 DEF RowsCount
  <2>3. catalog'[q].messages = catalog[q].messages /\ catalog'[q].spend = catalog[q].spend
    BY <1>7, <1>8
  <2> QED
    BY <2>1, <2>2, <2>3 DEF Counts
<1>12. BumpHolds(bump', log, n, catalog', paid')
  BY <1>1 DEF BumpHolds
<1>13. /\ BumpTyped(bump', Len(catalog')) /\ RowsTyped(catalog', paid')
       /\ applied' \in 0..Len(log) /\ applied' = n
  BY <1>1, <1>2, <1>8 DEF RowsTyped
<1>14. \A i \in Item : RowsIn(catalog', i) = RowsIn(catalog, i)
  BY <1>8
<1> QED
  BY <1>1, <1>8, <1>10, <1>11, <1>12, <1>13, <1>14, ProjectionStep

(* bump reads the row.                                                     *)
LEMMA BumpReadStep == ASSUME CatalogInv, A!BumpRead PROVE CatalogInv'
<1> DEFINE r == log[applied + 1].of
<1>1. /\ applied < Len(log) /\ log[applied + 1].what = "message"
      /\ bump' = [row |-> r, messages |-> catalog[r].messages, spend |-> catalog[r].spend]
      /\ UNCHANGED <<log, applied, catalog, paid, avito, pc, local, loaded, ops, raised, behind>>
  BY NextEvent DEF A!BumpRead, A!Behind, A!calls, A!count
<1>2. /\ Len(log) \in Nat /\ applied + 1 \in 1..Len(log) /\ applied \in 0..Len(log)
      /\ AboutRows(log, Len(catalog)) /\ RowsShow(catalog, log, applied)
      /\ RowsCount(catalog, log, applied, paid) /\ RowsTyped(catalog, paid) /\ Len(catalog) \in Nat
  BY <1>1, NextEvent DEF CatalogInv, Typed
<1>3. r \in 1..Len(catalog)
  BY <1>1, <1>2 DEF AboutRows
<1>4. catalog[r].messages \in Nat /\ catalog[r].spend \in Nat
  BY <1>3, RowOf
<1> HIDE DEF r
<1>5. BumpTyped(bump', Len(catalog))
  BY <1>1, <1>2, <1>3, <1>4 DEF BumpTyped
<1>6. BumpHolds(bump', log, applied, catalog, paid)
  <2>1. Counts(r, log, applied, catalog[r], paid[r])
    BY <1>2, <1>3 DEF RowsCount
  <2>2. catalog[r].spend \in (paid[r].added - paid[r].under)..paid[r].added
    BY <2>1 DEF Counts
  <2>3. bump'.row = r /\ bump'.messages = catalog[r].messages /\ bump'.spend = catalog[r].spend
    BY <1>1
  <2> QED
    BY <1>1, <1>3, <2>2, <2>3 DEF BumpHolds, r
<1>7. Stay(catalog, catalog') /\ \A i \in Item : RowsIn(catalog', i) = RowsIn(catalog, i)
  BY <1>1, <1>2 DEF Stay
<1>8. /\ applied' \in 0..Len(log) /\ RowsTyped(catalog', paid') /\ BumpTyped(bump', Len(catalog'))
      /\ RowsShow(catalog', log, applied') /\ BumpHolds(bump', log, applied', catalog', paid')
      /\ RowsCount(catalog', log, applied', paid')
  BY <1>1, <1>2, <1>5, <1>6
<1> QED
  BY <1>1, <1>7, <1>8, ProjectionStep

(* bump writes back what it read.                                          *)
LEMMA BumpWriteStep == ASSUME CatalogInv, A!BumpWrite PROVE CatalogInv'
<1> DEFINE r == bump.row
           n == applied + 1
           w == [catalog[r] EXCEPT !.messages = bump.messages + 1, !.spend = bump.spend]
<1>1. /\ bump # A!NoBump /\ bump' = A!NoBump /\ applied' = n
      /\ catalog' = [catalog EXCEPT ![r] = w]
      /\ UNCHANGED <<log, paid, avito, pc, local, loaded, ops, raised, behind>>
  <2>1. catalog' = [catalog EXCEPT ![bump.row].messages = bump.messages + 1, ![bump.row].spend = bump.spend]
    BY DEF A!BumpWrite
  <2>2. bump # A!NoBump
    BY DEF A!BumpWrite
  <2>3. r \in 1..Len(catalog)
    BY <2>2 DEF CatalogInv, BumpHolds
  <2>4. catalog' = [catalog EXCEPT ![r] = w]
    BY <2>1, <2>3, RowOf DEF A!Row
  <2> QED
    BY <2>4 DEF A!BumpWrite, A!calls, A!count
<1>2. /\ r \in 1..Len(catalog) /\ applied < Len(log)
      /\ log[applied + 1].what = "message" /\ log[applied + 1].of = r
      /\ bump.messages = catalog[r].messages
      /\ bump.spend \in (paid[r].added - paid[r].under)..paid[r].added
  BY <1>1 DEF CatalogInv, BumpHolds
<1>3. /\ Len(log) \in Nat /\ applied \in Nat /\ n \in 0..Len(log)
      /\ RowsShow(catalog, log, applied) /\ RowsCount(catalog, log, applied, paid)
      /\ RowsTyped(catalog, paid) /\ BumpTyped(bump, Len(catalog)) /\ Len(catalog) \in Nat
  BY <1>2, NextEvent
<1>4. /\ w \in A!Row /\ w.of = catalog[r].of /\ w.price = catalog[r].price /\ w.status = catalog[r].status
      /\ w.messages = catalog[r].messages + 1 /\ w.spend = bump.spend
  <2>1. catalog[r] \in A!Row /\ catalog[r].messages \in Nat
    BY <1>2, RowOf
  <2>2. bump.spend \in Nat /\ bump.messages + 1 \in Nat
    BY <1>3 DEF BumpTyped
  <2> QED
    BY <1>2, <2>1, <2>2 DEF A!Row
<1> HIDE DEF w, r
<1>5. /\ catalog' \in Seq(A!Row) /\ Len(catalog') = Len(catalog) /\ Stay(catalog, catalog')
      /\ catalog'[r] = w /\ \A q \in 1..Len(catalog) \ {r} : catalog'[q] = catalog[q]
      /\ \A x : RowsIn(catalog', x) = RowsIn(catalog, x)
  BY <1>1, <1>2, <1>4, RowWritten
<1>6. ASSUME NEW x
      PROVE  /\ IsCreated(log, x, n) <=> IsCreated(log, x, applied)
             /\ IsArchived(log, x, n) <=> IsArchived(log, x, applied)
             /\ PriceIn(log, x, n) = PriceIn(log, x, applied)
  <2>1. /\ IsCreated(log, x, n) <=> IsCreated(log, x, applied)
        /\ IsArchived(log, x, n) <=> IsArchived(log, x, applied)
    BY <1>2, <1>3, NextReads
  <2>2. log[applied + 1].what \notin {"created", "price"}
    BY <1>2
  <2>3. PriceIn(log, x, n) = PriceIn(log, x, applied)
    BY <1>3, <2>2, NextPrice
  <2> QED
    BY <2>1, <2>3
<1>7. RowsShow(catalog', log, n)
  <2>1. \A q \in 1..Len(catalog) : /\ catalog'[q].of = catalog[q].of /\ catalog'[q].price = catalog[q].price
                                   /\ catalog'[q].status = catalog[q].status
    BY <1>4, <1>5
  <2>2. \A q \in 1..Len(catalog) : Shows(catalog[q], log, applied) => Shows(catalog'[q], log, n)
    BY <1>6, <2>1 DEF Shows
  <2>3. \A ad \in Ad : IsCreated(log, ad, n) <=> IsCreated(log, ad, applied)
    BY <1>6
  <2> QED
    BY <1>3, <1>5, <2>1, <2>2, <2>3 DEF RowsShow
<1>8. RowsCount(catalog', log, n, paid')
  <2> SUFFICES ASSUME NEW q \in 1..Len(catalog) PROVE Counts(q, log, n, catalog'[q], paid[q])
    BY <1>1, <1>5 DEF RowsCount
  <2>1. Counts(q, log, applied, catalog[q], paid[q])
    BY <1>3 DEF RowsCount
  <2>2. CASE q = r
    <3>1. Tellings(log, "message", q, n) = Tellings(log, "message", q, applied) \cup {n}
      <4>1. applied \in Nat /\ log[applied + 1].what = "message" /\ log[applied + 1].of = q
        BY <1>2, <1>3, <2>2
      <4>2. Tellings(log, "message", q, applied + 1) = Tellings(log, "message", q, applied) \cup {applied + 1}
        BY <4>1, ToldNow
      <4> QED
        BY <4>2
    <3>2. Tellings(log, "message", q, applied) \subseteq 1..applied /\ n \notin 1..applied
      BY <1>3 DEF Tellings
    <3>3. IsFiniteSet(Tellings(log, "message", q, applied))
      <4>1. IsFiniteSet(1..applied)
        BY <1>3, FS_Interval
      <4> QED
        BY <3>2, <4>1, FS_Subset
    <3>4. Cardinality(Tellings(log, "message", q, n)) = Cardinality(Tellings(log, "message", q, applied)) + 1
      BY <3>1, <3>2, <3>3, FS_AddElement
    <3> QED
      BY <1>2, <1>4, <1>5, <2>1, <2>2, <3>4 DEF Counts
  <2>3. CASE q # r
    <3>1. Tellings(log, "message", q, n) = Tellings(log, "message", q, applied)
      BY <1>2, <1>3, <2>3, NextTold
    <3>2. catalog'[q] = catalog[q]
      BY <1>5, <2>3
    <3> QED
      BY <2>1, <3>1, <3>2 DEF Counts
  <2> QED
    BY <2>2, <2>3
<1>9. BumpHolds(bump', log, n, catalog', paid') /\ BumpTyped(bump', Len(catalog'))
  BY <1>1, <1>3, <1>5 DEF BumpHolds, BumpTyped, A!NoBump
<1>10. RowsTyped(catalog', paid') /\ applied' \in 0..Len(log)
  BY <1>1, <1>3, <1>5 DEF RowsTyped
<1>11. \A i \in Item : RowsIn(catalog', i) = RowsIn(catalog, i)
  BY <1>5
<1> QED
  BY <1>1, <1>5, <1>7, <1>8, <1>9, <1>10, <1>11, ProjectionStep

-----------------------------------------------------------------------------
(* Avito, and the items worker's writes.                                   *)

(* A price changes on Avito.                                               *)
LEMMA AvitoChangesStep == ASSUME CatalogInv, A!AvitoChanges PROVE CatalogInv'
<1>1. PICK i \in Item : avito[i] <= MaxChanges /\ avito' = [avito EXCEPT ![i] = @ + 1]
  BY DEF A!AvitoChanges
<1>2. UNCHANGED <<log, applied, bump, catalog, paid, pc, local, loaded, ops, raised, behind>>
  BY DEF A!AvitoChanges, A!calls, A!count
<1>3. AvitoTyped(avito')
  <2>1. avito \in [Item -> A!Price]
    BY DEF CatalogInv, Typed, AvitoTyped
  <2>2. avito[i] + 1 \in A!Price
    BY <1>1, <2>1, CatalogAssumption DEF A!Price, A!AdCatalogAssumption
  <2> QED
    BY <1>1, <2>1, <2>2 DEF AvitoTyped
<1>4. Typed'
  BY <1>2, <1>3 DEF CatalogInv, Typed
<1>5. /\ CallsHold' /\ LogShape' /\ RaisesCounted' /\ AmountsKnown'
  BY <1>2 DEF CatalogInv, CallsHold, LogShape, RaisesCounted, AmountsKnown
<1> QED
  BY <1>2, <1>4, <1>5 DEF CatalogInv

(* A step of others.                                                       *)
LEMMA CatalogRests ==
  ASSUME CatalogInv, UNCHANGED A!vars
  PROVE  CatalogInv'
<1>1. UNCHANGED <<log, applied, bump, catalog, paid, avito, pc, local, loaded, ops, raised, behind>>
  BY DEF A!vars, A!calls, A!count
<1>2. Typed'
  BY <1>1 DEF CatalogInv, Typed
<1>3. /\ CallsHold' /\ LogShape' /\ RaisesCounted' /\ AmountsKnown'
  BY <1>1 DEF CatalogInv, CallsHold, LogShape, RaisesCounted, AmountsKnown
<1> QED
  BY <1>1, <1>2, <1>3 DEF CatalogInv

(* After an item, the next one or the end of the list.                     *)
LEMMA NextItemHolds ==
  ASSUME CatalogInv, NEW c \in Call, pc[c] \in {"update", "create"}, A!NextItem(c)
  PROVE  \E s \in {"idle", "find"}, h \in A!Local :
           /\ pc' = [pc EXCEPT ![c] = s] /\ local' = [local EXCEPT ![c] = h]
           /\ \A cat, ld : c \notin ld => Held(c, s, h, cat, ld)
<1> DEFINE items == local[c].todo
           none == [row |-> 0, amount |-> 0, seen |-> [i \in Item |-> 1], todo |-> {}]
           more == [local[c] EXCEPT !.row = 0, !.todo = @ \ {ItemAt(items)}]
<1>1. items # {} /\ local[c] \in A!Local /\ A!At(c) = ItemAt(items)
  BY CallOf DEF Held, HoldsItem, A!At, ItemAt
<1>2. ItemAt(items) \in items
  BY <1>1 DEF ItemAt
<1>3. CASE items = {ItemAt(items)}
  <2>1. A!Goto(c, "idle", none)
    BY <1>1, <1>3 DEF A!NextItem
  <2>2. pc' = [pc EXCEPT ![c] = "idle"] /\ local' = [local EXCEPT ![c] = none]
    BY <2>1 DEF A!Goto
  <2>3. none \in A!Local
    <3>1. 1 \in A!Price
      BY CatalogAssumption DEF A!Price, A!AdCatalogAssumption
    <3> QED
      BY <3>1 DEF A!Local
  <2> HIDE DEF none
  <2>4. \A cat, ld : c \notin ld => Held(c, "idle", none, cat, ld)
    BY DEF Held, HoldsRow, HoldsItem
  <2> QED
    BY <2>2, <2>3, <2>4
<1>4. CASE items # {ItemAt(items)}
  <2>1. A!Goto(c, "find", more)
    BY <1>1, <1>4 DEF A!NextItem
  <2>2. pc' = [pc EXCEPT ![c] = "find"] /\ local' = [local EXCEPT ![c] = more]
    BY <2>1 DEF A!Goto
  <2>3. more \in A!Local /\ more.todo = items \ {ItemAt(items)}
    BY <1>1 DEF A!Local
  <2>4. more.todo # {}
    BY <1>2, <1>4, <2>3
  <2> HIDE DEF more
  <2>5. \A cat, ld : c \notin ld => Held(c, "find", more, cat, ld)
    BY <2>4 DEF Held, HoldsRow, HoldsItem
  <2> QED
    BY <2>2, <2>3, <2>5
<1> QED
  BY <1>3, <1>4

(* What such a write finds.                                                *)
LEMMA ItemOf ==
  ASSUME CatalogInv, NEW c \in Call, pc[c] \in {"update", "create"}
  PROVE  /\ A!At(c) = ItemAt(local[c].todo) /\ A!At(c) \in Item /\ A!At(c) \notin Ad
         /\ local[c].seen[A!At(c)] \in A!Price
         /\ RowsTyped(catalog, paid) /\ RowsShow(catalog, log, applied)
         /\ BumpHolds(bump, log, applied, catalog, paid) /\ RowsCount(catalog, log, applied, paid)
         /\ ItemsBounded(catalog, pc, local) /\ CallsTyped(pc, local, loaded)
         /\ applied \in 0..Len(log) /\ Len(log) \in Nat /\ AboutRows(log, Len(catalog))
<1>1. local[c].todo # {} /\ local[c].todo \subseteq Item /\ local[c].seen \in [Item -> A!Price]
  BY CallOf DEF Held, HoldsItem
<1>2. A!At(c) = ItemAt(local[c].todo)
  BY DEF A!At, ItemAt
<1>3. ItemAt(local[c].todo) \in local[c].todo
  BY <1>1 DEF ItemAt
<1>4. A!At(c) \in Item /\ A!At(c) \notin Ad
  BY <1>1, <1>2, <1>3, CatalogAssumption DEF A!AdCatalogAssumption
<1>5. local[c].seen[A!At(c)] \in A!Price
  BY <1>1, <1>4
<1>6. /\ RowsTyped(catalog, paid) /\ RowsShow(catalog, log, applied)
      /\ BumpHolds(bump, log, applied, catalog, paid) /\ RowsCount(catalog, log, applied, paid)
      /\ ItemsBounded(catalog, pc, local) /\ CallsTyped(pc, local, loaded)
      /\ applied \in 0..Len(log) /\ LogTyped(log) /\ AboutRows(log, Len(catalog))
  BY DEF CatalogInv, Typed, LogShape
<1>7. Len(log) \in Nat
  BY <1>6, LenProperties DEF LogTyped
<1> QED
  BY <1>2, <1>4, <1>5, <1>6, <1>7

(* syncItems updates the row it found.                                     *)
LEMMA UpdateItemStep == ASSUME CatalogInv, NEW c \in Call, A!UpdateItem(c) PROVE CatalogInv'
<1> DEFINE r == local[c].row
           w == [catalog[r] EXCEPT !.price = local[c].seen[A!At(c)]]
<1>1. /\ pc[c] = "update" /\ A!NextItem(c) /\ catalog' = [catalog EXCEPT ![r] = w]
      /\ UNCHANGED <<log, applied, bump, paid, avito, loaded, ops, raised, behind>>
  BY DEF A!UpdateItem, A!count
<1>2. /\ A!At(c) \in Item /\ A!At(c) \notin Ad /\ A!At(c) = ItemAt(local[c].todo)
      /\ local[c].seen[A!At(c)] \in A!Price
      /\ RowsTyped(catalog, paid) /\ RowsShow(catalog, log, applied)
      /\ BumpHolds(bump, log, applied, catalog, paid) /\ RowsCount(catalog, log, applied, paid)
      /\ ItemsBounded(catalog, pc, local) /\ CallsTyped(pc, local, loaded)
  BY <1>1, ItemOf
<1>3. r \in 1..Len(catalog) /\ catalog[r].of = A!At(c)
  BY <1>1, <1>2, CallOf DEF Held, HoldsRow
<1>4. /\ w \in A!Row /\ w.of = catalog[r].of /\ w.messages = catalog[r].messages
      /\ w.spend = catalog[r].spend
  <2>1. catalog[r] \in A!Row
    BY <1>3, RowOf
  <2> QED
    BY <1>2, <2>1 DEF A!Row
<1> HIDE DEF w, r
<1>5. /\ catalog' \in Seq(A!Row) /\ Len(catalog') = Len(catalog) /\ Stay(catalog, catalog')
      /\ catalog'[r] = w /\ \A q \in 1..Len(catalog) \ {r} : catalog'[q] = catalog[q]
      /\ \A x : RowsIn(catalog', x) = RowsIn(catalog, x)
  BY <1>1, <1>3, <1>4, RowWritten
<1>6. \A q \in 1..Len(catalog) : /\ catalog'[q].of = catalog[q].of /\ catalog'[q].spend = catalog[q].spend
                                 /\ catalog'[q].messages = catalog[q].messages
  BY <1>4, <1>5
<1>7. RowsTyped(catalog', paid')
  BY <1>1, <1>2, <1>5 DEF RowsTyped
<1>8. RowsShow(catalog', log, applied)
  <2>1. ASSUME NEW q \in 1..Len(catalog) PROVE Shows(catalog'[q], log, applied)
    <3>1. Shows(catalog[q], log, applied)
      BY <1>2 DEF RowsShow
    <3>2. CASE q = r
      <4>1. catalog'[q].of \notin Ad
        BY <1>2, <1>3, <1>6, <3>2
      <4> QED
        BY <4>1 DEF Shows
    <3>3. CASE q # r
      BY <1>5, <3>1, <3>3
    <3> QED
      BY <3>2, <3>3
  <2> QED
    BY <1>2, <1>5, <1>6, <2>1 DEF RowsShow
<1>9. BumpHolds(bump, log, applied, catalog', paid')
  BY <1>1, <1>2, <1>5, <1>6 DEF BumpHolds
<1>10. RowsCount(catalog', log, applied, paid')
  BY <1>1, <1>2, <1>5, <1>6 DEF RowsCount, Counts
<1>11. PICK s \in {"idle", "find"}, h \in A!Local :
         /\ pc' = [pc EXCEPT ![c] = s] /\ local' = [local EXCEPT ![c] = h]
         /\ \A cat, ld : c \notin ld => Held(c, s, h, cat, ld)
  BY <1>1, NextItemHolds
<1>12. ItemsBounded(catalog', pc', local')
  <2>1. /\ pc'[c] = s /\ \A d \in Call \ {c} : pc'[d] = pc[d] /\ local'[d] = local[d]
    BY <1>2, <1>11 DEF CallsTyped
  <2>2. \A i : Creators(pc', local', i) = Creators(pc, local, i)
    BY <1>1, <2>1, CreatorsAre
  <2> QED
    BY <1>2, <1>5, <2>2 DEF ItemsBounded
<1> QED
  BY <1>1, <1>5, <1>7, <1>8, <1>9, <1>10, <1>11, <1>12, WriteStep

(* syncItems inserts a row where it found none.                            *)
LEMMA CreateItemStep == ASSUME CatalogInv, NEW c \in Call, A!CreateItem(c) PROVE CatalogInv'
<1> DEFINE item == A!At(c)
           price == local[c].seen[item]
           r == Len(catalog) + 1
<1>1. /\ pc[c] = "create" /\ A!NextItem(c) /\ A!Insert(item, price, "active")
      /\ UNCHANGED <<log, applied, bump, avito, loaded, ops, raised, behind>>
  BY DEF A!CreateItem, A!count
<1>2. /\ item \in Item /\ item \notin Ad /\ item = ItemAt(local[c].todo) /\ price \in A!Price
      /\ RowsTyped(catalog, paid) /\ RowsShow(catalog, log, applied)
      /\ BumpHolds(bump, log, applied, catalog, paid) /\ RowsCount(catalog, log, applied, paid)
      /\ ItemsBounded(catalog, pc, local) /\ CallsTyped(pc, local, loaded)
      /\ applied \in 0..Len(log) /\ Len(log) \in Nat /\ AboutRows(log, Len(catalog))
  BY <1>1, ItemOf
<1> HIDE DEF item, price
<1>3. /\ RowsTyped(catalog', paid') /\ Len(catalog) \in Nat /\ Len(catalog') = r
      /\ Stay(catalog, catalog')
      /\ \A q \in 1..Len(catalog) : catalog'[q] = catalog[q] /\ paid'[q] = paid[q]
      /\ catalog'[r] = [of |-> item, price |-> price, status |-> "active", messages |-> 0, spend |-> 0]
      /\ paid'[r] = [added |-> 0, under |-> 0]
      /\ \A y : y # item => RowsIn(catalog', y) = RowsIn(catalog, y)
      /\ RowsIn(catalog', item) = RowsIn(catalog, item) \cup {r}
      /\ r \notin RowsIn(catalog, item)
  BY <1>1, <1>2, RowAdded
<1>4. \A q : q \in 1..r <=> q \in 1..Len(catalog) \/ q = r
  BY <1>3
<1>5. catalog'[r].of = item /\ catalog'[r].messages = 0 /\ catalog'[r].spend = 0
      /\ paid'[r].added = 0 /\ paid'[r].under = 0
  BY <1>3
<1>6. RowsShow(catalog', log, applied)
  <2>1. \A q \in 1..r : Shows(catalog'[q], log, applied)
    <3>1. \A q \in 1..Len(catalog) : Shows(catalog'[q], log, applied)
      BY <1>2, <1>3 DEF RowsShow
    <3>2. Shows(catalog'[r], log, applied)
      BY <1>2, <1>5 DEF Shows
    <3> QED
      BY <1>4, <3>1, <3>2
  <2>2. \A q, s \in 1..r : catalog'[q].of = catalog'[s].of /\ catalog'[q].of \in Ad => q = s
    <3>1. \A q, s \in 1..Len(catalog) : catalog[q].of = catalog[s].of /\ catalog[q].of \in Ad => q = s
      BY <1>2 DEF RowsShow
    <3>2. \A q \in 1..Len(catalog) : catalog'[q].of = catalog[q].of
      BY <1>3
    <3>3. catalog'[r].of \notin Ad
      BY <1>2, <1>5
    <3> QED
      BY <1>4, <3>1, <3>2, <3>3
  <2>3. \A ad \in Ad : IsCreated(log, ad, applied) => \E q \in 1..r : catalog'[q].of = ad
    <3> SUFFICES ASSUME NEW ad \in Ad, IsCreated(log, ad, applied) PROVE \E q \in 1..r : catalog'[q].of = ad
      OBVIOUS
    <3>1. PICK q \in 1..Len(catalog) : catalog[q].of = ad
      BY <1>2 DEF RowsShow
    <3> QED
      BY <1>3, <1>4, <3>1
  <2> QED
    BY <1>3, <2>1, <2>2, <2>3 DEF RowsShow
<1>7. BumpHolds(bump, log, applied, catalog', paid')
  <2>1. bump # A!NoBump => bump.row \in 1..Len(catalog) /\ bump.row \in 1..Len(catalog')
    BY <1>2, <1>3, <1>4 DEF BumpHolds
  <2> QED
    BY <1>2, <1>3, <2>1 DEF BumpHolds
<1>8. RowsCount(catalog', log, applied, paid')
  <2> SUFFICES ASSUME NEW q \in 1..r PROVE Counts(q, log, applied, catalog'[q], paid'[q])
    BY <1>3 DEF RowsCount
  <2>1. CASE q \in 1..Len(catalog)
    BY <1>2, <1>3, <2>1 DEF RowsCount
  <2>2. CASE q = r
    <3>1. Tellings(log, "message", r, applied) = {}
      <4> SUFFICES ASSUME NEW i \in 1..applied, log[i].what = "message", log[i].of = r PROVE FALSE
        BY DEF Tellings
      <4>1. i \in 1..Len(log)
        BY <1>2
      <4>2. r \in 1..Len(catalog)
        BY <1>2, <4>1 DEF AboutRows
      <4> QED
        BY <1>3, <4>2
    <3>2. Cardinality(Tellings(log, "message", r, applied)) = 0
      BY <3>1, FS_EmptySet
    <3> QED
      BY <1>5, <2>2, <3>2 DEF Counts
  <2> QED
    BY <1>4, <2>1, <2>2
<1>9. PICK s \in {"idle", "find"}, h \in A!Local :
         /\ pc' = [pc EXCEPT ![c] = s] /\ local' = [local EXCEPT ![c] = h]
         /\ \A cat, ld : c \notin ld => Held(c, s, h, cat, ld)
  BY <1>1, NextItemHolds
<1>10. ItemsBounded(catalog', pc', local')
  <2>1. /\ pc'[c] = s /\ \A d \in Call \ {c} : pc'[d] = pc[d] /\ local'[d] = local[d]
    BY <1>2, <1>9 DEF CallsTyped
  <2>2. pc'[c] # "create"
    BY <2>1
  <2> SUFFICES ASSUME NEW i \in Item
               PROVE  Cardinality(RowsIn(catalog', i)) + Cardinality(Creators(pc', local', i)) <= Cardinality(Call)
    BY DEF ItemsBounded
  <2>3. /\ Creators(pc', local', i) = Creators(pc, local, i) \ {c}
        /\ IsFiniteSet(Creators(pc, local, i)) /\ Cardinality(Creators(pc, local, i)) \in Nat
        /\ i # item => c \notin Creators(pc, local, i)
        /\ i = item => c \in Creators(pc, local, i)
    BY <1>1, <1>2, <2>1, <2>2, CreatorsAre
  <2>4. Cardinality(RowsIn(catalog, i)) + Cardinality(Creators(pc, local, i)) <= Cardinality(Call)
    BY <1>2 DEF ItemsBounded
  <2>5. CASE i # item
    <3>1. Creators(pc', local', i) = Creators(pc, local, i) /\ RowsIn(catalog', i) = RowsIn(catalog, i)
      BY <1>3, <2>3, <2>5
    <3> QED
      BY <2>4, <3>1
  <2>6. CASE i = item
    <3>1. Cardinality(Creators(pc', local', i)) = Cardinality(Creators(pc, local, i)) - 1
      <4>1. c \in Creators(pc, local, i) /\ IsFiniteSet(Creators(pc, local, i))
        BY <2>3, <2>6
      <4>2. Cardinality(Creators(pc, local, i) \ {c}) = Cardinality(Creators(pc, local, i)) - 1
        BY <4>1, FS_RemoveElement
      <4> QED
        BY <2>3, <4>2
    <3>2. RowsIn(catalog, i) \subseteq 1..Len(catalog) /\ IsFiniteSet(1..Len(catalog))
      BY <1>3, FS_Interval DEF RowsIn
    <3>3. IsFiniteSet(RowsIn(catalog, i))
      BY <3>2, FS_Subset
    <3>4. Cardinality(RowsIn(catalog', i)) = Cardinality(RowsIn(catalog, i)) + 1
      BY <1>3, <2>6, <3>3, FS_AddElement
    <3>5. Cardinality(RowsIn(catalog, i)) \in Nat /\ Cardinality(Call) \in Nat
      BY <3>3, CallsFinite, FS_CardinalityType
    <3> QED
      BY <2>3, <2>4, <3>1, <3>4, <3>5
  <2> QED
    BY <2>5, <2>6
<1> QED
  BY <1>1, <1>3, <1>6, <1>7, <1>8, <1>9, <1>10, WriteStep

-----------------------------------------------------------------------------
(* The invariant.                                                          *)

(* It holds of an empty table.                                             *)
LEMMA CatalogStarts == A!Init => CatalogInv
<1> SUFFICES ASSUME A!Init PROVE CatalogInv
  OBVIOUS
<1>1. /\ log = <<>> /\ applied = 0 /\ bump = A!NoBump /\ catalog = <<>> /\ paid = <<>>
      /\ avito = [i \in Item |-> 1] /\ pc = [c \in Call |-> "idle"]
      /\ local = [c \in Call |-> [row |-> 0, amount |-> 0, seen |-> [i \in Item |-> 1], todo |-> {}]]
      /\ loaded = {} /\ ops = 0 /\ raised = [x \in Ad |-> 0] /\ behind = {}
  BY DEF A!Init
<1>2. {MaxOps, MaxMessages, MaxChanges} \subseteq Nat
  BY CatalogAssumption DEF A!AdCatalogAssumption
<1>3. 1 \in A!Price
  BY <1>2 DEF A!Price
<1>4. Len(log) = 0 /\ Len(catalog) = 0 /\ Len(paid) = 0
  BY <1>1, EmptySeq
<1>5. LogTyped(log) /\ RowsTyped(catalog, paid) /\ applied \in 0..Len(log)
  BY <1>1, <1>4, EmptySeq DEF LogTyped, RowsTyped
<1>6. BumpTyped(bump, Len(catalog)) /\ AvitoTyped(avito)
  BY <1>1, <1>3, <1>4 DEF BumpTyped, A!NoBump, AvitoTyped
<1>7. CallsTyped(pc, local, loaded)
  <2>1. [row |-> 0, amount |-> 0, seen |-> [i \in Item |-> 1], todo |-> {}] \in A!Local
    BY <1>3 DEF A!Local
  <2>2. "idle" \in A!Pc
    BY DEF A!Pc
  <2> QED
    BY <1>1, <2>1, <2>2 DEF CallsTyped
<1>8. CountsTyped(ops, raised, behind)
  BY <1>1, <1>2 DEF CountsTyped
<1>9. Typed
  BY <1>5, <1>6, <1>7, <1>8 DEF Typed
<1>10. \A c \in Call : pc[c] = "idle" /\ c \notin loaded
  BY <1>1
<1>11. CallsHold /\ AmountsKnown
  BY <1>10 DEF CallsHold, AmountsKnown, Held, HoldsRow, HoldsItem
<1>12. LogShape
  BY <1>4 DEF LogShape, Preceded, ToldOnce, AboutRows, WithinRaises
<1>13. \A x : ~IsCreated(log, x, 0)
  BY DEF IsCreated, Tellings
<1>14. RaisesCounted
  BY <1>1, <1>4, <1>13 DEF RaisesCounted, Counted
<1>15. OpsBound(pc, raised, ops)
  <2>1. Raising(pc) = {}
    BY <1>10 DEF Raising
  <2>2. Cardinality(Raising(pc)) = 0
    BY <2>1, FS_EmptySet
  <2> QED
    BY <1>1, <2>2 DEF OpsBound
<1>16. RowsShow(catalog, log, applied) /\ RowsCount(catalog, log, applied, paid)
  BY <1>1, <1>4, <1>13 DEF RowsShow, RowsCount
<1>17. BumpHolds(bump, log, applied, catalog, paid)
  BY <1>1 DEF BumpHolds
<1>18. ItemsBounded(catalog, pc, local)
  <2> SUFFICES ASSUME NEW i \in Item
               PROVE  Cardinality(RowsIn(catalog, i)) + Cardinality(Creators(pc, local, i)) <= Cardinality(Call)
    BY DEF ItemsBounded
  <2>1. RowsIn(catalog, i) = {} /\ Creators(pc, local, i) = {}
    BY <1>4, <1>10 DEF RowsIn, Creators
  <2>2. Cardinality(RowsIn(catalog, i)) = 0 /\ Cardinality(Creators(pc, local, i)) = 0
    BY <2>1, FS_EmptySet
  <2>3. Cardinality(Call) \in Nat
    BY CallsFinite, FS_CardinalityType
  <2> QED
    BY <2>2, <2>3
<1> QED
  BY <1>9, <1>11, <1>12, <1>14, <1>15, <1>16, <1>17, <1>18 DEF CatalogInv

(* Every step keeps it.                                                    *)
LEMMA CatalogStep == CatalogInv /\ [A!Next]_A!vars => CatalogInv'
<1> SUFFICES ASSUME CatalogInv, [A!Next]_A!vars PROVE CatalogInv'
  OBVIOUS
<1>1. CASE \E ad \in Ad : A!CreateAd(ad)
  BY <1>1, CreateAdStep
<1>2. ASSUME NEW c \in Call, A!Request(c) PROVE CatalogInv'
  BY <1>2, ReadRowStep, ArchiveStep, ImportSpendStep DEF A!Request
<1>3. ASSUME NEW c \in Call, A!ListItems(c) PROVE CatalogInv'
  BY <1>3, ListItemsStep
<1>4. ASSUME NEW c \in Call, A!Continue(c) PROVE CatalogInv'
  BY <1>4, LoadMissingStep, LoadStep, LoadArchiveStep, SaveStep, SaveArchivedStep, ConflictStep,
     AddSpendStep, FindItemStep, UpdateItemStep, CreateItemStep DEF A!Continue
<1>5. CASE A!Project
  BY <1>5, ProjectCreatedStep, ProjectChangeStep, BumpReadStep, BumpWriteStep DEF A!Project
<1>6. CASE A!Message \/ A!AvitoChanges
  BY <1>6, MessageStep, AvitoChangesStep
<1>7. CASE UNCHANGED A!vars
  BY <1>7, CatalogRests
<1> QED
  BY <1>1, <1>2, <1>3, <1>4, <1>5, <1>6, <1>7 DEF A!Next

(* The invariant holds of every behaviour of the catalogue.                *)
THEOREM CatalogInvariance == A!Spec => []CatalogInv
BY CatalogStarts, CatalogStep, PTL DEF A!Spec

(* What an ad and its row say follows from it.                             *)
LEMMA InvOfAds == CatalogInv => AdIsItsStream
<1> SUFFICES ASSUME CatalogInv PROVE AdIsItsStream
  OBVIOUS
<1>1. /\ Typed /\ RaisesCounted /\ ToldOnce(log) /\ WithinRaises(log, raised)
      /\ RowsShow(catalog, log, applied) /\ LogTyped(log) /\ CountsTyped(ops, raised, behind)
      /\ RowsTyped(catalog, paid)
  BY DEF CatalogInv, LogShape, Typed
<1>2. A!TypeOK
  BY <1>1, TypesAre
<1>3. Len(log) \in Nat
  BY <1>1, LenProperties DEF LogTyped
<1>4. A!RaisesAddUp
  <2> SUFFICES ASSUME NEW ad \in Ad, IsCreated(log, ad, Len(log))
               PROVE  /\ PriceIn(log, ad, Len(log)) <= 1 + raised[ad]
                      /\ ad \notin behind => PriceIn(log, ad, Len(log)) = 1 + raised[ad]
    BY ReadsAs DEF A!RaisesAddUp
  <2>1. PICK i \in 1..Len(log) : /\ log[i].what \in {"created", "price"} /\ log[i].of = ad
                                 /\ PriceIn(log, ad, Len(log)) = log[i].value
    BY <1>3, PriceIsTold
  <2>2. PriceIn(log, ad, Len(log)) <= 1 + raised[ad]
    BY <1>1, <2>1 DEF WithinRaises
  <2>3. ad \notin behind => PriceIn(log, ad, Len(log)) = 1 + raised[ad]
    BY <1>1 DEF RaisesCounted, Counted
  <2> QED
    BY <2>2, <2>3
<1>5. A!ArchivedOnce
  BY <1>1 DEF A!ArchivedOnce, A!Told, ToldOnce
<1>6. A!RowIsFold
  <2> SUFFICES ASSUME NEW ad \in Ad, A!Created(ad, applied)
               PROVE  /\ A!Cardinality(A!RowsOf(ad)) = 1
                      /\ \A r \in A!RowsOf(ad) :
                           /\ catalog[r].price = A!Priced(ad, applied)
                           /\ (catalog[r].status = "archived") = A!Archived(ad, applied)
    BY DEF A!RowIsFold
  <2>0. IsCreated(log, ad, applied)
    BY ReadsAs
  <2> SUFFICES /\ Cardinality(RowsIn(catalog, ad)) = 1
               /\ \A r \in RowsIn(catalog, ad) :
                    /\ catalog[r].price = PriceIn(log, ad, applied)
                    /\ (catalog[r].status = "archived") = IsArchived(log, ad, applied)
    <3>1. \A x : A!RowsOf(x) = RowsIn(catalog, x)
      BY RowsAre DEF A!RowsOf, RowsIn
    <3>2. A!Archived(ad, applied) = IsArchived(log, ad, applied)
      BY ReadsAs DEF A!Archived, IsArchived
    <3> QED
      BY <3>1, <3>2, ReadsAs, SameSizes
  <2>1. PICK r \in 1..Len(catalog) : catalog[r].of = ad
    BY <1>1, <2>0 DEF RowsShow
  <2>2. RowsIn(catalog, ad) = {r}
    BY <1>1, <2>1 DEF RowsIn, RowsShow
  <2>3. Cardinality(RowsIn(catalog, ad)) = 1
    BY <2>2, FS_Singleton
  <2>4. /\ catalog[r].price = PriceIn(log, ad, applied)
        /\ catalog[r].status = "archived" <=> IsArchived(log, ad, applied)
    BY <1>1, <2>1 DEF RowsShow, Shows
  <2>5. (catalog[r].status = "archived") = IsArchived(log, ad, applied)
    BY <2>4 DEF IsArchived
  <2> QED
    BY <2>2, <2>3, <2>4, <2>5
<1> QED
  BY <1>2, <1>4, <1>5, <1>6 DEF AdIsItsStream, A!AdIsItsStream

(* An ad is what its stream says, whoever writes at once: raises answered  *)
(* with ok are in its price unless they came from an outdated row, it is   *)
(* archived once, and its row shows what is projected (AdProjection).      *)
THEOREM AdsAreTheirStreams == A!Spec => []AdIsItsStream
BY CatalogInvariance, InvOfAds, PTL

(* Calls that found no row are counted beside the rows.                    *)
LEMMA InvOfItems == CatalogInv => A!ItemRowsBounded
<1> SUFFICES ASSUME CatalogInv, NEW i \in Item
             PROVE  Cardinality(RowsIn(catalog, i)) <= Cardinality(Call)
  <2>1. CatalogInv => \A x : A!RowsOf(x) = RowsIn(catalog, x)
    BY RowsAre DEF A!RowsOf, RowsIn
  <2> QED
    BY <2>1, SameSizes DEF A!ItemRowsBounded
<1>1. Cardinality(RowsIn(catalog, i)) + Cardinality(Creators(pc, local, i)) <= Cardinality(Call)
  BY DEF CatalogInv, ItemsBounded
<1>2. Len(catalog) \in Nat
  BY LenProperties DEF CatalogInv, Typed, RowsTyped
<1>3. IsFiniteSet(1..Len(catalog)) /\ RowsIn(catalog, i) \subseteq 1..Len(catalog)
  BY <1>2, FS_Interval DEF RowsIn
<1>4. IsFiniteSet(RowsIn(catalog, i)) /\ IsFiniteSet(Creators(pc, local, i))
  BY <1>3, CallsFinite, FS_Subset DEF Creators
<1>5. /\ Cardinality(RowsIn(catalog, i)) \in Nat /\ Cardinality(Creators(pc, local, i)) \in Nat
      /\ Cardinality(Call) \in Nat
  BY <1>4, CallsFinite, FS_CardinalityType
<1> QED
  BY <1>1, <1>5

(* So do the counters follow from it.                                      *)
LEMMA InvOfCounters == CatalogInv => CountersAccounted
<1> SUFFICES ASSUME CatalogInv PROVE CountersAccounted
  OBVIOUS
<1>1. RowsCount(catalog, log, applied, paid) /\ DOMAIN catalog = 1..Len(catalog)
  BY RowsAre DEF CatalogInv
<1>2. A!MessagesExact
  BY <1>1, SameSizes DEF A!MessagesExact, RowsCount, Counts, Tellings
<1>3. A!SpendAccounted
  BY <1>1 DEF A!SpendAccounted, RowsCount, Counts
<1> QED
  BY <1>2, <1>3, InvOfItems DEF CountersAccounted, A!CountersAccounted

(* No message is lost or counted twice, no import is lost but to a bump    *)
(* that overlaps it, and an item has no more rows than calls run at a time *)
(* (bump, importSpend, syncItems).                                         *)
THEOREM CountersAreAccounted == A!Spec => []CountersAccounted
BY CatalogInvariance, InvOfCounters, PTL
=============================================================================
