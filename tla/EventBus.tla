------------------------------ MODULE EventBus ------------------------------
(***************************************************************************)
(* EventBusService: one Redis stream capped at MAXLEN, a consumer group    *)
(* per kind of subscriber (workflow-engine, analytics-engine,              *)
(* intelligence-pipeline), and in every API instance one read loop per     *)
(* group that reads new entries in batches, hands each to the handler and  *)
(* acknowledges it.  Entries are named by their place in the stream.       *)
(* The Redis side (XADD, XREADGROUP, XACK, MAXLEN ~) is modelled from how  *)
(* the service uses it.                                                    *)
(***************************************************************************)
EXTENDS Integers, Sequences

CONSTANTS Group,       \* consumer groups
          Instance,    \* API instances
          Count,       \* most entries one XREADGROUP returns
          MaxLen,      \* MAXLEN of the stream
          MaxEntries   \* bound: entries added in one behaviour

ASSUME EventBusAssumption ==
  /\ Count \in Nat \ {0}
  /\ MaxLen \in Nat
  /\ MaxEntries \in Nat

VARIABLES
  added,      \* entries 1..added were added to the stream
  trimmed,    \* entries 1..trimmed were trimmed from it
  created,    \* created[g]: `added` when group g was created, -1 before that
  delivered,  \* delivered[g]: the group's last delivered entry
  pending,    \* pending[g]: its pending entries list
  loop,       \* loop[g][i]: where the read loop of instance i is
  batch,      \* batch[g][i]: entries received and not dealt with yet
  handled     \* handled[g]: entries whose handler ran to its end, in order

redis == <<added, trimmed, created, delivered, pending>>
vars  == <<redis, loop, batch, handled>>

Entry == 1..MaxEntries
Loop  == {"down", "reading", "handling", "acking", "backoff"}

TypeOK ==
  /\ added \in 0..MaxEntries
  /\ trimmed \in 0..added
  /\ created \in [Group -> -1..added]
  /\ delivered \in [Group -> 0..added]
  /\ pending \in [Group -> SUBSET (1..added)]
  /\ loop \in [Group -> [Instance -> Loop]]
  /\ batch \in [Group -> [Instance -> Seq(1..added)]]
  /\ handled \in [Group -> Seq(1..added)]
  /\ \A g \in Group, i \in Instance :
       (loop[g][i] \in {"handling", "acking"}) = (batch[g][i] # <<>>)

Init ==
  /\ added = 0
  /\ trimmed = 0
  /\ created = [g \in Group |-> -1]
  /\ delivered = [g \in Group |-> 0]
  /\ pending = [g \in Group |-> {}]
  /\ loop = [g \in Group |-> [i \in Instance |-> "down"]]
  /\ batch = [g \in Group |-> [i \in Instance |-> <<>>]]
  /\ handled = [g \in Group |-> <<>>]

-----------------------------------------------------------------------------
(* XADD ... MAXLEN ~: the stream may be trimmed, but not below MaxLen.     *)
Publish ==
  /\ added < MaxEntries
  /\ added' = added + 1
  /\ trimmed' \in {t \in trimmed..added' : t = trimmed \/ added' - t >= MaxLen}
  /\ UNCHANGED <<created, delivered, pending, loop, batch, handled>>

(* XGROUP CREATE at '$'; BUSYGROUP leaves an existing group as it is.      *)
EnsureGroup(g) ==
  IF created[g] = -1
  THEN /\ created' = [created EXCEPT ![g] = added]
       /\ delivered' = [delivered EXCEPT ![g] = added]
  ELSE UNCHANGED <<created, delivered>>

(* subscribe(): at bootstrap, and after the process was restarted. *)
Subscribe(g, i) ==
  /\ loop[g][i] = "down"
  /\ EnsureGroup(g)
  /\ loop' = [loop EXCEPT ![g][i] = "reading"]
  /\ UNCHANGED <<added, trimmed, pending, batch, handled>>

(* Mutant of LastRead: a full batch is always assumed. *)
LastRead_PastEnd(g) ==
  (IF delivered[g] > trimmed THEN delivered[g] ELSE trimmed) + Count

(* XREADGROUP '>' returns entries never delivered to the group, if they    *)
(* are still there, at most Count of them.                                 *)
FirstUnread(g) == 1 + (IF delivered[g] > trimmed THEN delivered[g] ELSE trimmed)

LastRead(g) ==
  IF added < FirstUnread(g) + Count THEN added ELSE FirstUnread(g) + Count - 1

NextEntries(g) ==
  [k \in 1..(LastRead(g) - FirstUnread(g) + 1) |-> FirstUnread(g) + k - 1]

(* The group remembers what it delivers until it is acknowledged. *)
Deliver(g) ==
  /\ FirstUnread(g) <= added
  /\ delivered' = [delivered EXCEPT ![g] = LastRead(g)]
  /\ pending' = [pending EXCEPT ![g] = @ \cup FirstUnread(g)..LastRead(g)]
  /\ UNCHANGED <<added, trimmed, created>>

Read(g, i) ==
  /\ loop[g][i] = "reading"
  /\ Deliver(g)
  /\ batch' = [batch EXCEPT ![g][i] = NextEntries(g)]
  /\ loop' = [loop EXCEPT ![g][i] = "handling"]
  /\ UNCHANGED handled

(* The read throws: with nothing delivered, or with the reply lost on its  *)
(* way.  The loop waits a second.                                          *)
ReadFails(g, i) ==
  /\ loop[g][i] = "reading"
  /\ Deliver(g) \/ UNCHANGED redis
  /\ loop' = [loop EXCEPT ![g][i] = "backoff"]
  /\ UNCHANGED <<batch, handled>>

Retry(g, i) ==
  /\ loop[g][i] = "backoff"
  /\ loop' = [loop EXCEPT ![g][i] = "reading"]
  /\ UNCHANGED <<redis, batch, handled>>

(* The handler resolves; the acknowledgement comes next. *)
Handle(g, i) ==
  /\ loop[g][i] = "handling"
  /\ handled' = [handled EXCEPT ![g] = Append(@, Head(batch[g][i]))]
  /\ loop' = [loop EXCEPT ![g][i] = "acking"]
  /\ UNCHANGED <<redis, batch>>

(* On to the next entry of the batch, or to the next read. *)
NextInBatch(g, i) ==
  /\ batch' = [batch EXCEPT ![g][i] = Tail(@)]
  /\ loop' = [loop EXCEPT ![g][i] = IF Len(batch[g][i]) = 1 THEN "reading"
                                                            ELSE "handling"]

(* Mutant of Ack: the batch is acknowledged with its first entry. *)
Ack_WholeBatch(g, i) ==
  /\ loop[g][i] = "acking"
  /\ pending' = [pending EXCEPT ![g] = @ \ {batch[g][i][k] : k \in 1..Len(batch[g][i])}]
  /\ NextInBatch(g, i)
  /\ UNCHANGED <<added, trimmed, created, delivered, handled>>

Ack(g, i) ==
  /\ loop[g][i] = "acking"
  /\ pending' = [pending EXCEPT ![g] = @ \ {Head(batch[g][i])}]
  /\ NextInBatch(g, i)
  /\ UNCHANGED <<added, trimmed, created, delivered, handled>>

(* Mutant of HandlerThrows: the error leaves the read loop. *)
HandlerThrows_EndsLoop(g, i) ==
  /\ loop[g][i] = "handling"
  /\ batch' = [batch EXCEPT ![g][i] = <<>>]
  /\ loop' = [loop EXCEPT ![g][i] = "ended"]
  /\ UNCHANGED <<redis, handled>>

(* The handler rejects: logged, the entry stays pending, the loop goes on. *)
HandlerThrows(g, i) ==
  /\ loop[g][i] = "handling"
  /\ NextInBatch(g, i)
  /\ UNCHANGED <<redis, handled>>

(* XACK rejects, before or after Redis ran it: caught in the same place.   *)
AckFails(g, i) ==
  /\ loop[g][i] = "acking"
  /\ pending' \in {pending, [pending EXCEPT ![g] = @ \ {Head(batch[g][i])}]}
  /\ NextInBatch(g, i)
  /\ UNCHANGED <<added, trimmed, created, delivered, handled>>

(* The process dies: every loop of the instance, and the batches with it.  *)
Crash(i) ==
  /\ \E g \in Group : loop[g][i] # "down"
  /\ loop' = [g \in Group |-> [loop[g] EXCEPT ![i] = "down"]]
  /\ batch' = [g \in Group |-> [batch[g] EXCEPT ![i] = <<>>]]
  /\ UNCHANGED <<redis, handled>>

Consume(g, i) == Read(g, i) \/ Retry(g, i) \/ Handle(g, i) \/ Ack(g, i)

ConsumerFails(g, i) == ReadFails(g, i) \/ HandlerThrows(g, i) \/ AckFails(g, i)

Next ==
  \/ Publish
  \/ \E i \in Instance :
       \/ Crash(i)
       \/ \E g \in Group : Subscribe(g, i) \/ Consume(g, i) \/ ConsumerFails(g, i)

Spec == Init /\ [][Next]_vars

(* A process that died is started again (pm2 autorestart), and a loop      *)
(* whose process lives runs on.  A handler either resolves or rejects.     *)
Fairness ==
  \A g \in Group, i \in Instance :
    /\ SF_vars(Subscribe(g, i))
    /\ SF_vars(Read(g, i))
    /\ WF_vars(Consume(g, i))

FairSpec == Spec /\ Fairness

-----------------------------------------------------------------------------
Received(g) == {handled[g][k] : k \in 1..Len(handled[g])}

(* A group handles an entry at most once: competing instances share the    *)
(* feed, and neither a retry nor a restart repeats a side effect of a      *)
(* handler (a workflow, an automation).                                    *)
HandledOnce ==
  \A g \in Group : \A j, k \in 1..Len(handled[g]) :
    handled[g][j] = handled[g][k] => j = k

(* No silent loss once an entry was handed out: what the group has         *)
(* delivered is handled, or is still on its pending list; a crash, a lost  *)
(* reply or a rejecting handler never takes it off.                        *)
DeliveredIsAccounted ==
  \A g \in Group : \A e \in (created[g] + 1)..delivered[g] :
    created[g] # -1 => e \in Received(g) \/ e \in pending[g] \/ e <= trimmed

(* What a group is handed is handled once or stays on its pending list.    *)
HandedOutOnce == HandledOnce /\ DeliveredIsAccounted

(* Every entry added once a group exists is handed out, or trimmed before  *)
(* it could be: a failing handler or a dying instance does not stop the    *)
(* group's feed.                                                           *)
FeedGoesOn ==
  \A g \in Group, e \in Entry :
    created[g] # -1 /\ e <= added ~> e <= delivered[g] \/ e <= trimmed
=============================================================================
