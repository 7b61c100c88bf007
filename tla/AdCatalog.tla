----------------------------- MODULE AdCatalog -----------------------------
(***************************************************************************)
(* The ads: aggregates with commands, the table ad_read_model, and the     *)
(* four who write it: AdProjection, the live sync worker `items`, the      *)
(* budget import, and Advertisement Studio with the bulk operations.       *)
(*                                                                         *)
(* An ad created here has a stream and a row without an external id        *)
(* (nothing calls AdsService.publish); an item found on Avito has a row    *)
(* and no stream.  The projection adds to counters by reading the row and  *)
(* writing it back, at the isolation level read committed.  Titles,        *)
(* regions and categories, which Studio and the bulk operations write      *)
(* straight to the row, are columns no one else changes after the insert   *)
(* but the sync, and are left out, as are the derived metrics.             *)
(***************************************************************************)
EXTENDS Integers, Sequences, FiniteSets, SequencesExt

CONSTANTS Ad,            \* ads with a stream
          Item,          \* items of the Avito account
          Call,          \* calls under way: requests, runs of the items worker
          MaxOps,        \* bound on requests
          MaxMessages,   \* bound on messages about an item
          MaxChanges     \* bound on price changes on Avito

(* Assumed where the constants get their values (MCCatalog).              *)
AdCatalogAssumption ==
  /\ IsFiniteSet(Ad) /\ IsFiniteSet(Item) /\ Ad \cap Item = {}
  /\ IsFiniteSet(Call)
  /\ {MaxOps, MaxMessages, MaxChanges} \subseteq Nat

VARIABLES
  log,       \* events of all streams, in global order
  applied,   \* how many of them AdProjection has projected
  bump,      \* what bump read of a row it has not written yet
  rows,      \* ad_read_model
  paid,      \* history: imports added to each row, and those added under a bump
  avito,     \* price of each item on Avito
  pc, local, \* next step of each call, and what it holds
  current,   \* calls whose load of the aggregate is current
  ops,       \* requests so far
  raised,    \* history: raises of each ad that were answered with ok
  behind     \* history: ads a raise was computed for from an outdated price

calls == <<pc, local, current>>
count == <<ops, raised, behind>>
vars  == <<log, applied, bump, rows, paid, avito, calls, count>>

Price == 1..(1 + MaxOps + MaxChanges)
Row   == [of : Ad \cup Item, price : Price, status : {"draft", "active", "archived"},
          messages : Nat, spend : Nat]
Event == [what : {"created", "price", "archived"}, of : Ad, value : Price]
           \cup [what : {"message"}, of : Nat, value : {0}]
Local == [row : Nat, amount : Nat, seen : [Item -> Price], todo : SUBSET Item]
NoBump == [row |-> 0, messages |-> 0, spend |-> 0]
Pc    == {"idle", "load", "save", "loadArchive", "archive", "add", "find", "update", "create"}

TypeOK ==
  /\ log \in Seq(Event)
  /\ applied \in 0..Len(log)
  /\ bump \in [row : 0..Len(rows), messages : Nat, spend : Nat]
  /\ rows \in Seq(Row)
  /\ paid \in Seq([added : Nat, under : Nat]) /\ Len(paid) = Len(rows)
  /\ avito \in [Item -> Price]
  /\ pc \in [Call -> Pc] /\ local \in [Call -> Local] /\ current \subseteq Call
  /\ ops \in 0..MaxOps /\ raised \in [Ad -> 0..MaxOps] /\ behind \subseteq Ad

Init ==
  /\ log = <<>> /\ applied = 0 /\ bump = NoBump
  /\ rows = <<>> /\ paid = <<>>
  /\ avito = [i \in Item |-> 1]
  /\ pc = [c \in Call |-> "idle"]
  /\ local = [c \in Call |-> [row |-> 0, amount |-> 0, seen |-> [i \in Item |-> 1], todo |-> {}]]
  /\ current = {}
  /\ ops = 0 /\ raised = [a \in Ad |-> 0] /\ behind = {}

-----------------------------------------------------------------------------
(* Streams and rows.                                                       *)

(* Where events of an ad are among the first n of the log.                 *)
Told(ad, what, n) == {i \in 1..n : log[i].what = what /\ log[i].of = ad}

(* AdAggregate.apply.                                                      *)
Created(ad, n)  == Told(ad, "created", n) # {}
Archived(ad, n) == Told(ad, "archived", n) # {}
Priced(ad, n)   == log[Max(Told(ad, "created", n) \cup Told(ad, "price", n))].value

RowsOf(x) == {r \in DOMAIN rows : rows[r].of = x}

Goto(c, step, holds) ==
  /\ pc' = [pc EXCEPT ![c] = step]
  /\ local' = [local EXCEPT ![c] = holds]

Done(c) == Goto(c, "idle", [local[c] EXCEPT !.row = 0, !.amount = 0])

Insert(x, price, status) ==
  /\ rows' = Append(rows, [of |-> x, price |-> price, status |-> status, messages |-> 0, spend |-> 0])
  /\ paid' = Append(paid, [added |-> 0, under |-> 0])

Tell(what, of, value) == log' = Append(log, [what |-> what, of |-> of, value |-> value])

Ask == ops < MaxOps /\ ops' = ops + 1

-----------------------------------------------------------------------------
(* Commands.  A save succeeds if no other came between load and save.      *)

CreateAd(ad) ==
  /\ ~Created(ad, Len(log))
  /\ Tell("created", ad, 1)
  /\ UNCHANGED <<applied, bump, rows, paid, avito, calls, count>>

(* Bulk price_change by one: the amount comes from the row.                *)
ReadRow(c) ==
  /\ pc[c] = "idle" /\ Ask
  /\ \E r \in DOMAIN rows :
       Goto(c, "load", [local[c] EXCEPT !.row = r, !.amount = rows[r].price + 1])
  /\ UNCHANGED <<log, applied, bump, rows, paid, avito, current, raised, behind>>

(* loadOrThrow: a row without a stream is answered with an error.          *)
LoadMissing(c) ==
  /\ pc[c] \in {"load", "loadArchive"} /\ rows[local[c].row].of \in Item
  /\ Done(c)
  /\ UNCHANGED <<log, applied, bump, rows, paid, avito, current, count>>

Load(c) ==
  LET ad == rows[local[c].row].of IN
  /\ pc[c] = "load" /\ ad \in Ad
  /\ behind' = IF local[c].amount = Priced(ad, Len(log)) + 1 THEN behind ELSE behind \cup {ad}
  /\ IF local[c].amount = Priced(ad, Len(log))
     THEN Done(c) /\ raised' = [raised EXCEPT ![ad] = @ + 1] /\ UNCHANGED current
     ELSE /\ Goto(c, "save", local[c])
          /\ current' = current \cup {c}
          /\ UNCHANGED raised
  /\ UNCHANGED <<log, applied, bump, rows, paid, avito, ops>>

LoadArchive(c) ==
  LET ad == rows[local[c].row].of IN
  /\ pc[c] = "loadArchive" /\ ad \in Ad
  /\ IF Archived(ad, Len(log))
     THEN Done(c) /\ UNCHANGED current
     ELSE Goto(c, "archive", local[c]) /\ current' = current \cup {c}
  /\ UNCHANGED <<log, applied, bump, rows, paid, avito, count>>

(* The others who loaded this ad are too late now.                         *)
Overtaken(ad) == {d \in current : rows[local[d].row].of = ad}

(* Mutant: the save does not compare versions.                             *)
BlindSave(c) ==
  LET ad == rows[local[c].row].of IN
  /\ pc[c] = "save"
  /\ Tell("price", ad, local[c].amount)
  /\ current' = current \ Overtaken(ad)
  /\ raised' = [raised EXCEPT ![ad] = @ + 1]
  /\ Done(c)
  /\ UNCHANGED <<applied, bump, rows, paid, avito, ops, behind>>

Save(c) ==
  LET ad == rows[local[c].row].of IN
  /\ pc[c] = "save" /\ c \in current
  /\ Tell("price", ad, local[c].amount)
  /\ current' = current \ Overtaken(ad)
  /\ raised' = [raised EXCEPT ![ad] = @ + 1]
  /\ Done(c)
  /\ UNCHANGED <<applied, bump, rows, paid, avito, ops, behind>>

(* Archiving needs only the id.                                            *)
Archive(c) ==
  /\ pc[c] = "idle" /\ Ask
  /\ \E r \in DOMAIN rows : Goto(c, "loadArchive", [local[c] EXCEPT !.row = r])
  /\ UNCHANGED <<log, applied, bump, rows, paid, avito, current, raised, behind>>

SaveArchived(c) ==
  LET ad == rows[local[c].row].of IN
  /\ pc[c] = "archive" /\ c \in current
  /\ Tell("archived", ad, Priced(ad, Len(log)))
  /\ current' = current \ Overtaken(ad)
  /\ Done(c)
  /\ UNCHANGED <<applied, bump, rows, paid, avito, count>>

Conflict(c) ==
  /\ pc[c] \in {"save", "archive"} /\ c \notin current
  /\ Done(c)
  /\ UNCHANGED <<log, applied, bump, rows, paid, avito, current, count>>

-----------------------------------------------------------------------------
(* AvitoBudgetService.importSpend of one unit: the import row, the         *)
(* increment of the ad's row, the event (of a stream of its own).          *)

ImportSpend(c) ==
  /\ pc[c] = "idle" /\ Ask
  /\ \E r \in DOMAIN rows : Goto(c, "add", [local[c] EXCEPT !.row = r])
  /\ UNCHANGED <<log, applied, bump, rows, paid, avito, current, raised, behind>>

Increment(r) ==
  /\ rows' = [rows EXCEPT ![r].spend = @ + 1]
  /\ paid' = [paid EXCEPT ![r].added = @ + 1, ![r].under = IF bump.row = r THEN @ + 1 ELSE @]

(* The increment; if it rejects, the import stays on record without it.    *)
AddSpend(c) ==
  /\ pc[c] = "add"
  /\ Increment(local[c].row) \/ UNCHANGED <<rows, paid>>
  /\ Done(c)
  /\ UNCHANGED <<log, applied, bump, avito, current, count>>

-----------------------------------------------------------------------------
(* AdProjection.                                                           *)

Event1 == log[applied + 1]

Behind == applied < Len(log) /\ bump = NoBump

ProjectCreated ==
  /\ Behind /\ Event1.what = "created"
  /\ Insert(Event1.of, Event1.value, "draft")
  /\ applied' = applied + 1
  /\ UNCHANGED <<log, bump, avito, calls, count>>

ProjectChange ==
  /\ Behind /\ Event1.what \in {"price", "archived"}
  /\ \E r \in RowsOf(Event1.of) :
       rows' = IF Event1.what = "price" THEN [rows EXCEPT ![r].price = Event1.value]
               ELSE [rows EXCEPT ![r].status = "archived"]
  /\ applied' = applied + 1
  /\ UNCHANGED <<log, bump, paid, avito, calls, count>>

(* bump: findUnique, and later update with the sums.                       *)
BumpRead ==
  /\ Behind /\ Event1.what = "message"
  /\ bump' = [row |-> Event1.of, messages |-> rows[Event1.of].messages,
              spend |-> rows[Event1.of].spend]
  /\ UNCHANGED <<log, applied, rows, paid, avito, calls, count>>

BumpWrite ==
  /\ bump # NoBump
  /\ rows' = [rows EXCEPT ![bump.row].messages = bump.messages + 1, ![bump.row].spend = bump.spend]
  /\ applied' = applied + 1
  /\ bump' = NoBump
  /\ UNCHANGED <<log, paid, avito, calls, count>>

Project == ProjectCreated \/ ProjectChange \/ BumpRead \/ BumpWrite

(* receiveInbound about an ad the CRM bridge found by its item.            *)
Message ==
  /\ Cardinality({i \in DOMAIN log : log[i].what = "message"}) < MaxMessages
  /\ \E r \in DOMAIN rows : rows[r].of \in Item /\ Tell("message", r, 0)
  /\ UNCHANGED <<applied, bump, rows, paid, avito, calls, count>>

-----------------------------------------------------------------------------
(* Live sync, worker `items`: the list, then find, update or create.       *)

AvitoChanges ==
  /\ \E i \in Item : avito[i] <= MaxChanges /\ avito' = [avito EXCEPT ![i] = @ + 1]
  /\ UNCHANGED <<log, applied, bump, rows, paid, calls, count>>

ListItems(s) ==
  /\ pc[s] = "idle" /\ Item # {}
  /\ Goto(s, "find", [local[s] EXCEPT !.seen = avito, !.todo = Item])
  /\ UNCHANGED <<log, applied, bump, rows, paid, avito, current, count>>

(* The item a call is at.                                                  *)
At(s) == CHOOSE i \in local[s].todo : TRUE

FindItem(s) ==
  /\ pc[s] = "find"
  /\ \/ \E r \in RowsOf(At(s)) : Goto(s, "update", [local[s] EXCEPT !.row = r])
     \/ RowsOf(At(s)) = {} /\ Goto(s, "create", local[s])
  /\ UNCHANGED <<log, applied, bump, rows, paid, avito, current, count>>

NextItem(s) ==
  IF local[s].todo = {At(s)}
  THEN Goto(s, "idle", [row |-> 0, amount |-> 0, seen |-> [i \in Item |-> 1], todo |-> {}])
  ELSE Goto(s, "find", [local[s] EXCEPT !.row = 0, !.todo = @ \ {At(s)}])

(* Mutant: the row is replaced, its counters with it.                      *)
ReplaceItem(s) ==
  /\ pc[s] = "update"
  /\ rows' = [rows EXCEPT ![local[s].row] =
                [@ EXCEPT !.price = local[s].seen[At(s)], !.messages = 0, !.spend = 0]]
  /\ NextItem(s)
  /\ UNCHANGED <<log, applied, bump, paid, avito, current, count>>

(* Mutant: the update leaves the price out.                                *)
UpdateTitle(s) ==
  /\ pc[s] = "update"
  /\ NextItem(s)
  /\ UNCHANGED <<log, applied, bump, rows, paid, avito, current, count>>

UpdateItem(s) ==
  /\ pc[s] = "update"
  /\ rows' = [rows EXCEPT ![local[s].row].price = local[s].seen[At(s)]]
  /\ NextItem(s)
  /\ UNCHANGED <<log, applied, bump, paid, avito, current, count>>

CreateItem(s) ==
  /\ pc[s] = "create"
  /\ Insert(At(s), local[s].seen[At(s)], "active")
  /\ NextItem(s)
  /\ UNCHANGED <<log, applied, bump, avito, current, count>>

Request(c) == ReadRow(c) \/ Archive(c) \/ ImportSpend(c)

Continue(c) ==
  \/ LoadMissing(c) \/ Load(c) \/ LoadArchive(c) \/ Save(c) \/ SaveArchived(c) \/ Conflict(c)
  \/ AddSpend(c) \/ FindItem(c) \/ UpdateItem(c) \/ CreateItem(c)

Next ==
  \/ \E ad \in Ad : CreateAd(ad)
  \/ \E c \in Call : Request(c) \/ ListItems(c) \/ Continue(c)
  \/ Project \/ Message \/ AvitoChanges

(* The projection polls, the scheduler starts the worker again and again,  *)
(* every await settles.                                                    *)
Spec == /\ Init /\ [][Next]_vars
        /\ WF_vars(Project)
        /\ \A c \in Call : WF_vars(ListItems(c) \/ Continue(c))

-----------------------------------------------------------------------------
(* Properties.                                                             *)

(* Optimistic concurrency does not protect an amount computed from a row.  *)
(* Raises that were answered with ok add up on every ad whose raises all   *)
(* came from the price the aggregate had when it was loaded, and never     *)
(* take a price further than they ask for (bulk price_change).             *)
RaisesAddUp ==
  \A ad \in Ad : Created(ad, Len(log)) =>
    /\ Priced(ad, Len(log)) <= 1 + raised[ad]
    /\ ad \notin behind => Priced(ad, Len(log)) = 1 + raised[ad]

(* Two archive requests at once: one event, one error (archive).           *)
ArchivedOnce ==
  \A ad \in Ad : \A i, j \in Told(ad, "archived", Len(log)) : i = j

(* Whoever else writes the table, the row of an ad with a stream shows the *)
(* fold of the events projected so far, and there is one (AdProjection).   *)
RowIsFold ==
  \A ad \in Ad : Created(ad, applied) =>
    /\ Cardinality(RowsOf(ad)) = 1
    /\ \A r \in RowsOf(ad) : /\ rows[r].price = Priced(ad, applied)
                             /\ (rows[r].status = "archived") = Archived(ad, applied)

(* An ad is what its stream says, whoever writes at once: raises that were *)
(* answered with ok are in its price unless the row they were computed from*)
(* was behind, it is archived once, and its row shows what is projected    *)
(* (bulk price_change, archive, AdProjection).                             *)
AdIsItsStream == TypeOK /\ RaisesAddUp /\ ArchivedOnce /\ RowIsFold

(* bump writes back what it read, yet no message is lost or counted twice, *)
(* because nobody else writes that counter (bump).                         *)
MessagesExact ==
  \A r \in DOMAIN rows :
    rows[r].messages = Cardinality({i \in 1..applied : log[i].what = "message" /\ log[i].of = r})

(* The spend of a row is the sum of the increments, except for those that  *)
(* came between bump's read and its write: bump may overwrite them, and    *)
(* nothing else does (importSpend, bump).                                  *)
SpendAccounted ==
  \A r \in DOMAIN rows :
    rows[r].spend \in (paid[r].added - paid[r].under)..paid[r].added

(* No key on externalId: overlapping runs insert an item more than once,   *)
(* but never more often than calls run at a time (syncItems).              *)
ItemRowsBounded == \A i \in Item : Cardinality(RowsOf(i)) <= Cardinality(Call)

(* What several writers may lose or double is bounded: the counters of a   *)
(* row lose nothing but the imports that a bump overlaps, and an item has  *)
(* no more rows than calls run at a time (bump, importSpend, syncItems).   *)
CountersAccounted == MessagesExact /\ SpendAccounted /\ ItemRowsBounded

(* A run with an old list may overwrite the price of a later one; still,   *)
(* once Avito is quiet, each item has a row that shows its price and keeps *)
(* doing so.                                                               *)
ItemsShown ==
  \A i \in Item :
    <>[](avito[i] = MaxChanges + 1 => \E r \in RowsOf(i) : rows[r].price = avito[i])
=============================================================================
