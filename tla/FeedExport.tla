---------------------------- MODULE FeedExport -----------------------------
(***************************************************************************)
(* The feed of an account: AvitoOperationsFeedService.exportFeed reads ads *)
(* and texts, stores the file, records the export under the next version   *)
(* and only then marks its ads exported one by one; meanwhile operators    *)
(* edit texts and ask for ads to be exported (prepare_feed).               *)
(*                                                                         *)
(* A text is the number of times it was edited.                            *)
(***************************************************************************)
EXTENDS Integers, FiniteSets

CONSTANTS Ad, Call,
          MaxEdits,      \* bound on edits of each text
          MaxExports     \* bound on calls of exportFeed

FeedExportAssumption ==
  /\ IsFiniteSet(Call)
  /\ MaxEdits \in Nat /\ MaxExports \in Nat

None == -1

VARIABLES
  enrichment,  \* of each ad: text and feedStatus
  exports,     \* export rows: version and the text of each ad in the file
  pc,          \* next step of each export
  file,        \* texts it has read: of each ad, None when it leaves it out
  version,     \* newest version it has found
  todo,        \* ads it has not marked yet
  asked,       \* text of an ad when prepare_feed last marked it, or None
  crossed,     \* an export that had read the ad was under way then
  begun        \* exports begun

export == <<pc, file, version, todo>>
vars   == <<enrichment, exports, export, asked, crossed, begun>>

Texts == 0..MaxEdits
Files == [Ad -> Texts \cup {None}]

TypeOK ==
  /\ enrichment \in [Ad -> [text : Texts, feedStatus : {"pending", "ready", "exported"}]]
  /\ exports \subseteq [by : Call, version : 1..MaxExports, file : Files]
  /\ pc \in [Call -> {"idle", "store", "last", "create", "mark"}]
  /\ file \in [Call -> Files] /\ version \in [Call -> 0..MaxExports]
  /\ todo \in [Call -> SUBSET Ad]
  /\ asked \in Files /\ crossed \in [Ad -> BOOLEAN] /\ begun \in 0..MaxExports

Nothing == [a \in Ad |-> None]

Init ==
  /\ enrichment = [a \in Ad |-> [text |-> 0, feedStatus |-> "pending"]]
  /\ exports = {}
  /\ pc = [c \in Call |-> "idle"] /\ file = [c \in Call |-> Nothing]
  /\ version = [c \in Call |-> 0] /\ todo = [c \in Call |-> {}]
  /\ asked = Nothing /\ crossed = [a \in Ad |-> FALSE] /\ begun = 0

-----------------------------------------------------------------------------
Goto(c, step) == pc' = [pc EXCEPT ![c] = step]

Leave(c) ==
  /\ Goto(c, "idle")
  /\ file' = [file EXCEPT ![c] = Nothing] /\ version' = [version EXCEPT ![c] = 0]
  /\ todo' = [todo EXCEPT ![c] = {}]

(* An export under way that has the ad in its file and has not marked it.  *)
Carries(c, a) == pc[c] # "idle" /\ a \in todo[c]

(* upsertEnrichment with a text: feedStatus is left as it is.              *)
Edit(a) ==
  /\ enrichment[a].text < MaxEdits
  /\ enrichment' = [enrichment EXCEPT ![a].text = @ + 1]
  /\ UNCHANGED <<exports, export, asked, crossed, begun>>

(* prepare_feed.                                                           *)
Prepare(a) ==
  /\ enrichment' = [enrichment EXCEPT ![a].feedStatus = "ready"]
  /\ asked' = [asked EXCEPT ![a] = enrichment[a].text]
  /\ crossed' = [crossed EXCEPT ![a] = \E c \in Call : Carries(c, a)]
  /\ UNCHANGED <<exports, export, begun>>

(* exportFeed, of the ads named in the request: the second of its reads,   *)
(* that of the texts.  The ads' own rows are read an await earlier, and    *)
(* nothing here writes them.                                               *)
Read(c, ads) ==
  /\ pc[c] = "idle" /\ ads # {} /\ begun < MaxExports
  /\ Goto(c, "store") /\ begun' = begun + 1
  /\ file' = [file EXCEPT ![c] = [a \in Ad |-> IF a \in ads THEN enrichment[a].text ELSE None]]
  /\ todo' = [todo EXCEPT ![c] = ads]
  /\ UNCHANGED <<enrichment, exports, version, asked, crossed>>

(* Mutant of Store: the ads are marked with the file, before the row.      *)
StoreAndMark(c) ==
  /\ pc[c] = "store" /\ Goto(c, "last")
  /\ enrichment' = [a \in Ad |->
       IF a \in todo[c] THEN [enrichment[a] EXCEPT !.feedStatus = "exported"] ELSE enrichment[a]]
  /\ UNCHANGED <<exports, file, version, todo, asked, crossed, begun>>

(* putObject.  The key is the account and Date.now(): no two exports of an *)
(* account are taken to store their files within the same millisecond.     *)
Store(c) ==
  /\ pc[c] = "store" /\ Goto(c, "last")
  /\ UNCHANGED <<enrichment, exports, file, version, todo, asked, crossed, begun>>

NewestVersion == CHOOSE v \in 0..MaxExports :
  /\ v = 0 \/ \E e \in exports : e.version = v
  /\ \A e \in exports : e.version <= v

FindLast(c) ==
  /\ pc[c] = "last" /\ Goto(c, "create")
  /\ version' = [version EXCEPT ![c] = NewestVersion]
  /\ UNCHANGED <<enrichment, exports, file, todo, asked, crossed, begun>>

CreateRow(c) ==
  /\ pc[c] = "create" /\ Goto(c, "mark")
  /\ exports' = exports \cup {[by |-> c, version |-> version[c] + 1, file |-> file[c]]}
  /\ UNCHANGED <<enrichment, file, version, todo, asked, crossed, begun>>

(* The ads are marked one by one; after the last the call ends.            *)
Mark(c, a) ==
  /\ pc[c] = "mark" /\ a \in todo[c]
  /\ enrichment' = [enrichment EXCEPT ![a].feedStatus = "exported"]
  /\ \/ todo[c] = {a} /\ Leave(c)
     \/ todo[c] # {a} /\ todo' = [todo EXCEPT ![c] = @ \ {a}] /\ UNCHANGED <<pc, file, version>>
  /\ UNCHANGED <<exports, asked, crossed, begun>>

(* A step rejects: ads that are not marked yet stay as they are.           *)
Throws(c) ==
  /\ pc[c] # "idle" /\ Leave(c)
  /\ UNCHANGED <<enrichment, exports, asked, crossed, begun>>

Next ==
  \/ \E a \in Ad : Edit(a) \/ Prepare(a)
  \/ \E c \in Call :
       \/ \E ads \in SUBSET Ad : Read(c, ads)
       \/ Store(c) \/ FindLast(c) \/ CreateRow(c) \/ Throws(c)
       \/ \E a \in Ad : Mark(c, a)

Spec == Init /\ [][Next]_vars

-----------------------------------------------------------------------------
InFile(a, text) == \E e \in exports : e.file[a] >= text

(* An ad shown as exported is in the file of a recorded export, though     *)
(* exports overlap and fail half way; and when it was asked for while no   *)
(* export that had read it was under way, the file has its text of then or *)
(* a newer one (exportFeed, prepare_feed).                                 *)
ExportedIsInFile ==
  \A a \in Ad : enrichment[a].feedStatus = "exported" =>
    InFile(a, IF crossed[a] \/ asked[a] = None THEN 0 ELSE asked[a])

(* Versions leave no gap, and only exports under way at once share one:    *)
(* the version is read before the row is written, and nothing keeps it     *)
(* unique.                                                                 *)
VersionsBounded ==
  LET of(v) == {e \in exports : e.version = v} IN
  /\ \A e \in exports : e.version > 1 => of(e.version - 1) # {}
  /\ \A e \in exports : Cardinality(of(e.version)) <= Cardinality(Call)

(* Marks, files and versions of exports that overlap, fail half way and    *)
(* meet edits and requests account for each other.                         *)
FeedAccounted == TypeOK /\ ExportedIsInFile /\ VersionsBounded
=============================================================================
