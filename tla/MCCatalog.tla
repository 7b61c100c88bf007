----------------------------- MODULE MCCatalog -----------------------------
(***************************************************************************)
(* The live sync engine (LiveSync), and beside it the table ad_read_model  *)
(* that its worker `items` writes with others (AdCatalog).  The first has  *)
(* any workers, the second only what they do to the table: they have no    *)
(* variable in common, and the engine rests while the table is checked.    *)
(***************************************************************************)
EXTENDS LiveSync

CONSTANTS Ad, Item, Call, MaxOps, MaxMessages, MaxChanges

VARIABLES log, applied, bump, catalog, paid, avito, pc, local, loaded, ops, raised, behind

A == INSTANCE AdCatalog WITH rows <- catalog, current <- loaded

ASSUME CatalogAssumption == A!AdCatalogAssumption

(* One worker, whichever.                                                  *)
MCOrder == <<Messenger>>

ads == <<log, applied, bump, catalog, paid, avito, pc, local, loaded, ops, raised, behind>>

(* AdCatalog!Spec, the engine at rest.                                     *)
AdsSpec ==
  /\ Init /\ A!Init /\ [][A!Next /\ UNCHANGED vars]_<<vars, ads>>
  /\ WF_ads(A!Project)
  /\ \A c \in Call : WF_ads(A!ListItems(c) \/ A!Continue(c))

(* An ad is what its stream says: every part of AdCatalog's properties.    *)
AdIsItsStream == A!AdIsItsStream

(* Its counters, and how many rows there are: AdCatalog's properties.      *)
CountersAccounted == A!CountersAccounted

(* Once Avito is quiet, each item has a row that shows its price and keeps *)
(* doing so (AdCatalog).                                                   *)
ItemsShown == A!ItemsShown
=============================================================================
