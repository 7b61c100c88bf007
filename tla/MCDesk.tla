------------------------------ MODULE MCDesk -------------------------------
(***************************************************************************)
(* The manager's desk on small instances: follow-ups, rules and prices     *)
(* (DueWork), the pipeline (Pipeline), the feed (FeedExport).  They have   *)
(* no row in common, so whatever the three do together is a shuffle of     *)
(* what each does; `desk` names the one that a behaviour is about.         *)
(***************************************************************************)
EXTENDS DueWork, Sequences

CONSTANTS Stage, NoStage, NewStage, MaxOps, Ad, MaxEdits, MaxExports

VARIABLES desk, lead, deal, move, want, read, alone, settled, ops,
          enrichment, exports, file, version, asked, crossed, begun,
          pipelinePc, feedPc, feedTodo

(* AVITO_PIPELINE_TO_DEAL on the stages checked.                           *)
MCDealStageOf == [s \in Stage |->
  CASE s = "new" -> "lead" [] s \in {"in_progress", "waiting"} -> "interested" [] OTHER -> "offer"]

P == INSTANCE Pipeline WITH pc <- pipelinePc, DealStageOf <- MCDealStageOf
F == INSTANCE FeedExport WITH pc <- feedPc, todo <- feedTodo

ASSUME DeskAssumption == P!PipelineAssumption /\ F!FeedExportAssumption

pipeline == <<lead, deal, pipelinePc, move, want, read, alone, settled, ops>>
feed     == <<enrichment, exports, feedPc, file, version, feedTodo, asked, crossed, begun>>
deskVars == <<desk, vars, pipeline, feed>>

DeskInit == desk \in {"due", "pipeline", "feed"} /\ Init /\ P!Init /\ F!Init

Due_Next == desk = "due" /\ Next /\ UNCHANGED <<desk, pipeline, feed>>
Pipeline_Next == desk = "pipeline" /\ P!Next /\ UNCHANGED <<desk, vars, feed>>
Feed_Next == desk = "feed" /\ F!Next /\ UNCHANGED <<desk, vars, pipeline>>

DeskNext == Due_Next \/ Pipeline_Next \/ Feed_Next

OnDue(step) == desk = "due" /\ step /\ UNCHANGED <<desk, pipeline, feed>>

(* The hourly timer goes on firing, every await settles.                   *)
DeskSpec ==
  /\ DeskInit /\ [][DeskNext]_deskVars
  /\ WF_deskVars(OnDue(\E c \in Call : BeginFollowUps(c)))
  /\ \A c \in Call : WF_deskVars(OnDue(Continue(c)))

(* A lead and its deal: every part of Pipeline's properties.               *)
LeadAndDeal == P!LeadAndDeal

(* The feed: every part of FeedExport's properties.                        *)
FeedAccounted == F!FeedAccounted

(* Every due follow-up is executed, though ticks throw or the process      *)
(* restarts (AvitoFollowUpEngineService.tick).                             *)
FollowUpsEnd ==
  <>[](desk = "due" => \A f \in FollowUp : followUps[f].status = "executed")
=============================================================================
