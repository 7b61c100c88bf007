----------------------------- MODULE Pipeline ------------------------------
(***************************************************************************)
(* A lead on the kanban board and its deal: AvitoPipelineService.moveLead  *)
(* writes the lead's row, then loads and saves the event-sourced deal;     *)
(* DealService.changeStage moves the deal alone, and the CRM bridge gives  *)
(* the lead its deal, at the stage `lead`, whatever stage the lead is in   *)
(* by then.  One lead and its deal; leads do not touch each other.         *)
(***************************************************************************)
EXTENDS Integers, Sequences

CONSTANTS Call,          \* requests and inbound messages under way
          Stage,         \* pipeline stages
          NoStage,
          DealStageOf,   \* AVITO_PIPELINE_TO_DEAL
          NewStage,      \* the stage leads are created in
          MaxOps         \* bound on calls

PipelineAssumption ==
  /\ NewStage \in Stage /\ NoStage \notin Stage
  /\ MaxOps \in Nat

VARIABLES
  lead,    \* the lead's row: stage, dealStage, and whether dealId is set
  deal,    \* the deal's stream: its stages in order, <<>> before it exists
  pc,      \* next step of each call
  move,    \* stage it moves the lead to, NoStage when it moves none
  want,    \* deal stage it asks for
  read,    \* length of the stream it has loaded
  alone,   \* no other call was under way while it was
  settled, \* stage of a move that ran alone and was answered without an
           \* error, NoStage once anything has begun since
  ops

calls == <<pc, move, want, read, alone>>
vars  == <<lead, deal, calls, settled, ops>>

DealStage == {DealStageOf[s] : s \in Stage}
LastOf(s) == s[Len(s)]

TypeOK ==
  /\ lead \in [stage : Stage, dealStage : DealStage, linked : BOOLEAN]
  /\ deal \in Seq(DealStage)
  /\ pc \in [Call -> {"idle", "answer", "load", "save", "link"}]
  /\ move \in [Call -> Stage \cup {NoStage}] /\ want \in [Call -> DealStage]
  /\ read \in [Call -> 0..Len(deal)]
  /\ alone \in [Call -> BOOLEAN] /\ settled \in Stage \cup {NoStage}
  /\ ops \in 0..MaxOps

Init ==
  /\ lead = [stage |-> NewStage, dealStage |-> DealStageOf[NewStage], linked |-> FALSE]
  /\ deal = <<>>
  /\ pc = [c \in Call |-> "idle"] /\ move = [c \in Call |-> NoStage]
  /\ want = [c \in Call |-> DealStageOf[NewStage]]
  /\ read = [c \in Call |-> 0] /\ alone = [c \in Call |-> FALSE]
  /\ settled = NoStage
  /\ ops = 0

-----------------------------------------------------------------------------
Others(c) == {d \in Call \ {c} : pc[d] # "idle"}

Begin(c, step, s, d) ==
  /\ pc[c] = "idle" /\ ops < MaxOps
  /\ ops' = ops + 1
  /\ pc' = [pc EXCEPT ![c] = step]
  /\ move' = [move EXCEPT ![c] = s] /\ want' = [want EXCEPT ![c] = d]
  /\ alone' = [x \in Call |-> x = c /\ Others(c) = {}]
  /\ settled' = NoStage
  /\ UNCHANGED read

(* A call is over: nobody sees what it had read.                           *)
Leave(c) ==
  /\ pc' = [pc EXCEPT ![c] = "idle"]
  /\ move' = [move EXCEPT ![c] = NoStage] /\ want' = [want EXCEPT ![c] = DealStageOf[NewStage]]
  /\ read' = [read EXCEPT ![c] = 0] /\ alone' = [alone EXCEPT ![c] = FALSE]
  /\ UNCHANGED ops

(* It is answered without an error.                                        *)
Answer(c) ==
  /\ Leave(c)
  /\ settled' = IF alone[c] THEN move[c] ELSE settled
  /\ UNCHANGED lead

(* moveStage: the row shows the new stage, for both boards.                *)
MoveStage(s) == lead' = [lead EXCEPT !.stage = s, !.dealStage = DealStageOf[s]]

(* Mutant of MoveLead: the deal of a lead that is there already is not     *)
(* touched.                                                                *)
MoveOn(c, s) ==
  /\ MoveStage(s) /\ UNCHANGED deal
  /\ Begin(c, IF lead.linked /\ lead.stage # s THEN "load" ELSE "answer", s, DealStageOf[s])

(* moveLead: the row first; of a lead without a deal that is all.  The     *)
(* deal is the one the row has when it is written.                         *)
MoveLead(c, s) ==
  /\ MoveStage(s) /\ UNCHANGED deal
  /\ Begin(c, IF lead.linked THEN "load" ELSE "answer", s, DealStageOf[s])

(* PUT deals/:id/stage: the lead's row is left as it is.                   *)
ChangeStage(c, d) ==
  /\ deal # <<>>
  /\ Begin(c, "load", NoStage, d)
  /\ UNCHANGED <<lead, deal>>

(* An inbound message finds the lead without a deal and creates one.       *)
CreateDeal(c) ==
  /\ deal = <<>>
  /\ Begin(c, "link", NoStage, DealStageOf[NewStage])
  /\ deal' = <<DealStageOf[NewStage]>>
  /\ UNCHANGED lead

AnswerMove(c) == pc[c] = "answer" /\ Answer(c) /\ UNCHANGED deal

LinkDeal(c) ==
  /\ pc[c] = "link"
  /\ lead' = [lead EXCEPT !.linked = TRUE]
  /\ Leave(c)
  /\ UNCHANGED <<deal, settled>>

(* The deal is loaded; one that is at the stage already raises nothing.    *)
Load(c) ==
  /\ pc[c] = "load" /\ UNCHANGED deal
  /\ \/ LastOf(deal) = want[c] /\ Answer(c)
     \/ /\ LastOf(deal) # want[c]
        /\ pc' = [pc EXCEPT ![c] = "save"] /\ read' = [read EXCEPT ![c] = Len(deal)]
        /\ UNCHANGED <<lead, move, want, alone, settled, ops>>

(* The version the deal was loaded at is compared by the append.           *)
Save(c) ==
  /\ pc[c] = "save" /\ read[c] = Len(deal)
  /\ deal' = Append(deal, want[c])
  /\ Answer(c)

(* A step rejects, or the append finds that another call has moved the     *)
(* deal (ConcurrencyError): the request fails, the lead stays where it was *)
(* put, nobody repairs the pair.                                           *)
Throws(c) == pc[c] # "idle" /\ Leave(c) /\ UNCHANGED <<lead, deal, settled>>

Next ==
  \E c \in Call :
    \/ \E s \in Stage : MoveLead(c, s)
    \/ AnswerMove(c)
    \/ \E d \in DealStage : ChangeStage(c, d)
    \/ CreateDeal(c) \/ LinkDeal(c) \/ Load(c) \/ Save(c) \/ Throws(c)

Spec == Init /\ [][Next]_vars

-----------------------------------------------------------------------------
(* A move that was answered without an error and met no other call has     *)
(* brought lead and deal together, whatever the calls before it left       *)
(* half-done: to move the card again is what repairs the pair, there is    *)
(* nothing else (moveLead).                                                *)
MoveSettles ==
  settled # NoStage =>
    /\ lead.stage = settled
    /\ lead.linked => LastOf(deal) = lead.dealStage

(* However the calls overlap, the deal's stream never records a change to  *)
(* the stage the deal was in (changeStage and the version check).          *)
StreamMoves == \A i \in 2..Len(deal) : deal[i] # deal[i - 1]

(* The card and the deal: a move that ran alone settles both, and whatever *)
(* ran at once, the deal's history is one of changes.                      *)
LeadAndDeal == TypeOK /\ MoveSettles /\ StreamMoves
=============================================================================
