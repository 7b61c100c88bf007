----------------------------- MODULE DeskProofs -----------------------------
(***************************************************************************)
(* Theorems about the manager's desk, whatever the calls that overlap and  *)
(* fail: work done twice is accounted for (DueWork), a move that ran alone *)
(* settles the card and the deal and the deal's stream is a history of     *)
(* changes (Pipeline), a mark of the feed is backed by a recorded file and *)
(* versions are shared by exports under way at once only (FeedExport).     *)
(***************************************************************************)
EXTENDS MCDesk, FiniteSetTheorems, WellFoundedInduction, TLAPS

-----------------------------------------------------------------------------
(* Follow-ups, rules and prices.                                           *)

FollowUpSteps == {"task", "notify", "execute"}
RuleSteps     == {"check", "item", "act", "count"}

(* A call under way has rows left, of the kind its loop is over.           *)
LoopShape ==
  \A c \in Call :
    /\ pc[c] \in FollowUpSteps => todo[c] # {} /\ todo[c] \subseteq FollowUp
    /\ pc[c] \in RuleSteps => todo[c] # {} /\ todo[c] \subseteq Rule

(* Ticks that have created a task for f and not marked it, those of them   *)
(* that have not notified, and those that are still going to create one.   *)
Holding(f) == {c \in Call : Working(c, f, {"notify", "execute"})}
Telling(f) == {c \in Call : Working(c, f, {"notify"})}
Owing(f)   == {c \in Call : pc[c] \in FollowUpSteps /\ f \in todo[c]} \ Holding(f)

(* While a follow-up is pending, the tasks that no tick under way holds    *)
(* are those of ticks that a fault cut off; once it is executed, no new    *)
(* tick will read it, and those that have will add one task each at most.  *)
TasksCovered ==
  \A f \in FollowUp :
    IF followUps[f].status = "pending"
      THEN followUps[f].tasks <= faults * Cardinality(Call) + Cardinality(Holding(f))
      ELSE followUps[f].tasks + Cardinality(Owing(f)) <= faults * Cardinality(Call) + Cardinality(Call)

ToldAfterTask ==
  \A f \in FollowUp :
    /\ followUps[f].notified + Cardinality(Telling(f)) <= followUps[f].tasks
    /\ followUps[f].status = "executed" => followUps[f].notified > 0
    /\ \A c \in Call : Working(c, f, {"execute"}) => followUps[f].notified > 0

ItemFirst ==
  \A r \in Rule : \A c \in Call : Working(c, r, {"act", "count"}) => fired[r].item

Loops == LoopShape /\ TasksCovered /\ ToldAfterTask /\ ItemFirst

DueInv == TypeOK /\ Loops /\ TriggersCounted /\ PendingBounded

LEMMA SomeCalls ==
  ASSUME NEW A, A \subseteq Call
  PROVE  /\ IsFiniteSet(A) /\ Cardinality(A) \in Nat
         /\ Cardinality(Call) \in Nat /\ Cardinality(A) <= Cardinality(Call)
<1>1. IsFiniteSet(Call)
  BY DueWorkAssumption
<1>2. IsFiniteSet(A) /\ Cardinality(A) <= Cardinality(Call)
  BY <1>1, FS_Subset
<1> QED
  BY <1>1, <1>2, FS_CardinalityType

(* A set of calls that one call may enter or leave.                        *)
LEMMA OneCallMoves ==
  ASSUME NEW A, A \subseteq Call, NEW B, B \subseteq Call, NEW c \in Call,
         \A d \in Call \ {c} : d \in A <=> d \in B
  PROVE  /\ (c \in A <=> c \in B) => A = B
         /\ c \notin A /\ c \in B => Cardinality(B) = Cardinality(A) + 1
         /\ c \in A /\ c \notin B => Cardinality(A) = Cardinality(B) + 1
<1>1. IsFiniteSet(A) /\ IsFiniteSet(B)
  BY SomeCalls
<1>2. (c \in A <=> c \in B) => A = B
  OBVIOUS
<1>3. ASSUME c \notin A, c \in B
      PROVE  Cardinality(B) = Cardinality(A) + 1
  <2>1. B = A \cup {c}
    BY <1>3
  <2> QED
    BY <1>1, <1>3, <2>1, FS_AddElement
<1>4. ASSUME c \in A, c \notin B
      PROVE  Cardinality(A) = Cardinality(B) + 1
  <2>1. A = B \cup {c}
    BY <1>4
  <2> QED
    BY <1>1, <1>4, <2>1, FS_AddElement
<1> QED
  BY <1>2, <1>3, <1>4

LEMMA AtRow ==
  ASSUME NEW c \in Call, todo[c] # {}
  PROVE  At(c) \in todo[c]
BY DEF At

(* What a call works at does not change while it does not move.            *)
LEMMA WorkingStands ==
  ASSUME NEW c \in Call, pc'[c] = pc[c], todo'[c] = todo[c]
  PROVE  /\ At(c)' = At(c)
         /\ \A x, steps : Working(c, x, steps)' <=> Working(c, x, steps)
<1>1. At(c)' = At(c)
  BY DEF At
<1> QED
  BY <1>1 DEF Working

(* The calls that work at a row, when the calls that move are elsewhere    *)
(* before and after.                                                       *)
LEMMA WorkersStand ==
  ASSUME NEW x, NEW steps,
         \A d \in Call : \/ pc'[d] = pc[d] /\ todo'[d] = todo[d]
                         \/ pc[d] \notin steps /\ pc'[d] \notin steps
  PROVE  \A d \in Call : Working(d, x, steps)' <=> Working(d, x, steps)
<1> SUFFICES ASSUME NEW d \in Call
             PROVE  Working(d, x, steps)' <=> Working(d, x, steps)
  OBVIOUS
<1>1. CASE pc'[d] = pc[d] /\ todo'[d] = todo[d]
  BY <1>1, WorkingStands
<1>2. CASE pc[d] \notin steps /\ pc'[d] \notin steps
  BY <1>2 DEF Working
<1> QED
  BY <1>1, <1>2

LEMMA FollowUpsStand ==
  ASSUME TasksCovered, ToldAfterTask, followUps' = followUps, faults' = faults,
         \A d \in Call : \/ pc'[d] = pc[d] /\ todo'[d] = todo[d]
                         \/ pc[d] \notin FollowUpSteps /\ pc'[d] \notin FollowUpSteps
  PROVE  TasksCovered' /\ ToldAfterTask'
<1>1. ASSUME NEW f
      PROVE  /\ Holding(f)' = Holding(f) /\ Telling(f)' = Telling(f) /\ Owing(f)' = Owing(f)
             /\ \A d \in Call : Working(d, f, {"execute"})' <=> Working(d, f, {"execute"})
  <2>1. \A d \in Call : Working(d, f, {"notify", "execute"})' <=> Working(d, f, {"notify", "execute"})
    BY WorkersStand DEF FollowUpSteps
  <2>2. \A d \in Call : Working(d, f, {"notify"})' <=> Working(d, f, {"notify"})
    BY WorkersStand DEF FollowUpSteps
  <2>3. \A d \in Call : Working(d, f, {"execute"})' <=> Working(d, f, {"execute"})
    BY WorkersStand DEF FollowUpSteps
  <2>4. Holding(f)' = Holding(f) /\ Telling(f)' = Telling(f)
    BY <2>1, <2>2 DEF Holding, Telling
  <2>5. \A d \in Call : pc'[d] \in FollowUpSteps /\ f \in todo'[d] <=> pc[d] \in FollowUpSteps /\ f \in todo[d]
    OBVIOUS
  <2>6. Owing(f)' = Owing(f)
    BY <2>4, <2>5 DEF Owing
  <2> QED
    BY <2>3, <2>4, <2>6
<1> QED
  BY <1>1 DEF TasksCovered, ToldAfterTask

LEMMA RulesStand ==
  ASSUME TriggersCounted, ItemFirst, fired' = fired, faults' = faults,
         \A d \in Call : \/ pc'[d] = pc[d] /\ todo'[d] = todo[d]
                         \/ pc[d] \notin {"act", "count"} /\ pc'[d] \notin {"act", "count"}
  PROVE  TriggersCounted' /\ ItemFirst'
<1>1. ASSUME NEW r
      PROVE  /\ {c \in Call : Working(c, r, {"count"})}' = {c \in Call : Working(c, r, {"count"})}
             /\ \A d \in Call : Working(d, r, {"act", "count"})' <=> Working(d, r, {"act", "count"})
  <2>1. \A d \in Call : Working(d, r, {"count"})' <=> Working(d, r, {"count"})
    BY WorkersStand
  <2>2. \A d \in Call : Working(d, r, {"act", "count"})' <=> Working(d, r, {"act", "count"})
    BY WorkersStand
  <2> QED
    BY <2>1, <2>2
<1>2. ItemFirst'
  BY <1>1 DEF ItemFirst
<1>3. TriggersCounted'
  BY <1>1 DEF TriggersCounted
<1> QED
  BY <1>2, <1>3

LEMMA PricesStand ==
  ASSUME PendingBounded, pending' = pending,
         \A d \in Call : pc'[d] = "advise" <=> pc[d] = "advise"
  PROVE  PendingBounded'
<1>1. {c \in Call : pc'[c] = "advise"} = {c \in Call : pc[c] = "advise"}
  OBVIOUS
<1> QED
  BY <1>1 DEF PendingBounded

-----------------------------------------------------------------------------
(* The other calls, when one moves.                                        *)
LEMMA OthersStand ==
  ASSUME NEW c \in Call,
         \A d \in Call \ {c} : pc'[d] = pc[d] /\ todo'[d] = todo[d]
  PROVE  \A d \in Call \ {c} : \A x :
           /\ d \in Holding(x)' <=> d \in Holding(x)
           /\ d \in Telling(x)' <=> d \in Telling(x)
           /\ d \in Owing(x)' <=> d \in Owing(x)
           /\ \A steps : Working(d, x, steps)' <=> Working(d, x, steps)
<1> SUFFICES ASSUME NEW d \in Call \ {c}, NEW x
             PROVE  /\ d \in Holding(x)' <=> d \in Holding(x)
                    /\ d \in Telling(x)' <=> d \in Telling(x)
                    /\ d \in Owing(x)' <=> d \in Owing(x)
                    /\ \A steps : Working(d, x, steps)' <=> Working(d, x, steps)
  OBVIOUS
<1>1. \A steps : Working(d, x, steps)' <=> Working(d, x, steps)
  BY WorkingStands
<1>2. (d \in Holding(x)' <=> d \in Holding(x)) /\ (d \in Telling(x)' <=> d \in Telling(x))
  BY <1>1 DEF Holding, Telling
<1>3. d \in Owing(x)' <=> d \in Owing(x)
  BY <1>2 DEF Owing
<1> QED
  BY <1>1, <1>2, <1>3

LEMMA BeginFollowUpsKeeps ==
  ASSUME DueInv, NEW c \in Call, BeginFollowUps(c)
  PROVE  Loops'
<1>1. /\ pc[c] = "idle" /\ pc'[c] = "task" /\ todo'[c] = Due /\ Due # {}
      /\ \A d \in Call \ {c} : pc'[d] = pc[d] /\ todo'[d] = todo[d]
      /\ followUps' = followUps /\ fired' = fired /\ faults' = faults
  BY DEF BeginFollowUps, Begin, counts, DueInv, TypeOK
<1>2. LoopShape'
  <2>1. Due \subseteq FollowUp
    BY DEF Due
  <2> QED
    BY <1>1, <2>1 DEF LoopShape, DueInv, Loops, RuleSteps, FollowUpSteps
<1>3. ASSUME NEW f \in FollowUp
      PROVE  /\ Holding(f)' = Holding(f) /\ Telling(f)' = Telling(f)
             /\ followUps[f].status # "pending" => Owing(f)' = Owing(f)
             /\ \A d \in Call : Working(d, f, {"execute"})' <=> Working(d, f, {"execute"})
  <2>1. /\ c \notin Holding(f)' /\ c \notin Holding(f) /\ c \notin Telling(f)' /\ c \notin Telling(f)
        /\ c \notin Owing(f)
        /\ ~Working(c, f, {"execute"})' /\ ~Working(c, f, {"execute"})
    BY <1>1 DEF Holding, Telling, Owing, Working, FollowUpSteps
  <2>2. followUps[f].status # "pending" => c \notin Owing(f)'
    BY <1>1 DEF Owing, Due
  <2>3. \A d \in Call \ {c} :
          /\ d \in Holding(f)' <=> d \in Holding(f)
          /\ d \in Telling(f)' <=> d \in Telling(f)
          /\ d \in Owing(f)' <=> d \in Owing(f)
          /\ Working(d, f, {"execute"})' <=> Working(d, f, {"execute"})
    BY <1>1, OthersStand
  <2>4. Holding(f) \subseteq Call /\ Holding(f)' \subseteq Call /\ Telling(f) \subseteq Call
        /\ Telling(f)' \subseteq Call /\ Owing(f) \subseteq Call /\ Owing(f)' \subseteq Call
    BY DEF Holding, Telling, Owing
  <2> QED
    BY <2>1, <2>2, <2>3, <2>4
<1>4. TasksCovered'
  BY <1>1, <1>3 DEF TasksCovered, DueInv, Loops
<1>5. ToldAfterTask'
  BY <1>1, <1>3 DEF ToldAfterTask, DueInv, Loops
<1>6. ItemFirst'
  BY <1>1, RulesStand DEF DueInv, Loops
<1> QED
  BY <1>2, <1>4, <1>5, <1>6 DEF Loops

(* A tick's next task: it was owed, now it is held.                        *)
LEMMA CreateTaskKeeps ==
  ASSUME DueInv, NEW c \in Call, CreateTask(c)
  PROVE  Loops'
<1> DEFINE g == At(c)
<1>1. /\ pc[c] = "task" /\ pc'[c] = "notify" /\ todo' = todo
      /\ \A d \in Call \ {c} : pc'[d] = pc[d]
      /\ fired' = fired /\ faults' = faults
  BY DEF CreateTask, Goto, counts, DueInv, TypeOK
<1>2. todo[c] # {} /\ g \in todo[c] /\ g \in FollowUp
  BY <1>1, AtRow DEF DueInv, Loops, LoopShape, FollowUpSteps
<1>3. At(c)' = g
  BY <1>1 DEF At
<1> HIDE DEF g
<1>4. /\ \A f \in FollowUp : followUps[f].tasks \in Nat /\ followUps[f].notified \in Nat
      /\ followUps'[g].tasks = followUps[g].tasks + 1
      /\ followUps'[g].notified = followUps[g].notified
      /\ followUps'[g].status = followUps[g].status
      /\ \A f \in FollowUp \ {g} : followUps'[f] = followUps[f]
  <2>1. followUps \in [FollowUp -> [status : {"pending", "executed"}, tasks : Nat, notified : Nat]]
    BY DEF DueInv, TypeOK
  <2>2. followUps' = [followUps EXCEPT ![g].tasks = @ + 1]
    BY DEF CreateTask, g
  <2> QED
    BY <1>2, <2>1, <2>2
<1>5. LoopShape'
  BY <1>1, <1>2 DEF LoopShape, DueInv, Loops, RuleSteps, FollowUpSteps
<1>6. ASSUME NEW f \in FollowUp
      PROVE  /\ f # g => Holding(f)' = Holding(f) /\ Telling(f)' = Telling(f) /\ Owing(f)' = Owing(f)
             /\ f = g => /\ Cardinality(Holding(f)') = Cardinality(Holding(f)) + 1
                         /\ Cardinality(Telling(f)') = Cardinality(Telling(f)) + 1
                         /\ Cardinality(Owing(f)) = Cardinality(Owing(f)') + 1
             /\ \A d \in Call : Working(d, f, {"execute"})' <=> Working(d, f, {"execute"})
  <2>1. /\ c \notin Holding(f) /\ c \notin Telling(f)
        /\ c \in Holding(f)' <=> f = g
        /\ c \in Telling(f)' <=> f = g
        /\ c \in Owing(f) <=> f \in todo[c]
        /\ c \in Owing(f)' <=> f \in todo[c] /\ f # g
        /\ ~Working(c, f, {"execute"})' /\ ~Working(c, f, {"execute"})
    BY <1>1, <1>2, <1>3 DEF Holding, Telling, Owing, Working, FollowUpSteps
  <2>2. \A d \in Call \ {c} :
          /\ d \in Holding(f)' <=> d \in Holding(f)
          /\ d \in Telling(f)' <=> d \in Telling(f)
          /\ d \in Owing(f)' <=> d \in Owing(f)
          /\ Working(d, f, {"execute"})' <=> Working(d, f, {"execute"})
    BY <1>1, OthersStand
  <2>3. /\ Holding(f) \subseteq Call /\ Holding(f)' \subseteq Call /\ Telling(f) \subseteq Call
        /\ Telling(f)' \subseteq Call /\ Owing(f) \subseteq Call /\ Owing(f)' \subseteq Call
    BY DEF Holding, Telling, Owing
  <2>4. f # g => Holding(f)' = Holding(f) /\ Telling(f)' = Telling(f) /\ Owing(f)' = Owing(f)
    BY <2>1, <2>2, <2>3
  <2>5. f = g => Cardinality(Holding(f)') = Cardinality(Holding(f)) + 1
    BY <2>1, <2>2, <2>3, OneCallMoves
  <2>6. f = g => Cardinality(Telling(f)') = Cardinality(Telling(f)) + 1
    BY <2>1, <2>2, <2>3, OneCallMoves
  <2>7. f = g => Cardinality(Owing(f)) = Cardinality(Owing(f)') + 1
    BY <1>2, <2>1, <2>2, <2>3, OneCallMoves
  <2> QED
    BY <2>1, <2>2, <2>4, <2>5, <2>6, <2>7
<1>7. \A f \in FollowUp : /\ Cardinality(Holding(f)) \in Nat /\ Cardinality(Telling(f)) \in Nat
                          /\ Cardinality(Owing(f)) \in Nat /\ Cardinality(Owing(f)') \in Nat
  BY SomeCalls DEF Holding, Telling, Owing
<1>8. faults * Cardinality(Call) \in Nat /\ Cardinality(Call) \in Nat
  BY SomeCalls DEF DueInv, TypeOK
<1>9. TasksCovered'
  <2> DEFINE cut == faults * Cardinality(Call)
  <2>1. cut' = cut /\ cut \in Nat
    BY <1>1, <1>8
  <2> HIDE DEF cut
  <2> SUFFICES ASSUME NEW f \in FollowUp
               PROVE  IF followUps'[f].status = "pending"
                        THEN followUps'[f].tasks <= cut + Cardinality(Holding(f)')
                        ELSE followUps'[f].tasks + Cardinality(Owing(f)') <= cut + Cardinality(Call)
    BY <2>1 DEF TasksCovered, cut
  <2>2. IF followUps[f].status = "pending"
          THEN followUps[f].tasks <= cut + Cardinality(Holding(f))
          ELSE followUps[f].tasks + Cardinality(Owing(f)) <= cut + Cardinality(Call)
    BY DEF DueInv, Loops, TasksCovered, cut
  <2>3. CASE f = g
    BY <1>4, <1>6, <1>7, <1>8, <2>1, <2>2, <2>3
  <2>4. CASE f # g
    BY <1>4, <1>6, <2>2, <2>4
  <2> QED
    BY <2>3, <2>4
<1>10. ToldAfterTask'
  <2> SUFFICES ASSUME NEW f \in FollowUp
               PROVE  /\ followUps'[f].notified + Cardinality(Telling(f)') <= followUps'[f].tasks
                      /\ followUps'[f].status = "executed" => followUps'[f].notified > 0
                      /\ \A d \in Call : Working(d, f, {"execute"})' => followUps'[f].notified > 0
    BY DEF ToldAfterTask
  <2>1. /\ followUps[f].notified + Cardinality(Telling(f)) <= followUps[f].tasks
        /\ followUps[f].status = "executed" => followUps[f].notified > 0
        /\ \A d \in Call : Working(d, f, {"execute"}) => followUps[f].notified > 0
    BY DEF DueInv, Loops, ToldAfterTask
  <2>2. CASE f = g
    BY <1>4, <1>6, <1>7, <2>1, <2>2
  <2>3. CASE f # g
    BY <1>4, <1>6, <2>1, <2>3
  <2> QED
    BY <2>2, <2>3
<1>11. ItemFirst'
  BY <1>1, RulesStand DEF DueInv, Loops
<1> QED
  BY <1>5, <1>9, <1>10, <1>11 DEF Loops

LEMMA NotifyKeeps ==
  ASSUME DueInv, NEW c \in Call, Notify(c)
  PROVE  Loops'
<1> DEFINE g == At(c)
<1>1. /\ pc[c] = "notify" /\ pc'[c] = "execute" /\ todo' = todo
      /\ \A d \in Call \ {c} : pc'[d] = pc[d]
      /\ fired' = fired /\ faults' = faults
  BY DEF Notify, Goto, counts, DueInv, TypeOK
<1>2. todo[c] # {} /\ g \in todo[c] /\ g \in FollowUp
  BY <1>1, AtRow DEF DueInv, Loops, LoopShape, FollowUpSteps
<1>3. At(c)' = g
  BY <1>1 DEF At
<1> HIDE DEF g
<1>4. /\ \A f \in FollowUp : followUps[f].tasks \in Nat /\ followUps[f].notified \in Nat
      /\ followUps'[g].tasks = followUps[g].tasks
      /\ followUps'[g].notified = followUps[g].notified + 1
      /\ followUps'[g].status = followUps[g].status
      /\ \A f \in FollowUp \ {g} : followUps'[f] = followUps[f]
  <2>1. followUps \in [FollowUp -> [status : {"pending", "executed"}, tasks : Nat, notified : Nat]]
    BY DEF DueInv, TypeOK
  <2>2. followUps' = [followUps EXCEPT ![g].notified = @ + 1]
    BY DEF Notify, g
  <2> QED
    BY <1>2, <2>1, <2>2
<1>5. LoopShape'
  BY <1>1, <1>2 DEF LoopShape, DueInv, Loops, RuleSteps, FollowUpSteps
<1>6. ASSUME NEW f \in FollowUp
      PROVE  /\ Holding(f)' = Holding(f) /\ Owing(f)' = Owing(f)
             /\ f # g => Telling(f)' = Telling(f)
             /\ f = g => Cardinality(Telling(f)) = Cardinality(Telling(f)') + 1
             /\ f # g => \A d \in Call : Working(d, f, {"execute"})' => Working(d, f, {"execute"})
  <2>1. /\ c \in Holding(f) <=> f = g
        /\ c \in Holding(f)' <=> f = g
        /\ c \in Telling(f) <=> f = g
        /\ c \notin Telling(f)'
        /\ c \in Owing(f) <=> f \in todo[c] /\ f # g
        /\ c \in Owing(f)' <=> f \in todo[c] /\ f # g
        /\ f # g => ~Working(c, f, {"execute"})'
    BY <1>1, <1>2, <1>3 DEF Holding, Telling, Owing, Working, FollowUpSteps, g
  <2>2. \A d \in Call \ {c} :
          /\ d \in Holding(f)' <=> d \in Holding(f)
          /\ d \in Telling(f)' <=> d \in Telling(f)
          /\ d \in Owing(f)' <=> d \in Owing(f)
          /\ Working(d, f, {"execute"})' <=> Working(d, f, {"execute"})
    BY <1>1, OthersStand
  <2>3. /\ Holding(f) \subseteq Call /\ Holding(f)' \subseteq Call /\ Telling(f) \subseteq Call
        /\ Telling(f)' \subseteq Call /\ Owing(f) \subseteq Call /\ Owing(f)' \subseteq Call
    BY DEF Holding, Telling, Owing
  <2>4. Holding(f)' = Holding(f) /\ Owing(f)' = Owing(f) /\ (f # g => Telling(f)' = Telling(f))
    BY <2>1, <2>2, <2>3
  <2>5. f = g => Cardinality(Telling(f)) = Cardinality(Telling(f)') + 1
    BY <2>1, <2>2, <2>3, OneCallMoves
  <2> QED
    BY <2>1, <2>2, <2>4, <2>5
<1>7. \A f \in FollowUp : Cardinality(Telling(f)) \in Nat /\ Cardinality(Telling(f)') \in Nat
  BY SomeCalls DEF Telling
<1>8. TasksCovered'
  BY <1>1, <1>4, <1>6 DEF TasksCovered, DueInv, Loops
<1>9. ToldAfterTask'
  <2> SUFFICES ASSUME NEW f \in FollowUp
               PROVE  /\ followUps'[f].notified + Cardinality(Telling(f)') <= followUps'[f].tasks
                      /\ followUps'[f].status = "executed" => followUps'[f].notified > 0
                      /\ \A d \in Call : Working(d, f, {"execute"})' => followUps'[f].notified > 0
    BY DEF ToldAfterTask
  <2>1. /\ followUps[f].notified + Cardinality(Telling(f)) <= followUps[f].tasks
        /\ followUps[f].status = "executed" => followUps[f].notified > 0
        /\ \A d \in Call : Working(d, f, {"execute"}) => followUps[f].notified > 0
    BY DEF DueInv, Loops, ToldAfterTask
  <2>2. CASE f = g
    BY <1>4, <1>6, <1>7, <2>1, <2>2
  <2>3. CASE f # g
    BY <1>4, <1>6, <2>1, <2>3
  <2> QED
    BY <2>2, <2>3
<1>10. ItemFirst'
  BY <1>1, RulesStand DEF DueInv, Loops
<1> QED
  BY <1>5, <1>8, <1>9, <1>10 DEF Loops

(* A row is marked: ticks that hold it and ticks that owe a task for it    *)
(* are different ticks, so that together they are no more than there are   *)
(* calls.                                                                  *)
LEMMA MarkExecutedKeeps ==
  ASSUME DueInv, NEW c \in Call, MarkExecuted(c)
  PROVE  Loops'
<1> DEFINE g == At(c)
<1>1. /\ pc[c] = "execute" /\ pc'[c] = (IF todo[c] = {g} THEN "idle" ELSE "task")
      /\ todo'[c] = todo[c] \ {g}
      /\ \A d \in Call \ {c} : pc'[d] = pc[d] /\ todo'[d] = todo[d]
      /\ fired' = fired /\ faults' = faults
  BY DEF MarkExecuted, NextRow, counts, DueInv, TypeOK
<1>2. todo[c] # {} /\ g \in todo[c] /\ g \in FollowUp /\ todo[c] \subseteq FollowUp
  BY <1>1, AtRow DEF DueInv, Loops, LoopShape, FollowUpSteps
<1>3. /\ \A f \in FollowUp : /\ followUps[f].tasks \in Nat /\ followUps[f].notified \in Nat
                             /\ followUps'[f].tasks = followUps[f].tasks
                             /\ followUps'[f].notified = followUps[f].notified
      /\ followUps'[g].status = "executed"
      /\ \A f \in FollowUp \ {g} : followUps'[f] = followUps[f]
  <2>1. followUps \in [FollowUp -> [status : {"pending", "executed"}, tasks : Nat, notified : Nat]]
    BY DEF DueInv, TypeOK
  <2>2. followUps' = [followUps EXCEPT ![g].status = "executed"]
    BY DEF MarkExecuted
  <2> HIDE DEF g
  <2> QED
    BY <1>2, <2>1, <2>2
<1>4. LoopShape'
  BY <1>1, <1>2 DEF LoopShape, DueInv, Loops, RuleSteps, FollowUpSteps
<1>5. ASSUME NEW f \in FollowUp
      PROVE  /\ f # g => Holding(f)' = Holding(f) /\ Owing(f)' = Owing(f)
             /\ Telling(f)' = Telling(f)
             /\ f = g => Owing(f)' = Owing(f)
             /\ \A d \in Call : Working(d, f, {"execute"})' => Working(d, f, {"execute"})
  <2>1. /\ c \in Holding(f) <=> f = g
        /\ c \notin Holding(f)' /\ c \notin Telling(f) /\ c \notin Telling(f)'
        /\ c \in Owing(f) <=> f \in todo[c] /\ f # g
        /\ c \in Owing(f)' <=> f \in todo[c] /\ f # g
        /\ ~Working(c, f, {"execute"})'
    BY <1>1, <1>2 DEF Holding, Telling, Owing, Working, FollowUpSteps
  <2>2. \A d \in Call \ {c} :
          /\ d \in Holding(f)' <=> d \in Holding(f)
          /\ d \in Telling(f)' <=> d \in Telling(f)
          /\ d \in Owing(f)' <=> d \in Owing(f)
          /\ Working(d, f, {"execute"})' <=> Working(d, f, {"execute"})
    BY <1>1, OthersStand
  <2>3. /\ Holding(f) \subseteq Call /\ Holding(f)' \subseteq Call /\ Telling(f) \subseteq Call
        /\ Telling(f)' \subseteq Call /\ Owing(f) \subseteq Call /\ Owing(f)' \subseteq Call
    BY DEF Holding, Telling, Owing
  <2> HIDE DEF g
  <2>4. (f # g => Holding(f)' = Holding(f)) /\ Owing(f)' = Owing(f) /\ Telling(f)' = Telling(f)
    BY <2>1, <2>2, <2>3
  <2> QED
    BY <2>1, <2>2, <2>4
<1>6. followUps[g].notified > 0
  <2>1. Working(c, g, {"execute"})
    BY <1>1, <1>2 DEF Working
  <2> QED
    BY <1>2, <2>1 DEF DueInv, Loops, ToldAfterTask
<1> HIDE DEF g
<1>7. TasksCovered'
  <2> DEFINE cut == faults * Cardinality(Call)
  <2>1. cut' = cut /\ cut \in Nat /\ Cardinality(Call) \in Nat
    BY <1>1, SomeCalls DEF DueInv, TypeOK
  <2> HIDE DEF cut
  <2> SUFFICES ASSUME NEW f \in FollowUp
               PROVE  IF followUps'[f].status = "pending"
                        THEN followUps'[f].tasks <= cut + Cardinality(Holding(f)')
                        ELSE followUps'[f].tasks + Cardinality(Owing(f)') <= cut + Cardinality(Call)
    BY <2>1 DEF TasksCovered, cut
  <2>2. IF followUps[f].status = "pending"
          THEN followUps[f].tasks <= cut + Cardinality(Holding(f))
          ELSE followUps[f].tasks + Cardinality(Owing(f)) <= cut + Cardinality(Call)
    BY DEF DueInv, Loops, TasksCovered, cut
  <2>3. CASE f = g
    <3>1. Cardinality(Holding(f)) + Cardinality(Owing(f)) <= Cardinality(Call)
      <4>1. Holding(f) \cap Owing(f) = {} /\ Holding(f) \cup Owing(f) \subseteq Call
            /\ Holding(f) \subseteq Call /\ Owing(f) \subseteq Call
        BY DEF Holding, Owing
      <4>2. /\ IsFiniteSet(Holding(f)) /\ IsFiniteSet(Owing(f))
            /\ Cardinality(Holding(f)) \in Nat /\ Cardinality(Owing(f)) \in Nat
            /\ Cardinality(Holding(f) \cup Owing(f)) <= Cardinality(Call)
        BY <4>1, SomeCalls
      <4>3. Cardinality(Holding(f) \cup Owing(f)) =
              Cardinality(Holding(f)) + Cardinality(Owing(f)) - Cardinality(Holding(f) \cap Owing(f))
        BY <4>2, FS_Union
      <4>4. Cardinality(Holding(f) \cap Owing(f)) = 0
        BY <4>1, FS_EmptySet
      <4> QED
        BY <4>2, <4>3, <4>4
    <3>2. Cardinality(Holding(f)) \in Nat /\ Cardinality(Owing(f)) \in Nat
      BY SomeCalls DEF Holding, Owing
    <3>3. followUps[f].tasks \in Nat /\ followUps'[f].tasks = followUps[f].tasks
          /\ followUps'[f].status = "executed" /\ Owing(f)' = Owing(f)
      BY <1>3, <1>5, <2>3
    <3> QED
      BY <2>1, <2>2, <3>1, <3>2, <3>3
  <2>4. CASE f # g
    BY <1>3, <1>5, <2>2, <2>4
  <2> QED
    BY <2>3, <2>4
<1>8. ToldAfterTask'
  <2> SUFFICES ASSUME NEW f \in FollowUp
               PROVE  /\ followUps'[f].notified + Cardinality(Telling(f)') <= followUps'[f].tasks
                      /\ followUps'[f].status = "executed" => followUps'[f].notified > 0
                      /\ \A d \in Call : Working(d, f, {"execute"})' => followUps'[f].notified > 0
    BY DEF ToldAfterTask
  <2>1. /\ followUps[f].notified + Cardinality(Telling(f)) <= followUps[f].tasks
        /\ followUps[f].status = "executed" => followUps[f].notified > 0
        /\ \A d \in Call : Working(d, f, {"execute"}) => followUps[f].notified > 0
    BY DEF DueInv, Loops, ToldAfterTask
  <2>2. CASE f = g
    BY <1>3, <1>5, <1>6, <2>1, <2>2
  <2>3. CASE f # g
    BY <1>3, <1>5, <2>1, <2>3
  <2> QED
    BY <2>2, <2>3
<1>9. ItemFirst'
  BY <1>1, RulesStand DEF DueInv, Loops
<1> QED
  BY <1>4, <1>7, <1>8, <1>9 DEF Loops

(* Ticks leave the rules and the prices alone, and so on: what a loop does *)
(* not touch stands.                                                       *)
LEMMA FollowUpStepsKeep ==
  ASSUME DueInv, NEW c \in Call,
         BeginFollowUps(c) \/ CreateTask(c) \/ Notify(c) \/ MarkExecuted(c)
  PROVE  Loops' /\ TriggersCounted' /\ PendingBounded'
<1>1. /\ fired' = fired /\ faults' = faults /\ pending' = pending
      /\ \A d \in Call \ {c} : pc'[d] = pc[d] /\ todo'[d] = todo[d]
      /\ pc[c] \in {"idle", "task", "notify", "execute"}
      /\ pc'[c] \in {"idle", "task", "notify", "execute"}
  <2>1. pc \in [Call -> Pc] /\ todo \in [Call -> SUBSET (FollowUp \cup Rule)]
    BY DEF DueInv, TypeOK
  <2> QED
    BY <2>1 DEF BeginFollowUps, CreateTask, Notify, MarkExecuted, Begin, Goto, NextRow, counts
<1>2. Loops'
  BY BeginFollowUpsKeeps, CreateTaskKeeps, NotifyKeeps, MarkExecutedKeeps
<1>3. TriggersCounted'
  BY <1>1, RulesStand DEF DueInv, Loops
<1>4. PendingBounded'
  BY <1>1, PricesStand DEF DueInv
<1> QED
  BY <1>2, <1>3, <1>4

LEMMA CheckRulesKeep ==
  ASSUME DueInv, NEW c \in Call, BeginRules(c) \/ CheckRule(c)
  PROVE  Loops' /\ TriggersCounted' /\ PendingBounded'
<1>1. /\ followUps' = followUps /\ fired' = fired /\ faults' = faults /\ pending' = pending
      /\ \A d \in Call \ {c} : pc'[d] = pc[d] /\ todo'[d] = todo[d]
      /\ pc[c] \in {"idle", "check"} /\ pc'[c] \in {"idle", "check", "item"}
  <2>1. pc \in [Call -> Pc] /\ todo \in [Call -> SUBSET (FollowUp \cup Rule)]
    BY DEF DueInv, TypeOK
  <2> QED
    BY <2>1 DEF BeginRules, CheckRule, Ask, Begin, Goto, NextRow, counts
<1>2. pc'[c] # "idle" => todo'[c] # {} /\ todo'[c] \subseteq Rule
  <2>1. pc \in [Call -> Pc] /\ todo \in [Call -> SUBSET (FollowUp \cup Rule)]
    BY DEF DueInv, TypeOK
  <2>2. CASE BeginRules(c)
    BY <2>1, <2>2 DEF BeginRules, Begin
  <2>3. CASE CheckRule(c)
    <3>1. pc[c] = "check" /\ todo[c] # {} /\ todo[c] \subseteq Rule
      BY <2>3 DEF CheckRule, DueInv, Loops, LoopShape, RuleSteps
    <3>2. CASE Goto(c, "item")
      BY <3>1, <3>2 DEF Goto
    <3>3. CASE NextRow(c, "check")
      BY <2>1, <3>1, <3>3, AtRow DEF NextRow
    <3> QED
      BY <2>3, <3>2, <3>3 DEF CheckRule
  <2> QED
    BY <2>2, <2>3
<1>3. LoopShape'
  BY <1>1, <1>2 DEF LoopShape, DueInv, Loops, RuleSteps, FollowUpSteps
<1>4. TasksCovered' /\ ToldAfterTask'
  BY <1>1, FollowUpsStand DEF DueInv, Loops, FollowUpSteps
<1>5. TriggersCounted' /\ ItemFirst'
  BY <1>1, RulesStand DEF DueInv, Loops
<1>6. PendingBounded'
  BY <1>1, PricesStand DEF DueInv
<1> QED
  BY <1>3, <1>4, <1>5, <1>6 DEF Loops

(* The calls between a rule's task and its count. *)
Counting(r) == {c \in Call : Working(c, r, {"count"})}

LEMMA CountingMoves ==
  ASSUME NEW c \in Call, \A d \in Call \ {c} : pc'[d] = pc[d] /\ todo'[d] = todo[d]
  PROVE  \A r : /\ Cardinality(Counting(r)) \in Nat /\ Cardinality(Counting(r)') \in Nat
                /\ (c \in Counting(r) <=> c \in Counting(r)') => Counting(r)' = Counting(r)
                /\ c \notin Counting(r) /\ c \in Counting(r)' =>
                     Cardinality(Counting(r)') = Cardinality(Counting(r)) + 1
                /\ c \in Counting(r) /\ c \notin Counting(r)' =>
                     Cardinality(Counting(r)) = Cardinality(Counting(r)') + 1
<1> SUFFICES ASSUME NEW r
             PROVE  /\ Cardinality(Counting(r)) \in Nat /\ Cardinality(Counting(r)') \in Nat
                    /\ (c \in Counting(r) <=> c \in Counting(r)') => Counting(r)' = Counting(r)
                    /\ c \notin Counting(r) /\ c \in Counting(r)' =>
                         Cardinality(Counting(r)') = Cardinality(Counting(r)) + 1
                    /\ c \in Counting(r) /\ c \notin Counting(r)' =>
                         Cardinality(Counting(r)) = Cardinality(Counting(r)') + 1
  OBVIOUS
<1>1. Counting(r) \subseteq Call /\ Counting(r)' \subseteq Call
  BY DEF Counting
<1>2. \A d \in Call \ {c} : d \in Counting(r)' <=> d \in Counting(r)
  BY OthersStand DEF Counting
<1> QED
  BY <1>1, <1>2, OneCallMoves, SomeCalls

(* A rule whose row the step writes: item, task or count. *)
LEMMA RuleStepsKeep ==
  ASSUME DueInv, NEW c \in Call, UpsertItem(c) \/ Act(c) \/ CountTrigger(c)
  PROVE  Loops' /\ TriggersCounted' /\ PendingBounded'
<1> DEFINE g == At(c)
<1>1. /\ followUps' = followUps /\ faults' = faults /\ pending' = pending
      /\ \A d \in Call \ {c} : pc'[d] = pc[d] /\ todo'[d] = todo[d]
      /\ pc[c] \in {"item", "act", "count"} /\ pc'[c] \in {"idle", "act", "count", "check"}
      /\ pc[c] = "item" => UpsertItem(c) /\ pc'[c] = "act"
      /\ pc[c] = "act" => Act(c) /\ pc'[c] = "count"
      /\ pc[c] = "count" => CountTrigger(c) /\ pc'[c] = (IF todo[c] = {g} THEN "idle" ELSE "check")
      /\ todo'[c] = IF pc[c] = "count" THEN todo[c] \ {g} ELSE todo[c]
  <2>1. pc \in [Call -> Pc] /\ todo \in [Call -> SUBSET (FollowUp \cup Rule)]
    BY DEF DueInv, TypeOK
  <2> QED
    BY <2>1 DEF UpsertItem, Act, CountTrigger, Goto, NextRow, counts
<1>2. todo[c] # {} /\ g \in todo[c] /\ g \in Rule /\ todo[c] \subseteq Rule
  BY <1>1, AtRow DEF DueInv, Loops, LoopShape, RuleSteps
<1>3. pc[c] # "count" => At(c)' = g
  BY <1>1 DEF At
<1>4. /\ fired[g].tasks \in Nat /\ fired[g].triggerCount \in Nat
      /\ pc[c] = "item" => /\ fired'[g].tasks = fired[g].tasks /\ fired'[g].item
                           /\ fired'[g].triggerCount = fired[g].triggerCount
      /\ pc[c] = "act" => /\ fired'[g].tasks = fired[g].tasks + 1 /\ fired'[g].item = fired[g].item
                          /\ fired'[g].triggerCount = fired[g].triggerCount
      /\ pc[c] = "count" => /\ fired'[g].tasks = fired[g].tasks /\ fired'[g].item = fired[g].item
                            /\ fired'[g].triggerCount = fired[g].triggerCount + 1
      /\ \A r \in Rule \ {g} : fired'[r] = fired[r]
  <2>1. fired \in [Rule -> [item : BOOLEAN, tasks : Nat, triggerCount : Nat]]
    BY DEF DueInv, TypeOK
  <2>2. /\ pc[c] = "item" => fired' = [fired EXCEPT ![g].item = TRUE]
        /\ pc[c] = "act" => fired' = [fired EXCEPT ![g].tasks = @ + 1]
        /\ pc[c] = "count" => fired' = [fired EXCEPT ![g].triggerCount = @ + 1]
    BY <1>1 DEF UpsertItem, Act, CountTrigger
  <2> HIDE DEF g
  <2>3. CASE pc[c] = "item"
    BY <1>2, <2>1, <2>2, <2>3
  <2>4. CASE pc[c] = "act"
    BY <1>2, <2>1, <2>2, <2>4
  <2>5. CASE pc[c] = "count"
    BY <1>2, <2>1, <2>2, <2>5
  <2> QED
    BY <1>1, <2>3, <2>4, <2>5
<1>5. LoopShape'
  BY <1>1, <1>2 DEF LoopShape, DueInv, Loops, RuleSteps, FollowUpSteps
<1>6. TasksCovered' /\ ToldAfterTask'
  BY <1>1, FollowUpsStand DEF DueInv, Loops, FollowUpSteps
<1>7. PendingBounded'
  BY <1>1, PricesStand DEF DueInv
<1>8. /\ \A r : c \in Counting(r) <=> pc[c] = "count" /\ r = g
      /\ \A r : c \in Counting(r)' <=> pc[c] = "act" /\ r = g
      /\ \A r : Working(c, r, {"act", "count"}) <=> pc[c] \in {"act", "count"} /\ r = g
      /\ \A r : Working(c, r, {"act", "count"})' => pc[c] \in {"item", "act"} /\ r = g
  BY <1>1, <1>2, <1>3 DEF Counting, Working
<1> HIDE DEF g
<1>9. ItemFirst'
  <2> SUFFICES ASSUME NEW r \in Rule, NEW d \in Call, Working(d, r, {"act", "count"})'
               PROVE  fired'[r].item
    BY DEF ItemFirst
  <2>1. CASE d = c
    <3>1. r = g /\ pc[c] \in {"item", "act"}
      BY <1>8, <2>1
    <3>2. pc[c] = "act" => fired[g].item
      BY <1>2, <1>8 DEF DueInv, Loops, ItemFirst
    <3> QED
      BY <1>4, <3>1, <3>2
  <2>2. CASE d # c
    <3>1. Working(d, r, {"act", "count"})
      BY <1>1, <2>2, OthersStand
    <3>2. fired[r].item
      BY <3>1 DEF DueInv, Loops, ItemFirst
    <3>3. CASE r = g
      BY <1>1, <1>4, <3>2, <3>3
    <3>4. CASE r # g
      BY <1>4, <3>2, <3>4
    <3> QED
      BY <3>3, <3>4
  <2> QED
    BY <2>1, <2>2
<1>10. TriggersCounted'
  <2> DEFINE cut == faults * Cardinality(Call)
  <2>1. cut' = cut /\ cut \in Nat
    BY <1>1, SomeCalls DEF DueInv, TypeOK
  <2> SUFFICES ASSUME NEW r \in Rule
               PROVE  LET lag == fired'[r].tasks - fired'[r].triggerCount IN
                      /\ lag >= Cardinality(Counting(r)')
                      /\ lag <= Cardinality(Counting(r)') + cut
                      /\ fired'[r].tasks > 0 => fired'[r].item
    BY <2>1 DEF TriggersCounted, Counting
  <2>2. LET lag == fired[r].tasks - fired[r].triggerCount IN
        /\ lag >= Cardinality(Counting(r))
        /\ lag <= Cardinality(Counting(r)) + cut
        /\ fired[r].tasks > 0 => fired[r].item
    BY DEF DueInv, TriggersCounted, Counting
  <2> HIDE DEF cut
  <2>3. /\ Cardinality(Counting(r)) \in Nat /\ Cardinality(Counting(r)') \in Nat
        /\ (c \in Counting(r) <=> c \in Counting(r)') => Counting(r)' = Counting(r)
        /\ c \notin Counting(r) /\ c \in Counting(r)' =>
             Cardinality(Counting(r)') = Cardinality(Counting(r)) + 1
        /\ c \in Counting(r) /\ c \notin Counting(r)' =>
             Cardinality(Counting(r)) = Cardinality(Counting(r)') + 1
    BY <1>1, CountingMoves
  <2>4. (c \in Counting(r) <=> pc[c] = "count" /\ r = g) /\ (c \in Counting(r)' <=> pc[c] = "act" /\ r = g)
    BY <1>8
  <2>5. CASE r # g
    BY <1>4, <2>2, <2>3, <2>4, <2>5
  <2>6. CASE r = g /\ pc[c] = "item"
    <3>1. fired'[r].tasks = fired[r].tasks /\ fired'[r].triggerCount = fired[r].triggerCount /\ fired'[r].item
      BY <1>4, <2>6
    <3> QED
      BY <2>2, <2>3, <2>4, <2>6, <3>1
  <2>7. CASE r = g /\ pc[c] = "act"
    <3>1. fired'[r].tasks = fired[r].tasks + 1 /\ fired'[r].triggerCount = fired[r].triggerCount
          /\ fired'[r].item = fired[r].item /\ fired[r].tasks \in Nat /\ fired[r].triggerCount \in Nat
      BY <1>4, <2>7
    <3>2. fired[r].item
      BY <1>8, <2>7 DEF DueInv, Loops, ItemFirst
    <3> QED
      BY <2>1, <2>2, <2>3, <2>4, <2>7, <3>1, <3>2
  <2>8. CASE r = g /\ pc[c] = "count"
    <3>1. fired'[r].tasks = fired[r].tasks /\ fired'[r].triggerCount = fired[r].triggerCount + 1
          /\ fired'[r].item = fired[r].item /\ fired[r].tasks \in Nat /\ fired[r].triggerCount \in Nat
      BY <1>4, <2>8
    <3> QED
      BY <2>1, <2>2, <2>3, <2>4, <2>8, <3>1
  <2> QED
    BY <1>1, <2>5, <2>6, <2>7, <2>8
<1> QED
  BY <1>5, <1>6, <1>7, <1>9, <1>10 DEF Loops

(* An ad's recommendations: a call that has looked and found none makes    *)
(* one at most.                                                            *)
LEMMA PriceStepsKeep ==
  ASSUME DueInv, NEW c \in Call, BeginPrices(c) \/ LookForPending(c) \/ Advise(c)
  PROVE  Loops' /\ TriggersCounted' /\ PendingBounded'
<1>1. /\ followUps' = followUps /\ fired' = fired /\ faults' = faults
      /\ \A d \in Call \ {c} : pc'[d] = pc[d] /\ todo'[d] = todo[d]
      /\ pc[c] \in {"idle", "look", "advise"} /\ pc'[c] \in {"idle", "look", "advise"}
      /\ pc'[c] = "advise" => pc[c] = "look" /\ pending' = pending /\ ~(pending > 0)
      /\ pc[c] # "advise" => pending' = pending
      /\ pending' \in {pending, pending + 1}
  <2>1. pc \in [Call -> Pc] /\ todo \in [Call -> SUBSET (FollowUp \cup Rule)]
    BY DEF DueInv, TypeOK
  <2>2. CASE BeginPrices(c)
    BY <2>1, <2>2 DEF BeginPrices, Ask, Begin
  <2>3. CASE LookForPending(c)
    BY <2>1, <2>3 DEF LookForPending, Goto, counts
  <2>4. CASE Advise(c)
    BY <2>1, <2>4 DEF Advise, Goto, counts
  <2> QED
    BY <2>2, <2>3, <2>4
<1>2. LoopShape'
  BY <1>1 DEF LoopShape, DueInv, Loops, RuleSteps, FollowUpSteps
<1>3. TasksCovered' /\ ToldAfterTask'
  BY <1>1, FollowUpsStand DEF DueInv, Loops, FollowUpSteps
<1>4. TriggersCounted' /\ ItemFirst'
  BY <1>1, RulesStand DEF DueInv, Loops
<1>5. PendingBounded'
  <2> DEFINE A == {d \in Call : pc[d] = "advise"}
             B == {d \in Call : pc'[d] = "advise"}
  <2>1. \A d \in Call \ {c} : d \in A <=> d \in B
    BY <1>1
  <2>2. A \subseteq Call /\ B \subseteq Call /\ (c \in A <=> pc[c] = "advise") /\ (c \in B <=> pc'[c] = "advise")
    OBVIOUS
  <2>3. pending + Cardinality(A) <= Cardinality(Call) /\ pending \in Nat
    BY DEF DueInv, TypeOK, PendingBounded
  <2> SUFFICES pending' + Cardinality(B) <= Cardinality(Call)
    BY DEF PendingBounded
  <2> HIDE DEF A, B
  <2>4. /\ Cardinality(A) \in Nat /\ Cardinality(B) \in Nat /\ Cardinality(Call) \in Nat
        /\ Cardinality(B) <= Cardinality(Call)
    BY <2>2, SomeCalls
  <2>5. /\ (c \in A <=> c \in B) => A = B
        /\ c \in A /\ c \notin B => Cardinality(A) = Cardinality(B) + 1
    BY <2>1, <2>2, OneCallMoves
  <2>6. CASE pc'[c] = "advise"
    <3>1. pending' = 0
      BY <1>1, <2>3, <2>6
    <3> QED
      BY <2>4, <3>1
  <2>7. CASE pc'[c] # "advise" /\ pc[c] # "advise"
    BY <1>1, <2>2, <2>3, <2>5, <2>7
  <2>8. CASE pc'[c] # "advise" /\ pc[c] = "advise"
    BY <1>1, <2>2, <2>3, <2>4, <2>5, <2>8
  <2> QED
    BY <2>6, <2>7, <2>8
<1> QED
  BY <1>2, <1>3, <1>4, <1>5 DEF Loops

LEMMA DismissKeeps ==
  ASSUME DueInv, Dismiss
  PROVE  Loops' /\ TriggersCounted' /\ PendingBounded'
<1>1. /\ followUps' = followUps /\ fired' = fired /\ faults' = faults /\ pc' = pc /\ todo' = todo
      /\ pending' = pending - 1
  BY DEF Dismiss, calls, counts
<1>2. LoopShape'
  BY <1>1 DEF LoopShape, DueInv, Loops
<1>3. TasksCovered' /\ ToldAfterTask'
  BY <1>1, FollowUpsStand DEF DueInv, Loops
<1>4. TriggersCounted' /\ ItemFirst'
  BY <1>1, RulesStand DEF DueInv, Loops
<1>5. PendingBounded'
  <2>1. Cardinality({d \in Call : pc[d] = "advise"}) \in Nat /\ Cardinality(Call) \in Nat
    BY SomeCalls
  <2>2. pending \in Nat /\ pending + Cardinality({d \in Call : pc[d] = "advise"}) <= Cardinality(Call)
    BY DEF DueInv, TypeOK, PendingBounded
  <2>3. pending' + Cardinality({d \in Call : pc[d] = "advise"}) <= Cardinality(Call)
    <3> DEFINE n == Cardinality({d \in Call : pc[d] = "advise"})
    <3> HIDE DEF n
    <3>1. n \in Nat /\ pending + n <= Cardinality(Call)
      BY <2>1, <2>2 DEF n
    <3>2. pending' + n <= Cardinality(Call)
      BY <1>1, <2>1, <2>2, <3>1
    <3> QED
      BY <3>2 DEF n
  <2> QED
    BY <1>1, <2>3 DEF PendingBounded
<1> QED
  BY <1>2, <1>3, <1>4, <1>5 DEF Loops

(* Calls cut off by a fault: what they held is paid for by the fault.      *)
LEMMA CutOffsKeep ==
  ASSUME DueInv, followUps' = followUps, fired' = fired, pending' = pending, faults' = faults + 1,
         \A d \in Call : pc'[d] = "idle" \/ (pc'[d] = pc[d] /\ todo'[d] = todo[d])
  PROVE  Loops' /\ TriggersCounted' /\ PendingBounded'
<1>1. \A d \in Call : \A x, steps :
        "idle" \notin steps /\ Working(d, x, steps)' => Working(d, x, steps)
  <2> SUFFICES ASSUME NEW d \in Call, NEW x, NEW steps, "idle" \notin steps, Working(d, x, steps)'
               PROVE  Working(d, x, steps)
    OBVIOUS
  <2>1. pc'[d] # "idle"
    BY DEF Working
  <2> QED
    BY <2>1, WorkingStands
<1> DEFINE N == Cardinality(Call)
           cut == faults * N
           cut2 == faults' * N
<1>2. N \in Nat /\ cut \in Nat /\ cut2 = cut + N
  <2>1. N \in Nat /\ faults \in Nat
    BY SomeCalls DEF DueInv, TypeOK
  <2>2. (faults + 1) * N = faults * N + N
    BY <2>1
  <2> QED
    BY <2>1, <2>2
<1>3. LoopShape'
  BY DEF LoopShape, DueInv, Loops, RuleSteps, FollowUpSteps
<1>4. ASSUME NEW f
      PROVE  /\ Telling(f)' \subseteq Telling(f) /\ Telling(f) \subseteq Call
             /\ Holding(f) \subseteq Call /\ Holding(f)' \subseteq Call
             /\ Owing(f) \subseteq Call /\ Owing(f)' \subseteq Call
             /\ Counting(f) \subseteq Call /\ Counting(f)' \subseteq Counting(f)
             /\ \A d \in Call : Working(d, f, {"execute"})' => Working(d, f, {"execute"})
             /\ \A d \in Call : Working(d, f, {"act", "count"})' => Working(d, f, {"act", "count"})
  BY <1>1 DEF Telling, Holding, Owing, Counting
<1>5. ASSUME NEW f
      PROVE  /\ Cardinality(Telling(f)) \in Nat /\ Cardinality(Telling(f)') \in Nat
             /\ Cardinality(Telling(f)') <= Cardinality(Telling(f))
             /\ Cardinality(Counting(f)) \in Nat /\ Cardinality(Counting(f)') \in Nat
             /\ Cardinality(Counting(f)') <= Cardinality(Counting(f)) /\ Cardinality(Counting(f)) <= N
             /\ Cardinality(Holding(f)) \in Nat /\ Cardinality(Holding(f)) <= N
             /\ Cardinality(Holding(f)') \in Nat
             /\ Cardinality(Owing(f)') \in Nat /\ Cardinality(Owing(f)') <= N
             /\ Cardinality(Owing(f)) \in Nat
  <2>1. IsFiniteSet(Telling(f)) /\ IsFiniteSet(Counting(f))
    BY <1>4, SomeCalls
  <2>2. /\ Cardinality(Telling(f)') <= Cardinality(Telling(f))
        /\ Cardinality(Counting(f)') <= Cardinality(Counting(f))
    BY <1>4, <2>1, FS_Subset
  <2>3. Telling(f)' \subseteq Call /\ Counting(f)' \subseteq Call
    BY <1>4
  <2> QED
    BY <1>4, <2>2, <2>3, SomeCalls
<1> HIDE DEF N, cut, cut2
<1>6. TasksCovered'
  <2> SUFFICES ASSUME NEW f \in FollowUp
               PROVE  IF followUps[f].status = "pending"
                        THEN followUps[f].tasks <= cut2 + Cardinality(Holding(f)')
                        ELSE followUps[f].tasks + Cardinality(Owing(f)') <= cut2 + N
    BY DEF TasksCovered, cut2, N
  <2>1. IF followUps[f].status = "pending"
          THEN followUps[f].tasks <= cut + Cardinality(Holding(f))
          ELSE followUps[f].tasks + Cardinality(Owing(f)) <= cut + N
    BY DEF DueInv, Loops, TasksCovered, cut, N
  <2>2. followUps[f].tasks \in Nat
    BY DEF DueInv, TypeOK
  <2> QED
    BY <1>2, <1>5, <2>1, <2>2
<1>7. ToldAfterTask'
  <2> SUFFICES ASSUME NEW f \in FollowUp
               PROVE  /\ followUps[f].notified + Cardinality(Telling(f)') <= followUps[f].tasks
                      /\ followUps[f].status = "executed" => followUps[f].notified > 0
                      /\ \A d \in Call : Working(d, f, {"execute"})' => followUps[f].notified > 0
    BY DEF ToldAfterTask
  <2>1. /\ followUps[f].notified + Cardinality(Telling(f)) <= followUps[f].tasks
        /\ followUps[f].status = "executed" => followUps[f].notified > 0
        /\ \A d \in Call : Working(d, f, {"execute"}) => followUps[f].notified > 0
    BY DEF DueInv, Loops, ToldAfterTask
  <2>2. followUps[f].tasks \in Nat /\ followUps[f].notified \in Nat
    BY DEF DueInv, TypeOK
  <2> QED
    BY <1>4, <1>5, <2>1, <2>2
<1>8. ItemFirst'
  BY <1>4 DEF ItemFirst, DueInv, Loops
<1>9. TriggersCounted'
  <2> SUFFICES ASSUME NEW r \in Rule
               PROVE  LET lag == fired[r].tasks - fired[r].triggerCount IN
                      /\ lag >= Cardinality(Counting(r)')
                      /\ lag <= Cardinality(Counting(r)') + cut2
                      /\ fired[r].tasks > 0 => fired[r].item
    BY DEF TriggersCounted, Counting, cut2, N
  <2>1. LET lag == fired[r].tasks - fired[r].triggerCount IN
        /\ lag >= Cardinality(Counting(r))
        /\ lag <= Cardinality(Counting(r)) + cut
        /\ fired[r].tasks > 0 => fired[r].item
    BY DEF DueInv, TriggersCounted, Counting, cut, N
  <2>2. fired[r].tasks \in Nat /\ fired[r].triggerCount \in Nat
    BY DEF DueInv, TypeOK
  <2> QED
    BY <1>2, <1>5, <2>1, <2>2
<1>10. PendingBounded'
  <2> DEFINE A == {d \in Call : pc[d] = "advise"}
             B == {d \in Call : pc'[d] = "advise"}
  <2>1. B \subseteq A /\ A \subseteq Call
    OBVIOUS
  <2>2. pending \in Nat /\ pending + Cardinality(A) <= Cardinality(Call)
    BY DEF DueInv, TypeOK, PendingBounded
  <2> SUFFICES pending' + Cardinality(B) <= Cardinality(Call)
    BY DEF PendingBounded
  <2> HIDE DEF A, B
  <2>3. Cardinality(B) \in Nat /\ Cardinality(A) \in Nat /\ Cardinality(Call) \in Nat
        /\ Cardinality(B) <= Cardinality(A)
    <3>1. IsFiniteSet(A) /\ B \subseteq Call
      BY <2>1, SomeCalls
    <3> QED
      BY <2>1, <3>1, SomeCalls, FS_Subset
  <2> QED
    BY <2>2, <2>3
<1> QED
  BY <1>3, <1>6, <1>7, <1>8, <1>9, <1>10 DEF Loops

LEMMA DueTyped ==
  ASSUME DueInv, Next
  PROVE  TypeOK'
<1> DEFINE Records == [status : {"pending", "executed"}, tasks : Nat, notified : Nat]
           Fired   == [item : BOOLEAN, tasks : Nat, triggerCount : Nat]
<1>1. /\ followUps \in [FollowUp -> Records] /\ fired \in [Rule -> Fired] /\ pending \in Nat
      /\ pc \in [Call -> Pc] /\ todo \in [Call -> SUBSET (FollowUp \cup Rule)]
      /\ requests \in 0..MaxRequests /\ faults \in 0..MaxFaults
      /\ MaxRequests \in Nat /\ MaxFaults \in Nat
  BY DueWorkAssumption DEF DueInv, TypeOK
<1>2. \A c \in Call : pc[c] \in FollowUpSteps => At(c) \in FollowUp
  BY AtRow DEF DueInv, Loops, LoopShape
<1>3. \A c \in Call : pc[c] \in RuleSteps => At(c) \in Rule
  BY AtRow DEF DueInv, Loops, LoopShape
<1>4. followUps' \in [FollowUp -> Records]
  <2>1. CASE followUps' = followUps
    BY <1>1, <2>1
  <2>2. CASE followUps' # followUps
    <3>1. PICK c \in Call : CreateTask(c) \/ Notify(c) \/ MarkExecuted(c)
      BY <2>2 DEF Next, BeginFollowUps, BeginRules, BeginPrices, Continue, CheckRule, UpsertItem,
         Act, CountTrigger, LookForPending, Advise, Throws, Dismiss, Restart
    <3>2. At(c) \in FollowUp
      BY <1>2, <3>1 DEF CreateTask, Notify, MarkExecuted, FollowUpSteps
    <3>3. \/ followUps' = [followUps EXCEPT ![At(c)].tasks = @ + 1]
          \/ followUps' = [followUps EXCEPT ![At(c)].notified = @ + 1]
          \/ followUps' = [followUps EXCEPT ![At(c)].status = "executed"]
      BY <3>1 DEF CreateTask, Notify, MarkExecuted
    <3> QED
      BY <1>1, <3>2, <3>3
  <2> QED
    BY <2>1, <2>2
<1>5. fired' \in [Rule -> Fired]
  <2>1. CASE fired' = fired
    BY <1>1, <2>1
  <2>2. CASE fired' # fired
    <3>1. PICK c \in Call : UpsertItem(c) \/ Act(c) \/ CountTrigger(c)
      BY <2>2 DEF Next, BeginFollowUps, BeginRules, BeginPrices, Continue, CheckRule, CreateTask,
         Notify, MarkExecuted, LookForPending, Advise, Throws, Dismiss, Restart
    <3>2. At(c) \in Rule
      BY <1>3, <3>1 DEF UpsertItem, Act, CountTrigger, RuleSteps
    <3>3. \/ fired' = [fired EXCEPT ![At(c)].item = TRUE]
          \/ fired' = [fired EXCEPT ![At(c)].tasks = @ + 1]
          \/ fired' = [fired EXCEPT ![At(c)].triggerCount = @ + 1]
      BY <3>1 DEF UpsertItem, Act, CountTrigger
    <3>4. CASE fired' = [fired EXCEPT ![At(c)].item = TRUE]
      BY <1>1, <3>2, <3>4
    <3>5. CASE fired' = [fired EXCEPT ![At(c)].tasks = @ + 1]
      BY <1>1, <3>2, <3>5
    <3>6. CASE fired' = [fired EXCEPT ![At(c)].triggerCount = @ + 1]
      BY <1>1, <3>2, <3>6
    <3> QED
      BY <3>3, <3>4, <3>5, <3>6
  <2> QED
    BY <2>1, <2>2
<1>6. pending' \in Nat
  BY <1>1 DEF Next, BeginFollowUps, BeginRules, BeginPrices, Continue, CheckRule, CreateTask,
     Notify, MarkExecuted, UpsertItem, Act, CountTrigger, LookForPending, Advise, Throws, Dismiss, Restart
<1>7. /\ \/ requests' = requests /\ faults' = faults
         \/ Ask
         \/ Fault
      /\ \/ pc' = pc /\ todo' = todo
         \/ pc' = [c \in Call |-> "idle"] /\ todo' = [c \in Call |-> {}]
         \/ \E c \in Call : \E p \in Pc :
              /\ pc' = [pc EXCEPT ![c] = p]
              /\ \/ todo' = todo
                 \/ \E rows \in SUBSET (FollowUp \cup Rule) : todo' = [todo EXCEPT ![c] = rows]
  <2>1. ASSUME NEW c \in Call, NEW step \in Pc, NEW rows \in SUBSET (FollowUp \cup Rule), Begin(c, step, rows)
        PROVE  /\ pc' = [pc EXCEPT ![c] = step]
               /\ \E r \in SUBSET (FollowUp \cup Rule) : todo' = [todo EXCEPT ![c] = r]
    BY <2>1 DEF Begin
  <2>2. ASSUME NEW c \in Call, NEW step \in Pc, NextRow(c, step)
        PROVE  /\ \E p \in Pc : pc' = [pc EXCEPT ![c] = p]
               /\ \E r \in SUBSET (FollowUp \cup Rule) : todo' = [todo EXCEPT ![c] = r]
    <3>1. (IF todo[c] = {At(c)} THEN "idle" ELSE step) \in Pc
      BY DEF Pc
    <3>2. todo[c] \ {At(c)} \in SUBSET (FollowUp \cup Rule)
      BY <1>1
    <3> QED
      BY <2>2, <3>1, <3>2 DEF NextRow
  <2>3. Due \in SUBSET (FollowUp \cup Rule) /\ Rule \in SUBSET (FollowUp \cup Rule)
        /\ {} \in SUBSET (FollowUp \cup Rule)
    BY DEF Due
  <2>4. ASSUME NEW c \in Call, BeginFollowUps(c) \/ BeginRules(c) \/ BeginPrices(c)
        PROVE  /\ \/ requests' = requests /\ faults' = faults
                  \/ Ask
               /\ \E p \in Pc : pc' = [pc EXCEPT ![c] = p]
               /\ \E r \in SUBSET (FollowUp \cup Rule) : todo' = [todo EXCEPT ![c] = r]
    <3>1. "task" \in Pc /\ "check" \in Pc /\ "look" \in Pc
      BY DEF Pc
    <3> QED
      BY <2>1, <2>3, <2>4, <3>1 DEF BeginFollowUps, BeginRules, BeginPrices, counts
  <2>5. ASSUME NEW c \in Call, MarkExecuted(c) \/ CountTrigger(c) \/ CheckRule(c)
        PROVE  /\ requests' = requests /\ faults' = faults
               /\ \E p \in Pc : pc' = [pc EXCEPT ![c] = p]
               /\ \/ todo' = todo
                  \/ \E r \in SUBSET (FollowUp \cup Rule) : todo' = [todo EXCEPT ![c] = r]
    <3>1. "task" \in Pc /\ "check" \in Pc /\ "item" \in Pc
      BY DEF Pc
    <3> QED
      BY <2>2, <2>5, <3>1 DEF MarkExecuted, CountTrigger, CheckRule, Goto, counts
  <2>6. ASSUME NEW c \in Call,
               CreateTask(c) \/ Notify(c) \/ UpsertItem(c) \/ Act(c) \/ LookForPending(c) \/ Advise(c)
        PROVE  /\ requests' = requests /\ faults' = faults /\ todo' = todo
               /\ \E p \in Pc : pc' = [pc EXCEPT ![c] = p]
    BY <2>6 DEF CreateTask, Notify, UpsertItem, Act, LookForPending, Advise, Goto, counts, Pc
  <2>7. ASSUME NEW c \in Call, Throws(c)
        PROVE  /\ Fault /\ "idle" \in Pc
               /\ pc' = [pc EXCEPT ![c] = "idle"] /\ todo' = [todo EXCEPT ![c] = {}]
    BY <2>7 DEF Throws, Leave, Pc
  <2>8. CASE Dismiss
    BY <2>8 DEF Dismiss, calls, counts
  <2>9. CASE Restart
    BY <2>9 DEF Restart
  <2>10. CASE \E c \in Call : BeginFollowUps(c) \/ BeginRules(c) \/ BeginPrices(c) \/ Continue(c) \/ Throws(c)
    BY <2>3, <2>4, <2>5, <2>6, <2>7, <2>10 DEF Continue
  <2> QED
    BY <2>8, <2>9, <2>10 DEF Next
<1>8. requests' \in 0..MaxRequests /\ faults' \in 0..MaxFaults
  BY <1>1, <1>7 DEF Ask, Fault
<1>9. pc' \in [Call -> Pc] /\ todo' \in [Call -> SUBSET (FollowUp \cup Rule)]
  <2>1. CASE pc' = [c \in Call |-> "idle"] /\ todo' = [c \in Call |-> {}]
    BY <2>1 DEF Pc
  <2>2. CASE pc' = pc /\ todo' = todo
    BY <1>1, <2>2
  <2>3. CASE \E c \in Call : \E p \in Pc :
              /\ pc' = [pc EXCEPT ![c] = p]
              /\ \/ todo' = todo
                 \/ \E rows \in SUBSET (FollowUp \cup Rule) : todo' = [todo EXCEPT ![c] = rows]
    BY <1>1, <2>3
  <2> QED
    BY <1>7, <2>1, <2>2, <2>3
<1> QED
  BY <1>4, <1>5, <1>6, <1>8, <1>9 DEF TypeOK

LEMMA DueStep == DueInv /\ [Next]_vars => DueInv'
<1> SUFFICES ASSUME DueInv, [Next]_vars
             PROVE  DueInv'
  OBVIOUS
<1>1. CASE UNCHANGED vars
  <2>1. /\ followUps' = followUps /\ fired' = fired /\ faults' = faults /\ pending' = pending
        /\ pc' = pc /\ todo' = todo /\ requests' = requests
    BY <1>1 DEF vars, calls, counts
  <2>2. TypeOK' /\ LoopShape'
    BY <2>1 DEF DueInv, Loops, TypeOK, LoopShape
  <2>3. TasksCovered' /\ ToldAfterTask'
    BY <2>1, FollowUpsStand DEF DueInv, Loops
  <2>4. TriggersCounted' /\ ItemFirst'
    BY <2>1, RulesStand DEF DueInv, Loops
  <2>5. PendingBounded'
    BY <2>1, PricesStand DEF DueInv
  <2> QED
    BY <2>2, <2>3, <2>4, <2>5 DEF DueInv, Loops
<1>2. CASE Next
  <2> SUFFICES Loops' /\ TriggersCounted' /\ PendingBounded'
    BY <1>2, DueTyped DEF DueInv
  <2>1. ASSUME NEW c \in Call, Throws(c)
        PROVE  Loops' /\ TriggersCounted' /\ PendingBounded'
    <3>1. /\ followUps' = followUps /\ fired' = fired /\ pending' = pending /\ faults' = faults + 1
          /\ \A d \in Call : pc'[d] = "idle" \/ (pc'[d] = pc[d] /\ todo'[d] = todo[d])
      BY <2>1 DEF Throws, Leave, Fault, DueInv, TypeOK
    <3> QED
      BY <3>1, CutOffsKeep
  <2>2. CASE Restart
    <3>1. /\ followUps' = followUps /\ fired' = fired /\ pending' = pending /\ faults' = faults + 1
          /\ \A d \in Call : pc'[d] = "idle" \/ (pc'[d] = pc[d] /\ todo'[d] = todo[d])
      BY <2>2 DEF Restart, Fault
    <3> QED
      BY <3>1, CutOffsKeep
  <2>3. ASSUME NEW c \in Call, BeginFollowUps(c) \/ BeginRules(c) \/ BeginPrices(c) \/ Continue(c)
        PROVE  Loops' /\ TriggersCounted' /\ PendingBounded'
    BY <2>3, FollowUpStepsKeep, CheckRulesKeep, RuleStepsKeep, PriceStepsKeep DEF Continue
  <2>4. CASE \E c \in Call : BeginFollowUps(c) \/ BeginRules(c) \/ BeginPrices(c) \/ Continue(c) \/ Throws(c)
    BY <2>1, <2>3, <2>4
  <2>5. CASE Dismiss
    BY <2>5, DismissKeeps
  <2> QED
    BY <1>2, <2>2, <2>4, <2>5 DEF Next
<1> QED
  BY <1>1, <1>2

LEMMA DueStarts == Init => DueInv
<1> SUFFICES ASSUME Init
             PROVE  DueInv
  OBVIOUS
<1>1. TypeOK
  BY DueWorkAssumption DEF Init, TypeOK, Pc
<1>2. \A x : Holding(x) = {} /\ Telling(x) = {} /\ Owing(x) = {} /\ Counting(x) = {}
  BY DEF Init, Holding, Telling, Owing, Counting, Working, FollowUpSteps
<1>3. \A x : /\ Cardinality(Holding(x)) = 0 /\ Cardinality(Telling(x)) = 0
             /\ Cardinality(Owing(x)) = 0 /\ Cardinality(Counting(x)) = 0
  BY <1>2, FS_EmptySet
<1>4. faults * Cardinality(Call) = 0 /\ Cardinality(Call) \in Nat
  BY SomeCalls DEF Init
<1>5. \A c \in Call : pc[c] = "idle"
  BY DEF Init
<1>6. TasksCovered
  BY <1>3, <1>4 DEF Init, TasksCovered
<1>7. ToldAfterTask
  BY <1>3, <1>5 DEF Init, ToldAfterTask, Working
<1>8. LoopShape /\ ItemFirst
  BY <1>5 DEF LoopShape, ItemFirst, Working, FollowUpSteps, RuleSteps
<1>9. TriggersCounted
  <2> SUFFICES ASSUME NEW r \in Rule
               PROVE  LET lag == fired[r].tasks - fired[r].triggerCount IN
                      /\ lag >= Cardinality(Counting(r))
                      /\ lag <= Cardinality(Counting(r)) + faults * Cardinality(Call)
                      /\ fired[r].tasks > 0 => fired[r].item
    BY DEF TriggersCounted, Counting
  <2>1. fired[r] = [item |-> FALSE, tasks |-> 0, triggerCount |-> 0]
    BY DEF Init
  <2> QED
    BY <1>3, <1>4, <2>1
<1>10. PendingBounded
  <2>1. {c \in Call : pc[c] = "advise"} = {}
    BY <1>5
  <2>2. Cardinality({c \in Call : pc[c] = "advise"}) = 0
    BY <2>1, FS_EmptySet
  <2> QED
    BY <1>4, <2>2 DEF Init, PendingBounded
<1> QED
  BY <1>1, <1>6, <1>7, <1>8, <1>9, <1>10 DEF DueInv, Loops

LEMMA DueAccounts == DueInv => WorkAccounted
<1> SUFFICES ASSUME DueInv
             PROVE  FollowUpsAccounted
  BY DEF DueInv, WorkAccounted
<1> SUFFICES ASSUME NEW f \in FollowUp
             PROVE  /\ followUps[f].status = "executed" => followUps[f].tasks > 0 /\ followUps[f].notified > 0
                    /\ followUps[f].notified <= followUps[f].tasks
                    /\ followUps[f].tasks <= Cardinality(Call) * (faults + 1)
  BY DEF FollowUpsAccounted
<1>1. /\ followUps[f].notified + Cardinality(Telling(f)) <= followUps[f].tasks
      /\ followUps[f].status = "executed" => followUps[f].notified > 0
  BY DEF DueInv, Loops, ToldAfterTask
<1> DEFINE N == Cardinality(Call)
           cut == faults * N
<1>2. IF followUps[f].status = "pending"
        THEN followUps[f].tasks <= cut + Cardinality(Holding(f))
        ELSE followUps[f].tasks + Cardinality(Owing(f)) <= cut + N
  BY DEF DueInv, Loops, TasksCovered
<1>3. N \in Nat /\ cut \in Nat /\ Cardinality(Call) * (faults + 1) = cut + N
  <2>1. N \in Nat /\ faults \in Nat
    BY SomeCalls DEF DueInv, TypeOK
  <2>2. N * (faults + 1) = faults * N + N
    BY <2>1
  <2> QED
    BY <2>1, <2>2
<1>4. /\ Cardinality(Telling(f)) \in Nat /\ Cardinality(Owing(f)) \in Nat
      /\ Cardinality(Holding(f)) \in Nat /\ Cardinality(Holding(f)) <= N
  BY SomeCalls DEF Telling, Owing, Holding
<1>5. followUps[f].tasks \in Nat /\ followUps[f].notified \in Nat
  BY DEF DueInv, TypeOK
<1> HIDE DEF N, cut
<1> QED
  BY <1>1, <1>2, <1>3, <1>4, <1>5

-----------------------------------------------------------------------------
(* The card and the deal.                                                  *)

(* A deal that somebody works with exists.                                 *)
DealThere ==
  /\ lead.linked => deal # <<>>
  /\ \A c \in Call : pipelinePc[c] \in {"load", "save", "link"} => deal # <<>>

(* What a call loaded was not at the stage it asks for.                    *)
ReadOther ==
  \A c \in Call : pipelinePc[c] = "save" => read[c] # 0 /\ deal[read[c]] # want[c]

(* A call that began while nobody was there, and has met nobody.           *)
AloneIsAlone ==
  \A c \in Call : alone[c] => pipelinePc[c] # "idle" /\ \A d \in Call \ {c} : pipelinePc[d] = "idle"

(* Its row is as it has written it, and it goes on to the deal if there is *)
(* one.                                                                    *)
AloneHasWritten ==
  \A c \in Call : alone[c] /\ move[c] # NoStage =>
    /\ lead.stage = move[c] /\ lead.dealStage = want[c]
    /\ pipelinePc[c] = "answer" => ~lead.linked

(* Since a move has settled, nothing has begun.                            *)
SettledIsQuiet == settled # NoStage => \A c \in Call : pipelinePc[c] = "idle"

PipelineInv ==
  /\ P!TypeOK /\ DealThere /\ ReadOther
  /\ AloneIsAlone /\ AloneHasWritten /\ SettledIsQuiet
  /\ P!MoveSettles /\ P!StreamMoves

-----------------------------------------------------------------------------
LEMMA PipelineStarts == P!PipelineAssumption /\ P!Init => PipelineInv
<1> SUFFICES ASSUME P!PipelineAssumption, P!Init PROVE PipelineInv
  OBVIOUS
<1>1. NewStage \in Stage /\ MCDealStageOf[NewStage] \in P!DealStage
  BY DEF P!PipelineAssumption, P!DealStage
<1>2. Len(deal) = 0 /\ deal \in Seq(P!DealStage)
  BY DEF P!Init
<1>3. P!TypeOK
  BY <1>1, <1>2 DEF P!Init, P!TypeOK, P!PipelineAssumption
<1>4. DealThere /\ ReadOther /\ AloneIsAlone /\ AloneHasWritten /\ SettledIsQuiet
  BY DEF P!Init, DealThere, ReadOther, AloneIsAlone, AloneHasWritten, SettledIsQuiet
<1>5. P!MoveSettles /\ P!StreamMoves
  BY <1>2 DEF P!Init, P!MoveSettles, P!StreamMoves
<1> QED
  BY <1>3, <1>4, <1>5 DEF PipelineInv

(* A call begins: whatever was settled is so no more, and a call that was  *)
(* alone is not.                                                           *)
LEMMA MoveBegins ==
  ASSUME P!PipelineAssumption, PipelineInv, NEW c \in Call,
         NEW step \in {"answer", "load", "link"},
         NEW s \in Stage \cup {NoStage}, NEW d \in P!DealStage,
         P!Begin(c, step, s, d),
         lead' \in [stage : Stage, dealStage : P!DealStage, linked : BOOLEAN],
         lead'.linked = lead.linked,
         deal' = deal \/ (deal = <<>> /\ \E x \in P!DealStage : deal' = <<x>>),
         step # "answer" => deal' # <<>>,
         s # NoStage => /\ lead'.stage = s /\ lead'.dealStage = d
                        /\ step = "answer" => ~lead.linked
  PROVE  PipelineInv'
<1>1. \A x \in Call : /\ pipelinePc'[x] = IF x = c THEN step ELSE pipelinePc[x]
                      /\ move'[x] = IF x = c THEN s ELSE move[x]
                      /\ want'[x] = IF x = c THEN d ELSE want[x]
                      /\ read'[x] = read[x]
                      /\ alone'[x] = (x = c /\ P!Others(c) = {})
  BY DEF P!Begin, PipelineInv, P!TypeOK
<1>2. pipelinePc[c] = "idle" /\ settled' = NoStage
  BY DEF P!Begin
<1>3. /\ deal' \in Seq(P!DealStage) /\ Len(deal) <= Len(deal') /\ Len(deal) \in Nat /\ Len(deal') \in Nat
      /\ \A i \in 1..Len(deal) : deal'[i] = deal[i]
      /\ deal # <<>> => deal' = deal
      /\ deal' # deal => Len(deal') = 1
  <2>1. deal \in Seq(P!DealStage) /\ Len(deal) \in Nat
    BY DEF PipelineInv, P!TypeOK
  <2>2. CASE deal' = deal
    BY <2>1, <2>2
  <2>3. CASE deal = <<>> /\ \E x \in P!DealStage : deal' = <<x>>
    <3>1. PICK x \in P!DealStage : deal' = <<x>>
      BY <2>3
    <3>2. Len(deal) = 0 /\ Len(deal') = 1 /\ deal' \in Seq(P!DealStage)
      BY <2>3, <3>1
    <3> QED
      BY <2>3, <3>2
  <2> QED
    BY <2>2, <2>3
<1>4. P!TypeOK'
  <2>1. /\ pipelinePc' \in [Call -> {"idle", "answer", "load", "save", "link"}]
        /\ move' \in [Call -> Stage \cup {NoStage}] /\ want' \in [Call -> P!DealStage]
        /\ alone' \in [Call -> BOOLEAN]
    BY DEF P!Begin, PipelineInv, P!TypeOK
  <2>2. read' \in [Call -> 0..Len(deal')]
    <3>1. read \in [Call -> 0..Len(deal)] /\ read' = read
      BY DEF P!Begin, PipelineInv, P!TypeOK
    <3> QED
      BY <3>1, <1>3
  <2>3. settled' \in Stage \cup {NoStage} /\ ops' \in 0..MaxOps
    BY DEF P!Begin, PipelineInv, P!TypeOK, P!PipelineAssumption
  <2> QED
    BY <2>1, <2>2, <2>3, <1>3 DEF P!TypeOK
<1>5. DealThere'
  BY <1>1, <1>3 DEF PipelineInv, DealThere
<1>6. ReadOther'
  <2> SUFFICES ASSUME NEW x \in Call, pipelinePc'[x] = "save"
               PROVE  read'[x] # 0 /\ deal'[read'[x]] # want'[x]
    BY DEF ReadOther
  <2>1. x # c /\ pipelinePc[x] = "save" /\ read'[x] = read[x] /\ want'[x] = want[x]
    BY <1>1
  <2>2. deal' = deal
    BY <2>1, <1>3 DEF PipelineInv, DealThere
  <2> QED
    BY <2>1, <2>2 DEF PipelineInv, ReadOther
<1>7. AloneIsAlone'
  BY <1>1 DEF AloneIsAlone, P!Others
<1>8. AloneHasWritten'
  BY <1>1 DEF AloneHasWritten
<1>9. SettledIsQuiet' /\ P!MoveSettles'
  BY <1>2 DEF SettledIsQuiet, P!MoveSettles
<1>10. P!StreamMoves'
  <2>1. CASE deal' = deal
    BY <2>1 DEF PipelineInv, P!StreamMoves
  <2>2. CASE Len(deal') = 1
    BY <2>2 DEF P!StreamMoves
  <2> QED
    BY <2>1, <2>2, <1>3
<1> QED
  BY <1>4, <1>5, <1>6, <1>7, <1>8, <1>9, <1>10 DEF PipelineInv

(* A call ends.  Either what was settled stays so and the pair is left     *)
(* alone but for a link, or the pair is settled by a call that was alone.  *)
LEMMA MoveEnds ==
  ASSUME P!PipelineAssumption, PipelineInv, NEW c \in Call, pipelinePc[c] # "idle", P!Leave(c),
         \/ lead' = lead
         \/ pipelinePc[c] = "link" /\ lead' = [lead EXCEPT !.linked = TRUE],
         \/ deal' = deal
         \/ pipelinePc[c] = "save" /\ read[c] = Len(deal) /\ deal' = Append(deal, want[c]),
         \/ settled' = settled
         \/ /\ alone[c] /\ settled' = move[c] /\ lead' = lead
            /\ pipelinePc[c] = "answer" \/ P!LastOf(deal') = want[c]
  PROVE  PipelineInv'
<1>1. \A x \in Call : /\ pipelinePc'[x] = IF x = c THEN "idle" ELSE pipelinePc[x]
                      /\ move'[x] = IF x = c THEN NoStage ELSE move[x]
                      /\ x # c => want'[x] = want[x] /\ read'[x] = read[x]
                      /\ alone'[x] = IF x = c THEN FALSE ELSE alone[x]
  BY DEF P!Leave, PipelineInv, P!TypeOK
<1>2. /\ lead' \in [stage : Stage, dealStage : P!DealStage, linked : BOOLEAN]
      /\ lead'.stage = lead.stage /\ lead'.dealStage = lead.dealStage
      /\ lead'.linked => deal # <<>>
  BY DEF PipelineInv, P!TypeOK, DealThere
<1>3. /\ deal \in Seq(P!DealStage) /\ Len(deal) \in Nat
      /\ deal = <<>> <=> Len(deal) = 0
  BY DEF PipelineInv, P!TypeOK
<1>4. /\ deal' \in Seq(P!DealStage)
      /\ Len(deal') \in {Len(deal), Len(deal) + 1}
      /\ \A i \in 1..Len(deal) : deal'[i] = deal[i]
      /\ deal # <<>> => deal' # <<>>
      /\ deal' # deal => /\ read[c] = Len(deal) /\ pipelinePc[c] = "save"
                         /\ Len(deal') = Len(deal) + 1 /\ deal'[Len(deal')] = want[c]
  <2>1. want[c] \in P!DealStage
    BY DEF PipelineInv, P!TypeOK
  <2>2. CASE deal' = deal
    BY <2>2, <1>3
  <2>3. CASE pipelinePc[c] = "save" /\ read[c] = Len(deal) /\ deal' = Append(deal, want[c])
    <3>1. /\ Append(deal, want[c]) \in Seq(P!DealStage)
          /\ Len(Append(deal, want[c])) = Len(deal) + 1
          /\ \A i \in 1..Len(deal) : Append(deal, want[c])[i] = deal[i]
          /\ Append(deal, want[c])[Len(deal) + 1] = want[c]
      BY <2>1, <1>3
    <3>2. deal' # <<>>
      BY <2>3, <3>1, <1>3
    <3> QED
      BY <2>3, <3>1, <3>2
  <2> QED
    BY <2>2, <2>3
<1>5. P!TypeOK'
  <2>1. /\ pipelinePc' \in [Call -> {"idle", "answer", "load", "save", "link"}]
        /\ move' \in [Call -> Stage \cup {NoStage}]
        /\ alone' \in [Call -> BOOLEAN] /\ ops' \in 0..MaxOps
    BY DEF P!Leave, PipelineInv, P!TypeOK
  <2>2. want' \in [Call -> P!DealStage]
    <3>1. MCDealStageOf[NewStage] \in P!DealStage
      BY DEF P!PipelineAssumption, P!DealStage
    <3> QED
      BY <3>1 DEF P!Leave, PipelineInv, P!TypeOK
  <2>3. read' \in [Call -> 0..Len(deal')]
    <3>1. read \in [Call -> 0..Len(deal)] /\ read' = [read EXCEPT ![c] = 0]
      BY DEF P!Leave, PipelineInv, P!TypeOK
    <3> QED
      BY <3>1, <1>3, <1>4
  <2>4. settled' \in Stage \cup {NoStage}
    BY DEF PipelineInv, P!TypeOK
  <2> QED
    BY <2>1, <2>2, <2>3, <2>4, <1>2, <1>4 DEF P!TypeOK
<1>6. DealThere'
  <2>1. \A x \in Call : pipelinePc'[x] \in {"load", "save", "link"} => deal # <<>>
    BY <1>1 DEF PipelineInv, DealThere
  <2> QED
    BY <2>1, <1>2, <1>4 DEF DealThere
<1>7. ReadOther'
  <2> SUFFICES ASSUME NEW x \in Call, pipelinePc'[x] = "save"
               PROVE  read'[x] # 0 /\ deal'[read'[x]] # want'[x]
    BY DEF ReadOther
  <2>1. x # c /\ pipelinePc[x] = "save" /\ read'[x] = read[x] /\ want'[x] = want[x]
    BY <1>1
  <2>2. read[x] # 0 /\ deal[read[x]] # want[x] /\ read[x] \in 0..Len(deal)
    BY <2>1 DEF PipelineInv, P!TypeOK, ReadOther
  <2>3. read[x] \in 1..Len(deal)
    BY <2>2, <1>3
  <2> QED
    BY <2>1, <2>2, <2>3, <1>4
<1>8. AloneIsAlone'
  BY <1>1 DEF PipelineInv, AloneIsAlone
<1>9. AloneHasWritten'
  <2>1. \A x \in Call : alone'[x] => FALSE
    BY <1>1 DEF PipelineInv, AloneIsAlone
  <2> QED
    BY <2>1 DEF AloneHasWritten
<1>10. P!StreamMoves'
  <2>1. CASE deal' = deal
    BY <2>1 DEF PipelineInv, P!StreamMoves
  <2>2. CASE deal' # deal
    <3>1. /\ read[c] = Len(deal) /\ pipelinePc[c] = "save"
          /\ Len(deal') = Len(deal) + 1 /\ deal'[Len(deal) + 1] = want[c]
      BY <2>2, <1>4
    <3>2. deal[Len(deal)] # want[c] /\ Len(deal) # 0
      BY <3>1 DEF PipelineInv, ReadOther
    <3> SUFFICES ASSUME NEW i \in 2..Len(deal') PROVE deal'[i] # deal'[i - 1]
      BY DEF P!StreamMoves
    <3>3. CASE i = Len(deal) + 1
      <4>1. i - 1 = Len(deal) /\ Len(deal) \in 1..Len(deal)
        BY <3>2, <3>3, <1>3
      <4>2. deal'[i - 1] = deal[Len(deal)]
        BY <4>1, <1>4
      <4> QED
        BY <3>1, <3>2, <3>3, <4>2
    <3>4. CASE i # Len(deal) + 1
      <4>1. i \in 2..Len(deal) /\ i \in 1..Len(deal) /\ i - 1 \in 1..Len(deal)
        BY <3>1, <3>4, <1>3
      <4>2. deal'[i] = deal[i] /\ deal'[i - 1] = deal[i - 1]
        BY <4>1, <1>4
      <4> QED
        BY <4>1, <4>2 DEF PipelineInv, P!StreamMoves
    <3> QED
      BY <3>3, <3>4
  <2> QED
    BY <2>1, <2>2
<1>11. SettledIsQuiet' /\ P!MoveSettles'
  <2>1. CASE settled' = settled
    <3>1. settled = NoStage
      BY DEF PipelineInv, SettledIsQuiet
    <3> QED
      BY <2>1, <3>1 DEF SettledIsQuiet, P!MoveSettles
  <2>2. CASE /\ alone[c] /\ settled' = move[c] /\ lead' = lead
             /\ pipelinePc[c] = "answer" \/ P!LastOf(deal') = want[c]
    <3>1. \A x \in Call : pipelinePc'[x] = "idle"
      BY <2>2, <1>1 DEF PipelineInv, AloneIsAlone
    <3>2. SettledIsQuiet'
      BY <3>1 DEF SettledIsQuiet
    <3>3. CASE move[c] = NoStage
      BY <2>2, <3>2, <3>3 DEF P!MoveSettles
    <3>4. CASE move[c] # NoStage
      <4>1. /\ lead.stage = move[c] /\ lead.dealStage = want[c]
            /\ pipelinePc[c] = "answer" => ~lead.linked
        BY <2>2, <3>4 DEF PipelineInv, AloneHasWritten
      <4>2. P!LastOf(deal)' = P!LastOf(deal')
        BY DEF P!LastOf
      <4> QED
        BY <2>2, <3>2, <4>1, <4>2 DEF P!MoveSettles
    <3> QED
      BY <3>3, <3>4
  <2> QED
    BY <2>1, <2>2
<1> QED
  BY <1>5, <1>6, <1>7, <1>8, <1>9, <1>10, <1>11 DEF PipelineInv

(* The deal is loaded and is at another stage.                             *)
LEMMA DealLoads ==
  ASSUME P!PipelineAssumption, PipelineInv, NEW c \in Call,
         pipelinePc[c] = "load", P!LastOf(deal) # want[c],
         pipelinePc' = [pipelinePc EXCEPT ![c] = "save"], read' = [read EXCEPT ![c] = Len(deal)],
         UNCHANGED <<lead, deal, move, want, alone, settled, ops>>
  PROVE  PipelineInv'
<1>1. \A x \in Call : /\ pipelinePc'[x] = IF x = c THEN "save" ELSE pipelinePc[x]
                      /\ read'[x] = IF x = c THEN Len(deal) ELSE read[x]
  BY DEF PipelineInv, P!TypeOK
<1>2. deal # <<>> /\ deal \in Seq(P!DealStage) /\ Len(deal) \in Nat
  BY DEF PipelineInv, P!TypeOK, DealThere
<1>3. Len(deal) # 0 /\ Len(deal) \in 0..Len(deal)
  BY <1>2
<1>4. P!TypeOK'
  <2>1. read' \in [Call -> 0..Len(deal)]
    BY <1>3 DEF PipelineInv, P!TypeOK
  <2>2. pipelinePc' \in [Call -> {"idle", "answer", "load", "save", "link"}]
    BY DEF PipelineInv, P!TypeOK
  <2> QED
    BY <2>1, <2>2 DEF PipelineInv, P!TypeOK
<1>5. DealThere'
  BY <1>1, <1>2 DEF PipelineInv, DealThere
<1>6. ReadOther'
  BY <1>1, <1>3 DEF PipelineInv, ReadOther, P!LastOf
<1>7. AloneIsAlone' /\ AloneHasWritten' /\ SettledIsQuiet'
  BY <1>1 DEF PipelineInv, AloneIsAlone, AloneHasWritten, SettledIsQuiet
<1>8. P!MoveSettles' /\ P!StreamMoves'
  BY DEF PipelineInv, P!MoveSettles, P!StreamMoves, P!LastOf
<1> QED
  BY <1>4, <1>5, <1>6, <1>7, <1>8 DEF PipelineInv

-----------------------------------------------------------------------------
LEMMA PipelineStep == P!PipelineAssumption /\ PipelineInv /\ [P!Next]_(P!vars) => PipelineInv'
<1> SUFFICES ASSUME P!PipelineAssumption, PipelineInv, [P!Next]_(P!vars) PROVE PipelineInv'
  OBVIOUS
<1>0. /\ lead \in [stage : Stage, dealStage : P!DealStage, linked : BOOLEAN]
      /\ NoStage \in Stage \cup {NoStage}
      /\ NewStage \in Stage /\ MCDealStageOf[NewStage] \in P!DealStage
      /\ \A s \in Stage : MCDealStageOf[s] \in P!DealStage
  BY DEF PipelineInv, P!TypeOK, P!PipelineAssumption, P!DealStage
<1>1. ASSUME NEW c \in Call, NEW s \in Stage, P!MoveLead(c, s) PROVE PipelineInv'
  <2>1. /\ lead' \in [stage : Stage, dealStage : P!DealStage, linked : BOOLEAN]
        /\ lead'.linked = lead.linked /\ lead'.stage = s /\ lead'.dealStage = MCDealStageOf[s]
        /\ deal' = deal
    BY <1>0, <1>1 DEF P!MoveLead, P!MoveStage
  <2>2. CASE lead.linked
    <3>1. P!Begin(c, "load", s, MCDealStageOf[s]) /\ deal' # <<>>
      BY <1>1, <2>1, <2>2 DEF P!MoveLead, PipelineInv, DealThere
    <3> QED
      BY <1>0, <2>1, <3>1, MoveBegins
  <2>3. CASE ~lead.linked
    <3>1. P!Begin(c, "answer", s, MCDealStageOf[s])
      BY <1>1, <2>3 DEF P!MoveLead
    <3> QED
      BY <1>0, <2>1, <2>3, <3>1, MoveBegins
  <2> QED
    BY <2>2, <2>3
<1>2. ASSUME NEW c \in Call, P!AnswerMove(c) PROVE PipelineInv'
  BY <1>2, MoveEnds DEF P!AnswerMove, P!Answer
<1>3. ASSUME NEW c \in Call, NEW d \in P!DealStage, P!ChangeStage(c, d) PROVE PipelineInv'
  BY <1>0, <1>3, MoveBegins DEF P!ChangeStage
<1>4. ASSUME NEW c \in Call, P!CreateDeal(c) PROVE PipelineInv'
  <2>1. /\ deal = <<>> /\ deal' = <<MCDealStageOf[NewStage]>> /\ lead' = lead
        /\ P!Begin(c, "link", NoStage, MCDealStageOf[NewStage])
    BY <1>4 DEF P!CreateDeal
  <2>2. deal' # <<>>
    <3>1. Len(deal') = 1 /\ Len(<<>>) = 0
      BY <2>1
    <3> QED
      BY <3>1
  <2> QED
    BY <1>0, <2>1, <2>2, MoveBegins
<1>5. ASSUME NEW c \in Call, P!LinkDeal(c) PROVE PipelineInv'
  BY <1>5, MoveEnds DEF P!LinkDeal
<1>6. ASSUME NEW c \in Call, P!Load(c) PROVE PipelineInv'
  <2>1. CASE P!LastOf(deal) = want[c] /\ P!Answer(c) /\ deal' = deal
    BY <1>6, <2>1, MoveEnds DEF P!Load, P!Answer, P!LastOf
  <2>2. CASE P!LastOf(deal) # want[c]
    BY <1>6, <2>2, DealLoads DEF P!Load
  <2> QED
    BY <1>6, <2>1, <2>2 DEF P!Load
<1>7. ASSUME NEW c \in Call, P!Save(c) PROVE PipelineInv'
  <2>1. deal \in Seq(P!DealStage) /\ want[c] \in P!DealStage
    BY DEF PipelineInv, P!TypeOK
  <2>2. deal' = Append(deal, want[c]) /\ pipelinePc[c] = "save" /\ read[c] = Len(deal) /\ P!Answer(c)
    BY <1>7 DEF P!Save
  <2>3. P!LastOf(deal') = want[c]
    <3>1. Len(Append(deal, want[c])) = Len(deal) + 1
          /\ Append(deal, want[c])[Len(deal) + 1] = want[c]
      BY <2>1
    <3> QED
      BY <2>2, <3>1 DEF P!LastOf
  <2> QED
    BY <2>2, <2>3, MoveEnds DEF P!Answer
<1>8. ASSUME NEW c \in Call, P!Throws(c) PROVE PipelineInv'
  BY <1>8, MoveEnds DEF P!Throws
<1>9. CASE UNCHANGED P!vars
  BY <1>9 DEF P!vars, P!calls, PipelineInv, P!TypeOK, DealThere, ReadOther, AloneIsAlone, AloneHasWritten,
              SettledIsQuiet, P!MoveSettles, P!StreamMoves, P!LastOf
<1>10. CASE P!Next
  <2>1. PICK c \in Call :
          \/ \E s \in Stage : P!MoveLead(c, s)
          \/ P!AnswerMove(c)
          \/ \E d \in P!DealStage : P!ChangeStage(c, d)
          \/ P!CreateDeal(c) \/ P!LinkDeal(c) \/ P!Load(c) \/ P!Save(c) \/ P!Throws(c)
    BY <1>10 DEF P!Next
  <2> QED
    BY <2>1, <1>1, <1>2, <1>3, <1>4, <1>5, <1>6, <1>7, <1>8
<1> QED
  BY <1>9, <1>10

-----------------------------------------------------------------------------
(* The feed.                                                               *)

(* The ads a call is to mark are in its file, with a text that is no older *)
(* than what was asked for, unless it was asked for meanwhile.             *)
Carried ==
  /\ \A c \in Call : feedPc[c] = "idle" => feedTodo[c] = {}
  /\ \A c \in Call : \A a \in feedTodo[c] : file[c][a] # F!None
  /\ \A c \in Call : \A a \in feedTodo[c] :
       ~crossed[a] /\ asked[a] # F!None => asked[a] <= file[c][a]

(* A text asked for is not newer than the text there is.                   *)
AskedBefore == \A a \in Ad : asked[a] <= enrichment[a].text

(* A call that marks has recorded its file.                                *)
Recorded == \A c \in Call : feedPc[c] = "mark" => \E e \in exports : e.file = file[c]

(* Exports begun that have no row.                                         *)
Early == {c \in Call : feedPc[c] \in {"store", "last", "create"}}

(* Each of them leaves room for one more version.                          *)
Room ==
  /\ Cardinality(Early) <= begun
  /\ \A e \in exports : e.version + Cardinality(Early) <= begun
  /\ \A c \in Call : version[c] = 0 \/ \E e \in exports : e.version = version[c]

(* A call has found a version that none of its own rows exceeds, so that   *)
(* it has no two rows of one version.                                      *)
OwnVersions ==
  /\ IsFiniteSet(exports)
  /\ \A c \in Call : feedPc[c] = "create" =>
       \A e \in exports : e.by = c => e.version <= version[c]
  /\ \A e, f \in exports : e.by = f.by /\ e.version = f.version => e = f

NoGap == \A e \in exports : e.version > 1 => \E f \in exports : f.version = e.version - 1

FeedInv ==
  /\ F!TypeOK /\ Carried /\ AskedBefore /\ Recorded /\ F!ExportedIsInFile
  /\ Room /\ OwnVersions /\ NoGap

-----------------------------------------------------------------------------
LEMMA TextsTyped == F!FeedExportAssumption => F!Texts \subseteq Nat /\ F!None \notin F!Texts /\ 0 \in F!Texts
BY DEF F!FeedExportAssumption, F!Texts, F!None

(* There is a newest version.                                              *)
LEMMA Newest ==
  ASSUME F!FeedExportAssumption, F!TypeOK
  PROVE  /\ F!NewestVersion \in 0..MaxExports
         /\ F!NewestVersion = 0 \/ \E e \in exports : e.version = F!NewestVersion
         /\ \A e \in exports : e.version <= F!NewestVersion
<1> DEFINE Found(v) == v = 0 \/ \E e \in exports : e.version = v
           Left  == {n \in 0..MaxExports : Found(MaxExports - n)}
           Less  == {ss \in Nat \X Nat : ss[1] < ss[2]}
<1>1. MaxExports \in Nat /\ \A e \in exports : e.version \in 1..MaxExports
  BY DEF F!FeedExportAssumption, F!TypeOK
<1>2. IsWellFoundedOn(Less, Nat)
  BY NatLessThanWellFounded DEF OpToRel
<1>3. Left \subseteq Nat /\ MaxExports \in Left
  BY <1>1
<1>4. PICK n \in Left : \A m \in Left : ~(<<m, n>> \in Less)
  <2> HIDE DEF Left, Less
  <2> QED
    BY <1>2, <1>3, WFMin
<1>5. MaxExports - n \in 0..MaxExports /\ Found(MaxExports - n)
  BY <1>1, <1>4
<1>6. \A e \in exports : e.version <= MaxExports - n
  <2> SUFFICES ASSUME NEW e \in exports PROVE e.version <= MaxExports - n
    OBVIOUS
  <2>1. e.version \in 1..MaxExports /\ n \in 0..MaxExports
    BY <1>1, <1>4
  <2>2. MaxExports - e.version \in 0..MaxExports /\ MaxExports - (MaxExports - e.version) = e.version
    BY <1>1, <2>1
  <2>3. MaxExports - e.version \in Left
    BY <2>2
  <2>4. ~(MaxExports - e.version < n)
    <3>1. \A m \in Nat : m < n => <<m, n>> \in Less
      BY <2>1
    <3>2. MaxExports - e.version \in Nat
      BY <2>2
    <3> HIDE DEF Left, Less
    <3> QED
      BY <1>4, <2>3, <3>1, <3>2
  <2> QED
    BY <1>1, <2>1, <2>4
<1>7. \E v \in 0..MaxExports : Found(v) /\ \A e \in exports : e.version <= v
  BY <1>5, <1>6
<1> QED
  BY <1>7 DEF F!NewestVersion

(* The calls that have no row yet, as a call moves on.                     *)
LEMMA EarlyCounted ==
  ASSUME F!FeedExportAssumption, F!TypeOK, NEW c \in Call,
         \A d \in Call \ {c} : feedPc'[d] = feedPc[d]
  PROVE  /\ Cardinality(Early) \in Nat
         /\ c \in Early /\ feedPc'[c] \in {"store", "last", "create"} => Early' = Early
         /\ c \notin Early /\ feedPc'[c] \notin {"store", "last", "create"} => Early' = Early
         /\ c \in Early /\ feedPc'[c] \notin {"store", "last", "create"} =>
              Cardinality(Early') = Cardinality(Early) - 1
         /\ c \notin Early /\ feedPc'[c] \in {"store", "last", "create"} =>
              Cardinality(Early') = Cardinality(Early) + 1
<1>1. IsFiniteSet(Early) /\ Cardinality(Early) \in Nat
  <2>1. Early \subseteq Call /\ IsFiniteSet(Call)
    BY DueWorkAssumption DEF Early
  <2> QED
    BY <2>1, FS_Subset, FS_CardinalityType
<1>2. feedPc'[c] \in {"store", "last", "create"} => Early' = Early \cup {c}
  BY DEF Early
<1>3. feedPc'[c] \notin {"store", "last", "create"} => Early' = Early \ {c}
  BY DEF Early
<1>4. c \in Early => Early \cup {c} = Early
  OBVIOUS
<1>5. c \notin Early => Early \ {c} = Early
  OBVIOUS
<1>6. Cardinality(Early \cup {c}) = IF c \in Early THEN Cardinality(Early) ELSE Cardinality(Early) + 1
  BY <1>1, FS_AddElement
<1>7. Cardinality(Early \ {c}) = IF c \in Early THEN Cardinality(Early) - 1 ELSE Cardinality(Early)
  BY <1>1, FS_RemoveElement
<1> QED
  BY <1>1, <1>2, <1>3, <1>4, <1>5, <1>6, <1>7

LEMMA FeedStarts == F!FeedExportAssumption /\ F!Init => FeedInv
<1> SUFFICES ASSUME F!FeedExportAssumption, F!Init PROVE FeedInv
  OBVIOUS
<1>1. 0 \in F!Texts /\ 0 \in 0..MaxExports /\ F!Nothing \in F!Files /\ \A a \in Ad : F!Nothing[a] = F!None
  BY TextsTyped DEF F!FeedExportAssumption, F!Files, F!Nothing
<1>2. F!TypeOK
  BY <1>1 DEF F!Init, F!TypeOK
<1>3. Carried /\ Recorded /\ F!ExportedIsInFile /\ NoGap
  BY DEF F!Init, Carried, Recorded, F!ExportedIsInFile, NoGap
<1>4. AskedBefore
  BY <1>1 DEF F!Init, AskedBefore, F!None
<1>5. Room
  <2>1. Early = {}
    BY DEF F!Init, Early
  <2>2. Cardinality(Early) = 0
    BY <2>1, FS_EmptySet
  <2> QED
    BY <2>2 DEF F!Init, Room
<1>6. OwnVersions
  BY FS_EmptySet DEF F!Init, OwnVersions
<1> QED
  BY <1>2, <1>3, <1>4, <1>5, <1>6 DEF FeedInv

-----------------------------------------------------------------------------
(* Operators: the exports under way are left alone.                        *)
LEMMA EditKeeps ==
  ASSUME F!FeedExportAssumption, FeedInv, NEW a \in Ad, F!Edit(a)
  PROVE  FeedInv'
<1>1. /\ \A x \in Ad : x # a => enrichment'[x] = enrichment[x]
      /\ enrichment'[a] = [enrichment[a] EXCEPT !.text = @ + 1]
      /\ enrichment[a] \in [text : F!Texts, feedStatus : {"pending", "ready", "exported"}]
  BY DEF F!Edit, FeedInv, F!TypeOK
<1>2. enrichment[a].text \in Nat /\ enrichment[a].text + 1 \in F!Texts
  BY <1>1, TextsTyped DEF F!Edit, F!Texts, F!FeedExportAssumption
<1>3. /\ enrichment'[a] \in [text : F!Texts, feedStatus : {"pending", "ready", "exported"}]
      /\ enrichment'[a].text = enrichment[a].text + 1
      /\ enrichment'[a].feedStatus = enrichment[a].feedStatus
  BY <1>1, <1>2
<1>4. /\ exports' = exports /\ feedPc' = feedPc /\ file' = file /\ version' = version /\ feedTodo' = feedTodo
      /\ asked' = asked /\ crossed' = crossed /\ begun' = begun
  BY DEF F!Edit, F!export
<1>5. F!TypeOK'
  <2>1. enrichment' \in [Ad -> [text : F!Texts, feedStatus : {"pending", "ready", "exported"}]]
    BY <1>3 DEF F!Edit, FeedInv, F!TypeOK
  <2> QED
    BY <2>1, <1>4 DEF FeedInv, F!TypeOK
<1>6. Carried' /\ Recorded' /\ OwnVersions' /\ NoGap' /\ Room'
  BY <1>4 DEF FeedInv, Carried, Recorded, OwnVersions, NoGap, Room, Early
<1>7. AskedBefore'
  <2>1. \A x \in Ad : asked[x] \in Int
    BY TextsTyped DEF FeedInv, F!TypeOK, F!Files, F!None
  <2> QED
    BY <2>1, <1>1, <1>2, <1>3, <1>4 DEF FeedInv, AskedBefore
<1>8. F!ExportedIsInFile'
  BY <1>1, <1>3, <1>4 DEF FeedInv, F!ExportedIsInFile, F!InFile
<1> QED
  BY <1>5, <1>6, <1>7, <1>8 DEF FeedInv

LEMMA PrepareKeeps ==
  ASSUME F!FeedExportAssumption, FeedInv, NEW a \in Ad, F!Prepare(a)
  PROVE  FeedInv'
<1>1. /\ \A x \in Ad : x # a => /\ enrichment'[x] = enrichment[x] /\ asked'[x] = asked[x]
                               /\ crossed'[x] = crossed[x]
      /\ enrichment'[a] = [enrichment[a] EXCEPT !.feedStatus = "ready"]
      /\ enrichment[a] \in [text : F!Texts, feedStatus : {"pending", "ready", "exported"}]
      /\ asked'[a] = enrichment[a].text
      /\ crossed'[a] = \E c \in Call : F!Carries(c, a)
  BY DEF F!Prepare, FeedInv, F!TypeOK, F!Files
<1>2. /\ enrichment'[a] \in [text : F!Texts, feedStatus : {"pending", "ready", "exported"}]
      /\ enrichment'[a].text = enrichment[a].text
      /\ enrichment'[a].feedStatus = "ready"
  BY <1>1
<1>3. /\ exports' = exports /\ feedPc' = feedPc /\ file' = file /\ version' = version /\ feedTodo' = feedTodo
      /\ begun' = begun
  BY DEF F!Prepare, F!export
<1>4. F!TypeOK'
  <2>1. enrichment' \in [Ad -> [text : F!Texts, feedStatus : {"pending", "ready", "exported"}]]
    BY <1>2 DEF F!Prepare, FeedInv, F!TypeOK
  <2>2. asked' \in F!Files
    BY <1>1 DEF F!Prepare, FeedInv, F!TypeOK, F!Files
  <2>3. crossed' \in [Ad -> BOOLEAN]
    <3>1. (\E c \in Call : F!Carries(c, a)) \in BOOLEAN
      OBVIOUS
    <3> QED
      BY <3>1 DEF F!Prepare, FeedInv, F!TypeOK
  <2> QED
    BY <2>1, <2>2, <2>3, <1>3 DEF FeedInv, F!TypeOK
<1>5. Carried'
  <2> SUFFICES ASSUME NEW c \in Call, NEW x \in feedTodo[c], ~crossed'[x], asked'[x] # F!None
               PROVE  asked'[x] <= file[c][x]
    BY <1>3 DEF FeedInv, Carried
  <2>1. x \in Ad
    BY DEF FeedInv, F!TypeOK
  <2>2. x # a
    BY <1>1 DEF F!Carries, FeedInv, Carried
  <2> QED
    BY <2>1, <2>2, <1>1 DEF FeedInv, Carried
<1>6. AskedBefore'
  <2>1. enrichment[a].text \in Int
    BY <1>1, TextsTyped
  <2> QED
    BY <2>1, <1>1, <1>2 DEF FeedInv, AskedBefore
<1>7. F!ExportedIsInFile'
  BY <1>1, <1>2, <1>3 DEF FeedInv, F!ExportedIsInFile, F!InFile
<1>8. Recorded' /\ OwnVersions' /\ NoGap' /\ Room'
  BY <1>3 DEF FeedInv, Recorded, OwnVersions, NoGap, Room, Early
<1> QED
  BY <1>4, <1>5, <1>6, <1>7, <1>8 DEF FeedInv

-----------------------------------------------------------------------------
(* Exports.                                                                *)
LEMMA ReadKeeps ==
  ASSUME F!FeedExportAssumption, FeedInv, NEW c \in Call, NEW ads \in SUBSET Ad, F!Read(c, ads)
  PROVE  FeedInv'
<1>1. /\ \A d \in Call : d # c => feedPc'[d] = feedPc[d] /\ file'[d] = file[d] /\ feedTodo'[d] = feedTodo[d]
      /\ feedPc[c] = "idle" /\ feedPc'[c] = "store" /\ feedTodo'[c] = ads
      /\ \A a \in ads : file'[c][a] = enrichment[a].text
  BY DEF F!Read, F!Goto, FeedInv, F!TypeOK
<1>2. /\ enrichment' = enrichment /\ exports' = exports /\ version' = version
      /\ asked' = asked /\ crossed' = crossed
  BY DEF F!Read
<1>3. begun \in Nat /\ begun' = begun + 1 /\ begun' \in 0..MaxExports
  BY DEF F!Read, FeedInv, F!TypeOK, F!FeedExportAssumption
<1>4. F!TypeOK'
  <2>1. feedPc' \in [Call -> {"idle", "store", "last", "create", "mark"}]
    BY DEF F!Read, F!Goto, FeedInv, F!TypeOK
  <2>2. [a \in Ad |-> IF a \in ads THEN enrichment[a].text ELSE F!None] \in F!Files
    BY DEF FeedInv, F!TypeOK, F!Files
  <2>3. file' \in [Call -> F!Files]
    BY <2>2 DEF F!Read, FeedInv, F!TypeOK
  <2>4. feedTodo' \in [Call -> SUBSET Ad]
    BY DEF F!Read, FeedInv, F!TypeOK
  <2> QED
    BY <2>1, <2>3, <2>4, <1>2, <1>3 DEF FeedInv, F!TypeOK
<1>5. Carried'
  <2>1. \A d \in Call : feedPc'[d] = "idle" => feedTodo'[d] = {}
    BY <1>1 DEF FeedInv, Carried
  <2>2. \A a \in ads : enrichment[a].text # F!None
    BY TextsTyped DEF FeedInv, F!TypeOK
  <2>3. \A d \in Call : \A a \in feedTodo'[d] : file'[d][a] # F!None
    BY <1>1, <2>2 DEF FeedInv, Carried
  <2>4. \A d \in Call : \A a \in feedTodo'[d] :
          ~crossed[a] /\ asked[a] # F!None => asked[a] <= file'[d][a]
    BY <1>1 DEF FeedInv, Carried, AskedBefore
  <2> QED
    BY <2>1, <2>3, <2>4, <1>2 DEF Carried
<1>6. Recorded'
  BY <1>1, <1>2 DEF FeedInv, Recorded
<1>7. Room'
  <2>1. c \notin Early /\ F!TypeOK
    BY <1>1 DEF Early, FeedInv
  <2>2. Cardinality(Early) \in Nat /\ Cardinality(Early') = Cardinality(Early) + 1
    BY <1>1, <2>1, EarlyCounted
  <2>3. \A e \in exports : e.version \in Int
    BY DEF FeedInv, F!TypeOK
  <2> QED
    BY <2>2, <2>3, <1>2, <1>3 DEF FeedInv, Room
<1>8. OwnVersions'
  <2>1. \A d \in Call : feedPc'[d] = "create" => feedPc[d] = "create"
    BY <1>1
  <2> QED
    BY <2>1, <1>2 DEF FeedInv, OwnVersions
<1>9. AskedBefore' /\ F!ExportedIsInFile' /\ NoGap'
  BY <1>2 DEF FeedInv, AskedBefore, F!ExportedIsInFile, F!InFile, NoGap
<1> QED
  BY <1>4, <1>5, <1>6, <1>7, <1>8, <1>9 DEF FeedInv

(* Steps that move a call on and leave what it carries.                    *)
LEMMA StoreKeeps ==
  ASSUME F!FeedExportAssumption, FeedInv, NEW c \in Call, F!Store(c) \/ F!FindLast(c)
  PROVE  FeedInv'
<1>1. /\ \A d \in Call : d # c => feedPc'[d] = feedPc[d] /\ version'[d] = version[d]
      /\ feedPc[c] \in {"store", "last"} /\ feedPc'[c] \in {"last", "create"}
      /\ feedPc' \in [Call -> {"idle", "store", "last", "create", "mark"}]
  BY DEF F!Store, F!FindLast, F!Goto, FeedInv, F!TypeOK
<1>2. UNCHANGED <<enrichment, exports, file, feedTodo, asked, crossed, begun>>
  BY DEF F!Store, F!FindLast
<1>3. /\ F!NewestVersion \in 0..MaxExports
      /\ F!NewestVersion = 0 \/ \E e \in exports : e.version = F!NewestVersion
      /\ \A e \in exports : e.version <= F!NewestVersion
  BY Newest DEF FeedInv
<1>4. (version'[c] = version[c] /\ feedPc'[c] = "last") \/ version'[c] = F!NewestVersion
  BY DEF F!Store, F!FindLast, F!Goto, FeedInv, F!TypeOK
<1>5. F!TypeOK'
  <2>1. version' \in [Call -> 0..MaxExports]
    BY <1>3 DEF F!Store, F!FindLast, FeedInv, F!TypeOK
  <2> QED
    BY <2>1, <1>1, <1>2 DEF FeedInv, F!TypeOK
<1>6. Carried' /\ Recorded'
  BY <1>1, <1>2 DEF FeedInv, Carried, Recorded
<1>7. AskedBefore' /\ F!ExportedIsInFile' /\ NoGap'
  BY <1>2 DEF FeedInv, AskedBefore, F!ExportedIsInFile, F!InFile, NoGap
<1>8. Room'
  <2>1. Early' = Early
    BY <1>1 DEF Early
  <2>2. \A d \in Call : version'[d] = 0 \/ \E e \in exports : e.version = version'[d]
    BY <1>1, <1>3, <1>4 DEF FeedInv, Room
  <2> QED
    BY <2>1, <2>2, <1>2 DEF FeedInv, Room
<1>9. OwnVersions'
  <2>1. \A d \in Call : feedPc'[d] = "create" => \A e \in exports : e.by = d => e.version <= version'[d]
    BY <1>1, <1>3, <1>4 DEF FeedInv, OwnVersions
  <2> QED
    BY <2>1, <1>2 DEF FeedInv, OwnVersions
<1> QED
  BY <1>5, <1>6, <1>7, <1>8, <1>9 DEF FeedInv

LEMMA CreateRowKeeps ==
  ASSUME F!FeedExportAssumption, FeedInv, NEW c \in Call, F!CreateRow(c)
  PROVE  FeedInv'
<1> DEFINE new == [by |-> c, version |-> version[c] + 1, file |-> file[c]]
<1>1. /\ \A d \in Call : d # c => feedPc'[d] = feedPc[d]
      /\ feedPc[c] = "create" /\ feedPc'[c] = "mark" /\ exports' = exports \cup {new}
      /\ feedPc' \in [Call -> {"idle", "store", "last", "create", "mark"}]
  BY DEF F!CreateRow, F!Goto, FeedInv, F!TypeOK
<1>2. UNCHANGED <<enrichment, file, version, feedTodo, asked, crossed, begun>>
  BY DEF F!CreateRow
<1>3. new.by = c /\ new.version = version[c] + 1 /\ new.file = file[c]
  OBVIOUS
<1>4. version[c] \in Nat /\ begun \in 0..MaxExports /\ MaxExports \in Nat
      /\ \A e \in exports : e.version \in Nat
  BY DEF FeedInv, F!TypeOK, F!FeedExportAssumption
<1>5. /\ Cardinality(Early) \in Nat /\ Cardinality(Early') = Cardinality(Early) - 1
  <2>1. c \in Early /\ F!TypeOK
    BY <1>1 DEF Early, FeedInv
  <2> QED
    BY <1>1, <2>1, EarlyCounted
<1>6. version[c] + Cardinality(Early) <= begun
  <2>1. CASE version[c] = 0
    BY <2>1, <1>5 DEF FeedInv, Room
  <2>2. CASE \E e \in exports : e.version = version[c]
    BY <2>2 DEF FeedInv, Room
  <2> QED
    BY <2>1, <2>2 DEF FeedInv, Room
<1>7. Cardinality(Early) >= 1
  <2>1. IsFiniteSet(Early') /\ Cardinality(Early') \in Nat
    <3>1. Early' \subseteq Call /\ IsFiniteSet(Call)
      BY DueWorkAssumption DEF Early
    <3> QED
      BY <3>1, FS_Subset, FS_CardinalityType
  <2> QED
    BY <2>1, <1>5
<1> HIDE DEF new
<1>8. F!TypeOK'
  <2>1. version[c] + 1 \in 1..MaxExports
    BY <1>4, <1>5, <1>6, <1>7
  <2>2. new \in [by : Call, version : 1..MaxExports, file : F!Files]
    BY <2>1 DEF new, FeedInv, F!TypeOK
  <2> QED
    BY <2>2, <1>1, <1>2 DEF FeedInv, F!TypeOK
<1>9. Carried' /\ AskedBefore'
  BY <1>1, <1>2 DEF FeedInv, Carried, AskedBefore
<1>10. Recorded'
  BY <1>1, <1>2, <1>3 DEF FeedInv, Recorded
<1>11. F!ExportedIsInFile'
  BY <1>1, <1>2 DEF FeedInv, F!ExportedIsInFile, F!InFile
<1>12. Room'
  <2>1. Cardinality(Early') <= begun
    BY <1>4, <1>5 DEF FeedInv, Room
  <2>2. \A e \in exports' : e.version + Cardinality(Early') <= begun
    BY <1>1, <1>3, <1>4, <1>5, <1>6 DEF FeedInv, Room
  <2>3. \A d \in Call : version[d] = 0 \/ \E e \in exports' : e.version = version[d]
    BY <1>1 DEF FeedInv, Room
  <2> QED
    BY <2>1, <2>2, <2>3, <1>2 DEF Room
<1>13. OwnVersions'
  <2>1. IsFiniteSet(exports')
    BY <1>1, FS_AddElement DEF FeedInv, OwnVersions
  <2>2. \A d \in Call : feedPc'[d] = "create" => \A e \in exports' : e.by = d => e.version <= version[d]
    BY <1>1, <1>3 DEF FeedInv, OwnVersions
  <2>3. \A e \in exports : e.by = c => e.version # version[c] + 1
    <3>1. \A e \in exports : e.by = c => e.version <= version[c]
      BY <1>1 DEF FeedInv, OwnVersions
    <3> QED
      BY <3>1, <1>4
  <2>4. \A e, f \in exports' : e.by = f.by /\ e.version = f.version => e = f
    BY <2>3, <1>1, <1>3 DEF FeedInv, OwnVersions
  <2> QED
    BY <2>1, <2>2, <2>4, <1>2 DEF OwnVersions
<1>14. NoGap'
  <2>1. new.version > 1 => \E f \in exports : f.version = new.version - 1
    <3>1. new.version > 1 => version[c] # 0 /\ new.version - 1 = version[c]
      BY <1>3, <1>4
    <3> QED
      BY <3>1 DEF FeedInv, Room
  <2> QED
    BY <2>1, <1>1 DEF FeedInv, NoGap
<1> QED
  BY <1>8, <1>9, <1>10, <1>11, <1>12, <1>13, <1>14 DEF FeedInv

(* A call is over, or has marked an ad and goes on.                        *)
LEMMA ExportDrops ==
  ASSUME F!FeedExportAssumption, FeedInv, NEW c \in Call, feedPc[c] # "idle",
         UNCHANGED <<exports, asked, crossed, begun>>,
         \A x \in Ad : enrichment'[x].text = enrichment[x].text,
         enrichment' \in [Ad -> [text : F!Texts, feedStatus : {"pending", "ready", "exported"}]],
         F!ExportedIsInFile',
         \/ F!Leave(c)
         \/ \E a \in Ad : feedTodo[c] # {a} /\ feedTodo' = [feedTodo EXCEPT ![c] = @ \ {a}]
              /\ UNCHANGED <<feedPc, file, version>>
  PROVE  FeedInv'
<1>1. /\ \A d \in Call : d # c => /\ feedPc'[d] = feedPc[d] /\ file'[d] = file[d]
                                  /\ version'[d] = version[d] /\ feedTodo'[d] = feedTodo[d]
      /\ feedPc'[c] \in {"idle", feedPc[c]} /\ version'[c] \in {0, version[c]}
      /\ feedTodo'[c] \subseteq feedTodo[c]
      /\ feedPc'[c] = "idle" => feedTodo'[c] = {}
      /\ feedTodo'[c] # {} => file'[c] = file[c]
      /\ feedPc'[c] # "idle" => file'[c] = file[c] /\ version'[c] = version[c]
  <2>1. CASE F!Leave(c)
    BY <2>1 DEF F!Leave, F!Goto, FeedInv, F!TypeOK
  <2>2. CASE \E a \in Ad : feedTodo[c] # {a} /\ feedTodo' = [feedTodo EXCEPT ![c] = @ \ {a}]
              /\ UNCHANGED <<feedPc, file, version>>
    BY <2>2 DEF FeedInv, F!TypeOK
  <2> QED
    BY <2>1, <2>2
<1>2. F!TypeOK'
  <2>1. F!Nothing \in F!Files /\ 0 \in 0..MaxExports
    BY DEF F!Nothing, F!Files, F!FeedExportAssumption
  <2>2. /\ feedPc' \in [Call -> {"idle", "store", "last", "create", "mark"}]
        /\ file' \in [Call -> F!Files] /\ version' \in [Call -> 0..MaxExports]
        /\ feedTodo' \in [Call -> SUBSET Ad]
    <3>1. CASE F!Leave(c)
      BY <2>1, <3>1 DEF F!Leave, F!Goto, FeedInv, F!TypeOK
    <3>2. CASE \E a \in Ad : feedTodo[c] # {a} /\ feedTodo' = [feedTodo EXCEPT ![c] = @ \ {a}]
                /\ UNCHANGED <<feedPc, file, version>>
      <4>1. feedPc' = feedPc /\ file' = file /\ version' = version
        BY <3>2
      <4>2. PICK a \in Ad : feedTodo' = [feedTodo EXCEPT ![c] = @ \ {a}]
        BY <3>2
      <4>3. feedTodo' \in [Call -> SUBSET Ad]
        BY <4>2 DEF FeedInv, F!TypeOK
      <4> QED
        BY <4>1, <4>3 DEF FeedInv, F!TypeOK
    <3> QED
      BY <3>1, <3>2
  <2> QED
    BY <2>2 DEF FeedInv, F!TypeOK
<1>3. Carried'
  BY <1>1 DEF FeedInv, Carried
<1>4. AskedBefore' /\ NoGap'
  BY DEF FeedInv, AskedBefore, NoGap
<1>5. Recorded'
  BY <1>1 DEF FeedInv, Recorded
<1>6. Room'
  <2>1. F!TypeOK
    BY DEF FeedInv
  <2>2. Cardinality(Early) \in Nat /\ (Early' = Early \/ Cardinality(Early') = Cardinality(Early) - 1)
    <3>1. c \notin Early => feedPc'[c] \notin {"store", "last", "create"}
      BY <1>1 DEF Early
    <3> QED
      BY <1>1, <2>1, <3>1, EarlyCounted
  <2>3. begun \in Int /\ \A e \in exports : e.version \in Int
    BY <2>1 DEF F!TypeOK
  <2>4. Cardinality(Early') \in Int /\ Cardinality(Early') <= Cardinality(Early)
    BY <2>2
  <2>5. \A d \in Call : version'[d] = 0 \/ \E e \in exports : e.version = version'[d]
    BY <1>1 DEF FeedInv, Room
  <2> QED
    BY <2>2, <2>3, <2>4, <2>5 DEF FeedInv, Room
<1>7. OwnVersions'
  BY <1>1 DEF FeedInv, OwnVersions
<1> QED
  BY <1>2, <1>3, <1>4, <1>5, <1>6, <1>7 DEF FeedInv

(* What a call marks is in the file it has recorded.                       *)
LEMMA MarkKeeps ==
  ASSUME F!FeedExportAssumption, FeedInv, NEW c \in Call, NEW a \in Ad, F!Mark(c, a)
  PROVE  FeedInv'
<1>1. /\ \A x \in Ad : x # a => enrichment'[x] = enrichment[x]
      /\ enrichment'[a] = [enrichment[a] EXCEPT !.feedStatus = "exported"]
      /\ enrichment[a] \in [text : F!Texts, feedStatus : {"pending", "ready", "exported"}]
      /\ enrichment' = [enrichment EXCEPT ![a].feedStatus = "exported"]
  BY DEF F!Mark, FeedInv, F!TypeOK
<1>2. /\ enrichment'[a] \in [text : F!Texts, feedStatus : {"pending", "ready", "exported"}]
      /\ enrichment'[a].text = enrichment[a].text
  BY <1>1
<1>3. enrichment' \in [Ad -> [text : F!Texts, feedStatus : {"pending", "ready", "exported"}]]
  BY <1>1, <1>2 DEF FeedInv, F!TypeOK
<1>4. UNCHANGED <<exports, asked, crossed, begun>> /\ feedPc[c] = "mark" /\ a \in feedTodo[c]
  BY DEF F!Mark
<1>5. F!InFile(a, IF crossed[a] \/ asked[a] = F!None THEN 0 ELSE asked[a])
  <2>1. PICK e \in exports : e.file = file[c]
    BY <1>4 DEF FeedInv, Recorded
  <2>2. file[c][a] # F!None /\ (~crossed[a] /\ asked[a] # F!None => asked[a] <= file[c][a])
    BY <1>4 DEF FeedInv, Carried
  <2>3. file[c][a] \in F!Texts
    BY <2>2 DEF FeedInv, F!TypeOK, F!Files
  <2>4. 0 <= file[c][a]
    BY <2>3, TextsTyped
  <2> QED
    BY <2>1, <2>2, <2>4 DEF F!InFile
<1>6. F!ExportedIsInFile'
  BY <1>1, <1>4, <1>5 DEF FeedInv, F!ExportedIsInFile, F!InFile
<1>7. \/ F!Leave(c)
      \/ feedTodo[c] # {a} /\ feedTodo' = [feedTodo EXCEPT ![c] = @ \ {a}] /\ UNCHANGED <<feedPc, file, version>>
  BY DEF F!Mark
<1> QED
  BY <1>1, <1>2, <1>3, <1>4, <1>6, <1>7, ExportDrops

LEMMA ThrowsKeeps ==
  ASSUME F!FeedExportAssumption, FeedInv, NEW c \in Call, F!Throws(c)
  PROVE  FeedInv'
<1>1. /\ feedPc[c] # "idle" /\ F!Leave(c) /\ UNCHANGED <<exports, asked, crossed, begun>>
      /\ enrichment' = enrichment
  BY DEF F!Throws
<1>2. F!ExportedIsInFile'
  BY <1>1 DEF FeedInv, F!ExportedIsInFile, F!InFile
<1>3. enrichment' \in [Ad -> [text : F!Texts, feedStatus : {"pending", "ready", "exported"}]]
  BY <1>1 DEF FeedInv, F!TypeOK
<1> QED
  BY <1>1, <1>2, <1>3, ExportDrops

-----------------------------------------------------------------------------
LEMMA FeedStep == F!FeedExportAssumption /\ FeedInv /\ [F!Next]_(F!vars) => FeedInv'
<1> SUFFICES ASSUME F!FeedExportAssumption, FeedInv, [F!Next]_(F!vars) PROVE FeedInv'
  OBVIOUS
<1>1. ASSUME NEW a \in Ad, F!Edit(a) \/ F!Prepare(a) PROVE FeedInv'
  BY <1>1, EditKeeps, PrepareKeeps
<1>2. ASSUME NEW c \in Call, NEW ads \in SUBSET Ad, F!Read(c, ads) PROVE FeedInv'
  BY <1>2, ReadKeeps
<1>3. ASSUME NEW c \in Call, F!Store(c) \/ F!FindLast(c) \/ F!CreateRow(c) \/ F!Throws(c) PROVE FeedInv'
  BY <1>3, StoreKeeps, CreateRowKeeps, ThrowsKeeps
<1>4. ASSUME NEW c \in Call, NEW a \in Ad, F!Mark(c, a) PROVE FeedInv'
  BY <1>4, MarkKeeps
<1>5. CASE UNCHANGED F!vars
  BY <1>5 DEF F!vars, F!export, FeedInv, F!TypeOK, Carried, AskedBefore, Recorded, F!ExportedIsInFile, F!InFile,
              Room, Early, OwnVersions, NoGap
<1>6. CASE F!Next
  <2>1. \/ \E a \in Ad : F!Edit(a) \/ F!Prepare(a)
        \/ \E c \in Call : \/ \E ads \in SUBSET Ad : F!Read(c, ads)
                           \/ F!Store(c) \/ F!FindLast(c) \/ F!CreateRow(c) \/ F!Throws(c)
                           \/ \E a \in Ad : F!Mark(c, a)
    BY <1>6 DEF F!Next
  <2> QED
    BY <2>1, <1>1, <1>2, <1>3, <1>4
<1> QED
  BY <1>5, <1>6

(* The instance's own copy of Cardinality.                                 *)
LEMMA SameCardinality == \A S : F!Cardinality(S) = Cardinality(S)
BY DEF F!Cardinality, Cardinality

(* Rows of one version are of different calls.                             *)
LEMMA VersionsShared ==
  ASSUME F!FeedExportAssumption, FeedInv
  PROVE  F!VersionsBounded
<1> DEFINE of(v) == {e \in exports : e.version = v}
<1>1. \A e \in exports : e.version > 1 => of(e.version - 1) # {}
  BY DEF FeedInv, NoGap
<1>2. ASSUME NEW e \in exports PROVE Cardinality(of(e.version)) <= Cardinality(Call)
  <2> DEFINE S == of(e.version)
             caller == [r \in S |-> r.by]
  <2>1. IsFiniteSet(S)
    BY FS_Subset DEF FeedInv, OwnVersions
  <2>2. Cardinality(S) \in Nat /\ Cardinality(Call) \in Nat /\ IsFiniteSet(Call)
    BY <2>1, FS_CardinalityType, DueWorkAssumption
  <2>3. caller \in [S -> Call]
    BY DEF FeedInv, F!TypeOK
  <2>4. \A x, y \in S : caller[x] = caller[y] => x = y
    BY DEF FeedInv, OwnVersions
  <2>5. ~(Cardinality(Call) < Cardinality(S))
    <3> HIDE DEF S, caller
    <3> QED
      BY <2>1, <2>2, <2>3, <2>4, FS_PigeonHole
  <2> QED
    BY <2>2, <2>5
<1> HIDE DEF of
<1>3. \A e \in exports : F!Cardinality(of(e.version)) <= F!Cardinality(Call)
  BY <1>2, SameCardinality
<1> QED
  BY <1>1, <1>3 DEF F!VersionsBounded, of

-----------------------------------------------------------------------------
(* The desk: a step of one of the three leaves the others alone.           *)
DeskInv == DueInv /\ PipelineInv /\ FeedInv

LEMMA DeskSteps ==
  ASSUME [DeskNext]_deskVars
  PROVE  /\ [Next]_vars
         /\ [P!Next]_(P!vars)
         /\ [F!Next]_(F!vars)
<1>1. UNCHANGED pipeline => UNCHANGED P!vars
  BY DEF pipeline, P!vars, P!calls
<1>2. UNCHANGED feed => UNCHANGED F!vars
  BY DEF feed, F!vars, F!export
<1>3. CASE UNCHANGED deskVars
  BY <1>1, <1>2, <1>3 DEF deskVars
<1>4. CASE Due_Next
  BY <1>1, <1>2, <1>4 DEF Due_Next
<1>5. CASE Pipeline_Next
  BY <1>2, <1>5 DEF Pipeline_Next
<1>6. CASE Feed_Next
  BY <1>1, <1>6 DEF Feed_Next
<1> QED
  BY <1>3, <1>4, <1>5, <1>6 DEF DeskNext

THEOREM Invariance == DeskSpec => []DeskInv
<1>1. DeskInit => DeskInv
  <2> SUFFICES ASSUME DeskInit
               PROVE  DeskInv
    OBVIOUS
  <2>1. DueInv
    BY DueStarts DEF DeskInit
  <2>2. PipelineInv
    BY PipelineStarts, DeskAssumption DEF DeskInit
  <2>3. FeedInv
    BY FeedStarts, DeskAssumption DEF DeskInit
  <2> QED
    BY <2>1, <2>2, <2>3 DEF DeskInv
<1>2. DeskInv /\ [DeskNext]_deskVars => DeskInv'
  <2> SUFFICES ASSUME DeskInv, [DeskNext]_deskVars
               PROVE  DeskInv'
    OBVIOUS
  <2>1. DueInv'
    BY DeskSteps, DueStep DEF DeskInv
  <2>2. PipelineInv'
    BY DeskSteps, PipelineStep, DeskAssumption DEF DeskInv
  <2>3. FeedInv'
    BY DeskSteps, FeedStep, DeskAssumption DEF DeskInv
  <2> QED
    BY <2>1, <2>2, <2>3 DEF DeskInv
<1> QED
  BY <1>1, <1>2, PTL DEF DeskSpec

(* AvitoFollowUpEngineService.tick, evaluateAll, generateForTenant: what   *)
(* was done twice is paid for by calls that ran at once or by faults, for  *)
(* any number of follow-ups, rules, calls and faults.                      *)
THEOREM WorkIsAccounted == DeskSpec => []WorkAccounted
<1>1. DeskInv => WorkAccounted
  BY DueAccounts DEF DeskInv
<1> QED
  BY Invariance, <1>1, PTL

(* moveLead, changeStage: a move that ran alone and was answered without   *)
(* an error has brought card and deal together, and the deal's stream      *)
(* holds changes only, whatever overlapped or failed before.               *)
THEOREM MovesSettle == DeskSpec => []LeadAndDeal
<1>1. DeskInv => LeadAndDeal
  BY DEF DeskInv, PipelineInv, LeadAndDeal, P!LeadAndDeal
<1> QED
  BY Invariance, <1>1, PTL

(* exportFeed: a mark is backed by a file that is recorded and as new as   *)
(* what was asked for, versions leave no gap, and no more rows share one   *)
(* than calls run at once, whatever overlaps or fails.                     *)
THEOREM MarksAreBacked == DeskSpec => []FeedAccounted
<1>1. DeskInv => FeedAccounted
  BY VersionsShared, DeskAssumption DEF DeskInv, FeedInv, FeedAccounted, F!FeedAccounted
<1> QED
  BY Invariance, <1>1, PTL
=============================================================================
