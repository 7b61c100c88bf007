-------------------------- MODULE EventBusProofs ---------------------------
(***************************************************************************)
(* A consumer group handles an entry at most once and forgets none it was  *)
(* handed, for every set of groups and instances, every batch size and     *)
(* stream length, and any number of failures, crashes and trims.  The      *)
(* engine that is one group's handler tries each workflow for each fact,   *)
(* and what it writes is there once and whole, for every set of facts and  *)
(* every batch size.                                                       *)
(***************************************************************************)
EXTENDS MCBus, SequenceTheorems, WellFoundedInduction, TLAPS

(* A batch is a run of consecutive entries, First to Final; those from     *)
(* Left on have not been through the handler.                              *)
First(g, i) == batch[g][i][1]
Final(g, i) == batch[g][i][1] + Len(batch[g][i]) - 1
Left(g, i)  == IF loop[g][i] = "acking" THEN First(g, i) + 1 ELSE First(g, i)

Consecutive ==
  \A g \in Group, i \in Instance : \A k \in 1..Len(batch[g][i]) :
    batch[g][i][k] = First(g, i) + k - 1

(* A batch was delivered, and instances never hold the same entry.         *)
Given ==
  \A g \in Group, i \in Instance : batch[g][i] # <<>> => Final(g, i) <= delivered[g]

Apart ==
  \A g \in Group, i, j \in Instance :
    i # j /\ batch[g][i] # <<>> /\ batch[g][j] # <<>> =>
      Final(g, i) < First(g, j) \/ Final(g, j) < First(g, i)

(* What was handled was delivered, and is not left in a batch.             *)
Fresh ==
  \A g \in Group : \A k \in 1..Len(handled[g]) :
    /\ handled[g][k] <= delivered[g]
    /\ \A i \in Instance :
         batch[g][i] # <<>> => handled[g][k] < Left(g, i) \/ Final(g, i) < handled[g][k]

(* What is acknowledged was handled.                                       *)
Handed ==
  \A g \in Group, i \in Instance :
    loop[g][i] = "acking" => First(g, i) \in Received(g)

(* A group that does not exist has seen nothing.                           *)
Unborn ==
  \A g \in Group : created[g] = -1 =>
    handled[g] = <<>> /\ \A i \in Instance : batch[g][i] = <<>> /\ loop[g][i] = "down"

IInv ==
  /\ TypeOK /\ Consecutive /\ Given /\ Apart /\ Fresh /\ Handed /\ Unborn
  /\ HandedOutOnce

-----------------------------------------------------------------------------
(* What is used of sequences. *)
LEMMA Elements ==
  ASSUME NEW S, NEW s \in Seq(S)
  PROVE  /\ Len(s) \in Nat
         /\ s # <<>> <=> Len(s) >= 1
         /\ \A k \in 1..Len(s) : s[k] \in S
<1>1. Len(s) \in Nat
  BY LenProperties
<1>2. s # <<>> => Len(s) >= 1
  BY EmptySeq
<1>3. s = <<>> => Len(s) = 0
  BY EmptySeq
<1>4. \A k \in 1..Len(s) : s[k] \in S
  BY ElementOfSeq
<1> QED
  BY <1>1, <1>2, <1>3, <1>4

LEMMA Rest ==
  ASSUME NEW S, NEW s \in Seq(S), s # <<>>
  PROVE  /\ Head(s) = s[1]
         /\ Tail(s) \in Seq(S)
         /\ Len(Tail(s)) = Len(s) - 1
         /\ \A k \in 1..Len(Tail(s)) : Tail(s)[k] = s[k + 1]
         /\ Tail(s) = <<>> <=> Len(s) = 1
<1>1. Head(s) = s[1]
  OBVIOUS
<1>2. /\ Tail(s) \in Seq(S)
      /\ Len(Tail(s)) = Len(s) - 1
      /\ \A k \in 1..Len(Tail(s)) : Tail(s)[k] = s[k + 1]
  BY HeadTailProperties
<1>3. Len(s) \in Nat /\ Len(s) >= 1
  BY Elements
<1>4. Tail(s) = <<>> <=> Len(s) = 1
  <2> DEFINE t == Tail(s)
  <2>1. t \in Seq(S) /\ Len(t) = Len(s) - 1
    BY <1>2
  <2> HIDE DEF t
  <2>2. t # <<>> <=> Len(t) >= 1
    BY <2>1, Elements
  <2>3. t = <<>> <=> Len(s) = 1
    BY <2>1, <2>2, <1>3
  <2> QED
    BY <2>3 DEF t
<1> QED
  BY <1>1, <1>2, <1>4

(* What a batch is made of. *)
LEMMA Batches ==
  ASSUME TypeOK, NEW g \in Group, NEW i \in Instance
  PROVE  /\ Len(batch[g][i]) \in Nat
         /\ batch[g][i] # <<>> <=> Len(batch[g][i]) >= 1
         /\ batch[g][i] # <<>> => /\ First(g, i) \in 1..added
                                 /\ Final(g, i) \in Nat
                                 /\ Left(g, i) \in Nat
                                 /\ First(g, i) <= Final(g, i)
<1>1. batch[g][i] \in Seq(1..added)
  BY DEF TypeOK
<1>2. /\ Len(batch[g][i]) \in Nat
      /\ batch[g][i] # <<>> <=> Len(batch[g][i]) >= 1
      /\ \A k \in 1..Len(batch[g][i]) : batch[g][i][k] \in 1..added
  BY <1>1, Elements
<1>3. batch[g][i] # <<>> => 1 \in 1..Len(batch[g][i])
  BY <1>2
<1>4. added \in Nat
  BY EventBusAssumption DEF TypeOK
<1> QED
  <2> DEFINE b == batch[g][i]
             n == Len(b)
  <2>1. First(g, i) = b[1] /\ Final(g, i) = b[1] + n - 1 /\ Left(g, i) \in {b[1], b[1] + 1}
    BY DEF First, Final, Left
  <2>2. n \in Nat /\ (b # <<>> <=> n >= 1)
    BY <1>2
  <2>3. b # <<>> => b[1] \in 1..added
    BY <1>2, <1>3
  <2> HIDE DEF b, n
  <2>4. b # <<>> => /\ First(g, i) \in 1..added
                   /\ Final(g, i) \in Nat
                   /\ Left(g, i) \in Nat
                   /\ First(g, i) <= Final(g, i)
    BY <2>1, <2>2, <2>3, <1>4
  <2> QED
    BY <2>2, <2>4 DEF b, n

-----------------------------------------------------------------------------
(* On to the next entry of a batch: the one at its head leaves the pending *)
(* list only when it was handled.                                          *)
LEMMA MovesOn ==
  ASSUME IInv, NEW g \in Group, NEW i \in Instance,
         loop[g][i] \in {"handling", "acking"},
         NextInBatch(g, i),
         UNCHANGED <<added, trimmed, created, delivered, handled>>,
         \/ pending' = pending
         \/ /\ loop[g][i] = "acking"
            /\ pending' = [pending EXCEPT ![g] = @ \ {Head(batch[g][i])}]
  PROVE  IInv'
<1> DEFINE b == batch[g][i]
<1>1. b \in Seq(1..added) /\ b # <<>>
  BY DEF IInv, TypeOK
<1>2. Tail(b) \in Seq(1..added) /\ Len(Tail(b)) = Len(b) - 1 /\ Head(b) = b[1]
  BY <1>1, Rest
<1>3. \A k \in 1..Len(Tail(b)) : Tail(b)[k] = b[k + 1]
  BY <1>1, Rest
<1>4. Len(b) \in Nat \ {0} /\ (Tail(b) = <<>> <=> Len(b) = 1)
  BY <1>1, Rest, Elements
<1>5. /\ batch'[g][i] = Tail(b)
      /\ \A h \in Group, j \in Instance : h # g \/ j # i => batch'[h][j] = batch[h][j]
  BY DEF IInv, TypeOK, NextInBatch
<1>6. /\ loop'[g][i] = IF Len(b) = 1 THEN "reading" ELSE "handling"
      /\ \A h \in Group, j \in Instance : h # g \/ j # i => loop'[h][j] = loop[h][j]
  BY DEF IInv, TypeOK, NextInBatch
<1>7. \A k \in 1..Len(b) : b[k] = b[1] + k - 1 /\ b[k] \in Nat
  BY <1>1 DEF IInv, TypeOK, Consecutive, First
<1>8. Len(b) # 1 => First(g, i)' = First(g, i) + 1 /\ Final(g, i)' = Final(g, i)
  <2> SUFFICES ASSUME Len(b) # 1
               PROVE  First(g, i)' = First(g, i) + 1 /\ Final(g, i)' = Final(g, i)
    OBVIOUS
  <2>1. 1 \in 1..Len(Tail(b)) /\ 2 \in 1..Len(b) /\ 1 \in 1..Len(b)
    BY <1>2, <1>4
  <2>2. Tail(b)[1] = b[2] /\ b[2] = b[1] + 1
    BY <2>1, <1>3, <1>7
  <2>3. First(g, i)' = Tail(b)[1] /\ Final(g, i)' = Tail(b)[1] + Len(Tail(b)) - 1
    BY <1>5 DEF First, Final
  <2>4. b[1] \in Nat /\ Len(b) \in Nat
    BY <2>1, <1>4, <1>7
  <2>5. First(g, i) = b[1] /\ Final(g, i) = b[1] + Len(b) - 1
    BY DEF First, Final
  <2> HIDE DEF b
  <2> QED
    BY <2>2, <2>3, <2>4, <2>5, <1>2
<1>9. \A h \in Group, j \in Instance : h # g \/ j # i =>
        First(h, j)' = First(h, j) /\ Final(h, j)' = Final(h, j) /\ Left(h, j)' = Left(h, j)
  BY <1>5, <1>6 DEF First, Final, Left
<1>10. Len(b) # 1 => Left(g, i)' = First(g, i) + 1
  BY <1>6, <1>8 DEF Left
<1>11. TypeOK'
  <2>1. batch' \in [Group -> [Instance -> Seq(1..added)]]
    BY <1>2 DEF IInv, TypeOK, NextInBatch
  <2>2. loop' \in [Group -> [Instance -> Loop]]
    BY DEF IInv, TypeOK, NextInBatch, Loop
  <2>3. pending' \in [Group -> SUBSET (1..added)]
    <3>1. pending \in [Group -> SUBSET (1..added)] /\ added' = added
      BY DEF IInv, TypeOK
    <3>2. pending' = pending \/ pending' = [pending EXCEPT ![g] = @ \ {Head(batch[g][i])}]
      OBVIOUS
    <3> QED
      BY <3>1, <3>2
  <2>4. \A h \in Group, j \in Instance :
          (loop'[h][j] \in {"handling", "acking"}) = (batch'[h][j] # <<>>)
    <3> SUFFICES ASSUME NEW h \in Group, NEW j \in Instance
                 PROVE  (loop'[h][j] \in {"handling", "acking"}) = (batch'[h][j] # <<>>)
      OBVIOUS
    <3>1. CASE h = g /\ j = i
      <4>1. loop'[g][i] \in {"handling", "acking"} <=> Len(b) # 1
        BY <1>6
      <4>2. batch'[g][i] # <<>> <=> Len(b) # 1
        BY <1>4, <1>5
      <4> QED
        BY <3>1, <4>1, <4>2
    <3>2. CASE h # g \/ j # i
      <4>1. (loop[h][j] \in {"handling", "acking"}) = (batch[h][j] # <<>>)
        BY DEF IInv, TypeOK
      <4> QED
        BY <3>2, <4>1, <1>5, <1>6
    <3> QED
      BY <3>1, <3>2
  <2> QED
    BY <2>1, <2>2, <2>3, <2>4 DEF IInv, TypeOK
<1>12. Consecutive'
  <2> SUFFICES ASSUME NEW h \in Group, NEW j \in Instance, NEW k \in 1..Len(batch'[h][j])
               PROVE  batch'[h][j][k] = First(h, j)' + k - 1
    BY DEF Consecutive
  <2>1. CASE h = g /\ j = i
    <3>1. k + 1 \in 1..Len(b) /\ Len(b) # 1
      <4>1. k \in 1..(Len(b) - 1)
        BY <2>1, <1>2, <1>5
      <4>2. \A n \in Nat : k \in 1..(n - 1) => k + 1 \in 1..n /\ n # 1
        OBVIOUS
      <4> QED
        BY <4>1, <4>2, <1>4
    <3>2. batch'[h][j][k] = b[1] + k
      BY <2>1, <3>1, <1>2, <1>3, <1>5, <1>7
    <3> QED
      <4>1. First(h, j)' = b[1] + 1
        BY <2>1, <3>1, <1>8 DEF First
      <4>2. b[1] \in Nat
        <5>1. 1 \in 1..Len(b)
          BY <1>4
        <5> QED
          BY <5>1, <1>7, Zenon
      <4>3. k \in Int
        OBVIOUS
      <4> QED
        BY <3>2, <4>1, <4>2, <4>3
  <2>2. CASE h # g \/ j # i
    BY <2>2, <1>5, <1>9 DEF IInv, Consecutive
  <2> QED
    BY <2>1, <2>2
<1>13. Given' /\ Apart'
  <2>1. \A h \in Group, j \in Instance : First(h, j)' # First(h, j) \/ Final(h, j)' # Final(h, j) => h = g /\ j = i
    BY <1>9
  <2>2. batch'[g][i] # <<>> => Len(b) # 1 /\ b # <<>>
    BY <1>1, <1>4, <1>5
  <2>3. First(g, i) \in Int
    BY <1>1, <1>7, <1>4 DEF First
  <2>4. \A h \in Group, j \in Instance : batch'[h][j] # <<>> => batch[h][j] # <<>>
    BY <2>2, <1>1, <1>5
  <2>5. Given'
    BY <2>2, <2>4, <1>8, <1>9 DEF IInv, Given
  <2>6. Apart'
    <3> SUFFICES ASSUME NEW h \in Group, NEW x \in Instance, NEW y \in Instance, x # y,
                        batch'[h][x] # <<>>, batch'[h][y] # <<>>
                 PROVE  Final(h, x)' < First(h, y)' \/ Final(h, y)' < First(h, x)'
      BY DEF Apart
    <3>1. Final(h, x) < First(h, y) \/ Final(h, y) < First(h, x)
      BY <2>4 DEF IInv, Apart
    <3>2. \A j \in Instance : batch'[h][j] # <<>> =>
            /\ Final(h, j)' = Final(h, j) /\ Final(h, j) \in Int
            /\ First(h, j) \in Int
            /\ First(h, j)' = First(h, j) \/ First(h, j)' = First(h, j) + 1
      <4> SUFFICES ASSUME NEW j \in Instance, batch'[h][j] # <<>>
                   PROVE  /\ Final(h, j)' = Final(h, j) /\ Final(h, j) \in Int
                          /\ First(h, j) \in Int
                          /\ First(h, j)' = First(h, j) \/ First(h, j)' = First(h, j) + 1
        OBVIOUS
      <4>1. batch[h][j] # <<>> /\ TypeOK
        BY <2>4 DEF IInv
      <4>2. First(h, j) \in Int /\ Final(h, j) \in Int
        BY <4>1, Batches
      <4>3. CASE h = g /\ j = i
        BY <4>2, <4>3, <2>2, <1>8
      <4>4. CASE h # g \/ j # i
        BY <4>2, <4>4, <1>9
      <4> QED
        BY <4>3, <4>4
    <3> QED
      BY <3>1, <3>2
  <2> QED
    BY <2>5, <2>6
<1>14. Fresh' /\ Handed' /\ Unborn'
  <2>1. b # <<>> => Left(g, i) = First(g, i) \/ Left(g, i) = First(g, i) + 1
    BY DEF Left
  <2>2. Fresh'
    <3> SUFFICES ASSUME NEW h \in Group, NEW k \in 1..Len(handled[h]), NEW j \in Instance,
                        batch'[h][j] # <<>>
                 PROVE  handled[h][k] < Left(h, j)' \/ Final(h, j)' < handled[h][k]
      BY DEF IInv, Fresh
    <3>1. batch[h][j] # <<>>
      BY <1>1, <1>5
    <3>2. handled[h][k] < Left(h, j) \/ Final(h, j) < handled[h][k]
      BY <3>1 DEF IInv, Fresh
    <3>3. CASE h = g /\ j = i
      <4>1. Len(b) # 1
        BY <3>3, <1>4, <1>5
      <4>2. handled[h][k] \in Int /\ First(g, i) \in Int
        <5>1. TypeOK /\ handled[h] \in Seq(1..added) /\ added \in Nat
          <6>1. added \in 0..MaxEntries /\ MaxEntries \in Nat
            BY EventBusAssumption DEF IInv, TypeOK
          <6>2. TypeOK /\ handled[h] \in Seq(1..added)
            BY DEF IInv, TypeOK
          <6> QED
            BY <6>1, <6>2
        <5>2. handled[h][k] \in 1..added
          BY <5>1, ElementOfSeq
        <5> QED
          BY <5>1, <5>2, <1>1, Batches
      <4> QED
        BY <4>1, <4>2, <3>2, <3>3, <2>1, <1>1, <1>8, <1>10
    <3>4. CASE h # g \/ j # i
      BY <3>2, <3>4, <1>9
    <3> QED
      BY <3>3, <3>4
  <2>3. Handed'
    BY <1>6, <1>9 DEF IInv, Handed, Received
  <2>4. Unborn'
    BY <1>1, <1>5, <1>6 DEF IInv, Unborn
  <2> QED
    BY <2>2, <2>3, <2>4
<1>15. HandedOutOnce'
  <2>1. HandledOnce'
    BY DEF IInv, HandedOutOnce, HandledOnce
  <2>2. DeliveredIsAccounted'
    <3> SUFFICES ASSUME NEW h \in Group, NEW e \in (created[h] + 1)..delivered[h], created[h] # -1
                 PROVE  e \in Received(h) \/ e \in pending'[h] \/ e <= trimmed
      BY DEF DeliveredIsAccounted, Received
    <3>1. e \in Received(h) \/ e \in pending[h] \/ e <= trimmed
      BY DEF IInv, HandedOutOnce, DeliveredIsAccounted
    <3>2. e \in pending[h] => e \in pending'[h] \/ (h = g /\ loop[g][i] = "acking" /\ e = Head(b))
      BY DEF IInv, TypeOK
    <3>3. loop[g][i] = "acking" => Head(b) \in Received(g)
      BY <1>2 DEF IInv, Handed, First
    <3> QED
      BY <3>1, <3>2, <3>3
  <2> QED
    BY <2>1, <2>2 DEF HandedOutOnce
<1> QED
  BY <1>11, <1>12, <1>13, <1>14, <1>15 DEF IInv

(* What XREADGROUP hands out is new to the group and still in the stream.  *)
LEMMA Unread ==
  ASSUME TypeOK, NEW g \in Group, FirstUnread(g) <= added
  PROVE  /\ FirstUnread(g) \in 1..added /\ LastRead(g) \in 1..added
         /\ delivered[g] < FirstUnread(g) /\ FirstUnread(g) <= LastRead(g)
         /\ delivered[g] \in Nat /\ trimmed \in Nat /\ added \in Nat
         /\ \A e \in Int : delivered[g] < e /\ e < FirstUnread(g) => e <= trimmed
<1>1. delivered[g] \in Nat /\ trimmed \in Nat /\ added \in Nat /\ Count \in Nat \ {0}
  BY EventBusAssumption DEF TypeOK
<1> QED
  BY <1>1 DEF FirstUnread, LastRead

LEMMA DeliverKeeps ==
  ASSUME IInv, NEW g \in Group, Deliver(g), handled' = handled
  PROVE  /\ delivered' \in [Group -> 0..added]
         /\ pending' \in [Group -> SUBSET (1..added)]
         /\ \A h \in Group : delivered[h] <= delivered'[h]
         /\ DeliveredIsAccounted'
<1>1. /\ FirstUnread(g) \in 1..added /\ LastRead(g) \in 1..added
      /\ delivered[g] < FirstUnread(g) /\ FirstUnread(g) <= LastRead(g)
      /\ delivered[g] \in Nat /\ trimmed \in Nat /\ added \in Nat
      /\ \A e \in Int : delivered[g] < e /\ e < FirstUnread(g) => e <= trimmed
  BY Unread DEF IInv, Deliver
<1>2. \A h \in Group : /\ delivered'[h] = IF h = g THEN LastRead(g) ELSE delivered[h]
                       /\ pending'[h] = IF h = g THEN pending[g] \cup FirstUnread(g)..LastRead(g)
                                                ELSE pending[h]
  BY DEF IInv, TypeOK, Deliver
<1>3. delivered' \in [Group -> 0..added]
  BY <1>1 DEF IInv, TypeOK, Deliver
<1>4. pending' \in [Group -> SUBSET (1..added)]
  <2>1. FirstUnread(g)..LastRead(g) \subseteq 1..added
    BY <1>1
  <2> QED
    BY <2>1 DEF IInv, TypeOK, Deliver
<1>5. \A h \in Group : delivered[h] <= delivered'[h]
  <2>1. \A h \in Group : delivered[h] \in Int
    BY <1>1 DEF IInv, TypeOK
  <2> QED
    BY <2>1, <1>1, <1>2
<1>6. DeliveredIsAccounted'
  <2> SUFFICES ASSUME NEW h \in Group, NEW e \in (created[h] + 1)..delivered'[h], created[h] # -1
               PROVE  e \in Received(h) \/ e \in pending'[h] \/ e <= trimmed
    BY DEF DeliveredIsAccounted, Received, Deliver
  <2>1. created[h] \in Int /\ delivered[h] \in Int /\ e \in Int
    BY <1>1 DEF IInv, TypeOK
  <2>2. CASE e <= delivered[h]
    <3>1. e \in (created[h] + 1)..delivered[h]
      BY <2>1, <2>2
    <3>2. e \in Received(h) \/ e \in pending[h] \/ e <= trimmed
      BY <3>1 DEF IInv, HandedOutOnce, DeliveredIsAccounted
    <3> QED
      BY <3>2, <1>2
  <2>3. CASE ~(e <= delivered[h])
    <3>1. h = g
      BY <2>1, <2>3, <1>2
    <3>2. delivered[g] < e /\ e <= LastRead(g)
      BY <3>1, <2>1, <2>3, <1>1, <1>2
    <3>3. CASE e < FirstUnread(g)
      BY <3>2, <3>3, <2>1, <1>1
    <3>4. CASE FirstUnread(g) <= e
      BY <3>1, <3>2, <3>4, <2>1, <1>1, <1>2
    <3> QED
      BY <3>3, <3>4, <2>1, <1>1
  <2> QED
    BY <2>2, <2>3
<1> QED
  BY <1>3, <1>4, <1>5, <1>6

(* Steps of a loop that holds no batch and gets none. *)
LEMMA Waits ==
  ASSUME IInv, NEW g \in Group, NEW i \in Instance, NEW v \in {"reading", "backoff"},
         loop[g][i] \in {"down", "reading", "backoff"},
         loop' = [loop EXCEPT ![g][i] = v],
         UNCHANGED <<added, trimmed, batch, handled>>,
         created' \in [Group -> -1..added],
         delivered' \in [Group -> 0..added],
         pending' \in [Group -> SUBSET (1..added)],
         created'[g] # -1,
         \A h \in Group : h # g => created'[h] = created[h],
         \A h \in Group : delivered[h] <= delivered'[h],
         DeliveredIsAccounted'
  PROVE  IInv'
<1>1. /\ loop'[g][i] = v
      /\ \A h \in Group, j \in Instance : h # g \/ j # i => loop'[h][j] = loop[h][j]
  BY DEF IInv, TypeOK
<1>2. batch[g][i] = <<>>
  BY DEF IInv, TypeOK
<1>3. added \in Nat /\ \A h \in Group : delivered[h] \in Int /\ delivered'[h] \in Int
  <2>1. added \in Nat
    BY EventBusAssumption DEF IInv, TypeOK
  <2>2. \A h \in Group : delivered[h] \in 0..added /\ delivered'[h] \in 0..added
    BY DEF IInv, TypeOK
  <2> QED
    BY <2>1, <2>2
<1>4. TypeOK'
  <2>1. loop' \in [Group -> [Instance -> Loop]]
    BY DEF IInv, TypeOK, Loop
  <2>2. \A h \in Group, j \in Instance :
          (loop'[h][j] \in {"handling", "acking"}) = (batch'[h][j] # <<>>)
    <3> SUFFICES ASSUME NEW h \in Group, NEW j \in Instance
                 PROVE  (loop'[h][j] \in {"handling", "acking"}) = (batch'[h][j] # <<>>)
      OBVIOUS
    <3>1. CASE h = g /\ j = i
      BY <3>1, <1>1, <1>2
    <3>2. CASE h # g \/ j # i
      <4>1. loop'[h][j] = loop[h][j] /\ batch'[h][j] = batch[h][j]
        BY <3>2, <1>1
      <4>2. (loop[h][j] \in {"handling", "acking"}) = (batch[h][j] # <<>>)
        BY DEF IInv, TypeOK
      <4> QED
        BY <4>1, <4>2
    <3> QED
      BY <3>1, <3>2
  <2> QED
    BY <2>1, <2>2 DEF IInv, TypeOK
<1>5. \A h \in Group, j \in Instance : /\ First(h, j)' = First(h, j) /\ Final(h, j)' = Final(h, j)
                                       /\ batch[h][j] # <<>> => Left(h, j)' = Left(h, j)
  BY <1>1, <1>2 DEF First, Final, Left
<1>6. Consecutive' /\ Apart'
  BY <1>5 DEF IInv, Consecutive, Apart
<1>7. Given'
  <2> SUFFICES ASSUME NEW h \in Group, NEW j \in Instance, batch[h][j] # <<>>
               PROVE  Final(h, j) <= delivered'[h]
    BY <1>5 DEF Given
  <2>1. Final(h, j) <= delivered[h] /\ Final(h, j) \in Int
    BY Batches DEF IInv, Given
  <2> QED
    BY <2>1, <1>3
<1>8. Fresh'
  <2> SUFFICES ASSUME NEW h \in Group, NEW k \in 1..Len(handled[h])
               PROVE  /\ handled[h][k] <= delivered'[h]
                      /\ \A j \in Instance : batch[h][j] # <<>> =>
                           handled[h][k] < Left(h, j)' \/ Final(h, j)' < handled[h][k]
    BY DEF Fresh
  <2>1. handled[h][k] \in Int
    <3>1. handled[h] \in Seq(1..added)
      BY DEF IInv, TypeOK
    <3>2. handled[h][k] \in 1..added
      BY <3>1, ElementOfSeq
    <3> QED
      BY <3>2
  <2>2. handled[h][k] <= delivered[h]
    BY DEF IInv, Fresh
  <2>3. handled[h][k] <= delivered'[h]
    BY <2>1, <2>2, <1>3
  <2>4. \A j \in Instance : batch[h][j] # <<>> =>
          handled[h][k] < Left(h, j) \/ Final(h, j) < handled[h][k]
    BY DEF IInv, Fresh
  <2> QED
    BY <2>3, <2>4, <1>5
<1>9. Handed'
  BY <1>1 DEF IInv, Handed, Received, First
<1>10. Unborn'
  <2> SUFFICES ASSUME NEW h \in Group, created'[h] = -1
               PROVE  /\ handled[h] = <<>>
                      /\ \A j \in Instance : batch[h][j] = <<>> /\ loop'[h][j] = "down"
    BY DEF Unborn
  <2>1. h # g /\ created[h] = -1
    OBVIOUS
  <2> QED
    BY <2>1, <1>1 DEF IInv, Unborn
<1>11. HandedOutOnce'
  BY DEF IInv, HandedOutOnce, HandledOnce
<1> QED
  BY <1>4, <1>6, <1>7, <1>8, <1>9, <1>10, <1>11 DEF IInv

LEMMA SubscribeKeeps ==
  ASSUME IInv, NEW g \in Group, NEW i \in Instance, Subscribe(g, i)
  PROVE  IInv'
<1> USE DEF Subscribe
<1>1. added \in Nat
  BY EventBusAssumption DEF IInv, TypeOK
<1>2. /\ created' \in [Group -> -1..added] /\ delivered' \in [Group -> 0..added]
      /\ pending' \in [Group -> SUBSET (1..added)]
      /\ created'[g] # -1
      /\ \A h \in Group : h # g => created'[h] = created[h]
      /\ \A h \in Group : delivered[h] <= delivered'[h]
  <2>1. \A h \in Group : delivered[h] \in 0..added
    BY DEF IInv, TypeOK
  <2>2. CASE created[g] = -1
    <3>1. /\ created' = [created EXCEPT ![g] = added]
          /\ delivered' = [delivered EXCEPT ![g] = added]
      BY <2>2 DEF EnsureGroup
    <3>2. \A h \in Group : delivered'[h] = IF h = g THEN added ELSE delivered[h]
      BY <3>1 DEF IInv, TypeOK
    <3> QED
      BY <1>1, <2>1, <3>1, <3>2 DEF IInv, TypeOK
  <2>3. CASE created[g] # -1
    BY <1>1, <2>1, <2>3 DEF EnsureGroup, IInv, TypeOK
  <2> QED
    BY <2>2, <2>3
<1>3. DeliveredIsAccounted'
  <2> SUFFICES ASSUME NEW h \in Group, NEW e \in (created'[h] + 1)..delivered'[h]
               PROVE  created'[h] # -1 => e \in Received(h) \/ e \in pending[h] \/ e <= trimmed
    BY DEF DeliveredIsAccounted, Received
  <2>1. CASE h = g /\ created[g] = -1
    <3>1. created'[h] = added /\ delivered'[h] = added
      BY <2>1 DEF EnsureGroup, IInv, TypeOK
    <3> QED
      BY <3>1, <1>1
  <2>2. CASE ~(h = g /\ created[g] = -1)
    <3>1. created'[h] = created[h] /\ delivered'[h] = delivered[h]
      BY <2>2 DEF EnsureGroup, IInv, TypeOK
    <3> QED
      BY <3>1 DEF IInv, HandedOutOnce, DeliveredIsAccounted
  <2> QED
    BY <2>1, <2>2
<1> QED
  BY <1>2, <1>3, Waits

LEMMA ReadFailsKeeps ==
  ASSUME IInv, NEW g \in Group, NEW i \in Instance, ReadFails(g, i)
  PROVE  IInv'
<1> USE DEF ReadFails
<1>1. created[g] # -1
  BY DEF IInv, Unborn
<1>2. CASE Deliver(g)
  <2>1. /\ delivered' \in [Group -> 0..added]
        /\ pending' \in [Group -> SUBSET (1..added)]
        /\ \A h \in Group : delivered[h] <= delivered'[h]
        /\ DeliveredIsAccounted'
    BY <1>2, DeliverKeeps
  <2>2. UNCHANGED <<added, trimmed, created>> /\ created' \in [Group -> -1..added]
    BY <1>2 DEF Deliver, IInv, TypeOK
  <2> QED
    BY <1>1, <2>1, <2>2, Waits
<1>3. CASE UNCHANGED redis
  <2>1. UNCHANGED <<added, trimmed, created, delivered, pending>>
    BY <1>3 DEF redis
  <2>2. \A h \in Group : delivered[h] \in Int
    BY <2>1 DEF IInv, TypeOK
  <2>3. DeliveredIsAccounted'
    BY <2>1 DEF IInv, HandedOutOnce, DeliveredIsAccounted, Received
  <2>4. \A h \in Group : delivered[h] <= delivered'[h]
    BY <2>1, <2>2
  <2>5. /\ created' \in [Group -> -1..added] /\ delivered' \in [Group -> 0..added]
        /\ pending' \in [Group -> SUBSET (1..added)]
    BY <2>1 DEF IInv, TypeOK
  <2> QED
    BY <1>1, <2>1, <2>3, <2>4, <2>5, Waits
<1> QED
  BY <1>2, <1>3

LEMMA RetryKeeps ==
  ASSUME IInv, NEW g \in Group, NEW i \in Instance, Retry(g, i)
  PROVE  IInv'
<1> USE DEF Retry
<1>1. UNCHANGED <<added, trimmed, created, delivered, pending>>
  BY DEF redis
<1>2. \A h \in Group : delivered[h] <= delivered'[h]
  <2>1. \A h \in Group : delivered[h] \in Int
    BY DEF IInv, TypeOK
  <2> QED
    BY <1>1, <2>1
<1>3. DeliveredIsAccounted'
  BY <1>1 DEF IInv, HandedOutOnce, DeliveredIsAccounted, Received
<1>4. /\ created' \in [Group -> -1..added] /\ delivered' \in [Group -> 0..added]
      /\ pending' \in [Group -> SUBSET (1..added)] /\ created'[g] # -1
  BY <1>1 DEF IInv, TypeOK, Unborn
<1> QED
  BY <1>1, <1>2, <1>3, <1>4, Waits

(* A batch is handed to an instance: its entries were never delivered.     *)
LEMMA ReadKeeps ==
  ASSUME IInv, NEW g \in Group, NEW i \in Instance, Read(g, i)
  PROVE  IInv'
<1> DEFINE m == LastRead(g) - FirstUnread(g) + 1
<1>1. /\ FirstUnread(g) \in 1..added /\ LastRead(g) \in 1..added
      /\ delivered[g] < FirstUnread(g) /\ FirstUnread(g) <= LastRead(g)
      /\ delivered[g] \in Nat /\ trimmed \in Nat /\ added \in Nat
  BY Unread DEF IInv, Read, Deliver
<1>2. /\ delivered' \in [Group -> 0..added]
      /\ pending' \in [Group -> SUBSET (1..added)]
      /\ \A h \in Group : delivered[h] <= delivered'[h]
      /\ DeliveredIsAccounted'
  BY DeliverKeeps DEF Read
<1>3. /\ delivered'[g] = LastRead(g)
      /\ UNCHANGED <<added, trimmed, created, handled>>
  BY DEF Read, Deliver, IInv, TypeOK
<1>4. m \in Nat /\ m >= 1
  BY <1>1
<1>5. /\ batch'[g][i] = [k \in 1..m |-> FirstUnread(g) + k - 1]
      /\ \A h \in Group, j \in Instance : h # g \/ j # i => batch'[h][j] = batch[h][j]
  BY DEF Read, NextEntries, IInv, TypeOK
<1>6. /\ batch'[g][i] \in Seq(1..added) /\ Len(batch'[g][i]) = m
      /\ batch'[g][i] # <<>>
  <2>1. \A k \in 1..m : FirstUnread(g) + k - 1 \in 1..added
    BY <1>1
  <2>2. batch'[g][i] \in [1..m -> 1..added]
    BY <1>5, <2>1
  <2>3. batch'[g][i] \in Seq(1..added) /\ Len(batch'[g][i]) = m
    <3>1. batch'[g][i] \in Seq(1..added)
      BY <1>4, <2>2, SeqDef
    <3>2. DOMAIN batch'[g][i] = 1..Len(batch'[g][i]) /\ Len(batch'[g][i]) \in Nat
      BY <3>1, LenProperties
    <3>3. DOMAIN batch'[g][i] = 1..m
      BY <1>5
    <3>4. \A n \in Nat : 1..n = 1..m => n = m
      BY <1>4
    <3> QED
      BY <3>1, <3>2, <3>3, <3>4
  <2> QED
    BY <2>3, <1>4, Elements
<1>7. \A k \in 1..m : batch'[g][i][k] = FirstUnread(g) + k - 1
  BY <1>5
<1>8. First(g, i)' = FirstUnread(g) /\ Final(g, i)' = LastRead(g) /\ Left(g, i)' = FirstUnread(g)
  <2>1. First(g, i)' = FirstUnread(g)
    BY <1>1, <1>4, <1>7 DEF First
  <2>2. Final(g, i)' = First(g, i)' + m - 1
    BY <1>6 DEF First, Final
  <2>3. loop'[g][i] # "acking"
    BY DEF Read, IInv, TypeOK
  <2> QED
    BY <2>1, <2>2, <2>3, <1>1 DEF Left
<1>9. \A h \in Group, j \in Instance : h # g \/ j # i =>
        loop'[h][j] = loop[h][j] /\ First(h, j)' = First(h, j)
          /\ Final(h, j)' = Final(h, j) /\ Left(h, j)' = Left(h, j)
  BY <1>5 DEF Read, IInv, TypeOK, First, Final, Left
<1>10. \A h \in Group : delivered[h] \in Int /\ delivered'[h] \in Int
  <2>1. \A h \in Group : delivered[h] \in 0..added /\ delivered'[h] \in 0..added
    BY <1>2 DEF IInv, TypeOK
  <2> QED
    BY <2>1
<1>11. \A h \in Group, j \in Instance : batch[h][j] # <<>> =>
         First(h, j) \in Int /\ Final(h, j) \in Int /\ Left(h, j) \in Int
           /\ First(h, j) <= Final(h, j) /\ Final(h, j) <= delivered[h]
  BY Batches DEF IInv, Given
<1>12. TypeOK'
  <2>1. batch' \in [Group -> [Instance -> Seq(1..added)]]
    BY <1>5, <1>6 DEF Read, IInv, TypeOK
  <2>2. loop' \in [Group -> [Instance -> Loop]]
    BY DEF Read, IInv, TypeOK, Loop
  <2>3. \A h \in Group, j \in Instance :
          (loop'[h][j] \in {"handling", "acking"}) = (batch'[h][j] # <<>>)
    <3> SUFFICES ASSUME NEW h \in Group, NEW j \in Instance
                 PROVE  (loop'[h][j] \in {"handling", "acking"}) = (batch'[h][j] # <<>>)
      OBVIOUS
    <3>1. CASE h = g /\ j = i
      BY <3>1, <1>6 DEF Read, IInv, TypeOK
    <3>2. CASE h # g \/ j # i
      <4>1. loop'[h][j] = loop[h][j] /\ batch'[h][j] = batch[h][j]
        BY <3>2, <1>5, <1>9
      <4>2. (loop[h][j] \in {"handling", "acking"}) = (batch[h][j] # <<>>)
        BY DEF IInv, TypeOK
      <4> QED
        BY <4>1, <4>2
    <3> QED
      BY <3>1, <3>2
  <2> QED
    BY <1>2, <1>3, <2>1, <2>2, <2>3 DEF IInv, TypeOK
<1>13. Consecutive'
  <2> SUFFICES ASSUME NEW h \in Group, NEW j \in Instance, NEW k \in 1..Len(batch'[h][j])
               PROVE  batch'[h][j][k] = First(h, j)' + k - 1
    BY DEF Consecutive
  <2>1. CASE h = g /\ j = i
    BY <2>1, <1>6, <1>7, <1>8
  <2>2. CASE h # g \/ j # i
    BY <2>2, <1>5, <1>9 DEF IInv, Consecutive
  <2> QED
    BY <2>1, <2>2
<1>14. Given'
  <2> SUFFICES ASSUME NEW h \in Group, NEW j \in Instance, batch'[h][j] # <<>>
               PROVE  Final(h, j)' <= delivered'[h]
    BY DEF Given
  <2>1. CASE h = g /\ j = i
    BY <2>1, <1>1, <1>3, <1>8
  <2>2. CASE h # g \/ j # i
    BY <2>2, <1>2, <1>5, <1>9, <1>10, <1>11
  <2> QED
    BY <2>1, <2>2
<1>15. Apart'
  <2>1. \A j \in Instance : j # i /\ batch'[g][j] # <<>> => Final(g, j)' < First(g, i)'
    BY <1>1, <1>5, <1>8, <1>9, <1>11
  <2> SUFFICES ASSUME NEW h \in Group, NEW x \in Instance, NEW y \in Instance, x # y,
                      batch'[h][x] # <<>>, batch'[h][y] # <<>>
               PROVE  Final(h, x)' < First(h, y)' \/ Final(h, y)' < First(h, x)'
    BY DEF Apart
  <2>2. CASE h = g /\ (x = i \/ y = i)
    BY <2>1, <2>2
  <2>3. CASE h # g \/ (x # i /\ y # i)
    BY <2>3, <1>5, <1>9 DEF IInv, Apart
  <2> QED
    BY <2>2, <2>3
<1>16. Fresh'
  <2> SUFFICES ASSUME NEW h \in Group, NEW k \in 1..Len(handled[h])
               PROVE  /\ handled[h][k] <= delivered'[h]
                      /\ \A j \in Instance : batch'[h][j] # <<>> =>
                           handled[h][k] < Left(h, j)' \/ Final(h, j)' < handled[h][k]
    BY <1>3 DEF Fresh
  <2>1. handled[h][k] \in Int
    <3>1. handled[h] \in Seq(1..added)
      BY DEF IInv, TypeOK
    <3>2. handled[h][k] \in 1..added
      BY <3>1, ElementOfSeq
    <3> QED
      BY <3>2
  <2>2. handled[h][k] <= delivered[h]
    BY DEF IInv, Fresh
  <2>3. handled[h][k] <= delivered'[h]
    BY <2>1, <2>2, <1>2, <1>10
  <2>4. ASSUME NEW j \in Instance, batch'[h][j] # <<>>
        PROVE  handled[h][k] < Left(h, j)' \/ Final(h, j)' < handled[h][k]
    <3>1. CASE h = g /\ j = i
      BY <3>1, <2>1, <2>2, <1>1, <1>8
    <3>2. CASE h # g \/ j # i
      BY <3>2, <2>4, <1>5, <1>9 DEF IInv, Fresh
    <3> QED
      BY <3>1, <3>2
  <2> QED
    BY <2>3, <2>4
<1>17. Handed'
  <2> SUFFICES ASSUME NEW h \in Group, NEW j \in Instance, loop'[h][j] = "acking"
               PROVE  First(h, j)' \in Received(h)
    BY <1>3 DEF Handed, Received
  <2>1. h # g \/ j # i
    BY DEF Read, IInv, TypeOK
  <2> QED
    BY <2>1, <1>9 DEF IInv, Handed
<1>18. Unborn'
  <2> SUFFICES ASSUME NEW h \in Group, created[h] = -1
               PROVE  /\ handled[h] = <<>>
                      /\ \A j \in Instance : batch'[h][j] = <<>> /\ loop'[h][j] = "down"
    BY <1>3 DEF Unborn
  <2>1. h # g
    BY DEF Read, IInv, Unborn
  <2> QED
    BY <2>1, <1>5, <1>9 DEF IInv, Unborn
<1>19. HandedOutOnce'
  BY <1>2, <1>3 DEF IInv, HandedOutOnce, HandledOnce
<1> QED
  BY <1>12, <1>13, <1>14, <1>15, <1>16, <1>17, <1>18, <1>19 DEF IInv

(* The head of the batch is handled: it was not before. *)
LEMMA HandleKeeps ==
  ASSUME IInv, NEW g \in Group, NEW i \in Instance, Handle(g, i)
  PROVE  IInv'
<1> DEFINE n == Len(handled[g])
           e == First(g, i)
<1>1. batch[g][i] # <<>> /\ batch[g][i] \in Seq(1..added)
  BY DEF Handle, IInv, TypeOK
<1>2. e = Head(batch[g][i]) /\ e \in 1..added /\ added \in Nat
  BY <1>1, Batches, Rest, EventBusAssumption DEF First, IInv, TypeOK
<1>3. UNCHANGED <<added, trimmed, created, delivered, pending, batch>>
  BY DEF Handle, redis
<1>4. \A h \in Group, j \in Instance :
        loop'[h][j] = IF h = g /\ j = i THEN "acking" ELSE loop[h][j]
  BY DEF Handle, IInv, TypeOK
<1>5. /\ \A h \in Group : h # g => handled'[h] = handled[h]
      /\ handled'[g] = Append(handled[g], e)
  BY <1>2 DEF Handle, IInv, TypeOK
<1>6. \A h \in Group : handled[h] \in Seq(1..added) /\ Len(handled[h]) \in Nat
  BY LenProperties DEF IInv, TypeOK
<1>7. /\ handled'[g] \in Seq(1..added)
      /\ Len(handled'[g]) = n + 1
      /\ handled'[g][n + 1] = e
      /\ \A k \in 1..n : handled'[g][k] = handled[g][k]
  BY <1>2, <1>5, <1>6, AppendProperties
<1>8. \A h \in Group : \A k \in 1..Len(handled[h]) : handled[h][k] \in Int
  <2> SUFFICES ASSUME NEW h \in Group, NEW k \in 1..Len(handled[h])
               PROVE  handled[h][k] \in Int
    OBVIOUS
  <2>1. handled[h][k] \in 1..added
    BY <1>6, ElementOfSeq
  <2> QED
    BY <2>1
<1>9. \A h \in Group, j \in Instance :
        First(h, j)' = First(h, j) /\ Final(h, j)' = Final(h, j)
  BY <1>3 DEF First, Final
<1>10. /\ Left(g, i) = e /\ Left(g, i)' = e + 1
       /\ \A h \in Group, j \in Instance : h # g \/ j # i => Left(h, j)' = Left(h, j)
  BY <1>4, <1>9 DEF Handle, Left
<1>11. \A h \in Group, j \in Instance : batch[h][j] # <<>> =>
         First(h, j) \in Int /\ Final(h, j) \in Int /\ Left(h, j) \in Int
           /\ First(h, j) <= Final(h, j) /\ Final(h, j) <= delivered[h]
           /\ delivered[h] \in Int
  <2>1. \A h \in Group : delivered[h] \in 0..added
    BY DEF IInv, TypeOK
  <2> QED
    BY <2>1, Batches DEF IInv, Given
<1>12. \A k \in 1..n : handled[g][k] # e
  <2> SUFFICES ASSUME NEW k \in 1..n PROVE handled[g][k] # e
    OBVIOUS
  <2>1. handled[g][k] < e \/ Final(g, i) < handled[g][k]
    BY <1>1, <1>10 DEF IInv, Fresh
  <2> QED
    BY <2>1, <1>1, <1>2, <1>8, <1>11
<1>13. TypeOK'
  <2>1. handled' \in [Group -> Seq(1..added)]
    BY <1>5, <1>6, <1>7 DEF Handle, IInv, TypeOK
  <2>2. loop' \in [Group -> [Instance -> Loop]]
    BY DEF Handle, IInv, TypeOK, Loop
  <2>3. \A h \in Group, j \in Instance :
          (loop'[h][j] \in {"handling", "acking"}) = (batch[h][j] # <<>>)
    <3> SUFFICES ASSUME NEW h \in Group, NEW j \in Instance
                 PROVE  (loop'[h][j] \in {"handling", "acking"}) = (batch[h][j] # <<>>)
      OBVIOUS
    <3>1. CASE h = g /\ j = i
      BY <3>1, <1>1, <1>4
    <3>2. CASE h # g \/ j # i
      <4>1. (loop[h][j] \in {"handling", "acking"}) = (batch[h][j] # <<>>)
        BY DEF IInv, TypeOK
      <4> QED
        BY <3>2, <4>1, <1>4
    <3> QED
      BY <3>1, <3>2
  <2> QED
    BY <1>3, <2>1, <2>2, <2>3 DEF IInv, TypeOK
<1>14. Consecutive' /\ Given' /\ Apart'
  BY <1>3, <1>9 DEF IInv, Consecutive, Given, Apart
<1>15. Fresh'
  <2> SUFFICES ASSUME NEW h \in Group, NEW k \in 1..Len(handled'[h])
               PROVE  /\ handled'[h][k] <= delivered[h]
                      /\ \A j \in Instance : batch[h][j] # <<>> =>
                           handled'[h][k] < Left(h, j)' \/ Final(h, j) < handled'[h][k]
    BY <1>3, <1>9 DEF Fresh
  <2>1. CASE h = g /\ k = n + 1
    <3>1. handled'[h][k] = e
      BY <2>1, <1>7
    <3>2. e <= delivered[g]
      BY <1>1, <1>11
    <3>3. ASSUME NEW j \in Instance, batch[g][j] # <<>>
          PROVE  e < Left(g, j)' \/ Final(g, j) < e
      <4>1. CASE j = i
        BY <4>1, <1>2, <1>10
      <4>2. CASE j # i
        <5>1. Final(g, j) < e \/ Final(g, i) < First(g, j)
          BY <4>2, <3>3, <1>1 DEF IInv, Apart
        <5>2. First(g, j) <= Left(g, j)
          BY <3>3, <1>11 DEF Left
        <5> QED
          BY <4>2, <5>1, <5>2, <3>3, <1>1, <1>10, <1>11
      <4> QED
        BY <4>1, <4>2
    <3> QED
      BY <2>1, <3>1, <3>2, <3>3
  <2>2. CASE ~(h = g /\ k = n + 1)
    <3>1. k \in 1..Len(handled[h]) /\ handled'[h][k] = handled[h][k]
      <4>1. CASE h = g
        BY <4>1, <2>2, <1>6, <1>7
      <4>2. CASE h # g
        BY <4>2, <1>5
      <4> QED
        BY <4>1, <4>2
    <3>2. handled[h][k] <= delivered[h]
      BY <3>1 DEF IInv, Fresh
    <3>3. ASSUME NEW j \in Instance, batch[h][j] # <<>>
          PROVE  handled[h][k] < Left(h, j)' \/ Final(h, j) < handled[h][k]
      <4>1. handled[h][k] < Left(h, j) \/ Final(h, j) < handled[h][k]
        BY <3>1, <3>3 DEF IInv, Fresh
      <4> QED
        BY <4>1, <3>1, <3>3, <1>8, <1>10, <1>11
    <3> QED
      BY <3>1, <3>2, <3>3
  <2> QED
    BY <2>1, <2>2
<1>16. \A h \in Group : Received(h) \subseteq Received(h)'
  <2> SUFFICES ASSUME NEW h \in Group, NEW k \in 1..Len(handled[h])
               PROVE  handled[h][k] \in Received(h)'
    BY DEF Received
  <2>1. k \in 1..Len(handled'[h]) /\ handled'[h][k] = handled[h][k]
    <3>1. CASE h = g
      BY <3>1, <1>6, <1>7
    <3>2. CASE h # g
      BY <3>2, <1>5
    <3> QED
      BY <3>1, <3>2
  <2> QED
    BY <2>1 DEF Received
<1>17. Handed'
  <2> SUFFICES ASSUME NEW h \in Group, NEW j \in Instance, loop'[h][j] = "acking"
               PROVE  First(h, j) \in Received(h)'
    BY <1>9 DEF Handed
  <2>1. CASE h = g /\ j = i
    <3>1. n + 1 \in 1..Len(handled'[g])
      BY <1>6, <1>7
    <3> QED
      BY <2>1, <3>1, <1>7 DEF Received
  <2>2. CASE h # g \/ j # i
    BY <2>2, <1>4, <1>16 DEF IInv, Handed
  <2> QED
    BY <2>1, <2>2
<1>18. Unborn'
  <2> SUFFICES ASSUME NEW h \in Group, created[h] = -1
               PROVE  /\ handled'[h] = <<>>
                      /\ \A j \in Instance : batch[h][j] = <<>> /\ loop'[h][j] = "down"
    BY <1>3 DEF Unborn
  <2>1. h # g
    BY <1>1 DEF IInv, Unborn
  <2> QED
    BY <2>1, <1>4, <1>5 DEF IInv, Unborn
<1>19. HandledOnce'
  <2> SUFFICES ASSUME NEW h \in Group,
                      NEW j \in 1..Len(handled'[h]), NEW k \in 1..Len(handled'[h]),
                      handled'[h][j] = handled'[h][k]
               PROVE  j = k
    BY DEF HandledOnce
  <2>1. CASE h = g
    <3>1. \A x \in 1..Len(handled'[g]) : x \in 1..n \/ x = n + 1
      BY <1>6, <1>7
    <3>2. CASE j \in 1..n /\ k \in 1..n
      BY <2>1, <3>2, <1>7 DEF IInv, HandedOutOnce, HandledOnce
    <3>3. CASE j = n + 1 \/ k = n + 1
      BY <2>1, <3>1, <3>3, <1>7, <1>12
    <3> QED
      BY <2>1, <3>1, <3>2, <3>3
  <2>2. CASE h # g
    BY <2>2, <1>5 DEF IInv, HandedOutOnce, HandledOnce
  <2> QED
    BY <2>1, <2>2
<1>20. DeliveredIsAccounted'
  BY <1>3, <1>16 DEF IInv, HandedOutOnce, DeliveredIsAccounted
<1> QED
  BY <1>13, <1>14, <1>15, <1>17, <1>18, <1>19, <1>20 DEF IInv, HandedOutOnce

LEMMA CrashKeeps ==
  ASSUME IInv, NEW i \in Instance, Crash(i)
  PROVE  IInv'
<1>1. UNCHANGED <<added, trimmed, created, delivered, pending, handled>>
  BY DEF Crash, redis
<1>2. /\ \A h \in Group : batch'[h][i] = <<>> /\ loop'[h][i] = "down"
      /\ \A h \in Group, j \in Instance : j # i =>
           batch'[h][j] = batch[h][j] /\ loop'[h][j] = loop[h][j]
  BY DEF Crash, IInv, TypeOK
<1>3. TypeOK'
  <2>1. batch' \in [Group -> [Instance -> Seq(1..added)]]
    <3>1. <<>> \in Seq(1..added)
      BY EmptySeq
    <3> QED
      BY <3>1 DEF Crash, IInv, TypeOK
  <2>2. loop' \in [Group -> [Instance -> Loop]]
    BY DEF Crash, IInv, TypeOK, Loop
  <2>3. \A h \in Group, j \in Instance :
          (loop'[h][j] \in {"handling", "acking"}) = (batch'[h][j] # <<>>)
    <3> SUFFICES ASSUME NEW h \in Group, NEW j \in Instance
                 PROVE  (loop'[h][j] \in {"handling", "acking"}) = (batch'[h][j] # <<>>)
      OBVIOUS
    <3>1. CASE j = i
      BY <3>1, <1>2
    <3>2. CASE j # i
      BY <3>2, <1>2 DEF IInv, TypeOK
    <3> QED
      BY <3>1, <3>2
  <2> QED
    BY <1>1, <2>1, <2>2, <2>3 DEF IInv, TypeOK
<1>4. \A h \in Group, j \in Instance : batch'[h][j] # <<>> =>
        /\ j # i /\ batch[h][j] # <<>>
        /\ First(h, j)' = First(h, j) /\ Final(h, j)' = Final(h, j) /\ Left(h, j)' = Left(h, j)
  BY <1>2 DEF First, Final, Left
<1>5. Consecutive'
  <2> SUFFICES ASSUME NEW h \in Group, NEW j \in Instance, NEW k \in 1..Len(batch'[h][j])
               PROVE  batch'[h][j][k] = First(h, j)' + k - 1
    BY DEF Consecutive
  <2>1. batch'[h][j] # <<>>
    BY EmptySeq
  <2> QED
    BY <2>1, <1>2, <1>4 DEF IInv, Consecutive
<1>6. Given' /\ Apart' /\ Fresh'
  <2>1. Given'
    BY <1>1, <1>4 DEF IInv, Given
  <2>2. Apart'
    BY <1>4 DEF IInv, Apart
  <2>3. Fresh'
    BY <1>1, <1>4 DEF IInv, Fresh
  <2> QED
    BY <2>1, <2>2, <2>3
<1>7. Handed' /\ Unborn'
  <2>1. Handed'
    <3> SUFFICES ASSUME NEW h \in Group, NEW j \in Instance, loop'[h][j] = "acking"
                 PROVE  First(h, j)' \in Received(h)
      BY <1>1 DEF Handed, Received
    <3>1. j # i
      BY <1>2
    <3> QED
      BY <3>1, <1>2 DEF IInv, Handed, First
  <2>2. Unborn'
    BY <1>1, <1>2 DEF IInv, Unborn
  <2> QED
    BY <2>1, <2>2
<1>8. HandedOutOnce'
  BY <1>1 DEF IInv, HandedOutOnce, HandledOnce, DeliveredIsAccounted, Received
<1> QED
  BY <1>3, <1>5, <1>6, <1>7, <1>8 DEF IInv

LEMMA PublishKeeps ==
  ASSUME IInv, Publish
  PROVE  IInv'
<1> USE DEF Publish
<1>1. added \in Nat /\ MaxEntries \in Nat /\ trimmed \in 0..added /\ added' = added + 1
  BY EventBusAssumption DEF IInv, TypeOK
<1>2. added' \in 0..MaxEntries /\ trimmed' \in 0..added' /\ trimmed <= trimmed'
  BY <1>1
<1>3. 0..added \subseteq 0..added' /\ -1..added \subseteq -1..added' /\ 1..added \subseteq 1..added'
  BY <1>1
<1>4. Seq(1..added) \subseteq Seq(1..added')
  BY <1>3, SeqMonotonic
<1>5. TypeOK'
  <2>1. /\ created \in [Group -> -1..added'] /\ delivered \in [Group -> 0..added']
        /\ pending \in [Group -> SUBSET (1..added')]
    BY <1>3 DEF IInv, TypeOK
  <2>2. /\ batch \in [Group -> [Instance -> Seq(1..added')]]
        /\ handled \in [Group -> Seq(1..added')]
    <3> HIDE DEF Publish
    <3>1. batch \in [Group -> [Instance -> Seq(1..added)]] /\ handled \in [Group -> Seq(1..added)]
      BY DEF IInv, TypeOK
    <3> QED
      BY <3>1, <1>4
  <2> QED
    BY <1>2, <2>1, <2>2 DEF IInv, TypeOK
<1>6. Consecutive' /\ Given' /\ Apart' /\ Fresh'
  BY DEF IInv, Consecutive, Given, Apart, Fresh, First, Final, Left
<1>7. Handed' /\ Unborn'
  BY DEF IInv, Handed, Unborn, Received, First
<1>8. HandledOnce'
  BY DEF IInv, HandedOutOnce, HandledOnce
<1>9. DeliveredIsAccounted'
  <2> SUFFICES ASSUME NEW g \in Group, NEW e \in (created[g] + 1)..delivered[g], created[g] # -1
               PROVE  e \in Received(g) \/ e \in pending[g] \/ e <= trimmed'
    BY DEF DeliveredIsAccounted, Received
  <2>1. e \in Received(g) \/ e \in pending[g] \/ e <= trimmed
    BY DEF IInv, HandedOutOnce, DeliveredIsAccounted
  <2>2. created[g] \in -1..added
    BY DEF IInv, TypeOK
  <2>3. e \in Int
    BY <2>2
  <2> QED
    BY <2>1, <2>3, <1>1, <1>2
<1> QED
  BY <1>5, <1>6, <1>7, <1>8, <1>9 DEF IInv, HandedOutOnce

-----------------------------------------------------------------------------
LEMMA InitHolds == Init => IInv
<1> SUFFICES ASSUME Init PROVE IInv
  OBVIOUS
<1> USE DEF Init
<1>1. TypeOK
  <2>1. <<>> \in Seq(1..added)
    BY EmptySeq
  <2>2. 0 \in 0..MaxEntries /\ 0 \in 0..0 /\ -1 \in -1..0
    BY EventBusAssumption
  <2> QED
    BY <2>1, <2>2 DEF TypeOK, Loop
<1>2. Len(<<>>) = 0
  BY EmptySeq
<1>3. Consecutive /\ Given /\ Apart /\ Fresh /\ Handed /\ Unborn
  BY <1>2 DEF Consecutive, Given, Apart, Fresh, Handed, Unborn
<1>4. HandedOutOnce
  BY <1>2 DEF HandedOutOnce, HandledOnce, DeliveredIsAccounted
<1> QED
  BY <1>1, <1>3, <1>4 DEF IInv

LEMMA StepKeeps == IInv /\ [Next]_vars => IInv'
<1> SUFFICES ASSUME IInv, [Next]_vars PROVE IInv'
  OBVIOUS
<1>1. CASE Publish
  BY <1>1, PublishKeeps
<1>2. CASE \E i \in Instance : Crash(i)
  BY <1>2, CrashKeeps
<1>3. ASSUME NEW g \in Group, NEW i \in Instance,
             Subscribe(g, i) \/ Consume(g, i) \/ ConsumerFails(g, i)
      PROVE  IInv'
  <2>1. CASE Subscribe(g, i)
    BY <2>1, SubscribeKeeps
  <2>2. CASE Read(g, i)
    BY <2>2, ReadKeeps
  <2>3. CASE Retry(g, i)
    BY <2>3, RetryKeeps
  <2>4. CASE Handle(g, i)
    BY <2>4, HandleKeeps
  <2>5. CASE ReadFails(g, i)
    BY <2>5, ReadFailsKeeps
  <2>6. CASE Ack(g, i) \/ AckFails(g, i)
    BY <2>6, MovesOn DEF Ack, AckFails
  <2>7. CASE HandlerThrows(g, i)
    BY <2>7, MovesOn DEF HandlerThrows, redis
  <2> QED
    BY <1>3, <2>1, <2>2, <2>3, <2>4, <2>5, <2>6, <2>7 DEF Consume, ConsumerFails
<1>4. CASE UNCHANGED vars
  BY <1>4 DEF vars, redis, IInv, TypeOK, Consecutive, Given, Apart, Fresh, Handed, Unborn,
              HandedOutOnce, HandledOnce, DeliveredIsAccounted, Received, First, Final, Left
<1> QED
  BY <1>1, <1>2, <1>3, <1>4 DEF Next

(* The inductive invariant, of every behaviour of the bus. *)
THEOREM Invariance == Spec => []IInv
BY InitHolds, StepKeeps, PTL DEF Spec

(* The cursors of the groups stay within the stream, and a read loop holds *)
(* a batch exactly while it handles or acknowledges one of its entries.    *)
THEOREM TypeCorrect == Spec => []TypeOK
<1>1. IInv => TypeOK
  BY DEF IInv
<1> QED
  BY <1>1, Invariance, PTL

(* EventBusService: whatever fails, a group's handlers see an entry at     *)
(* most once, and one they did not finish stays pending until it is        *)
(* trimmed from the stream.                                                *)
THEOREM HandedOut == Spec => []HandedOutOnce
<1>1. IInv => HandedOutOnce
  BY DEF IInv
<1> QED
  BY <1>1, Invariance, PTL

-----------------------------------------------------------------------------
(* The workflow engine.                                                    *)

(* Facts the engine is done with, and those of them no crash cut off.      *)
Behind    == cursor - Len(facts)
Passed(e) == e \notin lost /\ \E i \in 1..Behind : stream[i] = e

ReplySteps == {"notify", "ai", "review", "handOver", "call"}
AlertSteps == {"inApp", "dispatch", "execute"}
Alerts     == {"messageAlert", "priceAlert"}

(* Workflow w is running for fact e.                                       *)
InHand(e, w) == step # "next" /\ Head(facts) = e /\ registered[at] = w

EngineShape ==
  /\ ~up => registered = <<>> /\ facts = <<>>
  /\ facts = <<>> => at = 0 /\ step = "next"
  /\ \A i, j \in 1..Len(registered) : registered[i] = registered[j] => i = j
  /\ step # "next" =>
       /\ at \in 1..Len(registered) /\ W!Triggers(registered[at], Head(facts))
       /\ step \in ReplySteps <=> registered[at] = "reply"

(* A fact is published once, and the batch is what the cursor passed last. *)
GroupShape ==
  /\ \A i, j \in 1..Len(stream) : stream[i] = stream[j] => i = j
  /\ Len(facts) <= cursor
  /\ \A k \in 1..Len(facts) : facts[k] = stream[Behind + k]
  /\ \A e \in lost : \E i \in 1..Behind : stream[i] = e

(* Workflows were tried for the facts passed and for the one in hand only: *)
(* for that, those that it triggers up to the one that runs or ran last.   *)
TriedSoFar ==
  /\ \A e \in W!Fact :
       (\A i \in 1..Behind : stream[i] # e) /\ (facts # <<>> => e # Head(facts))
         => attempted[e] = {}
  /\ facts # <<>> =>
       attempted[Head(facts)] =
         {registered[i] : i \in {i \in 1..at : W!Triggers(registered[i], Head(facts))}}
  /\ \A e \in W!Fact : \A w \in attempted[e] : W!Triggers(w, e)

(* Until every hook has run, all facts still to be read are early.         *)
EarlyCovered ==
  up /\ ~W!Complete => \A i \in (Behind + 1)..Len(stream) : stream[i] \in early

PassedAreTried ==
  \A e \in W!Fact : Passed(e) =>
    /\ \A w \in offered[e] : W!Triggers(w, e) => w \in attempted[e]
    /\ e \notin early => \A w \in W!Workflow : W!Triggers(w, e) => w \in attempted[e]

(* What a reply has written so far...                                      *)
ReplyRows ==
  \A e \in W!Fact :
    LET r == rows[e] IN
    /\ r.tasks <= 1 /\ r.tasks <= r.notes /\ r.notes <= 1 + r.tasks
    /\ "reply" \notin attempted[e] => r.notes = 0
    /\ InHand(e, "reply") =>
         /\ r.notes = IF step = "notify" THEN 0 ELSE 1
         /\ r.tasks = IF step = "call" THEN 1 ELSE 0
    /\ "reply" \in attempted[e] \ failed[e] /\ e \notin lost /\ ~InHand(e, "reply") =>
         r.tasks = 1

(* ... and an alert, of which a fact triggers one.                         *)
AlertRows ==
  \A e \in W!Fact :
    LET r == rows[e] IN
    /\ r.inApp <= 1 /\ r.executed <= r.dispatched /\ r.dispatched <= 1
    /\ attempted[e] \cap Alerts = {} => r.inApp = 0 /\ r.dispatched = 0
    /\ \A w \in Alerts : InHand(e, w) =>
         /\ step = "inApp" => r.inApp = 0
         /\ r.dispatched = IF step = "execute" THEN 1 ELSE 0
         /\ r.executed = 0
    /\ \A w \in Alerts \cap (attempted[e] \ failed[e]) :
         e \notin lost /\ ~InHand(e, w) => r.executed = 1

EngineInv ==
  /\ W!TypeOK /\ EngineShape /\ GroupShape /\ TriedSoFar /\ EarlyCovered /\ PassedAreTried
  /\ ReplyRows /\ AlertRows

LEMMA WorkflowIs == W!Workflow = {"reply", "messageAlert", "priceAlert"}
<1>1. W!ToSet(<<"reply">>) = {"reply"}
  BY DEF W!ToSet
<1>2. W!ToSet(<<"messageAlert", "priceAlert">>) = {"messageAlert", "priceAlert"}
  BY DEF W!ToSet
<1> QED
  BY <1>1, <1>2 DEF W!Workflow, W!Hooks

(* The fact in hand is the first of the batch, and is not passed.          *)
LEMMA HeadIsNext ==
  ASSUME W!TypeOK, GroupShape, facts # <<>>
  PROVE  /\ Head(facts) = facts[1] /\ Len(facts) \in Nat \ {0}
         /\ Behind \in Nat /\ Behind + 1 <= Len(stream) /\ cursor <= Len(stream)
         /\ Head(facts) = stream[Behind + 1]
         /\ \A i \in 1..Behind : stream[i] # Head(facts)
         /\ Head(facts) \notin lost /\ Head(facts) \in W!Fact /\ ~Passed(Head(facts))
<1>1. Head(facts) = facts[1] /\ Len(facts) \in Nat \ {0} /\ Len(stream) \in Nat /\ cursor \in Nat
  BY EmptySeq DEF W!TypeOK
<1>2. Behind \in Nat /\ Behind + 1 <= Len(stream) /\ cursor <= Len(stream)
  BY <1>1 DEF W!TypeOK, GroupShape, Behind
<1>3. Head(facts) = stream[Behind + 1]
  BY <1>1 DEF GroupShape
<1>4. \A i \in 1..Behind : stream[i] # Head(facts)
  BY <1>2, <1>1, <1>3 DEF GroupShape
<1>5. Head(facts) \notin lost
  BY <1>4 DEF GroupShape
<1>6. Head(facts) \in W!Fact
  BY <1>1 DEF W!TypeOK
<1> QED
  BY <1>1, <1>2, <1>3, <1>4, <1>5, <1>6 DEF Passed

(* A step of the workflow that runs, which touches nothing but its rows,   *)
(* its failure and where it is.                                            *)
Runs == /\ step # "next"
        /\ UNCHANGED <<stream, cursor, facts, up, registered, at, attempted, offered, lost, early>>

LEMMA RunKeeps ==
  ASSUME EngineInv, Runs
  PROVE  GroupShape' /\ TriedSoFar' /\ EarlyCovered' /\ PassedAreTried'
<1>1. GroupShape'
  BY DEF EngineInv, Runs, GroupShape, Behind
<1>2. TriedSoFar'
  BY DEF EngineInv, Runs, TriedSoFar, Behind, W!Fact, W!Triggers
<1>3. EarlyCovered'
  BY DEF EngineInv, Runs, EarlyCovered, Behind, W!Complete, W!ToSet, W!Workflow, W!Hooks
<1>4. PassedAreTried'
  BY DEF EngineInv, Runs, PassedAreTried, Passed, Behind, W!Fact, W!Triggers, W!Workflow, W!Hooks, W!ToSet
<1> QED
  BY <1>1, <1>2, <1>3, <1>4

(* The workflow in hand was tried, and is the only one of its kind.        *)
LEMMA InHandTried ==
  ASSUME EngineInv, step # "next"
  PROVE  /\ facts # <<>> /\ at \in 1..Len(registered)
         /\ registered[at] \in W!Workflow /\ W!Triggers(registered[at], Head(facts))
         /\ registered[at] \in attempted[Head(facts)]
         /\ \A e, w : InHand(e, w) <=> e = Head(facts) /\ w = registered[at]
         /\ \A w \in attempted[Head(facts)] \cap Alerts :
              registered[at] \in Alerts => w = registered[at]
<1>1. facts # <<>> /\ at \in 1..Len(registered) /\ W!Triggers(registered[at], Head(facts))
  BY DEF EngineInv, EngineShape
<1>2. registered[at] \in W!Workflow
  BY <1>1 DEF EngineInv, W!TypeOK
<1>3. registered[at] \in attempted[Head(facts)]
  BY <1>1 DEF EngineInv, TriedSoFar
<1>4. Head(facts) \in W!Fact
  BY <1>1, HeadIsNext DEF EngineInv
<1>5. \A w \in attempted[Head(facts)] \cap Alerts : registered[at] \in Alerts => w = registered[at]
  <2>1. \A w \in attempted[Head(facts)] : W!Triggers(w, Head(facts))
    BY <1>4 DEF EngineInv, TriedSoFar
  <2>2. Head(facts) \in Message => Head(facts) \notin Price
    BY BusAssumption DEF W!WorkflowsAssumption
  <2> QED
    BY <2>1, <2>2, <1>1 DEF W!Triggers, Alerts
<1> QED
  BY <1>1, <1>2, <1>3, <1>5 DEF InHand

LEMMA RunShape ==
  ASSUME EngineInv, Runs, \/ step' = "next"
                          \/ {step, step'} \subseteq ReplySteps
                          \/ {step, step'} \subseteq AlertSteps
  PROVE  EngineShape'
<1>1. facts # <<>> /\ at \in 1..Len(registered)
  BY InHandTried DEF Runs
<1>2. "next" \notin ReplySteps \cup AlertSteps /\ ReplySteps \cap AlertSteps = {}
  BY DEF ReplySteps, AlertSteps
<1> QED
  BY <1>1, <1>2 DEF EngineInv, EngineShape, Runs, W!Triggers

RowFields == {"notes", "tasks", "inApp", "dispatched", "executed"}

(* A step of a workflow writes a row, or rejects.                          *)
LEMMA StillTyped ==
  ASSUME W!TypeOK,
         UNCHANGED <<stream, cursor, facts, up, registered, at, attempted, offered, lost, early, crashes>>,
         rows' \in [W!Fact -> W!Row], failed' \in [W!Fact -> SUBSET W!Workflow],
         step' \in W!Step, faults' \in 0..MaxFaults
  PROVE  W!TypeOK'
<1>1. /\ stream \in Seq(W!Fact) /\ cursor \in 0..Len(stream)
      /\ facts \in Seq(W!Fact) /\ Len(facts) <= BatchSize
      /\ up \in BOOLEAN
      /\ registered \in Seq(W!Workflow) /\ at \in 0..Len(registered)
      /\ attempted \in [W!Fact -> SUBSET W!Workflow] /\ offered \in [W!Fact -> SUBSET W!Workflow]
      /\ lost \subseteq W!Fact /\ early \subseteq W!Fact
      /\ crashes \in 0..MaxCrashes
  BY DEF W!TypeOK
<1>2. (/\ stream \in Seq(W!Fact) /\ cursor \in 0..Len(stream)
       /\ facts \in Seq(W!Fact) /\ Len(facts) <= BatchSize
       /\ up \in BOOLEAN
       /\ lost \subseteq W!Fact /\ early \subseteq W!Fact
       /\ crashes \in 0..MaxCrashes /\ faults \in 0..MaxFaults)'
  BY <1>1 DEF W!Fact
<1>3. (registered \in Seq(W!Workflow) /\ at \in 0..Len(registered) /\ step \in W!Step)'
  BY <1>1 DEF W!Workflow, W!Hooks, W!ToSet, W!Step
<1>4. (/\ {attempted, failed, offered} \subseteq [W!Fact -> SUBSET W!Workflow])'
  BY <1>1 DEF W!Fact, W!Workflow, W!Hooks, W!ToSet
<1>5. (rows \in [W!Fact -> W!Row])'
  BY DEF W!Fact, W!Row
<1> QED
  BY <1>2, <1>3, <1>4, <1>5 DEF W!TypeOK

LEMMA Wrote ==
  ASSUME EngineInv, NEW from \in W!Step \ {"next"}, NEW field \in RowFields, NEW to \in W!Step,
         W!Write(from, field, to)
  PROVE  /\ Runs /\ step = from /\ step' = to /\ failed' = failed
         /\ W!TypeOK'
         /\ \A e \in W!Fact \ {Head(facts)} : rows'[e] = rows[e]
         /\ Head(facts) \in W!Fact
         /\ rows[Head(facts)] \in W!Row
         /\ rows'[Head(facts)] = [rows[Head(facts)] EXCEPT ![field] = @ + 1]
<1>1. Runs /\ step = from /\ step' = to /\ failed' = failed
  BY DEF W!Write, W!group, W!history, Runs
<1>2. facts # <<>>
  BY <1>1 DEF EngineInv, EngineShape
<1>3. Head(facts) \in W!Fact
  BY <1>2, HeadIsNext DEF EngineInv
<1>4. rows \in [W!Fact -> W!Row]
  BY DEF EngineInv, W!TypeOK
<1>5. rows' = [rows EXCEPT ![Head(facts)][field] = @ + 1]
  BY DEF W!Write, W!Event
<1>6. [rows[Head(facts)] EXCEPT ![field] = @ + 1] \in W!Row
  BY <1>3, <1>4 DEF W!Row, RowFields
<1>7. rows' \in [W!Fact -> W!Row]
  BY <1>3, <1>4, <1>5, <1>6
<1>8. W!TypeOK'
  <2>1. /\ UNCHANGED <<stream, cursor, facts, up, registered, at, attempted, offered, lost, early, crashes>>
        /\ UNCHANGED <<failed, faults>>
    BY DEF W!Write, W!group, W!history
  <2>2. failed \in [W!Fact -> SUBSET W!Workflow] /\ faults \in 0..MaxFaults /\ W!TypeOK
    BY DEF EngineInv, W!TypeOK
  <2> QED
    BY <1>1, <1>7, <2>1, <2>2, StillTyped
<1> QED
  BY <1>1, <1>3, <1>4, <1>5, <1>7, <1>8

(* The rows of the other facts are as they were.                           *)
LEMMA OtherRows ==
  ASSUME EngineInv, Runs, facts # <<>>, NEW e \in W!Fact \ {Head(facts)},
         rows'[e] = rows[e], failed'[e] = failed[e]
  PROVE  /\ "reply" \notin attempted'[e] => rows'[e].notes = 0
         /\ rows'[e].tasks <= 1 /\ rows'[e].tasks <= rows'[e].notes /\ rows'[e].notes <= 1 + rows'[e].tasks
         /\ "reply" \in attempted'[e] \ failed'[e] /\ e \notin lost' => rows'[e].tasks = 1
         /\ rows'[e].inApp <= 1 /\ rows'[e].executed <= rows'[e].dispatched /\ rows'[e].dispatched <= 1
         /\ attempted'[e] \cap Alerts = {} => rows'[e].inApp = 0 /\ rows'[e].dispatched = 0
         /\ \A w \in Alerts \cap (attempted'[e] \ failed'[e]) : e \notin lost' => rows'[e].executed = 1
         /\ \A w : ~InHand(e, w)'
<1>1. \A w : ~InHand(e, w) /\ ~InHand(e, w)'
  BY DEF InHand, Runs
<1> QED
  BY <1>1 DEF EngineInv, Runs, ReplyRows, AlertRows

(* A step of the reply.                                                    *)
LEMMA ReplyWrote ==
  ASSUME EngineInv, Runs, step \in ReplySteps, step' \in ReplySteps \cup {"next"}, W!TypeOK',
         \A e \in W!Fact \ {Head(facts)} : rows'[e] = rows[e] /\ failed'[e] = failed[e],
         NEW r, r = rows[Head(facts)], NEW s, s = rows'[Head(facts)],
         s.inApp = r.inApp /\ s.dispatched = r.dispatched /\ s.executed = r.executed,
         failed'[Head(facts)] \in {failed[Head(facts)], failed[Head(facts)] \cup {"reply"}},
         s.tasks <= 1 /\ s.tasks <= s.notes /\ s.notes <= 1 + s.tasks,
         IF step' = "next"
         THEN s.tasks = 1 \/ "reply" \in failed'[Head(facts)]
         ELSE /\ s.notes = IF step' = "notify" THEN 0 ELSE 1
              /\ s.tasks = IF step' = "call" THEN 1 ELSE 0
  PROVE  EngineInv'
<1>1. /\ facts # <<>> /\ registered[at] = "reply" /\ "reply" \in attempted[Head(facts)]
      /\ Head(facts) \in W!Fact
  BY InHandTried, HeadIsNext DEF Runs, EngineInv, EngineShape
<1>2. EngineShape'
  BY RunShape
<1>3. ReplyRows'
  <2> SUFFICES ASSUME NEW e \in W!Fact
               PROVE  LET t == rows'[e] IN
                      /\ t.tasks <= 1 /\ t.tasks <= t.notes /\ t.notes <= 1 + t.tasks
                      /\ "reply" \notin attempted'[e] => t.notes = 0
                      /\ InHand(e, "reply")' =>
                           /\ t.notes = IF step' = "notify" THEN 0 ELSE 1
                           /\ t.tasks = IF step' = "call" THEN 1 ELSE 0
                      /\ "reply" \in attempted'[e] \ failed'[e] /\ e \notin lost' /\ ~InHand(e, "reply")' =>
                           t.tasks = 1
    BY DEF ReplyRows, W!Fact
  <2>1. CASE e = Head(facts)
    BY <2>1, <1>1 DEF InHand, Runs
  <2>2. CASE e # Head(facts)
    BY <2>2, <1>1, OtherRows
  <2> QED
    BY <2>1, <2>2
<1>4. AlertRows'
  <2> SUFFICES ASSUME NEW e \in W!Fact
               PROVE  LET t == rows'[e] IN
                      /\ t.inApp <= 1 /\ t.executed <= t.dispatched /\ t.dispatched <= 1
                      /\ attempted'[e] \cap Alerts = {} => t.inApp = 0 /\ t.dispatched = 0
                      /\ \A w \in Alerts : InHand(e, w)' =>
                           /\ step' = "inApp" => t.inApp = 0
                           /\ t.dispatched = IF step' = "execute" THEN 1 ELSE 0
                           /\ t.executed = 0
                      /\ \A w \in Alerts \cap (attempted'[e] \ failed'[e]) :
                           e \notin lost' /\ ~InHand(e, w)' => t.executed = 1
    BY DEF AlertRows, W!Fact
  <2>1. CASE e = Head(facts)
    <3>1. \A w \in Alerts : ~InHand(e, w) /\ ~InHand(e, w)'
      BY <1>1 DEF InHand, Runs, Alerts
    <3>2. failed'[e] \cap Alerts = failed[e] \cap Alerts
      BY <2>1 DEF Alerts
    <3> QED
      BY <2>1, <1>1, <3>1, <3>2 DEF EngineInv, AlertRows, Runs
  <2>2. CASE e # Head(facts)
    BY <2>2, <1>1, OtherRows
  <2> QED
    BY <2>1, <2>2
<1> QED
  BY <1>2, <1>3, <1>4, RunKeeps DEF EngineInv

(* A step of an alert.                                                     *)
LEMMA AlertWrote ==
  ASSUME EngineInv, Runs, step \in AlertSteps, step' \in AlertSteps \cup {"next"}, W!TypeOK',
         \A e \in W!Fact \ {Head(facts)} : rows'[e] = rows[e] /\ failed'[e] = failed[e],
         NEW r, r = rows[Head(facts)], NEW s, s = rows'[Head(facts)],
         s.notes = r.notes /\ s.tasks = r.tasks,
         failed'[Head(facts)] \in {failed[Head(facts)], failed[Head(facts)] \cup {registered[at]}},
         s.inApp <= 1 /\ s.executed <= s.dispatched /\ s.dispatched <= 1,
         IF step' = "next"
         THEN s.executed = 1 \/ registered[at] \in failed'[Head(facts)]
         ELSE /\ step' = "inApp" => s.inApp = 0
              /\ s.dispatched = IF step' = "execute" THEN 1 ELSE 0
              /\ s.executed = 0
  PROVE  EngineInv'
<1>1. /\ facts # <<>> /\ registered[at] \in Alerts /\ registered[at] \in attempted[Head(facts)]
      /\ Head(facts) \in W!Fact /\ registered[at] # "reply"
      /\ \A w \in attempted[Head(facts)] \cap Alerts : w = registered[at]
  <2>1. registered[at] # "reply"
    BY DEF EngineInv, EngineShape, Runs, ReplySteps, AlertSteps
  <2>2. registered[at] \in Alerts
    BY <2>1, InHandTried, WorkflowIs DEF Runs, Alerts
  <2> QED
    BY <2>1, <2>2, InHandTried, HeadIsNext DEF Runs, EngineInv
<1>2. EngineShape'
  BY RunShape
<1>3. ReplyRows'
  <2> SUFFICES ASSUME NEW e \in W!Fact
               PROVE  LET t == rows'[e] IN
                      /\ t.tasks <= 1 /\ t.tasks <= t.notes /\ t.notes <= 1 + t.tasks
                      /\ "reply" \notin attempted'[e] => t.notes = 0
                      /\ InHand(e, "reply")' =>
                           /\ t.notes = IF step' = "notify" THEN 0 ELSE 1
                           /\ t.tasks = IF step' = "call" THEN 1 ELSE 0
                      /\ "reply" \in attempted'[e] \ failed'[e] /\ e \notin lost' /\ ~InHand(e, "reply")' =>
                           t.tasks = 1
    BY DEF ReplyRows, W!Fact
  <2>1. CASE e = Head(facts)
    <3>1. ~InHand(e, "reply") /\ ~InHand(e, "reply")'
      BY <1>1 DEF InHand, Runs
    <3>2. "reply" \in failed'[e] <=> "reply" \in failed[e]
      BY <2>1, <1>1
    <3> QED
      BY <2>1, <1>1, <3>1, <3>2 DEF EngineInv, ReplyRows, Runs
  <2>2. CASE e # Head(facts)
    BY <2>2, <1>1, OtherRows
  <2> QED
    BY <2>1, <2>2
<1>4. AlertRows'
  <2> SUFFICES ASSUME NEW e \in W!Fact
               PROVE  LET t == rows'[e] IN
                      /\ t.inApp <= 1 /\ t.executed <= t.dispatched /\ t.dispatched <= 1
                      /\ attempted'[e] \cap Alerts = {} => t.inApp = 0 /\ t.dispatched = 0
                      /\ \A w \in Alerts : InHand(e, w)' =>
                           /\ step' = "inApp" => t.inApp = 0
                           /\ t.dispatched = IF step' = "execute" THEN 1 ELSE 0
                           /\ t.executed = 0
                      /\ \A w \in Alerts \cap (attempted'[e] \ failed'[e]) :
                           e \notin lost' /\ ~InHand(e, w)' => t.executed = 1
    BY DEF AlertRows, W!Fact
  <2>1. CASE e = Head(facts)
    BY <2>1, <1>1 DEF InHand, Runs
  <2>2. CASE e # Head(facts)
    BY <2>2, <1>1, OtherRows
  <2> QED
    BY <2>1, <2>2
<1> QED
  BY <1>2, <1>3, <1>4, RunKeeps DEF EngineInv

(* A set of numbers has a smallest element.                                *)
LEMMA SmallestIndex ==
  ASSUME NEW S \in SUBSET Nat, S # {}
  PROVE  \E i \in S : \A j \in S : i <= j
<1>1. IsWellFoundedOn(OpToRel(<, Nat), Nat)
  BY NatLessThanWellFounded DEF OpToRel
<1>2. PICK i \in S : \A j \in S : ~(<<j, i>> \in OpToRel(<, Nat))
  BY <1>1, WFMin
<1>3. \A j \in S : ~(j < i)
  BY <1>2 DEF OpToRel
<1> QED
  BY <1>3

LEMMA Bounds == MaxCrashes \in Nat /\ MaxFaults \in Nat
BY BusAssumption DEF W!WorkflowsAssumption

LEMMA OneMoreFault ==
  ASSUME W!TypeOK, faults < MaxFaults, faults' = faults + 1
  PROVE  faults' \in 0..MaxFaults
BY Bounds DEF W!TypeOK

LEMMA StepNames ==
  /\ W!Step = ReplySteps \cup AlertSteps \cup {"next"}
  /\ "next" \notin ReplySteps \cup AlertSteps /\ ReplySteps \cap AlertSteps = {}
BY DEF W!Step, ReplySteps, AlertSteps

(* What is known of the rows of the fact in hand.                          *)
LEMMA RowInHand ==
  ASSUME EngineInv, step # "next", NEW r, r = rows[Head(facts)]
  PROVE  /\ r \in W!Row
         /\ r.tasks <= 1 /\ r.tasks <= r.notes /\ r.notes <= 1 + r.tasks
         /\ r.inApp <= 1 /\ r.executed <= r.dispatched /\ r.dispatched <= 1
         /\ step \in ReplySteps => /\ r.notes = IF step = "notify" THEN 0 ELSE 1
                                   /\ r.tasks = IF step = "call" THEN 1 ELSE 0
         /\ step \in AlertSteps => /\ step = "inApp" => r.inApp = 0
                                   /\ r.dispatched = IF step = "execute" THEN 1 ELSE 0
                                   /\ r.executed = 0
<1>1. Head(facts) \in W!Fact /\ r \in W!Row
  BY InHandTried, HeadIsNext DEF EngineInv, W!TypeOK
<1>2. step \in ReplySteps => InHand(Head(facts), "reply")
  BY InHandTried DEF EngineInv, EngineShape
<1>3. step \in AlertSteps => \E w \in Alerts : InHand(Head(facts), w)
  BY InHandTried, WorkflowIs, StepNames DEF EngineInv, EngineShape, Alerts
<1> QED
  BY <1>1, <1>2, <1>3 DEF EngineInv, ReplyRows, AlertRows

(* The workflow that runs rejects.                                         *)
LEMMA Caught ==
  ASSUME EngineInv, W!Catch, rows' \in [W!Fact -> W!Row]
  PROVE  /\ Runs /\ step' = "next" /\ W!TypeOK'
         /\ failed'[Head(facts)] = failed[Head(facts)] \cup {registered[at]}
         /\ \A e \in W!Fact \ {Head(facts)} : failed'[e] = failed[e]
<1>1. Runs /\ step' = "next"
      /\ failed' = [failed EXCEPT ![Head(facts)] = @ \cup {registered[at]}]
  BY DEF W!Catch, Runs, W!group, W!Event, W!Running
<1>2. facts # <<>> /\ Head(facts) \in W!Fact /\ registered[at] \in W!Workflow
  BY <1>1, InHandTried, HeadIsNext DEF Runs, EngineInv
<1>3. failed \in [W!Fact -> SUBSET W!Workflow]
  BY DEF EngineInv, W!TypeOK
<1>4. failed' \in [W!Fact -> SUBSET W!Workflow]
      /\ failed'[Head(facts)] = failed[Head(facts)] \cup {registered[at]}
      /\ \A e \in W!Fact \ {Head(facts)} : failed'[e] = failed[e]
  BY <1>1, <1>2, <1>3
<1>5. W!TypeOK'
  <2>1. W!TypeOK /\ faults' \in 0..MaxFaults /\ crashes' = crashes
    BY OneMoreFault DEF EngineInv, W!Catch
  <2>2. step' \in W!Step
    BY <1>1 DEF W!Step
  <2>3. UNCHANGED <<stream, cursor, facts, up, registered, at, attempted, offered, lost, early, crashes>>
    BY DEF W!Catch, W!group
  <2> QED
    BY <1>4, <2>1, <2>2, <2>3, StillTyped
<1> QED
  BY <1>1, <1>4, <1>5

(* ... after its last row was written.                                     *)
LEMMA CaughtLate ==
  ASSUME EngineInv, NEW field \in RowFields, W!Catch,
         rows' = [rows EXCEPT ![W!Event][field] = @ + 1]
  PROVE  /\ Runs /\ step' = "next" /\ W!TypeOK'
         /\ failed'[Head(facts)] = failed[Head(facts)] \cup {registered[at]}
         /\ \A e \in W!Fact \ {Head(facts)} : rows'[e] = rows[e] /\ failed'[e] = failed[e]
         /\ rows[Head(facts)] \in W!Row
         /\ rows'[Head(facts)] = [rows[Head(facts)] EXCEPT ![field] = @ + 1]
<1>1. facts # <<>> /\ Head(facts) \in W!Fact
  BY InHandTried, HeadIsNext DEF W!Catch, EngineInv
<1>2. rows \in [W!Fact -> W!Row] /\ rows' = [rows EXCEPT ![Head(facts)][field] = @ + 1]
  BY DEF EngineInv, W!TypeOK, W!Event
<1>3. [rows[Head(facts)] EXCEPT ![field] = @ + 1] \in W!Row
  <2>1. rows[Head(facts)] \in W!Row
    BY <1>1, <1>2
  <2> QED
    BY <2>1 DEF W!Row, RowFields
<1>4. rows' \in [W!Fact -> W!Row]
  BY <1>1, <1>2, <1>3
<1> QED
  BY <1>1, <1>2, <1>4, Caught

LEMMA NotifyInboxStep == ASSUME EngineInv, W!NotifyInbox PROVE EngineInv'
<1> USE DEF ReplySteps
<1>1. W!Write("notify", "notes", "ai")
  BY DEF W!NotifyInbox
<1>2. step = "notify" /\ Runs /\ step' = "ai"
  BY <1>1, Wrote DEF W!Step, RowFields
<1> QED
  BY <1>1, <1>2, Wrote, RowInHand, ReplyWrote DEF W!Step, RowFields, W!Row

LEMMA CreateReviewTaskStep == ASSUME EngineInv, W!CreateReviewTask PROVE EngineInv'
<1> USE DEF ReplySteps
<1>1. CASE W!Write("review", "tasks", "next")
  <2>1. step = "review" /\ Runs /\ step' = "next"
    BY <1>1, Wrote DEF W!Step, RowFields
  <2> QED
    BY <1>1, <2>1, Wrote, RowInHand, ReplyWrote DEF W!Step, RowFields, W!Row
<1>2. CASE step = "review" /\ W!Catch /\ rows' = [rows EXCEPT ![W!Event]["tasks"] = @ + 1]
  <2>1. Runs /\ registered[at] = "reply"
    BY <1>2, CaughtLate DEF RowFields, EngineInv, EngineShape, Runs
  <2> QED
    BY <1>2, <2>1, CaughtLate, RowInHand, ReplyWrote DEF RowFields, W!Row
<1> QED
  BY <1>1, <1>2 DEF W!CreateReviewTask, W!WriteLast

LEMMA CreateManagerTaskStep == ASSUME EngineInv, W!CreateManagerTask PROVE EngineInv'
<1> USE DEF ReplySteps
<1>1. W!Write("handOver", "tasks", "call")
  BY DEF W!CreateManagerTask
<1>2. step = "handOver" /\ Runs /\ step' = "call"
  BY <1>1, Wrote DEF W!Step, RowFields
<1> QED
  BY <1>1, <1>2, Wrote, RowInHand, ReplyWrote DEF W!Step, RowFields, W!Row

LEMMA NotifyManagerStep == ASSUME EngineInv, W!NotifyManager PROVE EngineInv'
<1> USE DEF ReplySteps
<1>1. CASE W!Write("call", "notes", "next")
  <2>1. step = "call" /\ Runs /\ step' = "next"
    BY <1>1, Wrote DEF W!Step, RowFields
  <2> QED
    BY <1>1, <2>1, Wrote, RowInHand, ReplyWrote DEF W!Step, RowFields, W!Row
<1>2. CASE step = "call" /\ W!Catch /\ rows' = [rows EXCEPT ![W!Event]["notes"] = @ + 1]
  <2>1. Runs /\ registered[at] = "reply"
    BY <1>2, CaughtLate DEF RowFields, EngineInv, EngineShape, Runs
  <2> QED
    BY <1>2, <2>1, CaughtLate, RowInHand, ReplyWrote DEF RowFields, W!Row
<1> QED
  BY <1>1, <1>2 DEF W!NotifyManager, W!WriteLast

LEMMA DraftStep == ASSUME EngineInv, W!Draft PROVE EngineInv'
<1> USE DEF ReplySteps
<1>1. Runs /\ step = "ai" /\ step' \in {"review", "handOver"} /\ rows' = rows /\ failed' = failed
  BY DEF W!Draft, Runs, W!group, W!history
<1>2. W!TypeOK'
  BY <1>1 DEF EngineInv, W!TypeOK, W!Draft, W!group, W!history, W!Fact, W!Row, W!Step, W!Workflow, W!Hooks, W!ToSet
<1> QED
  BY <1>1, <1>2, RowInHand, ReplyWrote

LEMMA InAppStep == ASSUME EngineInv, W!InApp PROVE EngineInv'
<1> USE DEF AlertSteps
<1>1. CASE W!Write("inApp", "inApp", "dispatch")
  <2>1. step = "inApp" /\ Runs /\ step' = "dispatch"
    BY <1>1, Wrote DEF W!Step, RowFields
  <2> QED
    BY <1>1, <2>1, Wrote, RowInHand, AlertWrote DEF W!Step, RowFields, W!Row
<1>2. CASE /\ step = "inApp" /\ step' = "dispatch"
           /\ faults < MaxFaults /\ faults' = faults + 1
           /\ UNCHANGED <<W!group, up, registered, at, rows, W!history, crashes>>
  <2>1. Runs /\ rows' = rows /\ failed' = failed
    BY <1>2 DEF Runs, W!group, W!history
  <2>2. W!TypeOK'
    BY <1>2, OneMoreFault DEF EngineInv, W!TypeOK, W!group, W!history, W!Fact, W!Row, W!Step, W!Workflow, W!Hooks, W!ToSet
  <2> QED
    BY <1>2, <2>1, <2>2, RowInHand, AlertWrote
<1> QED
  BY <1>1, <1>2 DEF W!InApp

LEMMA PublishDispatchedStep == ASSUME EngineInv, W!PublishDispatched PROVE EngineInv'
<1> USE DEF AlertSteps
<1>1. W!Write("dispatch", "dispatched", "execute")
  BY DEF W!PublishDispatched
<1>2. step = "dispatch" /\ Runs /\ step' = "execute"
  BY <1>1, Wrote DEF W!Step, RowFields
<1> QED
  BY <1>1, <1>2, Wrote, RowInHand, AlertWrote DEF W!Step, RowFields, W!Row

LEMMA PublishExecutedStep == ASSUME EngineInv, W!PublishExecuted PROVE EngineInv'
<1> USE DEF AlertSteps
<1>1. CASE W!Write("execute", "executed", "next")
  <2>1. step = "execute" /\ Runs /\ step' = "next"
    BY <1>1, Wrote DEF W!Step, RowFields
  <2> QED
    BY <1>1, <2>1, Wrote, RowInHand, AlertWrote DEF W!Step, RowFields, W!Row
<1>2. CASE step = "execute" /\ W!Catch /\ rows' = [rows EXCEPT ![W!Event]["executed"] = @ + 1]
  <2>1. Runs
    BY <1>2, CaughtLate DEF RowFields
  <2> QED
    BY <1>2, <2>1, CaughtLate, RowInHand, AlertWrote DEF RowFields, W!Row
<1> QED
  BY <1>1, <1>2 DEF W!PublishExecuted, W!WriteLast

LEMMA WorkflowFailsStep == ASSUME EngineInv, W!WorkflowFails PROVE EngineInv'
<1>1. rows' = rows /\ W!Catch
  BY DEF W!WorkflowFails
<1>2. rows' \in [W!Fact -> W!Row]
  BY <1>1 DEF EngineInv, W!TypeOK
<1>3. /\ Runs /\ step' = "next" /\ W!TypeOK'
      /\ failed'[Head(facts)] = failed[Head(facts)] \cup {registered[at]}
      /\ \A e \in W!Fact \ {Head(facts)} : failed'[e] = failed[e]
  BY <1>1, <1>2, Caught
<1>4. CASE step \in ReplySteps
  <2>1. registered[at] = "reply"
    BY <1>3, <1>4 DEF EngineInv, EngineShape, Runs
  <2> QED
    BY <1>1, <1>3, <1>4, <2>1, RowInHand, ReplyWrote DEF Runs
<1>5. CASE step \in AlertSteps
  BY <1>1, <1>3, <1>5, RowInHand, AlertWrote DEF Runs
<1> QED
  BY <1>3, <1>4, <1>5, StepNames DEF EngineInv, W!TypeOK, Runs

(* Nothing runs and no row or trace changes.                               *)
LEMMA RowsRest ==
  ASSUME EngineInv, step' = "next", step = "next", UNCHANGED <<rows, attempted, failed, lost>>
  PROVE  ReplyRows' /\ AlertRows'
<1>1. \A e, w : ~InHand(e, w) /\ ~InHand(e, w)'
  BY DEF InHand
<1>2. ReplyRows'
  BY <1>1 DEF EngineInv, ReplyRows, W!Fact
<1>3. AlertRows'
  BY <1>1 DEF EngineInv, AlertRows, W!Fact
<1> QED
  BY <1>2, <1>3

(* The next workflow that the fact triggers is taken up.                   *)
LEMMA RunWorkflowStep == ASSUME EngineInv, W!RunWorkflow PROVE EngineInv'
<1> DEFINE e == Head(facts)
           M == W!Matching
<1>1. /\ facts # <<>> /\ step = "next" /\ M # {}
      /\ UNCHANGED <<stream, cursor, facts, up, registered, rows, failed, offered, lost, early, crashes, faults>>
  BY DEF W!RunWorkflow, W!group
<1>2. PICK i : /\ i \in M /\ \A j \in M : i <= j
               /\ at' = i /\ step' = W!FirstStep(registered[i])
               /\ attempted' = [attempted EXCEPT ![e] = @ \cup {registered[i]}]
  <2>1. M \subseteq Nat /\ M \in SUBSET Nat
    BY DEF W!Matching, EngineInv, W!TypeOK
  <2>2. \E i \in M : \A j \in M : i <= j
    BY <1>1, <2>1, SmallestIndex
  <2> QED
    BY <2>2 DEF W!RunWorkflow, W!Event
<1>3. /\ at \in 0..Len(registered) /\ i \in 1..Len(registered) /\ i > at
      /\ W!Triggers(registered[i], e) /\ registered[i] \in W!Workflow
      /\ \A j \in 1..Len(registered) : j > at /\ W!Triggers(registered[j], e) => i <= j
  BY <1>2 DEF W!Matching, W!Event, EngineInv, W!TypeOK
<1>4. e \in W!Fact /\ attempted \in [W!Fact -> SUBSET W!Workflow]
  BY <1>1, HeadIsNext DEF EngineInv, W!TypeOK
<1>5. /\ attempted' \in [W!Fact -> SUBSET W!Workflow]
      /\ attempted'[e] = attempted[e] \cup {registered[i]}
      /\ \A d \in W!Fact \ {e} : attempted'[d] = attempted[d]
  BY <1>2, <1>3, <1>4
<1>6. step' = IF registered[i] = "reply" THEN "notify" ELSE "inApp"
  BY <1>2 DEF W!FirstStep
<1>7. W!TypeOK'
  <2>1. step' \in W!Step
    BY <1>6 DEF W!Step
  <2>2. at' \in 0..Len(registered)
    BY <1>2, <1>3
  <2>3. W!TypeOK
    BY DEF EngineInv
  <2> QED
    BY <1>1, <1>5, <2>1, <2>2, <2>3 DEF W!TypeOK, W!Fact, W!Workflow, W!Hooks, W!ToSet, W!Row
<1>8. EngineShape'
  <2>1. EngineShape
    BY DEF EngineInv
  <2>2. step' \in ReplySteps <=> registered[i] = "reply"
    BY <1>6 DEF ReplySteps
  <2> QED
    BY <1>1, <1>2, <1>3, <2>1, <2>2 DEF EngineShape, W!Triggers
<1>9. GroupShape' /\ EarlyCovered'
  <2>1. W!Complete' <=> W!Complete
    BY <1>1 DEF W!Complete, W!ToSet, W!Workflow, W!Hooks
  <2>2. Behind' = Behind
    BY <1>1 DEF Behind
  <2>3. GroupShape'
    BY <1>1, <2>2 DEF EngineInv, GroupShape
  <2> QED
    BY <1>1, <2>1, <2>2, <2>3 DEF EngineInv, EarlyCovered
<1>10. TriedSoFar'
  <2>1. attempted[e] = {registered[j] : j \in {j \in 1..at : W!Triggers(registered[j], e)}}
    BY <1>1 DEF EngineInv, TriedSoFar
  <2>2. {j \in 1..i : W!Triggers(registered[j], e)} = {j \in 1..at : W!Triggers(registered[j], e)} \cup {i}
    BY <1>3
  <2>3. attempted'[e] = {registered[j] : j \in {j \in 1..i : W!Triggers(registered[j], e)}}
    BY <2>1, <2>2, <1>5
  <2>4. \A d \in W!Fact : \A w \in attempted'[d] : W!Triggers(w, d)
    BY <1>3, <1>5 DEF EngineInv, TriedSoFar
  <2>5. \A d \in W!Fact :
          (\A k \in 1..Behind : stream[k] # d) /\ (facts # <<>> => d # Head(facts)) => attempted'[d] = {}
    BY <1>1, <1>5 DEF EngineInv, TriedSoFar
  <2> QED
    BY <1>1, <1>2, <2>3, <2>4, <2>5 DEF TriedSoFar, Behind, W!Fact, W!Triggers
<1>11. PassedAreTried'
  <2>1. \A d : Passed(d)' <=> Passed(d)
    BY <1>1 DEF Passed, Behind
  <2>2. \A d \in W!Fact : attempted[d] \subseteq attempted'[d]
    BY <1>5
  <2>3. PassedAreTried
    BY DEF EngineInv
  <2> QED
    BY <1>1, <2>1, <2>2, <2>3 DEF PassedAreTried, W!Fact, W!Triggers, W!Workflow, W!Hooks, W!ToSet
<1>12. registered[i] \notin attempted[e]
  <2>1. \A j \in 1..at : registered[j] # registered[i]
    BY <1>3 DEF EngineInv, EngineShape
  <2>2. attempted[e] = {registered[j] : j \in {j \in 1..at : W!Triggers(registered[j], e)}}
    BY <1>1 DEF EngineInv, TriedSoFar
  <2> QED
    BY <2>1, <2>2
<1>13. registered[i] \in Alerts => attempted[e] \cap Alerts = {}
  <2>1. \A w \in attempted[e] : W!Triggers(w, e)
    BY <1>4 DEF EngineInv, TriedSoFar
  <2>2. Message \cap Price = {}
    BY BusAssumption DEF W!WorkflowsAssumption
  <2> QED
    BY <2>1, <2>2, <1>3, <1>12 DEF Alerts, W!Triggers
<1>14. registered[i] = "reply" \/ registered[i] \in Alerts
  BY <1>3, WorkflowIs DEF Alerts
<1>15. \A d, w : InHand(d, w)' <=> d = e /\ w = registered[i]
  BY <1>1, <1>2, <1>6 DEF InHand
<1>16. \A d, w : ~InHand(d, w)
  BY <1>1 DEF InHand
<1>17. ReplyRows'
  <2> SUFFICES ASSUME NEW d \in W!Fact
               PROVE  LET t == rows[d] IN
                      /\ t.tasks <= 1 /\ t.tasks <= t.notes /\ t.notes <= 1 + t.tasks
                      /\ "reply" \notin attempted'[d] => t.notes = 0
                      /\ InHand(d, "reply")' =>
                           /\ t.notes = IF step' = "notify" THEN 0 ELSE 1
                           /\ t.tasks = IF step' = "call" THEN 1 ELSE 0
                      /\ "reply" \in attempted'[d] \ failed[d] /\ d \notin lost /\ ~InHand(d, "reply")' =>
                           t.tasks = 1
    BY <1>1 DEF ReplyRows, W!Fact
  <2>1. /\ rows[d].tasks <= 1 /\ rows[d].tasks <= rows[d].notes /\ rows[d].notes <= 1 + rows[d].tasks
        /\ "reply" \notin attempted[d] => rows[d].notes = 0
        /\ "reply" \in attempted[d] \ failed[d] /\ d \notin lost => rows[d].tasks = 1
        /\ rows[d] \in W!Row
    BY <1>16 DEF EngineInv, ReplyRows, W!TypeOK
  <2>2. CASE d = e
    BY <2>1, <2>2, <1>5, <1>6, <1>12, <1>15 DEF W!Row
  <2>3. CASE d # e
    BY <2>1, <2>3, <1>5, <1>15
  <2> QED
    BY <2>2, <2>3
<1>18. AlertRows'
  <2> SUFFICES ASSUME NEW d \in W!Fact
               PROVE  LET t == rows[d] IN
                      /\ t.inApp <= 1 /\ t.executed <= t.dispatched /\ t.dispatched <= 1
                      /\ attempted'[d] \cap Alerts = {} => t.inApp = 0 /\ t.dispatched = 0
                      /\ \A w \in Alerts : InHand(d, w)' =>
                           /\ step' = "inApp" => t.inApp = 0
                           /\ t.dispatched = IF step' = "execute" THEN 1 ELSE 0
                           /\ t.executed = 0
                      /\ \A w \in Alerts \cap (attempted'[d] \ failed[d]) :
                           d \notin lost /\ ~InHand(d, w)' => t.executed = 1
    BY <1>1 DEF AlertRows, W!Fact
  <2>1. /\ rows[d].inApp <= 1 /\ rows[d].executed <= rows[d].dispatched /\ rows[d].dispatched <= 1
        /\ attempted[d] \cap Alerts = {} => rows[d].inApp = 0 /\ rows[d].dispatched = 0
        /\ \A w \in Alerts \cap (attempted[d] \ failed[d]) : d \notin lost => rows[d].executed = 1
        /\ rows[d] \in W!Row
    BY <1>16 DEF EngineInv, AlertRows, W!TypeOK
  <2>2. CASE d = e
    BY <2>1, <2>2, <1>5, <1>6, <1>13, <1>14, <1>15 DEF W!Row, Alerts
  <2>3. CASE d # e
    BY <2>1, <2>3, <1>5, <1>15
  <2> QED
    BY <2>2, <2>3
<1> QED
  BY <1>7, <1>8, <1>9, <1>10, <1>11, <1>17, <1>18 DEF EngineInv

(* The fact is done with: what is registered and triggered was tried.      *)
LEMMA AcknowledgeStep == ASSUME EngineInv, W!Acknowledge PROVE EngineInv'
<1> DEFINE e == Head(facts)
<1>1. /\ facts # <<>> /\ step = "next" /\ step' = "next" /\ W!Matching = {}
      /\ facts' = Tail(facts) /\ at' = 0
      /\ offered' = [offered EXCEPT ![e] = W!ToSet(registered)]
      /\ UNCHANGED <<stream, cursor, up, registered, rows, attempted, failed, lost, early, crashes, faults>>
  BY DEF W!Acknowledge, W!Event
<1>2. /\ e = facts[1] /\ Len(facts) \in Nat \ {0} /\ Behind \in Nat /\ Behind + 1 <= Len(stream)
      /\ e = stream[Behind + 1] /\ e \in W!Fact /\ ~Passed(e) /\ e \notin lost
      /\ cursor \in Nat
  BY <1>1, HeadIsNext DEF EngineInv, W!TypeOK
<1>3. /\ facts' \in Seq(W!Fact) /\ Len(facts') = Len(facts) - 1
      /\ \A k \in 1..Len(facts') : facts'[k] = facts[k + 1]
  BY <1>1, HeadTailProperties DEF EngineInv, W!TypeOK
<1>4. Behind' = Behind + 1
  BY <1>1, <1>2, <1>3 DEF Behind
<1>5. offered \in [W!Fact -> SUBSET W!Workflow]
  BY DEF EngineInv, W!TypeOK
<1>6. W!ToSet(registered) \subseteq W!Workflow
  BY DEF W!ToSet, EngineInv, W!TypeOK
<1>7. /\ offered' \in [W!Fact -> SUBSET W!Workflow]
      /\ offered'[e] = W!ToSet(registered)
      /\ \A d \in W!Fact \ {e} : offered'[d] = offered[d]
  BY <1>1, <1>2, <1>5, <1>6
<1>8. W!TypeOK'
  <2>1. W!TypeOK
    BY DEF EngineInv
  <2>2. Len(facts') <= BatchSize
    BY <1>2, <1>3, <2>1, BusAssumption DEF W!TypeOK, W!WorkflowsAssumption
  <2>3. 0 \in 0..Len(registered)
    BY <2>1 DEF W!TypeOK
  <2> QED
    BY <1>1, <1>3, <1>7, <2>1, <2>2, <2>3 DEF W!TypeOK, W!Fact, W!Workflow, W!Hooks, W!ToSet, W!Row, W!Step
<1>9. EngineShape'
  <2>1. facts' # <<>> => up
    BY <1>1 DEF EngineInv, EngineShape
  <2>2. ~up => facts' = <<>>
    BY <1>1 DEF EngineInv, EngineShape
  <2> QED
    BY <1>1, <2>1, <2>2 DEF EngineInv, EngineShape
<1>10. GroupShape'
  <2>1. \A k \in 1..Len(facts') : facts'[k] = stream[Behind' + k]
    <3> SUFFICES ASSUME NEW k \in 1..Len(facts') PROVE facts'[k] = stream[Behind' + k]
      OBVIOUS
    <3>1. facts[k + 1] = stream[Behind + (k + 1)]
      BY <1>2, <1>3 DEF EngineInv, GroupShape
    <3>2. Behind + (k + 1) = Behind' + k
      BY <1>2, <1>3, <1>4
    <3> QED
      BY <1>3, <3>1, <3>2
  <2>2. Len(facts') <= cursor
    BY <1>2, <1>3 DEF EngineInv, GroupShape
  <2>3. \A d \in lost : \E i \in 1..Behind' : stream[i] = d
    BY <1>2, <1>4 DEF EngineInv, GroupShape
  <2> QED
    BY <1>1, <2>1, <2>2, <2>3 DEF EngineInv, GroupShape
<1>11. \A d \in W!Fact : (\A i \in 1..Behind' : stream[i] # d) => d # e /\ attempted[d] = {}
  BY <1>2, <1>4 DEF EngineInv, TriedSoFar
<1>12. TriedSoFar'
  <2>1. facts' # <<>> => attempted[Head(facts')] = {}
    <3> SUFFICES ASSUME facts' # <<>> PROVE attempted[Head(facts')] = {}
      OBVIOUS
    <3>1. Head(facts') = facts'[1] /\ Len(facts') \in Nat \ {0}
      BY <1>3, EmptySeq
    <3>5. 1 \in 1..Len(facts')
      BY <3>1
    <3>6. facts'[1] = stream[Behind' + 1]
      <4>1. \A k \in 1..Len(facts') : facts'[k] = stream'[Behind' + k]
        BY <1>10 DEF GroupShape
      <4>2. stream' = stream
        BY <1>1
      <4> QED
        BY <3>5, <4>1, <4>2, Zenon
    <3>7. Head(facts') \in W!Fact
      BY <1>3, <3>1, <3>5, ElementOfSeq
    <3>2. Head(facts') = stream[Behind' + 1] /\ Head(facts') \in W!Fact
      BY <3>1, <3>6, <3>7, Zenon
    <3>3. Behind' + 1 \in 1..Len(stream)
      <4>1. cursor \in 0..Len(stream) /\ stream \in Seq(W!Fact)
        BY DEF EngineInv, W!TypeOK
      <4>2. Behind = cursor - Len(facts) /\ Len(stream) \in Nat
        BY <4>1, LenProperties DEF Behind
      <4>3. Len(facts) >= 2
        BY <1>2, <1>3, <3>1
      <4>4. Behind + 2 \in 1..Len(stream)
        BY <1>2, <4>1, <4>2, <4>3
      <4> QED
        BY <1>2, <1>4, <4>4
    <3>4. \A i \in 1..Behind' : stream[i] # Head(facts')
      <4>1. \A i, j \in 1..Len(stream) : stream[i] = stream[j] => i = j
        BY DEF EngineInv, GroupShape
      <4>2. stream \in Seq(W!Fact)
        BY DEF EngineInv, W!TypeOK
      <4>3. ASSUME NEW n \in Int, NEW m \in Int, n + 1 \in 1..m, NEW i \in 1..n
            PROVE  i \in 1..m /\ i # n + 1
        BY <4>3
      <4>4. Behind' \in Int /\ Len(stream) \in Int
        BY <1>2, <1>4, <4>2, LenProperties
      <4>5. \A i \in 1..Behind' : i \in 1..Len(stream) /\ i # Behind' + 1
        BY <3>3, <4>3, <4>4, Zenon
      <4> QED
        BY <3>2, <3>3, <4>1, <4>5, Zenon
    <3> QED
      BY <1>11, <3>2, <3>4
  <2>2. {registered[i] : i \in {i \in 1..0 : W!Triggers(registered[i], Head(facts'))}} = {}
    OBVIOUS
  <2>3. \A d \in W!Fact : \A w \in attempted[d] : W!Triggers(w, d)
    BY DEF EngineInv, TriedSoFar
  <2> QED
    BY <1>1, <1>11, <2>1, <2>2, <2>3 DEF TriedSoFar, Behind, W!Fact, W!Triggers
<1>13. EarlyCovered'
  <2>1. W!Complete' <=> W!Complete
    BY <1>1 DEF W!Complete, W!ToSet, W!Workflow, W!Hooks
  <2> QED
    BY <1>1, <1>2, <1>4, <2>1 DEF EngineInv, EarlyCovered
<1>14. PassedAreTried'
  <2>1. \A d : Passed(d)' => Passed(d) \/ d = e
    BY <1>1, <1>2, <1>4 DEF Passed
  <2>2. \A w \in W!ToSet(registered) : W!Triggers(w, e) => w \in attempted[e]
    <3>a. DOMAIN registered = 1..Len(registered)
      BY DEF EngineInv, W!TypeOK
    <3>b. \A w \in W!ToSet(registered) : \E i \in 1..Len(registered) : w = registered[i]
      BY <3>a DEF W!ToSet
    <3> SUFFICES ASSUME NEW i \in 1..Len(registered), W!Triggers(registered[i], e)
                 PROVE  registered[i] \in attempted[e]
      BY <3>b
    <3>1. at \in 0..Len(registered) /\ i \notin W!Matching
      BY <1>1 DEF EngineInv, W!TypeOK
    <3>2. ~(i > at)
      BY <3>1 DEF W!Matching, W!Event, EngineInv, W!TypeOK
    <3> QED
      BY <1>1, <3>1, <3>2 DEF EngineInv, TriedSoFar
  <2>3. e \notin early => W!ToSet(registered) = W!Workflow
    <3> SUFFICES ASSUME e \notin early PROVE W!ToSet(registered) = W!Workflow
      OBVIOUS
    <3>1. up
      BY <1>1 DEF EngineInv, EngineShape
    <3>2. Behind + 1 \in (Behind + 1)..Len(stream)
      BY <1>2 DEF EngineInv, W!TypeOK
    <3> QED
      BY <1>2, <3>1, <3>2 DEF EngineInv, EarlyCovered, W!Complete
  <2> SUFFICES ASSUME NEW d \in W!Fact, Passed(d)'
               PROVE  /\ \A w \in offered'[d] : W!Triggers(w, d) => w \in attempted[d]
                      /\ d \notin early => \A w \in W!Workflow : W!Triggers(w, d) => w \in attempted[d]
    BY <1>1 DEF PassedAreTried, W!Fact, W!Triggers, W!Workflow, W!Hooks, W!ToSet
  <2>4. CASE d = e
    BY <2>2, <2>3, <2>4, <1>7
  <2>5. CASE d # e
    BY <2>1, <2>5, <1>7 DEF EngineInv, PassedAreTried
  <2> QED
    BY <2>4, <2>5
<1>15. ReplyRows' /\ AlertRows'
  BY <1>1, RowsRest
<1> QED
  BY <1>8, <1>9, <1>10, <1>12, <1>13, <1>14, <1>15 DEF EngineInv

LEMMA ReadStep == ASSUME EngineInv, W!Read PROVE EngineInv'
<1>1. /\ up /\ facts = <<>> /\ at = 0 /\ step = "next"
      /\ UNCHANGED <<stream, up, registered, at, step, rows, attempted, failed, offered, lost, early, crashes, faults>>
  BY DEF W!Read, W!engine, W!history, EngineInv, EngineShape
<1>2. PICK n \in 1..BatchSize : /\ cursor + n <= Len(stream)
                                /\ facts' = SubSeq(stream, cursor + 1, cursor + n)
                                /\ cursor' = cursor + n
  BY DEF W!Read
<1>3. /\ cursor \in Nat /\ n \in Nat \ {0} /\ n <= BatchSize /\ Len(stream) \in Nat
      /\ stream \in Seq(W!Fact)
  BY BusAssumption DEF EngineInv, W!TypeOK, W!WorkflowsAssumption
<1>4. /\ facts' \in Seq(W!Fact) /\ Len(facts') = n
      /\ \A k \in 1..n : facts'[k] = stream[cursor + k]
  BY <1>2, <1>3, SubSeqProperties
<1>5. Behind' = Behind /\ Behind = cursor
  BY <1>1, <1>2, <1>3, <1>4, EmptySeq DEF Behind, EngineInv, W!TypeOK
<1>6. W!TypeOK'
  <2>1. W!TypeOK
    BY DEF EngineInv
  <2>2. cursor' \in 0..Len(stream)
    BY <1>2, <1>3
  <2> QED
    BY <1>1, <1>2, <1>3, <1>4, <2>1, <2>2 DEF W!TypeOK, W!Fact, W!Workflow, W!Hooks, W!ToSet, W!Row, W!Step
<1>7. EngineShape'
  BY <1>1 DEF EngineInv, EngineShape, W!Triggers
<1>8. GroupShape'
  <2>1. \A k \in 1..Len(facts') : facts'[k] = stream[Behind + k]
    BY <1>4, <1>5
  <2>2. Len(facts') <= cursor'
    BY <1>2, <1>3, <1>4
  <2> QED
    BY <1>1, <1>5, <2>1, <2>2 DEF EngineInv, GroupShape
<1>9. TriedSoFar'
  <2>1. facts' # <<>> /\ Head(facts') = stream[Behind + 1] /\ Head(facts') \in W!Fact
    BY <1>3, <1>4, <1>5
  <2>2. \A i \in 1..Behind : stream[i] # Head(facts')
    <3>1. Behind + 1 \in 1..Len(stream) /\ 1..Behind \subseteq 1..Len(stream)
      BY <1>2, <1>3, <1>5
    <3>2. \A i \in 1..Behind : i # Behind + 1
      BY <1>3, <1>5
    <3> QED
      BY <3>1, <3>2, <2>1 DEF EngineInv, GroupShape
  <2>3. attempted[Head(facts')] = {}
    BY <1>1, <2>1, <2>2 DEF EngineInv, TriedSoFar
  <2>4. {registered[i] : i \in {i \in 1..0 : W!Triggers(registered[i], Head(facts'))}} = {}
    OBVIOUS
  <2> QED
    BY <1>1, <1>5, <2>3, <2>4 DEF EngineInv, TriedSoFar, W!Fact, W!Triggers
<1>10. EarlyCovered' /\ PassedAreTried'
  <2>1. W!Complete' <=> W!Complete
    BY <1>1 DEF W!Complete, W!ToSet, W!Workflow, W!Hooks
  <2>2. \A d : Passed(d)' <=> Passed(d)
    BY <1>1, <1>5 DEF Passed
  <2> QED
    BY <1>1, <1>5, <2>1, <2>2 DEF EngineInv, EarlyCovered, PassedAreTried, W!Fact, W!Triggers, W!Workflow, W!Hooks, W!ToSet
<1>11. ReplyRows' /\ AlertRows'
  BY <1>1, RowsRest
<1> QED
  BY <1>6, <1>7, <1>8, <1>9, <1>10, <1>11 DEF EngineInv

LEMMA BootStep == ASSUME EngineInv, W!Boot PROVE EngineInv'
<1>1. /\ ~up /\ up' = TRUE /\ registered = <<>> /\ facts = <<>> /\ at = 0 /\ step = "next"
      /\ early' = early \cup W!ToSet(SubSeq(stream, cursor + 1, Len(stream)))
      /\ UNCHANGED <<stream, cursor, facts, registered, at, step, rows, attempted, failed, offered, lost,
                     crashes, faults>>
  BY DEF W!Boot, W!group, EngineInv, EngineShape
<1>2. /\ stream \in Seq(W!Fact) /\ cursor \in 0..Len(stream) /\ cursor \in Nat /\ Len(stream) \in Nat
      /\ early \subseteq W!Fact
  BY DEF EngineInv, W!TypeOK
<1>3. W!ToSet(SubSeq(stream, cursor + 1, Len(stream))) = {stream[i] : i \in (cursor + 1)..Len(stream)}
  <2> DEFINE t == SubSeq(stream, cursor + 1, Len(stream))
  <2>1. /\ Len(t) = Len(stream) - cursor /\ t \in Seq(W!Fact)
        /\ \A k \in 1..Len(t) : t[k] = stream[cursor + k]
    BY <1>2, SubSeqProperties
  <2>0. DOMAIN t = 1..Len(t)
    BY <2>1
  <2>2. W!ToSet(t) = {t[k] : k \in 1..Len(t)}
    BY <2>0, Zenon DEF W!ToSet
  <2>3. \A k \in 1..Len(t) : cursor + k \in (cursor + 1)..Len(stream)
    BY <1>2, <2>1
  <2>4. \A i \in (cursor + 1)..Len(stream) : i - cursor \in 1..Len(t) /\ cursor + (i - cursor) = i
    BY <1>2, <2>1
  <2>5. \A i \in (cursor + 1)..Len(stream) : stream[i] = t[i - cursor]
    BY <2>1, <2>4
  <2> HIDE DEF t
  <2>6. {t[k] : k \in 1..Len(t)} \subseteq {stream[i] : i \in (cursor + 1)..Len(stream)}
    BY <2>1, <2>3
  <2>7. {stream[i] : i \in (cursor + 1)..Len(stream)} \subseteq {t[k] : k \in 1..Len(t)}
    BY <2>4, <2>5
  <2> QED
    BY <2>2, <2>6, <2>7 DEF t
<1>4. Behind = cursor /\ Behind' = cursor
  BY <1>1, <1>2 DEF Behind
<1>5. W!TypeOK'
  <2>1. \A i \in (cursor + 1)..Len(stream) : stream[i] \in W!Fact
    BY <1>2
  <2>2. early' \subseteq W!Fact
    BY <1>1, <1>2, <1>3, <2>1
  <2> QED
    BY <1>1, <2>2 DEF EngineInv, W!TypeOK, W!Fact, W!Workflow, W!Hooks, W!ToSet, W!Row, W!Step
<1>6. EngineShape' /\ GroupShape'
  BY <1>1, <1>4 DEF EngineInv, EngineShape, GroupShape, W!Triggers
<1>7. TriedSoFar'
  BY <1>1, <1>4 DEF EngineInv, TriedSoFar, W!Fact, W!Triggers
<1>8. EarlyCovered'
  BY <1>1, <1>3, <1>4 DEF EarlyCovered
<1>9. PassedAreTried'
  <2>1. \A d : Passed(d)' <=> Passed(d)
    BY <1>1, <1>4 DEF Passed
  <2> QED
    BY <1>1, <2>1 DEF EngineInv, PassedAreTried, W!Fact, W!Triggers, W!Workflow, W!Hooks, W!ToSet
<1>10. ReplyRows' /\ AlertRows'
  BY <1>1, RowsRest
<1> QED
  BY <1>5, <1>6, <1>7, <1>8, <1>9, <1>10 DEF EngineInv

(* A hook registers while the Map may be being read.                       *)
LEMMA RegisterStep == ASSUME EngineInv, W!Register PROVE EngineInv'
<1>1. PICK h \in W!Hooks : /\ up /\ W!ToSet(h) \cap W!ToSet(registered) = {}
                           /\ registered' = registered \o h
  BY DEF W!Register
<1>2. UNCHANGED <<stream, cursor, facts, up, at, step, rows, attempted, failed, offered, lost, early,
                  crashes, faults>>
  BY DEF W!Register, W!group, W!history
<1>3. registered \in Seq(W!Workflow) /\ at \in 0..Len(registered) /\ Len(registered) \in Nat
  BY DEF EngineInv, W!TypeOK
<1>4. /\ h \in Seq(W!Workflow) /\ Len(h) \in Nat
      /\ \A i, j \in 1..Len(h) : h[i] = h[j] => i = j
  <2>1. CASE h = <<"reply">>
    BY <2>1, WorkflowIs
  <2>2. CASE h = <<"messageAlert", "priceAlert">>
    BY <2>2, WorkflowIs
  <2> QED
    BY <2>1, <2>2 DEF W!Hooks
<1>5. /\ registered' \in Seq(W!Workflow) /\ Len(registered') = Len(registered) + Len(h)
      /\ \A i \in 1..Len(registered) : registered'[i] = registered[i]
      /\ \A i \in 1..Len(registered') : i > Len(registered) =>
           i - Len(registered) \in 1..Len(h) /\ registered'[i] = h[i - Len(registered)]
  BY <1>1, <1>3, <1>4, ConcatProperties
<1>6. \A i \in 1..Len(registered), j \in 1..Len(h) : registered[i] # h[j]
  <2>1. \A i \in 1..Len(registered) : registered[i] \in W!ToSet(registered)
    BY <1>3 DEF W!ToSet
  <2>2. \A j \in 1..Len(h) : h[j] \in W!ToSet(h)
    BY <1>4 DEF W!ToSet
  <2> QED
    BY <2>1, <2>2, <1>1
<1>7. \A i, j \in 1..Len(registered') : registered'[i] = registered'[j] => i = j
  <2> SUFFICES ASSUME NEW i \in 1..Len(registered'), NEW j \in 1..Len(registered'),
                      registered'[i] = registered'[j]
               PROVE  i = j
    OBVIOUS
  <2>1. CASE i <= Len(registered) /\ j <= Len(registered)
    <3>1. i \in 1..Len(registered) /\ j \in 1..Len(registered)
      BY <1>3, <2>1
    <3> QED
      BY <1>5, <3>1 DEF EngineInv, EngineShape
  <2>2. CASE i > Len(registered) /\ j > Len(registered)
    <3>1. i - Len(registered) = j - Len(registered)
      BY <1>4, <1>5, <2>2
    <3> QED
      BY <1>3, <1>4, <1>5, <3>1
  <2>3. CASE i <= Len(registered) /\ j > Len(registered)
    <3>1. i \in 1..Len(registered)
      BY <1>3, <2>3
    <3> QED
      BY <1>5, <1>6, <2>3, <3>1
  <2>4. CASE i > Len(registered) /\ j <= Len(registered)
    <3>1. j \in 1..Len(registered)
      BY <1>3, <2>4
    <3> QED
      BY <1>5, <1>6, <2>4, <3>1
  <2> QED
    BY <1>3, <1>4, <1>5, <2>1, <2>2, <2>3, <2>4
<1>8. W!TypeOK'
  <2>1. at \in 0..Len(registered')
    BY <1>3, <1>4, <1>5
  <2> QED
    BY <1>2, <1>5, <2>1 DEF EngineInv, W!TypeOK, W!Fact, W!Workflow, W!Hooks, W!ToSet, W!Row, W!Step
<1>9. \A i \in 1..at : i \in 1..Len(registered) /\ registered'[i] = registered[i]
  BY <1>3, <1>5
<1>10. EngineShape'
  <2>1. at \in 1..Len(registered) => at \in 1..Len(registered') /\ registered'[at] = registered[at]
    BY <1>3, <1>4, <1>5
  <2> QED
    BY <1>1, <1>2, <1>7, <2>1 DEF EngineInv, EngineShape, W!Triggers
<1>11. GroupShape' /\ Behind' = Behind
  BY <1>2 DEF EngineInv, GroupShape, Behind
<1>12. TriedSoFar'
  <2>1. \A d : {registered'[i] : i \in {i \in 1..at : W!Triggers(registered'[i], d)}}
                 = {registered[i] : i \in {i \in 1..at : W!Triggers(registered[i], d)}}
    BY <1>9
  <2>2. TriedSoFar
    BY DEF EngineInv
  <2>3. facts # <<>> => attempted[Head(facts)] =
          {registered'[i] : i \in {i \in 1..at : W!Triggers(registered'[i], Head(facts))}}
    BY <2>1, <2>2, Zenon DEF TriedSoFar
  <2> QED
    BY <1>2, <1>11, <2>2, <2>3 DEF TriedSoFar, W!Fact, W!Triggers
<1>13. EarlyCovered'
  <2>1. W!Complete => W!Complete'
    <3> SUFFICES ASSUME W!Complete PROVE FALSE
      OBVIOUS
    <3>1. \A w \in W!Workflow : \E i \in 1..Len(registered) : registered[i] = w
      BY <1>3 DEF W!Complete, W!ToSet
    <3>2. h[1] \in W!Workflow /\ 1 \in 1..Len(h)
      BY <1>4, WorkflowIs DEF W!Hooks
    <3> QED
      BY <3>1, <3>2, <1>6
  <2> QED
    BY <1>2, <1>11, <2>1 DEF EngineInv, EarlyCovered
<1>14. PassedAreTried'
  <2>1. \A d : Passed(d)' <=> Passed(d)
    BY <1>2, <1>11 DEF Passed
  <2> QED
    BY <1>2, <2>1 DEF EngineInv, PassedAreTried, W!Fact, W!Triggers, W!Workflow, W!Hooks, W!ToSet
<1>15. \A e, w : InHand(e, w)' <=> InHand(e, w)
  BY <1>2, <1>3, <1>9 DEF InHand, EngineInv, EngineShape
<1>16. ReplyRows' /\ AlertRows'
  <2>1. ReplyRows'
    BY <1>2, <1>15 DEF EngineInv, ReplyRows, W!Fact
  <2>2. AlertRows'
    BY <1>2, <1>15 DEF EngineInv, AlertRows, W!Fact
  <2> QED
    BY <2>1, <2>2
<1> QED
  BY <1>8, <1>10, <1>11, <1>12, <1>13, <1>14, <1>16 DEF EngineInv

LEMMA PublishStep == ASSUME EngineInv, NEW e \in W!Fact, W!Publish(e) PROVE EngineInv'
<1>1. /\ up /\ stream' = Append(stream, e) /\ e \notin W!ToSet(stream)
      /\ early' = IF W!Complete THEN early ELSE early \cup {e}
      /\ UNCHANGED <<cursor, facts, up, registered, at, step, rows, attempted, failed, offered, lost,
                     crashes, faults>>
  BY DEF W!Publish, W!engine
<1>2. stream \in Seq(W!Fact) /\ Len(stream) \in Nat /\ cursor \in 0..Len(stream) /\ Behind \in Int
      /\ Behind <= cursor /\ Behind >= 0
  BY EmptySeq DEF EngineInv, W!TypeOK, GroupShape, Behind
<1>3. /\ stream' \in Seq(W!Fact) /\ Len(stream') = Len(stream) + 1
      /\ \A i \in 1..Len(stream) : stream'[i] = stream[i]
      /\ stream'[Len(stream) + 1] = e
  BY <1>1, <1>2, AppendProperties
<1>4. \A i \in 1..Len(stream) : stream[i] # e
  BY <1>1, <1>2 DEF W!ToSet
<1>5. Behind' = Behind
  BY <1>1 DEF Behind
<1>6. 1..Behind \subseteq 1..Len(stream)
  BY <1>2
<1>7. W!TypeOK'
  <2>1. cursor \in 0..Len(stream')
    BY <1>2, <1>3
  <2>2. early' \subseteq W!Fact
    BY <1>1 DEF EngineInv, W!TypeOK
  <2> QED
    BY <1>1, <1>3, <2>1, <2>2 DEF EngineInv, W!TypeOK, W!Fact, W!Workflow, W!Hooks, W!ToSet, W!Row, W!Step
<1>8. EngineShape'
  BY <1>1 DEF EngineInv, EngineShape, W!Triggers
<1>9. GroupShape'
  <2>1. \A i, j \in 1..Len(stream') : stream'[i] = stream'[j] => i = j
    <3> SUFFICES ASSUME NEW i \in 1..Len(stream'), NEW j \in 1..Len(stream'), stream'[i] = stream'[j]
                 PROVE  i = j
      OBVIOUS
    <3>1. i \in 1..Len(stream) \/ i = Len(stream) + 1
      BY <1>2, <1>3
    <3>2. j \in 1..Len(stream) \/ j = Len(stream) + 1
      BY <1>2, <1>3
    <3> QED
      BY <1>3, <1>4, <3>1, <3>2 DEF EngineInv, GroupShape
  <2>2. \A k \in 1..Len(facts) : Behind + k \in 1..Len(stream)
    BY <1>2 DEF Behind, EngineInv, W!TypeOK
  <2>3. \A k \in 1..Len(facts) : facts[k] = stream'[Behind + k]
    BY <1>3, <2>2 DEF EngineInv, GroupShape
  <2>4. \A d \in lost : \E i \in 1..Behind : stream'[i] = d
    BY <1>3, <1>6 DEF EngineInv, GroupShape
  <2> QED
    BY <1>1, <1>5, <2>1, <2>3, <2>4 DEF EngineInv, GroupShape
<1>10. TriedSoFar'
  <2>1. \A d \in W!Fact : (\A i \in 1..Behind : stream'[i] # d) => \A i \in 1..Behind : stream[i] # d
    BY <1>3, <1>6
  <2>2. TriedSoFar
    BY DEF EngineInv
  <2>3. ASSUME NEW d \in W!Fact, (\A i \in 1..Behind : stream'[i] # d), facts # <<>> => d # Head(facts)
        PROVE  attempted[d] = {}
    BY <2>1, <2>2, <2>3 DEF TriedSoFar
  <2>4. facts # <<>> =>
          attempted[Head(facts)] =
            {registered[i] : i \in {i \in 1..at : W!Triggers(registered[i], Head(facts))}}
    BY <2>2, Zenon DEF TriedSoFar
  <2>5. \A d \in W!Fact : \A w \in attempted[d] : W!Triggers(w, d)
    BY <2>2 DEF TriedSoFar
  <2>6. UNCHANGED <<facts, registered, at, attempted, Behind>>
    BY <1>1, <1>5
  <2>7. (\A d \in W!Fact :
           (\A i \in 1..Behind : stream[i] # d) /\ (facts # <<>> => d # Head(facts))
             => attempted[d] = {})'
    BY <2>3, <2>6 DEF W!Fact
  <2>8. (facts # <<>> =>
          attempted[Head(facts)] =
            {registered[i] : i \in {i \in 1..at : W!Triggers(registered[i], Head(facts))}})'
    BY <2>4, <2>6, Zenon DEF W!Triggers
  <2>9. (\A d \in W!Fact : \A w \in attempted[d] : W!Triggers(w, d))'
    BY <2>5, <2>6 DEF W!Fact, W!Triggers
  <2> QED
    BY <2>7, <2>8, <2>9, Zenon DEF TriedSoFar
<1>11. EarlyCovered'
  <2>1. W!Complete' <=> W!Complete
    BY <1>1 DEF W!Complete, W!ToSet, W!Workflow, W!Hooks
  <2>2. \A i \in (Behind + 1)..Len(stream') :
          i = Len(stream) + 1 \/ (i \in (Behind + 1)..Len(stream) /\ stream'[i] = stream[i])
    BY <1>2, <1>3
  <2> QED
    BY <1>1, <1>3, <1>5, <2>1, <2>2 DEF EngineInv, EarlyCovered
<1>12. PassedAreTried'
  <2>1. \A d : Passed(d)' <=> Passed(d)
    BY <1>1, <1>3, <1>5, <1>6 DEF Passed
  <2> QED
    BY <1>1, <2>1 DEF EngineInv, PassedAreTried, W!Fact, W!Triggers, W!Workflow, W!Hooks, W!ToSet
<1>13. ReplyRows' /\ AlertRows'
  <2>1. \A d, w : InHand(d, w)' <=> InHand(d, w)
    BY <1>1 DEF InHand
  <2>2. ReplyRows'
    BY <1>1, <2>1 DEF EngineInv, ReplyRows, W!Fact
  <2>3. AlertRows'
    BY <1>1, <2>1 DEF EngineInv, AlertRows, W!Fact
  <2> QED
    BY <2>2, <2>3
<1> QED
  BY <1>7, <1>8, <1>9, <1>10, <1>11, <1>12, <1>13 DEF EngineInv

(* The process dies: the batch is lost, whatever ran is not gone on with.  *)
LEMMA CrashStep == ASSUME EngineInv, W!Crash PROVE EngineInv'
<1>1. /\ up' = FALSE /\ registered' = <<>> /\ at' = 0 /\ step' = "next" /\ facts' = <<>>
      /\ lost' = lost \cup W!ToSet(facts)
      /\ crashes < MaxCrashes /\ crashes' = crashes + 1
      /\ UNCHANGED <<stream, cursor, rows, attempted, failed, offered, early, faults>>
  BY DEF W!Crash
<1>2. /\ cursor \in Nat /\ cursor <= Len(stream) /\ Len(facts) \in Nat /\ Behind \in Nat
      /\ facts \in Seq(W!Fact) /\ Behind + Len(facts) = cursor
  BY DEF EngineInv, W!TypeOK, GroupShape, Behind
<1>3. Behind' = cursor
  BY <1>1, <1>2, EmptySeq DEF Behind
<1>4. \A k \in 1..Len(facts) : Behind + k \in 1..cursor
  BY <1>2
<1>5. \A d \in W!ToSet(facts) : \E i \in 1..cursor : stream[i] = d
  <2>1. \A d \in W!ToSet(facts) : \E k \in 1..Len(facts) : facts[k] = d
    BY <1>2 DEF W!ToSet
  <2> QED
    BY <2>1, <1>4 DEF EngineInv, GroupShape
<1>6. W!ToSet(facts) \subseteq W!Fact
  BY <1>2 DEF W!ToSet
<1>7. W!TypeOK'
  <2>1. crashes' \in 0..MaxCrashes
    BY <1>1, Bounds DEF EngineInv, W!TypeOK
  <2>2. lost' \subseteq W!Fact
    BY <1>1, <1>6 DEF EngineInv, W!TypeOK
  <2>3. Len(<<>>) <= BatchSize /\ 0 \in 0..Len(<<>>)
    BY BusAssumption, EmptySeq DEF W!WorkflowsAssumption
  <2>4. "next" \in W!Step
    BY DEF W!Step
  <2>5. <<>> \in Seq(W!Fact) /\ <<>> \in Seq(W!Workflow)
    OBVIOUS
  <2>6. W!TypeOK
    BY DEF EngineInv
  <2> QED
    BY <1>1, <2>1, <2>2, <2>3, <2>4, <2>5, <2>6 DEF W!TypeOK, W!Fact, W!Workflow, W!Hooks, W!ToSet, W!Row, W!Step
<1>8. EngineShape'
  <2>1. Len(<<>>) = 0
    OBVIOUS
  <2> QED
    BY <1>1, <2>1 DEF EngineShape
<1>9. GroupShape'
  <2>1. \A d \in lost : \E i \in 1..cursor : stream[i] = d
    BY <1>2 DEF EngineInv, GroupShape
  <2>2. Len(<<>>) = 0 /\ 0 <= cursor
    BY <1>2
  <2> QED
    BY <1>1, <1>3, <1>5, <2>1, <2>2 DEF EngineInv, GroupShape
<1>10. TriedSoFar'
  <2> SUFFICES ASSUME NEW d \in W!Fact, \A i \in 1..cursor : stream[i] # d
               PROVE  attempted[d] = {}
    BY <1>1, <1>3 DEF EngineInv, TriedSoFar, W!Fact, W!Triggers
  <2>1. \A i \in 1..Behind : stream[i] # d
    BY <1>2
  <2>2. facts # <<>> => d # Head(facts)
    <3> SUFFICES ASSUME facts # <<>> PROVE d # Head(facts)
      OBVIOUS
    <3>1. Head(facts) = stream[Behind + 1] /\ Behind + 1 \in 1..cursor
      BY <1>2, HeadIsNext, EmptySeq DEF EngineInv
    <3> QED
      BY <3>1
  <2> QED
    BY <2>1, <2>2 DEF EngineInv, TriedSoFar
<1>11. EarlyCovered'
  BY <1>1 DEF EarlyCovered
<1>12. PassedAreTried'
  <2>1. \A d : Passed(d)' => Passed(d)
    <3> SUFFICES ASSUME NEW d, d \notin lost, d \notin W!ToSet(facts),
                        NEW i \in 1..cursor, stream[i] = d
                 PROVE  Passed(d)
      BY <1>1, <1>3 DEF Passed
    <3>1. CASE i <= Behind
      BY <1>2, <3>1 DEF Passed
    <3>2. CASE i > Behind
      <4>1. i - Behind \in 1..Len(facts) /\ Behind + (i - Behind) = i
        BY <1>2, <3>2
      <4>2. facts[i - Behind] = stream[Behind + (i - Behind)]
        BY <4>1 DEF EngineInv, GroupShape
      <4>3. facts[i - Behind] \in W!ToSet(facts)
        BY <4>1, <1>2 DEF W!ToSet
      <4> QED
        BY <4>1, <4>2, <4>3
    <3> QED
      BY <1>2, <3>1, <3>2
  <2> QED
    BY <1>1, <2>1 DEF EngineInv, PassedAreTried, W!Fact, W!Triggers, W!Workflow, W!Hooks, W!ToSet
<1>13. \A d, w : InHand(d, w) => d \in lost'
  <2>1. step # "next" => Head(facts) = facts[1] /\ 1 \in 1..Len(facts)
    BY <1>2, InHandTried, EmptySeq
  <2>2. step # "next" => Head(facts) \in W!ToSet(facts)
    BY <1>2, <2>1 DEF W!ToSet
  <2> QED
    BY <1>1, <2>2 DEF InHand
<1>14. \A d, w : ~InHand(d, w)'
  BY <1>1 DEF InHand
<1>15. \A d : d \notin lost' => d \notin lost
  BY <1>1
<1>16. ReplyRows'
  BY <1>1, <1>13, <1>14, <1>15 DEF EngineInv, ReplyRows, W!Fact
<1>17. AlertRows'
  BY <1>1, <1>13, <1>14, <1>15 DEF EngineInv, AlertRows, W!Fact
<1> QED
  BY <1>7, <1>8, <1>9, <1>10, <1>11, <1>12, <1>16, <1>17 DEF EngineInv

LEMMA EngineStarts == W!Init => EngineInv
<1> SUFFICES ASSUME W!Init PROVE EngineInv
  OBVIOUS
<1>0. Len(stream) = 0 /\ Len(facts) = 0 /\ Len(registered) = 0 /\ Behind = 0
  <2>1. stream = <<>> /\ facts = <<>> /\ registered = <<>> /\ cursor = 0
    BY DEF W!Init
  <2>2. Len(<<>>) = 0
    OBVIOUS
  <2>3. Len(stream) = 0 /\ Len(facts) = 0 /\ Len(registered) = 0
    BY <2>1, <2>2, Zenon
  <2>4. Behind = 0 - 0
    BY <2>1, <2>3, Zenon DEF Behind
  <2>5. Behind = 0
    BY <2>4
  <2> QED
    BY <2>3, <2>5, Zenon
<1>1. W!TypeOK
  <2>1. /\ stream \in Seq(W!Fact) /\ cursor \in 0..Len(stream)
        /\ facts \in Seq(W!Fact) /\ Len(facts) <= BatchSize
        /\ registered \in Seq(W!Workflow) /\ at \in 0..Len(registered)
    BY <1>0, BusAssumption DEF W!Init, W!WorkflowsAssumption
  <2>2. rows \in [W!Fact -> W!Row]
    BY DEF W!Init, W!Row
  <2>3. attempted \in [W!Fact -> SUBSET W!Workflow] /\ failed = attempted /\ offered = attempted
    BY DEF W!Init
  <2>4. crashes \in 0..MaxCrashes /\ faults \in 0..MaxFaults
    BY Bounds DEF W!Init
  <2>5. up \in BOOLEAN /\ step \in W!Step /\ lost \subseteq W!Fact /\ early \subseteq W!Fact
    BY DEF W!Init, W!Step
  <2> QED
    BY <2>1, <2>2, <2>3, <2>4, <2>5 DEF W!TypeOK
<1>2. EngineShape /\ GroupShape
  BY <1>0 DEF W!Init, EngineShape, GroupShape
<1>3. TriedSoFar /\ EarlyCovered /\ PassedAreTried
  BY <1>0 DEF W!Init, TriedSoFar, EarlyCovered, PassedAreTried, Passed
<1>4. ReplyRows /\ AlertRows
  BY DEF W!Init, ReplyRows, AlertRows, InHand
<1> QED
  BY <1>1, <1>2, <1>3, <1>4 DEF EngineInv

LEMMA EngineStep == EngineInv /\ [W!Next]_(W!vars) => EngineInv'
<1> SUFFICES ASSUME EngineInv, [W!Next]_(W!vars) PROVE EngineInv'
  OBVIOUS
<1>1. CASE W!Dispatch
  BY <1>1, RunWorkflowStep, AcknowledgeStep, NotifyInboxStep, DraftStep, CreateReviewTaskStep,
     CreateManagerTaskStep, NotifyManagerStep, InAppStep, PublishDispatchedStep, PublishExecutedStep
     DEF W!Dispatch
<1>2. CASE \E e \in W!Fact : W!Publish(e)
  BY <1>2, PublishStep
<1>3. CASE UNCHANGED W!vars
  <2>1. UNCHANGED workflows
    BY <1>3 DEF W!vars, W!group, W!engine, W!history, workflows
  <2>2. W!TypeOK'
    BY <2>1 DEF workflows, EngineInv, W!TypeOK, W!Fact, W!Workflow, W!Hooks, W!ToSet, W!Row, W!Step
  <2>5. EngineShape' /\ GroupShape'
    BY <2>1 DEF workflows, EngineInv, EngineShape, GroupShape, Behind, W!Triggers
  <2>6. TriedSoFar'
    BY <2>1, Zenon DEF workflows, EngineInv, TriedSoFar, Behind, W!Triggers, W!Fact
  <2>3. EarlyCovered' /\ PassedAreTried'
    BY <2>1 DEF workflows, EngineInv, EarlyCovered, PassedAreTried, Passed, Behind, W!Triggers,
       W!Complete, W!Fact, W!Workflow, W!Hooks, W!ToSet
  <2>4. ReplyRows' /\ AlertRows'
    BY <2>1 DEF workflows, EngineInv, ReplyRows, AlertRows, InHand, W!Fact
  <2> QED
    BY <2>2, <2>3, <2>4, <2>5, <2>6 DEF EngineInv
<1> QED
  BY <1>1, <1>2, <1>3, BootStep, RegisterStep, ReadStep, WorkflowFailsStep, CrashStep DEF W!Next

LEMMA EndedIsPassed == ASSUME EngineInv, NEW e \in W!Fact, W!Ended(e) PROVE Passed(e)
<1>1. PICK i \in 1..cursor : stream[i] = e /\ e \notin W!ToSet(facts) /\ e \notin lost
  BY DEF W!Ended
<1>2. cursor \in Nat /\ Len(facts) \in Nat /\ Behind \in Nat /\ facts \in Seq(W!Fact)
      /\ Behind + Len(facts) = cursor
  BY DEF EngineInv, W!TypeOK, GroupShape, Behind
<1>3. i <= Behind
  <2> SUFFICES ASSUME i > Behind PROVE FALSE
    BY <1>2
  <2>1. i - Behind \in 1..Len(facts) /\ Behind + (i - Behind) = i
    BY <1>2
  <2>2. facts[i - Behind] = e
    BY <1>1, <2>1 DEF EngineInv, GroupShape
  <2> QED
    BY <1>1, <1>2, <2>1, <2>2 DEF W!ToSet
<1> QED
  BY <1>1, <1>2, <1>3 DEF Passed

(* The engine's group, batch and rows stand as EngineInv says.             *)
THEOREM EngineInvariance == W!Spec => []EngineInv
BY EngineStarts, EngineStep, PTL DEF W!Spec

(* Every workflow that was there in time is tried for every fact, whatever *)
(* failed, and only an early fact can miss one (WorkflowEngine.dispatch).  *)
THEOREM WorkflowsAreTried == W!Spec => []WorkflowsTried
<1>1. ASSUME EngineInv PROVE WorkflowsTried
  <2>1. W!FailureContained
    BY <1>1, EndedIsPassed DEF W!FailureContained, EngineInv, PassedAreTried
  <2>2. W!MissedOnlyEarly
    BY <1>1, EndedIsPassed DEF W!MissedOnlyEarly, EngineInv, PassedAreTried
  <2> QED
    BY <1>1, <2>1, <2>2 DEF EngineInv, WorkflowsTried, W!WorkflowsTried
<1> QED
  BY <1>1, EngineInvariance, PTL

(* What workflows wrote about a fact is there once, and whole if they ran  *)
(* to their end (SalesAgent.reply, NotificationChannelService.dispatch).   *)
THEOREM OutcomesAreWhole == W!Spec => []OutcomesWhole
<1>1. ASSUME EngineInv PROVE OutcomesWhole
  <2>0. \A e \in W!Fact : rows[e] \in W!Row
    BY <1>1 DEF EngineInv, W!TypeOK
  <2>1. W!WrittenOnce
    BY <1>1, <2>0 DEF W!WrittenOnce, EngineInv, ReplyRows, AlertRows, W!Row
  <2>2. ASSUME NEW e \in W!Fact, W!Ended(e)
        PROVE  e \notin lost /\ \A w : ~InHand(e, w)
    <3>1. Passed(e)
      BY <1>1, <2>2, EndedIsPassed
    <3>2. step # "next" => ~Passed(Head(facts))
      BY <1>1, InHandTried, HeadIsNext DEF EngineInv
    <3> QED
      BY <3>1, <3>2 DEF InHand, Passed
  <2>3. W!OutcomeWhole
    <3> SUFFICES ASSUME NEW e \in W!Fact
                 PROVE  LET r == rows[e]
                            whole == attempted[e] \ failed[e] IN
                        /\ r.executed <= r.dispatched
                        /\ r.tasks <= r.notes
                        /\ W!Ended(e) /\ "reply" \in whole => r.tasks = 1 /\ r.notes > 0
                        /\ W!Ended(e) /\ whole \cap {"messageAlert", "priceAlert"} # {} => r.executed = 1
      BY DEF W!OutcomeWhole
    <3> QED
      BY <1>1, <2>0, <2>2 DEF EngineInv, ReplyRows, AlertRows, Alerts, W!Row
  <2> QED
    BY <2>1, <2>3 DEF OutcomesWhole, W!OutcomesWhole
<1> QED
  BY <1>1, EngineInvariance, PTL
=============================================================================
