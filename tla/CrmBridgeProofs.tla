-------------------------- MODULE CrmBridgeProofs --------------------------
(***************************************************************************)
(* Theorems about the CRM bridge, for any number of deliveries, chats,     *)
(* authors and rules and any lag of the read models: what a lead points to *)
(* belongs to it, duplicates are bounded by the calls that overlap and the *)
(* steps that fail, and the message of a known thread is recorded.         *)
(***************************************************************************)
EXTENDS CrmBridge, FiniteSetTheorems, SequenceTheorems, TLAPS

-----------------------------------------------------------------------------
(* The inductive invariant.                                                *)

WithLead         == {"updateLead", "seed", "createDeal", "linkDeal"}
Received         == {"lead", "createLead"} \cup WithLead
WithConversation == {"rereadConversation", "load", "receive"}
WithCustomer     == {"rereadCustomer", "ad", "conversation", "start"} \cup WithConversation \cup Received

(* What a call has found or created is there and fits its message.         *)
HasCustomer(c) ==
  pc[c] \in WithCustomer =>
    /\ local[c].customer \in DOMAIN customers
    /\ customers[local[c].customer] = AuthorOf[Message1(c)]

HasConversation(c) ==
  LET k == local[c].conversation IN
  /\ pc[c] \in WithConversation => k # 0
  /\ k # 0 => k \in DOMAIN conversations /\ conversations[k].chat = ChatOf[Message1(c)]

LinksTo(c, k) ==
  /\ k \in {0} \cup DOMAIN conversations
  /\ k # 0 => WritesIn(local[c].customer, conversations[k].chat)

HasLead(c) ==
  LET l == local[c].lead IN
  pc[c] \in WithLead =>
    /\ l \in DOMAIN leads
    /\ leads[l].customer = local[c].customer
    /\ local[c].ad \in {NoItem, leads[l].ad}
    /\ pc[c] = "updateLead" => LinksTo(c, local[c].links)

HasDeal(c) ==
  LET d == local[c].deal IN
  /\ pc[c] \in {"createDeal", "linkDeal"} => local[c].ad # NoItem
  /\ pc[c] = "linkDeal" =>
       /\ d \in DOMAIN deals
       /\ deals[d] = [customer |-> local[c].customer, ad |-> local[c].ad, lead |-> local[c].lead]

IdleIsBlank(c) ==
  /\ pc[c] = "idle" <=> todo[c] = <<>>
  /\ pc[c] = "idle" => local[c] = Blank

CallShape(c) == IdleIsBlank(c) /\ HasCustomer(c) /\ HasConversation(c) /\ HasLead(c) /\ HasDeal(c)

(* What rows refer to exists.                                              *)
RowsRefer ==
  /\ \A k \in DOMAIN conversations : conversations[k].customer \in DOMAIN customers
  /\ \A l \in DOMAIN leads :
       /\ leads[l].customer \in DOMAIN customers
       /\ leads[l].conversation \in {0} \cup DOMAIN conversations
       /\ leads[l].deal \in {0} \cup DOMAIN deals
  /\ \A d \in DOMAIN deals : deals[d].lead \in DOMAIN leads

(* A call whose author and thread are known looks neither up in vain, and  *)
(* has received its message when it comes to the lead.                     *)
KnownGoes(c) ==
  /\ pc[c] \in {"customer", "ad", "conversation", "load", "receive"} \cup Received
  /\ CustomersOf(AuthorOf[Message1(c)]) # {}
  /\ ConversationsOf(ChatOf[Message1(c)]) # {}
  /\ pc[c] \in Received =>
       /\ local[c].conversation # 0
       /\ Message1(c) \in conversations[local[c].conversation].heard

(* A lead that lacks follow-ups is being seeded, or a fault cut that off.  *)
Abandoned ==
  {l \in DOMAIN leads : /\ leads[l].seeded < Rules
                        /\ \A c \in Call : ~(pc[c] = "seed" /\ local[c].lead = l)}

SeedsHeld == Cardinality(Abandoned) <= faults

(* The leads of a key, and the calls that found none and will create one.  *)
Twins(customer, ad) == {k \in DOMAIN leads : leads[k].customer = customer /\ leads[k].ad = ad}
Creating(customer, ad) ==
  {c \in Call : pc[c] = "createLead" /\ local[c].customer = customer /\ local[c].ad = ad}

TwinsBounded ==
  \A customer \in Nat, ad \in Item \cup {NoItem} :
    Cardinality(Twins(customer, ad)) + Cardinality(Creating(customer, ad)) <= Cardinality(Call)

(* The deals of a lead, the calls about to link one to it, and those that  *)
(* have still to create theirs.  Without a link, each deal is about to be  *)
(* linked or was cut off by a fault; with one, nobody else begins a deal.  *)
DealsOf(l)  == {d \in DOMAIN deals : deals[d].lead = l}
Linking(l)  == {c \in Call : pc[c] = "linkDeal" /\ local[c].lead = l}
Dealing(l)  == {c \in Call : pc[c] \in {"seed", "createDeal"} /\ local[c].lead = l}

DealsBounded ==
  \A l \in DOMAIN leads :
    IF leads[l].deal = 0
      THEN Cardinality(DealsOf(l)) <= Cardinality(Linking(l)) + faults
      ELSE Cardinality(DealsOf(l)) + Cardinality(Dealing(l)) <= Cardinality(Call) + faults

CrmInv ==
  /\ TypeOK /\ LinksAgree /\ RowsRefer
  /\ \A c \in Call : CallShape(c)
  /\ \A c \in known : KnownGoes(c)
  /\ SeedsHeld /\ TwinsBounded /\ DealsBounded

-----------------------------------------------------------------------------
(* Sets that differ in one element, and sets of calls.                     *)
LEMMA OneMoves ==
  ASSUME NEW A, IsFiniteSet(A), NEW B, IsFiniteSet(B), NEW x,
         \A y : y # x => (y \in A <=> y \in B)
  PROVE  /\ (x \in A <=> x \in B) => A = B
         /\ x \notin A /\ x \in B => Cardinality(B) = Cardinality(A) + 1
         /\ x \in A /\ x \notin B => Cardinality(A) = Cardinality(B) + 1
<1>1. (x \in A <=> x \in B) => A = B
  OBVIOUS
<1>2. ASSUME x \notin A, x \in B
      PROVE  Cardinality(B) = Cardinality(A) + 1
  <2>1. B = A \cup {x}
    BY <1>2
  <2> QED
    BY <1>2, <2>1, FS_AddElement
<1>3. ASSUME x \in A, x \notin B
      PROVE  Cardinality(A) = Cardinality(B) + 1
  <2>1. A = B \cup {x}
    BY <1>3
  <2> QED
    BY <1>3, <2>1, FS_AddElement
<1> QED
  BY <1>1, <1>2, <1>3

LEMMA SomeCalls ==
  ASSUME NEW A, A \subseteq Call
  PROVE  /\ IsFiniteSet(A) /\ Cardinality(A) \in Nat
         /\ Cardinality(Call) \in Nat /\ Cardinality(A) <= Cardinality(Call)
<1>1. IsFiniteSet(Call)
  BY CrmBridgeAssumption
<1>2. IsFiniteSet(A) /\ Cardinality(A) <= Cardinality(Call)
  BY <1>1, FS_Subset
<1> QED
  BY <1>1, <1>2, FS_CardinalityType

(* Rows of a table that is a sequence.                                     *)
LEMMA SomeRows ==
  ASSUME NEW S, NEW s \in Seq(S), NEW A, A \subseteq DOMAIN s
  PROVE  IsFiniteSet(A) /\ Cardinality(A) \in Nat
<1>1. DOMAIN s = 1..Len(s) /\ Len(s) \in Nat
  OBVIOUS
<1>2. IsFiniteSet(DOMAIN s)
  BY <1>1, FS_Interval
<1> QED
  BY <1>2, FS_Subset, FS_CardinalityType

LEMMA RowAdded ==
  ASSUME NEW S, NEW s \in Seq(S), NEW e \in S
  PROVE  /\ Append(s, e) \in Seq(S)
         /\ Len(Append(s, e)) = Len(s) + 1
         /\ DOMAIN Append(s, e) = DOMAIN s \cup {Len(s) + 1}
         /\ Len(s) + 1 \notin DOMAIN s /\ Len(s) + 1 # 0
         /\ Append(s, e)[Len(s) + 1] = e
         /\ \A k \in DOMAIN s : Append(s, e)[k] = s[k]
OBVIOUS

LEMMA RowChanged ==
  ASSUME NEW S, NEW s \in Seq(S), NEW i \in DOMAIN s, NEW e \in S
  PROVE  /\ [s EXCEPT ![i] = e] \in Seq(S)
         /\ DOMAIN [s EXCEPT ![i] = e] = DOMAIN s
         /\ Len([s EXCEPT ![i] = e]) = Len(s)
         /\ [s EXCEPT ![i] = e][i] = e
         /\ \A k \in DOMAIN s \ {i} : [s EXCEPT ![i] = e][k] = s[k]
BY ExceptSeq

LEMMA RowTyped ==
  ASSUME NEW S, NEW s \in Seq(S), NEW i \in DOMAIN s
  PROVE  s[i] \in S /\ i \in Nat /\ i # 0
OBVIOUS

-----------------------------------------------------------------------------
(* What the steps of a call have in common.                                *)

OnlyMoves(c) ==
  \A d \in Call \ {c} :
    pc'[d] = pc[d] /\ todo'[d] = todo[d] /\ local'[d] = local[d] /\ (d \in known' <=> d \in known)

CallsTyped ==
  /\ pc \in [Call -> Pc]
  /\ todo \in [Call -> Seq(Message)]
  /\ local \in [Call -> Local]
  /\ known \subseteq Call

(* Rows are added, and what others have read of them does not change.      *)
Grows ==
  /\ \A k \in DOMAIN customers : k \in DOMAIN customers' /\ customers'[k] = customers[k]
  /\ \A k \in DOMAIN conversations :
       /\ k \in DOMAIN conversations'
       /\ conversations'[k].chat = conversations[k].chat
       /\ conversations[k].heard \subseteq conversations'[k].heard
  /\ \A l \in DOMAIN leads :
       /\ l \in DOMAIN leads'
       /\ leads'[l].customer = leads[l].customer /\ leads'[l].ad = leads[l].ad
  /\ \A d \in DOMAIN deals : d \in DOMAIN deals' /\ deals'[d] = deals[d]
  /\ customerRows <= customerRows' /\ conversationRows <= conversationRows'

LEMMA MessageTyped ==
  ASSUME TypeOK, NEW c \in Call, IdleIsBlank(c), pc[c] # "idle"
  PROVE  /\ todo[c] \in Seq(Message) /\ todo[c] # <<>>
         /\ Message1(c) \in Message /\ Tail(todo[c]) \in Seq(Message)
         /\ Tail(todo[c]) # todo[c]
         /\ AuthorOf[Message1(c)] \in Author /\ ChatOf[Message1(c)] \in Chat
         /\ ItemOf[Message1(c)] \in Item \cup {NoItem}
<1>1. todo[c] \in Seq(Message) /\ todo[c] # <<>>
  BY DEF TypeOK, IdleIsBlank
<1>2. Head(todo[c]) \in Message /\ Tail(todo[c]) \in Seq(Message) /\ Len(Tail(todo[c])) = Len(todo[c]) - 1
  BY <1>1, HeadTailProperties
<1>3. Tail(todo[c]) # todo[c]
  <2>1. Len(todo[c]) \in Nat
    BY <1>1, LenProperties
  <2>2. Len(Tail(todo[c])) # Len(todo[c])
    BY <1>2, <2>1
  <2> QED
    BY <2>2
<1>4. /\ AuthorOf \in [Message -> Author] /\ ChatOf \in [Message -> Chat]
      /\ ItemOf \in [Message -> Item \cup {NoItem}]
  BY CrmBridgeAssumption
<1> QED
  BY <1>1, <1>2, <1>3, <1>4 DEF Message1

LEMMA FaultsTyped == TypeOK => faults \in Nat /\ faults <= faults
BY CrmBridgeAssumption DEF TypeOK

LEMMA BoundsStand ==
  ASSUME TypeOK, UNCHANGED <<deliveries, faults>>
  PROVE  deliveries' \in 0..MaxDeliveries /\ faults' \in 0..MaxFaults /\ faults <= faults'
BY FaultsTyped DEF TypeOK

LEMMA LeadTyped ==
  ASSUME TypeOK, NEW l \in DOMAIN leads
  PROVE  leads[l] \in Lead /\ leads[l].seeded \in Nat /\ l \in Nat /\ l # 0
<1>1. leads[l] \in Lead /\ l \in Nat /\ l # 0
  BY RowTyped DEF TypeOK
<1>2. Rules \in Nat
  BY CrmBridgeAssumption
<1> QED
  BY <1>1, <1>2 DEF Lead

LEMMA RowsKnown ==
  ASSUME TypeOK
  PROVE  /\ \A author : CustomersOf(author) \subseteq DOMAIN customers
         /\ \A chat : ConversationsOf(chat) \subseteq DOMAIN conversations
BY DEF TypeOK, CustomersOf, ConversationsOf

(* One call goes on to its next step with the same message.                *)
LEMMA GoesOn ==
  ASSUME TypeOK, NEW c \in Call, NEW step \in Pc, NEW found \in Local,
         Goto(c, step, found), todo' = todo, known' = known
  PROVE  /\ CallsTyped' /\ OnlyMoves(c)
         /\ pc'[c] = step /\ local'[c] = found /\ Message1(c)' = Message1(c)
BY DEF TypeOK, Goto, CallsTyped, OnlyMoves, Message1

(* One call takes up its next message, or has none.                        *)
LEMMA TakesUp ==
  ASSUME TypeOK, NEW c \in Call, NEW messages \in Seq(Message), TakeUp(c, messages),
         UNCHANGED <<customers, customerRows>>, UNCHANGED <<conversations, conversationRows>>
  PROVE  /\ CallsTyped' /\ OnlyMoves(c)
         /\ pc'[c] \in {"idle", "customer"} /\ todo'[c] = messages
         /\ CallShape(c)'
         /\ c \in known' => KnownGoes(c)'
<1> DEFINE step == IF messages = <<>> THEN "idle" ELSE "customer"
<1>1. /\ pc' = [pc EXCEPT ![c] = step] /\ local' = [local EXCEPT ![c] = Blank]
      /\ todo' = [todo EXCEPT ![c] = messages] /\ step \in {"idle", "customer"}
  BY DEF TakeUp, Goto
<1>2. Blank \in Local
  BY DEF Blank, Local
<1>3. /\ CallsTyped' /\ OnlyMoves(c)
      /\ pc'[c] = step /\ todo'[c] = messages /\ local'[c] = Blank
  BY <1>1, <1>2 DEF TypeOK, TakeUp, CallsTyped, OnlyMoves, Pc
<1>4. CallShape(c)'
  BY <1>1, <1>3 DEF CallShape, IdleIsBlank, HasCustomer, HasConversation, HasLead, HasDeal, Blank,
     WithCustomer, WithConversation, Received, WithLead
<1>5. ASSUME c \in known' PROVE KnownGoes(c)'
  <2>1. /\ messages # <<>> /\ CustomersOf(AuthorOf[Head(messages)]) # {}
        /\ ConversationsOf(ChatOf[Head(messages)]) # {}
    BY <1>5 DEF TakeUp
  <2>2. /\ pc'[c] = "customer" /\ Message1(c)' = Head(messages)
    BY <1>3, <2>1 DEF Message1
  <2>3. /\ \A author : CustomersOf(author)' = CustomersOf(author)
        /\ \A chat : ConversationsOf(chat)' = ConversationsOf(chat)
    BY DEF CustomersOf, ConversationsOf
  <2> QED
    BY <2>1, <2>2, <2>3 DEF KnownGoes, Received, WithLead
<1> QED
  BY <1>1, <1>3, <1>4, <1>5

(* What the other calls know still holds.                                  *)
LEMMA OthersStand ==
  ASSUME TypeOK, \A c \in Call : CallShape(c), \A c \in known : KnownGoes(c),
         TypeOK', Grows, NEW d \in Call,
         pc'[d] = pc[d], todo'[d] = todo[d], local'[d] = local[d], d \in known' => d \in known
  PROVE  CallShape(d)' /\ (d \in known' => KnownGoes(d)')
<1>1. Message1(d)' = Message1(d)
  BY DEF Message1
<1>2. IdleIsBlank(d)'
  BY DEF CallShape, IdleIsBlank
<1>3. HasCustomer(d)'
  BY <1>1 DEF CallShape, HasCustomer, Grows
<1>4. HasConversation(d)'
  BY <1>1 DEF CallShape, HasConversation, Grows
<1>5. HasLead(d)'
  <2>1. ASSUME pc'[d] = "updateLead" PROVE LinksTo(d, local[d].links)'
    <3>1. LinksTo(d, local[d].links) /\ local[d].customer \in DOMAIN customers
      BY <2>1 DEF CallShape, HasLead, HasCustomer, WithLead, WithCustomer, Received
    <3>2. /\ DOMAIN conversations \subseteq DOMAIN conversations'
          /\ \A k \in DOMAIN conversations : conversations'[k].chat = conversations[k].chat
          /\ customers'[local[d].customer] = customers[local[d].customer]
      BY <3>1 DEF Grows
    <3> QED
      BY <3>1, <3>2 DEF LinksTo, WritesIn
  <2> QED
    BY <2>1 DEF CallShape, HasLead, Grows
<1>6. HasDeal(d)'
  BY DEF CallShape, HasDeal, Grows
<1>7. ASSUME d \in known' PROVE KnownGoes(d)'
  <2>1. KnownGoes(d)
    BY <1>7
  <2>2. CustomersOf(AuthorOf[Message1(d)])' # {}
    <3>1. PICK k \in CustomersOf(AuthorOf[Message1(d)]) : TRUE
      BY <2>1 DEF KnownGoes
    <3>2. k \in 1..customerRows /\ k \in DOMAIN customers /\ customers[k] = AuthorOf[Message1(d)]
      BY <3>1, RowsKnown DEF CustomersOf
    <3>3. customerRows \in Nat /\ customerRows' \in Nat /\ customerRows <= customerRows'
      BY DEF TypeOK, Grows
    <3>4. k \in 1..customerRows'
      BY <3>2, <3>3
    <3>5. customers'[k] = AuthorOf[Message1(d)]
      BY <3>2 DEF Grows
    <3> QED
      BY <1>1, <3>4, <3>5 DEF CustomersOf
  <2>3. ConversationsOf(ChatOf[Message1(d)])' # {}
    <3>1. PICK k \in ConversationsOf(ChatOf[Message1(d)]) : TRUE
      BY <2>1 DEF KnownGoes
    <3>2. k \in 1..conversationRows /\ k \in DOMAIN conversations /\ conversations[k].chat = ChatOf[Message1(d)]
      BY <3>1, RowsKnown DEF ConversationsOf
    <3>3. conversationRows \in Nat /\ conversationRows' \in Nat /\ conversationRows <= conversationRows'
      BY DEF TypeOK, Grows
    <3>4. k \in 1..conversationRows'
      BY <3>2, <3>3
    <3>5. conversations'[k].chat = ChatOf[Message1(d)]
      BY <3>2 DEF Grows
    <3> QED
      BY <1>1, <3>4, <3>5 DEF ConversationsOf
  <2>4. pc'[d] \in Received => Message1(d)' \in conversations'[local'[d].conversation].heard
    BY <1>1, <2>1, HasConversation(d) DEF KnownGoes, Grows, CallShape, HasConversation
  <2> QED
    BY <1>1, <2>1, <2>2, <2>3, <2>4 DEF KnownGoes
<1> QED
  BY <1>2, <1>3, <1>4, <1>5, <1>6, <1>7 DEF CallShape

-----------------------------------------------------------------------------
(* The counts, when one call moves.                                        *)
LEMMA AbandonedKept ==
  ASSUME TypeOK, SeedsHeld, Abandoned' \subseteq Abandoned, faults' \in Nat, faults <= faults'
  PROVE  SeedsHeld'
<1>1. Abandoned \subseteq DOMAIN leads /\ Abandoned' \subseteq DOMAIN leads
  BY DEF Abandoned
<1>2. IsFiniteSet(Abandoned) /\ Cardinality(Abandoned) \in Nat /\ Cardinality(Abandoned') \in Nat
  BY <1>1, SomeRows DEF TypeOK
<1>3. Cardinality(Abandoned') <= Cardinality(Abandoned)
  BY <1>2, FS_Subset
<1>4. Cardinality(Abandoned)' = Cardinality(Abandoned')
  OBVIOUS
<1> QED
  BY <1>2, <1>3, <1>4 DEF SeedsHeld, TypeOK

LEMMA SeedsKept ==
  ASSUME TypeOK, SeedsHeld, NEW c \in Call, OnlyMoves(c), faults' \in Nat, faults <= faults',
         \A l \in DOMAIN leads' :
           l \in DOMAIN leads /\ leads[l].seeded <= leads'[l].seeded /\ leads'[l].seeded \in Nat,
         pc[c] = "seed" => \/ pc'[c] = "seed" /\ local'[c] = local[c]
                           \/ ~(leads'[local[c].lead].seeded < Rules)
  PROVE  SeedsHeld'
<1>1. ASSUME NEW l \in Abandoned' PROVE l \in Abandoned
  <2>1. /\ l \in DOMAIN leads' /\ leads'[l].seeded < Rules
        /\ \A d \in Call : ~(pc'[d] = "seed" /\ local'[d].lead = l)
    BY DEF Abandoned
  <2>2. l \in DOMAIN leads /\ leads[l].seeded \in Nat
    BY <2>1, LeadTyped
  <2>3. leads[l].seeded < Rules
    BY <2>1, <2>2, CrmBridgeAssumption
  <2>4. ASSUME NEW d \in Call, pc[d] = "seed", local[d].lead = l PROVE FALSE
    <3>1. CASE d # c
      BY <2>1, <2>4, <3>1 DEF OnlyMoves
    <3>2. CASE d = c
      BY <2>1, <2>4, <3>2
    <3> QED
      BY <3>1, <3>2
  <2> QED
    BY <2>2, <2>3, <2>4 DEF Abandoned
<1> QED
  BY <1>1, AbandonedKept

LEMMA TwinsKept ==
  ASSUME TypeOK, TwinsBounded, NEW c \in Call, OnlyMoves(c), pc'[c] # "createLead",
         DOMAIN leads' = DOMAIN leads,
         \A l \in DOMAIN leads : leads'[l].customer = leads[l].customer /\ leads'[l].ad = leads[l].ad
  PROVE  TwinsBounded'
<1> SUFFICES ASSUME NEW customer \in Nat, NEW ad \in Item \cup {NoItem}
             PROVE  Cardinality(Twins(customer, ad)') + Cardinality(Creating(customer, ad)')
                      <= Cardinality(Call)
  BY DEF TwinsBounded
<1>1. Twins(customer, ad)' = Twins(customer, ad)
  BY DEF Twins
<1>2. Creating(customer, ad)' \subseteq Creating(customer, ad)
  BY DEF Creating, OnlyMoves
<1>3. /\ IsFiniteSet(Creating(customer, ad))
      /\ Cardinality(Creating(customer, ad)) \in Nat /\ Cardinality(Creating(customer, ad)') \in Nat
      /\ Cardinality(Call) \in Nat
  BY SomeCalls DEF Creating
<1>4. Cardinality(Creating(customer, ad)') <= Cardinality(Creating(customer, ad))
  BY <1>2, <1>3, FS_Subset
<1>5. Cardinality(Twins(customer, ad)) \in Nat
  BY SomeRows DEF Twins, TypeOK
<1>6. Cardinality(Twins(customer, ad)) + Cardinality(Creating(customer, ad)) <= Cardinality(Call)
  BY DEF TwinsBounded
<1> QED
  BY <1>1, <1>3, <1>4, <1>5, <1>6

LEMMA DealsCounted ==
  ASSUME TypeOK, NEW l
  PROVE  /\ IsFiniteSet(DealsOf(l)) /\ Cardinality(DealsOf(l)) \in Nat
         /\ IsFiniteSet(Linking(l)) /\ Cardinality(Linking(l)) \in Nat
         /\ IsFiniteSet(Dealing(l)) /\ Cardinality(Dealing(l)) \in Nat
         /\ Cardinality(Call) \in Nat /\ faults \in Nat
<1>1. IsFiniteSet(DealsOf(l)) /\ Cardinality(DealsOf(l)) \in Nat
  BY SomeRows DEF DealsOf, TypeOK
<1>2. faults \in Nat
  BY CrmBridgeAssumption DEF TypeOK
<1> QED
  BY <1>1, <1>2, SomeCalls DEF Linking, Dealing

LEMMA DealsKept ==
  ASSUME TypeOK, TypeOK', DealsBounded, NEW c \in Call, OnlyMoves(c), faults <= faults', deals' = deals,
         DOMAIN leads' = DOMAIN leads,
         \A l \in DOMAIN leads : leads'[l].deal = leads[l].deal,
         pc[c] # "linkDeal",
         pc'[c] \in {"seed", "createDeal"} =>
           /\ local'[c].lead = local[c].lead
           /\ pc[c] \in {"seed", "createDeal"} \/ leads[local[c].lead].deal = 0
  PROVE  DealsBounded'
<1> SUFFICES ASSUME NEW l \in DOMAIN leads
             PROVE  IF leads[l].deal = 0
                    THEN Cardinality(DealsOf(l)') <= Cardinality(Linking(l)') + faults'
                    ELSE Cardinality(DealsOf(l)') + Cardinality(Dealing(l)') <= Cardinality(Call) + faults'
  BY DEF DealsBounded
<1>1. DealsOf(l)' = DealsOf(l)
  BY DEF DealsOf
<1>2. Linking(l) \subseteq Linking(l)'
  BY DEF Linking, OnlyMoves
<1>3. leads[l].deal # 0 => Dealing(l)' \subseteq Dealing(l)
  BY DEF Dealing, OnlyMoves
<1>4. /\ Cardinality(DealsOf(l)) \in Nat
      /\ IsFiniteSet(Linking(l)') /\ Cardinality(Linking(l)') \in Nat /\ Cardinality(Linking(l)) \in Nat
      /\ IsFiniteSet(Dealing(l)) /\ Cardinality(Dealing(l)) \in Nat /\ Cardinality(Dealing(l)') \in Nat
      /\ Cardinality(Call) \in Nat /\ faults \in Nat /\ faults' \in Nat
  <2>1. Linking(l)' \subseteq Call /\ Dealing(l)' \subseteq Call
    BY DEF Linking, Dealing
  <2>2. faults' \in Nat
    BY CrmBridgeAssumption DEF TypeOK
  <2> QED
    BY <2>1, <2>2, DealsCounted, SomeCalls
<1>5. Cardinality(Linking(l)) <= Cardinality(Linking(l)')
  BY <1>2, <1>4, FS_Subset
<1>6. leads[l].deal # 0 => Cardinality(Dealing(l)') <= Cardinality(Dealing(l))
  BY <1>3, <1>4, FS_Subset
<1>7. CASE leads[l].deal = 0
  <2>1. Cardinality(DealsOf(l)) <= Cardinality(Linking(l)) + faults
    BY <1>7 DEF DealsBounded
  <2> QED
    BY <1>1, <1>4, <1>5, <1>7, <2>1
<1>8. CASE leads[l].deal # 0
  <2>1. Cardinality(DealsOf(l)) + Cardinality(Dealing(l)) <= Cardinality(Call) + faults
    BY <1>8 DEF DealsBounded
  <2> QED
    BY <1>1, <1>4, <1>6, <1>8, <2>1
<1> QED
  BY <1>7, <1>8

(* A step of a call that leaves leads and deals alone and neither begins   *)
(* nor gives up a part of them.                                            *)
LEMMA CountsKept ==
  ASSUME TypeOK, TypeOK', SeedsHeld, TwinsBounded, DealsBounded, NEW c \in Call, OnlyMoves(c),
         faults <= faults', leads' = leads, deals' = deals,
         pc[c] \notin {"seed", "linkDeal"}, pc'[c] \notin {"createLead", "seed", "createDeal"}
  PROVE  SeedsHeld' /\ TwinsBounded' /\ DealsBounded'
<1>1. faults' \in Nat
  BY CrmBridgeAssumption DEF TypeOK
<1>2. \A l \in DOMAIN leads' :
        l \in DOMAIN leads /\ leads[l].seeded <= leads'[l].seeded /\ leads'[l].seeded \in Nat
  <2> SUFFICES ASSUME NEW l \in DOMAIN leads PROVE leads[l].seeded \in Nat
    OBVIOUS
  <2> QED
    BY LeadTyped
<1>3. SeedsHeld'
  BY <1>1, <1>2, SeedsKept
<1>4. TwinsBounded'
  BY TwinsKept
<1>5. DealsBounded'
  BY DealsKept
<1> QED
  BY <1>3, <1>4, <1>5

-----------------------------------------------------------------------------
(* The steps.                                                              *)

StoresTyped ==
  /\ customers \in Seq(Author) /\ customerRows \in 0..Len(customers)
  /\ conversations \in Seq(Conversation) /\ conversationRows \in 0..Len(conversations)
  /\ listed \subseteq Item /\ leads \in Seq(Lead) /\ deals \in Seq(Deal)
  /\ current \subseteq Call /\ deliveries \in 0..MaxDeliveries /\ faults \in 0..MaxFaults

LEMMA TypeParts == TypeOK <=> StoresTyped /\ CallsTyped
BY DEF TypeOK, StoresTyped, CallsTyped

LEMMA CallMoved ==
  ASSUME CrmInv, NEW c \in Call, OnlyMoves(c), Grows,
         TypeOK', LinksAgree', RowsRefer', CallShape(c)', c \in known' => KnownGoes(c)',
         SeedsHeld', TwinsBounded', DealsBounded'
  PROVE  CrmInv'
<1>1. ASSUME NEW d \in Call PROVE CallShape(d)' /\ (d \in known' => KnownGoes(d)')
  <2>1. CASE d = c
    BY <2>1
  <2>2. CASE d # c
    BY <2>2, OthersStand DEF CrmInv, OnlyMoves
  <2> QED
    BY <2>1, <2>2
<1>2. known' \subseteq Call
  BY DEF TypeOK
<1> QED
  BY <1>1, <1>2 DEF CrmInv

LEMMA StoresStand ==
  ASSUME CrmInv, UNCHANGED stores
  PROVE  Grows /\ LinksAgree' /\ RowsRefer'
<1>1. Grows
  BY DEF stores, Grows, CrmInv, TypeOK
<1>2. LinksAgree' /\ RowsRefer'
  BY DEF stores, CrmInv, LinksAgree, RowsRefer, WritesIn
<1> QED
  BY <1>1, <1>2

(* A step that only looks something up.                                    *)
LEMMA LookedUp ==
  ASSUME CrmInv, NEW c \in Call, NEW step \in Pc, NEW found \in Local, Goto(c, step, found),
         UNCHANGED <<stores, todo, known, deliveries, faults>>, current' \subseteq Call,
         pc[c] \notin {"seed", "linkDeal"}, step \notin {"createLead", "seed", "createDeal"},
         CallShape(c)', c \in known => KnownGoes(c)'
  PROVE  CrmInv'
<1>1. CallsTyped' /\ OnlyMoves(c) /\ pc'[c] = step
  BY GoesOn DEF CrmInv
<1>2. TypeOK'
  <2>1. StoresTyped'
    BY TypeParts DEF StoresTyped, stores, CrmInv
  <2>2. (StoresTyped /\ CallsTyped)'
    BY <1>1, <2>1
  <2>3. TypeOK' <=> (StoresTyped /\ CallsTyped)'
    BY TypeParts, PTL
  <2> QED
    BY <2>2, <2>3
<1>3. SeedsHeld' /\ TwinsBounded' /\ DealsBounded'
  BY <1>1, <1>2, CountsKept, FaultsTyped DEF CrmInv, stores
<1> QED
  BY <1>1, <1>2, <1>3, StoresStand, CallMoved

(* A step by which a call begins, or leaves its message.                   *)
LEMMA TookUp ==
  ASSUME CrmInv, NEW c \in Call, NEW messages \in Seq(Message), TakeUp(c, messages),
         UNCHANGED stores, current' \subseteq Call,
         deliveries' \in 0..MaxDeliveries, faults' \in 0..MaxFaults, faults <= faults',
         pc[c] \notin {"seed", "linkDeal"}
  PROVE  CrmInv'
<1>1. /\ CallsTyped' /\ OnlyMoves(c) /\ pc'[c] \in {"idle", "customer"}
      /\ CallShape(c)' /\ (c \in known' => KnownGoes(c)')
  BY TakesUp DEF CrmInv, stores
<1>2. TypeOK'
  <2>1. StoresTyped'
    BY TypeParts DEF StoresTyped, stores, CrmInv
  <2>2. TypeOK' <=> (StoresTyped /\ CallsTyped)'
    BY TypeParts, PTL
  <2> QED
    BY <1>1, <2>1, <2>2
<1>3. SeedsHeld' /\ TwinsBounded' /\ DealsBounded'
  BY <1>1, <1>2, CountsKept DEF CrmInv, stores
<1> QED
  BY <1>1, <1>2, <1>3, StoresStand, CallMoved

LEMMA BeginKeeps ==
  ASSUME CrmInv, NEW c \in Call, Webhook(c) \/ Poll(c)
  PROVE  CrmInv'
<1>1. PICK messages \in Seq(Message) : Begin(c, messages)
  <2>1. CASE Webhook(c)
    <3>1. PICK m \in Message : Begin(c, <<m>>)
      BY <2>1 DEF Webhook
    <3>2. <<m>> \in Seq(Message)
      OBVIOUS
    <3> QED
      BY <3>1, <3>2
  <2>2. CASE Poll(c)
    BY <2>2, CrmBridgeAssumption DEF Poll
  <2> QED
    BY <2>1, <2>2
<1>2. deliveries' \in 0..MaxDeliveries /\ faults' \in 0..MaxFaults /\ faults <= faults'
  <2>1. deliveries \in 0..MaxDeliveries /\ faults \in 0..MaxFaults /\ MaxDeliveries \in Nat /\ TypeOK
    BY CrmBridgeAssumption DEF CrmInv, TypeOK
  <2>2. deliveries < MaxDeliveries /\ deliveries' = deliveries + 1 /\ faults' = faults
    BY <1>1 DEF Webhook, Poll, Begin
  <2> QED
    BY <2>1, <2>2, FaultsTyped
<1>3. /\ TakeUp(c, messages) /\ UNCHANGED stores /\ current' \subseteq Call
      /\ pc[c] = "idle"
  BY <1>1 DEF Begin, CrmInv, TypeOK
<1> QED
  BY <1>2, <1>3, TookUp

LEMMA FindCustomerKeeps ==
  ASSUME CrmInv, NEW c \in Call, FindCustomer(c)
  PROVE  CrmInv'
<1> DEFINE author == AuthorOf[Message1(c)]
<1>0. /\ TypeOK /\ pc[c] = "customer" /\ CallShape(c) /\ (c \in known => KnownGoes(c)) /\ local[c] \in Local
      /\ UNCHANGED <<stores, todo, known, deliveries, faults>> /\ current' \subseteq Call
  BY DEF CrmInv, FindCustomer, TypeOK
<1>1. CASE \E k \in CustomersOf(author) : Goto(c, "ad", [local[c] EXCEPT !.customer = k])
  <2>1. PICK k \in CustomersOf(author) : Goto(c, "ad", [local[c] EXCEPT !.customer = k])
    BY <1>1
  <2> DEFINE found == [local[c] EXCEPT !.customer = k]
  <2>2. k \in DOMAIN customers /\ k \in Nat /\ customers[k] = author
    BY <1>0, <2>1, RowsKnown DEF CustomersOf, TypeOK
  <2>3. found \in Local /\ found.customer = k /\ found.conversation = local[c].conversation
    BY <1>0, <2>2 DEF Local
  <2>4. pc'[c] = "ad" /\ local'[c] = found /\ Message1(c)' = Message1(c) /\ todo' = todo
    BY <1>0, <2>1, <2>3, GoesOn DEF Pc
  <2>5. CallShape(c)'
    BY <1>0, <2>2, <2>3, <2>4 DEF CallShape, IdleIsBlank, HasCustomer, HasConversation, HasLead, HasDeal, stores,
       WithCustomer, WithConversation, Received, WithLead
  <2>6. c \in known => KnownGoes(c)'
    BY <1>0, <2>4 DEF KnownGoes, CustomersOf, ConversationsOf, stores, Received, WithLead
  <2> HIDE DEF found
  <2> QED
    BY <1>0, <2>1, <2>3, <2>5, <2>6, LookedUp DEF Pc, found
<1>2. CASE CustomersOf(author) = {} /\ Goto(c, "createCustomer", local[c])
  <2>1. pc'[c] = "createCustomer" /\ local'[c] = local[c] /\ Message1(c)' = Message1(c)
    BY <1>0, <1>2, GoesOn DEF Pc
  <2>2. CallShape(c)'
    BY <1>0, <2>1 DEF CallShape, IdleIsBlank, HasCustomer, HasConversation, HasLead, HasDeal, stores,
       WithCustomer, WithConversation, Received, WithLead
  <2>3. c \notin known
    BY <1>0, <1>2 DEF KnownGoes
  <2> QED
    BY <1>0, <1>2, <2>2, <2>3, LookedUp DEF Pc
<1> QED
  BY <1>1, <1>2 DEF FindCustomer

(* The customer, the ad and the conversation: aggregates and their rows.   *)
LEMMA CreateCustomerKeeps ==
  ASSUME CrmInv, NEW c \in Call, CreateCustomer(c)
  PROVE  CrmInv'
<1> DEFINE author == AuthorOf[Message1(c)]
           n == Len(customers) + 1
           found == [local[c] EXCEPT !.customer = n]
<1>1. /\ TypeOK /\ pc[c] = "createCustomer" /\ CallShape(c) /\ local[c] \in Local
      /\ customers \in Seq(Author) /\ n \in Nat
      /\ c \notin known
  <2>1. customers \in Seq(Author) /\ n \in Nat
    BY DEF CrmInv, TypeOK
  <2> QED
    BY <2>1 DEF CrmInv, CreateCustomer, TypeOK, KnownGoes, Received, WithLead
<1>2. author \in Author
  BY <1>1, MessageTyped DEF CallShape
<1>3. /\ customers' = Append(customers, author) /\ Goto(c, "rereadCustomer", found)
      /\ UNCHANGED <<customerRows, conversations, conversationRows, listed, leads, deals>>
      /\ UNCHANGED <<todo, known, current, deliveries, faults>>
  BY DEF CreateCustomer
<1>4. found \in Local /\ found.customer = n /\ found.conversation = local[c].conversation
  BY <1>1 DEF Local
<1>5. /\ CallsTyped' /\ OnlyMoves(c) /\ pc'[c] = "rereadCustomer" /\ local'[c] = found
      /\ Message1(c)' = Message1(c)
  <2> HIDE DEF found
  <2> QED
    BY <1>1, <1>3, <1>4, GoesOn DEF Pc
<1>6. /\ customers' \in Seq(Author) /\ Len(customers') = n
      /\ DOMAIN customers' = DOMAIN customers \cup {n}
      /\ customers'[n] = author /\ \A k \in DOMAIN customers : customers'[k] = customers[k]
  BY <1>1, <1>2, <1>3, RowAdded
<1>7. TypeOK'
  <2>1. customerRows' \in 0..Len(customers')
    BY <1>1, <1>3, <1>6 DEF TypeOK
  <2> QED
    BY <1>1, <1>3, <1>5, <1>6, <2>1 DEF TypeOK, CallsTyped
<1>8. Grows
  BY <1>1, <1>3, <1>6 DEF Grows, TypeOK
<1>9. CallShape(c)'
  BY <1>1, <1>3, <1>4, <1>5, <1>6 DEF CallShape, IdleIsBlank, HasCustomer, HasConversation, HasLead, HasDeal,
     WithCustomer, WithConversation, Received, WithLead
<1>10. LinksAgree' /\ RowsRefer'
  <2>1. \A k \in DOMAIN customers : \A chat : WritesIn(k, chat) => WritesIn(k, chat)'
    BY <1>6 DEF WritesIn
  <2> QED
    BY <1>3, <1>6, <2>1 DEF CrmInv, LinksAgree, RowsRefer
<1>11. SeedsHeld' /\ TwinsBounded' /\ DealsBounded'
  BY <1>1, <1>3, <1>5, <1>7, CountsKept, FaultsTyped DEF CrmInv
<1>12. c \notin known'
  BY <1>1, <1>3
<1> QED
  BY <1>5, <1>7, <1>8, <1>9, <1>10, <1>11, <1>12, CallMoved

LEMMA RereadCustomerKeeps ==
  ASSUME CrmInv, NEW c \in Call, RereadCustomer(c)
  PROVE  CrmInv'
<1>1. /\ TypeOK /\ pc[c] = "rereadCustomer" /\ CallShape(c) /\ local[c] \in Local
      /\ c \notin known /\ UNCHANGED <<stores, current, deliveries, faults>> /\ current' \subseteq Call
  BY DEF CrmInv, RereadCustomer, TypeOK, KnownGoes, Received, WithLead
<1>2. CASE Goto(c, "ad", local[c]) /\ UNCHANGED <<todo, known>>
  <2>1. pc'[c] = "ad" /\ local'[c] = local[c] /\ Message1(c)' = Message1(c)
    BY <1>1, <1>2, GoesOn DEF Pc
  <2>2. CallShape(c)'
    BY <1>1, <1>2, <2>1 DEF CallShape, IdleIsBlank, HasCustomer, HasConversation, HasLead, HasDeal, stores,
       WithCustomer, WithConversation, Received, WithLead
  <2> QED
    BY <1>1, <1>2, <2>2, LookedUp DEF Pc
<1>3. CASE NextMessage(c)
  <2>1. Tail(todo[c]) \in Seq(Message)
    BY <1>1, MessageTyped DEF CallShape
  <2> QED
    BY <1>1, <1>3, <2>1, BoundsStand, TookUp DEF NextMessage
<1> QED
  BY <1>2, <1>3 DEF RereadCustomer

LEMMA FindAdKeeps ==
  ASSUME CrmInv, NEW c \in Call, FindAd(c)
  PROVE  CrmInv'
<1> DEFINE item == ItemOf[Message1(c)]
           ad == IF item \in listed THEN item ELSE NoItem
           found == [local[c] EXCEPT !.ad = ad]
<1>1. /\ TypeOK /\ pc[c] = "ad" /\ CallShape(c) /\ local[c] \in Local
      /\ UNCHANGED <<stores, todo, known, deliveries, faults>> /\ current' \subseteq Call
      /\ Goto(c, "conversation", found) /\ (c \in known => KnownGoes(c))
  BY DEF CrmInv, FindAd, TypeOK
<1>2. found \in Local /\ found.customer = local[c].customer /\ found.conversation = local[c].conversation
  BY <1>1, MessageTyped DEF Local, CallShape
<1> HIDE DEF found
<1>3. pc'[c] = "conversation" /\ local'[c] = found /\ Message1(c)' = Message1(c)
  BY <1>1, <1>2, GoesOn DEF Pc
<1>4. CallShape(c)'
  BY <1>1, <1>2, <1>3 DEF CallShape, IdleIsBlank, HasCustomer, HasConversation, HasLead, HasDeal, stores,
     WithCustomer, WithConversation, Received, WithLead
<1>5. c \in known => KnownGoes(c)'
  BY <1>1, <1>3 DEF KnownGoes, CustomersOf, ConversationsOf, stores, Received, WithLead
<1> QED
  BY <1>1, <1>2, <1>4, <1>5, LookedUp DEF Pc

LEMMA FindConversationKeeps ==
  ASSUME CrmInv, NEW c \in Call, FindConversation(c)
  PROVE  CrmInv'
<1> DEFINE chat == ChatOf[Message1(c)]
<1>0. /\ TypeOK /\ pc[c] = "conversation" /\ CallShape(c) /\ (c \in known => KnownGoes(c)) /\ local[c] \in Local
      /\ UNCHANGED <<stores, todo, known, deliveries, faults>> /\ current' \subseteq Call
  BY DEF CrmInv, FindConversation, TypeOK
<1>1. CASE \E k \in ConversationsOf(chat) : Goto(c, "load", [local[c] EXCEPT !.conversation = k])
  <2>1. PICK k \in ConversationsOf(chat) : Goto(c, "load", [local[c] EXCEPT !.conversation = k])
    BY <1>1
  <2> DEFINE found == [local[c] EXCEPT !.conversation = k]
  <2>2. k \in DOMAIN conversations /\ k \in Nat /\ k # 0 /\ conversations[k].chat = chat
    BY <1>0, <2>1, RowsKnown DEF ConversationsOf, TypeOK
  <2>3. found \in Local /\ found.customer = local[c].customer /\ found.conversation = k
    BY <1>0, <2>2 DEF Local
  <2>4. pc'[c] = "load" /\ local'[c] = found /\ Message1(c)' = Message1(c) /\ todo' = todo
    BY <1>0, <2>1, <2>3, GoesOn DEF Pc
  <2> HIDE DEF found
  <2>5. CallShape(c)'
    BY <1>0, <2>2, <2>3, <2>4 DEF CallShape, IdleIsBlank, HasCustomer, HasConversation, HasLead, HasDeal, stores,
       WithCustomer, WithConversation, Received, WithLead
  <2>6. c \in known => KnownGoes(c)'
    BY <1>0, <2>4 DEF KnownGoes, CustomersOf, ConversationsOf, stores, Received, WithLead
  <2> QED
    BY <1>0, <2>1, <2>3, <2>5, <2>6, LookedUp DEF Pc, found
<1>2. CASE ConversationsOf(chat) = {} /\ Goto(c, "start", local[c])
  <2>1. pc'[c] = "start" /\ local'[c] = local[c] /\ Message1(c)' = Message1(c)
    BY <1>0, <1>2, GoesOn DEF Pc
  <2>2. CallShape(c)'
    BY <1>0, <2>1 DEF CallShape, IdleIsBlank, HasCustomer, HasConversation, HasLead, HasDeal, stores,
       WithCustomer, WithConversation, Received, WithLead
  <2>3. c \notin known
    BY <1>0, <1>2 DEF KnownGoes
  <2> QED
    BY <1>0, <1>2, <2>2, <2>3, LookedUp DEF Pc
<1> QED
  BY <1>1, <1>2 DEF FindConversation

LEMMA StartConversationKeeps ==
  ASSUME CrmInv, NEW c \in Call, StartConversation(c)
  PROVE  CrmInv'
<1> DEFINE chat == ChatOf[Message1(c)]
           n == Len(conversations) + 1
           found == [local[c] EXCEPT !.conversation = n]
           row == [chat |-> chat, customer |-> local[c].customer, heard |-> {}]
<1>1. /\ TypeOK /\ pc[c] = "start" /\ CallShape(c) /\ local[c] \in Local
      /\ conversations \in Seq(Conversation) /\ n \in Nat
      /\ c \notin known
  <2>1. conversations \in Seq(Conversation) /\ n \in Nat
    BY DEF CrmInv, TypeOK
  <2> QED
    BY <2>1 DEF CrmInv, StartConversation, TypeOK, KnownGoes, Received, WithLead
<1>2. /\ Message1(c) \in Message /\ chat \in Chat
      /\ local[c].customer \in DOMAIN customers
      /\ customers[local[c].customer] = AuthorOf[Message1(c)]
  BY <1>1, MessageTyped DEF CallShape, HasCustomer, WithCustomer
<1>3. /\ conversations' = Append(conversations, row) /\ Goto(c, "rereadConversation", found)
      /\ UNCHANGED <<customers, customerRows, conversationRows, listed, leads, deals>>
      /\ UNCHANGED <<todo, known, current, deliveries, faults>>
  BY DEF StartConversation
<1>4. found \in Local /\ found.customer = local[c].customer /\ found.conversation = n
  BY <1>1 DEF Local
<1>5. /\ CallsTyped' /\ OnlyMoves(c) /\ pc'[c] = "rereadConversation" /\ local'[c] = found
      /\ Message1(c)' = Message1(c)
  <2> HIDE DEF found
  <2> QED
    BY <1>1, <1>3, <1>4, GoesOn DEF Pc
<1>6. row \in Conversation
  BY <1>1, <1>2 DEF Conversation, Local
<1>7. /\ conversations' \in Seq(Conversation) /\ Len(conversations') = n /\ n # 0
      /\ DOMAIN conversations' = DOMAIN conversations \cup {n}
      /\ conversations'[n] = row
      /\ \A k \in DOMAIN conversations : conversations'[k] = conversations[k]
  BY <1>1, <1>3, <1>6, RowAdded
<1>8. TypeOK'
  <2>1. conversationRows' \in 0..Len(conversations')
    BY <1>1, <1>3, <1>7 DEF TypeOK
  <2> QED
    BY <1>1, <1>3, <1>5, <1>7, <2>1 DEF TypeOK, CallsTyped
<1>9. Grows
  BY <1>1, <1>3, <1>7 DEF Grows, TypeOK
<1>10. CallShape(c)'
  BY <1>1, <1>3, <1>4, <1>5, <1>7 DEF CallShape, IdleIsBlank, HasCustomer, HasConversation, HasLead, HasDeal,
     WithCustomer, WithConversation, Received, WithLead
<1>11. LinksAgree' /\ RowsRefer'
  <2>1. \A k, x : WritesIn(k, x)' <=> WritesIn(k, x)
    BY <1>3 DEF WritesIn
  <2>2. WritesIn(row.customer, row.chat)
    BY <1>2 DEF WritesIn
  <2>3. row.customer = local[c].customer /\ row.heard = {} /\ row.chat = chat
    OBVIOUS
  <2> HIDE DEF row
  <2>4. ASSUME NEW k \in DOMAIN conversations'
        PROVE
          /\ WritesIn(conversations[k].customer, conversations[k].chat)'
          /\ \A m \in conversations'[k].heard : ChatOf[m] = conversations'[k].chat
          /\ conversations'[k].customer \in DOMAIN customers'
    BY <1>2, <1>3, <1>7, <2>1, <2>2, <2>3 DEF CrmInv, LinksAgree, RowsRefer
  <2>5. ASSUME NEW l \in DOMAIN leads', leads'[l].conversation # 0
        PROVE  WritesIn(leads[l].customer, conversations[leads[l].conversation].chat)'
    BY <1>3, <1>7, <2>1, <2>5 DEF CrmInv, LinksAgree, RowsRefer
  <2> QED
    BY <1>3, <1>7, <2>4, <2>5 DEF CrmInv, LinksAgree, RowsRefer
<1>12. SeedsHeld' /\ TwinsBounded' /\ DealsBounded'
  BY <1>1, <1>3, <1>5, <1>8, CountsKept, FaultsTyped DEF CrmInv
<1>13. c \notin known'
  BY <1>1, <1>3
<1> QED
  BY <1>5, <1>8, <1>9, <1>10, <1>11, <1>12, <1>13, CallMoved

LEMMA RereadConversationKeeps ==
  ASSUME CrmInv, NEW c \in Call, RereadConversation(c)
  PROVE  CrmInv'
<1>1. /\ TypeOK /\ pc[c] = "rereadConversation" /\ CallShape(c) /\ local[c] \in Local /\ c \notin known
      /\ UNCHANGED <<stores, todo, known, deliveries, faults>> /\ current' \subseteq Call
  BY DEF CrmInv, RereadConversation, TypeOK, KnownGoes, Received, WithLead
<1>2. PICK step \in {"load", "lead"}, found \in {local[c], [local[c] EXCEPT !.conversation = 0]} :
        Goto(c, step, found) /\ (step = "load" => found = local[c])
  BY DEF RereadConversation
<1>3. found \in Local /\ found.customer = local[c].customer /\ found.conversation \in {0, local[c].conversation}
  BY <1>1, <1>2 DEF Local
<1>4. pc'[c] = step /\ local'[c] = found /\ Message1(c)' = Message1(c)
  BY <1>1, <1>2, <1>3, GoesOn DEF Pc
<1>5. CallShape(c)'
  BY <1>1, <1>2, <1>3, <1>4 DEF CallShape, IdleIsBlank, HasCustomer, HasConversation, HasLead, HasDeal, stores,
     WithCustomer, WithConversation, Received, WithLead
<1> QED
  BY <1>1, <1>2, <1>3, <1>5, LookedUp DEF Pc

LEMMA LoadConversationKeeps ==
  ASSUME CrmInv, NEW c \in Call, LoadConversation(c)
  PROVE  CrmInv'
<1>1. /\ TypeOK /\ pc[c] = "load" /\ CallShape(c) /\ local[c] \in Local /\ (c \in known => KnownGoes(c))
      /\ UNCHANGED <<stores, todo, known, deliveries, faults>> /\ current' \subseteq Call
      /\ Goto(c, "receive", local[c])
  BY DEF CrmInv, LoadConversation, TypeOK
<1>2. pc'[c] = "receive" /\ local'[c] = local[c] /\ Message1(c)' = Message1(c)
  BY <1>1, GoesOn DEF Pc
<1>3. CallShape(c)'
  BY <1>1, <1>2 DEF CallShape, IdleIsBlank, HasCustomer, HasConversation, HasLead, HasDeal, stores,
     WithCustomer, WithConversation, Received, WithLead
<1>4. c \in known => KnownGoes(c)'
  BY <1>1, <1>2 DEF KnownGoes, CustomersOf, ConversationsOf, stores, Received, WithLead
<1> QED
  BY <1>1, <1>3, <1>4, LookedUp DEF Pc

LEMMA ReceiveInboundKeeps ==
  ASSUME CrmInv, NEW c \in Call, ReceiveInbound(c)
  PROVE  CrmInv'
<1> DEFINE k == local[c].conversation
           row == [conversations[k] EXCEPT !.heard = @ \cup {Message1(c)}]
<1>1. /\ TypeOK /\ pc[c] = "receive" /\ CallShape(c) /\ local[c] \in Local /\ (c \in known => KnownGoes(c))
      /\ conversations \in Seq(Conversation)
      /\ Goto(c, "lead", local[c]) /\ current' \subseteq Call
      /\ conversations' = [conversations EXCEPT ![k] = row]
      /\ UNCHANGED <<customers, customerRows, conversationRows, listed, leads, deals>>
      /\ UNCHANGED <<todo, known, deliveries, faults>>
  BY DEF CrmInv, ReceiveInbound, TypeOK
<1>2. /\ k # 0 /\ k \in DOMAIN conversations /\ conversations[k].chat = ChatOf[Message1(c)]
      /\ Message1(c) \in Message
  BY <1>1, MessageTyped DEF CallShape, HasConversation, WithConversation
<1>3. /\ row \in Conversation
      /\ row.chat = conversations[k].chat /\ row.customer = conversations[k].customer
      /\ row.heard = conversations[k].heard \cup {Message1(c)}
  <2>1. conversations[k] \in Conversation
    BY <1>1, <1>2, RowTyped
  <2> QED
    BY <1>2, <2>1 DEF Conversation
<1> HIDE DEF row
<1>4. /\ conversations' \in Seq(Conversation) /\ Len(conversations') = Len(conversations)
      /\ DOMAIN conversations' = DOMAIN conversations
      /\ conversations'[k] = row
      /\ \A x \in DOMAIN conversations \ {k} : conversations'[x] = conversations[x]
  BY <1>1, <1>2, <1>3, RowChanged
<1>5. /\ CallsTyped' /\ OnlyMoves(c) /\ pc'[c] = "lead" /\ local'[c] = local[c] /\ Message1(c)' = Message1(c)
  BY <1>1, GoesOn DEF Pc
<1>6. TypeOK'
  BY <1>1, <1>4, <1>5 DEF TypeOK, CallsTyped
<1>7. \A x \in DOMAIN conversations :
        /\ conversations'[x].chat = conversations[x].chat
        /\ conversations'[x].customer = conversations[x].customer
        /\ conversations[x].heard \subseteq conversations'[x].heard
        /\ \A m \in conversations'[x].heard : m \in conversations[x].heard \/ (x = k /\ m = Message1(c))
  <2> SUFFICES ASSUME NEW x \in DOMAIN conversations
               PROVE  /\ conversations'[x].chat = conversations[x].chat
                      /\ conversations'[x].customer = conversations[x].customer
                      /\ conversations[x].heard \subseteq conversations'[x].heard
                      /\ \A m \in conversations'[x].heard :
                           m \in conversations[x].heard \/ (x = k /\ m = Message1(c))
    OBVIOUS
  <2>1. CASE x = k
    BY <1>3, <1>4, <2>1
  <2>2. CASE x # k
    BY <1>4, <2>2
  <2> QED
    BY <2>1, <2>2
<1>8. Grows
  BY <1>1, <1>4, <1>7 DEF Grows, TypeOK
<1>9. CallShape(c)'
  BY <1>1, <1>2, <1>4, <1>5, <1>7 DEF CallShape, IdleIsBlank, HasCustomer, HasConversation, HasLead, HasDeal,
     WithCustomer, WithConversation, Received, WithLead
<1>10. ASSUME c \in known' PROVE KnownGoes(c)'
  <2>1. KnownGoes(c)
    BY <1>1, <1>10
  <2>2. \A chat : ConversationsOf(chat)' = ConversationsOf(chat)
    <3> SUFFICES ASSUME NEW chat, NEW x PROVE x \in ConversationsOf(chat)' <=> x \in ConversationsOf(chat)
      OBVIOUS
    <3>1. \A y \in 1..conversationRows : y \in DOMAIN conversations
      BY <1>1 DEF TypeOK
    <3> QED
      BY <1>1, <1>7, <3>1 DEF ConversationsOf
  <2>3. \A author : CustomersOf(author)' = CustomersOf(author)
    BY <1>1 DEF CustomersOf
  <2>4. Message1(c) \in conversations'[k].heard
    BY <1>3, <1>4
  <2> QED
    BY <1>2, <1>5, <2>1, <2>2, <2>3, <2>4 DEF KnownGoes, Received, WithLead
<1>11. LinksAgree' /\ RowsRefer'
  <2>1. \A x, y : WritesIn(x, y)' <=> WritesIn(x, y)
    BY <1>1 DEF WritesIn
  <2>2. ASSUME NEW x \in DOMAIN conversations'
        PROVE
          /\ WritesIn(conversations[x].customer, conversations[x].chat)'
          /\ \A m \in conversations'[x].heard : ChatOf[m] = conversations'[x].chat
          /\ conversations'[x].customer \in DOMAIN customers'
    BY <1>1, <1>2, <1>4, <1>7, <2>1 DEF CrmInv, LinksAgree, RowsRefer
  <2>3. ASSUME NEW l \in DOMAIN leads', leads'[l].conversation # 0
        PROVE  WritesIn(leads[l].customer, conversations[leads[l].conversation].chat)'
    BY <1>1, <1>4, <1>7, <2>1, <2>3 DEF CrmInv, LinksAgree, RowsRefer
  <2> QED
    BY <1>1, <1>4, <2>2, <2>3 DEF CrmInv, LinksAgree, RowsRefer
<1>12. SeedsHeld' /\ TwinsBounded' /\ DealsBounded'
  BY <1>1, <1>5, <1>6, CountsKept, FaultsTyped DEF CrmInv
<1> QED
  BY <1>5, <1>6, <1>8, <1>9, <1>10, <1>11, <1>12, CallMoved

LEMMA ConflictKeeps ==
  ASSUME CrmInv, NEW c \in Call, Conflict(c)
  PROVE  CrmInv'
<1>1. /\ TypeOK /\ pc[c] = "receive" /\ TakeUp(c, <<>>) /\ UNCHANGED <<stores, deliveries, faults>>
      /\ current' \subseteq Call
  BY DEF CrmInv, Conflict, Abort, TypeOK
<1>2. <<>> \in Seq(Message)
  OBVIOUS
<1> QED
  BY <1>1, <1>2, BoundsStand, TookUp

-----------------------------------------------------------------------------
(* The lead, its follow-ups and its deal.                                  *)

(* Where a call stands when it has received its message.                   *)
LEMMA AtLead ==
  ASSUME CrmInv, NEW c \in Call, pc[c] \in Received
  PROVE  /\ TypeOK /\ local[c] \in Local /\ (c \in known => KnownGoes(c)) /\ CallShape(c)
         /\ Message1(c) \in Message /\ Tail(todo[c]) \in Seq(Message)
         /\ local[c].customer \in DOMAIN customers /\ local[c].customer \in Nat
         /\ customers[local[c].customer] = AuthorOf[Message1(c)]
         /\ local[c].ad \in Item \cup {NoItem}
         /\ local[c].conversation \in {0} \cup DOMAIN conversations
         /\ local[c].conversation # 0 =>
              WritesIn(local[c].customer, conversations[local[c].conversation].chat)
<1>1. TypeOK /\ CallShape(c) /\ local[c] \in Local /\ pc[c] # "idle" /\ (c \in known => KnownGoes(c))
  BY DEF CrmInv, TypeOK, Received, WithLead
<1>2. Message1(c) \in Message /\ Tail(todo[c]) \in Seq(Message)
  BY <1>1, MessageTyped DEF CallShape
<1>3. local[c].customer \in Nat /\ local[c].ad \in Item \cup {NoItem}
  BY <1>1 DEF Local
<1>4. local[c].customer \in DOMAIN customers /\ customers[local[c].customer] = AuthorOf[Message1(c)]
  BY <1>1 DEF CallShape, HasCustomer, WithCustomer
<1>5. ASSUME local[c].conversation # 0
      PROVE  /\ local[c].conversation \in DOMAIN conversations
             /\ conversations[local[c].conversation].chat = ChatOf[Message1(c)]
  BY <1>1, <1>5 DEF CallShape, HasConversation
<1> QED
  BY <1>1, <1>2, <1>3, <1>4, <1>5 DEF WritesIn

(* ensureFromMessage has returned.                                         *)
LEMMA AfterLeadGoes ==
  ASSUME CrmInv, NEW c \in Call, pc[c] \in WithLead, NEW deal, AfterLead(c, deal), Grows,
         UNCHANGED <<customers, customerRows, conversations, conversationRows>>
  PROVE  /\ CallsTyped' /\ OnlyMoves(c)
         /\ pc'[c] \in {"idle", "customer", "createDeal"}
         /\ pc'[c] = "createDeal" => deal = 0 /\ local'[c] = local[c]
         /\ CallShape(c)' /\ (c \in known' => KnownGoes(c)')
<1>1. /\ TypeOK /\ CallShape(c) /\ local[c] \in Local /\ (c \in known => KnownGoes(c))
      /\ Tail(todo[c]) \in Seq(Message)
  BY AtLead DEF Received
<1>2. CASE deal = 0 /\ local[c].ad # NoItem /\ Goto(c, "createDeal", local[c]) /\ UNCHANGED <<todo, known>>
  <2>1. /\ CallsTyped' /\ OnlyMoves(c)
        /\ pc'[c] = "createDeal" /\ local'[c] = local[c] /\ Message1(c)' = Message1(c)
    BY <1>1, <1>2, GoesOn DEF Pc
  <2>2. CallShape(c)'
    BY <1>1, <1>2, <2>1 DEF CallShape, IdleIsBlank, HasCustomer, HasConversation, HasLead, HasDeal, Grows,
       WithCustomer, WithConversation, Received, WithLead
  <2>3. c \in known' => KnownGoes(c)'
    BY <1>1, <1>2, <2>1 DEF KnownGoes, CustomersOf, ConversationsOf, Received, WithLead
  <2> QED
    BY <1>2, <2>1, <2>2, <2>3
<1>3. CASE NextMessage(c)
  BY <1>1, <1>3, TakesUp DEF NextMessage
<1> QED
  BY <1>2, <1>3 DEF AfterLead

(* A change of a lead that is neither its key nor its deal.                *)
LEMMA LeadTouched ==
  ASSUME CrmInv, NEW l \in DOMAIN leads, NEW row \in Lead,
         leads' = [leads EXCEPT ![l] = row],
         row.customer = leads[l].customer, row.ad = leads[l].ad, row.deal = leads[l].deal,
         row.seeded >= leads[l].seeded, row.conversation \in {0} \cup DOMAIN conversations,
         row.conversation # 0 => WritesIn(row.customer, conversations[row.conversation].chat),
         UNCHANGED <<customers, customerRows, conversations, conversationRows, deals>>
  PROVE  /\ leads' \in Seq(Lead) /\ Grows /\ LinksAgree' /\ RowsRefer'
         /\ DOMAIN leads' = DOMAIN leads /\ leads'[l] = row
         /\ \A k \in DOMAIN leads :
              /\ leads'[k].customer = leads[k].customer /\ leads'[k].ad = leads[k].ad
              /\ leads'[k].deal = leads[k].deal
              /\ leads[k].seeded <= leads'[k].seeded /\ leads'[k].seeded \in Nat
<1>1. /\ TypeOK /\ leads \in Seq(Lead) /\ Rules \in Nat
      /\ customerRows \in Nat /\ conversationRows \in Nat
  BY CrmBridgeAssumption DEF CrmInv, TypeOK
<1>2. /\ leads' \in Seq(Lead) /\ DOMAIN leads' = DOMAIN leads /\ leads'[l] = row
      /\ \A k \in DOMAIN leads \ {l} : leads'[k] = leads[k]
  BY <1>1, RowChanged
<1>3. ASSUME NEW k \in DOMAIN leads
      PROVE  /\ leads'[k].customer = leads[k].customer /\ leads'[k].ad = leads[k].ad
             /\ leads'[k].deal = leads[k].deal
             /\ leads[k].seeded <= leads'[k].seeded /\ leads'[k].seeded \in Nat
             /\ leads'[k].conversation # leads[k].conversation => k = l
  <2>1. leads[k].seeded \in Nat
    BY <1>1, LeadTyped
  <2>2. row.seeded \in Nat
    BY <1>1 DEF Lead
  <2>3. CASE k = l
    BY <1>2, <2>1, <2>2, <2>3
  <2>4. CASE k # l
    BY <1>2, <2>1, <2>4
  <2> QED
    BY <2>3, <2>4
<1>4. Grows
  BY <1>1, <1>2, <1>3 DEF Grows
<1>5. \A x, y : WritesIn(x, y)' <=> WritesIn(x, y)
  BY DEF WritesIn
<1>6. ASSUME NEW k \in DOMAIN leads
      PROVE  /\ leads'[k].conversation \in {0} \cup DOMAIN conversations
             /\ leads'[k].conversation # 0 =>
                  WritesIn(leads[k].customer, conversations[leads'[k].conversation].chat)
  <2>1. CASE k = l
    BY <1>2, <2>1
  <2>2. CASE k # l
    BY <1>2, <2>2 DEF CrmInv, LinksAgree, RowsRefer
  <2> QED
    BY <2>1, <2>2
<1>7. RowsRefer'
  BY <1>2, <1>3, <1>6 DEF CrmInv, RowsRefer
<1>8. LinksAgree'
  <2>1. ASSUME NEW k \in DOMAIN leads', leads'[k].conversation # 0
        PROVE  WritesIn(leads[k].customer, conversations[leads[k].conversation].chat)'
    BY <1>2, <1>3, <1>5, <1>6, <2>1
  <2>2. ASSUME NEW k \in DOMAIN leads', leads'[k].deal # 0
        PROVE  LET d == deals'[leads'[k].deal] IN
               d.lead = k /\ d.ad = leads'[k].ad /\ d.customer = leads'[k].customer
    BY <1>2, <1>3, <2>2 DEF CrmInv, LinksAgree
  <2>3. ASSUME NEW k \in DOMAIN conversations'
        PROVE  /\ WritesIn(conversations[k].customer, conversations[k].chat)'
               /\ \A m \in conversations'[k].heard : ChatOf[m] = conversations'[k].chat
    BY <1>5 DEF CrmInv, LinksAgree
  <2> QED
    BY <2>1, <2>2, <2>3 DEF LinksAgree
<1> QED
  BY <1>2, <1>3, <1>4, <1>7, <1>8

LEMMA FindLeadKeeps ==
  ASSUME CrmInv, NEW c \in Call, FindLead(c)
  PROVE  CrmInv'
<1>0. /\ pc[c] = "lead" /\ UNCHANGED <<stores, todo, known, deliveries, faults>> /\ current' = current
      /\ current' \subseteq Call
  BY DEF CrmInv, FindLead, TypeOK
<1>1. /\ TypeOK /\ local[c] \in Local /\ (c \in known => KnownGoes(c)) /\ CallShape(c)
      /\ local[c].customer \in Nat /\ local[c].ad \in Item \cup {NoItem}
  BY <1>0, AtLead DEF Received
<1>2. CASE \E l \in LeadsOf(local[c].customer, local[c].ad) :
             Goto(c, "updateLead",
                  [local[c] EXCEPT !.lead = l,
                                   !.links = IF local[c].conversation = 0 THEN leads[l].conversation
                                             ELSE local[c].conversation])
  <2>1. PICK l \in LeadsOf(local[c].customer, local[c].ad) :
               Goto(c, "updateLead",
                    [local[c] EXCEPT !.lead = l,
                                     !.links = IF local[c].conversation = 0 THEN leads[l].conversation
                                               ELSE local[c].conversation])
    BY <1>2
  <2> DEFINE k == IF local[c].conversation = 0 THEN leads[l].conversation ELSE local[c].conversation
             found == [local[c] EXCEPT !.lead = l, !.links = k]
  <2>2. /\ l \in DOMAIN leads /\ leads[l].customer = local[c].customer /\ local[c].ad \in {NoItem, leads[l].ad}
        /\ l \in Nat /\ leads[l] \in Lead
    BY <1>1, <2>1, LeadTyped DEF LeadsOf
  <2>3. k \in Nat /\ LinksTo(c, k)
    <3>1. /\ local[c].conversation \in {0} \cup DOMAIN conversations
          /\ local[c].conversation # 0 =>
               WritesIn(local[c].customer, conversations[local[c].conversation].chat)
      BY <1>0, AtLead DEF Received
    <3>2. /\ leads[l].conversation \in {0} \cup DOMAIN conversations
          /\ leads[l].conversation # 0 =>
               WritesIn(leads[l].customer, conversations[leads[l].conversation].chat)
      BY <2>2 DEF CrmInv, LinksAgree, RowsRefer
    <3>3. local[c].conversation \in Nat /\ leads[l].conversation \in Nat
      BY <1>1, <2>2 DEF Local, Lead
    <3> QED
      BY <2>2, <3>1, <3>2, <3>3 DEF LinksTo
  <2> HIDE DEF k
  <2>4. /\ found \in Local /\ found.customer = local[c].customer /\ found.ad = local[c].ad
        /\ found.conversation = local[c].conversation /\ found.lead = l /\ found.links = k
    BY <1>1, <2>2, <2>3 DEF Local
  <2>5. pc'[c] = "updateLead" /\ local'[c] = found /\ Message1(c)' = Message1(c) /\ todo' = todo
    BY <1>0, <1>1, <2>1, <2>4, GoesOn DEF Pc, k
  <2> HIDE DEF found
  <2>6. LinksTo(c, local[c].links)'
    BY <1>0, <2>4, <2>5, <2>3 DEF LinksTo, WritesIn, stores
  <2>7. CallShape(c)'
    BY <1>0, <1>1, <2>2, <2>4, <2>5, <2>6 DEF CallShape, IdleIsBlank, HasCustomer, HasConversation, HasLead, HasDeal,
       stores, WithCustomer, WithConversation, Received, WithLead
  <2>8. c \in known => KnownGoes(c)'
    BY <1>0, <1>1, <2>4, <2>5 DEF KnownGoes, CustomersOf, ConversationsOf, stores, Received, WithLead
  <2> QED
    BY <1>0, <2>1, <2>4, <2>7, <2>8, LookedUp DEF Pc, found, k
<1>3. CASE LeadsOf(local[c].customer, local[c].ad) = {} /\ Goto(c, "createLead", local[c])
  <2>1. /\ CallsTyped' /\ OnlyMoves(c) /\ pc'[c] = "createLead" /\ local'[c] = local[c]
        /\ Message1(c)' = Message1(c)
    BY <1>0, <1>1, <1>3, GoesOn DEF Pc
  <2>2. TypeOK'
    BY <1>0, <1>1, <2>1 DEF TypeOK, CallsTyped, stores
  <2>3. CallShape(c)'
    BY <1>0, <1>1, <2>1 DEF CallShape, IdleIsBlank, HasCustomer, HasConversation, HasLead, HasDeal,
       stores, WithCustomer, WithConversation, Received, WithLead
  <2>4. c \in known' => KnownGoes(c)'
    BY <1>0, <1>1, <2>1 DEF KnownGoes, CustomersOf, ConversationsOf, stores, Received, WithLead
  <2>5. SeedsHeld'
    <3>1. \A l \in DOMAIN leads' :
            l \in DOMAIN leads /\ leads[l].seeded <= leads'[l].seeded /\ leads'[l].seeded \in Nat
      BY <1>0, <1>1, LeadTyped DEF stores
    <3> QED
      BY <1>0, <1>1, <2>1, <3>1, FaultsTyped, SeedsKept DEF CrmInv
  <2>6. DealsBounded'
    BY <1>0, <1>1, <2>1, <2>2, FaultsTyped, DealsKept DEF CrmInv, stores
  <2>7. ASSUME NEW customer \in Nat, NEW ad \in Item \cup {NoItem}
        PROVE  Cardinality(Twins(customer, ad)') + Cardinality(Creating(customer, ad)') <= Cardinality(Call)
    <3>1. Twins(customer, ad)' = Twins(customer, ad)
      BY <1>0 DEF Twins, stores
    <3>2. CASE customer = local[c].customer /\ ad = local[c].ad
      <4>1. Twins(customer, ad) = {}
        BY <1>3, <3>2 DEF Twins, LeadsOf
      <4>2. Creating(customer, ad)' \subseteq Call
        BY DEF Creating
      <4> QED
        BY <3>1, <4>1, <4>2, SomeCalls, FS_EmptySet
    <3>3. CASE ~(customer = local[c].customer /\ ad = local[c].ad)
      <4>1. Creating(customer, ad)' = Creating(customer, ad)
        BY <1>0, <2>1, <3>3 DEF Creating, OnlyMoves
      <4> QED
        BY <3>1, <4>1 DEF CrmInv, TwinsBounded
    <3> QED
      BY <3>2, <3>3
  <2>8. TwinsBounded'
    BY <2>7 DEF TwinsBounded
  <2>9. Grows /\ LinksAgree' /\ RowsRefer'
    BY <1>0, StoresStand
  <2> QED
    BY <2>1, <2>2, <2>3, <2>4, <2>5, <2>6, <2>8, <2>9, CallMoved
<1> QED
  BY <1>2, <1>3 DEF FindLead

LEMMA UpdateLeadKeeps ==
  ASSUME CrmInv, NEW c \in Call, UpdateLead(c)
  PROVE  CrmInv'
<1> DEFINE l == local[c].lead
           k == local[c].links
           row == [leads[l] EXCEPT !.conversation = k]
<1>1. /\ pc[c] = "updateLead" /\ leads' = [leads EXCEPT ![l] = row]
      /\ AfterLead(c, leads[l].deal)
      /\ UNCHANGED <<customers, customerRows, conversations, conversationRows, listed, deals>>
      /\ UNCHANGED <<current, deliveries, faults>>
  BY DEF UpdateLead
<1>2. /\ TypeOK /\ CallShape(c) /\ local[c].customer \in DOMAIN customers
      /\ LinksTo(c, k) /\ k \in Nat
  BY <1>1, AtLead DEF Received, WithLead, CallShape, HasLead, Local
<1>3. l \in DOMAIN leads /\ leads[l].customer = local[c].customer /\ leads[l] \in Lead
  BY <1>1, <1>2, LeadTyped DEF CallShape, HasLead, WithLead
<1>4. /\ row \in Lead /\ row.customer = leads[l].customer /\ row.ad = leads[l].ad /\ row.deal = leads[l].deal
      /\ row.seeded = leads[l].seeded
      /\ row.conversation \in {0} \cup DOMAIN conversations
      /\ row.conversation # 0 => WritesIn(row.customer, conversations[row.conversation].chat)
  BY <1>2, <1>3 DEF Lead, LinksTo
<1>5. row.seeded >= leads[l].seeded
  BY <1>2, <1>3, <1>4, LeadTyped
<1> HIDE DEF row, l, k
<1>6. /\ leads' \in Seq(Lead) /\ Grows /\ LinksAgree' /\ RowsRefer'
      /\ DOMAIN leads' = DOMAIN leads
      /\ \A x \in DOMAIN leads :
           /\ leads'[x].customer = leads[x].customer /\ leads'[x].ad = leads[x].ad
           /\ leads'[x].deal = leads[x].deal
           /\ leads[x].seeded <= leads'[x].seeded /\ leads'[x].seeded \in Nat
  BY <1>1, <1>3, <1>4, <1>5, LeadTouched
<1>7. /\ CallsTyped' /\ OnlyMoves(c) /\ pc'[c] \in {"idle", "customer", "createDeal"}
      /\ pc'[c] = "createDeal" => leads[l].deal = 0 /\ local'[c] = local[c]
      /\ CallShape(c)' /\ (c \in known' => KnownGoes(c)')
  BY <1>1, <1>6, AfterLeadGoes DEF WithLead
<1>8. TypeOK'
  BY <1>1, <1>2, <1>6, <1>7 DEF TypeOK, CallsTyped
<1>9. SeedsHeld'
  BY <1>1, <1>2, <1>6, <1>7, FaultsTyped, SeedsKept DEF CrmInv
<1>10. TwinsBounded'
  BY <1>2, <1>6, <1>7, TwinsKept DEF CrmInv
<1>11. DealsBounded'
  BY <1>1, <1>2, <1>6, <1>7, <1>8, FaultsTyped, DealsKept DEF CrmInv, l
<1> QED
  BY <1>6, <1>7, <1>8, <1>9, <1>10, <1>11, CallMoved

LEMMA CreateLeadKeeps ==
  ASSUME CrmInv, NEW c \in Call, CreateLead(c)
  PROVE  CrmInv'
<1> DEFINE n == Len(leads) + 1
           row == [customer |-> local[c].customer, ad |-> local[c].ad,
                   conversation |-> local[c].conversation, deal |-> 0, seeded |-> 0]
           found == [local[c] EXCEPT !.lead = n]
<1>1. /\ pc[c] = "createLead" /\ leads' = Append(leads, row) /\ Goto(c, "seed", found)
      /\ UNCHANGED <<customers, customerRows, conversations, conversationRows, listed, deals>>
      /\ UNCHANGED <<todo, known, current, deliveries, faults>>
  BY DEF CreateLead
<1>2. /\ TypeOK /\ CallShape(c) /\ local[c] \in Local /\ (c \in known => KnownGoes(c))
      /\ local[c].customer \in DOMAIN customers /\ local[c].customer \in Nat
      /\ local[c].ad \in Item \cup {NoItem}
      /\ local[c].conversation \in {0} \cup DOMAIN conversations
      /\ local[c].conversation # 0 =>
           WritesIn(local[c].customer, conversations[local[c].conversation].chat)
      /\ leads \in Seq(Lead) /\ n \in Nat /\ customerRows \in Nat /\ conversationRows \in Nat
  <2>1. TypeOK /\ leads \in Seq(Lead) /\ n \in Nat /\ customerRows \in Nat /\ conversationRows \in Nat
    BY DEF CrmInv, TypeOK
  <2> QED
    BY <1>1, <2>1, AtLead DEF Received
<1>3. /\ row.customer = local[c].customer /\ row.ad = local[c].ad /\ row.deal = 0 /\ row.seeded = 0
      /\ row.conversation = local[c].conversation /\ row \in Lead
  <2>1. 0 \in 0..Rules
    BY CrmBridgeAssumption
  <2> QED
    BY <1>2, <2>1 DEF Lead, Local
<1>4. /\ found \in Local /\ found.customer = local[c].customer /\ found.ad = local[c].ad
      /\ found.conversation = local[c].conversation /\ found.lead = n
  BY <1>2 DEF Local
<1> HIDE DEF row, found
<1>5. /\ CallsTyped' /\ OnlyMoves(c) /\ pc'[c] = "seed" /\ local'[c] = found /\ Message1(c)' = Message1(c)
  BY <1>1, <1>2, <1>4, GoesOn DEF Pc
<1>6. /\ leads' \in Seq(Lead)
      /\ DOMAIN leads' = DOMAIN leads \cup {n} /\ n \notin DOMAIN leads
      /\ leads'[n] = row /\ \A x \in DOMAIN leads : leads'[x] = leads[x]
  BY <1>1, <1>2, <1>3, RowAdded
<1> HIDE DEF n
<1>7. TypeOK'
  BY <1>1, <1>2, <1>5, <1>6 DEF TypeOK, CallsTyped
<1>8. Grows
  BY <1>1, <1>2, <1>6 DEF Grows
<1>9. CallShape(c)'
  BY <1>1, <1>2, <1>3, <1>4, <1>5, <1>6 DEF CallShape, IdleIsBlank, HasCustomer, HasConversation, HasLead, HasDeal,
     WithCustomer, WithConversation, Received, WithLead
<1>10. c \in known' => KnownGoes(c)'
  BY <1>1, <1>2, <1>4, <1>5 DEF KnownGoes, CustomersOf, ConversationsOf, Received, WithLead
<1>11. LinksAgree' /\ RowsRefer'
  <2>1. \A x, y : WritesIn(x, y)' <=> WritesIn(x, y)
    BY <1>1 DEF WritesIn
  <2>2. ASSUME NEW x \in DOMAIN leads'
        PROVE  /\ leads'[x].conversation # 0 =>
                    WritesIn(leads[x].customer, conversations[leads[x].conversation].chat)'
               /\ leads'[x].deal # 0 =>
                    LET d == deals'[leads'[x].deal] IN
                    d.lead = x /\ d.ad = leads'[x].ad /\ d.customer = leads'[x].customer
               /\ leads'[x].customer \in DOMAIN customers'
               /\ leads'[x].conversation \in {0} \cup DOMAIN conversations'
               /\ leads'[x].deal \in {0} \cup DOMAIN deals'
    <3>1. CASE x = n
      BY <1>1, <1>2, <1>3, <1>6, <2>1, <3>1
    <3>2. CASE x # n
      BY <1>1, <1>6, <2>1, <3>2 DEF CrmInv, LinksAgree, RowsRefer
    <3> QED
      BY <3>1, <3>2
  <2>3. ASSUME NEW x \in DOMAIN conversations'
        PROVE  /\ WritesIn(conversations[x].customer, conversations[x].chat)'
               /\ \A m \in conversations'[x].heard : ChatOf[m] = conversations'[x].chat
               /\ conversations'[x].customer \in DOMAIN customers'
    BY <1>1, <2>1 DEF CrmInv, LinksAgree, RowsRefer
  <2>4. ASSUME NEW x \in DOMAIN deals' PROVE deals'[x].lead \in DOMAIN leads'
    BY <1>1, <1>6 DEF CrmInv, RowsRefer
  <2> QED
    BY <2>2, <2>3, <2>4 DEF LinksAgree, RowsRefer
<1>12. SeedsHeld'
  <2>1. ASSUME NEW x \in Abandoned' PROVE x \in Abandoned
    <3>1. /\ x \in DOMAIN leads' /\ leads'[x].seeded < Rules
          /\ \A d \in Call : ~(pc'[d] = "seed" /\ local'[d].lead = x)
      BY DEF Abandoned
    <3>2. x # n
      BY <1>4, <1>5, <3>1
    <3>3. \A d \in Call : ~(pc[d] = "seed" /\ local[d].lead = x)
      BY <1>1, <3>1 DEF OnlyMoves, Goto, CrmInv, TypeOK
    <3> QED
      BY <1>6, <3>1, <3>2, <3>3 DEF Abandoned
  <2> QED
    BY <1>1, <1>2, <2>1, FaultsTyped, AbandonedKept DEF CrmInv
<1>13. TwinsBounded'
  <2> SUFFICES ASSUME NEW customer \in Nat, NEW ad \in Item \cup {NoItem}
               PROVE  Cardinality(Twins(customer, ad)') + Cardinality(Creating(customer, ad)')
                        <= Cardinality(Call)
    BY DEF TwinsBounded
  <2>1. /\ IsFiniteSet(Twins(customer, ad)) /\ Cardinality(Twins(customer, ad)) \in Nat
        /\ IsFiniteSet(Twins(customer, ad)') /\ Cardinality(Twins(customer, ad)') \in Nat
    <3>1. Twins(customer, ad) \subseteq DOMAIN leads /\ Twins(customer, ad)' \subseteq DOMAIN leads'
      BY DEF Twins
    <3> QED
      BY <1>2, <1>6, <3>1, SomeRows
  <2>2. /\ IsFiniteSet(Creating(customer, ad)) /\ Cardinality(Creating(customer, ad)) \in Nat
        /\ IsFiniteSet(Creating(customer, ad)') /\ Cardinality(Creating(customer, ad)') \in Nat
        /\ Cardinality(Call) \in Nat
    <3>1. Creating(customer, ad) \subseteq Call /\ Creating(customer, ad)' \subseteq Call
      BY DEF Creating
    <3> QED
      BY <3>1, SomeCalls
  <2>3. Cardinality(Twins(customer, ad)) + Cardinality(Creating(customer, ad)) <= Cardinality(Call)
    BY DEF CrmInv, TwinsBounded
  <2>4. /\ \A x : x # n => (x \in Twins(customer, ad) <=> x \in Twins(customer, ad)')
        /\ n \notin Twins(customer, ad)
        /\ n \in Twins(customer, ad)' <=> customer = local[c].customer /\ ad = local[c].ad
    BY <1>3, <1>6 DEF Twins
  <2>5. /\ \A x : x # c => (x \in Creating(customer, ad) <=> x \in Creating(customer, ad)')
        /\ c \notin Creating(customer, ad)'
        /\ c \in Creating(customer, ad) <=> customer = local[c].customer /\ ad = local[c].ad
    BY <1>1, <1>5 DEF Creating, OnlyMoves
  <2>6. CASE customer = local[c].customer /\ ad = local[c].ad
    <3>1. Cardinality(Twins(customer, ad)') = Cardinality(Twins(customer, ad)) + 1
      BY <2>1, <2>4, <2>6, OneMoves
    <3>2. Cardinality(Creating(customer, ad)) = Cardinality(Creating(customer, ad)') + 1
      BY <2>2, <2>5, <2>6, OneMoves
    <3> QED
      BY <2>1, <2>2, <2>3, <3>1, <3>2
  <2>7. CASE ~(customer = local[c].customer /\ ad = local[c].ad)
    <3>1. Twins(customer, ad)' = Twins(customer, ad) /\ Creating(customer, ad)' = Creating(customer, ad)
      BY <2>4, <2>5, <2>7
    <3> QED
      BY <2>3, <3>1
  <2> QED
    BY <2>6, <2>7
<1>14. DealsBounded'
  <2>1. ASSUME NEW x \in DOMAIN leads'
        PROVE  IF leads'[x].deal = 0
               THEN Cardinality(DealsOf(x)') <= Cardinality(Linking(x)') + faults'
               ELSE Cardinality(DealsOf(x)') + Cardinality(Dealing(x)') <= Cardinality(Call) + faults'
    <3>1. CASE x = n
      <4>1. leads'[x].deal = 0
        BY <1>3, <1>6, <3>1
      <4>2. DealsOf(x)' = {}
        BY <1>1, <1>6, <3>1 DEF DealsOf, CrmInv, RowsRefer
      <4>3. Linking(x)' \subseteq Call
        BY DEF Linking
      <4>4. Cardinality(Linking(x)') \in Nat /\ faults' \in Nat
        BY <1>1, <1>2, <4>3, SomeCalls, FaultsTyped
      <4>5. Cardinality(DealsOf(x)') = 0
        BY <4>2, FS_EmptySet
      <4> QED
        BY <4>1, <4>4, <4>5
    <3>2. CASE x # n
      <4>1. x \in DOMAIN leads /\ leads'[x] = leads[x]
        BY <1>6, <3>2
      <4>2. DealsOf(x)' = DealsOf(x)
        BY <1>1 DEF DealsOf
      <4>3. Linking(x)' = Linking(x)
        BY <1>1, <1>5 DEF Linking, OnlyMoves
      <4>4. Dealing(x)' = Dealing(x)
        BY <1>1, <1>4, <1>5, <3>2 DEF Dealing, OnlyMoves
      <4> QED
        BY <1>1, <4>1, <4>2, <4>3, <4>4 DEF CrmInv, DealsBounded
    <3> QED
      BY <3>1, <3>2
  <2> QED
    BY <2>1 DEF DealsBounded
<1> QED
  BY <1>5, <1>7, <1>8, <1>9, <1>10, <1>11, <1>12, <1>13, <1>14, CallMoved

LEMMA SeedForLeadKeeps ==
  ASSUME CrmInv, NEW c \in Call, SeedForLead(c)
  PROVE  CrmInv'
<1> DEFINE l == local[c].lead
           row == [leads[l] EXCEPT !.seeded = @ + 1]
<1>1. /\ pc[c] = "seed"
      /\ UNCHANGED <<customers, customerRows, conversations, conversationRows, listed, deals>>
      /\ UNCHANGED <<current, deliveries, faults>>
  BY DEF SeedForLead
<1>2. /\ TypeOK /\ CallShape(c) /\ (c \in known => KnownGoes(c))
      /\ l \in DOMAIN leads /\ leads[l] \in Lead /\ leads[l].seeded \in Nat /\ Rules \in Nat
  BY <1>1, LeadTyped, CrmBridgeAssumption DEF CrmInv, CallShape, HasLead, WithLead
<1>3. CASE /\ leads[l].seeded < Rules /\ leads' = [leads EXCEPT ![l] = row]
           /\ UNCHANGED <<pc, todo, local, known>>
  <2>1. /\ row \in Lead /\ row.customer = leads[l].customer /\ row.ad = leads[l].ad
        /\ row.deal = leads[l].deal /\ row.conversation = leads[l].conversation
        /\ row.seeded >= leads[l].seeded
    BY <1>2, <1>3 DEF Lead
  <2>2. /\ row.conversation \in {0} \cup DOMAIN conversations
        /\ row.conversation # 0 => WritesIn(row.customer, conversations[row.conversation].chat)
    BY <1>2, <2>1 DEF CrmInv, LinksAgree, RowsRefer
  <2> HIDE DEF row
  <2>3. /\ leads' \in Seq(Lead) /\ Grows /\ LinksAgree' /\ RowsRefer'
        /\ DOMAIN leads' = DOMAIN leads
        /\ \A x \in DOMAIN leads :
             /\ leads'[x].customer = leads[x].customer /\ leads'[x].ad = leads[x].ad
             /\ leads'[x].deal = leads[x].deal
             /\ leads[x].seeded <= leads'[x].seeded /\ leads'[x].seeded \in Nat
    <3> HIDE DEF l
    <3> QED
      BY <1>1, <1>2, <1>3, <2>1, <2>2, LeadTouched
  <2>4. TypeOK'
    BY <1>1, <1>2, <1>3, <2>3 DEF TypeOK
  <2>5. OnlyMoves(c) /\ pc'[c] = "seed" /\ local'[c] = local[c]
    BY <1>1, <1>3 DEF OnlyMoves
  <2>6. CallShape(c)' /\ (c \in known' => KnownGoes(c)')
    BY <1>3, <2>3, <2>4, OthersStand DEF CrmInv
  <2>7. SeedsHeld'
    BY <1>1, <1>2, <2>3, <2>5, FaultsTyped, SeedsKept DEF CrmInv
  <2>8. TwinsBounded'
    BY <1>2, <2>3, <2>5, TwinsKept DEF CrmInv
  <2>9. DealsBounded'
    BY <1>1, <1>2, <2>3, <2>4, <2>5, FaultsTyped, DealsKept DEF CrmInv
  <2> QED
    BY <2>3, <2>4, <2>5, <2>6, <2>7, <2>8, <2>9, CallMoved
<1>4. CASE ~(leads[l].seeded < Rules) /\ AfterLead(c, 0) /\ UNCHANGED leads
  <2>1. UNCHANGED stores
    BY <1>1, <1>4 DEF stores
  <2>2. Grows /\ LinksAgree' /\ RowsRefer'
    BY <2>1, StoresStand
  <2>3. /\ CallsTyped' /\ OnlyMoves(c) /\ pc'[c] \in {"idle", "customer", "createDeal"}
        /\ pc'[c] = "createDeal" => local'[c] = local[c]
        /\ CallShape(c)' /\ (c \in known' => KnownGoes(c)')
    BY <1>1, <1>4, <2>2, AfterLeadGoes DEF WithLead
  <2>4. TypeOK'
    BY <1>1, <1>2, <1>4, <2>3 DEF TypeOK, CallsTyped
  <2>5. SeedsHeld'
    <3>1. \A x \in DOMAIN leads' :
            x \in DOMAIN leads /\ leads[x].seeded <= leads'[x].seeded /\ leads'[x].seeded \in Nat
      BY <1>2, <1>4, LeadTyped
    <3>2. ~(leads'[local[c].lead].seeded < Rules)
      BY <1>4
    <3> QED
      BY <1>1, <1>2, <2>3, <3>1, <3>2, FaultsTyped, SeedsKept DEF CrmInv
  <2>6. TwinsBounded'
    BY <1>2, <1>4, <2>3, TwinsKept DEF CrmInv
  <2>7. DealsBounded'
    BY <1>1, <1>2, <1>4, <2>3, <2>4, FaultsTyped, DealsKept DEF CrmInv
  <2> QED
    BY <2>2, <2>3, <2>4, <2>5, <2>6, <2>7, CallMoved
<1> QED
  BY <1>3, <1>4 DEF SeedForLead

LEMMA CreateDealKeeps ==
  ASSUME CrmInv, NEW c \in Call, CreateDeal(c)
  PROVE  CrmInv'
<1> DEFINE n == Len(deals) + 1
           l == local[c].lead
           row == [customer |-> local[c].customer, ad |-> local[c].ad, lead |-> l]
           found == [local[c] EXCEPT !.deal = n]
<1>1. /\ pc[c] = "createDeal" /\ deals' = Append(deals, row) /\ Goto(c, "linkDeal", found)
      /\ UNCHANGED <<customers, customerRows, conversations, conversationRows, listed, leads>>
      /\ UNCHANGED <<todo, known, current, deliveries, faults>>
  BY DEF CreateDeal
<1>2. /\ TypeOK /\ CallShape(c) /\ local[c] \in Local /\ (c \in known => KnownGoes(c))
      /\ local[c].customer \in Nat /\ local[c].ad \in Item
      /\ l \in DOMAIN leads /\ l \in Nat
      /\ deals \in Seq(Deal) /\ n \in Nat /\ customerRows \in Nat /\ conversationRows \in Nat
  <2>1. TypeOK /\ deals \in Seq(Deal) /\ n \in Nat /\ customerRows \in Nat /\ conversationRows \in Nat
    BY DEF CrmInv, TypeOK
  <2>2. /\ CallShape(c) /\ local[c] \in Local /\ (c \in known => KnownGoes(c))
        /\ local[c].customer \in Nat /\ local[c].ad \in Item \cup {NoItem}
    BY <1>1, AtLead DEF Received, WithLead
  <2>3. local[c].ad # NoItem /\ l \in DOMAIN leads
    BY <1>1, <2>2 DEF CallShape, HasDeal, HasLead, WithLead
  <2> QED
    BY <2>1, <2>2, <2>3, LeadTyped
<1>3. row \in Deal /\ row.lead = l
  BY <1>2 DEF Deal
<1>4. /\ found \in Local /\ found.customer = local[c].customer /\ found.ad = local[c].ad
      /\ found.conversation = local[c].conversation /\ found.lead = l /\ found.deal = n
  BY <1>2 DEF Local
<1> HIDE DEF found
<1>5. /\ CallsTyped' /\ OnlyMoves(c) /\ pc'[c] = "linkDeal" /\ local'[c] = found /\ Message1(c)' = Message1(c)
  BY <1>1, <1>2, <1>4, GoesOn DEF Pc
<1>6. /\ deals' \in Seq(Deal)
      /\ DOMAIN deals' = DOMAIN deals \cup {n} /\ n \notin DOMAIN deals
      /\ deals'[n] = row /\ \A x \in DOMAIN deals : deals'[x] = deals[x]
  BY <1>1, <1>2, <1>3, RowAdded
<1>7. TypeOK'
  BY <1>1, <1>2, <1>5, <1>6 DEF TypeOK, CallsTyped
<1>8. Grows
  BY <1>1, <1>2, <1>6 DEF Grows
<1>9. CallShape(c)'
  BY <1>1, <1>2, <1>3, <1>4, <1>5, <1>6 DEF CallShape, IdleIsBlank, HasCustomer, HasConversation, HasLead, HasDeal,
     WithCustomer, WithConversation, Received, WithLead
<1>10. c \in known' => KnownGoes(c)'
  BY <1>1, <1>2, <1>4, <1>5 DEF KnownGoes, CustomersOf, ConversationsOf, Received, WithLead
<1> HIDE DEF n, l, row
<1>11. LinksAgree' /\ RowsRefer'
  <2>1. \A x, y : WritesIn(x, y)' <=> WritesIn(x, y)
    BY <1>1 DEF WritesIn
  <2>2. ASSUME NEW x \in DOMAIN leads'
        PROVE  /\ leads'[x].conversation # 0 =>
                    WritesIn(leads[x].customer, conversations[leads[x].conversation].chat)'
               /\ leads'[x].deal # 0 =>
                    LET d == deals'[leads'[x].deal] IN
                    d.lead = x /\ d.ad = leads'[x].ad /\ d.customer = leads'[x].customer
               /\ leads'[x].customer \in DOMAIN customers'
               /\ leads'[x].conversation \in {0} \cup DOMAIN conversations'
               /\ leads'[x].deal \in {0} \cup DOMAIN deals'
    BY <1>1, <1>6, <2>1 DEF CrmInv, LinksAgree, RowsRefer
  <2>3. ASSUME NEW x \in DOMAIN conversations'
        PROVE  /\ WritesIn(conversations[x].customer, conversations[x].chat)'
               /\ \A m \in conversations'[x].heard : ChatOf[m] = conversations'[x].chat
               /\ conversations'[x].customer \in DOMAIN customers'
    BY <1>1, <2>1 DEF CrmInv, LinksAgree, RowsRefer
  <2>4. ASSUME NEW x \in DOMAIN deals' PROVE deals'[x].lead \in DOMAIN leads'
    BY <1>1, <1>2, <1>3, <1>6 DEF CrmInv, RowsRefer
  <2> QED
    BY <2>2, <2>3, <2>4 DEF LinksAgree, RowsRefer
<1>12. SeedsHeld'
  <2>1. \A x \in DOMAIN leads' :
          x \in DOMAIN leads /\ leads[x].seeded <= leads'[x].seeded /\ leads'[x].seeded \in Nat
    BY <1>1, <1>2, LeadTyped
  <2> QED
    BY <1>1, <1>2, <1>5, <2>1, FaultsTyped, SeedsKept DEF CrmInv
<1>13. TwinsBounded'
  BY <1>1, <1>2, <1>5, TwinsKept DEF CrmInv
<1>14. DealsBounded'
  <2>1. ASSUME NEW x \in DOMAIN leads
        PROVE  IF leads[x].deal = 0
               THEN Cardinality(DealsOf(x)') <= Cardinality(Linking(x)') + faults
               ELSE Cardinality(DealsOf(x)') + Cardinality(Dealing(x)') <= Cardinality(Call) + faults
    <3>1. CASE x = l
      <4>1. /\ IsFiniteSet(DealsOf(x)') /\ IsFiniteSet(Linking(x)') /\ IsFiniteSet(Dealing(x)')
            /\ Cardinality(DealsOf(x)') \in Nat /\ Cardinality(Linking(x)') \in Nat
            /\ Cardinality(Dealing(x)') \in Nat
        <5>1. DealsOf(x)' \subseteq DOMAIN deals' /\ Linking(x)' \subseteq Call /\ Dealing(x)' \subseteq Call
          BY DEF DealsOf, Linking, Dealing
        <5> QED
          BY <1>6, <5>1, SomeRows, SomeCalls
      <4>2. Cardinality(DealsOf(x)') = Cardinality(DealsOf(x)) + 1
        <5>1. /\ \A d : d # n => (d \in DealsOf(x) <=> d \in DealsOf(x)')
              /\ n \notin DealsOf(x) /\ n \in DealsOf(x)'
          BY <1>3, <1>6, <3>1 DEF DealsOf
        <5> QED
          BY <1>2, <4>1, <5>1, OneMoves, DealsCounted
      <4>3. Cardinality(Linking(x)') = Cardinality(Linking(x)) + 1
        <5>1. /\ \A d : d # c => (d \in Linking(x) <=> d \in Linking(x)')
              /\ c \notin Linking(x) /\ c \in Linking(x)'
          BY <1>1, <1>4, <1>5, <3>1 DEF Linking, OnlyMoves
        <5> QED
          BY <1>2, <4>1, <5>1, OneMoves, DealsCounted
      <4>4. Cardinality(Dealing(x)) = Cardinality(Dealing(x)') + 1
        <5>1. /\ \A d : d # c => (d \in Dealing(x) <=> d \in Dealing(x)')
              /\ c \in Dealing(x) /\ c \notin Dealing(x)'
          BY <1>1, <1>5, <3>1 DEF Dealing, OnlyMoves, l
        <5> QED
          BY <1>2, <4>1, <5>1, OneMoves, DealsCounted
      <4>5. CASE leads[x].deal = 0
        <5>1. Cardinality(DealsOf(x)) <= Cardinality(Linking(x)) + faults
          BY <4>5 DEF CrmInv, DealsBounded
        <5> QED
          BY <1>2, <4>2, <4>3, <4>5, <5>1, DealsCounted
      <4>6. CASE leads[x].deal # 0
        <5>1. Cardinality(DealsOf(x)) + Cardinality(Dealing(x)) <= Cardinality(Call) + faults
          BY <4>6 DEF CrmInv, DealsBounded
        <5> QED
          BY <1>2, <4>1, <4>2, <4>4, <4>6, <5>1, DealsCounted
      <4> QED
        BY <4>5, <4>6
    <3>2. CASE x # l
      <4>1. DealsOf(x)' = DealsOf(x)
        BY <1>3, <1>6, <3>2 DEF DealsOf
      <4>2. Linking(x)' = Linking(x)
        BY <1>1, <1>4, <1>5, <3>2 DEF Linking, OnlyMoves
      <4>3. Dealing(x)' = Dealing(x)
        BY <1>1, <1>5, <3>2 DEF Dealing, OnlyMoves, l
      <4> QED
        BY <4>1, <4>2, <4>3 DEF CrmInv, DealsBounded
    <3> QED
      BY <3>1, <3>2
  <2> QED
    BY <1>1, <2>1 DEF DealsBounded
<1> QED
  BY <1>5, <1>7, <1>8, <1>9, <1>10, <1>11, <1>12, <1>13, <1>14, CallMoved

LEMMA LinkDealKeeps ==
  ASSUME CrmInv, NEW c \in Call, LinkDeal(c)
  PROVE  CrmInv'
<1> DEFINE l == local[c].lead
           n == local[c].deal
           row == [leads[l] EXCEPT !.deal = n]
<1>1. /\ pc[c] = "linkDeal" /\ leads' = [leads EXCEPT ![l] = row] /\ TakeUp(c, Tail(todo[c]))
      /\ UNCHANGED <<customers, customerRows, conversations, conversationRows, listed, deals>>
      /\ UNCHANGED <<current, deliveries, faults>>
  BY DEF LinkDeal, NextMessage
<1>2. /\ TypeOK /\ CallShape(c) /\ local[c] \in Local /\ Tail(todo[c]) \in Seq(Message)
      /\ leads \in Seq(Lead) /\ customerRows \in Nat /\ conversationRows \in Nat
  <2>1. TypeOK /\ leads \in Seq(Lead) /\ customerRows \in Nat /\ conversationRows \in Nat
    BY DEF CrmInv, TypeOK
  <2> QED
    BY <1>1, <2>1, AtLead DEF Received, WithLead
<1>3. /\ l \in DOMAIN leads /\ leads[l].customer = local[c].customer /\ leads[l].ad = local[c].ad
      /\ leads[l] \in Lead /\ leads[l].seeded \in Nat
      /\ n \in DOMAIN deals /\ n \in Nat /\ n # 0
      /\ deals[n] = [customer |-> local[c].customer, ad |-> local[c].ad, lead |-> l]
  <2>1. l \in DOMAIN leads /\ leads[l].customer = local[c].customer /\ leads[l].ad = local[c].ad
    BY <1>1, <1>2 DEF CallShape, HasLead, HasDeal, WithLead
  <2>2. n \in DOMAIN deals /\ deals[n] = [customer |-> local[c].customer, ad |-> local[c].ad, lead |-> l]
    BY <1>1, <1>2 DEF CallShape, HasDeal
  <2>3. n \in Nat /\ n # 0
    BY <1>2, <2>2, RowTyped DEF TypeOK
  <2> QED
    BY <1>2, <2>1, <2>2, <2>3, LeadTyped
<1>4. /\ row \in Lead /\ row.customer = leads[l].customer /\ row.ad = leads[l].ad
      /\ row.seeded = leads[l].seeded /\ row.conversation = leads[l].conversation /\ row.deal = n
  BY <1>3 DEF Lead
<1> HIDE DEF row
<1>5. /\ leads' \in Seq(Lead) /\ DOMAIN leads' = DOMAIN leads /\ leads'[l] = row
      /\ \A x \in DOMAIN leads \ {l} : leads'[x] = leads[x]
  BY <1>1, <1>2, <1>3, <1>4, RowChanged
<1>6. /\ CallsTyped' /\ OnlyMoves(c) /\ pc'[c] \in {"idle", "customer"}
      /\ CallShape(c)' /\ (c \in known' => KnownGoes(c)')
  BY <1>1, <1>2, TakesUp
<1>7. \A x \in DOMAIN leads :
        /\ leads'[x].customer = leads[x].customer /\ leads'[x].ad = leads[x].ad
        /\ leads'[x].conversation = leads[x].conversation
        /\ leads[x].seeded <= leads'[x].seeded /\ leads'[x].seeded \in Nat
  <2> SUFFICES ASSUME NEW x \in DOMAIN leads
               PROVE  /\ leads'[x].customer = leads[x].customer /\ leads'[x].ad = leads[x].ad
                      /\ leads'[x].conversation = leads[x].conversation
                      /\ leads[x].seeded <= leads'[x].seeded /\ leads'[x].seeded \in Nat
    OBVIOUS
  <2>1. leads[x].seeded \in Nat
    BY <1>2, LeadTyped
  <2>2. CASE x = l
    BY <1>4, <1>5, <2>1, <2>2
  <2>3. CASE x # l
    BY <1>5, <2>1, <2>3
  <2> QED
    BY <2>2, <2>3
<1>8. TypeOK'
  BY <1>1, <1>2, <1>5, <1>6 DEF TypeOK, CallsTyped
<1>9. Grows
  BY <1>1, <1>2, <1>5, <1>7 DEF Grows
<1>10. LinksAgree' /\ RowsRefer'
  <2>1. \A x, y : WritesIn(x, y)' <=> WritesIn(x, y)
    BY <1>1 DEF WritesIn
  <2>2. ASSUME NEW x \in DOMAIN leads'
        PROVE  /\ leads'[x].conversation # 0 =>
                    WritesIn(leads[x].customer, conversations[leads[x].conversation].chat)'
               /\ leads'[x].customer \in DOMAIN customers'
               /\ leads'[x].conversation \in {0} \cup DOMAIN conversations'
    BY <1>1, <1>5, <1>7, <2>1 DEF CrmInv, LinksAgree, RowsRefer
  <2>3. ASSUME NEW x \in DOMAIN leads'
        PROVE  /\ leads'[x].deal # 0 =>
                    LET d == deals'[leads'[x].deal] IN
                    d.lead = x /\ d.ad = leads'[x].ad /\ d.customer = leads'[x].customer
               /\ leads'[x].deal \in {0} \cup DOMAIN deals'
    <3>1. CASE x = l
      BY <1>1, <1>3, <1>4, <1>5, <3>1
    <3>2. CASE x # l
      BY <1>1, <1>5, <3>2 DEF CrmInv, LinksAgree, RowsRefer
    <3> QED
      BY <3>1, <3>2
  <2>4. ASSUME NEW x \in DOMAIN conversations'
        PROVE  /\ WritesIn(conversations[x].customer, conversations[x].chat)'
               /\ \A m \in conversations'[x].heard : ChatOf[m] = conversations'[x].chat
               /\ conversations'[x].customer \in DOMAIN customers'
    BY <1>1, <2>1 DEF CrmInv, LinksAgree, RowsRefer
  <2>5. ASSUME NEW x \in DOMAIN deals' PROVE deals'[x].lead \in DOMAIN leads'
    BY <1>1, <1>5 DEF CrmInv, RowsRefer
  <2> QED
    BY <2>2, <2>3, <2>4, <2>5 DEF LinksAgree, RowsRefer
<1>11. SeedsHeld'
  BY <1>1, <1>2, <1>5, <1>6, <1>7, FaultsTyped, SeedsKept DEF CrmInv
<1>12. TwinsBounded'
  BY <1>2, <1>5, <1>6, <1>7, TwinsKept DEF CrmInv
<1>13. DealsBounded'
  <2>1. ASSUME NEW x \in DOMAIN leads
        PROVE  IF leads'[x].deal = 0
               THEN Cardinality(DealsOf(x)') <= Cardinality(Linking(x)') + faults
               ELSE Cardinality(DealsOf(x)') + Cardinality(Dealing(x)') <= Cardinality(Call) + faults
    <3>1. DealsOf(x)' = DealsOf(x)
      BY <1>1 DEF DealsOf
    <3>2. Dealing(x)' = Dealing(x)
      BY <1>1, <1>6 DEF Dealing, OnlyMoves
    <3>3. CASE x = l
      <4>1. leads'[x].deal # 0
        BY <1>3, <1>4, <1>5, <3>3
      <4>2. CASE leads[x].deal # 0
        BY <3>1, <3>2, <4>1, <4>2 DEF CrmInv, DealsBounded
      <4>3. CASE leads[x].deal = 0
        <5>1. Cardinality(DealsOf(x)) <= Cardinality(Linking(x)) + faults
          BY <4>3 DEF CrmInv, DealsBounded
        <5>2. Linking(x) \cap Dealing(x) = {} /\ Linking(x) \cup Dealing(x) \subseteq Call
          BY DEF Linking, Dealing
        <5>3. Cardinality(Linking(x)) + Cardinality(Dealing(x)) <= Cardinality(Call)
          <6>1. Cardinality(Linking(x) \cup Dealing(x)) =
                  Cardinality(Linking(x)) + Cardinality(Dealing(x)) - Cardinality(Linking(x) \cap Dealing(x))
            BY <1>2, DealsCounted, FS_Union
          <6>2. Cardinality(Linking(x) \cap Dealing(x)) = 0
            BY <5>2, FS_EmptySet
          <6>3. Cardinality(Linking(x) \cup Dealing(x)) <= Cardinality(Call)
            BY <5>2, SomeCalls
          <6> QED
            BY <1>2, <6>1, <6>2, <6>3, DealsCounted
        <5> QED
          BY <1>2, <3>1, <3>2, <4>1, <5>1, <5>3, DealsCounted
      <4> QED
        BY <4>2, <4>3
    <3>4. CASE x # l
      <4>1. leads'[x] = leads[x]
        BY <1>5, <3>4
      <4>2. Linking(x)' = Linking(x)
        BY <1>1, <1>6, <3>4 DEF Linking, OnlyMoves
      <4> QED
        BY <3>1, <3>2, <4>1, <4>2 DEF CrmInv, DealsBounded
    <3> QED
      BY <3>3, <3>4
  <2> QED
    BY <1>1, <1>5, <2>1 DEF DealsBounded
<1> QED
  BY <1>6, <1>8, <1>9, <1>10, <1>11, <1>12, <1>13, CallMoved

-----------------------------------------------------------------------------
(* Faults and projections.                                                 *)
LEMMA FailsKeeps ==
  ASSUME CrmInv, NEW c \in Call, Fails(c)
  PROVE  CrmInv'
<1>1. /\ TakeUp(c, <<>>) /\ UNCHANGED stores /\ UNCHANGED deliveries /\ current' = current \ {c}
      /\ faults < MaxFaults /\ faults' = faults + 1 /\ <<>> \in Seq(Message)
  BY DEF Fails, Abort
<1>2. /\ TypeOK /\ leads \in Seq(Lead) /\ deals \in Seq(Deal)
      /\ faults \in Nat /\ faults' \in 0..MaxFaults /\ faults <= faults' /\ faults' \in Nat
      /\ leads' = leads /\ deals' = deals
  BY <1>1, CrmBridgeAssumption DEF CrmInv, TypeOK, stores
<1>3. /\ CallsTyped' /\ OnlyMoves(c) /\ pc'[c] \in {"idle", "customer"}
      /\ CallShape(c)' /\ (c \in known' => KnownGoes(c)')
  BY <1>1, <1>2, TakesUp DEF stores
<1>4. TypeOK'
  BY <1>1, <1>2, <1>3 DEF TypeOK, CallsTyped, stores
<1>5. Grows /\ LinksAgree' /\ RowsRefer'
  BY <1>1, StoresStand
<1>6. SeedsHeld'
  <2>1. Abandoned' \subseteq Abandoned \cup {local[c].lead}
    BY <1>2, <1>3 DEF Abandoned, OnlyMoves
  <2>2. Abandoned \subseteq DOMAIN leads /\ Abandoned' \subseteq DOMAIN leads
    BY <1>2 DEF Abandoned
  <2>3. /\ IsFiniteSet(Abandoned) /\ Cardinality(Abandoned) \in Nat
        /\ IsFiniteSet(Abandoned') /\ Cardinality(Abandoned') \in Nat
    BY <1>2, <2>2, SomeRows
  <2>4. /\ IsFiniteSet(Abandoned \cup {local[c].lead})
        /\ Cardinality(Abandoned \cup {local[c].lead}) \in Nat
        /\ Cardinality(Abandoned \cup {local[c].lead}) <= Cardinality(Abandoned) + 1
    <3>1. /\ IsFiniteSet(Abandoned \cup {local[c].lead})
          /\ \/ Cardinality(Abandoned \cup {local[c].lead}) = Cardinality(Abandoned)
             \/ Cardinality(Abandoned \cup {local[c].lead}) = Cardinality(Abandoned) + 1
      BY <2>3, FS_AddElement
    <3> QED
      BY <2>3, <3>1
  <2>5. Cardinality(Abandoned') <= Cardinality(Abandoned \cup {local[c].lead})
    BY <2>1, <2>4, FS_Subset
  <2>6. Cardinality(Abandoned) <= faults
    BY DEF CrmInv, SeedsHeld
  <2> QED
    BY <1>1, <1>2, <2>3, <2>4, <2>5, <2>6 DEF SeedsHeld
<1>7. TwinsBounded'
  BY <1>2, <1>3, TwinsKept DEF CrmInv
<1>8. DealsBounded'
  <2>1. ASSUME NEW x \in DOMAIN leads
        PROVE  IF leads[x].deal = 0
               THEN Cardinality(DealsOf(x)') <= Cardinality(Linking(x)') + faults'
               ELSE Cardinality(DealsOf(x)') + Cardinality(Dealing(x)') <= Cardinality(Call) + faults'
    <3>1. DealsOf(x)' = DealsOf(x)
      BY <1>2 DEF DealsOf
    <3>2. Dealing(x)' \subseteq Dealing(x) /\ Dealing(x)' \subseteq Call /\ Linking(x)' \subseteq Call
      BY <1>3 DEF Dealing, OnlyMoves, Linking
    <3>3. /\ Cardinality(Dealing(x)') \in Nat /\ IsFiniteSet(Linking(x)') /\ Cardinality(Linking(x)') \in Nat
      BY <3>2, SomeCalls
    <3>4. Cardinality(Dealing(x)') <= Cardinality(Dealing(x))
      BY <1>2, <3>2, DealsCounted, FS_Subset
    <3>5. Cardinality(Linking(x)) <= Cardinality(Linking(x)') + 1
      <4>1. /\ \A d : d # c => (d \in Linking(x) <=> d \in Linking(x)')
            /\ c \notin Linking(x)'
        BY <1>3 DEF Linking, OnlyMoves
      <4>2. CASE c \in Linking(x)
        BY <1>2, <3>3, <4>1, <4>2, DealsCounted, OneMoves
      <4>3. CASE c \notin Linking(x)
        <5>1. Linking(x)' = Linking(x)
          BY <4>1, <4>3
        <5> QED
          BY <1>2, <5>1, DealsCounted
      <4> QED
        BY <4>2, <4>3
    <3>6. CASE leads[x].deal = 0
      <4>1. Cardinality(DealsOf(x)) <= Cardinality(Linking(x)) + faults
        BY <3>6 DEF CrmInv, DealsBounded
      <4> QED
        BY <1>1, <1>2, <3>1, <3>3, <3>5, <3>6, <4>1, DealsCounted
    <3>7. CASE leads[x].deal # 0
      <4>1. Cardinality(DealsOf(x)) + Cardinality(Dealing(x)) <= Cardinality(Call) + faults
        BY <3>7 DEF CrmInv, DealsBounded
      <4> QED
        BY <1>1, <1>2, <3>1, <3>3, <3>4, <3>7, <4>1, DealsCounted
    <3> QED
      BY <3>6, <3>7
  <2> QED
    BY <1>2, <2>1 DEF DealsBounded
<1> QED
  BY <1>3, <1>4, <1>5, <1>6, <1>7, <1>8, CallMoved

(* Rows that a projection adds, and ads that are listed.                   *)
LEMMA AroundKeeps ==
  ASSUME CrmInv, ProjectCustomer \/ ProjectConversation \/ ListAd
  PROVE  CrmInv'
<1>1. /\ UNCHANGED <<customers, conversations, leads, deals>>
      /\ UNCHANGED <<pc, todo, local, known, current, deliveries, faults>>
  BY DEF ProjectCustomer, ProjectConversation, ListAd, calls
<1>2. /\ TypeOK /\ Len(customers) \in Nat /\ Len(conversations) \in Nat
      /\ customerRows \in 0..Len(customers) /\ conversationRows \in 0..Len(conversations)
  BY DEF CrmInv, TypeOK
<1>3. /\ customerRows' \in 0..Len(customers) /\ conversationRows' \in 0..Len(conversations)
      /\ customerRows <= customerRows' /\ conversationRows <= conversationRows'
      /\ listed' \subseteq Item
  <2>1. CASE ProjectCustomer
    BY <1>2, <2>1 DEF ProjectCustomer, TypeOK
  <2>2. CASE ProjectConversation
    BY <1>2, <2>2 DEF ProjectConversation, TypeOK
  <2>3. CASE ListAd
    BY <1>2, <2>3 DEF ListAd, TypeOK
  <2> QED
    BY <2>1, <2>2, <2>3
<1>4. TypeOK'
  BY <1>1, <1>2, <1>3 DEF TypeOK
<1>5. Grows
  BY <1>1, <1>3 DEF Grows
<1>6. \A d \in Call : CallShape(d)' /\ (d \in known' => KnownGoes(d)')
  BY <1>1, <1>2, <1>4, <1>5, OthersStand DEF CrmInv
<1>7. LinksAgree' /\ RowsRefer'
  BY <1>1 DEF CrmInv, LinksAgree, RowsRefer, WritesIn
<1>8. SeedsHeld'
  BY <1>1 DEF CrmInv, SeedsHeld, Abandoned
<1>9. TwinsBounded'
  BY <1>1 DEF CrmInv, TwinsBounded, Twins, Creating
<1>10. DealsBounded'
  BY <1>1 DEF CrmInv, DealsBounded, DealsOf, Linking, Dealing
<1>11. known' \subseteq Call
  BY <1>4 DEF TypeOK
<1> QED
  BY <1>4, <1>6, <1>7, <1>8, <1>9, <1>10, <1>11 DEF CrmInv

-----------------------------------------------------------------------------
(* The theorems.                                                           *)
LEMMA CrmStarts == Init => CrmInv
<1> SUFFICES ASSUME Init PROVE CrmInv
  OBVIOUS
<1>1. /\ MaxDeliveries \in Nat /\ MaxFaults \in Nat /\ Blank \in Local
      /\ 0 \in 0..MaxDeliveries /\ 0 \in 0..MaxFaults
  BY CrmBridgeAssumption DEF Blank, Local
<1>2. TypeOK
  BY <1>1 DEF Init, TypeOK, Pc
<1>3. LinksAgree /\ RowsRefer
  BY DEF Init, LinksAgree, RowsRefer
<1>4. \A c \in Call : CallShape(c)
  BY DEF Init, CallShape, IdleIsBlank, HasCustomer, HasConversation, HasLead, HasDeal, Blank,
     WithCustomer, WithConversation, Received, WithLead
<1>5. SeedsHeld
  <2>1. Abandoned = {} /\ faults = 0
    BY DEF Init, Abandoned
  <2> QED
    BY <2>1, FS_EmptySet DEF SeedsHeld
<1>6. TwinsBounded
  <2> SUFFICES ASSUME NEW customer \in Nat, NEW ad \in Item \cup {NoItem}
               PROVE  Cardinality(Twins(customer, ad)) + Cardinality(Creating(customer, ad))
                        <= Cardinality(Call)
    BY DEF TwinsBounded
  <2>1. Twins(customer, ad) = {} /\ Creating(customer, ad) = {}
    BY DEF Init, Twins, Creating
  <2>2. Cardinality(Call) \in Nat
    BY SomeCalls
  <2> QED
    BY <2>1, <2>2, FS_EmptySet
<1>7. DealsBounded
  BY DEF Init, DealsBounded
<1>8. known = {}
  BY DEF Init
<1> QED
  BY <1>2, <1>3, <1>4, <1>5, <1>6, <1>7, <1>8 DEF CrmInv

LEMMA CrmStep == CrmInv /\ [Next]_vars => CrmInv'
<1> SUFFICES ASSUME CrmInv, [Next]_vars PROVE CrmInv'
  OBVIOUS
<1>1. CASE UNCHANGED vars
  <2>1. /\ UNCHANGED <<customers, customerRows, conversations, conversationRows, listed, leads, deals>>
        /\ UNCHANGED <<pc, todo, local, known, current, deliveries, faults>>
    BY <1>1 DEF vars, stores, calls
  <2>2. TypeOK'
    BY <2>1 DEF CrmInv, TypeOK
  <2>3. Grows /\ LinksAgree' /\ RowsRefer'
    BY <2>1, StoresStand DEF stores
  <2>4. \A d \in Call : CallShape(d)' /\ (d \in known' => KnownGoes(d)')
    BY <2>1, <2>2, <2>3, OthersStand DEF CrmInv
  <2>5. SeedsHeld' /\ TwinsBounded' /\ DealsBounded'
    BY <2>1 DEF CrmInv, SeedsHeld, Abandoned, TwinsBounded, Twins, Creating, DealsBounded, DealsOf,
       Linking, Dealing
  <2>6. known' \subseteq Call
    BY <2>2 DEF TypeOK
  <2> QED
    BY <2>2, <2>3, <2>4, <2>5, <2>6 DEF CrmInv
<1>2. ASSUME NEW c \in Call, Webhook(c) \/ Poll(c) \/ ProcessInbound(c) \/ Fails(c)
      PROVE  CrmInv'
  <2>1. CASE ProcessInbound(c)
    BY <2>1, FindCustomerKeeps, CreateCustomerKeeps, RereadCustomerKeeps, FindAdKeeps,
       FindConversationKeeps, StartConversationKeeps, RereadConversationKeeps, LoadConversationKeeps,
       ReceiveInboundKeeps, ConflictKeeps, FindLeadKeeps, UpdateLeadKeeps, CreateLeadKeeps,
       SeedForLeadKeeps, CreateDealKeeps, LinkDealKeeps DEF ProcessInbound
  <2> QED
    BY <1>2, <2>1, BeginKeeps, FailsKeeps
<1> QED
  BY <1>1, <1>2, AroundKeeps DEF Next

(* Links, duplicates and seeding, whatever overlaps, lags or fails.        *)
THEOREM Invariance == Spec => []CrmInv
BY CrmStarts, CrmStep, PTL DEF Spec

LEMMA UnseededCounted ==
  ASSUME CrmInv
  PROVE  UnseededAccounted
<1> DEFINE Unseeded == {l \in DOMAIN leads : leads[l].seeded < Rules}
           Seeding  == {c \in Call : pc[c] = "seed"}
           Held     == {local[c].lead : c \in Seeding}
           lead     == [c \in Seeding |-> local[c].lead]
<1>1. TypeOK /\ Unseeded \subseteq DOMAIN leads /\ Abandoned \subseteq DOMAIN leads
  BY DEF CrmInv, Abandoned
<1>2. /\ IsFiniteSet(Unseeded) /\ Cardinality(Unseeded) \in Nat
      /\ IsFiniteSet(Abandoned) /\ Cardinality(Abandoned) \in Nat
  BY <1>1, SomeRows DEF TypeOK
<1>3. IsFiniteSet(Seeding) /\ Cardinality(Seeding) \in Nat
  BY SomeCalls
<1>4. IsFiniteSet(Held) /\ Cardinality(Held) <= Cardinality(Seeding)
  <2>1. lead \in Surjection(Seeding, Held)
    BY DEF Surjection
  <2> QED
    BY <1>3, <2>1, FS_Surjection
<1>5. Unseeded \subseteq Abandoned \cup Held
  BY DEF Abandoned
<1>6. /\ IsFiniteSet(Abandoned \cup Held) /\ Cardinality(Held) \in Nat
      /\ Cardinality(Abandoned \cup Held) <= Cardinality(Abandoned) + Cardinality(Held)
  <2>1. /\ IsFiniteSet(Abandoned \cup Held)
        /\ Cardinality(Abandoned \cup Held) =
             Cardinality(Abandoned) + Cardinality(Held) - Cardinality(Abandoned \cap Held)
    BY <1>2, <1>4, FS_Union
  <2>2. IsFiniteSet(Abandoned \cap Held)
    BY <1>2, FS_Subset
  <2>3. Cardinality(Abandoned \cap Held) \in Nat /\ Cardinality(Held) \in Nat
    BY <1>4, <2>2, FS_CardinalityType
  <2> QED
    BY <1>2, <2>1, <2>3
<1>7. Cardinality(Unseeded) <= Cardinality(Abandoned \cup Held)
  BY <1>5, <1>6, FS_Subset
<1>8. Cardinality(Abandoned \cup Held) \in Nat
  BY <1>6, FS_CardinalityType
<1>9. Cardinality(Abandoned) <= faults /\ faults \in Nat
  BY <1>1, FaultsTyped DEF CrmInv, SeedsHeld
<1>10. Cardinality(Unseeded) <= Cardinality(Seeding) + faults
  <2> HIDE DEF Unseeded, Seeding, Held
  <2> QED
    BY <1>2, <1>3, <1>4, <1>6, <1>7, <1>8, <1>9
<1> QED
  BY <1>10 DEF UnseededAccounted, Calling

(* However deliveries repeat, overlap and fail and whatever the read       *)
(* models lag, a lead and what it points to belong together, and only a    *)
(* fault leaves it without its follow-ups (processInbound,                 *)
(* ensureFromMessage, seedForLead).                                        *)
THEOREM LeadsAreWhole == Spec => []LeadsWhole
<1>1. CrmInv => LeadsWhole
  BY UnseededCounted DEF CrmInv, LeadsWhole
<1> QED
  BY <1>1, Invariance, PTL

(* A lead has no more twins than calls that run at once, and no more deals *)
(* than those and the faults, for any number of deliveries.                *)
THEOREM DuplicatesAreBounded == Spec => []DuplicatesBounded
<1>1. ASSUME CrmInv PROVE DuplicatesBounded
  <2> SUFFICES ASSUME NEW l \in DOMAIN leads
               PROVE  /\ Cardinality(Twins(leads[l].customer, leads[l].ad)) <= Cardinality(Call)
                      /\ Cardinality(DealsOf(l)) <= Cardinality(Call) + faults
    BY DEF DuplicatesBounded, Twins, DealsOf
  <2>1. /\ TypeOK /\ leads[l] \in Lead
    BY <1>1, LeadTyped DEF CrmInv
  <2>2. /\ leads[l].customer \in Nat /\ leads[l].ad \in Item \cup {NoItem}
    BY <2>1 DEF Lead
  <2>3. /\ Cardinality(Twins(leads[l].customer, leads[l].ad)) \in Nat
        /\ Cardinality(Creating(leads[l].customer, leads[l].ad)) \in Nat
    <3>1. /\ Twins(leads[l].customer, leads[l].ad) \subseteq DOMAIN leads
          /\ Creating(leads[l].customer, leads[l].ad) \subseteq Call
      BY DEF Twins, Creating
    <3> QED
      BY <2>1, <3>1, SomeRows, SomeCalls DEF TypeOK
  <2>4. Cardinality(Twins(leads[l].customer, leads[l].ad))
          + Cardinality(Creating(leads[l].customer, leads[l].ad)) <= Cardinality(Call)
    BY <1>1, <2>2 DEF CrmInv, TwinsBounded
  <2>5. Cardinality(DealsOf(l)) <= Cardinality(Call) + faults
    <3>1. Cardinality(Linking(l)) <= Cardinality(Call)
      BY SomeCalls DEF Linking
    <3>2. CASE leads[l].deal = 0
      <4>1. Cardinality(DealsOf(l)) <= Cardinality(Linking(l)) + faults
        BY <1>1, <3>2 DEF CrmInv, DealsBounded
      <4> QED
        BY <2>1, <3>1, <4>1, DealsCounted
    <3>3. CASE leads[l].deal # 0
      <4>1. Cardinality(DealsOf(l)) + Cardinality(Dealing(l)) <= Cardinality(Call) + faults
        BY <1>1, <3>3 DEF CrmInv, DealsBounded
      <4> QED
        BY <2>1, <4>1, DealsCounted
    <3> QED
      BY <3>2, <3>3
  <2>6. Cardinality(Call) \in Nat
    BY SomeCalls
  <2> QED
    BY <2>3, <2>4, <2>5, <2>6
<1> QED
  BY <1>1, Invariance, PTL

(* The steps by which a call whose thread is known leaves its message.     *)
LEMMA KnownLeaves ==
  ASSUME CrmInv, [Next]_vars, NEW c \in known,
         todo'[c] = Tail(todo[c]), pc[c] # "receive", faults' = faults
  PROVE  UpdateLead(c) \/ SeedForLead(c) \/ LinkDeal(c)
<1>1. /\ c \in Call /\ TypeOK /\ KnownGoes(c) /\ CallShape(c)
      /\ pc[c] \notin {"idle", "rereadCustomer"} /\ faults \in Nat
      /\ todo \in [Call -> Seq(Message)]
  BY FaultsTyped DEF CrmInv, TypeOK, KnownGoes, Received, WithLead
<1>2. todo'[c] # todo[c]
  BY <1>1, MessageTyped DEF CallShape
<1>3. CASE UNCHANGED vars \/ ProjectCustomer \/ ProjectConversation \/ ListAd
  BY <1>2, <1>3 DEF vars, calls, ProjectCustomer, ProjectConversation, ListAd
<1>4. ASSUME NEW d \in Call, Webhook(d) \/ Poll(d)
      PROVE  FALSE
  <2>1. /\ pc[d] = "idle" /\ \E messages : TakeUp(d, messages)
    BY <1>4 DEF Webhook, Poll, Begin
  <2> QED
    BY <1>1, <1>2, <2>1 DEF TakeUp
<1>5. ASSUME NEW d \in Call, Fails(d)
      PROVE  FALSE
  BY <1>1, <1>5 DEF Fails
<1>6. ASSUME NEW d \in Call, ProcessInbound(d)
      PROVE  UpdateLead(c) \/ SeedForLead(c) \/ LinkDeal(c)
  <2>1. CASE \/ FindCustomer(d) \/ CreateCustomer(d) \/ FindAd(d) \/ FindConversation(d)
             \/ StartConversation(d) \/ RereadConversation(d) \/ LoadConversation(d)
             \/ ReceiveInbound(d) \/ FindLead(d) \/ CreateLead(d) \/ CreateDeal(d)
    BY <1>2, <2>1 DEF FindCustomer, CreateCustomer, FindAd, FindConversation, StartConversation,
       RereadConversation, LoadConversation, ReceiveInbound, FindLead, CreateLead, CreateDeal
  <2>2. CASE RereadCustomer(d) \/ Conflict(d)
    BY <1>1, <1>2, <2>2 DEF RereadCustomer, Conflict, Abort, NextMessage, TakeUp
  <2>3. CASE UpdateLead(d) \/ SeedForLead(d) \/ LinkDeal(d)
    <3>1. CASE d = c
      BY <2>3, <3>1
    <3>2. CASE d # c
      BY <1>1, <1>2, <2>3, <3>2 DEF UpdateLead, SeedForLead, LinkDeal, AfterLead, NextMessage, TakeUp
    <3> QED
      BY <3>1, <3>2
  <2> QED
    BY <1>6, <2>1, <2>2, <2>3 DEF ProcessInbound
<1> QED
  BY <1>3, <1>4, <1>5, <1>6 DEF Next

(* Whatever a lagging read model has lost before, a message whose author   *)
(* and thread are projected when it is taken up ends in a conversation of  *)
(* its thread and with a lead of its author, unless the call throws.       *)
THEOREM KnownGetRecorded == Spec => KnownAreRecorded
<1>1. ASSUME CrmInv, [Next]_vars
      PROVE  \A c \in known :
               (todo'[c] = Tail(todo[c]) /\ pc[c] # "receive" /\ faults' = faults)
                 => /\ \E k \in DOMAIN conversations : Message1(c) \in conversations[k].heard
                    /\ \E l \in DOMAIN leads' : customers[leads'[l].customer] = AuthorOf[Message1(c)]
  <2> SUFFICES ASSUME NEW c \in known,
                      todo'[c] = Tail(todo[c]), pc[c] # "receive", faults' = faults
               PROVE  /\ \E k \in DOMAIN conversations : Message1(c) \in conversations[k].heard
                      /\ \E l \in DOMAIN leads' : customers[leads'[l].customer] = AuthorOf[Message1(c)]
    OBVIOUS
  <2>1. UpdateLead(c) \/ SeedForLead(c) \/ LinkDeal(c)
    BY <1>1, KnownLeaves
  <2>2. /\ c \in Call /\ TypeOK /\ KnownGoes(c) /\ CallShape(c) /\ pc[c] \in WithLead
    BY <1>1, <2>1 DEF CrmInv, TypeOK, UpdateLead, SeedForLead, LinkDeal, WithLead
  <2>3. \E k \in DOMAIN conversations : Message1(c) \in conversations[k].heard
    BY <2>2 DEF KnownGoes, CallShape, HasConversation, Received
  <2> DEFINE l == local[c].lead
  <2>4. /\ l \in DOMAIN leads /\ customers[leads[l].customer] = AuthorOf[Message1(c)]
        /\ leads[l] \in Lead /\ leads \in Seq(Lead)
    <3>1. l \in DOMAIN leads /\ leads[l].customer = local[c].customer
      BY <2>2 DEF CallShape, HasLead
    <3>2. customers[local[c].customer] = AuthorOf[Message1(c)]
      BY <2>2 DEF CallShape, HasCustomer, WithCustomer, Received
    <3> QED
      BY <2>2, <3>1, <3>2, LeadTyped DEF TypeOK
  <2>5. l \in DOMAIN leads' /\ leads'[l].customer = leads[l].customer
    <3>1. \/ leads' = leads
          \/ leads' = [leads EXCEPT ![l].conversation = leads'[l].conversation]
          \/ leads' = [leads EXCEPT ![l].seeded = @ + 1]
          \/ leads' = [leads EXCEPT ![l].deal = local[c].deal]
      <4>1. CASE UpdateLead(c)
        BY <2>4, <4>1 DEF UpdateLead, Lead
      <4>2. CASE SeedForLead(c)
        BY <4>2 DEF SeedForLead
      <4>3. CASE LinkDeal(c)
        BY <4>3 DEF LinkDeal
      <4> QED
        BY <2>1, <4>1, <4>2, <4>3
    <3> QED
      BY <2>4, <3>1 DEF Lead
  <2> QED
    BY <2>3, <2>4, <2>5
<1> QED
  BY <1>1, Invariance, PTL DEF Spec, KnownAreRecorded
=============================================================================
