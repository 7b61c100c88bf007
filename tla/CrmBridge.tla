----------------------------- MODULE CrmBridge -----------------------------
(***************************************************************************)
(* How inbound Avito messages become customers, conversations, leads,      *)
(* follow-ups and deals: AvitoCrmBridgeService.processInbound, reached by  *)
(* webhook and by the poll of the messenger snapshot every two minutes,    *)
(* with AvitoLeadCenterService.ensureFromMessage and seedForLead.          *)
(*                                                                         *)
(* Customers, conversations and deals are event-sourced; the bridge looks  *)
(* them up in read models that a projection fills later, each at its own   *)
(* pace.  Leads and follow-ups are plain rows.  Nothing holds a lock or a  *)
(* transaction across the steps of a call, and no table has a unique key   *)
(* on what the lookups search for.                                         *)
(***************************************************************************)
EXTENDS Integers, Sequences, FiniteSets

CONSTANTS Call,              \* deliveries under way: webhooks, polls
          Poller,            \* those of them that are polls
          Message, Chat, Author, Item,
          NoItem,            \* a message that is about no item
          ChatOf, AuthorOf, ItemOf,
          Snapshot,          \* the last message of every chat, as the poll reads them
          Rules,             \* how many DEFAULT_RULES a lead is seeded with
          MaxCopies,         \* bound on customers per author, conversations per chat
          MaxDeliveries,     \* bound on deliveries
          MaxFaults

ASSUME CrmBridgeAssumption ==
  /\ IsFiniteSet(Call) /\ Poller \subseteq Call
  /\ ChatOf \in [Message -> Chat] /\ AuthorOf \in [Message -> Author]
  /\ ItemOf \in [Message -> Item \cup {NoItem}] /\ NoItem \notin Item
  /\ Snapshot \in Seq(Message)
  /\ {Rules, MaxCopies, MaxDeliveries, MaxFaults} \subseteq Nat

VARIABLES
  customers,         \* customer aggregates: the author each stands for
  customerRows,      \* how many of them CustomerProjection has projected
  conversations,     \* conversation aggregates
  conversationRows,  \* how many of them ConversationProjection has projected
  listed,            \* items that have a row in the ad read model
  leads,             \* AvitoLeadReadModel
  deals,             \* deal aggregates, with the lead they were made for
  pc,                \* next step of each call
  todo,              \* messages a call still has to process
  local,             \* what a call found or created for the current message
  known,             \* history: calls whose message is of a projected author and chat
  current,           \* calls whose load of their conversation is current
  deliveries,        \* webhooks and polls so far
  faults             \* steps that failed

stores == <<customers, customerRows, conversations, conversationRows, listed, leads, deals>>
calls  == <<pc, todo, local, known, current>>
vars   == <<stores, calls, deliveries, faults>>

Conversation == [chat : Chat, customer : Nat, heard : SUBSET Message]
Lead  == [customer : Nat, ad : Item \cup {NoItem}, conversation : Nat, deal : Nat, seeded : 0..Rules]
Deal  == [customer : Nat, ad : Item, lead : Nat]
Local == [customer : Nat, ad : Item \cup {NoItem}, conversation : Nat, lead : Nat, links : Nat,
          deal : Nat]
Blank == [customer |-> 0, ad |-> NoItem, conversation |-> 0, lead |-> 0, links |-> 0, deal |-> 0]
Pc    == {"idle", "customer", "createCustomer", "rereadCustomer", "ad", "conversation", "start",
          "rereadConversation", "load", "receive", "lead", "createLead", "updateLead", "seed",
          "createDeal", "linkDeal"}

TypeOK ==
  /\ customers \in Seq(Author)
  /\ customerRows \in 0..Len(customers)
  /\ conversations \in Seq(Conversation)
  /\ conversationRows \in 0..Len(conversations)
  /\ listed \subseteq Item
  /\ leads \in Seq(Lead)
  /\ deals \in Seq(Deal)
  /\ pc \in [Call -> Pc]
  /\ todo \in [Call -> Seq(Message)]
  /\ local \in [Call -> Local]
  /\ known \subseteq Call /\ current \subseteq Call
  /\ deliveries \in 0..MaxDeliveries
  /\ faults \in 0..MaxFaults

Init ==
  /\ customers = <<>> /\ customerRows = 0
  /\ conversations = <<>> /\ conversationRows = 0
  /\ listed = {} /\ leads = <<>> /\ deals = <<>>
  /\ pc = [c \in Call |-> "idle"]
  /\ todo = [c \in Call |-> <<>>]
  /\ local = [c \in Call |-> Blank]
  /\ known = {} /\ current = {}
  /\ deliveries = 0 /\ faults = 0

-----------------------------------------------------------------------------
(* Control.                                                                *)

Message1(c) == Head(todo[c])

CustomersOf(author)   == {k \in 1..customerRows : customers[k] = author}

(* Mutant: the latest conversation of the account is taken.                *)
LastConversation(chat) == {conversationRows} \ {0}

ConversationsOf(chat) == {k \in 1..conversationRows : conversations[k].chat = chat}

Goto(c, step, found) ==
  /\ pc' = [pc EXCEPT ![c] = step]
  /\ local' = [local EXCEPT ![c] = found]

(* Call c goes on with the given messages.                                 *)
TakeUp(c, messages) ==
  /\ todo' = [todo EXCEPT ![c] = messages]
  /\ Goto(c, IF messages = <<>> THEN "idle" ELSE "customer", Blank)
  /\ known' = IF /\ messages # <<>>
                 /\ CustomersOf(AuthorOf[Head(messages)]) # {}
                 /\ ConversationsOf(ChatOf[Head(messages)]) # {}
              THEN known \cup {c} ELSE known \ {c}

(* processInbound returned: the poll goes on with the next chat.           *)
NextMessage(c) == TakeUp(c, Tail(todo[c]))

(* Something threw: the rest of a poll is not processed.                   *)
Abort(c) == TakeUp(c, <<>>) /\ current' = current \ {c}

Begin(c, messages) ==
  /\ pc[c] = "idle" /\ messages # <<>>
  /\ TakeUp(c, messages)
  /\ UNCHANGED <<stores, current, faults>>

Webhook(c) ==
  /\ c \notin Poller /\ deliveries < MaxDeliveries
  /\ deliveries' = deliveries + 1
  /\ \E m \in Message : Begin(c, <<m>>)

(* syncFromMessengerSnapshot.                                              *)
Poll(c) ==
  /\ c \in Poller /\ deliveries < MaxDeliveries
  /\ deliveries' = deliveries + 1
  /\ Begin(c, Snapshot)

Calling(step) == Cardinality({c \in Call : pc[c] = step})

(* The bound on copies: a lookup that would exceed it waits for the        *)
(* projection.                                                             *)
Room(copies, creators) == Cardinality(copies) + Cardinality(creators) < MaxCopies

-----------------------------------------------------------------------------
(* The customer.                                                           *)

FindCustomer(c) ==
  LET author == AuthorOf[Message1(c)]
      found  == CustomersOf(author)
  IN
  /\ pc[c] = "customer"
  /\ \/ \E k \in found : Goto(c, "ad", [local[c] EXCEPT !.customer = k])
     \/ /\ found = {}
        /\ Room({k \in DOMAIN customers : customers[k] = author},
                {d \in Call : pc[d] = "createCustomer" /\ AuthorOf[Message1(d)] = author})
        /\ Goto(c, "createCustomer", local[c])
  /\ UNCHANGED <<stores, todo, known, current, deliveries, faults>>

CreateCustomer(c) ==
  /\ pc[c] = "createCustomer"
  /\ customers' = Append(customers, AuthorOf[Message1(c)])
  /\ Goto(c, "rereadCustomer", [local[c] EXCEPT !.customer = Len(customers) + 1])
  /\ UNCHANGED <<customerRows, conversations, conversationRows, listed, leads, deals, todo, known,
                 current, deliveries, faults>>

(* The row of the customer just created, or `return {}`.                   *)
RereadCustomer(c) ==
  /\ pc[c] = "rereadCustomer"
  /\ IF local[c].customer <= customerRows
     THEN Goto(c, "ad", local[c]) /\ UNCHANGED <<todo, known>>
     ELSE NextMessage(c)
  /\ UNCHANGED <<stores, current, deliveries, faults>>

-----------------------------------------------------------------------------
(* The ad and the conversation.                                            *)

FindAd(c) ==
  LET item == ItemOf[Message1(c)] IN
  /\ pc[c] = "ad"
  /\ Goto(c, "conversation", [local[c] EXCEPT !.ad = IF item \in listed THEN item ELSE NoItem])
  /\ UNCHANGED <<stores, todo, known, current, deliveries, faults>>

(* Mutant: a message to a known conversation is not received.              *)
FindOnly(c) ==
  LET chat  == ChatOf[Message1(c)]
      found == ConversationsOf(chat)
  IN
  /\ pc[c] = "conversation"
  /\ \/ \E k \in found : Goto(c, "lead", [local[c] EXCEPT !.conversation = k])
     \/ found = {} /\ Goto(c, "start", local[c])
  /\ UNCHANGED <<stores, todo, known, current, deliveries, faults>>

FindConversation(c) ==
  LET chat  == ChatOf[Message1(c)]
      found == ConversationsOf(chat)
  IN
  /\ pc[c] = "conversation"
  /\ \/ \E k \in found : Goto(c, "load", [local[c] EXCEPT !.conversation = k])
     \/ /\ found = {}
        /\ Room({k \in DOMAIN conversations : conversations[k].chat = chat},
                {d \in Call : pc[d] = "start" /\ ChatOf[Message1(d)] = chat})
        /\ Goto(c, "start", local[c])
  /\ UNCHANGED <<stores, todo, known, current, deliveries, faults>>

StartConversation(c) ==
  /\ pc[c] = "start"
  /\ conversations' = Append(conversations, [chat |-> ChatOf[Message1(c)],
                                             customer |-> local[c].customer, heard |-> {}])
  /\ Goto(c, "rereadConversation", [local[c] EXCEPT !.conversation = Len(conversations) + 1])
  /\ UNCHANGED <<customers, customerRows, conversationRows, listed, leads, deals, todo, known, current,
                 deliveries, faults>>

(* Without a row the message is not received, and the lead gets none.      *)
RereadConversation(c) ==
  /\ pc[c] = "rereadConversation"
  /\ IF local[c].conversation <= conversationRows
     THEN Goto(c, "load", local[c])
     ELSE Goto(c, "lead", [local[c] EXCEPT !.conversation = 0])
  /\ UNCHANGED <<stores, todo, known, current, deliveries, faults>>

(* receiveInbound: load, raise, save at the version that was loaded.       *)
LoadConversation(c) ==
  /\ pc[c] = "load"
  /\ current' = current \cup {c}
  /\ Goto(c, "receive", local[c])
  /\ UNCHANGED <<stores, todo, known, deliveries, faults>>

ReceiveInbound(c) ==
  LET k == local[c].conversation IN
  /\ pc[c] = "receive" /\ c \in current
  /\ conversations' = [conversations EXCEPT ![k].heard = @ \cup {Message1(c)}]
  /\ current' = {d \in current : local[d].conversation # k}
  /\ Goto(c, "lead", local[c])
  /\ UNCHANGED <<customers, customerRows, conversationRows, listed, leads, deals, todo, known, deliveries,
                 faults>>

(* ConcurrencyError from the save.                                         *)
Conflict(c) ==
  /\ pc[c] = "receive" /\ c \notin current
  /\ Abort(c)
  /\ UNCHANGED <<stores, deliveries, faults>>

(* Mutant: only leads that have no deal yet are looked for.                *)
OpenLeads(customer, ad) ==
  {l \in DOMAIN leads : /\ leads[l].customer = customer /\ ad \in {NoItem, leads[l].ad}
                        /\ leads[l].deal = 0}

-----------------------------------------------------------------------------
(* The lead, its follow-ups and its deal.                                  *)

LeadsOf(customer, ad) ==
  {l \in DOMAIN leads : leads[l].customer = customer /\ ad \in {NoItem, leads[l].ad}}

(* The update is to write `input.conversationId ?? existing.conversationId` *)
(* of the lead as it was found.                                            *)
FindLead(c) ==
  LET found == LeadsOf(local[c].customer, local[c].ad)
      k     == local[c].conversation
  IN
  /\ pc[c] = "lead"
  /\ \/ \E l \in found :
          Goto(c, "updateLead",
               [local[c] EXCEPT !.lead = l, !.links = IF k = 0 THEN leads[l].conversation ELSE k])
     \/ /\ found = {}
        /\ Goto(c, "createLead", local[c])
  /\ UNCHANGED <<stores, todo, known, current, deliveries, faults>>

(* What follows once ensureFromMessage returned the lead: a deal, if the   *)
(* row it returned has none and the ad is known.                           *)
AfterLead(c, deal) ==
  IF deal = 0 /\ local[c].ad # NoItem
  THEN Goto(c, "createDeal", local[c]) /\ UNCHANGED <<todo, known>>
  ELSE NextMessage(c)

UpdateLead(c) ==
  LET l == local[c].lead IN
  /\ pc[c] = "updateLead"
  /\ leads' = [leads EXCEPT ![l].conversation = local[c].links]
  /\ AfterLead(c, leads[l].deal)
  /\ UNCHANGED <<customers, customerRows, conversations, conversationRows, listed, deals, current,
                 deliveries, faults>>

CreateLead(c) ==
  /\ pc[c] = "createLead"
  /\ leads' = Append(leads, [customer |-> local[c].customer, ad |-> local[c].ad,
                             conversation |-> local[c].conversation, deal |-> 0, seeded |-> 0])
  /\ Goto(c, "seed", [local[c] EXCEPT !.lead = Len(leads) + 1])
  /\ UNCHANGED <<customers, customerRows, conversations, conversationRows, listed, deals, todo, known,
                 current, deliveries, faults>>

(* One follow-up row per rule, inserted one by one.                        *)
SeedForLead(c) ==
  LET l == local[c].lead IN
  /\ pc[c] = "seed"
  /\ IF leads[l].seeded < Rules
     THEN leads' = [leads EXCEPT ![l].seeded = @ + 1] /\ UNCHANGED <<pc, todo, local, known>>
     ELSE AfterLead(c, 0) /\ UNCHANGED leads
  /\ UNCHANGED <<customers, customerRows, conversations, conversationRows, listed, deals, current,
                 deliveries, faults>>

CreateDeal(c) ==
  /\ pc[c] = "createDeal"
  /\ deals' = Append(deals, [customer |-> local[c].customer, ad |-> local[c].ad,
                             lead |-> local[c].lead])
  /\ Goto(c, "linkDeal", [local[c] EXCEPT !.deal = Len(deals) + 1])
  /\ UNCHANGED <<customers, customerRows, conversations, conversationRows, listed, leads, todo, known,
                 current, deliveries, faults>>

LinkDeal(c) ==
  /\ pc[c] = "linkDeal"
  /\ leads' = [leads EXCEPT ![local[c].lead].deal = local[c].deal]
  /\ NextMessage(c)
  /\ UNCHANGED <<customers, customerRows, conversations, conversationRows, listed, deals, current,
                 deliveries, faults>>

-----------------------------------------------------------------------------
(* Around the calls: projections that follow, ads that are listed, faults. *)

ProjectCustomer ==
  /\ customerRows < Len(customers)
  /\ customerRows' = customerRows + 1
  /\ UNCHANGED <<customers, conversations, conversationRows, listed, leads, deals, calls, deliveries,
                 faults>>

ProjectConversation ==
  /\ conversationRows < Len(conversations)
  /\ conversationRows' = conversationRows + 1
  /\ UNCHANGED <<customers, customerRows, conversations, listed, leads, deals, calls, deliveries,
                 faults>>

ListAd ==
  /\ \E i \in Item \ listed : listed' = listed \cup {i}
  /\ UNCHANGED <<customers, customerRows, conversations, conversationRows, leads, deals, calls,
                 deliveries, faults>>

(* A query fails, or the process dies under the call.                      *)
Fails(c) ==
  /\ pc[c] # "idle" /\ faults < MaxFaults
  /\ faults' = faults + 1
  /\ Abort(c)
  /\ UNCHANGED <<stores, deliveries>>

ProcessInbound(c) ==
  \/ FindCustomer(c) \/ CreateCustomer(c) \/ RereadCustomer(c) \/ FindAd(c)
  \/ FindConversation(c) \/ StartConversation(c) \/ RereadConversation(c)
  \/ LoadConversation(c) \/ ReceiveInbound(c) \/ Conflict(c)
  \/ FindLead(c) \/ UpdateLead(c) \/ CreateLead(c) \/ SeedForLead(c)
  \/ CreateDeal(c) \/ LinkDeal(c)

Next ==
  \/ \E c \in Call : Webhook(c) \/ Poll(c) \/ ProcessInbound(c) \/ Fails(c)
  \/ ProjectCustomer \/ ProjectConversation \/ ListAd

Spec == Init /\ [][Next]_vars

-----------------------------------------------------------------------------
(* Properties.                                                             *)

(* Customer k is the author of a message of the chat: the buyer, or the    *)
(* account itself, whose replies are taken up like any other message.      *)
WritesIn(k, chat) == \E m \in Message : ChatOf[m] = chat /\ AuthorOf[m] = customers[k]

(* A message is recorded only in a conversation of its own thread, whose   *)
(* customer writes there; a lead points to a conversation its own customer *)
(* writes in, and to a deal of its own customer and ad, whichever          *)
(* duplicates the lagging read models led to.                              *)
LinksAgree ==
  /\ \A k \in DOMAIN conversations :
       /\ WritesIn(conversations[k].customer, conversations[k].chat)
       /\ \A m \in conversations[k].heard : ChatOf[m] = conversations[k].chat
  /\ \A l \in DOMAIN leads :
       /\ leads[l].conversation # 0 =>
            WritesIn(leads[l].customer, conversations[leads[l].conversation].chat)
       /\ leads[l].deal # 0 =>
            LET d == deals[leads[l].deal] IN
            d.lead = l /\ d.ad = leads[l].ad /\ d.customer = leads[l].customer

(* No one returns to a lead whose seeding was cut short: a lead lacks      *)
(* follow-ups only while its creator is inserting them, or for good after  *)
(* a fault (seedForLead).                                                  *)
UnseededAccounted ==
  Cardinality({l \in DOMAIN leads : leads[l].seeded < Rules}) <= Calling("seed") + faults

(* A lead is whole: it and what it points to have their shape and belong   *)
(* together (thread, customer, ad), and its follow-ups are there unless a  *)
(* fault cut the call that created it (processInbound, ensureFromMessage,  *)
(* seedForLead).                                                           *)
LeadsWhole == TypeOK /\ LinksAgree /\ UnseededAccounted

(* Find-or-create is not atomic, yet duplicates come only from calls that  *)
(* were all past the lookup when the first one inserted.  However often    *)
(* webhooks and polls repeat a message, a lead has no more twins than      *)
(* calls that can run at once (ensureFromMessage), and no more deals than  *)
(* those, plus one for each fault between a deal and its link              *)
(* (processInbound).                                                       *)
DuplicatesBounded ==
  \A l \in DOMAIN leads :
    /\ Cardinality({k \in DOMAIN leads : /\ leads[k].customer = leads[l].customer
                                         /\ leads[k].ad = leads[l].ad}) <= Cardinality(Call)
    /\ Cardinality({d \in DOMAIN deals : deals[d].lead = l}) <= Cardinality(Call) + faults

(* What a lagging read model lost, the next delivery brings: a message     *)
(* whose author and thread are projected when it is taken up ends in a     *)
(* conversation of its thread and with a lead of its author, unless the    *)
(* call throws.                                                            *)
KnownAreRecorded ==
  [][\A c \in known :
       (todo'[c] = Tail(todo[c]) /\ pc[c] # "receive" /\ faults' = faults)
         => /\ \E k \in DOMAIN conversations : Message1(c) \in conversations[k].heard
            /\ \E l \in DOMAIN leads' : customers[leads'[l].customer] = AuthorOf[Message1(c)]]_vars
=============================================================================
