---------------------------- MODULE MCCrmBridge ----------------------------
(* One buyer with two chats about one item, which may get its ad row late; *)
(* in the first the account replied between two messages of the buyer, and *)
(* its reply may reach the bridge by webhook.                              *)
EXTENDS CrmBridge

MCMessage == {"m1", "reply", "m2"}
MCChatOf == [m \in MCMessage |-> IF m = "m2" THEN "chat2" ELSE "chat1"]
MCAuthorOf == [m \in MCMessage |-> IF m = "reply" THEN "account" ELSE "buyer"]
MCItemOf == [m \in MCMessage |-> "item"]
MCSnapshot == <<"m2", "m1">>
=============================================================================
