------------------------- MODULE MCProjectionManager -------------------------
(* Two ads, and a conversation whose messages count on the first of them.  *)
EXTENDS ProjectionManager

CONSTANTS ad1, ad2, conversation

MCStream   == {ad1, ad2, conversation}
MCCountsOn == [s \in MCStream |-> IF s = conversation THEN ad1 ELSE s]

(* One ad, and a stream the projection does not handle. *)
SmallStream   == {ad1, conversation}
SmallCountsOn == [s \in SmallStream |-> IF s = conversation THEN NoAd ELSE s]
=============================================================================
