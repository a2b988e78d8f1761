------------------------------ MODULE MCDigest ------------------------------
(* Two chats bound one after the other, two worker processes. *)
EXTENDS DigestDelivery

CONSTANTS l1, l2, w1, w2
=============================================================================
