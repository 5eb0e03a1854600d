--------------------------- MODULE MCChatMessages ---------------------------
(* Instances of ChatMessages for TLC. *)
EXTENDS ChatMessages, TLC

CONSTANTS a1, a2, nobody
=============================================================================
