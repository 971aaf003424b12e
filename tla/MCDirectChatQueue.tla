------------------------- MODULE MCDirectChatQueue -------------------------
(* Few turns of one person; the configurations choose which of them queue. *)
EXTENDS DirectChatQueue
=============================================================================
