------------------------- MODULE MCSubPubUnsubDemo -------------------------
(* Small instances of the demo's tasks and their connection. *)
EXTENDS SubPubUnsubDemo
=============================================================================
