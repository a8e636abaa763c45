------------------------------ MODULE MCPurchase ------------------------------
(* Purchase on small instances. *)
EXTENDS Purchase
=============================================================================
