----------------------------- MODULE MCCheckout -----------------------------
(***************************************************************************)
(* Small instance of Checkout.  Calls are interchangeable, and so are      *)
(* webhooks.                                                               *)
(***************************************************************************)
EXTENDS Checkout, TLC

Interchangeable == Permutations(Carts) \cup Permutations(Hooks)
=============================================================================
