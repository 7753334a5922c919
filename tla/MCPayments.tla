----------------------------- MODULE MCPayments -----------------------------
(***************************************************************************)
(* Small instance of Payments: an invoice of two notes, whose estimate     *)
(* differs from what iCount says, and an invoice of one note.              *)
(***************************************************************************)
EXTENDS Payments, TLC

CONSTANTS n1, n2, n3, i1, i2

MCOn == [n \in Notes |-> IF n = n3 THEN i2 ELSE i1]

MCTotal == [i \in Invoices |-> IF i = i1 THEN 3 ELSE 2]

MCEstimate == [i \in Invoices |-> IF i = i1 THEN 4 ELSE 2]

MCCorrection == [a \in Adjusts |-> 3]
=============================================================================
