--------------------------- MODULE MCCreditNotes ---------------------------
(***************************************************************************)
(* Small instance of CreditNotes: an invoice of ten shekels, a credit note *)
(* of eleven, which the tolerance of one lets pass, and c2 of one, which   *)
(* then is one too much.  The notes of Linked are for the invoice by their *)
(* form, the others by a request.  c3, where there is one, is the form of  *)
(* c1 sent again.                                                          *)
(***************************************************************************)
EXTENDS CreditNotes

CONSTANTS c1, c2, c3, inv, food, disposables, form, Linked

MCForm == [c \in Credits |-> IF c = c2 THEN None ELSE form]

MCAmount == [c \in Credits |-> IF c = c2 THEN 1 ELSE 11]

MCOriginal == [c \in Credits |-> IF c \in Linked THEN inv ELSE None]

MCPart == [c \in Credits |-> IF c = c2 THEN disposables ELSE food]

MCGross == [i \in Invoices |-> 10]

=============================================================================
