-------------------------- MODULE MCMonthlyBilling --------------------------
(***************************************************************************)
(* Small instance of MonthlyBilling: two notes on different invoices (a    *)
(* customer with split invoices) and one credit note for the first one.    *)
(***************************************************************************)
EXTENDS MonthlyBilling, TLC

CONSTANTS n1, n2, c1, food, disposables, Fits

MCKey == [d \in Docs |-> IF d = n2 THEN disposables ELSE food]

MCNumber == [c \in Credits |-> 1]

(* Fits: does the credit note leave something to pay on its invoice?       *)
MCLines == [d \in Docs |->
    [taxable |-> IF d = c1 /\ ~Fits THEN 5 ELSE IF d = c1 THEN 2 ELSE 3,
     exempt |-> 0, discount |-> 0]]

RunSymmetry == Permutations(Runs)
=============================================================================
