---------------------------- MODULE InvoiceBook ----------------------------
(***************************************************************************)
(* What monthly billing promises, without saying how: a book of who is     *)
(* charged for what.  An invoice is opened once, for documents that no     *)
(* other invoice charges; a credit takes documents off an invoice, after   *)
(* which they may go on another one.  There are no claims here, no runs    *)
(* and no statuses: MonthlyBilling implements this book with them.         *)
(*                                                                         *)
(* `lost' are the documents the promise no longer covers: an accident that *)
(* the code can only log has hit them.                                     *)
(***************************************************************************)
EXTENDS TLAPS

CONSTANTS Docs, Invoices

VARIABLES
    book,        \* pairs <<d, i>>: invoice i charges the customer for d
    issued,      \* invoices opened so far
    lost         \* documents the book no longer answers for

bookVars == <<book, issued, lost>>

ChargedDocs == {b[1] : b \in book}

Init ==
    /\ book = {}
    /\ issued = {}
    /\ lost = {}

(* A new invoice, for documents that no invoice charges.                   *)
Issue(i, S) ==
    /\ i \notin issued
    /\ S \cap (ChargedDocs \cup lost) = {}
    /\ book' = book \cup (S \X {i})
    /\ issued' = issued \cup {i}
    /\ UNCHANGED lost

(* A credit of invoice i for the documents S; those of L turn out to have  *)
(* been credited before.                                                   *)
Credit(i, S, L) ==
    /\ i \in issued
    /\ book' = {b \in book : b[1] \notin L /\ b \notin S \X {i}}
    /\ lost' = lost \cup L
    /\ UNCHANGED issued

(* An accident; I is the invoice the books never heard of, if any.         *)
Lose(L, I) ==
    /\ I \cap issued = {}
    /\ book' = {b \in book : b[1] \notin L}
    /\ lost' = lost \cup L
    /\ issued' = issued \cup I

Next ==
    \/ \E i \in Invoices, S \in SUBSET Docs : Issue(i, S)
    \/ \E i \in Invoices, S \in SUBSET Docs, L \in SUBSET Docs : Credit(i, S, L)
    \/ \E L \in SUBSET Docs, I \in {{}} \cup {{i} : i \in Invoices} : Lose(L, I)

Spec == Init /\ [][Next]_bookVars

(* No document is on two invoices, and the book never charges for what it  *)
(* no longer answers for.                                                  *)
OneInvoiceEach ==
    /\ book \subseteq (Docs \ lost) \X issued
    /\ \A b, c \in book : b[1] = c[1] => b = c

(* The book as specified cannot charge a document twice.                   *)
THEOREM BookIsSound == Spec => []OneInvoiceEach
<1>1. Init => OneInvoiceEach
    BY DEF Init, OneInvoiceEach
<1>2. OneInvoiceEach /\ [Next]_bookVars => OneInvoiceEach'
  <2> SUFFICES ASSUME OneInvoiceEach, [Next]_bookVars PROVE OneInvoiceEach'
    OBVIOUS
  <2> USE DEF OneInvoiceEach, bookVars
  <2>1. ASSUME NEW i \in Invoices, NEW S \in SUBSET Docs, Issue(i, S)
        PROVE  OneInvoiceEach'
    BY <2>1 DEF Issue, ChargedDocs
  <2>2. ASSUME NEW i \in Invoices, NEW S \in SUBSET Docs, NEW L \in SUBSET Docs,
               Credit(i, S, L)
        PROVE  OneInvoiceEach'
    BY <2>2 DEF Credit
  <2>3. ASSUME NEW L \in SUBSET Docs, NEW I, Lose(L, I)
        PROVE  OneInvoiceEach'
    BY <2>3 DEF Lose
  <2> QED
    BY <2>1, <2>2, <2>3 DEF Next
<1> QED
    BY <1>1, <1>2, PTL DEF Spec
=============================================================================
