------------------------------ MODULE Payments ------------------------------
(***************************************************************************)
(* How the invoices of one customer are paid, and what that does to the    *)
(* customer's balance: createReceiptForPayment (billingController.js),     *)
(* lib/billing/customerBalance.js, and the part of creditInvoice           *)
(* (monthlyBilling.js) that gives a paid invoice back.                     *)
(*                                                                         *)
(* The balance is the sum of ledger entries, one per payment, refund or    *)
(* correction.  There is no document "invoice" in the database: whether an *)
(* invoice is paid is billing.paidAt of the delivery notes behind it.  A   *)
(* payment plans (reads what is due and the balance), checks that nothing  *)
(* is paid yet, and then either takes the notes one by one and records the *)
(* entry (from the balance), or issues a receipt in iCount, marks the      *)
(* notes and records the entry.  Every `await' is a boundary between       *)
(* actions; there is no transaction around them.                           *)
(***************************************************************************)
EXTENDS Integers, FiniteSets, FiniteSetsExt

CONSTANTS
    Notes,        \* billed delivery notes of the customer
    Invoices,     \* the invoices that charge them
    On,           \* On[n]: the invoice of note n
    Total,        \* Total[i]: what iCount says invoice i amounts to
    Estimate,     \* Estimate[i]: the same computed from the notes
    Payments,     \* calls of createReceiptForPayment
    Sums,         \* the sums a payment may bring, 0 for "from the balance"
    Credits,      \* calls of creditInvoice
    Adjusts,      \* calls of adjust
    Correction,   \* Correction[a]: the sum of a manual entry
    Faults,       \* which kinds of failure the environment may show
    None          \* "not set"

FaultKinds == {"crash", "dbFails", "rejected", "lostReply", "icountDown"}

ASSUME InvoicesAssumption ==
    /\ IsFiniteSet(Notes)
    /\ IsFiniteSet(Invoices)
    /\ On \in [Notes -> Invoices]
    /\ Total \in [Invoices -> Nat \ {0}]
    /\ Estimate \in [Invoices -> Nat \ {0}]

ASSUME CallsAssumption ==
    /\ IsFiniteSet(Payments)
    /\ IsFiniteSet(Credits)
    /\ IsFiniteSet(Adjusts)
    /\ Sums \subseteq Nat
    /\ Correction \in [Adjusts -> Int \ {0}]
    /\ Faults \subseteq FaultKinds
    /\ None \notin Payments \cup Invoices

VARIABLES
    status,      \* status[n]: billing.status of the note
    paidAt,      \* paidAt[n]: the call whose moment billing.paidAt holds
    fromBalance, \* notes with billing.paidFromBalance
    pc,          \* pc[p]: where payment p stands
    list,        \* list[p]: forInvoices
    received,    \* received[p]: the sum that came in
    due,         \* due[p][i]: settlement.invoices, the total planned for i
    before,      \* before[p]: settlement.balanceBefore
    todo,        \* todo[p]: notes the running updateMany has yet to visit
    claimed,     \* claimed[p]: notes its update has changed
    receipts,    \* payments whose receipt exists in iCount
    entered,     \* payments whose ledger entry exists
    vpc,         \* vpc[x]: where credit x stands
    vdoc,        \* vdoc[x]: the invoice it credits
    vnotes,      \* vnotes[x]: the notes it read behind that invoice
    vpaid,       \* vpaid[x]: was one of them paid?
    vsum,        \* vsum[x]: the sum it is about to give back
    credited,    \* credits whose document exists in iCount
    refund,      \* refund[x]: delta of its ledger entry, 0 if there is none
    adjusted,    \* manual entries made
    incident     \* invoices hit by a failure or by an overlap (history)

noteVars    == <<status, paidAt, fromBalance>>
paymentVars == <<pc, list, received, due, before, todo, claimed>>
creditVars  == <<vpc, vdoc, vnotes, vpaid, vsum, credited, refund>>
vars == <<noteVars, paymentVars, receipts, entered, creditVars, adjusted, incident>>

PaymentSteps == {"idle", "check", "claim", "record", "undo",
                 "receipt", "mark", "enter", "done", "dead"}
CreditSteps == {"idle", "issue", "write", "find", "refund", "done"}

TypeOK ==
    /\ status \in [Notes -> {"billed", "open", "cancelled"}]
    /\ paidAt \in [Notes -> Payments \cup {None}]
    /\ fromBalance \in SUBSET Notes
    /\ pc \in [Payments -> PaymentSteps]
    /\ list \in [Payments -> SUBSET Invoices]
    /\ received \in [Payments -> Nat]
    /\ due \in [Payments -> [Invoices -> Nat \ {0}]]
    /\ before \in [Payments -> Int]
    /\ todo \in [Payments -> SUBSET Notes]
    /\ claimed \in [Payments -> SUBSET Notes]
    /\ receipts \in SUBSET Payments
    /\ entered \in SUBSET Payments
    /\ vpc \in [Credits -> CreditSteps]
    /\ vdoc \in [Credits -> Invoices \cup {None}]
    /\ vnotes \in [Credits -> SUBSET Notes]
    /\ vpaid \in [Credits -> BOOLEAN]
    /\ vsum \in [Credits -> Nat]
    /\ credited \in SUBSET Credits
    /\ refund \in [Credits -> Nat]
    /\ adjusted \in SUBSET Adjusts
    /\ incident \in SUBSET Invoices

Init ==
    /\ status = [n \in Notes |-> "billed"]
    /\ paidAt = [n \in Notes |-> None]
    /\ fromBalance = {}
    /\ pc = [p \in Payments |-> "idle"]
    /\ list = [p \in Payments |-> {}]
    /\ received = [p \in Payments |-> 0]
    /\ due = [p \in Payments |-> Total]
    /\ before = [p \in Payments |-> 0]
    /\ todo = [p \in Payments |-> {}]
    /\ claimed = [p \in Payments |-> {}]
    /\ receipts = {}
    /\ entered = {}
    /\ vpc = [x \in Credits |-> "idle"]
    /\ vdoc = [x \in Credits |-> None]
    /\ vnotes = [x \in Credits |-> {}]
    /\ vpaid = [x \in Credits |-> FALSE]
    /\ vsum = [x \in Credits |-> 0]
    /\ credited = {}
    /\ refund = [x \in Credits |-> 0]
    /\ adjusted = {}
    /\ incident = {}

-----------------------------------------------------------------------------
(* Reading the books.                                                      *)

(* Notes whose icountDocNum is in I: a credit that reopens a note clears   *)
(* it, one that cancels the note keeps it.                                 *)
Naming(I) == {n \in Notes : On[n] \in I /\ status[n] # "open"}

Billed(I) == {n \in Notes : On[n] \in I /\ status[n] = "billed"}

SumDue(p) == MapThenSumSet(LAMBDA i : due[p][i], list[p])

Delta(p) == received[p] - SumDue(p)

(* balanceOf: the sum of the entries.                                      *)
Balance ==
    MapThenSumSet(Delta, entered)
    + MapThenSumSet(LAMBDA x : refund[x], Credits)
    + MapThenSumSet(LAMBDA a : Correction[a], adjusted)

Live(p) == pc[p] \notin {"idle", "done", "dead"}

CreditLive(x) == vpc[x] \notin {"idle", "done"}

Goto(p, step) == pc' = [pc EXCEPT ![p] = step]

-----------------------------------------------------------------------------
(* Overlaps the code does not exclude, kept in `incident'.                 *)

(* Two payments from the balance for one and the same note are told apart  *)
(* by the condition paidAt: null of the update; no other two are.          *)
ToldApart(p, q) ==
    /\ received[p] = 0 /\ received[q] = 0
    /\ list[p] = list[q]
    /\ \A m, n \in Notes : On[m] \in list[p] /\ On[n] \in list[p] => m = n

(* What p shares with payments that passed their check and are not done.   *)
Contested(p) ==
    {i \in list[p] : \E q \in Payments \ {p} :
        /\ i \in list[q]
        /\ pc[q] \notin {"idle", "check", "done", "dead"}
        /\ ~ToldApart(p, q)}

BeingCredited(I) == {i \in I : \E x \in Credits : CreditLive(x) /\ vdoc[x] = i}

BeingPaid(i) == \E p \in Payments : Live(p) /\ i \in list[p]

-----------------------------------------------------------------------------
(* createReceiptForPayment                                                 *)

(* planSettlement, planOnAccount: an invoice without billed notes is       *)
(* refused; the total is iCount's, or the estimate if iCount is down.      *)
Plan(p, I, sum) ==
    /\ pc[p] = "idle"
    /\ I # {} \/ sum > 0
    /\ \A i \in I : Billed({i}) # {}
    /\ \E D \in IF "icountDown" \in Faults THEN SUBSET I ELSE {{}} :
           due' = [due EXCEPT ![p] =
                      [i \in Invoices |-> IF i \in D THEN Estimate[i] ELSE Total[i]]]
    /\ list' = [list EXCEPT ![p] = I]
    /\ received' = [received EXCEPT ![p] = sum]
    /\ before' = [before EXCEPT ![p] = Balance]
    /\ Goto(p, "check")
    /\ incident' = incident \cup BeingCredited(I)
    /\ UNCHANGED <<noteVars, todo, claimed, receipts, entered, creditVars, adjusted>>

(* A note of the list is paid already: 409.                                *)
AlreadyPaid(p) ==
    /\ pc[p] = "check"
    /\ \E n \in Naming(list[p]) : paidAt[n] # None
    /\ Goto(p, "done")
    /\ UNCHANGED <<noteVars, list, received, due, before, todo, claimed,
                   receipts, entered, creditVars, adjusted, incident>>

Unpaid(p) ==
    /\ pc[p] = "check"
    /\ \A n \in Naming(list[p]) : paidAt[n] = None

(* No money came in and the balance does not cover the invoices: 400.      *)
NotCovered(p) ==
    /\ Unpaid(p)
    /\ received[p] = 0
    /\ before[p] < SumDue(p)
    /\ Goto(p, "done")
    /\ UNCHANGED <<noteVars, list, received, due, before, todo, claimed,
                   receipts, entered, creditVars, adjusted, incident>>

(* From the balance: the update starts, with the notes its query finds.    *)
FromBalance(p) ==
    /\ Unpaid(p)
    /\ received[p] = 0
    /\ before[p] >= SumDue(p)
    /\ todo' = [todo EXCEPT ![p] = Billed(list[p])]
    /\ incident' = incident \cup Contested(p)
    /\ Goto(p, "claim")
    /\ UNCHANGED <<noteVars, list, received, due, before, claimed,
                   receipts, entered, creditVars, adjusted>>

WithReceipt(p) ==
    /\ Unpaid(p)
    /\ received[p] > 0
    /\ incident' = incident \cup Contested(p)
    /\ Goto(p, "receipt")
    /\ UNCHANGED <<noteVars, list, received, due, before, todo, claimed,
                   receipts, entered, creditVars, adjusted>>

(* The updateMany visits a note: its condition is evaluated note by note.  *)
ClaimNote(p, n) ==
    /\ pc[p] = "claim"
    /\ n \in todo[p]
    /\ todo' = [todo EXCEPT ![p] = @ \ {n}]
    /\ IF status[n] = "billed" /\ paidAt[n] = None
       THEN /\ paidAt' = [paidAt EXCEPT ![n] = p]
            /\ fromBalance' = fromBalance \cup {n}
            /\ claimed' = [claimed EXCEPT ![p] = @ \cup {n}]
       ELSE UNCHANGED <<paidAt, fromBalance, claimed>>
    /\ UNCHANGED <<status, pc, list, received, due, before,
                   receipts, entered, creditVars, adjusted, incident>>

(* Mutant: the call goes on even if its update changed nothing.            *)
ClaimedAnyway(p) ==
    /\ pc[p] = "claim"
    /\ todo[p] = {}
    /\ Goto(p, "record")
    /\ UNCHANGED <<noteVars, list, received, due, before, todo, claimed,
                   receipts, entered, creditVars, adjusted, incident>>

(* modifiedCount decides: nothing changed means someone else was first.    *)
Claimed(p) ==
    /\ pc[p] = "claim"
    /\ todo[p] = {}
    /\ Goto(p, IF claimed[p] = {} THEN "done" ELSE "record")
    /\ UNCHANGED <<noteVars, list, received, due, before, todo, claimed,
                   receipts, entered, creditVars, adjusted, incident>>

(* The update itself fails half way: 400, and nobody takes it back.        *)
ClaimFails(p) ==
    /\ pc[p] = "claim"
    /\ "dbFails" \in Faults
    /\ todo' = [todo EXCEPT ![p] = {}]
    /\ incident' = incident \cup list[p]
    /\ Goto(p, "done")
    /\ UNCHANGED <<noteVars, list, received, due, before, claimed,
                   receipts, entered, creditVars, adjusted>>

RecordFromBalance(p) ==
    /\ pc[p] = "record"
    /\ entered' = entered \cup {p}
    /\ Goto(p, "done")
    /\ UNCHANGED <<noteVars, list, received, due, before, todo, claimed,
                   receipts, creditVars, adjusted, incident>>

(* Mutant: the failed entry leaves the marks where they are.               *)
RecordGivesUp(p) ==
    /\ pc[p] = "record"
    /\ "dbFails" \in Faults
    /\ Goto(p, "done")
    /\ UNCHANGED <<noteVars, list, received, due, before, todo, claimed,
                   receipts, entered, creditVars, adjusted, incident>>

RecordFails(p) ==
    /\ pc[p] = "record"
    /\ "dbFails" \in Faults
    /\ Goto(p, "undo")
    /\ UNCHANGED <<noteVars, list, received, due, before, todo, claimed,
                   receipts, entered, creditVars, adjusted, incident>>

(* The marks go back, by the moment this call wrote and by no other.       *)
Marked(p) == {n \in Naming(list[p]) : paidAt[n] = p /\ n \in fromBalance}

Undo(p) ==
    /\ pc[p] = "undo"
    /\ paidAt' = [n \in Notes |-> IF n \in Marked(p) THEN None ELSE paidAt[n]]
    /\ fromBalance' = fromBalance \ Marked(p)
    /\ Goto(p, "done")
    /\ UNCHANGED <<status, list, received, due, before, todo, claimed,
                   receipts, entered, creditVars, adjusted, incident>>

UndoFails(p) ==
    /\ pc[p] = "undo"
    /\ incident' = incident \cup list[p]
    /\ Goto(p, "done")
    /\ UNCHANGED <<noteVars, list, received, due, before, todo, claimed,
                   receipts, entered, creditVars, adjusted>>

(* createReceipt succeeds; a payment on account has no notes to mark.      *)
IssueReceipt(p) ==
    /\ pc[p] = "receipt"
    /\ receipts' = receipts \cup {p}
    /\ Goto(p, IF list[p] = {} THEN "enter" ELSE "mark")
    /\ UNCHANGED <<noteVars, list, received, due, before, todo, claimed,
                   entered, creditVars, adjusted, incident>>

ReceiptRejected(p) ==
    /\ pc[p] = "receipt"
    /\ "rejected" \in Faults
    /\ Goto(p, "done")
    /\ UNCHANGED <<noteVars, list, received, due, before, todo, claimed,
                   receipts, entered, creditVars, adjusted, incident>>

(* The timeout fires after iCount issued the receipt.                      *)
ReceiptLost(p) ==
    /\ pc[p] = "receipt"
    /\ "lostReply" \in Faults
    /\ receipts' = receipts \cup {p}
    /\ incident' = incident \cup list[p]
    /\ Goto(p, "done")
    /\ UNCHANGED <<noteVars, list, received, due, before, todo, claimed,
                   entered, creditVars, adjusted>>

(* The update of the marks asks for billed notes only, paid or not.        *)
MarkPaid(p) ==
    /\ pc[p] = "mark"
    /\ paidAt' = [n \in Notes |-> IF n \in Billed(list[p]) THEN p ELSE paidAt[n]]
    /\ Goto(p, "enter")
    /\ UNCHANGED <<status, fromBalance, list, received, due, before, todo, claimed,
                   receipts, entered, creditVars, adjusted, incident>>

(* It fails, having marked any part of them: logged, and the call goes on. *)
MarkFails(p) ==
    /\ pc[p] = "mark"
    /\ "dbFails" \in Faults
    /\ \E N \in SUBSET Billed(list[p]) :
           paidAt' = [n \in Notes |-> IF n \in N THEN p ELSE paidAt[n]]
    /\ incident' = incident \cup list[p]
    /\ Goto(p, "enter")
    /\ UNCHANGED <<status, fromBalance, list, received, due, before, todo, claimed,
                   receipts, entered, creditVars, adjusted>>

EnterPayment(p) ==
    /\ pc[p] = "enter"
    /\ entered' = entered \cup {p}
    /\ Goto(p, "done")
    /\ UNCHANGED <<noteVars, list, received, due, before, todo, claimed,
                   receipts, creditVars, adjusted, incident>>

(* The entry of a receipt fails: the reply says so, nothing repairs it.    *)
EnterFails(p) ==
    /\ pc[p] = "enter"
    /\ "dbFails" \in Faults
    /\ incident' = incident \cup list[p]
    /\ Goto(p, "done")
    /\ UNCHANGED <<noteVars, list, received, due, before, todo, claimed,
                   receipts, entered, creditVars, adjusted>>

Crash(p) ==
    /\ Live(p)
    /\ "crash" \in Faults
    /\ todo' = [todo EXCEPT ![p] = {}]
    /\ incident' = incident \cup
           (IF pc[p] \in {"check", "receipt"} THEN {} ELSE list[p])
    /\ Goto(p, "dead")
    /\ UNCHANGED <<noteVars, list, received, due, before, claimed,
                   receipts, entered, creditVars, adjusted>>

-----------------------------------------------------------------------------
(* creditInvoice, as far as it meets payments.                             *)

VGoto(x, step) == vpc' = [vpc EXCEPT ![x] = step]

CreditRead(x, i) ==
    /\ vpc[x] = "idle"
    /\ Billed({i}) # {}
    /\ vdoc' = [vdoc EXCEPT ![x] = i]
    /\ vnotes' = [vnotes EXCEPT ![x] = Billed({i})]
    /\ vpaid' = [vpaid EXCEPT ![x] = \E n \in Billed({i}) : paidAt[n] # None]
    /\ incident' = IF BeingPaid(i) \/ BeingCredited({i}) # {}
                   THEN incident \cup {i} ELSE incident
    /\ VGoto(x, "issue")
    /\ UNCHANGED <<noteVars, paymentVars, receipts, entered,
                   vsum, credited, refund, adjusted>>

CreditIssue(x) ==
    /\ vpc[x] = "issue"
    /\ \/ /\ credited' = credited \cup {x}
          /\ VGoto(x, "write")
          /\ UNCHANGED incident
       \/ /\ "rejected" \in Faults
          /\ VGoto(x, "done")
          /\ UNCHANGED <<credited, incident>>
       \/ /\ "lostReply" \in Faults
          /\ credited' = credited \cup {x}
          /\ incident' = incident \cup {vdoc[x]}
          /\ VGoto(x, "done")
    /\ UNCHANGED <<noteVars, paymentVars, receipts, entered,
                   vdoc, vnotes, vpaid, vsum, refund, adjusted>>

(* The notes reopen and lose their payment, or are cancelled and keep it.  *)
CreditWrite(x) ==
    /\ vpc[x] = "write"
    /\ \/ /\ status' = [n \in Notes |-> IF n \in vnotes[x] THEN "open" ELSE status[n]]
          /\ paidAt' = [n \in Notes |-> IF n \in vnotes[x] THEN None ELSE paidAt[n]]
          /\ fromBalance' = fromBalance \ vnotes[x]
       \/ /\ status' =
                 [n \in Notes |-> IF n \in vnotes[x] THEN "cancelled" ELSE status[n]]
          /\ UNCHANGED <<paidAt, fromBalance>>
    /\ VGoto(x, IF vpaid[x] THEN "find" ELSE "done")
    /\ UNCHANGED <<paymentVars, receipts, entered, vdoc, vnotes, vpaid, vsum,
                   credited, refund, adjusted, incident>>

CreditWriteFails(x) ==
    /\ vpc[x] = "write"
    /\ "dbFails" \in Faults
    /\ incident' = incident \cup {vdoc[x]}
    /\ VGoto(x, "done")
    /\ UNCHANGED <<noteVars, paymentVars, receipts, entered, vdoc, vnotes, vpaid,
                   vsum, credited, refund, adjusted>>

Settlements(i) == {p \in entered : i \in list[p]}

(* Mutant: what was received goes back, instead of what was settled.       *)
RefundReceived(x) ==
    /\ vpc[x] = "find"
    /\ \E sum \in IF Settlements(vdoc[x]) = {}
                  THEN {Estimate[vdoc[x]]}
                  ELSE {received[p] : p \in Settlements(vdoc[x])} :
           vsum' = [vsum EXCEPT ![x] = sum]
    /\ VGoto(x, "refund")
    /\ UNCHANGED <<noteVars, paymentVars, receipts, entered, vdoc, vnotes, vpaid,
                   credited, refund, adjusted, incident>>

(* refundCancelledInvoice: the total of the entry that settled the invoice *)
(* (the latest; any of them here), or the estimate if there is none.       *)
RefundFind(x) ==
    /\ vpc[x] = "find"
    /\ \E sum \in IF Settlements(vdoc[x]) = {}
                  THEN {Estimate[vdoc[x]]}
                  ELSE {due[p][vdoc[x]] : p \in Settlements(vdoc[x])} :
           vsum' = [vsum EXCEPT ![x] = sum]
    /\ VGoto(x, "refund")
    /\ UNCHANGED <<noteVars, paymentVars, receipts, entered, vdoc, vnotes, vpaid,
                   credited, refund, adjusted, incident>>

RefundRecord(x) ==
    /\ vpc[x] = "refund"
    /\ refund' = [refund EXCEPT ![x] = vsum[x]]
    /\ VGoto(x, "done")
    /\ UNCHANGED <<noteVars, paymentVars, receipts, entered, vdoc, vnotes, vpaid,
                   vsum, credited, adjusted, incident>>

RefundFails(x) ==
    /\ vpc[x] \in {"find", "refund"}
    /\ "dbFails" \in Faults
    /\ incident' = incident \cup {vdoc[x]}
    /\ VGoto(x, "done")
    /\ UNCHANGED <<noteVars, paymentVars, receipts, entered, vdoc, vnotes, vpaid,
                   vsum, credited, refund, adjusted>>

CreditCrash(x) ==
    /\ CreditLive(x)
    /\ "crash" \in Faults
    /\ incident' = IF vpc[x] = "issue" THEN incident ELSE incident \cup {vdoc[x]}
    /\ VGoto(x, "done")
    /\ UNCHANGED <<noteVars, paymentVars, receipts, entered, vdoc, vnotes, vpaid,
                   vsum, credited, refund, adjusted>>

(* adjust: a manual entry, with a reason and a sum that is not zero.       *)
Adjust(a) ==
    /\ a \notin adjusted
    /\ adjusted' = adjusted \cup {a}
    /\ UNCHANGED <<noteVars, paymentVars, receipts, entered, creditVars, incident>>

-----------------------------------------------------------------------------
PaymentStep(p) ==
    \/ \E I \in SUBSET Invoices, sum \in Sums : Plan(p, I, sum)
    \/ AlreadyPaid(p) \/ NotCovered(p) \/ FromBalance(p) \/ WithReceipt(p)
    \/ \E n \in Notes : ClaimNote(p, n)
    \/ Claimed(p) \/ ClaimFails(p)
    \/ RecordFromBalance(p) \/ RecordFails(p) \/ Undo(p) \/ UndoFails(p)
    \/ IssueReceipt(p) \/ ReceiptRejected(p) \/ ReceiptLost(p)
    \/ MarkPaid(p) \/ MarkFails(p) \/ EnterPayment(p) \/ EnterFails(p)
    \/ Crash(p)

CreditStep(x) ==
    \/ \E i \in Invoices : CreditRead(x, i)
    \/ CreditIssue(x) \/ CreditWrite(x) \/ CreditWriteFails(x)
    \/ RefundFind(x) \/ RefundRecord(x) \/ RefundFails(x) \/ CreditCrash(x)

Next ==
    \/ \E p \in Payments : PaymentStep(p)
    \/ \E x \in Credits : CreditStep(x)
    \/ \E a \in Adjusts : Adjust(a)

Spec == Init /\ [][Next]_vars

-----------------------------------------------------------------------------
Sound == Invoices \ incident

(* A credit that reached iCount takes the invoice away from the customer.  *)
Cancelled(i) == \E x \in credited : vdoc[x] = i

Quiet(i) ==
    /\ ~BeingPaid(i)
    /\ \A x \in Credits : vdoc[x] = i => ~CreditLive(x)

(* No invoice is settled by two payments (billingController.js:959), by    *)
(* whichever of the two ways, unless two requests of it overlapped where   *)
(* the code does not tell them apart, or one was cut off.                  *)
SettledOnce == \A i \in Sound : Cardinality(Settlements(i)) <= 1

(* When no request of it is running, an invoice that stands shows as paid  *)
(* on all of its notes exactly if the balance was charged for it: a mark   *)
(* without an entry gives the invoice away (billingController.js:1028),    *)
(* an entry without a mark charges it again.                               *)
PaidIffSettled ==
    \A i \in Sound : Quiet(i) /\ ~Cancelled(i) =>
        \A n \in Notes : On[n] = i =>
            ((paidAt[n] # None) <=> (Settlements(i) # {}))

(* A credited invoice gives back what its payment took off the balance,    *)
(* once, and nothing if it was never paid (customerBalance.js:175).        *)
RefundMatches ==
    \A i \in Sound : Quiet(i) /\ Cancelled(i) =>
        \A x \in credited : vdoc[x] = i =>
            refund[x] = MapThenSumSet(LAMBDA p : due[p][i], Settlements(i))
=============================================================================
