---------------------------- MODULE PaymentsProofs ----------------------------
(***************************************************************************)
(* Proofs about Payments, for every set of notes, invoices, payments and   *)
(* credits, every sum and every combination of failures.                   *)
(***************************************************************************)
EXTENDS Payments, FiniteSetTheorems, TLAPS

(* The ranges of the variables the invariant speaks of; those of the other *)
(* three follow from it (TypeCorrect).                                     *)
Typed ==
    /\ status \in [Notes -> {"billed", "open", "cancelled"}]
    /\ paidAt \in [Notes -> Payments \cup {None}]
    /\ fromBalance \in SUBSET Notes
    /\ pc \in [Payments -> PaymentSteps]
    /\ list \in [Payments -> SUBSET Invoices]
    /\ received \in [Payments -> Nat]
    /\ due \in [Payments -> [Invoices -> Nat \ {0}]]
    /\ todo \in [Payments -> SUBSET Notes]
    /\ claimed \in [Payments -> SUBSET Notes]
    /\ entered \in SUBSET Payments
    /\ vpc \in [Credits -> CreditSteps]
    /\ vdoc \in [Credits -> Invoices \cup {None}]
    /\ vnotes \in [Credits -> SUBSET Notes]
    /\ vpaid \in [Credits -> BOOLEAN]
    /\ vsum \in [Credits -> Nat]
    /\ credited \in SUBSET Credits
    /\ refund \in [Credits -> Nat]
    /\ incident \in SUBSET Invoices

(* Where a payment keeps what it has, and which of the two ways it goes.   *)
Steps ==
    \A p \in Payments :
        /\ p \in entered => pc[p] = "done"
        /\ pc[p] = "idle" => list[p] = {}
        /\ pc[p] \in {"idle", "check"} => claimed[p] = {}
        /\ pc[p] \in {"claim", "record", "undo"} => received[p] = 0
        /\ pc[p] \in {"receipt", "mark", "enter"} => received[p] > 0
        /\ \A n \in todo[p] \cup claimed[p] : On[n] \in list[p]
        /\ pc[p] = "record" => claimed[p] # {}

(* The same of a credit.                                                   *)
Crediting ==
    \A x \in Credits :
        /\ x \in credited => vpc[x] \in {"write", "find", "refund", "done"}
        /\ vpc[x] \in {"write", "find", "refund"} => x \in credited
        /\ vpc[x] # "done" => refund[x] = 0
        /\ CreditLive(x) => vdoc[x] \in Invoices
        /\ \A n \in vnotes[x] : On[n] = vdoc[x]

-----------------------------------------------------------------------------
(* What a step of one payment, or of one credit, leaves to the others.     *)

(* A step of a payment: its own entries, the marks, nothing of a credit.   *)
LEMMA PaymentFrame ==
    ASSUME Typed, NEW p \in Payments, PaymentStep(p)
    PROVE  /\ UNCHANGED <<status, creditVars>>
           /\ incident \subseteq incident' /\ entered' \subseteq Payments
           /\ \A q \in Payments \ {p} :
                 /\ pc'[q] = pc[q] /\ list'[q] = list[q] /\ received'[q] = received[q]
                 /\ due'[q] = due[q] /\ todo'[q] = todo[q] /\ claimed'[q] = claimed[q]
                 /\ q \in entered' <=> q \in entered
<1> USE DEF Typed, noteVars, Goto
<1>1. CASE \E I \in SUBSET Invoices, sum \in Sums : Plan(p, I, sum)
    BY <1>1 DEF Plan
<1>2. CASE AlreadyPaid(p) \/ NotCovered(p) \/ FromBalance(p) \/ WithReceipt(p)
    BY <1>2 DEF AlreadyPaid, NotCovered, FromBalance, WithReceipt
<1>3. CASE \E n \in Notes : ClaimNote(p, n)
    BY <1>3 DEF ClaimNote
<1>4. CASE Claimed(p) \/ ClaimFails(p) \/ RecordFromBalance(p) \/ RecordFails(p)
    BY <1>4 DEF Claimed, ClaimFails, RecordFromBalance, RecordFails
<1>5. CASE Undo(p) \/ UndoFails(p) \/ IssueReceipt(p) \/ ReceiptRejected(p)
    BY <1>5 DEF Undo, UndoFails, IssueReceipt, ReceiptRejected
<1>6. CASE ReceiptLost(p) \/ MarkPaid(p) \/ MarkFails(p)
    BY <1>6 DEF ReceiptLost, MarkPaid, MarkFails
<1>7. CASE EnterPayment(p) \/ EnterFails(p) \/ Crash(p)
    BY <1>7 DEF EnterPayment, EnterFails, Crash
<1> QED
    BY <1>1, <1>2, <1>3, <1>4, <1>5, <1>6, <1>7 DEF PaymentStep

(* A step of a credit: its own entries and the notes, nothing of a payment.*)
LEMMA CreditFrame ==
    ASSUME Typed, NEW x \in Credits, CreditStep(x)
    PROVE  /\ UNCHANGED <<paymentVars, entered>>
           /\ incident \subseteq incident' /\ credited' \subseteq Credits
           /\ \A y \in Credits \ {x} :
                 /\ vpc'[y] = vpc[y] /\ vdoc'[y] = vdoc[y] /\ vnotes'[y] = vnotes[y]
                 /\ vpaid'[y] = vpaid[y] /\ vsum'[y] = vsum[y]
                 /\ refund'[y] = refund[y]
                 /\ y \in credited' <=> y \in credited
<1> USE DEF Typed, VGoto
<1>1. CASE \E i \in Invoices : CreditRead(x, i)
    BY <1>1 DEF CreditRead
<1>2. CASE CreditIssue(x)
    BY <1>2 DEF CreditIssue
<1>3. CASE CreditWrite(x) \/ CreditWriteFails(x)
    BY <1>3 DEF CreditWrite, CreditWriteFails
<1>4. CASE RefundFind(x) \/ RefundRecord(x) \/ RefundFails(x) \/ CreditCrash(x)
    BY <1>4 DEF RefundFind, RefundRecord, RefundFails, CreditCrash
<1> QED
    BY <1>1, <1>2, <1>3, <1>4 DEF CreditStep

-----------------------------------------------------------------------------
(* The ranges.                                                             *)

LEMMA TypedKept == Typed /\ Crediting /\ [Next]_vars => Typed'
<1> SUFFICES ASSUME Typed, Crediting, [Next]_vars PROVE Typed'
    OBVIOUS
<1> USE DEF Typed, PaymentSteps, CreditSteps, noteVars, paymentVars, creditVars, Goto
<1>1. ASSUME NEW p \in Payments, PaymentStep(p) PROVE Typed'
  <2>1. ASSUME NEW I \in SUBSET Invoices, NEW sum \in Sums, Plan(p, I, sum)
        PROVE  Typed'
    <3>1. PICK D \in SUBSET Invoices :
              due' = [due EXCEPT ![p] =
                         [j \in Invoices |-> IF j \in D THEN Estimate[j] ELSE Total[j]]]
      BY <2>1 DEF Plan
    <3>2. [j \in Invoices |-> IF j \in D THEN Estimate[j] ELSE Total[j]]
              \in [Invoices -> Nat \ {0}]
      BY InvoicesAssumption
    <3>3. due' \in [Payments -> [Invoices -> Nat \ {0}]]
      BY <3>1, <3>2
    <3>4. received' \in [Payments -> Nat]
      <4>1. sum \in Nat
        BY CallsAssumption
      <4> QED
        BY <2>1, <4>1 DEF Plan
    <3>5. incident' \in SUBSET Invoices
      BY <2>1 DEF Plan, BeingCredited
    <3>6. list' \in [Payments -> SUBSET Invoices] /\ pc' \in [Payments -> PaymentSteps]
      BY <2>1 DEF Plan
    <3> QED
      BY <2>1, <3>3, <3>4, <3>5, <3>6 DEF Plan
  <2>2. CASE AlreadyPaid(p) \/ NotCovered(p)
    BY <2>2 DEF AlreadyPaid, NotCovered
  <2>3. CASE FromBalance(p) \/ WithReceipt(p)
    <3>1. incident' \in SUBSET Invoices
      <4>1. Contested(p) \subseteq Invoices
        BY DEF Contested
      <4> QED
        BY <2>3, <4>1 DEF FromBalance, WithReceipt
    <3>2. todo' \in [Payments -> SUBSET Notes]
      <4>1. Billed(list[p]) \subseteq Notes
        BY DEF Billed
      <4> QED
        BY <2>3, <4>1 DEF FromBalance, WithReceipt
    <3>3. pc' \in [Payments -> PaymentSteps]
      BY <2>3 DEF FromBalance, WithReceipt
    <3> QED
      BY <2>3, <3>1, <3>2, <3>3 DEF FromBalance, WithReceipt
  <2>4. ASSUME NEW n \in Notes, ClaimNote(p, n) PROVE Typed'
    <3>1. todo' \in [Payments -> SUBSET Notes]
      BY <2>4 DEF ClaimNote
    <3>2. /\ paidAt' \in [Notes -> Payments \cup {None}]
          /\ fromBalance' \in SUBSET Notes
          /\ claimed' \in [Payments -> SUBSET Notes]
      <4>1. CASE status[n] = "billed" /\ paidAt[n] = None
        <5>1. paidAt' = [paidAt EXCEPT ![n] = p]
              /\ fromBalance' = fromBalance \cup {n}
              /\ claimed' = [claimed EXCEPT ![p] = @ \cup {n}]
          BY <2>4, <4>1 DEF ClaimNote
        <5>2. paidAt' \in [Notes -> Payments \cup {None}]
          BY <5>1
        <5>3. claimed' \in [Payments -> SUBSET Notes]
          BY <5>1
        <5> QED
          BY <5>1, <5>2, <5>3
      <4>2. CASE ~(status[n] = "billed" /\ paidAt[n] = None)
        BY <2>4, <4>2 DEF ClaimNote
      <4> QED
        BY <4>1, <4>2
    <3>3. UNCHANGED <<status, pc, list, received, due, entered, creditVars, incident>>
      BY <2>4 DEF ClaimNote
    <3> QED
      BY <3>1, <3>2, <3>3
  <2>5. CASE Claimed(p) \/ ClaimFails(p) \/ RecordFromBalance(p) \/ RecordFails(p)
    BY <2>5 DEF Claimed, ClaimFails, RecordFromBalance, RecordFails
  <2>6. CASE Undo(p) \/ UndoFails(p)
    BY <2>6 DEF Undo, UndoFails
  <2>7. CASE IssueReceipt(p) \/ ReceiptRejected(p) \/ ReceiptLost(p)
    BY <2>7 DEF IssueReceipt, ReceiptRejected, ReceiptLost
  <2>8. CASE MarkPaid(p)
    BY <2>8 DEF MarkPaid
  <2>9. CASE MarkFails(p)
    BY <2>9 DEF MarkFails
  <2>10. CASE EnterPayment(p) \/ EnterFails(p) \/ Crash(p)
    BY <2>10 DEF EnterPayment, EnterFails, Crash
  <2> QED
    BY <1>1, <2>1, <2>2, <2>3, <2>4, <2>5, <2>6, <2>7, <2>8, <2>9, <2>10
       DEF PaymentStep
<1>2. ASSUME NEW x \in Credits, CreditStep(x) PROVE Typed'
  <2> USE DEF VGoto
  <2>1. ASSUME NEW i \in Invoices, CreditRead(x, i) PROVE Typed'
    <3>1. Billed({i}) \subseteq Notes
      BY DEF Billed
    <3> QED
      BY <2>1, <3>1 DEF CreditRead
  <2>2. CreditLive(x) => vdoc[x] \in Invoices
    BY DEF Crediting
  <2>3. CASE CreditIssue(x)
    BY <2>2, <2>3 DEF CreditIssue, CreditLive
  <2>4. CASE CreditWrite(x)
    BY <2>4 DEF CreditWrite
  <2>5. CASE CreditWriteFails(x) \/ RefundFails(x) \/ CreditCrash(x)
    BY <2>2, <2>5 DEF CreditWriteFails, RefundFails, CreditCrash, CreditLive
  <2>6. CASE RefundFind(x)
    <3>1. vdoc[x] \in Invoices
      BY <2>2, <2>6 DEF RefundFind, CreditLive
    <3>2. \A p \in Settlements(vdoc[x]) : due[p][vdoc[x]] \in Nat
      BY <3>1 DEF Settlements
    <3>3. Estimate[vdoc[x]] \in Nat
      BY <3>1, InvoicesAssumption
    <3>4. vsum' \in [Credits -> Nat]
      BY <2>6, <3>2, <3>3 DEF RefundFind
    <3> QED
      BY <2>6, <3>4 DEF RefundFind
  <2>7. CASE RefundRecord(x)
    BY <2>7 DEF RefundRecord
  <2> QED
    BY <1>2, <2>1, <2>3, <2>4, <2>5, <2>6, <2>7 DEF CreditStep
<1>3. ASSUME NEW a \in Adjusts, Adjust(a) PROVE Typed'
    BY <1>3 DEF Adjust
<1>4. CASE UNCHANGED vars
    BY <1>4 DEF vars
<1> QED
    BY <1>1, <1>2, <1>3, <1>4 DEF Next

LEMMA StepsKept == Typed /\ Steps /\ [Next]_vars => Steps'
<1> SUFFICES ASSUME Typed, Steps, [Next]_vars PROVE Steps'
    OBVIOUS
<1>1. ASSUME NEW p \in Payments, PaymentStep(p) PROVE Steps'
  <2> SUFFICES /\ p \in entered' => pc'[p] = "done"
               /\ pc'[p] = "idle" => list'[p] = {}
               /\ pc'[p] \in {"idle", "check"} => claimed'[p] = {}
               /\ pc'[p] \in {"claim", "record", "undo"} => received'[p] = 0
               /\ pc'[p] \in {"receipt", "mark", "enter"} => received'[p] > 0
               /\ \A n \in todo'[p] \cup claimed'[p] : On[n] \in list'[p]
               /\ pc'[p] = "record" => claimed'[p] # {}
    BY <1>1, PaymentFrame DEF Steps
  <2>0. /\ p \in entered => pc[p] = "done"
        /\ pc[p] = "idle" => list[p] = {}
        /\ pc[p] \in {"idle", "check"} => claimed[p] = {}
        /\ pc[p] \in {"claim", "record", "undo"} => received[p] = 0
        /\ pc[p] \in {"receipt", "mark", "enter"} => received[p] > 0
        /\ \A n \in todo[p] \cup claimed[p] : On[n] \in list[p]
        /\ pc[p] = "record" => claimed[p] # {}
    BY DEF Steps
  <2> USE DEF Typed, PaymentSteps, Goto
  <2>1. ASSUME NEW I \in SUBSET Invoices, NEW sum \in Sums, Plan(p, I, sum)
        PROVE  /\ pc[p] = "idle" /\ pc'[p] = "check" /\ claimed'[p] = claimed[p]
               /\ todo'[p] = todo[p] /\ entered' = entered
    BY <2>1 DEF Plan
  <2>2. CASE \E I \in SUBSET Invoices, sum \in Sums : Plan(p, I, sum)
    <3>1. todo[p] \cup claimed[p] = {}
      BY <2>0, <2>1, <2>2
    <3> QED
      BY <2>0, <2>1, <2>2, <3>1
  <2>3. CASE AlreadyPaid(p) \/ NotCovered(p)
    BY <2>0, <2>3 DEF AlreadyPaid, NotCovered
  <2>4. CASE FromBalance(p) \/ WithReceipt(p)
    <3>1. \A n \in Billed(list[p]) : On[n] \in list[p]
      BY DEF Billed
    <3>2. pc[p] = "check"
      BY <2>4 DEF FromBalance, WithReceipt, Unpaid
    <3> QED
      BY <2>0, <2>4, <3>1, <3>2 DEF FromBalance, WithReceipt
  <2>5. CASE \E n \in Notes : ClaimNote(p, n)
    BY <2>0, <2>5 DEF ClaimNote
  <2>6. CASE Claimed(p) \/ ClaimFails(p) \/ RecordFromBalance(p) \/ RecordFails(p)
    BY <2>0, <2>6 DEF Claimed, ClaimFails, RecordFromBalance, RecordFails
  <2>7. CASE Undo(p) \/ UndoFails(p) \/ IssueReceipt(p) \/ ReceiptRejected(p)
    BY <2>0, <2>7 DEF Undo, UndoFails, IssueReceipt, ReceiptRejected
  <2>8. CASE ReceiptLost(p) \/ MarkPaid(p) \/ MarkFails(p)
    BY <2>0, <2>8 DEF ReceiptLost, MarkPaid, MarkFails
  <2>9. CASE EnterPayment(p) \/ EnterFails(p) \/ Crash(p)
    BY <2>0, <2>9 DEF EnterPayment, EnterFails, Crash, Live
  <2> QED
    BY <1>1, <2>2, <2>3, <2>4, <2>5, <2>6, <2>7, <2>8, <2>9 DEF PaymentStep
<1>2. CASE \E x \in Credits : CreditStep(x)
    BY <1>2, CreditFrame DEF Steps, paymentVars
<1>3. CASE (\E a \in Adjusts : Adjust(a)) \/ UNCHANGED vars
    BY <1>3 DEF Adjust, vars, Steps, paymentVars
<1> QED
    BY <1>1, <1>2, <1>3 DEF Next

LEMMA CreditingKept == Typed /\ Crediting /\ [Next]_vars => Crediting'
<1> SUFFICES ASSUME Typed, Crediting, [Next]_vars PROVE Crediting'
    OBVIOUS
<1>1. ASSUME NEW x \in Credits, CreditStep(x) PROVE Crediting'
  <2> SUFFICES /\ x \in credited' => vpc'[x] \in {"write", "find", "refund", "done"}
               /\ vpc'[x] \in {"write", "find", "refund"} => x \in credited'
               /\ vpc'[x] # "done" => refund'[x] = 0
               /\ CreditLive(x)' => vdoc'[x] \in Invoices
               /\ \A n \in vnotes'[x] : On[n] = vdoc'[x]
    BY <1>1, CreditFrame DEF Crediting, CreditLive
  <2>0. /\ x \in credited => vpc[x] \in {"write", "find", "refund", "done"}
        /\ vpc[x] \in {"write", "find", "refund"} => x \in credited
        /\ vpc[x] # "done" => refund[x] = 0
        /\ CreditLive(x) => vdoc[x] \in Invoices
        /\ \A n \in vnotes[x] : On[n] = vdoc[x]
    BY DEF Crediting
  <2> USE DEF Typed, CreditSteps, VGoto, CreditLive
  <2>1. CASE \E i \in Invoices : CreditRead(x, i)
    BY <2>0, <2>1 DEF CreditRead, Billed
  <2>2. CASE CreditIssue(x)
    BY <2>0, <2>2 DEF CreditIssue
  <2>3. CASE CreditWrite(x) \/ CreditWriteFails(x)
    BY <2>0, <2>3 DEF CreditWrite, CreditWriteFails
  <2>4. CASE RefundFind(x) \/ RefundRecord(x)
    BY <2>0, <2>4 DEF RefundFind, RefundRecord
  <2>5. CASE RefundFails(x) \/ CreditCrash(x)
    BY <2>0, <2>5 DEF RefundFails, CreditCrash
  <2> QED
    BY <1>1, <2>1, <2>2, <2>3, <2>4, <2>5 DEF CreditStep
<1>2. CASE \E p \in Payments : PaymentStep(p)
    BY <1>2, PaymentFrame DEF Crediting, creditVars, CreditLive
<1>3. CASE (\E a \in Adjusts : Adjust(a)) \/ UNCHANGED vars
    BY <1>3 DEF Adjust, vars, Crediting, creditVars, CreditLive
<1> QED
    BY <1>1, <1>2, <1>3 DEF Next

-----------------------------------------------------------------------------
(* One invoice.                                                            *)

Own(i) == {n \in Notes : On[n] = i}

PastCheck == {"claim", "record", "undo", "receipt", "mark", "enter"}

Gone(i) == \E n \in Own(i) : status[n] # "billed"

(* p is paid from the balance, for one note.                               *)
Sole(p) ==
    /\ received[p] = 0
    /\ \A m, n \in Notes : On[m] \in list[p] /\ On[n] \in list[p] => m = n

(* What is at work on it: one credit and no payment, or payments of which  *)
(* those past their check are told apart.                                  *)
Apart(i) ==
    /\ \A x \in Credits : CreditLive(x) /\ vdoc[x] = i => ~BeingPaid(i)
    /\ \A x, y \in Credits :
           CreditLive(x) /\ CreditLive(y) /\ vdoc[x] = i /\ vdoc[y] = i => x = y
    /\ \A p, q \in Payments :
           /\ p # q /\ i \in list[p] /\ i \in list[q]
           /\ pc[p] \in PastCheck /\ pc[q] \in PastCheck
           => ToldApart(p, q)

(* It stands, with all of its notes, or a credit took it away with all of  *)
(* them; no payment of it is running then, and none can start.             *)
Standing(i) ==
    /\ Gone(i) => Billed({i}) = {} /\ Cancelled(i)
    /\ \A p \in Payments : Live(p) /\ i \in list[p] => ~Gone(i) /\ Own(i) # {}
    /\ \A x \in credited : vdoc[x] = i /\ vpc[x] # "write" => Billed({i}) = {}
    /\ \A x \in Credits :
           vpc[x] \in {"issue", "write"} /\ vdoc[x] = i =>
               vnotes[x] = Own(i) /\ Own(i) # {}

(* While it stands, each of its notes carries the mark of the payment that *)
(* charges it and of no other.                                             *)
Charges(p) == p \in entered \/ pc[p] \in {"record", "undo", "enter"}

MarkOf(i, n, p) ==
    /\ i \in list[p] /\ Charges(p) =>
           paidAt[n] = p /\ (pc[p] \in {"record", "undo"} => n \in fromBalance)
    /\ paidAt[n] = p =>
           i \in list[p] /\ (Charges(p) \/ (pc[p] = "claim" /\ n \in claimed[p]))
    /\ i \in list[p] /\ pc[p] \in {"receipt", "mark"} => paidAt[n] = None
    /\ i \in list[p] /\ pc[p] = "claim" =>
           n \in claimed[p] \/ (n \in todo[p] /\ paidAt[n] = None) \/ Sole(p)
    /\ pc[p] = "claim" /\ n \in claimed[p] => paidAt[n] = p /\ n \in fromBalance

Marking(i) == ~Gone(i) => \A n \in Own(i), p \in Payments : MarkOf(i, n, p)

Once(i) == \A p, q \in Settlements(i) : p = q

(* What a credit of it gives back, at each of its steps.                   *)
Refunding(i) == \A x \in Credits : vdoc[x] = i =>
    /\ vpc[x] \in {"issue", "write"} => (vpaid[x] <=> Settlements(i) # {})
    /\ vpc[x] = "find" => Settlements(i) # {}
    /\ vpc[x] = "refund" => \E p \in Settlements(i) : vsum[x] = due[p][i]
    /\ vpc[x] = "done" /\ x \in credited =>
           \/ refund[x] = 0 /\ Settlements(i) = {}
           \/ \E p \in Settlements(i) : refund[x] = due[p][i]

Settled(i) == Apart(i) /\ Standing(i) /\ Marking(i) /\ Once(i) /\ Refunding(i)

-----------------------------------------------------------------------------
(* A payment moves: it plans, or it goes on with what it planned.          *)

LEMMA PaymentMoves ==
    ASSUME Typed, Steps, NEW p \in Payments, PaymentStep(p)
    PROVE  /\ \/ pc[p] = "idle" /\ pc'[p] = "check" /\ entered' = entered
              \/ /\ list' = list /\ received' = received /\ due' = due
                 /\ pc[p] # "idle" /\ pc'[p] \notin {"idle", "check"}
                 /\ Live(p)
           /\ pc'[p] \in PastCheck =>
                 pc[p] \in PastCheck \/ (pc[p] = "check" /\ Contested(p) \subseteq incident')
           /\ p \in entered' => p \in entered \/ pc[p] \in {"record", "enter"}
<1> USE DEF Typed, PaymentSteps, Goto, PastCheck, Live
<1>1. CASE \E I \in SUBSET Invoices, sum \in Sums : Plan(p, I, sum)
    BY <1>1 DEF Plan
<1>2. CASE AlreadyPaid(p) \/ NotCovered(p) \/ FromBalance(p) \/ WithReceipt(p)
    BY <1>2 DEF AlreadyPaid, NotCovered, FromBalance, WithReceipt, Unpaid
<1>3. CASE \E n \in Notes : ClaimNote(p, n)
    BY <1>3 DEF ClaimNote
<1>4. CASE Claimed(p) \/ ClaimFails(p) \/ RecordFromBalance(p) \/ RecordFails(p)
    BY <1>4 DEF Claimed, ClaimFails, RecordFromBalance, RecordFails
<1>5. CASE Undo(p) \/ UndoFails(p) \/ IssueReceipt(p) \/ ReceiptRejected(p)
    BY <1>5 DEF Undo, UndoFails, IssueReceipt, ReceiptRejected
<1>6. CASE ReceiptLost(p) \/ MarkPaid(p) \/ MarkFails(p)
    BY <1>6 DEF ReceiptLost, MarkPaid, MarkFails
<1>7. CASE EnterPayment(p) \/ EnterFails(p) \/ Crash(p)
    BY <1>7 DEF EnterPayment, EnterFails, Crash
<1> QED
    BY <1>1, <1>2, <1>3, <1>4, <1>5, <1>6, <1>7 DEF PaymentStep

(* A plan for an invoice finds billed notes, and is kept as an incident if *)
(* a credit of the invoice is running.                                     *)
LEMMA PlanFinds ==
    ASSUME Typed, NEW p \in Payments, PaymentStep(p), pc[p] = "idle"
    PROVE  \A i \in list'[p] :
               Billed({i}) # {} /\ (BeingCredited({i}) # {} => i \in incident')
<1>1. PICK I \in SUBSET Invoices, sum \in Sums : Plan(p, I, sum)
    BY DEF PaymentStep, AlreadyPaid, NotCovered, FromBalance, WithReceipt, Unpaid,
           ClaimNote, Claimed, ClaimFails, RecordFromBalance, RecordFails, Undo,
           UndoFails, IssueReceipt, ReceiptRejected, ReceiptLost, MarkPaid,
           MarkFails, EnterPayment, EnterFails, Crash, Live
<1>2. list'[p] = I
    BY <1>1 DEF Plan, Typed
<1> QED
    BY <1>1, <1>2 DEF Plan, BeingCredited

(* An invoice that was hit stays hit.                                      *)
LEMMA SoundShrinks ==
    ASSUME Typed, [Next]_vars PROVE Sound' \subseteq Sound
<1>1. incident \subseteq incident'
    BY PaymentFrame, CreditFrame DEF Next, Adjust, vars
<1> QED
    BY <1>1 DEF Sound

-----------------------------------------------------------------------------
(* Apart.                                                                  *)

(* Whoever comes in between is an incident: a plan for an invoice that is  *)
(* being credited, a check passed beside a payment not told apart.         *)
LEMMA PaymentsApart ==
    ASSUME Typed, Steps, NEW p \in Payments, PaymentStep(p),
           NEW i \in Sound', Apart(i)
    PROVE  Apart(i)'
<1>1. UNCHANGED creditVars /\ i \in Invoices
    BY PaymentFrame DEF Sound
<1>2. ASSUME NEW x \in Credits, CreditLive(x)', vdoc'[x] = i PROVE ~BeingPaid(i)'
  <2>1. CreditLive(x) /\ vdoc[x] = i
    BY <1>1, <1>2 DEF CreditLive, creditVars
  <2>2. ~BeingPaid(i)
    BY <2>1 DEF Apart
  <2>3. CASE pc[p] = "idle"
    <3>1. i \notin list'[p]
      BY <2>1, <2>3, PlanFinds DEF BeingCredited, Sound
    <3> QED
      BY <2>2, <3>1, PaymentFrame DEF BeingPaid, Live
  <2>4. CASE pc[p] # "idle"
    BY <2>2, <2>4, PaymentFrame, PaymentMoves DEF BeingPaid, Live
  <2> QED
    BY <2>3, <2>4
<1>3. \A x, y \in Credits :
          CreditLive(x)' /\ CreditLive(y)' /\ vdoc'[x] = i /\ vdoc'[y] = i => x = y
    BY <1>1 DEF Apart, CreditLive, creditVars
<1>4. ASSUME NEW q \in Payments \ {p}, i \in list'[p], i \in list'[q],
             pc'[p] \in PastCheck, pc'[q] \in PastCheck
      PROVE  ToldApart(p, q)' /\ ToldApart(q, p)'
  <2>1. list' = list /\ received' = received /\ pc[p] # "idle"
    BY <1>4, PaymentMoves DEF PastCheck
  <2>2. pc[q] \in PastCheck
    BY <1>4, PaymentFrame
  <2>3. CASE pc[p] \in PastCheck
    BY <1>4, <2>1, <2>2, <2>3 DEF Apart, ToldApart
  <2>4. CASE pc[p] = "check" /\ Contested(p) \subseteq incident'
    BY <1>4, <2>1, <2>2, <2>4 DEF Contested, PastCheck, ToldApart, Sound
  <2> QED
    BY <1>4, <2>3, <2>4, PaymentMoves
<1>5. \A q, r \in Payments \ {p} :
          /\ q # r /\ i \in list'[q] /\ i \in list'[r]
          /\ pc'[q] \in PastCheck /\ pc'[r] \in PastCheck
          => ToldApart(q, r)'
    BY PaymentFrame DEF Apart, ToldApart
<1> QED
    BY <1>2, <1>3, <1>4, <1>5 DEF Apart

(* Likewise a credit that reads an invoice at work.                        *)
LEMMA CreditsApart ==
    ASSUME Typed, NEW x \in Credits, CreditStep(x), NEW i \in Sound', Apart(i)
    PROVE  Apart(i)'
<1>1. UNCHANGED paymentVars
    BY CreditFrame
<1>2. (BeingPaid(i)' <=> BeingPaid(i))
      /\ \A p, q \in Payments : ToldApart(p, q)' <=> ToldApart(p, q)
    BY <1>1 DEF BeingPaid, Live, ToldApart, paymentVars
<1>3. CASE \E j \in Invoices : CreditRead(x, j)
  <2>1. PICK j \in Invoices : CreditRead(x, j)
    BY <1>3
  <2>2. vdoc' = [vdoc EXCEPT ![x] = j] /\ vpc' = [vpc EXCEPT ![x] = "issue"]
    BY <2>1 DEF CreditRead, VGoto
  <2>3. j = i => ~BeingPaid(i) /\ BeingCredited({i}) = {}
    BY <2>1 DEF CreditRead, Sound
  <2> QED
    BY <1>1, <1>2, <2>2, <2>3 DEF Apart, BeingCredited, CreditLive, Typed, paymentVars
<1>4. CASE ~\E j \in Invoices : CreditRead(x, j)
  <2>1. vdoc' = vdoc /\ (CreditLive(x)' => CreditLive(x))
    BY <1>4 DEF CreditStep, CreditIssue, CreditWrite, CreditWriteFails, RefundFind,
                RefundRecord, RefundFails, CreditCrash, CreditLive, VGoto, Typed
  <2>2. \A y \in Credits : CreditLive(y)' => CreditLive(y)
    BY <2>1, CreditFrame DEF CreditLive
  <2> QED
    BY <1>1, <1>2, <2>1, <2>2 DEF Apart, paymentVars
<1> QED
    BY <1>3, <1>4

-----------------------------------------------------------------------------
(* Standing.                                                               *)

(* A payment plans for invoices that stand.                                *)
LEMMA PaymentsStanding ==
    ASSUME Typed, Steps, NEW p \in Payments, PaymentStep(p),
           NEW i \in Sound', Standing(i)
    PROVE  Standing(i)'
<1>1. UNCHANGED <<status, creditVars>>
    BY PaymentFrame
<1>2. (Gone(i)' <=> Gone(i)) /\ Billed({i})' = Billed({i}) /\ (Cancelled(i)' <=> Cancelled(i))
    BY <1>1 DEF Gone, Own, Billed, Cancelled, creditVars
<1>3. ASSUME NEW q \in Payments, Live(q)', i \in list'[q] PROVE ~Gone(i) /\ Own(i) # {}
  <2>1. CASE q = p /\ pc[p] = "idle"
    <3>1. Billed({i}) # {}
      BY <1>3, <2>1, PlanFinds
    <3> QED
      BY <3>1 DEF Standing, Billed, Own
  <2>2. CASE ~(q = p /\ pc[p] = "idle")
    <3>1. Live(q) /\ i \in list[q]
      BY <1>3, <2>2, PaymentFrame, PaymentMoves DEF Live
    <3> QED
      BY <3>1 DEF Standing
  <2> QED
    BY <2>1, <2>2
<1>4. \A x \in credited' : vdoc'[x] = i /\ vpc'[x] # "write" => Billed({i})' = {}
    BY <1>1, <1>2 DEF Standing, creditVars
<1>5. \A x \in Credits : vpc'[x] \in {"issue", "write"} /\ vdoc'[x] = i =>
                             vnotes'[x] = Own(i) /\ Own(i) # {}
    BY <1>1 DEF Standing, creditVars
<1> QED
    BY <1>2, <1>3, <1>4, <1>5 DEF Standing, Own

(* The notes of another invoice are not touched by a credit.               *)
LEMMA CreditTouches ==
    ASSUME Typed, Crediting, NEW x \in Credits, CreditStep(x),
           NEW n \in Notes, ~(vpc[x] = "write" /\ n \in vnotes[x])
    PROVE  /\ status'[n] = status[n] /\ paidAt'[n] = paidAt[n]
           /\ n \in fromBalance' <=> n \in fromBalance
<1>1. CASE CreditWrite(x)
    BY <1>1 DEF CreditWrite
<1>2. CASE ~CreditWrite(x)
    BY <1>2 DEF CreditStep, CreditRead, CreditIssue, CreditWriteFails, RefundFind,
                RefundRecord, RefundFails, CreditCrash, noteVars
<1> QED
    BY <1>1, <1>2

(* A credit takes all notes of its invoice, and nobody pays it meanwhile.  *)
LEMMA CreditsStanding ==
    ASSUME Typed, Crediting, NEW x \in Credits, CreditStep(x),
           NEW i \in Sound', Apart(i), Standing(i)
    PROVE  Standing(i)'
<1> USE DEF Typed, VGoto
<1>0. UNCHANGED paymentVars /\ i \notin incident'
    BY CreditFrame DEF Sound
<1>1. ASSUME NEW j \in Invoices, CreditRead(x, j) PROVE Standing(i)'
  <2>1. /\ vdoc' = [vdoc EXCEPT ![x] = j] /\ vnotes' = [vnotes EXCEPT ![x] = Billed({j})]
        /\ vpc' = [vpc EXCEPT ![x] = "issue"] /\ status' = status
        /\ credited' = credited /\ vpc[x] = "idle" /\ Billed({j}) # {}
    BY <1>1 DEF CreditRead, noteVars
  <2>2. x \notin credited
    BY <2>1 DEF Crediting
  <2>3. (Gone(i)' <=> Gone(i)) /\ Billed({i})' = Billed({i}) /\ (Cancelled(i)' <=> Cancelled(i))
    BY <2>1, <2>2 DEF Gone, Own, Billed, Cancelled
  <2>4. j = i => Billed({j}) = Own(i) /\ Own(i) # {}
    BY <2>1 DEF Standing, Billed, Own, Gone
  <2>5. \A q \in Payments : Live(q)' /\ i \in list'[q] => ~Gone(i) /\ Own(i) # {}
    BY <1>0 DEF Standing, Live, paymentVars
  <2>6. \A y \in credited' : vdoc'[y] = i /\ vpc'[y] # "write" => Billed({i}) = {}
    BY <2>1, <2>2 DEF Standing
  <2>7. \A y \in Credits : vpc'[y] \in {"issue", "write"} /\ vdoc'[y] = i =>
                               vnotes'[y] = Own(i) /\ Own(i) # {}
    BY <2>1, <2>4 DEF Standing
  <2> QED
    BY <2>3, <2>5, <2>6, <2>7 DEF Standing, Own
<1>2. CASE CreditWrite(x)
  <2>1. /\ vpc[x] = "write" /\ vpc'[x] \in {"find", "done"} /\ x \in credited
        /\ credited' = credited /\ vdoc' = vdoc /\ vnotes' = vnotes
        /\ \A y \in Credits \ {x} : vpc'[y] = vpc[y]
    BY <1>2 DEF CreditWrite, Crediting
  <2>2. Cancelled(i)' <=> Cancelled(i)
    BY <2>1 DEF Cancelled
  <2>3. CASE vdoc[x] = i
    <3>1. vnotes[x] = Own(i) /\ ~BeingPaid(i)
      BY <2>1, <2>3 DEF Standing, Apart, CreditLive
    <3>2. \A n \in Own(i) : status'[n] # "billed"
      BY <1>2, <3>1 DEF CreditWrite, Own
    <3>3. Billed({i})' = {} /\ Cancelled(i)
      BY <2>1, <2>3, <3>2 DEF Billed, Own, Cancelled
    <3>4. \A q \in Payments : ~(Live(q)' /\ i \in list'[q])
      BY <1>0, <3>1 DEF BeingPaid, Live, paymentVars
    <3>5. \A y \in Credits : vpc'[y] \in {"issue", "write"} /\ vdoc'[y] = i =>
                                 vnotes'[y] = Own(i) /\ Own(i) # {}
      BY <2>1 DEF Standing
    <3> QED
      BY <2>2, <3>3, <3>4, <3>5 DEF Standing, Own
  <2>4. CASE vdoc[x] # i
    <3>1. \A n \in Own(i) : status'[n] = status[n]
      BY <2>4, CreditTouches DEF Own, Crediting
    <3>2. (Gone(i)' <=> Gone(i)) /\ Billed({i})' = Billed({i})
      BY <3>1 DEF Gone, Own, Billed
    <3>3. \A q \in Payments : Live(q)' /\ i \in list'[q] => ~Gone(i) /\ Own(i) # {}
      BY <1>0 DEF Standing, Live, paymentVars
    <3>4. \A y \in credited' : vdoc'[y] = i /\ vpc'[y] # "write" => Billed({i}) = {}
      BY <2>1, <2>4 DEF Standing
    <3>5. \A y \in Credits : vpc'[y] \in {"issue", "write"} /\ vdoc'[y] = i =>
                                 vnotes'[y] = Own(i) /\ Own(i) # {}
      BY <2>1 DEF Standing
    <3> QED
      BY <2>2, <3>2, <3>3, <3>4, <3>5 DEF Standing, Own
  <2> QED
    BY <2>3, <2>4
<1>3. CASE CreditIssue(x) \/ CreditWriteFails(x) \/ RefundFind(x) \/ RefundRecord(x)
           \/ RefundFails(x) \/ CreditCrash(x)
  <2>1. /\ vdoc' = vdoc /\ vnotes' = vnotes /\ status' = status
        /\ credited \subseteq credited'
        /\ vpc'[x] \in {"issue", "write"} => vpc[x] \in {"issue", "write"}
    BY <1>3 DEF CreditIssue, CreditWriteFails, RefundFind, RefundRecord, RefundFails,
                CreditCrash, noteVars
  <2>2. vdoc[x] = i /\ x \in credited' /\ vpc'[x] # "write" =>
            x \in credited /\ vpc[x] # "write"
    BY <1>0, <1>3 DEF CreditIssue, CreditWriteFails, RefundFind, RefundRecord,
                RefundFails, CreditCrash, Crediting, CreditLive
  <2>3. (Gone(i)' <=> Gone(i)) /\ Billed({i})' = Billed({i}) /\ (Cancelled(i) => Cancelled(i)')
    BY <2>1 DEF Gone, Own, Billed, Cancelled
  <2>4. \A q \in Payments : Live(q)' /\ i \in list'[q] => ~Gone(i) /\ Own(i) # {}
    BY <1>0 DEF Standing, Live, paymentVars
  <2>5. \A y \in credited' : vdoc'[y] = i /\ vpc'[y] # "write" => Billed({i}) = {}
    <3> SUFFICES ASSUME NEW y \in credited', vdoc'[y] = i, vpc'[y] # "write"
                 PROVE  Billed({i}) = {}
      OBVIOUS
    <3>1. y \in credited /\ vpc[y] # "write" /\ vdoc[y] = i
      <4>1. CASE y = x
        BY <2>1, <2>2, <4>1
      <4>2. CASE y # x
        BY <2>1, <4>2, CreditFrame
      <4> QED
        BY <4>1, <4>2
    <3> QED
      BY <3>1 DEF Standing
  <2>6. \A y \in Credits : vpc'[y] \in {"issue", "write"} /\ vdoc'[y] = i =>
                               vnotes'[y] = Own(i) /\ Own(i) # {}
    BY <2>1, CreditFrame DEF Standing
  <2> QED
    BY <2>3, <2>4, <2>5, <2>6 DEF Standing, Own
<1> QED
    BY <1>1, <1>2, <1>3 DEF CreditStep

-----------------------------------------------------------------------------
(* Once.                                                                   *)

(* What settled an invoice is done with, and what charges it is the only   *)
(* one: its notes carry one mark.                                          *)
LEMMA OneCharge ==
    ASSUME Typed, NEW i \in Invoices, Standing(i), Marking(i),
           NEW p \in Payments, NEW q \in Payments, i \in list[p], i \in list[q],
           Live(p), Charges(p), Charges(q)
    PROVE  p = q
<1>1. PICK n \in Own(i) : ~Gone(i)
    BY DEF Standing
<1>2. paidAt[n] = p /\ paidAt[n] = q
    BY <1>1 DEF Marking, MarkOf
<1> QED
    BY <1>2

(* Only a payment that charges the invoice adds a settlement.              *)
LEMMA SettlementsGrow ==
    ASSUME Typed, Steps, NEW p \in Payments, PaymentStep(p), NEW i
    PROVE  \A q \in Settlements(i)' :
               q \in Settlements(i) \/ (q = p /\ Live(p) /\ Charges(p) /\ i \in list[p])
<1> SUFFICES ASSUME NEW q \in entered', i \in list'[q], q \notin Settlements(i)
             PROVE  q = p /\ Live(p) /\ Charges(p) /\ i \in list[p]
    BY DEF Settlements
<1>0. q \in Payments
    BY PaymentFrame
<1>1. q = p
    BY <1>0, PaymentFrame DEF Settlements
<1>2. pc[p] # "idle" /\ list' = list
    BY <1>1, PaymentMoves DEF Steps, Settlements
<1>3. pc[p] \in {"record", "enter"}
    BY <1>1, <1>2, PaymentMoves DEF Settlements
<1> QED
    BY <1>1, <1>2, <1>3 DEF Live, Charges

(* An entry stays what it was.                                             *)
LEMMA SettlementsStay ==
    ASSUME Typed, Steps, NEW p \in Payments, PaymentStep(p), NEW i
    PROVE  \A q \in Settlements(i) : q \in Settlements(i)' /\ due'[q] = due[q]
<1> SUFFICES ASSUME NEW q \in Payments, q \in entered, i \in list[q]
             PROVE  q \in entered' /\ i \in list'[q] /\ due'[q] = due[q]
    BY DEF Settlements, Typed
<1>1. CASE q # p
    BY <1>1, PaymentFrame
<1>2. CASE q = p
    BY <1>2, PaymentMoves DEF Steps, Live
<1> QED
    BY <1>1, <1>2

(* A second settlement would need a second mark on one note.               *)
LEMMA PaymentsOnce ==
    ASSUME Typed, Steps, NEW p \in Payments, PaymentStep(p),
           NEW i \in Sound', Standing(i), Marking(i), Once(i)
    PROVE  Once(i)'
<1>1. ASSUME NEW q \in Settlements(i), Live(p), Charges(p), i \in list[p] PROVE q = p
  <2>1. q \in Payments /\ i \in list[q] /\ Charges(q)
    BY <1>1 DEF Settlements, Typed, Charges
  <2> QED
    BY <1>1, <2>1, OneCharge DEF Sound
<1> QED
    BY <1>1, SettlementsGrow DEF Once

-----------------------------------------------------------------------------
(* Marking.                                                                *)

(* A payment does not touch the notes of an invoice it is not for.         *)
LEMMA PaymentTouches ==
    ASSUME Typed, Steps, NEW p \in Payments, PaymentStep(p),
           NEW n \in Notes, On[n] \notin list[p]
    PROVE  /\ paidAt'[n] = paidAt[n]
           /\ n \in fromBalance' <=> n \in fromBalance
           /\ n \notin claimed[p] /\ n \notin claimed'[p]
<1> USE DEF Typed
<1>0. n \notin claimed[p] /\ n \notin todo[p]
    BY DEF Steps
<1>1. CASE \E I \in SUBSET Invoices, sum \in Sums : Plan(p, I, sum)
    BY <1>0, <1>1 DEF Plan, noteVars
<1>2. CASE AlreadyPaid(p) \/ NotCovered(p) \/ FromBalance(p) \/ WithReceipt(p)
    BY <1>0, <1>2 DEF AlreadyPaid, NotCovered, FromBalance, WithReceipt, noteVars
<1>3. CASE \E m \in Notes : ClaimNote(p, m)
    BY <1>0, <1>3 DEF ClaimNote
<1>4. CASE Claimed(p) \/ ClaimFails(p) \/ RecordFromBalance(p) \/ RecordFails(p)
    BY <1>0, <1>4 DEF Claimed, ClaimFails, RecordFromBalance, RecordFails, noteVars
<1>5. CASE Undo(p)
    BY <1>0, <1>5 DEF Undo, Marked, Naming
<1>6. CASE UndoFails(p) \/ IssueReceipt(p) \/ ReceiptRejected(p) \/ ReceiptLost(p)
    BY <1>0, <1>6 DEF UndoFails, IssueReceipt, ReceiptRejected, ReceiptLost, noteVars
<1>7. CASE MarkPaid(p)
    BY <1>0, <1>7 DEF MarkPaid, Billed
<1>8. CASE MarkFails(p)
    BY <1>0, <1>8 DEF MarkFails, Billed
<1>9. CASE EnterPayment(p) \/ EnterFails(p) \/ Crash(p)
    BY <1>0, <1>9 DEF EnterPayment, EnterFails, Crash, noteVars
<1> QED
    BY <1>1, <1>2, <1>3, <1>4, <1>5, <1>6, <1>7, <1>8, <1>9 DEF PaymentStep

(* A step of p leaves this true of p and of the payments beside it.        *)
LEMMA MarkKept ==
    ASSUME Typed, Steps, NEW p \in Payments, PaymentStep(p), NEW i \in Sound',
           Apart(i), NEW n \in Own(i), status[n] = "billed",
           NEW q \in Payments, MarkOf(i, n, p), MarkOf(i, n, q)
    PROVE  MarkOf(i, n, p)' /\ (p # q => MarkOf(i, n, q)')
<1> USE DEF Typed, Goto
<1>0. /\ n \in Notes /\ On[n] = i /\ i \notin incident' /\ i \in Invoices
      /\ None \notin Payments
    BY CallsAssumption DEF Own, Sound
<1>1. p # q =>
          /\ pc'[q] = pc[q] /\ list'[q] = list[q] /\ received'[q] = received[q]
          /\ todo'[q] = todo[q] /\ claimed'[q] = claimed[q]
          /\ q \in entered' <=> q \in entered
    BY PaymentFrame
<1>2. CASE i \notin list[p]
  <2>1. /\ paidAt'[n] = paidAt[n] /\ (n \in fromBalance' <=> n \in fromBalance)
        /\ n \notin claimed[p] /\ n \notin claimed'[p]
    BY <1>0, <1>2, PaymentTouches
  <2>2. p # q => MarkOf(i, n, q)'
    BY <1>1, <2>1 DEF MarkOf, Charges, Sole
  <2>3. paidAt[n] # p
    BY <1>2 DEF MarkOf
  <2>4. CASE pc[p] = "idle"
    <3>1. pc'[p] = "check" /\ p \notin entered'
      BY <2>4, PaymentMoves DEF Steps
    <3> QED
      BY <2>1, <2>2, <2>3, <3>1 DEF MarkOf, Charges
  <2>5. CASE pc[p] # "idle"
    <3>1. i \notin list'[p]
      BY <1>2, <2>5, PaymentMoves
    <3> QED
      BY <2>1, <2>2, <2>3, <3>1 DEF MarkOf
  <2> QED
    BY <2>2, <2>4, <2>5
<1>3. CASE i \in list[p]
  <2>0. /\ list' = list /\ received' = received /\ pc[p] # "idle"
    BY <1>3, PaymentMoves DEF Steps
  <2>1. p # q /\ i \in list[q] /\ pc[q] \in PastCheck /\ pc[p] \in PastCheck =>
            ToldApart(p, q) /\ Sole(p) /\ Sole(q)
    BY <1>3 DEF Apart, ToldApart, Sole
  <2>2. CASE AlreadyPaid(p) \/ NotCovered(p)
    BY <1>0, <1>1, <1>3, <2>0, <2>2
       DEF AlreadyPaid, NotCovered, Unpaid, MarkOf, Charges, Sole, noteVars, Steps
  <2>3. CASE FromBalance(p) \/ WithReceipt(p)
    <3>1. paidAt[n] = None /\ n \in Billed(list[p]) /\ pc[p] = "check"
      BY <1>0, <1>3, <2>3 DEF FromBalance, WithReceipt, Unpaid, Naming, Billed
    <3> QED
      BY <1>0, <1>1, <1>3, <2>0, <2>3, <3>1
         DEF FromBalance, WithReceipt, MarkOf, Charges, Sole, noteVars, Steps
  <2>4. ASSUME NEW m \in Notes, ClaimNote(p, m)
        PROVE  MarkOf(i, n, p)' /\ (p # q => MarkOf(i, n, q)')
    <3>1. /\ pc' = pc /\ entered' = entered /\ pc[p] = "claim"
          /\ todo'[p] = todo[p] \ {m}
      BY <2>4 DEF ClaimNote
    <3>2. CASE m = n /\ paidAt[n] = None
      <4>1. paidAt'[n] = p /\ n \in fromBalance' /\ n \in claimed'[p]
        BY <2>4, <3>2 DEF ClaimNote
      <4>2. ~Charges(p) /\ (Charges(q) /\ i \in list[q] => paidAt[n] = q)
        BY <1>3, <3>1, <3>2, <1>0 DEF MarkOf
      <4>3. p # q /\ i \in list[q] => pc[q] \notin {"receipt", "mark"}
        BY <2>1, <3>1, <1>3 DEF PastCheck, Sole, Steps
      <4>4. p # q /\ i \in list[q] /\ pc[q] = "claim" => Sole(q)
        BY <2>1, <3>1 DEF PastCheck
      <4>5. pc[q] = "claim" => n \notin claimed[q]
        BY <3>2, <1>0 DEF MarkOf
      <4> QED
        BY <1>0, <1>1, <1>3, <2>0, <3>1, <3>2, <4>1, <4>2, <4>3, <4>4, <4>5
           DEF MarkOf, Charges, Sole
    <3>3. CASE ~(m = n /\ paidAt[n] = None)
      <4>1. /\ paidAt'[n] = paidAt[n] /\ (n \in fromBalance' <=> n \in fromBalance)
            /\ n \in claimed'[p] <=> n \in claimed[p]
        <5>1. CASE m = n
          BY <2>4, <3>3, <5>1 DEF ClaimNote
        <5>2. CASE m # n
          <6>1. CASE status[m] = "billed" /\ paidAt[m] = None
            <7>1. /\ paidAt' = [paidAt EXCEPT ![m] = p]
                  /\ fromBalance' = fromBalance \cup {m}
                  /\ claimed' = [claimed EXCEPT ![p] = @ \cup {m}]
              BY <2>4, <6>1 DEF ClaimNote
            <7>2. claimed'[p] = claimed[p] \cup {m}
              BY <7>1
            <7>3. paidAt'[n] = paidAt[n]
              BY <5>2, <7>1
            <7> QED
              BY <5>2, <7>1, <7>2, <7>3
          <6>2. CASE ~(status[m] = "billed" /\ paidAt[m] = None)
            BY <2>4, <6>2 DEF ClaimNote
          <6> QED
            BY <6>1, <6>2
        <5> QED
          BY <5>1, <5>2
      <4> QED
        BY <1>0, <1>1, <1>3, <2>0, <3>1, <3>3, <4>1 DEF MarkOf, Charges, Sole
    <3> QED
      BY <3>2, <3>3
  <2>5. CASE Claimed(p)
    <3>1. /\ paidAt' = paidAt /\ fromBalance' = fromBalance /\ entered' = entered
          /\ pc[p] = "claim" /\ todo[p] = {} /\ claimed' = claimed
          /\ pc'[p] = IF claimed[p] = {} THEN "done" ELSE "record"
      BY <2>5 DEF Claimed, noteVars
    <3>2. claimed[p] # {} => n \in claimed[p]
      BY <1>0, <1>3, <3>1 DEF MarkOf, Sole, Steps
    <3> QED
      BY <1>1, <1>3, <2>0, <3>1, <3>2 DEF MarkOf, Charges, Sole
  <2>6. CASE ClaimFails(p) \/ UndoFails(p) \/ ReceiptLost(p) \/ MarkFails(p) \/ EnterFails(p)
    BY <1>0, <1>3, <2>6 DEF ClaimFails, UndoFails, ReceiptLost, MarkFails, EnterFails
  <2>7. CASE RecordFromBalance(p) \/ RecordFails(p) \/ EnterPayment(p)
    BY <1>1, <1>3, <2>0, <2>7
       DEF RecordFromBalance, RecordFails, EnterPayment, MarkOf, Charges, Sole, noteVars
  <2>8. CASE Undo(p)
    <3>1. /\ pc[p] = "undo" /\ paidAt[n] = p /\ n \in fromBalance
          /\ entered' = entered /\ pc'[p] = "done" /\ p \notin entered
      BY <1>3, <2>8 DEF Undo, MarkOf, Charges, Steps
    <3>2. paidAt'[n] = None
      BY <1>0, <1>3, <2>8, <3>1 DEF Undo, Marked, Naming
    <3>3. p # q /\ i \in list[q] => pc[q] \notin {"receipt", "mark"}
      BY <2>1, <3>1 DEF PastCheck, Sole, Steps
    <3>4. p # q /\ i \in list[q] /\ pc[q] = "claim" => Sole(q)
      BY <2>1, <3>1 DEF PastCheck
    <3>5. p # q => ~(i \in list[q] /\ Charges(q)) /\ ~(pc[q] = "claim" /\ n \in claimed[q])
      BY <3>1 DEF MarkOf
    <3> QED
      BY <1>0, <1>1, <2>0, <3>1, <3>2, <3>3, <3>4, <3>5 DEF MarkOf, Charges, Sole
  <2>9. CASE IssueReceipt(p) \/ ReceiptRejected(p)
    BY <1>0, <1>1, <1>3, <2>0, <2>9
       DEF IssueReceipt, ReceiptRejected, MarkOf, Charges, Sole, noteVars, Steps
  <2>10. CASE MarkPaid(p)
    <3>1. /\ pc[p] = "mark" /\ paidAt[n] = None /\ entered' = entered
          /\ pc'[p] = "enter"
      BY <1>3, <2>10 DEF MarkPaid, MarkOf
    <3>2. paidAt'[n] = p
      BY <1>0, <1>3, <2>10 DEF MarkPaid, Billed
    <3>3. p # q /\ i \in list[q] => pc[q] \notin PastCheck
      BY <2>1, <3>1 DEF PastCheck, Sole, Steps
    <3>4. p # q => ~(i \in list[q] /\ Charges(q)) /\ ~(pc[q] = "claim" /\ n \in claimed[q])
      BY <1>0, <3>1 DEF MarkOf
    <3> QED
      BY <1>0, <1>1, <1>3, <2>0, <3>1, <3>2, <3>3, <3>4
         DEF MarkOf, Charges, Sole, PastCheck
  <2>11. CASE Crash(p)
    <3>1. /\ pc[p] \in {"check", "receipt"} /\ pc'[p] = "dead"
          /\ paidAt' = paidAt /\ fromBalance' = fromBalance
          /\ entered' = entered /\ claimed' = claimed
      BY <1>0, <1>3, <2>11 DEF Crash, noteVars
    <3> QED
      BY <1>0, <1>1, <1>3, <2>0, <3>1 DEF MarkOf, Charges, Sole, Steps
  <2>12. ASSUME NEW I \in SUBSET Invoices, NEW sum \in Sums, Plan(p, I, sum)
         PROVE  FALSE
    BY <2>0, <2>12 DEF Plan
  <2> QED
    BY <2>2, <2>3, <2>4, <2>5, <2>6, <2>7, <2>8, <2>9, <2>10, <2>11, <2>12
       DEF PaymentStep
<1> QED
    BY <1>2, <1>3

(* The marks through a step of a payment.                                  *)
LEMMA PaymentsMarking ==
    ASSUME Typed, Steps, NEW p \in Payments, PaymentStep(p), NEW i \in Sound',
           Apart(i), Marking(i)
    PROVE  Marking(i)'
<1>1. status' = status
    BY PaymentFrame
<1> SUFFICES ASSUME ~Gone(i), NEW n \in Own(i), NEW q \in Payments
             PROVE  MarkOf(i, n, q)'
    BY <1>1 DEF Marking, Gone, Own
<1>2. status[n] = "billed" /\ MarkOf(i, n, p) /\ MarkOf(i, n, q)
    BY DEF Marking, Gone
<1> QED
    BY <1>2, MarkKept

(* A credit that reopens or cancels the notes takes the invoice away.      *)
LEMMA CreditsMarking ==
    ASSUME Typed, Crediting, NEW x \in Credits, CreditStep(x), NEW i \in Sound',
           Standing(i), Marking(i)
    PROVE  Marking(i)'
<1>1. UNCHANGED <<paymentVars, entered>>
    BY CreditFrame
<1>2. CASE vpc[x] = "write" /\ vdoc[x] = i
  <2>1. CASE CreditWrite(x)
    <3>1. vnotes[x] = Own(i) /\ Own(i) # {}
      BY <1>2 DEF Standing
    <3>2. \A n \in Own(i) : status'[n] # "billed"
      BY <2>1, <3>1 DEF CreditWrite, Own
    <3> QED
      BY <3>1, <3>2 DEF Marking, Gone, Own
  <2>2. CASE ~CreditWrite(x)
    <3>1. i \in incident'
      BY <1>2, <2>2 DEF CreditStep, CreditRead, CreditIssue, CreditWriteFails,
                        RefundFind, RefundRecord, RefundFails, CreditCrash
    <3> QED
      BY <3>1 DEF Sound
  <2> QED
    BY <2>1, <2>2
<1>3. CASE ~(vpc[x] = "write" /\ vdoc[x] = i)
  <2>1. \A n \in Own(i) : /\ status'[n] = status[n] /\ paidAt'[n] = paidAt[n]
                          /\ n \in fromBalance' <=> n \in fromBalance
    BY <1>3, CreditTouches DEF Own, Crediting
  <2>2. Gone(i)' <=> Gone(i)
    BY <2>1 DEF Gone, Own
  <2>3. \A n \in Own(i), p \in Payments : MarkOf(i, n, p) => MarkOf(i, n, p)'
    BY <1>1, <2>1 DEF MarkOf, Charges, Sole, paymentVars
  <2> QED
    BY <2>2, <2>3 DEF Marking, Own
<1> QED
    BY <1>2, <1>3

-----------------------------------------------------------------------------
(* Refunding.                                                              *)

(* What a credit gives back is fixed once it has read: no payment settles  *)
(* the invoice meanwhile, and none can after it.                           *)
LEMMA PaymentsRefunding ==
    ASSUME Typed, Steps, NEW p \in Payments, PaymentStep(p), NEW i \in Sound',
           Apart(i), Standing(i), Refunding(i)
    PROVE  Refunding(i)'
<1>1. UNCHANGED creditVars
    BY PaymentFrame
<1> SUFFICES ASSUME NEW x \in Credits, vdoc[x] = i
             PROVE  /\ vpc[x] \in {"issue", "write"} => (vpaid[x] <=> Settlements(i)' # {})
                    /\ vpc[x] = "find" => Settlements(i)' # {}
                    /\ vpc[x] = "refund" => \E q \in Settlements(i)' : vsum[x] = due'[q][i]
                    /\ vpc[x] = "done" /\ x \in credited =>
                          \/ refund[x] = 0 /\ Settlements(i)' = {}
                          \/ \E q \in Settlements(i)' : refund[x] = due'[q][i]
    BY <1>1 DEF Refunding, creditVars
<1>2. CASE vpc[x] # "idle" /\ (vpc[x] = "done" => x \in credited)
  <2>1. ~(Live(p) /\ i \in list[p])
    <3>1. CASE CreditLive(x)
      BY <3>1 DEF Apart, BeingPaid
    <3>2. CASE ~CreditLive(x)
      <4>1. x \in credited /\ vpc[x] # "write"
        BY <1>2, <3>2 DEF CreditLive
      <4>2. Billed({i}) = {}
        BY <4>1 DEF Standing
      <4> QED
        BY <4>2 DEF Standing, Billed, Own, Gone
    <3> QED
      BY <3>1, <3>2
  <2>2. Settlements(i)' = Settlements(i)
    <3>1. \A q \in Settlements(i)' : q \in Settlements(i)
      BY <2>1, SettlementsGrow
    <3>2. \A q \in Settlements(i) : q \in Settlements(i)'
      BY SettlementsStay
    <3> QED
      BY <3>1, <3>2
  <2>3. \A q \in Settlements(i) : due'[q] = due[q]
    BY SettlementsStay
  <2> QED
    BY <2>2, <2>3 DEF Refunding
<1> QED
    BY <1>2

(* What a credit reads, finds and records is the one settlement.           *)
LEMMA CreditsRefunding ==
    ASSUME Typed, Crediting, NEW x \in Credits, CreditStep(x), NEW i \in Sound',
           Standing(i), Marking(i), Refunding(i)
    PROVE  Refunding(i)'
<1> USE DEF Typed, VGoto
<1>0. /\ list' = list /\ due' = due /\ Settlements(i)' = Settlements(i)
      /\ i \notin incident' /\ i \in Invoices
    BY CreditFrame DEF Settlements, paymentVars, Sound
<1> SUFFICES ASSUME vdoc'[x] = i
             PROVE  /\ vpc'[x] \in {"issue", "write"} => (vpaid'[x] <=> Settlements(i) # {})
                    /\ vpc'[x] = "find" => Settlements(i) # {}
                    /\ vpc'[x] = "refund" => \E p \in Settlements(i) : vsum'[x] = due[p][i]
                    /\ vpc'[x] = "done" /\ x \in credited' =>
                          \/ refund'[x] = 0 /\ Settlements(i) = {}
                          \/ \E p \in Settlements(i) : refund'[x] = due[p][i]
    BY <1>0, CreditFrame DEF Refunding
<1>1. ASSUME NEW j \in Invoices, CreditRead(x, j)
      PROVE  vpc'[x] = "issue" /\ (vpaid'[x] <=> Settlements(i) # {})
  <2>1. /\ j = i /\ Billed({i}) # {} /\ ~BeingPaid(i) /\ vpc'[x] = "issue"
        /\ vpaid'[x] <=> \E n \in Billed({i}) : paidAt[n] # None
    BY <1>0, <1>1 DEF CreditRead
  <2>2. ~Gone(i) /\ Billed({i}) = Own(i)
    BY <2>1 DEF Standing, Billed, Own, Gone
  <2>3. ASSUME NEW p \in Settlements(i) PROVE \A n \in Own(i) : paidAt[n] # None
    BY <2>2, <2>3, CallsAssumption DEF Marking, MarkOf, Settlements, Charges
  <2>4. ASSUME NEW n \in Own(i), paidAt[n] # None PROVE Settlements(i) # {}
    <3>1. paidAt[n] \in Payments
      BY <2>4 DEF Own
    <3>2. PICK p \in Payments : paidAt[n] = p
      BY <3>1
    <3>3. i \in list[p] /\ ~Live(p)
      BY <2>1, <2>2, <3>2 DEF Marking, MarkOf, BeingPaid
    <3>4. p \in entered
      BY <2>2, <3>2, <3>3 DEF Marking, MarkOf, Charges, Live
    <3> QED
      BY <3>3, <3>4 DEF Settlements
  <2> QED
    BY <2>1, <2>2, <2>3, <2>4
<1>2. CASE CreditIssue(x)
    BY <1>0, <1>2 DEF CreditIssue, Refunding, Crediting
<1>3. CASE CreditWrite(x)
    BY <1>0, <1>3 DEF CreditWrite, Refunding, Crediting
<1>4. CASE RefundFind(x)
  <2>1. /\ vpc[x] = "find" /\ vdoc[x] = i /\ vpc'[x] = "refund" /\ Settlements(i) # {}
    BY <1>4 DEF RefundFind, Refunding
  <2>2. \E p \in Settlements(i) : vsum'[x] = due[p][i]
    BY <1>4, <2>1 DEF RefundFind
  <2> QED
    BY <2>1, <2>2
<1>5. CASE RefundRecord(x)
    BY <1>0, <1>5 DEF RefundRecord, Refunding
<1>6. CASE CreditWriteFails(x) \/ RefundFails(x) \/ CreditCrash(x)
    BY <1>0, <1>6 DEF CreditWriteFails, RefundFails, CreditCrash, Crediting
<1> QED
    BY <1>1, <1>2, <1>3, <1>4, <1>5, <1>6 DEF CreditStep

-----------------------------------------------------------------------------
(* The invariant.                                                          *)

IInv == Typed /\ Steps /\ Crediting /\ \A i \in Sound : Settled(i)

LEMMA InvariantStarts == Init => IInv
<1> SUFFICES ASSUME Init PROVE IInv
    OBVIOUS
<1>1. Typed
  <2>1. due \in [Payments -> [Invoices -> Nat \ {0}]]
    BY InvoicesAssumption DEF Init
  <2> QED
    BY <2>1 DEF Init, Typed, PaymentSteps, CreditSteps
<1>2. Steps /\ Crediting
    BY DEF Init, Steps, Crediting, CreditLive
<1>3. ASSUME NEW i \in Sound PROVE Settled(i)
  <2>1. ~Gone(i) /\ Settlements(i) = {} /\ i \in Invoices
    BY DEF Init, Gone, Own, Settlements, Sound
  <2>2. Apart(i)
    BY DEF Init, Apart, CreditLive, PastCheck
  <2>3. Standing(i)
    BY <2>1 DEF Init, Standing, Live
  <2>4. Marking(i)
    BY CallsAssumption DEF Init, Marking, MarkOf, Charges, Own
  <2> QED
    BY <2>1, <2>2, <2>3, <2>4 DEF Init, Settled, Once, Refunding
<1> QED
    BY <1>1, <1>2, <1>3 DEF IInv

LEMMA InvariantKept == IInv /\ [Next]_vars => IInv'
<1> SUFFICES ASSUME IInv, [Next]_vars PROVE IInv'
    OBVIOUS
<1>1. Typed /\ Steps /\ Crediting
    BY DEF IInv
<1>2. Typed' /\ Steps' /\ Crediting'
    BY <1>1, TypedKept, StepsKept, CreditingKept
<1>3. ASSUME NEW i \in Sound' PROVE Settled(i)'
  <2>1. Apart(i) /\ Standing(i) /\ Marking(i) /\ Once(i) /\ Refunding(i)
    BY <1>1, SoundShrinks DEF IInv, Settled
  <2>2. ASSUME NEW p \in Payments, PaymentStep(p) PROVE Settled(i)'
    <3>1. Apart(i)'
      BY <1>1, <2>1, <2>2, PaymentsApart
    <3>2. Standing(i)'
      BY <1>1, <2>1, <2>2, PaymentsStanding
    <3>3. Marking(i)'
      BY <1>1, <2>1, <2>2, PaymentsMarking
    <3>4. Once(i)'
      BY <1>1, <2>1, <2>2, PaymentsOnce
    <3>5. Refunding(i)'
      BY <1>1, <2>1, <2>2, PaymentsRefunding
    <3> QED
      BY <3>1, <3>2, <3>3, <3>4, <3>5 DEF Settled
  <2>3. ASSUME NEW x \in Credits, CreditStep(x) PROVE Settled(i)'
    <3>1. Apart(i)'
      BY <1>1, <2>1, <2>3, CreditsApart
    <3>2. Standing(i)'
      BY <1>1, <2>1, <2>3, CreditsStanding
    <3>3. Marking(i)'
      BY <1>1, <2>1, <2>3, CreditsMarking
    <3>4. Once(i)'
      <4>1. Settlements(i)' = Settlements(i)
        BY <1>1, <2>3, CreditFrame DEF Settlements, paymentVars
      <4> QED
        BY <2>1, <4>1 DEF Once
    <3>5. Refunding(i)'
      BY <1>1, <2>1, <2>3, CreditsRefunding
    <3> QED
      BY <3>1, <3>2, <3>3, <3>4, <3>5 DEF Settled
  <2>4. CASE (\E a \in Adjusts : Adjust(a)) \/ UNCHANGED vars
    <3>1. UNCHANGED <<noteVars, paymentVars, entered, creditVars>>
      BY <2>4 DEF Adjust, vars
    <3>2. Apart(i)'
      BY <2>1, <3>1 DEF Apart, CreditLive, BeingPaid, Live, ToldApart, paymentVars,
                        creditVars
    <3>3. Standing(i)'
      BY <2>1, <3>1 DEF Standing, Gone, Own, Billed, Cancelled, Live, noteVars,
                        paymentVars, creditVars
    <3>4. Marking(i)'
      BY <2>1, <3>1 DEF Marking, MarkOf, Gone, Own, Charges, Sole, noteVars, paymentVars
    <3>5. Once(i)' /\ Refunding(i)'
      BY <2>1, <3>1 DEF Once, Refunding, Settlements, paymentVars, creditVars
    <3> QED
      BY <3>2, <3>3, <3>4, <3>5 DEF Settled
  <2> QED
    BY <2>2, <2>3, <2>4 DEF Next
<1> QED
    BY <1>2, <1>3 DEF IInv

(* Every reachable state has it: the ranges, what each payment and each     *)
(* credit keeps, and the five parts for every sound invoice.                *)
THEOREM Invariant == Spec => []IInv
<1>1. Init => IInv
    BY InvariantStarts
<1>2. IInv /\ [Next]_vars => IInv'
    BY InvariantKept
<1> QED
    BY <1>1, <1>2, PTL DEF Spec

-----------------------------------------------------------------------------
(* Sums over finite sets, which the model writes as folds.                 *)

(* Induction on finite sets, as the provers can use it: a family of        *)
(* subsets has a smallest member.                                          *)
LEMMA SmallestSubset ==
    ASSUME NEW S, IsFiniteSet(S), NEW T \in SUBSET SUBSET S, T # {}
    PROVE  \E x \in T : \A y \in T : y \subseteq x => y = x
<1>1. FiniteSubsetsOf(S) = SUBSET S
    BY FS_FiniteSubsetsOfFinite
<1>2. IsWellFoundedOn(StrictSubsetOrdering(S), SUBSET S)
    BY <1>1, FS_StrictSubsetOrderingWellFounded
<1>3. PICK x \in T : \A y \in T : <<y, x>> \notin StrictSubsetOrdering(S)
  <2> HIDE <1>1
  <2> QED
    BY <1>2, WFMin
<1> QED
    BY <1>3 DEF StrictSubsetOrdering

Any(s) == CHOOSE x \in s : TRUE

SumBy(f, S) == MapThenSumSet(LAMBDA x : f[x], S)

IsSumming(f, S, g) ==
    g = [s \in SUBSET S |-> IF s = {} THEN 0 ELSE f[Any(s)] + g[s \ {Any(s)}]]

LEMMA SumIsFold ==
    ASSUME NEW f, NEW S
    PROVE  SumBy(f, S) = (CHOOSE g : IsSumming(f, S, g))[S]
BY DEF SumBy, MapThenSumSet, MapThenFoldSet, IsSumming, Any

(* The recursion of the sum, which a finite set has.                       *)
SumFollows(f, S) ==
    SumBy(f, S) = IF S = {} THEN 0 ELSE f[Any(S)] + SumBy(f, S \ {Any(S)})

LEMMA SumRecursion ==
    ASSUME NEW C, IsFiniteSet(C), NEW f, NEW S \in SUBSET C
    PROVE  SumFollows(f, S)
<1> DEFINE Bad == {s \in SUBSET C : ~SumFollows(f, s)}
           A(s) == SumBy(f, s)
<1>1. ASSUME NEW s \in Bad, \A t \in Bad : t \subseteq s => t = s PROVE FALSE
  <2> DEFINE G == [u \in SUBSET s |->
                      IF u = s
                      THEN IF s = {} THEN 0 ELSE f[Any(s)] + A(s \ {Any(s)})
                      ELSE A(u)]
  <2>1. \A u \in SUBSET s : u # s =>
            A(u) = IF u = {} THEN 0 ELSE f[Any(u)] + A(u \ {Any(u)})
    BY <1>1 DEF SumFollows
  <2>2. \A u \in SUBSET s : u # {} => Any(u) \in u
    BY DEF Any
  <2> HIDE DEF A
  <2>3. \A u \in SUBSET s : u # {} => A(u \ {Any(u)}) = G[u \ {Any(u)}]
    <3> SUFFICES ASSUME NEW u \in SUBSET s, u # {}
                 PROVE  A(u \ {Any(u)}) = G[u \ {Any(u)}]
        OBVIOUS
    <3>1. u \ {Any(u)} \in SUBSET s /\ u \ {Any(u)} # s
        BY <2>2
    <3> QED BY <3>1
  <2>4. IsSumming(f, s, G)
    <3>1. G = [u \in SUBSET s |-> IF u = {} THEN 0
                      ELSE f[Any(u)] + G[u \ {Any(u)}]]
        BY <2>1, <2>3
    <3> QED BY <3>1 DEF IsSumming
  <2> DEFINE g == CHOOSE h : IsSumming(f, s, h)
  <2>5. IsSumming(f, s, g)
    BY <2>4
  <2>6. A(s) = g[s]
    BY SumIsFold DEF A
  <2> HIDE DEF g, G
  <2>7. \A u \in SUBSET s : g[u] = IF u = {} THEN 0
                      ELSE f[Any(u)] + g[u \ {Any(u)}]
    BY <2>5 DEF IsSumming
  <2>8. \A u \in SUBSET s : u # s => g[u] = A(u)
    <3> DEFINE Off == {u \in SUBSET s : u # s /\ g[u] # A(u)}
    <3>1. ASSUME NEW u \in Off, \A t \in Off : t \subseteq u => t = u PROVE FALSE
      <4>1. A(u) = IF u = {} THEN 0 ELSE f[Any(u)] + A(u \ {Any(u)})
        BY <2>1
      <4>2. u # {}
        BY <4>1, <2>7
      <4>3. u \ {Any(u)} \notin Off
        BY <3>1, <4>2, <2>2
      <4>4. g[u \ {Any(u)}] = A(u \ {Any(u)})
        BY <4>3, <4>2, <2>2
      <4> QED BY <4>1, <4>2, <4>4, <2>7
    <3>2. Off = {}
      <4>1. Off \in SUBSET SUBSET C
        OBVIOUS
      <4> HIDE DEF Off
      <4> QED BY <3>1, <4>1, SmallestSubset
    <3> QED BY <3>2
  <2>9. A(s) = IF s = {} THEN 0 ELSE f[Any(s)] + A(s \ {Any(s)})
    BY <2>2, <2>6, <2>7, <2>8
  <2> QED BY <2>9, <1>1 DEF SumFollows, A
<1>2. Bad = {}
  <2>1. Bad \in SUBSET SUBSET C
    OBVIOUS
  <2> HIDE DEF Bad
  <2> QED BY <1>1, <2>1, SmallestSubset
<1> QED BY <1>2

LEMMA SumIsInt ==
    ASSUME NEW C, IsFiniteSet(C), NEW f, \A x \in C : f[x] \in Int, NEW S \in SUBSET C
    PROVE  SumBy(f, S) \in Int
<1> DEFINE Bad == {s \in SUBSET C : SumBy(f, s) \notin Int}
<1>1. ASSUME NEW s \in Bad, \A t \in Bad : t \subseteq s => t = s PROVE FALSE
  <2>1. SumFollows(f, s)
    BY SumRecursion
  <2>2. s # {}
    BY <2>1 DEF SumFollows
  <2>3. Any(s) \in s
    BY <2>2 DEF Any
  <2>4. s \ {Any(s)} \notin Bad
    BY <1>1, <2>3
  <2>5. SumBy(f, s \ {Any(s)}) \in Int
    BY <2>4
  <2>6. f[Any(s)] \in Int
    BY <2>3
  <2>7. SumBy(f, s) = f[Any(s)] + SumBy(f, s \ {Any(s)})
    BY <2>1, <2>2 DEF SumFollows
  <2> QED BY <2>5, <2>6, <2>7
<1>2. Bad = {}
  <2>1. Bad \in SUBSET SUBSET C
    OBVIOUS
  <2> HIDE DEF Bad
  <2> QED BY <1>1, <2>1, SmallestSubset
<1> QED BY <1>2

LEMMA SumOfNone ==
    ASSUME NEW f
    PROVE  SumBy(f, {}) = 0
<1>1. SumFollows(f, {})
    BY SumRecursion, FS_EmptySet
<1> QED
    BY <1>1 DEF SumFollows

LEMMA SumOfOne ==
    ASSUME NEW f, NEW x, f[x] \in Int
    PROVE  SumBy(f, {x}) = f[x]
<1>1. IsFiniteSet({x})
    BY FS_Singleton
<1>2. SumFollows(f, {x})
    BY <1>1, SumRecursion
<1>3. Any({x}) = x /\ {x} \ {x} = {}
    BY DEF Any
<1>4. SumBy(f, {x}) = f[Any({x})] + SumBy(f, {x} \ {Any({x})})
    BY <1>2 DEF SumFollows
<1>5. SumBy(f, {x}) = f[x] + SumBy(f, {})
    BY <1>3, <1>4
<1> QED
    BY <1>5, SumOfNone

(* The sums of the model, of something other than a function, as SumBy.    *)
LEMMA EntriesAreSum ==
    ASSUME Typed
    PROVE  MapThenSumSet(Delta, entered) = SumBy([p \in Payments |-> Delta(p)], entered)
<1> DEFINE f == [p \in Payments |-> Delta(p)]
           D(g) == g = [s \in SUBSET entered |->
                           IF s = {} THEN 0 ELSE Delta(Any(s)) + g[s \ {Any(s)}]]
<1>1. MapThenSumSet(Delta, entered) = (CHOOSE g : D(g))[entered]
    BY DEF MapThenSumSet, MapThenFoldSet, Any
<1>2. \A s \in SUBSET entered : s # {} => Delta(Any(s)) = f[Any(s)]
  <2> SUFFICES ASSUME NEW s \in SUBSET entered, s # {} PROVE Delta(Any(s)) = f[Any(s)]
      OBVIOUS
  <2>1. Any(s) \in Payments
    BY DEF Any, Typed
  <2> QED BY <2>1
<1>3. ASSUME NEW g PROVE D(g) <=> IsSumming(f, entered, g)
  <2> HIDE DEF f
  <2>1. [s \in SUBSET entered |->
            IF s = {} THEN 0 ELSE Delta(Any(s)) + g[s \ {Any(s)}]]
        = [s \in SUBSET entered |->
            IF s = {} THEN 0 ELSE f[Any(s)] + g[s \ {Any(s)}]]
    BY <1>2
  <2> QED BY <2>1 DEF IsSumming
<1>4. (CHOOSE g : D(g)) = (CHOOSE g : IsSumming(f, entered, g))
  <2> HIDE DEF D, f
  <2> QED BY <1>3, Zenon
<1>5. SumBy(f, entered) = (CHOOSE g : IsSumming(f, entered, g))[entered]
  <2> HIDE DEF f
  <2> QED BY SumIsFold
<1> HIDE DEF D
<1> QED
    BY <1>1, <1>4, <1>5

ChargedBy(S, i) == MapThenSumSet(LAMBDA p : due[p][i], S)

LEMMA ChargesAreSum ==
    ASSUME NEW S \in SUBSET Payments, NEW i
    PROVE  ChargedBy(S, i) = SumBy([p \in Payments |-> due[p][i]], S)
<1> DEFINE f == [p \in Payments |-> due[p][i]]
           D(g) == g = [s \in SUBSET S |->
                           IF s = {} THEN 0 ELSE due[Any(s)][i] + g[s \ {Any(s)}]]
<1>1. ChargedBy(S, i) = (CHOOSE g : D(g))[S]
    BY DEF ChargedBy, MapThenSumSet, MapThenFoldSet, Any
<1>2. \A s \in SUBSET S : s # {} => due[Any(s)][i] = f[Any(s)]
  <2> SUFFICES ASSUME NEW s \in SUBSET S, s # {} PROVE due[Any(s)][i] = f[Any(s)]
      OBVIOUS
  <2>1. Any(s) \in Payments
    BY DEF Any
  <2> QED BY <2>1
<1>3. ASSUME NEW g PROVE D(g) <=> IsSumming(f, S, g)
  <2> HIDE DEF f
  <2>1. [s \in SUBSET S |-> IF s = {} THEN 0 ELSE due[Any(s)][i] + g[s \ {Any(s)}]]
        = [s \in SUBSET S |-> IF s = {} THEN 0 ELSE f[Any(s)] + g[s \ {Any(s)}]]
    BY <1>2
  <2> QED BY <2>1 DEF IsSumming
<1>4. (CHOOSE g : D(g)) = (CHOOSE g : IsSumming(f, S, g))
  <2> HIDE DEF D, f
  <2> QED BY <1>3, Zenon
<1>5. SumBy(f, S) = (CHOOSE g : IsSumming(f, S, g))[S]
  <2> HIDE DEF f
  <2> QED BY SumIsFold
<1> HIDE DEF D
<1> QED
    BY <1>1, <1>4, <1>5

LEMMA BalanceIsInt ==
    ASSUME Typed, adjusted \in SUBSET Adjusts
    PROVE  Balance \in Int
<1>1. \A p \in Payments : Delta(p) \in Int
  <2> SUFFICES ASSUME NEW p \in Payments PROVE Delta(p) \in Int
      OBVIOUS
  <2>1. \A i \in Invoices : due[p][i] \in Int
    BY DEF Typed
  <2>2. SumBy(due[p], list[p]) \in Int
    BY <2>1, SumIsInt, InvoicesAssumption DEF Typed
  <2>3. SumDue(p) \in Int
    BY <2>2 DEF SumDue, SumBy
  <2> QED
    BY <2>3 DEF Delta, Typed
<1>2. MapThenSumSet(Delta, entered) \in Int
  <2> DEFINE f == [p \in Payments |-> Delta(p)]
  <2>1. \A p \in Payments : f[p] \in Int
    BY <1>1
  <2>2. entered \in SUBSET Payments
    BY DEF Typed
  <2> HIDE DEF f
  <2>3. SumBy(f, entered) \in Int
    BY <2>1, <2>2, SumIsInt, CallsAssumption
  <2> QED
    BY <2>3, EntriesAreSum DEF f
<1>3. SumBy(refund, Credits) \in Int
  <2>1. \A x \in Credits : refund[x] \in Int
    BY DEF Typed
  <2> QED
    BY <2>1, SumIsInt, CallsAssumption
<1>4. SumBy(Correction, adjusted) \in Int
  <2>1. \A a \in Adjusts : Correction[a] \in Int
    BY CallsAssumption
  <2> QED
    BY <2>1, SumIsInt, CallsAssumption
<1> QED
  <2>1. Balance = MapThenSumSet(Delta, entered) + SumBy(refund, Credits)
                  + SumBy(Correction, adjusted)
    BY DEF Balance, SumBy
  <2> QED
    BY <1>2, <1>3, <1>4, <2>1

(* Every reachable state is well typed; the balance that a payment reads   *)
(* is a whole number whatever was entered, given back and corrected.       *)
THEOREM TypeCorrect == Spec => []TypeOK
<1> DEFINE Rest == /\ before \in [Payments -> Int]
                   /\ receipts \in SUBSET Payments
                   /\ adjusted \in SUBSET Adjusts
<1>1. Init => Rest
    BY DEF Init
<1>2. IInv /\ Rest /\ [Next]_vars => Rest'
  <2> SUFFICES ASSUME Typed, Rest, [Next]_vars PROVE Rest'
      BY DEF IInv
  <2>1. ASSUME NEW p \in Payments, NEW I \in SUBSET Invoices, NEW sum \in Sums,
               Plan(p, I, sum)
        PROVE  Rest'
    BY <2>1, BalanceIsInt DEF Plan
  <2>2. ASSUME NEW p \in Payments, PaymentStep(p),
               ~\E I \in SUBSET Invoices, sum \in Sums : Plan(p, I, sum)
        PROVE  Rest'
    <3>1. before' = before /\ adjusted' = adjusted /\ receipts' \subseteq receipts \cup {p}
      BY <2>2
         DEF PaymentStep, AlreadyPaid, NotCovered, FromBalance, WithReceipt, ClaimNote,
             Claimed, ClaimFails, RecordFromBalance, RecordFails, Undo, UndoFails,
             IssueReceipt, ReceiptRejected, ReceiptLost, MarkPaid, MarkFails,
             EnterPayment, EnterFails, Crash
    <3> QED
      BY <3>1
  <2>3. ASSUME NEW x \in Credits, CreditStep(x) PROVE Rest'
    BY <2>3
       DEF CreditStep, CreditRead, CreditIssue, CreditWrite, CreditWriteFails,
           RefundFind, RefundRecord, RefundFails, CreditCrash, paymentVars
  <2>4. ASSUME NEW a \in Adjusts, Adjust(a) PROVE Rest'
    BY <2>4 DEF Adjust, paymentVars
  <2>5. CASE UNCHANGED vars
    BY <2>5 DEF vars, paymentVars
  <2> QED
    BY <2>1, <2>2, <2>3, <2>4, <2>5 DEF Next, PaymentStep
<1>3. IInv /\ Rest => TypeOK
    BY DEF IInv, Typed, TypeOK
<1> QED
    BY <1>1, <1>2, <1>3, Invariant, PTL DEF Spec

-----------------------------------------------------------------------------
(* What it says about the money.                                           *)

(* No invoice is settled by two payments: whoever records or enters finds  *)
(* its own mark on the notes, and the entry of another would have left     *)
(* the other's (billingController.js:959).                                 *)
THEOREM ChargedOnce == Spec => []SettledOnce
<1>1. IInv => SettledOnce
  <2> SUFFICES ASSUME IInv, NEW i \in Sound PROVE Cardinality(Settlements(i)) <= 1
    BY DEF SettledOnce
  <2>1. \A p, q \in Settlements(i) : p = q
    BY DEF IInv, Settled, Once
  <2>2. CASE Settlements(i) = {}
    BY <2>2, FS_EmptySet
  <2>3. CASE Settlements(i) # {}
    <3>1. \E p : Settlements(i) = {p}
      BY <2>1, <2>3
    <3>2. Cardinality(Settlements(i)) = 1
      BY <3>1, FS_Singleton
    <3> QED
      BY <3>2
  <2> QED
    BY <2>2, <2>3
<1> QED
    BY <1>1, Invariant, PTL

(* An invoice nobody works on shows as paid exactly if it was charged, on  *)
(* every note of it (billingController.js:1028).                           *)
THEOREM MarksTellTheCharge == Spec => []PaidIffSettled
<1>1. IInv => PaidIffSettled
  <2> SUFFICES ASSUME IInv, NEW i \in Sound, Quiet(i), ~Cancelled(i),
                      NEW n \in Notes, On[n] = i
               PROVE  (paidAt[n] # None) <=> (Settlements(i) # {})
    BY DEF PaidIffSettled
  <2>1. n \in Own(i) /\ ~Gone(i) /\ Typed /\ \A p \in Payments : MarkOf(i, n, p)
    BY DEF IInv, Settled, Standing, Marking, Own
  <2>2. ASSUME NEW p \in Settlements(i) PROVE paidAt[n] # None
    BY <2>1, CallsAssumption DEF MarkOf, Settlements, Charges, Typed
  <2>3. ASSUME paidAt[n] # None PROVE Settlements(i) # {}
    <3>1. PICK p \in Payments : paidAt[n] = p
      BY <2>1, <2>3 DEF Typed
    <3>2. i \in list[p] /\ ~Live(p)
      BY <2>1, <3>1 DEF MarkOf, Quiet, BeingPaid
    <3>3. p \in entered
      BY <2>1, <3>1, <3>2 DEF MarkOf, Charges, Live
    <3> QED
      BY <3>2, <3>3 DEF Settlements
  <2> QED
    BY <2>2, <2>3
<1> QED
    BY <1>1, Invariant, PTL

(* A credit of an invoice gives back the total its one payment was charged *)
(* with, or nothing if there was none (customerBalance.js:175).            *)
THEOREM RefundIsTheCharge == Spec => []RefundMatches
<1>1. IInv => RefundMatches
  <2> SUFFICES ASSUME IInv, NEW i \in Sound, Quiet(i), NEW x \in credited, vdoc[x] = i
               PROVE  refund[x] = ChargedBy(Settlements(i), i)
    BY DEF RefundMatches, ChargedBy
  <2>1. Typed /\ Crediting /\ Once(i) /\ Refunding(i) /\ x \in Credits
    BY DEF IInv, Settled, Typed
  <2>2. vpc[x] = "done"
    BY <2>1 DEF Quiet, Crediting, CreditLive
  <2> DEFINE f == [p \in Payments |-> due[p][i]]
  <2>3. Settlements(i) \subseteq Payments /\ \A p \in Payments : f[p] = due[p][i]
    BY <2>1 DEF Settlements, Typed
  <2> HIDE DEF f
  <2>4. refund[x] = SumBy(f, Settlements(i))
    <3>1. CASE refund[x] = 0 /\ Settlements(i) = {}
      BY <3>1, SumOfNone
    <3>2. CASE \E p \in Settlements(i) : refund[x] = due[p][i]
      <4>1. PICK p \in Settlements(i) : refund[x] = due[p][i]
        BY <3>2
      <4>2. Settlements(i) = {p}
        BY <2>1, <4>1 DEF Once
      <4>3. f[p] = due[p][i] /\ f[p] \in Int
        BY <2>1, <2>3, <4>1 DEF Typed, Sound
      <4> QED
        BY <4>1, <4>2, <4>3, SumOfOne
    <3> QED
      BY <2>1, <2>2, <3>1, <3>2 DEF Refunding
  <2> QED
    BY <2>3, <2>4, ChargesAreSum DEF f
<1> QED
    BY <1>1, Invariant, PTL

=============================================================================
