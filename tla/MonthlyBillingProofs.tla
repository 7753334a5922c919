------------------------ MODULE MonthlyBillingProofs ------------------------
(***************************************************************************)
(* Proofs about MonthlyBilling, for every set of documents, runs, credits  *)
(* and cancellations and every combination of faults.                      *)
(***************************************************************************)
EXTENDS MonthlyBilling, TLAPS, FiniteSetTheorems

(* Every part of the inductive invariant speaks of the documents outside   *)
(* `incident': one document's accident does not weaken what is known of    *)
(* the others.                                                             *)
Sound == Docs \ incident

(* Which steps of a run can have documents in hand.                        *)
Phases ==
    \A r \in Runs :
        /\ group[r] # {} => pc[r] \in {"mark", "markCredits"}
        /\ pc[r] = "markCredits" => group[r] \subseteq Credits
        /\ mine[r] # {} => pc[r] \in {"openCredits", "claimCredits",
              "setAside", "bill", "mark", "markCredits", "release"}
        /\ mine[r] \cap group[r] = {}
        /\ pc[r] = "idle" => \A d \in Docs : holder[d] # r

(* A run issues at most one invoice per key.                               *)
Fresh ==
    \A r \in Runs :
        /\ pc[r] \in {"idle", "claim", "openCredits", "claimCredits", "setAside"}
              => \A k \in Keys : invoice[<<r, k>>] = {}
        /\ \A n \in mine[r] \cap Notes : invoice[<<r, Key[n]>>] = {}

InHand ==
    \A r \in Runs :
        /\ \A d \in (mine[r] \cup group[r]) \cap Sound : holder[d] = r
        /\ \A d \in group[r] :
              current[r] \in DocNums /\ d \in invoice[current[r]]

(* A claimed document is charged by no invoice, except the one its run has *)
(* issued and not yet marked.                                              *)
Claimed ==
    \A d \in Sound : holder[d] \in Runs =>
        /\ status[d] \in {"billing", "cancelled"}
        /\ \A i \in DocNums : Charged(d, i) =>
              d \in group[holder[d]] /\ i = current[holder[d]]

(* An unclaimed one is charged by the invoice it names, or by none.        *)
Unclaimed ==
    \A d \in Sound : holder[d] = NoRun =>
        /\ status[d] # "billing"
        /\ \A i \in DocNums : Charged(d, i) =>
              status[d] \in {"billed", "netted", "cancelled"} /\ docNum[d] = i

StaleIsDead ==
    \A d \in Sound \cap stale : status[d] = "billing" => ~Live(holder[d])

(* Until a credit call writes, the documents it read stay as it read them, *)
(* unless another credit of the same invoice has come in between.          *)
Crediting ==
    \A x \in Refunds :
        /\ rpc[x] \in {"idle", "netted", "issue"} => refunded[x] = {}
        /\ rpc[x] \in {"write", "writeCredits"} => refunded[x] = rdocs[x]
        /\ rpc[x] # "idle" => rdoc[x] \in DocNums
        /\ rpc[x] \in {"netted", "issue"} =>
              \A d \in (rdocs[x] \cap Sound) \ RefundedOf(rdoc[x]) :
                  /\ status[d] \in {"billed", "netted", "cancelled"}
                  /\ docNum[d] = rdoc[x]
                  /\ holder[d] = NoRun
        /\ rpc[x] \in {"write", "writeCredits"} =>
              \A d \in rdocs[x] \cap Sound :
                  rpc[x] = "write" \/ d \in Credits =>
                      /\ status[d] \in {"billed", "netted", "cancelled"}
                      /\ docNum[d] = rdoc[x]
                      /\ holder[d] = NoRun

CreditedTwiceIsKnown ==
    \A x, y \in Refunds :
        x # y /\ rdoc[x] = rdoc[y] => refunded[x] \cap refunded[y] \subseteq incident

IInv ==
    /\ TypeOK
    /\ Phases
    /\ Fresh
    /\ InHand
    /\ Claimed
    /\ Unclaimed
    /\ MarkedIsListed
    /\ StaleIsDead
    /\ Crediting
    /\ CreditedTwiceIsKnown

-----------------------------------------------------------------------------
(* Type correctness.                                                       *)

LEMMA InvoiceForIsDocs ==
    ASSUME NEW D \in SUBSET Docs, NEW k \in Keys
    PROVE  /\ InvoiceFor(D, k) \in SUBSET D
           /\ OfKey(D \cap Notes, k) \subseteq InvoiceFor(D, k)
BY DEF InvoiceFor, Attached, OfKey, Docs

LEMMA LeftOutIsCredits ==
    ASSUME NEW D \in SUBSET Docs
    PROVE  LeftOut(D) \in SUBSET (D \cap Credits)
BY DEF LeftOut

LEMMA InitType == Init => TypeOK
BY CallsAssumption DEF Init, TypeOK, Statuses, RunSteps, RefundSteps, CancelSteps

LEMMA NextType == TypeOK /\ [Next]_vars => TypeOK'
<1> SUFFICES ASSUME TypeOK, [Next]_vars PROVE TypeOK'
    OBVIOUS
<1> USE DEF TypeOK, Statuses, RunSteps, RefundSteps, CancelSteps, noteVars,
            runVars, refundVars, cancelVars, Goto, SetStatus, SetDocNum, DropClaims
<1>1. ASSUME NEW r \in Runs, RunStart(r) PROVE TypeOK'
    BY <1>1 DEF RunStart, CloseCustomerMonth, BillNoteImmediately, Docs
<1>2. ASSUME NEW r \in Runs, NEW d \in Docs, ClaimNote(r, d) \/ ClaimCredit(r, d)
      PROVE  TypeOK'
    BY <1>2, SMTT(40) DEF ClaimNote, ClaimCredit, Claim
<1>3. ASSUME NEW r \in Runs, ReadClaimed(r) PROVE TypeOK'
    BY <1>3 DEF ReadClaimed, Docs
<1>4. ASSUME NEW r \in Runs, OpenCredits(r) PROVE TypeOK'
    BY <1>4 DEF OpenCredits, Docs
<1>5. ASSUME NEW r \in Runs, ReadCredits(r) PROVE TypeOK'
    BY <1>5 DEF ReadCredits, Docs
<1>6. ASSUME NEW r \in Runs, SetAside(r) PROVE TypeOK'
    BY <1>6, LeftOutIsCredits DEF SetAside
<1>7. ASSUME NEW r \in Runs, NEW k \in Keys, Issue(r, k) \/ IssueLost(r, k)
      PROVE  TypeOK'
  <2> DEFINE billed == InvoiceFor(mine[r], k)
  <2>2. mine[r] \in SUBSET Docs /\ billed \in SUBSET Docs /\ <<r, k>> \in DocNums
    BY InvoiceForIsDocs DEF DocNums
  <2> HIDE DEF billed
  <2>3. CASE Issue(r, k)
    BY <2>2, <2>3 DEF Issue, billed
  <2>4. CASE IssueLost(r, k)
    BY <2>2, <2>4 DEF IssueLost, billed
  <2> QED
    BY <1>7, <2>3, <2>4
<1>8. ASSUME NEW r \in Runs, IssueRejected(r) \/ Finish(r) \/ Abort(r) PROVE TypeOK'
    BY <1>8, SMTT(40) DEF IssueRejected, Finish, Abort
<1>9. ASSUME NEW r \in Runs, MarkNotes(r) \/ MarkCredits(r) PROVE TypeOK'
  <2>1. CASE MarkNotes(r)
    BY <2>1 DEF MarkNotes
  <2>2. CASE MarkCredits(r)
    BY <2>2 DEF MarkCredits
  <2> QED
    BY <1>9, <2>1, <2>2
<1>10. ASSUME NEW r \in Runs, NEW written \in SUBSET Docs, MarkFails(r, written)
       PROVE  TypeOK'
    BY <1>10 DEF MarkFails
<1>11. ASSUME NEW r \in Runs, NEW freed \in SUBSET Docs,
              Release(r) \/ ReopenFails(r, freed)
       PROVE  TypeOK'
  <2>1. CASE Release(r)
    BY <2>1 DEF Release
  <2>2. CASE ReopenFails(r, freed)
    BY <2>2 DEF ReopenFails
  <2> QED
    BY <1>11, <2>1, <2>2
<1>12. ASSUME NEW x \in Refunds, RefundStep(x) PROVE TypeOK'
  <2>1. ASSUME NEW i \in DocNums, RefundRead(x, i) PROVE TypeOK'
    BY <2>1 DEF RefundRead, Docs
  <2>2. CASE RefundReadNetted(x)
    BY <2>2 DEF RefundReadNetted, Docs
  <2>3. CASE RefundIssue(x) \/ RefundLost(x)
    BY <2>3 DEF RefundIssue, RefundLost, OpenCredit
  <2>4. CASE RefundRejected(x)
    BY <2>4 DEF RefundRejected
  <2>5. ASSUME NEW reopen \in BOOLEAN, RefundWrite(x, reopen) PROVE TypeOK'
    BY <2>5 DEF RefundWrite, WriteNotes
  <2>6. ASSUME NEW reopen \in BOOLEAN, NEW written \in SUBSET Docs,
               RefundWriteFails(x, reopen, written)
        PROVE  TypeOK'
    BY <2>6 DEF RefundWriteFails, WriteNotes
  <2>7. ASSUME NEW written \in SUBSET Docs, RefundWriteCredits(x, written)
        PROVE  TypeOK'
    BY <2>7 DEF RefundWriteCredits
  <2> QED
    BY <1>12, <2>1, <2>2, <2>3, <2>4, <2>5, <2>6, <2>7 DEF RefundStep
<1>13. ASSUME NEW c \in Cancels, CancelStep(c) PROVE TypeOK'
  <2>1. ASSUME NEW n \in Notes, CancelRead(c, n) PROVE TypeOK'
    BY <2>1 DEF CancelRead, Docs
  <2>2. CASE CancelSave(c)
    BY <2>2 DEF CancelSave
  <2> QED
    BY <1>13, <2>1, <2>2 DEF CancelStep
<1>14. ASSUME NEW d \in Docs, ClaimAges(d) PROVE TypeOK'
    BY <1>14 DEF ClaimAges
<1>15. ASSUME ReleaseStuckNotes \/ ReleaseStuckCredits PROVE TypeOK'
    BY <1>15 DEF ReleaseStuckNotes, ReleaseStuckCredits, ReleaseStuck
<1>16. ASSUME Crash PROVE TypeOK'
    BY <1>16 DEF Crash, Live
<1>17. CASE UNCHANGED vars
    BY <1>17 DEF vars
<1> QED
    BY <1>1, <1>2, <1>3, <1>4, <1>5, <1>6, <1>7, <1>8, <1>9, <1>10, <1>11, <1>12,
       <1>13, <1>14, <1>15, <1>16, <1>17 DEF Next, RunStep

(* Every variable stays in its declared range.                             *)
THEOREM TypeCorrect == Spec => []TypeOK
BY InitType, NextType, PTL DEF Spec


-----------------------------------------------------------------------------
(* What the invariant says of a document that is about to change hands.    *)

(* A claimed document that its run has not put on an invoice.              *)
LEMMA HeldIsUncharged ==
    ASSUME IInv, NEW d \in Sound, holder[d] \in Runs, d \notin group[holder[d]],
           NEW i \in DocNums
    PROVE  ~Charged(d, i)
BY DEF IInv, Claimed

LEMMA OpenIsUncharged ==
    ASSUME IInv, NEW d \in Sound, status[d] = "open"
    PROVE  /\ holder[d] = NoRun
           /\ \A i \in DocNums : ~Charged(d, i)
<1>1. holder[d] = NoRun
    BY DEF IInv, TypeOK, Sound, Claimed
<1> QED
    BY <1>1 DEF IInv, Unclaimed

(* A document whose invoice has just been credited in iCount.              *)
LEMMA CreditedIsUncharged ==
    ASSUME IInv, NEW x \in Refunds, NEW d \in rdocs[x] \cap Sound,
           rpc[x] = "write" \/ (rpc[x] = "writeCredits" /\ d \in Credits),
           NEW i \in DocNums
    PROVE  ~Charged(d, i)
<1>1. rpc[x] \in {"write", "writeCredits"}
    OBVIOUS
<1>2. holder[d] = NoRun /\ docNum[d] = rdoc[x] /\ refunded[x] = rdocs[x]
    BY <1>1 DEF IInv, Crediting
<1>3. Charged(d, i) => i = rdoc[x]
    BY <1>2 DEF IInv, Unclaimed
<1>4. d \in Docs /\ d \in refunded[x]
    BY <1>2 DEF Sound
<1> QED
    BY <1>3, <1>4 DEF Charged, RefundedOf

(* A step that leaves the credits and every unclaimed document alone.      *)
LEMMA CreditingFrame ==
    ASSUME IInv, TypeOK', UNCHANGED <<refundVars, incident>>,
           \A d \in Sound : holder[d] = NoRun =>
               status'[d] = status[d] /\ docNum'[d] = docNum[d] /\ holder'[d] = NoRun
    PROVE  Crediting'
<1> USE DEF refundVars
<1>1. \A y \in Refunds : RefundedOf(rdoc[y])' = RefundedOf(rdoc[y])
    BY DEF RefundedOf
<1>2. Crediting /\ Sound' = Sound
    BY DEF IInv, Sound
<1>3. ASSUME NEW y \in Refunds, rpc'[y] \in {"netted", "issue"},
             NEW d \in (rdocs'[y] \cap Sound') \ RefundedOf(rdoc[y])'
      PROVE  /\ status'[d] \in {"billed", "netted", "cancelled"}
             /\ docNum'[d] = rdoc'[y]
             /\ holder'[d] = NoRun
    BY <1>1, <1>2, <1>3 DEF Crediting
<1>4. ASSUME NEW y \in Refunds, rpc'[y] \in {"write", "writeCredits"},
             NEW d \in rdocs'[y] \cap Sound', rpc'[y] = "write" \/ d \in Credits
      PROVE  /\ status'[d] \in {"billed", "netted", "cancelled"}
             /\ docNum'[d] = rdoc'[y]
             /\ holder'[d] = NoRun
    BY <1>2, <1>4 DEF Crediting
<1>5. ASSUME NEW y \in Refunds
      PROVE  /\ rpc'[y] \in {"idle", "netted", "issue"} => refunded'[y] = {}
             /\ rpc'[y] \in {"write", "writeCredits"} => refunded'[y] = rdocs'[y]
             /\ rpc'[y] # "idle" => rdoc'[y] \in DocNums
    BY <1>2 DEF Crediting
<1> QED
    BY <1>3, <1>4, <1>5 DEF Crediting

-----------------------------------------------------------------------------
(* One lemma per action: it preserves the inductive invariant.             *)

USE CallsAssumption DEF TypeOK, IInv, Goto, SetStatus, SetDocNum, DropClaims,
    noteVars, runVars, refundVars, cancelVars, Live, RefundLive, Sound, Docs

LEMMA CloseKeeps ==
    ASSUME IInv, TypeOK', NEW r \in Runs, NEW S \in SUBSET Notes, NEW C \in SUBSET Credits,
           CloseCustomerMonth(r, S, C)
    PROVE  IInv'
<1> USE DEF CloseCustomerMonth
<1>0. \A d \in Docs, i \in DocNums : Charged(d, i)' <=> Charged(d, i)
    BY DEF Charged, RefundedOf, Crediting
<1>1. Phases' /\ Fresh' /\ InHand'
    BY DEF Phases, Fresh, InHand, Claimed, Unclaimed, OfKey, KeysLeft
<1>2. Claimed' /\ Unclaimed'
    BY <1>0 DEF Claimed, Unclaimed, InHand, Phases
<1>3. MarkedIsListed' /\ StaleIsDead'
    BY DEF MarkedIsListed, StaleIsDead, InHand, Phases, Fresh, Claimed
<1>4. Crediting' /\ CreditedTwiceIsKnown'
    BY DEF Crediting, CreditedTwiceIsKnown, RefundedOf, Unclaimed, Claimed,
           InHand, Phases, MarkedIsListed
<1> QED
    BY <1>1, <1>2, <1>3, <1>4

LEMMA ImmediateKeeps ==
    ASSUME IInv, TypeOK', NEW r \in Runs, NEW n \in Notes, BillNoteImmediately(r, n)
    PROVE  IInv'
<1> USE DEF BillNoteImmediately
<1>0. \A d \in Docs, i \in DocNums : Charged(d, i)' <=> Charged(d, i)
    BY DEF Charged, RefundedOf, Crediting
<1>1. Phases' /\ InHand'
    BY DEF Phases, Fresh, InHand, Claimed, Unclaimed, OfKey, KeysLeft
<1>2. Fresh'
  <2>1. \A q \in Runs : pc'[q] = pc[q] \/ pc[q] = "idle"
    OBVIOUS
  <2> QED
    BY <2>1 DEF Fresh
<1>3. Claimed' /\ Unclaimed'
    BY <1>0 DEF Claimed, Unclaimed, InHand, Phases
<1>4. MarkedIsListed' /\ StaleIsDead'
    BY DEF MarkedIsListed, StaleIsDead, InHand, Phases, Fresh, Claimed
<1>5. Crediting' /\ CreditedTwiceIsKnown'
    BY DEF Crediting, CreditedTwiceIsKnown, RefundedOf, Unclaimed, Claimed,
           InHand, Phases, MarkedIsListed
<1> QED
    BY <1>1, <1>2, <1>3, <1>4, <1>5

LEMMA ClaimKeeps ==
    ASSUME IInv, TypeOK', NEW r \in Runs, NEW d \in Docs, ClaimNote(r, d) \/ ClaimCredit(r, d)
    PROVE  IInv'
<1> USE DEF ClaimNote, ClaimCredit, Claim
<1>0. \A e \in Docs, i \in DocNums : Charged(e, i)' <=> Charged(e, i)
    BY DEF Charged, RefundedOf, Crediting
<1>1. Phases' /\ Fresh' /\ InHand'
    BY DEF Phases, Fresh, InHand, Claimed, Unclaimed, OfKey, KeysLeft
<1>2. Unclaimed'
    BY <1>0 DEF Claimed, Unclaimed, InHand, Phases
<1>3. Claimed'
  <2> SUFFICES ASSUME NEW e \in Sound, holder'[e] \in Runs
               PROVE  /\ status'[e] \in {"billing", "cancelled"}
                      /\ \A i \in DocNums : Charged(e, i)' =>
                            e \in group'[holder'[e]] /\ i = current'[holder'[e]]
    BY DEF Claimed
  <2>1. CASE e = d /\ status[d] = "open"
    BY <1>0, <2>1, OpenIsUncharged
  <2>2. CASE ~(e = d /\ status[d] = "open")
    BY <1>0, <2>2 DEF Claimed
  <2> QED
    BY <2>1, <2>2
<1>4. MarkedIsListed' /\ StaleIsDead'
    BY DEF MarkedIsListed, StaleIsDead, InHand, Phases, Fresh, Claimed
<1>5. CreditedTwiceIsKnown'
    BY DEF CreditedTwiceIsKnown, RefundedOf, Crediting
<1>6. Crediting'
  <2>1. \A e \in Docs : \/ e = d /\ status[e] = "open"
                        \/ /\ status'[e] = status[e] /\ docNum'[e] = docNum[e]
                           /\ holder'[e] = holder[e]
    OBVIOUS
  <2> QED
    BY <2>1 DEF Crediting, RefundedOf
<1> QED
    BY <1>1, <1>2, <1>3, <1>4, <1>5, <1>6

LEMMA ReadClaimedKeeps ==
    ASSUME IInv, TypeOK', NEW r \in Runs, ReadClaimed(r)
    PROVE  IInv'
<1> USE DEF ReadClaimed
<1>0. \A d \in Docs, i \in DocNums : Charged(d, i)' <=> Charged(d, i)
    BY DEF Charged, RefundedOf, Crediting
<1>1. Phases' /\ InHand'
    BY DEF Phases, Fresh, InHand, Claimed, Unclaimed, OfKey, KeysLeft
<1>2. Fresh'
    BY DocumentsAssumption DEF Fresh, Phases
<1>3. Claimed' /\ Unclaimed'
    BY <1>0 DEF Claimed, Unclaimed, InHand, Phases
<1>4. MarkedIsListed' /\ StaleIsDead'
    BY DEF MarkedIsListed, StaleIsDead, InHand, Phases, Fresh, Claimed
<1>5. Crediting' /\ CreditedTwiceIsKnown'
    BY DEF Crediting, CreditedTwiceIsKnown, RefundedOf, Unclaimed, Claimed,
           InHand, Phases, MarkedIsListed
<1> QED
    BY <1>1, <1>2, <1>3, <1>4, <1>5

LEMMA OpenCreditsKeeps ==
    ASSUME IInv, TypeOK', NEW r \in Runs, OpenCredits(r)
    PROVE  IInv'
<1> USE DEF OpenCredits
<1>0. \A d \in Docs, i \in DocNums : Charged(d, i)' <=> Charged(d, i)
    BY DEF Charged, RefundedOf, Crediting
<1>1. Phases' /\ Fresh' /\ InHand'
    BY DEF Phases, Fresh, InHand, Claimed, Unclaimed, OfKey, KeysLeft
<1>2. Claimed' /\ Unclaimed'
    BY <1>0 DEF Claimed, Unclaimed, InHand, Phases
<1>3. MarkedIsListed' /\ StaleIsDead'
    BY DEF MarkedIsListed, StaleIsDead, InHand, Phases, Fresh, Claimed
<1>4. Crediting' /\ CreditedTwiceIsKnown'
    BY DEF Crediting, CreditedTwiceIsKnown, RefundedOf, Unclaimed, Claimed,
           InHand, Phases, MarkedIsListed
<1> QED
    BY <1>1, <1>2, <1>3, <1>4

LEMMA ReadCreditsKeeps ==
    ASSUME IInv, TypeOK', NEW r \in Runs, ReadCredits(r)
    PROVE  IInv'
<1> USE DEF ReadCredits
<1>0. \A d \in Docs, i \in DocNums : Charged(d, i)' <=> Charged(d, i)
    BY DEF Charged, RefundedOf, Crediting
<1>1. Phases' /\ InHand'
    BY DEF Phases, Fresh, InHand, Claimed, Unclaimed, OfKey, KeysLeft
<1>2. Fresh'
    BY DocumentsAssumption DEF Fresh, Phases
<1>3. Claimed' /\ Unclaimed'
    BY <1>0 DEF Claimed, Unclaimed, InHand, Phases
<1>4. MarkedIsListed' /\ StaleIsDead'
    BY DEF MarkedIsListed, StaleIsDead, InHand, Phases, Fresh, Claimed
<1>5. Crediting' /\ CreditedTwiceIsKnown'
    BY DEF Crediting, CreditedTwiceIsKnown, RefundedOf, Unclaimed, Claimed,
           InHand, Phases, MarkedIsListed
<1> QED
    BY <1>1, <1>2, <1>3, <1>4, <1>5

LEMMA SetAsideKeeps ==
    ASSUME IInv, TypeOK', NEW r \in Runs, SetAside(r)
    PROVE  IInv'
<1> DEFINE left == LeftOut(mine[r])
<1>a. left \in SUBSET (mine[r] \cap Credits)
    BY LeftOutIsCredits DEF IInv, TypeOK
<1>b. /\ pc[r] = "setAside"
      /\ SetStatus(left, "open")
      /\ DropClaims(left)
      /\ mine' = [mine EXCEPT ![r] = @ \ left]
      /\ Goto(r, "bill")
      /\ UNCHANGED <<docNum, wanted, todo, group, current, invoice, refundVars,
                     cancelVars, incident>>
    BY DEF SetAside
<1> HIDE DEF left
<1> USE <1>a, <1>b
<1>c. \A d \in left \cap Sound : holder[d] = r /\ d \notin group[r]
    BY DEF InHand, Phases
<1>0. \A d \in Docs, i \in DocNums : Charged(d, i)' <=> Charged(d, i)
    BY DEF Charged, RefundedOf, Crediting
<1>1. Phases' /\ Fresh'
    BY DEF Phases, Fresh, InHand, Claimed, Unclaimed, OfKey, KeysLeft
<1>2. InHand'
  <2>1. \A q \in Runs, d \in Sound :
            d \in mine'[q] \cup group'[q] => d \in (mine[q] \cup group[q]) \ left
    BY <1>c DEF InHand, Phases
  <2> QED
    BY <2>1 DEF InHand
<1>3. Claimed'
    BY <1>0 DEF Unclaimed, Claimed, InHand, Phases
<1>4. Unclaimed'
  <2> SUFFICES ASSUME NEW d \in Sound, holder'[d] = NoRun
               PROVE  /\ status'[d] # "billing"
                      /\ \A i \in DocNums : Charged(d, i)' =>
                            /\ status'[d] \in {"billed", "netted", "cancelled"}
                            /\ docNum'[d] = i
    BY DEF Unclaimed
  <2>1. CASE d \in left
    BY <1>0, <1>c, <2>1, HeldIsUncharged
  <2>2. CASE d \notin left
    BY <1>0, <2>2 DEF Unclaimed
  <2> QED
    BY <2>1, <2>2
<1>5. MarkedIsListed' /\ StaleIsDead'
    BY DEF MarkedIsListed, StaleIsDead, InHand, Phases, Fresh, Claimed
<1>6. CreditedTwiceIsKnown'
    BY DEF CreditedTwiceIsKnown, RefundedOf, Crediting
<1>7. Crediting'
  <2>1. \A d \in Sound : holder[d] = NoRun =>
            status'[d] = status[d] /\ docNum'[d] = docNum[d] /\ holder'[d] = NoRun
    BY <1>c
  <2> QED
    BY <2>1, CreditingFrame
<1> QED
    BY <1>1, <1>2, <1>3, <1>4, <1>5, <1>6, <1>7

LEMMA IssueKeeps ==
    ASSUME IInv, TypeOK', NEW r \in Runs, NEW k \in Keys, Issue(r, k)
    PROVE  IInv'
<1> DEFINE billed == InvoiceFor(mine[r], k)
<1>a. /\ billed \subseteq mine[r]
      /\ \A n \in mine[r] \cap Notes : Key[n] = k => n \in billed
      /\ <<r, k>> \in DocNums
    BY InvoiceForIsDocs DEF IInv, TypeOK, OfKey, DocNums
<1>b. /\ pc[r] = "bill"
      /\ \E n \in mine[r] \cap Notes : Key[n] = k
      /\ invoice' = [invoice EXCEPT ![<<r, k>>] = billed]
      /\ mine' = [mine EXCEPT ![r] = @ \ billed]
      /\ group' = [group EXCEPT ![r] = billed]
      /\ current' = [current EXCEPT ![r] = <<r, k>>]
      /\ Goto(r, "mark")
      /\ UNCHANGED <<noteVars, wanted, todo, refundVars, cancelVars, incident>>
    BY DEF Issue, KeysLeft
<1> HIDE DEF billed
<1> USE <1>a, <1>b, DocumentsAssumption
(* The number is new, and what goes under it was charged by nothing.       *)
<1>c. invoice[<<r, k>>] = {} /\ group[r] = {}
  <2>1. PICK n \in mine[r] \cap Notes : Key[n] = k
    OBVIOUS
  <2>2. invoice[<<r, Key[n]>>] = {}
    BY <2>1 DEF Fresh
  <2>3. group[r] = {}
    BY DEF Phases
  <2> QED
    BY <2>1, <2>2, <2>3
<1>d. ASSUME NEW d \in billed \cap Sound
      PROVE  holder[d] = r /\ \A i \in DocNums : ~Charged(d, i)
  <2>1. holder[d] = r
    BY DEF InHand
  <2> QED
    BY <1>c, <2>1, HeldIsUncharged
<1>e. \A i \in DocNums : i # <<r, k>> => invoice'[i] = invoice[i]
    OBVIOUS
<1>0. \A d \in Docs, i \in DocNums : Charged(d, i)' =>
        Charged(d, i) \/ (i = <<r, k>> /\ d \in billed)
    BY DEF Charged, RefundedOf
<1>1. Phases'
    BY DEF Phases, InHand, Claimed
<1>2. Fresh'
  <2>1. ASSUME NEW q \in Runs, NEW n \in mine'[q] \cap Notes
        PROVE  invoice'[<<q, Key[n]>>] = {}
    <3>1. n \in mine[q] /\ Key[n] \in Keys /\ (q = r => Key[n] # k)
        OBVIOUS
    <3>2. invoice[<<q, Key[n]>>] = {} /\ <<q, Key[n]>> # <<r, k>>
        BY <3>1 DEF Fresh
    <3>3. <<q, Key[n]>> \in DocNums
        BY <3>1 DEF DocNums
    <3> QED
        BY <1>e, <3>2, <3>3
  <2>2. \A q \in Runs : q # r => \A j \in Keys : invoice'[<<q, j>>] = invoice[<<q, j>>]
    BY DEF DocNums
  <2>3. pc'[r] = "mark" /\ \A q \in Runs : q # r => pc'[q] = pc[q]
    OBVIOUS
  <2> QED
    BY <2>1, <2>2, <2>3 DEF Fresh
<1>3. InHand'
  <2>1. \A q \in Runs : mine'[q] \cup group'[q] = mine[q] \cup group[q]
    BY <1>c
  <2>2. ASSUME NEW q \in Runs, NEW d \in group'[q]
        PROVE  current'[q] \in DocNums /\ d \in invoice'[current'[q]]
    <3>1. CASE q = r /\ group'[r] = billed /\ current'[r] = <<r, k>>
        BY <2>2, <3>1
    <3>2. CASE group'[q] = group[q] /\ current'[q] = current[q]
      <4>1. current[q] \in DocNums /\ d \in invoice[current[q]]
        BY <2>2, <3>2 DEF InHand
      <4> QED
        BY <1>c, <1>e, <3>2, <4>1
    <3> QED
        BY <3>1, <3>2
  <2> QED
    BY <2>1, <2>2 DEF InHand
<1>4. Claimed'
  <2> SUFFICES ASSUME NEW d \in Sound, holder[d] \in Runs
               PROVE  /\ status[d] \in {"billing", "cancelled"}
                      /\ \A i \in DocNums : Charged(d, i)' =>
                            d \in group'[holder[d]] /\ i = current'[holder[d]]
    BY DEF Claimed
  <2>1. CASE d \in billed
    BY <1>0, <1>d, <2>1 DEF Claimed
  <2>2. CASE d \notin billed
    BY <1>0, <1>c, <2>2 DEF Claimed
  <2> QED
    BY <2>1, <2>2
<1>5. Unclaimed'
  <2>1. \A d \in Sound : holder[d] = NoRun => d \notin billed
    BY <1>d
  <2> QED
    BY <1>0, <2>1 DEF Unclaimed
<1>6. StaleIsDead'
    BY DEF StaleIsDead, Phases
<1>7. MarkedIsListed'
    BY <1>c DEF MarkedIsListed
<1>8. Crediting' /\ CreditedTwiceIsKnown'
    BY DEF Crediting, CreditedTwiceIsKnown, RefundedOf, Unclaimed, Claimed,
           InHand, Phases, MarkedIsListed
<1> QED
    BY <1>1, <1>2, <1>3, <1>4, <1>5, <1>6, <1>7, <1>8

LEMMA IssueLostKeeps ==
    ASSUME IInv, TypeOK', NEW r \in Runs, NEW k \in Keys, IssueLost(r, k)
    PROVE  IInv'
<1> DEFINE billed == InvoiceFor(mine[r], k)
<1>a. /\ billed \subseteq mine[r]
      /\ \A n \in mine[r] \cap Notes : Key[n] = k => n \in billed
      /\ <<r, k>> \in DocNums
    BY InvoiceForIsDocs DEF IInv, TypeOK, OfKey, DocNums
<1>b. /\ pc[r] = "bill"
      /\ \E n \in mine[r] \cap Notes : Key[n] = k
      /\ invoice' = [invoice EXCEPT ![<<r, k>>] = billed]
      /\ mine' = [mine EXCEPT ![r] = @ \ billed]
      /\ incident' = incident \cup billed
      /\ Goto(r, "release")
      /\ UNCHANGED <<noteVars, wanted, todo, group, current, refundVars,
                     cancelVars>>
    BY DEF IssueLost, KeysLeft
<1> HIDE DEF billed
<1> USE <1>a, <1>b, DocumentsAssumption
(* The number is new, and what goes under it was charged by nothing.       *)
<1>c. invoice[<<r, k>>] = {} /\ group[r] = {}
  <2>1. PICK n \in mine[r] \cap Notes : Key[n] = k
    OBVIOUS
  <2>2. invoice[<<r, Key[n]>>] = {}
    BY <2>1 DEF Fresh
  <2>3. group[r] = {}
    BY DEF Phases
  <2> QED
    BY <2>1, <2>2, <2>3
<1>d. ASSUME NEW d \in billed \cap Sound
      PROVE  holder[d] = r /\ \A i \in DocNums : ~Charged(d, i)
  <2>1. holder[d] = r
    BY DEF InHand
  <2> QED
    BY <1>c, <2>1, HeldIsUncharged
<1>e. \A i \in DocNums : i # <<r, k>> => invoice'[i] = invoice[i]
    OBVIOUS
<1>0. \A d \in Docs, i \in DocNums : Charged(d, i)' =>
        Charged(d, i) \/ (i = <<r, k>> /\ d \in billed)
    BY DEF Charged, RefundedOf
<1>1. Phases'
    BY DEF Phases, InHand, Claimed
<1>2. Fresh'
  <2>1. ASSUME NEW q \in Runs, NEW n \in mine'[q] \cap Notes
        PROVE  invoice'[<<q, Key[n]>>] = {}
    <3>1. n \in mine[q] /\ Key[n] \in Keys /\ (q = r => Key[n] # k)
        OBVIOUS
    <3>2. invoice[<<q, Key[n]>>] = {} /\ <<q, Key[n]>> # <<r, k>>
        BY <3>1 DEF Fresh
    <3>3. <<q, Key[n]>> \in DocNums
        BY <3>1 DEF DocNums
    <3> QED
        BY <1>e, <3>2, <3>3
  <2>2. \A q \in Runs : q # r => \A j \in Keys : invoice'[<<q, j>>] = invoice[<<q, j>>]
    BY DEF DocNums
  <2>3. pc'[r] = "release" /\ \A q \in Runs : q # r => pc'[q] = pc[q]
    OBVIOUS
  <2> QED
    BY <2>1, <2>2, <2>3 DEF Fresh
<1>3. InHand'
  <2>1. \A q \in Runs : mine'[q] \cup group'[q] \subseteq mine[q] \cup group[q]
    OBVIOUS
  <2>2. ASSUME NEW q \in Runs, NEW d \in group'[q]
        PROVE  current'[q] \in DocNums /\ d \in invoice'[current'[q]]
    <3>1. CASE q = r /\ group'[r] = billed /\ current'[r] = <<r, k>>
        BY <2>2, <3>1
    <3>2. CASE group'[q] = group[q] /\ current'[q] = current[q]
      <4>1. current[q] \in DocNums /\ d \in invoice[current[q]]
        BY <2>2, <3>2 DEF InHand
      <4> QED
        BY <1>c, <1>e, <3>2, <4>1
    <3> QED
        BY <3>1, <3>2
  <2> QED
    BY <2>1, <2>2 DEF InHand
<1>4. Claimed'
  <2>1. \A d \in Sound', i \in DocNums : Charged(d, i)' => Charged(d, i)
    BY <1>0
  <2> QED
    BY <2>1 DEF Claimed
<1>5. Unclaimed'
  <2>1. \A d \in Sound', i \in DocNums : Charged(d, i)' => Charged(d, i)
    BY <1>0
  <2> QED
    BY <2>1 DEF Unclaimed
<1>6. StaleIsDead'
    BY DEF StaleIsDead, Phases
<1>7. MarkedIsListed'
    BY <1>c DEF MarkedIsListed
<1>8. Crediting' /\ CreditedTwiceIsKnown'
    BY DEF Crediting, CreditedTwiceIsKnown, RefundedOf, Unclaimed, Claimed,
           InHand, Phases, MarkedIsListed
<1> QED
    BY <1>1, <1>2, <1>3, <1>4, <1>5, <1>6, <1>7, <1>8

LEMMA IssueRejectedKeeps ==
    ASSUME IInv, TypeOK', NEW r \in Runs, IssueRejected(r)
    PROVE  IInv'
<1> USE DEF IssueRejected
<1>0. \A d \in Docs, i \in DocNums : Charged(d, i)' <=> Charged(d, i)
    BY DEF Charged, RefundedOf, Crediting
<1>1. Phases' /\ Fresh' /\ InHand'
    BY DEF Phases, Fresh, InHand, Claimed, Unclaimed, OfKey, KeysLeft
<1>2. Claimed' /\ Unclaimed'
    BY <1>0 DEF Claimed, Unclaimed, InHand, Phases
<1>3. MarkedIsListed' /\ StaleIsDead'
    BY DEF MarkedIsListed, StaleIsDead, InHand, Phases, Fresh, Claimed
<1>4. Crediting' /\ CreditedTwiceIsKnown'
    BY DEF Crediting, CreditedTwiceIsKnown, RefundedOf, Unclaimed, Claimed,
           InHand, Phases, MarkedIsListed
<1> QED
    BY <1>1, <1>2, <1>3, <1>4

LEMMA MarkNotesKeeps ==
    ASSUME IInv, TypeOK', NEW r \in Runs, MarkNotes(r)
    PROVE  IInv'
<1> USE DEF MarkNotes
<1>0. \A d \in Docs, i \in DocNums : Charged(d, i)' <=> Charged(d, i)
    BY DEF Charged, RefundedOf, Crediting
<1>1. Phases' /\ Fresh' /\ InHand'
    BY DEF Phases, Fresh, InHand, Claimed, Unclaimed, OfKey, KeysLeft
<1>2. Claimed' /\ Unclaimed'
    BY <1>0 DEF Claimed, Unclaimed, InHand, Phases
<1>3. MarkedIsListed' /\ StaleIsDead'
    BY DEF MarkedIsListed, StaleIsDead, InHand, Phases, Fresh, Claimed
<1>4. Crediting' /\ CreditedTwiceIsKnown'
    BY DEF Crediting, CreditedTwiceIsKnown, RefundedOf, Unclaimed, Claimed,
           InHand, Phases, MarkedIsListed
<1> QED
    BY <1>1, <1>2, <1>3, <1>4

LEMMA MarkCreditsKeeps ==
    ASSUME IInv, TypeOK', NEW r \in Runs, MarkCredits(r)
    PROVE  IInv'
<1> USE DEF MarkCredits
<1>0. \A d \in Docs, i \in DocNums : Charged(d, i)' <=> Charged(d, i)
    BY DEF Charged, RefundedOf, Crediting
<1>1. Phases' /\ Fresh' /\ InHand'
    BY DEF Phases, Fresh, InHand, Claimed, Unclaimed, OfKey, KeysLeft
<1>2. Claimed' /\ Unclaimed'
    BY <1>0 DEF Claimed, Unclaimed, InHand, Phases
<1>3. MarkedIsListed' /\ StaleIsDead'
    BY DEF MarkedIsListed, StaleIsDead, InHand, Phases, Fresh, Claimed
<1>4. Crediting' /\ CreditedTwiceIsKnown'
    BY DEF Crediting, CreditedTwiceIsKnown, RefundedOf, Unclaimed, Claimed,
           InHand, Phases, MarkedIsListed
<1> QED
    BY <1>1, <1>2, <1>3, <1>4

LEMMA MarkFailsKeeps ==
    ASSUME IInv, TypeOK', NEW r \in Runs, NEW written \in SUBSET Docs, MarkFails(r, written)
    PROVE  IInv'
<1> USE DEF MarkFails
<1>0. \A d \in Docs, i \in DocNums : Charged(d, i)' <=> Charged(d, i)
    BY DEF Charged, RefundedOf, Crediting
<1>1. Phases' /\ Fresh' /\ InHand'
    BY DEF Phases, Fresh, InHand, Claimed, Unclaimed, OfKey, KeysLeft
<1>2. Claimed' /\ Unclaimed'
    BY <1>0 DEF Claimed, Unclaimed, InHand, Phases
<1>3. MarkedIsListed' /\ StaleIsDead'
    BY DEF MarkedIsListed, StaleIsDead, InHand, Phases, Fresh, Claimed
<1>4. Crediting' /\ CreditedTwiceIsKnown'
    BY DEF Crediting, CreditedTwiceIsKnown, RefundedOf, Unclaimed, Claimed,
           InHand, Phases, MarkedIsListed
<1> QED
    BY <1>1, <1>2, <1>3, <1>4

LEMMA ReleaseKeeps ==
    ASSUME IInv, TypeOK', NEW r \in Runs, Release(r)
    PROVE  IInv'
<1> USE DEF Release
<1>0. \A d \in Docs, i \in DocNums : Charged(d, i)' <=> Charged(d, i)
    BY DEF Charged, RefundedOf, Crediting
<1>1. Phases' /\ Fresh'
    BY DEF Phases, Fresh, InHand, Claimed, Unclaimed, OfKey, KeysLeft
<1>2. InHand'
  <2>1. group[r] = {}
    BY DEF Phases
  <2>2. \A q \in Runs, d \in Docs :
            d \in (mine'[q] \cup group'[q]) => q # r /\ d \in mine[q] \cup group[q]
    BY <2>1
  <2> QED
    BY <2>2 DEF InHand
<1>3. Claimed'
    BY <1>0 DEF Unclaimed, Claimed, InHand, Phases
<1>4. Unclaimed'
  <2> SUFFICES ASSUME NEW d \in Sound, holder'[d] = NoRun
               PROVE  /\ status'[d] # "billing"
                      /\ \A i \in DocNums : Charged(d, i)' =>
                            /\ status'[d] \in {"billed", "netted", "cancelled"}
                            /\ docNum'[d] = i
    BY DEF Unclaimed
  <2>1. CASE holder[d] = r /\ status[d] = "billing"
    <3>1. d \notin group[r]
        BY DEF Phases
    <3>2. \A i \in DocNums : ~Charged(d, i)
        BY <2>1, <3>1, HeldIsUncharged
    <3>3. status'[d] = "open"
        BY <2>1
    <3> QED
        BY <1>0, <3>2, <3>3
  <2>2. CASE ~(holder[d] = r /\ status[d] = "billing")
    BY <1>0, <2>2 DEF Unclaimed
  <2> QED
    BY <2>1, <2>2
<1>5. MarkedIsListed' /\ StaleIsDead'
    BY DEF MarkedIsListed, StaleIsDead, InHand, Phases, Fresh, Claimed
<1>6. Crediting' /\ CreditedTwiceIsKnown'
    BY DEF Crediting, CreditedTwiceIsKnown, RefundedOf, Unclaimed, Claimed,
           InHand, Phases, MarkedIsListed
<1> QED
    BY <1>1, <1>2, <1>3, <1>4, <1>5, <1>6

LEMMA ReopenFailsKeeps ==
    ASSUME IInv, TypeOK', NEW r \in Runs, NEW freed \in SUBSET Docs,
           ReopenFails(r, freed)
    PROVE  IInv'
<1>b. /\ pc[r] \in {"setAside", "release"}
      /\ SetStatus(freed, "open")
      /\ DropClaims(freed)
      /\ mine' = [mine EXCEPT ![r] = {}]
      /\ Goto(r, "dead")
      /\ UNCHANGED <<docNum, wanted, todo, group, current, invoice, refundVars,
                     cancelVars, incident>>
    BY DEF ReopenFails
<1>c. \A d \in freed \cap Sound : holder[d] = r /\ d \notin group[r]
  <2>1. \A d \in freed \cap Sound : holder[d] = r
    <3>1. CASE freed \subseteq LeftOut(mine[r])
        BY <3>1, LeftOutIsCredits DEF IInv, TypeOK, InHand
    <3>2. CASE \A d \in freed : holder[d] = r
        BY <3>2
    <3> QED
        BY <3>1, <3>2 DEF ReopenFails
  <2> QED
    BY <1>b, <2>1 DEF IInv, Phases
<1> USE <1>b
<1>0. \A d \in Docs, i \in DocNums : Charged(d, i)' <=> Charged(d, i)
    BY DEF Charged, RefundedOf, Crediting
<1>1. Phases' /\ Fresh'
    BY DEF Phases, Fresh, InHand, Claimed, Unclaimed, OfKey, KeysLeft
<1>2. InHand'
  <2>1. group[r] = {}
    BY DEF Phases
  <2>2. \A q \in Runs, d \in Docs :
            d \in (mine'[q] \cup group'[q]) => q # r /\ d \in mine[q] \cup group[q]
    BY <2>1
  <2> QED
    BY <1>c, <2>2 DEF InHand
<1>3. Claimed'
    BY <1>0 DEF Unclaimed, Claimed, InHand, Phases
<1>4. Unclaimed'
  <2> SUFFICES ASSUME NEW d \in Sound, holder'[d] = NoRun
               PROVE  /\ status'[d] # "billing"
                      /\ \A i \in DocNums : Charged(d, i)' =>
                            /\ status'[d] \in {"billed", "netted", "cancelled"}
                            /\ docNum'[d] = i
    BY DEF Unclaimed
  <2>1. CASE d \in freed
    <3>1. holder[d] = r /\ d \notin group[r]
        BY <1>c, <2>1
    <3>2. \A i \in DocNums : ~Charged(d, i)
        BY <3>1, HeldIsUncharged
    <3>3. status'[d] = "open"
        BY <2>1
    <3> QED
        BY <1>0, <3>2, <3>3
  <2>2. CASE d \notin freed
    BY <1>0, <2>2 DEF Unclaimed
  <2> QED
    BY <2>1, <2>2
<1>5. MarkedIsListed' /\ StaleIsDead'
    BY DEF MarkedIsListed, StaleIsDead, InHand, Phases, Fresh, Claimed
<1>6. CreditedTwiceIsKnown'
    BY DEF CreditedTwiceIsKnown, RefundedOf, Crediting
<1>7. Crediting'
  <2>1. \A d \in Sound : holder[d] = NoRun =>
            status'[d] = status[d] /\ docNum'[d] = docNum[d] /\ holder'[d] = NoRun
    BY <1>c
  <2> QED
    BY <2>1, CreditingFrame
<1> QED
    BY <1>1, <1>2, <1>3, <1>4, <1>5, <1>6, <1>7

LEMMA FinishKeeps ==
    ASSUME IInv, TypeOK', NEW r \in Runs, Finish(r)
    PROVE  IInv'
<1> USE DEF Finish
<1>0. \A d \in Docs, i \in DocNums : Charged(d, i)' <=> Charged(d, i)
    BY DEF Charged, RefundedOf, Crediting
<1>1. Phases' /\ Fresh' /\ InHand'
    BY DEF Phases, Fresh, InHand, Claimed, Unclaimed, OfKey, KeysLeft
<1>2. Claimed' /\ Unclaimed'
    BY <1>0 DEF Claimed, Unclaimed, InHand, Phases
<1>3. MarkedIsListed' /\ StaleIsDead'
    BY DEF MarkedIsListed, StaleIsDead, InHand, Phases, Fresh, Claimed
<1>4. Crediting' /\ CreditedTwiceIsKnown'
    BY DEF Crediting, CreditedTwiceIsKnown, RefundedOf, Unclaimed, Claimed,
           InHand, Phases, MarkedIsListed
<1> QED
    BY <1>1, <1>2, <1>3, <1>4

LEMMA AbortKeeps ==
    ASSUME IInv, TypeOK', NEW r \in Runs, Abort(r)
    PROVE  IInv'
<1> USE DEF Abort
<1>0. \A d \in Docs, i \in DocNums : Charged(d, i)' <=> Charged(d, i)
    BY DEF Charged, RefundedOf, Crediting
<1>1. Phases' /\ Fresh' /\ InHand'
    BY DEF Phases, Fresh, InHand, Claimed, Unclaimed, OfKey, KeysLeft
<1>2. Claimed' /\ Unclaimed'
    BY <1>0 DEF Claimed, Unclaimed, InHand, Phases
<1>3. MarkedIsListed' /\ StaleIsDead'
    BY DEF MarkedIsListed, StaleIsDead, InHand, Phases, Fresh, Claimed
<1>4. Crediting' /\ CreditedTwiceIsKnown'
    BY DEF Crediting, CreditedTwiceIsKnown, RefundedOf, Unclaimed, Claimed,
           InHand, Phases, MarkedIsListed
<1> QED
    BY <1>1, <1>2, <1>3, <1>4

LEMMA RefundReadKeeps ==
    ASSUME IInv, TypeOK', NEW x \in Refunds, NEW i \in DocNums, RefundRead(x, i)
    PROVE  IInv'
<1> USE DEF RefundRead
<1>0. \A d \in Docs, j \in DocNums : Charged(d, j)' <=> Charged(d, j)
    BY DEF Charged, RefundedOf, Crediting
<1>1. Phases' /\ Fresh' /\ InHand'
    BY DEF Phases, Fresh, InHand, Claimed, Unclaimed, OfKey, KeysLeft
<1>2. Claimed' /\ Unclaimed'
    BY <1>0 DEF Claimed, Unclaimed, InHand, Phases
<1>3. MarkedIsListed' /\ StaleIsDead'
    BY DEF MarkedIsListed, StaleIsDead, InHand, Phases, Fresh, Claimed
<1>4. Crediting' /\ CreditedTwiceIsKnown'
    BY DEF Crediting, CreditedTwiceIsKnown, RefundedOf, Unclaimed, Claimed,
           InHand, Phases, MarkedIsListed
<1> QED
    BY <1>1, <1>2, <1>3, <1>4

LEMMA RefundReadNettedKeeps ==
    ASSUME IInv, TypeOK', NEW x \in Refunds, RefundReadNetted(x)
    PROVE  IInv'
<1> USE DEF RefundReadNetted
<1>0. \A d \in Docs, i \in DocNums : Charged(d, i)' <=> Charged(d, i)
    BY DEF Charged, RefundedOf, Crediting
<1>1. Phases' /\ Fresh' /\ InHand'
    BY DEF Phases, Fresh, InHand, Claimed, Unclaimed, OfKey, KeysLeft
<1>2. Claimed' /\ Unclaimed'
    BY <1>0 DEF Claimed, Unclaimed, InHand, Phases
<1>3. MarkedIsListed' /\ StaleIsDead'
    BY DEF MarkedIsListed, StaleIsDead, InHand, Phases, Fresh, Claimed
<1>4. Crediting' /\ CreditedTwiceIsKnown'
    BY DEF Crediting, CreditedTwiceIsKnown, RefundedOf, Unclaimed, Claimed,
           InHand, Phases, MarkedIsListed
<1> QED
    BY <1>1, <1>2, <1>3, <1>4

LEMMA RefundIssueKeeps ==
    ASSUME IInv, TypeOK', NEW x \in Refunds, RefundIssue(x) \/ RefundLost(x)
    PROVE  IInv'
<1> USE DEF RefundIssue, RefundLost, OpenCredit
<1>0. \A d \in Docs, i \in DocNums : Charged(d, i)' => Charged(d, i)
    BY DEF Charged, RefundedOf, Crediting
<1>1. Phases' /\ Fresh' /\ InHand'
    BY DEF Phases, Fresh, InHand, Claimed, Unclaimed, OfKey, KeysLeft
<1>2. Claimed' /\ Unclaimed'
    BY <1>0 DEF Claimed, Unclaimed, InHand, Phases
<1>3. MarkedIsListed' /\ StaleIsDead'
    BY DEF MarkedIsListed, StaleIsDead, InHand, Phases, Fresh, Claimed
<1>4. CreditedTwiceIsKnown'
    BY DEF CreditedTwiceIsKnown, RefundedOf, Crediting
<1>5. Crediting'
  <2>0. \A z \in Refunds : rdoc'[z] = rdoc[z] /\ refunded[z] \subseteq refunded'[z]
    BY DEF Crediting
  <2>1. \A y \in Refunds : RefundedOf(rdoc[y]) \subseteq RefundedOf(rdoc[y])'
    BY ONLY <2>0 DEF RefundedOf
  <2> SUFFICES ASSUME NEW y \in Refunds
               PROVE  /\ rpc'[y] \in {"idle", "netted", "issue"} => refunded'[y] = {}
                      /\ rpc'[y] \in {"write", "writeCredits"} =>
                            refunded'[y] = rdocs'[y]
                      /\ rpc'[y] # "idle" => rdoc'[y] \in DocNums
                      /\ rpc'[y] \in {"netted", "issue"} =>
                            \A d \in (rdocs'[y] \cap Sound') \ RefundedOf(rdoc[y])' :
                                /\ status'[d] \in {"billed", "netted", "cancelled"}
                                /\ docNum'[d] = rdoc'[y]
                                /\ holder'[d] = NoRun
                      /\ rpc'[y] \in {"write", "writeCredits"} =>
                            \A d \in rdocs'[y] \cap Sound' :
                                rpc'[y] = "write" \/ d \in Credits =>
                                    /\ status'[d] \in {"billed", "netted", "cancelled"}
                                    /\ docNum'[d] = rdoc'[y]
                                    /\ holder'[d] = NoRun
    BY DEF Crediting
  <2>2. CASE y = x
    <3>1. \A d \in rdocs[x] \cap Sound' : d \in Sound \ RefundedOf(rdoc[x])
        OBVIOUS
    <3> QED
        BY <2>2, <3>1 DEF Crediting
  <2>3. CASE y # x
    BY <2>1, <2>3 DEF Crediting
  <2> QED
    BY <2>2, <2>3
<1> QED
    BY <1>1, <1>2, <1>3, <1>4, <1>5

LEMMA RefundRejectedKeeps ==
    ASSUME IInv, TypeOK', NEW x \in Refunds, RefundRejected(x)
    PROVE  IInv'
<1> USE DEF RefundRejected
<1>0. \A d \in Docs, i \in DocNums : Charged(d, i)' <=> Charged(d, i)
    BY DEF Charged, RefundedOf, Crediting
<1>1. Phases' /\ Fresh' /\ InHand'
    BY DEF Phases, Fresh, InHand, Claimed, Unclaimed, OfKey, KeysLeft
<1>2. Claimed' /\ Unclaimed'
    BY <1>0 DEF Claimed, Unclaimed, InHand, Phases
<1>3. MarkedIsListed' /\ StaleIsDead'
    BY DEF MarkedIsListed, StaleIsDead, InHand, Phases, Fresh, Claimed
<1>4. Crediting' /\ CreditedTwiceIsKnown'
    BY DEF Crediting, CreditedTwiceIsKnown, RefundedOf, Unclaimed, Claimed,
           InHand, Phases, MarkedIsListed
<1> QED
    BY <1>1, <1>2, <1>3, <1>4

LEMMA RefundWriteKeeps ==
    ASSUME IInv, TypeOK', NEW x \in Refunds, NEW reopen \in BOOLEAN, RefundWrite(x, reopen)
    PROVE  IInv'
<1> USE DEF RefundWrite, WriteNotes
<1>0. \A d \in Docs, i \in DocNums : Charged(d, i)' <=> Charged(d, i)
    BY DEF Charged, RefundedOf, Crediting
<1>1. Phases' /\ Fresh' /\ InHand'
    BY DEF Phases, Fresh, InHand, Claimed, Unclaimed, OfKey, KeysLeft
<1>2. Claimed'
  <2>1. \A d \in Sound : holder[d] \in Runs => d \notin rdocs[x] \cap Notes
    BY DEF Crediting
  <2>2. \A d \in Docs : d \notin rdocs[x] \cap Notes => status'[d] = status[d]
    OBVIOUS
  <2> QED
    BY <1>0, <2>1, <2>2 DEF Claimed
<1>3. Unclaimed'
  <2> SUFFICES ASSUME NEW d \in Sound, holder'[d] = NoRun
               PROVE  /\ status'[d] # "billing"
                      /\ \A i \in DocNums : Charged(d, i)' =>
                            /\ status'[d] \in {"billed", "netted", "cancelled"}
                            /\ docNum'[d] = i
    BY DEF Unclaimed
  <2>1. CASE d \in rdocs[x] \cap Notes
    <3>1. \A i \in DocNums : ~Charged(d, i)
        BY <2>1, CreditedIsUncharged
    <3>2. status'[d] \in {"open", "cancelled"}
        BY <2>1
    <3> QED
        BY <1>0, <3>1, <3>2
  <2>2. CASE d \notin rdocs[x] \cap Notes
    <3>1. status'[d] = status[d] /\ docNum'[d] = docNum[d]
        BY <2>2
    <3> QED
        BY <1>0, <3>1 DEF Unclaimed
  <2> QED
    BY <2>1, <2>2
<1>4. StaleIsDead'
    BY DEF StaleIsDead, Phases
<1>5. MarkedIsListed'
  <2>1. ASSUME NEW d \in Sound, status'[d] \in {"billed", "netted"}
        PROVE  status'[d] = status[d] /\ docNum'[d] = docNum[d]
    BY <2>1
  <2> QED
    BY <2>1 DEF MarkedIsListed
<1>6. CreditedTwiceIsKnown'
    BY DEF CreditedTwiceIsKnown, RefundedOf, Crediting
<1>7. Crediting'
  <2>1. \A d \in rdocs[x] \cap Sound : docNum[d] = rdoc[x] /\ d \in refunded[x]
    BY DEF Crediting
  <2>2. \A d \in Docs : d \notin rdocs[x] \cap Notes =>
            status'[d] = status[d] /\ docNum'[d] = docNum[d]
    OBVIOUS
  <2>3. ASSUME NEW y \in Refunds, rpc'[y] \in {"netted", "issue"},
               NEW d \in (rdocs[y] \cap Sound) \ RefundedOf(rdoc[y])
        PROVE  d \notin rdocs[x]
    BY <2>1, <2>3 DEF Crediting, RefundedOf
  <2>4. ASSUME NEW y \in Refunds, y # x, rpc'[y] \in {"write", "writeCredits"},
               NEW d \in rdocs[y] \cap Sound, rpc'[y] = "write" \/ d \in Credits
        PROVE  d \notin rdocs[x]
    BY <2>1, <2>4 DEF Crediting, CreditedTwiceIsKnown
  <2>5. \A y \in Refunds : RefundedOf(rdoc[y])' = RefundedOf(rdoc[y])
    BY DEF RefundedOf
  <2>6. ASSUME NEW y \in Refunds, rpc'[y] \in {"netted", "issue"},
               NEW d \in (rdocs'[y] \cap Sound') \ RefundedOf(rdoc[y])'
        PROVE  /\ status'[d] \in {"billed", "netted", "cancelled"}
               /\ docNum'[d] = rdoc'[y]
               /\ holder'[d] = NoRun
    <3>1. rpc[y] \in {"netted", "issue"}
        BY <2>6
    <3>2. d \in (rdocs[y] \cap Sound) \ RefundedOf(rdoc[y]) /\ d \in Docs
        BY <2>5, <2>6
    <3> QED
        BY <2>2, <2>3, <2>6, <3>1, <3>2 DEF Crediting
  <2>7. ASSUME NEW y \in Refunds, rpc'[y] \in {"write", "writeCredits"},
               NEW d \in rdocs'[y] \cap Sound', rpc'[y] = "write" \/ d \in Credits
        PROVE  /\ status'[d] \in {"billed", "netted", "cancelled"}
               /\ docNum'[d] = rdoc'[y]
               /\ holder'[d] = NoRun
    <3>1. CASE y = x
        BY <2>2, <2>7, <3>1, DocumentsAssumption DEF Crediting
    <3>2. CASE y # x
        <4>1. rpc[y] = rpc'[y]
            BY <3>2
        <4> QED
            BY <2>2, <2>4, <2>7, <3>2, <4>1 DEF Crediting
    <3> QED
        BY <3>1, <3>2
  <2>8. ASSUME NEW y \in Refunds
        PROVE  /\ rpc'[y] \in {"idle", "netted", "issue"} => refunded'[y] = {}
               /\ rpc'[y] \in {"write", "writeCredits"} => refunded'[y] = rdocs'[y]
               /\ rpc'[y] # "idle" => rdoc'[y] \in DocNums
    BY DEF Crediting
  <2> QED
    BY <2>6, <2>7, <2>8 DEF Crediting
<1> QED
    BY <1>1, <1>2, <1>3, <1>4, <1>5, <1>6, <1>7

LEMMA RefundWriteFailsKeeps ==
    ASSUME IInv, TypeOK', NEW x \in Refunds, NEW reopen \in BOOLEAN,
           NEW written \in SUBSET Docs, RefundWriteFails(x, reopen, written)
    PROVE  IInv'
<1> USE DEF RefundWriteFails, WriteNotes
<1>0. \A d \in Docs, i \in DocNums : Charged(d, i)' <=> Charged(d, i)
    BY DEF Charged, RefundedOf, Crediting
<1>1. Phases' /\ Fresh' /\ InHand'
    BY DEF Phases, Fresh, InHand, Claimed, Unclaimed, OfKey, KeysLeft
<1>2. Claimed'
  <2>1. \A d \in Sound : holder[d] \in Runs => d \notin written
    BY DEF Crediting
  <2>2. \A d \in Docs : d \notin written => status'[d] = status[d]
    OBVIOUS
  <2> QED
    BY <1>0, <2>1, <2>2 DEF Claimed
<1>3. Unclaimed'
  <2> SUFFICES ASSUME NEW d \in Sound, holder'[d] = NoRun
               PROVE  /\ status'[d] # "billing"
                      /\ \A i \in DocNums : Charged(d, i)' =>
                            /\ status'[d] \in {"billed", "netted", "cancelled"}
                            /\ docNum'[d] = i
    BY DEF Unclaimed
  <2>1. CASE d \in written
    <3>1. \A i \in DocNums : ~Charged(d, i)
        BY <2>1, CreditedIsUncharged
    <3>2. status'[d] \in {"open", "cancelled"}
        BY <2>1
    <3> QED
        BY <1>0, <3>1, <3>2
  <2>2. CASE d \notin written
    <3>1. status'[d] = status[d] /\ docNum'[d] = docNum[d]
        BY <2>2
    <3> QED
        BY <1>0, <3>1 DEF Unclaimed
  <2> QED
    BY <2>1, <2>2
<1>4. MarkedIsListed' /\ StaleIsDead'
    BY DEF MarkedIsListed, StaleIsDead, InHand, Phases, Fresh, Claimed
<1>5. Crediting' /\ CreditedTwiceIsKnown'
    BY DEF Crediting, CreditedTwiceIsKnown, RefundedOf, Unclaimed, Claimed,
           InHand, Phases, MarkedIsListed
<1> QED
    BY <1>1, <1>2, <1>3, <1>4, <1>5

LEMMA RefundWriteCreditsKeeps ==
    ASSUME IInv, TypeOK', NEW x \in Refunds, NEW written \in SUBSET Docs,
           RefundWriteCredits(x, written)
    PROVE  IInv'
<1> USE DEF RefundWriteCredits
<1>0. \A d \in Docs, i \in DocNums : Charged(d, i)' <=> Charged(d, i)
    BY DEF Charged, RefundedOf, Crediting
<1>1. Phases' /\ Fresh' /\ InHand'
    BY DEF Phases, Fresh, InHand, Claimed, Unclaimed, OfKey, KeysLeft
<1>2. Claimed'
  <2>1. \A d \in Sound : holder[d] \in Runs => d \notin written
    BY DEF Crediting
  <2>2. \A d \in Docs : d \notin written => status'[d] = status[d]
    OBVIOUS
  <2> QED
    BY <1>0, <2>1, <2>2 DEF Claimed
<1>3. Unclaimed'
  <2> SUFFICES ASSUME NEW d \in Sound, holder'[d] = NoRun
               PROVE  /\ status'[d] # "billing"
                      /\ \A i \in DocNums : Charged(d, i)' =>
                            /\ status'[d] \in {"billed", "netted", "cancelled"}
                            /\ docNum'[d] = i
    BY DEF Unclaimed
  <2>1. CASE d \in written
    <3>1. \A i \in DocNums : ~Charged(d, i)
        BY <2>1, CreditedIsUncharged
    <3> QED
        BY <1>0, <2>1, <3>1
  <2>2. CASE d \notin written
    BY <1>0, <2>2 DEF Unclaimed
  <2> QED
    BY <2>1, <2>2
<1>4. MarkedIsListed' /\ StaleIsDead'
    BY DEF MarkedIsListed, StaleIsDead, InHand, Phases, Fresh, Claimed
<1>5. Crediting' /\ CreditedTwiceIsKnown'
    BY DEF Crediting, CreditedTwiceIsKnown, RefundedOf, Unclaimed, Claimed,
           InHand, Phases, MarkedIsListed
<1> QED
    BY <1>1, <1>2, <1>3, <1>4, <1>5

LEMMA CancelReadKeeps ==
    ASSUME IInv, TypeOK', NEW c \in Cancels, NEW n \in Notes, CancelRead(c, n)
    PROVE  IInv'
<1> USE DEF CancelRead
<1>0. \A d \in Docs, i \in DocNums : Charged(d, i)' <=> Charged(d, i)
    BY DEF Charged, RefundedOf, Crediting
<1>1. Phases' /\ Fresh' /\ InHand'
    BY DEF Phases, Fresh, InHand, Claimed, Unclaimed, OfKey, KeysLeft
<1>2. Claimed' /\ Unclaimed'
    BY <1>0 DEF Claimed, Unclaimed, InHand, Phases
<1>3. MarkedIsListed' /\ StaleIsDead'
    BY DEF MarkedIsListed, StaleIsDead, InHand, Phases, Fresh, Claimed
<1>4. Crediting' /\ CreditedTwiceIsKnown'
    BY DEF Crediting, CreditedTwiceIsKnown, RefundedOf, Unclaimed, Claimed,
           InHand, Phases, MarkedIsListed
<1> QED
    BY <1>1, <1>2, <1>3, <1>4

LEMMA CancelSaveKeeps ==
    ASSUME IInv, TypeOK', NEW c \in Cancels, CancelSave(c)
    PROVE  IInv'
<1> USE DEF CancelSave
<1>0. \A d \in Docs, i \in DocNums : Charged(d, i)' <=> Charged(d, i)
    BY DEF Charged, RefundedOf, Crediting
<1>1. Phases' /\ Fresh' /\ InHand'
    BY DEF Phases, Fresh, InHand, Claimed, Unclaimed, OfKey, KeysLeft
<1>2. Claimed' /\ Unclaimed'
    BY <1>0 DEF Claimed, Unclaimed, InHand, Phases
<1>3. MarkedIsListed' /\ StaleIsDead'
    BY DEF MarkedIsListed, StaleIsDead, InHand, Phases, Fresh, Claimed
<1>4. Crediting' /\ CreditedTwiceIsKnown'
    BY DEF Crediting, CreditedTwiceIsKnown, RefundedOf, Unclaimed, Claimed,
           InHand, Phases, MarkedIsListed
<1> QED
    BY <1>1, <1>2, <1>3, <1>4

LEMMA ClaimAgesKeeps ==
    ASSUME IInv, TypeOK', NEW d \in Docs, ClaimAges(d)
    PROVE  IInv'
<1> USE DEF ClaimAges
<1>0. \A e \in Docs, i \in DocNums : Charged(e, i)' <=> Charged(e, i)
    BY DEF Charged, RefundedOf, Crediting
<1>1. Phases' /\ Fresh' /\ InHand'
    BY DEF Phases, Fresh, InHand, Claimed, Unclaimed, OfKey, KeysLeft
<1>2. Claimed' /\ Unclaimed'
    BY <1>0 DEF Claimed, Unclaimed, InHand, Phases
<1>3. MarkedIsListed' /\ StaleIsDead'
    BY DEF MarkedIsListed, StaleIsDead, InHand, Phases, Fresh, Claimed
<1>4. Crediting' /\ CreditedTwiceIsKnown'
    BY DEF Crediting, CreditedTwiceIsKnown, RefundedOf, Unclaimed, Claimed,
           InHand, Phases, MarkedIsListed
<1> QED
    BY <1>1, <1>2, <1>3, <1>4

LEMMA ReleaseStuckKeeps ==
    ASSUME IInv, TypeOK', NEW D \in SUBSET Docs, ReleaseStuck(D)
    PROVE  IInv'
<1> USE DEF ReleaseStuck
<1>0. \A d \in Docs, i \in DocNums : Charged(d, i)' <=> Charged(d, i)
    BY DEF Charged, RefundedOf, Crediting
<1>1. Phases' /\ Fresh'
    BY DEF Phases, Fresh, InHand, Claimed, Unclaimed, OfKey, KeysLeft
<1>2. InHand'
  <2>1. ASSUME NEW q \in Runs, NEW d \in Sound, d \in mine[q] \cup group[q]
        PROVE  holder'[d] = q
    <3>1. holder[d] = q /\ Live(q)
        BY <2>1 DEF InHand, Phases
    <3>2. ~(status[d] = "billing" /\ d \in stale)
        BY <3>1 DEF StaleIsDead
    <3> QED
        BY <3>1, <3>2
  <2> QED
    BY <2>1 DEF InHand
<1>3. Claimed'
    BY <1>0 DEF Unclaimed, Claimed, InHand, Phases
<1>4. Unclaimed'
  <2> SUFFICES ASSUME NEW d \in Sound, holder'[d] = NoRun
               PROVE  /\ status'[d] # "billing"
                      /\ \A i \in DocNums : Charged(d, i)' =>
                            /\ status'[d] \in {"billed", "netted", "cancelled"}
                            /\ docNum'[d] = i
    BY DEF Unclaimed
  <2>1. CASE holder[d] \in Runs
    <3>1. d \in D /\ status[d] = "billing" /\ d \in stale
        BY <2>1
    <3>2. ~Live(holder[d])
        BY <3>1 DEF StaleIsDead
    <3>3. d \notin group[holder[d]]
        BY <2>1, <3>2 DEF Phases
    <3>4. \A i \in DocNums : ~Charged(d, i)
        BY <2>1, <3>3, HeldIsUncharged
    <3>5. status'[d] = "open"
        BY <3>1
    <3> QED
        BY <1>0, <3>4, <3>5
  <2>2. CASE holder[d] = NoRun
    <3>1. status[d] # "billing"
        BY <2>2 DEF Unclaimed
    <3>2. status'[d] = status[d] /\ docNum'[d] = docNum[d]
        BY <3>1
    <3> QED
        BY <1>0, <2>2, <3>1, <3>2 DEF Unclaimed
  <2> QED
    BY <2>1, <2>2
<1>5. MarkedIsListed' /\ StaleIsDead'
    BY DEF MarkedIsListed, StaleIsDead, InHand, Phases, Fresh, Claimed
<1>6. Crediting' /\ CreditedTwiceIsKnown'
    BY DEF Crediting, CreditedTwiceIsKnown, RefundedOf, Unclaimed, Claimed,
           InHand, Phases, MarkedIsListed
<1> QED
    BY <1>1, <1>2, <1>3, <1>4, <1>5, <1>6

LEMMA CrashKeeps ==
    ASSUME IInv, TypeOK', Crash
    PROVE  IInv'
<1> USE DEF Crash
<1>0. \A d \in Docs, i \in DocNums : Charged(d, i)' <=> Charged(d, i)
    BY DEF Charged, RefundedOf, Crediting
<1>1. Phases' /\ Fresh' /\ InHand'
    BY DEF Phases, Fresh, InHand, Claimed, Unclaimed, OfKey, KeysLeft
<1>2. Claimed' /\ Unclaimed'
    BY <1>0 DEF Claimed, Unclaimed, InHand, Phases
<1>3. MarkedIsListed' /\ StaleIsDead'
    BY DEF MarkedIsListed, StaleIsDead, InHand, Phases, Fresh, Claimed
<1>4. Crediting' /\ CreditedTwiceIsKnown'
    BY DEF Crediting, CreditedTwiceIsKnown, RefundedOf, Unclaimed, Claimed,
           InHand, Phases, MarkedIsListed
<1> QED
    BY <1>1, <1>2, <1>3, <1>4

LEMMA StutterKeeps ==
    ASSUME IInv, TypeOK', UNCHANGED vars
    PROVE  IInv'
<1> USE DEF vars
<1>0. \A d \in Docs, i \in DocNums : Charged(d, i)' <=> Charged(d, i)
    BY DEF Charged, RefundedOf, Crediting
<1>1. Phases' /\ Fresh' /\ InHand'
    BY DEF Phases, Fresh, InHand, Claimed, Unclaimed, OfKey, KeysLeft
<1>2. Claimed' /\ Unclaimed'
    BY <1>0 DEF Claimed, Unclaimed, InHand, Phases
<1>3. MarkedIsListed' /\ StaleIsDead'
    BY DEF MarkedIsListed, StaleIsDead, InHand, Phases, Fresh, Claimed
<1>4. Crediting' /\ CreditedTwiceIsKnown'
    BY DEF Crediting, CreditedTwiceIsKnown, RefundedOf, Unclaimed, Claimed,
           InHand, Phases, MarkedIsListed
<1> QED
    BY <1>1, <1>2, <1>3, <1>4

-----------------------------------------------------------------------------
LEMMA InitInv == Init => IInv
<1> SUFFICES ASSUME Init PROVE IInv
    OBVIOUS
<1>1. TypeOK
    BY InitType
<1>2. \A d \in Docs, i \in DocNums : ~Charged(d, i)
    BY DEF Init, Charged
<1>3. Phases /\ Fresh /\ InHand /\ Claimed /\ Unclaimed
    BY <1>2, CallsAssumption, DocumentsAssumption
       DEF Init, Phases, Fresh, InHand, Claimed, Unclaimed, Sound, Docs, DocNums
<1>4. MarkedIsListed /\ StaleIsDead /\ Crediting /\ CreditedTwiceIsKnown
    BY DEF Init, MarkedIsListed, StaleIsDead, Crediting, CreditedTwiceIsKnown, Sound
<1> QED
    BY <1>1, <1>3, <1>4 DEF IInv

LEMMA RunKeeps ==
    ASSUME IInv, TypeOK', NEW r \in Runs, RunStart(r) \/ RunStep(r)
    PROVE  IInv'
<1>1. CASE RunStart(r)
    BY <1>1, CloseKeeps, ImmediateKeeps DEF RunStart
<1>2. ASSUME NEW d \in Docs, ClaimNote(r, d) \/ ClaimCredit(r, d) PROVE IInv'
    BY <1>2, ClaimKeeps
<1>3. ASSUME NEW k \in Keys, Issue(r, k) \/ IssueLost(r, k) PROVE IInv'
    BY <1>3, IssueKeeps, IssueLostKeeps
<1>4. ASSUME NEW written \in SUBSET Docs, MarkFails(r, written) PROVE IInv'
    BY <1>4, MarkFailsKeeps
<1>5. CASE ReadClaimed(r) \/ OpenCredits(r) \/ ReadCredits(r) \/ SetAside(r)
    BY <1>5, ReadClaimedKeeps, OpenCreditsKeeps, ReadCreditsKeeps, SetAsideKeeps
<1>6. CASE IssueRejected(r) \/ MarkNotes(r) \/ MarkCredits(r)
    BY <1>6, IssueRejectedKeeps, MarkNotesKeeps, MarkCreditsKeeps
<1>7. CASE Release(r) \/ Finish(r) \/ Abort(r)
    BY <1>7, ReleaseKeeps, FinishKeeps, AbortKeeps
<1>8. ASSUME NEW freed \in SUBSET Docs, ReopenFails(r, freed) PROVE IInv'
    BY <1>8, ReopenFailsKeeps
<1> QED
    BY <1>1, <1>2, <1>3, <1>4, <1>5, <1>6, <1>7, <1>8 DEF RunStep

LEMMA RefundKeeps ==
    ASSUME IInv, TypeOK', NEW x \in Refunds, RefundStep(x)
    PROVE  IInv'
<1>1. ASSUME NEW i \in DocNums, RefundRead(x, i) PROVE IInv'
    BY <1>1, RefundReadKeeps
<1>2. CASE RefundReadNetted(x) \/ RefundRejected(x)
    BY <1>2, RefundReadNettedKeeps, RefundRejectedKeeps
<1>3. CASE RefundIssue(x) \/ RefundLost(x)
    BY <1>3, RefundIssueKeeps
<1>4. ASSUME NEW reopen \in BOOLEAN, RefundWrite(x, reopen) PROVE IInv'
    BY <1>4, RefundWriteKeeps
<1>5. ASSUME NEW reopen \in BOOLEAN, NEW written \in SUBSET Docs,
             RefundWriteFails(x, reopen, written)
      PROVE  IInv'
    BY <1>5, RefundWriteFailsKeeps
<1>6. ASSUME NEW written \in SUBSET Docs, RefundWriteCredits(x, written) PROVE IInv'
    BY <1>6, RefundWriteCreditsKeeps
<1> QED
    BY <1>1, <1>2, <1>3, <1>4, <1>5, <1>6 DEF RefundStep

LEMMA NextInv == IInv /\ [Next]_vars => IInv'
<1> SUFFICES ASSUME IInv, [Next]_vars PROVE IInv'
    OBVIOUS
<1>0. TypeOK'
    BY NextType DEF IInv
<1>1. ASSUME NEW r \in Runs, RunStart(r) \/ RunStep(r) PROVE IInv'
    BY <1>0, <1>1, RunKeeps
<1>2. ASSUME NEW x \in Refunds, RefundStep(x) PROVE IInv'
    BY <1>0, <1>2, RefundKeeps
<1>3. ASSUME NEW c \in Cancels, CancelStep(c) PROVE IInv'
    BY <1>0, <1>3, CancelReadKeeps, CancelSaveKeeps DEF CancelStep
<1>4. ASSUME NEW d \in Docs, ClaimAges(d) PROVE IInv'
    BY <1>0, <1>4, ClaimAgesKeeps
<1>5. CASE ReleaseStuckNotes \/ ReleaseStuckCredits
  <2>1. Notes \in SUBSET Docs /\ Credits \in SUBSET Docs
    BY DEF Docs
  <2> QED
    BY <1>0, <1>5, <2>1, ReleaseStuckKeeps DEF ReleaseStuckNotes, ReleaseStuckCredits
<1>6. CASE Crash
    BY <1>0, <1>6, CrashKeeps
<1>7. CASE UNCHANGED vars
    BY <1>0, <1>7, StutterKeeps
<1> QED
    BY <1>1, <1>2, <1>3, <1>4, <1>5, <1>6, <1>7 DEF Next

(* The inductive invariant holds throughout.                               *)
THEOREM Invariance == Spec => []IInv
BY InitInv, NextInv, PTL DEF Spec

-----------------------------------------------------------------------------
(* No double billing: outside the accidents the code logs, no document is  *)
(* charged by two uncredited invoices, for any number of notes, runs,      *)
(* credits and cancellations and any combination of faults.                *)
THEOREM NoDoubleBilling == Spec => []ChargedAtMostOnce
<1>1. IInv => ChargedAtMostOnce
  <2> SUFFICES ASSUME IInv, NEW d \in Sound, NEW i \in DocNums, NEW j \in DocNums,
                      Charged(d, i), Charged(d, j)
               PROVE  i = j
    BY DEF ChargedAtMostOnce, Sound
  <2>1. CASE holder[d] = NoRun
    BY <2>1 DEF IInv, Unclaimed
  <2>2. CASE holder[d] \in Runs
    BY <2>2 DEF IInv, Claimed
  <2> QED
    BY <2>1, <2>2 DEF IInv, TypeOK, Sound
<1> QED
    BY <1>1, Invariance, PTL

(* Exclusive claims: what a run has in hand is claimed by that run.        *)
THEOREM ExclusiveClaims == Spec => []ClaimsAreExclusive
<1>1. IInv => ClaimsAreExclusive
  <2> SUFFICES ASSUME IInv, NEW r \in Runs, NEW d \in (mine[r] \cup group[r]) \ incident
               PROVE  holder[d] = r /\ status[d] \in {"billing", "cancelled"}
    BY DEF ClaimsAreExclusive
  <2>1. d \in Sound
    BY DEF IInv, TypeOK, Sound
  <2>2. holder[d] = r
    BY <2>1 DEF IInv, InHand
  <2> QED
    BY <2>1, <2>2 DEF IInv, Claimed
<1> QED
    BY <1>1, Invariance, PTL

(* A marked document names an invoice that lists it.                       *)
THEOREM MarksNameInvoices == Spec => []MarkedIsListed
<1>1. IInv => MarkedIsListed
    BY DEF IInv
<1> QED
    BY <1>1, Invariance, PTL

OpenAreUncharged ==
    \A d \in Docs \ incident : status[d] = "open" =>
        \A i \in DocNums : ~Charged(d, i)

(* A document goes back to open only when no invoice charges it any more,  *)
(* whether a run, the cron or a credit puts it there.                      *)
THEOREM ReopeningIsSafe == Spec => ReopenedIsUncharged
<1>1. IInv => OpenAreUncharged
    BY OpenIsUncharged DEF OpenAreUncharged
<1>2. OpenAreUncharged' => [\A d \in Docs \ incident' :
                    status[d] # "open" /\ status'[d] = "open" =>
                        \A i \in DocNums : ~Charged(d, i)']_vars
    BY DEF OpenAreUncharged
<1> QED
    BY <1>1, <1>2, Invariance, PTL DEF ReopenedIsUncharged

-----------------------------------------------------------------------------
(* When nobody cancels a note, a cancelled one was cancelled by the credit *)
(* of its invoice: nothing holds it and nothing charges it.                *)
CancelledIsCredited ==
    \A d \in Sound : status[d] = "cancelled" =>
        holder[d] = NoRun /\ \A i \in DocNums : ~Charged(d, i)

(* Credits only take back.                                                 *)
LEMMA ChargedFrame ==
    ASSUME UNCHANGED invoice,
           \A y \in Refunds : \/ refunded[y] = {}
                              \/ rdoc'[y] = rdoc[y] /\ refunded[y] \subseteq refunded'[y],
           NEW d \in Docs, NEW i \in DocNums, Charged(d, i)'
    PROVE  Charged(d, i)
BY DEF Charged, RefundedOf

(* A step that cancels only what is credited, and charges only what a run  *)
(* holds.                                                                  *)
LEMMA CreditedFrame ==
    ASSUME CancelledIsCredited, incident \subseteq incident',
           \A d \in Sound' : status'[d] = "cancelled" =>
               \/ status[d] = "cancelled" /\ holder'[d] = holder[d]
               \/ holder'[d] = NoRun /\ \A i \in DocNums : ~Charged(d, i),
           \A d \in Sound' : \A i \in DocNums :
               Charged(d, i)' => Charged(d, i) \/ holder'[d] \in Runs
    PROVE  CancelledIsCredited'
BY DEF CancelledIsCredited

LEMMA RunCredits ==
    ASSUME IInv, CancelledIsCredited, NEW r \in Runs, RunStart(r) \/ RunStep(r)
    PROVE  CancelledIsCredited'
<1>1. ASSUME UNCHANGED <<invoice, refundVars>>, incident \subseteq incident',
             \A d \in Docs : \/ status'[d] # "cancelled"
                             \/ status'[d] = status[d] /\ holder'[d] = holder[d]
                             \/ status[d] = "cancelled" /\ holder'[d] = NoRun
      PROVE  CancelledIsCredited'
  <2>1. \A d \in Sound' : \A i \in DocNums : Charged(d, i)' => Charged(d, i)
    BY <1>1, ChargedFrame
  <2> QED
    BY <1>1, <2>1 DEF CancelledIsCredited
<1>2. CASE RunStart(r)
    BY <1>1, <1>2 DEF RunStart, CloseCustomerMonth, BillNoteImmediately
<1>3. ASSUME NEW d \in Docs, ClaimNote(r, d) \/ ClaimCredit(r, d)
      PROVE  CancelledIsCredited'
    BY <1>1, <1>3 DEF ClaimNote, ClaimCredit, Claim
<1>4. CASE ReadClaimed(r) \/ OpenCredits(r) \/ ReadCredits(r)
    BY <1>1, <1>4 DEF ReadClaimed, OpenCredits, ReadCredits
<1>5. CASE SetAside(r)
    BY <1>1, <1>5 DEF SetAside
<1>6. ASSUME NEW k \in Keys, Issue(r, k) \/ IssueLost(r, k) PROVE CancelledIsCredited'
  <2> DEFINE billed == InvoiceFor(mine[r], k)
  <2>0. mine[r] \in SUBSET Docs
    OBVIOUS
  <2>1. billed \subseteq mine[r]
    BY <2>0, InvoiceForIsDocs
  <2>2. /\ invoice' = [invoice EXCEPT ![<<r, k>>] = billed]
        /\ UNCHANGED <<status, holder, refundVars>>
        /\ incident \subseteq incident'
    BY <1>6 DEF Issue, IssueLost
  <2> HIDE DEF billed
  <2>3. ASSUME NEW d \in Sound', NEW i \in DocNums, Charged(d, i)'
        PROVE  Charged(d, i) \/ holder'[d] \in Runs
    <3>1. d \in invoice[i] \/ d \in mine[r]
      BY <2>1, <2>2, <2>3 DEF Charged, DocNums
    <3>2. CASE d \in invoice[i]
      BY <2>2, <2>3, <3>2 DEF Charged, RefundedOf
    <3>3. CASE d \in mine[r]
      BY <2>2, <3>3 DEF InHand
    <3> QED
      BY <3>1, <3>2, <3>3
  <2> QED
    BY <2>2, <2>3, CreditedFrame
<1>7. CASE IssueRejected(r) \/ Finish(r) \/ Abort(r)
    BY <1>1, <1>7 DEF IssueRejected, Finish, Abort
<1>8. CASE MarkNotes(r)
    BY <1>1, <1>8 DEF MarkNotes
<1>9. CASE MarkCredits(r)
    BY <1>1, <1>9 DEF MarkCredits
<1>10. ASSUME NEW written \in SUBSET Docs, MarkFails(r, written)
       PROVE  CancelledIsCredited'
    BY <1>1, <1>10 DEF MarkFails
<1>11. CASE Release(r)
    BY <1>1, <1>11 DEF Release
<1>12. ASSUME NEW freed \in SUBSET Docs, ReopenFails(r, freed)
       PROVE  CancelledIsCredited'
    BY <1>1, <1>12 DEF ReopenFails
<1> QED
    BY <1>2, <1>3, <1>4, <1>5, <1>6, <1>7, <1>8, <1>9, <1>10, <1>11, <1>12 DEF RunStep

LEMMA RefundCredits ==
    ASSUME IInv, CancelledIsCredited, NEW x \in Refunds, RefundStep(x)
    PROVE  CancelledIsCredited'
<1>1. ASSUME UNCHANGED <<invoice, holder>>, incident \subseteq incident',
             \A y \in Refunds : \/ refunded[y] = {}
                                \/ rdoc'[y] = rdoc[y] /\ refunded[y] \subseteq refunded'[y],
             \A d \in Sound' : status'[d] = "cancelled" =>
                 \/ status[d] = "cancelled"
                 \/ holder[d] = NoRun /\ \A i \in DocNums : ~Charged(d, i)
      PROVE  CancelledIsCredited'
  <2>1. \A d \in Sound' : \A i \in DocNums : Charged(d, i)' => Charged(d, i)
    BY <1>1, ChargedFrame
  <2> QED
    BY <1>1, <2>1, CreditedFrame
<1>2. ASSUME NEW i \in DocNums, RefundRead(x, i) PROVE CancelledIsCredited'
  <2>1. refunded[x] = {} /\ \A y \in Refunds : y # x => rdoc'[y] = rdoc[y]
    BY <1>2 DEF RefundRead, Crediting
  <2> QED
    BY <1>1, <1>2, <2>1 DEF RefundRead
<1>3. CASE RefundReadNetted(x) \/ RefundRejected(x)
    BY <1>1, <1>3 DEF RefundReadNetted, RefundRejected
<1>4. CASE RefundIssue(x) \/ RefundLost(x)
  <2>1. refunded[x] = {} /\ \A y \in Refunds : y # x => refunded'[y] = refunded[y]
    BY <1>4 DEF RefundIssue, RefundLost, OpenCredit, Crediting
  <2> QED
    BY <1>1, <1>4, <2>1 DEF RefundIssue, RefundLost, OpenCredit
(* What the credit cancels it has taken back.                              *)
<1>5. ASSUME rpc[x] = "write", NEW D \in SUBSET rdocs[x], NEW reopen, WriteNotes(D, reopen),
             UNCHANGED <<holder, rdoc, refunded, invoice, incident>>
      PROVE  CancelledIsCredited'
  <2>1. \A d \in D \cap Sound : holder[d] = NoRun /\ \A i \in DocNums : ~Charged(d, i)
    BY <1>5, CreditedIsUncharged DEF Crediting
  <2>2. \A d \in Docs : status'[d] = "cancelled" => d \in D \/ status[d] = "cancelled"
    BY <1>5 DEF WriteNotes
  <2> QED
    BY <1>1, <1>5, <2>1, <2>2
<1>6. ASSUME NEW reopen \in BOOLEAN, RefundWrite(x, reopen) PROVE CancelledIsCredited'
    BY <1>5, <1>6 DEF RefundWrite
<1>7. ASSUME NEW reopen \in BOOLEAN, NEW written \in SUBSET Docs,
             RefundWriteFails(x, reopen, written)
      PROVE  CancelledIsCredited'
    BY <1>5, <1>7 DEF RefundWriteFails
<1>8. ASSUME NEW written \in SUBSET Docs, RefundWriteCredits(x, written)
      PROVE  CancelledIsCredited'
    BY <1>1, <1>8 DEF RefundWriteCredits
<1> QED
    BY <1>2, <1>3, <1>4, <1>6, <1>7, <1>8 DEF RefundStep

LEMMA NextCredits ==
    ASSUME Cancels = {}, IInv, CancelledIsCredited, [Next]_vars
    PROVE  CancelledIsCredited'
<1>1. ASSUME UNCHANGED <<invoice, rdoc, refunded>>, incident \subseteq incident',
             \A d \in Docs : \/ status'[d] # "cancelled"
                             \/ status'[d] = status[d] /\ holder'[d] = holder[d]
      PROVE  CancelledIsCredited'
  <2>1. \A d \in Sound' : \A i \in DocNums : Charged(d, i)' => Charged(d, i)
    BY <1>1, ChargedFrame
  <2> QED
    BY <1>1, <2>1, CreditedFrame
<1>2. ASSUME NEW r \in Runs, RunStart(r) \/ RunStep(r) PROVE CancelledIsCredited'
    BY <1>2, RunCredits
<1>3. ASSUME NEW x \in Refunds, RefundStep(x) PROVE CancelledIsCredited'
    BY <1>3, RefundCredits
<1>4. ASSUME NEW d \in Docs, ClaimAges(d) PROVE CancelledIsCredited'
    BY <1>1, <1>4 DEF ClaimAges
<1>5. CASE ReleaseStuckNotes \/ ReleaseStuckCredits
    BY <1>1, <1>5 DEF ReleaseStuckNotes, ReleaseStuckCredits, ReleaseStuck
<1>6. CASE Crash
    BY <1>1, <1>6 DEF Crash
<1>7. CASE UNCHANGED vars
    BY <1>1, <1>7 DEF vars
<1> QED
    BY <1>2, <1>3, <1>4, <1>5, <1>6, <1>7 DEF Next

(* Once marked, what an uncredited invoice charges stays billed under its  *)
(* number, whatever fails and however runs and credits interleave: only    *)
(* the cancellation of a note can take it out (deliveryNotes.js), so that  *)
(* the theorem is about a month in which no note is cancelled.             *)
THEOREM NothingLeftUnmarked == ASSUME Cancels = {} PROVE Spec => []ChargedStaysMarked
<1>1. Init => CancelledIsCredited
    BY DEF Init, CancelledIsCredited
<1>2. IInv /\ CancelledIsCredited /\ [Next]_vars => CancelledIsCredited'
    BY NextCredits
<1>3. IInv /\ CancelledIsCredited => ChargedStaysMarked
  <2> SUFFICES ASSUME IInv, CancelledIsCredited, NEW d \in Sound, NEW i \in DocNums,
                      Charged(d, i), \A r \in Runs : d \notin group[r]
               PROVE  status[d] \in {"billed", "netted"} /\ docNum[d] = i
    BY DEF ChargedStaysMarked
  <2>1. holder[d] = NoRun
    BY DEF Claimed
  <2> QED
    BY <2>1 DEF Unclaimed, CancelledIsCredited
<1> QED
    BY <1>1, <1>2, <1>3, Invariance, PTL DEF Spec

-----------------------------------------------------------------------------
(* What attachCredits does when it is repeated.  From here on every leaf   *)
(* cites the definitions it opens.                                         *)

HIDE CallsAssumption DEF TypeOK, IInv, Goto, SetStatus, SetDocNum, DropClaims,
    noteVars, runVars, refundVars, cancelVars, Live, RefundLive, Sound, Docs

(* Induction on finite sets, as the provers can use it: a family of        *)
(* subsets has a smallest member.                                          *)
LEMMA SmallestSubset ==
    ASSUME NEW S, IsFiniteSet(S), NEW T \in SUBSET SUBSET S, T # {}
    PROVE  \E x \in T : \A y \in T : y \subseteq x => y = x
<1>1. FiniteSubsetsOf(S) = SUBSET S
    BY FS_FiniteSubsetsOfFinite
<1>2. IsWellFoundedOn(StrictSubsetOrdering(S), SUBSET S)
    BY <1>1, FS_StrictSubsetOrderingWellFounded
<1>3. PICK x \in T : \A y \in T : <<y, x>> \notin StrictSubsetOrdering(S)
  <2> HIDE <1>1
  <2> QED
    BY <1>2, WFMin
<1> QED
    BY <1>3 DEF StrictSubsetOrdering

(* What the fold does with the highest of the credits.                     *)
Attach(notes, attached, c) ==
    IF Blocked(notes, attached, c) THEN attached ELSE attached \cup {c}

IsAttaching(notes, S, g) ==
    g = [s \in SUBSET S |->
            IF s = {} THEN {} ELSE Attach(notes, g[s \ {Highest(s)}], Highest(s))]

LEMMA AcceptedIsFold ==
    ASSUME NEW notes, NEW S
    PROVE  Accepted(notes, S) = (CHOOSE g : IsAttaching(notes, S, g))[S]
BY DEF Accepted, MapThenFoldSet, IsAttaching, Attach

LEMMA HighestExists ==
    ASSUME NEW S \in SUBSET Credits, S # {}
    PROVE  Highest(S) \in S /\ \A e \in S : Number[e] <= Number[Highest(S)]
<1> DEFINE HasOne(s) == \E c \in s : \A e \in s : Number[e] <= Number[c]
           Bad == {s \in SUBSET Credits : s # {} /\ ~HasOne(s)}
<1>1. Number \in [Credits -> Nat]
    BY DocumentsAssumption
<1>2. ASSUME Bad # {} PROVE FALSE
  <2>1. PICK s \in Bad : \A t \in Bad : t \subseteq s => t = s
    <3> IsFiniteSet(Credits) /\ Bad \in SUBSET SUBSET Credits
        BY NumbersAssumption
    <3> HIDE DEF Bad
    <3> QED BY <1>2, SmallestSubset
  <2>2. PICK x \in s : TRUE
    OBVIOUS
  <2>3. CASE s \ {x} = {}
    <3>1. s = {x} /\ x \in Credits
        BY <2>2, <2>3
    <3> QED BY <1>1, <3>1
  <2>4. CASE s \ {x} # {}
    <3>1. s \ {x} \notin Bad
        BY <2>1, <2>2
    <3>1a. HasOne(s \ {x})
        BY <3>1, <2>4
    <3>2. PICK m \in s \ {x} : \A e \in s \ {x} : Number[e] <= Number[m]
        BY <3>1a
    <3>3. x \in Credits /\ m \in Credits /\ \A e \in s : Number[e] \in Nat
        BY <1>1
    <3>4. CASE Number[x] <= Number[m]
        BY <3>2, <3>4
    <3>5. CASE Number[m] <= Number[x]
      <4>1. \A e \in s : Number[e] <= Number[x]
        BY <3>2, <3>3, <3>5
      <4> QED BY <4>1, <2>2
    <3> QED BY <1>1, <3>3, <3>4, <3>5
  <2> QED BY <2>3, <2>4
<1>3. HasOne(S)
    BY <1>2
<1> QED
    BY <1>3 DEF Highest
(* The recursion of the fold, which a finite set has.                      *)
Follows(notes, S) ==
    Accepted(notes, S) =
        IF S = {} THEN {}
        ELSE Attach(notes, Accepted(notes, S \ {Highest(S)}), Highest(S))

LEMMA AcceptedFollows ==
    ASSUME NEW notes, NEW S \in SUBSET Credits
    PROVE  Follows(notes, S)
<1> DEFINE Bad == {s \in SUBSET Credits : ~Follows(notes, s)}
<1>1. ASSUME NEW s \in Bad, \A t \in Bad : t \subseteq s => t = s PROVE FALSE
  <2> DEFINE A(u) == Accepted(notes, u)
             G == [u \in SUBSET s |-> IF u = {} THEN {}
                      ELSE Attach(notes, A(u \ {Highest(u)}), Highest(u))]
  <2>1. \A u \in SUBSET s : u # s => A(u) = G[u]
    BY <1>1 DEF Follows
  <2>2. \A u \in SUBSET s : u # {} => Highest(u) \in u
    BY HighestExists
  <2> HIDE DEF A
  <2>3. \A u \in SUBSET s : u # {} => A(u \ {Highest(u)}) = G[u \ {Highest(u)}]
    <3> SUFFICES ASSUME NEW u \in SUBSET s, u # {}
                 PROVE  A(u \ {Highest(u)}) = G[u \ {Highest(u)}]
        OBVIOUS
    <3>1. u \ {Highest(u)} \in SUBSET s /\ u \ {Highest(u)} # s
        BY <2>2
    <3> HIDE DEF G
    <3> QED BY <3>1, <2>1
  <2>4. IsAttaching(notes, s, G)
    <3>1. G = [u \in SUBSET s |-> IF u = {} THEN {}
                      ELSE Attach(notes, G[u \ {Highest(u)}], Highest(u))]
        BY <2>3
    <3> QED BY <3>1 DEF IsAttaching
  <2> DEFINE g == CHOOSE f : IsAttaching(notes, s, f)
  <2>5. IsAttaching(notes, s, g)
    BY <2>4
  <2>6. A(s) = g[s]
    BY AcceptedIsFold DEF A
  <2> HIDE DEF g, G
  <2>7. \A u \in SUBSET s : g[u] = IF u = {} THEN {}
                      ELSE Attach(notes, g[u \ {Highest(u)}], Highest(u))
    BY <2>5 DEF IsAttaching
  <2>8. \A u \in SUBSET s : u # s => g[u] = A(u)
    <3> DEFINE Off == {u \in SUBSET s : u # s /\ g[u] # A(u)}
    <3>1. ASSUME NEW u \in Off, \A t \in Off : t \subseteq u => t = u PROVE FALSE
      <4>1. A(u) = IF u = {} THEN {}
                   ELSE Attach(notes, A(u \ {Highest(u)}), Highest(u))
        BY <2>1 DEF G
      <4>2. u # {}
        BY <4>1, <2>7
      <4>3. u \ {Highest(u)} \notin Off
        BY <3>1, <4>2, <2>2
      <4>4. g[u \ {Highest(u)}] = A(u \ {Highest(u)})
        BY <4>3, <4>2, <2>2
      <4> QED BY <4>1, <4>2, <4>4, <2>7
    <3>2. Off = {}
      <4>1. Off \in SUBSET SUBSET Credits /\ IsFiniteSet(Credits)
        BY NumbersAssumption
      <4> HIDE DEF Off
      <4> QED BY <3>1, <4>1, SmallestSubset
    <3> QED BY <3>2
  <2>9. A(s) = IF s = {} THEN {}
               ELSE Attach(notes, A(s \ {Highest(s)}), Highest(s))
    BY <2>2, <2>6, <2>7, <2>8
  <2> QED BY <2>9, <1>1 DEF Follows, A
<1>2. Bad = {}
  <2>1. Bad \in SUBSET SUBSET Credits /\ IsFiniteSet(Credits)
    BY NumbersAssumption
  <2> HIDE DEF Bad
  <2> QED BY <1>1, <2>1, SmallestSubset
<1> QED BY <1>2

LEMMA AcceptedIsStable ==
    ASSUME NEW notes, NEW S \in SUBSET Credits
    PROVE  /\ Accepted(notes, S) \subseteq S
           /\ Accepted(notes, Accepted(notes, S)) = Accepted(notes, S)
<1> DEFINE A(u) == Accepted(notes, u)
           Good(s) == A(s) \subseteq s /\ A(A(s)) = A(s)
           Bad == {s \in SUBSET Credits : ~Good(s)}
<1> HIDE DEF A
<1>1. ASSUME NEW s \in Bad, \A t \in Bad : t \subseteq s => t = s PROVE FALSE
  <2>1. CASE s = {}
    BY <2>1, AcceptedFollows DEF Follows, A
  <2>2. CASE s # {}
    <3> DEFINE x == Highest(s)
               T == A(s \ {x})
    <3>1. x \in s /\ \A e \in s : Number[e] <= Number[x]
        BY <2>2, HighestExists
    <3>2. T \subseteq s \ {x} /\ A(T) = T
      <4>1. s \ {x} \notin Bad
        BY <1>1, <3>1
      <4> QED BY <4>1
    <3>3. A(s) = Attach(notes, T, x)
        BY <2>2, AcceptedFollows DEF Follows, A
    <3> DEFINE U == T \cup {x}
    <3>4. Highest(U) = x /\ U \ {x} = T /\ U # {} /\ U \in SUBSET Credits
      <4>1. U \in SUBSET Credits /\ U # {}
        BY <3>1, <3>2
      <4>2. Highest(U) \in U /\ Number[x] <= Number[Highest(U)]
        BY <4>1, HighestExists
      <4>3. Highest(U) \in s /\ Highest(U) \in Credits /\ x \in Credits
        BY <4>1, <4>2, <3>1, <3>2
      <4>4. Number[x] = Number[Highest(U)]
        <5> HIDE DEF x, U
        <5> QED BY <4>2, <4>3, <3>1, DocumentsAssumption
      <4>5. Highest(U) = x
        BY <4>3, <4>4, NumbersAssumption
      <4> QED BY <4>1, <4>5, <3>2
    <3>5. A(U) = Attach(notes, A(T), x)
      <4> HIDE DEF U, x, T
      <4> QED BY <3>4, AcceptedFollows DEF Follows, A
    <3> QED BY <3>1, <3>2, <3>3, <3>5 DEF Attach
  <2> QED BY <2>1, <2>2
<1>2. Bad = {}
  <2>1. Bad \in SUBSET SUBSET Credits /\ IsFiniteSet(Credits)
    BY NumbersAssumption
  <2> HIDE DEF Bad
  <2> QED BY <1>1, <2>1, SmallestSubset
<1> QED BY <1>2 DEF A

-----------------------------------------------------------------------------
(* Where a run keeps the documents it has claimed, and that no credit note *)
(* without an invoice stays among them once the invoices are made.         *)
Visits ==
    \A r \in Runs :
        /\ pc[r] = "claim" => todo[r] \subseteq Notes
        /\ pc[r] = "claimCredits" => todo[r] \subseteq Credits
        /\ pc[r] \in {"openCredits", "claimCredits"} => mine[r] \subseteq Notes
        /\ pc[r] \in {"bill", "mark", "markCredits"} => LeftOut(mine[r]) = {}

AtHand ==
    \A r \in Runs : \A d \in Docs : holder[d] = r /\ status[d] = "billing" =>
        /\ pc[r] \notin {"idle", "done"}
        /\ pc[r] \in {"claim", "openCredits"} => d \in Notes
        /\ pc[r] \in {"openCredits", "claimCredits"} /\ d \in Notes => d \in mine[r]
        /\ pc[r] \in {"setAside", "bill", "mark", "markCredits"} =>
              d \in mine[r] \cup group[r]

LEMMA LeftOutOnce ==
    ASSUME NEW D \in SUBSET Docs
    PROVE  LeftOut(D \ LeftOut(D)) = {}
<1> DEFINE E == D \ LeftOut(D)
<1>1. E \cap Notes = D \cap Notes
    BY DocumentsAssumption DEF LeftOut
<1>2. SUFFICES ASSUME NEW c \in E \cap Credits PROVE c \in Attached(E, Key[c])
    BY DEF LeftOut
<1> DEFINE k == Key[c]
           notes == OfKey(D \cap Notes, k)
           old == OfKey(D \cap Credits, k)
           kept == OfKey(E \cap Credits, k)
<1>3. c \in Attached(D, k) /\ notes # {}
    BY DEF LeftOut, Attached
<1>4. \A e \in Credits : e \in kept <=> e \in old /\ e \in Accepted(notes, old)
    BY <1>3 DEF LeftOut, OfKey, Attached
<1>5. old \in SUBSET Credits /\ kept \in SUBSET Credits
    BY DEF OfKey
<1>6. kept = Accepted(notes, old)
    <2>1. Accepted(notes, old) \subseteq old
      <3> HIDE DEF notes, old
      <3> QED BY <1>5, AcceptedIsStable
    <2> HIDE DEF notes, old, kept
    <2> QED BY <1>4, <1>5, <2>1
<1>7. Accepted(notes, kept) = kept
    <2> HIDE DEF notes, old, kept
    <2> QED BY <1>5, <1>6, AcceptedIsStable
<1>8. c \in kept
    BY DEF OfKey
<1> QED
    BY <1>1, <1>3, <1>7, <1>8 DEF Attached

LEMMA LeftOutOfNotes ==
    ASSUME NEW D \in SUBSET Notes
    PROVE  LeftOut(D) = {}
BY DocumentsAssumption DEF LeftOut

(* Taking the documents of one invoice away leaves the other invoices as   *)
(* they were.                                                              *)
LEMMA LeftOutAfterIssue ==
    ASSUME NEW D \in SUBSET Docs, NEW k \in Keys, LeftOut(D) = {}
    PROVE  LeftOut(D \ InvoiceFor(D, k)) = {}
<1> DEFINE E == D \ InvoiceFor(D, k)
<1>1. InvoiceFor(D, k) = OfKey(D, k)
    BY DEF InvoiceFor, Attached, LeftOut, OfKey, Docs
<1>2. \A c \in E \cap Credits : Key[c] # k
    BY <1>1 DEF OfKey
<1>3. \A j : j # k => /\ OfKey(E \cap Notes, j) = OfKey(D \cap Notes, j)
                      /\ OfKey(E \cap Credits, j) = OfKey(D \cap Credits, j)
    BY <1>1 DEF OfKey
<1>4. \A c \in E \cap Credits : Attached(E, Key[c]) = Attached(D, Key[c])
    BY <1>2, <1>3 DEF Attached
<1> QED
    BY <1>4 DEF LeftOut

(* An invoice is made for every key that still has a note, so that what is *)
(* left when no key has any is a credit note without an invoice.           *)
LEMMA NothingLeftOver ==
    ASSUME NEW D \in SUBSET Docs, LeftOut(D) = {}, {Key[n] : n \in D \cap Notes} = {}
    PROVE  D = {}
<1>1. D \cap Notes = {}
    OBVIOUS
<1>2. \A c \in D \cap Credits : c \in LeftOut(D)
    BY <1>1 DEF LeftOut, Attached, OfKey
<1> QED
    BY <1>1, <1>2 DEF Docs

LEMMA AtHandInit == Init => Visits /\ AtHand
BY CallsAssumption DEF Init, Visits, AtHand

(* A step that leaves the runs alone and claims nothing.                   *)
LEMMA AtHandFrame ==
    ASSUME Visits, AtHand, UNCHANGED <<pc, todo, mine, group>>,
           \A d \in Docs : status'[d] = "billing" =>
               \/ status[d] = "billing" /\ holder'[d] = holder[d]
               \/ holder'[d] \notin Runs
    PROVE  Visits' /\ AtHand'
BY DEF Visits, AtHand

LEMMA RunAtHand ==
    ASSUME TypeOK, TypeOK', Phases, Visits, AtHand,
           NEW r \in Runs, RunStep(r)
    PROVE  Visits' /\ AtHand'
<1> USE CallsAssumption, DocumentsAssumption
        DEF TypeOK, Goto, SetStatus, DropClaims, noteVars, runVars, Docs
<1>1. ASSUME NEW d \in Docs, ClaimNote(r, d) \/ ClaimCredit(r, d)
      PROVE  Visits' /\ AtHand'
  <2>0. /\ UNCHANGED <<pc, mine>>
        /\ \A q \in Runs : todo'[q] \subseteq todo[q]
    BY <1>1 DEF ClaimNote, ClaimCredit, Claim
  <2>1. Visits'
    BY <2>0 DEF Visits
  <2>2. AtHand'
    BY <1>1 DEF ClaimNote, ClaimCredit, Claim, Visits, AtHand
  <2> QED
    BY <2>1, <2>2
<1>2. CASE ReadClaimed(r)
  <2>1. Visits'
    BY <1>2, LeftOutOfNotes DEF ReadClaimed, Visits
  <2>2. AtHand'
    BY <1>2 DEF ReadClaimed, AtHand
  <2> QED
    BY <2>1, <2>2
<1>3. CASE OpenCredits(r)
  <2>1. Visits'
    BY <1>3, LeftOutOfNotes DEF OpenCredits, Visits
  <2>2. AtHand'
    BY <1>3 DEF OpenCredits, AtHand
  <2> QED
    BY <2>1, <2>2
<1>4. CASE ReadCredits(r)
  <2>1. Visits'
    BY <1>4 DEF ReadCredits, Visits
  <2>2. AtHand'
    BY <1>4 DEF ReadCredits, AtHand
  <2> QED
    BY <2>1, <2>2
<1>5. CASE SetAside(r)
  <2>1. Visits'
    BY <1>5, LeftOutOnce DEF SetAside, Visits
  <2>2. AtHand'
    BY <1>5 DEF SetAside, AtHand
  <2> QED
    BY <2>1, <2>2
<1>6. ASSUME NEW k \in Keys, Issue(r, k) \/ IssueLost(r, k)
      PROVE  Visits' /\ AtHand'
  <2> DEFINE billed == InvoiceFor(mine[r], k)
  <2> HIDE DEF billed
  <2>1. mine' = [mine EXCEPT ![r] = @ \ billed]
    BY <1>6 DEF Issue, IssueLost, billed
  <2>2. LeftOut(mine[r]) = {} => LeftOut(mine[r] \ billed) = {}
    BY LeftOutAfterIssue DEF billed
  <2>3. pc[r] = "bill" /\ UNCHANGED <<status, holder, todo>>
    BY <1>6 DEF Issue, IssueLost
  <2>4. \/ pc' = [pc EXCEPT ![r] = "mark"] /\ group' = [group EXCEPT ![r] = billed]
        \/ pc' = [pc EXCEPT ![r] = "release"] /\ UNCHANGED group
    BY <1>6 DEF Issue, IssueLost, billed
  <2>5. /\ mine'[r] = mine[r] \ billed
        /\ (pc'[r] = "mark" /\ group'[r] = billed) \/ pc'[r] = "release"
        /\ \A q \in Runs \ {r} : /\ mine'[q] = mine[q] /\ pc'[q] = pc[q]
                               /\ group'[q] = group[q]
    BY <2>1, <2>4
  <2> HIDE <2>1, <2>4
  <2>6. Visits'
    BY <2>2, <2>3, <2>5 DEF Visits
  <2>7. group[r] = {}
    BY <2>3 DEF Phases
  <2>8. AtHand'
    BY <2>3, <2>5, <2>7 DEF AtHand
  <2> QED
    BY <2>6, <2>8
<1>7. CASE IssueRejected(r) \/ Release(r) \/ Abort(r)
  <2>1. /\ pc'[r] \in {"release", "done", "dead"}
        /\ \A q \in Runs \ {r} : /\ pc'[q] = pc[q] /\ todo'[q] = todo[q]
                               /\ mine'[q] = mine[q]
    BY <1>7 DEF IssueRejected, Release, Abort
  <2>2. Visits'
    BY <2>1 DEF Visits
  <2>3. AtHand'
    BY <1>7 DEF IssueRejected, Release, Abort, AtHand
  <2> QED
    BY <2>2, <2>3
<1>8. CASE MarkNotes(r)
  <2>1. Visits'
    BY <1>8 DEF MarkNotes, Visits
  <2>2. AtHand'
    BY <1>8 DEF MarkNotes, AtHand
  <2> QED
    BY <2>1, <2>2
<1>9. CASE MarkCredits(r)
  <2>1. Visits'
    BY <1>9 DEF MarkCredits, Visits
  <2>2. AtHand'
    BY <1>9 DEF MarkCredits, AtHand
  <2> QED
    BY <2>1, <2>2
<1>10. ASSUME NEW written \in SUBSET Docs, MarkFails(r, written)
       PROVE  Visits' /\ AtHand'
  <2>1. Visits'
    BY <1>10 DEF MarkFails, Visits
  <2>2. AtHand'
    BY <1>10 DEF MarkFails, AtHand
  <2> QED
    BY <2>1, <2>2
<1>11. ASSUME NEW freed \in SUBSET Docs, ReopenFails(r, freed)
       PROVE  Visits' /\ AtHand'
  <2>1. Visits'
    BY <1>11 DEF ReopenFails, Visits
  <2>2. AtHand'
    BY <1>11 DEF ReopenFails, AtHand
  <2> QED
    BY <2>1, <2>2
<1>12. CASE Finish(r)
  <2>1. Visits'
    BY <1>12 DEF Finish, Visits
  <2>2. mine[r] = {} /\ group[r] = {}
    BY <1>12, NothingLeftOver DEF Finish, Visits, Phases, KeysLeft
  <2>3. AtHand'
    BY <1>12, <2>2 DEF Finish, AtHand
  <2> QED
    BY <2>1, <2>3
<1> QED
    BY <1>1, <1>2, <1>3, <1>4, <1>5, <1>6, <1>7, <1>8, <1>9, <1>10, <1>11, <1>12
       DEF RunStep

LEMMA NextAtHand ==
    ASSUME TypeOK, TypeOK', Phases, Visits, AtHand, [Next]_vars
    PROVE  Visits' /\ AtHand'
<1> USE CallsAssumption, DocumentsAssumption
        DEF TypeOK, Goto, SetStatus, DropClaims, noteVars, runVars, Docs
<1>1. ASSUME NEW r \in Runs, RunStart(r) PROVE Visits' /\ AtHand'
  <2>1. \A d \in Docs : holder[d] # r \/ pc[r] # "idle"
    BY DEF Phases
  <2>2. Visits'
    BY <1>1 DEF RunStart, CloseCustomerMonth, BillNoteImmediately, Visits
  <2>3. AtHand'
    BY <1>1, <2>1 DEF RunStart, CloseCustomerMonth, BillNoteImmediately, AtHand
  <2> QED
    BY <2>2, <2>3
<1>2. ASSUME NEW r \in Runs, RunStep(r) PROVE Visits' /\ AtHand'
    BY <1>2, RunAtHand
<1>3. ASSUME NEW x \in Refunds, RefundStep(x) PROVE Visits' /\ AtHand'
  <2>1. UNCHANGED <<pc, todo, mine, group, holder>>
    BY <1>3 DEF RefundStep, RefundRead, RefundReadNetted, RefundIssue, RefundLost,
        RefundRejected, OpenCredit, RefundWrite, RefundWriteFails,
        RefundWriteCredits, WriteNotes
  <2>2. \A d \in Docs : status'[d] = "billing" => status[d] = "billing"
    BY <1>3 DEF RefundStep, RefundRead, RefundReadNetted, RefundIssue, RefundLost,
        RefundRejected, OpenCredit, RefundWrite, RefundWriteFails,
        RefundWriteCredits, WriteNotes
  <2> QED
    BY <2>1, <2>2, AtHandFrame
<1>4. ASSUME NEW c \in Cancels, CancelStep(c) PROVE Visits' /\ AtHand'
    BY <1>4, AtHandFrame DEF CancelStep, CancelRead, CancelSave
<1>5. ASSUME NEW d \in Docs, ClaimAges(d) PROVE Visits' /\ AtHand'
    BY <1>5, AtHandFrame DEF ClaimAges
<1>6. CASE ReleaseStuckNotes \/ ReleaseStuckCredits
    BY <1>6, AtHandFrame DEF ReleaseStuckNotes, ReleaseStuckCredits, ReleaseStuck
<1>7. CASE Crash
  <2>1. Visits'
    BY <1>7 DEF Crash, Visits, Live
  <2>2. AtHand'
    BY <1>7 DEF Crash, AtHand, Live
  <2> QED
    BY <2>1, <2>2
<1>8. CASE UNCHANGED vars
    BY <1>8, AtHandFrame DEF vars
<1> QED
    BY <1>1, <1>2, <1>3, <1>4, <1>5, <1>6, <1>7, <1>8 DEF Next

(* A run that ends leaves nothing claimed, whatever fails on the way and   *)
(* whatever the amounts of the credit notes it asked for: the pass that    *)
(* attaches them to invoices agrees with itself when it is repeated on     *)
(* what was kept (attachCredits, lib/billing/monthlyBilling.js).           *)
THEOREM EndedRunsHoldNothing == Spec => []NothingStranded
<1>1. IInv => TypeOK /\ Phases
    BY DEF IInv
<1>2. TypeOK /\ Phases /\ TypeOK' /\ Visits /\ AtHand /\ [Next]_vars => Visits' /\ AtHand'
    BY NextAtHand
<1>3. AtHand => NothingStranded
    BY DEF AtHand, NothingStranded
<1> QED
    BY <1>1, <1>2, <1>3, AtHandInit, Invariance, PTL DEF Spec

-----------------------------------------------------------------------------
(* What the credit notes on an invoice leave of it.                        *)

Overdrawn(notes, credits) ==
    LET rest(part) == SumOf(part, notes) - SumOf(part, credits)
    IN  \/ rest("taxable") < 0
        \/ rest("exempt") < 0
        \/ rest("discount") < 0
        \/ rest("taxable") + rest("exempt") - rest("discount") <= 0

(* An invoice has documents of one key, and with the credit notes on it    *)
(* there is a note and something left to pay.                              *)
Payable(i) ==
    LET notes   == invoice[i] \cap Notes
        credits == invoice[i] \cap Credits
    IN  /\ \A d \in invoice[i] : Key[d] = i[2]
        /\ credits # {} => notes # {} /\ ~Overdrawn(notes, credits)

LEMMA AcceptedLeavesSomething ==
    ASSUME NEW notes, NEW S \in SUBSET Credits
    PROVE  Accepted(notes, S) = {} \/ ~Overdrawn(notes, Accepted(notes, S))
<1> DEFINE A(u) == Accepted(notes, u)
           Bad == {s \in SUBSET Credits : A(s) # {} /\ Overdrawn(notes, A(s))}
<1> HIDE DEF A
<1>1. ASSUME NEW s \in Bad, \A t \in Bad : t \subseteq s => t = s PROVE FALSE
  <2>1. s # {}
    BY AcceptedFollows DEF Follows, A
  <2> DEFINE x == Highest(s)
             T == A(s \ {x})
  <2>2. x \in s
    BY <2>1, HighestExists
  <2>3. T = {} \/ ~Overdrawn(notes, T)
    <3>1. s \ {x} \notin Bad
      BY <1>1, <2>2
    <3> QED BY <3>1
  <2>4. A(s) = Attach(notes, T, x)
    BY <2>1, AcceptedFollows DEF Follows, A
  <2>5. Blocked(notes, T, x) <=> Overdrawn(notes, T \cup {x})
    BY DEF Blocked, Overdrawn
  <2> HIDE DEF T, x
  <2>6. CASE Blocked(notes, T, x)
    BY <2>3, <2>4, <2>6 DEF Attach
  <2>7. CASE ~Blocked(notes, T, x)
    BY <2>4, <2>5, <2>7 DEF Attach
  <2> QED BY <2>6, <2>7
<1>2. Bad = {}
  <2>1. Bad \in SUBSET SUBSET Credits /\ IsFiniteSet(Credits)
    BY NumbersAssumption
  <2> HIDE DEF Bad
  <2> QED BY <1>1, <2>1, SmallestSubset
<1> QED BY <1>2 DEF A

LEMMA InvoiceForIsPayable ==
    ASSUME NEW D \in SUBSET Docs, NEW k,
           NEW B, B = InvoiceFor(D, k)
    PROVE  /\ \A d \in B : Key[d] = k
           /\ B \cap Credits # {} =>
                 B \cap Notes # {} /\ ~Overdrawn(B \cap Notes, B \cap Credits)
<1> DEFINE notes == OfKey(D \cap Notes, k)
           all == OfKey(D \cap Credits, k)
<1>1. all \in SUBSET Credits /\ notes \in SUBSET Notes
    BY DEF OfKey
<1>2. B \cap Notes = notes /\ B \cap Credits = Attached(D, k)
    BY <1>1, DocumentsAssumption DEF InvoiceFor, Attached, OfKey
<1>3. \A d \in B : Key[d] = k
    BY DEF InvoiceFor, Attached, OfKey
<1>4. Accepted(notes, all) \subseteq all
  <2> HIDE DEF notes, all
  <2> QED BY <1>1, AcceptedIsStable
<1>5. ASSUME Attached(D, k) # {}
      PROVE  notes # {} /\ Attached(D, k) = Accepted(notes, all)
    BY <1>4, <1>5 DEF Attached
<1>6. Accepted(notes, all) = {} \/ ~Overdrawn(notes, Accepted(notes, all))
  <2> HIDE DEF notes, all
  <2> QED BY <1>1, AcceptedLeavesSomething
<1> HIDE DEF notes, all
<1> QED
    BY <1>2, <1>3, <1>5, <1>6

(* Every invoice that monthly billing opens, whether its reply arrives or  *)
(* not, charges documents of one key, and the credit notes netted on it    *)
(* leave its taxable part, its exempt part and its discount nonnegative    *)
(* and something to pay, whatever the amounts and however many they are    *)
(* (creditBlocker and attachCredits, lib/billing/monthlyBilling.js).       *)
THEOREM NettingLeavesSomething == Spec => [](\A i \in DocNums : Payable(i))
<1> DEFINE Inv == \A i \in DocNums : Payable(i)
<1>1. Init => Inv
    BY DEF Init, Payable
<1>2. TypeOK /\ Inv /\ [Next]_vars => Inv'
  <2> SUFFICES ASSUME TypeOK, Inv, [Next]_vars PROVE Inv'
      OBVIOUS
  <2>1. ASSUME NEW r \in Runs, NEW k \in Keys, Issue(r, k) \/ IssueLost(r, k)
        PROVE  Inv'
    <3>1. mine[r] \in SUBSET Docs /\ invoice \in [DocNums -> SUBSET Docs]
      BY DEF TypeOK
    <3>2. PICK B : B = InvoiceFor(mine[r], k)
      OBVIOUS
    <3>3. invoice' = [invoice EXCEPT ![<<r, k>>] = B]
      BY <2>1, <3>2 DEF Issue, IssueLost
    <3>4. invoice'[<<r, k>>] = B /\ <<r, k>>[2] = k
      BY <3>1, <3>3 DEF DocNums
    <3>5. \A i \in DocNums : i # <<r, k>> => invoice'[i] = invoice[i]
      BY <3>1, <3>3
    <3>6. Payable(<<r, k>>)'
      <4>1. /\ \A d \in B : Key[d] = k
            /\ B \cap Credits # {} =>
                  B \cap Notes # {} /\ ~Overdrawn(B \cap Notes, B \cap Credits)
        BY <3>1, <3>2, InvoiceForIsPayable
      <4> QED
        BY <3>4, <4>1 DEF Payable
    <3>7. \A i \in DocNums : i # <<r, k>> => Payable(i)'
      BY <3>5 DEF Payable
    <3> QED
      BY <3>6, <3>7
  <2>2. CASE ~(\E r \in Runs, k \in Keys : Issue(r, k) \/ IssueLost(r, k))
    <3> SUFFICES invoice' = invoice
        BY DEF Payable
    <3>1. ASSUME NEW r \in Runs, RunStart(r) \/ RunStep(r) PROVE invoice' = invoice
      <4>1. CASE RunStart(r)
        BY <4>1 DEF RunStart, CloseCustomerMonth, BillNoteImmediately
      <4>2. CASE \/ \E d \in Docs : ClaimNote(r, d) \/ ClaimCredit(r, d)
                 \/ ReadClaimed(r) \/ OpenCredits(r) \/ ReadCredits(r) \/ SetAside(r)
        BY <4>2 DEF ClaimNote, ClaimCredit, Claim, ReadClaimed, OpenCredits, ReadCredits,
                    SetAside
      <4>3. CASE \/ IssueRejected(r) \/ MarkNotes(r) \/ MarkCredits(r)
                 \/ \E written \in SUBSET Docs : MarkFails(r, written)
        BY <4>3 DEF IssueRejected, MarkNotes, MarkCredits, MarkFails
      <4>4. CASE \/ Release(r) \/ \E freed \in SUBSET Docs : ReopenFails(r, freed)
                 \/ Finish(r) \/ Abort(r)
        BY <4>4 DEF Release, ReopenFails, Finish, Abort
      <4> QED
        BY <2>2, <3>1, <4>1, <4>2, <4>3, <4>4 DEF RunStep
    <3>2. ASSUME NEW x \in Refunds, RefundStep(x) PROVE invoice' = invoice
      BY <3>2
         DEF RefundStep, RefundRead, RefundReadNetted, RefundIssue, RefundLost,
             RefundRejected, OpenCredit, RefundWrite, RefundWriteFails,
             RefundWriteCredits
    <3>3. ASSUME NEW c \in Cancels, CancelStep(c) PROVE invoice' = invoice
      BY <3>3 DEF CancelStep, CancelRead, CancelSave
    <3>4. CASE \E d \in Docs : ClaimAges(d)
      BY <3>4 DEF ClaimAges
    <3>5. CASE ReleaseStuckNotes \/ ReleaseStuckCredits
      BY <3>5 DEF ReleaseStuckNotes, ReleaseStuckCredits, ReleaseStuck
    <3>6. CASE Crash
      BY <3>6 DEF Crash
    <3>7. CASE UNCHANGED vars
      BY <3>7 DEF vars
    <3> QED
      BY <3>1, <3>2, <3>3, <3>4, <3>5, <3>6, <3>7 DEF Next
  <2> QED
    BY <2>1, <2>2
<1>3. IInv => TypeOK
    BY DEF IInv
<1> QED
    BY <1>1, <1>2, <1>3, Invariance, PTL DEF Spec

-----------------------------------------------------------------------------
(* The book of InvoiceBook: what monthly billing implements.               *)

(* Whatever names an invoice names one that was issued.                    *)
NumbersAreIssued ==
    /\ \A d \in Docs : docNum[d] \in DocNums => invoice[docNum[d]] # {}
    /\ \A r \in Runs : group[r] # {} => invoice[current[r]] # {}
    /\ \A x \in Refunds : rpc[x] # "idle" => invoice[rdoc[x]] # {}

Issued == {i \in DocNums : invoice[i] # {}}

TheBook == {b \in Sound \X DocNums : Charged(b[1], b[2])}

-----------------------------------------------------------------------------
LEMMA NumbersInit == Init => NumbersAreIssued
BY CallsAssumption DEF Init, NumbersAreIssued

(* Only Issue and IssueLost touch `invoice', and what they put is a new    *)
(* invoice with at least the note whose key they took.                     *)
LEMMA IssuesSomething ==
    ASSUME IInv, NEW r \in Runs, NEW k \in Keys, pc[r] = "bill", k \in KeysLeft(r)
    PROVE  /\ InvoiceFor(mine[r], k) # {}
           /\ InvoiceFor(mine[r], k) \in SUBSET mine[r]
           /\ <<r, k>> \in DocNums
           /\ invoice[<<r, k>>] = {}
           /\ group[r] = {}
<1>1. PICK n \in mine[r] \cap Notes : Key[n] = k
    BY DEF KeysLeft
<1>2. mine[r] \in SUBSET Docs
    BY DEF IInv, TypeOK
<1>3. n \in InvoiceFor(mine[r], k) /\ InvoiceFor(mine[r], k) \in SUBSET mine[r]
    BY <1>1, <1>2, InvoiceForIsDocs DEF OfKey
<1>4. invoice[<<r, k>>] = {}
    BY <1>1 DEF IInv, Fresh
<1>5. group[r] = {}
    BY DEF IInv, Phases
<1> QED
    BY <1>3, <1>4, <1>5 DEF DocNums

LEMMA NumbersNext ==
    ASSUME IInv, IInv', NumbersAreIssued, [Next]_vars
    PROVE  NumbersAreIssued'
<1> USE DEF NumbersAreIssued, noteVars, runVars, refundVars, cancelVars, Goto,
            SetStatus, SetDocNum, DropClaims, Docs
<1> USE CallsAssumption
<1>0. TypeOK /\ Phases
    BY DEF IInv
<1>1. ASSUME NEW r \in Runs, RunStart(r) PROVE NumbersAreIssued'
    BY <1>1 DEF RunStart, CloseCustomerMonth, BillNoteImmediately
<1>2. ASSUME NEW r \in Runs, NEW d \in Docs, ClaimNote(r, d) \/ ClaimCredit(r, d)
      PROVE  NumbersAreIssued'
    BY <1>2 DEF ClaimNote, ClaimCredit, Claim
<1>3. ASSUME NEW r \in Runs,
             \/ ReadClaimed(r) \/ OpenCredits(r) \/ ReadCredits(r) \/ SetAside(r)
             \/ IssueRejected(r) \/ Release(r) \/ Finish(r) \/ Abort(r)
      PROVE  NumbersAreIssued'
  <2>1. UNCHANGED <<docNum, invoice, group, current, rpc, rdoc>>
    BY <1>3 DEF ReadClaimed, OpenCredits, ReadCredits, SetAside, IssueRejected,
                Release, Finish, Abort
  <2> QED
    BY <2>1
<1>15. ASSUME NEW r \in Runs, NEW freed \in SUBSET Docs, ReopenFails(r, freed)
       PROVE  NumbersAreIssued'
  <2>1. UNCHANGED <<docNum, invoice, group, current, rpc, rdoc>>
    BY <1>15 DEF ReopenFails
  <2> QED
    BY <2>1
<1>4. ASSUME NEW r \in Runs, NEW k \in Keys, Issue(r, k) \/ IssueLost(r, k)
      PROVE  NumbersAreIssued'
  <2> DEFINE billed == InvoiceFor(mine[r], k)
  <2>1. pc[r] = "bill" /\ k \in KeysLeft(r)
    BY <1>4 DEF Issue, IssueLost
  <2>2. billed # {} /\ <<r, k>> \in DocNums /\ group[r] = {}
    BY ONLY IInv, <2>1, IssuesSomething
  <2>3. /\ invoice' = [invoice EXCEPT ![<<r, k>>] = billed]
        /\ UNCHANGED <<docNum, rpc, rdoc>>
        /\ \/ UNCHANGED <<group, current>>
           \/ /\ group' = [group EXCEPT ![r] = billed]
              /\ current' = [current EXCEPT ![r] = <<r, k>>]
    <3>1. CASE Issue(r, k)
        BY <3>1 DEF Issue
    <3>2. CASE IssueLost(r, k)
        BY <3>2 DEF IssueLost
    <3> QED
        BY <1>4, <3>1, <3>2
  <2> HIDE DEF billed
  <2>4. \A i \in DocNums : invoice[i] # {} => invoice'[i] # {}
    BY <1>0, <2>2, <2>3 DEF TypeOK
  <2>5. \A d \in Docs : docNum'[d] \in DocNums => invoice'[docNum'[d]] # {}
    BY <2>3, <2>4
  <2>6. \A x \in Refunds : rpc'[x] # "idle" => invoice'[rdoc'[x]] # {}
    BY <2>3, <2>4 DEF IInv, Crediting
  <2>7. ASSUME NEW q \in Runs, group'[q] # {} PROVE invoice'[current'[q]] # {}
    <3>1. CASE q = r /\ group'[r] = billed /\ current'[r] = <<r, k>>
        BY <1>0, <2>2, <2>3, <3>1 DEF TypeOK
    <3>2. CASE group'[q] = group[q] /\ current'[q] = current[q]
        BY <2>4, <2>7, <3>2 DEF IInv, InHand
    <3> QED
        BY <1>0, <2>3, <3>1, <3>2 DEF TypeOK
  <2> QED
    BY <2>5, <2>6, <2>7
<1>5. ASSUME NEW r \in Runs, MarkNotes(r) \/ MarkCredits(r) PROVE NumbersAreIssued'
  <2>1. /\ UNCHANGED <<invoice, current, rpc, rdoc>>
        /\ \A q \in Runs : group'[q] \subseteq group[q]
        /\ \A d \in Docs : docNum'[d] = docNum[d]
                           \/ (group[r] # {} /\ docNum'[d] = current[r])
    BY <1>0, <1>5 DEF MarkNotes, MarkCredits, TypeOK
  <2> QED
    BY <2>1
<1>6. ASSUME NEW r \in Runs, NEW written \in SUBSET Docs, MarkFails(r, written)
      PROVE  NumbersAreIssued'
  <2>1. /\ UNCHANGED <<invoice, current, rpc, rdoc>>
        /\ \A q \in Runs : group'[q] \subseteq group[q]
        /\ \A d \in Docs : docNum'[d] = docNum[d]
                           \/ (group[r] # {} /\ docNum'[d] = current[r])
    BY <1>0, <1>6 DEF MarkFails, TypeOK
  <2> QED
    BY <2>1
<1>7. ASSUME NEW x \in Refunds, NEW i \in DocNums, RefundRead(x, i)
      PROVE  NumbersAreIssued'
    BY <1>0, <1>7 DEF RefundRead, TypeOK
<1>8. ASSUME NEW x \in Refunds,
             \/ RefundReadNetted(x) \/ RefundIssue(x) \/ RefundLost(x)
             \/ RefundRejected(x)
      PROVE  NumbersAreIssued'
  <2>1. /\ UNCHANGED <<docNum, invoice, group, current, rdoc>>
        /\ \A y \in Refunds : rpc[y] = "idle" => rpc'[y] = "idle"
    BY <1>0, <1>8 DEF RefundReadNetted, RefundIssue, RefundLost, OpenCredit,
                      RefundRejected, TypeOK
  <2> QED
    BY <2>1
<1>9. ASSUME NEW x \in Refunds, NEW reopen \in BOOLEAN, NEW written \in SUBSET Docs,
             \/ RefundWrite(x, reopen) \/ RefundWriteFails(x, reopen, written)
             \/ RefundWriteCredits(x, written)
      PROVE  NumbersAreIssued'
  <2>1. /\ UNCHANGED <<invoice, group, current, rdoc>>
        /\ \A y \in Refunds : rpc[y] = "idle" => rpc'[y] = "idle"
        /\ \A d \in Docs : docNum'[d] = docNum[d] \/ docNum'[d] = None
    BY <1>0, <1>9 DEF RefundWrite, RefundWriteFails, RefundWriteCredits,
                      WriteNotes, TypeOK
  <2> QED
    BY <2>1
<1>10. ASSUME NEW c \in Cancels, CancelStep(c) PROVE NumbersAreIssued'
    BY <1>10 DEF CancelStep, CancelRead, CancelSave
<1>11. ASSUME NEW d \in Docs, ClaimAges(d) PROVE NumbersAreIssued'
    BY <1>11 DEF ClaimAges
<1>12. CASE ReleaseStuckNotes \/ ReleaseStuckCredits
    BY <1>12 DEF ReleaseStuckNotes, ReleaseStuckCredits, ReleaseStuck
<1>13. CASE Crash
    BY <1>0, <1>13 DEF Crash, TypeOK, RefundLive
<1>14. CASE UNCHANGED vars
    BY <1>14 DEF vars
<1> QED
    BY <1>1, <1>2, <1>3, <1>4, <1>5, <1>6, <1>7, <1>8, <1>9, <1>10, <1>11, <1>12,
       <1>13, <1>14, <1>15 DEF Next, RunStep, RefundStep

-----------------------------------------------------------------------------
(* The steps of MonthlyBilling, seen in the book.                          *)

USE DEF Book!bookVars, Sound

(* Most steps neither issue nor credit anything.                           *)
LEMMA QuietStep ==
    ASSUME invoice' = invoice, incident' = incident,
           \A i \in DocNums : RefundedOf(i)' = RefundedOf(i)
    PROVE  UNCHANGED Book!bookVars
BY DEF Charged

(* An accident: nothing is issued, some documents are given up.            *)
LEMMA AccidentStep ==
    ASSUME invoice' = invoice, NEW L \in SUBSET Docs, incident' = incident \cup L,
           \A i \in DocNums : RefundedOf(i)' = RefundedOf(i)
    PROVE  [Book!Next]_(Book!bookVars)
<1>1. Book!Lose(L, {})
    BY DEF Charged, Book!Lose
<1> QED
    BY <1>1 DEF Book!Next

LEMMA IssueStep ==
    ASSUME IInv, TypeOK', NumbersAreIssued, NEW r \in Runs, NEW k \in Keys, Issue(r, k)
    PROVE  Book!Next
<1> DEFINE billed == InvoiceFor(mine[r], k)
           i == <<r, k>>
<1>1. pc[r] = "bill" /\ k \in KeysLeft(r)
    BY DEF Issue
<1>2. /\ billed # {} /\ billed \in SUBSET mine[r] /\ i \in DocNums
      /\ invoice[i] = {} /\ group[r] = {}
    BY ONLY IInv, <1>1, IssuesSomething
<1>3. /\ invoice' = [invoice EXCEPT ![i] = billed]
      /\ UNCHANGED <<incident, refunded, rdoc>>
    BY DEF Issue, refundVars
<1> HIDE DEF billed, i
<1>4. \A d \in billed \ incident, j \in DocNums : ~Charged(d, j)
  <2>1. \A d \in billed \ incident : d \in Sound /\ holder[d] = r
    BY <1>2 DEF IInv, InHand, TypeOK
  <2> QED
    BY <1>2, <2>1, HeldIsUncharged
<1>5. \A d \in Docs, j \in DocNums :
          Charged(d, j)' <=> Charged(d, j) \/ (j = i /\ d \in billed)
  <2>1. \A j \in DocNums : RefundedOf(j)' = RefundedOf(j)
    BY <1>3 DEF RefundedOf
  <2>2. \A d \in RefundedOf(i) : FALSE
    BY <1>2 DEF RefundedOf, NumbersAreIssued, IInv, Crediting
  <2> QED
    BY <1>2, <1>3, <2>1, <2>2 DEF Charged, IInv, TypeOK
<1>6. Book!Issue(i, billed \ incident)
  <2> DEFINE S == billed \ incident
  <2>1. billed \in SUBSET Docs
    BY <1>2 DEF IInv, TypeOK
  <2>2. i \notin Issued /\ Issued' = Issued \cup {i}
    BY <1>2, <1>3 DEF Issued, IInv, TypeOK
  <2>3. S \cap ({b[1] : b \in TheBook} \cup incident) = {}
    BY <1>4 DEF TheBook
  <2>4. TheBook' = TheBook \cup (S \X {i})
    BY <1>2, <1>3, <1>5, <2>1 DEF TheBook
  <2> QED
    BY <1>3, <2>2, <2>3, <2>4 DEF Book!Issue, Book!ChargedDocs, TheBook, Issued
<1>7. billed \ incident \in SUBSET Docs
    BY <1>2 DEF IInv, TypeOK
<1> QED
    BY ONLY <1>2, <1>6, <1>7 DEF Book!Next, Book!Issue

(* The reply was lost: the books learn of neither the invoice nor what     *)
(* became of its documents.                                                *)
LEMMA IssueLostStep ==
    ASSUME IInv, NumbersAreIssued, NEW r \in Runs, NEW k \in Keys, IssueLost(r, k)
    PROVE  Book!Next
<1> DEFINE billed == InvoiceFor(mine[r], k)
           i == <<r, k>>
<1>1. pc[r] = "bill" /\ k \in KeysLeft(r)
    BY DEF IssueLost
<1>2. /\ billed # {} /\ billed \in SUBSET mine[r] /\ i \in DocNums
      /\ invoice[i] = {} /\ group[r] = {}
    BY ONLY IInv, <1>1, IssuesSomething
<1>3. /\ invoice' = [invoice EXCEPT ![i] = billed]
      /\ incident' = incident \cup billed
      /\ UNCHANGED <<refunded, rdoc>>
    BY DEF IssueLost, refundVars
<1> HIDE DEF billed, i
<1>4. \A d \in Docs \ billed, j \in DocNums : Charged(d, j)' <=> Charged(d, j)
  <2>1. \A j \in DocNums : RefundedOf(j)' = RefundedOf(j)
    BY <1>3 DEF RefundedOf
  <2> QED
    BY <1>2, <1>3, <2>1 DEF Charged, IInv, TypeOK
<1>5. billed \in SUBSET Docs
    BY <1>2 DEF IInv, TypeOK
<1>6. Book!Lose(billed, {i})
  <2>1. i \notin Issued /\ Issued' = Issued \cup {i}
    BY <1>2, <1>3 DEF Issued, IInv, TypeOK
  <2>2. TheBook' = {b \in TheBook : b[1] \notin billed}
    BY <1>3, <1>4, <1>5 DEF TheBook
  <2> QED
    BY <1>3, <2>1, <2>2 DEF Book!Lose, TheBook, Issued
<1>7. {i} \in {{}} \cup {{j} : j \in DocNums}
    BY <1>2
<1> QED
    BY ONLY <1>5, <1>6, <1>7 DEF Book!Next, Book!Lose

LEMMA CreditStep ==
    ASSUME IInv, NumbersAreIssued, NEW x \in Refunds, OpenCredit(x)
    PROVE  Book!Next
<1> DEFINE i == rdoc[x]
           L == rdocs[x] \cap RefundedOf(i)
<1>1. /\ rpc[x] = "issue"
      /\ refunded' = [refunded EXCEPT ![x] = rdocs[x]]
      /\ incident' = incident \cup L
      /\ UNCHANGED <<rdoc, invoice>>
    BY DEF OpenCredit
<1>2. i \in Issued /\ refunded[x] = {} /\ rdocs[x] \in SUBSET Docs
    BY <1>1 DEF IInv, Crediting, NumbersAreIssued, Issued, TypeOK
<1>3. \A j \in DocNums : RefundedOf(j)' =
          RefundedOf(j) \cup (IF j = i THEN rdocs[x] ELSE {})
    BY <1>1, <1>2 DEF RefundedOf, IInv, TypeOK
<1> HIDE DEF i, L
<1>4. \A d \in Docs, j \in DocNums :
          Charged(d, j)' <=> Charged(d, j) /\ ~(j = i /\ d \in rdocs[x])
    BY <1>1, <1>3 DEF Charged
<1>5. L \in SUBSET Docs
    BY <1>2 DEF L
<1>6. Book!Credit(i, rdocs[x], L)
  <2>1. Issued' = Issued
    BY <1>1 DEF Issued
  <2>2. TheBook' = {b \in TheBook : b[1] \notin L /\ b \notin rdocs[x] \X {i}}
    BY <1>1, <1>4, <1>5 DEF TheBook
  <2> QED
    BY <1>1, <1>2, <2>1, <2>2 DEF Book!Credit, TheBook, Issued
<1> QED
    BY ONLY <1>2, <1>5, <1>6 DEF Book!Next, Book!Credit, Issued

LEMMA RunStepsInTheBook ==
    ASSUME IInv, IInv', NumbersAreIssued, NEW r \in Runs, RunStart(r) \/ RunStep(r)
    PROVE  [Book!Next]_(Book!bookVars)
<1>1. ASSUME NEW k \in Keys, Issue(r, k) \/ IssueLost(r, k) PROVE Book!Next
    BY <1>1, IssueStep, IssueLostStep DEF IInv
<1>2. ASSUME NEW written \in SUBSET Docs, MarkFails(r, written)
      PROVE  [Book!Next]_(Book!bookVars)
  <2>1. /\ UNCHANGED <<invoice, refunded, rdoc>>
        /\ incident' = incident \cup (group[r] \ written)
    BY <1>2 DEF MarkFails, refundVars
  <2>2. \A i \in DocNums : RefundedOf(i)' = RefundedOf(i)
    BY <2>1 DEF RefundedOf
  <2>3. group[r] \ written \in SUBSET Docs
    BY DEF IInv, TypeOK
  <2> QED
    BY <2>1, <2>2, <2>3, AccidentStep
<1>3. ASSUME NEW d \in Docs, ClaimNote(r, d) \/ ClaimCredit(r, d)
      PROVE  UNCHANGED <<invoice, incident, refunded, rdoc>>
    BY <1>3 DEF ClaimNote, ClaimCredit, Claim, refundVars
<1>4. CASE RunStart(r)
  <2>1. UNCHANGED <<invoice, incident, refunded, rdoc>>
    BY <1>4 DEF RunStart, CloseCustomerMonth, BillNoteImmediately, refundVars
  <2> QED
    BY <2>1, QuietStep DEF RefundedOf
<1>5. CASE \/ ReadClaimed(r) \/ OpenCredits(r) \/ ReadCredits(r) \/ SetAside(r)
           \/ IssueRejected(r) \/ MarkNotes(r) \/ MarkCredits(r)
           \/ Release(r) \/ Finish(r) \/ Abort(r)
  <2>1. UNCHANGED <<invoice, incident, refunded, rdoc>>
    BY <1>5 DEF ReadClaimed, OpenCredits, ReadCredits, SetAside, IssueRejected,
                MarkNotes, MarkCredits, Release, Finish, Abort, refundVars
  <2> QED
    BY <2>1, QuietStep DEF RefundedOf
<1>6. ASSUME NEW d \in Docs, ClaimNote(r, d) \/ ClaimCredit(r, d)
      PROVE  UNCHANGED Book!bookVars
    BY <1>3, <1>6, QuietStep DEF RefundedOf
<1>7. ASSUME NEW freed \in SUBSET Docs, ReopenFails(r, freed)
      PROVE  UNCHANGED Book!bookVars
  <2>1. UNCHANGED <<invoice, incident, refunded, rdoc>>
    BY <1>7 DEF ReopenFails, refundVars
  <2> QED
    BY <2>1, QuietStep DEF RefundedOf
<1> QED
    BY <1>1, <1>2, <1>4, <1>5, <1>6, <1>7 DEF RunStep

LEMMA RefundStepsInTheBook ==
    ASSUME IInv, IInv', NumbersAreIssued, NEW x \in Refunds, RefundStep(x)
    PROVE  [Book!Next]_(Book!bookVars)
<1>1. CASE RefundIssue(x) \/ RefundLost(x)
    BY <1>1, CreditStep DEF RefundIssue, RefundLost
<1>2. ASSUME NEW k \in DocNums, RefundRead(x, k) PROVE UNCHANGED Book!bookVars
  <2>1. refunded[x] = {}
    BY <1>2 DEF RefundRead, IInv, Crediting
  <2>2. UNCHANGED <<invoice, incident, refunded>>
    BY <1>2 DEF RefundRead
  <2>3. \A y \in Refunds : y # x => rdoc'[y] = rdoc[y]
    BY <1>2 DEF RefundRead, IInv, TypeOK
  <2>4. \A j \in DocNums : RefundedOf(j)' = RefundedOf(j)
    BY <2>1, <2>2, <2>3 DEF RefundedOf
  <2> QED
    BY <2>2, <2>4, QuietStep
<1>3. ASSUME NEW reopen \in BOOLEAN, NEW written \in SUBSET Docs,
             \/ RefundReadNetted(x) \/ RefundRejected(x) \/ RefundWrite(x, reopen)
             \/ RefundWriteFails(x, reopen, written)
             \/ RefundWriteCredits(x, written)
      PROVE  UNCHANGED Book!bookVars
  <2>1. UNCHANGED <<invoice, incident, refunded, rdoc>>
    BY <1>3 DEF RefundReadNetted, RefundRejected, RefundWrite, RefundWriteFails,
                RefundWriteCredits
  <2> QED
    BY <2>1, QuietStep DEF RefundedOf
<1> QED
    BY <1>1, <1>2, <1>3 DEF RefundStep

LEMMA NextInTheBook ==
    ASSUME IInv, IInv', NumbersAreIssued, [Next]_vars
    PROVE  [Book!Next]_(Book!bookVars)
<1>1. ASSUME NEW r \in Runs, RunStart(r) \/ RunStep(r)
      PROVE  [Book!Next]_(Book!bookVars)
    BY <1>1, RunStepsInTheBook
<1>2. ASSUME NEW x \in Refunds, RefundStep(x) PROVE [Book!Next]_(Book!bookVars)
    BY <1>2, RefundStepsInTheBook
<1>3. ASSUME NEW d \in Docs, ClaimAges(d) PROVE [Book!Next]_(Book!bookVars)
  <2>1. incident' = incident \cup (IF Live(holder[d]) THEN {d} ELSE {})
    BY <1>3 DEF ClaimAges
  <2>2. UNCHANGED <<invoice, refunded, rdoc>>
    BY <1>3 DEF ClaimAges, refundVars
  <2>3. (IF Live(holder[d]) THEN {d} ELSE {}) \in SUBSET Docs
    OBVIOUS
  <2> QED
    BY <2>1, <2>2, <2>3, AccidentStep DEF RefundedOf
<1>4. CASE Crash
  <2>1. /\ incident' = incident \cup UNION {group[r] : r \in Runs}
        /\ UNCHANGED <<invoice, refunded, rdoc>>
    BY <1>4 DEF Crash
  <2>2. UNION {group[r] : r \in Runs} \in SUBSET Docs
    BY DEF IInv, TypeOK
  <2> QED
    BY <2>1, <2>2, AccidentStep DEF RefundedOf
<1>5. ASSUME \/ \E c \in Cancels : CancelStep(c)
             \/ ReleaseStuckNotes \/ ReleaseStuckCredits \/ UNCHANGED vars
      PROVE  UNCHANGED Book!bookVars
  <2>1. UNCHANGED <<invoice, incident, refunded, rdoc>>
    BY <1>5 DEF CancelStep, CancelRead, CancelSave, ReleaseStuckNotes,
                ReleaseStuckCredits, ReleaseStuck, vars, refundVars
  <2> QED
    BY <2>1, QuietStep DEF RefundedOf
<1> QED
    BY <1>1, <1>2, <1>3, <1>4, <1>5 DEF Next

(* Monthly billing implements the book, for every customer and every       *)
(* history of runs, credits, cancellations, crashes and lost replies.      *)
THEOREM BillingKeepsTheBook == Spec => KeepsTheBook
<1>1. Init => Book!Init
    BY DEF Init, Book!Init, Charged
<1>2. NumbersAreIssued /\ IInv /\ IInv' /\ [Next]_vars => NumbersAreIssued'
    BY NumbersNext
<1>3. NumbersAreIssued /\ IInv /\ IInv' /\ [Next]_vars =>
          [Book!Next]_(Book!bookVars)
    BY NextInTheBook
<1> QED
    BY <1>1, <1>2, <1>3, NumbersInit, Invariance, PTL
       DEF Spec, KeepsTheBook, Book!Spec
=============================================================================
