--------------------------- MODULE MonthlyBilling ---------------------------
(***************************************************************************)
(* How the delivery notes of one customer become iCount invoices, and how  *)
(* an invoice is taken back: lib/billing/monthlyBilling.js, with the       *)
(* cancellation of a note (deliveryNotes.js) and the hourly release of     *)
(* stuck claims (monthEndCron.js).                                         *)
(*                                                                         *)
(* An invoice is a tax document: it cannot be deleted, only credited.  The *)
(* code therefore claims the notes first (open -> billing, with the token  *)
(* of the run), then calls iCount, then marks the notes billed.  Every     *)
(* `await' of the code is a boundary between two actions here, so runs,    *)
(* credits, cancellations and the cron interleave between any two          *)
(* database calls; the process can die at each of them.                    *)
(*                                                                         *)
(* The documents of one customer are modelled, with the process in live    *)
(* mode: lib/billing/ledger.js then reads and writes the real pocket of a  *)
(* document only, and no query here reaches two customers.                 *)
(***************************************************************************)
EXTENDS Integers, FiniteSets, Folds, FiniteSetsExt

CONSTANTS
    Notes,       \* delivery notes of the customer
    Credits,     \* credit notes of the customer, which an invoice may net
    Keys,        \* invoice keys: one invoice of a run per key
    Key,         \* Key[d]: the invoice the document belongs on
    Number,      \* Number[c]: serial number of a credit note
    Lines,       \* Lines[d]: what the document adds up to (in agorot)
    Runs,        \* calls of closeCustomerMonth / billNoteImmediately
    Refunds,     \* calls of creditInvoice
    Locked,      \* those of them made by reissueInvoice, under its lock
    Cancels,     \* calls of deliveryNotes.cancel
    Faults,      \* which kinds of failure the environment may show
    NoRun,       \* "no claim token"
    None         \* "not set": no invoice number, no note

Docs == Notes \cup Credits

(* A run issues at most one invoice per key, so the pair identifies it.    *)
DocNums == Runs \X Keys

FaultKinds == {"crash", "dbFails", "rejected", "lostReply", "slowRun"}

ASSUME DocumentsAssumption ==
    /\ Notes \cap Credits = {}
    /\ Key \in [Docs -> Keys]
    /\ Number \in [Credits -> Nat]
    /\ Lines \in [Docs -> [taxable : Nat, exempt : Nat, discount : Nat]]

(* No two credit notes share a number (models/CreditNote.js, `unique').     *)
ASSUME NumbersAssumption ==
    /\ IsFiniteSet(Credits)
    /\ \A c, e \in Credits : Number[c] = Number[e] => c = e

ASSUME CallsAssumption ==
    /\ Locked \subseteq Refunds
    /\ Faults \subseteq FaultKinds
    /\ NoRun \notin Runs
    /\ None \notin DocNums \cup Docs

VARIABLES
    status,      \* status[d]: billing.status of the document
    holder,      \* holder[d]: billing.claimToken
    stale,       \* documents whose billing.claimedAt is past the cutoff
    docNum,      \* docNum[d]: icountDocNum of a note, invoiceDocNum of a credit
    pc,          \* pc[r]: where run r stands
    wanted,      \* wanted[r]: the credit notes the call asked for
    todo,        \* todo[r]: documents the running updateMany has yet to visit
    mine,        \* mine[r]: claimed documents in memory, not yet invoiced
    group,       \* group[r]: documents of the invoice issued and not yet marked
    current,     \* current[r]: the number of that invoice
    invoice,     \* invoice[i]: documents on invoice i, {} if not issued
    rpc,         \* rpc[x]: where credit call x stands
    rdoc,        \* rdoc[x]: the invoice it credits
    rdocs,       \* rdocs[x]: the documents it read behind that invoice
    refunded,    \* refunded[x]: the documents its iCount credit covers
    cpc,         \* cpc[c]: where cancellation c stands
    cnote,       \* cnote[c]: the note it cancels
    csaw,        \* csaw[c]: the status it read
    incident     \* documents hit by a failure the code only logs (history)

noteVars   == <<status, holder, stale, docNum>>
runVars    == <<pc, wanted, todo, mine, group, current>>
refundVars == <<rpc, rdoc, rdocs, refunded>>
cancelVars == <<cpc, cnote, csaw>>
vars == <<noteVars, runVars, refundVars, cancelVars, invoice, incident>>

Statuses == {"open", "billing", "billed", "netted", "cancelled"}
RunSteps == {"idle", "claim", "openCredits", "claimCredits", "setAside",
             "bill", "mark", "markCredits", "release", "done", "dead"}
RefundSteps == {"idle", "netted", "issue", "write", "writeCredits", "done"}
CancelSteps == {"idle", "save", "done"}

TypeOK ==
    /\ status \in [Docs -> Statuses]
    /\ holder \in [Docs -> Runs \cup {NoRun}]
    /\ stale \in SUBSET Docs
    /\ docNum \in [Docs -> DocNums \cup {None}]
    /\ pc \in [Runs -> RunSteps]
    /\ wanted \in [Runs -> SUBSET Credits]
    /\ todo \in [Runs -> SUBSET Docs]
    /\ mine \in [Runs -> SUBSET Docs]
    /\ group \in [Runs -> SUBSET Docs]
    /\ current \in [Runs -> DocNums \cup {None}]
    /\ invoice \in [DocNums -> SUBSET Docs]
    /\ rpc \in [Refunds -> RefundSteps]
    /\ rdoc \in [Refunds -> DocNums \cup {None}]
    /\ rdocs \in [Refunds -> SUBSET Docs]
    /\ refunded \in [Refunds -> SUBSET Docs]
    /\ cpc \in [Cancels -> CancelSteps]
    /\ cnote \in [Cancels -> Notes \cup {None}]
    /\ csaw \in [Cancels -> Statuses]
    /\ incident \in SUBSET Docs

Init ==
    /\ status = [d \in Docs |-> "open"]
    /\ holder = [d \in Docs |-> NoRun]
    /\ stale = {}
    /\ docNum = [d \in Docs |-> None]
    /\ pc = [r \in Runs |-> "idle"]
    /\ wanted = [r \in Runs |-> {}]
    /\ todo = [r \in Runs |-> {}]
    /\ mine = [r \in Runs |-> {}]
    /\ group = [r \in Runs |-> {}]
    /\ current = [r \in Runs |-> None]
    /\ invoice = [i \in DocNums |-> {}]
    /\ rpc = [x \in Refunds |-> "idle"]
    /\ rdoc = [x \in Refunds |-> None]
    /\ rdocs = [x \in Refunds |-> {}]
    /\ refunded = [x \in Refunds |-> {}]
    /\ cpc = [c \in Cancels |-> "idle"]
    /\ cnote = [c \in Cancels |-> None]
    /\ csaw = [c \in Cancels |-> "open"]
    /\ incident = {}

-----------------------------------------------------------------------------
(* What goes on which invoice (groupIntoInvoices, attachCredits).          *)

OfKey(D, k) == {d \in D : Key[d] = k}

SumOf(part, D) == MapThenSumSet(LAMBDA d : Lines[d][part], D)

(* creditBlocker: the credits already attached, plus this one, would make  *)
(* the taxable part, the exempt part or the discount of the invoice        *)
(* negative, or leave nothing to pay.                                      *)
Blocked(notes, attached, c) ==
    LET credits == attached \cup {c}
        rest(part) == SumOf(part, notes) - SumOf(part, credits)
        taxable  == rest("taxable")
        exempt   == rest("exempt")
        discount == rest("discount")
    IN  \/ taxable < 0
        \/ exempt < 0
        \/ discount < 0
        \/ taxable + exempt - discount <= 0

Highest(C) == CHOOSE c \in C : \A e \in C : Number[e] <= Number[c]

(* attachCredits visits the credit notes by ascending number and keeps     *)
(* each one that the invoice of its key still has room for.                *)
Accepted(notes, credits) ==
    MapThenFoldSet(LAMBDA c, attached :
                       IF Blocked(notes, attached, c)
                       THEN attached ELSE attached \cup {c},
                   {}, LAMBDA c : c, Highest, credits)

Attached(D, k) ==
    LET notes   == OfKey(D \cap Notes, k)
        credits == OfKey(D \cap Credits, k)
    IN  {c \in credits : notes # {} /\ c \in Accepted(notes, credits)}

InvoiceFor(D, k) == OfKey(D \cap Notes, k) \cup Attached(D, k)

(* Mutant: every claimed credit note is taken to have found its invoice.   *)
LeftOutNone(D) == {c \in D \cap Credits : FALSE}

LeftOut(D) == {c \in D \cap Credits : c \notin Attached(D, Key[c])}

KeysLeft(r) == {Key[n] : n \in mine[r] \cap Notes}

-----------------------------------------------------------------------------
(* Reading the books.                                                      *)

Live(r) == r \in Runs /\ pc[r] \notin {"idle", "done", "dead"}

RefundLive(x) == rpc[x] \notin {"idle", "done"}

RefundedOf(i) == {d \in Docs : \E x \in Refunds : rdoc[x] = i /\ d \in refunded[x]}

(* Invoice i charges the customer for d, and no credit has taken it back.  *)
Charged(d, i) == d \in invoice[i] /\ d \notin RefundedOf(i)

(* The two writes every path uses.                                         *)
SetStatus(D, s) == status' = [d \in Docs |-> IF d \in D THEN s ELSE status[d]]

DropClaims(D) ==
    /\ holder' = [d \in Docs |-> IF d \in D THEN NoRun ELSE holder[d]]
    /\ stale' = stale \ D

SetDocNum(D, i) == docNum' = [d \in Docs |-> IF d \in D THEN i ELSE docNum[d]]

Goto(r, step) == pc' = [pc EXCEPT ![r] = step]

-----------------------------------------------------------------------------
(* closeCustomerMonth, billNoteImmediately, billNotesNow.                  *)

(* A run over the notes S its query can reach (billingMonth <= month, and  *)
(* noteIds when given), netting the credit notes C if any were asked for.  *)
CloseCustomerMonth(r, S, C) ==
    /\ pc[r] = "idle"
    /\ Goto(r, "claim")
    /\ todo' = [todo EXCEPT ![r] = S]
    /\ wanted' = [wanted EXCEPT ![r] = C]
    /\ UNCHANGED <<noteVars, mine, group, current, invoice, refundVars,
                   cancelVars, incident>>

(* The immediate invoice of a perDelivery customer: returns at once unless *)
(* the note is open.                                                       *)
BillNoteImmediately(r, n) ==
    /\ pc[r] = "idle"
    /\ \/ /\ status[n] = "open"
          /\ Goto(r, "claim")
          /\ todo' = [todo EXCEPT ![r] = {n}]
       \/ /\ status[n] # "open"
          /\ Goto(r, "done")
          /\ UNCHANGED todo
    /\ UNCHANGED <<noteVars, wanted, mine, group, current, invoice,
                   refundVars, cancelVars, incident>>

(* Mutant: the claiming query forgets status = "open".                     *)
ClaimUnguarded(r, d) ==
    /\ d \in todo[r]
    /\ todo' = [todo EXCEPT ![r] = @ \ {d}]
    /\ status' = [status EXCEPT ![d] = "billing"]
    /\ holder' = [holder EXCEPT ![d] = r]
    /\ stale' = stale \ {d}
    /\ UNCHANGED <<docNum, pc, wanted, mine, group, current, invoice,
                   refundVars, cancelVars, incident>>

(* updateMany is atomic per document, not over the set: it visits the      *)
(* documents in some order and claims those that are open when visited.    *)
Claim(r, d) ==
    /\ d \in todo[r]
    /\ todo' = [todo EXCEPT ![r] = @ \ {d}]
    /\ \/ /\ status[d] = "open"
          /\ status' = [status EXCEPT ![d] = "billing"]
          /\ holder' = [holder EXCEPT ![d] = r]
          /\ stale' = stale \ {d}
       \/ /\ status[d] # "open"
          /\ UNCHANGED <<status, holder, stale>>
    /\ UNCHANGED <<docNum, pc, wanted, mine, group, current, invoice,
                   refundVars, cancelVars, incident>>

ClaimNote(r, n) == pc[r] = "claim" /\ Claim(r, n)

ClaimCredit(r, c) == pc[r] = "claimCredits" /\ Claim(r, c)

(* Mutant: reads back whatever is in "billing", not what carries its token. *)
ReadClaimedByStatus(r) ==
    /\ pc[r] = "claim"
    /\ todo[r] = {}
    /\ LET found == {n \in Notes : status[n] = "billing"}
       IN  /\ mine' = [mine EXCEPT ![r] = found]
           /\ Goto(r, IF found = {} THEN "done"
                      ELSE IF wanted[r] = {} THEN "bill" ELSE "openCredits")
    /\ UNCHANGED <<noteVars, wanted, todo, group, current, invoice,
                   refundVars, cancelVars, incident>>

(* find({claimToken}): whatever carries the token now, its status unread.  *)
ReadClaimed(r) ==
    /\ pc[r] = "claim"
    /\ todo[r] = {}
    /\ LET found == {n \in Notes : holder[n] = r}
       IN  /\ mine' = [mine EXCEPT ![r] = found]
           /\ Goto(r, IF found = {} THEN "done"
                      ELSE IF wanted[r] = {} THEN "bill" ELSE "openCredits")
    /\ UNCHANGED <<noteVars, wanted, todo, group, current, invoice,
                   refundVars, cancelVars, incident>>

OpenCredits(r) ==
    /\ pc[r] = "openCredits"
    /\ LET candidates == {c \in wanted[r] : status[c] = "open"}
       IN  /\ todo' = [todo EXCEPT ![r] = candidates]
           /\ Goto(r, IF candidates = {} THEN "bill" ELSE "claimCredits")
    /\ UNCHANGED <<noteVars, wanted, mine, group, current, invoice,
                   refundVars, cancelVars, incident>>

ReadCredits(r) ==
    /\ pc[r] = "claimCredits"
    /\ todo[r] = {}
    /\ LET found == {c \in Credits : holder[c] = r}
       IN  /\ mine' = [mine EXCEPT ![r] = @ \cup found]
           /\ Goto(r, IF LeftOut(mine[r] \cup found) = {}
                      THEN "bill" ELSE "setAside")
    /\ UNCHANGED <<noteVars, wanted, todo, group, current, invoice,
                   refundVars, cancelVars, incident>>

(* Credit notes that fit no invoice of this run go back, by _id alone.     *)
SetAside(r) ==
    /\ pc[r] = "setAside"
    /\ LET left == LeftOut(mine[r])
       IN  /\ SetStatus(left, "open")
           /\ DropClaims(left)
           /\ mine' = [mine EXCEPT ![r] = @ \ left]
    /\ Goto(r, "bill")
    /\ UNCHANGED <<docNum, wanted, todo, group, current, invoice,
                   refundVars, cancelVars, incident>>

-----------------------------------------------------------------------------
(* billClaimedNotes: one iCount invoice per key, each marked at once.      *)

(* iCount opens the invoice and its number reaches us.                     *)
Issue(r, k) ==
    /\ pc[r] = "bill"
    /\ k \in KeysLeft(r)
    /\ LET billed == InvoiceFor(mine[r], k)
       IN  /\ invoice' = [invoice EXCEPT ![<<r, k>>] = billed]
           /\ group' = [group EXCEPT ![r] = billed]
           /\ mine' = [mine EXCEPT ![r] = @ \ billed]
    /\ current' = [current EXCEPT ![r] = <<r, k>>]
    /\ Goto(r, "mark")
    /\ UNCHANGED <<noteVars, wanted, todo, refundVars, cancelVars, incident>>

(* iCount answers with an error: no document exists.                       *)
IssueRejected(r) ==
    /\ "rejected" \in Faults
    /\ pc[r] = "bill"
    /\ KeysLeft(r) # {}
    /\ Goto(r, "release")
    /\ UNCHANGED <<noteVars, wanted, todo, mine, group, current, invoice,
                   refundVars, cancelVars, incident>>

(* The 30 second timeout of the client fires after iCount opened the       *)
(* document: the caller sees the same error as a rejection.                *)
IssueLost(r, k) ==
    /\ "lostReply" \in Faults
    /\ pc[r] = "bill"
    /\ k \in KeysLeft(r)
    /\ LET billed == InvoiceFor(mine[r], k)
       IN  /\ invoice' = [invoice EXCEPT ![<<r, k>>] = billed]
           /\ mine' = [mine EXCEPT ![r] = @ \ billed]
           /\ incident' = incident \cup billed
    /\ Goto(r, "release")
    /\ UNCHANGED <<noteVars, wanted, todo, group, current, refundVars,
                   cancelVars>>

(* Mutant: marks every note of the run with the first invoice.             *)
MarkAllClaimed(r) ==
    /\ pc[r] = "mark"
    /\ LET billed == (mine[r] \cup group[r]) \cap Notes
       IN  /\ SetStatus(billed, "billed")
           /\ SetDocNum(billed, current[r])
           /\ DropClaims(billed)
           /\ group' = [group EXCEPT ![r] = @ \ billed]
           /\ Goto(r, IF group[r] \cap Credits = {} THEN "bill" ELSE "markCredits")
    /\ UNCHANGED <<wanted, todo, mine, current, invoice, refundVars,
                   cancelVars, incident>>

(* The notes of the issued invoice are marked by _id, whatever their       *)
(* status became; then, in a second update, its credit notes.              *)
MarkNotes(r) ==
    /\ pc[r] = "mark"
    /\ LET billed == group[r] \cap Notes
       IN  /\ SetStatus(billed, "billed")
           /\ SetDocNum(billed, current[r])
           /\ DropClaims(billed)
           /\ group' = [group EXCEPT ![r] = @ \ billed]
           /\ Goto(r, IF group[r] \cap Credits = {} THEN "bill" ELSE "markCredits")
    /\ UNCHANGED <<wanted, todo, mine, current, invoice, refundVars,
                   cancelVars, incident>>

MarkCredits(r) ==
    /\ pc[r] = "markCredits"
    /\ SetStatus(group[r], "netted")
    /\ SetDocNum(group[r], current[r])
    /\ DropClaims(group[r])
    /\ group' = [group EXCEPT ![r] = {}]
    /\ Goto(r, "bill")
    /\ UNCHANGED <<wanted, todo, mine, current, invoice, refundVars,
                   cancelVars, incident>>

(* A marking update fails after writing some of its documents.  The error  *)
(* is logged as critical and rethrown into the handler that releases.      *)
MarkFails(r, written) ==
    /\ "dbFails" \in Faults
    /\ \/ /\ pc[r] = "mark"
          /\ written \subseteq group[r] \cap Notes
          /\ SetStatus(written, "billed")
       \/ /\ pc[r] = "markCredits"
          /\ written \subseteq group[r]
          /\ SetStatus(written, "netted")
    /\ SetDocNum(written, current[r])
    /\ DropClaims(written)
    /\ incident' = incident \cup (group[r] \ written)
    /\ group' = [group EXCEPT ![r] = {}]
    /\ Goto(r, "release")
    /\ UNCHANGED <<wanted, todo, mine, current, invoice, refundVars,
                   cancelVars>>

(* Mutant: releases by status alone, without the token of the run.         *)
ReleaseAll(r) ==
    /\ pc[r] = "release"
    /\ LET freed == {d \in Docs : status[d] = "billing"}
       IN  /\ SetStatus(freed, "open")
           /\ DropClaims(freed)
    /\ mine' = [mine EXCEPT ![r] = {}]
    /\ Goto(r, "done")
    /\ UNCHANGED <<docNum, wanted, todo, group, current, invoice, refundVars,
                   cancelVars, incident>>

(* release(): everything still in "billing" under this token reopens.      *)
Release(r) ==
    /\ pc[r] = "release"
    /\ LET freed == {d \in Docs : holder[d] = r /\ status[d] = "billing"}
       IN  /\ SetStatus(freed, "open")
           /\ DropClaims(freed)
    /\ mine' = [mine EXCEPT ![r] = {}]
    /\ Goto(r, "done")
    /\ UNCHANGED <<docNum, wanted, todo, group, current, invoice, refundVars,
                   cancelVars, incident>>

Finish(r) ==
    /\ pc[r] = "bill"
    /\ KeysLeft(r) = {}
    /\ mine' = [mine EXCEPT ![r] = {}]
    /\ Goto(r, "done")
    /\ UNCHANGED <<noteVars, wanted, todo, group, current, invoice,
                   refundVars, cancelVars, incident>>

(* An update that reopens (credits set aside, or release() itself) fails   *)
(* after freeing some of its documents.  Nothing catches it.               *)
ReopenFails(r, freed) ==
    /\ "dbFails" \in Faults
    /\ \/ /\ pc[r] = "setAside"
          /\ freed \subseteq LeftOut(mine[r])
       \/ /\ pc[r] = "release"
          /\ \A d \in freed : holder[d] = r /\ status[d] = "billing"
    /\ SetStatus(freed, "open")
    /\ DropClaims(freed)
    /\ mine' = [mine EXCEPT ![r] = {}]
    /\ Goto(r, "dead")
    /\ UNCHANGED <<docNum, wanted, todo, group, current, invoice, refundVars,
                   cancelVars, incident>>

(* A database error where nothing catches it: while claiming, or while     *)
(* loading the summary lines before the first invoice.  The claims stay    *)
(* behind.                                                                 *)
Abort(r) ==
    /\ "dbFails" \in Faults
    /\ \/ pc[r] \in {"claim", "openCredits", "claimCredits"}
       \/ pc[r] = "bill" /\ \A k \in Keys : invoice[<<r, k>>] = {}
    /\ mine' = [mine EXCEPT ![r] = {}]
    /\ todo' = [todo EXCEPT ![r] = {}]
    /\ Goto(r, "dead")
    /\ UNCHANGED <<noteVars, wanted, group, current, invoice, refundVars,
                   cancelVars, incident>>

-----------------------------------------------------------------------------
(* releaseStuckClaims, hourly and before every close.                      *)

(* Thirty minutes pass since the claim.  A live run is normally far        *)
(* quicker; when it is not, the claim is released under its feet.          *)
ClaimAges(d) ==
    /\ status[d] = "billing"
    /\ d \notin stale
    /\ Live(holder[d]) => "slowRun" \in Faults
    /\ stale' = stale \cup {d}
    /\ incident' = IF Live(holder[d]) THEN incident \cup {d} ELSE incident
    /\ UNCHANGED <<status, holder, docNum, runVars, invoice, refundVars,
                   cancelVars>>

(* Mutant: without the cutoff, claims of live runs are released too.       *)
ReleaseAnyAge(D) ==
    /\ LET stuck == {d \in D : status[d] = "billing"}
       IN  /\ stuck # {}
           /\ SetStatus(stuck, "open")
           /\ DropClaims(stuck)
    /\ UNCHANGED <<docNum, runVars, invoice, refundVars, cancelVars, incident>>

ReleaseStuck(D) ==
    /\ LET stuck == {d \in D : status[d] = "billing" /\ d \in stale}
       IN  /\ stuck # {}
           /\ SetStatus(stuck, "open")
           /\ DropClaims(stuck)
    /\ UNCHANGED <<docNum, runVars, invoice, refundVars, cancelVars, incident>>

ReleaseStuckNotes == ReleaseStuck(Notes)

(* Mutant: the cron forgets the credit notes.                              *)
ReleaseNoCredits == FALSE

ReleaseStuckCredits == ReleaseStuck(Credits)

-----------------------------------------------------------------------------
(* creditInvoice: a full credit of one invoice, after which its notes may  *)
(* be billed again.                                                        *)

(* Only reissueInvoice takes the in-process lock of the invoice; the       *)
(* credit button of the invoice screen does not.  A call that finds no     *)
(* note, or a partial credit against the invoice, throws here and has      *)
(* changed nothing: it is a call that never started.                       *)
RefundRead(x, i) ==
    /\ rpc[x] = "idle"
    /\ x \in Locked => \A y \in Locked : RefundLive(y) => rdoc[y] # i
    /\ LET notes == {n \in Notes : status[n] = "billed" /\ docNum[n] = i}
       IN  /\ notes # {}
           /\ rdocs' = [rdocs EXCEPT ![x] = notes]
    /\ rdoc' = [rdoc EXCEPT ![x] = i]
    /\ rpc' = [rpc EXCEPT ![x] = "netted"]
    /\ UNCHANGED <<noteVars, runVars, refunded, cancelVars, invoice, incident>>

RefundReadNetted(x) ==
    /\ rpc[x] = "netted"
    /\ LET netted == {c \in Credits : status[c] = "netted" /\ docNum[c] = rdoc[x]}
       IN  rdocs' = [rdocs EXCEPT ![x] = @ \cup netted]
    /\ rpc' = [rpc EXCEPT ![x] = "issue"]
    /\ UNCHANGED <<noteVars, runVars, rdoc, refunded, cancelVars, invoice,
                   incident>>

(* iCount opens the credit.  Documents of this invoice that an earlier     *)
(* credit already covers are now credited twice.                           *)
OpenCredit(x) ==
    /\ rpc[x] = "issue"
    /\ refunded' = [refunded EXCEPT ![x] = rdocs[x]]
    /\ incident' = incident \cup (rdocs[x] \cap RefundedOf(rdoc[x]))
    /\ UNCHANGED <<noteVars, runVars, rdoc, rdocs, cancelVars, invoice>>

RefundIssue(x) ==
    /\ OpenCredit(x)
    /\ rpc' = [rpc EXCEPT ![x] = "write"]

RefundLost(x) ==
    /\ "lostReply" \in Faults
    /\ OpenCredit(x)
    /\ rpc' = [rpc EXCEPT ![x] = "done"]

(* Mutant: a rejected credit is taken for an issued one.                   *)
RefundRejectedUnseen(x) ==
    /\ "rejected" \in Faults
    /\ rpc[x] = "issue"
    /\ rpc' = [rpc EXCEPT ![x] = "write"]
    /\ UNCHANGED <<noteVars, runVars, rdoc, rdocs, refunded, cancelVars,
                   invoice, incident>>

RefundRejected(x) ==
    /\ "rejected" \in Faults
    /\ rpc[x] = "issue"
    /\ rpc' = [rpc EXCEPT ![x] = "done"]
    /\ UNCHANGED <<noteVars, runVars, rdoc, rdocs, refunded, cancelVars,
                   invoice, incident>>

(* The notes reopen, or are cancelled when the caller asked for that.      *)
(* Both writes are by _id: the status is not looked at again.              *)
WriteNotes(D, reopen) ==
    \/ /\ reopen
       /\ SetStatus(D, "open")
       /\ SetDocNum(D, None)
    \/ /\ ~reopen
       /\ SetStatus(D, "cancelled")
       /\ UNCHANGED docNum

RefundWrite(x, reopen) ==
    /\ rpc[x] = "write"
    /\ x \in Locked => reopen
    /\ WriteNotes(rdocs[x] \cap Notes, reopen)
    /\ rpc' = [rpc EXCEPT ![x] =
                  IF rdocs[x] \cap Credits = {} THEN "done" ELSE "writeCredits"]
    /\ UNCHANGED <<holder, stale, runVars, rdoc, rdocs, refunded, cancelVars,
                   invoice, incident>>

RefundWriteFails(x, reopen, written) ==
    /\ "dbFails" \in Faults
    /\ rpc[x] = "write"
    /\ x \in Locked => reopen
    /\ written \subseteq rdocs[x] \cap Notes
    /\ WriteNotes(written, reopen)
    /\ rpc' = [rpc EXCEPT ![x] = "done"]
    /\ UNCHANGED <<holder, stale, runVars, rdoc, rdocs, refunded, cancelVars,
                   invoice, incident>>

(* The netted credit notes reopen as well.  A failure here is caught and   *)
(* logged: some of them may stay behind.                                   *)
RefundWriteCredits(x, written) ==
    /\ rpc[x] = "writeCredits"
    /\ written \subseteq rdocs[x] \cap Credits
    /\ "dbFails" \notin Faults => written = rdocs[x] \cap Credits
    /\ SetStatus(written, "open")
    /\ SetDocNum(written, None)
    /\ rpc' = [rpc EXCEPT ![x] = "done"]
    /\ UNCHANGED <<holder, stale, runVars, rdoc, rdocs, refunded, cancelVars,
                   invoice, incident>>

-----------------------------------------------------------------------------
(* deliveryNotes.cancel: reads the note, refuses only a billed one, and    *)
(* saves without looking again.  Mongoose writes the status only if the    *)
(* assignment changed what was read.                                       *)

CancelRead(c, n) ==
    /\ cpc[c] = "idle"
    /\ status[n] # "billed"
    /\ cnote' = [cnote EXCEPT ![c] = n]
    /\ csaw' = [csaw EXCEPT ![c] = status[n]]
    /\ cpc' = [cpc EXCEPT ![c] = "save"]
    /\ UNCHANGED <<noteVars, runVars, refundVars, invoice, incident>>

CancelSave(c) ==
    /\ cpc[c] = "save"
    /\ SetStatus(IF csaw[c] = "cancelled" THEN {} ELSE {cnote[c]}, "cancelled")
    /\ cpc' = [cpc EXCEPT ![c] = "done"]
    /\ UNCHANGED <<holder, stale, docNum, runVars, refundVars, cnote, csaw,
                   invoice, incident>>

-----------------------------------------------------------------------------
(* The server process dies.  Whatever was in memory is gone; an invoice    *)
(* issued and not yet marked is known to iCount alone.                     *)
Crash ==
    /\ "crash" \in Faults
    /\ \/ \E r \in Runs : Live(r)
       \/ \E x \in Refunds : RefundLive(x)
       \/ \E c \in Cancels : cpc[c] = "save"
    /\ pc' = [r \in Runs |-> IF Live(r) THEN "dead" ELSE pc[r]]
    /\ todo' = [r \in Runs |-> {}]
    /\ mine' = [r \in Runs |-> {}]
    /\ group' = [r \in Runs |-> {}]
    /\ incident' = incident \cup UNION {group[r] : r \in Runs}
    /\ rpc' = [x \in Refunds |-> IF RefundLive(x) THEN "done" ELSE rpc[x]]
    /\ cpc' = [c \in Cancels |-> IF cpc[c] = "save" THEN "done" ELSE cpc[c]]
    /\ UNCHANGED <<noteVars, wanted, current, rdoc, rdocs, refunded, cnote,
                   csaw, invoice>>

-----------------------------------------------------------------------------
RunStart(r) ==
    \/ \E S \in SUBSET Notes, C \in SUBSET Credits : CloseCustomerMonth(r, S, C)
    \/ \E n \in Notes : BillNoteImmediately(r, n)

(* What a run does by itself once it has started.                          *)
RunStep(r) ==
    \/ \E d \in Docs : ClaimNote(r, d) \/ ClaimCredit(r, d)
    \/ ReadClaimed(r)
    \/ OpenCredits(r)
    \/ ReadCredits(r)
    \/ SetAside(r)
    \/ \E k \in Keys : Issue(r, k) \/ IssueLost(r, k)
    \/ IssueRejected(r)
    \/ MarkNotes(r)
    \/ MarkCredits(r)
    \/ \E written \in SUBSET Docs : MarkFails(r, written)
    \/ Release(r)
    \/ \E freed \in SUBSET Docs : ReopenFails(r, freed)
    \/ Finish(r)
    \/ Abort(r)

RefundStep(x) ==
    \/ \E i \in DocNums : RefundRead(x, i)
    \/ RefundReadNetted(x)
    \/ RefundIssue(x)
    \/ RefundLost(x)
    \/ RefundRejected(x)
    \/ \E reopen \in BOOLEAN : RefundWrite(x, reopen)
    \/ \E reopen \in BOOLEAN, written \in SUBSET Docs :
           RefundWriteFails(x, reopen, written)
    \/ \E written \in SUBSET Docs : RefundWriteCredits(x, written)

CancelStep(c) ==
    \/ \E n \in Notes : CancelRead(c, n)
    \/ CancelSave(c)

Next ==
    \/ \E r \in Runs : RunStart(r) \/ RunStep(r)
    \/ \E x \in Refunds : RefundStep(x)
    \/ \E c \in Cancels : CancelStep(c)
    \/ \E d \in Docs : ClaimAges(d)
    \/ ReleaseStuckNotes
    \/ ReleaseStuckCredits
    \/ Crash

Spec == Init /\ [][Next]_vars

(* A started run keeps being scheduled, time passes, and the hourly cron   *)
(* keeps firing (node-cron, registered at boot).  Nothing obliges anybody  *)
(* to start a run, to credit an invoice or to cancel a note.               *)
Fairness ==
    /\ \A r \in Runs : WF_vars(RunStep(r))
    /\ \A d \in Docs : WF_vars(ClaimAges(d))
    /\ WF_vars(ReleaseStuckNotes)
    /\ WF_vars(ReleaseStuckCredits)

FairSpec == Spec /\ Fairness

-----------------------------------------------------------------------------
(* Properties.                                                             *)

(* Double billing, the risk the header of monthlyBilling.js names: a       *)
(* document no logged failure has touched is never charged by two invoices *)
(* at once, however runs, credits, cancellations, crashes and the cron     *)
(* interleave.                                                             *)
ChargedAtMostOnce ==
    \A d \in Docs \ incident : \A i, j \in DocNums :
        Charged(d, i) /\ Charged(d, j) => i = j

(* The claim is exclusive: a document a run has in hand carries the token  *)
(* of that run, and can have left "billing" only by being cancelled.  Two  *)
(* runs therefore never work on the same document.                         *)
ClaimsAreExclusive ==
    \A r \in Runs : \A d \in (mine[r] \cup group[r]) \ incident :
        holder[d] = r /\ status[d] \in {"billing", "cancelled"}

(* A document marked billed (or netted) names an invoice that lists it:    *)
(* payments, credits and the invoice screen all go through that number.    *)
MarkedIsListed ==
    \A d \in Docs \ incident :
        status[d] \in {"billed", "netted"} =>
            docNum[d] \in DocNums /\ d \in invoice[docNum[d]]

(* The other direction: once marked, what an uncredited invoice charges    *)
(* stays billed under its number; nothing but a credit takes it out.       *)
ChargedStaysMarked ==
    \A d \in Docs \ incident : \A i \in DocNums :
        Charged(d, i) /\ (\A r \in Runs : d \notin group[r]) =>
            status[d] \in {"billed", "netted"} /\ docNum[d] = i

(* A run that ends leaves nothing claimed: every note was invoiced or      *)
(* released, every claimed credit note was netted or put back.  Only an    *)
(* aborted or crashed run leaves work for the hourly release.              *)
NothingStranded ==
    \A r \in Runs : pc[r] = "done" =>
        \A d \in Docs : holder[d] = r => status[d] # "billing"

(* What the comment in the error handler of billClaimedNotes says: only    *)
(* what has not been charged is released, an issued group stays billed.    *)
OpenIsNotInvoiced ==
    \A d \in Docs : status[d] = "open" => \A i \in DocNums : ~Charged(d, i)

(* A document goes back to open only when no invoice charges it any more:  *)
(* release, the cron and creditInvoice all reopen by other criteria.       *)
ReopenedIsUncharged ==
    [][\A d \in Docs \ incident' :
          status[d] # "open" /\ status'[d] = "open" =>
              \A i \in DocNums : ~Charged(d, i)']_vars

(* No document waits in "billing" for ever: its run marks or releases it,  *)
(* or the hourly cron does.                                                *)
ClaimsResolve ==
    \A d \in Docs : status[d] = "billing" ~> status[d] # "billing"

(* The book of InvoiceBook, read off the state.                            *)
Book == INSTANCE InvoiceBook WITH
    Invoices <- DocNums,
    book     <- {b \in (Docs \ incident) \X DocNums : Charged(b[1], b[2])},
    issued   <- {i \in DocNums : invoice[i] # {}},
    lost     <- incident

(* Monthly billing keeps that book: every invoice is new and charges only  *)
(* what no other invoice charges, every credit is of an invoice issued.    *)
KeepsTheBook == Book!Spec
=============================================================================
