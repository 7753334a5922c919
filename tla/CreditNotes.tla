----------------------------- MODULE CreditNotes -----------------------------
(***************************************************************************)
(* The credit notes of one customer (lib/billing/creditNotes.js): created  *)
(* on a form, given back to the customer by a credit invoice of their own, *)
(* by a consolidated one, or inside the next monthly invoice.              *)
(*                                                                         *)
(* As with delivery notes, a credit note is claimed (open -> billing, with *)
(* the token of the call), then iCount is called, then the note is marked. *)
(* A credit note may be linked to the invoice it corrects; before a credit *)
(* invoice the code checks that the invoice still has room for it.         *)
(*                                                                         *)
(* Three kinds of call compete for the notes: issueInvoice, of one note,   *)
(* issueConsolidated, of a list, and the month close, which nets.  They    *)
(* share the steps claim, issue and mark and differ in the details, so     *)
(* their shared state is indexed by the call.                              *)
(***************************************************************************)
EXTENDS Integers, FiniteSets, FiniteSetsExt

CONSTANTS
    Credits,     \* credit notes: each is named after the form that asks for it
    Form,        \* Form[c]: idempotencyKey of that form, None if it has none
    Amount,      \* Amount[c]: what it gives back, VAT included (in agorot)
    Original,    \* Original[c]: the invoice named on the form, or None
    Part,        \* Part[c]: the part of a split invoice it belongs to
    Parts,
    Invoices,    \* invoices of the customer that credits may be linked to
    Gross,       \* Gross[i]: what invoice i charged, by the estimate of the code
    Tolerance,   \* OVER_CREDIT_TOLERANCE
    Issues,      \* calls of issueInvoice
    Batches,     \* calls of issueConsolidated
    Closes,      \* month closes that net credit notes
    Voids,       \* calls of creditInvoice, which credit a whole invoice
    Faults,      \* what the environment may do
    None

Calls == Issues \cup Batches \cup Closes

(* A call issues at most one document per part.                            *)
DocNums == Calls \X Parts

(* "overlap": two clerks (or a clerk and a month close) work at once.      *)
FaultKinds == {"crash", "dbFails", "rejected", "lostReply", "slowRun", "overlap"}

ASSUME CreditsAssumption ==
    /\ IsFiniteSet(Credits)
    /\ Amount \in [Credits -> Nat]
    /\ Original \in [Credits -> Invoices \cup {None}]
    /\ Part \in [Credits -> Parts]
    /\ Gross \in [Invoices -> Nat]
    /\ Tolerance \in Nat

ASSUME CallsAssumption ==
    /\ Issues \cap Batches = {}
    /\ Issues \cap Closes = {}
    /\ Batches \cap Closes = {}
    /\ Faults \subseteq FaultKinds
    /\ None \notin Calls \cup DocNums \cup Invoices

VARIABLES
    status,      \* status[c]: billing.status, or "absent" before creation
    holder,      \* holder[c]: billing.claimToken
    stale,       \* notes whose billing.claimedAt is past the cutoff
    original,    \* original[c]: billing.originalDocNum
    docNum,      \* docNum[c]: creditDocNum, or invoiceDocNum once netted
    cpc,         \* cpc[c]: where the call that creates c stands
    pc,          \* pc[x]: where call x stands
    todo,        \* todo[x]: notes the claiming updateMany has yet to visit
    hand,        \* hand[x]: notes of call x that no document covers yet
    group,       \* group[x]: notes of the document at hand, not yet marked
    current,     \* current[x]: the number of that document
    link,        \* link[x]: the invoice a credit invoice is based on, or None
    given,       \* given[d]: notes that iCount document d gives back
    balance,     \* documents entered in the balance of the customer
    active,      \* invoices whose delivery notes are billed under them
    vpc,         \* vpc[v]: where call v of creditInvoice stands
    vdoc,        \* vdoc[v]: the invoice it credits
    voided,      \* invoices that iCount has credited in full
    incident     \* notes hit by a failure the code only logs (history)

noteVars == <<status, holder, stale, original, docNum>>
callVars == <<pc, todo, hand, group, current, link>>
voidVars == <<active, vpc, vdoc, voided>>
vars == <<noteVars, callVars, voidVars, cpc, given, balance, incident>>

Statuses == {"absent", "open", "billing", "billed", "netted", "cancelled"}
CreateSteps == {"idle", "check", "insert", "done"}
CallSteps == {"idle", "check", "claim", "setAside", "issue", "reopen",
              "mark", "record", "done", "dead"}
VoidSteps == {"idle", "check", "issue", "write", "done"}

TypeOK ==
    /\ status \in [Credits -> Statuses]
    /\ holder \in [Credits -> Calls \cup {None}]
    /\ stale \in SUBSET Credits
    /\ original \in [Credits -> Invoices \cup {None}]
    /\ docNum \in [Credits -> DocNums \cup {None}]
    /\ cpc \in [Credits -> CreateSteps]
    /\ pc \in [Calls -> CallSteps]
    /\ todo \in [Calls -> SUBSET Credits]
    /\ hand \in [Calls -> SUBSET Credits]
    /\ group \in [Calls -> SUBSET Credits]
    /\ current \in [Calls -> DocNums \cup {None}]
    /\ link \in [Calls -> Invoices \cup {None}]
    /\ given \in [DocNums -> SUBSET Credits]
    /\ balance \in SUBSET DocNums
    /\ active \in SUBSET Invoices
    /\ vpc \in [Voids -> VoidSteps]
    /\ vdoc \in [Voids -> Invoices \cup {None}]
    /\ voided \in SUBSET Invoices
    /\ incident \in SUBSET Credits

Init ==
    /\ status = [c \in Credits |-> "absent"]
    /\ holder = [c \in Credits |-> None]
    /\ stale = {}
    /\ original = [c \in Credits |-> None]
    /\ docNum = [c \in Credits |-> None]
    /\ cpc = [c \in Credits |-> "idle"]
    /\ pc = [x \in Calls |-> "idle"]
    /\ todo = [x \in Calls |-> {}]
    /\ hand = [x \in Calls |-> {}]
    /\ group = [x \in Calls |-> {}]
    /\ current = [x \in Calls |-> None]
    /\ link = [x \in Calls |-> None]
    /\ given = [d \in DocNums |-> {}]
    /\ balance = {}
    /\ active = Invoices
    /\ vpc = [v \in Voids |-> "idle"]
    /\ vdoc = [v \in Voids |-> None]
    /\ voided = {}
    /\ incident = {}

-----------------------------------------------------------------------------
Live(x) == x \in Calls /\ pc[x] \notin {"idle", "done", "dead"}

VoidLive(v) == vpc[v] \notin {"idle", "done"}

CreateLive(c) == cpc[c] \in {"check", "insert"}

(* A call starts: alone, unless the environment lets calls overlap.        *)
MayStart ==
    \/ "overlap" \in Faults
    \/ /\ \A x \in Calls : ~Live(x)
       /\ \A v \in Voids : ~VoidLive(v)
       /\ \A c \in Credits : ~CreateLive(c)

Goto(x, step) == pc' = [pc EXCEPT ![x] = step]

SetStatus(D, s) == status' = [c \in Credits |-> IF c \in D THEN s ELSE status[c]]

DropClaims(D) ==
    /\ holder' = [c \in Credits |-> IF c \in D THEN None ELSE holder[c]]
    /\ stale' = stale \ D

(* Mutant: only credit invoices count, credits netted elsewhere do not.    *)
CreditedBilledOnly(i) == {c \in Credits : status[c] = "billed" /\ original[c] = i}

(* What assertInvoiceCanBeCredited counts as already credited.             *)
Credited(i) ==
    {c \in Credits : status[c] \in {"billed", "netted"} /\ original[c] = i}

AmountOf(D) == MapThenSumSet(LAMBDA c : Amount[c], D)

(* The sum of the linked credits may pass what the invoice charged by the  *)
(* tolerance, once: the estimate may differ from iCount's sum in the last  *)
(* digits of the VAT.                                                      *)
CreditLimit(i) == Gross[i] + Tolerance

(* assertInvoiceCanBeCredited: the invoice is active, and what was given   *)
(* back against it leaves room for the notes D.                            *)
CanBeCredited(i, D, except) ==
    /\ i \in active
    /\ AmountOf(Credited(i) \ except) + AmountOf(D) <= CreditLimit(i)

-----------------------------------------------------------------------------
(* create: a repeated form returns the note it made; the invoice is        *)
(* checked; the unique index on idempotencyKey stops a second insert.      *)

SameForm(c) ==
    {e \in Credits : status[e] # "absent" /\ Form[e] # None /\ Form[e] = Form[c]}

CreateLookup(c) ==
    /\ cpc[c] = "idle"
    /\ MayStart
    /\ cpc' = [cpc EXCEPT ![c] =
                  IF SameForm(c) # {} THEN "done"
                  ELSE IF Original[c] = None THEN "insert" ELSE "check"]
    /\ UNCHANGED <<noteVars, callVars, voidVars, given, balance, incident>>

CreateCheck(c) ==
    /\ cpc[c] = "check"
    /\ cpc' = [cpc EXCEPT ![c] =
                  IF CanBeCredited(Original[c], {c}, {}) THEN "insert" ELSE "done"]
    /\ UNCHANGED <<noteVars, callVars, voidVars, given, balance, incident>>

CreateInsert(c) ==
    /\ cpc[c] = "insert"
    /\ cpc' = [cpc EXCEPT ![c] = "done"]
    /\ \/ /\ SameForm(c) = {}
          /\ status' = [status EXCEPT ![c] = "open"]
          /\ original' = [original EXCEPT ![c] = Original[c]]
       \/ /\ SameForm(c) # {}
          /\ UNCHANGED <<status, original>>
    /\ UNCHANGED <<holder, stale, docNum, callVars, voidVars, given, balance,
                   incident>>

(* cancel: one atomic open -> cancelled.                                   *)
Cancel(c) ==
    /\ status[c] = "open"
    /\ status' = [status EXCEPT ![c] = "cancelled"]
    /\ UNCHANGED <<holder, stale, original, docNum, callVars, voidVars, cpc,
                   given, balance, incident>>

-----------------------------------------------------------------------------
(* The start of the three kinds of call, and their checks.                 *)

(* issueInvoice: reads the note; the invoice of the request, if any, goes  *)
(* before the one on the note.                                             *)
IssueRead(x, c, requested) ==
    /\ pc[x] = "idle"
    /\ MayStart
    /\ status[c] # "absent"
    /\ LET i == IF requested # None THEN requested ELSE original[c]
       IN  /\ link' = [link EXCEPT ![x] = i]
           /\ Goto(x, IF i = None THEN "claim" ELSE "check")
    /\ todo' = [todo EXCEPT ![x] = {c}]
    /\ UNCHANGED <<noteVars, hand, group, current, voidVars, cpc, given, balance, incident>>

IssueCheck(x) ==
    /\ x \in Issues
    /\ pc[x] = "check"
    /\ Goto(x, IF CanBeCredited(link[x], todo[x], todo[x]) THEN "claim" ELSE "done")
    /\ UNCHANGED <<noteVars, todo, hand, group, current, link, voidVars, cpc, given,
                   balance, incident>>

(* issueConsolidated: the notes of the list that are open.                 *)
BatchRead(x, C) ==
    /\ pc[x] = "idle"
    /\ MayStart
    /\ C # {}
    /\ \A c \in C : status[c] = "open"
    /\ todo' = [todo EXCEPT ![x] = C]
    /\ Goto(x, "check")
    /\ UNCHANGED <<noteVars, hand, group, current, link, voidVars, cpc, given, balance,
                   incident>>

(* For each invoice, the sum of the notes of the list that name it.        *)
BatchCheck(x) ==
    /\ x \in Batches
    /\ pc[x] = "check"
    /\ LET naming(i) == {c \in todo[x] : original[c] = i}
           passes == \A i \in Invoices :
                         naming(i) # {} => CanBeCredited(i, naming(i), {})
       IN  Goto(x, IF passes THEN "claim" ELSE "done")
    /\ UNCHANGED <<noteVars, todo, hand, group, current, link, voidVars, cpc, given,
                   balance, incident>>

(* The month close asks for open credit notes and checks nothing: what the *)
(* invoice of a note has left is not looked at when it is netted.          *)
CloseRead(x, C) ==
    /\ pc[x] = "idle"
    /\ MayStart
    /\ C # {}
    /\ \A c \in C : status[c] = "open"
    /\ todo' = [todo EXCEPT ![x] = C]
    /\ Goto(x, "claim")
    /\ UNCHANGED <<noteVars, hand, group, current, link, voidVars, cpc, given, balance,
                   incident>>

-----------------------------------------------------------------------------
(* The claim.                                                              *)

(* Mutant: the claim of a single note forgets status = "open".             *)
IssueClaimUnguarded(x, c) ==
    /\ pc[x] = "claim"
    /\ todo[x] = {c}
    /\ status' = [status EXCEPT ![c] = "billing"]
    /\ holder' = [holder EXCEPT ![c] = x]
    /\ stale' = stale \ {c}
    /\ hand' = [hand EXCEPT ![x] = {c}]
    /\ todo' = [todo EXCEPT ![x] = {}]
    /\ Goto(x, "issue")
    /\ UNCHANGED <<original, docNum, group, current, link, voidVars, cpc, given,
                   balance, incident>>

(* issueInvoice: findOneAndUpdate claims the note and returns it, or finds *)
(* it taken and throws.                                                    *)
IssueClaim(x, c) ==
    /\ x \in Issues
    /\ pc[x] = "claim"
    /\ todo[x] = {c}
    /\ todo' = [todo EXCEPT ![x] = {}]
    /\ \/ /\ status[c] = "open"
          /\ status' = [status EXCEPT ![c] = "billing"]
          /\ holder' = [holder EXCEPT ![c] = x]
          /\ stale' = stale \ {c}
          /\ hand' = [hand EXCEPT ![x] = {c}]
          /\ Goto(x, "issue")
       \/ /\ status[c] # "open"
          /\ Goto(x, "done")
          /\ UNCHANGED <<status, holder, stale, hand>>
    /\ UNCHANGED <<original, docNum, group, current, link, voidVars, cpc, given,
                   balance, incident>>

(* The updateMany of the other two, document by document.                  *)
ClaimOne(x, c) ==
    /\ x \notin Issues
    /\ pc[x] = "claim"
    /\ c \in todo[x]
    /\ todo' = [todo EXCEPT ![x] = @ \ {c}]
    /\ \/ /\ status[c] = "open"
          /\ status' = [status EXCEPT ![c] = "billing"]
          /\ holder' = [holder EXCEPT ![c] = x]
          /\ stale' = stale \ {c}
       \/ /\ status[c] # "open"
          /\ UNCHANGED <<status, holder, stale>>
    /\ UNCHANGED <<original, docNum, pc, hand, group, current, link, voidVars,
                   cpc, given, balance, incident>>

(* find({claimToken}).                                                     *)
ReadClaimed(x) ==
    /\ x \notin Issues
    /\ pc[x] = "claim"
    /\ todo[x] = {}
    /\ LET found == {c \in Credits : holder[c] = x}
       IN  /\ hand' = [hand EXCEPT ![x] = found]
           /\ Goto(x, IF found = {} THEN "done"
                      ELSE IF x \in Closes THEN "setAside" ELSE "issue")
    /\ UNCHANGED <<noteVars, todo, group, current, link, voidVars, cpc, given,
                   balance, incident>>

(* The month close puts back, by _id, the notes that fit no invoice: which *)
(* ones is the business of MonthlyBilling, here any of them may not fit.   *)
CloseSetAside(x, left) ==
    /\ pc[x] = "setAside"
    /\ left \subseteq hand[x]
    /\ SetStatus(left, "open")
    /\ DropClaims(left)
    /\ hand' = [hand EXCEPT ![x] = @ \ left]
    /\ Goto(x, "issue")
    /\ UNCHANGED <<original, docNum, todo, group, current, link, voidVars, cpc,
                   given, balance, incident>>

-----------------------------------------------------------------------------
(* The document in iCount: a credit invoice (for each part, one), or the   *)
(* monthly invoice that nets the notes of its part.                        *)

OfPart(D, k) == {c \in D : Part[c] = k}

NextPart(x, k) ==
    /\ pc[x] = "issue"
    /\ OfPart(hand[x], k) # {}
    /\ hand' = [hand EXCEPT ![x] = @ \ OfPart(@, k)]
    /\ group' = [group EXCEPT ![x] = OfPart(hand[x], k)]
    /\ current' = [current EXCEPT ![x] = <<x, k>>]

Issue(x, k) ==
    /\ NextPart(x, k)
    /\ given' = [given EXCEPT ![<<x, k>>] = OfPart(hand[x], k)]
    /\ Goto(x, "mark")
    /\ UNCHANGED <<noteVars, todo, link, voidVars, cpc, balance, incident>>

(* An error from iCount: nothing was created.                              *)
IssueRejected(x, k) ==
    /\ "rejected" \in Faults
    /\ NextPart(x, k)
    /\ Goto(x, "reopen")
    /\ UNCHANGED <<noteVars, todo, link, voidVars, cpc, given, balance, incident>>

(* The timeout of the client fires after iCount created the document; the  *)
(* caller takes it for a rejection.                                        *)
IssueLost(x, k) ==
    /\ "lostReply" \in Faults
    /\ NextPart(x, k)
    /\ given' = [given EXCEPT ![<<x, k>>] = OfPart(hand[x], k)]
    /\ incident' = incident \cup OfPart(hand[x], k)
    /\ Goto(x, "reopen")
    /\ UNCHANGED <<noteVars, todo, link, voidVars, cpc, balance>>

(* After an error the credit calls reopen the notes of that document, by   *)
(* token; the month close reopens all it still has in "billing".           *)
ToReopen(x) ==
    IF x \in Closes
    THEN {c \in Credits : holder[c] = x /\ status[c] = "billing"}
    ELSE {c \in group[x] : holder[c] = x}

AfterGroup(x) == IF x \in Batches THEN "issue" ELSE "done"

Reopen(x) ==
    /\ pc[x] = "reopen"
    /\ SetStatus(ToReopen(x), "open")
    /\ DropClaims(ToReopen(x))
    /\ group' = [group EXCEPT ![x] = {}]
    /\ hand' = [hand EXCEPT ![x] = IF x \in Closes THEN {} ELSE @]
    /\ Goto(x, AfterGroup(x))
    /\ UNCHANGED <<original, docNum, todo, current, link, voidVars, cpc, given,
                   balance, incident>>

(* A reopening update fails after freeing some of its notes: the call ends *)
(* with the error and leaves the other claims behind.                      *)
ReopenFails(x, freed) ==
    /\ "dbFails" \in Faults
    /\ \/ pc[x] = "reopen" /\ freed \subseteq ToReopen(x)
       \/ pc[x] = "setAside" /\ freed \subseteq hand[x]
    /\ SetStatus(freed, "open")
    /\ DropClaims(freed)
    /\ group' = [group EXCEPT ![x] = {}]
    /\ hand' = [hand EXCEPT ![x] = {}]
    /\ Goto(x, "dead")
    /\ UNCHANGED <<original, docNum, todo, current, link, voidVars, cpc, given,
                   balance, incident>>

-----------------------------------------------------------------------------
(* The mark: billed with the number of the credit invoice, or netted with  *)
(* the number of the monthly one.                                          *)

MarkAs(x, D) ==
    /\ SetStatus(D, IF x \in Closes THEN "netted" ELSE "billed")
    /\ docNum' = [c \in Credits |-> IF c \in D THEN current[x] ELSE docNum[c]]
    /\ original' = [c \in Credits |->
                       IF c \in D /\ link[x] # None THEN link[x] ELSE original[c]]
    /\ DropClaims(D)

(* By _id, except in a batch, which asks for its token as well.            *)
ToMark(x) == IF x \in Batches THEN {c \in group[x] : holder[c] = x} ELSE group[x]

(* Mutant: the marking writes the number and forgets the status.           *)
MarkNumberOnly(x) ==
    /\ pc[x] = "mark"
    /\ docNum' = [c \in Credits |-> IF c \in ToMark(x) THEN current[x] ELSE docNum[c]]
    /\ group' = [group EXCEPT ![x] = {}]
    /\ Goto(x, IF x \in Closes THEN "issue" ELSE "record")
    /\ UNCHANGED <<status, holder, stale, original, todo, hand, current, link,
                   voidVars, cpc, given, balance, incident>>

Mark(x) ==
    /\ pc[x] = "mark"
    /\ MarkAs(x, ToMark(x))
    /\ group' = [group EXCEPT ![x] = {}]
    /\ Goto(x, IF x \in Closes THEN "issue" ELSE "record")
    /\ UNCHANGED <<todo, hand, current, link, voidVars, cpc, given, balance,
                   incident>>

(* The update fails after writing some of the notes; the error is logged   *)
(* as critical.  A batch goes on to its next part.                         *)
MarkFails(x, written) ==
    /\ "dbFails" \in Faults
    /\ pc[x] = "mark"
    /\ written \subseteq ToMark(x)
    /\ x \in Issues => written = {}
    /\ MarkAs(x, written)
    /\ incident' = incident \cup (group[x] \ written)
    /\ group' = [group EXCEPT ![x] = {}]
    /\ Goto(x, IF x \in Closes THEN "reopen" ELSE AfterGroup(x))
    /\ UNCHANGED <<todo, hand, current, link, voidVars, cpc, given, balance>>

(* Mutant: a batch enters only its last document in the balance.           *)
RecordLastOnly(x) ==
    /\ pc[x] = "record"
    /\ balance' = IF hand[x] = {} THEN balance \cup {current[x]} ELSE balance
    /\ Goto(x, AfterGroup(x))
    /\ UNCHANGED <<noteVars, todo, hand, group, current, link, voidVars, cpc,
                   given, incident>>

(* The money the document gives back enters the balance of the customer.   *)
Record(x) ==
    /\ pc[x] = "record"
    /\ balance' = balance \cup {current[x]}
    /\ Goto(x, AfterGroup(x))
    /\ UNCHANGED <<noteVars, todo, hand, group, current, link, voidVars, cpc,
                   given, incident>>

(* A failure to enter it is logged and swallowed.                          *)
RecordFails(x) ==
    /\ "dbFails" \in Faults
    /\ pc[x] = "record"
    /\ Goto(x, AfterGroup(x))
    /\ UNCHANGED <<noteVars, todo, hand, group, current, link, voidVars, cpc,
                   given, balance, incident>>

Finish(x) ==
    /\ pc[x] = "issue"
    /\ hand[x] = {}
    /\ Goto(x, "done")
    /\ UNCHANGED <<noteVars, todo, hand, group, current, link, voidVars, cpc,
                   given, balance, incident>>

(* A database error that nothing catches, before the first document.       *)
Abort(x) ==
    /\ "dbFails" \in Faults
    /\ pc[x] \in {"check", "claim"}
    /\ todo' = [todo EXCEPT ![x] = {}]
    /\ Goto(x, "dead")
    /\ UNCHANGED <<noteVars, hand, group, current, link, voidVars, cpc, given,
                   balance, incident>>

-----------------------------------------------------------------------------
(* releaseStuckClaims, hourly, with the release of delivery notes.         *)

ClaimAges(c) ==
    /\ status[c] = "billing"
    /\ c \notin stale
    /\ Live(holder[c]) => "slowRun" \in Faults
    /\ stale' = stale \cup {c}
    /\ incident' = IF Live(holder[c]) THEN incident \cup {c} ELSE incident
    /\ UNCHANGED <<status, holder, original, docNum, callVars, voidVars, cpc,
                   given, balance>>

ReleaseStuckClaims ==
    /\ LET stuck == {c \in stale : status[c] = "billing"}
       IN  /\ stuck # {}
           /\ SetStatus(stuck, "open")
           /\ DropClaims(stuck)
    /\ UNCHANGED <<original, docNum, callVars, voidVars, cpc, given, balance,
                   incident>>

-----------------------------------------------------------------------------
(* creditInvoice, as far as it meets the credit notes linked to its        *)
(* invoice; MonthlyBilling has the rest of it.                             *)

VoidRead(v, i) ==
    /\ vpc[v] = "idle"
    /\ MayStart
    /\ i \in active
    /\ vdoc' = [vdoc EXCEPT ![v] = i]
    /\ vpc' = [vpc EXCEPT ![v] = "check"]
    /\ UNCHANGED <<noteVars, callVars, active, voided, cpc, given, balance, incident>>

(* Mutant: partial credits are not looked for.                             *)
VoidCheckNothing(v) ==
    /\ vpc[v] = "check"
    /\ vpc' = [vpc EXCEPT ![v] = "issue"]
    /\ UNCHANGED <<noteVars, callVars, active, vdoc, voided, cpc, given, balance,
                   incident>>

(* Refused if something was already given back against the invoice.        *)
VoidCheck(v) ==
    /\ vpc[v] = "check"
    /\ vpc' = [vpc EXCEPT ![v] = IF Credited(vdoc[v]) = {} THEN "issue" ELSE "done"]
    /\ UNCHANGED <<noteVars, callVars, active, vdoc, voided, cpc, given, balance,
                   incident>>

VoidIssue(v) ==
    /\ vpc[v] = "issue"
    /\ \/ /\ voided' = voided \cup {vdoc[v]}
          /\ vpc' = [vpc EXCEPT ![v] = "write"]
       \/ /\ "lostReply" \in Faults
          /\ voided' = voided \cup {vdoc[v]}
          /\ vpc' = [vpc EXCEPT ![v] = "done"]
       \/ /\ "rejected" \in Faults
          /\ vpc' = [vpc EXCEPT ![v] = "done"]
          /\ UNCHANGED voided
    /\ UNCHANGED <<noteVars, callVars, active, vdoc, cpc, given, balance, incident>>

(* The delivery notes leave the invoice, reopened or cancelled.            *)
VoidWrite(v) ==
    /\ vpc[v] = "write"
    /\ vpc' = [vpc EXCEPT ![v] = "done"]
    /\ \/ active' = active \ {vdoc[v]}
       \/ "dbFails" \in Faults /\ UNCHANGED active
    /\ UNCHANGED <<noteVars, callVars, vdoc, voided, cpc, given, balance, incident>>

-----------------------------------------------------------------------------
(* The server process dies.                                                *)
Crash ==
    /\ "crash" \in Faults
    /\ \/ \E x \in Calls : Live(x)
       \/ \E v \in Voids : VoidLive(v)
       \/ \E c \in Credits : CreateLive(c)
    /\ pc' = [x \in Calls |-> IF Live(x) THEN "dead" ELSE pc[x]]
    /\ todo' = [x \in Calls |-> {}]
    /\ hand' = [x \in Calls |-> {}]
    /\ group' = [x \in Calls |-> {}]
    /\ incident' = incident \cup UNION {group[x] : x \in {y \in Calls : pc[y] = "mark"}}
    /\ vpc' = [v \in Voids |-> IF VoidLive(v) THEN "done" ELSE vpc[v]]
    /\ cpc' = [c \in Credits |-> IF CreateLive(c) THEN "done" ELSE cpc[c]]
    /\ UNCHANGED <<noteVars, current, link, active, vdoc, voided, given, balance>>

-----------------------------------------------------------------------------
Create(c) == CreateLookup(c) \/ CreateCheck(c) \/ CreateInsert(c)

CallStart(x) ==
    \/ x \in Issues /\ \E c \in Credits, i \in Invoices \cup {None} : IssueRead(x, c, i)
    \/ x \in Batches /\ \E C \in SUBSET Credits : BatchRead(x, C)
    \/ x \in Closes /\ \E C \in SUBSET Credits : CloseRead(x, C)

CallStep(x) ==
    \/ IssueCheck(x)
    \/ BatchCheck(x)
    \/ \E c \in Credits : IssueClaim(x, c) \/ ClaimOne(x, c)
    \/ ReadClaimed(x)
    \/ \E left \in SUBSET Credits : CloseSetAside(x, left)
    \/ \E k \in Parts : Issue(x, k) \/ IssueRejected(x, k) \/ IssueLost(x, k)
    \/ Reopen(x)
    \/ \E freed \in SUBSET Credits : ReopenFails(x, freed)
    \/ Mark(x)
    \/ \E written \in SUBSET Credits : MarkFails(x, written)
    \/ Record(x)
    \/ RecordFails(x)
    \/ Finish(x)
    \/ Abort(x)

VoidStep(v) ==
    \/ \E i \in Invoices : VoidRead(v, i)
    \/ VoidCheck(v)
    \/ VoidIssue(v)
    \/ VoidWrite(v)

Next ==
    \/ \E c \in Credits : Create(c) \/ Cancel(c) \/ ClaimAges(c)
    \/ \E x \in Calls : CallStart(x) \/ CallStep(x)
    \/ \E v \in Voids : VoidStep(v)
    \/ ReleaseStuckClaims
    \/ Crash

Spec == Init /\ [][Next]_vars

-----------------------------------------------------------------------------
(* Properties.                                                             *)

(* Double refund: a credit note that no logged failure has hit is given    *)
(* back by one document at most, whichever of the three ways it goes and   *)
(* however calls, crashes and the hourly release interleave.               *)
GivenBackOnce ==
    \A c \in Credits \ incident : \A d, e \in DocNums :
        c \in given[d] /\ c \in given[e] => d = e

(* A note is marked billed or netted exactly when a document gives it back *)
(* and the call has got to the marking, and it carries the number of that  *)
(* document: the screens and the checks on the invoice rely on the mark.   *)
MarkedIffGiven ==
    \A c \in Credits \ incident :
        /\ status[c] \in {"billed", "netted"} =>
              docNum[c] \in DocNums /\ c \in given[docNum[c]]
        /\ \A d \in DocNums :
              c \in given[d] /\ (\A x \in Calls : c \notin group[x]) =>
                  status[c] \in {"billed", "netted"} /\ docNum[c] = d

(* The notes that document d gives back against invoice i: a credit        *)
(* invoice of one note is based on the invoice of the call, the others     *)
(* leave each note its own.                                                *)
GivenAgainst(d, i) ==
    IF d[1] \in Issues
    THEN {c \in given[d] : link[d[1]] = i}
    ELSE {c \in given[d] : original[c] = i}

AllGivenAgainst(i) == UNION {GivenAgainst(d, i) : d \in DocNums}

(* What assertInvoiceCanBeCredited is for, where calls do not overlap: a   *)
(* credit invoice never brings what was given back against an invoice      *)
(* above what the invoice charged and the tolerance of the check, however  *)
(* many credits there are and whatever was netted, cancelled or relinked   *)
(* before: the tolerance is not granted anew to each of them.              *)
CreditStaysWithinInvoice ==
    [][\A d \in DocNums : \A i \in Invoices :
          d[1] \notin Closes /\ given'[d] # given[d] /\ GivenAgainst(d, i)' # {} =>
              AmountOf(AllGivenAgainst(i)' \ incident') <= CreditLimit(i)]_vars

(* An invoice that was credited in full and taken off its delivery notes   *)
(* has no credit invoice of a credit note against it.                      *)
FullOrPartial ==
    \A i \in voided \ active : \A d \in DocNums :
        d[1] \notin Closes => GivenAgainst(d, i) \subseteq incident

(* Money given back reaches the balance of the customer: a credit invoice  *)
(* whose call has gone on (to its next part, or to its end) has its entry. *)
CreditReachesBalance ==
    \A d \in DocNums :
        /\ d[1] \notin Closes
        /\ given[d] # {}
        /\ given[d] \cap incident = {}
        /\ ~(pc[d[1]] \in {"mark", "record"} /\ current[d[1]] = d)
        => d \in balance

=============================================================================
