----------------------------- MODULE OrderNotes -----------------------------
(***************************************************************************)
(* The delivery notes of one order, and how they follow it:                *)
(* lib/billing/deliveryNotes.js, lib/billing/autoDeliveryNote.js, the      *)
(* hooks of models/Order.js, utils/logStatusChange.js, the handlers of     *)
(* orderController.js and lib/orders/editItems.js that change an order.    *)
(*                                                                         *)
(* An order has one automatic note, written from the lines of its cart     *)
(* that are sold by the piece, and manual notes typed from what was        *)
(* weighed.  Every change of the cart or the status starts, without being  *)
(* awaited, a synchronisation that brings the notes into line; a status    *)
(* that hands the goods over starts the creation of the automatic note.    *)
(* All of them read the note and the order, decide, and write later; the   *)
(* writes ask only that billing.status still is what was read.             *)
(***************************************************************************)
EXTENDS Naturals, FiniteSets

CONSTANTS
    AutoNote,    \* the automatic note of the order
    Forms,       \* forms a clerk fills for a manual note, all of the same goods
    Carts,       \* what the cart may hold
    EmptyCarts,  \* carts without a line for the automatic note
    Hand,        \* content typed by a person
    Threads,     \* synchronisations that may run at once
    Creators,    \* creations of the automatic note that may run at once
    Clerks,      \* people that edit and cancel notes, delete the order
    MaxChanges,  \* bound: changes of the order
    MaxActs,     \* bound: what the clerks do
    None

Docs == Forms \cup {AutoNote}

ASSUME NotesAssumption ==
    /\ IsFiniteSet(Forms)
    /\ AutoNote \notin Forms
    /\ EmptyCarts \subseteq Carts
    /\ Hand \notin Carts
    /\ None \notin Carts \cup {Hand} \cup Docs
    /\ MaxChanges \in Nat /\ MaxActs \in Nat

VARIABLES
    ostatus,   \* the order's status
    cart,      \* the order's cart
    nstatus,   \* nstatus[d]: billing.status, "none" while there is no note
    content,   \* content[d]: the note's lines and sums
    bySync,    \* notes with billing.cancelledBySync
    edited,    \* notes with manuallyEdited
    charged,   \* charged[d]: the content its invoice was made from
    job,       \* job[d]: the note's print job
    calls,     \* calls of queueDeliveryNoteSafe that still run
    spc,       \* spc[y]: where synchronisation (or edit) y stands
    sn,        \* sn[y]: the automatic note as y read it
    so,        \* so[y]: the order as y read it
    todo,      \* todo[y]: manual notes y has yet to visit
    cur,       \* cur[y]: the note whose print job y is about to touch
    kpc,       \* kpc[k]: where creation k stands
    kcart,     \* kcart[k]: the cart k read
    fpc,       \* fpc[f]: where the creation from form f stands
    hpc,       \* hpc[h]: where clerk h stands
    hdoc,      \* hdoc[h]: the note h works on
    changes,   \* changes of the order so far (bound)
    acts,      \* acts of the clerks so far (bound)
    overtaken, \* a step was taken on a reading no longer true (history)
    missed     \* a synchronisation found a note it may not touch (history)

orderVars == <<ostatus, cart>>
noteVars  == <<nstatus, content, bySync, edited, charged>>
syncVars  == <<spc, sn, so, todo, cur>>
makeVars  == <<kpc, kcart, fpc>>
clerkVars == <<hpc, hdoc, acts>>
vars == <<orderVars, noteVars, job, calls, syncVars, makeVars, clerkVars,
          changes, overtaken, missed>>

OrderStatus == {"waiting", "error", "handled", "cancelled", "gone"}
NoteStatus  == {"none", "open", "billing", "billed", "cancelled"}
JobStatus   == {"none", "pending", "taken", "cancelled"}
Contents    == Carts \cup {Hand, None}

NoteRow  == [status : NoteStatus, content : Contents,
             bySync : BOOLEAN, edited : BOOLEAN]
OrderRow == [cancelled : BOOLEAN, cart : Carts]

NoNote  == [status |-> "none", content |-> None, bySync |-> FALSE, edited |-> FALSE]
NoOrder == [cancelled |-> FALSE, cart |-> CHOOSE c \in Carts : TRUE]

SyncSteps == {"idle", "edit", "note", "order", "find", "manuals",
              "mwithdraw", "mrequeue", "withdraw", "requeue"}

NotesTypeOK ==
    /\ ostatus \in OrderStatus
    /\ cart \in Carts
    /\ nstatus \in [Docs -> NoteStatus]
    /\ content \in [Docs -> Contents]
    /\ bySync \in SUBSET Docs
    /\ edited \in SUBSET Docs
    /\ \A d \in Docs : content[d] = None <=> nstatus[d] = "none"
    /\ charged \in [Docs -> Contents]
    /\ job \in [Docs -> JobStatus]
    /\ calls \in SUBSET ({"add", "reprint"} \X Docs)
    /\ spc \in [Threads -> SyncSteps]
    /\ sn \in [Threads -> NoteRow]
    /\ so \in [Threads -> OrderRow]
    /\ todo \in [Threads -> SUBSET Forms]
    /\ cur \in [Threads -> Docs \cup {None}]
    /\ kpc \in [Creators -> {"idle", "look", "read", "create"}]
    /\ kcart \in [Creators -> Contents]
    /\ fpc \in [Forms -> {"idle", "check", "create", "done"}]
    /\ hpc \in [Clerks -> {"idle", "edit", "cancel", "recancel", "withdraw", "delete", "order"}]
    /\ hdoc \in [Clerks -> Docs \cup {None}]
    /\ changes \in 0..MaxChanges
    /\ acts \in 0..MaxActs
    /\ overtaken \in BOOLEAN
    /\ missed \in BOOLEAN

Init ==
    /\ ostatus \in {"waiting", "error"}
    /\ cart \in Carts
    /\ nstatus = [d \in Docs |-> "none"]
    /\ content = [d \in Docs |-> None]
    /\ bySync = {}
    /\ edited = {}
    /\ charged = [d \in Docs |-> None]
    /\ job = [d \in Docs |-> "none"]
    /\ calls = {}
    /\ spc = [y \in Threads |-> "idle"]
    /\ sn = [y \in Threads |-> NoNote]
    /\ so = [y \in Threads |-> NoOrder]
    /\ todo = [y \in Threads |-> {}]
    /\ cur = [y \in Threads |-> None]
    /\ kpc = [k \in Creators |-> "idle"]
    /\ kcart = [k \in Creators |-> None]
    /\ fpc = [f \in Forms |-> "idle"]
    /\ hpc = [h \in Clerks |-> "idle"]
    /\ hdoc = [h \in Clerks |-> None]
    /\ changes = 0
    /\ acts = 0
    /\ overtaken = FALSE
    /\ missed = FALSE

Goto(y, s) == spc' = [spc EXCEPT ![y] = s]

Change == changes < MaxChanges /\ changes' = changes + 1

Flag(condition) == overtaken' = (overtaken \/ condition)

-----------------------------------------------------------------------------
(* Changes of the order.                                                   *)

(* The hook on a change of the status starts a synchronisation, and        *)
(* logStatusChange the creation of the note, both without awaiting them.   *)
SetStatus(y, s) ==
    /\ Change
    /\ spc[y] = "idle"
    /\ ostatus \notin {s, "gone"}
    /\ ostatus' = s
    /\ Goto(y, "note")
    /\ IF s = "handled"
       THEN \E k \in Creators : kpc[k] = "idle" /\ kpc' = [kpc EXCEPT ![k] = "look"]
       ELSE UNCHANGED kpc
    /\ UNCHANGED <<cart, noteVars, job, calls, sn, so, todo, cur, kcart, fpc,
                   clerkVars, overtaken, missed>>

(* editOrderItems reads the order ...                                      *)
EditRead(y) ==
    /\ Change
    /\ spc[y] = "idle"
    /\ ostatus # "gone"
    /\ so' = [so EXCEPT ![y] = [cancelled |-> ostatus = "cancelled", cart |-> cart]]
    /\ Goto(y, "edit")
    /\ UNCHANGED <<orderVars, noteVars, job, calls, sn, todo, cur, makeVars,
                   clerkVars, overtaken, missed>>

(* ... and writes the whole cart: the hook starts one synchronisation, the *)
(* handler another.                                                        *)
EditSave(y, z) ==
    /\ spc[y] = "edit"
    /\ ostatus # "gone"
    /\ y # z /\ spc[z] = "idle"
    /\ \E c \in Carts \ {so[y].cart} : cart' = c
    /\ Flag(cart # so[y].cart)
    /\ so' = [so EXCEPT ![y] = NoOrder]
    /\ spc' = [spc EXCEPT ![y] = "note", ![z] = "note"]
    /\ UNCHANGED <<ostatus, noteVars, job, calls, sn, todo, cur, makeVars,
                   clerkVars, changes, missed>>

(* The order is gone: the save fails, and no hook runs.                    *)
EditFails(y) ==
    /\ spc[y] = "edit"
    /\ ostatus = "gone"
    /\ so' = [so EXCEPT ![y] = NoOrder]
    /\ Goto(y, "idle")
    /\ UNCHANGED <<orderVars, noteVars, job, calls, sn, todo, cur, makeVars,
                   clerkVars, changes, overtaken, missed>>

-----------------------------------------------------------------------------
(* createFromOrder                                                         *)

(* The button of the order's screen; backfill asks the same.               *)
IssueButton(k) ==
    /\ acts < MaxActs
    /\ kpc[k] = "idle"
    /\ kpc' = [kpc EXCEPT ![k] = "look"]
    /\ acts' = acts + 1
    /\ UNCHANGED <<orderVars, noteVars, job, calls, syncVars, kcart, fpc,
                   hpc, hdoc, changes, overtaken, missed>>

CreateLook(k) ==
    /\ kpc[k] = "look"
    /\ kpc' = [kpc EXCEPT ![k] = IF nstatus[AutoNote] = "none" THEN "read" ELSE "idle"]
    /\ UNCHANGED <<orderVars, noteVars, job, calls, syncVars, kcart, fpc,
                   clerkVars, changes, overtaken, missed>>

(* Mutant: a cancelled order gets its note.                                *)
IssuableCancelled ==
    ostatus \notin {"error", "gone"} /\ cart \notin EmptyCarts

(* Refused: a cancelled order, one that awaits a fix of its reading, one   *)
(* with nothing for the automatic note.                                    *)
Issuable ==
    ostatus \notin {"cancelled", "error", "gone"} /\ cart \notin EmptyCarts

CreateRead(k) ==
    /\ kpc[k] = "read"
    /\ IF Issuable
       THEN /\ kcart' = [kcart EXCEPT ![k] = cart]
            /\ kpc' = [kpc EXCEPT ![k] = "create"]
       ELSE /\ kpc' = [kpc EXCEPT ![k] = "idle"]
            /\ UNCHANGED kcart
    /\ UNCHANGED <<orderVars, noteVars, job, calls, syncVars, fpc,
                   clerkVars, changes, overtaken, missed>>

(* The unique index on the order lets the first one through.               *)
Create(k) ==
    /\ kpc[k] = "create"
    /\ IF nstatus[AutoNote] = "none"
       THEN /\ nstatus' = [nstatus EXCEPT ![AutoNote] = "open"]
            /\ content' = [content EXCEPT ![AutoNote] = kcart[k]]
            /\ calls' = calls \cup {<<"add", AutoNote>>}
            /\ Flag(cart # kcart[k] \/ ~Issuable)
       ELSE UNCHANGED <<nstatus, content, calls, overtaken>>
    /\ kpc' = [kpc EXCEPT ![k] = "idle"]
    /\ kcart' = [kcart EXCEPT ![k] = None]
    /\ UNCHANGED <<orderVars, bySync, edited, charged, job, syncVars, fpc,
                   clerkVars, changes, missed>>

-----------------------------------------------------------------------------
(* The print jobs, as far as the notes touch them (see PrintQueue).        *)

(* A call of queueDeliveryNoteSafe arrives.                                *)
Deliver(op, d) ==
    /\ <<op, d>> \in calls
    /\ calls' = calls \ {<<op, d>>}
    /\ job' = IF op = "reprint" \/ job[d] = "none"
              THEN [job EXCEPT ![d] = "pending"] ELSE job
    /\ Flag(nstatus[d] \in {"cancelled", "none"})
    /\ UNCHANGED <<orderVars, noteVars, syncVars, makeVars, clerkVars, changes, missed>>

Withdrawn(d) ==
    job' = IF job[d] = "pending" THEN [job EXCEPT ![d] = "cancelled"] ELSE job

Requeued(d) ==
    job' = IF job[d] = "cancelled" THEN [job EXCEPT ![d] = "pending"] ELSE job

(* An agent takes the job; from here on it is its own (PrintQueue).        *)
AgentTakes(d) ==
    /\ job[d] = "pending"
    /\ job' = [job EXCEPT ![d] = "taken"]
    /\ UNCHANGED <<orderVars, noteVars, calls, syncVars, makeVars, clerkVars,
                   changes, overtaken, missed>>

-----------------------------------------------------------------------------
(* syncFromOrder                                                           *)

SyncNote(y) ==
    /\ spc[y] = "note"
    /\ sn' = [sn EXCEPT ![y] =
                 [status |-> nstatus[AutoNote], content |-> content[AutoNote],
                  bySync |-> AutoNote \in bySync, edited |-> AutoNote \in edited]]
    /\ Goto(y, "order")
    /\ UNCHANGED <<orderVars, noteVars, job, calls, so, todo, cur, makeVars,
                   clerkVars, changes, overtaken, missed>>

Finish(y) ==
    /\ Goto(y, "idle")
    /\ sn' = [sn EXCEPT ![y] = NoNote]
    /\ so' = [so EXCEPT ![y] = NoOrder]
    /\ todo' = [todo EXCEPT ![y] = {}]
    /\ cur' = [cur EXCEPT ![y] = None]

SyncOrder(y) ==
    /\ spc[y] = "order"
    /\ ostatus # "gone"
    /\ so' = [so EXCEPT ![y] = [cancelled |-> ostatus = "cancelled", cart |-> cart]]
    /\ Goto(y, "find")
    /\ UNCHANGED <<orderVars, noteVars, job, calls, sn, todo, cur, makeVars,
                   clerkVars, changes, overtaken, missed>>

SyncNoOrder(y) ==
    /\ spc[y] = "order"
    /\ ostatus = "gone"
    /\ Finish(y)
    /\ UNCHANGED <<orderVars, noteVars, job, calls, makeVars, clerkVars, changes,
                   overtaken, missed>>

(* The manual notes that the order's cancellation, or return, concerns.    *)
Concerned(y) ==
    {f \in Forms : IF so[y].cancelled
                   THEN nstatus[f] = "open"
                   ELSE nstatus[f] = "cancelled" /\ f \in bySync}

SyncFind(y) ==
    /\ spc[y] = "find"
    /\ todo' = [todo EXCEPT ![y] = Concerned(y)]
    /\ missed' = (missed \/ (so[y].cancelled /\ \E f \in Forms : nstatus[f] = "billing"))
    /\ Goto(y, "manuals")
    /\ UNCHANGED <<orderVars, noteVars, job, calls, sn, so, cur, makeVars,
                   clerkVars, changes, overtaken>>

Live(d) == nstatus[d] \in {"open", "billing", "billed"}

(* Mutant: a billed note is not looked at.                                 *)
ClashWithOpen(f) == \E g \in Forms \ {f} : nstatus[g] = "open"

Clash(f) == \E g \in Forms \ {f} : Live(g)

(* One of them, if its status still is what the query found.  Whether its  *)
(* goods are on another note by now is not asked.                          *)
SyncManual(y, f) ==
    /\ spc[y] = "manuals"
    /\ f \in todo[y]
    /\ todo' = [todo EXCEPT ![y] = @ \ {f}]
    /\ \/ /\ so[y].cancelled /\ nstatus[f] = "open"
          /\ nstatus' = [nstatus EXCEPT ![f] = "cancelled"]
          /\ bySync' = bySync \cup {f}
          /\ Flag(ostatus # "cancelled")
          /\ Goto(y, "mwithdraw")
          /\ cur' = [cur EXCEPT ![y] = f]
          /\ UNCHANGED missed
       \/ /\ ~so[y].cancelled /\ nstatus[f] = "cancelled"
          /\ nstatus' = [nstatus EXCEPT ![f] = "open"]
          /\ bySync' = bySync \ {f}
          /\ Flag(ostatus = "cancelled" \/ f \notin bySync \/ Clash(f))
          /\ Goto(y, "mrequeue")
          /\ cur' = [cur EXCEPT ![y] = f]
          /\ UNCHANGED missed
       \/ /\ nstatus[f] # IF so[y].cancelled THEN "open" ELSE "cancelled"
          /\ missed' = TRUE
          /\ UNCHANGED <<nstatus, bySync, spc, cur, overtaken>>
    /\ UNCHANGED <<orderVars, content, edited, charged, job, calls, sn, so,
                   makeVars, clerkVars, changes>>

SyncManualPrint(y) ==
    /\ \/ spc[y] = "mwithdraw" /\ Withdrawn(cur[y]) /\ Flag(nstatus[cur[y]] # "cancelled")
       \/ spc[y] = "mrequeue" /\ Requeued(cur[y]) /\ Flag(nstatus[cur[y]] = "cancelled")
    /\ cur' = [cur EXCEPT ![y] = None]
    /\ Goto(y, "manuals")
    /\ UNCHANGED <<orderVars, noteVars, calls, sn, so, todo, makeVars, clerkVars,
                   changes, missed>>

(* The manual notes are done: now the automatic one.                       *)
Decides(y) == spc[y] = "manuals" /\ todo[y] = {}

(* What the readings say is to be done with it.                            *)
Empty(y) == so[y].cancelled \/ so[y].cart \in EmptyCarts

(* Mutant: whatever cancelled the note, it comes back.                     *)
RevivableAlways(y) == sn[y].status = "cancelled" /\ ~Empty(y)

Revivable(y) == sn[y].status = "cancelled" /\ sn[y].bySync /\ ~Empty(y)

(* Mutant: the comparison sees what the note says only when it is empty.   *)
DiffersIfEmpty(y) == Empty(y)

Differs(y) == Empty(y) \/ sn[y].content # so[y].cart

Untouchable(y) == sn[y].edited /\ ~so[y].cancelled

Verdict(y) ==
    IF sn[y].status = "none" \/ (~Differs(y) /\ ~Revivable(y)) THEN "leave"
    ELSE IF Untouchable(y) THEN IF Revivable(y) THEN "revive" ELSE "leave"
    ELSE IF sn[y].status # "open" /\ ~Revivable(y) THEN "leave"
    ELSE IF Empty(y) THEN "cancel"
    ELSE "update"

SyncLeaves(y) ==
    /\ Decides(y)
    /\ Verdict(y) = "leave"
    /\ missed' = (missed \/ sn[y].status \in {"billing", "billed"})
    /\ Finish(y)
    /\ UNCHANGED <<orderVars, noteVars, job, calls, makeVars, clerkVars, changes,
                   overtaken>>

(* Mutant: the write goes to the note by its id alone (note.save).         *)
UnmovedOrNot(y) == nstatus[AutoNote] # "none"

(* The write asks for the status that was read.                            *)
Unmoved(y) == nstatus[AutoNote] = sn[y].status

SyncRaced(y) ==
    /\ Decides(y)
    /\ Verdict(y) # "leave"
    /\ ~Unmoved(y)
    /\ missed' = TRUE
    /\ Finish(y)
    /\ UNCHANGED <<orderVars, noteVars, job, calls, makeVars, clerkVars, changes,
                   overtaken>>

(* Did the note, or the order, change since they were read?                *)
Stale(y) ==
    \/ so[y].cancelled # (ostatus = "cancelled")
    \/ so[y].cart # cart
    \/ sn[y].edited # (AutoNote \in edited)
    \/ sn[y].bySync # (AutoNote \in bySync)
    \/ sn[y].content # content[AutoNote]

SyncWrites(y, verdict) ==
    /\ Decides(y)
    /\ Verdict(y) = verdict
    /\ Unmoved(y)
    /\ Flag(Stale(y))

(* Cancelled with the order and back with it, with what the person typed.  *)
SyncRevives(y) ==
    /\ SyncWrites(y, "revive")
    /\ nstatus' = [nstatus EXCEPT ![AutoNote] = "open"]
    /\ bySync' = bySync \ {AutoNote}
    /\ Goto(y, "requeue")
    /\ UNCHANGED <<orderVars, content, edited, charged, job, calls, sn, so, todo,
                   cur, makeVars, clerkVars, changes, missed>>

SyncCancels(y) ==
    /\ SyncWrites(y, "cancel")
    /\ nstatus' = [nstatus EXCEPT ![AutoNote] = "cancelled"]
    /\ bySync' = bySync \cup {AutoNote}
    /\ Goto(y, "withdraw")
    /\ UNCHANGED <<orderVars, content, edited, charged, job, calls, sn, so, todo,
                   cur, makeVars, clerkVars, changes, missed>>

(* Mutant: a note that comes back with new content is queued as a new one. *)
AddsInstead(y) ==
    /\ SyncWrites(y, "update")
    /\ content' = [content EXCEPT ![AutoNote] = so[y].cart]
    /\ IF Revivable(y)
       THEN /\ nstatus' = [nstatus EXCEPT ![AutoNote] = "open"]
            /\ bySync' = bySync \ {AutoNote}
            /\ calls' = calls \cup {<<"add", AutoNote>>}
       ELSE UNCHANGED <<nstatus, bySync, calls>>
    /\ Finish(y)
    /\ UNCHANGED <<orderVars, edited, charged, job, makeVars, clerkVars, changes,
                   missed>>

(* New content; a note that comes back with it is printed anew, one that   *)
(* comes back as it was only if its job was cancelled before the paper.    *)
SyncUpdates(y) ==
    /\ SyncWrites(y, "update")
    /\ content' = [content EXCEPT ![AutoNote] = so[y].cart]
    /\ IF Revivable(y)
       THEN /\ nstatus' = [nstatus EXCEPT ![AutoNote] = "open"]
            /\ bySync' = bySync \ {AutoNote}
            /\ calls' = IF Differs(y) THEN calls \cup {<<"reprint", AutoNote>>} ELSE calls
       ELSE UNCHANGED <<nstatus, bySync, calls>>
    /\ IF Revivable(y) /\ ~Differs(y)
       THEN Goto(y, "requeue") /\ UNCHANGED <<sn, so, todo, cur>>
       ELSE Finish(y)
    /\ UNCHANGED <<orderVars, edited, charged, job, makeVars, clerkVars, changes,
                   missed>>

SyncPrint(y) ==
    /\ \/ spc[y] = "withdraw" /\ Withdrawn(AutoNote) /\ Flag(nstatus[AutoNote] # "cancelled")
       \/ spc[y] = "requeue" /\ Requeued(AutoNote) /\ Flag(nstatus[AutoNote] = "cancelled")
    /\ Finish(y)
    /\ UNCHANGED <<orderVars, noteVars, calls, makeVars, clerkVars, changes, missed>>

-----------------------------------------------------------------------------
(* createManual: the order is read, then the notes that cover the same     *)
(* goods, then the note is made.                                           *)

FormRead(f) ==
    /\ fpc[f] = "idle"
    /\ acts < MaxActs
    /\ acts' = acts + 1
    /\ fpc' = [fpc EXCEPT ![f] =
                  IF ostatus \in {"cancelled", "gone"} THEN "done" ELSE "check"]
    /\ UNCHANGED <<orderVars, noteVars, job, calls, syncVars, kpc, kcart, hpc, hdoc,
                   changes, overtaken, missed>>

FormCheck(f) ==
    /\ fpc[f] = "check"
    /\ fpc' = [fpc EXCEPT ![f] = IF Clash(f) THEN "done" ELSE "create"]
    /\ UNCHANGED <<orderVars, noteVars, job, calls, syncVars, kpc, kcart, clerkVars,
                   changes, overtaken, missed>>

FormCreate(f) ==
    /\ fpc[f] = "create"
    /\ nstatus' = [nstatus EXCEPT ![f] = "open"]
    /\ content' = [content EXCEPT ![f] = Hand]
    /\ calls' = calls \cup {<<"add", f>>}
    /\ fpc' = [fpc EXCEPT ![f] = "done"]
    /\ Flag(ostatus \in {"cancelled", "gone"} \/ Clash(f))
    /\ UNCHANGED <<orderVars, bySync, edited, charged, job, syncVars, kpc, kcart,
                   clerkVars, changes, missed>>

-----------------------------------------------------------------------------
(* People: update, cancel, deleteOrder.                                    *)

Clerk(h, step, d) ==
    /\ hpc' = [hpc EXCEPT ![h] = step]
    /\ hdoc' = [hdoc EXCEPT ![h] = d]

Act(h) == hpc[h] = "idle" /\ acts < MaxActs /\ acts' = acts + 1

UpdateRead(h, d) ==
    /\ Act(h)
    /\ nstatus[d] = "open"
    /\ Clerk(h, "edit", d)
    /\ UNCHANGED <<orderVars, noteVars, job, calls, syncVars, makeVars, changes,
                   overtaken, missed>>

(* The note must still be open.  It is marked as edited, and printed anew. *)
UpdateWrite(h) ==
    /\ hpc[h] = "edit"
    /\ IF nstatus[hdoc[h]] = "open"
       THEN /\ content' = [content EXCEPT ![hdoc[h]] = Hand]
            /\ edited' = edited \cup {hdoc[h]}
            /\ calls' = calls \cup {<<"reprint", hdoc[h]>>}
       ELSE UNCHANGED <<content, edited, calls>>
    /\ Clerk(h, "idle", None)
    /\ UNCHANGED <<orderVars, nstatus, bySync, charged, job, syncVars, makeVars,
                   acts, changes, overtaken, missed>>

(* Read as cancelled, a note keeps its status: the save writes what was    *)
(* assigned a new value, here no more than the mark of the synchronisation.*)
CancelRead(h, d) ==
    /\ Act(h)
    /\ nstatus[d] \in {"open", "billing", "cancelled"}
    /\ LET step == IF nstatus[d] # "cancelled" THEN "cancel"
                   ELSE IF d \in bySync THEN "recancel" ELSE "withdraw"
       IN  Clerk(h, step, d)
    /\ UNCHANGED <<orderVars, noteVars, job, calls, syncVars, makeVars, changes,
                   overtaken, missed>>

(* Otherwise it is written whatever it is by now.  A person decided.       *)
CancelWrite(h) ==
    /\ hpc[h] \in {"cancel", "recancel"}
    /\ LET d == hdoc[h]
       IN  /\ Flag(IF hpc[h] = "cancel" THEN nstatus[d] \in {"billing", "billed", "none"}
                   ELSE nstatus[d] # "cancelled")
           /\ IF nstatus[d] = "none"
              THEN Clerk(h, "idle", None) /\ UNCHANGED <<nstatus, bySync>>
              ELSE /\ nstatus' = [nstatus EXCEPT ![d] =
                                     IF hpc[h] = "cancel" THEN "cancelled" ELSE @]
                   /\ bySync' = bySync \ {d}
                   /\ Clerk(h, "withdraw", d)
    /\ UNCHANGED <<orderVars, content, edited, charged, job, calls, syncVars,
                   makeVars, acts, changes, missed>>

CancelPrint(h) ==
    /\ hpc[h] = "withdraw"
    /\ Withdrawn(hdoc[h])
    /\ Flag(nstatus[hdoc[h]] # "cancelled")
    /\ Clerk(h, "idle", None)
    /\ UNCHANGED <<orderVars, noteVars, calls, syncVars, makeVars, acts, changes, missed>>

(* deleteOrder looks at the notes, and stops at one that is charged, about *)
(* to be, or manual ...                                                    *)
DeleteRead(h) ==
    /\ Act(h)
    /\ ostatus # "gone"
    /\ nstatus[AutoNote] \notin {"billing", "billed"}
    /\ \A f \in Forms : nstatus[f] = "none"
    /\ Clerk(h, "delete", IF nstatus[AutoNote] = "none" THEN None ELSE AutoNote)
    /\ UNCHANGED <<orderVars, noteVars, job, calls, syncVars, makeVars, changes,
                   overtaken, missed>>

(* ... deletes those it found, and then the order.                         *)
DeleteNotes(h) ==
    /\ hpc[h] = "delete"
    /\ IF hdoc[h] = AutoNote
       THEN /\ Flag(nstatus[AutoNote] \in {"billing", "billed"})
            /\ nstatus' = [nstatus EXCEPT ![AutoNote] = "none"]
            /\ content' = [content EXCEPT ![AutoNote] = None]
            /\ charged' = [charged EXCEPT ![AutoNote] = None]
            /\ bySync' = bySync \ {AutoNote}
            /\ edited' = edited \ {AutoNote}
       ELSE UNCHANGED <<noteVars, overtaken>>
    /\ Clerk(h, "order", None)
    /\ UNCHANGED <<orderVars, job, calls, syncVars, makeVars, acts, changes, missed>>

DeleteOrder(h) ==
    /\ hpc[h] = "order"
    /\ ostatus' = "gone"
    /\ Flag(\E d \in Docs : nstatus[d] # "none")
    /\ Clerk(h, "idle", None)
    /\ UNCHANGED <<cart, noteVars, job, calls, syncVars, makeVars, acts, changes, missed>>

-----------------------------------------------------------------------------
(* The month close, as far as the notes see it (see MonthlyBilling).       *)

Bill(d, from, to, lines) ==
    /\ nstatus[d] = from
    /\ nstatus' = [nstatus EXCEPT ![d] = to]
    /\ charged' = [charged EXCEPT ![d] = lines]
    /\ UNCHANGED <<orderVars, content, bySync, edited, job, calls, syncVars,
                   makeVars, clerkVars, changes, overtaken, missed>>

BillClaim(d) == Bill(d, "open", "billing", None)

(* The claimed notes are read again and the invoice is made from them.     *)
BillRead(d) == charged[d] = None /\ Bill(d, "billing", "billing", content[d])

BillMark(d) == charged[d] # None /\ Bill(d, "billing", "billed", charged[d])

BillRelease(d) == Bill(d, "billing", "open", None)

-----------------------------------------------------------------------------
SyncStep(y) ==
    \/ SyncNote(y) \/ SyncOrder(y) \/ SyncNoOrder(y)
    \/ SyncFind(y) \/ (\E f \in Forms : SyncManual(y, f))
    \/ SyncManualPrint(y)
    \/ SyncLeaves(y) \/ SyncRaced(y)
    \/ SyncRevives(y) \/ SyncCancels(y) \/ SyncUpdates(y) \/ SyncPrint(y)

CreateStep(k) == IssueButton(k) \/ CreateLook(k) \/ CreateRead(k) \/ Create(k)

FormStep(f) == FormRead(f) \/ FormCheck(f) \/ FormCreate(f)

ClerkStep(h) ==
    \/ \E d \in Docs : UpdateRead(h, d) \/ CancelRead(h, d)
    \/ UpdateWrite(h) \/ CancelWrite(h) \/ CancelPrint(h)
    \/ DeleteRead(h) \/ DeleteNotes(h) \/ DeleteOrder(h)

NoteStep(d) ==
    \/ \E op \in {"add", "reprint"} : Deliver(op, d)
    \/ AgentTakes(d)
    \/ BillClaim(d) \/ BillRead(d) \/ BillMark(d) \/ BillRelease(d)

Next ==
    \/ \E y \in Threads, s \in {"waiting", "handled", "cancelled"} : SetStatus(y, s)
    \/ \E y \in Threads : EditRead(y) \/ EditFails(y) \/ SyncStep(y)
    \/ \E y, z \in Threads : EditSave(y, z)
    \/ \E k \in Creators : CreateStep(k)
    \/ \E f \in Forms : FormStep(f)
    \/ \E h \in Clerks : ClerkStep(h)
    \/ \E d \in Docs : NoteStep(d)

Spec == Init /\ [][Next]_vars

-----------------------------------------------------------------------------
Quiet ==
    /\ \A y \in Threads : spc[y] = "idle"
    /\ \A k \in Creators : kpc[k] = "idle"
    /\ \A f \in Forms : fpc[f] \in {"idle", "done"}
    /\ \A h \in Clerks : hpc[h] = "idle"
    /\ calls = {}

(* The invoice was made from the lines the note shows: nothing changes the *)
(* content of a note once a run has claimed it (deliveryNotes.js:603-609). *)
InvoiceMatchesNote ==
    \A d \in Docs :
        nstatus[d] \in {"billing", "billed"} /\ charged[d] # None =>
            charged[d] = content[d]

(* Once everything has settled, an open automatic note that no person      *)
(* edited says what the order says, and one that the synchronisation       *)
(* cancelled belongs to an order with nothing to charge (Order.js:430),    *)
(* unless a step relied on an outdated reading or a run held the note.     *)
FollowsOrder ==
    Quiet /\ ~overtaken /\ ~missed /\ ostatus # "gone" =>
        /\ nstatus[AutoNote] = "open" /\ AutoNote \notin edited => content[AutoNote] = cart
        /\ nstatus[AutoNote] = "cancelled" /\ AutoNote \in bySync =>
               ostatus = "cancelled" \/ cart \in EmptyCarts

(* Once everything has settled, an order that was cancelled, or deleted,   *)
(* has no note that the month close would charge (deliveryNotes.js:306).   *)
CancelledIsNotCharged ==
    Quiet /\ ~overtaken /\ ~missed /\ ostatus \in {"cancelled", "gone"} =>
        \A d \in Docs : nstatus[d] # "open"

(* Once everything has settled, a note that counts is on paper or on its   *)
(* way, and the paper of a cancelled one is not waiting to be printed      *)
(* (deliveryNotes.js:634, 671).                                            *)
PaperFollowsNote ==
    Quiet /\ ~overtaken => \A d \in Docs :
        /\ Live(d) => job[d] \in {"pending", "taken"}
        /\ nstatus[d] = "cancelled" => job[d] # "pending"

(* What a person typed into a note stays, and a note that a person         *)
(* cancelled stays cancelled (deliveryNotes.js:547, 1389), unless a        *)
(* synchronisation had read the note before.                               *)
PeopleDecide ==
    [][~overtaken' => \A d \in Docs :
          /\ d \in edited /\ d \in edited' => content'[d] = Hand
          /\ nstatus[d] = "cancelled" /\ d \notin bySync =>
                 nstatus'[d] \in {"cancelled", "none"}]_vars

(* The goods of the order's manual notes are charged once, whatever people *)
(* fill in at the same time (deliveryNotes.js:842), unless two forms       *)
(* passed the check before either note was made.                           *)
WeighedOnce ==
    ~overtaken => Cardinality({f \in Forms : Live(f)}) <= 1

=============================================================================
