-------------------------- MODULE OrderNotesProofs --------------------------
(***************************************************************************)
(* Proofs about OrderNotes, for any number of forms, carts, clerks,        *)
(* creations and synchronisations that run at once.                        *)
(***************************************************************************)
EXTENDS OrderNotes, FiniteSetTheorems, TLAPS

(* What a call that is about to write has in its hands.                    *)
Handed ==
    /\ \A k \in Creators : kpc[k] = "create" => kcart[k] \in Carts
    /\ \A h \in Clerks :
          hpc[h] \in {"edit", "cancel", "recancel", "withdraw"} => hdoc[h] \in Docs
    /\ \A y \in Threads : spc[y] \in {"mwithdraw", "mrequeue"} => cur[y] \in Docs

IInv == NotesTypeOK /\ Handed /\ InvoiceMatchesNote

-----------------------------------------------------------------------------
LEMMA NoOrderType == cart \in Carts => NoOrder \in OrderRow
<1> SUFFICES ASSUME cart \in Carts PROVE NoOrder \in OrderRow
    OBVIOUS
<1>1. (CHOOSE c \in Carts : TRUE) \in Carts
    OBVIOUS
<1> QED
    BY <1>1 DEF NoOrder, OrderRow

LEMMA NoNoteType == NoNote \in NoteRow
BY DEF NoNote, NoteRow, NoteStatus, Contents

LEMMA AutoIsDoc == AutoNote \in Docs
BY DEF Docs

LEMMA InitInv == Init => IInv
<1> SUFFICES ASSUME Init PROVE IInv
    OBVIOUS
<1>1. NotesTypeOK
  <2> USE DEF Init
  <2>1. NoOrder \in OrderRow /\ NoNote \in NoteRow
    BY NoOrderType, NoNoteType
  <2>2. sn \in [Threads -> NoteRow] /\ so \in [Threads -> OrderRow]
    BY <2>1
  <2>3. /\ ostatus \in OrderStatus /\ cart \in Carts
        /\ nstatus \in [Docs -> NoteStatus]
        /\ content \in [Docs -> Contents]
        /\ \A d \in Docs : content[d] = None <=> nstatus[d] = "none"
        /\ charged \in [Docs -> Contents]
        /\ job \in [Docs -> JobStatus]
    BY DEF OrderStatus, NoteStatus, JobStatus, Contents
  <2>4. /\ spc \in [Threads -> SyncSteps]
        /\ todo \in [Threads -> SUBSET Forms]
        /\ cur \in [Threads -> Docs \cup {None}]
    BY DEF SyncSteps
  <2>5. /\ kpc \in [Creators -> {"idle", "look", "read", "create"}]
        /\ kcart \in [Creators -> Contents]
        /\ fpc \in [Forms -> {"idle", "check", "create", "done"}]
        /\ hpc \in [Clerks -> {"idle", "edit", "cancel", "recancel", "withdraw",
                               "delete", "order"}]
        /\ hdoc \in [Clerks -> Docs \cup {None}]
    BY DEF Contents
  <2>6. changes \in 0..MaxChanges /\ acts \in 0..MaxActs
    BY NotesAssumption
  <2> QED
    BY <2>2, <2>3, <2>4, <2>5, <2>6 DEF NotesTypeOK
<1>2. Handed
    BY DEF Init, Handed
<1>3. InvoiceMatchesNote
    BY DEF Init, InvoiceMatchesNote
<1> QED
    BY <1>1, <1>2, <1>3 DEF IInv

(* A step that leaves the notes alone leaves the invoices right.           *)
LEMMA NotesKept == InvoiceMatchesNote /\ UNCHANGED noteVars => InvoiceMatchesNote'
BY DEF InvoiceMatchesNote, noteVars

LEMMA OrderKeeps ==
    ASSUME IInv, NEW y \in Threads,
           \/ \E s \in {"waiting", "handled", "cancelled"} : SetStatus(y, s)
           \/ EditRead(y) \/ EditFails(y) \/ \E z \in Threads : EditSave(y, z)
    PROVE  IInv'
<1> USE DEF IInv, NotesTypeOK, OrderStatus, SyncSteps, orderVars, noteVars, syncVars,
            makeVars, clerkVars, Goto, Change, Flag
<1>1. ASSUME NEW s \in {"waiting", "handled", "cancelled"}, SetStatus(y, s)
      PROVE  IInv'
  <2>1. NotesTypeOK'
    BY <1>1, NotesAssumption DEF SetStatus
  <2>2. Handed'
    BY <1>1 DEF SetStatus, Handed
  <2> QED
    BY <1>1, <2>1, <2>2, NotesKept DEF SetStatus
<1>2. CASE EditRead(y)
  <2>1. so' \in [Threads -> OrderRow]
    BY <1>2 DEF EditRead, OrderRow
  <2>2. NotesTypeOK'
    BY <1>2, <2>1, NotesAssumption DEF EditRead
  <2>3. Handed'
    BY <1>2 DEF EditRead, Handed
  <2> QED
    BY <1>2, <2>2, <2>3, NotesKept DEF EditRead
<1>3. CASE EditFails(y)
  <2>1. NotesTypeOK'
    BY <1>3, NoOrderType DEF EditFails
  <2>2. Handed'
    BY <1>3 DEF EditFails, Handed
  <2> QED
    BY <1>3, <2>1, <2>2, NotesKept DEF EditFails
<1>4. ASSUME NEW z \in Threads, EditSave(y, z) PROVE IInv'
  <2>1. NotesTypeOK'
    BY <1>4, NoOrderType DEF EditSave
  <2>2. Handed'
    BY <1>4 DEF EditSave, Handed
  <2> QED
    BY <1>4, <2>1, <2>2, NotesKept DEF EditSave
<1> QED
    BY <1>1, <1>2, <1>3, <1>4

LEMMA CreateKeeps ==
    ASSUME IInv, NEW k \in Creators, CreateStep(k)
    PROVE  IInv'
<1> USE DEF IInv, NotesTypeOK, orderVars, noteVars, syncVars, makeVars, clerkVars, Flag
<1>1. CASE IssueButton(k)
  <2>1. NotesTypeOK'
    BY <1>1, NotesAssumption DEF IssueButton
  <2>2. Handed'
    BY <1>1 DEF IssueButton, Handed
  <2> QED
    BY <1>1, <2>1, <2>2, NotesKept DEF IssueButton
<1>2. CASE CreateLook(k)
  <2>1. NotesTypeOK'
    BY <1>2 DEF CreateLook
  <2>2. Handed'
    BY <1>2 DEF CreateLook, Handed
  <2> QED
    BY <1>2, <2>1, <2>2, NotesKept DEF CreateLook
<1>3. CASE CreateRead(k)
  <2>1. NotesTypeOK'
    BY <1>3 DEF CreateRead, Contents
  <2>2. Handed'
    BY <1>3 DEF CreateRead, Handed
  <2> QED
    BY <1>3, <2>1, <2>2, NotesKept DEF CreateRead
<1>4. CASE Create(k)
  <2>1. kcart[k] \in Carts /\ kcart[k] # None
    BY <1>4, NotesAssumption DEF Create, Handed
  <2>2. NotesTypeOK'
    <3>1. CASE nstatus[AutoNote] = "none"
      <4>1. /\ nstatus' \in [Docs -> NoteStatus]
            /\ content' \in [Docs -> Contents]
            /\ \A d \in Docs : content'[d] = None <=> nstatus'[d] = "none"
        BY <1>4, <3>1, <2>1, AutoIsDoc DEF Create, Contents, NoteStatus
      <4>2. /\ calls' \in SUBSET ({"add", "reprint"} \X Docs)
            /\ kpc' \in [Creators -> {"idle", "look", "read", "create"}]
            /\ kcart' \in [Creators -> Contents]
            /\ overtaken' \in BOOLEAN
        BY <1>4, <3>1, AutoIsDoc DEF Create, Contents
      <4> QED
        BY <1>4, <4>1, <4>2 DEF Create
    <3>2. CASE nstatus[AutoNote] # "none"
      BY <1>4, <3>2 DEF Create, Contents
    <3> QED
      BY <3>1, <3>2
  <2>3. Handed'
    BY <1>4 DEF Create, Handed
  <2>4. InvoiceMatchesNote'
    BY <1>4 DEF Create, InvoiceMatchesNote
  <2> QED
    BY <2>2, <2>3, <2>4
<1> QED
    BY <1>1, <1>2, <1>3, <1>4 DEF CreateStep

LEMMA FormKeeps ==
    ASSUME IInv, NEW f \in Forms, FormStep(f)
    PROVE  IInv'
<1> USE DEF IInv, NotesTypeOK, orderVars, noteVars, syncVars, makeVars, clerkVars, Flag
<1>1. CASE FormRead(f)
  <2>1. NotesTypeOK'
    BY <1>1, NotesAssumption DEF FormRead
  <2>2. Handed'
    BY <1>1 DEF FormRead, Handed
  <2> QED
    BY <1>1, <2>1, <2>2, NotesKept DEF FormRead
<1>2. CASE FormCheck(f)
  <2>1. NotesTypeOK'
    BY <1>2 DEF FormCheck
  <2>2. Handed'
    BY <1>2 DEF FormCheck, Handed
  <2> QED
    BY <1>2, <2>1, <2>2, NotesKept DEF FormCheck
<1>3. CASE FormCreate(f)
  <2>1. f \in Docs /\ Hand # None
    BY NotesAssumption DEF Docs
  <2>2. NotesTypeOK'
    BY <1>3, <2>1 DEF FormCreate, Contents, NoteStatus
  <2>3. Handed'
    BY <1>3 DEF FormCreate, Handed
  <2>4. InvoiceMatchesNote'
    BY <1>3 DEF FormCreate, InvoiceMatchesNote
  <2> QED
    BY <2>2, <2>3, <2>4
<1> QED
    BY <1>1, <1>2, <1>3 DEF FormStep

LEMMA ClerkKeeps ==
    ASSUME IInv, NEW h \in Clerks, ClerkStep(h)
    PROVE  IInv'
<1> USE DEF IInv, NotesTypeOK, orderVars, noteVars, syncVars, makeVars, clerkVars,
            Flag, Act, Clerk
<1>1. ASSUME NEW d \in Docs, UpdateRead(h, d) PROVE IInv'
  <2>1. NotesTypeOK'
    BY <1>1, NotesAssumption DEF UpdateRead
  <2>2. Handed'
    BY <1>1 DEF UpdateRead, Handed
  <2> QED
    BY <1>1, <2>1, <2>2, NotesKept DEF UpdateRead
<1>2. ASSUME NEW d \in Docs, CancelRead(h, d) PROVE IInv'
  <2>1. NotesTypeOK'
    BY <1>2, NotesAssumption DEF CancelRead
  <2>2. Handed'
    BY <1>2 DEF CancelRead, Handed
  <2> QED
    BY <1>2, <2>1, <2>2, NotesKept DEF CancelRead
<1>3. CASE UpdateWrite(h)
  <2>1. hdoc[h] \in Docs /\ Hand # None
    BY <1>3, NotesAssumption DEF UpdateWrite, Handed
  <2>2. NotesTypeOK'
    BY <1>3, <2>1 DEF UpdateWrite, Contents
  <2>3. Handed'
    BY <1>3 DEF UpdateWrite, Handed
  <2>4. InvoiceMatchesNote'
    BY <1>3 DEF UpdateWrite, InvoiceMatchesNote
  <2> QED
    BY <2>2, <2>3, <2>4
<1>4. CASE CancelWrite(h)
  <2>1. hdoc[h] \in Docs
    BY <1>4 DEF CancelWrite, Handed
  <2>2. NotesTypeOK'
    BY <1>4, <2>1 DEF CancelWrite, NoteStatus
  <2>3. Handed'
    BY <1>4, <2>1 DEF CancelWrite, Handed
  <2>4. InvoiceMatchesNote'
    BY <1>4, <2>1 DEF CancelWrite, InvoiceMatchesNote
  <2> QED
    BY <2>2, <2>3, <2>4
<1>5. CASE CancelPrint(h)
  <2>1. hdoc[h] \in Docs
    BY <1>5 DEF CancelPrint, Handed
  <2>2. NotesTypeOK'
    BY <1>5, <2>1 DEF CancelPrint, Withdrawn, JobStatus
  <2>3. Handed'
    BY <1>5 DEF CancelPrint, Handed
  <2> QED
    BY <1>5, <2>2, <2>3, NotesKept DEF CancelPrint
<1>6. CASE DeleteRead(h)
  <2>1. NotesTypeOK'
    BY <1>6, AutoIsDoc, NotesAssumption DEF DeleteRead
  <2>2. Handed'
    BY <1>6 DEF DeleteRead, Handed
  <2> QED
    BY <1>6, <2>1, <2>2, NotesKept DEF DeleteRead
<1>7. CASE DeleteNotes(h)
  <2>1. NotesTypeOK'
    BY <1>7, AutoIsDoc DEF DeleteNotes, NoteStatus, Contents
  <2>2. Handed'
    BY <1>7 DEF DeleteNotes, Handed
  <2>3. InvoiceMatchesNote'
    BY <1>7, AutoIsDoc DEF DeleteNotes, InvoiceMatchesNote
  <2> QED
    BY <2>1, <2>2, <2>3
<1>8. CASE DeleteOrder(h)
  <2>1. NotesTypeOK'
    BY <1>8 DEF DeleteOrder, OrderStatus
  <2>2. Handed'
    BY <1>8 DEF DeleteOrder, Handed
  <2> QED
    BY <1>8, <2>1, <2>2, NotesKept DEF DeleteOrder
<1> QED
    BY <1>1, <1>2, <1>3, <1>4, <1>5, <1>6, <1>7, <1>8 DEF ClerkStep

LEMMA NoteKeeps ==
    ASSUME IInv, NEW d \in Docs, NoteStep(d)
    PROVE  IInv'
<1> USE DEF IInv, NotesTypeOK, orderVars, noteVars, syncVars, makeVars, clerkVars, Flag
<1>1. ASSUME NEW op \in {"add", "reprint"}, Deliver(op, d) PROVE IInv'
  <2>1. NotesTypeOK'
    BY <1>1 DEF Deliver, JobStatus
  <2>2. Handed'
    BY <1>1 DEF Deliver, Handed
  <2> QED
    BY <1>1, <2>1, <2>2, NotesKept DEF Deliver
<1>2. CASE AgentTakes(d)
  <2>1. NotesTypeOK'
    BY <1>2 DEF AgentTakes, JobStatus
  <2>2. Handed'
    BY <1>2 DEF AgentTakes, Handed
  <2> QED
    BY <1>2, <2>1, <2>2, NotesKept DEF AgentTakes
<1>3. ASSUME NEW from \in {"open", "billing"}, NEW to \in {"open", "billing", "billed"},
             NEW lines \in Contents, Bill(d, from, to, lines),
             \/ to = "open"
             \/ lines \in {None, content[d]}
             \/ from = "billing" /\ lines = charged[d]
      PROVE  IInv'
  <2>1. NotesTypeOK'
    BY <1>3 DEF Bill, NoteStatus
  <2>2. Handed'
    BY <1>3 DEF Bill, Handed
  <2>3. InvoiceMatchesNote'
    BY <1>3 DEF Bill, InvoiceMatchesNote
  <2> QED
    BY <2>1, <2>2, <2>3
<1>4. None \in Contents
    BY DEF Contents
<1>5. CASE BillClaim(d) \/ BillRelease(d)
    BY <1>3, <1>4, <1>5 DEF BillClaim, BillRelease
<1>6. CASE BillRead(d)
    BY <1>3, <1>6 DEF BillRead
<1>7. CASE BillMark(d)
    BY <1>3, <1>7 DEF BillMark
<1> QED
    BY <1>1, <1>2, <1>5, <1>6, <1>7 DEF NoteStep

-----------------------------------------------------------------------------
(* What a synchronisation is left with when it is done.                    *)
LEMMA FinishType ==
    ASSUME NotesTypeOK, NEW y \in Threads, Finish(y)
    PROVE  /\ spc' \in [Threads -> SyncSteps]
           /\ sn' \in [Threads -> NoteRow]
           /\ so' \in [Threads -> OrderRow]
           /\ todo' \in [Threads -> SUBSET Forms]
           /\ cur' \in [Threads -> Docs \cup {None}]
           /\ Handed /\ UNCHANGED <<kpc, kcart, hpc, hdoc>> => Handed'
<1> USE DEF Finish, Goto, NotesTypeOK, SyncSteps
<1>1. NoOrder \in OrderRow /\ NoNote \in NoteRow
    BY NoOrderType, NoNoteType
<1>2. spc' \in [Threads -> SyncSteps] /\ todo' \in [Threads -> SUBSET Forms]
    OBVIOUS
<1>3. sn' \in [Threads -> NoteRow] /\ so' \in [Threads -> OrderRow]
    BY <1>1
<1>4. cur' \in [Threads -> Docs \cup {None}]
    OBVIOUS
<1>5. Handed /\ UNCHANGED <<kpc, kcart, hpc, hdoc>> => Handed'
    BY DEF Handed
<1> QED
    BY <1>2, <1>3, <1>4, <1>5

(* A write to the automatic note finds it as it was read: open, or         *)
(* cancelled by a synchronisation.                                         *)
LEMMA WritesWhatItRead ==
    ASSUME NotesTypeOK, NEW y \in Threads, NEW verdict \in {"revive", "cancel", "update"},
           SyncWrites(y, verdict)
    PROVE  /\ nstatus[AutoNote] \in {"open", "cancelled"}
           /\ verdict # "cancel" /\ ~Revivable(y) => nstatus[AutoNote] = "open"
           /\ so[y].cart \in Carts
           /\ spc[y] = "manuals"
<1>1. sn[y] \in NoteRow /\ so[y] \in OrderRow
    BY DEF NotesTypeOK
<1> QED
    BY <1>1 DEF SyncWrites, Decides, Verdict, Unmoved, Revivable, OrderRow, NoteRow

LEMMA SyncReads ==
    ASSUME IInv, NEW y \in Threads,
           SyncNote(y) \/ SyncOrder(y) \/ SyncNoOrder(y) \/ SyncFind(y)
           \/ SyncLeaves(y) \/ SyncRaced(y)
    PROVE  IInv'
<1> USE DEF IInv, orderVars, noteVars, makeVars, clerkVars
<1>1. CASE SyncNote(y)
  <2>1. sn' \in [Threads -> NoteRow]
    BY <1>1, AutoIsDoc DEF SyncNote, NoteRow, NotesTypeOK
  <2>2. NotesTypeOK'
    BY <1>1, <2>1 DEF SyncNote, NotesTypeOK, Goto, SyncSteps
  <2>3. Handed'
    BY <1>1 DEF SyncNote, Handed, Goto, NotesTypeOK
  <2> QED
    BY <1>1, <2>2, <2>3, NotesKept DEF SyncNote
<1>2. CASE SyncOrder(y)
  <2>1. so' \in [Threads -> OrderRow]
    BY <1>2 DEF SyncOrder, OrderRow, NotesTypeOK
  <2>2. NotesTypeOK'
    BY <1>2, <2>1 DEF SyncOrder, NotesTypeOK, Goto, SyncSteps
  <2>3. Handed'
    BY <1>2 DEF SyncOrder, Handed, Goto, NotesTypeOK
  <2> QED
    BY <1>2, <2>2, <2>3, NotesKept DEF SyncOrder
<1>3. CASE SyncFind(y)
  <2>1. todo' \in [Threads -> SUBSET Forms]
    BY <1>3 DEF SyncFind, Concerned, NotesTypeOK
  <2>2. missed' \in BOOLEAN
    BY <1>3 DEF SyncFind, NotesTypeOK
  <2>3. NotesTypeOK'
    BY <1>3, <2>1, <2>2 DEF SyncFind, NotesTypeOK, Goto, SyncSteps
  <2>4. Handed'
    BY <1>3 DEF SyncFind, Handed, Goto, NotesTypeOK
  <2> QED
    BY <1>3, <2>3, <2>4, NotesKept DEF SyncFind
<1>4. CASE SyncNoOrder(y) \/ SyncLeaves(y) \/ SyncRaced(y)
  <2>1. Finish(y) /\ missed' \in BOOLEAN
    BY <1>4 DEF SyncNoOrder, SyncLeaves, SyncRaced, NotesTypeOK
  <2>2. /\ UNCHANGED <<orderVars, noteVars, job, calls, makeVars, clerkVars>>
        /\ UNCHANGED <<changes, overtaken>>
    BY <1>4 DEF SyncNoOrder, SyncLeaves, SyncRaced
  <2>3. NotesTypeOK'
    BY <2>1, <2>2, FinishType DEF NotesTypeOK
  <2>4. Handed'
    BY <2>1, <2>2, FinishType
  <2> QED
    BY <2>2, <2>3, <2>4, NotesKept
<1> QED
    BY <1>1, <1>2, <1>3, <1>4

LEMMA ManualKeeps ==
    ASSUME IInv, NEW y \in Threads,
           SyncManualPrint(y) \/ \E f \in Forms : SyncManual(y, f)
    PROVE  IInv'
<1> USE DEF IInv, orderVars, noteVars, makeVars, clerkVars, Flag, Goto
<1>1. ASSUME NEW f \in Forms, SyncManual(y, f) PROVE IInv'
  <2>1. f \in Docs
    BY DEF Docs
  <2>2. CASE spc' = spc
    <3>1. UNCHANGED <<noteVars, spc, cur, overtaken>> /\ missed' \in BOOLEAN
      BY <1>1, <2>2 DEF SyncManual, NotesTypeOK
    <3>2. NotesTypeOK'
      BY <1>1, <3>1 DEF SyncManual, NotesTypeOK
    <3>3. Handed'
      BY <1>1, <3>1 DEF SyncManual, Handed
    <3> QED
      BY <3>1, <3>2, <3>3, NotesKept
  <2>3. ASSUME NEW old \in {"open", "cancelled"}, NEW new \in {"open", "cancelled"},
               nstatus[f] = old, nstatus' = [nstatus EXCEPT ![f] = new],
               bySync' \in {bySync \cup {f}, bySync \ {f}},
               spc' \in {[spc EXCEPT ![y] = "mwithdraw"], [spc EXCEPT ![y] = "mrequeue"]},
               cur' = [cur EXCEPT ![y] = f], overtaken' \in BOOLEAN, UNCHANGED missed
        PROVE  IInv'
    <3>1. NotesTypeOK'
      BY <1>1, <2>1, <2>3 DEF SyncManual, NotesTypeOK, NoteStatus, SyncSteps
    <3>2. Handed'
      BY <1>1, <2>1, <2>3 DEF SyncManual, Handed, NotesTypeOK
    <3>3. InvoiceMatchesNote'
      BY <1>1, <2>1, <2>3 DEF SyncManual, InvoiceMatchesNote, NotesTypeOK
    <3> QED
      BY <3>1, <3>2, <3>3
  <2>4. overtaken' \in BOOLEAN
    BY <1>1 DEF SyncManual, NotesTypeOK
  <2> QED
    BY <1>1, <2>2, <2>3, <2>4 DEF SyncManual
<1>2. CASE SyncManualPrint(y)
  <2>1. cur[y] \in Docs
    BY <1>2 DEF SyncManualPrint, Handed
  <2>2. NotesTypeOK'
    BY <1>2, <2>1, ZenonT(40) DEF SyncManualPrint, NotesTypeOK, Withdrawn, Requeued, JobStatus, SyncSteps
  <2>3. Handed'
    BY <1>2 DEF SyncManualPrint, Handed, NotesTypeOK
  <2> QED
    BY <1>2, <2>2, <2>3, NotesKept DEF SyncManualPrint
<1> QED
    BY <1>1, <1>2

LEMMA SyncWritesKeep ==
    ASSUME IInv, NEW y \in Threads,
           SyncRevives(y) \/ SyncCancels(y) \/ SyncUpdates(y) \/ SyncPrint(y)
    PROVE  IInv'
<1> USE DEF IInv, orderVars, noteVars, makeVars, clerkVars, Flag, Goto
<1>1. CASE SyncRevives(y)
  <2>1. nstatus[AutoNote] \in {"open", "cancelled"} /\ spc[y] = "manuals"
        /\ overtaken' \in BOOLEAN
    BY <1>1, WritesWhatItRead DEF SyncRevives, SyncWrites, NotesTypeOK
  <2>2. NotesTypeOK'
    BY <1>1, <2>1, AutoIsDoc DEF SyncRevives, NotesTypeOK, NoteStatus, SyncSteps
  <2>3. Handed'
    BY <1>1 DEF SyncRevives, Handed, NotesTypeOK
  <2>4. InvoiceMatchesNote'
    BY <1>1, AutoIsDoc DEF SyncRevives, InvoiceMatchesNote, NotesTypeOK
  <2> QED
    BY <2>2, <2>3, <2>4
<1>2. CASE SyncCancels(y)
  <2>1. nstatus[AutoNote] \in {"open", "cancelled"} /\ spc[y] = "manuals"
        /\ overtaken' \in BOOLEAN
    BY <1>2, WritesWhatItRead DEF SyncCancels, SyncWrites, NotesTypeOK
  <2>2. NotesTypeOK'
    BY <1>2, <2>1, AutoIsDoc DEF SyncCancels, NotesTypeOK, NoteStatus, SyncSteps
  <2>3. Handed'
    BY <1>2 DEF SyncCancels, Handed, NotesTypeOK
  <2>4. InvoiceMatchesNote'
    BY <1>2, AutoIsDoc DEF SyncCancels, InvoiceMatchesNote, NotesTypeOK
  <2> QED
    BY <2>2, <2>3, <2>4
<1>3. CASE SyncUpdates(y)
  <2>1. SyncWrites(y, "update")
    BY <1>3 DEF SyncUpdates
  <2>2. /\ nstatus[AutoNote] \in {"open", "cancelled"}
        /\ ~Revivable(y) => nstatus[AutoNote] = "open"
        /\ so[y].cart \in Carts
    BY <2>1, WritesWhatItRead
  <2>3. overtaken' \in BOOLEAN
    BY <2>1 DEF SyncWrites, NotesTypeOK
  <2>4. /\ nstatus' = [nstatus EXCEPT ![AutoNote] = "open"]
        /\ content' = [content EXCEPT ![AutoNote] = so[y].cart]
    BY <1>3, <2>2 DEF SyncUpdates, NotesTypeOK
  <2>5. /\ nstatus' \in [Docs -> NoteStatus]
        /\ content' \in [Docs -> Contents]
        /\ \A d \in Docs : content'[d] = None <=> nstatus'[d] = "none"
    BY <2>2, <2>4, AutoIsDoc, NotesAssumption DEF NotesTypeOK, NoteStatus, Contents
  <2>6. bySync' \in SUBSET Docs /\ calls' \in SUBSET ({"add", "reprint"} \X Docs)
    BY <1>3, AutoIsDoc DEF SyncUpdates, NotesTypeOK
  <2>7. /\ spc' \in [Threads -> SyncSteps]
        /\ sn' \in [Threads -> NoteRow]
        /\ so' \in [Threads -> OrderRow]
        /\ todo' \in [Threads -> SUBSET Forms]
        /\ cur' \in [Threads -> Docs \cup {None}]
        /\ Handed'
    <3>1. CASE Finish(y)
      BY <1>3, <3>1, FinishType DEF SyncUpdates
    <3>2. CASE spc' = [spc EXCEPT ![y] = "requeue"] /\ UNCHANGED <<sn, so, todo, cur>>
      BY <1>3, <3>2 DEF SyncUpdates, NotesTypeOK, SyncSteps, Handed
    <3> QED
      BY <1>3, <3>1, <3>2 DEF SyncUpdates
  <2>8. NotesTypeOK'
    BY <1>3, <2>3, <2>5, <2>6, <2>7 DEF SyncUpdates, NotesTypeOK
  <2>9. InvoiceMatchesNote'
    BY <1>3, <2>4, AutoIsDoc DEF SyncUpdates, InvoiceMatchesNote, NotesTypeOK
  <2> QED
    BY <2>7, <2>8, <2>9
<1>4. CASE SyncPrint(y)
  <2>1. Finish(y) /\ overtaken' \in BOOLEAN /\ job' \in [Docs -> JobStatus]
    BY <1>4, AutoIsDoc DEF SyncPrint, NotesTypeOK, Withdrawn, Requeued, JobStatus
  <2>2. UNCHANGED <<orderVars, noteVars, calls, makeVars, clerkVars, changes, missed>>
    BY <1>4 DEF SyncPrint
  <2>3. NotesTypeOK'
    BY <2>1, <2>2, FinishType DEF NotesTypeOK
  <2>4. Handed'
    BY <2>1, <2>2, FinishType
  <2> QED
    BY <2>2, <2>3, <2>4, NotesKept
<1> QED
    BY <1>1, <1>2, <1>3, <1>4

-----------------------------------------------------------------------------
LEMMA NextInv == IInv /\ [Next]_vars => IInv'
<1> SUFFICES ASSUME IInv, [Next]_vars PROVE IInv'
    OBVIOUS
<1>1. ASSUME NEW y \in Threads, SyncStep(y) PROVE IInv'
    BY <1>1, SyncReads, ManualKeeps, SyncWritesKeep DEF SyncStep
<1>2. CASE UNCHANGED vars
  <2>1. NotesTypeOK'
    BY <1>2 DEF IInv, NotesTypeOK, vars, orderVars, noteVars, syncVars, makeVars, clerkVars
  <2>2. Handed'
    BY <1>2 DEF IInv, Handed, vars, syncVars, makeVars, clerkVars
  <2> QED
    BY <1>2, <2>1, <2>2, NotesKept DEF IInv, vars
<1> QED
    BY <1>1, <1>2, OrderKeeps, CreateKeeps, FormKeeps, ClerkKeeps, NoteKeeps DEF Next

(* The inductive invariant holds in every reachable state.                 *)
THEOREM InductiveInvariant == Spec => []IInv
BY InitInv, NextInv, PTL DEF Spec

(* Every variable keeps its type, and exactly the notes that exist have a  *)
(* content.                                                                *)
THEOREM TypeCorrect == Spec => []NotesTypeOK
BY InductiveInvariant, PTL DEF IInv

(* Whatever is synchronised, edited, cancelled, deleted or weighed while   *)
(* the month close runs, the invoice was made from the lines the note      *)
(* shows, on outdated readings too.                                        *)
THEOREM InvoiceKeepsToNote == Spec => []InvoiceMatchesNote
BY InductiveInvariant, PTL DEF IInv

-----------------------------------------------------------------------------
(* What people decided, and what was weighed: behaviours, and steps, up to *)
(* the first reading that was acted on too late.                           *)
Settled ==
    /\ \A f \in Forms : fpc[f] # "done" => nstatus[f] = "none"
    /\ \A d \in edited : nstatus[d] # "none"
    /\ ~overtaken => \A d \in edited : content[d] = Hand
    /\ ~overtaken => \A f, g \in Forms : Live(f) /\ Live(g) => f = g

PeopleStep ==
    ~overtaken' => \A d \in Docs :
        /\ d \in edited /\ d \in edited' => content'[d] = Hand
        /\ nstatus[d] = "cancelled" /\ d \notin bySync =>
               nstatus'[d] \in {"cancelled", "none"}

(* The part of the type invariant that this takes.                         *)
Shape ==
    /\ nstatus \in [Docs -> NoteStatus]
    /\ content \in [Docs -> Contents]
    /\ bySync \in SUBSET Docs
    /\ edited \in SUBSET Docs
    /\ fpc \in [Forms -> {"idle", "check", "create", "done"}]
    /\ overtaken \in BOOLEAN

LEMMA Shaped == IInv => Shape
BY DEF IInv, NotesTypeOK, Shape

LEMMA SettledInit == Init => Settled
BY DEF Init, Settled, Live, Docs

(* A step that leaves the notes and the forms alone.                       *)
LEMMA SettledKept ==
    ASSUME Shape, Settled, UNCHANGED <<noteVars, fpc>>, overtaken => overtaken'
    PROVE  Settled' /\ PeopleStep
BY DEF Shape, Settled, PeopleStep, Live, noteVars

LEMMA OrderSettled ==
    ASSUME Shape, Settled, NEW y \in Threads,
           \/ \E s \in {"waiting", "handled", "cancelled"} : SetStatus(y, s)
           \/ EditRead(y) \/ EditFails(y) \/ \E z \in Threads : EditSave(y, z)
    PROVE  Settled' /\ PeopleStep
<1>1. UNCHANGED <<noteVars, fpc>>
    BY DEF SetStatus, EditRead, EditFails, EditSave, makeVars
<1>2. overtaken => overtaken'
    BY Zenon DEF SetStatus, EditRead, EditFails, EditSave, Flag
<1> QED
    BY <1>1, <1>2, SettledKept

LEMMA CreateSettled ==
    ASSUME Shape, Settled, NEW k \in Creators, CreateStep(k)
    PROVE  Settled' /\ PeopleStep
<1>1. CASE Create(k) /\ nstatus[AutoNote] = "none"
  <2>1. /\ nstatus' = [nstatus EXCEPT ![AutoNote] = "open"]
        /\ content' = [content EXCEPT ![AutoNote] = kcart[k]]
        /\ UNCHANGED <<bySync, edited, fpc>>
        /\ overtaken => overtaken'
    BY <1>1 DEF Create, Flag
  <2>2. AutoNote \notin edited /\ AutoNote \notin Forms
    BY <1>1, NotesAssumption DEF Settled
  <2> QED
    BY <1>1, <2>1, <2>2 DEF Shape, Settled, PeopleStep, Live, Docs
<1>2. CASE ~(Create(k) /\ nstatus[AutoNote] = "none")
  <2>1. UNCHANGED <<noteVars, fpc>> /\ (overtaken => overtaken')
    BY <1>2 DEF CreateStep, IssueButton, CreateLook, CreateRead, Create, Flag, noteVars
  <2> QED
    BY <2>1, SettledKept
<1> QED
    BY <1>1, <1>2

LEMMA FormSettled ==
    ASSUME Shape, Settled, NEW f \in Forms, FormStep(f)
    PROVE  Settled' /\ PeopleStep
<1>1. CASE FormCreate(f)
  <2>1. /\ nstatus' = [nstatus EXCEPT ![f] = "open"]
        /\ content' = [content EXCEPT ![f] = Hand]
        /\ fpc' = [fpc EXCEPT ![f] = "done"]
        /\ UNCHANGED <<bySync, edited>>
        /\ overtaken => overtaken'
        /\ ~overtaken' => ~Clash(f)
    BY <1>1 DEF FormCreate, Flag
  <2>2. nstatus[f] = "none" /\ f \in Docs
    BY <1>1 DEF FormCreate, Settled, Docs
  <2>3. Settled'
    BY <2>1, <2>2 DEF Shape, Settled, Live, Clash, Docs
  <2>4. PeopleStep
    BY <2>1, <2>2 DEF Shape, Settled, PeopleStep
  <2> QED
    BY <2>3, <2>4
<1>2. CASE FormRead(f) \/ FormCheck(f)
  <2>1. fpc[f] # "done" /\ UNCHANGED <<noteVars, overtaken>>
    BY <1>2 DEF FormRead, FormCheck
  <2>2. \A g \in Forms : fpc'[g] # "done" => fpc[g] # "done"
    BY <1>2 DEF FormRead, FormCheck, Shape
  <2> QED
    BY <2>1, <2>2 DEF Shape, Settled, PeopleStep, Live, noteVars
<1> QED
    BY <1>1, <1>2 DEF FormStep

LEMMA ClerkSettled ==
    ASSUME Shape, Handed, Settled, NEW h \in Clerks, ClerkStep(h)
    PROVE  Settled' /\ PeopleStep
<1>1. CASE UpdateWrite(h)
  <2>1. CASE nstatus[hdoc[h]] = "open"
    <3>1. /\ content' = [content EXCEPT ![hdoc[h]] = Hand]
          /\ edited' = edited \cup {hdoc[h]}
          /\ UNCHANGED <<nstatus, bySync, fpc, overtaken>>
      BY <1>1, <2>1 DEF UpdateWrite, makeVars
    <3>2. hdoc[h] \in Docs
      BY <1>1 DEF UpdateWrite, Handed
    <3> QED
      BY <2>1, <3>1, <3>2 DEF Shape, Settled, PeopleStep, Live, Docs
  <2>2. CASE nstatus[hdoc[h]] # "open"
    <3>1. UNCHANGED <<noteVars, fpc, overtaken>>
      BY <1>1, <2>2 DEF UpdateWrite, makeVars, noteVars
    <3> QED
      BY <3>1, SettledKept
  <2> QED
    BY <2>1, <2>2
<1>2. CASE CancelWrite(h)
  <2>1. CASE nstatus[hdoc[h]] = "none"
    <3>1. UNCHANGED <<noteVars, fpc>> /\ (overtaken => overtaken')
      BY <1>2, <2>1 DEF CancelWrite, Flag, makeVars, noteVars
    <3> QED
      BY <3>1, SettledKept
  <2>2. CASE nstatus[hdoc[h]] # "none"
    <3>1. /\ nstatus' \in {nstatus, [nstatus EXCEPT ![hdoc[h]] = "cancelled"]}
          /\ bySync' = bySync \ {hdoc[h]}
          /\ UNCHANGED <<content, edited, fpc>>
          /\ overtaken => overtaken'
      BY <1>2, <2>2 DEF CancelWrite, Flag, makeVars, Shape
    <3> QED
      BY <2>2, <3>1 DEF Shape, Settled, PeopleStep, Live, Docs
  <2> QED
    BY <2>1, <2>2
<1>3. CASE DeleteNotes(h) /\ hdoc[h] = AutoNote
  <2>1. /\ nstatus' = [nstatus EXCEPT ![AutoNote] = "none"]
        /\ content' = [content EXCEPT ![AutoNote] = None]
        /\ bySync' = bySync \ {AutoNote}
        /\ edited' = edited \ {AutoNote}
        /\ UNCHANGED fpc
        /\ overtaken => overtaken'
    BY <1>3 DEF DeleteNotes, Flag, makeVars
  <2>2. AutoNote \notin Forms
    BY NotesAssumption
  <2> QED
    BY <2>1, <2>2 DEF Shape, Settled, PeopleStep, Live, Docs
<1>4. CASE ~UpdateWrite(h) /\ ~CancelWrite(h) /\ ~(DeleteNotes(h) /\ hdoc[h] = AutoNote)
  <2>1. UNCHANGED <<noteVars, fpc>>
    BY <1>4 DEF ClerkStep, UpdateRead, CancelRead, CancelPrint, DeleteRead, DeleteNotes,
                DeleteOrder, makeVars, noteVars
  <2>2. overtaken => overtaken'
    BY <1>4, Zenon DEF ClerkStep, UpdateRead, CancelRead, CancelPrint, DeleteRead,
                       DeleteNotes, DeleteOrder, Flag
  <2> QED
    BY <2>1, <2>2, SettledKept
<1> QED
    BY <1>1, <1>2, <1>3, <1>4

LEMMA NoteSettled ==
    ASSUME Shape, Settled, NEW d \in Docs, NoteStep(d)
    PROVE  Settled' /\ PeopleStep
<1>1. CASE (\E op \in {"add", "reprint"} : Deliver(op, d)) \/ AgentTakes(d)
  <2>1. UNCHANGED <<noteVars, fpc>>
    BY <1>1 DEF Deliver, AgentTakes, makeVars
  <2>2. overtaken => overtaken'
    BY <1>1, Zenon DEF Deliver, AgentTakes, Flag
  <2> QED
    BY <2>1, <2>2, SettledKept
<1>2. ASSUME NEW from \in {"open", "billing"}, NEW to \in {"open", "billing", "billed"},
             NEW lines, Bill(d, from, to, lines)
      PROVE  Settled' /\ PeopleStep
    BY <1>2 DEF Bill, Shape, Settled, PeopleStep, Live, makeVars, Docs
<1>3. CASE BillClaim(d) \/ BillRead(d) \/ BillMark(d) \/ BillRelease(d)
    BY <1>2, <1>3 DEF BillClaim, BillRead, BillMark, BillRelease
<1> QED
    BY <1>1, <1>3 DEF NoteStep

(* A synchronisation acts on what still is so: it does not touch what a    *)
(* person typed, and brings back only what a synchronisation cancelled.    *)
LEMMA SyncSettled ==
    ASSUME Shape, Settled, NEW y \in Threads, SyncStep(y)
    PROVE  Settled' /\ PeopleStep
<1>1. CASE \E v \in {"revive", "cancel", "update"} : SyncWrites(y, v)
  <2>1. PICK v \in {"revive", "cancel", "update"} : SyncWrites(y, v)
    BY <1>1
  <2>2. (overtaken => overtaken') /\ (~overtaken' => ~Stale(y))
    BY <2>1 DEF SyncWrites, Flag
  <2>3. Decides(y) /\ Verdict(y) = v /\ nstatus[AutoNote] = sn[y].status
    BY <2>1 DEF SyncWrites, Unmoved
  <2>4. AutoNote \in Docs /\ AutoNote \notin Forms /\ nstatus[AutoNote] # "none"
    BY <2>3, NotesAssumption DEF Docs, Verdict
  <2>5. CASE SyncCancels(y)
    <3>1. /\ nstatus' = [nstatus EXCEPT ![AutoNote] = "cancelled"]
          /\ bySync' = bySync \cup {AutoNote}
          /\ UNCHANGED <<content, edited, fpc>>
      BY <2>5 DEF SyncCancels, makeVars
    <3> QED
      BY <2>2, <2>4, <3>1 DEF Shape, Settled, PeopleStep, Live, Docs
  <2>6. CASE SyncRevives(y)
    <3>1. /\ nstatus' = [nstatus EXCEPT ![AutoNote] = "open"]
          /\ UNCHANGED <<content, edited, fpc>>
      BY <2>6 DEF SyncRevives, makeVars
    <3>2. ~overtaken' => AutoNote \in bySync
      BY <2>2, <2>6 DEF SyncRevives, SyncWrites, Verdict, Revivable, Stale
    <3> QED
      BY <2>2, <2>4, <3>1, <3>2 DEF Shape, Settled, PeopleStep, Live, Docs
  <2>7. CASE SyncUpdates(y)
    <3>1. /\ nstatus' \in {nstatus, [nstatus EXCEPT ![AutoNote] = "open"]}
          /\ content' = [content EXCEPT ![AutoNote] = so[y].cart]
          /\ UNCHANGED <<edited, fpc>>
      BY <2>7 DEF SyncUpdates, makeVars
    <3>2. ~overtaken' => AutoNote \notin edited
      BY <2>2, <2>7 DEF SyncUpdates, SyncWrites, Verdict, Untouchable, Empty, Stale
    <3>3. ~overtaken' /\ nstatus[AutoNote] = "cancelled" => AutoNote \in bySync
      BY <2>2, <2>3, <2>7 DEF SyncUpdates, SyncWrites, Verdict, Revivable, Stale
    <3> QED
      BY <2>2, <2>4, <3>1, <3>2, <3>3 DEF Shape, Settled, PeopleStep, Live, Docs
  <2>8. CASE ~SyncCancels(y) /\ ~SyncRevives(y) /\ ~SyncUpdates(y)
    <3>1. UNCHANGED <<noteVars, fpc>>
      BY <2>3, <2>8 DEF SyncStep, SyncNote, SyncOrder, SyncNoOrder, SyncFind, SyncManual,
            SyncManualPrint, SyncLeaves, SyncRaced, SyncPrint, Decides, makeVars
    <3> QED
      BY <2>2, <3>1, SettledKept
  <2> QED
    BY <2>5, <2>6, <2>7, <2>8
<1>2. ASSUME NEW f \in Forms, SyncManual(y, f) PROVE Settled' /\ PeopleStep
  <2>1. CASE UNCHANGED noteVars
    <3>1. UNCHANGED <<noteVars, fpc>>
      BY <1>2, <2>1 DEF SyncManual, makeVars
    <3>2. overtaken => overtaken'
      BY <1>2, Zenon DEF SyncManual, Flag
    <3> QED
      BY <2>1, <3>1, <3>2, SettledKept
  <2>2. CASE /\ nstatus[f] = "open"
             /\ nstatus' = [nstatus EXCEPT ![f] = "cancelled"]
             /\ overtaken => overtaken'
    BY <1>2, <2>2 DEF SyncManual, Shape, Settled, PeopleStep, Live, makeVars, Docs
  <2>3. CASE /\ nstatus[f] = "cancelled"
             /\ nstatus' = [nstatus EXCEPT ![f] = "open"]
             /\ overtaken => overtaken'
             /\ ~overtaken' => f \in bySync /\ ~Clash(f)
    BY <1>2, <2>3 DEF SyncManual, Shape, Settled, PeopleStep, Live, Clash, makeVars, Docs
  <2> QED
    BY <1>2, <2>1, <2>2, <2>3 DEF SyncManual, Flag, noteVars
<1>3. CASE /\ ~\E v \in {"revive", "cancel", "update"} : SyncWrites(y, v)
           /\ ~\E f \in Forms : SyncManual(y, f)
  <2>1. \/ SyncNote(y) \/ SyncOrder(y) \/ SyncNoOrder(y) \/ SyncFind(y)
        \/ SyncManualPrint(y) \/ SyncLeaves(y) \/ SyncRaced(y) \/ SyncPrint(y)
    BY <1>3 DEF SyncStep, SyncRevives, SyncCancels, SyncUpdates
  <2>2. UNCHANGED <<noteVars, fpc>>
    BY <2>1 DEF SyncNote, SyncOrder, SyncNoOrder, SyncFind, SyncManualPrint, SyncLeaves,
                SyncRaced, SyncPrint, makeVars
  <2>3. overtaken => overtaken'
    BY <2>1, Zenon DEF SyncNote, SyncOrder, SyncNoOrder, SyncFind, SyncManualPrint,
                       SyncLeaves, SyncRaced, SyncPrint, Flag
  <2> QED
    BY <2>2, <2>3, SettledKept
<1> QED
    BY <1>1, <1>2, <1>3

LEMMA NextSettled == IInv /\ Settled /\ [Next]_vars => Settled' /\ [PeopleStep]_vars
<1> SUFFICES ASSUME IInv, Settled, [Next]_vars PROVE Settled' /\ PeopleStep
    OBVIOUS
<1>1. Shape /\ Handed
    BY Shaped DEF IInv
<1>2. CASE UNCHANGED vars
    BY <1>1, <1>2, SettledKept DEF vars, makeVars
<1> QED
    BY <1>1, <1>2, OrderSettled, CreateSettled, FormSettled, ClerkSettled, NoteSettled,
       SyncSettled DEF Next

LEMMA SettledAlways == Spec => []Settled
<1>1. IInv /\ Settled /\ [Next]_vars => Settled'
    BY NextSettled
<1> QED
    BY <1>1, SettledInit, InductiveInvariant, PTL DEF Spec

(* Whatever runs at once, no step takes back what a person typed into a    *)
(* note or cancelled, as long as none has acted on an outdated reading.    *)
THEOREM NoteOfPeopleStays == Spec => PeopleDecide
<1>1. IInv /\ Settled /\ [Next]_vars => [PeopleStep]_vars
    BY NextSettled
<1>2. Spec => [][PeopleStep]_vars
    BY <1>1, SettledAlways, InductiveInvariant, PTL DEF Spec
<1> QED
    BY <1>2 DEF PeopleDecide, PeopleStep

(* However many forms are filled for the same goods, at most one of their  *)
(* notes counts, as long as no step has acted on an outdated reading.      *)
THEOREM GoodsChargedOnce == Spec => []WeighedOnce
<1>1. Settled => WeighedOnce
  <2> SUFFICES ASSUME Settled, ~overtaken
               PROVE  Cardinality({f \in Forms : Live(f)}) <= 1
    BY DEF WeighedOnce
  <2> DEFINE L == {f \in Forms : Live(f)}
  <2>1. CASE L = {}
    BY <2>1, FS_EmptySet
  <2>2. ASSUME NEW f \in L PROVE Cardinality(L) <= 1
    <3>1. L = {f}
      BY <2>2 DEF Settled
    <3> QED
      BY <3>1, FS_Singleton
  <2> QED
    BY <2>1, <2>2
<1> QED
    BY <1>1, SettledAlways, PTL

-----------------------------------------------------------------------------
(* The paper of a note: who still has to bring the print job into line     *)
(* with it.                                                                *)
Requeues(d) ==
    \E y \in Threads : \/ spc[y] = "mrequeue" /\ cur[y] = d
                       \/ spc[y] = "requeue" /\ d = AutoNote

Withdraws(d) ==
    \/ \E y \in Threads : \/ spc[y] = "mwithdraw" /\ cur[y] = d
                          \/ spc[y] = "withdraw" /\ d = AutoNote
    \/ \E h \in Clerks : hpc[h] = "withdraw" /\ hdoc[h] = d

(* The order of an automatic note is about to be deleted: what is left of  *)
(* the job of an earlier note no longer matters.                           *)
Deleting(d) == d = AutoNote /\ \E h \in Clerks : hpc[h] = "order"

(* The job is as the note wants it, or somebody is on the way.            *)
JobKept(d) ==
    /\ nstatus[d] = "none" => job[d] = "none" \/ Deleting(d) \/ ostatus = "gone"
    /\ nstatus[d] # "none" =>
          \/ job[d] \in {"pending", "taken"}
          \/ <<"reprint", d>> \in calls
          \/ job[d] = "none" /\ <<"add", d>> \in calls
          \/ job[d] = "cancelled" /\ (nstatus[d] = "cancelled" \/ Requeues(d))
          \/ Deleting(d)
    /\ nstatus[d] = "cancelled" /\ job[d] = "pending" => Withdraws(d)

GoneHasNone == ~overtaken /\ ostatus = "gone" => \A d \in Docs : nstatus[d] = "none"

Papers == GoneHasNone /\ (~overtaken => \A d \in Docs : JobKept(d))

PaperShape ==
    /\ nstatus \in [Docs -> NoteStatus]
    /\ job \in [Docs -> JobStatus]
    /\ spc \in [Threads -> SyncSteps]
    /\ cur \in [Threads -> Docs \cup {None}]
    /\ hpc \in [Clerks -> {"idle", "edit", "cancel", "recancel", "withdraw",
                           "delete", "order"}]
    /\ hdoc \in [Clerks -> Docs \cup {None}]
    /\ overtaken \in BOOLEAN
    /\ Handed

LEMMA PaperShaped == IInv => PaperShape
BY DEF IInv, NotesTypeOK, PaperShape

LEMMA PapersInit == Init => Papers
BY DEF Init, Papers, GoneHasNone, JobKept

HelpersStay ==
    /\ \A d \in Docs : /\ Requeues(d) => Requeues(d)'
                       /\ Withdraws(d) => Withdraws(d)'
                       /\ Deleting(d) => Deleting(d)'
    /\ calls \subseteq calls'
    /\ ostatus = "gone" => ostatus' = "gone"
    /\ overtaken => overtaken'

LEMMA WhoHelpsStays ==
    ASSUME \A y \in Threads :
               spc[y] \in {"mrequeue", "requeue", "mwithdraw", "withdraw"} =>
                   spc'[y] = spc[y] /\ cur'[y] = cur[y],
           \A h \in Clerks : hpc[h] \in {"withdraw", "order"} =>
               hpc'[h] = hpc[h] /\ hdoc'[h] = hdoc[h]
    PROVE  \A d \in Docs : /\ Requeues(d) => Requeues(d)'
                           /\ Withdraws(d) => Withdraws(d)'
                           /\ Deleting(d) => Deleting(d)'
<1> TAKE d \in Docs
<1>1. Requeues(d) => Requeues(d)'
    BY DEF Requeues
<1>2. Withdraws(d) => Withdraws(d)'
    BY DEF Withdraws
<1>3. Deleting(d) => Deleting(d)'
    BY DEF Deleting
<1> QED
    BY <1>1, <1>2, <1>3

LEMMA JobKeptStays ==
    ASSUME HelpersStay, NEW d \in Docs, JobKept(d),
           nstatus'[d] = nstatus[d], job'[d] = job[d]
    PROVE  JobKept(d)'
BY DEF HelpersStay, JobKept

LEMMA PapersStay ==
    ASSUME Papers, HelpersStay, UNCHANGED <<nstatus, job, ostatus>>
    PROVE  Papers'
<1>1. GoneHasNone'
    BY DEF Papers, GoneHasNone, HelpersStay
<1>2. ~overtaken' => \A d \in Docs : JobKept(d)'
    BY JobKeptStays DEF Papers, HelpersStay
<1> QED
    BY <1>1, <1>2 DEF Papers

LEMMA OrderPapers ==
    ASSUME PaperShape, Papers, NEW y \in Threads,
           \/ \E s \in {"waiting", "handled", "cancelled"} : SetStatus(y, s)
           \/ EditRead(y) \/ EditFails(y) \/ \E z \in Threads : EditSave(y, z)
    PROVE  Papers'
<1> USE DEF PaperShape, Goto, noteVars, syncVars, clerkVars, orderVars
<1>1. /\ UNCHANGED <<nstatus, job, calls, cur, hpc, hdoc>>
      /\ ostatus' # ostatus => ostatus # "gone" /\ ostatus' # "gone"
    BY DEF SetStatus, EditRead, EditFails, EditSave
<1>2. \A x \in Threads : spc'[x] = spc[x] \/ spc[x] \in {"idle", "edit"}
    BY DEF SetStatus, EditRead, EditFails, EditSave
<1>3. overtaken => overtaken'
    BY DEF SetStatus, EditRead, EditFails, EditSave, Flag
<1>4. HelpersStay
    BY <1>1, <1>2, <1>3, WhoHelpsStays DEF HelpersStay
<1>5. GoneHasNone'
    BY <1>1, <1>3 DEF Papers, GoneHasNone
<1>6. ~overtaken' => \A d \in Docs : JobKept(d)'
    BY <1>1, <1>3, <1>4, JobKeptStays DEF Papers
<1> QED
    BY <1>5, <1>6 DEF Papers

LEMMA CreatePapers ==
    ASSUME PaperShape, Papers, NEW k \in Creators, CreateStep(k)
    PROVE  Papers'
<1> USE DEF PaperShape, noteVars, syncVars, clerkVars, orderVars
<1>1. /\ UNCHANGED <<job, cur, spc, hpc, hdoc, ostatus>> /\ calls \subseteq calls'
      /\ overtaken => overtaken'
    BY Zenon DEF CreateStep, IssueButton, CreateLook, CreateRead, Create, Flag
<1>2. HelpersStay
    BY <1>1, WhoHelpsStays DEF HelpersStay
<1>3. CASE nstatus' = nstatus
    BY <1>1, <1>2, <1>3, PapersStay
<1>4. CASE nstatus' # nstatus
  <2>1. /\ Create(k) /\ nstatus[AutoNote] = "none"
        /\ nstatus' = [nstatus EXCEPT ![AutoNote] = "open"]
        /\ calls' = calls \cup {<<"add", AutoNote>>}
        /\ ~overtaken' => Issuable
    BY <1>4 DEF CreateStep, IssueButton, CreateLook, CreateRead, Create, Flag
  <2>2. ~overtaken' => ~overtaken /\ ostatus # "gone"
    BY <1>1, <2>1 DEF Issuable
  <2>3. GoneHasNone'
    BY <1>1, <2>2 DEF GoneHasNone
  <2>4. ASSUME ~overtaken', NEW d \in Docs, d # AutoNote PROVE JobKept(d)'
    BY <1>1, <1>2, <2>1, <2>2, <2>4, JobKeptStays DEF Papers
  <2>5. ASSUME ~overtaken' PROVE JobKept(AutoNote)'
    <3>1. JobKept(AutoNote) /\ AutoNote \in Docs
      BY <2>2, <2>5, AutoIsDoc DEF Papers
    <3>2. job[AutoNote] = "none" \/ Deleting(AutoNote)
      BY <3>1, <2>1, <2>2, <2>5 DEF JobKept
    <3> QED
      BY <1>1, <1>2, <2>1, <3>1, <3>2 DEF JobKept, HelpersStay
  <2> QED
    BY <2>3, <2>4, <2>5 DEF Papers
<1> QED
    BY <1>3, <1>4

LEMMA FormPapers ==
    ASSUME PaperShape, Settled, Papers, NEW f \in Forms, FormStep(f)
    PROVE  Papers'
<1> USE DEF PaperShape, noteVars, syncVars, clerkVars, orderVars
<1>1. /\ UNCHANGED <<job, cur, spc, hpc, hdoc, ostatus>> /\ calls \subseteq calls'
      /\ overtaken => overtaken'
    BY Zenon DEF FormStep, FormRead, FormCheck, FormCreate, Flag
<1>2. HelpersStay
    BY <1>1, WhoHelpsStays DEF HelpersStay
<1>3. CASE ~FormCreate(f)
    BY <1>1, <1>2, <1>3, PapersStay DEF FormStep, FormRead, FormCheck
<1>4. CASE FormCreate(f)
  <2>1. /\ nstatus[f] = "none" /\ f \in Docs /\ f # AutoNote
        /\ nstatus' = [nstatus EXCEPT ![f] = "open"]
        /\ <<"add", f>> \in calls'
    BY <1>4, NotesAssumption DEF FormCreate, Settled, Docs
  <2>2. ~overtaken' => ~overtaken /\ ostatus # "gone"
    BY <1>1, <1>4 DEF FormCreate, Flag
  <2>3. GoneHasNone'
    BY <1>1, <2>2 DEF GoneHasNone
  <2>4. ASSUME ~overtaken', NEW d \in Docs, d # f PROVE JobKept(d)'
    BY <1>1, <1>2, <2>1, <2>2, <2>4, JobKeptStays DEF Papers
  <2>5. ASSUME ~overtaken' PROVE JobKept(f)'
    <3>1. JobKept(f)
      BY <2>1, <2>2, <2>5 DEF Papers
    <3>2. job[f] = "none"
      BY <3>1, <2>1, <2>2, <2>5 DEF JobKept, Deleting
    <3> QED
      BY <1>1, <2>1, <3>2 DEF JobKept
  <2> QED
    BY <2>3, <2>4, <2>5 DEF Papers
<1> QED
    BY <1>3, <1>4

(* One helper is done, and the note it helped is as the helper wants it.   *)
LEMMA ClerkPapers ==
    ASSUME PaperShape, Papers, NEW h \in Clerks, ClerkStep(h)
    PROVE  Papers'
<1> USE DEF PaperShape, noteVars, syncVars, clerkVars, orderVars, Act, Clerk
<1>1. ASSUME NEW d \in Docs, UpdateRead(h, d) \/ CancelRead(h, d) PROVE Papers'
  <2>1. /\ UNCHANGED <<job, cur, spc, calls, ostatus, nstatus, overtaken>>
        /\ hpc[h] = "idle"
        /\ \A g \in Clerks \ {h} : hpc'[g] = hpc[g] /\ hdoc'[g] = hdoc[g]
    BY <1>1 DEF UpdateRead, CancelRead
  <2> QED
    BY <2>1, PapersStay, WhoHelpsStays DEF HelpersStay
<1>2. CASE UpdateWrite(h)
  <2>1. /\ UNCHANGED <<job, cur, spc, ostatus, nstatus, overtaken>>
        /\ hpc[h] = "edit" /\ calls \subseteq calls'
        /\ \A g \in Clerks \ {h} : hpc'[g] = hpc[g] /\ hdoc'[g] = hdoc[g]
    BY <1>2 DEF UpdateWrite
  <2> QED
    BY <2>1, PapersStay, WhoHelpsStays DEF HelpersStay
<1>3. CASE DeleteRead(h)
  <2>1. /\ UNCHANGED <<job, cur, spc, calls, ostatus, nstatus, overtaken>>
        /\ hpc[h] = "idle"
        /\ \A g \in Clerks \ {h} : hpc'[g] = hpc[g] /\ hdoc'[g] = hdoc[g]
    BY <1>3 DEF DeleteRead
  <2> QED
    BY <2>1, PapersStay, WhoHelpsStays DEF HelpersStay
<1>4. CASE CancelWrite(h)
  <2>0. PICK d \in Docs : d = hdoc[h]
    BY <1>4 DEF CancelWrite, CancelPrint, Handed
  <2>1. /\ UNCHANGED <<job, cur, spc, calls, ostatus>> /\ (overtaken => overtaken')
        /\ hpc[h] \in {"cancel", "recancel"}
        /\ \A g \in Clerks \ {h} : hpc'[g] = hpc[g] /\ hdoc'[g] = hdoc[g]
    BY <1>4 DEF CancelWrite, Flag
  <2>2. HelpersStay
    BY <2>1, WhoHelpsStays DEF HelpersStay
  <2>3. CASE nstatus[d] = "none"
    BY <1>4, <2>0, <2>1, <2>2, <2>3, PapersStay DEF CancelWrite
  <2>4. CASE nstatus[d] # "none"
    <3>1. /\ nstatus' = [nstatus EXCEPT ![d] = IF hpc[h] = "cancel" THEN "cancelled" ELSE @]
          /\ hpc'[h] = "withdraw" /\ hdoc'[h] = d /\ d \in Docs
          /\ ~overtaken' => nstatus'[d] = "cancelled"
      BY <1>4, <2>0, <2>1, <2>4 DEF CancelWrite, Flag, Handed
    <3>2. GoneHasNone'
      BY <2>1, <2>4, <3>1 DEF Papers, GoneHasNone
    <3>3. ASSUME ~overtaken', NEW e \in Docs, e # d PROVE JobKept(e)'
      BY <2>1, <2>2, <3>1, <3>3, JobKeptStays DEF Papers
    <3>4. ASSUME ~overtaken' PROVE JobKept(d)'
      <4>1. JobKept(d)
        BY <2>1, <3>1, <3>4 DEF Papers
      <4>2. Withdraws(d)'
        BY <3>1 DEF Withdraws
      <4> QED
        BY <2>1, <2>2, <2>4, <3>1, <3>4, <4>1, <4>2 DEF JobKept, HelpersStay
    <3> QED
      BY <3>2, <3>3, <3>4 DEF Papers
  <2> QED
    BY <2>3, <2>4
<1>5. CASE CancelPrint(h)
  <2>0. PICK d \in Docs : d = hdoc[h]
    BY <1>5 DEF CancelWrite, CancelPrint, Handed
  <2>1. /\ UNCHANGED <<nstatus, cur, spc, calls, ostatus>> /\ (overtaken => overtaken')
        /\ hpc[h] = "withdraw" /\ d \in Docs
        /\ \A g \in Clerks \ {h} : hpc'[g] = hpc[g] /\ hdoc'[g] = hdoc[g]
        /\ ~overtaken' => nstatus[d] = "cancelled"
        /\ job' = IF job[d] = "pending" THEN [job EXCEPT ![d] = "cancelled"] ELSE job
    BY <1>5, <2>0 DEF CancelPrint, Withdrawn, Flag, Handed
  <2>2. \A e \in Docs : /\ Requeues(e) => Requeues(e)'
                        /\ e # d => (Withdraws(e) => Withdraws(e)')
                        /\ Deleting(e) => Deleting(e)'
    BY <2>0, <2>1 DEF Requeues, Withdraws, Deleting
  <2>3. GoneHasNone'
    BY <2>1 DEF Papers, GoneHasNone
  <2>4. ASSUME ~overtaken', NEW e \in Docs, e # d PROVE JobKept(e)'
    <3>1. JobKept(e) /\ job'[e] = job[e]
      BY <2>1, <2>4 DEF Papers
    <3> QED
      BY <2>1, <2>2, <2>4, <3>1 DEF JobKept
  <2>5. ASSUME ~overtaken' PROVE JobKept(d)'
    <3>1. JobKept(d) /\ job'[d] = IF job[d] = "pending" THEN "cancelled" ELSE job[d]
      BY <2>1, <2>5 DEF Papers
    <3> QED
      BY <2>1, <2>2, <2>5, <3>1 DEF JobKept
  <2> QED
    BY <2>3, <2>4, <2>5 DEF Papers
<1>6. CASE DeleteNotes(h)
  <2>1. /\ UNCHANGED <<job, cur, spc, calls, ostatus>> /\ (overtaken => overtaken')
        /\ hpc[h] = "delete" /\ hpc'[h] = "order"
        /\ \A g \in Clerks \ {h} : hpc'[g] = hpc[g] /\ hdoc'[g] = hdoc[g]
        /\ nstatus' = nstatus \/ nstatus' = [nstatus EXCEPT ![AutoNote] = "none"]
    BY <1>6 DEF DeleteNotes, Flag
  <2>2. HelpersStay
    BY <2>1, WhoHelpsStays DEF HelpersStay
  <2>3. GoneHasNone'
    BY <2>1 DEF Papers, GoneHasNone
  <2>4. ASSUME ~overtaken', NEW e \in Docs, e # AutoNote PROVE JobKept(e)'
    BY <2>1, <2>2, <2>4, JobKeptStays DEF Papers
  <2>5. ASSUME ~overtaken' PROVE JobKept(AutoNote)'
    <3>1. JobKept(AutoNote) /\ Deleting(AutoNote)'
      BY <2>1, <2>5, AutoIsDoc DEF Papers, Deleting
    <3> QED
      BY <2>1, <2>2, <3>1, AutoIsDoc DEF JobKept, HelpersStay
  <2> QED
    BY <2>3, <2>4, <2>5 DEF Papers
<1>7. CASE DeleteOrder(h)
  <2>1. /\ UNCHANGED <<job, nstatus>> /\ ostatus' = "gone"
        /\ ~overtaken' => ~overtaken /\ \A d \in Docs : nstatus[d] = "none"
    BY <1>7 DEF DeleteOrder, Flag
  <2>2. GoneHasNone'
    BY <2>1 DEF GoneHasNone
  <2>3. ASSUME ~overtaken', NEW e \in Docs PROVE JobKept(e)'
    BY <2>1, <2>3 DEF JobKept
  <2> QED
    BY <2>2, <2>3 DEF Papers
<1> QED
    BY <1>1, <1>2, <1>3, <1>4, <1>5, <1>6, <1>7 DEF ClerkStep

LEMMA NotePapers ==
    ASSUME PaperShape, Papers, NEW d \in Docs, NoteStep(d)
    PROVE  Papers'
<1> USE DEF PaperShape, noteVars, syncVars, clerkVars, orderVars
<1>0. /\ UNCHANGED <<cur, spc, ostatus, hpc, hdoc>> /\ (overtaken => overtaken')
    BY Zenon DEF NoteStep, Deliver, AgentTakes, BillClaim, BillRead, BillMark, BillRelease,
           Bill, Flag
<1>1. \A e \in Docs : /\ Requeues(e) => Requeues(e)'
                      /\ Withdraws(e) => Withdraws(e)'
                      /\ Deleting(e) => Deleting(e)'
    BY <1>0, WhoHelpsStays
<1>2. ASSUME NEW op \in {"add", "reprint"}, Deliver(op, d) PROVE Papers'
  <2>1. /\ nstatus' = nstatus /\ calls' = calls \ {<<op, d>>}
        /\ job' = IF op = "reprint" \/ job[d] = "none"
                  THEN [job EXCEPT ![d] = "pending"] ELSE job
        /\ ~overtaken' => nstatus[d] \notin {"cancelled", "none"}
    BY <1>2 DEF Deliver, Flag
  <2>2. GoneHasNone'
    BY <1>0, <2>1 DEF Papers, GoneHasNone
  <2>3. ASSUME ~overtaken', NEW e \in Docs, e # d PROVE JobKept(e)'
    <3>1. /\ JobKept(e) /\ job'[e] = job[e] /\ nstatus'[e] = nstatus[e]
          /\ \A o : <<o, e>> \in calls => <<o, e>> \in calls'
      BY <1>0, <2>1, <2>3 DEF Papers
    <3> QED
      BY <1>0, <1>1, <3>1 DEF JobKept
  <2>4. ASSUME ~overtaken' PROVE JobKept(d)'
    <3>1. /\ JobKept(d) /\ nstatus'[d] = nstatus[d] /\ nstatus[d] \notin {"cancelled", "none"}
          /\ job'[d] = IF op = "reprint" \/ job[d] = "none" THEN "pending" ELSE job[d]
          /\ op = "add" => (<<"reprint", d>> \in calls => <<"reprint", d>> \in calls')
      BY <1>0, <2>1, <2>4 DEF Papers
    <3> QED
      BY <1>0, <1>1, <3>1 DEF JobKept
  <2> QED
    BY <2>2, <2>3, <2>4 DEF Papers
<1>3. CASE AgentTakes(d)
  <2>1. /\ UNCHANGED <<nstatus, calls>>
        /\ job[d] = "pending" /\ job' = [job EXCEPT ![d] = "taken"]
    BY <1>3 DEF AgentTakes
  <2>2. GoneHasNone'
    BY <1>0, <2>1 DEF Papers, GoneHasNone
  <2>3. ASSUME ~overtaken', NEW e \in Docs PROVE JobKept(e)'
    <3>1. JobKept(e)
      BY <1>0, <2>3 DEF Papers
    <3>2. e = d \/ job'[e] = job[e]
      BY <2>1
    <3> QED
      BY <1>0, <1>1, <2>1, <3>1, <3>2 DEF JobKept
  <2> QED
    BY <2>2, <2>3 DEF Papers
<1>4. ASSUME NEW from \in {"open", "billing"}, NEW to \in {"open", "billing", "billed"},
             NEW lines, Bill(d, from, to, lines)
      PROVE  Papers'
  <2>1. UNCHANGED <<job, calls>> /\ nstatus[d] = from /\ nstatus' = [nstatus EXCEPT ![d] = to]
    BY <1>4 DEF Bill
  <2>2. GoneHasNone'
    BY <1>0, <2>1 DEF Papers, GoneHasNone
  <2>3. ASSUME ~overtaken', NEW e \in Docs PROVE JobKept(e)'
    <3>1. JobKept(e)
      BY <1>0, <2>3 DEF Papers
    <3>2. e = d \/ nstatus'[e] = nstatus[e]
      BY <2>1
    <3> QED
      BY <1>0, <1>1, <2>1, <3>1, <3>2 DEF JobKept
  <2> QED
    BY <2>2, <2>3 DEF Papers
<1> QED
    BY <1>2, <1>3, <1>4 DEF NoteStep, BillClaim, BillRead, BillMark, BillRelease

LEMMA SyncPapers ==
    ASSUME PaperShape, Papers, NEW y \in Threads, SyncStep(y)
    PROVE  Papers'
<1> USE DEF PaperShape, noteVars, syncVars, clerkVars, orderVars, makeVars, Goto
<1>0. UNCHANGED <<ostatus, hpc, hdoc>> /\ (overtaken => overtaken')
    BY Zenon DEF SyncStep, SyncNote, SyncOrder, SyncNoOrder, SyncFind, SyncManual,
           SyncManualPrint, SyncLeaves, SyncRaced, SyncRevives, SyncCancels, SyncUpdates,
           SyncWrites, SyncPrint, Flag
<1>1. \A x \in Threads \ {y} : spc'[x] = spc[x] /\ cur'[x] = cur[x]
    BY DEF SyncStep, SyncNote, SyncOrder, SyncNoOrder, SyncFind, SyncManual,
           SyncManualPrint, SyncLeaves, SyncRaced, SyncRevives, SyncCancels, SyncUpdates,
           SyncPrint, Finish
<1>2. calls \subseteq calls'
    BY DEF SyncStep, SyncNote, SyncOrder, SyncNoOrder, SyncFind, SyncManual,
           SyncManualPrint, SyncLeaves, SyncRaced, SyncRevives, SyncCancels, SyncUpdates,
           SyncPrint, Finish
<1>3. ASSUME spc[y] \notin {"mrequeue", "requeue", "mwithdraw", "withdraw"}
      PROVE  HelpersStay
    BY <1>0, <1>1, <1>2, <1>3, WhoHelpsStays DEF HelpersStay
<1>4. CASE \/ SyncNote(y) \/ SyncOrder(y) \/ SyncNoOrder(y) \/ SyncFind(y)
           \/ SyncLeaves(y) \/ SyncRaced(y)
  <2>1. UNCHANGED <<nstatus, job>> /\ spc[y] \in {"note", "order", "find", "manuals"}
    BY <1>4 DEF SyncNote, SyncOrder, SyncNoOrder, SyncFind, SyncLeaves, SyncRaced, Decides
  <2> QED
    BY <1>0, <1>3, <2>1, PapersStay
(* A note changes hands between open and cancelled, and whoever did it     *)
(* goes on to its print job, or has called for a new print.                *)
<1>5. ASSUME NEW d \in Docs, spc[y] = "manuals", job' = job,
             nstatus[d] # "none",
             \A e \in Docs \ {d} : nstatus'[e] = nstatus[e],
             ~overtaken' =>
                 \/ nstatus'[d] = "cancelled" /\ Withdraws(d)'
                 \/ /\ nstatus'[d] = "open"
                    /\ \/ Requeues(d)'
                       \/ <<"reprint", d>> \in calls'
                       \/ nstatus[d] = "open"
      PROVE  Papers'
  <2>1. HelpersStay
    BY <1>3, <1>5
  <2>2. GoneHasNone'
    BY <1>0, <1>5 DEF Papers, GoneHasNone
  <2>3. ASSUME ~overtaken', NEW e \in Docs, e # d PROVE JobKept(e)'
    BY <1>0, <1>5, <2>1, <2>3, JobKeptStays DEF Papers
  <2>4. ASSUME ~overtaken' PROVE JobKept(d)'
    <3>1. JobKept(d) /\ job'[d] = job[d] /\ nstatus[d] # "none"
      BY <1>0, <1>5, <2>4 DEF Papers
    <3>2. job[d] \in JobStatus
      OBVIOUS
    <3>3. CASE nstatus'[d] = "cancelled" /\ Withdraws(d)'
      BY <2>1, <3>1, <3>2, <3>3 DEF JobKept, HelpersStay, JobStatus
    <3>4. CASE /\ nstatus'[d] = "open"
               /\ \/ Requeues(d)'
                  \/ <<"reprint", d>> \in calls'
                  \/ nstatus[d] = "open"
      BY <2>1, <3>1, <3>2, <3>4 DEF JobKept, HelpersStay, JobStatus
    <3> QED
      BY <1>5, <2>4, <3>3, <3>4
  <2> QED
    BY <2>2, <2>3, <2>4 DEF Papers
<1>6. ASSUME NEW f \in Forms, SyncManual(y, f) PROVE Papers'
  <2>1. f \in Docs /\ spc[y] = "manuals" /\ job' = job
    BY <1>6 DEF SyncManual, Docs
  <2>2. CASE /\ nstatus[f] = "open"
             /\ nstatus' = [nstatus EXCEPT ![f] = "cancelled"]
             /\ spc' = [spc EXCEPT ![y] = "mwithdraw"] /\ cur' = [cur EXCEPT ![y] = f]
    <3>1. Withdraws(f)'
      BY <2>2 DEF Withdraws
    <3> QED
      BY <1>5, <2>1, <2>2, <3>1
  <2>3. CASE /\ nstatus[f] = "cancelled"
             /\ nstatus' = [nstatus EXCEPT ![f] = "open"]
             /\ spc' = [spc EXCEPT ![y] = "mrequeue"] /\ cur' = [cur EXCEPT ![y] = f]
    <3>1. Requeues(f)'
      BY <2>3 DEF Requeues
    <3> QED
      BY <1>5, <2>1, <2>3, <3>1
  <2>4. CASE UNCHANGED nstatus
    BY <1>0, <1>3, <2>1, <2>4, PapersStay
  <2> QED
    BY <1>6, <2>2, <2>3, <2>4 DEF SyncManual
<1>7. CASE SyncCancels(y)
  <2>1. /\ spc[y] = "manuals" /\ job' = job /\ nstatus[AutoNote] # "none"
        /\ nstatus' = [nstatus EXCEPT ![AutoNote] = "cancelled"]
        /\ spc' = [spc EXCEPT ![y] = "withdraw"]
    BY <1>7 DEF SyncCancels, SyncWrites, Decides, Verdict, Unmoved
  <2>2. Withdraws(AutoNote)'
    BY <2>1 DEF Withdraws
  <2> QED
    BY <1>5, <2>1, <2>2, AutoIsDoc
<1>8. CASE SyncRevives(y)
  <2>1. /\ spc[y] = "manuals" /\ job' = job /\ nstatus[AutoNote] # "none"
        /\ nstatus' = [nstatus EXCEPT ![AutoNote] = "open"]
        /\ spc' = [spc EXCEPT ![y] = "requeue"]
    BY <1>8 DEF SyncRevives, SyncWrites, Decides, Verdict, Unmoved
  <2>2. Requeues(AutoNote)'
    BY <2>1 DEF Requeues
  <2> QED
    BY <1>5, <2>1, <2>2, AutoIsDoc
<1>9. CASE SyncUpdates(y)
  <2>1. /\ spc[y] = "manuals" /\ job' = job /\ nstatus[AutoNote] # "none"
        /\ nstatus[AutoNote] = "open" \/ Revivable(y)
    BY <1>9 DEF SyncUpdates, SyncWrites, Decides, Verdict, Unmoved
  <2>2. CASE ~Revivable(y)
    BY <1>0, <1>3, <1>9, <2>1, <2>2, PapersStay DEF SyncUpdates
  <2>3. CASE Revivable(y)
    <3>1. nstatus' = [nstatus EXCEPT ![AutoNote] = "open"]
      BY <1>9, <2>3 DEF SyncUpdates
    <3>2. CASE Differs(y)
      <4>1. <<"reprint", AutoNote>> \in calls'
        BY <1>9, <2>3, <3>2 DEF SyncUpdates
      <4> QED
        BY <1>5, <2>1, <3>1, <4>1, AutoIsDoc
    <3>3. CASE ~Differs(y)
      <4>1. spc' = [spc EXCEPT ![y] = "requeue"]
        BY <1>9, <2>3, <3>3 DEF SyncUpdates
      <4>2. Requeues(AutoNote)'
        BY <4>1 DEF Requeues
      <4> QED
        BY <1>5, <2>1, <3>1, <4>2, AutoIsDoc
    <3> QED
      BY <3>2, <3>3
  <2> QED
    BY <2>2, <2>3
(* The job of the note is brought into line.                               *)
<1>10. ASSUME NEW d \in Docs, UNCHANGED <<nstatus, calls>>,
              \/ spc[y] = "mwithdraw" /\ cur[y] = d
              \/ spc[y] = "withdraw" /\ d = AutoNote,
              Withdrawn(d), ~overtaken' => nstatus[d] = "cancelled"
       PROVE  Papers'
  <2>1. \A e \in Docs : /\ Requeues(e) => Requeues(e)'
                        /\ e # d => (Withdraws(e) => Withdraws(e)')
                        /\ Deleting(e) => Deleting(e)'
    BY <1>0, <1>1, <1>10 DEF Requeues, Withdraws, Deleting
  <2>2. GoneHasNone'
    BY <1>0, <1>10 DEF Papers, GoneHasNone
  <2>3. ASSUME ~overtaken', NEW e \in Docs, e # d PROVE JobKept(e)'
    <3>1. JobKept(e) /\ job'[e] = job[e]
      BY <1>0, <1>10, <2>3 DEF Papers, Withdrawn
    <3> QED
      BY <1>0, <1>10, <2>1, <2>3, <3>1 DEF JobKept
  <2>4. ASSUME ~overtaken' PROVE JobKept(d)'
    <3>1. JobKept(d) /\ job'[d] = IF job[d] = "pending" THEN "cancelled" ELSE job[d]
      BY <1>0, <1>10, <2>4 DEF Papers, Withdrawn
    <3> QED
      BY <1>0, <1>10, <2>1, <2>4, <3>1 DEF JobKept
  <2> QED
    BY <2>2, <2>3, <2>4 DEF Papers
<1>11. ASSUME NEW d \in Docs, UNCHANGED <<nstatus, calls>>,
              \/ spc[y] = "mrequeue" /\ cur[y] = d
              \/ spc[y] = "requeue" /\ d = AutoNote,
              Requeued(d), ~overtaken' => nstatus[d] # "cancelled"
       PROVE  Papers'
  <2>1. \A e \in Docs : /\ e # d => (Requeues(e) => Requeues(e)')
                        /\ Withdraws(e) => Withdraws(e)'
                        /\ Deleting(e) => Deleting(e)'
    BY <1>0, <1>1, <1>11 DEF Requeues, Withdraws, Deleting
  <2>2. GoneHasNone'
    BY <1>0, <1>11 DEF Papers, GoneHasNone
  <2>3. ASSUME ~overtaken', NEW e \in Docs, e # d PROVE JobKept(e)'
    <3>1. JobKept(e) /\ job'[e] = job[e]
      BY <1>0, <1>11, <2>3 DEF Papers, Requeued
    <3> QED
      BY <1>0, <1>11, <2>1, <2>3, <3>1 DEF JobKept
  <2>4. ASSUME ~overtaken' PROVE JobKept(d)'
    <3>1. JobKept(d) /\ job'[d] = IF job[d] = "cancelled" THEN "pending" ELSE job[d]
      BY <1>0, <1>11, <2>4 DEF Papers, Requeued
    <3> QED
      BY <1>0, <1>11, <2>1, <2>4, <3>1 DEF JobKept
  <2> QED
    BY <2>2, <2>3, <2>4 DEF Papers
<1>12. CASE SyncManualPrint(y)
  <2>1. cur[y] \in Docs
    BY <1>12 DEF SyncManualPrint, Handed
  <2> QED
    BY <1>10, <1>11, <1>12, <2>1 DEF SyncManualPrint, Flag
<1>13. CASE SyncPrint(y)
    BY <1>10, <1>11, <1>13, AutoIsDoc DEF SyncPrint, Flag
<1> QED
    BY <1>4, <1>6, <1>7, <1>8, <1>9, <1>12, <1>13 DEF SyncStep

LEMMA NextPapers == IInv /\ Settled /\ Papers /\ [Next]_vars => Papers'
<1> SUFFICES ASSUME IInv, Settled, Papers, [Next]_vars PROVE Papers'
    OBVIOUS
<1>1. PaperShape
    BY PaperShaped
<1>2. CASE UNCHANGED vars
  <2>1. HelpersStay
    BY <1>2, WhoHelpsStays DEF vars, HelpersStay, syncVars, clerkVars, orderVars
  <2> QED
    BY <1>2, <2>1, PapersStay DEF vars, noteVars, orderVars
<1> QED
    BY <1>1, <1>2, OrderPapers, CreatePapers, FormPapers, ClerkPapers, NotePapers,
       SyncPapers DEF Next

LEMMA PapersAlways == Spec => []Papers
BY PapersInit, NextPapers, SettledAlways, InductiveInvariant, PTL DEF Spec

(* Once everything has settled, a note that counts is printed or waits to  *)
(* be, and no cancelled one waits: however creations, synchronisations,    *)
(* edits, cancellations and deliveries of print calls interleave, as long  *)
(* as none has acted on an outdated reading (deliveryNotes.js:634, 671).   *)
THEOREM PaperKeepsUp == Spec => []PaperFollowsNote
<1>1. IInv /\ Papers => PaperFollowsNote
  <2> SUFFICES ASSUME IInv, Papers, Quiet, ~overtaken, NEW d \in Docs
               PROVE  /\ Live(d) => job[d] \in {"pending", "taken"}
                      /\ nstatus[d] = "cancelled" => job[d] # "pending"
    BY DEF PaperFollowsNote
  <2>1. JobKept(d) /\ ~Requeues(d) /\ ~Withdraws(d) /\ ~Deleting(d) /\ calls = {}
    BY DEF Papers, Quiet, Requeues, Withdraws, Deleting
  <2> QED
    BY <2>1 DEF JobKept, Live
<1> QED
    BY <1>1, PapersAlways, InductiveInvariant, PTL

-----------------------------------------------------------------------------
(* The notes of the order: as long as one of them is not as the order has  *)
(* it, a synchronisation is on its way whose readings will make it change  *)
(* it, or find that it may not.                                            *)
Underway == {"find", "manuals", "mwithdraw", "mrequeue"}
Reading  == Underway \cup {"order"}
Touched  == {"open", "billing", "billed"}

WillCancelManual(y, f) ==
    \/ spc[y] \in {"note", "order"}
    \/ spc[y] = "find" /\ so[y].cancelled
    \/ spc[y] \in Underway \ {"find"} /\ so[y].cancelled /\ f \in todo[y]

WillCancel(y) ==
    \/ spc[y] = "note"
    \/ /\ spc[y] \in Reading /\ sn[y].status \in Touched
       /\ spc[y] \in Underway => so[y].cancelled

WillUpdate(y) ==
    \/ spc[y] = "note"
    \/ /\ spc[y] \in Reading /\ sn[y].status \in Touched
       /\ sn[y].content = content[AutoNote] /\ ~sn[y].edited
       /\ spc[y] \in Underway => so[y].cart = cart

WillRevive(y) ==
    \/ spc[y] = "note"
    \/ /\ spc[y] \in Reading /\ sn[y].status = "cancelled" /\ sn[y].bySync
       /\ spc[y] \in Underway => ~so[y].cancelled /\ so[y].cart \notin EmptyCarts

Uncancelled(d) == ostatus = "cancelled" /\ nstatus[d] \in {"open", "billing"}

Outdated ==
    /\ nstatus[AutoNote] \in {"open", "billing"} /\ AutoNote \notin edited
    /\ content[AutoNote] # cart

Unrevived ==
    /\ nstatus[AutoNote] = "cancelled" /\ AutoNote \in bySync
    /\ ostatus \notin {"cancelled", "gone"} /\ cart \notin EmptyCarts

Chased ==
    /\ \A f \in Forms : Uncancelled(f) => \E y \in Threads : WillCancelManual(y, f)
    /\ Uncancelled(AutoNote) => \E y \in Threads : WillCancel(y)
    /\ Outdated => \E y \in Threads : WillUpdate(y)
    /\ Unrevived => \E y \in Threads : WillRevive(y)

Trouble == overtaken \/ missed

Pursued == ~Trouble => Chased

SyncShape ==
    /\ nstatus \in [Docs -> NoteStatus]
    /\ content \in [Docs -> Contents]
    /\ bySync \in SUBSET Docs
    /\ edited \in SUBSET Docs
    /\ spc \in [Threads -> SyncSteps]
    /\ sn \in [Threads -> NoteRow]
    /\ so \in [Threads -> OrderRow]
    /\ todo \in [Threads -> SUBSET Forms]
    /\ overtaken \in BOOLEAN /\ missed \in BOOLEAN
    /\ Handed

LEMMA SyncShaped == IInv => SyncShape
BY DEF IInv, NotesTypeOK, SyncShape

LEMMA PursuedInit == Init => Pursued
BY DEF Init, Pursued, Chased, Uncancelled, Outdated, Unrevived, Docs

(* The synchronisations that stand as they stood.                          *)
Standing(y) ==
    spc'[y] = spc[y] /\ sn'[y] = sn[y] /\ so'[y] = so[y] /\ todo'[y] = todo[y]

LEMMA StandingChases ==
    ASSUME NEW y \in Threads, Standing(y)
    PROVE  /\ \A f \in Forms : WillCancelManual(y, f) => WillCancelManual(y, f)'
           /\ WillCancel(y) => WillCancel(y)'
           /\ content'[AutoNote] = content[AutoNote] /\ cart' = cart =>
                  (WillUpdate(y) => WillUpdate(y)')
           /\ WillRevive(y) => WillRevive(y)'
BY DEF Standing, WillCancelManual, WillCancel, WillUpdate, WillRevive

(* One that has not begun to read, or no longer decides, chases nothing.   *)
LEMMA IdleChasesNothing ==
    ASSUME NEW y \in Threads, spc[y] \notin Reading \cup {"note"}
    PROVE  /\ \A f \in Forms : ~WillCancelManual(y, f)
           /\ ~WillCancel(y) /\ ~WillUpdate(y) /\ ~WillRevive(y)
BY DEF WillCancelManual, WillCancel, WillUpdate, WillRevive, Reading, Underway

(* Steps that start no chase: no note falls out of line.                   *)
LEMMA NothingFallsBehind ==
    ASSUME Pursued, Trouble => Trouble',
           \A y \in Threads : Standing(y) \/ spc[y] \notin Reading \cup {"note"},
           ~Trouble' =>
               /\ \A f \in Forms : Uncancelled(f)' => Uncancelled(f)
               /\ Uncancelled(AutoNote)' => Uncancelled(AutoNote)
               /\ Outdated' => /\ Outdated /\ cart' = cart
                               /\ content'[AutoNote] = content[AutoNote]
               /\ Unrevived' => Unrevived
    PROVE  Pursued'
<1> SUFFICES ASSUME ~Trouble' PROVE Chased'
    BY DEF Pursued
<1>1. Chased
    BY DEF Pursued
<1>2. ASSUME NEW f \in Forms, Uncancelled(f)'
      PROVE  \E y \in Threads : WillCancelManual(y, f)'
    BY <1>1, <1>2, StandingChases, IdleChasesNothing DEF Chased
<1>3. ASSUME Uncancelled(AutoNote)' PROVE \E y \in Threads : WillCancel(y)'
    BY <1>1, <1>3, StandingChases, IdleChasesNothing DEF Chased
<1>4. ASSUME Outdated' PROVE \E y \in Threads : WillUpdate(y)'
    BY <1>1, <1>4, StandingChases, IdleChasesNothing DEF Chased
<1>5. ASSUME Unrevived' PROVE \E y \in Threads : WillRevive(y)'
    BY <1>1, <1>5, StandingChases, IdleChasesNothing DEF Chased
<1> QED
    BY <1>2, <1>3, <1>4, <1>5 DEF Chased

(* A synchronisation that starts chases everything.                        *)
LEMMA NewOneChases ==
    ASSUME NEW y \in Threads, spc'[y] = "note"
    PROVE  Pursued'
BY DEF Pursued, Chased, WillCancelManual, WillCancel, WillUpdate, WillRevive

LEMMA OrderPursued ==
    ASSUME SyncShape, Pursued, NEW y \in Threads,
           \/ \E s \in {"waiting", "handled", "cancelled"} : SetStatus(y, s)
           \/ EditRead(y) \/ EditFails(y) \/ \E z \in Threads : EditSave(y, z)
    PROVE  Pursued'
<1> USE DEF SyncShape, Goto
<1>1. ASSUME NEW s \in {"waiting", "handled", "cancelled"}, SetStatus(y, s) PROVE Pursued'
    BY <1>1, NewOneChases DEF SetStatus
<1>2. ASSUME NEW z \in Threads, EditSave(y, z) PROVE Pursued'
    BY <1>2, NewOneChases DEF EditSave
<1>3. CASE EditRead(y) \/ EditFails(y)
  <2>1. /\ UNCHANGED <<orderVars, noteVars, overtaken, missed>>
        /\ spc[y] \in {"idle", "edit"}
        /\ \A x \in Threads \ {y} : Standing(x)
    BY <1>3 DEF EditRead, EditFails, Standing
  <2> QED
    BY <2>1, NothingFallsBehind DEF Uncancelled, Outdated, Unrevived, Trouble,
       orderVars, noteVars, Reading, Underway
<1> QED
    BY <1>1, <1>2, <1>3

LEMMA CreatePursued ==
    ASSUME SyncShape, Pursued, NEW k \in Creators, CreateStep(k)
    PROVE  Pursued'
<1> USE DEF SyncShape, orderVars, noteVars, syncVars
<1>1. /\ UNCHANGED <<orderVars, spc, sn, so, todo, edited, bySync, missed>>
      /\ overtaken => overtaken'
    BY Zenon DEF CreateStep, IssueButton, CreateLook, CreateRead, Create, Flag
<1>2. \A y \in Threads : Standing(y)
    BY <1>1 DEF Standing
<1>3. CASE UNCHANGED <<nstatus, content>>
    BY <1>1, <1>2, <1>3, NothingFallsBehind DEF Uncancelled, Outdated, Unrevived, Trouble
<1>4. CASE ~UNCHANGED <<nstatus, content>>
  <2>1. /\ nstatus' = [nstatus EXCEPT ![AutoNote] = "open"]
        /\ content' = [content EXCEPT ![AutoNote] = kcart[k]]
        /\ ~overtaken' => cart = kcart[k] /\ Issuable
    BY <1>4 DEF CreateStep, IssueButton, CreateLook, CreateRead, Create, Flag
  <2>2. ~Trouble' => /\ \A f \in Forms : ~Uncancelled(f)'
                     /\ ~Uncancelled(AutoNote)' /\ ~Outdated' /\ ~Unrevived'
    BY <1>1, <2>1, AutoIsDoc DEF Issuable, Uncancelled, Outdated, Unrevived, Trouble
  <2> QED
    BY <1>1, <1>2, <2>2, NothingFallsBehind DEF Trouble
<1> QED
    BY <1>3, <1>4

LEMMA FormPursued ==
    ASSUME SyncShape, Pursued, NEW f \in Forms, FormStep(f)
    PROVE  Pursued'
<1> USE DEF SyncShape, orderVars, noteVars, syncVars
<1>1. /\ UNCHANGED <<orderVars, spc, sn, so, todo, edited, bySync, missed>>
      /\ overtaken => overtaken'
    BY Zenon DEF FormStep, FormRead, FormCheck, FormCreate, Flag
<1>2. \A y \in Threads : Standing(y)
    BY <1>1 DEF Standing
<1>3. CASE UNCHANGED <<nstatus, content>>
    BY <1>1, <1>2, <1>3, NothingFallsBehind DEF Uncancelled, Outdated, Unrevived, Trouble
<1>4. CASE FormCreate(f)
  <2>1. /\ nstatus' = [nstatus EXCEPT ![f] = "open"]
        /\ content' = [content EXCEPT ![f] = Hand]
        /\ ~overtaken' => ostatus # "cancelled"
        /\ f # AutoNote
    BY <1>4, NotesAssumption DEF FormCreate, Flag
  <2>2. ~Trouble' => /\ \A g \in Forms : ~Uncancelled(g)'
                     /\ ~Uncancelled(AutoNote)'
                     /\ Outdated' => Outdated
                     /\ Unrevived' => Unrevived
    BY <1>1, <2>1, AutoIsDoc DEF Uncancelled, Outdated, Unrevived, Trouble
  <2> QED
    BY <1>1, <1>2, <2>1, <2>2, NothingFallsBehind DEF Trouble
<1> QED
    BY <1>3, <1>4 DEF FormStep, FormRead, FormCheck

LEMMA ClerkPursued ==
    ASSUME SyncShape, Pursued, NEW h \in Clerks, ClerkStep(h)
    PROVE  Pursued'
<1> USE DEF SyncShape, orderVars, noteVars, syncVars, Act
<1>1. UNCHANGED <<cart, spc, sn, so, todo, missed>> /\ (overtaken => overtaken')
    BY Zenon DEF ClerkStep, UpdateRead, UpdateWrite, CancelRead, CancelWrite, CancelPrint,
       DeleteRead, DeleteNotes, DeleteOrder, Flag, Act
<1>2. (\A y \in Threads : Standing(y)) /\ (Trouble => Trouble')
    BY <1>1 DEF Standing, Trouble
<1>3. CASE UNCHANGED <<ostatus, nstatus, content, edited, bySync>>
    BY <1>1, <1>2, <1>3, NothingFallsBehind DEF Uncancelled, Outdated, Unrevived
<1>4. CASE UpdateWrite(h)
  <2>1. PICK d \in Docs : d = hdoc[h]
    BY <1>4 DEF UpdateWrite, Handed
  <2>2. /\ UNCHANGED <<ostatus, nstatus, bySync>>
        /\ \/ UNCHANGED <<content, edited>>
           \/ /\ content' = [content EXCEPT ![d] = Hand]
              /\ edited' = edited \cup {d}
    BY <1>4, <2>1 DEF UpdateWrite
  <2>3. /\ \A e \in Docs : Uncancelled(e)' => Uncancelled(e)
        /\ Unrevived' => Unrevived
    BY <1>1, <2>2 DEF Uncancelled, Unrevived
  <2>4. Outdated' => Outdated /\ content'[AutoNote] = content[AutoNote]
    BY <1>1, <2>2, AutoIsDoc DEF Outdated
  <2> QED
    BY <1>1, <1>2, <2>3, <2>4, NothingFallsBehind DEF Docs
<1>5. CASE CancelWrite(h)
  <2>1. PICK d \in Docs : d = hdoc[h]
    BY <1>5 DEF CancelWrite, Handed
  <2>2. /\ UNCHANGED <<ostatus, content, edited>>
        /\ \/ UNCHANGED <<nstatus, bySync>>
           \/ /\ nstatus' \in {nstatus, [nstatus EXCEPT ![d] = "cancelled"]}
              /\ bySync' = bySync \ {d}
    BY <1>5, <2>1 DEF CancelWrite
  <2>3. \A e \in Docs : nstatus'[e] = nstatus[e] \/ nstatus'[e] = "cancelled"
    BY <2>2
  <2>4. nstatus'[AutoNote] = nstatus[AutoNote] \/ AutoNote \notin bySync'
    BY <2>2
  <2>5. bySync' \subseteq bySync
    BY <2>2
  <2> HIDE <2>2
  <2>6. UNCHANGED <<ostatus, content, edited>>
    BY <2>2
  <2>7. /\ \A e \in Docs : Uncancelled(e)' => Uncancelled(e)
        /\ Unrevived' => Unrevived
        /\ Outdated' => Outdated
    BY <1>1, <2>3, <2>4, <2>5, <2>6, AutoIsDoc DEF Uncancelled, Unrevived, Outdated
  <2> QED
    BY <1>1, <1>2, <2>6, <2>7, NothingFallsBehind DEF Docs
<1>6. CASE DeleteNotes(h)
  <2>1. /\ UNCHANGED ostatus
        /\ \/ UNCHANGED noteVars
           \/ /\ nstatus' = [nstatus EXCEPT ![AutoNote] = "none"]
              /\ content' = [content EXCEPT ![AutoNote] = None]
    BY <1>6 DEF DeleteNotes
  <2>2. /\ \A e \in Docs : Uncancelled(e)' => Uncancelled(e)
        /\ Unrevived' => Unrevived
        /\ Outdated' => Outdated /\ content'[AutoNote] = content[AutoNote]
    BY <1>1, <2>1, AutoIsDoc DEF Uncancelled, Unrevived, Outdated
  <2> QED
    BY <1>1, <1>2, <2>2, NothingFallsBehind DEF Docs
<1>7. CASE DeleteOrder(h)
  <2>1. /\ ostatus' = "gone" /\ UNCHANGED noteVars
        /\ ~Trouble' => \A d \in Docs : nstatus[d] = "none"
    BY <1>7 DEF DeleteOrder, Flag, Trouble
  <2>2. ~Trouble' => /\ \A e \in Docs : ~Uncancelled(e)'
                     /\ ~Unrevived' /\ ~Outdated'
    BY <2>1, AutoIsDoc DEF Uncancelled, Unrevived, Outdated
  <2> QED
    BY <1>1, <1>2, <2>2, NothingFallsBehind DEF Docs
<1> QED
    BY <1>3, <1>4, <1>5, <1>6, <1>7 DEF ClerkStep, UpdateRead, CancelRead, CancelPrint,
       DeleteRead

LEMMA NotePursued ==
    ASSUME SyncShape, Pursued, NEW d \in Docs, NoteStep(d)
    PROVE  Pursued'
<1> USE DEF SyncShape, orderVars, noteVars, syncVars
<1>1. /\ UNCHANGED <<orderVars, content, edited, bySync, spc, sn, so, todo, missed>>
      /\ overtaken => overtaken'
    BY Zenon DEF NoteStep, Deliver, AgentTakes, BillClaim, BillRead, BillMark, BillRelease,
       Bill, Flag
<1>2. (\A y \in Threads : Standing(y)) /\ (Trouble => Trouble')
    BY <1>1 DEF Standing, Trouble
<1>3. \A e \in Docs :
        \/ nstatus'[e] = nstatus[e]
        \/ nstatus[e] \in {"open", "billing"} /\ nstatus'[e] # "cancelled"
    BY DEF NoteStep, Deliver, AgentTakes, BillClaim, BillRead, BillMark, BillRelease, Bill
<1>4. /\ \A e \in Docs : Uncancelled(e)' => Uncancelled(e)
      /\ Unrevived' => Unrevived
      /\ Outdated' => Outdated
  <2>1. \A e \in Docs : nstatus'[e] \in {"open", "billing"} => nstatus[e] \in {"open", "billing"}
    BY DEF NoteStep, Deliver, AgentTakes, BillClaim, BillRead, BillMark, BillRelease, Bill
  <2> QED
    BY <1>1, <1>3, <2>1, AutoIsDoc DEF Uncancelled, Unrevived, Outdated
<1> QED
    BY <1>1, <1>2, <1>4, NothingFallsBehind DEF Docs

(* What a chasing synchronisation decides about the automatic note.        *)
LEMMA ChaserActs ==
    ASSUME SyncShape, NEW y \in Threads, Decides(y)
    PROVE  /\ \A f \in Forms : ~WillCancelManual(y, f)
           /\ WillCancel(y) => \/ Verdict(y) = "cancel"
                               \/ sn[y].status \in {"billing", "billed"}
           /\ WillUpdate(y) /\ Outdated => \/ Verdict(y) \in {"cancel", "update"}
                                           \/ sn[y].status \in {"billing", "billed"}
           /\ WillRevive(y) => Verdict(y) \in {"revive", "update"}
<1>1. spc[y] = "manuals" /\ todo[y] = {}
    BY DEF Decides
<1>2. \A f \in Forms : ~WillCancelManual(y, f)
    BY <1>1 DEF WillCancelManual
<1>3. ASSUME WillCancel(y), sn[y].status = "open" PROVE Verdict(y) = "cancel"
  <2>1. so[y].cancelled
    BY <1>1, <1>3 DEF WillCancel, Underway
  <2> QED
    BY <1>3, <2>1 DEF Verdict, Differs, Empty, Untouchable, Revivable
<1>4. ASSUME WillUpdate(y), Outdated, sn[y].status = "open"
      PROVE  Verdict(y) \in {"cancel", "update"}
  <2>1. ~sn[y].edited /\ sn[y].content # so[y].cart
    BY <1>1, <1>4 DEF WillUpdate, Underway, Outdated
  <2> QED
    BY <1>4, <2>1 DEF Verdict, Differs, Empty, Untouchable, Revivable
<1>5. ASSUME WillRevive(y) PROVE Verdict(y) \in {"revive", "update"}
  <2>1. Revivable(y) /\ ~Empty(y) /\ sn[y].status = "cancelled"
    BY <1>1, <1>5 DEF WillRevive, Underway, Revivable, Empty
  <2> QED
    BY <2>1 DEF Verdict
<1>6. WillCancel(y) \/ WillUpdate(y) => sn[y].status \in Touched
    BY <1>1 DEF WillCancel, WillUpdate
<1> QED
    BY <1>2, <1>3, <1>4, <1>5, <1>6 DEF Touched

LEMMA SyncPursued ==
    ASSUME SyncShape, GoneHasNone, Pursued, NEW y \in Threads, SyncStep(y)
    PROVE  Pursued'
<1> USE DEF SyncShape, orderVars, noteVars, Goto, Finish
<1>0. UNCHANGED <<orderVars, edited>> /\ (Trouble => Trouble')
    BY Zenon DEF SyncStep, SyncNote, SyncOrder, SyncNoOrder, SyncFind, SyncManual,
           SyncManualPrint, SyncLeaves, SyncRaced, SyncRevives, SyncCancels, SyncUpdates,
           SyncWrites, SyncPrint, Flag, Trouble
<1>1. \A x \in Threads \ {y} : Standing(x)
    BY DEF SyncStep, SyncNote, SyncOrder, SyncNoOrder, SyncFind, SyncManual,
           SyncManualPrint, SyncLeaves, SyncRaced, SyncRevives, SyncCancels, SyncUpdates,
           SyncPrint, Standing
(* It goes on reading, and keeps what it was after in view.                *)
<1>2. ASSUME UNCHANGED noteVars,
             ~Trouble' =>
                 /\ \A f \in Forms : Uncancelled(f) /\ WillCancelManual(y, f) =>
                                         WillCancelManual(y, f)'
                 /\ Uncancelled(AutoNote) /\ WillCancel(y) => WillCancel(y)'
                 /\ Outdated /\ WillUpdate(y) => WillUpdate(y)'
                 /\ Unrevived /\ WillRevive(y) => WillRevive(y)'
      PROVE  Pursued'
  <2> SUFFICES ASSUME ~Trouble' PROVE Chased'
    BY DEF Pursued
  <2>1. Chased
    BY <1>0 DEF Pursued
  <2>2. /\ \A d \in Docs : Uncancelled(d)' <=> Uncancelled(d)
        /\ Outdated' <=> Outdated
        /\ Unrevived' <=> Unrevived
        /\ content'[AutoNote] = content[AutoNote] /\ cart' = cart
    BY <1>0, <1>2 DEF Uncancelled, Outdated, Unrevived
  <2>3. \A x \in Threads \ {y} :
           /\ \A f \in Forms : WillCancelManual(x, f) => WillCancelManual(x, f)'
           /\ WillCancel(x) => WillCancel(x)'
           /\ WillUpdate(x) => WillUpdate(x)'
           /\ WillRevive(x) => WillRevive(x)'
    BY <1>1, <2>2, StandingChases
  <2>4. \A f \in Forms : Uncancelled(f)' => \E x \in Threads : WillCancelManual(x, f)'
    BY <1>2, <2>1, <2>2, <2>3 DEF Chased, Docs
  <2>5. Uncancelled(AutoNote)' => \E x \in Threads : WillCancel(x)'
    BY <1>2, <2>1, <2>2, <2>3, AutoIsDoc DEF Chased
  <2>6. Outdated' => \E x \in Threads : WillUpdate(x)'
    BY <1>2, <2>1, <2>2, <2>3 DEF Chased
  <2>7. Unrevived' => \E x \in Threads : WillRevive(x)'
    BY <1>2, <2>1, <2>2, <2>3 DEF Chased
  <2> QED
    BY <2>4, <2>5, <2>6, <2>7 DEF Chased
<1>3. CASE SyncNote(y)
  <2>1. /\ spc[y] = "note" /\ spc'[y] = "order" /\ UNCHANGED noteVars
        /\ sn'[y].status = nstatus[AutoNote] /\ sn'[y].content = content[AutoNote]
        /\ sn'[y].bySync = (AutoNote \in bySync) /\ sn'[y].edited = (AutoNote \in edited)
    BY <1>3 DEF SyncNote
  <2>2. \A f \in Forms : WillCancelManual(y, f)'
    BY <2>1 DEF WillCancelManual
  <2>3. Uncancelled(AutoNote) => WillCancel(y)'
    BY <2>1 DEF WillCancel, Uncancelled, Reading, Underway, Touched
  <2>4. Outdated => WillUpdate(y)'
    BY <2>1 DEF WillUpdate, Outdated, Reading, Underway, Touched
  <2>5. Unrevived => WillRevive(y)'
    BY <2>1 DEF WillRevive, Unrevived, Reading, Underway
  <2> QED
    BY <1>2, <2>1, <2>2, <2>3, <2>4, <2>5
<1>4. CASE SyncOrder(y)
  <2>1. /\ spc[y] = "order" /\ spc'[y] = "find" /\ UNCHANGED <<noteVars, sn>>
        /\ so'[y].cancelled = (ostatus = "cancelled") /\ so'[y].cart = cart
    BY <1>4 DEF SyncOrder
  <2>2. \A f \in Forms : Uncancelled(f) => WillCancelManual(y, f)'
    BY <2>1 DEF WillCancelManual, Uncancelled
  <2>3. Uncancelled(AutoNote) /\ WillCancel(y) => WillCancel(y)'
    BY <2>1 DEF WillCancel, Uncancelled, Reading, Underway
  <2>4. WillUpdate(y) => WillUpdate(y)'
    BY <1>0, <2>1 DEF WillUpdate, Reading, Underway
  <2>5. Unrevived /\ WillRevive(y) => WillRevive(y)'
    BY <2>1 DEF WillRevive, Unrevived, Reading, Underway
  <2> QED
    BY <1>2, <2>1, <2>2, <2>3, <2>4, <2>5
<1>5. CASE SyncNoOrder(y)
  <2>1. ostatus = "gone" /\ UNCHANGED noteVars
    BY <1>5 DEF SyncNoOrder
  <2>2. ~Trouble' => nstatus[AutoNote] = "none"
    BY <1>0, <2>1, AutoIsDoc DEF GoneHasNone, Trouble
  <2>3. ~Trouble' => /\ \A d \in Docs : ~Uncancelled(d)
                     /\ ~Outdated /\ ~Unrevived
    BY <2>1, <2>2 DEF Uncancelled, Outdated, Unrevived
  <2> QED
    BY <1>2, <2>1, <2>3, AutoIsDoc DEF Docs
<1>6. CASE SyncFind(y)
  <2>1. /\ spc[y] = "find" /\ spc'[y] = "manuals" /\ UNCHANGED <<noteVars, sn, so>>
        /\ todo'[y] = Concerned(y)
        /\ ~Trouble' => ~(so[y].cancelled /\ \E f \in Forms : nstatus[f] = "billing")
    BY <1>6 DEF SyncFind, Trouble
  <2>2. ASSUME ~Trouble', NEW f \in Forms, Uncancelled(f), WillCancelManual(y, f)
        PROVE  WillCancelManual(y, f)'
    <3>1. so[y].cancelled
      BY <2>1, <2>2 DEF WillCancelManual
    <3>2. nstatus[f] = "open"
      BY <2>1, <2>2, <3>1 DEF Uncancelled
    <3> QED
      BY <2>1, <3>1, <3>2 DEF WillCancelManual, Concerned, Underway
  <2>3. /\ WillCancel(y) => WillCancel(y)'
        /\ WillUpdate(y) => WillUpdate(y)'
        /\ WillRevive(y) => WillRevive(y)'
    BY <1>0, <2>1 DEF WillCancel, WillUpdate, WillRevive, Reading, Underway
  <2> QED
    BY <1>2, <2>1, <2>2, <2>3
<1>7. CASE SyncManualPrint(y)
  <2>1. /\ spc[y] \in {"mwithdraw", "mrequeue"} /\ spc'[y] = "manuals"
        /\ UNCHANGED <<noteVars, sn, so, todo>>
    BY <1>7 DEF SyncManualPrint
  <2>2. /\ \A f \in Forms : WillCancelManual(y, f) => WillCancelManual(y, f)'
        /\ WillCancel(y) => WillCancel(y)'
        /\ WillUpdate(y) => WillUpdate(y)'
        /\ WillRevive(y) => WillRevive(y)'
    BY <1>0, <2>1 DEF WillCancelManual, WillCancel, WillUpdate, WillRevive, Reading, Underway
  <2> QED
    BY <1>2, <2>1, <2>2
<1>8. ASSUME NEW f \in Forms, SyncManual(y, f) PROVE Pursued'
  <2>1. /\ spc[y] = "manuals" /\ spc'[y] \in {"manuals", "mwithdraw", "mrequeue"}
        /\ UNCHANGED <<sn, so, content>> /\ todo'[y] = todo[y] \ {f}
        /\ f \in Docs /\ f # AutoNote
    BY <1>8, NotesAssumption DEF SyncManual, Docs
  <2>2. /\ \A g \in Docs \ {f} : nstatus'[g] = nstatus[g]
        /\ AutoNote \in bySync' <=> AutoNote \in bySync
    BY <1>8, <2>1 DEF SyncManual
  <2>3. ~Trouble' => ~Uncancelled(f)'
    <3>1. CASE ~so[y].cancelled
      BY <1>8, <3>1 DEF SyncManual, Flag, Trouble, Uncancelled
    <3>2. CASE so[y].cancelled
      BY <1>8, <2>1, <3>2 DEF SyncManual, Trouble, Uncancelled
    <3> QED
      BY <3>1, <3>2
  <2> SUFFICES ASSUME ~Trouble' PROVE Chased'
    BY DEF Pursued
  <2>4. Chased
    BY <1>0 DEF Pursued
  <2>5. /\ \A d \in Docs \ {f} : Uncancelled(d)' <=> Uncancelled(d)
        /\ Outdated' <=> Outdated
        /\ Unrevived' <=> Unrevived
        /\ content'[AutoNote] = content[AutoNote] /\ cart' = cart
    BY <1>0, <2>1, <2>2, AutoIsDoc DEF Uncancelled, Outdated, Unrevived
  <2>6. \A x \in Threads :
           /\ \A g \in Forms \ {f} : WillCancelManual(x, g) => WillCancelManual(x, g)'
           /\ WillCancel(x) => WillCancel(x)'
           /\ WillUpdate(x) => WillUpdate(x)'
           /\ WillRevive(x) => WillRevive(x)'
    <3>1. ASSUME NEW g \in Forms \ {f}
          PROVE  WillCancelManual(y, g) => WillCancelManual(y, g)'
      BY <2>1 DEF WillCancelManual, Underway
    <3>2. /\ WillCancel(y) => WillCancel(y)'
          /\ WillUpdate(y) => WillUpdate(y)'
          /\ WillRevive(y) => WillRevive(y)'
      BY <2>1, <2>5 DEF WillCancel, WillUpdate, WillRevive, Reading, Underway
    <3> QED
      BY <1>1, <2>5, <3>1, <3>2, StandingChases
  <2>7. \A g \in Forms : Uncancelled(g)' => \E x \in Threads : WillCancelManual(x, g)'
    BY <2>3, <2>4, <2>5, <2>6 DEF Chased, Docs
  <2>8. Uncancelled(AutoNote)' => \E x \in Threads : WillCancel(x)'
    BY <2>1, <2>4, <2>5, <2>6, AutoIsDoc DEF Chased
  <2>9. Outdated' => \E x \in Threads : WillUpdate(x)'
    BY <2>4, <2>5, <2>6 DEF Chased
  <2>10. Unrevived' => \E x \in Threads : WillRevive(x)'
    BY <2>4, <2>5, <2>6 DEF Chased
  <2> QED
    BY <2>7, <2>8, <2>9, <2>10 DEF Chased
<1>9. CASE SyncLeaves(y)
  <2>1. /\ Decides(y) /\ Verdict(y) = "leave" /\ UNCHANGED noteVars
        /\ ~Trouble' => sn[y].status \notin {"billing", "billed"}
    BY <1>9 DEF SyncLeaves, Trouble
  <2>2. /\ \A f \in Forms : ~WillCancelManual(y, f)
        /\ ~Trouble' => /\ ~WillCancel(y)
                        /\ ~(WillUpdate(y) /\ Outdated)
                        /\ ~WillRevive(y)
    BY <2>1, ChaserActs
  <2> QED
    BY <1>2, <2>1, <2>2
<1>10. CASE SyncRaced(y)
    BY <1>10 DEF SyncRaced, Pursued, Trouble
<1>11. CASE SyncPrint(y)
  <2>1. UNCHANGED noteVars /\ spc[y] \in {"withdraw", "requeue"}
    BY <1>11 DEF SyncPrint
  <2> QED
    BY <1>2, <2>1, IdleChasesNothing DEF Reading, Underway
(* It writes, on readings that are still true: the automatic note is then  *)
(* as the order has it, and the others chase what they chased.             *)
<1>12. ASSUME NEW v \in {"revive", "cancel", "update"}, SyncWrites(y, v),
              \A f \in Forms : nstatus'[f] = nstatus[f],
              ~Trouble' => /\ ~Uncancelled(AutoNote)' /\ ~Outdated' /\ ~Unrevived'
       PROVE  Pursued'
  <2> SUFFICES ASSUME ~Trouble' PROVE Chased'
    BY DEF Pursued
  <2>1. Chased /\ \A f \in Forms : ~WillCancelManual(y, f)
    BY <1>0, <1>12, ChaserActs DEF Pursued, SyncWrites
  <2>2. \A f \in Forms : Uncancelled(f)' => Uncancelled(f)
    BY <1>0, <1>12 DEF Uncancelled
  <2>3. \A f \in Forms : Uncancelled(f)' => \E x \in Threads : WillCancelManual(x, f)'
    BY <1>1, <2>1, <2>2, StandingChases DEF Chased
  <2> QED
    BY <1>12, <2>3 DEF Chased
<1>13. ASSUME NEW v \in {"revive", "cancel", "update"}, SyncWrites(y, v), ~Trouble'
       PROVE  /\ so[y].cancelled <=> ostatus = "cancelled"
              /\ so[y].cart = cart /\ so[y].cart \in Carts
              /\ sn[y].edited <=> AutoNote \in edited
              /\ Verdict(y) = v /\ nstatus[AutoNote] = sn[y].status
              /\ nstatus[AutoNote] \in {"open", "cancelled"}
  <2>1. so[y] \in OrderRow /\ sn[y] \in NoteRow
    OBVIOUS
  <2>2. ~Stale(y) /\ Verdict(y) = v /\ Unmoved(y)
    BY <1>13 DEF SyncWrites, Flag, Trouble
  <2> QED
    BY <2>1, <2>2 DEF Stale, Unmoved, Verdict, Revivable, OrderRow, NoteRow
<1>14. CASE SyncRevives(y)
  <2>1. /\ SyncWrites(y, "revive") /\ nstatus' = [nstatus EXCEPT ![AutoNote] = "open"]
        /\ UNCHANGED edited
    BY <1>14 DEF SyncRevives
  <2>2. ASSUME ~Trouble' PROVE ~Uncancelled(AutoNote)' /\ ~Outdated' /\ ~Unrevived'
    <3>1. Verdict(y) = "revive" => Untouchable(y)
      BY DEF Verdict
    <3> QED
      BY <1>0, <1>13, <2>1, <2>2, <3>1, AutoIsDoc
         DEF Untouchable, Uncancelled, Outdated, Unrevived
  <2> QED
    BY <1>12, <2>1, <2>2, NotesAssumption DEF Docs
<1>15. CASE SyncCancels(y)
  <2>1. /\ SyncWrites(y, "cancel") /\ nstatus' = [nstatus EXCEPT ![AutoNote] = "cancelled"]
    BY <1>15 DEF SyncCancels
  <2>2. ASSUME ~Trouble' PROVE ~Uncancelled(AutoNote)' /\ ~Outdated' /\ ~Unrevived'
    <3>1. Verdict(y) = "cancel" => Empty(y)
      BY DEF Verdict
    <3> QED
      BY <1>0, <1>13, <2>1, <2>2, <3>1, AutoIsDoc
         DEF Empty, Uncancelled, Outdated, Unrevived
  <2> QED
    BY <1>12, <2>1, <2>2, NotesAssumption DEF Docs
<1>16. CASE SyncUpdates(y)
  <2>1. /\ SyncWrites(y, "update")
        /\ nstatus' = IF Revivable(y) THEN [nstatus EXCEPT ![AutoNote] = "open"] ELSE nstatus
        /\ content' = [content EXCEPT ![AutoNote] = so[y].cart]
    BY <1>16 DEF SyncUpdates
  <2>2. ASSUME ~Trouble' PROVE ~Uncancelled(AutoNote)' /\ ~Outdated' /\ ~Unrevived'
    <3>1. Verdict(y) = "update" => ~Empty(y) /\ (sn[y].status = "open" \/ Revivable(y))
      BY DEF Verdict
    <3>2. nstatus'[AutoNote] = "open" /\ content'[AutoNote] = cart /\ ~so[y].cancelled
      BY <1>13, <2>1, <2>2, <3>1, AutoIsDoc DEF Empty
    <3> QED
      BY <1>0, <1>13, <2>1, <2>2, <3>2 DEF Uncancelled, Outdated, Unrevived
  <2> QED
    BY <1>12, <2>1, <2>2, NotesAssumption DEF Docs
<1> QED
    BY <1>3, <1>4, <1>5, <1>6, <1>7, <1>8, <1>9, <1>10, <1>11, <1>14, <1>15, <1>16
       DEF SyncStep

LEMMA NextPursued == IInv /\ Papers /\ Pursued /\ [Next]_vars => Pursued'
<1> SUFFICES ASSUME IInv, Papers, Pursued, [Next]_vars PROVE Pursued'
    OBVIOUS
<1>1. SyncShape /\ GoneHasNone
    BY SyncShaped DEF Papers
<1>2. CASE UNCHANGED vars
    BY <1>2, NothingFallsBehind DEF vars, orderVars, noteVars, syncVars, Standing,
       Trouble, Uncancelled, Outdated, Unrevived
<1> QED
    BY <1>1, <1>2, OrderPursued, CreatePursued, FormPursued, ClerkPursued, NotePursued,
       SyncPursued DEF Next

LEMMA PursuedAlways == Spec => []Pursued
BY PursuedInit, NextPursued, PapersAlways, InductiveInvariant, PTL DEF Spec

LEMMA QuietChasesNothing ==
    ASSUME Quiet, Pursued, ~overtaken, ~missed
    PROVE  /\ \A f \in Forms : ~Uncancelled(f)
           /\ ~Uncancelled(AutoNote) /\ ~Outdated /\ ~Unrevived
<1>1. \A y \in Threads : spc[y] \notin Reading \cup {"note"}
    BY DEF Quiet, Reading, Underway
<1> QED
    BY <1>1, IdleChasesNothing DEF Pursued, Chased, Trouble

(* Once everything has settled, an open automatic note that nobody edited  *)
(* says what the order says, and one that a synchronisation cancelled      *)
(* belongs to an order with nothing to charge (models/Order.js:430): every *)
(* change of the order has a synchronisation behind it that reads after    *)
(* the change, unless one acted on an older reading or met a note that the *)
(* month close held.                                                       *)
THEOREM NotesKeepUp == Spec => []FollowsOrder
<1>1. Pursued => FollowsOrder
    BY QuietChasesNothing DEF FollowsOrder, Outdated, Unrevived
<1> QED
    BY <1>1, PursuedAlways, PTL

(* Once everything has settled, no note of a cancelled or deleted order    *)
(* waits for the month close (deliveryNotes.js:306).                       *)
THEOREM CancelledStaysUncharged == Spec => []CancelledIsNotCharged
<1>1. Pursued /\ Papers => CancelledIsNotCharged
  <2> SUFFICES ASSUME Pursued, Papers, Quiet, ~overtaken, ~missed,
                      ostatus \in {"cancelled", "gone"}, NEW d \in Docs
               PROVE  nstatus[d] # "open"
    BY DEF CancelledIsNotCharged
  <2>1. CASE ostatus = "gone"
    BY <2>1 DEF Papers, GoneHasNone
  <2>2. CASE ostatus = "cancelled"
    BY <2>2, QuietChasesNothing DEF Uncancelled, Docs
  <2> QED
    BY <2>1, <2>2
<1> QED
    BY <1>1, PursuedAlways, PapersAlways, PTL
=============================================================================
