-------------------------- MODULE CreditNotesProofs --------------------------
(***************************************************************************)
(* Proofs about CreditNotes, for every set of credit notes, invoices and   *)
(* calls, every amount and every combination of faults.                    *)
(***************************************************************************)
EXTENDS CreditNotes, TLAPS, FiniteSetTheorems

(* The notes that no logged failure has hit.                               *)
Sound == Credits \ incident

Early == {"idle", "check", "claim", "setAside"}

Marked == {"billed", "netted"}

(* Which steps of a call can have notes in hand.                           *)
Phases ==
    \A x \in Calls :
        /\ group[x] # {} => pc[x] \in {"mark", "reopen"}
        /\ hand[x] # {} => pc[x] \in {"setAside", "issue", "mark", "record", "reopen"}
        /\ hand[x] \cap group[x] = {}
        /\ pc[x] = "idle" => \A c \in Credits : holder[c] # x
        /\ x \in Issues => \A c, e \in hand[x] : c = e
        /\ x \in Issues /\ pc[x] # "issue" => hand[x] = {}
        /\ pc[x] = "record" => x \notin Closes

(* A call issues at most one document per part.                            *)
Fresh ==
    \A x \in Calls, k \in Parts : given[<<x, k>>] # {} =>
        pc[x] \notin Early /\ OfPart(hand[x], k) = {}

(* A note in the hands of a call was created, and carries its token.       *)
InHand ==
    \A x \in Calls :
        /\ \A c \in hand[x] \cup group[x] : cpc[c] = "done"
        /\ \A c \in (hand[x] \cup group[x]) \cap Sound : holder[c] = x
        /\ pc[x] = "mark" => group[x] \subseteq given[current[x]]

HeldIsBilling == \A c \in Credits : status[c] = "billing" <=> holder[c] # None

Creating == \A c \in Credits : cpc[c] # "done" => status[c] = "absent"

(* A claimed note is given back by no document, except the one its call    *)
(* has issued and not yet marked.                                          *)
Claimed ==
    \A c \in Sound : holder[c] \in Calls => \A d \in DocNums : c \in given[d] =>
        /\ c \in group[holder[c]]
        /\ pc[holder[c]] = "mark"
        /\ d = current[holder[c]]

(* An unclaimed one is given back by the document it names, or by none.    *)
Unclaimed ==
    \A c \in Sound : holder[c] = None =>
        /\ status[c] \in Marked => docNum[c] \in DocNums /\ c \in given[docNum[c]]
        /\ \A d \in DocNums : c \in given[d] => status[c] \in Marked /\ docNum[c] = d

StaleIsDead ==
    \A c \in stale : status[c] = "billing" /\ (c \in Sound => ~Live(holder[c]))

(* What a call marks or enters in the balance has a number, and a full     *)
(* credit has its invoice.                                                 *)
Numbered ==
    /\ \A x \in Calls : pc[x] \in {"mark", "record"} => current[x] \in DocNums
    /\ \A v \in Voids : VoidLive(v) => vdoc[v] \in Invoices

IInv ==
    /\ TypeOK
    /\ Numbered
    /\ Phases
    /\ Fresh
    /\ InHand
    /\ HeldIsBilling
    /\ Creating
    /\ Claimed
    /\ Unclaimed
    /\ StaleIsDead

-----------------------------------------------------------------------------
(* Type correctness.                                                       *)

LEMMA InitType == Init => TypeOK /\ Numbered
BY CallsAssumption, CreditsAssumption
   DEF Init, TypeOK, Numbered, VoidLive, Statuses, CreateSteps, CallSteps, VoidSteps

LEMMA NextType == TypeOK /\ Numbered /\ [Next]_vars => TypeOK'
<1> SUFFICES ASSUME TypeOK, Numbered, [Next]_vars PROVE TypeOK'
    OBVIOUS
<1> USE DEF TypeOK, Statuses, CreateSteps, CallSteps, VoidSteps, noteVars,
            callVars, voidVars, Goto, SetStatus, DropClaims, AfterGroup
<1>1. ASSUME NEW c \in Credits, Create(c) PROVE TypeOK'
  <2>1. CASE CreateLookup(c)
    BY <2>1 DEF CreateLookup
  <2>2. CASE CreateCheck(c)
    BY <2>2 DEF CreateCheck
  <2>3. CASE CreateInsert(c)
    <3>1. Original[c] \in Invoices \cup {None}
      BY CreditsAssumption
    <3>2. /\ status' \in [Credits -> Statuses]
          /\ original' \in [Credits -> Invoices \cup {None}]
          /\ cpc' \in [Credits -> CreateSteps]
      BY <2>3, <3>1 DEF CreateInsert
    <3> QED
      BY <2>3, <3>2 DEF CreateInsert
  <2> QED
    BY <1>1, <2>1, <2>2, <2>3 DEF Create
<1>2. ASSUME NEW c \in Credits, Cancel(c) \/ ClaimAges(c) PROVE TypeOK'
    BY <1>2 DEF Cancel, ClaimAges
<1>3. ASSUME NEW x \in Calls, CallStart(x) PROVE TypeOK'
  <2>1. ASSUME NEW c \in Credits, NEW i \in Invoices \cup {None}, IssueRead(x, c, i)
        PROVE  TypeOK'
    BY <2>1 DEF IssueRead
  <2>2. ASSUME NEW C \in SUBSET Credits, BatchRead(x, C) \/ CloseRead(x, C)
        PROVE  TypeOK'
    BY <2>2 DEF BatchRead, CloseRead
  <2> QED
    BY <1>3, <2>1, <2>2 DEF CallStart
<1>4. ASSUME NEW x \in Calls, CallStep(x) PROVE TypeOK'
  <2>1. CASE IssueCheck(x) \/ BatchCheck(x)
    BY <2>1 DEF IssueCheck, BatchCheck
  <2>2. ASSUME NEW c \in Credits, IssueClaim(x, c) \/ ClaimOne(x, c) PROVE TypeOK'
    <3>1. CASE IssueClaim(x, c)
      BY <3>1, SMTT(30) DEF IssueClaim
    <3>2. CASE ClaimOne(x, c)
      BY <3>2 DEF ClaimOne
    <3> QED
      BY <2>2, <3>1, <3>2
  <2>3. CASE ReadClaimed(x)
    BY <2>3 DEF ReadClaimed
  <2>4. ASSUME NEW left \in SUBSET Credits, CloseSetAside(x, left) PROVE TypeOK'
    BY <2>4 DEF CloseSetAside
  <2>5. ASSUME NEW k \in Parts, Issue(x, k) \/ IssueRejected(x, k) \/ IssueLost(x, k)
        PROVE  TypeOK'
    <3>1. OfPart(hand[x], k) \in SUBSET Credits /\ <<x, k>> \in DocNums
      BY DEF OfPart, DocNums
    <3>2. CASE Issue(x, k)
      BY <3>1, <3>2 DEF Issue, NextPart
    <3>3. CASE IssueRejected(x, k)
      BY <3>1, <3>3 DEF IssueRejected, NextPart
    <3>4. CASE IssueLost(x, k)
      BY <3>1, <3>4 DEF IssueLost, NextPart
    <3> QED
      BY <2>5, <3>2, <3>3, <3>4
  <2>6. CASE Reopen(x)
    BY <2>6 DEF Reopen
  <2>7. ASSUME NEW freed \in SUBSET Credits, ReopenFails(x, freed) PROVE TypeOK'
    BY <2>7 DEF ReopenFails
  <2>8. CASE Mark(x)
    BY <2>8 DEF Mark, MarkAs
  <2>9. ASSUME NEW written \in SUBSET Credits, MarkFails(x, written) PROVE TypeOK'
    BY <2>9 DEF MarkFails, MarkAs
  <2>10. CASE Record(x)
    BY <2>10 DEF Record, Numbered
  <2>11. CASE RecordFails(x) \/ Finish(x) \/ Abort(x)
    BY <2>11 DEF RecordFails, Finish, Abort
  <2> QED
    BY <1>4, <2>1, <2>2, <2>3, <2>4, <2>5, <2>6, <2>7, <2>8, <2>9, <2>10, <2>11
       DEF CallStep
<1>5. ASSUME NEW v \in Voids, VoidStep(v) PROVE TypeOK'
  <2>1. ASSUME NEW i \in Invoices, VoidRead(v, i) PROVE TypeOK'
    BY <2>1 DEF VoidRead
  <2>2. CASE VoidCheck(v)
    BY <2>2 DEF VoidCheck
  <2>3. CASE VoidIssue(v)
    <3>1. vdoc[v] \in Invoices
      BY <2>3 DEF VoidIssue, Numbered, VoidLive
    <3> QED
      BY <2>3, <3>1 DEF VoidIssue
  <2>4. CASE VoidWrite(v)
    BY <2>4 DEF VoidWrite
  <2> QED
    BY <1>5, <2>1, <2>2, <2>3, <2>4 DEF VoidStep
<1>6. CASE ReleaseStuckClaims
    BY <1>6 DEF ReleaseStuckClaims
<1>7. CASE Crash
    BY <1>7 DEF Crash
<1>8. CASE UNCHANGED vars
    BY <1>8 DEF vars
<1> QED
    BY <1>1, <1>2, <1>3, <1>4, <1>5, <1>6, <1>7, <1>8 DEF Next

LEMMA NextNumbered == TypeOK /\ Numbered /\ [Next]_vars => Numbered'
<1> SUFFICES ASSUME TypeOK, Numbered, [Next]_vars PROVE Numbered'
    OBVIOUS
<1> USE DEF Numbered, TypeOK, VoidLive, noteVars, callVars, voidVars, Goto, AfterGroup
<1>1. ASSUME NEW c \in Credits, Create(c) \/ Cancel(c) \/ ClaimAges(c)
      PROVE  Numbered'
    BY <1>1 DEF Create, CreateLookup, CreateCheck, CreateInsert, Cancel, ClaimAges
<1>2. ASSUME NEW x \in Calls, CallStart(x) PROVE Numbered'
    BY <1>2 DEF CallStart, IssueRead, BatchRead, CloseRead
<1>3. ASSUME NEW x \in Calls, CallStep(x) PROVE Numbered'
  <2>1. CASE IssueCheck(x) \/ BatchCheck(x)
    BY <2>1 DEF IssueCheck, BatchCheck
  <2>2. ASSUME NEW c \in Credits, IssueClaim(x, c) \/ ClaimOne(x, c) PROVE Numbered'
    BY <2>2 DEF IssueClaim, ClaimOne
  <2>3. CASE ReadClaimed(x)
    BY <2>3 DEF ReadClaimed
  <2>4. ASSUME NEW left \in SUBSET Credits, CloseSetAside(x, left) PROVE Numbered'
    BY <2>4 DEF CloseSetAside
  <2>5. ASSUME NEW k \in Parts, Issue(x, k) \/ IssueRejected(x, k) \/ IssueLost(x, k)
        PROVE  Numbered'
    BY <2>5 DEF Issue, IssueRejected, IssueLost, NextPart, DocNums
  <2>6. ASSUME NEW freed \in SUBSET Credits, Reopen(x) \/ ReopenFails(x, freed)
        PROVE  Numbered'
    BY <2>6 DEF Reopen, ReopenFails
  <2>7. ASSUME NEW written \in SUBSET Credits, Mark(x) \/ MarkFails(x, written)
        PROVE  Numbered'
    BY <2>7 DEF Mark, MarkFails
  <2>8. CASE Record(x) \/ RecordFails(x) \/ Finish(x) \/ Abort(x)
    BY <2>8 DEF Record, RecordFails, Finish, Abort
  <2>9. CASE Reopen(x)
    BY <2>9 DEF Reopen
  <2>10. CASE Mark(x)
    BY <2>10 DEF Mark
  <2> QED
    BY <1>3, <2>1, <2>2, <2>3, <2>4, <2>5, <2>6, <2>7, <2>8, <2>9, <2>10 DEF CallStep
<1>4. ASSUME NEW v \in Voids, VoidStep(v) PROVE Numbered'
    BY <1>4 DEF VoidStep, VoidRead, VoidCheck, VoidIssue, VoidWrite
<1>5. CASE ReleaseStuckClaims
    BY <1>5 DEF ReleaseStuckClaims
<1>6. CASE Crash
    BY <1>6 DEF Crash, Live
<1>7. CASE UNCHANGED vars
    BY <1>7 DEF vars
<1> QED
    BY <1>1, <1>2, <1>3, <1>4, <1>5, <1>6, <1>7 DEF Next

(* Every variable stays in its declared range.                             *)
THEOREM TypeCorrect == Spec => []TypeOK
<1>1. Init => TypeOK /\ Numbered
    BY InitType
<1>2. (TypeOK /\ Numbered) /\ [Next]_vars => (TypeOK /\ Numbered)'
    BY NextType, NextNumbered
<1> QED
    BY <1>1, <1>2, PTL DEF Spec

-----------------------------------------------------------------------------
(* What the invariant says of a note that is about to change hands.        *)

(* A claimed note whose call has not issued it.                            *)
LEMMA HeldIsNotGiven ==
    ASSUME IInv, NEW c \in Sound, holder[c] \in Calls,
           c \notin group[holder[c]] \/ pc[holder[c]] # "mark",
           NEW d \in DocNums
    PROVE  c \notin given[d]
BY DEF IInv, Claimed

(* A note that is neither claimed nor marked.                              *)
LEMMA OpenIsNotGiven ==
    ASSUME IInv, NEW c \in Sound, status[c] \notin {"billing", "billed", "netted"}
    PROVE  /\ holder[c] = None
           /\ \A d \in DocNums : c \notin given[d]
<1>1. c \in Credits
    BY DEF Sound
<1>2. holder[c] = None
    BY <1>1 DEF IInv, HeldIsBilling
<1> QED
    BY <1>2 DEF IInv, Unclaimed, Marked

(* A note of call x in the step before the document, or after a rejection. *)
LEMMA InHandIsNotGiven ==
    ASSUME IInv, NEW x \in Calls, NEW c \in (hand[x] \cup group[x]) \cap Sound,
           pc[x] # "mark", NEW d \in DocNums
    PROVE  holder[c] = x /\ c \notin given[d]
<1>1. holder[c] = x
    BY DEF IInv, InHand
<1> QED
    BY <1>1, HeldIsNotGiven

-----------------------------------------------------------------------------
(* Steps that change nothing but where a call stands.                      *)

LEMMA GotoKeeps ==
    ASSUME IInv, TypeOK', Numbered', NEW x \in Calls, NEW s \in CallSteps, Goto(x, s),
           UNCHANGED <<status, holder, stale, docNum, cpc, hand, group, current,
                       given, incident>>,
           pc[x] \notin {"mark", "done", "dead"}, s \notin {"mark", "idle"},
           s \in Early => pc[x] \in Early,
           Phases'
    PROVE  IInv'
<1> USE DEF Goto, Sound
<1>1. pc \in [Calls -> CallSteps]
    BY DEF IInv, TypeOK
<1>2. Fresh'
    BY <1>1 DEF IInv, Fresh, OfPart
<1>3. InHand'
    BY <1>1 DEF IInv, InHand
<1>4. HeldIsBilling' /\ Creating'
    BY DEF IInv, HeldIsBilling, Creating
<1>5. Claimed'
    BY <1>1 DEF IInv, Claimed
<1>6. Unclaimed'
    BY DEF IInv, Unclaimed
<1>7. StaleIsDead'
  <2> SUFFICES ASSUME NEW c \in stale, c \in Sound
               PROVE  ~Live(holder[c])'
    BY DEF IInv, StaleIsDead
  <2>1. c \in Credits /\ ~Live(holder[c])
    BY DEF IInv, StaleIsDead, TypeOK
  <2>2. holder[c] # x
    BY <2>1 DEF IInv, Phases, Live
  <2> QED
    BY <1>1, <2>1, <2>2 DEF Live
<1> QED
    BY <1>2, <1>3, <1>4, <1>5, <1>6, <1>7 DEF IInv

LEMMA StartKeeps ==
    ASSUME IInv, TypeOK', Numbered', NEW x \in Calls, CallStart(x)
    PROVE  IInv'
<1>1. /\ pc[x] = "idle"
      /\ Goto(x, "claim") \/ Goto(x, "check")
      /\ UNCHANGED <<status, holder, stale, docNum, cpc, hand, group, current,
                     given, incident>>
    BY DEF CallStart, IssueRead, BatchRead, CloseRead, noteVars
<1>2. pc \in [Calls -> CallSteps]
    BY DEF IInv, TypeOK
<1>3. Phases'
    BY <1>1, <1>2 DEF IInv, Phases, Goto
<1> QED
    BY <1>1, <1>3, GotoKeeps DEF CallSteps, Early

LEMMA CheckKeeps ==
    ASSUME IInv, TypeOK', Numbered', NEW x \in Calls,
           IssueCheck(x) \/ BatchCheck(x) \/ Abort(x)
    PROVE  IInv'
<1>1. /\ pc[x] \in {"check", "claim"}
      /\ Goto(x, "claim") \/ Goto(x, "done") \/ Goto(x, "dead")
      /\ UNCHANGED <<status, holder, stale, docNum, cpc, hand, group, current,
                     given, incident>>
    BY DEF IssueCheck, BatchCheck, Abort, noteVars
<1>2. pc \in [Calls -> CallSteps]
    BY DEF IInv, TypeOK
<1>3. Phases'
    BY <1>1, <1>2 DEF IInv, Phases, Goto
<1> QED
    BY <1>1, <1>3, GotoKeeps DEF CallSteps, Early

LEMMA RecordKeeps ==
    ASSUME IInv, TypeOK', Numbered', NEW x \in Calls,
           Record(x) \/ RecordFails(x) \/ Finish(x)
    PROVE  IInv'
<1>1. /\ pc[x] = "record" \/ (pc[x] = "issue" /\ hand[x] = {})
      /\ \/ pc[x] = "record" /\ x \in Batches /\ Goto(x, "issue")
         \/ x \notin Batches /\ Goto(x, "done")
         \/ hand[x] = {} /\ Goto(x, "done")
      /\ UNCHANGED <<status, holder, stale, docNum, cpc, hand, group, current,
                     given, incident>>
    BY DEF Record, RecordFails, Finish, noteVars, AfterGroup
<1>2. pc \in [Calls -> CallSteps]
    BY DEF IInv, TypeOK
<1>3. x \notin Batches => hand[x] = {}
    BY <1>1 DEF IInv, Phases, Calls
<1>4. Phases'
    BY <1>1, <1>2, <1>3 DEF IInv, Phases, Goto
<1> QED
    BY <1>1, <1>4, GotoKeeps DEF CallSteps, Early

-----------------------------------------------------------------------------
(* The claim.                                                              *)

(* What both claims do to the note they take; the hand of x may gain it.   *)
LEMMA TakingKeeps ==
    ASSUME IInv, TypeOK', Numbered', Phases',
           NEW x \in Calls, NEW c \in Credits, pc[x] = "claim", status[c] = "open",
           status' = [status EXCEPT ![c] = "billing"],
           holder' = [holder EXCEPT ![c] = x],
           stale' = stale \ {c},
           \/ UNCHANGED <<hand, pc>>
           \/ hand' = [hand EXCEPT ![x] = {c}] /\ Goto(x, "issue"),
           UNCHANGED <<docNum, cpc, group, current, given, incident>>
    PROVE  IInv'
<1> USE DEF Goto
<1>1. /\ pc \in [Calls -> CallSteps] /\ hand \in [Calls -> SUBSET Credits]
      /\ status \in [Credits -> Statuses]
      /\ holder \in [Credits -> Calls \cup {None}]
      /\ stale \subseteq Credits
    BY DEF IInv, TypeOK
<1>2. group[x] = {} /\ hand[x] = {}
    BY DEF IInv, Phases
<1>3. holder[c] = None
    BY DEF IInv, HeldIsBilling
<1>4. c \in Sound => \A d \in DocNums : c \notin given[d]
    BY OpenIsNotGiven
<1>5. Sound' = Sound
    BY DEF Sound
<1>6. cpc[c] = "done"
    BY DEF IInv, Creating
<1>7. \A y \in Calls : pc'[y] = "mark" <=> pc[y] = "mark"
    BY <1>1
<1>8. Fresh'
  <2> SUFFICES ASSUME NEW y \in Calls, NEW k \in Parts, given[<<y, k>>] # {}
               PROVE  pc'[y] \notin Early /\ OfPart(hand'[y], k) = {}
    BY DEF Fresh, OfPart
  <2>1. pc[y] \notin Early /\ OfPart(hand[y], k) = {}
    BY DEF IInv, Fresh
  <2>2. y # x
    BY <2>1 DEF Early
  <2> QED
    BY <1>1, <2>1, <2>2
<1>9. InHand'
  <2>1. \A y \in Calls : \A e \in hand'[y] \cup group'[y] :
            e \in hand[y] \cup group[y] \/ (y = x /\ e = c)
    BY <1>1
  <2>2. ASSUME NEW y \in Calls, NEW e \in (hand[y] \cup group[y]) \cap Sound
        PROVE  e # c /\ holder[e] = y
    BY <2>2, <1>3, CallsAssumption DEF IInv, InHand
  <2>3. \A y \in Calls : \A e \in (hand'[y] \cup group'[y]) \cap Sound : holder'[e] = y
    BY <1>1, <2>1, <2>2 DEF Sound
  <2>4. \A y \in Calls : \A e \in hand'[y] \cup group'[y] : cpc'[e] = "done"
    BY <2>1, <1>6 DEF IInv, InHand
  <2>5. \A y \in Calls : pc'[y] = "mark" => group'[y] \subseteq given'[current'[y]]
    BY <1>7 DEF IInv, InHand
  <2> QED
    BY <1>5, <2>3, <2>4, <2>5 DEF InHand
<1>10. HeldIsBilling' /\ Creating'
    BY <1>1, <1>6, CallsAssumption DEF IInv, HeldIsBilling, Creating
<1>11. Claimed'
  <2> SUFFICES ASSUME NEW e \in Sound, holder'[e] \in Calls, NEW d \in DocNums,
                      e \in given[d]
               PROVE  /\ e \in group[holder'[e]]
                      /\ pc'[holder'[e]] = "mark"
                      /\ d = current[holder'[e]]
    BY <1>5 DEF Claimed
  <2>1. e \in Credits /\ e # c
    BY <1>4 DEF Sound
  <2>2. holder'[e] = holder[e]
    BY <1>1, <2>1
  <2> QED
    BY <1>7, <2>2 DEF IInv, Claimed
<1>12. Unclaimed'
  <2> SUFFICES ASSUME NEW e \in Sound, holder'[e] = None
               PROVE  /\ status'[e] \in Marked =>
                            docNum[e] \in DocNums /\ e \in given[docNum[e]]
                      /\ \A d \in DocNums : e \in given[d] =>
                            status'[e] \in Marked /\ docNum[e] = d
    BY <1>5 DEF Unclaimed
  <2>1. e \in Credits /\ e # c
    BY <1>1, CallsAssumption DEF Sound
  <2>2. holder'[e] = holder[e] /\ status'[e] = status[e]
    BY <1>1, <2>1
  <2> QED
    BY <2>2 DEF IInv, Unclaimed
<1>13. StaleIsDead'
  <2> SUFFICES ASSUME NEW e \in stale, e # c
               PROVE  status'[e] = "billing" /\ (e \in Sound => ~Live(holder[e])')
    BY <1>5 DEF StaleIsDead, Live
  <2>1. e \in Credits /\ status[e] = "billing" /\ (e \in Sound => ~Live(holder[e]))
    BY <1>1 DEF IInv, StaleIsDead
  <2>2. status'[e] = status[e] /\ holder'[e] = holder[e]
    BY <1>1, <2>1
  <2>3. Live(holder[e])' => Live(holder[e])
    BY <1>1, <2>2 DEF Live
  <2> QED
    BY <2>1, <2>2, <2>3
<1> QED
    BY <1>8, <1>9, <1>10, <1>11, <1>12, <1>13 DEF IInv

LEMMA ClaimKeeps ==
    ASSUME IInv, TypeOK', Numbered', NEW x \in Calls, NEW c \in Credits,
           IssueClaim(x, c) \/ ClaimOne(x, c)
    PROVE  IInv'
<1> USE DEF Goto
<1>1. /\ pc \in [Calls -> CallSteps] /\ hand \in [Calls -> SUBSET Credits]
      /\ holder \in [Credits -> Calls \cup {None}]
      /\ pc[x] = "claim" /\ hand[x] = {} /\ group[x] = {}
    BY DEF IInv, TypeOK, IssueClaim, ClaimOne, Phases
<1>2. CASE IssueClaim(x, c) /\ status[c] = "open"
  <2>1. Phases'
    BY <1>1, <1>2 DEF IInv, Phases, IssueClaim, Calls
  <2> QED
    BY <1>1, <1>2, <2>1, TakingKeeps DEF IssueClaim
<1>3. CASE IssueClaim(x, c) /\ status[c] # "open"
  <2>1. Phases'
    BY <1>1, <1>3 DEF IInv, Phases, IssueClaim, noteVars
  <2> QED
    BY <1>1, <1>3, <2>1, GotoKeeps DEF IssueClaim, CallSteps, Early
<1>4. CASE ClaimOne(x, c) /\ status[c] = "open"
  <2>1. Phases'
    BY <1>1, <1>4 DEF IInv, Phases, ClaimOne
  <2> QED
    BY <1>1, <1>4, <2>1, TakingKeeps DEF ClaimOne
<1>5. CASE ClaimOne(x, c) /\ status[c] # "open"
  <2>1. Goto(x, "claim")
    BY <1>1, <1>5 DEF ClaimOne
  <2>2. Phases'
    BY <1>1, <1>5 DEF IInv, Phases, ClaimOne
  <2> QED
    BY <1>1, <1>5, <2>1, <2>2, GotoKeeps DEF ClaimOne, CallSteps, Early
<1> QED
    BY <1>2, <1>3, <1>4, <1>5

(* A call takes in hand the notes that carry its token.                    *)
LEMMA ReadClaimedKeeps ==
    ASSUME IInv, TypeOK', Numbered', NEW x \in Calls, ReadClaimed(x)
    PROVE  IInv'
<1> USE DEF ReadClaimed, Goto, noteVars
<1> DEFINE found == {c \in Credits : holder[c] = x}
<1>1. /\ pc \in [Calls -> CallSteps] /\ hand \in [Calls -> SUBSET Credits]
      /\ pc[x] = "claim" /\ group[x] = {}
      /\ hand' = [hand EXCEPT ![x] = found]
      /\ pc'[x] # "mark" /\ (pc'[x] = "done" <=> found = {})
      /\ \A y \in Calls \ {x} : pc'[y] = pc[y] /\ hand'[y] = hand[y]
    BY DEF IInv, TypeOK, Phases
<1>2. Sound' = Sound
    BY DEF Sound
<1>3. Phases'
    BY <1>1 DEF IInv, Phases
<1>4. Fresh'
    BY <1>1 DEF IInv, Fresh, OfPart, Early
<1>5. InHand'
  <2>1. \A c \in found : cpc[c] = "done"
    BY CallsAssumption DEF IInv, HeldIsBilling, Creating
  <2> QED
    BY <1>1, <1>2, <2>1 DEF IInv, InHand
<1>6. HeldIsBilling' /\ Creating'
    BY DEF IInv, HeldIsBilling, Creating
<1>7. Claimed'
    BY <1>1, <1>2 DEF IInv, Claimed
<1>8. Unclaimed'
    BY <1>2 DEF IInv, Unclaimed
<1>9. StaleIsDead'
    BY <1>1, <1>2 DEF IInv, StaleIsDead, Live
<1> QED
    BY <1>3, <1>4, <1>5, <1>6, <1>7, <1>8, <1>9 DEF IInv

-----------------------------------------------------------------------------
(* Reopening.                                                              *)

(* A step that opens the notes F: no document gives back the sound ones    *)
(* among them, and nobody has these in hand afterwards.                    *)
LEMMA OpeningKeeps ==
    ASSUME IInv, TypeOK', Numbered', Phases', NEW F \in SUBSET Credits,
           SetStatus(F, "open"), DropClaims(F),
           UNCHANGED <<docNum, cpc, given, current, incident>>,
           \A y \in Calls :
              /\ hand'[y] \subseteq hand[y] /\ group'[y] \subseteq group[y]
              /\ \/ pc'[y] = pc[y] /\ group'[y] = group[y]
                 \/ /\ pc[y] \notin {"mark", "idle", "done", "dead"} /\ pc'[y] # "mark"
                    /\ pc'[y] \in Early => pc[y] \in Early,
           \A c \in F :
              /\ cpc[c] = "done"
              /\ c \in Sound => \A y \in Calls : c \notin hand'[y] \cup group'[y]
              /\ c \in Sound => \A d \in DocNums : c \notin given[d]
    PROVE  IInv'
<1> USE DEF SetStatus, DropClaims
<1>1. Sound' = Sound
    BY DEF Sound
<1>2. \A c \in Credits : IF c \in F THEN status'[c] = "open" /\ holder'[c] = None
                         ELSE status'[c] = status[c] /\ holder'[c] = holder[c]
    OBVIOUS
<1>3. Fresh'
  <2> SUFFICES ASSUME NEW y \in Calls, NEW k \in Parts, given[<<y, k>>] # {}
               PROVE  pc'[y] \notin Early /\ OfPart(hand'[y], k) = {}
    BY DEF Fresh, OfPart
  <2>1. pc[y] \notin Early /\ OfPart(hand[y], k) = {}
    BY DEF IInv, Fresh
  <2> QED
    BY <2>1 DEF OfPart
<1>4. InHand'
  <2>1. ASSUME NEW y \in Calls, NEW c \in hand'[y] \cup group'[y]
        PROVE  cpc'[c] = "done" /\ (c \in Sound => holder'[c] = y)
    <3>1. c \in hand[y] \cup group[y] /\ (c \in Sound => c \notin F)
      BY <2>1
    <3>2. cpc[c] = "done" /\ (c \in Sound => holder[c] = y)
      BY <3>1 DEF IInv, InHand
    <3> QED
      BY <1>2, <3>1, <3>2 DEF Sound
  <2>2. ASSUME NEW y \in Calls, pc'[y] = "mark"
        PROVE  group'[y] \subseteq given'[current'[y]]
    BY <2>2 DEF IInv, InHand
  <2> QED
    BY <1>1, <2>1, <2>2 DEF InHand
<1>5. HeldIsBilling'
    BY <1>2 DEF IInv, HeldIsBilling
<1>6. Creating'
    BY <1>2 DEF IInv, Creating
<1>7. Claimed'
  <2> SUFFICES ASSUME NEW c \in Sound, holder'[c] \in Calls, NEW d \in DocNums,
                      c \in given[d]
               PROVE  /\ c \in group'[holder'[c]]
                      /\ pc'[holder'[c]] = "mark"
                      /\ d = current[holder'[c]]
    BY <1>1 DEF Claimed
  <2>1. c \notin F /\ holder'[c] = holder[c]
    BY <1>2 DEF Sound
  <2>2. /\ c \in group[holder[c]]
        /\ pc[holder[c]] = "mark"
        /\ d = current[holder[c]]
    BY <2>1 DEF IInv, Claimed
  <2> QED
    BY <2>1, <2>2
<1>8. Unclaimed'
  <2> SUFFICES ASSUME NEW c \in Sound, holder'[c] = None
               PROVE  /\ status'[c] \in Marked =>
                            docNum[c] \in DocNums /\ c \in given[docNum[c]]
                      /\ \A d \in DocNums : c \in given[d] =>
                            status'[c] \in Marked /\ docNum[c] = d
    BY <1>1 DEF Unclaimed
  <2>1. c \in Credits
    BY DEF Sound
  <2>2. CASE c \in F
    BY <1>2, <2>1, <2>2 DEF Marked
  <2>3. CASE c \notin F
    BY <1>2, <2>1, <2>3 DEF IInv, Unclaimed
  <2> QED
    BY <2>2, <2>3
<1>9. StaleIsDead'
  <2> SUFFICES ASSUME NEW c \in stale, c \notin F
               PROVE  status'[c] = "billing" /\ (c \in Sound => ~Live(holder[c])')
    BY <1>1 DEF StaleIsDead, Live
  <2>1. c \in Credits /\ status[c] = "billing" /\ (c \in Sound => ~Live(holder[c]))
    BY DEF IInv, StaleIsDead, TypeOK
  <2>2. status'[c] = status[c] /\ holder'[c] = holder[c]
    BY <1>2, <2>1
  <2>3. Live(holder[c])' => Live(holder[c])
    BY <2>2 DEF Live
  <2> QED
    BY <2>1, <2>2, <2>3
<1> QED
    BY <1>3, <1>4, <1>5, <1>6, <1>7, <1>8, <1>9 DEF IInv

(* Call x puts back notes F that it holds.                                 *)
LEMMA GivingUpKeeps ==
    ASSUME IInv, TypeOK', Numbered', NEW x \in Calls, NEW F \in SUBSET Credits,
           NEW D \in SUBSET hand[x], NEW s \in {"issue", "done", "dead"},
           pc[x] \in {"reopen", "setAside"},
           SetStatus(F, "open"), DropClaims(F),
           UNCHANGED <<docNum, cpc, given, current, incident>>,
           Goto(x, s),
           hand' = [hand EXCEPT ![x] = D],
           group' = [group EXCEPT ![x] = {}],
           D \cap F = {},
           s = "issue" \/ D = {},
           \A c \in F : \/ c \in hand[x] \cup group[x]
                        \/ holder[c] = x /\ status[c] = "billing"
    PROVE  IInv'
<1> USE DEF Goto
<1>1. /\ pc \in [Calls -> CallSteps] /\ hand \in [Calls -> SUBSET Credits]
      /\ group \in [Calls -> SUBSET Credits]
    BY DEF IInv, TypeOK
<1>2. \A c \in F : c \in Sound => holder[c] = x
    BY DEF IInv, InHand
<1>3. \A c \in F : cpc[c] = "done"
    BY DEF IInv, InHand, Creating
<1>4. \A c \in F : c \in Sound => \A d \in DocNums : c \notin given[d]
    BY <1>2, HeldIsNotGiven
<1>5. x \in Issues => D = {}
    BY DEF IInv, Phases
<1>6. Phases'
  <2>1. \A y \in Calls : pc[y] = "idle" => \A c \in Credits : holder'[c] # y
    BY CallsAssumption DEF IInv, Phases, DropClaims
  <2>2. \A y \in Calls \ {x} : pc'[y] = pc[y] /\ hand'[y] = hand[y] /\ group'[y] = group[y]
    BY <1>1
  <2>3. pc'[x] = s /\ hand'[x] = D /\ group'[x] = {}
    BY <1>1
  <2> QED
    BY <1>5, <2>1, <2>2, <2>3 DEF IInv, Phases
<1>7. ASSUME NEW c \in F, c \in Sound, NEW y \in Calls
      PROVE  c \notin hand'[y] \cup group'[y]
  <2>1. CASE y = x
    BY <1>1, <2>1
  <2>2. CASE y # x
    BY <1>1, <1>2, <1>7, <2>2 DEF IInv, InHand
  <2> QED
    BY <2>1, <2>2
<1>8. \A y \in Calls :
          /\ hand'[y] \subseteq hand[y] /\ group'[y] \subseteq group[y]
          /\ \/ pc'[y] = pc[y] /\ group'[y] = group[y]
             \/ /\ pc[y] \notin {"mark", "idle", "done", "dead"} /\ pc'[y] # "mark"
                /\ pc'[y] \in Early => pc[y] \in Early
    BY <1>1 DEF Early
<1> QED
    BY <1>3, <1>4, <1>6, <1>7, <1>8, OpeningKeeps

LEMMA ReopenKeeps ==
    ASSUME IInv, TypeOK', Numbered', NEW x \in Calls, Reopen(x)
    PROVE  IInv'
<1>1. /\ pc[x] = "reopen" /\ hand \in [Calls -> SUBSET Credits]
      /\ hand[x] \cap group[x] = {} /\ (x \in Issues => hand[x] = {})
      /\ ToReopen(x) \in SUBSET Credits
      /\ SetStatus(ToReopen(x), "open") /\ DropClaims(ToReopen(x))
      /\ UNCHANGED <<docNum, cpc, given, current, incident>>
      /\ group' = [group EXCEPT ![x] = {}]
    BY DEF IInv, TypeOK, Phases, ToReopen, Reopen
<1>2. CASE x \in Closes
  <2>1. /\ Goto(x, "done")
        /\ hand' = [hand EXCEPT ![x] = {}]
        /\ \A c \in ToReopen(x) : holder[c] = x /\ status[c] = "billing"
    BY <1>2, CallsAssumption DEF AfterGroup, ToReopen, Reopen
  <2> HIDE DEF ToReopen
  <2>2. {} \in SUBSET hand[x] /\ {} \cap ToReopen(x) = {}
    OBVIOUS
  <2> QED
    BY <1>1, <2>1, <2>2, GivingUpKeeps
<1>3. CASE x \notin Closes
  <2>1. ToReopen(x) \subseteq group[x]
    BY <1>3 DEF ToReopen
  <2>2. hand' = [hand EXCEPT ![x] = hand[x]]
    BY <1>1, <1>3 DEF Reopen
  <2>3. hand[x] \in SUBSET hand[x] /\ hand[x] \cap ToReopen(x) = {}
    BY <1>1, <2>1
  <2>4. CASE x \in Batches
    <3>1. Goto(x, "issue")
      BY <2>4 DEF Reopen, AfterGroup
    <3> QED
      BY <1>1, <2>1, <2>2, <2>3, <3>1, GivingUpKeeps
  <2>5. CASE x \in Issues
    <3>1. Goto(x, "done") /\ hand[x] = {}
      BY <1>1, <2>5, CallsAssumption DEF Reopen, AfterGroup
    <3> QED
      BY <1>1, <2>1, <2>2, <2>3, <3>1, GivingUpKeeps
  <2> QED
    BY <1>3, <2>4, <2>5 DEF Calls
<1> QED
    BY <1>2, <1>3

LEMMA SetAsideKeeps ==
    ASSUME IInv, TypeOK', Numbered', NEW x \in Calls, NEW left \in SUBSET Credits,
           CloseSetAside(x, left)
    PROVE  IInv'
<1>1. group \in [Calls -> SUBSET Credits] /\ hand \in [Calls -> SUBSET Credits]
    BY DEF IInv, TypeOK
<1>2. /\ pc[x] = "setAside" /\ left \subseteq hand[x] /\ Goto(x, "issue")
      /\ SetStatus(left, "open") /\ DropClaims(left)
      /\ UNCHANGED <<docNum, cpc, given, current, incident>>
      /\ hand' = [hand EXCEPT ![x] = hand[x] \ left] /\ UNCHANGED group
    BY DEF CloseSetAside
<1>3. group' = [group EXCEPT ![x] = {}]
    BY <1>1, <1>2 DEF IInv, Phases
<1>4. hand[x] \ left \in SUBSET hand[x] /\ (hand[x] \ left) \cap left = {}
    OBVIOUS
<1> QED
    BY <1>2, <1>3, <1>4, GivingUpKeeps

LEMMA ReopenFailsKeeps ==
    ASSUME IInv, TypeOK', Numbered', NEW x \in Calls, NEW freed \in SUBSET Credits,
           ReopenFails(x, freed)
    PROVE  IInv'
<1>1. /\ pc[x] \in {"reopen", "setAside"} /\ Goto(x, "dead")
      /\ SetStatus(freed, "open") /\ DropClaims(freed)
      /\ UNCHANGED <<docNum, cpc, given, current, incident>>
      /\ hand' = [hand EXCEPT ![x] = {}]
      /\ group' = [group EXCEPT ![x] = {}]
    BY DEF ReopenFails
<1>2. \A c \in freed : \/ c \in hand[x] \cup group[x]
                       \/ holder[c] = x /\ status[c] = "billing"
    BY DEF ReopenFails, ToReopen
<1>3. {} \in SUBSET hand[x] /\ {} \cap freed = {}
    OBVIOUS
<1> QED
    BY <1>1, <1>2, <1>3, GivingUpKeeps

(* The hourly release: what it opens belongs to nobody alive, except notes *)
(* that the age of their claim has already made unsound.                   *)
LEMMA ReleaseStuckKeeps ==
    ASSUME IInv, TypeOK', Numbered', ReleaseStuckClaims
    PROVE  IInv'
<1> DEFINE stuck == {c \in stale : status[c] = "billing"}
<1>1. /\ SetStatus(stuck, "open") /\ DropClaims(stuck)
      /\ UNCHANGED <<docNum, cpc, given, current, incident, pc, hand, group>>
    BY DEF ReleaseStuckClaims, callVars
<1>2. stuck \in SUBSET Credits
    BY DEF IInv, TypeOK
<1>3. \A c \in stuck : cpc[c] = "done" /\ holder[c] \in Calls
    BY <1>2 DEF IInv, Creating, HeldIsBilling, TypeOK
<1>4. \A c \in stuck : c \in Sound => ~Live(holder[c])
    BY DEF IInv, StaleIsDead
<1>5. \A y \in Calls : ~Live(y) => hand[y] \cup group[y] = {}
    BY DEF IInv, Phases, Live
<1>6. ASSUME NEW c \in stuck, c \in Sound
      PROVE  /\ \A y \in Calls : c \notin hand[y] \cup group[y]
             /\ \A d \in DocNums : c \notin given[d]
  <2>1. ASSUME NEW y \in Calls PROVE c \notin hand[y] \cup group[y]
    BY <1>4, <1>5, <1>6 DEF IInv, InHand
  <2> QED
    BY <1>3, <1>6, <2>1, HeldIsNotGiven
<1>7. Phases'
    BY <1>1, CallsAssumption DEF IInv, Phases, DropClaims
<1> HIDE DEF stuck
<1> QED
    BY <1>1, <1>2, <1>3, <1>6, <1>7, OpeningKeeps

-----------------------------------------------------------------------------
(* The document.                                                           *)

(* Call x goes to step s with the notes of part k; iCount has opened a     *)
(* document for them (G = those notes) or not (G = {}).  A document whose  *)
(* reply is lost makes its notes unsound.                                  *)
LEMMA NextPartKeeps ==
    ASSUME IInv, TypeOK', Numbered', NEW x \in Calls, NEW k \in Parts,
           NextPart(x, k), NEW s \in {"mark", "reopen"}, Goto(x, s),
           \/ /\ given' = [given EXCEPT ![<<x, k>>] = OfPart(hand[x], k)]
              /\ \/ s = "mark" /\ UNCHANGED incident
                 \/ s = "reopen" /\ incident' = incident \cup OfPart(hand[x], k)
           \/ s = "reopen" /\ UNCHANGED <<given, incident>>,
           UNCHANGED <<status, holder, stale, docNum, cpc>>
    PROVE  IInv'
<1> USE DEF Goto
<1> DEFINE part == OfPart(hand[x], k)
<1>1. /\ pc \in [Calls -> CallSteps] /\ hand \in [Calls -> SUBSET Credits]
      /\ group \in [Calls -> SUBSET Credits]
      /\ given \in [DocNums -> SUBSET Credits]
      /\ current \in [Calls -> DocNums \cup {None}]
      /\ <<x, k>> \in DocNums /\ part \subseteq hand[x] /\ part # {}
    BY DEF IInv, TypeOK, DocNums, OfPart, NextPart
<1>2. /\ pc[x] = "issue" /\ group[x] = {}
      /\ pc'[x] = s /\ group'[x] = part /\ hand'[x] = hand[x] \ part
      /\ current'[x] = <<x, k>>
      /\ \A y \in Calls \ {x} : /\ pc'[y] = pc[y] /\ group'[y] = group[y]
                                /\ hand'[y] = hand[y] /\ current'[y] = current[y]
    BY <1>1 DEF NextPart, IInv, Phases
<1>3. /\ given[<<x, k>>] = {}
      /\ \A d \in DocNums \ {<<x, k>>} : given'[d] = given[d]
      /\ given'[<<x, k>>] \in {{}, part}
      /\ s = "mark" => given'[<<x, k>>] = part
    BY <1>1 DEF IInv, Fresh
<1>4. Sound' \subseteq Sound /\ (Sound' = Sound \/ Sound' = Sound \ part)
    BY DEF Sound
<1>5. ASSUME NEW c \in part \cap Sound
      PROVE  holder[c] = x /\ \A d \in DocNums : c \notin given[d]
    BY <1>1, <1>2, InHandIsNotGiven
<1> HIDE DEF part
<1>6. Phases'
  <2>1. x \in Issues => hand'[x] = {}
    BY <1>1, <1>2 DEF IInv, Phases
  <2> QED
    BY <1>1, <1>2, <2>1 DEF IInv, Phases
<1>7. Fresh'
  <2> SUFFICES ASSUME NEW y \in Calls, NEW j \in Parts, given'[<<y, j>>] # {}
               PROVE  pc'[y] \notin Early /\ OfPart(hand'[y], j) = {}
    BY DEF Fresh, OfPart
  <2>1. CASE <<y, j>> = <<x, k>>
    <3>1. y = x /\ j = k
      BY <2>1
    <3>2. OfPart(hand[x] \ part, k) = {}
      BY DEF OfPart, part
    <3> QED
      BY <1>2, <3>1, <3>2 DEF Early
  <2>2. CASE <<y, j>> # <<x, k>>
    <3>1. given[<<y, j>>] # {}
      BY <1>3, <2>2 DEF DocNums
    <3>2. pc[y] \notin Early /\ OfPart(hand[y], j) = {}
      BY <3>1 DEF IInv, Fresh
    <3>3. hand'[y] \subseteq hand[y] /\ (pc'[y] \notin Early)
      BY <1>2, <3>2 DEF Early
    <3> QED
      BY <3>2, <3>3 DEF OfPart
  <2> QED
    BY <2>1, <2>2
<1>8. InHand'
  <2>1. \A y \in Calls : hand'[y] \cup group'[y] \subseteq hand[y] \cup group[y]
    BY <1>1, <1>2
  <2>2. ASSUME NEW y \in Calls, pc'[y] = "mark"
        PROVE  group'[y] \subseteq given'[current'[y]]
    <3>1. CASE y = x
      BY <1>2, <1>3, <2>2, <3>1
    <3>2. CASE y # x
      <4>1. group[y] \subseteq given[current[y]] /\ current[y] \in DocNums
        BY <1>2, <2>2, <3>2 DEF IInv, InHand, Numbered
      <4>2. given[current[y]] \subseteq given'[current[y]]
        BY <1>3, <4>1
      <4> QED
        BY <1>2, <3>2, <4>1, <4>2
    <3> QED
      BY <3>1, <3>2
  <2> QED
    BY <1>4, <2>1, <2>2 DEF IInv, InHand
<1>9. HeldIsBilling' /\ Creating'
    BY DEF IInv, HeldIsBilling, Creating
<1>10. ASSUME NEW c \in Sound', NEW d \in DocNums, c \in given'[d], c \notin part
       PROVE  c \in Sound /\ c \in given[d] /\ d # <<x, k>>
    BY <1>3, <1>4, <1>10
<1>11. Claimed'
  <2> SUFFICES ASSUME NEW c \in Sound', holder[c] \in Calls, NEW d \in DocNums,
                      c \in given'[d]
               PROVE  /\ c \in group'[holder[c]]
                      /\ pc'[holder[c]] = "mark"
                      /\ d = current'[holder[c]]
    BY DEF Claimed
  <2>1. CASE c \in part
    <3>1. c \in Sound /\ holder[c] = x
      BY <1>4, <1>5, <2>1
    <3>2. d = <<x, k>>
      BY <1>3, <1>5, <2>1, <3>1
    <3>3. s = "mark"
      BY <1>5, <2>1, <3>1 DEF Sound, part
    <3> QED
      BY <1>2, <2>1, <3>1, <3>2, <3>3
  <2>2. CASE c \notin part
    <3>1. c \in Sound /\ c \in given[d]
      BY <1>10, <2>2
    <3>2. /\ c \in group[holder[c]]
          /\ pc[holder[c]] = "mark"
          /\ d = current[holder[c]]
      BY <3>1 DEF IInv, Claimed
    <3> QED
      BY <1>2, <3>2
  <2> QED
    BY <2>1, <2>2
<1>12. Unclaimed'
  <2> SUFFICES ASSUME NEW c \in Sound', holder[c] = None
               PROVE  /\ status[c] \in Marked =>
                            docNum[c] \in DocNums /\ c \in given'[docNum[c]]
                      /\ \A d \in DocNums : c \in given'[d] =>
                            status[c] \in Marked /\ docNum[c] = d
    BY DEF Unclaimed
  <2>1. c \notin part
    BY <1>4, <1>5, CallsAssumption
  <2>2. c \in Sound
    BY <1>4
  <2>3. status[c] \in Marked => docNum[c] \in DocNums /\ c \in given[docNum[c]]
    BY <2>2 DEF IInv, Unclaimed
  <2>4. \A d \in DocNums : c \in given[d] => c \in given'[d]
    BY <1>3
  <2> QED
    BY <1>10, <2>1, <2>2, <2>3, <2>4 DEF IInv, Unclaimed
<1>13. StaleIsDead'
  <2> SUFFICES ASSUME NEW c \in stale
               PROVE  status[c] = "billing" /\ (c \in Sound' => ~Live(holder[c])')
    BY DEF StaleIsDead, Live
  <2>1. status[c] = "billing" /\ (c \in Sound => ~Live(holder[c]))
    BY DEF IInv, StaleIsDead
  <2>2. Live(holder[c])' => Live(holder[c])
    BY <1>2 DEF Live
  <2> QED
    BY <1>4, <2>1, <2>2
<1> QED
    BY <1>6, <1>7, <1>8, <1>9, <1>11, <1>12, <1>13 DEF IInv

LEMMA IssueKeeps ==
    ASSUME IInv, TypeOK', Numbered', NEW x \in Calls, NEW k \in Parts,
           Issue(x, k) \/ IssueRejected(x, k) \/ IssueLost(x, k)
    PROVE  IInv'
<1>1. CASE Issue(x, k)
    BY <1>1, NextPartKeeps DEF Issue, noteVars
<1>2. CASE IssueRejected(x, k)
    BY <1>2, NextPartKeeps DEF IssueRejected, noteVars
<1>3. CASE IssueLost(x, k)
    BY <1>3, NextPartKeeps DEF IssueLost, noteVars
<1> QED
    BY <1>1, <1>2, <1>3

-----------------------------------------------------------------------------
(* The mark.                                                               *)

(* The update has written the notes D of the group; those of the group it  *)
(* has not written become unsound.                                         *)
LEMMA MarkingKeeps ==
    ASSUME IInv, TypeOK', Numbered', NEW x \in Calls, NEW D \in SUBSET ToMark(x),
           pc[x] = "mark", MarkAs(x, D),
           incident' = incident \cup (group[x] \ D),
           group' = [group EXCEPT ![x] = {}],
           NEW s \in {"record", "issue", "done", "reopen"}, Goto(x, s),
           s = "record" => x \notin Closes,
           s = "done" => x \in Issues,
           UNCHANGED <<cpc, hand, current, given>>
    PROVE  IInv'
<1> USE DEF Goto
<1>1. /\ pc \in [Calls -> CallSteps] /\ hand \in [Calls -> SUBSET Credits]
      /\ group \in [Calls -> SUBSET Credits]
      /\ stale \subseteq Credits
      /\ D \subseteq group[x] /\ D \subseteq Credits
    BY DEF IInv, TypeOK, ToMark
<1>2. /\ pc'[x] = s /\ group'[x] = {}
      /\ \A y \in Calls \ {x} : pc'[y] = pc[y] /\ group'[y] = group[y]
    BY <1>1
<1>3. \A c \in Credits :
          IF c \in D
          THEN status'[c] \in Marked /\ docNum'[c] = current[x] /\ holder'[c] = None
          ELSE status'[c] = status[c] /\ docNum'[c] = docNum[c] /\ holder'[c] = holder[c]
    BY DEF MarkAs, SetStatus, DropClaims, Marked
<1>4. Sound' = Sound \ (group[x] \ D)
    BY DEF Sound
<1>5. current[x] \in DocNums /\ group[x] \subseteq given[current[x]]
    BY DEF IInv, Numbered, InHand
<1>6. \A c \in D \cap Sound : holder[c] = x
    BY <1>1 DEF IInv, InHand
<1>7. Phases'
  <2>1. x \in Issues => hand[x] = {}
    BY DEF IInv, Phases
  <2>2. ASSUME NEW y \in Calls, pc'[y] = "idle", NEW c \in Credits
        PROVE  holder'[c] # y
    <3>1. pc[y] = "idle" /\ holder[c] # y
      BY <1>2, <2>2 DEF IInv, Phases
    <3> QED
      BY <1>3, <3>1, CallsAssumption
  <2> QED
    BY <1>1, <1>2, <2>1, <2>2 DEF IInv, Phases
<1>8. Fresh'
    BY <1>2 DEF IInv, Fresh, Early, OfPart
<1>9. InHand'
  <2>1. ASSUME NEW y \in Calls, NEW c \in hand'[y] \cup group'[y]
        PROVE  cpc'[c] = "done" /\ (c \in Sound' => holder'[c] = y)
    <3>1. c \in hand[y] \cup group[y] /\ c \in Credits
      BY <1>1, <1>2, <2>1
    <3>2. cpc[c] = "done" /\ (c \in Sound => holder[c] = y)
      BY <3>1 DEF IInv, InHand
    <3>3. c \in Sound => c \notin D
      <4>1. CASE y = x
        BY <1>1, <1>2, <2>1, <4>1 DEF IInv, Phases
      <4>2. CASE y # x
        BY <1>6, <3>2, <4>2
      <4> QED
        BY <4>1, <4>2
    <3> QED
      BY <1>3, <1>4, <3>1, <3>2, <3>3
  <2>2. ASSUME NEW y \in Calls, pc'[y] = "mark"
        PROVE  group'[y] \subseteq given'[current'[y]]
    BY <1>2, <2>2 DEF IInv, InHand
  <2> QED
    BY <2>1, <2>2 DEF InHand
<1>10. HeldIsBilling'
    BY <1>3 DEF IInv, HeldIsBilling, Marked
<1>11. Creating'
  <2>1. \A c \in D : cpc[c] = "done"
    BY <1>1 DEF IInv, InHand
  <2> QED
    BY <1>3, <2>1 DEF IInv, Creating
<1>12. Claimed'
  <2> SUFFICES ASSUME NEW c \in Sound', holder'[c] \in Calls, NEW d \in DocNums,
                      c \in given[d]
               PROVE  /\ c \in group'[holder'[c]]
                      /\ pc'[holder'[c]] = "mark"
                      /\ d = current[holder'[c]]
    BY DEF Claimed
  <2>1. c \in Sound /\ c \in Credits /\ c \notin D /\ holder'[c] = holder[c]
    BY <1>3, <1>4, CallsAssumption DEF Sound
  <2>2. c \notin group[x]
    BY <1>4, <2>1
  <2>3. /\ c \in group[holder[c]]
        /\ pc[holder[c]] = "mark"
        /\ d = current[holder[c]]
    BY <2>1 DEF IInv, Claimed
  <2> QED
    BY <1>2, <2>1, <2>2, <2>3
<1>13. Unclaimed'
  <2> SUFFICES ASSUME NEW c \in Sound', holder'[c] = None
               PROVE  /\ status'[c] \in Marked =>
                            docNum'[c] \in DocNums /\ c \in given[docNum'[c]]
                      /\ \A d \in DocNums : c \in given[d] =>
                            status'[c] \in Marked /\ docNum'[c] = d
    BY DEF Unclaimed
  <2>1. c \in Sound /\ c \in Credits
    BY <1>4 DEF Sound
  <2>2. CASE c \in D
    <3>1. holder[c] = x
      BY <1>6, <2>1, <2>2
    <3>2. \A d \in DocNums : c \in given[d] => d = current[x]
      BY <2>1, <3>1 DEF IInv, Claimed
    <3> QED
      BY <1>1, <1>3, <1>5, <2>1, <2>2, <3>2
  <2>3. CASE c \notin D
    BY <1>3, <2>1, <2>3 DEF IInv, Unclaimed
  <2> QED
    BY <2>2, <2>3
<1>14. StaleIsDead'
  <2> SUFFICES ASSUME NEW c \in stale, c \notin D
               PROVE  status'[c] = "billing" /\ (c \in Sound' => ~Live(holder[c])')
    BY DEF StaleIsDead, MarkAs, DropClaims, Live
  <2>1. c \in Credits /\ status[c] = "billing" /\ (c \in Sound => ~Live(holder[c]))
    BY <1>1 DEF IInv, StaleIsDead
  <2>2. status'[c] = status[c] /\ holder'[c] = holder[c]
    BY <1>3, <2>1
  <2>3. Live(holder[c])' => Live(holder[c])
    BY <1>2, <2>2 DEF Live
  <2> QED
    BY <1>4, <2>1, <2>2, <2>3
<1> QED
    BY <1>7, <1>8, <1>9, <1>10, <1>11, <1>12, <1>13, <1>14 DEF IInv

LEMMA MarkKeeps ==
    ASSUME IInv, TypeOK', Numbered', NEW x \in Calls, Mark(x)
    PROVE  IInv'
<1>1. /\ pc[x] = "mark" /\ MarkAs(x, ToMark(x))
      /\ UNCHANGED incident
      /\ group' = [group EXCEPT ![x] = {}]
      /\ UNCHANGED <<cpc, hand, current, given>>
      /\ x \in Closes => Goto(x, "issue")
      /\ x \notin Closes => Goto(x, "record")
    BY DEF Mark
<1>2. group[x] \ ToMark(x) \subseteq incident
    BY DEF ToMark, IInv, InHand, Sound, TypeOK
<1>3. incident' = incident \cup (group[x] \ ToMark(x))
    BY <1>1, <1>2
<1>4. ToMark(x) \in SUBSET ToMark(x)
    OBVIOUS
<1> HIDE DEF ToMark
<1>5. CASE x \in Closes
    BY <1>1, <1>3, <1>4, <1>5, MarkingKeeps
<1>6. CASE x \notin Closes
    BY <1>1, <1>3, <1>4, <1>6, MarkingKeeps
<1> QED
    BY <1>5, <1>6

LEMMA MarkFailsKeeps ==
    ASSUME IInv, TypeOK', Numbered', NEW x \in Calls, NEW written \in SUBSET Credits,
           MarkFails(x, written)
    PROVE  IInv'
<1>1. /\ pc[x] = "mark" /\ written \in SUBSET ToMark(x) /\ MarkAs(x, written)
      /\ incident' = incident \cup (group[x] \ written)
      /\ group' = [group EXCEPT ![x] = {}]
      /\ UNCHANGED <<cpc, hand, current, given>>
      /\ x \in Closes => Goto(x, "reopen")
      /\ x \in Batches => Goto(x, "issue")
      /\ x \in Issues => Goto(x, "done")
    BY CallsAssumption DEF MarkFails, AfterGroup
<1>2. CASE x \in Closes
    BY <1>1, <1>2, MarkingKeeps
<1>3. CASE x \in Batches
    BY <1>1, <1>3, MarkingKeeps
<1>4. CASE x \in Issues
    BY <1>1, <1>4, MarkingKeeps
<1> QED
    BY <1>2, <1>3, <1>4 DEF Calls

-----------------------------------------------------------------------------
(* The other steps.                                                        *)

(* A crash between the document and the mark makes the notes unsound; any  *)
(* other claim is left on notes that no document gives back.               *)
LEMMA CrashKeeps ==
    ASSUME IInv, TypeOK', Numbered', Crash
    PROVE  IInv'
<1> DEFINE hit == UNION {group[x] : x \in {y \in Calls : pc[y] = "mark"}}
<1>1. /\ \A y \in Calls : /\ hand'[y] = {} /\ group'[y] = {}
                          /\ ~Live(y)' /\ pc'[y] # "mark"
                          /\ pc'[y] \in Early \cup {"record"} => pc'[y] = pc[y]
      /\ \A c \in Credits : cpc'[c] = cpc[c] \/ cpc'[c] = "done"
      /\ incident' = incident \cup hit
      /\ UNCHANGED <<status, holder, stale, docNum, current, given>>
    BY DEF Crash, Live, Early, noteVars, IInv, TypeOK
<1>2. Sound' = Sound \ hit
    BY <1>1 DEF Sound
<1>3. ASSUME NEW c \in Sound', holder[c] \in Calls, NEW d \in DocNums
      PROVE  c \notin given[d]
  <2>1. c \in Sound /\ c \notin hit
    BY <1>2
  <2>2. c \notin group[holder[c]] \/ pc[holder[c]] # "mark"
    BY <1>3, <2>1
  <2> QED
    BY <1>3, <2>1, <2>2, HeldIsNotGiven
<1> HIDE DEF hit
<1>4. Phases'
  <2>1. \A y \in Calls : pc'[y] = "idle" => pc[y] = "idle"
    BY <1>1 DEF Early
  <2>2. \A y \in Calls : pc'[y] = "record" => pc[y] = "record"
    BY <1>1
  <2> QED
    BY <1>1, <2>1, <2>2 DEF IInv, Phases
<1>5. Fresh'
    BY <1>1 DEF IInv, Fresh, OfPart
<1>6. InHand'
    BY <1>1 DEF InHand
<1>7. HeldIsBilling' /\ Creating'
    BY <1>1 DEF IInv, HeldIsBilling, Creating
<1>8. Claimed'
    BY <1>1, <1>3 DEF Claimed
<1>9. Unclaimed'
    BY <1>1, <1>2 DEF IInv, Unclaimed
<1>10. StaleIsDead'
  <2>1. \A c \in stale : holder[c] \in Calls \cup {None}
    BY DEF IInv, TypeOK
  <2>2. \A c \in stale : ~Live(holder[c])'
    BY <1>1, <2>1 DEF Live
  <2> QED
    BY <1>1, <1>2, <2>2 DEF IInv, StaleIsDead
<1> QED
    BY <1>4, <1>5, <1>6, <1>7, <1>8, <1>9, <1>10 DEF IInv

(* A note that is neither claimed nor marked, and stays so.                *)
LEMMA RestatusKeeps ==
    ASSUME IInv, TypeOK', Numbered', NEW c \in Credits,
           status[c] \in {"absent", "open"}, NEW s \in {"open", "cancelled"},
           \/ status' = [status EXCEPT ![c] = s] /\ cpc' = [cpc EXCEPT ![c] = "done"]
           \/ status' = [status EXCEPT ![c] = s] /\ UNCHANGED cpc /\ cpc[c] = "done",
           UNCHANGED <<holder, stale, docNum, pc, hand, group, current, given,
                       incident>>
    PROVE  IInv'
<1>1. /\ status \in [Credits -> Statuses] /\ cpc \in [Credits -> CreateSteps]
      /\ stale \subseteq Credits
    BY DEF IInv, TypeOK
<1>2. /\ status'[c] \in {"open", "cancelled"} /\ cpc'[c] = "done"
      /\ \A e \in Credits \ {c} : status'[e] = status[e] /\ cpc'[e] = cpc[e]
    BY <1>1
<1>3. Sound' = Sound
    BY DEF Sound
<1>4. Phases' /\ Fresh'
    BY DEF IInv, Phases, Fresh, OfPart
<1>5. InHand'
  <2>1. \A y \in Calls : hand[y] \cup group[y] \subseteq Credits
    BY DEF IInv, TypeOK
  <2>2. \A e \in Credits : cpc[e] = "done" => cpc'[e] = "done"
    BY <1>2
  <2> QED
    BY <1>3, <2>1, <2>2 DEF IInv, InHand
<1>6. HeldIsBilling' /\ Creating'
    BY <1>2 DEF IInv, HeldIsBilling, Creating
<1>7. Claimed'
    BY <1>3 DEF IInv, Claimed
<1>8. Unclaimed'
  <2> SUFFICES ASSUME NEW e \in Sound, holder[e] = None
               PROVE  /\ status'[e] \in Marked =>
                            docNum[e] \in DocNums /\ e \in given[docNum[e]]
                      /\ \A d \in DocNums : e \in given[d] =>
                            status'[e] \in Marked /\ docNum[e] = d
    BY <1>3 DEF Unclaimed
  <2>1. CASE e = c
    <3>1. \A d \in DocNums : c \notin given[d]
      BY <2>1, OpenIsNotGiven
    <3> QED
      BY <1>2, <2>1, <3>1 DEF Marked
  <2>2. CASE e # c
    BY <1>2, <2>2 DEF IInv, Unclaimed, Sound
  <2> QED
    BY <2>1, <2>2
<1>9. StaleIsDead'
  <2>1. c \notin stale
    BY DEF IInv, StaleIsDead
  <2> QED
    BY <1>1, <1>2, <1>3, <2>1 DEF IInv, StaleIsDead, Live
<1> QED
    BY <1>4, <1>5, <1>6, <1>7, <1>8, <1>9 DEF IInv

(* Steps that change neither a note nor what is known of it.               *)
LEMMA SilentKeeps ==
    ASSUME IInv, TypeOK', Numbered',
           \A c \in Credits : cpc'[c] = cpc[c] \/ cpc[c] # "done",
           UNCHANGED <<status, holder, stale, docNum, pc, hand, group, current, given,
                       incident>>
    PROVE  IInv'
<1>1. Sound' = Sound
    BY DEF Sound
<1>2. Phases' /\ Fresh'
    BY DEF IInv, Phases, Fresh, OfPart
<1>3. InHand'
  <2>1. \A y \in Calls : hand[y] \cup group[y] \subseteq Credits
    BY DEF IInv, TypeOK
  <2> QED
    BY <1>1, <2>1 DEF IInv, InHand
<1>4. HeldIsBilling' /\ Creating'
    BY DEF IInv, HeldIsBilling, Creating
<1>5. Claimed' /\ Unclaimed'
    BY <1>1 DEF IInv, Claimed, Unclaimed
<1>6. StaleIsDead'
    BY <1>1 DEF IInv, StaleIsDead, Live
<1> QED
    BY <1>2, <1>3, <1>4, <1>5, <1>6 DEF IInv

LEMMA CreateKeeps ==
    ASSUME IInv, TypeOK', Numbered', NEW c \in Credits, Create(c) \/ Cancel(c)
    PROVE  IInv'
<1>1. cpc \in [Credits -> CreateSteps]
    BY DEF IInv, TypeOK
<1>2. CASE CreateLookup(c) \/ CreateCheck(c) \/ (CreateInsert(c) /\ SameForm(c) # {})
  <2>1. cpc' = [cpc EXCEPT ![c] = cpc'[c]] /\ cpc[c] # "done"
    BY <1>1, <1>2 DEF CreateLookup, CreateCheck, CreateInsert
  <2>2. UNCHANGED <<status, holder, stale, docNum, pc, hand, group, current, given,
                    incident>>
    BY <1>2 DEF CreateLookup, CreateCheck, CreateInsert, noteVars, callVars
  <2> QED
    BY <1>1, <2>1, <2>2, SilentKeeps
<1>3. CASE CreateInsert(c) /\ SameForm(c) = {}
  <2>1. status[c] = "absent"
    BY <1>3 DEF CreateInsert, IInv, Creating
  <2> QED
    BY <1>3, <2>1, RestatusKeeps DEF CreateInsert, callVars
<1>4. CASE Cancel(c)
  <2>1. cpc[c] = "done"
    BY <1>4 DEF Cancel, IInv, Creating
  <2> QED
    BY <1>4, <2>1, RestatusKeeps DEF Cancel, callVars
<1> QED
    BY <1>2, <1>3, <1>4 DEF Create

LEMMA ClaimAgesKeeps ==
    ASSUME IInv, TypeOK', Numbered', NEW c \in Credits, ClaimAges(c)
    PROVE  IInv'
<1>1. /\ UNCHANGED <<status, holder, docNum, cpc, pc, hand, group, current, given>>
      /\ status[c] = "billing" /\ stale' = stale \cup {c}
      /\ incident \subseteq incident'
      /\ c \notin incident' => ~Live(holder[c])
    BY DEF ClaimAges, callVars
<1>2. Sound' \subseteq Sound
    BY <1>1 DEF Sound
<1>3. Phases' /\ Fresh'
    BY <1>1 DEF IInv, Phases, Fresh, OfPart
<1>4. InHand'
    BY <1>1, <1>2 DEF IInv, InHand
<1>5. HeldIsBilling' /\ Creating'
    BY <1>1 DEF IInv, HeldIsBilling, Creating
<1>6. Claimed' /\ Unclaimed'
    BY <1>1, <1>2 DEF IInv, Claimed, Unclaimed
<1>7. StaleIsDead'
  <2>1. c \in Sound' => ~Live(holder[c])
    BY <1>1 DEF Sound
  <2> QED
    BY <1>1, <1>2, <2>1 DEF IInv, StaleIsDead, Live
<1> QED
    BY <1>3, <1>4, <1>5, <1>6, <1>7 DEF IInv

LEMMA VoidKeeps ==
    ASSUME IInv, TypeOK', Numbered', NEW v \in Voids, VoidStep(v)
    PROVE  IInv'
<1>1. UNCHANGED <<status, holder, stale, docNum, cpc, pc, hand, group, current,
                  given, incident>>
    BY DEF VoidStep, VoidRead, VoidCheck, VoidIssue, VoidWrite, noteVars, callVars
<1> QED
    BY <1>1, SilentKeeps

-----------------------------------------------------------------------------
LEMMA InitInv == Init => IInv
<1> SUFFICES ASSUME Init PROVE IInv
    OBVIOUS
<1>1. TypeOK /\ Numbered
    BY InitType
<1>2. Phases /\ Fresh /\ InHand
    BY CallsAssumption DEF Init, Phases, Fresh, InHand, DocNums, Calls
<1>3. HeldIsBilling /\ Creating /\ Claimed /\ Unclaimed /\ StaleIsDead
    BY CallsAssumption
       DEF Init, HeldIsBilling, Creating, Claimed, Unclaimed, StaleIsDead, Sound, Marked
<1> QED
    BY <1>1, <1>2, <1>3 DEF IInv

LEMMA NextInv == IInv /\ [Next]_vars => IInv'
<1> SUFFICES ASSUME IInv, [Next]_vars PROVE IInv'
    OBVIOUS
<1>1. TypeOK' /\ Numbered'
    BY NextType, NextNumbered DEF IInv
<1>2. ASSUME NEW c \in Credits, Create(c) \/ Cancel(c) \/ ClaimAges(c) PROVE IInv'
    BY <1>1, <1>2, CreateKeeps, ClaimAgesKeeps
<1>3. ASSUME NEW x \in Calls, CallStart(x) PROVE IInv'
    BY <1>1, <1>3, StartKeeps
<1>4. ASSUME NEW x \in Calls, CallStep(x) PROVE IInv'
  <2>1. CASE IssueCheck(x) \/ BatchCheck(x) \/ Abort(x)
    BY <1>1, <2>1, CheckKeeps
  <2>2. ASSUME NEW c \in Credits, IssueClaim(x, c) \/ ClaimOne(x, c) PROVE IInv'
    BY <1>1, <2>2, ClaimKeeps
  <2>3. CASE ReadClaimed(x)
    BY <1>1, <2>3, ReadClaimedKeeps
  <2>4. ASSUME NEW left \in SUBSET Credits, CloseSetAside(x, left) PROVE IInv'
    BY <1>1, <2>4, SetAsideKeeps
  <2>5. ASSUME NEW k \in Parts, Issue(x, k) \/ IssueRejected(x, k) \/ IssueLost(x, k)
        PROVE  IInv'
    BY <1>1, <2>5, IssueKeeps
  <2>6. CASE Reopen(x)
    BY <1>1, <2>6, ReopenKeeps
  <2>7. ASSUME NEW freed \in SUBSET Credits, ReopenFails(x, freed) PROVE IInv'
    BY <1>1, <2>7, ReopenFailsKeeps
  <2>8. CASE Mark(x)
    BY <1>1, <2>8, MarkKeeps
  <2>9. ASSUME NEW written \in SUBSET Credits, MarkFails(x, written) PROVE IInv'
    BY <1>1, <2>9, MarkFailsKeeps
  <2>10. CASE Record(x) \/ RecordFails(x) \/ Finish(x)
    BY <1>1, <2>10, RecordKeeps
  <2> QED
    BY <1>4, <2>1, <2>2, <2>3, <2>4, <2>5, <2>6, <2>7, <2>8, <2>9, <2>10 DEF CallStep
<1>5. ASSUME NEW v \in Voids, VoidStep(v) PROVE IInv'
    BY <1>1, <1>5, VoidKeeps
<1>6. CASE ReleaseStuckClaims
    BY <1>1, <1>6, ReleaseStuckKeeps
<1>7. CASE Crash
    BY <1>1, <1>7, CrashKeeps
<1>8. CASE UNCHANGED vars
    BY <1>1, <1>8, SilentKeeps DEF vars, noteVars, callVars
<1> QED
    BY <1>2, <1>3, <1>4, <1>5, <1>6, <1>7, <1>8 DEF Next

(* The inductive invariant holds in every reachable state.                 *)
THEOREM InductiveInvariant == Spec => []IInv
BY InitInv, NextInv, PTL DEF Spec

(* A credit note that no logged failure has hit is given back by one       *)
(* document at most, by whichever of the three kinds of call.              *)
THEOREM NoDoubleRefund == Spec => []GivenBackOnce
<1>1. IInv => GivenBackOnce
  <2> SUFFICES ASSUME IInv, NEW c \in Sound, NEW d \in DocNums, NEW e \in DocNums,
                      c \in given[d], c \in given[e]
               PROVE  d = e
    BY DEF GivenBackOnce, Sound
  <2>1. holder[c] \in Calls \cup {None}
    BY DEF IInv, TypeOK, Sound
  <2> QED
    BY <2>1 DEF IInv, Claimed, Unclaimed
<1> QED
    BY <1>1, InductiveInvariant, PTL

(* Outside logged failures a note is marked exactly when a document gives  *)
(* it back and its call has got to the marking, with that document's       *)
(* number.                                                                 *)
THEOREM MarksNameDocuments == Spec => []MarkedIffGiven
<1>1. IInv => MarkedIffGiven
  <2> SUFFICES ASSUME IInv, NEW c \in Sound
               PROVE  /\ status[c] \in {"billed", "netted"} =>
                            docNum[c] \in DocNums /\ c \in given[docNum[c]]
                      /\ \A d \in DocNums :
                            c \in given[d] /\ (\A x \in Calls : c \notin group[x]) =>
                               status[c] \in {"billed", "netted"} /\ docNum[c] = d
    BY DEF MarkedIffGiven, Sound
  <2>1. c \in Credits /\ holder[c] \in Calls \cup {None}
    BY DEF IInv, TypeOK, Sound
  <2>2. CASE holder[c] = None
    BY <2>2 DEF IInv, Unclaimed, Marked
  <2>3. CASE holder[c] \in Calls
    <3>1. status[c] = "billing"
      BY <2>1, <2>3, CallsAssumption DEF IInv, HeldIsBilling
    <3> QED
      BY <2>3, <3>1 DEF IInv, Claimed
  <2> QED
    BY <2>1, <2>2, <2>3
<1> QED
    BY <1>1, InductiveInvariant, PTL

-----------------------------------------------------------------------------
(* What holds when nothing overlaps.                                       *)

(* One thing is under way at a time: what the environment grants when it   *)
(* lets no calls overlap.                                                  *)
Alone ==
    /\ \A x, y \in Calls : Live(x) /\ Live(y) => x = y
    /\ \A x \in Calls, v \in Voids : ~(Live(x) /\ VoidLive(v))
    /\ \A v, w \in Voids : VoidLive(v) /\ VoidLive(w) => v = w

(* Only a credit invoice of one note is based on an invoice of its call;   *)
(* a document carries the name of the call that issued it; a batch lists   *)
(* notes that exist, and holds none before its checks.                     *)
Linking ==
    /\ \A x \in Calls : x \notin Issues => link[x] = None
    /\ \A x \in Calls : current[x] # None => current[x][1] = x
    /\ \A x \in Batches : \A c \in todo[x] : cpc[c] = "done"
    /\ \A x \in Calls : pc[x] = "check" => \A c \in Credits : holder[c] # x

(* The notes a call past its checks may still give back.                  *)
Ours(x) ==
    IF pc[x] = "claim" THEN todo[x] \cup {c \in Credits : holder[c] = x}
    ELSE hand[x] \cup group[x]

(* The invoices a call has checked are still active.                       *)
CheckedActive ==
    /\ \A x \in Issues :
          Live(x) /\ pc[x] # "check" => link[x] \in active \cup {None}
    /\ \A x \in Batches : Live(x) /\ pc[x] # "check" =>
          \A c \in Ours(x) : original[c] \in active \cup {None}

(* A credit invoice of one note that has been marked left on the note the  *)
(* invoice it is based on.                                                 *)
Based ==
    \A d \in DocNums : d[1] \in Issues /\ link[d[1]] # None =>
        \A c \in given[d] \cap Sound :
            c \in group[d[1]] \/ original[c] = link[d[1]]

(* From its check to its end a full credit is right: no credit invoice of  *)
(* a credit note stands against its invoice.                               *)
VoidTells ==
    \A v \in Voids : vpc[v] \in {"issue", "write"} =>
        \A d \in DocNums : d[1] \notin Closes =>
            GivenAgainst(d, vdoc[v]) \subseteq incident

AInv ==
    /\ Alone
    /\ Linking
    /\ CheckedActive
    /\ Based
    /\ VoidTells
    /\ FullOrPartial

-----------------------------------------------------------------------------
(* What a step can do to the calls under way.                              *)

LEMMA AloneKept ==
    ASSUME "overlap" \notin Faults, TypeOK, Alone, [Next]_vars
    PROVE  Alone'
<1> USE DEF noteVars, callVars, voidVars
<1>0. pc \in [Calls -> CallSteps] /\ vpc \in [Voids -> VoidSteps]
    BY DEF TypeOK
<1>1. ASSUME \A x \in Calls : Live(x)' => Live(x),
             \A v \in Voids : VoidLive(v)' => VoidLive(v)
      PROVE  Alone'
    BY <1>1 DEF Alone
<1>2. ASSUME NEW c \in Credits, Create(c) \/ Cancel(c) \/ ClaimAges(c) PROVE Alone'
  <2>1. UNCHANGED <<pc, vpc>>
    BY <1>2 DEF Create, CreateLookup, CreateCheck, CreateInsert, Cancel, ClaimAges
  <2> QED
    BY <1>1, <2>1 DEF Live, VoidLive
<1>3. ASSUME NEW x \in Calls, CallStart(x) PROVE Alone'
  <2>1. /\ MayStart /\ vpc' = vpc
        /\ \A y \in Calls \ {x} : pc'[y] = pc[y]
    BY <1>0, <1>3 DEF CallStart, IssueRead, BatchRead, CloseRead, Goto
  <2> QED
    BY <2>1 DEF MayStart, Alone, Live, VoidLive
<1>4. ASSUME NEW x \in Calls, CallStep(x) PROVE Alone'
  <2>1. /\ Live(x) /\ vpc' = vpc
        /\ \A y \in Calls \ {x} : pc'[y] = pc[y]
    <3>1. CASE \E c \in Credits : IssueClaim(x, c) \/ ClaimOne(x, c)
      BY <1>0, <3>1 DEF IssueClaim, ClaimOne, Goto, Live
    <3>2. CASE \E left \in SUBSET Credits :
                  CloseSetAside(x, left) \/ ReopenFails(x, left) \/ MarkFails(x, left)
      BY <1>0, <3>2 DEF CloseSetAside, ReopenFails, MarkFails, Goto, Live
    <3>3. CASE \E k \in Parts : Issue(x, k) \/ IssueRejected(x, k) \/ IssueLost(x, k)
      BY <1>0, <3>3 DEF Issue, IssueRejected, IssueLost, NextPart, Goto, Live
    <3>4. CASE IssueCheck(x) \/ BatchCheck(x) \/ ReadClaimed(x) \/ Reopen(x) \/ Mark(x)
      BY <1>0, <3>4 DEF IssueCheck, BatchCheck, ReadClaimed, Reopen, Mark, Goto, Live
    <3>5. CASE Record(x) \/ RecordFails(x) \/ Finish(x) \/ Abort(x)
      BY <1>0, <3>5 DEF Record, RecordFails, Finish, Abort, Goto, Live
    <3> QED
      BY <1>4, <3>1, <3>2, <3>3, <3>4, <3>5 DEF CallStep
  <2> QED
    BY <1>1, <2>1 DEF Live, VoidLive
<1>5. ASSUME NEW v \in Voids, VoidStep(v) PROVE Alone'
  <2>1. /\ MayStart \/ VoidLive(v)
        /\ pc' = pc /\ \A w \in Voids \ {v} : vpc'[w] = vpc[w]
    BY <1>0, <1>5 DEF VoidStep, VoidRead, VoidCheck, VoidIssue, VoidWrite, VoidLive
  <2>2. CASE VoidLive(v)
    BY <1>1, <2>1, <2>2 DEF Live, VoidLive
  <2>3. CASE MayStart
    BY <2>1, <2>3 DEF MayStart, Alone, Live, VoidLive
  <2> QED
    BY <2>1, <2>2, <2>3
<1>6. CASE ReleaseStuckClaims \/ UNCHANGED vars
    BY <1>1, <1>6 DEF ReleaseStuckClaims, vars, Live, VoidLive
<1>7. CASE Crash
    BY <1>1, <1>7 DEF Crash, Live, VoidLive
<1> QED
    BY <1>2, <1>3, <1>4, <1>5, <1>6, <1>7 DEF Next

LEMMA LinkingKept ==
    ASSUME IInv, Linking, [Next]_vars
    PROVE  Linking'
<1> USE DEF noteVars, callVars, voidVars
<1>0. /\ pc \in [Calls -> CallSteps] /\ cpc \in [Credits -> CreateSteps]
      /\ link \in [Calls -> Invoices \cup {None}]
      /\ todo \in [Calls -> SUBSET Credits]
      /\ current \in [Calls -> DocNums \cup {None}]
      /\ holder \in [Credits -> Calls \cup {None}]
    BY DEF IInv, TypeOK
<1>1. \A c \in Credits : status[c] = "open" => cpc[c] = "done"
    BY DEF IInv, Creating
<1>2. ASSUME UNCHANGED <<link, current>>,
             \A x \in Calls : todo'[x] \subseteq todo[x],
             \A c \in Credits : cpc[c] = "done" => cpc'[c] = "done",
             \A x \in Calls : pc'[x] = "check" => pc[x] = "check",
             \A x \in Calls : \A c \in Credits :
                 holder'[c] = x => holder[c] = x \/ pc'[x] # "check"
      PROVE  Linking'
    BY <1>0, <1>2 DEF Linking, Calls
<1>3. ASSUME NEW c \in Credits, Create(c) \/ Cancel(c) \/ ClaimAges(c) PROVE Linking'
    BY <1>0, <1>2, <1>3
       DEF Create, CreateLookup, CreateCheck, CreateInsert, Cancel, ClaimAges
<1>4. ASSUME NEW x \in Calls, CallStart(x) PROVE Linking'
  <2>1. \A c \in Credits : holder[c] # x
    BY <1>4 DEF CallStart, IssueRead, BatchRead, CloseRead, IInv, Phases
  <2>2. /\ UNCHANGED <<current, cpc, holder>>
        /\ \A y \in Calls \ {x} : /\ pc'[y] = pc[y] /\ todo'[y] = todo[y]
                                  /\ link'[y] = link[y]
    BY <1>0, <1>4 DEF CallStart, IssueRead, BatchRead, CloseRead, Goto
  <2>3. x \notin Issues => link' = link
    BY <1>4 DEF CallStart, BatchRead, CloseRead
  <2>4. x \in Batches => \A c \in todo'[x] : cpc[c] = "done"
    BY <1>0, <1>1, <1>4, CallsAssumption DEF CallStart, BatchRead, CloseRead
  <2> QED
    BY <2>1, <2>2, <2>3, <2>4 DEF Linking, Calls
<1>5. ASSUME NEW x \in Calls, CallStep(x) PROVE Linking'
  <2>1. CASE \E c \in Credits : IssueClaim(x, c) \/ ClaimOne(x, c)
    BY <1>0, <1>2, <2>1 DEF IssueClaim, ClaimOne, Goto
  <2>2. CASE \E left \in SUBSET Credits :
                CloseSetAside(x, left) \/ ReopenFails(x, left) \/ MarkFails(x, left)
    <3>1. /\ UNCHANGED <<link, current, todo, cpc>>
          /\ \A y \in Calls : pc'[y] = "check" => pc[y] = "check"
          /\ \A c \in Credits : holder'[c] \in {None, holder[c]}
      BY <1>0, <2>2
         DEF CloseSetAside, ReopenFails, MarkFails, MarkAs, DropClaims, Goto, AfterGroup
    <3> QED
      BY <1>2, <3>1, CallsAssumption
  <2>3. CASE \E k \in Parts : Issue(x, k) \/ IssueRejected(x, k) \/ IssueLost(x, k)
    <3>1. PICK k \in Parts : /\ current' = [current EXCEPT ![x] = <<x, k>>]
                             /\ Goto(x, "mark") \/ Goto(x, "reopen")
                             /\ UNCHANGED <<link, todo, cpc, holder>>
      BY <2>3 DEF Issue, IssueRejected, IssueLost, NextPart
    <3>2. \A y \in Calls : pc'[y] = "check" => pc[y] = "check"
      BY <1>0, <3>1 DEF Goto
    <3> QED
      BY <1>0, <3>1, <3>2 DEF Linking
  <2>4. CASE Reopen(x) \/ Mark(x)
    <3>1. /\ UNCHANGED <<link, current, todo, cpc>>
          /\ \A y \in Calls : pc'[y] = "check" => pc[y] = "check"
          /\ \A c \in Credits : holder'[c] \in {None, holder[c]}
      BY <1>0, <2>4 DEF Reopen, Mark, MarkAs, DropClaims, Goto, AfterGroup
    <3> QED
      BY <1>2, <3>1, CallsAssumption
  <2>5. CASE IssueCheck(x) \/ BatchCheck(x) \/ ReadClaimed(x)
    BY <1>0, <1>2, <2>5 DEF IssueCheck, BatchCheck, ReadClaimed, Goto
  <2>6. CASE Record(x) \/ RecordFails(x) \/ Finish(x) \/ Abort(x)
    BY <1>0, <1>2, <2>6 DEF Record, RecordFails, Finish, Abort, Goto, AfterGroup
  <2> QED
    BY <1>5, <2>1, <2>2, <2>3, <2>4, <2>5, <2>6 DEF CallStep
<1>6. ASSUME NEW v \in Voids, VoidStep(v) PROVE Linking'
    BY <1>2, <1>6 DEF VoidStep, VoidRead, VoidCheck, VoidIssue, VoidWrite
<1>7. CASE ReleaseStuckClaims
  <2>1. /\ UNCHANGED <<link, current, todo, cpc, pc>>
        /\ \A c \in Credits : holder'[c] \in {None, holder[c]}
    BY <1>0, <1>7 DEF ReleaseStuckClaims, DropClaims
  <2> QED
    BY <1>2, <2>1, CallsAssumption
<1>8. CASE Crash
    BY <1>0, <1>2, <1>8 DEF Crash
<1>9. CASE UNCHANGED vars
    BY <1>2, <1>9 DEF vars
<1> QED
    BY <1>3, <1>4, <1>5, <1>6, <1>7, <1>8, <1>9 DEF Next

(* The invoice named on a note changes when the note is inserted and when  *)
(* a credit invoice of one note is marked.                                 *)
LEMMA OriginalChanges ==
    ASSUME IInv, Linking, [Next]_vars, NEW c \in Credits, original'[c] # original[c]
    PROVE  \/ CreateInsert(c)
           \/ \E x \in Issues : /\ Mark(x) /\ c \in group[x] /\ link[x] # None
                                /\ original'[c] = link[x]
<1> USE DEF noteVars, callVars, voidVars
<1>0. original \in [Credits -> Invoices \cup {None}]
    BY DEF IInv, TypeOK
<1>1. ASSUME NEW e \in Credits, Create(e) \/ Cancel(e) \/ ClaimAges(e)
      PROVE  CreateInsert(c)
  <2>1. CreateInsert(e) /\ e = c
    BY <1>0, <1>1
       DEF Create, CreateLookup, CreateCheck, CreateInsert, Cancel, ClaimAges
  <2> QED
    BY <2>1
<1>2. ASSUME NEW x \in Calls, CallStart(x) PROVE FALSE
    BY <1>2 DEF CallStart, IssueRead, BatchRead, CloseRead
<1>3. ASSUME NEW x \in Calls, CallStep(x)
      PROVE  /\ x \in Issues /\ Mark(x) /\ c \in group[x] /\ link[x] # None
             /\ original'[c] = link[x]
  <2>1. ASSUME NEW D, MarkAs(x, D)
        PROVE  x \in Issues /\ c \in D /\ link[x] # None /\ original'[c] = link[x]
    BY <2>1 DEF MarkAs, Linking
  <2>2. CASE Mark(x)
    <3>1. MarkAs(x, ToMark(x))
      BY <2>2 DEF Mark
    <3> QED
      BY <2>1, <2>2, <3>1, CallsAssumption DEF ToMark
  <2>3. ASSUME NEW written \in SUBSET Credits, MarkFails(x, written) PROVE FALSE
    BY <2>1, <2>3 DEF MarkFails
  <2> QED
    BY <1>3, <2>2, <2>3
       DEF CallStep, IssueCheck, BatchCheck, IssueClaim, ClaimOne, ReadClaimed,
           CloseSetAside, Issue, IssueRejected, IssueLost, Reopen, ReopenFails,
           Record, RecordFails, Finish, Abort
<1>4. ASSUME NEW v \in Voids, VoidStep(v) PROVE FALSE
    BY <1>4 DEF VoidStep, VoidRead, VoidCheck, VoidIssue, VoidWrite
<1> QED
    BY <1>1, <1>2, <1>3, <1>4 DEF Next, ReleaseStuckClaims, Crash, vars, Calls

(* Documents are issued by the two steps that reach iCount, incidents are  *)
(* never forgotten, and the invoice a call credits is set by its start.    *)
LEMMA GivenChanges ==
    ASSUME TypeOK, [Next]_vars
    PROVE  /\ incident \subseteq incident'
           /\ given' # given => \E x \in Calls, k \in Parts :
                 /\ Issue(x, k) \/ IssueLost(x, k)
                 /\ \A d \in DocNums : given'[d] # given[d] => d = <<x, k>>
           /\ \A x \in Calls : link'[x] # link[x] => pc[x] = "idle" /\ given' = given
<1> USE DEF noteVars, callVars, voidVars
<1>0. /\ link \in [Calls -> Invoices \cup {None}]
      /\ given \in [DocNums -> SUBSET Credits]
    BY DEF TypeOK
<1>1. ASSUME NEW c \in Credits, Create(c) \/ Cancel(c) \/ ClaimAges(c)
      PROVE  incident \subseteq incident' /\ UNCHANGED <<given, link>>
    BY <1>1 DEF Create, CreateLookup, CreateCheck, CreateInsert, Cancel, ClaimAges
<1>2. ASSUME NEW x \in Calls, CallStart(x)
      PROVE  /\ UNCHANGED <<given, incident>> /\ pc[x] = "idle"
             /\ \A y \in Calls \ {x} : link'[y] = link[y]
    BY <1>0, <1>2 DEF CallStart, IssueRead, BatchRead, CloseRead
<1>3. ASSUME NEW x \in Calls, NEW k \in Parts, Issue(x, k) \/ IssueLost(x, k)
      PROVE  /\ incident \subseteq incident' /\ link' = link
             /\ \A d \in DocNums : given'[d] # given[d] => d = <<x, k>>
    BY <1>0, <1>3 DEF Issue, IssueLost
<1>4. ASSUME NEW x \in Calls, CallStep(x)
      PROVE  /\ incident \subseteq incident' /\ link' = link
             /\ given' = given \/ \E k \in Parts : Issue(x, k) \/ IssueLost(x, k)
  <2>1. CASE \E k \in Parts : Issue(x, k) \/ IssueLost(x, k)
    BY <1>3, <2>1
  <2> QED
    BY <1>4, <2>1
       DEF CallStep, IssueCheck, BatchCheck, IssueClaim, ClaimOne, ReadClaimed,
           CloseSetAside, IssueRejected, Reopen, ReopenFails, Mark, MarkFails,
           Record, RecordFails, Finish, Abort
<1>5. ASSUME NEW v \in Voids, VoidStep(v)
      PROVE  UNCHANGED <<given, incident, link>>
    BY <1>5 DEF VoidStep, VoidRead, VoidCheck, VoidIssue, VoidWrite
<1>6. CASE ReleaseStuckClaims \/ Crash \/ UNCHANGED vars
  <2>1. incident \subseteq incident' /\ UNCHANGED <<given, link>>
    BY <1>6 DEF ReleaseStuckClaims, Crash, vars
  <2> QED
    BY <2>1
<1> QED
    BY <1>1, <1>2, <1>3, <1>4, <1>5, <1>6 DEF Next

(* What a document already issued gives back against an invoice does not   *)
(* change: the notes it covers are not linked anew.                        *)
LEMMA AgainstKept ==
    ASSUME IInv, Linking, [Next]_vars, NEW d \in DocNums, d[1] \notin Closes,
           NEW i, given'[d] = given[d]
    PROVE  GivenAgainst(d, i)' \ incident' \subseteq GivenAgainst(d, i)
<1>0. TypeOK /\ d[1] \in Calls /\ d[2] \in Parts /\ d = <<d[1], d[2]>>
    BY DEF IInv, DocNums
<1> SUFFICES ASSUME NEW c \in given[d], c \notin incident', c \in GivenAgainst(d, i)'
             PROVE  c \in GivenAgainst(d, i)
    BY DEF GivenAgainst
<1>1. c \in Sound /\ c \in Credits
    BY <1>0, GivenChanges DEF TypeOK, Sound
<1>2. CASE d[1] \in Issues
  <2>1. link'[d[1]] = i
    BY <1>2 DEF GivenAgainst
  <2>2. link'[d[1]] = link[d[1]]
    <3> SUFFICES ASSUME pc[d[1]] = "idle" PROVE FALSE
      BY <1>0, GivenChanges
    <3>1. given[<<d[1], d[2]>>] = {}
      BY <1>0 DEF IInv, Fresh, Early
    <3> QED
      BY <1>0, <3>1
  <2> QED
    BY <1>2, <2>1, <2>2 DEF GivenAgainst
<1>3. CASE d[1] \in Batches
  <2>1. d[1] \notin Issues /\ original'[c] = i
    BY <1>3, CallsAssumption DEF GivenAgainst
  <2>2. original'[c] = original[c]
    <3>1. ASSUME CreateInsert(c) PROVE FALSE
      <4>1. status[c] = "absent"
        BY <1>1, <3>1 DEF CreateInsert, IInv, Creating
      <4> QED
        BY <1>1, <4>1, OpenIsNotGiven
    <3>2. ASSUME NEW x \in Issues, Mark(x), c \in group[x] PROVE FALSE
      <4>1. holder[c] = x /\ x \in Calls
        BY <1>1, <3>2 DEF IInv, InHand, Calls
      <4>2. d = current[x]
        BY <1>1, <4>1 DEF IInv, Claimed
      <4>3. current[x] # None
        BY <4>2, CallsAssumption
      <4> QED
        BY <1>3, <4>1, <4>2, <4>3, CallsAssumption DEF Linking
    <3> QED
      BY <1>1, <3>1, <3>2, OriginalChanges
  <2> QED
    BY <2>1, <2>2 DEF GivenAgainst
<1> QED
    BY <1>0, <1>2, <1>3 DEF Calls

(* Only a full credit takes an invoice off its notes, and it does so after *)
(* its check and its document.                                             *)
LEMMA VoidChanges ==
    ASSUME TypeOK, [Next]_vars
    PROVE  /\ active' # active =>
                 \E v \in Voids : vpc[v] = "write" /\ active' = active \ {vdoc[v]}
           /\ voided' # voided =>
                 \E v \in Voids : vpc[v] = "issue" /\ voided' = voided \cup {vdoc[v]}
           /\ active' # active => voided' = voided /\ pc' = pc
           /\ \A v \in Voids : vpc'[v] \in {"issue", "write"} =>
                 /\ vdoc'[v] = vdoc[v]
                 /\ vpc[v] \notin {"issue", "write"} =>
                       vpc[v] = "check" /\ VoidCheck(v) /\ Credited(vdoc[v]) = {}
<1> USE DEF noteVars, callVars, voidVars
<1>0. vpc \in [Voids -> VoidSteps] /\ vdoc \in [Voids -> Invoices \cup {None}]
    BY DEF TypeOK
<1>1. CASE UNCHANGED voidVars
    BY <1>1
<1>2. ASSUME NEW c \in Credits, Create(c) \/ Cancel(c) \/ ClaimAges(c)
      PROVE  UNCHANGED voidVars
    BY <1>2 DEF Create, CreateLookup, CreateCheck, CreateInsert, Cancel, ClaimAges
<1>3. ASSUME NEW x \in Calls, CallStart(x) PROVE UNCHANGED voidVars
    BY <1>3 DEF CallStart, IssueRead, BatchRead, CloseRead
<1>4. ASSUME NEW x \in Calls, CallStep(x) PROVE UNCHANGED voidVars
    BY <1>4
       DEF CallStep, IssueCheck, BatchCheck, IssueClaim, ClaimOne, ReadClaimed,
           CloseSetAside, Issue, IssueRejected, IssueLost, Reopen, ReopenFails, Mark,
           MarkFails, Record, RecordFails, Finish, Abort
<1>5. ASSUME NEW v \in Voids, VoidStep(v)
      PROVE  /\ pc' = pc
             /\ active' # active => vpc[v] = "write" /\ active' = active \ {vdoc[v]}
             /\ voided' # voided => vpc[v] = "issue" /\ voided' = voided \cup {vdoc[v]}
             /\ active' # active => voided' = voided
             /\ \A w \in Voids \ {v} : vpc'[w] = vpc[w] /\ vdoc'[w] = vdoc[w]
             /\ vpc'[v] \in {"issue", "write"} =>
                  /\ vdoc'[v] = vdoc[v]
                  /\ vpc[v] \notin {"issue", "write"} =>
                        vpc[v] = "check" /\ VoidCheck(v) /\ Credited(vdoc[v]) = {}
  <2>1. CASE \E i \in Invoices : VoidRead(v, i)
    BY <1>0, <2>1 DEF VoidRead
  <2>2. CASE VoidCheck(v)
    <3>1. UNCHANGED <<pc, active, vdoc, voided>> /\ vpc[v] = "check"
      BY <2>2 DEF VoidCheck
    <3>2. CASE Credited(vdoc[v]) = {}
      BY <1>0, <2>2, <3>1, <3>2 DEF VoidCheck
    <3>3. CASE Credited(vdoc[v]) # {}
      BY <1>0, <2>2, <3>1, <3>3 DEF VoidCheck
    <3> QED
      BY <3>2, <3>3
  <2>3. CASE VoidIssue(v)
    BY <1>0, <2>3 DEF VoidIssue
  <2>4. CASE VoidWrite(v)
    BY <1>0, <2>4 DEF VoidWrite
  <2> QED
    BY <1>5, <2>1, <2>2, <2>3, <2>4 DEF VoidStep
<1>6. CASE ReleaseStuckClaims \/ UNCHANGED vars
    BY <1>6 DEF ReleaseStuckClaims, vars
<1>7. CASE Crash
  <2>1. UNCHANGED <<active, voided, vdoc>>
        /\ \A v \in Voids : vpc'[v] \in {"issue", "write"} => vpc'[v] = vpc[v]
    BY <1>7 DEF Crash, VoidLive
  <2> QED
    BY <2>1
<1>8. CASE \E v \in Voids : VoidStep(v)
  <2>1. PICK v \in Voids : VoidStep(v)
    BY <1>8
  <2>2. ASSUME NEW w \in Voids, vpc'[w] \in {"issue", "write"}
        PROVE  /\ vdoc'[w] = vdoc[w]
               /\ vpc[w] \notin {"issue", "write"} =>
                     vpc[w] = "check" /\ VoidCheck(w) /\ Credited(vdoc[w]) = {}
    <3>1. CASE w = v
      BY <1>5, <2>1, <2>2, <3>1
    <3>2. CASE w # v
      BY <1>5, <2>1, <2>2, <3>2
    <3> QED
      BY <3>1, <3>2
  <2> QED
    BY <1>5, <2>1, <2>2
<1> QED
    BY <1>1, <1>2, <1>3, <1>4, <1>6, <1>7, <1>8 DEF Next

(* An invoice that a call under way has found active stays so.             *)
LEMMA StaysActive ==
    ASSUME TypeOK, Alone, [Next]_vars, NEW x \in Calls, Live(x)
    PROVE  active' = active
<1> SUFFICES ASSUME active' # active PROVE FALSE
    OBVIOUS
<1>1. PICK v \in Voids : vpc[v] = "write"
    BY VoidChanges
<1> QED
    BY <1>1 DEF Alone, VoidLive

(* A note in a list that is being claimed, or claimed, keeps its invoice.  *)
LEMMA ListKeepsOriginal ==
    ASSUME IInv, Linking, Alone, [Next]_vars, NEW x \in Batches, Live(x),
           NEW c \in Credits, cpc[c] = "done"
    PROVE  original'[c] = original[c]
<1>1. ASSUME NEW y \in Issues, Mark(y) PROVE FALSE
    BY <1>1, CallsAssumption DEF Mark, Live, Alone, Calls
<1> QED
    BY <1>1, OriginalChanges DEF CreateInsert

(* Past its checks a call only lets go of notes.                           *)
LEMMA OursShrinks ==
    ASSUME IInv, Linking, [Next]_vars, NEW x \in Calls \ Closes, Live(x)',
           Live(x), pc[x] # "check"
    PROVE  Ours(x)' \subseteq Ours(x) /\ pc'[x] # "check" /\ link'[x] = link[x]
<1> USE DEF noteVars, callVars, voidVars
<1>0. /\ pc \in [Calls -> CallSteps] /\ todo \in [Calls -> SUBSET Credits]
      /\ hand \in [Calls -> SUBSET Credits] /\ x \in Calls
      /\ group \in [Calls -> SUBSET Credits]
      /\ link \in [Calls -> Invoices \cup {None}]
      /\ holder \in [Credits -> Calls \cup {None}] /\ x # None
      /\ pc[x] \in {"claim", "setAside", "issue", "reopen", "mark", "record"}
    BY CallsAssumption DEF IInv, TypeOK, Calls, Live, CallSteps
<1>a. pc[x] = "claim" => hand[x] = {} /\ group[x] = {}
    BY <1>0 DEF IInv, Phases
<1>b. ASSUME pc'[x] = pc[x], todo'[x] = todo[x], hand'[x] = hand[x],
             group'[x] = group[x], link'[x] = link[x],
             \A c \in Credits : holder'[c] = x => holder[c] = x
      PROVE  Ours(x)' \subseteq Ours(x) /\ pc'[x] # "check" /\ link'[x] = link[x]
    BY <1>b DEF Ours
<1>c. ASSUME pc[x] # "claim", pc'[x] \notin {"claim", "check"}, link' = link,
             hand'[x] \cup group'[x] \subseteq hand[x] \cup group[x]
      PROVE  Ours(x)' \subseteq Ours(x) /\ pc'[x] # "check" /\ link'[x] = link[x]
    BY <1>c DEF Ours
<1>1. ASSUME NEW c \in Credits, Create(c) \/ Cancel(c) \/ ClaimAges(c)
      PROVE  UNCHANGED <<pc, todo, hand, group, link, holder>>
    BY <1>1 DEF Create, CreateLookup, CreateCheck, CreateInsert, Cancel, ClaimAges
<1>2. ASSUME NEW y \in Calls \ {x}, CallStart(y) \/ CallStep(y)
      PROVE  /\ pc'[x] = pc[x] /\ todo'[x] = todo[x] /\ hand'[x] = hand[x]
             /\ group'[x] = group[x] /\ link'[x] = link[x]
             /\ \A c \in Credits : holder'[c] = x => holder[c] = x
  <2>1. CASE CallStart(y)
    BY <1>0, <2>1 DEF CallStart, IssueRead, BatchRead, CloseRead, Goto
  <2>2. ASSUME NEW c \in Credits, IssueClaim(y, c) \/ ClaimOne(y, c)
        PROVE  /\ pc'[x] = pc[x] /\ todo'[x] = todo[x] /\ hand'[x] = hand[x]
               /\ group'[x] = group[x] /\ link'[x] = link[x]
               /\ \A e \in Credits : holder'[e] = x => holder[e] = x
    BY <1>0, <2>2 DEF IssueClaim, ClaimOne, Goto
  <2>3. CASE \E left \in SUBSET Credits :
                CloseSetAside(y, left) \/ ReopenFails(y, left) \/ MarkFails(y, left)
    BY <1>0, <2>3
       DEF CloseSetAside, ReopenFails, MarkFails, MarkAs, DropClaims, Goto
  <2>4. CASE \E k \in Parts : Issue(y, k) \/ IssueRejected(y, k) \/ IssueLost(y, k)
    BY <1>0, <2>4 DEF Issue, IssueRejected, IssueLost, NextPart, Goto
  <2>5. CASE IssueCheck(y) \/ BatchCheck(y) \/ ReadClaimed(y) \/ Reopen(y) \/ Mark(y)
    BY <1>0, <2>5
       DEF IssueCheck, BatchCheck, ReadClaimed, Reopen, Mark, MarkAs, DropClaims, Goto
  <2>6. CASE Record(y) \/ RecordFails(y) \/ Finish(y) \/ Abort(y)
    BY <1>0, <2>6 DEF Record, RecordFails, Finish, Abort, Goto
  <2> QED
    BY <1>2, <2>1, <2>2, <2>3, <2>4, <2>5, <2>6 DEF CallStep
<1>3. ASSUME CallStart(x) PROVE FALSE
    BY <1>0, <1>3 DEF CallStart, IssueRead, BatchRead, CloseRead
<1>4. ASSUME CallStep(x)
      PROVE  Ours(x)' \subseteq Ours(x) /\ pc'[x] # "check" /\ link'[x] = link[x]
  <2>1. ASSUME NEW c \in Credits, IssueClaim(x, c)
        PROVE  Ours(x)' \subseteq Ours(x) /\ pc'[x] # "check" /\ link'[x] = link[x]
    <3>1. CASE status[c] = "open"
      <4>1. /\ pc[x] = "claim" /\ todo[x] = {c} /\ link' = link
            /\ pc'[x] = "issue" /\ hand'[x] = {c} /\ group'[x] = group[x]
        BY <1>0, <2>1, <3>1 DEF IssueClaim, Goto
      <4> QED
        BY <1>a, <4>1 DEF Ours
    <3>2. CASE status[c] # "open"
      BY <1>0, <2>1, <3>2 DEF IssueClaim, Goto, Live
    <3> QED
      BY <3>1, <3>2
  <2>2. ASSUME NEW c \in Credits, ClaimOne(x, c)
        PROVE  Ours(x)' \subseteq Ours(x) /\ pc'[x] # "check" /\ link'[x] = link[x]
    <3>1. /\ pc[x] = "claim" /\ pc'[x] = "claim" /\ link' = link
          /\ c \in todo[x] /\ todo'[x] \subseteq todo[x]
          /\ \A e \in Credits : holder'[e] = x => holder[e] = x \/ e = c
      BY <1>0, <2>2 DEF ClaimOne
    <3> QED
      BY <3>1 DEF Ours
  <2>3. CASE ReadClaimed(x)
    <3>1. /\ pc[x] = "claim" /\ pc'[x] \notin {"claim", "check"} /\ link' = link
          /\ hand'[x] = {c \in Credits : holder[c] = x} /\ group'[x] = {}
      BY <1>0, <1>a, <2>3 DEF ReadClaimed, Goto
    <3> QED
      BY <3>1 DEF Ours
  <2>4. ASSUME NEW left \in SUBSET Credits,
               CloseSetAside(x, left) \/ ReopenFails(x, left) \/ MarkFails(x, left)
        PROVE  /\ pc[x] # "claim" /\ pc'[x] \notin {"claim", "check"} /\ link' = link
               /\ hand'[x] \cup group'[x] \subseteq hand[x] \cup group[x]
    BY <1>0, <2>4 DEF CloseSetAside, ReopenFails, MarkFails, Goto, AfterGroup
  <2>5. ASSUME NEW k \in Parts, Issue(x, k) \/ IssueRejected(x, k) \/ IssueLost(x, k)
        PROVE  /\ pc[x] # "claim" /\ pc'[x] \notin {"claim", "check"} /\ link' = link
               /\ hand'[x] \cup group'[x] \subseteq hand[x] \cup group[x]
    BY <1>0, <2>5 DEF Issue, IssueRejected, IssueLost, NextPart, OfPart, Goto
  <2>6. ASSUME Reopen(x) \/ Mark(x) \/ Record(x) \/ RecordFails(x) \/ Finish(x)
        PROVE  /\ pc[x] # "claim" /\ pc'[x] \notin {"claim", "check"} /\ link' = link
               /\ hand'[x] \cup group'[x] \subseteq hand[x] \cup group[x]
    <3>1. CASE Reopen(x) \/ Mark(x)
      BY <1>0, <3>1 DEF Reopen, Mark, Goto, AfterGroup
    <3>2. CASE Record(x) \/ RecordFails(x) \/ Finish(x)
      BY <1>0, <3>2 DEF Record, RecordFails, Finish, Goto, AfterGroup
    <3> QED
      BY <2>6, <3>1, <3>2
  <2>7. ASSUME IssueCheck(x) \/ BatchCheck(x) \/ Abort(x) PROVE FALSE
    BY <1>0, <2>7 DEF IssueCheck, BatchCheck, Abort, Goto, Live
  <2> QED
    BY <1>4, <1>c, <2>1, <2>2, <2>3, <2>4, <2>5, <2>6, <2>7 DEF CallStep
<1>5. ASSUME NEW v \in Voids, VoidStep(v)
      PROVE  UNCHANGED <<pc, todo, hand, group, link, holder>>
    BY <1>5 DEF VoidStep, VoidRead, VoidCheck, VoidIssue, VoidWrite
<1>6. ASSUME ReleaseStuckClaims
      PROVE  /\ UNCHANGED <<pc, todo, hand, group, link>>
             /\ \A c \in Credits : holder'[c] = x => holder[c] = x
    BY <1>0, <1>6 DEF ReleaseStuckClaims, DropClaims
<1>7. ASSUME Crash PROVE FALSE
    BY <1>0, <1>7 DEF Crash, Live
<1>8. ASSUME UNCHANGED vars PROVE UNCHANGED <<pc, todo, hand, group, link, holder>>
    BY <1>8 DEF vars
<1> QED
    BY <1>b, <1>1, <1>2, <1>3, <1>4, <1>5, <1>6, <1>7, <1>8 DEF Next

(* A call gets past its checks by passing them, or, in the case of a note  *)
(* without an invoice, by having nothing to check.                         *)
LEMMA Entering ==
    ASSUME IInv, [Next]_vars, NEW x \in Calls \ Closes, Live(x)', pc'[x] # "check",
           ~(Live(x) /\ pc[x] # "check")
    PROVE  /\ pc'[x] = "claim"
           /\ \/ IssueCheck(x) /\ CanBeCredited(link[x], todo[x], todo[x])
              \/ BatchCheck(x)
              \/ x \in Issues /\ link'[x] = None
<1> USE DEF noteVars, callVars, voidVars
<1>0. /\ pc \in [Calls -> CallSteps] /\ link \in [Calls -> Invoices \cup {None}]
      /\ x \in Calls /\ pc[x] \in {"idle", "check", "done", "dead"}
    BY DEF IInv, TypeOK, Live, CallSteps
<1>1. pc'[x] # pc[x]
    BY DEF Live
<1>2. ASSUME NEW y \in Calls \ {x}, CallStart(y) \/ CallStep(y) PROVE FALSE
  <2>1. CASE CallStart(y)
    BY <1>0, <1>1, <2>1 DEF CallStart, IssueRead, BatchRead, CloseRead, Goto
  <2>2. CASE CallStep(y)
    <3>1. pc' = pc \/ \E s : Goto(y, s)
      BY <2>2
         DEF CallStep, IssueCheck, BatchCheck, IssueClaim, ClaimOne, ReadClaimed,
             CloseSetAside, Issue, IssueRejected, IssueLost, Reopen, ReopenFails, Mark,
             MarkFails, Record, RecordFails, Finish, Abort
    <3> QED
      BY <1>0, <1>1, <3>1 DEF Goto
  <2> QED
    BY <1>2, <2>1, <2>2
<1>3. CASE CallStart(x)
  <2>1. CASE x \in Issues
    <3>1. PICK c \in Credits, i \in Invoices \cup {None} : IssueRead(x, c, i)
      BY <1>3, <2>1, CallsAssumption DEF CallStart
    <3> QED
      BY <1>0, <2>1, <3>1 DEF IssueRead, Goto
  <2>2. CASE x \notin Issues
    <3>1. PICK C : BatchRead(x, C)
      BY <1>3, <2>2 DEF CallStart
    <3> QED
      BY <1>0, <3>1 DEF BatchRead, Goto
  <2> QED
    BY <2>1, <2>2
<1>4. CASE CallStep(x)
  <2>1. CASE IssueCheck(x)
    <3>1. CASE CanBeCredited(link[x], todo[x], todo[x])
      BY <1>0, <2>1, <3>1 DEF IssueCheck, Goto
    <3>2. CASE ~CanBeCredited(link[x], todo[x], todo[x])
      BY <1>0, <2>1, <3>2 DEF IssueCheck, Goto, Live
    <3> QED
      BY <3>1, <3>2
  <2>2. CASE BatchCheck(x)
    BY <1>0, <2>2 DEF BatchCheck, Goto, Live
  <2>3. CASE ~(IssueCheck(x) \/ BatchCheck(x))
    BY <1>0, <1>4, <2>3
       DEF CallStep, IssueClaim, ClaimOne, ReadClaimed, CloseSetAside, Issue,
           IssueRejected, IssueLost, NextPart, Reopen, ReopenFails, Mark, MarkFails,
           Record, RecordFails, Finish, Abort, Goto, Live
  <2> QED
    BY <2>1, <2>2, <2>3
<1>5. ASSUME NEW c \in Credits, Create(c) \/ Cancel(c) \/ ClaimAges(c) PROVE FALSE
    BY <1>1, <1>5
       DEF Create, CreateLookup, CreateCheck, CreateInsert, Cancel, ClaimAges
<1>6. ASSUME NEW v \in Voids, VoidStep(v) PROVE FALSE
    BY <1>1, <1>6 DEF VoidStep, VoidRead, VoidCheck, VoidIssue, VoidWrite
<1>7. ASSUME ReleaseStuckClaims \/ UNCHANGED vars PROVE FALSE
    BY <1>1, <1>7 DEF ReleaseStuckClaims, vars
<1>8. ASSUME Crash PROVE FALSE
    BY <1>0, <1>8 DEF Crash, Live
<1> QED
    BY <1>2, <1>3, <1>4, <1>5, <1>6, <1>7, <1>8 DEF Next

(* The notes of a call that has read them exist.                           *)
LEMMA OursExist ==
    ASSUME IInv, Linking, NEW x \in Batches, NEW c \in Ours(x)
    PROVE  c \in Credits /\ cpc[c] = "done"
<1>0. x \in Calls /\ x # None
    BY CallsAssumption DEF Calls
<1>1. c \in Credits
    BY <1>0 DEF Ours, IInv, TypeOK
<1>2. CASE c \in todo[x]
    BY <1>1, <1>2 DEF Linking
<1>3. CASE holder[c] = x
    BY <1>0, <1>1, <1>3 DEF IInv, HeldIsBilling, Creating
<1>4. CASE c \in hand[x] \cup group[x]
    BY <1>0, <1>1, <1>4 DEF IInv, InHand
<1> QED
    BY <1>1, <1>2, <1>3, <1>4 DEF Ours

(* The check of a batch.                                                   *)
LEMMA BatchChecks ==
    ASSUME TypeOK, NEW x \in Batches, BatchCheck(x), pc'[x] = "claim",
           NEW c \in todo[x]
    PROVE  original[c] \in active \cup {None}
<1>0. /\ x \in Calls /\ pc \in [Calls -> CallSteps] /\ c \in Credits
      /\ original[c] \in Invoices \cup {None}
    BY DEF TypeOK, Calls
<1> SUFFICES ASSUME original[c] \in Invoices PROVE original[c] \in active
    BY <1>0
<1> DEFINE naming(i) == {e \in todo[x] : original[e] = i}
           passes == \A i \in Invoices :
                         naming(i) # {} => CanBeCredited(i, naming(i), {})
<1>1. pc[x] = "check" /\ Goto(x, IF passes THEN "claim" ELSE "done")
    BY DEF BatchCheck
<1>2. c \in naming(original[c])
    OBVIOUS
<1> HIDE DEF naming
<1>3. passes
    BY <1>0, <1>1 DEF Goto
<1>4. CanBeCredited(original[c], naming(original[c]), {})
    BY <1>2, <1>3
<1> QED
    BY <1>4 DEF CanBeCredited

LEMMA CheckedKept ==
    ASSUME IInv, Alone, Linking, CheckedActive, [Next]_vars
    PROVE  CheckedActive'
<1>0. TypeOK
    BY DEF IInv
<1>1. ASSUME NEW x \in Issues, Live(x)', pc'[x] # "check"
      PROVE  link'[x] \in active' \cup {None}
  <2>0. x \in Calls \ Closes
    BY CallsAssumption DEF Calls
  <2>1. CASE Live(x) /\ pc[x] # "check"
    BY <1>0, <1>1, <2>0, <2>1, StaysActive, OursShrinks DEF CheckedActive
  <2>2. CASE ~(Live(x) /\ pc[x] # "check")
    <3>1. CASE IssueCheck(x) /\ CanBeCredited(link[x], todo[x], todo[x])
      BY <3>1 DEF IssueCheck, CanBeCredited, voidVars
    <3>2. CASE BatchCheck(x)
      BY <3>2, CallsAssumption DEF BatchCheck
    <3> QED
      BY <1>1, <2>0, <2>2, <3>1, <3>2, Entering
  <2> QED
    BY <2>1, <2>2
<1>2. ASSUME NEW x \in Batches, Live(x)', pc'[x] # "check", NEW c \in Ours(x)'
      PROVE  original'[c] \in active' \cup {None}
  <2>0. x \in Calls \ Closes /\ x \in Calls
    BY CallsAssumption DEF Calls
  <2>1. CASE Live(x) /\ pc[x] # "check"
    <3>1. c \in Ours(x)
      BY <1>2, <2>0, <2>1, OursShrinks
    <3>2. c \in Credits /\ cpc[c] = "done"
      BY <3>1, OursExist
    <3>3. original'[c] = original[c]
      BY <2>1, <3>2, ListKeepsOriginal
    <3> QED
      BY <1>0, <2>0, <2>1, <3>1, <3>3, StaysActive DEF CheckedActive
  <2>2. CASE ~(Live(x) /\ pc[x] # "check")
    <3>1. BatchCheck(x) /\ pc'[x] = "claim"
      <4>1. ~IssueCheck(x) /\ x \notin Issues
        BY CallsAssumption DEF IssueCheck
      <4> QED
        BY <1>2, <2>0, <2>2, <4>1, Entering
    <3>2. /\ pc[x] = "check" /\ UNCHANGED <<holder, original, active, todo>>
      BY <3>1 DEF BatchCheck, noteVars, voidVars
    <3>3. c \in todo[x]
      BY <1>2, <2>0, <3>1, <3>2 DEF Linking, Ours
    <3> QED
      BY <1>0, <3>1, <3>2, <3>3, BatchChecks
  <2> QED
    BY <2>1, <2>2
<1> QED
    BY <1>1, <1>2 DEF CheckedActive

(* What leaves the hands of a call that issues a single credit was marked, *)
(* or hit by a logged failure, or given back by no document.               *)
LEMMA GroupLeaves ==
    ASSUME IInv, [Next]_vars, NEW x \in Issues, NEW c \in group[x] \ group'[x],
           c \notin incident'
    PROVE  Mark(x) \/ pc[x] # "mark"
<1> USE DEF noteVars, callVars, voidVars
<1>0. /\ x \in Calls /\ group \in [Calls -> SUBSET Credits] /\ x \notin Batches
      /\ pc \in [Calls -> CallSteps]
    BY CallsAssumption DEF IInv, TypeOK, Calls
<1> SUFFICES ASSUME pc[x] = "mark" PROVE Mark(x)
    OBVIOUS
<1>1. ASSUME NEW e \in Credits, Create(e) \/ Cancel(e) \/ ClaimAges(e)
      PROVE  UNCHANGED group
    BY <1>1 DEF Create, CreateLookup, CreateCheck, CreateInsert, Cancel, ClaimAges
<1>2. ASSUME NEW y \in Calls, CallStart(y) PROVE UNCHANGED group
    BY <1>2 DEF CallStart, IssueRead, BatchRead, CloseRead
<1>3. ASSUME NEW y \in Calls, CallStep(y)
      PROVE  group'[x] = group[x] \/ Mark(x) \/ group[x] \subseteq incident'
  <2>1. CASE Mark(y) \/ Reopen(y) \/ (\E freed \in SUBSET Credits : ReopenFails(y, freed))
             \/ (\E k \in Parts : Issue(y, k) \/ IssueRejected(y, k) \/ IssueLost(y, k))
    BY <1>0, <2>1
       DEF Mark, Reopen, ReopenFails, Issue, IssueRejected, IssueLost, NextPart
  <2>2. ASSUME NEW written \in SUBSET Credits, MarkFails(y, written)
        PROVE  group'[x] = group[x] \/ group[x] \subseteq incident'
    BY <1>0, <2>2 DEF MarkFails
  <2> QED
    BY <1>3, <2>1, <2>2
       DEF CallStep, IssueCheck, BatchCheck, IssueClaim, ClaimOne, ReadClaimed,
           CloseSetAside, Record, RecordFails, Finish, Abort
<1>4. ASSUME NEW v \in Voids, VoidStep(v) PROVE UNCHANGED group
    BY <1>4 DEF VoidStep, VoidRead, VoidCheck, VoidIssue, VoidWrite
<1>5. ASSUME Crash PROVE group[x] \subseteq incident'
    BY <1>0, <1>5 DEF Crash
<1> QED
    BY <1>1, <1>2, <1>3, <1>4, <1>5 DEF Next, ReleaseStuckClaims, vars

LEMMA BasedKept ==
    ASSUME IInv, Linking, Based, [Next]_vars
    PROVE  Based'
<1>0. TypeOK
    BY DEF IInv
<1> SUFFICES ASSUME NEW d \in DocNums, d[1] \in Issues, link'[d[1]] # None,
                    NEW c \in given'[d], c \in Sound', c \notin group'[d[1]]
             PROVE  original'[c] = link'[d[1]]
    BY DEF Based
<1> DEFINE x == d[1]
<1>1. /\ x \in Calls /\ x \in Issues /\ d[2] \in Parts /\ d = <<x, d[2]>> /\ x \notin Batches
      /\ c \in Credits /\ c \in Sound /\ c \notin incident'
    BY GivenChanges, <1>0, CallsAssumption DEF DocNums, Sound, Calls
<1>2. given'[d] = given[d]
  <2> SUFFICES ASSUME given'[d] # given[d] PROVE FALSE
    OBVIOUS
  <2>1. PICK y \in Calls, k \in Parts : (Issue(y, k) \/ IssueLost(y, k)) /\ d = <<y, k>>
    BY <1>0, GivenChanges
  <2>2. y = x /\ k = d[2]
    BY <2>1
  <2>3. given'[d] = group'[x]
    BY <1>0, <1>1, <2>1, <2>2 DEF Issue, IssueLost, NextPart, TypeOK
  <2> QED
    BY <2>3
<1>3. link'[x] = link[x]
  <2> SUFFICES ASSUME pc[x] = "idle" PROVE FALSE
    BY <1>0, <1>1, GivenChanges
  <2>1. given[<<x, d[2]>>] = {}
    BY <1>1 DEF IInv, Fresh, Early
  <2> QED
    BY <1>1, <1>2, <2>1
<1>4. ASSUME NEW y \in Issues, Mark(y), c \in group[y]
      PROVE  y = x
  <2>1. holder[c] = y /\ y \in Calls
    BY <1>1, <1>4 DEF IInv, InHand, Calls
  <2>2. d = current[y]
    BY <1>1, <1>2, <2>1 DEF IInv, Claimed
  <2>3. current[y] # None
    BY <2>2, CallsAssumption
  <2> QED
    BY <2>1, <2>2, <2>3 DEF Linking
<1>5. CASE c \in group[x]
  <2>1. holder[c] = x
    BY <1>1, <1>5 DEF IInv, InHand
  <2>2. pc[x] = "mark"
    BY <1>1, <1>2, <2>1 DEF IInv, Claimed
  <2>3. Mark(x)
    BY <1>1, <1>5, <2>2, GroupLeaves
  <2>4. original'[c] = link[x]
    BY <1>1, <1>3, <1>5, <2>3 DEF Mark, MarkAs, ToMark
  <2> QED
    BY <1>3, <2>4
<1>6. CASE c \notin group[x]
  <2>1. original[c] = link[x]
    BY <1>1, <1>2, <1>3, <1>6 DEF Based
  <2>2. CASE original'[c] = original[c]
    BY <1>3, <2>1, <2>2
  <2>3. CASE CreateInsert(c)
    <3>1. status[c] = "absent"
      BY <1>1, <2>3 DEF CreateInsert, IInv, Creating
    <3> QED
      BY <1>1, <1>2, <3>1, OpenIsNotGiven
  <2>4. CASE \E y \in Issues : Mark(y) /\ c \in group[y]
    BY <1>4, <1>6, <2>4
  <2> QED
    BY <1>1, <2>2, <2>3, <2>4, OriginalChanges
<1> QED
    BY <1>5, <1>6

(* The check of a full credit sees every credit invoice of a credit note   *)
(* against its invoice: with no other call under way each is on its notes. *)
LEMMA CheckSees ==
    ASSUME IInv, Alone, Based, NEW v \in Voids, vpc[v] = "check",
           Credited(vdoc[v]) = {}, NEW d \in DocNums, d[1] \notin Closes
    PROVE  GivenAgainst(d, vdoc[v]) \subseteq incident
<1> DEFINE i == vdoc[v]
<1>1. i \in Invoices /\ i # None
    BY CallsAssumption DEF IInv, Numbered, VoidLive
<1>2. \A x \in Calls : group[x] = {}
    BY DEF Alone, VoidLive, Live, IInv, Phases
<1>3. d[1] \in Calls
    BY DEF DocNums
<1> SUFFICES ASSUME NEW c \in GivenAgainst(d, i), c \notin incident
             PROVE  FALSE
    OBVIOUS
<1>4. c \in given[d] /\ c \in Sound /\ c \in Credits
    BY DEF GivenAgainst, IInv, TypeOK, Sound
<1>5. status[c] \in {"billed", "netted"}
  <2>1. holder[c] \in Calls \cup {None}
    BY <1>4 DEF IInv, TypeOK
  <2> QED
    BY <1>2, <1>4, <2>1 DEF IInv, Claimed, Unclaimed, Marked
<1>6. original[c] = i
  <2>1. CASE d[1] \in Issues
    BY <1>1, <1>2, <1>3, <1>4, <2>1 DEF GivenAgainst, Based
  <2>2. CASE d[1] \notin Issues
    BY <2>2 DEF GivenAgainst
  <2> QED
    BY <2>1, <2>2
<1> QED
    BY <1>4, <1>5, <1>6 DEF Credited

LEMMA TellsKept ==
    ASSUME IInv, Alone, Linking, Based, VoidTells, [Next]_vars
    PROVE  VoidTells'
<1>0. TypeOK
    BY DEF IInv
<1> SUFFICES ASSUME NEW v \in Voids, vpc'[v] \in {"issue", "write"},
                    NEW d \in DocNums, d[1] \notin Closes, NEW i, i = vdoc'[v]
             PROVE  GivenAgainst(d, i)' \subseteq incident'
    BY DEF VoidTells, GivenAgainst
<1>1. vdoc'[v] = vdoc[v] /\ vpc[v] \in {"check", "issue", "write"}
    BY <1>0, VoidChanges
<1>2. given' = given
  <2> SUFFICES ASSUME given' # given PROVE FALSE
    OBVIOUS
  <2>1. PICK x \in Calls, k \in Parts : Issue(x, k) \/ IssueLost(x, k)
    BY <1>0, GivenChanges
  <2>2. Live(x)
    BY <2>1 DEF Issue, IssueLost, NextPart, Live
  <2> QED
    BY <1>1, <2>2 DEF Alone, VoidLive
<1>3. GivenAgainst(d, i) \subseteq incident
  <2>1. CASE vpc[v] \in {"issue", "write"}
    BY <1>1, <2>1 DEF VoidTells
  <2>2. CASE vpc[v] \notin {"issue", "write"}
    BY <1>0, <1>1, <2>2, VoidChanges, CheckSees
  <2> QED
    BY <2>1, <2>2
<1>4. GivenAgainst(d, i)' \ incident' \subseteq GivenAgainst(d, i)
    BY <1>2, AgainstKept
<1> QED
    BY <1>0, <1>3, <1>4, GivenChanges

LEMMA FullKept ==
    ASSUME IInv, AInv, [Next]_vars
    PROVE  FullOrPartial'
<1>0. TypeOK /\ Alone /\ Linking /\ CheckedActive /\ VoidTells /\ FullOrPartial
    BY DEF IInv, AInv
<1>1. TypeOK'
    BY <1>0, NextType DEF IInv
<1> SUFFICES ASSUME NEW i \in voided' \ active', NEW d \in DocNums, d[1] \notin Closes,
                    NEW c \in GivenAgainst(d, i)', c \notin incident'
             PROVE  FALSE
    BY DEF FullOrPartial
<1>2. i \in Invoices /\ i # None
    BY <1>1, CallsAssumption DEF TypeOK
<1>3. CASE given'[d] = given[d]
  <2>1. c \in GivenAgainst(d, i) /\ c \notin incident
    BY <1>0, <1>3, AgainstKept, GivenChanges
  <2>2. CASE i \in voided /\ i \notin active
    BY <1>0, <2>1, <2>2 DEF FullOrPartial
  <2>3. CASE i \notin voided \/ i \in active
    <3>1. PICK v \in Voids : vpc[v] \in {"issue", "write"} /\ i = vdoc[v]
      BY <1>0, <2>3, VoidChanges
    <3> QED
      BY <1>0, <2>1, <3>1 DEF VoidTells
  <2> QED
    BY <2>2, <2>3
<1>4. CASE given'[d] # given[d]
  <2>1. PICK x \in Calls, k \in Parts : (Issue(x, k) \/ IssueLost(x, k)) /\ d = <<x, k>>
    BY <1>0, <1>4, GivenChanges
  <2>2. /\ pc[x] = "issue" /\ given'[d] = OfPart(hand[x], k)
        /\ UNCHANGED <<original, link, active>> /\ d[1] = x
    BY <1>0, <2>1 DEF Issue, IssueLost, NextPart, TypeOK, noteVars, voidVars
  <2>3. Live(x) /\ pc[x] # "check"
    BY <2>2 DEF Live
  <2>4. CASE x \in Issues
    BY <1>0, <1>2, <2>2, <2>3, <2>4 DEF CheckedActive, GivenAgainst
  <2>5. CASE x \notin Issues
    <3>1. x \in Batches /\ original[c] = i /\ c \in hand[x]
      BY <2>2, <2>5 DEF GivenAgainst, OfPart, Calls
    <3> QED
      BY <1>0, <1>2, <2>2, <2>3, <3>1 DEF CheckedActive, Ours
  <2> QED
    BY <2>4, <2>5
<1> QED
    BY <1>3, <1>4

LEMMA AloneInvariant ==
    ASSUME "overlap" \notin Faults
    PROVE  Spec => []AInv
<1>1. Init => AInv
  <2> SUFFICES ASSUME Init PROVE AInv
    OBVIOUS
  <2>1. Alone /\ VoidTells
    BY DEF Init, Alone, Live, VoidLive, VoidTells
  <2>2. Linking /\ CheckedActive
    BY DEF Init, Linking, CheckedActive, Live, Calls
  <2>3. Based /\ FullOrPartial
    BY DEF Init, Based, FullOrPartial
  <2> QED
    BY <2>1, <2>2, <2>3 DEF AInv
<1>2. IInv /\ AInv /\ [Next]_vars => AInv'
  <2> SUFFICES ASSUME IInv, AInv, [Next]_vars PROVE AInv'
    OBVIOUS
  <2>1. TypeOK /\ Alone /\ Linking /\ CheckedActive /\ Based /\ VoidTells
    BY DEF AInv, IInv
  <2>2. Alone' /\ Linking'
    BY <2>1, AloneKept, LinkingKept
  <2>3. CheckedActive' /\ Based'
    BY <2>1, CheckedKept, BasedKept
  <2>4. VoidTells' /\ FullOrPartial'
    BY <2>1, TellsKept, FullKept
  <2> QED
    BY <2>2, <2>3, <2>4 DEF AInv
<1> QED
    BY <1>1, <1>2, InductiveInvariant, PTL DEF Spec

(* With one thing under way at a time, an invoice that was credited in     *)
(* full and taken off its delivery notes has no credit invoice of a credit *)
(* note against it, through crashes, rejections, lost answers, failed      *)
(* writes and the hourly release.                                          *)
THEOREM FullCreditStandsAlone ==
    ASSUME "overlap" \notin Faults
    PROVE  Spec => []FullOrPartial
<1>1. AInv => FullOrPartial
    BY DEF AInv
<1> QED
    BY <1>1, AloneInvariant, PTL

-----------------------------------------------------------------------------
(* A family of subsets of a finite set has one with no other below it: the *)
(* induction that the proofs about sums go by.                             *)
LEMMA SmallestSubset ==
    ASSUME NEW S, IsFiniteSet(S), NEW T \in SUBSET SUBSET S, T # {}
    PROVE  \E x \in T : \A y \in T : y \subseteq x => y = x
<1>1. FiniteSubsetsOf(S) = SUBSET S
    BY FS_FiniteSubsetsOfFinite
<1>2. IsWellFoundedOn(StrictSubsetOrdering(S), SUBSET S)
    BY <1>1, FS_StrictSubsetOrderingWellFounded
<1>3. PICK x \in T : \A y \in T : <<y, x>> \notin StrictSubsetOrdering(S)
  <2> HIDE <1>1
  <2> QED
    BY <1>2, WFMin
<1> QED
    BY <1>3 DEF StrictSubsetOrdering

Any(s) == CHOOSE x \in s : TRUE

IsSumming(S, g) ==
    g = [s \in SUBSET S |->
            IF s = {} THEN 0 ELSE Amount[Any(s)] + g[s \ {Any(s)}]]

LEMMA AmountIsFold ==
    ASSUME NEW S
    PROVE  AmountOf(S) = (CHOOSE g : IsSumming(S, g))[S]
BY DEF AmountOf, MapThenSumSet, MapThenFoldSet, IsSumming, Any

(* The recursion of the sum, which a finite set has.                       *)
AmountFollows(S) ==
    AmountOf(S) = IF S = {} THEN 0 ELSE Amount[Any(S)] + AmountOf(S \ {Any(S)})

LEMMA AmountRecursion ==
    ASSUME NEW S \in SUBSET Credits
    PROVE  AmountFollows(S)
<1> DEFINE Bad == {s \in SUBSET Credits : ~AmountFollows(s)}
           A(s) == AmountOf(s)
<1>0. IsFiniteSet(Credits)
    BY CreditsAssumption
<1>1. ASSUME NEW s \in Bad, \A t \in Bad : t \subseteq s => t = s PROVE FALSE
  <2> DEFINE G == [u \in SUBSET s |->
                      IF u = s
                      THEN IF s = {} THEN 0 ELSE Amount[Any(s)] + A(s \ {Any(s)})
                      ELSE A(u)]
  <2>1. \A u \in SUBSET s : u # s =>
            A(u) = IF u = {} THEN 0 ELSE Amount[Any(u)] + A(u \ {Any(u)})
    BY <1>1 DEF AmountFollows
  <2>2. \A u \in SUBSET s : u # {} => Any(u) \in u
    BY DEF Any
  <2> HIDE DEF A
  <2>3. \A u \in SUBSET s : u # {} => A(u \ {Any(u)}) = G[u \ {Any(u)}]
    <3> SUFFICES ASSUME NEW u \in SUBSET s, u # {}
                 PROVE  A(u \ {Any(u)}) = G[u \ {Any(u)}]
        OBVIOUS
    <3>1. u \ {Any(u)} \in SUBSET s /\ u \ {Any(u)} # s
        BY <2>2
    <3> QED BY <3>1
  <2>4. IsSumming(s, G)
    <3>1. G = [u \in SUBSET s |-> IF u = {} THEN 0
                      ELSE Amount[Any(u)] + G[u \ {Any(u)}]]
        BY <2>1, <2>3
    <3> QED BY <3>1 DEF IsSumming
  <2> DEFINE g == CHOOSE f : IsSumming(s, f)
  <2>5. IsSumming(s, g)
    BY <2>4
  <2>6. A(s) = g[s]
    BY AmountIsFold DEF A
  <2> HIDE DEF g, G
  <2>7. \A u \in SUBSET s : g[u] = IF u = {} THEN 0
                      ELSE Amount[Any(u)] + g[u \ {Any(u)}]
    BY <2>5 DEF IsSumming
  <2>8. \A u \in SUBSET s : u # s => g[u] = A(u)
    <3> DEFINE Off == {u \in SUBSET s : u # s /\ g[u] # A(u)}
    <3>1. ASSUME NEW u \in Off, \A t \in Off : t \subseteq u => t = u PROVE FALSE
      <4>1. A(u) = IF u = {} THEN 0 ELSE Amount[Any(u)] + A(u \ {Any(u)})
        BY <2>1
      <4>2. u # {}
        BY <4>1, <2>7
      <4>3. u \ {Any(u)} \notin Off
        BY <3>1, <4>2, <2>2
      <4>4. g[u \ {Any(u)}] = A(u \ {Any(u)})
        BY <4>3, <4>2, <2>2
      <4> QED BY <4>1, <4>2, <4>4, <2>7
    <3>2. Off = {}
      <4>1. Off \in SUBSET SUBSET Credits
        OBVIOUS
      <4> HIDE DEF Off
      <4> QED BY <1>0, <3>1, <4>1, SmallestSubset
    <3> QED BY <3>2
  <2>9. A(s) = IF s = {} THEN 0 ELSE Amount[Any(s)] + A(s \ {Any(s)})
    BY <2>2, <2>6, <2>7, <2>8
  <2> QED BY <2>9, <1>1 DEF AmountFollows, A
<1>2. Bad = {}
  <2>1. Bad \in SUBSET SUBSET Credits
    OBVIOUS
  <2> HIDE DEF Bad
  <2> QED BY <1>0, <1>1, <2>1, SmallestSubset
<1> QED BY <1>2

LEMMA AmountIsNat ==
    ASSUME NEW S \in SUBSET Credits
    PROVE  AmountOf(S) \in Nat
<1> DEFINE Bad == {s \in SUBSET Credits : AmountOf(s) \notin Nat}
<1>1. ASSUME NEW s \in Bad, \A t \in Bad : t \subseteq s => t = s PROVE FALSE
  <2>1. AmountFollows(s)
    BY AmountRecursion
  <2>2. s # {}
    BY <2>1 DEF AmountFollows
  <2>3. Any(s) \in s
    BY <2>2 DEF Any
  <2>4. AmountOf(s \ {Any(s)}) \in Nat
    BY <1>1, <2>3
  <2>5. Amount[Any(s)] \in Nat
    BY <2>3, CreditsAssumption
  <2> QED
    BY <2>1, <2>2, <2>4, <2>5 DEF AmountFollows
<1>2. Bad = {}
  <2>1. Bad \in SUBSET SUBSET Credits /\ IsFiniteSet(Credits)
    BY CreditsAssumption
  <2> HIDE DEF Bad
  <2> QED BY <1>1, <2>1, SmallestSubset
<1> QED BY <1>2

(* Any member may be taken out of a sum.                                   *)
LEMMA AmountWithout ==
    ASSUME NEW S \in SUBSET Credits, NEW a \in S
    PROVE  AmountOf(S) = Amount[a] + AmountOf(S \ {a})
<1> DEFINE Fine(s) == \A c \in s : AmountOf(s) = Amount[c] + AmountOf(s \ {c})
           Bad == {s \in SUBSET Credits : ~Fine(s)}
<1>1. ASSUME NEW s \in Bad, \A t \in Bad : t \subseteq s => t = s PROVE FALSE
  <2>1. PICK c \in s : AmountOf(s) # Amount[c] + AmountOf(s \ {c})
    OBVIOUS
  <2> DEFINE x == Any(s)
  <2>2. x \in s
    BY <2>1 DEF Any
  <2>3. AmountOf(s) = Amount[x] + AmountOf(s \ {x})
    BY <2>1, AmountRecursion DEF AmountFollows
  <2> HIDE DEF x
  <2>4. c # x
    BY <2>1, <2>3
  <2>5. Fine(s \ {x}) /\ Fine(s \ {c})
    BY <1>1, <2>1, <2>2
  <2>6. AmountOf(s \ {x}) = Amount[c] + AmountOf((s \ {x}) \ {c})
    BY <2>1, <2>4, <2>5
  <2>7. AmountOf(s \ {c}) = Amount[x] + AmountOf((s \ {c}) \ {x})
    BY <2>2, <2>4, <2>5
  <2>8. (s \ {x}) \ {c} = (s \ {c}) \ {x}
    OBVIOUS
  <2>9. /\ Amount[c] \in Nat /\ Amount[x] \in Nat
        /\ AmountOf((s \ {c}) \ {x}) \in Nat
    <3>1. c \in Credits /\ x \in Credits /\ (s \ {c}) \ {x} \in SUBSET Credits
      BY <2>1, <2>2
    <3>2. Amount[c] \in Nat /\ Amount[x] \in Nat
      BY <3>1, CreditsAssumption
    <3> QED
      BY <3>1, <3>2, AmountIsNat
  <2>10. Amount[x] + (Amount[c] + AmountOf((s \ {c}) \ {x}))
             = Amount[c] + (Amount[x] + AmountOf((s \ {c}) \ {x}))
    BY <2>9
  <2> QED
    BY <2>1, <2>3, <2>6, <2>7, <2>8, <2>10
<1>2. Bad = {}
  <2>1. Bad \in SUBSET SUBSET Credits /\ IsFiniteSet(Credits)
    BY CreditsAssumption
  <2> HIDE DEF Bad
  <2> QED BY <1>1, <2>1, SmallestSubset
<1> QED BY <1>2

LEMMA AmountMonotonic ==
    ASSUME NEW S \in SUBSET Credits, NEW D \in SUBSET S
    PROVE  AmountOf(D) <= AmountOf(S)
<1> DEFINE Fine(s) == \A d \in SUBSET s : AmountOf(d) <= AmountOf(s)
           Bad == {s \in SUBSET Credits : ~Fine(s)}
<1>1. ASSUME NEW s \in Bad, \A t \in Bad : t \subseteq s => t = s PROVE FALSE
  <2>1. PICK d \in SUBSET s : ~(AmountOf(d) <= AmountOf(s))
    OBVIOUS
  <2>2. AmountOf(d) \in Nat /\ AmountOf(s) \in Nat
    BY AmountIsNat
  <2>3. PICK a \in s : a \notin d
    BY <2>1, <2>2
  <2>4. AmountOf(d) <= AmountOf(s \ {a})
    BY <1>1, <2>3
  <2>5. AmountOf(s) = Amount[a] + AmountOf(s \ {a})
    BY <2>3, AmountWithout
  <2>6. Amount[a] \in Nat /\ AmountOf(s \ {a}) \in Nat
    BY <2>3, AmountIsNat, CreditsAssumption
  <2> QED
    BY <2>1, <2>2, <2>4, <2>5, <2>6
<1>2. Bad = {}
  <2>1. Bad \in SUBSET SUBSET Credits /\ IsFiniteSet(Credits)
    BY CreditsAssumption
  <2> HIDE DEF Bad
  <2> QED BY <1>1, <2>1, SmallestSubset
<1> QED BY <1>2

LEMMA AmountOfUnion ==
    ASSUME NEW D \in SUBSET Credits, NEW E \in SUBSET Credits, D \cap E = {}
    PROVE  AmountOf(D \cup E) = AmountOf(D) + AmountOf(E)
<1> DEFINE Adds(e) == AmountOf(D \cup e) = AmountOf(D) + AmountOf(e)
           Bad == {e \in SUBSET Credits : D \cap e = {} /\ ~Adds(e)}
<1>1. ASSUME NEW e \in Bad, \A t \in Bad : t \subseteq e => t = e PROVE FALSE
  <2>1. AmountOf(D) \in Nat /\ AmountOf(e) \in Nat
    BY AmountIsNat
  <2>2. e # {}
    <3>1. AmountOf({}) = 0
      BY AmountRecursion DEF AmountFollows
    <3>2. D \cup {} = D
      OBVIOUS
    <3>3. AmountOf(D) = AmountOf(D) + 0
      BY <2>1
    <3>4. Adds({})
      BY <3>1, <3>2, <3>3
    <3> QED
      BY <3>4
  <2>3. PICK a \in e : TRUE
    BY <2>2
  <2>4. AmountOf(D \cup (e \ {a})) = AmountOf(D) + AmountOf(e \ {a})
    <3>1. Adds(e \ {a})
      BY <1>1, <2>3
    <3> QED
      BY <3>1
  <2>5. (D \cup e) \ {a} = D \cup (e \ {a})
    BY <2>3
  <2>6. AmountOf(D \cup e) = Amount[a] + AmountOf((D \cup e) \ {a})
    BY <2>3, AmountWithout
  <2>7. AmountOf(e) = Amount[a] + AmountOf(e \ {a})
    BY <2>3, AmountWithout
  <2>8. Amount[a] \in Nat /\ AmountOf(e \ {a}) \in Nat
    BY <2>3, AmountIsNat, CreditsAssumption
  <2>9. AmountOf(D \cup e) = Amount[a] + (AmountOf(D) + AmountOf(e \ {a}))
    BY <2>4, <2>5, <2>6
  <2>10. Amount[a] + (AmountOf(D) + AmountOf(e \ {a}))
             = AmountOf(D) + (Amount[a] + AmountOf(e \ {a}))
    BY <2>1, <2>8
  <2>11. Adds(e)
    BY <2>7, <2>9, <2>10
  <2> QED
    BY <2>11
<1>2. Bad = {}
  <2>1. Bad \in SUBSET SUBSET Credits /\ IsFiniteSet(Credits)
    BY CreditsAssumption
  <2> HIDE DEF Bad
  <2> QED BY <1>1, <2>1, SmallestSubset
<1> QED BY <1>2

-----------------------------------------------------------------------------
(* Those among them that count against invoice i.                          *)
Counting(x, i) ==
    {c \in Ours(x) : IF x \in Issues THEN link[x] = i ELSE original[c] = i}

(* What a call has checked still holds: the invoice has room for what it   *)
(* was given back and for what the call may still give back.               *)
Room ==
    \A x \in Calls \ Closes : Live(x) /\ pc[x] # "check" =>
        \A i \in Invoices : Counting(x, i) # {} =>
            AmountOf(Credited(i) \cup Counting(x, i)) <= CreditLimit(i)

(* A note becomes credited when its call marks it.                         *)
LEMMA CreditedChanges ==
    ASSUME IInv, [Next]_vars, NEW c \in Credits,
           status'[c] \in Marked, status[c] \notin Marked
    PROVE  \E x \in Calls : pc[x] = "mark" /\ c \in group[x]
                            /\ (x \in Issues => Mark(x))
<1> USE DEF noteVars, callVars, voidVars, Marked
<1>0. status \in [Credits -> Statuses]
    BY DEF IInv, TypeOK
<1>1. ASSUME NEW e \in Credits, Create(e) \/ Cancel(e) \/ ClaimAges(e)
      PROVE  FALSE
    BY <1>0, <1>1
       DEF Create, CreateLookup, CreateCheck, CreateInsert, Cancel, ClaimAges
<1>2. ASSUME NEW x \in Calls, CallStart(x) PROVE FALSE
    BY <1>2 DEF CallStart, IssueRead, BatchRead, CloseRead
<1>3. ASSUME NEW x \in Calls, CallStep(x)
      PROVE  pc[x] = "mark" /\ c \in group[x] /\ (x \in Issues => Mark(x))
  <2>1. ASSUME NEW e \in Credits, IssueClaim(x, e) \/ ClaimOne(x, e) PROVE FALSE
    BY <1>0, <2>1 DEF IssueClaim, ClaimOne
  <2>2. ASSUME NEW left \in SUBSET Credits, CloseSetAside(x, left) PROVE FALSE
    BY <2>2 DEF CloseSetAside, SetStatus
  <2>3. ASSUME NEW freed \in SUBSET Credits, Reopen(x) \/ ReopenFails(x, freed)
        PROVE  FALSE
    BY <2>3 DEF Reopen, ReopenFails, SetStatus
  <2>4. CASE Mark(x)
    BY <2>4 DEF Mark, MarkAs, SetStatus, ToMark
  <2>5. ASSUME NEW written \in SUBSET Credits, MarkFails(x, written)
        PROVE  pc[x] = "mark" /\ c \in group[x] /\ x \notin Issues
    <3>1. c \in written /\ pc[x] = "mark" /\ written \subseteq ToMark(x)
          /\ (x \in Issues => written = {})
      BY <2>5 DEF MarkFails, MarkAs, SetStatus
    <3> QED
      BY <3>1 DEF ToMark
  <2>6. Reopen(x) => FALSE
    BY <2>3
  <2> QED
    BY <1>3, <2>1, <2>2, <2>3, <2>4, <2>5, <2>6
       DEF CallStep, IssueCheck, BatchCheck, ReadClaimed, Issue, IssueRejected,
           IssueLost, Record, RecordFails, Finish, Abort
<1>4. ASSUME NEW v \in Voids, VoidStep(v) PROVE FALSE
    BY <1>4 DEF VoidStep, VoidRead, VoidCheck, VoidIssue, VoidWrite
<1>5. ASSUME ReleaseStuckClaims PROVE FALSE
    BY <1>5 DEF ReleaseStuckClaims, SetStatus
<1> QED
    BY <1>1, <1>2, <1>3, <1>4, <1>5 DEF Next, Crash, vars, Calls

(* Room past the check: what is credited meanwhile comes out of the notes  *)
(* that the call counted.                                                  *)
LEMMA RoomStays ==
    ASSUME IInv, Alone, Linking, Room, [Next]_vars, NEW x \in Calls \ Closes,
           Live(x)', Live(x), pc[x] # "check", NEW i \in Invoices,
           Counting(x, i)' # {}
    PROVE  AmountOf(Credited(i)' \cup Counting(x, i)') <= CreditLimit(i)
<1>0. TypeOK /\ TypeOK' /\ x \in Calls
    BY NextType DEF IInv
<1>1. Ours(x)' \subseteq Ours(x) /\ link'[x] = link[x]
    BY OursShrinks
<1>2. x \in Issues => ~Mark(x)
  <2> SUFFICES ASSUME x \in Issues, Mark(x) PROVE FALSE
    OBVIOUS
  <2>1. group'[x] = {} /\ hand'[x] = hand[x] /\ pc[x] = "mark" /\ pc'[x] = "record"
    BY <1>0, CallsAssumption DEF Mark, Goto, TypeOK
  <2>2. hand[x] = {}
    BY <2>1, <1>0 DEF IInv, Phases
  <2>3. Ours(x)' = {}
    BY <2>1, <2>2 DEF Ours
  <2> QED
    BY <2>3 DEF Counting
<1>3. ASSUME NEW y \in Calls, pc[y] = "mark" PROVE y = x
    BY <1>0, <1>3 DEF Alone, Live
<1>4. ASSUME NEW c \in Ours(x), x \notin Issues
      PROVE  c \in Credits /\ original'[c] = original[c]
  <2>1. x \in Batches
    BY <1>4 DEF Calls
  <2> QED
    BY <1>4, <2>1, OursExist, ListKeepsOriginal
<1>5. Counting(x, i)' \subseteq Counting(x, i)
    BY <1>1, <1>4 DEF Counting
<1>6. Credited(i)' \subseteq Credited(i) \cup Counting(x, i)
  <2> SUFFICES ASSUME NEW c \in Credits, status'[c] \in Marked, original'[c] = i,
                      c \notin Counting(x, i)
               PROVE  c \in Credited(i)
    BY DEF Credited, Marked
  <2>1. status[c] \in Marked
    <3> SUFFICES ASSUME status[c] \notin Marked PROVE FALSE
      OBVIOUS
    <3>1. x \notin Issues /\ c \in group[x] /\ pc[x] = "mark"
      BY <1>2, <1>3, CreditedChanges
    <3>2. c \in Ours(x)
      BY <3>1 DEF Ours
    <3> QED
      BY <1>4, <3>1, <3>2 DEF Counting
  <2>2. original'[c] = original[c]
    <3>1. ~CreateInsert(c)
      BY <2>1 DEF CreateInsert, IInv, Creating, Marked
    <3>2. ASSUME NEW y \in Issues, Mark(y) PROVE FALSE
      <4>1. y = x
        BY <1>3, <3>2 DEF Mark, Calls
      <4> QED
        BY <1>2, <3>2, <4>1
    <3> QED
      BY <3>1, <3>2, OriginalChanges
  <2> QED
    BY <2>1, <2>2 DEF Credited, Marked
<1>7. AmountOf(Credited(i) \cup Counting(x, i)) <= CreditLimit(i)
  <2>1. Counting(x, i) # {}
    BY <1>5
  <2> QED
    BY <2>1 DEF Room
<1> DEFINE old == Credited(i) \cup Counting(x, i)
           new == Credited(i)' \cup Counting(x, i)'
<1>8. old \in SUBSET Credits /\ new \in SUBSET old /\ new \in SUBSET Credits
  <2>1. Counting(x, i) \subseteq Credits
    BY <1>0 DEF Counting, Ours, TypeOK
  <2> QED
    BY <1>5, <1>6, <2>1 DEF Credited
<1> HIDE DEF old, new
<1>9. AmountOf(new) <= AmountOf(old) /\ AmountOf(new) \in Nat /\ AmountOf(old) \in Nat
    BY <1>8, AmountMonotonic, AmountIsNat
<1>10. AmountOf(new) <= CreditLimit(i)
  <2>1. CreditLimit(i) \in Nat /\ AmountOf(old) <= CreditLimit(i)
    BY <1>7, CreditsAssumption DEF old, CreditLimit
  <2> QED
    BY <1>9, <2>1
<1> QED
    BY <1>10 DEF new

(* The check makes the room.                                               *)
LEMMA RoomChecked ==
    ASSUME NEW i \in Invoices, NEW D \in SUBSET Credits, NEW except,
           except = {} \/ except = D, CanBeCredited(i, D, except)
    PROVE  AmountOf(Credited(i) \cup D) <= CreditLimit(i)
<1> DEFINE C == Credited(i)
           rest == C \ D
<1>1. C \in SUBSET Credits /\ rest \in SUBSET Credits /\ rest \in SUBSET C
    BY DEF Credited
<1>2. AmountOf(C \ except) + AmountOf(D) <= CreditLimit(i)
    BY DEF CanBeCredited
<1> HIDE DEF C
<1>3. /\ AmountOf(rest) \in Nat /\ AmountOf(C) \in Nat /\ AmountOf(D) \in Nat
      /\ CreditLimit(i) \in Nat
    BY <1>1, AmountIsNat, CreditsAssumption DEF CreditLimit
<1>4. AmountOf(rest) + AmountOf(D) <= CreditLimit(i)
  <2>1. CASE except = D
    BY <1>2, <2>1
  <2>2. CASE except = {}
    <3>1. C \ except = C
      BY <2>2
    <3>2. AmountOf(rest) <= AmountOf(C)
      BY <1>1, AmountMonotonic
    <3>3. AmountOf(C) + AmountOf(D) <= CreditLimit(i)
      BY <1>2, <3>1
    <3> HIDE DEF rest
    <3> QED
      BY <1>3, <3>2, <3>3
  <2> QED
    BY <2>1, <2>2
<1>5. AmountOf(rest \cup D) = AmountOf(rest) + AmountOf(D)
  <2>1. rest \cap D = {}
    OBVIOUS
  <2> HIDE DEF rest
  <2> QED
    BY <1>1, <2>1, AmountOfUnion
<1>6. C \cup D = rest \cup D
    OBVIOUS
<1> QED
    BY <1>4, <1>5, <1>6 DEF C

LEMMA RoomKept ==
    ASSUME IInv, Alone, Linking, Room, [Next]_vars
    PROVE  Room'
<1>0. TypeOK /\ TypeOK'
    BY NextType DEF IInv
<1> SUFFICES ASSUME NEW x \in Calls \ Closes, Live(x)', pc'[x] # "check",
                    NEW i \in Invoices, Counting(x, i)' # {}
             PROVE  AmountOf(Credited(i)' \cup Counting(x, i)') <= CreditLimit(i)
    BY DEF Room
<1>1. CASE Live(x) /\ pc[x] # "check"
    BY <1>1, RoomStays
<1>2. CASE ~(Live(x) /\ pc[x] # "check")
  <2>1. /\ pc'[x] = "claim"
        /\ \/ IssueCheck(x) /\ CanBeCredited(link[x], todo[x], todo[x])
           \/ BatchCheck(x)
           \/ x \in Issues /\ link'[x] = None
    BY <1>2, Entering
  <2>2. ~(x \in Issues /\ link'[x] = None)
    BY CallsAssumption DEF Counting
  <2>3. /\ pc[x] = "check" /\ todo[x] \in SUBSET Credits
        /\ UNCHANGED <<holder, status, original, todo, link>>
    BY <1>0, <2>1, <2>2 DEF IssueCheck, BatchCheck, noteVars, TypeOK
  <2>4. Ours(x)' = todo[x] /\ Credited(i)' = Credited(i)
    <3>1. \A c \in Credits : holder[c] # x
      BY <2>3 DEF Linking
    <3> QED
      BY <2>1, <2>3, <3>1 DEF Ours, Credited
  <2> DEFINE D == {c \in todo[x] : IF x \in Issues THEN link[x] = i ELSE original[c] = i}
  <2>5. Counting(x, i)' = D /\ D # {} /\ D \in SUBSET Credits
    BY <2>3, <2>4 DEF Counting
  <2>6. CanBeCredited(i, D, {}) \/ CanBeCredited(i, D, D)
    <3>1. CASE IssueCheck(x) /\ CanBeCredited(link[x], todo[x], todo[x])
      <4>1. D = todo[x] /\ link[x] = i
        BY <2>5, <3>1 DEF IssueCheck
      <4> QED
        BY <3>1, <4>1
    <3>2. CASE BatchCheck(x)
      <4> DEFINE naming(j) == {c \in todo[x] : original[c] = j}
                 passes == \A j \in Invoices :
                               naming(j) # {} => CanBeCredited(j, naming(j), {})
      <4>1. Goto(x, IF passes THEN "claim" ELSE "done")
        BY <3>2 DEF BatchCheck
      <4>2. naming(i) = D
        BY <3>2, CallsAssumption DEF BatchCheck
      <4> HIDE DEF naming, D
      <4>3. passes
        BY <1>0, <2>1, <4>1 DEF Goto, TypeOK
      <4> QED
        BY <2>5, <4>2, <4>3
    <3> QED
      BY <2>1, <2>2, <3>1, <3>2
  <2>7. AmountOf(Credited(i) \cup D) <= CreditLimit(i)
    <3> HIDE DEF D
    <3> QED
      BY <2>5, <2>6, RoomChecked
  <2> QED
    BY <2>4, <2>5, <2>7
<1> QED
    BY <1>1, <1>2

(* A credit invoice in the making finds the earlier ones on their notes,   *)
(* and counted.                                                            *)
LEMMA RoomSuffices ==
    ASSUME IInv, AInv, Room, NEW x \in Calls \ Closes, NEW k \in Parts,
           Issue(x, k) \/ IssueLost(x, k), NEW i \in Invoices,
           GivenAgainst(<<x, k>>, i)' # {}
    PROVE  AmountOf(AllGivenAgainst(i)' \ incident') <= CreditLimit(i)
<1>0. TypeOK /\ x \in Calls /\ <<x, k>> \in DocNums
    BY DEF IInv, DocNums
<1>1. /\ pc[x] = "issue" /\ UNCHANGED <<original, link, status>>
      /\ given' = [given EXCEPT ![<<x, k>>] = OfPart(hand[x], k)]
      /\ incident \subseteq incident'
    BY DEF Issue, IssueLost, NextPart, noteVars
<1>2. Live(x) /\ pc[x] # "check" /\ Ours(x) = hand[x] \cup group[x]
    BY <1>1 DEF Live, Ours
<1>3. \A y \in Calls : group[y] = {}
  <2>1. \A y \in Calls : pc[y] \notin {"mark", "reopen"}
    BY <1>0, <1>1, <1>2 DEF AInv, Alone, Live
  <2> QED
    BY <2>1 DEF IInv, Phases
<1>4. given'[<<x, k>>] = OfPart(hand[x], k)
    BY <1>0, <1>1 DEF TypeOK
<1>5. GivenAgainst(<<x, k>>, i)' \subseteq Counting(x, i)
    BY <1>1, <1>2, <1>4 DEF GivenAgainst, Counting, OfPart
<1>6. ASSUME NEW d \in DocNums, d # <<x, k>>, NEW c \in GivenAgainst(d, i)',
             c \notin incident'
      PROVE  c \in Credited(i)
  <2>1. /\ c \in given[d] /\ c \in Sound /\ c \in Credits /\ d[1] \in Calls
        /\ IF d[1] \in Issues THEN link[d[1]] = i ELSE original[c] = i
    BY <1>0, <1>1, <1>6 DEF GivenAgainst, TypeOK, Sound, DocNums
  <2>2. status[c] \in Marked
    <3>1. holder[c] \in Calls \cup {None}
      BY <1>0, <2>1 DEF TypeOK
    <3> QED
      BY <1>3, <2>1, <3>1 DEF IInv, Claimed, Unclaimed
  <2>3. original[c] = i
    BY <1>3, <2>1, CallsAssumption DEF AInv, Based
  <2> QED
    BY <2>1, <2>2, <2>3 DEF Credited, Marked
<1> DEFINE sum == AllGivenAgainst(i)' \ incident'
           counted == Credited(i) \cup Counting(x, i)
<1>7. sum \subseteq counted /\ counted \in SUBSET Credits
  <2>1. Counting(x, i) \subseteq Credits
    BY <1>0, <1>2 DEF Counting, TypeOK
  <2> QED
    BY <1>5, <1>6, <2>1 DEF AllGivenAgainst, Credited
<1>8. AmountOf(counted) <= CreditLimit(i)
  <2>1. Counting(x, i) # {}
    BY <1>5
  <2> QED
    BY <1>2, <2>1 DEF Room
<1> HIDE DEF sum, counted
<1>9. AmountOf(sum) <= AmountOf(counted) /\ AmountOf(sum) \in Nat
      /\ AmountOf(counted) \in Nat /\ CreditLimit(i) \in Nat
    BY <1>7, AmountMonotonic, AmountIsNat, CreditsAssumption DEF CreditLimit
<1>10. AmountOf(sum) <= CreditLimit(i)
    BY <1>8, <1>9
<1> QED
    BY <1>10 DEF sum

(* With one thing under way at a time, no credit invoice brings what was   *)
(* given back against an invoice above what the invoice charged and one    *)
(* tolerance, for every amount, tolerance and number of notes, parts and   *)
(* calls, so that many small credits do not add up to more: the check is   *)
(* made before the claim, the claim may lose notes, and the credits of the *)
(* same batch, the netted ones and the relinked ones all count.            *)
THEOREM CreditsStayWithin ==
    ASSUME "overlap" \notin Faults
    PROVE  Spec => CreditStaysWithinInvoice
<1> DEFINE Within ==
        \A d \in DocNums : \A i \in Invoices :
            d[1] \notin Closes /\ given'[d] # given[d] /\ GivenAgainst(d, i)' # {} =>
                AmountOf(AllGivenAgainst(i)' \ incident') <= CreditLimit(i)
<1>1. Init => Room
    BY DEF Init, Room, Live
<1>2. IInv /\ AInv /\ Room /\ [Next]_vars => Room'
    BY RoomKept DEF AInv
<1>3. IInv /\ AInv /\ Room /\ [Next]_vars => [Within]_vars
  <2> SUFFICES ASSUME IInv, AInv, Room, [Next]_vars, NEW d \in DocNums,
                      NEW i \in Invoices, d[1] \notin Closes, given'[d] # given[d],
                      GivenAgainst(d, i)' # {}
               PROVE  AmountOf(AllGivenAgainst(i)' \ incident') <= CreditLimit(i)
    OBVIOUS
  <2>1. PICK x \in Calls, k \in Parts : (Issue(x, k) \/ IssueLost(x, k)) /\ d = <<x, k>>
    BY GivenChanges DEF IInv
  <2> QED
    BY <2>1, RoomSuffices
<1> QED
    BY <1>1, <1>2, <1>3, InductiveInvariant, AloneInvariant, PTL
       DEF Spec, CreditStaysWithinInvoice

-----------------------------------------------------------------------------
(* Steps that issue no credit and leave the call of each document where it *)
(* was, or outside the mark and the record.                                *)
LEMMA BalanceUntouched ==
    ASSUME CreditReachesBalance, UNCHANGED <<given, balance, current>>,
           incident \subseteq incident',
           \A x \in Calls : pc[x] \in {"mark", "record"} /\ x \notin Closes =>
               pc'[x] \in {"mark", "record"}
    PROVE  CreditReachesBalance'
<1> SUFFICES ASSUME NEW d \in DocNums, d[1] \notin Closes, given[d] # {},
                    given[d] \cap incident = {},
                    ~(pc'[d[1]] \in {"mark", "record"} /\ current[d[1]] = d)
             PROVE  d \in balance
    BY DEF CreditReachesBalance
<1>1. d[1] \in Calls
    BY DEF DocNums
<1> QED
    BY <1>1 DEF CreditReachesBalance

LEMMA BalanceKept ==
    ASSUME {"dbFails", "crash"} \cap Faults = {}, TypeOK, TypeOK',
           CreditReachesBalance, [Next]_vars
    PROVE  CreditReachesBalance'
<1> USE DEF noteVars, callVars, voidVars
<1>1. pc \in [Calls -> CallSteps] /\ given \in [DocNums -> SUBSET Credits]
      /\ current \in [Calls -> DocNums \cup {None}] /\ hand \in [Calls -> SUBSET Credits]
    BY DEF TypeOK
<1>2. ASSUME NEW x \in Calls,
             Goto(x, "mark") \/ Goto(x, "reopen") \/ Goto(x, "issue")
             \/ Goto(x, "done") \/ Goto(x, "claim") \/ Goto(x, "check")
             \/ Goto(x, "setAside") \/ Goto(x, "record") \/ UNCHANGED pc,
             pc[x] \notin {"mark", "record"} \/ x \in Closes
             \/ Goto(x, "record") \/ UNCHANGED pc
      PROVE  \A y \in Calls : pc[y] \in {"mark", "record"} /\ y \notin Closes =>
                 pc'[y] \in {"mark", "record"}
    BY <1>1, <1>2 DEF Goto
<1>3. ASSUME NEW c \in Credits, Create(c) \/ Cancel(c) \/ ClaimAges(c)
      PROVE  CreditReachesBalance'
  <2>1. UNCHANGED <<given, balance, current, pc>> /\ incident \subseteq incident'
    BY <1>3 DEF Create, CreateLookup, CreateCheck, CreateInsert, Cancel, ClaimAges
  <2> QED
    BY <2>1, BalanceUntouched
<1>4. ASSUME NEW x \in Calls, CallStart(x) PROVE CreditReachesBalance'
  <2>1. /\ UNCHANGED <<given, balance, current, incident>> /\ pc[x] = "idle"
        /\ Goto(x, "claim") \/ Goto(x, "check")
    BY <1>4 DEF CallStart, IssueRead, BatchRead, CloseRead
  <2> QED
    BY <2>1, <1>2, BalanceUntouched
<1>5. ASSUME NEW x \in Calls, CallStep(x) PROVE CreditReachesBalance'
  <2>1. CASE IssueCheck(x) \/ BatchCheck(x) \/ ReadClaimed(x) \/ Reopen(x) \/ Finish(x)
    <3>1. /\ UNCHANGED <<given, balance, current, incident>>
          /\ pc[x] \notin {"mark", "record"}
          /\ Goto(x, "claim") \/ Goto(x, "done") \/ Goto(x, "setAside")
             \/ Goto(x, "issue")
      BY <2>1 DEF IssueCheck, BatchCheck, ReadClaimed, Reopen, Finish, AfterGroup
    <3> QED
      BY <3>1, <1>2, BalanceUntouched
  <2>2. ASSUME NEW c \in Credits, IssueClaim(x, c) \/ ClaimOne(x, c)
        PROVE  CreditReachesBalance'
    <3>1. /\ UNCHANGED <<given, balance, current, incident>>
          /\ pc[x] \notin {"mark", "record"}
          /\ Goto(x, "issue") \/ Goto(x, "done") \/ UNCHANGED pc
      BY <2>2 DEF IssueClaim, ClaimOne
    <3> QED
      BY <3>1, <1>2, BalanceUntouched
  <2>3. ASSUME NEW left \in SUBSET Credits, CloseSetAside(x, left)
        PROVE  CreditReachesBalance'
    BY <2>3, <1>2, BalanceUntouched DEF CloseSetAside
  <2>4. ASSUME NEW k \in Parts, IssueRejected(x, k) PROVE CreditReachesBalance'
    <3> SUFFICES ASSUME NEW d \in DocNums, d[1] \notin Closes, given[d] # {},
                        given[d] \cap incident = {},
                        ~(pc'[d[1]] \in {"mark", "record"} /\ current'[d[1]] = d)
                 PROVE  d \in balance
      BY <2>4 DEF CreditReachesBalance, IssueRejected
    <3>1. d[1] \in Calls
      BY DEF DocNums
    <3>2. pc[x] = "issue" /\ \A y \in Calls \ {x} : pc'[y] = pc[y] /\ current'[y] = current[y]
      BY <1>1, <2>4 DEF IssueRejected, NextPart, Goto
    <3> QED
      BY <3>1, <3>2 DEF CreditReachesBalance
  <2>5. ASSUME NEW k \in Parts, Issue(x, k) \/ IssueLost(x, k)
        PROVE  CreditReachesBalance'
    <3> DEFINE own == <<x, k>>
               notes == OfPart(hand[x], k)
    <3>1. own \in DocNums /\ notes # {} /\ notes \subseteq Credits
      BY <1>1, <2>5 DEF DocNums, Issue, IssueLost, NextPart, OfPart
    <3>2. /\ pc[x] = "issue" /\ UNCHANGED balance
          /\ given' = [given EXCEPT ![own] = notes]
          /\ current' = [current EXCEPT ![x] = own]
          /\ \/ Goto(x, "mark") /\ UNCHANGED incident
             \/ Goto(x, "reopen") /\ incident' = incident \cup notes
      BY <2>5 DEF Issue, IssueLost, NextPart
    <3> HIDE DEF notes
    <3> SUFFICES ASSUME NEW d \in DocNums, d[1] \notin Closes, given'[d] # {},
                        given'[d] \cap incident' = {},
                        ~(pc'[d[1]] \in {"mark", "record"} /\ current'[d[1]] = d)
                 PROVE  d \in balance
      BY <3>2 DEF CreditReachesBalance
    <3>3. d[1] \in Calls
      BY DEF DocNums
    <3>4. CASE d = own
      <4>1. given'[d] = notes /\ current'[d[1]] = d /\ d[1] = x
        BY <1>1, <3>1, <3>2, <3>4
      <4>2. Goto(x, "reopen") /\ incident' = incident \cup notes
        BY <1>1, <3>2, <4>1 DEF Goto
      <4> QED
        BY <3>1, <4>1, <4>2
    <3>5. CASE d # own
      <4>1. given'[d] = given[d] /\ given[d] \cap incident = {}
        BY <1>1, <3>2, <3>5
      <4>2. d[1] # x => pc'[d[1]] = pc[d[1]] /\ current'[d[1]] = current[d[1]]
        BY <1>1, <3>2, <3>3 DEF Goto
      <4> QED
        BY <3>2, <4>1, <4>2 DEF CreditReachesBalance
    <3> QED
      BY <3>4, <3>5
  <2>6. CASE Mark(x)
    <3>1. /\ UNCHANGED <<given, balance, current, incident>>
          /\ (x \in Closes /\ Goto(x, "issue")) \/ Goto(x, "record")
      BY <2>6 DEF Mark
    <3> QED
      BY <3>1, <1>2, BalanceUntouched
  <2>7. CASE Record(x)
    <3>1. /\ UNCHANGED <<given, current, incident>>
          /\ balance' = balance \cup {current[x]}
          /\ \A y \in Calls \ {x} : pc'[y] = pc[y]
      BY <1>1, <2>7 DEF Record, Goto
    <3> SUFFICES ASSUME NEW d \in DocNums, d[1] \notin Closes, given[d] # {},
                        given[d] \cap incident = {},
                        ~(pc'[d[1]] \in {"mark", "record"} /\ current[d[1]] = d)
                 PROVE  d \in balance \cup {current[x]}
      BY <3>1 DEF CreditReachesBalance
    <3>2. d[1] \in Calls
      BY DEF DocNums
    <3> QED
      BY <3>1, <3>2 DEF CreditReachesBalance
  <2> QED
    BY <1>5, <2>1, <2>2, <2>3, <2>4, <2>5, <2>6, <2>7
       DEF CallStep, ReopenFails, MarkFails, RecordFails, Abort
<1>6. ASSUME NEW v \in Voids, VoidStep(v) PROVE CreditReachesBalance'
  <2>1. UNCHANGED <<given, balance, current, pc, incident>>
    BY <1>6 DEF VoidStep, VoidRead, VoidCheck, VoidIssue, VoidWrite
  <2> QED
    BY <2>1, BalanceUntouched
<1>7. CASE ReleaseStuckClaims \/ UNCHANGED vars
  <2>1. UNCHANGED <<given, balance, current, pc, incident>>
    BY <1>7 DEF ReleaseStuckClaims, vars
  <2> QED
    BY <2>1, BalanceUntouched
<1> QED
    BY <1>3, <1>4, <1>5, <1>6, <1>7 DEF Next, Crash

(* Where no write fails and no process dies, the money of every credit     *)
(* invoice whose call has gone on is in the balance of the customer, with  *)
(* as many clerks at work as one likes.                                    *)
THEOREM CreditsReachTheBalance ==
    ASSUME {"dbFails", "crash"} \cap Faults = {}
    PROVE  Spec => []CreditReachesBalance
<1>1. Init => CreditReachesBalance
    BY DEF Init, CreditReachesBalance
<1>2. TypeOK /\ TypeOK' /\ CreditReachesBalance /\ [Next]_vars => CreditReachesBalance'
    BY BalanceKept
<1> QED
    BY <1>1, <1>2, TypeCorrect, PTL DEF Spec

=============================================================================
