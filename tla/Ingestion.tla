----------------------------- MODULE Ingestion -----------------------------
(***************************************************************************)
(* Messages of one WhatsApp sender, the records they are collected in, and *)
(* the orders made of the records: lib/order-ingestion/index.js,           *)
(* createOrder.js and the handlers of incomingOrderController.js.          *)
(*                                                                         *)
(* A message joins the sender's record that is still collecting, or opens  *)
(* one; that of a stranger joins or opens a record that waits for a person.*)
(* When the sender has been quiet for a while the cron claims the record   *)
(* and reads it: it becomes an order, two orders that share its goods, an  *)
(* order that waits for the fix of its reading (an error order), or        *)
(* nothing.  People release a record early, have it read again, ignore it, *)
(* and approve error orders.                                               *)
(* The webhook answers first and works later, so that deliveries of one    *)
(* message, the cron and people all run between each other's awaits.       *)
(***************************************************************************)
EXTENDS Naturals, FiniteSets

CONSTANTS
    Messages,    \* messages; a record is named by the message that opened it
    Deliveries,  \* calls of the webhook
    MessageOf,   \* MessageOf[d]: the message that delivery d carries
    Cron,        \* the release that runs every minute
    Admins,      \* people at the screen of incoming orders
    MaxOrders,   \* bound: orders made
    MaxTogether, \* messages that fill a record (40 in the code)
    MaxActs,     \* bound: what people do
    MaxErrors,   \* bound: database calls that fail
    MaxCrashes,  \* bound: deaths of the process
    None

Procs  == Deliveries \cup {Cron} \cup Admins
Orders == 1..MaxOrders

ASSUME IngestionAssumption ==
    /\ IsFiniteSet(Deliveries)
    /\ MessageOf \in [Deliveries -> Messages]
    /\ Cron \notin Deliveries \cup Admins
    /\ Deliveries \cap Admins = {}
    /\ None \notin Messages
    /\ MaxOrders \in Nat /\ MaxTogether \in Nat
    /\ MaxActs \in Nat /\ MaxErrors \in Nat /\ MaxCrashes \in Nat

VARIABLES
    status,   \* status[r]: the record's status, "none" before there is one
    held,     \* held[r]: deliveries whose text the record holds
    due,      \* due[r]: has the record's processAfter come?
    kind,     \* kind[o]: what order o is
    from,     \* from[o]: the record it was made of
    text,     \* text[o]: the text it was made of
    share,    \* share[o]: which of the record's goods it has
    stock,    \* stock[o]: how often its goods left the stock
    noted,    \* orders a person issued a delivery note for
    pc,       \* pc[p]: where p stands
    rec,      \* rec[p]: the record in p's hands
    copy,     \* copy[p]: its text when p read it
    was,      \* was[p]: its status when p read it
    next,     \* next[p]: the status p is about to save
    made,     \* made[p]: the order p made or approved, not yet recorded
    parts,    \* parts[p]: the orders it came to, their goods still in stock
    todo,     \* todo[p]: records to claim
    doomed,   \* doomed[p]: error orders to delete
    acts,     \* what people did so far (bound)
    errors,   \* database errors so far (bound)
    crashes,  \* crashes so far (bound)
    resent,   \* messages delivered while a delivery of theirs ran (history)
    crossed,  \* records two hands worked on at once (history)
    lost,     \* records whose order was made and not recorded (history)
    late      \* deliveries whose text came after the reading (history)

recordVars == <<status, held, due>>
orderVars  == <<kind, from, text, share, stock, noted>>
workVars   == <<rec, copy, was, next, made, parts, todo, doomed>>
boundVars  == <<acts, errors, crashes>>
pastVars   == <<resent, crossed, lost, late>>
vars == <<recordVars, orderVars, pc, workVars, boundVars, pastVars>>

Closed  == {"received", "failed", "aside", "unknown", "order_created"}
Kinds   == {"none", "live", "error", "reread", "ignored", "unsplit"}
Shares  == {"rest", "disposables"}
Arrives == {"look", "append", "full", "insert", "known", "again", "single",
            "stranger", "alone"}
Works   == {"check", "process", "order", "split", "shrink", "unsplit", "stock",
            "existing", "error", "save", "find", "notes", "delete",
            "ifind", "idelete", "isave", "approve", "mark"}
Steps   == {"idle", "claim", "done", "dead"} \cup Arrives \cup Works

TypeOK ==
    /\ status \in [Messages -> {"none", "collecting"} \cup Closed]
    /\ held \in [Messages -> SUBSET Deliveries]
    /\ due \in [Messages -> BOOLEAN]
    /\ kind \in [Orders -> Kinds]
    /\ from \in [Orders -> Messages \cup {None}]
    /\ text \in [Orders -> SUBSET Deliveries]
    /\ share \in [Orders -> SUBSET Shares]
    /\ stock \in [Orders -> Nat]
    /\ noted \in SUBSET Orders
    /\ pc \in [Procs -> Steps]
    /\ rec \in [Procs -> Messages \cup {None}]
    /\ copy \in [Procs -> SUBSET Deliveries]
    /\ was \in [Procs -> {"none"} \cup Closed \cup {"collecting"}]
    /\ next \in [Procs -> {"none"} \cup Closed]
    /\ made \in [Procs -> 0..MaxOrders]
    /\ parts \in [Procs -> SUBSET Orders]
    /\ todo \in [Procs -> SUBSET Messages]
    /\ doomed \in [Procs -> SUBSET Orders]
    /\ acts \in 0..MaxActs /\ errors \in 0..MaxErrors /\ crashes \in 0..MaxCrashes
    /\ resent \in SUBSET Messages
    /\ crossed \in SUBSET Messages
    /\ lost \in SUBSET Messages
    /\ late \in SUBSET Deliveries
    /\ \A p \in Procs : pc[p] \in Works => rec[p] # None

Init ==
    /\ status = [r \in Messages |-> "none"]
    /\ held = [r \in Messages |-> {}]
    /\ due = [r \in Messages |-> FALSE]
    /\ kind = [o \in Orders |-> "none"]
    /\ from = [o \in Orders |-> None]
    /\ text = [o \in Orders |-> {}]
    /\ share = [o \in Orders |-> Shares]
    /\ stock = [o \in Orders |-> 0]
    /\ noted = {}
    /\ pc = [p \in Procs |-> "idle"]
    /\ rec = [p \in Procs |-> None]
    /\ copy = [p \in Procs |-> {}]
    /\ was = [p \in Procs |-> "none"]
    /\ next = [p \in Procs |-> "none"]
    /\ made = [p \in Procs |-> 0]
    /\ parts = [p \in Procs |-> {}]
    /\ todo = [p \in Procs |-> {}]
    /\ doomed = [p \in Procs |-> {}]
    /\ acts = 0 /\ errors = 0 /\ crashes = 0
    /\ resent = {} /\ crossed = {} /\ lost = {} /\ late = {}

Goto(p, s) == pc' = [pc EXCEPT ![p] = s]

(* Mutant: the cron's release is never over.                               *)
EndsNever(p) == IF p \in Deliveries THEN "done"
                ELSE IF p = Cron \/ todo[p] # {} THEN "claim" ELSE "idle"

(* A call ends; the claims of one release run one after the other.         *)
Ends(p) == IF p \in Deliveries THEN "done"
           ELSE IF todo[p] # {} THEN "claim" ELSE "idle"

Finish(p) ==
    /\ Goto(p, Ends(p))
    /\ rec' = [rec EXCEPT ![p] = None]
    /\ copy' = [copy EXCEPT ![p] = {}]
    /\ was' = [was EXCEPT ![p] = "none"]
    /\ next' = [next EXCEPT ![p] = "none"]
    /\ made' = [made EXCEPT ![p] = 0]
    /\ parts' = [parts EXCEPT ![p] = {}]
    /\ doomed' = [doomed EXCEPT ![p] = {}]
    /\ UNCHANGED todo

AtWork(r) == \E p \in Procs : pc[p] \in Works /\ rec[p] = r

(* The record is in p's hands, as it is now.                               *)
Take(p, r) ==
    /\ rec' = [rec EXCEPT ![p] = r]
    /\ copy' = [copy EXCEPT ![p] = held'[r]]
    /\ was' = [was EXCEPT ![p] = status'[r]]
    /\ crossed' = crossed \cup
           {x \in {r} : \E q \in Procs \ {p} : pc[q] \in Works /\ rec[q] = r}

Of(r, ks) == {o \in Orders : from[o] = r /\ kind[o] \in ks}

Act(a) == pc[a] = "idle" /\ acts < MaxActs /\ acts' = acts + 1

-----------------------------------------------------------------------------
(* ingestMessage and collectWhatsappMessage                                *)

Receive(d) ==
    /\ pc[d] = "idle"
    /\ Goto(d, "look")
    /\ resent' = resent \cup
           {m \in {MessageOf[d]} : \E e \in Deliveries \ {d} :
                                      MessageOf[e] = m /\ pc[e] \in Arrives}
    /\ UNCHANGED <<recordVars, orderVars, workVars, boundVars, crossed, lost, late>>

(* Mutant: the messages inside the records are not looked at.              *)
KnownByRecord(m) == status[m] # "none"

(* A record was opened by the message, or holds it.                        *)
Known(m) == \E r \in Messages : \E e \in held[r] : MessageOf[e] = m

(* The sender is a customer, or a stranger.                                *)
Look(d) ==
    /\ pc[d] = "look"
    /\ IF Known(MessageOf[d]) THEN Goto(d, "done")
       ELSE Goto(d, "append") \/ Goto(d, "stranger")
    /\ UNCHANGED <<recordVars, orderVars, workVars, boundVars, pastVars>>

Collecting == {r \in Messages : status[r] = "collecting"}

(* The text joins the record that is collecting, and the wait starts over. *)
Join(d, r) ==
    /\ status[r] = "collecting"
    /\ held' = [held EXCEPT ![r] = @ \cup {d}]
    /\ due' = [due EXCEPT ![r] = FALSE]

Append(d) ==
    /\ pc[d] = "append"
    /\ \/ \E r \in Messages :
             /\ Join(d, r)
             /\ IF Cardinality(held[r] \cup {d}) >= MaxTogether
                THEN Goto(d, "full") /\ rec' = [rec EXCEPT ![d] = r]
                ELSE Goto(d, "done") /\ UNCHANGED rec
       \/ /\ Collecting = {}
          /\ Goto(d, "insert")
          /\ UNCHANGED <<held, due, rec>>
    /\ UNCHANGED <<status, orderVars, copy, was, next, made, parts, todo, doomed,
                   boundVars, pastVars>>

(* A full record waits no longer.                                          *)
Full(d) ==
    /\ pc[d] = "full"
    /\ due' = [due EXCEPT ![rec[d]] = status[rec[d]] = "collecting"]
    /\ rec' = [rec EXCEPT ![d] = None]
    /\ Goto(d, "done")
    /\ UNCHANGED <<status, held, orderVars, copy, was, next, made, parts, todo,
                   doomed, boundVars, pastVars>>

Opened(d, s) ==
    /\ status' = [status EXCEPT ![MessageOf[d]] = s]
    /\ held' = [held EXCEPT ![MessageOf[d]] = {d}]

(* Two unique indexes: one record per externalId, one collecting record    *)
(* per sender.                                                             *)
Insert(d) ==
    /\ pc[d] = "insert"
    /\ IF status[MessageOf[d]] = "none" /\ Collecting = {}
       THEN Opened(d, "collecting") /\ Goto(d, "done")
       ELSE Goto(d, "known") /\ UNCHANGED <<status, held>>
    /\ UNCHANGED <<due, orderVars, workVars, boundVars, pastVars>>

KnownNow(d) ==
    /\ pc[d] = "known"
    /\ Goto(d, IF status[MessageOf[d]] # "none" THEN "done" ELSE "again")
    /\ UNCHANGED <<recordVars, orderVars, workVars, boundVars, pastVars>>

(* Mutant: a delivery whose second attempt finds no record gives up.       *)
AgainOrNever(d) ==
    /\ pc[d] = "again"
    /\ Goto(d, "done")
    /\ \/ \E r \in Messages : Join(d, r)
       \/ Collecting = {} /\ UNCHANGED <<held, due>>
    /\ UNCHANGED <<status, orderVars, workVars, boundVars, pastVars>>

Again(d) ==
    /\ pc[d] = "again"
    /\ \/ (\E r \in Messages : Join(d, r)) /\ Goto(d, "done")
       \/ Collecting = {} /\ Goto(d, "single") /\ UNCHANGED <<held, due>>
    /\ UNCHANGED <<status, orderVars, workVars, boundVars, pastVars>>

(* The record that was in the way is gone: the message stands alone.       *)
Single(d) ==
    /\ pc[d] = "single"
    /\ IF status[MessageOf[d]] = "none"
       THEN /\ Opened(d, "received")
            /\ Take(d, MessageOf[d])
            /\ Goto(d, "check")
       ELSE Goto(d, "done") /\ UNCHANGED <<status, held, rec, copy, was, crossed>>
    /\ UNCHANGED <<due, orderVars, next, made, parts, todo, doomed, boundVars,
                   resent, lost, late>>

(* rejectUnknownSender: the text joins a record of the stranger that is    *)
(* young and not full, also while a person has it read, or opens one.  One *)
(* message of the sender at a time (withPhoneQueue).                       *)
Stranger(d) ==
    /\ pc[d] = "stranger"
    /\ \A e \in Deliveries : pc[e] # "alone"
    /\ \/ \E r \in Messages :
             /\ status[r] = "unknown" /\ Cardinality(held[r]) < MaxTogether
             /\ held' = [held EXCEPT ![r] = @ \cup {d}]
             /\ late' = late \cup
                    {x \in {d} : AtWork(r) \/ \E o \in Orders : from[o] = r}
             /\ Goto(d, "done")
       \/ Goto(d, "alone") /\ UNCHANGED <<held, late>>
    /\ UNCHANGED <<status, due, orderVars, workVars, boundVars, resent, crossed, lost>>

Alone(d) ==
    /\ pc[d] = "alone"
    /\ IF status[MessageOf[d]] = "none"
       THEN Opened(d, "unknown")
       ELSE UNCHANGED <<status, held>>
    /\ Goto(d, "done")
    /\ UNCHANGED <<due, orderVars, workVars, boundVars, pastVars>>

Error == errors < MaxErrors /\ errors' = errors + 1

(* The sender has had the answer: a database call that fails is logged and *)
(* ends the delivery.                                                      *)
ArriveFails(d) ==
    /\ pc[d] \in Arrives
    /\ Error
    /\ rec' = [rec EXCEPT ![d] = None]
    /\ Goto(d, "dead")
    /\ UNCHANGED <<recordVars, orderVars, copy, was, next, made, parts, todo,
                   doomed, acts, crashes, pastVars>>

(* The sender has been quiet for the window, or the longest wait is over.  *)
WindowEnds(r) ==
    /\ status[r] = "collecting" /\ ~due[r]
    /\ due' = [due EXCEPT ![r] = TRUE]
    /\ UNCHANGED <<status, held, orderVars, pc, workVars, boundVars, pastVars>>

-----------------------------------------------------------------------------
(* releaseDue                                                              *)

(* The minute's run lists what is due.                                     *)
CronFind ==
    /\ pc[Cron] = "idle"
    /\ \E r \in Messages : status[r] = "collecting" /\ due[r]
    /\ todo' = [todo EXCEPT ![Cron] =
                   {r \in Messages : status[r] = "collecting" /\ due[r]}]
    /\ Goto(Cron, "claim")
    /\ UNCHANGED <<recordVars, orderVars, rec, copy, was, next, made, parts, doomed,
                   boundVars, pastVars>>

(* processCollectedNow, for one record.                                    *)
ReleaseNow(a, r) ==
    /\ Act(a)
    /\ status[r] = "collecting"
    /\ todo' = [todo EXCEPT ![a] = {r}]
    /\ Goto(a, "claim")
    /\ UNCHANGED <<recordVars, orderVars, rec, copy, was, next, made, parts, doomed,
                   errors, crashes, pastVars>>

(* Mutant: the record is read, and written as received when it is saved.   *)
ClaimByReading(p, r) ==
    /\ pc[p] = "claim"
    /\ r \in todo[p]
    /\ todo' = [todo EXCEPT ![p] = @ \ {r}]
    /\ IF status[r] = "collecting"
       THEN /\ UNCHANGED <<status, due, held>>
            /\ Take(p, r)
            /\ Goto(p, "check")
       ELSE /\ Goto(p, IF todo[p] = {r} THEN "idle" ELSE "claim")
            /\ UNCHANGED <<status, due, held, rec, copy, was, crossed>>
    /\ UNCHANGED <<orderVars, next, made, parts, doomed, boundVars, resent, lost, late>>

Claim(p, r) ==
    /\ pc[p] = "claim"
    /\ r \in todo[p]
    /\ todo' = [todo EXCEPT ![p] = @ \ {r}]
    /\ IF status[r] = "collecting"
       THEN /\ status' = [status EXCEPT ![r] = "received"]
            /\ due' = [due EXCEPT ![r] = FALSE]
            /\ UNCHANGED held
            /\ Take(p, r)
            /\ Goto(p, "check")
       ELSE /\ Goto(p, IF todo[p] = {r} THEN "idle" ELSE "claim")
            /\ UNCHANGED <<status, due, held, rec, copy, was, crossed>>
    /\ UNCHANGED <<orderVars, next, made, parts, doomed, boundVars, resent, lost, late>>

(* finishIngestion: is the sender still a customer?                        *)
Check(p) ==
    /\ pc[p] = "check"
    /\ \/ Goto(p, "process") /\ UNCHANGED next
       \/ Goto(p, "save") /\ next' = [next EXCEPT ![p] = "unknown"]
    /\ UNCHANGED <<recordVars, orderVars, rec, copy, was, made, parts, todo, doomed,
                   boundVars, pastVars>>

(* The record stays received.                                              *)
CheckFails(p) ==
    /\ pc[p] = "check"
    /\ Error
    /\ Finish(p)
    /\ UNCHANGED <<recordVars, orderVars, acts, crashes, pastVars>>

-----------------------------------------------------------------------------
(* processIncomingOrder                                                    *)

(* The text is read.  It is no order; it cannot be read and belongs to no  *)
(* customer; it can become an order; it cannot.                            *)
Process(p) ==
    /\ pc[p] = "process"
    /\ \/ /\ \E s \in {"aside", "failed"} : next' = [next EXCEPT ![p] = s]
          /\ Goto(p, "save")
       \/ Goto(p, "order") /\ UNCHANGED next
       \/ Goto(p, "existing") /\ next' = [next EXCEPT ![p] = "failed"]
    /\ UNCHANGED <<recordVars, orderVars, rec, copy, was, made, parts, todo, doomed,
                   boundVars, pastVars>>

Number == 1 + Cardinality({o \in Orders : kind[o] # "none"})

(* saveOrder, for the record in p's hands.                                 *)
New(p, k, t, goods) ==
    /\ Number \in Orders
    /\ kind' = [kind EXCEPT ![Number] = k]
    /\ from' = [from EXCEPT ![Number] = rec[p]]
    /\ text' = [text EXCEPT ![Number] = t]
    /\ share' = [share EXCEPT ![Number] = goods]

MakeOrder(p) ==
    /\ pc[p] = "order"
    /\ \/ /\ New(p, "live", copy[p], Shares)
          /\ made' = [made EXCEPT ![p] = Number]
          /\ parts' = [parts EXCEPT ![p] = {Number}]
          /\ Goto(p, "split")
          /\ UNCHANGED next
       \/ /\ next' = [next EXCEPT ![p] = "failed"]
          /\ Goto(p, "existing")
          /\ UNCHANGED <<kind, from, text, share, made, parts>>
    /\ UNCHANGED <<recordVars, stock, noted, rec, copy, was, todo, doomed,
                   boundVars, pastVars>>

(* splitDisposablesOrder.  The customer takes all in one order, or the     *)
(* second cannot be saved; or the disposables get an order of their own    *)
(* and are taken out of the first one.                                     *)
Split(p) ==
    /\ pc[p] = "split"
    /\ \/ Goto(p, "stock") /\ UNCHANGED <<kind, from, text, share, parts>>
       \/ /\ New(p, "live", text[made[p]], {"disposables"})
          /\ parts' = [parts EXCEPT ![p] = @ \cup {Number}]
          /\ Goto(p, "shrink")
    /\ UNCHANGED <<recordVars, stock, noted, rec, copy, was, next, made, todo, doomed,
                   boundVars, pastVars>>

(* An order that somebody removed meanwhile cannot be saved.               *)
Shrink(p) ==
    /\ pc[p] = "shrink"
    /\ IF kind[made[p]] = "live"
       THEN share' = [share EXCEPT ![made[p]] = {"rest"}] /\ Goto(p, "stock")
       ELSE Goto(p, "unsplit") /\ UNCHANGED share
    /\ UNCHANGED <<recordVars, kind, from, text, stock, noted, workVars,
                   boundVars, pastVars>>

ShrinkFails(p) ==
    /\ pc[p] = "shrink"
    /\ Error
    /\ Goto(p, "unsplit")
    /\ UNCHANGED <<recordVars, orderVars, workVars, acts, crashes, pastVars>>

(* The second order is deleted, and the first one stays as it was.         *)
Unsplit(p) ==
    /\ pc[p] = "unsplit"
    /\ kind' = [o \in Orders |-> IF o \in parts[p] \ {made[p]} THEN "unsplit"
                                 ELSE kind[o]]
    /\ parts' = [parts EXCEPT ![p] = {made[p]}]
    /\ Goto(p, "stock")
    /\ UNCHANGED <<recordVars, from, text, share, stock, noted, rec, copy, was, next,
                   made, todo, doomed, boundVars, pastVars>>

(* Both stay, and the log asks a person to delete the second one.          *)
UnsplitFails(p) ==
    /\ pc[p] = "unsplit"
    /\ Error
    /\ lost' = lost \cup {rec[p]}
    /\ parts' = [parts EXCEPT ![p] = {made[p]}]
    /\ Goto(p, "stock")
    /\ UNCHANGED <<recordVars, orderVars, rec, copy, was, next, made, todo, doomed,
                   acts, crashes, resent, crossed, late>>

TakeFromStock(o) == stock' = [stock EXCEPT ![o] = @ + 1]

(* An approval knows from the start what it writes to the record.          *)
Approves(p) == next[p] = "order_created"

(* One order after the other.                                              *)
Stock(p) ==
    /\ pc[p] = "stock"
    /\ \E o \in parts[p] :
          /\ \A u \in parts[p] : o <= u
          /\ TakeFromStock(o)
          /\ parts' = [parts EXCEPT ![p] = @ \ {o}]
          /\ IF parts[p] # {o} THEN UNCHANGED <<pc, next>>
             ELSE /\ Goto(p, IF Approves(p) THEN "mark" ELSE "save")
                  /\ next' = [next EXCEPT ![p] = "order_created"]
    /\ UNCHANGED <<recordVars, kind, from, text, share, noted, rec, copy, was, made,
                   todo, doomed, boundVars, pastVars>>

(* Mutant: an order that exists already is not looked for.                 *)
ExistingUnseen(p) ==
    /\ pc[p] = "existing"
    /\ Goto(p, "error")
    /\ UNCHANGED <<recordVars, orderVars, workVars, boundVars, pastVars>>

(* failWith: an order that was saved before the failure is enough.         *)
Existing(p) ==
    /\ pc[p] = "existing"
    /\ Goto(p, IF Of(rec[p], {"live", "error"}) # {} THEN "save" ELSE "error")
    /\ UNCHANGED <<recordVars, orderVars, workVars, boundVars, pastVars>>

(* The error order; when it cannot be made the record alone tells.         *)
MakeError(p) ==
    /\ pc[p] = "error"
    /\ New(p, "error", copy[p], Shares) \/ UNCHANGED <<kind, from, text, share>>
    /\ Goto(p, "save")
    /\ UNCHANGED <<recordVars, stock, noted, workVars, boundVars, pastVars>>

(* The record of an order that is made and that it does not tell of.      *)
Unrecorded(p) == IF made[p] = 0 THEN {} ELSE {rec[p]}

(* The save writes a status that is not the one that was read.             *)
Save(p) ==
    /\ pc[p] = "save"
    /\ status' = [status EXCEPT ![rec[p]] = IF next[p] = was[p] THEN @ ELSE next[p]]
    /\ due' = [due EXCEPT ![rec[p]] = @ /\ status'[rec[p]] = "collecting"]
    /\ lost' = lost \cup (IF next[p] = "failed" THEN Unrecorded(p) ELSE {})
    /\ Finish(p)
    /\ UNCHANGED <<held, orderVars, boundVars, resent, crossed, late>>

(* The save of a success fails and becomes a failure, with a customer or   *)
(* without; the save of a failure, or of a stranger's record, is not tried *)
(* again.                                                                  *)
SaveFails(p) ==
    /\ pc[p] = "save"
    /\ Error
    /\ lost' = lost \cup (IF next[p] = "failed" THEN Unrecorded(p) ELSE {})
    /\ CASE next[p] \in {"failed", "unknown"} -> Finish(p)
         [] next[p] = "order_created" ->
              /\ next' = [next EXCEPT ![p] = "failed"]
              /\ Goto(p, "existing")
              /\ UNCHANGED <<rec, copy, was, made, parts, todo, doomed>>
         [] next[p] = "aside" ->
              /\ next' = [next EXCEPT ![p] = "failed"]
              /\ UNCHANGED <<pc, rec, copy, was, made, parts, todo, doomed>>
    /\ UNCHANGED <<recordVars, orderVars, acts, crashes, resent, crossed, late>>

-----------------------------------------------------------------------------
(* reprocess                                                               *)

(* A record that still collects is released; one that became an order is   *)
(* refused, on the reading.                                                *)
ReprocessRead(a, r) ==
    /\ Act(a)
    /\ status[r] \notin {"none", "order_created"}
    /\ UNCHANGED recordVars
    /\ IF status[r] = "collecting"
       THEN /\ todo' = [todo EXCEPT ![a] = {r}]
            /\ Goto(a, "claim")
            /\ UNCHANGED <<rec, copy, was, crossed>>
       ELSE /\ Take(a, r)
            /\ Goto(a, "find")
            /\ UNCHANGED todo
    /\ UNCHANGED <<orderVars, next, made, parts, doomed, errors, crashes,
                   resent, lost, late>>

(* Mutant: an approved error order counts as one.                          *)
ErrorsOrApproved(r) == Of(r, {"error", "live"})

(* The error orders of the message that no person has approved.            *)
ErrorsOf(r) == Of(r, {"error"})

ReprocessFind(p) ==
    /\ pc[p] = "find"
    /\ doomed' = [doomed EXCEPT ![p] = ErrorsOf(rec[p])]
    /\ Goto(p, IF doomed'[p] # {} THEN "notes" ELSE "process")
    /\ UNCHANGED <<recordVars, orderVars, rec, copy, was, next, made, parts, todo,
                   boundVars, pastVars>>

(* An error order with a delivery note is not read again.                  *)
ReprocessNotes(p) ==
    /\ pc[p] = "notes"
    /\ IF doomed[p] \cap noted # {}
       THEN Finish(p)
       ELSE Goto(p, "delete") /\ UNCHANGED workVars
    /\ UNCHANGED <<recordVars, orderVars, boundVars, pastVars>>

Delete(p, k, after) ==
    \E o \in doomed[p] :
        /\ kind' = [kind EXCEPT ![o] = IF @ \in {"live", "error"} THEN k ELSE @]
        /\ doomed' = [doomed EXCEPT ![p] = @ \ {o}]
        /\ Goto(p, IF doomed[p] = {o} THEN after ELSE pc[p])
        /\ UNCHANGED <<recordVars, from, text, share, stock, noted, rec, copy, was,
                       next, made, parts, todo, boundVars, pastVars>>

ReprocessDelete(p) == pc[p] = "delete" /\ Delete(p, "reread", "process")

-----------------------------------------------------------------------------
(* ignoreIncomingOrder; the note of an error order is not looked at.       *)

IgnoreRead(a, r) ==
    /\ Act(a)
    /\ status[r] \notin {"none", "order_created"}
    /\ UNCHANGED recordVars
    /\ Take(a, r)
    /\ next' = [next EXCEPT ![a] = "aside"]
    /\ Goto(a, "ifind")
    /\ UNCHANGED <<orderVars, made, parts, todo, doomed, errors, crashes,
                   resent, lost, late>>

IgnoreFind(p) ==
    /\ pc[p] = "ifind"
    /\ doomed' = [doomed EXCEPT ![p] = ErrorsOf(rec[p])]
    /\ Goto(p, IF doomed'[p] # {} THEN "idelete" ELSE "isave")
    /\ UNCHANGED <<recordVars, orderVars, rec, copy, was, next, made, parts, todo,
                   boundVars, pastVars>>

IgnoreDelete(p) == pc[p] = "idelete" /\ Delete(p, "ignored", "isave")

IgnoreSave(p) ==
    /\ pc[p] = "isave"
    /\ \/ /\ status' = [status EXCEPT ![rec[p]] = IF was[p] = "aside" THEN @ ELSE "aside"]
          /\ due' = [due EXCEPT ![rec[p]] = @ /\ status'[rec[p]] = "collecting"]
          /\ UNCHANGED errors
       \/ Error /\ UNCHANGED <<status, due>>
    /\ Finish(p)
    /\ UNCHANGED <<held, orderVars, acts, crashes, pastVars>>

-----------------------------------------------------------------------------
(* approveErrorOrder                                                       *)

ApproveRead(a, o) ==
    /\ Act(a)
    /\ kind[o] = "error"
    /\ UNCHANGED recordVars
    /\ Take(a, from[o])
    /\ made' = [made EXCEPT ![a] = o]
    /\ next' = [next EXCEPT ![a] = "order_created"]
    /\ Goto(a, "approve")
    /\ UNCHANGED <<orderVars, parts, todo, doomed, errors, crashes, resent, lost, late>>

(* Mutant: the approval writes what it decided on its reading.             *)
ApproveAnyway(p) ==
    /\ pc[p] = "approve"
    /\ kind' = [kind EXCEPT ![made[p]] = "live"]
    /\ parts' = [parts EXCEPT ![p] = {made[p]}]
    /\ Goto(p, "split")
    /\ UNCHANGED <<recordVars, from, text, share, stock, noted, rec, copy, was, next,
                   made, todo, doomed, boundVars, pastVars>>

(* The order becomes a live one if it still is an error order; then it is  *)
(* split, and its goods leave the stock, as those of a new order.          *)
ApproveClaim(p) ==
    /\ pc[p] = "approve"
    /\ IF kind[made[p]] = "error"
       THEN /\ kind' = [kind EXCEPT ![made[p]] = "live"]
            /\ parts' = [parts EXCEPT ![p] = {made[p]}]
            /\ Goto(p, "split")
            /\ UNCHANGED <<rec, copy, was, next, made, todo, doomed>>
       ELSE Finish(p) /\ UNCHANGED kind
    /\ UNCHANGED <<recordVars, from, text, share, stock, noted, boundVars, pastVars>>

(* Mutant: an approval leaves the record as it is.                         *)
MarkNothing(p) ==
    /\ pc[p] = "mark"
    /\ Finish(p)
    /\ UNCHANGED <<recordVars, orderVars, boundVars, pastVars>>

Mark(p) ==
    /\ pc[p] = "mark"
    /\ status' = [status EXCEPT ![rec[p]] = "order_created"]
    /\ Finish(p)
    /\ UNCHANGED <<held, due, orderVars, boundVars, pastVars>>

(* The reading of the customer after the claim, or the last write, fails.  *)
ApproveFails(p) ==
    /\ (pc[p] = "split" /\ Approves(p)) \/ pc[p] = "mark"
    /\ Error
    /\ lost' = lost \cup Unrecorded(p)
    /\ Finish(p)
    /\ UNCHANGED <<recordVars, orderVars, acts, crashes, resent, crossed, late>>

-----------------------------------------------------------------------------
(* A person types a manual delivery note for an error order.               *)
IssueNote(o) ==
    /\ acts < MaxActs
    /\ acts' = acts + 1
    /\ kind[o] = "error"
    /\ noted' = noted \cup {o}
    /\ crossed' = crossed \cup
           {r \in {from[o]} : \E q \in Procs : pc[q] \in Works /\ rec[q] = r}
    /\ UNCHANGED <<recordVars, kind, from, text, share, stock, pc, workVars, errors,
                   crashes, resent, lost, late>>

(* The process dies; the records and the orders stay.                      *)
Crash ==
    /\ crashes < MaxCrashes
    /\ crashes' = crashes + 1
    /\ pc' = [p \in Procs |-> IF p \in Deliveries /\ pc[p] # "idle"
                              THEN IF pc[p] = "done" THEN "done" ELSE "dead"
                              ELSE "idle"]
    /\ lost' = lost \cup {r \in Messages : \E p \in Procs :
                             pc[p] \in Works \ {"approve"} /\ r \in Unrecorded(p)}
    /\ rec' = [p \in Procs |-> None]
    /\ copy' = [p \in Procs |-> {}]
    /\ was' = [p \in Procs |-> "none"]
    /\ next' = [p \in Procs |-> "none"]
    /\ made' = [p \in Procs |-> 0]
    /\ parts' = [p \in Procs |-> {}]
    /\ todo' = [p \in Procs |-> {}]
    /\ doomed' = [p \in Procs |-> {}]
    /\ UNCHANGED <<recordVars, orderVars, acts, errors, resent, crossed, late>>

-----------------------------------------------------------------------------
DeliveryStep(d) ==
    \/ Look(d) \/ Append(d) \/ Full(d) \/ Insert(d) \/ KnownNow(d)
    \/ Again(d) \/ Single(d) \/ Stranger(d) \/ Alone(d)

WorkStep(p) ==
    \/ (\E r \in Messages : Claim(p, r))
    \/ Check(p) \/ Process(p) \/ MakeOrder(p) \/ Split(p) \/ Shrink(p) \/ Unsplit(p)
    \/ Stock(p) \/ Existing(p) \/ MakeError(p) \/ Save(p)
    \/ ReprocessFind(p) \/ ReprocessNotes(p) \/ ReprocessDelete(p)
    \/ IgnoreFind(p) \/ IgnoreDelete(p) \/ IgnoreSave(p)
    \/ ApproveClaim(p) \/ Mark(p)

Fault(p) ==
    \/ CheckFails(p) \/ ShrinkFails(p) \/ UnsplitFails(p)
    \/ SaveFails(p) \/ ApproveFails(p)

Press(a) ==
    \/ \E r \in Messages : ReleaseNow(a, r) \/ ReprocessRead(a, r) \/ IgnoreRead(a, r)
    \/ \E o \in Orders : ApproveRead(a, o)

Next ==
    \/ \E d \in Deliveries : Receive(d) \/ DeliveryStep(d) \/ ArriveFails(d)
    \/ \E r \in Messages : WindowEnds(r)
    \/ CronFind
    \/ \E p \in Procs : WorkStep(p) \/ Fault(p)
    \/ \E a \in Admins : Press(a)
    \/ \E o \in Orders : IssueNote(o)
    \/ Crash

Spec == Init /\ [][Next]_vars

(* Node runs what is waiting, the clock goes on, and the cron runs.        *)
FairSpec ==
    /\ Spec
    /\ \A d \in Deliveries : WF_vars(DeliveryStep(d))
    /\ \A r \in Messages : WF_vars(WindowEnds(r))
    /\ WF_vars(CronFind)
    /\ \A p \in Procs : WF_vars(WorkStep(p))

-----------------------------------------------------------------------------
(* A delivery that ended as it should left its message in a record,        *)
(* whatever happened meanwhile to the record it was about to join or to    *)
(* open (index.js:1108-1127); one that died or met a failing database did  *)
(* not end so, and its message may be nowhere.                             *)
DeliveredIsHeld ==
    \A d \in Deliveries : pc[d] = "done" =>
        \E r \in Messages : \E e \in held[r] : MessageOf[e] = MessageOf[d]

(* A message that is sent again is not taken up again, in its own record   *)
(* or in another's, whatever became of the record since (index.js:1511),   *)
(* unless both deliveries ran at once.                                     *)
TakenUpOnce ==
    \A d, e \in UNION {held[r] : r \in Messages} :
        d # e /\ MessageOf[d] = MessageOf[e] => MessageOf[d] \in resent

(* An order stands for all that its record holds: what the sender writes   *)
(* while the record is read goes to another one (index.js:1457).  Only the *)
(* record of a stranger takes in more while a person has it read, or when  *)
(* its order could not be recorded; that text is in no order.              *)
OrderIsWhole ==
    \A o \in Orders : kind[o] # "none" =>
        /\ text[o] \subseteq held[from[o]]
        /\ held[from[o]] \ text[o] \subseteq late

(* The goods of a message are ordered once, however often it is read again *)
(* and wherever the process died in between (index.js:549, 1876): two      *)
(* orders of it that count have no goods in common, but for the moment     *)
(* between saving the second and shrinking the first                       *)
(* (disposablesSplit.js:83-115); unless two hands worked on the message at *)
(* once or its order was never recorded.                                   *)
GoodsOrderedOnce ==
    \A r \in Messages \ (crossed \cup lost) :
        \A o, u \in Of(r, {"live", "error"}) :
            \/ o = u \/ share[o] \cap share[u] = {}
            \/ \E p \in Procs : pc[p] \in {"shrink", "unsplit"} /\ parts[p] = {o, u}

(* While nobody works on it, a record that says it became an order has a   *)
(* live order, and the record of a live order says so, with the same two   *)
(* exceptions.                                                             *)
RecordTellsTheTruth ==
    \A r \in Messages \ (crossed \cup lost) :
        ~AtWork(r) => (status[r] = "order_created" <=> Of(r, {"live"}) # {})

(* The goods of an order leave the stock once, however many people approve *)
(* it at the same moment (incomingOrderController.js:593).                 *)
StockOnce == \A o \in Orders : stock[o] <= 1

(* An order that is removed had taken nothing from the stock, be it an     *)
(* error order or the second of a split that failed, and reading a message *)
(* again leaves no delivery note of the removed error order that a month   *)
(* close would charge (incomingOrderController.js:471, index.js:1928-1937, *)
(* disposablesSplit.js:119), unless two hands worked on the message.       *)
RemovedLeavesNothing ==
    \A o \in Orders :
        kind[o] \in {"reread", "ignored", "unsplit"} /\ from[o] \notin crossed =>
        /\ stock[o] = 0
        /\ kind[o] = "reread" => o \notin noted

(* A record does not collect for ever, whatever dies or fails in between   *)
(* (incomingOrderController.js:1251), and one that was claimed is read to  *)
(* the end, unless the process died or a save failed: then it may stay as  *)
(* received for a person to find.                                          *)
EventuallyRead ==
    \A r \in Messages :
        status[r] \in {"collecting", "received"} ~>
            \/ status[r] \in {"failed", "aside", "unknown", "order_created"}
            \/ status[r] = "received" /\ crashes + errors > 0
=============================================================================
