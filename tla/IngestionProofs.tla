-------------------------- MODULE IngestionProofs --------------------------
(***************************************************************************)
(* Proofs about Ingestion, for any number of messages, deliveries and      *)
(* people, and any number of errors and crashes.                           *)
(***************************************************************************)
EXTENDS Ingestion, FiniteSetTheorems, TLAPS

(* Where a call has the record as it was read, and may make an order of it.*)
Making == {"check", "process", "order", "split", "shrink", "unsplit", "stock",
           "existing", "error", "save", "find", "notes", "delete", "approve"}

(* Where it has orders of the record whose goods are still in stock.       *)
Splitting == {"split", "shrink", "unsplit"}
Parting   == Splitting \cup {"stock"}

(* The text is all the record holds, but for what came after the reading.  *)
Whole(t, r) == t \subseteq held[r] /\ held[r] \ t \subseteq late

(* What a call has in hand.                                                *)
Hand(p) ==
    /\ pc[p] \in Making => status[rec[p]] \in Closed /\ Whole(copy[p], rec[p])
    /\ pc[p] \in Works => status[rec[p]] # "none"
    /\ pc[p] = "full" => rec[p] # None
    /\ pc[p] = "save" => next[p] \in {"aside", "failed", "unknown", "order_created"}
    /\ pc[p] \in {"existing", "error"} => next[p] = "failed"
    /\ pc[p] \in Parting \cup {"approve", "mark"} => made[p] # 0
    /\ pc[p] \in Splitting => made[p] \in parts[p]
    /\ pc[p] \notin Parting => parts[p] = {}
    /\ \A o \in parts[p] : kind[o] # "none" /\ from[o] = rec[p]
    /\ made[p] # 0 => kind[made[p]] # "none" /\ from[made[p]] = rec[p]
    /\ \A o \in doomed[p] : kind[o] # "none" /\ from[o] = rec[p]
    /\ pc[p] \notin Works => made[p] = 0 /\ doomed[p] = {}
    /\ p \in Deliveries => pc[p] # "claim"

(* What an order is made of.                                               *)
MadeOf(o) ==
    kind[o] # "none" =>
        /\ from[o] # None
        /\ status[from[o]] \in Closed
        /\ Whole(text[o], from[o])

Hands ==
    /\ \A p \in Procs : Hand(p)
    /\ \A o \in Orders : MadeOf(o)
    /\ \A o, u \in Orders : kind[o] # "none" /\ u < o => kind[u] # "none"

(* The type invariant in four parts.                                       *)
RecordOK ==
    /\ status \in [Messages -> {"none", "collecting"} \cup Closed]
    /\ held \in [Messages -> SUBSET Deliveries]
    /\ due \in [Messages -> BOOLEAN]

OrderOK ==
    /\ kind \in [Orders -> Kinds]
    /\ from \in [Orders -> Messages \cup {None}]
    /\ text \in [Orders -> SUBSET Deliveries]
    /\ share \in [Orders -> SUBSET Shares]
    /\ stock \in [Orders -> Nat]
    /\ noted \in SUBSET Orders

WorkOK ==
    /\ pc \in [Procs -> Steps]
    /\ rec \in [Procs -> Messages \cup {None}]
    /\ copy \in [Procs -> SUBSET Deliveries]
    /\ was \in [Procs -> {"none"} \cup Closed \cup {"collecting"}]
    /\ next \in [Procs -> {"none"} \cup Closed]
    /\ made \in [Procs -> 0..MaxOrders]
    /\ parts \in [Procs -> SUBSET Orders]
    /\ todo \in [Procs -> SUBSET Messages]
    /\ doomed \in [Procs -> SUBSET Orders]
    /\ \A p \in Procs : pc[p] \in Works => rec[p] # None

PastOK ==
    /\ acts \in 0..MaxActs /\ errors \in 0..MaxErrors /\ crashes \in 0..MaxCrashes
    /\ resent \in SUBSET Messages
    /\ crossed \in SUBSET Messages
    /\ lost \in SUBSET Messages
    /\ late \in SUBSET Deliveries

LEMMA TypeParts == TypeOK <=> RecordOK /\ OrderOK /\ WorkOK /\ PastOK
BY DEF TypeOK, RecordOK, OrderOK, WorkOK, PastOK

LEMMA TypePartsNext == TypeOK' <=> (RecordOK' /\ OrderOK' /\ WorkOK' /\ PastOK')
BY DEF TypeOK, RecordOK, OrderOK, WorkOK, PastOK

-----------------------------------------------------------------------------
LEMMA ProcsAre ==
    /\ \A d \in Deliveries : d \in Procs /\ d # Cron
    /\ \A a \in Admins : a \in Procs /\ a \notin Deliveries
    /\ Cron \in Procs /\ Cron \notin Deliveries
    /\ \A d \in Deliveries : MessageOf[d] \in Messages
    /\ \A r \in Messages : r # None
BY IngestionAssumption DEF Procs

LEMMA Bounds ==
    /\ acts \in 0..MaxActs /\ acts < MaxActs => acts + 1 \in 0..MaxActs
    /\ errors \in 0..MaxErrors /\ errors < MaxErrors => errors + 1 \in 0..MaxErrors
    /\ crashes \in 0..MaxCrashes /\ crashes < MaxCrashes => crashes + 1 \in 0..MaxCrashes
    /\ Orders \subseteq 0..MaxOrders
    /\ \A o \in Orders : o # 0
    /\ \A n \in 0..MaxOrders : n # 0 => n \in Orders
BY IngestionAssumption DEF Orders

LEMMA InitType == Init => TypeOK
<1> SUFFICES ASSUME Init PROVE TypeOK
    OBVIOUS
<1>1. acts \in 0..MaxActs /\ errors \in 0..MaxErrors /\ crashes \in 0..MaxCrashes
    BY IngestionAssumption DEF Init
<1>2. made \in [Procs -> 0..MaxOrders]
    BY IngestionAssumption DEF Init
<1>3. pc \in [Procs -> Steps] /\ \A p \in Procs : pc[p] \notin Works
    BY DEF Init, Steps, Works
<1> QED
    BY <1>1, <1>2, <1>3 DEF Init, TypeOK, Kinds

LEMMA InitHands == Init => Hands
BY ProcsAre DEF Init, Hands, Hand, MadeOf, Making, Parting, Splitting, Works

(* The next number is that of no order yet, and all lower ones are taken.  *)
LEMMA NumberIsFresh ==
    ASSUME TypeOK, Hands, Number \in Orders
    PROVE  kind[Number] = "none" /\ \A u \in Orders : u < Number => kind[u] # "none"
<1> DEFINE K == {o \in Orders : kind[o] # "none"}
           n == Cardinality(K)
<1>1. IsFiniteSet(K) /\ n \in Nat
  <2>1. IsFiniteSet(Orders)
    BY IngestionAssumption, FS_Interval DEF Orders
  <2> QED
    BY <2>1, FS_Subset, FS_CardinalityType
<1>2. Number = 1 + n
    BY DEF Number
<1>3. kind[Number] = "none"
  <2> SUFFICES ASSUME kind[Number] # "none" PROVE FALSE
    OBVIOUS
  <2>1. 1..Number \subseteq K
    BY IngestionAssumption DEF Hands, Orders
  <2>2. Cardinality(1..Number) = Number
    BY <1>1, <1>2, FS_Interval
  <2>3. Cardinality(1..Number) <= n
    BY <1>1, <2>1, FS_Subset
  <2> QED
    BY <1>1, <1>2, <2>2, <2>3
<1>4. ASSUME NEW u \in Orders, u < Number, kind[u] = "none" PROVE FALSE
  <2>1. K \subseteq 1..(u - 1)
    BY <1>4, IngestionAssumption DEF Hands, Orders
  <2>2. u - 1 \in Nat /\ u \in Nat
    BY DEF Orders
  <2>3. IsFiniteSet(1..(u - 1)) /\ Cardinality(1..(u - 1)) = u - 1
    BY <2>2, FS_Interval
  <2>4. n <= u - 1
    BY <2>1, <2>3, FS_Subset
  <2> QED
    BY <1>1, <1>2, <1>4, <2>2, <2>4
<1> QED
    BY <1>3, <1>4

LEMMA InWork ==
    ASSUME WorkOK, NEW p \in Procs, pc[p] \in Works \cup {"full"}, Hands
    PROVE  rec[p] \in Messages /\ rec[p] \in Messages \cup {None}
BY DEF WorkOK, Hands, Hand, MadeOf, Works

LEMMA OneMore ==
    ASSUME OrderOK, NEW o \in Orders
    PROVE  [stock EXCEPT ![o] = @ + 1] \in [Orders -> Nat]
BY DEF OrderOK

LEMMA MadeIsOrder ==
    ASSUME WorkOK, NEW p \in Procs, pc[p] \in Parting \cup {"approve", "mark"}, Hands
    PROVE  made[p] \in Orders
BY Bounds DEF WorkOK, Hands, Hand, MadeOf

LEMMA NewType ==
    ASSUME OrderOK, WorkOK, NEW p \in Procs, NEW k \in Kinds,
           NEW t \in SUBSET Deliveries, NEW goods \in SUBSET Shares,
           New(p, k, t, goods), UNCHANGED <<stock, noted>>
    PROVE  OrderOK'
<1>1. rec[p] \in Messages \cup {None}
    BY DEF WorkOK
<1> QED
    BY <1>1 DEF New, OrderOK

(* What a call that ends leaves in its hands.                              *)
LEMMA FinishType ==
    ASSUME WorkOK, NEW p \in Procs, Finish(p)
    PROVE  WorkOK' /\ \A q \in Procs : pc'[q] \in Works => q # p /\ pc[q] = pc'[q]
<1> USE DEF WorkOK, Finish, Goto
<1>1. Ends(p) \in Steps /\ Ends(p) \notin Works
    BY DEF Ends, Steps, Works, Arrives
<1>2. pc' \in [Procs -> Steps]
    BY <1>1
<1>3. /\ rec' \in [Procs -> Messages \cup {None}]
      /\ copy' \in [Procs -> SUBSET Deliveries]
      /\ was' \in [Procs -> {"none"} \cup Closed \cup {"collecting"}]
      /\ next' \in [Procs -> {"none"} \cup Closed]
      /\ made' \in [Procs -> 0..MaxOrders]
      /\ parts' \in [Procs -> SUBSET Orders]
      /\ todo' \in [Procs -> SUBSET Messages]
      /\ doomed' \in [Procs -> SUBSET Orders]
    BY IngestionAssumption
<1>4. \A q \in Procs : pc'[q] \in Works => q # p /\ pc[q] = pc'[q]
    BY <1>1
<1>5. \A q \in Procs : pc'[q] \in Works => rec'[q] # None
    BY <1>4
<1> QED
    BY <1>2, <1>3, <1>4, <1>5

(* A record, and its text, come into the hands of a call.                  *)
LEMMA TakeType ==
    ASSUME WorkOK, PastOK, RecordOK', NEW p \in Procs, NEW r \in Messages, Take(p, r),
           NEW s \in Works, Goto(p, s),
           next' \in [Procs -> {"none"} \cup Closed],
           made' \in [Procs -> 0..MaxOrders],
           todo' \in [Procs -> SUBSET Messages],
           UNCHANGED <<parts, doomed>>
    PROVE  WorkOK' /\ crossed' \in SUBSET Messages
<1> USE DEF WorkOK, PastOK, RecordOK, Take, Goto
<1>1. pc' \in [Procs -> Steps]
    BY DEF Steps
<1>2. /\ rec' \in [Procs -> Messages \cup {None}]
      /\ copy' \in [Procs -> SUBSET Deliveries]
      /\ was' \in [Procs -> {"none"} \cup Closed \cup {"collecting"}]
      /\ crossed' \in SUBSET Messages
    OBVIOUS
<1>3. \A q \in Procs : pc'[q] \in Works => rec'[q] # None
    BY ProcsAre
<1> QED
    BY <1>1, <1>2, <1>3

LEMMA NextType == TypeOK /\ Hands /\ [Next]_vars => TypeOK'
<1> SUFFICES ASSUME TypeOK, Hands, [Next]_vars
             PROVE  TypeOK'
    OBVIOUS
<1> USE ProcsAre, Bounds, TypeParts DEF recordVars, orderVars, workVars, boundVars, pastVars
<1>1. ASSUME NEW d \in Deliveries, Receive(d) PROVE TypeOK'
  <2>1. RecordOK'
    BY <1>1 DEF Receive, RecordOK, Closed, Goto, Take
  <2>2. OrderOK'
    BY <1>1 DEF Receive, OrderOK, Kinds, Delete, Goto
  <2>3. WorkOK'
    BY <1>1 DEF Receive, WorkOK, Goto, Take, Steps, Works, Arrives, Closed
  <2>4. PastOK'
    BY <1>1 DEF Receive, PastOK, Take
  <2> QED
    BY <2>1, <2>2, <2>3, <2>4, TypePartsNext
<1>2. ASSUME NEW d \in Deliveries, Look(d) PROVE TypeOK'
  <2>1. RecordOK'
    BY <1>2 DEF Look, Known, RecordOK, Closed, Goto, Take
  <2>2. OrderOK'
    BY <1>2 DEF Look, Known, OrderOK, Kinds, Delete, Goto
  <2>3. WorkOK'
    BY <1>2 DEF Look, Known, WorkOK, Goto, Take, Steps, Works, Arrives, Closed
  <2>4. PastOK'
    BY <1>2 DEF Look, Known, PastOK, Take
  <2> QED
    BY <2>1, <2>2, <2>3, <2>4, TypePartsNext
<1>3. ASSUME NEW d \in Deliveries, Append(d) PROVE TypeOK'
  <2>1. RecordOK'
    <3>1. CASE Collecting = {} /\ UNCHANGED <<held, due>>
      BY <1>3, <3>1 DEF Append, RecordOK
    <3>2. ASSUME NEW r \in Messages, Join(d, r) PROVE RecordOK'
      BY <1>3, <3>2 DEF Append, Join, RecordOK
    <3> QED
      BY <1>3, <3>1, <3>2 DEF Append
  <2>2. OrderOK'
    BY <1>3 DEF Append, Join, Collecting, OrderOK, Kinds, Delete, Goto
  <2>3. WorkOK'
    <3>1. pc' \in [Procs -> Steps] /\ \A p \in Procs : pc'[p] \in Works => pc[p] \in Works /\ p # d
      <4>1. \E s \in {"full", "done", "insert"} : pc' = [pc EXCEPT ![d] = s]
        BY <1>3 DEF Append, Goto
      <4> QED
        BY <4>1 DEF WorkOK, Steps, Works, Arrives
    <3>2. rec' \in [Procs -> Messages \cup {None}] /\ \A p \in Procs : p # d => rec'[p] = rec[p]
      BY <1>3, ZenonT(40) DEF Append, WorkOK
    <3> QED
      BY <1>3, <3>1, <3>2 DEF Append, WorkOK
  <2>4. PastOK'
    BY <1>3 DEF Append, Join, Collecting, PastOK, Take
  <2> QED
    BY <2>1, <2>2, <2>3, <2>4, TypePartsNext
<1>4. ASSUME NEW d \in Deliveries, Full(d) PROVE TypeOK'
  <2>1. RecordOK'
    BY <1>4 DEF Full, RecordOK, Closed, Goto, Take
  <2>2. OrderOK'
    BY <1>4 DEF Full, OrderOK, Kinds, Delete, Goto
  <2>3. WorkOK'
    BY <1>4 DEF Full, WorkOK, Goto, Take, Steps, Works, Arrives, Closed
  <2>4. PastOK'
    BY <1>4 DEF Full, PastOK, Take
  <2> QED
    BY <2>1, <2>2, <2>3, <2>4, TypePartsNext
<1>5. ASSUME NEW d \in Deliveries, Insert(d) PROVE TypeOK'
  <2>1. RecordOK'
    BY <1>5 DEF Insert, Opened, Collecting, RecordOK, Closed, Goto, Take
  <2>2. OrderOK'
    BY <1>5 DEF Insert, Opened, Collecting, OrderOK, Kinds, Delete, Goto
  <2>3. WorkOK'
    BY <1>5 DEF Insert, Opened, Collecting, WorkOK, Goto, Take, Steps, Works, Arrives, Closed
  <2>4. PastOK'
    BY <1>5 DEF Insert, Opened, Collecting, PastOK, Take
  <2> QED
    BY <2>1, <2>2, <2>3, <2>4, TypePartsNext
<1>6. ASSUME NEW d \in Deliveries, KnownNow(d) PROVE TypeOK'
  <2>1. RecordOK'
    BY <1>6 DEF KnownNow, RecordOK, Closed, Goto, Take
  <2>2. OrderOK'
    BY <1>6 DEF KnownNow, OrderOK, Kinds, Delete, Goto
  <2>3. WorkOK'
    BY <1>6 DEF KnownNow, WorkOK, Goto, Take, Steps, Works, Arrives, Closed
  <2>4. PastOK'
    BY <1>6 DEF KnownNow, PastOK, Take
  <2> QED
    BY <2>1, <2>2, <2>3, <2>4, TypePartsNext
<1>7. ASSUME NEW d \in Deliveries, Again(d) PROVE TypeOK'
  <2>1. RecordOK'
    <3>1. CASE UNCHANGED <<held, due>>
      BY <1>7, <3>1 DEF Again, RecordOK
    <3>2. ASSUME NEW r \in Messages, Join(d, r) PROVE RecordOK'
      BY <1>7, <3>2 DEF Again, Join, RecordOK
    <3> QED
      BY <1>7, <3>1, <3>2 DEF Again
  <2>2. OrderOK'
    BY <1>7 DEF Again, Join, Collecting, OrderOK, Kinds, Delete, Goto
  <2>3. WorkOK'
    BY <1>7 DEF Again, Join, Collecting, WorkOK, Goto, Take, Steps, Works, Arrives, Closed
  <2>4. PastOK'
    BY <1>7 DEF Again, Join, Collecting, PastOK, Take
  <2> QED
    BY <2>1, <2>2, <2>3, <2>4, TypePartsNext
<1>8. ASSUME NEW d \in Deliveries, Single(d) PROVE TypeOK'
  <2>1. RecordOK'
    BY <1>8 DEF Single, Opened, RecordOK, Closed, Goto, Take
  <2>2. OrderOK'
    BY <1>8 DEF Single, Opened, OrderOK, Kinds, Delete, Goto
  <2>3. WorkOK'
    <3>1. CASE ~(status[MessageOf[d]] = "none")
      BY <1>8, <3>1 DEF Single, WorkOK, Goto, Steps, Works, Arrives
    <3>2. CASE status[MessageOf[d]] = "none"
      <4>1. Take(d, MessageOf[d]) /\ Goto(d, "check") /\ "check" \in Works
           /\ UNCHANGED <<next, parts, doomed>>
        BY <1>8, <3>2 DEF Single, Works
      <4>2. made' \in [Procs -> 0..MaxOrders] /\ todo' \in [Procs -> SUBSET Messages]
        BY <1>8, <3>2 DEF Single, WorkOK
      <4> QED
        BY <1>8, <2>1, <4>1, <4>2, TakeType DEF WorkOK, Single
    <3> QED
      BY <3>1, <3>2
  <2>4. PastOK'
    BY <1>8 DEF Single, Opened, PastOK, Take
  <2> QED
    BY <2>1, <2>2, <2>3, <2>4, TypePartsNext
<1>9. ASSUME NEW r \in Messages, WindowEnds(r) PROVE TypeOK'
  <2>1. RecordOK'
    BY <1>9 DEF WindowEnds, RecordOK, Closed, Goto, Take
  <2>2. OrderOK'
    BY <1>9 DEF WindowEnds, OrderOK, Kinds, Delete, Goto
  <2>3. WorkOK'
    BY <1>9 DEF WindowEnds, WorkOK, Goto, Take, Steps, Works, Arrives, Closed
  <2>4. PastOK'
    BY <1>9 DEF WindowEnds, PastOK, Take
  <2> QED
    BY <2>1, <2>2, <2>3, <2>4, TypePartsNext
<1>10. CASE CronFind
  <2>1. RecordOK'
    BY <1>10 DEF CronFind, RecordOK, Closed, Goto, Take
  <2>2. OrderOK'
    BY <1>10 DEF CronFind, OrderOK, Kinds, Delete, Goto
  <2>3. WorkOK'
    BY <1>10 DEF CronFind, WorkOK, Goto, Take, Steps, Works, Arrives, Closed
  <2>4. PastOK'
    BY <1>10 DEF CronFind, PastOK, Take
  <2> QED
    BY <2>1, <2>2, <2>3, <2>4, TypePartsNext
<1>11. ASSUME NEW p \in Procs, NEW r \in Messages, Claim(p, r) PROVE TypeOK'
  <2>1. RecordOK'
    BY <1>11 DEF Claim, RecordOK, Closed, Goto, Take
  <2>2. OrderOK'
    BY <1>11 DEF Claim, OrderOK, Kinds, Delete, Goto
  <2>3. WorkOK'
    <3>1. CASE ~(status[r] = "collecting")
      BY <1>11, <3>1 DEF Claim, WorkOK, Goto, Steps, Works, Arrives
    <3>2. CASE status[r] = "collecting"
      <4>1. Take(p, r) /\ Goto(p, "check") /\ "check" \in Works /\ UNCHANGED <<next, parts, doomed>>
        BY <1>11, <3>2 DEF Claim, Works
      <4>2. made' \in [Procs -> 0..MaxOrders] /\ todo' \in [Procs -> SUBSET Messages]
        BY <1>11, <3>2 DEF Claim, WorkOK
      <4> QED
        BY <1>11, <2>1, <4>1, <4>2, TakeType DEF WorkOK, Claim
    <3> QED
      BY <3>1, <3>2
  <2>4. PastOK'
    BY <1>11 DEF Claim, PastOK, Take
  <2> QED
    BY <2>1, <2>2, <2>3, <2>4, TypePartsNext
<1>12. ASSUME NEW p \in Procs, Process(p) PROVE TypeOK'
  <2>1. RecordOK'
    BY <1>12 DEF Process, RecordOK, Closed, Goto, Take
  <2>2. OrderOK'
    BY <1>12 DEF Process, OrderOK, Kinds, Delete, Goto
  <2>3. WorkOK'
    BY <1>12 DEF Process, WorkOK, Goto, Take, Steps, Works, Arrives, Closed
  <2>4. PastOK'
    BY <1>12 DEF Process, PastOK, Take
  <2> QED
    BY <2>1, <2>2, <2>3, <2>4, TypePartsNext
<1>13. ASSUME NEW p \in Procs, MakeOrder(p) PROVE TypeOK'
  <2>1. RecordOK'
    BY <1>13 DEF MakeOrder, New, RecordOK, Closed, Goto, Take
  <2>2. OrderOK'
    <3>1. copy[p] \in SUBSET Deliveries /\ UNCHANGED <<stock, noted>> /\ "live" \in Kinds
      BY <1>13 DEF MakeOrder, WorkOK, Kinds
    <3>2. CASE UNCHANGED <<kind, from, text, share>>
      BY <3>1, <3>2 DEF OrderOK
    <3>3. CASE New(p, "live", copy[p], Shares)
      BY <3>1, <3>3, NewType
    <3> QED
      BY <1>13, <3>2, <3>3 DEF MakeOrder
  <2>3. WorkOK'
    <3>1. pc' \in [Procs -> Steps] /\ \A q \in Procs : pc'[q] \in Works => pc[q] \in Works
      BY <1>13 DEF MakeOrder, Goto, WorkOK, Steps, Works
    <3>2. made' \in [Procs -> 0..MaxOrders] /\ parts' \in [Procs -> SUBSET Orders]
      <4>1. CASE /\ Number \in Orders /\ made' = [made EXCEPT ![p] = Number]
                 /\ parts' = [parts EXCEPT ![p] = {Number}]
        BY <4>1 DEF WorkOK
      <4>2. CASE UNCHANGED <<made, parts>>
        BY <4>2 DEF WorkOK
      <4> QED
        BY <1>13, <4>1, <4>2 DEF MakeOrder, New
    <3>3. next' \in [Procs -> {"none"} \cup Closed]
      BY <1>13 DEF MakeOrder, WorkOK, Closed
    <3> QED
      BY <1>13, <3>1, <3>2, <3>3 DEF MakeOrder, WorkOK
  <2>4. PastOK'
    BY <1>13 DEF MakeOrder, New, PastOK, Take
  <2> QED
    BY <2>1, <2>2, <2>3, <2>4, TypePartsNext
<1>14. ASSUME NEW p \in Procs, Stock(p) PROVE TypeOK'
  <2>1. RecordOK'
    BY <1>14 DEF Stock, TakeFromStock, RecordOK, Closed, Goto, Take
  <2>2. OrderOK'
    <3>1. PICK o \in Orders : TakeFromStock(o)
      BY <1>14 DEF Stock, WorkOK
    <3>2. stock' \in [Orders -> Nat]
      BY <3>1, OneMore DEF TakeFromStock
    <3> QED
      BY <1>14, <3>2 DEF Stock, OrderOK
  <2>3. WorkOK'
    <3>1. pc' \in [Procs -> Steps] /\ \A q \in Procs : pc'[q] \in Works => pc[q] \in Works
      BY <1>14 DEF Stock, Goto, WorkOK, Steps, Works
    <3>2. parts' \in [Procs -> SUBSET Orders] /\ next' \in [Procs -> {"none"} \cup Closed]
      BY <1>14 DEF Stock, WorkOK, Closed
    <3> QED
      BY <1>14, <3>1, <3>2 DEF Stock, WorkOK
  <2>4. PastOK'
    BY <1>14 DEF Stock, TakeFromStock, PastOK, Take
  <2> QED
    BY <2>1, <2>2, <2>3, <2>4, TypePartsNext
<1>15. ASSUME NEW p \in Procs, Existing(p) PROVE TypeOK'
  <2>1. RecordOK'
    BY <1>15 DEF Existing, Of, RecordOK, Closed, Goto, Take
  <2>2. OrderOK'
    BY <1>15 DEF Existing, Of, OrderOK, Kinds, Delete, Goto
  <2>3. WorkOK'
    BY <1>15 DEF Existing, Of, WorkOK, Goto, Take, Steps, Works, Arrives, Closed
  <2>4. PastOK'
    BY <1>15 DEF Existing, Of, PastOK, Take
  <2> QED
    BY <2>1, <2>2, <2>3, <2>4, TypePartsNext
<1>16. ASSUME NEW p \in Procs, MakeError(p) PROVE TypeOK'
  <2>1. RecordOK'
    BY <1>16 DEF MakeError, New, RecordOK, Closed, Goto, Take
  <2>2. OrderOK'
    <3>1. copy[p] \in SUBSET Deliveries /\ UNCHANGED <<stock, noted>> /\ "error" \in Kinds
      BY <1>16 DEF MakeError, WorkOK, Kinds
    <3>2. CASE UNCHANGED <<kind, from, text, share>>
      BY <3>1, <3>2 DEF OrderOK
    <3>3. CASE New(p, "error", copy[p], Shares)
      BY <3>1, <3>3, NewType
    <3> QED
      BY <1>16, <3>2, <3>3 DEF MakeError
  <2>3. WorkOK'
    BY <1>16 DEF MakeError, New, WorkOK, Goto, Take, Steps, Works, Arrives, Closed
  <2>4. PastOK'
    BY <1>16 DEF MakeError, New, PastOK, Take
  <2> QED
    BY <2>1, <2>2, <2>3, <2>4, TypePartsNext
<1>17. ASSUME NEW p \in Procs, Save(p) PROVE TypeOK'
  <2>1. RecordOK'
    <3>1. rec[p] \in Messages /\ next[p] \in {"none"} \cup Closed
      BY <1>17, InWork DEF Save, Works, WorkOK
    <3>2. next[p] # "none"
      BY <1>17 DEF Save, Hands, Hand, MadeOf
    <3> QED
      BY <1>17, <3>1, <3>2 DEF Save, RecordOK
  <2>2. OrderOK'
    BY <1>17 DEF Save, Unrecorded, OrderOK, Kinds, Delete, Goto
  <2>3. WorkOK'
    BY <1>17, FinishType DEF Save
  <2>4. PastOK'
    <3>1. Unrecorded(p) \subseteq Messages
      BY <1>17, InWork DEF Save, Works, Unrecorded
    <3> QED
      BY <1>17, <3>1 DEF Save, PastOK
  <2> QED
    BY <2>1, <2>2, <2>3, <2>4, TypePartsNext
<1>18. ASSUME NEW p \in Procs, ReprocessFind(p) PROVE TypeOK'
  <2>1. RecordOK'
    BY <1>18 DEF ReprocessFind, ErrorsOf, Of, RecordOK, Closed, Goto, Take
  <2>2. OrderOK'
    BY <1>18 DEF ReprocessFind, ErrorsOf, Of, OrderOK, Kinds, Delete, Goto
  <2>3. WorkOK'
    BY <1>18 DEF ReprocessFind, ErrorsOf, Of, WorkOK, Goto, Take, Steps, Works, Arrives, Closed
  <2>4. PastOK'
    BY <1>18 DEF ReprocessFind, ErrorsOf, Of, PastOK, Take
  <2> QED
    BY <2>1, <2>2, <2>3, <2>4, TypePartsNext
<1>19. ASSUME NEW p \in Procs, ReprocessNotes(p) PROVE TypeOK'
  <2>1. RecordOK'
    BY <1>19 DEF ReprocessNotes, RecordOK, Closed, Goto, Take
  <2>2. OrderOK'
    BY <1>19 DEF ReprocessNotes, OrderOK, Kinds, Delete, Goto
  <2>3. WorkOK'
    <3>1. CASE Finish(p)
      BY <3>1, FinishType
    <3>2. CASE Goto(p, "delete") /\ UNCHANGED workVars
      BY <1>19, <3>2 DEF ReprocessNotes, WorkOK, Goto, Steps, Works
    <3> QED
      BY <1>19, <3>1, <3>2 DEF ReprocessNotes
  <2>4. PastOK'
    BY <1>19 DEF ReprocessNotes, PastOK, Take
  <2> QED
    BY <2>1, <2>2, <2>3, <2>4, TypePartsNext
<1>20. ASSUME NEW p \in Procs, ReprocessDelete(p) PROVE TypeOK'
  <2>1. RecordOK'
    BY <1>20 DEF ReprocessDelete, Delete, RecordOK, Closed, Goto, Take
  <2>2. OrderOK'
    BY <1>20, ZenonT(40) DEF ReprocessDelete, Delete, OrderOK, Kinds, Goto
  <2>3. WorkOK'
    BY <1>20 DEF ReprocessDelete, Delete, WorkOK, Goto, Take, Steps, Works, Arrives, Closed
  <2>4. PastOK'
    BY <1>20 DEF ReprocessDelete, Delete, PastOK, Take
  <2> QED
    BY <2>1, <2>2, <2>3, <2>4, TypePartsNext
<1>21. ASSUME NEW p \in Procs, IgnoreFind(p) PROVE TypeOK'
  <2>1. RecordOK'
    BY <1>21 DEF IgnoreFind, ErrorsOf, Of, RecordOK, Closed, Goto, Take
  <2>2. OrderOK'
    BY <1>21 DEF IgnoreFind, ErrorsOf, Of, OrderOK, Kinds, Delete, Goto
  <2>3. WorkOK'
    BY <1>21 DEF IgnoreFind, ErrorsOf, Of, WorkOK, Goto, Take, Steps, Works, Arrives, Closed
  <2>4. PastOK'
    BY <1>21 DEF IgnoreFind, ErrorsOf, Of, PastOK, Take
  <2> QED
    BY <2>1, <2>2, <2>3, <2>4, TypePartsNext
<1>22. ASSUME NEW p \in Procs, IgnoreDelete(p) PROVE TypeOK'
  <2>1. RecordOK'
    BY <1>22 DEF IgnoreDelete, Delete, RecordOK, Closed, Goto, Take
  <2>2. OrderOK'
    BY <1>22, ZenonT(40) DEF IgnoreDelete, Delete, OrderOK, Kinds, Goto
  <2>3. WorkOK'
    BY <1>22 DEF IgnoreDelete, Delete, WorkOK, Goto, Take, Steps, Works, Arrives, Closed
  <2>4. PastOK'
    BY <1>22 DEF IgnoreDelete, Delete, PastOK, Take
  <2> QED
    BY <2>1, <2>2, <2>3, <2>4, TypePartsNext
<1>23. ASSUME NEW p \in Procs, IgnoreSave(p) PROVE TypeOK'
  <2>1. RecordOK'
    BY <1>23 DEF IgnoreSave, Error, RecordOK, Closed, Goto, Take
  <2>2. OrderOK'
    BY <1>23 DEF IgnoreSave, Error, OrderOK, Kinds, Delete, Goto
  <2>3. WorkOK'
    BY <1>23, FinishType DEF IgnoreSave
  <2>4. PastOK'
    BY <1>23 DEF IgnoreSave, Error, PastOK, Take
  <2> QED
    BY <2>1, <2>2, <2>3, <2>4, TypePartsNext
<1>24. ASSUME NEW p \in Procs, ApproveClaim(p) PROVE TypeOK'
  <2>1. RecordOK'
    BY <1>24 DEF ApproveClaim, RecordOK, Closed, Goto, Take
  <2>2. OrderOK'
    BY <1>24 DEF ApproveClaim, OrderOK, Kinds, Delete, Goto
  <2>3. WorkOK'
    <3>1. CASE Finish(p)
      BY <3>1, FinishType
    <3>2. CASE /\ Goto(p, "split") /\ parts' = [parts EXCEPT ![p] = {made[p]}]
               /\ UNCHANGED <<rec, copy, was, next, made, todo, doomed>>
      <4>1. made[p] \in Orders
        BY <1>24, MadeIsOrder DEF ApproveClaim
      <4> QED
        BY <1>24, <3>2, <4>1 DEF ApproveClaim, WorkOK, Goto, Steps, Works
    <3> QED
      BY <1>24, <3>1, <3>2 DEF ApproveClaim
  <2>4. PastOK'
    BY <1>24 DEF ApproveClaim, PastOK, Take
  <2> QED
    BY <2>1, <2>2, <2>3, <2>4, TypePartsNext
<1>25. ASSUME NEW p \in Procs, Split(p) PROVE TypeOK'
  <2>1. RecordOK'
    BY <1>25 DEF Split, New, RecordOK, Closed, Goto, Take
  <2>2. OrderOK'
    <3>1. made[p] \in Orders /\ UNCHANGED <<stock, noted>> /\ "live" \in Kinds
      BY <1>25, MadeIsOrder DEF Split, Parting, Splitting, Kinds
    <3>2. text[made[p]] \in SUBSET Deliveries /\ {"disposables"} \in SUBSET Shares
      BY <3>1 DEF OrderOK, Shares
    <3>3. CASE UNCHANGED <<kind, from, text, share>>
      BY <3>1, <3>3 DEF OrderOK
    <3>4. CASE New(p, "live", text[made[p]], {"disposables"})
      BY <3>1, <3>2, <3>4, NewType
    <3> QED
      BY <1>25, <3>3, <3>4 DEF Split
  <2>3. WorkOK'
    <3>1. pc' \in [Procs -> Steps] /\ \A q \in Procs : pc'[q] \in Works => pc[q] \in Works
      BY <1>25 DEF Split, Goto, WorkOK, Steps, Works
    <3>2. parts' \in [Procs -> SUBSET Orders]
      BY <1>25 DEF Split, New, WorkOK, Parting, Splitting
    <3> QED
      BY <1>25, <3>1, <3>2 DEF Split, WorkOK
  <2>4. PastOK'
    BY <1>25 DEF Split, New, PastOK, Take
  <2> QED
    BY <2>1, <2>2, <2>3, <2>4, TypePartsNext
<1>26. ASSUME NEW p \in Procs, Mark(p) PROVE TypeOK'
  <2>1. RecordOK'
    BY <1>26 DEF Mark, RecordOK, Closed, Goto, Take
  <2>2. OrderOK'
    BY <1>26 DEF Mark, OrderOK, Kinds, Delete, Goto
  <2>3. WorkOK'
    BY <1>26, FinishType DEF Mark
  <2>4. PastOK'
    BY <1>26 DEF Mark, PastOK, Take
  <2> QED
    BY <2>1, <2>2, <2>3, <2>4, TypePartsNext
<1>27. ASSUME NEW p \in Procs, SaveFails(p) PROVE TypeOK'
  <2>1. RecordOK'
    BY <1>27 DEF SaveFails, Unrecorded, Error, RecordOK, Closed, Goto, Take
  <2>2. OrderOK'
    BY <1>27 DEF SaveFails, Unrecorded, Error, OrderOK, Kinds, Delete, Goto
  <2>3. WorkOK'
    <3>1. CASE Finish(p)
      BY <3>1, FinishType
    <3>2. CASE /\ next' = [next EXCEPT ![p] = "failed"]
               /\ pc' \in {pc, [pc EXCEPT ![p] = "existing"]}
               /\ UNCHANGED <<rec, copy, was, made, parts, todo, doomed>>
      BY <1>27, <3>2 DEF SaveFails, WorkOK, Steps, Works, Closed
    <3>3. next[p] \in {"aside", "failed", "unknown", "order_created"}
      BY <1>27 DEF SaveFails, Hands, Hand, MadeOf
    <3> QED
      BY <1>27, <3>1, <3>2, <3>3 DEF SaveFails, Goto
  <2>4. PastOK'
    <3>1. Unrecorded(p) \subseteq Messages
      BY <1>27, InWork DEF SaveFails, Works, Unrecorded
    <3> QED
      BY <1>27, <3>1 DEF SaveFails, Error, PastOK
  <2> QED
    BY <2>1, <2>2, <2>3, <2>4, TypePartsNext
<1>28. ASSUME NEW p \in Procs, ApproveFails(p) PROVE TypeOK'
  <2>1. RecordOK'
    BY <1>28 DEF ApproveFails, Unrecorded, Error, RecordOK, Closed, Goto, Take
  <2>2. OrderOK'
    BY <1>28 DEF ApproveFails, Unrecorded, Error, OrderOK, Kinds, Delete, Goto
  <2>3. WorkOK'
    BY <1>28, FinishType DEF ApproveFails
  <2>4. PastOK'
    <3>1. Unrecorded(p) \subseteq Messages
      BY <1>28, InWork DEF ApproveFails, Works, Unrecorded
    <3> QED
      BY <1>28, <3>1 DEF ApproveFails, Error, PastOK
  <2> QED
    BY <2>1, <2>2, <2>3, <2>4, TypePartsNext
<1>29. ASSUME NEW a \in Admins, NEW r \in Messages, ReleaseNow(a, r) PROVE TypeOK'
  <2>1. RecordOK'
    BY <1>29 DEF ReleaseNow, Act, RecordOK, Closed, Goto, Take
  <2>2. OrderOK'
    BY <1>29 DEF ReleaseNow, Act, OrderOK, Kinds, Delete, Goto
  <2>3. WorkOK'
    BY <1>29 DEF ReleaseNow, Act, WorkOK, Goto, Take, Steps, Works, Arrives, Closed
  <2>4. PastOK'
    BY <1>29 DEF ReleaseNow, Act, PastOK, Take
  <2> QED
    BY <2>1, <2>2, <2>3, <2>4, TypePartsNext
<1>30. ASSUME NEW a \in Admins, NEW r \in Messages, ReprocessRead(a, r) PROVE TypeOK'
  <2>1. RecordOK'
    BY <1>30 DEF ReprocessRead, Act, RecordOK, Closed, Goto, Take
  <2>2. OrderOK'
    BY <1>30 DEF ReprocessRead, Act, OrderOK, Kinds, Delete, Goto
  <2>3. WorkOK'
    <3>1. CASE ~(status[r] # "collecting")
      BY <1>30, <3>1 DEF ReprocessRead, Act, WorkOK, Goto, Steps, Works, Arrives
    <3>2. CASE status[r] # "collecting"
      <4>1. Take(a, r) /\ Goto(a, "find") /\ "find" \in Works /\ UNCHANGED <<next, parts, doomed>>
        BY <1>30, <3>2 DEF ReprocessRead, Works
      <4>2. made' \in [Procs -> 0..MaxOrders] /\ todo' \in [Procs -> SUBSET Messages]
        BY <1>30, <3>2 DEF ReprocessRead, WorkOK
      <4> QED
        BY <1>30, <2>1, <4>1, <4>2, TakeType DEF WorkOK, ReprocessRead
    <3> QED
      BY <3>1, <3>2
  <2>4. PastOK'
    BY <1>30 DEF ReprocessRead, Act, PastOK, Take
  <2> QED
    BY <2>1, <2>2, <2>3, <2>4, TypePartsNext
<1>31. ASSUME NEW a \in Admins, NEW r \in Messages, IgnoreRead(a, r) PROVE TypeOK'
  <2>1. RecordOK'
    BY <1>31 DEF IgnoreRead, Act, RecordOK, Closed, Goto, Take
  <2>2. OrderOK'
    BY <1>31 DEF IgnoreRead, Act, OrderOK, Kinds, Delete, Goto
  <2>3. WorkOK'
    <3>1. Take(a, r) /\ Goto(a, "ifind") /\ "ifind" \in Works /\ UNCHANGED <<made, parts, todo, doomed>>
      BY <1>31 DEF IgnoreRead, Works
    <3>2. next' \in [Procs -> {"none"} \cup Closed]
      BY <1>31 DEF IgnoreRead, WorkOK, Closed
    <3> QED
      BY <1>31, <2>1, <3>1, <3>2, TakeType DEF WorkOK
  <2>4. PastOK'
    BY <1>31 DEF IgnoreRead, Act, PastOK, Take
  <2> QED
    BY <2>1, <2>2, <2>3, <2>4, TypePartsNext
<1>32. ASSUME NEW a \in Admins, NEW o \in Orders, ApproveRead(a, o) PROVE TypeOK'
  <2>1. RecordOK'
    BY <1>32 DEF ApproveRead, Act, RecordOK, Closed, Goto, Take
  <2>2. OrderOK'
    BY <1>32 DEF ApproveRead, Act, OrderOK, Kinds, Delete, Goto
  <2>3. WorkOK'
    <3>1. from[o] \in Messages
      BY <1>32 DEF ApproveRead, Hands, Hand, MadeOf, OrderOK
    <3>2. /\ Take(a, from[o]) /\ Goto(a, "approve") /\ "approve" \in Works
          /\ UNCHANGED <<parts, todo, doomed>>
      BY <1>32 DEF ApproveRead, Works
    <3>3. made' \in [Procs -> 0..MaxOrders] /\ next' \in [Procs -> {"none"} \cup Closed]
      BY <1>32 DEF ApproveRead, WorkOK, Closed
    <3> QED
      BY <1>32, <2>1, <3>1, <3>2, <3>3, TakeType DEF WorkOK
  <2>4. PastOK'
    <3>1. from[o] \in Messages
      BY <1>32 DEF ApproveRead, Hands, Hand, MadeOf, OrderOK
    <3> QED
      BY <1>32, <3>1 DEF ApproveRead, Act, PastOK, Take
  <2> QED
    BY <2>1, <2>2, <2>3, <2>4, TypePartsNext
<1>33. ASSUME NEW o \in Orders, IssueNote(o) PROVE TypeOK'
  <2>1. RecordOK'
    BY <1>33 DEF IssueNote, RecordOK, Closed, Goto, Take
  <2>2. OrderOK'
    BY <1>33 DEF IssueNote, OrderOK, Kinds, Delete, Goto
  <2>3. WorkOK'
    BY <1>33 DEF IssueNote, WorkOK, Goto, Take, Steps, Works, Arrives, Closed
  <2>4. PastOK'
    <3>1. from[o] \in Messages
      BY <1>33 DEF IssueNote, Hands, Hand, MadeOf, OrderOK
    <3> QED
      BY <1>33, <3>1 DEF IssueNote, PastOK
  <2> QED
    BY <2>1, <2>2, <2>3, <2>4, TypePartsNext
<1>34. CASE Crash
  <2>1. RecordOK'
    BY <1>34 DEF Crash, Unrecorded, RecordOK, Closed, Goto, Take
  <2>2. OrderOK'
    BY <1>34 DEF Crash, Unrecorded, OrderOK, Kinds, Delete, Goto
  <2>3. WorkOK'
    <3>1. pc' \in [Procs -> Steps] /\ \A p \in Procs : pc'[p] \notin Works
      BY <1>34 DEF Crash, Steps, Works
    <3> QED
      BY <1>34, <3>1, IngestionAssumption DEF Crash, WorkOK
  <2>4. PastOK'
    BY <1>34 DEF Crash, Unrecorded, PastOK, Take
  <2> QED
    BY <2>1, <2>2, <2>3, <2>4, TypePartsNext
<1>35. CASE UNCHANGED vars
    BY <1>35 DEF vars, RecordOK, OrderOK, WorkOK, PastOK, TypeOK
<1>36. ASSUME NEW d \in Deliveries, Stranger(d) PROVE TypeOK'
  <2>1. RecordOK'
    <3>1. held' \in [Messages -> SUBSET Deliveries]
      BY <1>36 DEF Stranger, RecordOK
    <3> QED
      BY <1>36, <3>1 DEF Stranger, RecordOK
  <2>2. OrderOK'
    BY <1>36 DEF Stranger, OrderOK, Kinds, Delete, Goto
  <2>3. WorkOK'
    <3>1. pc' \in [Procs -> Steps] /\ \A q \in Procs : pc'[q] \in Works => pc[q] \in Works
      BY <1>36 DEF Stranger, Goto, WorkOK, Steps, Works, Arrives
    <3> QED
      BY <1>36, <3>1 DEF Stranger, WorkOK
  <2>4. PastOK'
    <3>1. late' \in SUBSET Deliveries
      BY <1>36 DEF Stranger, PastOK
    <3> QED
      BY <1>36, <3>1 DEF Stranger, PastOK
  <2> QED
    BY <2>1, <2>2, <2>3, <2>4, TypePartsNext
<1>37. ASSUME NEW d \in Deliveries, Alone(d) PROVE TypeOK'
  <2>1. RecordOK'
    BY <1>37 DEF Alone, Opened, RecordOK, Closed, Goto, Take
  <2>2. OrderOK'
    BY <1>37 DEF Alone, Opened, OrderOK, Kinds, Delete, Goto
  <2>3. WorkOK'
    BY <1>37 DEF Alone, Opened, WorkOK, Goto, Take, Steps, Works, Arrives, Closed
  <2>4. PastOK'
    BY <1>37 DEF Alone, Opened, PastOK, Take
  <2> QED
    BY <2>1, <2>2, <2>3, <2>4, TypePartsNext
<1>38. ASSUME NEW d \in Deliveries, ArriveFails(d) PROVE TypeOK'
  <2>1. RecordOK'
    BY <1>38 DEF ArriveFails, Error, RecordOK, Closed, Goto, Take
  <2>2. OrderOK'
    BY <1>38 DEF ArriveFails, Error, OrderOK, Kinds, Delete, Goto
  <2>3. WorkOK'
    BY <1>38 DEF ArriveFails, Error, WorkOK, Goto, Take, Steps, Works, Arrives, Closed
  <2>4. PastOK'
    BY <1>38 DEF ArriveFails, Error, PastOK, Take
  <2> QED
    BY <2>1, <2>2, <2>3, <2>4, TypePartsNext
<1>39. ASSUME NEW p \in Procs, Check(p) PROVE TypeOK'
  <2>1. RecordOK'
    BY <1>39 DEF Check, RecordOK, Closed, Goto, Take
  <2>2. OrderOK'
    BY <1>39 DEF Check, OrderOK, Kinds, Delete, Goto
  <2>3. WorkOK'
    BY <1>39 DEF Check, WorkOK, Goto, Take, Steps, Works, Arrives, Closed
  <2>4. PastOK'
    BY <1>39 DEF Check, PastOK, Take
  <2> QED
    BY <2>1, <2>2, <2>3, <2>4, TypePartsNext
<1>40. ASSUME NEW p \in Procs, CheckFails(p) PROVE TypeOK'
  <2>1. RecordOK'
    BY <1>40 DEF CheckFails, Error, RecordOK, Closed, Goto, Take
  <2>2. OrderOK'
    BY <1>40 DEF CheckFails, Error, OrderOK, Kinds, Delete, Goto
  <2>3. WorkOK'
    BY <1>40, FinishType DEF CheckFails
  <2>4. PastOK'
    BY <1>40 DEF CheckFails, Error, PastOK, Take
  <2> QED
    BY <2>1, <2>2, <2>3, <2>4, TypePartsNext
<1>41. ASSUME NEW p \in Procs, Shrink(p) PROVE TypeOK'
  <2>1. RecordOK'
    BY <1>41 DEF Shrink, RecordOK, Closed, Goto, Take
  <2>2. OrderOK'
    <3>1. share' \in [Orders -> SUBSET Shares]
      BY <1>41 DEF Shrink, OrderOK, Shares
    <3> QED
      BY <1>41, <3>1 DEF Shrink, OrderOK
  <2>3. WorkOK'
    BY <1>41 DEF Shrink, WorkOK, Goto, Take, Steps, Works, Arrives, Closed
  <2>4. PastOK'
    BY <1>41 DEF Shrink, PastOK, Take
  <2> QED
    BY <2>1, <2>2, <2>3, <2>4, TypePartsNext
<1>42. ASSUME NEW p \in Procs, ShrinkFails(p) PROVE TypeOK'
  <2>1. RecordOK'
    BY <1>42 DEF ShrinkFails, Error, RecordOK, Closed, Goto, Take
  <2>2. OrderOK'
    BY <1>42 DEF ShrinkFails, Error, OrderOK, Kinds, Delete, Goto
  <2>3. WorkOK'
    BY <1>42 DEF ShrinkFails, Error, WorkOK, Goto, Take, Steps, Works, Arrives, Closed
  <2>4. PastOK'
    BY <1>42 DEF ShrinkFails, Error, PastOK, Take
  <2> QED
    BY <2>1, <2>2, <2>3, <2>4, TypePartsNext
<1>43. ASSUME NEW p \in Procs, Unsplit(p) PROVE TypeOK'
  <2>1. RecordOK'
    BY <1>43 DEF Unsplit, RecordOK, Closed, Goto, Take
  <2>2. OrderOK'
    BY <1>43 DEF Unsplit, OrderOK, Kinds, Delete, Goto
  <2>3. WorkOK'
    <3>0. made[p] \in Orders
      BY <1>43, MadeIsOrder DEF Unsplit, Parting, Splitting
    <3>1. pc' \in [Procs -> Steps] /\ \A q \in Procs : pc'[q] \in Works => pc[q] \in Works
      BY <1>43 DEF Unsplit, Goto, WorkOK, Steps, Works
    <3>2. parts' \in [Procs -> SUBSET Orders]
      BY <1>43, <3>0 DEF Unsplit, New, WorkOK, Parting, Splitting
    <3> QED
      BY <1>43, <3>1, <3>2 DEF Unsplit, WorkOK
  <2>4. PastOK'
    BY <1>43 DEF Unsplit, PastOK, Take
  <2> QED
    BY <2>1, <2>2, <2>3, <2>4, TypePartsNext
<1>44. ASSUME NEW p \in Procs, UnsplitFails(p) PROVE TypeOK'
  <2>1. RecordOK'
    BY <1>44 DEF UnsplitFails, Error, RecordOK, Closed, Goto, Take
  <2>2. OrderOK'
    BY <1>44 DEF UnsplitFails, Error, OrderOK, Kinds, Delete, Goto
  <2>3. WorkOK'
    <3>0. made[p] \in Orders
      BY <1>44, MadeIsOrder DEF UnsplitFails, Parting, Splitting
    <3>1. pc' \in [Procs -> Steps] /\ \A q \in Procs : pc'[q] \in Works => pc[q] \in Works
      BY <1>44 DEF UnsplitFails, Goto, WorkOK, Steps, Works
    <3>2. parts' \in [Procs -> SUBSET Orders]
      BY <1>44, <3>0 DEF UnsplitFails, New, WorkOK, Parting, Splitting
    <3> QED
      BY <1>44, <3>1, <3>2 DEF UnsplitFails, WorkOK
  <2>4. PastOK'
    <3>1. rec[p] \in Messages
      BY <1>44, InWork DEF UnsplitFails, Works
    <3> QED
      BY <1>44, <3>1 DEF UnsplitFails, Error, PastOK
  <2> QED
    BY <2>1, <2>2, <2>3, <2>4, TypePartsNext
<1> QED
    BY <1>1, <1>2, <1>3, <1>4, <1>5, <1>6, <1>7, <1>8, <1>9, <1>10, <1>11,
       <1>12, <1>13, <1>14, <1>15, <1>16, <1>17, <1>18, <1>19, <1>20, <1>21,
       <1>22, <1>23, <1>24, <1>25, <1>26, <1>27, <1>28, <1>29, <1>30, <1>31,
       <1>32, <1>33, <1>34, <1>35, <1>36, <1>37, <1>38, <1>39, <1>40, <1>41,
       <1>42, <1>43, <1>44
       DEF Next, DeliveryStep, WorkStep, Fault, Press


(* A call that ends has nothing in hand.                                   *)
LEMMA FinishHands ==
    ASSUME TypeOK, Hands, NEW p \in Procs, Finish(p), UNCHANGED <<held, from, late>>,
           \A r \in Messages : status[r] \in Closed => status'[r] \in Closed,
           \A r \in Messages : status[r] # "none" => status'[r] # "none",
           \A o \in Orders : kind[o] # "none" => kind'[o] # "none"
    PROVE  \A q \in Procs : Hand(q)'
<1> USE TypeParts DEF WorkOK, Finish, Goto
<1>1. Ends(p) \notin Works \cup {"full"} \cup Making \cup Parting
    BY DEF Ends, Works, Making, Parting, Splitting
<1>2. p \in Deliveries => Ends(p) # "claim"
    BY DEF Ends
<1>3. Hand(p)'
    BY <1>1, <1>2 DEF Hand, Works, Parting, Splitting
<1>4. ASSUME NEW q \in Procs, q # p PROVE Hand(q)'
  <2>1. Hand(q) /\ (pc[q] \in Making \cup Works => rec[q] \in Messages)
    BY DEF Hands, Works, Making
  <2>5. \A t, r : Whole(t, r) <=> Whole(t, r)'
    BY DEF Whole
  <2>2. /\ pc'[q] = pc[q] /\ rec'[q] = rec[q] /\ copy'[q] = copy[q]
        /\ next'[q] = next[q] /\ made'[q] = made[q] /\ doomed'[q] = doomed[q]
        /\ parts'[q] = parts[q]
    BY <1>4
  <2>3. made[q] # 0 => made[q] \in Orders
    BY Bounds
  <2>4. doomed[q] \subseteq Orders /\ parts[q] \subseteq Orders
    OBVIOUS
  <2> QED
    BY <2>1, <2>2, <2>3, <2>4, <2>5 DEF Hand
<1> QED
    BY <1>3, <1>4

(* A delivery that looks for a record to join.                             *)
LEMMA AppendHand ==
    ASSUME WorkOK, NEW d \in Deliveries, Append(d)
    PROVE  /\ \A q \in Procs : q # d => pc'[q] = pc[q] /\ rec'[q] = rec[q]
           /\ pc'[d] \in {"done", "full", "insert"} /\ (pc'[d] = "full" => rec'[d] # None)
<1> USE ProcsAre DEF WorkOK, Goto
<1>1. CASE Collecting = {} /\ Goto(d, "insert") /\ UNCHANGED rec
    BY <1>1
<1>2. ASSUME NEW r \in Messages, Goto(d, "full"), rec' = [rec EXCEPT ![d] = r]
      PROVE  /\ \A q \in Procs : q # d => pc'[q] = pc[q] /\ rec'[q] = rec[q]
             /\ pc'[d] = "full" /\ rec'[d] # None
    BY <1>2
<1>3. CASE Goto(d, "done") /\ UNCHANGED rec
    BY <1>3
<1> HIDE DEF Goto
<1>4. \/ Collecting = {} /\ Goto(d, "insert") /\ UNCHANGED rec
      \/ \E r \in Messages : Goto(d, "full") /\ rec' = [rec EXCEPT ![d] = r]
      \/ Goto(d, "done") /\ UNCHANGED rec
    BY DEF Append
<1> QED
    BY <1>1, <1>2, <1>3, <1>4

(* A call that does not move keeps what it has in hand.                    *)
LEMMA OtherHand ==
    ASSUME TypeOK, Hands, NEW q \in Procs,
           pc'[q] = pc[q], rec'[q] = rec[q], copy'[q] = copy[q], next'[q] = next[q],
           made'[q] = made[q], parts'[q] = parts[q], doomed'[q] = doomed[q],
           \A r \in Messages : status[r] # "none" => status'[r] # "none",
           \A r \in Messages : status[r] \in Closed =>
               status'[r] \in Closed /\ held'[r] = held[r],
           UNCHANGED late,
           \A o \in Orders : kind[o] # "none" => kind'[o] # "none" /\ from'[o] = from[o]
    PROVE  Hand(q)'
<1>1. Hand(q) /\ (pc[q] \in Works => rec[q] \in Messages)
    BY DEF Hands, TypeOK
<1>2. (made[q] # 0 => made[q] \in Orders) /\ doomed[q] \cup parts[q] \subseteq Orders
    BY Bounds DEF TypeOK
<1>3. pc[q] \in Making => Whole(copy[q], rec[q])'
    BY <1>1 DEF Hand, Making, Works, Whole
<1>4. pc[q] \in Making => pc[q] \in Works
    BY DEF Making, Works
<1> QED
    BY <1>1, <1>2, <1>3, <1>4 DEF Hand

(* An order of the record that is made takes the next number.              *)
LEMMA NewHands ==
    ASSUME TypeOK, Hands, NEW p \in Procs, NEW k \in {"live", "error"}, NEW t, NEW goods,
           New(p, k, t, goods)
    PROVE  /\ Number \in Orders /\ Number # 0
           /\ kind[Number] = "none"
           /\ kind'[Number] = k /\ from'[Number] = rec[p] /\ text'[Number] = t
           /\ share'[Number] = goods
           /\ \A o \in Orders \ {Number} :
                 /\ kind'[o] = kind[o] /\ from'[o] = from[o] /\ text'[o] = text[o]
                 /\ share'[o] = share[o]
           /\ \A o \in Orders : kind[o] # "none" => kind'[o] # "none" /\ from'[o] = from[o]
           /\ \A x, u \in Orders : kind'[x] # "none" /\ u < x => kind'[u] # "none"
<1>1. Number \in Orders /\ Number # 0
    BY Bounds DEF New
<1>2. kind[Number] = "none" /\ \A u \in Orders : u < Number => kind[u] # "none"
    BY <1>1, NumberIsFresh
<1>3. /\ kind'[Number] = k /\ from'[Number] = rec[p] /\ text'[Number] = t
      /\ share'[Number] = goods
      /\ \A o \in Orders \ {Number} :
            /\ kind'[o] = kind[o] /\ from'[o] = from[o] /\ text'[o] = text[o]
            /\ share'[o] = share[o]
    BY <1>1 DEF New, TypeOK
<1>4. \A o \in Orders : kind[o] # "none" => kind'[o] # "none" /\ from'[o] = from[o]
    BY <1>2, <1>3
<1>5. \A x, u \in Orders : kind'[x] # "none" /\ u < x => kind'[u] # "none"
    BY <1>2, <1>3, <1>4 DEF Hands
<1> QED
    BY <1>1, <1>2, <1>3, <1>4, <1>5

(* What every step of a call does to records that are closed.              *)
RecordsKept ==
    /\ \A r \in Messages : status[r] # "none" => status'[r] # "none"
    /\ \A r \in Messages : status[r] \in Closed =>
           status'[r] \in Closed /\ held'[r] = held[r]
    /\ UNCHANGED late

(* Closed records are left alone, p alone goes on, orders are only made.   *)
LEMMA StepHands ==
    ASSUME TypeOK, Hands, NEW p \in Procs, Hand(p)', RecordsKept,
           \A q \in Procs \ {p} :
               /\ pc'[q] = pc[q] /\ rec'[q] = rec[q] /\ copy'[q] = copy[q]
               /\ next'[q] = next[q] /\ made'[q] = made[q] /\ parts'[q] = parts[q]
               /\ doomed'[q] = doomed[q],
           \A o \in Orders : kind[o] # "none" =>
               kind'[o] # "none" /\ from'[o] = from[o] /\ text'[o] = text[o],
           \A o \in Orders : kind[o] = "none" /\ kind'[o] # "none" => MadeOf(o)',
           \A x, u \in Orders : kind'[x] # "none" /\ u < x => kind'[u] # "none"
    PROVE  Hands'
<1>1. ASSUME NEW q \in Procs, q # p PROVE Hand(q)'
    BY <1>1, OtherHand DEF RecordsKept
<1>2. \A t, r : r \in Messages /\ status[r] \in Closed => (Whole(t, r) <=> Whole(t, r)')
    BY DEF Whole, RecordsKept
<1>3. ASSUME NEW o \in Orders PROVE MadeOf(o)'
  <2>1. kind[o] # "none" => from[o] \in Messages
    BY DEF Hands, MadeOf, TypeOK
  <2> QED
    BY <1>2, <2>1 DEF Hands, MadeOf, RecordsKept
<1>4. \A x, u \in Orders : kind'[x] # "none" /\ u < x => kind'[u] # "none"
    OBVIOUS
<1> QED
    BY <1>1, <1>3, <1>4 DEF Hands

LEMMA NextHands == TypeOK /\ Hands /\ [Next]_vars => Hands'
<1> SUFFICES ASSUME TypeOK, Hands, [Next]_vars
             PROVE  Hands'
    OBVIOUS
<1> USE ProcsAre, Bounds, TypeParts DEF recordVars, orderVars, workVars, boundVars, pastVars,
        RecordOK, OrderOK, WorkOK, Hands, Hand, MadeOf, Goto, Take, Works,
        Making, Closed, Arrives, Parting, Splitting, Whole
<1>1. ASSUME NEW d \in Deliveries, Receive(d) PROVE Hands'
  <2>1. \A q \in Procs : Hand(q)'
    BY <1>1 DEF Receive
  <2>2. \A x \in Orders : MadeOf(x)'
    BY <1>1 DEF Receive
  <2>3. \A x, u \in Orders : kind'[x] # "none" /\ u < x => kind'[u] # "none"
    BY <1>1 DEF Receive
  <2> QED
    BY <2>1, <2>2, <2>3 DEF Hands
<1>2. ASSUME NEW d \in Deliveries, Look(d) PROVE Hands'
    BY <1>2 DEF Look, Known
<1>3. ASSUME NEW d \in Deliveries, Append(d) PROVE Hands'
  <2>0. \A r \in Messages : status[r] \in Closed => held'[r] = held[r]
    <3>1. CASE UNCHANGED held
      BY <3>1
    <3>2. ASSUME NEW r \in Messages, Join(d, r)
          PROVE  \A x \in Messages : status[x] \in Closed => held'[x] = held[x]
      BY <3>2 DEF Join
    <3> QED
      BY <1>3, <3>1, <3>2 DEF Append
  <2>1. \A q \in Procs : Hand(q)'
    <3>1. \A q \in Procs : q # d => pc'[q] = pc[q] /\ rec'[q] = rec[q]
      BY <1>3, AppendHand
    <3>2. pc'[d] \in {"done", "full", "insert"} /\ (pc'[d] = "full" => rec'[d] # None)
      BY <1>3, AppendHand
    <3>3. ASSUME NEW q \in Procs, q # d PROVE Hand(q)'
      BY <1>3, <3>1, <3>3, <2>0 DEF Append
    <3>4. Hand(d)'
      BY <1>3, <3>2 DEF Append
    <3> QED
      BY <3>3, <3>4
  <2>2. \A x \in Orders : MadeOf(x)'
    BY <1>3, <2>0 DEF Append
  <2>3. \A x, u \in Orders : kind'[x] # "none" /\ u < x => kind'[u] # "none"
    <3>1. UNCHANGED kind
      BY <1>3 DEF Append
    <3> QED
      BY <3>1
  <2> QED
    BY <2>1, <2>2, <2>3 DEF Hands
<1>4. ASSUME NEW d \in Deliveries, Full(d) PROVE Hands'
    BY <1>4 DEF Full
<1>5. ASSUME NEW d \in Deliveries, Insert(d) PROVE Hands'
  <2>1. \A q \in Procs : Hand(q)'
    <3>1. ASSUME NEW q \in Procs, q # d PROVE Hand(q)'
      <4>1. /\ pc'[q] = pc[q] /\ rec'[q] = rec[q] /\ copy'[q] = copy[q]
            /\ next'[q] = next[q] /\ made'[q] = made[q] /\ doomed'[q] = doomed[q]
            /\ parts'[q] = parts[q]
        BY <1>5, <3>1 DEF Insert
      <4>2. \A r \in Messages : status[r] # "none" => status'[r] = status[r] /\ held'[r] = held[r]
        BY <1>5 DEF Insert, Opened
      <4> QED
        BY <1>5, <4>1, <4>2 DEF Insert
    <3>2. Hand(d)'
      BY <1>5 DEF Insert
    <3> QED
      BY <3>1, <3>2
  <2>2. \A x \in Orders : MadeOf(x)'
    <3>1. \A r \in Messages : status[r] # "none" => status'[r] = status[r] /\ held'[r] = held[r]
      BY <1>5 DEF Insert, Opened
    <3> QED
      BY <1>5, <3>1 DEF Insert
  <2>3. \A x, u \in Orders : kind'[x] # "none" /\ u < x => kind'[u] # "none"
    <3>1. UNCHANGED kind
      BY <1>5 DEF Insert
    <3> QED
      BY <3>1
  <2> QED
    BY <2>1, <2>2, <2>3 DEF Hands
<1>6. ASSUME NEW d \in Deliveries, KnownNow(d) PROVE Hands'
    BY <1>6 DEF KnownNow
<1>7. ASSUME NEW d \in Deliveries, Again(d) PROVE Hands'
  <2> HIDE DEF Hands, MadeOf
  <2>0. /\ Hand(d) /\ doomed[d] \cup parts[d] \subseteq Orders
        /\ made[d] # 0 => made[d] \in Orders
    BY DEF Hands
  <2>1. Hand(d)'
    BY <1>7, <2>0 DEF Again
  <2> HIDE DEF Hand
  <2>2. RecordsKept
    <3>1. ASSUME NEW r \in Messages, Join(d, r)
          PROVE  \A x \in Messages : status[x] \in Closed => held'[x] = held[x]
      BY <3>1 DEF Join
    <3> QED
      BY <1>7, <3>1 DEF Again, RecordsKept
  <2>3. \A q \in Procs \ {d} :
            /\ pc'[q] = pc[q] /\ rec'[q] = rec[q] /\ copy'[q] = copy[q]
            /\ next'[q] = next[q] /\ made'[q] = made[q] /\ parts'[q] = parts[q]
            /\ doomed'[q] = doomed[q]
    BY <1>7 DEF Again
  <2>4. /\ \A o \in Orders : kind[o] # "none" =>
              kind'[o] # "none" /\ from'[o] = from[o] /\ text'[o] = text[o]
        /\ \A o \in Orders : kind[o] = "none" /\ kind'[o] # "none" => MadeOf(o)'
        /\ \A x, u \in Orders : kind'[x] # "none" /\ u < x => kind'[u] # "none"
    BY <1>7 DEF Again, Hands
  <2> QED
    BY <2>1, <2>2, <2>3, <2>4, StepHands
<1>8. ASSUME NEW d \in Deliveries, Single(d) PROVE Hands'
  <2> HIDE DEF Hands, MadeOf
  <2>0. /\ Hand(d) /\ doomed[d] \cup parts[d] \subseteq Orders
        /\ made[d] # 0 => made[d] \in Orders
    BY DEF Hands
  <2>1. Hand(d)'
    <3>1. CASE status[MessageOf[d]] = "none"
      <4>1. /\ pc[d] = "single" /\ pc'[d] = "check" /\ rec'[d] = MessageOf[d]
            /\ copy'[d] = held'[MessageOf[d]] /\ next'[d] = next[d]
            /\ made'[d] = made[d] /\ parts'[d] = parts[d] /\ doomed'[d] = doomed[d]
            /\ status'[MessageOf[d]] = "received"
        BY <1>8, <3>1 DEF Single, Opened
      <4> QED
        BY <2>0, <4>1
    <3>2. CASE status[MessageOf[d]] # "none"
      BY <1>8, <2>0, <3>2 DEF Single
    <3> QED
      BY <3>1, <3>2
  <2> HIDE DEF Hand
  <2>2. RecordsKept
    BY <1>8 DEF Single, Opened, RecordsKept
  <2>3. \A q \in Procs \ {d} :
            /\ pc'[q] = pc[q] /\ rec'[q] = rec[q] /\ copy'[q] = copy[q]
            /\ next'[q] = next[q] /\ made'[q] = made[q] /\ parts'[q] = parts[q]
            /\ doomed'[q] = doomed[q]
    BY <1>8 DEF Single, Opened
  <2>4. /\ \A o \in Orders : kind[o] # "none" =>
              kind'[o] # "none" /\ from'[o] = from[o] /\ text'[o] = text[o]
        /\ \A o \in Orders : kind[o] = "none" /\ kind'[o] # "none" => MadeOf(o)'
        /\ \A x, u \in Orders : kind'[x] # "none" /\ u < x => kind'[u] # "none"
    BY <1>8 DEF Single, Opened, Hands
  <2> QED
    BY <2>1, <2>2, <2>3, <2>4, StepHands
<1>9. ASSUME NEW r \in Messages, WindowEnds(r) PROVE Hands'
    BY <1>9 DEF WindowEnds
<1>10. CASE CronFind
    BY <1>10 DEF CronFind
<1>11. ASSUME NEW p \in Procs, NEW r \in Messages, Claim(p, r) PROVE Hands'
  <2> HIDE DEF Hands, MadeOf
  <2>0. /\ Hand(p) /\ doomed[p] \cup parts[p] \subseteq Orders
        /\ made[p] # 0 => made[p] \in Orders
    BY DEF Hands
  <2>1. Hand(p)'
    <3>1. CASE status[r] = "collecting"
      <4>1. /\ pc[p] = "claim" /\ pc'[p] = "check" /\ rec'[p] = r
            /\ copy'[p] = held'[r] /\ next'[p] = next[p]
            /\ made'[p] = made[p] /\ parts'[p] = parts[p] /\ doomed'[p] = doomed[p]
            /\ status'[r] = "received"
        BY <1>11, <3>1 DEF Claim
      <4> QED
        BY <2>0, <4>1
    <3>2. CASE status[r] # "collecting"
      <4>1. /\ pc[p] = "claim" /\ pc'[p] \in {"claim", "idle", "done"}
            /\ next'[p] = next[p]
            /\ made'[p] = made[p] /\ parts'[p] = parts[p] /\ doomed'[p] = doomed[p]
        BY <1>11, <3>2 DEF Claim
      <4> QED
        BY <1>11, <2>0, <4>1
    <3> QED
      BY <3>1, <3>2
  <2> HIDE DEF Hand
  <2>2. RecordsKept
    BY <1>11 DEF Claim, RecordsKept
  <2>3. \A q \in Procs \ {p} :
            /\ pc'[q] = pc[q] /\ rec'[q] = rec[q] /\ copy'[q] = copy[q]
            /\ next'[q] = next[q] /\ made'[q] = made[q] /\ parts'[q] = parts[q]
            /\ doomed'[q] = doomed[q]
    BY <1>11 DEF Claim
  <2>4. /\ \A o \in Orders : kind[o] # "none" =>
              kind'[o] # "none" /\ from'[o] = from[o] /\ text'[o] = text[o]
        /\ \A o \in Orders : kind[o] = "none" /\ kind'[o] # "none" => MadeOf(o)'
        /\ \A x, u \in Orders : kind'[x] # "none" /\ u < x => kind'[u] # "none"
    BY <1>11 DEF Claim, Hands
  <2> QED
    BY <2>1, <2>2, <2>3, <2>4, StepHands
<1>12. ASSUME NEW p \in Procs, Process(p) PROVE Hands'
    BY <1>12 DEF Process
<1>13. ASSUME NEW p \in Procs, MakeOrder(p) PROVE Hands'
  <2> HIDE DEF Hands, MadeOf
  <2>0. /\ Hand(p) /\ doomed[p] \cup parts[p] \subseteq Orders
        /\ made[p] # 0 => made[p] \in Orders
    BY DEF Hands
  <2>1. Hand(p)'
    <3>1. CASE /\ New(p, "live", copy[p], Shares) /\ made' = [made EXCEPT ![p] = Number]
               /\ parts' = [parts EXCEPT ![p] = {Number}] /\ Goto(p, "split")
               /\ UNCHANGED next
      <4>1. /\ Number \in Orders /\ Number # 0
            /\ kind'[Number] = "live" /\ from'[Number] = rec[p]
            /\ \A o \in Orders : kind[o] # "none" => kind'[o] # "none" /\ from'[o] = from[o]
        BY <3>1, NewHands
      <4>2. /\ rec'[p] = rec[p] /\ copy'[p] = copy[p] /\ doomed'[p] = doomed[p]
            /\ pc[p] = "order" /\ pc'[p] = "split" /\ made'[p] = Number
            /\ parts'[p] = {Number} /\ next'[p] = next[p]
            /\ UNCHANGED <<status, held, late>>
        BY <1>13, <2>0, <3>1 DEF MakeOrder
      <4>3. Hand(p) /\ doomed[p] \subseteq Orders
        BY <1>13, <2>0
      <4> HIDE DEF Hands, RecordOK, OrderOK, WorkOK, MadeOf, Goto, Take
      <4> QED
        BY <4>1, <4>2, <4>3
    <3>2. CASE /\ next' = [next EXCEPT ![p] = "failed"] /\ Goto(p, "existing")
               /\ UNCHANGED <<kind, from, text, share, made, parts>>
      BY <1>13, <2>0, <3>2 DEF MakeOrder
    <3> QED
      BY <1>13, <2>0, <3>1, <3>2 DEF MakeOrder
  <2> HIDE DEF Hand
  <2>2. RecordsKept
    BY <1>13 DEF MakeOrder, RecordsKept
  <2>3. \A q \in Procs \ {p} :
            /\ pc'[q] = pc[q] /\ rec'[q] = rec[q] /\ copy'[q] = copy[q]
            /\ next'[q] = next[q] /\ made'[q] = made[q] /\ parts'[q] = parts[q]
            /\ doomed'[q] = doomed[q]
    BY <1>13 DEF MakeOrder
  <2>4. /\ \A o \in Orders : kind[o] # "none" =>
              kind'[o] # "none" /\ from'[o] = from[o] /\ text'[o] = text[o]
        /\ \A o \in Orders : kind[o] = "none" /\ kind'[o] # "none" => MadeOf(o)'
        /\ \A x, u \in Orders : kind'[x] # "none" /\ u < x => kind'[u] # "none"
    <3>1. CASE New(p, "live", copy[p], Shares)
      BY <1>13, <2>0, <3>1, NewHands DEF Hands, MadeOf, Hand, MakeOrder
    <3>2. CASE UNCHANGED <<kind, from, text>>
      BY <1>13, <2>0, <3>2 DEF Hands, MadeOf, Hand, MakeOrder
    <3> QED
      BY <1>13, <2>0, <3>1, <3>2 DEF Hands, MadeOf, Hand, MakeOrder
  <2> QED
    BY <2>1, <2>2, <2>3, <2>4, StepHands
<1>14. ASSUME NEW p \in Procs, Stock(p) PROVE Hands'
  <2> HIDE DEF Hands, MadeOf
  <2>0. /\ Hand(p) /\ doomed[p] \cup parts[p] \subseteq Orders
        /\ made[p] # 0 => made[p] \in Orders
    BY DEF Hands
  <2>1. Hand(p)'
    <3>1. PICK o \in parts[p] :
              /\ parts' = [parts EXCEPT ![p] = @ \ {o}]
              /\ IF parts[p] # {o} THEN UNCHANGED <<pc, next>>
                 ELSE /\ Goto(p, IF Approves(p) THEN "mark" ELSE "save")
                      /\ next' = [next EXCEPT ![p] = "order_created"]
      BY <1>14, <2>0 DEF Stock
    <3>2. CASE parts[p] # {o}
      BY <1>14, <2>0, <3>1, <3>2 DEF Stock
    <3>3. CASE parts[p] = {o}
      BY <1>14, <2>0, <3>1, <3>3 DEF Stock
    <3> QED
      BY <3>2, <3>3
  <2> HIDE DEF Hand
  <2>2. RecordsKept
    BY <1>14 DEF Stock, Approves, RecordsKept
  <2>3. \A q \in Procs \ {p} :
            /\ pc'[q] = pc[q] /\ rec'[q] = rec[q] /\ copy'[q] = copy[q]
            /\ next'[q] = next[q] /\ made'[q] = made[q] /\ parts'[q] = parts[q]
            /\ doomed'[q] = doomed[q]
    BY <1>14 DEF Stock, Approves
  <2>4. /\ \A o \in Orders : kind[o] # "none" =>
              kind'[o] # "none" /\ from'[o] = from[o] /\ text'[o] = text[o]
        /\ \A o \in Orders : kind[o] = "none" /\ kind'[o] # "none" => MadeOf(o)'
        /\ \A x, u \in Orders : kind'[x] # "none" /\ u < x => kind'[u] # "none"
    BY <1>14 DEF Stock, Hands
  <2> QED
    BY <2>1, <2>2, <2>3, <2>4, StepHands
<1>15. ASSUME NEW p \in Procs, Existing(p) PROVE Hands'
    BY <1>15 DEF Existing, Of
<1>16. ASSUME NEW p \in Procs, MakeError(p) PROVE Hands'
  <2> HIDE DEF Hands, MadeOf
  <2>0. /\ Hand(p) /\ doomed[p] \cup parts[p] \subseteq Orders
        /\ made[p] # 0 => made[p] \in Orders
    BY DEF Hands
  <2>1. Hand(p)'
    <3>1. CASE New(p, "error", copy[p], Shares)
      <4>1. \A o \in Orders : kind[o] # "none" => kind'[o] # "none" /\ from'[o] = from[o]
        BY <3>1, NewHands
      <4>2. /\ rec'[p] = rec[p] /\ copy'[p] = copy[p] /\ doomed'[p] = doomed[p]
            /\ pc[p] = "error" /\ pc'[p] = "save" /\ made'[p] = made[p]
            /\ parts'[p] = parts[p] /\ next'[p] = next[p]
            /\ UNCHANGED <<status, held, late>>
        BY <1>16, <2>0 DEF MakeError
      <4>3. Hand(p) /\ doomed[p] \subseteq Orders /\ (made[p] # 0 => made[p] \in Orders)
        BY <1>16, <2>0
      <4> HIDE DEF Hands, RecordOK, OrderOK, WorkOK, MadeOf, Goto, Take
      <4> QED
        BY <4>1, <4>2, <4>3
    <3>2. CASE UNCHANGED <<kind, from, text, share>>
      BY <1>16, <2>0, <3>2 DEF MakeError
    <3> QED
      BY <1>16, <2>0, <3>1, <3>2 DEF MakeError
  <2> HIDE DEF Hand
  <2>2. RecordsKept
    BY <1>16 DEF MakeError, RecordsKept
  <2>3. \A q \in Procs \ {p} :
            /\ pc'[q] = pc[q] /\ rec'[q] = rec[q] /\ copy'[q] = copy[q]
            /\ next'[q] = next[q] /\ made'[q] = made[q] /\ parts'[q] = parts[q]
            /\ doomed'[q] = doomed[q]
    BY <1>16 DEF MakeError
  <2>4. /\ \A o \in Orders : kind[o] # "none" =>
              kind'[o] # "none" /\ from'[o] = from[o] /\ text'[o] = text[o]
        /\ \A o \in Orders : kind[o] = "none" /\ kind'[o] # "none" => MadeOf(o)'
        /\ \A x, u \in Orders : kind'[x] # "none" /\ u < x => kind'[u] # "none"
    <3>1. CASE New(p, "error", copy[p], Shares)
      <4>1. /\ rec[p] \in Messages /\ status[rec[p]] \in Closed
            /\ Whole(copy[p], rec[p])
        BY <1>16, <2>0 DEF MakeError, Hand
      <4>2. UNCHANGED <<status, held, late>>
        BY <1>16 DEF MakeError
      <4>3. /\ Number \in Orders /\ from'[Number] = rec[p] /\ text'[Number] = copy[p]
            /\ \A o \in Orders \ {Number} :
                  kind'[o] = kind[o] /\ from'[o] = from[o] /\ text'[o] = text[o]
            /\ kind[Number] = "none"
            /\ \A o \in Orders : kind[o] # "none" => kind'[o] # "none" /\ from'[o] = from[o]
            /\ \A x, u \in Orders : kind'[x] # "none" /\ u < x => kind'[u] # "none"
        BY <3>1, NewHands
      <4>4. \A o \in Orders : o = Number => MadeOf(o)'
        BY <4>1, <4>2, <4>3 DEF MadeOf
      <4> QED
        BY <4>3, <4>4
    <3>2. CASE UNCHANGED <<kind, from, text>>
      BY <1>16, <2>0, <3>2 DEF Hands, MadeOf, Hand, MakeError
    <3> QED
      BY <1>16, <2>0, <3>1, <3>2 DEF Hands, MadeOf, Hand, MakeError
  <2> QED
    BY <2>1, <2>2, <2>3, <2>4, StepHands
<1>17. ASSUME NEW p \in Procs, Save(p) PROVE Hands'
  <2>1. \A q \in Procs : Hand(q)'
    <3>0. next[p] \in Closed
      BY <1>17 DEF Save
    <3> HIDE DEF Hands, Hand, MadeOf
    <3>1. \A r \in Messages : status[r] \in Closed => status'[r] \in Closed
      BY <1>17, <3>0 DEF Save
    <3>2. \A r \in Messages : status[r] # "none" => status'[r] # "none"
      BY <1>17, <3>0 DEF Save
    <3> QED
      BY <1>17, <3>1, <3>2, FinishHands DEF Save, Unrecorded
  <2>2. \A x \in Orders : MadeOf(x)'
    BY <1>17 DEF Save, Unrecorded
  <2>3. \A x, u \in Orders : kind'[x] # "none" /\ u < x => kind'[u] # "none"
    BY <1>17 DEF Save, Unrecorded
  <2> QED
    BY <2>1, <2>2, <2>3 DEF Hands
<1>18. ASSUME NEW p \in Procs, ReprocessFind(p) PROVE Hands'
    BY <1>18 DEF ReprocessFind, ErrorsOf, Of
<1>19. ASSUME NEW p \in Procs, ReprocessNotes(p) PROVE Hands'
  <2>1. \A q \in Procs : Hand(q)'
    <3>1. CASE Finish(p)
      BY <1>19, <3>1, FinishHands DEF ReprocessNotes
    <3>2. CASE Goto(p, "delete") /\ UNCHANGED workVars
      BY <1>19, <3>2 DEF ReprocessNotes
    <3> QED
      BY <1>19, <3>1, <3>2 DEF ReprocessNotes
  <2>2. \A x \in Orders : MadeOf(x)'
    BY <1>19 DEF ReprocessNotes
  <2>3. \A x, u \in Orders : kind'[x] # "none" /\ u < x => kind'[u] # "none"
    BY <1>19 DEF ReprocessNotes
  <2> QED
    BY <2>1, <2>2, <2>3 DEF Hands
<1>20. ASSUME NEW p \in Procs, ReprocessDelete(p) PROVE Hands'
    BY <1>20 DEF ReprocessDelete, Delete
<1>21. ASSUME NEW p \in Procs, IgnoreFind(p) PROVE Hands'
    BY <1>21 DEF IgnoreFind, ErrorsOf, Of
<1>22. ASSUME NEW p \in Procs, IgnoreDelete(p) PROVE Hands'
    BY <1>22 DEF IgnoreDelete, Delete
<1>23. ASSUME NEW p \in Procs, IgnoreSave(p) PROVE Hands'
  <2>1. \A q \in Procs : Hand(q)'
    <3>1. \A r \in Messages : status[r] \in Closed => status'[r] \in Closed
      BY <1>23 DEF IgnoreSave, Error
    <3>2. \A r \in Messages : status[r] # "none" => status'[r] # "none"
      BY <1>23 DEF IgnoreSave, Error
    <3> QED
      BY <1>23, <3>1, <3>2, FinishHands DEF IgnoreSave, Error
  <2>2. \A x \in Orders : MadeOf(x)'
    BY <1>23 DEF IgnoreSave, Error
  <2>3. \A x, u \in Orders : kind'[x] # "none" /\ u < x => kind'[u] # "none"
    BY <1>23 DEF IgnoreSave, Error
  <2> QED
    BY <2>1, <2>2, <2>3 DEF Hands
<1>24. ASSUME NEW p \in Procs, ApproveClaim(p) PROVE Hands'
  <2>1. \A q \in Procs : Hand(q)'
    <3>1. \A o \in Orders : kind[o] # "none" => kind'[o] # "none"
      BY <1>24 DEF ApproveClaim
    <3>2. CASE Finish(p)
      BY <1>24, <3>1, <3>2, FinishHands DEF ApproveClaim
    <3>3. CASE /\ Goto(p, "split") /\ parts' = [parts EXCEPT ![p] = {made[p]}]
               /\ UNCHANGED <<rec, copy, was, next, made, todo, doomed>>
      <4> HIDE DEF Hands, MadeOf
      <4>1. /\ Hand(p) /\ doomed[p] \subseteq Orders /\ made[p] \in Orders
        BY <1>24 DEF Hands, ApproveClaim
      <4>2. UNCHANGED <<from, status, held, late>> /\ pc[p] = "approve"
        BY <1>24 DEF ApproveClaim
      <4>3. Hand(p)'
        BY <3>1, <3>3, <4>1, <4>2, ZenonT(40)
      <4> HIDE DEF Hand
      <4>4. ASSUME NEW q \in Procs, q # p PROVE Hand(q)'
        <5>1. UNCHANGED <<status, held, late>>
          BY <1>24 DEF ApproveClaim
        <5> QED
          BY <1>24, <3>1, <3>3, <4>2, <4>4, <5>1, OtherHand
      <4> QED
        BY <4>3, <4>4
    <3> QED
      BY <1>24, <3>2, <3>3 DEF ApproveClaim
  <2>2. \A x \in Orders : MadeOf(x)'
    BY <1>24 DEF ApproveClaim
  <2>3. \A x, u \in Orders : kind'[x] # "none" /\ u < x => kind'[u] # "none"
    BY <1>24 DEF ApproveClaim
  <2> QED
    BY <2>1, <2>2, <2>3 DEF Hands
<1>25. ASSUME NEW p \in Procs, Split(p) PROVE Hands'
  <2> HIDE DEF Hands, MadeOf
  <2>0. /\ Hand(p) /\ doomed[p] \cup parts[p] \subseteq Orders
        /\ made[p] # 0 => made[p] \in Orders
    BY DEF Hands
  <2>1. Hand(p)'
    <3>1. CASE New(p, "live", text[made[p]], {"disposables"}) /\ Goto(p, "shrink")
               /\ parts' = [parts EXCEPT ![p] = @ \cup {Number}]
      <4>1. /\ Number \in Orders /\ kind'[Number] = "live" /\ from'[Number] = rec[p]
            /\ \A o \in Orders : kind[o] # "none" => kind'[o] # "none" /\ from'[o] = from[o]
        BY <3>1, NewHands
      <4>2. /\ rec'[p] = rec[p] /\ copy'[p] = copy[p] /\ doomed'[p] = doomed[p]
            /\ pc[p] = "split" /\ pc'[p] = "shrink" /\ made'[p] = made[p]
            /\ parts'[p] = parts[p] \cup {Number} /\ next'[p] = next[p]
            /\ UNCHANGED <<status, held, late>>
        BY <1>25, <2>0, <3>1 DEF Split
      <4>3. /\ Hand(p) /\ doomed[p] \subseteq Orders /\ parts[p] \subseteq Orders
            /\ (made[p] # 0 => made[p] \in Orders)
        BY <1>25, <2>0
      <4> HIDE DEF Hands, RecordOK, OrderOK, WorkOK, MadeOf, Goto, Take
      <4> QED
        BY <4>1, <4>2, <4>3, ZenonT(40)
    <3>2. CASE Goto(p, "stock") /\ UNCHANGED <<kind, from, text, share, parts>>
      BY <1>25, <2>0, <3>2 DEF Split
    <3> QED
      BY <1>25, <2>0, <3>1, <3>2 DEF Split
  <2> HIDE DEF Hand
  <2>2. RecordsKept
    BY <1>25 DEF Split, RecordsKept
  <2>3. \A q \in Procs \ {p} :
            /\ pc'[q] = pc[q] /\ rec'[q] = rec[q] /\ copy'[q] = copy[q]
            /\ next'[q] = next[q] /\ made'[q] = made[q] /\ parts'[q] = parts[q]
            /\ doomed'[q] = doomed[q]
    BY <1>25 DEF Split
  <2>4. /\ \A o \in Orders : kind[o] # "none" =>
              kind'[o] # "none" /\ from'[o] = from[o] /\ text'[o] = text[o]
        /\ \A o \in Orders : kind[o] = "none" /\ kind'[o] # "none" => MadeOf(o)'
        /\ \A x, u \in Orders : kind'[x] # "none" /\ u < x => kind'[u] # "none"
    <3>1. CASE New(p, "live", text[made[p]], {"disposables"})
      <4>1. made[p] \in Orders /\ kind[made[p]] # "none" /\ from[made[p]] = rec[p]
        BY <1>25 DEF Hands, MadeOf, Hand, Split
      <4> QED
        BY <1>25, <2>0, <3>1, <4>1, NewHands DEF Hands, MadeOf, Hand, Split
    <3>2. CASE UNCHANGED <<kind, from, text>>
      BY <1>25, <2>0, <3>2 DEF Hands, MadeOf, Hand, Split
    <3> QED
      BY <1>25, <2>0, <3>1, <3>2 DEF Hands, MadeOf, Hand, Split
  <2> QED
    BY <2>1, <2>2, <2>3, <2>4, StepHands
<1>26. ASSUME NEW p \in Procs, Mark(p) PROVE Hands'
  <2>1. \A q \in Procs : Hand(q)'
    <3>1. \A r \in Messages : status[r] \in Closed => status'[r] \in Closed
      BY <1>26 DEF Mark
    <3>2. \A r \in Messages : status[r] # "none" => status'[r] # "none"
      BY <1>26 DEF Mark
    <3> QED
      BY <1>26, <3>1, <3>2, FinishHands DEF Mark
  <2>2. \A x \in Orders : MadeOf(x)'
    BY <1>26 DEF Mark
  <2>3. \A x, u \in Orders : kind'[x] # "none" /\ u < x => kind'[u] # "none"
    BY <1>26 DEF Mark
  <2> QED
    BY <2>1, <2>2, <2>3 DEF Hands
<1>27. ASSUME NEW p \in Procs, SaveFails(p) PROVE Hands'
  <2>1. \A q \in Procs : Hand(q)'
    <3>1. CASE Finish(p)
      BY <1>27, <3>1, FinishHands DEF SaveFails
    <3>2. CASE next[p] = "order_created"
      BY <1>27, <3>2 DEF SaveFails
    <3>3. CASE next[p] = "aside"
      BY <1>27, <3>3 DEF SaveFails
    <3>4. next[p] \in {"aside", "failed", "unknown", "order_created"}
      BY <1>27 DEF SaveFails
    <3>5. next[p] \in {"failed", "unknown"} => Finish(p)
      BY <1>27 DEF SaveFails
    <3> QED
      BY <3>1, <3>2, <3>3, <3>4, <3>5
  <2>2. \A x \in Orders : MadeOf(x)'
    BY <1>27 DEF SaveFails, Unrecorded, Error
  <2>3. \A x, u \in Orders : kind'[x] # "none" /\ u < x => kind'[u] # "none"
    BY <1>27 DEF SaveFails, Unrecorded, Error
  <2> QED
    BY <2>1, <2>2, <2>3 DEF Hands
<1>28. ASSUME NEW p \in Procs, ApproveFails(p) PROVE Hands'
  <2>1. \A q \in Procs : Hand(q)'
    <3>1. \A r \in Messages : status[r] \in Closed => status'[r] \in Closed
      BY <1>28 DEF ApproveFails, Unrecorded, Error
    <3>2. \A r \in Messages : status[r] # "none" => status'[r] # "none"
      BY <1>28 DEF ApproveFails, Unrecorded, Error
    <3> QED
      BY <1>28, <3>1, <3>2, FinishHands DEF ApproveFails, Unrecorded, Error
  <2>2. \A x \in Orders : MadeOf(x)'
    BY <1>28 DEF ApproveFails, Unrecorded, Error
  <2>3. \A x, u \in Orders : kind'[x] # "none" /\ u < x => kind'[u] # "none"
    BY <1>28 DEF ApproveFails, Unrecorded, Error
  <2> QED
    BY <2>1, <2>2, <2>3 DEF Hands
<1>29. ASSUME NEW a \in Admins, NEW r \in Messages, ReleaseNow(a, r) PROVE Hands'
  <2> HIDE DEF Hands, MadeOf
  <2>0. /\ Hand(a) /\ doomed[a] \cup parts[a] \subseteq Orders
        /\ made[a] # 0 => made[a] \in Orders
    BY DEF Hands
  <2>1. Hand(a)'
    BY <1>29, <2>0 DEF ReleaseNow, Act
  <2> HIDE DEF Hand
  <2>2. RecordsKept
    BY <1>29 DEF ReleaseNow, Act, RecordsKept
  <2>3. \A q \in Procs \ {a} :
            /\ pc'[q] = pc[q] /\ rec'[q] = rec[q] /\ copy'[q] = copy[q]
            /\ next'[q] = next[q] /\ made'[q] = made[q] /\ parts'[q] = parts[q]
            /\ doomed'[q] = doomed[q]
    BY <1>29 DEF ReleaseNow, Act
  <2>4. /\ \A o \in Orders : kind[o] # "none" =>
              kind'[o] # "none" /\ from'[o] = from[o] /\ text'[o] = text[o]
        /\ \A o \in Orders : kind[o] = "none" /\ kind'[o] # "none" => MadeOf(o)'
        /\ \A x, u \in Orders : kind'[x] # "none" /\ u < x => kind'[u] # "none"
    BY <1>29 DEF ReleaseNow, Act, Hands
  <2> QED
    BY <2>1, <2>2, <2>3, <2>4, StepHands
<1>30. ASSUME NEW a \in Admins, NEW r \in Messages, ReprocessRead(a, r) PROVE Hands'
    BY <1>30 DEF ReprocessRead, Act
<1>31. ASSUME NEW a \in Admins, NEW r \in Messages, IgnoreRead(a, r) PROVE Hands'
  <2> HIDE DEF Hands, MadeOf
  <2>0. /\ Hand(a) /\ doomed[a] \cup parts[a] \subseteq Orders
        /\ made[a] # 0 => made[a] \in Orders
    BY DEF Hands
  <2>1. Hand(a)'
    BY <1>31, <2>0 DEF IgnoreRead, Act
  <2> HIDE DEF Hand
  <2>2. RecordsKept
    BY <1>31 DEF IgnoreRead, Act, RecordsKept
  <2>3. \A q \in Procs \ {a} :
            /\ pc'[q] = pc[q] /\ rec'[q] = rec[q] /\ copy'[q] = copy[q]
            /\ next'[q] = next[q] /\ made'[q] = made[q] /\ parts'[q] = parts[q]
            /\ doomed'[q] = doomed[q]
    BY <1>31 DEF IgnoreRead, Act
  <2>4. /\ \A o \in Orders : kind[o] # "none" =>
              kind'[o] # "none" /\ from'[o] = from[o] /\ text'[o] = text[o]
        /\ \A o \in Orders : kind[o] = "none" /\ kind'[o] # "none" => MadeOf(o)'
        /\ \A x, u \in Orders : kind'[x] # "none" /\ u < x => kind'[u] # "none"
    BY <1>31 DEF IgnoreRead, Act, Hands
  <2> QED
    BY <2>1, <2>2, <2>3, <2>4, StepHands
<1>32. ASSUME NEW a \in Admins, NEW o \in Orders, ApproveRead(a, o) PROVE Hands'
  <2> HIDE DEF Hands, MadeOf
  <2>0. /\ Hand(a) /\ doomed[a] \cup parts[a] \subseteq Orders
        /\ made[a] # 0 => made[a] \in Orders
    BY DEF Hands
  <2>5. from[o] \in Messages /\ status[from[o]] \in Closed
    BY <1>32 DEF ApproveRead, Hands, MadeOf
  <2>1. Hand(a)'
    BY <1>32, <2>0, <2>5 DEF ApproveRead, Act
  <2> HIDE DEF Hand
  <2>2. RecordsKept
    BY <1>32 DEF ApproveRead, Act, RecordsKept
  <2>3. \A q \in Procs \ {a} :
            /\ pc'[q] = pc[q] /\ rec'[q] = rec[q] /\ copy'[q] = copy[q]
            /\ next'[q] = next[q] /\ made'[q] = made[q] /\ parts'[q] = parts[q]
            /\ doomed'[q] = doomed[q]
    BY <1>32 DEF ApproveRead, Act
  <2>4. /\ \A x \in Orders : kind[x] # "none" =>
              kind'[x] # "none" /\ from'[x] = from[x] /\ text'[x] = text[x]
        /\ \A x \in Orders : kind[x] = "none" /\ kind'[x] # "none" => MadeOf(x)'
        /\ \A x, u \in Orders : kind'[x] # "none" /\ u < x => kind'[u] # "none"
    BY <1>32 DEF ApproveRead, Act, Hands
  <2> QED
    BY <2>1, <2>2, <2>3, <2>4, StepHands
<1>33. ASSUME NEW o \in Orders, IssueNote(o) PROVE Hands'
    BY <1>33 DEF IssueNote
<1>34. CASE Crash
    BY <1>34 DEF Crash, Unrecorded
<1>35. CASE UNCHANGED vars
    BY <1>35 DEF vars
<1>36. ASSUME NEW d \in Deliveries, Stranger(d) PROVE Hands'
  <2>1. CASE UNCHANGED <<held, late>>
    BY <1>36, <2>1 DEF Stranger
  <2> HIDE DEF Hands, Hand, MadeOf
  <2>2. ASSUME NEW r \in Messages, held' = [held EXCEPT ![r] = @ \cup {d}],
               late' = late \cup {x \in {d} : AtWork(r) \/ \E o \in Orders : from[o] = r}
        PROVE  Hands'
    <3>0. pc' \in {[pc EXCEPT ![d] = "done"], [pc EXCEPT ![d] = "alone"]}
      BY <1>36 DEF Stranger
    <3>1. /\ UNCHANGED <<status, kind, from, text, rec, copy, next, made, parts, doomed>>
          /\ \A q \in Procs : pc'[q] = pc[q] \/ (pc'[q] \in {"done", "alone"} /\ q = d)
          /\ pc[d] = "stranger"
      <4>1. UNCHANGED <<status, orderVars, workVars>> /\ pc[d] = "stranger"
        <5> HIDE DEF orderVars, workVars, Goto
        <5> QED
          BY <1>36 DEF Stranger
      <4>2. \A q \in Procs : pc'[q] = pc[q] \/ (pc'[q] \in {"done", "alone"} /\ q = d)
        BY <3>0
      <4> QED
        BY <4>1, <4>2
    <3>2. \A x \in Messages : held[x] \subseteq held'[x] /\ held'[x] \subseteq held[x] \cup {d}
      BY <2>2
    <3>3. \A x \in Messages : held'[x] # held[x] => x = r
      BY <2>2
    <3>4. late \subseteq late' /\ (AtWork(r) \/ (\E o \in Orders : from[o] = r) => d \in late')
      BY <2>2
    <3>5. ASSUME NEW q \in Procs PROVE Hand(q)'
      <4>0. Hand(q) /\ (pc[q] \in Works => rec[q] \in Messages)
        BY DEF Hands
      <4>1. pc[q] \in Making => Whole(copy[q], rec[q])'
        BY <3>1, <3>2, <3>3, <3>4, <4>0 DEF AtWork, Hand
      <4>2. pc'[q] = pc[q] \/ (pc'[q] \in {"done", "alone"} /\ pc[q] = "stranger")
        BY <3>1
      <4> QED
        BY <3>1, <4>0, <4>1, <4>2 DEF Hand
    <3>6. ASSUME NEW o \in Orders PROVE MadeOf(o)'
      <4>1. MadeOf(o) /\ from[o] \in Messages \cup {None}
        BY DEF Hands
      <4> QED
        BY <3>1, <3>2, <3>3, <3>4, <4>1 DEF MadeOf
    <3>7. \A x, u \in Orders : kind'[x] # "none" /\ u < x => kind'[u] # "none"
      BY <3>1 DEF Hands
    <3> QED
      BY <3>5, <3>6, <3>7 DEF Hands
  <2> QED
    BY <1>36, <2>1, <2>2 DEF Stranger
<1>37. ASSUME NEW d \in Deliveries, Alone(d) PROVE Hands'
  <2> HIDE DEF Hands, MadeOf
  <2>0. /\ Hand(d) /\ doomed[d] \cup parts[d] \subseteq Orders
        /\ made[d] # 0 => made[d] \in Orders
    BY DEF Hands
  <2>1. Hand(d)'
    BY <1>37, <2>0 DEF Alone, Opened
  <2> HIDE DEF Hand
  <2>2. RecordsKept
    BY <1>37 DEF Alone, Opened, RecordsKept
  <2>3. \A q \in Procs \ {d} :
            /\ pc'[q] = pc[q] /\ rec'[q] = rec[q] /\ copy'[q] = copy[q]
            /\ next'[q] = next[q] /\ made'[q] = made[q] /\ parts'[q] = parts[q]
            /\ doomed'[q] = doomed[q]
    BY <1>37 DEF Alone, Opened
  <2>4. /\ \A o \in Orders : kind[o] # "none" =>
              kind'[o] # "none" /\ from'[o] = from[o] /\ text'[o] = text[o]
        /\ \A o \in Orders : kind[o] = "none" /\ kind'[o] # "none" => MadeOf(o)'
        /\ \A x, u \in Orders : kind'[x] # "none" /\ u < x => kind'[u] # "none"
    BY <1>37 DEF Alone, Opened, Hands
  <2> QED
    BY <2>1, <2>2, <2>3, <2>4, StepHands
<1>38. ASSUME NEW d \in Deliveries, ArriveFails(d) PROVE Hands'
    BY <1>38 DEF ArriveFails
<1>39. ASSUME NEW p \in Procs, Check(p) PROVE Hands'
    BY <1>39 DEF Check
<1>40. ASSUME NEW p \in Procs, CheckFails(p) PROVE Hands'
  <2>1. \A q \in Procs : Hand(q)'
    BY <1>40, FinishHands DEF CheckFails
  <2>2. \A x \in Orders : MadeOf(x)'
    BY <1>40 DEF CheckFails
  <2>3. \A x, u \in Orders : kind'[x] # "none" /\ u < x => kind'[u] # "none"
    BY <1>40 DEF CheckFails
  <2> QED
    BY <2>1, <2>2, <2>3 DEF Hands
<1>41. ASSUME NEW p \in Procs, Shrink(p) PROVE Hands'
    BY <1>41 DEF Shrink
<1>42. ASSUME NEW p \in Procs, ShrinkFails(p) PROVE Hands'
    BY <1>42 DEF ShrinkFails
<1>43. ASSUME NEW p \in Procs, Unsplit(p) PROVE Hands'
  <2> HIDE DEF Hands, MadeOf
  <2>0. /\ Hand(p) /\ doomed[p] \cup parts[p] \subseteq Orders
        /\ made[p] # 0 => made[p] \in Orders
    BY DEF Hands
  <2>5. \A o \in parts[p] : kind[o] # "none"
    BY <2>0 DEF Hand
  <2>1. Hand(p)'
    BY <1>43, <2>0 DEF Unsplit
  <2> HIDE DEF Hand
  <2>2. RecordsKept
    BY <1>43 DEF Unsplit, RecordsKept
  <2>3. \A q \in Procs \ {p} :
            /\ pc'[q] = pc[q] /\ rec'[q] = rec[q] /\ copy'[q] = copy[q]
            /\ next'[q] = next[q] /\ made'[q] = made[q] /\ parts'[q] = parts[q]
            /\ doomed'[q] = doomed[q]
    BY <1>43 DEF Unsplit
  <2>4. /\ \A o \in Orders : kind[o] # "none" =>
              kind'[o] # "none" /\ from'[o] = from[o] /\ text'[o] = text[o]
        /\ \A o \in Orders : kind[o] = "none" /\ kind'[o] # "none" => MadeOf(o)'
        /\ \A x, u \in Orders : kind'[x] # "none" /\ u < x => kind'[u] # "none"
    BY <1>43, <2>5 DEF Unsplit, Hands
  <2> QED
    BY <2>1, <2>2, <2>3, <2>4, StepHands
<1>44. ASSUME NEW p \in Procs, UnsplitFails(p) PROVE Hands'
  <2> HIDE DEF Hands, MadeOf
  <2>0. /\ Hand(p) /\ doomed[p] \cup parts[p] \subseteq Orders
        /\ made[p] # 0 => made[p] \in Orders
    BY DEF Hands
  <2>1. Hand(p)'
    BY <1>44, <2>0 DEF UnsplitFails
  <2> HIDE DEF Hand
  <2>2. RecordsKept
    BY <1>44 DEF UnsplitFails, RecordsKept
  <2>3. \A q \in Procs \ {p} :
            /\ pc'[q] = pc[q] /\ rec'[q] = rec[q] /\ copy'[q] = copy[q]
            /\ next'[q] = next[q] /\ made'[q] = made[q] /\ parts'[q] = parts[q]
            /\ doomed'[q] = doomed[q]
    BY <1>44 DEF UnsplitFails
  <2>4. /\ \A o \in Orders : kind[o] # "none" =>
              kind'[o] # "none" /\ from'[o] = from[o] /\ text'[o] = text[o]
        /\ \A o \in Orders : kind[o] = "none" /\ kind'[o] # "none" => MadeOf(o)'
        /\ \A x, u \in Orders : kind'[x] # "none" /\ u < x => kind'[u] # "none"
    BY <1>44 DEF UnsplitFails, Hands
  <2> QED
    BY <2>1, <2>2, <2>3, <2>4, StepHands
<1> QED
    BY <1>1, <1>2, <1>3, <1>4, <1>5, <1>6, <1>7, <1>8, <1>9, <1>10, <1>11,
       <1>12, <1>13, <1>14, <1>15, <1>16, <1>17, <1>18, <1>19, <1>20, <1>21,
       <1>22, <1>23, <1>24, <1>25, <1>26, <1>27, <1>28, <1>29, <1>30, <1>31,
       <1>32, <1>33, <1>34, <1>35, <1>36, <1>37, <1>38, <1>39, <1>40, <1>41,
       <1>42, <1>43, <1>44
       DEF Next, DeliveryStep, WorkStep, Fault, Press

LEMMA HandsAlways == Spec => [](TypeOK /\ Hands)
<1>1. TypeOK /\ Hands /\ [Next]_vars => (TypeOK /\ Hands)'
    BY NextType, NextHands
<1> QED
    BY <1>1, InitType, InitHands, PTL DEF Spec

(* Every variable keeps its type.                                          *)
THEOREM TypeCorrect == Spec => []TypeOK
BY HandsAlways, PTL

(* Whatever else is delivered, read again or ignored meanwhile, an order   *)
(* has all of its record's text, but for what joins the record of a        *)
(* stranger once it is being read.                                         *)
THEOREM OrdersAreWhole == Spec => []OrderIsWhole
<1>1. TypeOK /\ Hands => OrderIsWhole
    BY DEF Hands, MadeOf, Whole, OrderIsWhole
<1> QED
    BY <1>1, HandsAlways, PTL

-----------------------------------------------------------------------------
(* An order that is not live, or never was, has all the goods and took     *)
(* nothing from the stock, and an order whose goods are about to leave is  *)
(* in one pair of hands.                                                   *)
Goods ==
    /\ \A o \in Orders : stock[o] <= 1 /\ share[o] # {}
    /\ \A o \in Orders : kind[o] \in {"none", "error"} => stock[o] = 0 /\ share[o] = Shares
    /\ \A p \in Procs : \A o \in parts[p] : kind[o] \notin {"none", "error"} /\ stock[o] = 0
    /\ \A p, q \in Procs : p # q => parts[p] \cap parts[q] = {}

(* Steps that take nothing, and begin to take nothing.                     *)
LEMMA GoodsKept ==
    ASSUME TypeOK, Goods, UNCHANGED stock,
           \A o \in Orders : \/ share'[o] = share[o]
                             \/ kind[o] \notin {"none", "error"} /\ share'[o] # {},
           \A p \in Procs : parts'[p] \subseteq parts[p],
           \A o \in Orders : kind[o] \notin {"none", "error"} => kind'[o] \notin {"none", "error"}
    PROVE  Goods'
<1>1. \A p \in Procs : parts[p] \subseteq Orders
    BY DEF TypeOK
<1> QED
    BY <1>1 DEF Goods

(* The goods of one order leave.                                           *)
LEMMA GoodsTaken ==
    ASSUME TypeOK, Goods, NEW p \in Procs, NEW o \in parts[p],
           TakeFromStock(o), UNCHANGED <<kind, share>>,
           parts' = [parts EXCEPT ![p] = @ \ {o}]
    PROVE  Goods'
<1>1. o \in Orders /\ \A q \in Procs : parts[q] \subseteq Orders
    BY DEF TypeOK
<1>2. /\ stock'[o] = 1
      /\ \A u \in Orders : u # o => stock'[u] = stock[u]
    BY <1>1 DEF TakeFromStock, Goods, TypeOK
<1>3. \A q \in Procs : parts'[q] \subseteq parts[q] /\ o \notin parts'[q]
    BY DEF TypeOK, Goods
<1> QED
    BY <1>1, <1>2, <1>3 DEF Goods

(* An order that is live from now on, and of which nothing was taken.      *)
LEMMA GoodsBegun ==
    ASSUME TypeOK, Goods, NEW p \in Procs, UNCHANGED stock,
           NEW o \in Orders, kind[o] \in {"none", "error"}, kind'[o] = "live", share'[o] # {},
           \A u \in Orders : u # o => kind'[u] = kind[u] /\ share'[u] = share[u],
           \A u \in parts'[p] : u \in parts[p] \/ u = o,
           \A q \in Procs : q # p => parts'[q] = parts[q]
    PROVE  Goods'
<1>1. \A q \in Procs : parts[q] \subseteq Orders /\ o \notin parts[q]
    BY DEF TypeOK, Goods
<1>2. \A q \in Procs : \A u \in parts'[q] :
          kind'[u] \notin {"none", "error"} /\ stock'[u] = 0
    BY <1>1 DEF Goods
<1>3. \A q, x \in Procs : q # x => parts'[q] \cap parts'[x] = {}
    BY <1>1 DEF Goods
<1> QED
    BY <1>2, <1>3 DEF Goods

LEMMA FinishParts ==
    ASSUME TypeOK, NEW p \in Procs, Finish(p)
    PROVE  \A q \in Procs : parts'[q] \subseteq parts[q]
BY DEF TypeOK, Finish

LEMMA InitGoods == Init => Goods
BY DEF Init, Goods, Shares

LEMMA NextGoods == TypeOK /\ Hands /\ Goods /\ [Next]_vars => Goods'
<1> SUFFICES ASSUME TypeOK, Hands, Goods, [Next]_vars
             PROVE  Goods'
    OBVIOUS
<1> USE ProcsAre, Bounds, TypeParts DEF recordVars, orderVars, workVars, boundVars, pastVars,
        WorkOK, OrderOK, Goto
<1>1. ASSUME NEW d \in Deliveries, Receive(d) PROVE Goods'
  <2>1. UNCHANGED <<stock, share>>
    BY <1>1 DEF Receive
  <2>2. \A q \in Procs : parts'[q] \subseteq parts[q]
    BY <1>1 DEF Receive
  <2>3. \A o \in Orders : kind[o] \notin {"none", "error"} => kind'[o] \notin {"none", "error"}
    BY <1>1 DEF Receive
  <2> QED
    BY <2>1, <2>2, <2>3, GoodsKept
<1>2. ASSUME NEW d \in Deliveries, Look(d) PROVE Goods'
  <2>1. UNCHANGED <<stock, share>>
    BY <1>2 DEF Look, Known
  <2>2. \A q \in Procs : parts'[q] \subseteq parts[q]
    BY <1>2 DEF Look, Known
  <2>3. \A o \in Orders : kind[o] \notin {"none", "error"} => kind'[o] \notin {"none", "error"}
    BY <1>2 DEF Look, Known
  <2> QED
    BY <2>1, <2>2, <2>3, GoodsKept
<1>3. ASSUME NEW d \in Deliveries, Append(d) PROVE Goods'
  <2>1. UNCHANGED <<stock, share>>
    BY <1>3 DEF Append, Join, Collecting
  <2>2. \A q \in Procs : parts'[q] \subseteq parts[q]
    BY <1>3 DEF Append, Join, Collecting
  <2>3. \A o \in Orders : kind[o] \notin {"none", "error"} => kind'[o] \notin {"none", "error"}
    BY <1>3 DEF Append, Join, Collecting
  <2> QED
    BY <2>1, <2>2, <2>3, GoodsKept
<1>4. ASSUME NEW d \in Deliveries, Full(d) PROVE Goods'
  <2>1. UNCHANGED <<stock, share>>
    BY <1>4 DEF Full
  <2>2. \A q \in Procs : parts'[q] \subseteq parts[q]
    BY <1>4 DEF Full
  <2>3. \A o \in Orders : kind[o] \notin {"none", "error"} => kind'[o] \notin {"none", "error"}
    BY <1>4 DEF Full
  <2> QED
    BY <2>1, <2>2, <2>3, GoodsKept
<1>5. ASSUME NEW d \in Deliveries, Insert(d) PROVE Goods'
  <2>1. UNCHANGED <<stock, share>>
    BY <1>5 DEF Insert, Opened, Collecting
  <2>2. \A q \in Procs : parts'[q] \subseteq parts[q]
    BY <1>5 DEF Insert, Opened, Collecting
  <2>3. \A o \in Orders : kind[o] \notin {"none", "error"} => kind'[o] \notin {"none", "error"}
    BY <1>5 DEF Insert, Opened, Collecting
  <2> QED
    BY <2>1, <2>2, <2>3, GoodsKept
<1>6. ASSUME NEW d \in Deliveries, KnownNow(d) PROVE Goods'
  <2>1. UNCHANGED <<stock, share>>
    BY <1>6 DEF KnownNow
  <2>2. \A q \in Procs : parts'[q] \subseteq parts[q]
    BY <1>6 DEF KnownNow
  <2>3. \A o \in Orders : kind[o] \notin {"none", "error"} => kind'[o] \notin {"none", "error"}
    BY <1>6 DEF KnownNow
  <2> QED
    BY <2>1, <2>2, <2>3, GoodsKept
<1>7. ASSUME NEW d \in Deliveries, Again(d) PROVE Goods'
  <2>1. UNCHANGED <<stock, share>>
    BY <1>7 DEF Again, Join, Collecting
  <2>2. \A q \in Procs : parts'[q] \subseteq parts[q]
    BY <1>7 DEF Again, Join, Collecting
  <2>3. \A o \in Orders : kind[o] \notin {"none", "error"} => kind'[o] \notin {"none", "error"}
    BY <1>7 DEF Again, Join, Collecting
  <2> QED
    BY <2>1, <2>2, <2>3, GoodsKept
<1>8. ASSUME NEW d \in Deliveries, Single(d) PROVE Goods'
  <2>1. UNCHANGED <<stock, share>>
    BY <1>8 DEF Single, Opened
  <2>2. \A q \in Procs : parts'[q] \subseteq parts[q]
    BY <1>8 DEF Single, Opened
  <2>3. \A o \in Orders : kind[o] \notin {"none", "error"} => kind'[o] \notin {"none", "error"}
    BY <1>8 DEF Single, Opened
  <2> QED
    BY <2>1, <2>2, <2>3, GoodsKept
<1>9. ASSUME NEW r \in Messages, WindowEnds(r) PROVE Goods'
  <2>1. UNCHANGED <<stock, share>>
    BY <1>9 DEF WindowEnds
  <2>2. \A q \in Procs : parts'[q] \subseteq parts[q]
    BY <1>9 DEF WindowEnds
  <2>3. \A o \in Orders : kind[o] \notin {"none", "error"} => kind'[o] \notin {"none", "error"}
    BY <1>9 DEF WindowEnds
  <2> QED
    BY <2>1, <2>2, <2>3, GoodsKept
<1>10. CASE CronFind
  <2>1. UNCHANGED <<stock, share>>
    BY <1>10 DEF CronFind
  <2>2. \A q \in Procs : parts'[q] \subseteq parts[q]
    BY <1>10 DEF CronFind
  <2>3. \A o \in Orders : kind[o] \notin {"none", "error"} => kind'[o] \notin {"none", "error"}
    BY <1>10 DEF CronFind
  <2> QED
    BY <2>1, <2>2, <2>3, GoodsKept
<1>11. ASSUME NEW p \in Procs, NEW r \in Messages, Claim(p, r) PROVE Goods'
  <2>1. UNCHANGED <<stock, share>>
    BY <1>11 DEF Claim
  <2>2. \A q \in Procs : parts'[q] \subseteq parts[q]
    BY <1>11 DEF Claim
  <2>3. \A o \in Orders : kind[o] \notin {"none", "error"} => kind'[o] \notin {"none", "error"}
    BY <1>11 DEF Claim
  <2> QED
    BY <2>1, <2>2, <2>3, GoodsKept
<1>12. ASSUME NEW p \in Procs, Process(p) PROVE Goods'
  <2>1. UNCHANGED <<stock, share>>
    BY <1>12 DEF Process
  <2>2. \A q \in Procs : parts'[q] \subseteq parts[q]
    BY <1>12 DEF Process
  <2>3. \A o \in Orders : kind[o] \notin {"none", "error"} => kind'[o] \notin {"none", "error"}
    BY <1>12 DEF Process
  <2> QED
    BY <2>1, <2>2, <2>3, GoodsKept
<1>13. ASSUME NEW p \in Procs, MakeOrder(p) PROVE Goods'
  <2>1. CASE New(p, "live", copy[p], Shares) /\ parts' = [parts EXCEPT ![p] = {Number}]
    <3>1. UNCHANGED stock
      BY <1>13 DEF MakeOrder
    <3>2. /\ Number \in Orders
          /\ kind[Number] = "none" /\ kind'[Number] = "live" /\ share'[Number] = Shares
          /\ \A u \in Orders : u # Number => kind'[u] = kind[u] /\ share'[u] = share[u]
      BY <2>1, NewHands
    <3>3. /\ parts'[p] \subseteq parts[p] \cup {Number}
          /\ \A q \in Procs : q # p => parts'[q] = parts[q]
      BY <2>1
    <3>4. Shares # {}
      BY DEF Shares
    <3> HIDE DEF WorkOK, OrderOK, Goto
    <3>5. PICK o \in Orders : o = Number
      BY <3>2
    <3>6. kind[o] \in {"none", "error"} /\ kind'[o] = "live" /\ share'[o] # {}
      BY <3>2, <3>4, <3>5
    <3>7. \A u \in Orders : u # o => kind'[u] = kind[u] /\ share'[u] = share[u]
      BY <3>2, <3>5
    <3>8. \A u \in parts'[p] : u \in parts[p] \/ u = o
      BY <3>3, <3>5
    <3>9. \A q \in Procs : q # p => parts'[q] = parts[q]
      BY <3>3
    <3> HIDE ProcsAre, Bounds, TypeParts
    <3> QED
      BY <3>1, <3>6, <3>7, <3>8, <3>9, GoodsBegun
  <2>2. CASE UNCHANGED <<kind, share, parts>>
    BY <1>13, <2>2, GoodsKept DEF MakeOrder
  <2> QED
    BY <1>13, <2>1, <2>2 DEF MakeOrder
<1>14. ASSUME NEW p \in Procs, Stock(p) PROVE Goods'
    BY <1>14, GoodsTaken DEF Stock
<1>15. ASSUME NEW p \in Procs, Existing(p) PROVE Goods'
  <2>1. UNCHANGED <<stock, share>>
    BY <1>15 DEF Existing, Of
  <2>2. \A q \in Procs : parts'[q] \subseteq parts[q]
    BY <1>15 DEF Existing, Of
  <2>3. \A o \in Orders : kind[o] \notin {"none", "error"} => kind'[o] \notin {"none", "error"}
    BY <1>15 DEF Existing, Of
  <2> QED
    BY <2>1, <2>2, <2>3, GoodsKept
<1>16. ASSUME NEW p \in Procs, MakeError(p) PROVE Goods'
  <2>1. UNCHANGED stock /\ \A o \in Orders : share'[o] = share[o]
    <3>1. CASE New(p, "error", copy[p], Shares)
      BY <1>16, <3>1, NewHands DEF MakeError, Goods
    <3>2. CASE UNCHANGED share
      BY <1>16, <3>2 DEF MakeError
    <3> QED
      BY <1>16, <3>1, <3>2 DEF MakeError
  <2>2. \A q \in Procs : parts'[q] \subseteq parts[q]
    BY <1>16 DEF MakeError
  <2>3. \A o \in Orders : kind[o] \notin {"none", "error"} => kind'[o] \notin {"none", "error"}
    BY <1>16, NewHands DEF MakeError
  <2> QED
    BY <2>1, <2>2, <2>3, GoodsKept
<1>17. ASSUME NEW p \in Procs, Save(p) PROVE Goods'
  <2>1. UNCHANGED <<stock, share>>
    BY <1>17 DEF Save, Unrecorded
  <2>2. \A q \in Procs : parts'[q] \subseteq parts[q]
    BY <1>17, FinishParts DEF Save, Unrecorded
  <2>3. \A o \in Orders : kind[o] \notin {"none", "error"} => kind'[o] \notin {"none", "error"}
    BY <1>17 DEF Save, Unrecorded
  <2> QED
    BY <2>1, <2>2, <2>3, GoodsKept
<1>18. ASSUME NEW p \in Procs, ReprocessFind(p) PROVE Goods'
  <2>1. UNCHANGED <<stock, share>>
    BY <1>18 DEF ReprocessFind, ErrorsOf, Of
  <2>2. \A q \in Procs : parts'[q] \subseteq parts[q]
    BY <1>18 DEF ReprocessFind, ErrorsOf, Of
  <2>3. \A o \in Orders : kind[o] \notin {"none", "error"} => kind'[o] \notin {"none", "error"}
    BY <1>18 DEF ReprocessFind, ErrorsOf, Of
  <2> QED
    BY <2>1, <2>2, <2>3, GoodsKept
<1>19. ASSUME NEW p \in Procs, ReprocessNotes(p) PROVE Goods'
  <2>1. UNCHANGED <<stock, share>>
    BY <1>19 DEF ReprocessNotes
  <2>2. \A q \in Procs : parts'[q] \subseteq parts[q]
    BY <1>19, FinishParts DEF ReprocessNotes
  <2>3. \A o \in Orders : kind[o] \notin {"none", "error"} => kind'[o] \notin {"none", "error"}
    BY <1>19 DEF ReprocessNotes
  <2> QED
    BY <2>1, <2>2, <2>3, GoodsKept
<1>20. ASSUME NEW p \in Procs, ReprocessDelete(p) PROVE Goods'
  <2>1. UNCHANGED <<stock, share>>
    BY <1>20 DEF ReprocessDelete, Delete
  <2>2. \A q \in Procs : parts'[q] \subseteq parts[q]
    BY <1>20 DEF ReprocessDelete, Delete
  <2>3. \A o \in Orders : kind[o] \notin {"none", "error"} => kind'[o] \notin {"none", "error"}
    BY <1>20 DEF ReprocessDelete, Delete
  <2> QED
    BY <2>1, <2>2, <2>3, GoodsKept
<1>21. ASSUME NEW p \in Procs, IgnoreFind(p) PROVE Goods'
  <2>1. UNCHANGED <<stock, share>>
    BY <1>21 DEF IgnoreFind, ErrorsOf, Of
  <2>2. \A q \in Procs : parts'[q] \subseteq parts[q]
    BY <1>21 DEF IgnoreFind, ErrorsOf, Of
  <2>3. \A o \in Orders : kind[o] \notin {"none", "error"} => kind'[o] \notin {"none", "error"}
    BY <1>21 DEF IgnoreFind, ErrorsOf, Of
  <2> QED
    BY <2>1, <2>2, <2>3, GoodsKept
<1>22. ASSUME NEW p \in Procs, IgnoreDelete(p) PROVE Goods'
  <2>1. UNCHANGED <<stock, share>>
    BY <1>22 DEF IgnoreDelete, Delete
  <2>2. \A q \in Procs : parts'[q] \subseteq parts[q]
    BY <1>22 DEF IgnoreDelete, Delete
  <2>3. \A o \in Orders : kind[o] \notin {"none", "error"} => kind'[o] \notin {"none", "error"}
    BY <1>22 DEF IgnoreDelete, Delete
  <2> QED
    BY <2>1, <2>2, <2>3, GoodsKept
<1>23. ASSUME NEW p \in Procs, IgnoreSave(p) PROVE Goods'
  <2>1. UNCHANGED <<stock, share>>
    BY <1>23 DEF IgnoreSave, Error
  <2>2. \A q \in Procs : parts'[q] \subseteq parts[q]
    BY <1>23, FinishParts DEF IgnoreSave, Error
  <2>3. \A o \in Orders : kind[o] \notin {"none", "error"} => kind'[o] \notin {"none", "error"}
    BY <1>23 DEF IgnoreSave, Error
  <2> QED
    BY <2>1, <2>2, <2>3, GoodsKept
<1>24. ASSUME NEW p \in Procs, ApproveClaim(p) PROVE Goods'
  <2>1. made[p] \in Orders
    BY <1>24, MadeIsOrder DEF ApproveClaim
  <2>2. CASE kind[made[p]] = "error"
    <3>1. /\ UNCHANGED <<stock, share>> /\ kind'[made[p]] = "live"
          /\ \A u \in Orders : u # made[p] => kind'[u] = kind[u]
          /\ parts'[p] = {made[p]}
          /\ \A q \in Procs : q # p => parts'[q] = parts[q]
      BY <1>24, <2>1, <2>2 DEF ApproveClaim
    <3>2. PICK o \in Orders : o = made[p]
      BY <2>1
    <3>3. share'[o] # {}
      BY <3>1 DEF Goods
    <3> QED
      BY <2>2, <3>1, <3>2, <3>3, GoodsBegun
  <2>3. CASE Finish(p) /\ UNCHANGED kind
    BY <1>24, <2>3, FinishParts, GoodsKept DEF ApproveClaim
  <2> QED
    BY <1>24, <2>2, <2>3 DEF ApproveClaim
<1>25. ASSUME NEW p \in Procs, Split(p) PROVE Goods'
  <2>1. CASE New(p, "live", text[made[p]], {"disposables"}) /\ parts' = [parts EXCEPT ![p] = @ \cup {Number}]
    <3>1. UNCHANGED stock
      BY <1>25 DEF Split
    <3>2. /\ Number \in Orders
          /\ kind[Number] = "none" /\ kind'[Number] = "live" /\ share'[Number] = {"disposables"}
          /\ \A u \in Orders : u # Number => kind'[u] = kind[u] /\ share'[u] = share[u]
      BY <2>1, NewHands
    <3>3. /\ parts'[p] \subseteq parts[p] \cup {Number}
          /\ \A q \in Procs : q # p => parts'[q] = parts[q]
      BY <2>1
    <3>4. {"disposables"} # {}
      BY DEF Shares
    <3> HIDE DEF WorkOK, OrderOK, Goto
    <3>5. PICK o \in Orders : o = Number
      BY <3>2
    <3>6. kind[o] \in {"none", "error"} /\ kind'[o] = "live" /\ share'[o] # {}
      BY <3>2, <3>4, <3>5
    <3>7. \A u \in Orders : u # o => kind'[u] = kind[u] /\ share'[u] = share[u]
      BY <3>2, <3>5
    <3>8. \A u \in parts'[p] : u \in parts[p] \/ u = o
      BY <3>3, <3>5
    <3>9. \A q \in Procs : q # p => parts'[q] = parts[q]
      BY <3>3
    <3> HIDE ProcsAre, Bounds, TypeParts
    <3> QED
      BY <3>1, <3>6, <3>7, <3>8, <3>9, GoodsBegun
  <2>2. CASE UNCHANGED <<kind, share, parts>>
    BY <1>25, <2>2, GoodsKept DEF Split
  <2> QED
    BY <1>25, <2>1, <2>2 DEF Split
<1>26. ASSUME NEW p \in Procs, Mark(p) PROVE Goods'
  <2>1. UNCHANGED <<stock, share>>
    BY <1>26 DEF Mark
  <2>2. \A q \in Procs : parts'[q] \subseteq parts[q]
    BY <1>26, FinishParts DEF Mark
  <2>3. \A o \in Orders : kind[o] \notin {"none", "error"} => kind'[o] \notin {"none", "error"}
    BY <1>26 DEF Mark
  <2> QED
    BY <2>1, <2>2, <2>3, GoodsKept
<1>27. ASSUME NEW p \in Procs, SaveFails(p) PROVE Goods'
  <2>1. UNCHANGED <<stock, share>>
    BY <1>27 DEF SaveFails, Unrecorded, Error
  <2>2. \A q \in Procs : parts'[q] \subseteq parts[q]
    <3>1. CASE Finish(p)
      BY <3>1, FinishParts
    <3>2. CASE UNCHANGED parts
      BY <3>2
    <3>3. next[p] \in {"aside", "failed", "unknown", "order_created"}
      BY <1>27 DEF SaveFails, Hands, Hand
    <3> QED
      BY <1>27, <3>1, <3>2, <3>3 DEF SaveFails
  <2>3. \A o \in Orders : kind[o] \notin {"none", "error"} => kind'[o] \notin {"none", "error"}
    BY <1>27 DEF SaveFails, Unrecorded, Error
  <2> QED
    BY <2>1, <2>2, <2>3, GoodsKept
<1>28. ASSUME NEW p \in Procs, ApproveFails(p) PROVE Goods'
  <2>1. UNCHANGED <<stock, share>>
    BY <1>28 DEF ApproveFails, Unrecorded, Error
  <2>2. \A q \in Procs : parts'[q] \subseteq parts[q]
    BY <1>28, FinishParts DEF ApproveFails, Unrecorded, Error
  <2>3. \A o \in Orders : kind[o] \notin {"none", "error"} => kind'[o] \notin {"none", "error"}
    BY <1>28 DEF ApproveFails, Unrecorded, Error
  <2> QED
    BY <2>1, <2>2, <2>3, GoodsKept
<1>29. ASSUME NEW a \in Admins, NEW r \in Messages, ReleaseNow(a, r) PROVE Goods'
  <2>1. UNCHANGED <<stock, share>>
    BY <1>29 DEF ReleaseNow, Act
  <2>2. \A q \in Procs : parts'[q] \subseteq parts[q]
    BY <1>29 DEF ReleaseNow, Act
  <2>3. \A o \in Orders : kind[o] \notin {"none", "error"} => kind'[o] \notin {"none", "error"}
    BY <1>29 DEF ReleaseNow, Act
  <2> QED
    BY <2>1, <2>2, <2>3, GoodsKept
<1>30. ASSUME NEW a \in Admins, NEW r \in Messages, ReprocessRead(a, r) PROVE Goods'
  <2>1. UNCHANGED <<stock, share>>
    BY <1>30 DEF ReprocessRead, Act
  <2>2. \A q \in Procs : parts'[q] \subseteq parts[q]
    BY <1>30 DEF ReprocessRead, Act
  <2>3. \A o \in Orders : kind[o] \notin {"none", "error"} => kind'[o] \notin {"none", "error"}
    BY <1>30 DEF ReprocessRead, Act
  <2> QED
    BY <2>1, <2>2, <2>3, GoodsKept
<1>31. ASSUME NEW a \in Admins, NEW r \in Messages, IgnoreRead(a, r) PROVE Goods'
  <2>1. UNCHANGED <<stock, share>>
    BY <1>31 DEF IgnoreRead, Act
  <2>2. \A q \in Procs : parts'[q] \subseteq parts[q]
    BY <1>31 DEF IgnoreRead, Act
  <2>3. \A o \in Orders : kind[o] \notin {"none", "error"} => kind'[o] \notin {"none", "error"}
    BY <1>31 DEF IgnoreRead, Act
  <2> QED
    BY <2>1, <2>2, <2>3, GoodsKept
<1>32. ASSUME NEW a \in Admins, NEW o \in Orders, ApproveRead(a, o) PROVE Goods'
  <2>1. UNCHANGED <<stock, share>>
    BY <1>32 DEF ApproveRead, Act
  <2>2. \A q \in Procs : parts'[q] \subseteq parts[q]
    BY <1>32 DEF ApproveRead, Act
  <2>3. \A x \in Orders : kind[x] \notin {"none", "error"} => kind'[x] \notin {"none", "error"}
    BY <1>32 DEF ApproveRead, Act
  <2> QED
    BY <2>1, <2>2, <2>3, GoodsKept
<1>33. ASSUME NEW o \in Orders, IssueNote(o) PROVE Goods'
  <2>1. UNCHANGED <<stock, share>>
    BY <1>33 DEF IssueNote
  <2>2. \A q \in Procs : parts'[q] \subseteq parts[q]
    BY <1>33 DEF IssueNote
  <2>3. \A x \in Orders : kind[x] \notin {"none", "error"} => kind'[x] \notin {"none", "error"}
    BY <1>33 DEF IssueNote
  <2> QED
    BY <2>1, <2>2, <2>3, GoodsKept
<1>34. CASE Crash
  <2>1. UNCHANGED <<stock, share>>
    BY <1>34 DEF Crash, Unrecorded
  <2>2. \A q \in Procs : parts'[q] \subseteq parts[q]
    BY <1>34 DEF Crash, Unrecorded
  <2>3. \A o \in Orders : kind[o] \notin {"none", "error"} => kind'[o] \notin {"none", "error"}
    BY <1>34 DEF Crash, Unrecorded
  <2> QED
    BY <2>1, <2>2, <2>3, GoodsKept
<1>35. CASE UNCHANGED vars
    BY <1>35 DEF vars, Goods
<1>36. ASSUME NEW d \in Deliveries, Stranger(d) PROVE Goods'
  <2>1. UNCHANGED stock /\ \A o \in Orders : share'[o] = share[o]
    BY <1>36 DEF Stranger
  <2>2. \A q \in Procs : parts'[q] \subseteq parts[q]
    BY <1>36 DEF Stranger
  <2>3. \A o \in Orders : kind[o] \notin {"none", "error"} => kind'[o] \notin {"none", "error"}
    BY <1>36 DEF Stranger
  <2> QED
    BY <2>1, <2>2, <2>3, GoodsKept
<1>37. ASSUME NEW d \in Deliveries, Alone(d) PROVE Goods'
  <2>1. UNCHANGED stock /\ \A o \in Orders : share'[o] = share[o]
    BY <1>37 DEF Alone, Opened
  <2>2. \A q \in Procs : parts'[q] \subseteq parts[q]
    BY <1>37 DEF Alone, Opened
  <2>3. \A o \in Orders : kind[o] \notin {"none", "error"} => kind'[o] \notin {"none", "error"}
    BY <1>37 DEF Alone, Opened
  <2> QED
    BY <2>1, <2>2, <2>3, GoodsKept
<1>38. ASSUME NEW d \in Deliveries, ArriveFails(d) PROVE Goods'
  <2>1. UNCHANGED stock /\ \A o \in Orders : share'[o] = share[o]
    BY <1>38 DEF ArriveFails, Error
  <2>2. \A q \in Procs : parts'[q] \subseteq parts[q]
    BY <1>38 DEF ArriveFails, Error
  <2>3. \A o \in Orders : kind[o] \notin {"none", "error"} => kind'[o] \notin {"none", "error"}
    BY <1>38 DEF ArriveFails, Error
  <2> QED
    BY <2>1, <2>2, <2>3, GoodsKept
<1>39. ASSUME NEW p \in Procs, Check(p) PROVE Goods'
  <2>1. UNCHANGED stock /\ \A o \in Orders : share'[o] = share[o]
    BY <1>39 DEF Check
  <2>2. \A q \in Procs : parts'[q] \subseteq parts[q]
    BY <1>39 DEF Check
  <2>3. \A o \in Orders : kind[o] \notin {"none", "error"} => kind'[o] \notin {"none", "error"}
    BY <1>39 DEF Check
  <2> QED
    BY <2>1, <2>2, <2>3, GoodsKept
<1>40. ASSUME NEW p \in Procs, CheckFails(p) PROVE Goods'
  <2>1. UNCHANGED stock /\ \A o \in Orders : share'[o] = share[o]
    BY <1>40 DEF CheckFails, Error
  <2>2. \A q \in Procs : parts'[q] \subseteq parts[q]
    BY <1>40, FinishParts DEF CheckFails, Error
  <2>3. \A o \in Orders : kind[o] \notin {"none", "error"} => kind'[o] \notin {"none", "error"}
    BY <1>40 DEF CheckFails, Error
  <2> QED
    BY <2>1, <2>2, <2>3, GoodsKept
<1>41. ASSUME NEW p \in Procs, Shrink(p) PROVE Goods'
  <2>1. UNCHANGED <<stock, kind, parts>>
    BY <1>41 DEF Shrink
  <2>2. \A o \in Orders : share'[o] = share[o] \/ (kind[o] = "live" /\ share'[o] = {"rest"})
    BY <1>41 DEF Shrink
  <2>3. \A o \in Orders : \/ share'[o] = share[o]
                          \/ kind[o] \notin {"none", "error"} /\ share'[o] # {}
    BY <2>2
  <2> QED
    BY <2>1, <2>3, GoodsKept
<1>42. ASSUME NEW p \in Procs, ShrinkFails(p) PROVE Goods'
  <2>1. UNCHANGED stock /\ \A o \in Orders : share'[o] = share[o]
    BY <1>42 DEF ShrinkFails, Error
  <2>2. \A q \in Procs : parts'[q] \subseteq parts[q]
    BY <1>42 DEF ShrinkFails, Error
  <2>3. \A o \in Orders : kind[o] \notin {"none", "error"} => kind'[o] \notin {"none", "error"}
    BY <1>42 DEF ShrinkFails, Error
  <2> QED
    BY <2>1, <2>2, <2>3, GoodsKept
<1>43. ASSUME NEW p \in Procs, Unsplit(p) PROVE Goods'
  <2>0. made[p] \in parts[p]
    BY <1>43 DEF Unsplit, Hands, Hand, Splitting
  <2>1. UNCHANGED stock /\ \A o \in Orders : share'[o] = share[o]
    BY <1>43, <2>0 DEF Unsplit
  <2>2. \A q \in Procs : parts'[q] \subseteq parts[q]
    BY <1>43, <2>0 DEF Unsplit
  <2>3. \A o \in Orders : kind[o] \notin {"none", "error"} => kind'[o] \notin {"none", "error"}
    BY <1>43, <2>0 DEF Unsplit
  <2> QED
    BY <2>1, <2>2, <2>3, GoodsKept
<1>44. ASSUME NEW p \in Procs, UnsplitFails(p) PROVE Goods'
  <2>0. made[p] \in parts[p]
    BY <1>44 DEF UnsplitFails, Hands, Hand, Splitting
  <2>1. UNCHANGED stock /\ \A o \in Orders : share'[o] = share[o]
    BY <1>44, <2>0 DEF UnsplitFails, Error
  <2>2. \A q \in Procs : parts'[q] \subseteq parts[q]
    BY <1>44, <2>0 DEF UnsplitFails, Error
  <2>3. \A o \in Orders : kind[o] \notin {"none", "error"} => kind'[o] \notin {"none", "error"}
    BY <1>44, <2>0 DEF UnsplitFails, Error
  <2> QED
    BY <2>1, <2>2, <2>3, GoodsKept
<1> QED
    BY <1>1, <1>2, <1>3, <1>4, <1>5, <1>6, <1>7, <1>8, <1>9, <1>10, <1>11,
       <1>12, <1>13, <1>14, <1>15, <1>16, <1>17, <1>18, <1>19, <1>20, <1>21,
       <1>22, <1>23, <1>24, <1>25, <1>26, <1>27, <1>28, <1>29, <1>30, <1>31,
       <1>32, <1>33, <1>34, <1>35, <1>36, <1>37, <1>38, <1>39, <1>40, <1>41,
       <1>42, <1>43, <1>44
       DEF Next, DeliveryStep, WorkStep, Fault, Press

(* The goods of an order leave the stock once, however many people approve *)
(* it and whatever fails between the claim and the stock.                  *)
THEOREM GoodsLeaveOnce == Spec => []StockOnce
<1>1. Goods => StockOnce
    BY DEF Goods, StockOnce
<1>2. TypeOK /\ Hands /\ Goods /\ [Next]_vars => (TypeOK /\ Hands /\ Goods)'
    BY NextType, NextHands, NextGoods
<1> QED
    BY <1>1, <1>2, InitType, InitHands, InitGoods, PTL DEF Spec

-----------------------------------------------------------------------------
(* A delivery that found no record of its message and looks for one to     *)
(* join or to open, and one that ended as it should or left its text.      *)
Seeks == {"append", "insert", "known", "again", "single", "stranger", "alone"}
Left  == {"done", "full"} \cup Works

HeldSome(d) == \E r \in Messages : d \in held[r]

Twins(d, e) == d # e /\ MessageOf[d] = MessageOf[e]

(* A record holds the message that opened it; a delivery that ended left   *)
(* its message in some record; and of two deliveries of a message one      *)
(* finds the other's text, unless they ran at once.                        *)
Kept ==
    /\ \A r \in Messages : status[r] = "none" => held[r] = {}
    /\ \A r \in Messages : status[r] # "none" => \E e \in held[r] : MessageOf[e] = r
    /\ \A d \in Deliveries : pc[d] \in Left => Known(MessageOf[d])
    /\ \A d, e \in Deliveries : Twins(d, e) =>
          /\ pc[d] \in Arrives /\ pc[e] \in Arrives => MessageOf[d] \in resent
          /\ HeldSome(d) /\ pc[e] \in Seeks => MessageOf[d] \in resent
          /\ HeldSome(d) /\ HeldSome(e) => MessageOf[d] \in resent

LEMMA Partition ==
    /\ Seeks \subseteq Arrives /\ Left \cap Seeks = {} /\ "look" \notin Seeks \cup Left
    /\ "done" \in Left \ Arrives /\ "full" \in Left /\ "check" \in Left \ Arrives
    /\ "idle" \notin Left \cup Arrives /\ "claim" \notin Left \cup Arrives
    /\ "dead" \notin Left \cup Arrives
    /\ Works \subseteq Left \ Arrives
BY DEF Seeks, Left, Arrives, Works

(* No text is written, and no delivery begins to look or ends unread.      *)
LEMMA KeptStays ==
    ASSUME Kept, UNCHANGED held, resent \subseteq resent',
           \A r \in Messages : status'[r] = "none" <=> status[r] = "none",
           \A d \in Deliveries :
              /\ pc'[d] \in Left => pc[d] \in Left
              /\ pc'[d] \in Arrives => pc[d] \in Arrives
              /\ pc'[d] \in Seeks => pc[d] \in Seeks
    PROVE  Kept'
<1>1. \A m : Known(m)' <=> Known(m)
    BY DEF Known
<1>2. \A d : HeldSome(d)' <=> HeldSome(d)
    BY DEF HeldSome
<1>3. \A d \in Deliveries : pc'[d] \in Left => Known(MessageOf[d])'
    BY <1>1 DEF Kept
<1>4. \A r \in Messages : status'[r] = "none" => held'[r] = {}
    BY DEF Kept
<1>5. \A r \in Messages : status'[r] # "none" => \E e \in held'[r] : MessageOf[e] = r
    BY DEF Kept
<1>6. \A d, e \in Deliveries : Twins(d, e) =>
          /\ pc'[d] \in Arrives /\ pc'[e] \in Arrives => MessageOf[d] \in resent'
          /\ HeldSome(d)' /\ pc'[e] \in Seeks => MessageOf[d] \in resent'
          /\ HeldSome(d)' /\ HeldSome(e)' => MessageOf[d] \in resent'
    BY <1>2 DEF Kept
<1> QED
    BY <1>3, <1>4, <1>5, <1>6 DEF Kept, Twins

(* A delivery leaves its text in a record that there is, or that it opens. *)
LEMMA KeptJoins ==
    ASSUME TypeOK, Kept, NEW d \in Deliveries, NEW r \in Messages, pc[d] \in Seeks,
           held' = [held EXCEPT ![r] = @ \cup {d}], UNCHANGED resent,
           status[r] # "none" \/ r = MessageOf[d], status'[r] # "none",
           \A x \in Messages : x # r => (status'[x] = "none" <=> status[x] = "none"),
           \A e \in Deliveries : e # d => pc'[e] = pc[e],
           pc'[d] \in Left
    PROVE  Kept'
<1> USE Partition
<1>1. /\ held'[r] = held[r] \cup {d}
      /\ \A x \in Messages : x # r => held'[x] = held[x]
      /\ \A x \in Messages : held[x] \subseteq held'[x]
    BY DEF TypeOK
<1>2. \A m : Known(m) => Known(m)'
    BY <1>1 DEF Known
<1>3. Known(MessageOf[d])'
    BY <1>1 DEF Known
<1>4. \A e \in Deliveries : e # d => (HeldSome(e)' <=> HeldSome(e))
    BY <1>1 DEF HeldSome
<1>5. \A r0 \in Messages : status'[r0] = "none" => held'[r0] = {}
    BY <1>1 DEF Kept
<1>6. \A x \in Messages : status'[x] # "none" => \E e \in held'[x] : MessageOf[e] = x
  <2>1. ASSUME NEW x \in Messages, x # r, status'[x] # "none"
        PROVE  \E e \in held'[x] : MessageOf[e] = x
    BY <1>1, <2>1 DEF Kept
  <2>2. \E e \in held'[r] : MessageOf[e] = r
    BY <1>1 DEF Kept
  <2> QED
    BY <2>1, <2>2
<1>7. \A e \in Deliveries : pc'[e] \in Left => Known(MessageOf[e])'
    BY <1>2, <1>3 DEF Kept
<1>8. ASSUME NEW e \in Deliveries, Twins(d, e)
      PROVE  /\ pc[e] \in Arrives => MessageOf[d] \in resent
             /\ HeldSome(e) => MessageOf[d] \in resent
  <2>1. Twins(e, d) /\ MessageOf[e] = MessageOf[d] /\ pc[d] \in Arrives
    BY <1>8 DEF Twins
  <2> QED
    BY <1>8, <2>1 DEF Kept
<1>9. \A e, f \in Deliveries : Twins(e, f) =>
          /\ pc'[e] \in Arrives /\ pc'[f] \in Arrives => MessageOf[e] \in resent
          /\ HeldSome(e)' /\ pc'[f] \in Seeks => MessageOf[e] \in resent
          /\ HeldSome(e)' /\ HeldSome(f)' => MessageOf[e] \in resent
  <2> SUFFICES ASSUME NEW e \in Deliveries, NEW f \in Deliveries, Twins(e, f)
               PROVE  /\ pc'[e] \in Arrives /\ pc'[f] \in Arrives => MessageOf[e] \in resent
                      /\ HeldSome(e)' /\ pc'[f] \in Seeks => MessageOf[e] \in resent
                      /\ HeldSome(e)' /\ HeldSome(f)' => MessageOf[e] \in resent
    OBVIOUS
  <2>1. pc'[d] \notin Seeks
    OBVIOUS
  <2>2. CASE e = d
    BY <1>4, <1>8, <2>1, <2>2 DEF Twins
  <2>3. CASE f = d
    BY <1>4, <1>8, <2>1, <2>3 DEF Twins
  <2>4. CASE e # d /\ f # d
    BY <1>4, <2>4 DEF Kept
  <2> QED
    BY <2>2, <2>3, <2>4
<1> QED
    BY <1>5, <1>6, <1>7, <1>9 DEF Kept, Twins

LEMMA FinishKept ==
    ASSUME TypeOK, NEW p \in Procs, Finish(p), p \in Deliveries => pc[p] \in Left
    PROVE  \A d \in Deliveries :
              /\ pc'[d] \in Left => pc[d] \in Left
              /\ pc'[d] \in Arrives => pc[d] \in Arrives
              /\ pc'[d] \in Seeks => pc[d] \in Seeks
BY Partition DEF TypeOK, Finish, Goto, Ends

(* A call works on, or was no delivery.                                    *)
LEMMA WorkKept ==
    ASSUME TypeOK, NEW p \in Procs, p \in Deliveries => pc[p] \in Works /\ pc'[p] \in Works,
           \A q \in Procs : q # p => pc'[q] = pc[q]
    PROVE  \A d \in Deliveries :
              /\ pc'[d] \in Left => pc[d] \in Left
              /\ pc'[d] \in Arrives => pc[d] \in Arrives
              /\ pc'[d] \in Seeks => pc[d] \in Seeks
BY Partition, ProcsAre

LEMMA InitKept == Init => Kept
<1> SUFFICES ASSUME Init PROVE Kept
    OBVIOUS
<1>1. \A d \in Deliveries : pc[d] = "idle" /\ d \in Procs
    BY ProcsAre DEF Init
<1>2. \A r \in Messages : status[r] = "none" /\ held[r] = {}
    BY DEF Init
<1> QED
    BY <1>1, <1>2, Partition DEF Kept, HeldSome

LEMMA NextKept == TypeOK /\ Hands /\ Kept /\ [Next]_vars => Kept'
<1> SUFFICES ASSUME TypeOK, Hands, Kept, [Next]_vars
             PROVE  Kept'
    OBVIOUS
<1> USE ProcsAre, Partition, TypeParts DEF recordVars, orderVars, workVars, boundVars, pastVars,
        RecordOK, WorkOK, Goto, Take
<1>1. ASSUME NEW d \in Deliveries, Receive(d) PROVE Kept'
  <2>1. UNCHANGED <<held, status>> /\ resent \subseteq resent'
    BY <1>1 DEF Receive
  <2>2. pc[d] = "idle" /\ pc'[d] = "look" /\ \A e \in Deliveries : e # d => pc'[e] = pc[e]
    BY <1>1 DEF Receive
  <2>3. \A e \in Deliveries : Twins(e, d) /\ pc[e] \in Arrives => MessageOf[e] \in resent'
    BY <1>1 DEF Receive, Twins
  <2>4. \A x : HeldSome(x)' <=> HeldSome(x)
    BY <2>1 DEF HeldSome
  <2>5. \A e \in Deliveries : pc'[e] \in Left => Known(MessageOf[e])'
    BY <2>1, <2>2 DEF Kept, Known
  <2>6. \A e, f \in Deliveries : Twins(e, f) =>
            /\ pc'[e] \in Arrives /\ pc'[f] \in Arrives => MessageOf[e] \in resent'
            /\ HeldSome(e)' /\ pc'[f] \in Seeks => MessageOf[e] \in resent'
            /\ HeldSome(e)' /\ HeldSome(f)' => MessageOf[e] \in resent'
    BY <2>1, <2>2, <2>3, <2>4 DEF Kept, Twins
  <2> QED
    BY <2>1, <2>5, <2>6 DEF Kept, Twins
<1>2. ASSUME NEW d \in Deliveries, Look(d) PROVE Kept'
  <2>1. UNCHANGED <<held, status, resent>> /\ \A e \in Deliveries : e # d => pc'[e] = pc[e]
    BY <1>2 DEF Look
  <2>2. /\ pc[d] = "look"
        /\ IF Known(MessageOf[d]) THEN pc'[d] = "done" ELSE pc'[d] \in {"append", "stranger"}
    BY <1>2 DEF Look
  <2>3. CASE Known(MessageOf[d])
    <3>1. \A e \in Deliveries : pc'[e] \in Left => Known(MessageOf[e])'
      BY <2>1, <2>2, <2>3 DEF Kept, Known
    <3>2. \A e \in Deliveries : /\ pc'[e] \in Arrives => pc[e] \in Arrives
                                /\ pc'[e] \in Seeks => pc[e] \in Seeks
      BY <2>1, <2>2, <2>3
    <3> QED
      BY <2>1, <3>1, <3>2 DEF Kept, Twins, HeldSome
  <2>4. CASE ~Known(MessageOf[d])
    <3>1. \A e \in Deliveries : Twins(e, d) => ~HeldSome(e)
      BY <2>4 DEF Known, HeldSome, Twins
    <3>2. \A e \in Deliveries : pc'[e] \in Left => Known(MessageOf[e])'
      BY <2>1, <2>2, <2>4 DEF Kept, Known, Seeks
    <3>3. \A e \in Deliveries : /\ pc'[e] \in Arrives => pc[e] \in Arrives
                                /\ pc'[e] \in Seeks => e = d \/ pc[e] \in Seeks
      BY <2>1, <2>2, <2>4 DEF Arrives
    <3>4. \A e : HeldSome(e)' <=> HeldSome(e)
      BY <2>1 DEF HeldSome
    <3>5. \A e, f \in Deliveries : Twins(e, f) =>
              /\ pc'[e] \in Arrives /\ pc'[f] \in Arrives => MessageOf[e] \in resent
              /\ HeldSome(e) /\ pc'[f] \in Seeks => MessageOf[e] \in resent
              /\ HeldSome(e) /\ HeldSome(f) => MessageOf[e] \in resent
      BY <3>1, <3>3 DEF Kept
    <3> QED
      BY <2>1, <3>2, <3>4, <3>5 DEF Kept, Twins
  <2> QED
    BY <2>3, <2>4
<1>3. ASSUME NEW d \in Deliveries, Append(d) PROVE Kept'
  <2>1. \A e \in Deliveries : e # d => pc'[e] = pc[e]
    BY <1>3, AppendHand
  <2>2. pc[d] \in Seeks /\ UNCHANGED <<status, resent>>
    BY <1>3 DEF Append, Seeks
  <2>3. ASSUME NEW r \in Messages, Join(d, r), pc'[d] \in {"done", "full"} PROVE Kept'
    BY <2>1, <2>2, <2>3, KeptJoins, ZenonT(40) DEF Join
  <2>4. CASE UNCHANGED held /\ Goto(d, "insert")
    <3>1. \A e \in Deliveries :
            /\ pc'[e] \in Left => pc[e] \in Left
            /\ pc'[e] \in Arrives => pc[e] \in Arrives
            /\ pc'[e] \in Seeks => pc[e] \in Seeks
      BY <2>1, <2>2, <2>4 DEF Seeks, Arrives
    <3> QED
      BY <2>2, <2>4, <3>1, KeptStays
  <2>5. \/ \E r \in Messages : Join(d, r) /\ pc'[d] \in {"done", "full"}
        \/ UNCHANGED held /\ Goto(d, "insert")
    BY <1>3 DEF Append
  <2> QED
    BY <2>3, <2>4, <2>5
<1>4. ASSUME NEW d \in Deliveries, Full(d) PROVE Kept'
  <2>1. UNCHANGED held /\ resent \subseteq resent'
    BY <1>4 DEF Full
  <2>2. \A x \in Messages : status'[x] = "none" <=> status[x] = "none"
    BY <1>4 DEF Full
  <2>3. \A e \in Deliveries :
          /\ pc'[e] \in Left => pc[e] \in Left
          /\ pc'[e] \in Arrives => pc[e] \in Arrives
          /\ pc'[e] \in Seeks => pc[e] \in Seeks
    BY <1>4 DEF Full
  <2> QED
    BY <2>1, <2>2, <2>3, KeptStays
<1>5. ASSUME NEW d \in Deliveries, Insert(d) PROVE Kept'
  <2>1. UNCHANGED resent /\ pc[d] \in Seeks /\ \A e \in Deliveries : e # d => pc'[e] = pc[e]
    BY <1>5 DEF Insert, Seeks
  <2>2. CASE Opened(d, "collecting") /\ status[MessageOf[d]] = "none" /\ pc'[d] = "done"
    <3>1. held' = [held EXCEPT ![MessageOf[d]] = @ \cup {d}]
      <4>1. held[MessageOf[d]] = {}
        BY <2>2 DEF Kept
      <4> QED
        BY <2>2, <4>1 DEF Opened
    <3>2. /\ status'[MessageOf[d]] # "none"
          /\ \A x \in Messages : x # MessageOf[d] => status'[x] = status[x]
      BY <2>2 DEF Opened, RecordOK
    <3>3. pc'[d] \in Left
      BY <2>2
    <3> QED
      BY <2>1, <3>1, <3>2, <3>3, KeptJoins
  <2>3. CASE UNCHANGED <<status, held>> /\ pc'[d] = "known"
    <3>1. \A e \in Deliveries :
            /\ pc'[e] \in Left => pc[e] \in Left
            /\ pc'[e] \in Arrives => pc[e] \in Arrives
            /\ pc'[e] \in Seeks => pc[e] \in Seeks
      BY <2>1, <2>3 DEF Seeks, Arrives
    <3> QED
      BY <2>1, <2>3, <3>1, KeptStays
  <2> QED
    BY <1>5, <2>2, <2>3 DEF Insert
<1>6. ASSUME NEW d \in Deliveries, KnownNow(d) PROVE Kept'
  <2>1. UNCHANGED <<held, status, resent>> /\ \A e \in Deliveries : e # d => pc'[e] = pc[e]
    BY <1>6 DEF KnownNow
  <2>2. pc[d] = "known" /\ pc'[d] = IF status[MessageOf[d]] # "none" THEN "done" ELSE "again"
    BY <1>6 DEF KnownNow
  <2>3. status[MessageOf[d]] # "none" => Known(MessageOf[d])
    BY DEF Kept, Known
  <2>4. \A e \in Deliveries : pc'[e] \in Left => Known(MessageOf[e])'
    BY <2>1, <2>2, <2>3 DEF Kept, Known, Left, Works
  <2>5. \A e \in Deliveries : /\ pc'[e] \in Arrives => pc[e] \in Arrives
                              /\ pc'[e] \in Seeks => pc[e] \in Seeks
    BY <2>1, <2>2 DEF Arrives, Seeks
  <2> QED
    BY <2>1, <2>4, <2>5 DEF Kept, Twins, HeldSome
<1>7. ASSUME NEW d \in Deliveries, Again(d) PROVE Kept'
  <2>1. \A e \in Deliveries : e # d => pc'[e] = pc[e]
    BY <1>7 DEF Again
  <2>2. pc[d] \in Seeks /\ UNCHANGED <<status, resent>>
    BY <1>7 DEF Again, Seeks
  <2>3. ASSUME NEW r \in Messages, Join(d, r), pc'[d] = "done" PROVE Kept'
    <3>1. status[r] # "none" /\ status'[r] # "none" /\ pc'[d] \in Left
      BY <2>2, <2>3 DEF Join
    <3> QED
      BY <2>1, <2>2, <2>3, <3>1, KeptJoins DEF Join
  <2>4. CASE UNCHANGED held /\ Goto(d, "single")
    <3>1. \A e \in Deliveries :
            /\ pc'[e] \in Left => pc[e] \in Left
            /\ pc'[e] \in Arrives => pc[e] \in Arrives
            /\ pc'[e] \in Seeks => pc[e] \in Seeks
      BY <2>1, <2>2, <2>4 DEF Seeks, Arrives
    <3> QED
      BY <2>2, <2>4, <3>1, KeptStays
  <2>5. \/ \E r \in Messages : Join(d, r) /\ pc'[d] = "done"
        \/ UNCHANGED held /\ Goto(d, "single")
    BY <1>7 DEF Again
  <2> QED
    BY <2>3, <2>4, <2>5
<1>8. ASSUME NEW d \in Deliveries, Single(d) PROVE Kept'
  <2>1. UNCHANGED resent /\ pc[d] \in Seeks /\ \A e \in Deliveries : e # d => pc'[e] = pc[e]
    BY <1>8 DEF Single, Seeks
  <2>2. CASE Opened(d, "received") /\ status[MessageOf[d]] = "none" /\ pc'[d] = "check"
    <3>1. held' = [held EXCEPT ![MessageOf[d]] = @ \cup {d}]
      <4>1. held[MessageOf[d]] = {}
        BY <2>2 DEF Kept
      <4> QED
        BY <2>2, <4>1 DEF Opened
    <3>2. /\ status'[MessageOf[d]] # "none"
          /\ \A x \in Messages : x # MessageOf[d] => status'[x] = status[x]
      BY <2>2 DEF Opened, RecordOK
    <3>3. pc'[d] \in Left
      BY <2>2
    <3> QED
      BY <2>1, <3>1, <3>2, <3>3, KeptJoins
  <2>3. CASE UNCHANGED <<status, held>> /\ pc'[d] = "done" /\ status[MessageOf[d]] # "none"
    <3>1. Known(MessageOf[d])
      BY <2>3 DEF Kept, Known
    <3>2. \A e \in Deliveries : pc'[e] \in Left => Known(MessageOf[e])'
      BY <2>1, <2>3, <3>1 DEF Kept, Known
    <3>3. \A e \in Deliveries : /\ pc'[e] \in Arrives => pc[e] \in Arrives
                                /\ pc'[e] \in Seeks => pc[e] \in Seeks
      BY <2>1, <2>3
    <3> QED
      BY <2>1, <2>3, <3>2, <3>3 DEF Kept, Twins, HeldSome
  <2> QED
    BY <1>8, <2>2, <2>3 DEF Single
<1>9. ASSUME NEW r \in Messages, WindowEnds(r) PROVE Kept'
  <2>1. UNCHANGED held /\ resent \subseteq resent'
    BY <1>9 DEF WindowEnds
  <2>2. \A x \in Messages : status'[x] = "none" <=> status[x] = "none"
    BY <1>9 DEF WindowEnds
  <2>3. \A e \in Deliveries :
          /\ pc'[e] \in Left => pc[e] \in Left
          /\ pc'[e] \in Arrives => pc[e] \in Arrives
          /\ pc'[e] \in Seeks => pc[e] \in Seeks
    BY <1>9 DEF WindowEnds
  <2> QED
    BY <2>1, <2>2, <2>3, KeptStays
<1>10. CASE CronFind
  <2>1. UNCHANGED held /\ resent \subseteq resent'
    BY <1>10 DEF CronFind
  <2>2. \A x \in Messages : status'[x] = "none" <=> status[x] = "none"
    BY <1>10 DEF CronFind
  <2>3. \A e \in Deliveries :
          /\ pc'[e] \in Left => pc[e] \in Left
          /\ pc'[e] \in Arrives => pc[e] \in Arrives
          /\ pc'[e] \in Seeks => pc[e] \in Seeks
    BY <1>10 DEF CronFind
  <2> QED
    BY <2>1, <2>2, <2>3, KeptStays
<1>11. ASSUME NEW p \in Procs, NEW r \in Messages, Claim(p, r) PROVE Kept'
  <2>1. UNCHANGED held /\ resent \subseteq resent'
    BY <1>11 DEF Claim
  <2>2. \A x \in Messages : status'[x] = "none" <=> status[x] = "none"
    BY <1>11 DEF Claim
  <2>3. \A e \in Deliveries :
          /\ pc'[e] \in Left => pc[e] \in Left
          /\ pc'[e] \in Arrives => pc[e] \in Arrives
          /\ pc'[e] \in Seeks => pc[e] \in Seeks
    <3>1. p \notin Deliveries /\ \A q \in Procs : q # p => pc'[q] = pc[q]
      BY <1>11 DEF Claim, Hands, Hand
    <3> QED
      BY <3>1, WorkKept
  <2> QED
    BY <2>1, <2>2, <2>3, KeptStays
<1>12. ASSUME NEW p \in Procs, Process(p) PROVE Kept'
  <2>1. UNCHANGED held /\ resent \subseteq resent'
    BY <1>12 DEF Process
  <2>2. \A x \in Messages : status'[x] = "none" <=> status[x] = "none"
    BY <1>12 DEF Process
  <2>3. \A e \in Deliveries :
          /\ pc'[e] \in Left => pc[e] \in Left
          /\ pc'[e] \in Arrives => pc[e] \in Arrives
          /\ pc'[e] \in Seeks => pc[e] \in Seeks
    <3>1. pc[p] \in Works /\ pc'[p] \in Works /\ \A q \in Procs : q # p => pc'[q] = pc[q]
      BY <1>12 DEF Process, Works
    <3> QED
      BY <3>1, WorkKept
  <2> QED
    BY <2>1, <2>2, <2>3, KeptStays
<1>13. ASSUME NEW p \in Procs, MakeOrder(p) PROVE Kept'
  <2>1. UNCHANGED held /\ resent \subseteq resent'
    BY <1>13 DEF MakeOrder, New
  <2>2. \A x \in Messages : status'[x] = "none" <=> status[x] = "none"
    BY <1>13 DEF MakeOrder, New
  <2>3. \A e \in Deliveries :
          /\ pc'[e] \in Left => pc[e] \in Left
          /\ pc'[e] \in Arrives => pc[e] \in Arrives
          /\ pc'[e] \in Seeks => pc[e] \in Seeks
    <3>1. pc[p] \in Works /\ pc'[p] \in Works /\ \A q \in Procs : q # p => pc'[q] = pc[q]
      BY <1>13 DEF MakeOrder, New, Works
    <3> QED
      BY <3>1, WorkKept
  <2> QED
    BY <2>1, <2>2, <2>3, KeptStays
<1>14. ASSUME NEW p \in Procs, Stock(p) PROVE Kept'
  <2>1. UNCHANGED held /\ resent \subseteq resent'
    BY <1>14 DEF Stock, TakeFromStock
  <2>2. \A x \in Messages : status'[x] = "none" <=> status[x] = "none"
    BY <1>14 DEF Stock, TakeFromStock
  <2>3. \A e \in Deliveries :
          /\ pc'[e] \in Left => pc[e] \in Left
          /\ pc'[e] \in Arrives => pc[e] \in Arrives
          /\ pc'[e] \in Seeks => pc[e] \in Seeks
    <3>1. pc[p] \in Works /\ pc'[p] \in Works /\ \A q \in Procs : q # p => pc'[q] = pc[q]
      BY <1>14 DEF Stock, TakeFromStock, Works
    <3> QED
      BY <3>1, WorkKept
  <2> QED
    BY <2>1, <2>2, <2>3, KeptStays
<1>15. ASSUME NEW p \in Procs, Existing(p) PROVE Kept'
  <2>1. UNCHANGED held /\ resent \subseteq resent'
    BY <1>15 DEF Existing, Of
  <2>2. \A x \in Messages : status'[x] = "none" <=> status[x] = "none"
    BY <1>15 DEF Existing, Of
  <2>3. \A e \in Deliveries :
          /\ pc'[e] \in Left => pc[e] \in Left
          /\ pc'[e] \in Arrives => pc[e] \in Arrives
          /\ pc'[e] \in Seeks => pc[e] \in Seeks
    <3>1. pc[p] \in Works /\ pc'[p] \in Works /\ \A q \in Procs : q # p => pc'[q] = pc[q]
      BY <1>15 DEF Existing, Of, Works
    <3> QED
      BY <3>1, WorkKept
  <2> QED
    BY <2>1, <2>2, <2>3, KeptStays
<1>16. ASSUME NEW p \in Procs, MakeError(p) PROVE Kept'
  <2>1. UNCHANGED held /\ resent \subseteq resent'
    BY <1>16 DEF MakeError, New
  <2>2. \A x \in Messages : status'[x] = "none" <=> status[x] = "none"
    BY <1>16 DEF MakeError, New
  <2>3. \A e \in Deliveries :
          /\ pc'[e] \in Left => pc[e] \in Left
          /\ pc'[e] \in Arrives => pc[e] \in Arrives
          /\ pc'[e] \in Seeks => pc[e] \in Seeks
    <3>1. pc[p] \in Works /\ pc'[p] \in Works /\ \A q \in Procs : q # p => pc'[q] = pc[q]
      BY <1>16 DEF MakeError, New, Works
    <3> QED
      BY <3>1, WorkKept
  <2> QED
    BY <2>1, <2>2, <2>3, KeptStays
<1>17. ASSUME NEW p \in Procs, Save(p) PROVE Kept'
  <2>1. UNCHANGED held /\ resent \subseteq resent'
    BY <1>17 DEF Save, Unrecorded
  <2>2. \A x \in Messages : status'[x] = "none" <=> status[x] = "none"
    <3>1. next[p] # "none" /\ status[rec[p]] # "none"
      BY <1>17 DEF Save, Hands, Hand, Works
    <3> QED
      BY <1>17, <3>1 DEF Save
  <2>3. \A e \in Deliveries :
          /\ pc'[e] \in Left => pc[e] \in Left
          /\ pc'[e] \in Arrives => pc[e] \in Arrives
          /\ pc'[e] \in Seeks => pc[e] \in Seeks
    <3>1. pc[p] \in Works /\ Finish(p)
      BY <1>17 DEF Save, Works
    <3> QED
      BY <3>1, FinishKept
  <2> QED
    BY <2>1, <2>2, <2>3, KeptStays
<1>18. ASSUME NEW p \in Procs, ReprocessFind(p) PROVE Kept'
  <2>1. UNCHANGED held /\ resent \subseteq resent'
    BY <1>18 DEF ReprocessFind, ErrorsOf, Of
  <2>2. \A x \in Messages : status'[x] = "none" <=> status[x] = "none"
    BY <1>18 DEF ReprocessFind, ErrorsOf, Of
  <2>3. \A e \in Deliveries :
          /\ pc'[e] \in Left => pc[e] \in Left
          /\ pc'[e] \in Arrives => pc[e] \in Arrives
          /\ pc'[e] \in Seeks => pc[e] \in Seeks
    <3>1. pc[p] \in Works /\ pc'[p] \in Works /\ \A q \in Procs : q # p => pc'[q] = pc[q]
      BY <1>18 DEF ReprocessFind, ErrorsOf, Of, Works
    <3> QED
      BY <3>1, WorkKept
  <2> QED
    BY <2>1, <2>2, <2>3, KeptStays
<1>19. ASSUME NEW p \in Procs, ReprocessNotes(p) PROVE Kept'
  <2>1. UNCHANGED held /\ resent \subseteq resent'
    BY <1>19 DEF ReprocessNotes
  <2>2. \A x \in Messages : status'[x] = "none" <=> status[x] = "none"
    BY <1>19 DEF ReprocessNotes
  <2>3. \A e \in Deliveries :
          /\ pc'[e] \in Left => pc[e] \in Left
          /\ pc'[e] \in Arrives => pc[e] \in Arrives
          /\ pc'[e] \in Seeks => pc[e] \in Seeks
    <3>1. pc[p] \in Works
      BY <1>19 DEF ReprocessNotes, Works
    <3>2. CASE Finish(p)
      BY <3>1, <3>2, FinishKept
    <3>3. CASE Goto(p, "delete")
      BY <3>1, <3>3, WorkKept DEF Works
    <3> QED
      BY <1>19, <3>2, <3>3 DEF ReprocessNotes
  <2> QED
    BY <2>1, <2>2, <2>3, KeptStays
<1>20. ASSUME NEW p \in Procs, ReprocessDelete(p) PROVE Kept'
  <2>1. UNCHANGED held /\ resent \subseteq resent'
    BY <1>20 DEF ReprocessDelete, Delete
  <2>2. \A x \in Messages : status'[x] = "none" <=> status[x] = "none"
    BY <1>20 DEF ReprocessDelete, Delete
  <2>3. \A e \in Deliveries :
          /\ pc'[e] \in Left => pc[e] \in Left
          /\ pc'[e] \in Arrives => pc[e] \in Arrives
          /\ pc'[e] \in Seeks => pc[e] \in Seeks
    <3>1. pc[p] \in Works /\ pc'[p] \in Works /\ \A q \in Procs : q # p => pc'[q] = pc[q]
      BY <1>20 DEF ReprocessDelete, Delete, Works
    <3> QED
      BY <3>1, WorkKept
  <2> QED
    BY <2>1, <2>2, <2>3, KeptStays
<1>21. ASSUME NEW p \in Procs, IgnoreFind(p) PROVE Kept'
  <2>1. UNCHANGED held /\ resent \subseteq resent'
    BY <1>21 DEF IgnoreFind, ErrorsOf, Of
  <2>2. \A x \in Messages : status'[x] = "none" <=> status[x] = "none"
    BY <1>21 DEF IgnoreFind, ErrorsOf, Of
  <2>3. \A e \in Deliveries :
          /\ pc'[e] \in Left => pc[e] \in Left
          /\ pc'[e] \in Arrives => pc[e] \in Arrives
          /\ pc'[e] \in Seeks => pc[e] \in Seeks
    <3>1. pc[p] \in Works /\ pc'[p] \in Works /\ \A q \in Procs : q # p => pc'[q] = pc[q]
      BY <1>21 DEF IgnoreFind, ErrorsOf, Of, Works
    <3> QED
      BY <3>1, WorkKept
  <2> QED
    BY <2>1, <2>2, <2>3, KeptStays
<1>22. ASSUME NEW p \in Procs, IgnoreDelete(p) PROVE Kept'
  <2>1. UNCHANGED held /\ resent \subseteq resent'
    BY <1>22 DEF IgnoreDelete, Delete
  <2>2. \A x \in Messages : status'[x] = "none" <=> status[x] = "none"
    BY <1>22 DEF IgnoreDelete, Delete
  <2>3. \A e \in Deliveries :
          /\ pc'[e] \in Left => pc[e] \in Left
          /\ pc'[e] \in Arrives => pc[e] \in Arrives
          /\ pc'[e] \in Seeks => pc[e] \in Seeks
    <3>1. pc[p] \in Works /\ pc'[p] \in Works /\ \A q \in Procs : q # p => pc'[q] = pc[q]
      BY <1>22 DEF IgnoreDelete, Delete, Works
    <3> QED
      BY <3>1, WorkKept
  <2> QED
    BY <2>1, <2>2, <2>3, KeptStays
<1>23. ASSUME NEW p \in Procs, IgnoreSave(p) PROVE Kept'
  <2>1. UNCHANGED held /\ resent \subseteq resent'
    BY <1>23 DEF IgnoreSave, Error
  <2>2. \A x \in Messages : status'[x] = "none" <=> status[x] = "none"
    <3>1. status[rec[p]] # "none"
      BY <1>23 DEF IgnoreSave, Hands, Hand, Works
    <3> QED
      BY <1>23, <3>1 DEF IgnoreSave
  <2>3. \A e \in Deliveries :
          /\ pc'[e] \in Left => pc[e] \in Left
          /\ pc'[e] \in Arrives => pc[e] \in Arrives
          /\ pc'[e] \in Seeks => pc[e] \in Seeks
    <3>1. pc[p] \in Works /\ Finish(p)
      BY <1>23 DEF IgnoreSave, Works
    <3> QED
      BY <3>1, FinishKept
  <2> QED
    BY <2>1, <2>2, <2>3, KeptStays
<1>24. ASSUME NEW p \in Procs, ApproveClaim(p) PROVE Kept'
  <2>1. UNCHANGED held /\ resent \subseteq resent'
    BY <1>24 DEF ApproveClaim
  <2>2. \A x \in Messages : status'[x] = "none" <=> status[x] = "none"
    BY <1>24 DEF ApproveClaim
  <2>3. \A e \in Deliveries :
          /\ pc'[e] \in Left => pc[e] \in Left
          /\ pc'[e] \in Arrives => pc[e] \in Arrives
          /\ pc'[e] \in Seeks => pc[e] \in Seeks
    <3>1. pc[p] \in Works
      BY <1>24 DEF ApproveClaim, Works
    <3>2. CASE Finish(p)
      BY <3>1, <3>2, FinishKept
    <3>3. CASE Goto(p, "split")
      BY <3>1, <3>3, WorkKept DEF Works
    <3> QED
      BY <1>24, <3>2, <3>3 DEF ApproveClaim
  <2> QED
    BY <2>1, <2>2, <2>3, KeptStays
<1>25. ASSUME NEW p \in Procs, Split(p) PROVE Kept'
  <2>1. UNCHANGED held /\ resent \subseteq resent'
    BY <1>25 DEF Split, New
  <2>2. \A x \in Messages : status'[x] = "none" <=> status[x] = "none"
    BY <1>25 DEF Split, New
  <2>3. \A e \in Deliveries :
          /\ pc'[e] \in Left => pc[e] \in Left
          /\ pc'[e] \in Arrives => pc[e] \in Arrives
          /\ pc'[e] \in Seeks => pc[e] \in Seeks
    <3>1. pc[p] \in Works /\ pc'[p] \in Works /\ \A q \in Procs : q # p => pc'[q] = pc[q]
      BY <1>25 DEF Split, New, Works
    <3> QED
      BY <3>1, WorkKept
  <2> QED
    BY <2>1, <2>2, <2>3, KeptStays
<1>26. ASSUME NEW p \in Procs, Mark(p) PROVE Kept'
  <2>1. UNCHANGED held /\ resent \subseteq resent'
    BY <1>26 DEF Mark
  <2>2. \A x \in Messages : status'[x] = "none" <=> status[x] = "none"
    <3>1. status[rec[p]] # "none"
      BY <1>26 DEF Mark, Hands, Hand, Works
    <3> QED
      BY <1>26, <3>1 DEF Mark
  <2>3. \A e \in Deliveries :
          /\ pc'[e] \in Left => pc[e] \in Left
          /\ pc'[e] \in Arrives => pc[e] \in Arrives
          /\ pc'[e] \in Seeks => pc[e] \in Seeks
    <3>1. pc[p] \in Works /\ Finish(p)
      BY <1>26 DEF Mark, Works
    <3> QED
      BY <3>1, FinishKept
  <2> QED
    BY <2>1, <2>2, <2>3, KeptStays
<1>27. ASSUME NEW p \in Procs, SaveFails(p) PROVE Kept'
  <2>1. UNCHANGED held /\ resent \subseteq resent'
    BY <1>27 DEF SaveFails, Unrecorded, Error
  <2>2. \A x \in Messages : status'[x] = "none" <=> status[x] = "none"
    BY <1>27 DEF SaveFails, Unrecorded, Error
  <2>3. \A e \in Deliveries :
          /\ pc'[e] \in Left => pc[e] \in Left
          /\ pc'[e] \in Arrives => pc[e] \in Arrives
          /\ pc'[e] \in Seeks => pc[e] \in Seeks
    <3>1. pc[p] \in Works
      BY <1>27 DEF SaveFails, Works
    <3>2. CASE Finish(p)
      BY <3>1, <3>2, FinishKept
    <3>3. CASE pc' \in {pc, [pc EXCEPT ![p] = "existing"]}
      BY <3>1, <3>3, WorkKept DEF Works
    <3>4. next[p] \in {"aside", "failed", "unknown", "order_created"}
      BY <1>27 DEF SaveFails, Hands, Hand
    <3> QED
      BY <1>27, <3>2, <3>3, <3>4 DEF SaveFails
  <2> QED
    BY <2>1, <2>2, <2>3, KeptStays
<1>28. ASSUME NEW p \in Procs, ApproveFails(p) PROVE Kept'
  <2>1. UNCHANGED held /\ resent \subseteq resent'
    BY <1>28 DEF ApproveFails, Unrecorded, Error
  <2>2. \A x \in Messages : status'[x] = "none" <=> status[x] = "none"
    BY <1>28 DEF ApproveFails, Unrecorded, Error
  <2>3. \A e \in Deliveries :
          /\ pc'[e] \in Left => pc[e] \in Left
          /\ pc'[e] \in Arrives => pc[e] \in Arrives
          /\ pc'[e] \in Seeks => pc[e] \in Seeks
    <3>1. pc[p] \in Works /\ Finish(p)
      BY <1>28 DEF ApproveFails, Works
    <3> QED
      BY <3>1, FinishKept
  <2> QED
    BY <2>1, <2>2, <2>3, KeptStays
<1>29. ASSUME NEW a \in Admins, NEW r \in Messages, ReleaseNow(a, r) PROVE Kept'
  <2>1. UNCHANGED held /\ resent \subseteq resent'
    BY <1>29 DEF ReleaseNow, Act
  <2>2. \A x \in Messages : status'[x] = "none" <=> status[x] = "none"
    BY <1>29 DEF ReleaseNow, Act
  <2>3. \A e \in Deliveries :
          /\ pc'[e] \in Left => pc[e] \in Left
          /\ pc'[e] \in Arrives => pc[e] \in Arrives
          /\ pc'[e] \in Seeks => pc[e] \in Seeks
    BY <1>29 DEF ReleaseNow, Act
  <2> QED
    BY <2>1, <2>2, <2>3, KeptStays
<1>30. ASSUME NEW a \in Admins, NEW r \in Messages, ReprocessRead(a, r) PROVE Kept'
  <2>1. UNCHANGED held /\ resent \subseteq resent'
    BY <1>30 DEF ReprocessRead, Act
  <2>2. \A x \in Messages : status'[x] = "none" <=> status[x] = "none"
    BY <1>30 DEF ReprocessRead, Act
  <2>3. \A e \in Deliveries :
          /\ pc'[e] \in Left => pc[e] \in Left
          /\ pc'[e] \in Arrives => pc[e] \in Arrives
          /\ pc'[e] \in Seeks => pc[e] \in Seeks
    BY <1>30 DEF ReprocessRead, Act
  <2> QED
    BY <2>1, <2>2, <2>3, KeptStays
<1>31. ASSUME NEW a \in Admins, NEW r \in Messages, IgnoreRead(a, r) PROVE Kept'
  <2>1. UNCHANGED held /\ resent \subseteq resent'
    BY <1>31 DEF IgnoreRead, Act
  <2>2. \A x \in Messages : status'[x] = "none" <=> status[x] = "none"
    BY <1>31 DEF IgnoreRead, Act
  <2>3. \A e \in Deliveries :
          /\ pc'[e] \in Left => pc[e] \in Left
          /\ pc'[e] \in Arrives => pc[e] \in Arrives
          /\ pc'[e] \in Seeks => pc[e] \in Seeks
    BY <1>31 DEF IgnoreRead, Act
  <2> QED
    BY <2>1, <2>2, <2>3, KeptStays
<1>32. ASSUME NEW a \in Admins, NEW o \in Orders, ApproveRead(a, o) PROVE Kept'
  <2>1. UNCHANGED held /\ resent \subseteq resent'
    BY <1>32 DEF ApproveRead, Act
  <2>2. \A x \in Messages : status'[x] = "none" <=> status[x] = "none"
    BY <1>32 DEF ApproveRead, Act
  <2>3. \A e \in Deliveries :
          /\ pc'[e] \in Left => pc[e] \in Left
          /\ pc'[e] \in Arrives => pc[e] \in Arrives
          /\ pc'[e] \in Seeks => pc[e] \in Seeks
    BY <1>32 DEF ApproveRead, Act
  <2> QED
    BY <2>1, <2>2, <2>3, KeptStays
<1>33. ASSUME NEW o \in Orders, IssueNote(o) PROVE Kept'
  <2>1. UNCHANGED held /\ resent \subseteq resent'
    BY <1>33 DEF IssueNote
  <2>2. \A x \in Messages : status'[x] = "none" <=> status[x] = "none"
    BY <1>33 DEF IssueNote
  <2>3. \A e \in Deliveries :
          /\ pc'[e] \in Left => pc[e] \in Left
          /\ pc'[e] \in Arrives => pc[e] \in Arrives
          /\ pc'[e] \in Seeks => pc[e] \in Seeks
    BY <1>33 DEF IssueNote
  <2> QED
    BY <2>1, <2>2, <2>3, KeptStays
<1>34. CASE Crash
  <2>1. UNCHANGED held /\ resent \subseteq resent'
    BY <1>34 DEF Crash, Unrecorded
  <2>2. \A x \in Messages : status'[x] = "none" <=> status[x] = "none"
    BY <1>34 DEF Crash, Unrecorded
  <2>3. \A e \in Deliveries :
          /\ pc'[e] \in Left => pc[e] \in Left
          /\ pc'[e] \in Arrives => pc[e] \in Arrives
          /\ pc'[e] \in Seeks => pc[e] \in Seeks
    BY <1>34 DEF Crash, Unrecorded
  <2> QED
    BY <2>1, <2>2, <2>3, KeptStays
<1>35. CASE UNCHANGED vars
    BY <1>35 DEF vars, Kept, Known, HeldSome, Twins
<1>36. ASSUME NEW d \in Deliveries, Stranger(d) PROVE Kept'
  <2>1. pc' \in {[pc EXCEPT ![d] = "done"], [pc EXCEPT ![d] = "alone"]}
    BY <1>36 DEF Stranger
  <2>2. pc[d] \in Seeks /\ UNCHANGED <<status, resent>>
    BY <1>36 DEF Stranger, Seeks
  <2>3. ASSUME NEW r \in Messages, status[r] = "unknown", pc'[d] = "done",
               held' = [held EXCEPT ![r] = @ \cup {d}]
        PROVE  Kept'
    <3>1. status[r] # "none" /\ status'[r] # "none" /\ pc'[d] \in Left
      BY <2>2, <2>3
    <3> QED
      BY <2>1, <2>2, <2>3, <3>1, KeptJoins
  <2>4. CASE UNCHANGED held /\ Goto(d, "alone")
    <3>1. \A e \in Deliveries :
            /\ pc'[e] \in Left => pc[e] \in Left
            /\ pc'[e] \in Arrives => pc[e] \in Arrives
            /\ pc'[e] \in Seeks => pc[e] \in Seeks
      BY <2>1, <2>2, <2>4 DEF Seeks, Arrives
    <3> QED
      BY <2>2, <2>4, <3>1, KeptStays
  <2>5. \/ \E r \in Messages : /\ status[r] = "unknown" /\ pc'[d] = "done"
                              /\ held' = [held EXCEPT ![r] = @ \cup {d}]
        \/ UNCHANGED held /\ Goto(d, "alone")
    BY <1>36 DEF Stranger
  <2> QED
    BY <2>3, <2>4, <2>5
<1>37. ASSUME NEW d \in Deliveries, Alone(d) PROVE Kept'
  <2>1. /\ UNCHANGED resent /\ pc[d] \in Seeks /\ pc'[d] = "done"
        /\ \A e \in Deliveries : e # d => pc'[e] = pc[e]
    BY <1>37 DEF Alone, Seeks
  <2>2. CASE Opened(d, "unknown") /\ status[MessageOf[d]] = "none"
    <3>1. held' = [held EXCEPT ![MessageOf[d]] = @ \cup {d}]
      <4>1. held[MessageOf[d]] = {}
        BY <2>2 DEF Kept
      <4> QED
        BY <2>2, <4>1 DEF Opened
    <3>2. /\ status'[MessageOf[d]] # "none"
          /\ \A x \in Messages : x # MessageOf[d] => status'[x] = status[x]
      BY <2>2 DEF Opened, RecordOK
    <3>3. pc'[d] \in Left
      BY <2>1
    <3> QED
      BY <2>1, <3>1, <3>2, <3>3, KeptJoins
  <2>3. CASE UNCHANGED <<status, held>> /\ status[MessageOf[d]] # "none"
    <3>1. Known(MessageOf[d])
      BY <2>3 DEF Kept, Known
    <3>2. \A e \in Deliveries : pc'[e] \in Left => Known(MessageOf[e])'
      BY <2>1, <2>3, <3>1 DEF Kept, Known
    <3>3. \A e \in Deliveries : /\ pc'[e] \in Arrives => pc[e] \in Arrives
                                /\ pc'[e] \in Seeks => pc[e] \in Seeks
      BY <2>1, <2>3
    <3> QED
      BY <2>1, <2>3, <3>2, <3>3 DEF Kept, Twins, HeldSome
  <2> QED
    BY <1>37, <2>2, <2>3 DEF Alone
<1>38. ASSUME NEW d \in Deliveries, ArriveFails(d) PROVE Kept'
  <2>1. UNCHANGED held /\ resent \subseteq resent'
    BY <1>38 DEF ArriveFails, Error
  <2>2. \A x \in Messages : status'[x] = "none" <=> status[x] = "none"
    BY <1>38 DEF ArriveFails, Error
  <2>3. \A e \in Deliveries :
          /\ pc'[e] \in Left => pc[e] \in Left
          /\ pc'[e] \in Arrives => pc[e] \in Arrives
          /\ pc'[e] \in Seeks => pc[e] \in Seeks
    BY <1>38 DEF ArriveFails, Error
  <2> QED
    BY <2>1, <2>2, <2>3, KeptStays
<1>39. ASSUME NEW p \in Procs, Check(p) PROVE Kept'
  <2>1. UNCHANGED held /\ resent \subseteq resent'
    BY <1>39 DEF Check
  <2>2. \A x \in Messages : status'[x] = "none" <=> status[x] = "none"
    BY <1>39 DEF Check
  <2>3. \A e \in Deliveries :
          /\ pc'[e] \in Left => pc[e] \in Left
          /\ pc'[e] \in Arrives => pc[e] \in Arrives
          /\ pc'[e] \in Seeks => pc[e] \in Seeks
    <3>1. pc[p] \in Works /\ pc'[p] \in Works /\ \A q \in Procs : q # p => pc'[q] = pc[q]
      BY <1>39 DEF Check, Works
    <3> QED
      BY <3>1, WorkKept
  <2> QED
    BY <2>1, <2>2, <2>3, KeptStays
<1>40. ASSUME NEW p \in Procs, CheckFails(p) PROVE Kept'
  <2>1. UNCHANGED held /\ resent \subseteq resent'
    BY <1>40 DEF CheckFails, Error
  <2>2. \A x \in Messages : status'[x] = "none" <=> status[x] = "none"
    BY <1>40 DEF CheckFails, Error
  <2>3. \A e \in Deliveries :
          /\ pc'[e] \in Left => pc[e] \in Left
          /\ pc'[e] \in Arrives => pc[e] \in Arrives
          /\ pc'[e] \in Seeks => pc[e] \in Seeks
    <3>1. pc[p] \in Works /\ Finish(p)
      BY <1>40 DEF CheckFails, Error, Works
    <3> QED
      BY <3>1, FinishKept
  <2> QED
    BY <2>1, <2>2, <2>3, KeptStays
<1>41. ASSUME NEW p \in Procs, Shrink(p) PROVE Kept'
  <2>1. UNCHANGED held /\ resent \subseteq resent'
    BY <1>41 DEF Shrink
  <2>2. \A x \in Messages : status'[x] = "none" <=> status[x] = "none"
    BY <1>41 DEF Shrink
  <2>3. \A e \in Deliveries :
          /\ pc'[e] \in Left => pc[e] \in Left
          /\ pc'[e] \in Arrives => pc[e] \in Arrives
          /\ pc'[e] \in Seeks => pc[e] \in Seeks
    <3>1. pc[p] \in Works /\ pc'[p] \in Works /\ \A q \in Procs : q # p => pc'[q] = pc[q]
      BY <1>41 DEF Shrink, Works
    <3> QED
      BY <3>1, WorkKept
  <2> QED
    BY <2>1, <2>2, <2>3, KeptStays
<1>42. ASSUME NEW p \in Procs, ShrinkFails(p) PROVE Kept'
  <2>1. UNCHANGED held /\ resent \subseteq resent'
    BY <1>42 DEF ShrinkFails, Error
  <2>2. \A x \in Messages : status'[x] = "none" <=> status[x] = "none"
    BY <1>42 DEF ShrinkFails, Error
  <2>3. \A e \in Deliveries :
          /\ pc'[e] \in Left => pc[e] \in Left
          /\ pc'[e] \in Arrives => pc[e] \in Arrives
          /\ pc'[e] \in Seeks => pc[e] \in Seeks
    <3>1. pc[p] \in Works /\ pc'[p] \in Works /\ \A q \in Procs : q # p => pc'[q] = pc[q]
      BY <1>42 DEF ShrinkFails, Error, Works
    <3> QED
      BY <3>1, WorkKept
  <2> QED
    BY <2>1, <2>2, <2>3, KeptStays
<1>43. ASSUME NEW p \in Procs, Unsplit(p) PROVE Kept'
  <2>1. UNCHANGED held /\ resent \subseteq resent'
    BY <1>43 DEF Unsplit
  <2>2. \A x \in Messages : status'[x] = "none" <=> status[x] = "none"
    BY <1>43 DEF Unsplit
  <2>3. \A e \in Deliveries :
          /\ pc'[e] \in Left => pc[e] \in Left
          /\ pc'[e] \in Arrives => pc[e] \in Arrives
          /\ pc'[e] \in Seeks => pc[e] \in Seeks
    <3>1. pc[p] \in Works /\ pc'[p] \in Works /\ \A q \in Procs : q # p => pc'[q] = pc[q]
      BY <1>43 DEF Unsplit, Works
    <3> QED
      BY <3>1, WorkKept
  <2> QED
    BY <2>1, <2>2, <2>3, KeptStays
<1>44. ASSUME NEW p \in Procs, UnsplitFails(p) PROVE Kept'
  <2>1. UNCHANGED held /\ resent \subseteq resent'
    BY <1>44 DEF UnsplitFails, Error
  <2>2. \A x \in Messages : status'[x] = "none" <=> status[x] = "none"
    BY <1>44 DEF UnsplitFails, Error
  <2>3. \A e \in Deliveries :
          /\ pc'[e] \in Left => pc[e] \in Left
          /\ pc'[e] \in Arrives => pc[e] \in Arrives
          /\ pc'[e] \in Seeks => pc[e] \in Seeks
    <3>1. pc[p] \in Works /\ pc'[p] \in Works /\ \A q \in Procs : q # p => pc'[q] = pc[q]
      BY <1>44 DEF UnsplitFails, Error, Works
    <3> QED
      BY <3>1, WorkKept
  <2> QED
    BY <2>1, <2>2, <2>3, KeptStays
<1> QED
    BY <1>1, <1>2, <1>3, <1>4, <1>5, <1>6, <1>7, <1>8, <1>9, <1>10, <1>11,
       <1>12, <1>13, <1>14, <1>15, <1>16, <1>17, <1>18, <1>19, <1>20, <1>21,
       <1>22, <1>23, <1>24, <1>25, <1>26, <1>27, <1>28, <1>29, <1>30, <1>31,
       <1>32, <1>33, <1>34, <1>35, <1>36, <1>37, <1>38, <1>39, <1>40, <1>41,
       <1>42, <1>43, <1>44
       DEF Next, DeliveryStep, WorkStep, Fault, Press

LEMMA KeptAlways == Spec => [](TypeOK /\ Hands /\ Kept)
<1>1. TypeOK /\ Hands /\ Kept /\ [Next]_vars => (TypeOK /\ Hands /\ Kept)'
    BY NextType, NextHands, NextKept
<1> QED
    BY <1>1, InitType, InitHands, InitKept, PTL DEF Spec

(* Whatever becomes of the record a delivery is about to join, and however *)
(* many other deliveries die or meet a failing database, one that ends as  *)
(* it should has its message in a record.                                  *)
THEOREM DeliveriesAreHeld == Spec => []DeliveredIsHeld
<1>1. Kept => DeliveredIsHeld
    BY Partition DEF Kept, Known, DeliveredIsHeld
<1> QED
    BY <1>1, KeptAlways, PTL

(* A message that is sent again is not taken up again, unless two of its   *)
(* deliveries ran at once.                                                 *)
THEOREM MessageTakenOnce == Spec => []TakenUpOnce
<1>1. TypeOK /\ Kept => TakenUpOnce
  <2> SUFFICES ASSUME TypeOK, Kept, NEW d \in UNION {held[r] : r \in Messages},
                      NEW e \in UNION {held[r] : r \in Messages},
                      d # e, MessageOf[d] = MessageOf[e]
               PROVE  MessageOf[d] \in resent
    BY DEF TakenUpOnce
  <2>1. d \in Deliveries /\ e \in Deliveries /\ HeldSome(d) /\ HeldSome(e)
    BY DEF TypeOK, HeldSome
  <2> QED
    BY <2>1 DEF Kept, Twins
<1> QED
    BY <1>1, KeptAlways, PTL

-----------------------------------------------------------------------------
(* What a record comes to, as long as no two hands worked on it at once    *)
(* and no order of it was lost.  Only then does a call know what it found. *)
Recording == Parting \cup {"existing", "save", "approve", "mark"}

(* Where the second order of a split is saved and the first one not shrunk.*)
Halving == {"shrink", "unsplit"}

At(p, r) == pc[p] \in Works /\ rec[p] = r

(* What a call that works alone on its record can rely on.                 *)
Sure(p) ==
    /\ pc[p] \notin Recording => made[p] = 0
    /\ pc[p] = "approve" => kind[made[p]] = "error"
    /\ pc[p] # "approve" /\ made[p] # 0 => kind[made[p]] = "live"
    /\ \A o \in parts[p] : kind[o] = "live"
    /\ pc[p] \in {"notes", "delete", "idelete"} => \A o \in doomed[p] : kind[o] = "error"
    /\ pc[p] = "delete" => doomed[p] \cap noted = {}

(* The two orders of a split, of which the second has the disposables.     *)
Halves(p) ==
    \E t \in Orders :
        /\ t # made[p] /\ parts[p] = {made[p], t} /\ share[t] = {"disposables"}
        /\ \A o \in Orders :
              from[o] = rec[p] /\ kind[o] \in {"live", "error"} => o = made[p] \/ o = t

(* What it knows of the orders of its record, when none of them was lost.  *)
Tells(p) ==
    /\ status[rec[p]] # "order_created" /\ was[p] # "order_created"
    /\ made[p] = 0 \/ pc[p] = "approve" =>
          \A o \in Orders : from[o] = rec[p] => kind[o] # "live"
    /\ pc[p] \in {"split", "approve"} =>
          \A o \in Orders : from[o] = rec[p] /\ kind[o] \in {"live", "error"} => o = made[p]
    /\ pc[p] \in Halving => Halves(p)
    /\ pc[p] \in {"check", "process", "order", "error"} \/ (pc[p] = "existing" /\ made[p] = 0) =>
          \A o \in Orders : from[o] = rec[p] => kind[o] # "error"
    /\ pc[p] \in {"notes", "delete", "idelete"} =>
          \A o \in Orders : from[o] = rec[p] /\ kind[o] = "error" => o \in doomed[p]
    /\ pc[p] = "error" => made[p] = 0
    /\ pc[p] = "save" /\ next[p] = "order_created" => made[p] # 0
    /\ pc[p] = "save" /\ next[p] \in {"aside", "unknown"} => made[p] = 0

Removed(r) ==
    \A o \in Orders : from[o] = r /\ kind[o] \in {"reread", "ignored", "unsplit"} =>
        /\ stock[o] = 0
        /\ kind[o] = "reread" => o \notin noted

(* The orders of the record that count have no goods in common.            *)
Unique(r) ==
    \A o, u \in Orders :
        /\ from[o] = r /\ kind[o] \in {"live", "error"}
        /\ from[u] = r /\ kind[u] \in {"live", "error"}
        => o = u \/ share[o] \cap share[u] = {}

Said(r) ==
    status[r] = "order_created" <=> \E o \in Orders : from[o] = r /\ kind[o] = "live"

Peace(r) ==
    r \notin crossed =>
        /\ \A p, q \in Procs : At(p, r) /\ At(q, r) => p = q
        /\ \A p \in Procs : At(p, r) => Sure(p)
        /\ Removed(r)

Truth(r) ==
    r \notin crossed \cup lost =>
        /\ \A p \in Procs : At(p, r) => Tells(p) /\ (pc[p] \notin Halving => Unique(r))
        /\ (\A p \in Procs : ~At(p, r)) => Unique(r) /\ Said(r)

Records == \A r \in Messages : Peace(r) /\ Truth(r)

LEMMA InitRecords == Init => Records
BY DEF Init, Records, Peace, Truth, At, Works, Removed, Unique, Said

-----------------------------------------------------------------------------
SameHand(q) ==
    /\ pc'[q] = pc[q] /\ rec'[q] = rec[q] /\ made'[q] = made[q] /\ parts'[q] = parts[q]
    /\ was'[q] = was[q] /\ next'[q] = next[q] /\ doomed'[q] = doomed[q]

SameOrder(o) ==
    /\ kind'[o] = kind[o] /\ from'[o] = from[o]
    /\ share'[o] = share[o] /\ stock'[o] = stock[o]
    /\ o \in noted' <=> o \in noted

OrderOf(o, r) == kind[o] # "none" /\ from[o] = r

(* What a call has in hand is of its record.                               *)
LEMMA OfItsRecord ==
    ASSUME TypeOK, Hands, NEW p \in Procs, pc[p] \in Works
    PROVE  /\ made[p] # 0 => made[p] \in Orders /\ OrderOf(made[p], rec[p])
           /\ \A o \in doomed[p] \cup parts[p] : o \in Orders /\ OrderOf(o, rec[p])
BY Bounds, TypeParts DEF WorkOK, Hands, Hand, OrderOf

(* A step that leaves a record, its orders and who works on it alone.      *)
LEMMA Elsewhere ==
    ASSUME TypeOK, Hands, NEW r \in Messages, Peace(r), Truth(r),
           crossed \subseteq crossed', lost \subseteq lost',
           (status'[r] = "order_created") <=> (status[r] = "order_created"),
           \A o \in Orders : OrderOf(o, r) \/ OrderOf(o, r)' => SameOrder(o),
           \A q \in Procs : At(q, r) \/ At(q, r)' => SameHand(q)
    PROVE  Peace(r)' /\ Truth(r)'
<1>1. \A q \in Procs : At(q, r)' => At(q, r) /\ SameHand(q)
    BY DEF SameHand, At
<1>2. \A q \in Procs : At(q, r) => At(q, r)' /\ SameHand(q)
    BY DEF SameHand, At
<1>3. \A o \in Orders : \A k \in Kinds \ {"none"} :
          /\ from[o] = r /\ kind[o] = k => from'[o] = r /\ kind'[o] = k /\ SameOrder(o)
          /\ from'[o] = r /\ kind'[o] = k => from[o] = r /\ kind[o] = k /\ SameOrder(o)
    BY DEF OrderOf, SameOrder, Kinds
<1>4. Removed(r) => Removed(r)'
  <2> SUFFICES ASSUME Removed(r), NEW o \in Orders,
                      from'[o] = r, kind'[o] \in {"reread", "ignored", "unsplit"}
               PROVE  stock'[o] = 0 /\ (kind'[o] = "reread" => o \notin noted')
    BY DEF Removed
  <2>1. from[o] = r /\ kind[o] = kind'[o] /\ SameOrder(o)
    BY <1>3 DEF Kinds
  <2> QED
    BY <2>1 DEF Removed, SameOrder
<1>5. Unique(r) => Unique(r)'
  <2> SUFFICES ASSUME Unique(r), NEW o \in Orders, NEW u \in Orders,
                      from'[o] = r, kind'[o] \in {"live", "error"},
                      from'[u] = r, kind'[u] \in {"live", "error"}
               PROVE  o = u \/ share'[o] \cap share'[u] = {}
    BY DEF Unique
  <2>1. /\ from[o] = r /\ kind[o] = kind'[o] /\ share'[o] = share[o]
        /\ from[u] = r /\ kind[u] = kind'[u] /\ share'[u] = share[u]
    BY <1>3 DEF SameOrder, Kinds
  <2> QED
    BY <2>1 DEF Unique
<1>6. Said(r) => Said(r)'
    BY <1>3 DEF Said, Kinds
<1>7. ASSUME NEW q \in Procs, At(q, r)' PROVE Sure(q) => Sure(q)'
  <2>1. SameHand(q) /\ pc[q] \in Works /\ rec[q] = r
    BY <1>1, <1>7 DEF At
  <2>2. made[q] # 0 => made[q] \in Orders /\ SameOrder(made[q])
    BY <2>1, OfItsRecord
  <2>3. \A o \in doomed[q] \cup parts[q] : o \in Orders /\ SameOrder(o)
    BY <2>1, OfItsRecord
  <2>4. pc[q] = "approve" => made[q] # 0
    BY DEF Hands, Hand
  <2>5. pc'[q] = pc[q] /\ made'[q] = made[q] /\ doomed'[q] = doomed[q] /\ parts'[q] = parts[q]
    BY <2>1 DEF SameHand
  <2> QED
    BY <2>2, <2>3, <2>4, <2>5 DEF Sure, SameOrder
<1>8. ASSUME NEW q \in Procs, At(q, r)' PROVE Tells(q) => Tells(q)'
  <2>1. SameHand(q) /\ rec[q] = r /\ pc[q] \in Works
    BY <1>1, <1>8 DEF At
  <2>2. Halves(q) => Halves(q)'
    <3> SUFFICES ASSUME NEW t \in Orders, t # made[q], parts[q] = {made[q], t},
                        share[t] = {"disposables"},
                        \A o \in Orders : from[o] = r /\ kind[o] \in {"live", "error"} =>
                            o = made[q] \/ o = t
                 PROVE  /\ t # made'[q] /\ parts'[q] = {made'[q], t}
                        /\ share'[t] = {"disposables"}
                        /\ \A o \in Orders : from'[o] = r /\ kind'[o] \in {"live", "error"} =>
                               o = made'[q] \/ o = t
      BY <2>1 DEF Halves, SameHand
    <3>1. SameOrder(t)
      BY <2>1, OfItsRecord
    <3>2. \A o \in Orders : from'[o] = r /\ kind'[o] \in {"live", "error"} =>
              from[o] = r /\ kind[o] \in {"live", "error"}
      BY <1>3 DEF Kinds
    <3> QED
      BY <2>1, <3>1, <3>2 DEF SameHand, SameOrder
  <2>3. \A o \in Orders : /\ from'[o] = r /\ kind'[o] = "live" => from[o] = r /\ kind[o] = "live"
                          /\ from'[o] = r /\ kind'[o] = "error" => from[o] = r /\ kind[o] = "error"
    BY <1>3 DEF Kinds
  <2> QED
    BY <2>1, <2>2, <2>3 DEF Tells, Halving, SameHand
<1>9. Peace(r)'
    BY <1>1, <1>4, <1>7 DEF Peace
<1>10. Truth(r)'
    BY <1>1, <1>2, <1>5, <1>6, <1>8 DEF Truth, SameHand
<1> QED
    BY <1>9, <1>10

(* A step of nobody's work.                                                *)
LEMMA NoWork ==
    ASSUME TypeOK, Hands, Records, UNCHANGED <<kind, from, share, stock, noted, crossed, lost>>,
           \A r \in Messages : (status'[r] = "order_created") <=> (status[r] = "order_created"),
           \A q \in Procs : pc[q] \in Works \/ pc'[q] \in Works => SameHand(q)
    PROVE  Records'
<1> SUFFICES ASSUME NEW r \in Messages PROVE Peace(r)' /\ Truth(r)'
    BY DEF Records
<1>1. \A o \in Orders : SameOrder(o)
    BY DEF SameOrder
<1>2. \A q \in Procs : At(q, r) \/ At(q, r)' => SameHand(q)
    BY DEF At
<1> QED
    BY <1>1, <1>2, Elsewhere DEF Records

(* A call takes a record into its hands.                                   *)
LEMMA Taken ==
    ASSUME TypeOK, Hands, Records, UNCHANGED <<kind, from, share, stock, noted, lost>>,
           NEW p \in Procs, NEW r \in Messages, pc[p] \notin Works, Take(p, r),
           \A q \in Procs : q # p => SameHand(q),
           \A x \in Messages : (status'[x] = "order_created") <=> (status[x] = "order_created"),
           pc'[p] \in Works \ Halving, Sure(p)',
           r \notin crossed \cup lost /\ Unique(r) /\ Said(r) => Tells(p)'
    PROVE  Records'
<1> SUFFICES ASSUME NEW x \in Messages PROVE Peace(x)' /\ Truth(x)'
    BY DEF Records
<1>1. \A o \in Orders : SameOrder(o)
    BY DEF SameOrder
<1>2. rec'[p] = r /\ crossed \subseteq crossed'
    BY TypeParts DEF WorkOK, Take
<1>3. \A q \in Procs : q # p => (At(q, x)' <=> At(q, x))
    BY DEF At, SameHand
<1>4. CASE x # r
  <2>1. \A q \in Procs : At(q, x) \/ At(q, x)' => SameHand(q)
    BY <1>2, <1>4 DEF At
  <2> QED
    BY <1>1, <1>2, <2>1, Elsewhere DEF Records
<1>5. CASE x = r
  <2>1. x \notin crossed' => x \notin crossed /\ \A q \in Procs : ~At(q, x)
    BY <1>5 DEF Take, At
  <2>2. Removed(x) => Removed(x)'
    BY <1>1 DEF Removed, SameOrder
  <2>3. Unique(x) => Unique(x)'
    BY DEF Unique
  <2>4. \A q \in Procs : At(q, x)' /\ x \notin crossed' => q = p
    BY <1>3, <2>1
  <2>5. At(p, x)'
    BY <1>2, <1>5 DEF At
  <2>6. Peace(x)'
    BY <2>1, <2>2, <2>4 DEF Peace, Records
  <2>7. Truth(x)'
    BY <1>5, <2>1, <2>3, <2>4, <2>5 DEF Truth, Records
  <2> QED
    BY <2>6, <2>7
<1> QED
    BY <1>4, <1>5

(* A call works on its record, or is done with it.                         *)
WorksOn(p, r) ==
    /\ pc[p] \in Works /\ rec[p] = r
    /\ \A q \in Procs : q # p => SameHand(q)
    /\ pc'[p] \in Works => rec'[p] = r
    /\ crossed' = crossed /\ noted' = noted /\ lost \subseteq lost'
    /\ \A x \in Messages : x # r => status'[x] = status[x]
    /\ \A o \in Orders : \A x \in Messages \ {r} :
          OrderOf(o, x) \/ OrderOf(o, x)' => SameOrder(o)

LEMMA WorkedHalf ==
    ASSUME TypeOK, Hands, Records, NEW p \in Procs, NEW r \in Messages, WorksOn(p, r),
           r \notin crossed /\ Sure(p) /\ Removed(r) =>
               Removed(r)' /\ (pc'[p] \in Works => Sure(p)'),
           /\ r \notin crossed \cup lost' /\ Sure(p) /\ Tells(p)
           /\ pc[p] \notin Halving => Unique(r)
           =>  /\ pc'[p] \notin Halving => Unique(r)'
               /\ pc'[p] \in Works => Tells(p)'
               /\ pc'[p] \notin Works => Said(r)'
    PROVE  Records'
<1> SUFFICES ASSUME NEW x \in Messages PROVE Peace(x)' /\ Truth(x)'
    BY DEF Records
<1>1. \A q \in Procs : q # p => (At(q, x)' <=> At(q, x))
    BY DEF At, SameHand, WorksOn
<1>2. CASE x # r
  <2>1. \A q \in Procs : At(q, x) \/ At(q, x)' => SameHand(q)
    BY <1>2 DEF At, WorksOn
  <2>2. \A o \in Orders : OrderOf(o, x) \/ OrderOf(o, x)' => SameOrder(o)
    BY <1>2 DEF WorksOn
  <2>3. /\ crossed \subseteq crossed' /\ lost \subseteq lost'
        /\ (status'[x] = "order_created") <=> (status[x] = "order_created")
    BY <1>2 DEF WorksOn
  <2> QED
    BY <2>1, <2>2, <2>3, Elsewhere DEF Records
<1>3. CASE x = r
  <2>1. At(p, x) /\ crossed' = crossed /\ lost \subseteq lost'
    BY <1>3 DEF WorksOn, At
  <2>2. x \notin crossed' => \A q \in Procs : At(q, x)' => q = p
    BY <1>1, <2>1 DEF Records, Peace
  <2>3. x \notin crossed' => Sure(p) /\ Removed(x)
    BY <2>1 DEF Records, Peace
  <2>4. x \notin crossed' \cup lost' => Tells(p) /\ (pc[p] \notin Halving => Unique(x))
    BY <2>1 DEF Records, Truth
  <2>5. Peace(x)'
    BY <1>3, <2>1, <2>2, <2>3 DEF Peace, At
  <2>6. At(p, x)' <=> pc'[p] \in Works
    BY <1>3 DEF At, WorksOn
  <2>8. pc'[p] \notin Works => pc'[p] \notin Halving
    BY DEF Works, Halving
  <2>7. Truth(x)'
    BY <2>8, <1>3, <2>1, <2>2, <2>3, <2>4, <2>6 DEF Truth
  <2> QED
    BY <2>5, <2>7
<1> QED
    BY <1>2, <1>3

LEMMA Worked ==
    ASSUME TypeOK, Hands, Records, NEW p \in Procs, NEW r \in Messages, WorksOn(p, r),
           pc[p] \notin Halving,
           r \notin crossed /\ Sure(p) /\ Removed(r) =>
               Removed(r)' /\ (pc'[p] \in Works => Sure(p)'),
           r \notin crossed \cup lost' /\ Sure(p) /\ Tells(p) /\ Unique(r) =>
               /\ Unique(r)'
               /\ pc'[p] \in Works => Tells(p)'
               /\ pc'[p] \notin Works => Said(r)'
    PROVE  Records'
BY WorkedHalf

(* What a call that ends leaves behind.                                    *)
LEMMA FinishFrame ==
    ASSUME TypeOK, NEW p \in Procs, Finish(p)
    PROVE  pc'[p] \notin Works /\ \A q \in Procs : q # p => SameHand(q)
BY TypeParts DEF WorkOK, Finish, Goto, Ends, Works, SameHand

(* An order is added, of the record in hand.                               *)
LEMMA OrderAdded ==
    ASSUME TypeOK, Hands, NEW p \in Procs, rec[p] \in Messages, NEW k \in {"live", "error"},
           NEW t, NEW goods, New(p, k, t, goods), UNCHANGED <<stock, noted>>
    PROVE  \E n \in Orders :
              /\ n = Number /\ n # 0 /\ kind[n] = "none"
              /\ kind'[n] = k /\ from'[n] = rec[p] /\ share'[n] = goods
              /\ \A u \in Orders \ {n} : SameOrder(u)
<1>1. \A u \in Orders \ {Number} : SameOrder(u)
    BY NewHands DEF SameOrder
<1> QED
    BY <1>1, NewHands

(* An order of the record in hand is removed.                              *)
LEMMA OrderRemoved ==
    ASSUME TypeOK, Hands, NEW p \in Procs, pc[p] \in Works, NEW k, NEW after \in Works,
           Delete(p, k, after)
    PROVE  \E o \in doomed[p] :
              /\ o \in Orders /\ OrderOf(o, rec[p])
              /\ kind[o] \in {"live", "error"} => kind'[o] = k
              /\ from'[o] = from[o] /\ stock'[o] = stock[o] /\ noted' = noted
              /\ share'[o] = share[o] /\ parts'[p] = parts[p]
              /\ \A u \in Orders \ {o} : SameOrder(u)
              /\ doomed'[p] = doomed[p] \ {o}
              /\ pc'[p] = IF doomed[p] = {o} THEN after ELSE pc[p]
              /\ rec'[p] = rec[p] /\ was'[p] = was[p] /\ next'[p] = next[p]
              /\ made'[p] = made[p] /\ status' = status
              /\ crossed' = crossed /\ lost' = lost
              /\ \A q \in Procs : q # p => SameHand(q)
<1> USE TypeParts DEF recordVars, orderVars, workVars, boundVars, pastVars, WorkOK, OrderOK
<1> PICK o \in doomed[p] :
          /\ kind' = [kind EXCEPT ![o] = IF @ \in {"live", "error"} THEN k ELSE @]
          /\ doomed' = [doomed EXCEPT ![p] = @ \ {o}]
          /\ pc' = [pc EXCEPT ![p] = IF doomed[p] = {o} THEN after ELSE pc[p]]
          /\ UNCHANGED <<recordVars, from, text, share, stock, noted, rec, copy, was,
                         next, made, parts, todo, boundVars, pastVars>>
    BY DEF Delete, Goto
<1>1. o \in Orders /\ OrderOf(o, rec[p])
    BY OfItsRecord
<1>2. \A u \in Orders \ {o} : SameOrder(u)
    BY <1>1 DEF SameOrder
<1>3. \A q \in Procs : q # p => SameHand(q)
    BY DEF SameHand
<1> QED
    BY <1>1, <1>2, <1>3

(* The goods of an order in hand leave the stock.                          *)
LEMMA GoodsLeave ==
    ASSUME TypeOK, Hands, NEW p \in Procs, pc[p] \in Works, NEW o \in parts[p],
           TakeFromStock(o), UNCHANGED <<kind, from, share, noted>>
    PROVE  /\ o \in Orders /\ OrderOf(o, rec[p])
           /\ \A u \in Orders \ {o} : SameOrder(u)
<1>1. o \in Orders /\ OrderOf(o, rec[p])
    BY OfItsRecord
<1>2. \A u \in Orders \ {o} : SameOrder(u)
    BY <1>1, TypeParts DEF TakeFromStock, OrderOK, SameOrder
<1> QED
    BY <1>1, <1>2

LEMMA CheckRecords ==
    ASSUME TypeOK, Hands, Goods, Records, NEW p \in Procs, Check(p)
    PROVE  Records'
<1> USE ProcsAre, Bounds, TypeParts DEF recordVars, orderVars, workVars, boundVars, pastVars,
        WorkOK, Goto
<1>1. pc[p] \in Works /\ pc[p] \notin Halving /\ rec[p] \in Messages
    BY InWork DEF Check, Works, Halving
<1> SUFFICES ASSUME NEW r \in Messages, r = rec[p] PROVE Records'
    BY <1>1
<1>2. WorksOn(p, r)
    BY <1>1 DEF Check, WorksOn, SameHand, SameOrder, OrderOf, Works
<1>3. r \notin crossed /\ Sure(p) /\ Removed(r) =>
          Removed(r)' /\ (pc'[p] \in Works => Sure(p)')
    BY <1>1, OfItsRecord DEF Check, Sure, Removed, Recording, Parting, Splitting, Works
<1>4. r \notin crossed \cup lost' /\ Sure(p) /\ Tells(p) /\ Unique(r) =>
          /\ Unique(r)'
          /\ pc'[p] \in Works => Tells(p)'
          /\ pc'[p] \notin Works => Said(r)'
    BY <1>1, OfItsRecord DEF Check, Sure, Tells, Halving, Unique, Said, Recording, Parting, Splitting,
       Halving, Works
<1> QED
    BY <1>1, <1>2, <1>3, <1>4, Worked

LEMMA CheckFailsRecords ==
    ASSUME TypeOK, Hands, Goods, Records, NEW p \in Procs, CheckFails(p)
    PROVE  Records'
<1> USE ProcsAre, Bounds, TypeParts DEF recordVars, orderVars, workVars, boundVars, pastVars,
        WorkOK, Goto
<1>1. pc[p] \in Works /\ pc[p] \notin Halving /\ rec[p] \in Messages
    BY InWork DEF CheckFails, Works, Halving
<1> SUFFICES ASSUME NEW r \in Messages, r = rec[p] PROVE Records'
    BY <1>1
<1>2. WorksOn(p, r)
    BY <1>1, FinishFrame DEF CheckFails, Error, WorksOn, SameHand, SameOrder, OrderOf, Works
<1>3. r \notin crossed /\ Sure(p) /\ Removed(r) =>
          Removed(r)' /\ (pc'[p] \in Works => Sure(p)')
    BY <1>1, FinishFrame DEF CheckFails, Error, Removed
<1>4. r \notin crossed \cup lost' /\ Sure(p) /\ Tells(p) /\ Unique(r) =>
          /\ Unique(r)'
          /\ pc'[p] \in Works => Tells(p)'
          /\ pc'[p] \notin Works => Said(r)'
  <2> SUFFICES ASSUME Sure(p), Tells(p), Unique(r)
               PROVE  Unique(r)' /\ pc'[p] \notin Works /\ Said(r)'
    OBVIOUS
  <2>1. pc'[p] \notin Works
    BY FinishFrame DEF CheckFails
  <2>2. made[p] = 0
    BY DEF CheckFails, Sure, Recording, Parting, Splitting
  <2>3. \A o \in Orders : from[o] = r => kind[o] # "live"
    BY <2>2 DEF Tells, Halving
  <2>4. status[r] # "order_created"
    BY DEF Tells, Halving
  <2>5. UNCHANGED <<kind, from, share, status>>
    BY DEF CheckFails
  <2> QED
    BY <2>1, <2>3, <2>4, <2>5 DEF Said, Unique
<1> QED
    BY <1>1, <1>2, <1>3, <1>4, Worked

LEMMA ProcessRecords ==
    ASSUME TypeOK, Hands, Goods, Records, NEW p \in Procs, Process(p)
    PROVE  Records'
<1> USE ProcsAre, Bounds, TypeParts DEF recordVars, orderVars, workVars, boundVars, pastVars,
        WorkOK, Goto
<1>1. pc[p] \in Works /\ pc[p] \notin Halving /\ rec[p] \in Messages
    BY InWork DEF Process, Works, Halving
<1> SUFFICES ASSUME NEW r \in Messages, r = rec[p] PROVE Records'
    BY <1>1
<1>2. WorksOn(p, r)
    BY <1>1 DEF Process, WorksOn, SameHand, SameOrder, OrderOf, Works
<1>3. r \notin crossed /\ Sure(p) /\ Removed(r) =>
          Removed(r)' /\ (pc'[p] \in Works => Sure(p)')
    BY <1>1, OfItsRecord DEF Process, Sure, Removed, Recording, Parting, Splitting, Works
<1>4. r \notin crossed \cup lost' /\ Sure(p) /\ Tells(p) /\ Unique(r) =>
          /\ Unique(r)'
          /\ pc'[p] \in Works => Tells(p)'
          /\ pc'[p] \notin Works => Said(r)'
    BY <1>1, OfItsRecord DEF Process, Sure, Tells, Halving, Unique, Said, Recording, Parting, Splitting, Works
<1> QED
    BY <1>1, <1>2, <1>3, <1>4, Worked

LEMMA MakeOrderRecords ==
    ASSUME TypeOK, Hands, Goods, Records, NEW p \in Procs, MakeOrder(p)
    PROVE  Records'
<1> USE ProcsAre, Bounds, TypeParts DEF recordVars, orderVars, workVars, boundVars, pastVars,
        WorkOK, Goto
<1>1. pc[p] \in Works /\ pc[p] \notin Halving /\ rec[p] \in Messages
    BY InWork DEF MakeOrder, Works, Halving
<1> SUFFICES ASSUME NEW r \in Messages, r = rec[p] PROVE Records'
    BY <1>1
<1>2. WorksOn(p, r)
  <2>1. CASE New(p, "live", copy[p], Shares)
    <3>1. PICK n \in Orders : kind[n] = "none" /\ from'[n] = r /\ \A u \in Orders \ {n} : SameOrder(u)
      BY <1>1, <2>1, OrderAdded DEF MakeOrder
    <3>2. \A o \in Orders : \A x \in Messages \ {r} :
              OrderOf(o, x) \/ OrderOf(o, x)' => SameOrder(o)
      BY <3>1 DEF OrderOf
    <3> QED
      BY <1>1, <3>2 DEF MakeOrder, WorksOn, SameHand, Works
  <2>2. CASE UNCHANGED <<kind, from, text, share>>
    BY <1>1, <2>2 DEF MakeOrder, WorksOn, SameHand, SameOrder, OrderOf, Works
  <2> QED
    BY <2>1, <2>2 DEF MakeOrder
<1>3. r \notin crossed /\ Sure(p) /\ Removed(r) =>
          Removed(r)' /\ (pc'[p] \in Works => Sure(p)')
  <2>1. CASE New(p, "live", copy[p], Shares) /\ made' = [made EXCEPT ![p] = Number]
            /\ parts' = [parts EXCEPT ![p] = {Number}] /\ Goto(p, "split")
    <3>1. PICK n \in Orders : /\ n = Number /\ kind'[n] = "live"
                              /\ \A u \in Orders \ {n} : SameOrder(u)
      BY <1>1, <2>1, OrderAdded DEF MakeOrder
    <3>2. Removed(r) => Removed(r)'
      BY <3>1 DEF Removed, SameOrder
    <3>3. pc'[p] = "split" /\ made'[p] = n /\ parts'[p] = {n}
      BY <2>1, <3>1, TypeParts DEF WorkOK, Goto
    <3>4. Sure(p)'
      BY <3>1, <3>3 DEF Sure, Recording, Parting, Splitting
    <3> QED
      BY <3>2, <3>4
  <2>2. CASE UNCHANGED <<kind, from, text, share, made, parts>> /\ Goto(p, "existing")
    BY <1>1, <2>2, OfItsRecord DEF MakeOrder, Sure, Removed, Recording, Parting, Splitting, Works
  <2> QED
    BY <2>1, <2>2 DEF MakeOrder
<1>4. r \notin crossed \cup lost' /\ Sure(p) /\ Tells(p) /\ Unique(r) =>
          /\ Unique(r)'
          /\ pc'[p] \in Works => Tells(p)'
          /\ pc'[p] \notin Works => Said(r)'
  <2> SUFFICES ASSUME Sure(p), Tells(p), Unique(r)
               PROVE  Unique(r)' /\ Tells(p)' /\ pc'[p] \in Works
    OBVIOUS
  <2>1. pc[p] = "order" /\ made[p] = 0
    BY DEF MakeOrder, Sure, Recording, Parting, Splitting
  <2>2. \A o \in Orders : from[o] = r => kind[o] # "live" /\ kind[o] # "error"
    BY <2>1 DEF Tells, Halving
  <2>3. CASE New(p, "live", copy[p], Shares) /\ made' = [made EXCEPT ![p] = Number]
            /\ parts' = [parts EXCEPT ![p] = {Number}] /\ Goto(p, "split")
    <3>1. PICK n \in Orders : /\ n = Number /\ kind'[n] = "live"
                              /\ \A u \in Orders \ {n} : SameOrder(u)
      BY <1>1, <2>3, OrderAdded DEF MakeOrder
    <3>2. \A o \in Orders : from'[o] = r /\ kind'[o] \in {"live", "error"} => o = n
      BY <2>2, <3>1 DEF SameOrder
    <3>3. Unique(r)'
      BY <3>2 DEF Unique
    <3>4. pc'[p] = "split" /\ made'[p] = n /\ rec'[p] = r /\ was'[p] = was[p] /\ status' = status
      BY <2>3, <3>1 DEF MakeOrder
    <3>5. Tells(p)'
      BY <3>2, <3>4 DEF Tells, Halving
    <3> QED
      BY <3>3, <3>4, <3>5 DEF Works
  <2>4. CASE UNCHANGED <<kind, from, text, share, made, parts>> /\ Goto(p, "existing")
    <3>1. pc'[p] = "existing" /\ made'[p] = 0 /\ rec'[p] = r /\ was'[p] = was[p]
          /\ status' = status
      BY <2>1, <2>4 DEF MakeOrder
    <3>2. Tells(p)'
      BY <2>1, <2>2, <2>4, <3>1 DEF Tells, Halving
    <3> QED
      BY <2>4, <3>1, <3>2 DEF Unique, Works
  <2> QED
    BY <2>3, <2>4 DEF MakeOrder
<1> QED
    BY <1>1, <1>2, <1>3, <1>4, Worked

LEMMA SplitRecords ==
    ASSUME TypeOK, Hands, Goods, Records, NEW p \in Procs, Split(p)
    PROVE  Records'
<1> USE ProcsAre, Bounds, TypeParts DEF recordVars, orderVars, workVars, boundVars, pastVars,
        WorkOK, Goto
<1>1. pc[p] \in Works /\ pc[p] \notin Halving /\ rec[p] \in Messages
    BY InWork DEF Split, Works, Halving
<1> SUFFICES ASSUME NEW r \in Messages, r = rec[p] PROVE Records'
    BY <1>1
<1>5. (pc'[p] = "stock" /\ UNCHANGED <<kind, from, share, parts>>)
      \/ /\ New(p, "live", text[made[p]], {"disposables"})
         /\ parts'[p] = parts[p] \cup {Number} /\ pc'[p] = "shrink"
    BY DEF Split
<1>6. /\ pc[p] = "split" /\ UNCHANGED <<status, stock, noted, crossed, lost>>
      /\ \A q \in Procs : q # p => SameHand(q)
      /\ rec'[p] = rec[p] /\ made'[p] = made[p] /\ was'[p] = was[p] /\ doomed'[p] = doomed[p]
    BY DEF Split, SameHand
<1>7. /\ made[p] \in Orders /\ made[p] \in parts[p] /\ OrderOf(made[p], r)
      /\ parts[p] \subseteq Orders
    BY <1>1, <1>6, MadeIsOrder, OfItsRecord DEF Hands, Hand, Splitting, Parting
<1>8. CASE pc'[p] = "stock" /\ UNCHANGED <<kind, from, share, parts>>
  <2>1. WorksOn(p, r)
    BY <1>1, <1>6, <1>8 DEF WorksOn, SameOrder
  <2>2. r \notin crossed /\ Sure(p) /\ Removed(r) => Removed(r)' /\ Sure(p)'
    BY <1>6, <1>7, <1>8 DEF Sure, Removed, Recording, Parting, Splitting
  <2>3. Tells(p) /\ Unique(r) => Tells(p)' /\ Unique(r)' /\ pc'[p] \in Works
    BY <1>6, <1>7, <1>8 DEF Tells, Unique, Halving, Works
  <2> QED
    BY <1>1, <2>1, <2>2, <2>3, Worked
<1>9. CASE /\ New(p, "live", text[made[p]], {"disposables"})
           /\ parts'[p] = parts[p] \cup {Number} /\ pc'[p] = "shrink"
  <2>1. PICK n \in Orders :
            /\ n = Number /\ n # 0 /\ kind[n] = "none" /\ kind'[n] = "live" /\ from'[n] = r
            /\ share'[n] = {"disposables"} /\ \A u \in Orders \ {n} : SameOrder(u)
    BY <1>1, <1>6, <1>9, OrderAdded
  <2>2. parts'[p] = parts[p] \cup {n} /\ n # made[p]
    BY <1>7, <1>9, <2>1 DEF OrderOf
  <2>3. WorksOn(p, r)
    <3>1. \A o \in Orders : \A x \in Messages \ {r} :
              OrderOf(o, x) \/ OrderOf(o, x)' => SameOrder(o)
      BY <2>1 DEF OrderOf
    <3> QED
      BY <1>1, <1>6, <3>1 DEF WorksOn
  <2>4. Sure(p) /\ Removed(r) => Removed(r)' /\ Sure(p)'
    <3> SUFFICES ASSUME Sure(p), Removed(r) PROVE Removed(r)' /\ Sure(p)'
      OBVIOUS
    <3>1. \A o \in parts'[p] : o \in Orders /\ kind'[o] = "live"
      BY <1>7, <2>1, <2>2 DEF Sure, SameOrder
    <3>2. made'[p] \in parts'[p]
      BY <1>6, <1>7, <2>2
    <3>3. Sure(p)'
      BY <1>9, <3>1, <3>2 DEF Sure, Recording, Parting, Splitting
    <3>4. Removed(r)'
      BY <2>1 DEF Removed, SameOrder
    <3> QED
      BY <3>3, <3>4
  <2>5. Sure(p) /\ Tells(p) => Tells(p)'
    <3> SUFFICES ASSUME Sure(p), Tells(p) PROVE Tells(p)'
      OBVIOUS
    <3>1. \A o \in Orders : from[o] = r /\ kind[o] \in {"live", "error"} => o = made[p]
      BY <1>6 DEF Tells, Halving
    <3>2. parts[p] = {made[p]}
      BY <1>1, <1>7, <3>1, OfItsRecord DEF Sure, OrderOf
    <3>3. \A o \in Orders : from'[o] = r /\ kind'[o] \in {"live", "error"} =>
              o = made[p] \/ o = n
      BY <2>1, <3>1 DEF SameOrder
    <3>4. Halves(p)'
      BY <1>6, <2>1, <2>2, <3>2, <3>3 DEF Halves
    <3>5. made[p] # 0
      BY <1>7
    <3> QED
      BY <1>6, <1>9, <3>4, <3>5 DEF Tells, Halving
  <2> QED
    BY <1>1, <1>9, <2>3, <2>4, <2>5, WorkedHalf DEF Halving, Works
<1> QED
    BY <1>5, <1>8, <1>9

LEMMA ShrinkRecords ==
    ASSUME TypeOK, Hands, Goods, Records, NEW p \in Procs, Shrink(p)
    PROVE  Records'
<1> USE ProcsAre, Bounds, TypeParts DEF recordVars, orderVars, workVars, boundVars, pastVars,
        WorkOK, Goto
<1>1. pc[p] \in Works /\ pc[p] \in Halving /\ rec[p] \in Messages
    BY InWork DEF Shrink, Works, Halving
<1> SUFFICES ASSUME NEW r \in Messages, r = rec[p] PROVE Records'
    BY <1>1
<1>5. /\ pc[p] = "shrink" /\ UNCHANGED <<status, kind, from, stock, noted, crossed, lost>>
      /\ UNCHANGED <<rec, was, next, made, parts, doomed>>
      /\ \A q \in Procs : q # p => SameHand(q)
    BY DEF Shrink, SameHand
<1>6. made[p] \in Orders /\ made[p] # 0 /\ OrderOf(made[p], r)
    BY <1>1, <1>5, MadeIsOrder, OfItsRecord DEF Parting, Splitting
<1>7. \A u \in Orders \ {made[p]} : SameOrder(u)
    BY <1>5, <1>6 DEF Shrink, OrderOK, SameOrder
<1>2. WorksOn(p, r)
  <2>1. \A o \in Orders : \A x \in Messages \ {r} :
            OrderOf(o, x) \/ OrderOf(o, x)' => SameOrder(o)
    BY <1>5, <1>6, <1>7 DEF OrderOf
  <2> QED
    BY <1>1, <1>5, <2>1 DEF WorksOn
<1>3. r \notin crossed /\ Sure(p) /\ Removed(r) =>
          Removed(r)' /\ (pc'[p] \in Works => Sure(p)')
  <2>1. pc'[p] \in {"stock", "unsplit"}
    BY DEF Shrink
  <2> QED
    BY <1>5, <2>1 DEF Sure, Removed, Recording, Parting, Splitting
<1>4. /\ r \notin crossed \cup lost' /\ Sure(p) /\ Tells(p)
      /\ pc[p] \notin Halving => Unique(r)
      =>  /\ pc'[p] \notin Halving => Unique(r)'
          /\ pc'[p] \in Works => Tells(p)'
          /\ pc'[p] \notin Works => Said(r)'
  <2> SUFFICES ASSUME Sure(p), Tells(p)
               PROVE  (pc'[p] \notin Halving => Unique(r)') /\ Tells(p)' /\ pc'[p] \in Works
    OBVIOUS
  <2>1. kind[made[p]] = "live"
    BY <1>5, <1>6 DEF Sure
  <2>2. pc'[p] = "stock" /\ share'[made[p]] = {"rest"}
    BY <1>6, <2>1 DEF Shrink, OrderOK
  <2>3. PICK t \in Orders :
            /\ t # made[p] /\ share[t] = {"disposables"}
            /\ \A o \in Orders :
                  from[o] = r /\ kind[o] \in {"live", "error"} => o = made[p] \/ o = t
    BY <1>5 DEF Tells, Halves, Halving
  <2>4. share'[t] = {"disposables"}
    BY <1>7, <2>3 DEF SameOrder
  <2>5. Unique(r)'
    BY <1>5, <2>2, <2>3, <2>4 DEF Unique
  <2>6. Tells(p)'
    BY <1>5, <1>6, <2>2 DEF Tells, Halving
  <2> QED
    BY <2>2, <2>5, <2>6 DEF Works
<1> QED
    BY <1>1, <1>2, <1>3, <1>4, WorkedHalf

LEMMA ShrinkFailsRecords ==
    ASSUME TypeOK, Hands, Goods, Records, NEW p \in Procs, ShrinkFails(p)
    PROVE  Records'
<1> USE ProcsAre, Bounds, TypeParts DEF recordVars, orderVars, workVars, boundVars, pastVars,
        WorkOK, Goto
<1>1. pc[p] \in Works /\ pc[p] \in Halving /\ rec[p] \in Messages
    BY InWork DEF ShrinkFails, Works, Halving
<1> SUFFICES ASSUME NEW r \in Messages, r = rec[p] PROVE Records'
    BY <1>1
<1>5. /\ pc[p] = "shrink" /\ pc'[p] = "unsplit"
      /\ UNCHANGED <<status, kind, from, share, stock, noted, crossed, lost>>
      /\ UNCHANGED <<rec, was, next, made, parts, doomed>>
      /\ \A q \in Procs : q # p => SameHand(q)
    BY DEF ShrinkFails, SameHand
<1>2. WorksOn(p, r)
    BY <1>1, <1>5 DEF WorksOn, SameOrder
<1>3. r \notin crossed /\ Sure(p) /\ Removed(r) =>
          Removed(r)' /\ (pc'[p] \in Works => Sure(p)')
    BY <1>5 DEF Sure, Removed, Recording, Parting, Splitting
<1>4. /\ r \notin crossed \cup lost' /\ Sure(p) /\ Tells(p)
      /\ pc[p] \notin Halving => Unique(r)
      =>  /\ pc'[p] \notin Halving => Unique(r)'
          /\ pc'[p] \in Works => Tells(p)'
          /\ pc'[p] \notin Works => Said(r)'
    BY <1>5 DEF Tells, Halves, Halving, Works
<1> QED
    BY <1>1, <1>2, <1>3, <1>4, WorkedHalf

LEMMA UnsplitRecords ==
    ASSUME TypeOK, Hands, Goods, Records, NEW p \in Procs, Unsplit(p)
    PROVE  Records'
<1> USE ProcsAre, Bounds, TypeParts DEF recordVars, orderVars, workVars, boundVars, pastVars,
        WorkOK, Goto
<1>1. pc[p] \in Works /\ pc[p] \in Halving /\ rec[p] \in Messages
    BY InWork DEF Unsplit, Works, Halving
<1> SUFFICES ASSUME NEW r \in Messages, r = rec[p] PROVE Records'
    BY <1>1
<1>5. /\ pc[p] = "unsplit" /\ pc'[p] = "stock" /\ parts'[p] = {made[p]}
      /\ UNCHANGED <<status, from, share, stock, noted, crossed, lost>>
      /\ UNCHANGED <<rec, was, next, made, doomed>>
      /\ \A q \in Procs : q # p => SameHand(q)
    BY DEF Unsplit, SameHand
<1>6. made[p] \in Orders /\ made[p] # 0 /\ OrderOf(made[p], r)
    BY <1>1, <1>5, MadeIsOrder, OfItsRecord DEF Parting, Splitting
<1>7. \A u \in Orders : kind'[u] = IF u \in parts[p] \ {made[p]} THEN "unsplit" ELSE kind[u]
    BY DEF Unsplit
<1>8. \A u \in parts[p] : u \in Orders /\ OrderOf(u, r)
    BY <1>1, OfItsRecord
<1>2. WorksOn(p, r)
  <2>1. \A u \in Orders : u \notin parts[p] => SameOrder(u)
    BY <1>5, <1>7 DEF SameOrder
  <2>2. \A o \in Orders : \A x \in Messages \ {r} :
            OrderOf(o, x) \/ OrderOf(o, x)' => SameOrder(o)
    BY <1>5, <1>8, <2>1 DEF OrderOf
  <2> QED
    BY <1>1, <1>5, <2>2 DEF WorksOn
<1>3. r \notin crossed /\ Sure(p) /\ Removed(r) =>
          Removed(r)' /\ (pc'[p] \in Works => Sure(p)')
  <2> SUFFICES ASSUME Sure(p), Removed(r) PROVE Removed(r)' /\ Sure(p)'
    OBVIOUS
  <2>1. kind'[made[p]] = "live"
    BY <1>5, <1>6, <1>7 DEF Sure
  <2>2. Sure(p)'
    BY <1>5, <2>1 DEF Sure, Recording, Parting, Splitting
  <2>3. \A u \in parts[p] : stock[u] = 0
    BY DEF Goods
  <2>4. Removed(r)'
    BY <1>5, <1>7, <2>3 DEF Removed
  <2> QED
    BY <2>2, <2>4
<1>4. /\ r \notin crossed \cup lost' /\ Sure(p) /\ Tells(p)
      /\ pc[p] \notin Halving => Unique(r)
      =>  /\ pc'[p] \notin Halving => Unique(r)'
          /\ pc'[p] \in Works => Tells(p)'
          /\ pc'[p] \notin Works => Said(r)'
  <2> SUFFICES ASSUME Sure(p), Tells(p)
               PROVE  Unique(r)' /\ Tells(p)' /\ pc'[p] \in Works
    OBVIOUS
  <2>1. \A o \in Orders : from[o] = r /\ kind[o] \in {"live", "error"} => o \in parts[p]
    BY <1>5 DEF Tells, Halves, Halving
  <2>2. \A o \in Orders : from'[o] = r /\ kind'[o] \in {"live", "error"} => o = made[p]
    BY <1>5, <1>7, <2>1
  <2>3. Unique(r)'
    BY <2>2 DEF Unique
  <2>4. Tells(p)'
    BY <1>5, <1>6 DEF Tells, Halving
  <2> QED
    BY <1>5, <2>3, <2>4 DEF Works
<1> QED
    BY <1>1, <1>2, <1>3, <1>4, WorkedHalf

LEMMA UnsplitFailsRecords ==
    ASSUME TypeOK, Hands, Goods, Records, NEW p \in Procs, UnsplitFails(p)
    PROVE  Records'
<1> USE ProcsAre, Bounds, TypeParts DEF recordVars, orderVars, workVars, boundVars, pastVars,
        WorkOK, Goto
<1>1. pc[p] \in Works /\ pc[p] \in Halving /\ rec[p] \in Messages
    BY InWork DEF UnsplitFails, Works, Halving
<1> SUFFICES ASSUME NEW r \in Messages, r = rec[p] PROVE Records'
    BY <1>1
<1>5. /\ pc[p] = "unsplit" /\ pc'[p] = "stock" /\ parts'[p] = {made[p]}
      /\ UNCHANGED <<status, kind, from, share, stock, noted, crossed>>
      /\ r \in lost' /\ lost \subseteq lost'
      /\ UNCHANGED <<rec, was, next, made, doomed>>
      /\ \A q \in Procs : q # p => SameHand(q)
    BY DEF UnsplitFails, SameHand
<1>6. made[p] # 0 /\ made[p] \in parts[p]
    BY <1>5 DEF Hands, Hand, Parting, Splitting
<1>2. WorksOn(p, r)
    BY <1>1, <1>5 DEF WorksOn, SameOrder
<1>3. r \notin crossed /\ Sure(p) /\ Removed(r) =>
          Removed(r)' /\ (pc'[p] \in Works => Sure(p)')
    BY <1>5, <1>6 DEF Sure, Removed, Recording, Parting, Splitting
<1>4. /\ r \notin crossed \cup lost' /\ Sure(p) /\ Tells(p)
      /\ pc[p] \notin Halving => Unique(r)
      =>  /\ pc'[p] \notin Halving => Unique(r)'
          /\ pc'[p] \in Works => Tells(p)'
          /\ pc'[p] \notin Works => Said(r)'
    BY <1>5
<1> QED
    BY <1>1, <1>2, <1>3, <1>4, WorkedHalf

LEMMA StockRecords ==
    ASSUME TypeOK, Hands, Goods, Records, NEW p \in Procs, Stock(p)
    PROVE  Records'
<1> USE ProcsAre, Bounds, TypeParts DEF recordVars, orderVars, workVars, boundVars, pastVars,
        WorkOK, Goto
<1>1. pc[p] \in Works /\ pc[p] \notin Halving /\ rec[p] \in Messages
    BY InWork DEF Stock, Works, Halving
<1> SUFFICES ASSUME NEW r \in Messages, r = rec[p] PROVE Records'
    BY <1>1
<1>5. PICK o \in parts[p] :
          /\ TakeFromStock(o) /\ parts'[p] = parts[p] \ {o}
          /\ IF parts[p] # {o} THEN UNCHANGED <<pc, next>>
             ELSE pc'[p] \in {"save", "mark"} /\ next'[p] = "order_created"
    BY DEF Stock
<1>6. /\ pc[p] = "stock" /\ UNCHANGED <<status, kind, from, share, noted, crossed, lost>>
      /\ UNCHANGED <<rec, was, made, doomed>>
      /\ \A q \in Procs : q # p => SameHand(q)
    BY DEF Stock, SameHand
<1>7. pc'[p] \in {"stock", "save", "mark"} /\ made[p] # 0
    BY <1>5, <1>6 DEF Hands, Hand, Parting, Splitting
<1>8. o \in Orders /\ OrderOf(o, r) /\ \A u \in Orders \ {o} : SameOrder(u)
    BY <1>1, <1>5, <1>6, GoodsLeave
<1>2. WorksOn(p, r)
  <2>1. \A u \in Orders : \A x \in Messages \ {r} :
            OrderOf(u, x) \/ OrderOf(u, x)' => SameOrder(u)
    BY <1>6, <1>8 DEF OrderOf
  <2> QED
    BY <1>1, <1>6, <2>1 DEF WorksOn
<1>3. r \notin crossed /\ Sure(p) /\ Removed(r) =>
          Removed(r)' /\ (pc'[p] \in Works => Sure(p)')
  <2> SUFFICES ASSUME Sure(p), Removed(r) PROVE Removed(r)' /\ Sure(p)'
    OBVIOUS
  <2>1. kind[o] = "live"
    BY <1>5 DEF Sure
  <2>2. Sure(p)'
    BY <1>5, <1>6, <1>7 DEF Sure, Recording, Parting, Splitting
  <2>3. Removed(r)'
    BY <1>6, <1>8, <2>1 DEF Removed, SameOrder
  <2> QED
    BY <2>2, <2>3
<1>4. r \notin crossed \cup lost' /\ Sure(p) /\ Tells(p) /\ Unique(r) =>
          /\ Unique(r)'
          /\ pc'[p] \in Works => Tells(p)'
          /\ pc'[p] \notin Works => Said(r)'
    BY <1>5, <1>6, <1>7 DEF Tells, Unique, Halving, Works
<1> QED
    BY <1>1, <1>2, <1>3, <1>4, Worked

LEMMA ExistingRecords ==
    ASSUME TypeOK, Hands, Goods, Records, NEW p \in Procs, Existing(p)
    PROVE  Records'
<1> USE ProcsAre, Bounds, TypeParts DEF recordVars, orderVars, workVars, boundVars, pastVars,
        WorkOK, Goto
<1>1. pc[p] \in Works /\ pc[p] \notin Halving /\ rec[p] \in Messages
    BY InWork DEF Existing, Works, Halving
<1> SUFFICES ASSUME NEW r \in Messages, r = rec[p] PROVE Records'
    BY <1>1
<1>2. WorksOn(p, r)
    BY <1>1 DEF Existing, Of, WorksOn, SameHand, SameOrder, OrderOf, Works
<1>3. r \notin crossed /\ Sure(p) /\ Removed(r) =>
          Removed(r)' /\ (pc'[p] \in Works => Sure(p)')
  <2> SUFFICES ASSUME Sure(p), Removed(r) PROVE Removed(r)' /\ Sure(p)'
    OBVIOUS
  <2>1. made'[p] = made[p] /\ UNCHANGED <<kind, from, share, stock, noted, parts>> /\ pc'[p] \in {"save", "error"}
    BY DEF Existing
  <2>2. pc'[p] = "error" => made[p] = 0
    <3> SUFFICES ASSUME made[p] # 0 PROVE pc'[p] # "error"
      OBVIOUS
    <3>1. made[p] \in Orders /\ from[made[p]] = r /\ kind[made[p]] = "live"
      BY <1>1, OfItsRecord DEF OrderOf, Sure, Existing
    <3> QED
      BY <3>1 DEF Existing, Of
  <2>3. (made[p] # 0 => kind[made[p]] = "live") /\ \A o \in parts[p] : kind[o] = "live"
    BY DEF Sure, Existing
  <2> QED
    BY <2>1, <2>2, <2>3 DEF Sure, Removed, Recording, Parting, Splitting
<1>4. r \notin crossed \cup lost' /\ Sure(p) /\ Tells(p) /\ Unique(r) =>
          /\ Unique(r)'
          /\ pc'[p] \in Works => Tells(p)'
          /\ pc'[p] \notin Works => Said(r)'
  <2> SUFFICES ASSUME Sure(p), Tells(p), Unique(r)
               PROVE  Unique(r)' /\ Tells(p)' /\ pc'[p] \in Works
    OBVIOUS
  <2>1. /\ pc[p] = "existing" /\ next[p] = "failed" /\ UNCHANGED <<kind, from, share, status>>
        /\ rec'[p] = r /\ was'[p] = was[p] /\ made'[p] = made[p] /\ next'[p] = next[p]
    BY DEF Existing, Hands, Hand
  <2>2. CASE Of(r, {"live", "error"}) # {}
    <3>1. pc'[p] = "save"
      BY <2>2 DEF Existing
    <3> QED
      BY <2>1, <3>1 DEF Tells, Halving, Unique, Works
  <2>3. CASE Of(r, {"live", "error"}) = {}
    <3>1. pc'[p] = "error"
      BY <2>3 DEF Existing
    <3>2. \A o \in Orders : from[o] = r => kind[o] # "live" /\ kind[o] # "error"
      BY <2>3 DEF Of
    <3>3. made[p] = 0
      <4> SUFFICES ASSUME made[p] # 0 PROVE FALSE
        OBVIOUS
      <4> QED
        BY <1>1, <2>1, <3>2, OfItsRecord DEF OrderOf, Sure
    <3> QED
      BY <2>1, <3>1, <3>2, <3>3 DEF Tells, Halving, Unique, Works
  <2> QED
    BY <2>2, <2>3
<1> QED
    BY <1>1, <1>2, <1>3, <1>4, Worked

LEMMA MakeErrorRecords ==
    ASSUME TypeOK, Hands, Goods, Records, NEW p \in Procs, MakeError(p)
    PROVE  Records'
<1> USE ProcsAre, Bounds, TypeParts DEF recordVars, orderVars, workVars, boundVars, pastVars,
        WorkOK, Goto
<1>1. pc[p] \in Works /\ pc[p] \notin Halving /\ rec[p] \in Messages
    BY InWork DEF MakeError, Works, Halving
<1> SUFFICES ASSUME NEW r \in Messages, r = rec[p] PROVE Records'
    BY <1>1
<1>2. WorksOn(p, r)
  <2>1. CASE New(p, "error", copy[p], Shares)
    <3>1. PICK n \in Orders : kind[n] = "none" /\ from'[n] = r /\ \A u \in Orders \ {n} : SameOrder(u)
      BY <1>1, <2>1, OrderAdded DEF MakeError
    <3>2. \A o \in Orders : \A x \in Messages \ {r} :
              OrderOf(o, x) \/ OrderOf(o, x)' => SameOrder(o)
      BY <3>1 DEF OrderOf
    <3> QED
      BY <1>1, <3>2 DEF MakeError, WorksOn, SameHand, Works
  <2>2. CASE UNCHANGED <<kind, from, text, share>>
    BY <1>1, <2>2 DEF MakeError, WorksOn, SameHand, SameOrder, OrderOf, Works
  <2> QED
    BY <2>1, <2>2 DEF MakeError
<1>3. r \notin crossed /\ Sure(p) /\ Removed(r) =>
          Removed(r)' /\ (pc'[p] \in Works => Sure(p)')
  <2> SUFFICES ASSUME Sure(p), Removed(r) PROVE Removed(r)' /\ Sure(p)'
    OBVIOUS
  <2>1. pc'[p] = "save" /\ made'[p] = 0 /\ parts'[p] = {}
    BY DEF MakeError, Sure, Recording, Parting, Splitting, Hands, Hand
  <2>2. Sure(p)'
    BY <2>1 DEF Sure, Recording, Parting, Splitting
  <2>3. CASE New(p, "error", copy[p], Shares)
    <3>1. PICK n \in Orders : kind'[n] = "error" /\ \A u \in Orders \ {n} : SameOrder(u)
      BY <1>1, <2>3, OrderAdded DEF MakeError
    <3> QED
      BY <2>2, <3>1 DEF Removed, SameOrder
  <2>4. CASE UNCHANGED <<kind, from, text, share>>
    BY <2>2, <2>4 DEF MakeError, Removed
  <2> QED
    BY <2>3, <2>4 DEF MakeError
<1>4. r \notin crossed \cup lost' /\ Sure(p) /\ Tells(p) /\ Unique(r) =>
          /\ Unique(r)'
          /\ pc'[p] \in Works => Tells(p)'
          /\ pc'[p] \notin Works => Said(r)'
  <2> SUFFICES ASSUME Sure(p), Tells(p), Unique(r)
               PROVE  Unique(r)' /\ Tells(p)' /\ pc'[p] \in Works
    OBVIOUS
  <2>1. pc[p] = "error" /\ made[p] = 0 /\ next[p] = "failed"
    BY DEF MakeError, Sure, Recording, Parting, Splitting, Hands, Hand
  <2>2. \A o \in Orders : from[o] = r => kind[o] # "live" /\ kind[o] # "error"
    BY <2>1 DEF Tells, Halving
  <2>3. /\ pc'[p] = "save" /\ made'[p] = 0 /\ rec'[p] = r /\ was'[p] = was[p]
        /\ next'[p] = "failed" /\ status' = status
    BY <2>1 DEF MakeError
  <2>4. CASE New(p, "error", copy[p], Shares)
    <3>1. PICK n \in Orders : kind'[n] = "error" /\ \A u \in Orders \ {n} : SameOrder(u)
      BY <1>1, <2>4, OrderAdded DEF MakeError
    <3>2. /\ \A o \in Orders : from'[o] = r /\ kind'[o] \in {"live", "error"} => o = n
          /\ \A o \in Orders : from'[o] = r => kind'[o] # "live"
      BY <2>2, <3>1 DEF SameOrder
    <3>3. Unique(r)' /\ Tells(p)'
      BY <2>1, <2>3, <3>2 DEF Unique, Tells, Halving
    <3> QED
      BY <2>3, <3>3 DEF Works
  <2>5. CASE UNCHANGED <<kind, from, text, share>>
    BY <2>1, <2>2, <2>3, <2>5 DEF Unique, Tells, Halving, Works
  <2> QED
    BY <2>4, <2>5 DEF MakeError
<1> QED
    BY <1>1, <1>2, <1>3, <1>4, Worked

LEMMA SaveRecords ==
    ASSUME TypeOK, Hands, Goods, Records, NEW p \in Procs, Save(p)
    PROVE  Records'
<1> USE ProcsAre, Bounds, TypeParts DEF recordVars, orderVars, workVars, boundVars, pastVars,
        WorkOK, Goto
<1>1. pc[p] \in Works /\ pc[p] \notin Halving /\ rec[p] \in Messages
    BY InWork DEF Save, Works, Halving
<1> SUFFICES ASSUME NEW r \in Messages, r = rec[p] PROVE Records'
    BY <1>1
<1>2. WorksOn(p, r)
  <2>1. pc'[p] \notin Works /\ \A q \in Procs : q # p => SameHand(q)
    BY FinishFrame DEF Save
  <2>2. /\ UNCHANGED <<kind, from, share, stock, noted, crossed>> /\ lost \subseteq lost'
        /\ \A x \in Messages : x # r => status'[x] = status[x]
    BY DEF Save, RecordOK
  <2> QED
    BY <1>1, <2>1, <2>2 DEF WorksOn, SameOrder
<1>3. r \notin crossed /\ Sure(p) /\ Removed(r) =>
          Removed(r)' /\ (pc'[p] \in Works => Sure(p)')
  <2>1. pc'[p] \notin Works
    BY FinishFrame DEF Save
  <2> QED
    BY <2>1 DEF Save, Removed
<1>4. r \notin crossed \cup lost' /\ Sure(p) /\ Tells(p) /\ Unique(r) =>
          /\ Unique(r)'
          /\ pc'[p] \in Works => Tells(p)'
          /\ pc'[p] \notin Works => Said(r)'
  <2> SUFFICES ASSUME r \notin lost', Sure(p), Tells(p), Unique(r)
               PROVE  Unique(r)' /\ pc'[p] \notin Works /\ Said(r)'
    OBVIOUS
  <2>1. pc'[p] \notin Works
    BY FinishFrame DEF Save
  <2>2. /\ status'[r] = (IF next[p] = was[p] THEN status[r] ELSE next[p])
        /\ UNCHANGED <<kind, from, share>>
    BY DEF Save, RecordOK
  <2>3. Unique(r)'
    BY <2>2 DEF Unique
  <2>4. CASE next[p] = "order_created"
    <3>1. made[p] # 0
      BY <2>4 DEF Save, Tells, Halving
    <3>2. made[p] \in Orders /\ from[made[p]] = r /\ kind[made[p]] = "live"
      BY <1>1, <3>1, OfItsRecord DEF Save, Sure, OrderOf
    <3>3. status'[r] = "order_created"
      BY <2>2, <2>4 DEF Tells, Halving
    <3> QED
      BY <2>1, <2>2, <2>3, <3>2, <3>3 DEF Said
  <2>5. CASE next[p] # "order_created"
    <3>1. made[p] = 0
      <4>1. CASE next[p] = "failed"
        BY <4>1 DEF Save, Unrecorded
      <4>2. CASE next[p] \in {"aside", "unknown"}
        BY <4>2 DEF Save, Tells, Halving
      <4> QED
        BY <2>5, <4>1, <4>2 DEF Save, Hands, Hand
    <3>2. \A o \in Orders : from[o] = r => kind[o] # "live"
      BY <3>1, Bounds DEF Tells, Halving
    <3>3. status'[r] # "order_created"
      BY <2>2, <2>5 DEF Tells, Halving
    <3> QED
      BY <2>1, <2>2, <2>3, <3>2, <3>3 DEF Said
  <2> QED
    BY <2>4, <2>5
<1> QED
    BY <1>1, <1>2, <1>3, <1>4, Worked

LEMMA ReprocessFindRecords ==
    ASSUME TypeOK, Hands, Goods, Records, NEW p \in Procs, ReprocessFind(p)
    PROVE  Records'
<1> USE ProcsAre, Bounds, TypeParts DEF recordVars, orderVars, workVars, boundVars, pastVars,
        WorkOK, Goto
<1>1. pc[p] \in Works /\ pc[p] \notin Halving /\ rec[p] \in Messages
    BY InWork DEF ReprocessFind, Works, Halving
<1> SUFFICES ASSUME NEW r \in Messages, r = rec[p] PROVE Records'
    BY <1>1
<1>2. WorksOn(p, r)
    BY <1>1 DEF ReprocessFind, ErrorsOf, Of, WorksOn, SameHand, SameOrder, OrderOf, Works
<1>3. r \notin crossed /\ Sure(p) /\ Removed(r) =>
          Removed(r)' /\ (pc'[p] \in Works => Sure(p)')
    BY <1>1, OfItsRecord DEF ReprocessFind, ErrorsOf, Of, Sure, Removed, Recording, Parting, Splitting, Works
<1>4. r \notin crossed \cup lost' /\ Sure(p) /\ Tells(p) /\ Unique(r) =>
          /\ Unique(r)'
          /\ pc'[p] \in Works => Tells(p)'
          /\ pc'[p] \notin Works => Said(r)'
    BY <1>1, OfItsRecord DEF ReprocessFind, ErrorsOf, Of, Sure, Tells, Halving, Unique, Said, Recording, Parting, Splitting, Works
<1> QED
    BY <1>1, <1>2, <1>3, <1>4, Worked

LEMMA ReprocessNotesRecords ==
    ASSUME TypeOK, Hands, Goods, Records, NEW p \in Procs, ReprocessNotes(p)
    PROVE  Records'
<1> USE ProcsAre, Bounds, TypeParts DEF recordVars, orderVars, workVars, boundVars, pastVars,
        WorkOK, Goto
<1>1. pc[p] \in Works /\ pc[p] \notin Halving /\ rec[p] \in Messages
    BY InWork DEF ReprocessNotes, Works, Halving
<1> SUFFICES ASSUME NEW r \in Messages, r = rec[p] PROVE Records'
    BY <1>1
<1>2. WorksOn(p, r)
    BY <1>1, FinishFrame DEF ReprocessNotes, WorksOn, SameHand, SameOrder, OrderOf, Works
<1>3. r \notin crossed /\ Sure(p) /\ Removed(r) =>
          Removed(r)' /\ (pc'[p] \in Works => Sure(p)')
    BY <1>1, OfItsRecord DEF ReprocessNotes, Sure, Removed, Recording, Parting, Splitting, Works, Finish, Ends
<1>4. r \notin crossed \cup lost' /\ Sure(p) /\ Tells(p) /\ Unique(r) =>
          /\ Unique(r)'
          /\ pc'[p] \in Works => Tells(p)'
          /\ pc'[p] \notin Works => Said(r)'
    BY <1>1, OfItsRecord DEF ReprocessNotes, Sure, Tells, Halving, Unique, Said, Recording, Parting, Splitting, Works, Finish, Ends
<1> QED
    BY <1>1, <1>2, <1>3, <1>4, Worked

LEMMA ReprocessDeleteRecords ==
    ASSUME TypeOK, Hands, Goods, Records, NEW p \in Procs, ReprocessDelete(p)
    PROVE  Records'
<1> USE ProcsAre, Bounds, TypeParts DEF recordVars, orderVars, workVars, boundVars, pastVars,
        WorkOK, Goto
<1>1. pc[p] \in Works /\ pc[p] \notin Halving /\ rec[p] \in Messages
    BY InWork DEF ReprocessDelete, Works, Halving
<1> SUFFICES ASSUME NEW r \in Messages, r = rec[p] PROVE Records'
    BY <1>1
<1>2. WorksOn(p, r)
  <2>1. pc[p] = "delete" /\ Delete(p, "reread", "process") /\ "process" \in Works
    BY DEF ReprocessDelete, Works
  <2>2. PICK o \in doomed[p] :
            /\ OrderOf(o, r) /\ from'[o] = from[o]
            /\ \A u \in Orders \ {o} : SameOrder(u)
            /\ pc'[p] \in {"process", "delete"} /\ rec'[p] = r /\ noted' = noted
            /\ status' = status /\ crossed' = crossed /\ lost' = lost
            /\ \A q \in Procs : q # p => SameHand(q)
    BY <1>1, <2>1, OrderRemoved
  <2>3. \A u \in Orders : \A x \in Messages \ {r} :
            OrderOf(u, x) \/ OrderOf(u, x)' => SameOrder(u)
    BY <2>2 DEF OrderOf
  <2> QED
    BY <1>1, <2>2, <2>3 DEF WorksOn
<1>3. r \notin crossed /\ Sure(p) /\ Removed(r) =>
          Removed(r)' /\ (pc'[p] \in Works => Sure(p)')
  <2>1. pc[p] = "delete" /\ Delete(p, "reread", "process") /\ "process" \in Works
    BY DEF ReprocessDelete, Works
  <2> SUFFICES ASSUME Sure(p), Removed(r) PROVE Removed(r)' /\ Sure(p)'
    OBVIOUS
  <2>2. PICK o \in doomed[p] :
            /\ o \in Orders
            /\ kind[o] \in {"live", "error"} => kind'[o] = "reread"
            /\ stock'[o] = stock[o] /\ noted' = noted
            /\ \A u \in Orders \ {o} : SameOrder(u)
            /\ doomed'[p] = doomed[p] \ {o}
            /\ pc'[p] = IF doomed[p] = {o} THEN "process" ELSE pc[p]
            /\ made'[p] = made[p] /\ parts'[p] = parts[p]
    BY <1>1, <2>1, OrderRemoved
  <2>3. /\ kind[o] = "error" /\ made[p] = 0
        /\ \A u \in doomed[p] : kind[u] = "error"
        /\ doomed[p] \cap noted = {}
    BY <2>1 DEF Sure, Recording, Parting, Splitting
  <2>4. stock[o] = 0 /\ kind'[o] = "reread"
    BY <2>2, <2>3 DEF Goods
  <2>5. Removed(r)'
    BY <2>2, <2>3, <2>4 DEF Removed, SameOrder
  <2>6. \A u \in doomed'[p] : u \in Orders \ {o} /\ kind'[u] = "error"
    BY <2>2, <2>3, <1>1, OfItsRecord DEF SameOrder
  <2>7. pc'[p] \in {"process", "delete"} /\ made'[p] = 0 /\ parts'[p] = {}
    BY <2>1, <2>2, <2>3 DEF Hands, Hand, Parting, Splitting
  <2>8. Sure(p)'
    BY <2>2, <2>3, <2>6, <2>7 DEF Sure, Recording, Parting, Splitting
  <2> QED
    BY <2>5, <2>8
<1>4. r \notin crossed \cup lost' /\ Sure(p) /\ Tells(p) /\ Unique(r) =>
          /\ Unique(r)'
          /\ pc'[p] \in Works => Tells(p)'
          /\ pc'[p] \notin Works => Said(r)'
  <2>1. pc[p] = "delete" /\ Delete(p, "reread", "process") /\ "process" \in Works
    BY DEF ReprocessDelete, Works
  <2> SUFFICES ASSUME Sure(p), Tells(p), Unique(r)
               PROVE  Unique(r)' /\ Tells(p)' /\ pc'[p] \in Works
    OBVIOUS
  <2>2. PICK o \in doomed[p] :
            /\ o \in Orders
            /\ kind[o] \in {"live", "error"} => kind'[o] = "reread"
            /\ \A u \in Orders \ {o} : SameOrder(u)
            /\ doomed'[p] = doomed[p] \ {o}
            /\ pc'[p] = IF doomed[p] = {o} THEN "process" ELSE pc[p]
            /\ rec'[p] = r /\ was'[p] = was[p] /\ made'[p] = made[p] /\ status' = status
    BY <1>1, <2>1, OrderRemoved
  <2>3. kind'[o] = "reread"
    BY <2>1, <2>2 DEF Sure
  <2>4. \A u \in Orders : from'[u] = r /\ kind'[u] \in {"live", "error"} =>
            u # o /\ from[u] = r /\ kind[u] = kind'[u] /\ share[u] = share'[u]
    BY <2>2, <2>3 DEF SameOrder
  <2>5. Unique(r)'
    BY <2>4 DEF Unique
  <2>6. made[p] = 0
    BY <2>1 DEF Sure, Recording, Parting, Splitting
  <2>7. \A u \in Orders : from[u] = r => kind[u] # "live"
    BY <2>6, Bounds DEF Tells, Halving
  <2>8. \A u \in Orders : from[u] = r /\ kind[u] = "error" => u \in doomed[p]
    BY <2>1 DEF Tells, Halving
  <2>9. \A u \in Orders : from'[u] = r =>
            kind'[u] # "live" /\ (kind'[u] = "error" => u \in doomed'[p])
    BY <2>2, <2>4, <2>7, <2>8
  <2>10. pc'[p] \in {"process", "delete"} /\ (pc'[p] = "process" => doomed'[p] = {})
    BY <2>1, <2>2
  <2>11. Tells(p)'
    BY <2>2, <2>6, <2>9, <2>10 DEF Tells, Halving
  <2> QED
    BY <2>5, <2>10, <2>11 DEF Works
<1> QED
    BY <1>1, <1>2, <1>3, <1>4, Worked

LEMMA IgnoreFindRecords ==
    ASSUME TypeOK, Hands, Goods, Records, NEW p \in Procs, IgnoreFind(p)
    PROVE  Records'
<1> USE ProcsAre, Bounds, TypeParts DEF recordVars, orderVars, workVars, boundVars, pastVars,
        WorkOK, Goto
<1>1. pc[p] \in Works /\ pc[p] \notin Halving /\ rec[p] \in Messages
    BY InWork DEF IgnoreFind, Works, Halving
<1> SUFFICES ASSUME NEW r \in Messages, r = rec[p] PROVE Records'
    BY <1>1
<1>2. WorksOn(p, r)
    BY <1>1 DEF IgnoreFind, ErrorsOf, Of, WorksOn, SameHand, SameOrder, OrderOf, Works
<1>3. r \notin crossed /\ Sure(p) /\ Removed(r) =>
          Removed(r)' /\ (pc'[p] \in Works => Sure(p)')
    BY <1>1, OfItsRecord DEF IgnoreFind, ErrorsOf, Of, Sure, Removed, Recording, Parting, Splitting, Works
<1>4. r \notin crossed \cup lost' /\ Sure(p) /\ Tells(p) /\ Unique(r) =>
          /\ Unique(r)'
          /\ pc'[p] \in Works => Tells(p)'
          /\ pc'[p] \notin Works => Said(r)'
    BY <1>1, OfItsRecord DEF IgnoreFind, ErrorsOf, Of, Sure, Tells, Halving, Unique, Said, Recording, Parting, Splitting, Works
<1> QED
    BY <1>1, <1>2, <1>3, <1>4, Worked

LEMMA IgnoreDeleteRecords ==
    ASSUME TypeOK, Hands, Goods, Records, NEW p \in Procs, IgnoreDelete(p)
    PROVE  Records'
<1> USE ProcsAre, Bounds, TypeParts DEF recordVars, orderVars, workVars, boundVars, pastVars,
        WorkOK, Goto
<1>1. pc[p] \in Works /\ pc[p] \notin Halving /\ rec[p] \in Messages
    BY InWork DEF IgnoreDelete, Works, Halving
<1> SUFFICES ASSUME NEW r \in Messages, r = rec[p] PROVE Records'
    BY <1>1
<1>2. WorksOn(p, r)
  <2>1. pc[p] = "idelete" /\ Delete(p, "ignored", "isave") /\ "isave" \in Works
    BY DEF IgnoreDelete, Works
  <2>2. PICK o \in doomed[p] :
            /\ OrderOf(o, r) /\ from'[o] = from[o]
            /\ \A u \in Orders \ {o} : SameOrder(u)
            /\ pc'[p] \in {"isave", "idelete"} /\ rec'[p] = r /\ noted' = noted
            /\ status' = status /\ crossed' = crossed /\ lost' = lost
            /\ \A q \in Procs : q # p => SameHand(q)
    BY <1>1, <2>1, OrderRemoved
  <2>3. \A u \in Orders : \A x \in Messages \ {r} :
            OrderOf(u, x) \/ OrderOf(u, x)' => SameOrder(u)
    BY <2>2 DEF OrderOf
  <2> QED
    BY <1>1, <2>2, <2>3 DEF WorksOn
<1>3. r \notin crossed /\ Sure(p) /\ Removed(r) =>
          Removed(r)' /\ (pc'[p] \in Works => Sure(p)')
  <2>1. pc[p] = "idelete" /\ Delete(p, "ignored", "isave") /\ "isave" \in Works
    BY DEF IgnoreDelete, Works
  <2> SUFFICES ASSUME Sure(p), Removed(r) PROVE Removed(r)' /\ Sure(p)'
    OBVIOUS
  <2>2. PICK o \in doomed[p] :
            /\ o \in Orders
            /\ kind[o] \in {"live", "error"} => kind'[o] = "ignored"
            /\ stock'[o] = stock[o] /\ noted' = noted
            /\ \A u \in Orders \ {o} : SameOrder(u)
            /\ doomed'[p] = doomed[p] \ {o}
            /\ pc'[p] = IF doomed[p] = {o} THEN "isave" ELSE pc[p]
            /\ made'[p] = made[p] /\ parts'[p] = parts[p]
    BY <1>1, <2>1, OrderRemoved
  <2>3. /\ kind[o] = "error" /\ made[p] = 0
        /\ \A u \in doomed[p] : kind[u] = "error"
    BY <2>1 DEF Sure, Recording, Parting, Splitting
  <2>4. stock[o] = 0 /\ kind'[o] = "ignored"
    BY <2>2, <2>3 DEF Goods
  <2>5. Removed(r)'
    BY <2>2, <2>3, <2>4 DEF Removed, SameOrder
  <2>6. \A u \in doomed'[p] : u \in Orders \ {o} /\ kind'[u] = "error"
    BY <2>2, <2>3, <1>1, OfItsRecord DEF SameOrder
  <2>7. pc'[p] \in {"isave", "idelete"} /\ made'[p] = 0 /\ parts'[p] = {}
    BY <2>1, <2>2, <2>3 DEF Hands, Hand, Parting, Splitting
  <2>8. Sure(p)'
    BY <2>2, <2>3, <2>6, <2>7 DEF Sure, Recording, Parting, Splitting
  <2> QED
    BY <2>5, <2>8
<1>4. r \notin crossed \cup lost' /\ Sure(p) /\ Tells(p) /\ Unique(r) =>
          /\ Unique(r)'
          /\ pc'[p] \in Works => Tells(p)'
          /\ pc'[p] \notin Works => Said(r)'
  <2>1. pc[p] = "idelete" /\ Delete(p, "ignored", "isave") /\ "isave" \in Works
    BY DEF IgnoreDelete, Works
  <2> SUFFICES ASSUME Sure(p), Tells(p), Unique(r)
               PROVE  Unique(r)' /\ Tells(p)' /\ pc'[p] \in Works
    OBVIOUS
  <2>2. PICK o \in doomed[p] :
            /\ o \in Orders
            /\ kind[o] \in {"live", "error"} => kind'[o] = "ignored"
            /\ \A u \in Orders \ {o} : SameOrder(u)
            /\ doomed'[p] = doomed[p] \ {o}
            /\ pc'[p] = IF doomed[p] = {o} THEN "isave" ELSE pc[p]
            /\ rec'[p] = r /\ was'[p] = was[p] /\ made'[p] = made[p] /\ status' = status
    BY <1>1, <2>1, OrderRemoved
  <2>3. kind'[o] = "ignored"
    BY <2>1, <2>2 DEF Sure
  <2>4. \A u \in Orders : from'[u] = r /\ kind'[u] \in {"live", "error"} =>
            u # o /\ from[u] = r /\ kind[u] = kind'[u] /\ share[u] = share'[u]
    BY <2>2, <2>3 DEF SameOrder
  <2>5. Unique(r)'
    BY <2>4 DEF Unique
  <2>6. made[p] = 0
    BY <2>1 DEF Sure, Recording, Parting, Splitting
  <2>7. \A u \in Orders : from[u] = r => kind[u] # "live"
    BY <2>6, Bounds DEF Tells, Halving
  <2>8. \A u \in Orders : from[u] = r /\ kind[u] = "error" => u \in doomed[p]
    BY <2>1 DEF Tells, Halving
  <2>9. \A u \in Orders : from'[u] = r =>
            kind'[u] # "live" /\ (kind'[u] = "error" => u \in doomed'[p])
    BY <2>2, <2>4, <2>7, <2>8
  <2>10. pc'[p] \in {"isave", "idelete"} /\ (pc'[p] = "process" => doomed'[p] = {})
    BY <2>1, <2>2
  <2>11. Tells(p)'
    BY <2>2, <2>6, <2>9, <2>10 DEF Tells, Halving
  <2> QED
    BY <2>5, <2>10, <2>11 DEF Works
<1> QED
    BY <1>1, <1>2, <1>3, <1>4, Worked

LEMMA IgnoreSaveRecords ==
    ASSUME TypeOK, Hands, Goods, Records, NEW p \in Procs, IgnoreSave(p)
    PROVE  Records'
<1> USE ProcsAre, Bounds, TypeParts DEF recordVars, orderVars, workVars, boundVars, pastVars,
        WorkOK, Goto
<1>1. pc[p] \in Works /\ pc[p] \notin Halving /\ rec[p] \in Messages
    BY InWork DEF IgnoreSave, Works, Halving
<1> SUFFICES ASSUME NEW r \in Messages, r = rec[p] PROVE Records'
    BY <1>1
<1>2. WorksOn(p, r)
  <2>1. \A q \in Procs : q # p => SameHand(q)
    BY FinishFrame DEF IgnoreSave
  <2>2. pc'[p] \notin Works
    BY FinishFrame DEF IgnoreSave
  <2>3. /\ UNCHANGED <<kind, from, share, stock, noted, crossed, lost>>
        /\ \A x \in Messages : x # r => status'[x] = status[x]
    BY DEF IgnoreSave, RecordOK
  <2> QED
    BY <1>1, <2>1, <2>2, <2>3 DEF WorksOn, SameOrder
<1>3. r \notin crossed /\ Sure(p) /\ Removed(r) =>
          Removed(r)' /\ (pc'[p] \in Works => Sure(p)')
  <2>1. pc'[p] \notin Works
    BY FinishFrame DEF IgnoreSave
  <2> QED
    BY <2>1 DEF IgnoreSave, Removed
<1>4. r \notin crossed \cup lost' /\ Sure(p) /\ Tells(p) /\ Unique(r) =>
          /\ Unique(r)'
          /\ pc'[p] \in Works => Tells(p)'
          /\ pc'[p] \notin Works => Said(r)'
  <2> SUFFICES ASSUME Sure(p), Tells(p), Unique(r)
               PROVE  Unique(r)' /\ pc'[p] \notin Works /\ Said(r)'
    OBVIOUS
  <2>1. pc'[p] \notin Works
    BY FinishFrame DEF IgnoreSave
  <2>2. made[p] = 0
    BY DEF IgnoreSave, Sure, Recording, Parting, Splitting
  <2>3. \A o \in Orders : from[o] = r => kind[o] # "live"
    BY <2>2, Bounds DEF Tells, Halving
  <2>4. status'[r] # "order_created"
    BY DEF IgnoreSave, Tells, Halving, RecordOK
  <2>5. UNCHANGED <<kind, from, share>>
    BY DEF IgnoreSave
  <2> QED
    BY <2>1, <2>3, <2>4, <2>5 DEF Said, Unique
<1> QED
    BY <1>1, <1>2, <1>3, <1>4, Worked

LEMMA ApproveClaimRecords ==
    ASSUME TypeOK, Hands, Goods, Records, NEW p \in Procs, ApproveClaim(p)
    PROVE  Records'
<1> USE ProcsAre, Bounds, TypeParts DEF recordVars, orderVars, workVars, boundVars, pastVars,
        WorkOK, Goto
<1>1. pc[p] \in Works /\ pc[p] \notin Halving /\ rec[p] \in Messages
    BY InWork DEF ApproveClaim, Works, Halving
<1> SUFFICES ASSUME NEW r \in Messages, r = rec[p] PROVE Records'
    BY <1>1
<1>2. WorksOn(p, r)
  <2>1. made[p] \in Orders /\ OrderOf(made[p], r)
    BY <1>1, OfItsRecord DEF ApproveClaim, Hands, Hand
  <2>2. \A o \in Orders \ {made[p]} : SameOrder(o)
    <3>1. \A o \in Orders \ {made[p]} : kind'[o] = kind[o]
      BY DEF ApproveClaim, OrderOK
    <3>2. UNCHANGED <<from, share, stock, noted>>
      BY DEF ApproveClaim
    <3> QED
      BY <3>1, <3>2 DEF SameOrder
  <2>3. UNCHANGED <<from, noted, crossed, lost, status>>
    BY DEF ApproveClaim
  <2>4. (\A q \in Procs : q # p => SameHand(q)) /\ (pc'[p] \in Works => rec'[p] = r)
    <3>1. CASE kind[made[p]] = "error"
      BY <3>1 DEF ApproveClaim, SameHand
    <3>2. CASE kind[made[p]] # "error"
      BY <3>2, FinishFrame DEF ApproveClaim
    <3> QED
      BY <3>1, <3>2
  <2>5. \A o \in Orders : \A x \in Messages \ {r} :
            OrderOf(o, x) \/ OrderOf(o, x)' => SameOrder(o)
    BY <2>1, <2>2, <2>3 DEF OrderOf
  <2> QED
    BY <1>1, <2>3, <2>4, <2>5 DEF WorksOn
<1>3. r \notin crossed /\ Sure(p) /\ Removed(r) =>
          Removed(r)' /\ (pc'[p] \in Works => Sure(p)')
  <2> SUFFICES ASSUME Sure(p), Removed(r) PROVE Removed(r)' /\ Sure(p)'
    OBVIOUS
  <2>1. made[p] \in Orders /\ kind[made[p]] = "error"
    BY <1>1, OfItsRecord DEF ApproveClaim, Hands, Hand, Sure
  <2>2. /\ kind' = [kind EXCEPT ![made[p]] = "live"]
        /\ pc'[p] = "split" /\ made'[p] = made[p] /\ parts'[p] = {made[p]}
        /\ UNCHANGED <<from, share, stock, noted>>
    BY <2>1 DEF ApproveClaim
  <2>3. kind'[made[p]] = "live" /\ \A o \in Orders : o # made[p] => kind'[o] = kind[o]
    BY <2>1, <2>2 DEF OrderOK
  <2> QED
    BY <2>1, <2>2, <2>3 DEF Sure, Removed, Recording, Parting, Splitting
<1>4. r \notin crossed \cup lost' /\ Sure(p) /\ Tells(p) /\ Unique(r) =>
          /\ Unique(r)'
          /\ pc'[p] \in Works => Tells(p)'
          /\ pc'[p] \notin Works => Said(r)'
  <2> SUFFICES ASSUME Sure(p), Tells(p), Unique(r)
               PROVE  Unique(r)' /\ Tells(p)' /\ pc'[p] \in Works
    OBVIOUS
  <2>1. made[p] \in Orders /\ kind[made[p]] = "error" /\ from[made[p]] = r
    BY <1>1, OfItsRecord DEF ApproveClaim, Hands, Hand, Sure, OrderOf
  <2>2. /\ kind' = [kind EXCEPT ![made[p]] = "live"]
        /\ pc'[p] = "split" /\ made'[p] = made[p] /\ rec'[p] = r /\ was'[p] = was[p]
        /\ UNCHANGED <<from, status>>
    BY <2>1 DEF ApproveClaim
  <2>3. \A o \in Orders : o # made[p] => kind'[o] = kind[o]
    BY <2>2 DEF OrderOK
  <2>4. \A o \in Orders : from'[o] = r /\ kind'[o] \in {"live", "error"} => o = made[p]
    BY <2>1, <2>2, <2>3 DEF Tells, Halving, ApproveClaim
  <2>5. Unique(r)'
    BY <2>4 DEF Unique
  <2>6. Tells(p)'
    BY <2>2, <2>4 DEF Tells, Halving
  <2> QED
    BY <2>2, <2>5, <2>6 DEF Works
<1> QED
    BY <1>1, <1>2, <1>3, <1>4, Worked

LEMMA MarkRecords ==
    ASSUME TypeOK, Hands, Goods, Records, NEW p \in Procs, Mark(p)
    PROVE  Records'
<1> USE ProcsAre, Bounds, TypeParts DEF recordVars, orderVars, workVars, boundVars, pastVars,
        WorkOK, Goto
<1>1. pc[p] \in Works /\ pc[p] \notin Halving /\ rec[p] \in Messages
    BY InWork DEF Mark, Works, Halving
<1> SUFFICES ASSUME NEW r \in Messages, r = rec[p] PROVE Records'
    BY <1>1
<1>2. WorksOn(p, r)
  <2>1. pc'[p] \notin Works /\ \A q \in Procs : q # p => SameHand(q)
    BY FinishFrame DEF Mark
  <2>2. /\ UNCHANGED <<kind, from, share, stock, noted, crossed, lost>>
        /\ \A x \in Messages : x # r => status'[x] = status[x]
    BY DEF Mark, RecordOK
  <2> QED
    BY <1>1, <2>1, <2>2 DEF WorksOn, SameOrder
<1>3. r \notin crossed /\ Sure(p) /\ Removed(r) =>
          Removed(r)' /\ (pc'[p] \in Works => Sure(p)')
  <2>1. pc'[p] \notin Works
    BY FinishFrame DEF Mark
  <2> QED
    BY <2>1 DEF Mark, Removed
<1>4. r \notin crossed \cup lost' /\ Sure(p) /\ Tells(p) /\ Unique(r) =>
          /\ Unique(r)'
          /\ pc'[p] \in Works => Tells(p)'
          /\ pc'[p] \notin Works => Said(r)'
  <2> SUFFICES ASSUME Sure(p), Tells(p), Unique(r)
               PROVE  Unique(r)' /\ pc'[p] \notin Works /\ Said(r)'
    OBVIOUS
  <2>1. pc'[p] \notin Works
    BY FinishFrame DEF Mark
  <2>2. made[p] \in Orders /\ from[made[p]] = r /\ kind[made[p]] = "live"
    BY <1>1, OfItsRecord DEF Mark, Hands, Hand, Sure, OrderOf
  <2>3. status'[r] = "order_created" /\ UNCHANGED <<kind, from, share>>
    BY DEF Mark, RecordOK
  <2> QED
    BY <2>1, <2>2, <2>3 DEF Said, Unique
<1> QED
    BY <1>1, <1>2, <1>3, <1>4, Worked

LEMMA SaveFailsRecords ==
    ASSUME TypeOK, Hands, Goods, Records, NEW p \in Procs, SaveFails(p)
    PROVE  Records'
<1> USE ProcsAre, Bounds, TypeParts DEF recordVars, orderVars, workVars, boundVars, pastVars,
        WorkOK, Goto
<1>1. pc[p] \in Works /\ pc[p] \notin Halving /\ rec[p] \in Messages
    BY InWork DEF SaveFails, Works, Halving
<1> SUFFICES ASSUME NEW r \in Messages, r = rec[p] PROVE Records'
    BY <1>1
<1>2. WorksOn(p, r)
  <2> SUFFICES (\A q \in Procs : q # p => SameHand(q)) /\ (pc'[p] \in Works => rec'[p] = r)
    BY <1>1 DEF SaveFails, WorksOn, SameOrder
  <2>1. CASE next[p] \in {"failed", "unknown"}
    BY <2>1, FinishFrame DEF SaveFails
  <2>2. CASE next[p] = "order_created"
    <3>1. /\ pc' = [pc EXCEPT ![p] = "existing"] /\ next' = [next EXCEPT ![p] = "failed"]
          /\ UNCHANGED <<rec, copy, was, made, parts, todo, doomed>>
      BY <2>2 DEF SaveFails
    <3> QED
      BY <3>1 DEF SameHand
  <2>3. CASE next[p] = "aside"
    <3>1. next' = [next EXCEPT ![p] = "failed"] /\ UNCHANGED <<pc, rec, copy, was, made, parts, todo, doomed>>
      BY <2>3 DEF SaveFails
    <3> QED
      BY <3>1 DEF SameHand
  <2> QED
    BY <2>1, <2>2, <2>3 DEF SaveFails, Hands, Hand
<1>3. r \notin crossed /\ Sure(p) /\ Removed(r) =>
          Removed(r)' /\ (pc'[p] \in Works => Sure(p)')
  <2> SUFFICES ASSUME Sure(p), Removed(r) PROVE pc'[p] \in Works => Sure(p)'
    BY DEF SaveFails, Removed
  <2>1. CASE next[p] \in {"failed", "unknown"}
    BY <2>1, FinishFrame DEF SaveFails
  <2>2. CASE next[p] = "order_created"
    <3>1. /\ pc' = [pc EXCEPT ![p] = "existing"] /\ next' = [next EXCEPT ![p] = "failed"]
          /\ UNCHANGED <<rec, copy, was, made, parts, todo, doomed>>
      BY <2>2 DEF SaveFails
    <3>2. pc[p] = "save" /\ UNCHANGED <<kind, noted>>
      BY DEF SaveFails
    <3> QED
      BY <3>1, <3>2 DEF Sure, Recording, Parting, Splitting
  <2>3. CASE next[p] = "aside"
    <3>1. next' = [next EXCEPT ![p] = "failed"] /\ UNCHANGED <<pc, rec, copy, was, made, parts, todo, doomed>>
      BY <2>3 DEF SaveFails
    <3>2. pc[p] = "save" /\ UNCHANGED <<kind, noted>>
      BY DEF SaveFails
    <3> QED
      BY <3>1, <3>2 DEF Sure, Recording, Parting, Splitting
  <2> QED
    BY <2>1, <2>2, <2>3 DEF SaveFails, Hands, Hand
<1>4. r \notin crossed \cup lost' /\ Sure(p) /\ Tells(p) /\ Unique(r) =>
          /\ Unique(r)'
          /\ pc'[p] \in Works => Tells(p)'
          /\ pc'[p] \notin Works => Said(r)'
  <2> SUFFICES ASSUME r \notin lost', Sure(p), Tells(p), Unique(r)
               PROVE  IF pc'[p] \in Works THEN Tells(p)' ELSE Said(r)'
    BY DEF SaveFails, Unique
  <2>9. pc[p] = "save" /\ UNCHANGED <<kind, from, share, status>>
    BY DEF SaveFails
  <2>1. CASE next[p] \in {"failed", "unknown"}
    <3>1. made[p] = 0 /\ pc'[p] \notin Works
      BY <2>1, <2>9, FinishFrame DEF SaveFails, Unrecorded, Tells, Halving
    <3>2. \A o \in Orders : from[o] = r => kind[o] # "live"
      BY <3>1, Bounds DEF Tells, Halving
    <3> QED
      BY <2>9, <3>1, <3>2 DEF Said, Tells, Halving
  <2>2. CASE next[p] = "order_created"
    <3>1. /\ pc' = [pc EXCEPT ![p] = "existing"] /\ next' = [next EXCEPT ![p] = "failed"]
          /\ UNCHANGED <<rec, copy, was, made, parts, todo, doomed>>
      BY <2>2 DEF SaveFails
    <3>2. /\ pc'[p] = "existing" /\ made'[p] = made[p] /\ rec'[p] = r /\ was'[p] = was[p]
          /\ made[p] # 0
      BY <2>2, <2>9, <3>1 DEF Tells, Halving
    <3> QED
      BY <2>9, <3>2 DEF Tells, Halving, Works
  <2>3. CASE next[p] = "aside"
    <3>1. next' = [next EXCEPT ![p] = "failed"] /\ UNCHANGED <<pc, rec, copy, was, made, parts, todo, doomed>>
      BY <2>3 DEF SaveFails
    <3>2. /\ pc'[p] = "save" /\ made'[p] = made[p] /\ rec'[p] = r /\ was'[p] = was[p]
          /\ next'[p] = "failed"
      BY <2>9, <3>1
    <3> QED
      BY <2>9, <3>2 DEF Tells, Halving, Works
  <2> QED
    BY <2>1, <2>2, <2>3 DEF SaveFails, Hands, Hand
<1> QED
    BY <1>1, <1>2, <1>3, <1>4, Worked

LEMMA ApproveFailsRecords ==
    ASSUME TypeOK, Hands, Goods, Records, NEW p \in Procs, ApproveFails(p)
    PROVE  Records'
<1> USE ProcsAre, Bounds, TypeParts DEF recordVars, orderVars, workVars, boundVars, pastVars,
        WorkOK, Goto
<1>1. pc[p] \in Works /\ pc[p] \notin Halving /\ rec[p] \in Messages
    BY InWork DEF ApproveFails, Works, Halving
<1> SUFFICES ASSUME NEW r \in Messages, r = rec[p] PROVE Records'
    BY <1>1
<1>2. WorksOn(p, r)
    BY <1>1, FinishFrame DEF ApproveFails, Unrecorded, Error, WorksOn, SameHand, SameOrder, OrderOf, Works
<1>3. r \notin crossed /\ Sure(p) /\ Removed(r) =>
          Removed(r)' /\ (pc'[p] \in Works => Sure(p)')
    BY <1>1, OfItsRecord DEF ApproveFails, Unrecorded, Error, Sure, Removed, Recording, Parting, Splitting, Works, Finish, Ends
<1>4. r \notin crossed \cup lost' /\ Sure(p) /\ Tells(p) /\ Unique(r) =>
          /\ Unique(r)'
          /\ pc'[p] \in Works => Tells(p)'
          /\ pc'[p] \notin Works => Said(r)'
    BY <1>1, OfItsRecord DEF ApproveFails, Unrecorded, Error, Sure, Tells, Halving, Unique, Said, Recording, Parting, Splitting, Works, Finish, Ends
<1> QED
    BY <1>1, <1>2, <1>3, <1>4, Worked

-----------------------------------------------------------------------------
LEMMA NextRecords == TypeOK /\ Hands /\ Goods /\ Records /\ [Next]_vars => Records'
<1> SUFFICES ASSUME TypeOK, Hands, Goods, Records, [Next]_vars
             PROVE  Records'
    OBVIOUS
<1> USE ProcsAre, Bounds, TypeParts DEF recordVars, orderVars, workVars, boundVars, pastVars,
        WorkOK, Goto
<1>1. ASSUME NEW d \in Deliveries, Receive(d) PROVE Records'
  <2>1. UNCHANGED <<kind, from, share, stock, noted, crossed, lost>>
    BY <1>1 DEF Receive
  <2>2. \A x \in Messages : (status'[x] = "order_created") <=> (status[x] = "order_created")
    BY <1>1 DEF Receive
  <2>3. \A q \in Procs : pc[q] \in Works \/ pc'[q] \in Works => SameHand(q)
    BY <1>1 DEF Receive, SameHand, Works
  <2> QED
    BY <2>1, <2>2, <2>3, NoWork
<1>2. ASSUME NEW d \in Deliveries, Look(d) PROVE Records'
  <2>1. UNCHANGED <<kind, from, share, stock, noted, crossed, lost>>
    BY <1>2 DEF Look, Known
  <2>2. \A x \in Messages : (status'[x] = "order_created") <=> (status[x] = "order_created")
    BY <1>2 DEF Look, Known
  <2>3. \A q \in Procs : pc[q] \in Works \/ pc'[q] \in Works => SameHand(q)
    BY <1>2 DEF Look, Known, SameHand, Works
  <2> QED
    BY <2>1, <2>2, <2>3, NoWork
<1>3. ASSUME NEW d \in Deliveries, Append(d) PROVE Records'
  <2>1. UNCHANGED <<kind, from, share, stock, noted, crossed, lost>>
    BY <1>3 DEF Append, Join, Collecting
  <2>2. \A x \in Messages : (status'[x] = "order_created") <=> (status[x] = "order_created")
    BY <1>3 DEF Append, Join, Collecting
  <2>3. \A q \in Procs : pc[q] \in Works \/ pc'[q] \in Works => SameHand(q)
    <3>1. \E s \in {"full", "done", "insert"} : pc' = [pc EXCEPT ![d] = s]
      BY <1>3 DEF Append
    <3>2. /\ pc[d] = "append" /\ \A q \in Procs : q # d => rec'[q] = rec[q]
          /\ UNCHANGED <<made, was, next, parts, doomed>>
      BY <1>3 DEF Append
    <3> QED
      BY <3>1, <3>2 DEF SameHand, Works
  <2> QED
    BY <2>1, <2>2, <2>3, NoWork
<1>4. ASSUME NEW d \in Deliveries, Full(d) PROVE Records'
  <2>1. UNCHANGED <<kind, from, share, stock, noted, crossed, lost>>
    BY <1>4 DEF Full
  <2>2. \A x \in Messages : (status'[x] = "order_created") <=> (status[x] = "order_created")
    BY <1>4 DEF Full
  <2>3. \A q \in Procs : pc[q] \in Works \/ pc'[q] \in Works => SameHand(q)
    BY <1>4 DEF Full, SameHand, Works
  <2> QED
    BY <2>1, <2>2, <2>3, NoWork
<1>5. ASSUME NEW d \in Deliveries, Insert(d) PROVE Records'
  <2>1. UNCHANGED <<kind, from, share, stock, noted, crossed, lost>>
    BY <1>5 DEF Insert, Opened, Collecting
  <2>2. \A x \in Messages : (status'[x] = "order_created") <=> (status[x] = "order_created")
    BY <1>5 DEF Insert, Opened, Collecting, RecordOK
  <2>3. \A q \in Procs : pc[q] \in Works \/ pc'[q] \in Works => SameHand(q)
    BY <1>5 DEF Insert, Opened, Collecting, SameHand, Works
  <2> QED
    BY <2>1, <2>2, <2>3, NoWork
<1>6. ASSUME NEW d \in Deliveries, KnownNow(d) PROVE Records'
  <2>1. UNCHANGED <<kind, from, share, stock, noted, crossed, lost>>
    BY <1>6 DEF KnownNow
  <2>2. \A x \in Messages : (status'[x] = "order_created") <=> (status[x] = "order_created")
    BY <1>6 DEF KnownNow
  <2>3. \A q \in Procs : pc[q] \in Works \/ pc'[q] \in Works => SameHand(q)
    BY <1>6 DEF KnownNow, SameHand, Works
  <2> QED
    BY <2>1, <2>2, <2>3, NoWork
<1>7. ASSUME NEW d \in Deliveries, Again(d) PROVE Records'
  <2>1. UNCHANGED <<kind, from, share, stock, noted, crossed, lost>>
    BY <1>7 DEF Again, Join, Collecting
  <2>2. \A x \in Messages : (status'[x] = "order_created") <=> (status[x] = "order_created")
    BY <1>7 DEF Again, Join, Collecting
  <2>3. \A q \in Procs : pc[q] \in Works \/ pc'[q] \in Works => SameHand(q)
    BY <1>7 DEF Again, Join, Collecting, SameHand, Works
  <2> QED
    BY <2>1, <2>2, <2>3, NoWork
<1>8. ASSUME NEW d \in Deliveries, Single(d) PROVE Records'
  <2> DEFINE r == MessageOf[d]
  <2>1. CASE status[r] = "none"
    <3>1. /\ UNCHANGED <<kind, from, share, stock, noted, lost>> /\ pc[d] \notin Works
          /\ Take(d, r) /\ pc'[d] = "check" /\ rec'[d] = r
          /\ status'[r] = "received" /\ was'[d] = status'[r]
          /\ made'[d] = made[d] /\ doomed'[d] = doomed[d] /\ parts'[d] = {}
          /\ \A q \in Procs : q # d => SameHand(q)
          /\ \A x \in Messages : (status'[x] = "order_created") <=> (status[x] = "order_created")
      BY <1>8, <2>1 DEF Single, Opened, Take, SameHand, Works, RecordOK, Hands, Hand, Parting, Splitting
    <3>2. \A u \in Orders : from[u] = r => kind[u] = "none"
      BY <2>1 DEF Hands, MadeOf, Closed
    <3>3. Sure(d)'
      BY <3>1 DEF Sure, Recording, Parting, Splitting, Hands, Hand
    <3>4. Tells(d)'
      BY <3>1, <3>2 DEF Tells, Halving, Hands, Hand, Halving
    <3> QED
      BY <3>1, <3>3, <3>4, Taken DEF Works, Halving
  <2>2. CASE status[r] # "none"
    <3>1. /\ UNCHANGED <<kind, from, share, stock, noted, crossed, lost, status>>
          /\ \A q \in Procs : pc[q] \in Works \/ pc'[q] \in Works => SameHand(q)
      BY <1>8, <2>2 DEF Single, Opened, Take, SameHand, Works
    <3> QED
      BY <3>1, NoWork
  <2> QED
    BY <2>1, <2>2
<1>9. ASSUME NEW r \in Messages, WindowEnds(r) PROVE Records'
  <2>1. UNCHANGED <<kind, from, share, stock, noted, crossed, lost>>
    BY <1>9 DEF WindowEnds
  <2>2. \A x \in Messages : (status'[x] = "order_created") <=> (status[x] = "order_created")
    BY <1>9 DEF WindowEnds
  <2>3. \A q \in Procs : pc[q] \in Works \/ pc'[q] \in Works => SameHand(q)
    BY <1>9 DEF WindowEnds, SameHand, Works
  <2> QED
    BY <2>1, <2>2, <2>3, NoWork
<1>10. CASE CronFind
  <2>1. UNCHANGED <<kind, from, share, stock, noted, crossed, lost>>
    BY <1>10 DEF CronFind
  <2>2. \A x \in Messages : (status'[x] = "order_created") <=> (status[x] = "order_created")
    BY <1>10 DEF CronFind
  <2>3. \A q \in Procs : pc[q] \in Works \/ pc'[q] \in Works => SameHand(q)
    BY <1>10 DEF CronFind, SameHand, Works
  <2> QED
    BY <2>1, <2>2, <2>3, NoWork
<1>11. ASSUME NEW p \in Procs, NEW r \in Messages, Claim(p, r) PROVE Records'
  <2>1. CASE status[r] = "collecting"
    <3>1. /\ UNCHANGED <<kind, from, share, stock, noted, lost>> /\ pc[p] \notin Works
          /\ Take(p, r) /\ pc'[p] = "check" /\ rec'[p] = r
          /\ status'[r] = "received" /\ was'[p] = status'[r]
          /\ made'[p] = made[p] /\ doomed'[p] = doomed[p] /\ parts'[p] = {}
          /\ \A q \in Procs : q # p => SameHand(q)
          /\ \A x \in Messages : (status'[x] = "order_created") <=> (status[x] = "order_created")
      BY <1>11, <2>1 DEF Claim, Take, SameHand, Works, RecordOK, Hands, Hand, Parting, Splitting
    <3>2. \A u \in Orders : from[u] = r => kind[u] = "none"
      BY <2>1 DEF Hands, MadeOf, Closed
    <3>3. Sure(p)'
      BY <3>1 DEF Sure, Recording, Parting, Splitting, Hands, Hand
    <3>4. Tells(p)'
      BY <3>1, <3>2 DEF Tells, Halving, Hands, Hand, Halving
    <3> QED
      BY <3>1, <3>3, <3>4, Taken DEF Works, Halving
  <2>2. CASE status[r] # "collecting"
    <3>1. /\ UNCHANGED <<kind, from, share, stock, noted, crossed, lost, status>>
          /\ \A q \in Procs : pc[q] \in Works \/ pc'[q] \in Works => SameHand(q)
      BY <1>11, <2>2 DEF Claim, Take, SameHand, Works
    <3> QED
      BY <3>1, NoWork
  <2> QED
    BY <2>1, <2>2
<1>12. ASSUME NEW p \in Procs, Process(p) PROVE Records'
    BY <1>12, ProcessRecords
<1>13. ASSUME NEW p \in Procs, MakeOrder(p) PROVE Records'
    BY <1>13, MakeOrderRecords
<1>14. ASSUME NEW p \in Procs, Stock(p) PROVE Records'
    BY <1>14, StockRecords
<1>15. ASSUME NEW p \in Procs, Existing(p) PROVE Records'
    BY <1>15, ExistingRecords
<1>16. ASSUME NEW p \in Procs, MakeError(p) PROVE Records'
    BY <1>16, MakeErrorRecords
<1>17. ASSUME NEW p \in Procs, Save(p) PROVE Records'
    BY <1>17, SaveRecords
<1>18. ASSUME NEW p \in Procs, ReprocessFind(p) PROVE Records'
    BY <1>18, ReprocessFindRecords
<1>19. ASSUME NEW p \in Procs, ReprocessNotes(p) PROVE Records'
    BY <1>19, ReprocessNotesRecords
<1>20. ASSUME NEW p \in Procs, ReprocessDelete(p) PROVE Records'
    BY <1>20, ReprocessDeleteRecords
<1>21. ASSUME NEW p \in Procs, IgnoreFind(p) PROVE Records'
    BY <1>21, IgnoreFindRecords
<1>22. ASSUME NEW p \in Procs, IgnoreDelete(p) PROVE Records'
    BY <1>22, IgnoreDeleteRecords
<1>23. ASSUME NEW p \in Procs, IgnoreSave(p) PROVE Records'
    BY <1>23, IgnoreSaveRecords
<1>24. ASSUME NEW p \in Procs, ApproveClaim(p) PROVE Records'
    BY <1>24, ApproveClaimRecords
<1>25. ASSUME NEW p \in Procs, Split(p) PROVE Records'
    BY <1>25, SplitRecords
<1>26. ASSUME NEW p \in Procs, Mark(p) PROVE Records'
    BY <1>26, MarkRecords
<1>27. ASSUME NEW p \in Procs, SaveFails(p) PROVE Records'
    BY <1>27, SaveFailsRecords
<1>28. ASSUME NEW p \in Procs, ApproveFails(p) PROVE Records'
    BY <1>28, ApproveFailsRecords
<1>29. ASSUME NEW a \in Admins, NEW r \in Messages, ReleaseNow(a, r) PROVE Records'
  <2>1. UNCHANGED <<kind, from, share, stock, noted, crossed, lost>>
    BY <1>29 DEF ReleaseNow, Act
  <2>2. \A x \in Messages : (status'[x] = "order_created") <=> (status[x] = "order_created")
    BY <1>29 DEF ReleaseNow, Act
  <2>3. \A q \in Procs : pc[q] \in Works \/ pc'[q] \in Works => SameHand(q)
    BY <1>29 DEF ReleaseNow, Act, SameHand, Works
  <2> QED
    BY <2>1, <2>2, <2>3, NoWork
<1>30. ASSUME NEW a \in Admins, NEW r \in Messages, ReprocessRead(a, r) PROVE Records'
  <2>1. CASE status[r] # "collecting"
    <3>1. /\ UNCHANGED <<kind, from, share, stock, noted, lost, status>> /\ pc[a] \notin Works
          /\ Take(a, r) /\ pc'[a] = "find" /\ rec'[a] = r /\ was'[a] = status[r]
          /\ made'[a] = made[a] /\ doomed'[a] = doomed[a] /\ status[r] # "order_created"
          /\ \A q \in Procs : q # a => SameHand(q)
      BY <1>30, <2>1 DEF ReprocessRead, Act, SameHand, Works, Take
    <3>2. made'[a] = 0 /\ doomed'[a] = {} /\ parts'[a] = {}
      BY <1>30, <3>1 DEF ReprocessRead, Hands, Hand, Parting, Splitting, Works
    <3>3. Sure(a)'
      BY <3>1, <3>2 DEF Sure, Recording, Parting, Splitting
    <3>4. Said(r) => \A u \in Orders : from[u] = r => kind[u] # "live"
      BY <3>1 DEF Said
    <3>5. Said(r) => Tells(a)'
      BY <3>1, <3>2, <3>4 DEF Tells, Halving, Halving
    <3> QED
      BY <3>1, <3>3, <3>5, Taken DEF Works, Halving
  <2>2. CASE status[r] = "collecting"
    <3>1. /\ UNCHANGED <<kind, from, share, stock, noted, crossed, lost, status>>
          /\ \A q \in Procs : pc[q] \in Works \/ pc'[q] \in Works => SameHand(q)
      BY <1>30, <2>2 DEF ReprocessRead, Act, SameHand, Works
    <3> QED
      BY <3>1, NoWork
  <2> QED
    BY <2>1, <2>2
<1>31. ASSUME NEW a \in Admins, NEW r \in Messages, IgnoreRead(a, r) PROVE Records'
  <2>1. /\ UNCHANGED <<kind, from, share, stock, noted, lost, status>> /\ pc[a] \notin Works
        /\ Take(a, r) /\ pc'[a] = "ifind" /\ rec'[a] = r /\ was'[a] = status[r]
        /\ made'[a] = made[a] /\ doomed'[a] = doomed[a] /\ status[r] # "order_created"
        /\ \A q \in Procs : q # a => SameHand(q)
    BY <1>31 DEF IgnoreRead, Act, SameHand, Works, Take
  <2>2. made'[a] = 0 /\ doomed'[a] = {} /\ parts'[a] = {}
    BY <1>31, <2>1 DEF IgnoreRead, Hands, Hand, Parting, Splitting, Works
  <2>3. Sure(a)'
    BY <2>1, <2>2 DEF Sure, Recording, Parting, Splitting
  <2>4. Said(r) => \A u \in Orders : from[u] = r => kind[u] # "live"
    BY <2>1 DEF Said
  <2>5. Said(r) => Tells(a)'
    BY <2>1, <2>2, <2>4 DEF Tells, Halving, Halving
  <2> QED
    BY <2>1, <2>3, <2>5, Taken DEF Works, Halving
<1>32. ASSUME NEW a \in Admins, NEW o \in Orders, ApproveRead(a, o) PROVE Records'
  <2> DEFINE r == from[o]
  <2>1. /\ UNCHANGED <<kind, from, share, stock, noted, lost, status>> /\ pc[a] \notin Works
        /\ Take(a, r) /\ pc'[a] = "approve" /\ rec'[a] = r /\ was'[a] = status[r]
        /\ made'[a] = o /\ parts'[a] = parts[a] /\ kind[o] = "error"
        /\ \A q \in Procs : q # a => SameHand(q)
    BY <1>32 DEF ApproveRead, Act, SameHand, Works, Take
  <2>2. r \in Messages
    BY <2>1 DEF Hands, MadeOf, OrderOK
  <2>3. Sure(a)'
    BY <2>1 DEF Sure, Recording, Parting, Splitting, Hands, Hand, Works
  <2>4. ASSUME Unique(r) PROVE \A u \in Orders : from[u] = r /\ kind[u] \in {"live", "error"} => u = o
    <3> SUFFICES ASSUME NEW u \in Orders, from[u] = r, kind[u] \in {"live", "error"}, u # o
                 PROVE  FALSE
      OBVIOUS
    <3>1. share[o] \cap share[u] = {}
      BY <2>1, <2>4 DEF Unique
    <3>2. share[o] = Shares /\ share[u] # {} /\ share[u] \subseteq Shares
      BY <2>1 DEF Goods, OrderOK
    <3> QED
      BY <3>1, <3>2
  <2>5. Unique(r) /\ Said(r) => Tells(a)'
    BY <2>1, <2>4 DEF Tells, Halving, Said
  <2> QED
    BY <2>1, <2>2, <2>3, <2>5, Taken DEF Works, Halving
<1>33. ASSUME NEW o \in Orders, IssueNote(o) PROVE Records'
  <2> SUFFICES ASSUME NEW x \in Messages PROVE Peace(x)' /\ Truth(x)'
    BY DEF Records
  <2>1. /\ UNCHANGED <<status, kind, from, share, stock, pc, rec, made, was, next, parts, doomed, lost>>
        /\ crossed \subseteq crossed' /\ noted' = noted \cup {o} /\ kind[o] = "error"
    BY <1>33 DEF IssueNote
  <2>2. CASE from[o] # x
    <3>1. \A u \in Orders : OrderOf(u, x) \/ OrderOf(u, x)' => SameOrder(u)
      BY <2>1, <2>2 DEF OrderOf, SameOrder
    <3>2. \A q \in Procs : SameHand(q)
      BY <2>1 DEF SameHand
    <3> QED
      BY <2>1, <3>1, <3>2, Elsewhere DEF Records
  <2>3. CASE from[o] = x
    <3>1. x \notin crossed' => x \notin crossed /\ \A q \in Procs : ~At(q, x)
      BY <1>33, <2>3 DEF IssueNote, At
    <3>2. \A q \in Procs : At(q, x)' <=> At(q, x)
      BY <2>1 DEF At
    <3>3. Removed(x) => Removed(x)'
      BY <2>1 DEF Removed
    <3>4. (Unique(x) => Unique(x)') /\ (Said(x) => Said(x)')
      BY <2>1 DEF Unique, Said
    <3>5. Peace(x)'
      BY <3>1, <3>2, <3>3 DEF Records, Peace
    <3>6. Truth(x)'
      BY <2>1, <3>1, <3>2, <3>4 DEF Records, Truth
    <3> QED
      BY <3>5, <3>6
  <2> QED
    BY <2>2, <2>3
<1>34. CASE Crash
  <2> SUFFICES ASSUME NEW x \in Messages PROVE Peace(x)' /\ Truth(x)'
    BY DEF Records
  <2>1. UNCHANGED <<status, kind, from, share, stock, noted, crossed>> /\ lost \subseteq lost'
    BY <1>34 DEF Crash
  <2>2. \A q \in Procs : ~At(q, x)'
    BY <1>34 DEF Crash, At, Works
  <2>3. Peace(x)'
    BY <2>1, <2>2 DEF Records, Peace, Removed
  <2>4. ASSUME x \notin crossed \cup lost' PROVE Unique(x)' /\ Said(x)'
    <3>1. x \notin crossed \cup lost
      BY <2>1, <2>4
    <3>2. ASSUME \A q \in Procs : ~At(q, x) PROVE Unique(x)' /\ Said(x)'
      <4>1. Unique(x) /\ Said(x)
        BY <3>1, <3>2 DEF Records, Truth
      <4> QED
        BY <2>1, <4>1 DEF Unique, Said
    <3>3. ASSUME NEW q \in Procs, At(q, x) PROVE Unique(x)' /\ Said(x)'
      <4>1. /\ Tells(q) /\ Sure(q) /\ rec[q] = x /\ pc[q] \in Works
            /\ pc[q] \notin Halving => Unique(x)
        BY <3>1, <3>3 DEF Records, Peace, Truth, At
      <4>2. made[q] = 0 \/ pc[q] = "approve"
        BY <1>34, <2>4, <4>1 DEF Crash, Unrecorded
      <4>3. pc[q] \notin Halving
        BY <4>2 DEF Hands, Hand, Halving, Parting, Splitting
      <4>4. \A u \in Orders : from[u] = x => kind[u] # "live"
        BY <4>1, <4>2 DEF Tells
      <4>5. status[x] # "order_created"
        BY <4>1 DEF Tells
      <4> QED
        BY <2>1, <4>1, <4>3, <4>4, <4>5 DEF Said, Unique
    <3> QED
      BY <3>2, <3>3
  <2>5. Truth(x)'
    BY <2>1, <2>2, <2>4 DEF Truth
  <2> QED
    BY <2>3, <2>5
<1>35. CASE UNCHANGED vars
  <2>1. /\ UNCHANGED <<kind, from, share, stock, noted, crossed, lost, status>>
        /\ \A q \in Procs : SameHand(q)
    BY <1>35 DEF vars, SameHand
  <2> QED
    BY <2>1, NoWork
<1>36. ASSUME NEW d \in Deliveries, Stranger(d) PROVE Records'
  <2>1. UNCHANGED <<kind, from, share, stock, noted, crossed, lost>>
    BY <1>36 DEF Stranger
  <2>2. \A x \in Messages : (status'[x] = "order_created") <=> (status[x] = "order_created")
    BY <1>36 DEF Stranger, RecordOK
  <2>3. \A q \in Procs : pc[q] \in Works \/ pc'[q] \in Works => SameHand(q)
    BY <1>36 DEF Stranger, SameHand, Works
  <2> QED
    BY <2>1, <2>2, <2>3, NoWork
<1>37. ASSUME NEW d \in Deliveries, Alone(d) PROVE Records'
  <2>1. UNCHANGED <<kind, from, share, stock, noted, crossed, lost>>
    BY <1>37 DEF Alone, Opened
  <2>2. \A x \in Messages : (status'[x] = "order_created") <=> (status[x] = "order_created")
    BY <1>37 DEF Alone, Opened, RecordOK
  <2>3. \A q \in Procs : pc[q] \in Works \/ pc'[q] \in Works => SameHand(q)
    BY <1>37 DEF Alone, Opened, SameHand, Works
  <2> QED
    BY <2>1, <2>2, <2>3, NoWork
<1>38. ASSUME NEW d \in Deliveries, ArriveFails(d) PROVE Records'
  <2>1. UNCHANGED <<kind, from, share, stock, noted, crossed, lost>>
    BY <1>38 DEF ArriveFails, Error, Arrives
  <2>2. \A x \in Messages : (status'[x] = "order_created") <=> (status[x] = "order_created")
    BY <1>38 DEF ArriveFails, Error, Arrives, RecordOK
  <2>3. \A q \in Procs : pc[q] \in Works \/ pc'[q] \in Works => SameHand(q)
    BY <1>38 DEF ArriveFails, Error, Arrives, SameHand, Works
  <2> QED
    BY <2>1, <2>2, <2>3, NoWork
<1>39. ASSUME NEW p \in Procs, Check(p) PROVE Records'
    BY <1>39, CheckRecords
<1>40. ASSUME NEW p \in Procs, CheckFails(p) PROVE Records'
    BY <1>40, CheckFailsRecords
<1>41. ASSUME NEW p \in Procs, Shrink(p) PROVE Records'
    BY <1>41, ShrinkRecords
<1>42. ASSUME NEW p \in Procs, ShrinkFails(p) PROVE Records'
    BY <1>42, ShrinkFailsRecords
<1>43. ASSUME NEW p \in Procs, Unsplit(p) PROVE Records'
    BY <1>43, UnsplitRecords
<1>44. ASSUME NEW p \in Procs, UnsplitFails(p) PROVE Records'
    BY <1>44, UnsplitFailsRecords
<1> QED
    BY <1>1, <1>2, <1>3, <1>4, <1>5, <1>6, <1>7, <1>8, <1>9, <1>10, <1>11,
       <1>12, <1>13, <1>14, <1>15, <1>16, <1>17, <1>18, <1>19, <1>20, <1>21,
       <1>22, <1>23, <1>24, <1>25, <1>26, <1>27, <1>28, <1>29, <1>30, <1>31,
       <1>32, <1>33, <1>34, <1>35, <1>36, <1>37, <1>38, <1>39, <1>40, <1>41,
       <1>42, <1>43, <1>44
       DEF Next, DeliveryStep, WorkStep, Fault, Press

LEMMA RecordsAlways == Spec => [](TypeOK /\ Hands /\ Records)
<1>1. Init => TypeOK /\ Hands /\ Goods /\ Records
    BY InitType, InitHands, InitGoods, InitRecords
<1>2. TypeOK /\ Hands /\ Goods /\ Records /\ [Next]_vars =>
          (TypeOK /\ Hands /\ Goods /\ Records)'
    BY NextType, NextHands, NextGoods, NextRecords
<1> QED
    BY <1>1, <1>2, PTL DEF Spec

(* The goods of a message are ordered once, however often it is read again *)
(* and wherever the process died in between (index.js:549, 1876): no two   *)
(* orders of it that count have goods in common, but for the moment        *)
(* between saving the second and shrinking the first                       *)
(* (disposablesSplit.js:83-115), unless two hands worked on the message at *)
(* once or its order was never recorded.                                   *)
THEOREM OrderedOnce == Spec => []GoodsOrderedOnce
<1>1. TypeOK /\ Hands /\ Records => GoodsOrderedOnce
  <2> SUFFICES ASSUME Records, NEW r \in Messages \ (crossed \cup lost),
                      NEW o \in Of(r, {"live", "error"}), NEW u \in Of(r, {"live", "error"}),
                      o # u, share[o] \cap share[u] # {}
               PROVE  \E p \in Procs : pc[p] \in {"shrink", "unsplit"} /\ parts[p] = {o, u}
    BY DEF GoodsOrderedOnce
  <2>1. /\ o \in Orders /\ from[o] = r /\ kind[o] \in {"live", "error"}
        /\ u \in Orders /\ from[u] = r /\ kind[u] \in {"live", "error"}
    BY DEF Of
  <2>2. ~Unique(r)
    BY <2>1 DEF Unique
  <2>3. PICK p \in Procs : At(p, r) /\ Tells(p) /\ pc[p] \in Halving
    BY <2>2 DEF Records, Truth
  <2>4. PICK t \in Orders :
            /\ parts[p] = {made[p], t}
            /\ \A x \in Orders :
                  from[x] = r /\ kind[x] \in {"live", "error"} => x = made[p] \/ x = t
    BY <2>3 DEF Tells, Halves, At
  <2>5. parts[p] = {o, u}
    BY <2>1, <2>4
  <2> QED
    BY <2>3, <2>5 DEF Halving
<1> QED
    BY <1>1, RecordsAlways, PTL

(* While nobody works on it, a record says that it became an order just    *)
(* when it has a live one, with the same two exceptions.                   *)
THEOREM RecordsTell == Spec => []RecordTellsTheTruth
<1>1. TypeOK /\ Hands /\ Records => RecordTellsTheTruth
  <2> SUFFICES ASSUME Records, NEW r \in Messages \ (crossed \cup lost), ~AtWork(r)
               PROVE  (status[r] = "order_created") <=> (Of(r, {"live"}) # {})
    BY DEF RecordTellsTheTruth
  <2>1. Said(r)
    BY DEF Records, Truth, AtWork, At
  <2> QED
    BY <2>1 DEF Said, Of
<1> QED
    BY <1>1, RecordsAlways, PTL

(* An order that is removed had taken nothing from the stock, be it an     *)
(* error order or the second of a split that failed, and reading a message *)
(* again leaves no note of a removed order to be charged, unless two hands *)
(* worked on the message (index.js:1928-1937, disposablesSplit.js:119).    *)
THEOREM RemovalsAreClean == Spec => []RemovedLeavesNothing
<1>1. TypeOK /\ Hands /\ Records => RemovedLeavesNothing
  <2> SUFFICES ASSUME Hands, TypeOK, Records, NEW o \in Orders,
                      kind[o] \in {"reread", "ignored", "unsplit"}, from[o] \notin crossed
               PROVE  stock[o] = 0 /\ (kind[o] = "reread" => o \notin noted)
    BY DEF RemovedLeavesNothing
  <2>1. from[o] \in Messages
    BY TypeParts DEF Hands, MadeOf, OrderOK
  <2>2. Removed(from[o])
    BY <2>1 DEF Records, Peace
  <2> QED
    BY <2>2 DEF Removed
<1> QED
    BY <1>1, RecordsAlways, PTL
=============================================================================
