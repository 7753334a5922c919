--------------------------- MODULE CheckoutProofs ---------------------------
(***************************************************************************)
(* Proofs about Checkout, for any number of carts, webhooks, failures and  *)
(* crashes.                                                                *)
(***************************************************************************)
EXTENDS Checkout, FiniteSetTheorems, TLAPS

Early    == {"idle", "drop", "check", "save"}
Closing  == {"stock", "coupon", "customer", "claim", "mint", "put", "rollback",
             "finish", "threw"}
Claiming == {"mint", "put", "rollback"}

(* Which order a request is about, and that it was saved.                  *)
Places ==
    /\ \A c \in Carts : target[c] = c
    /\ \A h \in Hooks :
          /\ pc[h] \in Closing \cup {"idle", "done"}
          /\ pc[h] # "idle" => target[h] \in Carts /\ order[target[h]] # "none"
    /\ \A c \in Carts :
          /\ pc[c] \in Early => order[c] = "none"
          /\ pc[c] \in Closing \cup {"read", "page", "alert"} => order[c] # "none"
          /\ c \in ok => order[c] # "none"
          /\ pc[c] = "drop" => victim[c] \in Carts /\ order[victim[c]] # "none"
    /\ \A r \in ok : pc[r] = "done"
    /\ paid \subseteq ok

(* Without payment there are no webhooks, with it no call closes an order. *)
Shop ==
    /\ free => paid = {} /\ \A h \in Hooks : pc[h] = "idle"
    /\ \A c \in Carts :
          /\ ~free => pc[c] \notin Closing \cup {"read"}
          /\ free => pc[c] # "page"

-----------------------------------------------------------------------------
LEMMA CartsAndHooks ==
    /\ \A c \in Carts : c \in Requests /\ c \notin Hooks /\ c # None
    /\ \A h \in Hooks : h \in Requests /\ h \notin Carts
    /\ \A p \in Requests : p \in Carts \/ p \in Hooks
BY CheckoutAssumption DEF Requests

LEMMA ClosesAnOrder ==
    ASSUME Places, NEW p \in Requests, pc[p] \in Closing
    PROVE  target[p] \in Carts /\ order[target[p]] # "none"
BY CartsAndHooks DEF Places, Closing

LEMMA InitType == Init => TypeOK
<1> SUFFICES ASSUME Init PROVE TypeOK
    OBVIOUS
<1>1. target \in [Requests -> Carts \cup {None}]
    BY DEF Init
<1>2. errors \in 0..MaxErrors /\ crashes \in 0..MaxCrashes
    BY CheckoutAssumption DEF Init
<1>3. pc \in [Requests -> RequestSteps]
    BY DEF Init, RequestSteps
<1>4. order \in [Carts -> {"none", "pending", "processing", "deleted"}]
    BY DEF Init
<1> QED
    BY <1>1, <1>2, <1>3, <1>4 DEF Init, TypeOK

(* The bounds of the failures and of the crashes.                          *)
LEMMA Bounds ==
    /\ errors \in 0..MaxErrors /\ MayFail => errors' \in 0..MaxErrors
    /\ crashes \in 0..MaxCrashes /\ crashes < MaxCrashes => crashes + 1 \in 0..MaxCrashes
BY CheckoutAssumption DEF MayFail

LEMMA NextType == TypeOK /\ Places /\ [Next]_vars => TypeOK'
<1> SUFFICES ASSUME TypeOK, Places, [Next]_vars PROVE TypeOK'
    OBVIOUS
<1> USE CartsAndHooks, Bounds DEF TypeOK, RequestSteps, Benefits, Goto,
            requestVars, orderVars, rewardVars, history
<1>1. ASSUME NEW c \in Carts, FindDraft(c) PROVE TypeOK'
    BY <1>1 DEF FindDraft, Drafts
<1>2. ASSUME NEW c \in Carts, DropDraft(c) PROVE TypeOK'
    BY <1>2 DEF DropDraft
<1>3. ASSUME NEW c \in Carts, Refuse(c) PROVE TypeOK'
    BY <1>3 DEF Refuse
<1>4. ASSUME NEW c \in Carts, Accept(c) PROVE TypeOK'
    BY <1>4 DEF Accept
<1>5. ASSUME NEW c \in Carts, SaveOrder(c) PROVE TypeOK'
    BY <1>5 DEF SaveOrder
<1>6. ASSUME NEW c \in Carts, AddOrderFails(c) PROVE TypeOK'
    BY <1>6 DEF AddOrderFails
<1>7. ASSUME NEW c \in Carts, ReadBack(c) PROVE TypeOK'
    BY <1>7 DEF ReadBack
<1>8. ASSUME NEW c \in Carts, PaymentPage(c) PROVE TypeOK'
    BY <1>8 DEF PaymentPage
<1>9. ASSUME NEW c \in Carts, Fallback(c) PROVE TypeOK'
    BY <1>9 DEF Fallback
<1>28. ASSUME NEW c \in Carts, Alert(c) PROVE TypeOK'
    BY <1>28 DEF Alert
<1>10. ASSUME NEW c \in Carts, Pay(c) PROVE TypeOK'
    BY <1>10 DEF Pay
<1>11. ASSUME NEW c \in Carts, Age(c) PROVE TypeOK'
    BY <1>11 DEF Age
<1>12. ASSUME NEW h \in Hooks, WebhookFails(h) PROVE TypeOK'
    BY <1>12 DEF WebhookFails
<1>13. ASSUME NEW h \in Hooks, NEW c \in Carts, Webhook(h, c) PROVE TypeOK'
    BY <1>13 DEF Webhook
<1>14. ASSUME NEW p \in Requests, StatusFails(p) PROVE TypeOK'
    BY <1>14 DEF StatusFails
<1>15. ASSUME NEW p \in Requests, TakeStock(p) PROVE TypeOK'
    BY <1>15 DEF TakeStock
<1>16. ASSUME NEW p \in Requests, MarkCoupon(p) PROVE TypeOK'
    BY <1>16 DEF MarkCoupon
<1>17. ASSUME NEW p \in Requests, CouponFails(p) PROVE TypeOK'
    BY <1>17 DEF CouponFails
<1>18. ASSUME NEW p \in Requests, MarkCustomer(p) PROVE TypeOK'
  <2>1. used' \in SUBSET Benefits /\ hurt' \in SUBSET (Benefits \cup {"reward", "status"})
    BY <1>18 DEF MarkCustomer
  <2>2. errors' \in 0..MaxErrors
    BY <1>18 DEF MarkCustomer
  <2>3. pc' \in [Requests -> RequestSteps]
    BY <1>18 DEF MarkCustomer
  <2>4. /\ UNCHANGED <<free, wants, orderVars, rewardVars, target, victim, giftGone>>
        /\ UNCHANGED <<holds, ok, mail, crashes, overtaken, shared>>
    BY <1>18 DEF MarkCustomer
  <2> QED
    BY <2>1, <2>2, <2>3, <2>4
<1>19. ASSUME NEW p \in Requests, ClaimReward(p) PROVE TypeOK'
  <2>1. target[p] \in Carts
    BY <1>19, ClosesAnOrder DEF ClaimReward, Closing
  <2>2. code[target[p]] \in Nat
    BY <2>1
  <2>3. holds' \in [Requests -> Nat] /\ issued' \in BOOLEAN
    BY <1>19, <2>2 DEF ClaimReward
  <2>4. pc' \in [Requests -> RequestSteps]
    BY <1>19 DEF ClaimReward
  <2> QED
    BY <1>19, <2>3, <2>4 DEF ClaimReward
<1>20. ASSUME NEW p \in Requests, MintReward(p) PROVE TypeOK'
    BY <1>20 DEF MintReward
<1>21. ASSUME NEW p \in Requests, PutCode(p) PROVE TypeOK'
  <2>1. /\ \/ code' = code
           \/ code' = [code EXCEPT ![target[p]] = holds[p]]
        /\ hurt' = hurt \cup {"reward"} \/ hurt' = hurt
    BY <1>21 DEF PutCode
  <2>3. holds[p] \in Nat
    OBVIOUS
  <2>4. code' \in [Carts -> Nat]
    BY <2>1, <2>3
  <2>5. hurt' \in SUBSET (Benefits \cup {"reward", "status"})
    BY <2>1
  <2>2. pc' \in [Requests -> RequestSteps]
    BY <1>21 DEF PutCode
  <2> QED
    BY <1>21, <2>2, <2>4, <2>5 DEF PutCode
<1>22. ASSUME NEW p \in Requests, RewardFails(p) PROVE TypeOK'
    BY <1>22 DEF RewardFails
<1>23. ASSUME NEW p \in Requests, Rollback(p) PROVE TypeOK'
    BY <1>23 DEF Rollback
<1>24. ASSUME NEW p \in Requests, Finish(p) PROVE TypeOK'
  <2>1. target[p] \in Carts
    BY <1>24, ClosesAnOrder DEF Finish, Closing
  <2> QED
    BY <1>24, <2>1 DEF Finish
<1>25. ASSUME NEW p \in Requests, FinishFails(p) PROVE TypeOK'
    BY <1>25 DEF FinishFails
<1>26. ASSUME NEW p \in Requests, Crash(p) PROVE TypeOK'
  <2>1. /\ crashes' \in 0..MaxCrashes
        /\ pc' = [pc EXCEPT ![p] = "done"]
    BY <1>26 DEF Crash
  <2>2. hurt' \in SUBSET (Benefits \cup {"reward", "status"})
    BY <1>26 DEF Crash
  <2>3. mail' \in [Carts -> {"none", "sent", "lost"}]
    BY <1>26 DEF Crash
  <2> QED
    BY <1>26, <2>1, <2>2, <2>3 DEF Crash
<1>27. CASE UNCHANGED vars
    BY <1>27 DEF vars
<1> QED
    BY <1>1, <1>2, <1>3, <1>4, <1>5, <1>6, <1>7, <1>8, <1>9, <1>10, <1>11,
       <1>12, <1>13, <1>14, <1>15, <1>16, <1>17, <1>18, <1>19, <1>20, <1>21,
       <1>22, <1>23, <1>24, <1>25, <1>26, <1>27, <1>28
       DEF Next, AddOrderStep, FinalizeStep

-----------------------------------------------------------------------------
LEMMA InitPlaces == Init => Places /\ Shop
BY CartsAndHooks DEF Init, Places, Shop, Early, Closing

LEMMA NextPlaces == TypeOK /\ Places /\ Shop /\ [Next]_vars => Places'
<1> SUFFICES ASSUME TypeOK, Places, Shop, [Next]_vars PROVE Places'
    OBVIOUS
<1> USE CartsAndHooks DEF TypeOK, Places, Shop, Early, Closing, Goto, MayFail,
            requestVars, orderVars, rewardVars, history
<1>1. ASSUME NEW c \in Carts, FindDraft(c) PROVE Places'
    BY <1>1 DEF FindDraft, Drafts
<1>2. ASSUME NEW c \in Carts, DropDraft(c) PROVE Places'
    BY <1>2 DEF DropDraft
<1>3. ASSUME NEW c \in Carts, Refuse(c) PROVE Places'
    BY <1>3 DEF Refuse
<1>4. ASSUME NEW c \in Carts, Accept(c) PROVE Places'
    BY <1>4 DEF Accept
<1>5. ASSUME NEW c \in Carts, SaveOrder(c) PROVE Places'
    BY <1>5 DEF SaveOrder
<1>6. ASSUME NEW c \in Carts, AddOrderFails(c) PROVE Places'
    BY <1>6 DEF AddOrderFails
<1>7. ASSUME NEW c \in Carts, ReadBack(c) PROVE Places'
    BY <1>7 DEF ReadBack
<1>8. ASSUME NEW c \in Carts, PaymentPage(c) PROVE Places'
    BY <1>8 DEF PaymentPage
<1>9. ASSUME NEW c \in Carts, Fallback(c) PROVE Places'
    BY <1>9 DEF Fallback
<1>28. ASSUME NEW c \in Carts, Alert(c) PROVE Places'
    BY <1>28 DEF Alert
<1>10. ASSUME NEW c \in Carts, Pay(c) PROVE Places'
    BY <1>10 DEF Pay
<1>11. ASSUME NEW c \in Carts, Age(c) PROVE Places'
    BY <1>11 DEF Age, Live
<1>12. ASSUME NEW h \in Hooks, WebhookFails(h) PROVE Places'
    BY <1>12 DEF WebhookFails
<1>13. ASSUME NEW h \in Hooks, NEW c \in Carts, Webhook(h, c) PROVE Places'
    BY <1>13 DEF Webhook
<1>14. ASSUME NEW p \in Requests, StatusFails(p) PROVE Places'
    BY <1>14 DEF StatusFails
<1>15. ASSUME NEW p \in Requests, TakeStock(p) PROVE Places'
    BY <1>15 DEF TakeStock
<1>16. ASSUME NEW p \in Requests, MarkCoupon(p) PROVE Places'
    BY <1>16 DEF MarkCoupon
<1>17. ASSUME NEW p \in Requests, CouponFails(p) PROVE Places'
    BY <1>17 DEF CouponFails
<1>18. ASSUME NEW p \in Requests, MarkCustomer(p) PROVE Places'
    BY <1>18 DEF MarkCustomer
<1>19. ASSUME NEW p \in Requests, ClaimReward(p) PROVE Places'
    BY <1>19 DEF ClaimReward
<1>20. ASSUME NEW p \in Requests, MintReward(p) PROVE Places'
    BY <1>20 DEF MintReward
<1>21. ASSUME NEW p \in Requests, PutCode(p) PROVE Places'
    BY <1>21 DEF PutCode
<1>22. ASSUME NEW p \in Requests, RewardFails(p) PROVE Places'
    BY <1>22 DEF RewardFails
<1>23. ASSUME NEW p \in Requests, Rollback(p) PROVE Places'
    BY <1>23 DEF Rollback
<1>24. ASSUME NEW p \in Requests, Finish(p) PROVE Places'
  <2>1. /\ target[p] \in Carts
        /\ order' = [order EXCEPT ![target[p]] = "processing"]
        /\ ok' = ok \cup {p}
        /\ pc' = [pc EXCEPT ![p] = "done"]
        /\ UNCHANGED <<target, victim, paid>>
    BY <1>24, ClosesAnOrder DEF Finish
  <2>2. \A c \in Carts : pc[c] \in Early => c # target[p]
    BY <1>24 DEF Finish
  <2> QED
    BY <1>24, <2>1, <2>2
<1>25. ASSUME NEW p \in Requests, FinishFails(p) PROVE Places'
    BY <1>25 DEF FinishFails
<1>26. ASSUME NEW p \in Requests, Crash(p) PROVE Places'
    BY <1>26 DEF Crash, Live
<1>27. CASE UNCHANGED vars
    BY <1>27 DEF vars
<1> QED
    BY <1>1, <1>2, <1>3, <1>4, <1>5, <1>6, <1>7, <1>8, <1>9, <1>10, <1>11,
       <1>12, <1>13, <1>14, <1>15, <1>16, <1>17, <1>18, <1>19, <1>20, <1>21,
       <1>22, <1>23, <1>24, <1>25, <1>26, <1>27, <1>28
       DEF Next, AddOrderStep, FinalizeStep

LEMMA NextShop == TypeOK /\ Places /\ Shop /\ [Next]_vars => Shop'
<1> SUFFICES ASSUME TypeOK, Places, Shop, [Next]_vars PROVE Shop'
    OBVIOUS
<1> USE CartsAndHooks DEF TypeOK, Places, Shop, Early, Closing, Goto, MayFail,
            requestVars, orderVars, rewardVars, history
<1>1. ASSUME NEW c \in Carts, FindDraft(c) PROVE Shop'
    BY <1>1 DEF FindDraft, Drafts
<1>2. ASSUME NEW c \in Carts, DropDraft(c) PROVE Shop'
    BY <1>2 DEF DropDraft
<1>3. ASSUME NEW c \in Carts, Refuse(c) PROVE Shop'
    BY <1>3 DEF Refuse
<1>4. ASSUME NEW c \in Carts, Accept(c) PROVE Shop'
    BY <1>4 DEF Accept
<1>5. ASSUME NEW c \in Carts, SaveOrder(c) PROVE Shop'
    BY <1>5 DEF SaveOrder
<1>6. ASSUME NEW c \in Carts, AddOrderFails(c) PROVE Shop'
    BY <1>6 DEF AddOrderFails
<1>7. ASSUME NEW c \in Carts, ReadBack(c) PROVE Shop'
    BY <1>7 DEF ReadBack
<1>8. ASSUME NEW c \in Carts, PaymentPage(c) PROVE Shop'
    BY <1>8 DEF PaymentPage
<1>9. ASSUME NEW c \in Carts, Fallback(c) PROVE Shop'
    BY <1>9 DEF Fallback
<1>28. ASSUME NEW c \in Carts, Alert(c) PROVE Shop'
    BY <1>28 DEF Alert
<1>10. ASSUME NEW c \in Carts, Pay(c) PROVE Shop'
    BY <1>10 DEF Pay
<1>11. ASSUME NEW c \in Carts, Age(c) PROVE Shop'
    BY <1>11 DEF Age, Live
<1>12. ASSUME NEW h \in Hooks, WebhookFails(h) PROVE Shop'
    BY <1>12 DEF WebhookFails
<1>13. ASSUME NEW h \in Hooks, NEW c \in Carts, Webhook(h, c) PROVE Shop'
    BY <1>13 DEF Webhook
<1>14. ASSUME NEW p \in Requests, StatusFails(p) PROVE Shop'
    BY <1>14 DEF StatusFails
<1>15. ASSUME NEW p \in Requests, TakeStock(p) PROVE Shop'
    BY <1>15 DEF TakeStock
<1>16. ASSUME NEW p \in Requests, MarkCoupon(p) PROVE Shop'
    BY <1>16 DEF MarkCoupon
<1>17. ASSUME NEW p \in Requests, CouponFails(p) PROVE Shop'
    BY <1>17 DEF CouponFails
<1>18. ASSUME NEW p \in Requests, MarkCustomer(p) PROVE Shop'
    BY <1>18 DEF MarkCustomer
<1>19. ASSUME NEW p \in Requests, ClaimReward(p) PROVE Shop'
    BY <1>19 DEF ClaimReward
<1>20. ASSUME NEW p \in Requests, MintReward(p) PROVE Shop'
    BY <1>20 DEF MintReward
<1>21. ASSUME NEW p \in Requests, PutCode(p) PROVE Shop'
    BY <1>21 DEF PutCode
<1>22. ASSUME NEW p \in Requests, RewardFails(p) PROVE Shop'
    BY <1>22 DEF RewardFails
<1>23. ASSUME NEW p \in Requests, Rollback(p) PROVE Shop'
    BY <1>23 DEF Rollback
<1>24. ASSUME NEW p \in Requests, Finish(p) PROVE Shop'
    BY <1>24 DEF Finish
<1>25. ASSUME NEW p \in Requests, FinishFails(p) PROVE Shop'
    BY <1>25 DEF FinishFails
<1>26. ASSUME NEW p \in Requests, Crash(p) PROVE Shop'
    BY <1>26 DEF Crash, Live
<1>27. CASE UNCHANGED vars
    BY <1>27 DEF vars
<1> QED
    BY <1>1, <1>2, <1>3, <1>4, <1>5, <1>6, <1>7, <1>8, <1>9, <1>10, <1>11,
       <1>12, <1>13, <1>14, <1>15, <1>16, <1>17, <1>18, <1>19, <1>20, <1>21,
       <1>22, <1>23, <1>24, <1>25, <1>26, <1>27, <1>28
       DEF Next, AddOrderStep, FinalizeStep

LEMMA PlacesAlways == Spec => [](TypeOK /\ Places /\ Shop)
<1>1. Init => TypeOK /\ Places /\ Shop
    BY InitType, InitPlaces
<1>2. TypeOK /\ Places /\ Shop /\ [Next]_vars => (TypeOK /\ Places /\ Shop)'
    BY NextType, NextPlaces, NextShop
<1> QED
    BY <1>1, <1>2, PTL DEF Spec

(* Every variable keeps its type.                                          *)
THEOREM TypeCorrect == Spec => []TypeOK
BY PlacesAlways, PTL

-----------------------------------------------------------------------------
(* AnsweredIsServed.  Without payment the drafts that are dropped belong   *)
(* to calls that ended without success; with it, an answered webhook's     *)
(* order is no draft any more, and nobody is about to drop it.             *)
Told ==
    /\ \A c \in Carts : c \in old => pc[c] = "done"
    /\ \A c \in Carts : free /\ pc[c] = "drop" =>
          pc[victim[c]] = "done" /\ order[victim[c]] \in {"pending", "deleted"}
    /\ \A c \in Carts : free /\ pc[c] # "done" => order[c] # "deleted"
    /\ \A c \in Carts : free /\ (c \in ok \/ pc[c] = "alert") =>
          "status" \in hurt \/ order[c] = "processing"
    /\ \A h \in Hooks : h \in ok /\ target[h] \notin overtaken =>
          /\ order[target[h]] = "processing"
          /\ \A c \in Carts : pc[c] = "drop" => victim[c] # target[h]

LEMMA InitTold == Init => Told
BY CartsAndHooks DEF Init, Told

LEMMA NextTold == TypeOK /\ Places /\ Shop /\ Told /\ [Next]_vars => Told'
<1> SUFFICES ASSUME TypeOK, Places, Shop, Told, [Next]_vars PROVE Told'
    OBVIOUS
<1> USE CartsAndHooks DEF TypeOK, Places, Shop, Told, Early, Closing, Goto, MayFail,
            requestVars, orderVars, rewardVars, history
<1>1. ASSUME NEW c \in Carts, FindDraft(c) PROVE Told'
    BY <1>1 DEF FindDraft, Drafts
<1>2. ASSUME NEW c \in Carts, DropDraft(c) PROVE Told'
    BY <1>2 DEF DropDraft
<1>3. ASSUME NEW c \in Carts, Refuse(c) PROVE Told'
    BY <1>3 DEF Refuse
<1>4. ASSUME NEW c \in Carts, Accept(c) PROVE Told'
    BY <1>4 DEF Accept
<1>5. ASSUME NEW c \in Carts, SaveOrder(c) PROVE Told'
    BY <1>5 DEF SaveOrder
<1>6. ASSUME NEW c \in Carts, AddOrderFails(c) PROVE Told'
    BY <1>6 DEF AddOrderFails
<1>7. ASSUME NEW c \in Carts, ReadBack(c) PROVE Told'
    BY <1>7 DEF ReadBack
<1>8. ASSUME NEW c \in Carts, PaymentPage(c) PROVE Told'
    BY <1>8 DEF PaymentPage
<1>9. ASSUME NEW c \in Carts, Fallback(c) PROVE Told'
    BY <1>9 DEF Fallback
<1>28. ASSUME NEW c \in Carts, Alert(c) PROVE Told'
    BY <1>28 DEF Alert
<1>10. ASSUME NEW c \in Carts, Pay(c) PROVE Told'
    BY <1>10 DEF Pay
<1>11. ASSUME NEW c \in Carts, Age(c) PROVE Told'
    BY <1>11 DEF Age, Live
<1>12. ASSUME NEW h \in Hooks, WebhookFails(h) PROVE Told'
    BY <1>12 DEF WebhookFails
<1>13. ASSUME NEW h \in Hooks, NEW c \in Carts, Webhook(h, c) PROVE Told'
    BY <1>13 DEF Webhook
<1>14. ASSUME NEW p \in Requests, StatusFails(p) PROVE Told'
    BY <1>14 DEF StatusFails
<1>15. ASSUME NEW p \in Requests, TakeStock(p) PROVE Told'
    BY <1>15 DEF TakeStock
<1>16. ASSUME NEW p \in Requests, MarkCoupon(p) PROVE Told'
    BY <1>16 DEF MarkCoupon
<1>17. ASSUME NEW p \in Requests, CouponFails(p) PROVE Told'
    BY <1>17 DEF CouponFails
<1>18. ASSUME NEW p \in Requests, MarkCustomer(p) PROVE Told'
    BY <1>18 DEF MarkCustomer
<1>19. ASSUME NEW p \in Requests, ClaimReward(p) PROVE Told'
    BY <1>19 DEF ClaimReward
<1>20. ASSUME NEW p \in Requests, MintReward(p) PROVE Told'
    BY <1>20 DEF MintReward
<1>21. ASSUME NEW p \in Requests, PutCode(p) PROVE Told'
    BY <1>21 DEF PutCode
<1>22. ASSUME NEW p \in Requests, RewardFails(p) PROVE Told'
    BY <1>22 DEF RewardFails
<1>23. ASSUME NEW p \in Requests, Rollback(p) PROVE Told'
    BY <1>23 DEF Rollback
<1>24. ASSUME NEW p \in Requests, Finish(p) PROVE Told'
  <2>1. /\ target[p] \in Carts
        /\ order[target[p]] \in {"pending", "processing"}
        /\ order' = [order EXCEPT ![target[p]] = "processing"]
        /\ ok' = ok \cup {p}
        /\ pc' = [pc EXCEPT ![p] = "done"]
        /\ pc[p] = "finish"
        /\ UNCHANGED <<free, target, victim, old, hurt>>
    BY <1>24, ClosesAnOrder DEF Finish
  <2>2. \/ overtaken' = overtaken \cup {target[p]}
        \/ /\ overtaken' = overtaken
           /\ \A d \in Carts : pc[d] = "drop" => victim[d] # target[p]
    BY <1>24 DEF Finish
  <2>3. free => p \in Carts /\ target[p] = p
    BY <2>1
  <2> QED
    BY <2>1, <2>2, <2>3
<1>25. ASSUME NEW p \in Requests, FinishFails(p) PROVE Told'
    BY <1>25 DEF FinishFails
<1>26. ASSUME NEW p \in Requests, Crash(p) PROVE Told'
    BY <1>26 DEF Crash, Live
<1>27. CASE UNCHANGED vars
    BY <1>27 DEF vars
<1> QED
    BY <1>1, <1>2, <1>3, <1>4, <1>5, <1>6, <1>7, <1>8, <1>9, <1>10, <1>11,
       <1>12, <1>13, <1>14, <1>15, <1>16, <1>17, <1>18, <1>19, <1>20, <1>21,
       <1>22, <1>23, <1>24, <1>25, <1>26, <1>27, <1>28
       DEF Next, AddOrderStep, FinalizeStep

LEMMA ToldAlways == Spec => []Told
<1>1. TypeOK /\ Places /\ Shop /\ Told /\ [Next]_vars => Told'
    BY NextTold
<1> QED
    BY <1>1, InitTold, PlacesAlways, PTL DEF Spec

(* Whoever was told that the order stands can rely on it, whatever tabs    *)
(* and webhooks run at once, with the exceptions the property names.       *)
THEOREM WhatWasToldStands == Spec => []AnsweredIsServed
<1>1. TypeOK /\ Places /\ Shop /\ Told => AnsweredIsServed
    BY CartsAndHooks DEF TypeOK, Places, Shop, Told, AnsweredIsServed
<1> QED
    BY <1>1, PlacesAlways, ToldAlways, PTL

-----------------------------------------------------------------------------
(* The reward.  One request at most stands between the claim of the flag   *)
(* and its code, and while it does no order has one.                       *)
Rewards ==
    /\ \A p, q \in Requests : pc[p] \in Claiming /\ pc[q] \in Claiming => p = q
    /\ \A p \in Requests : pc[p] \in Claiming => issued /\ \A c \in Carts : code[c] = 0
    /\ \A c, d \in Carts : code[c] # 0 /\ code[d] # 0 => c = d
    /\ \A c \in Carts : code[c] # 0 => issued
    /\ \A p \in Requests :
          /\ pc[p] = "put" => holds[p] # 0
          /\ pc[p] = "rollback" => holds[p] = 0
          /\ pc[p] \in {"stock", "coupon", "customer", "claim", "finish"} /\ holds[p] # 0 =>
                code[target[p]] # 0 \/ order[target[p]] = "deleted"

LEMMA InitRewards == Init => Rewards
BY CartsAndHooks DEF Init, Rewards, Claiming

LEMMA NextRewards == TypeOK /\ Places /\ Rewards /\ [Next]_vars => Rewards'
<1> SUFFICES ASSUME TypeOK, Places, Rewards, [Next]_vars PROVE Rewards'
    OBVIOUS
<1> USE CartsAndHooks DEF TypeOK, Places, Rewards, Early, Closing, Claiming, Goto,
            MayFail, requestVars, orderVars, rewardVars, history
<1>1. ASSUME NEW c \in Carts, FindDraft(c) PROVE Rewards'
    BY <1>1 DEF FindDraft, Drafts
<1>2. ASSUME NEW c \in Carts, DropDraft(c) PROVE Rewards'
    BY <1>2 DEF DropDraft
<1>3. ASSUME NEW c \in Carts, Refuse(c) PROVE Rewards'
    BY <1>3 DEF Refuse
<1>4. ASSUME NEW c \in Carts, Accept(c) PROVE Rewards'
    BY <1>4 DEF Accept
<1>5. ASSUME NEW c \in Carts, SaveOrder(c) PROVE Rewards'
    BY <1>5 DEF SaveOrder
<1>6. ASSUME NEW c \in Carts, AddOrderFails(c) PROVE Rewards'
    BY <1>6 DEF AddOrderFails
<1>7. ASSUME NEW c \in Carts, ReadBack(c) PROVE Rewards'
    BY <1>7 DEF ReadBack
<1>8. ASSUME NEW c \in Carts, PaymentPage(c) PROVE Rewards'
    BY <1>8 DEF PaymentPage
<1>9. ASSUME NEW c \in Carts, Fallback(c) PROVE Rewards'
    BY <1>9 DEF Fallback
<1>28. ASSUME NEW c \in Carts, Alert(c) PROVE Rewards'
    BY <1>28 DEF Alert
<1>10. ASSUME NEW c \in Carts, Pay(c) PROVE Rewards'
    BY <1>10 DEF Pay
<1>11. ASSUME NEW c \in Carts, Age(c) PROVE Rewards'
    BY <1>11 DEF Age, Live
<1>12. ASSUME NEW h \in Hooks, WebhookFails(h) PROVE Rewards'
    BY <1>12 DEF WebhookFails
<1>13. ASSUME NEW h \in Hooks, NEW c \in Carts, Webhook(h, c) PROVE Rewards'
    BY <1>13 DEF Webhook
<1>14. ASSUME NEW p \in Requests, StatusFails(p) PROVE Rewards'
    BY <1>14 DEF StatusFails
<1>15. ASSUME NEW p \in Requests, TakeStock(p) PROVE Rewards'
    BY <1>15 DEF TakeStock
<1>16. ASSUME NEW p \in Requests, MarkCoupon(p) PROVE Rewards'
    BY <1>16 DEF MarkCoupon
<1>17. ASSUME NEW p \in Requests, CouponFails(p) PROVE Rewards'
    BY <1>17 DEF CouponFails
<1>18. ASSUME NEW p \in Requests, MarkCustomer(p) PROVE Rewards'
    BY <1>18 DEF MarkCustomer
<1>19. ASSUME NEW p \in Requests, ClaimReward(p) PROVE Rewards'
  <2>1. target[p] \in Carts
    BY <1>19, ClosesAnOrder DEF ClaimReward
  <2> QED
    BY <1>19, <2>1 DEF ClaimReward
<1>20. ASSUME NEW p \in Requests, MintReward(p) PROVE Rewards'
    BY <1>20 DEF MintReward
<1>21. ASSUME NEW p \in Requests, PutCode(p) PROVE Rewards'
  <2>1. target[p] \in Carts
    BY <1>21, ClosesAnOrder DEF PutCode
  <2> QED
    BY <1>21, <2>1 DEF PutCode
<1>22. ASSUME NEW p \in Requests, RewardFails(p) PROVE Rewards'
    BY <1>22 DEF RewardFails
<1>23. ASSUME NEW p \in Requests, Rollback(p) PROVE Rewards'
    BY <1>23 DEF Rollback
<1>24. ASSUME NEW p \in Requests, Finish(p) PROVE Rewards'
  <2>1. target[p] \in Carts
    BY <1>24, ClosesAnOrder DEF Finish
  <2> QED
    BY <1>24, <2>1 DEF Finish
<1>25. ASSUME NEW p \in Requests, FinishFails(p) PROVE Rewards'
    BY <1>25 DEF FinishFails
<1>26. ASSUME NEW p \in Requests, Crash(p) PROVE Rewards'
    BY <1>26 DEF Crash, Live
<1>27. CASE UNCHANGED vars
    BY <1>27 DEF vars
<1> QED
    BY <1>1, <1>2, <1>3, <1>4, <1>5, <1>6, <1>7, <1>8, <1>9, <1>10, <1>11,
       <1>12, <1>13, <1>14, <1>15, <1>16, <1>17, <1>18, <1>19, <1>20, <1>21,
       <1>22, <1>23, <1>24, <1>25, <1>26, <1>27, <1>28
       DEF Next, AddOrderStep, FinalizeStep

LEMMA NextNotLost == TypeOK /\ Places /\ Rewards /\ RewardNotLost /\ [Next]_vars => RewardNotLost'
<1> SUFFICES ASSUME TypeOK, Places, Rewards, RewardNotLost, [Next]_vars PROVE RewardNotLost'
    OBVIOUS
<1> USE CartsAndHooks DEF TypeOK, Rewards, Claiming, RewardNotLost, Goto, MayFail,
            requestVars, orderVars, rewardVars, history
<1>1. ASSUME NEW c \in Carts, FindDraft(c) PROVE RewardNotLost'
    BY <1>1 DEF FindDraft, Drafts
<1>2. ASSUME NEW c \in Carts, DropDraft(c) PROVE RewardNotLost'
    BY <1>2 DEF DropDraft
<1>3. ASSUME NEW c \in Carts, Refuse(c) PROVE RewardNotLost'
    BY <1>3 DEF Refuse
<1>4. ASSUME NEW c \in Carts, Accept(c) PROVE RewardNotLost'
    BY <1>4 DEF Accept
<1>5. ASSUME NEW c \in Carts, SaveOrder(c) PROVE RewardNotLost'
    BY <1>5 DEF SaveOrder
<1>6. ASSUME NEW c \in Carts, AddOrderFails(c) PROVE RewardNotLost'
    BY <1>6 DEF AddOrderFails
<1>7. ASSUME NEW c \in Carts, ReadBack(c) PROVE RewardNotLost'
    BY <1>7 DEF ReadBack
<1>8. ASSUME NEW c \in Carts, PaymentPage(c) PROVE RewardNotLost'
    BY <1>8 DEF PaymentPage
<1>9. ASSUME NEW c \in Carts, Fallback(c) PROVE RewardNotLost'
    BY <1>9 DEF Fallback
<1>28. ASSUME NEW c \in Carts, Alert(c) PROVE RewardNotLost'
    BY <1>28 DEF Alert
<1>10. ASSUME NEW c \in Carts, Pay(c) PROVE RewardNotLost'
    BY <1>10 DEF Pay
<1>11. ASSUME NEW c \in Carts, Age(c) PROVE RewardNotLost'
    BY <1>11 DEF Age, Live
<1>12. ASSUME NEW h \in Hooks, WebhookFails(h) PROVE RewardNotLost'
    BY <1>12 DEF WebhookFails
<1>13. ASSUME NEW h \in Hooks, NEW c \in Carts, Webhook(h, c) PROVE RewardNotLost'
    BY <1>13 DEF Webhook
<1>14. ASSUME NEW p \in Requests, StatusFails(p) PROVE RewardNotLost'
    BY <1>14 DEF StatusFails
<1>15. ASSUME NEW p \in Requests, TakeStock(p) PROVE RewardNotLost'
    BY <1>15 DEF TakeStock
<1>16. ASSUME NEW p \in Requests, MarkCoupon(p) PROVE RewardNotLost'
    BY <1>16 DEF MarkCoupon
<1>17. ASSUME NEW p \in Requests, CouponFails(p) PROVE RewardNotLost'
    BY <1>17 DEF CouponFails
<1>18. ASSUME NEW p \in Requests, MarkCustomer(p) PROVE RewardNotLost'
    BY <1>18 DEF MarkCustomer
<1>19. ASSUME NEW p \in Requests, ClaimReward(p) PROVE RewardNotLost'
    BY <1>19, ZenonT(60) DEF ClaimReward
<1>20. ASSUME NEW p \in Requests, MintReward(p) PROVE RewardNotLost'
    BY <1>20 DEF MintReward
<1>21. ASSUME NEW p \in Requests, PutCode(p) PROVE RewardNotLost'
  <2>1. target[p] \in Carts
    BY <1>21, ClosesAnOrder DEF PutCode, Closing
  <2> QED
    BY <1>21, <2>1 DEF PutCode
<1>22. ASSUME NEW p \in Requests, RewardFails(p) PROVE RewardNotLost'
    BY <1>22 DEF RewardFails
<1>23. ASSUME NEW p \in Requests, Rollback(p) PROVE RewardNotLost'
    BY <1>23 DEF Rollback
<1>24. ASSUME NEW p \in Requests, Finish(p) PROVE RewardNotLost'
  <2>1. target[p] \in Carts
    BY <1>24, ClosesAnOrder DEF Finish, Closing
  <2> QED
    BY <1>24, <2>1 DEF Finish
<1>25. ASSUME NEW p \in Requests, FinishFails(p) PROVE RewardNotLost'
    BY <1>25 DEF FinishFails
<1>26. ASSUME NEW p \in Requests, Crash(p) PROVE RewardNotLost'
    BY <1>26 DEF Crash, Live
<1>27. CASE UNCHANGED vars
    BY <1>27 DEF vars
<1> QED
    BY <1>1, <1>2, <1>3, <1>4, <1>5, <1>6, <1>7, <1>8, <1>9, <1>10, <1>11,
       <1>12, <1>13, <1>14, <1>15, <1>16, <1>17, <1>18, <1>19, <1>20, <1>21,
       <1>22, <1>23, <1>24, <1>25, <1>26, <1>27, <1>28
       DEF Next, AddOrderStep, FinalizeStep

LEMMA RewardsAlways == Spec => [](Rewards /\ RewardNotLost)
<1>1. Init => Rewards /\ RewardNotLost
    BY InitRewards DEF Init, RewardNotLost
<1>2. TypeOK /\ Places /\ Rewards /\ RewardNotLost /\ [Next]_vars
         => (Rewards /\ RewardNotLost)'
    BY NextRewards, NextNotLost
<1> QED
    BY <1>1, <1>2, PlacesAlways, PTL DEF Spec

(* However many webhooks and tabs close orders at once, and whatever fails *)
(* between the claim of the flag and the code, one order has a reward.     *)
THEOREM OneReward == Spec => []RewardOnce
<1>1. Rewards => RewardOnce
  <2> SUFFICES ASSUME Rewards PROVE Cardinality({c \in Carts : code[c] # 0}) <= 1
    BY DEF RewardOnce
  <2> DEFINE R == {c \in Carts : code[c] # 0}
  <2>1. CASE R = {}
    BY <2>1, FS_EmptySet
  <2>2. ASSUME NEW c \in R PROVE Cardinality(R) <= 1
    <3>1. R = {c}
      BY <2>2 DEF Rewards
    <3>2. Cardinality({c}) = 1
      BY FS_Singleton
    <3> QED
      BY <3>1, <3>2
  <2> QED
    BY <2>1, <2>2
<1> QED
    BY <1>1, RewardsAlways, PTL

(* The flag alone is no reward: the code is there or somebody is about to  *)
(* put it, unless a failure the property names came between.               *)
THEOREM RewardArrives == Spec => []RewardNotLost
BY RewardsAlways, PTL

-----------------------------------------------------------------------------
(* Without payment, a call that is past its coupon has marked it.          *)
Coupons ==
    \A c \in Carts :
        free /\ "coupon" \in wants[c] \ used =>
            pc[c] \notin (Closing \ {"stock", "coupon", "threw"})

LEMMA NextCoupons == TypeOK /\ Places /\ Shop /\ Coupons /\ UndoneIsAlerted /\ [Next]_vars
    => (Coupons /\ UndoneIsAlerted)'
<1> SUFFICES ASSUME TypeOK, Places, Shop, Coupons, UndoneIsAlerted, [Next]_vars
             PROVE  (Coupons /\ UndoneIsAlerted)'
    OBVIOUS
<1> USE CartsAndHooks DEF TypeOK, Places, Shop, Coupons, UndoneIsAlerted, Early, Closing,
            Goto, MayFail, requestVars, orderVars, rewardVars, history
<1>1. ASSUME NEW c \in Carts, FindDraft(c) PROVE (Coupons /\ UndoneIsAlerted)'
    BY <1>1 DEF FindDraft, Drafts
<1>2. ASSUME NEW c \in Carts, DropDraft(c) PROVE (Coupons /\ UndoneIsAlerted)'
    BY <1>2 DEF DropDraft
<1>3. ASSUME NEW c \in Carts, Refuse(c) PROVE (Coupons /\ UndoneIsAlerted)'
    BY <1>3 DEF Refuse
<1>4. ASSUME NEW c \in Carts, Accept(c) PROVE (Coupons /\ UndoneIsAlerted)'
    BY <1>4 DEF Accept
<1>5. ASSUME NEW c \in Carts, SaveOrder(c) PROVE (Coupons /\ UndoneIsAlerted)'
    BY <1>5 DEF SaveOrder
<1>6. ASSUME NEW c \in Carts, AddOrderFails(c) PROVE (Coupons /\ UndoneIsAlerted)'
    BY <1>6 DEF AddOrderFails
<1>7. ASSUME NEW c \in Carts, ReadBack(c) PROVE (Coupons /\ UndoneIsAlerted)'
    BY <1>7 DEF ReadBack
<1>8. ASSUME NEW c \in Carts, PaymentPage(c) PROVE (Coupons /\ UndoneIsAlerted)'
    BY <1>8 DEF PaymentPage
<1>9. ASSUME NEW c \in Carts, Fallback(c) PROVE (Coupons /\ UndoneIsAlerted)'
    BY <1>9 DEF Fallback
<1>28. ASSUME NEW c \in Carts, Alert(c) PROVE (Coupons /\ UndoneIsAlerted)'
    BY <1>28 DEF Alert
<1>10. ASSUME NEW c \in Carts, Pay(c) PROVE (Coupons /\ UndoneIsAlerted)'
    BY <1>10 DEF Pay
<1>11. ASSUME NEW c \in Carts, Age(c) PROVE (Coupons /\ UndoneIsAlerted)'
    BY <1>11 DEF Age, Live
<1>12. ASSUME NEW h \in Hooks, WebhookFails(h) PROVE (Coupons /\ UndoneIsAlerted)'
    BY <1>12 DEF WebhookFails
<1>13. ASSUME NEW h \in Hooks, NEW c \in Carts, Webhook(h, c) PROVE (Coupons /\ UndoneIsAlerted)'
    BY <1>13 DEF Webhook
<1>14. ASSUME NEW p \in Requests, StatusFails(p) PROVE (Coupons /\ UndoneIsAlerted)'
    BY <1>14 DEF StatusFails
<1>15. ASSUME NEW p \in Requests, TakeStock(p) PROVE (Coupons /\ UndoneIsAlerted)'
    BY <1>15 DEF TakeStock
<1>16. ASSUME NEW p \in Requests, MarkCoupon(p) PROVE (Coupons /\ UndoneIsAlerted)'
    BY <1>16 DEF MarkCoupon
<1>17. ASSUME NEW p \in Requests, CouponFails(p) PROVE (Coupons /\ UndoneIsAlerted)'
    BY <1>17 DEF CouponFails
<1>18. ASSUME NEW p \in Requests, MarkCustomer(p) PROVE (Coupons /\ UndoneIsAlerted)'
    BY <1>18 DEF MarkCustomer
<1>19. ASSUME NEW p \in Requests, ClaimReward(p) PROVE (Coupons /\ UndoneIsAlerted)'
    BY <1>19 DEF ClaimReward
<1>20. ASSUME NEW p \in Requests, MintReward(p) PROVE (Coupons /\ UndoneIsAlerted)'
    BY <1>20 DEF MintReward
<1>21. ASSUME NEW p \in Requests, PutCode(p) PROVE (Coupons /\ UndoneIsAlerted)'
    BY <1>21 DEF PutCode
<1>22. ASSUME NEW p \in Requests, RewardFails(p) PROVE (Coupons /\ UndoneIsAlerted)'
    BY <1>22 DEF RewardFails
<1>23. ASSUME NEW p \in Requests, Rollback(p) PROVE (Coupons /\ UndoneIsAlerted)'
    BY <1>23 DEF Rollback
<1>24. ASSUME NEW p \in Requests, Finish(p) PROVE (Coupons /\ UndoneIsAlerted)'
    BY <1>24 DEF Finish
<1>25. ASSUME NEW p \in Requests, FinishFails(p) PROVE (Coupons /\ UndoneIsAlerted)'
    BY <1>25 DEF FinishFails
<1>26. ASSUME NEW p \in Requests, Crash(p) PROVE (Coupons /\ UndoneIsAlerted)'
    BY <1>26 DEF Crash, Live
<1>27. CASE UNCHANGED vars
    BY <1>27 DEF vars
<1> QED
    BY <1>1, <1>2, <1>3, <1>4, <1>5, <1>6, <1>7, <1>8, <1>9, <1>10, <1>11,
       <1>12, <1>13, <1>14, <1>15, <1>16, <1>17, <1>18, <1>19, <1>20, <1>21,
       <1>22, <1>23, <1>24, <1>25, <1>26, <1>27, <1>28
       DEF Next, AddOrderStep, FinalizeStep

(* Without payment, no order reaches the staff with its coupon unmarked    *)
(* and nobody told.                                                        *)
THEOREM UnmarkedIsReported == Spec => []UndoneIsAlerted
<1>1. Init => Coupons /\ UndoneIsAlerted
    BY CartsAndHooks DEF Init, Coupons, UndoneIsAlerted, Closing
<1>2. TypeOK /\ Places /\ Shop /\ Coupons /\ UndoneIsAlerted /\ [Next]_vars
         => (Coupons /\ UndoneIsAlerted)'
    BY NextCoupons
<1>3. Spec => [](Coupons /\ UndoneIsAlerted)
    BY <1>1, <1>2, PlacesAlways, PTL DEF Spec
<1> QED
    BY <1>3, PTL

-----------------------------------------------------------------------------
(* The stock.  Without payment the one call of an order takes it once;     *)
(* with it, each webhook that is past that step took it once at most.      *)
Past(c) == {h \in Hooks : target[h] = c /\ pc[h] \notin {"idle", "stock"}}

TakenByCall ==
    free => \A c \in Carts :
        /\ taken[c] <= 1
        /\ pc[c] \in Early \cup {"read", "stock"} => taken[c] = 0

TakenByHooks == ~free => \A c \in Carts : taken[c] <= Cardinality(Past(c))

LEMMA PastIsFinite ==
    \A c \in Carts : IsFiniteSet(Past(c)) /\ Cardinality(Past(c)) \in Nat
<1> TAKE c \in Carts
<1>1. IsFiniteSet(Hooks) /\ Past(c) \subseteq Hooks
    BY CheckoutAssumption DEF Past
<1>2. IsFiniteSet(Past(c))
    BY <1>1, FS_Subset
<1> QED
    BY <1>2, FS_CardinalityType

LEMMA NextByCall == TypeOK /\ Places /\ Shop /\ TakenByCall /\ [Next]_vars => TakenByCall'
<1> SUFFICES ASSUME TypeOK, Places, Shop, TakenByCall, [Next]_vars PROVE TakenByCall'
    OBVIOUS
<1> USE CartsAndHooks DEF TypeOK, Places, Shop, TakenByCall, Early, Closing, Goto, MayFail,
            requestVars, orderVars, rewardVars, history
<1>1. ASSUME NEW c \in Carts, FindDraft(c) PROVE TakenByCall'
    BY <1>1 DEF FindDraft, Drafts
<1>2. ASSUME NEW c \in Carts, DropDraft(c) PROVE TakenByCall'
    BY <1>2 DEF DropDraft
<1>3. ASSUME NEW c \in Carts, Refuse(c) PROVE TakenByCall'
    BY <1>3 DEF Refuse
<1>4. ASSUME NEW c \in Carts, Accept(c) PROVE TakenByCall'
    BY <1>4 DEF Accept
<1>5. ASSUME NEW c \in Carts, SaveOrder(c) PROVE TakenByCall'
    BY <1>5 DEF SaveOrder
<1>6. ASSUME NEW c \in Carts, AddOrderFails(c) PROVE TakenByCall'
    BY <1>6 DEF AddOrderFails
<1>7. ASSUME NEW c \in Carts, ReadBack(c) PROVE TakenByCall'
    BY <1>7 DEF ReadBack
<1>8. ASSUME NEW c \in Carts, PaymentPage(c) PROVE TakenByCall'
    BY <1>8 DEF PaymentPage
<1>9. ASSUME NEW c \in Carts, Fallback(c) PROVE TakenByCall'
    BY <1>9 DEF Fallback
<1>28. ASSUME NEW c \in Carts, Alert(c) PROVE TakenByCall'
    BY <1>28 DEF Alert
<1>10. ASSUME NEW c \in Carts, Pay(c) PROVE TakenByCall'
    BY <1>10 DEF Pay
<1>11. ASSUME NEW c \in Carts, Age(c) PROVE TakenByCall'
    BY <1>11 DEF Age, Live
<1>12. ASSUME NEW h \in Hooks, WebhookFails(h) PROVE TakenByCall'
    BY <1>12 DEF WebhookFails
<1>13. ASSUME NEW h \in Hooks, NEW c \in Carts, Webhook(h, c) PROVE TakenByCall'
    BY <1>13 DEF Webhook
<1>14. ASSUME NEW p \in Requests, StatusFails(p) PROVE TakenByCall'
    BY <1>14 DEF StatusFails
<1>15. ASSUME NEW p \in Requests, TakeStock(p) PROVE TakenByCall'
  <2>1. CASE free
    <3>1. p \in Carts /\ target[p] = p /\ taken[p] = 0
      BY <1>15, <2>1 DEF TakeStock
    <3> QED
      BY <1>15, <3>1 DEF TakeStock
  <2>2. CASE ~free
    BY <1>15, <2>2 DEF TakeStock
  <2> QED
    BY <2>1, <2>2
<1>16. ASSUME NEW p \in Requests, MarkCoupon(p) PROVE TakenByCall'
    BY <1>16 DEF MarkCoupon
<1>17. ASSUME NEW p \in Requests, CouponFails(p) PROVE TakenByCall'
    BY <1>17 DEF CouponFails
<1>18. ASSUME NEW p \in Requests, MarkCustomer(p) PROVE TakenByCall'
    BY <1>18 DEF MarkCustomer
<1>19. ASSUME NEW p \in Requests, ClaimReward(p) PROVE TakenByCall'
    BY <1>19 DEF ClaimReward
<1>20. ASSUME NEW p \in Requests, MintReward(p) PROVE TakenByCall'
    BY <1>20 DEF MintReward
<1>21. ASSUME NEW p \in Requests, PutCode(p) PROVE TakenByCall'
    BY <1>21 DEF PutCode
<1>22. ASSUME NEW p \in Requests, RewardFails(p) PROVE TakenByCall'
    BY <1>22 DEF RewardFails
<1>23. ASSUME NEW p \in Requests, Rollback(p) PROVE TakenByCall'
    BY <1>23 DEF Rollback
<1>24. ASSUME NEW p \in Requests, Finish(p) PROVE TakenByCall'
    BY <1>24 DEF Finish
<1>25. ASSUME NEW p \in Requests, FinishFails(p) PROVE TakenByCall'
    BY <1>25 DEF FinishFails
<1>26. ASSUME NEW p \in Requests, Crash(p) PROVE TakenByCall'
    BY <1>26 DEF Crash, Live
<1>27. CASE UNCHANGED vars
    BY <1>27 DEF vars
<1> QED
    BY <1>1, <1>2, <1>3, <1>4, <1>5, <1>6, <1>7, <1>8, <1>9, <1>10, <1>11,
       <1>12, <1>13, <1>14, <1>15, <1>16, <1>17, <1>18, <1>19, <1>20, <1>21,
       <1>22, <1>23, <1>24, <1>25, <1>26, <1>27, <1>28
       DEF Next, AddOrderStep, FinalizeStep

(* No webhook comes back from behind the stock.                            *)
PastGrows == \A c \in Carts : Past(c) \subseteq Past(c)'

LEMMA NextPast == TypeOK /\ Places /\ [Next]_vars => PastGrows
<1> SUFFICES ASSUME TypeOK, Places, [Next]_vars PROVE PastGrows
    OBVIOUS
<1> USE CartsAndHooks DEF TypeOK, Places, PastGrows, Past, Closing, Early, Goto, MayFail,
            requestVars, orderVars, rewardVars, history
<1>1. ASSUME NEW c \in Carts, FindDraft(c) PROVE PastGrows
    BY <1>1 DEF FindDraft, Drafts
<1>2. ASSUME NEW c \in Carts, DropDraft(c) PROVE PastGrows
    BY <1>2 DEF DropDraft
<1>3. ASSUME NEW c \in Carts, Refuse(c) PROVE PastGrows
    BY <1>3 DEF Refuse
<1>4. ASSUME NEW c \in Carts, Accept(c) PROVE PastGrows
    BY <1>4 DEF Accept
<1>5. ASSUME NEW c \in Carts, SaveOrder(c) PROVE PastGrows
    BY <1>5 DEF SaveOrder
<1>6. ASSUME NEW c \in Carts, AddOrderFails(c) PROVE PastGrows
    BY <1>6 DEF AddOrderFails
<1>7. ASSUME NEW c \in Carts, ReadBack(c) PROVE PastGrows
    BY <1>7 DEF ReadBack
<1>8. ASSUME NEW c \in Carts, PaymentPage(c) PROVE PastGrows
    BY <1>8 DEF PaymentPage
<1>9. ASSUME NEW c \in Carts, Fallback(c) PROVE PastGrows
    BY <1>9 DEF Fallback
<1>28. ASSUME NEW c \in Carts, Alert(c) PROVE PastGrows
    BY <1>28 DEF Alert
<1>10. ASSUME NEW c \in Carts, Pay(c) PROVE PastGrows
    BY <1>10 DEF Pay
<1>11. ASSUME NEW c \in Carts, Age(c) PROVE PastGrows
    BY <1>11 DEF Age, Live
<1>12. ASSUME NEW h \in Hooks, WebhookFails(h) PROVE PastGrows
    BY <1>12 DEF WebhookFails
<1>13. ASSUME NEW h \in Hooks, NEW c \in Carts, Webhook(h, c) PROVE PastGrows
    BY <1>13 DEF Webhook
<1>14. ASSUME NEW p \in Requests, StatusFails(p) PROVE PastGrows
    BY <1>14 DEF StatusFails
<1>15. ASSUME NEW p \in Requests, TakeStock(p) PROVE PastGrows
    BY <1>15 DEF TakeStock
<1>16. ASSUME NEW p \in Requests, MarkCoupon(p) PROVE PastGrows
    BY <1>16 DEF MarkCoupon
<1>17. ASSUME NEW p \in Requests, CouponFails(p) PROVE PastGrows
    BY <1>17 DEF CouponFails
<1>18. ASSUME NEW p \in Requests, MarkCustomer(p) PROVE PastGrows
    BY <1>18 DEF MarkCustomer
<1>19. ASSUME NEW p \in Requests, ClaimReward(p) PROVE PastGrows
    BY <1>19 DEF ClaimReward
<1>20. ASSUME NEW p \in Requests, MintReward(p) PROVE PastGrows
    BY <1>20 DEF MintReward
<1>21. ASSUME NEW p \in Requests, PutCode(p) PROVE PastGrows
    BY <1>21 DEF PutCode
<1>22. ASSUME NEW p \in Requests, RewardFails(p) PROVE PastGrows
    BY <1>22 DEF RewardFails
<1>23. ASSUME NEW p \in Requests, Rollback(p) PROVE PastGrows
    BY <1>23 DEF Rollback
<1>24. ASSUME NEW p \in Requests, Finish(p) PROVE PastGrows
    BY <1>24 DEF Finish
<1>25. ASSUME NEW p \in Requests, FinishFails(p) PROVE PastGrows
    BY <1>25 DEF FinishFails
<1>26. ASSUME NEW p \in Requests, Crash(p) PROVE PastGrows
    BY <1>26 DEF Crash, Live
<1>27. CASE UNCHANGED vars
    BY <1>27 DEF vars
<1> QED
    BY <1>1, <1>2, <1>3, <1>4, <1>5, <1>6, <1>7, <1>8, <1>9, <1>10, <1>11,
       <1>12, <1>13, <1>14, <1>15, <1>16, <1>17, <1>18, <1>19, <1>20, <1>21,
       <1>22, <1>23, <1>24, <1>25, <1>26, <1>27, <1>28
       DEF Next, AddOrderStep, FinalizeStep

(* A webhook takes the stock when it joins those that are past it.         *)
LEMMA TakesOnJoining ==
    ASSUME TypeOK, Places, Shop, ~free, [Next]_vars, NEW c \in Carts
    PROVE  \/ taken'[c] = taken[c]
           \/ /\ taken'[c] = taken[c] + 1
              /\ \E h \in Hooks : h \notin Past(c) /\ h \in Past(c)'
<1> USE DEF TypeOK, requestVars, orderVars, rewardVars, history
<1>1. CASE taken' = taken
    BY <1>1
<1>2. ASSUME NEW p \in Requests, TakeStock(p) PROVE
           \/ taken'[c] = taken[c]
           \/ /\ taken'[c] = taken[c] + 1
              /\ \E h \in Hooks : h \notin Past(c) /\ h \in Past(c)'
  <2>1. p \in Hooks
    BY <1>2, CartsAndHooks DEF TakeStock, Shop, Closing
  <2>2. pc[p] = "stock" /\ pc'[p] # "stock" /\ pc'[p] # "idle" /\ target' = target
    BY <1>2, <2>1, CartsAndHooks DEF TakeStock, Goto
  <2>3. taken' = taken \/ taken' = [taken EXCEPT ![target[p]] = @ + 1]
    BY <1>2 DEF TakeStock
  <2>4. target[p] = c => p \notin Past(c) /\ p \in Past(c)'
    BY <2>1, <2>2 DEF Past
  <2> QED
    BY <2>1, <2>3, <2>4
<1>3. taken' = taken \/ \E p \in Requests : TakeStock(p)
  <2> USE DEF AddOrderStep, FinalizeStep, vars
  <2>1. CASE UNCHANGED vars
    BY <2>1
  <2>2. ASSUME NEW d \in Carts, AddOrderStep(d) \/ Pay(d) \/ Age(d) PROVE taken' = taken
    BY <2>2 DEF FindDraft, DropDraft, Refuse, Accept, SaveOrder, AddOrderFails, ReadBack,
                PaymentPage, Fallback, Alert, Pay, Age
  <2>3. ASSUME NEW h \in Hooks, WebhookFails(h) \/ \E d \in Carts : Webhook(h, d)
        PROVE  taken' = taken
    BY <2>3 DEF WebhookFails, Webhook
  <2>4. ASSUME NEW p \in Requests, FinalizeStep(p), ~TakeStock(p) PROVE taken' = taken
    BY <2>4 DEF StatusFails, MarkCoupon, CouponFails, MarkCustomer, ClaimReward, MintReward,
                PutCode, RewardFails, Rollback, Finish, FinishFails
  <2>5. ASSUME NEW p \in Requests, Crash(p) PROVE taken' = taken
    BY <2>5 DEF Crash
  <2> QED
    BY <2>1, <2>2, <2>3, <2>4, <2>5 DEF Next
<1> QED
    BY <1>1, <1>2, <1>3

LEMMA FreeStays == [Next]_vars => free' = free
<1> SUFFICES ASSUME [Next]_vars PROVE free' = free
    OBVIOUS
<1>1. ASSUME NEW c \in Carts, AddOrderStep(c) \/ Pay(c) \/ Age(c) PROVE free' = free
    BY <1>1 DEF AddOrderStep, FindDraft, DropDraft, Refuse, Accept, SaveOrder,
                AddOrderFails, ReadBack, PaymentPage, Fallback, Alert, Pay, Age
<1>2. ASSUME NEW h \in Hooks, WebhookFails(h) \/ \E c \in Carts : Webhook(h, c)
      PROVE  free' = free
    BY <1>2 DEF WebhookFails, Webhook
<1>3. ASSUME NEW p \in Requests, FinalizeStep(p) \/ Crash(p) PROVE free' = free
    BY <1>3 DEF FinalizeStep, StatusFails, TakeStock, MarkCoupon, CouponFails, MarkCustomer,
                ClaimReward, MintReward, PutCode, RewardFails, Rollback, Finish, FinishFails,
                Crash
<1>4. CASE UNCHANGED vars
    BY <1>4 DEF vars
<1> QED
    BY <1>1, <1>2, <1>3, <1>4 DEF Next

LEMMA NextByHooks ==
    TypeOK /\ Places /\ Shop /\ TakenByHooks /\ [Next]_vars => TakenByHooks'
<1> SUFFICES ASSUME TypeOK, Places, Shop, TakenByHooks, [Next]_vars, ~free,
                    NEW c \in Carts
             PROVE  taken'[c] <= Cardinality(Past(c)')
    BY FreeStays DEF TakenByHooks
<1>1. Past(c) \subseteq Past(c)'
    BY NextPast DEF PastGrows
<1>2. IsFiniteSet(Past(c)')
  <2>1. IsFiniteSet(Hooks) /\ Past(c)' \subseteq Hooks
    BY CheckoutAssumption DEF Past
  <2> QED
    BY <2>1, FS_Subset
<1>3. taken[c] \in Nat /\ taken[c] <= Cardinality(Past(c))
    BY DEF TypeOK, TakenByHooks
<1>4. Cardinality(Past(c)) \in Nat /\ Cardinality(Past(c)') \in Nat
    BY <1>2, PastIsFinite, FS_CardinalityType
<1>5. CASE taken'[c] = taken[c]
  <2>1. Cardinality(Past(c)) <= Cardinality(Past(c)')
    BY <1>1, <1>2, FS_Subset
  <2> QED
    BY <1>3, <1>4, <1>5, <2>1
<1>6. CASE /\ taken'[c] = taken[c] + 1
           /\ \E h \in Hooks : h \notin Past(c) /\ h \in Past(c)'
  <2>1. Past(c) # Past(c)'
    BY <1>6
  <2>2. Cardinality(Past(c)) < Cardinality(Past(c)')
    BY <1>1, <1>2, <1>4, <2>1, FS_Subset
  <2> QED
    BY <1>3, <1>4, <1>6, <2>2
<1> QED
    BY <1>5, <1>6, TakesOnJoining

(* However often webhooks are repeated and whatever fails while an order   *)
(* is closed, its stock goes down once for each webhook at most, and once  *)
(* without payment.                                                        *)
THEOREM StockPerWebhook == Spec => []StockOnce
<1>1. Init => TakenByCall /\ TakenByHooks
  <2> SUFFICES ASSUME Init PROVE TakenByCall /\ TakenByHooks
    OBVIOUS
  <2>1. \A c \in Carts : taken[c] = 0
    BY DEF Init
  <2> QED
    BY <2>1, PastIsFinite DEF TakenByCall, TakenByHooks
<1>2. TypeOK /\ Places /\ Shop /\ TakenByCall /\ TakenByHooks /\ [Next]_vars
         => (TakenByCall /\ TakenByHooks)'
    BY NextByCall, NextByHooks
<1>3. Spec => [](TakenByCall /\ TakenByHooks)
    BY <1>1, <1>2, PlacesAlways, PTL DEF Spec
<1>4. TypeOK /\ TakenByCall /\ TakenByHooks => StockOnce
  <2> SUFFICES ASSUME TypeOK, TakenByCall, TakenByHooks, NEW c \in Carts
               PROVE  taken[c] <= IF free THEN 1 ELSE Cardinality({h \in Hooks : target[h] = c})
    BY DEF StockOnce
  <2> DEFINE Of(o) == {h \in Hooks : target[h] = o}
  <2>1. CASE free
    BY <2>1 DEF TakenByCall
  <2>2. CASE ~free
    <3>1. IsFiniteSet(Hooks) /\ Of(c) \subseteq Hooks
      BY CheckoutAssumption
    <3>2. IsFiniteSet(Of(c))
      BY <3>1, FS_Subset
    <3>3. Past(c) \subseteq Of(c)
      BY DEF Past
    <3>4. Cardinality(Past(c)) <= Cardinality(Of(c))
      BY <3>2, <3>3, FS_Subset
    <3>5. Cardinality(Past(c)) \in Nat /\ Cardinality(Of(c)) \in Nat
      BY <3>2, PastIsFinite, FS_CardinalityType
    <3>6. taken[c] \in Nat /\ taken[c] <= Cardinality(Past(c))
      BY <2>2 DEF TypeOK, TakenByHooks
    <3> HIDE DEF Of
    <3>7. taken[c] <= Cardinality(Of(c))
      BY <3>4, <3>5, <3>6
    <3> QED
      BY <2>2, <3>7 DEF Of
  <2> QED
    BY <2>1, <2>2
<1> QED
    BY <1>3, <1>4, PlacesAlways, PTL

-----------------------------------------------------------------------------
(* What is used once.  An order that reached the staff has marked what it  *)
(* uses, and so has a request that is past the marking.                    *)
Marking == {"stock", "coupon", "customer", "threw"}

Marked ==
    /\ \A p \in Requests :
          pc[p] \in Closing \ {"stock", "coupon", "threw"} /\ "coupon" \in wants[target[p]] =>
              "coupon" \in used \cup hurt
    /\ \A p \in Requests :
          pc[p] \in Closing \ Marking /\ "gift" \in wants[target[p]] =>
              "gift" \in used \cup hurt
    /\ \A p \in Requests : pc[p] = "threw" =>
          order[target[p]] = "deleted" \/ wants[target[p]] \subseteq used \cup hurt
    /\ \A c \in Carts : order[c] = "processing" => wants[c] \subseteq used \cup hurt

(* An order that uses b, or a call that may still make one.                *)
InUse(c, b) ==
    /\ b \in wants[c]
    /\ \/ order[c] \in {"pending", "processing"}
       \/ pc[c] = "save"
       \/ b = "gift" /\ pc[c] \in {"drop", "check"} /\ c \notin giftGone

OneUser ==
    \A b \in Benefits \ (shared \cup hurt) : \A c, d \in Carts :
        InUse(c, b) /\ InUse(d, b) => c = d

LEMMA NextMarked == TypeOK /\ Places /\ Marked /\ [Next]_vars => Marked'
<1> SUFFICES ASSUME TypeOK, Places, Marked, [Next]_vars PROVE Marked'
    OBVIOUS
<1> USE CartsAndHooks DEF TypeOK, Places, Marked, Marking, Early, Closing, Benefits,
            Goto, MayFail, requestVars, orderVars, rewardVars, history
<1>1. ASSUME NEW c \in Carts, FindDraft(c) PROVE Marked'
    BY <1>1 DEF FindDraft, Drafts
<1>2. ASSUME NEW c \in Carts, DropDraft(c) PROVE Marked'
    BY <1>2 DEF DropDraft
<1>3. ASSUME NEW c \in Carts, Refuse(c) PROVE Marked'
    BY <1>3 DEF Refuse
<1>4. ASSUME NEW c \in Carts, Accept(c) PROVE Marked'
    BY <1>4 DEF Accept
<1>5. ASSUME NEW c \in Carts, SaveOrder(c) PROVE Marked'
    BY <1>5 DEF SaveOrder
<1>6. ASSUME NEW c \in Carts, AddOrderFails(c) PROVE Marked'
    BY <1>6 DEF AddOrderFails
<1>7. ASSUME NEW c \in Carts, ReadBack(c) PROVE Marked'
    BY <1>7 DEF ReadBack
<1>8. ASSUME NEW c \in Carts, PaymentPage(c) PROVE Marked'
    BY <1>8 DEF PaymentPage
<1>9. ASSUME NEW c \in Carts, Fallback(c) PROVE Marked'
    BY <1>9 DEF Fallback
<1>28. ASSUME NEW c \in Carts, Alert(c) PROVE Marked'
    BY <1>28 DEF Alert
<1>10. ASSUME NEW c \in Carts, Pay(c) PROVE Marked'
    BY <1>10 DEF Pay
<1>11. ASSUME NEW c \in Carts, Age(c) PROVE Marked'
    BY <1>11 DEF Age, Live
<1>12. ASSUME NEW h \in Hooks, WebhookFails(h) PROVE Marked'
    BY <1>12 DEF WebhookFails
<1>13. ASSUME NEW h \in Hooks, NEW c \in Carts, Webhook(h, c) PROVE Marked'
    BY <1>13 DEF Webhook
<1>14. ASSUME NEW p \in Requests, StatusFails(p) PROVE Marked'
    BY <1>14 DEF StatusFails
<1>15. ASSUME NEW p \in Requests, TakeStock(p) PROVE Marked'
    BY <1>15 DEF TakeStock
<1>16. ASSUME NEW p \in Requests, MarkCoupon(p) PROVE Marked'
    BY <1>16 DEF MarkCoupon
<1>17. ASSUME NEW p \in Requests, CouponFails(p) PROVE Marked'
    BY <1>17 DEF CouponFails
<1>18. ASSUME NEW p \in Requests, MarkCustomer(p) PROVE Marked'
    BY <1>18 DEF MarkCustomer
<1>19. ASSUME NEW p \in Requests, ClaimReward(p) PROVE Marked'
    BY <1>19 DEF ClaimReward
<1>20. ASSUME NEW p \in Requests, MintReward(p) PROVE Marked'
    BY <1>20 DEF MintReward
<1>21. ASSUME NEW p \in Requests, PutCode(p) PROVE Marked'
    BY <1>21 DEF PutCode
<1>22. ASSUME NEW p \in Requests, RewardFails(p) PROVE Marked'
    BY <1>22 DEF RewardFails
<1>23. ASSUME NEW p \in Requests, Rollback(p) PROVE Marked'
    BY <1>23 DEF Rollback
<1>24. ASSUME NEW p \in Requests, Finish(p) PROVE Marked'
    BY <1>24 DEF Finish
<1>25. ASSUME NEW p \in Requests, FinishFails(p) PROVE Marked'
    BY <1>25 DEF FinishFails
<1>26. ASSUME NEW p \in Requests, Crash(p) PROVE Marked'
    BY <1>26 DEF Crash, Live
<1>27. CASE UNCHANGED vars
    BY <1>27 DEF vars
<1> QED
    BY <1>1, <1>2, <1>3, <1>4, <1>5, <1>6, <1>7, <1>8, <1>9, <1>10, <1>11,
       <1>12, <1>13, <1>14, <1>15, <1>16, <1>17, <1>18, <1>19, <1>20, <1>21,
       <1>22, <1>23, <1>24, <1>25, <1>26, <1>27, <1>28
       DEF Next, AddOrderStep, FinalizeStep

LEMMA NextOneUser == TypeOK /\ Places /\ Marked /\ OneUser /\ [Next]_vars => OneUser'
<1> SUFFICES ASSUME TypeOK, Places, Marked, OneUser, [Next]_vars PROVE OneUser'
    OBVIOUS
<1> USE CartsAndHooks DEF TypeOK, Places, Marked, OneUser, Early, Closing, Benefits,
            Goto, MayFail, requestVars, orderVars, rewardVars, history
<1>1. ASSUME NEW c \in Carts, FindDraft(c) PROVE OneUser'
  <2>1. \A d \in Carts, b \in Benefits :
           d # c /\ InUse(d, b)' => InUse(d, b)
    BY <1>1 DEF FindDraft, InUse
  <2>2. \A d \in Carts : d # c /\ InUse(c, "gift")' /\ InUse(d, "gift") =>
           "gift" \in shared' \cup hurt'
    <3> SUFFICES ASSUME NEW d \in Carts, d # c, InUse(c, "gift")', InUse(d, "gift")
                 PROVE  "gift" \in shared' \cup hurt'
        OBVIOUS
    <3>1. "gift" \in wants[c] /\ "gift" \notin used
      BY <1>1 DEF FindDraft, InUse
    <3>2. CASE order[d] = "processing"
      BY <3>1, <3>2, <1>1 DEF FindDraft, InUse
    <3>3. CASE order[d] # "processing"
      BY <3>1, <3>3, <1>1 DEF FindDraft, InUse, OpenElsewhere
    <3> QED
      BY <3>2, <3>3
  <2>3. ~InUse(c, "coupon")'
    BY <1>1 DEF FindDraft, InUse
  <2>4. shared \subseteq shared' /\ hurt' = hurt
    BY <1>1 DEF FindDraft
  <2> QED
    BY <2>1, <2>2, <2>3, <2>4
<1>2. ASSUME NEW c \in Carts, DropDraft(c) PROVE OneUser'
    BY <1>2 DEF DropDraft, InUse
<1>3. ASSUME NEW c \in Carts, Refuse(c) PROVE OneUser'
    BY <1>3 DEF Refuse, InUse
<1>4. ASSUME NEW c \in Carts, Accept(c) PROVE OneUser'
  <2>1. \A d \in Carts, b \in Benefits :
           d # c /\ InUse(d, b)' => InUse(d, b)
    BY <1>4 DEF Accept, InUse
  <2>2. \A d \in Carts : d # c /\ InUse(c, "coupon")' /\ InUse(d, "coupon") =>
           "coupon" \in shared' \cup hurt'
    <3> SUFFICES ASSUME NEW d \in Carts, d # c, InUse(c, "coupon")', InUse(d, "coupon")
                 PROVE  "coupon" \in shared' \cup hurt'
        OBVIOUS
    <3>1. "coupon" \in wants[c] /\ "coupon" \notin used
      BY <1>4 DEF Accept, InUse
    <3>2. CASE order[d] = "processing"
      BY <3>1, <3>2, <1>4 DEF Accept, InUse
    <3>3. CASE order[d] # "processing"
      BY <3>1, <3>3, <1>4 DEF Accept, InUse, OpenElsewhere
    <3> QED
      BY <3>2, <3>3
  <2>3. InUse(c, "gift")' => InUse(c, "gift")
    BY <1>4 DEF Accept, InUse
  <2>4. shared \subseteq shared' /\ hurt' = hurt
    BY <1>4 DEF Accept
  <2> QED
    BY <2>1, <2>2, <2>3, <2>4
<1>5. ASSUME NEW c \in Carts, SaveOrder(c) PROVE OneUser'
    BY <1>5 DEF SaveOrder, InUse
<1>6. ASSUME NEW c \in Carts, AddOrderFails(c) PROVE OneUser'
    BY <1>6 DEF AddOrderFails, InUse
<1>7. ASSUME NEW c \in Carts, ReadBack(c) PROVE OneUser'
    BY <1>7 DEF ReadBack, InUse
<1>8. ASSUME NEW c \in Carts, PaymentPage(c) PROVE OneUser'
    BY <1>8 DEF PaymentPage, InUse
<1>9. ASSUME NEW c \in Carts, Fallback(c) PROVE OneUser'
    BY <1>9 DEF Fallback, InUse
<1>28. ASSUME NEW c \in Carts, Alert(c) PROVE OneUser'
    BY <1>28 DEF Alert, InUse
<1>10. ASSUME NEW c \in Carts, Pay(c) PROVE OneUser'
    BY <1>10 DEF Pay, InUse
<1>11. ASSUME NEW c \in Carts, Age(c) PROVE OneUser'
    BY <1>11 DEF Age, Live, InUse
<1>12. ASSUME NEW h \in Hooks, WebhookFails(h) PROVE OneUser'
    BY <1>12 DEF WebhookFails, InUse
<1>13. ASSUME NEW h \in Hooks, NEW c \in Carts, Webhook(h, c) PROVE OneUser'
    BY <1>13 DEF Webhook, InUse
<1>14. ASSUME NEW p \in Requests, StatusFails(p) PROVE OneUser'
    BY <1>14 DEF StatusFails, InUse
<1>15. ASSUME NEW p \in Requests, TakeStock(p) PROVE OneUser'
    BY <1>15 DEF TakeStock, InUse
<1>16. ASSUME NEW p \in Requests, MarkCoupon(p) PROVE OneUser'
    BY <1>16 DEF MarkCoupon, InUse
<1>17. ASSUME NEW p \in Requests, CouponFails(p) PROVE OneUser'
    BY <1>17 DEF CouponFails, InUse
<1>18. ASSUME NEW p \in Requests, MarkCustomer(p) PROVE OneUser'
    BY <1>18 DEF MarkCustomer, InUse
<1>19. ASSUME NEW p \in Requests, ClaimReward(p) PROVE OneUser'
    BY <1>19 DEF ClaimReward, InUse
<1>20. ASSUME NEW p \in Requests, MintReward(p) PROVE OneUser'
    BY <1>20 DEF MintReward, InUse
<1>21. ASSUME NEW p \in Requests, PutCode(p) PROVE OneUser'
    BY <1>21 DEF PutCode, InUse
<1>22. ASSUME NEW p \in Requests, RewardFails(p) PROVE OneUser'
    BY <1>22 DEF RewardFails, InUse
<1>23. ASSUME NEW p \in Requests, Rollback(p) PROVE OneUser'
    BY <1>23 DEF Rollback, InUse
<1>24. ASSUME NEW p \in Requests, Finish(p) PROVE OneUser'
    BY <1>24 DEF Finish, InUse
<1>25. ASSUME NEW p \in Requests, FinishFails(p) PROVE OneUser'
    BY <1>25 DEF FinishFails, InUse
<1>26. ASSUME NEW p \in Requests, Crash(p) PROVE OneUser'
    BY <1>26 DEF Crash, Live, InUse
<1>27. CASE UNCHANGED vars
    BY <1>27 DEF vars, InUse
<1> QED
    BY <1>1, <1>2, <1>3, <1>4, <1>5, <1>6, <1>7, <1>8, <1>9, <1>10, <1>11,
       <1>12, <1>13, <1>14, <1>15, <1>16, <1>17, <1>18, <1>19, <1>20, <1>21,
       <1>22, <1>23, <1>24, <1>25, <1>26, <1>27, <1>28
       DEF Next, AddOrderStep, FinalizeStep

(* A coupon of fixed value and a gift serve one order, whatever tabs and   *)
(* webhooks run at once, with the exceptions the property names.           *)
THEOREM BenefitServesOnce == Spec => []SpentOnce
<1>1. Init => Marked /\ OneUser
    BY CartsAndHooks DEF Init, Marked, OneUser, InUse, Closing, Marking
<1>2. Spec => [](Marked /\ OneUser)
    BY <1>1, NextMarked, NextOneUser, PlacesAlways, PTL DEF Spec
<1>3. OneUser => SpentOnce
  <2> SUFFICES ASSUME OneUser, NEW b \in Benefits \ (shared \cup hurt)
               PROVE  Cardinality({c \in Carts : b \in wants[c] /\ order[c] = "processing"}) <= 1
      BY DEF SpentOnce
  <2> DEFINE S == {c \in Carts : b \in wants[c] /\ order[c] = "processing"}
  <2>1. CASE S = {}
    BY <2>1, FS_EmptySet
  <2>2. ASSUME NEW c \in S PROVE Cardinality(S) <= 1
    <3>1. S = {c}
      BY <2>2 DEF OneUser, InUse
    <3>2. Cardinality({c}) = 1
      BY FS_Singleton
    <3> QED
      BY <3>1, <3>2
  <2> QED
    BY <2>1, <2>2
<1> QED
    BY <1>2, <1>3, PTL
=============================================================================
