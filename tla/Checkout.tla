------------------------------ MODULE Checkout ------------------------------
(***************************************************************************)
(* How a customer's cart becomes an order: addOrder                        *)
(* (customerOrderController.js), the payment webhook updateOrderWebHook    *)
(* (orderController.js), and finalizeOrder (lib/orders), the routine both  *)
(* end in.                                                                 *)
(*                                                                         *)
(* One customer.  addOrder replaces the customer's previous draft, checks  *)
(* the cart and saves the order as Pending.  In the shop without payment   *)
(* (PAYMENT_DISABLED) it finalises the order in the same request; else it  *)
(* sends the customer to a payment page, and each webhook of the payment   *)
(* company finalises it.  Several tabs, repeated webhooks and the requests *)
(* they cause run side by side; no transaction surrounds any of them.      *)
(*                                                                         *)
(* An order has the name of the call that saves it.  Prices, offers with   *)
(* no limit and the content of the cart are left out; the welcome gift     *)
(* stands for what the customer may use once (the gift, and the offers     *)
(* with oncePerCustomer, which are read and marked at the same places).    *)
(***************************************************************************)
EXTENDS Naturals, FiniteSets

CONSTANTS
    Carts,       \* calls of addOrder by the customer
    Hooks,       \* webhooks of the payment company
    MaxErrors,   \* how many database operations may fail
    MaxCrashes,  \* how many requests may be cut off
    None         \* "not set"

Benefits == {"coupon", "gift"}

ASSUME CheckoutAssumption ==
    /\ IsFiniteSet(Carts)
    /\ IsFiniteSet(Hooks)
    /\ Carts \cap Hooks = {}
    /\ MaxErrors \in Nat
    /\ MaxCrashes \in Nat
    /\ None \notin Carts

Requests == Carts \cup Hooks

VARIABLES
    free,      \* PAYMENT_DISABLED
    order,     \* order[c]: "none" before its save, its status, or "deleted"
    old,       \* orders created more than STALE_DRAFT_AGE_MS ago
    wants,     \* wants[c]: what cart c uses of Benefits
    used,      \* what is marked: coupon.isUsed, welcomeGift.isUsed
    paid,      \* orders the customer has paid for on the payment page
    taken,     \* taken[c]: how often the stock was decreased for order c
    code,      \* code[c]: rewardCouponCode of the order, 0 for none
    minted,    \* how many reward coupons were created
    issued,    \* customer.shippingRewardIssued
    pc,        \* pc[p]: where request p stands
    target,    \* target[p]: the order that request p finalises
    victim,    \* victim[c]: the draft that call c has found
    giftGone,  \* calls that read the customer's gift as used
    holds,     \* holds[p]: rewardCouponCode of the document p has in hand
    ok,        \* requests answered with success
    mail,      \* mail[c]: "none", or what became of "must be checked by hand"
    errors,    \* failed operations so far
    crashes,   \* requests cut off so far
    overtaken, \* orders whose status changed between find and delete (history)
    shared,    \* benefits two open orders were let use (history)
    hurt       \* what a failure left undone (history)

requestVars == <<pc, target, victim, giftGone, holds>>
orderVars   == <<order, old, paid, taken, code>>
rewardVars  == <<minted, issued>>
history     == <<errors, crashes, overtaken, shared, hurt>>
vars == <<free, wants, orderVars, used, rewardVars, requestVars, ok, mail, history>>

RequestSteps == {"idle", "drop", "check", "save", "read", "page", "stock", "coupon",
                 "customer", "claim", "mint", "put", "rollback", "finish", "threw", "alert",
                 "done"}

TypeOK ==
    /\ free \in BOOLEAN
    /\ order \in [Carts -> {"none", "pending", "processing", "deleted"}]
    /\ old \in SUBSET Carts
    /\ wants \in [Carts -> SUBSET Benefits]
    /\ used \in SUBSET Benefits
    /\ paid \in SUBSET Carts
    /\ taken \in [Carts -> Nat]
    /\ code \in [Carts -> Nat]
    /\ minted \in Nat
    /\ issued \in BOOLEAN
    /\ pc \in [Requests -> RequestSteps]
    /\ target \in [Requests -> Carts \cup {None}]
    /\ victim \in [Carts -> Carts \cup {None}]
    /\ giftGone \in SUBSET Carts
    /\ holds \in [Requests -> Nat]
    /\ ok \in SUBSET Requests
    /\ mail \in [Carts -> {"none", "sent", "lost"}]
    /\ errors \in 0..MaxErrors
    /\ crashes \in 0..MaxCrashes
    /\ overtaken \in SUBSET Carts
    /\ shared \in SUBSET Benefits
    /\ hurt \in SUBSET (Benefits \cup {"reward", "status"})

Init ==
    /\ free \in BOOLEAN
    /\ order = [c \in Carts |-> "none"]
    /\ old = {}
    /\ wants \in [Carts -> SUBSET Benefits]
    /\ used = {}
    /\ paid = {}
    /\ taken = [c \in Carts |-> 0]
    /\ code = [c \in Carts |-> 0]
    /\ minted = 0
    /\ issued = FALSE
    /\ pc = [p \in Requests |-> "idle"]
    /\ target = [p \in Requests |-> IF p \in Carts THEN p ELSE None]
    /\ victim = [c \in Carts |-> None]
    /\ giftGone = {}
    /\ holds = [p \in Requests |-> 0]
    /\ ok = {}
    /\ mail = [c \in Carts |-> "none"]
    /\ errors = 0
    /\ crashes = 0
    /\ overtaken = {}
    /\ shared = {}
    /\ hurt = {}

Goto(p, step) == pc' = [pc EXCEPT ![p] = step]

Live(p) == pc[p] \notin {"idle", "done"}

MayFail ==
    /\ errors < MaxErrors
    /\ errors' = errors + 1

(* Another order of the customer that uses b and is not closed yet: it is  *)
(* a draft, or its call is past the check and has not saved it yet.        *)
OpenElsewhere(c, b) ==
    \E d \in Carts \ {c} :
        /\ b \in wants[d]
        /\ \/ order[d] = "pending"
           \/ pc[d] = "save"
           \/ b = "gift" /\ pc[d] \in {"drop", "check"}

-----------------------------------------------------------------------------
(* addOrder, up to the saved order.                                        *)

(* Mutant: any draft counts as an old one.                                 *)
DraftsOfAnyAge == {d \in Carts : order[d] = "pending"}

(* What step 2 looks for.  Without payment only a draft of more than five  *)
(* minutes counts, so that no running call's order is taken for one.       *)
Drafts == {d \in Carts : order[d] = "pending" /\ (free => d \in old)}

(* The customer is read here and not again: a gift found used refuses the  *)
(* cart later on, when the draft it replaces is already gone.              *)
FindDraft(c) ==
    /\ pc[c] = "idle"
    /\ \/ /\ Drafts = {}
          /\ Goto(c, "check")
          /\ UNCHANGED victim
       \/ \E d \in Drafts :
            /\ victim' = [victim EXCEPT ![c] = d]
            /\ Goto(c, "drop")
    /\ giftGone' = IF "gift" \in wants[c] \cap used THEN giftGone \cup {c} ELSE giftGone
    /\ shared' = IF "gift" \in wants[c] /\ OpenElsewhere(c, "gift")
                 THEN shared \cup {"gift"} ELSE shared
    /\ UNCHANGED <<free, wants, orderVars, used, rewardVars, target, holds, ok,
                   mail, errors, crashes, overtaken, hurt>>

(* findByIdAndDelete goes by the id alone, whatever the status is by now,  *)
(* and a reward coupon written to the order is gone with it.               *)
DropDraft(c) ==
    /\ pc[c] = "drop"
    /\ order' = [order EXCEPT ![victim[c]] = "deleted"]
    /\ hurt' = IF code[victim[c]] # 0 THEN hurt \cup {"reward"} ELSE hurt
    /\ Goto(c, "check")
    /\ UNCHANGED <<free, wants, old, paid, taken, code, used, rewardVars, target,
                   victim, giftGone, holds, ok, mail, errors, crashes, overtaken, shared>>

(* Stock, prices, gift, offers, coupon and total: all of them can refuse.  *)
Refuse(c) ==
    /\ pc[c] = "check"
    /\ Goto(c, "done")
    /\ UNCHANGED <<free, wants, orderVars, used, rewardVars, target, victim, giftGone,
                   holds, ok, mail, history>>

Accept(c) ==
    /\ pc[c] = "check"
    /\ c \notin giftGone
    /\ ~("coupon" \in wants[c] \cap used)
    /\ shared' = IF "coupon" \in wants[c] /\ OpenElsewhere(c, "coupon")
                 THEN shared \cup {"coupon"} ELSE shared
    /\ Goto(c, "save")
    /\ UNCHANGED <<free, wants, orderVars, used, rewardVars, target, victim, giftGone,
                   holds, ok, mail, errors, crashes, overtaken, hurt>>

SaveOrder(c) ==
    /\ pc[c] = "save"
    /\ order' = [order EXCEPT ![c] = "pending"]
    /\ Goto(c, IF free THEN "read" ELSE "page")
    /\ UNCHANGED <<free, wants, old, paid, taken, code, used, rewardVars, target,
                   victim, giftGone, holds, ok, mail, history>>

(* The outer catch: the customer gets an error, what is written stays.     *)
AddOrderFails(c) ==
    /\ pc[c] \in {"drop", "check", "save", "read", "page"}
    /\ MayFail
    /\ Goto(c, "done")
    /\ UNCHANGED <<free, wants, orderVars, used, rewardVars, target, victim, giftGone,
                   holds, ok, mail, crashes, overtaken, shared, hurt>>

(* Without payment the order is read back and handed to finalizeOrder.     *)
ReadBack(c) ==
    /\ pc[c] = "read"
    /\ holds' = [holds EXCEPT ![c] = code[c]]
    /\ Goto(c, IF order[c] = "deleted" THEN "threw" ELSE "stock")
    /\ UNCHANGED <<free, wants, orderVars, used, rewardVars, target, victim, giftGone,
                   ok, mail, history>>

PaymentPage(c) ==
    /\ pc[c] = "page"
    /\ Goto(c, "done")
    /\ ok' = ok \cup {c}
    /\ UNCHANGED <<free, wants, orderVars, used, rewardVars, target, victim, giftGone,
                   holds, mail, history>>

-----------------------------------------------------------------------------
(* The payment company: the customer pays on a page that was opened, and   *)
(* a webhook reports it, once or several times.                            *)

Pay(c) ==
    /\ ~free
    /\ c \in ok \ paid
    /\ paid' = paid \cup {c}
    /\ UNCHANGED <<free, wants, order, old, taken, code, used, rewardVars, requestVars,
                   ok, mail, history>>

Webhook(h, c) ==
    /\ pc[h] = "idle"
    /\ c \in paid
    /\ target' = [target EXCEPT ![h] = c]
    /\ holds' = [holds EXCEPT ![h] = code[c]]
    /\ Goto(h, IF order[c] = "deleted" THEN "done" ELSE "stock")
    /\ UNCHANGED <<free, wants, orderVars, used, rewardVars, victim, giftGone, ok,
                   mail, history>>

-----------------------------------------------------------------------------
(* finalizeOrder, for request p.                                           *)

(* The status Processing cannot be read: nothing was done yet.             *)
StatusFails(p) ==
    /\ pc[p] = "stock"
    /\ MayFail
    /\ Goto(p, "threw")
    /\ hurt' = hurt \cup Benefits
    /\ UNCHANGED <<free, wants, orderVars, used, rewardVars, target, victim, giftGone,
                   holds, ok, mail, crashes, overtaken, shared>>

(* handleProductQuantity; an error of its own is swallowed.                *)
TakeStock(p) ==
    /\ pc[p] = "stock"
    /\ \/ taken' = [taken EXCEPT ![target[p]] = @ + 1] /\ UNCHANGED errors
       \/ MayFail /\ UNCHANGED taken
    /\ Goto(p, IF "coupon" \in wants[target[p]] THEN "coupon" ELSE "customer")
    /\ UNCHANGED <<free, wants, order, old, paid, code, used, rewardVars, target, victim,
                   giftGone, holds, ok, mail, crashes, overtaken, shared, hurt>>

(* Mutant: the coupon is counted and not marked as used.                   *)
CouponUnmarked(p) ==
    /\ pc[p] = "coupon"
    /\ Goto(p, "customer")
    /\ UNCHANGED <<free, wants, orderVars, used, rewardVars, target, victim, giftGone,
                   holds, ok, mail, history>>

(* A coupon of fixed value is spent: isUsed.                               *)
MarkCoupon(p) ==
    /\ pc[p] = "coupon"
    /\ used' = used \cup {"coupon"}
    /\ Goto(p, "customer")
    /\ UNCHANGED <<free, wants, orderVars, rewardVars, target, victim, giftGone, holds,
                   ok, mail, history>>

(* Mutant: an error is swallowed, as it is for the stock.                  *)
CouponErrorSwallowed(p) ==
    /\ pc[p] = "coupon"
    /\ MayFail
    /\ Goto(p, "customer")
    /\ hurt' = hurt \cup {"coupon"}
    /\ UNCHANGED <<free, wants, orderVars, used, rewardVars, target, victim, giftGone,
                   holds, ok, mail, crashes, overtaken, shared>>

CouponFails(p) ==
    /\ pc[p] = "coupon"
    /\ MayFail
    /\ Goto(p, "threw")
    /\ hurt' = hurt \cup Benefits
    /\ UNCHANGED <<free, wants, orderVars, used, rewardVars, target, victim, giftGone,
                   holds, ok, mail, crashes, overtaken, shared>>

(* Offers and gift; an error is swallowed.                                 *)
MarkCustomer(p) ==
    /\ pc[p] = "customer"
    /\ \/ used' = used \cup (wants[target[p]] \cap {"gift"}) /\ UNCHANGED <<errors, hurt>>
       \/ MayFail /\ hurt' = hurt \cup {"gift"} /\ UNCHANGED used
    /\ Goto(p, IF holds[p] = 0 THEN "claim" ELSE "finish")
    /\ UNCHANGED <<free, wants, orderVars, rewardVars, target, victim, giftGone, holds,
                   ok, mail, crashes, overtaken, shared>>

(* Mutant: the flag is set without being asked for.                        *)
ClaimUnconditionally(p) ==
    /\ pc[p] = "claim"
    /\ issued' = TRUE
    /\ Goto(p, "mint")
    /\ UNCHANGED <<free, wants, orderVars, used, minted, target, victim, giftGone, holds,
                   ok, mail, history>>

(* A customer gets one reward coupon in his life: the flag is claimed in   *)
(* one conditional update.  Whoever comes late takes over the code of the  *)
(* order, if it has one by now.                                            *)
ClaimReward(p) ==
    /\ pc[p] = "claim"
    /\ IF issued
       THEN /\ holds' = [holds EXCEPT ![p] = code[target[p]]]
            /\ Goto(p, "finish")
            /\ UNCHANGED issued
       ELSE /\ issued' = TRUE
            /\ Goto(p, "mint")
            /\ UNCHANGED holds
    /\ UNCHANGED <<free, wants, orderVars, used, minted, target, victim, giftGone, ok,
                   mail, history>>

MintReward(p) ==
    /\ pc[p] = "mint"
    /\ minted' = minted + 1
    /\ holds' = [holds EXCEPT ![p] = minted + 1]
    /\ Goto(p, "put")
    /\ UNCHANGED <<free, wants, orderVars, used, issued, target, victim, giftGone, ok,
                   mail, history>>

(* The code is written to the order at once; of a deleted order nothing is *)
(* updated and no error raised.                                            *)
PutCode(p) ==
    /\ pc[p] = "put"
    /\ IF order[target[p]] = "deleted"
       THEN hurt' = hurt \cup {"reward"} /\ UNCHANGED code
       ELSE code' = [code EXCEPT ![target[p]] = holds[p]] /\ UNCHANGED hurt
    /\ Goto(p, "finish")
    /\ UNCHANGED <<free, wants, order, old, paid, taken, used, rewardVars, target, victim,
                   giftGone, holds, ok, mail, errors, crashes, overtaken, shared>>

(* The catch of the reward gives the flag back, unless that fails too; the *)
(* document in hand got its code only after the write.                     *)
RewardFails(p) ==
    /\ pc[p] \in {"mint", "put"}
    /\ MayFail
    /\ holds' = [holds EXCEPT ![p] = 0]
    /\ Goto(p, "rollback")
    /\ UNCHANGED <<free, wants, orderVars, used, rewardVars, target, victim, giftGone, ok,
                   mail, crashes, overtaken, shared, hurt>>

(* Mutant: the flag is not given back.                                     *)
NoRollback(p) ==
    /\ pc[p] = "rollback"
    /\ Goto(p, "finish")
    /\ UNCHANGED <<free, wants, orderVars, used, rewardVars, target, victim, giftGone,
                   holds, ok, mail, history>>

Rollback(p) ==
    /\ pc[p] = "rollback"
    /\ \/ issued' = FALSE /\ UNCHANGED <<errors, hurt>>
       \/ MayFail /\ hurt' = hurt \cup {"reward"} /\ UNCHANGED issued
    /\ Goto(p, "finish")
    /\ UNCHANGED <<free, wants, orderVars, used, minted, target, victim, giftGone, holds,
                   ok, mail, crashes, overtaken, shared>>

(* order.save: the status, and the code when the document in hand has one. *)
(* It raises an error for an order that was deleted.                       *)
Finish(p) ==
    LET c == target[p] IN
    /\ pc[p] = "finish"
    /\ order[c] # "deleted"
    /\ order' = [order EXCEPT ![c] = "processing"]
    /\ code' = IF holds[p] = 0 THEN code ELSE [code EXCEPT ![c] = holds[p]]
    /\ ok' = ok \cup {p}
    /\ overtaken' = IF \E d \in Carts : pc[d] = "drop" /\ victim[d] = c
                    THEN overtaken \cup {c} ELSE overtaken
    /\ Goto(p, "done")
    /\ UNCHANGED <<free, wants, old, paid, taken, used, rewardVars, target, victim,
                   giftGone, holds, mail, errors, crashes, shared, hurt>>

FinishFails(p) ==
    /\ pc[p] = "finish"
    /\ \/ order[target[p]] = "deleted" /\ UNCHANGED errors
       \/ MayFail
    /\ Goto(p, "threw")
    /\ UNCHANGED <<free, wants, orderVars, used, rewardVars, target, victim, giftGone,
                   holds, ok, mail, crashes, overtaken, shared, hurt>>

-----------------------------------------------------------------------------
(* After an exception of finalizeOrder.                                    *)

(* Mutant: addOrder closes the order once more.                            *)
FinalizeAgain(c) ==
    /\ pc[c] = "threw"
    /\ c \in Carts
    /\ Goto(c, "stock")
    /\ UNCHANGED <<free, wants, orderVars, used, rewardVars, target, victim, giftGone,
                   holds, ok, mail, history>>

(* addOrder moves the order on with a direct write; an error of its own is *)
(* swallowed.                                                              *)
Fallback(c) ==
    /\ pc[c] = "threw"
    /\ c \in Carts
    /\ \/ /\ order' = IF order[c] = "deleted" THEN order ELSE [order EXCEPT ![c] = "processing"]
          /\ UNCHANGED <<errors, hurt>>
       \/ MayFail /\ hurt' = hurt \cup {"status"} /\ UNCHANGED order
    /\ Goto(c, "alert")
    /\ UNCHANGED <<free, wants, old, paid, taken, code, used, rewardVars, target, victim,
                   giftGone, holds, ok, mail, crashes, overtaken, shared>>

(* It mails that the order must be checked by hand, and answers with       *)
(* success.  The mail is not waited for: whether it goes out or is lost,   *)
(* the answer is the same.                                                 *)
Alert(c) ==
    /\ pc[c] = "alert"
    /\ \/ mail' = [mail EXCEPT ![c] = "sent"] /\ UNCHANGED errors
       \/ MayFail /\ mail' = [mail EXCEPT ![c] = "lost"]
    /\ ok' = ok \cup {c}
    /\ Goto(c, "done")
    /\ UNCHANGED <<free, wants, orderVars, used, rewardVars, target, victim, giftGone,
                   holds, crashes, overtaken, shared, hurt>>

(* updateOrderWebHook answers with an error.                               *)
WebhookFails(h) ==
    /\ pc[h] = "threw"
    /\ h \in Hooks
    /\ Goto(h, "done")
    /\ UNCHANGED <<free, wants, orderVars, used, rewardVars, target, victim, giftGone,
                   holds, ok, mail, history>>

-----------------------------------------------------------------------------
(* A request is cut off between two operations.                            *)
Crash(p) ==
    /\ Live(p)
    /\ crashes < MaxCrashes
    /\ crashes' = crashes + 1
    /\ hurt' = hurt \cup (CASE pc[p] = "coupon" -> {"coupon", "gift"}
                            [] pc[p] \in {"stock", "customer"} -> Benefits
                            [] pc[p] \in {"mint", "put", "rollback"} -> {"reward"}
                            [] OTHER -> {})
    /\ mail' = IF pc[p] = "alert" THEN [mail EXCEPT ![p] = "lost"] ELSE mail
    /\ Goto(p, "done")
    /\ UNCHANGED <<free, wants, orderVars, used, rewardVars, target, victim, giftGone,
                   holds, ok, errors, overtaken, shared>>

(* Five minutes pass: far more than a request lasts                        *)
(* (customerOrderController.js:27), so only drafts of ended calls grow old.*)
Age(c) ==
    /\ free
    /\ order[c] = "pending" /\ ~Live(c)
    /\ old' = old \cup {c}
    /\ c \notin old
    /\ UNCHANGED <<free, wants, order, paid, taken, code, used, rewardVars, requestVars,
                   ok, mail, history>>

FinalizeStep(p) ==
    \/ StatusFails(p) \/ TakeStock(p) \/ MarkCoupon(p) \/ CouponFails(p) \/ MarkCustomer(p)
    \/ ClaimReward(p) \/ MintReward(p) \/ PutCode(p) \/ RewardFails(p) \/ Rollback(p)
    \/ Finish(p) \/ FinishFails(p)

AddOrderStep(c) ==
    \/ FindDraft(c) \/ DropDraft(c) \/ Refuse(c) \/ Accept(c) \/ SaveOrder(c)
    \/ AddOrderFails(c) \/ ReadBack(c) \/ PaymentPage(c) \/ Fallback(c) \/ Alert(c)

Next ==
    \/ \E c \in Carts : AddOrderStep(c) \/ Pay(c) \/ Age(c)
    \/ \E h \in Hooks : WebhookFails(h) \/ \E c \in Carts : Webhook(h, c)
    \/ \E p \in Requests : FinalizeStep(p) \/ Crash(p)

Spec == Init /\ [][Next]_vars

-----------------------------------------------------------------------------
(* An order stands when the customer, or the payment company, was told it  *)
(* does (customerOrderController.js:620-632 and 57-65): it is neither left *)
(* a draft nor deleted by a later call.  Two exceptions: the fallback's    *)
(* own write failed, or the shop takes payments and the order was          *)
(* finalised after a later call had found it as a draft.                   *)
AnsweredIsServed ==
    \A p \in ok :
        (IF p \in Hooks THEN target[p] \notin overtaken ELSE free /\ "status" \notin hurt) =>
            order[target[p]] = "processing"

(* A coupon of fixed value and a gift serve one order                      *)
(* (finalizeOrder.js:166-167, customerOrderController.js:368), unless two  *)
(* orders were open at a time, or a failure kept it from being marked.     *)
SpentOnce ==
    \A b \in Benefits \ (shared \cup hurt) :
        Cardinality({c \in Carts : b \in wants[c] /\ order[c] = "processing"}) <= 1

(* A customer gets one reward coupon in his life, whatever the webhooks    *)
(* and tabs do at the same time, and whatever fails (finalizeOrder.js:170).*)
RewardOnce == Cardinality({c \in Carts : code[c] # 0}) <= 1

(* The customer whose flag says he had his reward has its code on an order *)
(* that still exists, or a request is about to write it or to take the     *)
(* flag back (finalizeOrder.js:206 and 214).  Exceptions, in which he has  *)
(* lost it for good: the request died there; the flag could not be taken   *)
(* back; the order was deleted as a draft before the code was written to   *)
(* it, or after (DropDraft).                                               *)
RewardNotLost ==
    issued /\ "reward" \notin hurt =>
        \/ \E c \in Carts : code[c] # 0 /\ order[c] # "deleted"
        \/ \E p \in Requests : pc[p] \in {"mint", "put", "rollback"}

(* Without payment, an order the staff sees whose coupon is not marked is  *)
(* reported to be checked by hand (customerOrderController.js:629): the    *)
(* mail was sent, or its call is about to send it.  Two exceptions: the    *)
(* call was cut off before it sent the mail, or the mail was lost.         *)
UndoneIsAlerted ==
    free => \A c \in Carts :
        order[c] = "processing" /\ "coupon" \in wants[c] \ used =>
            mail[c] \in {"sent", "lost"} \/ pc[c] = "alert"

(* The stock of an order goes down at most once for each webhook that      *)
(* found it, and once without payment, even when closing it fails          *)
(* (finalizeOrder.js:76, customerOrderController.js:620).                  *)
StockOnce ==
    \A c \in Carts :
        taken[c] <= IF free THEN 1 ELSE Cardinality({h \in Hooks : target[h] = c})
=============================================================================
