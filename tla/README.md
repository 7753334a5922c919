# Verification of sweet-backend

TLA+ models of the parts of this backend where several actors work on one
document: an order from the customer's cart or the sender's message to its
delivery notes, the invoices made of those, their credits and payments, the
print jobs on the way, and the jobs that clean up after a failure. The models
are checked with TLC on small instances; their safety properties are also proved
with TLAPS, for instances of any size.

## 1. The system

A Node/Express server over MongoDB for a food wholesaler. Orders arrive from
the shop, the panel, WhatsApp and mail; each becomes a delivery note; delivery
notes become iCount invoices, monthly or at once; invoices are paid, credited
or reissued. One server process handles requests concurrently (each `await` is
a switch), cron jobs run in the same process, scripts and restarts run beside
it. MongoDB is used without transactions: an `updateOne`, a
`findOneAndUpdate` and each document of an `updateMany` is atomic, and nothing
larger is. iCount documents are tax documents: they cannot be deleted.

| component | state | operations | hard behaviour | module |
|---|---|---|---|---|
| ingestion (`lib/order-ingestion`, `incomingOrderController.js`) | incoming messages, the orders made of them | ingest, collect, release, reprocess, ignore, approve | repeated deliveries, a crash between two saves, two people at one message | `Ingestion` |
| checkout (`customerOrderController.js`, `lib/orders/finalizeOrder.js`) | drafts, status, stock, coupon, gift, reward | `addOrder`, the payment webhook, `finalizeOrder` | a webhook delivered twice, two tabs, an exception half way | `Checkout` |
| delivery notes (`deliveryNotes.js`, `autoDeliveryNote.js`, `editItems.js`) | the order, its notes and their content | `createFromOrder`, `syncFromOrder`, `createManual`, `update`, `cancel`, `editOrderItems` | outdated readings, an order cancelled meanwhile, revival | `OrderNotes` |
| print queue (`printJobs.js`, `printJobController.js`) | one job per note | queue, claim, report, cancel, requeue | old locks, late reports | `PrintQueue` |
| claiming and invoicing (`monthlyBilling.js`, `monthEndCron.js`) | `billing.status`, `claimToken`, `claimedAt`, `icountDocNum` of a note | `closeCustomerMonth`, `billNoteImmediately`, `billNotesNow`, `closeMonth`, `releaseStuckClaims` | overlapping runs, a crash or a database error between iCount and the marking, a timeout after iCount acted, the age of a claim | `MonthlyBilling` |
| crediting an invoice (`creditInvoice`) | the same, and `credits[]` | full credit, reopening of notes and netted credit notes | two credits at once, a credit between two marking updates | `MonthlyBilling`, `Payments` |
| credit notes (`creditNotes.js`) | `billing.status`, `creditDocNum`, `originalDocNum`, `invoiceDocNum` | `create`, `issueInvoice`, `issueConsolidated`, `cancel`, netting in an invoice | a check before the claim, marking failures, stuck claims | `CreditNotes` |
| customer balance and receipts (`billingController.js`, `customerBalance.js`) | ledger entries, `paidAt` of notes | payment, payment from balance, refund of a cancelled invoice, manual entry | the same invoice paid twice, a payment and a credit at once | `Payments` |
| reissue (`reissue.js`) | the set `inFlight` in memory | credit, edit, bill again | a lock in memory only, others take the reopened notes | the lock, in `MonthlyBilling` |

The rest (catalogue, price lists, settings, accounts, reports, mail templates,
readers of mail and files, serial numbers, scripts) is listed in `PROJECT.json`
with the reason it is left out: independent documents edited by one actor,
read-only reports, heuristics over free text, or pure input and output.

How the parts meet: a message or a cart becomes one order (`Ingestion`,
`Checkout`); a change of the order starts, without waiting for it, the
synchronisation of its notes (`OrderNotes`); each note has a print job
(`PrintQueue`) and is charged by an invoice (`MonthlyBilling`), less the credit
notes (`CreditNotes`); the invoice is paid or given back (`Payments`). Where two
modules meet they keep the same shared fields: `OrderNotes` contains the steps a
billing run makes on `billing.status` and the jobs a note starts, `Payments` and
`CreditNotes` contain the credit of an invoice as far as it concerns them.

What makes the parts correct: the goods of a message are ordered once, and an
order has all of its message; a customer who was told that the order stands has
one; a note says what the order says, and its invoice what the note says; a
document is charged by at most one invoice, stays marked with its number until a
credit takes it back, and nothing reopens while it is charged; a claim belongs
to one run and does not last for ever; a credit note is refunded once, and never
for more than its invoice and the tolerance of the check; an invoice is settled
once, and a credit gives back what the settlement took; a job is printed by one
agent and waits for none for ever.

## 2. Modules

`MonthlyBilling.tla` is the core. One customer, the real pocket (live mode).
Its actors are runs (`Runs`), credits of invoices (`Refunds`), cancellations
of notes (`Cancels`), the hourly release and the environment.

| code | model |
|---|---|
| `billing.status`, `claimToken`, `claimedAt` older than the cutoff, `icountDocNum` / `invoiceDocNum` | `status`, `holder`, `stale`, `docNum` |
| where an `async` function stands, and its local variables | `pc`, `wanted`, `todo`, `mine`, `group`, `current` for a run; `rpc`, `rdoc`, `rdocs` for a credit; `cpc`, `cnote`, `csaw` for a cancellation |
| the documents that exist in iCount | `invoice`, `refunded` |
| accidents that the code can only log | `incident` (history) |
| `claimNotes` | `ClaimNote` per document, then `ReadClaimed` |
| `openCredits`, the claim of credit notes, those left out | `OpenCredits`, `ClaimCredit`, `ReadCredits`, `SetAside` |
| `createInvoice` succeeds, is rejected, times out after acting | `Issue`, `IssueRejected`, `IssueLost` |
| the two marking updates and their failure | `MarkNotes`, `MarkCredits`, `MarkFails` |
| `release`, `releaseStuckClaims` of notes and of credit notes | `Release`, `ReleaseStuckNotes`, `ReleaseStuckCredits` |
| `creditInvoice` | `RefundRead` to `RefundWriteCredits` |
| `deliveryNotes.cancel` | `CancelRead`, `CancelSave` |
| the process dies | `Crash` |

Each action is the code between two `await`s. The claim is one action per
document, because the code relies on its condition being evaluated document by
document; the other `updateMany` calls (marking, release, the hourly release)
are one step, and a failure of the marking may have written any part of it.
Amounts are the three numbers `creditBlocker` compares: taxable, exempt,
discount. An invoice number is the pair of the run and the invoice key, which
a run issues at most once.

`incident` collects the documents hit by what the code itself reports as
needing a human: a crash between iCount and the marking, a marking update that
failed, a reply that was lost, a claim taken from a live run after thirty
minutes, a second credit of the same invoice. The safety properties speak of
every other document; the run `mark_fails` shows what happens to one of these.

`InvoiceBook.tla` is the abstract specification: a book of who is charged for
what, with three actions (an invoice is opened for documents nobody charges, a
credit takes documents off, an accident removes a document from the promise).
`MonthlyBilling` implements it under the mapping `Book`.

Simplifications, each of which adds behaviour: a run may be started over any
subset of the notes (the queries by month and by list are subsets), the lock
of a reissue is held during its credit only, and a credit of an invoice that
the code refuses because of partial credits may go through.

`CreditNotes.tla` follows the credit notes of one customer from the form to
the document that gives them back. Its actors are the forms (`Credits`), the
calls that give notes back (`Issues`, `Batches`, `Closes`), the full credits of
an invoice (`Voids`), the hourly release and the environment.

| code | model |
|---|---|
| `billing.status` (and the note's existence), `claimToken`, age of `claimedAt`, `originalDocNum`, `creditDocNum` / `invoiceDocNum` | `status`, `holder`, `stale`, `original`, `docNum` |
| position and locals of a creation, of a call, of a full credit | `cpc`; `pc`, `todo`, `hand`, `group`, `current`, `link`; `vpc`, `vdoc` |
| the documents that exist in iCount | `given`, `voided` |
| entries of kind `creditInvoice` in the customer's balance | `balance` |
| invoices with billed delivery notes | `active` |
| `assertInvoiceCanBeCredited`, with `OVER_CREDIT_TOLERANCE` | `CanBeCredited`, `CreditLimit` |
| `create`: key lookup, check, insert under the unique index | `CreateLookup`, `CreateCheck`, `CreateInsert` |
| `issueInvoice` | `IssueRead`, `IssueCheck`, `IssueClaim`, then the shared steps |
| `issueConsolidated` | `BatchRead`, `BatchCheck`, `ClaimOne`, `ReadClaimed`, then the shared steps for each part |
| netting in `closeCustomerMonth` | `CloseRead`, `ClaimOne`, `ReadClaimed`, `CloseSetAside`, then the shared steps |
| `createCreditNote` / `createInvoice` succeeds, is rejected, times out after acting | `Issue`, `IssueRejected`, `IssueLost` |
| reopening after an error, marking and its failure, the balance entry and its failure | `Reopen`, `ReopenFails`, `Mark`, `MarkFails`, `Record`, `RecordFails` |
| `cancel`, `releaseStuckClaims` | `Cancel`, `ReleaseStuckClaims` |
| `creditInvoice`, as far as it meets linked credit notes | `VoidRead` to `VoidWrite` |

The three kinds of call share their steps because the code follows one scheme
three times; where the code differs, the model does: a single credit and a close
mark by `_id` and a batch by `_id` and token; an error ends a single credit and
a close, and a batch goes on with its next part; the close does not check the
invoice of a linked note. The reads of the check are taken as one step. The
comment above the check says that it is no lock and that two notes issued in the
same second can both pass, so the properties that rest on it are stated for
calls that do not overlap (`Faults` without `"overlap"`), where one step and
several are the same. Amounts are one number per note, VAT included.
`MonthlyBilling` and `CreditNotes` both contain the netting: the first with the
invoice it goes into, the second with the other ways a credit note can be given
back.

`OrderNotes.tla` is one order and its delivery notes. Its actors are
synchronisations (`Threads`, an edit being the first part of one), creations of
the automatic note (`Creators`), the creations from a clerk's form (`Forms`),
clerks, billing runs and the print agent.

| code | model |
|---|---|
| the order's status and cart; a note's `billing.status`, lines, `cancelledBySync`, `manuallyEdited`; the lines its invoice was made from | `ostatus`, `cart`; `nstatus`, `content`, `bySync`, `edited`; `charged` |
| the print job of a note; calls that queue one and are not awaited | `job`, `calls`, `Deliver` |
| change of the status with its two hooks; `editOrderItems` | `SetStatus`; `EditRead`, `EditSave`, `EditFails` |
| `createFromOrder` behind the button and behind the status | `IssueButton`, `CreateLook`, `CreateRead`, `Create` |
| `syncFromOrder`: reading | `SyncNote`, `SyncOrder`, `SyncNoOrder` |
| its manual notes | `SyncFind`, `SyncManual`, `SyncManualPrint` |
| its decision and its guarded write | `Verdict`; `SyncLeaves`, `SyncRevives`, `SyncCancels`, `SyncUpdates`, `SyncRaced`, then `SyncPrint` |
| `createManual` | `FormRead`, `FormCheck`, `FormCreate` |
| `update`, `cancel`, deletion of the order | `UpdateRead` to `DeleteOrder` |
| what a billing run does to a note | `BillClaim`, `BillRead`, `BillMark`, `BillRelease` |

The writes ask only for the status that was read, so that one may rest on a
reading no longer true: the history variable
`overtaken` records the first such step (the order, or what the note says, was
not as read), and `missed` that a guarded write found another status and gave up.
The properties speak of behaviours without them, `InvoiceMatchesNote` of all.
A cart and a content are values of `Carts`; whether a line is sold by the piece
or by weight decides which note it is on, so the manual notes are about one and
the same group of weighed goods.

`PrintQueue.tla` is the queue and the agents beside the printer.

| code | model |
|---|---|
| the job: `status`, `attempts`, position by `createdAt`, `lockedAt` older than `STALE_LOCK_MS`; `originalPrintedAt`; the note is deleted | `job`, `attempts`, `line`, `old`; `original`; `gone` |
| an agent, with the server side of its call | `apc`, `found`, `hand`, `cur`, `title`, `ver`, `tries` |
| `queueDeliveryNote`, reprint, cancel, requeue | `Enqueue`, `Reprint`, `Withdraw`, `Requeue` |
| a poll: release of old locks, candidates, claim one by one, answer | `Release`, `Find`, `Claim`, `Given`, `GivenToNobody` |
| the PDF, the note may be gone | `Download`, `DownloadGone` |
| the paper comes out, or does not (external) | `PaperOut`, `PrintFails` |
| report of success and the stamp on the note | `ReportPrinted`, `Stamp` |
| report of failure: the count, then the verdict on it | `ReportFailed`, `Settle` |
| a report lost, an agent restarted, one that lets its lock grow old | `ReportLost`, `Die`, `GrowOld` |

`asked` and `out` count the requests of a note and say which one the last paper
answered. `shared` are the jobs that two agents held at once, `excused` those
that were reset, or grew old, in an agent's hands: what the code itself accepts
as the price of a queue that forgets no job.

`Ingestion.tla` is one WhatsApp sender: deliveries of messages by the webhook,
the records they are collected in, the cron, the people at the screen of
incoming orders. The sender may be a customer or a stranger, and that may change
between the arrival and the reading.

| code | model |
|---|---|
| a record: `status`, the collected text, `processAfter` | `status`, `held`, `due` |
| an order: live, waiting for the fix of its reading, removed; its record, its text, all of the goods or one half of a split, its stock, a note issued by hand | `kind`, `from`, `text`, `share`, `stock`, `noted` |
| `ingestMessage`, `collectWhatsappMessage` | `Receive`, `Look`, `Append`, `Full`, `Insert`, `KnownNow`, `Again`, `Single` |
| the record of an unknown sender (`rejectUnknownSender`, one message of a number at a time) | `Stranger`, `Alone` |
| a database call of an arrival fails: logged, for the sender has had its answer | `ArriveFails` |
| the window, `releaseDue`, release by a person | `WindowEnds`, `CronFind`, `ReleaseNow`, `Claim` |
| `finishIngestion` looks at the sender again, and that call may fail | `Check`, `CheckFails` |
| processing of a record and the creation of its order, and a failing save | `Process`, `MakeOrder`, `Stock`, `Existing`, `MakeError`, `Save`, `SaveFails` |
| `splitDisposablesOrder`: disposables get an order of their own; a failure undoes it | `Split`, `Shrink`, `ShrinkFails`, `Unsplit`, `UnsplitFails` |
| reprocess and retry | `ReprocessRead` to `ReprocessDelete` |
| ignore | `IgnoreRead` to `IgnoreSave` |
| approve an error order, which may be split then | `ApproveRead`, `ApproveClaim`, the split, `Stock`, `Mark`, `ApproveFails` |
| a note issued by hand; the process dies | `IssueNote`; `Crash` |

What the reading makes of a text is a choice of the model (an order, an order
with errors, nothing, a failure): the parser and the language model are outside.
So is who the sender is, and whether an order has disposables and a customer who
wants them apart. `share` tells the two halves of a split apart, and `parts` are
the orders a call has still to take from the stock.
History: `resent` are messages delivered again while a delivery of theirs still
ran, `crossed` records two hands worked on at once, `lost` records whose order
was made and could not be recorded, or whose second order could not be deleted
after a split failed, `late` the texts that joined the record of a stranger
while a person had it read or after it had an order.

`Checkout.tla` is one customer with several tabs, in the shop with payment and
in the one without (`free`, the setting `PAYMENT_DISABLED`).

| code | model |
|---|---|
| an order and its draft's age; what it uses; what is marked used; stock; the reward's code and flag | `order`, `old`; `wants`; `used`; `taken`; `code`, `minted`, `issued` |
| `addOrder`: the earlier draft, the checks, the save, the answer | `FindDraft`, `DropDraft`, `Refuse`, `Accept`, `SaveOrder`, `AddOrderFails`, `ReadBack`, `PaymentPage` |
| the payment company (external) and `updateOrderWebHook` | `Pay`, `Webhook`, `StatusFails`, `WebhookFails` |
| `finalizeOrder`: stock, coupon, customer, reward, last save | `TakeStock`, `MarkCoupon`, `CouponFails`, `MarkCustomer`, `ClaimReward`, `MintReward`, `PutCode`, `RewardFails`, `Rollback`, `Finish`, `FinishFails` |
| what `addOrder` does after an exception of it: the status, then the mail | `Fallback`, `Alert` |
| a request is cut off; five minutes pass | `Crash`; `Age` |

History: `overtaken` are the drafts whose status changed between being found and
being deleted, `shared` what two open orders were allowed to use, `hurt` what a
failure left undone. `mail` says of each call whether its alert was sent or was
lost, with the mail or with the call.

`Payments.tla` is the invoices of one customer, their payments and the balance.

| code | model |
|---|---|
| `billing.status`, `paidAt`, `paidFromBalance` of the notes | `status`, `paidAt`, `fromBalance` |
| a call of `createReceiptForPayment` and what it planned | `pc`, `list`, `received`, `due`, `before`, `todo`, `claimed` |
| receipts in iCount; ledger entries of payments; corrections | `receipts`; `entered`; `adjusted` |
| `planSettlement`; the 409 and the 400 | `Plan`; `AlreadyPaid`, `NotCovered` |
| from the balance: the claim note by note, the entry, taking it back | `FromBalance`, `ClaimNote`, `Claimed`, `ClaimFails`, `RecordFromBalance`, `RecordFails`, `Undo`, `UndoFails` |
| with a receipt: iCount, the marks, the entry | `WithReceipt`, `IssueReceipt`, `ReceiptRejected`, `ReceiptLost`, `MarkPaid`, `MarkFails`, `EnterPayment`, `EnterFails` |
| `creditInvoice` and `refundCancelledInvoice` | `CreditRead` to `RefundFails`, `CreditCrash` |
| `adjust`; the process dies | `Adjust`; `Crash` |

`Balance` is the sum of the entries, computed as the code computes it and
compared when a payment is planned. `incident` collects the invoices hit by a
failure the code can only log, by two payments that overlap where nothing tells
them apart, and by a payment planned while the invoice is being credited.

Each `MC` module gives the constants of its module their values, and in three
cases the constraint described below. Each `Proofs` module holds the theorems of
its module (section 5); `InvoiceBook` holds its own.


## 3. Runs

| run | instance | what it shows |
|---|---|---|
| `faults` | `MonthlyBilling`: 2 runs, 1 credit; crashes, database errors, rejections, lost replies | outside the logged accidents no document is charged twice, a mark names the invoice that lists the document, nothing reopens while it is charged; `MonthlyBilling` implements `InvoiceBook` |
| `cancellations` | 2 runs, 1 cancellation; claims of live runs may age, rejections | what a run has in hand carries its token, and only a cancellation can have changed its status |
| `netting` | 2 runs, 2 credits under the lock; rejections; the credit note does not fit its invoice | a finished run leaves nothing claimed; what is charged stays marked |
| `liveness` | 2 runs; crashes, database errors | no document stays in `billing` for ever |
| `mark_fails` | 1 run; database errors | the disagreement of section 6; the one run that expects a violation |
| `credit_faults` | `CreditNotes`: 1 single credit, 1 consolidated, 1 close; three forms, one of them sent twice; crashes, database errors, lost replies, overlap | outside the logged accidents a credit note is given back once and is marked exactly when it was |
| `credit_one_clerk` | the same calls and 1 full credit, one at a time; rejections, lost replies, claims of live calls may age | a credit invoice never exceeds what its invoice charged by more than the tolerance; a full credit excludes partial ones; every credit invoice reaches the balance |
| `payments` | `Payments`: 2 invoices of 2 notes and 1, 2 payments, 1 credit, 1 correction; every fault | an invoice is settled once; it shows as paid exactly if the balance was charged for it; a credit gives back what the settlement took |
| `order_notes` | `OrderNotes`: the automatic note, 2 forms, 3 carts (one empty), 2 synchronisations, 1 creation, 1 clerk, 2 changes of the order, 2 acts of the clerk | the invoice has the lines of its note; when all is quiet the note follows the order, a cancelled order is not charged, the paper follows the note; the same goods are weighed once; nobody takes back what a person did |
| `printing` | `PrintQueue`: 2 notes in batches of 1, 2 agents, 2 requests, 2 losses, 2 attempts; every fault | a job is in one agent's hands, one that says printed has its paper, a round of attempts is a full one, every job ends, the one behind a job that keeps failing too |
| `ingestion` | `Ingestion`: 2 messages, the first sent twice, 2 people, 3 orders, 2 acts, 1 error, 1 crash | a delivery that ended well is held, and none is taken up twice; an order has all of its record, the goods of a record are ordered once and it says so; goods leave the stock once; what is removed leaves nothing; every record is read |
| `checkout` | `Checkout`: 2 calls, 2 webhooks, 2 errors, 1 crash | who was told that the order stands has it; a benefit serves one order; the reward is given once and not lost; what was left undone is reported, or the mail was lost; stock goes down once for each webhook |

The type invariants are proved (section 5) rather than run.

Every run of `MonthlyBilling` uses two notes on different invoices (a customer
with split invoices) and one credit note for the first invoice, which is the
least that shows a run with two invoices, an invoice with two marking updates
and a credit note without an invoice. The runs of `CreditNotes` use an invoice
of 10, a tolerance of 1 and credit notes of 11 and of 1: the first passes by the
tolerance alone and the second is then one too much, so that the check has
something to refuse on either side of its limit. The invoice of two notes in
`payments` is what a claim note by note can leave half done, and its estimate
differs from what iCount says. One call of each kind is enough for each pair of
kinds to meet; two of a kind where the kind meets itself.

Bounds. `Runs`, `Refunds`, `Cancels`, `Issues`, `Batches`, `Closes`, `Voids`,
`Payments`, `Credits`, `Adjusts`, `Forms`, `Carts` (of `Checkout`), `Hooks` and
`Deliveries` are calls, each made at most once; `Threads`, `Creators`, `Clerks`,
`Agents` and `Admins` work again and again. Counted are changes of the order and
acts of people (`MaxChanges`, `MaxActs`), requests for a note (`MaxAsked`), lost
reports and slow agents (`MaxLosses`), orders made of messages (`MaxOrders`),
failing operations and crashes (`MaxErrors`, `MaxCrashes`). `MaxAttempts`,
`BatchSize` and `MaxTogether` are the code's own limits, made small: two messages
fill a record of 40. Two runs are enough for one to take over what another left
(claimed, half marked, released); the hourly releases are not bounded at all.

Three runs have a constraint, `Explored`. In `MCOrderNotes` it ends a behaviour
at its first step on an outdated reading, of which the properties of the run say
nothing (but for `InvoiceMatchesNote`, which is proved without it), and it
explores the forms and the automatic note one at a time: they share the order
and the clerk, and no field of a note. In `MCIngestion` it allows three
deliveries under a crash; deliveries of both messages under one call of a person,
or two deliveries under one failing database call; and one delivery under two
calls and a failing database call, or one call and a crash. In `MCPrintQueue` it
allows either one note under everything, or two notes of which one stands behind
the other, each asked for once, with failing prints, withdrawals and deletions
and without the losses. What the last two cut off are calls from outside and
failures, which no fairness obliges to happen, so what remains are complete
behaviours and the liveness properties keep their meaning.

Symmetry is used where the members of a set are interchangeable and only
invariants and properties of single steps are checked: the runs of
`cancellations`, the threads and forms of `order_notes`, the calls and webhooks
of `checkout`. Deadlock is not an error: when every call has been made the
system rests.

## 4. Fairness

`ClaimsResolve` is checked under `FairSpec` of `MonthlyBilling`: weak fairness of
the steps of each run that has started (a promise chain of one Node process is
scheduled until it ends or the process dies, which the model may do at any
point), of the passing of thirty minutes (`ClaimAges`), and of the two hourly
releases, which `monthEndCron.js` registers at boot.

`EveryJobEnds` is checked under `FairQueueSpec`: weak fairness of what each agent
does by itself (`Diligence`: it polls in a loop, and works off what it holds),
and of the lock of a job growing old once nobody holds it. An agent that is slow
or dies, and a lost report, may happen and need not.

`EventuallyRead` is checked under `FairSpec` of `Ingestion`: weak fairness of each
delivery that was received, of the window, of the cron that runs every minute,
and of the work that a call has begun.

Starting a run, crediting, cancelling, sending a message and everything people
do carry no fairness, and faults have none either: a fault may happen, and is
never obliged to.

## 5. Proofs

Proved by TLAPS for every set of documents, calls, agents and people, every
amount and bound, and every combination of the faults, from the assumptions of
the modules only. `DocumentsAssumption`: notes and credit notes are different
documents (two collections), each belongs on one invoice key, and its amounts
are naturals. `NumbersAssumption`: the credit notes are finitely many and no two
share a number (`models/CreditNote.js:57`, a unique field), for they are attached
in the order of their numbers. `CreditsAssumption`: the credit notes are finitely
many, each has an amount, a part and possibly an invoice. `InvoicesAssumption` of
`Payments`: finitely many notes and invoices, each note on one invoice, each
invoice with a positive total and estimate. `CallsAssumption` (of
`MonthlyBilling`, `CreditNotes` and `Payments`): the kinds of call are distinct,
the marks for "no token" and "not set" are not tokens or numbers, the faults are
among the kinds listed, and in `Payments` the calls are finitely many and a
correction is not of zero. `NotesAssumption`,
`QueueAssumption`, `IngestionAssumption` and `CheckoutAssumption` say the same of
their modules: kinds of actor are disjoint, "not set" is none of the values, the
sets that are counted are finite, the bounds are naturals.

| theorem | module | says |
|---|---|---|
| `TypeCorrect` | each of the `Proofs` modules | the type invariant |
| `NoDoubleBilling` | `MonthlyBillingProofs` | `ChargedAtMostOnce` |
| `ExclusiveClaims` | | `ClaimsAreExclusive` |
| `MarksNameInvoices` | | `MarkedIsListed` |
| `ReopeningIsSafe` | | `ReopenedIsUncharged`, an action property |
| `NothingLeftUnmarked` | | `ChargedStaysMarked`, when no note is cancelled |
| `EndedRunsHoldNothing` | | `NothingStranded` |
| `NettingLeavesSomething` | | an invoice is of one key, and what is netted on it leaves something to pay |
| `BillingKeepsTheBook` | | `MonthlyBilling` implements `InvoiceBook` |
| `BookIsSound` | `InvoiceBook` | the abstract book charges nothing twice |
| `NoDoubleRefund` | `CreditNotesProofs` | `GivenBackOnce` |
| `MarksNameDocuments` | | `MarkedIffGiven` |
| `FullCreditStandsAlone` | | `FullOrPartial`, one thing at a time |
| `CreditsStayWithin` | | `CreditStaysWithinInvoice`, up to the tolerance: an action property, one thing at a time |
| `CreditsReachTheBalance` | | `CreditReachesBalance`, when no write fails and no process dies |
| `ChargedOnce` | `PaymentsProofs` | `SettledOnce` |
| `MarksTellTheCharge` | | `PaidIffSettled` |
| `RefundIsTheCharge` | | `RefundMatches` |
| `InvoiceKeepsToNote` | `OrderNotesProofs` | `InvoiceMatchesNote` |
| `NoteOfPeopleStays` | | `PeopleDecide`, an action property |
| `GoodsChargedOnce` | | `WeighedOnce` |
| `PaperKeepsUp` | | `PaperFollowsNote` |
| `NotesKeepUp` | | `FollowsOrder` |
| `CancelledStaysUncharged` | | `CancelledIsNotCharged` |
| `JobsAreHandedOnce` | `PrintQueueProofs` | `HandedOnce` |
| `PrintedHasPaper` | | `PrintedMeansPaper` |
| `GivenUpAfterAll` | | `GivesUpLate` |
| `DeliveriesAreHeld` | `IngestionProofs` | `DeliveredIsHeld` |
| `MessageTakenOnce` | | `TakenUpOnce` |
| `OrdersAreWhole` | | `OrderIsWhole` |
| `GoodsLeaveOnce` | | `StockOnce` |
| `OrderedOnce` | | `GoodsOrderedOnce` |
| `RecordsTell` | | `RecordTellsTheTruth` |
| `RemovalsAreClean` | | `RemovedLeavesNothing` |
| `WhatWasToldStands` | `CheckoutProofs` | `AnsweredIsServed` |
| `OneReward` | | `RewardOnce` |
| `RewardArrives` | | `RewardNotLost` |
| `UnmarkedIsReported` | | `UndoneIsAlerted` |
| `BenefitServesOnce` | | `SpentOnce` |
| `StockPerWebhook` | | `StockOnce` |

`ChargedAtMostOnce` is far from inductive: it says nothing of why a run about
to issue an invoice may do so. The inductive invariant `IInv` adds the reason,
in parts: a document in hand carries the run's token (`InHand`); a claimed
document is charged by no invoice but the one its run has issued and not yet
marked (`Claimed`); an unclaimed one is charged by the invoice whose number it
carries, or by none (`Unclaimed`); a claim old enough for the hourly release
belongs to a dead run (`StaleIsDead`); a run has not yet issued the invoice of
a key whose notes it still holds (`Fresh`); what a credit call read stays as it
read it until it writes (`Crediting`); where a run stands tells what it can have
in hand (`Phases`). `Unclaimed` admits a cancelled note under an uncredited
invoice (section 6, the first of the list), and the invariant holds with it.
Every part speaks of the documents outside `incident`, so an accident to one
document weakens nothing about the others. There is one lemma per action;
`NextInv` puts them together. The refinement needs one more invariant,
`NumbersAreIssued`: whoever names an invoice names one that exists.
`NothingLeftUnmarked` needs `CancelledIsCredited`: while nobody cancels notes, a
cancelled document was cancelled by the credit of its invoice, so that nobody
holds it and no uncredited invoice charges it. The theorem assumes
`Cancels = {}`, as the run of the property (`netting`) does: a cancellation
decides on the status it read and may take a note out of a live invoice
(section 6).

`NothingStranded` and `NettingLeavesSomething` look at the pass that attaches
credit notes to invoices (`attachCredits`), a fold over the credit notes by
number. A run makes the pass twice: it sets aside what was rejected, and bills
what the pass accepts of the rest. Were the two to disagree, an accepted credit
note would stay claimed, or an invoice would go below zero. The fold over a set is
the fold over the set without its greatest number, and one step (`Follows`);
what follows for every set is shown by assuming a smallest set for which it fails
(`SmallestSubset`), since induction over sets is out of the provers' reach.
Repeating the pass on what it accepted accepts it all, and on what it accepted
it never overdraws. The invariants are `Visits` (what a run has in hand at each
step) and `AtHand` (a document with the token of a run is where the run will look
for it).

`CreditNotesProofs` has an inductive invariant of the same kind, also named
`IInv`. New in it: a single credit has one note at most, so that a failure
leaves nothing in its hand (`Phases`); a note that a call holds was created
(`InHand`), and one not yet created is absent (`Creating`), so that no reopening
creates a note; status `billing` and a token go together for every note, hit by
an accident or not (`HeldIsBilling`), which the code of the delivery notes does
not give (a cancellation keeps the token). A call may have in hand an unsound
note that another call holds as well, and reopen or mark it: the clauses about
sound notes survive that, which is why they are stated for those only.

Two of its theorems assume that `Faults` has no `"overlap"`, which the run
`credit_one_clerk` leaves out as well. The code's comment grants that the check is
no lock (`creditNotes.js`, above `assertInvoiceCanBeCredited`); the theorems say
that nothing else can break the promise: no crash, rejection, lost answer, failed
write, netting, old claim or second note of a batch. `AInv` adds to `IInv` that
one thing is under way (`Alone`), which invoice a call and its document are
about (`Linking`, `Based`), that what a call has checked is still there
(`CheckedActive`), and that a full credit sees every credit invoice there is
(`VoidTells`). `Room` says that what was given back against an invoice, and what
the call past its check may still give back, fit in it together; the check makes
it true and a claim that loses notes keeps it. `CreditsReachTheBalance` allows any
number of calls at once and assumes neither failing writes nor crashes: the code
logs a failure to write the entry and goes on, so that nothing else is promised.

`OrderNotesProofs` has two. `InvoiceMatchesNote` holds in every behaviour, and
`IInv` needs little for it: what a call is about to write is a content, on a note
(`Handed`). The two others hold until a step acts on an outdated reading:
`Settled` says that a form not yet sent has no note, that a note a person edited
exists and has the person's content, and that at most one form's note counts.
The step that would break it is the one that sets `overtaken`.

What holds once everything has settled is proved from what holds before.
`Papers` says of each note and its job that they agree or that somebody is on the
way: a call that was queued, a synchronisation or a clerk about to withdraw or
requeue it, a deletion. `Pursued` says of each way the notes can differ from
the order (a cart not yet taken over, a cancellation not yet carried out, a
revival not yet made) that a synchronisation is under way whose readings will
make it act: it has not read yet, or what it read is as it is now. Every change
of the order starts one, and one that cannot act any more has set `overtaken` or
`missed`. With nothing under way both leave the property.

`PaymentsProofs` says five things of each invoice outside `incident`. Payments of
it that are past their check are told apart by the claim of its notes, and none
runs beside a credit (`Apart`); it stands with all of its notes, or a credit took
it away with all of them (`Standing`); while it stands, each note carries the mark
of the payment that charges it and of no other (`Marking`); one payment charges
it (`Once`); and a credit has read what there was to give back (`Refunding`).
Two payments told apart are both paid from the balance and about one note, so
that the second fails to claim it: `Marking` says for which payment a claimed
note counts as charged at each step. That the balance is an integer whatever
was entered (`TypeCorrect`) needs the sums over sets: a sum is the sum without
one of its members, and that member (`SumRecursion`, from the recursion that the
fold of the library is defined by).

`PrintQueueProofs`: `InHand` (an agent works on a job it was given), `Exclusive`
(a job in two pairs of hands is shared, and every shared one excused; one held
and not excused waits for nobody and is young) and `Current` (what an agent has
in hand answers the latest request while the job is printing, unless it is
shared). The verdicts `PrintedMeansPaper` and `GivesUpLate` are inductive with
these three.

`IngestionProofs`: `Hands` says of each call what it has in hand (the text of a
closed record as it still is, but for what is `late`, the order it made and of
which record) and of each order what it is made of, orders being numbered as
they come; `Goods` adds that goods not yet taken are taken by one call, which
has their order in `parts`, and `Kept` where the message of each delivery is.
`Records` says what a record comes to while no two hands worked on it at once:
who works on it works alone, can rely on what it found (`Sure`), and knows all
orders of the record as long as none was lost (`Tells`), so that when it is done
the record says what became of it (`Said`); of two orders the one is the half of
the goods that the other is not, or the call that made them is about to see to
that (`Halves`). A step touches one record (`Worked`, `Taken`) or nobody's work
(`NoWork`); the others keep their part by `Elsewhere`, so that each action is
looked at for its own record only.

`CheckoutProofs` builds in layers: `Places` (which order a request is about and
that it was saved), `Shop` (no webhooks without payment, no closing by a call
with it), and on top of them one invariant for each property: `Told` for who was
answered, `Rewards` for the flag, the code and who is between them, `Coupons`
for the mark, `TakenByCall` and `TakenByHooks` for the stock, `Marked` and
`OneUser` for what an order spends: an order that reached the staff has marked
what it uses, or is marking it, and of a benefit that is neither shared nor hurt
at most one order or call makes use.

Only model-checked: the liveness properties (`ClaimsResolve`, `EveryJobEnds`,
`EventuallyRead`), since liveness under fairness is out of these provers' reach.
Every invariant and every action property of the passing runs is a theorem, with
the hypotheses given above.

## 6. What the checks found

`mark_fails` is a disagreement of the code with its comment: a marking update
that fails reopens the notes of an invoice that exists. The inner handler logs
the orphan and rethrows into the handler that releases everything still in
`billing`; its comment (`monthlyBilling.js:763`) says an issued group stays
billed.

The others have no run of their own; the models contain them, and the exceptions
the properties name are there because of them.

- `cancel` decides on the status it read: a run that claims and bills the note in
  between leaves a cancelled note on a live invoice (`deliveryNotes.js:1393`).
- The credit button does not take the lock of the reissue
  (`billingController.js:823`): overlapping one, it opens a second credit.
- A credit that reads between the two marking updates of a run misses the netted
  credit notes (`monthlyBilling.js:1485`).
- Netting in a monthly invoice does not look at the invoice a credit note is
  linked to (`monthlyBilling.js:787`): two notes, each within its invoice when
  it was created, are netted for more than it.
- A full credit looks for partial credits that are already marked: one that is
  being issued is not seen (`monthlyBilling.js:1448`).
- A credit note whose credit invoice was issued and whose marking failed keeps
  its claim, and the hourly release, meant for a process that fell before the
  issuing (`creditNotes.js:830`), reopens it.
- Two payments of one invoice that overlap are told apart from the balance and
  with one note only: in every other case both settle it
  (`billingController.js:967`).
- A synchronisation that read the note before a person edited it writes over the
  edit, for its write asks for the status alone (`deliveryNotes.js:612`).
- Reports name the job and not the agent: after a reprint that a second agent has
  taken, the late report of the first closes the job before the second paper is
  out (`printJobController.js:182`).
- The webhook answers before it works. A database call of the arrival that fails
  after that is only logged: the message may be in no record, and its sender does
  not send it again (`incomingOrderController.js:285`).
- A message that joins the record of an unknown sender while a person has it read
  again, from the text loaded before, or after that gave an order, is in no order
  (`order-ingestion/index.js:1176` and `:1972`).
- A split that fails after its second order was saved deletes it again; when that
  fails too, the same goods stand on two orders, and the log asks a person to
  delete one (`disposablesSplit.js:119`).
- A reward written on an order that is then deleted as a draft is lost: the flag
  on the customer stays (`customerOrderController.js:72`).
- An order that could not be closed goes to the staff before the alert is mailed:
  when the call dies in between, or the mail fails, nobody is told that its coupon
  is not marked (`customerOrderController.js:637`, `:646`, `:663`).
- Credits may give back more than their invoice charged, by the tolerance of the
  check (`creditNotes.js:48`).
- Ignoring a message deletes its error order without looking for a delivery note
  of it, which the rereading does (`incomingOrderController.js:474`).
- In the shop with payment a draft found by a second call and paid meanwhile is
  deleted after its webhook made an order of it (`customerOrderController.js:72`).

What a history variable excuses (`incident`, `overtaken`, `missed`, `shared`,
`hurt`, `excused`, `resent`, `crossed`, `lost`, `late`) the properties do not
catch: there the code itself goes wrong, or asks a person to look. `PROJECT.json`
says so at each hazard it concerns. What they do catch is that nothing else goes
wrong, and that the accident to one document leaves the others alone.

## 7. Not modelled

In the parts above: the demo pocket (`ledger.js` selects other fields of the
same documents; the models are in live mode), amounts beyond the few numbers the
code compares, wording and dates, mail but for the alert of the checkout.
iCount, the payment company, the print agent and WhatsApp are external and seen
from their callers only.

- Reissue: the credit, the edit and the new invoice are modelled each on its own,
  and the saga that strings them together is not.
- `duplicate` of notes and of orders: they make independent documents.
- The receipt on account, without an invoice: an entry and nothing to compare it with.
- Order and note numbers: one `$inc` of a counter for each; the models take a new
  number as new.
- Offers, coupons and prices beyond their single use: arithmetic over catalogue
  data. The pure functions on lines and VAT: arithmetic on one document.
- Parsing of order texts (`resolvers.js`, `tableParser.js`, the prompts and the
  matching of products): heuristics and a language model, without state.
- Readers of mail, links and files; reports and exports; quotes; the lottery;
  catalogue, price lists, settings, accounts; templates; scripts, self-tests and
  seed data (`utils/products.js` alone is 20,000 lines of it).

This is why the models stand for a small share of the repository's lines: most
of them move, format or list independent documents, and the protocols modelled
here live in a few files.

Still worth stating and proving: an abstract account of one invoice (open, paid,
credited) that `Payments` implements as `MonthlyBilling` implements the book, and
an abstract order, of which `Ingestion`, `OrderNotes` and `MonthlyBilling` are
three views, which would say in one place that what the sender wrote is what the
customer is charged.
