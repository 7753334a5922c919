----------------------------- MODULE PrintQueue -----------------------------
(***************************************************************************)
(* The print queue of delivery notes: lib/printing/printJobs.js, which     *)
(* puts jobs in and takes them out, and controller/printJobController.js,  *)
(* the four calls of the print agents beside the printer.                  *)
(*                                                                         *)
(* There is one job per note (unique index on docType and docId); a new    *)
(* request resets it.  An agent polls, claims up to BatchSize of the       *)
(* oldest pending jobs, and for each of them downloads the PDF, prints it  *)
(* and reports.  Reports name the job and nothing else: the server accepts *)
(* one while the job is `printing', whoever holds it.                      *)
(***************************************************************************)
EXTENDS Naturals, Sequences, FiniteSets

CONSTANTS
    Docs,         \* delivery notes
    Agents,       \* print agents
    MaxAttempts,  \* MAX_ATTEMPTS
    BatchSize,    \* BATCH_SIZE
    MaxAsked,     \* bound: requests per note
    MaxLosses,    \* bound: restarts and slow turns of agents, lost answers
    Faults,       \* which kinds of failure the environment may show
    None          \* "no note in hand"

FaultKinds == {"slowAgent", "lostReply", "lostReport", "printerFails", "dbFails"}

ASSUME QueueAssumption ==
    /\ IsFiniteSet(Docs)
    /\ None \notin Docs
    /\ MaxAttempts \in Nat \ {0}
    /\ BatchSize \in Nat \ {0}
    /\ MaxAsked \in Nat
    /\ MaxLosses \in Nat
    /\ Faults \subseteq FaultKinds

VARIABLES
    job,       \* job[d]: status of the note's job, "none" before there is one
    attempts,  \* attempts[d]: failed attempts since the last reset
    line,      \* the jobs by createdAt, which a reset leaves as it was
    old,       \* jobs whose lockedAt is more than STALE_LOCK_MS ago
    original,  \* notes with originalPrintedAt
    gone,      \* notes deleted from the database
    apc,       \* apc[a]: where agent a stands, server side included
    found,     \* found[a]: candidates of its poll not yet tried
    hand,      \* hand[a]: jobs it was given and is not done with
    cur,       \* cur[a]: the one it works on
    title,     \* title[a]: does its PDF say "original"?
    ver,       \* ver[a]: the request its PDF answers
    tries,     \* tries[a]: attempts as markFailed read it
    asked,     \* asked[d]: requests so far (history)
    out,       \* out[d]: the latest request a paper came out for (history)
    originals, \* originals[d]: papers titled "original", up to two (history)
    shared,    \* jobs given to an agent while another held them (history)
    excused,   \* jobs reset, or grown old, in an agent's hands (history)
    losses     \* how many of those so far

jobVars     == <<job, attempts, line, old>>
agentVars   == <<apc, found, hand, cur, title, ver, tries>>
historyVars == <<out, originals, shared>>
queueVars   == <<jobVars, original, gone, agentVars, asked, historyVars, excused, losses>>

JobStatus == {"none", "pending", "printing", "printed", "failed", "cancelled"}

AgentSteps == {"idle", "find", "claim", "work", "print", "report", "stamp",
               "fail", "settle"}

QueueTypeOK ==
    /\ job \in [Docs -> JobStatus]
    /\ attempts \in [Docs -> 0..MaxAttempts]
    /\ line \in Seq(Docs)
    /\ old \in SUBSET Docs
    /\ original \in SUBSET Docs
    /\ gone \in SUBSET Docs
    /\ apc \in [Agents -> AgentSteps]
    /\ found \in [Agents -> SUBSET Docs]
    /\ hand \in [Agents -> SUBSET Docs]
    /\ cur \in [Agents -> Docs \cup {None}]
    /\ title \in [Agents -> BOOLEAN]
    /\ ver \in [Agents -> Nat]
    /\ tries \in [Agents -> 0..MaxAttempts]
    /\ asked \in [Docs -> Nat]
    /\ out \in [Docs -> Nat]
    /\ originals \in [Docs -> 0..2]
    /\ shared \in SUBSET Docs
    /\ excused \in SUBSET Docs
    /\ losses \in 0..MaxLosses

QueueInit ==
    /\ job = [d \in Docs |-> "none"]
    /\ attempts = [d \in Docs |-> 0]
    /\ line = << >>
    /\ old = {}
    /\ original = {}
    /\ gone = {}
    /\ apc = [a \in Agents |-> "idle"]
    /\ found = [a \in Agents |-> {}]
    /\ hand = [a \in Agents |-> {}]
    /\ cur = [a \in Agents |-> None]
    /\ title = [a \in Agents |-> FALSE]
    /\ ver = [a \in Agents |-> 0]
    /\ tries = [a \in Agents |-> 0]
    /\ asked = [d \in Docs |-> 0]
    /\ out = [d \in Docs |-> 0]
    /\ originals = [d \in Docs |-> 0]
    /\ shared = {}
    /\ excused = {}
    /\ losses = 0

(* An agent restarts or is slow, or an answer is lost: bounded.            *)
Lose == losses < MaxLosses /\ losses' = losses + 1

Held(d) == \E a \in Agents : d \in hand[a]

-----------------------------------------------------------------------------
(* printJobs.js                                                            *)

Status(d, s) == job' = [job EXCEPT ![d] = s]

Ask(d) == asked' = [asked EXCEPT ![d] = @ + 1]

InLine(d) == line' = IF job[d] = "none" THEN Append(line, d) ELSE line

(* queueDeliveryNote: $setOnInsert, so a job that exists stays as it is.   *)
Enqueue(d) ==
    IF job[d] = "none"
    THEN /\ Status(d, "pending")
         /\ InLine(d)
         /\ Ask(d)
         /\ UNCHANGED <<attempts, old, original, gone, agentVars, historyVars,
                        excused, losses>>
    ELSE UNCHANGED queueVars

(* queueDeliveryNote with reprint: the job starts over, even in an agent's *)
(* hands.                                                                  *)
Reprint(d) ==
    /\ Status(d, "pending")
    /\ InLine(d)
    /\ Ask(d)
    /\ attempts' = [attempts EXCEPT ![d] = 0]
    /\ old' = old \ {d}
    /\ excused' = IF Held(d) THEN excused \cup {d} ELSE excused
    /\ UNCHANGED <<original, gone, agentVars, historyVars, losses>>

(* cancelDeliveryNotePrint: only a job nobody holds.                       *)
Withdraw(d) ==
    IF job[d] = "pending"
    THEN /\ Status(d, "cancelled")
         /\ UNCHANGED <<attempts, line, old, original, gone, agentVars, asked,
                        historyVars, excused, losses>>
    ELSE UNCHANGED queueVars

(* requeueCancelledDeliveryNotePrint                                       *)
Requeue(d) ==
    IF job[d] = "cancelled"
    THEN /\ Status(d, "pending")
         /\ Ask(d)
         /\ attempts' = [attempts EXCEPT ![d] = 0]
         /\ UNCHANGED <<line, old, original, gone, agentVars, historyVars,
                        excused, losses>>
    ELSE UNCHANGED queueVars

(* The print window of the panel was closed: the original left that way.   *)
WindowClosed(d) ==
    /\ d \notin gone
    /\ original' = original \cup {d}
    /\ UNCHANGED <<jobVars, gone, agentVars, asked, historyVars, excused, losses>>

(* Deleting an order deletes its notes and leaves their jobs.              *)
Delete(d) ==
    /\ gone' = gone \cup {d}
    /\ UNCHANGED <<jobVars, original, agentVars, asked, historyVars, excused, losses>>

-----------------------------------------------------------------------------
(* printJobController.js                                                   *)

Step(a, s) == apc' = [apc EXCEPT ![a] = s]

(* getPendingJobs, first: locks that are too old are released.             *)
Release(a) ==
    /\ apc[a] = "idle"
    /\ job' = [d \in Docs |->
                  IF job[d] = "printing" /\ d \in old THEN "pending" ELSE job[d]]
    /\ old' = {}
    /\ Step(a, "find")
    /\ UNCHANGED <<attempts, line, original, gone, found, hand, cur, title, ver,
                   tries, asked, historyVars, excused, losses>>

Pending == {i \in DOMAIN line : job[line[i]] = "pending"}

(* Then: the oldest pending jobs, as candidates.                           *)
Find(a) ==
    /\ apc[a] = "find"
    /\ found' = [found EXCEPT ![a] =
           {line[i] : i \in {k \in Pending :
                               Cardinality({j \in Pending : j < k}) < BatchSize}}]
    /\ Step(a, IF Pending = {} THEN "idle" ELSE "claim")
    /\ UNCHANGED <<jobVars, original, gone, hand, cur, title, ver, tries, asked,
                   historyVars, excused, losses>>

(* The candidates are tried one after the other, the oldest first.         *)
Tries(a, d) ==
    /\ apc[a] = "claim"
    /\ d \in found[a]
    /\ \E i \in DOMAIN line : line[i] = d /\ \A j \in 1..(i - 1) : line[j] \notin found[a]
    /\ found' = [found EXCEPT ![a] = @ \ {d}]

(* Mutant: the claim does not ask for `pending'.                           *)
ClaimAny(a, d) ==
    /\ Tries(a, d)
    /\ Status(d, "printing")
    /\ old' = old \ {d}
    /\ hand' = [hand EXCEPT ![a] = @ \cup {d}]
    /\ shared' = IF Held(d) THEN shared \cup {d} ELSE shared
    /\ UNCHANGED <<attempts, line, original, gone, apc, cur, title, ver, tries,
                   asked, out, originals, excused, losses>>

(* One candidate: claimed if it still is pending, skipped otherwise.       *)
Claim(a, d) ==
    /\ Tries(a, d)
    /\ IF job[d] = "pending"
       THEN /\ Status(d, "printing")
            /\ old' = old \ {d}
            /\ hand' = [hand EXCEPT ![a] = @ \cup {d}]
            /\ shared' = IF Held(d) THEN shared \cup {d} ELSE shared
       ELSE UNCHANGED <<job, old, hand, shared>>
    /\ UNCHANGED <<attempts, line, original, gone, apc, cur, title, ver, tries,
                   asked, out, originals, excused, losses>>

Given(a) ==
    /\ apc[a] = "claim"
    /\ found[a] = {}
    /\ Step(a, IF hand[a] = {} THEN "idle" ELSE "work")
    /\ UNCHANGED <<jobVars, original, gone, found, hand, cur, title, ver, tries,
                   asked, historyVars, excused, losses>>

(* The reply to the poll is lost: the jobs stay claimed for nobody.        *)
GivenToNobody(a) ==
    /\ "lostReply" \in Faults
    /\ Lose
    /\ apc[a] = "claim"
    /\ found[a] = {}
    /\ hand' = [hand EXCEPT ![a] = {}]
    /\ Step(a, "idle")
    /\ UNCHANGED <<jobVars, original, gone, found, cur, title, ver, tries, asked,
                   historyVars, excused>>

(* getJobPdf: the content, and whether it is the original, of this moment. *)
Download(a, d) ==
    /\ apc[a] = "work"
    /\ d \in hand[a] \ gone
    /\ cur' = [cur EXCEPT ![a] = d]
    /\ title' = [title EXCEPT ![a] = d \notin original]
    /\ ver' = [ver EXCEPT ![a] = asked[d]]
    /\ Step(a, "print")
    /\ UNCHANGED <<jobVars, original, gone, found, hand, tries, asked, historyVars,
                   excused, losses>>

(* The agent is done with one job and goes to the next, or polls again.    *)
Leave(a, d) ==
    /\ hand' = [hand EXCEPT ![a] = @ \ {d}]
    /\ cur' = [cur EXCEPT ![a] = None]
    /\ title' = [title EXCEPT ![a] = FALSE]
    /\ ver' = [ver EXCEPT ![a] = 0]
    /\ tries' = [tries EXCEPT ![a] = 0]
    /\ Step(a, IF hand[a] = {d} THEN "idle" ELSE "work")
    /\ UNCHANGED found

(* The note is gone: the job is closed, whatever its status.               *)
DownloadGone(a, d) ==
    /\ apc[a] = "work"
    /\ d \in hand[a] \cap gone
    /\ Status(d, "failed")
    /\ old' = old \ {d}
    /\ Leave(a, d)
    /\ UNCHANGED <<attempts, line, original, gone, asked, historyVars, excused, losses>>

PaperOut(a) ==
    /\ apc[a] = "print"
    /\ out' = [out EXCEPT ![cur[a]] = IF ver[a] > @ THEN ver[a] ELSE @]
    /\ originals' = IF title[a] /\ originals[cur[a]] < 2
                    THEN [originals EXCEPT ![cur[a]] = @ + 1] ELSE originals
    /\ Step(a, "report")
    /\ UNCHANGED <<jobVars, original, gone, found, hand, cur, title, ver, tries,
                   asked, shared, excused, losses>>

(* No paper, printer off, or the PDF could not be made.                    *)
PrintFails(a) ==
    /\ "printerFails" \in Faults
    /\ apc[a] = "print"
    /\ Step(a, "fail")
    /\ UNCHANGED <<jobVars, original, gone, found, hand, cur, title, ver, tries,
                   asked, historyVars, excused, losses>>

(* Mutant: the report is taken whatever became of the job.                 *)
ReportPrintedAnyway(a) ==
    /\ apc[a] = "report"
    /\ Status(cur[a], "printed")
    /\ old' = old \ {cur[a]}
    /\ Step(a, "stamp")
    /\ UNCHANGED <<attempts, line, original, gone, found, hand, cur, title, ver,
                   tries, asked, historyVars, excused, losses>>

(* markPrinted, respondToStaleReport                                       *)
ReportPrinted(a) ==
    /\ apc[a] = "report"
    /\ IF job[cur[a]] = "printing"
       THEN /\ Status(cur[a], "printed")
            /\ old' = old \ {cur[a]}
            /\ Step(a, "stamp")
            /\ UNCHANGED <<found, hand, cur, title, ver, tries>>
       ELSE Leave(a, cur[a]) /\ UNCHANGED <<job, old>>
    /\ UNCHANGED <<attempts, line, original, gone, asked, historyVars, excused, losses>>

(* markOriginalPrinted; its failure is logged and the reply is the same.   *)
Stamp(a) ==
    /\ apc[a] = "stamp"
    /\ \/ original' = original \cup ({cur[a]} \ gone)
       \/ "dbFails" \in Faults /\ UNCHANGED original
    /\ Leave(a, cur[a])
    /\ UNCHANGED <<jobVars, gone, asked, historyVars, excused, losses>>

(* $inc; beyond MAX_ATTEMPTS the number makes no difference (bound).       *)
OneMore(n) == IF n < MaxAttempts THEN n + 1 ELSE n

(* markFailed, first write: one more attempt, the status stays.            *)
ReportFailed(a) ==
    /\ apc[a] = "fail"
    /\ LET d == cur[a] IN
         IF job[d] = "printing"
         THEN /\ attempts' = [attempts EXCEPT ![d] = OneMore(@)]
              /\ tries' = [tries EXCEPT ![a] = OneMore(attempts[d])]
              /\ Step(a, "settle")
              /\ UNCHANGED <<found, hand, cur, title, ver>>
         ELSE Leave(a, d) /\ UNCHANGED attempts
    /\ UNCHANGED <<job, line, old, original, gone, asked, historyVars, excused, losses>>

Verdict(a) == IF tries[a] >= MaxAttempts THEN "failed" ELSE "pending"

(* Mutant: the second write does not ask for `printing'.                   *)
SettleAnyway(a) ==
    /\ apc[a] = "settle"
    /\ Status(cur[a], Verdict(a))
    /\ old' = old \ {cur[a]}
    /\ Leave(a, cur[a])
    /\ UNCHANGED <<attempts, line, original, gone, asked, historyVars, excused, losses>>

(* Mutant: a job that fails is tried again without end.                    *)
SettleForever(a) ==
    /\ apc[a] = "settle"
    /\ IF job[cur[a]] = "printing"
       THEN Status(cur[a], "pending") /\ old' = old \ {cur[a]}
       ELSE UNCHANGED <<job, old>>
    /\ Leave(a, cur[a])
    /\ UNCHANGED <<attempts, line, original, gone, asked, historyVars, excused, losses>>

(* Second write: back in line, or given up for a person to handle.         *)
Settle(a) ==
    /\ apc[a] = "settle"
    /\ IF job[cur[a]] = "printing"
       THEN Status(cur[a], Verdict(a)) /\ old' = old \ {cur[a]}
       ELSE UNCHANGED <<job, old>>
    /\ Leave(a, cur[a])
    /\ UNCHANGED <<attempts, line, original, gone, asked, historyVars, excused, losses>>

(* A report does not arrive, or the server fails before the second write.  *)
ReportLost(a) ==
    /\ "lostReport" \in Faults
    /\ Lose
    /\ apc[a] \in {"report", "fail", "settle"}
    /\ Leave(a, cur[a])
    /\ UNCHANGED <<jobVars, original, gone, asked, historyVars, excused>>

(* The agent's machine restarts and forgets what it was given.             *)
Die(a) ==
    /\ Lose
    /\ apc[a] \in {"work", "print", "report", "fail"}
    /\ hand' = [hand EXCEPT ![a] = {}]
    /\ cur' = [cur EXCEPT ![a] = None]
    /\ title' = [title EXCEPT ![a] = FALSE]
    /\ ver' = [ver EXCEPT ![a] = 0]
    /\ Step(a, "idle")
    /\ UNCHANGED <<jobVars, original, gone, found, tries, asked, historyVars, excused>>

(* Ten minutes pass.  An agent that still holds the job is a slow one.     *)
GrowOld(d) ==
    /\ job[d] = "printing"
    /\ d \notin old
    /\ IF Held(d)
       THEN "slowAgent" \in Faults /\ Lose /\ excused' = excused \cup {d}
       ELSE UNCHANGED <<excused, losses>>
    /\ old' = old \cup {d}
    /\ UNCHANGED <<job, attempts, line, original, gone, agentVars, asked,
                   historyVars>>

-----------------------------------------------------------------------------
AgentStep(a) ==
    \/ Release(a) \/ Find(a) \/ Given(a) \/ GivenToNobody(a)
    \/ \E d \in Docs : Claim(a, d) \/ Download(a, d) \/ DownloadGone(a, d)
    \/ PaperOut(a) \/ PrintFails(a)
    \/ ReportPrinted(a) \/ Stamp(a)
    \/ ReportFailed(a) \/ Settle(a)
    \/ ReportLost(a) \/ Die(a)

(* What the rest of the server asks of the queue.                          *)
Request(d) ==
    \/ asked[d] < MaxAsked /\ d \notin gone /\ Enqueue(d)
    \/ asked[d] < MaxAsked /\ d \notin gone /\ Reprint(d)
    \/ asked[d] < MaxAsked /\ d \notin gone /\ Requeue(d)
    \/ Withdraw(d)
    \/ WindowClosed(d)
    \/ Delete(d)

QueueNext ==
    \/ \E a \in Agents : AgentStep(a)
    \/ \E d \in Docs : Request(d) \/ GrowOld(d)

QueueSpec == QueueInit /\ [][QueueNext]_queueVars

(* The agents keep polling and time passes.  Faults are never owed.        *)
Diligence(a) ==
    \/ Release(a) \/ Find(a) \/ Given(a)
    \/ \E d \in Docs : Claim(a, d) \/ Download(a, d) \/ DownloadGone(a, d)
    \/ PaperOut(a) \/ ReportPrinted(a) \/ Stamp(a) \/ ReportFailed(a) \/ Settle(a)

FairQueueSpec ==
    /\ QueueSpec
    /\ \A a \in Agents : WF_queueVars(Diligence(a))
    /\ \A d \in Docs : WF_queueVars(GrowOld(d) /\ ~Held(d))

-----------------------------------------------------------------------------
(* A job is in the hands of two agents only after somebody asked for the   *)
(* note again or an agent kept it past the lock                            *)
(* (printJobController.js:13-15: no note is printed twice by two agents).  *)
HandedOnce == shared \subseteq excused

(* A job that says `printed' has a paper for the latest request of it: no  *)
(* late report swallows a request (printJobController.js:17-19), as long   *)
(* as no second agent took the job meanwhile.                              *)
PrintedMeansPaper ==
    \A d \in Docs \ shared : job[d] = "printed" => out[d] = asked[d]

(* A job is given up only after MAX_ATTEMPTS failures of its latest        *)
(* request, or because the note is gone: a reprint buys a full new round   *)
(* (printJobs.js:50-52), as long as no second agent took the job.          *)
GivesUpLate ==
    \A d \in Docs \ shared :
        job[d] = "failed" => attempts[d] >= MaxAttempts \/ d \in gone

(* Every job that waits is printed, given up or cancelled in the end: an   *)
(* agent that vanished does not keep it, and a job that keeps failing,     *)
(* which fills the batch of every poll, is given up before long and does   *)
(* not hide the job behind it (printJobController.js:30-36, 84).           *)
EveryJobEnds ==
    \A d \in Docs :
        job[d] \in {"pending", "printing"}
            ~> job[d] \in {"printed", "failed", "cancelled"}

=============================================================================
