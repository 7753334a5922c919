-------------------------- MODULE PrintQueueProofs --------------------------
(***************************************************************************)
(* Proofs about PrintQueue, for any number of notes and agents, any batch  *)
(* size and any number of attempts.                                        *)
(***************************************************************************)
EXTENDS PrintQueue, TLAPS

Busy == {"print", "report", "stamp", "fail", "settle"}

(* An agent works on a job it was given.                                   *)
InHand == \A a \in Agents : apc[a] \in Busy => cur[a] \in hand[a]

(* A job in two hands is shared; one in one pair of hands and in no excuse *)
(* waits for nobody, and its lock is young.                                *)
Exclusive ==
    /\ shared \subseteq excused
    /\ \A a, b \in Agents : a # b => hand[a] \cap hand[b] \subseteq shared
    /\ \A a \in Agents : \A d \in hand[a] \ excused :
          job[d] \notin {"none", "pending", "cancelled"} /\ d \notin old

(* The paper in an agent's hands answers the latest request, and its count *)
(* of the failures is the job's, while the job is printing.                *)
CurrentOf(a) ==
    /\ apc[a] \in {"print", "report"} => ver[a] <= asked[cur[a]]
    /\ apc[a] \in Busy /\ cur[a] \notin shared /\ job[cur[a]] = "printing" =>
          /\ apc[a] \in {"print", "report"} => ver[a] = asked[cur[a]]
          /\ apc[a] = "report" => out[cur[a]] = asked[cur[a]]
          /\ apc[a] = "settle" => attempts[cur[a]] = tries[a]

Current ==
    /\ \A d \in Docs : out[d] <= asked[d]
    /\ \A a \in Agents : CurrentOf(a)

LEMMA HandsAreNotes ==
    ASSUME QueueTypeOK, NEW a \in Agents
    PROVE  hand[a] \subseteq Docs /\ \A d \in hand[a] : Held(d)
BY DEF QueueTypeOK, Held

LEMMA CurIsNote ==
    ASSUME QueueTypeOK, InHand, NEW a \in Agents, apc[a] \in Busy
    PROVE  cur[a] \in Docs /\ cur[a] \in hand[a]
BY DEF QueueTypeOK, InHand

-----------------------------------------------------------------------------
LEMMA InitType == QueueInit => QueueTypeOK
BY QueueAssumption DEF QueueInit, QueueTypeOK, JobStatus, AgentSteps

LEMMA Bounds ==
    /\ 0 \in 0..MaxAttempts
    /\ \A n \in 0..MaxAttempts : OneMore(n) \in 0..MaxAttempts
    /\ losses \in 0..MaxLosses /\ losses < MaxLosses => losses + 1 \in 0..MaxLosses
BY QueueAssumption DEF OneMore

LEMMA LeaveType ==
    ASSUME QueueTypeOK, NEW a \in Agents, NEW d, Leave(a, d)
    PROVE  /\ apc' \in [Agents -> AgentSteps]
           /\ found' \in [Agents -> SUBSET Docs]
           /\ hand' \in [Agents -> SUBSET Docs]
           /\ cur' \in [Agents -> Docs \cup {None}]
           /\ title' \in [Agents -> BOOLEAN]
           /\ ver' \in [Agents -> Nat]
           /\ tries' \in [Agents -> 0..MaxAttempts]
BY Bounds DEF QueueTypeOK, Leave, Step, AgentSteps

LEMMA Candidates ==
    ASSUME QueueTypeOK
    PROVE  {line[i] : i \in {k \in Pending :
                Cardinality({j \in Pending : j < k}) < BatchSize}} \subseteq Docs
<1>1. \A i \in DOMAIN line : line[i] \in Docs
    BY DEF QueueTypeOK
<1>2. ASSUME NEW i \in {k \in Pending : Cardinality({j \in Pending : j < k}) < BatchSize}
      PROVE  line[i] \in Docs
    BY <1>1 DEF Pending
<1> QED
    BY <1>2

LEMMA GiveType ==
    ASSUME QueueTypeOK, NEW a \in Agents, NEW d \in Docs,
           hand' = [hand EXCEPT ![a] = @ \cup {d}]
    PROVE  hand' \in [Agents -> SUBSET Docs]
<1>1. hand[a] \cup {d} \in SUBSET Docs
    BY DEF QueueTypeOK
<1> QED
    BY <1>1 DEF QueueTypeOK

LEMMA CountType ==
    ASSUME QueueTypeOK, NEW d \in Docs, originals[d] < 2
    PROVE  originals[d] + 1 \in 0..2
<1>1. originals[d] \in 0..2
    BY DEF QueueTypeOK
<1> QED
    BY <1>1

LEMMA StatusType ==
    ASSUME QueueTypeOK, NEW d, NEW s \in JobStatus, Status(d, s)
    PROVE  job' \in [Docs -> JobStatus]
BY DEF QueueTypeOK, Status

LEMMA RequestType ==
    ASSUME QueueTypeOK, NEW d \in Docs
    PROVE  /\ Ask(d) => asked' \in [Docs -> Nat]
           /\ InLine(d) => line' \in Seq(Docs)
<1>1. asked[d] + 1 \in Nat
    BY DEF QueueTypeOK
<1>2. Append(line, d) \in Seq(Docs) /\ line \in Seq(Docs)
    BY DEF QueueTypeOK
<1>3. Ask(d) => asked' \in [Docs -> Nat]
    BY <1>1 DEF Ask, QueueTypeOK
<1>4. InLine(d) => line' \in Seq(Docs)
    BY <1>2 DEF InLine
<1> QED
    BY <1>3, <1>4

LEMMA NextType == QueueTypeOK /\ InHand /\ [QueueNext]_queueVars => QueueTypeOK'
<1> SUFFICES ASSUME QueueTypeOK, InHand, [QueueNext]_queueVars
             PROVE  QueueTypeOK'
    OBVIOUS
<1> USE Bounds, CurIsNote DEF QueueTypeOK, Step, Status, JobStatus, AgentSteps, Busy,
        jobVars, agentVars, historyVars, queueVars
<1>1. ASSUME NEW a \in Agents, Release(a) PROVE QueueTypeOK'
    BY <1>1 DEF Release
<1>2. ASSUME NEW a \in Agents, Find(a) PROVE QueueTypeOK'
  <2>1. {line[i] : i \in {k \in Pending :
                          Cardinality({j \in Pending : j < k}) < BatchSize}} \subseteq Docs
    BY Candidates
  <2>2. found' \in [Agents -> SUBSET Docs]
    BY <1>2, <2>1 DEF Find
  <2> QED
    BY <1>2, <2>2 DEF Find
<1>3. ASSUME NEW a \in Agents, NEW d \in Docs, Claim(a, d) PROVE QueueTypeOK'
  <2>1. found' \in [Agents -> SUBSET Docs]
    BY <1>3 DEF Claim, Tries
  <2>2. CASE job[d] = "pending"
    <3>1. hand' \in [Agents -> SUBSET Docs]
      BY <1>3, <2>2, GiveType DEF Claim
    <3>2. job' \in [Docs -> JobStatus]
      BY <1>3, <2>2, StatusType DEF Claim
    <3>3. old' \in SUBSET Docs /\ shared' \in SUBSET Docs
      BY <1>3, <2>2, SMTT(40) DEF Claim
    <3> QED
      BY <1>3, <2>1, <3>1, <3>2, <3>3 DEF Claim, Tries
  <2>3. CASE job[d] # "pending"
    BY <1>3, <2>1, <2>3 DEF Claim, Tries
  <2> QED
    BY <2>2, <2>3
<1>4. ASSUME NEW a \in Agents, Given(a) PROVE QueueTypeOK'
    BY <1>4 DEF Given
<1>5. ASSUME NEW a \in Agents, GivenToNobody(a) PROVE QueueTypeOK'
    BY <1>5 DEF GivenToNobody, Lose
<1>6. ASSUME NEW a \in Agents, NEW d \in Docs, Download(a, d) PROVE QueueTypeOK'
    BY <1>6 DEF Download
<1>7. ASSUME NEW a \in Agents, NEW d \in Docs, DownloadGone(a, d) PROVE QueueTypeOK'
    BY <1>7 DEF DownloadGone, Leave
<1>8. ASSUME NEW a \in Agents, PaperOut(a) PROVE QueueTypeOK'
  <2>1. cur[a] \in Docs
    BY <1>8 DEF PaperOut
  <2>2. out' \in [Docs -> Nat]
    BY <1>8, <2>1 DEF PaperOut
  <2>3. originals' \in [Docs -> 0..2]
    <3>1. originals[cur[a]] < 2 => originals[cur[a]] + 1 \in 0..2
      BY <2>1, CountType
    <3> QED
      BY <1>8, <2>1, <3>1 DEF PaperOut
  <2> QED
    BY <1>8, <2>2, <2>3 DEF PaperOut
<1>9. ASSUME NEW a \in Agents, PrintFails(a) PROVE QueueTypeOK'
    BY <1>9 DEF PrintFails
<1>10. ASSUME NEW a \in Agents, ReportPrinted(a) PROVE QueueTypeOK'
  <2>1. CASE job[cur[a]] = "printing"
    BY <1>10, <2>1 DEF ReportPrinted
  <2>2. CASE job[cur[a]] # "printing"
    BY <1>10, <2>2, LeaveType DEF ReportPrinted
  <2> QED
    BY <2>1, <2>2
<1>11. ASSUME NEW a \in Agents, Stamp(a) PROVE QueueTypeOK'
    BY <1>11 DEF Stamp, Leave
<1>12. ASSUME NEW a \in Agents, ReportFailed(a) PROVE QueueTypeOK'
  <2>1. cur[a] \in Docs
    BY <1>12 DEF ReportFailed
  <2>2. CASE job[cur[a]] = "printing"
    <3>1. OneMore(attempts[cur[a]]) \in 0..MaxAttempts
      BY <2>1
    <3> QED
      BY <1>12, <2>2, <3>1, ZenonT(40) DEF ReportFailed
  <2>3. CASE job[cur[a]] # "printing"
    BY <1>12, <2>3, LeaveType DEF ReportFailed
  <2> QED
    BY <2>2, <2>3
<1>13. ASSUME NEW a \in Agents, Settle(a) PROVE QueueTypeOK'
    BY <1>13 DEF Settle, Verdict, Leave
<1>14. ASSUME NEW a \in Agents, ReportLost(a) PROVE QueueTypeOK'
    BY <1>14 DEF ReportLost, Lose, Leave
<1>15. ASSUME NEW a \in Agents, Die(a) PROVE QueueTypeOK'
    BY <1>15 DEF Die, Lose
<1>16. ASSUME NEW d \in Docs, Enqueue(d) PROVE QueueTypeOK'
    BY <1>16, RequestType DEF Enqueue
<1>17. ASSUME NEW d \in Docs, Reprint(d) PROVE QueueTypeOK'
    BY <1>17, RequestType DEF Reprint
<1>18. ASSUME NEW d \in Docs, Requeue(d) PROVE QueueTypeOK'
    BY <1>18, RequestType DEF Requeue
<1>19. ASSUME NEW d \in Docs, Withdraw(d) PROVE QueueTypeOK'
    BY <1>19 DEF Withdraw
<1>20. ASSUME NEW d \in Docs, WindowClosed(d) PROVE QueueTypeOK'
    BY <1>20 DEF WindowClosed
<1>21. ASSUME NEW d \in Docs, Delete(d) PROVE QueueTypeOK'
    BY <1>21 DEF Delete
<1>22. ASSUME NEW d \in Docs, GrowOld(d) PROVE QueueTypeOK'
    BY <1>22 DEF GrowOld, Lose
<1>23. CASE UNCHANGED queueVars
    BY <1>23 DEF queueVars
<1> QED
    BY <1>1, <1>2, <1>3, <1>4, <1>5, <1>6, <1>7, <1>8, <1>9, <1>10, <1>11,
       <1>12, <1>13, <1>14, <1>15, <1>16, <1>17, <1>18, <1>19, <1>20, <1>21,
       <1>22, <1>23
       DEF QueueNext, AgentStep, Request

LEMMA NextInHand == QueueTypeOK /\ InHand /\ [QueueNext]_queueVars => InHand'
<1> SUFFICES ASSUME QueueTypeOK, InHand, [QueueNext]_queueVars
             PROVE  InHand'
    OBVIOUS
<1> USE DEF QueueTypeOK, InHand, Step, Busy, jobVars, agentVars, historyVars, queueVars
<1>1. ASSUME NEW a \in Agents, Release(a) PROVE InHand'
    BY <1>1 DEF Release
<1>2. ASSUME NEW a \in Agents, Find(a) PROVE InHand'
    BY <1>2 DEF Find, Pending
<1>3. ASSUME NEW a \in Agents, NEW d \in Docs, Claim(a, d) PROVE InHand'
    BY <1>3 DEF Claim, Tries
<1>4. ASSUME NEW a \in Agents, Given(a) PROVE InHand'
    BY <1>4 DEF Given
<1>5. ASSUME NEW a \in Agents, GivenToNobody(a) PROVE InHand'
    BY <1>5 DEF GivenToNobody, Lose
<1>6. ASSUME NEW a \in Agents, NEW d \in Docs, Download(a, d) PROVE InHand'
    BY <1>6 DEF Download
<1>7. ASSUME NEW a \in Agents, NEW d \in Docs, DownloadGone(a, d) PROVE InHand'
    BY <1>7 DEF DownloadGone, Leave
<1>8. ASSUME NEW a \in Agents, PaperOut(a) PROVE InHand'
    BY <1>8 DEF PaperOut
<1>9. ASSUME NEW a \in Agents, PrintFails(a) PROVE InHand'
    BY <1>9 DEF PrintFails
<1>10. ASSUME NEW a \in Agents, ReportPrinted(a) PROVE InHand'
    BY <1>10 DEF ReportPrinted, Leave
<1>11. ASSUME NEW a \in Agents, Stamp(a) PROVE InHand'
    BY <1>11 DEF Stamp, Leave
<1>12. ASSUME NEW a \in Agents, ReportFailed(a) PROVE InHand'
    BY <1>12 DEF ReportFailed, OneMore, Leave
<1>13. ASSUME NEW a \in Agents, Settle(a) PROVE InHand'
    BY <1>13 DEF Settle, Verdict, Leave
<1>14. ASSUME NEW a \in Agents, ReportLost(a) PROVE InHand'
    BY <1>14 DEF ReportLost, Lose, Leave
<1>15. ASSUME NEW a \in Agents, Die(a) PROVE InHand'
    BY <1>15 DEF Die, Lose
<1>16. ASSUME NEW d \in Docs, Enqueue(d) PROVE InHand'
    BY <1>16 DEF Enqueue, InLine, Ask
<1>17. ASSUME NEW d \in Docs, Reprint(d) PROVE InHand'
    BY <1>17 DEF Reprint, InLine, Ask
<1>18. ASSUME NEW d \in Docs, Requeue(d) PROVE InHand'
    BY <1>18 DEF Requeue, Ask
<1>19. ASSUME NEW d \in Docs, Withdraw(d) PROVE InHand'
    BY <1>19 DEF Withdraw
<1>20. ASSUME NEW d \in Docs, WindowClosed(d) PROVE InHand'
    BY <1>20 DEF WindowClosed
<1>21. ASSUME NEW d \in Docs, Delete(d) PROVE InHand'
    BY <1>21 DEF Delete
<1>22. ASSUME NEW d \in Docs, GrowOld(d) PROVE InHand'
    BY <1>22 DEF GrowOld, Lose
<1>23. CASE UNCHANGED queueVars
    BY <1>23 DEF queueVars
<1> QED
    BY <1>1, <1>2, <1>3, <1>4, <1>5, <1>6, <1>7, <1>8, <1>9, <1>10, <1>11,
       <1>12, <1>13, <1>14, <1>15, <1>16, <1>17, <1>18, <1>19, <1>20, <1>21,
       <1>22, <1>23
       DEF QueueNext, AgentStep, Request


(* What is true of an agent's hands when it leaves a job.                  *)
LEMMA LeaveHands ==
    ASSUME QueueTypeOK, NEW a \in Agents, NEW d, Leave(a, d)
    PROVE  /\ hand'[a] = hand[a] \ {d} /\ apc'[a] \notin Busy
           /\ \A b \in Agents : b # a =>
                 /\ hand'[b] = hand[b] /\ apc'[b] = apc[b] /\ cur'[b] = cur[b]
                 /\ ver'[b] = ver[b] /\ tries'[b] = tries[b]
           /\ \A b \in Agents : hand'[b] \subseteq hand[b]
BY DEF QueueTypeOK, Leave, Step, Busy

LEMMA LeaveExclusive ==
    ASSUME QueueTypeOK, Exclusive, NEW a \in Agents, NEW d \in hand[a], Leave(a, d),
           UNCHANGED <<shared, excused>>, \A x \in Docs : x # d => job'[x] = job[x],
           old' \subseteq old
    PROVE  Exclusive'
<1>1. \A b, c \in Agents : b # c => hand'[b] \cap hand'[c] \subseteq shared
    BY LeaveHands DEF Exclusive
<1>2. \A b \in Agents : \A x \in hand'[b] \ excused : x # d /\ x \in hand[b] /\ x \in Docs
    BY LeaveHands, HandsAreNotes DEF Exclusive
<1>3. \A b \in Agents : \A x \in hand'[b] \ excused :
          job'[x] \notin {"none", "pending", "cancelled"} /\ x \notin old'
    BY <1>2 DEF Exclusive
<1> QED
    BY <1>1, <1>3 DEF Exclusive

(* An agent that stays where it is, unless its job begins to be printed.   *)
LEMMA KeepsCurrent ==
    ASSUME QueueTypeOK, QueueTypeOK', InHand, Current, NEW b \in Agents,
           apc'[b] = apc[b], cur'[b] = cur[b], ver'[b] = ver[b], tries'[b] = tries[b],
           shared \subseteq shared', \A x \in Docs : asked[x] <= asked'[x],
           apc[b] \in Busy /\ cur[b] \notin shared' /\ job'[cur[b]] = "printing" =>
              /\ job[cur[b]] = "printing" /\ asked'[cur[b]] = asked[cur[b]]
              /\ out'[cur[b]] = out[cur[b]] /\ attempts'[cur[b]] = attempts[cur[b]]
    PROVE  CurrentOf(b)'
<1>1. CurrentOf(b)
    BY DEF Current
<1>2. ASSUME apc[b] \in {"print", "report"} PROVE ver[b] <= asked'[cur[b]]
  <2>1. cur[b] \in Docs
    BY <1>2, CurIsNote DEF Busy
  <2>2. ver[b] <= asked[cur[b]] /\ asked[cur[b]] <= asked'[cur[b]]
    BY <1>1, <1>2, <2>1 DEF CurrentOf
  <2>3. ver[b] \in Nat /\ asked[cur[b]] \in Nat /\ asked'[cur[b]] \in Nat
    BY <2>1 DEF QueueTypeOK
  <2> QED
    BY <2>2, <2>3
<1> QED
    BY <1>1, <1>2 DEF CurrentOf

LEMMA LeaveCurrent ==
    ASSUME QueueTypeOK, QueueTypeOK', InHand, Exclusive, Current, NEW a \in Agents,
           NEW d \in hand[a], Leave(a, d), UNCHANGED <<shared, out, asked, attempts>>,
           \A x \in Docs : x # d => job'[x] = job[x]
    PROVE  Current'
<1>1. CurrentOf(a)'
    BY LeaveHands DEF CurrentOf, Busy
<1>2. ASSUME NEW b \in Agents, b # a PROVE CurrentOf(b)'
  <2>1. apc[b] \in Busy => cur[b] \in Docs /\ (cur[b] = d => d \in shared)
    BY <1>2, CurIsNote DEF Exclusive
  <2>2. \A x \in Docs : asked[x] <= asked'[x]
    BY DEF QueueTypeOK
  <2> QED
    BY <1>2, <2>1, <2>2, LeaveHands, KeepsCurrent
<1> QED
    BY <1>1, <1>2 DEF Current

LEMMA AskMore ==
    ASSUME QueueTypeOK, NEW d \in Docs, Ask(d), \A x \in Docs : out[x] <= asked[x]
    PROVE  \A x \in Docs : /\ asked[x] <= asked'[x] /\ out[x] <= asked'[x]
                           /\ x # d => asked'[x] = asked[x]
<1> SUFFICES ASSUME NEW x \in Docs
             PROVE  /\ asked[x] <= asked'[x] /\ out[x] <= asked'[x]
                    /\ x # d => asked'[x] = asked[x]
    OBVIOUS
<1>1. asked[x] \in Nat /\ out[x] \in Nat /\ out[x] <= asked[x]
    BY DEF QueueTypeOK
<1>2. asked'[x] = IF x = d THEN asked[x] + 1 ELSE asked[x]
    BY DEF Ask, QueueTypeOK
<1> QED
    BY <1>1, <1>2

LEMMA ClaimGives ==
    ASSUME QueueTypeOK, Exclusive, NEW a \in Agents, NEW d \in Docs, Claim(a, d), job[d] = "pending"
    PROVE  /\ hand'[a] = hand[a] \cup {d}
           /\ \A b \in Agents : b # a => hand'[b] = hand[b]
           /\ shared \subseteq shared' /\ shared' \subseteq excused
           /\ \A b \in Agents : d \in hand[b] => d \in shared'
           /\ job'[d] = "printing" /\ d \notin old'
           /\ \A x \in Docs : x # d => job'[x] = job[x]
           /\ old' \subseteq old
<1>1. shared' = IF Held(d) THEN shared \cup {d} ELSE shared
    BY DEF Claim
<1>2. Held(d) => d \in excused
    BY DEF Exclusive, Held
<1>3. \A b \in Agents : d \in hand[b] => Held(d)
    BY DEF Held
<1>4. shared \subseteq shared' /\ shared' \subseteq excused
    BY <1>1, <1>2 DEF Exclusive
<1>5. hand'[a] = hand[a] \cup {d} /\ \A b \in Agents : b # a => hand'[b] = hand[b]
    BY DEF Claim, QueueTypeOK
<1>6. /\ job'[d] = "printing" /\ d \notin old' /\ old' \subseteq old
      /\ \A x \in Docs : x # d => job'[x] = job[x]
    BY DEF Claim, QueueTypeOK, Status
<1> QED
    BY <1>1, <1>3, <1>4, <1>5, <1>6

LEMMA NextExclusive ==
    QueueTypeOK /\ InHand /\ Exclusive /\ [QueueNext]_queueVars => Exclusive'
<1> SUFFICES ASSUME QueueTypeOK, InHand, Exclusive, [QueueNext]_queueVars
             PROVE  Exclusive'
    OBVIOUS
<1> USE HandsAreNotes, CurIsNote DEF QueueTypeOK, Exclusive, Step, Status, Held, Busy,
        jobVars, agentVars, historyVars, queueVars
<1>1. ASSUME NEW a \in Agents, Release(a) PROVE Exclusive'
    BY <1>1 DEF Release
<1>2. ASSUME NEW a \in Agents, Find(a) PROVE Exclusive'
    BY <1>2 DEF Find, Pending
<1>3. ASSUME NEW a \in Agents, NEW d \in Docs, Claim(a, d) PROVE Exclusive'
  <2>1. CASE job[d] # "pending"
    BY <1>3, <2>1 DEF Claim
  <2>2. CASE job[d] = "pending"
    <3>1. /\ hand'[a] = hand[a] \cup {d}
          /\ \A b \in Agents : b # a => hand'[b] = hand[b]
          /\ job'[d] = "printing" /\ d \notin old'
          /\ \A x \in Docs : x # d => job'[x] = job[x] /\ (x \in old' => x \in old)
      BY <1>3, <2>2, ClaimGives
    <3>2. \A b \in Agents : d \in hand[b] => d \in shared'
      BY <1>3, <2>2, ClaimGives
    <3>3. shared \subseteq shared' /\ shared' \subseteq excused /\ UNCHANGED excused
      BY <1>3, <2>2, ClaimGives DEF Claim
    <3>4. ASSUME NEW b \in Agents, NEW c \in Agents, b # c, NEW x \in hand'[b] \cap hand'[c]
          PROVE  x \in shared'
      <4>1. CASE x = d
        <5>1. d \in hand[b] \/ d \in hand[c]
          BY <3>1, <3>4, <4>1
        <5> QED
          BY <3>2, <4>1, <5>1
      <4>2. CASE x # d
        <5>1. x \in hand[b] \cap hand[c]
          BY <3>1, <3>4, <4>2
        <5> QED
          BY <3>3, <3>4, <5>1
      <4> QED
        BY <4>1, <4>2
    <3>5. ASSUME NEW b \in Agents, NEW x \in hand'[b] \ excused
          PROVE  job'[x] \notin {"none", "pending", "cancelled"} /\ x \notin old'
      <4>1. CASE x = d
        BY <3>1, <4>1
      <4>2. CASE x # d
        <5>1. x \in hand[b] /\ x \in Docs
          BY <3>1, <3>5, <4>2
        <5> QED
          BY <3>1, <3>5, <4>2, <5>1
      <4> QED
        BY <4>1, <4>2
    <3> QED
      BY <3>1, <3>3, <3>4, <3>5
  <2> QED
    BY <2>1, <2>2
<1>4. ASSUME NEW a \in Agents, Given(a) PROVE Exclusive'
    BY <1>4 DEF Given
<1>5. ASSUME NEW a \in Agents, GivenToNobody(a) PROVE Exclusive'
    BY <1>5 DEF GivenToNobody, Lose
<1>6. ASSUME NEW a \in Agents, NEW d \in Docs, Download(a, d) PROVE Exclusive'
    BY <1>6 DEF Download
<1>7. ASSUME NEW a \in Agents, NEW d \in Docs, DownloadGone(a, d) PROVE Exclusive'
  <2>1. d \in hand[a] /\ Leave(a, d) /\ \A x \in Docs : x # d => job'[x] = job[x]
    BY <1>7 DEF DownloadGone
  <2> HIDE DEF Exclusive
  <2> QED
    BY <1>7, <2>1, LeaveExclusive, ZenonT(40) DEF DownloadGone
<1>8. ASSUME NEW a \in Agents, PaperOut(a) PROVE Exclusive'
    BY <1>8 DEF PaperOut
<1>9. ASSUME NEW a \in Agents, PrintFails(a) PROVE Exclusive'
    BY <1>9 DEF PrintFails
<1>10. ASSUME NEW a \in Agents, ReportPrinted(a) PROVE Exclusive'
  <2>1. cur[a] \in hand[a]
    BY <1>10 DEF ReportPrinted
  <2>2. ASSUME Leave(a, cur[a]) PROVE Exclusive'
    <3>1. \A x \in Docs : x # cur[a] => job'[x] = job[x]
      BY <1>10 DEF ReportPrinted
    <3>2. old' \subseteq old /\ UNCHANGED <<shared, excused>>
      BY <1>10 DEF ReportPrinted
    <3> HIDE DEF Exclusive
    <3> QED
      BY <2>1, <2>2, <3>1, <3>2, LeaveExclusive
  <2>3. CASE job[cur[a]] = "printing"
    BY <1>10, <2>3 DEF ReportPrinted
  <2> QED
    BY <1>10, <2>2, <2>3 DEF ReportPrinted
<1>11. ASSUME NEW a \in Agents, Stamp(a) PROVE Exclusive'
    BY <1>11 DEF Stamp, Leave
<1>12. ASSUME NEW a \in Agents, ReportFailed(a) PROVE Exclusive'
  <2>1. cur[a] \in hand[a]
    BY <1>12 DEF ReportFailed
  <2>2. ASSUME Leave(a, cur[a]) PROVE Exclusive'
    <3>1. \A x \in Docs : x # cur[a] => job'[x] = job[x]
      BY <1>12 DEF ReportFailed
    <3>2. old' \subseteq old /\ UNCHANGED <<shared, excused>>
      BY <1>12 DEF ReportFailed
    <3> HIDE DEF Exclusive
    <3> QED
      BY <2>1, <2>2, <3>1, <3>2, LeaveExclusive
  <2>3. CASE job[cur[a]] = "printing"
    BY <1>12, <2>3 DEF ReportFailed
  <2> QED
    BY <1>12, <2>2, <2>3 DEF ReportFailed
<1>13. ASSUME NEW a \in Agents, Settle(a) PROVE Exclusive'
  <2>1. cur[a] \in hand[a]
    BY <1>13 DEF Settle
  <2>2. ASSUME Leave(a, cur[a]) PROVE Exclusive'
    <3>1. \A x \in Docs : x # cur[a] => job'[x] = job[x]
      BY <1>13 DEF Settle
    <3>2. old' \subseteq old /\ UNCHANGED <<shared, excused>>
      BY <1>13 DEF Settle
    <3> HIDE DEF Exclusive
    <3> QED
      BY <2>1, <2>2, <3>1, <3>2, LeaveExclusive
  <2> QED
    BY <1>13, <2>2 DEF Settle
<1>14. ASSUME NEW a \in Agents, ReportLost(a) PROVE Exclusive'
    BY <1>14 DEF ReportLost, Lose, Leave
<1>15. ASSUME NEW a \in Agents, Die(a) PROVE Exclusive'
    BY <1>15 DEF Die, Lose
<1>16. ASSUME NEW d \in Docs, Enqueue(d) PROVE Exclusive'
    BY <1>16 DEF Enqueue, InLine, Ask
<1>17. ASSUME NEW d \in Docs, Reprint(d) PROVE Exclusive'
    BY <1>17, SMTT(40) DEF Reprint, InLine, Ask
<1>18. ASSUME NEW d \in Docs, Requeue(d) PROVE Exclusive'
    BY <1>18 DEF Requeue, Ask
<1>19. ASSUME NEW d \in Docs, Withdraw(d) PROVE Exclusive'
    BY <1>19 DEF Withdraw
<1>20. ASSUME NEW d \in Docs, WindowClosed(d) PROVE Exclusive'
    BY <1>20 DEF WindowClosed
<1>21. ASSUME NEW d \in Docs, Delete(d) PROVE Exclusive'
    BY <1>21 DEF Delete
<1>22. ASSUME NEW d \in Docs, GrowOld(d) PROVE Exclusive'
  <2>1. /\ UNCHANGED <<job, hand, shared>> /\ old' = old \cup {d} /\ excused \subseteq excused'
        /\ Held(d) => d \in excused'
    BY <1>22 DEF GrowOld
  <2> QED
    BY <2>1
<1>23. CASE UNCHANGED queueVars
    BY <1>23 DEF queueVars
<1> QED
    BY <1>1, <1>2, <1>3, <1>4, <1>5, <1>6, <1>7, <1>8, <1>9, <1>10, <1>11,
       <1>12, <1>13, <1>14, <1>15, <1>16, <1>17, <1>18, <1>19, <1>20, <1>21,
       <1>22, <1>23
       DEF QueueNext, AgentStep, Request

LEMMA NextCurrent ==
    QueueTypeOK /\ QueueTypeOK' /\ InHand /\ Exclusive /\ Current /\ [QueueNext]_queueVars
    => Current'
<1> SUFFICES ASSUME QueueTypeOK, QueueTypeOK', InHand, Exclusive, Current, [QueueNext]_queueVars
             PROVE  Current'
    OBVIOUS
<1> USE HandsAreNotes, CurIsNote DEF QueueTypeOK, InHand, Exclusive, Step, Status, Held, Busy,
        jobVars, agentVars, historyVars, queueVars
<1>1. ASSUME NEW a \in Agents, Release(a) PROVE Current'
  <2>1. \A x \in Docs : out'[x] <= asked'[x] /\ asked[x] <= asked'[x]
    <3>1. \A x \in Docs : out[x] <= asked[x] /\ asked[x] <= asked[x]
      BY DEF Current
    <3> QED
      BY <1>1, <3>1 DEF Release
  <2>2. ASSUME NEW b \in Agents, b # a PROVE CurrentOf(b)'
    <3>1. /\ apc'[b] = apc[b] /\ cur'[b] = cur[b] /\ ver'[b] = ver[b] /\ tries'[b] = tries[b]
          /\ shared \subseteq shared' /\ UNCHANGED <<out, asked, attempts>>
      BY <1>1, <2>2 DEF Release
    <3>2. apc[b] \in Busy /\ job'[cur[b]] = "printing" => job[cur[b]] = "printing"
      BY <1>1, <2>2 DEF Release
    <3> QED
      BY <2>1, <3>1, <3>2, KeepsCurrent
  <2>3. CurrentOf(a)'
    BY <1>1 DEF Release, CurrentOf
  <2> HIDE DEF Exclusive, InHand
  <2> QED
    BY <2>1, <2>2, <2>3 DEF Current
<1>2. ASSUME NEW a \in Agents, Find(a) PROVE Current'
  <2>1. \A x \in Docs : out'[x] <= asked'[x] /\ asked[x] <= asked'[x]
    <3>1. \A x \in Docs : out[x] <= asked[x] /\ asked[x] <= asked[x]
      BY DEF Current
    <3> QED
      BY <1>2, <3>1 DEF Find
  <2>2. ASSUME NEW b \in Agents, b # a PROVE CurrentOf(b)'
    <3>1. /\ apc'[b] = apc[b] /\ cur'[b] = cur[b] /\ ver'[b] = ver[b] /\ tries'[b] = tries[b]
          /\ shared \subseteq shared' /\ UNCHANGED <<out, asked, attempts>>
      BY <1>2, <2>2 DEF Find, Pending
    <3>2. apc[b] \in Busy /\ job'[cur[b]] = "printing" => job[cur[b]] = "printing"
      BY <1>2, <2>2 DEF Find, Pending
    <3> QED
      BY <2>1, <3>1, <3>2, KeepsCurrent
  <2>3. CurrentOf(a)'
    BY <1>2 DEF Find, Pending, CurrentOf
  <2> HIDE DEF Exclusive, InHand
  <2> QED
    BY <2>1, <2>2, <2>3 DEF Current
<1>3. ASSUME NEW a \in Agents, NEW d \in Docs, Claim(a, d) PROVE Current'
  <2>1. /\ UNCHANGED <<apc, cur, ver, tries, out, asked, attempts>>
        /\ shared \subseteq shared'
    BY <1>3, ClaimGives DEF Claim, Tries
  <2>2. \A x \in Docs : out'[x] <= asked'[x] /\ asked[x] <= asked'[x]
    BY <2>1 DEF Current
  <2>3. ASSUME NEW b \in Agents PROVE CurrentOf(b)'
    <3>1. CASE job[d] # "pending"
      BY <1>3, <2>1, <2>2, <3>1, KeepsCurrent DEF Claim
    <3>2. CASE job[d] = "pending"
      <4>1. apc[b] \in Busy => cur[b] \in Docs /\ cur[b] \in hand[b]
        OBVIOUS
      <4>2. apc[b] \in Busy /\ cur[b] \notin shared' => job'[cur[b]] = job[cur[b]]
        <5>1. \A x \in Docs : x # d => job'[x] = job[x]
          BY <1>3, <3>2, ClaimGives
        <5>2. d \in hand[b] => d \in shared'
          BY <1>3, <3>2, ClaimGives
        <5> QED
          BY <4>1, <5>1, <5>2
      <4> QED
        BY <2>1, <2>2, <4>2, KeepsCurrent
    <3> QED
      BY <3>1, <3>2
  <2> HIDE DEF Exclusive, InHand
  <2> QED
    BY <2>2, <2>3 DEF Current
<1>4. ASSUME NEW a \in Agents, Given(a) PROVE Current'
  <2>1. \A x \in Docs : out'[x] <= asked'[x] /\ asked[x] <= asked'[x]
    <3>1. \A x \in Docs : out[x] <= asked[x] /\ asked[x] <= asked[x]
      BY DEF Current
    <3> QED
      BY <1>4, <3>1 DEF Given
  <2>2. ASSUME NEW b \in Agents, b # a PROVE CurrentOf(b)'
    <3>1. /\ apc'[b] = apc[b] /\ cur'[b] = cur[b] /\ ver'[b] = ver[b] /\ tries'[b] = tries[b]
          /\ shared \subseteq shared' /\ UNCHANGED <<out, asked, attempts>>
      BY <1>4, <2>2 DEF Given
    <3>2. apc[b] \in Busy /\ job'[cur[b]] = "printing" => job[cur[b]] = "printing"
      BY <1>4, <2>2 DEF Given
    <3> QED
      BY <2>1, <3>1, <3>2, KeepsCurrent
  <2>3. CurrentOf(a)'
    BY <1>4 DEF Given, CurrentOf
  <2> HIDE DEF Exclusive, InHand
  <2> QED
    BY <2>1, <2>2, <2>3 DEF Current
<1>5. ASSUME NEW a \in Agents, GivenToNobody(a) PROVE Current'
  <2>1. \A x \in Docs : out'[x] <= asked'[x] /\ asked[x] <= asked'[x]
    <3>1. \A x \in Docs : out[x] <= asked[x] /\ asked[x] <= asked[x]
      BY DEF Current
    <3> QED
      BY <1>5, <3>1 DEF GivenToNobody
  <2>2. ASSUME NEW b \in Agents, b # a PROVE CurrentOf(b)'
    <3>1. /\ apc'[b] = apc[b] /\ cur'[b] = cur[b] /\ ver'[b] = ver[b] /\ tries'[b] = tries[b]
          /\ shared \subseteq shared' /\ UNCHANGED <<out, asked, attempts>>
      BY <1>5, <2>2 DEF GivenToNobody, Lose
    <3>2. apc[b] \in Busy /\ job'[cur[b]] = "printing" => job[cur[b]] = "printing"
      BY <1>5, <2>2 DEF GivenToNobody, Lose
    <3> QED
      BY <2>1, <3>1, <3>2, KeepsCurrent
  <2>3. CurrentOf(a)'
    BY <1>5 DEF GivenToNobody, Lose, CurrentOf
  <2> HIDE DEF Exclusive, InHand
  <2> QED
    BY <2>1, <2>2, <2>3 DEF Current
<1>6. ASSUME NEW a \in Agents, NEW d \in Docs, Download(a, d) PROVE Current'
  <2>1. \A x \in Docs : out'[x] <= asked'[x] /\ asked[x] <= asked'[x]
    <3>1. \A x \in Docs : out[x] <= asked[x] /\ asked[x] <= asked[x]
      BY DEF Current
    <3> QED
      BY <1>6, <3>1 DEF Download
  <2>2. ASSUME NEW b \in Agents, b # a PROVE CurrentOf(b)'
    <3>1. /\ apc'[b] = apc[b] /\ cur'[b] = cur[b] /\ ver'[b] = ver[b] /\ tries'[b] = tries[b]
          /\ shared \subseteq shared' /\ UNCHANGED <<out, asked, attempts>>
      BY <1>6, <2>2 DEF Download
    <3>2. apc[b] \in Busy /\ job'[cur[b]] = "printing" => job[cur[b]] = "printing"
      BY <1>6, <2>2 DEF Download
    <3> QED
      BY <2>1, <3>1, <3>2, KeepsCurrent
  <2>3. CurrentOf(a)'
    BY <1>6 DEF Download, CurrentOf
  <2> HIDE DEF Exclusive, InHand
  <2> QED
    BY <2>1, <2>2, <2>3 DEF Current
<1>7. ASSUME NEW a \in Agents, NEW d \in Docs, DownloadGone(a, d) PROVE Current'
  <2>1. d \in hand[a] /\ Leave(a, d) /\ \A x \in Docs : x # d => job'[x] = job[x]
    BY <1>7 DEF DownloadGone
  <2>2. UNCHANGED <<shared, out, asked, attempts>>
    BY <1>7 DEF DownloadGone
  <2> HIDE DEF Exclusive
  <2> QED
    BY <2>1, <2>2, LeaveCurrent
<1>8. ASSUME NEW a \in Agents, PaperOut(a) PROVE Current'
  <2>0. /\ UNCHANGED <<job, cur, ver, tries, shared, asked, attempts>>
        /\ apc[a] = "print" /\ apc'[a] = "report" /\ \A b \in Agents : b # a => apc'[b] = apc[b]
        /\ cur[a] \in Docs /\ cur[a] \in hand[a]
        /\ \A x \in Docs : x # cur[a] => out'[x] = out[x]
        /\ out'[cur[a]] = IF ver[a] > out[cur[a]] THEN ver[a] ELSE out[cur[a]]
    BY <1>8 DEF PaperOut
  <2>1. /\ ver[a] <= asked[cur[a]] /\ out[cur[a]] <= asked[cur[a]]
        /\ ver[a] \in Nat /\ out[cur[a]] \in Nat /\ asked[cur[a]] \in Nat
    BY <2>0 DEF Current, CurrentOf
  <2>2. out'[cur[a]] <= asked[cur[a]] /\ (ver[a] = asked[cur[a]] => out'[cur[a]] = asked[cur[a]])
    BY <2>0, <2>1
  <2>3. \A x \in Docs : out'[x] <= asked'[x] /\ asked[x] <= asked'[x]
    <3>1. \A x \in Docs : out[x] <= asked[x] /\ asked[x] <= asked[x]
      BY DEF Current
    <3> QED
      BY <2>0, <2>2, <3>1
  <2>4. ASSUME NEW b \in Agents, b # a PROVE CurrentOf(b)'
    <3>1. apc[b] \in Busy => cur[b] \in Docs /\ (cur[b] = cur[a] => cur[b] \in shared)
      BY <2>0, <2>4
    <3> QED
      BY <2>0, <2>3, <2>4, <3>1, KeepsCurrent
  <2>5. CurrentOf(a)
    BY DEF Current
  <2>6. CurrentOf(a)'
    BY <2>0, <2>1, <2>2, <2>5 DEF CurrentOf
  <2> HIDE DEF Exclusive, InHand
  <2> QED
    BY <2>3, <2>4, <2>6 DEF Current
<1>9. ASSUME NEW a \in Agents, PrintFails(a) PROVE Current'
  <2>1. \A x \in Docs : out'[x] <= asked'[x] /\ asked[x] <= asked'[x]
    <3>1. \A x \in Docs : out[x] <= asked[x] /\ asked[x] <= asked[x]
      BY DEF Current
    <3> QED
      BY <1>9, <3>1 DEF PrintFails
  <2>2. ASSUME NEW b \in Agents, b # a PROVE CurrentOf(b)'
    <3>1. /\ apc'[b] = apc[b] /\ cur'[b] = cur[b] /\ ver'[b] = ver[b] /\ tries'[b] = tries[b]
          /\ shared \subseteq shared' /\ UNCHANGED <<out, asked, attempts>>
      BY <1>9, <2>2 DEF PrintFails
    <3>2. apc[b] \in Busy /\ job'[cur[b]] = "printing" => job[cur[b]] = "printing"
      BY <1>9, <2>2 DEF PrintFails
    <3> QED
      BY <2>1, <3>1, <3>2, KeepsCurrent
  <2>3. CurrentOf(a)'
    BY <1>9 DEF PrintFails, CurrentOf
  <2> HIDE DEF Exclusive, InHand
  <2> QED
    BY <2>1, <2>2, <2>3 DEF Current
<1>10. ASSUME NEW a \in Agents, ReportPrinted(a) PROVE Current'
  <2>1. cur[a] \in hand[a]
    BY <1>10 DEF ReportPrinted
  <2>2. ASSUME Leave(a, cur[a]), UNCHANGED attempts PROVE Current'
    <3>1. \A x \in Docs : x # cur[a] => job'[x] = job[x]
      BY <1>10 DEF ReportPrinted
    <3>2. UNCHANGED <<shared, out, asked>>
      BY <1>10 DEF ReportPrinted
    <3> HIDE DEF Exclusive
    <3> QED
      BY <2>1, <2>2, <3>1, <3>2, LeaveCurrent
  <2>3. CASE job[cur[a]] = "printing"
    <3>1. \A x \in Docs : out'[x] <= asked'[x] /\ asked[x] <= asked'[x]
      <4>1. \A x \in Docs : out[x] <= asked[x] /\ asked[x] <= asked[x]
        BY DEF Current
      <4> QED
        BY <1>10, <2>3, <4>1 DEF ReportPrinted
    <3>2. ASSUME NEW b \in Agents, b # a PROVE CurrentOf(b)'
      <4>1. /\ apc'[b] = apc[b] /\ cur'[b] = cur[b] /\ ver'[b] = ver[b] /\ tries'[b] = tries[b]
            /\ shared \subseteq shared' /\ UNCHANGED <<out, asked, attempts>>
        BY <1>10, <2>3, <3>2 DEF ReportPrinted, Leave
      <4>2. apc[b] \in Busy /\ job'[cur[b]] = "printing" => job[cur[b]] = "printing"
        BY <1>10, <2>3, <3>2 DEF ReportPrinted, Leave
      <4> QED
        BY <3>1, <4>1, <4>2, KeepsCurrent
    <3>3. CurrentOf(a)'
      BY <1>10, <2>3 DEF ReportPrinted, Leave, CurrentOf
    <3> HIDE DEF Exclusive, InHand
    <3> QED
      BY <3>1, <3>2, <3>3 DEF Current
  <2> QED
    BY <1>10, <2>2, <2>3 DEF ReportPrinted
<1>11. ASSUME NEW a \in Agents, Stamp(a) PROVE Current'
  <2>1. cur[a] \in hand[a]
    BY <1>11 DEF Stamp
  <2>2. ASSUME Leave(a, cur[a]), UNCHANGED attempts PROVE Current'
    <3>1. \A x \in Docs : x # cur[a] => job'[x] = job[x]
      BY <1>11 DEF Stamp
    <3>2. UNCHANGED <<shared, out, asked>>
      BY <1>11 DEF Stamp
    <3> HIDE DEF Exclusive
    <3> QED
      BY <2>1, <2>2, <3>1, <3>2, LeaveCurrent
  <2> QED
    BY <1>11, <2>2 DEF Stamp
<1>12. ASSUME NEW a \in Agents, ReportFailed(a) PROVE Current'
  <2>1. cur[a] \in hand[a]
    BY <1>12 DEF ReportFailed
  <2>2. ASSUME Leave(a, cur[a]), UNCHANGED attempts PROVE Current'
    <3>1. \A x \in Docs : x # cur[a] => job'[x] = job[x]
      BY <1>12 DEF ReportFailed
    <3>2. UNCHANGED <<shared, out, asked>>
      BY <1>12 DEF ReportFailed
    <3> HIDE DEF Exclusive
    <3> QED
      BY <2>1, <2>2, <3>1, <3>2, LeaveCurrent
  <2>3. CASE job[cur[a]] = "printing"
    <3>1. /\ UNCHANGED <<job, cur, ver, shared, out, asked>>
          /\ apc'[a] = "settle" /\ \A b \in Agents : b # a => apc'[b] = apc[b]
          /\ tries'[a] = attempts'[cur[a]] /\ \A b \in Agents : b # a => tries'[b] = tries[b]
          /\ \A x \in Docs : x # cur[a] => attempts'[x] = attempts[x]
      <4>1. cur[a] \in Docs
        BY <2>1
      <4>2. /\ attempts' = [attempts EXCEPT ![cur[a]] = OneMore(@)]
            /\ tries' = [tries EXCEPT ![a] = OneMore(attempts[cur[a]])]
            /\ apc' = [apc EXCEPT ![a] = "settle"]
            /\ UNCHANGED <<job, cur, ver, shared, out, asked>>
        BY <1>12, <2>3 DEF ReportFailed
      <4> QED
        BY <4>1, <4>2
    <3>2. \A x \in Docs : out'[x] <= asked'[x] /\ asked[x] <= asked'[x]
      BY <3>1 DEF Current
    <3>3. ASSUME NEW b \in Agents, b # a PROVE CurrentOf(b)'
      <4>1. apc[b] \in Busy => cur[b] \in Docs /\ (cur[b] = cur[a] => cur[b] \in shared)
        BY <2>1, <3>3
      <4> QED
        BY <3>1, <3>2, <3>3, <4>1, KeepsCurrent
    <3>4. CurrentOf(a)'
      BY <3>1 DEF CurrentOf
    <3> HIDE DEF Exclusive, InHand
    <3> QED
      BY <3>2, <3>3, <3>4 DEF Current
  <2> QED
    BY <1>12, <2>2, <2>3 DEF ReportFailed
<1>13. ASSUME NEW a \in Agents, Settle(a) PROVE Current'
  <2>1. cur[a] \in hand[a]
    BY <1>13 DEF Settle
  <2>2. ASSUME Leave(a, cur[a]), UNCHANGED attempts PROVE Current'
    <3>1. \A x \in Docs : x # cur[a] => job'[x] = job[x]
      BY <1>13 DEF Settle
    <3>2. UNCHANGED <<shared, out, asked>>
      BY <1>13 DEF Settle
    <3> HIDE DEF Exclusive
    <3> QED
      BY <2>1, <2>2, <3>1, <3>2, LeaveCurrent
  <2> QED
    BY <1>13, <2>2 DEF Settle
<1>14. ASSUME NEW a \in Agents, ReportLost(a) PROVE Current'
  <2>1. cur[a] \in hand[a]
    BY <1>14 DEF ReportLost
  <2>2. ASSUME Leave(a, cur[a]), UNCHANGED attempts PROVE Current'
    <3>1. \A x \in Docs : x # cur[a] => job'[x] = job[x]
      BY <1>14 DEF ReportLost
    <3>2. UNCHANGED <<shared, out, asked>>
      BY <1>14 DEF ReportLost
    <3> HIDE DEF Exclusive
    <3> QED
      BY <2>1, <2>2, <3>1, <3>2, LeaveCurrent
  <2> QED
    BY <1>14, <2>2 DEF ReportLost
<1>15. ASSUME NEW a \in Agents, Die(a) PROVE Current'
  <2>1. \A x \in Docs : out'[x] <= asked'[x] /\ asked[x] <= asked'[x]
    <3>1. \A x \in Docs : out[x] <= asked[x] /\ asked[x] <= asked[x]
      BY DEF Current
    <3> QED
      BY <1>15, <3>1 DEF Die
  <2>2. ASSUME NEW b \in Agents, b # a PROVE CurrentOf(b)'
    <3>1. /\ apc'[b] = apc[b] /\ cur'[b] = cur[b] /\ ver'[b] = ver[b] /\ tries'[b] = tries[b]
          /\ shared \subseteq shared' /\ UNCHANGED <<out, asked, attempts>>
      BY <1>15, <2>2 DEF Die, Lose
    <3>2. apc[b] \in Busy /\ job'[cur[b]] = "printing" => job[cur[b]] = "printing"
      BY <1>15, <2>2 DEF Die, Lose
    <3> QED
      BY <2>1, <3>1, <3>2, KeepsCurrent
  <2>3. CurrentOf(a)'
    BY <1>15 DEF Die, Lose, CurrentOf
  <2> HIDE DEF Exclusive, InHand
  <2> QED
    BY <2>1, <2>2, <2>3 DEF Current
<1>16. ASSUME NEW d \in Docs, Enqueue(d) PROVE Current'
  <2>1. \A x \in Docs : out'[x] <= asked'[x] /\ asked[x] <= asked'[x]
    <3>1. \A x \in Docs : out[x] <= asked[x] /\ asked[x] <= asked[x]
      BY DEF Current
    <3>2. UNCHANGED <<out, asked>> \/ (Ask(d) /\ UNCHANGED out)
      BY <1>16 DEF Enqueue
    <3> QED
      BY <3>1, <3>2, AskMore
  <2>2. ASSUME NEW b \in Agents PROVE CurrentOf(b)'
    <3>1. /\ apc'[b] = apc[b] /\ cur'[b] = cur[b] /\ ver'[b] = ver[b] /\ tries'[b] = tries[b]
          /\ UNCHANGED <<out, shared>>
      BY <1>16 DEF Enqueue, InLine, Ask
    <3>2. ASSUME apc[b] \in Busy, job'[cur[b]] = "printing"
          PROVE  /\ job[cur[b]] = "printing" /\ asked'[cur[b]] = asked[cur[b]]
                 /\ attempts'[cur[b]] = attempts[cur[b]]
      <4>1. cur[b] \in Docs
        BY <3>2
      <4> QED
        BY <1>16, <3>2, <4>1 DEF Enqueue, InLine, Ask
    <3> QED
      BY <2>1, <3>1, <3>2, KeepsCurrent
  <2> HIDE DEF Exclusive, InHand
  <2> QED
    BY <2>1, <2>2 DEF Current
<1>17. ASSUME NEW d \in Docs, Reprint(d) PROVE Current'
  <2>1. \A x \in Docs : out'[x] <= asked'[x] /\ asked[x] <= asked'[x]
    <3>1. \A x \in Docs : out[x] <= asked[x] /\ asked[x] <= asked[x]
      BY DEF Current
    <3>2. UNCHANGED <<out, asked>> \/ (Ask(d) /\ UNCHANGED out)
      BY <1>17 DEF Reprint
    <3> QED
      BY <3>1, <3>2, AskMore
  <2>2. ASSUME NEW b \in Agents PROVE CurrentOf(b)'
    <3>1. /\ apc'[b] = apc[b] /\ cur'[b] = cur[b] /\ ver'[b] = ver[b] /\ tries'[b] = tries[b]
          /\ UNCHANGED <<out, shared>>
      BY <1>17 DEF Reprint, InLine, Ask
    <3>2. ASSUME apc[b] \in Busy, job'[cur[b]] = "printing"
          PROVE  /\ job[cur[b]] = "printing" /\ asked'[cur[b]] = asked[cur[b]]
                 /\ attempts'[cur[b]] = attempts[cur[b]]
      <4>1. cur[b] \in Docs
        BY <3>2
      <4> QED
        BY <1>17, <3>2, <4>1 DEF Reprint, InLine, Ask
    <3> QED
      BY <2>1, <3>1, <3>2, KeepsCurrent
  <2> HIDE DEF Exclusive, InHand
  <2> QED
    BY <2>1, <2>2 DEF Current
<1>18. ASSUME NEW d \in Docs, Requeue(d) PROVE Current'
  <2>1. \A x \in Docs : out'[x] <= asked'[x] /\ asked[x] <= asked'[x]
    <3>1. \A x \in Docs : out[x] <= asked[x] /\ asked[x] <= asked[x]
      BY DEF Current
    <3>2. UNCHANGED <<out, asked>> \/ (Ask(d) /\ UNCHANGED out)
      BY <1>18 DEF Requeue
    <3> QED
      BY <3>1, <3>2, AskMore
  <2>2. ASSUME NEW b \in Agents PROVE CurrentOf(b)'
    <3>1. /\ apc'[b] = apc[b] /\ cur'[b] = cur[b] /\ ver'[b] = ver[b] /\ tries'[b] = tries[b]
          /\ UNCHANGED <<out, shared>>
      BY <1>18 DEF Requeue, Ask
    <3>2. ASSUME apc[b] \in Busy, job'[cur[b]] = "printing"
          PROVE  /\ job[cur[b]] = "printing" /\ asked'[cur[b]] = asked[cur[b]]
                 /\ attempts'[cur[b]] = attempts[cur[b]]
      <4>1. cur[b] \in Docs
        BY <3>2
      <4> QED
        BY <1>18, <3>2, <4>1, SMTT(40) DEF Requeue, Ask
    <3> QED
      BY <2>1, <3>1, <3>2, KeepsCurrent
  <2> HIDE DEF Exclusive, InHand
  <2> QED
    BY <2>1, <2>2 DEF Current
<1>19. ASSUME NEW d \in Docs, Withdraw(d) PROVE Current'
  <2>1. \A x \in Docs : out'[x] <= asked'[x] /\ asked[x] <= asked'[x]
    <3>1. \A x \in Docs : out[x] <= asked[x] /\ asked[x] <= asked[x]
      BY DEF Current
    <3>2. UNCHANGED <<out, asked>>
      BY <1>19 DEF Withdraw
    <3> QED
      BY <3>1, <3>2
  <2>2. ASSUME NEW b \in Agents PROVE CurrentOf(b)'
    <3>1. /\ apc'[b] = apc[b] /\ cur'[b] = cur[b] /\ ver'[b] = ver[b] /\ tries'[b] = tries[b]
          /\ UNCHANGED <<out, shared>>
      BY <1>19 DEF Withdraw
    <3>2. ASSUME apc[b] \in Busy, job'[cur[b]] = "printing"
          PROVE  /\ job[cur[b]] = "printing" /\ asked'[cur[b]] = asked[cur[b]]
                 /\ attempts'[cur[b]] = attempts[cur[b]]
      <4>1. cur[b] \in Docs
        BY <3>2
      <4> QED
        BY <1>19, <3>2, <4>1 DEF Withdraw
    <3> QED
      BY <2>1, <3>1, <3>2, KeepsCurrent
  <2> HIDE DEF Exclusive, InHand
  <2> QED
    BY <2>1, <2>2 DEF Current
<1>20. ASSUME NEW d \in Docs, WindowClosed(d) PROVE Current'
  <2>1. \A x \in Docs : out'[x] <= asked'[x] /\ asked[x] <= asked'[x]
    <3>1. \A x \in Docs : out[x] <= asked[x] /\ asked[x] <= asked[x]
      BY DEF Current
    <3> QED
      BY <1>20, <3>1 DEF WindowClosed
  <2>2. ASSUME NEW b \in Agents PROVE CurrentOf(b)'
    <3>1. /\ apc'[b] = apc[b] /\ cur'[b] = cur[b] /\ ver'[b] = ver[b] /\ tries'[b] = tries[b]
          /\ UNCHANGED <<out, shared>>
      BY <1>20 DEF WindowClosed
    <3>2. ASSUME apc[b] \in Busy, job'[cur[b]] = "printing"
          PROVE  /\ job[cur[b]] = "printing" /\ asked'[cur[b]] = asked[cur[b]]
                 /\ attempts'[cur[b]] = attempts[cur[b]]
      <4>1. cur[b] \in Docs
        BY <3>2
      <4> QED
        BY <1>20, <3>2, <4>1 DEF WindowClosed
    <3> QED
      BY <2>1, <3>1, <3>2, KeepsCurrent
  <2> HIDE DEF Exclusive, InHand
  <2> QED
    BY <2>1, <2>2 DEF Current
<1>21. ASSUME NEW d \in Docs, Delete(d) PROVE Current'
  <2>1. \A x \in Docs : out'[x] <= asked'[x] /\ asked[x] <= asked'[x]
    <3>1. \A x \in Docs : out[x] <= asked[x] /\ asked[x] <= asked[x]
      BY DEF Current
    <3> QED
      BY <1>21, <3>1 DEF Delete
  <2>2. ASSUME NEW b \in Agents PROVE CurrentOf(b)'
    <3>1. /\ apc'[b] = apc[b] /\ cur'[b] = cur[b] /\ ver'[b] = ver[b] /\ tries'[b] = tries[b]
          /\ UNCHANGED <<out, shared>>
      BY <1>21 DEF Delete
    <3>2. ASSUME apc[b] \in Busy, job'[cur[b]] = "printing"
          PROVE  /\ job[cur[b]] = "printing" /\ asked'[cur[b]] = asked[cur[b]]
                 /\ attempts'[cur[b]] = attempts[cur[b]]
      <4>1. cur[b] \in Docs
        BY <3>2
      <4> QED
        BY <1>21, <3>2, <4>1 DEF Delete
    <3> QED
      BY <2>1, <3>1, <3>2, KeepsCurrent
  <2> HIDE DEF Exclusive, InHand
  <2> QED
    BY <2>1, <2>2 DEF Current
<1>22. ASSUME NEW d \in Docs, GrowOld(d) PROVE Current'
  <2>1. \A x \in Docs : out'[x] <= asked'[x] /\ asked[x] <= asked'[x]
    <3>1. \A x \in Docs : out[x] <= asked[x] /\ asked[x] <= asked[x]
      BY DEF Current
    <3> QED
      BY <1>22, <3>1 DEF GrowOld
  <2>2. ASSUME NEW b \in Agents PROVE CurrentOf(b)'
    <3>1. /\ apc'[b] = apc[b] /\ cur'[b] = cur[b] /\ ver'[b] = ver[b] /\ tries'[b] = tries[b]
          /\ UNCHANGED <<out, shared>>
      BY <1>22 DEF GrowOld, Lose
    <3>2. ASSUME apc[b] \in Busy, job'[cur[b]] = "printing"
          PROVE  /\ job[cur[b]] = "printing" /\ asked'[cur[b]] = asked[cur[b]]
                 /\ attempts'[cur[b]] = attempts[cur[b]]
      <4>1. cur[b] \in Docs
        BY <3>2
      <4> QED
        BY <1>22, <3>2, <4>1 DEF GrowOld, Lose
    <3> QED
      BY <2>1, <3>1, <3>2, KeepsCurrent
  <2> HIDE DEF Exclusive, InHand
  <2> QED
    BY <2>1, <2>2 DEF Current
<1>23. CASE UNCHANGED queueVars
    BY <1>23 DEF queueVars, Current, CurrentOf
<1> QED
    BY <1>1, <1>2, <1>3, <1>4, <1>5, <1>6, <1>7, <1>8, <1>9, <1>10, <1>11,
       <1>12, <1>13, <1>14, <1>15, <1>16, <1>17, <1>18, <1>19, <1>20, <1>21,
       <1>22, <1>23
       DEF QueueNext, AgentStep, Request

-----------------------------------------------------------------------------
(* A job is `printed', or given up, by the agent whose paper or count is   *)
(* the current one, and nothing but a new request changes them after.      *)
LEMMA NextVerdicts ==
    ASSUME QueueTypeOK, QueueTypeOK', InHand, Exclusive, Current, [QueueNext]_queueVars,
           PrintedMeansPaper, GivesUpLate
    PROVE  PrintedMeansPaper' /\ GivesUpLate'
<1> USE CurIsNote DEF QueueTypeOK, Step, Status, Busy,
        jobVars, agentVars, historyVars, queueVars
<1>1. ASSUME NEW a \in Agents, Release(a) PROVE PrintedMeansPaper' /\ GivesUpLate'
  <2>1. ASSUME NEW x \in Docs \ shared', job'[x] = "printed" PROVE out'[x] = asked'[x]
    BY <1>1, <2>1 DEF Release, PrintedMeansPaper
  <2>2. ASSUME NEW x \in Docs \ shared', job'[x] = "failed"
        PROVE  attempts'[x] >= MaxAttempts \/ x \in gone'
    BY <1>1, <2>2 DEF Release, GivesUpLate
  <2> QED
    BY <2>1, <2>2 DEF PrintedMeansPaper, GivesUpLate
<1>2. ASSUME NEW a \in Agents, Find(a) PROVE PrintedMeansPaper' /\ GivesUpLate'
  <2>1. ASSUME NEW x \in Docs \ shared', job'[x] = "printed" PROVE out'[x] = asked'[x]
    BY <1>2, <2>1 DEF Find, Pending, PrintedMeansPaper
  <2>2. ASSUME NEW x \in Docs \ shared', job'[x] = "failed"
        PROVE  attempts'[x] >= MaxAttempts \/ x \in gone'
    BY <1>2, <2>2 DEF Find, Pending, GivesUpLate
  <2> QED
    BY <2>1, <2>2 DEF PrintedMeansPaper, GivesUpLate
<1>3. ASSUME NEW a \in Agents, NEW d \in Docs, Claim(a, d) PROVE PrintedMeansPaper' /\ GivesUpLate'
  <2>1. ASSUME NEW x \in Docs \ shared', job'[x] = "printed" PROVE out'[x] = asked'[x]
    BY <1>3, <2>1, SMTT(40) DEF Claim, Tries, PrintedMeansPaper
  <2>2. ASSUME NEW x \in Docs \ shared', job'[x] = "failed"
        PROVE  attempts'[x] >= MaxAttempts \/ x \in gone'
    BY <1>3, <2>2, SMTT(40) DEF Claim, Tries, GivesUpLate
  <2> QED
    BY <2>1, <2>2 DEF PrintedMeansPaper, GivesUpLate
<1>4. ASSUME NEW a \in Agents, Given(a) PROVE PrintedMeansPaper' /\ GivesUpLate'
  <2>1. ASSUME NEW x \in Docs \ shared', job'[x] = "printed" PROVE out'[x] = asked'[x]
    BY <1>4, <2>1 DEF Given, PrintedMeansPaper
  <2>2. ASSUME NEW x \in Docs \ shared', job'[x] = "failed"
        PROVE  attempts'[x] >= MaxAttempts \/ x \in gone'
    BY <1>4, <2>2 DEF Given, GivesUpLate
  <2> QED
    BY <2>1, <2>2 DEF PrintedMeansPaper, GivesUpLate
<1>5. ASSUME NEW a \in Agents, GivenToNobody(a) PROVE PrintedMeansPaper' /\ GivesUpLate'
  <2>1. ASSUME NEW x \in Docs \ shared', job'[x] = "printed" PROVE out'[x] = asked'[x]
    BY <1>5, <2>1 DEF GivenToNobody, Lose, PrintedMeansPaper
  <2>2. ASSUME NEW x \in Docs \ shared', job'[x] = "failed"
        PROVE  attempts'[x] >= MaxAttempts \/ x \in gone'
    BY <1>5, <2>2 DEF GivenToNobody, Lose, GivesUpLate
  <2> QED
    BY <2>1, <2>2 DEF PrintedMeansPaper, GivesUpLate
<1>6. ASSUME NEW a \in Agents, NEW d \in Docs, Download(a, d)
            PROVE PrintedMeansPaper' /\ GivesUpLate'
  <2>1. ASSUME NEW x \in Docs \ shared', job'[x] = "printed" PROVE out'[x] = asked'[x]
    BY <1>6, <2>1 DEF Download, PrintedMeansPaper
  <2>2. ASSUME NEW x \in Docs \ shared', job'[x] = "failed"
        PROVE  attempts'[x] >= MaxAttempts \/ x \in gone'
    BY <1>6, <2>2 DEF Download, GivesUpLate
  <2> QED
    BY <2>1, <2>2 DEF PrintedMeansPaper, GivesUpLate
<1>7. ASSUME NEW a \in Agents, NEW d \in Docs, DownloadGone(a, d)
            PROVE PrintedMeansPaper' /\ GivesUpLate'
  <2>1. ASSUME NEW x \in Docs \ shared', job'[x] = "printed" PROVE out'[x] = asked'[x]
    BY <1>7, <2>1 DEF DownloadGone, Leave, PrintedMeansPaper
  <2>2. ASSUME NEW x \in Docs \ shared', job'[x] = "failed"
        PROVE  attempts'[x] >= MaxAttempts \/ x \in gone'
    BY <1>7, <2>2 DEF DownloadGone, Leave, GivesUpLate
  <2> QED
    BY <2>1, <2>2 DEF PrintedMeansPaper, GivesUpLate
<1>8. ASSUME NEW a \in Agents, PaperOut(a) PROVE PrintedMeansPaper' /\ GivesUpLate'
  <2>1. ASSUME NEW x \in Docs \ shared', job'[x] = "printed" PROVE out'[x] = asked'[x]
    <3>1. /\ UNCHANGED <<job, asked, shared>> /\ cur[a] \in Docs /\ apc[a] = "print"
          /\ out'[x] = IF x = cur[a] /\ ver[a] > out[x] THEN ver[a] ELSE out[x]
      BY <1>8, <2>1 DEF PaperOut
    <3>2. out[x] = asked[x]
      BY <2>1, <3>1 DEF PrintedMeansPaper
    <3>3. x = cur[a] => ver[a] <= asked[x]
      BY <3>1 DEF Current, CurrentOf
    <3>4. ver[a] \in Nat /\ asked[x] \in Nat
      BY <2>1
    <3> QED
      BY <3>1, <3>2, <3>3, <3>4
  <2>2. ASSUME NEW x \in Docs \ shared', job'[x] = "failed"
        PROVE  attempts'[x] >= MaxAttempts \/ x \in gone'
    BY <1>8, <2>2 DEF PaperOut, GivesUpLate
  <2> QED
    BY <2>1, <2>2 DEF PrintedMeansPaper, GivesUpLate
<1>9. ASSUME NEW a \in Agents, PrintFails(a) PROVE PrintedMeansPaper' /\ GivesUpLate'
  <2>1. ASSUME NEW x \in Docs \ shared', job'[x] = "printed" PROVE out'[x] = asked'[x]
    BY <1>9, <2>1 DEF PrintFails, PrintedMeansPaper
  <2>2. ASSUME NEW x \in Docs \ shared', job'[x] = "failed"
        PROVE  attempts'[x] >= MaxAttempts \/ x \in gone'
    BY <1>9, <2>2 DEF PrintFails, GivesUpLate
  <2> QED
    BY <2>1, <2>2 DEF PrintedMeansPaper, GivesUpLate
<1>10. ASSUME NEW a \in Agents, ReportPrinted(a) PROVE PrintedMeansPaper' /\ GivesUpLate'
  <2>1. ASSUME NEW x \in Docs \ shared', job'[x] = "printed" PROVE out'[x] = asked'[x]
    <3>1. UNCHANGED <<out, asked, shared>> /\ cur[a] \in Docs /\ apc[a] = "report"
      BY <1>10 DEF ReportPrinted
    <3>2. CASE job[x] = "printed"
      BY <2>1, <3>1, <3>2 DEF PrintedMeansPaper
    <3>3. CASE job[x] # "printed"
      <4>1. x = cur[a] /\ job[x] = "printing"
        BY <1>10, <2>1, <3>3 DEF ReportPrinted
      <4> QED
        BY <2>1, <3>1, <4>1 DEF Current, CurrentOf
    <3> QED
      BY <3>2, <3>3
  <2>2. ASSUME NEW x \in Docs \ shared', job'[x] = "failed"
        PROVE  attempts'[x] >= MaxAttempts \/ x \in gone'
    BY <1>10, <2>2 DEF ReportPrinted, Leave, GivesUpLate
  <2> QED
    BY <2>1, <2>2 DEF PrintedMeansPaper, GivesUpLate
<1>11. ASSUME NEW a \in Agents, Stamp(a) PROVE PrintedMeansPaper' /\ GivesUpLate'
  <2>1. ASSUME NEW x \in Docs \ shared', job'[x] = "printed" PROVE out'[x] = asked'[x]
    BY <1>11, <2>1 DEF Stamp, Leave, PrintedMeansPaper
  <2>2. ASSUME NEW x \in Docs \ shared', job'[x] = "failed"
        PROVE  attempts'[x] >= MaxAttempts \/ x \in gone'
    BY <1>11, <2>2 DEF Stamp, Leave, GivesUpLate
  <2> QED
    BY <2>1, <2>2 DEF PrintedMeansPaper, GivesUpLate
<1>12. ASSUME NEW a \in Agents, ReportFailed(a) PROVE PrintedMeansPaper' /\ GivesUpLate'
  <2>1. ASSUME NEW x \in Docs \ shared', job'[x] = "printed" PROVE out'[x] = asked'[x]
    BY <1>12, <2>1 DEF ReportFailed, OneMore, Leave, PrintedMeansPaper
  <2>2. ASSUME NEW x \in Docs \ shared', job'[x] = "failed"
        PROVE  attempts'[x] >= MaxAttempts \/ x \in gone'
    BY <1>12, <2>2, ZenonT(40) DEF ReportFailed, OneMore, Leave, GivesUpLate
  <2> QED
    BY <2>1, <2>2 DEF PrintedMeansPaper, GivesUpLate
<1>13. ASSUME NEW a \in Agents, Settle(a) PROVE PrintedMeansPaper' /\ GivesUpLate'
  <2>1. ASSUME NEW x \in Docs \ shared', job'[x] = "printed" PROVE out'[x] = asked'[x]
    BY <1>13, <2>1 DEF Settle, Verdict, Leave, PrintedMeansPaper
  <2>2. ASSUME NEW x \in Docs \ shared', job'[x] = "failed"
        PROVE  attempts'[x] >= MaxAttempts \/ x \in gone'
    <3>1. UNCHANGED <<attempts, gone, shared>> /\ cur[a] \in Docs /\ apc[a] = "settle"
      BY <1>13 DEF Settle
    <3>2. CASE job[x] = "failed"
      BY <2>2, <3>1, <3>2 DEF GivesUpLate
    <3>3. CASE job[x] # "failed"
      <4>1. x = cur[a] /\ job[x] = "printing" /\ tries[a] >= MaxAttempts
        BY <1>13, <2>2, <3>3 DEF Settle, Verdict
      <4> QED
        BY <2>2, <3>1, <4>1 DEF Current, CurrentOf
    <3> QED
      BY <3>2, <3>3
  <2> QED
    BY <2>1, <2>2 DEF PrintedMeansPaper, GivesUpLate
<1>14. ASSUME NEW a \in Agents, ReportLost(a) PROVE PrintedMeansPaper' /\ GivesUpLate'
  <2>1. ASSUME NEW x \in Docs \ shared', job'[x] = "printed" PROVE out'[x] = asked'[x]
    BY <1>14, <2>1 DEF ReportLost, Lose, Leave, PrintedMeansPaper
  <2>2. ASSUME NEW x \in Docs \ shared', job'[x] = "failed"
        PROVE  attempts'[x] >= MaxAttempts \/ x \in gone'
    BY <1>14, <2>2 DEF ReportLost, Lose, Leave, GivesUpLate
  <2> QED
    BY <2>1, <2>2 DEF PrintedMeansPaper, GivesUpLate
<1>15. ASSUME NEW a \in Agents, Die(a) PROVE PrintedMeansPaper' /\ GivesUpLate'
  <2>1. ASSUME NEW x \in Docs \ shared', job'[x] = "printed" PROVE out'[x] = asked'[x]
    BY <1>15, <2>1 DEF Die, Lose, PrintedMeansPaper
  <2>2. ASSUME NEW x \in Docs \ shared', job'[x] = "failed"
        PROVE  attempts'[x] >= MaxAttempts \/ x \in gone'
    BY <1>15, <2>2 DEF Die, Lose, GivesUpLate
  <2> QED
    BY <2>1, <2>2 DEF PrintedMeansPaper, GivesUpLate
<1>16. ASSUME NEW d \in Docs, Enqueue(d) PROVE PrintedMeansPaper' /\ GivesUpLate'
  <2>1. ASSUME NEW x \in Docs \ shared', job'[x] = "printed" PROVE out'[x] = asked'[x]
    BY <1>16, <2>1 DEF Enqueue, InLine, Ask, PrintedMeansPaper
  <2>2. ASSUME NEW x \in Docs \ shared', job'[x] = "failed"
        PROVE  attempts'[x] >= MaxAttempts \/ x \in gone'
    BY <1>16, <2>2 DEF Enqueue, InLine, Ask, GivesUpLate
  <2> QED
    BY <2>1, <2>2 DEF PrintedMeansPaper, GivesUpLate
<1>17. ASSUME NEW d \in Docs, Reprint(d) PROVE PrintedMeansPaper' /\ GivesUpLate'
  <2>1. ASSUME NEW x \in Docs \ shared', job'[x] = "printed" PROVE out'[x] = asked'[x]
    BY <1>17, <2>1 DEF Reprint, InLine, Ask, PrintedMeansPaper
  <2>2. ASSUME NEW x \in Docs \ shared', job'[x] = "failed"
        PROVE  attempts'[x] >= MaxAttempts \/ x \in gone'
    BY <1>17, <2>2 DEF Reprint, InLine, Ask, GivesUpLate
  <2> QED
    BY <2>1, <2>2 DEF PrintedMeansPaper, GivesUpLate
<1>18. ASSUME NEW d \in Docs, Requeue(d) PROVE PrintedMeansPaper' /\ GivesUpLate'
  <2>1. ASSUME NEW x \in Docs \ shared', job'[x] = "printed" PROVE out'[x] = asked'[x]
    BY <1>18, <2>1, SMTT(40) DEF Requeue, Ask, PrintedMeansPaper
  <2>2. ASSUME NEW x \in Docs \ shared', job'[x] = "failed"
        PROVE  attempts'[x] >= MaxAttempts \/ x \in gone'
    BY <1>18, <2>2, SMTT(40) DEF Requeue, Ask, GivesUpLate
  <2> QED
    BY <2>1, <2>2 DEF PrintedMeansPaper, GivesUpLate
<1>19. ASSUME NEW d \in Docs, Withdraw(d) PROVE PrintedMeansPaper' /\ GivesUpLate'
  <2>1. ASSUME NEW x \in Docs \ shared', job'[x] = "printed" PROVE out'[x] = asked'[x]
    BY <1>19, <2>1 DEF Withdraw, PrintedMeansPaper
  <2>2. ASSUME NEW x \in Docs \ shared', job'[x] = "failed"
        PROVE  attempts'[x] >= MaxAttempts \/ x \in gone'
    BY <1>19, <2>2 DEF Withdraw, GivesUpLate
  <2> QED
    BY <2>1, <2>2 DEF PrintedMeansPaper, GivesUpLate
<1>20. ASSUME NEW d \in Docs, WindowClosed(d) PROVE PrintedMeansPaper' /\ GivesUpLate'
  <2>1. ASSUME NEW x \in Docs \ shared', job'[x] = "printed" PROVE out'[x] = asked'[x]
    BY <1>20, <2>1 DEF WindowClosed, PrintedMeansPaper
  <2>2. ASSUME NEW x \in Docs \ shared', job'[x] = "failed"
        PROVE  attempts'[x] >= MaxAttempts \/ x \in gone'
    BY <1>20, <2>2 DEF WindowClosed, GivesUpLate
  <2> QED
    BY <2>1, <2>2 DEF PrintedMeansPaper, GivesUpLate
<1>21. ASSUME NEW d \in Docs, Delete(d) PROVE PrintedMeansPaper' /\ GivesUpLate'
  <2>1. ASSUME NEW x \in Docs \ shared', job'[x] = "printed" PROVE out'[x] = asked'[x]
    BY <1>21, <2>1 DEF Delete, PrintedMeansPaper
  <2>2. ASSUME NEW x \in Docs \ shared', job'[x] = "failed"
        PROVE  attempts'[x] >= MaxAttempts \/ x \in gone'
    BY <1>21, <2>2 DEF Delete, GivesUpLate
  <2> QED
    BY <2>1, <2>2 DEF PrintedMeansPaper, GivesUpLate
<1>22. ASSUME NEW d \in Docs, GrowOld(d) PROVE PrintedMeansPaper' /\ GivesUpLate'
  <2>1. ASSUME NEW x \in Docs \ shared', job'[x] = "printed" PROVE out'[x] = asked'[x]
    BY <1>22, <2>1 DEF GrowOld, Lose, PrintedMeansPaper
  <2>2. ASSUME NEW x \in Docs \ shared', job'[x] = "failed"
        PROVE  attempts'[x] >= MaxAttempts \/ x \in gone'
    BY <1>22, <2>2 DEF GrowOld, Lose, GivesUpLate
  <2> QED
    BY <2>1, <2>2 DEF PrintedMeansPaper, GivesUpLate
<1>23. CASE UNCHANGED queueVars
    BY <1>23 DEF queueVars, PrintedMeansPaper, GivesUpLate
<1> QED
    BY <1>1, <1>2, <1>3, <1>4, <1>5, <1>6, <1>7, <1>8, <1>9, <1>10, <1>11,
       <1>12, <1>13, <1>14, <1>15, <1>16, <1>17, <1>18, <1>19, <1>20, <1>21,
       <1>22, <1>23
       DEF QueueNext, AgentStep, Request

QueueInv ==
    /\ QueueTypeOK /\ InHand /\ Exclusive /\ Current
    /\ PrintedMeansPaper /\ GivesUpLate

LEMMA InitInv == QueueInit => QueueInv
<1> SUFFICES ASSUME QueueInit PROVE QueueInv
    OBVIOUS
<1>1. QueueTypeOK
    BY InitType
<1>2. InHand /\ Exclusive
    BY DEF QueueInit, InHand, Exclusive, Busy
<1>3. Current
    BY DEF QueueInit, Current, CurrentOf, Busy
<1>4. PrintedMeansPaper /\ GivesUpLate
    BY DEF QueueInit, PrintedMeansPaper, GivesUpLate
<1> QED
    BY <1>1, <1>2, <1>3, <1>4 DEF QueueInv

LEMMA NextInv == QueueInv /\ [QueueNext]_queueVars => QueueInv'
<1> SUFFICES ASSUME QueueInv, [QueueNext]_queueVars PROVE QueueInv'
    OBVIOUS
<1>1. QueueTypeOK' /\ InHand'
    BY NextType, NextInHand DEF QueueInv
<1>2. Exclusive'
    BY NextExclusive DEF QueueInv
<1>3. Current'
    BY <1>1, NextCurrent DEF QueueInv
<1>4. PrintedMeansPaper' /\ GivesUpLate'
    BY <1>1, NextVerdicts DEF QueueInv
<1> QED
    BY <1>1, <1>2, <1>3, <1>4 DEF QueueInv

LEMMA InvAlways == QueueSpec => []QueueInv
BY InitInv, NextInv, PTL DEF QueueSpec

(* Every variable of the queue keeps its type.                             *)
THEOREM TypeCorrect == QueueSpec => []QueueTypeOK
<1>1. QueueInv => QueueTypeOK
    BY DEF QueueInv
<1> QED
    BY <1>1, InvAlways, PTL

(* No two agents hold one job, unless somebody asked for it again or one   *)
(* of them kept it past the lock.                                          *)
THEOREM JobsAreHandedOnce == QueueSpec => []HandedOnce
<1>1. QueueInv => HandedOnce
    BY DEF QueueInv, Exclusive, HandedOnce
<1> QED
    BY <1>1, InvAlways, PTL

(* A job that says `printed' has a paper for its latest request.           *)
THEOREM PrintedHasPaper == QueueSpec => []PrintedMeansPaper
<1>1. QueueInv => PrintedMeansPaper
    BY DEF QueueInv
<1> QED
    BY <1>1, InvAlways, PTL

(* A job is given up only after a full round for its latest request.       *)
THEOREM GivenUpAfterAll == QueueSpec => []GivesUpLate
<1>1. QueueInv => GivesUpLate
    BY DEF QueueInv
<1> QED
    BY <1>1, InvAlways, PTL
=============================================================================
