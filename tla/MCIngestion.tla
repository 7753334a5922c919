---------------------------- MODULE MCIngestion -----------------------------
(***************************************************************************)
(* Small instances of Ingestion.                                           *)
(***************************************************************************)
EXTENDS Ingestion, TLC

CONSTANTS m1, m2, d1, d2, d3, a2

(* The first message is sent twice.                                        *)
SentTwice == d1 :> m1 @@ d2 :> m1 @@ d3 :> m2

(* What is explored: three deliveries under a crash; deliveries of both    *)
(* messages under one call of a person, or two deliveries under one failing*)
(* database call; and one delivery under two calls and a failing database  *)
(* call, or one call and a crash.  Of two deliveries of one message d1     *)
(* comes first, of two people it is not a2 who does.  What is cut off are  *)
(* calls from outside and faults alone, so that every behaviour that       *)
(* remains is complete.                                                    *)
Explored ==
    LET come == {d \in Deliveries : pc[d] # "idle"} IN
    /\ d2 \in come => d1 \in come
    /\ acts <= 1 => pc[a2] = "idle"
    /\ \/ acts + errors = 0
       \/ errors + crashes = 0 /\ acts = 1 /\ d2 \notin come
       \/ acts + crashes = 0 /\ errors = 1 /\ come # Deliveries
       \/ come \subseteq {d1} /\ errors + crashes <= 1 /\ (acts = 2 => crashes = 0)
=============================================================================
