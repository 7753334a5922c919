---------------------------- MODULE MCPrintQueue ----------------------------
(***************************************************************************)
(* Small instance of PrintQueue: two agents and two notes, with a batch of *)
(* one, so that a job is ahead of another.                                 *)
(***************************************************************************)
EXTENDS PrintQueue, TLC

CONSTANTS a1, a2, d1, d2

(* Either one note meets everything requests and faults can do, or a job   *)
(* stands behind another one: each is asked for once, both may fail, be    *)
(* withdrawn or lose their note.  What is cut off are requests, deletions  *)
(* and losses, which no fairness owes, so what remains are whole           *)
(* behaviours.                                                             *)
Explored ==
    \/ asked[d2] = 0 /\ d2 \notin gone \cup original
    \/ /\ asked[d1] = 1 /\ asked[d2] <= 1
       /\ line[1] = d1
       /\ losses = 0
=============================================================================
