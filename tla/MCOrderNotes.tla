---------------------------- MODULE MCOrderNotes ----------------------------
(***************************************************************************)
(* Small instances of OrderNotes.                                          *)
(***************************************************************************)
EXTENDS OrderNotes, TLC

CONSTANTS auto, c1, c2, c0

NoteSymmetry == Permutations(Threads) \cup Permutations(Forms)

(* What is explored: behaviours up to the first step taken on a reading no *)
(* longer true (every property speaks of those alone, but for              *)
(* InvoiceMatchesNote, which is proved), with an automatic note and three  *)
(* carts, or with the forms of two clerks.                                 *)
Explored ==
    /\ ~overtaken
    /\ (\E f \in Forms : fpc[f] # "idle") =>
           cart # c2 /\ nstatus[AutoNote] = "none" /\ \A k \in Creators : kpc[k] = "idle"
=============================================================================
