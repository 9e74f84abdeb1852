----------------------------- MODULE MCSpscQueue -----------------------------
(* The ring with an index width small enough to wrap many times.            *)
EXTENDS SpscQueue
=============================================================================
