------------------------- MODULE MCReliableSender -------------------------
(* The sender alone, its methods called in every order.                    *)
EXTENDS ReliableSender
=============================================================================
