-------------------------- MODULE MCProtocolRuntime --------------------------
(* Two peers; a two-fragment command, three one-fragment results so that the *)
(* duplicate cache overflows, an ACK, and a result without the ACK flag.     *)
EXTENDS ProtocolRuntime, TLC

CONSTANTS b1, b2

Message(kind, tx, count, flag, body) ==
  [kind |-> kind, source |-> b1, tx |-> tx, sequence |-> tx, count |-> count,
   ackRequired |-> flag, body |-> body]

MCMessages ==
  { Message("COMMAND", 1, 2, TRUE, b1),
    Message("RESULT", 2, 1, TRUE, b1),
    Message("RESULT", 3, 1, TRUE, b1),
    Message("RESULT", 4, 1, FALSE, b1),
    Message("ACK", 1, 1, FALSE, b2),
    Message("ACK", 2, 1, FALSE, NoAck) }

\* The runtime treats its peers alike.
PeerSymmetry == Permutations(Peers)
=============================================================================
