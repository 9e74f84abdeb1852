------------------------------ MODULE MCEndpoint ------------------------------
(* The endpoint; the cfg files choose slots, calls and traffic.  Outbound      *)
(* commands are interchangeable, and so are inbound ones: nothing in the      *)
(* component compares transaction identifiers except for equality.            *)
EXTENDS Endpoint, TLC

TransactionSymmetry == Permutations(Commands) \cup Permutations(Inbound)
=============================================================================
