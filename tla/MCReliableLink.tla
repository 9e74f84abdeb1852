---------------------------- MODULE MCReliableLink ----------------------------
(* Two messages over the link; the cfg files choose fragments and traffic.   *)
EXTENDS ReliableLink

\* One message of a third node before the first message of A and one while A
\* works on it, or none at all.
EarlyTraffic == [w \in {0} \cup Deliveries |-> IF w <= 1 THEN 1 ELSE 0]
NoTraffic == [w \in {0} \cup Deliveries |-> 0]
=============================================================================
