-------------------------- MODULE ReliableDelivery --------------------------
(***************************************************************************)
(* What the reliable sender and the receiving runtime promise together, per*)
(* message: in one life of the receiver (between two of its reboots) it is *)
(* taken at most once; the sender reports success only if it was taken; a  *)
(* failure report promises nothing, for the receiver may have taken the    *)
(* message or may still do so.  A reboot of the sender abandons the message*)
(* under way; a reboot of the receiver forgets what it has taken.          *)
(***************************************************************************)
EXTENDS Naturals

CONSTANT Deliveries  \* identities of the messages

VARIABLES
  offered,    \* messages given to the sender
  taken,      \* how often the receiver took each message since it booted
  everTaken,  \* messages the receiver took in any of its lives
  outcome     \* what the sender reported, per message

vars == <<offered, taken, everTaken, outcome>>

Init ==
  /\ offered = {} /\ everTaken = {}
  /\ taken = [d \in Deliveries |-> 0]
  /\ outcome = [d \in Deliveries |-> "none"]

Idle == \A d \in offered : outcome[d] # "none"

Offer(d) ==
  /\ Idle /\ d \notin offered
  /\ offered' = offered \cup {d}
  /\ UNCHANGED <<taken, everTaken, outcome>>

Take(d) ==
  /\ d \in offered /\ taken[d] = 0
  /\ taken' = [taken EXCEPT ![d] = 1]
  /\ everTaken' = everTaken \cup {d}
  /\ UNCHANGED <<offered, outcome>>

Report(d, what) ==
  /\ d \in offered /\ outcome[d] = "none"
  /\ what = "acknowledged" => d \in everTaken
  /\ outcome' = [outcome EXCEPT ![d] = what]
  /\ UNCHANGED <<offered, taken, everTaken>>

ReceiverReboots ==
  /\ taken' = [d \in Deliveries |-> 0]
  /\ UNCHANGED <<offered, everTaken, outcome>>

Next ==
  \/ \E d \in Deliveries : Offer(d) \/ Take(d)
  \/ \E d \in Deliveries, what \in {"acknowledged", "failed", "abandoned"} :
       Report(d, what)
  \/ ReceiverReboots

Spec == Init /\ [][Next]_vars
=============================================================================
