------------------------------ MODULE Heartbeat ------------------------------
(***************************************************************************)
(* The application heartbeat (application_heartbeat.h/.cpp): the exchange  *)
(* of one PING with its PONG, the slot for the one reply this endpoint     *)
(* owes, and the counters, as one record and operators on it.  Endpoint    *)
(* calls them from its loop.                                               *)
(*                                                                         *)
(* A packet is its kind, the boot identifier of who asked ("this" boot or  *)
(* an earlier one) and its sequence number; zero is no packet.  Sequence   *)
(* numbers do not wrap within a run.                                       *)
(***************************************************************************)
EXTENDS Naturals

CONSTANTS
  HeartbeatInterval,  \* heartbeat_interval_ in ticks; 0 in a responder
  HeartbeatTimeout,   \* heartbeat_timeout_
  MaxPings            \* bound: PINGs this endpoint sends

InitialHeart ==
  [pending |-> 0,     \* heartbeat_exchange_: the PING that waits, and its age
   age |-> 0,
   since |-> 0,       \* time since heartbeat_last_attempt_
   sequence |-> 0,    \* heartbeat_sequence_
   reply |-> 0,       \* heartbeat_reply_, while heartbeat_reply_pending_
   replyAge |-> 0,
   sent |-> 0, ok |-> 0, lost |-> 0, errors |-> 0,  \* the four counters
   dropped |-> 0,     \* history: exchanges given up by a disable
   credited |-> {}]   \* history: the PINGs counted as answered

\* HeartbeatExchange::expired
Expired(h) == h.pending # 0 /\ h.age >= HeartbeatTimeout

\* Mutant: any PONG of this boot answers the pending PING.
AnswersAny(h, packet) ==
  h.pending # 0 /\ ~Expired(h) /\ packet.boot = "this"

\* HeartbeatExchange::accept
Answers(h, packet) ==
  /\ h.pending # 0 /\ ~Expired(h)
  /\ packet.boot = "this" /\ packet.sequence = h.pending

\* receive_heartbeat_: a PING takes the reply slot if it is free, a PONG ends
\* the exchange it answers.
Receive(h, packet) ==
  CASE packet.kind = "PING" /\ h.reply = 0 ->
         [h EXCEPT !.reply = packet.sequence, !.replyAge = 0]
    [] packet.kind = "PONG" /\ Answers(h, packet) ->
         [h EXCEPT !.pending = 0, !.age = 0, !.ok = @ + 1,
                   !.credited = @ \cup {h.pending}]
    [] OTHER -> h

\* Mutant: an expired exchange is counted and stays open.
ExpireExchangeKeeps(h) ==
  IF Expired(h) THEN [h EXCEPT !.lost = @ + 1, !.age = 0] ELSE h

ExpireExchange(h) ==
  IF Expired(h) THEN [h EXCEPT !.pending = 0, !.age = 0, !.lost = @ + 1]
  ELSE h

ExpireReply(h) ==
  IF h.reply # 0 /\ h.replyAge >= HeartbeatTimeout
  THEN [h EXCEPT !.reply = 0, !.replyAge = 0] ELSE h

\* Mutant: an exchange never expires.
TickExpiredReplyOnly(h) == ExpireReply(h)

\* heartbeat_tick_: the exchange and the reply expire.
TickExpired(h) == ExpireReply(ExpireExchange(h))

\* dispatch_heartbeat_: a waiting reply goes first, sent or refused.
TakeReply(h) == [h EXCEPT !.reply = 0, !.replyAge = 0]

PingDue(h) ==
  /\ h.reply = 0 /\ HeartbeatInterval # 0 /\ h.pending = 0
  /\ h.since >= HeartbeatInterval /\ h.sequence < MaxPings

PingAttempt(h) ==
  [h EXCEPT !.since = 0, !.sequence = @ + 1, !.sent = @ + 1]
Pinged(h) ==
  [PingAttempt(h) EXCEPT !.pending = h.sequence + 1, !.age = 0]
PingRefused(h) == [PingAttempt(h) EXCEPT !.errors = @ + 1]

\* set_runtime_enabled(false)
Abandon(h) ==
  [h EXCEPT !.pending = 0, !.age = 0, !.reply = 0, !.replyAge = 0,
            !.dropped = @ + (IF h.pending = 0 THEN 0 ELSE 1)]

\* A tick of millis(), up to the values the ages are compared with.
Upto(limit, age) == IF age < limit THEN age + 1 ELSE age
Elapse(h) ==
  [h EXCEPT !.age = IF h.pending = 0 THEN 0 ELSE Upto(HeartbeatTimeout, @),
            !.replyAge = IF h.reply = 0 THEN 0 ELSE Upto(HeartbeatTimeout, @),
            !.since = Upto(HeartbeatInterval, @)]

\* Every PING that was attempted is counted once: answered, lost, refused by
\* the radio, given up, or still waiting, even when a PONG and the timeout fall
\* into the same iteration or a PONG is repeated.
Balanced(h) ==
  h.sent = h.ok + h.lost + h.errors + h.dropped
             + (IF h.pending = 0 THEN 0 ELSE 1)
=============================================================================
