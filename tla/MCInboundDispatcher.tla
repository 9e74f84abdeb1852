------------------------ MODULE MCInboundDispatcher ------------------------
(* Three inbound commands over every build's lanes, and the two codecs of    *)
(* their payloads; dispatcher.cfg chooses the timeouts and the limits.       *)
EXTENDS InboundDispatcher
=============================================================================
