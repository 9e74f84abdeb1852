------------------------------- MODULE Codecs -------------------------------
(***************************************************************************)
(* EspNowCommandCodec (command_codec.h) and EspNowResultCodec              *)
(* (result_codec.h) with the validity rules of message_model.h, as         *)
(* operators from messages to payloads and back, and EspNowFrameCodec with *)
(* EspNowFrameReassembler (frame.h), from payloads to fragments and back.  *)
(*                                                                         *)
(* A payload is a sequence: one element for every header field, whatever   *)
(* its width, then the bytes of the segments.  The limits are constants,   *)
(* small in a run but in the proportions of the code: the largest command  *)
(* fills its payload exactly, the largest result fits only without its     *)
(* error text.  Texts are C strings: a NUL byte (0) ends them.             *)
(***************************************************************************)
EXTENDS Integers, Sequences, FiniteSetsExt

CONSTANTS
  MaxId,       \* MAX_DEVICE_ID_LENGTH and MAX_RESOURCE_LENGTH
  MaxName,     \* MAX_NAME_LENGTH
  MaxBody,     \* NetCommand::MAX_PAYLOAD_SIZE
  MaxSchema,   \* MAX_SCHEMA_LENGTH
  MaxData,     \* NetStateSnapshot::MAX_DATA_SIZE
  MaxError,    \* NetError::MAX_MESSAGE_LENGTH
  MaxMessage,  \* EspNowFrameCodec::MAX_MESSAGE_SIZE
  FragmentData, \* EspNowFrameCodec::MAX_FRAGMENT_DATA
  Undecodable  \* encode or decode returned false

CommandHeader == 6
ResultHeader == 14
MaxCommand == CommandHeader + 3 * MaxId + MaxName + MaxBody + 2

ASSUME CodecAssumption ==
  /\ {MaxId, MaxName, MaxBody, MaxSchema, MaxData, MaxError, MaxMessage,
      FragmentData} \subseteq Nat \ {0}
  /\ MaxCommand <= MaxMessage /\ MaxMessage <= 3 * FragmentData
  /\ ResultHeader + 2 * (MaxSchema + MaxData) <= MaxMessage

\* n elements of a payload from an offset on, and BoundedText::assign on them.
Segment(payload, offset, n) == SubSeq(payload, offset + 1, offset + n)

Text(bytes) ==
  LET nul == { i \in DOMAIN bytes : bytes[i] = 0 }
  IN IF nul = {} THEN bytes ELSE SubSeq(bytes, 1, Min(nul) - 1)

-----------------------------------------------------------------------------
(* EspNowCommandCodec                                                      *)

\* NetCommand::valid
ValidCommand(c) ==
  /\ c.device # <<>> /\ c.name # <<>> /\ c.timeout # 0
  /\ (c.source = <<>>) = (c.boot = 0)

\* Mutant: the limit itself is refused.
FitsCommandStrict(payload) == Len(payload) < MaxCommand

FitsCommand(payload) == Len(payload) <= MaxCommand

\* encode: version 2 appends the source identity.
EncodeCommand(c) ==
  LET payload ==
        << IF c.source = <<>> THEN 1 ELSE 2, Len(c.device), Len(c.resource),
           Len(c.name), Len(c.body), c.timeout >>
        \o c.device \o c.resource \o c.name \o c.body
        \o IF c.source = <<>> THEN <<>>
           ELSE <<Len(c.source), c.boot>> \o c.source
  IN IF ValidCommand(c) /\ FitsCommand(payload) THEN payload ELSE Undecodable

\* decode: the sizes must add up to the payload, and the source must hold no
\* NUL.
CommandSizesOk(p, identity) ==
  /\ p[2] \in 1 .. MaxId /\ p[3] <= MaxId /\ p[4] \in 1 .. MaxName
  /\ p[5] <= MaxBody /\ p[6] # 0
  /\ identity <= Len(p) /\ (p[1] = 1 => identity = Len(p))

SourceOk(p, identity) ==
  /\ identity + 2 <= Len(p)
  /\ p[identity + 1] \in 1 .. MaxId /\ p[identity + 2] # 0
  /\ identity + 2 + p[identity + 1] = Len(p)
  /\ \A i \in identity + 3 .. Len(p) : p[i] # 0

DecodeCommand(p) ==
  LET resource == CommandHeader + p[2]
      name == resource + p[3]
      body == name + p[4]
      identity == body + p[5]
      c == [device |-> Text(Segment(p, CommandHeader, p[2])),
            resource |-> Text(Segment(p, resource, p[3])),
            name |-> Text(Segment(p, name, p[4])),
            body |-> Segment(p, body, p[5]), timeout |-> p[6],
            source |-> IF p[1] = 1 THEN <<>>
                       ELSE Segment(p, identity + 2, p[identity + 1]),
            boot |-> IF p[1] = 1 THEN 0 ELSE p[identity + 2]]
  IN IF /\ Len(p) >= CommandHeader /\ p[1] \in {1, 2}
        /\ CommandSizesOk(p, identity) /\ (p[1] = 2 => SourceOk(p, identity))
        /\ ValidCommand(c)
     THEN c ELSE Undecodable

-----------------------------------------------------------------------------
(* EspNowResultCodec                                                       *)

ResultStatuses == {"SUCCEEDED", "IN_PROGRESS", "REJECTED", "FAILED"}
Completenesses == {"NOT_PROVIDED", "PARTIAL", "COMPLETE"}
ErrorCodes ==
  {"NONE", "INVALID_REQUEST", "TARGET_UNAVAILABLE", "TRANSPORT_UNAVAILABLE",
   "CONNECTION_FAILED", "AUTHENTICATION_FAILED", "TIMED_OUT", "PROTOCOL_ERROR",
   "REMOTE_REJECTED", "INTERNAL_ERROR", "INTERRUPTED"}

NoState == [completeness |-> "NOT_PROVIDED", schema |-> <<>>, data |-> <<>>]

\* NetStateSnapshot::consistent
ConsistentState(s) ==
  IF s.completeness = "NOT_PROVIDED" THEN s = NoState
  ELSE s.schema # <<>> /\ s.data # <<>>

\* NetResult::consistent with those of its execution context and error.
ConsistentResult(r) ==
  /\ r.hasEstimate => r.started /\ r.estimate # 0
  /\ r.hasProgress => r.started /\ r.progress <= 100
  /\ ConsistentState(r.expected) /\ ConsistentState(r.remote)
  /\ (r.expected # NoState) = r.hasExpected /\ (r.hasExpected => r.started)
  /\ IF r.code = "NONE" THEN ~r.retryable /\ r.error = <<>> ELSE r.error # <<>>
  /\ CASE r.status = "IN_PROGRESS" -> r.started /\ r.hasEstimate /\ r.code = "NONE"
       [] r.status = "SUCCEEDED" -> r.started /\ r.code = "NONE"
       [] OTHER -> r.code # "NONE"

\* The flag bits, as a set.
FlagNames == {"STARTED", "ESTIMATED", "PROGRESS", "EXPECTED", "REMOTE", "ERROR"}

\* What payloads consist of: numbers, enumeration values, bits and flag sets.
Elements ==
  UNION {Nat, BOOLEAN, SUBSET FlagNames, ResultStatuses, Completenesses, ErrorCodes}

ASSUME UndecodableAssumption == Undecodable \notin Seq(Elements)

Flags(r) ==
  { f \in FlagNames :
      CASE f = "STARTED" -> r.started
        [] f = "ESTIMATED" -> r.hasEstimate
        [] f = "PROGRESS" -> r.hasProgress
        [] f = "EXPECTED" -> r.hasExpected
        [] f = "REMOTE" -> r.remote.completeness # "NOT_PROVIDED"
        [] f = "ERROR" -> r.code # "NONE" }

EncodeResult(r) ==
  LET payload ==
        << 1, r.status, Flags(r), r.expected.completeness,
           r.remote.completeness, r.code, r.retryable, r.progress, r.estimate,
           Len(r.expected.schema), Len(r.expected.data), Len(r.remote.schema),
           Len(r.remote.data), Len(r.error) >>
        \o r.expected.schema \o r.expected.data
        \o r.remote.schema \o r.remote.data \o r.error
  IN IF ConsistentResult(r) /\ Len(payload) <= MaxMessage THEN payload
     ELSE Undecodable

\* decode_state_: the segments of a snapshot, both present or both absent.
StateAt(p, offset, schema, data, completeness) ==
  [completeness |-> completeness, schema |-> Text(Segment(p, offset, schema)),
   data |-> Segment(p, offset + schema, data)]

\* Unknown flags and enumeration values are refused.
HeaderKnown(p) ==
  /\ p[1] = 1 /\ p[2] \in ResultStatuses /\ p[3] \subseteq FlagNames
  /\ {p[4], p[5]} \subseteq Completenesses /\ p[6] \in ErrorCodes

\* flags_consistent_
FlagsMatchSizes(p) ==
  /\ ("EXPECTED" \in p[3]) = (p[10] # 0 /\ p[11] # 0)
  /\ ("REMOTE" \in p[3]) = (p[12] # 0 /\ p[13] # 0)
  /\ ("ERROR" \in p[3]) = (p[14] # 0)

\* Mutant: the remote snapshot is read without skipping the expected one's data.
RemoteOffsetUnskipped(p) == ResultHeader + p[10]

RemoteOffset(p) == ResultHeader + p[10] + p[11]

DecodeResult(p) ==
  LET error == RemoteOffset(p) + p[12] + p[13]
      r == [status |-> p[2], started |-> "STARTED" \in p[3],
            hasEstimate |-> "ESTIMATED" \in p[3], estimate |-> p[9],
            hasProgress |-> "PROGRESS" \in p[3], progress |-> p[8],
            hasExpected |-> "EXPECTED" \in p[3],
            expected |-> StateAt(p, ResultHeader, p[10], p[11], p[4]),
            remote |-> StateAt(p, RemoteOffset(p), p[12], p[13], p[5]),
            code |-> IF "ERROR" \in p[3] THEN p[6] ELSE "NONE",
            retryable |-> "ERROR" \in p[3] /\ p[7],
            error |-> IF "ERROR" \in p[3] THEN Text(Segment(p, error, p[14]))
                      ELSE <<>>]
  IN IF /\ Len(p) >= ResultHeader /\ HeaderKnown(p)
        /\ error + p[14] = Len(p)
        /\ p[10] <= MaxSchema /\ p[12] <= MaxSchema
        /\ p[11] <= MaxData /\ p[13] <= MaxData /\ p[14] <= MaxError
        /\ FlagsMatchSizes(p) /\ ConsistentResult(r)
     THEN r ELSE Undecodable

-----------------------------------------------------------------------------
(* EspNowFrameCodec and EspNowFrameReassembler.  The checksum stands for   *)
(* the message it was computed from.                                       *)

\* Mutant: the division is not rounded up.
FragmentCountFloor(size) ==
  IF size \in 1 .. MaxMessage THEN size \div FragmentData ELSE 0

\* fragment_count: at most MAX_FRAGMENTS, as MAX_MESSAGE_SIZE fits into them.
FragmentCount(size) ==
  IF size \in 1 .. MaxMessage THEN (size + FragmentData - 1) \div FragmentData
  ELSE 0

FragmentSize(size, index) == Min({FragmentData, size - index * FragmentData})

\* encode_fragment
EncodeFragment(message, index) ==
  LET size == Len(message) IN
  [index |-> index, count |-> FragmentCount(size), size |-> size,
   checksum |-> message,
   data |-> Segment(message, index * FragmentData, FragmentSize(size, index))]

\* The checks of accept on the sizes.
ValidFragment(f) ==
  /\ f.size \in 1 .. MaxMessage /\ f.count = FragmentCount(f.size)
  /\ f.index < f.count /\ Len(f.data) = FragmentSize(f.size, f.index)

\* accept: the bytes of message_ that a fragment is copied to.
Place(f) == f.index * FragmentData + 1 .. f.index * FragmentData + Len(f.data)

\* message_ after one fragment after the other, over the remains of an earlier
\* message, which reset never clears: the last copy to a byte stays.
Memory(fragments) ==
  [i \in 1 .. MaxMessage |->
     LET copies == { k \in DOMAIN fragments : /\ ValidFragment(fragments[k])
                                              /\ i \in Place(fragments[k]) }
         last == fragments[Max(copies)]
     IN IF copies = {} THEN Undecodable
        ELSE last.data[i - last.index * FragmentData]]

\* What the reassembler offers in the end, if the checksum is right.
Reassembled(fragments) ==
  LET whole == SubSeq(Memory(fragments), 1, Head(fragments).size)
  IN IF fragments # <<>> /\ whole = Head(fragments).checksum THEN whole
     ELSE Undecodable

-----------------------------------------------------------------------------
(* The inputs the round trips are checked on: the shortest and the longest *)
(* texts and byte strings of every field, in every combination.            *)

SampleTexts(max) == { [i \in 1 .. n |-> i] : n \in {0, 1, max} }
SampleBytes(max) == { [i \in 1 .. n |-> i - 1] : n \in {0, 1, max} }

SampleCommands ==
  { c \in [device : SampleTexts(MaxId), resource : SampleTexts(MaxId),
           name : SampleTexts(MaxName), body : SampleBytes(MaxBody),
           timeout : {0, 1}, source : SampleTexts(MaxId), boot : {0, 1}] :
      ValidCommand(c) }

SampleStates ==
  { s \in [completeness : Completenesses,
           schema : SampleTexts(MaxSchema), data : SampleBytes(MaxData)] :
      ConsistentState(s) }

SampleResults ==
  { r \in [status : ResultStatuses,
           started : BOOLEAN, hasEstimate : BOOLEAN, estimate : {0, 1},
           hasProgress : BOOLEAN, progress : {100, 101},
           hasExpected : BOOLEAN, expected : SampleStates,
           remote : SampleStates, code : {"NONE", "TIMED_OUT"},
           retryable : BOOLEAN, error : SampleTexts(MaxError)] :
      ConsistentResult(r) }

\* A payload as it reaches the other side, for every order of its fragments.
Deliveries(payload) ==
  LET count == FragmentCount(Len(payload))
      orders == { o \in [1 .. count -> 0 .. count - 1] :
                    0 .. count - 1 \subseteq { o[i] : i \in 1 .. count } }
  IN { Reassembled([i \in 1 .. count |-> EncodeFragment(payload, o[i])]) :
         o \in orders }

\* Sending and decoding a command or a result gives back the same one.  All
\* valid commands can be encoded; so can all consistent results but the largest
\* that carry an error.
CommandSurvives(c) ==
  /\ EncodeCommand(c) # Undecodable
  /\ \A payload \in Deliveries(EncodeCommand(c)) :
       payload # Undecodable /\ DecodeCommand(payload) = c

ResultSurvives(r) ==
  IF EncodeResult(r) = Undecodable THEN r.code # "NONE"
  ELSE \A payload \in Deliveries(EncodeResult(r)) :
         payload # Undecodable /\ DecodeResult(payload) = r
=============================================================================
