---------------------------- MODULE BinaryCodec ----------------------------
(***************************************************************************)
(* The binary wire codec of binary_serializer.cpp as pure operators.       *)
(* A byte string is a sequence of integers in 0..255.  A 64-bit field      *)
(* (sequence, ack_for) is kept as its eight bytes, most significant first, *)
(* so that no 64-bit arithmetic is needed: host_to_be64 is then the byte   *)
(* reversal it computes, whatever the host's byte order.  The length       *)
(* limits UINT16_MAX and kMaxPayloadBytes are the constants TopicLimit and *)
(* PayloadLimit; the length fields keep their real widths (2 and 4 bytes). *)
(*                                                                         *)
(* The checked behaviour picks one message (and the malformed inputs       *)
(* derived from it) and never changes: the invariants are statements      *)
(* about the operators over every message of the bounded input set.       *)
(***************************************************************************)
EXTENDS Naturals, Sequences, SequencesExt

CONSTANTS
  TopicStrings,   \* topics to encode, as byte sequences
  Payloads,       \* payloads to encode
  U64s,           \* 64-bit values, as 8 bytes most significant first
  BadQos,         \* qos byte values outside {0, 1} to inject
  TopicLimit,     \* UINT16_MAX
  PayloadLimit,   \* kMaxPayloadBytes
  Stamps,         \* steady_clock readings, in nanoseconds
  WireQos         \* uint32 qos values a peer's envelope may carry

ASSUME TopicLimit < 65536 /\ \A v \in U64s : Len(v) = 8

Message == [topic : TopicStrings, qos : {0, 1}, sequence : U64s,
            ack_for : U64s, is_ack : BOOLEAN, payload : Payloads]

VARIABLE msg

vars == <<msg>>

-----------------------------------------------------------------------------

\* host_to_be64 swaps the eight bytes unconditionally; be64_to_host is the
\* same function.
HostToBe64(v) == Reverse(v)

AppendU16(n) == <<(n \div 256) % 256, n % 256>>

AppendU32(n) ==
  <<(n \div 16777216) % 256, (n \div 65536) % 256, (n \div 256) % 256,
    n % 256>>

\* append_u64 pushes byte i of be for i = 7 down to 0, most significant
\* first, so the wire carries host_to_be64(value) in big-endian order.
AppendU64(v) == HostToBe64(v)

\* Mutant of ReadU16: the length is read least significant byte first.
ReadU16Swapped(b, o) == b[o + 1] + b[o + 2] * 256

ReadU16(b, o) == b[o + 1] * 256 + b[o + 2]

ReadU32(b, o) ==
  ((b[o + 1] * 256 + b[o + 2]) * 256 + b[o + 3]) * 256 + b[o + 4]

\* read_u64 shifts the eight bytes in as a big-endian be, then converts it
\* with be64_to_host.
ReadU64(b, o) == HostToBe64(SubSeq(b, o + 1, o + 8))

\* BinarySerializer::serialize: empty output for an over-long topic or
\* payload, otherwise the fields in layout order.
Serialize(m) ==
  IF Len(m.topic) > TopicLimit \/ Len(m.payload) > PayloadLimit
  THEN <<>>
  ELSE AppendU16(Len(m.topic)) \o m.topic \o <<m.qos>>
       \o AppendU64(m.sequence) \o AppendU64(m.ack_for)
       \o <<IF m.is_ack THEN 1 ELSE 0>>
       \o AppendU32(Len(m.payload)) \o m.payload

Fail == [ok |-> FALSE]

\* Mutant of Deserialize: the payload length is checked against the limit
\* only, not against the bytes that remain (bytes read past the end are
\* modelled as 0).
DeserializeNoRemainCheck(b) ==
  IF 2 > Len(b) THEN Fail
  ELSE LET tl == ReadU16(b, 0)
           o  == 2 + tl
       IN IF o + 22 > Len(b) THEN Fail
          ELSE IF b[o + 1] > 1 THEN Fail
          ELSE LET pl == ReadU32(b, o + 18) IN
               IF pl > PayloadLimit THEN Fail
               ELSE [ok |-> TRUE,
                     msg |-> [topic    |-> SubSeq(b, 3, o),
                              qos      |-> b[o + 1],
                              sequence |-> ReadU64(b, o + 1),
                              ack_for  |-> ReadU64(b, o + 9),
                              is_ack   |-> b[o + 18] # 0,
                              payload  |-> [i \in 1 .. pl |->
                                 IF o + 22 + i <= Len(b)
                                 THEN b[o + 22 + i] ELSE 0]]]

\* BinarySerializer::deserialize.  The offsets after the topic are fixed:
\* qos at +1, sequence at +2, ack_for at +10, is_ack at +18, payload length
\* at +19 and the payload from +23.  read_u64 and read_u32 cannot fail once
\* the header check has passed.  Bytes after the payload are ignored.
Deserialize(b) ==
  IF 2 > Len(b) THEN Fail
  ELSE LET tl == ReadU16(b, 0)
           o  == 2 + tl
       IN IF o + 22 > Len(b) THEN Fail
          ELSE IF b[o + 1] > 1 THEN Fail
          ELSE LET pl == ReadU32(b, o + 18) IN
               IF pl > PayloadLimit \/ o + 22 + pl > Len(b) THEN Fail
               ELSE [ok |-> TRUE,
                     msg |-> [topic    |-> SubSeq(b, 3, o),
                              qos      |-> b[o + 1],
                              sequence |-> ReadU64(b, o + 1),
                              ack_for  |-> ReadU64(b, o + 9),
                              is_ack   |-> b[o + 18] # 0,
                              payload  |-> SubSeq(b, o + 23, o + 22 + pl)]]

-----------------------------------------------------------------------------
(* ProtobufSerializer (protobuf_serializer.cpp), the alternative codec.   *)
(* The schema type IpcEnvelope and its encoder and parser are generated   *)
(* code that is not in the repository: an envelope value stands for the   *)
(* bytes SerializeToString makes of it, ParseFromArray of those bytes      *)
(* gives it back, and a peer's bytes parse to any envelope whose fields    *)
(* have the schema's types (qos a uint32).                                 *)

\* serialize: every field of the message is copied into the envelope, qos
\* widened to uint32; to_nanoseconds of a steady_clock time point (a count
\* of nanoseconds, never negative) is that count.  SerializeToString does
\* not fail on these fields, and there are no length limits.
PbSerialize(m, tp) ==
  [topic |-> m.topic, payload |-> m.payload, sequence |-> m.sequence,
   qos |-> m.qos, timestamp_ns |-> tp,
   ack_for |-> m.ack_for, is_ack |-> m.is_ack]

\* static_cast<DeliveryQos>(uint32_t): DeliveryQos has the underlying type
\* uint8_t, so the value is converted modulo 2^8 and never rejected.
ToDeliveryQos(q) == q % 256

\* deserialize: a parsed envelope is copied field by field, qos cast
\* without a check, and the timestamp is the receiver's now(), not the
\* envelope's timestamp_ns.
PbDeserialize(e, now) ==
  [ok |-> TRUE,
   msg |-> [topic |-> e.topic, qos |-> ToDeliveryQos(e.qos),
            sequence |-> e.sequence, ack_for |-> e.ack_for,
            is_ack |-> e.is_ack, payload |-> e.payload],
   timestamp |-> now]

-----------------------------------------------------------------------------

Init == msg \in Message

Next == UNCHANGED msg

Spec == Init /\ [][Next]_vars

-----------------------------------------------------------------------------

Fits(m) == Len(m.topic) <= TopicLimit /\ Len(m.payload) <= PayloadLimit

(* Spec 4.2 and 8: serialize returns an empty sequence exactly for a topic *)
(* or payload over its limit, and deserialize(serialize(M)) reproduces     *)
(* topic, payload, sequence, qos, ack_for and is_ack of every other M.     *)
RoundTrip ==
  /\ (Serialize(msg) = <<>>) <=> ~Fits(msg)
  /\ Fits(msg) =>
       LET r == Deserialize(Serialize(msg)) IN r.ok /\ r.msg = msg

(* Spec 4.2: deserialize fails on input truncated at any byte and on a qos *)
(* byte outside the two defined values.                                    *)
MalformedRejected ==
  Fits(msg) =>
    LET b == Serialize(msg) IN
    /\ \A k \in 0 .. Len(b) - 1 : ~Deserialize(SubSeq(b, 1, k)).ok
    /\ \A q \in BadQos :
         ~Deserialize([b EXCEPT ![2 + Len(msg.topic) + 1] = q]).ok

(* Spec 4.2, for an interchangeable codec: deserialize fails on a qos      *)
(* outside the two defined values.  The protobuf codec's static_cast        *)
(* accepts any uint32 and keeps its low byte, so 257 arrives as             *)
(* at-least-once.                                                           *)
PbQosRejected ==
  \A q \in WireQos \ {0, 1}, tp, now \in Stamps :
    ~PbDeserialize([PbSerialize(msg, tp) EXCEPT !.qos = q], now).ok

(* Spec 1 and 4.2: the structured codec carries an explicit wire          *)
(* timestamp, so the receiver's message has the sender's timestamp.        *)
PbTimestampCarried ==
  \A tp, now \in Stamps :
    PbDeserialize(PbSerialize(msg, tp), now).timestamp = tp

\* The layout of spec 4.2: every multi-byte integer big-endian.
U64BE(v) == v
Layout(m) ==
  AppendU16(Len(m.topic)) \o m.topic \o <<m.qos>> \o U64BE(m.sequence)
  \o U64BE(m.ack_for) \o <<IF m.is_ack THEN 1 ELSE 0>>
  \o AppendU32(Len(m.payload)) \o m.payload

(* Spec 4.2: the encoding is the fixed big-endian layout, so that another  *)
(* implementation of it can read the sequence and ack_for fields.          *)
BigEndianLayout == Fits(msg) => Serialize(msg) = Layout(msg)

=============================================================================
