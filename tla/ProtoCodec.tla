------------------------------ MODULE ProtoCodec ------------------------------
(***************************************************************************)
(* A message of any type of the protocol on its way from the accessors of  *)
(* the sender to those of the receiver: set field by field, serialized     *)
(* once or twice, perhaps rewritten by a peer whose encoder or schema is   *)
(* another one, and parsed into an object that held something before.      *)
(***************************************************************************)
EXTENDS WireFormat

CONSTANTS MaxSets,   \* bound: fields set, list elements added
          MaxParts   \* bound: encodings that make up one packet

ASSUME BoundsAssumption == MaxSets \in Nat /\ MaxParts \in Nat

VARIABLES msgType,   \* the message type
          object,    \* what the sender's accessors have set so far
          sets,
          parts,     \* the objects serialized, in order
          wire,      \* their tokens, as the receiver gets them
          noise,     \* what the peer did to them
          delivered, \* the receiver has parsed them
          received   \* what ParseFromArray returned, and the object it filled

codecVars == <<msgType, object, sets, parts, wire, noise, delivered, received>>

\* Values that are not the default: large, negative, long, not UTF-8.
Sample(k) ==
    IF k.kind = "u64" THEN W64 - 1
    ELSE IF k.kind = "u32" THEN W32 - 1
    ELSE IF k.kind = "i32" THEN -1
    ELSE IF IsText(k) THEN [len |-> 130, utf8 |-> k.kind = "string"]
    ELSE 1
BadText == [len |-> 3, utf8 |-> FALSE]

\* Every field of T set; messages inside others hold no further ones.
Filled(T, badText) ==
    [f \in FieldNames(T) \cup {"unknown"} |->
        IF f = "unknown" THEN << >>
        ELSE LET k == FieldType(T, f)
             IN  IF IsSeq(k) THEN << >>
                 ELSE IF badText /\ k.kind = "string" THEN BadText ELSE Sample(k)]

Samples(k) ==
    IF IsMessage(k) THEN {Cleared(k.of), Filled(k.of, FALSE), Filled(k.of, TRUE)}
    ELSE IF k.kind = "string" THEN {Sample(k), BadText}
    ELSE {Sample(k)}

CodecInit ==
    /\ msgType \in MessageTypes
    /\ object = Cleared(msgType)
    /\ sets = 0
    /\ parts = << >>
    /\ wire = << >>
    /\ noise = "none"
    /\ delivered = FALSE
    /\ received = [ok |-> FALSE, msg |-> Filled(msgType, FALSE)]

-----------------------------------------------------------------------------
\* set_x(v), add_x(v) or *mutable_x() = v.
SetField(f, v) ==
    LET k == FieldType(msgType, f)
    IN  /\ sets < MaxSets
        /\ noise = "none"
        /\ object' = [object EXCEPT ![f] =
                        IF k.repeated THEN Append(@, v)
                        ELSE IF IsMessage(k) THEN << v >> ELSE v]
        /\ sets' = sets + 1
        /\ UNCHANGED <<msgType, parts, wire, noise, delivered, received>>

\* SerializeToArray, and Clear for the next one.
Emit ==
    /\ Len(parts) < MaxParts
    /\ noise = "none"
    /\ parts' = Append(parts, object)
    /\ wire' = wire \o Serialize(msgType, object)
    /\ object' = Cleared(msgType)
    /\ UNCHANGED <<msgType, sets, noise, delivered, received>>

\* What a peer may do that this schema accepts, and the zero byte that follows
\* when ParseFromArray is given the next packet's header as well.
Strays == << Varint(17, 1), Bare(1, 5) >>
RowAt(T, num) ==
    LET rows == Schema[T].write
    IN  rows[CHOOSE i \in DOMAIN rows : rows[i].num = num]
Backwards(s) == [i \in DOMAIN s |-> s[Len(s) + 1 - i]]
Widened(T, t) ==
    IF RowAt(T, t.num).type.kind \in {"u32", "i32", "enum", "bool"}
    THEN Varint(t.num, t.number + W32) ELSE t
Unpacked(t) ==
    IF "numbers" \in DOMAIN t
    THEN [i \in DOMAIN t.numbers |-> Varint(t.num, t.numbers[i])] ELSE << t >>
ExplicitDefault(row) ==
    IF IsSeq(row.type) THEN << >>
    ELSE IF IsText(row.type) THEN << Text(row.num, EmptyText) >>
    ELSE << Varint(row.num, 0) >>
Rewritten(T, tokens, n) ==
    LET rows == Schema[T].write
    IN  IF n = "unknown" THEN Strays \o tokens
        ELSE IF n = "reversed" THEN Backwards(tokens)
        ELSE IF n = "wide" THEN [i \in DOMAIN tokens |-> Widened(T, tokens[i])]
        ELSE IF n = "unpacked" THEN Joint([i \in DOMAIN tokens |-> Unpacked(tokens[i])])
        ELSE IF n = "defaults"
        THEN Joint([i \in DOMAIN rows |-> ExplicitDefault(rows[i])]) \o tokens
        ELSE Append(tokens, Bare(0, 0))  \* n = "next"

\* No message has a case for what a peer adds.
ASSUME StraysAssumption ==
    \A T \in MessageTypes : \A t \in {Strays[1], Strays[2], Bare(0, 0)} : Cases(T, t) = {}

NoiseKinds == {"unknown", "reversed", "wide", "unpacked", "defaults", "next"}

Rewrite(n) ==
    /\ Len(parts) = 1
    /\ object = Cleared(msgType)
    /\ noise = "none"
    /\ noise' = n
    /\ wire' = Rewritten(msgType, wire, n)
    /\ wire' # wire
    /\ UNCHANGED <<msgType, object, sets, parts, delivered, received>>

Receive ==
    /\ parts # << >>
    /\ object = Cleared(msgType)
    /\ received' = ParseFromArray(msgType, received.msg, wire)
    /\ delivered' = TRUE
    /\ UNCHANGED <<msgType, object, sets, parts, wire, noise>>

CodecNext ==
    /\ ~delivered
    /\ \/ \E f \in FieldNames(msgType) : \E v \in Samples(FieldType(msgType, f)) :
             SetField(f, v)
       \/ Emit
       \/ \E n \in NoiseKinds : Rewrite(n)
       \/ Receive

CodecSpec == CodecInit /\ [][CodecNext]_codecVars

-----------------------------------------------------------------------------
\* Every string in m, at any depth, is valid UTF-8.
FinePlain(k, v) ==
    k.kind = "string" => IF k.repeated THEN \A i \in DOMAIN v : v[i].utf8 ELSE v.utf8
WellPlain(T, m) == \A f \in FieldNames(T) : FinePlain(FieldType(T, f), m[f])
FineValue(k, v) ==
    IF IsMessage(k) THEN \A i \in DOMAIN v : WellPlain(k.of, v[i]) ELSE FinePlain(k, v)
WellFormed(T, m) == \A f \in FieldNames(T) : FineValue(FieldType(T, f), m[f])

\* What the receiver is entitled to, given what the peer did.
Turned(k, v) == IF k.repeated /\ k # Rep(U64) THEN Backwards(v) ELSE v
ReadAs(T, m, n) ==
    [f \in DOMAIN m |->
        IF f = "unknown" THEN IF n = "unknown" THEN Strays ELSE m.unknown
        ELSE IF n = "reversed" THEN Turned(FieldType(T, f), m[f]) ELSE m[f]]
Expected ==
    IF Len(parts) = 2 THEN MergeFrom(msgType, parts[1], parts[2])
    ELSE ReadAs(msgType, parts[1], noise)

\* One encoding of a message is parsed exactly when its strings are UTF-8 and
\* nothing of the next packet follows; the object, whatever it held, then
\* holds what was sent, whether the peer reorders fields, writes defaults,
\* unpacked lists or wider integers, or knows further fields, which are kept.
RoundTrip ==
    delivered /\ Len(parts) = 1 =>
        /\ received.ok <=> WellFormed(msgType, parts[1]) /\ noise # "next"
        /\ received.ok => received.msg = Expected

\* Two encodings one after the other, as a peer may write a field or a nested
\* message twice, are read as MergeFrom merges the two objects.
ConcatMerges ==
    delivered /\ Len(parts) = 2 =>
        /\ received.ok <=> \A i \in 1 .. 2 : WellFormed(msgType, parts[i])
        /\ received.ok => received.msg = Expected

\* PARSE_PB_AND_CHECK skips ByteSizeLong() of what it parsed.  These are the
\* bytes that came when the peer encodes as this code does, unknown fields
\* included.  They are fewer, and the rest is taken for a header, only when it
\* repeats fields, writes defaults, wider integers or lists not packed; more,
\* and Skip eats into the next packet, only for lists not packed and negative
\* numbers cut to 32 bits.
SkipInside ==
    delivered /\ received.ok =>
        LET skipped == ByteSizeLong(msgType, received.msg)
            came == WireSize(wire)
        IN  /\ skipped < came =>
                  Len(parts) > 1 \/ noise \in {"wide", "defaults", "unpacked"}
            /\ skipped > came =>
                  \/ noise = "unpacked"
                  \/ noise = "wide" /\ \E f \in FieldNames(msgType) :
                        FieldType(msgType, f) = I32 /\ received.msg[f] < 0

\* A message that was received can be sent on: it is encoded in as many bytes
\* as ByteSizeLong says, and whoever parses it has the same, unknown fields
\* included.  Client::send and the copies handed to callbacks rest on it.
RelayStable ==
    delivered /\ received.ok =>
        LET again == Serialize(msgType, received.msg)
        IN  /\ WireSize(again) = ByteSizeLong(msgType, received.msg)
            /\ ParseFromArray(msgType, received.msg, again) = received
==============================================================================
