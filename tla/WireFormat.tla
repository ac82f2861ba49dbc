------------------------------ MODULE WireFormat ------------------------------
(***************************************************************************)
(* What the generated code of cim/pb does with the tables of its messages: *)
(* Clear, SerializeToArray, ByteSizeLong, ParseFromArray and MergeFrom.    *)
(* Encoded messages are sequences of tokens, a tag and its value each; a   *)
(* token knows how many bytes it takes.  A text is its length and whether  *)
(* it is valid UTF-8.  Widths are scaled: a varint byte still carries 7    *)
(* bits, 32 bits become 14 (two bytes) and 64 bits become 28 (four), so    *)
(* that every size and every truncation differs as it does in the code.    *)
(*                                                                         *)
(* Each function of a message calls the same one of the messages in it.    *)
(* These hold no further messages: they are plain, and so the functions    *)
(* come in pairs, one for plain messages and one for those around them.    *)
(***************************************************************************)
EXTENDS Integers, Sequences, WireTypes

CONSTANT Schema  \* for each message type its fields and the rows of its tables

W32 == 16384      \* bound: one more than the largest uint32, 2 ^ 14
W64 == 268435456  \* bound: one more than the largest uint64, 2 ^ 28

MessageTypes == DOMAIN Schema

-----------------------------------------------------------------------------
\* Numbers added up, and sequences put one after the other: the first n, or all.

SumTo(s, n) ==
    LET sum[i \in 0 .. n] == IF i = 0 THEN 0 ELSE sum[i - 1] + s[i]
    IN  sum[n]
SumOf(s) == SumTo(s, Len(s))

JointTo(ss, n) ==
    LET out[i \in 0 .. n] == IF i = 0 THEN << >> ELSE out[i - 1] \o ss[i]
    IN  out[n]
Joint(ss) == JointTo(ss, Len(ss))

-----------------------------------------------------------------------------
\* Values.

EmptyText == [len |-> 0, utf8 |-> TRUE]
\* A list is a sequence; so is a nested message, of length one if it is set.
IsText(k) == k.kind \in {"string", "bytes"}
IsMessage(k) == k.kind = "message"
IsSeq(k) == k.repeated \/ IsMessage(k)

\* The value of a field never set.
Default(k) ==
    IF IsSeq(k) THEN << >>
    ELSE IF IsText(k) THEN EmptyText ELSE 0

FieldNames(T) == DOMAIN Schema[T].fields
FieldType(T, f) == Schema[T].fields[f]

\* Clear(): every field at its default and no unknown field.
Cleared(T) ==
    [f \in FieldNames(T) \cup {"unknown"} |->
        IF f = "unknown" THEN << >> ELSE Default(FieldType(T, f))]

-----------------------------------------------------------------------------
\* Sizes.

VarintSize(n) == IF n < 128 THEN 1 ELSE IF n < 16384 THEN 2
                 ELSE IF n < 2097152 THEN 3 ELSE 4

\* A varint carries 64 bits: int32 and enum values are sign-extended.
Varint(num, n) == [num |-> num, wireType |-> 0, number |-> n % W64]
Text(num, t) == [num |-> num, wireType |-> 2, text |-> t]
Packed(num, ns) == [num |-> num, wireType |-> 2, numbers |-> ns]
Nested(num, body) == [num |-> num, wireType |-> 2, body |-> body]
\* A tag alone: a zero byte or the end of a group, which end a message; or a
\* value of 32 bits, which no field here has.
Bare(num, t) == [num |-> num, wireType |-> t]

Prefixed(size) == VarintSize(size) + size
TagOf(t) == 8 * t.num + t.wireType
NumbersSize(ns) == SumOf([i \in DOMAIN ns |-> VarintSize(ns[i] % W64)])

PlainSize(t) ==
    VarintSize(TagOf(t)) +
    (IF "number" \in DOMAIN t THEN VarintSize(t.number)
     ELSE IF "text" \in DOMAIN t THEN Prefixed(t.text.len)
     ELSE IF "numbers" \in DOMAIN t THEN Prefixed(NumbersSize(t.numbers))
     ELSE IF t.wireType = 5 THEN 4 ELSE 0)
BodySize(body) == SumOf([i \in DOMAIN body |-> PlainSize(body[i])])
TokenSize(t) ==
    IF "body" \in DOMAIN t THEN VarintSize(TagOf(t)) + Prefixed(BodySize(t.body))
    ELSE PlainSize(t)
WireSize(wire) == SumOf([i \in DOMAIN wire |-> TokenSize(wire[i])])

-----------------------------------------------------------------------------
\* Writing.

\* What one field adds to the output; a default adds nothing.
WritePlain(row, value) ==
    LET One(v) == IF IsText(row.type) THEN Text(row.num, v) ELSE Varint(row.num, v)
    IN  IF value = Default(row.type) THEN << >>
        ELSE IF row.type = Rep(U64) THEN << Packed(row.num, value) >>
        ELSE IF row.type.repeated THEN [i \in DOMAIN value |-> One(value[i])]
        ELSE << One(value) >>

WritePlainRows(rows, m) == [i \in DOMAIN rows |-> WritePlain(rows[i], m[rows[i].field])]
SerializePlain(T, m) == Joint(WritePlainRows(Schema[T].write, m)) \o m.unknown

WriteField(row, value) ==
    IF IsMessage(row.type)
    THEN [i \in DOMAIN value |-> Nested(row.num, SerializePlain(row.type.of, value[i]))]
    ELSE WritePlain(row, value)

WriteRows(rows, m) == [i \in DOMAIN rows |-> WriteField(rows[i], m[rows[i].field])]

\* Seeded fault: unknown fields are not written.
SerializeKnown(T, m) == Joint(WriteRows(Schema[T].write, m))

\* The fields in the order of the table, then the unknown ones as they came.
Serialize(T, m) == Joint(WriteRows(Schema[T].write, m)) \o m.unknown

\* ByteSizeLong(), which Client::send and PARSE_PB_AND_CHECK trust.
SizePlain(row, value) ==
    LET Tagged(v) == row.tagSize + (IF IsText(row.type) THEN Prefixed(v.len)
                                    ELSE VarintSize(v % W64))
    IN  IF value = Default(row.type) THEN 0
        ELSE IF row.type = Rep(U64) THEN row.tagSize + Prefixed(NumbersSize(value))
        ELSE IF row.type.repeated THEN SumOf([i \in DOMAIN value |-> Tagged(value[i])])
        ELSE Tagged(value)

SizePlainRows(rows, m) == [i \in DOMAIN rows |-> SizePlain(rows[i], m[rows[i].field])]
ByteSizePlain(T, m) == SumOf(SizePlainRows(Schema[T].write, m)) + BodySize(m.unknown)

FieldSize(row, value) ==
    IF IsMessage(row.type)
    THEN SumOf([i \in DOMAIN value |->
                   row.tagSize + Prefixed(ByteSizePlain(row.type.of, value[i]))])
    ELSE SizePlain(row, value)

SizeRows(rows, m) == [i \in DOMAIN rows |-> FieldSize(rows[i], m[rows[i].field])]

\* Seeded fault: unknown fields are not counted.
ByteSizeKnown(T, m) == SumOf(SizeRows(Schema[T].write, m))

ByteSizeLong(T, m) == SumOf(SizeRows(Schema[T].write, m)) + WireSize(m.unknown)

-----------------------------------------------------------------------------
\* Merging: lists and unknown fields are appended, messages merged, and any
\* other field overwritten unless it has its default in "from".

RowOf(T, f) ==
    LET rows == Schema[T].write
    IN  rows[CHOOSE i \in DOMAIN rows : rows[i].field = f]

MergedPlain(row, a, b) ==
    IF row.type.repeated THEN a \o b
    ELSE IF b = Default(row.type) THEN a ELSE b

MergePlain(T, to, from) ==
    [f \in DOMAIN to |-> IF f = "unknown" THEN to.unknown \o from.unknown
                         ELSE MergedPlain(RowOf(T, f), to[f], from[f])]

\* Seeded fault: a nested message replaces the one there is.
MergedReplacing(row, a, b) == MergedPlain(row, a, b)

Merged(row, a, b) ==
    IF IsMessage(row.type) /\ ~row.type.repeated /\ b # << >>
    THEN LET S == row.type.of
         IN  << MergePlain(S, IF a = << >> THEN Cleared(S) ELSE a[1], b[1]) >>
    ELSE MergedPlain(row, a, b)

MergeFrom(T, to, from) ==
    [f \in DOMAIN to |-> IF f = "unknown" THEN to.unknown \o from.unknown
                         ELSE Merged(RowOf(T, f), to[f], from[f])]

-----------------------------------------------------------------------------
\* Reading.

\* A varint of 64 bits cut to the field's own width.
Narrow(k, n) ==
    LET low == n % W32
    IN  IF k.kind = "u64" THEN n
        ELSE IF k.kind = "u32" THEN low
        ELSE IF k.kind = "bool" THEN (IF n = 0 THEN 0 ELSE 1)
        ELSE IF low < W32 \div 2 THEN low ELSE low - W32

\* How far the parser is: "reading", "ended" or "failed", and the message.
State(status, m) == [status |-> status, msg |-> m]

\* What is read goes into the field, or to its end if it is a list.
Store(row, r, v) ==
    LET old == r.msg[row.field]
        new == IF row.type.repeated THEN Append(old, v)
               ELSE IF IsMessage(row.type) THEN << v >> ELSE v
    IN  State("reading", [r.msg EXCEPT ![row.field] = new])

\* One case of _InternalParse's switch, its tag having matched.
ReadPlain(row, r, t) ==
    IF row.type.kind = "string" /\ ~t.text.utf8 THEN State("failed", r.msg)
    ELSE IF IsText(row.type) THEN Store(row, r, t.text)
    ELSE IF row.type = Rep(U64) /\ "numbers" \in DOMAIN t
    THEN State("reading", [r.msg EXCEPT ![row.field] = @ \o t.numbers])
    ELSE Store(row, r, Narrow(row.type, t.number))

\* The number selects the case, the low byte of the tag must be one it expects.
CasesIn(rows, t) ==
    {i \in DOMAIN rows : rows[i].num = t.num /\ TagOf(t) % 256 \in rows[i].tags}
Cases(T, t) == CasesIn(Schema[T].parse, t)
RowFor(T, t) == Schema[T].parse[CHOOSE i \in Cases(T, t) : TRUE]

\* One turn of _InternalParse's loop: a tag that has a case leads to what it
\* reads; any other ends the message or joins the unknown fields.
ReadTag(T, r, t, read) ==
    IF r.status # "reading" THEN r
    ELSE IF Cases(T, t) # {} THEN read
    ELSE IF t.wireType = 4 \/ TagOf(t) = 0 THEN State("ended", r.msg)
    ELSE State("reading", [r.msg EXCEPT !.unknown = Append(@, t)])

\* _InternalParse: stops at a failure and where the message is told to end.
ReadPlainToken(T, r, t) == ReadTag(T, r, t, ReadPlain(RowFor(T, t), r, t))
PlainLoopTo(T, r, wire, n) ==
    LET after[i \in 0 .. n] ==
            IF i = 0 THEN r ELSE ReadPlainToken(T, after[i - 1], wire[i])
    IN  after[n]
ParsePlain(T, m, wire) ==
    PlainLoopTo(T, State("reading", m), wire, Len(wire))

\* A message inside another has been parsed.
Nest(row, r, sub) ==
    IF sub.status = "reading" THEN Store(row, r, sub.msg) ELSE State("failed", r.msg)

ReadField(row, r, t) ==
    IF IsMessage(row.type)
    THEN LET S == row.type.of
             old == r.msg[row.field]
         IN  Nest(row, r, ParsePlain(S, IF row.type.repeated \/ old = << >> THEN Cleared(S)
                                        ELSE old[1], t.body))
    ELSE ReadPlain(row, r, t)

ReadToken(T, r, t) == ReadTag(T, r, t, ReadField(RowFor(T, t), r, t))

LoopTo(T, r, wire, n) ==
    LET after[i \in 0 .. n] ==
            IF i = 0 THEN r ELSE ReadToken(T, after[i - 1], wire[i])
    IN  after[n]
Loop(T, r, wire) == LoopTo(T, r, wire, Len(wire))
ParseInto(T, m, wire) == Loop(T, State("reading", m), wire)

\* What the caller is told, and the object it gave.
Returned(r) == [ok |-> r.status = "reading", msg |-> r.msg]

\* Seeded fault: what the object held is not cleared.
ParseFromArrayInto(T, m, wire) == Returned(ParseInto(T, m, wire))

\* ParseFromArray: the object's old content m is cleared; the outcome is true
\* only if every byte was used.
ParseFromArray(T, m, wire) == Returned(ParseInto(T, Cleared(T), wire))
-----------------------------------------------------------------------------
\* The tables: the four functions of a message agree on its fields.

Plain(T) == \A f \in FieldNames(T) : ~IsMessage(FieldType(T, f))

FieldTypes ==
    {U64, U32, I32, Enum, Bool, Str, Bytes} \cup {Rep(U64), Rep(Str), Rep(Bytes)}
Typed(T) ==
    /\ "unknown" \notin FieldNames(T)
    /\ \A f \in FieldNames(T) :
          \/ FieldType(T, f) \in FieldTypes
          \/ \E S \in MessageTypes : Plain(S) /\ FieldType(T, f) \in {Msg(S), Rep(Msg(S))}

\* Every field is written once, under a number of its own, with its type.
Written(T) ==
    LET rows == Schema[T].write
    IN  /\ Len(rows) \in Nat /\ rows = [i \in 1 .. Len(rows) |-> rows[i]]
        /\ \A f \in FieldNames(T) : \E i \in DOMAIN rows : rows[i].field = f
        /\ \A i \in DOMAIN rows :
              /\ rows[i].field \in FieldNames(T)
              /\ rows[i].type = FieldType(T, rows[i].field)
              /\ rows[i].num \in Nat \ {0}
              /\ rows[i].tagSize = VarintSize(8 * rows[i].num)
              /\ \A j \in DOMAIN rows :
                    i # j => rows[i].field # rows[j].field /\ rows[i].num # rows[j].num

\* What is written has a case that reads it, of the same field; a number has
\* the wire type 0, which in a list it may have or not.  A case has its field's
\* type.
WrittenAs(k) ==
    IF IsText(k) \/ IsMessage(k) THEN {2} ELSE IF k.repeated THEN {0, 2} ELSE {0}
Understood(T) ==
    LET rows == Schema[T].write
        cases == Schema[T].parse
    IN  /\ \A j \in DOMAIN cases :
              cases[j].field \in FieldNames(T) /\ cases[j].type = FieldType(T, cases[j].field)
        /\ \A i \in DOMAIN rows : \A w \in WrittenAs(rows[i].type) :
              LET read == Cases(T, Bare(rows[i].num, w))
              IN  read # {} /\ \A j \in read : cases[j].field = rows[i].field

ASSUME SchemaAssumption ==
    \A T \in MessageTypes : Typed(T) /\ Written(T) /\ Understood(T)

==============================================================================
