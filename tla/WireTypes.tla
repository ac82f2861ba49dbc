------------------------------ MODULE WireTypes ------------------------------
(***************************************************************************)
(* The vocabulary of the message tables: the kinds of field, and the rows  *)
(* of the parsers' and of the writers' tables.                             *)
(***************************************************************************)
LOCAL INSTANCE Naturals

\* The kinds of value; Msg(T) is a message of type T, Rep(k) a list.
Kind(k) == [kind |-> k, of |-> "", repeated |-> FALSE]
U64 == Kind("u64")
U32 == Kind("u32")
I32 == Kind("i32")
Enum == Kind("enum")
Bool == Kind("bool")
Str == Kind("string")
Bytes == Kind("bytes")
Msg(T) == [kind |-> "message", of |-> T, repeated |-> FALSE]
Rep(k) == [kind |-> k.kind, of |-> k.of, repeated |-> TRUE]

NoFields == [f \in {} |-> U64]

\* A row of _InternalParse: "case N: if (uint8(tag) == t) ..."; a list of
\* numbers is also accepted element by element, under its unpacked tag.
In(t, field, type) ==
    [num |-> t \div 8, tags |-> {t}, field |-> field, type |-> type]
InPacked(t, unpacked, field) ==
    [In(t, field, Rep(U64)) EXCEPT !.tags = {t, unpacked}]

\* A row of _InternalSerialize, ByteSizeLong and MergeFrom: the field's
\* number, and the constant that ByteSizeLong takes for the size of its tag.
Out(num, field, type) ==
    [num |-> num, field |-> field, type |-> type, tagSize |-> 1]

Message(fields, parse, write) ==
    [fields |-> fields, parse |-> parse, write |-> write]
==============================================================================
