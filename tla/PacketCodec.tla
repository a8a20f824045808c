------------------------------ MODULE PacketCodec ------------------------------
(***************************************************************************)
(* The packets a client is sent, as bytes: packets.go, of which every      *)
(* service has a copy that tells other types of values apart.  A value of  *)
(* a type that appendValue has no case for is left out, without an error.  *)
(*                                                                         *)
(* A string is its length, and is written with zeros.  A []byte has its    *)
(* bytes, as has what Serialize returns, and the fields they were made of. *)
(***************************************************************************)
EXTENDS Integers, SequencesExt

CONSTANT Base   \* the values of a byte, 256 in the program

ASSUME BaseAssumption == Base \in Nat \ {0, 1} /\ Base % 2 = 0

Value(kind, value) == [kind |-> kind, value |-> value]
Num(n) == Value("int", n)
Str(length) == Value("string", length)
Bool(b) == Value("bool", b)
Ints(numbers) == Value("[]int", numbers)

Limit(width) ==
  LET power[k \in 0..width] == IF k = 0 THEN 1 ELSE power[k - 1] * Base
  IN power[width]
MaxInt == Limit(4) \div 2 - 1
BigEndian(n, width) == [k \in 1..width |-> (n \div Limit(width - k)) % Base]
IntegerToBytes(n) == BigEndian(n, 4)
ShortToBytes(n) == BigEndian(n, 2)
AppendString(length) == ShortToBytes(length) \o [k \in 1..length |-> 0]
BoolToByte(b) == IF b THEN 1 ELSE 0

AppendValue(cases, v) ==
  CASE v.kind \notin cases -> <<>>
    [] v.kind = "int16" -> ShortToBytes(v.value)
    [] v.kind = "int" -> IntegerToBytes(v.value)
    [] v.kind = "string" -> AppendString(v.value)
    [] v.kind = "bool" -> <<BoolToByte(v.value)>>
    [] v.kind = "byte" -> <<v.value>>
    [] OTHER -> v.value.bytes
SerializeValues(cases, values) == FlattenSeq([k \in 1..Len(values) |-> AppendValue(cases, values[k])])

\* The fields that a client reads of values.
FieldsOf(v) ==
  CASE v.kind \in {"[]byte", "Serializeable", "unserialized"} -> v.value.fields
    [] v.kind = "[]int" -> [k \in 1..Len(v.value) |-> Num(v.value[k])]
    [] OTHER -> <<v>>
Fields(values) == FlattenSeq([k \in 1..Len(values) |-> FieldsOf(values[k])])

\* Values that one service has serialized, to be a value themselves.
Serialized(cases, values) == [bytes |-> SerializeValues(cases, values), fields |-> Fields(values)]
Bytes(cases, values) == Value("[]byte", Serialized(cases, values))
Object(cases, values) == Value("Serializeable", Serialized(cases, values))

AddSize(bytes) == IntegerToBytes(Len(bytes)) \o bytes
Compose(cases, header, values) == AddSize(ShortToBytes(header) \o SerializeValues(cases, values))

\* The number of the elements of a slice, and each of them.
SerializeAll(cases, elements) ==
  Bytes(cases, <<Num(Len(elements))>> \o [k \in 1..Len(elements) |-> Bytes(cases, elements[k])])

\* The cases of appendValue in the copy of each service.
NetworkingCases == {"int16", "int", "string", "bool", "[]byte"}
ModtoolCases == {"int16", "int", "string", "bool", "[]byte"}
AchievementCases == {"int16", "int", "string", "bool", "[]byte", "byte"}
SubscriptionCases == {"int16", "int", "string", "bool", "[]byte", "byte"}
PlayerCases == {"int16", "int", "string", "bool", "[]byte", "byte", "Serializeable"}
FriendsCases == {"int16", "int", "string", "bool", "[]byte", "byte", "Serializeable"}
GuildCases == {"int16", "int", "string", "bool", "[]byte", "byte", "Serializeable"}
PermissionCases_NoObjects == {"int16", "int", "string", "bool", "[]byte", "byte"}
PermissionCases == {"int16", "int", "string", "bool", "[]byte", "byte", "Serializeable"}
CatalogCases == {"int16", "int", "string", "bool", "[]byte", "byte", "Serializeable"}

-----------------------------------------------------------------------------
(* Reading: what was read and what is left, or a panic. *)

Panic == [ok |-> FALSE]
Taken(value, rest) == [ok |-> TRUE, value |-> value, rest |-> rest]
Unsigned(bytes) ==
  LET number[k \in 0..Len(bytes)] == IF k = 0 THEN 0 ELSE number[k - 1] * Base + bytes[k]
  IN number[Len(bytes)]
Signed(bytes) ==
  LET n == Unsigned(bytes)
  IN IF 2 * n < Limit(Len(bytes)) THEN n ELSE n - Limit(Len(bytes))
From(bytes, k) == SubSeq(bytes, k, Len(bytes))

ReadShort(data) == IF Len(data) < 2 THEN Panic ELSE Taken(Signed(SubSeq(data, 1, 2)), From(data, 3))
ReadInt(data) == IF Len(data) < 4 THEN Panic ELSE Taken(Unsigned(SubSeq(data, 1, 4)), From(data, 5))
ReadString(data) ==
  LET length == ReadShort(data)
  IN IF ~length.ok THEN Panic
     ELSE IF length.value \notin 0..Len(length.rest) THEN Panic
     ELSE Taken(length.value, From(length.rest, length.value + 1))
ReadBool(data) == IF data = <<>> THEN Panic ELSE Taken(Head(data) = 1, Tail(data))

\* The header of a packet, after its size.
ParseMessage(data) == IF Len(data) < 6 THEN Panic ELSE ReadShort(ReadInt(data).rest)
==============================================================================
