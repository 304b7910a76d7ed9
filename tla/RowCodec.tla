------------------------------ MODULE RowCodec ------------------------------
(***************************************************************************)
(* Mysql_Operator and Mongo_Operator (src/nodelib/db): a bit buffer saved  *)
(* as a row or a document by the fields of its table, and loaded back.     *)
(*                                                                         *)
(* In a MySQL row basic fields have columns of their own; vectors, maps    *)
(* and structures are the base64 text of a Byte_Buffer.  A document of     *)
(* MongoDB is a node as in StructForms.  The client libraries and the      *)
(* servers are external: a value stored is the value read, except that a   *)
(* column of whole numbers rounds.                                         *)
(***************************************************************************)
EXTENDS StructForms

ASSUME RowCodecAssumption == ByteBits % 4 = 0

(* Byte_Buffer as a blob: bytes, lowest first, and a read position *)

WordBytes == WordBits \div ByteBits
HalfWordBytes == WordBytes \div 2     \* uint16_t
BytesOf(i, n) == [k \in 1..n |-> (i \div 2^(ByteBits * (k - 1))) % 2^ByteBits]
Unsigned(bytes) ==
    LET Sum[k \in 0..Len(bytes)] ==
            IF k = 0 THEN 0 ELSE Sum[k - 1] + 2^(ByteBits * (k - 1)) * bytes[k]
    IN  Sum[Len(bytes)]
TwosComplement(u, n) == IF u >= 2^(n - 1) THEN u - 2^n ELSE u
Signed(bytes) == TwosComplement(Unsigned(bytes), ByteBits * Len(bytes))

\* A read past the end leaves the value at zero and the position in place.
ReadBytes(b, n) ==
    IF b.pos + n > Len(b.bytes) THEN [val |-> BytesOf(0, n), buf |-> b]
    ELSE [val |-> SubSeq(b.bytes, b.pos + 1, b.pos + n), buf |-> [b EXCEPT !.pos = @ + n]]

Quarters(x) == 4 * x.v + x.f          \* a double
OfQuarters(q) == [Num(q \div 4) EXCEPT !.f = q % 4]

\* The bytes of a basic value.
BytesOfArg(type, x) ==
    CASE type \in {"int", "uint"} -> BytesOf(x.v, WordBytes)
      [] type \in {"int64", "uint64"} -> BytesOf(x.v, 2 * WordBytes)
      [] type = "float" -> BytesOf(Quarters(x), 2 * WordBytes)
      [] type = "bool" -> BytesOf(IF x.v THEN 1 ELSE 0, 1)
      [] type = "string" -> BytesOf(Len(x.v), HalfWordBytes) \o x.v

\* Mutant of SizeOfArg: the length before a string's text is not counted.
SizeOfArgNoHeader(type, x) ==
    CASE type \in {"int", "uint"} -> WordBytes
      [] type \in {"int64", "uint64", "float"} -> 2 * WordBytes
      [] type = "bool" -> 1
      [] type = "string" -> Len(x.v)

SizeOfArg(type, x) ==
    CASE type \in {"int", "uint"} -> WordBytes
      [] type \in {"int64", "uint64", "float"} -> 2 * WordBytes
      [] type = "bool" -> 1
      [] type = "string" -> HalfWordBytes + Len(x.v)

BytesRead(type) ==
    CASE type \in {"int", "uint"} -> WordBytes
      [] type \in {"int64", "uint64", "float"} -> 2 * WordBytes
      [] type = "bool" -> 1

ValueOfBytes(type, bytes) ==
    CASE type \in {"int", "int64"} -> Num(Signed(bytes))
      [] type \in {"uint", "uint64"} -> Num(Unsigned(bytes))
      [] type = "float" -> OfQuarters(Unsigned(bytes))
      [] type = "bool" -> Bool(Unsigned(bytes) # 0)

\* read_string: n characters, or none when fewer are left.
StringOfBytes(n, b) ==
    [ReadBytes(b, n) EXCEPT !.val = Str(IF Len(b.bytes) - b.pos < n THEN << >> ELSE @)]
LengthThenString(head) == StringOfBytes(Unsigned(head.val), head.buf)

ArgOfBytes(type, b) ==
    IF type = "string" THEN LengthThenString(ReadBytes(b, HalfWordBytes))
    ELSE [ReadBytes(b, BytesRead(type)) EXCEPT !.val = ValueOfBytes(type, @)]
----------------------------------------------------------------------------
(* Bits to blobs: [len, bit, bytes], len being what field_len counts *)

AppendArg(f, r, bytes) ==
    [len |-> SizeOfArg(f.type, r.val), bit |-> r.buf, bytes |-> bytes \o BytesOfArg(f.type, r.val)]
build_byte_buffer_arg(f, bit, bytes) ==
    IF is_struct(f.type) THEN [len |-> 0, bit |-> bit, bytes |-> bytes]
    ELSE AppendArg(f, Read(f, bit), bytes)

RECURSIVE build_byte_buffer_struct(_, _, _)

BlobElement(f, bit, bytes) ==
    IF is_struct(f.type) THEN build_byte_buffer_struct(f, bit, bytes)
    ELSE build_byte_buffer_arg(f, bit, bytes)

After(a, r) == [r EXCEPT !.len = a.len + @]
NextElement(f, a) == After(a, BlobElement(f, a.bit, a.bytes))

\* The length, then as many elements: step adds one to [len, bit, bytes].
Counted(step(_), length, bytes) ==
    FoldLeft(LAMBDA a, i : step(a),
             [len |-> HalfWordBytes, bit |-> length.buf,
              bytes |-> bytes \o BytesOf(length.val, HalfWordBytes)],
             [i \in 1..length.val |-> i])

build_byte_buffer_vector(f, bit, bytes) ==
    Counted(LAMBDA a : NextElement(f, a), read_uint(bit, f.vbit), bytes)

build_byte_buffer_map(f, bit, bytes) ==
    Counted(LAMBDA a : NextElement(f, NextElement(KeyField(f), a)), read_uint(bit, f.vbit), bytes)

BlobField(f, bit, bytes) ==
    CASE f.label = "vector" -> build_byte_buffer_vector(f, bit, bytes)
      [] f.label = "map" -> build_byte_buffer_map(f, bit, bytes)
      [] f.label = "struct" -> build_byte_buffer_struct(f, bit, bytes)

build_byte_buffer_struct(f, bit, bytes) ==
    IF f.type \notin DOMAIN Structs THEN [len |-> 0, bit |-> bit, bytes |-> bytes]
    ELSE FoldLeft(LAMBDA a, g :
                      IF g.label = "arg" THEN After(a, build_byte_buffer_arg(g, a.bit, a.bytes))
                      ELSE IF g.label \in {"if", "switch"} THEN a
                      ELSE After(a, BlobField(g, a.bit, a.bytes)),
                  [len |-> 0, bit |-> bit, bytes |-> bytes], Structs[f.type])
----------------------------------------------------------------------------
(* Base64: three bytes as four units, the last group cut short and padded *)

UnitBits == (3 * ByteBits) \div 4
Padding == -1

HighFirst(i, n) == Reverse(LowBits(i, n))
Regroup(bits, n, count) ==
    [k \in 1..count |->
        Number([bits |-> Reverse([j \in 1..n |-> LET at == (k - 1) * n + j
                                                 IN  IF at <= Len(bits) THEN bits[at] ELSE 0]),
                pos |-> 0], n)]

base64_encode(bytes, len) ==
    LET bits == FlattenSeq([k \in 1..len |-> HighFirst(IF k <= Len(bytes) THEN bytes[k] ELSE 0, ByteBits)])
        units == (4 * len + 2) \div 3
    IN  Regroup(bits, UnitBits, units) \o [k \in 1..((3 - (len % 3)) % 3) |-> Padding]

base64_decode(text) ==
    LET BytesOfUnits(units) ==
            Regroup(FlattenSeq([k \in DOMAIN units |-> HighFirst(units[k], UnitBits)]),
                    ByteBits, (3 * Len(units)) \div 4)
    IN  BytesOfUnits(SelectSeq(text, LAMBDA u : u # Padding))
----------------------------------------------------------------------------
(* Blobs to bits: [ok, bit, blob] *)

build_bit_of_arg(f, bit, blob) ==
    IF is_struct(f.type) THEN [ok |-> FALSE, bit |-> bit, blob |-> blob]
    ELSE LET Loaded(r) == [ok |-> TRUE, bit |-> Write(f, bit, r.val), blob |-> r.buf]
         IN  Loaded(ArgOfBytes(f.type, blob))

RECURSIVE BitsOfBlob(_, _, _), build_bit_of_struct(_, _, _)

BitsOfBlob(f, bit, blob) ==
    IF is_struct(f.type) THEN build_bit_of_struct(f, bit, blob)
    ELSE build_bit_of_arg(f, bit, blob)

WithCount(f, bit, n, rest) == [ok |-> TRUE, bit |-> write_uint(bit, n, f.vbit), blob |-> rest]

VectorOfBlob(f, bit, n, rest) ==
    UntilFails(LAMBDA a, i : BitsOfBlob(f, a.bit, a.blob), WithCount(f, bit, n, rest), n)
build_bit_of_vector(f, bit, blob) ==
    LET length == ReadBytes(blob, HalfWordBytes)
    IN  VectorOfBlob(f, bit, Unsigned(length.val), length.buf)

\* The result of the value overwrites the key's.
ThenValue(f, key) == BitsOfBlob(f, key.bit, key.blob)
MapOfBlob(f, bit, n, rest) ==
    UntilFails(LAMBDA a, i : ThenValue(f, BitsOfBlob(KeyField(f), a.bit, a.blob)),
               WithCount(f, bit, n, rest), n)
build_bit_of_map(f, bit, blob) ==
    LET length == ReadBytes(blob, HalfWordBytes)
    IN  MapOfBlob(f, bit, Unsigned(length.val), length.buf)

build_bit_of_field(f, bit, blob) ==
    CASE f.label = "vector" -> build_bit_of_vector(f, bit, blob)
      [] f.label = "map" -> build_bit_of_map(f, bit, blob)
      [] f.label = "struct" -> build_bit_of_struct(f, bit, blob)

build_bit_of_struct(f, bit, blob) ==
    IF f.type \notin DOMAIN Structs THEN [ok |-> FALSE, bit |-> bit, blob |-> blob]
    ELSE UntilFails(LAMBDA a, i :
                        LET g == Structs[f.type][i]
                        IN  IF g.label = "arg" THEN build_bit_of_arg(g, a.bit, a.blob)
                            ELSE IF g.label \in {"if", "switch"} THEN a
                            ELSE build_bit_of_field(g, a.bit, a.blob),
                    [ok |-> TRUE, bit |-> bit, blob |-> blob], Len(Structs[f.type]))
----------------------------------------------------------------------------
(* MySQL rows *)

\* The column that Struct_Tool declares for a field, and what it keeps.
Column(f) ==
    IF f.label # "arg" THEN "text"
    ELSE CASE f.type \in {"int64", "uint64"} -> "bigint"
           [] f.type = "bool" -> "int(2)"
           [] f.type = "string" -> "varchar"
           [] OTHER -> "int(11)"

Stored(f, x) ==
    IF Column(f) = "int(11)" THEN Num(x.v + (IF x.f >= 2 THEN 1 ELSE 0)) ELSE x

MysqlSave(fields, bit) ==
    LET Plain(a, f, r) == [bit |-> r.buf, row |-> a.row @@ (f.name :> Stored(f, r.val))]
        Blob(a, f, b) == [bit |-> b.bit, row |-> a.row @@ (f.name :> base64_encode(b.bytes, b.len))]
        Field(a, f) == IF f.label = "arg" THEN Plain(a, f, Read(f, a.bit))
                       ELSE Blob(a, f, BlobField(f, a.bit, << >>))
    IN  FoldLeft(Field, [bit |-> bit, row |-> << >>], fields).row

MysqlLoad(fields, row) ==
    LET Field(f, bit) ==
          IF f.label = "arg" THEN Wrote(Write(f, bit, row[f.name]))
          ELSE LET r == build_bit_of_field(f, bit, [bytes |-> base64_decode(row[f.name]), pos |-> 0])
               IN  [ok |-> r.ok, buf |-> r.bit]
    IN  UntilFails(LAMBDA a, i : Field(fields[i], a.buf), Wrote(EmptyBits), Len(fields))
----------------------------------------------------------------------------
(* MongoDB documents *)

save_data_arg(f, doc, bit) ==
    IF is_struct(f.type) THEN [ok |-> FALSE, doc |-> doc, bit |-> bit]
    ELSE LET Saved(r) == [ok |-> TRUE, doc |-> WithMember(doc, f.name, r.val), bit |-> r.buf]
         IN  Saved(Read(f, bit))

RECURSIVE save_data_struct(_, _, _)

SaveElement(f, doc, bit) ==
    IF is_struct(f.type) THEN save_data_struct(f, doc, bit) ELSE save_data_arg(f, doc, bit)

\* The list of a field is collected in the member of the same name.
WithElement(list, e) == [e EXCEPT !.doc = [t |-> "list", v |-> Append(list.v, @)]]
Elements(element(_), length) ==
    UntilFails(LAMBDA a, i : WithElement(a.doc, element(a.bit)),
               [ok |-> TRUE, doc |-> [t |-> "list", v |-> << >>], bit |-> length.buf], length.val)

save_data_vector(f, doc, bit) ==
    [Elements(LAMBDA b : SaveElement(f, Node(<< >>), b), read_uint(bit, f.vbit))
        EXCEPT !.doc = WithMember(doc, f.name, @)]

SaveValue(f, key) == [SaveElement(f, key.doc, key.bit) EXCEPT !.ok = @ /\ key.ok]
save_data_map(f, doc, bit) ==
    [Elements(LAMBDA b : SaveValue(f, SaveElement(KeyField(f), Node(<< >>), b)), read_uint(bit, f.vbit))
        EXCEPT !.doc = WithMember(doc, f.name, @)]

\* A vector inside a structure is saved as a map is.
save_data_struct(f, doc, bit) ==
    IF f.type \notin DOMAIN Structs THEN [ok |-> FALSE, doc |-> doc, bit |-> bit]
    ELSE LET r == UntilFails(LAMBDA a, i :
                      LET g == Structs[f.type][i]
                      IN  CASE g.label = "arg" -> save_data_arg(g, a.doc, a.bit)
                            [] g.label \in {"vector", "map"} -> save_data_map(g, a.doc, a.bit)
                            [] g.label = "struct" -> save_data_struct(g, a.doc, a.bit)
                            [] OTHER -> a,
                      [ok |-> TRUE, doc |-> Node(<< >>), bit |-> bit], Len(Structs[f.type]))
         IN  [r EXCEPT !.doc = WithMember(doc, f.name, @)]

\* A row is kept under its key, the first field, which must be a number from
\* zero or a string that is not empty; peeking puts the position back to 0.
ValidKey(type, key) ==
    \/ type = "int64" /\ key.v >= 0
    \/ type = "string" /\ key.v # << >>
SaveField(f, a) ==
    CASE f.label = "arg" -> save_data_arg(f, a.doc, a.bit)
      [] f.label = "vector" -> save_data_vector(f, a.doc, a.bit)
      [] f.label = "map" -> save_data_map(f, a.doc, a.bit)
      [] f.label = "struct" -> save_data_struct(f, a.doc, a.bit)
      [] OTHER -> a
MongoSave(fields, bit) ==
    IF ~ValidKey(fields[1].type, Read(fields[1], bit).val)
    THEN [ok |-> FALSE, doc |-> Null, bit |-> bit]
    ELSE UntilFails(LAMBDA a, i : SaveField(fields[i], a),
             [ok |-> TRUE, doc |-> Node(<< >>), bit |-> [bit EXCEPT !.pos = 0]], Len(fields))

\* A member that is not there reads as zero, as no text and as no elements.
Absent(type) == CASE type = "string" -> Str(<< >>) [] type = "bool" -> Bool(FALSE) [] OTHER -> Num(0)
load_data_arg(f, doc, bit) ==
    IF is_struct(f.type) THEN NotWritten(bit)
    ELSE Wrote(Write(f, bit, IF Member(doc, f.name) = Null THEN Absent(f.type) ELSE Member(doc, f.name)))

RECURSIVE load_data_struct(_, _, _)

LoadElement(f, doc, bit) ==
    IF is_struct(f.type) THEN load_data_struct(f, doc, bit) ELSE load_data_arg(f, doc, bit)

List(doc, name) == IF Member(doc, name).t = "list" THEN Member(doc, name).v ELSE << >>

load_data_vector(f, doc, bit) ==
    LET list == List(doc, f.name)
    IN  UntilFails(LAMBDA a, i : LoadElement(f, list[i], a.buf),
                   Wrote(write_uint(bit, Len(list), f.vbit)), Len(list))

load_data_map(f, doc, bit) ==
    LET list == List(doc, f.name)
    IN  UntilFails(LAMBDA a, i : LET key == LoadElement(KeyField(f), list[i], a.buf)
                                     value == LoadElement(f, list[i], key.buf)
                                 IN  [value EXCEPT !.ok = @ /\ key.ok],
                   Wrote(write_uint(bit, Len(list), f.vbit)), Len(list))

LoadField(f, doc, bit) ==
    CASE f.label = "arg" -> load_data_arg(f, doc, bit)
      [] f.label = "vector" -> load_data_vector(f, doc, bit)
      [] f.label = "map" -> load_data_map(f, doc, bit)
      [] f.label = "struct" -> load_data_struct(f, doc, bit)
      [] OTHER -> Wrote(bit)

\* The member is looked up by the name of the type, not of the field.
load_data_struct(f, doc, bit) ==
    IF f.type \notin DOMAIN Structs THEN NotWritten(bit)
    ELSE UntilFails(LAMBDA a, i : LoadField(Structs[f.type][i], Member(doc, f.type), a.buf),
                    Wrote(bit), Len(Structs[f.type]))

MongoLoad(fields, doc) ==
    UntilFails(LAMBDA a, i : LoadField(fields[i], doc, a.buf), Wrote(EmptyBits), Len(fields))
============================================================================
