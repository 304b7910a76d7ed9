---------------------------- MODULE StructCodec ----------------------------
(***************************************************************************)
(* Base_Struct, Msg_Struct and Robot_Struct (src/nodelib/struct): objects  *)
(* of the scripts written to and read from bit buffers and JSON by the     *)
(* fields that the XML files give a structure.                             *)
(*                                                                         *)
(* A script value is a record tagged by its kind; a number has a whole     *)
(* part v and a fraction f in quarters.  An encoder returns [ok, buf], a   *)
(* decoder [ok, val, buf]: ok is FALSE where the code returns -1 or an     *)
(* empty handle.  Structs are the loaded structures by name.               *)
(***************************************************************************)
EXTENDS BitBuffer, SequencesExt

CONSTANT Structs  \* name -> sequence of fields

Undefined == [t |-> "undefined"]
Num(i) == [t |-> "num", v |-> i, f |-> 0]
Bool(x) == [t |-> "bool", v |-> x]
Str(s) == [t |-> "str", v |-> s]
Arr(s) == [t |-> "arr", v |-> s]
MapOf(s) == [t |-> "map", v |-> s]    \* pairs <<key, value>> in their order
Obj(r) == [t |-> "obj", v |-> r]

IsObject(x) == x.t \in {"arr", "map", "obj"}
Property(x, name) ==
    IF x.t = "obj" /\ name \in DOMAIN x.v THEN x.v[name] ELSE Undefined
WithProperty(x, name, y) ==
    Obj([n \in DOMAIN x.v \cup {name} |-> IF n = name THEN y ELSE x.v[n]])

Basic == {"int", "uint", "int64", "uint64", "float", "bool", "string"}
is_struct(type) == type \notin Basic

KeyField(f) == [f EXCEPT !.label = IF is_struct(f.key_type) THEN "struct" ELSE "arg",
                         !.type = f.key_type, !.bit = f.key_bit, !.name = f.key_name]

Case(f, val) == SelectSeq(f.children, LAMBDA c : c.label = "case" /\ c.case_val = val)

\* Steps 1 to n on acc, none after a failed one.
UntilFails(step(_, _), acc, n) ==
    FoldLeft(LAMBDA a, i : IF a.ok THEN step(a, i) ELSE a, acc, [i \in 1..n |-> i])

Wrote(b) == [ok |-> TRUE, buf |-> b]
NotWritten(b) == [ok |-> FALSE, buf |-> b]
NotRead(b) == [ok |-> FALSE, val |-> Undefined, buf |-> b]

\* A float keeps half of the fraction.
FloatWord(x) == (2 * x.v + x.f \div 2) % 2^WordBits
OfFloatWord(w) == [Num(w \div 2) EXCEPT !.f = 2 * (w % 2)]
----------------------------------------------------------------------------
(* Objects to bits *)

Accepts(type, x) ==
    CASE type = "int" -> /\ x.t = "num" /\ x.f = 0
                         /\ x.v \in -2^(WordBits - 1)..2^(WordBits - 1) - 1
      [] type = "uint" -> x.t = "num" /\ x.f = 0 /\ x.v \in 0..2^WordBits - 1
      [] type \in {"int64", "uint64", "float"} -> x.t = "num"
      [] type = "bool" -> x.t = "bool"
      [] type = "string" -> x.t = "str"
      [] OTHER -> FALSE

Write(f, b, x) ==
    CASE f.type = "int" -> write_int(b, x.v, f.bit)
      [] f.type = "uint" -> write_uint(b, x.v, f.bit)
      [] f.type \in {"int64", "uint64"} -> write_int64(b, x.v)
      [] f.type = "float" -> write_uint(b, FloatWord(x), WordBits)
      [] f.type = "bool" -> write_flag(b, x.v)
      [] f.type = "string" -> write_str(b, x.v)

build_bit_buffer_arg(f, b, x) ==
    IF Accepts(f.type, x) THEN Wrote(Write(f, b, x)) ELSE NotWritten(b)

RECURSIVE build_bit_buffer(_, _, _)

build_bit_buffer_struct(f, b, x) ==
    IF IsObject(x) /\ f.type \in DOMAIN Structs
    THEN build_bit_buffer(Structs[f.type], b, x)
    ELSE NotWritten(b)

BitsOfElement(f, b, x) ==
    IF is_struct(f.type) THEN build_bit_buffer_struct(f, b, x)
    ELSE build_bit_buffer_arg(f, b, x)

build_bit_buffer_vector(f, b, x) ==
    IF x.t # "arr" THEN NotWritten(b)
    ELSE UntilFails(LAMBDA a, i : BitsOfElement(f, a.buf, x.v[i]),
                    Wrote(write_uint(b, Len(x.v), f.vbit)), Len(x.v))

build_bit_buffer_map(f, b, x) ==
    IF x.t # "map" THEN NotWritten(b)
    ELSE UntilFails(LAMBDA a, i :
                        LET Value(key) == [BitsOfElement(f, key.buf, x.v[i][2]) EXCEPT !.ok = @ /\ key.ok]
                        IN  Value(BitsOfElement(KeyField(f), a.buf, x.v[i][1])),
                    Wrote(write_uint(b, Len(x.v), f.vbit)), Len(x.v))

build_bit_buffer(fields, b, x) ==
    LET Field(f, buf) ==
          LET y == Property(x, f.name)
              case == IF Accepts("uint", y) THEN y.v ELSE 0
          IN  CASE f.label = "arg" -> build_bit_buffer_arg(f, buf, y)
                [] f.label = "vector" -> build_bit_buffer_vector(f, buf, y)
                [] f.label = "map" -> build_bit_buffer_map(f, buf, y)
                [] f.label = "struct" -> build_bit_buffer_struct(f, buf, y)
                [] f.label = "if" ->
                     IF y = Undefined THEN Wrote(write_flag(buf, FALSE))
                     ELSE build_bit_buffer(f.children, write_flag(buf, TRUE), x)
                [] f.label = "switch" ->
                     LET branch == Case(f, case)
                         tagged == write_uint(buf, case, f.bit)
                     IN  IF branch = << >> THEN Wrote(tagged)
                         ELSE build_bit_buffer(branch[1].children, tagged, x)
    IN  UntilFails(LAMBDA a, i : Field(fields[i], a.buf), Wrote(b), Len(fields))
----------------------------------------------------------------------------
(* Bits to objects *)

Needed(f) ==
    CASE f.type \in {"int", "uint"} -> f.bit
      [] f.type \in {"int64", "uint64"} -> 2 * WordBits
      [] f.type = "float" -> WordBits
      [] f.type = "bool" -> 1
      [] f.type = "string" -> ByteBits

Read(f, b) ==
    LET As(make(_), r) == [ok |-> TRUE, val |-> make(r.val), buf |-> r.buf]
    IN  CASE f.type = "int" -> As(Num, read_int(b, f.bit))
          [] f.type = "uint" -> As(Num, read_uint(b, f.bit))
          [] f.type = "int64" -> As(Num, read_int64(b))
          [] f.type = "uint64" -> As(Num, read_uint64(b))
          [] f.type = "float" -> As(OfFloatWord, read_uint(b, WordBits))
          [] f.type = "bool" -> As(Bool, read_flag(b))
          [] f.type = "string" -> As(Str, read_str(b))

build_bit_object_arg(f, b) ==
    IF is_struct(f.type) \/ read_bits_available(b) < Needed(f) THEN NotRead(b)
    ELSE Read(f, b)

RECURSIVE build_bit_object(_, _, _)

\* The result of the nested call is not looked at.
build_bit_object_struct(f, b) ==
    IF f.type \notin DOMAIN Structs THEN NotRead(b)
    ELSE [build_bit_object(Structs[f.type], b, Obj(<< >>)) EXCEPT !.ok = TRUE]

ElementOfBits(f, b) ==
    IF is_struct(f.type) THEN build_bit_object_struct(f, b) ELSE build_bit_object_arg(f, b)

build_bit_object_vector(f, b) ==
    IF read_bits_available(b) < f.vbit THEN NotRead(b)
    ELSE LET length == read_uint(b, f.vbit)
         IN  UntilFails(LAMBDA a, i :
                            LET e == ElementOfBits(f, a.buf)
                            IN  [e EXCEPT !.val = Arr(Append(a.val.v, @))],
                        [ok |-> TRUE, val |-> Arr(<< >>), buf |-> length.buf], length.val)

\* Map.set: an equal key keeps its place and gets the new value.
SetInMap(pairs, k, v) ==
    IF \E i \in DOMAIN pairs : pairs[i][1] = k
    THEN [i \in DOMAIN pairs |-> IF pairs[i][1] = k THEN <<k, v>> ELSE pairs[i]]
    ELSE Append(pairs, <<k, v>>)

build_bit_object_map(f, b) ==
    IF read_bits_available(b) < f.vbit THEN NotRead(b)
    ELSE LET Entry(pairs, key, value) ==
                 [ok |-> key.ok /\ value.ok, buf |-> value.buf,
                  val |-> MapOf(SetInMap(pairs, key.val, value.val))]
             AfterKey(pairs, key) == Entry(pairs, key, ElementOfBits(f, key.buf))
             All(length) ==
                 UntilFails(LAMBDA a, i : AfterKey(a.val.v, ElementOfBits(KeyField(f), a.buf)),
                            [ok |-> TRUE, val |-> MapOf(<< >>), buf |-> length.buf], length.val)
         IN  All(read_uint(b, f.vbit))

build_bit_object(fields, b, x) ==
    LET Set(a, f, r) ==
            [r EXCEPT !.val = IF r.ok THEN WithProperty(a.val, f.name, @) ELSE a.val]
        Field(f, a) ==
          CASE f.label = "arg" -> Set(a, f, build_bit_object_arg(f, a.buf))
            [] f.label = "vector" -> Set(a, f, build_bit_object_vector(f, a.buf))
            [] f.label = "map" -> Set(a, f, build_bit_object_map(f, a.buf))
            [] f.label = "struct" -> Set(a, f, build_bit_object_struct(f, a.buf))
            [] f.label = "if" ->
                 IF read_bits_available(a.buf) < 1 THEN [a EXCEPT !.ok = FALSE]
                 ELSE LET exists == read_flag(a.buf)
                      IN  IF exists.val THEN build_bit_object(f.children, exists.buf, a.val)
                          ELSE [a EXCEPT !.buf = exists.buf]
            [] f.label = "switch" ->
                 IF read_bits_available(a.buf) < f.bit THEN [a EXCEPT !.ok = FALSE]
                 ELSE LET case == read_uint(a.buf, f.bit)
                          tagged == WithProperty(a.val, f.name, Num(case.val))
                          branch == Case(f, case.val)
                      IN  IF branch = << >> THEN [ok |-> TRUE, val |-> tagged, buf |-> case.buf]
                          ELSE build_bit_object(branch[1].children, case.buf, tagged)
    IN  UntilFails(LAMBDA a, i : Field(fields[i], a),
                   [ok |-> TRUE, val |-> x, buf |-> b], Len(fields))

\* build_buffer_msg_object: a message whose decoding fails is delivered with
\* the properties read before, and with the fields of its head.
build_buffer_msg_object(fields, b, head) ==
    LET r == build_bit_object(fields, b, Obj(<< >>))
    IN  [r EXCEPT !.val = FoldLeft(LAMBDA o, n : WithProperty(o, n, Num(head[n])),
                                   @, <<"cid", "msg_id", "msg_type", "sid">>)]
============================================================================
