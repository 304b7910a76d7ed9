----------------------------- MODULE StructForms -----------------------------
(***************************************************************************)
(* The other ways in which src/nodelib/struct walks the fields of a        *)
(* structure: a buffer copied into another (Base_Struct, used by           *)
(* Data_Manager), objects to JSON and back (HTTP and WebSocket messages),  *)
(* a robot's messages (Robot_Struct) and the script source that            *)
(* Struct_Tool writes.                                                     *)
(***************************************************************************)
EXTENDS StructCodec

(* Bits to bits: [ok, src, dst] *)

relay_arg(f, src, dst) ==
    IF is_struct(f.type) \/ read_bits_available(src) < Needed(f)
    THEN [ok |-> FALSE, src |-> src, dst |-> dst]
    ELSE LET Copied(r) == [ok |-> TRUE, src |-> r.buf, dst |-> Write(f, dst, r.val)]
         IN  Copied(Read(f, src))

RECURSIVE relay(_, _, _)

relay_struct(f, src, dst) ==
    IF f.type \in DOMAIN Structs THEN relay(Structs[f.type], src, dst)
    ELSE [ok |-> FALSE, src |-> src, dst |-> dst]

RelayElement(f, src, dst) ==
    IF is_struct(f.type) THEN relay_struct(f, src, dst) ELSE relay_arg(f, src, dst)

relay_vector(f, src, dst) ==
    IF read_bits_available(src) < f.vbit THEN [ok |-> FALSE, src |-> src, dst |-> dst]
    ELSE LET length == read_uint(src, f.vbit)
         IN  UntilFails(LAMBDA a, i : RelayElement(f, a.src, a.dst),
                        [ok |-> TRUE, src |-> length.buf, dst |-> write_uint(dst, length.val, f.vbit)],
                        length.val)

\* The result of the value overwrites the key's.
relay_map(f, src, dst) ==
    IF read_bits_available(src) < f.vbit THEN [ok |-> FALSE, src |-> src, dst |-> dst]
    ELSE LET length == read_uint(src, f.vbit)
             Value(key) == RelayElement(f, key.src, key.dst)
         IN  UntilFails(LAMBDA a, i : Value(RelayElement(KeyField(f), a.src, a.dst)),
                        [ok |-> TRUE, src |-> length.buf, dst |-> write_uint(dst, length.val, f.vbit)],
                        length.val)

relay(fields, src, dst) ==
    LET Field(f, a) ==
          CASE f.label = "arg" -> relay_arg(f, a.src, a.dst)
            [] f.label = "vector" -> relay_vector(f, a.src, a.dst)
            [] f.label = "map" -> relay_map(f, a.src, a.dst)
            [] f.label = "struct" -> relay_struct(f, a.src, a.dst)
            [] f.label = "if" ->
                 IF read_bits_available(a.src) < 1 THEN [a EXCEPT !.ok = FALSE]
                 ELSE LET e == read_flag(a.src)
                          copied == write_flag(a.dst, e.val)
                      IN  IF e.val THEN relay(f.children, e.buf, copied)
                          ELSE [ok |-> TRUE, src |-> e.buf, dst |-> copied]
            [] f.label = "switch" ->
                 IF read_bits_available(a.src) < f.bit THEN [a EXCEPT !.ok = FALSE]
                 ELSE LET case == read_uint(a.src, f.bit)
                          copied == write_uint(a.dst, case.val, f.bit)
                          branch == Case(f, case.val)
                      IN  IF branch = << >> THEN [ok |-> TRUE, src |-> case.buf, dst |-> copied]
                          ELSE relay(branch[1].children, case.buf, copied)
    IN  UntilFails(LAMBDA a, i : Field(fields[i], a),
                   [ok |-> TRUE, src |-> src, dst |-> dst], Len(fields))
----------------------------------------------------------------------------
(* Objects to JSON and back.  A JSON value is null, a number (int, uint    *)
(* or real), a bool, a str, a list or a node.                              *)

Null == [t |-> "null"]
Node(r) == [t |-> "node", v |-> r]
Member(j, name) == IF j.t = "node" /\ name \in DOMAIN j.v THEN j.v[name] ELSE Null
WithMember(j, name, y) ==
    LET old == IF j.t = "node" THEN DOMAIN j.v ELSE {}
    IN  Node([n \in old \cup {name} |-> IF n = name THEN y ELSE j.v[n]])
WithAppended(j, name, y) ==
    LET list == Member(j, name)
    IN  WithMember(j, name, [t |-> "list", v |-> Append(IF list.t = "list" THEN list.v ELSE << >>, y)])

JsonKind(type) ==
    CASE type \in {"int", "uint"} -> type
      [] type \in {"int64", "uint64", "float"} -> "real"
      [] OTHER -> type

build_json_value_arg(f, x, root) ==
    IF Accepts(f.type, x)
    THEN [ok |-> TRUE, val |-> WithMember(root, f.name, [x EXCEPT !.t = JsonKind(f.type)])]
    ELSE [ok |-> FALSE, val |-> root]

RECURSIVE build_json_value(_, _, _)

build_json_value_struct(f, x, root) ==
    IF IsObject(x) /\ f.type \in DOMAIN Structs
    THEN LET r == build_json_value(Structs[f.type], x, Null)
         IN  [r EXCEPT !.val = IF r.ok THEN WithMember(root, f.name, @) ELSE root]
    ELSE [ok |-> FALSE, val |-> root]

\* Elements are wrapped in a node of their own under the field's name.
JsonElement(f, x) ==
    IF is_struct(f.type) THEN build_json_value_struct(f, x, Null)
    ELSE build_json_value_arg(f, x, Null)

build_json_value_vector(f, x, root) ==
    IF x.t # "arr" THEN [ok |-> FALSE, val |-> root]
    ELSE UntilFails(LAMBDA a, i : LET e == JsonElement(f, x.v[i])
                                  IN  [e EXCEPT !.val = WithAppended(a.val, f.name, @)],
                    [ok |-> TRUE, val |-> root], Len(x.v))

build_json_value_map(f, x, root) ==
    IF x.t # "map" THEN [ok |-> FALSE, val |-> root]
    ELSE UntilFails(LAMBDA a, i :
                        LET key == JsonElement(KeyField(f), x.v[i][1])
                            value == JsonElement(f, x.v[i][2])
                        IN  [ok |-> key.ok /\ value.ok,
                             val |-> WithAppended(WithAppended(a.val, f.name, key.val), f.name, value.val)],
                    [ok |-> TRUE, val |-> root], Len(x.v))

\* if and switch add the members of their branch; the case is not kept.
build_json_value(fields, x, root) ==
    LET Field(f, j) ==
          LET y == Property(x, f.name)
              branch == Case(f, IF Accepts("uint", y) THEN y.v ELSE 0)
          IN  CASE f.label = "arg" -> build_json_value_arg(f, y, j)
                [] f.label = "vector" -> build_json_value_vector(f, y, j)
                [] f.label = "map" -> build_json_value_map(f, y, j)
                [] f.label = "struct" -> build_json_value_struct(f, y, j)
                [] f.label = "if" ->
                     IF y = Undefined THEN [ok |-> TRUE, val |-> j]
                     ELSE build_json_value(f.children, x, j)
                [] f.label = "switch" ->
                     IF branch = << >> THEN [ok |-> TRUE, val |-> j]
                     ELSE build_json_value(branch[1].children, x, j)
    IN  UntilFails(LAMBDA a, i : Field(fields[i], a.val), [ok |-> TRUE, val |-> root], Len(fields))

build_value_object_arg(f, j) ==
    LET kind == CASE f.type = "string" -> "str" [] f.type = "bool" -> "bool" [] OTHER -> "num"
    IN  IF ~is_struct(f.type) /\ j.t = JsonKind(f.type)
        THEN [ok |-> TRUE, val |-> [j EXCEPT !.t = kind]]
        ELSE [ok |-> FALSE, val |-> Undefined]

RECURSIVE build_value_object(_, _)

build_value_object_struct(f, j) ==
    IF j.t = "node" /\ f.type \in DOMAIN Structs THEN build_value_object(Structs[f.type], j)
    ELSE [ok |-> FALSE, val |-> Undefined]

ObjectElement(f, j) ==
    IF is_struct(f.type) THEN build_value_object_struct(f, j) ELSE build_value_object_arg(f, j)

build_value_object_vector(f, j) ==
    IF j.t # "list" THEN [ok |-> FALSE, val |-> Undefined]
    ELSE UntilFails(LAMBDA a, i : LET e == ObjectElement(f, j.v[i])
                                  IN  [e EXCEPT !.val = Arr(Append(a.val.v, @))],
                    [ok |-> TRUE, val |-> Arr(<< >>)], Len(j.v))

\* Key and value are both read from the same element.
build_value_object_map(f, j) ==
    IF j.t # "list" THEN [ok |-> FALSE, val |-> Undefined]
    ELSE UntilFails(LAMBDA a, i :
                        LET key == ObjectElement(KeyField(f), j.v[i])
                            value == ObjectElement(f, j.v[i])
                        IN  [ok |-> key.ok /\ value.ok,
                             val |-> MapOf(SetInMap(a.val.v, key.val, value.val))],
                    [ok |-> TRUE, val |-> MapOf(<< >>)], Len(j.v))

\* The branch of an if becomes an object under the name of the if; that of a
\* switch is built from the list of cases, none of which is a field.
build_value_object(fields, j) ==
    LET Set(x, f, r) == [r EXCEPT !.val = IF r.ok THEN WithProperty(x, f.name, @) ELSE x]
        Field(f, x) ==
          LET y == Member(j, f.name)
              case == IF y.t = "uint" THEN y.v ELSE 0
          IN  CASE f.label = "arg" -> Set(x, f, build_value_object_arg(f, y))
                [] f.label = "vector" -> Set(x, f, build_value_object_vector(f, y))
                [] f.label = "map" -> Set(x, f, build_value_object_map(f, y))
                [] f.label = "struct" -> Set(x, f, build_value_object_struct(f, y))
                [] f.label = "if" ->
                     IF y = Null THEN [ok |-> TRUE, val |-> x]
                     ELSE Set(x, f, build_value_object(f.children, j))
                [] f.label = "switch" ->
                     IF Case(f, case) = << >> THEN Set(x, f, [ok |-> TRUE, val |-> Num(case)])
                     ELSE Set(x, f, build_value_object(f.children, j))
                [] f.label = "case" -> [ok |-> TRUE, val |-> x]
    IN  UntilFails(LAMBDA a, i : Field(fields[i], a.val),
                   [ok |-> TRUE, val |-> Obj(<< >>)], Len(fields))
----------------------------------------------------------------------------
(* Robots write any message of their structures and read any answer *)

RobotArg(f, b) == IF f.type = "string" THEN write_str(b, <<1>>)
                  ELSE Write(f, b, IF f.type = "bool" THEN Bool(FALSE) ELSE Num(0))

RECURSIVE robot_write(_, _)
robot_write(fields, b) ==
    LET Field(f, buf) ==
          CASE f.label = "arg" -> RobotArg(f, buf)
            [] f.label \in {"vector", "map"} -> write_uint(buf, 0, f.vbit)
            [] f.label = "struct" ->
                 IF f.type \in DOMAIN Structs THEN robot_write(Structs[f.type], buf) ELSE buf
            [] f.label = "if" -> robot_write(f.children, write_flag(buf, TRUE))
            [] f.label = "switch" ->
                 LET tagged == write_uint(buf, 1, f.bit)
                 IN  IF Case(f, 1) = << >> THEN tagged
                     ELSE robot_write(Case(f, 1)[1].children, tagged)
    IN  FoldLeft(LAMBDA buf, f : Field(f, buf), b, fields)

RobotReadArg(f, b) == build_bit_object_arg(f, b).buf

RECURSIVE robot_read(_, _)

RobotReadStruct(f, b) ==
    IF f.type \in DOMAIN Structs THEN robot_read(Structs[f.type], b) ELSE b
RobotReadElement(f, b) == IF is_struct(f.type) THEN RobotReadStruct(f, b) ELSE RobotReadArg(f, b)
RobotReadVector(f, b) ==
    LET length == read_uint(b, f.vbit)
    IN  FoldLeft(LAMBDA buf, i : RobotReadElement(f, buf), length.buf, [i \in 1..length.val |-> i])
RobotReadMap(f, b) ==
    LET length == read_uint(b, f.vbit)
    IN  FoldLeft(LAMBDA buf, i : RobotReadElement(f, RobotReadElement(KeyField(f), buf)),
                 length.buf, [i \in 1..length.val |-> i])

\* What is missing is skipped, not reported.
robot_read(fields, b) ==
    LET Field(f, buf) ==
          CASE f.label = "arg" -> RobotReadArg(f, buf)
            [] f.label = "vector" -> RobotReadVector(f, buf)
            [] f.label = "map" -> RobotReadMap(f, buf)
            [] f.label = "struct" -> RobotReadStruct(f, buf)
            [] f.label = "if" ->
                 IF read_bits_available(buf) < 1 THEN buf
                 ELSE LET exists == read_flag(buf)
                      IN  IF exists.val THEN robot_read(f.children, exists.buf) ELSE exists.buf
            [] f.label = "switch" ->
                 IF read_bits_available(buf) < f.bit THEN buf
                 ELSE LET case == read_uint(buf, f.bit)
                          branch == Case(f, case.val)
                      IN  IF branch = << >> THEN case.buf
                          ELSE robot_read(branch[1].children, case.buf)
    IN  FoldLeft(LAMBDA buf, f : Field(f, buf), b, fields)
----------------------------------------------------------------------------
(* The object that a constructor written by Struct_Tool makes: every name  *)
(* once, with the definition of the innermost field that has it first.     *)

RECURSIVE write_field_struct(_, _)
write_field_struct(fields, x) ==
    LET Define(o, f, y) == IF f.name \in DOMAIN o.v THEN o ELSE WithProperty(o, f.name, y)
        Field(f, o) ==
          CASE f.label = "arg" ->
                 Define(o, f, CASE f.type = "string" -> Str(<< >>)
                                [] f.type = "bool" -> Bool(FALSE)
                                [] OTHER -> Num(0))
            [] f.label = "vector" -> Define(o, f, Arr(<< >>))
            [] f.label = "map" -> Define(o, f, MapOf(<< >>))
            [] f.label = "struct" -> Define(o, f, write_field_struct(Structs[f.type], Obj(<< >>)))
            [] f.label = "if" -> Define(write_field_struct(f.children, o), f, Bool(FALSE))
            [] f.label = "switch" -> Define(write_field_struct(f.children, o), f, Num(0))
            [] f.label = "case" -> write_field_struct(f.children, o)
    IN  FoldLeft(LAMBDA o, f : Field(f, o), x, fields)
============================================================================
