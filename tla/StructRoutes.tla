---------------------------- MODULE StructRoutes ----------------------------
(***************************************************************************)
(* The way of an object through the system: written to bits by one         *)
(* script, copied by Data_Manager, saved in a row or a document and loaded *)
(* again, or turned into JSON, and read by another script.  One structure  *)
(* and one object are chosen; every order of the conversions follows.      *)
(***************************************************************************)
EXTENDS RowCodec, FiniteSets

CONSTANTS Objects(_),     \* the objects of a structure that are tried
          Tables,         \* structures that are tables of the database
          MaxConversions

VARIABLES
    routeStruct, routeObject,
    form,        \* "object", "bits", "row", "document", "json", or "failed"
    content,     \* the object, buffer, row, document or JSON
    route        \* the conversions made

routeVars == <<routeStruct, routeObject, form, content, route>>

Fields == Structs[routeStruct]

RouteInit ==
    /\ routeStruct \in DOMAIN Structs
    /\ routeObject \in Objects(routeStruct) \cup {write_field_struct(Fields, Obj(<< >>))}
    /\ form = "object"
    /\ content = routeObject
    /\ route = << >>

Become(name, ok, newForm, newContent) ==
    /\ Len(route) < MaxConversions
    /\ route' = Append(route, name)
    /\ form' = IF ok THEN newForm ELSE "failed"
    /\ content' = IF ok THEN newContent ELSE Undefined
    /\ UNCHANGED <<routeStruct, routeObject>>

Encode ==
    /\ form = "object"
    /\ LET r == build_bit_buffer(Fields, EmptyBits, content)
       IN  Become("encode", r.ok, "bits", set_ary(r.buf.bits))

Decode ==
    /\ form = "bits"
    /\ LET r == build_bit_object(Fields, content, Obj(<< >>))
       IN  Become("decode", r.ok, "object", r.val)

Copy ==
    /\ form = "bits"
    /\ LET r == relay(Fields, content, EmptyBits)
       IN  Become("copy", r.ok, "bits", set_ary(r.dst.bits))

SaveMysql ==
    /\ form = "bits" /\ routeStruct \in Tables
    /\ Become("mysql", TRUE, "row", MysqlSave(Fields, content))

LoadMysql ==
    /\ form = "row"
    /\ LET r == MysqlLoad(Fields, content) IN Become("load", r.ok, "bits", set_ary(r.buf.bits))

SaveMongo ==
    /\ form = "bits" /\ routeStruct \in Tables
    /\ LET r == MongoSave(Fields, content) IN Become("mongo", r.ok, "document", r.doc)

LoadMongo ==
    /\ form = "document"
    /\ LET r == MongoLoad(Fields, content) IN Become("load", r.ok, "bits", set_ary(r.buf.bits))

ToJson ==
    /\ form = "object"
    /\ LET r == build_json_value(Fields, content, Null) IN Become("json", r.ok, "json", r.val)

FromJson ==
    /\ form = "json"
    /\ LET r == build_value_object(Fields, content) IN Become("parse", r.ok, "object", r.val)

RobotWrites ==
    /\ form = "object"
    /\ Become("robot", TRUE, "bits", set_ary(robot_write(Fields, EmptyBits).bits))

RouteNext ==
    \/ Encode \/ Decode \/ Copy
    \/ SaveMysql \/ LoadMysql \/ SaveMongo \/ LoadMongo
    \/ ToJson \/ FromJson
    \/ RobotWrites

RouteSpec == RouteInit /\ [][RouteNext]_routeVars
----------------------------------------------------------------------------
Took(name) == \E i \in DOMAIN route : route[i] = name

\* No field of the structure, at any depth, has one of these labels.
RECURSIVE HasLabel(_, _)
HasLabel(fields, labels) ==
    \E i \in DOMAIN fields :
        \/ fields[i].label \in labels
        \/ HasLabel(fields[i].children, labels)
        \/ fields[i].type \in DOMAIN Structs /\ HasLabel(Structs[fields[i].type], labels)

\* What the tables of this system hold: no vector inside a structure, no
\* structure but those named after their type, no fraction of a number.
RECURSIVE MongoSafe(_, _)
MongoSafe(fields, top) ==
    \A i \in DOMAIN fields :
        /\ fields[i].label = "vector" => top
        /\ fields[i].type \in DOMAIN Structs =>
              fields[i].name = fields[i].type /\ MongoSafe(Structs[fields[i].type], FALSE)

SafeRoute ==
    /\ Took("mongo") => MongoSafe(Fields, TRUE) /\ routeObject.v[Fields[1].name] # Str(<< >>)
    /\ Took("json") => ~HasLabel(Fields, {"vector", "map", "if", "switch"})
    /\ Took("mysql") => ~\E i \in DOMAIN Fields : Fields[i].label = "arg" /\ Fields[i].type = "float"

\* The same properties with the same values, but for those of branches that
\* the object does not take: they are not written.
SameObject(x, y) ==
    /\ \A n \in DOMAIN x.v : x.v[n] = Property(y, n)
    /\ build_bit_buffer(Fields, EmptyBits, x) = build_bit_buffer(Fields, EmptyBits, y)

\* An object comes out of every sequence of conversions as it went in: what
\* one walk over the fields writes, the other walks read back, bit for bit,
\* and no field is mistaken for another.  The objects tried fit their
\* fields.  The conversions SafeRoute leaves out are the ones that lose
\* something, stated by the properties below.  Whatever a robot sends is a
\* message that the server reads, and a robot reads whatever the server
\* sends to its last byte: a walk that differs in one field would leave bits
\* or run out of them.
ObjectsUnchanged ==
    /\ SafeRoute => form # "failed"
    /\ SafeRoute /\ ~Took("robot") /\ form = "object" => SameObject(content, routeObject)
    /\ form = "bits" =>
         read_bits_available(robot_read(Fields, content)) \in 0..ByteBits - 1

\* The same for one kind of conversion alone, without the exceptions.
UnchangedBy(names) ==
    (\A i \in DOMAIN route : route[i] \in names \cup {"encode", "decode", "load"}) =>
        form # "failed" /\ (form = "object" => SameObject(content, routeObject))

\* MySQL keeps every number: the code declares an int(11) column for a float.
FloatsSurviveMysql == UnchangedBy({"mysql"})

\* MongoDB keeps every structure of a row with a key: the code writes a
\* member by its name and looks for its type, and it saves a vector inside a
\* structure as a map.
DocumentsSurviveMongo ==
    Property(routeObject, "key") # Str(<< >>) => UnchangedBy({"mongo"})

\* JSON keeps every message: the code writes lists whose elements it does
\* not read.
MessagesSurviveJson == UnchangedBy({"json", "parse"})

RouteTypeOK ==
    /\ routeStruct \in DOMAIN Structs
    /\ form \in {"object", "bits", "row", "document", "json", "failed"}
    /\ Len(route) <= MaxConversions
============================================================================
