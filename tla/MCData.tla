------------------------------- MODULE MCData -------------------------------
(***************************************************************************)
(* What becomes of data: through the codecs of structures, and through the *)
(* data servers and their caches.  One of the two at a time.               *)
(*                                                                         *)
(* Structures: five, with every label, type and nesting of                 *)
(* node_struct.xml and node_msg.xml, and objects at the ends of their      *)
(* fields' ranges.  Data servers: two tables of one row, two servers that  *)
(* both ask for two sessions; one session is enough to fill the data server. *)
(***************************************************************************)
EXTENDS StructRoutes, DataServer

VARIABLE part

F(label, type, bit, name) ==
    [label |-> label, type |-> type, bit |-> bit, name |-> name, vbit |-> 2,
     key_type |-> "", key_bit |-> 0, key_name |-> "", children |-> << >>, case_val |-> 0]
M(f, key_type, key_bit) ==
    [f EXCEPT !.label = "map", !.key_type = key_type, !.key_bit = key_bit, !.key_name = "k"]
C(f, children, val) == [f EXCEPT !.children = children, !.case_val = val]

MCStructs ==
    [item  |-> <<F("arg", "uint", 3, "id"), F("arg", "string", 0, "text"), F("arg", "bool", 1, "own")>>,
     table |-> <<F("arg", "int64", 0, "key"), F("arg", "int", 5, "n"), M(F("map", "item", 0, "item"), "uint", 3),
                 F("vector", "string", 0, "names"), F("struct", "item", 0, "item2")>>,
     doc   |-> <<F("arg", "string", 0, "key"), F("arg", "uint64", 0, "u"), F("struct", "item", 0, "item"),
                 F("vector", "uint", 4, "list")>>,
     stat  |-> <<F("arg", "int64", 0, "key"), F("arg", "float", 0, "f")>>,
     msg   |-> <<F("arg", "float", 0, "f"),
                 C(F("if", "", 0, "opt"), <<F("arg", "int", 3, "opt"), F("vector", "item", 0, "items")>>, 0),
                 C(F("switch", "uint", 2, "kind"),
                   <<C(F("case", "", 0, ""), <<F("arg", "string", 0, "s")>>, 1),
                     C(F("case", "", 0, ""), <<F("struct", "item", 0, "it")>>, 2)>>, 0)>>]
MCTables == {"table", "doc", "stat"}

MCItems == {Obj([id |-> Num(i), text |-> Str(s), own |-> Bool(b)]) :
              <<i, s, b>> \in {<<0, << >>, TRUE>>, <<7, <<15, 1>>, FALSE>>}}
MCMaps == {MapOf(<< >>)} \cup {MapOf(<<<<Num(5), x>>, <<Num(0), y>>>>) : x, y \in MCItems}
MCLists == {Arr(<< >>), Arr(<<Str(<< >>), Str(<<3, 1>>), Str(<<2>>)>>)}

MCObjects(name) ==
    CASE name = "item" -> MCItems
      [] name = "table" ->
           {Obj([key |-> Num(k[1]), n |-> Num(k[2]), item |-> m, names |-> l, item2 |-> x]) :
              k \in {<<1, -15>>, <<30000, 3>>}, m \in MCMaps, l \in MCLists, x \in MCItems}
      [] name = "doc" ->
           {Obj([key |-> Str(<<1>>), u |-> Num(u), item |-> x, list |-> l]) :
              u \in {0, 60000}, x \in MCItems, l \in {Arr(<< >>), Arr(<<Num(15), Num(1)>>)}}
      [] name = "stat" -> {Obj([key |-> Num(7), f |-> [Num(3) EXCEPT !.f = 2]])}
      [] name = "msg" ->
           LET f == [Num(3) EXCEPT !.f = 2]
           IN  {Obj([f |-> f, kind |-> Num(3)])}
               \cup {Obj([f |-> f, opt |-> Num(-3), items |-> Arr(l), kind |-> Num(1), s |-> Str(<<9>>)]) :
                        l \in {<<x, x, x>> : x \in MCItems}}
               \cup {Obj([f |-> f, opt |-> Num(3), items |-> Arr(<< >>), kind |-> Num(2), it |-> x]) :
                        x \in MCItems}
-----------------------------------------------------------------------------
MCCachedTables == <<"role", "bag">>
MCConnectors == <<"c1">>
MCSymmetry == Permutations(SessionIds) \cup Permutations(Servers)

-----------------------------------------------------------------------------
partsVars == <<part, routeVars, dataVars>>

\* An object is chosen for the codecs alone.
partsInit ==
    /\ part \in {"routes", "server"}
    /\ RouteInit
    /\ part # "routes" =>
          routeStruct = "item" /\ routeObject = write_field_struct(Fields, Obj(<< >>))
    /\ dataInit

partsNext ==
    /\ UNCHANGED part
    /\ \/ part = "routes" /\ RouteNext /\ UNCHANGED dataVars
       \/ part = "server" /\ dataNext /\ UNCHANGED routeVars

partsSpec == partsInit /\ [][partsNext]_partsVars
=============================================================================
