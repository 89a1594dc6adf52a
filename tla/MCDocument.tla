----------------------------- MODULE MCDocument -----------------------------
(* Instances of Document for TLC.                                          *)
EXTENDS Document, TLC

Field(at, container) ==
    [at |-> at, exported |-> TRUE, isNode |-> TRUE, skip |-> FALSE,
     container |-> container, key |-> "string"]

\* The documents: a node with a Map beside fields the parser leaves out, a node
\* with a List, nodes within a node.
Documents ==
    {{Field(<<"a">>, "node"), Field(<<"a", "m">>, "map"),
      [Field(<<"x">>, "map") EXCEPT !.skip = TRUE, !.key = "float"],
      [Field(<<"y">>, "node") EXCEPT !.exported = FALSE], Field(<<"y", "l">>, "list")},
     {Field(<<"a">>, "node"), Field(<<"a", "l">>, "list")},
     {Field(<<"a">>, "node"), Field(<<"a", "b">>, "node"), Field(<<"a", "b", "c">>, "node"),
      Field(<<"d">>, "node")}}

\* With the types that Register or Init refuses: no root, a key that cannot be
\* part of a path, a Map at the top.
Types ==
    [root : {TRUE}, fields : Documents]
        \cup {[root |-> FALSE, fields |-> {Field(<<"a">>, "node")}],
              [root |-> TRUE,
               fields |-> {Field(<<"a">>, "node"),
                           [Field(<<"a", "m">>, "map") EXCEPT !.key = "float"]}],
              [root |-> TRUE, fields |-> {Field(<<"a">>, "node"), Field(<<"m">>, "map")}]}

\* No definition tells two keys or two values apart.
DocumentSymmetry == Permutations(Key) \cup Permutations(Val)
=============================================================================
