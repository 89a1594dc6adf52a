------------------------------- MODULE Document -------------------------------
(***************************************************************************)
(* The document model of services/common/repository/dbmodel/md: a struct   *)
(* whose fields are Nodes, Maps and Lists of Nodes is kept in memory, and  *)
(* the sub-documents that changed are collected as paths for one $set.     *)
(*                                                                         *)
(* A path is the sequence of its segments; keys hold no dot.  A struct     *)
(* type is the set of its fields and of the fields of the structs they     *)
(* hold, each with its path; a document is the set of its leaves, each a   *)
(* path and a value.  Nodes are objects of a heap, because Save stores a   *)
(* reference; an object is named by the path it was given, <<>> without    *)
(* init, and a number.  One document is modelled, of a type whose Maps and *)
(* Lists hold plain data.  The package offers no write to MongoDB: Flush   *)
(* is what the comment on Save expects of its caller.                      *)
(***************************************************************************)
EXTENDS Naturals, FiniteSets, Sequences

CONSTANTS
    Type,     \* struct types a caller may register
    Key,      \* keys of Maps
    Val,      \* values of a node
    MaxLen,   \* bound on the length of a List
    Nil       \* the nil pointer

\* strings.HasPrefix of a path and another with a dot after it, or the same path.
HasPrefix(path, p) == Len(p) <= Len(path) /\ \A i \in DOMAIN p : path[i] = p[i]

Below(path, p) == HasPrefix(path, p) /\ path # p

ASSUME DocumentAssumption == MaxLen \in Nat /\ IsFiniteSet(Key)

\* The fields of a struct have different names, and the elements of a Map or a
\* List have no fields that are Nodes.
ASSUME TypeAssumption ==
    \A t \in Type :
        /\ IsFiniteSet(t.fields)
        /\ \A f \in t.fields : f.at \in Seq(STRING) /\ f.at # <<>>
        /\ \A f, g \in t.fields : f.at = g.at => f = g
        /\ \A f, g \in t.fields : Below(g.at, f.at) => f.container = "node"

ASSUME NilAssumption == Nil \notin [path : Seq(STRING \cup Key \cup Nat), n : Nat]

VARIABLES
    stage,    \* "new", "registered", "live", or "panic"
    schema,   \* GlobalSchemaManager's entry for the type
    heap,     \* the data of every node that is referred to
    node,     \* plain node path -> its object
    map,      \* Map path -> key -> object or Nil
    list,     \* List path -> its objects
    dirty,    \* NodeRoot.dirtyNode: path -> the object whose data it refers to
    db,       \* the stored document: its leaves
    unsaved   \* history variable: paths changed without a Save

docVars == <<stage, schema, heap, node, map, list, dirty, db, unsaved>>

-----------------------------------------------------------------------------
(* Schemas *)

\* checkMapKey
KeyAllowed(f) == f.key \in {"string", "int"}

\* A field becomes a node when it is exported, a Node, Map or List, and not
\* skipped.
IsNodeField(f) == f.exported /\ f.isNode /\ ~f.skip

\* The fields that parseStructField gets to: it goes into the structs of nodes.
NodeFields(t) == {f \in t.fields : \A g \in t.fields : HasPrefix(f.at, g.at) => IsNodeField(g)}

\* ParseSchema: a type needs a NodeRoot field, and Maps keys of a basic kind.
ParseSchema(t) == t.root /\ \A f \in NodeFields(t) : f.container = "map" => KeyAllowed(f)

\* The paths of a container kind, as the nested schemas name them.
PathsOf(kind) == {f.at : f \in {g \in NodeFields(schema) : g.container = kind}}

Plain == PathsOf("node")
Maps == PathsOf("map")
Lists == PathsOf("list")

\* Register panics when the type cannot be parsed.
Register(t) ==
    /\ stage = "new"
    /\ \/ ParseSchema(t) /\ stage' = "registered" /\ schema' = t
       \/ ~ParseSchema(t) /\ stage' = "panic" /\ UNCHANGED schema
    /\ UNCHANGED <<heap, node, map, list, dirty, db, unsaved>>

-----------------------------------------------------------------------------
(* The document as leaves *)

Leaf(at, val) == [at |-> at, val |-> val]

MapLeaves(m) == {Leaf(Append(m, k), heap[map[m][k]]) : k \in {j \in Key : map[m][j] # Nil}}
ListLeaves(l) == {Leaf(Append(l, i), heap[list[l][i]]) : i \in DOMAIN list[l]}

\* The document in memory, every element where its container holds it.
Image ==
    {Leaf(p, heap[node[p]]) : p \in Plain}
        \cup (UNION {MapLeaves(m) : m \in Maps})
        \cup (UNION {ListLeaves(l) : l \in Lists})

Under(p, leaves) == {x \in leaves : HasPrefix(x.at, p)}

\* What $set writes for a dirty path: the data behind the reference, with the
\* Maps and Lists it holds.
Written(p) == IF p \in Plain THEN Under(p, Image) ELSE {Leaf(p, heap[dirty[p]])}

\* The stored document after $set of DirtyData; a List with a missing index
\* stands for one that MongoDB filled with null.
Updated ==
    (db \ UNION {Under(p, db) : p \in DOMAIN dirty}) \cup UNION {Written(p) : p \in DOMAIN dirty}

-----------------------------------------------------------------------------
(* Dirty paths *)

\* Mutant of AddDirty: paths below the new one are kept.
AddDirtyKeeps(path, o) ==
    IF \E p \in DOMAIN dirty : Below(path, p) THEN dirty
    ELSE [p \in DOMAIN dirty \cup {path} |-> IF p = path THEN o ELSE dirty[p]]

\* Mutant of AddDirty: a path that is dirty already keeps its old data.
AddDirtyOnce(path, o) ==
    IF \E p \in DOMAIN dirty : HasPrefix(path, p) THEN dirty
    ELSE [p \in {q \in DOMAIN dirty : ~HasPrefix(q, path)} \cup {path} |->
             IF p = path THEN o ELSE dirty[p]]

\* addDirty: nothing to do below a dirty path, and nothing stays below a new one.
AddDirty(path, o) ==
    IF \E p \in DOMAIN dirty : Below(path, p) THEN dirty
    ELSE [p \in {q \in DOMAIN dirty : ~HasPrefix(q, path)} \cup {path} |->
             IF p = path THEN o ELSE dirty[p]]

ResetDirty == dirty' = [p \in {} |-> Nil]

Held ==
    {node[p] : p \in DOMAIN node}
        \cup (UNION {{map[m][k] : k \in {j \in Key : map[m][j] # Nil}} : m \in DOMAIN map})
        \cup (UNION {{list[l][i] : i \in DOMAIN list[l]} : l \in DOMAIN list})

\* The nodes that the document or a dirty path refers to.
Used == Held \cup {dirty[p] : p \in DOMAIN dirty}

\* The heap after a step, without what nothing refers to any more; and with a
\* new node.
Keep == heap' = [o \in Used' |-> heap[o]]
KeepWith(new, v) == heap' = [o \in Used' |-> IF o = new THEN v ELSE heap[o]]

\* initNode of Map and List: the path of a node put into them.
InitNode(path) == path

\* NewNode, and its initialisation for a place.
NewNode(at) ==
    LET named(n) == [path |-> InitNode(at), n |-> n]
    IN  named(CHOOSE n \in 0 .. Cardinality(Used) : named(n) \notin Used)

-----------------------------------------------------------------------------
(* Node *)

Idle == UNCHANGED <<stage, schema>>

\* A caller changes the data of a node.
Change(o, at, v) ==
    /\ stage = "live"
    /\ heap' = [heap EXCEPT ![o] = v]
    /\ unsaved' = unsaved \cup {at}
    /\ Idle /\ UNCHANGED <<node, map, list, dirty, db>>

\* Save of a plain node reports all that is below it.
SaveNode(p) ==
    /\ stage = "live"
    /\ dirty' = AddDirty(node[p].path, node[p])
    /\ unsaved' = {u \in unsaved : ~HasPrefix(u, p)}
    /\ Idle /\ UNCHANGED <<node, map, list, db>>
    /\ Keep

\* Save of an element.  In a List the path may be another element's.
SaveElement(o, container, at) ==
    /\ stage = "live"
    /\ dirty' = AddDirty(o.path, o)
    /\ unsaved' = IF o.path = at THEN unsaved \ {at} ELSE unsaved \cup {container}
    /\ Idle /\ UNCHANGED <<node, map, list, db>>
    /\ Keep

-----------------------------------------------------------------------------
(* Map *)

Set(m, k, v) ==
    LET o == NewNode(Append(m, k))
    IN  /\ stage = "live"
        /\ map' = [map EXCEPT ![m][k] = o]
        /\ dirty' = AddDirty(o.path, o)
        /\ unsaved' = unsaved \ {Append(m, k)}
        /\ Idle /\ UNCHANGED <<node, list, db>>
        /\ KeepWith(o, v)

\* Delete and Clear change the Map and report nothing.
DeleteKey(m, k) ==
    /\ stage = "live"
    /\ map[m][k] # Nil
    /\ map' = [map EXCEPT ![m][k] = Nil]
    /\ unsaved' = unsaved \cup {Append(m, k)}
    /\ Idle /\ UNCHANGED <<node, list, dirty, db>>
    /\ Keep

Clear(m) ==
    /\ stage = "live"
    /\ \E k \in Key : map[m][k] # Nil
    /\ map' = [map EXCEPT ![m] = [k \in Key |-> Nil]]
    /\ unsaved' = unsaved \cup {Append(m, k) : k \in {j \in Key : map[m][j] # Nil}}
    /\ Idle /\ UNCHANGED <<node, list, dirty, db>>
    /\ Keep

-----------------------------------------------------------------------------
(* List *)

\* A new node at an index, counted from 1, which it reports.
Put(l, i, v, longer) ==
    LET o == NewNode(Append(l, i))
    IN  /\ stage = "live"
        /\ list' = [list EXCEPT ![l] = IF longer THEN Append(@, o) ELSE [@ EXCEPT ![i] = o]]
        /\ dirty' = AddDirty(o.path, o)
        /\ unsaved' = unsaved \ {Append(l, i)}
        /\ Idle /\ UNCHANGED <<node, map, db>>
        /\ KeepWith(o, v)

AppendData(l, v) == Len(list[l]) < MaxLen /\ Put(l, Len(list[l]) + 1, v, TRUE)

Update(l, i, v) == i \in DOMAIN list[l] /\ Put(l, i, v, FALSE)

\* DeleteMore, and Delete with one index: the highest index goes first, later
\* elements move up, keep their paths, and nothing is reported.
DeleteMore(l, idxs) ==
    LET rest == DOMAIN list[l] \ idxs
    IN  /\ stage = "live"
        /\ idxs # {} /\ idxs \subseteq DOMAIN list[l]
        /\ \E kept \in [1 .. Cardinality(rest) -> rest] :
              /\ \A i, j \in DOMAIN kept : i < j => kept[i] < kept[j]
              /\ list' = [list EXCEPT ![l] = [i \in DOMAIN kept |-> @[kept[i]]]]
        /\ unsaved' = unsaved \cup {l}
        /\ Idle /\ UNCHANGED <<node, map, dirty, db>>
        /\ Keep

-----------------------------------------------------------------------------
(* Loading and storing *)

\* The caller writes DirtyData and starts over.
Flush ==
    /\ stage = "live"
    /\ DOMAIN dirty # {}
    /\ db' = Updated
    /\ ResetDirty
    /\ Idle /\ UNCHANGED <<node, map, list, unsaved>>
    /\ Keep

\* A document of the type is stored, with empty Maps and Lists.
Insert ==
    /\ stage = "registered" /\ db = {}
    /\ \E val \in [Plain -> Val] : db' = {Leaf(p, val[p]) : p \in Plain}
    /\ UNCHANGED <<stage, schema, heap, node, map, list, dirty, unsaved>>

At(l) == {x \in db : Below(x.at, l)}

\* UnmarshalBSONValue of a List fails on the null of a missing index.
Decodes == \A l \in Lists : {x.at : x \in At(l)} = {Append(l, i) : i \in 1 .. Cardinality(At(l))}

\* Init panics when the root itself holds a Map or a List: its parent must be
\* a Node.
RootHoldsNodes == \A p \in Maps \cup Lists : Len(p) > 1

\* Init, setupNode, initChild: the node of a leaf and its path.
Loaded(at) == [path |-> at, n |-> 0]

\* UnmarshalBSONValue of a Map: a node for every key that is stored.
UnmarshalMap(m) ==
    [k \in Key |-> IF \E x \in db : x.at = Append(m, k) THEN Loaded(Append(m, k)) ELSE Nil]

\* The document is read into new nodes and Init2 gives them their paths.
Load ==
    /\ stage \in {"registered", "live"} /\ db # {}
    /\ Decodes
    /\ \/ /\ RootHoldsNodes
          /\ stage' = "live"
          /\ node' = [p \in Plain |-> Loaded(p)]
          /\ map' = [m \in Maps |-> UnmarshalMap(m)]
          /\ list' = [l \in Lists |-> [i \in 1 .. Cardinality(At(l)) |-> Loaded(Append(l, i))]]
          /\ ResetDirty
          /\ unsaved' = {}
          /\ heap' = [o \in Used' |-> (CHOOSE x \in db : x.at = o.path).val]
       \/ /\ ~RootHoldsNodes
          /\ stage' = "panic"
          /\ UNCHANGED <<heap, node, map, list, dirty, unsaved>>
    /\ UNCHANGED <<schema, db>>

-----------------------------------------------------------------------------

DocInit ==
    /\ stage = "new"
    /\ schema = [root |-> FALSE, fields |-> {}]
    /\ heap = <<>>
    /\ node = <<>> /\ map = <<>> /\ list = <<>>
    /\ dirty = [p \in {} |-> Nil]
    /\ db = {}
    /\ unsaved = {}

NodeStep == \E p \in DOMAIN node : SaveNode(p) \/ \E v \in Val : Change(node[p], p, v)

MapStep ==
    \E m \in DOMAIN map, k \in Key :
        \/ \E v \in Val : Set(m, k, v)
        \/ DeleteKey(m, k)
        \/ Clear(m)
        \/ /\ map[m][k] # Nil
           /\ \/ SaveElement(map[m][k], m, Append(m, k))
              \/ \E v \in Val : Change(map[m][k], Append(m, k), v)

ListStep ==
    \E l \in DOMAIN list :
        \/ \E v \in Val : AppendData(l, v)
        \/ \E idxs \in SUBSET DOMAIN list[l] : DeleteMore(l, idxs)
        \/ \E i \in DOMAIN list[l] :
              \/ SaveElement(list[l][i], l, Append(l, i))
              \/ \E v \in Val : Update(l, i, v) \/ Change(list[l][i], Append(l, i), v)

DocNext ==
    \/ \E t \in Type : Register(t)
    \/ Insert \/ Load \/ Flush
    \/ NodeStep \/ MapStep \/ ListStep

DocSpec == DocInit /\ [][DocNext]_docVars

-----------------------------------------------------------------------------
(* Properties *)

\* Every node a live document holds has been initialised, so that Save finds
\* its parent: a Map's nodes under their keys, a List's nodes under an index
\* of the List (list.go and map.go say the key and the index).
DocTypeOK ==
    /\ stage \in {"new", "registered", "live", "panic"}
    /\ DOMAIN heap = Used /\ \A o \in Used : heap[o] \in Val
    /\ stage = "live" =>
          /\ RootHoldsNodes
          /\ \A p \in Plain : node[p].path = p
          /\ \A m \in Maps, k \in Key : map[m][k] # Nil => map[m][k].path = Append(m, k)
          /\ \A l \in Lists : \A i \in DOMAIN list[l] :
                \E j \in i .. MaxLen : list[l][i].path = Append(l, j)

\* MongoDB refuses a $set whose paths overlap: whatever is saved in whatever
\* order, no dirty path lies below another.
DirtyPathsDisjoint == \A p, q \in DOMAIN dirty : ~Below(q, p)

\* Left out of the comparison: what was changed without a Save, and a List
\* that lost elements until its node is saved.
Excused(x) == x.at \in unsaved \/ \E l \in Lists \cap unsaved : HasPrefix(x.at, l)

\* One write of the dirty paths stores every saved change: apart from what was
\* not saved, the stored document becomes the one in memory, although paths
\* have swallowed each other and data has changed since it was reported.
SavedIsStored ==
    stage = "live" => {x \in Updated : ~Excused(x)} = {x \in Image : ~Excused(x)}
=============================================================================
