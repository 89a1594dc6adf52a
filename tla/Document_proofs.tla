---------------------------- MODULE Document_proofs ----------------------------
(***************************************************************************)
(* Proofs about Document, for any struct types, keys, values and lengths   *)
(* of Lists: dirty paths never overlap, and one write of them stores every *)
(* saved change.                                                           *)
(***************************************************************************)
EXTENDS Document, FiniteSetTheorems, TLAPS

\* What a path is made of.
Segment == STRING \cup Key \cup Nat

\* To be a prefix is a partial order on paths.
LEMMA PrefixOrder ==
    ASSUME NEW S, NEW p \in Seq(S), NEW q \in Seq(S), NEW r \in Seq(S)
    PROVE  /\ HasPrefix(p, p)
           /\ HasPrefix(p, q) /\ HasPrefix(q, r) => HasPrefix(p, r)
           /\ HasPrefix(p, q) /\ HasPrefix(q, p) => p = q
<1>1. HasPrefix(p, p)
  BY DEF HasPrefix
<1>2. ASSUME HasPrefix(p, q), HasPrefix(q, r) PROVE HasPrefix(p, r)
  <2>1. Len(r) <= Len(q) /\ Len(q) <= Len(p)
    BY <1>2 DEF HasPrefix
  <2>2. \A i \in DOMAIN r : i \in DOMAIN q
    BY <2>1
  <2> QED BY <1>2, <2>1, <2>2 DEF HasPrefix
<1>3. ASSUME HasPrefix(p, q), HasPrefix(q, p) PROVE p = q
  <2>1. Len(p) = Len(q) /\ \A i \in 1 .. Len(p) : p[i] = q[i]
    BY <1>3 DEF HasPrefix
  <2> QED BY <2>1
<1> QED BY <1>1, <1>2, <1>3

\* Two prefixes of one path are comparable.
LEMMA PrefixesCompare ==
    ASSUME NEW S, NEW p \in Seq(S), NEW q \in Seq(S), NEW r \in Seq(S),
           HasPrefix(p, q), HasPrefix(p, r)
    PROVE  HasPrefix(q, r) \/ HasPrefix(r, q)
<1>1. CASE Len(q) <= Len(r)
  <2>1. \A i \in DOMAIN q : i \in DOMAIN r /\ p[i] = q[i] /\ p[i] = r[i]
    BY <1>1 DEF HasPrefix
  <2> QED BY <1>1, <2>1 DEF HasPrefix
<1>2. CASE Len(r) <= Len(q)
  <2>1. \A i \in DOMAIN r : i \in DOMAIN q /\ p[i] = q[i] /\ p[i] = r[i]
    BY <1>2 DEF HasPrefix
  <2> QED BY <1>2, <2>1 DEF HasPrefix
<1> QED BY <1>1, <1>2

\* An element's path, and its prefixes.
LEMMA PrefixOfElement ==
    ASSUME NEW S, NEW c \in Seq(S), NEW s \in S, NEW q \in Seq(S)
    PROVE  /\ Append(c, s) \in Seq(S)
           /\ HasPrefix(Append(c, s), c) /\ Append(c, s) # c
           /\ HasPrefix(Append(c, s), q) => q = Append(c, s) \/ HasPrefix(c, q)
<1> DEFINE e == Append(c, s)
<1>1. /\ e \in Seq(S) /\ Len(e) = Len(c) + 1 /\ Len(c) \in Nat
      /\ \A i \in 1 .. Len(c) : e[i] = c[i]
  OBVIOUS
<1> HIDE DEF e
<1>2. HasPrefix(e, c) /\ e # c
  BY <1>1, SMTT(20) DEF HasPrefix
<1>3. ASSUME HasPrefix(e, q) PROVE q = e \/ HasPrefix(c, q)
  <2>1. CASE Len(q) = Len(e)
    <3>1. HasPrefix(q, e)
      BY <1>1, <1>3, <2>1 DEF HasPrefix
    <3> QED BY <1>1, <1>3, <3>1, PrefixOrder
  <2>2. CASE Len(q) # Len(e)
    <3>1. Len(q) <= Len(c) /\ \A i \in DOMAIN q : i \in 1 .. Len(c)
      BY <1>1, <1>3, <2>2 DEF HasPrefix
    <3> QED BY <1>1, <1>3, <3>1 DEF HasPrefix
  <2> QED BY <2>1, <2>2
<1> QED BY <1>1, <1>2, <1>3 DEF e

\* An element's path gives its container's path and its key or index.
LEMMA AppendInjective ==
    ASSUME NEW S, NEW c \in Seq(S), NEW s \in S, NEW d \in Seq(S), NEW t \in S,
           Append(c, s) = Append(d, t)
    PROVE  c = d /\ s = t
<1>1. /\ Len(Append(c, s)) = Len(c) + 1 /\ Len(Append(d, t)) = Len(d) + 1
      /\ \A i \in 1 .. Len(c) : Append(c, s)[i] = c[i]
      /\ \A i \in 1 .. Len(d) : Append(d, t)[i] = d[i]
      /\ Append(c, s)[Len(c) + 1] = s /\ Append(d, t)[Len(d) + 1] = t
      /\ Len(c) \in Nat /\ Len(d) \in Nat
  OBVIOUS
<1>2. Len(c) = Len(d)
  BY <1>1
<1> QED BY <1>1, <1>2

\* The places of a document: its plain nodes, and the elements its Maps and
\* Lists may have.
MapPlaces == {Append(m, k) : m \in Maps, k \in Key}
ListPlaces == {Append(l, i) : l \in Lists, i \in 1 .. MaxLen}
Place == Plain \cup MapPlaces \cup ListPlaces

\* What the fields of a struct type make of its paths: a Map or a List is no
\* plain node, and nothing of the schema lies below it.
LEMMA SchemaPaths ==
    ASSUME schema \in Type
    PROVE  /\ Plain \subseteq Seq(Segment) /\ Maps \subseteq Seq(Segment)
           /\ Lists \subseteq Seq(Segment)
           /\ \A m \in Maps : m \notin Plain /\ m \notin Lists
           /\ \A l \in Lists : l \notin Plain
           /\ \A c \in Maps \cup Lists, q \in Plain \cup Maps \cup Lists : ~Below(q, c)
<1>1. \A p \in Plain \cup Maps \cup Lists : \E f \in schema.fields : p = f.at
  BY DEF Plain, Maps, Lists, PathsOf, NodeFields
<1>2. \A f \in schema.fields : f.at \in Seq(Segment)
  <2>1. \A p \in Seq(STRING) : p \in Seq(Segment)
    BY DEF Segment
  <2> QED BY <2>1, TypeAssumption
<1>3. ASSUME NEW kind, NEW p \in PathsOf(kind)
      PROVE  \E f \in schema.fields : p = f.at /\ f.container = kind
  BY <1>3 DEF PathsOf, NodeFields
<1>4. ASSUME NEW p, NEW kind, NEW other, p \in PathsOf(kind), p \in PathsOf(other)
      PROVE  kind = other
  BY <1>3, <1>4, TypeAssumption
<1>5. ASSUME NEW c \in Maps \cup Lists, NEW q \in Plain \cup Maps \cup Lists, Below(q, c)
      PROVE  FALSE
  <2>1. PICK f \in schema.fields : c = f.at /\ f.container # "node"
    BY <1>3 DEF Maps, Lists
  <2>2. PICK g \in schema.fields : q = g.at
    BY <1>1
  <2> QED BY <1>5, <2>1, <2>2, TypeAssumption
<1>6. Plain \cup Maps \cup Lists \subseteq Seq(Segment)
  BY <1>1, <1>2
<1>7. \A m \in Maps : m \notin Plain /\ m \notin Lists
  BY <1>4 DEF Plain, Maps, Lists
<1>8. \A l \in Lists : l \notin Plain
  BY <1>4 DEF Plain, Lists
<1> QED BY <1>5, <1>6, <1>7, <1>8

\* Keys and indexes are segments of paths.
LEMMA Segments == Key \subseteq Segment /\ 1 .. MaxLen \subseteq Segment /\ Nat \subseteq Segment
BY DocumentAssumption DEF Segment

\* Every place is a path.
LEMMA PlacePaths == ASSUME schema \in Type PROVE Place \subseteq Seq(Segment)
<1>1. \A m \in Maps, k \in Key : Append(m, k) \in Seq(Segment)
  BY SchemaPaths, Segments
<1>2. \A l \in Lists, i \in 1 .. MaxLen : Append(l, i) \in Seq(Segment)
  BY SchemaPaths, Segments
<1>3. Plain \subseteq Seq(Segment)
  BY SchemaPaths
<1> QED BY <1>1, <1>2, <1>3, SMTT(20) DEF Place, MapPlaces, ListPlaces

\* A place is a plain node or an element of a Map or a List.
LEMMA PlaceCases ==
    ASSUME schema \in Type, NEW q \in Place
    PROVE  q \in Plain \/ \E c \in Maps \cup Lists, s \in Segment : q = Append(c, s)
<1>1. CASE q \in MapPlaces
  BY <1>1, Segments DEF MapPlaces
<1>2. CASE q \in ListPlaces
  BY <1>2, Segments DEF ListPlaces
<1> QED BY <1>1, <1>2 DEF Place

\* An element is neither a path of the schema nor above one.
LEMMA ElementIsNoField ==
    ASSUME schema \in Type, NEW c \in Maps \cup Lists, NEW s \in Segment,
           NEW q \in Plain \cup Maps \cup Lists
    PROVE  ~HasPrefix(q, Append(c, s)) /\ q # Append(c, s)
<1>1. c \in Seq(Segment) /\ q \in Seq(Segment) /\ ~Below(q, c)
  BY SchemaPaths
<1>2. Append(c, s) \in Seq(Segment) /\ HasPrefix(Append(c, s), c) /\ Append(c, s) # c
  BY <1>1, PrefixOfElement
<1>3. ASSUME HasPrefix(q, Append(c, s)) PROVE FALSE
  <2>1. HasPrefix(q, c)
    BY <1>1, <1>2, <1>3, PrefixOrder, Zenon
  <2>2. q = c
    BY <1>1, <2>1 DEF Below
  <2> QED BY <1>1, <1>2, <1>3, <2>2, PrefixOrder, Zenon
<1>4. q # Append(c, s)
  BY <1>1, <1>2, Zenon DEF Below
<1> QED BY <1>3, <1>4

\* Nothing in a document lies below an element of a Map or a List.
LEMMA ElementIsAlone ==
    ASSUME schema \in Type, NEW c \in Maps \cup Lists, NEW s \in Segment, NEW q \in Place,
           HasPrefix(q, Append(c, s))
    PROVE  q = Append(c, s)
<1>1. c \in Seq(Segment) /\ Append(c, s) \in Seq(Segment)
  BY SchemaPaths, PrefixOfElement
<1>2. CASE q \in Plain
  BY <1>2, ElementIsNoField
<1>3. CASE \E d \in Maps \cup Lists, t \in Segment : q = Append(d, t)
  <2>1. PICK d \in Maps \cup Lists, t \in Segment : q = Append(d, t)
    BY <1>3
  <2>2. d \in Seq(Segment)
    BY SchemaPaths
  <2>3. Append(c, s) = q \/ HasPrefix(d, Append(c, s))
    BY <1>1, <2>1, <2>2, PrefixOfElement, Zenon
  <2> QED BY <2>3, ElementIsNoField
<1> QED BY <1>2, <1>3, PlaceCases

\* Below a List there are its elements.
LEMMA BelowList ==
    ASSUME schema \in Type, NEW l \in Lists, NEW q \in Place, HasPrefix(q, l)
    PROVE  \E i \in 1 .. MaxLen : q = Append(l, i)
<1>1. l \in Seq(Segment) /\ l \notin Plain
  BY SchemaPaths
<1>2. CASE q \in Plain
  BY <1>1, <1>2, SchemaPaths DEF Below
<1>3. ASSUME NEW c \in Maps \cup Lists, NEW s \in Segment, q = Append(c, s) PROVE c = l
  <2>1. c \in Seq(Segment) /\ ~Below(c, l)
    BY SchemaPaths
  <2>2. l = Append(c, s) \/ HasPrefix(c, l)
    BY <1>1, <1>3, <2>1, PrefixOfElement
  <2>3. l # Append(c, s)
    BY ElementIsNoField
  <2> QED BY <2>1, <2>2, <2>3 DEF Below
<1>4. CASE q \in MapPlaces
  <2>1. PICK m \in Maps, k \in Key : q = Append(m, k)
    BY <1>4 DEF MapPlaces
  <2> QED BY <1>3, <2>1, Segments, SchemaPaths
<1>5. CASE q \in ListPlaces
  <2>1. PICK d \in Lists, i \in 1 .. MaxLen : q = Append(d, i)
    BY <1>5 DEF ListPlaces
  <2> QED BY <1>3, <2>1, Segments
<1> QED BY <1>2, <1>4, <1>5 DEF Place

\* Elements of different containers, or under different keys, are different.
LEMMA ElementsDiffer ==
    ASSUME schema \in Type, NEW c \in Maps \cup Lists, NEW d \in Maps \cup Lists,
           NEW s \in Segment, NEW t \in Segment, Append(c, s) = Append(d, t)
    PROVE  c = d /\ s = t
<1>1. c \in Seq(Segment) /\ d \in Seq(Segment)
  BY SchemaPaths
<1> QED BY <1>1, AppendInjective

\* The values of a function on a finite set are finitely many.
LEMMA ImageFinite ==
    ASSUME NEW S, IsFiniteSet(S), NEW f, DOMAIN f = S
    PROVE  IsFiniteSet({f[x] : x \in S})
<1> DEFINE T == {f[x] : x \in S}
<1> DEFINE g == [x \in S |-> f[x]]
<1>1. g \in [S -> T] /\ \A t \in T : \E x \in S : g[x] = t
  OBVIOUS
<1>2. g \in Surjection(S, T)
  BY <1>1 DEF Surjection
<1> QED BY <1>2, FS_Surjection

\* A struct type has finitely many paths.
LEMMA PathsFinite == ASSUME schema \in Type, NEW kind PROVE IsFiniteSet(PathsOf(kind))
<1> DEFINE F == {g \in NodeFields(schema) : g.container = kind}
           f == [g \in F |-> g.at]
<1>1. F \in SUBSET schema.fields /\ IsFiniteSet(schema.fields)
  BY TypeAssumption DEF NodeFields
<1>2. IsFiniteSet(F)
  BY <1>1, FS_Subset
<1>3. DOMAIN f = F /\ {f[x] : x \in F} = PathsOf(kind)
  BY Zenon DEF PathsOf
<1> HIDE DEF F, f
<1>4. IsFiniteSet({f[x] : x \in F})
  BY <1>2, <1>3, ImageFinite
<1> QED BY <1>3, <1>4

\* Finitely many containers with finitely many keys have finitely many
\* elements.
LEMMA ElementsFinite ==
    ASSUME NEW S, IsFiniteSet(S), NEW T, IsFiniteSet(T)
    PROVE  \E R : IsFiniteSet(R) /\ \A x \in S, y \in T : Append(x, y) \in R
<1> DEFINE f == [z \in S \X T |-> Append(z[1], z[2])]
<1>1. IsFiniteSet(S \X T)
  BY FS_Product
<1>2. DOMAIN f = S \X T /\ \A x \in S, y \in T : f[<<x, y>>] = Append(x, y)
  OBVIOUS
<1> HIDE DEF f
<1>3. IsFiniteSet({f[z] : z \in S \X T})
  BY <1>1, <1>2, ImageFinite
<1>4. ASSUME NEW x \in S, NEW y \in T PROVE Append(x, y) \in {f[z] : z \in S \X T}
  <2>1. <<x, y>> \in S \X T
    OBVIOUS
  <2> QED BY <1>2, <2>1
<1> QED BY <1>3, <1>4, Zenon

\* A document has finitely many places.
LEMMA PlaceFinite == ASSUME schema \in Type PROVE IsFiniteSet(Place)
<1>1. IsFiniteSet(Plain) /\ IsFiniteSet(Maps) /\ IsFiniteSet(Lists)
  BY PathsFinite DEF Plain, Maps, Lists
<1>2. IsFiniteSet(1 .. MaxLen) /\ IsFiniteSet(Key)
  BY DocumentAssumption, FS_Interval
<1>3. IsFiniteSet(MapPlaces)
  <2>1. PICK R : IsFiniteSet(R) /\ \A x \in Maps, y \in Key : Append(x, y) \in R
    BY <1>1, <1>2, ElementsFinite, Zenon
  <2>2. MapPlaces \in SUBSET R
    <3>1. ASSUME NEW r \in MapPlaces PROVE r \in R
      <4>1. PICK m \in Maps, k \in Key : r = Append(m, k)
        BY DEF MapPlaces
      <4> QED BY <2>1, <4>1
    <3> QED BY <3>1
  <2> QED BY <2>1, <2>2, FS_Subset
<1>4. IsFiniteSet(ListPlaces)
  <2>1. PICK R : IsFiniteSet(R) /\ \A x \in Lists, y \in 1 .. MaxLen : Append(x, y) \in R
    BY <1>1, <1>2, ElementsFinite, Zenon
  <2>2. ListPlaces \in SUBSET R
    <3>1. ASSUME NEW r \in ListPlaces PROVE r \in R
      <4>1. PICK l \in Lists, i \in 1 .. MaxLen : r = Append(l, i)
        BY DEF ListPlaces
      <4> QED BY <2>1, <4>1
    <3> QED BY <3>1
  <2> QED BY <2>1, <2>2, FS_Subset
<1> QED BY <1>1, <1>3, <1>4, FS_Union, Zenon DEF Place

\* The nodes there may be.
Object == [path : Seq(Segment), n : Nat]

\* A node is never the nil pointer.
LEMMA NilIsNoObject == \A o \in Object : o # Nil
BY NilAssumption DEF Object, Segment

\* NewNode makes a node that nothing refers to.
LEMMA NewNodeIsNew ==
    ASSUME NEW at \in Seq(Segment), IsFiniteSet(Used)
    PROVE  NewNode(at) \in Object /\ NewNode(at).path = at /\ NewNode(at) \notin Used
<1> DEFINE C == Cardinality(Used)
           named(n) == [path |-> at, n |-> n]
           f == [n \in 0 .. C |-> named(n)]
<1>1. C \in Nat
  BY FS_CardinalityType
<1>2. IsFiniteSet(0 .. C) /\ Cardinality(0 .. C) = C + 1
  BY <1>1, FS_Interval
<1>3. \E n \in 0 .. C : named(n) \notin Used
  <2>1. SUFFICES ASSUME \A n \in 0 .. C : named(n) \in Used PROVE FALSE
    OBVIOUS
  <2>2. f \in [0 .. C -> Used]
    BY <2>1
  <2>3. C < C + 1
    BY <1>1
  <2> HIDE DEF f
  <2>4. PICK x, y \in 0 .. C : x # y /\ f[x] = f[y]
    BY <1>2, <2>2, <2>3, FS_PigeonHole, Zenon
  <2>5. named(x) = named(y)
    BY <2>4 DEF f
  <2> QED BY <2>4, <2>5
<1> DEFINE n == CHOOSE n \in 0 .. C : named(n) \notin Used
<1>4. n \in 0 .. C /\ named(n) \notin Used
  BY <1>3
<1>5. NewNode(at) = named(n)
  BY DEF NewNode, InitNode
<1> HIDE DEF n
<1> QED BY <1>1, <1>4, <1>5 DEF Object

\* The document holds node o at place q.
InMap(q, o) == \E m \in Maps, k \in Key : q = Append(m, k) /\ o = map[m][k] /\ o # Nil
InList(q, o) == \E l \in Lists : \E i \in DOMAIN list[l] : q = Append(l, i) /\ o = list[l][i]
HeldAt(q, o) == (q \in Plain /\ o = node[q]) \/ InMap(q, o) \/ InList(q, o)

\* Changed without a Save; below a dirty path; neither.
ExcusedAt(q) == q \in unsaved \/ \E l \in Lists \cap unsaved : HasPrefix(q, l)
Covered(q) == \E p \in DOMAIN dirty : HasPrefix(q, p)
Clean(q) == ~ExcusedAt(q) /\ ~Covered(q)

\* The stored document has one leaf for each of its places.
Stored ==
    /\ \A x \in db : x.at \in Place /\ x = Leaf(x.at, x.val)
    /\ \A x, y \in db : x.at = y.at => x = y

Complete == \A p \in Plain : \E x \in db : x.at = p

\* Every node in the document has a path of its container, no node is in a
\* List twice.
ObjectsOK ==
    /\ DOMAIN node = Plain /\ DOMAIN map = Maps /\ DOMAIN list = Lists
    /\ \A p \in Plain : node[p].path = p
    /\ \A m \in Maps : DOMAIN map[m] = Key
    /\ \A m \in Maps, k \in Key : map[m][k] # Nil => map[m][k].path = Append(m, k)
    /\ \A l \in Lists : list[l] \in Seq(Object) /\ Len(list[l]) <= MaxLen
    /\ \A l \in Lists : \A i \in DOMAIN list[l] :
          \E j \in 1 .. MaxLen : list[l][i].path = Append(l, j)
    /\ \A l \in Lists : \A i, j \in DOMAIN list[l] : list[l][i] = list[l][j] => i = j

HeapOK == DOMAIN heap = Used /\ IsFiniteSet(Used)

\* A dirty element that is not excused refers to the node that is there.
DirtyOK ==
    /\ DOMAIN dirty \subseteq Place
    /\ \A q \in DOMAIN dirty \ Plain : ~ExcusedAt(q) => HeldAt(q, dirty[q])

\* What is clean is the same in memory and in the database.
SyncOK ==
    /\ \A x \in db : Clean(x.at) => x \in Image
    /\ \A x \in Image : Clean(x.at) => x \in db

LiveOK == Complete /\ ObjectsOK /\ HeapOK /\ DirtyOK /\ SyncOK

DocInv ==
    /\ DirtyPathsDisjoint
    /\ stage = "new" => db = {}
    /\ stage \in {"registered", "live"} => schema \in Type /\ Stored
    /\ stage = "registered" => db = {} \/ Complete
    /\ stage = "live" => LiveOK

-----------------------------------------------------------------------------

\* The nodes in the document, place by place.
LEMMA HeldIs ==
    \A o : o \in Held <=>
        \/ \E p \in DOMAIN node : o = node[p]
        \/ \E m \in DOMAIN map : \E k \in Key : map[m][k] # Nil /\ o = map[m][k]
        \/ \E l \in DOMAIN list : \E i \in DOMAIN list[l] : o = list[l][i]
<1> TAKE o
<1>1. o \in {node[p] : p \in DOMAIN node} <=> \E p \in DOMAIN node : o = node[p]
  OBVIOUS
<1> DEFINE M(m) == {map[m][k] : k \in {j \in Key : map[m][j] # Nil}}
           L(l) == {list[l][i] : i \in DOMAIN list[l]}
<1>2. /\ \A m : o \in M(m) <=> \E k \in Key : map[m][k] # Nil /\ o = map[m][k]
      /\ \A l : o \in L(l) <=> \E i \in DOMAIN list[l] : o = list[l][i]
  OBVIOUS
<1>3. Held = {node[p] : p \in DOMAIN node} \cup (UNION {M(m) : m \in DOMAIN map})
                 \cup (UNION {L(l) : l \in DOMAIN list})
  BY DEF Held
<1> HIDE DEF M, L
<1>4. /\ o \in UNION {M(m) : m \in DOMAIN map} <=> \E m \in DOMAIN map : o \in M(m)
      /\ o \in UNION {L(l) : l \in DOMAIN list} <=> \E l \in DOMAIN list : o \in L(l)
  OBVIOUS
<1>5. o \in Held <=> \/ o \in {node[p] : p \in DOMAIN node}
                     \/ \E m \in DOMAIN map : o \in M(m)
                     \/ \E l \in DOMAIN list : o \in L(l)
  BY <1>3, <1>4
<1> QED BY <1>1, <1>2, <1>5

\* The indexes of a List.
LEMMA ListIndexes ==
    ASSUME ObjectsOK, NEW l \in Lists
    PROVE  /\ DOMAIN list[l] = 1 .. Len(list[l]) /\ Len(list[l]) \in Nat
           /\ \A i \in DOMAIN list[l] : i \in 1 .. MaxLen /\ list[l][i] \in Object
<1>1. list[l] \in Seq(Object) /\ Len(list[l]) <= MaxLen
  BY DEF ObjectsOK
<1> QED BY <1>1, DocumentAssumption

\* What the document holds it holds at a place.
LEMMA HeldPlace ==
    ASSUME schema \in Type, ObjectsOK, NEW q, NEW o, HeldAt(q, o)
    PROVE  q \in Place /\ o \in Held
<1>1. CASE q \in Plain /\ o = node[q]
  BY <1>1, HeldIs DEF Place, ObjectsOK
<1>2. CASE InMap(q, o)
  <2>1. PICK m \in Maps, k \in Key : q = Append(m, k) /\ o = map[m][k] /\ o # Nil
    BY <1>2 DEF InMap
  <2>2. q \in Place
    BY <2>1 DEF Place, MapPlaces
  <2>3. m \in DOMAIN map
    BY DEF ObjectsOK
  <2> QED BY <2>1, <2>2, <2>3, HeldIs
<1>3. CASE InList(q, o)
  <2>1. PICK l \in Lists : \E i \in DOMAIN list[l] : q = Append(l, i) /\ o = list[l][i]
    BY <1>3 DEF InList
  <2>2. PICK i \in DOMAIN list[l] : q = Append(l, i) /\ o = list[l][i]
    BY <2>1
  <2>3. i \in 1 .. MaxLen
    BY ListIndexes
  <2>4. q \in Place
    BY <2>2, <2>3 DEF Place, ListPlaces
  <2>5. l \in DOMAIN list
    BY DEF ObjectsOK
  <2> QED BY <2>2, <2>4, <2>5, HeldIs
<1> QED BY <1>1, <1>2, <1>3 DEF HeldAt

\* What a place holds, by what the place is.
LEMMA AtPlain ==
    ASSUME schema \in Type, ObjectsOK, NEW q \in Plain, NEW o, HeldAt(q, o)
    PROVE  o = node[q]
<1>1. ~InMap(q, o)
  BY ElementIsNoField, Segments DEF InMap
<1>2. ~InList(q, o)
  <2>1. SUFFICES ASSUME NEW l \in Lists, NEW i \in DOMAIN list[l], q = Append(l, i) PROVE FALSE
    BY DEF InList
  <2>2. i \in Segment
    BY ListIndexes, Segments
  <2> QED BY <2>1, <2>2, ElementIsNoField, Zenon
<1> QED BY <1>1, <1>2 DEF HeldAt

\* What is at the place of a Map's key.
LEMMA AtKey ==
    ASSUME schema \in Type, ObjectsOK, NEW m \in Maps, NEW k \in Key, NEW o
    PROVE  HeldAt(Append(m, k), o) <=> o = map[m][k] /\ o # Nil
<1>1. k \in Segment
  BY Segments
<1>2. Append(m, k) \notin Plain
  BY <1>1, ElementIsNoField, Zenon
<1>3. InMap(Append(m, k), o) <=> o = map[m][k] /\ o # Nil
  <2>1. ASSUME NEW c \in Maps, NEW j \in Key, Append(m, k) = Append(c, j) PROVE c = m /\ j = k
    BY <2>1, Segments, ElementsDiffer
  <2> QED BY <2>1 DEF InMap
<1>4. ~InList(Append(m, k), o)
  <2>1. SUFFICES ASSUME NEW l \in Lists, NEW i \in DOMAIN list[l], Append(m, k) = Append(l, i)
                 PROVE  FALSE
    BY DEF InList
  <2>2. i \in Segment
    BY ListIndexes, Segments
  <2>3. m = l
    BY <1>1, <2>1, <2>2, ElementsDiffer
  <2> QED BY <2>3, SchemaPaths
<1> QED BY <1>2, <1>3, <1>4 DEF HeldAt

\* What is at the place of a List's index.
LEMMA AtIndex ==
    ASSUME schema \in Type, ObjectsOK, NEW l \in Lists, NEW i \in Nat, NEW o
    PROVE  HeldAt(Append(l, i), o) <=> i \in DOMAIN list[l] /\ o = list[l][i]
<1>1. i \in Segment
  BY Segments
<1>2. Append(l, i) \notin Plain
  BY <1>1, ElementIsNoField, Zenon
<1>3. InList(Append(l, i), o) <=> i \in DOMAIN list[l] /\ o = list[l][i]
  <2>1. ASSUME NEW c \in Lists, NEW j \in DOMAIN list[c], Append(l, i) = Append(c, j)
        PROVE  c = l /\ j = i
    <3>1. j \in Segment
      BY ListIndexes, Segments
    <3> QED BY <1>1, <2>1, <3>1, ElementsDiffer
  <2> QED BY <2>1 DEF InList
<1>4. ~InMap(Append(l, i), o)
  <2>1. SUFFICES ASSUME NEW m \in Maps, NEW k \in Key, Append(l, i) = Append(m, k)
                 PROVE  FALSE
    BY DEF InMap
  <2>2. m = l
    BY <1>1, <2>1, Segments, ElementsDiffer
  <2> QED BY <2>2, SchemaPaths
<1> QED BY <1>2, <1>3, <1>4 DEF HeldAt

\* A place holds one node.
LEMMA HeldOnce ==
    ASSUME schema \in Type, ObjectsOK, NEW q, NEW o, NEW r, HeldAt(q, o), HeldAt(q, r)
    PROVE  o = r
<1>1. CASE q \in Plain
  BY <1>1, AtPlain
<1>2. CASE InMap(q, o)
  BY <1>2, AtKey DEF InMap
<1>3. CASE InList(q, o)
  <2>1. PICK l \in Lists : \E i \in DOMAIN list[l] : q = Append(l, i) /\ o = list[l][i]
    BY <1>3 DEF InList
  <2>2. PICK i \in DOMAIN list[l] : q = Append(l, i) /\ o = list[l][i]
    BY <2>1
  <2>3. i \in Nat
    BY ListIndexes
  <2> QED BY <2>2, <2>3, AtIndex
<1> QED BY <1>1, <1>2, <1>3 DEF HeldAt

\* The path of a node is its place, or another index of its List.
KeyPath(q, o) == \E m \in Maps : \E k \in Key : q = Append(m, k) /\ o.path = q
IndexPath(q, o) ==
    \E l \in Lists : \E i, j \in 1 .. MaxLen :
        q = Append(l, i) /\ o.path = Append(l, j) /\ i \in DOMAIN list[l] /\ o = list[l][i]

\* A node has the path of a place.
LEMMA HeldPath ==
    ASSUME schema \in Type, ObjectsOK, NEW q, NEW o, HeldAt(q, o)
    PROVE  (q \in Plain /\ o.path = q) \/ KeyPath(q, o) \/ IndexPath(q, o)
<1>1. CASE q \in Plain /\ o = node[q]
  BY <1>1, Zenon DEF ObjectsOK
<1>2. CASE InMap(q, o)
  <2>1. PICK m \in Maps, k \in Key : q = Append(m, k) /\ o = map[m][k] /\ o # Nil
    BY <1>2 DEF InMap
  <2> QED BY <2>1 DEF ObjectsOK, KeyPath
<1>3. CASE InList(q, o)
  <2>1. PICK l \in Lists : \E i \in DOMAIN list[l] : q = Append(l, i) /\ o = list[l][i]
    BY <1>3 DEF InList
  <2>2. PICK i \in DOMAIN list[l] : q = Append(l, i) /\ o = list[l][i]
    BY <2>1
  <2>3. i \in 1 .. MaxLen
    BY ListIndexes
  <2>4. PICK j \in 1 .. MaxLen : list[l][i].path = Append(l, j)
    BY DEF ObjectsOK
  <2> QED BY <2>2, <2>3, <2>4 DEF IndexPath
<1> QED BY <1>1, <1>2, <1>3 DEF HeldAt

\* No node is at two places.
LEMMA HeldInOnePlace ==
    ASSUME schema \in Type, ObjectsOK, NEW q, NEW r, NEW o, HeldAt(q, o), HeldAt(r, o)
    PROVE  q = r
<1>1. ASSUME NEW l \in Lists, NEW i \in 1 .. MaxLen, NEW j \in 1 .. MaxLen, NEW p,
             HeldAt(p, o), o.path = Append(l, j), i \in DOMAIN list[l], o = list[l][i]
      PROVE  p = Append(l, i)
  <2>1. j \in Segment
    BY Segments
  <2>2. p \notin Plain
    <3>1. ASSUME p \in Plain PROVE FALSE
      <4>1. o = node[p] /\ node[p].path = p
        BY <1>1, <3>1, AtPlain, Zenon DEF ObjectsOK
      <4> QED BY <1>1, <2>1, <3>1, <4>1, ElementIsNoField, Zenon
    <3> QED BY <3>1
  <2>3. ASSUME NEW m \in Maps, NEW k \in Key, p = Append(m, k), o.path = p PROVE FALSE
    <3>1. m = l
      BY <1>1, <2>1, <2>3, Segments, ElementsDiffer, Zenon
    <3> QED BY <3>1, SchemaPaths
  <2>4. PICK d \in Lists : \E a, b \in 1 .. MaxLen :
            p = Append(d, a) /\ o.path = Append(d, b) /\ a \in DOMAIN list[d] /\ o = list[d][a]
    <3>1. p \in Plain \/ KeyPath(p, o) \/ IndexPath(p, o)
      BY <1>1, HeldPath, Zenon
    <3> QED BY <2>2, <2>3, <3>1 DEF KeyPath, IndexPath
  <2>5. PICK a \in 1 .. MaxLen : \E b \in 1 .. MaxLen :
            p = Append(d, a) /\ o.path = Append(d, b) /\ a \in DOMAIN list[d] /\ o = list[d][a]
    BY <2>4, Zenon
  <2>6. d = l
    <3>1. PICK b \in 1 .. MaxLen : o.path = Append(d, b)
      BY <2>5
    <3>2. b \in Segment
      BY Segments
    <3> QED BY <1>1, <2>1, <3>1, <3>2, ElementsDiffer, SMTT(20)
  <2>7. a = i
    BY <1>1, <2>5, <2>6, Zenon DEF ObjectsOK
  <2> QED BY <2>5, <2>6, <2>7
<1>2. ASSUME NEW p, IndexPath(p, o) PROVE q = p /\ r = p
  BY <1>1, <1>2 DEF IndexPath
<1>3. /\ o.path = q \/ KeyPath(q, o) \/ IndexPath(q, o)
      /\ o.path = r \/ KeyPath(r, o) \/ IndexPath(r, o)
  BY HeldPath, Zenon
<1> QED BY <1>2, <1>3 DEF KeyPath

\* A leaf is its path and its value.
LEMMA LeafFields ==
    ASSUME NEW at, NEW val, NEW at2, NEW val2
    PROVE  /\ Leaf(at, val).at = at /\ Leaf(at, val).val = val
           /\ Leaf(at, val) = Leaf(at2, val2) => at = at2 /\ val = val2
BY DEF Leaf

\* The document in memory is what its places hold.
LEMMA ImageIs ==
    ASSUME NEW x
    PROVE  x \in Image <=> \E q : \E o : HeldAt(q, o) /\ x = Leaf(q, heap[o])
<1> DEFINE N == {Leaf(p, heap[node[p]]) : p \in Plain}
<1>1. x \in N <=> \E p \in Plain : x = Leaf(p, heap[node[p]])
  OBVIOUS
<1>2. \A m : x \in MapLeaves(m) <=>
          \E k \in Key : map[m][k] # Nil /\ x = Leaf(Append(m, k), heap[map[m][k]])
  BY DEF MapLeaves
<1>3. \A l : x \in ListLeaves(l) <=>
          \E i \in DOMAIN list[l] : x = Leaf(Append(l, i), heap[list[l][i]])
  BY DEF ListLeaves
<1> HIDE DEF N
<1>4. x \in Image <=> \/ x \in N \/ \E m \in Maps : x \in MapLeaves(m)
                      \/ \E l \in Lists : x \in ListLeaves(l)
  BY DEF Image, N
<1>5. ASSUME NEW q, NEW o, HeldAt(q, o), x = Leaf(q, heap[o]) PROVE x \in Image
  <2>1. CASE q \in Plain /\ o = node[q]
    BY <1>1, <1>4, <1>5, <2>1, Zenon
  <2>2. CASE InMap(q, o)
    BY <1>2, <1>4, <1>5, <2>2, Zenon DEF InMap
  <2>3. CASE InList(q, o)
    BY <1>3, <1>4, <1>5, <2>3, Zenon DEF InList
  <2> QED BY <1>5, <2>1, <2>2, <2>3, Zenon DEF HeldAt
<1>6. ASSUME x \in Image PROVE \E q : \E o : HeldAt(q, o) /\ x = Leaf(q, heap[o])
  <2>1. CASE x \in N
    BY <1>1, <2>1 DEF HeldAt
  <2>2. ASSUME NEW m \in Maps, NEW k \in Key, map[m][k] # Nil,
               x = Leaf(Append(m, k), heap[map[m][k]])
        PROVE  \E q : \E o : HeldAt(q, o) /\ x = Leaf(q, heap[o])
    <3>1. HeldAt(Append(m, k), map[m][k])
      BY <2>2 DEF HeldAt, InMap
    <3> QED BY <2>2, <3>1
  <2>3. ASSUME NEW l \in Lists, NEW i \in DOMAIN list[l],
               x = Leaf(Append(l, i), heap[list[l][i]])
        PROVE  \E q : \E o : HeldAt(q, o) /\ x = Leaf(q, heap[o])
    <3>1. HeldAt(Append(l, i), list[l][i])
      BY DEF HeldAt, InList
    <3> QED BY <2>3, <3>1
  <2> QED BY <1>2, <1>3, <1>4, <1>6, <2>1, <2>2, <2>3
<1> QED BY <1>5, <1>6

\* A leaf of the document in memory is the data of the node at its place.
LEMMA ImageLeaf ==
    ASSUME schema \in Type, ObjectsOK, NEW x \in Image
    PROVE  x.at \in Place /\ \E o : HeldAt(x.at, o) /\ x = Leaf(x.at, heap[o])
<1>1. PICK q, o : HeldAt(q, o) /\ x = Leaf(q, heap[o])
  BY ImageIs
<1>2. x.at = q
  BY <1>1, LeafFields
<1> QED BY <1>1, <1>2, HeldPlace

\* Only one leaf for a place.
LEMMA ImageUnique ==
    ASSUME schema \in Type, ObjectsOK, NEW x \in Image, NEW o, HeldAt(x.at, o)
    PROVE  x = Leaf(x.at, heap[o])
<1>1. PICK r : HeldAt(x.at, r) /\ x = Leaf(x.at, heap[r])
  BY ImageLeaf
<1>2. r = o
  BY <1>1, HeldOnce
<1> QED BY <1>1, <1>2

\* Nothing lies below an element.
LEMMA BelowElement ==
    ASSUME schema \in Type, NEW p \in Place, p \notin Plain, NEW q \in Place, HasPrefix(q, p)
    PROVE  q = p
<1>1. PICK c \in Maps \cup Lists, s \in Segment : p = Append(c, s)
  BY PlaceCases
<1> QED BY <1>1, ElementIsAlone

\* A stored leaf after a write was there and is below no dirty path, or is
\* written.
LEMMA UpdatedIs ==
    ASSUME NEW x
    PROVE  x \in Updated <=> \/ x \in db /\ ~Covered(x.at)
                             \/ \E p \in DOMAIN dirty : x \in Written(p)
<1>1. x \in UNION {Under(p, db) : p \in DOMAIN dirty} <=> x \in db /\ Covered(x.at)
  BY DEF Under, Covered
<1>2. x \in UNION {Written(p) : p \in DOMAIN dirty} <=> \E p \in DOMAIN dirty : x \in Written(p)
  OBVIOUS
<1> QED BY <1>1, <1>2 DEF Updated

\* What is written for a plain node, and for an element.
LEMMA WrittenIs ==
    ASSUME NEW p, NEW x
    PROVE  /\ p \in Plain => (x \in Written(p) <=> x \in Image /\ HasPrefix(x.at, p))
           /\ p \notin Plain => (x \in Written(p) <=> x = Leaf(p, heap[dirty[p]]))
BY DEF Written, Under

\* One write stores what is not excused: what is clean is there already, and
\* what is below a dirty path is written as the document holds it.
LEMMA WriteStores ==
    ASSUME schema \in Type, ObjectsOK, DirtyOK, SyncOK, NEW x, ~ExcusedAt(x.at)
    PROVE  x \in Updated <=> x \in Image
<1>1. ASSUME x \in db, ~Covered(x.at) PROVE x \in Image
  BY <1>1 DEF SyncOK, Clean
<1>2. ASSUME NEW p \in DOMAIN dirty, x \in Written(p) PROVE x \in Image
  <2>1. CASE p \in Plain
    BY <1>2, <2>1, WrittenIs
  <2>2. CASE p \notin Plain
    <3>1. x = Leaf(p, heap[dirty[p]])
      BY <1>2, <2>2, WrittenIs, Zenon
    <3>2. x.at = p
      BY <3>1, LeafFields
    <3>3. HeldAt(p, dirty[p])
      BY <2>2, <3>2 DEF DirtyOK
    <3> QED BY <3>1, <3>3, ImageIs, Zenon
  <2> QED BY <2>1, <2>2
<1>3. ASSUME x \in Image, Covered(x.at) PROVE \E p \in DOMAIN dirty : x \in Written(p)
  <2>1. PICK p \in DOMAIN dirty : HasPrefix(x.at, p)
    BY <1>3 DEF Covered
  <2>2. CASE p \in Plain
    BY <1>3, <2>1, <2>2, WrittenIs
  <2>3. CASE p \notin Plain
    <3>1. p \in Place
      BY DEF DirtyOK
    <3>2. x.at \in Place
      BY <1>3, ImageLeaf
    <3>3. x.at = p
      BY <2>1, <2>3, <3>1, <3>2, BelowElement, Zenon
    <3>4. HeldAt(p, dirty[p])
      BY <2>3, <3>3 DEF DirtyOK
    <3>5. x = Leaf(p, heap[dirty[p]])
      BY <1>3, <3>3, <3>4, ImageUnique
    <3> QED BY <2>3, <3>5, WrittenIs
  <2> QED BY <2>2, <2>3
<1>4. ASSUME x \in Image, ~Covered(x.at) PROVE x \in db
  BY <1>4 DEF SyncOK, Clean
<1> QED BY <1>1, <1>2, <1>3, <1>4, UpdatedIs

\* The invariant says what SavedIsStored says of a write.
LEMMA InvSaves == ASSUME DocInv PROVE SavedIsStored
<1>1. \A x : Excused(x) <=> ExcusedAt(x.at)
  BY DEF Excused, ExcusedAt
<1>2. ASSUME stage = "live" PROVE \A x : ~ExcusedAt(x.at) => (x \in Updated <=> x \in Image)
  <2>1. schema \in Type /\ ObjectsOK /\ DirtyOK /\ SyncOK
    BY <1>2 DEF DocInv, LiveOK
  <2> QED BY <2>1, WriteStores
<1> QED BY <1>1, <1>2 DEF SavedIsStored

\* What the document holds is referred to.
LEMMA HeldIsUsed ==
    \A q, o : schema \in Type /\ ObjectsOK /\ HeldAt(q, o) => q \in Place /\ o \in Held /\ o \in Used
<1>1. ASSUME NEW q, NEW o, schema \in Type, ObjectsOK, HeldAt(q, o)
      PROVE  q \in Place /\ o \in Held /\ o \in Used
  BY <1>1, HeldPlace DEF Used
<1> QED BY <1>1

\* The same after a step.
LEMMA HeldIsUsedNext ==
    \A q, o : schema' \in Type /\ ObjectsOK' /\ HeldAt(q, o)' => q \in Place' /\ o \in Held' /\ o \in Used'
<1>1. (\A q, o : schema \in Type /\ ObjectsOK /\ HeldAt(q, o) => q \in Place /\ o \in Held /\ o \in Used)'
  BY HeldIsUsed, PTL
<1> QED BY <1>1, Zenon

\* The document in memory, for every leaf.
LEMMA ImageHeld ==
    \A x : x \in Image <=> \E q : \E o : HeldAt(q, o) /\ x = Leaf(q, heap[o])
BY ImageIs

\* The same after a step.
LEMMA ImageHeldNext ==
    \A x : x \in Image' <=> \E q : \E o : HeldAt(q, o)' /\ x = Leaf(q, heap'[o])
<1>1. (\A x : x \in Image <=> \E q : \E o : HeldAt(q, o) /\ x = Leaf(q, heap[o]))'
  BY ImageHeld, PTL
<1>2. \A q, o : Leaf(q, heap[o])' = Leaf(q, heap'[o])
  BY DEF Leaf
<1> QED BY <1>1, <1>2, Zenon

\* The places are those of the schema.
LEMMA SchemaSame ==
    ASSUME schema' = schema
    PROVE  Plain' = Plain /\ Maps' = Maps /\ Lists' = Lists /\ Place' = Place
<1>1. \A kind : PathsOf(kind)' = PathsOf(kind)
  BY DEF PathsOf, NodeFields
<1>2. Plain' = Plain /\ Maps' = Maps /\ Lists' = Lists
  BY <1>1, Zenon DEF Plain, Maps, Lists
<1> QED BY <1>2 DEF Place, MapPlaces, ListPlaces

\* addDirty leaves its path below a dirty path, and everything else that was;
\* it replaces what was there, and keeps the paths disjoint.
LEMMA AddDirtyIs ==
    ASSUME NEW at \in Seq(Segment), NEW o, DOMAIN dirty \subseteq Seq(Segment), DirtyPathsDisjoint,
           dirty' = AddDirty(at, o)
    PROVE  /\ DirtyPathsDisjoint'
           /\ Covered(at)' /\ \A q \in Seq(Segment) : Covered(q) => Covered(q)'
           /\ \A q \in DOMAIN dirty' :
                 \/ q = at /\ dirty'[q] = o
                 \/ /\ q # at /\ ~HasPrefix(q, at)
                    /\ q \in DOMAIN dirty /\ dirty'[q] = dirty[q]
<1>1. CASE \E p \in DOMAIN dirty : Below(at, p)
  <2>1. dirty' = dirty
    BY <1>1 DEF AddDirty
  <2>2. PICK p \in DOMAIN dirty : Below(at, p)
    BY <1>1
  <2>3. ASSUME NEW q \in DOMAIN dirty, HasPrefix(q, at) PROVE FALSE
    <3>1. HasPrefix(q, p)
      BY <2>2, <2>3, PrefixOrder DEF Below
    <3>2. q # p
      BY <2>2, <2>3, PrefixOrder DEF Below
    <3> QED BY <3>1, <3>2 DEF DirtyPathsDisjoint, Below
  <2>4. HasPrefix(at, at)
    BY PrefixOrder
  <2> QED BY <2>1, <2>2, <2>3, <2>4 DEF DirtyPathsDisjoint, Covered, Below
<1>2. CASE ~\E p \in DOMAIN dirty : Below(at, p)
  <2> DEFINE D == {q \in DOMAIN dirty : ~HasPrefix(q, at)}
  <2>1. dirty' = [p \in D \cup {at} |-> IF p = at THEN o ELSE dirty[p]]
    BY <1>2 DEF AddDirty
  <2>2. HasPrefix(at, at)
    BY PrefixOrder
  <2>3. /\ DOMAIN dirty' = D \cup {at} /\ dirty'[at] = o
        /\ \A q \in D : q # at /\ dirty'[q] = dirty[q]
    BY <2>1, <2>2
  <2>4. DirtyPathsDisjoint'
    <3>1. SUFFICES ASSUME NEW p \in D \cup {at}, NEW q \in D \cup {at}, Below(q, p) PROVE FALSE
      BY <2>3 DEF DirtyPathsDisjoint, Below
    <3>2. CASE p \in D /\ q \in D
      BY <3>1, <3>2 DEF DirtyPathsDisjoint
    <3>3. CASE p = at /\ q \in D
      BY <3>1, <3>3 DEF Below
    <3>4. CASE q = at /\ p \in D
      BY <1>2, <3>1, <3>4
    <3>5. CASE p = at /\ q = at
      BY <3>1, <3>5 DEF Below
    <3> QED BY <3>2, <3>3, <3>4, <3>5
  <2>5. Covered(at)'
    BY <2>2, <2>3 DEF Covered
  <2>6. ASSUME NEW q \in Seq(Segment), Covered(q) PROVE Covered(q)'
    <3>1. PICK p \in DOMAIN dirty : HasPrefix(q, p)
      BY <2>6 DEF Covered
    <3>2. CASE HasPrefix(p, at)
      <4>1. HasPrefix(q, at)
        BY <3>1, <3>2, PrefixOrder, Zenon
      <4> QED BY <2>3, <4>1 DEF Covered
    <3>3. CASE ~HasPrefix(p, at)
      BY <2>3, <3>1, <3>3 DEF Covered
    <3> QED BY <3>2, <3>3
  <2> QED BY <2>3, <2>4, <2>5, <2>6, Zenon
<1> QED BY <1>1, <1>2

\* The places outside T hold what they held, with its data.
Untouched(T) ==
    \A q \in Place \ T : \A o :
        /\ HeldAt(q, o) <=> HeldAt(q, o)'
        /\ HeldAt(q, o) => heap'[o] = heap[o]

\* What is clean after a step was clean and is untouched.
LEMMA SyncKept ==
    ASSUME schema \in Type, schema' = schema, db' = db, ObjectsOK, ObjectsOK', Stored, SyncOK,
           NEW T, Untouched(T), \A q \in T : ~Clean(q)', \A q \in Place : Clean(q)' => Clean(q)
    PROVE  SyncOK'
<1>1. ASSUME NEW x \in db, Clean(x.at)' PROVE x \in Image'
  <2>1. x.at \in Place /\ x.at \notin T /\ x \in Image
    BY <1>1 DEF Stored, SyncOK
  <2>2. PICK o : HeldAt(x.at, o) /\ x = Leaf(x.at, heap[o])
    BY <2>1, ImageLeaf, Zenon
  <2>3. HeldAt(x.at, o)' /\ heap'[o] = heap[o]
    BY <2>1, <2>2, Zenon DEF Untouched
  <2> QED BY <2>2, <2>3, ImageHeldNext, Zenon
<1>2. ASSUME NEW x \in Image', Clean(x.at)' PROVE x \in db
  <2>1. PICK q, o : HeldAt(q, o)' /\ x = Leaf(q, heap'[o])
    BY ImageHeldNext
  <2>2. x.at = q
    BY <2>1, LeafFields
  <2>3. q \in Place
    BY <2>1, HeldIsUsedNext, SchemaSame, Zenon
  <2>4. q \notin T
    BY <1>2, <2>2, Zenon
  <2>5. HeldAt(q, o) /\ heap'[o] = heap[o]
    BY <2>1, <2>3, <2>4 DEF Untouched
  <2>6. x \in Image
    BY <2>1, <2>5, ImageIs
  <2> QED BY <1>2, <2>2, <2>3, <2>6 DEF SyncOK
<1> QED BY <1>1, <1>2, Zenon DEF SyncOK

\* A step that changes the document at the places of T, reports nothing and
\* excuses T.
LEMMA UnreportedStep ==
    ASSUME schema \in Type, schema' = schema, db' = db, dirty' = dirty, Stored, LiveOK,
           ObjectsOK', HeapOK', unsaved \subseteq unsaved',
           NEW T, Untouched(T), \A q \in T : ExcusedAt(q)'
    PROVE  LiveOK'
<1>1. Plain' = Plain /\ Lists' = Lists /\ Place' = Place
  BY SchemaSame
<1>2. \A q : ExcusedAt(q) => ExcusedAt(q)'
  BY <1>1 DEF ExcusedAt
<1>3. \A q : Covered(q)' <=> Covered(q)
  BY DEF Covered
<1>4. SyncOK'
  <2>1. \A q \in T : ~Clean(q)'
    BY DEF Clean
  <2>2. \A q \in Place : Clean(q)' => Clean(q)
    BY <1>2, <1>3 DEF Clean
  <2> QED BY <2>1, <2>2, SyncKept DEF LiveOK
<1>5. DirtyOK'
  <2>1. ASSUME NEW q \in DOMAIN dirty' \ Plain, ~ExcusedAt(q)' PROVE HeldAt(q, dirty[q])'
    <3>1. PICK r : r = dirty[q]
      OBVIOUS
    <3>2. HeldAt(q, r) /\ q \in Place /\ q \notin T
      BY <1>2, <2>1, <3>1 DEF LiveOK, DirtyOK
    <3>3. HeldAt(q, r)'
      BY <3>2 DEF Untouched
    <3> QED BY <3>1, <3>3 DEF HeldAt, InMap, InList
  <2> QED BY <1>1, <2>1 DEF LiveOK, DirtyOK
<1>6. Complete'
  BY <1>1 DEF LiveOK, Complete
<1> QED BY <1>4, <1>5, <1>6 DEF LiveOK

\* A step that reports the node at the place of an element.
LEMMA ReportedStep ==
    ASSUME schema \in Type, schema' = schema, db' = db, Stored, LiveOK, DirtyPathsDisjoint,
           ObjectsOK', HeapOK',
           NEW at \in Place, at \notin Plain, NEW o, dirty' = AddDirty(at, o),
           unsaved' = unsaved \ {at}, HeldAt(at, o)', Untouched({at})
    PROVE  LiveOK' /\ DirtyPathsDisjoint'
<1>1. Plain' = Plain /\ Lists' = Lists /\ Place' = Place
  BY SchemaSame
<1>2. Place \subseteq Seq(Segment) /\ DOMAIN dirty \subseteq Place
  BY PlacePaths DEF LiveOK, DirtyOK
<1>3. /\ DirtyPathsDisjoint'
      /\ Covered(at)' /\ \A q \in Seq(Segment) : Covered(q) => Covered(q)'
      /\ \A q \in DOMAIN dirty' :
            \/ q = at /\ dirty'[q] = o
            \/ /\ q # at /\ ~HasPrefix(q, at)
               /\ q \in DOMAIN dirty /\ dirty'[q] = dirty[q]
  <2>1. at \in Seq(Segment) /\ DOMAIN dirty \subseteq Seq(Segment)
    BY <1>2
  <2> QED BY <2>1, AddDirtyIs, Zenon
<1>4. at \notin Lists
  BY PlaceCases, ElementIsNoField
<1>5. \A q : ExcusedAt(q) => ExcusedAt(q)' \/ q = at
  BY <1>1, <1>4 DEF ExcusedAt
<1>6. SyncOK'
  <2>1. \A q \in {at} : ~Clean(q)'
    BY <1>3, Zenon DEF Clean
  <2>2. ASSUME NEW q \in Place, Clean(q)' PROVE Clean(q)
    <3>1. q # at
      BY <2>1, <2>2, Zenon
    <3> QED BY <1>2, <1>3, <1>5, <2>2, <3>1, Zenon DEF Clean
  <2> QED BY <2>1, <2>2, SyncKept, Zenon DEF LiveOK
<1>7. DirtyOK'
  <2>1. ASSUME NEW q \in DOMAIN dirty', q \notin Plain, ~ExcusedAt(q)', NEW r, r = dirty'[q]
        PROVE  HeldAt(q, r)'
    <3>1. CASE q = at /\ dirty'[q] = o
      BY <2>1, <3>1, Zenon
    <3>2. CASE q # at /\ q \in DOMAIN dirty /\ dirty'[q] = dirty[q]
      <4>1. HeldAt(q, r) /\ q \in Place
        BY <1>5, <2>1, <3>2, Zenon DEF LiveOK, DirtyOK
      <4> QED BY <3>2, <4>1, Zenon DEF Untouched
    <3> QED BY <1>3, <3>1, <3>2, Zenon
  <2>2. DOMAIN dirty' \subseteq Place
    BY <1>2, <1>3, Zenon
  <2>3. \A q \in DOMAIN dirty' \ Plain : ~ExcusedAt(q)' => HeldAt(q, dirty[q])'
    <3>1. SUFFICES ASSUME NEW q \in DOMAIN dirty' \ Plain, ~ExcusedAt(q)' PROVE HeldAt(q, dirty[q])'
      OBVIOUS
    <3>2. PICK r : r = dirty'[q]
      OBVIOUS
    <3>3. HeldAt(q, r)'
      BY <2>1, <3>1, <3>2, Zenon
    <3> QED BY <3>2, <3>3, Zenon DEF HeldAt, InMap, InList
  <2> QED BY <1>1, <2>2, <2>3, Zenon DEF DirtyOK
<1>8. Complete'
  BY <1>1 DEF LiveOK, Complete
<1> QED BY <1>3, <1>6, <1>7, <1>8 DEF LiveOK

\* What a step of a live document needs, and has to leave.
LEMMA LiveIs ==
    ASSUME DocInv, stage = "live"
    PROVE  /\ schema \in Type /\ Stored /\ DirtyPathsDisjoint
           /\ LiveOK /\ Complete /\ ObjectsOK /\ HeapOK /\ DirtyOK /\ SyncOK
BY DEF DocInv, LiveOK

\* A step that does not touch the database keeps the rest of the invariant.
LEMMA LiveNext ==
    ASSUME DocInv, stage = "live", Idle, db' = db, LiveOK', DirtyPathsDisjoint'
    PROVE  DocInv'
<1>1. stage' = "live" /\ schema' = schema
  BY DEF Idle
<1>2. schema \in Type /\ Stored
  BY LiveIs, Zenon
<1>3. Stored'
  <2>1. Place' = Place
    BY <1>1, SchemaSame
  <2> QED BY <1>2, <2>1 DEF Stored, Leaf
<1> QED BY <1>1, <1>2, <1>3 DEF DocInv

\* A step that leaves the containers leaves what they hold.
LEMMA SameObjects ==
    ASSUME schema' = schema, UNCHANGED <<node, map, list>>, ObjectsOK
    PROVE  ObjectsOK' /\ Held' = Held /\ \A q, o : HeldAt(q, o)' <=> HeldAt(q, o)
<1>1. Plain' = Plain /\ Maps' = Maps /\ Lists' = Lists
  BY SchemaSame, Zenon
<1>2. ObjectsOK'
  BY <1>1 DEF ObjectsOK
<1>3. Held' = Held
  BY DEF Held
<1>4. \A q, o : HeldAt(q, o)' <=> HeldAt(q, o)
  BY <1>1 DEF HeldAt, InMap, InList
<1> QED BY <1>2, <1>3, <1>4

\* At most one node more is referred to.
LEMMA UsedFinite ==
    ASSUME NEW o, IsFiniteSet(Used), Held' \subseteq Held \cup {o},
           \A q \in DOMAIN dirty' : dirty'[q] = o \/ (q \in DOMAIN dirty /\ dirty'[q] = dirty[q])
    PROVE  IsFiniteSet(Used')
<1>1. Used' \in SUBSET (Used \cup {o})
  BY DEF Used
<1>2. IsFiniteSet(Used \cup {o})
  BY FS_AddElement
<1> QED BY <1>1, <1>2, FS_Subset, Zenon

\* Keep and KeepWith leave the data of the nodes that stay.
LEMMA KeptData ==
    ASSUME schema \in Type, schema' = schema, ObjectsOK', Keep, IsFiniteSet(Used')
    PROVE  HeapOK' /\ \A q, o : HeldAt(q, o)' => heap'[o] = heap[o]
<1>1. \A q, o : HeldAt(q, o)' => o \in Used'
  BY HeldIsUsedNext
<1> QED BY <1>1 DEF Keep, HeapOK

\* The same with a new node, whose data is new.
LEMMA KeptOtherData ==
    ASSUME schema \in Type, schema' = schema, ObjectsOK', NEW new, NEW v, KeepWith(new, v),
           IsFiniteSet(Used')
    PROVE  HeapOK' /\ \A q, o : HeldAt(q, o)' /\ o # new => heap'[o] = heap[o]
<1>1. \A q, o : HeldAt(q, o)' => o \in Used'
  BY HeldIsUsedNext
<1> QED BY <1>1 DEF KeepWith, HeapOK

-----------------------------------------------------------------------------

\* A change of a node's data excuses its place.
LEMMA ChangeKeeps ==
    ASSUME DocInv, NEW at, NEW o, HeldAt(at, o), NEW v, Change(o, at, v)
    PROVE  DocInv'
<1>1. /\ stage = "live" /\ Idle /\ schema' = schema /\ db' = db /\ dirty' = dirty
      /\ UNCHANGED <<node, map, list>>
      /\ heap' = [heap EXCEPT ![o] = v] /\ unsaved' = unsaved \cup {at}
  BY DEF Change, Idle
<1>2. schema \in Type /\ Stored /\ LiveOK /\ ObjectsOK /\ HeapOK /\ DirtyPathsDisjoint
  BY <1>1, LiveIs, Zenon
<1>3. ObjectsOK' /\ Held' = Held /\ \A q, r : HeldAt(q, r)' <=> HeldAt(q, r)
  BY <1>1, <1>2, SameObjects, Zenon
<1>4. HeapOK'
  <2>1. Used' = Used
    BY <1>1, <1>3, Zenon DEF Used
  <2> QED BY <1>1, <1>2, <2>1, Zenon DEF HeapOK
<1>5. Untouched({at})
  <2>1. ASSUME NEW q, NEW r, q # at, HeldAt(q, r) PROVE heap'[r] = heap[r]
    <3>1. r # o
      BY <1>2, <2>1, HeldInOnePlace, Zenon
    <3>2. r \in DOMAIN heap
      BY <1>2, <2>1, HeldIsUsed, Zenon DEF HeapOK
    <3> QED BY <1>1, <3>1, <3>2, Zenon
  <2> QED BY <1>3, <2>1 DEF Untouched
<1>6. \A q \in {at} : ExcusedAt(q)'
  BY <1>1, Zenon DEF ExcusedAt
<1>7. LiveOK'
  BY <1>1, <1>2, <1>3, <1>4, <1>5, <1>6, UnreportedStep, Zenon
<1>8. DirtyPathsDisjoint'
  BY <1>1, <1>2, Zenon DEF DirtyPathsDisjoint
<1> QED BY <1>1, <1>7, <1>8, LiveNext, Zenon

\* Save of a plain node: everything below it is going to be written.
LEMMA SaveNodeKeeps ==
    ASSUME DocInv, NEW p \in DOMAIN node, SaveNode(p)
    PROVE  DocInv'
<1>1. /\ stage = "live" /\ Idle /\ schema' = schema /\ db' = db /\ Keep
      /\ UNCHANGED <<node, map, list>>
      /\ dirty' = AddDirty(node[p].path, node[p])
      /\ unsaved' = {u \in unsaved : ~HasPrefix(u, p)}
  BY DEF SaveNode, Idle
<1>2. /\ schema \in Type /\ Stored /\ LiveOK /\ ObjectsOK /\ HeapOK /\ DirtyPathsDisjoint
      /\ DirtyOK /\ Complete /\ SyncOK
  BY <1>1, LiveIs, Zenon
<1>3. p \in Plain /\ node[p].path = p
  BY <1>2 DEF ObjectsOK
<1>4. Plain' = Plain /\ Lists' = Lists /\ Place' = Place
  BY <1>1, SchemaSame, Zenon
<1>5. /\ Place \subseteq Seq(Segment) /\ DOMAIN dirty \subseteq Place /\ p \in Place
      /\ Lists \subseteq Seq(Segment)
  BY <1>2, <1>3, PlacePaths, SchemaPaths DEF DirtyOK, Place
<1>6. /\ DirtyPathsDisjoint'
      /\ Covered(p)' /\ \A q \in Seq(Segment) : Covered(q) => Covered(q)'
      /\ \A q \in DOMAIN dirty' :
            \/ q = p /\ dirty'[q] = node[p]
            \/ /\ q # p /\ ~HasPrefix(q, p)
               /\ q \in DOMAIN dirty /\ dirty'[q] = dirty[q]
  <2>1. p \in Seq(Segment) /\ DOMAIN dirty \subseteq Seq(Segment) /\ dirty' = AddDirty(p, node[p])
    BY <1>1, <1>3, <1>5, Zenon
  <2> QED BY <1>2, <2>1, AddDirtyIs, Zenon
<1>7. ObjectsOK' /\ Held' = Held /\ \A q, r : HeldAt(q, r)' <=> HeldAt(q, r)
  BY <1>1, <1>2, SameObjects, Zenon
<1>8. HeapOK' /\ Untouched({})
  <2>1. IsFiniteSet(Used')
    BY <1>2, <1>6, <1>7, UsedFinite, Zenon DEF HeapOK
  <2> QED BY <1>1, <1>2, <1>7, <2>1, KeptData, Zenon DEF Untouched
<1>9. ASSUME NEW q \in Seq(Segment), ExcusedAt(q), ~ExcusedAt(q)' PROVE HasPrefix(q, p)
  <2>1. CASE q \in unsaved
    BY <1>1, <1>9, <2>1, Zenon DEF ExcusedAt
  <2>2. CASE q \notin unsaved
    <3>1. PICK l \in Lists \cap unsaved : HasPrefix(q, l)
      BY <1>9, <2>2, Zenon DEF ExcusedAt
    <3>2. HasPrefix(l, p)
      BY <1>1, <1>4, <1>9, <3>1, Zenon DEF ExcusedAt
    <3> QED BY <1>5, <3>1, <3>2, PrefixOrder, Zenon
  <2> QED BY <2>1, <2>2, Zenon
<1>10. SyncOK'
  <2>1. ASSUME NEW q \in Place, Clean(q)' PROVE Clean(q)
    <3>1. q \in Seq(Segment) /\ p \in Seq(Segment)
      BY <1>5, Zenon
    <3>2. ~Covered(q)
      BY <1>6, <2>1, <3>1, Zenon DEF Clean
    <3>3. ~HasPrefix(q, p)
      <4>1. SUFFICES ASSUME HasPrefix(q, p) PROVE Covered(q)'
        BY <2>1, Zenon DEF Clean
      <4>2. PICK d \in DOMAIN dirty' : HasPrefix(p, d)
        BY <1>6, Zenon DEF Covered
      <4>3. d \in Seq(Segment)
        BY <1>5, <1>6, Zenon
      <4>4. HasPrefix(q, d)
        BY <3>1, <4>1, <4>2, <4>3, PrefixOrder, Zenon
      <4> QED BY <4>4 DEF Covered
    <3> QED BY <1>9, <2>1, <3>1, <3>2, <3>3, Zenon DEF Clean
  <2> QED BY <1>1, <1>2, <1>7, <1>8, <2>1, SyncKept, Zenon
<1>11. DirtyOK'
  <2>1. ASSUME NEW q \in DOMAIN dirty' \ Plain, ~ExcusedAt(q)' PROVE HeldAt(q, dirty[q])'
    <3>1. PICK r : r = dirty'[q]
      BY Zenon
    <3>2. q # p /\ ~HasPrefix(q, p) /\ q \in DOMAIN dirty /\ r = dirty[q]
      BY <1>3, <1>6, <2>1, <3>1, Zenon
    <3>3. ~ExcusedAt(q)
      BY <1>5, <1>9, <2>1, <3>2, Zenon
    <3>4. HeldAt(q, r)
      BY <1>2, <2>1, <3>2, <3>3, Zenon DEF DirtyOK
    <3>5. HeldAt(q, r)'
      BY <1>7, <3>4, Zenon
    <3> QED BY <3>1, <3>5 DEF HeldAt, InMap, InList
  <2>2. DOMAIN dirty' \subseteq Place
    BY <1>5, <1>6
  <2> QED BY <1>4, <2>1, <2>2, Zenon DEF DirtyOK
<1>12. Complete'
  BY <1>1, <1>2, <1>4 DEF Complete
<1>13. LiveOK'
  BY <1>7, <1>8, <1>10, <1>11, <1>12 DEF LiveOK
<1> QED BY <1>1, <1>6, <1>13, LiveNext, Zenon

\* The elements that a Map or a List may have are places of their own.
LEMMA ElementPlace ==
    ASSUME schema \in Type
    PROVE  /\ \A m \in Maps, k \in Key : Append(m, k) \in Place /\ Append(m, k) \notin Plain
           /\ \A l \in Lists, i \in 1 .. MaxLen :
                 Append(l, i) \in Place /\ Append(l, i) \notin Plain
<1>1. ASSUME NEW m \in Maps, NEW k \in Key PROVE Append(m, k) \in Place /\ Append(m, k) \notin Plain
  <2>1. Append(m, k) \in MapPlaces
    BY DEF MapPlaces
  <2> QED BY <2>1, Segments, ElementIsNoField, Zenon DEF Place
<1>2. ASSUME NEW l \in Lists, NEW i \in 1 .. MaxLen
      PROVE  Append(l, i) \in Place /\ Append(l, i) \notin Plain
  <2>1. Append(l, i) \in ListPlaces
    BY DEF ListPlaces
  <2> QED BY <2>1, Segments, ElementIsNoField, Zenon DEF Place
<1> QED BY <1>1, <1>2

\* Save of an element that has the path of its place.
LEMMA SaveInPlaceKeeps ==
    ASSUME DocInv, NEW at \in Place, at \notin Plain, NEW o, HeldAt(at, o), o.path = at, NEW c,
           SaveElement(o, c, at)
    PROVE  DocInv'
<1>1. /\ stage = "live" /\ Idle /\ schema' = schema /\ db' = db /\ Keep
      /\ UNCHANGED <<node, map, list>>
      /\ dirty' = AddDirty(at, o) /\ unsaved' = unsaved \ {at}
  BY DEF SaveElement, Idle
<1>2. /\ schema \in Type /\ Stored /\ LiveOK /\ ObjectsOK /\ HeapOK /\ DirtyPathsDisjoint
      /\ DirtyOK
  BY <1>1, LiveIs, Zenon
<1>3. ObjectsOK' /\ Held' = Held /\ \A q, r : HeldAt(q, r)' <=> HeldAt(q, r)
  BY <1>1, <1>2, SameObjects, Zenon
<1>4. HeapOK' /\ Untouched({at})
  <2>1. at \in Seq(Segment) /\ DOMAIN dirty \subseteq Seq(Segment)
    BY <1>2, PlacePaths, Zenon DEF DirtyOK
  <2>2. \A q \in DOMAIN dirty' : dirty'[q] = o \/ (q \in DOMAIN dirty /\ dirty'[q] = dirty[q])
    BY <1>1, <1>2, <2>1, AddDirtyIs, SMTT(20)
  <2>3. IsFiniteSet(Used')
    BY <1>2, <1>3, <2>2, UsedFinite, Zenon DEF HeapOK
  <2> QED BY <1>1, <1>2, <1>3, <2>3, KeptData, Zenon DEF Untouched
<1>5. HeldAt(at, o)'
  BY <1>3, Zenon
<1>6. LiveOK' /\ DirtyPathsDisjoint'
  BY <1>1, <1>2, <1>3, <1>4, <1>5, ReportedStep, Zenon
<1> QED BY <1>1, <1>6, LiveNext, Zenon

\* Save of an element of a List that has moved: the whole List is excused.
LEMMA SaveMovedKeeps ==
    ASSUME DocInv, NEW l \in Lists, NEW i \in 1 .. MaxLen, NEW j \in 1 .. MaxLen, NEW o,
           HeldAt(Append(l, i), o), o.path = Append(l, j), o.path # Append(l, i),
           SaveElement(o, l, Append(l, i))
    PROVE  DocInv'
<1> DEFINE at == Append(l, j)
<1>1. /\ stage = "live" /\ Idle /\ schema' = schema /\ db' = db /\ Keep
      /\ UNCHANGED <<node, map, list>>
      /\ dirty' = AddDirty(at, o) /\ unsaved' = unsaved \cup {l}
  BY DEF SaveElement, Idle
<1>2. /\ schema \in Type /\ Stored /\ LiveOK /\ ObjectsOK /\ HeapOK /\ DirtyPathsDisjoint
      /\ DirtyOK /\ Complete /\ SyncOK
  BY <1>1, LiveIs, Zenon
<1>3. ObjectsOK' /\ Held' = Held /\ \A q, r : HeldAt(q, r)' <=> HeldAt(q, r)
  BY <1>1, <1>2, SameObjects, Zenon
<1>4. at \in Place /\ HasPrefix(at, l)
  <2>1. l \in Seq(Segment) /\ j \in Segment
    BY <1>2, SchemaPaths, Segments, Zenon
  <2> QED BY <1>2, <2>1, PrefixOfElement, ElementPlace, Zenon
<1>5. Place \subseteq Seq(Segment) /\ DOMAIN dirty \subseteq Place
  BY <1>2, PlacePaths, Zenon DEF DirtyOK
<1>6. Plain' = Plain /\ Lists' = Lists /\ Place' = Place
  BY <1>1, SchemaSame
<1> HIDE DEF at
<1>7. /\ DirtyPathsDisjoint'
      /\ Covered(at)' /\ \A q \in Seq(Segment) : Covered(q) => Covered(q)'
      /\ \A q \in DOMAIN dirty' :
            \/ q = at /\ dirty'[q] = o
            \/ /\ q # at /\ ~HasPrefix(q, at)
               /\ q \in DOMAIN dirty /\ dirty'[q] = dirty[q]
  <2>1. at \in Seq(Segment) /\ DOMAIN dirty \subseteq Seq(Segment)
    BY <1>4, <1>5, Zenon
  <2> QED BY <1>1, <1>2, <2>1, AddDirtyIs, Zenon
<1>8. HeapOK' /\ Untouched({})
  <2>1. IsFiniteSet(Used')
    BY <1>2, <1>3, <1>7, UsedFinite, Zenon DEF HeapOK
  <2> QED BY <1>1, <1>2, <1>3, <2>1, KeptData, Zenon DEF Untouched
<1>9. ExcusedAt(at)' /\ \A q : ExcusedAt(q) => ExcusedAt(q)'
  BY <1>1, <1>4, <1>6 DEF ExcusedAt
<1>10. SyncOK'
  <2>1. \A q \in Place : Clean(q)' => Clean(q)
    BY <1>5, <1>7, <1>9, Zenon DEF Clean
  <2> QED BY <1>1, <1>2, <1>3, <1>8, <2>1, SyncKept, Zenon
<1>11. DirtyOK'
  <2>1. ASSUME NEW q \in DOMAIN dirty' \ Plain, ~ExcusedAt(q)' PROVE HeldAt(q, dirty[q])'
    <3>1. PICK r : r = dirty'[q]
      BY Zenon
    <3>2. q # at /\ q \in DOMAIN dirty /\ r = dirty[q]
      BY <1>7, <1>9, <2>1, <3>1, Zenon
    <3>3. HeldAt(q, r)
      BY <1>2, <1>9, <2>1, <3>2, Zenon DEF DirtyOK
    <3>4. HeldAt(q, r)'
      BY <1>3, <3>3, Zenon
    <3> QED BY <3>1, <3>4, Zenon DEF HeldAt, InMap, InList
  <2>2. DOMAIN dirty' \subseteq Place
    BY <1>4, <1>5, <1>7, Zenon
  <2> QED BY <1>6, <2>1, <2>2, Zenon DEF DirtyOK
<1>12. Complete'
  BY <1>1, <1>2, <1>6, Zenon DEF Complete
<1>13. LiveOK'
  BY <1>3, <1>8, <1>10, <1>11, <1>12, Zenon DEF LiveOK
<1> QED BY <1>1, <1>7, <1>13, LiveNext, Zenon

\* The nodes in the document after a step.
LEMMA HeldIsNext ==
    \A o : o \in Held' <=>
        \/ \E p \in DOMAIN node' : o = node'[p]
        \/ \E m \in DOMAIN map' : \E k \in Key : map'[m][k] # Nil /\ o = map'[m][k]
        \/ \E l \in DOMAIN list' : \E i \in DOMAIN list'[l] : o = list'[l][i]
<1>1. (\A o : o \in Held <=>
        \/ \E p \in DOMAIN node : o = node[p]
        \/ \E m \in DOMAIN map : \E k \in Key : map[m][k] # Nil /\ o = map[m][k]
        \/ \E l \in DOMAIN list : \E i \in DOMAIN list[l] : o = list[l][i])'
  BY HeldIs, PTL
<1> QED BY <1>1

\* The Maps change at the places of T, where they hold nothing or a new node.
LEMMA MapsChange ==
    ASSUME schema \in Type, schema' = schema, ObjectsOK, UNCHANGED <<node, list>>,
           DOMAIN map' = Maps, \A m \in Maps : DOMAIN map'[m] = Key, NEW T, NEW new,
           \A m \in Maps, k \in Key :
              \/ map'[m][k] = map[m][k]
              \/ map'[m][k] = Nil /\ Append(m, k) \in T
              \/ map'[m][k] = new /\ new.path = Append(m, k) /\ Append(m, k) \in T
    PROVE  /\ ObjectsOK' /\ Held' \subseteq Held \cup {new}
           /\ \A q : q \notin T => \A o : HeldAt(q, o)' <=> HeldAt(q, o)
<1>1. Plain' = Plain /\ Maps' = Maps /\ Lists' = Lists
  BY SchemaSame, Zenon
<1>2. ObjectsOK'
  <2>1. \A m \in Maps, k \in Key : map'[m][k] # Nil => map'[m][k].path = Append(m, k)
    BY DEF ObjectsOK
  <2> QED BY <1>1, <2>1, SMTT(20) DEF ObjectsOK
<1>3. ASSUME NEW o \in Held' PROVE o \in Held \cup {new}
  <2>1. DOMAIN map = Maps
    BY Zenon DEF ObjectsOK
  <2>2. CASE \E p \in DOMAIN node' : o = node'[p]
    BY <2>2, HeldIs, Zenon
  <2>3. CASE \E l \in DOMAIN list' : \E i \in DOMAIN list'[l] : o = list'[l][i]
    BY <2>3, HeldIs, Zenon
  <2>4. ASSUME NEW m \in DOMAIN map', NEW k \in Key, map'[m][k] # Nil, o = map'[m][k]
        PROVE  o \in Held \cup {new}
    <3>1. map'[m][k] = map[m][k] \/ map'[m][k] = new
      BY <2>4, Zenon
    <3> QED BY <2>1, <2>4, <3>1, HeldIs, Zenon
  <2> QED BY <2>2, <2>3, <2>4, HeldIsNext, SMTT(20)
<1>4. ASSUME NEW q, q \notin T, NEW o PROVE HeldAt(q, o)' <=> HeldAt(q, o)
  <2>1. \A m \in Maps, k \in Key : q = Append(m, k) => map'[m][k] = map[m][k]
    BY <1>4, Zenon
  <2>2. InMap(q, o)' <=> InMap(q, o)
    BY <1>1, <2>1, SMTT(20) DEF InMap
  <2>3. InList(q, o)' <=> InList(q, o)
    BY <1>1, Zenon DEF InList
  <2> QED BY <1>1, <2>2, <2>3, Zenon DEF HeldAt
<1> QED BY <1>2, <1>3, <1>4, Zenon

\* Set puts a new node under its key and reports it.
LEMMA SetKeeps ==
    ASSUME DocInv, NEW m \in Maps, NEW k \in Key, NEW v, Set(m, k, v)
    PROVE  DocInv'
<1> DEFINE at == Append(m, k)
<1>0. PICK o : o = NewNode(at)
  BY Zenon
<1>1. /\ stage = "live" /\ Idle /\ schema' = schema /\ db' = db /\ KeepWith(o, v)
      /\ UNCHANGED <<node, list>> /\ map' = [map EXCEPT ![m][k] = o]
      /\ dirty' = AddDirty(o.path, o) /\ unsaved' = unsaved \ {at}
  BY <1>0 DEF Set, Idle
<1>2. /\ schema \in Type /\ Stored /\ LiveOK /\ ObjectsOK /\ HeapOK /\ DirtyPathsDisjoint
      /\ DirtyOK
  BY <1>1, LiveIs, Zenon
<1>3. at \in Place /\ at \notin Plain
  BY <1>2, ElementPlace
<1>4. at \in Seq(Segment) /\ DOMAIN dirty \subseteq Seq(Segment)
  BY <1>2, <1>3, PlacePaths, Zenon DEF DirtyOK
<1>5. o \in Object /\ o.path = at /\ o \notin Used
  BY <1>0, <1>2, <1>4, NewNodeIsNew, Zenon DEF HeapOK
<1>6. o # Nil
  BY <1>5, NilIsNoObject, Zenon
<1>7. /\ DOMAIN map' = Maps /\ \A c \in Maps : DOMAIN map'[c] = Key
      /\ map'[m][k] = o
      /\ \A c \in Maps, j \in Key : (c = m /\ j = k) \/ map'[c][j] = map[c][j]
  BY <1>1, <1>2, Zenon DEF ObjectsOK
<1>8. /\ ObjectsOK' /\ Held' \subseteq Held \cup {o}
      /\ \A q : q \notin {at} => \A r : HeldAt(q, r)' <=> HeldAt(q, r)
  <2>1. PICK T : T = {at}
    BY Zenon
  <2>2. \A c \in Maps, j \in Key :
           \/ map'[c][j] = map[c][j]
           \/ map'[c][j] = Nil /\ Append(c, j) \in T
           \/ map'[c][j] = o /\ o.path = Append(c, j) /\ Append(c, j) \in T
    BY <1>5, <1>7, <2>1
  <2> HIDE DEF at
  <2>3. /\ ObjectsOK' /\ Held' \subseteq Held \cup {o}
        /\ \A q : q \notin T => \A r : HeldAt(q, r)' <=> HeldAt(q, r)
    <3>1. schema \in Type /\ schema' = schema /\ ObjectsOK /\ UNCHANGED <<node, list>>
      BY <1>1, <1>2, Zenon
    <3>2. DOMAIN map' = Maps /\ \A c \in Maps : DOMAIN map'[c] = Key
      BY <1>7, Zenon
    <3> QED BY <2>2, <3>1, <3>2, MapsChange, Zenon
  <2> QED BY <2>1, <2>3
<1>9. HeldAt(at, o)'
  <2>1. Maps' = Maps
    BY <1>1, SchemaSame, Zenon
  <2> QED BY <1>6, <1>7, <2>1, Zenon DEF HeldAt, InMap
<1> HIDE DEF at
<1>10. IsFiniteSet(Used')
  <2>1. \A q \in DOMAIN dirty' : dirty'[q] = o \/ (q \in DOMAIN dirty /\ dirty'[q] = dirty[q])
    BY <1>1, <1>2, <1>4, <1>5, AddDirtyIs, SMTT(20)
  <2> QED BY <1>2, <1>8, <2>1, UsedFinite, Zenon DEF HeapOK
<1>11. HeapOK' /\ \A q, r : HeldAt(q, r)' /\ r # o => heap'[r] = heap[r]
  BY <1>1, <1>2, <1>8, <1>10, KeptOtherData, Zenon
<1>12. Untouched({at})
  <2>1. ASSUME NEW q, q # at, NEW r, HeldAt(q, r) PROVE heap'[r] = heap[r]
    <3>1. r # o
      BY <1>2, <1>5, <2>1, HeldIsUsed, Zenon
    <3> QED BY <1>8, <1>11, <2>1, <3>1, Zenon
  <2> QED BY <1>8, <2>1, Zenon DEF Untouched
<1>13. LiveOK' /\ DirtyPathsDisjoint'
  BY <1>1, <1>2, <1>3, <1>5, <1>8, <1>9, <1>11, <1>12, ReportedStep, Zenon
<1> QED BY <1>1, <1>13, LiveNext, Zenon

\* Delete and Clear of a Map: what they take away is excused.
LEMMA RemovalKeeps ==
    ASSUME DocInv, stage = "live", Idle, Keep, UNCHANGED <<node, list, dirty, db>>,
           DOMAIN map' = Maps, \A m \in Maps : DOMAIN map'[m] = Key,
           \A m \in Maps, k \in Key :
              map'[m][k] = map[m][k] \/ (map'[m][k] = Nil /\ Append(m, k) \in unsaved'),
           unsaved \subseteq unsaved'
    PROVE  DocInv'
<1>1. schema' = schema
  BY DEF Idle
<1>2. /\ schema \in Type /\ Stored /\ LiveOK /\ ObjectsOK /\ HeapOK /\ DirtyPathsDisjoint
  BY LiveIs, Zenon
<1>3. /\ ObjectsOK' /\ Held' \subseteq Held \cup {Nil}
      /\ \A q : q \notin unsaved' => \A o : HeldAt(q, o)' <=> HeldAt(q, o)
  <2>1. PICK T : T = unsaved'
    OBVIOUS
  <2>2. \A m \in Maps, k \in Key :
              map'[m][k] = map[m][k] \/ (map'[m][k] = Nil /\ Append(m, k) \in T)
    BY <2>1
  <2>3. /\ ObjectsOK' /\ Held' \subseteq Held \cup {Nil}
        /\ \A q : q \notin T => \A o : HeldAt(q, o)' <=> HeldAt(q, o)
    BY <1>1, <1>2, <2>2, MapsChange, Zenon
  <2> QED BY <2>1, <2>3, Zenon
<1>4. IsFiniteSet(Used')
  BY <1>2, <1>3, UsedFinite, Zenon DEF HeapOK
<1>5. HeapOK' /\ \A q, o : HeldAt(q, o)' => heap'[o] = heap[o]
  BY <1>1, <1>2, <1>3, <1>4, KeptData, Zenon
<1>6. Untouched(unsaved')
  BY <1>3, <1>5, Zenon DEF Untouched
<1>7. \A q \in unsaved' : ExcusedAt(q)'
  BY Zenon DEF ExcusedAt
<1>8. LiveOK'
  <2>1. PICK T : T = unsaved'
    OBVIOUS
  <2>2. Untouched(T) /\ \A q \in T : ExcusedAt(q)'
    BY <1>6, <1>7, <2>1, Zenon
  <2> QED BY <1>1, <1>2, <1>3, <1>5, <2>2, UnreportedStep, Zenon
<1>9. DirtyPathsDisjoint'
  BY <1>2, Zenon DEF DirtyPathsDisjoint
<1> QED BY <1>8, <1>9, LiveNext, Zenon

\* Delete of a Map excuses the key.
LEMMA DeleteKeyKeeps ==
    ASSUME DocInv, NEW m \in Maps, NEW k \in Key, DeleteKey(m, k)
    PROVE  DocInv'
<1>1. /\ stage = "live" /\ Idle /\ Keep /\ UNCHANGED <<node, list, dirty, db>>
      /\ map' = [map EXCEPT ![m][k] = Nil] /\ unsaved' = unsaved \cup {Append(m, k)}
  BY Zenon DEF DeleteKey
<1>2. DOMAIN map = Maps /\ \A c \in Maps : DOMAIN map[c] = Key
  BY <1>1, LiveIs, Zenon DEF ObjectsOK
<1>3. /\ DOMAIN map' = Maps /\ \A c \in Maps : DOMAIN map'[c] = Key
      /\ map'[m][k] = Nil
      /\ \A c \in Maps, j \in Key : (c = m /\ j = k) \/ map'[c][j] = map[c][j]
  BY <1>1, <1>2, Zenon
<1>4. /\ \A c \in Maps, j \in Key :
            map'[c][j] = map[c][j] \/ (map'[c][j] = Nil /\ Append(c, j) \in unsaved')
      /\ unsaved \subseteq unsaved'
  BY <1>1, <1>3, Zenon
<1> QED BY <1>1, <1>3, <1>4, RemovalKeeps, Zenon

\* Clear of a Map excuses the keys that it had.
LEMMA ClearKeeps ==
    ASSUME DocInv, NEW m \in Maps, Clear(m)
    PROVE  DocInv'
<1>1. /\ stage = "live" /\ Idle /\ Keep /\ UNCHANGED <<node, list, dirty, db>>
      /\ map' = [map EXCEPT ![m] = [k \in Key |-> Nil]]
      /\ unsaved' = unsaved \cup {Append(m, k) : k \in {j \in Key : map[m][j] # Nil}}
  BY Zenon DEF Clear
<1>2. DOMAIN map = Maps /\ \A c \in Maps : DOMAIN map[c] = Key
  BY <1>1, LiveIs, Zenon DEF ObjectsOK
<1>3. /\ DOMAIN map' = Maps /\ \A c \in Maps : DOMAIN map'[c] = Key
      /\ \A j \in Key : map'[m][j] = Nil
      /\ \A c \in Maps : c # m => map'[c] = map[c]
  BY <1>1, <1>2, Zenon
<1>4. /\ \A c \in Maps, j \in Key :
            map'[c][j] = map[c][j] \/ (map'[c][j] = Nil /\ Append(c, j) \in unsaved')
      /\ unsaved \subseteq unsaved'
  BY <1>1, <1>3
<1> QED BY <1>1, <1>3, <1>4, RemovalKeeps, Zenon

-----------------------------------------------------------------------------

\* What a List may hold.
ListOK(l, s) ==
    /\ s \in Seq(Object) /\ Len(s) <= MaxLen
    /\ \A i \in DOMAIN s : \E j \in 1 .. MaxLen : s[i].path = Append(l, j)
    /\ \A i, j \in DOMAIN s : s[i] = s[j] => i = j

\* The nodes of s, which takes the place of the List l: where T does not say
\* otherwise the node that was there.
ListMoves(l, s, T, new) ==
    /\ \A i \in DOMAIN s : s[i] = new \/ \E j \in DOMAIN list[l] : s[i] = list[l][j]
    /\ \A i : \/ Append(l, i) \in T
              \/ i \notin DOMAIN s /\ i \notin DOMAIN list[l]
              \/ i \in DOMAIN s /\ i \in DOMAIN list[l] /\ s[i] = list[l][i]

\* One List changes at the places of T, where it holds its nodes or a new one.
LEMMA ListChanges ==
    ASSUME schema \in Type, schema' = schema, ObjectsOK, UNCHANGED <<node, map>>,
           NEW l \in Lists, NEW s, ListOK(l, s), list' = [list EXCEPT ![l] = s], NEW T, NEW new,
           ListMoves(l, s, T, new)
    PROVE  /\ ObjectsOK' /\ Held' \subseteq Held \cup {new}
           /\ \A q : q \notin T => \A o : HeldAt(q, o)' <=> HeldAt(q, o)
<1>1. Plain' = Plain /\ Maps' = Maps /\ Lists' = Lists
  BY SchemaSame, Zenon
<1>2. DOMAIN list' = Lists /\ list'[l] = s /\ \A c \in Lists : c # l => list'[c] = list[c]
  BY Zenon DEF ObjectsOK
<1>3. ObjectsOK'
  <2>0. \A c \in Lists : ListOK(c, list[c])
    BY DEF ObjectsOK, ListOK
  <2>1. \A c \in Lists : c # l => ListOK(c, list'[c])
    BY <1>2, <2>0, SMTT(20)
  <2>2. \A c \in Lists : ListOK(c, list'[c])
    BY <1>2, <2>1
  <2>3. /\ \A c \in Lists : list'[c] \in Seq(Object) /\ Len(list'[c]) <= MaxLen
        /\ \A c \in Lists : \A i \in DOMAIN list'[c] :
              \E j \in 1 .. MaxLen : list'[c][i].path = Append(c, j)
        /\ \A c \in Lists : \A i, j \in DOMAIN list'[c] : list'[c][i] = list'[c][j] => i = j
    BY <2>2, Zenon DEF ListOK
  <2>4. /\ DOMAIN node' = Plain /\ DOMAIN map' = Maps
        /\ \A p \in Plain : node'[p].path = p
        /\ \A m \in Maps : DOMAIN map'[m] = Key
        /\ \A m \in Maps, k \in Key : map'[m][k] # Nil => map'[m][k].path = Append(m, k)
    BY DEF ObjectsOK
  <2> QED BY <1>1, <1>2, <2>3, <2>4, Zenon DEF ObjectsOK
<1>4. ASSUME NEW o \in Held' PROVE o \in Held \cup {new}
  <2>1. DOMAIN list = Lists
    BY Zenon DEF ObjectsOK
  <2>2. CASE \E p \in DOMAIN node' : o = node'[p]
    BY <2>2, HeldIs, Zenon
  <2>3. CASE \E m \in DOMAIN map' : \E k \in Key : map'[m][k] # Nil /\ o = map'[m][k]
    BY <2>3, HeldIs, Zenon
  <2>4. ASSUME NEW c \in DOMAIN list', NEW i \in DOMAIN list'[c], o = list'[c][i]
        PROVE  o \in Held \cup {new}
    <3>1. o = new \/ \E j \in DOMAIN list[c] : o = list[c][j]
      BY <1>2, <2>4 DEF ListMoves
    <3> QED BY <1>2, <2>1, <3>1, HeldIs, Zenon
  <2> QED BY <2>2, <2>3, <2>4, HeldIsNext, SMTT(20)
<1>5. ASSUME NEW q, q \notin T, NEW o PROVE HeldAt(q, o)' <=> HeldAt(q, o)
  <2>1. InMap(q, o)' <=> InMap(q, o)
    BY <1>1, Zenon DEF InMap
  <2>2. ASSUME NEW c \in Lists, NEW i, q = Append(c, i)
        PROVE  (i \in DOMAIN list'[c] /\ o = list'[c][i]) <=> (i \in DOMAIN list[c] /\ o = list[c][i])
    BY <1>2, <1>5, <2>2, Zenon DEF ListMoves
  <2>3. InList(q, o)' <=> InList(q, o)
    BY <1>1, <2>2, SMTT(20) DEF InList
  <2> QED BY <1>1, <2>1, <2>3, Zenon DEF HeldAt
<1> QED BY <1>3, <1>4, <1>5, Zenon

\* r is s with o after it, or at i.
Replaced(s, i, o, r) ==
    \/ r = Append(s, o) /\ i = Len(s) + 1 /\ Len(s) < MaxLen
    \/ r = [s EXCEPT ![i] = o] /\ i \in DOMAIN s

PutTo(s, i, o, r) ==
    /\ i \in DOMAIN r /\ r[i] = o /\ DOMAIN r = DOMAIN s \cup {i}
    /\ \A j \in DOMAIN s : j # i => r[j] = s[j]

\* A function on 1 .. n is a sequence of length n.
LEMMA FunctionIsSeq ==
    ASSUME NEW S, NEW n \in Nat, NEW r \in [1 .. n -> S]
    PROVE  r \in Seq(S) /\ Len(r) = n
OBVIOUS

\* A List with a new node is a List with that node at its index.
LEMMA ReplacedIs ==
    ASSUME NEW s \in Seq(Object), Len(s) <= MaxLen, NEW o \in Object, NEW i, NEW r, Replaced(s, i, o, r)
    PROVE  r \in Seq(Object) /\ Len(r) <= MaxLen /\ PutTo(s, i, o, r)
<1> DEFINE Is == r \in Seq(Object) /\ Len(r) <= MaxLen /\ PutTo(s, i, o, r)
<1>1. ASSUME r = Append(s, o), i = Len(s) + 1, Len(s) < MaxLen PROVE Is
  BY <1>1, DocumentAssumption DEF PutTo
<1>2. ASSUME r = [s EXCEPT ![i] = o], i \in DOMAIN s PROVE Is
  <2>1. DOMAIN s = 1 .. Len(s) /\ Len(s) \in Nat /\ \A j \in 1 .. Len(s) : s[j] \in Object
    OBVIOUS
  <2>2. r \in [1 .. Len(s) -> Object]
    BY <1>2, <2>1, Zenon
  <2>3. r \in Seq(Object) /\ Len(r) = Len(s)
    BY <2>1, <2>2, FunctionIsSeq, Zenon
  <2> QED BY <1>2, <2>1, <2>2, <2>3, Zenon DEF PutTo
<1> QED BY <1>1, <1>2, Zenon DEF Replaced

\* It may be held by the container, when the node is new.
LEMMA PutIs ==
    ASSUME NEW l, NEW s, ListOK(l, s), NEW i \in Nat, NEW o \in Object, o.path = Append(l, i),
           \A j \in DOMAIN s : s[j] # o, NEW r, Replaced(s, i, o, r)
    PROVE  ListOK(l, r) /\ PutTo(s, i, o, r)
<1>1. s \in Seq(Object) /\ Len(s) \in Nat /\ Len(s) <= MaxLen /\ DOMAIN s = 1 .. Len(s)
  BY DEF ListOK
<1>2. /\ r \in Seq(Object) /\ Len(r) <= MaxLen /\ i \in DOMAIN r /\ r[i] = o
      /\ DOMAIN r = DOMAIN s \cup {i} /\ \A j \in DOMAIN s : j # i => r[j] = s[j]
  <2>1. r \in Seq(Object) /\ Len(r) <= MaxLen /\ PutTo(s, i, o, r)
    BY <1>1, ReplacedIs, Zenon
  <2> QED BY <2>1, Zenon DEF PutTo
<1>3. i \in 1 .. MaxLen
  BY <1>1, DocumentAssumption DEF Replaced
<1>4. \A j \in DOMAIN r : \E c \in 1 .. MaxLen : r[j].path = Append(l, c)
  <2>1. ASSUME NEW j \in DOMAIN r PROVE \E c \in 1 .. MaxLen : r[j].path = Append(l, c)
    <3>1. CASE j = i
      BY <1>2, <1>3, <3>1, Zenon
    <3>2. CASE j # i
      <4>1. j \in DOMAIN s /\ r[j] = s[j]
        BY <1>2, <3>2, Zenon
      <4> QED BY <4>1, Zenon DEF ListOK
    <3> QED BY <3>1, <3>2, Zenon
  <2> QED BY <2>1, Zenon
<1>5. \A j, c \in DOMAIN r : r[j] = r[c] => j = c
  <2>1. \A j, c \in DOMAIN s : s[j] = s[c] => j = c
    BY DEF ListOK
  <2>2. ASSUME NEW j \in DOMAIN r, NEW c \in DOMAIN r, r[j] = r[c] PROVE j = c
    <3>1. \A d \in DOMAIN r : d # i => d \in DOMAIN s /\ r[d] = s[d] /\ r[d] # o
      BY <1>2, Zenon
    <3> QED BY <1>2, <2>1, <2>2, <3>1, Zenon
  <2> QED BY <2>2, Zenon
<1> QED BY <1>2, <1>4, <1>5, Zenon DEF ListOK, PutTo

\* AppendData and Update put a new node at its index and report it.
LEMMA PutKeeps ==
    ASSUME DocInv, NEW l \in Lists, NEW i \in Nat, NEW v, NEW longer,
           \/ longer = TRUE /\ i = Len(list[l]) + 1 /\ Len(list[l]) < MaxLen
           \/ longer = FALSE /\ i \in DOMAIN list[l],
           Put(l, i, v, longer)
    PROVE  DocInv'
<1> DEFINE at == Append(l, i)
<1>0. PICK o : o = NewNode(at)
  BY Zenon
<1>01. stage = "live"
  BY Zenon DEF Put
<1>2. /\ schema \in Type /\ Stored /\ LiveOK /\ ObjectsOK /\ HeapOK /\ DirtyPathsDisjoint
      /\ DirtyOK
  BY <1>01, LiveIs, SMTT(20)
<1>00. PICK s :
         /\ list' = [list EXCEPT ![l] = s]
         /\ \/ s = Append(list[l], o) /\ i = Len(list[l]) + 1 /\ Len(list[l]) < MaxLen
            \/ s = [list[l] EXCEPT ![i] = o] /\ i \in DOMAIN list[l]
  BY <1>0, <1>2, Zenon DEF Put, ObjectsOK
<1>1. /\ Idle /\ schema' = schema /\ db' = db /\ KeepWith(o, v)
      /\ UNCHANGED <<node, map>> /\ list' = [list EXCEPT ![l] = s]
      /\ dirty' = AddDirty(o.path, o) /\ unsaved' = unsaved \ {at}
  BY <1>0, <1>00, <1>2, Zenon DEF Put, Idle, ObjectsOK
<1>20. ListOK(l, list[l])
  BY <1>2, Zenon DEF ListOK, ObjectsOK
<1>21. i \in 1 .. MaxLen
  <2>1. Len(list[l]) \in Nat /\ Len(list[l]) <= MaxLen /\ DOMAIN list[l] = 1 .. Len(list[l])
    BY <1>20 DEF ListOK
  <2> QED BY <2>1, DocumentAssumption, SMTT(20)
<1>3. at \in Place /\ at \notin Plain
  BY <1>2, <1>21, ElementPlace, Zenon
<1>4. at \in Seq(Segment) /\ DOMAIN dirty \subseteq Seq(Segment)
  BY <1>2, <1>3, PlacePaths, Zenon DEF DirtyOK
<1>5. o \in Object /\ o.path = at /\ o \notin Used
  BY <1>0, <1>2, <1>4, NewNodeIsNew, Zenon DEF HeapOK
<1>6. \A j \in DOMAIN list[l] : list[l][j] # o
  <2>1. \A j \in DOMAIN list[l] : HeldAt(Append(l, j), list[l][j])
    BY Zenon DEF HeldAt, InList
  <2> QED BY <1>2, <1>5, <2>1, HeldIsUsed, Zenon
<1>7. /\ ListOK(l, s) /\ i \in DOMAIN s /\ s[i] = o /\ DOMAIN s = DOMAIN list[l] \cup {i}
      /\ \A j \in DOMAIN list[l] : j # i => s[j] = list[l][j]
  <2> HIDE DEF at
  <2>1. o.path = Append(l, i)
    BY <1>5 DEF at
  <2>2. PICK t : t = list[l]
    BY Zenon
  <2>3. /\ ListOK(l, t) /\ \A j \in DOMAIN t : t[j] # o
        /\ Replaced(t, i, o, s)
    BY <1>00, <1>6, <1>20, <2>2, Zenon DEF Replaced
  <2>4. o \in Object
    BY <1>5, Zenon
  <2>5. ListOK(l, s) /\ PutTo(t, i, o, s)
    BY <2>1, <2>3, <2>4, PutIs, Zenon
  <2> QED BY <2>2, <2>5, Zenon DEF PutTo
<1>8. /\ ObjectsOK' /\ Held' \subseteq Held \cup {o}
      /\ \A q : q \notin {at} => \A r : HeldAt(q, r)' <=> HeldAt(q, r)
  <2>1. PICK T : T = {at}
    BY Zenon
  <2>2. ListMoves(l, s, T, o)
    BY <1>7, <2>1 DEF ListMoves
  <2>3. /\ ObjectsOK' /\ Held' \subseteq Held \cup {o}
        /\ \A q : q \notin T => \A r : HeldAt(q, r)' <=> HeldAt(q, r)
    <3>1. /\ schema \in Type /\ schema' = schema /\ ObjectsOK /\ UNCHANGED <<node, map>>
          /\ list' = [list EXCEPT ![l] = s] /\ ListOK(l, s)
      BY <1>1, <1>2, <1>7, Zenon
    <3> QED BY <2>2, <3>1, ListChanges, Zenon
  <2> QED BY <2>1, <2>3, Zenon
<1>9. HeldAt(at, o)'
  <2>1. Lists' = Lists
    BY <1>1, SchemaSame, Zenon
  <2>2. list'[l] = s
    BY <1>1, <1>2, SMTT(20) DEF ObjectsOK
  <2> QED BY <1>7, <2>1, <2>2, Zenon DEF HeldAt, InList
<1> HIDE DEF at
<1>10. IsFiniteSet(Used')
  <2>1. \A q \in DOMAIN dirty' : dirty'[q] = o \/ (q \in DOMAIN dirty /\ dirty'[q] = dirty[q])
    BY <1>1, <1>2, <1>4, <1>5, AddDirtyIs, Zenon
  <2> QED BY <1>2, <1>8, <2>1, UsedFinite, Zenon DEF HeapOK
<1>11. HeapOK' /\ \A q, r : HeldAt(q, r)' /\ r # o => heap'[r] = heap[r]
  BY <1>1, <1>2, <1>8, <1>10, KeptOtherData, Zenon
<1>12. Untouched({at})
  <2>1. ASSUME NEW q, q # at, NEW r, HeldAt(q, r) PROVE heap'[r] = heap[r]
    <3>1. r # o
      BY <1>2, <1>5, <2>1, HeldIsUsed, SMTT(20)
    <3> QED BY <1>8, <1>11, <2>1, <3>1, Zenon
  <2> QED BY <1>8, <2>1, Zenon DEF Untouched
<1>13. LiveOK' /\ DirtyPathsDisjoint'
  BY <1>1, <1>2, <1>3, <1>5, <1>8, <1>9, <1>11, <1>12, ReportedStep, Zenon
<1> QED BY <1>01, <1>1, <1>13, LiveNext, Zenon

\* What is left of the indexes is no more than there was.
LEMMA RestIsSmaller ==
    ASSUME NEW n \in Nat, NEW rest \in SUBSET (1 .. n)
    PROVE  Cardinality(rest) \in Nat /\ Cardinality(rest) <= n
<1>1. IsFiniteSet(1 .. n) /\ Cardinality(1 .. n) = n
  BY FS_Interval
<1>2. IsFiniteSet(rest) /\ Cardinality(rest) <= Cardinality(1 .. n)
  BY <1>1, FS_Subset, Zenon
<1>3. Cardinality(rest) \in Nat
  BY <1>2, FS_CardinalityType, Zenon
<1> QED BY <1>1, <1>2, <1>3

\* Indexes that are taken in order are taken once.
LEMMA IncreasingIsInjective ==
    ASSUME NEW n \in Nat, NEW m \in Nat, NEW kept \in [1 .. n -> 1 .. m],
           \A i, j \in 1 .. n : i < j => kept[i] < kept[j]
    PROVE  \A i, j \in 1 .. n : kept[i] = kept[j] => i = j
<1>1. ASSUME NEW i \in 1 .. n, NEW j \in 1 .. n, kept[i] = kept[j], i # j PROVE FALSE
  <2>1. i < j \/ j < i
    BY <1>1
  <2>2. kept[i] \in Nat /\ kept[j] \in Nat
    OBVIOUS
  <2> QED BY <1>1, <2>1, <2>2
<1> QED BY <1>1, Zenon

\* At most is transitive.
LEMMA AtMost == \A a, b, c \in Nat : a <= b /\ b <= c => a <= c
OBVIOUS

\* A List that lost elements has nodes that it had, none of them twice.
LEMMA KeptIs ==
    ASSUME NEW l, NEW s, ListOK(l, s), NEW rest, rest \subseteq DOMAIN s,
           NEW kept, kept \in [1 .. Cardinality(rest) -> rest],
           \A i, j \in DOMAIN kept : i < j => kept[i] < kept[j],
           NEW r, r = [i \in DOMAIN kept |-> s[kept[i]]]
    PROVE  ListOK(l, r) /\ \A i \in DOMAIN r : \E j \in DOMAIN s : r[i] = s[j]
<1>1. s \in Seq(Object) /\ Len(s) \in Nat /\ Len(s) <= MaxLen /\ DOMAIN s = 1 .. Len(s)
  BY DEF ListOK
<1>2. PICK n : n = Cardinality(rest)
  BY Zenon
<1>3. n \in Nat /\ n <= Len(s)
  BY <1>1, <1>2, RestIsSmaller, Zenon
<1>4. kept \in [1 .. n -> 1 .. Len(s)] /\ DOMAIN kept = 1 .. n
  BY <1>1, <1>2
<1>5. \A i \in 1 .. n : kept[i] \in DOMAIN s /\ r[i] = s[kept[i]]
  BY <1>1, <1>4, Zenon
<1>6. r \in [1 .. n -> Object]
  <2>1. \A j \in DOMAIN s : s[j] \in Object
    BY <1>1
  <2>2. r = [i \in 1 .. n |-> s[kept[i]]]
    BY <1>4
  <2> QED BY <1>5, <2>1, <2>2, Zenon
<1>7. r \in Seq(Object) /\ Len(r) = n /\ DOMAIN r = 1 .. n
  BY <1>3, <1>6, FunctionIsSeq, Zenon
<1>8. Len(r) <= MaxLen
  BY <1>1, <1>3, <1>7, DocumentAssumption, AtMost, Zenon
<1>9. \A i \in DOMAIN r : \E j \in 1 .. MaxLen : r[i].path = Append(l, j)
  <2>1. \A i \in DOMAIN s : \E j \in 1 .. MaxLen : s[i].path = Append(l, j)
    BY Zenon DEF ListOK
  <2>2. ASSUME NEW i \in DOMAIN r PROVE \E j \in 1 .. MaxLen : r[i].path = Append(l, j)
    <3>1. kept[i] \in DOMAIN s /\ r[i] = s[kept[i]]
      BY <1>5, <1>7, Zenon
    <3> QED BY <2>1, <3>1, Zenon
  <2> QED BY <2>2, Zenon
<1>10. \A i, j \in 1 .. n : kept[i] = kept[j] => i = j
  BY <1>1, <1>3, <1>4, IncreasingIsInjective, Zenon
<1>11. \A i, j \in DOMAIN r : r[i] = r[j] => i = j
  <2>1. \A i, j \in DOMAIN s : s[i] = s[j] => i = j
    BY Zenon DEF ListOK
  <2>2. ASSUME NEW i \in DOMAIN r, NEW j \in DOMAIN r, r[i] = r[j] PROVE i = j
    <3>1. i \in 1 .. n /\ j \in 1 .. n
      BY <1>7, Zenon
    <3>2. s[kept[i]] = s[kept[j]] /\ kept[i] \in DOMAIN s /\ kept[j] \in DOMAIN s
      BY <1>5, <2>2, <3>1, Zenon
    <3> QED BY <1>10, <2>1, <3>1, <3>2, Zenon
  <2> QED BY <2>2, Zenon
<1> QED BY <1>5, <1>7, <1>8, <1>9, <1>11, Zenon DEF ListOK

\* DeleteMore moves elements to other places and excuses the List.
LEMMA DeleteMoreKeeps ==
    ASSUME DocInv, NEW l \in Lists, NEW idxs, DeleteMore(l, idxs)
    PROVE  DocInv'
<1>1. /\ stage = "live" /\ Idle /\ schema' = schema /\ db' = db /\ dirty' = dirty
      /\ Keep /\ UNCHANGED <<node, map>> /\ unsaved' = unsaved \cup {l}
  BY DEF DeleteMore, Idle
<1>2. /\ schema \in Type /\ Stored /\ LiveOK /\ ObjectsOK /\ HeapOK /\ DirtyPathsDisjoint
  BY <1>1, LiveIs, Zenon
<1>3. ListOK(l, list[l])
  BY <1>2 DEF ListOK, ObjectsOK
<1>4. PICK rest : rest = DOMAIN list[l] \ idxs
  BY Zenon
<1>5. PICK kept \in [1 .. Cardinality(rest) -> rest] :
         /\ \A i, j \in DOMAIN kept : i < j => kept[i] < kept[j]
         /\ list' = [list EXCEPT ![l] = [i \in DOMAIN kept |-> list[l][kept[i]]]]
  BY <1>4, Zenon DEF DeleteMore
<1>6. PICK s : s = [i \in DOMAIN kept |-> list[l][kept[i]]]
  BY Zenon
<1>7. list' = [list EXCEPT ![l] = s]
  BY <1>5, <1>6, Zenon
<1>8. ListOK(l, s) /\ \A i \in DOMAIN s : \E j \in DOMAIN list[l] : s[i] = list[l][j]
  <2>1. PICK t : t = list[l]
    BY Zenon
  <2>2. ListOK(l, t) /\ rest \subseteq DOMAIN t /\ s = [i \in DOMAIN kept |-> t[kept[i]]]
    BY <1>3, <1>4, <1>6, <2>1, SMTT(20)
  <2>3. ListOK(l, s) /\ \A i \in DOMAIN s : \E j \in DOMAIN t : s[i] = t[j]
    BY <1>5, <2>2, KeptIs, Zenon
  <2> QED BY <2>1, <2>3, Zenon
<1>9. PICK T : T = {Append(l, i) : i \in DOMAIN list[l] \cup DOMAIN s}
  BY Zenon
<1>10. ListMoves(l, s, T, Nil)
  BY <1>8, <1>9, Zenon DEF ListMoves
<1>11. /\ ObjectsOK' /\ Held' \subseteq Held \cup {Nil}
       /\ \A q : q \notin T => \A o : HeldAt(q, o)' <=> HeldAt(q, o)
  <2>1. /\ schema \in Type /\ schema' = schema /\ ObjectsOK /\ UNCHANGED <<node, map>>
        /\ ListOK(l, s)
    BY <1>1, <1>2, <1>8, Zenon
  <2> QED BY <1>7, <1>10, <2>1, ListChanges, Zenon
<1>12. IsFiniteSet(Used')
  BY <1>1, <1>2, <1>11, UsedFinite, Zenon DEF HeapOK
<1>13. HeapOK' /\ \A q, o : HeldAt(q, o)' => heap'[o] = heap[o]
  BY <1>1, <1>2, <1>11, <1>12, KeptData, Zenon
<1>14. Untouched(T)
  BY <1>11, <1>13, Zenon DEF Untouched
<1>15. \A q \in T : ExcusedAt(q)'
  <2>1. Lists' = Lists /\ l \in Seq(Segment)
    BY <1>1, <1>2, SchemaSame, SchemaPaths, Zenon
  <2>2. \A i \in Nat : HasPrefix(Append(l, i), l)
    <3>1. \A i \in Nat : i \in Segment
      BY Zenon DEF Segment
    <3> QED BY <2>1, <3>1, PrefixOfElement, Zenon
  <2>3. DOMAIN list[l] \subseteq Nat /\ DOMAIN s \subseteq Nat
    BY <1>3, <1>8 DEF ListOK
  <2>4. \A q \in T : HasPrefix(q, l)
    BY <1>9, <2>2, <2>3, Zenon
  <2> QED BY <1>1, <2>1, <2>4, Zenon DEF ExcusedAt
<1>16. LiveOK'
  <2>1. unsaved \subseteq unsaved'
    BY <1>1, Zenon
  <2> QED BY <1>1, <1>2, <1>11, <1>13, <1>14, <1>15, <2>1, UnreportedStep, Zenon
<1>17. DirtyPathsDisjoint'
  BY <1>1, <1>2, Zenon DEF DirtyPathsDisjoint
<1> QED BY <1>1, <1>16, <1>17, LiveNext, Zenon

\* A write puts leaves at or below the dirty path.
LEMMA WrittenBelow ==
    ASSUME schema \in Type, ObjectsOK, NEW p \in Place, NEW x \in Written(p)
    PROVE  x.at \in Place /\ x = Leaf(x.at, x.val) /\ HasPrefix(x.at, p)
<1>1. CASE p \in Plain
  <2>1. x \in Image /\ HasPrefix(x.at, p)
    BY <1>1, WrittenIs, Zenon
  <2>2. x.at \in Place /\ \E o : x = Leaf(x.at, heap[o])
    BY <2>1, ImageLeaf, Zenon
  <2> QED BY <2>1, <2>2, LeafFields, SMTT(20)
<1>2. CASE p \notin Plain
  <2>1. x = Leaf(p, heap[dirty[p]])
    BY <1>2, WrittenIs, Zenon
  <2>2. x.at = p /\ x = Leaf(x.at, x.val)
    BY <2>1, LeafFields
  <2>3. HasPrefix(p, p)
    BY PlacePaths, PrefixOrder, Zenon
  <2> QED BY <2>2, <2>3, Zenon
<1> QED BY <1>1, <1>2, Zenon

\* Two writes of one update do not meet.
LEMMA WrittenOnce ==
    ASSUME schema \in Type, ObjectsOK, DirtyOK, DirtyPathsDisjoint,
           NEW p \in DOMAIN dirty, NEW r \in DOMAIN dirty,
           NEW x \in Written(p), NEW y \in Written(r), x.at = y.at
    PROVE  x = y
<1>1. p \in Place /\ r \in Place
  BY Zenon DEF DirtyOK
<1>2. /\ x.at \in Place /\ HasPrefix(x.at, p) /\ HasPrefix(x.at, r)
      /\ x = Leaf(x.at, x.val) /\ y = Leaf(y.at, y.val)
  BY <1>1, WrittenBelow, Zenon
<1>3. p = r
  <2>1. p \in Seq(Segment) /\ r \in Seq(Segment) /\ x.at \in Seq(Segment)
    BY <1>1, <1>2, PlacePaths, Zenon
  <2>2. HasPrefix(p, r) \/ HasPrefix(r, p)
    BY <1>2, <2>1, PrefixesCompare, Zenon
  <2> QED BY <2>2, Zenon DEF DirtyPathsDisjoint, Below
<1>4. CASE p \in Plain
  <2>1. x \in Image /\ y \in Image
    BY <1>3, <1>4, WrittenIs, Zenon
  <2>2. PICK o : HeldAt(x.at, o) /\ x = Leaf(x.at, heap[o])
    BY <2>1, ImageLeaf, Zenon
  <2>3. y = Leaf(y.at, heap[o])
    BY <2>1, <2>2, ImageUnique, Zenon
  <2> QED BY <2>2, <2>3, Zenon
<1>5. CASE p \notin Plain
  BY <1>3, <1>5, WrittenIs, SMTT(20)
<1> QED BY <1>4, <1>5, Zenon

\* The document that a write leaves has one leaf for each of its places, and
\* its plain nodes are all there.
LEMMA UpdatedStored ==
    ASSUME schema \in Type, ObjectsOK, DirtyOK, DirtyPathsDisjoint, Stored, Complete
    PROVE  /\ \A x \in Updated : x.at \in Place /\ x = Leaf(x.at, x.val)
           /\ \A x, y \in Updated : x.at = y.at => x = y
           /\ \A p \in Plain : \E x \in Updated : x.at = p
<1>1. DOMAIN dirty \subseteq Place /\ Place \subseteq Seq(Segment)
  BY PlacePaths, Zenon DEF DirtyOK
<1>2. \A p \in DOMAIN dirty : \A x \in Written(p) :
         x.at \in Place /\ x = Leaf(x.at, x.val) /\ Covered(x.at)
  BY <1>1, WrittenBelow, Zenon DEF Covered
<1>3. ASSUME NEW x \in Updated PROVE x.at \in Place /\ x = Leaf(x.at, x.val)
  BY <1>2, UpdatedIs, Zenon DEF Stored
<1>4. ASSUME NEW x \in Updated, NEW y \in Updated, x.at = y.at PROVE x = y
  <2>1. CASE Covered(x.at)
    <3>1. PICK p \in DOMAIN dirty : x \in Written(p)
      BY <2>1, UpdatedIs, Zenon
    <3>2. PICK r \in DOMAIN dirty : y \in Written(r)
      BY <1>4, <2>1, UpdatedIs, Zenon
    <3> QED BY <1>4, <3>1, <3>2, WrittenOnce, Zenon
  <2>2. CASE ~Covered(x.at)
    <3>1. x \in db
      BY <1>2, <2>2, UpdatedIs, Zenon
    <3>2. y \in db
      BY <1>2, <1>4, <2>2, UpdatedIs, Zenon
    <3> QED BY <1>4, <3>1, <3>2, Zenon DEF Stored
  <2> QED BY <2>1, <2>2, Zenon
<1>5. ASSUME NEW p \in Plain PROVE \E x \in Updated : x.at = p
  <2>1. p \in Place
    BY DEF Place
  <2>2. CASE Covered(p)
    <3>1. PICK d \in DOMAIN dirty : HasPrefix(p, d)
      BY <2>2, Zenon DEF Covered
    <3>2. d \in Plain
      BY <1>1, <2>1, <3>1, BelowElement, Zenon
    <3>3. PICK x : x = Leaf(p, heap[node[p]])
      BY Zenon
    <3>4. x.at = p /\ x \in Image
      BY <3>3, LeafFields, ImageIs, Zenon DEF HeldAt
    <3>5. x \in Written(d)
      BY <3>1, <3>2, <3>4, WrittenIs, Zenon
    <3> QED BY <3>4, <3>5, UpdatedIs, Zenon
  <2>3. CASE ~Covered(p)
    <3>1. PICK x \in db : x.at = p
      BY Zenon DEF Complete
    <3> QED BY <2>3, <3>1, UpdatedIs, Zenon
  <2> QED BY <2>2, <2>3, Zenon
<1> QED BY <1>3, <1>4, <1>5, Zenon

\* A write stores what is not excused, and leaves nothing dirty.
LEMMA FlushKeeps ==
    ASSUME DocInv, Flush
    PROVE  DocInv'
<1>1. /\ stage = "live" /\ stage' = stage /\ schema' = schema /\ db' = Updated /\ Keep
      /\ UNCHANGED <<node, map, list, unsaved>> /\ DOMAIN dirty' = {}
  BY DEF Flush, Idle, ResetDirty
<1>2. /\ schema \in Type /\ Stored /\ ObjectsOK /\ HeapOK /\ DirtyPathsDisjoint
      /\ DirtyOK /\ Complete /\ SyncOK
  BY <1>1, LiveIs, Zenon
<1>3. Plain' = Plain /\ Lists' = Lists /\ Place' = Place
  BY <1>1, SchemaSame, Zenon
<1>4. ObjectsOK' /\ Held' = Held /\ \A q, r : HeldAt(q, r)' <=> HeldAt(q, r)
  BY <1>1, <1>2, SameObjects, Zenon
<1>5. HeapOK' /\ \A q, o : HeldAt(q, o)' => heap'[o] = heap[o]
  <2>1. IsFiniteSet(Used')
    BY <1>1, <1>2, <1>4, UsedFinite, Zenon DEF HeapOK
  <2> QED BY <1>1, <1>2, <1>4, <2>1, KeptData, Zenon
<1>6. DirtyPathsDisjoint' /\ DirtyOK'
  BY <1>1, Zenon DEF DirtyPathsDisjoint, DirtyOK
<1>7. Stored' /\ Complete'
  <2>1. /\ \A x \in db' : x.at \in Place /\ x = Leaf(x.at, x.val)
        /\ \A x, y \in db' : x.at = y.at => x = y
        /\ \A p \in Plain : \E x \in db' : x.at = p
    BY <1>1, <1>2, UpdatedStored, Zenon
  <2> QED BY <1>3, <2>1, Zenon DEF Stored, Complete, Leaf
<1>8. Image' = Image
  <2>1. \A x : x \in Image' <=> x \in Image
    BY <1>4, <1>5, ImageHeld, ImageHeldNext, Zenon
  <2> QED BY <2>1, Zenon
<1>9. SyncOK'
  <2>1. \A q : Clean(q)' => ~ExcusedAt(q)
    BY <1>1, <1>3, Zenon DEF Clean, ExcusedAt
  <2>2. \A x : ~ExcusedAt(x.at) => (x \in Updated <=> x \in Image)
    BY <1>2, WriteStores, Zenon
  <2> QED BY <1>1, <1>8, <2>1, <2>2, Zenon DEF SyncOK
<1>10. LiveOK'
  BY <1>4, <1>5, <1>6, <1>7, <1>9, Zenon DEF LiveOK
<1> QED BY <1>1, <1>2, <1>6, <1>7, <1>10, Zenon DEF DocInv

\* Register comes before anything is stored.
LEMMA RegisterKeeps ==
    ASSUME DocInv, NEW t \in Type, Register(t)
    PROVE  DocInv'
<1>1. db = {} /\ DirtyPathsDisjoint
  BY DEF Register, DocInv
<1>2. dirty' = dirty /\ db' = db
  BY DEF Register
<1>3. DirtyPathsDisjoint' /\ Stored'
  BY <1>1, <1>2, Zenon DEF DirtyPathsDisjoint, Stored
<1>4. (stage' = "registered" /\ schema' = t) \/ stage' = "panic"
  BY DEF Register
<1> QED BY <1>1, <1>2, <1>3, <1>4, Zenon DEF DocInv

\* A new document has its plain nodes.
LEMMA InsertKeeps ==
    ASSUME DocInv, Insert
    PROVE  DocInv'
<1>1. /\ stage = "registered" /\ stage' = stage /\ schema' = schema /\ dirty' = dirty
      /\ schema \in Type /\ DirtyPathsDisjoint
  BY Zenon DEF Insert, DocInv
<1>2. PICK val \in [Plain -> Val] : db' = {Leaf(p, val[p]) : p \in Plain}
  BY DEF Insert
<1>3. Plain' = Plain /\ Place' = Place
  BY <1>1, SchemaSame, Zenon
<1>4. DirtyPathsDisjoint'
  BY <1>1, Zenon DEF DirtyPathsDisjoint
<1>5. \A x \in db' : \E p \in Plain : x = Leaf(p, val[p]) /\ x.at = p /\ x.val = val[p]
  BY <1>2, LeafFields
<1>6. \A x \in db' : x.at \in Place' /\ x = Leaf(x.at, x.val)
  <2>1. Plain \subseteq Place
    BY DEF Place
  <2> QED BY <1>3, <1>5, <2>1, Zenon
<1>7. \A x, y \in db' : x.at = y.at => x = y
  BY <1>5, Zenon
<1>8. Stored'
  BY <1>6, <1>7, Zenon DEF Stored, Leaf
<1>9. Complete'
  <2>1. \A p \in Plain : Leaf(p, val[p]) \in db' /\ Leaf(p, val[p]).at = p
    BY <1>2, LeafFields, Zenon
  <2> QED BY <1>3, <2>1, Zenon DEF Complete
<1> QED BY <1>1, <1>4, <1>8, <1>9, Zenon DEF DocInv

-----------------------------------------------------------------------------
\* Loading

\* Init gives a node its path.
LEMMA LoadedIs ==
    \A at \in Seq(Segment) : Loaded(at) \in Object /\ Loaded(at).path = at /\ Loaded(at) # Nil
<1>1. \A at \in Seq(Segment) : Loaded(at) \in Object /\ Loaded(at).path = at
  BY Zenon DEF Loaded, Object
<1> QED BY <1>1, NilIsNoObject, Zenon

\* A stored document has finitely many leaves.
LEMMA StoredFinite ==
    ASSUME schema \in Type, Stored
    PROVE  IsFiniteSet(db)
<1> DEFINE f == [x \in db |-> x.at]
<1>1. f \in [db -> Place] /\ \A x, y \in db : f[x] = f[y] => x = y
  BY DEF Stored
<1>2. f \in Injection(db, Place)
  BY <1>1, Zenon DEF Injection, IsInjective
<1> QED BY <1>2, PlaceFinite, FS_Injection, Zenon

\* A List that decodes has the elements 1 .. n that are stored, and no more
\* than a List may have.
LEMMA DecodedList ==
    ASSUME schema \in Type, Stored, Decodes, NEW l \in Lists
    PROVE  /\ Cardinality(At(l)) \in Nat /\ Cardinality(At(l)) <= MaxLen
           /\ \A i \in 1 .. Cardinality(At(l)) : \E x \in db : x.at = Append(l, i)
           /\ \A x \in db : HasPrefix(x.at, l) =>
                 \E i \in 1 .. Cardinality(At(l)) : x.at = Append(l, i)
<1>1. PICK n : n = Cardinality(At(l))
  OBVIOUS
<1>2. n \in Nat
  <2>1. At(l) \in SUBSET db
    BY DEF At
  <2>2. IsFiniteSet(At(l))
    BY <2>1, StoredFinite, FS_Subset, Zenon
  <2> QED BY <1>1, <2>2, FS_CardinalityType, Zenon
<1>3. {x.at : x \in At(l)} = {Append(l, i) : i \in 1 .. n}
  BY <1>1, Zenon DEF Decodes
<1>4. \A i \in 1 .. n : \E x \in At(l) : x.at = Append(l, i)
  BY <1>3, Zenon
<1>5. \A x \in At(l) : \E i \in 1 .. n : x.at = Append(l, i)
  BY <1>3, Zenon
<1>6. l \in Seq(Segment) /\ l \notin Plain
  BY SchemaPaths
<1>7. n <= MaxLen
  <2>1. SUFFICES ASSUME n # 0 PROVE n <= MaxLen
    BY <1>2, DocumentAssumption
  <2>2. PICK x \in At(l) : x.at = Append(l, n)
    BY <1>2, <1>4, <2>1, SMTT(20)
  <2>3. x.at \in Place /\ HasPrefix(x.at, l)
    BY DEF At, Stored, Below
  <2>4. PICK i \in 1 .. MaxLen : x.at = Append(l, i)
    BY <2>3, BelowList, Zenon
  <2>5. n \in Segment /\ i \in Segment
    BY <1>2, Segments
  <2>6. i = n
    <3>1. Append(l, i) = Append(l, n)
      BY <2>2, <2>4, Zenon
    <3>2. l \in Maps \cup Lists
      BY Zenon
    <3> QED BY <2>5, <3>1, <3>2, ElementsDiffer, Zenon
  <2> QED BY <1>2, <2>6, DocumentAssumption, SMTT(20)
<1>8. \A x \in db : HasPrefix(x.at, l) => x \in At(l)
  <2>1. ASSUME NEW x \in db, HasPrefix(x.at, l), x.at = l PROVE FALSE
    <3>1. x.at \in Place
      BY DEF Stored
    <3>2. PICK i \in 1 .. MaxLen : l = Append(l, i)
      BY <2>1, <3>1, BelowList
    <3> QED BY <1>6, <3>2, Segments, PrefixOfElement, Zenon
  <2> QED BY <2>1, Zenon DEF At, Below
<1>9. \A x \in At(l) : x \in db
  BY DEF At
<1> QED BY <1>1, <1>2, <1>4, <1>5, <1>7, <1>8, <1>9, Zenon

\* The state after Load, without its heap.
ReadIn ==
    /\ node' = [p \in Plain |-> Loaded(p)]
    /\ map' = [m \in Maps |-> UnmarshalMap(m)]
    /\ list' = [l \in Lists |-> [i \in 1 .. Cardinality(At(l)) |-> Loaded(Append(l, i))]]

\* Init2 gives every node the path of its place.
LEMMA LoadedObjects ==
    ASSUME schema \in Type, schema' = schema, Stored, Decodes, ReadIn
    PROVE  ObjectsOK'
<1>1. Plain' = Plain /\ Maps' = Maps /\ Lists' = Lists
  BY SchemaSame, Zenon
<1>2. /\ Plain \subseteq Seq(Segment)
      /\ \A m \in Maps, k \in Key : Append(m, k) \in Seq(Segment)
      /\ \A l \in Lists, i \in 1 .. MaxLen : Append(l, i) \in Seq(Segment)
  BY SchemaPaths, Segments, SMTT(20)
<1>3. DOMAIN node' = Plain /\ \A p \in Plain : node'[p].path = p
  BY <1>2, LoadedIs DEF ReadIn
<1>4. /\ DOMAIN map' = Maps /\ \A m \in Maps : DOMAIN map'[m] = Key
      /\ \A m \in Maps, k \in Key : map'[m][k] # Nil => map'[m][k].path = Append(m, k)
  <2>1. \A m \in Maps, k \in Key : map'[m][k] = Nil \/ map'[m][k] = Loaded(Append(m, k))
    BY Zenon DEF ReadIn, UnmarshalMap
  <2>2. DOMAIN map' = Maps /\ \A m \in Maps : DOMAIN map'[m] = Key
    BY Zenon DEF ReadIn, UnmarshalMap
  <2> QED BY <1>2, <2>1, <2>2, LoadedIs, Zenon
<1>5. ASSUME NEW l \in Lists PROVE ListOK(l, list'[l])
  <2>1. PICK n : n = Cardinality(At(l))
    OBVIOUS
  <2>2. n \in Nat /\ n <= MaxLen
    BY <2>1, DecodedList
  <2>3. PICK s : s = list'[l]
    OBVIOUS
  <2>4. s = [i \in 1 .. n |-> Loaded(Append(l, i))]
    BY <2>1, <2>3, Zenon DEF ReadIn
  <2>5. \A i \in 1 .. n : i \in 1 .. MaxLen /\ i \in Segment
    BY <2>2, DocumentAssumption, Segments
  <2>6. \A i \in 1 .. n : s[i] \in Object /\ s[i].path = Append(l, i)
    BY <1>2, <2>4, <2>5, LoadedIs, Zenon
  <2>7. s \in [1 .. n -> Object]
    BY <2>4, <2>6, Zenon
  <2>8. s \in Seq(Object) /\ Len(s) = n /\ DOMAIN s = 1 .. n
    BY <2>2, <2>7, FunctionIsSeq, SMTT(20)
  <2>9. \A i, j \in 1 .. n : s[i] = s[j] => i = j
    <3>1. ASSUME NEW i \in 1 .. n, NEW j \in 1 .. n, s[i] = s[j] PROVE i = j
      <4>1. Append(l, i) = Append(l, j)
        BY <2>6, <3>1, Zenon
      <4>2. l \in Maps \cup Lists /\ i \in Segment /\ j \in Segment
        BY <2>5
      <4> QED BY <4>1, <4>2, ElementsDiffer, Zenon
    <3> QED BY <3>1
  <2> QED BY <2>2, <2>3, <2>5, <2>6, <2>8, <2>9, Zenon DEF ListOK
<1>6. DOMAIN list' = Lists
  BY DEF ReadIn
<1>7. /\ \A l \in Lists : list'[l] \in Seq(Object) /\ Len(list'[l]) <= MaxLen
      /\ \A l \in Lists : \A i \in DOMAIN list'[l] :
            \E j \in 1 .. MaxLen : list'[l][i].path = Append(l, j)
      /\ \A l \in Lists : \A i, j \in DOMAIN list'[l] : list'[l][i] = list'[l][j] => i = j
  BY <1>5, Zenon DEF ListOK
<1> QED BY <1>1, <1>3, <1>4, <1>6, <1>7, Zenon DEF ObjectsOK

\* The document holds a node where a leaf is stored, and nowhere else.
LEMMA LoadedHeld ==
    ASSUME schema \in Type, schema' = schema, Stored, Complete, Decodes, ReadIn, NEW q, NEW o
    PROVE  HeldAt(q, o)' <=> o = Loaded(q) /\ \E x \in db : x.at = q
<1>1. Plain' = Plain /\ Maps' = Maps /\ Lists' = Lists
  BY SchemaSame, Zenon
<1>2. \A m \in Maps, k \in Key : Append(m, k) \in Seq(Segment)
  BY SchemaPaths, Segments, SMTT(20)
<1>3. ASSUME q \in Plain PROVE o = node'[q] <=> o = Loaded(q) /\ \E x \in db : x.at = q
  BY <1>3, Zenon DEF ReadIn, Complete
<1>4. ASSUME NEW m \in Maps, NEW k \in Key, q = Append(m, k)
      PROVE  (o = map'[m][k] /\ o # Nil) <=> o = Loaded(q) /\ \E x \in db : x.at = q
  <2>1. map'[m][k] = IF \E x \in db : x.at = q THEN Loaded(q) ELSE Nil
    BY <1>4 DEF ReadIn, UnmarshalMap
  <2>2. Loaded(q) # Nil
    BY <1>2, <1>4, LoadedIs, Zenon
  <2> QED BY <2>1, <2>2, SMTT(20)
<1>5. ASSUME NEW l \in Lists, NEW i \in DOMAIN list'[l], q = Append(l, i), o = list'[l][i]
      PROVE  o = Loaded(q) /\ \E x \in db : x.at = q
  <2>1. i \in 1 .. Cardinality(At(l)) /\ list'[l][i] = Loaded(Append(l, i))
    BY Zenon DEF ReadIn
  <2> QED BY <1>5, <2>1, DecodedList, Zenon
<1>6. ASSUME NEW l \in Lists, NEW j \in 1 .. MaxLen, q = Append(l, j), NEW x \in db, x.at = q
      PROVE  \E i \in DOMAIN list'[l] : q = Append(l, i) /\ list'[l][i] = Loaded(q)
  <2>1. HasPrefix(q, l)
    BY <1>6, SchemaPaths, Segments, PrefixOfElement, Zenon
  <2>2. PICK i \in 1 .. Cardinality(At(l)) : q = Append(l, i)
    BY <1>6, <2>1, DecodedList, Zenon
  <2>3. i \in DOMAIN list'[l] /\ list'[l][i] = Loaded(Append(l, i))
    BY Zenon DEF ReadIn
  <2> QED BY <2>2, <2>3, Zenon
<1>7. ASSUME HeldAt(q, o)' PROVE o = Loaded(q) /\ \E x \in db : x.at = q
  BY <1>1, <1>3, <1>4, <1>5, <1>7, Zenon DEF HeldAt, InMap, InList
<1>8. ASSUME o = Loaded(q), NEW x \in db, x.at = q PROVE HeldAt(q, o)'
  <2>1. q \in Place
    BY <1>8, Zenon DEF Stored
  <2>2. CASE q \in Plain
    BY <1>1, <1>3, <1>8, <2>2, Zenon DEF HeldAt
  <2>3. ASSUME NEW m \in Maps, NEW k \in Key, q = Append(m, k) PROVE HeldAt(q, o)'
    <3>1. o = map'[m][k] /\ o # Nil
      BY <1>4, <1>8, <2>3, Zenon
    <3> QED BY <1>1, <2>3, <3>1, Zenon DEF HeldAt, InMap
  <2>4. ASSUME NEW l \in Lists, NEW j \in 1 .. MaxLen, q = Append(l, j) PROVE HeldAt(q, o)'
    <3>1. \E i \in DOMAIN list'[l] : q = Append(l, i) /\ list'[l][i] = o
      BY <1>6, <1>8, <2>4, Zenon
    <3> QED BY <1>1, <3>1, Zenon DEF HeldAt, InList
  <2> QED BY <2>1, <2>2, <2>3, <2>4, SMTT(20) DEF Place, MapPlaces, ListPlaces
<1> QED BY <1>7, <1>8, Zenon

\* Every node in the document is at some place.
LEMMA HeldSomewhere == \A o : ObjectsOK /\ o \in Held => \E q : HeldAt(q, o)
<1>1. ASSUME ObjectsOK, NEW o \in Held PROVE \E q : HeldAt(q, o)
  <2>1. DOMAIN node = Plain /\ DOMAIN map = Maps /\ DOMAIN list = Lists
    BY <1>1, Zenon DEF ObjectsOK
  <2>2. CASE \E p \in Plain : o = node[p]
    BY <2>2, Zenon DEF HeldAt
  <2>3. ASSUME NEW m \in Maps, NEW k \in Key, map[m][k] # Nil, o = map[m][k] PROVE \E q : HeldAt(q, o)
    <3>1. HeldAt(Append(m, k), o)
      BY <2>3, Zenon DEF HeldAt, InMap
    <3> QED BY <3>1, Zenon
  <2>4. ASSUME NEW l \in Lists, NEW i \in DOMAIN list[l], o = list[l][i] PROVE \E q : HeldAt(q, o)
    <3>1. HeldAt(Append(l, i), o)
      BY <2>4 DEF HeldAt, InList
    <3> QED BY <3>1, Zenon
  <2> QED BY <2>1, <2>2, <2>3, <2>4, HeldIs, SMTT(20)
<1> QED BY <1>1, Zenon

\* The same after a step.
LEMMA HeldSomewhereNext == \A o : ObjectsOK' /\ o \in Held' => \E q : HeldAt(q, o)'
<1>1. (\A o : ObjectsOK /\ o \in Held => \E q : HeldAt(q, o))'
  BY HeldSomewhere, PTL
<1> QED BY <1>1, Zenon

\* A document that is read in is the one that is stored.
LEMMA LoadKeeps ==
    ASSUME DocInv, Load
    PROVE  DocInv'
<1>1. /\ schema \in Type /\ Stored /\ Complete /\ Decodes /\ DirtyPathsDisjoint
      /\ schema' = schema /\ db' = db
  BY Zenon DEF Load, DocInv, LiveOK
<1>2. CASE stage' = "panic" /\ dirty' = dirty
  BY <1>1, <1>2, Zenon DEF DocInv, DirtyPathsDisjoint
<1>3. CASE ~(stage' = "panic" /\ dirty' = dirty)
  <2>1. /\ stage' = "live" /\ ReadIn /\ DOMAIN dirty' = {} /\ unsaved' = {}
        /\ heap' = [o \in Used' |-> (CHOOSE x \in db : x.at = o.path).val]
    BY <1>3, Zenon DEF Load, ReadIn, ResetDirty
  <2>2. Plain' = Plain /\ Place' = Place
    BY <1>1, SchemaSame, Zenon
  <2>3. ObjectsOK'
    BY <1>1, <2>1, LoadedObjects, Zenon
  <2>4. \A q, o : HeldAt(q, o)' <=> o = Loaded(q) /\ \E x \in db : x.at = q
    BY <1>1, <2>1, LoadedHeld, Zenon
  <2>5. \A o \in Used' : \E q \in Place : o = Loaded(q)
    <3>1. SUFFICES ASSUME NEW o \in Held' PROVE \E q \in Place : o = Loaded(q)
      BY <2>1, Zenon DEF Used
    <3>2. PICK q : HeldAt(q, o)'
      BY <2>3, HeldSomewhereNext, Zenon
    <3> QED BY <1>1, <2>4, <3>2, Zenon DEF Stored
  <2>6. IsFiniteSet(Used')
    <3> DEFINE f == [q \in Place |-> Loaded(q)]
    <3>1. IsFiniteSet({f[q] : q \in Place})
      BY <1>1, PlaceFinite, ImageFinite, Zenon
    <3>2. Used' \in SUBSET {f[q] : q \in Place}
      BY <2>5, Zenon
    <3> QED BY <3>1, <3>2, FS_Subset, SMTT(20)
  <2>7. HeapOK'
    BY <2>1, <2>6, Zenon DEF HeapOK
  <2>8. ASSUME NEW x \in db PROVE heap'[Loaded(x.at)] = x.val
    <3>1. x.at \in Seq(Segment)
      BY <1>1, PlacePaths, Zenon DEF Stored
    <3>2. Loaded(x.at) \in Used'
      <4>1. HeldAt(x.at, Loaded(x.at))'
        BY <2>4, Zenon DEF Loaded
      <4> QED BY <1>1, <2>3, <4>1, HeldIsUsedNext, Zenon
    <3>3. Loaded(x.at).path = x.at
      BY <3>1, LoadedIs, Zenon
    <3>4. (CHOOSE y \in db : y.at = x.at) = x
      BY <1>1, Zenon DEF Stored
    <3> QED BY <2>1, <3>2, <3>3, <3>4, Zenon
  <2>9. \A x : x \in Image' <=> x \in db
    <3>1. ASSUME NEW x \in Image' PROVE x \in db
      <4>1. PICK q, o : HeldAt(q, o)' /\ x = Leaf(q, heap'[o])
        BY ImageHeldNext, Zenon
      <4>2. PICK y \in db : y.at = q /\ o = Loaded(q)
        BY <2>4, <4>1, Zenon
      <4>3. x = Leaf(y.at, y.val)
        BY <2>8, <4>1, <4>2, Zenon
      <4> QED BY <1>1, <4>3, Zenon DEF Stored
    <3>2. ASSUME NEW x \in db PROVE x \in Image'
      <4>1. PICK q, o : q = x.at /\ o = Loaded(q)
        BY Zenon
      <4>2. HeldAt(q, o)' /\ x = Leaf(q, heap'[o])
        BY <1>1, <2>4, <2>8, <4>1, Zenon DEF Stored
      <4> QED BY <4>2, ImageHeldNext, Zenon
    <3> QED BY <3>1, <3>2, Zenon
  <2>10. SyncOK'
    BY <1>1, <2>9, Zenon DEF SyncOK
  <2>11. DirtyOK' /\ DirtyPathsDisjoint'
    BY <2>1, Zenon DEF DirtyOK, DirtyPathsDisjoint
  <2>12. Stored' /\ Complete'
    BY <1>1, <2>2, Zenon DEF Stored, Complete, Leaf
  <2>13. LiveOK'
    BY <2>3, <2>7, <2>10, <2>11, <2>12, Zenon DEF LiveOK
  <2> QED BY <1>1, <2>1, <2>11, <2>12, <2>13, Zenon DEF DocInv
<1> QED BY <1>2, <1>3, Zenon

\* The steps of plain nodes keep the invariant.
LEMMA NodeStepKeeps == ASSUME DocInv, stage = "live", NodeStep PROVE DocInv'
<1>1. PICK p \in DOMAIN node : SaveNode(p) \/ \E v \in Val : Change(node[p], p, v)
  BY DEF NodeStep
<1>2. CASE SaveNode(p)
  BY <1>2, SaveNodeKeeps, Zenon
<1>3. ASSUME NEW v \in Val, Change(node[p], p, v) PROVE DocInv'
  <2>1. HeldAt(p, node[p])
    BY LiveIs, Zenon DEF ObjectsOK, HeldAt
  <2> QED BY <1>3, <2>1, ChangeKeeps, Zenon
<1> QED BY <1>1, <1>2, <1>3, Zenon

\* The steps of Maps keep the invariant.
LEMMA MapStepKeeps == ASSUME DocInv, stage = "live", MapStep PROVE DocInv'
<1>1. schema \in Type /\ ObjectsOK /\ DOMAIN map = Maps
  BY LiveIs, Zenon DEF ObjectsOK
<1>2. PICK m \in Maps, k \in Key :
         \/ \E v \in Val : Set(m, k, v)
         \/ DeleteKey(m, k)
         \/ Clear(m)
         \/ /\ map[m][k] # Nil
            /\ \/ SaveElement(map[m][k], m, Append(m, k))
               \/ \E v \in Val : Change(map[m][k], Append(m, k), v)
  BY <1>1, Zenon DEF MapStep
<1>3. CASE \E v \in Val : Set(m, k, v)
  BY <1>3, SetKeeps, Zenon
<1>4. CASE DeleteKey(m, k)
  BY <1>4, DeleteKeyKeeps, Zenon
<1>5. CASE Clear(m)
  BY <1>5, ClearKeeps, Zenon
<1>6. ASSUME map[m][k] # Nil, SaveElement(map[m][k], m, Append(m, k)) PROVE DocInv'
  <2>1. PICK o, at : o = map[m][k] /\ at = Append(m, k)
    BY Zenon
  <2>2. HeldAt(at, o) /\ o.path = at
    BY <1>1, <1>6, <2>1, Zenon DEF HeldAt, InMap, ObjectsOK
  <2>3. at \in Place /\ at \notin Plain
    BY <1>1, <2>1, ElementPlace, Zenon
  <2>4. SaveElement(o, m, at)
    BY <1>6, <2>1, Zenon
  <2> QED BY <2>2, <2>3, <2>4, SaveInPlaceKeeps, SMTT(20)
<1>7. ASSUME map[m][k] # Nil, NEW v \in Val, Change(map[m][k], Append(m, k), v) PROVE DocInv'
  <2>1. PICK o, at : o = map[m][k] /\ at = Append(m, k)
    BY Zenon
  <2>2. HeldAt(at, o) /\ Change(o, at, v)
    BY <1>7, <2>1, Zenon DEF HeldAt, InMap
  <2> QED BY <2>2, ChangeKeeps
<1> QED BY <1>2, <1>3, <1>4, <1>5, <1>6, <1>7, Zenon

\* The steps of Lists keep the invariant; a node that is saved after it moved
\* reports the path it was given.
LEMMA ListStepKeeps == ASSUME DocInv, stage = "live", ListStep PROVE DocInv'
<1>1. schema \in Type /\ ObjectsOK /\ DOMAIN list = Lists
  BY LiveIs, Zenon DEF ObjectsOK
<1>2. PICK l \in Lists :
         \/ \E v \in Val : AppendData(l, v)
         \/ \E idxs \in SUBSET DOMAIN list[l] : DeleteMore(l, idxs)
         \/ \E i \in DOMAIN list[l] :
               \/ SaveElement(list[l][i], l, Append(l, i))
               \/ \E v \in Val : Update(l, i, v) \/ Change(list[l][i], Append(l, i), v)
  BY <1>1, Zenon DEF ListStep
<1>3. /\ DOMAIN list[l] = 1 .. Len(list[l]) /\ Len(list[l]) \in Nat
      /\ \A i \in DOMAIN list[l] : i \in 1 .. MaxLen
  BY <1>1, ListIndexes, SMTT(20)
<1>4. ASSUME NEW v \in Val, AppendData(l, v) PROVE DocInv'
  <2>1. PICK i \in Nat : i = Len(list[l]) + 1
    BY <1>3
  <2>2. Len(list[l]) < MaxLen /\ Put(l, i, v, TRUE)
    BY <1>4, <2>1, Zenon DEF AppendData
  <2> QED BY <2>1, <2>2, PutKeeps, Zenon
<1>5. CASE \E idxs \in SUBSET DOMAIN list[l] : DeleteMore(l, idxs)
  BY <1>5, DeleteMoreKeeps, Zenon
<1>6. ASSUME NEW i \in DOMAIN list[l], SaveElement(list[l][i], l, Append(l, i)) PROVE DocInv'
  <2>1. PICK o, at : o = list[l][i] /\ at = Append(l, i)
    BY Zenon
  <2>2. HeldAt(at, o) /\ SaveElement(o, l, at)
    BY <1>6, <2>1, Zenon DEF HeldAt, InList
  <2>3. at \in Place /\ at \notin Plain
    BY <1>1, <1>3, <2>1, ElementPlace, Zenon
  <2>4. CASE o.path = at
    BY <2>2, <2>3, <2>4, SaveInPlaceKeeps, Zenon
  <2>5. CASE o.path # at
    <3>1. PICK j \in 1 .. MaxLen : o.path = Append(l, j)
      BY <1>1, <2>1, SMTT(20) DEF ObjectsOK
    <3>2. i \in 1 .. MaxLen /\ HeldAt(Append(l, i), o) /\ o.path # Append(l, i)
      BY <1>3, <2>1, <2>2, <2>5, Zenon
    <3>3. SaveElement(o, l, Append(l, i))
      BY <2>1, <2>2, Zenon
    <3> QED BY <3>1, <3>2, <3>3, SaveMovedKeeps, Zenon
  <2> QED BY <2>4, <2>5, Zenon
<1>7. ASSUME NEW i \in DOMAIN list[l], NEW v \in Val, Update(l, i, v) PROVE DocInv'
  <2>1. i \in Nat
    BY <1>3
  <2>2. Put(l, i, v, FALSE)
    BY <1>7, Zenon DEF Update
  <2> QED BY <2>1, <2>2, PutKeeps, Zenon
<1>8. ASSUME NEW i \in DOMAIN list[l], NEW v \in Val, Change(list[l][i], Append(l, i), v) PROVE DocInv'
  <2>1. PICK o, at : o = list[l][i] /\ at = Append(l, i)
    BY Zenon
  <2>2. HeldAt(at, o) /\ Change(o, at, v)
    BY <1>8, <2>1, Zenon DEF HeldAt, InList
  <2> QED BY <2>2, ChangeKeeps, Zenon
<1> QED BY <1>2, <1>4, <1>5, <1>6, <1>7, <1>8, Zenon

\* Stuttering keeps the invariant.
LEMMA Unmoved ==
    ASSUME DocInv, UNCHANGED <<stage, schema, heap, node, map, list, dirty, db, unsaved>>
    PROVE  DocInv'
<1>1. DirtyPathsDisjoint'
  BY DEF DocInv, DirtyPathsDisjoint
<1>2. Plain' = Plain /\ Lists' = Lists /\ Place' = Place
  BY SchemaSame, Zenon
<1>3. Stored => Stored'
  BY <1>2, Zenon DEF Stored, Leaf
<1>4. Complete => Complete'
  BY <1>2, Zenon DEF Complete
<1>5. ASSUME stage = "live" PROVE LiveOK'
  <2>1. schema \in Type /\ ObjectsOK /\ HeapOK /\ LiveOK /\ Stored
    BY <1>5, LiveIs, Zenon
  <2>2. ObjectsOK' /\ Held' = Held /\ \A q, r : HeldAt(q, r)' <=> HeldAt(q, r)
    BY <2>1, SameObjects, Zenon
  <2>3. HeapOK'
    BY <2>1, <2>2, Zenon DEF HeapOK, Used
  <2>4. Untouched({})
    BY <2>2, Zenon DEF Untouched
  <2> QED BY <2>1, <2>2, <2>3, <2>4, UnreportedStep, Zenon
<1> QED BY <1>1, <1>3, <1>4, <1>5, Zenon DEF DocInv

\* The invariant holds before a type is registered.
LEMMA DocInvInit == ASSUME DocInit PROVE DocInv
BY DEF DocInit, DocInv, DirtyPathsDisjoint

\* Every step keeps the invariant.
LEMMA DocInvStep == ASSUME DocInv, [DocNext]_docVars PROVE DocInv'
<1>1. CASE \E t \in Type : Register(t)
  BY <1>1, RegisterKeeps
<1>2. CASE Insert
  BY <1>2, InsertKeeps
<1>3. CASE Load
  BY <1>3, LoadKeeps, Zenon
<1>4. CASE Flush
  BY <1>4, FlushKeeps
<1>5. CASE NodeStep
  <2>1. stage = "live"
    BY <1>5, Zenon DEF NodeStep, SaveNode, Change
  <2> QED BY <1>5, <2>1, NodeStepKeeps, Zenon
<1>6. CASE MapStep
  <2>1. stage = "live"
    BY <1>6, Zenon DEF MapStep, Set, DeleteKey, Clear, SaveElement, Change
  <2> QED BY <1>6, <2>1, MapStepKeeps
<1>7. CASE ListStep
  <2>1. stage = "live"
    BY <1>7, Zenon DEF ListStep, AppendData, Update, Put, DeleteMore, SaveElement, Change
  <2> QED BY <1>7, <2>1, ListStepKeeps
<1>8. CASE UNCHANGED docVars
  <2>1. UNCHANGED <<stage, schema, heap, node, map, list, dirty, db, unsaved>>
    BY <1>8 DEF docVars
  <2> QED BY <2>1, Unmoved
<1> QED BY <1>1, <1>2, <1>3, <1>4, <1>5, <1>6, <1>7, <1>8, Zenon DEF DocNext

\* What md keeps true of a document from Register on: its nodes are at the
\* places of the schema, dirty paths refer to the nodes at their places, and
\* what is neither dirty nor excused is stored as it is in memory.
THEOREM DocInvHolds == DocSpec => []DocInv
BY DocInvInit, DocInvStep, PTL DEF DocSpec

\* Whatever is saved in whatever order, addDirty leaves no dirty path below
\* another: MongoDB takes the $set of DirtyData.
THEOREM DirtyPathsDisjointHolds == DocSpec => []DirtyPathsDisjoint
<1>1. DocInv => DirtyPathsDisjoint
  BY DEF DocInv
<1> QED BY <1>1, DocInvHolds, PTL

\* One write of DirtyData stores every saved change, for every struct type,
\* every set of keys and every length of Lists: apart from what was changed
\* without a Save, the stored document becomes the one in memory, although
\* addDirty drops paths below others and node data changes after a Save.
THEOREM SavedIsStoredHolds == DocSpec => []SavedIsStored
BY InvSaves, DocInvHolds, PTL
=============================================================================
