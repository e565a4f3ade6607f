------------------------- MODULE ObjectDecodeProofs -------------------------
(***************************************************************************)
(* Theorems about the decoding of objects in module ObjectDecode, for      *)
(* every descriptor, every number of handles and every message.            *)
(***************************************************************************)
EXTENDS ObjectDecode, SequenceTheorems, TLAPS

Containers == {"struct", "holder", "sized", "union"}

Numbered(n) == Kind(n) \in {"sized", "union"}

\* Contents that may be stored: each node's own kind of contents.
Contents(f) ==
    \A x \in DOMAIN f \cap Nodes :
        f[x] \in Seq(Nat) /\ (Numbered(x) => Len(f[x]) = 1)

-----------------------------------------------------------------------------
(* Trees: Down(step) of any choice of steps from an object to its fields.  *)

Steps == {step \in [Nodes -> SUBSET Nodes] : \A n \in Nodes : step[n] \subseteq Kids(n)}

AllKids == [n \in Nodes |-> Kids(n)]

LEMMA KidsInNodes ==
    ASSUME NEW p \in Nodes, NEW k \in Kids(p)
    PROVE  k \in Nodes /\ k # Root
<1>1. Schema[p].kids \in Seq(Nodes \ {Root})
  BY SchemaAssumption
<1> QED
  BY <1>1, ElementOfSeq DEF Kids, ToSet

\* The recursion of Down has a solution: the least sets closed under steps.
LEMMA DownIs ==
    ASSUME NEW step \in [Nodes -> SUBSET Nodes]
    PROVE  Down(step) =
             [n \in Nodes |-> {n} \cup UNION {Down(step)[k] : k \in step[n]}]
<1> DEFINE Closed(X) == \A p \in X : step[p] \subseteq X
           in(n) == {x \in Nodes : \A X \in SUBSET Nodes : n \in X /\ Closed(X) => x \in X}
           reach == [n \in Nodes |-> in(n)]
<1>1. ASSUME NEW n \in Nodes
      PROVE  in(n) = {n} \cup UNION {in(k) : k \in step[n]}
  <2> DEFINE all == {n} \cup UNION {in(k) : k \in step[n]}
  <2>1. all \in SUBSET Nodes /\ n \in all
    OBVIOUS
  <2>2. Closed(all)
    <3> SUFFICES ASSUME NEW p \in all, NEW c \in step[p] PROVE c \in all
      OBVIOUS
    <3>1. CASE p = n
      <4>1. c \in in(c)
        BY <2>1, <3>1
      <4> QED
        BY <3>1, <4>1
    <3>2. CASE p # n
      <4>1. PICK k \in step[n] : p \in in(k)
        BY <3>2
      <4>2. c \in in(k)
        BY <4>1
      <4> QED
        BY <4>2
    <3> QED
      BY <3>1, <3>2
  <2>3. in(n) \subseteq all
    BY <2>1, <2>2
  <2>4. all \subseteq in(n)
    <3> SUFFICES ASSUME NEW x \in all, NEW X \in SUBSET Nodes, n \in X, Closed(X)
                 PROVE  x \in X
      BY <2>1
    <3>1. CASE x = n
      BY <3>1
    <3>2. CASE x # n
      <4>1. PICK k \in step[n] : x \in in(k)
        BY <3>2
      <4>2. k \in X
        OBVIOUS
      <4> QED
        BY <4>1, <4>2
    <3> QED
      BY <3>1, <3>2
  <2> QED
    BY <2>3, <2>4
<1>2. \A n \in Nodes : in(n) = reach[n]
  OBVIOUS
<1>3. ASSUME NEW n \in Nodes
      PROVE  reach[n] = {n} \cup UNION {reach[k] : k \in step[n]}
  <2> HIDE DEF in, reach
  <2>1. {in(k) : k \in step[n]} = {reach[k] : k \in step[n]}
    BY <1>2
  <2> QED
    BY <1>1, <1>2, <2>1
<1>4. reach = [n \in Nodes |-> {n} \cup UNION {reach[k] : k \in step[n]}]
  <2>1. reach = [n \in Nodes |-> reach[n]]
    OBVIOUS
  <2> HIDE DEF reach, in
  <2> QED
    BY <1>3, <2>1
<1> HIDE DEF reach
<1>5. \E d : d = [n \in Nodes |-> {n} \cup UNION {d[k] : k \in step[n]}]
  BY <1>4
<1> DEFINE is(d) == d = [n \in Nodes |-> {n} \cup UNION {d[k] : k \in step[n]}]
<1>6. Down(step) = CHOOSE d : is(d)
  BY DEF Down
<1>7. is(CHOOSE d : is(d))
  BY <1>5
<1>8. is(Down(step))
  <2> HIDE DEF is
  <2> QED
    BY <1>6, <1>7
<1> QED
  BY <1>8

\* The first step.
LEMMA DownSplit ==
    ASSUME NEW step \in Steps, NEW a \in Nodes, NEW x
    PROVE  x \in Down(step)[a] <=> x = a \/ \E k \in step[a] : x \in Down(step)[k]
<1>1. step \in [Nodes -> SUBSET Nodes]
  BY DEF Steps
<1>2. Down(step)[a] = {a} \cup UNION {Down(step)[k] : k \in step[a]}
  BY <1>1, DownIs
<1> QED
  BY <1>2

LEMMA StepsType ==
    ASSUME NEW step \in Steps, NEW p \in Nodes, NEW k \in step[p]
    PROVE  k \in Kids(p) /\ k \in Nodes /\ k # Root
BY KidsInNodes DEF Steps

\* The last step.
LEMMA DownLast ==
    ASSUME NEW step \in Steps, NEW a \in Nodes, NEW x \in Down(step)[a]
    PROVE  x = a \/ \E p \in Nodes : p \in Down(step)[a] /\ x \in step[p]
<1> DEFINE ends(b) == x = b \/ \E p \in Nodes : p \in Down(step)[b] /\ x \in step[p]
           X == {b \in Nodes : x \in Down(step)[b] /\ ~ends(b)}
<1>1. ASSUME NEW b \in X, NEW k \in step[b], x \in Down(step)[k]
      PROVE  k \in X
  <2>1. k \in Nodes /\ k \in Kids(b)
    BY StepsType
  <2>2. b \in Down(step)[b]
    BY DownSplit
  <2>3. ~(x = k)
    BY <2>2
  <2>4. ASSUME NEW p \in Nodes, p \in Down(step)[k] PROVE p \in Down(step)[b]
    BY <2>4, DownSplit
  <2> QED
    BY <1>1, <2>1, <2>3, <2>4
<1>2. ASSUME NEW b \in X PROVE \E k \in Kids(b) : k \in X
  <2>1. PICK k \in step[b] : x \in Down(step)[k]
    BY DownSplit
  <2> QED
    BY <1>1, <2>1, StepsType
<1>3. X = {}
  <2> HIDE DEF X
  <2>1. X \in SUBSET Nodes
    BY DEF X
  <2> QED
    BY <1>2, <2>1, TreeAssumption
<1> QED
  BY <1>3

LEMMA DownType ==
    ASSUME NEW step \in Steps, NEW a \in Nodes
    PROVE  Down(step)[a] \subseteq Nodes /\ a \in Down(step)[a]
<1>1. ASSUME NEW x \in Down(step)[a] PROVE x \in Nodes
  BY DownLast, StepsType
<1> QED
  BY <1>1, DownSplit

LEMMA DownTrans ==
    ASSUME NEW step \in Steps, NEW a \in Nodes, NEW b \in Down(step)[a], NEW x \in Down(step)[b]
    PROVE  x \in Down(step)[a]
<1> DEFINE X == {c \in Nodes : b \in Down(step)[c] /\ x \notin Down(step)[c]}
<1>1. ASSUME NEW c \in X PROVE \E k \in Kids(c) : k \in X
  <2>1. c # b
    OBVIOUS
  <2>2. PICK k \in step[c] : b \in Down(step)[k]
    BY <2>1, DownSplit
  <2>3. x \notin Down(step)[k]
    BY DownSplit
  <2> QED
    BY <2>2, <2>3, StepsType
<1>2. X = {}
  <2> HIDE DEF X
  <2>1. X \in SUBSET Nodes
    BY DEF X
  <2> QED
    BY <1>1, <2>1, TreeAssumption
<1> QED
  BY <1>2

LEMMA DownNext ==
    ASSUME NEW step \in Steps, NEW a \in Nodes, NEW p \in Down(step)[a], NEW k \in step[p]
    PROVE  k \in Down(step)[a]
<1>1. p \in Nodes
  BY DownType
<1>2. k \in Down(step)[p]
  BY <1>1, StepsType, DownSplit
<1> QED
  BY <1>2, DownTrans

\* A node has one place in the tree.
LEMMA OneParent ==
    ASSUME NEW p \in Nodes, NEW q \in Nodes, NEW k \in Kids(p), k \in Kids(q)
    PROVE  p = q
BY TreeAssumption

LEMMA DownParent ==
    ASSUME NEW step \in Steps, NEW a \in Nodes, NEW p \in Nodes, NEW x \in Kids(p),
           x \in Down(step)[a], x # a
    PROVE  p \in Down(step)[a] /\ x \in step[p]
<1>1. PICK q \in Nodes : q \in Down(step)[a] /\ x \in step[q]
  BY DownLast
<1>2. p = q
  BY <1>1, StepsType, OneParent
<1> QED
  BY <1>1, <1>2

\* What holds of a node and of the steps from those it holds of.
LEMMA DownInduction ==
    ASSUME NEW step \in Steps, NEW a \in Nodes, NEW X, a \in X,
           \A p \in Down(step)[a] : p \in X => step[p] \subseteq X
    PROVE  Down(step)[a] \subseteq X
<1> DEFINE Y == {n \in Nodes : n \in Down(step)[a] => n \in X}
<1>1. Root \in Y
  <2>1. Root \in Nodes
    BY SchemaAssumption
  <2>2. Root \in Down(step)[a] => Root = a
    BY DownLast, StepsType
  <2> QED
    BY <2>1, <2>2
<1>2. ASSUME NEW p \in Y, NEW k \in Kids(p) PROVE k \in Y
  <2>1. k \in Nodes
    BY KidsInNodes
  <2>2. CASE k = a
    BY <2>1, <2>2
  <2>3. CASE k # a /\ k \in Down(step)[a]
    <3>1. p \in Down(step)[a] /\ k \in step[p]
      BY <2>3, DownParent
    <3> QED
      BY <2>1, <3>1
  <2> QED
    BY <2>1, <2>2, <2>3
<1>3. Y = Nodes
  <2> HIDE DEF Y
  <2>1. Y \in SUBSET Nodes
    BY DEF Y
  <2> QED
    BY <1>1, <1>2, <2>1, TreeAssumption
<1> QED
  BY <1>3, DownType

\* Fewer steps lead to less, and only the steps on the way matter.
LEMMA DownMonotone ==
    ASSUME NEW s \in Steps, NEW r \in Steps, NEW a \in Nodes,
           \A n \in Down(s)[a] : s[n] \subseteq r[n]
    PROVE  Down(s)[a] \subseteq Down(r)[a]
<1>1. a \in Down(r)[a]
  BY DownType
<1>2. ASSUME NEW p \in Down(s)[a], p \in Down(r)[a] PROVE s[p] \subseteq Down(r)[a]
  BY <1>2, DownNext
<1> QED
  BY <1>1, <1>2, DownInduction

LEMMA DownAgree ==
    ASSUME NEW s \in Steps, NEW r \in Steps, NEW a \in Nodes,
           \A n \in Down(s)[a] : s[n] = r[n]
    PROVE  Down(s)[a] = Down(r)[a]
<1>1. Down(s)[a] \subseteq Down(r)[a]
  BY DownMonotone
<1>2. ASSUME NEW p \in Down(r)[a], p \in Down(s)[a] PROVE r[p] \subseteq Down(s)[a]
  BY <1>2, DownNext
<1>3. Down(r)[a] \subseteq Down(s)[a]
  BY <1>2, DownInduction, DownType
<1> QED
  BY <1>1, <1>3

-----------------------------------------------------------------------------
(* Below: the whole tree under a node.                                     *)

LEMMA BelowIs ==
    /\ AllKids \in Steps
    /\ Below = Down(AllKids)
<1>1. AllKids \in Steps
  BY KidsInNodes DEF AllKids, Steps
<1> QED
  BY <1>1 DEF Below, AllKids

LEMMA DownBelow ==
    ASSUME NEW step \in Steps, NEW a \in Nodes
    PROVE  /\ Down(step)[a] \subseteq Below[a]
           /\ Below[a] \subseteq Nodes
           /\ a \in Below[a]
<1>1. \A n \in Nodes : step[n] \subseteq AllKids[n]
  BY DEF Steps, AllKids
<1>2. Down(step)[a] \subseteq Down(AllKids)[a]
  BY <1>1, BelowIs, DownMonotone, DownType
<1> QED
  BY <1>2, BelowIs, DownType

LEMMA BelowType ==
    ASSUME NEW a \in Nodes
    PROVE  Below[a] \subseteq Nodes /\ a \in Below[a]
BY BelowIs, DownBelow

LEMMA BelowTrans ==
    ASSUME NEW a \in Nodes, NEW b \in Below[a]
    PROVE  Below[b] \subseteq Below[a]
BY BelowIs, DownTrans

LEMMA BelowParent ==
    ASSUME NEW a \in Nodes, NEW p \in Nodes, NEW x \in Kids(p), x \in Below[a], x # a
    PROVE  p \in Below[a]
BY BelowIs, DownParent

LEMMA BelowSplit ==
    ASSUME NEW a \in Nodes, NEW x \in Below[a], x # a
    PROVE  \E k \in Kids(a) : x \in Below[k]
<1>1. \E k \in AllKids[a] : x \in Below[k]
  BY BelowIs, DownSplit
<1> QED
  BY <1>1 DEF AllKids

\* No object contains itself.
LEMMA BelowKid ==
    ASSUME NEW p \in Nodes, NEW k \in Kids(p)
    PROVE  /\ k \in Below[p] /\ Below[k] \subseteq Below[p]
           /\ p \notin Below[k]
<1>1. k \in Nodes /\ k \in AllKids[p]
  BY KidsInNodes DEF AllKids
<1>2. k \in Below[p]
  BY <1>1, BelowIs, DownNext, DownType
<1> DEFINE X == {n \in Below[k] : p \in Below[n]}
<1>3. ASSUME NEW n \in X PROVE \E c \in Kids(n) : c \in X
  <2>1. n \in Nodes
    BY <1>1, BelowType
  <2>2. CASE n = p
    <3>1. k \in X
      BY <1>1, <2>2, BelowType
    <3> QED
      BY <2>2, <3>1
  <2>3. CASE n # p
    <3>1. PICK c \in Kids(n) : p \in Below[c]
      BY <2>1, <2>3, BelowSplit
    <3>2. c \in AllKids[n]
      BY <2>1 DEF AllKids
    <3>3. c \in Below[k]
      BY <1>1, <3>2, BelowIs, DownNext
    <3> QED
      BY <3>1, <3>3
  <2> QED
    BY <2>2, <2>3
<1>4. X = {}
  <2>1. X \in SUBSET Nodes
    BY <1>1, BelowType
  <2> HIDE DEF X
  <2> QED
    BY <1>3, <2>1, TreeAssumption
<1>5. p \notin Below[k]
  <2> SUFFICES ASSUME p \in Below[k] PROVE FALSE
    OBVIOUS
  <2>1. p \in X
    BY BelowType
  <2> QED
    BY <1>4, <2>1
<1> QED
  BY <1>2, <1>5, BelowTrans

LEMMA BelowAntisymmetric ==
    ASSUME NEW a \in Nodes, NEW b \in Below[a], a \in Below[b]
    PROVE  a = b
<1> SUFFICES ASSUME a # b PROVE FALSE
  OBVIOUS
<1>1. PICK c \in Kids(a) : b \in Below[c]
  BY BelowSplit
<1>2. c \in Nodes
  BY KidsInNodes
<1>3. a \in Below[c]
  BY <1>1, <1>2, BelowTrans
<1> QED
  BY <1>3, BelowKid

\* The ancestors of a node are in line.
LEMMA Comparable ==
    ASSUME NEW a \in Nodes, NEW b \in Nodes, NEW x, x \in Below[a], x \in Below[b]
    PROVE  a \in Below[b] \/ b \in Below[a]
<1> DEFINE X == {y \in Below[a] : y \in Below[b] => a \in Below[b] \/ b \in Below[a]}
<1>1. a \in X
  BY BelowType
<1>2. ASSUME NEW p \in Below[a], p \in X, NEW k \in AllKids[p] PROVE k \in X
  <2>1. p \in Nodes /\ k \in Kids(p)
    BY BelowType DEF AllKids
  <2>2. k \in Below[a]
    BY <1>2, BelowIs, DownNext
  <2>3. CASE k = b
    BY <2>2, <2>3
  <2>4. CASE k # b
    <3>1. k \in Below[b] => p \in Below[b]
      BY <2>1, <2>4, BelowParent
    <3> QED
      BY <1>2, <2>2, <3>1
  <2> QED
    BY <2>3, <2>4
<1>3. Below[a] \subseteq X
  <2> HIDE DEF X
  <2> QED
    BY <1>1, <1>2, BelowIs, DownInduction
<1> QED
  BY <1>3

LEMMA SiblingsApart ==
    ASSUME NEW p \in Nodes, NEW c \in Kids(p), NEW k \in Kids(p), c # k,
           NEW x, x \in Below[c], x \in Below[k]
    PROVE  FALSE
<1>1. c \in Nodes /\ k \in Nodes
  BY KidsInNodes
<1>2. c \in Below[k] \/ k \in Below[c]
  BY <1>1, Comparable
<1>3. p \in Below[k] \/ p \in Below[c]
  BY <1>1, <1>2, BelowParent
<1> QED
  BY <1>3, BelowKid

LEMMA BelowRoot == Below[Root] = Nodes
<1>1. Root \in Nodes
  BY SchemaAssumption
<1>2. ASSUME NEW p \in Below[Root] PROVE Kids(p) \subseteq Below[Root]
  <2>1. AllKids[p] \subseteq Below[Root]
    BY <1>1, BelowIs, DownNext
  <2> QED
    BY <1>1, <2>1, BelowType DEF AllKids
<1> QED
  BY <1>1, <1>2, BelowType, TreeAssumption

\* What is reached is reached through every node on the way.
LEMMA DownThrough ==
    ASSUME NEW step \in Steps, NEW a \in Nodes, NEW b \in Below[a],
           NEW x \in Down(step)[a], x \in Below[b]
    PROVE  b \in Down(step)[a] /\ x \in Down(step)[b]
<1> DEFINE X == {y \in Nodes : y \in Below[b] => b \in Down(step)[a] /\ y \in Down(step)[b]}
<1>1. b \in Nodes
  BY BelowType
<1>2. a \in X
  <2>1. a \in Below[b] => a = b
    BY BelowAntisymmetric
  <2> QED
    BY <2>1, DownType
<1>3. ASSUME NEW p \in Down(step)[a], p \in X, NEW k \in step[p] PROVE k \in X
  <2>1. p \in Nodes /\ k \in Kids(p) /\ k \in Nodes
    BY DownType, StepsType
  <2>2. CASE k = b
    <3>1. b \in Down(step)[a]
      BY <1>3, <2>2, DownNext
    <3> QED
      BY <1>1, <2>1, <2>2, <3>1, DownType
  <2>3. CASE k # b /\ k \in Below[b]
    <3>1. p \in Below[b]
      BY <1>1, <2>1, <2>3, BelowParent
    <3>2. b \in Down(step)[a] /\ p \in Down(step)[b]
      BY <1>3, <3>1
    <3>3. k \in Down(step)[b]
      BY <1>1, <1>3, <3>2, DownNext
    <3> QED
      BY <2>1, <3>2, <3>3
  <2> QED
    BY <2>1, <2>2, <2>3
<1>4. Down(step)[a] \subseteq X
  <2> HIDE DEF X
  <2> QED
    BY <1>2, <1>3, DownInduction
<1> QED
  BY <1>4

-----------------------------------------------------------------------------
(* Schemas and memories.                                                   *)

LEMMA NodeType ==
    ASSUME NEW n \in Nodes
    PROVE  /\ Kind(n) \in LeafKinds \cup Containers
           /\ Schema[n].kids \in Seq(Nodes \ {Root})
           /\ Id(n) \in Nat /\ Cap(n) \in Nat /\ Default(n) \in Seq(Nat)
           /\ Leaf(n) => Kids(n) = {}
           /\ Kids(n) \subseteq Nodes
           /\ Len(Schema[n].kids) \in Nat
<1>1. /\ Kind(n) \in LeafKinds \cup Containers
      /\ Schema[n].kids \in Seq(Nodes \ {Root})
      /\ Id(n) \in Nat /\ Cap(n) \in Nat /\ Default(n) \in Seq(Nat)
      /\ Leaf(n) => Kids(n) = {}
  BY SchemaAssumption DEF Containers
<1>2. Len(Schema[n].kids) \in Nat
      /\ DOMAIN Schema[n].kids = 1..Len(Schema[n].kids)
      /\ \A i \in 1..Len(Schema[n].kids) : Schema[n].kids[i] \in Nodes
  BY <1>1, LenProperties, ElementOfSeq
<1> QED
  BY <1>1, <1>2 DEF Kids, ToSet

LEMMA NumberedDefault ==
    ASSUME NEW n \in Nodes, Numbered(n)
    PROVE  Len(Default(n)) = 1
<1>1. CASE Kind(n) = "sized"
  <2>1. Default(n) = <<0>>
    BY <1>1, SchemaAssumption
  <2> QED
    BY <2>1
<1>2. CASE Kind(n) = "union"
  <2>1. \E k \in Kids(n) : Default(n) = <<Id(k)>>
    BY <1>2, SchemaAssumption
  <2> QED
    BY <2>1
<1> QED
  BY <1>1, <1>2 DEF Numbered

LEMMA MemoryIsContents ==
    ASSUME NEW m
    PROVE  m \in Memory <=> m \in [Nodes -> Seq(Nat)] /\ Contents(m)
<1>1. ASSUME m \in [Nodes -> Seq(Nat)]
      PROVE  Contents(m) <=> \A n \in Nodes : Numbered(n) => Len(m[n]) = 1
  BY <1>1 DEF Contents
<1> QED
  BY <1>1 DEF Memory, Numbered

LEMMA JunkType == Junk \in Seq(Nat) /\ Len(Junk) = 1
<1>1. 99 \in Nat
  OBVIOUS
<1> QED
  BY <1>1 DEF Junk

\* Whatever else a store clobbers, memory stays memory.
LEMMA StoreType ==
    ASSUME NEW m \in Memory, NEW f, Contents(f)
    PROVE  Store(m, f) \in Memory
<1> DEFINE lost == UNION {Overlay[y] : y \in DOMAIN f}
           g == Store(m, f)
<1>1. g = [x \in Nodes |-> IF x \in DOMAIN f THEN f[x]
                           ELSE IF x \in lost THEN Junk ELSE m[x]]
  BY DEF Store
<1> HIDE DEF lost, g
<1>2. m \in [Nodes -> Seq(Nat)] /\ Contents(m) /\ DOMAIN m = Nodes
  BY MemoryIsContents
<1>3. ASSUME NEW x \in Nodes
      PROVE  g[x] \in Seq(Nat) /\ (Numbered(x) => Len(g[x]) = 1)
  BY <1>1, <1>2, <1>3, JunkType DEF Contents
<1>4. g \in [Nodes -> Seq(Nat)] /\ DOMAIN g = Nodes
  BY <1>1, <1>3
<1>5. Contents(g)
  BY <1>3, <1>4 DEF Contents
<1> QED
  BY <1>4, <1>5, MemoryIsContents DEF g

LEMMA SeedType ==
    ASSUME NEW m \in Memory, NEW n
    PROVE  Seed(m, n) \in Memory
<1> DEFINE f == [x \in Seeded[n] |-> Default(x)]
<1>1. Contents(f)
  BY NodeType, NumberedDefault DEF Contents
<1> HIDE DEF f
<1>2. Store(m, f) \in Memory
  BY <1>1, StoreType
<1> QED
  BY <1>2 DEF Seed, f

LEMMA InitObjectType == InitObject \in Memory
<1> DEFINE m == [n \in Nodes |-> Junk]
<1>1. m \in [Nodes -> Seq(Nat)] /\ Contents(m)
  BY JunkType DEF Contents
<1> HIDE DEF m
<1>2. m \in Memory
  BY <1>1, MemoryIsContents
<1> QED
  BY <1>2, SeedType DEF InitObject, m


-----------------------------------------------------------------------------
(* Which nodes are part of the value.                                      *)

HeldKids(m) == [n \in Nodes |-> {k \in Kids(n) : Chosen(m, n, k)}]
UnionKids(m) == [n \in Nodes |-> {k \in Kids(n) : ~NotHeld(m, n, k)}]
SeedKids == [n \in Nodes |-> {k \in Kids(n) : Kind(n) = "union" => Default(n) = <<Id(k)>>}]
FreshKids ==
    [n \in Nodes |->
        {k \in Kids(n) : /\ Kind(n) # "sized"
                         /\ Kind(n) = "union" => Default(n) = <<Id(k)>>}]

\* The part of the value within a node, were that node part of it.
LiveIn(m, a) == Down(HeldKids(m))[a]

\* The nodes whose storage belongs to them: in each union on the way the held
\* option.
Reached(m) == Down(UnionKids(m))[Root]

\* What a fresh object has for a value.
FreshParts == Down(FreshKids)

LEMMA StepsAre ==
    ASSUME NEW m
    PROVE  /\ HeldKids(m) \in Steps /\ UnionKids(m) \in Steps
           /\ SeedKids \in Steps /\ FreshKids \in Steps
           /\ Live(m) = LiveIn(m, Root)
           /\ Seeded = Down(SeedKids)
<1>1. \A n \in Nodes : Kids(n) \in SUBSET Nodes
  BY KidsInNodes
<1>2. HeldKids(m) \in Steps /\ UnionKids(m) \in Steps
  BY <1>1 DEF Steps, HeldKids, UnionKids
<1>3. SeedKids \in Steps /\ FreshKids \in Steps
  BY <1>1 DEF Steps, SeedKids, FreshKids
<1> QED
  BY <1>2, <1>3 DEF LiveIn, Live, HeldKids, Seeded, SeedKids

LEMMA LiveType ==
    ASSUME NEW m, NEW a \in Nodes
    PROVE  /\ LiveIn(m, a) \subseteq Below[a] /\ a \in LiveIn(m, a)
           /\ Below[a] \subseteq Nodes
           /\ Seeded[a] \subseteq Below[a] /\ a \in Seeded[a]
           /\ FreshParts[a] \subseteq Below[a] /\ a \in FreshParts[a]
           /\ Live(m) \subseteq Nodes /\ Root \in Live(m)
           /\ Reached(m) \subseteq Nodes
<1>1. Root \in Nodes
  BY SchemaAssumption
<1> QED
  BY <1>1, StepsAre, DownType, DownBelow DEF LiveIn, FreshParts, Reached

LEMMA LiveNodes ==
    ASSUME NEW m
    PROVE  Live(m) \subseteq Nodes /\ Root \in Live(m) /\ Reached(m) \subseteq Nodes
BY LiveType, SchemaAssumption

LEMMA LiveKid ==
    ASSUME NEW m, NEW a \in Nodes, NEW p \in LiveIn(m, a), NEW k \in Kids(p)
    PROVE  /\ k \in LiveIn(m, a) <=> Chosen(m, p, k)
           /\ Chosen(m, p, k) => LiveIn(m, k) \subseteq LiveIn(m, a)
<1>1. p \in Nodes /\ p \in Below[a]
  BY LiveType
<1>2. k # a
  BY <1>1, BelowKid
<1>3. k \in HeldKids(m)[p] <=> Chosen(m, p, k)
  BY <1>1 DEF HeldKids
<1>4. k \in LiveIn(m, a) => k \in HeldKids(m)[p]
  BY <1>1, <1>2, StepsAre, DownParent DEF LiveIn
<1>5. k \in HeldKids(m)[p] => k \in LiveIn(m, a)
  BY StepsAre, DownNext DEF LiveIn
<1>6. k \in LiveIn(m, a) => LiveIn(m, k) \subseteq LiveIn(m, a)
  BY StepsAre, DownTrans DEF LiveIn
<1> QED
  BY <1>3, <1>4, <1>5, <1>6

LEMMA LiveSplit ==
    ASSUME NEW m, NEW a \in Nodes, NEW x
    PROVE  x \in LiveIn(m, a) <=>
             x = a \/ \E k \in Kids(a) : Chosen(m, a, k) /\ x \in LiveIn(m, k)
<1>1. x \in LiveIn(m, a) <=> x = a \/ \E k \in HeldKids(m)[a] : x \in LiveIn(m, k)
  BY StepsAre, DownSplit DEF LiveIn
<1>2. HeldKids(m)[a] = {k \in Kids(a) : Chosen(m, a, k)}
  BY DEF HeldKids
<1> QED
  BY <1>1, <1>2

\* What is live above a live node and what is live below it.
LEMMA LiveThrough ==
    ASSUME NEW m, NEW a \in Live(m), NEW x
    PROVE  x \in Live(m) /\ x \in Below[a] <=> x \in LiveIn(m, a)
<1>1. a \in Nodes /\ a \in Below[Root] /\ Root \in Nodes
  BY LiveType, SchemaAssumption, BelowRoot
<1>2. x \in Live(m) /\ x \in Below[a] => x \in LiveIn(m, a)
  BY <1>1, StepsAre, DownThrough DEF LiveIn
<1>3. x \in LiveIn(m, a) => x \in Live(m) /\ x \in Below[a]
  BY <1>1, StepsAre, DownTrans, LiveType DEF LiveIn
<1> QED
  BY <1>2, <1>3

LEMMA LiveAncestor ==
    ASSUME NEW m, NEW x \in Live(m), NEW b \in Nodes, x \in Below[b]
    PROVE  b \in Live(m)
BY StepsAre, DownThrough, BelowRoot, SchemaAssumption DEF LiveIn

LEMMA LiveReached ==
    ASSUME NEW m
    PROVE  Live(m) \subseteq Reached(m)
<1>1. \A n \in Nodes : HeldKids(m)[n] \subseteq UnionKids(m)[n]
  BY DEF HeldKids, UnionKids, Chosen
<1>2. Root \in Nodes
  BY SchemaAssumption
<1> QED
  BY <1>1, <1>2, StepsAre, DownMonotone, DownType DEF LiveIn, Reached

LEMMA ReachedThrough ==
    ASSUME NEW m, NEW x \in Reached(m), NEW p \in Nodes, NEW k \in Kids(p), x \in Below[k]
    PROVE  ~NotHeld(m, p, k)
<1>1. Root \in Nodes /\ k \in Nodes /\ k # Root /\ k \in Below[Root]
  BY SchemaAssumption, KidsInNodes, BelowRoot
<1>2. k \in Reached(m)
  BY <1>1, StepsAre, DownThrough DEF Reached
<1>3. k \in UnionKids(m)[p]
  BY <1>1, <1>2, StepsAre, DownParent DEF Reached
<1> QED
  BY <1>3 DEF UnionKids

\* What one node contributes depends on its own contents alone.
LEMMA MeaningLocal ==
    ASSUME NEW m, NEW r, NEW x \in Nodes, m[x] = r[x]
    PROVE  /\ Meaning(x, m) = Meaning(x, r)
           /\ \A k : NotHeld(m, x, k) <=> NotHeld(r, x, k)
           /\ \A k : Chosen(m, x, k) <=> Chosen(r, x, k)
<1>1. SeqLen(x, m) = SeqLen(x, r) /\ Used(x, m) = Used(x, r)
  BY DEF SeqLen, Used
<1>2. \A k : NotHeld(m, x, k) <=> NotHeld(r, x, k)
  BY DEF NotHeld, HeldIn
<1> QED
  BY <1>1, <1>2 DEF Meaning, Chosen

-----------------------------------------------------------------------------
(* Elements beyond the length of an array.                                 *)

AtDefault(m, a) == \A x \in Seeded[a] : m[x] = Default(x)

\* Within a, they are at their defaults.
Clean(m, a) ==
    \A n \in LiveIn(m, a) : \A k \in Kids(n) :
        (Kind(n) = "sized" /\ ~Chosen(m, n, k)) => AtDefault(m, k)

\* What is live within a with those elements.
Tidy(m, a) ==
    LiveIn(m, a) \cup
        {x \in Nodes : \E n \in LiveIn(m, a) : \E k \in Kids(n) :
            Kind(n) = "sized" /\ ~Chosen(m, n, k) /\ x \in Seeded[k]}

LEMMA DefaultMeaning ==
    ASSUME NEW m, NEW x \in Nodes, m[x] = Default(x)
    PROVE  /\ Meaning(x, m) = Default(x)
           /\ HeldKids(m)[x] = FreshKids[x]
           /\ SeedKids[x] \subseteq UnionKids(m)[x]
<1>1. /\ Len(Schema[x].kids) \in Nat /\ Cap(x) \in Nat /\ Default(x) \in Seq(Nat)
      /\ Len(Default(x)) \in Nat
      /\ \A k \in Kids(x) : k \in Nodes /\ Id(k) \in Nat
      /\ Kind(x) \in LeafKinds \cup Containers
  BY NodeType, LenProperties
<1>2. CASE Kind(x) = "sized"
  <2>1. Default(x) = <<0>> /\ m[x][1] = 0
    BY <1>2, SchemaAssumption
  <2>2. SeqLen(x, m) = 0
    BY <1>1, <1>2, <2>1 DEF SeqLen, AtMost
  <2>3. \A k \in Kids(x) : ~(Id(k) < 0)
    BY <1>1
  <2> QED
    BY <1>2, <2>1, <2>2, <2>3 DEF Meaning, HeldKids, FreshKids, Chosen, SeedKids, UnionKids, NotHeld
<1>3. CASE Kind(x) # "sized"
  <2>1. HeldKids(m)[x] = FreshKids[x]
    BY <1>3 DEF HeldKids, FreshKids, Chosen, NotHeld, HeldIn
  <2>2. SeedKids[x] \subseteq UnionKids(m)[x]
    BY DEF SeedKids, UnionKids, NotHeld, HeldIn
  <2>3. CASE Kind(x) = "sarr"
    <3>1. Len(Default(x)) <= Cap(x)
      BY <2>3, SchemaAssumption
    <3>2. AtMost(Len(m[x]), Cap(x)) = Len(Default(x))
      BY <1>1, <3>1 DEF AtMost
    <3>3. SubSeq(Default(x), 1, Len(Default(x))) = Default(x)
      BY <1>1
    <3>4. Used(x, m) = Default(x)
      BY <2>3, <3>2, <3>3 DEF Used
    <3> QED
      BY <2>1, <2>2, <2>3, <3>4 DEF Meaning
  <2>4. CASE Kind(x) \in {"struct", "holder"}
    <3>1. Default(x) = <<>>
      BY <2>4, SchemaAssumption
    <3> QED
      BY <2>1, <2>2, <2>4, <3>1 DEF Meaning
  <2>5. CASE Kind(x) \notin {"sarr", "struct", "holder"}
    <3>1. Used(x, m) = Default(x)
      BY <2>5 DEF Used
    <3> QED
      BY <1>3, <2>1, <2>2, <2>5, <3>1 DEF Meaning
  <2> QED
    BY <2>3, <2>4, <2>5
<1> QED
  BY <1>2, <1>3

LEMMA SeededTrans ==
    ASSUME NEW a \in Nodes, NEW n \in Seeded[a]
    PROVE  /\ Seeded[n] \subseteq Seeded[a]
           /\ \A k \in Kids(n) : Kind(n) # "union" => Seeded[k] \subseteq Seeded[a]
<1>1. n \in Nodes
  BY LiveType
<1>2. Seeded[n] \subseteq Seeded[a]
  BY StepsAre, DownTrans
<1>3. ASSUME NEW k \in Kids(n), Kind(n) # "union" PROVE Seeded[k] \subseteq Seeded[a]
  <2>1. k \in SeedKids[n]
    BY <1>1, <1>3 DEF SeedKids
  <2>2. k \in Seeded[a]
    BY <2>1, StepsAre, DownNext
  <2> QED
    BY <2>2, StepsAre, DownTrans
<1> QED
  BY <1>2, <1>3

\* At their defaults, nodes are worth what a fresh object is.
LEMMA DefaultView ==
    ASSUME NEW m, NEW a \in Nodes, AtDefault(m, a)
    PROVE  /\ LiveIn(m, a) = FreshParts[a]
           /\ FreshParts[a] \subseteq Seeded[a]
           /\ \A x \in LiveIn(m, a) : Meaning(x, m) = Default(x)
           /\ Clean(m, a)
           /\ Tidy(m, a) \subseteq Seeded[a]
           /\ Seeded[a] \subseteq Down(UnionKids(m))[a]
<1>1. Seeded[a] \subseteq Nodes
  BY LiveType
<1>2. FreshParts[a] \subseteq Seeded[a]
  <2>1. \A n \in Nodes : FreshKids[n] \subseteq SeedKids[n]
    BY DEF FreshKids, SeedKids
  <2>2. Down(FreshKids)[a] \subseteq Down(SeedKids)[a]
    BY <2>1, StepsAre, DownMonotone, DownType
  <2> QED
    BY <2>2, StepsAre DEF FreshParts
<1>3. \A n \in FreshParts[a] : FreshKids[n] = HeldKids(m)[n]
  BY <1>1, <1>2, DefaultMeaning DEF AtDefault
<1>4. LiveIn(m, a) = FreshParts[a]
  <2>1. Down(FreshKids)[a] = Down(HeldKids(m))[a]
    BY <1>3, StepsAre, DownAgree DEF FreshParts
  <2> QED
    BY <2>1 DEF LiveIn, FreshParts
<1>5. \A x \in LiveIn(m, a) : Meaning(x, m) = Default(x)
  BY <1>1, <1>2, <1>4, DefaultMeaning DEF AtDefault
<1>6. ASSUME NEW n \in LiveIn(m, a), NEW k \in Kids(n), Kind(n) = "sized"
      PROVE  Seeded[k] \subseteq Seeded[a]
  BY <1>2, <1>4, <1>6, SeededTrans
<1>7. Clean(m, a) /\ Tidy(m, a) \subseteq Seeded[a]
  BY <1>2, <1>4, <1>6 DEF Clean, AtDefault, Tidy
<1>8. \A n \in Seeded[a] : SeedKids[n] \subseteq UnionKids(m)[n]
  BY <1>1, DefaultMeaning DEF AtDefault
<1>9. Seeded[a] \subseteq Down(UnionKids(m))[a]
  BY <1>8, StepsAre, DownMonotone
<1> QED
  BY <1>2, <1>4, <1>5, <1>7, <1>9

LEMMA TidyReached ==
    ASSUME NEW m, NEW a \in Reached(m), Clean(m, a)
    PROVE  Tidy(m, a) \subseteq Reached(m)
<1>1. a \in Nodes /\ Root \in Nodes
  BY LiveType, SchemaAssumption
<1>2. Down(UnionKids(m))[a] \subseteq Reached(m)
  BY <1>1, StepsAre, DownTrans DEF Reached
<1>3. LiveIn(m, a) \subseteq Reached(m)
  <2>1. \A n \in Nodes : HeldKids(m)[n] \subseteq UnionKids(m)[n]
    BY DEF HeldKids, UnionKids, Chosen
  <2>2. Down(HeldKids(m))[a] \subseteq Down(UnionKids(m))[a]
    BY <1>1, <2>1, StepsAre, DownMonotone, DownType
  <2> QED
    BY <1>2, <2>2 DEF LiveIn
<1>4. ASSUME NEW n \in LiveIn(m, a), NEW k \in Kids(n), Kind(n) = "sized", ~Chosen(m, n, k),
             NEW x \in Seeded[k]
      PROVE  x \in Reached(m)
  <2>1. n \in Nodes /\ n \in Reached(m) /\ k \in Nodes
    BY <1>1, <1>3, LiveType, KidsInNodes
  <2>2. k \in UnionKids(m)[n]
    BY <1>4, <2>1 DEF UnionKids, NotHeld
  <2>3. k \in Reached(m)
    BY <1>1, <2>1, <2>2, StepsAre, DownNext DEF Reached
  <2>4. AtDefault(m, k)
    BY <1>4 DEF Clean
  <2>5. x \in Down(UnionKids(m))[k]
    BY <2>1, <2>4, DefaultView
  <2> QED
    BY <1>1, <2>3, <2>5, StepsAre, DownTrans DEF Reached
<1> QED
  BY <1>3, <1>4 DEF Tidy

\* A memory that has the same contents there has the same value there.
LEMMA Unchanged ==
    ASSUME NEW m, NEW r, NEW a \in Nodes, \A x \in Tidy(m, a) : r[x] = m[x]
    PROVE  /\ LiveIn(r, a) = LiveIn(m, a)
           /\ \A x \in LiveIn(m, a) : Meaning(x, r) = Meaning(x, m)
           /\ Clean(m, a) => Clean(r, a)
<1>1. LiveIn(m, a) \subseteq Nodes /\ LiveIn(m, a) \subseteq Tidy(m, a)
  BY LiveType DEF Tidy
<1>2. \A n \in LiveIn(m, a) : \A k : Chosen(m, n, k) <=> Chosen(r, n, k)
  BY <1>1, MeaningLocal
<1>3. \A n \in LiveIn(m, a) : HeldKids(m)[n] = HeldKids(r)[n]
  BY <1>1, <1>2 DEF HeldKids
<1>4. LiveIn(r, a) = LiveIn(m, a)
  <2>1. Down(HeldKids(m))[a] = Down(HeldKids(r))[a]
    BY <1>3, StepsAre, DownAgree DEF LiveIn
  <2> QED
    BY <2>1 DEF LiveIn
<1>5. \A x \in LiveIn(m, a) : Meaning(x, r) = Meaning(x, m)
  BY <1>1, MeaningLocal
<1>6. ASSUME Clean(m, a), NEW n \in LiveIn(r, a), NEW k \in Kids(n), Kind(n) = "sized",
             ~Chosen(r, n, k), NEW x \in Seeded[k]
      PROVE  r[x] = Default(x)
  <2>1. ~Chosen(m, n, k) /\ n \in LiveIn(m, a) /\ n \in Nodes
    BY <1>1, <1>2, <1>4, <1>6
  <2>2. m[x] = Default(x)
    BY <1>6, <2>1 DEF Clean, AtDefault
  <2>3. x \in Nodes
    BY <2>1, KidsInNodes, LiveType
  <2>4. x \in Tidy(m, a)
    BY <1>6, <2>1, <2>3 DEF Tidy
  <2> QED
    BY <2>2, <2>4
<1>7. Clean(m, a) => Clean(r, a)
  BY <1>6 DEF Clean, AtDefault
<1> QED
  BY <1>4, <1>5, <1>7

-----------------------------------------------------------------------------
(* What a store leaves alone.                                              *)

Lost(f) == UNION {Overlay[y] : y \in DOMAIN f}

LEMMA StoreAt ==
    ASSUME NEW m, NEW f, NEW x \in Nodes
    PROVE  Store(m, f)[x] = IF x \in DOMAIN f THEN f[x]
                            ELSE IF x \in Lost(f) THEN Junk ELSE m[x]
BY DEF Store, Lost

\* A store to an object and to a field of it reaches the other options of
\* unions within the field, and of the object if that is a union; not those of
\* a union around it, none of which is part of the value.
LEMMA OverlayWithin ==
    ASSUME NEW m, NEW p \in Reached(m), NEW k \in Kids(p),
           NEW y \in Nodes, y = p \/ y \in Below[k],
           NEW x \in Reached(m), x \in Overlay[y]
    PROVE  /\ y \in Below[k]
           /\ x \in Below[k] \/ (Kind(p) = "union" /\ x \in Below[p])
<1>1. p \in Nodes /\ k \in Nodes
  BY LiveType, KidsInNodes
<1>2. PICK u \in Nodes : \E o, q \in Kids(u) :
           Kind(u) = "union" /\ o # q /\ y \in Below[o] /\ x \in Below[q]
  BY DEF Overlay
<1>3. PICK o \in Kids(u), q \in Kids(u) :
           Kind(u) = "union" /\ o # q /\ y \in Below[o] /\ x \in Below[q]
  BY <1>2
<1>4. o \in Nodes /\ q \in Nodes
  BY KidsInNodes
<1>5. p \notin Below[o]
  <2> SUFFICES ASSUME p \in Below[o] PROVE FALSE
    OBVIOUS
  <2>1. ~NotHeld(m, u, o) /\ ~NotHeld(m, u, q)
    BY <1>3, ReachedThrough
  <2>2. <<Id(o)>> = <<Id(q)>>
    BY <1>3, <2>1 DEF NotHeld, HeldIn
  <2>3. Id(o) = Id(q)
    BY <2>2
  <2> QED
    BY <1>3, <2>3, SchemaAssumption
<1>6. y \in Below[k]
  BY <1>3, <1>5
<1>7. k \in Below[o] \/ o \in Below[k]
  BY <1>1, <1>3, <1>4, <1>6, Comparable
<1>8. k \in Below[o] => k = o
  BY <1>1, <1>4, <1>5, BelowParent
<1>9. CASE k = o
  <2>1. u = p
    BY <1>1, <1>9, OneParent
  <2> QED
    BY <1>1, <1>3, <1>6, <2>1, BelowKid
<1>10. CASE k # o
  <2>1. u \in Below[k]
    BY <1>1, <1>7, <1>8, <1>10, BelowParent
  <2>2. q \in Below[u] /\ Below[q] \subseteq Below[u] /\ Below[u] \subseteq Below[k]
    BY <1>1, <2>1, BelowKid, BelowTrans
  <2> QED
    BY <1>3, <1>6, <2>2
<1> QED
  BY <1>9, <1>10

LEMMA StoreKeeps ==
    ASSUME NEW m, NEW p \in Reached(m), NEW k \in Kids(p), NEW f,
           DOMAIN f \subseteq {p} \cup Below[k], NEW x \in Reached(m), x \notin DOMAIN f,
           \/ x \notin Below[k] /\ (Kind(p) = "union" => x \notin Below[p])
           \/ DOMAIN f \subseteq {p}
    PROVE  Store(m, f)[x] = m[x]
<1>1. x \in Nodes /\ p \in Nodes /\ k \in Nodes /\ Below[k] \subseteq Nodes
  BY LiveNodes, KidsInNodes, BelowType
<1>2. p \notin Below[k]
  BY <1>1, BelowKid
<1>3. ASSUME NEW y \in DOMAIN f, x \in Overlay[y] PROVE FALSE
  <2>1. y \in Nodes /\ (y = p \/ y \in Below[k])
    BY <1>1
  <2>2. y \in Below[k] /\ (x \in Below[k] \/ (Kind(p) = "union" /\ x \in Below[p]))
    BY <1>3, <2>1, OverlayWithin
  <2> QED
    BY <1>2, <2>2
<1>4. x \notin Lost(f)
  BY <1>3 DEF Lost
<1> QED
  BY <1>1, <1>4, StoreAt

LEMMA TidyBelow ==
    ASSUME NEW m, NEW a \in Nodes
    PROVE  Tidy(m, a) \subseteq Below[a]
<1>1. ASSUME NEW n \in LiveIn(m, a), NEW k \in Kids(n), NEW x \in Seeded[k]
      PROVE  x \in Below[a]
  <2>1. n \in Nodes /\ k \in Nodes /\ n \in Below[a]
    BY LiveType, KidsInNodes
  <2> QED
    BY <2>1, LiveType, BelowKid, BelowTrans
<1> QED
  BY <1>1, LiveType DEF Tidy

\* Outside the object that is stored to nothing changes.
LEMMA StoreOutside ==
    ASSUME NEW m, Clean(m, Root), NEW p \in Live(m), NEW k \in Kids(p), NEW f,
           DOMAIN f \subseteq {p} \cup Below[k], NEW r, r = Store(m, f)
    PROVE  /\ p \in Live(r)
           /\ \A x \in Nodes : x \notin Below[p] =>
                /\ x \in Live(r) <=> x \in Live(m)
                /\ x \in Live(m) => r[x] = m[x] /\ Meaning(x, r) = Meaning(x, m)
           /\ \A n \in Live(r) : \A c \in Kids(n) :
                (n \notin Below[p] /\ Kind(n) = "sized" /\ ~Chosen(r, n, c)) => AtDefault(r, c)
<1>1. /\ p \in Nodes /\ Root \in Nodes /\ p \in Below[p] /\ p \in Reached(m)
      /\ Below[k] \subseteq Below[p] /\ k \in Nodes
  BY LiveType, SchemaAssumption, BelowType, LiveReached, BelowKid, KidsInNodes
<1>2. ASSUME NEW x \in Reached(m), x \notin Below[p] PROVE r[x] = m[x]
  BY <1>1, <1>2, StoreKeeps
<1>3. \A x \in Live(m) : x \notin Below[p] => r[x] = m[x]
  BY <1>2, LiveReached
<1> DEFINE out(x) == x \notin Below[p] \/ x = p
<1>4. ASSUME NEW n \in Nodes, NEW c \in Kids(n), out(c)
      PROVE  n \notin Below[p]
  BY <1>1, <1>4, BelowKid, BelowTrans
<1>5. ASSUME NEW n \in Live(m), NEW c \in Kids(n), n \notin Below[p]
      PROVE  Chosen(m, n, c) <=> Chosen(r, n, c)
  BY <1>3, <1>5, LiveNodes, MeaningLocal
<1>6. ASSUME NEW x \in Live(m), out(x) PROVE x \in Live(r)
  <2> DEFINE X == {y \in Nodes : out(y) => y \in Live(r)}
  <2>1. Root \in X
    BY <1>1, LiveType
  <2>2. ASSUME NEW n \in Live(m), n \in X, NEW c \in HeldKids(m)[n] PROVE c \in X
    <3>1. n \in Nodes /\ c \in Kids(n) /\ Chosen(m, n, c) /\ c \in Nodes
      BY LiveNodes, KidsInNodes DEF HeldKids
    <3>2. CASE out(c)
      <4>1. n \notin Below[p] /\ n \in Live(r)
        BY <1>4, <2>2, <3>1, <3>2
      <4>2. Chosen(r, n, c)
        BY <1>5, <3>1, <4>1
      <4>3. c \in Live(r)
        BY <1>1, <3>1, <4>1, <4>2, LiveKid, StepsAre
      <4> QED
        BY <3>1, <4>3
    <3> QED
      BY <3>1, <3>2
  <2>3. Live(m) \subseteq X
    <3> HIDE DEF X, out
    <3>1. Down(HeldKids(m))[Root] \subseteq X
      BY <1>1, <2>1, <2>2, StepsAre, DownInduction DEF LiveIn
    <3> QED
      BY <3>1, StepsAre DEF LiveIn
  <2> QED
    BY <1>6, <2>3
<1>7. ASSUME NEW x \in Live(r), out(x) PROVE x \in Live(m)
  <2> DEFINE X == {y \in Nodes : out(y) => y \in Live(m)}
  <2>1. Root \in X
    BY <1>1, LiveType
  <2>2. ASSUME NEW n \in Live(r), n \in X, NEW c \in HeldKids(r)[n] PROVE c \in X
    <3>1. n \in Nodes /\ c \in Kids(n) /\ Chosen(r, n, c) /\ c \in Nodes
      BY LiveNodes, KidsInNodes DEF HeldKids
    <3>2. CASE out(c)
      <4>1. n \notin Below[p] /\ n \in Live(m)
        BY <1>4, <2>2, <3>1, <3>2
      <4>2. Chosen(m, n, c)
        BY <1>5, <3>1, <4>1
      <4>3. c \in Live(m)
        BY <1>1, <3>1, <4>1, <4>2, LiveKid, StepsAre
      <4> QED
        BY <3>1, <4>3
    <3> QED
      BY <3>1, <3>2
  <2>3. Live(r) \subseteq X
    <3> HIDE DEF X, out
    <3>1. Down(HeldKids(r))[Root] \subseteq X
      BY <1>1, <2>1, <2>2, StepsAre, DownInduction DEF LiveIn
    <3> QED
      BY <3>1, StepsAre DEF LiveIn
  <2> QED
    BY <1>7, <2>3
<1>8. ASSUME NEW n \in Live(r), NEW c \in Kids(n), n \notin Below[p], Kind(n) = "sized",
             ~Chosen(r, n, c), NEW x \in Seeded[c]
      PROVE  r[x] = Default(x)
  <2>1. n \in Live(m) /\ n \in Nodes /\ c \in Nodes
    BY <1>7, <1>8, LiveNodes, KidsInNodes
  <2>2. ~Chosen(m, n, c)
    BY <1>5, <1>8, <2>1
  <2>3. m[x] = Default(x) /\ x \in Nodes /\ x \in Below[c]
    BY <1>8, <2>1, <2>2, StepsAre, LiveType DEF Clean, AtDefault
  <2>4. x \in Reached(m)
    <3>1. x \in Tidy(m, Root)
      BY <1>8, <2>1, <2>2, <2>3, StepsAre DEF Tidy
    <3>2. Root \in Reached(m)
      BY LiveNodes, LiveReached
    <3> QED
      BY <3>1, <3>2, TidyReached
  <2>5. c \notin Live(m)
    BY <1>1, <2>1, <2>2, LiveKid, StepsAre
  <2>6. p \notin Below[c]
    BY <2>1, <2>5, LiveAncestor
  <2>7. c \notin Below[p]
    BY <1>1, <1>8, <2>1, <2>5, BelowParent
  <2>8. x \notin Below[p]
    BY <1>1, <2>1, <2>3, <2>6, <2>7, Comparable
  <2> QED
    BY <1>2, <2>3, <2>4, <2>8
<1>9. p \in Live(r)
  BY <1>6
<1>10. ASSUME NEW x \in Nodes, x \notin Below[p]
       PROVE  /\ x \in Live(r) <=> x \in Live(m)
              /\ x \in Live(m) => r[x] = m[x] /\ Meaning(x, r) = Meaning(x, m)
  BY <1>3, <1>6, <1>7, <1>10, MeaningLocal
<1> QED
  BY <1>8, <1>9, <1>10 DEF AtDefault

\* Nor in a field that is not stored to, unless the object is a union.
LEMMA StoreApart ==
    ASSUME NEW m, Clean(m, Root), NEW p \in Live(m),
           NEW k \in Kids(p), NEW f, DOMAIN f \subseteq {p} \cup Below[k],
           NEW c \in Kids(p), ~NotHeld(m, p, c),
           \/ c # k /\ Kind(p) # "union"
           \/ DOMAIN f \subseteq {p},
           NEW r, r = Store(m, f)
    PROVE  /\ LiveIn(r, c) = LiveIn(m, c)
           /\ \A x \in LiveIn(m, c) : Meaning(x, r) = Meaning(x, m)
           /\ Clean(r, c)
           /\ AtDefault(m, c) => AtDefault(r, c)
           /\ ~Chosen(m, p, c) => AtDefault(m, c)
<1>1. /\ p \in Nodes /\ c \in Nodes /\ Root \in Nodes /\ p \in Reached(m)
      /\ p \notin Below[c] /\ k \in Nodes
  BY LiveNodes, SchemaAssumption, LiveReached, BelowKid, KidsInNodes
<1>2. ~NotHeld(m, p, c)
  OBVIOUS
<1>3. c \in Reached(m)
  <2>1. c \in UnionKids(m)[p]
    BY <1>1, <1>2 DEF UnionKids
  <2> QED
    BY <1>1, <2>1, StepsAre, DownNext DEF Reached
<1>4. ~Chosen(m, p, c) => AtDefault(m, c)
  <2>1. p \in LiveIn(m, Root)
    BY StepsAre
  <2>2. ~Chosen(m, p, c) => Kind(p) = "sized"
    BY <1>2 DEF Chosen
  <2> QED
    BY <2>1, <2>2 DEF Clean
<1>5. Clean(m, c)
  <2>1. CASE Chosen(m, p, c)
    <3>1. p \in LiveIn(m, Root)
      BY StepsAre
    <3>2. LiveIn(m, c) \subseteq LiveIn(m, Root)
      BY <1>1, <2>1, <3>1, LiveKid
    <3> QED
      BY <3>2 DEF Clean
  <2>2. CASE ~Chosen(m, p, c)
    BY <1>1, <1>4, <2>2, DefaultView
  <2> QED
    BY <2>1, <2>2
<1>6. ASSUME NEW x \in Reached(m), x \in Below[c] PROVE r[x] = m[x]
  <2>1. x # p
    BY <1>1, <1>6
  <2>2. CASE c # k /\ Kind(p) # "union"
    <3>1. x \notin Below[k]
      BY <1>1, <1>6, <2>2, SiblingsApart
    <3>2. x \notin DOMAIN f
      BY <2>1, <3>1
    <3> QED
      BY <1>1, <1>6, <3>1, <3>2, StoreKeeps
  <2>3. CASE DOMAIN f \subseteq {p}
    <3>1. x \notin DOMAIN f
      BY <2>1, <2>3
    <3> QED
      BY <1>1, <1>6, <2>3, <3>1, StoreKeeps
  <2> QED
    BY <2>2, <2>3
<1>7. \A x \in Tidy(m, c) : r[x] = m[x]
  BY <1>1, <1>3, <1>5, <1>6, TidyReached, TidyBelow
<1>8. ASSUME AtDefault(m, c) PROVE AtDefault(r, c)
  <2>1. Seeded[c] \subseteq Down(UnionKids(m))[c] /\ Seeded[c] \subseteq Below[c]
    BY <1>1, <1>8, DefaultView, LiveType
  <2>2. Down(UnionKids(m))[c] \subseteq Reached(m)
    BY <1>1, <1>3, StepsAre, DownTrans DEF Reached
  <2> QED
    BY <1>6, <1>8, <2>1, <2>2 DEF AtDefault
<1>9. /\ LiveIn(r, c) = LiveIn(m, c)
      /\ \A x \in LiveIn(m, c) : Meaning(x, r) = Meaning(x, m)
      /\ Clean(m, c) => Clean(r, c)
  <2>1. c \in Nodes
    BY <1>1
  <2> QED
    BY <2>1, <1>7, Unchanged
<1> QED
  BY <1>4, <1>5, <1>8, <1>9

LEMMA StoreBeside ==
    ASSUME NEW m, Clean(m, Root), NEW p \in Live(m), Kind(p) # "union",
           NEW k \in Kids(p), NEW f, DOMAIN f \subseteq {p} \cup Below[k],
           NEW c \in Kids(p), c # k,
           NEW r, r = Store(m, f)
    PROVE  /\ LiveIn(r, c) = LiveIn(m, c)
           /\ \A x \in LiveIn(m, c) : Meaning(x, r) = Meaning(x, m)
           /\ Clean(r, c)
           /\ AtDefault(m, c) => AtDefault(r, c)
           /\ ~Chosen(m, p, c) => AtDefault(m, c)
<1>1. ~NotHeld(m, p, c)
  BY DEF NotHeld
<1> QED
  BY <1>1, StoreApart

LEMMA CleanSplit ==
    ASSUME NEW r, NEW p \in Live(r),
           \A n \in Live(r) : \A c \in Kids(n) :
                (n \notin Below[p] /\ Kind(n) = "sized" /\ ~Chosen(r, n, c)) => AtDefault(r, c),
           \A c \in Kids(p) : Chosen(r, p, c) => Clean(r, c),
           \A c \in Kids(p) : (Kind(p) = "sized" /\ ~Chosen(r, p, c)) => AtDefault(r, c)
    PROVE  Clean(r, Root)
<1> SUFFICES ASSUME NEW n \in Live(r), NEW c \in Kids(n), Kind(n) = "sized", ~Chosen(r, n, c)
             PROVE  AtDefault(r, c)
  BY StepsAre DEF Clean
<1>1. p \in Nodes /\ n \in Nodes
  BY LiveNodes
<1>2. CASE n \in Below[p] /\ n # p
  <2>1. n \in LiveIn(r, p)
    BY <1>2, LiveThrough
  <2>2. PICK k \in Kids(p) : Chosen(r, p, k) /\ n \in LiveIn(r, k)
    BY <1>1, <1>2, <2>1, LiveSplit
  <2> QED
    BY <2>2 DEF Clean
<1> QED
  BY <1>2

LEMMA LiveUnder ==
    ASSUME NEW m, NEW p \in Live(m), NEW c \in Kids(p), NEW x \in Below[c]
    PROVE  x \in Live(m) <=> Chosen(m, p, c) /\ x \in LiveIn(m, c)
<1>1. p \in Nodes /\ c \in Nodes /\ Root \in Nodes /\ Live(m) = LiveIn(m, Root)
  BY LiveNodes, KidsInNodes, StepsAre, SchemaAssumption
<1>2. c \in Live(m) <=> Chosen(m, p, c)
  BY <1>1, LiveKid
<1>3. x \in Live(m) => c \in Live(m)
  BY <1>1, LiveAncestor
<1>4. c \in Live(m) => (x \in Live(m) <=> x \in LiveIn(m, c))
  BY LiveThrough
<1> QED
  BY <1>2, <1>3, <1>4

-----------------------------------------------------------------------------
(* What a field does to the value.                                         *)

FreshOf(n) == [x \in FreshParts[n] |-> Default(x)]

Without(f, gone) == [x \in DOMAIN f \ gone |-> f[x]]

NewElements(p, k, v) == {c \in Kids(p) : Id(c) <= Id(k) /\ Id(c) >= v[p][1]}

\* Reach of module ObjectValue: field k of the object p of a value v.
ReachOf(p, k, v) ==
    CASE Kind(p) = "union" /\ v[p] # <<Id(k)>> ->
            With(With(Without(v, Below[p]), At(p, <<Id(k)>>)), FreshOf(k))
      [] Kind(p) = "sized" /\ Id(k) >= v[p][1] ->
            With(With(v, At(p, <<Id(k) + 1>>)),
                 [x \in UNION {FreshParts[c] : c \in NewElements(p, k, v)} |-> Default(x)])
      [] OTHER -> v

\* What the callback does to the object p of a bound field k of it.
Observed(m, r, p, k) ==
    /\ Kind(p) = "union" => r[p] = <<Id(k)>>
    /\ Kind(p) = "sized" =>
          SeqLen(p, r) = IF Id(k) < SeqLen(p, m) THEN SeqLen(p, m) ELSE Id(k) + 1

LEMMA SeqLenType ==
    ASSUME NEW m \in Memory, NEW n \in Nodes
    PROVE  /\ SeqLen(n, m) \in Nat /\ Len(Schema[n].kids) \in Nat
           /\ SeqLen(n, m) <= Len(Schema[n].kids)
           /\ Kind(n) = "sized" =>
                m[n][1] \in Nat /\ SeqLen(n, m) = AtMost(m[n][1], Len(Schema[n].kids))
<1>1. Len(Schema[n].kids) \in Nat
  BY NodeType
<1>2. CASE Kind(n) = "sized"
  <2>1. m[n] \in Seq(Nat) /\ Len(m[n]) = 1
    BY <1>2 DEF Memory
  <2>2. 1 \in 1..Len(m[n])
    BY <2>1
  <2>3. m[n][1] \in Nat
    BY <2>1, <2>2, ElementOfSeq
  <2> QED
    BY <1>1, <1>2, <2>3 DEF SeqLen, AtMost
<1> QED
  BY <1>1, <1>2 DEF SeqLen

LEMMA SlotIndex ==
    ASSUME NEW n \in Nodes, Wrapper(n), NEW k \in Kids(n)
    PROVE  Id(k) < Len(Schema[n].kids) /\ Id(k) \in Nat
<1>1. PICK i \in DOMAIN Schema[n].kids : Schema[n].kids[i] = k
  BY DEF Kids, ToSet
<1>2. i \in 1..Len(Schema[n].kids) /\ Len(Schema[n].kids) \in Nat
  BY <1>1, NodeType, LenProperties
<1>3. Id(k) = i - 1
  BY <1>1, <1>2, SchemaAssumption
<1> QED
  BY <1>2, <1>3

LEMMA ViewAt ==
    ASSUME NEW m
    PROVE  DOMAIN View(m) = Live(m) /\ \A x \in Live(m) : View(m)[x] = Meaning(x, m)
BY DEF View

LEMMA ViewNumber ==
    ASSUME NEW m, NEW x \in Live(m)
    PROVE  /\ Kind(x) = "sized" => View(m)[x][1] = SeqLen(x, m)
           /\ Kind(x) = "union" => View(m)[x] = m[x]
<1>1. View(m)[x] = Meaning(x, m)
  BY ViewAt
<1>2. Kind(x) = "sized" => Meaning(x, m) = <<SeqLen(x, m)>>
  BY DEF Meaning
<1>3. Kind(x) = "union" => Meaning(x, m) = m[x]
  BY DEF Meaning, Used
<1> QED
  BY <1>1, <1>2, <1>3

\* Outside field k the value is what ReachOf says.
Agrees(R, r, x) ==
    /\ x \in Live(r) <=> x \in DOMAIN R
    /\ x \in Live(r) => R[x] = Meaning(x, r)

LEMMA ViewAgrees ==
    ASSUME NEW m, NEW r, NEW x, x \in Live(r) <=> x \in Live(m),
           x \in Live(m) => Meaning(x, r) = Meaning(x, m)
    PROVE  Agrees(View(m), r, x)
BY ViewAt DEF Agrees

\* A value without what it had in some place, and with what is there instead.
LEMMA WithAt ==
    ASSUME NEW f, NEW g
    PROVE  /\ DOMAIN With(f, g) = DOMAIN f \cup DOMAIN g
           /\ \A x \in DOMAIN g : With(f, g)[x] = g[x]
           /\ \A x \in DOMAIN f : x \notin DOMAIN g => With(f, g)[x] = f[x]
BY DEF With

LEMMA AtAt ==
    ASSUME NEW n, NEW v
    PROVE  DOMAIN At(n, v) = {n} /\ At(n, v)[n] = v
BY DEF At

LEMMA FieldOfStruct ==
    ASSUME NEW m \in Memory, Clean(m, Root), NEW p \in Live(m), NEW k \in Kids(p),
           Kind(p) \notin {"union", "sized"},
           NEW f, DOMAIN f \subseteq {p} \cup Below[k], NEW r, r = Store(m, f),
           NEW x \in Nodes, x \notin Below[k]
    PROVE  Agrees(ReachOf(p, k, View(m)), r, x) /\ Chosen(r, p, k)
<1>1. ReachOf(p, k, View(m)) = View(m)
  BY DEF ReachOf
<1>2. p \in Live(r) /\ p \in Nodes /\ ~Leaf(p) /\ Kind(p) \in {"struct", "holder"}
  <2>1. p \in Nodes
    BY LiveNodes
  <2>2. p \in Live(r)
    BY StoreOutside
  <2> QED
    BY <2>1, <2>2, NodeType DEF Containers, Leaf
<1>3. \A c \in Kids(p) : Chosen(m, p, c) /\ Chosen(r, p, c)
  BY <1>2 DEF Chosen, NotHeld
<1> SUFFICES Agrees(ReachOf(p, k, View(m)), r, x)
  BY <1>3
<1>4. CASE x \notin Below[p]
  BY <1>1, <1>4, StoreOutside, ViewAgrees
<1>5. CASE x = p
  <2>1. Meaning(p, m) = <<>> /\ Meaning(p, r) = <<>>
    BY <1>2 DEF Meaning
  <2> QED
    BY <1>1, <1>2, <1>5, <2>1, ViewAgrees
<1>6. CASE x \in Below[p] /\ x # p
  <2>1. PICK c \in Kids(p) : x \in Below[c]
    BY <1>2, <1>6, BelowSplit
  <2>2. c # k
    BY <2>1
  <2>3. /\ LiveIn(r, c) = LiveIn(m, c)
        /\ \A y \in LiveIn(m, c) : Meaning(y, r) = Meaning(y, m)
    BY <2>2, StoreBeside
  <2>4. x \in Live(r) <=> x \in Live(m)
    BY <1>2, <1>3, <2>1, <2>3, LiveUnder
  <2>5. x \in Live(m) => Meaning(x, r) = Meaning(x, m)
    BY <2>1, <2>3, LiveUnder
  <2> QED
    BY <1>1, <2>4, <2>5, ViewAgrees
<1> QED
  BY <1>4, <1>5, <1>6

LEMMA FieldOfUnion ==
    ASSUME NEW m \in Memory, Clean(m, Root), NEW p \in Live(m), NEW k \in Kids(p),
           Kind(p) = "union",
           NEW f, DOMAIN f \subseteq {p} \cup Below[k], NEW r, r = Store(m, f),
           Observed(m, r, p, k), NEW x \in Nodes, x \notin Below[k]
    PROVE  Agrees(ReachOf(p, k, View(m)), r, x) /\ Chosen(r, p, k)
<1> DEFINE V == View(m)
           R == ReachOf(p, k, V)
           rest == With(Without(V, Below[p]), At(p, <<Id(k)>>))
<1>1. /\ p \in Nodes /\ k \in Nodes /\ p \in Live(r) /\ r[p] = <<Id(k)>>
      /\ V[p] = m[p] /\ V[p] = Meaning(p, m) /\ p \in Below[p]
      /\ FreshParts[k] \subseteq Below[k] /\ Below[k] \subseteq Below[p] /\ p \notin Below[k]
  <2>1. p \in Nodes /\ k \in Nodes
    BY LiveNodes, KidsInNodes
  <2>2. p \in Live(r) /\ r[p] = <<Id(k)>>
    BY StoreOutside DEF Observed
  <2>3. V[p] = m[p] /\ V[p] = Meaning(p, m)
    BY ViewNumber, ViewAt
  <2> QED
    BY <2>1, <2>2, <2>3, LiveType, BelowKid, BelowType
<1>2. \A c \in Kids(p) : Id(c) = Id(k) => c = k
  BY <1>1, SchemaAssumption
<1>3. \A c \in Kids(p) : Chosen(r, p, c) <=> c = k
  BY <1>1, <1>2 DEF Chosen, NotHeld, HeldIn
<1> SUFFICES Agrees(R, r, x)
  BY <1>3
<1>4. Meaning(p, r) = <<Id(k)>>
  BY <1>1 DEF Meaning, Used
<1>5. V[p] = <<Id(k)>> => R = V
  BY DEF ReachOf
<1>6. V[p] # <<Id(k)>> => R = With(rest, FreshOf(k))
  BY DEF ReachOf
<1>7. /\ DOMAIN rest = (Live(m) \ Below[p]) \cup {p}
      /\ rest[p] = <<Id(k)>>
      /\ \A y \in Live(m) \ Below[p] : rest[y] = V[y]
  BY <1>1, ViewAt DEF With, Without, At
<1>8. DOMAIN FreshOf(k) = FreshParts[k]
  BY DEF FreshOf
<1>9. V[p] # <<Id(k)>> /\ x \notin FreshParts[k] =>
        (x \in DOMAIN R <=> x \in DOMAIN rest) /\ (x \in DOMAIN rest => R[x] = rest[x])
  <2> HIDE DEF rest
  <2>1. DOMAIN With(rest, FreshOf(k)) = DOMAIN rest \cup FreshParts[k]
    <3>1. DOMAIN With(rest, FreshOf(k)) = DOMAIN rest \cup DOMAIN FreshOf(k)
      BY WithAt
    <3> QED
      BY <1>8, <3>1
  <2>2. \A y \in DOMAIN rest : y \notin FreshParts[k] => With(rest, FreshOf(k))[y] = rest[y]
    BY <1>8, WithAt
  <2> HIDE DEF R, V
  <2> QED
    BY <1>6, <2>1, <2>2
<1>10. x \notin FreshParts[k]
  BY <1>1
<1>11. CASE x \notin Below[p]
  <2>1. /\ x \in Live(r) <=> x \in Live(m)
        /\ x \in Live(m) => Meaning(x, r) = Meaning(x, m)
    BY <1>11, StoreOutside
  <2>2. CASE V[p] = <<Id(k)>>
    BY <1>5, <2>1, <2>2, ViewAgrees
  <2>3. CASE V[p] # <<Id(k)>>
    <3> HIDE DEF R, rest
    <3>1. x \in DOMAIN R <=> x \in Live(m)
      BY <1>1, <1>7, <1>9, <1>10, <1>11, <2>3
    <3>2. x \in Live(m) => R[x] = Meaning(x, m)
      BY <1>7, <1>9, <1>10, <1>11, <2>3, ViewAt
    <3> QED
      BY <2>1, <3>1, <3>2 DEF Agrees
  <2> QED
    BY <2>2, <2>3
<1>12. CASE x = p
  <2>1. p \in DOMAIN R /\ R[p] = <<Id(k)>>
    <3> HIDE DEF R, rest
    <3>1. p \in DOMAIN V
      BY ViewAt
    <3> QED
      BY <1>5, <1>7, <1>9, <1>10, <1>12, <3>1
  <2> HIDE DEF R
  <2> QED
    BY <1>1, <1>4, <1>12, <2>1 DEF Agrees
<1>13. CASE x \in Below[p] /\ x # p
  <2>1. PICK c \in Kids(p) : x \in Below[c]
    BY <1>1, <1>13, BelowSplit
  <2>2. c # k
    BY <2>1
  <2>3. x \notin Live(r)
    BY <1>1, <1>3, <2>1, <2>2, LiveUnder
  <2>4. x \notin DOMAIN R
    <3>1. CASE V[p] = <<Id(k)>>
      <4>1. ~Chosen(m, p, c)
        BY <1>1, <1>2, <2>2, <3>1 DEF Chosen, NotHeld, HeldIn
      <4>2. x \notin Live(m)
        BY <2>1, <4>1, LiveUnder
      <4> QED
        BY <1>5, <3>1, <4>2, ViewAt
    <3>2. CASE V[p] # <<Id(k)>>
      <4> HIDE DEF R, rest
      <4> QED
        BY <1>7, <1>9, <1>10, <1>13, <3>2
    <3> QED
      BY <3>1, <3>2
  <2> HIDE DEF R
  <2> QED
    BY <2>3, <2>4 DEF Agrees
<1> QED
  BY <1>11, <1>12, <1>13

LEMMA FieldOfSized ==
    ASSUME NEW m \in Memory, Clean(m, Root), NEW p \in Live(m), NEW k \in Kids(p),
           Kind(p) = "sized",
           NEW f, DOMAIN f \subseteq {p} \cup Below[k], NEW r, r = Store(m, f),
           Observed(m, r, p, k), NEW x \in Nodes, x \notin Below[k]
    PROVE  Agrees(ReachOf(p, k, View(m)), r, x) /\ Chosen(r, p, k)
<1> DEFINE V == View(m)
           R == ReachOf(p, k, V)
           new == NewElements(p, k, V)
           rest == With(V, At(p, <<Id(k) + 1>>))
           added == [y \in UNION {FreshParts[c] : c \in new} |-> Default(y)]
<1>1. /\ p \in Nodes /\ k \in Nodes /\ p \in Live(r) /\ p \in Below[p]
      /\ V[p][1] = SeqLen(p, m) /\ V[p] = Meaning(p, m)
      /\ Below[k] \subseteq Below[p] /\ p \notin Below[k]
  BY LiveNodes, KidsInNodes, StoreOutside, ViewNumber, ViewAt, BelowKid, BelowType
<1>2. /\ SeqLen(p, m) \in Nat
      /\ \A c \in Kids(p) : Id(c) \in Nat /\ c \in Nodes
  BY <1>1, SeqLenType, SlotIndex, KidsInNodes DEF Wrapper
<1>3. SeqLen(p, r) = IF Id(k) < SeqLen(p, m) THEN SeqLen(p, m) ELSE Id(k) + 1
  BY DEF Observed
<1>4. /\ \A c \in Kids(p) : Chosen(m, p, c) <=> Id(c) < SeqLen(p, m)
      /\ \A c \in Kids(p) : Chosen(r, p, c) <=> Id(c) < SeqLen(p, r)
  BY DEF Chosen, NotHeld
<1>5. Chosen(r, p, k)
  BY <1>2, <1>3, <1>4
<1> SUFFICES Agrees(R, r, x)
  BY <1>5
<1>6. Meaning(p, r) = <<SeqLen(p, r)>> /\ Meaning(p, m) = <<SeqLen(p, m)>>
  BY DEF Meaning
<1>7. \A c \in Kids(p) : c \in new <=> Id(c) <= Id(k) /\ ~Chosen(m, p, c)
  BY <1>1, <1>2, <1>4 DEF NewElements
<1>8. \A c \in Kids(p) : Chosen(r, p, c) <=>
        Chosen(m, p, c) \/ (Id(k) >= SeqLen(p, m) /\ c \in new)
  BY <1>2, <1>3, <1>4, <1>7
<1>9. \A c \in new : c \in Kids(p) /\ FreshParts[c] \subseteq Below[c] /\ Below[c] \subseteq Below[p]
                     /\ p \notin Below[c]
  BY <1>1, <1>2, LiveType, BelowKid DEF NewElements
<1>10. /\ Id(k) < SeqLen(p, m) => R = V
       /\ Id(k) >= SeqLen(p, m) => R = With(rest, added)
  BY <1>1, <1>2 DEF ReachOf
<1>11. /\ DOMAIN rest = Live(m) /\ rest[p] = <<Id(k) + 1>>
       /\ \A y \in Live(m) : y # p => rest[y] = V[y]
  BY ViewAt DEF With, At
<1>12. /\ \A y : y \in DOMAIN added <=> \E c \in new : y \in FreshParts[c]
       /\ \A y \in DOMAIN added : added[y] = Default(y)
  OBVIOUS
<1>13. Id(k) >= SeqLen(p, m) =>
         /\ DOMAIN R = Live(m) \cup DOMAIN added
         /\ x \in DOMAIN added => R[x] = Default(x)
         /\ x \in Live(m) /\ x \notin DOMAIN added => R[x] = rest[x]
  <2>1. /\ DOMAIN With(rest, added) = DOMAIN rest \cup DOMAIN added
        /\ \A y \in DOMAIN added : With(rest, added)[y] = added[y]
        /\ \A y \in DOMAIN rest : y \notin DOMAIN added => With(rest, added)[y] = rest[y]
    BY WithAt
  <2> HIDE DEF R, rest, added, V
  <2> QED
    BY <1>10, <1>11, <1>12, <2>1
<1>14. \/ Id(k) < SeqLen(p, m) \/ Id(k) >= SeqLen(p, m)
  BY <1>2
<1> HIDE DEF R, rest, added, V, new
<1>15. CASE x \notin Below[p]
  <2>1. /\ x \in Live(r) <=> x \in Live(m)
        /\ x \in Live(m) => Meaning(x, r) = Meaning(x, m)
    BY <1>15, StoreOutside
  <2>2. x \notin DOMAIN added /\ x # p
    BY <1>1, <1>9, <1>12, <1>15
  <2>3. /\ x \in DOMAIN R <=> x \in Live(m)
        /\ x \in Live(m) => R[x] = V[x]
    BY <1>10, <1>11, <1>13, <1>14, <2>2, ViewAt DEF V
  <2>4. x \in Live(m) => V[x] = Meaning(x, m)
    BY ViewAt DEF V
  <2> QED
    BY <2>1, <2>3, <2>4 DEF Agrees
<1>16. CASE x = p
  <2>1. p \notin DOMAIN added
    BY <1>9, <1>12
  <2>2. p \in DOMAIN R /\ R[p] = Meaning(p, r)
    <3>1. CASE Id(k) < SeqLen(p, m)
      <4>1. R = V /\ SeqLen(p, r) = SeqLen(p, m) /\ DOMAIN V = Live(m)
        BY <1>3, <1>10, <3>1, ViewAt DEF V
      <4> QED
        BY <1>1, <1>6, <4>1
    <3>2. CASE Id(k) >= SeqLen(p, m)
      <4>1. SeqLen(p, r) = Id(k) + 1
        BY <1>2, <1>3, <3>2
      <4> QED
        BY <1>6, <1>11, <1>13, <1>16, <2>1, <3>2, <4>1
    <3> QED
      BY <1>14, <3>1, <3>2
  <2> QED
    BY <1>1, <1>16, <2>2 DEF Agrees
<1>17. CASE x \in Below[p] /\ x # p
  <2>1. PICK c \in Kids(p) : x \in Below[c]
    BY <1>1, <1>17, BelowSplit
  <2>2. c # k /\ c \in Nodes
    BY <1>2, <2>1
  <2>3. /\ LiveIn(r, c) = LiveIn(m, c)
        /\ \A y \in LiveIn(m, c) : Meaning(y, r) = Meaning(y, m)
        /\ ~Chosen(m, p, c) => AtDefault(m, c)
    BY <2>2, StoreBeside
  <2>4. /\ x \in Live(r) <=> Chosen(r, p, c) /\ x \in LiveIn(m, c)
        /\ x \in Live(m) <=> Chosen(m, p, c) /\ x \in LiveIn(m, c)
    BY <1>1, <2>1, <2>3, LiveUnder
  <2>5. x \in DOMAIN added <=> c \in new /\ x \in FreshParts[c]
    <3>1. \A e \in new : x \in FreshParts[e] => e = c
      BY <1>1, <1>9, <2>1, SiblingsApart
    <3> QED
      BY <1>12, <3>1
  <2>6. c \in new => /\ ~Chosen(m, p, c)
                     /\ LiveIn(m, c) = FreshParts[c]
                     /\ \A y \in LiveIn(m, c) : Meaning(y, m) = Default(y)
    BY <1>7, <2>2, <2>3, DefaultView
  <2>7. CASE Id(k) < SeqLen(p, m)
    <3>1. x \in Live(r) <=> x \in Live(m)
      BY <1>2, <1>8, <2>4, <2>7
    <3>2. x \in Live(m) => Meaning(x, r) = Meaning(x, m)
      BY <2>3, <2>4
    <3> QED
      BY <1>10, <2>7, <3>1, <3>2, ViewAgrees DEF V
  <2>8. CASE Id(k) >= SeqLen(p, m)
    <3>1. x \in Live(r) <=> x \in DOMAIN R
      BY <1>8, <1>13, <2>4, <2>5, <2>6, <2>8
    <3>2. ASSUME x \in Live(r) PROVE R[x] = Meaning(x, r)
      <4>1. Meaning(x, r) = Meaning(x, m)
        BY <2>3, <2>4, <3>2
      <4>2. CASE c \in new
        BY <1>13, <2>4, <2>5, <2>6, <2>8, <3>2, <4>1, <4>2
      <4>3. CASE c \notin new
        <5>1. x \in Live(m) /\ x \notin DOMAIN added
          BY <1>8, <2>4, <2>5, <3>2, <4>3
        <5> QED
          BY <1>11, <1>13, <1>17, <2>8, <4>1, <5>1, ViewAt DEF V
      <4> QED
        BY <4>2, <4>3
    <3> QED
      BY <3>1, <3>2 DEF Agrees
  <2> QED
    BY <1>14, <2>7, <2>8
<1> QED
  BY <1>15, <1>16, <1>17

\* Storing to field k of a live object makes it part of the value, changes the
\* value elsewhere as ReachOf says, and leaves spare elements at their defaults.
LEMMA FieldStored ==
    ASSUME NEW m \in Memory, Clean(m, Root), NEW p \in Live(m), NEW k \in Kids(p),
           NEW f, DOMAIN f \subseteq {p} \cup Below[k], NEW r, r = Store(m, f),
           Observed(m, r, p, k), Clean(r, k)
    PROVE  /\ k \in Live(r)
           /\ Clean(r, Root)
           /\ \A x \in Nodes : x \notin Below[k] => Agrees(ReachOf(p, k, View(m)), r, x)
<1>1. p \in Nodes /\ k \in Nodes /\ p \in Live(r) /\ p \notin Below[k] /\ Root \in Nodes
  BY LiveNodes, KidsInNodes, StoreOutside, BelowKid, SchemaAssumption
<1>2. ASSUME NEW x \in Nodes, x \notin Below[k]
      PROVE  Agrees(ReachOf(p, k, View(m)), r, x) /\ Chosen(r, p, k)
  BY <1>2, FieldOfStruct, FieldOfSized, FieldOfUnion
<1>3. Chosen(r, p, k)
  BY <1>1, <1>2
<1>4. k \in Live(r)
  BY <1>1, <1>3, LiveKid, StepsAre
<1>5. ASSUME NEW c \in Kids(p), Chosen(r, p, c) PROVE Clean(r, c)
  <2>1. CASE Kind(p) = "union"
    <3>1. <<Id(c)>> = <<Id(k)>>
      BY <1>5, <2>1 DEF Chosen, NotHeld, HeldIn, Observed
    <3>2. Id(c) = Id(k)
      BY <3>1
    <3> QED
      BY <1>1, <3>2, SchemaAssumption
  <2>2. CASE Kind(p) # "union" /\ c # k
    BY <2>2, StoreBeside
  <2> QED
    BY <2>1, <2>2
<1>6. ASSUME NEW c \in Kids(p), Kind(p) = "sized", ~Chosen(r, p, c) PROVE AtDefault(r, c)
  <2>1. c # k
    BY <1>3, <1>6
  <2>2. ~Chosen(m, p, c)
    <3>1. Id(c) \in Nat /\ Id(k) \in Nat /\ SeqLen(p, m) \in Nat
      BY <1>1, <1>6, SeqLenType, SlotIndex DEF Wrapper
    <3>2. ~(Id(c) < SeqLen(p, r))
      BY <1>6 DEF Chosen, NotHeld
    <3>3. ~(Id(c) < SeqLen(p, m))
      BY <1>6, <3>1, <3>2 DEF Observed
    <3> QED
      BY <1>6, <3>3 DEF Chosen
  <2> QED
    BY <1>6, <2>1, <2>2, StoreBeside
<1>7. \A n \in Live(r) : \A c \in Kids(n) :
         (n \notin Below[p] /\ Kind(n) = "sized" /\ ~Chosen(r, n, c)) => AtDefault(r, c)
  BY StoreOutside
<1>8. Clean(r, Root)
  BY <1>1, <1>5, <1>6, <1>7, CleanSplit
<1> QED
  BY <1>2, <1>4, <1>8

\* The whole value after such a store.
LEMMA FieldView ==
    ASSUME NEW m, NEW R, NEW k \in Live(m), NEW v,
           \A x \in Nodes : x \notin Below[k] => Agrees(R, m, x),
           DOMAIN R \subseteq Nodes,
           DOMAIN v = (DOMAIN R \ Below[k]) \cup LiveIn(m, k),
           \A x \in LiveIn(m, k) : v[x] = Meaning(x, m),
           \A x \in DOMAIN R \ Below[k] : v[x] = R[x],
           NEW D, v = [x \in D |-> v[x]]
    PROVE  View(m) = v
<1>1. k \in Nodes /\ LiveIn(m, k) \subseteq Below[k] /\ Below[k] \subseteq Nodes
  BY LiveNodes, LiveType
<1>2. \A x \in Below[k] : x \in Live(m) <=> x \in LiveIn(m, k)
  BY LiveThrough
<1>3. DOMAIN v = Live(m)
  BY <1>1, <1>2, LiveNodes DEF Agrees
<1>4. \A x \in Live(m) : v[x] = Meaning(x, m)
  BY <1>1, <1>2, LiveNodes DEF Agrees
<1>5. v = [x \in DOMAIN v |-> v[x]]
  OBVIOUS
<1> HIDE DEF View
<1> QED
  BY <1>3, <1>4, <1>5 DEF View

LEMMA ReachDomain ==
    ASSUME NEW m \in Memory, NEW p \in Live(m), NEW k \in Kids(p)
    PROVE  DOMAIN ReachOf(p, k, View(m)) \subseteq Nodes
<1> DEFINE V == View(m)
           new == NewElements(p, k, V)
<1>1. p \in Nodes /\ k \in Nodes /\ DOMAIN V = Live(m) /\ Live(m) \subseteq Nodes
  BY LiveNodes, KidsInNodes, ViewAt
<1>2. \A c \in Kids(p) : FreshParts[c] \subseteq Nodes
  BY <1>1, KidsInNodes, LiveType
<1>3. /\ DOMAIN FreshOf(k) \subseteq Nodes
      /\ DOMAIN [x \in UNION {FreshParts[c] : c \in new} |-> Default(x)] \subseteq Nodes
      /\ DOMAIN At(p, <<Id(k)>>) \subseteq Nodes /\ DOMAIN At(p, <<Id(k) + 1>>) \subseteq Nodes
      /\ DOMAIN Without(V, Below[p]) \subseteq Nodes
  BY <1>1, <1>2 DEF FreshOf, NewElements, At, Without
<1>4. \A g, h : DOMAIN g \subseteq Nodes /\ DOMAIN h \subseteq Nodes =>
          DOMAIN With(g, h) \subseteq Nodes
  BY DEF With
<1>5. ReachOf(p, k, V) \in
        {V, With(With(Without(V, Below[p]), At(p, <<Id(k)>>)), FreshOf(k)),
         With(With(V, At(p, <<Id(k) + 1>>)),
              [x \in UNION {FreshParts[c] : c \in new} |-> Default(x)])}
  BY DEF ReachOf
<1> HIDE DEF V, new
<1>6. DOMAIN ReachOf(p, k, V) \subseteq Nodes
  BY <1>1, <1>3, <1>4, <1>5
<1> QED
  BY <1>6 DEF V

\* What ReachOf says of field k itself, before anything is stored to it.
LEMMA ReachUnder ==
    ASSUME NEW m \in Memory, Clean(m, Root), NEW p \in Live(m), NEW k \in Kids(p),
           NEW x \in Below[k], NEW R, R = ReachOf(p, k, View(m))
    PROVE  /\ NotHeld(m, p, k) =>
                 /\ x \in DOMAIN R <=> x \in FreshParts[k]
                 /\ x \in FreshParts[k] => R[x] = Default(x)
           /\ ~NotHeld(m, p, k) =>
                 /\ x \in DOMAIN R <=> x \in LiveIn(m, k)
                 /\ x \in LiveIn(m, k) => R[x] = Meaning(x, m)
<1> DEFINE V == View(m)
           rest == With(Without(V, Below[p]), At(p, <<Id(k)>>))
<1>1. /\ p \in Nodes /\ k \in Nodes /\ Below[k] \subseteq Below[p] /\ p \notin Below[k]
  BY LiveNodes, KidsInNodes, BelowKid
<1>2. x \in Live(m) <=> Chosen(m, p, k) /\ x \in LiveIn(m, k)
  BY LiveUnder
<1>3. DOMAIN V = Live(m) /\ \A y \in Live(m) : V[y] = Meaning(y, m)
  BY ViewAt
<1>4. CASE Kind(p) = "union"
  <2>1. V[p] = m[p]
    BY <1>4, ViewNumber
  <2>2. Chosen(m, p, k) <=> ~NotHeld(m, p, k)
    BY <1>4 DEF Chosen
  <2>3. CASE NotHeld(m, p, k)
    <3>1. R = With(rest, FreshOf(k))
      BY <1>4, <2>1, <2>3 DEF ReachOf, NotHeld, HeldIn
    <3>2. DOMAIN rest = (Live(m) \ Below[p]) \cup {p}
      BY <1>3 DEF With, Without, At
    <3>3. DOMAIN FreshOf(k) = FreshParts[k] /\ \A y \in FreshParts[k] : FreshOf(k)[y] = Default(y)
      BY DEF FreshOf
    <3> HIDE DEF rest
    <3>4. DOMAIN With(rest, FreshOf(k)) = DOMAIN rest \cup DOMAIN FreshOf(k)
          /\ \A y \in DOMAIN FreshOf(k) : With(rest, FreshOf(k))[y] = FreshOf(k)[y]
      BY WithAt
    <3> QED
      BY <1>1, <2>3, <3>1, <3>2, <3>3, <3>4
  <2>4. CASE ~NotHeld(m, p, k)
    <3>1. R = V
      BY <1>4, <2>1, <2>4 DEF ReachOf, NotHeld, HeldIn
    <3> QED
      BY <1>2, <1>3, <2>2, <2>4, <3>1
  <2> QED
    BY <2>3, <2>4
<1>5. CASE Kind(p) = "sized"
  <2>1. V[p][1] = SeqLen(p, m)
    BY <1>5, ViewNumber
  <2>2. /\ SeqLen(p, m) \in Nat
        /\ \A c \in Kids(p) : Id(c) \in Nat /\ c \in Nodes
    BY <1>1, <1>5, SeqLenType, SlotIndex, KidsInNodes DEF Wrapper
  <2>3. ~NotHeld(m, p, k) /\ (Chosen(m, p, k) <=> Id(k) < SeqLen(p, m))
    BY <1>5 DEF NotHeld, Chosen
  <2>4. CASE Id(k) < SeqLen(p, m)
    <3>1. R = V
      BY <1>5, <2>1, <2>2, <2>4 DEF ReachOf
    <3> QED
      BY <1>2, <1>3, <2>3, <2>4, <3>1
  <2>5. CASE ~(Id(k) < SeqLen(p, m))
    <3> DEFINE new == NewElements(p, k, V)
               grown == With(V, At(p, <<Id(k) + 1>>))
               added == [y \in UNION {FreshParts[c] : c \in new} |-> Default(y)]
    <3>1. R = With(grown, added)
      BY <1>5, <2>1, <2>2, <2>5 DEF ReachOf
    <3>2. DOMAIN grown = Live(m)
      BY <1>3 DEF With, At
    <3>3. k \in new /\ \A c \in new : c \in Kids(p)
      BY <2>1, <2>2, <2>5 DEF NewElements
    <3>4. AtDefault(m, k)
      BY <1>5, <2>3, <2>5, StepsAre DEF Clean
    <3>5. LiveIn(m, k) = FreshParts[k] /\ \A y \in LiveIn(m, k) : Meaning(y, m) = Default(y)
      BY <1>1, <3>4, DefaultView
    <3>6. x \in DOMAIN added <=> x \in FreshParts[k]
      <4>1. \A c \in new : FreshParts[c] \subseteq Below[c]
        BY <2>2, <3>3, LiveType
      <4>2. \A c \in new : x \in FreshParts[c] => c = k
        BY <1>1, <3>3, <4>1, SiblingsApart
      <4> QED
        BY <3>3, <4>2
    <3>7. \A y \in DOMAIN added : added[y] = Default(y)
      OBVIOUS
    <3> HIDE DEF grown, added, new, V
    <3>8. /\ DOMAIN With(grown, added) = DOMAIN grown \cup DOMAIN added
          /\ \A y \in DOMAIN added : With(grown, added)[y] = added[y]
      BY WithAt
    <3> QED
      BY <1>2, <2>3, <2>5, <3>1, <3>2, <3>5, <3>6, <3>7, <3>8
  <2> QED
    BY <2>4, <2>5
<1>6. CASE Kind(p) \notin {"union", "sized"}
  <2>1. R = V
    BY <1>6 DEF ReachOf
  <2>2. Chosen(m, p, k) /\ ~NotHeld(m, p, k)
    BY <1>6 DEF Chosen, NotHeld
  <2> QED
    BY <1>2, <1>3, <2>1, <2>2
<1> QED
  BY <1>4, <1>5, <1>6

\* A store to a field and one to its object make a single store.
LEMMA StoreTwice ==
    ASSUME NEW m, NEW p \in Nodes, NEW k \in Kids(p), NEW g, DOMAIN g \subseteq Below[k],
           NEW h, DOMAIN h \subseteq {p}
    PROVE  Store(Store(m, g), h) = Store(m, With(h, g))
<1> DEFINE r == Store(m, g)
           b == With(h, g)
<1>1. p \notin Below[k] /\ Below[k] \subseteq Below[p]
  BY BelowKid
<1>2. /\ DOMAIN b = DOMAIN h \cup DOMAIN g
      /\ \A x \in DOMAIN g : b[x] = g[x]
      /\ \A x \in DOMAIN h : x \notin DOMAIN g => b[x] = h[x]
  BY WithAt
<1>3. Lost(b) = Lost(h) \cup Lost(g)
  <2> HIDE DEF b
  <2> QED
    BY <1>2 DEF Lost
<1>4. ASSUME NEW x \in Below[p], x \in Overlay[p] PROVE FALSE
  <2>1. PICK u \in Nodes : \E o, q \in Kids(u) :
             Kind(u) = "union" /\ o # q /\ p \in Below[o] /\ x \in Below[q]
    BY <1>4 DEF Overlay
  <2>2. PICK o \in Kids(u), q \in Kids(u) : o # q /\ p \in Below[o] /\ x \in Below[q]
    BY <2>1
  <2>3. o \in Nodes
    BY KidsInNodes
  <2>4. x \in Below[o]
    BY <2>2, <2>3, BelowTrans
  <2> QED
    BY <2>2, <2>4, SiblingsApart
<1>5. \A x \in Below[k] : x \notin Lost(h)
  BY <1>1, <1>4 DEF Lost
<1> HIDE DEF b, r
<1>6. ASSUME NEW x \in Nodes PROVE Store(r, h)[x] = Store(m, b)[x]
  <2>1. CASE x \in DOMAIN h
    <3>1. x \notin DOMAIN g
      BY <1>1, <2>1
    <3> QED
      BY <1>2, <2>1, <3>1, StoreAt
  <2>2. CASE x \in DOMAIN g
    <3>1. x \notin DOMAIN h /\ x \notin Lost(h)
      BY <1>1, <1>5, <2>2
    <3>2. r[x] = g[x]
      BY <2>2, StoreAt DEF r
    <3> QED
      BY <1>2, <2>2, <3>1, <3>2, StoreAt
  <2>3. CASE x \notin DOMAIN h /\ x \notin DOMAIN g
    <3>1. r[x] = IF x \in Lost(g) THEN Junk ELSE m[x]
      BY <2>3, StoreAt DEF r
    <3> QED
      BY <1>2, <1>3, <2>3, <3>1, StoreAt
  <2> QED
    BY <2>1, <2>2, <2>3
<1>7. /\ Store(r, h) = [x \in Nodes |-> Store(r, h)[x]]
      /\ Store(m, b) = [x \in Nodes |-> Store(m, b)[x]]
  BY DEF Store
<1>8. Store(r, h) = Store(m, b)
  BY <1>6, <1>7
<1> QED
  BY <1>8 DEF r, b

-----------------------------------------------------------------------------
(* What a field does to the memory.                                        *)

LEMMA AtContents ==
    ASSUME NEW n, NEW v \in Seq(Nat), n \in Nodes /\ Numbered(n) => Len(v) = 1
    PROVE  Contents(At(n, v))
BY DEF Contents, At

LEMMA WithContents ==
    ASSUME NEW f, NEW g, Contents(f), Contents(g)
    PROVE  Contents(With(f, g))
BY DEF Contents, With

LEMMA InfoType ==
    ASSUME DecodeTypeOK
    PROVE  /\ Info \in Nodes /\ ~Leaf(Info)
           /\ level \in Nat \ {0} /\ level <= MaxLevels /\ MaxLevels \in Nat \ {0}
<1>1. level \in 1..MaxLevels /\ MaxLevels \in Nat \ {0}
  BY DecodeAssumption DEF DecodeTypeOK
<1>2. level \in 1..level
  BY <1>1
<1> QED
  BY <1>1, <1>2 DEF DecodeTypeOK, Info

LEMMA SlotType ==
    ASSUME DecodeTypeOK, NEW t, NEW k \in Slot(t)
    PROVE  k \in Kids(Info) /\ k \in Nodes
BY InfoType, NodeType DEF Slot

\* A count grows to an index and no further than there are slots.
LEMMA ObserveContents ==
    ASSUME DecodeTypeOK, NEW k \in Nodes
    PROVE  Contents(Observe(k))
<1>1. Info \in Nodes /\ Id(k) \in Nat /\ Len(Schema[Info].kids) \in Nat
  BY InfoType, NodeType
<1>2. CASE Kind(Info) = "sized"
  <2> DEFINE length == AtMost(Id(k) + 1, Len(Schema[Info].kids))
             c == IF length > obj[Info][1] THEN length ELSE obj[Info][1]
  <2>1. obj[Info] \in Seq(Nat) /\ Len(obj[Info]) = 1
    BY <1>1, <1>2, MemoryIsContents DEF DecodeTypeOK, Contents, Numbered
  <2>2. 1 \in 1..Len(obj[Info])
    BY <2>1
  <2>3. obj[Info][1] \in Nat
    BY <2>1, <2>2, ElementOfSeq
  <2>4. c \in Nat
    BY <1>1, <2>3 DEF AtMost
  <2>5. Observe(k) = At(Info, <<c>>)
    BY <1>2 DEF Observe
  <2> HIDE DEF c
  <2>6. <<c>> \in Seq(Nat) /\ Len(<<c>>) = 1
    BY <2>4
  <2> QED
    BY <2>5, <2>6, AtContents
<1>3. CASE Kind(Info) = "union"
  <2>1. Observe(k) = At(Info, <<Id(k)>>)
    BY <1>3 DEF Observe
  <2>2. <<Id(k)>> \in Seq(Nat) /\ Len(<<Id(k)>>) = 1
    BY <1>1
  <2> QED
    BY <2>1, <2>2, AtContents
<1>4. CASE Kind(Info) \notin {"sized", "union"}
  <2>1. Observe(k) = Nothing
    BY <1>4 DEF Observe
  <2> QED
    BY <2>1 DEF Nothing, Contents
<1> QED
  BY <1>2, <1>3, <1>4

LEMMA PayloadType ==
    ASSUME DecodeTypeOK, NEW k \in Nodes, NEW val \in Seq(Nat)
    PROVE  Payload(k, val) \in Seq(Nat)
<1>1. Cap(k) \in Nat /\ Len(val) \in Nat /\ 0 \in Nat
  BY NodeType
<1>2. obj[k] \in Seq(Nat)
  BY MemoryIsContents DEF DecodeTypeOK
<1>3. CASE Kind(k) = "arr"
  <2> DEFINE e(i) == IF i <= Len(val) THEN val[i] ELSE 0
  <2>1. \A i \in 1..Cap(k) : e(i) \in Nat
    BY <1>1, ElementOfSeq
  <2>2. [i \in 1..Cap(k) |-> e(i)] \in Seq(Nat)
    <3> HIDE DEF e
    <3>1. [i \in 1..Cap(k) |-> e(i)] \in [1..Cap(k) -> Nat]
      BY <2>1
    <3> QED
      BY <1>1, <3>1, SeqDef
  <2>3. Payload(k, val) = [i \in 1..Cap(k) |-> e(i)]
    BY <1>3 DEF Payload
  <2> QED
    BY <2>2, <2>3
<1>4. CASE Kind(k) = "blob"
  <2>1. Payload(k, val) = val \o SubSeq(obj[k], Len(val) + 1, Len(obj[k]))
    BY <1>4 DEF Payload
  <2>2. SubSeq(obj[k], Len(val) + 1, Len(obj[k])) \in Seq(Nat)
    BY <1>1, <1>2
  <2> QED
    BY <2>1, <2>2, ConcatProperties
<1>5. CASE Kind(k) \notin {"arr", "blob"}
  BY <1>5 DEF Payload
<1> QED
  BY <1>3, <1>4, <1>5

\* A field whose header says leaf is one.
LEMMA WireTypeIs ==
    ASSUME NEW k \in Nodes
    PROVE  /\ WireType(k) \in LeafTypes => Leaf(k) /\ ~Numbered(k)
           /\ WireType(k) = "start" => ~Leaf(k)
<1>1. Kind(k) \in LeafKinds \cup Containers
  BY NodeType
<1>2. CASE Leaf(k)
  <2>1. Kind(k) \in {"num", "str", "arr", "sarr", "blob", "odd"}
    BY <1>2 DEF Leaf, LeafKinds
  <2> QED
    BY <1>2, <2>1 DEF WireType, Numbered
<1>3. CASE ~Leaf(k)
  <2>1. Kind(k) \in Containers /\ Kind(k) \notin LeafKinds
    BY <1>1, <1>3 DEF Leaf
  <2>2. WireType(k) = "start"
    BY <2>1 DEF WireType, Containers
  <2> QED
    BY <1>3, <2>2 DEF LeafTypes
<1> QED
  BY <1>2, <1>3

-----------------------------------------------------------------------------
(* One token.                                                              *)

LEMMA TokenType ==
    ASSUME NEW t \in Token
    PROVE  /\ t.tok \in {"leaf", "start", "end"}
           /\ t.tok = "leaf" => t.type \in LeafTypes
           /\ t.tok = "start" => t.type = "start"
           /\ t.val \in Seq(Nat)
<1>1. CASE t \in [tok : {"leaf"}, id : Nat, type : LeafTypes, val : Seq(Nat)]
  BY <1>1
<1>2. CASE \/ t \in [tok : {"start"}, id : Nat, type : {"start"}, val : {<<>>}]
           \/ t \in [tok : {"end"}, id : {0}, type : {"end"}, val : {<<>>}]
  <2>1. t.val = <<>>
    BY <1>2
  <2>2. t.val \in Seq(Nat)
    BY <2>1, EmptySeq
  <2> QED
    BY <1>2, <2>2
<1> QED
  BY <1>1, <1>2 DEF Token

LEMMA InvalidateType ==
    ASSUME DecodeTypeOK, Invalidate, obj' \in Memory
    PROVE  DecodeTypeOK'
BY DEF DecodeTypeOK, Invalidate

LEMMA MaskedType ==
    ASSUME DecodeTypeOK, NEW t, Masked(t), ~TooDeep(t)
    PROVE  DecodeTypeOK'
<1>1. skip \in Nat /\ skip > 0 /\ level \in Nat \ {0} /\ MaxDepth \in Nat
      /\ level - 1 + skip <= MaxDepth
  BY InfoType, DecodeAssumption DEF DecodeTypeOK, Masked
<1>2. skip' \in Nat /\ level - 1 + skip' <= MaxDepth
  <2>1. CASE t.tok = "start"
    <3>1. level - 1 + skip # MaxDepth /\ skip' = skip + 1
      BY <2>1 DEF TooDeep, Masked
    <3> QED
      BY <1>1, <3>1
  <2>2. CASE t.tok = "end"
    <3>1. skip' = skip - 1
      BY <2>2 DEF Masked
    <3> QED
      BY <1>1, <3>1
  <2>3. CASE t.tok \notin {"start", "end"}
    <3>1. skip' = skip
      BY <2>3 DEF Masked
    <3> QED
      BY <1>1, <3>1
  <2> QED
    BY <2>1, <2>2, <2>3
<1> QED
  BY <1>2 DEF DecodeTypeOK, Masked

\* One level that is skipped is opened, if it is not too deep.
LEMMA SkipOneType ==
    ASSUME DecodeTypeOK, skip = 0, NEW t, ~TooDeep(t), t.tok = "start" \/ skip' = 0,
           skip' \in {0, 1}, UNCHANGED <<obj, handles, level, invalid>>
    PROVE  DecodeTypeOK'
<1>1. level \in Nat \ {0} /\ MaxDepth \in Nat /\ level - 1 <= MaxDepth
  BY InfoType, DecodeAssumption DEF DecodeTypeOK
<1>2. t.tok = "start" => level - 1 # MaxDepth
  BY <1>1 DEF TooDeep
<1>3. CASE skip' = 0
  BY <1>1, <1>3 DEF DecodeTypeOK
<1>4. CASE skip' = 1
  <2>1. level - 1 # MaxDepth
    BY <1>2, <1>4
  <2>2. skip' \in Nat /\ level - 1 + skip' <= MaxDepth
    BY <1>1, <1>4, <2>1
  <2> QED
    BY <2>2 DEF DecodeTypeOK
<1> QED
  BY <1>3, <1>4

LEMMA BindLeafType ==
    ASSUME DecodeTypeOK, NEW t \in Token, BindLeaf(t)
    PROVE  DecodeTypeOK'
<1>1. PICK k \in Slot(t) :
         /\ WireType(k) = t.type
         /\ IF TooLarge(k, t.val)
            THEN obj' = Store(obj, Observe(k)) /\ Invalidate
            ELSE /\ obj' = Store(obj, With(Observe(k), At(k, Payload(k, t.val))))
                 /\ UNCHANGED <<handles, level, skip, invalid>>
  BY DEF BindLeaf
<1>2. k \in Nodes /\ ~Numbered(k) /\ t.val \in Seq(Nat) /\ obj \in Memory
  <2>1. t.tok = "leaf"
    BY DEF BindLeaf
  <2> QED
    BY <1>1, <2>1, SlotType, TokenType, WireTypeIs DEF DecodeTypeOK
<1>3. CASE TooLarge(k, t.val)
  BY <1>1, <1>2, <1>3, ObserveContents, StoreType, InvalidateType
<1>4. CASE ~TooLarge(k, t.val)
  <2>1. Contents(With(Observe(k), At(k, Payload(k, t.val))))
    BY <1>2, ObserveContents, PayloadType, AtContents, WithContents
  <2>2. obj' \in Memory /\ UNCHANGED <<handles, level, skip, invalid>>
    BY <1>1, <1>2, <1>4, <2>1, StoreType
  <2> QED
    BY <2>2 DEF DecodeTypeOK
<1> QED
  BY <1>3, <1>4

LEMMA OpenSequenceType ==
    ASSUME DecodeTypeOK, NEW t, OpenSequence(t), ~TooDeep(t)
    PROVE  DecodeTypeOK'
<1>1. PICK k \in Slot(t) :
         /\ WireType(k) = "start"
         /\ obj' = Store(IF Wrapper(k) \/ NotHeld(obj, Info, k) THEN Seed(obj, k) ELSE obj,
                         Observe(k))
         /\ handles' = [handles EXCEPT ![level + 1] = k]
         /\ level' = level + 1
  BY DEF OpenSequence
<1>2. /\ skip = 0 /\ t.tok = "start" /\ level < MaxLevels /\ skip' = skip /\ invalid' = invalid
      /\ level \in Nat \ {0} /\ MaxLevels \in Nat /\ MaxDepth \in Nat
      /\ level - 1 <= MaxDepth
  BY InfoType, DecodeAssumption DEF OpenSequence, DecodeTypeOK
<1>3. k \in Kids(Info) /\ k \in Nodes /\ ~Leaf(k)
  BY <1>1, SlotType, WireTypeIs
<1>4. obj' \in Memory
  <2>1. obj \in Memory /\ Seed(obj, k) \in Memory
    BY SeedType DEF DecodeTypeOK
  <2> QED
    BY <1>1, <1>3, <2>1, ObserveContents, StoreType
<1>5. level - 1 # MaxDepth
  BY <1>2 DEF TooDeep
<1>6. level' \in 1..MaxLevels /\ level' - 1 + skip' <= MaxDepth /\ level + 1 \in 1..MaxLevels
  BY <1>1, <1>2, <1>5
<1>7. /\ handles' \in [1..MaxLevels -> Nodes]
      /\ handles'[level + 1] = k
      /\ \A l \in 1..level : handles'[l] = handles[l]
  BY <1>1, <1>2, <1>3, <1>6 DEF DecodeTypeOK
<1>8. handles'[1] = Root
  BY <1>2, <1>7 DEF DecodeTypeOK
<1>9. ASSUME NEW l \in 1..level' PROVE ~Leaf(handles'[l])
  <2>1. l \in 1..level \/ l = level + 1
    BY <1>1, <1>2
  <2> QED
    BY <1>3, <1>7, <2>1 DEF DecodeTypeOK
<1>10. ASSUME NEW l \in 2..level' PROVE handles'[l] \in Kids(handles'[l - 1])
  <2>1. CASE l \in 2..level
    <3>1. l \in 1..level /\ l - 1 \in 1..level
      BY <1>2, <2>1
    <3> QED
      BY <1>7, <2>1, <3>1 DEF DecodeTypeOK
  <2>2. CASE l = level + 1
    <3>1. l - 1 = level /\ level \in 1..level
      BY <1>2, <2>2
    <3> QED
      BY <1>3, <1>7, <2>2, <3>1 DEF Info
  <2>3. l \in 2..level \/ l = level + 1
    BY <1>1, <1>2
  <2> QED
    BY <2>1, <2>2, <2>3
<1> QED
  BY <1>2, <1>4, <1>6, <1>7, <1>8, <1>9, <1>10 DEF DecodeTypeOK

LEMMA CloseSequenceType ==
    ASSUME DecodeTypeOK, NEW t, CloseSequence(t)
    PROVE  DecodeTypeOK'
<1>1. CASE level > 1
  <2>1. level' = level - 1 /\ UNCHANGED <<obj, handles, skip, invalid>>
    BY <1>1 DEF CloseSequence
  <2>2. level \in Nat /\ level <= MaxLevels /\ MaxLevels \in Nat /\ MaxDepth \in Nat
        /\ skip \in Nat /\ level - 1 + skip <= MaxDepth
    BY InfoType, DecodeAssumption DEF DecodeTypeOK
  <2>3. level' \in 1..MaxLevels /\ level' - 1 + skip <= MaxDepth
        /\ 1..level' \subseteq 1..level /\ 2..level' \subseteq 2..level
    BY <1>1, <2>1, <2>2
  <2> QED
    BY <2>1, <2>3 DEF DecodeTypeOK
<1>2. CASE ~(level > 1)
  <2>1. Invalidate /\ obj' \in Memory
    BY <1>2 DEF CloseSequence, DecodeTypeOK
  <2> QED
    BY <2>1, InvalidateType
<1> QED
  BY <1>1, <1>2

LEMMA ReceiveType ==
    ASSUME DecodeTypeOK, NEW t \in Token, Receive(t)
    PROVE  DecodeTypeOK'
<1>1. CASE RejectDepth(t)
  BY <1>1, InvalidateType DEF RejectDepth, DecodeTypeOK
<1>2. CASE ~TooDeep(t) /\ Masked(t)
  BY <1>2, MaskedType
<1>3. CASE RejectIndex(t)
  BY <1>3, InvalidateType DEF RejectIndex, DecodeTypeOK
<1>4. CASE ~TooDeep(t) /\ (Unbound(t) \/ OutOfHandles(t))
  <2>1. /\ skip = 0 /\ skip' \in {0, 1} /\ (t.tok = "start" \/ skip' = 0)
        /\ UNCHANGED <<obj, handles, level, invalid>>
    BY <1>4 DEF Unbound, OutOfHandles
  <2> QED
    BY <1>4, <2>1, SkipOneType
<1>5. CASE BindLeaf(t)
  BY <1>5, BindLeafType
<1>6. CASE ~TooDeep(t) /\ OpenSequence(t)
  BY <1>6, OpenSequenceType
<1>7. CASE CloseSequence(t)
  BY <1>7, CloseSequenceType
<1> QED
  BY <1>1, <1>2, <1>3, <1>4, <1>5, <1>6, <1>7 DEF Receive

LEMMA DecodeInitType == DecodeInit => DecodeTypeOK
<1> SUFFICES ASSUME DecodeInit PROVE DecodeTypeOK
  OBVIOUS
<1>1. MaxLevels \in Nat \ {0} /\ MaxDepth \in Nat /\ Root \in Nodes /\ ~Leaf(Root)
  BY DecodeAssumption, SchemaAssumption
<1>2. 1 \in 1..MaxLevels /\ 1 - 1 + 0 <= MaxDepth /\ 0 \in Nat /\ 2..1 = {} /\ 1..1 = {1}
  BY <1>1
<1>3. obj \in Memory
  BY InitObjectType DEF DecodeInit
<1>4. /\ level = 1 /\ skip = 0 /\ invalid = FALSE
      /\ handles = [l \in 1..MaxLevels |-> Root]
  BY DEF DecodeInit
<1>5. handles \in [1..MaxLevels -> Nodes] /\ handles[1] = Root
  BY <1>1, <1>2, <1>4
<1> QED
  BY <1>1, <1>2, <1>3, <1>4, <1>5 DEF DecodeTypeOK

\* The decoder uses the caller's handles and no more, each for an object
\* nested in the one before; whatever is stored in the object is contents of
\* the member it is stored to.
THEOREM HandlesHold == DecodeSpec => []DecodeTypeOK
<1>1. DecodeTypeOK /\ [DecodeNext]_decodeVars => DecodeTypeOK'
  <2> SUFFICES ASSUME DecodeTypeOK, [DecodeNext]_decodeVars PROVE DecodeTypeOK'
    OBVIOUS
  <2>1. CASE DecodeNext
    BY <2>1, ReceiveType, DecodeAssumption DEF DecodeNext
  <2>2. CASE UNCHANGED decodeVars
    BY <2>2 DEF decodeVars, DecodeTypeOK
  <2> QED
    BY <2>1, <2>2
<1> QED
  BY <1>1, DecodeInitType, PTL DEF DecodeSpec

-----------------------------------------------------------------------------
(* Decoding implements ObjectValue: the fields.                            *)

LEMMA InductiveParts ==
    ASSUME DecodeInductive, ~invalid
    PROVE  Info \in Live(obj) /\ Clean(obj, Root) /\ obj \in Memory
BY StepsAre DEF DecodeInductive, DecodeTypeOK, Clean, AtDefault

LEMMA ObserveEffect ==
    ASSUME DecodeTypeOK, NEW k \in Kids(Info), NEW g, DOMAIN g \subseteq Below[k],
           NEW r, r = Store(obj, With(Observe(k), g))
    PROVE  /\ DOMAIN Observe(k) \subseteq {Info}
           /\ DOMAIN With(Observe(k), g) \subseteq {Info} \cup Below[k]
           /\ Observed(obj, r, Info, k)
<1>1. Info \in Nodes /\ Info \notin Below[k] /\ obj \in Memory
  BY InfoType, BelowKid DEF DecodeTypeOK
<1>2. DOMAIN Observe(k) \subseteq {Info}
  BY DEF Observe, At, Nothing
<1>3. DOMAIN With(Observe(k), g) = DOMAIN Observe(k) \cup DOMAIN g
  BY WithAt
<1>4. Info \in DOMAIN Observe(k) => r[Info] = Observe(k)[Info]
  <2>1. Info \in DOMAIN Observe(k) => With(Observe(k), g)[Info] = Observe(k)[Info]
    BY <1>1, WithAt
  <2> QED
    BY <1>1, <1>3, <2>1, StoreAt
<1>5. CASE Kind(Info) = "union"
  <2>1. Observe(k) = At(Info, <<Id(k)>>)
    BY <1>5 DEF Observe
  <2>2. r[Info] = <<Id(k)>>
    BY <1>4, <2>1, AtAt
  <2> QED
    BY <1>2, <1>3, <1>5, <2>2 DEF Observed
<1>6. CASE Kind(Info) = "sized"
  <2> DEFINE n == Len(Schema[Info].kids)
             length == AtMost(Id(k) + 1, n)
             o == obj[Info][1]
             c == IF length > o THEN length ELSE o
  <2>1. Observe(k) = At(Info, <<c>>)
    BY <1>6 DEF Observe
  <2>2. n \in Nat /\ o \in Nat /\ SeqLen(Info, obj) = AtMost(o, n)
    BY <1>1, <1>6, SeqLenType
  <2>3. Id(k) \in Nat /\ Id(k) < n
    BY <1>1, <1>6, SlotIndex DEF Wrapper
  <2> HIDE DEF n, o
  <2>4. length = Id(k) + 1
    BY <2>2, <2>3 DEF AtMost
  <2>5. r[Info][1] = c
    <3> HIDE DEF c
    <3>1. r[Info] = <<c>>
      BY <1>4, <2>1, AtAt
    <3> QED
      BY <3>1
  <2>6. SeqLen(Info, r) = AtMost(c, n)
    BY <1>6, <2>5 DEF SeqLen, n
  <2>7. AtMost(c, n) = IF Id(k) < AtMost(o, n) THEN AtMost(o, n) ELSE Id(k) + 1
    <3> HIDE DEF length
    <3> QED
      BY <2>2, <2>3, <2>4 DEF AtMost
  <2> QED
    BY <1>2, <1>3, <1>6, <2>2, <2>6, <2>7 DEF Observed
<1> QED
  BY <1>2, <1>3, <1>5, <1>6 DEF Observed

\* What the decoder leaves in a leaf reads as what the message says.
LEMMA FilledMeaning ==
    ASSUME DecodeTypeOK, NEW k \in Nodes, NEW v \in Seq(Nat), NEW r,
           WireType(k) \in LeafTypes, ~TooLarge(k, v), r[k] = Payload(k, v)
    PROVE  /\ Kind(k) = "arr" =>
                Meaning(k, r) = [i \in 1..Cap(k) |-> IF i <= Len(v) THEN v[i] ELSE 0]
           /\ Kind(k) = "blob" =>
                Meaning(k, r) = v \o SubSeq(obj[k], Len(v) + 1, Len(obj[k]))
           /\ Kind(k) \notin {"arr", "blob"} => Meaning(k, r) = v
<1>1. Kind(k) \in {"num", "str", "arr", "sarr", "blob", "odd"}
  BY WireTypeIs DEF Leaf, LeafKinds
<1>2. Meaning(k, r) = Used(k, r)
  BY <1>1 DEF Meaning
<1>3. CASE Kind(k) = "sarr"
  <2>1. r[k] = v /\ Len(v) \in Nat /\ Cap(k) \in Nat
    BY <1>3, NodeType DEF Payload
  <2>2. Len(v) <= Cap(k)
    BY <1>3, <2>1 DEF TooLarge
  <2>3. AtMost(Len(v), Cap(k)) = Len(v)
    BY <2>1, <2>2 DEF AtMost
  <2>4. SubSeq(v, 1, Len(v)) = v
    OBVIOUS
  <2> QED
    BY <1>2, <1>3, <2>1, <2>3, <2>4 DEF Used
<1>4. CASE Kind(k) # "sarr"
  BY <1>2, <1>4 DEF Used, Payload
<1> QED
  BY <1>3, <1>4

LEMMA LeafAlone ==
    ASSUME NEW k \in Nodes, Leaf(k), NEW m
    PROVE  /\ Below[k] = {k} /\ LiveIn(m, k) = {k} /\ FreshParts[k] = {k}
           /\ Clean(m, k)
<1>1. Kids(k) = {}
  BY NodeType
<1>2. Below[k] = {k}
  BY <1>1, BelowSplit, BelowType
<1>3. LiveIn(m, k) = {k} /\ FreshParts[k] = {k}
  BY <1>2, LiveType
<1> QED
  BY <1>1, <1>2, <1>3 DEF Clean

\* A field of the message is a field of the value.
LEMMA BindLeafView ==
    ASSUME DecodeInductive, ~invalid, NEW k \in Kids(Info), NEW v \in Seq(Nat),
           WireType(k) \in LeafTypes, ~TooLarge(k, v),
           NEW r, r = Store(obj, With(Observe(k), At(k, Payload(k, v)))),
           NEW R, R = ReachOf(Info, k, View(obj))
    PROVE  /\ Info \in Live(r) /\ Clean(r, Root)
           /\ k \in DOMAIN R
           /\ Kind(k) = "blob" => R[k] = obj[k]
           /\ View(r) = [x \in DOMAIN R |-> IF x = k THEN Meaning(k, r) ELSE R[x]]
           /\ r[k] = Payload(k, v)
<1> DEFINE g == At(k, Payload(k, v))
<1>1. /\ Info \in Live(obj) /\ Clean(obj, Root) /\ obj \in Memory /\ DecodeTypeOK
      /\ Info \in Nodes
  BY InductiveParts, InfoType DEF DecodeInductive
<1>2. k \in Nodes /\ Leaf(k)
  BY <1>1, KidsInNodes, WireTypeIs
<1>3. \A m : Below[k] = {k} /\ LiveIn(m, k) = {k} /\ FreshParts[k] = {k} /\ Clean(m, k)
  BY <1>2, LeafAlone
<1>4. DOMAIN g = {k} /\ g[k] = Payload(k, v)
  BY AtAt
<1> HIDE DEF g
<1>5. r = Store(obj, With(Observe(k), g))
  BY DEF g
<1>6. /\ DOMAIN With(Observe(k), g) \subseteq {Info} \cup Below[k]
      /\ Observed(obj, r, Info, k)
  BY <1>1, <1>3, <1>4, <1>5, ObserveEffect
<1>7. /\ k \in Live(r) /\ Clean(r, Root)
      /\ \A x \in Nodes : x \notin Below[k] => Agrees(R, r, x)
  BY <1>1, <1>3, <1>5, <1>6, FieldStored
<1>8. Info \in Live(r)
  BY <1>1, <1>5, <1>6, StoreOutside
<1>9. r[k] = Payload(k, v)
  <2>1. /\ DOMAIN With(Observe(k), g) = DOMAIN Observe(k) \cup DOMAIN g
        /\ \A x \in DOMAIN g : With(Observe(k), g)[x] = g[x]
    BY WithAt
  <2> QED
    BY <1>2, <1>4, <1>5, <2>1, StoreAt
<1>10. k \in DOMAIN R /\ (~NotHeld(obj, Info, k) => R[k] = Meaning(k, obj))
  BY <1>1, <1>3, ReachUnder
<1>11. ASSUME Kind(k) = "blob" PROVE R[k] = obj[k]
  <2>1. Kind(Info) # "union"
    BY <1>1, <1>11, SchemaAssumption
  <2>2. Meaning(k, obj) = obj[k]
    BY <1>11 DEF Meaning, Used
  <2> QED
    BY <1>10, <2>1, <2>2 DEF NotHeld
<1>12. View(r) = [x \in DOMAIN R |-> IF x = k THEN Meaning(k, r) ELSE R[x]]
  <2> DEFINE w == [x \in DOMAIN R |-> IF x = k THEN Meaning(k, r) ELSE R[x]]
  <2>1. DOMAIN R \subseteq Nodes
    BY <1>1, ReachDomain
  <2>2. /\ DOMAIN w = (DOMAIN R \ Below[k]) \cup LiveIn(r, k)
        /\ \A x \in LiveIn(r, k) : w[x] = Meaning(x, r)
        /\ \A x \in DOMAIN R \ Below[k] : w[x] = R[x]
    BY <1>3, <1>10
  <2>3. w = [x \in DOMAIN R |-> w[x]]
    OBVIOUS
  <2> HIDE DEF w
  <2>4. View(r) = w
    BY <1>7, <2>1, <2>2, <2>3, FieldView
  <2> QED
    BY <2>4 DEF w
<1> QED
  BY <1>7, <1>8, <1>9, <1>10, <1>11, <1>12

\* The memory when a nested object is opened, before its parent takes note.
OpenedMemory(k) == IF Wrapper(k) \/ NotHeld(obj, Info, k) THEN Seed(obj, k) ELSE obj

OpenedValue(k, R) ==
    IF Wrapper(k) THEN With(Without(R, Below[k]), FreshOf(k)) ELSE R

\* A nested object that is opened is the nested object of the value: a wrapper
\* from scratch, an option from its default unless it is held.
LEMMA OpenView ==
    ASSUME DecodeInductive, ~invalid, NEW k \in Kids(Info), ~Leaf(k),
           NEW r, r = Store(OpenedMemory(k), Observe(k)),
           NEW R, R = ReachOf(Info, k, View(obj))
    PROVE  /\ k \in Live(r) /\ Clean(r, Root)
           /\ View(r) = OpenedValue(k, R)
<1> DEFINE fresh == Wrapper(k) \/ NotHeld(obj, Info, k)
           g == IF fresh THEN [x \in Seeded[k] |-> Default(x)] ELSE Nothing
<1>1. /\ Info \in Live(obj) /\ Clean(obj, Root) /\ obj \in Memory /\ DecodeTypeOK
      /\ Info \in Nodes
  BY InductiveParts, InfoType DEF DecodeInductive
<1>2. k \in Nodes /\ Seeded[k] \subseteq Below[k] /\ Below[k] \subseteq Nodes
  BY <1>1, KidsInNodes, LiveType
<1>3. DOMAIN g \subseteq Below[k]
  BY <1>2 DEF Nothing
<1>4. DOMAIN Observe(k) \subseteq {Info}
  BY DEF Observe, At, Nothing
<1>5. r = Store(obj, With(Observe(k), g))
  <2>1. CASE fresh
    <3>1. OpenedMemory(k) = Store(obj, g)
      BY <2>1 DEF OpenedMemory, Seed
    <3> HIDE DEF g
    <3> QED
      BY <1>1, <1>3, <1>4, <3>1, StoreTwice
  <2>2. CASE ~fresh
    <3>1. OpenedMemory(k) = obj /\ g = Nothing
      BY <2>2 DEF OpenedMemory
    <3>2. With(Observe(k), Nothing) = Observe(k)
      <4>1. Observe(k) = [x \in DOMAIN Observe(k) |-> Observe(k)[x]]
        BY DEF Observe, At, Nothing
      <4>2. With(Observe(k), Nothing) = [x \in DOMAIN Observe(k) |-> Observe(k)[x]]
        BY DEF With, Nothing
      <4> QED
        BY <4>1, <4>2
    <3> QED
      BY <3>1, <3>2
  <2> QED
    BY <2>1, <2>2
<1>6. /\ DOMAIN With(Observe(k), g) \subseteq {Info} \cup Below[k]
      /\ Observed(obj, r, Info, k)
  <2> HIDE DEF g
  <2> QED
    BY <1>1, <1>3, <1>5, ObserveEffect
<1>7. fresh => AtDefault(r, k)
  <2> SUFFICES ASSUME fresh, NEW x \in Seeded[k] PROVE r[x] = Default(x)
    BY DEF AtDefault
  <2>1. DOMAIN g = Seeded[k] /\ g[x] = Default(x)
    OBVIOUS
  <2> HIDE DEF g
  <2>2. /\ DOMAIN With(Observe(k), g) = DOMAIN Observe(k) \cup DOMAIN g
        /\ \A y \in DOMAIN g : With(Observe(k), g)[y] = g[y]
    BY WithAt
  <2> QED
    BY <1>2, <1>5, <2>1, <2>2, StoreAt
<1>8. ~fresh => /\ LiveIn(r, k) = LiveIn(obj, k)
                /\ \A x \in LiveIn(obj, k) : Meaning(x, r) = Meaning(x, obj)
                /\ Clean(r, k)
  <2> SUFFICES ASSUME ~fresh
               PROVE  /\ LiveIn(r, k) = LiveIn(obj, k)
                      /\ \A x \in LiveIn(obj, k) : Meaning(x, r) = Meaning(x, obj)
                      /\ Clean(r, k)
    OBVIOUS
  <2>1. r = Store(obj, Observe(k))
    BY DEF OpenedMemory
  <2>2. ~NotHeld(obj, Info, k)
    OBVIOUS
  <2> HIDE DEF fresh, g
  <2> QED
    BY <1>1, <1>4, <2>1, <2>2, StoreApart
<1>9. fresh => /\ LiveIn(r, k) = FreshParts[k]
               /\ \A x \in FreshParts[k] : Meaning(x, r) = Default(x)
               /\ Clean(r, k)
  BY <1>2, <1>7, DefaultView
<1>10. Clean(r, k)
  BY <1>8, <1>9
<1> HIDE DEF g
<1>11. /\ k \in Live(r) /\ Clean(r, Root)
       /\ \A x \in Nodes : x \notin Below[k] => Agrees(R, r, x)
  BY <1>1, <1>5, <1>6, <1>10, FieldStored
<1>12. DOMAIN R \subseteq Nodes
  BY <1>1, ReachDomain
<1> DEFINE w == OpenedValue(k, R)
<1>13. /\ DOMAIN w = (DOMAIN R \ Below[k]) \cup LiveIn(r, k)
       /\ \A x \in LiveIn(r, k) : w[x] = Meaning(x, r)
       /\ \A x \in DOMAIN R \ Below[k] : w[x] = R[x]
       /\ w = [x \in DOMAIN w |-> w[x]]
  <2>1. CASE Wrapper(k)
    <3>1. w = With(Without(R, Below[k]), FreshOf(k))
      BY <2>1 DEF OpenedValue
    <3>2. /\ DOMAIN FreshOf(k) = FreshParts[k]
          /\ \A x \in FreshParts[k] : FreshOf(k)[x] = Default(x)
          /\ DOMAIN Without(R, Below[k]) = DOMAIN R \ Below[k]
          /\ \A x \in DOMAIN R \ Below[k] : Without(R, Below[k])[x] = R[x]
      BY DEF FreshOf, Without
    <3>3. FreshParts[k] \subseteq Below[k]
      BY <1>2, LiveType
    <3>5. w = [x \in DOMAIN w |-> w[x]]
      BY <3>1 DEF With
    <3> HIDE DEF w
    <3>4. /\ DOMAIN w = DOMAIN Without(R, Below[k]) \cup DOMAIN FreshOf(k)
          /\ \A x \in DOMAIN FreshOf(k) : w[x] = FreshOf(k)[x]
          /\ \A x \in DOMAIN Without(R, Below[k]) :
                x \notin DOMAIN FreshOf(k) => w[x] = Without(R, Below[k])[x]
      <4> DEFINE g1 == Without(R, Below[k])
                 g2 == FreshOf(k)
      <4>1. w = With(g1, g2)
        BY <3>1
      <4> HIDE DEF g1, g2
      <4>2. /\ DOMAIN With(g1, g2) = DOMAIN g1 \cup DOMAIN g2
            /\ \A x \in DOMAIN g2 : With(g1, g2)[x] = g2[x]
            /\ \A x \in DOMAIN g1 : x \notin DOMAIN g2 => With(g1, g2)[x] = g1[x]
        BY WithAt
      <4> QED
        BY <4>1, <4>2 DEF g1, g2
    <3>6. LiveIn(r, k) = FreshParts[k] /\ \A x \in FreshParts[k] : Meaning(x, r) = Default(x)
      BY <1>9, <2>1
    <3> QED
      BY <3>2, <3>3, <3>4, <3>5, <3>6
  <2>2. CASE ~Wrapper(k)
    <3>1. w = R
      BY <2>2 DEF OpenedValue
    <3>2. \A x \in Below[k] : /\ x \in DOMAIN R <=> x \in LiveIn(r, k)
                              /\ x \in LiveIn(r, k) => R[x] = Meaning(x, r)
      <4>1. CASE NotHeld(obj, Info, k)
        <5>1. LiveIn(r, k) = FreshParts[k] /\ \A x \in FreshParts[k] : Meaning(x, r) = Default(x)
          BY <1>9, <4>1
        <5>2. \A x \in Below[k] : /\ x \in DOMAIN R <=> x \in FreshParts[k]
                                  /\ x \in FreshParts[k] => R[x] = Default(x)
          BY <1>1, <4>1, ReachUnder
        <5> QED
          BY <5>1, <5>2
      <4>2. CASE ~NotHeld(obj, Info, k)
        <5>1. /\ LiveIn(r, k) = LiveIn(obj, k)
              /\ \A x \in LiveIn(obj, k) : Meaning(x, r) = Meaning(x, obj)
          BY <1>8, <2>2, <4>2
        <5>2. \A x \in Below[k] : /\ x \in DOMAIN R <=> x \in LiveIn(obj, k)
                                  /\ x \in LiveIn(obj, k) => R[x] = Meaning(x, obj)
          BY <1>1, <4>2, ReachUnder
        <5> QED
          BY <5>1, <5>2
      <4> QED
        BY <4>1, <4>2
    <3>3. LiveIn(r, k) \subseteq Below[k]
      BY <1>2, LiveType
    <3>4. R = [x \in DOMAIN R |-> R[x]]
      BY DEF ReachOf, With, View
    <3> HIDE DEF w
    <3> QED
      BY <3>1, <3>2, <3>3, <3>4
  <2> QED
    BY <2>1, <2>2
<1> HIDE DEF w
<1>14. View(r) = w
  BY <1>11, <1>12, <1>13, FieldView
<1> QED
  BY <1>11, <1>14 DEF w

-----------------------------------------------------------------------------
(* Decoding implements ObjectValue: the steps.                             *)

LEMMA ValueSchema ==
    /\ \A n : /\ Value!Kids(n) = Kids(n) /\ Value!Id(n) = Id(n) /\ Value!Kind(n) = Kind(n)
              /\ Value!Cap(n) = Cap(n) /\ Value!Default(n) = Default(n)
              /\ Value!WireType(n) = WireType(n)
              /\ (Value!Wrapper(n) <=> Wrapper(n))
    /\ Value!Nodes = Nodes
    /\ Value!Below = Below
    /\ Value!Parts = FreshParts
    /\ Value!None = "none"
<1>1. \A n : /\ Value!Kids(n) = Kids(n) /\ Value!Id(n) = Id(n) /\ Value!Kind(n) = Kind(n)
             /\ Value!Cap(n) = Cap(n) /\ Value!Default(n) = Default(n)
  BY DEF Value!Kids, Kids, Value!ToSet, ToSet, Value!Id, Id, Value!Kind, Kind, Value!Cap, Cap, Value!Default, Default
<1>2. \A n : Value!WireType(n) = WireType(n)
  BY DEF Value!WireType, WireType, Value!Kind, Kind
<1>3. \A n : Value!Wrapper(n) <=> Wrapper(n)
  BY DEF Value!Wrapper, Wrapper, Value!Kind, Kind
<1>4. Value!Nodes = Nodes
  BY DEF Value!Nodes, Nodes
<1>5. Value!Below = Below
  BY DEF Value!Below, Below, Value!Down, Down, Value!Nodes, Nodes, Value!Kids, Kids, Value!ToSet, ToSet
<1>6. Value!Parts = FreshParts
  BY DEF Value!Parts, FreshParts, FreshKids, Value!Down, Down, Value!Nodes, Nodes,
         Value!Kids, Kids, Value!ToSet, ToSet, Value!Kind, Kind, Value!Id, Id, Value!Default, Default
<1> QED
  BY <1>1, <1>2, <1>3, <1>4, <1>5, <1>6 DEF Value!None

LEMMA OpenLevelsIs ==
    ASSUME DecodeTypeOK
    PROVE  /\ Len(OpenLevels) = level + skip
           /\ OpenLevels[level + skip] = IF skip = 0 THEN Info ELSE "none"
           /\ level + skip \in Nat \ {0} /\ level \in Nat \ {0} /\ skip \in Nat
           /\ MaxDepth \in Nat /\ level - 1 + skip <= MaxDepth
           /\ Info \in Nodes /\ "none" \notin Nodes
<1>1. level \in Nat \ {0} /\ skip \in Nat /\ MaxDepth \in Nat /\ level - 1 + skip <= MaxDepth
  BY InfoType, DecodeAssumption DEF DecodeTypeOK
<1>2. level + skip \in 1..level + skip /\ level + skip \in Nat
  BY <1>1
<1>3. Len(OpenLevels) = level + skip
  BY <1>2 DEF OpenLevels
<1>4. OpenLevels[level + skip] =
        IF level + skip <= level THEN handles[level + skip] ELSE "none"
  BY <1>2 DEF OpenLevels
<1>5. skip = 0 => level + skip = level /\ level + skip <= level
  BY <1>1
<1>6. skip # 0 => ~(level + skip <= level)
  BY <1>1
<1> QED
  BY <1>1, <1>2, <1>3, <1>4, <1>5, <1>6, InfoType, DecodeAssumption DEF Info

LEMMA HereIs ==
    ASSUME DecodeTypeOK
    PROVE  Value!Here = IF skip = 0 THEN Info ELSE "none"
BY OpenLevelsIs DEF Value!Here

\* While something is skipped the value takes no notice.
LEMMA TargetNone ==
    ASSUME DecodeTypeOK, skip > 0, NEW t
    PROVE  /\ Value!Understood(t) = {} /\ ~Value!OverIndex(t)
           /\ Value!Target(t) = {}
<1>1. Value!Here = "none" /\ Value!None = "none"
  BY HereIs, OpenLevelsIs, ValueSchema
<1>2. Value!Target(t) = {}
  BY <1>1 DEF Value!Target
<1> QED
  BY <1>1, <1>2 DEF Value!Understood, Value!OverIndex

LEMMA TargetIs ==
    ASSUME DecodeTypeOK, skip = 0, NEW t
    PROVE  /\ Value!Target(t) = Slot(t)
           /\ Value!Understood(t) = {k \in Slot(t) : WireType(k) = t.type}
           /\ Value!OverIndex(t) <=> OverIndex(t)
<1>1. Value!Here = Info /\ Value!None = "none" /\ Info # "none" /\ Info \in Nodes
  BY HereIs, OpenLevelsIs, ValueSchema
<1>2. Value!Target(t) = Slot(t)
  BY <1>1, ValueSchema DEF Value!Target, Slot
<1>3. Value!Understood(t) = {k \in Slot(t) : WireType(k) = t.type}
  BY <1>2, ValueSchema DEF Value!Understood
<1>4. Kids(Info) # {} => Schema[Info].kids[1] \in Kids(Info)
  <2>1. Len(Schema[Info].kids) \in Nat /\ DOMAIN Schema[Info].kids = 1..Len(Schema[Info].kids)
    BY <1>1, NodeType, LenProperties
  <2>2. Kids(Info) # {} => 1 \in DOMAIN Schema[Info].kids
    BY <2>1 DEF Kids, ToSet
  <2> QED
    BY <2>2 DEF Kids, ToSet
<1>5. Wrapper(Info) => \A k, l \in Kids(Info) : WireType(k) = WireType(l)
  <2>1. Wrapper(Info) => \A k, l \in Kids(Info) : Kind(k) = Kind(l)
    BY <1>1, SchemaAssumption
  <2> QED
    BY <2>1 DEF WireType
<1>6. Wrapper(Info) =>
        (Kids(Info) # {} /\ WireType(Schema[Info].kids[1]) \in {t.type, "none"}
          <=> \E k \in Kids(Info) : WireType(k) \in {t.type, "none"})
  BY <1>4, <1>5
<1>7. Value!OverIndex(t) <=>
        /\ Wrapper(Info)
        /\ Slot(t) = {}
        /\ \E k \in Kids(Info) : WireType(k) \in {t.type, "none"}
  BY <1>1, <1>2, ValueSchema DEF Value!OverIndex
<1> QED
  BY <1>2, <1>3, <1>6, <1>7 DEF OverIndex

LEMMA ReachIs ==
    ASSUME DecodeTypeOK, skip = 0, NEW k
    PROVE  /\ Value!Reach(k) = ReachOf(Info, k, View(obj))
           /\ Value!Opened(k) = OpenedValue(k, ReachOf(Info, k, View(obj)))
           /\ \A v : Value!TooLarge(k, v) <=> TooLarge(k, v)
<1>1. Value!Here = Info
  BY HereIs
<1>2. /\ \A f, g : Value!With(f, g) = With(f, g)
      /\ \A n, v : Value!At(n, v) = At(n, v)
      /\ \A f, gone : Value!Without(f, gone) = Without(f, gone)
  BY DEF Value!With, With, Value!At, At, Value!Without, Without
<1>3. \A n : Value!Fresh(n) = FreshOf(n)
  BY ValueSchema DEF Value!Fresh, FreshOf
<1>4. Value!Reach(k) = ReachOf(Info, k, View(obj))
  BY <1>1, <1>2, <1>3, ValueSchema DEF Value!Reach, ReachOf, NewElements
<1>5. Value!Opened(k) = OpenedValue(k, ReachOf(Info, k, View(obj)))
  BY <1>2, <1>3, <1>4, ValueSchema DEF Value!Opened, OpenedValue
<1>6. \A v : Value!TooLarge(k, v) <=> TooLarge(k, v)
  BY ValueSchema DEF Value!TooLarge, TooLarge
<1> QED
  BY <1>4, <1>5, <1>6


\* The invariant after a step, from what the object has become.
LEMMA InductiveNext ==
    ASSUME DecodeTypeOK', ~invalid' => Info' \in Live(obj') /\ Clean(obj', Root)
    PROVE  DecodeInductive'
<1>1. Clean(obj', Root) =>
        \A n \in Live(obj') : \A k \in Kids(n) :
            (Kind(n) = "sized" /\ ~Chosen(obj', n, k)) =>
                \A x \in Seeded[k] : obj'[x] = Default(x)
  BY StepsAre DEF Clean, AtDefault
<1> QED
  BY <1>1 DEF DecodeInductive

LEMMA RejectStep ==
    ASSUME Invalidate
    PROVE  Value!Reject
BY DEF Invalidate, Value!Reject, OpenLevels

\* Leaving the object alone leaves the value alone.
LEMMA SameObject ==
    ASSUME UNCHANGED obj
    PROVE  View(obj)' = View(obj)
BY DEF View, Live, Chosen, Meaning, NotHeld, HeldIn, SeqLen, Used

LEMMA SameLevels ==
    ASSUME UNCHANGED <<handles, level, skip>>
    PROVE  OpenLevels' = OpenLevels
BY DEF OpenLevels

LEMMA NextView ==
    ASSUME NEW m, obj' = m
    PROVE  View(obj)' = View(m)
BY DEF View, Live, Chosen, Meaning, NotHeld, HeldIn, SeqLen, Used

\* Opening something adds it to what is open.
LEMMA AppendLevel ==
    ASSUME DecodeTypeOK, NEW e,
           \/ e = "none" /\ skip' = skip + 1 /\ UNCHANGED <<handles, level>>
           \/ /\ skip = 0 /\ skip' = 0 /\ level' = level + 1
              /\ \A l \in 1..level : handles'[l] = handles[l]
              /\ handles'[level + 1] = e
    PROVE  OpenLevels' = Append(OpenLevels, e)
<1> DEFINE n == level + skip
<1>1. level \in Nat \ {0} /\ skip \in Nat /\ n \in Nat
  BY OpenLevelsIs
<1>2. level' + skip' = n + 1
  BY <1>1
<1>3. OpenLevels = [l \in 1..n |-> IF l <= level THEN handles[l] ELSE "none"]
  BY DEF OpenLevels
<1>4. OpenLevels' = [l \in 1..n + 1 |-> IF l <= level' THEN handles'[l] ELSE "none"]
  BY <1>2 DEF OpenLevels
<1>5. Append(OpenLevels, e) = [l \in 1..n + 1 |-> IF l = n + 1 THEN e ELSE OpenLevels[l]]
  BY <1>1, <1>3 DEF Append
<1>6. ASSUME NEW l \in 1..n + 1
      PROVE  (IF l <= level' THEN handles'[l] ELSE "none") = (IF l = n + 1 THEN e ELSE OpenLevels[l])
  <2>1. CASE l = n + 1
    BY <1>1, <2>1
  <2>2. CASE l # n + 1
    <3>1. l \in 1..n
      BY <1>1, <2>2
    <3>2. OpenLevels[l] = IF l <= level THEN handles[l] ELSE "none"
      BY <1>3, <3>1
    <3>3. skip = 0 => l <= level /\ l \in 1..level
      BY <1>1, <3>1
    <3>4. CASE skip' = skip + 1 /\ UNCHANGED <<handles, level>>
      BY <2>2, <3>2, <3>4
    <3>5. CASE /\ skip = 0 /\ skip' = 0 /\ level' = level + 1
               /\ \A j \in 1..level : handles'[j] = handles[j]
      BY <1>1, <2>2, <3>2, <3>3, <3>5
    <3> QED
      BY <3>4, <3>5
  <2> QED
    BY <2>1, <2>2
<1> QED
  BY <1>4, <1>5, <1>6


LEMMA DropLevel ==
    ASSUME DecodeTypeOK, UNCHANGED handles,
           \/ skip > 0 /\ skip' = skip - 1 /\ UNCHANGED level
           \/ skip = 0 /\ skip' = 0 /\ level > 1 /\ level' = level - 1
    PROVE  /\ Len(OpenLevels) > 1
           /\ OpenLevels' = Value!Front(OpenLevels)
<1> DEFINE n == level + skip
<1>1. level \in Nat \ {0} /\ skip \in Nat /\ n \in Nat /\ Len(OpenLevels) = n
  BY OpenLevelsIs
<1>2. level' + skip' = n - 1 /\ n > 1
  BY <1>1
<1>3. OpenLevels = [l \in 1..n |-> IF l <= level THEN handles[l] ELSE "none"]
  BY DEF OpenLevels
<1>4. OpenLevels' = [l \in 1..n - 1 |-> IF l <= level' THEN handles[l] ELSE "none"]
  BY <1>2 DEF OpenLevels
<1>5. Value!Front(OpenLevels) = [l \in 1..n - 1 |-> OpenLevels[l]]
  <2>1. Value!Front(OpenLevels) = SubSeq(OpenLevels, 1, n - 1)
    BY <1>1 DEF Value!Front
  <2>2. SubSeq(OpenLevels, 1, n - 1) = [l \in 1..(1 + (n - 1) - 1) |-> OpenLevels[(l + 1) - 1]]
    BY <1>1, <1>2 DEF SubSeq
  <2>3. 1 + (n - 1) - 1 = n - 1 /\ \A l \in 1..n - 1 : (l + 1) - 1 = l
    BY <1>1
  <2> HIDE DEF n
  <2> QED
    BY <2>1, <2>2, <2>3
<1>6. ASSUME NEW l \in 1..n - 1
      PROVE  (IF l <= level' THEN handles[l] ELSE "none") = OpenLevels[l]
  <2>1. l \in 1..n
    BY <1>1
  <2>2. OpenLevels[l] = IF l <= level THEN handles[l] ELSE "none"
    BY <1>3, <2>1
  <2>3. l <= level' <=> l <= level
    BY <1>1
  <2> QED
    BY <2>2, <2>3
<1> QED
  BY <1>1, <1>2, <1>4, <1>5, <1>6

\* What the value does with a token.
Promised(t) == Value!TakeLeaf(t) \/ Value!TakeStart(t) \/ Value!TakeEnd(t)

\* A token that has no effect on the value.
LEMMA Ignored ==
    ASSUME DecodeTypeOK, NEW t \in Token, t.tok = "leaf",
           Value!Understood(t) = {}, ~Value!OverIndex(t), UNCHANGED <<obj, OpenLevels, invalid>>
    PROVE  Promised(t)
BY SameObject DEF Promised, Value!TakeLeaf

\* A nested object that is not part of the value.
LEMMA IgnoredStart ==
    ASSUME DecodeTypeOK, NEW t \in Token, t.tok = "start", ~TooDeep(t),
           Value!Understood(t) = {} \/ level >= MaxLevels, ~Value!OverIndex(t),
           skip' = skip + 1, UNCHANGED <<obj, handles, level, invalid>>
    PROVE  Promised(t)
<1>1. OpenLevels' = Append(OpenLevels, "none") /\ Value!None = "none"
  BY AppendLevel, ValueSchema
<1>2. Len(OpenLevels) <= MaxDepth
  <2>1. level - 1 + skip # MaxDepth
    BY DEF TooDeep
  <2> QED
    BY <2>1, OpenLevelsIs
<1>3. level >= MaxLevels => Len(OpenLevels) >= MaxLevels
  BY OpenLevelsIs, InfoType
<1> QED
  BY <1>1, <1>2, <1>3, SameObject DEF Promised, Value!TakeStart

LEMMA RejectDepthStep ==
    ASSUME DecodeTypeOK, NEW t \in Token, RejectDepth(t)
    PROVE  Promised(t)
<1>1. Len(OpenLevels) > MaxDepth
  BY OpenLevelsIs DEF RejectDepth, TooDeep
<1> QED
  BY <1>1, RejectStep DEF RejectDepth, TooDeep, Promised, Value!TakeStart

LEMMA MaskedStep ==
    ASSUME DecodeTypeOK, NEW t \in Token, ~TooDeep(t), Masked(t)
    PROVE  Promised(t)
<1>1. skip > 0 /\ UNCHANGED <<obj, handles, level, invalid>>
  BY DEF Masked
<1>2. Value!Understood(t) = {} /\ ~Value!OverIndex(t)
  BY <1>1, TargetNone
<1>3. CASE t.tok = "leaf"
  BY <1>1, <1>2, <1>3, Ignored, SameLevels DEF Masked
<1>4. CASE t.tok = "start"
  BY <1>1, <1>2, <1>4, IgnoredStart DEF Masked
<1>5. CASE t.tok = "end"
  <2>1. skip' = skip - 1
    BY <1>5 DEF Masked
  <2> QED
    BY <1>1, <1>5, <2>1, DropLevel, SameObject DEF Promised, Value!TakeEnd
<1> QED
  BY <1>3, <1>4, <1>5, TokenType

LEMMA RejectIndexStep ==
    ASSUME DecodeTypeOK, NEW t \in Token, RejectIndex(t)
    PROVE  Promised(t)
<1>1. Value!OverIndex(t) /\ Value!Reject /\ t.tok \in {"leaf", "start"}
  BY TargetIs, RejectStep, TokenType DEF RejectIndex
<1> QED
  BY <1>1 DEF Promised, Value!TakeLeaf, Value!TakeStart

LEMMA UnboundStep ==
    ASSUME DecodeTypeOK, NEW t \in Token, ~TooDeep(t), Unbound(t)
    PROVE  Promised(t)
<1>1. Value!Understood(t) = {} /\ ~Value!OverIndex(t)
  BY TargetIs DEF Unbound
<1>2. CASE t.tok = "leaf"
  BY <1>1, <1>2, Ignored, SameLevels DEF Unbound
<1>3. CASE t.tok = "start"
  <2>1. skip' = skip + 1
    BY <1>3 DEF Unbound
  <2> QED
    BY <1>1, <1>3, <2>1, IgnoredStart DEF Unbound
<1> QED
  BY <1>2, <1>3, TokenType DEF Unbound

LEMMA OutOfHandlesStep ==
    ASSUME DecodeTypeOK, NEW t \in Token, ~TooDeep(t), OutOfHandles(t)
    PROVE  Promised(t)
<1>1. ~Value!OverIndex(t)
  BY TargetIs DEF OutOfHandles, OverIndex
<1>2. skip' = skip + 1 /\ level >= MaxLevels
  BY InfoType DEF OutOfHandles
<1> QED
  BY <1>1, <1>2, IgnoredStart DEF OutOfHandles


LEMMA CloseStep ==
    ASSUME DecodeInductive, ~invalid, NEW t \in Token, CloseSequence(t)
    PROVE  /\ Promised(t)
           /\ ~invalid' => Info' \in Live(obj') /\ Clean(obj', Root)
<1>1. /\ Info \in Live(obj) /\ Clean(obj, Root) /\ DecodeTypeOK /\ skip = 0 /\ t.tok = "end"
      /\ level \in Nat \ {0}
  BY InductiveParts, InfoType DEF DecodeInductive, CloseSequence
<1>2. CASE level > 1
  <2>1. level' = level - 1 /\ UNCHANGED <<obj, handles, skip, invalid>>
    BY <1>2 DEF CloseSequence
  <2>2. Promised(t)
    BY <1>1, <1>2, <2>1, DropLevel, SameObject DEF Promised, Value!TakeEnd
  <2>3. Info' = handles[level - 1]
    BY <2>1 DEF Info
  <2>4. level \in 2..level /\ level - 1 \in 1..level
    BY <1>1, <1>2
  <2>5. Info \in Kids(handles[level - 1]) /\ handles[level - 1] \in Nodes
    <3>1. level - 1 \in 1..MaxLevels
      BY <1>1, <2>4, InfoType
    <3> QED
      BY <1>1, <2>4, <3>1 DEF DecodeTypeOK, Info
  <2>6. Info \in Below[handles[level - 1]]
    BY <2>5, BelowKid
  <2>7. handles[level - 1] \in Live(obj)
    BY <1>1, <2>5, <2>6, LiveAncestor
  <2> QED
    BY <1>1, <2>1, <2>2, <2>3, <2>7
<1>3. CASE ~(level > 1)
  <2>1. Invalidate
    BY <1>3 DEF CloseSequence
  <2>2. ~(Len(OpenLevels) > 1)
    BY <1>1, <1>3, OpenLevelsIs
  <2> QED
    BY <1>1, <2>1, <2>2, RejectStep DEF Promised, Value!TakeEnd, Invalidate
<1> QED
  BY <1>2, <1>3

LEMMA BindLeafStep ==
    ASSUME DecodeInductive, ~invalid, NEW t \in Token, BindLeaf(t)
    PROVE  /\ Promised(t)
           /\ ~invalid' => Info' \in Live(obj') /\ Clean(obj', Root)
<1> DEFINE v == t.val
<1>1. DecodeTypeOK /\ skip = 0 /\ t.tok = "leaf" /\ t.type \in LeafTypes /\ v \in Seq(Nat)
  BY TokenType DEF DecodeInductive, BindLeaf
<1>2. PICK k \in Slot(t) :
         /\ WireType(k) = t.type
         /\ IF TooLarge(k, v)
            THEN obj' = Store(obj, Observe(k)) /\ Invalidate
            ELSE /\ obj' = Store(obj, With(Observe(k), At(k, Payload(k, v))))
                 /\ UNCHANGED <<handles, level, skip, invalid>>
  BY DEF BindLeaf
<1>3. k \in Kids(Info) /\ k \in Nodes /\ WireType(k) \in LeafTypes
  BY <1>1, <1>2, SlotType
<1>4. k \in Value!Understood(t) /\ (Value!TooLarge(k, v) <=> TooLarge(k, v))
  BY <1>1, <1>2, TargetIs, ReachIs
<1> HIDE DEF v
<1>5. CASE TooLarge(k, v)
  <2>1. Invalidate
    BY <1>2, <1>5
  <2>2. Promised(t)
    BY <1>1, <1>4, <1>5, <2>1, RejectStep DEF Promised, Value!TakeLeaf, v
  <2> QED
    BY <2>1, <2>2 DEF Invalidate
<1>6. CASE ~TooLarge(k, v)
  <2> DEFINE R == ReachOf(Info, k, View(obj))
  <2>1. /\ obj' = Store(obj, With(Observe(k), At(k, Payload(k, v))))
        /\ UNCHANGED <<handles, level, skip, invalid>>
    BY <1>2, <1>6
  <2>2. Value!Reach(k) = R
    BY <1>1, ReachIs
  <2>3. /\ Info \in Live(obj') /\ Clean(obj', Root)
        /\ k \in DOMAIN R
        /\ Kind(k) = "blob" => R[k] = obj[k]
        /\ View(obj') = [x \in DOMAIN R |-> IF x = k THEN Meaning(k, obj') ELSE R[x]]
        /\ obj'[k] = Payload(k, v)
    BY <1>1, <1>3, <1>6, <2>1, BindLeafView
  <2> HIDE DEF R
  <2>4. Meaning(k, obj') = Value!Filled(k, v, R[k])
    <3>1. /\ Kind(k) = "arr" =>
                Meaning(k, obj') = [i \in 1..Cap(k) |-> IF i <= Len(v) THEN v[i] ELSE 0]
          /\ Kind(k) = "blob" =>
                Meaning(k, obj') = v \o SubSeq(obj[k], Len(v) + 1, Len(obj[k]))
          /\ Kind(k) \notin {"arr", "blob"} => Meaning(k, obj') = v
      BY <1>1, <1>3, <1>6, <2>3, FilledMeaning
    <3>2. /\ Kind(k) = "arr" =>
                Value!Filled(k, v, R[k]) = [i \in 1..Cap(k) |-> IF i <= Len(v) THEN v[i] ELSE 0]
          /\ Kind(k) = "blob" =>
                Value!Filled(k, v, R[k]) = v \o SubSeq(R[k], Len(v) + 1, Len(R[k]))
          /\ Kind(k) \notin {"arr", "blob"} => Value!Filled(k, v, R[k]) = v
      BY ValueSchema DEF Value!Filled
    <3> QED
      BY <2>3, <3>1, <3>2
  <2>5. View(obj') = [R EXCEPT ![k] = Value!Filled(k, v, R[k])]
    <3>1. [R EXCEPT ![k] = Value!Filled(k, v, R[k])]
            = [x \in DOMAIN R |-> IF x = k THEN Value!Filled(k, v, R[k]) ELSE R[x]]
      OBVIOUS
    <3> QED
      BY <2>3, <2>4, <3>1
  <2>6. View(obj)' = [Value!Reach(k) EXCEPT ![k] = Value!Filled(k, v, @)]
    BY <2>2, <2>5, NextView
  <2>7. OpenLevels' = OpenLevels /\ Info' = Info
    BY <2>1, SameLevels DEF Info
  <2>8. Promised(t)
    BY <1>1, <1>4, <1>6, <2>1, <2>6, <2>7 DEF Promised, Value!TakeLeaf, v
  <2> QED
    BY <2>3, <2>7, <2>8
<1> QED
  BY <1>5, <1>6

LEMMA OpenStep ==
    ASSUME DecodeInductive, ~invalid, NEW t \in Token, ~TooDeep(t), OpenSequence(t)
    PROVE  /\ Promised(t)
           /\ Info' \in Live(obj') /\ Clean(obj', Root)
<1>1. /\ DecodeTypeOK /\ skip = 0 /\ skip' = 0 /\ invalid' = invalid /\ t.tok = "start"
      /\ t.type = "start" /\ level < MaxLevels
  BY TokenType DEF DecodeInductive, OpenSequence
<1>2. PICK k \in Slot(t) :
         /\ WireType(k) = "start"
         /\ obj' = Store(OpenedMemory(k), Observe(k))
         /\ handles' = [handles EXCEPT ![level + 1] = k]
         /\ level' = level + 1
  BY DEF OpenSequence, OpenedMemory
<1>3. k \in Kids(Info) /\ k \in Nodes /\ ~Leaf(k)
  BY <1>1, <1>2, SlotType, WireTypeIs
<1> DEFINE R == ReachOf(Info, k, View(obj))
<1>4. k \in Value!Understood(t) /\ Value!Opened(k) = OpenedValue(k, R)
  BY <1>1, <1>2, TargetIs, ReachIs
<1>5. k \in Live(obj') /\ Clean(obj', Root) /\ View(obj') = OpenedValue(k, R)
  BY <1>2, <1>3, OpenView
<1>6. View(obj)' = Value!Opened(k)
  BY <1>4, <1>5, NextView
<1>7. /\ level \in Nat \ {0} /\ level + 1 \in 1..MaxLevels /\ 1..level \subseteq 1..MaxLevels
      /\ handles \in [1..MaxLevels -> Nodes]
  BY <1>1, InfoType DEF DecodeTypeOK
<1>8. /\ handles'[level + 1] = k
      /\ \A l \in 1..level : handles'[l] = handles[l]
  BY <1>2, <1>7
<1>9. OpenLevels' = Append(OpenLevels, k)
  BY <1>1, <1>2, <1>8, AppendLevel
<1>10. Len(OpenLevels) < MaxLevels /\ Len(OpenLevels) <= MaxDepth
  <2>1. level - 1 + skip # MaxDepth
    BY <1>1 DEF TooDeep
  <2> QED
    BY <1>1, <2>1, OpenLevelsIs, InfoType
<1>11. Promised(t)
  BY <1>1, <1>4, <1>6, <1>9, <1>10 DEF Promised, Value!TakeStart
<1>12. Info' = k
  BY <1>2, <1>8 DEF Info
<1> QED
  BY <1>5, <1>11, <1>12


LEMMA FreshObject ==
    /\ AtDefault(InitObject, Root) /\ Clean(InitObject, Root)
    /\ View(InitObject) = FreshOf(Root)
<1>1. Root \in Nodes /\ Seeded[Root] \subseteq Nodes
  BY SchemaAssumption, LiveType
<1>2. AtDefault(InitObject, Root)
  <2> SUFFICES ASSUME NEW x \in Seeded[Root] PROVE InitObject[x] = Default(x)
    BY DEF AtDefault
  <2> DEFINE m == [n \in Nodes |-> Junk]
             f == [y \in Seeded[Root] |-> Default(y)]
  <2>1. InitObject = Store(m, f)
    BY DEF InitObject, Seed
  <2>2. DOMAIN f = Seeded[Root] /\ f[x] = Default(x)
    OBVIOUS
  <2> HIDE DEF m, f
  <2> QED
    BY <1>1, <2>1, <2>2, StoreAt
<1>3. /\ LiveIn(InitObject, Root) = FreshParts[Root]
      /\ \A x \in LiveIn(InitObject, Root) : Meaning(x, InitObject) = Default(x)
      /\ Clean(InitObject, Root)
  BY <1>1, <1>2, DefaultView
<1>4. Live(InitObject) = LiveIn(InitObject, Root)
  BY StepsAre
<1> QED
  BY <1>2, <1>3, <1>4 DEF View, FreshOf

\* Whatever the token, the object takes it as the value does.
LEMMA TokenReceived ==
    ASSUME DecodeInductive, NEW t \in Token, Receive(t)
    PROVE  DecodeInductive' /\ Promised(t) /\ ~invalid /\ last' = t
<1>1. t \in Token /\ ~invalid /\ last' = t /\ DecodeTypeOK
  BY DEF Receive, DecodeInductive
<1>2. DecodeTypeOK'
  BY <1>1, ReceiveType
<1>3. Info \in Live(obj) /\ Clean(obj, Root)
  BY <1>1, InductiveParts
<1>4. ASSUME UNCHANGED <<obj, handles, level>> \/ (Invalidate /\ UNCHANGED obj)
      PROVE  ~invalid' => Info' \in Live(obj') /\ Clean(obj', Root)
  BY <1>3, <1>4 DEF Info, Invalidate
<1>5. /\ Promised(t)
      /\ ~invalid' => Info' \in Live(obj') /\ Clean(obj', Root)
  <2>1. CASE RejectDepth(t)
    BY <1>1, <1>3, <1>4, <2>1, RejectDepthStep DEF RejectDepth
  <2>2. CASE ~TooDeep(t) /\ Masked(t)
    BY <1>1, <1>3, <1>4, <2>2, MaskedStep DEF Masked
  <2>3. CASE RejectIndex(t)
    BY <1>1, <1>3, <1>4, <2>3, RejectIndexStep DEF RejectIndex
  <2>4. CASE ~TooDeep(t) /\ Unbound(t)
    BY <1>1, <1>3, <1>4, <2>4, UnboundStep DEF Unbound
  <2>5. CASE BindLeaf(t)
    BY <1>1, <2>5, BindLeafStep
  <2>6. CASE ~TooDeep(t) /\ OpenSequence(t)
    BY <1>1, <2>6, OpenStep
  <2>7. CASE ~TooDeep(t) /\ OutOfHandles(t)
    BY <1>1, <1>3, <1>4, <2>7, OutOfHandlesStep DEF OutOfHandles
  <2>8. CASE CloseSequence(t)
    BY <1>1, <2>8, CloseStep
  <2> QED
    BY <2>1, <2>2, <2>3, <2>4, <2>5, <2>6, <2>7, <2>8 DEF Receive
<1> QED
  BY <1>1, <1>2, <1>5, InductiveNext

LEMMA ReceiveStep ==
    ASSUME DecodeInductive, NEW t \in Tokens, Receive(t)
    PROVE  DecodeInductive' /\ Value!Next
<1>1. t \in Token
  BY DecodeAssumption
<1> QED
  BY <1>1, TokenReceived DEF Value!Next, Promised


LEMMA DecodeInitStep ==
    ASSUME DecodeInit
    PROVE  DecodeInductive /\ Value!Init
<1>1. /\ obj = InitObject /\ handles = [l \in 1..MaxLevels |-> Root] /\ level = 1
      /\ skip = 0 /\ invalid = FALSE /\ last = "none"
  BY DEF DecodeInit
<1>2. DecodeTypeOK
  BY DecodeInitType
<1>3. Info = Root
  BY <1>2 DEF Info, DecodeTypeOK, DecodeInit
<1>4. DecodeInductive
  <2>1. Root \in Live(obj)
    BY LiveNodes
  <2>2. Clean(obj, Root)
    BY <1>1, FreshObject
  <2> QED
    BY <1>2, <1>3, <2>1, <2>2, StepsAre DEF DecodeInductive, Clean, AtDefault
<1>5. OpenLevels = <<Root>>
  <2>1. OpenLevels = [l \in 1..1 |-> Root]
    BY <1>1, <1>2, <1>3 DEF OpenLevels, DecodeTypeOK, Info
  <2> QED
    BY <2>1
<1>6. View(obj) = Value!Fresh(Root)
  BY <1>1, FreshObject, ValueSchema DEF Value!Fresh, FreshOf
<1> QED
  BY <1>1, <1>4, <1>5, <1>6, ValueSchema DEF Value!Init

LEMMA DecodeNextStep ==
    ASSUME DecodeInductive, [DecodeNext]_decodeVars
    PROVE  DecodeInductive' /\ [Value!Next]_(Value!vars)
<1>1. CASE DecodeNext
  BY <1>1, ReceiveStep DEF DecodeNext
<1>2. CASE UNCHANGED decodeVars
  <2>1. UNCHANGED <<obj, handles, level, skip, invalid, last>>
    BY <1>2 DEF decodeVars
  <2>2. View(obj)' = View(obj) /\ OpenLevels' = OpenLevels
    BY <2>1, SameObject, SameLevels
  <2>3. DecodeTypeOK' /\ Info' = Info
    BY <2>1 DEF DecodeTypeOK, DecodeInductive, Info
  <2>4. ~invalid => Info \in Live(obj) /\ Clean(obj, Root)
    BY InductiveParts
  <2> QED
    BY <2>1, <2>2, <2>3, <2>4, InductiveNext DEF Value!vars
<1> QED
  BY <1>1, <1>2

\* While the message has not been rejected, the nested object being filled is
\* part of the value, however the options and elements around it came and
\* went; an element an array does not have yet is what sofab_object_init left.
THEOREM DecodeInductiveHolds == DecodeSpec => []DecodeInductive
<1> QED
  BY DecodeInitStep, DecodeNextStep, PTL DEF DecodeSpec

\* Decoding in place has the meaning of the message, for every schema and
\* every message.
THEOREM ValueRefinement == DecodeSpec => ImplementsValue
<1>1. DecodeInit => Value!Init
  BY DecodeInitStep
<1>2. DecodeInductive /\ [DecodeNext]_decodeVars => [Value!Next]_(Value!vars)
  BY DecodeNextStep
<1> QED
  BY <1>1, <1>2, DecodeInductiveHolds, PTL DEF DecodeSpec, ImplementsValue, Value!Spec
=============================================================================
