---------------------------- MODULE ObjectSchema ----------------------------
(***************************************************************************)
(* Descriptors and objects of the object API, src/src/object.c.            *)
(*                                                                         *)
(* A descriptor is a static table that describes a C struct field by       *)
(* field; nested structs have descriptors of their own.  Here a schema is  *)
(* the tree that results when every nested descriptor is unfolded, and an  *)
(* object is what the memory of its nodes contains:                        *)
(*                                                                         *)
(*   "num"    a scalar that fits up to cap                                 *)
(*   "str"    a string of up to cap characters, char[cap + 1]              *)
(*   "arr"    a native array, "sarr" one (or a blob) with a length member  *)
(*   "blob"   a blob without one                                           *)
(*   "odd"    a field of a type the library does not support               *)
(*   "struct" a nested object                                              *)
(*   "holder" a wrapper array, "sized" one with an element-count member    *)
(*   "union"  a tagged union                                               *)
(*                                                                         *)
(* The contents of a leaf is a sequence of numbers, that of a "sized" or a *)
(* "union" its count or tag alone.  The options of a union overlay each    *)
(* other: a store to one of them leaves Junk in the others.                *)
(***************************************************************************)
EXTENDS Naturals, Sequences, SequencesExt

CONSTANTS
    Root,    \* the object
    Schema   \* by node: [kind, id, kids, cap, dflt]

Nodes == DOMAIN Schema
Kind(n) == Schema[n].kind
Id(n) == Schema[n].id
Kids(n) == ToSet(Schema[n].kids)
Cap(n) == Schema[n].cap
Default(n) == Schema[n].dflt

LeafKinds == {"num", "str", "arr", "sarr", "blob", "odd"}
Wrapper(n) == Kind(n) \in {"holder", "sized"}
Leaf(n) == Kind(n) \in LeafKinds

\* Slots of a wrapper are numbered from 0 and are all of one type.
ASSUME SchemaAssumption ==
    /\ Root \in Nodes /\ ~Leaf(Root)
    /\ \A n \in Nodes :
          /\ Kind(n) \in LeafKinds \cup {"struct", "holder", "sized", "union"}
          /\ Schema[n].kids \in Seq(Nodes \ {Root})
          /\ Id(n) \in Nat /\ Cap(n) \in Nat /\ Default(n) \in Seq(Nat)
          /\ Leaf(n) => Kids(n) = {}
          /\ \A k, l \in Kids(n) : Id(k) = Id(l) => k = l
          /\ Wrapper(n) =>
                /\ \A i \in 1..Len(Schema[n].kids) : Id(Schema[n].kids[i]) = i - 1
                /\ \A k, l \in Kids(n) : Kind(k) = Kind(l)
          /\ Kind(n) = "union" =>
                /\ \A k \in Kids(n) : Kind(k) # "blob"
                /\ \E k \in Kids(n) : Default(n) = <<Id(k)>>
          /\ Kind(n) = "sized" => Default(n) = <<0>>
          /\ Kind(n) \in {"struct", "holder"} => Default(n) = <<>>
          /\ Kind(n) \in {"sarr", "blob"} => Len(Default(n)) <= Cap(n)

\* Unfolded descriptors are a tree: every field is in one place of one object,
\* everything is within the root, and no object contains itself.
ASSUME TreeAssumption ==
    /\ \A n \in Nodes : \A i, j \in 1..Len(Schema[n].kids) :
          Schema[n].kids[i] = Schema[n].kids[j] => i = j
    /\ \A p, q \in Nodes : p # q => Kids(p) \cap Kids(q) = {}
    /\ \A X \in SUBSET Nodes :
          Root \in X /\ (\A p \in X : Kids(p) \subseteq X) => X = Nodes
    /\ \A X \in SUBSET Nodes : X # {} => \E n \in X : Kids(n) \cap X = {}

\* What the memory of an object can contain: a count or a tag is one number.
Memory ==
    {m \in [Nodes -> Seq(Nat)] :
        \A n \in Nodes : Kind(n) \in {"sized", "union"} => Len(m[n]) = 1}

\* What a message is made of: fields with their contents, and the markers of
\* nested objects.
LeafTypes == {"num", "str", "arr", "blob"}
Token ==
    [tok : {"leaf"}, id : Nat, type : LeafTypes, val : Seq(Nat)]
        \cup [tok : {"start"}, id : Nat, type : {"start"}, val : {<<>>}]
        \cup [tok : {"end"}, id : {0}, type : {"end"}, val : {<<>>}]

\* For every node what is reached from it, node by node.
Down(step) ==
    LET down[n \in Nodes] == {n} \cup UNION {down[k] : k \in step[n]} IN down

Below == Down([n \in Nodes |-> Kids(n)])

Junk == <<99>>

\* For every node those in another option of the same union.
Overlay ==
    [n \in Nodes |->
        {x \in Nodes :
            \E u \in Nodes :
                /\ Kind(u) = "union"
                /\ \E o, p \in Kids(u) : o # p /\ n \in Below[o] /\ x \in Below[p]}]

\* The contents of one node; the contents f with those of g written over them.
\* (As :> and @@ of TLC, which come without a definition to reason from.)
At(n, v) == [x \in {n} |-> v]
With(f, g) == [x \in DOMAIN f \cup DOMAIN g |-> IF x \in DOMAIN g THEN g[x] ELSE f[x]]

\* The memory m after the contents f have been stored.
Store(m, f) ==
    LET lost == UNION {Overlay[y] : y \in DOMAIN f}
    IN  [x \in Nodes |-> IF x \in DOMAIN f THEN f[x]
                         ELSE IF x \in lost THEN Junk ELSE m[x]]

HeldIn(u, m, k) == m[u] = <<Id(k)>>

\* _NOT_HELD: k is an option of the union p and not the held one.
NotHeld(m, p, k) == Kind(p) = "union" /\ ~HeldIn(p, m, k)

\* sofab_object_init: what it writes.  Of a union it seeds the tag and that
\* one option, of a wrapper the count and every slot.
Seeded ==
    Down([n \in Nodes |->
             {k \in Kids(n) : Kind(n) = "union" => Default(n) = <<Id(k)>>}])

Seed(m, n) == Store(m, [x \in Seeded[n] |-> Default(x)])

\* An object fresh from sofab_object_init.
InitObject == Seed([n \in Nodes |-> Junk], Root)

AtMost(a, b) == IF a < b THEN a ELSE b

\* _seq_len: how many slots of a wrapper its value occupies.
SeqLen(n, m) ==
    IF Kind(n) = "sized" THEN AtMost(m[n][1], Len(Schema[n].kids))
    ELSE Len(Schema[n].kids)

\* _array_count and the length of a sized blob: the part of the storage that
\* is in use.
Used(n, m) ==
    IF Kind(n) = "sarr" THEN SubSeq(m[n], 1, AtMost(Len(m[n]), Cap(n))) ELSE m[n]

\* _expected_opt: the wire type of a field.
WireType(n) ==
    CASE Kind(n) = "num" -> "num"
      [] Kind(n) = "str" -> "str"
      [] Kind(n) \in {"arr", "sarr"} -> "arr"
      [] Kind(n) = "blob" -> "blob"
      [] Kind(n) = "odd" -> "none"
      [] OTHER -> "start"

\* A slip: the held option is compared like any field.
ForcedNever(p, k) == FALSE

\* An option that is held but is not the default one is written even at its
\* own default: a receiver would take its absence for the default option.
Forced(p, k) == Kind(p) = "union" /\ Default(p) # <<Id(k)>>

\* A slip: an empty sized wrapper has to have default slots as well.
IsDefaultByContent(m) ==
    LET default[f \in Nodes \X Nodes] ==
            LET p == f[1]
                k == f[2]
            IN  \/ NotHeld(m, p, k)
                \/ /\ ~Forced(p, k)
                   /\ Kind(k) = "sized" => SeqLen(k, m) = 0
                   /\ IF Leaf(k) THEN Used(k, m) = Default(k)
                                 ELSE \A c \in Kids(k) : default[<<k, c>>]
    IN  default

\* _field_is_default: field k of the object p is not worth a byte.
IsDefault(m) ==
    LET default[f \in Nodes \X Nodes] ==
            LET p == f[1]
                k == f[2]
            IN  \/ NotHeld(m, p, k)
                \/ /\ ~Forced(p, k)
                   /\ CASE Kind(k) = "sized" -> SeqLen(k, m) = 0
                        [] Leaf(k) -> Used(k, m) = Default(k)
                        [] OTHER -> \A c \in Kids(k) : default[<<k, c>>]
    IN  default

-----------------------------------------------------------------------------
(* What an object means.                                                   *)

\* The field k of the object p is part of its value: not a slot a wrapper does
\* not use, not an option a union does not hold.
Chosen(m, p, k) ==
    /\ ~NotHeld(m, p, k)
    /\ Kind(p) = "sized" => Id(k) < SeqLen(p, m)

\* The nodes that are part of the value.
Live(m) == Down([n \in Nodes |-> {k \in Kids(n) : Chosen(m, n, k)}])[Root]

\* What a node contributes to the value: a struct nothing but its fields.
Meaning(n, m) ==
    CASE Kind(n) = "sized" -> <<SeqLen(n, m)>>
      [] Kind(n) \in {"struct", "holder"} -> <<>>
      [] OTHER -> Used(n, m)

View(m) == [n \in Live(m) |-> Meaning(n, m)]

\* A tag that names no option reads as the default one.
Stray(m) == {u \in Nodes : Kind(u) = "union" /\ \A k \in Kids(u) : NotHeld(m, u, k)}

Normal(m) ==
    [x \in Nodes |-> IF \E u \in Stray(m) : x \in Seeded[u] THEN Default(x) ELSE m[x]]
=============================================================================
