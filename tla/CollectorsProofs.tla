-------------------------- MODULE CollectorsProofs --------------------------
(***************************************************************************)
(* Theorems about the collectors of module Collectors, for every set of    *)
(* receivers and everything the wire may bring.                            *)
(***************************************************************************)
EXTENDS Collectors, SequenceTheorems, FiniteSetTheorems, TLAPS

Limit == [schema : Int, receiver : Int, room : Int]

Categories == {"argument", "invalid", "limit"}

-----------------------------------------------------------------------------
(* The tests of the code and the one judgement they stand for.             *)

LEMMA JudgeIs ==
    ASSUME NEW n \in Nat, NEW l \in Limit
    PROVE  Abstract!Judge(n, l) =
             IF l.schema >= 0 THEN IF n > l.schema THEN "invalid"
                                   ELSE IF l.room >= 0 /\ n > l.room THEN "argument" ELSE None
             ELSE IF l.receiver >= 0 /\ n > l.receiver THEN "limit"
             ELSE IF l.receiver < 0 /\ l.room < 0 THEN "argument"
             ELSE IF l.room >= 0 /\ n > l.room THEN "argument" ELSE None
BY DEF Abstract!Judge, Limit, None

LEMMA JudgeDown ==
    ASSUME NEW n \in Nat, NEW m \in Nat, m <= n, NEW l \in Limit, Abstract!Judge(n, l) = None
    PROVE  Abstract!Judge(m, l) = None
<1>1. l.schema \in Int /\ l.receiver \in Int /\ l.room \in Int
  BY DEF Limit
<1> QED
  BY <1>1, JudgeIs DEF None

LEMMA SetupType ==
    ASSUME setup \in Setups
    PROVE  /\ setup.elem \in {"text", "row", "message", "vector"}
           /\ setup.inline \in BOOLEAN
           /\ setup.capacity \in Int /\ setup.cap \in Int /\ setup.dynCap \in Int
           /\ setup.elemCapacity \in Int /\ setup.elemMax \in Int /\ setup.dynElemMax \in Int
           /\ setup.nameCapacity \in Int /\ setup.nameMax \in Int /\ setup.nameCap \in Int
           /\ setup.inline => setup.capacity \in Nat
           /\ setup.inline /\ setup.elem = "text" => setup.elemCapacity > 0
           /\ ~setup.inline /\ setup.elem = "text" => setup.elemCapacity = -1
           /\ setup.nameCap >= 0 => setup.nameMax = -1
BY CollectorsAssumption

LEMMA LimitTypes ==
    ASSUME setup \in Setups
    PROVE  IndexLimit \in Limit /\ ElementLimit \in Limit /\ NameLimit \in Limit
BY SetupType DEF IndexLimit, ElementLimit, NameLimit, Limit

LEMMA IndexVerdict ==
    ASSUME setup \in Setups, NEW id \in Nat
    PROVE  IndexRefusal(id) = Abstract!Judge(id + 1, IndexLimit)
<1> DEFINE n == id + 1
<1>1. n \in Nat
  OBVIOUS
<1> HIDE DEF n
<1>2. Abstract!Judge(n, IndexLimit) = (IF setup.inline THEN RefuseSchema(n, setup.capacity)
                                       ELSE RefuseBound(n, setup.cap, setup.dynCap))
  BY <1>1, JudgeIs, LimitTypes, SetupType
  DEF IndexLimit, RefuseSchema, RefuseBound, RefuseCap, None
<1> QED
  BY <1>2 DEF IndexRefusal, n

LEMMA ReadVerdict ==
    ASSUME NEW n \in Nat, NEW bound \in Int, NEW cap \in Int, NEW room \in Int,
           cap >= 0 => bound < 0
    PROVE  ReadRefusal(n, bound, cap, room)
             = Abstract!Judge(n, [schema |-> bound, receiver |-> cap, room |-> room])
<1> DEFINE l == [schema |-> bound, receiver |-> cap, room |-> room]
<1>1. l \in Limit /\ l.schema = bound /\ l.receiver = cap /\ l.room = room
  BY DEF Limit
<1> HIDE DEF l
<1>2. Abstract!Judge(n, l) = ReadRefusal(n, bound, cap, room)
  BY <1>1, JudgeIs DEF ReadRefusal, First, RefuseCap, RefuseUnbounded, RefuseSchema, Refuse, None
<1> QED
  BY <1>2 DEF l

LEMMA NameVerdict ==
    ASSUME setup \in Setups, NEW n \in Nat
    PROVE  ReadRefusal(n, setup.nameMax, setup.nameCap, setup.nameCapacity)
             = Abstract!Judge(n, NameLimit)
<1>1. /\ setup.nameMax \in Int /\ setup.nameCap \in Int /\ setup.nameCapacity \in Int
      /\ setup.nameCap >= 0 => setup.nameMax = -1
  BY SetupType
<1>2. setup.nameCap >= 0 => setup.nameMax < 0
  BY <1>1
<1> QED
  BY <1>1, <1>2, ReadVerdict DEF NameLimit

LEMMA RowVerdict ==
    ASSUME setup \in Setups, setup.elem = "row", NEW n \in Nat
    PROVE  RowRefusal(n) = Abstract!Judge(n, ElementLimit)
<1>1. CASE setup.inline
  BY <1>1, SetupType, ReadVerdict DEF RowRefusal, ElementLimit
<1>2. CASE ~setup.inline /\ setup.elemMax >= 0
  <2>1. ReadRefusal(n, setup.elemMax, -1, setup.elemCapacity)
          = Abstract!Judge(n, [schema |-> setup.elemMax, receiver |-> -1,
                               room |-> setup.elemCapacity])
    BY SetupType, ReadVerdict
  <2>2. Abstract!Judge(n, [schema |-> setup.elemMax, receiver |-> -1,
                           room |-> setup.elemCapacity])
          = Abstract!Judge(n, ElementLimit)
    BY <1>2, SetupType, LimitTypes, JudgeIs DEF ElementLimit, Limit
  <2> QED
    BY <1>2, <2>1, <2>2 DEF RowRefusal
<1>3. CASE ~setup.inline /\ setup.elemMax < 0
  <2>1. ReadRefusal(n, -1, setup.dynElemMax, setup.elemCapacity)
          = Abstract!Judge(n, [schema |-> -1, receiver |-> setup.dynElemMax,
                               room |-> setup.elemCapacity])
    BY SetupType, ReadVerdict
  <2>2. Abstract!Judge(n, [schema |-> -1, receiver |-> setup.dynElemMax,
                           room |-> setup.elemCapacity])
          = Abstract!Judge(n, ElementLimit)
    BY <1>3, SetupType, LimitTypes, JudgeIs DEF ElementLimit, Limit
  <2> QED
    BY <1>3, <2>1, <2>2, SetupType DEF RowRefusal
<1> QED
  BY <1>1, <1>2, <1>3, SetupType

LEMMA TextVerdict ==
    ASSUME setup \in Setups, setup.elem = "text", NEW n \in Nat
    PROVE  IF setup.inline
           THEN /\ setup.elemCapacity \in Nat
                /\ Abstract!Judge(n, ElementLimit)
                     = IF n > setup.elemCapacity THEN "invalid" ELSE None
           ELSE RefuseBound(n, setup.elemMax, setup.dynElemMax)
                  = Abstract!Judge(n, ElementLimit)
BY SetupType, LimitTypes, JudgeIs
DEF ElementLimit, RefuseBound, RefuseSchema, RefuseCap, None

\* A refusal has one of three categories.
LEMMA JudgeType ==
    ASSUME NEW n \in Nat, NEW l \in Limit
    PROVE  Abstract!Judge(n, l) \in Categories \cup {None}
BY JudgeIs DEF Categories, None

-----------------------------------------------------------------------------
(* What the operators on the container return.                             *)

LEMMA ResizedType ==
    ASSUME NEW s \in Seq(Nat), NEW n \in Nat
    PROVE  Resized(s, n) \in Seq(Nat) /\ Len(Resized(s, n)) = n
BY DEF Resized

LEMMA GrownType ==
    ASSUME TypeOK, NEW id \in Nat
    PROVE  /\ Grown(id) \in Seq(Seq(Nat))
           /\ Len(Grown(id)) = IF id < Len(out) THEN Len(out) ELSE id + 1
           /\ id + 1 \in 1..Len(Grown(id))
           /\ \A i \in 1..Len(Grown(id)) :
                 Grown(id)[i] = IF i <= Len(out) THEN out[i] ELSE DefaultElement
<1> DEFINE n == IF id < Len(out) THEN Len(out) ELSE id + 1
           g == [i \in 1..n |-> IF i <= Len(out) THEN out[i] ELSE DefaultElement]
<1>1. out \in Seq(Seq(Nat)) /\ Len(out) \in Nat
  BY DEF TypeOK
<1>2. n \in Nat /\ id + 1 \in 1..n
  BY <1>1
<1>3. DefaultElement \in Seq(Nat)
  BY DEF DefaultElement
<1>4. \A i \in 1..n : (IF i <= Len(out) THEN out[i] ELSE DefaultElement) \in Seq(Nat)
  BY <1>1, <1>2, <1>3
<1>5. Grown(id) = g
  BY DEF Grown
<1> HIDE DEF n
<1>6. g \in Seq(Seq(Nat)) /\ Len(g) = n
  BY <1>2, <1>4
<1> QED
  BY <1>5, <1>6 DEF n

\* The container with one element put at its index.
LEMMA PlacedType ==
    ASSUME TypeOK, NEW id \in Nat, NEW e \in Seq(Nat)
    PROVE  LET p == [Grown(id) EXCEPT ![id + 1] = e]
           IN  /\ p \in Seq(Seq(Nat))
               /\ Len(p) = IF id < Len(out) THEN Len(out) ELSE id + 1
               /\ \A i \in 1..Len(p) :
                     p[i] = IF i = id + 1 THEN e
                            ELSE IF i <= Len(out) THEN out[i] ELSE DefaultElement
<1> DEFINE g == Grown(id)
           p == [g EXCEPT ![id + 1] = e]
<1>1. /\ g \in Seq(Seq(Nat)) /\ id + 1 \in 1..Len(g)
      /\ Len(g) = IF id < Len(out) THEN Len(out) ELSE id + 1
      /\ \A i \in 1..Len(g) : g[i] = IF i <= Len(out) THEN out[i] ELSE DefaultElement
  BY GrownType
<1> HIDE DEF g
<1>2. /\ p \in Seq(Seq(Nat)) /\ Len(p) = Len(g)
      /\ \A i \in 1..Len(p) : p[i] = IF i = id + 1 THEN e ELSE g[i]
  BY <1>1
<1> HIDE DEF p
<1>3. /\ Len(p) = IF id < Len(out) THEN Len(out) ELSE id + 1
      /\ \A i \in 1..Len(p) :
            p[i] = IF i = id + 1 THEN e ELSE IF i <= Len(out) THEN out[i] ELSE DefaultElement
  BY <1>1, <1>2
<1> QED
  BY <1>2, <1>3 DEF p, g

LEMMA PlaceOf ==
    ASSUME TypeOK, NEW id \in Nat
    PROVE  Grown(id)[id + 1] \in Seq(Nat)
<1>1. /\ Grown(id) \in Seq(Seq(Nat)) /\ id + 1 \in 1..Len(Grown(id))
  BY GrownType
<1> QED
  BY <1>1

-----------------------------------------------------------------------------
(* The steps preserve the invariant.                                       *)

LEMMA TokenType ==
    ASSUME NEW t \in Tokens
    PROVE  /\ t.id \in Nat /\ t.size \in Nat
           /\ t.type \in {"text", "row", "num", "fixed", "start"}
           /\ t.type = "start" => t.size = 0
<1>1. Ids \subseteq Nat /\ Sizes \subseteq Nat /\ Widths \subseteq Nat
  BY CollectorsAssumption
<1>2. CASE t \in [id : Ids, type : {"text", "row", "num"}, size : Sizes]
  <2>1. t.id \in Ids /\ t.type \in {"text", "row", "num"} /\ t.size \in Sizes
    BY <1>2
  <2> QED
    BY <1>1, <2>1
<1>3. CASE t \in [id : Ids, type : {"start"}, size : {0}]
  <2>1. t.id \in Ids /\ t.type = "start" /\ t.size \in {0}
    BY <1>3
  <2>2. t.size \in Nat /\ t.size = 0
    BY <2>1
  <2> QED
    BY <1>1, <2>1, <2>2
<1>4. CASE t \in [id : Ids, type : {"fixed"}, size : Widths]
  <2>1. t.id \in Ids /\ t.type = "fixed" /\ t.size \in Widths
    BY <1>4
  <2> QED
    BY <1>1, <2>1
<1> QED
  BY <1>2, <1>3, <1>4 DEF Tokens

Fits(s, limit) == s = <<>> \/ Abstract!Judge(Len(s), limit) = None

Bounded == setup.elem \in {"text", "row"}

LEMMA SizedIs ==
    SizedWithinBounds
      <=> /\ setup.elem # "vector" => Fits(out, IndexLimit)
          /\ Bounded => \A i \in 1..Len(out) : Fits(out[i], ElementLimit)
          /\ Fits(name, NameLimit)
BY DEF SizedWithinBounds, Fits, Bounded

LEMMA SameLimits ==
    ASSUME UNCHANGED setup
    PROVE  IndexLimit' = IndexLimit /\ ElementLimit' = ElementLimit /\ NameLimit' = NameLimit
BY DEF IndexLimit, ElementLimit, NameLimit

\* The sizes are judged anew only for what has changed.
LEMMA SizedStep ==
    ASSUME Inductive, UNCHANGED setup,
           out' = out \/ /\ setup.elem # "vector" => Fits(out', IndexLimit)
                         /\ Bounded => \A i \in 1..Len(out') : Fits(out'[i], ElementLimit),
           name' = name \/ Fits(name', NameLimit)
    PROVE  SizedWithinBounds'
<1>1. /\ (setup.elem # "vector")' => Fits(out', IndexLimit')
      /\ Bounded' => \A i \in 1..Len(out') : Fits(out'[i], ElementLimit')
      /\ Fits(name', NameLimit')
  BY SizedIs, SameLimits DEF Inductive, Bounded
<1> QED
  BY <1>1 DEF SizedWithinBounds, Fits, Bounded

LEMMA OpensSkip ==
    ASSUME TypeOK, Nested, UNCHANGED <<setup, at, out>>,
           open' = open \/ open' = Append(open, "skip")
    PROVE  Nested' /\ open' \in Seq({"list", "elem", "skip"})
<1>1. CASE open' = open
  BY <1>1 DEF Nested, TypeOK
<1>2. CASE open' = Append(open, "skip")
  <2>1. /\ open' \in Seq({"list", "elem", "skip"}) /\ Len(open') = Len(open) + 1
        /\ \A i \in 1..Len(open') : open'[i] = IF i <= Len(open) THEN open[i] ELSE "skip"
    BY <1>2 DEF TypeOK
  <2>2. \A i \in 1..Len(open') : open'[i] # "skip" => i \in 1..Len(open) /\ open'[i] = open[i]
    BY <2>1 DEF TypeOK
  <2> QED
    BY <2>1, <2>2 DEF Nested
<1> QED
  BY <1>1, <1>2

LEMMA DeclineStep ==
    ASSUME Inductive, NEW t \in Tokens, UNCHANGED setup, Decline(t)
    PROVE  Inductive'
<1>1. UNCHANGED <<setup, out, name, at, refusal, invalid>> /\ target' = Nowhere /\ due' \in BOOLEAN
  BY DEF Decline, Payload
<1>2. SizedWithinBounds'
  BY <1>1, SizedStep
<1>3. Nested' /\ open' \in Seq({"list", "elem", "skip"})
  BY <1>1, OpensSkip DEF Decline, Inductive
<1>4. TypeOK'
  BY <1>1, <1>3 DEF TypeOK, Inductive, Nowhere
<1> QED
  BY <1>1, <1>2, <1>3, <1>4 DEF Inductive

LEMMA FirstIs ==
    ASSUME NEW a, NEW b
    PROVE  First(None, b) = b /\ (a # None => First(a, b) = a)
BY DEF First

\* A refusal: the container may have been given the row that is refused.
LEMMA LatchStep ==
    ASSUME Inductive, ~invalid, NEW c \in Categories, UNCHANGED <<setup, name>>, Latch(c),
           out' \in Seq(Seq(Nat)), Len(out') >= Len(out),
           out' = out \/ /\ setup.elem # "vector" => Fits(out', IndexLimit)
                         /\ Bounded => \A i \in 1..Len(out') : Fits(out'[i], ElementLimit)
    PROVE  Inductive'
<1>1. /\ UNCHANGED <<setup, name, open, at>> /\ target' = Nowhere /\ due' = FALSE
      /\ invalid' = TRUE /\ refusal' = c
  BY FirstIs DEF Latch, Inductive
<1>2. SizedWithinBounds'
  BY SizedStep
<1>3. Nested'
  BY <1>1 DEF Inductive, TypeOK, Nested
<1>4. TypeOK'
  BY <1>1 DEF TypeOK, Inductive, Nowhere, Categories
<1> QED
  BY <1>1, <1>2, <1>3, <1>4 DEF Inductive

\* A field that is taken: where its payload goes is there.
LEMMA BindStep ==
    ASSUME Inductive, NEW t \in Tokens, t.type # "start", UNCHANGED setup,
           NEW place, Bind(t, place),
           place \in {<<"name">>} \cup {<<"out", i>> : i \in 0..Len(out') - 1},
           out' \in Seq(Seq(Nat)), Len(out') >= Len(out), name' \in Seq(Nat),
           out' = out \/ /\ setup.elem # "vector" => Fits(out', IndexLimit)
                         /\ Bounded => \A i \in 1..Len(out') : Fits(out'[i], ElementLimit),
           name' = name \/ Fits(name', NameLimit)
    PROVE  Inductive'
<1>1. /\ UNCHANGED <<setup, open, at, refusal, invalid>> /\ due' = TRUE
      /\ target' \in {place, Nowhere}
  BY DEF Bind, Payload
<1>2. SizedWithinBounds'
  BY SizedStep
<1>3. Nested'
  BY <1>1 DEF Inductive, TypeOK, Nested
<1>4. TypeOK'
  BY <1>1 DEF TypeOK, Inductive, Nowhere
<1> QED
  BY <1>1, <1>2, <1>3, <1>4 DEF Inductive

\* The array begins.  No message was open in it.
LEMMA ReadSequenceStep ==
    ASSUME Inductive, ~due, NEW t \in Tokens, UNCHANGED setup, ReadSequence(t)
    PROVE  Inductive'
<1>1. CASE t.type # "start" /\ Decline(t)
  BY <1>1, DeclineStep
<1>2. CASE /\ t.type = "start"
           /\ out' = IF setup.elem = "vector" THEN out ELSE <<>>
           /\ open' = <<"list">>
           /\ Payload(t)
           /\ target' = Nowhere
           /\ UNCHANGED <<name, at, refusal, invalid>>
  <2>1. out' = out \/ out' = <<>>
    BY <1>2
  <2>2. SizedWithinBounds'
    BY <1>2, <2>1, SizedStep DEF Fits
  <2>3. /\ open' \in Seq({"list", "elem", "skip"})
        /\ Nested'
    BY <1>2 DEF Nested
  <2>4. TypeOK'
    BY <1>2, <2>1, <2>3 DEF TypeOK, Inductive, Nowhere, Payload
  <2> QED
    BY <1>2, <2>2, <2>3, <2>4 DEF Inductive
<1> QED
  BY <1>1, <1>2 DEF ReadSequence

LEMMA ReadStringStep ==
    ASSUME Inductive, ~invalid, NEW t \in Tokens, UNCHANGED setup, ReadString(t)
    PROVE  Inductive'
<1> DEFINE r == ReadRefusal(t.size, setup.nameMax, setup.nameCap, setup.nameCapacity)
<1>1. /\ t.size \in Nat /\ setup \in Setups /\ NameLimit \in Limit
      /\ name \in Seq(Nat) /\ out \in Seq(Seq(Nat)) /\ Len(out) \in Nat
  BY TokenType, LimitTypes DEF Inductive, TypeOK
<1>2. r = Abstract!Judge(t.size, NameLimit) /\ r \in Categories \cup {None}
  BY <1>1, NameVerdict, JudgeType
<1>3. \/ t.type # "text" /\ Decline(t)
      \/ /\ t.type = "text" /\ r # None
         /\ Latch(r)
         /\ UNCHANGED <<out, name>>
      \/ /\ t.type = "text" /\ r = None
         /\ name' = Resized(name, t.size)
         /\ Bind(t, <<"name">>)
         /\ UNCHANGED out
  BY DEF ReadString
<1> HIDE DEF r
<1>4. CASE t.type # "text" /\ Decline(t)
  BY <1>4, DeclineStep
<1>5. CASE r # None /\ Latch(r) /\ UNCHANGED <<out, name>>
  BY <1>1, <1>2, <1>5, LatchStep
<1>6. CASE /\ t.type = "text" /\ r = None
           /\ name' = Resized(name, t.size)
           /\ Bind(t, <<"name">>)
           /\ UNCHANGED out
  <2>1. name' \in Seq(Nat) /\ Len(name') = t.size
    BY <1>1, <1>6, ResizedType
  <2>2. Fits(name', NameLimit)
    BY <1>2, <1>6, <2>1 DEF Fits
  <2> QED
    <3>1. t.type # "start" /\ <<"name">> \in {<<"name">>} \cup {<<"out", i>> : i \in 0..Len(out') - 1}
      BY <1>6
    <3>2. out' \in Seq(Seq(Nat)) /\ Len(out') >= Len(out) /\ out' = out
      BY <1>1, <1>6
    <3> QED
      BY <1>6, <2>1, <2>2, <3>1, <3>2, BindStep
<1> QED
  BY <1>3, <1>4, <1>5, <1>6

\* What is added up to an index that was accepted is empty and within bounds.
LEMMA PlacedFits ==
    ASSUME Inductive, NEW id \in Nat, IndexRefusal(id) = None, setup.elem # "vector",
           NEW p \in Seq(Seq(Nat)),
           Len(p) = IF id < Len(out) THEN Len(out) ELSE id + 1,
           \A i \in 1..Len(p) : \/ i = id + 1 /\ Fits(p[i], ElementLimit)
                                \/ i <= Len(out) /\ p[i] = out[i]
                                \/ p[i] = DefaultElement
    PROVE  /\ Fits(p, IndexLimit)
           /\ Bounded => \A i \in 1..Len(p) : Fits(p[i], ElementLimit)
           /\ Len(p) >= Len(out)
           /\ id \in 0..Len(p) - 1
<1>1. setup \in Setups /\ Len(out) \in Nat /\ IndexLimit \in Limit
  BY LimitTypes DEF Inductive, TypeOK
<1>2. Len(p) >= Len(out) /\ id \in 0..Len(p) - 1
  BY <1>1
<1>3. Abstract!Judge(id + 1, IndexLimit) = None
  BY <1>1, IndexVerdict
<1>4. Fits(p, IndexLimit)
  <2>1. CASE id < Len(out)
    <3>1. out # <<>> /\ Len(p) = Len(out)
      BY <1>1, <2>1
    <3>2. Abstract!Judge(Len(out), IndexLimit) = None
      BY <3>1, SizedIs DEF Inductive, Fits
    <3> QED
      BY <3>1, <3>2 DEF Fits
  <2>2. CASE ~(id < Len(out))
    BY <2>2, <1>3 DEF Fits
  <2> QED
    BY <2>1, <2>2
<1>5. ASSUME Bounded, NEW i \in 1..Len(p)
      PROVE  Fits(p[i], ElementLimit)
  <2>1. DefaultElement = <<>>
    BY <1>5 DEF Bounded, DefaultElement
  <2>2. \A j \in 1..Len(out) : Fits(out[j], ElementLimit)
    BY <1>5, SizedIs DEF Inductive
  <2> QED
    BY <2>1, <2>2 DEF Fits
<1> QED
  BY <1>2, <1>4, <1>5

\* The two facts each placement needs: a bounded kind is not a vector, and a
\* length that was judged fits.
LEMMA ResizedFits ==
    ASSUME TypeOK, NEW s \in Seq(Nat), NEW n \in Nat, Abstract!Judge(n, ElementLimit) = None
    PROVE  Resized(s, n) \in Seq(Nat) /\ Fits(Resized(s, n), ElementLimit)
BY ResizedType DEF Fits

\* An element with its payload: placed in the container, bound where it is.
LEMMA PlaceAndBindStep ==
    ASSUME Inductive, NEW t \in Tokens, t.type # "start", UNCHANGED <<setup, name>>,
           setup.elem # "vector", IndexRefusal(t.id) = None,
           NEW e \in Seq(Nat), Fits(e, ElementLimit),
           out' = [Grown(t.id) EXCEPT ![t.id + 1] = e],
           Bind(t, <<"out", t.id>>)
    PROVE  Inductive'
<1>1. TypeOK /\ t.id \in Nat
  BY TokenType DEF Inductive
<1> DEFINE p == [Grown(t.id) EXCEPT ![t.id + 1] = e]
<1>2. /\ p \in Seq(Seq(Nat))
      /\ Len(p) = IF t.id < Len(out) THEN Len(out) ELSE t.id + 1
      /\ \A i \in 1..Len(p) :
            p[i] = IF i = t.id + 1 THEN e
                   ELSE IF i <= Len(out) THEN out[i] ELSE DefaultElement
  BY <1>1, PlacedType
<1>3. out' = p
  OBVIOUS
<1> HIDE DEF p
<1>4. /\ Fits(p, IndexLimit)
      /\ Bounded => \A i \in 1..Len(p) : Fits(p[i], ElementLimit)
      /\ Len(p) >= Len(out)
      /\ t.id \in 0..Len(p) - 1
  BY <1>1, <1>2, PlacedFits
<1>5. <<"out", t.id>> \in {<<"name">>} \cup {<<"out", i>> : i \in 0..Len(p) - 1}
  BY <1>4
<1>6. name' \in Seq(Nat) /\ name' = name
  BY <1>1 DEF TypeOK
<1> QED
  BY <1>2, <1>3, <1>4, <1>5, <1>6, BindStep

LEMMA GrownFits ==
    ASSUME Inductive, NEW id \in Nat, setup.elem # "vector", IndexRefusal(id) = None
    PROVE  /\ Grown(id) \in Seq(Seq(Nat))
           /\ Fits(Grown(id), IndexLimit)
           /\ Bounded => \A i \in 1..Len(Grown(id)) : Fits(Grown(id)[i], ElementLimit)
           /\ Len(Grown(id)) >= Len(out)
           /\ id \in 0..Len(Grown(id)) - 1
<1> DEFINE p == Grown(id)
<1>1. /\ p \in Seq(Seq(Nat))
      /\ Len(p) = IF id < Len(out) THEN Len(out) ELSE id + 1
      /\ \A i \in 1..Len(p) : p[i] = IF i <= Len(out) THEN out[i] ELSE DefaultElement
  BY GrownType DEF Inductive
<1> HIDE DEF p
<1>2. \A i \in 1..Len(p) : \/ i = id + 1 /\ Fits(p[i], ElementLimit)
                           \/ i <= Len(out) /\ p[i] = out[i]
                           \/ p[i] = DefaultElement
  BY <1>1
<1>3. /\ Fits(p, IndexLimit)
      /\ Bounded => \A i \in 1..Len(p) : Fits(p[i], ElementLimit)
      /\ Len(p) >= Len(out)
      /\ id \in 0..Len(p) - 1
  BY <1>1, <1>2, PlacedFits
<1> QED
  BY <1>1, <1>3 DEF p

LEMMA TextStep ==
    ASSUME Inductive, ~invalid, NEW t \in Tokens, UNCHANGED <<setup, name>>,
           IndexRefusal(t.id) = None, t.type = "text", setup.elem = "text", ~setup.inline,
           TextElement(t)
    PROVE  Inductive'
<1> DEFINE r == RefuseBound(t.size, setup.elemMax, setup.dynElemMax)
<1>1. /\ t.size \in Nat /\ t.id \in Nat /\ setup \in Setups /\ ElementLimit \in Limit
      /\ out \in Seq(Seq(Nat)) /\ Len(out) \in Nat
  BY TokenType, LimitTypes DEF Inductive, TypeOK
<1>2. r = Abstract!Judge(t.size, ElementLimit) /\ r \in Categories \cup {None}
  BY <1>1, TextVerdict, JudgeType
<1>3. IF r # None
      THEN Latch(r) /\ UNCHANGED out
      ELSE /\ out' = [Grown(t.id) EXCEPT ![t.id + 1] = Resized(<<>>, t.size)]
           /\ Bind(t, <<"out", t.id>>)
  BY DEF TextElement
<1> HIDE DEF r
<1>4. CASE r # None
  BY <1>1, <1>2, <1>3, <1>4, LatchStep
<1>5. CASE r = None
  <2>1. <<>> \in Seq(Nat)
    OBVIOUS
  <2>2. Resized(<<>>, t.size) \in Seq(Nat) /\ Fits(Resized(<<>>, t.size), ElementLimit)
    BY <1>1, <1>2, <1>5, <2>1, ResizedFits DEF Inductive
  <2> QED
    BY <1>3, <1>5, <2>2, PlaceAndBindStep
<1> QED
  BY <1>4, <1>5

LEMMA RowStep ==
    ASSUME Inductive, ~invalid, NEW t \in Tokens, UNCHANGED <<setup, name>>,
           IndexRefusal(t.id) = None, t.type = "row", setup.elem = "row", RowElement(t)
    PROVE  Inductive'
<1> DEFINE r == RowRefusal(t.size)
<1>1. /\ t.size \in Nat /\ t.id \in Nat /\ setup \in Setups /\ ElementLimit \in Limit
      /\ out \in Seq(Seq(Nat)) /\ Len(out) \in Nat
  BY TokenType, LimitTypes DEF Inductive, TypeOK
<1>2. r = Abstract!Judge(t.size, ElementLimit) /\ r \in Categories \cup {None}
  BY <1>1, RowVerdict, JudgeType
<1>3. IF r # None
      THEN out' = Grown(t.id) /\ Latch(r)
      ELSE /\ out' = [Grown(t.id) EXCEPT ![t.id + 1] = Resized(Grown(t.id)[t.id + 1], t.size)]
           /\ Bind(t, <<"out", t.id>>)
  BY DEF RowElement
<1> HIDE DEF r
<1>4. CASE r # None
  <2>1. /\ out' \in Seq(Seq(Nat)) /\ Fits(out', IndexLimit)
        /\ Bounded => \A i \in 1..Len(out') : Fits(out'[i], ElementLimit)
        /\ Len(out') >= Len(out)
    BY <1>1, <1>3, <1>4, GrownFits
  <2> QED
    BY <1>2, <1>3, <1>4, <2>1, LatchStep
<1>5. CASE r = None
  <2>1. Grown(t.id)[t.id + 1] \in Seq(Nat)
    BY <1>1, PlaceOf DEF Inductive
  <2> DEFINE e == Resized(Grown(t.id)[t.id + 1], t.size)
  <2>2. e \in Seq(Nat) /\ Fits(e, ElementLimit)
    BY <1>1, <1>2, <1>5, <2>1, ResizedFits DEF Inductive
  <2>3. out' = [Grown(t.id) EXCEPT ![t.id + 1] = e] /\ Bind(t, <<"out", t.id>>)
    BY <1>3, <1>5
  <2> HIDE DEF e
  <2> QED
    BY <2>2, <2>3, PlaceAndBindStep
<1> QED
  BY <1>4, <1>5

\* Inline text that is too long is cut to the capacity, and the decoder stops.
LEMMA FixedTextStep ==
    ASSUME Inductive, ~invalid, NEW t \in Tokens, UNCHANGED <<setup, name>>,
           IndexRefusal(t.id) = None, t.type = "text", setup.elem = "text", setup.inline,
           FixedTextElement(t)
    PROVE  Inductive'
<1> DEFINE c == setup.elemCapacity
           old == Grown(t.id)[t.id + 1]
<1>1. /\ t.size \in Nat /\ t.id \in Nat /\ setup \in Setups /\ ElementLimit \in Limit
      /\ out \in Seq(Seq(Nat)) /\ Len(out) \in Nat /\ TypeOK
  BY TokenType, LimitTypes DEF Inductive, TypeOK
<1>2. /\ c \in Nat
      /\ \A n \in Nat : Abstract!Judge(n, ElementLimit) = IF n > c THEN "invalid" ELSE None
  BY <1>1, TextVerdict
<1>3. old \in Seq(Nat)
  BY <1>1, PlaceOf
<1>4. CASE t.size > c
  <2> DEFINE e == Resized(old, c)
             p == [Grown(t.id) EXCEPT ![t.id + 1] = e]
  <2>1. e \in Seq(Nat) /\ Fits(e, ElementLimit)
    <3>1. Abstract!Judge(c, ElementLimit) = None
      BY <1>2
    <3> QED
      BY <1>1, <1>2, <1>3, <3>1, ResizedFits
  <2>2. /\ out' = p
        /\ invalid' = TRUE /\ due' = FALSE /\ target' = Nowhere
        /\ UNCHANGED <<open, at, refusal>>
    BY <1>4 DEF FixedTextElement
  <2> HIDE DEF e
  <2>3. /\ p \in Seq(Seq(Nat))
        /\ Len(p) = IF t.id < Len(out) THEN Len(out) ELSE t.id + 1
        /\ \A i \in 1..Len(p) :
              p[i] = IF i = t.id + 1 THEN e
                     ELSE IF i <= Len(out) THEN out[i] ELSE DefaultElement
    BY <1>1, <2>1, PlacedType
  <2> HIDE DEF p
  <2>4. /\ Fits(p, IndexLimit)
        /\ Bounded => \A i \in 1..Len(p) : Fits(p[i], ElementLimit)
        /\ Len(p) >= Len(out)
    BY <1>1, <2>1, <2>3, PlacedFits
  <2>5. SizedWithinBounds'
    BY <2>2, <2>4, SizedStep
  <2>6. Nested'
    BY <1>1, <2>2, <2>3, <2>4 DEF Inductive, TypeOK, Nested
  <2>7. TypeOK'
    BY <2>2, <2>3 DEF TypeOK, Inductive, Nowhere
  <2> QED
    BY <2>2, <2>5, <2>6, <2>7 DEF Inductive
<1>5. CASE ~(t.size > c)
  <2> DEFINE e == Resized(old, t.size)
  <2>1. e \in Seq(Nat) /\ Fits(e, ElementLimit)
    BY <1>1, <1>2, <1>3, <1>5, ResizedFits
  <2>2. out' = [Grown(t.id) EXCEPT ![t.id + 1] = e] /\ Bind(t, <<"out", t.id>>)
    BY <1>5 DEF FixedTextElement
  <2> HIDE DEF e
  <2> QED
    BY <2>1, <2>2, PlaceAndBindStep
<1> QED
  BY <1>4, <1>5

LEMMA MessageStep ==
    ASSUME Inductive, ~due, NEW t \in Tokens, UNCHANGED <<setup, name>>, Here = "list",
           IndexRefusal(t.id) = None, setup.elem = "message", MessageElement(t)
    PROVE  Inductive'
<1>1. /\ t.id \in Nat /\ open \in Seq({"list", "elem", "skip"}) /\ Len(open) \in Nat
  BY TokenType DEF Inductive, TypeOK
<1>2. /\ out' = Grown(t.id) /\ open' = Append(open, "elem") /\ at' = t.id
      /\ due' \in BOOLEAN /\ target' = Nowhere /\ UNCHANGED <<setup, name, refusal, invalid>>
  BY DEF MessageElement, Payload
<1>3. /\ out' \in Seq(Seq(Nat)) /\ Fits(out', IndexLimit)
      /\ Bounded => \A i \in 1..Len(out') : Fits(out'[i], ElementLimit)
      /\ t.id \in 0..Len(out') - 1 /\ Len(out') \in Nat
  BY <1>1, <1>2, GrownFits
<1>4. SizedWithinBounds'
  BY <1>2, <1>3, SizedStep
<1>5. Len(open) = 1
  <2>1. open # <<>> /\ open[Len(open)] = "list"
    BY DEF Here, Last
  <2>2. Len(open) \in 1..Len(open)
    BY <1>1, <2>1
  <2> QED
    BY <2>1, <2>2 DEF Inductive, Nested
<1>6. /\ open' \in Seq({"list", "elem", "skip"}) /\ Len(open') = 2
      /\ open'[1] = open[1] /\ open'[2] = "elem"
  BY <1>1, <1>2, <1>5
<1>7. open[1] = "list" /\ at' < Len(out')
  BY <1>1, <1>2, <1>3, <1>5 DEF Here, Last
<1>8. Nested'
  BY <1>2, <1>6, <1>7 DEF Nested
<1>9. TypeOK'
  BY <1>1, <1>2, <1>3, <1>6 DEF TypeOK, Inductive, Nowhere
<1> QED
  BY <1>2, <1>4, <1>8, <1>9 DEF Inductive

LEMMA ElementStep ==
    ASSUME Inductive, ~invalid, ~due, NEW t \in Tokens, UNCHANGED setup, Element(t)
    PROVE  Inductive'
<1>1. /\ t.id \in Nat /\ setup \in Setups /\ IndexLimit \in Limit
      /\ out \in Seq(Seq(Nat)) /\ Len(out) \in Nat
  BY TokenType, LimitTypes DEF Inductive, TypeOK
<1>2. CASE t.type # WireOfElement /\ Decline(t)
  BY <1>2, DeclineStep
<1>3. CASE IndexRefusal(t.id) # None /\ Latch(IndexRefusal(t.id)) /\ UNCHANGED <<out, name>>
  <2>1. IndexRefusal(t.id) \in Categories
    BY <1>1, <1>3, IndexVerdict, JudgeType
  <2> QED
    BY <1>1, <1>3, <2>1, LatchStep
<1>4. CASE t.type = WireOfElement /\ IndexRefusal(t.id) = None /\ PlaceElement(t) /\ UNCHANGED name
  BY <1>4, TextStep, RowStep, FixedTextStep, MessageStep DEF PlaceElement, Element, WireOfElement
<1> QED
  BY <1>2, <1>3, <1>4 DEF Element

\* A vector of strings grows by an element per field.
LEMMA AppendedStep ==
    ASSUME Inductive, ~due, NEW t \in Tokens, UNCHANGED setup, Appended(t)
    PROVE  Inductive'
<1> DEFINE n == IF t.type \in {"text", "fixed"} THEN t.size ELSE 0
<1>1. /\ n \in Nat /\ out \in Seq(Seq(Nat)) /\ Len(out) \in Nat /\ <<>> \in Seq(Nat)
  BY TokenType DEF Inductive, TypeOK
<1>2. /\ out' = Append(out, Resized(<<>>, n))
      /\ target' = IF t.type = "text" /\ n > 0 THEN <<"out", Len(out)>> ELSE Nowhere
      /\ open' = open \/ open' = Append(open, "skip")
      /\ UNCHANGED <<setup, name, at, refusal, invalid>>
      /\ due' = (t.type # "start")
      /\ setup.elem = "vector" /\ Here = "list"
  BY DEF Appended, Payload
<1> HIDE DEF n
<1>3. Resized(<<>>, n) \in Seq(Nat)
  BY <1>1, ResizedType
<1>4. out' \in Seq(Seq(Nat)) /\ Len(out') = Len(out) + 1
  BY <1>1, <1>2, <1>3
<1>5. SizedWithinBounds'
  BY <1>2, SizedStep DEF Bounded
<1>6. open' \in Seq({"list", "elem", "skip"})
  <2>1. open \in Seq({"list", "elem", "skip"}) /\ "skip" \in {"list", "elem", "skip"}
    BY DEF Inductive, TypeOK
  <2>2. Append(open, "skip") \in Seq({"list", "elem", "skip"})
    BY <2>1
  <2> QED
    BY <1>2, <2>1, <2>2
<1>7. Nested'
  <2>1. \A i \in 1..Len(open') : open'[i] # "skip" => i \in 1..Len(open) /\ open'[i] = open[i]
    <3>1. CASE open' = open
      BY <3>1
    <3>2. CASE open' = Append(open, "skip")
      <4>1. /\ open \in Seq({"list", "elem", "skip"}) /\ Len(open) \in Nat
            /\ Len(open') = Len(open) + 1
            /\ \A i \in 1..Len(open') : open'[i] = IF i <= Len(open) THEN open[i] ELSE "skip"
        BY <3>2 DEF Inductive, TypeOK
      <4> QED
        BY <4>1
    <3> QED
      BY <1>2, <3>1, <3>2
  <2>2. \A i \in 1..Len(open) : open[i] # "elem"
    BY <1>2 DEF Inductive, Nested
  <2> QED
    BY <2>1, <2>2 DEF Inductive, Nested
<1>8. target' \in {Nowhere} \cup {<<"out", i>> : i \in 0..Len(out') - 1}
  BY <1>1, <1>2, <1>4
<1>9. TypeOK'
  BY <1>2, <1>4, <1>6, <1>8 DEF TypeOK, Inductive
<1>10. target' # Nowhere => due'
  <2>1. target' # Nowhere => t.type = "text"
    BY <1>2
  <2> QED
    BY <1>2, <2>1
<1> QED
  BY <1>2, <1>5, <1>7, <1>9, <1>10 DEF Inductive

\* The message that is open has its place.
LEMMA OpenElement ==
    ASSUME Inductive, Here = "elem"
    PROVE  /\ setup.elem = "message" /\ at < Len(out) /\ Len(open) = 2
           /\ at \in 0..Len(out) - 1
<1>1. open # <<>> /\ open[Len(open)] = "elem" /\ open \in Seq({"list", "elem", "skip"})
  BY DEF Here, Last, Inductive, TypeOK
<1>2. Len(open) \in 1..Len(open)
  BY <1>1
<1>3. at \in Nat /\ Len(out) \in Nat
  BY DEF Inductive, TypeOK
<1>4. Len(open) = 2 /\ setup.elem = "message" /\ at < Len(out)
  BY <1>1, <1>2 DEF Inductive, Nested
<1> QED
  BY <1>3, <1>4

LEMMA ElementFieldStep ==
    ASSUME Inductive, ~due, NEW t \in Tokens, UNCHANGED setup, ElementField(t)
    PROVE  Inductive'
<1>1. CASE Decline(t)
  BY <1>1, DeclineStep
<1>2. CASE t.type = "num" /\ Bind(t, <<"out", at>>) /\ UNCHANGED <<out, name>>
  <2>1. /\ out' \in Seq(Seq(Nat)) /\ Len(out') >= Len(out) /\ out' = out
        /\ name' \in Seq(Nat) /\ name' = name
    BY <1>2 DEF Inductive, TypeOK
  <2>2. <<"out", at>> \in {<<"name">>} \cup {<<"out", i>> : i \in 0..Len(out) - 1}
    BY OpenElement DEF ElementField
  <2>3. t.type # "start"
    BY <1>2
  <2> QED
    BY <1>2, <2>1, <2>2, <2>3, BindStep
<1> QED
  BY <1>1, <1>2 DEF ElementField

LEMMA HeaderStep ==
    ASSUME Inductive, NEW t \in Tokens, Header(t)
    PROVE  Inductive'
<1>1. UNCHANGED setup /\ ~invalid /\ ~due
  BY DEF Header
<1>2. CASE InSkipped(t)
  BY <1>1, <1>2, DeclineStep DEF InSkipped
<1>3. CASE Unknown(t)
  BY <1>1, <1>3, DeclineStep DEF Unknown
<1> QED
  BY <1>1, <1>2, <1>3, ReadSequenceStep, ReadStringStep, ElementStep, AppendedStep,
     ElementFieldStep DEF Header

-----------------------------------------------------------------------------
(* The payload.                                                            *)

LEMMA FitsSameLength ==
    ASSUME NEW S, NEW s \in Seq(S), NEW r \in Seq(S), Len(r) = Len(s), NEW limit, Fits(s, limit)
    PROVE  Fits(r, limit)
<1>1. CASE s = <<>>
  <2>1. Len(r) = 0
    BY <1>1
  <2> QED
    BY <2>1, EmptySeq DEF Fits
<1> QED
  BY <1>1 DEF Fits

LEMMA FilledType ==
    ASSUME Inductive, NEW v \in Values, Fill(v)
    PROVE  /\ out' \in Seq(Seq(Nat)) /\ Len(out') = Len(out)
           /\ \A i \in 1..Len(out) :
                 /\ out'[i] \in Seq(Nat) /\ Len(out'[i]) = Len(out[i])
                 /\ out'[i] = IF target = <<"out", i - 1>> THEN [b \in 1..Len(out[i]) |-> v]
                              ELSE out[i]
           /\ name' \in Seq(Nat) /\ Len(name') = Len(name)
<1>1. out \in Seq(Seq(Nat)) /\ Len(out) \in Nat /\ name \in Seq(Nat) /\ v \in Nat
  BY CollectorsAssumption DEF Inductive, TypeOK
<1>2. ASSUME NEW s \in Seq(Nat)
      PROVE  [b \in 1..Len(s) |-> v] \in Seq(Nat) /\ Len([b \in 1..Len(s) |-> v]) = Len(s)
  BY <1>1
<1> DEFINE e(i) == IF target = <<"out", i - 1>> THEN [b \in 1..Len(out[i]) |-> v] ELSE out[i]
<1>3. \A i \in 1..Len(out) : e(i) \in Seq(Nat) /\ Len(e(i)) = Len(out[i])
  BY <1>1, <1>2
<1>4. out' = [i \in 1..Len(out) |-> e(i)]
  BY DEF Fill
<1>5. name' \in Seq(Nat) /\ Len(name') = Len(name)
  BY <1>1, <1>2 DEF Fill
<1> HIDE DEF e
<1>6. /\ out' \in Seq(Seq(Nat)) /\ Len(out') = Len(out)
      /\ \A i \in 1..Len(out) : out'[i] = e(i)
  BY <1>1, <1>3, <1>4
<1> QED
  BY <1>3, <1>5, <1>6 DEF e

LEMMA FillStep ==
    ASSUME Inductive, NEW v \in Values, Fill(v)
    PROVE  Inductive'
<1>1. /\ UNCHANGED <<setup, open, at, refusal, invalid>> /\ due' = FALSE /\ target' = Nowhere
  BY DEF Fill
<1>2. /\ out' \in Seq(Seq(Nat)) /\ Len(out') = Len(out)
      /\ \A i \in 1..Len(out) : out'[i] \in Seq(Nat) /\ Len(out'[i]) = Len(out[i])
      /\ name' \in Seq(Nat) /\ Len(name') = Len(name)
  BY FilledType
<1>3. TypeOK'
  BY <1>1, <1>2 DEF Inductive, TypeOK, Nowhere
<1>4. Nested'
  BY <1>1, <1>2 DEF Inductive, Nested
<1>5. out \in Seq(Seq(Nat)) /\ name \in Seq(Nat) /\ Len(out) \in Nat
  BY DEF Inductive, TypeOK
<1>6. Fits(name', NameLimit)
  BY <1>2, <1>5, SizedIs, FitsSameLength DEF Inductive
<1>7. setup.elem # "vector" => Fits(out', IndexLimit)
  BY <1>2, <1>5, SizedIs, FitsSameLength DEF Inductive
<1>8. Bounded => \A i \in 1..Len(out') : Fits(out'[i], ElementLimit)
  <2>1. ASSUME Bounded, NEW i \in 1..Len(out)
        PROVE  Fits(out'[i], ElementLimit)
    <3>1. out[i] \in Seq(Nat) /\ Fits(out[i], ElementLimit)
      BY <1>5, <2>1, SizedIs DEF Inductive
    <3> QED
      BY <1>2, <3>1, FitsSameLength
  <2> QED
    BY <1>2, <2>1
<1>9. SizedWithinBounds'
  BY <1>1, <1>6, <1>7, <1>8, SizedStep
<1> QED
  BY <1>1, <1>3, <1>4, <1>9 DEF Inductive

LEMMA SequenceEndStep == Inductive /\ SequenceEnd => Inductive'
<1> SUFFICES ASSUME Inductive, SequenceEnd
             PROVE  Inductive'
  OBVIOUS
<1>1. /\ open # <<>> /\ open' = Front(open)
      /\ UNCHANGED <<setup, out, name, at, due, target, refusal, invalid>>
      /\ open \in Seq({"list", "elem", "skip"})
  BY DEF SequenceEnd, Inductive, TypeOK
<1>2. Len(open) \in Nat \ {0}
  BY <1>1, EmptySeq
<1>3. /\ open' \in Seq({"list", "elem", "skip"}) /\ Len(open') = Len(open) - 1
      /\ \A i \in 1..Len(open) - 1 : open'[i] = open[i]
  <2> DEFINE n == Len(open) - 1
  <2>1. n \in Nat /\ Len(open) = n + 1
    BY <1>2
  <2> HIDE DEF n
  <2>2. /\ Front(open) \in Seq({"list", "elem", "skip"}) /\ Len(Front(open)) = n
        /\ \A i \in 1..n : Front(open)[i] = open[i]
    BY <1>1, <2>1 DEF Front
  <2> QED
    BY <1>1, <2>2 DEF n
<1>4. SizedWithinBounds'
  BY <1>1, SizedStep
<1>5. Nested'
  BY <1>1, <1>2, <1>3 DEF Inductive, Nested
<1>6. TypeOK'
  BY <1>1, <1>3 DEF Inductive, TypeOK
<1> QED
  BY <1>1, <1>4, <1>5, <1>6 DEF Inductive

LEMMA SameState ==
    ASSUME Inductive,
           UNCHANGED <<setup, out, name, open, at, due, target, refusal, invalid>>
    PROVE  Inductive'
<1>1. SizedWithinBounds'
  BY SizedStep
<1>2. TypeOK' /\ Nested'
  BY DEF Inductive, TypeOK, Nested
<1> QED
  BY <1>1, <1>2 DEF Inductive

LEMMA NextInductive == Inductive /\ [Next]_vars => Inductive'
<1>1. CASE UNCHANGED vars
  BY <1>1, SameState DEF vars
<1>2. CASE FeedReturns
  BY <1>2, SameState DEF FeedReturns
<1>3. ASSUME NEW t \in Tokens, Header(t)
      PROVE  Inductive => Inductive'
  BY <1>3, HeaderStep
<1>4. ASSUME NEW v \in Values, Fill(v)
      PROVE  Inductive => Inductive'
  BY <1>4, FillStep
<1> QED
  BY <1>1, <1>2, <1>3, <1>4, SequenceEndStep DEF Next

LEMMA InitInductive == Init => Inductive
<1> SUFFICES ASSUME Init
             PROVE  Inductive
  OBVIOUS
<1>1. TypeOK
  <2>1. <<>> \in Seq(Seq(Nat)) /\ <<>> \in Seq(Nat) /\ <<>> \in Seq({"list", "elem", "skip"})
    OBVIOUS
  <2>2. target \in {Nowhere, <<"name">>} \cup {<<"out", i>> : i \in 0..Len(out) - 1}
    BY DEF Init
  <2>3. at \in Nat /\ due \in BOOLEAN /\ invalid \in BOOLEAN
    BY DEF Init
  <2> QED
    BY <2>1, <2>2, <2>3 DEF Init, TypeOK
<1>3. Nested
  <2>1. open = <<>> /\ Len(open) = 0
    BY DEF Init
  <2> QED
    BY <2>1 DEF Nested
<1>2. SizedWithinBounds
  BY SizedIs DEF Init, Fits
<1> QED
  BY <1>1, <1>2, <1>3 DEF Init, Inductive, Nowhere, None

\* The strengthened invariant of the collectors.
THEOREM InductiveHolds == Spec => []Inductive
BY InitInductive, NextInductive, PTL DEF Spec

\* No length, count or index on the wire sizes the string, the container of a
\* collector or an element of it beyond what the schema, the deployment or the
\* type allows.  Of a vector that is read without a collector it says only
\* that the string beside it is bounded: no bound applies to the vector.
THEOREM SizedWithin == Spec => []SizedWithinBounds
<1>1. Inductive => SizedWithinBounds
  BY DEF Inductive
<1> QED
  BY <1>1, InductiveHolds, PTL

-----------------------------------------------------------------------------
(* The container grows only when nothing points into it.                   *)

LEMMA ListIsOutermost ==
    ASSUME Inductive, Here = "list"
    PROVE  "elem" \notin ToSet(open)
<1>1. open # <<>> /\ open[Len(open)] = "list" /\ open \in Seq({"list", "elem", "skip"})
  BY DEF Here, Last, Inductive, TypeOK
<1>2. Len(open) \in 1..Len(open)
  BY <1>1
<1>3. Len(open) = 1
  BY <1>1, <1>2 DEF Inductive, Nested
<1> QED
  BY <1>1, <1>3 DEF ToSet

LEMMA GrowthStep ==
    Inductive /\ [Next]_vars
      => (Len(out') > Len(out) => target = Nowhere /\ "elem" \notin ToSet(open))
<1> SUFFICES ASSUME Inductive, [Next]_vars, Len(out') > Len(out)
             PROVE  target = Nowhere /\ "elem" \notin ToSet(open)
  OBVIOUS
<1>1. out' # out
  BY DEF Inductive, TypeOK
<1>2. PICK t \in Tokens : Header(t)
  <2>1. ASSUME NEW v \in Values, Fill(v)
        PROVE  FALSE
    BY <2>1, FilledType DEF Inductive, TypeOK
  <2> QED
    BY <1>1, <2>1 DEF Next, vars, SequenceEnd, FeedReturns
<1>3. target = Nowhere
  BY <1>2 DEF Header, Inductive
<1>4. CASE Here = "list"
  BY <1>3, <1>4, ListIsOutermost
<1>5. CASE ReadSequence(t)
  <2>1. open = <<>>
    <3>1. Here = "root"
      BY <1>5 DEF ReadSequence
    <3>2. open # <<>> => open[Len(open)] \in {"list", "elem", "skip"}
      BY DEF Inductive, TypeOK
    <3> QED
      BY <3>1, <3>2 DEF Here, Last
  <2> QED
    BY <1>3, <2>1 DEF ToSet
<1> QED
  BY <1>1, <1>2, <1>4, <1>5
  DEF Header, InSkipped, Unknown, ReadString, Element, Appended, ElementField, Decline

\* While the decoder holds the address of an element it is to fill, or of a
\* message it is in, the container does not grow and so does not move.
THEOREM TargetsHold == Spec => TargetsStayPut
<1>1. Inductive /\ [Next]_vars
        => [Len(out') > Len(out) => target = Nowhere /\ "elem" \notin ToSet(open)]_vars
  BY GrowthStep
<1> QED
  BY <1>1, InductiveHolds, PTL DEF Spec, TargetsStayPut

-----------------------------------------------------------------------------
(* The collectors implement the array of module ElementArray.              *)

ListOf(o, place) ==
    [i \in 0..Len(o) - 1 |->
        IF place = <<"out", i>> /\ setup.elem # "message" THEN Masked(o[i + 1]) ELSE o[i + 1]]

NameOf(s, place) == IF place = <<"name">> THEN Masked(s) ELSE s

LEMMA ValueIs == Value = [list |-> ListOf(out, target), name |-> NameOf(name, target)]
BY DEF Value, ListOf, NameOf

LEMMA ValueNext ==
    ASSUME UNCHANGED setup
    PROVE  Value' = [list |-> ListOf(out', target'), name |-> NameOf(name', target')]
BY DEF Value, ListOf, NameOf, Masked

\* Between payloads the value is what is stored.
LEMMA SettledValue ==
    ASSUME TypeOK, target = Nowhere
    PROVE  /\ Value.list = [i \in 0..Len(out) - 1 |-> out[i + 1]]
           /\ Value.name = name
           /\ DOMAIN Value.list = 0..Len(out) - 1
           /\ Cardinality(DOMAIN Value.list) = Len(out)
<1>1. Nowhere # <<"name">> /\ \A i : Nowhere # <<"out", i>>
  BY DEF Nowhere
<1>2. /\ Value.list = [i \in 0..Len(out) - 1 |-> out[i + 1]]
      /\ Value.name = name
  BY <1>1, ValueIs DEF ListOf, NameOf
<1>3. Len(out) \in Nat
  BY DEF TypeOK
<1>4. Cardinality(0..Len(out) - 1) = Len(out)
  <2> DEFINE n == Len(out)
  <2>1. n \in Nat /\ n - 1 \in Int /\ (0 > n - 1 => n = 0)
    BY <1>3
  <2> HIDE DEF n
  <2>2. Cardinality(0..n - 1) = IF 0 > n - 1 THEN 0 ELSE n - 1 - 0 + 1
    BY <2>1, FS_Interval
  <2> QED
    BY <2>1, <2>2 DEF n
<1> QED
  BY <1>2, <1>4

LEMMA SameValue ==
    ASSUME UNCHANGED <<setup, out, name, target>>
    PROVE  UNCHANGED <<Value, Limits, setup.elem>>
BY ValueIs, ValueNext, SameLimits DEF Limits, ListOf, NameOf

LEMMA StandingIs ==
    ASSUME Inductive
    PROVE  Standing = "none" <=> ~invalid
BY DEF Inductive, Standing, None, TypeOK

LEMMA SameStanding ==
    ASSUME UNCHANGED <<refusal, invalid>>
    PROVE  Standing' = Standing
BY DEF Standing

LEMMA InitArray == Init => Abstract!Init
<1> SUFFICES ASSUME Init
             PROVE  Abstract!Init
  OBVIOUS
<1>1. Len(out) = 0 /\ 0..Len(out) - 1 = {} /\ target = Nowhere /\ name = <<>>
  BY DEF Init
<1>2. Value.list = <<>> /\ Value.name = <<>>
  BY <1>1, ValueIs DEF ListOf, NameOf, Nowhere
<1>3. Value = [list |-> <<>>, name |-> <<>>]
  BY <1>2, ValueIs
<1>4. Standing = "none"
  BY DEF Init, Standing, None
<1> QED
  BY <1>3, <1>4 DEF Init, Abstract!Init, Nowhere, None, Marker

LEMMA ReportImplements == Inductive /\ FeedReturns => Abstract!Report
<1> SUFFICES ASSUME Inductive, FeedReturns
             PROVE  Abstract!Report
  OBVIOUS
<1>1. UNCHANGED <<Value, Limits, setup.elem, Standing>>
  BY SameValue, SameStanding DEF FeedReturns
<1>2. report' = IF Standing # "none" THEN Standing
                ELSE IF due \/ open # <<>> THEN "incomplete" ELSE "ok"
  BY DEF FeedReturns, Standing, None
<1> QED
  BY <1>1, <1>2 DEF Abstract!Report, FeedReturns

LEMMA CloseImplements == Inductive /\ SequenceEnd => Abstract!Close
<1> SUFFICES ASSUME Inductive, SequenceEnd
             PROVE  Abstract!Close
  OBVIOUS
<1>1. UNCHANGED <<Value, Limits, setup.elem, Standing>>
  BY SameValue, SameStanding DEF SequenceEnd
<1>2. Standing = "none"
  BY StandingIs DEF SequenceEnd
<1> QED
  BY <1>1, <1>2 DEF Abstract!Close, Abstract!Front, Front, SequenceEnd, Marker

LEMMA RecordUpdates ==
    ASSUME NEW r, NEW l, NEW n, r = [list |-> l, name |-> n], NEW x, NEW j
    PROVE  /\ [r EXCEPT !.list = x] = [list |-> x, name |-> r.name]
           /\ [r EXCEPT !.name = x] = [list |-> r.list, name |-> x]
           /\ [r EXCEPT !.list[j] = x]
                = [list |-> [r.list EXCEPT ![j] = x], name |-> r.name]
OBVIOUS

\* The value with one part changed.
LEMMA ValueExcept ==
    ASSUME NEW x, NEW j
    PROVE  /\ [Value EXCEPT !.list = x] = [list |-> x, name |-> Value.name]
           /\ [Value EXCEPT !.name = x] = [list |-> Value.list, name |-> x]
           /\ [Value EXCEPT !.list[j] = x]
                = [list |-> [Value.list EXCEPT ![j] = x], name |-> Value.name]
<1>1. \E l, n : Value = [list |-> l, name |-> n]
  BY ValueIs
<1> QED
  BY <1>1, RecordUpdates

\* A payload fills the part of the value that was announced.
LEMMA FillImplements ==
    ASSUME Inductive, NEW v \in Values, Fill(v)
    PROVE  Abstract!Deliver(v)
<1>1. /\ due /\ due' = FALSE /\ target' = Nowhere
      /\ last' = [id |-> 0, type |-> "data", size |-> v]
      /\ UNCHANGED <<setup, open, at, refusal, invalid, report>>
      /\ name' = IF target = <<"name">> THEN [b \in 1..Len(name) |-> v] ELSE name
  BY DEF Fill, Marker
<1>2. UNCHANGED <<Limits, setup.elem, Standing>>
  BY <1>1, SameLimits, SameStanding DEF Limits
<1>3. /\ Len(out') = Len(out) /\ Len(out) \in Nat
      /\ \A i \in 1..Len(out) :
            out'[i] = IF target = <<"out", i - 1>> THEN [b \in 1..Len(out[i]) |-> v] ELSE out[i]
  <2>1. Len(out) \in Nat
    BY DEF Inductive, TypeOK
  <2> QED
    BY <2>1, FilledType
<1>11. \A i \in 0..Len(out) - 1 :
          out'[i + 1] = IF target = <<"out", i>> THEN [b \in 1..Len(out[i + 1]) |-> v]
                        ELSE out[i + 1]
  <2> TAKE i \in 0..Len(out) - 1
  <2>1. i + 1 \in 1..Len(out) /\ (i + 1) - 1 = i
    BY <1>3
  <2> QED
    BY <1>3, <2>1
<1>4. Nowhere # <<"name">> /\ \A i : Nowhere # <<"out", i>> /\ <<"name">> # <<"out", i>>
  BY DEF Nowhere
<1>5. Value' = [list |-> [i \in 0..Len(out) - 1 |-> out'[i + 1]], name |-> name']
  BY <1>1, <1>3, <1>4, ValueNext DEF ListOf, NameOf
<1>6. /\ DOMAIN Value.list = 0..Len(out) - 1
      /\ \A i \in 0..Len(out) - 1 :
            Value.list[i] = IF target = <<"out", i>> /\ setup.elem # "message"
                            THEN Masked(out[i + 1]) ELSE out[i + 1]
      /\ Value.name = IF target = <<"name">> THEN Masked(name) ELSE name
      /\ Value = [list |-> Value.list, name |-> Value.name]
  BY ValueIs DEF ListOf, NameOf
<1>7. target = Nowhere \/ target = <<"name">> \/ \E j \in 0..Len(out) - 1 : target = <<"out", j>>
  BY DEF Inductive, TypeOK
<1>8. CASE target = Nowhere
  <2>1. Value' = Value
    <3>1. \A i \in 0..Len(out) - 1 : out'[i + 1] = Value.list[i]
      BY <1>3, <1>4, <1>6, <1>8
    <3>2. name' = Value.name
      BY <1>1, <1>4, <1>6, <1>8
    <3>3. Value.list = [i \in 0..Len(out) - 1 |-> Value.list[i]]
      BY ValueIs DEF ListOf
    <3> QED
      BY <1>5, <1>6, <3>1, <3>2, <3>3
  <2>2. target # <<"name">> /\ ~(Len(target) = 2)
    BY <1>8, <1>4 DEF Nowhere
  <2> QED
    BY <1>1, <1>2, <2>1, <2>2 DEF Abstract!Deliver, Nowhere
<1>9. CASE target = <<"name">>
  <2>1. \A i \in 0..Len(out) - 1 : out'[i + 1] = Value.list[i]
    BY <1>3, <1>4, <1>6, <1>9
  <2>2. Value.list = [i \in 0..Len(out) - 1 |-> Value.list[i]]
    BY ValueIs DEF ListOf
  <2>3. Value.name = [i \in 1..Len(name) |-> 0]
    BY <1>6, <1>9 DEF Masked
  <2>4. name' = [i \in DOMAIN Value.name |-> v]
    BY <1>1, <1>9, <2>3
  <2>5. Value' = [Value EXCEPT !.name = [i \in DOMAIN Value.name |-> v]]
    <3>1. [i \in 0..Len(out) - 1 |-> out'[i + 1]] = Value.list
      BY <2>1, <2>2
    <3> QED
      BY <1>5, <2>4, <3>1, ValueExcept
  <2>6. ~(Len(target) = 2)
    BY <1>9
  <2> QED
    BY <1>1, <1>2, <1>9, <2>5, <2>6 DEF Abstract!Deliver, Nowhere
<1>10. ASSUME NEW j \in 0..Len(out) - 1, target = <<"out", j>>
       PROVE  Abstract!Deliver(v)
  <2>1. target # <<"name">> /\ Len(target) = 2 /\ target[2] = j
    BY <1>10
  <2>2. \A i \in 0..Len(out) - 1 : target = <<"out", i>> <=> i = j
    BY <1>10
  <2>3. DOMAIN Value.list[j] = 1..Len(out[j + 1])
    <3>1. out[j + 1] \in Seq(Nat)
      BY <1>3 DEF Inductive, TypeOK
    <3>2. DOMAIN Masked(out[j + 1]) = 1..Len(out[j + 1]) /\ DOMAIN out[j + 1] = 1..Len(out[j + 1])
      BY <3>1 DEF Masked
    <3>3. Value.list[j] = Masked(out[j + 1]) \/ Value.list[j] = out[j + 1]
      BY <1>6
    <3> QED
      BY <3>2, <3>3
  <2>4. \A i \in 0..Len(out) - 1 :
           out'[i + 1] = IF i = j THEN [b \in DOMAIN Value.list[j] |-> v] ELSE Value.list[i]
    BY <1>11, <1>6, <2>2, <2>3
  <2>5. Value.list = [i \in 0..Len(out) - 1 |-> Value.list[i]]
    BY ValueIs DEF ListOf
  <2>6. name' = Value.name
    BY <1>1, <1>6, <2>1
  <2>7. Value' = [Value EXCEPT !.list[j] = [b \in DOMAIN Value.list[j] |-> v]]
    <3>1. [i \in 0..Len(out) - 1 |-> out'[i + 1]]
            = [Value.list EXCEPT ![j] = [b \in DOMAIN Value.list[j] |-> v]]
      BY <2>4, <2>5
    <3> QED
      BY <1>5, <2>6, <3>1, ValueExcept
  <2> QED
    BY <1>1, <1>2, <2>1, <2>7 DEF Abstract!Deliver, Nowhere
<1> QED
  BY <1>7, <1>8, <1>9, <1>10

\* Which part of the message a field is.
LEMMA PartIs ==
    ASSUME TypeOK, NEW t \in Tokens
    PROVE  /\ Here = "skip" => Abstract!Part(t) = "none"
           /\ Here = "root" /\ t.id \notin {0, 1} => Abstract!Part(t) = "none"
           /\ Here = "root" /\ t.id = 0 =>
                 Abstract!Part(t) = IF t.type = "start" THEN "list" ELSE "none"
           /\ Here = "root" /\ t.id = 1 =>
                 Abstract!Part(t) = IF t.type = "text" THEN "name" ELSE "none"
           /\ Here = "list" /\ setup.elem = "vector" => Abstract!Part(t) = "next"
           /\ Here = "list" /\ setup.elem # "vector" =>
                 Abstract!Part(t) = IF t.type = WireOfElement THEN "element" ELSE "none"
           /\ Here = "elem" =>
                 Abstract!Part(t) = IF t.id = 0 /\ t.type = "num" THEN "field" ELSE "none"
<1>1. Abstract!Here = Here
  BY DEF Abstract!Here, Abstract!Last, Here, Last
<1>2. CASE Here = "skip"
  BY <1>1, <1>2 DEF Abstract!Part
<1>3. CASE Here = "root"
  <2>1. CASE t.id = 0
    BY <1>1, <1>3, <2>1 DEF Abstract!Part
  <2>2. CASE t.id = 1
    BY <1>1, <1>3, <2>2 DEF Abstract!Part
  <2>3. CASE t.id \notin {0, 1}
    BY <1>1, <1>3, <2>3 DEF Abstract!Part
  <2> QED
    BY <1>3, <2>1, <2>2, <2>3
<1>4. CASE Here = "list"
  <2>1. CASE setup.elem = "vector"
    <3>1. t.type # "vector"
      BY TokenType
    <3> QED
      BY <1>1, <1>4, <2>1, <3>1 DEF Abstract!Part
  <2>2. CASE setup.elem # "vector"
    BY <1>1, <1>4, <2>2 DEF Abstract!Part, WireOfElement
  <2> QED
    BY <1>4, <2>1, <2>2
<1>5. CASE Here = "elem"
  BY <1>1, <1>5 DEF Abstract!Part
<1> QED
  BY <1>2, <1>3, <1>4, <1>5

\* What a header has to do to be the announcement of that part.
LEMMA Announces ==
    ASSUME Inductive, NEW t \in Tokens, ~invalid, ~due, UNCHANGED <<setup, report>>, last' = t,
           Abstract!Part(t) = "next" => Len(out) < MaxLen,
           Standing' = Abstract!Verdict(t),
           Standing' = "none" =>
              /\ Value' = Abstract!Changed(t)
              /\ open' = IF t.type = "start" THEN Append(open, Abstract!Opens(t)) ELSE open
              /\ at' = IF Abstract!Part(t) = "element" /\ setup.elem = "message"
                       THEN t.id ELSE at
              /\ due' = (t.type # "start")
              /\ target' = Abstract!Destination(t)
    PROVE  Abstract!Announce(t)
<1>1. Standing = "none"
  BY StandingIs
<1>2. Cardinality(DOMAIN Value.list) = Len(out)
  BY SettledValue DEF Inductive
<1>3. UNCHANGED <<Limits, setup.elem>>
  BY SameLimits DEF Limits
<1> QED
  BY <1>1, <1>2, <1>3 DEF Abstract!Announce, Abstract!Cardinality, Cardinality

\* A field that is not of this message leaves the value alone.
LEMMA DeclineAnnounces ==
    ASSUME Inductive, NEW t \in Tokens, ~invalid, ~due, UNCHANGED <<setup, report>>, last' = t,
           Abstract!Part(t) = "none", Decline(t)
    PROVE  Abstract!Announce(t)
<1>1. target = Nowhere /\ Standing = "none"
  BY StandingIs DEF Inductive
<1>2. /\ UNCHANGED <<setup, out, name, at, refusal, invalid, target>> /\ target' = Nowhere
      /\ open' = IF t.type = "start" THEN Append(open, "skip") ELSE open
      /\ due' = (t.type # "start")
  BY <1>1 DEF Decline, Payload
<1>3. Value' = Value /\ Standing' = Standing
  BY <1>2, SameValue, SameStanding
<1>4. Abstract!Verdict(t) = "none" /\ Abstract!Changed(t) = Value /\ Abstract!Opens(t) = "skip"
  BY DEF Abstract!Verdict, Abstract!Changed, Abstract!Opens
<1>5. Abstract!Destination(t) = Nowhere
  BY DEF Abstract!Destination, Nowhere
<1> QED
  BY <1>1, <1>2, <1>3, <1>4, <1>5, Announces

\* A refusal is the verdict.
LEMMA LatchAnnounces ==
    ASSUME Inductive, NEW t \in Tokens, ~invalid, ~due, UNCHANGED <<setup, report>>, last' = t,
           Abstract!Part(t) # "next",
           NEW c \in Categories, Abstract!Verdict(t) = c, Latch(c)
    PROVE  Abstract!Announce(t)
<1>1. refusal' = c
  BY FirstIs DEF Latch, Inductive
<1>2. Standing' = c /\ c # "none"
  BY <1>1 DEF Standing, Categories, None
<1> QED
  BY <1>2, Announces

LEMMA SequenceAnnounces ==
    ASSUME Inductive, NEW t \in Tokens, ~invalid, ~due, UNCHANGED <<setup, report>>, last' = t,
           ReadSequence(t)
    PROVE  Abstract!Announce(t)
<1>1. TypeOK /\ target = Nowhere /\ Standing = "none" /\ Here = "root" /\ t.id = 0
  BY StandingIs DEF Inductive, ReadSequence
<1>2. CASE t.type # "start" /\ Decline(t)
  BY <1>1, <1>2, PartIs, DeclineAnnounces
<1>3. CASE /\ t.type = "start"
           /\ out' = IF setup.elem = "vector" THEN out ELSE <<>>
           /\ open' = <<"list">>
           /\ Payload(t)
           /\ target' = Nowhere
           /\ UNCHANGED <<name, at, refusal, invalid>>
  <2>1. Abstract!Part(t) = "list"
    BY <1>1, <1>3, PartIs
  <2>2. open = <<>>
    <3>1. open # <<>> => open[Len(open)] \in {"list", "elem", "skip"}
      BY <1>1 DEF TypeOK
    <3> QED
      BY <1>1, <3>1 DEF Here, Last
  <2>3. open' = Append(open, "list") /\ due' = FALSE /\ Standing' = Standing
    <3>1. Append(<<>>, "list") = <<"list">>
      OBVIOUS
    <3> QED
      BY <1>3, <2>2, <3>1, SameStanding DEF Payload
  <2>4. /\ Abstract!Verdict(t) = "none" /\ Abstract!Opens(t) = "list"
        /\ Abstract!Destination(t) = Nowhere
        /\ Abstract!Changed(t) = IF setup.elem = "vector" THEN Value
                                 ELSE [Value EXCEPT !.list = <<>>]
    BY <1>3, <2>1
    DEF Abstract!Verdict, Abstract!Changed, Abstract!Opens, Abstract!Destination, Nowhere
  <2>5. Value' = Abstract!Changed(t)
    <3>1. CASE setup.elem = "vector"
      BY <1>1, <1>3, <2>4, <3>1, SameValue
    <3>2. CASE setup.elem # "vector"
      <4>1. out' = <<>> /\ target' = target /\ 0..Len(out') - 1 = {}
        BY <1>1, <1>3, <3>2
      <4>2. ListOf(out', target') = <<>>
        BY <4>1 DEF ListOf
      <4>3. NameOf(name', target') = Value.name
        BY <1>3, <4>1, ValueIs DEF NameOf
      <4> QED
        BY <2>4, <3>2, <4>2, <4>3, ValueNext, ValueExcept
    <3> QED
      BY <3>1, <3>2
  <2> QED
    BY <1>1, <1>3, <2>1, <2>3, <2>4, <2>5, Announces
<1> QED
  BY <1>2, <1>3 DEF ReadSequence

\* What is to be received counts as zeros until it arrives.
LEMMA MaskedResized ==
    ASSUME NEW s \in Seq(Nat), NEW n \in Nat
    PROVE  /\ Masked(Resized(s, n)) = Abstract!Zeros(n)
           /\ n = 0 => Resized(s, n) = Abstract!Zeros(n)
<1>1. Resized(s, n) \in Seq(Nat) /\ Len(Resized(s, n)) = n
  BY ResizedType
<1>2. n = 0 => Resized(s, n) = Abstract!Zeros(n)
  BY DEF Resized, Abstract!Zeros
<1> QED
  BY <1>1, <1>2 DEF Masked, Abstract!Zeros

LEMMA EmptyResized ==
    ASSUME NEW n \in Nat
    PROVE  Resized(<<>>, n) = Abstract!Zeros(n)
<1>1. \A i \in 1..n : ~(i <= Len(<<>>))
  OBVIOUS
<1> QED
  BY <1>1 DEF Resized, Abstract!Zeros

LEMMA StringAnnounces ==
    ASSUME Inductive, NEW t \in Tokens, ~invalid, ~due, UNCHANGED <<setup, report>>, last' = t,
           ReadString(t)
    PROVE  Abstract!Announce(t)
<1> DEFINE r == ReadRefusal(t.size, setup.nameMax, setup.nameCap, setup.nameCapacity)
<1>1. /\ TypeOK /\ target = Nowhere /\ Standing = "none" /\ Here = "root" /\ t.id = 1
      /\ t.size \in Nat /\ setup \in Setups /\ name \in Seq(Nat)
  BY StandingIs, TokenType DEF Inductive, ReadString, TypeOK
<1>2. r = Abstract!Judge(t.size, NameLimit) /\ r \in Categories \cup {None}
  BY <1>1, NameVerdict, JudgeType, LimitTypes
<1>3. \/ t.type # "text" /\ Decline(t)
      \/ t.type = "text" /\ r # None /\ Latch(r)
      \/ /\ t.type = "text" /\ r = None
         /\ name' = Resized(name, t.size)
         /\ Bind(t, <<"name">>)
         /\ UNCHANGED out
  BY DEF ReadString
<1> HIDE DEF r
<1>4. CASE t.type # "text" /\ Decline(t)
  BY <1>1, <1>4, PartIs, DeclineAnnounces
<1>5. ASSUME t.type = "text"
      PROVE  Abstract!Part(t) = "name" /\ Abstract!Verdict(t) = r
  <2>1. Abstract!Part(t) = "name"
    BY <1>1, <1>5, PartIs
  <2> QED
    BY <1>2, <2>1 DEF Abstract!Verdict, Limits
<1>6. CASE t.type = "text" /\ r # None /\ Latch(r)
  BY <1>2, <1>5, <1>6, LatchAnnounces
<1>7. CASE /\ t.type = "text" /\ r = None
           /\ name' = Resized(name, t.size)
           /\ Bind(t, <<"name">>)
           /\ UNCHANGED out
  <2>1. /\ open' = open /\ at' = at /\ due' = TRUE /\ UNCHANGED <<refusal, invalid>>
        /\ target' = IF t.size > 0 THEN <<"name">> ELSE Nowhere
    BY <1>7 DEF Bind, Payload
  <2>2. Standing' = Abstract!Verdict(t)
    BY <1>1, <1>5, <1>7, <2>1, SameStanding DEF None
  <2>3. /\ Abstract!Changed(t) = [Value EXCEPT !.name = Abstract!Zeros(t.size)]
        /\ Abstract!Destination(t) = target'
    BY <1>1, <1>5, <1>7, <2>1 DEF Abstract!Changed, Abstract!Destination, Nowhere
  <2>4. ListOf(out', target') = Value.list
    <3>1. \A i : target' # <<"out", i>>
      BY <2>1 DEF Nowhere
    <3>2. \A i : target # <<"out", i>>
      BY <1>1 DEF Nowhere
    <3> QED
      BY <1>7, <3>1, <3>2, ValueIs DEF ListOf
  <2>5. NameOf(name', target') = Abstract!Zeros(t.size)
    BY <1>1, <1>7, <2>1, MaskedResized DEF NameOf, Nowhere
  <2>6. Value' = Abstract!Changed(t)
    BY <2>3, <2>4, <2>5, ValueNext, ValueExcept
  <2> QED
    BY <1>5, <1>7, <2>1, <2>2, <2>3, <2>6, Announces
<1> QED
  BY <1>3, <1>4, <1>6, <1>7

\* The next element of a vector, whatever the field is.
LEMMA AppendedAnnounces ==
    ASSUME Inductive, NEW t \in Tokens, ~invalid, ~due, UNCHANGED <<setup, report>>, last' = t,
           Appended(t)
    PROVE  Abstract!Announce(t)
<1> DEFINE n == IF t.type \in {"text", "fixed"} THEN t.size ELSE 0
           new == Resized(<<>>, n)
           k == Len(out)
<1>1. /\ n \in Nat /\ out \in Seq(Seq(Nat)) /\ k \in Nat /\ <<>> \in Seq(Nat) /\ TypeOK
      /\ target = Nowhere /\ Standing = "none"
      /\ setup.elem = "vector" /\ Here = "list"
  BY TokenType, StandingIs DEF Inductive, TypeOK, Appended
<1>2. /\ out' = Append(out, new)
      /\ target' = IF t.type = "text" /\ n > 0 THEN <<"out", k>> ELSE Nowhere
      /\ open' = IF t.type = "start" THEN Append(open, "skip") ELSE open
      /\ UNCHANGED <<setup, name, at, refusal, invalid>>
      /\ due' = (t.type # "start")
      /\ k < MaxLen
  BY DEF Appended, Payload
<1>3. Abstract!Part(t) = "next"
  BY <1>1, PartIs
<1>4. /\ DOMAIN Value.list = 0..k - 1 /\ Cardinality(DOMAIN Value.list) = k
      /\ Value.list = [i \in 0..k - 1 |-> out[i + 1]]
      /\ Value.name = name
  BY <1>1, SettledValue
<1>5. Abstract!Stated(t) = n
  BY DEF Abstract!Stated
<1>6. /\ Abstract!Verdict(t) = "none" /\ Abstract!Opens(t) = "skip"
      /\ Abstract!Destination(t) = target'
  <2>1. Abstract!Verdict(t) = "none" /\ Abstract!Opens(t) = "skip"
    BY <1>3 DEF Abstract!Verdict, Abstract!Opens
  <2>2. CASE t.type = "text" /\ t.size > 0
    <3>1. Abstract!Cardinality(DOMAIN Value.list) = k
      BY <1>4 DEF Abstract!Cardinality, Cardinality
    <3>2. t.type # "start" /\ t.size # 0 /\ n > 0
      BY <2>2, TokenType
    <3>3. Abstract!Destination(t) = <<"out", k>>
      BY <1>3, <2>2, <3>1, <3>2 DEF Abstract!Destination
    <3> QED
      BY <1>2, <2>1, <2>2, <3>2, <3>3
  <2>3. CASE ~(t.type = "text" /\ t.size > 0)
    <3>1. target' = Nowhere
      BY <1>2, <2>3
    <3>2. Abstract!Destination(t) = <<>>
      BY <1>3, <2>3, TokenType DEF Abstract!Destination
    <3> QED
      BY <3>1, <3>2, <2>1 DEF Nowhere
  <2> QED
    BY <2>1, <2>2, <2>3
<1> HIDE DEF n, new
<1>7. Abstract!Changed(t)
        = [Value EXCEPT !.list = [i \in 0..k |->
              IF i \in 0..k - 1 THEN out[i + 1] ELSE Abstract!Zeros(n)]]
  <2>1. Abstract!Changed(t)
          = [Value EXCEPT !.list = [i \in DOMAIN Value.list \cup {Cardinality(DOMAIN Value.list)} |->
                IF i \in DOMAIN Value.list THEN Value.list[i] ELSE Abstract!Zeros(n)]]
    BY <1>3, <1>5 DEF Abstract!Changed, Abstract!Cardinality, Cardinality
  <2>2. DOMAIN Value.list \cup {Cardinality(DOMAIN Value.list)} = 0..k
    BY <1>1, <1>4
  <2>3. [i \in DOMAIN Value.list \cup {Cardinality(DOMAIN Value.list)} |->
                IF i \in DOMAIN Value.list THEN Value.list[i] ELSE Abstract!Zeros(n)]
          = [i \in 0..k |->
              IF i \in 0..k - 1 THEN out[i + 1] ELSE Abstract!Zeros(n)]
    BY <1>4, <2>2
  <2> QED
    BY <2>1, <2>3
<1>8. NameOf(name', target') = Value.name
  BY <1>2, <1>4 DEF NameOf, Nowhere
<1>9. new \in Seq(Nat)
  BY <1>1, ResizedType DEF new
<1>10. Masked(new) = Abstract!Zeros(n) /\ new = Abstract!Zeros(n)
  BY <1>1, MaskedResized, EmptyResized DEF new
<1> HIDE DEF k
<1>11. /\ Len(out') = k + 1
       /\ \A i \in 0..k : out'[i + 1] = IF i \in 0..k - 1 THEN out[i + 1] ELSE new
  BY <1>1, <1>2, <1>9 DEF k
<1>12. ListOf(out', target') = [i \in 0..k |->
              IF i \in 0..k - 1 THEN out[i + 1] ELSE Abstract!Zeros(n)]
  <2>1. 0..Len(out') - 1 = 0..k
    BY <1>1, <1>11
  <2>2. \A i \in 0..k : target' = <<"out", i>> => i = k
    BY <1>2 DEF Nowhere
  <2>3. \A i \in 0..k : i \in 0..k - 1 <=> i # k
    BY <1>1
  <2> QED
    BY <1>1, <1>10, <1>11, <2>1, <2>2, <2>3 DEF ListOf
<1>13. Value' = Abstract!Changed(t)
  BY <1>2, <1>7, <1>8, <1>12, ValueNext, ValueExcept
<1>14. Standing' = Standing
  BY <1>2, SameStanding
<1> QED
  BY <1>1, <1>2, <1>3, <1>6, <1>13, <1>14, Announces DEF k

LEMMA FieldAnnounces ==
    ASSUME Inductive, NEW t \in Tokens, ~invalid, ~due, UNCHANGED <<setup, report>>, last' = t,
           ElementField(t)
    PROVE  Abstract!Announce(t)
<1>1. TypeOK /\ target = Nowhere /\ Standing = "none" /\ Here = "elem"
  BY StandingIs DEF Inductive, ElementField
<1>2. CASE (t.id # 0 \/ t.type # "num") /\ Decline(t)
  BY <1>1, <1>2, PartIs, DeclineAnnounces
<1>3. CASE t.id = 0 /\ t.type = "num" /\ Bind(t, <<"out", at>>) /\ UNCHANGED <<out, name>>
  <2>1. /\ open' = open /\ at' = at /\ due' = TRUE /\ UNCHANGED <<refusal, invalid>>
        /\ target' = IF t.size > 0 THEN <<"out", at>> ELSE Nowhere
    BY <1>3 DEF Bind, Payload
  <2>2. Abstract!Part(t) = "field"
    BY <1>1, <1>3, PartIs
  <2>3. /\ Abstract!Verdict(t) = "none" /\ Abstract!Changed(t) = Value
    BY <2>2 DEF Abstract!Verdict, Abstract!Changed
  <2>4. Abstract!Destination(t) = target'
    <3>1. t.size \in Nat
      BY TokenType
    <3> QED
      BY <1>3, <2>1, <2>2, <3>1 DEF Abstract!Destination, Nowhere
  <2>5. Value' = Value
    <3>1. setup.elem = "message"
      BY <1>1, OpenElement
    <3>2. target # <<"name">> /\ target' # <<"name">>
      BY <1>1, <2>1 DEF Nowhere
    <3> QED
      BY <1>3, <3>1, <3>2, ValueIs, ValueNext DEF ListOf, NameOf
  <2>6. Standing' = Standing
    BY <2>1, SameStanding
  <2> QED
    BY <1>1, <1>3, <2>1, <2>2, <2>3, <2>4, <2>5, <2>6, Announces
<1> QED
  BY <1>2, <1>3 DEF ElementField

-----------------------------------------------------------------------------
(* An element of an indexed array.                                         *)

\* The value once an element stands at its index.
LEMMA PlacedValue ==
    ASSUME TypeOK, target = Nowhere, NEW t \in Tokens, setup.elem # "message",
           UNCHANGED <<setup, name>>,
           NEW old \in Seq(Nat),
           out' = [Grown(t.id) EXCEPT ![t.id + 1] = Resized(old, t.size)],
           target' = IF t.size > 0 THEN <<"out", t.id>> ELSE Nowhere
    PROVE  Value' = [Value EXCEPT !.list = Abstract!Placed(t)]
<1> DEFINE k == t.id
           n == Len(out)
           m == IF k < n THEN n ELSE k + 1
           new == Resized(old, t.size)
           p == [Grown(k) EXCEPT ![k + 1] = new]
<1>1. k \in Nat /\ t.size \in Nat /\ n \in Nat /\ setup.elem # "message"
  BY TokenType DEF TypeOK
<1>2. new \in Seq(Nat)
  BY <1>1, ResizedType
<1> HIDE DEF new
<1>3. /\ Len(p) = m
      /\ \A i \in 1..Len(p) :
            p[i] = IF i = k + 1 THEN new ELSE IF i <= n THEN out[i] ELSE DefaultElement
  BY <1>1, <1>2, PlacedType
<1>4. out' = p
  BY DEF new
<1> HIDE DEF p
<1>5. DefaultElement = <<>>
  BY <1>1 DEF DefaultElement
<1>6. m \in Nat /\ (0..n - 1) \cup (0..k) = 0..m - 1
  BY <1>1
<1>7. \A i \in 0..m - 1 :
         p[i + 1] = IF i = k THEN new ELSE IF i \in 0..n - 1 THEN out[i + 1] ELSE <<>>
  <2> TAKE i \in 0..m - 1
  <2>1. i + 1 \in 1..Len(p) /\ (i + 1 = k + 1 <=> i = k) /\ (i + 1 <= n <=> i \in 0..n - 1)
    BY <1>1, <1>3, <1>6
  <2> HIDE DEF m, n, k
  <2> QED
    BY <1>3, <1>5, <2>1
<1>8. (IF t.size > 0 THEN Masked(new) ELSE new) = Abstract!Zeros(t.size)
  BY <1>1, MaskedResized DEF new
<1> HIDE DEF k, n, m
<1>9. \A i \in 0..m - 1 : target' = <<"out", i>> <=> (i = k /\ t.size > 0)
  BY DEF Nowhere, k
<1>10. ListOf(out', target')
         = [i \in 0..m - 1 |-> IF i = k THEN Abstract!Zeros(t.size)
                               ELSE IF i \in 0..n - 1 THEN out[i + 1] ELSE <<>>]
  <2>1. \A i \in 0..m - 1 :
           (IF target' = <<"out", i>> /\ setup.elem # "message"
            THEN Masked(out'[i + 1]) ELSE out'[i + 1])
             = IF i = k THEN Abstract!Zeros(t.size)
               ELSE IF i \in 0..n - 1 THEN out[i + 1] ELSE <<>>
    BY <1>1, <1>4, <1>7, <1>8, <1>9
  <2>2. Len(out') = m
    BY <1>3, <1>4
  <2> QED
    BY <2>1, <2>2 DEF ListOf
<1>11. Abstract!Placed(t)
         = [i \in 0..m - 1 |-> IF i = k THEN Abstract!Zeros(t.size)
                               ELSE IF i \in 0..n - 1 THEN out[i + 1] ELSE <<>>]
  <2>1. /\ DOMAIN Value.list = 0..n - 1
        /\ Value.list = [i \in 0..n - 1 |-> out[i + 1]]
    BY SettledValue DEF n
  <2> QED
    BY <1>1, <1>6, <2>1 DEF Abstract!Placed, k
<1>12. NameOf(name', target') = Value.name
  BY SettledValue DEF NameOf, Nowhere
<1>13. ListOf(out', target') = Abstract!Placed(t)
  BY <1>10, <1>11
<1>14. Value' = [list |-> Abstract!Placed(t), name |-> Value.name]
  BY <1>12, <1>13, ValueNext
<1> QED
  BY <1>14, ValueExcept

LEMMA BoundAnnounces ==
    ASSUME Inductive, NEW t \in Tokens, ~invalid, ~due, UNCHANGED <<setup, report, name>>,
           last' = t,
           setup.elem \in {"text", "row"}, t.type = setup.elem, Here = "list",
           IndexRefusal(t.id) = None, Abstract!Judge(t.size, ElementLimit) = None,
           NEW old \in Seq(Nat),
           out' = [Grown(t.id) EXCEPT ![t.id + 1] = Resized(old, t.size)],
           Bind(t, <<"out", t.id>>)
    PROVE  Abstract!Announce(t)
<1>1. /\ TypeOK /\ target = Nowhere /\ Standing = "none" /\ t.id \in Nat /\ t.size \in Nat
      /\ setup \in Setups /\ setup.elem # "message" /\ setup.elem # "vector" /\ t.type # "start"
  BY StandingIs, TokenType DEF Inductive, TypeOK
<1>2. /\ open' = open /\ at' = at /\ due' = TRUE /\ UNCHANGED <<refusal, invalid>>
      /\ target' = IF t.size > 0 THEN <<"out", t.id>> ELSE Nowhere
  BY <1>1 DEF Bind, Payload
<1>3. Abstract!Part(t) = "element"
  BY <1>1, PartIs DEF WireOfElement
<1>4. Abstract!Judge(t.id + 1, IndexLimit) = None
  BY <1>1, IndexVerdict
<1>5. Abstract!Verdict(t) = "none"
  BY <1>3, <1>4 DEF Abstract!Verdict, Limits, None
<1>6. Abstract!Changed(t) = [Value EXCEPT !.list = Abstract!Placed(t)]
  BY <1>3 DEF Abstract!Changed
<1>7. Value' = Abstract!Changed(t)
  BY <1>1, <1>2, <1>6, PlacedValue
<1>8. Abstract!Destination(t) = target'
  BY <1>1, <1>2, <1>3 DEF Abstract!Destination, Nowhere
<1>9. Standing' = Standing
  BY <1>2, SameStanding
<1> QED
  BY <1>1, <1>2, <1>3, <1>5, <1>7, <1>8, <1>9, Announces

LEMMA TextAnnounces ==
    ASSUME Inductive, NEW t \in Tokens, ~invalid, ~due, UNCHANGED <<setup, report, name>>,
           last' = t, Here = "list", IndexRefusal(t.id) = None,
           setup.elem = "text", t.type = "text", setup.inline => FixedTextElement(t),
           ~setup.inline => TextElement(t)
    PROVE  Abstract!Announce(t)
<1>1. /\ TypeOK /\ t.id \in Nat /\ t.size \in Nat /\ setup \in Setups
  BY TokenType DEF Inductive, TypeOK
<1>2. Abstract!Part(t) = "element"
  BY <1>1, PartIs DEF WireOfElement
<1>3. Abstract!Judge(t.id + 1, IndexLimit) = None
  BY <1>1, IndexVerdict
<1>4. Abstract!Verdict(t) = Abstract!Judge(t.size, ElementLimit)
  BY <1>2, <1>3 DEF Abstract!Verdict, Limits, None
<1>5. CASE setup.inline
  <2>1. Abstract!Judge(t.size, ElementLimit)
          = IF t.size > setup.elemCapacity THEN "invalid" ELSE None
    BY <1>1, <1>5, TextVerdict
  <2>2. CASE t.size > setup.elemCapacity
    <3>1. invalid' = TRUE /\ UNCHANGED refusal /\ refusal = None
      BY <1>5, <2>2 DEF FixedTextElement, Inductive
    <3>2. Standing' = "invalid" /\ Abstract!Verdict(t) = "invalid"
      BY <1>4, <2>1, <2>2, <3>1 DEF Standing, None
    <3> QED
      BY <1>2, <3>2, Announces
  <2>3. CASE ~(t.size > setup.elemCapacity)
    <3> DEFINE old == Grown(t.id)[t.id + 1]
    <3>1. old \in Seq(Nat)
      BY <1>1, PlaceOf
    <3>2. /\ out' = [Grown(t.id) EXCEPT ![t.id + 1] = Resized(old, t.size)]
          /\ Bind(t, <<"out", t.id>>)
      BY <1>5, <2>3 DEF FixedTextElement
    <3> HIDE DEF old
    <3> QED
      BY <2>1, <2>3, <3>1, <3>2, BoundAnnounces
  <2> QED
    BY <2>2, <2>3
<1>6. CASE ~setup.inline
  <2> DEFINE r == RefuseBound(t.size, setup.elemMax, setup.dynElemMax)
  <2>1. /\ r = Abstract!Judge(t.size, ElementLimit) /\ r \in Categories \cup {None}
        /\ <<>> \in Seq(Nat)
    BY <1>1, <1>6, TextVerdict, JudgeType, LimitTypes
  <2>2. IF r # None
        THEN Latch(r)
        ELSE /\ out' = [Grown(t.id) EXCEPT ![t.id + 1] = Resized(<<>>, t.size)]
             /\ Bind(t, <<"out", t.id>>)
    BY <1>6 DEF TextElement
  <2> HIDE DEF r
  <2>3. CASE r # None
    BY <1>2, <1>4, <2>1, <2>2, <2>3, LatchAnnounces
  <2>4. CASE r = None
    BY <2>1, <2>2, <2>4, BoundAnnounces
  <2> QED
    BY <2>3, <2>4
<1> QED
  BY <1>5, <1>6

LEMMA RowAnnounces ==
    ASSUME Inductive, NEW t \in Tokens, ~invalid, ~due, UNCHANGED <<setup, report, name>>,
           last' = t, Here = "list", IndexRefusal(t.id) = None,
           setup.elem = "row", t.type = "row", RowElement(t)
    PROVE  Abstract!Announce(t)
<1> DEFINE r == RowRefusal(t.size)
           old == Grown(t.id)[t.id + 1]
<1>1. /\ TypeOK /\ t.id \in Nat /\ t.size \in Nat /\ setup \in Setups
  BY TokenType DEF Inductive, TypeOK
<1>2. Abstract!Part(t) = "element"
  BY <1>1, PartIs DEF WireOfElement
<1>3. Abstract!Judge(t.id + 1, IndexLimit) = None
  BY <1>1, IndexVerdict
<1>4. Abstract!Verdict(t) = Abstract!Judge(t.size, ElementLimit)
  BY <1>2, <1>3 DEF Abstract!Verdict, Limits, None
<1>5. r = Abstract!Judge(t.size, ElementLimit) /\ r \in Categories \cup {None}
  BY <1>1, RowVerdict, JudgeType, LimitTypes
<1>6. IF r # None
      THEN Latch(r)
      ELSE /\ out' = [Grown(t.id) EXCEPT ![t.id + 1] = Resized(old, t.size)]
           /\ Bind(t, <<"out", t.id>>)
  BY DEF RowElement
<1>7. old \in Seq(Nat)
  BY <1>1, PlaceOf
<1> HIDE DEF r, old
<1>8. CASE r # None
  BY <1>2, <1>4, <1>5, <1>6, <1>8, LatchAnnounces
<1>9. CASE r = None
  BY <1>5, <1>6, <1>7, <1>9, BoundAnnounces
<1> QED
  BY <1>8, <1>9

LEMMA MessageAnnounces ==
    ASSUME Inductive, NEW t \in Tokens, ~invalid, ~due, UNCHANGED <<setup, report, name>>,
           last' = t, Here = "list", IndexRefusal(t.id) = None,
           setup.elem = "message", t.type = "start", MessageElement(t)
    PROVE  Abstract!Announce(t)
<1> DEFINE n == Len(out)
           m == IF t.id < n THEN n ELSE t.id + 1
           g == Grown(t.id)
<1>1. /\ TypeOK /\ t.id \in Nat /\ setup \in Setups /\ n \in Nat
      /\ Standing = "none" /\ target = Nowhere
  BY TokenType, StandingIs DEF Inductive, TypeOK
<1>2. /\ out' = g /\ open' = Append(open, "elem") /\ at' = t.id
      /\ due' = FALSE /\ target' = Nowhere /\ UNCHANGED <<refusal, invalid>>
  BY DEF MessageElement, Payload
<1>3. Abstract!Part(t) = "element"
  BY <1>1, PartIs DEF WireOfElement
<1>4. Abstract!Judge(t.id + 1, IndexLimit) = None
  BY <1>1, IndexVerdict
<1>5. /\ Abstract!Verdict(t) = "none" /\ Abstract!Opens(t) = "elem"
      /\ Abstract!Destination(t) = Nowhere
  BY <1>3, <1>4
  DEF Abstract!Verdict, Abstract!Opens, Abstract!Destination, Limits, None, Nowhere
<1>6. /\ Len(g) = m
      /\ \A i \in 1..Len(g) : g[i] = IF i <= n THEN out[i] ELSE <<0>>
  BY <1>1, GrownType DEF DefaultElement
<1> HIDE DEF g
<1>7. m \in Nat /\ (0..n - 1) \cup (0..t.id) = 0..m - 1
  BY <1>1
<1>8. \A i \in 0..m - 1 : g[i + 1] = IF i \in 0..n - 1 THEN out[i + 1] ELSE <<0>>
  <2> TAKE i \in 0..m - 1
  <2>1. i + 1 \in 1..Len(g) /\ (i + 1 <= n <=> i \in 0..n - 1)
    BY <1>1, <1>6, <1>7
  <2> HIDE DEF m, n
  <2> QED
    BY <1>6, <2>1
<1> HIDE DEF m, n
<1>9. ListOf(out', target')
        = [i \in 0..m - 1 |-> IF i \in 0..n - 1 THEN out[i + 1] ELSE <<0>>]
  <2>1. \A i : target' # <<"out", i>>
    BY <1>2 DEF Nowhere
  <2>2. Len(out') = m /\ \A i \in 0..m - 1 : out'[i + 1] = g[i + 1]
    BY <1>2, <1>6
  <2> QED
    BY <1>8, <2>1, <2>2 DEF ListOf
<1>10. Abstract!Placed(t)
         = [i \in 0..m - 1 |-> IF i \in 0..n - 1 THEN out[i + 1] ELSE <<0>>]
  <2>1. /\ DOMAIN Value.list = 0..n - 1
        /\ Value.list = [i \in 0..n - 1 |-> out[i + 1]]
    BY <1>1, SettledValue DEF n
  <2> QED
    BY <1>7, <2>1 DEF Abstract!Placed
<1>11. NameOf(name', target') = Value.name
  BY <1>1, <1>2, SettledValue DEF NameOf, Nowhere
<1>12. ListOf(out', target') = Abstract!Placed(t)
  BY <1>9, <1>10
<1>13. Value' = [list |-> Abstract!Placed(t), name |-> Value.name]
  BY <1>11, <1>12, ValueNext
<1>14. Value' = Abstract!Changed(t)
  BY <1>3, <1>13, ValueExcept DEF Abstract!Changed
<1>15. Standing' = Standing
  BY <1>2, SameStanding
<1> QED
  BY <1>1, <1>2, <1>3, <1>5, <1>14, <1>15, Announces

LEMMA ElementAnnounces ==
    ASSUME Inductive, NEW t \in Tokens, ~invalid, ~due, UNCHANGED <<setup, report>>, last' = t,
           Element(t)
    PROVE  Abstract!Announce(t)
<1>1. /\ TypeOK /\ t.id \in Nat /\ setup \in Setups /\ Here = "list" /\ setup.elem # "vector"
  BY TokenType DEF Inductive, TypeOK, Element
<1>2. Abstract!Part(t) = IF t.type = WireOfElement THEN "element" ELSE "none"
  BY <1>1, PartIs
<1>3. CASE t.type # WireOfElement /\ Decline(t)
  BY <1>2, <1>3, DeclineAnnounces
<1>4. CASE t.type = WireOfElement /\ IndexRefusal(t.id) # None /\ Latch(IndexRefusal(t.id))
  <2> DEFINE r == IndexRefusal(t.id)
  <2>1. r = Abstract!Judge(t.id + 1, IndexLimit) /\ r \in Categories \cup {None}
    BY <1>1, IndexVerdict, JudgeType, LimitTypes
  <2> HIDE DEF r
  <2>2. Abstract!Verdict(t) = r
    BY <1>2, <1>4, <2>1 DEF Abstract!Verdict, Limits, None, r
  <2> QED
    BY <1>2, <1>4, <2>1, <2>2, LatchAnnounces DEF r
<1>5. CASE t.type = WireOfElement /\ IndexRefusal(t.id) = None /\ PlaceElement(t) /\ UNCHANGED name
  BY <1>1, <1>5, TextAnnounces, RowAnnounces, MessageAnnounces
  DEF PlaceElement, WireOfElement
<1> QED
  BY <1>3, <1>4, <1>5 DEF Element

LEMMA HeaderImplements ==
    ASSUME Inductive, NEW t \in Tokens, Header(t)
    PROVE  Abstract!Announce(t)
<1>1. TypeOK /\ UNCHANGED <<setup, report>> /\ ~invalid /\ ~due /\ last' = t
  BY DEF Header, Inductive
<1>2. CASE InSkipped(t)
  BY <1>1, <1>2, PartIs, DeclineAnnounces DEF InSkipped
<1>3. CASE Unknown(t)
  BY <1>1, <1>3, PartIs, DeclineAnnounces DEF Unknown
<1> QED
  BY <1>1, <1>2, <1>3, SequenceAnnounces, StringAnnounces, ElementAnnounces,
     AppendedAnnounces, FieldAnnounces DEF Header

\* Each step of the collectors is the step of the array it stands for, or
\* leaves what the array promises unchanged.
LEMMA NextImplements == Inductive /\ [Next]_vars => [Abstract!Next]_Abstract!vars
<1> SUFFICES ASSUME Inductive, [Next]_vars
             PROVE  [Abstract!Next]_Abstract!vars
  OBVIOUS
<1>1. ASSUME NEW t \in Tokens, Header(t)
      PROVE  Abstract!Next
  <2>1. t \in Abstract!Tokens
    BY DEF Tokens, Abstract!Tokens
  <2> QED
    BY <1>1, <2>1, HeaderImplements DEF Abstract!Next
<1>2. ASSUME NEW v \in Values, Fill(v)
      PROVE  Abstract!Next
  BY <1>2, FillImplements DEF Abstract!Next
<1>3. CASE SequenceEnd
  BY <1>3, CloseImplements DEF Abstract!Next
<1>4. CASE FeedReturns
  BY <1>4, ReportImplements DEF Abstract!Next
<1>5. CASE UNCHANGED vars
  <2>1. UNCHANGED <<Value, Limits, setup.elem, Standing>>
    BY <1>5, SameValue, SameStanding DEF vars
  <2> QED
    BY <1>5, <2>1 DEF vars, Abstract!vars
<1> QED
  BY <1>1, <1>2, <1>3, <1>4, <1>5 DEF Next

\* The collectors of the C++ input stream, for every combination of storage
\* and bounds, build the array the message means and judge it as the bounds
\* state: a refinement of module ElementArray.  For a vector read without a
\* collector that module has no bounds and no field of the wrong type: every
\* field is an element, of the length its header states.
THEOREM Refinement == Spec => ImplementsArray
<1>1. Inductive /\ [Next]_vars => [Abstract!Next]_Abstract!vars
  BY NextImplements
<1> QED
  BY InitArray, <1>1, InductiveHolds, PTL DEF Spec, ImplementsArray, Abstract!Spec
=============================================================================
