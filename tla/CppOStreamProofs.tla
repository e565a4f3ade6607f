-------------------------- MODULE CppOStreamProofs --------------------------
(***************************************************************************)
(* Theorems about the C++ output stream of module CppOStream, for every    *)
(* set of values and of ids, every buffer, sink and hold-back window.      *)
(***************************************************************************)
EXTENDS CppOStream, OStreamProofs

-----------------------------------------------------------------------------
(* The openers by hand.                                                    *)

LEMMA BegunType ==
    ASSUME NEW h \in Openers
    PROVE  h \in Seq(Nat) /\ Begun(h) \in Nat
<1>1. h \in Seq(Nat)
  BY DEF Openers
<1>2. h # <<>> => Len(h) \in 1..Len(h)
  BY <1>1
<1> QED
  BY <1>1, <1>2 DEF Begun, Last

LEMMA BeginFacts ==
    ASSUME NEW h \in Openers, NEW r
    PROVE  /\ Begin(h, r) \in Openers
           /\ Begun(Begin(h, r)) = IF r = "ok" THEN Begun(h) + 1 ELSE Begun(h)
<1> DEFINE e == IF r = "ok" THEN Begun(h) + 1 ELSE Begun(h)
           g == Append(h, e)
           n == Len(h)
<1>1. h \in Seq(Nat) /\ Begun(h) \in Nat /\ n \in Nat
  BY BegunType
<1>2. e \in Nat /\ e - Begun(h) \in {0, 1}
  BY <1>1
<1>3. Begin(h, r) = g
  BY DEF Begin
<1> HIDE DEF e
<1>4. g \in Seq(Nat) /\ Len(g) = n + 1 /\ g[n + 1] = e /\ \A j \in 1..n : g[j] = h[j]
  BY <1>1, <1>2
<1> HIDE DEF g
<1>5. Begun(h) = IF n = 0 THEN 0 ELSE h[n]
  BY <1>1 DEF Begun, Last
<1>6. \A j \in 1..n : h[j] - (IF j = 1 THEN 0 ELSE h[j - 1]) \in {0, 1}
  BY DEF Openers
<1> HIDE DEF n
<1>7. ASSUME NEW j \in 1..Len(g)
      PROVE  g[j] - (IF j = 1 THEN 0 ELSE g[j - 1]) \in {0, 1}
  <2>1. CASE j = n + 1
    <3>1. (IF j = 1 THEN 0 ELSE g[j - 1]) = Begun(h)
      <4>1. CASE n = 0
        BY <1>5, <2>1, <4>1
      <4>2. CASE n # 0
        <5>1. n \in 1..n /\ j # 1 /\ j - 1 = n
          BY <1>1, <2>1, <4>2
        <5> QED
          BY <1>4, <1>5, <4>2, <5>1
      <4> QED
        BY <4>1, <4>2
    <3> QED
      BY <1>2, <1>4, <2>1, <3>1
  <2>2. CASE j # n + 1
    <3>1. j \in 1..n /\ (j # 1 => j - 1 \in 1..n)
      BY <1>1, <1>4, <2>2
    <3>2. g[j] = h[j] /\ (j # 1 => g[j - 1] = h[j - 1])
      BY <1>4, <3>1
    <3> QED
      BY <1>6, <3>1, <3>2
  <2> QED
    BY <2>1, <2>2
<1>8. g \in Openers
  BY <1>4, <1>7 DEF Openers
<1>9. Begun(g) = e
  <2>1. Len(g) # 0 /\ g # <<>>
    BY <1>1, <1>4
  <2> QED
    BY <1>4, <2>1 DEF Begun, Last
<1> QED
  BY <1>3, <1>8, <1>9 DEF e

LEMMA FrontOpeners ==
    ASSUME NEW h \in Openers, h # <<>>
    PROVE  /\ Front(h) \in Openers
           /\ Begun(h) = IF Refused(h) THEN Begun(Front(h)) ELSE Begun(Front(h)) + 1
<1> DEFINE g == Front(h)
           n == Len(h)
<1>1. /\ h \in Seq(Nat) /\ Begun(h) \in Nat /\ n \in Nat /\ n > 0
      /\ g \in Seq(Nat) /\ Len(g) = n - 1
  BY BegunType, FrontType
<1>2. \A j \in 1..n - 1 : g[j] = h[j]
  BY DEF Front
<1>3. \A j \in 1..n : h[j] - (IF j = 1 THEN 0 ELSE h[j - 1]) \in {0, 1}
  BY DEF Openers
<1>4. Begun(h) = h[n]
  BY DEF Begun, Last
<1>5. Begun(g) = IF n = 1 THEN 0 ELSE g[n - 1]
  BY <1>1 DEF Begun, Last
<1> HIDE DEF g, n
<1>6. ASSUME NEW j \in 1..Len(g)
      PROVE  g[j] - (IF j = 1 THEN 0 ELSE g[j - 1]) \in {0, 1}
  <2>1. j \in 1..n /\ j \in 1..n - 1 /\ (j # 1 => j - 1 \in 1..n - 1)
    BY <1>1
  <2> QED
    BY <1>2, <1>3, <2>1
<1>7. g \in Openers
  BY <1>1, <1>6 DEF Openers
<1>8. Begun(g) = IF n = 1 THEN 0 ELSE h[n - 1]
  <2>1. n # 1 => n - 1 \in 1..n - 1
    BY <1>1
  <2> QED
    BY <1>2, <1>5, <2>1
<1>9. Begun(h) - Begun(g) \in {0, 1}
  <2>1. n \in 1..n
    BY <1>1
  <2> QED
    BY <1>3, <1>4, <1>8, <2>1
<1>10. Begun(g) \in Nat
  BY <1>7, BegunType
<1>11. Refused(h) <=> Begun(h) = Begun(g)
  BY DEF Refused, g
<1> QED
  BY <1>1, <1>7, <1>9, <1>10, <1>11 DEF g

\* As long as every opener succeeded, none was refused.
LEMMA AllBegunFacts ==
    ASSUME NEW h \in Openers, AllBegun(h)
    PROVE  /\ AllBegun(Begin(h, "ok"))
           /\ h # <<>> => AllBegun(Front(h)) /\ ~Refused(h)
<1> DEFINE n == Len(h)
<1>1. h \in Seq(Nat) /\ n \in Nat /\ (h = <<>> <=> n = 0)
  BY BegunType
<1>2. Begun(h) = n
  <2>1. n # 0 => n \in 1..n
    BY <1>1
  <2> QED
    BY <1>1, <2>1 DEF Begun, Last, AllBegun
<1>3. AllBegun(Begin(h, "ok"))
  <2> DEFINE g == Append(h, n + 1)
  <2>1. Begin(h, "ok") = g
    BY <1>2 DEF Begin
  <2>2. Len(g) = n + 1 /\ g[n + 1] = n + 1 /\ \A j \in 1..n : g[j] = h[j]
    BY <1>1
  <2> HIDE DEF g
  <2>3. \A j \in 1..n + 1 : j = n + 1 \/ j \in 1..n
    BY <1>1
  <2>4. \A j \in 1..n : h[j] = j
    BY DEF AllBegun
  <2> HIDE DEF n
  <2> QED
    BY <2>1, <2>2, <2>3, <2>4 DEF AllBegun
<1>4. ASSUME h # <<>>
      PROVE  AllBegun(Front(h)) /\ ~Refused(h)
  <2> DEFINE g == Front(h)
  <2>1. g \in Seq(Nat) /\ Len(g) = n - 1 /\ n > 0
    BY <1>1, <1>4, FrontType
  <2>2. \A j \in 1..n - 1 : g[j] = h[j] /\ j \in 1..n
    BY <1>1 DEF Front
  <2>3. \A j \in 1..n : h[j] = j
    BY DEF AllBegun
  <2>4. Refused(h) <=> Begun(g) = n
    BY <1>2 DEF Refused
  <2> HIDE DEF g
  <2>5. AllBegun(g)
    BY <2>1, <2>2, <2>3 DEF AllBegun
  <2>6. Begun(g) = n - 1
    <3>1. g = <<>> <=> n = 1
      <4>1. g = <<>> <=> Len(g) = 0
        BY <2>1, EmptySeq
      <4> QED
        BY <1>1, <2>1, <4>1
    <3>2. n # 1 => n - 1 \in 1..n - 1 /\ n - 1 \in 1..n
      BY <1>1, <2>1
    <3>3. n # 1 => g[n - 1] = n - 1
      BY <2>2, <2>3, <3>2
    <3> QED
      BY <1>1, <2>1, <3>1, <3>3 DEF Begun, Last
  <2> QED
    BY <1>1, <2>4, <2>5, <2>6 DEF g
<1> QED
  BY <1>3, <1>4

-----------------------------------------------------------------------------
(* The stack of activations.                                               *)

LEMMA ChainFacts ==
    ASSUME NEW s \in Seq(Activation), s # <<>>, NEW r \in Codes
    PROVE  /\ Chain(s, r) \in Seq(Activation)
           /\ Chain(s, r) # <<>>
           /\ Len(Chain(s, r)) = Len(s)
           /\ Last(Chain(s, r)).code = r
           /\ \A k \in 1..Len(s) : /\ Chain(s, r)[k].base = s[k].base
                                  /\ Chain(s, r)[k].hand = s[k].hand
<1>1. Len(s) \in 1..Len(s) /\ Len(s) \in Nat /\ \A k \in 1..Len(s) : s[k] \in Activation
  OBVIOUS
<1>2. [s[Len(s)] EXCEPT !.code = r] \in Activation
  BY <1>1 DEF Activation
<1>3. Chain(s, r) \in Seq(Activation) /\ Len(Chain(s, r)) = Len(s)
  BY <1>1, <1>2 DEF Chain
<1>4. Chain(s, r)[Len(s)] = [s[Len(s)] EXCEPT !.code = r]
  BY <1>1 DEF Chain
<1>5. ASSUME NEW k \in 1..Len(s), k # Len(s)
      PROVE  Chain(s, r)[k] = s[k]
  BY <1>5 DEF Chain
<1>6. /\ Chain(s, r)[Len(s)].code = r
      /\ Chain(s, r)[Len(s)].base = s[Len(s)].base
      /\ Chain(s, r)[Len(s)].hand = s[Len(s)].hand
  BY <1>1, <1>4 DEF Activation
<1> QED
  BY <1>1, <1>3, <1>5, <1>6 DEF Last

\* Only base and hand matter to AgreesWith.
LEMMA AgreesSame ==
    ASSUME NEW s \in Seq(Activation), NEW t \in Seq(Activation), NEW n \in Nat,
           Len(t) = Len(s), s # <<>>,
           \A k \in 1..Len(s) : t[k].base = s[k].base /\ t[k].hand = s[k].hand,
           AgreesWith(s, n)
    PROVE  AgreesWith(t, n)
<1>1. \A k \in 1..Len(s) : OpenBelow(t, k) = OpenBelow(s, k)
  BY DEF OpenBelow
<1>2. Len(s) \in 1..Len(s) /\ \A k \in 1..Len(s) - 1 : k \in 1..Len(s) /\ k + 1 \in 1..Len(s)
  OBVIOUS
<1> QED
  BY <1>1, <1>2 DEF AgreesWith

\* A sequence opened or closed by hand counts in the current activation.
LEMMA AgreesHand ==
    ASSUME NEW s \in Seq(Activation), NEW t \in Seq(Activation), NEW n \in Nat,
           NEW m \in Nat, Len(t) = Len(s), s # <<>>,
           \A k \in 1..Len(s) : t[k].base = s[k].base,
           \A k \in 1..Len(s) - 1 : t[k].hand = s[k].hand,
           m - n = Begun(t[Len(s)].hand) - Begun(s[Len(s)].hand),
           AgreesWith(s, n)
    PROVE  AgreesWith(t, m)
<1>1. \A k \in 1..Len(s) - 1 : OpenBelow(t, k) = OpenBelow(s, k)
  BY DEF OpenBelow
<1>2. Len(s) \in 1..Len(s) /\ \A k \in 1..Len(s) - 1 : k + 1 \in 1..Len(s)
  OBVIOUS
<1>3. /\ s[Len(s)].base \in Nat
      /\ Begun(s[Len(s)].hand) \in Nat /\ Begun(t[Len(s)].hand) \in Nat
      /\ t[Len(s)].base = s[Len(s)].base
  <2>1. s[Len(s)] \in Activation /\ t[Len(s)] \in Activation
    BY <1>2
  <2> QED
    BY <1>2, <2>1, BegunType DEF Activation
<1>4. Level(Len(s)) \in Nat
  BY DEF Level
<1>5. n = s[Len(s)].base + Begun(s[Len(s)].hand) + Level(Len(s))
  BY DEF AgreesWith, OpenBelow
<1>6. m = t[Len(s)].base + Begun(t[Len(s)].hand) + Level(Len(s))
  <2>1. \A a, b, c, d \in Nat : n = a + b + d /\ m - n = c - b => m = a + c + d
    OBVIOUS
  <2>2. m - n = Begun(t[Len(s)].hand) - Begun(s[Len(s)].hand)
    OBVIOUS
  <2> DEFINE a == s[Len(s)].base
             b == Begun(s[Len(s)].hand)
             c == Begun(t[Len(s)].hand)
             d == Level(Len(s))
  <2>3. a \in Nat /\ b \in Nat /\ c \in Nat /\ d \in Nat
    BY <1>3, <1>4
  <2>4. n = a + b + d /\ m - n = c - b
    BY <1>5, <2>2
  <2>5. t[Len(s)].base = a
    BY <1>3
  <2> HIDE DEF a, b, c, d
  <2>6. m = a + c + d
    BY <2>1, <2>3, <2>4
  <2> QED
    BY <2>5, <2>6 DEF c, d
<1>7. m = OpenBelow(t, Len(t))
  BY <1>6 DEF OpenBelow
<1> QED
  BY <1>1, <1>2, <1>7 DEF AgreesWith

LEMMA AgreesEnter ==
    ASSUME NEW s \in Seq(Activation), NEW e \in Activation, NEW n \in Nat, s # <<>>,
           e.base = n, e.hand = <<>>, AgreesWith(s, n)
    PROVE  AgreesWith(Append(s, e), n + 1)
<1> DEFINE t == Append(s, e)
<1>1. /\ Len(t) = Len(s) + 1 /\ Len(s) \in Nat \ {0}
      /\ t[Len(s) + 1] = e
      /\ \A k \in 1..Len(s) : t[k] = s[k]
  OBVIOUS
<1> HIDE DEF t
<1>2. \A k \in 1..Len(s) : OpenBelow(t, k) = OpenBelow(s, k)
  BY <1>1 DEF OpenBelow
<1>3. OpenBelow(t, Len(s) + 1) = n + 1
  BY <1>1 DEF OpenBelow, Level, Begun
<1>4. ASSUME NEW k \in 1..Len(s)
      PROVE  t[k + 1].base = OpenBelow(t, k)
  <2>1. CASE k = Len(s)
    BY <1>1, <1>2, <2>1 DEF AgreesWith
  <2>2. CASE k # Len(s)
    <3>1. k \in 1..Len(s) - 1 /\ k + 1 \in 1..Len(s)
      BY <1>1, <2>2
    <3> QED
      BY <1>1, <1>2, <3>1 DEF AgreesWith
  <2> QED
    BY <2>1, <2>2
<1>5. AgreesWith(t, n + 1)
  BY <1>1, <1>3, <1>4 DEF AgreesWith
<1> QED
  BY <1>5 DEF t

LEMMA FrontFacts ==
    ASSUME NEW s \in Seq(Activation), Len(s) > 1
    PROVE  /\ Front(s) \in Seq(Activation)
           /\ Front(s) # <<>>
           /\ Len(Front(s)) = Len(s) - 1
           /\ \A k \in 1..Len(s) - 1 : Front(s)[k] = s[k]
<1>1. Front(s) \in Seq(Activation) /\ Len(Front(s)) = Len(s) - 1
  BY FrontType
<1>2. \A k \in 1..Len(s) - 1 : Front(s)[k] = s[k]
  BY DEF Front
<1> QED
  BY <1>1, <1>2

\* A message is closed whose body has nothing open by hand.
LEMMA AgreesLeave ==
    ASSUME NEW s \in Seq(Activation), NEW n \in Nat, Len(s) > 1, s[Len(s)].hand = <<>>,
           AgreesWith(s, n)
    PROVE  AgreesWith(Front(s), n - 1)
<1> DEFINE t == Front(s)
           l == Len(s) - 1
<1>1. t \in Seq(Activation) /\ Len(t) = l /\ \A k \in 1..l : t[k] = s[k]
  BY FrontFacts
<1>2. l \in 1..l /\ l \in Nat /\ Len(s) = l + 1 /\ \A k \in 1..l - 1 : k \in 1..l /\ k + 1 \in 1..l
  OBVIOUS
<1> HIDE DEF t, l
<1>3. \A k \in 1..l : OpenBelow(t, k) = OpenBelow(s, k)
  BY <1>1 DEF OpenBelow
<1>4. s[l + 1] \in Activation /\ s[l + 1].hand = <<>>
  BY <1>2
<1>5. s[l + 1].base \in Nat /\ Level(l + 1) = 1
  BY <1>2, <1>4 DEF Activation, Level
<1>6. n = s[l + 1].base + 1 /\ s[l + 1].base = OpenBelow(s, l)
  BY <1>2, <1>4, <1>5 DEF AgreesWith, OpenBelow, Begun
<1>7. n - 1 = OpenBelow(t, l)
  BY <1>2, <1>3, <1>5, <1>6
<1>8. \A k \in 1..l - 1 : t[k + 1].base = OpenBelow(t, k)
  BY <1>1, <1>2, <1>3 DEF AgreesWith
<1>9. AgreesWith(t, n - 1)
  BY <1>1, <1>7, <1>8 DEF AgreesWith
<1> QED
  BY <1>9 DEF t

\* Something is open where the text has something to close.
LEMMA AgreesOpen ==
    ASSUME NEW s \in Seq(Activation), NEW n \in Nat, s # <<>>, AgreesWith(s, n),
           Len(s) > 1 \/ (s[Len(s)].hand # <<>> /\ ~Refused(s[Len(s)].hand))
    PROVE  n > 0
<1> DEFINE a == s[Len(s)]
           v == Level(Len(s))
<1>1. a \in Activation
  <2>1. Len(s) \in 1..Len(s)
    OBVIOUS
  <2> QED
    BY <2>1
<1>2. n = a.base + Begun(a.hand) + v
  BY DEF AgreesWith, OpenBelow
<1>3. v \in Nat /\ (Len(s) > 1 => v = 1)
  BY DEF Level
<1>4. (a.hand # <<>> /\ ~Refused(a.hand)) \/ v = 1
  BY <1>3
<1> HIDE DEF a, v
<1>5. a.base \in Nat /\ a.hand \in Openers
  BY <1>1 DEF Activation
<1>6. Begun(a.hand) \in Nat
  BY <1>5, BegunType
<1>7. ASSUME a.hand # <<>>, ~Refused(a.hand)
      PROVE  Begun(a.hand) > 0
  <2>1. Front(a.hand) \in Openers /\ Begun(a.hand) = Begun(Front(a.hand)) + 1
    BY <1>5, <1>7, FrontOpeners
  <2>2. Begun(Front(a.hand)) \in Nat
    BY <2>1, BegunType
  <2> QED
    BY <2>1, <2>2
<1> QED
  BY <1>2, <1>3, <1>4, <1>5, <1>6, <1>7

-----------------------------------------------------------------------------
(* What a call of the encoder, and a step of one, mean to the C++ code.    *)

\* The verdict r of a call that returns, and what it opened or closed.
Effect(what, r) ==
    /\ r \in Codes
    /\ what = "write" => Len(nest') = Len(nest)
    /\ what \in {"begin", "keep", "end"} =>
          Len(nest') = IF r = "ok" THEN Len(nest) + 1 ELSE Len(nest)
    /\ what \in {"finish", "close"} /\ r = "ok" /\ nest # <<>> =>
          Len(nest') = Len(nest) - 1

\* What a call to be made for the operation what leaves if it is not over.
Linked(what, o) ==
    /\ what = "write" => o.kind = "field"
    /\ what \in {"keep", "end", "begin"} => o.kind = "begin" /\ o.result = "ok"
    /\ what \in {"finish", "close"} =>
          o.result = "ok" /\ o.kind = IF nest = <<>> THEN "stray" ELSE "end"

Doings == {"write", "keep", "end", "begin", "finish", "close"}

Made(what) ==
    /\ phase = "idle"
    /\ Inductive'
    /\ phase' = "idle" => Effect(what, ret')
    /\ phase' # "idle" => Linked(what, op') /\ nest' = nest

LEMMA NestType ==
    ASSUME Inductive
    PROVE  nest \in Seq(Ids) /\ Len(nest) \in Nat
BY DEF Inductive, TypeOK

LEMMA RefuseMade ==
    ASSUME Inductive, Refuse, NEW what \in {"write", "begin", "keep", "end"}
    PROVE  Made(what)
<1>1. phase = "idle" /\ phase' = "idle" /\ ret' = "arg" /\ nest' = nest
  BY DEF Refuse, Called, callVars
<1>2. Effect(what, ret')
  BY <1>1 DEF Effect, Codes
<1> QED
  BY <1>1, <1>2, RefuseStep DEF Made

LEMMA StartMade ==
    ASSUME Inductive, NEW what \in Doings, NEW kind, NEW id, NEW bytes, NEW result,
           Start(kind, id, bytes, result), StartOK(kind, id, bytes, result),
           Linked(what, [kind |-> kind, id |-> id, result |-> result])
    PROVE  Made(what)
<1>1. /\ phase = "idle" /\ phase' # "idle" /\ nest' = nest
      /\ op' = [kind |-> kind, id |-> id, result |-> result]
  BY DEF Start, Called
<1> QED
  BY <1>1, StartStep DEF Made

LEMMA FieldMade ==
    ASSUME Inductive, Refuse \/ FieldStarts
    PROVE  Made("write")
<1>1. ASSUME NEW id, NEW bytes, NEW result,
             Start("field", id, bytes, result), StartOK("field", id, bytes, result)
      PROVE  Made("write")
  <2>1. Linked("write", [kind |-> "field", id |-> id, result |-> result])
    BY DEF Linked
  <2> QED
    BY <1>1, <2>1, StartMade DEF Doings
<1> QED
  BY <1>1, RefuseMade DEF FieldStarts

LEMMA EncodeStart ==
    ASSUME NEW id \in Ids \cup {BadId}, NEW v \in Values, Encode(id, v)
    PROVE  Refuse \/ FieldStarts
<1>1. v.n \in Nat
  BY CppOStreamAssumption
<1>2. \A total \in Nat : \A pushed \in 0..total : \A result \in {"ok", "arg"} :
         (result = "ok" => pushed = total) /\ WriteField(id, total, pushed, result)
            => Refuse \/ FieldStarts
  BY FieldStart
<1>3. ASSUME NEW n \in Nat, WriteScalar(id, n)
      PROVE  Refuse \/ FieldStarts
  <2>1. n \in 0..n
    OBVIOUS
  <2> QED
    BY <1>2, <1>3, <2>1 DEF WriteScalar
<1>4. ASSUME NEW n \in Nat, NEW valid, WriteFixlen(id, n, valid)
      PROVE  Refuse \/ FieldStarts
  <2>1. 1 + n \in Nat /\ 1 + n \in 0..1 + n
    OBVIOUS
  <2> QED
    BY <1>2, <1>4, <2>1 DEF WriteFixlen
<1>5. ASSUME NEW n \in Nat, WriteVarintArray(id, n, TRUE)
      PROVE  Refuse \/ FieldStarts
  <2>1. 1 + n \in Nat /\ 1 + n \in 0..1 + n
    OBVIOUS
  <2> QED
    BY <1>2, <1>5, <2>1 DEF WriteVarintArray
<1>6. ASSUME NEW n \in Nat, WriteFixlenArray(id, n)
      PROVE  Refuse \/ FieldStarts
  <2>1. 2 + n \in Nat /\ 2 + n \in 0..2 + n
    OBVIOUS
  <2> QED
    BY <1>2, <1>6, <2>1 DEF WriteFixlenArray
<1>7. 4 * v.n \in Nat /\ 8 * v.n \in Nat
  BY <1>1
<1> QED
  BY <1>1, <1>3, <1>4, <1>5, <1>6, <1>7
  DEF Encode, WriteBoolean, WriteFp32, WriteFp64, WriteString, WriteBlob,
      WriteArrayOfIntegers, WriteArrayOfFp32, WriteArrayOfFp64

LEMMA EncodeMade ==
    ASSUME Inductive, NEW id \in Ids \cup {BadId}, NEW v \in Values, Encode(id, v)
    PROVE  Made("write")
BY EncodeStart, FieldMade

LEMMA OpenerMade ==
    ASSUME Inductive, NEW id \in Ids, SequenceBeginLazy(id),
           NEW what \in {"keep", "end", "begin"}
    PROVE  Made(what)
<1>1. CASE Len(pending) < LAZY_SEQ_DEPTH /\ HoldBack(id)
  <2>1. phase = "idle" /\ phase' = "idle" /\ ret' = "ok" /\ nest' = Append(nest, id)
    BY <1>1 DEF HoldBack, Called, callVars
  <2>2. Len(nest') = Len(nest) + 1
    BY <2>1, NestType
  <2>3. Effect(what, ret')
    BY <2>1, <2>2 DEF Effect, Codes
  <2> QED
    BY <1>1, <2>1, <2>3, HoldBackStep DEF Made
<1>2. CASE Start("begin", id, Bytes("start", id, IdLen[id]), "ok")
  <2>1. Linked(what, [kind |-> "begin", id |-> id, result |-> "ok"])
    BY DEF Linked
  <2> QED
    BY <1>2, <2>1, OpenerStart, StartMade DEF Doings
<1> QED
  BY <1>1, <1>2 DEF SequenceBeginLazy

LEMMA AnyOpenerMade ==
    ASSUME Inductive, NEW id \in Ids \cup {BadId}, SequenceBeginLazy(id),
           NEW what \in {"keep", "end", "begin"}
    PROVE  Made(what)
<1>1. CASE id \in Ids
  BY <1>1, OpenerMade
<1>2. CASE id \notin Ids
  BY <1>2, RefuseMade DEF SequenceBeginLazy
<1> QED
  BY <1>1, <1>2

LEMMA CloserMade ==
    ASSUME Inductive, SequenceEnd \/ SequenceEndKeep \/ SequenceEndUnopened,
           NEW what \in {"finish", "close"}
    PROVE  Made(what)
<1>2. CASE nest # <<>> /\ pending # <<>> /\ DropHeld
  <2>1. phase = "idle" /\ phase' = "idle" /\ ret' = "ok" /\ nest' = Front(nest)
    BY <1>2 DEF DropHeld, Called, callVars
  <2>2. Len(nest') = Len(nest) - 1
    BY <1>2, <2>1, NestType, FrontType
  <2>3. Effect(what, ret')
    BY <2>1, <2>2 DEF Effect, Codes
  <2> QED
    BY <1>2, <2>1, <2>3, DropHeldStep DEF Made
<1>3. ASSUME nest # <<>>, NEW tok \in {"end", "keep"}, Start("end", 0, EndMarker(tok), "ok")
      PROVE  Made(what)
  <2>1. Linked(what, [kind |-> "end", id |-> 0, result |-> "ok"])
    BY <1>3 DEF Linked
  <2> QED
    BY <1>3, <2>1, CloserStart, StartMade DEF Doings
<1>4. CASE SequenceEndUnopened
  <2>1. Linked(what, [kind |-> "stray", id |-> 0, result |-> "ok"])
    BY <1>4 DEF Linked, SequenceEndUnopened
  <2> QED
    BY <1>4, <2>1, StrayStart, StartMade DEF Doings, SequenceEndUnopened
<1> QED
  BY <1>2, <1>3, <1>4 DEF SequenceEnd, SequenceEndKeep

\* A step of a running call either goes on or returns.
LEMMA RunningEffect ==
    ASSUME Inductive, Running, NEW what \in Doings, Linked(what, op)
    PROVE  /\ Inductive'
           /\ phase # "idle"
           /\ op' = op
           /\ phase' = "idle" => Effect(what, ret')
           /\ phase' # "idle" => nest' = nest
<1>1. Inductive'
  BY NextInductive DEF Next
<1>2. ASSUME HasByte, Advance, UNCHANGED <<op, nest>>
      PROVE  phase # "idle" /\ phase' # "idle" /\ op' = op /\ nest' = nest
  BY <1>2 DEF HasByte, Advance
<1>3. ASSUME HasByte, GiveUp
      PROVE  phase # "idle" /\ op' = op /\ Effect(what, ret') /\ phase' = "idle"
  BY <1>3 DEF HasByte, GiveUp, Effect, Codes
<1>4. CASE PushByte
  BY <1>1, <1>2, <1>4 DEF PushByte
<1>5. ASSUME NEW inst \in Installs \cup {Keep}, PushThroughSink(inst)
      PROVE  phase # "idle" /\ phase' # "idle" /\ op' = op /\ nest' = nest
  BY <1>2, <1>5 DEF PushThroughSink
<1>6. ASSUME NEW inst \in Installs \cup {Keep}, PushSinkLeftNoRoom(inst)
      PROVE  phase # "idle" /\ op' = op /\ Effect(what, ret') /\ phase' = "idle"
  BY <1>3, <1>6 DEF PushSinkLeftNoRoom
<1>7. CASE PushNoSink
  BY <1>1, <1>3, <1>7 DEF PushNoSink
<1>8. CASE Return
  <2>1. phase = "emit" /\ phase' = "idle" /\ ret' = op.result /\ op' = op
    BY <1>8 DEF Return
  <2>2. op.result \in {"ok", "arg"} /\ nest \in Seq(Ids) /\ op.id \in Ids \cup {0}
    BY DEF Inductive, TypeOK
  <2>3. /\ op.result = "ok" /\ op.kind = "begin" => nest' = Append(nest, op.id)
        /\ op.result = "ok" /\ op.kind = "end" => nest' = Front(nest)
        /\ op.kind \in {"field", "stray"} \/ op.result # "ok" => nest' = nest
    BY <1>8 DEF Return
  <2>4. Len(Append(nest, op.id)) = Len(nest) + 1
    BY <2>2
  <2>5. nest # <<>> => Len(Front(nest)) = Len(nest) - 1
    BY <2>2, FrontType
  <2>6. Effect(what, op.result)
    BY <2>2, <2>3, <2>4, <2>5 DEF Effect, Linked, Codes, Doings
  <2> QED
    BY <1>1, <2>1, <2>6
<1> QED
  BY <1>1, <1>4, <1>5, <1>6, <1>7, <1>8 DEF Running, PushNoRoom

-----------------------------------------------------------------------------
(* What the C++ code makes of a verdict.                                   *)

\* The conditions under which it runs for the operation what.
Ready(what) ==
    /\ what \in Doings
    /\ what = "finish" => Current.hand # <<>>
    /\ what = "close" => Len(acts) > 1 /\ Current.hand = <<>>
    /\ what # "close" /\ ~discarded' => Current.code = "ok"

LEMMA CurrentType ==
    ASSUME CppTypeOK
    PROVE  /\ Len(acts) \in Nat \ {0}
           /\ Current = acts[Len(acts)]
           /\ Current \in Activation
BY DEF CppTypeOK, Current, Last

\* The stack after the verdict, if no closer went wrong, is that of the
\* sequences then open.
LEMMA StackAfter ==
    ASSUME Inductive, Inductive', CppTypeOK, NEW what, NEW r, Effect(what, r), Ready(what)
    PROVE  /\ AfterCall(what, r) \in Seq(Activation)
           /\ AfterCall(what, r) # <<>>
           /\ AgreesWith(acts, Len(nest)) /\ ~Mispaired(what, r) =>
                 AgreesWith(AfterCall(what, r), Len(nest'))
           /\ Last(AfterCall(what, r)).code =
                 IF what = "close" THEN FirstFailure(Current.code, r) ELSE r
<1>1. /\ acts \in Seq(Activation) /\ acts # <<>> /\ Len(acts) \in 1..Len(acts)
      /\ Current = acts[Len(acts)] /\ Current \in Activation
  BY CurrentType DEF CppTypeOK
<1>2. Len(nest) \in Nat /\ Len(nest') \in Nat
  <2>1. nest \in Seq(Ids) /\ nest' \in Seq(Ids)
    BY DEF Inductive, TypeOK
  <2> QED
    BY <2>1
<1>3. r \in Codes
  BY DEF Effect
<1>4. CASE what \in {"keep", "end"} /\ r = "ok"
  <2> DEFINE e == [closer |-> what, code |-> "ok", hand |-> <<>>, base |-> Len(nest)]
  <2>0. <<>> \in Openers
    BY DEF Openers
  <2>1. e \in Activation /\ e.base = Len(nest) /\ e.hand = <<>> /\ e.code = "ok"
    BY <1>2, <1>4, <2>0 DEF Activation, Codes
  <2>2. AfterCall(what, r) = Append(acts, e)
    BY <1>4 DEF AfterCall, Entered
  <2>3. Len(nest') = Len(nest) + 1
    BY <1>4 DEF Effect
  <2> HIDE DEF e
  <2>4. AgreesWith(acts, Len(nest)) => AgreesWith(Append(acts, e), Len(nest'))
    BY <1>1, <1>2, <2>1, <2>3, AgreesEnter
  <2>5. /\ Append(acts, e) \in Seq(Activation) /\ Append(acts, e) # <<>>
        /\ Last(Append(acts, e)) = e
    BY <1>1, <2>1 DEF Last
  <2> QED
    BY <1>4, <2>1, <2>2, <2>4, <2>5
<1>5. CASE what = "begin" \/ what = "finish"
  <2> DEFINE c == Chain(acts, r)
             l == Len(acts)
             h == IF what = "begin" THEN Begin(c[l].hand, r) ELSE Front(c[l].hand)
             t == [c EXCEPT ![l].hand = h]
  <2>1. /\ c \in Seq(Activation) /\ c # <<>> /\ Len(c) = l /\ c[l].code = r
        /\ \A k \in 1..l : c[k].base = acts[k].base /\ c[k].hand = acts[k].hand
    BY <1>1, <1>3, ChainFacts DEF Last
  <2>2. AfterCall(what, r) = t
    BY <1>5 DEF AfterCall
  <2>3. /\ c[l] \in Activation /\ l \in 1..l /\ c[l].hand = Current.hand
        /\ Current.hand \in Openers
    <3>1. Current.hand \in Openers
      BY <1>1 DEF Activation
    <3> QED
      BY <1>1, <2>1, <3>1
  <2>4. h \in Openers
    BY <1>5, <2>3, BeginFacts, FrontOpeners DEF Ready
  <2>14. /\ what = "begin" => Begun(h) = IF r = "ok" THEN Begun(Current.hand) + 1
                                                   ELSE Begun(Current.hand)
         /\ what = "finish" /\ ~Refused(Current.hand) => Begun(Current.hand) = Begun(h) + 1
    BY <1>5, <2>3, BeginFacts, FrontOpeners DEF Ready
  <2> HIDE DEF h, c
  <2>5. /\ [c[l] EXCEPT !.hand = h] \in Activation
        /\ [c[l] EXCEPT !.hand = h].hand = h
        /\ [c[l] EXCEPT !.hand = h].base = c[l].base
        /\ [c[l] EXCEPT !.hand = h].code = c[l].code
    BY <2>3, <2>4 DEF Activation
  <2>6. /\ t \in Seq(Activation) /\ Len(t) = l
        /\ t[l] = [c[l] EXCEPT !.hand = h]
        /\ \A k \in 1..l - 1 : t[k] = c[k]
    BY <2>1, <2>3, <2>5
  <2> HIDE DEF t
  <2>7. t # <<>> /\ Last(t) = t[l]
    BY <1>1, <2>6 DEF Last
  <2>8. /\ \A k \in 1..l : t[k].base = acts[k].base
        /\ \A k \in 1..l - 1 : t[k].hand = acts[k].hand
        /\ t[l].hand = h /\ t[l].code = r
    <3>1. t[l].base = c[l].base /\ t[l].hand = h /\ t[l].code = r
      BY <2>1, <2>5, <2>6
    <3>2. \A k \in 1..l - 1 : t[k].base = c[k].base /\ t[k].hand = c[k].hand
      BY <2>6
    <3>3. \A k \in 1..l : k = l \/ k \in 1..l - 1
      BY <2>3
    <3>4. \A k \in 1..l - 1 : k \in 1..l
      BY <2>3
    <3> QED
      BY <2>1, <3>1, <3>2, <3>3, <3>4
  <2>9. ASSUME AgreesWith(acts, Len(nest)), ~Mispaired(what, r)
        PROVE  Len(nest') - Len(nest) = Begun(h) - Begun(acts[l].hand)
    <3>1. Begun(h) \in Nat /\ Begun(acts[l].hand) \in Nat /\ acts[l].hand = Current.hand
      BY <1>1, <2>3, <2>4, BegunType
    <3>2. CASE what = "begin"
      <4>1. Len(nest') = IF r = "ok" THEN Len(nest) + 1 ELSE Len(nest)
        BY <3>2 DEF Effect
      <4> QED
        BY <1>2, <2>14, <3>1, <3>2, <4>1
    <3>3. CASE what = "finish"
      <4>1. r = "ok" /\ ~Refused(Current.hand) /\ Current.hand # <<>>
        BY <2>9, <3>3 DEF Mispaired, Ready
      <4>2. Len(nest) > 0
        BY <1>1, <1>2, <2>9, <4>1, AgreesOpen
      <4>3. nest # <<>>
        BY <4>2
      <4>4. Len(nest') = Len(nest) - 1
        BY <3>3, <4>1, <4>3 DEF Effect
      <4> QED
        BY <1>2, <2>14, <3>1, <3>3, <4>1, <4>4
    <3> QED
      BY <1>5, <3>2, <3>3
  <2>10. AgreesWith(acts, Len(nest)) /\ ~Mispaired(what, r) => AgreesWith(t, Len(nest'))
    BY <1>1, <1>2, <2>6, <2>8, <2>9, AgreesHand
  <2> QED
    BY <1>5, <2>2, <2>6, <2>7, <2>8, <2>10
<1>6. CASE what = "close"
  <2> DEFINE f == Front(acts)
             q == FirstFailure(Current.code, r)
  <2>1. Len(acts) > 1 /\ acts[Len(acts)].hand = <<>>
    BY <1>1, <1>6 DEF Ready
  <2>2. f \in Seq(Activation) /\ f # <<>> /\ Len(f) \in Nat
    BY <1>1, <2>1, FrontFacts
  <2>3. q \in Codes
    BY <1>1, <1>3 DEF FirstFailure, Activation
  <2>4. AfterCall(what, r) = Chain(f, q)
    BY <1>6 DEF AfterCall
  <2>5. AgreesWith(acts, Len(nest)) /\ ~Mispaired(what, r) => Len(nest') = Len(nest) - 1
    <3>1. ~Mispaired(what, r) => r = "ok"
      BY <1>6 DEF Mispaired
    <3>2. AgreesWith(acts, Len(nest)) => nest # <<>>
      BY <1>1, <1>2, <2>1, AgreesOpen
    <3> QED
      BY <1>6, <3>1, <3>2 DEF Effect
  <2>6. AgreesWith(acts, Len(nest)) => AgreesWith(f, Len(nest) - 1)
    BY <1>1, <1>2, <2>1, AgreesLeave
  <2> HIDE DEF f, q
  <2>7. /\ Chain(f, q) \in Seq(Activation) /\ Chain(f, q) # <<>>
        /\ Len(Chain(f, q)) = Len(f) /\ Last(Chain(f, q)).code = q
        /\ \A k \in 1..Len(f) : /\ Chain(f, q)[k].base = f[k].base
                               /\ Chain(f, q)[k].hand = f[k].hand
    BY <2>2, <2>3, ChainFacts
  <2>8. AgreesWith(acts, Len(nest)) /\ ~Mispaired(what, r)
           => AgreesWith(Chain(f, q), Len(nest'))
    BY <1>2, <2>2, <2>5, <2>6, <2>7, AgreesSame
  <2> QED
    BY <1>6, <2>4, <2>7, <2>8 DEF q
<1>7. CASE what = "write" \/ (what \in {"keep", "end"} /\ r # "ok")
  <2>1. AfterCall(what, r) = Chain(acts, r)
    BY <1>7 DEF AfterCall
  <2>2. Len(nest') = Len(nest)
    BY <1>7 DEF Effect
  <2>3. /\ Chain(acts, r) \in Seq(Activation) /\ Chain(acts, r) # <<>>
        /\ Len(Chain(acts, r)) = Len(acts) /\ Last(Chain(acts, r)).code = r
        /\ \A k \in 1..Len(acts) : /\ Chain(acts, r)[k].base = acts[k].base
                                  /\ Chain(acts, r)[k].hand = acts[k].hand
    BY <1>1, <1>3, ChainFacts
  <2>4. AgreesWith(acts, Len(nest)) => AgreesWith(Chain(acts, r), Len(nest'))
    BY <1>1, <1>2, <2>2, <2>3, AgreesSame
  <2> QED
    BY <1>7, <2>1, <2>3, <2>4
<1> QED
  BY <1>4, <1>5, <1>6, <1>7 DEF Ready, Doings

\* A C call returns r: everything but the encoder's own invariant.
LEMMA ReturnedStep ==
    ASSUME CppInductive, Inductive', NEW what, NEW r, Returned(what, r),
           Effect(what, r), Ready(what), phase' = "idle", doing' \in Doings,
           discarded' \in BOOLEAN, discarded => discarded'
    PROVE  CppInductive'
<1>1. Inductive /\ CppTypeOK /\ (~discarded => Current.code = latch)
  BY DEF CppInductive
<1>2. r \in Codes
  BY DEF Effect
<1>3. acts' \in Seq(Activation) /\ acts' # <<>>
  BY <1>1, StackAfter DEF Returned
<1>4. latch' \in Codes /\ unpaired' \in BOOLEAN
  BY <1>1, <1>2 DEF Returned, Latched, CppTypeOK, Mispaired
<1>5. CppTypeOK'
  BY <1>1, <1>3, <1>4 DEF CppTypeOK, Doings
<1>6. StackAgrees'
  <2> SUFFICES ASSUME ~unpaired' PROVE AgreesWith(acts', Len(nest'))
    BY DEF StackAgrees
  <2>1. ~unpaired /\ ~Mispaired(what, r)
    BY DEF Returned
  <2>2. AgreesWith(acts, Len(nest))
    BY <2>1 DEF CppInductive, StackAgrees
  <2> QED
    BY <1>1, <2>1, <2>2, StackAfter DEF Returned
<1>7. CallAgrees'
  BY DEF CallAgrees
<1>8. ~discarded' => Current'.code = latch'
  <2> SUFFICES ASSUME ~discarded' PROVE Current'.code = latch'
    OBVIOUS
  <2>1. Current.code = latch
    BY <1>1
  <2>2. Current'.code = IF what = "close" THEN FirstFailure(Current.code, r) ELSE r
    BY <1>1, StackAfter DEF Returned, Current
  <2>3. latch' = IF latch = "ok" THEN r ELSE latch
    BY DEF Returned, Latched
  <2> QED
    BY <2>1, <2>2, <2>3 DEF FirstFailure, Ready
<1> QED
  BY <1>5, <1>6, <1>7, <1>8 DEF CppInductive

\* A C call goes on: the encoder has only noted what it is.
LEMMA GoingOn ==
    ASSUME CppInductive, Inductive', NEW what, Ready(what), Linked(what, op'),
           phase' # "idle", nest' = nest, UNCHANGED <<acts, latch, unpaired>>,
           doing' = what, discarded' \in BOOLEAN, discarded => discarded'
    PROVE  CppInductive'
<1>1. CppTypeOK'
  BY DEF CppInductive, CppTypeOK, Ready, Doings
<1>2. StackAgrees'
  BY DEF CppInductive, StackAgrees
<1>3. CallAgrees'
  BY DEF CallAgrees, Ready, Linked, Current
<1>4. ~discarded' => Current'.code = latch'
  BY DEF CppInductive, Current
<1> QED
  BY <1>1, <1>2, <1>3, <1>4 DEF CppInductive

\* The two together: a call is made for the operation what.
LEMMA ThroughStep ==
    ASSUME CppInductive, NEW what, Made(what), Through(what), Ready(what),
           discarded' \in BOOLEAN, discarded => discarded'
    PROVE  CppInductive'
<1>1. CASE phase' = "idle"
  BY <1>1, ReturnedStep DEF Made, Through, Ready
<1>2. CASE phase' # "idle"
  BY <1>2, GoingOn DEF Made, Through
<1> QED
  BY <1>1, <1>2

LEMMA IssueStep ==
    ASSUME CppInductive, NEW what \in Doings \ {"close"}, Made(what), Issue(what),
           what = "finish" => Current.hand # <<>>
    PROVE  CppInductive'
<1>1. discarded \in BOOLEAN
  BY DEF CppInductive, CppTypeOK
<1>2. Ready(what)
  BY DEF Ready, Issue
<1>3. /\ Through(what) /\ discarded' \in BOOLEAN
      /\ discarded => discarded'
  BY <1>1 DEF Issue
<1> QED
  BY <1>2, <1>3, ThroughStep

-----------------------------------------------------------------------------
(* The steps of the C++ stream.                                            *)

LEMMA AnswerStep ==
    ASSUME CppInductive, NEW r \in {"arg", "ok"}, Answer(r)
    PROVE  CppInductive'
<1>1. /\ phase' = "idle" /\ nest' = nest /\ Returned("write", r) /\ doing' \in Doings
  BY DEF Answer, vars, Doings
<1>2. Inductive'
  BY NextInductive DEF CppInductive, Answer
<1>3. Effect("write", r)
  BY <1>1 DEF Effect, Codes
<1>4. Ready("write")
  BY DEF Ready, Doings, Answer
<1>5. discarded' \in BOOLEAN /\ (discarded => discarded')
  BY DEF Answer, CppInductive, CppTypeOK
<1> QED
  BY <1>1, <1>2, <1>3, <1>4, <1>5, ReturnedStep

LEMMA SkipEndStep ==
    ASSUME CppInductive, SkipEnd
    PROVE  CppInductive'
<1> DEFINE l == Len(acts)
           e == [acts[l] EXCEPT !.hand = Front(@)]
<1>1. CppTypeOK /\ l \in 1..l /\ Current = acts[l] /\ Current \in Activation
  BY CurrentType DEF CppInductive
<1>2. /\ acts' = [acts EXCEPT ![l].hand = Front(@)]
      /\ unpaired' = (unpaired \/ ~Refused(Current.hand))
      /\ UNCHANGED <<vars, doing, latch, discarded>>
      /\ Current.hand # <<>> /\ phase = "idle"
  BY DEF SkipEnd
<1>12. /\ Current.hand \in Openers /\ Front(Current.hand) \in Openers
       /\ Refused(Current.hand) => Begun(Current.hand) = Begun(Front(Current.hand))
  <2>1. Current.hand \in Openers
    BY <1>1 DEF Activation
  <2> QED
    BY <1>2, <2>1, FrontOpeners
<1>3. /\ e \in Activation /\ e.code = Current.code /\ e.base = Current.base
      /\ e.hand = Front(Current.hand)
  BY <1>1, <1>12 DEF Activation
<1>4. acts \in Seq(Activation) /\ acts' = [acts EXCEPT ![l] = e]
  BY <1>1, <1>2 DEF CppTypeOK
<1> HIDE DEF e
<1>5. acts' \in Seq(Activation) /\ Len(acts') = l /\ acts'[l] = e
  BY <1>1, <1>3, <1>4
<1>6. acts' # <<>> /\ Current' = e
  BY <1>1, <1>5 DEF Current, Last
<1>7. Inductive'
  BY <1>2, NextInductive DEF CppInductive
<1>8. CppTypeOK'
  BY <1>1, <1>2, <1>5, <1>6 DEF CppTypeOK
<1>13. StackAgrees'
  <2> SUFFICES ASSUME ~unpaired' PROVE AgreesWith(acts', Len(nest'))
    BY DEF StackAgrees
  <2>1. ~unpaired /\ Refused(Current.hand) /\ nest' = nest
    BY <1>2 DEF vars
  <2>2. AgreesWith(acts, Len(nest))
    BY <2>1 DEF CppInductive, StackAgrees
  <2>3. Len(nest) \in Nat /\ acts # <<>>
    <3>1. Inductive
      BY DEF CppInductive
    <3> QED
      BY <1>1, <3>1, NestType DEF CppTypeOK
  <2>4. acts'[l].base = acts[l].base /\ acts'[l].hand = Front(acts[l].hand)
    BY <1>1, <1>3, <1>5
  <2>5. \A k \in 1..l : k # l => acts'[k] = acts[k]
    BY <1>4
  <2>6. \A k \in 1..l : acts'[k].base = acts[k].base
    BY <2>4, <2>5
  <2>7. \A k \in 1..l - 1 : acts'[k].hand = acts[k].hand
    BY <1>1, <2>5
  <2>8. Begun(acts'[l].hand) = Begun(acts[l].hand) /\ Begun(acts[l].hand) \in Nat
    BY <1>1, <1>12, <2>1, <2>4, BegunType
  <2>9. Len(nest) - Len(nest) = Begun(acts'[l].hand) - Begun(acts[l].hand)
    BY <2>3, <2>8
  <2> QED
    BY <1>4, <1>5, <2>1, <2>2, <2>3, <2>6, <2>7, <2>9, AgreesHand
<1>9. CallAgrees'
  BY <1>2 DEF CallAgrees, vars
<1>10. ~discarded' => Current'.code = latch'
  BY <1>2, <1>3, <1>6 DEF CppInductive
<1> QED
  BY <1>7, <1>8, <1>9, <1>10, <1>13 DEF CppInductive

LEMMA FlushOrSetStep ==
    ASSUME CppInductive, FlushOrSet
    PROVE  CppInductive'
<1>1. Inductive
  BY DEF CppInductive
<1>2. /\ phase' = "idle" /\ nest' = nest /\ Inductive'
  BY <1>1, FlushStep, BufferSetStep DEF FlushOrSet, Flush, BufferSet, Called, callVars
<1>3. doing' = "write" /\ UNCHANGED <<acts, latch, discarded, unpaired>>
  BY DEF FlushOrSet
<1>4. CppTypeOK'
  BY <1>3 DEF CppInductive, CppTypeOK
<1>5. StackAgrees' /\ CallAgrees'
  BY <1>2, <1>3 DEF CppInductive, StackAgrees, CallAgrees
<1>6. ~discarded' => Current'.code = latch'
  BY <1>3 DEF CppInductive, Current
<1> QED
  BY <1>2, <1>4, <1>5, <1>6 DEF CppInductive

LEMMA CppRunningStep ==
    ASSUME CppInductive, CppRunning
    PROVE  CppInductive'
<1>1. Running /\ Through(doing) /\ discarded' = discarded
  BY DEF CppRunning
<1>2. Inductive /\ CppTypeOK /\ CallAgrees
  BY DEF CppInductive
<1>3. doing \in Doings /\ discarded \in BOOLEAN
  BY <1>2 DEF CppTypeOK, Doings
<1>4. phase # "idle"
  BY <1>1
  DEF Running, PushByte, PushThroughSink, PushNoRoom, PushSinkLeftNoRoom, PushNoSink, Return,
      HasByte
<1>5. Linked(doing, op)
  BY <1>2, <1>4 DEF CallAgrees, Linked
<1>6. Ready(doing)
  BY <1>1, <1>2, <1>3, <1>4 DEF CallAgrees, Ready
<1>7. /\ Inductive' /\ op' = op
      /\ phase' = "idle" => Effect(doing, ret')
      /\ phase' # "idle" => nest' = nest
  BY <1>1, <1>2, <1>3, <1>5, RunningEffect
<1>8. CASE phase' = "idle"
  BY <1>1, <1>3, <1>6, <1>7, <1>8, ReturnedStep DEF Through
<1>9. CASE phase' # "idle"
  <2>1. Linked(doing, op')
    BY <1>5, <1>7
  <2> QED
    BY <1>1, <1>3, <1>6, <1>7, <1>9, <2>1, GoingOn DEF Through
<1> QED
  BY <1>8, <1>9

LEMMA CppCallStep ==
    ASSUME CppInductive, CppCall
    PROVE  CppInductive'
<1>1. Inductive
  BY DEF CppInductive
<1>2. ASSUME NEW id \in Ids \cup {BadId}, NEW v \in Values, Write(id, v)
      PROVE  CppInductive'
  <2>1. CASE v.type = "oversize"
    BY <1>2, <2>1, AnswerStep DEF Write
  <2>2. CASE v.type # "oversize"
    BY <1>1, <1>2, <2>2, EncodeMade, IssueStep DEF Write, Doings
  <2> QED
    BY <2>1, <2>2
<1>3. ASSUME NEW id \in Ids \cup {BadId}, NEW closer \in {"keep", "end"},
             WriteMessage(id, closer)
      PROVE  CppInductive'
  BY <1>1, <1>3, AnyOpenerMade, IssueStep DEF WriteMessage, Doings
<1>4. ASSUME NEW id \in Ids \cup {BadId}, BeginByHand(id)
      PROVE  CppInductive'
  BY <1>1, <1>4, AnyOpenerMade, IssueStep DEF BeginByHand, Doings
<1>5. CASE EndByHand
  BY <1>1, <1>5, CloserMade, IssueStep DEF EndByHand, Doings
<1>6. CASE RejectArgument \/ WriteIfFalse
  BY <1>6, AnswerStep DEF RejectArgument, WriteIfFalse
<1>7. CASE Close
  <2>1. Made("close")
    BY <1>1, <1>7, CloserMade DEF Close, Closer
  <2>2. Ready("close")
    BY <1>7 DEF Close, Ready, Doings
  <2>3. Through("close") /\ discarded' = discarded /\ discarded \in BOOLEAN
    BY <1>7 DEF Close, CppInductive, CppTypeOK
  <2> QED
    BY <2>1, <2>2, <2>3, ThroughStep
<1> QED
  BY <1>2, <1>3, <1>4, <1>5, <1>6, <1>7, SkipEndStep, FlushOrSetStep DEF CppCall

LEMMA CppInitInductive == CppInit => CppInductive
<1> SUFFICES ASSUME CppInit PROVE CppInductive
  OBVIOUS
<1> DEFINE a == [closer |-> "none", code |-> "ok", hand |-> <<>>, base |-> 0]
<1>0. <<>> \in Openers
  BY DEF Openers
<1>1. a \in Activation /\ acts = <<a>> /\ a.hand = <<>> /\ a.base = 0 /\ a.code = "ok"
  BY <1>0 DEF CppInit, Activation, Codes
<1> HIDE DEF a
<1>2. acts \in Seq(Activation) /\ acts # <<>> /\ Len(acts) = 1 /\ acts[1] = a
  BY <1>1
<1>3. Current = a
  BY <1>2 DEF Current, Last
<1>4. Inductive /\ Len(nest) = 0 /\ phase = "idle"
  BY InitInductive DEF CppInit, Init
<1>5. CppTypeOK
  BY <1>2 DEF CppInit, CppTypeOK, Codes
<1>6. StackAgrees
  BY <1>1, <1>2, <1>4 DEF StackAgrees, AgreesWith, OpenBelow, Level, Begun
<1>7. CallAgrees
  BY <1>4 DEF CallAgrees
<1> QED
  BY <1>1, <1>3, <1>4, <1>5, <1>6, <1>7 DEF CppInductive, CppInit

LEMMA CppNextInductive == CppInductive /\ [CppNext]_allVars => CppInductive'
<1> SUFFICES ASSUME CppInductive, [CppNext]_allVars PROVE CppInductive'
  OBVIOUS
<1>1. CASE UNCHANGED allVars
  <2>1. UNCHANGED vars
    BY <1>1 DEF allVars
  <2>2. Inductive'
    BY <2>1, NextInductive DEF CppInductive
  <2>3. CppTypeOK'
    BY <1>1 DEF allVars, cppVars, CppInductive, CppTypeOK
  <2>4. StackAgrees'
    BY <1>1 DEF allVars, cppVars, vars, CppInductive, StackAgrees
  <2>5. CallAgrees'
    BY <1>1 DEF allVars, cppVars, vars, CppInductive, CallAgrees, Current
  <2>6. ~discarded' => Current'.code = latch'
    BY <1>1 DEF allVars, cppVars, CppInductive, Current
  <2> QED
    BY <2>2, <2>3, <2>4, <2>5, <2>6 DEF CppInductive
<1> QED
  BY <1>1, CppRunningStep, CppCallStep DEF CppNext

\* The encoder's invariant, the types, and the agreement between the stack of
\* messages being serialized and the sequences open in the encoder.
THEOREM CppInductiveHolds == CppSpec => []CppInductive
<1> QED
  BY CppInitInductive, CppNextInductive, PTL DEF CppSpec

\* Whatever a program writes, however it nests and whatever fails on the way,
\* refused openers included, the sequences open are one for each enclosing
\* message and one for each opener by hand that succeeded, until a closer finds
\* no room, is skipped or is made for an opener that was refused.
\* (write, writeLazy, sequenceBeginLazy, sequenceEnd)
THEOREM SequencesCloseAsWritten == CppSpec => []OpenAsWritten
<1>1. CppInductive => OpenAsWritten
  <2> SUFFICES ASSUME CppInductive, ~unpaired
               PROVE  Len(nest) = Current.base + Begun(Current.hand)
                                     + (IF Len(acts) > 1 THEN 1 ELSE 0)
    BY DEF OpenAsWritten
  <2>1. Current = acts[Len(acts)]
    BY CurrentType DEF CppInductive
  <2> QED
    BY <2>1 DEF CppInductive, StackAgrees, AgreesWith, OpenBelow, Level
<1> QED
  BY <1>1, CppInductiveHolds, PTL

\* A program that throws no failed Result away learns of every failure from
\* the last Result of its chain.  (Result, write, writeLazy)
THEOREM ChainsTell == CppSpec => []ChainTells
<1>1. CppInductive => ChainTells
  BY DEF CppInductive, ChainTells
<1> QED
  BY <1>1, CppInductiveHolds, PTL

-----------------------------------------------------------------------------
(* What the program has written.                                           *)

\* To the stream, a step of a C++ program is a step of the encoder, of which
\* it calls the writers with lengths of its own.
LEMMA CppStepEffects ==
    ASSUME CppInductive, [CppNext]_allVars
    PROVE  Pushes \/ (Stream' = Stream /\ ((HasByte /\ GiveUp) \/ Return \/ Calls))
<1>1. Inductive
  BY DEF CppInductive
<1>2. ASSUME NEW id \in Ids \cup {BadId}, NEW v \in Values, Encode(id, v)
      PROVE  Stream' = Stream /\ Calls
  <2>1. Refuse \/ FieldStarts
    BY <1>2, EncodeStart
  <2>2. Calls
    BY <2>1, StartsFit DEF FieldStarts, Starts, Calls
  <2>3. UNCHANGED bufVars
    BY <2>1 DEF FieldStarts, Start, Refuse
  <2> QED
    BY <1>1, <2>2, <2>3, StreamKept
<1>3. CASE [Next]_vars
  BY <1>1, <1>3, StepEffects
<1>4. CASE CppRunning
  BY <1>3, <1>4 DEF CppRunning, Next
<1>5. ASSUME NEW id \in Ids \cup {BadId}, SequenceBeginLazy(id)
      PROVE  [Next]_vars
  BY <1>5 DEF Next, Call
<1>6. CASE SequenceEnd \/ SequenceEndKeep
  BY <1>3, <1>6 DEF Next, Call
<1>9. CASE SequenceEndUnopened
  <2> DEFINE t == EndMarker("stray")
  <2>1. Start("stray", 0, t, "ok") /\ nest = <<>>
    BY <1>9 DEF SequenceEndUnopened
  <2>2. StartOK("stray", 0, t, "ok")
    BY StrayStart
  <2>3. t[1].tok = "stray"
    BY DEF EndMarker
  <2> HIDE DEF t
  <2>4. StartFits("stray", t)
    BY <2>1, <2>3 DEF StartFits
  <2>5. Starts /\ UNCHANGED bufVars
    BY <2>1, <2>2, <2>4 DEF Starts, Start
  <2> QED
    BY <1>1, <2>5, StreamKept DEF Calls
<1>7. CASE FlushOrSet
  BY <1>3, <1>7 DEF FlushOrSet, Next, Call
<1>8. CASE UNCHANGED vars
  BY <1>3, <1>8
<1> QED
  BY <1>2, <1>3, <1>4, <1>5, <1>6, <1>7, <1>8, <1>9
  DEF CppNext, CppCall, Write, WriteMessage, BeginByHand, EndByHand, SkipEnd, Answer,
      RejectArgument, WriteIfFalse, Close, Closer, allVars

\* A call that fails returns what it failed with.
LEMMA FailureIsReturned ==
    ASSUME Inductive,
           Pushes \/ (Stream' = Stream /\ ((HasByte /\ GiveUp) \/ Return \/ Calls))
    PROVE  failed' => failed \/ (phase' = "idle" /\ ret' # "ok")
<1>1. CASE Pushes
  BY <1>1 DEF Pushes
<1>2. CASE GiveUp
  BY <1>2 DEF GiveUp
<1>3. CASE Return
  BY <1>3 DEF Return
<1>4. CASE Calls
  BY <1>4 DEF Calls, Refuse, Starts, Start, HoldBack, DropHeld, Called, callVars
<1> QED
  BY <1>1, <1>2, <1>3, <1>4

\* Nothing has failed in an activation.
Unscathed(a) == a.code = "ok" /\ AllBegun(a.hand)

\* The activations a verdict leaves.
LEMMA AfterCallCodes ==
    ASSUME CppTypeOK, NEW what \in Doings, NEW r \in Codes,
           what = "finish" => Current.hand # <<>>, what = "close" => Len(acts) > 1
    PROVE  /\ AfterCall(what, r)[1].base = acts[1].base
           /\ (r = "ok" /\ \A k \in 1..Len(acts) : Unscathed(acts[k])) =>
                 /\ \A k \in 1..Len(AfterCall(what, r)) : Unscathed(AfterCall(what, r)[k])
                 /\ ~Mispaired(what, r)
<1> DEFINE t == AfterCall(what, r)
           l == Len(acts)
<1>1. /\ acts \in Seq(Activation) /\ acts # <<>> /\ l \in Nat \ {0} /\ l \in 1..l /\ 1 \in 1..l
      /\ Current = acts[l] /\ Current \in Activation
  BY CurrentType DEF CppTypeOK
<1>10. Current.hand \in Openers
  BY <1>1 DEF Activation
<1>11. (r = "ok" /\ \A k \in 1..l : Unscathed(acts[k])) => ~Mispaired(what, r)
  BY <1>1, <1>10, AllBegunFacts DEF Mispaired, Unscathed
<1>2. ASSUME NEW s \in Seq(Activation), s # <<>>, NEW q \in Codes
      PROVE  /\ Len(Chain(s, q)) = Len(s) /\ 1 \in 1..Len(s)
             /\ \A k \in 1..Len(s) : /\ Chain(s, q)[k].base = s[k].base
                                    /\ Chain(s, q)[k].hand = s[k].hand
                                    /\ Chain(s, q)[k].code = IF k = Len(s) THEN q ELSE s[k].code
             /\ Chain(s, q) \in Seq(Activation)
  <2>1. /\ Chain(s, q) \in Seq(Activation) /\ Len(Chain(s, q)) = Len(s)
        /\ Last(Chain(s, q)).code = q
        /\ \A k \in 1..Len(s) : /\ Chain(s, q)[k].base = s[k].base
                              /\ Chain(s, q)[k].hand = s[k].hand
    BY <1>2, ChainFacts
  <2>2. Len(s) \in Nat /\ Len(s) # 0 /\ 1 \in 1..Len(s)
    BY <1>2
  <2>3. Chain(s, q)[Len(s)].code = q
    BY <2>1 DEF Last
  <2>4. \A k \in 1..Len(s) : k # Len(s) => Chain(s, q)[k] = s[k]
    BY DEF Chain
  <2> QED
    BY <2>1, <2>2, <2>3, <2>4
<1>3. CASE what \in {"keep", "end"} /\ r = "ok"
  <2> DEFINE e == [closer |-> what, code |-> "ok", hand |-> <<>>, base |-> Len(nest)]
  <2>1. t = Append(acts, e)
    BY <1>3 DEF AfterCall, Entered
  <2>4. Unscathed(e)
    BY DEF Unscathed, AllBegun
  <2> HIDE DEF e
  <2>2. Len(t) = l + 1 /\ t[l + 1] = e /\ \A k \in 1..l : t[k] = acts[k]
    BY <1>1, <2>1
  <2>3. \A k \in 1..l + 1 : k \in 1..l \/ k = l + 1
    BY <1>1
  <2> HIDE DEF t, l
  <2> QED
    BY <1>1, <1>11, <2>2, <2>3, <2>4 DEF t, l
<1>4. CASE what = "begin" \/ what = "finish"
  <2> DEFINE c == Chain(acts, r)
             h == IF what = "begin" THEN Begin(c[l].hand, r) ELSE Front(c[l].hand)
  <2>1. /\ c \in Seq(Activation) /\ Len(c) = l
        /\ \A k \in 1..l : /\ c[k].base = acts[k].base /\ c[k].hand = acts[k].hand
                          /\ c[k].code = IF k = l THEN r ELSE acts[k].code
    BY <1>1, <1>2
  <2>2. t = [c EXCEPT ![l] = [c[l] EXCEPT !.hand = h]]
    BY <1>4 DEF AfterCall
  <2>3. r = "ok" /\ AllBegun(Current.hand) => AllBegun(h)
    BY <1>1, <1>4, <1>10, <2>1, AllBegunFacts
  <2> HIDE DEF c, h, t
  <2>4. c[l] \in Activation
    BY <1>1, <2>1
  <2>5. /\ [c[l] EXCEPT !.hand = h].base = c[l].base
        /\ [c[l] EXCEPT !.hand = h].code = c[l].code
        /\ [c[l] EXCEPT !.hand = h].hand = h
    BY <2>4 DEF Activation
  <2>6. Len(t) = l /\ t[l] = [c[l] EXCEPT !.hand = h] /\ \A k \in 1..l : k # l => t[k] = c[k]
    BY <1>1, <2>1, <2>2
  <2>7. /\ \A k \in 1..l : t[k].base = c[k].base /\ t[k].code = c[k].code
        /\ \A k \in 1..l : k # l => t[k].hand = c[k].hand
        /\ t[l].hand = h
    BY <2>5, <2>6
  <2>8. ASSUME r = "ok", \A k \in 1..l : Unscathed(acts[k])
        PROVE  \A k \in 1..l : Unscathed(t[k])
    <3>1. AllBegun(h)
      BY <1>1, <2>3, <2>8 DEF Unscathed
    <3> QED
      BY <1>1, <2>1, <2>7, <2>8, <3>1 DEF Unscathed
  <2> QED
    BY <1>1, <1>11, <2>1, <2>6, <2>7, <2>8 DEF t
<1>5. CASE what = "close"
  <2> DEFINE f == Front(acts)
             q == FirstFailure(Current.code, r)
  <2>1. f \in Seq(Activation) /\ f # <<>> /\ Len(f) = l - 1 /\ \A k \in 1..l - 1 : f[k] = acts[k]
    BY <1>1, <1>5, FrontFacts
  <2>2. q \in Codes /\ (r = "ok" /\ Current.code = "ok" => q = "ok")
    <3>1. Current.code \in Codes
      BY <1>1 DEF Activation
    <3> QED
      BY <3>1 DEF FirstFailure
  <2>3. t = Chain(f, q)
    BY <1>5 DEF AfterCall
  <2>4. l > 1 /\ 1 \in 1..l - 1 /\ \A k \in 1..l - 1 : k \in 1..l
    BY <1>1, <1>5
  <2> HIDE DEF f, q, t
  <2>5. /\ Len(t) = Len(f)
        /\ \A k \in 1..Len(f) : /\ t[k].base = f[k].base
                               /\ t[k].hand = f[k].hand
                               /\ t[k].code = IF k = Len(f) THEN q ELSE f[k].code
    BY <1>2, <2>1, <2>2, <2>3
  <2> HIDE DEF l
  <2>6. t[1].base = acts[1].base
    BY <2>1, <2>4, <2>5
  <2>7. ASSUME r = "ok", \A k \in 1..l : Unscathed(acts[k])
        PROVE  \A k \in 1..Len(t) : Unscathed(t[k])
    <3>1. Current.code = "ok" /\ q = "ok"
      BY <1>1, <2>2, <2>7 DEF Unscathed
    <3>2. \A k \in 1..Len(f) : Unscathed(f[k])
      BY <2>1, <2>4, <2>7
    <3> QED
      BY <2>5, <3>1, <3>2 DEF Unscathed
  <2> QED
    BY <1>11, <2>6, <2>7 DEF t, l
<1>6. CASE what = "write" \/ (what \in {"keep", "end"} /\ r # "ok")
  <2>1. t = Chain(acts, r)
    BY <1>6 DEF AfterCall
  <2>2. /\ Len(t) = l
        /\ \A k \in 1..l : /\ t[k].base = acts[k].base
                          /\ t[k].hand = acts[k].hand
                          /\ t[k].code = IF k = l THEN r ELSE acts[k].code
    BY <1>1, <1>2, <2>1
  <2> HIDE DEF t
  <2> QED
    BY <1>1, <1>11, <2>2 DEF t, Unscathed
<1> QED
  BY <1>3, <1>4, <1>5, <1>6 DEF Doings


\* A verdict reaches the latch, and a good one changes nothing of the past.
LEMMA ReturnedCovers ==
    ASSUME CppTypeOK, VerdictCovers, NEW what \in Doings, NEW r \in Codes,
           what = "finish" => Current.hand # <<>>, what = "close" => Len(acts) > 1,
           Returned(what, r), failed' => failed \/ r # "ok"
    PROVE  VerdictCovers'
<1>1. /\ acts'[1].base = acts[1].base
      /\ (r = "ok" /\ \A k \in 1..Len(acts) : Unscathed(acts[k])) =>
             (\A k \in 1..Len(acts') : Unscathed(acts'[k])) /\ ~Mispaired(what, r)
  BY AfterCallCodes DEF Returned
<1>2. latch' = "ok" => latch = "ok" /\ r = "ok"
  BY DEF Returned, Latched
<1>3. unpaired' = (unpaired \/ Mispaired(what, r))
  BY DEF Returned
<1>4. SUFFICES ASSUME latch' = "ok"
               PROVE  /\ ~unpaired' /\ ~failed'
                      /\ \A k \in 1..Len(acts') : Unscathed(acts'[k])
  BY <1>1 DEF VerdictCovers, Unscathed
<1>5. latch = "ok" /\ r = "ok"
  BY <1>2, <1>4
<1>6. ~unpaired /\ ~failed /\ \A k \in 1..Len(acts) : Unscathed(acts[k])
  BY <1>5 DEF VerdictCovers, Unscathed
<1> QED
  BY <1>1, <1>3, <1>5, <1>6

LEMMA CppVerdictStep ==
    ASSUME CppInductive, VerdictCovers, [CppNext]_allVars
    PROVE  VerdictCovers'
<1>1. /\ Inductive /\ CppTypeOK /\ CallAgrees
      /\ CppTypeOK' /\ Inductive'
  BY CppNextInductive DEF CppInductive
<1>2. failed' => failed \/ (phase' = "idle" /\ ret' # "ok")
  BY <1>1, CppStepEffects, FailureIsReturned
<1>3. ret' \in Codes
  BY <1>1 DEF Inductive, TypeOK, Codes
<1>4. ASSUME NEW what \in Doings, Through(what), what = "finish" => Current.hand # <<>>,
             what = "close" => Len(acts) > 1
      PROVE  VerdictCovers'
  <2>1. CASE phase' = "idle"
    BY <1>1, <1>2, <1>3, <1>4, <2>1, ReturnedCovers DEF Through
  <2>2. CASE phase' # "idle"
    <3>1. UNCHANGED <<acts, latch, unpaired>> /\ (failed' => failed)
      BY <1>2, <1>4, <2>2 DEF Through
    <3> QED
      BY <3>1 DEF VerdictCovers
  <2> QED
    BY <2>1, <2>2
<1>5. ASSUME NEW what \in Doings \ {"close"}, Issue(what),
             what = "finish" => Current.hand # <<>>
      PROVE  VerdictCovers'
  BY <1>4, <1>5 DEF Issue
<1>6. ASSUME NEW r \in {"arg", "ok"}, Answer(r)
      PROVE  VerdictCovers'
  <2>1. Returned("write", r) /\ failed' = failed /\ "write" \in Doings /\ r \in Codes
    BY <1>6 DEF Answer, vars, Doings, Codes
  <2> QED
    BY <1>1, <2>1, ReturnedCovers
<1>7. CASE CppRunning
  <2>1. Running /\ Through(doing) /\ doing \in Doings
    BY <1>1, <1>7 DEF CppRunning, CppTypeOK, Doings
  <2>2. phase # "idle"
    BY <2>1
    DEF Running, PushByte, PushThroughSink, PushNoRoom, PushSinkLeftNoRoom, PushNoSink,
        Return, HasByte
  <2>3. (doing = "finish" => Current.hand # <<>>) /\ (doing = "close" => Len(acts) > 1)
    BY <1>1, <2>2 DEF CallAgrees
  <2> QED
    BY <1>4, <2>1, <2>3
<1>8. CASE SkipEnd
  <2> DEFINE l == Len(acts)
             e == [acts[l] EXCEPT !.hand = Front(@)]
  <2>1. /\ acts \in Seq(Activation) /\ l \in 1..l /\ 1 \in 1..l /\ l \in Nat
        /\ Current = acts[l] /\ Current \in Activation
    BY <1>1, CurrentType DEF CppTypeOK
  <2>2. Current.code # "ok" /\ acts' = [acts EXCEPT ![l] = e] /\ latch' = latch
    BY <1>8 DEF SkipEnd
  <2>3. e.base = acts[l].base
    BY <2>1 DEF Activation
  <2> HIDE DEF e
  <2>4. acts'[1].base = acts[1].base
    BY <2>1, <2>2, <2>3
  <2>5. latch # "ok"
    BY <2>1, <2>2 DEF VerdictCovers
  <2> QED
    BY <2>2, <2>4, <2>5 DEF VerdictCovers
<1>9. CASE FlushOrSet
  <2>1. UNCHANGED <<acts, latch, unpaired, failed>>
    BY <1>9 DEF FlushOrSet, Flush, BufferSet
  <2> QED
    BY <2>1 DEF VerdictCovers
<1>10. CASE UNCHANGED allVars
  <2>1. UNCHANGED <<acts, latch, unpaired, failed>>
    BY <1>10 DEF allVars, cppVars, vars
  <2> QED
    BY <2>1 DEF VerdictCovers
<1>11. CASE Close
  BY <1>4, <1>11 DEF Close, Doings
<1>12. CASE CppCall
  <2>1. ASSUME NEW id, NEW v, Write(id, v)
        PROVE  VerdictCovers'
    BY <1>5, <1>6, <2>1 DEF Write, Doings
  <2>2. ASSUME NEW id, NEW closer \in {"keep", "end"}, WriteMessage(id, closer)
        PROVE  VerdictCovers'
    BY <1>5, <2>2 DEF WriteMessage, Doings
  <2>3. CASE (\E id \in Ids \cup {BadId} : BeginByHand(id)) \/ EndByHand
    BY <1>5, <2>3 DEF BeginByHand, EndByHand, Doings
  <2>4. CASE RejectArgument \/ WriteIfFalse
    BY <1>6, <2>4 DEF RejectArgument, WriteIfFalse
  <2> QED
    BY <1>8, <1>9, <1>11, <1>12, <2>1, <2>2, <2>3, <2>4 DEF CppCall
<1> QED
  BY <1>7, <1>10, <1>12 DEF CppNext

LEMMA CppInitCovers ==
    ASSUME CppInit
    PROVE  VerdictCovers
<1> DEFINE a == [closer |-> "none", code |-> "ok", hand |-> <<>>, base |-> 0]
<1>1. acts = <<a>> /\ a.base = 0 /\ a.code = "ok" /\ AllBegun(a.hand)
  BY DEF CppInit, AllBegun
<1> HIDE DEF a
<1>2. Len(acts) = 1 /\ acts[1] = a
  BY <1>1
<1>3. \A k \in 1..Len(acts) : acts[k].code = "ok" /\ AllBegun(acts[k].hand)
  BY <1>1, <1>2
<1> QED
  BY <1>1, <1>2, <1>3 DEF CppInit, Init, VerdictCovers

LEMMA CppKnownInit == CppInit => CppInductive /\ StreamKnown /\ VerdictCovers /\ Writer!Init
BY CppInitInductive, CppInitCovers, KnownInit DEF CppInit

LEMMA CppKnownNext ==
    CppInductive /\ StreamKnown /\ VerdictCovers /\ [CppNext]_allVars
        => CppInductive' /\ StreamKnown' /\ VerdictCovers' /\ [Writer!Next]_(Writer!vars)
<1>1. CppInductive => Inductive
  BY DEF CppInductive
<1> QED
  BY <1>1, CppNextInductive, CppVerdictStep, CppStepEffects, KnownStep

\* Everything known of the stream of a C++ program and of its verdict.
THEOREM CppStreamHolds == CppSpec => [](CppInductive /\ StreamKnown /\ VerdictCovers)
BY CppKnownInit, CppKnownNext, PTL DEF CppSpec

\* A message the stream calls good is whole, whatever Results were thrown
\* away: no sequence is open, none is held back, and no field breaks off.
THEOREM OkIsComplete == CppSpec => []OkMeansComplete
<1>1. CppInductive /\ StreamKnown /\ VerdictCovers => OkMeansComplete
  <2> SUFFICES ASSUME CppInductive, StreamKnown, VerdictCovers, phase = "idle", latch = "ok",
                      Len(acts) = 1, Current.hand = <<>>
               PROVE  /\ nest = <<>> /\ framed = <<>> /\ pending = <<>>
                      /\ Stream = <<>> \/ Last(Stream).i = Last(Stream).n
    BY DEF OkMeansComplete
  <2>1. /\ nest \in Seq(Ids) /\ framed \in Seq(Ids) /\ pending \in Seq(Ids)
        /\ nest = framed \o pending
    BY DEF CppInductive, Inductive, TypeOK, NestingAgrees
  <2>2. ~unpaired /\ ~failed /\ acts[1].base = 0
    BY DEF VerdictCovers
  <2>3. Current = acts[1]
    BY CurrentType DEF CppInductive
  <2>4. Len(nest) = 0
    BY <2>2, <2>3 DEF CppInductive, StackAgrees, AgreesWith, OpenBelow, Level, Begun
  <2>5. nest = <<>>
    BY <2>1, <2>4, EmptySeq
  <2>6. Len(framed) = 0 /\ Len(pending) = 0
    BY <2>1, <2>4, ConcatProperties
  <2>7. framed = <<>> /\ pending = <<>>
    BY <2>1, <2>6, EmptySeq
  <2>8. Stream = <<>> \/ Last(Stream).i = Last(Stream).n
    BY <2>2 DEF StreamKnown, StreamInv, StreamInCall, Rested
  <2> QED
    BY <2>5, <2>7, <2>8
<1> QED
  BY <1>1, CppStreamHolds, PTL

\* An empty message of a C++ program whose id was held back leaves no trace,
\* as long as no call failed.  (write, writeLazy)
THEOREM CppEmptyLeavesNoTrace == CppSpec => []CanonicalOmission
<1>1. StreamKnown => CanonicalOmission
  BY DEF StreamKnown, StreamInv
<1> QED
  BY <1>1, CppStreamHolds, PTL

\* A receiver of what a C++ program writes has open what its encoder has framed.
THEOREM CppReceiverAgrees == CppSpec => []FramedIsOnTheWire
<1>1. StreamKnown => FramedIsOnTheWire
  BY DEF StreamKnown
<1> QED
  BY <1>1, CppStreamHolds, PTL

\* What a C++ program writes is a token list of the abstract writer, too.
THEOREM CppWriterRefinement == CppSpec => ImplementsWriter
BY CppKnownInit, CppKnownNext, PTL DEF CppSpec, ImplementsWriter, Writer!Spec
=============================================================================
