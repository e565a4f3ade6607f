------------------------ MODULE ObjectTransferProofs ------------------------
(***************************************************************************)
(* Theorems about the encoding of objects in module ObjectEncode and about *)
(* the way of an object to a receiver in module ObjectTransfer, for every  *)
(* descriptor, every object and every write at which the stream may run    *)
(* out of room.                                                            *)
(***************************************************************************)
EXTENDS ObjectTransfer, ObjectDecodeProofs, FiniteSetTheorems

Results == {"ok", "arg", "full"}

-----------------------------------------------------------------------------
(* The descriptor.                                                         *)

LEMMA FieldsType ==
    ASSUME NEW n \in Nodes
    PROVE  /\ Kind(n) \in LeafKinds \cup {"struct", "holder", "sized", "union"}
           /\ Len(Schema[n].kids) \in Nat
           /\ \A i \in 1..Len(Schema[n].kids) : Schema[n].kids[i] \in Nodes
           /\ Id(n) \in Nat /\ Cap(n) \in Nat
<1>1. /\ Kind(n) \in LeafKinds \cup {"struct", "holder", "sized", "union"}
      /\ Schema[n].kids \in Seq(Nodes \ {Root})
      /\ Id(n) \in Nat /\ Cap(n) \in Nat
  BY SchemaAssumption
<1> QED
  BY <1>1, LenProperties, ElementOfSeq

LEMMA MemoryType ==
    ASSUME NEW m \in Memory, NEW n \in Nodes
    PROVE  m[n] \in Seq(Nat) /\ (Kind(n) = "sized" => m[n][1] \in Nat)
<1>1. m[n] \in Seq(Nat) /\ (Kind(n) = "sized" => Len(m[n]) = 1)
  BY DEF Memory
<1>2. ASSUME Kind(n) = "sized" PROVE m[n][1] \in Nat
  <2>0. Len(m[n]) = 1
    BY <1>1, <1>2
  <2>1. 1 \in 1..Len(m[n])
    BY <2>0
  <2> QED
    BY <1>1, <2>1, ElementOfSeq
<1> QED
  BY <1>1, <1>2

\* No more slots are walked than there are.
LEMMA CountBound ==
    ASSUME src \in Memory, NEW n \in Nodes
    PROVE  Count(n) \in Nat /\ Count(n) <= Len(Schema[n].kids)
<1>1. Len(Schema[n].kids) \in Nat
  BY FieldsType
<1>2. CASE Kind(n) = "sized"
  <2>1. src[n][1] \in Nat
    BY <1>2, MemoryType
  <2>2. Count(n) = AtMost(src[n][1], Len(Schema[n].kids))
    BY <1>2 DEF Count, Wrapper, SeqLen
  <2> HIDE DEF Count
  <2> QED
    BY <1>1, <2>1, <2>2 DEF AtMost
<1>3. CASE Kind(n) # "sized"
  BY <1>1, <1>3 DEF Count, SeqLen
<1> QED
  BY <1>2, <1>3

LEMMA UsedType ==
    ASSUME src \in Memory, NEW n \in Nodes
    PROVE  Used(n, src) \in Seq(Nat)
<1>1. src[n] \in Seq(Nat) /\ Len(src[n]) \in Nat /\ Cap(n) \in Nat
  BY MemoryType, FieldsType
<1> DEFINE k == AtMost(Len(src[n]), Cap(n))
<1>2. k \in Nat /\ k <= Len(src[n])
  BY <1>1 DEF AtMost
<1> HIDE DEF k
<1>3. SubSeq(src[n], 1, k) \in Seq(Nat)
  BY <1>1, <1>2, SubSeqProperties
<1> QED
  BY <1>1, <1>3 DEF Used, k

-----------------------------------------------------------------------------
(* The activations.                                                        *)

Rets(st) == {st[j].ret : j \in 1..Len(st)}

LEMMA TopType ==
    ASSUME NEW st \in Seq(Frames), st # <<>>
    PROVE  /\ Len(st) \in Nat \ {0}
           /\ st[Len(st)] \in Frames
           /\ st[Len(st)].node \in Nodes
           /\ st[Len(st)].i \in Nat \ {0}
           /\ st[Len(st)].ret \in Results
<1>1. Len(st) \in Nat \ {0}
  BY EmptySeq
<1>2. st[Len(st)] \in Frames
  BY <1>1, ElementOfSeq
<1> QED
  BY <1>1, <1>2 DEF Frames, Errors, Results

\* An activation goes on with the next field.
LEMMA OnwardType ==
    ASSUME NEW x \in Frames, NEW r \in Results
    PROVE  Onward(x, r) \in Frames /\ Onward(x, r).ret = r
<1>1. x.node \in Nodes /\ x.i \in Nat \ {0} /\ r \in Errors \cup {"ok"}
  BY DEF Frames, Errors, Results
<1>2. x.i + 1 \in Nat \ {0}
  BY <1>1
<1> QED
  BY <1>1, <1>2 DEF Onward, Frames

\* The activation that is running is replaced by e.
LEMMA ReplaceTop ==
    ASSUME NEW st \in Seq(Frames), st # <<>>, NEW e \in Frames
    PROVE  LET new == [st EXCEPT ![Len(st)] = e]
           IN  /\ new \in Seq(Frames) /\ Len(new) = Len(st) /\ new # <<>>
               /\ Rets(new) = {st[j].ret : j \in 1..Len(st) - 1} \cup {e.ret}
<1> DEFINE n == Len(st)
           new == [st EXCEPT ![Len(st)] = e]
<1>1. n \in Nat \ {0} /\ n \in 1..n
  BY TopType
<1>2. new = [st EXCEPT ![n] = e] /\ n = Len(st)
  OBVIOUS
<1> HIDE DEF n, new
<1>3. /\ new \in Seq(Frames) /\ Len(new) = n
      /\ \A j \in 1..n : new[j] = IF j = n THEN e ELSE st[j]
  BY <1>1, <1>2, ExceptSeq
<1>4. new # <<>>
  BY <1>1, <1>3
<1>5. 1..n = (1..n - 1) \cup {n} /\ n \notin 1..n - 1
  BY <1>1
<1>6. Rets(new) = {st[j].ret : j \in 1..n - 1} \cup {e.ret}
  BY <1>3, <1>5 DEF Rets
<1> QED
  BY <1>2, <1>3, <1>4, <1>6 DEF new

LEMMA RetsOfTop ==
    ASSUME NEW st \in Seq(Frames), st # <<>>
    PROVE  Rets(st) = {st[j].ret : j \in 1..Len(st) - 1} \cup {st[Len(st)].ret}
<1> DEFINE n == Len(st)
<1>1. n \in Nat \ {0}
  BY TopType
<1> HIDE DEF n
<1>2. 1..n = (1..n - 1) \cup {n}
  BY <1>1
<1> QED
  BY <1>2 DEF Rets, n

\* A nested call.
LEMMA PushFrame ==
    ASSUME NEW st \in Seq(Frames), NEW e \in Frames
    PROVE  /\ Append(st, e) \in Seq(Frames)
           /\ Len(Append(st, e)) = Len(st) + 1
           /\ Append(st, e) # <<>>
           /\ Rets(Append(st, e)) = Rets(st) \cup {e.ret}
<1> DEFINE n == Len(st)
           new == Append(st, e)
<1>1. /\ n \in Nat /\ new \in Seq(Frames) /\ Len(new) = n + 1
      /\ new[n + 1] = e /\ \A j \in 1..n : new[j] = st[j]
  BY AppendProperties, LenProperties
<1>2. n = Len(st)
  OBVIOUS
<1> HIDE DEF n, new
<1>3. 1..n + 1 = (1..n) \cup {n + 1}
  BY <1>1
<1>4. Rets(new) = Rets(st) \cup {e.ret}
  BY <1>1, <1>2, <1>3 DEF Rets
<1>5. new # <<>>
  BY <1>1
<1> QED
  BY <1>1, <1>2, <1>4, <1>5 DEF new

\* The call returns: its activation goes, and that of the caller becomes e.
LEMMA PopFrame ==
    ASSUME NEW st \in Seq(Frames), Len(st) > 1, NEW e \in Frames
    PROVE  LET new == Append(SubSeq(st, 1, Len(st) - 2), e)
               rest == {st[j].ret : j \in 1..Len(st) - 2}
           IN  /\ new \in Seq(Frames) /\ Len(new) = Len(st) - 1 /\ new # <<>>
               /\ Rets(new) = rest \cup {e.ret}
               /\ Rets(st) = rest \cup {st[Len(st) - 1].ret, st[Len(st)].ret}
<1> DEFINE n == Len(st)
           low == SubSeq(st, 1, n - 2)
           rest == {st[j].ret : j \in 1..n - 2}
<1>1. n \in Nat /\ n > 1 /\ n - 2 \in Nat /\ n = Len(st)
  BY LenProperties
<1> HIDE DEF n
<1>2. /\ low \in Seq(Frames) /\ Len(low) = n - 2
      /\ \A j \in 1..n - 2 : low[j] = st[j]
  BY <1>1
<1>3. Rets(low) = rest
  BY <1>2 DEF Rets
<1>4. 1..n = (1..n - 2) \cup {n - 1, n}
  BY <1>1
<1>5. Rets(st) = rest \cup {st[n - 1].ret, st[n].ret}
  BY <1>1, <1>4 DEF Rets
<1> HIDE DEF low, rest
<1>6. /\ Append(low, e) \in Seq(Frames) /\ Append(low, e) # <<>>
      /\ Len(Append(low, e)) = n - 1
      /\ Rets(Append(low, e)) = rest \cup {e.ret}
  BY <1>1, <1>2, <1>3, PushFrame
<1> QED
  BY <1>5, <1>6 DEF n, low, rest


-----------------------------------------------------------------------------
(* Errors.                                                                 *)

\* The errors A after one more call, and the results B with one more.
Failing(A, r) == A \cup ({r} \ {"ok"})
Joining(B, r) == B \cup {r}

\* One more call, which returns r where none had failed yet.
LEMMA GravestOfCall ==
    ASSUME NEW A, NEW B, NEW r \in Results, Gravest(A) = Gravest(Joining(B, "ok"))
    PROVE  /\ Gravest(Failing(A, r)) = Gravest(Joining(B, r))
           /\ Gravest(Failing(A, r)) = Gravest(Joining(Joining(B, r), "ok"))
BY DEF Gravest, Results, Failing, Joining

\* Two results and that of the closing call are joined into one.
LEMMA GravestOfReturn ==
    ASSUME NEW A, NEW B, NEW a \in Results, NEW b \in Results, NEW r \in Results,
           Gravest(A) = Gravest(Joining(Joining(B, a), b))
    PROVE  /\ Or(Or(a, b), r) \in Results
           /\ Gravest(Failing(A, r)) = Gravest(Joining(B, Or(Or(a, b), r)))
<1> DEFINE g == Or(Or(a, b), r)
<1>1. /\ g \in Results
      /\ g = "full" <=> "full" \in {a, b, r}
      /\ g = "arg" <=> "arg" \in {a, b, r} /\ "full" \notin {a, b, r}
  BY DEF Or, Results
<1> HIDE DEF g
<1>2. Gravest(Failing(A, r)) = Gravest(Joining(B, g))
  BY <1>1 DEF Gravest, Results, Failing, Joining
<1> QED
  BY <1>1, <1>2 DEF g

-----------------------------------------------------------------------------
(* Tokens on the wire.                                                     *)

LEMMA SentIsFinite ==
    ASSUME wire \in Seq(Token), NEW tok
    PROVE  IsFiniteSet(Sent(tok)) /\ Cardinality(Sent(tok)) \in Nat
<1>1. Len(wire) \in Nat
  BY LenProperties
<1>2. IsFiniteSet(1..Len(wire)) /\ Sent(tok) \subseteq 1..Len(wire)
  BY <1>1, FS_Interval DEF Sent
<1>3. IsFiniteSet(Sent(tok))
  BY <1>2, FS_Subset
<1> QED
  BY <1>3, FS_CardinalityType

LEMMA SentOneMore ==
    ASSUME wire \in Seq(Token), NEW t \in Token, wire' = Append(wire, t), NEW tok
    PROVE  Cardinality(Sent(tok))' = Cardinality(Sent(tok)) + (IF t.tok = tok THEN 1 ELSE 0)
<1> DEFINE n == Len(wire)
<1>1. /\ n \in Nat /\ Len(wire') = n + 1 /\ wire'[n + 1] = t
      /\ \A j \in 1..n : wire'[j] = wire[j]
  BY AppendProperties, LenProperties
<1>2. n = Len(wire)
  OBVIOUS
<1> HIDE DEF n
<1>3. 1..n + 1 = (1..n) \cup {n + 1} /\ n + 1 \notin 1..n
  BY <1>1
<1>4. Sent(tok)' = IF t.tok = tok THEN Sent(tok) \cup {n + 1} ELSE Sent(tok)
  BY <1>1, <1>2, <1>3 DEF Sent
<1>5. n + 1 \notin Sent(tok)
  BY <1>2, <1>3 DEF Sent
<1>6. IsFiniteSet(Sent(tok)) /\ Cardinality(Sent(tok)) \in Nat
  BY SentIsFinite
<1> DEFINE S == Sent(tok)
<1>7. Cardinality(Sent(tok))' = Cardinality(Sent(tok)')
  OBVIOUS
<1>8. CASE t.tok = tok
  <2>1. Cardinality(S \cup {n + 1}) = Cardinality(S) + 1
    BY <1>5, <1>6, FS_AddElement
  <2> QED
    BY <1>4, <1>7, <1>8, <2>1
<1>9. CASE t.tok # tok
  BY <1>4, <1>6, <1>7, <1>9
<1> QED
  BY <1>8, <1>9

LEMMA OpensAndCloses ==
    ASSUME wire \in Seq(Token), NEW t \in Token, wire' = Append(wire, t)
    PROVE  /\ StillOpen \in Int
           /\ StillOpen' = StillOpen + (IF t.tok = "start" THEN 1
                                        ELSE IF t.tok = "end" THEN -1 ELSE 0)
<1> DEFINE a == Cardinality(Sent("start"))
           b == Cardinality(Sent("end"))
<1>1. a \in Nat /\ b \in Nat
  BY SentIsFinite
<1>2. a' = a + (IF t.tok = "start" THEN 1 ELSE 0) /\ b' = b + (IF t.tok = "end" THEN 1 ELSE 0)
  BY SentOneMore
<1>3. StillOpen = a - b /\ StillOpen' = a' - b'
  BY DEF StillOpen
<1> HIDE DEF a, b
<1> QED
  BY <1>1, <1>2, <1>3

-----------------------------------------------------------------------------
(* What the steps have in common.                                          *)

LEMMA Walking ==
    ASSUME Inductive, Looping
    PROVE  /\ stack \in Seq(Frames) /\ stack # <<>> /\ Top \in Frames
           /\ Top.ret = "ok" /\ Top.i \in Nat \ {0}
           /\ Field \in Nodes
           /\ result = "none"
<1>1. stack \in Seq(Frames) /\ stack # <<>> /\ src \in Memory /\ Top.ret = "ok"
      /\ Top.i <= Count(Top.node)
  BY DEF Inductive, TypeOK, Looping
<1>2. Top \in Frames /\ Top.node \in Nodes /\ Top.i \in Nat \ {0}
  BY <1>1, TopType DEF Top
<1>3. /\ Count(Top.node) \in Nat /\ Count(Top.node) <= Len(Schema[Top.node].kids)
      /\ Len(Schema[Top.node].kids) \in Nat
      /\ \A i \in 1..Len(Schema[Top.node].kids) : Schema[Top.node].kids[i] \in Nodes
  BY <1>1, <1>2, CountBound, FieldsType
<1>4. Top.i \in 1..Len(Schema[Top.node].kids)
  BY <1>1, <1>2, <1>3
<1>5. Field \in Nodes
  BY <1>3, <1>4 DEF Field
<1>6. result = "none"
  BY <1>1 DEF Inductive, WalkEnds
<1> QED
  BY <1>1, <1>2, <1>5, <1>6

\* The running activation's result becomes r, and it goes on by one field or
\* stays where it is.
LEMMA TopChanges ==
    ASSUME Inductive, Looping, NEW r \in Results, NEW new,
           new = FrameResult(r) \/ new = NextField(r)
    PROVE  /\ new \in Seq(Frames) /\ new # <<>> /\ Len(new) = Len(stack)
           /\ \E B : Rets(stack) = B \cup {"ok"} /\ Rets(new) = B \cup {r}
<1>1. stack \in Seq(Frames) /\ stack # <<>> /\ Top \in Frames /\ Top.ret = "ok"
      /\ Top.i \in Nat \ {0}
  BY Walking
<1> DEFINE n == Len(stack)
           e == [stack[n] EXCEPT !.ret = r]
           g == Onward(stack[n], r)
           B == {stack[j].ret : j \in 1..Len(stack) - 1}
<1>2. stack[n] \in Frames /\ stack[n].ret = "ok" /\ stack[n].i \in Nat \ {0} /\ n = Len(stack)
  BY <1>1 DEF Top
<1>3. e \in Frames /\ e.ret = r
  BY <1>2 DEF Frames, Errors, Results
<1>4. g \in Frames /\ g.ret = r
  BY <1>2, OnwardType
<1>5. FrameResult(r) = [stack EXCEPT ![n] = e]
  BY DEF FrameResult
<1>6. NextField(r) = [stack EXCEPT ![n] = g]
  BY DEF NextField, Top
<1> HIDE DEF n, e, g
<1>7. PICK h \in {e, g} : new = [stack EXCEPT ![Len(stack)] = h]
  BY <1>2, <1>5, <1>6
<1>8. h \in Frames /\ h.ret = r
  BY <1>3, <1>4
<1>9. new \in Seq(Frames) /\ Len(new) = Len(stack) /\ new # <<>> /\ Rets(new) = B \cup {r}
  BY <1>1, <1>7, <1>8, ReplaceTop
<1>10. Rets(stack) = B \cup {"ok"}
  BY <1>1, <1>2, RetsOfTop
<1> QED
  BY <1>9, <1>10

\* While the walk goes on nothing is promised of its end.
LEMMA WalkGoesOn ==
    ASSUME Inductive, result = "none", UNCHANGED <<src, result>>,
           stack' \in Seq(Frames), stack' # <<>>,
           wire' \in Seq(Token), full' \in BOOLEAN, errors' \subseteq Errors,
           Gravest(errors') = Gravest(Rets(stack')),
           ~full' => StillOpen' = Len(stack') - 1
    PROVE  Inductive'
<1>1. TypeOK'
  BY DEF Inductive, TypeOK
<1>2. ErrorsCarried' /\ FramesOpen' /\ WalkEnds' /\ ErrorsSurface' /\ FramesClosed'
  BY DEF ErrorsCarried, Rets, FramesOpen, WalkEnds, ErrorsSurface, FramesClosed
<1> QED
  BY <1>1, <1>2 DEF Inductive

LEMMA CarriedIs ==
    ASSUME Inductive, stack # <<>>
    PROVE  /\ Gravest(errors) = Gravest(Rets(stack))
           /\ ~full => StillOpen = Len(stack) - 1
           /\ stack \in Seq(Frames) /\ wire \in Seq(Token) /\ errors \subseteq Errors
           /\ full \in BOOLEAN
BY DEF Inductive, TypeOK, ErrorsCarried, FramesOpen, Rets

LEMMA WriteType ==
    ASSUME Inductive, NEW t \in Token, NEW r, Write(t, r)
    PROVE  /\ r \in {"ok", "full"} /\ r \in Results
           /\ wire' \in Seq(Token) /\ full' \in BOOLEAN /\ errors' \subseteq Errors
           /\ errors' = errors \cup ({r} \ {"ok"})
           /\ ~full' => ~full /\ wire' = Append(wire, t)
<1>1. wire \in Seq(Token) /\ errors \subseteq Errors /\ full \in BOOLEAN
  BY DEF Inductive, TypeOK
<1>2. Append(wire, t) \in Seq(Token)
  BY <1>1, AppendProperties
<1>3. r \in {"ok", "full"} /\ (full => r = "full")
  BY DEF Write
<1> QED
  BY <1>1, <1>2, <1>3 DEF Write, Results, Errors

LEMMA TokenOf ==
    ASSUME src \in Memory, NEW n \in Nodes
    PROVE  /\ Leaf(n) /\ ~Refused(n) =>
                 [tok |-> "leaf", id |-> Id(n), type |-> WireType(n),
                  val |-> Used(n, src)] \in Token
           /\ [tok |-> "start", id |-> Id(n), type |-> "start", val |-> <<>>] \in Token
           /\ [tok |-> "end", id |-> 0, type |-> "end", val |-> <<>>] \in Token
<1>1. Id(n) \in Nat /\ Used(n, src) \in Seq(Nat)
  BY FieldsType, UsedType
<1>2. ASSUME Leaf(n), ~Refused(n) PROVE WireType(n) \in LeafTypes
  <2>1. Kind(n) \in {"num", "str", "arr", "sarr", "blob"}
    BY <1>2 DEF Leaf, LeafKinds, Refused
  <2> QED
    BY <2>1 DEF WireType, LeafTypes
<1>3. ASSUME Leaf(n), ~Refused(n)
      PROVE  [tok |-> "leaf", id |-> Id(n), type |-> WireType(n), val |-> Used(n, src)] \in Token
  BY <1>1, <1>2, <1>3 DEF Token
<1>4. [tok |-> "start", id |-> Id(n), type |-> "start", val |-> <<>>] \in Token
  BY <1>1 DEF Token
<1>5. [tok |-> "end", id |-> 0, type |-> "end", val |-> <<>>] \in Token
  BY DEF Token
<1> QED
  BY <1>3, <1>4, <1>5


-----------------------------------------------------------------------------
(* The steps.                                                              *)

LEMMA SkipFieldStep ==
    ASSUME Inductive, SkipField
    PROVE  Inductive'
<1>1. Looping /\ stack' = NextField("ok") /\ UNCHANGED <<src, wire, full, errors, result>>
  BY DEF SkipField
<1>2. "ok" \in Results /\ result = "none" /\ stack # <<>>
  BY <1>1, Walking DEF Results
<1>3. /\ stack' \in Seq(Frames) /\ stack' # <<>> /\ Len(stack') = Len(stack)
      /\ \E B : Rets(stack) = B \cup {"ok"} /\ Rets(stack') = B \cup {"ok"}
  BY <1>1, <1>2, TopChanges
<1>4. Rets(stack') = Rets(stack)
  BY <1>3
<1>5. StillOpen' = StillOpen
  BY <1>1 DEF StillOpen, Sent
<1> QED
  BY <1>1, <1>2, <1>3, <1>4, <1>5, CarriedIs, WalkGoesOn

LEMMA RefuseFieldStep ==
    ASSUME Inductive, RefuseField
    PROVE  Inductive'
<1>1. /\ Looping /\ stack' = FrameResult("arg") /\ UNCHANGED <<src, wire, full, result>>
      /\ errors' = errors \cup {"arg"}
  BY DEF RefuseField
<1>2. "arg" \in Results /\ result = "none" /\ stack # <<>>
  BY <1>1, Walking DEF Results
<1>3. PICK B : /\ stack' \in Seq(Frames) /\ stack' # <<>> /\ Len(stack') = Len(stack)
               /\ Rets(stack) = B \cup {"ok"} /\ Rets(stack') = B \cup {"arg"}
  BY <1>1, <1>2, TopChanges
<1>4. Gravest(errors') = Gravest(Rets(stack'))
  <2>1. errors' = errors \cup ({"arg"} \ {"ok"})
    BY <1>1
  <2>2. Gravest(errors) = Gravest(Joining(B, "ok"))
    BY <1>2, <1>3, CarriedIs DEF Joining
  <2>3. Gravest(Failing(errors, "arg")) = Gravest(Joining(B, "arg"))
    BY <1>2, <2>2, GravestOfCall
  <2> QED
    BY <1>3, <2>1, <2>3 DEF Failing, Joining
<1>5. StillOpen' = StillOpen
  BY <1>1 DEF StillOpen, Sent
<1>6. errors' \subseteq Errors
  BY <1>1, <1>2, CarriedIs DEF Errors
<1> QED
  BY <1>1, <1>2, <1>3, <1>4, <1>5, <1>6, CarriedIs, WalkGoesOn

LEMMA WriteFieldStep ==
    ASSUME Inductive, WriteField
    PROVE  Inductive'
<1> DEFINE t == [tok |-> "leaf", id |-> Id(Field), type |-> WireType(Field),
                 val |-> Used(Field, src)]
<1>1. PICK r \in {"ok", "full"} : Write(t, r) /\ stack' = NextField(r)
  BY DEF WriteField
<1>2. Looping /\ Leaf(Field) /\ ~Refused(Field) /\ UNCHANGED <<src, result>>
  BY DEF WriteField
<1>3. t \in Token /\ result = "none" /\ stack # <<>>
  BY <1>2, Walking, TokenOf DEF Inductive, TypeOK
<1>4. t.tok = "leaf"
  OBVIOUS
<1> HIDE DEF t
<1>5. /\ r \in Results
      /\ wire' \in Seq(Token) /\ full' \in BOOLEAN /\ errors' \subseteq Errors
      /\ errors' = errors \cup ({r} \ {"ok"})
      /\ ~full' => ~full /\ wire' = Append(wire, t)
  BY <1>1, <1>3, WriteType
<1>6. PICK B : /\ stack' \in Seq(Frames) /\ stack' # <<>> /\ Len(stack') = Len(stack)
               /\ Rets(stack) = B \cup {"ok"} /\ Rets(stack') = B \cup {r}
  BY <1>1, <1>2, <1>5, TopChanges
<1>7. Gravest(errors') = Gravest(Rets(stack'))
  <2>1. Gravest(errors) = Gravest(Joining(B, "ok"))
    BY <1>3, <1>6, CarriedIs DEF Joining
  <2>2. Gravest(Failing(errors, r)) = Gravest(Joining(B, r))
    BY <1>5, <2>1, GravestOfCall
  <2> QED
    BY <1>5, <1>6, <2>2 DEF Failing, Joining
<1>8. ~full' => StillOpen' = Len(stack') - 1
  <2>1. ASSUME ~full' PROVE StillOpen' = StillOpen
    <3>1. StillOpen \in Int /\ StillOpen' = StillOpen + 0
      BY <1>3, <1>4, <1>5, <2>1, CarriedIs, OpensAndCloses
    <3> QED
      BY <3>1
  <2> QED
    BY <1>3, <1>5, <1>6, <2>1, CarriedIs
<1> QED
  BY <1>2, <1>3, <1>5, <1>6, <1>7, <1>8, WalkGoesOn

LEMMA EnterSequenceStep ==
    ASSUME Inductive, EnterSequence
    PROVE  Inductive'
<1> DEFINE t == [tok |-> "start", id |-> Id(Field), type |-> "start", val |-> <<>>]
           e == Frame(Field)
<1>1. PICK r \in {"ok", "full"} : Write(t, r) /\ stack' = Append(FrameResult(r), e)
  BY DEF EnterSequence
<1>2. Looping /\ UNCHANGED <<src, result>>
  BY DEF EnterSequence
<1>3. t \in Token /\ result = "none" /\ stack # <<>> /\ Field \in Nodes
  BY <1>2, Walking, TokenOf DEF Inductive, TypeOK
<1>4. t.tok = "start" /\ e \in Frames /\ e.ret = "ok"
  <2>1. 1 \in Nat \ {0}
    OBVIOUS
  <2> QED
    BY <1>3, <2>1 DEF Frame, Frames
<1> HIDE DEF t, e
<1>5. /\ r \in Results
      /\ wire' \in Seq(Token) /\ full' \in BOOLEAN /\ errors' \subseteq Errors
      /\ errors' = errors \cup ({r} \ {"ok"})
      /\ ~full' => ~full /\ wire' = Append(wire, t)
  BY <1>1, <1>3, WriteType
<1> DEFINE mid == FrameResult(r)
<1>6. PICK B : /\ mid \in Seq(Frames) /\ Len(mid) = Len(stack)
               /\ Rets(stack) = B \cup {"ok"} /\ Rets(mid) = B \cup {r}
  BY <1>2, <1>5, TopChanges
<1>7. stack' = Append(mid, e)
  BY <1>1
<1> HIDE DEF mid
<1>8. /\ stack' \in Seq(Frames) /\ stack' # <<>> /\ Len(stack') = Len(stack) + 1
      /\ Rets(stack') = (B \cup {r}) \cup {"ok"}
  BY <1>4, <1>6, <1>7, PushFrame
<1>9. Gravest(errors') = Gravest(Rets(stack'))
  <2>1. Gravest(errors) = Gravest(Joining(B, "ok"))
    BY <1>3, <1>6, CarriedIs DEF Joining
  <2>2. Gravest(Failing(errors, r)) = Gravest(Joining(Joining(B, r), "ok"))
    BY <1>5, <2>1, GravestOfCall
  <2> QED
    BY <1>5, <1>8, <2>2 DEF Failing, Joining
<1>10. ~full' => StillOpen' = Len(stack') - 1
  <2>1. Len(stack) \in Nat
    BY <1>3, CarriedIs, LenProperties
  <2>2. ASSUME ~full' PROVE StillOpen' = StillOpen + 1
    BY <1>3, <1>4, <1>5, <2>2, CarriedIs, OpensAndCloses
  <2>3. ~full' => StillOpen = Len(stack) - 1
    BY <1>3, <1>5, CarriedIs
  <2> QED
    BY <1>8, <2>1, <2>2, <2>3
<1> QED
  BY <1>2, <1>3, <1>5, <1>8, <1>9, <1>10, WalkGoesOn

LEMMA LeaveSequenceStep ==
    ASSUME Inductive, LeaveSequence
    PROVE  Inductive'
<1> DEFINE n == Len(stack)
           t == [tok |-> "end", id |-> 0, type |-> "end", val |-> <<>>]
           caller == stack[n - 1]
           e(r) == Onward(caller, Or(Or(caller.ret, Top.ret), r))
<1>1. PICK r \in {"ok", "full"} :
         Write(t, r) /\ stack' = Append(SubSeq(stack, 1, Len(stack) - 2), e(r))
  BY DEF LeaveSequence
<1>2. /\ stack # <<>> /\ n > 1 /\ UNCHANGED <<src, result>>
  BY DEF LeaveSequence, Returning
<1>3. /\ stack \in Seq(Frames) /\ wire \in Seq(Token) /\ src \in Memory /\ result = "none"
  BY <1>2 DEF Inductive, TypeOK, WalkEnds
<1>4. n \in Nat /\ n - 1 \in 1..n /\ n \in 1..n
  BY <1>2, <1>3, LenProperties
<1>5. caller \in Frames /\ Top \in Frames
  BY <1>3, <1>4, ElementOfSeq DEF Top
<1>6. /\ caller.node \in Nodes /\ caller.i \in Nat \ {0} /\ caller.ret \in Results
      /\ Top.ret \in Results
  BY <1>5 DEF Frames, Results, Errors
<1>7. t \in Token /\ t.tok = "end"
  BY DEF Token
<1> HIDE DEF t
<1>8. /\ r \in Results
      /\ wire' \in Seq(Token) /\ full' \in BOOLEAN /\ errors' \subseteq Errors
      /\ errors' = errors \cup ({r} \ {"ok"})
      /\ ~full' => ~full /\ wire' = Append(wire, t)
  BY <1>1, <1>7, WriteType
<1> DEFINE g == e(r)
<1>9. g \in Frames /\ g.ret = Or(Or(caller.ret, Top.ret), r)
  <2> DEFINE joined == Or(Or(caller.ret, Top.ret), r)
  <2>1. joined \in Results
    BY DEF Or, Results
  <2>2. g = Onward(caller, joined)
    OBVIOUS
  <2> HIDE DEF joined, g, e, caller
  <2>3. g \in Frames /\ g.ret = joined
    BY <1>5, <2>1, <2>2, OnwardType
  <2> QED
    BY <2>3 DEF joined
<1>10. stack' = Append(SubSeq(stack, 1, Len(stack) - 2), g)
  BY <1>1
<1> DEFINE rest == {stack[j].ret : j \in 1..Len(stack) - 2}
<1>11. stack[Len(stack) - 1] = caller /\ stack[Len(stack)] = Top /\ n = Len(stack)
  BY DEF Top
<1> HIDE DEF e, g, caller, n
<1>12. /\ stack' \in Seq(Frames) /\ Len(stack') = Len(stack) - 1 /\ stack' # <<>>
       /\ Rets(stack') = rest \cup {g.ret}
       /\ Rets(stack) = rest \cup {caller.ret, Top.ret}
  BY <1>2, <1>3, <1>9, <1>10, <1>11, PopFrame
<1> HIDE DEF rest
<1>13. Gravest(errors') = Gravest(Rets(stack'))
  <2>0. Joining(Joining(rest, caller.ret), Top.ret) = Rets(stack)
    BY <1>12 DEF Joining
  <2>1. Gravest(errors) = Gravest(Joining(Joining(rest, caller.ret), Top.ret))
    BY <1>2, <2>0, CarriedIs
  <2> DEFINE a == caller.ret
             b == Top.ret
  <2>2. a \in Results /\ b \in Results /\ r \in Results
    BY <1>6, <1>8
  <2>3. Gravest(errors) = Gravest(Joining(Joining(rest, a), b))
    BY <2>1
  <2> HIDE DEF a, b
  <2>4. Gravest(Failing(errors, r)) = Gravest(Joining(rest, Or(Or(a, b), r)))
    BY <2>2, <2>3, GravestOfReturn
  <2> QED
    BY <1>8, <1>9, <1>12, <2>4 DEF Failing, Joining, a, b
<1>14. ~full' => StillOpen' = Len(stack') - 1
  <2>1. ASSUME ~full' PROVE StillOpen' = StillOpen - 1
    <3>1. StillOpen \in Int /\ StillOpen' = StillOpen + (-1)
      BY <1>3, <1>7, <1>8, <2>1, OpensAndCloses
    <3> QED
      BY <3>1
  <2>2. ~full' => StillOpen = Len(stack) - 1
    BY <1>2, <1>8, CarriedIs
  <2> QED
    BY <1>4, <1>11, <1>12, <2>1, <2>2
<1> QED
  BY <1>2, <1>3, <1>8, <1>12, <1>13, <1>14, WalkGoesOn

LEMMA FinishStep ==
    ASSUME Inductive, Finish
    PROVE  Inductive'
<1>1. /\ stack # <<>> /\ Len(stack) = 1 /\ stack' = <<>> /\ result' = Top.ret
      /\ UNCHANGED <<src, wire, full, errors>>
  BY DEF Finish, Returning
<1>2. /\ stack \in Seq(Frames)
      /\ Gravest(errors) = Gravest(Rets(stack))
      /\ ~full => StillOpen = Len(stack) - 1
  BY <1>1, CarriedIs
<1>3. Top.ret \in Results
  BY <1>1, <1>2, TopType DEF Top
<1>4. Rets(stack) = {Top.ret}
  <2>1. Rets(stack) = {stack[j].ret : j \in 1..1}
    BY <1>1 DEF Rets
  <2>2. 1..1 = {1}
    OBVIOUS
  <2> QED
    BY <1>1, <2>1, <2>2 DEF Top
<1>5. Gravest(errors) = Top.ret
  BY <1>2, <1>3, <1>4 DEF Gravest, Results
<1>6. ~full => StillOpen = 0
  BY <1>1, <1>2
<1>7. StillOpen' = StillOpen
  BY <1>1 DEF StillOpen, Sent
<1>8. TypeOK'
  <2>1. stack' \in Seq(Frames)
    BY <1>1, EmptySeq
  <2>2. result' \in Errors \cup {"none", "ok"}
    BY <1>1, <1>3 DEF Results, Errors
  <2> QED
    BY <1>1, <2>1, <2>2 DEF Inductive, TypeOK
<1>9. result' # "none"
  BY <1>1, <1>3 DEF Results
<1>10. ErrorsSurface' /\ FramesClosed'
  BY <1>1, <1>5, <1>6, <1>7 DEF ErrorsSurface, FramesClosed
<1>11. ErrorsCarried' /\ FramesOpen' /\ WalkEnds'
  BY <1>1, <1>9 DEF ErrorsCarried, FramesOpen, WalkEnds
<1> QED
  BY <1>8, <1>10, <1>11 DEF Inductive

LEMMA EncodeInit ==
    ASSUME NEW objects \in SUBSET Memory, Init(objects)
    PROVE  Inductive
<1>1. /\ src \in Memory /\ stack = <<Frame(Root)>> /\ wire = <<>> /\ full = FALSE
      /\ errors = {} /\ result = "none"
  BY DEF Init
<1>2. Frame(Root) \in Frames /\ Frame(Root).ret = "ok"
  <2>1. 1 \in Nat \ {0} /\ Root \in Nodes
    BY SchemaAssumption
  <2> QED
    BY <2>1 DEF Frame, Frames
<1>3. stack \in Seq(Frames) /\ Len(stack) = 1 /\ stack # <<>> /\ stack[1] = Frame(Root)
  BY <1>1, <1>2
<1>4. wire \in Seq(Token) /\ Len(wire) = 0
  BY <1>1, EmptySeq
<1>5. TypeOK
  BY <1>1, <1>3, <1>4 DEF TypeOK
<1>6. Rets(stack) = {"ok"}
  <2>1. 1..1 = {1}
    OBVIOUS
  <2> QED
    BY <1>2, <1>3, <2>1 DEF Rets
<1>7. ErrorsCarried
  BY <1>1, <1>6 DEF ErrorsCarried, Rets, Gravest
<1>8. StillOpen = 0
  <2>1. \A tok : Sent(tok) = {}
    BY <1>4 DEF Sent
  <2>2. Cardinality({}) = 0
    BY FS_EmptySet
  <2> QED
    BY <2>1, <2>2 DEF StillOpen
<1>9. FramesOpen
  BY <1>3, <1>8 DEF FramesOpen
<1>10. WalkEnds /\ ErrorsSurface /\ FramesClosed
  BY <1>1, <1>3 DEF WalkEnds, ErrorsSurface, FramesClosed
<1> QED
  BY <1>5, <1>7, <1>9, <1>10 DEF Inductive

LEMMA EncodeStep ==
    ASSUME Inductive, [Next]_vars
    PROVE  Inductive'
<1>1. CASE UNCHANGED vars
  BY <1>1 DEF vars, Inductive, TypeOK, ErrorsCarried, FramesOpen, WalkEnds, ErrorsSurface,
              FramesClosed, StillOpen, Sent
<1>2. CASE Next
  BY <1>2, SkipFieldStep, RefuseFieldStep, WriteFieldStep, EnterSequenceStep,
     LeaveSequenceStep, FinishStep DEF Next
<1> QED
  BY <1>1, <1>2

THEOREM EncodeInductive ==
    ASSUME NEW CONSTANT objects, objects \in SUBSET Memory
    PROVE  EncodeSpec(objects) => []Inductive
<1>1. Init(objects) => Inductive
  BY EncodeInit
<1> QED
  BY <1>1, EncodeStep, PTL DEF EncodeSpec

\* Whatever object is encoded, and at whichever write the stream runs out of
\* room: the outermost call returns the gravest error of all the calls made,
\* and ok if there was none.
THEOREM ErrorsAreReported ==
    ASSUME NEW CONSTANT objects, objects \in SUBSET Memory
    PROVE  EncodeSpec(objects) => []ErrorsSurface
<1>1. Inductive => ErrorsSurface
  BY DEF Inductive
<1> QED
  BY <1>1, EncodeInductive, PTL

\* A field that is refused, however deep, leaves no sequence open behind it.
THEOREM FramesAreClosed ==
    ASSUME NEW CONSTANT objects, objects \in SUBSET Memory
    PROVE  EncodeSpec(objects) => []FramesClosed
<1>1. Inductive => FramesClosed
  BY DEF Inductive
<1> QED
  BY <1>1, EncodeInductive, PTL

-----------------------------------------------------------------------------
(* Which fields are left out.                                              *)

\* A field is at its default if it is not held or if its parts, g, are.
DefaultBy(m, g, f) ==
    \/ NotHeld(m, f[1], f[2])
    \/ /\ ~Forced(f[1], f[2])
       /\ CASE Kind(f[2]) = "sized" -> SeqLen(f[2], m) = 0
            [] Leaf(f[2]) -> Used(f[2], m) = Default(f[2])
            [] OTHER -> \A c \in Kids(f[2]) : g[<<f[2], c>>]

\* The recursion of _field_is_default has a solution: the fields all closed
\* sets have in common.
LEMMA IsDefaultIs ==
    ASSUME NEW m
    PROVE  IsDefault(m) = [f \in Nodes \X Nodes |-> DefaultBy(m, IsDefault(m), f)]
<1> DEFINE Pairs == Nodes \X Nodes
           by(X, f) == \/ NotHeld(m, f[1], f[2])
                       \/ /\ ~Forced(f[1], f[2])
                          /\ CASE Kind(f[2]) = "sized" -> SeqLen(f[2], m) = 0
                               [] Leaf(f[2]) -> Used(f[2], m) = Default(f[2])
                               [] OTHER -> \A c \in Kids(f[2]) : <<f[2], c>> \in X
           step(X) == {f \in Pairs : by(X, f)}
           least == {f \in Pairs : \A X \in SUBSET Pairs : step(X) \subseteq X => f \in X}
           g == [f \in Pairs |-> f \in least]
<1>1. \A X, Y \in SUBSET Pairs : X \subseteq Y => step(X) \subseteq step(Y)
  OBVIOUS
<1>2. least = step(least)
  <2> HIDE DEF step
  <2>1. least \in SUBSET Pairs /\ step(least) \in SUBSET Pairs
    BY DEF step
  <2>2. step(least) \subseteq least
    <3> SUFFICES ASSUME NEW f \in step(least), NEW X \in SUBSET Pairs, step(X) \subseteq X
                 PROVE  f \in X
      BY <2>1
    <3>1. least \subseteq X
      OBVIOUS
    <3>2. step(least) \subseteq step(X)
      BY <1>1, <2>1, <3>1
    <3> QED
      BY <3>2
  <2>3. step(step(least)) \subseteq step(least)
    BY <1>1, <2>1, <2>2
  <2> QED
    BY <2>1, <2>2, <2>3
<1>3. ASSUME NEW f \in Pairs PROVE by(least, f) <=> DefaultBy(m, g, f)
  <2>1. f[2] \in Nodes
    OBVIOUS
  <2>2. \A c \in Kids(f[2]) : <<f[2], c>> \in Pairs
    BY <2>1, KidsInNodes
  <2>3. \A c \in Kids(f[2]) : g[<<f[2], c>>] <=> <<f[2], c>> \in least
    BY <2>2
  <2> HIDE DEF g, least
  <2> QED
    BY <2>3 DEF DefaultBy
<1>4. \A f \in Pairs : f \in least <=> by(least, f)
  BY <1>2
<1>5. g = [f \in Pairs |-> DefaultBy(m, g, f)]
  <2>1. \A f \in Pairs : g[f] = (f \in least) /\ DefaultBy(m, g, f) \in BOOLEAN
    BY DEF DefaultBy
  <2>2. g = [f \in Pairs |-> g[f]]
    OBVIOUS
  <2> HIDE DEF g, least, by
  <2>3. \A f \in Pairs : g[f] = DefaultBy(m, g, f)
    BY <1>3, <1>4, <2>1
  <2> QED
    BY <2>2, <2>3
<1> DEFINE is(h) == h = [f \in Pairs |-> DefaultBy(m, h, f)]
<1>6. IsDefault(m) = CHOOSE h : is(h)
  BY DEF IsDefault, DefaultBy
<1> HIDE DEF g
<1>7. is(g)
  BY <1>5
<1>8. is(CHOOSE h : is(h))
  <2> HIDE DEF is
  <2> QED
    BY <1>7
<1> QED
  BY <1>6, <1>8


\* The cases of _field_is_default.
LEMMA Elided ==
    ASSUME NEW m, NEW p \in Nodes, NEW k \in Kids(p)
    PROVE  IsDefault(m)[<<p, k>>] <=>
             \/ NotHeld(m, p, k)
             \/ /\ ~Forced(p, k)
                /\ Kind(k) = "sized" => SeqLen(k, m) = 0
                /\ Leaf(k) => Used(k, m) = Default(k)
                /\ (~Leaf(k) /\ Kind(k) # "sized") => \A c \in Kids(k) : IsDefault(m)[<<k, c>>]
<1> DEFINE f == <<p, k>>
<1>1. f \in Nodes \X Nodes /\ f[1] = p /\ f[2] = k
  BY KidsInNodes
<1>2. IsDefault(m)[f] = DefaultBy(m, IsDefault(m), f)
  <2> DEFINE g == IsDefault(m)
  <2>1. g = [h \in Nodes \X Nodes |-> DefaultBy(m, g, h)]
    BY IsDefaultIs
  <2> HIDE DEF g, f
  <2>2. g[f] = DefaultBy(m, g, f)
    BY <1>1, <2>1
  <2> QED
    BY <2>2 DEF g
<1>3. Kind(k) = "sized" => ~Leaf(k)
  BY DEF Leaf, LeafKinds
<1> HIDE DEF f
<1>4. DefaultBy(m, IsDefault(m), f) <=>
        \/ NotHeld(m, p, k)
        \/ /\ ~Forced(p, k)
           /\ Kind(k) = "sized" => SeqLen(k, m) = 0
           /\ Leaf(k) => Used(k, m) = Default(k)
           /\ (~Leaf(k) /\ Kind(k) # "sized") => \A c \in Kids(k) : IsDefault(m)[<<k, c>>]
  BY <1>1, <1>3 DEF DefaultBy
<1> QED
  BY <1>2, <1>4 DEF f

-----------------------------------------------------------------------------
(* The value of an object with stray tags.                                 *)

LEMMA NormalIs ==
    ASSUME NEW m, NEW x \in Nodes
    PROVE  /\ Normal(m)[x] = m[x] \/ Normal(m)[x] = Default(x)
           /\ \A u \in Stray(m) : x \in Seeded[u] => Normal(m)[x] = Default(x)
           /\ (\A u \in Stray(m) : x \notin Seeded[u]) => Normal(m)[x] = m[x]
BY DEF Normal

LEMMA NormalType ==
    ASSUME NEW m \in Memory
    PROVE  Normal(m) \in Memory
<1>1. \A x \in Nodes : m[x] \in Seq(Nat) /\ (Numbered(x) => Len(m[x]) = 1)
  BY DEF Memory, Numbered
<1>2. \A x \in Nodes : Default(x) \in Seq(Nat) /\ (Numbered(x) => Len(Default(x)) = 1)
  BY NodeType, NumberedDefault
<1>3. \A x \in Nodes :
         Normal(m)[x] \in Seq(Nat) /\ (Numbered(x) => Len(Normal(m)[x]) = 1)
  BY <1>1, <1>2, NormalIs
<1>4. Normal(m) = [x \in Nodes |-> Normal(m)[x]]
  BY DEF Normal
<1> QED
  BY <1>3, <1>4 DEF Memory, Numbered

\* Not within what the normalisation of an enclosing union replaces.
Plain(m, x) == \A u \in Stray(m) : x \in Seeded[u] => x = u

LEMMA PlainIs ==
    ASSUME NEW m, NEW x \in Nodes, Plain(m, x)
    PROVE  /\ x \notin Stray(m) => Normal(m)[x] = m[x]
           /\ x \in Stray(m) => Normal(m)[x] = Default(x)
<1>1. x \in Seeded[x]
  BY LiveType
<1> QED
  BY <1>1, NormalIs DEF Plain

LEMMA PlainKid ==
    ASSUME NEW m, NEW p \in Nodes, NEW k \in Kids(p), Plain(m, p), ~NotHeld(m, p, k)
    PROVE  Plain(m, k)
<1> SUFFICES ASSUME NEW u \in Stray(m), k \in Seeded[u], k # u PROVE FALSE
  BY DEF Plain
<1>1. u \in Nodes
  BY DEF Stray
<1>2. p \in Seeded[u]
  BY <1>1, StepsAre, DownParent
<1>3. p = u
  BY <1>2 DEF Plain
<1> QED
  BY <1>3 DEF Stray

-----------------------------------------------------------------------------
(* What is left out is what a fresh object has.                            *)

\* The value within k is that of a fresh object.
FreshIn(m, k) ==
    /\ LiveIn(m, k) = FreshParts[k]
    /\ \A x \in LiveIn(m, k) : Meaning(x, m) = Default(x)

LEMMA FreshSplit ==
    ASSUME NEW m, NEW k \in Nodes
    PROVE  FreshIn(m, k) <=>
             /\ HeldKids(m)[k] = FreshKids[k]
             /\ Meaning(k, m) = Default(k)
             /\ \A c \in FreshKids[k] : FreshIn(m, c)
<1>1. HeldKids(m)[k] \subseteq Kids(k) /\ FreshKids[k] \subseteq Kids(k)
  BY DEF HeldKids, FreshKids
<1>2. \A x : x \in LiveIn(m, k) <=> x = k \/ \E c \in HeldKids(m)[k] : x \in LiveIn(m, c)
  BY StepsAre, DownSplit DEF LiveIn
<1>3. \A x : x \in FreshParts[k] <=> x = k \/ \E c \in FreshKids[k] : x \in FreshParts[c]
  BY StepsAre, DownSplit DEF FreshParts
<1>4. ASSUME HeldKids(m)[k] = FreshKids[k], Meaning(k, m) = Default(k),
             \A c \in FreshKids[k] : FreshIn(m, c)
      PROVE  FreshIn(m, k)
  <2>1. \A x : x \in LiveIn(m, k) <=> x \in FreshParts[k]
    BY <1>2, <1>3, <1>4 DEF FreshIn
  <2>2. \A x \in LiveIn(m, k) : Meaning(x, m) = Default(x)
    BY <1>2, <1>4 DEF FreshIn
  <2> QED
    BY <2>1, <2>2 DEF FreshIn
<1>5. ASSUME FreshIn(m, k)
      PROVE  /\ HeldKids(m)[k] = FreshKids[k]
             /\ Meaning(k, m) = Default(k)
             /\ \A c \in FreshKids[k] : FreshIn(m, c)
  <2>1. ASSUME NEW c \in Kids(k)
        PROVE  /\ c \in Nodes /\ c # k /\ c \in Below[k]
               /\ c \in LiveIn(m, k) <=> c \in HeldKids(m)[k]
               /\ c \in FreshParts[k] <=> c \in FreshKids[k]
    <3>1. c \in Nodes /\ c # k /\ c \in Below[k] /\ k \in LiveIn(m, k) /\ k \in FreshParts[k]
      BY KidsInNodes, BelowKid, LiveType
    <3> QED
      BY <3>1, StepsAre, DownParent, DownNext DEF LiveIn, FreshParts
  <2>2. HeldKids(m)[k] = FreshKids[k]
    BY <1>1, <1>5, <2>1 DEF FreshIn
  <2>3. ASSUME NEW c \in FreshKids[k] PROVE FreshIn(m, c)
    <3>1. c \in Kids(k) /\ c \in Nodes /\ c \in Below[k] /\ c \in LiveIn(m, k)
      BY <1>1, <2>1, <2>2
    <3>2. \A x : x \in LiveIn(m, c) <=> x \in LiveIn(m, k) /\ x \in Below[c]
      BY <3>1, StepsAre, DownThrough, DownTrans, LiveType DEF LiveIn
    <3>3. \A x : x \in FreshParts[c] <=> x \in FreshParts[k] /\ x \in Below[c]
      <4>1. c \in FreshParts[k]
        BY <1>5, <3>1 DEF FreshIn
      <4> QED
        BY <3>1, <4>1, StepsAre, DownThrough, DownTrans, LiveType DEF FreshParts
    <3> QED
      BY <1>5, <3>2, <3>3 DEF FreshIn
  <2>4. Meaning(k, m) = Default(k)
    BY <1>5, LiveType DEF FreshIn
  <2> QED
    BY <2>2, <2>3, <2>4
<1> QED
  BY <1>4, <1>5


LEMMA AtDefaultIsFresh ==
    ASSUME NEW m, NEW k \in Nodes, AtDefault(m, k)
    PROVE  FreshIn(m, k)
BY DefaultView DEF FreshIn

\* The kids of a node that are part of its value, by its kind.
LEMMA HeldKidsOf ==
    ASSUME NEW m, NEW k \in Nodes
    PROVE  /\ Leaf(k) => HeldKids(m)[k] = {} /\ FreshKids[k] = {}
           /\ Kind(k) = "sized" =>
                /\ HeldKids(m)[k] = {c \in Kids(k) : Id(c) < SeqLen(k, m)}
                /\ FreshKids[k] = {}
           /\ Kind(k) \in {"struct", "holder"} =>
                HeldKids(m)[k] = Kids(k) /\ FreshKids[k] = Kids(k)
           /\ Kind(k) = "union" =>
                /\ HeldKids(m)[k] = {c \in Kids(k) : m[k] = <<Id(c)>>}
                /\ FreshKids[k] = {c \in Kids(k) : Default(k) = <<Id(c)>>}
<1>1. Leaf(k) => Kids(k) = {}
  BY NodeType
<1> QED
  BY <1>1 DEF HeldKids, FreshKids, Chosen, NotHeld, HeldIn

\* An object none of whose fields is written.
LEMMA FreshFromKids ==
    ASSUME NEW m \in Memory, NEW b \in Nodes, ~Leaf(b), b \notin Stray(m),
           NEW r, r[b] = m[b],
           Kind(b) = "sized" => SeqLen(b, m) = 0,
           Kind(b) # "sized" =>
              \A c \in Kids(b) : IsDefault(m)[<<b, c>>] /\ (~NotHeld(r, b, c) => FreshIn(r, c))
    PROVE  FreshIn(r, b)
<1>1. CASE Kind(b) = "sized"
  <2>1. SeqLen(b, r) = 0
    BY <1>1 DEF SeqLen
  <2>2. HeldKids(r)[b] = {}
    <3>1. \A c \in Kids(b) : ~(Id(c) < 0)
      BY KidsInNodes, NodeType
    <3> QED
      BY <1>1, <2>1, <3>1, HeldKidsOf
  <2>3. Meaning(b, r) = Default(b)
    BY <1>1, <2>1, SchemaAssumption DEF Meaning
  <2> QED
    BY <1>1, <2>2, <2>3, FreshSplit, HeldKidsOf
<1>2. CASE Kind(b) \in {"struct", "holder"}
  <2>1. \A c \in Kids(b) : FreshIn(r, c)
    BY <1>2 DEF NotHeld
  <2>2. Meaning(b, r) = Default(b)
    BY <1>2, SchemaAssumption DEF Meaning
  <2> QED
    BY <1>2, <2>1, <2>2, FreshSplit, HeldKidsOf
<1>3. CASE Kind(b) = "union"
  <2>1. PICK c \in Kids(b) : ~NotHeld(m, b, c)
    BY <1>3 DEF Stray
  <2>2. IsDefault(m)[<<b, c>>]
    BY <1>3
  <2>3. ~Forced(b, c)
    BY <2>1, <2>2, Elided
  <2>4. r[b] = <<Id(c)>> /\ Default(b) = <<Id(c)>>
    BY <1>3, <2>1, <2>3 DEF NotHeld, HeldIn, Forced
  <2>5. \A d \in FreshKids[b] : FreshIn(r, d)
    <3> SUFFICES ASSUME NEW d \in Kids(b), Default(b) = <<Id(d)>> PROVE FreshIn(r, d)
      BY <1>3, HeldKidsOf
    <3>1. ~NotHeld(r, b, d)
      BY <2>4 DEF NotHeld, HeldIn
    <3> QED
      BY <1>3, <3>1
  <2>6. Meaning(b, r) = Default(b)
    BY <1>3, <2>4 DEF Meaning, Used
  <2>7. HeldKids(r)[b] = FreshKids[b]
    <3>1. HeldKids(r)[b] = {d \in Kids(b) : r[b] = <<Id(d)>>}
      BY <1>3, HeldKidsOf
    <3>2. FreshKids[b] = {d \in Kids(b) : Default(b) = <<Id(d)>>}
      BY <1>3, HeldKidsOf
    <3> QED
      BY <2>4, <3>1, <3>2
  <2> QED
    BY <2>5, <2>6, <2>7, FreshSplit
<1> QED
  BY <1>1, <1>2, <1>3, NodeType DEF Containers, Leaf

LEMMA ElidedIsFresh ==
    ASSUME NEW m \in Memory, NEW p \in Nodes, NEW k \in Kids(p),
           IsDefault(m)[<<p, k>>], ~NotHeld(Normal(m), p, k)
    PROVE  FreshIn(Normal(m), k)
<1> DEFINE r == Normal(m)
           Out(a, b) == b \in Kids(a) /\ IsDefault(m)[<<a, b>>] /\ ~NotHeld(r, a, b)
           X == {b \in Nodes : ~FreshIn(r, b) /\ \E a \in Nodes : Out(a, b)}
<1> HIDE DEF r
<1>1. ASSUME NEW b \in X, Kids(b) \cap X = {} PROVE FALSE
  <2>1. b \in Nodes /\ ~FreshIn(r, b)
    OBVIOUS
  <2>2. PICK a \in Nodes : b \in Kids(a) /\ IsDefault(m)[<<a, b>>] /\ ~NotHeld(r, a, b)
    OBVIOUS
  <2>3. \A c \in Kids(b) : IsDefault(m)[<<b, c>>] /\ ~NotHeld(r, b, c) => FreshIn(r, c)
    BY <1>1, <2>1, KidsInNodes
  <2> HIDE DEF X
  <2>4. \A u \in Stray(m) : b \notin Seeded[u]
    <3> SUFFICES ASSUME NEW u \in Stray(m), b \in Seeded[u] PROVE FALSE
      OBVIOUS
    <3>1. u \in Nodes
      BY DEF Stray
    <3>2. Seeded[b] \subseteq Seeded[u] /\ Seeded[b] \subseteq Nodes
      BY <2>1, <3>1, SeededTrans, LiveType
    <3>3. AtDefault(r, b)
      BY <3>2, NormalIs DEF AtDefault, r
    <3> QED
      BY <2>1, <3>3, AtDefaultIsFresh
  <2>5. r[b] = m[b] /\ b \notin Stray(m)
    BY <2>1, <2>4, NormalIs, LiveType DEF r
  <2>6. ~NotHeld(m, a, b)
    <3> SUFFICES ASSUME NotHeld(m, a, b) PROVE FALSE
      OBVIOUS
    <3>1. Kind(a) = "union" /\ m[a] # <<Id(b)>> /\ r[a] = <<Id(b)>>
      BY <2>2 DEF NotHeld, HeldIn
    <3>2. PICK u \in Stray(m) : a \in Seeded[u]
      BY <3>1, NormalIs DEF r
    <3>3. u \in Nodes /\ r[a] = Default(a)
      BY <3>2, NormalIs DEF r, Stray
    <3>4. b \in SeedKids[a]
      BY <2>2, <3>1, <3>3 DEF SeedKids
    <3>5. b \in Seeded[u]
      BY <3>2, <3>3, <3>4, StepsAre, DownNext
    <3> QED
      BY <2>4, <3>5
  <2>7. /\ ~Forced(a, b)
        /\ Kind(b) = "sized" => SeqLen(b, m) = 0
        /\ Leaf(b) => Used(b, m) = Default(b)
        /\ (~Leaf(b) /\ Kind(b) # "sized") => \A c \in Kids(b) : IsDefault(m)[<<b, c>>]
    BY <2>2, <2>6, Elided
  <2>9. CASE Leaf(b)
    <3>1. Meaning(b, r) = Used(b, m)
      BY <2>5, <2>9 DEF Meaning, Leaf, LeafKinds, Used
    <3>2. HeldKids(r)[b] = {} /\ FreshKids[b] = {}
      BY <2>1, <2>9, HeldKidsOf
    <3>3. Meaning(b, r) = Default(b)
      BY <2>7, <2>9, <3>1
    <3> QED
      BY <2>1, <3>2, <3>3, FreshSplit
  <2>10. CASE ~Leaf(b)
    <3>1. Kind(b) # "sized" =>
            \A c \in Kids(b) : /\ IsDefault(m)[<<b, c>>]
                               /\ ~NotHeld(r, b, c) => FreshIn(r, c)
      BY <2>3, <2>7, <2>10
    <3> QED
      BY <2>1, <2>5, <2>7, <2>10, <3>1, FreshFromKids DEF r
  <2> QED
    BY <2>9, <2>10
<1>2. X = {}
  <2> HIDE DEF X
  <2>1. X \in SUBSET Nodes
    BY DEF X
  <2> QED
    BY <1>1, <2>1, TreeAssumption
<1>3. k \in Nodes /\ Out(p, k)
  BY KidsInNodes DEF r
<1> QED
  BY <1>2, <1>3 DEF r

\* And what a fresh object has is left out.
LEMMA FreshIsElided ==
    ASSUME NEW m \in Memory, NEW p \in Nodes, NEW k \in Kids(p),
           Plain(m, k), FreshIn(Normal(m), k), ~Forced(p, k)
    PROVE  IsDefault(m)[<<p, k>>]
<1> DEFINE r == Normal(m)
           Kept(a, b) == b \in Kids(a) /\ ~Forced(a, b) /\ ~IsDefault(m)[<<a, b>>]
           X == {b \in Nodes : FreshIn(r, b) /\ Plain(m, b) /\ \E a \in Nodes : Kept(a, b)}
<1> HIDE DEF r
<1>1. ASSUME NEW b \in X, Kids(b) \cap X = {} PROVE FALSE
  <2>1. b \in Nodes /\ FreshIn(r, b) /\ Plain(m, b)
    OBVIOUS
  <2>2. PICK a \in Nodes : b \in Kids(a) /\ ~Forced(a, b) /\ ~IsDefault(m)[<<a, b>>]
    OBVIOUS
  <2>3. \A c \in Kids(b) :
           FreshIn(r, c) /\ Plain(m, c) /\ ~Forced(b, c) => IsDefault(m)[<<b, c>>]
    BY <1>1, <2>1, KidsInNodes
  <2> HIDE DEF X
  <2>4. /\ ~NotHeld(m, a, b)
        /\ Kind(b) = "sized" => SeqLen(b, m) # 0
        /\ Leaf(b) => Used(b, m) # Default(b)
        /\ (~Leaf(b) /\ Kind(b) # "sized") => \E c \in Kids(b) : ~IsDefault(m)[<<b, c>>]
    <3>1. ~(\/ NotHeld(m, a, b)
            \/ /\ ~Forced(a, b)
               /\ Kind(b) = "sized" => SeqLen(b, m) = 0
               /\ Leaf(b) => Used(b, m) = Default(b)
               /\ (~Leaf(b) /\ Kind(b) # "sized") => \A c \in Kids(b) : IsDefault(m)[<<b, c>>])
      BY <2>2, Elided
    <3>2. Kind(b) = "sized" => ~Leaf(b)
      BY DEF Leaf, LeafKinds
    <3> QED
      BY <2>2, <3>1, <3>2
  <2>5. /\ HeldKids(r)[b] = FreshKids[b]
        /\ Meaning(b, r) = Default(b)
        /\ \A c \in FreshKids[b] : FreshIn(r, c)
    BY <2>1, FreshSplit
  <2>6. /\ b \notin Stray(m) => r[b] = m[b]
        /\ Kind(b) # "union" => r[b] = m[b]
    BY <2>1, PlainIs DEF r, Stray
  <2>7. Kind(b) \in LeafKinds \cup Containers
    BY <2>1, NodeType
  <2>8. CASE Leaf(b)
    <3>1. Meaning(b, r) = Used(b, m)
      BY <2>6, <2>8 DEF Meaning, Leaf, LeafKinds, Used
    <3> QED
      BY <2>4, <2>5, <2>8, <3>1
  <2>9. CASE Kind(b) = "sized"
    <3>1. SeqLen(b, r) = SeqLen(b, m)
      BY <2>6, <2>9 DEF SeqLen
    <3>2. <<SeqLen(b, r)>> = <<0>>
      BY <2>1, <2>5, <2>9, SchemaAssumption DEF Meaning
    <3> QED
      BY <2>4, <2>9, <3>1, <3>2
  <2>10. CASE ~Leaf(b) /\ Kind(b) # "sized"
    <3>1. PICK c \in Kids(b) : ~IsDefault(m)[<<b, c>>]
      BY <2>4, <2>10
    <3>2. ~NotHeld(m, b, c)
      BY <2>1, <3>1, Elided
    <3>3. Plain(m, c)
      BY <2>1, <3>2, PlainKid
    <3>4. CASE Kind(b) = "union"
      <4>1. b \notin Stray(m)
        BY <3>2 DEF Stray
      <4>2. r[b] = <<Id(c)>>
        BY <2>6, <3>2, <3>4, <4>1 DEF NotHeld, HeldIn
      <4>3. Default(b) = <<Id(c)>>
        BY <2>5, <3>4, <4>2 DEF Meaning, Used
      <4>4. c \in FreshKids[b] /\ ~Forced(b, c)
        BY <2>1, <3>4, <4>3, HeldKidsOf DEF Forced
      <4> QED
        BY <2>3, <2>5, <3>1, <3>3, <4>4
    <3>5. CASE Kind(b) \in {"struct", "holder"}
      <4>1. c \in FreshKids[b] /\ ~Forced(b, c)
        BY <2>1, <3>5, HeldKidsOf DEF Forced
      <4> QED
        BY <2>3, <2>5, <3>1, <3>3, <4>1
    <3> QED
      BY <2>7, <2>10, <3>4, <3>5 DEF Containers, Leaf
  <2> QED
    BY <2>8, <2>9, <2>10
<1>2. X = {}
  <2> HIDE DEF X
  <2>1. X \in SUBSET Nodes
    BY DEF X
  <2> QED
    BY <1>1, <2>1, TreeAssumption
<1>3. k \in Nodes
  BY KidsInNodes
<1> QED
  BY <1>2, <1>3 DEF r


-----------------------------------------------------------------------------
(* The walk of an encoder nothing goes wrong for.                          *)

LeafToken(m, k) == [tok |-> "leaf", id |-> Id(k), type |-> WireType(k), val |-> Used(k, m)]
StartToken(k) == [tok |-> "start", id |-> Id(k), type |-> "start", val |-> <<>>]
EndToken == [tok |-> "end", id |-> 0, type |-> "end", val |-> <<>>]

\* Count, Skipped and Refused of module ObjectEncode, of any object m.
CountIn(m, p) == IF Wrapper(p) THEN SeqLen(p, m) ELSE Len(Schema[p].kids)
SkippedIn(m, p, i) ==
    /\ ~(Wrapper(p) /\ i = CountIn(m, p))
    /\ IsDefault(m)[<<p, Schema[p].kids[i]>>]
RefusedIn(m, k) == (Kind(k) = "str" /\ Len(m[k]) > Cap(k)) \/ Kind(k) = "odd"

\* The activation in which the walk goes on, with its next field.
GoOn(st, n) == [j \in 1..n |-> IF j = n THEN Onward(st[n], "ok") ELSE st[j]]

\* From the activations st and the message w to st2 and w2.
WalkSkip(m, st, w, st2, w2) ==
    LET n == Len(st)  p == st[n].node  i == st[n].i IN
    /\ i <= CountIn(m, p)
    /\ SkippedIn(m, p, i)
    /\ st2 = GoOn(st, n)
    /\ w2 = w

WalkLeaf(m, st, w, st2, w2) ==
    LET n == Len(st)  p == st[n].node  i == st[n].i  k == Schema[p].kids[i] IN
    /\ i <= CountIn(m, p)
    /\ ~SkippedIn(m, p, i)
    /\ Leaf(k) /\ ~RefusedIn(m, k)
    /\ st2 = GoOn(st, n)
    /\ w2 = Append(w, LeafToken(m, k))

WalkEnter(m, st, w, st2, w2) ==
    LET n == Len(st)  p == st[n].node  i == st[n].i  k == Schema[p].kids[i] IN
    /\ i <= CountIn(m, p)
    /\ ~SkippedIn(m, p, i)
    /\ ~Leaf(k)
    /\ st2 = Append(st, Frame(k))
    /\ w2 = Append(w, StartToken(k))

WalkLeave(m, st, w, st2, w2) ==
    LET n == Len(st) IN
    /\ ~(st[n].i <= CountIn(m, st[n].node))
    /\ n > 1
    /\ st2 = GoOn(st, n - 1)
    /\ w2 = Append(w, EndToken)

WalkFinish(m, st, w, st2, w2) ==
    LET n == Len(st) IN
    /\ ~(st[n].i <= CountIn(m, st[n].node))
    /\ n = 1
    /\ st2 = <<>>
    /\ w2 = w

Walk(m, st, w, st2, w2) ==
    /\ st # <<>>
    /\ \/ WalkSkip(m, st, w, st2, w2)
       \/ WalkLeaf(m, st, w, st2, w2)
       \/ WalkEnter(m, st, w, st2, w2)
       \/ WalkLeave(m, st, w, st2, w2)
       \/ WalkFinish(m, st, w, st2, w2)

\* Where the walk of the object m is: in nested parts of its value.
PathIn(m, st) ==
    /\ st \in Seq(Frames)
    /\ st # <<>>
    /\ st[1].node = Root
    /\ \A l \in 1..Len(st) :
          /\ st[l].node \in Live(m) /\ st[l].node \in Live(Normal(m))
          /\ ~Leaf(st[l].node) /\ Plain(m, st[l].node)
          /\ st[l].ret = "ok"
          /\ st[l].i <= CountIn(m, st[l].node) + 1
    /\ \A l \in 1..Len(st) - 1 :
          /\ st[l].i <= CountIn(m, st[l].node)
          /\ st[l + 1].node = Schema[st[l].node].kids[st[l].i]
          /\ ~NotHeld(m, st[l].node, st[l + 1].node)

LEMMA CountInType ==
    ASSUME NEW m \in Memory, NEW p \in Nodes
    PROVE  CountIn(m, p) \in Nat /\ CountIn(m, p) <= Len(Schema[p].kids)
BY SeqLenType, NodeType DEF CountIn

\* The field an activation is at.
LEMMA FieldAt ==
    ASSUME NEW m \in Memory, NEW p \in Nodes, NEW i \in Nat \ {0}, i <= CountIn(m, p)
    PROVE  /\ i \in 1..Len(Schema[p].kids)
           /\ Schema[p].kids[i] \in Kids(p) /\ Schema[p].kids[i] \in Nodes
           /\ Wrapper(p) => Id(Schema[p].kids[i]) = i - 1
<1>1. Len(Schema[p].kids) \in Nat /\ DOMAIN Schema[p].kids = 1..Len(Schema[p].kids)
  BY NodeType, LenProperties
<1>2. i \in 1..Len(Schema[p].kids)
  BY <1>1, CountInType
<1>3. Schema[p].kids[i] \in Kids(p)
  BY <1>1, <1>2 DEF Kids, ToSet
<1>4. Wrapper(p) => Id(Schema[p].kids[i]) = i - 1
  BY <1>2, SchemaAssumption
<1> QED
  BY <1>2, <1>3, <1>4, KidsInNodes

\* A field of the walk that is held is part of the value.
LEMMA FieldChosen ==
    ASSUME NEW m \in Memory, NEW p \in Nodes, Plain(m, p), NEW i \in Nat \ {0},
           i <= CountIn(m, p), ~NotHeld(m, p, Schema[p].kids[i])
    PROVE  /\ Normal(m)[p] = m[p]
           /\ Chosen(m, p, Schema[p].kids[i])
           /\ Chosen(Normal(m), p, Schema[p].kids[i])
           /\ Plain(m, Schema[p].kids[i])
<1> DEFINE k == Schema[p].kids[i]
<1>1. k \in Kids(p) /\ (Wrapper(p) => Id(k) = i - 1)
  BY FieldAt
<1> HIDE DEF k
<1>2. p \notin Stray(m)
  BY <1>1 DEF Stray, k
<1>3. Normal(m)[p] = m[p]
  BY <1>2, PlainIs
<1>4. Kind(p) = "sized" => Id(k) < SeqLen(p, m)
  <2> SUFFICES ASSUME Kind(p) = "sized" PROVE Id(k) < SeqLen(p, m)
    OBVIOUS
  <2>1. Wrapper(p) /\ CountIn(m, p) = SeqLen(p, m) /\ CountIn(m, p) \in Nat
    BY CountInType DEF Wrapper, CountIn
  <2> QED
    BY <1>1, <2>1
<1>5. Chosen(m, p, k)
  BY <1>4 DEF Chosen, k
<1>6. Chosen(Normal(m), p, k)
  BY <1>3, <1>5, MeaningLocal
<1>7. Plain(m, k)
  BY <1>1, PlainKid DEF k
<1> QED
  BY <1>3, <1>5, <1>6, <1>7 DEF k

\* A field that is not skipped is held.
LEMMA NotSkipped ==
    ASSUME NEW m \in Memory, NEW p \in Nodes, NEW i \in Nat \ {0}, i <= CountIn(m, p),
           ~SkippedIn(m, p, i)
    PROVE  ~NotHeld(m, p, Schema[p].kids[i])
<1>1. Schema[p].kids[i] \in Kids(p)
  BY FieldAt
<1>2. CASE Wrapper(p)
  BY <1>2 DEF Wrapper, NotHeld
<1>3. CASE ~Wrapper(p)
  BY <1>1, <1>3, Elided DEF SkippedIn
<1> QED
  BY <1>2, <1>3


LEMMA GoOnType ==
    ASSUME NEW st \in Seq(Frames), NEW n \in 1..Len(st)
    PROVE  /\ GoOn(st, n) \in Seq(Frames) /\ Len(GoOn(st, n)) = n /\ GoOn(st, n) # <<>>
           /\ GoOn(st, n)[n] = Onward(st[n], "ok")
           /\ \A j \in 1..n : j # n => GoOn(st, n)[j] = st[j]
           /\ n \in Nat \ {0}
<1>1. Len(st) \in Nat /\ n \in Nat \ {0} /\ n \in 1..n /\ 1..n \subseteq 1..Len(st)
  BY LenProperties
<1>2. \A j \in 1..n : st[j] \in Frames
  BY <1>1, ElementOfSeq
<1>3. Onward(st[n], "ok") \in Frames
  BY <1>1, <1>2, OnwardType DEF Results
<1>4. GoOn(st, n) \in [1..n -> Frames]
  BY <1>2, <1>3 DEF GoOn
<1>5. GoOn(st, n) \in Seq(Frames)
  BY <1>1, <1>4, SeqDef
<1>6. Len(GoOn(st, n)) = n
  BY <1>1, <1>4, <1>5, LenProperties
<1> QED
  BY <1>1, <1>5, <1>6, EmptySeq DEF GoOn

LEMMA PathType ==
    ASSUME NEW m \in Memory, NEW st, PathIn(m, st), NEW l \in 1..Len(st)
    PROVE  /\ Len(st) \in Nat \ {0} /\ l \in Nat \ {0}
           /\ st[l] \in Frames /\ st[l].node \in Nodes /\ st[l].i \in Nat \ {0}
           /\ CountIn(m, st[l].node) \in Nat
<1>1. st \in Seq(Frames) /\ st # <<>>
  BY DEF PathIn
<1>2. Len(st) \in Nat \ {0} /\ l \in Nat \ {0} /\ st[l] \in Frames
  BY <1>1, TopType, ElementOfSeq
<1> QED
  BY <1>2, CountInType DEF Frames

\* What is at the top of the path once the activation n has gone on.
LEMMA PathGoesOn ==
    ASSUME NEW m \in Memory, NEW st, PathIn(m, st), NEW n \in 1..Len(st),
           st[n].i <= CountIn(m, st[n].node)
    PROVE  PathIn(m, GoOn(st, n))
<1> DEFINE new == GoOn(st, n)
<1>1. /\ new \in Seq(Frames) /\ Len(new) = n /\ new # <<>> /\ n \in Nat \ {0}
      /\ new[n] = Onward(st[n], "ok")
      /\ \A j \in 1..n : j # n => new[j] = st[j]
  BY GoOnType DEF PathIn
<1> HIDE DEF new
<1>2. new[n].node = st[n].node /\ new[n].i = st[n].i + 1 /\ new[n].ret = "ok"
  BY <1>1 DEF Onward
<1>3. Len(st) \in Nat \ {0} /\ st[n].i \in Nat /\ CountIn(m, st[n].node) \in Nat
  BY PathType
<1>4. 1..n \subseteq 1..Len(st) /\ 1..n - 1 \subseteq 1..Len(st) - 1 /\ 1..n - 1 \subseteq 1..n
      /\ 1 \in 1..n /\ n \notin 1..n - 1
  BY <1>1, <1>3
<1>5. new[1].node = Root
  BY <1>1, <1>2, <1>4 DEF PathIn
<1>6. ASSUME NEW l \in 1..n
      PROVE  /\ new[l].node \in Live(m) /\ new[l].node \in Live(Normal(m))
             /\ ~Leaf(new[l].node) /\ Plain(m, new[l].node)
             /\ new[l].ret = "ok"
             /\ new[l].i <= CountIn(m, new[l].node) + 1
  <2>1. CASE l = n
    <3>1. /\ st[n].node \in Live(m) /\ st[n].node \in Live(Normal(m))
          /\ ~Leaf(st[n].node) /\ Plain(m, st[n].node)
      BY DEF PathIn
    <3> QED
      BY <1>2, <1>3, <2>1, <3>1
  <2>2. CASE l # n
    BY <1>1, <1>4, <2>2 DEF PathIn
  <2> QED
    BY <2>1, <2>2
<1>7. ASSUME NEW l \in 1..n - 1
      PROVE  /\ new[l].i <= CountIn(m, new[l].node)
             /\ new[l + 1].node = Schema[new[l].node].kids[new[l].i]
             /\ ~NotHeld(m, new[l].node, new[l + 1].node)
  <2>1. l \in 1..Len(st) - 1 /\ l \in 1..n /\ l # n /\ l + 1 \in 1..n
    BY <1>1, <1>4
  <2>2. new[l] = st[l] /\ new[l + 1].node = st[l + 1].node
    BY <1>1, <1>2, <2>1
  <2> QED
    BY <2>1, <2>2 DEF PathIn
<1> QED
  BY <1>1, <1>5, <1>6, <1>7 DEF PathIn, new

LEMMA LiveNext ==
    ASSUME NEW m, NEW p \in Live(m), NEW k \in Kids(p), Chosen(m, p, k)
    PROVE  k \in Live(m)
<1>1. Root \in Nodes
  BY SchemaAssumption
<1>2. p \in LiveIn(m, Root)
  BY StepsAre
<1>3. k \in LiveIn(m, Root)
  BY <1>1, <1>2, LiveKid
<1> QED
  BY <1>3, StepsAre

LEMMA PathEnters ==
    ASSUME NEW m \in Memory, NEW st, PathIn(m, st), NEW n, n = Len(st),
           NEW k, k = Schema[st[n].node].kids[st[n].i], ~Leaf(k),
           st[n].i <= CountIn(m, st[n].node), ~NotHeld(m, st[n].node, k)
    PROVE  PathIn(m, Append(st, Frame(k)))
<1> DEFINE new == Append(st, Frame(k))
           p == st[n].node
           i == st[n].i
<1>1. st \in Seq(Frames) /\ n \in Nat \ {0} /\ n \in 1..Len(st)
  BY TopType DEF PathIn
<1>2. p \in Nodes /\ i \in Nat \ {0} /\ p \in Live(m) /\ p \in Live(Normal(m)) /\ Plain(m, p)
  BY <1>1, PathType DEF PathIn
<1>3. k \in Kids(p) /\ k \in Nodes
  BY <1>2, FieldAt
<1>4. Chosen(m, p, k) /\ Chosen(Normal(m), p, k) /\ Plain(m, k)
  BY <1>2, FieldChosen
<1>5. k \in Live(m) /\ k \in Live(Normal(m))
  BY <1>2, <1>3, <1>4, LiveNext
<1>6. Frame(k) \in Frames /\ Frame(k).node = k /\ Frame(k).i = 1 /\ Frame(k).ret = "ok"
  BY <1>3 DEF Frame, Frames
<1>7. /\ new \in Seq(Frames) /\ Len(new) = n + 1 /\ new # <<>>
      /\ new[n + 1] = Frame(k) /\ \A j \in 1..n : new[j] = st[j]
  BY <1>1, <1>6, PushFrame, AppendProperties
<1>8. CountIn(m, k) \in Nat
  BY <1>3, CountInType
<1> HIDE DEF new
<1>9. ASSUME NEW l \in 1..n + 1
      PROVE  /\ new[l].node \in Live(m) /\ new[l].node \in Live(Normal(m))
             /\ ~Leaf(new[l].node) /\ Plain(m, new[l].node)
             /\ new[l].ret = "ok"
             /\ new[l].i <= CountIn(m, new[l].node) + 1
  <2>1. CASE l = n + 1
    <3>1. new[l].node = k /\ new[l].i = 1 /\ new[l].ret = "ok"
      BY <1>6, <1>7, <2>1
    <3>2. 1 <= CountIn(m, k) + 1
      BY <1>8
    <3> QED
      BY <1>4, <1>5, <3>1, <3>2
  <2>2. CASE l # n + 1
    <3>1. l \in 1..n
      BY <1>1, <2>2
    <3> QED
      BY <1>7, <3>1 DEF PathIn
  <2> QED
    BY <2>1, <2>2
<1>10. ASSUME NEW l \in 1..n
       PROVE  /\ new[l].i <= CountIn(m, new[l].node)
              /\ new[l + 1].node = Schema[new[l].node].kids[new[l].i]
              /\ ~NotHeld(m, new[l].node, new[l + 1].node)
  <2>1. CASE l = n
    BY <1>1, <1>6, <1>7, <2>1
  <2>2. CASE l # n
    <3>1. l \in 1..n - 1 /\ l + 1 \in 1..n /\ l \in 1..n
      BY <1>1, <2>2
    <3> QED
      BY <1>7, <3>1 DEF PathIn
  <2> QED
    BY <2>1, <2>2
<1>11. new[1].node = Root
  BY <1>1, <1>7 DEF PathIn
<1>12. Len(new) - 1 = n
  BY <1>1, <1>7
<1> QED
  BY <1>7, <1>9, <1>10, <1>11, <1>12 DEF PathIn, new

LEMMA RootPlain ==
    ASSUME NEW m
    PROVE  Plain(m, Root)
<1> SUFFICES ASSUME NEW u \in Stray(m), Root \in Seeded[u] PROVE Root = u
  BY DEF Plain
<1>1. u \in Nodes
  BY DEF Stray
<1> QED
  BY <1>1, StepsAre, DownLast, StepsType

LEMMA PathStarts ==
    ASSUME NEW m \in Memory
    PROVE  PathIn(m, <<Frame(Root)>>)
<1>1. Root \in Nodes /\ ~Leaf(Root)
  BY SchemaAssumption
<1>2. Root \in Live(m) /\ Root \in Live(Normal(m))
  BY LiveNodes
<1>3. Plain(m, Root)
  BY RootPlain
<1>4. Frame(Root) \in Frames /\ Frame(Root).node = Root /\ Frame(Root).i = 1
      /\ Frame(Root).ret = "ok"
  BY <1>1 DEF Frame, Frames
<1>5. CountIn(m, Root) \in Nat
  BY <1>1, CountInType
<1> DEFINE st == <<Frame(Root)>>
<1>6. st \in Seq(Frames) /\ Len(st) = 1 /\ st[1] = Frame(Root) /\ st # <<>>
  BY <1>4
<1>7. 1..1 = {1} /\ 1..1 - 1 = {}
  OBVIOUS
<1> HIDE DEF st
<1> QED
  BY <1>1, <1>2, <1>3, <1>4, <1>5, <1>6, <1>7 DEF PathIn, st

LEMMA WalkPath ==
    ASSUME NEW m \in Memory, NEW st, PathIn(m, st), NEW w, NEW st2, NEW w2,
           Walk(m, st, w, st2, w2), st2 # <<>>
    PROVE  PathIn(m, st2)
<1> DEFINE n == Len(st)
<1>1. n \in Nat \ {0} /\ n \in 1..n
  BY TopType DEF PathIn
<1>2. st[n].node \in Nodes /\ st[n].i \in Nat \ {0}
  BY <1>1, PathType
<1>3. CASE WalkSkip(m, st, w, st2, w2) \/ WalkLeaf(m, st, w, st2, w2)
  BY <1>1, <1>3, PathGoesOn DEF WalkSkip, WalkLeaf
<1>4. CASE WalkEnter(m, st, w, st2, w2)
  BY <1>2, <1>4, NotSkipped, PathEnters DEF WalkEnter
<1>5. CASE WalkLeave(m, st, w, st2, w2)
  <2>1. n - 1 \in 1..n /\ n - 1 \in 1..n - 1 /\ st2 = GoOn(st, n - 1)
    BY <1>1, <1>5 DEF WalkLeave
  <2>2. st[n - 1].i <= CountIn(m, st[n - 1].node)
    BY <2>1 DEF PathIn
  <2> QED
    BY <2>1, <2>2, PathGoesOn
<1> QED
  BY <1>3, <1>4, <1>5 DEF Walk, WalkFinish


\* Going on as the running activation, and as the one that called it.
LEMMA TopGoesOn ==
    ASSUME NEW st \in Seq(Frames), st # <<>>
    PROVE  [st EXCEPT ![Len(st)] = Onward(st[Len(st)], "ok")] = GoOn(st, Len(st))
<1> DEFINE n == Len(st)
           e == Onward(st[n], "ok")
<1>1. n \in Nat \ {0} /\ n \in 1..n /\ n = Len(st) /\ st[n] \in Frames
  BY TopType
<1>2. e \in Frames
  BY <1>1, OnwardType DEF Results
<1>3. st \in [1..n -> Frames]
  BY <1>1, LenProperties
<1> HIDE DEF n, e
<1>4. [st EXCEPT ![n] = e] = [j \in 1..n |-> IF j = n THEN e ELSE st[j]]
  BY <1>1, <1>3
<1> QED
  BY <1>4 DEF GoOn, n, e

LEMMA CallerGoesOn ==
    ASSUME NEW st \in Seq(Frames), Len(st) > 1
    PROVE  Append(SubSeq(st, 1, Len(st) - 2), Onward(st[Len(st) - 1], "ok"))
               = GoOn(st, Len(st) - 1)
<1> DEFINE n == Len(st)
           e == Onward(st[n - 1], "ok")
           low == SubSeq(st, 1, n - 2)
<1>1. n \in Nat /\ n > 1 /\ n - 2 \in Nat /\ n - 1 \in 1..n /\ n = Len(st)
  BY LenProperties
<1>2. st[n - 1] \in Frames
  BY <1>1, ElementOfSeq
<1>3. e \in Frames
  BY <1>2, OnwardType DEF Results
<1> HIDE DEF n, e
<1>4. /\ low \in Seq(Frames) /\ Len(low) = n - 2
      /\ \A j \in 1..n - 2 : low[j] = st[j]
  BY <1>1
<1> HIDE DEF low
<1>5. /\ Append(low, e) \in Seq(Frames) /\ Len(Append(low, e)) = n - 1
      /\ Append(low, e)[n - 1] = e
      /\ \A j \in 1..n - 2 : Append(low, e)[j] = low[j]
  BY <1>1, <1>3, <1>4, AppendProperties
<1> DEFINE new == Append(low, e)
<1> HIDE DEF new
<1>6. new \in [1..n - 1 -> Frames]
  BY <1>5, LenProperties DEF new
<1>7. \A j \in 1..n - 1 : new[j] = IF j = n - 1 THEN e ELSE st[j]
  BY <1>1, <1>4, <1>5 DEF new
<1>8. new = [j \in 1..n - 1 |-> IF j = n - 1 THEN e ELSE st[j]]
  BY <1>6, <1>7
<1> QED
  BY <1>8 DEF GoOn, new, low, n, e

\* A write that did not fail.
LEMMA WriteOk ==
    ASSUME NEW t, NEW r \in {"ok", "full"}, Write(t, r), errors' = {}
    PROVE  r = "ok" /\ wire' = Append(wire, t) /\ errors = {}
BY DEF Write

LEMMA WalkStep ==
    ASSUME src \in Memory, PathIn(src, stack), Next, errors' = {}
    PROVE  /\ src' = src /\ errors = {}
           /\ Walk(src, stack, wire, stack', wire')
           /\ result' = IF stack' = <<>> THEN "ok" ELSE result
<1> DEFINE n == Len(stack)
<1>1. stack \in Seq(Frames) /\ stack # <<>> /\ n \in Nat \ {0} /\ n \in 1..n
  BY TopType DEF PathIn
<1>2. Top = stack[n] /\ Top.ret = "ok" /\ Top \in Frames
  BY <1>1, TopType DEF PathIn, Top
<1>3. \A p : Count(p) = CountIn(src, p)
  BY DEF Count, CountIn
<1>4. /\ Skipped <=> SkippedIn(src, stack[n].node, stack[n].i)
      /\ Field = Schema[stack[n].node].kids[stack[n].i]
      /\ Looping <=> stack[n].i <= CountIn(src, stack[n].node)
      /\ Returning <=> ~(stack[n].i <= CountIn(src, stack[n].node))
      /\ \A k : Refused(k) <=> RefusedIn(src, k)
  BY <1>1, <1>2, <1>3 DEF Skipped, SkippedIn, ElementHeld, Field, Looping, Returning,
                           Refused, RefusedIn
<1>5. NextField("ok") = GoOn(stack, n)
  BY <1>1, <1>2, TopGoesOn DEF NextField
<1>6. FrameResult("ok") = stack
  <2>1. stack[n] \in Frames /\ stack[n].ret = "ok"
    BY <1>2
  <2>2. [stack[n] EXCEPT !.ret = "ok"] = stack[n]
    BY <2>1 DEF Frames
  <2>3. stack \in [1..n -> Frames]
    BY <1>1, LenProperties
  <2> QED
    BY <1>1, <2>2, <2>3 DEF FrameResult
<1>7. GoOn(stack, n) # <<>>
  BY <1>1, GoOnType
<1>8. CASE SkipField
  <2>1. WalkSkip(src, stack, wire, stack', wire')
    BY <1>4, <1>5, <1>8 DEF SkipField, WalkSkip
  <2> QED
    BY <1>1, <1>5, <1>7, <1>8, <2>1 DEF SkipField, Walk
<1>9. CASE RefuseField
  BY <1>9 DEF RefuseField
<1>10. CASE WriteField
  <2>1. PICK r \in {"ok", "full"} :
           Write([tok |-> "leaf", id |-> Id(Field), type |-> WireType(Field),
                  val |-> Used(Field, src)], r) /\ stack' = NextField(r)
    BY <1>10 DEF WriteField
  <2>2. r = "ok" /\ wire' = Append(wire, LeafToken(src, Field)) /\ errors = {}
    BY <2>1, WriteOk DEF LeafToken
  <2>3. WalkLeaf(src, stack, wire, stack', wire')
    BY <1>4, <1>5, <1>10, <2>1, <2>2 DEF WriteField, WalkLeaf
  <2> QED
    BY <1>1, <1>5, <1>7, <1>10, <2>1, <2>2, <2>3 DEF WriteField, Walk
<1>11. CASE EnterSequence
  <2>1. PICK r \in {"ok", "full"} :
           /\ Write([tok |-> "start", id |-> Id(Field), type |-> "start", val |-> <<>>], r)
           /\ stack' = Append(FrameResult(r), Frame(Field))
    BY <1>11 DEF EnterSequence
  <2>2. r = "ok" /\ wire' = Append(wire, StartToken(Field)) /\ errors = {}
    BY <2>1, WriteOk DEF StartToken
  <2>3. stack' = Append(stack, Frame(Field))
    BY <1>6, <2>1, <2>2
  <2>4. WalkEnter(src, stack, wire, stack', wire')
    BY <1>4, <1>11, <2>2, <2>3 DEF EnterSequence, WalkEnter
  <2>5. stack' # <<>>
    BY <1>1, <2>3
  <2> QED
    BY <1>1, <1>11, <2>2, <2>4, <2>5 DEF EnterSequence, Walk
<1>12. CASE LeaveSequence
  <2>1. n > 1
    BY <1>12 DEF LeaveSequence
  <2>2. PICK r \in {"ok", "full"} :
           /\ Write([tok |-> "end", id |-> 0, type |-> "end", val |-> <<>>], r)
           /\ stack' = Append(SubSeq(stack, 1, Len(stack) - 2),
                              Onward(stack[n - 1], Or(Or(stack[n - 1].ret, Top.ret), r)))
    BY <1>12 DEF LeaveSequence
  <2>3. r = "ok" /\ wire' = Append(wire, EndToken) /\ errors = {}
    BY <2>2, WriteOk DEF EndToken
  <2>4. n - 1 \in 1..n
    BY <1>1, <2>1
  <2>5. Or(Or(stack[n - 1].ret, Top.ret), r) = "ok"
    BY <1>2, <2>3, <2>4 DEF Or, PathIn
  <2>6. stack' = GoOn(stack, n - 1)
    BY <1>1, <2>1, <2>2, <2>5, CallerGoesOn
  <2>7. WalkLeave(src, stack, wire, stack', wire')
    BY <1>4, <1>12, <2>1, <2>3, <2>6 DEF LeaveSequence, WalkLeave
  <2>8. stack' # <<>>
    BY <1>1, <2>4, <2>6, GoOnType
  <2> QED
    BY <1>1, <1>12, <2>3, <2>7, <2>8 DEF LeaveSequence, Walk
<1>13. CASE Finish
  <2>1. WalkFinish(src, stack, wire, stack', wire')
    BY <1>4, <1>13 DEF Finish, WalkFinish
  <2> QED
    BY <1>1, <1>2, <1>13, <2>1 DEF Finish, Walk
<1> QED
  BY <1>8, <1>9, <1>10, <1>11, <1>12, <1>13 DEF Next


-----------------------------------------------------------------------------
(* What costs no byte.                                                     *)

\* The message w of the walk at st is empty as long as nothing but defaults
\* came, and only then.
Emptiness(m, st, w) ==
    /\ st # <<>> => PathIn(m, st)
    /\ w # <<>> => ~FreshIn(Normal(m), Root)
    /\ (w = <<>> /\ st # <<>>) =>
          Len(st) = 1 /\ \A j \in 1..st[1].i - 1 : SkippedIn(m, Root, j)
    /\ (w = <<>> /\ st = <<>>) => FreshIn(Normal(m), Root)

\* A field of the root that is written is not at the default.
LEMMA FieldCosts ==
    ASSUME Kind(Root) # "holder", NEW m \in Memory, Plain(m, Root), NEW i \in Nat \ {0},
           i <= CountIn(m, Root), ~SkippedIn(m, Root, i)
    PROVE  ~FreshIn(Normal(m), Root)
<1> DEFINE k == Schema[Root].kids[i]
           r == Normal(m)
<1>1. Root \in Nodes /\ ~Leaf(Root)
  BY SchemaAssumption
<1>2. k \in Kids(Root) /\ k \in Nodes
  BY <1>1, FieldAt
<1>3. ~NotHeld(m, Root, k)
  BY <1>1, NotSkipped
<1>4. r[Root] = m[Root] /\ Chosen(r, Root, k) /\ Plain(m, k)
  BY <1>1, <1>3, FieldChosen
<1> SUFFICES ASSUME FreshIn(r, Root) PROVE FALSE
  OBVIOUS
<1> HIDE DEF k, r
<1>5. /\ HeldKids(r)[Root] = FreshKids[Root]
      /\ Meaning(Root, r) = Default(Root)
      /\ \A c \in FreshKids[Root] : FreshIn(r, c)
  BY <1>1, FreshSplit
<1>6. CASE Kind(Root) = "sized"
  <2>1. SeqLen(Root, r) = SeqLen(Root, m) /\ CountIn(m, Root) = SeqLen(Root, m)
    BY <1>4, <1>6 DEF SeqLen, CountIn, Wrapper
  <2>2. <<SeqLen(Root, r)>> = <<0>>
    BY <1>1, <1>5, <1>6, SchemaAssumption DEF Meaning
  <2> QED
    BY <2>1, <2>2
<1>7. CASE Kind(Root) # "sized"
  <2>1. k \in FreshKids[Root]
    BY <1>1, <1>2, <1>4, <1>5 DEF HeldKids
  <2>2. FreshIn(r, k) /\ ~Forced(Root, k)
    BY <1>1, <1>5, <2>1 DEF FreshKids, Forced
  <2>3. IsDefault(m)[<<Root, k>>]
    BY <1>1, <1>2, <1>4, <2>2, FreshIsElided DEF r
  <2>4. ~Wrapper(Root)
    BY <1>7 DEF Wrapper
  <2> QED
    BY <2>3, <2>4 DEF SkippedIn, k
<1> QED
  BY <1>6, <1>7

\* A root none of whose fields is written is.
LEMMA NothingWritten ==
    ASSUME Kind(Root) # "holder", NEW m \in Memory,
           \A j \in 1..CountIn(m, Root) : SkippedIn(m, Root, j)
    PROVE  FreshIn(Normal(m), Root)
<1> DEFINE r == Normal(m)
<1>1. Root \in Nodes /\ ~Leaf(Root)
  BY SchemaAssumption
<1>2. CASE Root \in Stray(m)
  <2>1. AtDefault(r, Root)
    BY <1>1, <1>2, NormalIs, LiveType DEF AtDefault
  <2> QED
    BY <1>1, <2>1, AtDefaultIsFresh
<1>3. CASE Root \notin Stray(m)
  <2>1. r[Root] = m[Root]
    BY <1>1, <1>3, PlainIs, RootPlain
  <2>2. Kind(Root) = "sized" => SeqLen(Root, m) = 0
    <3> SUFFICES ASSUME Kind(Root) = "sized", SeqLen(Root, m) # 0 PROVE FALSE
      OBVIOUS
    <3>1. Wrapper(Root) /\ CountIn(m, Root) = SeqLen(Root, m) /\ CountIn(m, Root) \in Nat
      BY <1>1, CountInType DEF Wrapper, CountIn
    <3>2. CountIn(m, Root) \in 1..CountIn(m, Root)
      BY <3>1
    <3> QED
      BY <3>1, <3>2 DEF SkippedIn
  <2>3. ASSUME Kind(Root) # "sized", NEW c \in Kids(Root) PROVE IsDefault(m)[<<Root, c>>]
    <3>1. PICK j \in DOMAIN Schema[Root].kids : Schema[Root].kids[j] = c
      BY DEF Kids, ToSet
    <3>2. j \in 1..Len(Schema[Root].kids)
      BY <1>1, <3>1, NodeType, LenProperties
    <3>3. CountIn(m, Root) = Len(Schema[Root].kids)
      BY <2>3 DEF CountIn, Wrapper
    <3> QED
      BY <3>1, <3>2, <3>3 DEF SkippedIn
  <2>4. \A c \in Kids(Root) :
           IsDefault(m)[<<Root, c>>] /\ ~NotHeld(r, Root, c) => FreshIn(r, c)
    BY <1>1, ElidedIsFresh
  <2> HIDE DEF r
  <2>5. FreshIn(r, Root)
    BY <1>1, <1>3, <2>1, <2>2, <2>3, <2>4, FreshFromKids
  <2> QED
    BY <2>5 DEF r
<1> QED
  BY <1>2, <1>3

LEMMA EmptinessStep ==
    ASSUME Kind(Root) # "holder", NEW m \in Memory, NEW st, NEW w \in Seq(Token), st # <<>>,
           Emptiness(m, st, w), NEW st2, NEW w2, Walk(m, st, w, st2, w2)
    PROVE  Emptiness(m, st2, w2)
<1> DEFINE n == Len(st)
<1>1. PathIn(m, st) /\ st \in Seq(Frames)
  BY DEF Emptiness, PathIn
<1>2. n \in Nat \ {0} /\ n \in 1..n
  BY <1>1, TopType
<1>3. st[n].node \in Nodes /\ st[n].i \in Nat \ {0} /\ CountIn(m, st[n].node) \in Nat
  BY <1>1, <1>2, PathType
<1>4. st[1].node = Root /\ Plain(m, Root)
  BY <1>1, <1>2, RootPlain DEF PathIn
<1>5. st2 # <<>> => PathIn(m, st2)
  BY <1>1, WalkPath
<1>6. w = <<>> => n = 1 /\ \A j \in 1..st[1].i - 1 : SkippedIn(m, Root, j)
  BY DEF Emptiness
<1>7. CASE w # <<>>
  <2>1. \A t : Append(w, t) # <<>>
    OBVIOUS
  <2>2. w2 # <<>>
    BY <1>7, <2>1 DEF Walk, WalkSkip, WalkLeaf, WalkEnter, WalkLeave, WalkFinish
  <2> QED
    BY <1>5, <1>7, <2>2 DEF Emptiness
<1>8. CASE w = <<>>
  <2>1. n = 1 /\ st[n].node = Root /\ \A j \in 1..st[1].i - 1 : SkippedIn(m, Root, j)
    BY <1>4, <1>6, <1>8
  <2>2. CASE WalkSkip(m, st, w, st2, w2)
    <3>1. SkippedIn(m, Root, st[1].i) /\ st2 = GoOn(st, n) /\ w2 = <<>>
      BY <1>8, <2>1, <2>2 DEF WalkSkip
    <3>2. Len(st2) = 1 /\ st2[1].i = st[1].i + 1
      <4>1. Len(st2) = n /\ st2[n] = Onward(st[n], "ok")
        BY <1>1, <1>2, <3>1, GoOnType
      <4>2. Onward(st[n], "ok").i = st[n].i + 1
        BY DEF Onward
      <4> QED
        BY <2>1, <4>1, <4>2
    <3>3. \A j \in 1..st2[1].i - 1 : SkippedIn(m, Root, j)
      <4>1. \A j \in 1..st[1].i : j \in 1..st[1].i - 1 \/ j = st[1].i
        BY <1>3, <2>1
      <4>2. st2[1].i - 1 = st[1].i
        BY <1>3, <2>1, <3>2
      <4> QED
        BY <2>1, <3>1, <4>1, <4>2
    <3>4. st2 # <<>>
      BY <1>1, <1>2, <3>1, GoOnType
    <3> QED
      BY <1>5, <3>1, <3>2, <3>3, <3>4 DEF Emptiness
  <2>3. CASE WalkLeaf(m, st, w, st2, w2) \/ WalkEnter(m, st, w, st2, w2)
    <3>1. st[n].i <= CountIn(m, Root) /\ ~SkippedIn(m, Root, st[n].i)
      BY <2>1, <2>3 DEF WalkLeaf, WalkEnter
    <3>2. ~FreshIn(Normal(m), Root)
      BY <1>3, <1>4, <3>1, FieldCosts
    <3>3. \A t : Append(w, t) # <<>>
      OBVIOUS
    <3>4. w2 # <<>>
      BY <2>3, <3>3 DEF WalkLeaf, WalkEnter
    <3> QED
      BY <1>5, <3>2, <3>4 DEF Emptiness
  <2>4. CASE WalkFinish(m, st, w, st2, w2)
    <3>1. st2 = <<>> /\ w2 = <<>> /\ ~(st[1].i <= CountIn(m, Root))
      BY <1>8, <2>1, <2>4 DEF WalkFinish
    <3>2. \A j \in 1..CountIn(m, Root) : j \in 1..st[1].i - 1
      BY <1>3, <2>1, <3>1
    <3>3. \A j \in 1..CountIn(m, Root) : SkippedIn(m, Root, j)
      BY <2>1, <3>2
    <3>4. FreshIn(Normal(m), Root)
      BY <3>3, NothingWritten
    <3> QED
      BY <3>1, <3>4 DEF Emptiness
  <2>5. ~WalkLeave(m, st, w, st2, w2)
    BY <2>1 DEF WalkLeave
  <2> QED
    BY <2>2, <2>3, <2>4, <2>5 DEF Walk
<1> QED
  BY <1>7, <1>8

LEMMA FreshView ==
    ASSUME NEW m
    PROVE  FreshIn(m, Root) <=> View(m) = View(InitObject)
<1>1. View(InitObject) = FreshOf(Root) /\ Live(m) = LiveIn(m, Root)
  BY FreshObject, StepsAre
<1>2. View(m) = [x \in LiveIn(m, Root) |-> Meaning(x, m)]
  BY <1>1 DEF View
<1>3. FreshOf(Root) = [x \in FreshParts[Root] |-> Default(x)]
  BY DEF FreshOf
<1>4. ASSUME View(m) = FreshOf(Root) PROVE FreshIn(m, Root)
  <2>1. LiveIn(m, Root) = FreshParts[Root]
    BY <1>2, <1>3, <1>4
  <2>2. \A x \in LiveIn(m, Root) : View(m)[x] = Meaning(x, m) /\ FreshOf(Root)[x] = Default(x)
    BY <1>2, <1>3, <2>1
  <2> QED
    BY <1>4, <2>1, <2>2 DEF FreshIn
<1>5. ASSUME FreshIn(m, Root) PROVE View(m) = FreshOf(Root)
  BY <1>2, <1>3, <1>5 DEF FreshIn
<1> QED
  BY <1>1, <1>4, <1>5

\* Of an encoding without an error.
Economical == errors = {} => Emptiness(src, stack, wire)

LEMMA EconomicalStep ==
    ASSUME Kind(Root) # "holder", Inductive, Economical, [Next]_vars
    PROVE  Economical'
<1>1. CASE UNCHANGED vars
  BY <1>1 DEF vars, Economical
<1>2. CASE Next
  <2> SUFFICES ASSUME errors' = {} PROVE Emptiness(src', stack', wire')
    BY DEF Economical
  <2>1. errors = {}
    BY <1>2 DEF Next, SkipField, RefuseField, WriteField, EnterSequence, LeaveSequence,
                Finish, Write
  <2>2. stack # <<>>
    BY <1>2 DEF Next, SkipField, RefuseField, WriteField, EnterSequence, LeaveSequence,
                Finish, Looping, Returning
  <2>3. Emptiness(src, stack, wire) /\ PathIn(src, stack) /\ src \in Memory /\ wire \in Seq(Token)
    BY <2>1, <2>2 DEF Economical, Emptiness, Inductive, TypeOK
  <2>4. src' = src /\ Walk(src, stack, wire, stack', wire')
    BY <1>2, <2>3, WalkStep
  <2>5. Emptiness(src, stack', wire')
    BY <2>2, <2>3, <2>4, EmptinessStep
  <2> QED
    BY <2>4, <2>5
<1> QED
  BY <1>1, <1>2

LEMMA EconomicalInit ==
    ASSUME NEW objects, objects \in SUBSET Memory, Init(objects)
    PROVE  Economical
<1>1. src \in Memory /\ stack = <<Frame(Root)>> /\ wire = <<>>
  BY DEF Init
<1>2. PathIn(src, stack)
  BY <1>1, PathStarts
<1>3. Len(stack) = 1 /\ stack[1].i = 1 /\ stack # <<>>
  BY <1>1 DEF Frame
<1> QED
  BY <1>1, <1>2, <1>3 DEF Economical, Emptiness

LEMMA EconomicalIsEmpty ==
    ASSUME Inductive, Economical
    PROVE  DefaultIsEmpty
<1> SUFFICES ASSUME result = "ok" PROVE wire = <<>> <=> View(Normal(src)) = View(InitObject)
  BY DEF DefaultIsEmpty
<1>1. Gravest(errors) = "ok" /\ errors \subseteq Errors /\ stack = <<>>
  BY DEF Inductive, ErrorsSurface, TypeOK, WalkEnds
<1>2. errors = {}
  BY <1>1 DEF Gravest, Errors
<1>3. wire = <<>> <=> FreshIn(Normal(src), Root)
  BY <1>1, <1>2 DEF Economical, Emptiness
<1> QED
  BY <1>3, FreshView

\* A message whose descriptor is not an array takes no byte exactly when its
\* value, of every object the root contains, is that of a fresh object.
THEOREM DefaultsAreFree ==
    ASSUME NEW CONSTANT objects, objects \in SUBSET Memory, Kind(Root) # "holder"
    PROVE  EncodeSpec(objects) => []DefaultIsEmpty
<1>1. Init(objects) => Economical
  BY EconomicalInit
<1>2. Inductive /\ Economical /\ [Next]_vars => Economical'
  BY EconomicalStep
<1>3. Inductive /\ Economical => DefaultIsEmpty
  BY EconomicalIsEmpty
<1> QED
  BY <1>1, <1>2, <1>3, EncodeInductive, PTL DEF EncodeSpec


-----------------------------------------------------------------------------
(* What a receiver has of a message that is on its way.                    *)

\* What the value V has within k: nothing, what the object r has, or what a
\* fresh object has.
Gone(V, k) == \A x \in Below[k] : x \notin DOMAIN V
SameIn(r, V, k) ==
    \A x \in Below[k] : /\ x \in DOMAIN V <=> x \in LiveIn(r, k)
                        /\ x \in LiveIn(r, k) => V[x] = Meaning(x, r)
NewIn(V, k) ==
    \A x \in Below[k] : /\ x \in DOMAIN V <=> x \in FreshParts[k]
                        /\ x \in FreshParts[k] => V[x] = Default(x)

\* The field k of p is part of the value V.
Present(V, p, k) ==
    /\ Kind(p) = "union" => V[p] = <<Id(k)>>
    /\ Kind(p) = "sized" => Id(k) < V[p][1]

\* Contents of some nodes.
IsValue(V) == DOMAIN V \subseteq Nodes /\ V = [x \in DOMAIN V |-> V[x]]

\* An encoder of r has come to field i of p.  What it has passed has arrived,
\* but for the default elements it left out; the rest is as in a fresh object.
FieldMatches(r, V, p, i, j) ==
    LET k == Schema[p].kids[j]
        passed == j < i /\ Chosen(r, p, k)
    IN  /\ ~Present(V, p, k) => Gone(V, k)
        /\ Present(V, p, k) /\ passed => SameIn(r, V, k)
        /\ Present(V, p, k) /\ ~passed => NewIn(V, k)
        /\ passed /\ ~Present(V, p, k) => Kind(p) = "sized" /\ FreshIn(r, k)

\* While field i is in progress it is part of the value.
NumberMatches(r, V, p, i, busy) ==
    /\ Kind(p) \in {"struct", "holder"} => V[p] = <<>>
    /\ Kind(p) = "sized" =>
          /\ V[p][1] \in Nat /\ V[p] = <<V[p][1]>>
          /\ busy => V[p][1] = i
          /\ ~busy => V[p][1] <= i - 1
          /\ i > CountIn(r, p) => V[p][1] = CountIn(r, p)
    /\ Kind(p) = "union" /\ ~busy =>
          \A j \in 1..Len(Schema[p].kids) :
              j >= i /\ Chosen(r, p, Schema[p].kids[j]) => V[p] = Default(p)

NodeMatches(r, V, p, i, busy) ==
    /\ p \in DOMAIN V
    /\ NumberMatches(r, V, p, i, busy)
    /\ \A j \in 1..Len(Schema[p].kids) :
          (busy => j # i) => FieldMatches(r, V, p, i, j)
    /\ busy => /\ i \in 1..Len(Schema[p].kids)
               /\ Present(V, p, Schema[p].kids[i])
               /\ Chosen(r, p, Schema[p].kids[i])

LEMMA KidAt ==
    ASSUME NEW p \in Nodes, NEW j \in 1..Len(Schema[p].kids)
    PROVE  /\ Schema[p].kids[j] \in Kids(p) /\ Schema[p].kids[j] \in Nodes
           /\ Len(Schema[p].kids) \in Nat /\ j \in Nat \ {0}
           /\ Wrapper(p) => Id(Schema[p].kids[j]) = j - 1
           /\ \A i \in 1..Len(Schema[p].kids) :
                Id(Schema[p].kids[i]) = Id(Schema[p].kids[j]) => i = j
<1>1. Len(Schema[p].kids) \in Nat /\ DOMAIN Schema[p].kids = 1..Len(Schema[p].kids)
  BY NodeType, LenProperties
<1>2. \A i \in 1..Len(Schema[p].kids) : Schema[p].kids[i] \in Kids(p)
  BY <1>1 DEF Kids, ToSet
<1>3. Wrapper(p) => Id(Schema[p].kids[j]) = j - 1
  BY SchemaAssumption
<1>4. ASSUME NEW i \in 1..Len(Schema[p].kids), Id(Schema[p].kids[i]) = Id(Schema[p].kids[j])
      PROVE  i = j
  <2>1. Schema[p].kids[i] = Schema[p].kids[j]
    BY <1>2, <1>4, SchemaAssumption
  <2> QED
    BY <2>1, TreeAssumption
<1>5. Schema[p].kids[j] \in Nodes
  BY <1>2, KidsInNodes
<1> QED
  BY <1>1, <1>2, <1>3, <1>4, <1>5

LEMMA KidOf ==
    ASSUME NEW p \in Nodes, NEW k \in Kids(p)
    PROVE  \E j \in 1..Len(Schema[p].kids) : Schema[p].kids[j] = k
<1>1. DOMAIN Schema[p].kids = 1..Len(Schema[p].kids)
  BY NodeType, LenProperties
<1> QED
  BY <1>1 DEF Kids, ToSet

\* Of a fresh object, by fields.
LEMMA NewKids ==
    ASSUME NEW V, NEW k \in Nodes, NewIn(V, k), NEW c \in Kids(k)
    PROVE  /\ c \in FreshKids[k] => NewIn(V, c)
           /\ c \notin FreshKids[k] => Gone(V, c)
<1>1. c \in Nodes /\ c # k /\ c \in Below[k] /\ Below[c] \subseteq Below[k] /\ k \notin Below[c]
  BY KidsInNodes, BelowKid
<1>2. ASSUME NEW x \in Below[c]
      PROVE  x \in FreshParts[k] <=> c \in FreshKids[k] /\ x \in FreshParts[c]
  <2>1. ASSUME x \in FreshParts[k] PROVE c \in FreshKids[k] /\ x \in FreshParts[c]
    <3>1. c \in FreshParts[k] /\ x \in FreshParts[c]
      BY <1>1, <2>1, StepsAre, DownThrough DEF FreshParts
    <3>2. c \in FreshKids[k]
      BY <1>1, <3>1, StepsAre, DownParent DEF FreshParts
    <3> QED
      BY <3>1, <3>2
  <2>2. ASSUME c \in FreshKids[k], x \in FreshParts[c] PROVE x \in FreshParts[k]
    BY <2>2, StepsAre, DownSplit DEF FreshParts
  <2> QED
    BY <2>1, <2>2
<1> QED
  BY <1>1, <1>2 DEF NewIn, Gone

\* A nested object that has just been opened.
LEMMA NodeOpened ==
    ASSUME NEW r \in Memory, NEW V, NEW k \in Nodes, ~Leaf(k), NewIn(V, k)
    PROVE  NodeMatches(r, V, k, 1, FALSE)
<1>1. k \in Below[k] /\ k \in FreshParts[k]
  BY BelowType, LiveType
<1>2. k \in DOMAIN V /\ V[k] = Default(k)
  BY <1>1 DEF NewIn
<1>3. NumberMatches(r, V, k, 1, FALSE)
  <2>1. Kind(k) \in {"struct", "holder"} => V[k] = <<>>
    BY <1>2, SchemaAssumption
  <2>2. ASSUME Kind(k) = "sized"
        PROVE  /\ V[k][1] \in Nat /\ V[k] = <<V[k][1]>> /\ V[k][1] <= 1 - 1
               /\ 1 > CountIn(r, k) => V[k][1] = CountIn(r, k)
    <3>1. V[k] = <<0>> /\ CountIn(r, k) \in Nat
      BY <1>2, <2>2, SchemaAssumption, CountInType
    <3> QED
      BY <3>1
  <2> QED
    BY <1>2, <2>1, <2>2 DEF NumberMatches
<1>4. ASSUME NEW j \in 1..Len(Schema[k].kids) PROVE FieldMatches(r, V, k, 1, j)
  <2> DEFINE c == Schema[k].kids[j]
  <2>1. c \in Kids(k) /\ c \in Nodes /\ ~(j < 1)
    BY KidAt
  <2> HIDE DEF c
  <2>2. Present(V, k, c) <=> c \in FreshKids[k]
    <3>1. CASE Kind(k) = "sized"
      <4>1. V[k] = <<0>> /\ Id(c) \in Nat
        BY <1>2, <2>1, <3>1, SchemaAssumption, NodeType
      <4> QED
        BY <2>1, <3>1, <4>1, HeldKidsOf DEF Present
    <3>2. CASE Kind(k) # "sized"
      BY <1>2, <2>1, <3>2 DEF Present, FreshKids
    <3> QED
      BY <3>1, <3>2
  <2> QED
    BY <2>1, <2>2, NewKids DEF FieldMatches, c
<1> QED
  BY <1>2, <1>3, <1>4 DEF NodeMatches

\* The field in progress has arrived.
LEMMA FieldArrived ==
    ASSUME NEW r \in Memory, NEW V, NEW p \in Nodes, NEW i \in Nat \ {0}, i <= CountIn(r, p),
           NodeMatches(r, V, p, i, TRUE), SameIn(r, V, Schema[p].kids[i])
    PROVE  NodeMatches(r, V, p, i + 1, FALSE)
<1> DEFINE k == Schema[p].kids[i]
<1>1. CountIn(r, p) \in Nat /\ i \in 1..Len(Schema[p].kids) /\ Present(V, p, k) /\ Chosen(r, p, k)
  BY CountInType DEF NodeMatches
<1>2. NumberMatches(r, V, p, i + 1, FALSE)
  <2>1. NumberMatches(r, V, p, i, TRUE)
    BY DEF NodeMatches
  <2>2. Kind(p) \in {"struct", "holder"} => V[p] = <<>>
    BY <2>1 DEF NumberMatches
  <2>3. ASSUME Kind(p) = "sized"
        PROVE  /\ V[p][1] \in Nat /\ V[p] = <<V[p][1]>> /\ V[p][1] <= (i + 1) - 1
               /\ i + 1 > CountIn(r, p) => V[p][1] = CountIn(r, p)
    <3>1. V[p][1] \in Nat /\ V[p] = <<V[p][1]>> /\ V[p][1] = i
      BY <2>1, <2>3 DEF NumberMatches
    <3> QED
      BY <1>1, <3>1
  <2>4. ASSUME Kind(p) = "union", NEW j \in 1..Len(Schema[p].kids), j >= i + 1,
               Chosen(r, p, Schema[p].kids[j])
        PROVE  FALSE
    <3>1. r[p] = <<Id(Schema[p].kids[j])>> /\ r[p] = <<Id(k)>>
      BY <1>1, <2>4 DEF Chosen, NotHeld, HeldIn
    <3>2. Id(Schema[p].kids[j]) = Id(k)
      BY <3>1
    <3>3. i = j
      BY <1>1, <3>2, KidAt
    <3> QED
      BY <2>4, <3>3
  <2> QED
    BY <2>2, <2>3, <2>4 DEF NumberMatches
<1>3. ASSUME NEW j \in 1..Len(Schema[p].kids) PROVE FieldMatches(r, V, p, i + 1, j)
  <2>1. CASE j = i
    BY <1>1, <2>1 DEF FieldMatches
  <2>2. CASE j # i
    <3>1. j < i + 1 <=> j < i
      BY <2>2
    <3>2. FieldMatches(r, V, p, i, j)
      BY <2>2 DEF NodeMatches
    <3> QED
      BY <3>1, <3>2 DEF FieldMatches
  <2> QED
    BY <2>1, <2>2
<1> QED
  BY <1>2, <1>3 DEF NodeMatches


\* What a fresh object has is what r has there.
LEMMA NewIsSame ==
    ASSUME NEW r, NEW V, NEW k \in Nodes, NewIn(V, k), FreshIn(r, k)
    PROVE  SameIn(r, V, k)
BY DEF NewIn, FreshIn, SameIn

\* The field the encoder is at is passed over.
LEMMA FieldPassed ==
    ASSUME NEW r \in Memory, NEW V, NEW p \in Nodes, NEW i \in Nat \ {0}, i <= CountIn(r, p),
           NodeMatches(r, V, p, i, FALSE), NEW k, k = Schema[p].kids[i],
           Kind(p) = "sized" => i < CountIn(r, p),
           ~NotHeld(r, p, k) => FreshIn(r, k),
           Kind(p) = "union" /\ ~NotHeld(r, p, k) => Default(p) = <<Id(k)>>
    PROVE  NodeMatches(r, V, p, i + 1, FALSE)
<1>1. /\ CountIn(r, p) \in Nat /\ i \in 1..Len(Schema[p].kids) /\ k \in Kids(p) /\ k \in Nodes
      /\ NumberMatches(r, V, p, i, FALSE) /\ FieldMatches(r, V, p, i, i)
  BY CountInType, FieldAt DEF NodeMatches
<1>2. NumberMatches(r, V, p, i + 1, FALSE)
  <2>1. Kind(p) \in {"struct", "holder"} => V[p] = <<>>
    BY <1>1 DEF NumberMatches
  <2>2. ASSUME Kind(p) = "sized"
        PROVE  /\ V[p][1] \in Nat /\ V[p] = <<V[p][1]>> /\ V[p][1] <= (i + 1) - 1
               /\ i + 1 > CountIn(r, p) => V[p][1] = CountIn(r, p)
    <3>1. V[p][1] \in Nat /\ V[p] = <<V[p][1]>> /\ V[p][1] <= i - 1
      BY <1>1, <2>2 DEF NumberMatches
    <3> QED
      BY <1>1, <2>2, <3>1
  <2>3. ASSUME Kind(p) = "union", NEW j \in 1..Len(Schema[p].kids), j >= i + 1,
               Chosen(r, p, Schema[p].kids[j])
        PROVE  V[p] = Default(p)
    <3>1. j >= i
      BY <2>3
    <3> QED
      BY <1>1, <2>3, <3>1 DEF NumberMatches
  <2> QED
    BY <2>1, <2>2, <2>3 DEF NumberMatches
<1>3. FieldMatches(r, V, p, i + 1, i)
  <2>1. i < i + 1 /\ ~(i < i)
    OBVIOUS
  <2>2. /\ ~Present(V, p, k) => Gone(V, k)
        /\ Present(V, p, k) => NewIn(V, k)
    BY <1>1, <2>1 DEF FieldMatches
  <2>3. Chosen(r, p, k) => FreshIn(r, k)
    BY DEF Chosen
  <2>4. Present(V, p, k) /\ Chosen(r, p, k) => SameIn(r, V, k)
    BY <1>1, <2>2, <2>3, NewIsSame
  <2>5. ASSUME Chosen(r, p, k), ~Present(V, p, k) PROVE Kind(p) = "sized"
    <3>1. CASE Kind(p) = "union"
      <4>1. i >= i
        OBVIOUS
      <4>2. V[p] = Default(p)
        BY <1>1, <2>5, <3>1, <4>1 DEF NumberMatches
      <4>3. V[p] = <<Id(k)>>
        BY <2>5, <3>1, <4>2 DEF Chosen
      <4> QED
        BY <2>5, <3>1, <4>3 DEF Present
    <3> QED
      BY <2>5, <3>1 DEF Present
  <2> QED
    BY <2>2, <2>3, <2>4, <2>5 DEF FieldMatches
<1>4. ASSUME NEW j \in 1..Len(Schema[p].kids) PROVE FieldMatches(r, V, p, i + 1, j)
  <2>1. CASE j = i
    BY <1>3, <2>1
  <2>2. CASE j # i
    <3>1. j < i + 1 <=> j < i
      BY <2>2
    <3>2. FieldMatches(r, V, p, i, j)
      BY DEF NodeMatches
    <3> QED
      BY <3>1, <3>2 DEF FieldMatches
  <2> QED
    BY <2>1, <2>2
<1> QED
  BY <1>2, <1>4 DEF NodeMatches

\* Outside S two values are the same.
Alike(V, W, S) ==
    \A x \in Nodes : x \notin S => /\ x \in DOMAIN V <=> x \in DOMAIN W
                                   /\ x \in DOMAIN V => V[x] = W[x]

\* Within the field in progress the value may change.
LEMMA FieldChanges ==
    ASSUME NEW r \in Memory, NEW V, NEW W, NEW p \in Nodes, NEW i,
           NodeMatches(r, V, p, i, TRUE), Alike(V, W, Below[Schema[p].kids[i]])
    PROVE  NodeMatches(r, W, p, i, TRUE)
<1> DEFINE k == Schema[p].kids[i]
<1>1. /\ i \in 1..Len(Schema[p].kids) /\ k \in Kids(p) /\ k \in Nodes /\ p \notin Below[k]
      /\ p \in DOMAIN V
  BY KidAt, BelowKid DEF NodeMatches
<1>2. p \in DOMAIN W /\ V[p] = W[p]
  BY <1>1 DEF Alike
<1>3. \A c : Present(V, p, c) <=> Present(W, p, c)
  BY <1>2 DEF Present
<1>4. NumberMatches(r, W, p, i, TRUE)
  BY <1>2 DEF NodeMatches, NumberMatches
<1>5. ASSUME NEW j \in 1..Len(Schema[p].kids), j # i PROVE FieldMatches(r, W, p, i, j)
  <2> DEFINE c == Schema[p].kids[j]
  <2>1. c \in Kids(p) /\ c \in Nodes /\ c # k /\ Below[c] \subseteq Nodes
    BY <1>1, <1>5, KidAt, BelowType
  <2>2. FieldMatches(r, V, p, i, j)
    BY <1>5 DEF NodeMatches
  <2> HIDE DEF k, c
  <2>3. ASSUME NEW x \in Below[c]
        PROVE  /\ x \in DOMAIN V <=> x \in DOMAIN W
               /\ x \in DOMAIN V => V[x] = W[x]
    <3>1. x \notin Below[k]
      BY <1>1, <2>1, SiblingsApart
    <3> QED
      BY <2>1, <3>1 DEF Alike, k
  <2>4. /\ Gone(V, c) => Gone(W, c)
        /\ SameIn(r, V, c) => SameIn(r, W, c)
        /\ NewIn(V, c) => NewIn(W, c)
    BY <2>3 DEF Gone, SameIn, NewIn
  <2> QED
    BY <1>3, <2>2, <2>4 DEF FieldMatches, c
<1> QED
  BY <1>2, <1>3, <1>4, <1>5 DEF NodeMatches

\* Nothing is left of the nested object to come.
LEMMA NodeArrived ==
    ASSUME NEW r \in Memory, NEW V, NEW p \in Nodes, NEW i \in Nat \ {0}, i > CountIn(r, p),
           ~Leaf(p), NodeMatches(r, V, p, i, FALSE),
           Kind(p) = "union" => \E k \in Kids(p) : ~NotHeld(r, p, k)
    PROVE  SameIn(r, V, p)
<1>1. /\ p \in DOMAIN V /\ NumberMatches(r, V, p, i, FALSE)
      /\ CountIn(r, p) \in Nat /\ Len(Schema[p].kids) \in Nat
  BY CountInType, NodeType DEF NodeMatches
<1>2. ASSUME NEW k \in Kids(p)
      PROVE  \E j \in 1..Len(Schema[p].kids) :
                /\ Schema[p].kids[j] = k /\ FieldMatches(r, V, p, i, j)
                /\ Chosen(r, p, k) => j < i
  <2>1. PICK j \in 1..Len(Schema[p].kids) : Schema[p].kids[j] = k
    BY KidOf
  <2>2. FieldMatches(r, V, p, i, j)
    BY DEF NodeMatches
  <2>3. ASSUME Chosen(r, p, k) PROVE j <= CountIn(r, p)
    <3>1. CASE Kind(p) = "sized"
      <4>1. Id(k) < SeqLen(p, r) /\ Wrapper(p) /\ CountIn(r, p) = SeqLen(p, r) /\ Id(k) = j - 1
        BY <2>1, <2>3, <3>1, KidAt DEF Chosen, Wrapper, CountIn
      <4> QED
        BY <1>1, <4>1
    <3>2. CASE Kind(p) # "sized"
      <4>1. CountIn(r, p) = Len(Schema[p].kids)
        BY <3>2 DEF CountIn, SeqLen
      <4> QED
        BY <1>1, <4>1
    <3> QED
      BY <3>1, <3>2
  <2>4. Chosen(r, p, k) => j < i
    BY <1>1, <2>3
  <2> QED
    BY <2>1, <2>2, <2>4
<1>3. V[p] = Meaning(p, r)
  <2>1. CASE Kind(p) \in {"struct", "holder"}
    BY <1>1, <2>1 DEF NumberMatches, Meaning
  <2>2. CASE Kind(p) = "sized"
    BY <1>1, <2>2 DEF NumberMatches, Meaning, CountIn, Wrapper
  <2>3. CASE Kind(p) = "union"
    <3>1. PICK k \in Kids(p) : ~NotHeld(r, p, k)
      BY <2>3
    <3>2. Chosen(r, p, k)
      BY <2>3, <3>1 DEF Chosen
    <3>3. Present(V, p, k)
      BY <1>2, <2>3, <3>2 DEF FieldMatches
    <3>4. V[p] = <<Id(k)>> /\ r[p] = <<Id(k)>>
      BY <2>3, <3>1, <3>3 DEF Present, NotHeld, HeldIn
    <3> QED
      BY <2>3, <3>4 DEF Meaning, Used
  <2> QED
    BY <2>1, <2>2, <2>3, NodeType DEF Containers, Leaf
<1>4. ASSUME NEW k \in Kids(p)
      PROVE  /\ Chosen(r, p, k) => SameIn(r, V, k)
             /\ ~Chosen(r, p, k) => Gone(V, k)
  <2>1. PICK j \in 1..Len(Schema[p].kids) :
           /\ Schema[p].kids[j] = k /\ FieldMatches(r, V, p, i, j)
           /\ Chosen(r, p, k) => j < i
    BY <1>2
  <2>2. Present(V, p, k) <=> Chosen(r, p, k)
    <3>1. CASE Kind(p) = "union"
      BY <1>3, <3>1 DEF Present, Chosen, NotHeld, HeldIn, Meaning, Used
    <3>2. CASE Kind(p) = "sized"
      <4>1. V[p][1] = SeqLen(p, r)
        BY <1>3, <3>2 DEF Meaning
      <4> QED
        BY <3>2, <4>1 DEF Present, Chosen, NotHeld
    <3>3. CASE Kind(p) \notin {"union", "sized"}
      BY <3>3 DEF Present, Chosen, NotHeld
    <3> QED
      BY <3>1, <3>2, <3>3
  <2> QED
    BY <2>1, <2>2 DEF FieldMatches
<1> SUFFICES ASSUME NEW x \in Below[p]
             PROVE  /\ x \in DOMAIN V <=> x \in LiveIn(r, p)
                    /\ x \in LiveIn(r, p) => V[x] = Meaning(x, r)
  BY DEF SameIn
<1>5. CASE x = p
  BY <1>1, <1>3, <1>5, LiveType
<1>6. CASE x # p
  <2>1. PICK k \in Kids(p) : x \in Below[k]
    BY <1>6, BelowSplit
  <2>2. x \in LiveIn(r, p) <=> Chosen(r, p, k) /\ x \in LiveIn(r, k)
    <3>1. ASSUME NEW c \in Kids(p), x \in LiveIn(r, c) PROVE c = k
      <4>1. x \in Below[c]
        BY <3>1, KidsInNodes, LiveType
      <4> QED
        BY <2>1, <4>1, SiblingsApart
    <3> QED
      BY <1>6, <3>1, LiveSplit
  <2> QED
    BY <1>4, <2>1, <2>2 DEF SameIn, Gone
<1> QED
  BY <1>5, <1>6

\* All of the object has arrived.
LEMMA ObjectArrived ==
    ASSUME NEW r, NEW V, SameIn(r, V, Root), IsValue(V)
    PROVE  V = View(r)
<1>0. V = [x \in DOMAIN V |-> V[x]] /\ DOMAIN V \subseteq Nodes
  BY DEF IsValue
<1>1. Below[Root] = Nodes /\ Live(r) = LiveIn(r, Root) /\ Live(r) \subseteq Nodes
  BY BelowRoot, StepsAre, LiveNodes
<1>2. DOMAIN V = Live(r) /\ \A x \in Live(r) : V[x] = Meaning(x, r)
  BY <1>0, <1>1 DEF SameIn
<1> QED
  BY <1>0, <1>2 DEF View


\* A field of a struct, or of the option a union has already, is there.
LEMMA FieldThere ==
    ASSUME NEW r \in Memory, NEW V, NEW p \in Nodes, NEW i \in Nat \ {0}, i <= CountIn(r, p),
           NodeMatches(r, V, p, i, FALSE), NEW k, k = Schema[p].kids[i], Chosen(r, p, k),
           Kind(p) # "sized", Present(V, p, k)
    PROVE  NodeMatches(r, V, p, i, TRUE) /\ NewIn(V, k)
<1>1. i \in 1..Len(Schema[p].kids) /\ FieldMatches(r, V, p, i, i) /\ ~(i < i)
  BY FieldAt DEF NodeMatches
<1>2. NewIn(V, k)
  BY <1>1 DEF FieldMatches
<1>3. NumberMatches(r, V, p, i, TRUE)
  BY DEF NodeMatches, NumberMatches
<1> QED
  BY <1>1, <1>2, <1>3 DEF NodeMatches

\* A union changes over.
LEMMA UnionReached ==
    ASSUME NEW r \in Memory, NEW V, DOMAIN V \subseteq Nodes, NEW p \in Nodes,
           NEW i \in Nat \ {0}, i <= CountIn(r, p), Kind(p) = "union",
           NEW k, k = Schema[p].kids[i], Chosen(r, p, k),
           NEW R, R = With(With(Without(V, Below[p]), At(p, <<Id(k)>>)), FreshOf(k))
    PROVE  /\ NodeMatches(r, R, p, i, TRUE) /\ NewIn(R, k) /\ Alike(V, R, Below[p])
           /\ DOMAIN R \subseteq Nodes
<1>1. /\ i \in 1..Len(Schema[p].kids) /\ k \in Kids(p) /\ k \in Nodes
      /\ p \notin Below[k] /\ Below[k] \subseteq Below[p] /\ p \in Below[p]
      /\ FreshParts[k] \subseteq Below[k] /\ Below[p] \subseteq Nodes
  BY FieldAt, KidsInNodes, BelowKid, BelowType, LiveType
<1>2. /\ DOMAIN R = (DOMAIN V \ Below[p]) \cup {p} \cup FreshParts[k]
      /\ R[p] = <<Id(k)>>
      /\ \A x \in FreshParts[k] : R[x] = Default(x)
      /\ \A x \in DOMAIN V \ Below[p] : R[x] = V[x]
  <2> DEFINE a == Without(V, Below[p])
             b == At(p, <<Id(k)>>)
             c == FreshOf(k)
  <2>1. DOMAIN a = DOMAIN V \ Below[p] /\ \A x \in DOMAIN a : a[x] = V[x]
    BY DEF Without
  <2>2. DOMAIN b = {p} /\ b[p] = <<Id(k)>>
    BY AtAt
  <2>3. DOMAIN c = FreshParts[k] /\ \A x \in DOMAIN c : c[x] = Default(x)
    BY DEF FreshOf
  <2>4. R = With(With(a, b), c)
    OBVIOUS
  <2> HIDE DEF a, b, c
  <2> DEFINE e == With(a, b)
  <2>5. /\ DOMAIN e = DOMAIN a \cup DOMAIN b
        /\ \A x \in DOMAIN b : e[x] = b[x]
        /\ \A x \in DOMAIN a : x \notin DOMAIN b => e[x] = a[x]
    BY WithAt
  <2> HIDE DEF e
  <2>6. /\ DOMAIN R = DOMAIN e \cup DOMAIN c
        /\ \A x \in DOMAIN c : R[x] = c[x]
        /\ \A x \in DOMAIN e : x \notin DOMAIN c => R[x] = e[x]
    <3>1. /\ DOMAIN With(e, c) = DOMAIN e \cup DOMAIN c
          /\ \A x \in DOMAIN c : With(e, c)[x] = c[x]
          /\ \A x \in DOMAIN e : x \notin DOMAIN c => With(e, c)[x] = e[x]
      BY WithAt
    <3>2. R = With(e, c)
      BY <2>4 DEF e
    <3> QED
      BY <3>1, <3>2
  <2> QED
    BY <1>1, <2>1, <2>2, <2>3, <2>5, <2>6
<1>3. NewIn(R, k)
  BY <1>1, <1>2 DEF NewIn
<1>4. Alike(V, R, Below[p])
  BY <1>1, <1>2 DEF Alike
<1>5. ASSUME NEW j \in 1..Len(Schema[p].kids), j # i PROVE FieldMatches(r, R, p, i, j)
  <2> DEFINE c == Schema[p].kids[j]
  <2>1. c \in Kids(p) /\ c \in Nodes /\ Id(c) # Id(k) /\ c # k
    BY <1>1, <1>5, KidAt
  <2>2. Below[c] \subseteq Below[p] /\ p \notin Below[c]
    BY <2>1, BelowKid
  <2> HIDE DEF c
  <2>3. ~Present(R, p, c)
    <3>1. <<Id(k)>> # <<Id(c)>>
      BY <2>1
    <3> QED
      BY <1>2, <3>1 DEF Present
  <2>4. ~Chosen(r, p, c)
    <3> SUFFICES ASSUME Chosen(r, p, c) PROVE FALSE
      OBVIOUS
    <3>1. <<Id(k)>> = <<Id(c)>>
      BY DEF Chosen, NotHeld, HeldIn
    <3> QED
      BY <2>1, <3>1
  <2>5. Gone(R, c)
    <3> SUFFICES ASSUME NEW x \in Below[c], x \in DOMAIN R PROVE FALSE
      BY DEF Gone
    <3>1. x \in FreshParts[k]
      BY <1>2, <2>2
    <3> QED
      BY <1>1, <2>1, <3>1, SiblingsApart
  <2> QED
    BY <2>3, <2>4, <2>5 DEF FieldMatches, c
<1>6. Present(R, p, k)
  BY <1>2 DEF Present
<1>7. NumberMatches(r, R, p, i, TRUE)
  BY DEF NumberMatches
<1> QED
  BY <1>1, <1>2, <1>3, <1>4, <1>5, <1>6, <1>7 DEF NodeMatches

\* An array grows.
LEMMA SizedReached ==
    ASSUME NEW r \in Memory, NEW V, DOMAIN V \subseteq Nodes, NEW p \in Nodes,
           NEW i \in Nat \ {0}, i <= CountIn(r, p), Kind(p) = "sized",
           NodeMatches(r, V, p, i, FALSE),
           NEW k, k = Schema[p].kids[i], Chosen(r, p, k),
           NEW R, R = With(With(V, At(p, <<Id(k) + 1>>)),
                           [x \in UNION {FreshParts[c] : c \in NewElements(p, k, V)} |-> Default(x)])
    PROVE  /\ NodeMatches(r, R, p, i, TRUE) /\ NewIn(R, k) /\ Alike(V, R, Below[p])
           /\ DOMAIN R \subseteq Nodes
<1> DEFINE n == V[p][1]
           new == NewElements(p, k, V)
           extra == UNION {FreshParts[c] : c \in new}
<1>1. /\ i \in 1..Len(Schema[p].kids) /\ k \in Kids(p) /\ k \in Nodes /\ Id(k) = i - 1
      /\ p \in Below[p] /\ Below[p] \subseteq Nodes /\ CountIn(r, p) \in Nat
  BY FieldAt, KidsInNodes, BelowType, CountInType DEF Wrapper
<1>2. n \in Nat /\ n <= i - 1 /\ p \in DOMAIN V
  BY DEF NodeMatches, NumberMatches
<1>3. ASSUME NEW j \in 1..Len(Schema[p].kids)
      PROVE  /\ Schema[p].kids[j] \in Kids(p) /\ Schema[p].kids[j] \in Nodes
             /\ Id(Schema[p].kids[j]) = j - 1 /\ j \in Nat
             /\ Schema[p].kids[j] \in new <=> n < j /\ j <= i
  <2>1. /\ Schema[p].kids[j] \in Kids(p) /\ Schema[p].kids[j] \in Nodes
        /\ Id(Schema[p].kids[j]) = j - 1 /\ j \in Nat
    BY KidAt DEF Wrapper
  <2>2. Schema[p].kids[j] \in new <=> j - 1 <= i - 1 /\ j - 1 >= n
    BY <1>1, <2>1 DEF NewElements
  <2> QED
    BY <1>2, <2>1, <2>2
<1>4. \A c \in new : /\ c \in Kids(p) /\ c \in Nodes /\ FreshParts[c] \subseteq Below[c]
                     /\ Below[c] \subseteq Below[p] /\ p \notin Below[c]
  BY KidsInNodes, BelowKid, LiveType DEF NewElements
<1>5. extra \subseteq Below[p] /\ p \notin extra
  BY <1>4
<1>6. /\ DOMAIN R = DOMAIN V \cup extra
      /\ R[p] = <<i>>
      /\ \A x \in extra : R[x] = Default(x)
      /\ \A x \in DOMAIN V \ extra : x # p => R[x] = V[x]
  <2> DEFINE b == At(p, <<Id(k) + 1>>)
             c == [x \in extra |-> Default(x)]
             e == With(V, b)
  <2>1. DOMAIN b = {p} /\ b[p] = <<Id(k) + 1>>
    BY AtAt
  <2>2. DOMAIN c = extra /\ \A x \in DOMAIN c : c[x] = Default(x)
    OBVIOUS
  <2>3. R = With(e, c)
    OBVIOUS
  <2> HIDE DEF b, c, extra, new, n
  <2>4. /\ DOMAIN e = DOMAIN V \cup DOMAIN b
        /\ \A x \in DOMAIN b : e[x] = b[x]
        /\ \A x \in DOMAIN V : x \notin DOMAIN b => e[x] = V[x]
    BY WithAt
  <2> HIDE DEF e
  <2>5. /\ DOMAIN R = DOMAIN e \cup DOMAIN c
        /\ \A x \in DOMAIN c : R[x] = c[x]
        /\ \A x \in DOMAIN e : x \notin DOMAIN c => R[x] = e[x]
    <3>1. /\ DOMAIN With(e, c) = DOMAIN e \cup DOMAIN c
          /\ \A x \in DOMAIN c : With(e, c)[x] = c[x]
          /\ \A x \in DOMAIN e : x \notin DOMAIN c => With(e, c)[x] = e[x]
      BY WithAt
    <3> QED
      BY <2>3, <3>1
  <2>6. <<Id(k) + 1>> = <<i>>
    BY <1>1
  <2> QED
    BY <1>2, <1>5, <2>1, <2>2, <2>4, <2>5, <2>6
<1> HIDE DEF n, new, extra
<1>7. ASSUME NEW j \in 1..Len(Schema[p].kids), NEW x \in Below[Schema[p].kids[j]]
      PROVE  /\ n < j /\ j <= i /\ x \in FreshParts[Schema[p].kids[j]] =>
                   x \in DOMAIN R /\ R[x] = Default(x)
             /\ ~(n < j /\ j <= i /\ x \in FreshParts[Schema[p].kids[j]]) =>
                   /\ x \in DOMAIN R <=> x \in DOMAIN V
                   /\ x \in DOMAIN V => R[x] = V[x]
  <2> DEFINE c == Schema[p].kids[j]
  <2>1. c \in Kids(p) /\ (c \in new <=> n < j /\ j <= i) /\ x \in Below[c]
    BY <1>3
  <2> HIDE DEF c
  <2>2. x # p
    BY <2>1, BelowKid
  <2>3. x \in extra <=> c \in new /\ x \in FreshParts[c]
    <3>1. ASSUME NEW d \in new, x \in FreshParts[d] PROVE d = c
      <4>1. x \in Below[d] /\ d \in Kids(p)
        BY <1>4, <3>1
      <4> QED
        BY <2>1, <4>1, SiblingsApart
    <3> QED
      BY <3>1 DEF extra
  <2> QED
    BY <1>6, <2>1, <2>2, <2>3 DEF c
<1>8. ASSUME NEW j \in 1..Len(Schema[p].kids)
      PROVE  /\ Present(V, p, Schema[p].kids[j]) <=> j <= n
             /\ Present(R, p, Schema[p].kids[j]) <=> j <= i
  <2>1. R[p][1] = i
    BY <1>6
  <2> QED
    BY <1>2, <1>3, <2>1 DEF Present, n
<1>9. ASSUME NEW j \in 1..Len(Schema[p].kids), n < j, j <= i
      PROVE  NewIn(R, Schema[p].kids[j])
  <2> DEFINE c == Schema[p].kids[j]
  <2>1. FieldMatches(r, V, p, i, j)
    BY DEF NodeMatches
  <2>2. ~Present(V, p, c)
    BY <1>2, <1>3, <1>8, <1>9
  <2>3. Gone(V, c)
    BY <2>1, <2>2 DEF FieldMatches
  <2> QED
    BY <1>7, <1>9, <2>3 DEF NewIn, Gone
<1>10. NewIn(R, k)
  <2>1. n < i /\ i <= i
    BY <1>2
  <2> QED
    BY <1>1, <1>9, <2>1
<1>11. ASSUME NEW j \in 1..Len(Schema[p].kids), j # i PROVE FieldMatches(r, R, p, i, j)
  <2> DEFINE c == Schema[p].kids[j]
  <2>1. FieldMatches(r, V, p, i, j) /\ j \in Nat /\ c \in Nodes
    BY <1>3 DEF NodeMatches
  <2>2. CASE n < j /\ j <= i
    <3>1. NewIn(R, c) /\ j < i /\ Present(R, p, c) /\ ~Present(V, p, c)
      BY <1>2, <1>8, <1>9, <1>11, <2>1, <2>2
    <3>2. Chosen(r, p, c)
      <4>1. CountIn(r, p) = SeqLen(p, r)
        BY DEF CountIn, Wrapper
      <4> QED
        BY <1>1, <1>3, <2>2, <4>1 DEF Chosen, NotHeld
    <3>3. FreshIn(r, c)
      BY <2>1, <3>1, <3>2 DEF FieldMatches
    <3>4. SameIn(r, R, c)
      BY <2>1, <3>1, <3>3, NewIsSame
    <3> QED
      BY <3>1, <3>2, <3>4 DEF FieldMatches
  <2>3. CASE ~(n < j /\ j <= i)
    <3>1. Present(R, p, c) <=> Present(V, p, c)
      BY <1>2, <1>8, <2>1, <2>3
    <3>2. \A x \in Below[c] : /\ x \in DOMAIN R <=> x \in DOMAIN V
                              /\ x \in DOMAIN V => R[x] = V[x]
      BY <1>7, <2>3
    <3>3. /\ Gone(V, c) => Gone(R, c)
          /\ SameIn(r, V, c) => SameIn(r, R, c)
          /\ NewIn(V, c) => NewIn(R, c)
      BY <3>2 DEF Gone, SameIn, NewIn
    <3> QED
      BY <2>1, <3>1, <3>3 DEF FieldMatches
  <2> QED
    BY <2>2, <2>3
<1>12. NumberMatches(r, R, p, i, TRUE)
  <2>1. R[p] = <<i>> /\ R[p][1] = i /\ ~(i > CountIn(r, p))
    BY <1>1, <1>6
  <2> QED
    BY <2>1 DEF NumberMatches
<1>13. Present(R, p, k) /\ p \in DOMAIN R
  BY <1>1, <1>2, <1>6, <1>8
<1>14. Alike(V, R, Below[p])
  BY <1>1, <1>5, <1>6 DEF Alike
<1>15. DOMAIN R \subseteq Nodes
  BY <1>1, <1>5, <1>6
<1> QED
  BY <1>1, <1>10, <1>11, <1>12, <1>13, <1>14, <1>15 DEF NodeMatches

\* The field the encoder is at comes into existence.
LEMMA FieldReached ==
    ASSUME NEW r \in Memory, NEW V, IsValue(V),
           NEW p \in Nodes, NEW i \in Nat \ {0}, i <= CountIn(r, p),
           NodeMatches(r, V, p, i, FALSE), NEW k, k = Schema[p].kids[i], Chosen(r, p, k),
           NEW R, R = ReachOf(p, k, V)
    PROVE  /\ NodeMatches(r, R, p, i, TRUE) /\ NewIn(R, k) /\ Alike(V, R, Below[p])
           /\ IsValue(R)
<1>0. DOMAIN V \subseteq Nodes
  BY DEF IsValue
<1>1. k \in Kids(p) /\ (Wrapper(p) => Id(k) = i - 1)
  BY FieldAt
<1>2. \A f, g : With(f, g) = [x \in DOMAIN With(f, g) |-> With(f, g)[x]]
  BY DEF With
<1>3. CASE Kind(p) = "union" /\ V[p] # <<Id(k)>>
  <2>1. R = With(With(Without(V, Below[p]), At(p, <<Id(k)>>)), FreshOf(k))
    BY <1>3 DEF ReachOf
  <2>2. /\ NodeMatches(r, R, p, i, TRUE) /\ NewIn(R, k) /\ Alike(V, R, Below[p])
        /\ DOMAIN R \subseteq Nodes
    BY <1>0, <1>3, <2>1, UnionReached
  <2>3. R = [x \in DOMAIN R |-> R[x]]
    BY <1>2, <2>1
  <2> QED
    BY <2>2, <2>3 DEF IsValue
<1>4. CASE Kind(p) = "sized"
  <2>1. Id(k) >= V[p][1]
    <3>1. V[p][1] \in Nat /\ V[p][1] <= i - 1
      BY <1>4 DEF NodeMatches, NumberMatches
    <3> QED
      BY <1>1, <1>4, <3>1 DEF Wrapper
  <2>2. R = With(With(V, At(p, <<Id(k) + 1>>)),
                 [x \in UNION {FreshParts[c] : c \in NewElements(p, k, V)} |-> Default(x)])
    BY <1>4, <2>1 DEF ReachOf
  <2>3. /\ NodeMatches(r, R, p, i, TRUE) /\ NewIn(R, k) /\ Alike(V, R, Below[p])
        /\ DOMAIN R \subseteq Nodes
    BY <1>0, <1>4, <2>2, SizedReached
  <2>4. R = [x \in DOMAIN R |-> R[x]]
    BY <1>2, <2>2
  <2> QED
    BY <2>3, <2>4 DEF IsValue
<1>5. CASE Kind(p) # "sized" /\ ~(Kind(p) = "union" /\ V[p] # <<Id(k)>>)
  <2>1. R = V
    BY <1>5 DEF ReachOf
  <2>2. Present(V, p, k)
    BY <1>5 DEF Present
  <2>3. NodeMatches(r, V, p, i, TRUE) /\ NewIn(V, k)
    BY <1>5, <2>2, FieldThere
  <2> QED
    BY <2>1, <2>3 DEF Alike
<1> QED
  BY <1>3, <1>4, <1>5


\* The value matches all the activations of an encoder of r.
ValueMatches(r, V, st) ==
    /\ IsValue(V)
    /\ \A l \in 1..Len(st) : NodeMatches(r, V, st[l].node, st[l].i, l < Len(st))

\* What the activations have open.
OpenOf(st) == [l \in 1..Len(st) |-> st[l].node]

\* The activations are nested in each other.
LEMMA PathBelow ==
    ASSUME NEW m \in Memory, NEW st, PathIn(m, st), NEW l \in 1..Len(st) - 1
    PROVE  Below[st[Len(st)].node] \subseteq Below[st[l + 1].node]
<1> DEFINE n == Len(st)
           X == {x \in Nodes : \E h \in 1..n : x = st[h].node /\ st[n].node \notin Below[x]}
<1>1. n \in Nat \ {0} /\ n \in 1..n /\ l + 1 \in 1..n /\ l \in 1..n
  BY PathType DEF PathIn
<1>2. ASSUME NEW h \in 1..n PROVE st[h].node \in Nodes
  BY <1>2, PathType
<1>3. X = {}
  <2>1. ASSUME NEW x \in X, Kids(x) \cap X = {} PROVE FALSE
    <3>1. PICK h \in 1..n : x = st[h].node /\ st[n].node \notin Below[x]
      OBVIOUS
    <3>2. h # n
      BY <1>1, <1>2, <3>1, BelowType
    <3>3. h \in 1..n - 1 /\ h + 1 \in 1..n /\ h \in 1..n
      BY <1>1, <3>2
    <3>4. st[h].i \in Nat \ {0} /\ st[h].i <= CountIn(m, st[h].node)
          /\ st[h + 1].node = Schema[st[h].node].kids[st[h].i]
      BY <3>3, PathType DEF PathIn
    <3>5. st[h + 1].node \in Kids(x) /\ st[h + 1].node \in Nodes
      BY <1>2, <3>1, <3>4, FieldAt
    <3>6. st[n].node \in Below[st[h + 1].node]
      BY <2>1, <3>3, <3>5
    <3> QED
      BY <1>2, <3>1, <3>5, <3>6, BelowKid
  <2> HIDE DEF X
  <2>2. X \in SUBSET Nodes
    BY DEF X
  <2> QED
    BY <2>1, <2>2, TreeAssumption
<1>4. st[n].node \in Below[st[l + 1].node]
  BY <1>1, <1>2, <1>3
<1> QED
  BY <1>1, <1>2, <1>4, BelowTrans

LEMMA CountNormal ==
    ASSUME NEW m \in Memory, NEW p \in Nodes, Plain(m, p)
    PROVE  CountIn(Normal(m), p) = CountIn(m, p)
<1>1. CASE Kind(p) = "sized"
  <2>1. Normal(m)[p] = m[p]
    BY <1>1, PlainIs DEF Stray
  <2> QED
    BY <2>1 DEF CountIn, SeqLen
<1>2. CASE Kind(p) # "sized"
  BY <1>2 DEF CountIn, SeqLen
<1> QED
  BY <1>1, <1>2

\* The activations below the one that is running.
LEMMA CallersMatch ==
    ASSUME NEW m \in Memory, NEW st, PathIn(m, st), NEW r \in Memory, NEW V, NEW W,
           ValueMatches(r, V, st), Alike(V, W, Below[st[Len(st)].node]),
           NEW l \in 1..Len(st) - 1
    PROVE  NodeMatches(r, W, st[l].node, st[l].i, TRUE)
<1> DEFINE n == Len(st)
           p == st[l].node
           i == st[l].i
<1>1. n \in Nat \ {0} /\ l \in 1..n /\ l < n
  BY PathType DEF PathIn
<1>2. p \in Nodes /\ st[l + 1].node = Schema[p].kids[i]
  BY <1>1, PathType DEF PathIn
<1>3. NodeMatches(r, V, p, i, TRUE)
  <2>1. (l < n) = TRUE
    BY <1>1
  <2>2. NodeMatches(r, V, p, i, l < n)
    BY <1>1 DEF ValueMatches
  <2> QED
    BY <2>1, <2>2
<1>4. Below[st[n].node] \subseteq Below[Schema[p].kids[i]]
  BY <1>2, PathBelow
<1>5. Alike(V, W, Below[Schema[p].kids[i]])
  BY <1>4 DEF Alike
<1> QED
  BY <1>2, <1>3, <1>5, FieldChanges

LEMMA AlikeSame ==
    ASSUME NEW V, NEW S
    PROVE  Alike(V, V, S)
BY DEF Alike

\* The activation n goes on.
LEMMA MatchesGoOn ==
    ASSUME NEW st \in Seq(Frames), NEW n \in 1..Len(st), NEW r, NEW V,
           IsValue(V),
           \A l \in 1..n - 1 : NodeMatches(r, V, st[l].node, st[l].i, TRUE),
           NodeMatches(r, V, st[n].node, st[n].i + 1, FALSE)
    PROVE  ValueMatches(r, V, GoOn(st, n))
<1> DEFINE new == GoOn(st, n)
<1>1. /\ Len(new) = n /\ n \in Nat \ {0} /\ new[n] = Onward(st[n], "ok")
      /\ \A j \in 1..n : j # n => new[j] = st[j]
  BY GoOnType
<1> HIDE DEF new
<1>2. new[n].node = st[n].node /\ new[n].i = st[n].i + 1
  BY <1>1 DEF Onward
<1>3. ASSUME NEW l \in 1..n PROVE NodeMatches(r, V, new[l].node, new[l].i, l < n)
  <2>1. CASE l = n
    <3>1. (l < n) = FALSE
      BY <1>1, <2>1
    <3> QED
      BY <1>2, <2>1, <3>1
  <2>2. CASE l # n
    <3>1. (l < n) = TRUE /\ l \in 1..n - 1 /\ new[l] = st[l]
      BY <1>1, <2>2
    <3> QED
      BY <3>1
  <2> QED
    BY <2>1, <2>2
<1> QED
  BY <1>1, <1>3 DEF ValueMatches, new

LEMMA OpenGoesOn ==
    ASSUME NEW st \in Seq(Frames), NEW n \in 1..Len(st)
    PROVE  OpenOf(GoOn(st, n)) = [l \in 1..n |-> st[l].node]
<1> DEFINE new == GoOn(st, n)
<1>1. /\ Len(new) = n /\ new[n] = Onward(st[n], "ok")
      /\ \A j \in 1..n : j # n => new[j] = st[j]
  BY GoOnType
<1> HIDE DEF new
<1>2. new[n].node = st[n].node
  BY <1>1 DEF Onward
<1>3. \A l \in 1..n : new[l].node = st[l].node
  BY <1>1, <1>2
<1> QED
  BY <1>1, <1>3 DEF OpenOf, new


\* A token of a message as ObjectValue takes it, if it is one of a field that
\* is understood.
Known(p, t) == {k \in Kids(p) : Id(k) = t.id /\ WireType(k) = t.type}

LeafTaken(V, op, t, W, op2) ==
    LET p == op[Len(op)] IN
    /\ t.tok = "leaf" /\ p \in Nodes
    /\ \E k \in Known(p, t) :
          /\ ~TooLarge(k, t.val)
          /\ W = [ReachOf(p, k, V) EXCEPT ![k] = Value!Filled(k, t.val, ReachOf(p, k, V)[k])]
    /\ op2 = op

StartTaken(V, op, t, W, op2) ==
    LET p == op[Len(op)] IN
    /\ t.tok = "start" /\ p \in Nodes
    /\ Len(op) < MaxLevels /\ Len(op) <= MaxDepth
    /\ \E k \in Known(p, t) : W = OpenedValue(k, ReachOf(p, k, V)) /\ op2 = Append(op, k)

EndTaken(V, op, t, W, op2) ==
    /\ t.tok = "end"
    /\ Len(op) > 1
    /\ W = V /\ op2 = Front(op)

ValueStep(V, op, t, W, op2) ==
    LeafTaken(V, op, t, W, op2) \/ StartTaken(V, op, t, W, op2) \/ EndTaken(V, op, t, W, op2)

\* A leaf is stored as it was sent.
LEMMA LeafFits ==
    ASSUME NEW m \in Memory, Fit(m), NEW k \in Live(m), Leaf(k), ~RefusedIn(m, k)
    PROVE  /\ ~TooLarge(k, Used(k, m))
           /\ Value!Filled(k, Used(k, m), Default(k)) = Used(k, m)
           /\ WireType(k) \in LeafTypes /\ Used(k, m) \in Seq(Nat)
<1>1. k \in Nodes
  BY LiveNodes
<1>2. /\ m[k] \in Seq(Nat) /\ Len(m[k]) \in Nat /\ Cap(k) \in Nat
      /\ Default(k) \in Seq(Nat) /\ Len(Default(k)) \in Nat
  BY <1>1, NodeType, LenProperties DEF Memory
<1>3. Kind(k) \in {"num", "str", "arr", "sarr", "blob"}
  BY DEF Leaf, LeafKinds, RefusedIn
<1>4. WireType(k) \in LeafTypes
  BY <1>3 DEF WireType, LeafTypes
<1>5. Value!Kind(k) = Kind(k) /\ Value!Cap(k) = Cap(k)
  BY ValueSchema
<1>6. CASE Kind(k) = "sarr"
  <2> DEFINE n == AtMost(Len(m[k]), Cap(k))
  <2>1. n \in Nat /\ n <= Len(m[k]) /\ n <= Cap(k)
    BY <1>2 DEF AtMost
  <2>2. Used(k, m) = SubSeq(m[k], 1, n)
    BY <1>6 DEF Used
  <2> HIDE DEF n
  <2>3. Used(k, m) \in Seq(Nat) /\ Len(Used(k, m)) = n
    BY <1>2, <2>1, <2>2, SubSeqProperties
  <2>4. ~(n > Cap(k))
    BY <1>2, <2>1
  <2>5. ~TooLarge(k, Used(k, m))
    BY <1>6, <2>3, <2>4 DEF TooLarge
  <2> QED
    BY <1>4, <1>5, <1>6, <2>3, <2>5 DEF Value!Filled
<1>7. CASE Kind(k) # "sarr"
  <2>1. Used(k, m) = m[k]
    BY <1>7 DEF Used
  <2>2. CASE Kind(k) = "num"
    <3>1. Len(m[k]) = 1 /\ m[k][1] <= Cap(k)
      BY <2>2 DEF Fit
    <3>0. m[k][1] \in Nat
      BY <1>2, <3>1, ElementOfSeq
    <3>2. ~(m[k][1] > Cap(k))
      BY <1>2, <3>0, <3>1
    <3>3. ~TooLarge(k, m[k])
      BY <2>2, <3>2 DEF TooLarge
    <3>4. Value!Filled(k, m[k], Default(k)) = m[k]
      BY <1>5, <2>2 DEF Value!Filled
    <3> QED
      BY <1>2, <1>4, <2>1, <3>3, <3>4
  <2>3. CASE Kind(k) = "str"
    <3>1. ~(Len(m[k]) > Cap(k))
      BY <2>3 DEF RefusedIn
    <3>2. ~TooLarge(k, m[k])
      BY <2>3, <3>1 DEF TooLarge
    <3>3. Value!Filled(k, m[k], Default(k)) = m[k]
      BY <1>5, <2>3 DEF Value!Filled
    <3> QED
      BY <1>2, <1>4, <2>1, <3>2, <3>3
  <2>4. CASE Kind(k) = "arr"
    <3>1. Len(m[k]) = Cap(k)
      BY <2>4 DEF Fit
    <3>2. ~TooLarge(k, m[k])
      BY <1>2, <2>4, <3>1 DEF TooLarge
    <3>3. Value!Filled(k, m[k], Default(k)) =
            [i \in 1..Cap(k) |-> IF i <= Len(m[k]) THEN m[k][i] ELSE 0]
      BY <1>5, <2>4 DEF Value!Filled
    <3>4. m[k] = [i \in 1..Cap(k) |-> m[k][i]]
      BY <1>2, <3>1, LenProperties
    <3>5. [i \in 1..Cap(k) |-> IF i <= Len(m[k]) THEN m[k][i] ELSE 0]
            = [i \in 1..Cap(k) |-> m[k][i]]
      BY <1>2, <3>1
    <3> QED
      BY <1>2, <1>4, <2>1, <3>2, <3>3, <3>4, <3>5
  <2>5. CASE Kind(k) = "blob"
    <3>1. Len(m[k]) = Cap(k) /\ Len(Default(k)) <= Cap(k)
      BY <1>1, <2>5, SchemaAssumption DEF Fit
    <3>2. ~TooLarge(k, m[k])
      BY <1>2, <2>5, <3>1 DEF TooLarge
    <3>3. Value!Filled(k, m[k], Default(k))
            = m[k] \o SubSeq(Default(k), Len(m[k]) + 1, Len(Default(k)))
      BY <1>5, <2>5 DEF Value!Filled
    <3>4. SubSeq(Default(k), Len(m[k]) + 1, Len(Default(k))) = <<>>
      BY <1>2, <3>1
    <3>5. m[k] \o <<>> = m[k]
      BY <1>2
    <3> QED
      BY <1>2, <1>4, <2>1, <3>2, <3>3, <3>4, <3>5
  <2> QED
    BY <1>3, <1>7, <2>2, <2>3, <2>4, <2>5
<1> QED
  BY <1>6, <1>7


\* Where the running activation is.
TopNode(st) == st[Len(st)].node
TopIndex(st) == st[Len(st)].i
TopField(st) == Schema[TopNode(st)].kids[TopIndex(st)]
LoopingIn(m, st) == TopIndex(st) <= CountIn(m, TopNode(st))

\* The field an encoder of m is at, and a value that matches where it is.
LEMMA AtField ==
    ASSUME NEW m \in Memory, NEW st, PathIn(m, st), LoopingIn(m, st),
           NEW V, ValueMatches(Normal(m), V, st)
    PROVE  /\ Len(st) \in Nat \ {0} /\ Len(st) \in 1..Len(st) /\ st \in Seq(Frames) /\ st # <<>>
           /\ TopNode(st) \in Nodes /\ ~Leaf(TopNode(st)) /\ TopIndex(st) \in Nat \ {0}
           /\ Plain(m, TopNode(st)) /\ TopNode(st) \in Live(m)
           /\ TopField(st) \in Kids(TopNode(st)) /\ TopField(st) \in Nodes
           /\ Normal(m) \in Memory
           /\ CountIn(Normal(m), TopNode(st)) = CountIn(m, TopNode(st))
           /\ IsValue(V)
           /\ NodeMatches(Normal(m), V, TopNode(st), TopIndex(st), FALSE)
<1> DEFINE n == Len(st)  p == TopNode(st)  i == TopIndex(st)  k == TopField(st)
<1>1. st \in Seq(Frames) /\ st # <<>> /\ n \in Nat \ {0} /\ n \in 1..n
  BY PathType, TopType DEF PathIn
<1>2. p \in Nodes /\ i \in Nat \ {0}
  BY <1>1, PathType DEF TopNode, TopIndex
<1>3. ~Leaf(p) /\ Plain(m, p) /\ p \in Live(m)
  BY <1>1 DEF PathIn, TopNode
<1>4. k \in Kids(p) /\ k \in Nodes
  BY <1>2, FieldAt DEF TopField, LoopingIn
<1>5. CountIn(Normal(m), p) = CountIn(m, p)
  BY <1>2, <1>3, CountNormal
<1>6. Normal(m) \in Memory
  BY NormalType
<1>7. NodeMatches(Normal(m), V, p, i, n < n)
  BY <1>1 DEF ValueMatches, TopNode, TopIndex
<1>8. (n < n) = FALSE
  BY <1>1
<1>9. NodeMatches(Normal(m), V, p, i, FALSE)
  BY <1>7, <1>8
<1>10. IsValue(V)
  BY DEF ValueMatches
<1> QED
  BY <1>1, <1>2, <1>3, <1>4, <1>5, <1>6, <1>9, <1>10

\* The value once the receiver has reached that field.
LEMMA AtFieldReached ==
    ASSUME NEW m \in Memory, NEW st, PathIn(m, st), LoopingIn(m, st),
           NEW V, ValueMatches(Normal(m), V, st),
           ~NotHeld(m, TopNode(st), TopField(st)),
           NEW R, R = ReachOf(TopNode(st), TopField(st), V)
    PROVE  /\ Chosen(Normal(m), TopNode(st), TopField(st)) /\ Plain(m, TopField(st))
           /\ TopField(st) \in Live(m)
           /\ NodeMatches(Normal(m), R, TopNode(st), TopIndex(st), TRUE)
           /\ NewIn(R, TopField(st))
           /\ IsValue(R)
           /\ \A l \in 1..Len(st) - 1 : NodeMatches(Normal(m), R, st[l].node, st[l].i, TRUE)
<1> DEFINE n == Len(st)  p == TopNode(st)  i == TopIndex(st)  k == TopField(st)
<1>1. /\ p \in Nodes /\ i \in Nat \ {0} /\ Plain(m, p) /\ p \in Live(m) /\ k \in Kids(p)
      /\ Normal(m) \in Memory /\ CountIn(Normal(m), p) = CountIn(m, p)
      /\ IsValue(V)
      /\ NodeMatches(Normal(m), V, p, i, FALSE)
  BY AtField
<1>2. Chosen(m, p, k) /\ Chosen(Normal(m), p, k) /\ Plain(m, k)
  BY <1>1, FieldChosen DEF LoopingIn, TopField
<1>3. k \in Live(m)
  BY <1>1, <1>2, LiveNext
<1>4. /\ NodeMatches(Normal(m), R, p, i, TRUE) /\ NewIn(R, k) /\ Alike(V, R, Below[p])
      /\ IsValue(R)
  <2>1. i <= CountIn(Normal(m), p) /\ k = Schema[p].kids[i]
    BY <1>1 DEF LoopingIn, TopField
  <2> DEFINE r == Normal(m)
  <2>2. R = ReachOf(p, k, V) /\ Chosen(r, p, k) /\ r \in Memory /\ i <= CountIn(r, p)
        /\ NodeMatches(r, V, p, i, FALSE)
    BY <1>1, <1>2, <2>1
  <2>3. p \in Nodes /\ i \in Nat \ {0} /\ IsValue(V)
    BY <1>1
  <2> HIDE DEF p, i, k, r
  <2>4. NodeMatches(r, R, p, i, TRUE) /\ NewIn(R, k) /\ Alike(V, R, Below[p])
    BY <2>1, <2>2, <2>3, FieldReached
  <2>5. IsValue(R)
    BY <2>1, <2>2, <2>3, FieldReached
  <2> QED
    BY <2>4, <2>5 DEF r
<1>5. ASSUME NEW l \in 1..n - 1
      PROVE  NodeMatches(Normal(m), R, st[l].node, st[l].i, TRUE)
  BY <1>1, <1>4, CallersMatch DEF TopNode
<1> QED
  BY <1>2, <1>3, <1>4, <1>5


LEMMA LoopingNow ==
    ASSUME NEW m, NEW st
    PROVE  /\ LoopingIn(m, st) <=> st[Len(st)].i <= CountIn(m, st[Len(st)].node)
           /\ TopNode(st) = st[Len(st)].node
           /\ TopField(st) = Schema[st[Len(st)].node].kids[st[Len(st)].i]
           /\ TopIndex(st) = st[Len(st)].i
BY DEF LoopingIn, TopNode, TopField, TopIndex

\* A field that is not skipped, where the walk is.
LEMMA AtNotSkipped ==
    ASSUME NEW m \in Memory, NEW st, PathIn(m, st), LoopingIn(m, st),
           NEW V, ValueMatches(Normal(m), V, st),
           ~SkippedIn(m, TopNode(st), TopIndex(st))
    PROVE  ~NotHeld(m, TopNode(st), TopField(st))
<1>1. TopNode(st) \in Nodes /\ TopIndex(st) \in Nat \ {0}
  BY AtField
<1> QED
  BY <1>1, NotSkipped DEF LoopingIn, TopField

\* What the receiver makes of a leaf is what it is in the object.
LEMMA LeafSame ==
    ASSUME NEW m \in Memory, Fit(m), NEW k \in Live(m), Plain(m, k), Leaf(k), ~RefusedIn(m, k),
           NEW R, IsValue(R), NewIn(R, k),
           NEW W, W = [R EXCEPT ![k] = Value!Filled(k, Used(k, m), R[k])]
    PROVE  SameIn(Normal(m), W, k) /\ Alike(R, W, Below[k]) /\ IsValue(W)
<1>1. k \in Nodes
  BY LiveNodes
<1>2. Below[k] = {k} /\ LiveIn(Normal(m), k) = {k} /\ FreshParts[k] = {k}
  BY <1>1, LeafAlone
<1>3. k \in DOMAIN R /\ R[k] = Default(k)
  BY <1>2 DEF NewIn
<1>4. Value!Filled(k, Used(k, m), R[k]) = Used(k, m)
  BY <1>3, LeafFits
<1>5. W = [R EXCEPT ![k] = Used(k, m)]
  BY <1>4
<1>6. /\ DOMAIN W = DOMAIN R /\ W[k] = Used(k, m) /\ W = [x \in DOMAIN W |-> W[x]]
      /\ \A x \in DOMAIN R : x # k => W[x] = R[x]
  BY <1>3, <1>5
<1>7. Meaning(k, Normal(m)) = Used(k, m)
  <2>1. Kind(k) \in LeafKinds
    BY DEF Leaf
  <2>2. k \notin Stray(m)
    BY <2>1 DEF Stray, LeafKinds
  <2>3. Normal(m)[k] = m[k]
    BY <1>1, <2>2, PlainIs
  <2>4. Meaning(k, Normal(m)) = Used(k, Normal(m))
    BY <2>1 DEF Meaning, LeafKinds
  <2> QED
    BY <2>3, <2>4 DEF Used
<1>8. SameIn(Normal(m), W, k)
  BY <1>2, <1>3, <1>6, <1>7 DEF SameIn
<1>9. Alike(R, W, Below[k])
  BY <1>2, <1>6 DEF Alike
<1>10. IsValue(W)
  BY <1>6 DEF IsValue
<1> QED
  BY <1>8, <1>9, <1>10

\* What changes within the field in progress is no matter for the activations
\* that wait for it.
LEMMA CallersKeep ==
    ASSUME NEW m \in Memory, NEW st, PathIn(m, st), LoopingIn(m, st),
           NEW V, ValueMatches(Normal(m), V, st),
           NEW R, NEW W, Alike(R, W, Below[TopField(st)]),
           \A l \in 1..Len(st) - 1 : NodeMatches(Normal(m), R, st[l].node, st[l].i, TRUE)
    PROVE  \A l \in 1..Len(st) - 1 : NodeMatches(Normal(m), W, st[l].node, st[l].i, TRUE)
<1> DEFINE n == Len(st)  p == TopNode(st)  k == TopField(st)  r == Normal(m)
<1>1. n \in Nat \ {0} /\ n \in 1..n /\ p \in Nodes /\ k \in Kids(p) /\ r \in Memory
  BY AtField
<1> SUFFICES ASSUME NEW l \in 1..n - 1
             PROVE  NodeMatches(r, W, st[l].node, st[l].i, TRUE)
  OBVIOUS
<1>2. l \in 1..n /\ st[l].node \in Nodes
  BY <1>1, PathType
<1>3. Below[p] \subseteq Below[st[l + 1].node] /\ Below[k] \subseteq Below[p]
  BY <1>1, PathBelow, BelowKid DEF TopNode
<1>4. st[l + 1].node = Schema[st[l].node].kids[st[l].i]
  BY DEF PathIn
<1>5. Alike(R, W, Below[Schema[st[l].node].kids[st[l].i]])
  BY <1>3, <1>4 DEF Alike
<1>6. NodeMatches(r, R, st[l].node, st[l].i, TRUE)
  OBVIOUS
<1> HIDE DEF r
<1> QED
  BY <1>1, <1>2, <1>5, <1>6, FieldChanges

\* Once the field in progress is complete the running activation goes on.
LEMMA FieldComplete ==
    ASSUME NEW m \in Memory, NEW st, PathIn(m, st), LoopingIn(m, st),
           NEW V, ValueMatches(Normal(m), V, st),
           NEW R, NEW W, IsValue(W), Alike(R, W, Below[TopField(st)]),
           NodeMatches(Normal(m), R, TopNode(st), TopIndex(st), TRUE),
           \A l \in 1..Len(st) - 1 : NodeMatches(Normal(m), R, st[l].node, st[l].i, TRUE),
           SameIn(Normal(m), W, TopField(st))
    PROVE  ValueMatches(Normal(m), W, GoOn(st, Len(st)))
<1> DEFINE n == Len(st)  p == TopNode(st)  i == TopIndex(st)  k == TopField(st)
           r == Normal(m)
<1>1. /\ n \in Nat \ {0} /\ n \in 1..n /\ st \in Seq(Frames) /\ p \in Nodes /\ i \in Nat \ {0}
      /\ k \in Kids(p) /\ r \in Memory /\ CountIn(r, p) = CountIn(m, p)
  BY AtField
<1>2. i <= CountIn(r, p) /\ k = Schema[p].kids[i]
  BY <1>1 DEF LoopingIn, TopField
<1>3. NodeMatches(r, W, p, i, TRUE)
  <2>1. NodeMatches(r, R, p, i, TRUE) /\ Alike(R, W, Below[Schema[p].kids[i]])
    BY <1>2
  <2> HIDE DEF p, i, r
  <2> QED
    BY <1>1, <2>1, FieldChanges
<1>4. NodeMatches(r, W, p, i + 1, FALSE)
  <2>1. SameIn(r, W, Schema[p].kids[i])
    BY <1>2
  <2> HIDE DEF p, i, r
  <2> QED
    BY <1>1, <1>2, <1>3, <2>1, FieldArrived
<1>5. \A l \in 1..n - 1 : NodeMatches(r, W, st[l].node, st[l].i, TRUE)
  BY CallersKeep
<1> QED
  BY <1>1, <1>4, <1>5, MatchesGoOn DEF TopNode, TopIndex


LEMMA OpenTop ==
    ASSUME NEW st \in Seq(Frames), st # <<>>
    PROVE  /\ Len(OpenOf(st)) = Len(st) /\ OpenOf(st)[Len(OpenOf(st))] = TopNode(st)
           /\ OpenOf(st) \in [1..Len(st) -> Nodes] /\ OpenOf(st) \in Seq(Nodes)
           /\ \A l \in 1..Len(st) : OpenOf(st)[l] = st[l].node
           /\ OpenOf(GoOn(st, Len(st))) = OpenOf(st)
<1> DEFINE n == Len(st)
<1>1. n \in Nat \ {0} /\ n \in 1..n
  BY TopType
<1>0. \A l \in 1..n : st[l] \in Frames
  BY ElementOfSeq
<1>2. \A l \in 1..n : st[l].node \in Nodes
  BY <1>0 DEF Frames
<1>3. OpenOf(st) \in [1..n -> Nodes]
  BY <1>2 DEF OpenOf
<1>4. OpenOf(st) \in Seq(Nodes)
  BY <1>1, <1>3, SeqDef
<1>5. Len(OpenOf(st)) = n
  BY <1>1, <1>3, <1>4, LenProperties
<1>6. \A l \in 1..n : OpenOf(st)[l] = st[l].node
  BY DEF OpenOf
<1>7. OpenOf(GoOn(st, n)) = OpenOf(st)
  BY <1>1, OpenGoesOn DEF OpenOf
<1> QED
  BY <1>1, <1>3, <1>4, <1>5, <1>6, <1>7 DEF TopNode

\* A leaf is on its way.
LEMMA LeafArrives ==
    ASSUME NEW m \in Memory, Fit(m), NEW st, PathIn(m, st), NEW V,
           ValueMatches(Normal(m), V, st),
           NEW w, NEW st2, NEW w2, WalkLeaf(m, st, w, st2, w2)
    PROVE  /\ w2 = Append(w, LeafToken(m, TopField(st)))
           /\ LeafToken(m, TopField(st)) \in Token
           /\ \E W : /\ ValueMatches(Normal(m), W, st2)
                     /\ ValueStep(V, OpenOf(st), LeafToken(m, TopField(st)), W, OpenOf(st2))
<1> DEFINE p == TopNode(st)  k == TopField(st)  t == LeafToken(m, k)
           R == ReachOf(p, k, V)
           W == [R EXCEPT ![k] = Value!Filled(k, Used(k, m), R[k])]
<1>1. /\ LoopingIn(m, st) /\ ~SkippedIn(m, p, TopIndex(st)) /\ Leaf(k) /\ ~RefusedIn(m, k)
      /\ st2 = GoOn(st, Len(st)) /\ w2 = Append(w, t)
  BY LoopingNow DEF WalkLeaf
<1>2. ~NotHeld(m, p, k)
  BY <1>1, AtNotSkipped
<1>3. st \in Seq(Frames) /\ st # <<>> /\ k \in Kids(p) /\ k \in Nodes /\ p \in Nodes
  BY <1>1, AtField
<1>4. /\ Plain(m, k) /\ k \in Live(m) /\ NodeMatches(Normal(m), R, p, TopIndex(st), TRUE)
      /\ NewIn(R, k) /\ IsValue(R)
      /\ \A l \in 1..Len(st) - 1 : NodeMatches(Normal(m), R, st[l].node, st[l].i, TRUE)
  BY <1>1, <1>2, AtFieldReached
<1>5. /\ ~TooLarge(k, Used(k, m)) /\ WireType(k) \in LeafTypes /\ Used(k, m) \in Seq(Nat)
  BY <1>1, <1>4, LeafFits
<1>6. t.tok = "leaf" /\ t.id = Id(k) /\ t.type = WireType(k) /\ t.val = Used(k, m)
  BY DEF LeafToken
<1>7. t \in Token
  BY <1>3, <1>5, NodeType DEF Token, LeafToken
<1> HIDE DEF p, k, t, R
<1>8. W = [R EXCEPT ![k] = Value!Filled(k, Used(k, m), R[k])]
  OBVIOUS
<1> HIDE DEF W
<1>9. SameIn(Normal(m), W, k) /\ Alike(R, W, Below[k]) /\ IsValue(W)
  BY <1>1, <1>4, <1>8, LeafSame
<1>10. ValueMatches(Normal(m), W, st2)
  BY <1>1, <1>4, <1>9, FieldComplete DEF k, p
<1>11. OpenOf(st2) = OpenOf(st) /\ OpenOf(st)[Len(OpenOf(st))] = p
  BY <1>1, <1>3, OpenTop DEF p
<1>12. k \in Known(p, t)
  BY <1>3, <1>6 DEF Known
<1>13. W = [ReachOf(p, k, V) EXCEPT ![k] = Value!Filled(k, t.val, ReachOf(p, k, V)[k])]
  BY <1>6, <1>8 DEF R
<1>14. LeafTaken(V, OpenOf(st), t, W, OpenOf(st2))
  BY <1>3, <1>5, <1>6, <1>11, <1>12, <1>13 DEF LeafTaken
<1>15. ValueStep(V, OpenOf(st), t, W, OpenOf(st2))
  BY <1>14 DEF ValueStep
<1> QED
  BY <1>1, <1>7, <1>10, <1>15 DEF t, k


\* As deep as the nodes of the activations are.
Deep(d, st) == \A l \in 1..Len(st) : d[st[l].node] = l

\* What the receiver makes of a nested object that begins.
LEMMA OpenedIs ==
    ASSUME NEW k \in Nodes, NEW R, IsValue(R), NewIn(R, k), NEW W, W = OpenedValue(k, R)
    PROVE  NewIn(W, k) /\ Alike(R, W, Below[k]) /\ IsValue(W)
<1>1. CASE ~Wrapper(k)
  <2>1. W = R
    BY <1>1 DEF OpenedValue
  <2> QED
    BY <2>1, AlikeSame
<1>2. CASE Wrapper(k)
  <2> DEFINE low == Without(R, Below[k])
  <2>1. W = With(low, FreshOf(k))
    BY <1>2 DEF OpenedValue
  <2>2. /\ DOMAIN low = DOMAIN R \ Below[k]
        /\ \A x \in DOMAIN R \ Below[k] : low[x] = R[x]
    BY DEF Without
  <2>3. /\ DOMAIN FreshOf(k) = FreshParts[k]
        /\ \A x \in FreshParts[k] : FreshOf(k)[x] = Default(x)
    BY DEF FreshOf
  <2>4. FreshParts[k] \subseteq Below[k] /\ Below[k] \subseteq Nodes
    BY LiveType
  <2> HIDE DEF low
  <2>5. /\ DOMAIN With(low, FreshOf(k)) = DOMAIN low \cup DOMAIN FreshOf(k)
        /\ \A x \in DOMAIN FreshOf(k) : With(low, FreshOf(k))[x] = FreshOf(k)[x]
        /\ \A x \in DOMAIN low : x \notin DOMAIN FreshOf(k) => With(low, FreshOf(k))[x] = low[x]
    BY WithAt
  <2>6. /\ DOMAIN W = (DOMAIN R \ Below[k]) \cup FreshParts[k]
        /\ \A x \in FreshParts[k] : W[x] = Default(x)
        /\ \A x \in DOMAIN R \ Below[k] : W[x] = R[x]
    <3>1. DOMAIN W = (DOMAIN R \ Below[k]) \cup FreshParts[k]
      BY <2>1, <2>2, <2>3, <2>5
    <3>2. \A x \in FreshParts[k] : W[x] = Default(x)
      BY <2>1, <2>3, <2>5
    <3>3. \A x \in DOMAIN R \ Below[k] : W[x] = R[x]
      BY <2>1, <2>2, <2>3, <2>4, <2>5
    <3> QED
      BY <3>1, <3>2, <3>3
  <2>7. W = [x \in DOMAIN W |-> W[x]]
    BY <2>1 DEF With
  <2>8. NewIn(W, k)
    BY <2>4, <2>6 DEF NewIn
  <2>9. Alike(R, W, Below[k])
    BY <2>4, <2>6 DEF Alike
  <2>10. DOMAIN W \subseteq Nodes
    BY <2>4, <2>6 DEF IsValue
  <2> QED
    BY <2>7, <2>8, <2>9, <2>10 DEF IsValue
<1> QED
  BY <1>1, <1>2

\* A nested object begins.
LEMMA StartArrives ==
    ASSUME NEW m \in Memory, NEW d \in Depths, NEW st, PathIn(m, st), Deep(d, st), NEW V,
           ValueMatches(Normal(m), V, st),
           NEW w, NEW st2, NEW w2, WalkEnter(m, st, w, st2, w2)
    PROVE  /\ w2 = Append(w, StartToken(TopField(st)))
           /\ StartToken(TopField(st)) \in Token
           /\ Deep(d, st2)
           /\ \E W : /\ ValueMatches(Normal(m), W, st2)
                     /\ ValueStep(V, OpenOf(st), StartToken(TopField(st)), W, OpenOf(st2))
<1> DEFINE n == Len(st)  p == TopNode(st)  i == TopIndex(st)  k == TopField(st)
           r == Normal(m)  t == StartToken(k)  R == ReachOf(p, k, V)  W == OpenedValue(k, R)
<1>1. /\ LoopingIn(m, st) /\ ~SkippedIn(m, p, i) /\ ~Leaf(k)
      /\ st2 = Append(st, Frame(k)) /\ w2 = Append(w, t)
  BY LoopingNow DEF WalkEnter
<1>2. ~NotHeld(m, p, k)
  BY <1>1, AtNotSkipped
<1>3. /\ st \in Seq(Frames) /\ st # <<>> /\ k \in Kids(p) /\ k \in Nodes /\ p \in Nodes
      /\ n \in Nat \ {0} /\ n \in 1..n /\ i \in Nat \ {0} /\ r \in Memory
      /\ CountIn(r, p) = CountIn(m, p)
  BY <1>1, AtField
<1>4. /\ NodeMatches(r, R, p, i, TRUE) /\ NewIn(R, k) /\ IsValue(R)
      /\ \A l \in 1..n - 1 : NodeMatches(r, R, st[l].node, st[l].i, TRUE)
  BY <1>1, <1>2, AtFieldReached
<1>5. NewIn(W, k) /\ Alike(R, W, Below[k]) /\ IsValue(W)
  <2> HIDE DEF k, R
  <2> QED
    BY <1>3, <1>4, OpenedIs
<1>6. t.tok = "start" /\ t.id = Id(k) /\ t.type = "start" /\ t \in Token
  BY <1>3, NodeType DEF Token, StartToken
<1>7. WireType(k) = "start"
  <2>1. Kind(k) \in Containers
    BY <1>1, <1>3, NodeType DEF Leaf
  <2> QED
    BY <2>1 DEF WireType, Containers
<1>8. d[k] = n + 1 /\ n + 1 <= MaxLevels /\ n + 1 <= MaxDepth + 1
  <2>1. d[p] = n
    BY <1>3 DEF Deep, TopNode
  <2>2. d[k] = d[p] + 1 /\ d[k] <= MaxLevels /\ d[k] <= MaxDepth + 1
    BY <1>1, <1>3 DEF Depths
  <2> QED
    BY <2>1, <2>2
<1> HIDE DEF k, p, i, t, R, W, r, n
<1>9. \A l \in 1..n - 1 : NodeMatches(r, W, st[l].node, st[l].i, TRUE)
  BY <1>1, <1>4, <1>5, CallersKeep DEF n, k, r
<1>10. NodeMatches(r, W, p, i, TRUE)
  <2>1. k = Schema[p].kids[i]
    BY DEF k, p, i, TopField
  <2>2. Alike(R, W, Below[Schema[p].kids[i]])
    BY <1>5, <2>1
  <2> QED
    BY <1>3, <1>4, <2>2, FieldChanges
<1>11. NodeMatches(r, W, k, 1, FALSE)
  BY <1>1, <1>3, <1>5, NodeOpened
<1>12. Frame(k) \in Frames /\ Frame(k).node = k /\ Frame(k).i = 1
  BY <1>3 DEF Frame, Frames
<1>13. /\ st2 \in Seq(Frames) /\ Len(st2) = n + 1 /\ st2[n + 1] = Frame(k) /\ st2 # <<>>
       /\ \A l \in 1..n : st2[l] = st[l]
  <2>1. /\ Append(st, Frame(k)) \in Seq(Frames) /\ Len(Append(st, Frame(k))) = Len(st) + 1
        /\ Append(st, Frame(k))[Len(st) + 1] = Frame(k)
        /\ \A l \in 1..Len(st) : Append(st, Frame(k))[l] = st[l]
    BY <1>3, <1>12, AppendProperties
  <2> QED
    BY <1>1, <1>3, <2>1, EmptySeq DEF n
<1>14. ASSUME NEW l \in 1..n + 1
       PROVE  NodeMatches(r, W, st2[l].node, st2[l].i, l < n + 1)
  <2>1. CASE l = n + 1
    <3>1. (l < n + 1) = FALSE
      BY <1>3, <2>1
    <3> QED
      BY <1>11, <1>12, <1>13, <2>1, <3>1
  <2>2. CASE l = n
    <3>1. (l < n + 1) = TRUE
      BY <1>3, <2>2
    <3>2. st2[l].node = p /\ st2[l].i = i
      BY <1>3, <1>13, <2>2 DEF p, i, TopNode, TopIndex, n
    <3> QED
      BY <1>10, <3>1, <3>2
  <2>3. CASE l # n /\ l # n + 1
    <3>1. (l < n + 1) = TRUE /\ l \in 1..n - 1 /\ l \in 1..n
      BY <1>3, <2>3
    <3> QED
      BY <1>9, <1>13, <3>1
  <2> QED
    BY <2>1, <2>2, <2>3
<1>15. ValueMatches(r, W, st2)
  BY <1>5, <1>13, <1>14 DEF ValueMatches
<1>16. Deep(d, st2)
  <2>1. ASSUME NEW l \in 1..n + 1 PROVE d[st2[l].node] = l
    <3>1. CASE l = n + 1
      BY <1>8, <1>12, <1>13, <3>1
    <3>2. CASE l # n + 1
      <4>1. l \in 1..n
        BY <1>3, <3>2
      <4> QED
        BY <1>13, <4>1 DEF Deep, n
    <3> QED
      BY <3>1, <3>2
  <2> QED
    BY <1>13, <2>1 DEF Deep
<1>17. /\ Len(OpenOf(st)) = n /\ OpenOf(st)[Len(OpenOf(st))] = p /\ OpenOf(st) \in Seq(Nodes)
       /\ \A l \in 1..n : OpenOf(st)[l] = st[l].node
  BY <1>3, OpenTop DEF p, n
<1>18. OpenOf(st2) = Append(OpenOf(st), k)
  <2>1. /\ Len(OpenOf(st2)) = n + 1 /\ OpenOf(st2) \in Seq(Nodes)
        /\ \A l \in 1..n + 1 : OpenOf(st2)[l] = st2[l].node
    BY <1>13, OpenTop
  <2> DEFINE a == Append(OpenOf(st), k)
  <2>2. /\ a \in Seq(Nodes) /\ Len(a) = n + 1 /\ a[n + 1] = k
        /\ \A l \in 1..n : a[l] = OpenOf(st)[l]
    BY <1>3, <1>17, AppendProperties
  <2> HIDE DEF a
  <2>3. ASSUME NEW l \in 1..n + 1 PROVE a[l] = OpenOf(st2)[l]
    <3>1. CASE l = n + 1
      BY <1>12, <1>13, <2>1, <2>2, <3>1
    <3>2. CASE l # n + 1
      <4>1. l \in 1..n
        BY <1>3, <3>2
      <4> QED
        BY <1>13, <1>17, <2>1, <2>2, <4>1
    <3> QED
      BY <3>1, <3>2
  <2>4. a = OpenOf(st2)
    BY <2>1, <2>2, <2>3, SeqEqual
  <2> QED
    BY <2>4 DEF a
<1>19. Len(OpenOf(st)) < MaxLevels /\ Len(OpenOf(st)) <= MaxDepth
  <2>1. MaxLevels \in Nat /\ MaxDepth \in Nat
    BY DecodeAssumption
  <2> QED
    BY <1>3, <1>8, <1>17, <2>1
<1>20. k \in Known(p, t) /\ W = OpenedValue(k, ReachOf(p, k, V))
  BY <1>3, <1>6, <1>7 DEF Known, W, R
<1>21. StartTaken(V, OpenOf(st), t, W, OpenOf(st2))
  BY <1>3, <1>6, <1>17, <1>18, <1>19, <1>20 DEF StartTaken
<1> QED
  BY <1>1, <1>6, <1>15, <1>16, <1>21 DEF ValueStep, t, k, r


\* A field that is left out is one the receiver has.
LEMMA SkipArrives ==
    ASSUME NEW m \in Memory, NEW st, PathIn(m, st), NEW V, ValueMatches(Normal(m), V, st),
           NEW w, NEW st2, NEW w2, WalkSkip(m, st, w, st2, w2)
    PROVE  w2 = w /\ ValueMatches(Normal(m), V, st2) /\ OpenOf(st2) = OpenOf(st)
<1> DEFINE n == Len(st)  p == TopNode(st)  i == TopIndex(st)  k == TopField(st)
           r == Normal(m)
<1>1. /\ LoopingIn(m, st) /\ SkippedIn(m, p, i) /\ st2 = GoOn(st, n) /\ w2 = w
  BY LoopingNow DEF WalkSkip
<1>2. /\ n \in Nat \ {0} /\ n \in 1..n /\ st \in Seq(Frames) /\ st # <<>>
      /\ p \in Nodes /\ i \in Nat \ {0} /\ Plain(m, p) /\ k \in Kids(p) /\ k \in Nodes
      /\ r \in Memory /\ CountIn(r, p) = CountIn(m, p) /\ IsValue(V)
      /\ NodeMatches(r, V, p, i, FALSE)
  BY <1>1, AtField
<1>3. i <= CountIn(m, p) /\ k = Schema[p].kids[i] /\ CountIn(m, p) \in Nat
  BY <1>1, <1>2, CountInType DEF LoopingIn, TopField
<1>4. IsDefault(m)[<<p, k>>] /\ ~(Wrapper(p) /\ i = CountIn(m, p))
  BY <1>1, <1>3 DEF SkippedIn
<1>5. Kind(p) = "sized" => i < CountIn(r, p)
  BY <1>2, <1>3, <1>4 DEF Wrapper
<1>6. ~NotHeld(r, p, k) => FreshIn(r, k)
  BY <1>2, <1>4, ElidedIsFresh
<1>7. ASSUME Kind(p) = "union", ~NotHeld(r, p, k) PROVE Default(p) = <<Id(k)>>
  <2>1. r[p] = <<Id(k)>>
    BY <1>7 DEF NotHeld, HeldIn
  <2>2. CASE p \in Stray(m)
    BY <1>2, <2>1, <2>2, PlainIs
  <2>3. CASE p \notin Stray(m)
    <3>1. ~NotHeld(m, p, k)
      BY <1>2, <2>1, <2>3, PlainIs DEF NotHeld, HeldIn
    <3>2. ~Forced(p, k)
      BY <1>2, <1>4, <3>1, Elided
    <3> QED
      BY <1>7, <3>2 DEF Forced
  <2> QED
    BY <2>2, <2>3
<1>8. \A l \in 1..n - 1 : NodeMatches(r, V, st[l].node, st[l].i, TRUE)
  BY <1>2, AlikeSame, CallersMatch
<1> HIDE DEF p, i, k, r
<1>9. NodeMatches(r, V, p, i + 1, FALSE)
  BY <1>2, <1>3, <1>5, <1>6, <1>7, FieldPassed
<1>10. ValueMatches(r, V, GoOn(st, n))
  BY <1>2, <1>8, <1>9, MatchesGoOn DEF p, i, TopNode, TopIndex, IsValue
<1>11. OpenOf(st2) = OpenOf(st)
  BY <1>1, <1>2, OpenTop
<1> QED
  BY <1>1, <1>10, <1>11 DEF r

\* All of a nested object has arrived.
LEMMA AtEnd ==
    ASSUME NEW m \in Memory, NEW st, PathIn(m, st), ~LoopingIn(m, st),
           NEW V, ValueMatches(Normal(m), V, st)
    PROVE  SameIn(Normal(m), V, TopNode(st))
<1> DEFINE n == Len(st)  p == TopNode(st)  i == TopIndex(st)  r == Normal(m)
<1>1. n \in Nat \ {0} /\ n \in 1..n
  BY PathType, TopType DEF PathIn
<1>2. p \in Nodes /\ i \in Nat \ {0} /\ CountIn(m, p) \in Nat
  BY <1>1, PathType DEF TopNode, TopIndex
<1>3. ~Leaf(p) /\ Plain(m, p)
  BY <1>1 DEF PathIn, TopNode
<1>4. CountIn(r, p) = CountIn(m, p) /\ r \in Memory
  BY <1>2, <1>3, CountNormal, NormalType
<1>5. i > CountIn(r, p)
  BY <1>2, <1>4 DEF LoopingIn
<1>6. NodeMatches(r, V, p, i, FALSE)
  <2>1. NodeMatches(r, V, p, i, n < n)
    BY <1>1 DEF ValueMatches, TopNode, TopIndex
  <2>2. (n < n) = FALSE
    BY <1>1
  <2> QED
    BY <2>1, <2>2
<1>7. ASSUME Kind(p) = "union" PROVE \E k \in Kids(p) : ~NotHeld(r, p, k)
  <2>1. CASE p \in Stray(m)
    <3>1. r[p] = Default(p)
      BY <1>2, <1>3, <2>1, PlainIs
    <3>2. PICK k \in Kids(p) : Default(p) = <<Id(k)>>
      BY <1>2, <1>7, SchemaAssumption
    <3> QED
      BY <3>1, <3>2 DEF NotHeld, HeldIn
  <2>2. CASE p \notin Stray(m)
    <3>1. r[p] = m[p]
      BY <1>2, <1>3, <2>2, PlainIs
    <3>2. PICK k \in Kids(p) : ~NotHeld(m, p, k)
      BY <1>2, <1>7, <2>2 DEF Stray
    <3> QED
      BY <3>1, <3>2 DEF NotHeld, HeldIn
  <2> QED
    BY <2>1, <2>2
<1> HIDE DEF p, i, r
<1>8. SameIn(r, V, p)
  BY <1>2, <1>3, <1>4, <1>5, <1>6, <1>7, NodeArrived
<1> QED
  BY <1>8 DEF r, p

\* A nested object ends.
LEMMA EndArrives ==
    ASSUME NEW m \in Memory, NEW st, PathIn(m, st), NEW V, ValueMatches(Normal(m), V, st),
           NEW d, Deep(d, st),
           NEW w, NEW st2, NEW w2, WalkLeave(m, st, w, st2, w2)
    PROVE  /\ w2 = Append(w, EndToken) /\ EndToken \in Token
           /\ Deep(d, st2) /\ ValueMatches(Normal(m), V, st2)
           /\ ValueStep(V, OpenOf(st), EndToken, V, OpenOf(st2))
<1> DEFINE n == Len(st)  r == Normal(m)  q == st[n - 1].node  j == st[n - 1].i
<1>1. ~LoopingIn(m, st) /\ n > 1 /\ st2 = GoOn(st, n - 1) /\ w2 = Append(w, EndToken)
  BY LoopingNow DEF WalkLeave
<1>2. /\ n \in Nat \ {0} /\ n - 1 \in 1..n /\ n - 1 \in 1..n - 1 /\ st \in Seq(Frames)
      /\ st # <<>> /\ (n - 1) + 1 = n /\ n - 1 \in Nat \ {0}
  BY <1>1, TopType DEF PathIn
<1>3. /\ q \in Nodes /\ j \in Nat \ {0} /\ j <= CountIn(m, q) /\ Plain(m, q)
      /\ TopNode(st) = Schema[q].kids[j]
  <2>1. q \in Nodes /\ j \in Nat \ {0}
    BY <1>2, PathType
  <2>2. j <= CountIn(m, q) /\ Plain(m, q) /\ st[(n - 1) + 1].node = Schema[q].kids[j]
    BY <1>2 DEF PathIn
  <2> QED
    BY <1>2, <2>1, <2>2 DEF TopNode
<1>4. CountIn(r, q) = CountIn(m, q) /\ r \in Memory
  BY <1>3, CountNormal, NormalType
<1>5. SameIn(r, V, TopNode(st))
  BY <1>1, AtEnd
<1>6. \A l \in 1..n - 1 : NodeMatches(r, V, st[l].node, st[l].i, TRUE)
  BY <1>4, AlikeSame, CallersMatch
<1>7. NodeMatches(r, V, q, j, TRUE)
  <2>1. ASSUME NEW l \in 1..n - 1, l = n - 1
        PROVE  NodeMatches(r, V, st[l].node, st[l].i, TRUE)
    BY <1>6
  <2> HIDE DEF r
  <2> QED
    BY <1>2, <2>1
<1>8. IsValue(V)
  BY DEF ValueMatches
<1>9. OpenOf(st2) = Front(OpenOf(st)) /\ Len(OpenOf(st)) > 1
  <2>1. /\ Len(OpenOf(st)) = n /\ OpenOf(st) \in Seq(Nodes)
        /\ \A l \in 1..n : OpenOf(st)[l] = st[l].node
    BY <1>2, OpenTop
  <2>2. OpenOf(st2) = [l \in 1..n - 1 |-> st[l].node]
    BY <1>1, <1>2, OpenGoesOn
  <2>3. Front(OpenOf(st)) = [l \in 1..n - 1 |-> OpenOf(st)[l]]
    <3>1. 1 \in Nat /\ n - 1 \in Nat
      BY <1>2
    <3> QED
      BY <1>2, <2>1, <3>1 DEF Front
  <2>4. \A l \in 1..n - 1 : OpenOf(st)[l] = st[l].node
    BY <1>2, <2>1
  <2> QED
    BY <1>1, <2>1, <2>2, <2>3, <2>4
<1>10. Deep(d, st2)
  <2>1. /\ Len(st2) = n - 1 /\ st2[n - 1] = Onward(st[n - 1], "ok")
        /\ \A l \in 1..n - 1 : l # n - 1 => st2[l] = st[l]
    BY <1>1, <1>2, GoOnType
  <2>2. \A l \in 1..n - 1 : st2[l].node = st[l].node
    BY <2>1 DEF Onward
  <2>3. \A l \in 1..n - 1 : l \in 1..n
    BY <1>2
  <2> QED
    BY <2>1, <2>2, <2>3 DEF Deep
<1>11. EndTaken(V, OpenOf(st), EndToken, V, OpenOf(st2))
  BY <1>9 DEF EndTaken, EndToken
<1>12. EndToken \in Token
  BY DEF EndToken, Token
<1> HIDE DEF q, j, r
<1>13. NodeMatches(r, V, q, j + 1, FALSE)
  <2>1. SameIn(r, V, Schema[q].kids[j]) /\ j <= CountIn(r, q)
    BY <1>3, <1>4, <1>5
  <2> QED
    BY <1>3, <1>4, <1>7, <2>1, FieldArrived
<1>14. ValueMatches(r, V, GoOn(st, n - 1))
  <2>1. n - 1 \in 1..Len(st)
    BY <1>2
  <2>2. \A l \in 1..(n - 1) - 1 : NodeMatches(r, V, st[l].node, st[l].i, TRUE)
    <3>1. \A l \in 1..(n - 1) - 1 : l \in 1..n - 1
      BY <1>2
    <3> QED
      BY <1>6, <3>1
  <2>3. NodeMatches(r, V, st[n - 1].node, st[n - 1].i + 1, FALSE)
    BY <1>13 DEF q, j
  <2> QED
    BY <1>2, <1>8, <2>1, <2>2, <2>3, MatchesGoOn
<1> QED
  BY <1>1, <1>10, <1>11, <1>12, <1>14 DEF ValueStep, r

\* The object ends.
LEMMA ObjectEnds ==
    ASSUME NEW m \in Memory, NEW st, PathIn(m, st), NEW V, ValueMatches(Normal(m), V, st),
           NEW w, NEW st2, NEW w2, WalkFinish(m, st, w, st2, w2)
    PROVE  w2 = w /\ V = View(Normal(m)) /\ OpenOf(st) = <<Root>>
<1>1. ~LoopingIn(m, st) /\ Len(st) = 1 /\ w2 = w
  BY LoopingNow DEF WalkFinish
<1>2. st[1].node = Root
  BY DEF PathIn
<1>3. SameIn(Normal(m), V, Root)
  BY <1>1, <1>2, AtEnd DEF TopNode
<1>4. IsValue(V)
  BY DEF ValueMatches
<1>5. OpenOf(st) = <<Root>>
  BY <1>1, <1>2 DEF OpenOf
<1> QED
  BY <1>1, <1>3, <1>4, <1>5, ObjectArrived



-----------------------------------------------------------------------------
(* The message as it is decoded.                                           *)

\* The states of a value while it takes the tokens of w.
Run(w, run) ==
    /\ run[0] = <<FreshOf(Root), <<Root>>>>
    /\ \A j \in 1..Len(w) :
          ValueStep(run[j - 1][1], run[j - 1][2], w[j], run[j][1], run[j][2])

\* The message w makes the value V with the sequences op open.
Yields(w, V, op) == \E run : Run(w, run) /\ run[Len(w)] = <<V, op>>

LEMMA YieldsNothing == Yields(<<>>, FreshOf(Root), <<Root>>)
<1> DEFINE run == [j \in {0} |-> <<FreshOf(Root), <<Root>>>>]
<1>1. Len(<<>>) = 0 /\ 1..0 = {}
  OBVIOUS
<1>2. run[0] = <<FreshOf(Root), <<Root>>>>
  OBVIOUS
<1> HIDE DEF run
<1> QED
  BY <1>1, <1>2 DEF Yields, Run

LEMMA YieldsMore ==
    ASSUME NEW w \in Seq(Token), NEW V, NEW op, Yields(w, V, op),
           NEW t \in Token, NEW W, NEW op2, ValueStep(V, op, t, W, op2)
    PROVE  Yields(Append(w, t), W, op2)
<1> DEFINE n == Len(w)
           w2 == Append(w, t)
<1>1. PICK run : Run(w, run) /\ run[n] = <<V, op>>
  BY DEF Yields
<1> DEFINE new == [j \in 0..n + 1 |-> IF j = n + 1 THEN <<W, op2>> ELSE run[j]]
<1>2. n \in Nat
  BY LenProperties
<1>3. w2 \in Seq(Token) /\ Len(w2) = n + 1 /\ w2[n + 1] = t /\ \A j \in 1..n : w2[j] = w[j]
  BY AppendProperties
<1>4. new[n + 1] = <<W, op2>> /\ \A j \in 0..n : new[j] = run[j]
  BY <1>2
<1> HIDE DEF n, w2, new
<1>5. new[0] = <<FreshOf(Root), <<Root>>>>
  BY <1>1, <1>2, <1>4 DEF Run
<1>6. ASSUME NEW j \in 1..n + 1
      PROVE  ValueStep(new[j - 1][1], new[j - 1][2], w2[j], new[j][1], new[j][2])
  <2>1. CASE j = n + 1
    <3>1. n \in 0..n /\ j - 1 = n
      BY <1>2, <2>1
    <3>2. new[j - 1] = <<V, op>> /\ new[j] = <<W, op2>> /\ w2[j] = t
      BY <1>1, <1>3, <1>4, <2>1, <3>1
    <3>3. new[j - 1][1] = V /\ new[j - 1][2] = op /\ new[j][1] = W /\ new[j][2] = op2
      BY <3>2
    <3> QED
      BY <3>2, <3>3
  <2>2. CASE j # n + 1
    <3>1. j \in 1..n /\ j \in 0..n /\ j - 1 \in 0..n
      BY <1>2, <2>2
    <3>2. ValueStep(run[j - 1][1], run[j - 1][2], w[j], run[j][1], run[j][2])
      BY <1>1, <3>1 DEF Run, n
    <3>3. new[j - 1] = run[j - 1] /\ new[j] = run[j] /\ w2[j] = w[j]
      BY <1>3, <1>4, <3>1
    <3> QED
      BY <3>2, <3>3
  <2> QED
    BY <2>1, <2>2
<1>7. Run(w2, new)
  BY <1>3, <1>5, <1>6 DEF Run
<1>8. new[Len(w2)] = <<W, op2>>
  BY <1>3, <1>4
<1> QED
  BY <1>7, <1>8 DEF Yields, w2

\* A receiver takes a token of the message as the value does.
LEMMA TokenTaken ==
    ASSUME DecodeInductive, NEW t \in Token, Receive(t),
           NEW W, NEW op2, ValueStep(View(obj), OpenLevels, t, W, op2)
    PROVE  /\ DecodeInductive' /\ ~invalid'
           /\ View(obj)' = W /\ OpenLevels' = op2
<1>1. DecodeInductive' /\ Promised(t) /\ ~invalid /\ DecodeTypeOK
  BY TokenReceived DEF DecodeInductive
<1>2. /\ Len(OpenLevels) = level + skip
      /\ OpenLevels[Len(OpenLevels)] = IF skip = 0 THEN Info ELSE "none"
      /\ "none" \notin Nodes /\ skip \in Nat /\ Info \in Nodes
  BY <1>1, OpenLevelsIs
<1>3. ASSUME t.tok \in {"leaf", "start"}, NEW k, k \in Known(OpenLevels[Len(OpenLevels)], t),
             OpenLevels[Len(OpenLevels)] \in Nodes
      PROVE  /\ skip = 0 /\ OpenLevels[Len(OpenLevels)] = Info
             /\ Value!Understood(t) = {k} /\ ~Value!OverIndex(t)
             /\ Value!Reach(k) = ReachOf(Info, k, View(obj))
             /\ Value!Opened(k) = OpenedValue(k, ReachOf(Info, k, View(obj)))
             /\ \A v : Value!TooLarge(k, v) <=> TooLarge(k, v)
    <2>1. skip = 0 /\ OpenLevels[Len(OpenLevels)] = Info
      BY <1>2, <1>3
    <2>2. k \in Kids(Info) /\ Id(k) = t.id /\ WireType(k) = t.type
      BY <1>3, <2>1 DEF Known
    <2>3. \A c \in Kids(Info) : Id(c) = t.id => c = k
      BY <1>2, <2>2, SchemaAssumption
    <2>4. Slot(t) = {k}
      BY <2>2, <2>3 DEF Slot
    <2>5. Value!Understood(t) = {k}
      BY <1>1, <2>1, <2>2, <2>4, TargetIs
    <2>6. ~Value!OverIndex(t)
      BY <1>1, <2>1, <2>4, TargetIs DEF OverIndex
    <2> QED
      BY <1>1, <2>1, <2>5, <2>6, ReachIs
<1>4. CASE LeafTaken(View(obj), OpenLevels, t, W, op2)
  <2>1. t.tok = "leaf" /\ op2 = OpenLevels /\ OpenLevels[Len(OpenLevels)] \in Nodes
    BY <1>4 DEF LeafTaken
  <2>2. PICK k \in Known(OpenLevels[Len(OpenLevels)], t) :
           /\ ~TooLarge(k, t.val)
           /\ W = [ReachOf(OpenLevels[Len(OpenLevels)], k, View(obj)) EXCEPT
                     ![k] = Value!Filled(k, t.val,
                               ReachOf(OpenLevels[Len(OpenLevels)], k, View(obj))[k])]
    BY <1>4 DEF LeafTaken
  <2>3. /\ OpenLevels[Len(OpenLevels)] = Info
        /\ Value!Understood(t) = {k} /\ ~Value!OverIndex(t)
        /\ Value!Reach(k) = ReachOf(Info, k, View(obj))
        /\ ~Value!TooLarge(k, t.val)
    BY <1>3, <2>1, <2>2
  <2>4. Value!TakeLeaf(t)
    BY <1>1, <2>1 DEF Promised, Value!TakeStart, Value!TakeEnd
  <2>5. /\ View(obj)' = [Value!Reach(k) EXCEPT
                            ![k] = Value!Filled(k, t.val, Value!Reach(k)[k])]
        /\ OpenLevels' = OpenLevels /\ invalid' = invalid
    BY <2>3, <2>4 DEF Value!TakeLeaf
  <2> QED
    BY <1>1, <2>1, <2>2, <2>3, <2>5
<1>5. CASE StartTaken(View(obj), OpenLevels, t, W, op2)
  <2>1. /\ t.tok = "start" /\ OpenLevels[Len(OpenLevels)] \in Nodes
        /\ Len(OpenLevels) < MaxLevels /\ Len(OpenLevels) <= MaxDepth
    BY <1>5 DEF StartTaken
  <2>2. PICK k \in Known(OpenLevels[Len(OpenLevels)], t) :
           /\ W = OpenedValue(k, ReachOf(OpenLevels[Len(OpenLevels)], k, View(obj)))
           /\ op2 = Append(OpenLevels, k)
    BY <1>5 DEF StartTaken
  <2>3. /\ OpenLevels[Len(OpenLevels)] = Info
        /\ Value!Understood(t) = {k} /\ ~Value!OverIndex(t)
        /\ Value!Opened(k) = OpenedValue(k, ReachOf(Info, k, View(obj)))
    BY <1>3, <2>1, <2>2
  <2>4. Value!TakeStart(t)
    BY <1>1, <2>1 DEF Promised, Value!TakeLeaf, Value!TakeEnd
  <2>5. ~(Len(OpenLevels) > MaxDepth) /\ ~(Len(OpenLevels) >= MaxLevels)
    BY <1>1, <1>2, <2>1, OpenLevelsIs, DecodeAssumption
  <2>6. /\ View(obj)' = Value!Opened(k) /\ OpenLevels' = Append(OpenLevels, k)
        /\ invalid' = invalid
    BY <2>3, <2>4, <2>5 DEF Value!TakeStart
  <2> QED
    BY <1>1, <2>2, <2>3, <2>6
<1>6. CASE EndTaken(View(obj), OpenLevels, t, W, op2)
  <2>1. t.tok = "end" /\ Len(OpenLevels) > 1 /\ W = View(obj) /\ op2 = Front(OpenLevels)
    BY <1>6 DEF EndTaken
  <2>2. Value!TakeEnd(t)
    BY <1>1, <2>1 DEF Promised, Value!TakeLeaf, Value!TakeStart
  <2>3. View(obj)' = View(obj) /\ OpenLevels' = Value!Front(OpenLevels) /\ invalid' = invalid
    BY <2>1, <2>2 DEF Value!TakeEnd
  <2>4. Value!Front(OpenLevels) = Front(OpenLevels)
    BY DEF Value!Front, Front
  <2> QED
    BY <1>1, <2>1, <2>3, <2>4
<1> QED
  BY <1>4, <1>5, <1>6 DEF ValueStep


LEMMA DeepGoesOn ==
    ASSUME NEW st \in Seq(Frames), st # <<>>, NEW d, Deep(d, st)
    PROVE  Deep(d, GoOn(st, Len(st))) /\ GoOn(st, Len(st)) # <<>>
<1> DEFINE n == Len(st)
<1>1. n \in Nat \ {0} /\ n \in 1..n
  BY TopType
<1>2. /\ Len(GoOn(st, n)) = n /\ GoOn(st, n)[n] = Onward(st[n], "ok") /\ GoOn(st, n) # <<>>
      /\ \A l \in 1..n : l # n => GoOn(st, n)[l] = st[l]
  BY <1>1, GoOnType
<1>3. \A l \in 1..n : GoOn(st, n)[l].node = st[l].node
  BY <1>2 DEF Onward
<1> QED
  BY <1>2, <1>3 DEF Deep

\* The message so far makes a value that matches where the encoder is; the
\* whole message makes that of the object.
SendingOf(m, d, st, w) ==
    IF st = <<>> THEN Yields(w, View(Normal(m)), <<Root>>)
    ELSE /\ PathIn(m, st) /\ Deep(d, st)
         /\ \E V : Yields(w, V, OpenOf(st)) /\ ValueMatches(Normal(m), V, st)

LEMMA SendingStarts ==
    ASSUME NEW m \in Memory, NEW d \in Depths
    PROVE  SendingOf(m, d, <<Frame(Root)>>, <<>>)
<1> DEFINE st == <<Frame(Root)>>  V == FreshOf(Root)
<1>1. Root \in Nodes /\ ~Leaf(Root) /\ Normal(m) \in Memory
  BY SchemaAssumption, NormalType
<1>2. /\ Len(st) = 1 /\ st[1].node = Root /\ st[1].i = 1 /\ st # <<>> /\ 1..1 = {1}
      /\ st[Len(st)] = st[1]
  BY DEF Frame
<1>3. PathIn(m, st)
  BY PathStarts
<1>4. d[Root] = 1
  BY DEF Depths
<1>5. OpenOf(st) = <<Root>>
  BY <1>2 DEF OpenOf
<1>6. DOMAIN V = FreshParts[Root] /\ (\A x \in FreshParts[Root] : V[x] = Default(x))
      /\ FreshParts[Root] \subseteq Nodes /\ V = [x \in DOMAIN V |-> V[x]]
  BY <1>1, LiveType DEF FreshOf
<1> HIDE DEF st, V
<1>7. IsValue(V) /\ NewIn(V, Root)
  BY <1>6 DEF IsValue, NewIn
<1>8. NodeMatches(Normal(m), V, Root, 1, FALSE)
  BY <1>1, <1>7, NodeOpened
<1>9. (1 < 1) = FALSE
  OBVIOUS
<1>10. ValueMatches(Normal(m), V, st)
  BY <1>2, <1>7, <1>8, <1>9 DEF ValueMatches
<1>11. Deep(d, st)
  BY <1>2, <1>4 DEF Deep
<1>12. Yields(<<>>, V, OpenOf(st))
  BY <1>5, YieldsNothing DEF V
<1> QED
  BY <1>2, <1>3, <1>10, <1>11, <1>12 DEF SendingOf, st

LEMMA SendingGoesOn ==
    ASSUME NEW m \in Memory, Fit(m), NEW d \in Depths, NEW st, st # <<>>, NEW w \in Seq(Token),
           SendingOf(m, d, st, w), NEW st2, NEW w2, Walk(m, st, w, st2, w2)
    PROVE  SendingOf(m, d, st2, w2)
<1>1. PathIn(m, st) /\ Deep(d, st)
  BY DEF SendingOf
<1>2. PICK V : Yields(w, V, OpenOf(st)) /\ ValueMatches(Normal(m), V, st)
  BY DEF SendingOf
<1>3. st \in Seq(Frames)
  BY <1>1 DEF PathIn
<1>4. ASSUME st2 = GoOn(st, Len(st)) PROVE st2 # <<>> /\ Deep(d, st2)
  BY <1>1, <1>3, <1>4, DeepGoesOn
<1>5. st2 # <<>> => PathIn(m, st2)
  BY <1>1, WalkPath
<1>6. CASE WalkSkip(m, st, w, st2, w2)
  <2>1. w2 = w /\ ValueMatches(Normal(m), V, st2) /\ OpenOf(st2) = OpenOf(st)
    BY <1>1, <1>2, <1>6, SkipArrives
  <2>2. st2 # <<>> /\ Deep(d, st2)
    BY <1>4, <1>6 DEF WalkSkip
  <2> QED
    BY <1>2, <1>5, <2>1, <2>2 DEF SendingOf
<1>7. CASE WalkLeaf(m, st, w, st2, w2)
  <2> DEFINE t == LeafToken(m, TopField(st))
  <2>1. /\ w2 = Append(w, t) /\ t \in Token
        /\ \E W : ValueMatches(Normal(m), W, st2) /\ ValueStep(V, OpenOf(st), t, W, OpenOf(st2))
    BY <1>1, <1>2, <1>7, LeafArrives
  <2>2. st2 # <<>> /\ Deep(d, st2)
    BY <1>4, <1>7 DEF WalkLeaf
  <2> HIDE DEF t
  <2>3. PICK W : ValueMatches(Normal(m), W, st2) /\ ValueStep(V, OpenOf(st), t, W, OpenOf(st2))
    BY <2>1
  <2>4. Yields(w2, W, OpenOf(st2))
    BY <1>2, <2>1, <2>3, YieldsMore
  <2> QED
    BY <1>5, <2>2, <2>3, <2>4 DEF SendingOf
<1>8. CASE WalkEnter(m, st, w, st2, w2)
  <2> DEFINE t == StartToken(TopField(st))
  <2>1. /\ w2 = Append(w, t) /\ t \in Token /\ Deep(d, st2)
        /\ \E W : ValueMatches(Normal(m), W, st2) /\ ValueStep(V, OpenOf(st), t, W, OpenOf(st2))
    BY <1>1, <1>2, <1>8, StartArrives
  <2> HIDE DEF t
  <2>2. PICK W : ValueMatches(Normal(m), W, st2) /\ ValueStep(V, OpenOf(st), t, W, OpenOf(st2))
    BY <2>1
  <2>3. Yields(w2, W, OpenOf(st2))
    BY <1>2, <2>1, <2>2, YieldsMore
  <2>4. st2 # <<>>
    <3>1. st2 = Append(st, Frame(Schema[st[Len(st)].node].kids[st[Len(st)].i]))
      BY <1>8 DEF WalkEnter
    <3>2. Len(st2) = Len(st) + 1 /\ Len(st) \in Nat
      BY <1>3, <3>1, LenProperties
    <3> QED
      BY <3>2
  <2> QED
    BY <1>5, <2>1, <2>2, <2>3, <2>4 DEF SendingOf
<1>9. CASE WalkLeave(m, st, w, st2, w2)
  <2>1. /\ w2 = Append(w, EndToken) /\ EndToken \in Token /\ Deep(d, st2)
        /\ ValueMatches(Normal(m), V, st2)
        /\ ValueStep(V, OpenOf(st), EndToken, V, OpenOf(st2))
    BY <1>1, <1>2, <1>9, EndArrives
  <2>2. Yields(w2, V, OpenOf(st2))
    BY <1>2, <2>1, YieldsMore
  <2>3. st2 # <<>>
    <3>1. st2 = GoOn(st, Len(st) - 1) /\ Len(st) > 1 /\ Len(st) \in Nat
      BY <1>3, <1>9, LenProperties DEF WalkLeave
    <3>2. Len(st) - 1 \in 1..Len(st)
      BY <3>1
    <3> QED
      BY <1>3, <3>1, <3>2, GoOnType
  <2> QED
    BY <1>5, <2>1, <2>2, <2>3 DEF SendingOf
<1>10. CASE WalkFinish(m, st, w, st2, w2)
  <2>1. w2 = w /\ V = View(Normal(m)) /\ OpenOf(st) = <<Root>>
    BY <1>1, <1>2, <1>10, ObjectEnds
  <2>2. st2 = <<>>
    BY <1>10 DEF WalkFinish
  <2> QED
    BY <1>2, <2>1, <2>2 DEF SendingOf
<1> QED
  BY <1>6, <1>7, <1>8, <1>9, <1>10 DEF Walk


-----------------------------------------------------------------------------
(* What makes RoundTrip inductive.                                         *)

\* While the object is encoded, and nothing has gone wrong.
Departing(d) ==
    /\ sent.obj = src /\ Fit(src)
    /\ errors = {} => SendingOf(src, d, stack, wire)
    /\ got = 0 /\ View(obj) = FreshOf(Root) /\ OpenLevels = <<Root>>

\* While it is decoded: the receiver is where the message leads.
Arriving ==
    /\ got \in 0..Len(sent.wire)
    /\ wire = sent.wire
    /\ \E run : /\ Run(sent.wire, run)
                /\ run[got][1] = View(obj) /\ run[got][2] = OpenLevels
                /\ run[Len(sent.wire)] = <<View(Normal(sent.obj)), <<Root>>>>

TransferInductive(d) ==
    /\ Inductive /\ DecodeInductive /\ ~invalid
    /\ phase \in {"encode", "decode", "again"}
    /\ sent \in [obj : Memory, wire : Seq(Token)]
    /\ phase = "encode" => Departing(d)
    /\ phase = "decode" => Arriving

LEMMA RestartIsInductive == Init(Memory)' => Inductive'
<1>1. Init(Memory) => Inductive
  BY EncodeInit
<1> QED
  BY <1>1, PTL

LEMMA SameEncoder == Inductive /\ UNCHANGED vars => Inductive'
BY EncodeStep

LEMMA SameReceiver == DecodeInductive /\ UNCHANGED decodeVars => DecodeInductive'
BY DecodeNextStep

LEMMA NextKeepsObject ==
    ASSUME Next
    PROVE  src' = src /\ stack # <<>> /\ (errors' = {} => errors = {})
BY DEF Next, SkipField, RefuseField, WriteField, EnterSequence, LeaveSequence, Finish,
       Looping, Returning, Write

LEMMA TransferInitStep ==
    ASSUME NEW objects, objects \in SUBSET Memory, \A m \in objects : Fit(m),
           NEW d \in Depths, TransferInit(objects)
    PROVE  TransferInductive(d)
<1>1. /\ Init(objects) /\ DecodeInit /\ phase = "encode" /\ got = 0
      /\ sent = [obj |-> src, wire |-> <<>>]
  BY DEF TransferInit
<1>2. Inductive
  BY <1>1, EncodeInit
<1>3. /\ src \in Memory /\ Fit(src) /\ stack = <<Frame(Root)>> /\ wire = <<>>
  BY <1>1 DEF Init
<1>4. DecodeInductive /\ Value!Init
  BY <1>1, DecodeInitStep
<1>5. View(obj) = FreshOf(Root) /\ OpenLevels = <<Root>> /\ ~invalid
  BY <1>4, ValueSchema DEF Value!Init, Value!Fresh, FreshOf
<1>6. sent \in [obj : Memory, wire : Seq(Token)] /\ sent.obj = src
  BY <1>1, <1>3
<1>7. SendingOf(src, d, stack, wire)
  BY <1>3, SendingStarts
<1>8. Departing(d)
  BY <1>1, <1>3, <1>5, <1>6, <1>7 DEF Departing
<1> QED
  BY <1>1, <1>2, <1>4, <1>5, <1>6, <1>8 DEF TransferInductive

LEMMA SameView == UNCHANGED decodeVars =>
    /\ View(obj)' = View(obj) /\ OpenLevels' = OpenLevels /\ invalid' = invalid
BY SameObject, SameLevels DEF decodeVars

LEMMA EncodeStepKeeps ==
    ASSUME NEW d \in Depths, TransferInductive(d), Encode
    PROVE  TransferInductive(d)'
<1>1. /\ Next /\ UNCHANGED decodeVars /\ phase' = phase /\ sent' = sent /\ got' = got
      /\ phase \in {"encode", "again"}
  BY DEF Encode
<1>2. Inductive' /\ DecodeInductive'
  BY <1>1, EncodeStep, SameReceiver DEF TransferInductive
<1>3. View(obj)' = View(obj) /\ OpenLevels' = OpenLevels /\ invalid' = invalid
  BY <1>1, SameView
<1>4. src' = src /\ stack # <<>> /\ (errors' = {} => errors = {})
  BY <1>1, NextKeepsObject
<1>5. ASSUME phase = "encode" PROVE Departing(d)'
  <2>1. Departing(d) /\ src \in Memory /\ wire \in Seq(Token)
    BY <1>5 DEF TransferInductive, Inductive, TypeOK
  <2>2. ASSUME errors' = {} PROVE SendingOf(src', d, stack', wire')
    <3>1. SendingOf(src, d, stack, wire) /\ Fit(src)
      BY <1>4, <2>1, <2>2 DEF Departing
    <3>2. PathIn(src, stack)
      BY <1>4, <3>1 DEF SendingOf
    <3>3. Walk(src, stack, wire, stack', wire')
      BY <1>1, <2>1, <2>2, <3>2, WalkStep
    <3>4. SendingOf(src, d, stack', wire')
      BY <1>4, <2>1, <3>1, <3>3, SendingGoesOn
    <3> QED
      BY <1>4, <3>4
  <2> QED
    BY <1>1, <1>3, <1>4, <2>1, <2>2 DEF Departing
<1> QED
  BY <1>1, <1>2, <1>3, <1>5 DEF TransferInductive

LEMMA SendStepKeeps ==
    ASSUME NEW d \in Depths, TransferInductive(d), Send
    PROVE  TransferInductive(d)'
<1>1. /\ phase = "encode" /\ result = "ok" /\ phase' = "decode"
      /\ sent' = [sent EXCEPT !.wire = wire]
      /\ UNCHANGED vars /\ UNCHANGED decodeVars /\ got' = got
  BY DEF Send
<1>2. Inductive' /\ DecodeInductive'
  BY <1>1, SameEncoder, SameReceiver DEF TransferInductive
<1>3. View(obj)' = View(obj) /\ OpenLevels' = OpenLevels /\ invalid' = invalid
  BY <1>1, SameView
<1>4. wire' = wire /\ wire \in Seq(Token)
  BY <1>1 DEF vars, TransferInductive, Inductive, TypeOK
<1>5. /\ sent' \in [obj : Memory, wire : Seq(Token)] /\ sent'.obj = sent.obj
      /\ sent'.wire = wire
  BY <1>1, <1>4 DEF TransferInductive
<1>6. errors = {} /\ stack = <<>>
  <2>1. Gravest(errors) = "ok" /\ errors \subseteq Errors /\ stack = <<>>
    BY <1>1 DEF TransferInductive, Inductive, ErrorsSurface, TypeOK, WalkEnds
  <2> QED
    BY <2>1 DEF Gravest, Errors
<1>7. /\ Yields(wire, View(Normal(sent.obj)), <<Root>>)
      /\ got = 0 /\ View(obj) = FreshOf(Root) /\ OpenLevels = <<Root>>
  <2>1. Departing(d)
    BY <1>1 DEF TransferInductive
  <2> QED
    BY <1>6, <2>1 DEF Departing, SendingOf
<1>8. PICK run : Run(wire, run) /\ run[Len(wire)] = <<View(Normal(sent.obj)), <<Root>>>>
  BY <1>7 DEF Yields
<1>9. run[0][1] = View(obj) /\ run[0][2] = OpenLevels
  BY <1>7, <1>8 DEF Run
<1>10. 0 \in 0..Len(wire)
  BY <1>4, LenProperties
<1>11. Run(sent'.wire, run) /\ run[got'][1] = View(obj)' /\ run[got'][2] = OpenLevels'
       /\ run[Len(sent'.wire)] = <<View(Normal(sent'.obj)), <<Root>>>>
  BY <1>1, <1>3, <1>5, <1>7, <1>8, <1>9
<1>12. got' \in 0..Len(sent'.wire) /\ wire' = sent'.wire
  BY <1>1, <1>4, <1>5, <1>7, <1>10
<1>13. Arriving'
  BY <1>11, <1>12 DEF Arriving
<1> QED
  BY <1>1, <1>2, <1>3, <1>5, <1>13 DEF TransferInductive

LEMMA DeliverStepKeeps ==
    ASSUME NEW d \in Depths, TransferInductive(d), Deliver
    PROVE  TransferInductive(d)'
<1>1. /\ phase = "decode" /\ got < Len(wire) /\ Receive(wire[got + 1]) /\ got' = got + 1
      /\ UNCHANGED vars /\ phase' = phase /\ sent' = sent
  BY DEF Deliver
<1>2. Inductive' /\ wire' = wire /\ DecodeInductive /\ ~invalid
  BY <1>1, SameEncoder DEF TransferInductive, vars
<1>3. /\ got \in 0..Len(sent.wire) /\ wire = sent.wire
      /\ sent \in [obj : Memory, wire : Seq(Token)]
  BY <1>1 DEF TransferInductive, Arriving
<1>4. PICK run : /\ Run(sent.wire, run)
                 /\ run[got][1] = View(obj) /\ run[got][2] = OpenLevels
                 /\ run[Len(sent.wire)] = <<View(Normal(sent.obj)), <<Root>>>>
  BY <1>1 DEF TransferInductive, Arriving
<1> DEFINE t == wire[got + 1]
<1>5. /\ Len(wire) \in Nat /\ got + 1 \in 1..Len(wire) /\ got + 1 \in 0..Len(wire)
      /\ (got + 1) - 1 = got
  BY <1>1, <1>3, LenProperties
<1>6. t \in Token
  BY <1>3, <1>5, ElementOfSeq
<1>7. ValueStep(run[(got + 1) - 1][1], run[(got + 1) - 1][2], sent.wire[got + 1],
                run[got + 1][1], run[got + 1][2])
  BY <1>3, <1>4, <1>5 DEF Run
<1>8. ValueStep(View(obj), OpenLevels, t, run[got + 1][1], run[got + 1][2])
  BY <1>3, <1>4, <1>5, <1>7
<1> HIDE DEF t
<1>9. /\ DecodeInductive' /\ ~invalid'
      /\ View(obj)' = run[got + 1][1] /\ OpenLevels' = run[got + 1][2]
  BY <1>1, <1>2, <1>6, <1>8, TokenTaken DEF t
<1>10. Run(sent'.wire, run) /\ run[got'][1] = View(obj)' /\ run[got'][2] = OpenLevels'
       /\ run[Len(sent'.wire)] = <<View(Normal(sent'.obj)), <<Root>>>>
  BY <1>1, <1>4, <1>9
<1>11. got' \in 0..Len(sent'.wire) /\ wire' = sent'.wire
  BY <1>1, <1>2, <1>3, <1>5
<1>12. Arriving'
  BY <1>10, <1>11 DEF Arriving
<1> QED
  BY <1>1, <1>2, <1>3, <1>9, <1>12 DEF TransferInductive

LEMMA EncodeAgainStepKeeps ==
    ASSUME NEW d \in Depths, TransferInductive(d), EncodeAgain
    PROVE  TransferInductive(d)'
<1>1. /\ UNCHANGED decodeVars /\ sent' = sent /\ phase' = "again"
      /\ src' = obj /\ stack' = <<Frame(Root)>> /\ wire' = <<>> /\ full' = FALSE
      /\ errors' = {} /\ result' = "none"
  BY DEF EncodeAgain
<1>2. obj \in Memory
  BY DEF TransferInductive, DecodeInductive, DecodeTypeOK
<1>3. Init(Memory)'
  BY <1>1, <1>2 DEF Init
<1>4. Inductive'
  BY <1>3, RestartIsInductive
<1>5. DecodeInductive' /\ invalid' = invalid
  BY <1>1, SameReceiver, SameView DEF TransferInductive
<1> QED
  BY <1>1, <1>4, <1>5 DEF TransferInductive

LEMMA TransferStep ==
    ASSUME NEW d \in Depths, TransferInductive(d), [TransferNext]_transferVars
    PROVE  TransferInductive(d)'
<1>1. CASE TransferNext
  BY <1>1, EncodeStepKeeps, SendStepKeeps, DeliverStepKeeps, EncodeAgainStepKeeps
     DEF TransferNext
<1>2. CASE UNCHANGED transferVars
  <2>1. /\ UNCHANGED vars /\ UNCHANGED decodeVars /\ phase' = phase /\ sent' = sent
        /\ got' = got
    BY <1>2 DEF transferVars
  <2>2. Inductive' /\ DecodeInductive'
    BY <2>1, SameEncoder, SameReceiver DEF TransferInductive
  <2>3. View(obj)' = View(obj) /\ OpenLevels' = OpenLevels /\ invalid' = invalid
    BY <2>1, SameView
  <2>4. /\ src' = src /\ stack' = stack /\ wire' = wire /\ errors' = errors
    BY <2>1 DEF vars
  <2>5. Departing(d) => Departing(d)'
    BY <2>1, <2>3, <2>4 DEF Departing
  <2>6. Arriving => Arriving'
    <3>1. /\ View(obj)' = View(obj) /\ OpenLevels' = OpenLevels /\ got' = got
          /\ sent' = sent /\ wire' = wire
      BY <2>1, <2>3, <2>4
    <3> QED
      BY <3>1 DEF Arriving
  <2> QED
    BY <2>1, <2>2, <2>3, <2>5, <2>6 DEF TransferInductive
<1> QED
  BY <1>1, <1>2

LEMMA TransferIsRoundTrip ==
    ASSUME NEW d \in Depths, TransferInductive(d)
    PROVE  RoundTrip
<1> SUFFICES ASSUME phase = "decode"
             PROVE  /\ ~invalid
                    /\ Arrived => level = 1 /\ skip = 0 /\ View(obj) = View(Normal(sent.obj))
  BY DEF RoundTrip
<1>1. ~invalid /\ DecodeTypeOK /\ Arriving
  BY DEF TransferInductive, DecodeInductive
<1>2. ASSUME Arrived
      PROVE  level = 1 /\ skip = 0 /\ View(obj) = View(Normal(sent.obj))
  <2>1. got = Len(sent.wire)
    BY <1>1, <1>2 DEF Arrived, Arriving
  <2>2. View(obj) = View(Normal(sent.obj)) /\ OpenLevels = <<Root>>
    BY <1>1, <2>1 DEF Arriving
  <2>3. level + skip = 1 /\ level \in Nat \ {0} /\ skip \in Nat
    BY <1>1, <2>2, OpenLevelsIs
  <2> QED
    BY <2>2, <2>3
<1> QED
  BY <1>1, <1>2

\* For every schema, every object and every message that does get sent: what
\* the receiver decodes is what was encoded, if its handles and its decoder
\* reach as deep as the descriptors do and the contents of the object are such
\* as its C types have.
THEOREM ObjectsArrive ==
    ASSUME NEW CONSTANT objects, objects \in SUBSET Memory, \A m \in objects : Fit(m),
           NEW CONSTANT d \in Depths
    PROVE  TransferSpec(objects) => []RoundTrip
<1>1. TransferInit(objects) => TransferInductive(d)
  BY TransferInitStep
<1>2. TransferInductive(d) /\ [TransferNext]_transferVars => TransferInductive(d)'
  BY TransferStep
<1>3. TransferInductive(d) => RoundTrip
  BY TransferIsRoundTrip
<1> QED
  BY <1>1, <1>2, <1>3, PTL DEF TransferSpec



-----------------------------------------------------------------------------
(* The message is a matter of the value alone.                             *)

\* Every union holds an option once stray tags read as the default one.
LEMMA NormalHolds ==
    ASSUME NEW m, NEW u \in Nodes, Kind(u) = "union"
    PROVE  \E k \in Kids(u) : ~NotHeld(Normal(m), u, k)
<1>1. CASE Normal(m)[u] = Default(u)
  <2>1. PICK k \in Kids(u) : Default(u) = <<Id(k)>>
    BY SchemaAssumption
  <2> QED
    BY <1>1, <2>1 DEF NotHeld, HeldIn
<1>2. CASE Normal(m)[u] # Default(u)
  <2>1. Normal(m)[u] = m[u] /\ u \in Seeded[u]
    BY <1>2, NormalIs, LiveType
  <2>2. u \notin Stray(m)
    BY <1>2, <2>1, NormalIs
  <2>3. PICK k \in Kids(u) : ~NotHeld(m, u, k)
    BY <2>2 DEF Stray
  <2> QED
    BY <2>1, <2>3 DEF NotHeld, HeldIn
<1> QED
  BY <1>1, <1>2

\* Of equal values everything about the nodes they consist of is equal.
LEMMA SameValue ==
    ASSUME NEW r \in Memory, NEW s \in Memory, View(r) = View(s), NEW p \in Live(r)
    PROVE  /\ Live(r) = Live(s) /\ p \in Nodes /\ Meaning(p, r) = Meaning(p, s)
           /\ Kind(p) = "sized" => SeqLen(p, r) = SeqLen(p, s)
           /\ \A k : NotHeld(r, p, k) <=> NotHeld(s, p, k)
           /\ \A k : Chosen(r, p, k) <=> Chosen(s, p, k)
<1>1. /\ DOMAIN View(r) = Live(r) /\ DOMAIN View(s) = Live(s)
      /\ View(r)[p] = Meaning(p, r)
  BY ViewAt
<1>2. Live(r) = Live(s)
  BY <1>1
<1>3. p \in Nodes
  BY LiveNodes
<1>4. View(s)[p] = Meaning(p, s)
  BY <1>2, ViewAt
<1>5. Meaning(p, r) = Meaning(p, s)
  BY <1>1, <1>4
<1>6. Kind(p) = "sized" => SeqLen(p, r) = SeqLen(p, s)
  BY <1>2, ViewNumber
<1>7. Kind(p) = "union" => r[p] = s[p]
  BY <1>2, ViewNumber
<1>8. \A k : NotHeld(r, p, k) <=> NotHeld(s, p, k)
  BY <1>7 DEF NotHeld, HeldIn
<1>9. \A k : Chosen(r, p, k) <=> Chosen(s, p, k)
  BY <1>6, <1>8 DEF Chosen
<1> QED
  BY <1>2, <1>3, <1>5, <1>6, <1>8, <1>9

LEMMA SameFresh ==
    ASSUME NEW r \in Memory, NEW s \in Memory, View(r) = View(s), NEW p \in Live(r),
           NEW k \in Kids(p), Chosen(r, p, k), FreshIn(r, k)
    PROVE  FreshIn(s, k)
<1>1. /\ Live(r) = Live(s) /\ p \in Nodes /\ p \in Live(s) /\ Chosen(s, p, k)
  BY SameValue
<1>2. k \in Live(r) /\ k \in Live(s)
  BY <1>1, LiveNext
<1>3. \A x : x \in LiveIn(r, k) <=> x \in LiveIn(s, k)
  <2>1. k \in Nodes
    BY <1>2, LiveNodes
  <2>2. \A x : x \in Live(r) /\ x \in Below[k] <=> x \in LiveIn(r, k)
    BY <1>2, LiveThrough
  <2>3. \A x : x \in Live(s) /\ x \in Below[k] <=> x \in LiveIn(s, k)
    BY <1>2, LiveThrough
  <2> QED
    BY <1>1, <2>2, <2>3
<1>4. ASSUME NEW x \in LiveIn(s, k) PROVE Meaning(x, s) = Default(x)
  <2>1. x \in LiveIn(r, k) /\ x \in Live(r)
    BY <1>2, <1>3, LiveThrough
  <2>2. Meaning(x, r) = Meaning(x, s)
    BY <2>1, SameValue
  <2> QED
    BY <2>1, <2>2 DEF FreshIn
<1>5. LiveIn(r, k) = LiveIn(s, k)
  BY <1>3
<1> QED
  BY <1>4, <1>5 DEF FreshIn

\* Whether a field costs a byte, by the value.
LEMMA SkippedByValue ==
    ASSUME NEW m \in Memory, NEW p \in Nodes, NEW k \in Kids(p), Plain(m, p)
    PROVE  IsDefault(m)[<<p, k>>] <=>
             NotHeld(Normal(m), p, k) \/ (~Forced(p, k) /\ FreshIn(Normal(m), k))
<1> DEFINE r == Normal(m)
<1>1. k \in Nodes
  BY KidsInNodes
<1>2. CASE p \in Stray(m)
  <2>1. IsDefault(m)[<<p, k>>]
    BY <1>2, Elided DEF Stray
  <2>2. r[p] = Default(p) /\ Kind(p) = "union"
    BY <1>2, PlainIs DEF Stray
  <2>3. ASSUME ~NotHeld(r, p, k) PROVE ~Forced(p, k) /\ FreshIn(r, k)
    <3>1. Default(p) = <<Id(k)>>
      BY <2>2, <2>3 DEF NotHeld, HeldIn
    <3>2. FreshIn(r, k)
      BY <2>1, <2>3, ElidedIsFresh
    <3> QED
      BY <3>1, <3>2 DEF Forced
  <2> QED
    BY <2>1, <2>3
<1>3. CASE p \notin Stray(m)
  <2>1. r[p] = m[p]
    BY <1>3, PlainIs
  <2>2. NotHeld(r, p, k) <=> NotHeld(m, p, k)
    BY <2>1 DEF NotHeld, HeldIn
  <2>3. CASE NotHeld(m, p, k)
    BY <2>2, <2>3, Elided
  <2>4. CASE ~NotHeld(m, p, k)
    <3>1. Plain(m, k)
      BY <2>4, PlainKid
    <3>2. IsDefault(m)[<<p, k>>] => ~Forced(p, k) /\ FreshIn(r, k)
      BY <2>2, <2>4, Elided, ElidedIsFresh
    <3>3. ~Forced(p, k) /\ FreshIn(r, k) => IsDefault(m)[<<p, k>>]
      BY <3>1, FreshIsElided
    <3> QED
      BY <2>2, <2>4, <3>2, <3>3
  <2> QED
    BY <2>3, <2>4
<1> QED
  BY <1>2, <1>3

\* An object whose unions hold an option wherever they are part of the value
\* reads the same with its stray tags replaced.
LEMMA SettledView ==
    ASSUME NEW m \in Memory, NEW q \in Memory, View(q) = View(Normal(m))
    PROVE  View(Normal(q)) = View(q)
<1> DEFINE N == Normal(m)  r == Normal(q)
<1>1. N \in Memory /\ r \in Memory
  BY NormalType
<1>2. ASSUME NEW u \in Live(q) PROVE u \notin Stray(q)
  <2> SUFFICES ASSUME u \in Stray(q) PROVE FALSE
    OBVIOUS
  <2>1. u \in Nodes /\ Kind(u) = "union" /\ \A k \in Kids(u) : NotHeld(q, u, k)
    BY DEF Stray
  <2>2. PICK k \in Kids(u) : ~NotHeld(N, u, k)
    BY <2>1, NormalHolds
  <2> HIDE DEF N
  <2>3. NotHeld(q, u, k) <=> NotHeld(N, u, k)
    <3>1. View(q) = View(N)
      BY DEF N
    <3> QED
      BY <1>1, <3>1, SameValue
  <2> QED
    BY <2>1, <2>2, <2>3
<1>3. ASSUME NEW x \in Live(q) PROVE r[x] = q[x]
  <2>1. x \in Nodes
    BY LiveNodes
  <2>2. ASSUME NEW u \in Stray(q), x \in Seeded[u] PROVE FALSE
    <3>1. u \in Nodes
      BY DEF Stray
    <3>2. x \in Below[u]
      BY <2>2, <3>1, LiveType
    <3>3. u \in Live(q)
      BY <3>1, <3>2, LiveAncestor
    <3> QED
      BY <1>2, <3>3
  <2> QED
    BY <2>1, <2>2, NormalIs
<1> HIDE DEF r, N
<1>4. Live(r) = Live(q)
  <2>1. HeldKids(q) \in Steps /\ HeldKids(r) \in Steps /\ Root \in Nodes
        /\ Live(q) = Down(HeldKids(q))[Root] /\ Live(r) = Down(HeldKids(r))[Root]
    BY StepsAre, SchemaAssumption DEF LiveIn
  <2>2. ASSUME NEW n \in Down(HeldKids(q))[Root] PROVE HeldKids(q)[n] = HeldKids(r)[n]
    <3>1. n \in Nodes /\ r[n] = q[n]
      BY <1>3, <2>1, LiveNodes
    <3>2. \A k : Chosen(q, n, k) <=> Chosen(r, n, k)
      BY <3>1, MeaningLocal
    <3> QED
      BY <3>1, <3>2 DEF HeldKids
  <2> QED
    BY <2>1, <2>2, DownAgree
<1>5. ASSUME NEW x \in Live(q) PROVE Meaning(x, r) = Meaning(x, q)
  BY <1>3, LiveNodes, MeaningLocal
<1> QED
  BY <1>4, <1>5 DEF View, r


\* What a node contributes is what it has in the object itself.
LEMMA PlainNumber ==
    ASSUME NEW m \in Memory, NEW p \in Nodes, Plain(m, p), Kind(p) # "union"
    PROVE  Normal(m)[p] = m[p]
BY PlainIs DEF Stray

\* The walks of two objects of the same value are at the same field.
LEMMA SameField ==
    ASSUME NEW m \in Memory, NEW q \in Memory, View(Normal(m)) = View(Normal(q)),
           NEW p \in Live(Normal(m)), Plain(m, p), Plain(q, p),
           NEW i \in Nat \ {0}
    PROVE  /\ CountIn(m, p) = CountIn(q, p)
           /\ i <= CountIn(m, p) => (SkippedIn(m, p, i) <=> SkippedIn(q, p, i))
<1> DEFINE r == Normal(m)  s == Normal(q)  k == Schema[p].kids[i]
<1>1. p \in Nodes /\ r \in Memory /\ s \in Memory
  BY LiveNodes, NormalType
<1>2. /\ CountIn(r, p) = CountIn(m, p) /\ CountIn(s, p) = CountIn(q, p)
  BY <1>1, CountNormal
<1> HIDE DEF r, s
<1>0. View(r) = View(s) /\ p \in Live(r)
  BY DEF r, s
<1>3. /\ Live(r) = Live(s)
      /\ Kind(p) = "sized" => SeqLen(p, r) = SeqLen(p, s)
  BY <1>0, <1>1, SameValue
<1>4. CountIn(r, p) = CountIn(s, p)
  BY <1>3 DEF CountIn, SeqLen
<1>5. ASSUME i <= CountIn(m, p) PROVE SkippedIn(m, p, i) <=> SkippedIn(q, p, i)
  <2>1. k \in Kids(p) /\ (Wrapper(p) => Id(k) = i - 1)
    BY <1>1, <1>5, FieldAt
  <2>2. Kind(p) = "sized" => Id(k) < SeqLen(p, r)
    <3> SUFFICES ASSUME Kind(p) = "sized" PROVE Id(k) < SeqLen(p, r)
      OBVIOUS
    <3>1. Wrapper(p) /\ CountIn(r, p) = SeqLen(p, r) /\ CountIn(r, p) \in Nat
      BY <1>1, CountInType DEF Wrapper, CountIn
    <3> QED
      BY <1>2, <1>5, <2>1, <3>1
  <2> HIDE DEF k
  <2>3. NotHeld(r, p, k) <=> NotHeld(s, p, k)
    BY <1>0, <1>1, SameValue
  <2>4. ~NotHeld(r, p, k) => Chosen(r, p, k)
    BY <2>2 DEF Chosen
  <2>5. Chosen(r, p, k) => Chosen(s, p, k)
    BY <1>0, <1>1, SameValue
  <2>6. ~NotHeld(r, p, k) => (FreshIn(r, k) <=> FreshIn(s, k))
    <3>1. ASSUME ~NotHeld(r, p, k), FreshIn(r, k) PROVE FreshIn(s, k)
      BY <1>0, <1>1, <2>1, <2>4, <3>1, SameFresh
    <3>2. ASSUME ~NotHeld(r, p, k), FreshIn(s, k) PROVE FreshIn(r, k)
      <4>1. View(s) = View(r) /\ p \in Live(s) /\ Chosen(s, p, k)
        BY <1>0, <1>3, <2>4, <2>5, <3>2
      <4> QED
        BY <1>1, <2>1, <3>2, <4>1, SameFresh
    <3> QED
      BY <3>1, <3>2
  <2>7. IsDefault(m)[<<p, k>>] <=> NotHeld(r, p, k) \/ (~Forced(p, k) /\ FreshIn(r, k))
    BY <1>1, <2>1, SkippedByValue DEF r
  <2>8. IsDefault(q)[<<p, k>>] <=> NotHeld(s, p, k) \/ (~Forced(p, k) /\ FreshIn(s, k))
    BY <1>1, <2>1, SkippedByValue DEF s
  <2>9. IsDefault(m)[<<p, k>>] <=> IsDefault(q)[<<p, k>>]
    BY <2>3, <2>6, <2>7, <2>8
  <2> QED
    BY <1>2, <1>4, <2>9 DEF SkippedIn, k
<1> QED
  BY <1>2, <1>4, <1>5

\* And a leaf that is written is the same.
LEMMA SameLeaf ==
    ASSUME NEW m \in Memory, NEW q \in Memory, View(Normal(m)) = View(Normal(q)),
           NEW p \in Live(Normal(m)), Plain(m, p), Plain(q, p),
           NEW i \in Nat \ {0}, i <= CountIn(m, p), ~SkippedIn(m, p, i),
           NEW k, k = Schema[p].kids[i], Leaf(k)
    PROVE  /\ RefusedIn(m, k) <=> RefusedIn(q, k)
           /\ LeafToken(m, k) = LeafToken(q, k)
<1> DEFINE r == Normal(m)  s == Normal(q)
<1>1. p \in Nodes /\ r \in Memory /\ s \in Memory
  BY LiveNodes, NormalType
<1>2. i <= CountIn(q, p) /\ ~SkippedIn(q, p, i)
  BY SameField
<1>3. k \in Kids(p) /\ k \in Nodes
  BY <1>1, FieldAt
<1>4. ~NotHeld(m, p, k) /\ ~NotHeld(q, p, k)
  BY <1>1, <1>2, NotSkipped
<1>5. Chosen(r, p, k) /\ Plain(m, k) /\ Plain(q, k)
  <2>1. Chosen(r, p, k) /\ Plain(m, k)
    BY <1>1, <1>4, FieldChosen
  <2>2. Plain(q, k)
    BY <1>1, <1>3, <1>4, PlainKid
  <2> QED
    BY <2>1, <2>2
<1>6. k \in Live(r)
  BY <1>3, <1>5, LiveNext
<1>7. Meaning(k, r) = Meaning(k, s)
  <2> HIDE DEF r, s
  <2>1. View(r) = View(s)
    BY DEF r, s
  <2> QED
    BY <1>1, <1>6, <2>1, SameValue
<1>8. Kind(k) \in LeafKinds
  BY DEF Leaf
<1>9. r[k] = m[k] /\ s[k] = q[k]
  BY <1>3, <1>5, <1>8, PlainNumber DEF LeafKinds
<1>10. Used(k, m) = Used(k, q)
  <2>1. Meaning(k, r) = Used(k, r) /\ Meaning(k, s) = Used(k, s)
    BY <1>8 DEF Meaning, LeafKinds
  <2>2. Used(k, r) = Used(k, m) /\ Used(k, s) = Used(k, q)
    BY <1>9 DEF Used
  <2> QED
    BY <1>7, <2>1, <2>2
<1>11. RefusedIn(m, k) <=> RefusedIn(q, k)
  <2>1. Kind(k) = "str" => m[k] = q[k]
    BY <1>10 DEF Used
  <2> QED
    BY <2>1 DEF RefusedIn
<1> QED
  BY <1>10, <1>11 DEF LeafToken

\* So one encoder does what the other does.
LEMMA SameWalk ==
    ASSUME NEW m \in Memory, NEW q \in Memory, View(Normal(m)) = View(Normal(q)),
           NEW st, PathIn(m, st), PathIn(q, st), NEW w, NEW st2, NEW w2,
           Walk(m, st, w, st2, w2)
    PROVE  Walk(q, st, w, st2, w2)
<1> DEFINE n == Len(st)  p == st[n].node  i == st[n].i  k == Schema[p].kids[i]
<1>1. n \in Nat \ {0} /\ n \in 1..n
  BY PathType, TopType DEF PathIn
<1>2. p \in Nodes /\ i \in Nat \ {0}
  BY <1>1, PathType
<1>3. p \in Live(Normal(m)) /\ Plain(m, p) /\ Plain(q, p)
  BY <1>1 DEF PathIn
<1>4. /\ CountIn(m, p) = CountIn(q, p)
      /\ i <= CountIn(m, p) => (SkippedIn(m, p, i) <=> SkippedIn(q, p, i))
  BY <1>2, <1>3, SameField
<1>5. ASSUME i <= CountIn(m, p), ~SkippedIn(m, p, i), Leaf(k)
      PROVE  (RefusedIn(m, k) <=> RefusedIn(q, k)) /\ LeafToken(m, k) = LeafToken(q, k)
  BY <1>2, <1>3, <1>5, SameLeaf
<1>6. CASE WalkSkip(m, st, w, st2, w2)
  BY <1>4, <1>6 DEF WalkSkip, Walk
<1>7. CASE WalkLeaf(m, st, w, st2, w2)
  BY <1>4, <1>5, <1>7 DEF WalkLeaf, Walk
<1>8. CASE WalkEnter(m, st, w, st2, w2)
  BY <1>4, <1>8 DEF WalkEnter, Walk
<1>9. CASE WalkLeave(m, st, w, st2, w2)
  BY <1>4, <1>9 DEF WalkLeave, Walk
<1>10. CASE WalkFinish(m, st, w, st2, w2)
  BY <1>4, <1>10 DEF WalkFinish, Walk
<1> QED
  BY <1>6, <1>7, <1>8, <1>9, <1>10 DEF Walk

\* There is one way to go on.
LEMMA WalkOnce ==
    ASSUME NEW m, NEW st, NEW w, NEW st2, NEW w2, NEW st3, NEW w3,
           Walk(m, st, w, st2, w2), Walk(m, st, w, st3, w3)
    PROVE  st2 = st3 /\ w2 = w3
<1> DEFINE n == Len(st)  p == st[n].node  i == st[n].i
           at == i <= CountIn(m, p)
           out == SkippedIn(m, p, i)
           leaf == Leaf(Schema[p].kids[i])
<1>1. CASE at /\ out
  BY <1>1 DEF Walk, WalkSkip, WalkLeaf, WalkEnter, WalkLeave, WalkFinish
<1>2. CASE at /\ ~out /\ leaf
  BY <1>2 DEF Walk, WalkSkip, WalkLeaf, WalkEnter, WalkLeave, WalkFinish
<1>3. CASE at /\ ~out /\ ~leaf
  BY <1>3 DEF Walk, WalkSkip, WalkLeaf, WalkEnter, WalkLeave, WalkFinish
<1>4. CASE ~at /\ n > 1
  <2>1. n # 1
    BY <1>4
  <2> QED
    BY <1>4, <2>1 DEF Walk, WalkSkip, WalkLeaf, WalkEnter, WalkLeave, WalkFinish
<1>5. CASE ~at /\ ~(n > 1)
  BY <1>5 DEF Walk, WalkSkip, WalkLeaf, WalkEnter, WalkLeave, WalkFinish
<1> QED
  BY <1>1, <1>2, <1>3, <1>4, <1>5

\* Where a walk can go on nothing is refused.
LEMMA WalkNotRefused ==
    ASSUME PathIn(src, stack), NEW st2, NEW w2, Walk(src, stack, wire, st2, w2)
    PROVE  ~RefuseField
<1> SUFFICES ASSUME RefuseField PROVE FALSE
  OBVIOUS
<1> DEFINE p == stack[Len(stack)].node  i == stack[Len(stack)].i  k == Schema[p].kids[i]
<1>1. /\ Top.i <= Count(Top.node) /\ ~Skipped /\ Refused(Field)
  BY DEF RefuseField, Looping
<1>2. \A x : Count(x) = CountIn(src, x)
  BY DEF Count, CountIn
<1>3. i <= CountIn(src, p) /\ ~SkippedIn(src, p, i) /\ RefusedIn(src, k)
  BY <1>1, <1>2 DEF Top, Skipped, SkippedIn, ElementHeld, Field, Refused, RefusedIn
<1>4. Leaf(k)
  BY <1>3 DEF RefusedIn, Leaf, LeafKinds
<1> QED
  BY <1>3, <1>4 DEF Walk, WalkSkip, WalkLeaf, WalkEnter, WalkLeave, WalkFinish


-----------------------------------------------------------------------------
(* What makes Reencodes inductive.                                         *)

\* The first K steps of the walk of m.
Traced(m, tr, K) ==
    /\ tr[0][1] = <<Frame(Root)>> /\ tr[0][2] = <<>>
    /\ \A j \in 0..K - 1 :
          /\ PathIn(m, tr[j][1])
          /\ Walk(m, tr[j][1], tr[j][2], tr[j + 1][1], tr[j + 1][2])

\* The walk of m comes by; it comes by and ends with the message W.
Leads(m, st, w) ==
    \E K \in Nat : \E tr : Traced(m, tr, K) /\ tr[K][1] = st /\ tr[K][2] = w
Follows(m, st, w, W) ==
    \E K \in Nat : \E tr : \E j \in 0..K :
        /\ Traced(m, tr, K) /\ tr[K][1] = <<>> /\ tr[K][2] = W
        /\ tr[j][1] = st /\ tr[j][2] = w

LEMMA LeadsStarts ==
    ASSUME NEW m
    PROVE  Leads(m, <<Frame(Root)>>, <<>>)
<1> DEFINE tr == [j \in {0} |-> <<<<Frame(Root)>>, <<>>>>]
<1>1. tr[0][1] = <<Frame(Root)>> /\ tr[0][2] = <<>>
  OBVIOUS
<1>2. 0..0 - 1 = {} /\ 0 \in Nat
  OBVIOUS
<1> HIDE DEF tr
<1> QED
  BY <1>1, <1>2 DEF Leads, Traced

LEMMA LeadsMore ==
    ASSUME NEW m, NEW st, NEW w, Leads(m, st, w), PathIn(m, st),
           NEW st2, NEW w2, Walk(m, st, w, st2, w2)
    PROVE  Leads(m, st2, w2)
<1>1. PICK K \in Nat : \E tr : Traced(m, tr, K) /\ tr[K][1] = st /\ tr[K][2] = w
  BY DEF Leads
<1>2. PICK tr : Traced(m, tr, K) /\ tr[K][1] = st /\ tr[K][2] = w
  BY <1>1
<1> DEFINE new == [j \in 0..K + 1 |-> IF j = K + 1 THEN <<st2, w2>> ELSE tr[j]]
<1>3. /\ K + 1 \in Nat /\ 0 \in 0..K /\ K \in 0..K
      /\ new[K + 1] = <<st2, w2>> /\ \A j \in 0..K : new[j] = tr[j]
  OBVIOUS
<1> HIDE DEF new
<1>4. new[0][1] = <<Frame(Root)>> /\ new[0][2] = <<>>
  BY <1>2, <1>3 DEF Traced
<1>5. ASSUME NEW j \in 0..(K + 1) - 1
      PROVE  /\ PathIn(m, new[j][1])
             /\ Walk(m, new[j][1], new[j][2], new[j + 1][1], new[j + 1][2])
  <2>1. CASE j = K
    <3>1. new[j] = tr[K] /\ new[j + 1] = <<st2, w2>>
      BY <1>3, <2>1
    <3>2. new[j + 1][1] = st2 /\ new[j + 1][2] = w2 /\ new[j][1] = st /\ new[j][2] = w
      BY <1>2, <3>1
    <3> QED
      BY <3>2
  <2>2. CASE j # K
    <3>1. j \in 0..K - 1 /\ j \in 0..K /\ j + 1 \in 0..K
      BY <2>2
    <3>2. new[j] = tr[j] /\ new[j + 1] = tr[j + 1]
      BY <1>3, <3>1
    <3> QED
      BY <1>2, <3>1, <3>2 DEF Traced
  <2> QED
    BY <2>1, <2>2
<1>6. Traced(m, new, K + 1)
  BY <1>4, <1>5 DEF Traced
<1>7. new[K + 1][1] = st2 /\ new[K + 1][2] = w2
  BY <1>3
<1> QED
  BY <1>3, <1>6, <1>7 DEF Leads

LEMMA FollowsStarts ==
    ASSUME NEW m, NEW W, Leads(m, <<>>, W)
    PROVE  Follows(m, <<Frame(Root)>>, <<>>, W)
<1>1. PICK K \in Nat : \E tr : Traced(m, tr, K) /\ tr[K][1] = <<>> /\ tr[K][2] = W
  BY DEF Leads
<1>2. PICK tr : Traced(m, tr, K) /\ tr[K][1] = <<>> /\ tr[K][2] = W
  BY <1>1
<1>3. 0 \in 0..K /\ tr[0][1] = <<Frame(Root)>> /\ tr[0][2] = <<>>
  BY <1>2 DEF Traced
<1> QED
  BY <1>2, <1>3 DEF Follows

LEMMA FollowsMore ==
    ASSUME NEW m, NEW st, st # <<>>, NEW w, NEW W, Follows(m, st, w, W)
    PROVE  /\ PathIn(m, st)
           /\ \E st2, w2 : Walk(m, st, w, st2, w2) /\ Follows(m, st2, w2, W)
<1>1. PICK K \in Nat : \E tr : \E j \in 0..K :
         /\ Traced(m, tr, K) /\ tr[K][1] = <<>> /\ tr[K][2] = W
         /\ tr[j][1] = st /\ tr[j][2] = w
  BY DEF Follows
<1>2. PICK tr : \E j \in 0..K :
         /\ Traced(m, tr, K) /\ tr[K][1] = <<>> /\ tr[K][2] = W
         /\ tr[j][1] = st /\ tr[j][2] = w
  BY <1>1
<1>3. PICK j \in 0..K :
         /\ Traced(m, tr, K) /\ tr[K][1] = <<>> /\ tr[K][2] = W
         /\ tr[j][1] = st /\ tr[j][2] = w
  BY <1>2
<1>4. j # K
  BY <1>3
<1>5. j \in 0..K - 1 /\ j + 1 \in 0..K
  BY <1>4
<1>6. PathIn(m, st) /\ Walk(m, st, w, tr[j + 1][1], tr[j + 1][2])
  BY <1>3, <1>5 DEF Traced
<1>7. Follows(m, tr[j + 1][1], tr[j + 1][2], W)
  BY <1>3, <1>5 DEF Follows
<1> QED
  BY <1>6, <1>7

LEMMA FollowsEnds ==
    ASSUME NEW m, NEW w, NEW W, Follows(m, <<>>, w, W)
    PROVE  w = W
<1>1. PICK K \in Nat : \E tr : \E j \in 0..K :
         /\ Traced(m, tr, K) /\ tr[K][1] = <<>> /\ tr[K][2] = W
         /\ tr[j][1] = <<>> /\ tr[j][2] = w
  BY DEF Follows
<1>2. PICK tr : \E j \in 0..K :
         /\ Traced(m, tr, K) /\ tr[K][1] = <<>> /\ tr[K][2] = W
         /\ tr[j][1] = <<>> /\ tr[j][2] = w
  BY <1>1
<1>3. PICK j \in 0..K :
         /\ Traced(m, tr, K) /\ tr[K][1] = <<>> /\ tr[K][2] = W
         /\ tr[j][1] = <<>> /\ tr[j][2] = w
  BY <1>2
<1>4. j = K
  <2> SUFFICES ASSUME j # K PROVE FALSE
    OBVIOUS
  <2>1. j \in 0..K - 1
    OBVIOUS
  <2>2. PathIn(m, <<>>)
    BY <1>3, <2>1 DEF Traced
  <2> QED
    BY <2>2 DEF PathIn
<1> QED
  BY <1>3, <1>4

\* While the object received is encoded: the encoder goes where that of the
\* object sent has gone, and only a stream that is full keeps it from it.
Repeating ==
    /\ View(Normal(src)) = View(Normal(sent.obj))
    /\ errors # {} => full
    /\ errors = {} =>
          /\ Follows(sent.obj, stack, wire, sent.wire)
          /\ stack # <<>> => PathIn(src, stack)

Canonical(d) ==
    /\ TransferInductive(d)
    /\ phase = "encode" /\ errors = {} => Leads(src, stack, wire)
    /\ phase = "decode" => Leads(sent.obj, <<>>, sent.wire)
    /\ phase = "again" => Repeating

LEMMA WriteStaysFull ==
    ASSUME NEW t, NEW r \in {"ok", "full"}, Write(t, r)
    PROVE  /\ full => full'
           /\ errors = {} /\ errors' # {} => full'
<1>1. full => r = "full"
  BY DEF Write
<1>2. full' = (r = "full") /\ errors' = errors \cup ({r} \ {"ok"})
  BY DEF Write
<1>3. CASE r = "ok"
  <2>1. {r} \ {"ok"} = {}
    BY <1>3
  <2>2. errors' = errors
    BY <1>2, <2>1
  <2>3. ~full
    BY <1>1, <1>3
  <2> QED
    BY <2>2, <2>3
<1>4. CASE r = "full"
  <2>1. full'
    BY <1>2, <1>4
  <2> QED
    BY <2>1
<1> QED
  BY <1>3, <1>4

LEMMA StaysFull ==
    ASSUME Next
    PROVE  /\ full => full'
           /\ errors = {} /\ errors' # {} /\ ~RefuseField => full'
<1>1. CASE SkipField
  BY <1>1 DEF SkipField
<1>2. CASE RefuseField
  BY <1>2 DEF RefuseField
<1>3. CASE WriteField
  <2>1. PICK r \in {"ok", "full"} :
           Write([tok |-> "leaf", id |-> Id(Field), type |-> WireType(Field),
                  val |-> Used(Field, src)], r)
    BY <1>3 DEF WriteField
  <2> QED
    BY <2>1, WriteStaysFull
<1>4. CASE EnterSequence
  <2>1. PICK r \in {"ok", "full"} :
           Write([tok |-> "start", id |-> Id(Field), type |-> "start", val |-> <<>>], r)
    BY <1>4 DEF EnterSequence
  <2> QED
    BY <2>1, WriteStaysFull
<1>5. CASE LeaveSequence
  <2>1. PICK r \in {"ok", "full"} :
           Write([tok |-> "end", id |-> 0, type |-> "end", val |-> <<>>], r)
    BY <1>5 DEF LeaveSequence
  <2> QED
    BY <2>1, WriteStaysFull
<1>6. CASE Finish
  BY <1>6 DEF Finish
<1> QED
  BY <1>1, <1>2, <1>3, <1>4, <1>5, <1>6 DEF Next

LEMMA RepeatingGoesOn ==
    ASSUME Repeating, Next, src \in Memory, sent.obj \in Memory, UNCHANGED sent
    PROVE  Repeating'
<1>1. src' = src /\ stack # <<>> /\ (errors' = {} => errors = {})
  BY NextKeepsObject
<1>2. errors = {} => PathIn(src, stack)
  BY <1>1 DEF Repeating
<1>3. ASSUME errors = {}
      PROVE  \E st2, w2 : /\ Walk(src, stack, wire, st2, w2)
                          /\ Follows(sent.obj, st2, w2, sent.wire)
  <2>1. Follows(sent.obj, stack, wire, sent.wire)
    BY <1>3 DEF Repeating
  <2>2. PathIn(sent.obj, stack)
    BY <1>1, <2>1, FollowsMore
  <2>3. PICK st2, w2 : /\ Walk(sent.obj, stack, wire, st2, w2)
                       /\ Follows(sent.obj, st2, w2, sent.wire)
    BY <1>1, <2>1, FollowsMore
  <2>4. View(Normal(sent.obj)) = View(Normal(src))
    BY DEF Repeating
  <2>5. Walk(src, stack, wire, st2, w2)
    BY <1>2, <1>3, <2>2, <2>3, <2>4, SameWalk
  <2> QED
    BY <2>3, <2>5
<1>4. ASSUME errors' = {}
      PROVE  /\ Follows(sent.obj, stack', wire', sent.wire)
             /\ stack' # <<>> => PathIn(src, stack')
  <2>1. errors = {} /\ PathIn(src, stack)
    BY <1>1, <1>2, <1>4
  <2>2. Walk(src, stack, wire, stack', wire')
    BY <1>4, <2>1, WalkStep
  <2>3. PICK st2, w2 : /\ Walk(src, stack, wire, st2, w2)
                       /\ Follows(sent.obj, st2, w2, sent.wire)
    BY <1>3, <2>1
  <2>4. st2 = stack' /\ w2 = wire'
    BY <2>2, <2>3, WalkOnce
  <2>5. stack' # <<>> => PathIn(src, stack')
    BY <2>1, <2>2, WalkPath
  <2> QED
    BY <2>3, <2>4, <2>5
<1>5. ASSUME errors' # {} PROVE full'
  <2>1. CASE errors # {}
    BY <2>1, StaysFull DEF Repeating
  <2>2. CASE errors = {}
    <3>1. ~RefuseField
      BY <1>2, <1>3, <2>2, WalkNotRefused
    <3> QED
      BY <1>5, <2>2, <3>1, StaysFull
  <2> QED
    BY <2>1, <2>2
<1>6. sent' = sent
  OBVIOUS
<1>7. View(Normal(src')) = View(Normal(sent'.obj))
  BY <1>1, <1>6 DEF Repeating
<1> QED
  BY <1>1, <1>4, <1>5, <1>6, <1>7 DEF Repeating


LEMMA CanonicalInit ==
    ASSUME NEW objects, objects \in SUBSET Memory, \A m \in objects : Fit(m),
           NEW d \in Depths, TransferInit(objects)
    PROVE  Canonical(d)
<1>1. TransferInductive(d)
  BY TransferInitStep
<1>2. phase = "encode" /\ stack = <<Frame(Root)>> /\ wire = <<>>
  BY DEF TransferInit, Init
<1>3. Leads(src, stack, wire)
  BY <1>2, LeadsStarts
<1> QED
  BY <1>1, <1>2, <1>3 DEF Canonical

LEMMA EncodeStepIsCanonical ==
    ASSUME NEW d \in Depths, Canonical(d), Encode
    PROVE  Canonical(d)'
<1>1. /\ Next /\ phase' = phase /\ sent' = sent /\ phase \in {"encode", "again"}
      /\ TransferInductive(d)
  BY DEF Encode, Canonical
<1>2. TransferInductive(d)'
  BY <1>1, EncodeStepKeeps
<1>3. src' = src /\ stack # <<>> /\ (errors' = {} => errors = {})
  BY <1>1, NextKeepsObject
<1>4. src \in Memory /\ sent.obj \in Memory
  BY <1>1 DEF TransferInductive, Inductive, TypeOK
<1>5. ASSUME phase = "encode", errors' = {} PROVE Leads(src', stack', wire')
  <2>1. errors = {} /\ Departing(d) /\ Leads(src, stack, wire)
    BY <1>1, <1>3, <1>5 DEF Canonical, TransferInductive
  <2>2. PathIn(src, stack)
    BY <1>3, <2>1 DEF Departing, SendingOf
  <2>3. Walk(src, stack, wire, stack', wire')
    BY <1>1, <1>4, <1>5, <2>2, WalkStep
  <2>4. Leads(src, stack', wire')
    BY <2>1, <2>2, <2>3, LeadsMore
  <2> QED
    BY <1>3, <2>4
<1>6. ASSUME phase = "again" PROVE Repeating'
  <2>1. Repeating
    BY <1>6 DEF Canonical
  <2> QED
    BY <1>1, <1>4, <2>1, RepeatingGoesOn
<1>7. phase' = "encode" /\ errors' = {} => Leads(src, stack, wire)'
  BY <1>1, <1>5
<1> QED
  BY <1>1, <1>2, <1>6, <1>7 DEF Canonical

\* What is sent is where the walk of the object ends.
LEMMA SendStepIsCanonical ==
    ASSUME NEW d \in Depths, Canonical(d), Send
    PROVE  Canonical(d)'
<1>1. /\ phase = "encode" /\ result = "ok" /\ phase' = "decode"
      /\ sent' = [sent EXCEPT !.wire = wire] /\ TransferInductive(d)
  BY DEF Send, Canonical
<1>2. TransferInductive(d)'
  BY <1>1, SendStepKeeps
<1>3. sent \in [obj : Memory, wire : Seq(Token)] /\ Departing(d)
  BY <1>1 DEF TransferInductive
<1>4. sent'.obj = sent.obj /\ sent'.wire = wire /\ sent.obj = src
  BY <1>1, <1>3 DEF Departing
<1>5. errors = {} /\ stack = <<>>
  <2>1. Gravest(errors) = "ok" /\ errors \subseteq Errors /\ stack = <<>>
    BY <1>1 DEF TransferInductive, Inductive, ErrorsSurface, TypeOK, WalkEnds
  <2> QED
    BY <2>1 DEF Gravest, Errors
<1>6. Leads(src, stack, wire)
  BY <1>1, <1>5 DEF Canonical
<1>7. Leads(sent'.obj, <<>>, sent'.wire)
  BY <1>4, <1>5, <1>6
<1> QED
  BY <1>1, <1>2, <1>7 DEF Canonical

LEMMA DeliverStepIsCanonical ==
    ASSUME NEW d \in Depths, Canonical(d), Deliver
    PROVE  Canonical(d)'
<1>1. phase = "decode" /\ phase' = phase /\ sent' = sent /\ TransferInductive(d)
  BY DEF Deliver, Canonical
<1>2. TransferInductive(d)'
  BY <1>1, DeliverStepKeeps
<1>3. Leads(sent.obj, <<>>, sent.wire)
  BY <1>1 DEF Canonical
<1>4. Leads(sent'.obj, <<>>, sent'.wire)
  BY <1>1, <1>3
<1> QED
  BY <1>1, <1>2, <1>4 DEF Canonical

LEMMA EncodeAgainIsCanonical ==
    ASSUME NEW d \in Depths, Canonical(d), EncodeAgain
    PROVE  Canonical(d)'
<1>1. /\ Arrived /\ phase = "decode" /\ phase' = "again" /\ sent' = sent /\ src' = obj
      /\ stack' = <<Frame(Root)>> /\ wire' = <<>> /\ errors' = {}
      /\ TransferInductive(d)
  BY DEF EncodeAgain, Arrived, Canonical
<1>2. TransferInductive(d)'
  BY <1>1, EncodeAgainStepKeeps
<1>3. obj \in Memory /\ sent.obj \in Memory
  BY <1>1 DEF TransferInductive, DecodeInductive, DecodeTypeOK
<1>4. View(obj) = View(Normal(sent.obj))
  <2>1. RoundTrip
    BY <1>1, TransferIsRoundTrip
  <2> QED
    BY <1>1, <2>1 DEF RoundTrip
<1>5. View(Normal(obj)) = View(Normal(sent.obj))
  BY <1>3, <1>4, SettledView
<1>6. Leads(sent.obj, <<>>, sent.wire)
  BY <1>1 DEF Canonical
<1>7. Follows(sent.obj, <<Frame(Root)>>, <<>>, sent.wire)
  BY <1>6, FollowsStarts
<1>8. PathIn(obj, <<Frame(Root)>>)
  BY <1>3, PathStarts
<1>9. View(Normal(src')) = View(Normal(sent'.obj))
  BY <1>1, <1>5
<1>10. /\ Follows(sent'.obj, stack', wire', sent'.wire)
       /\ PathIn(src', stack')
  BY <1>1, <1>7, <1>8
<1>11. Repeating'
  BY <1>1, <1>9, <1>10 DEF Repeating
<1> QED
  BY <1>1, <1>2, <1>11 DEF Canonical

LEMMA CanonicalStep ==
    ASSUME NEW d \in Depths, Canonical(d), [TransferNext]_transferVars
    PROVE  Canonical(d)'
<1>1. CASE TransferNext
  BY <1>1, EncodeStepIsCanonical, SendStepIsCanonical, DeliverStepIsCanonical,
     EncodeAgainIsCanonical DEF TransferNext
<1>2. CASE UNCHANGED transferVars
  <2>1. TransferInductive(d)'
    BY <1>2, TransferStep DEF Canonical
  <2>2. /\ phase' = phase /\ sent' = sent /\ src' = src /\ stack' = stack
        /\ wire' = wire /\ errors' = errors /\ full' = full
    BY <1>2 DEF transferVars, vars
  <2>3. Leads(src, stack, wire) => Leads(src, stack, wire)'
    BY <2>2
  <2>4. Leads(sent.obj, <<>>, sent.wire) => Leads(sent.obj, <<>>, sent.wire)'
    BY <2>2
  <2>5. Repeating => Repeating'
    BY <2>2 DEF Repeating
  <2> QED
    BY <2>1, <2>2, <2>3, <2>4, <2>5 DEF Canonical
<1> QED
  BY <1>1, <1>2

LEMMA CanonicalReencodes ==
    ASSUME NEW d \in Depths, Canonical(d)
    PROVE  Reencodes
<1> SUFFICES ASSUME phase = "again", result # "none", ~full
             PROVE  result = "ok" /\ wire = sent.wire
  BY DEF Reencodes
<1>1. Repeating /\ TransferInductive(d)
  BY DEF Canonical
<1>2. errors = {} /\ stack = <<>> /\ result = Gravest(errors)
  BY <1>1 DEF Repeating, TransferInductive, Inductive, WalkEnds, ErrorsSurface
<1>3. result = "ok"
  BY <1>2 DEF Gravest
<1>4. Follows(sent.obj, <<>>, wire, sent.wire)
  BY <1>1, <1>2 DEF Repeating
<1>5. wire = sent.wire
  BY <1>4, FollowsEnds
<1> QED
  BY <1>3, <1>5

\* For every schema and every object: what a receiver has made of a message
\* encodes to that message, token by token, unless the stream runs out of
\* room.
THEOREM EncodingIsCanonical ==
    ASSUME NEW CONSTANT objects, objects \in SUBSET Memory, \A m \in objects : Fit(m),
           NEW CONSTANT d \in Depths
    PROVE  TransferSpec(objects) => []Reencodes
<1>1. TransferInit(objects) => Canonical(d)
  BY CanonicalInit
<1>2. Canonical(d) /\ [TransferNext]_transferVars => Canonical(d)'
  BY CanonicalStep
<1>3. Canonical(d) => Reencodes
  BY CanonicalReencodes
<1> QED
  BY <1>1, <1>2, <1>3, PTL DEF TransferSpec
=============================================================================
