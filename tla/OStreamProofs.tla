--------------------------- MODULE OStreamProofs ---------------------------
(***************************************************************************)
(* Theorems about the encoder of module OStream, for every buffer size,    *)
(* sink, set of ids and hold-back window.                                  *)
(***************************************************************************)
EXTENDS OStreamWire, SequenceTheorems, FiniteSetTheorems, TLAPS

-----------------------------------------------------------------------------
(* Lemmas about the operators the actions are built from.                  *)

LEMMA FrontType ==
    ASSUME NEW S, NEW s \in Seq(S)
    PROVE  /\ Front(s) \in Seq(S)
           /\ Len(s) > 0 => Len(Front(s)) = Len(s) - 1
           /\ Len(Front(s)) <= Len(s)
<1>1. Len(s) \in Nat /\ \A i \in 1..Len(s) - 1 : s[i] \in S
  OBVIOUS
<1>2. /\ Front(s) \in Seq(S)
      /\ Len(Front(s)) = IF 1 <= Len(s) - 1 THEN Len(s) - 1 ELSE 0
  <2> DEFINE n == Len(s) - 1
  <2>1. n \in Int /\ \A i \in 1..n : s[i] \in S
    BY <1>1
  <2> HIDE DEF n
  <2>2. SubSeq(s, 1, n) \in Seq(S) /\ Len(SubSeq(s, 1, n)) = IF 1 <= n THEN n - 1 + 1 ELSE 0
    BY <2>1, SubSeqProperties
  <2>3. Front(s) = SubSeq(s, 1, n)
    BY DEF Front, n
  <2> QED
    BY <2>1, <2>2, <2>3 DEF n
<1>3. ASSUME NEW l \in Nat, NEW m, m = IF 1 <= l - 1 THEN l - 1 ELSE 0
      PROVE  (l > 0 => m = l - 1) /\ m <= l
  BY <1>3
<1> QED
  BY <1>1, <1>2, <1>3

LEMMA FrontConcat ==
    ASSUME NEW S, NEW s \in Seq(S), NEW t \in Seq(S), t # <<>>
    PROVE  Front(s \o t) = s \o Front(t)
<1>1. /\ Front(s \o t) \in Seq(S)
      /\ Len(Front(s \o t)) = Len(s) + Len(t) - 1
      /\ \A i \in 1..Len(s) + Len(t) - 1 : Front(s \o t)[i] = (s \o t)[i]
  BY DEF Front
<1>2. /\ s \o Front(t) \in Seq(S)
      /\ Len(s \o Front(t)) = Len(s) + Len(t) - 1
      /\ \A i \in 1..Len(s) + Len(t) - 1 : (s \o Front(t))[i] = (s \o t)[i]
  BY DEF Front
<1> QED
  BY <1>1, <1>2, SeqEqual

LEMMA AppendConcat ==
    ASSUME NEW s \in Seq(Ids), NEW t \in Seq(Ids), NEW e \in Ids
    PROVE  Append(s \o t, e) = s \o Append(t, e)
<1>1. /\ Append(s \o t, e) \in Seq(Ids)
      /\ Len(Append(s \o t, e)) = Len(s) + Len(t) + 1
      /\ s \o Append(t, e) \in Seq(Ids)
      /\ Len(s \o Append(t, e)) = Len(s) + Len(t) + 1
  OBVIOUS
<1>2. \A i \in 1..Len(s) + Len(t) + 1 : Append(s \o t, e)[i] = (s \o Append(t, e))[i]
  OBVIOUS
<1> QED
  BY <1>1, <1>2, SeqEqual

LEMMA HeadMoves ==
    ASSUME NEW S, NEW s \in Seq(S), NEW t \in Seq(S), t # <<>>
    PROVE  Append(s, Head(t)) \o Tail(t) = s \o t
BY SeqEqual

LEMMA BytesType ==
    ASSUME NEW tok \in Tokens, NEW id \in Ids, NEW n \in Nat
    PROVE  /\ Bytes(tok, id, n) \in Seq(Byte)
           /\ Len(Bytes(tok, id, n)) = n
           /\ \A i \in 1..n :
                 Bytes(tok, id, n)[i] = [tok |-> tok, id |-> id, i |-> i, n |-> n]
BY DEF Bytes, Byte

LEMMA ReservedType ==
    ASSUME NEW k \in Nat
    PROVE  /\ Reserved(k) \in Seq(Byte)
           /\ Len(Reserved(k)) = k
           /\ \A i \in 1..k : Reserved(k)[i].tok = "reserved"
BY DEF Reserved, Byte, Tokens

LEMMA EndMarkerType ==
    ASSUME NEW tok \in Tokens
    PROVE  /\ EndMarker(tok) \in Seq(Byte)
           /\ Len(EndMarker(tok)) = 1
           /\ EndMarker(tok)[1] = [tok |-> tok, id |-> 0, i |-> 1, n |-> 1]
BY DEF EndMarker, Byte

LEMMA AfterSinkType ==
    ASSUME TypeOK, NEW inst \in Installs \cup {Keep}
    PROVE  /\ AfterSink(inst).buf \in Seq(Byte)
           /\ AfterSink(inst).cap \in Nat
           /\ AfterSink(inst).rsv \in Nat
           /\ Len(AfterSink(inst).buf) <= AfterSink(inst).cap
BY OStreamAssumption, ReservedType DEF TypeOK, AfterSink, Keep

LEMMA NextByteType ==
    ASSUME TypeOK, HasByte
    PROVE  NextByte \in Byte
<1>1. CASE phase = "commit"
  <2> DEFINE h == Head(pending)
  <2>0. pending \in Seq(Ids) /\ pending # <<>> /\ hpos \in Nat /\ hpos < IdLen[h]
    BY <1>1 DEF TypeOK
  <2>a. h \in Ids
    BY <2>0
  <2>b. IdLen \in [Ids -> Nat \ {0}]
    BY OStreamAssumption
  <2>1. h \in Ids /\ IdLen[h] \in Nat /\ hpos + 1 \in 1..IdLen[h]
    <3> HIDE DEF h
    <3> QED BY <2>0, <2>a, <2>b
  <2>2. NextByte = Bytes("held", h, IdLen[h])[hpos + 1]
    BY <1>1 DEF NextByte
  <2> HIDE DEF h
  <2>3. NextByte = [tok |-> "held", id |-> h, i |-> hpos + 1, n |-> IdLen[h]]
    BY <2>1, <2>2, BytesType DEF Tokens
  <2> QED
    BY <2>1, <2>3 DEF Tokens, Byte, TypeOK
<1>2. CASE phase # "commit"
  BY <1>2 DEF HasByte, NextByte, TypeOK
<1> QED
  BY <1>1, <1>2

-----------------------------------------------------------------------------
(* Type correctness.                                                       *)

LEMMA AdvanceType ==
    ASSUME TypeOK, HasByte, Advance
    PROVE  /\ pending' \in Seq(Ids)
           /\ Len(pending') <= LAZY_SEQ_DEPTH
           /\ phase' \in {"idle", "commit", "emit"}
           /\ phase' = "commit" => pending' # <<>> /\ hpos' < IdLen[Head(pending')]
           /\ phase' # "commit" => hpos' = 0
           /\ hpos' \in Nat
           /\ todo' \in Seq(Byte)
<1>1. CASE phase = "commit" /\ hpos + 1 < IdLen[Head(pending)] /\ hpos' = hpos + 1
           /\ UNCHANGED <<pending, phase, todo>>
  BY <1>1 DEF TypeOK
<1>2. CASE phase = "commit" /\ hpos' = 0 /\ pending' = Tail(pending)
           /\ phase' = (IF Len(pending) = 1 THEN "emit" ELSE "commit") /\ UNCHANGED todo
  <2>1. pending \in Seq(Ids) /\ pending # <<>>
    BY <1>2 DEF TypeOK
  <2>2. pending' \in Seq(Ids) /\ Len(pending') = Len(pending) - 1
    BY <1>2, <2>1
  <2>3. Len(pending) <= LAZY_SEQ_DEPTH /\ todo \in Seq(Byte) /\ LAZY_SEQ_DEPTH \in Nat
    BY OStreamAssumption DEF TypeOK
  <2>4. phase' = "commit" => pending' # <<>> /\ 0 < IdLen[Head(pending')]
    <3> SUFFICES ASSUME phase' = "commit"
                 PROVE  pending' # <<>> /\ 0 < IdLen[Head(pending')]
      OBVIOUS
    <3>0. Len(pending) # 1
      BY <1>2
    <3>1. pending' # <<>>
      <4>1. Len(pending) # 0
        BY <2>1, EmptySeq
      <4>2. Len(pending) \in Nat /\ Len(pending') # 0
        BY <2>1, <2>2, <3>0, <4>1
      <4> QED
        BY <4>2
    <3>2. Head(pending') \in Ids
      BY <2>2, <3>1, HeadTailProperties
    <3>3. IdLen[Head(pending')] \in Nat \ {0}
      BY <3>2, OStreamAssumption
    <3> QED
      BY <3>1, <3>3
  <2> QED
    BY <1>2, <2>2, <2>3, <2>4
<1>3. CASE phase = "emit" /\ todo' = Tail(todo) /\ UNCHANGED <<pending, phase, hpos>>
  BY <1>3 DEF HasByte, TypeOK
<1> QED
  BY <1>1, <1>2, <1>3 DEF Advance

LEMMA FramingType ==
    ASSUME TypeOK, NEW b \in Byte, Framing(b),
           b.tok \in {"held", "start"} => b.id \in Ids
    PROVE  framed' \in Seq(Ids)
<1>1. framed \in Seq(Ids)
  BY DEF TypeOK
<1>2. Front(framed) \in Seq(Ids)
  BY <1>1, FrontType
<1> QED
  BY <1>1, <1>2 DEF Framing

-----------------------------------------------------------------------------
(* Every public call is one of six effects.                                *)

StartOK(kind, id, bytes, result) ==
    /\ [kind |-> kind, id |-> id, result |-> result] \in
          [kind : {"field", "begin", "end", "stray"}, id : Ids \cup {0}, result : {"ok", "arg"}]
    /\ bytes \in Seq(Byte)
    /\ BytesOfCall([kind |-> kind, id |-> id, result |-> result], bytes)
    /\ InOrder(bytes, result)
    /\ bytes # <<>> => bytes[1].i = 1
    /\ result = "ok" => bytes # <<>>

\* Only a call that finds nothing held back queues the marker of sequence_end.
StartFits(kind, bytes) ==
    /\ kind = "end" => nest # <<>>
    /\ kind = "stray" => nest = <<>>
    /\ bytes # <<>> /\ bytes[1].tok = "end" => pending = <<>>

Starts ==
    \E kind, id, bytes, result :
        /\ Start(kind, id, bytes, result)
        /\ StartOK(kind, id, bytes, result)
        /\ StartFits(kind, bytes)

FieldStarts ==
    \E id, bytes, result :
        Start("field", id, bytes, result) /\ StartOK("field", id, bytes, result)

LEMMA FieldBytes ==
    ASSUME NEW id \in Ids, NEW m \in Nat, NEW k \in 0..m, k > 0,
           NEW result \in {"ok", "arg"}, result = "ok" => k = m
    PROVE  StartOK("field", id, SubSeq(Bytes("field", id, m), 1, k), result)
<1> DEFINE all == Bytes("field", id, m)
           some == SubSeq(all, 1, k)
<1>1. /\ all \in Seq(Byte) /\ Len(all) = m
      /\ \A j \in 1..m : all[j] = [tok |-> "field", id |-> id, i |-> j, n |-> m]
  BY BytesType DEF Tokens
<1> HIDE DEF all
<1>2. k \in Nat /\ k <= Len(all) /\ \A j \in 1..k : all[j] \in Byte
  BY <1>1
<1>3. /\ some \in Seq(Byte) /\ Len(some) = k
      /\ \A j \in 1..k : some[j] = all[j]
  BY <1>1, <1>2, SubSeqProperties
<1> HIDE DEF some
<1>4. ASSUME NEW j \in 1..k
      PROVE  some[j] = [tok |-> "field", id |-> id, i |-> j, n |-> m]
  BY <1>1, <1>2, <1>3
<1>5. ASSUME NEW j \in 1..k
      PROVE  some[j].tok = "field" /\ some[j].id = id /\ some[j].i = j /\ some[j].n = m
  <2>1. some[j] = [tok |-> "field", id |-> id, i |-> j, n |-> m]
    BY <1>4
  <2> QED
    BY <2>1
<1>6. ASSUME NEW j \in 1..Len(some) - 1
      PROVE  some[j + 1] = Continued(some[j])
  <2>1. j \in 1..k /\ j + 1 \in 1..k
    BY <1>2, <1>3
  <2>2. /\ some[j] = [tok |-> "field", id |-> id, i |-> j, n |-> m]
        /\ some[j + 1] = [tok |-> "field", id |-> id, i |-> j + 1, n |-> m]
    BY <1>4, <2>1
  <2> QED
    BY <2>2 DEF Continued
<1>7. InOrder(some, result)
  BY <1>3, <1>5, <1>6 DEF InOrder
<1>8. 1 \in 1..k /\ some # <<>>
  BY <1>2, <1>3
<1>9. BytesOfCall([kind |-> "field", id |-> id, result |-> result], some)
  BY <1>3, <1>5 DEF BytesOfCall
<1>10. StartOK("field", id, some, result)
  BY <1>3, <1>5, <1>7, <1>8, <1>9 DEF StartOK
<1> QED
  BY <1>10 DEF some, all

LEMMA FieldStart ==
    ASSUME NEW id \in Ids \cup {BadId}, NEW total \in Nat, NEW pushed \in 0..total,
           NEW result \in {"ok", "arg"}, result = "ok" => pushed = total,
           WriteField(id, total, pushed, result)
    PROVE  Refuse \/ FieldStarts
<1>1. CASE id \notin Ids
  BY <1>1 DEF WriteField
<1>2. CASE id \in Ids
  <2> DEFINE m == IdLen[id] + total
             k == IdLen[id] + pushed
             some == SubSeq(Bytes("field", id, m), 1, k)
  <2>1. IdLen[id] \in Nat /\ IdLen[id] > 0
    BY <1>2, OStreamAssumption
  <2>2. m \in Nat /\ k \in 0..m /\ k > 0 /\ (result = "ok" => k = m)
    BY <2>1
  <2>3. Start("field", id, some, result)
    BY <1>2 DEF WriteField
  <2> HIDE DEF m, k
  <2>4. StartOK("field", id, some, result)
    BY <1>2, <2>2, FieldBytes
  <2> HIDE DEF some
  <2> QED
    BY <2>3, <2>4 DEF FieldStarts
<1> QED
  BY <1>1, <1>2

LEMMA OpenerStart ==
    ASSUME NEW id \in Ids
    PROVE  StartOK("begin", id, Bytes("start", id, IdLen[id]), "ok")
<1> DEFINE n == IdLen[id]
           bytes == Bytes("start", id, n)
<1>1. n \in Nat \ {0} /\ "start" \in Tokens
  BY OStreamAssumption DEF Tokens
<1> HIDE DEF n
<1>2. /\ bytes \in Seq(Byte)
      /\ Len(bytes) = n
      /\ \A i \in 1..n : bytes[i] = [tok |-> "start", id |-> id, i |-> i, n |-> n]
  BY <1>1, BytesType
<1> HIDE DEF bytes
<1>3. bytes # <<>> /\ 1 \in 1..n
  BY <1>1, <1>2
<1>4. ASSUME NEW j \in 1..n
      PROVE  /\ bytes[j].tok = "start" /\ bytes[j].id = id
             /\ bytes[j].i = j /\ bytes[j].n = n
  <2>1. bytes[j] = [tok |-> "start", id |-> id, i |-> j, n |-> n]
    BY <1>2
  <2> QED
    BY <2>1
<1>5. ASSUME NEW j \in 1..Len(bytes) - 1
      PROVE  bytes[j + 1] = Continued(bytes[j])
  <2>1. j \in 1..n /\ j + 1 \in 1..n
    BY <1>1, <1>2
  <2>2. /\ bytes[j] = [tok |-> "start", id |-> id, i |-> j, n |-> n]
        /\ bytes[j + 1] = [tok |-> "start", id |-> id, i |-> j + 1, n |-> n]
    BY <1>2, <2>1
  <2> QED
    BY <2>2 DEF Continued
<1>6. InOrder(bytes, "ok")
  BY <1>2, <1>4, <1>5 DEF InOrder
<1>7. BytesOfCall([kind |-> "begin", id |-> id, result |-> "ok"], bytes)
  BY <1>2, <1>4 DEF BytesOfCall
<1>8. StartOK("begin", id, bytes, "ok")
  BY <1>2, <1>3, <1>4, <1>6, <1>7 DEF StartOK
<1> QED
  BY <1>8 DEF bytes, n

LEMMA CloserStart ==
    ASSUME NEW tok \in {"end", "keep"}
    PROVE  StartOK("end", 0, EndMarker(tok), "ok")
<1>1. tok \in Tokens
  BY DEF Tokens
<1>2. /\ EndMarker(tok) \in Seq(Byte)
      /\ Len(EndMarker(tok)) = 1
      /\ EndMarker(tok)[1] = [tok |-> tok, id |-> 0, i |-> 1, n |-> 1]
  BY <1>1, EndMarkerType
<1>3. EndMarker(tok)[1].tok = tok /\ EndMarker(tok)[1].i = 1 /\ EndMarker(tok)[1].n = 1
  <2>1. EndMarker(tok)[1] = [tok |-> tok, id |-> 0, i |-> 1, n |-> 1]
    BY <1>2
  <2> QED
    BY <2>1
<1>4. EndMarker(tok) # <<>>
  BY DEF EndMarker
<1>5. InOrder(EndMarker(tok), "ok")
  BY <1>2, <1>3 DEF InOrder
<1>6. BytesOfCall([kind |-> "end", id |-> 0, result |-> "ok"], EndMarker(tok))
  BY <1>2, <1>3 DEF BytesOfCall
<1> QED
  BY <1>2, <1>3, <1>4, <1>5, <1>6 DEF StartOK

LEMMA StrayStart ==
    StartOK("stray", 0, EndMarker("stray"), "ok")
<1>1. "stray" \in Tokens
  BY DEF Tokens
<1>2. /\ EndMarker("stray") \in Seq(Byte)
      /\ Len(EndMarker("stray")) = 1
      /\ EndMarker("stray")[1] = [tok |-> "stray", id |-> 0, i |-> 1, n |-> 1]
  BY <1>1, EndMarkerType
<1>3. EndMarker("stray")[1].tok = "stray" /\ EndMarker("stray")[1].i = 1 /\ EndMarker("stray")[1].n = 1
  <2>1. EndMarker("stray")[1] = [tok |-> "stray", id |-> 0, i |-> 1, n |-> 1]
    BY <1>2
  <2> QED
    BY <2>1
<1>4. EndMarker("stray") # <<>>
  BY DEF EndMarker
<1>5. InOrder(EndMarker("stray"), "ok")
  BY <1>2, <1>3 DEF InOrder
<1>6. BytesOfCall([kind |-> "stray", id |-> 0, result |-> "ok"], EndMarker("stray"))
  <2> DEFINE o == [kind |-> "stray", id |-> 0, result |-> "ok"]
  <2>1. o.kind = "stray" /\ o.result = "ok"
    OBVIOUS
  <2>2. \A j \in 1..Len(EndMarker("stray")) : EndMarker("stray")[j].tok = "stray"
    BY <1>2, <1>3
  <2> HIDE DEF o
  <2>3. BytesOfCall(o, EndMarker("stray"))
    BY <1>2, <2>1, <2>2 DEF BytesOfCall
  <2> QED
    BY <2>3 DEF o
<1> QED
  BY <1>2, <1>3, <1>4, <1>5, <1>6 DEF StartOK

\* Neither a field nor an opener queues an end marker.
LEMMA StartsFit ==
    ASSUME NEW kind \in {"field", "begin"}, NEW id, NEW bytes, NEW result,
           StartOK(kind, id, bytes, result)
    PROVE  StartFits(kind, bytes)
<1>1. ASSUME bytes # <<>>
      PROVE  bytes[1].tok # "end"
  <2>1. bytes \in Seq(Byte)
    BY DEF StartOK
  <2>2. 1 \in 1..Len(bytes)
    BY <1>1, <2>1
  <2> QED
    BY <2>2 DEF StartOK, BytesOfCall
<1> QED
  BY <1>1 DEF StartFits

LEMMA CallEffects ==
    ASSUME TypeOK, Call
    PROVE  \/ Refuse
           \/ Starts
           \/ \E id \in Ids : Len(pending) < LAZY_SEQ_DEPTH /\ HoldBack(id)
           \/ pending # <<>> /\ DropHeld
           \/ \E inst \in Installs \cup {Keep} : Flush(inst)
           \/ \E inst \in Installs : BufferSet(inst)
<1>1. ASSUME NEW id \in Ids \cup {BadId}, NEW n \in BodyLens,
             \/ n > 0 /\ WriteScalar(id, n)
             \/ \E valid \in BOOLEAN : WriteFixlen(id, n, valid)
             \/ \E good \in BOOLEAN : WriteVarintArray(id, n, good)
             \/ WriteFixlenArray(id, n)
      PROVE  Refuse \/ Starts
  <2>1. n \in Nat
    BY OStreamAssumption
  <2>2. \A total \in Nat : \A pushed \in 0..total : \A result \in {"ok", "arg"} :
           (result = "ok" => pushed = total) /\ WriteField(id, total, pushed, result)
              => Refuse \/ Starts
    BY FieldStart, StartsFit DEF FieldStarts, Starts
  <2>3. CASE WriteScalar(id, n)
    <3>1. n \in 0..n
      BY <2>1
    <3> QED
      BY <2>1, <2>2, <2>3, <3>1 DEF WriteScalar
  <2>4. 1 + n \in Nat /\ 1 + n \in 0..1 + n /\ 1 \in 0..1 + n
    BY <2>1
  <2>5. CASE \E valid \in BOOLEAN : WriteFixlen(id, n, valid)
    BY <2>2, <2>4, <2>5 DEF WriteFixlen
  <2>6. CASE \E good \in BOOLEAN : WriteVarintArray(id, n, good)
    BY <2>2, <2>4, <2>6 DEF WriteVarintArray
  <2>7. CASE WriteFixlenArray(id, n)
    <3>1. 2 + n \in Nat /\ 2 + n \in 0..2 + n
      BY <2>1
    <3> QED
      BY <2>2, <2>7, <3>1 DEF WriteFixlenArray
  <2> QED
    BY <1>1, <2>3, <2>5, <2>6, <2>7
<1>2. ASSUME NEW id \in Ids \cup {BadId}, SequenceBegin(id)
      PROVE  Starts
  <2>1. StartOK("begin", 0, <<>>, "arg")
    BY DEF StartOK, BytesOfCall, InOrder
  <2> QED
    BY <1>2, <2>1, OpenerStart, StartsFit DEF SequenceBegin, Starts
<1>3. ASSUME NEW id \in Ids \cup {BadId}, SequenceBeginLazy(id)
      PROVE  \/ Refuse
             \/ Starts
             \/ \E id1 \in Ids : Len(pending) < LAZY_SEQ_DEPTH /\ HoldBack(id1)
  BY <1>3, OpenerStart, StartsFit DEF SequenceBeginLazy, Starts
<1>4. CASE SequenceEndKeep
  <2>1. StartFits("end", EndMarker("keep"))
    BY <1>4 DEF SequenceEndKeep, StartFits, EndMarker
  <2> QED
    BY <1>4, <2>1, CloserStart DEF SequenceEndKeep, Starts
<1>5. CASE SequenceEnd
  <2>1. pending = <<>> => StartFits("end", EndMarker("end"))
    BY <1>5 DEF SequenceEnd, StartFits
  <2> QED
    BY <1>5, <2>1, CloserStart DEF SequenceEnd, Starts
<1> QED
  BY <1>1, <1>2, <1>3, <1>4, <1>5 DEF Call

-----------------------------------------------------------------------------
(* What a pushed byte does to everything but the buffer.                   *)

LEMMA TailOfCall ==
    ASSUME NEW o, NEW t \in Seq(Byte), t # <<>>, BytesOfCall(o, t)
    PROVE  BytesOfCall(o, Tail(t))
<1>1. /\ Len(t) \in Nat
      /\ Len(Tail(t)) = Len(t) - 1
      /\ \A j \in 1..Len(Tail(t)) : Tail(t)[j] = t[j + 1]
  BY HeadTailProperties
<1>2. \A j \in 1..Len(Tail(t)) : j + 1 \in 1..Len(t) /\ (j = Len(Tail(t)) <=> j + 1 = Len(t))
  BY <1>1
<1>3. o.kind = "field" => \A j \in 1..Len(Tail(t)) : Tail(t)[j].tok = "field"
  BY <1>1, <1>2 DEF BytesOfCall
<1>4. ASSUME o.kind = "begin"
      PROVE  /\ o.result = "ok" /\ o.id \in Ids
             /\ \A j \in 1..Len(Tail(t)) :
                   /\ Tail(t)[j].tok = "start"
                   /\ Tail(t)[j].id = o.id
                   /\ Tail(t)[j].i = Tail(t)[j].n <=> j = Len(Tail(t))
  BY <1>1, <1>2, <1>4 DEF BytesOfCall
<1>5. ASSUME o.kind \in {"end", "stray"}
      PROVE  /\ o.result = "ok"
             /\ Len(Tail(t)) <= 1
             /\ \A j \in 1..Len(Tail(t)) :
                   Tail(t)[j].tok \in IF o.kind = "end" THEN {"end", "keep"} ELSE {"stray"}
  <2> DEFINE toks == IF o.kind = "end" THEN {"end", "keep"} ELSE {"stray"}
  <2>1. /\ o.result = "ok" /\ Len(t) <= 1
        /\ \A j \in 1..Len(t) : t[j].tok \in toks
    BY <1>5 DEF BytesOfCall
  <2> HIDE DEF toks
  <2>2. Len(Tail(t)) <= 1 /\ \A j \in 1..Len(Tail(t)) : Tail(t)[j].tok \in toks
    BY <1>1, <1>2, <2>1
  <2> QED
    BY <2>1, <2>2 DEF toks
<1> QED
  BY <1>3, <1>4, <1>5 DEF BytesOfCall

LEMMA NextByteKind ==
    ASSUME Inductive, HasByte
    PROVE  /\ NextByte \in Byte
           /\ NextByte.tok # "reserved"
           /\ NextByte.tok \in {"held", "start"} => NextByte.id \in Ids
           /\ phase = "commit" =>
                 /\ NextByte.tok = "held"
                 /\ NextByte.id = Head(pending)
                 /\ NextByte.i = hpos + 1
                 /\ NextByte.n = IdLen[Head(pending)]
           /\ phase # "commit" => todo # <<>> /\ NextByte = todo[1]
<1>1. TypeOK /\ NextByte \in Byte
  BY NextByteType DEF Inductive
<1>2. CASE phase = "commit"
  <2> DEFINE h == Head(pending)
  <2>1. h \in Ids
    BY <1>1, <1>2, HeadTailProperties DEF TypeOK
  <2>2. hpos \in Nat /\ hpos < IdLen[h]
    BY <1>1, <1>2 DEF TypeOK
  <2>3. NextByte = Bytes("held", h, IdLen[h])[hpos + 1]
    BY <1>2 DEF NextByte
  <2>4. IdLen \in [Ids -> Nat \ {0}] /\ "held" \in Tokens
    BY OStreamAssumption DEF Tokens
  <2> HIDE DEF h
  <2>5. IdLen[h] \in Nat /\ hpos + 1 \in 1..IdLen[h]
    BY <2>1, <2>2, <2>4
  <2>6. NextByte = [tok |-> "held", id |-> h, i |-> hpos + 1, n |-> IdLen[h]]
    BY <2>1, <2>3, <2>4, <2>5, BytesType
  <2>7. NextByte.tok = "held" /\ NextByte.id = h /\ NextByte.i = hpos + 1 /\ NextByte.n = IdLen[h]
    BY <2>6
  <2> QED
    BY <1>1, <1>2, <2>1, <2>7 DEF h
<1>3. CASE phase # "commit"
  <2>1. todo # <<>> /\ todo \in Seq(Byte) /\ NextByte = Head(todo)
    BY <1>1, <1>3 DEF HasByte, NextByte, TypeOK
  <2>2. Len(todo) >= 1 /\ NextByte = todo[1]
    BY <2>1
  <2>3. BytesOfCall(op, todo) /\ op.kind \in {"field", "begin", "end", "stray"}
        /\ op.result \in {"ok", "arg"}
    BY <1>1 DEF Inductive, TypeOK
  <2> QED
    BY <1>1, <1>3, <2>1, <2>2, <2>3 DEF BytesOfCall
<1> QED
  BY <1>2, <1>3

LEMMA NestingPush ==
    ASSUME Inductive, HasByte, Advance, Framing(NextByte), UNCHANGED <<op, nest>>
    PROVE  phase' # "idle" /\ NestingInCall'
<1>1. /\ framed \in Seq(Ids) /\ nest \in Seq(Ids) /\ pending \in Seq(Ids)
      /\ todo \in Seq(Byte) /\ Ids \subseteq Nat
      /\ phase \in {"commit", "emit"}
      /\ NestingInCall
  BY OStreamAssumption DEF Inductive, TypeOK, HasByte
<1>2. CASE phase = "commit" /\ hpos + 1 < IdLen[Head(pending)] /\ hpos' = hpos + 1
           /\ UNCHANGED <<pending, phase, todo>>
  <2>1. NextByte.tok = "held" /\ NextByte.i # NextByte.n
    BY <1>2, NextByteKind
  <2>2. framed' = framed
    BY <2>1 DEF Framing
  <2> QED
    BY <1>1, <1>2, <2>2 DEF NestingInCall, Opened, Closed
<1>3. CASE phase = "commit" /\ hpos + 1 = IdLen[Head(pending)] /\ hpos' = 0
           /\ pending' = Tail(pending)
           /\ phase' = (IF Len(pending) = 1 THEN "emit" ELSE "commit") /\ UNCHANGED todo
  <2>1. pending # <<>>
    BY <1>3 DEF Inductive, TypeOK
  <2>2. framed' = Append(framed, Head(pending))
    BY <1>3, NextByteKind DEF Framing
  <2>3. framed' \o pending' = framed \o pending
    BY <1>1, <1>3, <2>1, <2>2, HeadMoves
  <2>4. phase' = "emit" => pending' = <<>>
    BY <1>1, <1>3, <2>1
  <2>5. ~Opened /\ ~Closed /\ framed \o pending = nest
    BY <1>1, <1>3 DEF NestingInCall
  <2> QED
    BY <1>3, <2>3, <2>4, <2>5 DEF NestingInCall, Opened, Closed
<1>4. CASE phase = "emit" /\ todo' = Tail(todo) /\ UNCHANGED <<pending, phase, hpos>>
  <2>1. todo # <<>> /\ NextByte = todo[1] /\ pending = <<>>
    BY <1>1, <1>4, NextByteKind DEF NestingInCall
  <2>2. Len(todo) \in Nat /\ Len(todo) >= 1 /\ (Tail(todo) = <<>> <=> Len(todo) = 1)
    <3>1. Tail(todo) \in Seq(Byte) /\ Len(Tail(todo)) = Len(todo) - 1
      BY <1>1, <2>1, HeadTailProperties
    <3>2. Tail(todo) = <<>> <=> Len(Tail(todo)) = 0
      BY <3>1, EmptySeq
    <3>3. Len(todo) \in Nat /\ Len(todo) >= 1
      BY <1>1, <2>1
    <3> QED
      BY <3>1, <3>2, <3>3
  <2>3. framed \o pending = nest /\ framed \o pending = framed
    BY <1>1, <1>4, <2>1, ConcatEmptySeq DEF NestingInCall, Opened, Closed
  <2>4. framed' \in Seq(Ids)
    BY NextByteKind, FramingType DEF Inductive
  <2>5. framed' \o pending' = framed'
    BY <1>4, <2>1, <2>4, ConcatEmptySeq
  <2>6. BytesOfCall(op, todo) /\ op.kind \in {"field", "begin", "end", "stray"}
    BY DEF Inductive, TypeOK
  <2>7. CASE op.kind = "field"
    <3>1. NextByte.tok = "field"
      BY <2>1, <2>2, <2>6, <2>7 DEF BytesOfCall
    <3>2. framed' = framed
      BY <3>1 DEF Framing
    <3> QED
      BY <1>4, <2>1, <2>3, <2>5, <2>7, <3>2 DEF NestingInCall, Opened, Closed
  <2>8. CASE op.kind = "begin"
    <3>1. /\ op.result = "ok"
          /\ NextByte.tok = "start"
          /\ NextByte.id = op.id
          /\ NextByte.i = NextByte.n <=> Len(todo) = 1
      BY <2>1, <2>2, <2>6, <2>8 DEF BytesOfCall
    <3>2. framed' = IF Len(todo) = 1 THEN Append(framed, op.id) ELSE framed
      BY <3>1 DEF Framing
    <3> QED
      BY <1>4, <2>1, <2>2, <2>3, <2>5, <2>8, <3>1, <3>2 DEF NestingInCall, Opened, Closed
  <2>9. CASE op.kind = "end"
    <3>1. Len(todo) = 1 /\ NextByte.tok \in {"end", "keep"}
      BY <2>1, <2>2, <2>6, <2>9 DEF BytesOfCall
    <3>2. framed' = Front(framed)
      BY <3>1 DEF Framing
    <3> QED
      BY <1>4, <2>1, <2>2, <2>3, <2>5, <2>9, <3>1, <3>2 DEF NestingInCall, Opened, Closed
  <2>10. CASE op.kind = "stray"
    <3>1. NextByte.tok = "stray"
      BY <2>1, <2>2, <2>6, <2>10 DEF BytesOfCall
    <3>2. framed' = framed
      BY <3>1 DEF Framing
    <3> QED
      BY <1>4, <2>1, <2>3, <2>5, <2>10, <3>2 DEF NestingInCall, Opened, Closed
  <2> QED
    BY <2>6, <2>7, <2>8, <2>9, <2>10
<1> QED
  BY <1>2, <1>3, <1>4 DEF Advance

LEMMA PushedByte ==
    ASSUME Inductive, HasByte, Advance, Framing(NextByte), UNCHANGED <<op, nest>>
    PROVE  /\ phase' # "idle"
           /\ framed' \in Seq(Ids)
           /\ BytesOfCall(op, todo)'
           /\ NestingAgrees'
           /\ NestingInCall'
<1>1. BytesOfCall(op, todo) /\ todo \in Seq(Byte)
  BY DEF Inductive, TypeOK
<1>2. todo' = todo \/ (todo # <<>> /\ todo' = Tail(todo))
  BY DEF Advance, HasByte
<1>3. BytesOfCall(op', todo')
  BY <1>1, <1>2, TailOfCall
<1>4. framed' \in Seq(Ids)
  BY NextByteKind, FramingType DEF Inductive
<1> QED
  BY <1>3, <1>4, NestingPush DEF NestingAgrees

-----------------------------------------------------------------------------
(* The invariant in two halves, the buffer and the call, which no action   *)
(* couples other than through the byte it pushes.                          *)

BufferInv ==
    /\ buf \in Seq(Byte) /\ cap \in Nat /\ rsv \in Nat
    /\ unit \in [off : Nat, data : Seq(Byte)]
    /\ sent \in Seq(Byte)
    /\ CursorInBuffer
    /\ RoomInBuffer
    /\ ReservationIntact

CallInv ==
    /\ pending \in Seq(Ids) /\ Len(pending) <= LAZY_SEQ_DEPTH
    /\ phase \in {"idle", "commit", "emit"}
    /\ phase = "commit" => pending # <<>> /\ hpos < IdLen[Head(pending)]
    /\ phase # "commit" => hpos = 0
    /\ hpos \in Nat
    /\ todo \in Seq(Byte)
    /\ op \in [kind : {"field", "begin", "end", "stray"}, id : Ids \cup {0}, result : {"ok", "arg"}]
    /\ nest \in Seq(Ids) /\ framed \in Seq(Ids)
    /\ BytesOfCall(op, todo)
    /\ NestingAgrees
    /\ NestingInCall

Rest ==
    /\ ret \in {"ok", "arg", "full"}
    /\ failed \in BOOLEAN
    /\ calls \in Nat
    /\ SinkNeverFull

LEMMA Halves ==
    /\ Inductive <=> BufferInv /\ CallInv /\ Rest
    /\ Inductive' <=> BufferInv' /\ CallInv' /\ Rest'
<1>1. Inductive <=> BufferInv /\ CallInv /\ Rest
  BY DEF Inductive, TypeOK, BufferInv, CallInv, Rest
<1>2. Inductive' <=> BufferInv' /\ CallInv' /\ Rest'
  BY DEF Inductive, TypeOK, BufferInv, CallInv, Rest
<1> QED
  BY <1>1, <1>2

LEMMA AppendIntact ==
    ASSUME NEW off \in Nat, NEW data \in Seq(Byte), NEW b \in Byte,
           UnitIntact([off |-> off, data |-> data]), b.tok # "reserved"
    PROVE  UnitIntact([off |-> off, data |-> Append(data, b)])
<1>1. /\ Len(data) \in Nat /\ off <= Len(data)
      /\ \A i \in 1..Len(data) : data[i].tok = "reserved" <=> i <= off
  BY DEF UnitIntact
<1>2. /\ Len(Append(data, b)) = Len(data) + 1
      /\ \A i \in 1..Len(data) : Append(data, b)[i] = data[i]
      /\ Append(data, b)[Len(data) + 1] = b
  BY AppendProperties
<1>3. /\ off <= Len(Append(data, b))
      /\ \A i \in 1..Len(Append(data, b)) : Append(data, b)[i].tok = "reserved" <=> i <= off
  BY <1>1, <1>2
<1> QED
  BY <1>3 DEF UnitIntact

LEMMA ReservedIntact ==
    ASSUME NEW k \in Nat
    PROVE  UnitIntact([off |-> k, data |-> Reserved(k)])
BY ReservedType DEF UnitIntact

\* The buffer half after the sink has run, before the byte is written.
LEMMA SinkBuffer ==
    ASSUME BufferInv, NEW inst \in Installs \cup {Keep}
    PROVE  /\ AfterSink(inst).buf \in Seq(Byte)
           /\ AfterSink(inst).cap \in Nat
           /\ AfterSink(inst).rsv \in Nat
           /\ Len(AfterSink(inst).buf) \in Nat
           /\ Len(AfterSink(inst).buf) <= AfterSink(inst).cap
           /\ UnitIntact([off |-> AfterSink(inst).rsv, data |-> AfterSink(inst).buf])
           /\ (HasSink /\ \A i \in Installs : i.off < i.len) =>
                 Len(AfterSink(inst).buf) < AfterSink(inst).cap
<1>1. CASE inst = Keep
  <2>1. AfterSink(inst) = [buf |-> <<>>, cap |-> cap, rsv |-> 0]
    BY <1>1 DEF AfterSink
  <2>2. UnitIntact([off |-> 0, data |-> <<>>])
    BY DEF UnitIntact
  <2> QED
    BY <2>1, <2>2 DEF BufferInv, RoomInBuffer
<1>2. CASE inst \in Installs /\ inst # Keep
  <2>1. inst.len \in Nat /\ inst.off \in Nat /\ inst.off <= inst.len
    BY <1>2, OStreamAssumption
  <2>2. AfterSink(inst) = [buf |-> Reserved(inst.off), cap |-> inst.len, rsv |-> inst.off]
    BY <1>2 DEF AfterSink
  <2> QED
    BY <1>2, <2>1, <2>2, ReservedType, ReservedIntact
<1> QED
  BY <1>1, <1>2

LEMMA TakenUnit ==
    ASSUME BufferInv, Taken
    PROVE  /\ unit' \in [off : Nat, data : Seq(Byte)]
           /\ sent' \in Seq(Byte)
           /\ UnitIntact(unit')
<1>1. buf \in Seq(Byte) /\ rsv \in Nat /\ sent \in Seq(Byte) /\ UnitIntact(Unit)
  BY DEF BufferInv, ReservationIntact
<1>2. unit' = [off |-> rsv, data |-> buf] /\ sent' = sent \o SubSeq(buf, rsv + 1, Len(buf))
  BY DEF Taken, Unit, Payload
<1>3. SubSeq(buf, rsv + 1, Len(buf)) \in Seq(Byte)
  <2> DEFINE m == rsv + 1
             n == Len(buf)
  <2>1. m \in Int /\ n \in Int /\ \A i \in m..n : buf[i] \in Byte
    BY <1>1
  <2> HIDE DEF m, n
  <2>2. SubSeq(buf, m, n) \in Seq(Byte)
    BY <2>1, SubSeqProperties
  <2> QED
    BY <2>2 DEF m, n
<1>4. sent' \in Seq(Byte)
  BY <1>1, <1>2, <1>3, ConcatProperties
<1> QED
  BY <1>1, <1>2, <1>4 DEF Unit

\* A buffer b takes one byte that is not a reserved one.
LEMMA WriteIntoBuffer ==
    ASSUME NEW data \in Seq(Byte), NEW off \in Nat, NEW len \in Nat, NEW b \in Byte,
           UnitIntact([off |-> off, data |-> data]),
           Len(data) < len, b.tok # "reserved"
    PROVE  /\ Append(data, b) \in Seq(Byte)
           /\ Len(Append(data, b)) <= len
           /\ UnitIntact([off |-> off, data |-> Append(data, b)])
BY AppendIntact, AppendProperties

LEMMA CallInvPush ==
    ASSUME Inductive, HasByte, Advance, Framing(NextByte), UNCHANGED <<op, nest>>
    PROVE  CallInv'
<1>1. TypeOK
  BY DEF Inductive
<1> QED
  BY <1>1, AdvanceType, PushedByte DEF CallInv, TypeOK

LEMMA CallInvGiveUp ==
    ASSUME Inductive, HasByte, GiveUp
    PROVE  CallInv'
<1>1. phase \in {"commit", "emit"}
  BY DEF HasByte
<1>2. ~Opened /\ ~Closed
  BY <1>1 DEF HasByte, Inductive, NestingInCall, Opened, Closed
<1>3. nest' = framed' \o pending'
  BY <1>1, <1>2 DEF GiveUp, Inductive, NestingInCall
<1>4. BytesOfCall(op', todo')
  BY DEF GiveUp, Inductive, BytesOfCall
<1> QED
  BY <1>3, <1>4 DEF GiveUp, CallInv, Inductive, TypeOK, NestingAgrees, NestingInCall

-----------------------------------------------------------------------------
(* Every action preserves the invariant.                                   *)

LEMMA PushByteStep ==
    ASSUME Inductive, PushByte
    PROVE  Inductive'
<1>1. CallInv'
  BY CallInvPush DEF PushByte
<1>2. BufferInv'
  <2>1. /\ buf \in Seq(Byte) /\ rsv \in Nat /\ cap \in Nat
        /\ UnitIntact([off |-> rsv, data |-> buf])
    BY DEF Inductive, TypeOK, ReservationIntact, Unit
  <2>2. Len(buf) < cap
    BY <2>1 DEF PushByte, BufferFull
  <2>3. NextByte \in Byte /\ NextByte.tok # "reserved"
    BY NextByteKind DEF PushByte
  <2>4. /\ buf' \in Seq(Byte) /\ Len(buf') <= cap
        /\ UnitIntact([off |-> rsv, data |-> buf'])
    BY <2>1, <2>2, <2>3, WriteIntoBuffer DEF PushByte
  <2> QED
    BY <2>4 DEF PushByte, Inductive, TypeOK, BufferInv, CursorInBuffer, RoomInBuffer,
                ReservationIntact, Unit
<1>3. Rest'
  BY DEF PushByte, Inductive, TypeOK, Rest, SinkNeverFull
<1> QED
  BY <1>1, <1>2, <1>3, Halves

LEMMA PushThroughSinkStep ==
    ASSUME Inductive, NEW inst \in Installs \cup {Keep}, PushThroughSink(inst)
    PROVE  Inductive'
<1> DEFINE b == AfterSink(inst)
<1>1. CallInv'
  BY CallInvPush DEF PushThroughSink
<1>2. BufferInv'
  <2>1. BufferInv
    BY Halves
  <2>2. /\ b.buf \in Seq(Byte) /\ b.cap \in Nat /\ b.rsv \in Nat
        /\ Len(b.buf) \in Nat
        /\ UnitIntact([off |-> b.rsv, data |-> b.buf])
    BY <2>1, SinkBuffer
  <2>3. NextByte \in Byte /\ NextByte.tok # "reserved"
    BY NextByteKind DEF PushThroughSink
  <2>4. /\ Len(b.buf) < b.cap /\ Taken /\ cap' = b.cap /\ rsv' = b.rsv
        /\ buf' = Append(b.buf, NextByte)
    BY DEF PushThroughSink, Drain
  <2> HIDE DEF b
  <2>5. /\ buf' \in Seq(Byte) /\ Len(buf') <= cap'
        /\ UnitIntact([off |-> rsv', data |-> buf'])
    BY <2>2, <2>3, <2>4, WriteIntoBuffer
  <2>6. cap' \in Nat /\ cap' > 0
    BY <2>2, <2>4
  <2>7. rsv' \in Nat
    BY <2>2, <2>4
  <2>8. /\ unit' \in [off : Nat, data : Seq(Byte)]
        /\ sent' \in Seq(Byte) /\ UnitIntact(unit')
    BY <2>1, <2>4, TakenUnit
  <2> QED
    BY <2>5, <2>6, <2>7, <2>8 DEF BufferInv, CursorInBuffer, RoomInBuffer, ReservationIntact, Unit
<1>3. Rest'
  BY DEF PushThroughSink, Inductive, TypeOK, Rest, SinkNeverFull
<1> QED
  BY <1>1, <1>2, <1>3, Halves

LEMMA PushSinkLeftNoRoomStep ==
    ASSUME Inductive, NEW inst \in Installs \cup {Keep}, PushSinkLeftNoRoom(inst)
    PROVE  Inductive'
<1> DEFINE b == AfterSink(inst)
<1>1. CallInv'
  BY CallInvGiveUp DEF PushSinkLeftNoRoom
<1>2. BufferInv
  BY Halves
<1>3. /\ b.buf \in Seq(Byte) /\ b.cap \in Nat /\ b.rsv \in Nat
      /\ Len(b.buf) \in Nat /\ Len(b.buf) <= b.cap
      /\ UnitIntact([off |-> b.rsv, data |-> b.buf])
      /\ (HasSink /\ \A i \in Installs : i.off < i.len) => Len(b.buf) < b.cap
  BY <1>2, SinkBuffer
<1>4. /\ Len(b.buf) >= b.cap /\ Taken /\ cap' = b.cap /\ rsv' = b.rsv /\ buf' = b.buf
      /\ HasSink
  BY DEF PushSinkLeftNoRoom, Drain
<1> HIDE DEF b
<1>5. ~(\A i \in Installs : i.off < i.len)
  BY <1>3, <1>4
<1>6. BufferInv'
  <2>1. /\ unit' \in [off : Nat, data : Seq(Byte)]
        /\ sent' \in Seq(Byte) /\ UnitIntact(unit')
    BY <1>2, <1>4, TakenUnit
  <2> QED
    BY <1>3, <1>4, <1>5, <2>1
    DEF BufferInv, CursorInBuffer, RoomInBuffer, ReservationIntact, Unit
<1>7. Rest'
  BY <1>5 DEF PushSinkLeftNoRoom, GiveUp, Inductive, TypeOK, Rest, SinkNeverFull
<1> QED
  BY <1>1, <1>6, <1>7, Halves

LEMMA PushNoSinkStep ==
    ASSUME Inductive, PushNoSink
    PROVE  Inductive'
<1>1. CallInv'
  BY CallInvGiveUp DEF PushNoSink
<1>2. BufferInv'
  BY DEF PushNoSink, bufVars, Inductive, TypeOK, BufferInv, CursorInBuffer, RoomInBuffer,
         ReservationIntact, Unit
<1>3. Rest'
  BY DEF PushNoSink, GiveUp, Inductive, TypeOK, Rest, SinkNeverFull
<1> QED
  BY <1>1, <1>2, <1>3, Halves

LEMMA UntouchedBuffer ==
    ASSUME Inductive, UNCHANGED bufVars
    PROVE  BufferInv'
BY DEF bufVars, Inductive, TypeOK, BufferInv, CursorInBuffer, RoomInBuffer,
       ReservationIntact, Unit

LEMMA ReturnStep ==
    ASSUME Inductive, Return
    PROVE  Inductive'
<1>1. /\ pending = <<>> /\ framed \in Seq(Ids) /\ nest \in Seq(Ids)
      /\ framed \o pending = IF Opened THEN Append(nest, op.id)
                             ELSE IF Closed THEN Front(nest) ELSE nest
  BY DEF Return, Inductive, TypeOK, NestingInCall
<1>2. BytesOfCall(op, todo) /\ op.kind \in {"field", "begin", "end", "stray"}
      /\ op.result \in {"ok", "arg"}
  BY DEF Inductive, TypeOK
<1>3. nest' = framed \o pending
  BY <1>1, <1>2 DEF Return, Opened, Closed, BytesOfCall
<1>4. framed \o pending \in Seq(Ids)
  BY <1>1, ConcatEmptySeq
<1>5. CallInv'
  BY <1>3, <1>4 DEF Return, CallInv, Inductive, TypeOK, NestingAgrees, NestingInCall
<1>6. Rest'
  BY <1>2 DEF Return, Inductive, TypeOK, Rest, SinkNeverFull
<1> QED
  BY <1>5, <1>6, UntouchedBuffer, Halves DEF Return

LEMMA RefuseStep ==
    ASSUME Inductive, Refuse
    PROVE  Inductive'
<1>1. CallInv'
  BY DEF Refuse, Called, callVars, CallInv, Inductive, TypeOK, NestingAgrees,
         NestingInCall, Opened, Closed
<1>2. Rest'
  BY DEF Refuse, Called, Inductive, TypeOK, Rest, SinkNeverFull
<1> QED
  BY <1>1, <1>2, UntouchedBuffer, Halves DEF Refuse

LEMMA StartStep ==
    ASSUME Inductive, NEW kind, NEW id, NEW bytes, NEW result,
           Start(kind, id, bytes, result), StartOK(kind, id, bytes, result)
    PROVE  Inductive'
<1> DEFINE o == [kind |-> kind, id |-> id, result |-> result]
<1>1. /\ phase = "idle" /\ op' = o /\ todo' = bytes /\ hpos' = 0
      /\ phase' = (IF pending # <<>> THEN "commit" ELSE "emit")
      /\ UNCHANGED <<bufVars, pending, ret, nest, framed, failed>>
      /\ calls' = calls + 1
  BY DEF Start, Called
<1>2. /\ o \in [kind : {"field", "begin", "end", "stray"}, id : Ids \cup {0}, result : {"ok", "arg"}]
      /\ bytes \in Seq(Byte) /\ BytesOfCall(o, bytes)
      /\ o.kind \in {"begin", "end"} /\ o.result = "ok" => bytes # <<>>
  BY DEF StartOK
<1> HIDE DEF o
<1>3. ~Opened' /\ ~Closed'
  <2>1. o.kind = "end" => o.result = "ok"
    BY <1>2 DEF BytesOfCall
  <2> QED
    BY <1>1, <1>2, <2>1 DEF Opened, Closed
<1>4. nest' = framed' \o pending'
  BY <1>1 DEF Inductive, NestingAgrees
<1>5. pending' # <<>> => hpos' < IdLen[Head(pending')]
  <2>1. pending \in Seq(Ids)
    BY DEF Inductive, TypeOK
  <2>2. ASSUME pending # <<>> PROVE 0 < IdLen[Head(pending)]
    <3>1. Head(pending) \in Ids
      BY <2>1, <2>2, HeadTailProperties
    <3>2. IdLen[Head(pending)] \in Nat \ {0}
      BY <3>1, OStreamAssumption
    <3> QED
      BY <3>2
  <2> QED
    BY <1>1, <2>2
<1>6. NestingAgrees' /\ NestingInCall'
  BY <1>1, <1>3, <1>4 DEF NestingAgrees, NestingInCall
<1>7. CallInv'
  BY <1>1, <1>2, <1>5, <1>6 DEF CallInv, Inductive, TypeOK
<1>8. Rest'
  BY <1>1 DEF Inductive, TypeOK, Rest, SinkNeverFull
<1> QED
  BY <1>1, <1>7, <1>8, UntouchedBuffer, Halves

LEMMA HoldBackStep ==
    ASSUME Inductive, NEW id \in Ids, Len(pending) < LAZY_SEQ_DEPTH, HoldBack(id)
    PROVE  Inductive'
<1>1. /\ pending \in Seq(Ids) /\ nest \in Seq(Ids) /\ framed \in Seq(Ids)
      /\ phase = "idle" /\ nest = framed \o pending /\ LAZY_SEQ_DEPTH \in Nat
  BY OStreamAssumption DEF HoldBack, Called, Inductive, TypeOK, NestingAgrees
<1>2. /\ pending' \in Seq(Ids) /\ Len(pending') <= LAZY_SEQ_DEPTH
      /\ nest' \in Seq(Ids)
  BY <1>1, AppendProperties DEF HoldBack
<1>3. nest' = framed' \o pending'
  <2>1. nest' = Append(nest, id) /\ pending' = Append(pending, id) /\ framed' = framed
    BY DEF HoldBack
  <2>2. Append(framed \o pending, id) = framed \o Append(pending, id)
    <3>1. framed \in Seq(Ids) /\ pending \in Seq(Ids) /\ id \in Ids
      BY <1>1
    <3> QED
      BY <3>1, AppendConcat
  <2> QED
    BY <1>1, <2>1, <2>2
<1>4. phase' = "idle"
  BY <1>1 DEF HoldBack, callVars
<1>5. CallInv'
  BY <1>2, <1>3, <1>4 DEF HoldBack, callVars, CallInv, Inductive, TypeOK, NestingAgrees,
                          NestingInCall
<1>6. Rest'
  BY DEF HoldBack, Called, Inductive, TypeOK, Rest, SinkNeverFull
<1> QED
  BY <1>5, <1>6, UntouchedBuffer, Halves DEF HoldBack

LEMMA DropHeldStep ==
    ASSUME Inductive, pending # <<>>, DropHeld
    PROVE  Inductive'
<1>1. /\ pending \in Seq(Ids) /\ nest \in Seq(Ids) /\ framed \in Seq(Ids)
      /\ Len(pending) <= LAZY_SEQ_DEPTH
      /\ phase = "idle" /\ nest = framed \o pending /\ LAZY_SEQ_DEPTH \in Nat
  BY OStreamAssumption DEF DropHeld, Called, Inductive, TypeOK, NestingAgrees
<1>2. /\ pending' \in Seq(Ids) /\ Len(pending') <= Len(pending)
      /\ nest' \in Seq(Ids)
  BY <1>1, FrontType DEF DropHeld
<1>3. Len(pending') <= LAZY_SEQ_DEPTH
  BY <1>1, <1>2
<1>4. nest' = framed' \o pending'
  BY <1>1, FrontConcat DEF DropHeld
<1>5. phase' = "idle"
  BY <1>1 DEF DropHeld, callVars
<1>6. CallInv'
  BY <1>2, <1>3, <1>4, <1>5 DEF DropHeld, callVars, CallInv, Inductive, TypeOK,
                                NestingAgrees, NestingInCall
<1>7. Rest'
  BY DEF DropHeld, Called, Inductive, TypeOK, Rest, SinkNeverFull
<1> QED
  BY <1>6, <1>7, UntouchedBuffer, Halves DEF DropHeld

LEMMA FlushStep ==
    ASSUME Inductive, NEW inst \in Installs \cup {Keep}, Flush(inst)
    PROVE  Inductive'
<1> DEFINE b == AfterSink(inst)
<1>1. CallInv'
  BY DEF Flush, Called, callVars, CallInv, Inductive, TypeOK, NestingAgrees,
         NestingInCall, Opened, Closed
<1>2. BufferInv
  BY Halves
<1>3. /\ b.buf \in Seq(Byte) /\ b.cap \in Nat /\ b.rsv \in Nat
      /\ Len(b.buf) \in Nat /\ Len(b.buf) <= b.cap
      /\ UnitIntact([off |-> b.rsv, data |-> b.buf])
      /\ (HasSink /\ \A i \in Installs : i.off < i.len) => Len(b.buf) < b.cap
  BY <1>2, SinkBuffer
<1>4. Taken /\ cap' = b.cap /\ rsv' = b.rsv /\ buf' = b.buf
  BY DEF Flush, Drain
<1> HIDE DEF b
<1>5. BufferInv'
  <2>1. /\ unit' \in [off : Nat, data : Seq(Byte)]
        /\ sent' \in Seq(Byte) /\ UnitIntact(unit')
    BY <1>2, <1>4, TakenUnit
  <2>2. (HasSink /\ \A i \in Installs : i.off < i.len) => cap' > 0
    BY <1>3, <1>4
  <2> QED
    BY <1>3, <1>4, <2>1, <2>2
    DEF BufferInv, CursorInBuffer, RoomInBuffer, ReservationIntact, Unit
<1>6. Rest'
  BY DEF Flush, Called, Inductive, TypeOK, Rest, SinkNeverFull
<1> QED
  BY <1>1, <1>5, <1>6, Halves

LEMMA BufferSetStep ==
    ASSUME Inductive, NEW inst \in Installs, BufferSet(inst)
    PROVE  Inductive'
<1>1. CallInv'
  BY DEF BufferSet, Called, callVars, CallInv, Inductive, TypeOK, NestingAgrees,
         NestingInCall, Opened, Closed
<1>2. BufferInv
  BY Halves
<1>3. /\ unit' \in [off : Nat, data : Seq(Byte)]
      /\ sent' \in Seq(Byte) /\ UnitIntact(unit')
  BY <1>2, TakenUnit DEF BufferSet, BufferInv, ReservationIntact
<1>4. inst.len \in Nat /\ inst.off \in Nat /\ inst.off <= inst.len
  BY OStreamAssumption
<1>5. /\ Reserved(inst.off) \in Seq(Byte) /\ Len(Reserved(inst.off)) = inst.off
      /\ UnitIntact([off |-> inst.off, data |-> Reserved(inst.off)])
  BY <1>4, ReservedType, ReservedIntact
<1>6. buf' = Reserved(inst.off) /\ cap' = inst.len /\ rsv' = inst.off
  BY DEF BufferSet
<1>7. BufferInv'
  BY <1>3, <1>4, <1>5, <1>6
  DEF BufferInv, CursorInBuffer, RoomInBuffer, ReservationIntact, Unit
<1>8. Rest'
  BY DEF BufferSet, Called, Inductive, TypeOK, Rest, SinkNeverFull
<1> QED
  BY <1>1, <1>7, <1>8, Halves

-----------------------------------------------------------------------------
LEMMA InitInductive == Init => Inductive
<1> SUFFICES ASSUME Init PROVE Inductive
  OBVIOUS
<1>1. PICK inst \in Installs : buf = Reserved(inst.off) /\ cap = inst.len /\ rsv = inst.off
  BY DEF Init
<1>2. inst.len \in Nat /\ inst.off \in Nat /\ inst.off <= inst.len
  BY OStreamAssumption
<1>3. /\ Reserved(inst.off) \in Seq(Byte) /\ Len(Reserved(inst.off)) = inst.off
      /\ UnitIntact([off |-> inst.off, data |-> Reserved(inst.off)])
  BY <1>2, ReservedType, ReservedIntact
<1>4. unit = [off |-> 0, data |-> <<>>] /\ UnitIntact(unit)
  BY DEF Init, UnitIntact
<1>5. BufferInv
  BY <1>1, <1>2, <1>3, <1>4
  DEF Init, BufferInv, CursorInBuffer, RoomInBuffer, ReservationIntact, Unit
<1>6. CallInv
  <2>1. <<>> = framed \o pending /\ LAZY_SEQ_DEPTH \in Nat
    BY OStreamAssumption DEF Init
  <2> QED
    BY <2>1 DEF Init, CallInv, BytesOfCall, NestingAgrees, NestingInCall
<1>7. Rest
  BY DEF Init, Rest, SinkNeverFull
<1> QED
  BY <1>5, <1>6, <1>7, Halves

LEMMA NextInductive == Inductive /\ [Next]_vars => Inductive'
<1> SUFFICES ASSUME Inductive, [Next]_vars PROVE Inductive'
  OBVIOUS
<1>1. CASE Running
  BY <1>1, PushByteStep, PushThroughSinkStep, PushSinkLeftNoRoomStep, PushNoSinkStep,
     ReturnStep DEF Running, PushNoRoom
<1>2. CASE Call
  <2>1. TypeOK
    BY DEF Inductive
  <2> QED
    BY <1>2, <2>1, CallEffects, RefuseStep, StartStep, HoldBackStep, DropHeldStep,
       FlushStep, BufferSetStep DEF Starts
<1>3. CASE UNCHANGED vars
  <2>1. BufferInv'
    BY <1>3, UntouchedBuffer DEF vars, bufVars
  <2>2. CallInv'
    BY <1>3 DEF vars, CallInv, Inductive, TypeOK, NestingAgrees, NestingInCall, Opened, Closed
  <2>3. Rest'
    BY <1>3 DEF vars, Rest, Inductive, TypeOK, SinkNeverFull
  <2> QED
    BY <2>1, <2>2, <2>3, Halves
<1> QED
  BY <1>1, <1>2, <1>3 DEF Next

THEOREM InductiveHolds == Spec => []Inductive
<1> QED
  BY InitInductive, NextInductive, PTL DEF Spec

\* The encoder's state is well formed, and the hold-back array never overflows.
THEOREM TypeCorrect == Spec => []TypeOK
<1>1. Inductive => TypeOK
  BY DEF Inductive
<1> QED
  BY <1>1, InductiveHolds, PTL

\* No write runs past the end of the active buffer, for any buffers, any sink
\* and any sequence of calls.
THEOREM NoOverrun == Spec => []CursorInBuffer
<1>1. Inductive => CursorInBuffer
  BY DEF Inductive
<1> QED
  BY <1>1, InductiveHolds, PTL

\* The room reserved at the front of an installed buffer is never written.
THEOREM ReservationKept == Spec => []ReservationIntact
<1>1. Inductive => ReservationIntact
  BY DEF Inductive
<1> QED
  BY <1>1, InductiveHolds, PTL

\* Between calls, what the caller has open is what the wire has open followed
\* by the held-back run, whatever failed before.
THEOREM NestingKept == Spec => []NestingAgrees
<1>1. Inductive => NestingAgrees
  BY DEF Inductive
<1> QED
  BY <1>1, InductiveHolds, PTL

\* With a sink that always leaves room no call fails for want of it.
THEOREM StreamingNeverFull == Spec => []SinkNeverFull
<1>1. Inductive => SinkNeverFull
  BY DEF Inductive
<1> QED
  BY <1>1, InductiveHolds, PTL

\* With a sink, a call is given up for want of room only when the callback
\* has just left a buffer that is reserved to its end.  (_push_byte, _drain)
LEMMA NoRoomIsInstalled ==
    ASSUME Inductive, NEW inst \in Installs \cup {Keep}, PushSinkLeftNoRoom(inst)
    PROVE  rsv' = cap'
<1> DEFINE b == AfterSink(inst)
<1>1. Len(b.buf) >= b.cap /\ cap' = b.cap /\ rsv' = b.rsv
  BY DEF PushSinkLeftNoRoom, Drain
<1>2. Len(b.buf) <= b.cap /\ Len(b.buf) \in Nat /\ b.cap \in Nat
  BY Halves, SinkBuffer
<1>3. Len(b.buf) = b.rsv
  <2>1. CASE inst = Keep
    BY <2>1 DEF AfterSink
  <2>2. CASE inst # Keep
    <3>1. inst \in Installs /\ inst.off \in Nat
      BY <2>2, OStreamAssumption
    <3>2. Len(Reserved(inst.off)) = inst.off
      BY <3>1, ReservedType
    <3>3. b.buf = Reserved(inst.off) /\ b.rsv = inst.off
      BY <2>2 DEF AfterSink
    <3> QED
      BY <3>2, <3>3
  <2> QED
    BY <2>1, <2>2
<1> HIDE DEF b
<1> QED
  BY <1>1, <1>2, <1>3

\* A call begins between two calls.
LEMMA CallsBeginIdle ==
    ASSUME Call
    PROVE  phase = "idle"
<1>1. ASSUME NEW id \in Ids \cup {BadId}, NEW n \in BodyLens,
             \/ WriteScalar(id, n)
             \/ \E valid \in BOOLEAN : WriteFixlen(id, n, valid)
             \/ \E good \in BOOLEAN : WriteVarintArray(id, n, good)
             \/ WriteFixlenArray(id, n)
      PROVE  phase = "idle"
  BY <1>1 DEF WriteScalar, WriteFixlen, WriteVarintArray, WriteFixlenArray,
              WriteField, Refuse, Start, Called
<1>2. ASSUME NEW id \in Ids \cup {BadId}, SequenceBegin(id) \/ SequenceBeginLazy(id)
      PROVE  phase = "idle"
  BY <1>2 DEF SequenceBegin, SequenceBeginLazy, Refuse, HoldBack, Start, Called
<1>3. ASSUME SequenceEndKeep \/ SequenceEnd
      PROVE  phase = "idle"
  BY <1>3 DEF SequenceEndKeep, SequenceEnd, DropHeld, Start, Called
<1>4. ASSUME NEW inst, Flush(inst) \/ BufferSet(inst)
      PROVE  phase = "idle"
  BY <1>4 DEF Flush, BufferSet, Called
<1> QED
  BY <1>1, <1>2, <1>3, <1>4 DEF Call

\* With a sink, a call is given up for want of room only when the callback
\* has just left a buffer that is reserved to its end.  (_push_byte, _drain)
THEOREM FullOnlyAsInstalled == Spec => FullAsInstalled
<1>1. Inductive /\ [Next]_vars =>
          [ (HasSink /\ phase # "idle" /\ phase' = "idle" /\ ret' = "full")
                => rsv' = cap' ]_vars
  <2> SUFFICES ASSUME Inductive, Next, HasSink, phase # "idle", phase' = "idle",
                      ret' = "full"
               PROVE  rsv' = cap'
    BY DEF vars
  <2>1. ASSUME Advance, HasByte PROVE phase' # "idle"
    BY <2>1 DEF Advance
  <2>2. CASE PushByte
    BY <2>1, <2>2 DEF PushByte
  <2>3. ASSUME NEW inst \in Installs \cup {Keep}, PushThroughSink(inst)
        PROVE  rsv' = cap'
    BY <2>1, <2>3 DEF PushThroughSink
  <2>4. ASSUME NEW inst \in Installs \cup {Keep}, PushSinkLeftNoRoom(inst)
        PROVE  rsv' = cap'
    BY <2>4, NoRoomIsInstalled
  <2>5. CASE PushNoSink
    BY <2>5 DEF PushNoSink
  <2>6. CASE Return
    BY <2>6 DEF Return, Inductive, TypeOK
  <2>7. CASE Call
    BY <2>7, CallsBeginIdle
  <2> QED
    BY <2>2, <2>3, <2>4, <2>5, <2>6, <2>7 DEF Next, Running, PushNoRoom
<1> QED
  BY <1>1, InductiveHolds, PTL DEF Spec, FullAsInstalled


-----------------------------------------------------------------------------
(* What the steps do to the stream.                                        *)

\* What a receiver reads of data, of which off bytes are reserved.
LEMMA PayloadType ==
    ASSUME NEW s \in Seq(Byte), NEW off \in Nat, off <= Len(s)
    PROVE  LET p == SubSeq(s, off + 1, Len(s))
           IN  /\ p \in Seq(Byte) /\ Len(p) = Len(s) - off
               /\ \A i \in 1..Len(s) - off : p[i] = s[off + i]
<1> DEFINE m == off + 1
           n == Len(s)
           p == SubSeq(s, m, n)
<1>1. m \in Int /\ n \in Int /\ \A i \in m..n : s[i] \in Byte
  OBVIOUS
<1>2. m = off + 1 /\ n \in Nat /\ off <= n
  OBVIOUS
<1> HIDE DEF m, n
<1>3. /\ p \in Seq(Byte)
      /\ Len(p) = IF m <= n THEN n - m + 1 ELSE 0
      /\ \A i \in 1..n - m + 1 : p[i] = s[m + i - 1]
  BY <1>1, SubSeqProperties
<1> HIDE DEF p
<1>4. n - m + 1 = n - off /\ (m > n => n - off = 0)
  BY <1>2
<1>5. Len(p) = n - off
  BY <1>2, <1>3, <1>4
<1>6. ASSUME NEW i \in 1..n - off
      PROVE  p[i] = s[off + i]
  <2>1. m + i - 1 = off + i /\ i \in 1..n - m + 1
    BY <1>2
  <2> QED
    BY <1>3, <2>1
<1> QED
  BY <1>3, <1>5, <1>6 DEF m, n, p

LEMMA PayloadOne ==
    ASSUME NEW data \in Seq(Byte), NEW off \in Nat, off <= Len(data), NEW b \in Byte
    PROVE  SubSeq(Append(data, b), off + 1, Len(Append(data, b)))
                = Append(SubSeq(data, off + 1, Len(data)), b)
<1> DEFINE n == Len(data)
           more == Append(data, b)
           old == SubSeq(data, off + 1, Len(data))
           new == SubSeq(more, off + 1, Len(more))
<1>1. n \in Nat /\ off <= n
  OBVIOUS
<1>2. /\ more \in Seq(Byte) /\ Len(more) = n + 1
      /\ \A i \in 1..n : more[i] = data[i]
      /\ more[n + 1] = b
  BY AppendProperties
<1>3. old \in Seq(Byte) /\ Len(old) = n - off /\ \A i \in 1..n - off : old[i] = data[off + i]
  BY PayloadType
<1> HIDE DEF n, more, old
<1>4. off <= Len(more)
  BY <1>1, <1>2
<1>5. /\ new \in Seq(Byte) /\ Len(new) = Len(more) - off
      /\ \A i \in 1..Len(more) - off : new[i] = more[off + i]
  BY <1>2, <1>4, PayloadType
<1> HIDE DEF new
<1>6. /\ Append(old, b) \in Seq(Byte) /\ Len(Append(old, b)) = n - off + 1
      /\ \A i \in 1..n - off : Append(old, b)[i] = old[i]
      /\ Append(old, b)[n - off + 1] = b
  BY <1>3, AppendProperties
<1>7. Len(more) - off = n - off + 1 /\ n - off \in Nat /\ off + (n - off + 1) = n + 1
  BY <1>1, <1>2
<1>8. ASSUME NEW i \in 1..n - off + 1
      PROVE  new[i] = Append(old, b)[i]
  <2>1. CASE i \in 1..n - off
    <3>1. off + i \in 1..n
      BY <1>1, <2>1
    <3> QED
      BY <1>2, <1>3, <1>5, <1>6, <1>7, <2>1, <3>1
  <2>2. CASE i = n - off + 1
    BY <1>2, <1>5, <1>6, <1>7, <2>2
  <2>3. i \in 1..n - off \/ i = n - off + 1
    BY <1>7
  <2> QED
    BY <2>1, <2>2, <2>3
<1>9. new = Append(old, b)
  BY <1>5, <1>6, <1>7, <1>8, SeqEqual
<1> QED
  BY <1>9 DEF n, old, new, more

LEMMA PayloadNone ==
    ASSUME NEW data \in Seq(Byte)
    PROVE  SubSeq(data, Len(data) + 1, Len(data)) = <<>>
OBVIOUS

\* The sink leaves nothing but the room it reserves.
LEMMA SinkLeavesReserved ==
    ASSUME NEW inst \in Installs \cup {Keep}
    PROVE  Len(AfterSink(inst).buf) = AfterSink(inst).rsv
<1>1. CASE inst = Keep
  BY <1>1 DEF AfterSink
<1>2. CASE inst # Keep
  <2>1. inst \in Installs /\ inst.off \in Nat
    BY <1>2, OStreamAssumption
  <2>2. Len(Reserved(inst.off)) = inst.off
    BY <2>1, ReservedType
  <2>3. AfterSink(inst).buf = Reserved(inst.off) /\ AfterSink(inst).rsv = inst.off
    BY <1>2 DEF AfterSink
  <2> QED
    BY <2>2, <2>3
<1> QED
  BY <1>1, <1>2


LEMMA StreamType ==
    ASSUME Inductive
    PROVE  /\ buf \in Seq(Byte) /\ rsv \in Nat /\ rsv <= Len(buf)
           /\ sent \in Seq(Byte) /\ Payload(Unit) \in Seq(Byte)
           /\ Stream \in Seq(Byte)
<1>1. /\ buf \in Seq(Byte) /\ rsv \in Nat /\ sent \in Seq(Byte) /\ rsv <= Len(buf)
  BY DEF Inductive, TypeOK, ReservationIntact, UnitIntact, Unit
<1>2. Payload(Unit) \in Seq(Byte)
  BY <1>1, PayloadType DEF Payload, Unit
<1> QED
  BY <1>1, <1>2, ConcatProperties DEF Stream

\* A byte that is pushed is the next one a receiver reads.
LEMMA StreamPushed ==
    ASSUME Inductive,
           PushByte \/ \E inst \in Installs \cup {Keep} : PushThroughSink(inst)
    PROVE  Stream' = Append(Stream, NextByte)
<1>1. /\ buf \in Seq(Byte) /\ rsv \in Nat /\ rsv <= Len(buf)
      /\ sent \in Seq(Byte) /\ Payload(Unit) \in Seq(Byte) /\ Stream \in Seq(Byte)
  BY StreamType
<1>2. NextByte \in Byte
  BY NextByteKind DEF PushByte, PushThroughSink
<1>3. CASE PushByte
  <2>1. buf' = Append(buf, NextByte) /\ rsv' = rsv /\ sent' = sent
    BY <1>3 DEF PushByte
  <2>2. Payload(Unit)' = Append(Payload(Unit), NextByte)
    BY <1>1, <1>2, <2>1, PayloadOne DEF Payload, Unit
  <2>3. sent \o Append(Payload(Unit), NextByte) = Append(sent \o Payload(Unit), NextByte)
    BY <1>1, <1>2, AppendConcat
  <2> QED
    BY <2>1, <2>2, <2>3 DEF Stream
<1>4. ASSUME NEW inst \in Installs \cup {Keep}, PushThroughSink(inst)
      PROVE  Stream' = Append(Stream, NextByte)
  <2> DEFINE b == AfterSink(inst)
  <2>1. buf' = Append(b.buf, NextByte) /\ rsv' = b.rsv /\ sent' = Stream
    BY <1>4 DEF PushThroughSink, Drain, Taken, Stream
  <2>2. b.buf \in Seq(Byte) /\ b.rsv \in Nat /\ Len(b.buf) = b.rsv
    BY SinkLeavesReserved, Halves, SinkBuffer
  <2> HIDE DEF b
  <2>3. SubSeq(buf', rsv' + 1, Len(buf')) = Append(<<>>, NextByte)
    <3>1. SubSeq(b.buf, b.rsv + 1, Len(b.buf)) = <<>>
      BY <2>2, PayloadNone
    <3>2. b.rsv <= Len(b.buf)
      BY <2>2
    <3> QED
      BY <1>2, <2>1, <2>2, <3>1, <3>2, PayloadOne
  <2>4. Payload(Unit)' = Append(<<>>, NextByte)
    BY <2>3 DEF Payload, Unit
  <2>5. Stream \o Append(<<>>, NextByte) = Append(Stream \o <<>>, NextByte)
    <3>1. <<>> \in Seq(Byte)
      BY EmptySeq
    <3> QED
      BY <1>1, <1>2, <3>1, AppendConcat
  <2>6. Stream \o <<>> = Stream
    BY <1>1, ConcatEmptySeq
  <2>7. Stream' = sent' \o Payload(Unit)'
    BY DEF Stream
  <2> QED
    BY <2>1, <2>4, <2>5, <2>6, <2>7
<1> QED
  BY <1>3, <1>4

\* A buffer that is handed over, or exchanged, between two bytes.
LEMMA StreamHandedOver ==
    ASSUME Inductive, Taken, Len(buf') = rsv', buf' \in Seq(Byte)
    PROVE  Stream' = Stream
<1>1. sent' = Stream /\ Stream \in Seq(Byte)
  BY StreamType DEF Taken, Stream
<1>2. Payload(Unit)' = <<>>
  BY PayloadNone DEF Payload, Unit
<1>3. Stream' = sent' \o Payload(Unit)'
  BY DEF Stream
<1> QED
  BY <1>1, <1>2, <1>3, ConcatEmptySeq

LEMMA StreamKept ==
    ASSUME Inductive,
           \/ UNCHANGED bufVars
           \/ \E inst \in Installs \cup {Keep} : PushSinkLeftNoRoom(inst) \/ Flush(inst)
           \/ \E inst \in Installs : BufferSet(inst)
    PROVE  Stream' = Stream
<1>1. CASE UNCHANGED bufVars
  BY <1>1 DEF bufVars, Stream, Payload, Unit
<1>2. ASSUME NEW inst \in Installs \cup {Keep}, PushSinkLeftNoRoom(inst) \/ Flush(inst)
      PROVE  Stream' = Stream
  <2>1. /\ Taken /\ buf' = AfterSink(inst).buf /\ rsv' = AfterSink(inst).rsv
    BY <1>2 DEF PushSinkLeftNoRoom, Flush, Drain
  <2>2. AfterSink(inst).buf \in Seq(Byte) /\ Len(AfterSink(inst).buf) = AfterSink(inst).rsv
    BY SinkLeavesReserved, Halves, SinkBuffer
  <2> QED
    BY <2>1, <2>2, StreamHandedOver
<1>3. ASSUME NEW inst \in Installs, BufferSet(inst)
      PROVE  Stream' = Stream
  <2>1. inst.off \in Nat
    BY OStreamAssumption
  <2>2. buf' \in Seq(Byte) /\ Len(buf') = rsv'
    BY <1>3, <2>1, ReservedType DEF BufferSet
  <2>3. CASE HasSink
    <3>1. sent' = sent /\ Len(buf) = rsv
      BY <1>3, <2>3 DEF BufferSet
    <3>2. Payload(Unit) = <<>> /\ Payload(Unit)' = <<>>
      BY <2>2, <3>1, StreamType, PayloadNone DEF Payload, Unit
    <3> QED
      BY <3>1, <3>2 DEF Stream
  <2>4. CASE ~HasSink
    BY <1>3, <2>2, <2>4, StreamHandedOver DEF BufferSet
  <2> QED
    BY <2>3, <2>4
<1> QED
  BY <1>1, <1>2, <1>3

\* Every step, as far as the stream and the running call go.
Pushes ==
    /\ HasByte /\ Advance /\ Framing(NextByte)
    /\ UNCHANGED <<op, ret, nest, failed>>
    /\ Stream' = Append(Stream, NextByte)

Calls ==
    \/ Refuse
    \/ Starts
    \/ \E id \in Ids : Len(pending) < LAZY_SEQ_DEPTH /\ HoldBack(id)
    \/ pending # <<>> /\ DropHeld
    \/ UNCHANGED <<pending, callVars, nest, framed, failed>>

LEMMA StepEffects ==
    ASSUME Inductive, [Next]_vars
    PROVE  Pushes \/ (Stream' = Stream /\ ((HasByte /\ GiveUp) \/ Return \/ Calls))
<1>1. CASE PushByte \/ \E inst \in Installs \cup {Keep} : PushThroughSink(inst)
  BY <1>1, StreamPushed DEF Pushes, PushByte, PushThroughSink
<1>2. CASE \E inst \in Installs \cup {Keep} : PushNoRoom(inst)
  BY <1>2, StreamKept DEF PushNoRoom, PushSinkLeftNoRoom, PushNoSink
<1>3. CASE Return
  BY <1>3, StreamKept DEF Return
<1>4. CASE Call
  <2>1. TypeOK
    BY DEF Inductive
  <2>2. ASSUME Refuse \/ Starts \/ (\E id \in Ids : HoldBack(id)) \/ DropHeld
        PROVE  Stream' = Stream
    BY <2>2, StreamKept DEF Refuse, Starts, Start, HoldBack, DropHeld
  <2>3. ASSUME \/ \E inst \in Installs \cup {Keep} : Flush(inst)
               \/ \E inst \in Installs : BufferSet(inst)
        PROVE  Stream' = Stream /\ Calls
    BY <2>3, StreamKept DEF Flush, BufferSet, Calls
  <2> QED
    BY <1>4, <2>1, <2>2, <2>3, CallEffects DEF Calls
<1>5. CASE UNCHANGED vars
  BY <1>5, StreamKept DEF vars, bufVars, callVars, Calls
<1> QED
  BY <1>1, <1>2, <1>3, <1>4, <1>5 DEF Next, Running


-----------------------------------------------------------------------------
(* The stream is contiguous.                                               *)

LEMMA LastOfAppend ==
    ASSUME NEW s \in Seq(Byte), NEW b \in Byte
    PROVE  /\ Append(s, b) \in Seq(Byte) /\ Append(s, b) # <<>>
           /\ Last(Append(s, b)) = b
           /\ Len(Append(s, b)) = Len(s) + 1
           /\ \A k \in 1..Len(s) : Append(s, b)[k] = s[k]
           /\ Append(s, b)[Len(s) + 1] = b
<1>1. /\ Append(s, b) \in Seq(Byte) /\ Len(Append(s, b)) = Len(s) + 1
      /\ \A k \in 1..Len(s) : Append(s, b)[k] = s[k]
      /\ Append(s, b)[Len(s) + 1] = b
  BY AppendProperties
<1>2. Append(s, b) # <<>>
  <2>1. Len(Append(s, b)) # 0
    BY <1>1
  <2> QED
    BY <2>1, EmptySeq
<1> QED
  BY <1>1, <1>2 DEF Last

LEMMA StreamGrows ==
    ASSUME Stream \in Seq(Byte), NEW b \in Byte, Stream' = Append(Stream, b),
           failed' = failed, BytesContiguous, CanonicalOmission,
           Resumes(b) \/ (Rested /\ b.i = 1),
           HeldLast => b.tok # "end"
    PROVE  BytesContiguous' /\ CanonicalOmission'
<1> DEFINE n == Len(Stream)
<1>1. /\ Stream' \in Seq(Byte) /\ Len(Stream') = n + 1 /\ n \in Nat
      /\ \A k \in 1..n : Stream'[k] = Stream[k]
      /\ Stream'[n + 1] = b
  BY LastOfAppend
<1>2. n > 0 => Stream # <<>> /\ Last(Stream) = Stream[n]
  BY DEF Last
<1>3. n = Len(Stream)
  OBVIOUS
<1> HIDE DEF n
<1>4. ASSUME NEW k \in 1..n
      PROVE  /\ \/ Stream'[k + 1] = Continued(Stream'[k])
                \/ Stream'[k + 1].i = 1 /\ (Stream'[k].i = Stream'[k].n \/ failed)
             /\ ~failed => ~(Stream'[k].tok = "held" /\ Stream'[k + 1].tok = "end")
  <2>1. CASE k \in 1..n - 1
    <3>1. k \in 1..n /\ k + 1 \in 1..n
      BY <1>1, <2>1
    <3>2. Stream'[k] = Stream[k] /\ Stream'[k + 1] = Stream[k + 1]
      BY <1>1, <3>1
    <3>3. \/ Stream[k + 1] = Continued(Stream[k])
          \/ Stream[k + 1].i = 1 /\ (Stream[k].i = Stream[k].n \/ failed)
      BY <1>3, <2>1 DEF BytesContiguous
    <3>4. ~failed => ~(Stream[k].tok = "held" /\ Stream[k + 1].tok = "end")
      BY <1>3, <2>1 DEF CanonicalOmission, EmptyHeldFrame
    <3> QED
      BY <3>2, <3>3, <3>4
  <2>2. CASE k = n
    <3>1. Stream # <<>> /\ Stream'[k] = Last(Stream) /\ Stream'[k + 1] = b
      BY <1>1, <1>2, <2>2
    <3> QED
      BY <3>1 DEF Resumes, Rested, HeldLast
  <2>3. k \in 1..n - 1 \/ k = n
    BY <1>1
  <2> QED
    BY <2>1, <2>2, <2>3
<1>5. Len(Stream') - 1 = n
  BY <1>1
<1>6. BytesContiguous'
  BY <1>4, <1>5 DEF BytesContiguous
<1>7. CanonicalOmission'
  BY <1>4, <1>5 DEF CanonicalOmission, EmptyHeldFrame
<1> QED
  BY <1>6, <1>7

\* What the call pushes next goes on with the last token of the stream, or
\* starts one where that has ended.
LEMMA NextByteFits ==
    ASSUME Inductive, StreamInCall, HasByte
    PROVE  /\ Resumes(NextByte) \/ (Rested /\ NextByte.i = 1)
           /\ HeldLast => NextByte.tok # "end"
<1>1. CASE phase = "commit"
  <2>1. NextByte.tok = "held" /\ NextByte.i = hpos + 1
    BY <1>1, NextByteKind
  <2> QED
    BY <1>1, <2>1 DEF StreamInCall
<1>2. CASE phase = "emit"
  <2>1. todo # <<>> /\ NextByte = todo[1]
    BY <1>2, NextByteKind
  <2> QED
    BY <1>2, <2>1 DEF StreamInCall
<1> QED
  BY <1>1, <1>2 DEF HasByte

LEMMA TailInOrder ==
    ASSUME NEW t \in Seq(Byte), t # <<>>, NEW result, InOrder(t, result)
    PROVE  /\ InOrder(Tail(t), result)
           /\ Tail(t) # <<>> => Tail(t)[1] = Continued(t[1])
           /\ Tail(t) = <<>> => Len(t) = 1
<1>1. /\ Len(t) \in Nat /\ Len(t) > 0 /\ Tail(t) \in Seq(Byte)
      /\ Len(Tail(t)) = Len(t) - 1
      /\ \A j \in 1..Len(Tail(t)) : Tail(t)[j] = t[j + 1]
  BY HeadTailProperties
<1> DEFINE u == Tail(t)
           n == Len(t)
<1>2. n = Len(t) /\ u \in Seq(Byte)
  BY <1>1
<1>3. n \in Nat /\ n > 0 /\ Len(u) = n - 1 /\ \A j \in 1..n - 1 : u[j] = t[j + 1]
  BY <1>1
<1> HIDE DEF u, n
<1>4. ASSUME NEW j \in 1..Len(u) - 1
      PROVE  u[j + 1] = Continued(u[j])
  <2>1. j \in 1..n - 1 /\ j + 1 \in 1..n - 1 /\ j + 1 \in 1..Len(t) - 1
    BY <1>2, <1>3
  <2> QED
    BY <1>3, <2>1 DEF InOrder
<1>5. ASSUME NEW j \in 1..Len(u)
      PROVE  /\ u[j].tok # "held"
             /\ IF u[j].tok \in {"end", "keep", "stray"}
                THEN u[j] = [tok |-> u[j].tok, id |-> 0, i |-> 1, n |-> 1]
                ELSE u[j].id \in Ids
             /\ j = Len(u) /\ result = "ok" => u[j].i = u[j].n
  <2>1. j \in 1..n - 1 /\ j + 1 \in 1..Len(t) /\ (j = Len(u) => j + 1 = Len(t))
    BY <1>2, <1>3
  <2>2. u[j] = t[j + 1]
    BY <1>3, <2>1
  <2> QED
    BY <2>1, <2>2 DEF InOrder
<1>6. InOrder(u, result)
  BY <1>4, <1>5 DEF InOrder
<1>7. ASSUME u # <<>>
      PROVE  u[1] = Continued(t[1])
  <2>1. Len(u) # 0
    BY <1>2, <1>7, EmptySeq
  <2>2. 1 \in 1..n - 1 /\ 1 \in 1..Len(t) - 1
    BY <1>2, <1>3, <2>1
  <2> QED
    BY <1>3, <2>2 DEF InOrder
<1>8. u = <<>> => n = 1
  BY <1>3
<1> QED
  BY <1>2, <1>6, <1>7, <1>8 DEF u


\* The bytes of a header that is held back, one after the other.
LEMMA NextHeaderByte ==
    ASSUME Inductive, HasByte, phase = "commit", phase' = "commit",
           hpos + 1 < IdLen[Head(pending)], hpos' = hpos + 1, pending' = pending
    PROVE  NextByte' = Continued(NextByte)
<1> DEFINE h == Head(pending)
           n == IdLen[h]
<1>1. h \in Ids /\ hpos \in Nat
  BY HeadTailProperties DEF Inductive, TypeOK
<1>2. n \in Nat /\ "held" \in Tokens
  BY <1>1, OStreamAssumption DEF Tokens
<1>3. NextByte = Bytes("held", h, n)[hpos + 1] /\ NextByte' = Bytes("held", h, n)[hpos + 2]
  <2>1. NextByte' = Bytes("held", h, n)[hpos + 1 + 1]
    BY DEF NextByte
  <2>2. hpos + 1 + 1 = hpos + 2
    BY <1>1
  <2> QED
    BY <2>1, <2>2 DEF NextByte
<1>4. hpos + 1 < n
  OBVIOUS
<1> HIDE DEF h, n
<1>5. hpos + 1 \in 1..n /\ hpos + 2 \in 1..n
  BY <1>1, <1>2, <1>4
<1>6. /\ NextByte = [tok |-> "held", id |-> h, i |-> hpos + 1, n |-> n]
      /\ NextByte' = [tok |-> "held", id |-> h, i |-> hpos + 2, n |-> n]
  BY <1>1, <1>2, <1>3, <1>5, BytesType
<1>7. hpos + 2 = hpos + 1 + 1
  BY <1>1
<1> QED
  BY <1>6, <1>7 DEF Continued

LEMMA InCallPushed ==
    ASSUME Inductive, StreamInCall, Pushes
    PROVE  StreamInCall'
<1> DEFINE b == NextByte
<1>1. /\ Stream \in Seq(Byte) /\ b \in Byte /\ Stream' = Append(Stream, b)
      /\ HasByte /\ Advance
      /\ failed' = failed /\ op' = op /\ nest' = nest
      /\ phase \in {"commit", "emit"} /\ todo \in Seq(Byte)
      /\ op.kind = "end" => nest # <<>>
      /\ op.kind = "stray" => nest = <<>>
  BY StreamType, NextByteKind DEF Pushes, HasByte, Inductive, TypeOK, StreamInCall
<1>2. b = NextByte
  OBVIOUS
<1> HIDE DEF b
<1>3. Stream' # <<>> /\ Last(Stream)' = b
  BY <1>1, LastOfAppend
<1>4. b.i = b.n => Rested'
  BY <1>3 DEF Rested
<1>5. HeldLast' => b.tok = "held"
  BY <1>3 DEF HeldLast
<1>6. InOrder(todo, op.result)
  BY DEF StreamInCall
<1>7. CASE phase = "commit" /\ hpos + 1 < IdLen[Head(pending)] /\ hpos' = hpos + 1
           /\ UNCHANGED <<pending, phase, todo>>
  <2>1. NextByte' = Continued(b)
    BY <1>1, <1>2, <1>7, NextHeaderByte
  <2>2. Resumes(NextByte)'
    BY <1>3, <2>1 DEF Resumes
  <2>3. hpos' # 0
    BY <1>7 DEF Inductive, TypeOK
  <2> QED
    BY <1>1, <1>7, <2>2, <2>3 DEF StreamInCall
<1>8. CASE phase = "commit" /\ hpos + 1 = IdLen[Head(pending)] /\ hpos' = 0
           /\ pending' = Tail(pending)
           /\ phase' = (IF Len(pending) = 1 THEN "emit" ELSE "commit") /\ UNCHANGED todo
  <2>1. b.i = b.n
    BY <1>1, <1>2, <1>8, NextByteKind
  <2>2. /\ todo # <<>> => todo[1].i = 1 /\ todo[1].tok # "end"
        /\ todo = <<>> => op.result # "ok"
    BY <1>8 DEF StreamInCall
  <2>3. Rested'
    BY <1>4, <2>1
  <2>4. CASE phase' = "commit"
    BY <1>1, <1>6, <1>8, <2>2, <2>3, <2>4 DEF StreamInCall
  <2>5. CASE phase' = "emit"
    BY <1>1, <1>6, <1>8, <2>2, <2>3, <2>5 DEF StreamInCall
  <2> QED
    BY <1>8, <2>4, <2>5
<1>9. CASE phase = "emit" /\ todo' = Tail(todo) /\ UNCHANGED <<pending, phase, hpos>>
  <2>1. todo # <<>> /\ b = todo[1]
    BY <1>1, <1>2, <1>9, NextByteKind
  <2>2. /\ InOrder(todo', op.result)
        /\ todo' # <<>> => todo'[1] = Continued(b)
        /\ todo' = <<>> => Len(todo) = 1
    BY <1>1, <1>6, <1>9, <2>1, TailInOrder
  <2>3. b.tok # "held" /\ (Len(todo) = 1 /\ op.result = "ok" => b.i = b.n)
    <3>1. 1 \in 1..Len(todo)
      BY <1>1, <2>1
    <3> QED
      BY <1>6, <2>1, <3>1 DEF InOrder
  <2>4. ~HeldLast'
    BY <1>5, <2>3
  <2>5. CASE todo' = <<>>
    <3>1. op.result = "ok" => Rested'
      BY <1>4, <2>2, <2>3, <2>5
    <3> QED
      BY <1>1, <1>9, <2>2, <2>4, <2>5, <3>1 DEF StreamInCall
  <2>6. CASE todo' # <<>>
    <3>1. Resumes(todo[1])'
      BY <1>3, <2>2, <2>6 DEF Resumes
    <3> QED
      BY <1>1, <1>9, <2>2, <2>4, <2>6, <3>1 DEF StreamInCall
  <2> QED
    BY <2>5, <2>6
<1> QED
  BY <1>1, <1>7, <1>8, <1>9 DEF Advance

LEMMA InCallKept ==
    ASSUME Inductive, StreamInCall, Stream' = Stream, (HasByte /\ GiveUp) \/ Return \/ Calls
    PROVE  StreamInCall'
<1>1. /\ Rested /\ failed' = failed => Rested'
      /\ failed' => Rested' /\ ~HeldLast'
      /\ ~HeldLast /\ failed' = failed => ~HeldLast'
  BY DEF Rested, HeldLast
<1>2. ASSUME NEW r PROVE InOrder(<<>>, r)
  BY DEF InOrder
<1>3. CASE HasByte /\ GiveUp
  <2>1. phase' = "idle" /\ todo' = <<>> /\ failed'
    BY <1>3 DEF GiveUp
  <2> QED
    BY <1>1, <1>2, <2>1 DEF StreamInCall
<1>4. CASE Return
  <2>1. /\ phase = "emit" /\ todo = <<>> /\ phase' = "idle" /\ UNCHANGED <<todo, op>>
        /\ failed' = (failed \/ op.result # "ok") /\ failed \in BOOLEAN
    BY <1>4 DEF Return, Inductive, TypeOK
  <2>2. Rested' /\ ~HeldLast'
    <3>1. CASE op.result = "ok"
      BY <1>1, <2>1, <3>1 DEF StreamInCall
    <3>2. CASE op.result # "ok"
      BY <1>1, <2>1, <3>2
    <3> QED
      BY <3>1, <3>2
  <2> QED
    BY <2>1, <2>2 DEF StreamInCall
<1>5. CASE Refuse
  <2>1. phase = "idle" /\ phase' = "idle" /\ failed' /\ UNCHANGED <<todo, op>>
    BY <1>5 DEF Refuse, Called, callVars
  <2> QED
    BY <1>1, <2>1 DEF StreamInCall
<1>6. ASSUME NEW kind, NEW id, NEW bytes, NEW result, Start(kind, id, bytes, result),
             StartOK(kind, id, bytes, result), StartFits(kind, bytes)
      PROVE  StreamInCall'
  <2>1. /\ phase = "idle" /\ phase' = (IF pending # <<>> THEN "commit" ELSE "emit")
        /\ hpos' = 0 /\ todo' = bytes /\ op' = [kind |-> kind, id |-> id, result |-> result]
        /\ failed' = failed /\ nest' = nest
    BY <1>6 DEF Start, Called
  <2>2. op'.kind = kind /\ op'.result = result
    BY <2>1
  <2>3. /\ InOrder(bytes, result)
        /\ bytes # <<>> => bytes[1].i = 1
        /\ result = "ok" => bytes # <<>>
        /\ kind = "end" => nest # <<>>
        /\ kind = "stray" => nest = <<>>
        /\ bytes # <<>> /\ bytes[1].tok = "end" => pending = <<>>
    BY <1>6 DEF StartOK, StartFits
  <2>4. Rested' /\ ~HeldLast'
    BY <1>1, <2>1 DEF StreamInCall
  <2>5. CASE pending # <<>>
    BY <2>1, <2>2, <2>3, <2>4, <2>5 DEF StreamInCall
  <2>6. CASE pending = <<>>
    BY <2>1, <2>2, <2>3, <2>4, <2>6 DEF StreamInCall
  <2> QED
    BY <2>5, <2>6
<1>7. CASE (\E id \in Ids : HoldBack(id)) \/ DropHeld
  <2>1. phase = "idle" /\ phase' = "idle" /\ failed' = failed /\ UNCHANGED <<todo, op>>
    BY <1>7 DEF HoldBack, DropHeld, Called, callVars
  <2> QED
    BY <1>1, <2>1 DEF StreamInCall
<1>8. CASE UNCHANGED <<pending, callVars, nest, framed, failed>>
  <2>1. UNCHANGED <<phase, hpos, todo, op, nest, pending, failed>>
    BY <1>8 DEF callVars
  <2>2. Rested' = Rested /\ HeldLast' = HeldLast /\ NextByte' = NextByte
        /\ (\A b : Resumes(b)' = Resumes(b))
    BY <2>1 DEF Rested, HeldLast, NextByte, Resumes
  <2> QED
    BY <2>1, <2>2 DEF StreamInCall
<1> QED
  BY <1>3, <1>4, <1>5, <1>6, <1>7, <1>8 DEF Calls, Starts


\* A failure is never taken back.
LEMMA FailedStays ==
    ASSUME (HasByte /\ GiveUp) \/ Return \/ Calls
    PROVE  failed => failed'
BY DEF GiveUp, Return, Calls, Refuse, Starts, Start, HoldBack, DropHeld

LEMMA StreamStep ==
    ASSUME Inductive, StreamInv,
           Pushes \/ (Stream' = Stream /\ ((HasByte /\ GiveUp) \/ Return \/ Calls))
    PROVE  StreamInv'
<1>0. BytesContiguous /\ CanonicalOmission /\ StreamInCall
  BY DEF StreamInv
<1>1. CASE Pushes
  <2>1. /\ HasByte /\ Stream \in Seq(Byte) /\ NextByte \in Byte
        /\ Stream' = Append(Stream, NextByte) /\ failed' = failed
    BY <1>1, StreamType, NextByteKind DEF Pushes
  <2>2. /\ Resumes(NextByte) \/ (Rested /\ NextByte.i = 1)
        /\ HeldLast => NextByte.tok # "end"
    BY <1>0, <2>1, NextByteFits
  <2>3. BytesContiguous' /\ CanonicalOmission'
    BY <1>0, <2>1, <2>2, StreamGrows
  <2> QED
    BY <1>0, <1>1, <2>3, InCallPushed DEF StreamInv
<1>2. CASE Stream' = Stream /\ ((HasByte /\ GiveUp) \/ Return \/ Calls)
  <2>1. StreamInCall' /\ (failed => failed')
    BY <1>0, <1>2, InCallKept, FailedStays
  <2>2. BytesContiguous'
    BY <1>0, <1>2, <2>1 DEF BytesContiguous
  <2>3. CanonicalOmission'
    BY <1>0, <1>2, <2>1 DEF CanonicalOmission, EmptyHeldFrame
  <2> QED
    BY <2>1, <2>2, <2>3 DEF StreamInv
<1> QED
  BY <1>1, <1>2

LEMMA StreamInit ==
    ASSUME Init
    PROVE  StreamInv /\ Stream = <<>>
<1>1. PICK inst \in Installs : buf = Reserved(inst.off) /\ rsv = inst.off
  BY DEF Init
<1>2. inst.off \in Nat
  BY OStreamAssumption
<1>3. buf \in Seq(Byte) /\ Len(buf) = rsv
  BY <1>1, <1>2, ReservedType
<1>4. Payload(Unit) = <<>>
  BY <1>3, PayloadNone DEF Payload, Unit
<1>5. sent = <<>> /\ phase = "idle" /\ todo = <<>>
  BY DEF Init
<1>6. Stream = <<>>
  <2>1. Stream = <<>> \o <<>>
    BY <1>4, <1>5 DEF Stream
  <2> QED
    BY <2>1, EmptySeq, ConcatEmptySeq
<1>7. Len(Stream) = 0
  BY <1>6
<1>8. BytesContiguous /\ CanonicalOmission
  BY <1>7 DEF BytesContiguous, CanonicalOmission, EmptyHeldFrame
<1>9. StreamInCall
  BY <1>5, <1>6 DEF StreamInCall, InOrder, Rested, HeldLast
<1> QED
  BY <1>6, <1>8, <1>9 DEF StreamInv

-----------------------------------------------------------------------------
(* The tokens on the wire.                                                 *)

LEMMA RankType ==
    ASSUME NEW E, IsFiniteSet(E), NEW e
    PROVE  /\ Cardinality(E) \in Nat /\ Rank(E, e) \in Nat
           /\ Rank(E, e) <= Cardinality(E)
<1>1. {k \in E : k <= e} \subseteq E
  OBVIOUS
<1>2. /\ IsFiniteSet({k \in E : k <= e})
      /\ Cardinality({k \in E : k <= e}) <= Cardinality(E)
  BY <1>1, FS_Subset
<1> QED
  BY <1>2, FS_CardinalityType DEF Rank

Joined(E, m) == E \cup {m}

\* Where one more token ends, behind all others.
LEMMA RankGrows ==
    ASSUME NEW n \in Nat, NEW E \in SUBSET (1..n), NEW m \in Nat, m > n
    PROVE  /\ Cardinality(E) \in Nat
           /\ Cardinality(Joined(E, m)) = Cardinality(E) + 1
           /\ \A k \in 1..Cardinality(E) : Ranked(Joined(E, m), k) = Ranked(E, k)
           /\ Ranked(Joined(E, m), Cardinality(E) + 1) = {m}
<1> DEFINE F == E \cup {m}
           c == Cardinality(E)
<1>1. IsFiniteSet(E) /\ m \notin E /\ \A e \in E : e \in Nat /\ e < m
  <2>1. IsFiniteSet(1..n)
    BY FS_Interval
  <2>2. IsFiniteSet(E)
    BY <2>1, FS_Subset
  <2>3. \A e \in E : e \in Nat /\ e < m
    OBVIOUS
  <2> QED
    BY <2>2, <2>3
<1>2. c \in Nat /\ Cardinality(F) = c + 1
  BY <1>1, FS_AddElement, FS_CardinalityType
<1>3. ASSUME NEW e \in E
      PROVE  Rank(F, e) = Rank(E, e) /\ Rank(E, e) \in Nat /\ Rank(E, e) <= c
  <2>1. {k \in F : k <= e} = {k \in E : k <= e}
    BY <1>1
  <2> QED
    BY <1>1, <2>1, RankType DEF Rank
<1>4. Rank(F, m) = c + 1
  <2>0. \A k \in F : k <= m
    BY <1>1
  <2> HIDE DEF F
  <2>1. {k \in F : k <= m} = F
    BY <2>0
  <2> QED
    BY <1>2, <2>1 DEF Rank
<1> HIDE DEF c
<1>5. ASSUME NEW k \in 1..c
      PROVE  Ranked(F, k) = Ranked(E, k)
  <2>1. Rank(F, m) # k
    BY <1>2, <1>4
  <2> HIDE DEF F
  <2>2. \A e : e \in F <=> e \in E \/ e = m
    BY DEF F
  <2> QED
    BY <1>1, <1>3, <2>1, <2>2 DEF Ranked
<1>6. Ranked(F, c + 1) = {m}
  <2>1. \A e \in E : Rank(F, e) # c + 1
    BY <1>2, <1>3
  <2> HIDE DEF F
  <2>2. \A e : e \in F <=> e \in E \/ e = m
    BY DEF F
  <2> QED
    BY <1>4, <2>1, <2>2 DEF Ranked
<1> HIDE DEF F
<1>7. F = Joined(E, m)
  BY DEF F, Joined
<1> QED
  BY <1>2, <1>5, <1>6, <1>7 DEF c

WireToken == [tok : Tokens, id : Ids \cup {0}]

TokenOf(b) == [tok |-> b.tok, id |-> b.id]

LEMMA EndsType ==
    ASSUME NEW s \in Seq(Byte)
    PROVE  Ends(s) \in SUBSET (1..Len(s)) /\ IsFiniteSet(Ends(s)) /\ Cardinality(Ends(s)) \in Nat
<1>1. Len(s) \in Nat /\ Ends(s) \subseteq 1..Len(s)
  BY DEF Ends
<1>2. IsFiniteSet(1..Len(s))
  BY <1>1, FS_Interval
<1> QED
  BY <1>1, <1>2, FS_Subset, FS_CardinalityType

\* The byte b ends a token, or does not.
LEMMA EndsGrow ==
    ASSUME NEW s \in Seq(Byte), NEW b \in Byte
    PROVE  Ends(Append(s, b)) = IF b.i = b.n THEN Ends(s) \cup {Len(s) + 1} ELSE Ends(s)
<1> DEFINE n == Len(s)
           t == Append(s, b)
<1>1. /\ n \in Nat /\ n = Len(s) /\ Len(t) = n + 1
      /\ \A k \in 1..n : t[k] = s[k]
      /\ t[n + 1] = b
  BY LastOfAppend
<1> HIDE DEF n, t
<1>2. 1..n + 1 = (1..n) \cup {n + 1} /\ n + 1 \notin 1..n
  BY <1>1
<1>3. Ends(t) = IF b.i = b.n THEN Ends(s) \cup {n + 1} ELSE Ends(s)
  BY <1>1, <1>2 DEF Ends
<1> QED
  BY <1>3 DEF n, t

\* Every token the wire counts does end somewhere in the bytes s.
Found(s) == \A k \in 1..Cardinality(Ends(s)) : Ranked(Ends(s), k) # {}

LEMMA WholeType ==
    ASSUME NEW s \in Seq(Byte), Found(s)
    PROVE  Whole(s) \in Seq(WireToken) /\ Len(Whole(s)) = Cardinality(Ends(s))
<1> DEFINE E == Ends(s)
           c == Cardinality(Ends(s))
           at(k) == CHOOSE e \in Ranked(E, k) : TRUE
<1>1. c \in Nat /\ E \in SUBSET (1..Len(s))
  BY EndsType
<1>2. ASSUME NEW k \in 1..c
      PROVE  TokenOf(s[at(k)]) \in WireToken
  <2>1. at(k) \in Ranked(E, k)
    BY <1>2 DEF Found
  <2>2. at(k) \in 1..Len(s)
    BY <1>1, <2>1 DEF Ranked
  <2>3. s[at(k)] \in Byte
    BY <2>2
  <2> QED
    BY <2>3 DEF Byte, WireToken, TokenOf
<1>3. Whole(s) = [k \in 1..c |-> TokenOf(s[at(k)])]
  BY DEF Whole, TokenOf
<1> HIDE DEF c, E, at
<1>4. Whole(s) \in Seq(WireToken) /\ Len(Whole(s)) = c
  BY <1>1, <1>2, <1>3
<1> QED
  BY <1>4 DEF c


LEMMA WholeGrows ==
    ASSUME NEW s \in Seq(Byte), NEW b \in Byte, Found(s)
    PROVE  /\ Found(Append(s, b))
           /\ Whole(Append(s, b)) = IF b.i = b.n THEN Append(Whole(s), TokenOf(b)) ELSE Whole(s)
<1> DEFINE n == Len(s)
           t == Append(s, b)
           c == Cardinality(Ends(s))
           at(E, k) == CHOOSE e \in Ranked(E, k) : TRUE
<1>1. /\ n \in Nat /\ t \in Seq(Byte)
      /\ \A k \in 1..n : t[k] = s[k]
      /\ t[n + 1] = b
      /\ Ends(s) \in SUBSET (1..n) /\ c \in Nat
      /\ Ends(t) = IF b.i = b.n THEN Ends(s) \cup {n + 1} ELSE Ends(s)
  BY LastOfAppend, EndsGrow, EndsType
<1>2. /\ Whole(s) = [k \in 1..c |-> TokenOf(s[at(Ends(s), k)])]
      /\ Whole(t) = [k \in 1..Cardinality(Ends(t)) |-> TokenOf(t[at(Ends(t), k)])]
  BY DEF Whole, TokenOf
<1>3. Whole(s) \in Seq(WireToken) /\ Len(Whole(s)) = c /\ TokenOf(b) \in WireToken
  BY WholeType DEF WireToken, TokenOf, Byte
<1> HIDE DEF n, t, c
<1>4. ASSUME NEW k \in 1..c
      PROVE  t[at(Ends(s), k)] = s[at(Ends(s), k)]
  <2>1. at(Ends(s), k) \in Ranked(Ends(s), k)
    BY <1>4 DEF Found, c
  <2>2. at(Ends(s), k) \in 1..n
    BY <1>1, <2>1 DEF Ranked
  <2> HIDE DEF at
  <2> QED
    BY <1>1, <2>2
<1>5. CASE b.i # b.n
  <2>1. Ends(t) = Ends(s)
    BY <1>1, <1>5
  <2>2. Whole(t) = [k \in 1..c |-> TokenOf(t[at(Ends(s), k)])]
    BY <1>2, <2>1 DEF c
  <2> HIDE DEF at
  <2>3. Whole(t) = Whole(s)
    BY <1>2, <1>4, <2>2
  <2> QED
    BY <1>5, <2>1, <2>3 DEF Found, t
<1>6. CASE b.i = b.n
  <2> DEFINE F == Ends(t)
  <2>1. F = Ends(s) \cup {n + 1} /\ n + 1 \in Nat /\ n + 1 > n
    BY <1>1, <1>6
  <2>2. /\ Cardinality(F) = c + 1
        /\ \A k \in 1..c : Ranked(F, k) = Ranked(Ends(s), k)
        /\ Ranked(F, c + 1) = {n + 1}
    <3> DEFINE E == Ends(s)
               m == n + 1
    <3>1. n \in Nat /\ E \in SUBSET (1..n) /\ m \in Nat /\ m > n
      BY <1>1
    <3> HIDE DEF E, m
    <3>2. F = Joined(E, m)
      BY <2>1 DEF E, m, Joined
    <3>3. /\ Cardinality(Joined(E, m)) = Cardinality(E) + 1
          /\ \A k \in 1..Cardinality(E) : Ranked(Joined(E, m), k) = Ranked(E, k)
          /\ Ranked(Joined(E, m), Cardinality(E) + 1) = {m}
      BY <3>1, RankGrows
    <3> HIDE DEF F
    <3> QED
      BY <3>2, <3>3 DEF E, m, c
  <2>3. Whole(t) = [k \in 1..c + 1 |-> TokenOf(t[at(F, k)])]
    BY <1>2, <2>2
  <2>4. at(F, c + 1) = n + 1
    BY <2>2
  <2>5. \A k \in 1..c : at(F, k) = at(Ends(s), k)
    BY <2>2
  <2> HIDE DEF at, F
  <2>6. /\ DOMAIN Whole(t) = 1..c + 1
        /\ \A k \in 1..c : Whole(t)[k] = Whole(s)[k]
        /\ Whole(t)[c + 1] = TokenOf(b)
    <3>1. c + 1 \in 1..c + 1 /\ \A k \in 1..c : k \in 1..c + 1
      BY <1>1
    <3>2. ASSUME NEW k \in 1..c
          PROVE  Whole(t)[k] = Whole(s)[k]
      <4>1. Whole(t)[k] = TokenOf(t[at(F, k)])
        BY <2>3, <3>1
      <4>2. Whole(s)[k] = TokenOf(s[at(Ends(s), k)])
        BY <1>2
      <4> QED
        BY <1>4, <2>5, <4>1, <4>2
    <3> QED
      BY <1>1, <2>3, <2>4, <3>1, <3>2
  <2>7. Found(t)
    <3>1. \A k \in 1..c + 1 : k \in 1..c \/ k = c + 1
      BY <1>1
    <3>2. \A k \in 1..c + 1 : Ranked(F, k) # {}
      BY <2>2, <3>1 DEF Found, c
    <3> QED
      BY <2>2, <3>2 DEF Found, F
  <2>8. Whole(t) = Append(Whole(s), TokenOf(b))
    <3> DEFINE w == Whole(s)
               x == TokenOf(b)
    <3>1. /\ Append(w, x) \in Seq(WireToken) /\ Len(Append(w, x)) = c + 1
          /\ \A k \in 1..c : Append(w, x)[k] = w[k]
          /\ Append(w, x)[c + 1] = x
      BY <1>3, AppendProperties
    <3>2. Whole(t) \in Seq(WireToken) /\ Len(Whole(t)) = c + 1
      BY <1>1, <2>2, <2>7, WholeType DEF F
    <3>3. \A k \in 1..c + 1 : k \in 1..c \/ k = c + 1
      BY <1>1
    <3> HIDE DEF w, x
    <3>4. \A k \in 1..c + 1 : Whole(t)[k] = Append(w, x)[k]
      BY <2>6, <3>1, <3>3 DEF w, x
    <3>5. Whole(t) = Append(w, x)
      BY <3>1, <3>2, <3>4, SeqEqual
    <3> QED
      BY <3>5 DEF w, x
  <2> QED
    BY <1>6, <2>7, <2>8 DEF t
<1> QED
  BY <1>5, <1>6

LEMMA WholeNone == Whole(<<>>) = <<>> /\ Found(<<>>)
<1>1. Ends(<<>>) = {}
  BY DEF Ends
<1>2. Cardinality({}) = 0
  BY FS_EmptySet
<1>3. <<>> \in Seq(Byte) /\ Found(<<>>)
  BY <1>1, <1>2, EmptySeq DEF Found
<1>4. Whole(<<>>) \in Seq(WireToken) /\ Len(Whole(<<>>)) = 0
  BY <1>1, <1>2, <1>3, WholeType
<1> QED
  BY <1>3, <1>4, EmptySeq


\* A step that pushes a byte is a step of the abstract writer if the byte is
\* the last of its token, and a stutter otherwise.
LEMMA PushWrites ==
    ASSUME Inductive, StreamInCall, Pushes,
           Wire' = IF NextByte.i = NextByte.n THEN Append(Wire, TokenOf(NextByte)) ELSE Wire
    PROVE  [Writer!Next]_(Writer!vars)
<1> DEFINE b == NextByte
<1>1. /\ b \in Byte /\ HasByte /\ Advance /\ Framing(b)
      /\ pending \in Seq(Ids) /\ framed \in Seq(Ids)
      /\ Wire' = IF b.i = b.n THEN Append(Wire, [tok |-> b.tok, id |-> b.id]) ELSE Wire
  BY NextByteKind DEF Pushes, Inductive, TypeOK, TokenOf
<1>2. b = NextByte
  OBVIOUS
<1> HIDE DEF b
<1>3. CASE phase = "commit"
  <2>1. b.tok = "held" /\ b.id = Head(pending) /\ b.i = hpos + 1 /\ b.n = IdLen[Head(pending)]
    BY <1>1, <1>2, <1>3, NextByteKind
  <2>2. CASE b.i = b.n
    <3>0. hpos \in Nat /\ IdLen[Head(pending)] \in Nat
      <4>1. hpos \in Nat /\ Head(pending) \in Ids
        BY <1>1, <1>3, HeadTailProperties DEF Inductive, TypeOK
      <4> QED
        BY <4>1, OStreamAssumption
    <3>1. pending' = Tail(pending)
      BY <1>1, <1>3, <2>1, <2>2, <3>0 DEF Advance
    <3>2. framed' = Append(framed, Head(pending))
      BY <1>1, <2>1, <2>2 DEF Framing
    <3>3. pending # <<>>
      BY <1>3 DEF Inductive, TypeOK
    <3>4. Wire' = Append(Wire, [tok |-> "held", id |-> Head(pending)])
      BY <1>1, <2>1, <2>2
    <3> QED
      BY <3>1, <3>2, <3>3, <3>4 DEF Writer!Next, Writer!Commit, Writer!Put
  <2>3. CASE b.i # b.n
    <3>1. pending' = pending
      BY <1>1, <1>3, <2>1, <2>3 DEF Advance
    <3>2. framed' = framed
      BY <1>1, <2>1, <2>3 DEF Framing
    <3> QED
      BY <1>1, <2>3, <3>1, <3>2 DEF Writer!vars
  <2> QED
    BY <2>2, <2>3
<1>4. CASE phase = "emit"
  <2>1. /\ todo # <<>> /\ todo \in Seq(Byte) /\ b = todo[1] /\ pending = <<>> /\ pending' = <<>>
    BY <1>1, <1>2, <1>4, NextByteKind DEF Advance, Inductive, TypeOK, NestingInCall
  <2>2. 1 \in 1..Len(todo)
    BY <2>1
  <2>3. /\ b.tok # "held"
        /\ IF b.tok \in {"end", "keep", "stray"}
           THEN b = [tok |-> b.tok, id |-> 0, i |-> 1, n |-> 1]
           ELSE b.id \in Ids
    BY <2>1, <2>2 DEF StreamInCall, InOrder
  <2>4. CASE b.tok \in {"end", "keep"}
    <3>1. b.id = 0 /\ b.i = 1 /\ b.n = 1
      BY <2>3, <2>4
    <3>2. framed' = Front(framed)
      BY <1>1, <2>4 DEF Framing
    <3>3. op.kind = "end"
      <4>1. op.kind \in {"field", "begin", "end", "stray"}
        BY DEF Inductive, TypeOK
      <4>2. BytesOfCall(op, todo)
        BY DEF Inductive
      <4> QED
        BY <2>1, <2>2, <2>4, <4>1, <4>2 DEF BytesOfCall
    <3>4. framed # <<>>
      <4>1. nest # <<>>
        BY <1>4, <3>3 DEF StreamInCall
      <4>2. framed \o pending = nest
        BY <1>4, <2>1 DEF Inductive, NestingInCall, Opened, Closed
      <4>3. framed = nest
        BY <1>1, <2>1, <4>2, ConcatEmptySeq
      <4> QED
        BY <4>1, <4>3
    <3>5. Wire' = Append(Wire, [tok |-> b.tok, id |-> 0])
      BY <1>1, <3>1
    <3>6. Writer!Close(b.tok)
      BY <2>1, <3>2, <3>4, <3>5 DEF Writer!Close, Writer!Put, Writer!Front, Front
    <3> QED
      BY <2>4, <3>6 DEF Writer!Next
  <2>5. CASE b.tok = "start" /\ b.i = b.n
    <3>1. framed' = Append(framed, b.id) /\ b.id \in Ids
      BY <1>1, <2>3, <2>5 DEF Framing
    <3>2. Wire' = Append(Wire, [tok |-> "start", id |-> b.id])
      BY <1>1, <2>5
    <3> QED
      BY <2>1, <3>1, <3>2 DEF Writer!Next, Writer!Open, Writer!Put
  <2>6. CASE b.tok = "field" /\ b.i = b.n
    <3>1. framed' = framed /\ b.id \in Ids
      BY <1>1, <2>3, <2>6 DEF Framing
    <3>2. Wire' = Append(Wire, [tok |-> "field", id |-> b.id])
      BY <1>1, <2>6
    <3> QED
      BY <2>1, <3>1, <3>2 DEF Writer!Next, Writer!Write, Writer!Put
  <2>9. CASE b.tok = "stray"
    <3>1. b.id = 0 /\ b.i = 1 /\ b.n = 1
      BY <2>3, <2>9
    <3>2. framed' = framed
      BY <1>1, <2>9 DEF Framing
    <3>3. op.kind = "stray"
      <4>1. op.kind \in {"field", "begin", "end", "stray"}
        BY DEF Inductive, TypeOK
      <4>2. BytesOfCall(op, todo)
        BY DEF Inductive
      <4> QED
        BY <2>1, <2>2, <2>9, <4>1, <4>2 DEF BytesOfCall
    <3>4. framed = <<>>
      <4>1. nest = <<>>
        BY <1>4, <3>3 DEF StreamInCall
      <4>2. framed \o pending = nest
        BY <1>4, <2>1, <3>3 DEF Inductive, NestingInCall, Opened, Closed
      <4>3. framed = nest
        BY <1>1, <2>1, <4>2, ConcatEmptySeq
      <4> QED
        BY <4>1, <4>3
    <3>5. Wire' = Append(Wire, [tok |-> "stray", id |-> 0])
      BY <1>1, <2>9, <3>1
    <3> QED
      BY <2>1, <3>2, <3>4, <3>5 DEF Writer!Next, Writer!Stray, Writer!Put
  <2>7. CASE b.i # b.n /\ b.tok \notin {"end", "keep", "stray"}
    <3>1. framed' = framed
      BY <1>1, <2>7 DEF Framing
    <3> QED
      BY <1>1, <2>1, <2>7, <3>1 DEF Writer!vars
  <2>8. b.tok \in {"start", "end", "keep", "stray", "field"}
    BY <1>1, <1>2, <2>3, NextByteKind DEF Byte, Tokens
  <2> QED
    BY <2>4, <2>5, <2>6, <2>7, <2>8, <2>9
<1> QED
  BY <1>1, <1>3, <1>4 DEF HasByte

\* Everything else leaves the wire alone.
LEMMA CallWrites ==
    ASSUME Inductive, Wire' = Wire, (HasByte /\ GiveUp) \/ Return \/ Calls
    PROVE  [Writer!Next]_(Writer!vars)
<1>1. CASE (HasByte /\ GiveUp) \/ Return \/ Refuse \/ Starts
           \/ UNCHANGED <<pending, callVars, nest, framed, failed>>
  <2>1. pending' = pending /\ framed' = framed
    BY <1>1 DEF GiveUp, Return, Refuse, Starts, Start
  <2> QED
    BY <2>1 DEF Writer!vars
<1>2. ASSUME NEW id \in Ids, Len(pending) < LAZY_SEQ_DEPTH, HoldBack(id)
      PROVE  Writer!Next
  BY <1>2 DEF HoldBack, Writer!Next, Writer!Hold
<1>3. ASSUME pending # <<>>, DropHeld
      PROVE  Writer!Next
  BY <1>3 DEF DropHeld, Writer!Next, Writer!Drop, Writer!Front, Front
<1> QED
  BY <1>1, <1>2, <1>3 DEF Calls

LEMMA WriterStep ==
    ASSUME Inductive, StreamInCall, Found(Stream),
           Pushes \/ (Stream' = Stream /\ ((HasByte /\ GiveUp) \/ Return \/ Calls))
    PROVE  Found(Stream)' /\ [Writer!Next]_(Writer!vars)
<1>1. CASE Pushes
  <2>1. Stream \in Seq(Byte) /\ NextByte \in Byte /\ Stream' = Append(Stream, NextByte)
    BY <1>1, StreamType, NextByteKind DEF Pushes
  <2>2. /\ Found(Append(Stream, NextByte))
        /\ Whole(Append(Stream, NextByte))
              = IF NextByte.i = NextByte.n
                THEN Append(Whole(Stream), TokenOf(NextByte)) ELSE Whole(Stream)
    BY <2>1, WholeGrows
  <2>3. Found(Stream') /\ Whole(Stream') = IF NextByte.i = NextByte.n
                                          THEN Append(Wire, TokenOf(NextByte)) ELSE Wire
    BY <2>1, <2>2 DEF Wire
  <2>4. Found(Stream)'
    BY <2>3 DEF Found, Ends, Ranked, Rank
  <2>5. Wire' = IF NextByte.i = NextByte.n THEN Append(Wire, TokenOf(NextByte)) ELSE Wire
    BY <2>3 DEF Wire, Whole, Ends, Ranked, Rank
  <2> QED
    BY <1>1, <2>4, <2>5, PushWrites
<1>2. CASE Stream' = Stream /\ ((HasByte /\ GiveUp) \/ Return \/ Calls)
  <2>1. Wire' = Whole(Stream') /\ (Found(Stream') => Found(Stream)')
    BY DEF Found, Wire, Whole, Ends, Ranked, Rank
  <2>2. Found(Stream)' /\ Wire' = Wire
    BY <1>2, <2>1 DEF Wire
  <2> QED
    BY <1>2, <2>2, CallWrites
<1> QED
  BY <1>1, <1>2

LEMMA WriterInit ==
    ASSUME Init
    PROVE  Found(Stream) /\ Writer!Init
<1>1. Stream = <<>>
  BY StreamInit
<1>2. Found(Stream) /\ Wire = <<>>
  BY <1>1, WholeNone DEF Wire
<1>3. framed = <<>> /\ pending = <<>>
  BY DEF Init
<1> QED
  BY <1>2, <1>3 DEF Writer!Init

-----------------------------------------------------------------------------
(* What a receiver has open.  OpenAfter reads a list from its beginning;   *)
(* the list grows at its end.                                              *)

IsReading(f, t) ==
    f = [n \in 0..Len(t) |-> IF n = 0 THEN <<>> ELSE Heard(f[n - 1], t[n])]

Readable(t) == \E f : \A g : IsReading(g, t) <=> g = f

LEMMA ReadingOf ==
    ASSUME NEW t, NEW f, \A g : IsReading(g, t) <=> g = f
    PROVE  OpenAfter(t) = f[Len(t)] /\ Readable(t)
<1> DEFINE open == CHOOSE g : IsReading(g, t)
<1>1. OpenAfter(t) = open[Len(t)]
  BY DEF OpenAfter, IsReading
<1>2. IsReading(f, t)
  OBVIOUS
<1>3. IsReading(open, t)
  BY <1>2
<1>4. open = f
  BY <1>3
<1>5. Readable(t)
  BY DEF Readable
<1> QED
  BY <1>1, <1>4, <1>5

LEMMA ReadingGrows ==
    ASSUME NEW t \in Seq(WireToken), NEW x \in WireToken, Readable(t)
    PROVE  /\ Readable(Append(t, x))
           /\ OpenAfter(Append(t, x)) = Heard(OpenAfter(t), x)
<1> DEFINE m == Len(t)
           u == Append(t, x)
<1>1. m \in Nat /\ m + 1 \in Nat /\ Len(u) = m + 1 /\ u[m + 1] = x /\ \A n \in 1..m : u[n] = t[n]
  BY AppendProperties
<1>2. PICK f : \A g : IsReading(g, t) <=> g = f
  BY DEF Readable
<1>3. OpenAfter(t) = f[m]
  BY <1>2, ReadingOf
<1>4. f = [n \in 0..m |-> IF n = 0 THEN <<>> ELSE Heard(f[n - 1], t[n])]
  BY <1>2 DEF IsReading
<1> DEFINE h == [n \in 0..m + 1 |-> IF n = m + 1 THEN Heard(f[m], x) ELSE f[n]]
<1>5. m = Len(t) /\ u = Append(t, x)
  OBVIOUS
<1> HIDE DEF m, u
<1>6. /\ 0..m + 1 = (0..m) \cup {m + 1} /\ m + 1 \notin 0..m /\ m \in 0..m /\ m + 1 # 0
      /\ \A n \in 0..m : n # 0 => n - 1 \in 0..m /\ n \in 1..m
      /\ m + 1 - 1 = m
  BY <1>1
<1>7. /\ h[m + 1] = Heard(f[m], x) /\ \A n \in 0..m : h[n] = f[n]
      /\ DOMAIN h = 0..m + 1
  BY <1>6
<1>8. IsReading(h, u)
  <2> DEFINE r == [n \in 0..m + 1 |-> IF n = 0 THEN <<>> ELSE Heard(h[n - 1], u[n])]
  <2> HIDE DEF h
  <2>1. r[m + 1] = h[m + 1]
    BY <1>1, <1>6, <1>7
  <2>2. ASSUME NEW n \in 0..m
        PROVE  r[n] = h[n]
    <3>1. f[n] = IF n = 0 THEN <<>> ELSE Heard(f[n - 1], t[n])
      BY <1>4
    <3>2. r[n] = IF n = 0 THEN <<>> ELSE Heard(h[n - 1], u[n])
      BY <1>6
    <3> QED
      BY <1>1, <1>6, <1>7, <3>1, <3>2
  <2> HIDE DEF r
  <2>3. \A n \in 0..m + 1 : r[n] = h[n]
    BY <1>6, <2>1, <2>2
  <2>4. h = r
    BY <1>7, <2>3 DEF h, r
  <2> QED
    BY <1>1, <2>4 DEF IsReading, r
<1>9. ASSUME NEW g, IsReading(g, u)
      PROVE  g = h
  <2>1. g = [n \in 0..m + 1 |-> IF n = 0 THEN <<>> ELSE Heard(g[n - 1], u[n])]
    BY <1>1, <1>9 DEF IsReading
  <2> DEFINE r == [n \in 0..m |-> g[n]]
  <2>2. r = [n \in 0..m |-> IF n = 0 THEN <<>> ELSE Heard(r[n - 1], t[n])]
    <3>1. ASSUME NEW n \in 0..m
          PROVE  r[n] = IF n = 0 THEN <<>> ELSE Heard(r[n - 1], t[n])
      <4>1. n \in 0..m + 1 /\ r[n] = g[n]
        BY <1>6
      <4>2. g[n] = IF n = 0 THEN <<>> ELSE Heard(g[n - 1], u[n])
        BY <2>1, <4>1
      <4>3. n # 0 => r[n - 1] = g[n - 1] /\ u[n] = t[n]
        BY <1>1, <1>6
      <4> HIDE DEF r
      <4> QED
        BY <4>1, <4>2, <4>3
    <3> DEFINE q == [n \in 0..m |-> IF n = 0 THEN <<>> ELSE Heard(r[n - 1], t[n])]
    <3>2. \A n \in 0..m : r[n] = q[n]
      BY <3>1
    <3> QED
      BY <3>2
  <2> HIDE DEF r
  <2>3. r = f
    BY <1>2, <1>5, <2>2 DEF IsReading
  <2>4. \A n \in 0..m : g[n] = f[n]
    BY <2>3 DEF r
  <2>5. g[m + 1] = Heard(f[m], x)
    <3>1. m + 1 \in 0..m + 1 /\ g[m] = f[m]
      BY <1>6, <2>4
    <3>2. ASSUME NEW n \in 0..m + 1
          PROVE  g[n] = IF n = 0 THEN <<>> ELSE Heard(g[n - 1], u[n])
      BY <2>1
    <3>3. g[m + 1] = Heard(g[m], x)
      BY <1>1, <1>6, <3>2
    <3> QED
      BY <3>1, <3>3
  <2>6. DOMAIN g = 0..m + 1 /\ g = [n \in 0..m + 1 |-> g[n]]
    BY <2>1
  <2> HIDE DEF h
  <2>7. \A n \in 0..m + 1 : g[n] = h[n]
    BY <1>6, <1>7, <2>4, <2>5
  <2> QED
    BY <2>6, <2>7 DEF h
<1> HIDE DEF h
<1>10. \A g : IsReading(g, u) <=> g = h
  BY <1>8, <1>9
<1>11. OpenAfter(u) = h[Len(u)] /\ Readable(u)
  BY <1>10, ReadingOf
<1> QED
  BY <1>1, <1>3, <1>5, <1>7, <1>11


LEMMA ReadingNone == Readable(<<>>) /\ OpenAfter(<<>>) = <<>>
<1> DEFINE f == [n \in 0..0 |-> <<>>]
<1>1. Len(<<>>) = 0
  OBVIOUS
<1>2. \A n : n \in 0..0 <=> n = 0
  OBVIOUS
<1>3. ASSUME NEW g
      PROVE  IsReading(g, <<>>) <=> g = f
  <2> DEFINE r == [n \in 0..0 |-> IF n = 0 THEN <<>> ELSE Heard(g[n - 1], <<>>[n])]
  <2>1. r = f
    BY <1>2
  <2>2. IsReading(g, <<>>) <=> g = r
    BY <1>1 DEF IsReading
  <2> HIDE DEF r, f
  <2> QED
    BY <2>1, <2>2
<1>4. f[Len(<<>>)] = <<>>
  BY <1>1, <1>2
<1> HIDE DEF f
<1>5. OpenAfter(<<>>) = f[Len(<<>>)] /\ Readable(<<>>)
  BY <1>3, ReadingOf
<1> QED
  BY <1>4, <1>5

\* A step of the abstract writer opens and closes what a receiver that reads
\* its token takes for opened and closed.
LEMMA ReceiverStep ==
    ASSUME Wire \in Seq(WireToken), pending \in Seq(Ids), Readable(Wire),
           framed = OpenAfter(Wire), [Writer!Next]_(Writer!vars)
    PROVE  Readable(Wire)' /\ FramedIsOnTheWire'
<1>1. /\ Readable(Wire') => Readable(Wire)'
      /\ framed' = OpenAfter(Wire') => FramedIsOnTheWire'
  BY DEF Readable, IsReading, FramedIsOnTheWire, OpenAfter, Heard
<1>2. ASSUME NEW tok \in Tokens, NEW id \in Ids \cup {0}, Writer!Put(tok, id),
             framed' = Heard(framed, [tok |-> tok, id |-> id])
      PROVE  Readable(Wire') /\ framed' = OpenAfter(Wire')
  <2> DEFINE x == [tok |-> tok, id |-> id]
  <2>1. x \in WireToken /\ Wire' = Append(Wire, x)
    BY <1>2 DEF WireToken, Writer!Put
  <2> HIDE DEF x
  <2>2. Readable(Append(Wire, x)) /\ OpenAfter(Append(Wire, x)) = Heard(OpenAfter(Wire), x)
    BY <2>1, ReadingGrows
  <2> QED
    BY <1>2, <2>1, <2>2 DEF x
<1>3. {"held", "start", "end", "keep", "stray", "field"} \subseteq Tokens
  BY DEF Tokens
<1>4. ASSUME NEW open, NEW id
      PROVE  /\ Heard(open, [tok |-> "held", id |-> id]) = Append(open, id)
             /\ Heard(open, [tok |-> "start", id |-> id]) = Append(open, id)
             /\ Heard(open, [tok |-> "end", id |-> id]) = Front(open)
             /\ Heard(open, [tok |-> "keep", id |-> id]) = Front(open)
             /\ Heard(open, [tok |-> "stray", id |-> id]) = open
             /\ Heard(open, [tok |-> "field", id |-> id]) = open
  BY DEF Heard
<1>5. CASE Writer!Commit
  <2>1. Head(pending) \in Ids
    BY <1>5, HeadTailProperties DEF Writer!Commit
  <2>2. Writer!Put("held", Head(pending)) /\ framed' = Append(framed, Head(pending))
    BY <1>5 DEF Writer!Commit
  <2> QED
    BY <1>1, <1>2, <1>3, <1>4, <2>1, <2>2
<1>6. CASE Writer!Write
  <2>1. PICK id \in Ids : Writer!Put("field", id) /\ framed' = framed
    BY <1>6 DEF Writer!Write
  <2> QED
    BY <1>1, <1>2, <1>3, <1>4, <2>1
<1>7. CASE Writer!Open
  <2>1. PICK id \in Ids : Writer!Put("start", id) /\ framed' = Append(framed, id)
    BY <1>7 DEF Writer!Open
  <2> QED
    BY <1>1, <1>2, <1>3, <1>4, <2>1
<1>8. ASSUME NEW tok \in {"end", "keep"}, Writer!Close(tok)
      PROVE  Readable(Wire)' /\ FramedIsOnTheWire'
  <2>1. Writer!Put(tok, 0) /\ framed' = Front(framed)
    BY <1>8 DEF Writer!Close, Writer!Front, Front
  <2> QED
    BY <1>1, <1>2, <1>3, <1>4, <2>1
<1>10. CASE Writer!Stray
  <2>1. Writer!Put("stray", 0) /\ framed' = framed
    BY <1>10 DEF Writer!Stray
  <2> QED
    BY <1>1, <1>2, <1>3, <1>4, <2>1
<1>9. CASE Writer!Hold \/ Writer!Drop \/ UNCHANGED Writer!vars
  <2>1. Wire' = Wire /\ framed' = framed
    BY <1>9 DEF Writer!Hold, Writer!Drop, Writer!vars
  <2> QED
    BY <1>1, <2>1
<1> QED
  BY <1>5, <1>6, <1>7, <1>8, <1>9, <1>10 DEF Writer!Next

\* All that holds of the stream, to be shown of every program that writes it.
StreamKnown == StreamInv /\ Found(Stream) /\ Readable(Wire) /\ FramedIsOnTheWire

LEMMA KnownInit ==
    ASSUME Init
    PROVE  StreamKnown /\ Writer!Init
<1>1. Writer!Init /\ Found(Stream) /\ StreamInv
  BY WriterInit, StreamInit
<1>2. Wire = <<>> /\ framed = <<>>
  BY <1>1 DEF Writer!Init
<1> QED
  BY <1>1, <1>2, ReadingNone DEF StreamKnown, FramedIsOnTheWire

LEMMA KnownStep ==
    ASSUME Inductive, StreamKnown,
           Pushes \/ (Stream' = Stream /\ ((HasByte /\ GiveUp) \/ Return \/ Calls))
    PROVE  StreamKnown' /\ [Writer!Next]_(Writer!vars)
<1>1. StreamInv /\ StreamInCall /\ Found(Stream) /\ Readable(Wire) /\ framed = OpenAfter(Wire)
  BY DEF StreamKnown, StreamInv, FramedIsOnTheWire
<1>2. StreamInv' /\ Found(Stream)' /\ [Writer!Next]_(Writer!vars)
  BY <1>1, StreamStep, WriterStep
<1>3. Wire \in Seq(WireToken) /\ pending \in Seq(Ids)
  BY <1>1, StreamType, WholeType DEF Wire, Inductive, TypeOK
<1>4. Readable(Wire)' /\ FramedIsOnTheWire'
  BY <1>1, <1>2, <1>3, ReceiverStep
<1> QED
  BY <1>2, <1>4 DEF StreamKnown

LEMMA KnownNext ==
    Inductive /\ StreamKnown /\ [Next]_vars
        => Inductive' /\ StreamKnown' /\ [Writer!Next]_(Writer!vars)
BY NextInductive, StepEffects, KnownStep

\* Everything known of the stream of the encoder.
THEOREM StreamHolds == Spec => [](Inductive /\ StreamKnown)
BY InitInductive, KnownInit, KnownNext, PTL DEF Spec

\* Wherever the buffers end and whatever the sink installs, no byte is lost,
\* doubled or moved: each goes on with the token of the one before it, or
\* starts one where that has ended or a call has failed.
THEOREM StreamIsContiguous == Spec => []BytesContiguous
<1>1. StreamKnown => BytesContiguous
  BY DEF StreamKnown, StreamInv
<1> QED
  BY <1>1, StreamHolds, PTL

\* No header that was held back is followed by the end marker of an empty
\* sequence, as long as no call failed.
THEOREM EmptyLeavesNoTrace == Spec => []CanonicalOmission
<1>1. StreamKnown => CanonicalOmission
  BY DEF StreamKnown, StreamInv
<1> QED
  BY <1>1, StreamHolds, PTL

\* A receiver that reads the tokens on the wire has open what the encoder has
\* framed, whatever failed before.
THEOREM ReceiverAgrees == Spec => []FramedIsOnTheWire
<1>1. StreamKnown => FramedIsOnTheWire
  BY DEF StreamKnown
<1> QED
  BY <1>1, StreamHolds, PTL

\* What the buffers do does not show: the concatenated payloads are a token
\* list of the abstract writer, whatever the sizes and the sink.
THEOREM WriterRefinement == Spec => ImplementsWriter
BY InitInductive, KnownInit, KnownNext, PTL DEF Spec, ImplementsWriter, Writer!Spec
=============================================================================
