--------------------------- MODULE IStreamProofs ---------------------------
(***************************************************************************)
(* Theorems about the decoder of module IStream, for every nesting limit,  *)
(* size limit and varint width, and every set of reads a callback may make *)
(* through the public API.                                                 *)
(***************************************************************************)
EXTENDS IStreamProps, SequenceTheorems, TLAPS

States == {"idle", "vu", "vs", "fixlen_len", "fixlen_val", "fixlen_raw", "array_count"}

-----------------------------------------------------------------------------
(* The decoder chain.                                                      *)

Top(ch) == ch[Len(ch)]

Fresh == [state |-> "idle", skip |-> 0]

\* Only the active decoder is mid-field or skipping, and d levels are open.
ChainOK(ch, d) ==
    /\ ch \in Seq(Decoder) /\ ch # <<>>
    /\ d = (Len(ch) - 1) + Top(ch).skip
    /\ \A k \in 1..Len(ch) - 1 : ch[k] = Fresh

LEMMA TopType ==
    ASSUME NEW ch \in Seq(Decoder), ch # <<>>
    PROVE  /\ Len(ch) \in Nat \ {0}
           /\ Top(ch) \in Decoder
           /\ Top(ch).state \in States
           /\ Top(ch).skip \in Nat
<1>1. Len(ch) \in Nat \ {0}
  BY EmptySeq
<1>2. Top(ch) \in Decoder
  BY <1>1, ElementOfSeq DEF Top
<1> QED
  BY <1>1, <1>2 DEF Decoder, States

LEMMA SetState ==
    ASSUME NEW ch, NEW d, ChainOK(ch, d), NEW s \in States
    PROVE  LET new == [ch EXCEPT ![Len(ch)].state = s]
           IN  /\ ChainOK(new, d)
               /\ Len(new) = Len(ch)
               /\ Top(new).state = s
               /\ Top(new).skip = Top(ch).skip
<1> DEFINE n == Len(ch)
           e == [ch[n] EXCEPT !.state = s]
           new == [ch EXCEPT ![Len(ch)].state = s]
<1>1. ch \in Seq(Decoder) /\ n \in 1..Len(ch) /\ ch[n] \in Decoder
  BY TopType DEF ChainOK, Top
<1>2. e \in Decoder /\ e.state = s /\ e.skip = ch[n].skip
  BY <1>1 DEF Decoder, States
<1>3. new = [ch EXCEPT ![n] = e]
  OBVIOUS
<1> HIDE DEF e, n, new
<1>4. /\ new \in Seq(Decoder) /\ Len(new) = Len(ch)
      /\ \A j \in 1..Len(ch) : new[j] = IF j = n THEN e ELSE ch[j]
  BY <1>1, <1>2, <1>3, ExceptSeq
<1>5. n = Len(ch)
  BY DEF n
<1>6. new # <<>> /\ Top(new) = e /\ Top(ch) = ch[n]
  BY <1>1, <1>4, <1>5 DEF Top
<1>7. ChainOK(new, d)
  BY <1>1, <1>2, <1>4, <1>5, <1>6 DEF ChainOK
<1> QED
  BY <1>2, <1>4, <1>6, <1>7 DEF new

LEMMA SetSkip ==
    ASSUME NEW ch, NEW d, ChainOK(ch, d), NEW k \in Nat
    PROVE  LET new == [ch EXCEPT ![Len(ch)].skip = k]
           IN  /\ ChainOK(new, d - Top(ch).skip + k)
               /\ Len(new) = Len(ch)
               /\ Top(new).state = Top(ch).state
               /\ Top(new).skip = k
<1> DEFINE n == Len(ch)
           e == [ch[n] EXCEPT !.skip = k]
           new == [ch EXCEPT ![Len(ch)].skip = k]
<1>1. ch \in Seq(Decoder) /\ n \in 1..Len(ch) /\ ch[n] \in Decoder
  BY TopType DEF ChainOK, Top
<1>2. e \in Decoder /\ e.state = ch[n].state /\ e.skip = k /\ ch[n].skip \in Nat
  BY <1>1 DEF Decoder
<1>3. new = [ch EXCEPT ![n] = e]
  OBVIOUS
<1> HIDE DEF e, n, new
<1>4. /\ new \in Seq(Decoder) /\ Len(new) = Len(ch)
      /\ \A j \in 1..Len(ch) : new[j] = IF j = n THEN e ELSE ch[j]
  BY <1>1, <1>2, <1>3, ExceptSeq
<1>5. n = Len(ch)
  BY DEF n
<1>6. new # <<>> /\ Top(new) = e /\ Top(ch) = ch[n]
  BY <1>1, <1>4, <1>5 DEF Top
<1>7. ChainOK(new, d - Top(ch).skip + k)
  BY <1>1, <1>2, <1>4, <1>5, <1>6 DEF ChainOK
<1> QED
  BY <1>2, <1>4, <1>6, <1>7 DEF new

LEMMA PushDecoder ==
    ASSUME NEW ch, NEW d, ChainOK(ch, d), Top(ch) = Fresh
    PROVE  /\ ChainOK(Append(ch, Fresh), d + 1)
           /\ Top(Append(ch, Fresh)) = Fresh
           /\ Front(Append(ch, Fresh)) = ch
           /\ Len(Append(ch, Fresh)) = Len(ch) + 1
           /\ Len(ch) \in Nat \ {0}
<1>1. ch \in Seq(Decoder) /\ Len(ch) \in Nat \ {0} /\ Fresh \in Decoder
  BY TopType DEF ChainOK, Fresh, Decoder
<1>2. /\ Append(ch, Fresh) \in Seq(Decoder)
      /\ Len(Append(ch, Fresh)) = Len(ch) + 1
      /\ \A i \in 1..Len(ch) : Append(ch, Fresh)[i] = ch[i]
      /\ Append(ch, Fresh)[Len(ch) + 1] = Fresh
  BY <1>1, AppendProperties
<1>3. Top(Append(ch, Fresh)) = Fresh /\ Fresh.skip = 0 /\ ch[Len(ch)] = Fresh
  BY <1>2 DEF Top, Fresh
<1>4. \A k \in 1..Len(ch) : Append(ch, Fresh)[k] = Fresh
  BY <1>1, <1>2, <1>3 DEF ChainOK
<1>5. d = Len(ch) - 1
  BY <1>1, <1>3 DEF ChainOK
<1>6. ChainOK(Append(ch, Fresh), d + 1)
  BY <1>1, <1>2, <1>3, <1>4, <1>5 DEF ChainOK
<1>7. Front(Append(ch, Fresh)) = ch
  BY <1>1, <1>2, SeqEqual DEF Front
<1> QED
  BY <1>1, <1>2, <1>3, <1>6, <1>7

LEMMA PopDecoder ==
    ASSUME NEW ch, NEW d, ChainOK(ch, d), Len(ch) > 1, Top(ch).skip = 0
    PROVE  ChainOK(Front(ch), d - 1) /\ Top(Front(ch)) = Fresh
<1> DEFINE n == Len(ch) - 1
<1>1. ch \in Seq(Decoder) /\ Len(ch) \in Nat /\ n \in Nat /\ n > 0 /\ Len(ch) = n + 1
  BY TopType DEF ChainOK
<1> HIDE DEF n
<1>2. /\ Front(ch) \in Seq(Decoder) /\ Len(Front(ch)) = n
      /\ \A i \in 1..n : Front(ch)[i] = ch[i]
  BY <1>1 DEF Front
<1>3. \A k \in 1..n : ch[k] = Fresh
  BY <1>1 DEF ChainOK
<1>4. Top(Front(ch)) = Fresh /\ Fresh.skip = 0
  BY <1>1, <1>2, <1>3 DEF Top, Fresh
<1>5. d = n
  BY <1>1 DEF ChainOK
<1> QED
  BY <1>1, <1>2, <1>3, <1>4, <1>5 DEF ChainOK

-----------------------------------------------------------------------------
(* What a callback's read does to the field it is called for.              *)

Fields == [chain : Seq(Decoder), len : Nat, count : Nat, opt : Options]

\* What the field f is once its callback has run: bound for the type the wire
\* has, with a destination that is count elements of len bytes (or len bytes
\* of a single value), or unbound; and only a sequence adds a decoder.
Delivered(d, f, withSub) ==
    /\ d.bound \in BOOLEAN /\ d.clash \in BOOLEAN
    /\ d.room \in Nat /\ d.len \in Nat /\ d.count \in Nat
    /\ d.opt \in Options
    /\ d.chain = IF d.bound /\ f.opt.ft = "START" THEN Append(f.chain, Fresh) ELSE f.chain
    /\ d.bound =>
          /\ d.opt.ft = f.opt.ft
          /\ withSub => d.opt.sub = f.opt.sub
          /\ f.opt.ft # "START" => d.len > 0
          /\ f.opt.ft \in ArrayTypes => d.room = d.count * d.len
          /\ f.opt.ft \in ScalarTypes \cup {"FIX"} => d.room = d.len
          /\ f.opt.ft = "ARR_F" => d.len = Width(d.opt.sub)
    /\ ~d.bound =>
          \/ d.len = f.len /\ d.count = f.count /\ d.opt = f.opt
          \/ d.count = 0

LEMMA DeclineRead ==
    Decline \in ReadCalls /\ GoodRead(Decline)
BY DEF Decline, ReadCalls, Options, WireTypes, ScalarTypes, GoodRead

LEMMA UnboundFields ==
    ASSUME NEW f \in Fields
    PROVE  LET u == Unbound(f)
           IN  /\ u.chain = f.chain /\ u.len = f.len /\ u.count = f.count /\ u.opt = f.opt
               /\ u.bound = FALSE /\ u.room = 0 /\ u.clash = FALSE
               /\ DOMAIN u = {"chain", "len", "count", "opt", "bound", "room", "clash"}
BY DEF Unbound

LEMMA PopOfPush ==
    ASSUME NEW ch \in Seq(Decoder)
    PROVE  Front(Append(ch, Fresh)) = ch /\ Len(Append(ch, Fresh)) = Len(ch) + 1
<1>1. Len(ch) \in Nat /\ Fresh \in Decoder
  BY DEF Fresh, Decoder
<1>2. /\ Append(ch, Fresh) \in Seq(Decoder)
      /\ Len(Append(ch, Fresh)) = Len(ch) + 1
      /\ \A i \in 1..Len(ch) : Append(ch, Fresh)[i] = ch[i]
  BY <1>1, AppendProperties
<1>3. Front(Append(ch, Fresh)) = ch
  BY <1>1, <1>2, SeqEqual DEF Front
<1> QED
  BY <1>2, <1>3

\* The field after the read, before its type is compared with the wire's.
LEMMA AfterReadFields ==
    ASSUME NEW f \in Fields, NEW r \in ReadCalls, GoodRead(r)
    PROVE  LET a == AfterRead(f, r)
           IN  /\ r.call = "none" =>
                     /\ a.bound = FALSE /\ a.room = 0 /\ a.clash = FALSE
                     /\ a.chain = f.chain /\ a.len = f.len /\ a.count = f.count /\ a.opt = f.opt
               /\ r.call = "field" =>
                     /\ a.bound = TRUE /\ a.room = r.size /\ a.clash = FALSE
                     /\ a.chain = f.chain /\ a.len = r.size /\ a.count = f.count /\ a.opt = r.opt
               /\ r.call = "array" =>
                     /\ a.bound = ~r.null /\ a.room = r.num * r.size /\ a.clash = FALSE
                     /\ a.chain = f.chain /\ a.len = r.size /\ a.count = r.num /\ a.opt = r.opt
               /\ r.call = "sequence" =>
                     /\ a.bound = TRUE /\ a.room = 0 /\ a.clash = FALSE
                     /\ a.chain = Append(f.chain, Fresh)
                     /\ a.len = f.len /\ a.count = f.count /\ a.opt = r.opt
<1> DEFINE u == Unbound(f)
           a == AfterRead(f, r)
<1>1. /\ u.chain = f.chain /\ u.len = f.len /\ u.count = f.count /\ u.opt = f.opt
      /\ u.bound = FALSE /\ u.room = 0 /\ u.clash = FALSE
      /\ DOMAIN u = {"chain", "len", "count", "opt", "bound", "room", "clash"}
  BY UnboundFields
<1>2. /\ r.call = "none" => a = u
      /\ r.call = "field" =>
            a = [u EXCEPT !.bound = TRUE, !.len = r.size, !.opt = r.opt, !.room = r.size]
      /\ r.call = "array" =>
            a = [u EXCEPT !.bound = ~r.null, !.len = r.size, !.count = r.num,
                          !.opt = r.opt, !.room = r.num * r.size]
      /\ r.call = "sequence" =>
            a = [u EXCEPT !.bound = TRUE, !.opt = r.opt, !.chain = Append(f.chain, Fresh)]
  BY DEF AfterRead, Fresh
<1> HIDE DEF u, a
<1>3. CASE r.call = "none"
  BY <1>1, <1>2, <1>3 DEF a
<1>4. CASE r.call = "field"
  BY <1>1, <1>2, <1>4 DEF a
<1>5. CASE r.call = "array"
  BY <1>1, <1>2, <1>5 DEF a
<1>6. CASE r.call = "sequence"
  BY <1>1, <1>2, <1>6 DEF a
<1> QED
  BY <1>3, <1>4, <1>5, <1>6

LEMMA RollBackFields ==
    ASSUME NEW f \in Fields, NEW a, f.chain # <<>>,
           a.chain = IF a.opt.ft = "START" THEN Append(f.chain, Fresh) ELSE f.chain
    PROVE  LET b == RollBack(f, a)
           IN  /\ b.bound = FALSE /\ b.room = 0 /\ b.clash = TRUE
               /\ b.chain = f.chain /\ b.len = f.len /\ b.count = f.count /\ b.opt = f.opt
<1> DEFINE u == Unbound(f)
           c == IF a.opt.ft = "START" /\ Len(a.chain) > 1 THEN Front(a.chain) ELSE a.chain
           b == RollBack(f, a)
<1>1. /\ u.chain = f.chain /\ u.len = f.len /\ u.count = f.count /\ u.opt = f.opt
      /\ u.bound = FALSE /\ u.room = 0 /\ u.clash = FALSE
      /\ DOMAIN u = {"chain", "len", "count", "opt", "bound", "room", "clash"}
  BY UnboundFields
<1>2. b = [u EXCEPT !.clash = TRUE, !.chain = c]
  BY DEF RollBack
<1>3. c = f.chain
  <2>1. f.chain \in Seq(Decoder)
    BY DEF Fields
  <2>2. Front(Append(f.chain, Fresh)) = f.chain /\ Len(Append(f.chain, Fresh)) > 1
    BY <2>1, PopOfPush, EmptySeq
  <2> QED
    BY <2>2
<1> HIDE DEF u, c, b
<1> QED
  BY <1>1, <1>2, <1>3 DEF b

LEMMA DeliverType ==
    ASSUME NEW f \in Fields, NEW r \in Reads \cup {Decline}, NEW withSub \in BOOLEAN,
           f.chain # <<>>
    PROVE  Delivered(Deliver(f, r, withSub), f, withSub)
<1> DEFINE a == AfterRead(f, r)
           d == Deliver(f, r, withSub)
<1> SUFFICES Delivered(d, f, withSub)
  OBVIOUS
<1>1. r \in ReadCalls /\ GoodRead(r)
  BY IStreamAssumption, DeclineRead
<1>2. /\ r.call \in {"none", "field", "array", "sequence"}
      /\ r.size \in Nat /\ r.num \in Nat /\ r.opt \in Options /\ r.null \in BOOLEAN
      /\ r.num * r.size \in Nat
  BY <1>1 DEF ReadCalls
<1>3. /\ f.chain \in Seq(Decoder) /\ f.len \in Nat /\ f.count \in Nat /\ f.opt \in Options
  BY DEF Fields
<1>4. d = IF a.bound /\ Contradicts(a.opt, f.opt, withSub) THEN RollBack(f, a) ELSE a
  BY DEF Deliver
<1>5. /\ r.call # "none" => r.size > 0
      /\ r.call = "field" => r.opt.ft \in ScalarTypes \cup {"FIX"}
      /\ r.call = "array" => r.opt.ft \in ArrayTypes
      /\ r.call = "array" /\ r.opt.ft = "ARR_F" => r.size = Width(r.opt.sub)
      /\ r.call = "sequence" => r.opt.ft = "START"
      /\ r.null => r.call = "array" /\ r.num = 0
  BY <1>1, <1>2 DEF GoodRead
<1>6. /\ r.call = "none" =>
            /\ a.bound = FALSE /\ a.room = 0 /\ a.clash = FALSE
            /\ a.chain = f.chain /\ a.len = f.len /\ a.count = f.count /\ a.opt = f.opt
      /\ r.call = "field" =>
            /\ a.bound = TRUE /\ a.room = r.size /\ a.clash = FALSE
            /\ a.chain = f.chain /\ a.len = r.size /\ a.count = f.count /\ a.opt = r.opt
      /\ r.call = "array" =>
            /\ a.bound = ~r.null /\ a.room = r.num * r.size /\ a.clash = FALSE
            /\ a.chain = f.chain /\ a.len = r.size /\ a.count = r.num /\ a.opt = r.opt
      /\ r.call = "sequence" =>
            /\ a.bound = TRUE /\ a.room = 0 /\ a.clash = FALSE
            /\ a.chain = Append(f.chain, Fresh)
            /\ a.len = f.len /\ a.count = f.count /\ a.opt = r.opt
  BY <1>1, AfterReadFields
<1> HIDE DEF a, d
<1>7. CASE a.bound /\ Contradicts(a.opt, f.opt, withSub)
  <2>1. a.chain = IF a.opt.ft = "START" THEN Append(f.chain, Fresh) ELSE f.chain
    BY <1>2, <1>5, <1>6, <1>7 DEF ScalarTypes, ArrayTypes, VarintArrays
  <2>2. d = RollBack(f, a)
    BY <1>4, <1>7
  <2>3. /\ d.bound = FALSE /\ d.room = 0 /\ d.clash = TRUE
        /\ d.chain = f.chain /\ d.len = f.len /\ d.count = f.count /\ d.opt = f.opt
    BY <2>1, <2>2, RollBackFields
  <2>4. d.bound \in BOOLEAN /\ d.clash \in BOOLEAN /\ ~d.bound
    BY <2>3
  <2>5. d.chain = IF d.bound /\ f.opt.ft = "START" THEN Append(f.chain, Fresh) ELSE f.chain
    BY <2>3, <2>4
  <2>6. /\ d.room \in Nat /\ d.len \in Nat /\ d.count \in Nat /\ d.opt \in Options
        /\ d.len = f.len /\ d.count = f.count /\ d.opt = f.opt
    BY <1>3, <2>3
  <2> QED
    BY <2>4, <2>5, <2>6, Zenon DEF Delivered
<1>8. CASE ~(a.bound /\ Contradicts(a.opt, f.opt, withSub))
  <2>1. d = a
    BY <1>4, <1>8
  <2>2. a.bound => a.opt.ft = f.opt.ft /\ (withSub => a.opt.sub = f.opt.sub)
    BY <1>2, <1>6, <1>8 DEF Contradicts
  <2>3. CASE r.call = "none"
    <3>1. d.bound \in BOOLEAN /\ d.clash \in BOOLEAN /\ ~d.bound
      BY <1>6, <2>1, <2>3
    <3>2. d.chain = IF d.bound /\ f.opt.ft = "START" THEN Append(f.chain, Fresh) ELSE f.chain
      BY <1>6, <2>1, <2>3, <3>1
    <3>3. /\ d.room \in Nat /\ d.len \in Nat /\ d.count \in Nat /\ d.opt \in Options
          /\ d.len = f.len /\ d.count = f.count /\ d.opt = f.opt
      BY <1>3, <1>6, <2>1, <2>3
    <3> QED
      BY <3>1, <3>2, <3>3, Zenon DEF Delivered
  <2>4. CASE r.call = "field"
    BY <1>2, <1>3, <1>5, <1>6, <2>1, <2>2, <2>4
    DEF Delivered, ScalarTypes, ArrayTypes, VarintArrays
  <2>5. CASE r.call = "array" /\ r.null
    BY <1>2, <1>3, <1>5, <1>6, <2>1, <2>5 DEF Delivered
  <2>6. CASE r.call = "array" /\ ~r.null
    BY <1>2, <1>3, <1>5, <1>6, <2>1, <2>2, <2>6
    DEF Delivered, ScalarTypes, ArrayTypes, VarintArrays
  <2>7. CASE r.call = "sequence"
    <3>1. d.bound \in BOOLEAN /\ d.clash \in BOOLEAN /\ d.bound
      BY <1>6, <2>1, <2>7
    <3>2. /\ d.room \in Nat /\ d.len \in Nat /\ d.count \in Nat /\ d.opt \in Options
          /\ d.chain = Append(f.chain, Fresh)
      BY <1>2, <1>3, <1>6, <2>1, <2>7
    <3>3. /\ d.opt.ft = f.opt.ft /\ (withSub => d.opt.sub = f.opt.sub)
          /\ f.opt.ft = "START"
      BY <1>5, <1>6, <2>1, <2>2, <2>7
    <3> QED
      BY <3>1, <3>2, <3>3 DEF Delivered, ScalarTypes, ArrayTypes, VarintArrays
  <2> QED
    BY <1>2, <2>3, <2>4, <2>5, <2>6, <2>7
<1> QED
  BY <1>7, <1>8

LEMMA DeclineUnbound ==
    ASSUME NEW f, NEW withSub
    PROVE  /\ ~Deliver(f, Decline, withSub).bound
           /\ Deliver(f, Decline, withSub) = Unbound(f)
<1>1. AfterRead(f, Decline) = Unbound(f)
  BY DEF AfterRead, Decline
<1>2. ~Unbound(f).bound
  BY DEF Unbound
<1> QED
  BY <1>1, <1>2 DEF Deliver

-----------------------------------------------------------------------------
(* The invariant by the variables it is about.                             *)

Control ==
    /\ feeding \in BOOLEAN
    /\ ret \in {"none", "ok", "incomplete", "invalid", "arg"}
    /\ invalid \in BOOLEAN
    /\ vshift \in 0..MaxGroups - 1
    /\ skipped \in 0..SkipMax
    /\ why \in Reasons
    /\ CondemnedStops

Nesting ==
    /\ chain \in Seq(Decoder) /\ chain # <<>>
    /\ depth \in 0..MaxDepth
    /\ DepthAgrees

Target ==
    /\ bound \in BOOLEAN
    /\ room \in Nat /\ len \in Nat /\ count \in Nat
    /\ awc \in 0..ArrayMax
    /\ opt \in Options
    /\ rem \in Nat
    /\ utf8 \in BOOLEAN /\ badText \in BOOLEAN /\ overrun \in BOOLEAN
    /\ PayloadPending
    /\ FieldExpected
    /\ BoundFits
    /\ TextBound
    /\ NoOverrun

Notes == notified \in Nat /\ NotifiedOnce

LEMMA Parts ==
    /\ Inductive <=> Control /\ Nesting /\ Target /\ Notes
    /\ Inductive' <=> Control' /\ Nesting' /\ Target' /\ Notes'
<1>1. Inductive <=> Control /\ Nesting /\ Target /\ Notes
  BY DEF Inductive, TypeOK, Control, Nesting, Target, Notes
<1>2. Inductive' <=> Control' /\ Nesting' /\ Target' /\ Notes'
  BY DEF Inductive, TypeOK, Control, Nesting, Target, Notes
<1> QED
  BY <1>1, <1>2

LEMMA NestingIsChain ==
    /\ Nesting <=> ChainOK(chain, depth) /\ depth \in 0..MaxDepth
    /\ Nesting' <=> ChainOK(chain', depth') /\ depth' \in 0..MaxDepth
    /\ Active = Top(chain)
    /\ Active' = Top(chain')
BY DEF Nesting, DepthAgrees, ChainOK, Top, Active, Fresh

LEMMA ActiveType ==
    ASSUME Inductive
    PROVE  /\ Active.state \in States /\ Active.skip \in Nat
           /\ ChainOK(chain, depth) /\ depth \in 0..MaxDepth
           /\ Active = Top(chain)
           /\ Len(chain) \in Nat \ {0}
<1>1. ChainOK(chain, depth) /\ depth \in 0..MaxDepth /\ Active = Top(chain)
  BY Parts, NestingIsChain
<1> QED
  BY <1>1, TopType DEF ChainOK

\* The active decoder moves to state s.
LEMMA ParkedNesting ==
    ASSUME Inductive, NEW s \in States, chain' = Parked(s), UNCHANGED depth
    PROVE  Nesting' /\ Active'.state = s /\ Active'.skip = Active.skip
<1>1. ChainOK(chain, depth) /\ depth \in 0..MaxDepth /\ Active = Top(chain)
  BY ActiveType
<1>2. ChainOK(Parked(s), depth) /\ Top(Parked(s)).state = s
      /\ Top(Parked(s)).skip = Top(chain).skip
  BY <1>1, SetState DEF Parked
<1> QED
  BY <1>1, <1>2, NestingIsChain

LEMMA SameNesting ==
    ASSUME Inductive, UNCHANGED chainVars
    PROVE  Nesting' /\ Active' = Active
<1>1. chain' = chain /\ depth' = depth
  BY DEF chainVars
<1> QED
  BY <1>1, Parts DEF Nesting, DepthAgrees, Active

\* Steps that leave the field alone.
LEMMA SameField ==
    ASSUME Inductive, UNCHANGED <<chainVars, field, notified, overrun>>,
           feeding' \/ ~invalid' => feeding \/ ~invalid
    PROVE  Nesting' /\ Target' /\ Notes'
<1>1. Nesting' /\ Active' = Active
  BY SameNesting
<1>2. Target'
  <2>1. Target /\ UNCHANGED <<bound, room, len, count, opt, awc, rem, utf8, badText, overrun>>
    BY Parts DEF field, target
  <2>2. BoundFits'
    BY <1>1, <2>1 DEF Target, BoundFits
  <2> QED
    BY <1>1, <2>1, <2>2 DEF Target, PayloadPending, FieldExpected, TextBound, NoOverrun
<1>3. Notes'
  BY <1>1, Parts DEF Notes, NotifiedOnce
<1> QED
  BY <1>1, <1>2, <1>3

LEMMA FeedBeginStep ==
    ASSUME Inductive, FeedBegin
    PROVE  Inductive'
<1>1. Control /\ Active' = Active
  BY Parts, SameNesting DEF FeedBegin
<1>2. Control'
  BY <1>1 DEF FeedBegin, Control, CondemnedStops
<1> QED
  BY <1>2, SameField, Parts DEF FeedBegin

LEMMA FeedEndStep ==
    ASSUME Inductive, FeedEnd
    PROVE  Inductive'
<1>1. Control /\ Active' = Active
  BY Parts, SameNesting DEF FeedEnd
<1>2. Control'
  BY <1>1 DEF FeedEnd, Control, CondemnedStops
<1> QED
  BY <1>2, SameField, Parts DEF FeedEnd

LEMMA RejectStep ==
    ASSUME Inductive, NEW reason \in Reasons, Reject(reason)
    PROVE  Inductive'
<1>1. Control /\ Active' = Active
  BY Parts, SameNesting DEF Reject
<1>2. Control'
  BY <1>1 DEF Reject, Control, CondemnedStops
<1> QED
  BY <1>2, SameField, Parts DEF Reject

\* A field that is refused may have been bound; the decoder has stopped.
LEMMA RejectReadStep ==
    ASSUME Inductive, NEW reason \in Reasons, NEW d, d.bound \in BOOLEAN,
           Active.state \in {"array_count", "fixlen_len"}, RejectRead(reason, d)
    PROVE  Inductive'
<1>1. /\ feeding' = FALSE /\ ret' = "invalid" /\ invalid' = TRUE /\ bound' = d.bound
      /\ why' = (IF invalid THEN why ELSE reason)
      /\ UNCHANGED <<chainVars, vshift, room, len, count, opt, awc, rem, utf8,
                     badText, skipped, notified, overrun>>
  BY DEF RejectRead
<1>2. Control /\ Target /\ Notes
  BY Parts
<1>3. Nesting' /\ Active' = Active
  BY <1>1, SameNesting
<1>4. Control'
  BY <1>1, <1>2, <1>3 DEF Control, CondemnedStops
<1>5. Target'
  <2>1. BoundFits'
    BY <1>1 DEF BoundFits
  <2>2. TextBound'
    BY <1>3 DEF TextBound
  <2> QED
    BY <1>1, <1>2, <1>3, <2>1, <2>2
    DEF Target, PayloadPending, FieldExpected, NoOverrun
<1>6. Notes'
  BY <1>1, <1>2, <1>3 DEF Notes, NotifiedOnce
<1> QED
  BY <1>3, <1>4, <1>5, <1>6, Parts

LEMMA ArgumentErrorStep ==
    ASSUME Inductive, ArgumentError
    PROVE  Inductive'
<1>1. Control /\ Active' = Active
  BY Parts, SameNesting DEF ArgumentError
<1>2. 0 \in 0..MaxGroups - 1
  BY IStreamAssumption
<1>3. Control'
  BY <1>1, <1>2 DEF ArgumentError, Control, CondemnedStops
<1> QED
  BY <1>3, SameField, Parts DEF ArgumentError

LEMMA VarintMoreStep ==
    ASSUME Inductive, VarintMore
    PROVE  Inductive'
<1>1. CASE vshift + 1 >= MaxGroups
  BY <1>1, RejectStep DEF VarintMore, Reasons
<1>2. CASE ~(vshift + 1 >= MaxGroups)
  <2>1. Control /\ Active' = Active
    BY <1>2, Parts, SameNesting DEF VarintMore
  <2>2. vshift' \in 0..MaxGroups - 1
    BY <1>2, <2>1, IStreamAssumption DEF VarintMore, Control
  <2>3. Control'
    BY <1>2, <2>1, <2>2 DEF VarintMore, Consumed, Control, CondemnedStops
  <2> QED
    BY <1>2, <2>3, SameField, Parts DEF VarintMore
<1> QED
  BY <1>1, <1>2

LEMMA VarintTooWideStep ==
    ASSUME Inductive, VarintTooWide
    PROVE  Inductive'
BY RejectStep DEF VarintTooWide, Reasons

\* What the steps that consume a byte have in common: the varint is complete,
\* the callback, if any, may have condemned the message.
LEMMA ConsumedControl ==
    ASSUME Inductive, feeding, Consumed, vshift' = 0,
           invalid' \in BOOLEAN, why' \in Reasons, skipped' \in 0..SkipMax,
           invalid' => Active'.state \notin {"array_count", "fixlen_len"}
    PROVE  Control'
<1>1. Control /\ 0 \in 0..MaxGroups - 1
  BY Parts, IStreamAssumption
<1>2. vshift' \in 0..MaxGroups - 1
  BY <1>1
<1> QED
  BY <1>1, <1>2 DEF Consumed, Control, CondemnedStops

LEMMA CallbackType ==
    ASSUME Inductive, NEW d, NEW condemn \in BOOLEAN, NEW before,
           d.clash \in BOOLEAN, CallbackEffects(d, condemn, before)
    PROVE  invalid' \in BOOLEAN /\ why' \in Reasons /\ skipped' \in 0..SkipMax
<1>1. Control /\ SkipMax \in Nat
  BY Parts, IStreamAssumption
<1>2. invalid' \in BOOLEAN /\ why' \in Reasons
  BY <1>1 DEF CallbackEffects, Control, Reasons
<1>3. skipped' \in 0..SkipMax
  BY <1>1 DEF CallbackEffects, Control
<1> QED
  BY <1>2, <1>3

LEMMA NoCallbackType ==
    ASSUME Inductive, NoCallback
    PROVE  invalid' \in BOOLEAN /\ why' \in Reasons /\ skipped' \in 0..SkipMax
           /\ invalid' = invalid
BY Parts DEF NoCallback, Control

\* The reads a callback may answer with are public reads, and a decoder in a
\* skipped sequence is not asked.
LEMMA AnswerType ==
    ASSUME Inductive, NEW c \in Answers
    PROVE  /\ c.read \in Reads \cup {Decline}
           /\ c.condemn \in BOOLEAN
           /\ Active.skip > 0 => c.read = Decline /\ c.condemn = FALSE
<1>1. Active.skip \in Nat
  BY ActiveType
<1>2. CASE Active.skip > 0
  <2>1. c = [read |-> Decline, condemn |-> FALSE]
    BY <1>2 DEF Answers
  <2>2. c.read = Decline /\ c.condemn = FALSE
    BY <2>1
  <2> QED
    BY <2>2
<1>3. CASE ~(Active.skip > 0)
  BY <1>3 DEF Answers
<1> QED
  BY <1>2, <1>3

-----------------------------------------------------------------------------
(* Headers.                                                                *)

LEMMA HeaderFields ==
    ASSUME NEW type \in WireTypes, NEW ch \in Seq(Decoder)
    PROVE  LET f == Header(type, ch)
           IN  /\ f \in Fields
               /\ f.chain = ch /\ f.len = 0 /\ f.count = 0
               /\ f.opt = WireOpt(type) /\ f.opt.ft = type
BY DEF Header, WireOpt, Fields, Options

LEMMA ParkedType ==
    ASSUME Inductive, NEW s \in States
    PROVE  Parked(s) \in Seq(Decoder) /\ Parked(s) # <<>>
<1>1. ChainOK(Parked(s), depth)
  BY ActiveType, SetState DEF Parked
<1> QED
  BY <1>1 DEF ChainOK

LEMMA HeaderScalarStep ==
    ASSUME Inductive, NEW type \in ScalarTypes, HeaderScalar(type)
    PROVE  Inductive'
<1> DEFINE s == IF type = "VU" THEN "vu" ELSE "vs"
           f == Header(type, Parked(s))
<1>0. s \in States /\ type \in WireTypes /\ type \in {"VU", "VS"}
  BY DEF States, WireTypes, ScalarTypes
<1>1. PICK c \in Answers :
         /\ chain' = Deliver(f, c.read, TRUE).chain
         /\ SetTarget(Deliver(f, c.read, TRUE), Deliver(f, c.read, TRUE).count)
         /\ CallbackEffects(Deliver(f, c.read, TRUE), c.condemn, 0)
  BY DEF HeaderScalar
<1> DEFINE d == Deliver(f, c.read, TRUE)
<1>2. /\ Parked(s) \in Seq(Decoder) /\ Parked(s) # <<>>
  BY <1>0, ParkedType
<1>3. f \in Fields /\ f.chain = Parked(s) /\ f.opt.ft = type
  BY <1>0, <1>2, HeaderFields
<1>4. c.read \in Reads \cup {Decline} /\ c.condemn \in BOOLEAN
  BY AnswerType
<1>5. /\ feeding /\ ~invalid /\ vshift' = 0 /\ Consumed
      /\ UNCHANGED <<depth, awc, rem, utf8, badText, overrun>>
  BY DEF HeaderScalar, HeaderSeen, InState
<1>51. d.bound => Active.skip = 0
  <2>1. Active.skip > 0 => ~d.bound
    BY AnswerType, DeclineUnbound
  <2>2. Active.skip \in Nat
    BY ActiveType
  <2> HIDE DEF d
  <2> QED
    BY <2>1, <2>2
<1> HIDE DEF s, f
<1>6. Delivered(d, f, TRUE)
  BY <1>2, <1>3, <1>4, DeliverType
<1> HIDE DEF d
<1>7. chain' = d.chain /\ SetTarget(d, d.count) /\ CallbackEffects(d, c.condemn, 0)
  BY <1>1 DEF d
<1>8. chain' = Parked(s)
  BY <1>0, <1>3, <1>6, <1>7 DEF Delivered
<1>9. Nesting' /\ Active'.state = s /\ Active'.skip = Active.skip /\ Active.skip \in Nat
  BY <1>0, <1>5, <1>8, ParkedNesting, ActiveType
<1>10. \/ s = "vu" /\ type = "VU"
       \/ s = "vs" /\ type = "VS"
  <2>1. type = "VU" \/ type = "VS"
    BY <1>0
  <2>2. type = "VU" => s = "vu"
    BY DEF s
  <2>3. type = "VS" => s = "vs"
    BY DEF s
  <2> QED
    BY <2>1, <2>2, <2>3
<1>11. Control'
  <2>1. d.clash \in BOOLEAN
    BY <1>6 DEF Delivered
  <2> QED
    BY <1>4, <1>5, <1>7, <1>9, <1>10, <2>1, CallbackType, ConsumedControl
<1>12. Target'
  <2>1. /\ bound' = d.bound /\ room' = d.room /\ len' = d.len /\ count' = d.count
        /\ opt' = d.opt
    BY <1>7 DEF SetTarget
  <2>2. /\ d.bound \in BOOLEAN /\ d.room \in Nat /\ d.len \in Nat /\ d.count \in Nat
        /\ d.opt \in Options
        /\ d.bound => d.opt.ft = type /\ d.room = d.len
    BY <1>3, <1>6, <1>10 DEF Delivered, ScalarTypes
  <2>3. Target
    BY Parts
  <2> QED
    BY <1>5, <1>51, <1>9, <1>10, <2>1, <2>2, <2>3
    DEF Target, PayloadPending, FieldExpected, BoundFits, TextBound, NoOverrun, VarintArrays
<1>13. Notes'
  BY <1>7, <1>9, <1>10 DEF CallbackEffects, Notes, NotifiedOnce
<1> QED
  BY <1>9, <1>11, <1>12, <1>13, Parts

LEMMA HeaderDeferredStep ==
    ASSUME Inductive, NEW type \in ArrayTypes \cup {"FIX"}, HeaderDeferred(type)
    PROVE  Inductive'
<1> DEFINE s == IF type = "FIX" THEN "fixlen_len" ELSE "array_count"
           f == Header(type, chain)
<1>1. s \in States /\ type \in WireTypes /\ s \in {"fixlen_len", "array_count"}
  BY DEF States, WireTypes
<1>2. /\ feeding /\ ~invalid /\ vshift' = 0 /\ Consumed /\ chain' = Parked(s)
      /\ UNCHANGED <<depth, awc, rem, utf8, badText, overrun>>
      /\ notified' = 0 /\ NoCallback /\ SetTarget(Unbound(f), 0)
  BY DEF HeaderDeferred, HeaderSeen, InState
<1>21. s = "fixlen_len" => type = "FIX"
  OBVIOUS
<1>22. s = "array_count" => type \in ArrayTypes
  OBVIOUS
<1> HIDE DEF s
<1>3. Nesting' /\ Active'.state = s /\ Active'.skip = Active.skip /\ Active.skip \in Nat
  BY <1>1, <1>2, ParkedNesting, ActiveType
<1>4. Control'
  BY <1>2, NoCallbackType, ConsumedControl
<1>5. Target'
  <2>1. f \in Fields /\ f.len = 0 /\ f.opt \in Options /\ f.opt.ft = type
    BY <1>1, HeaderFields, Parts DEF Nesting, Fields
  <2> HIDE DEF f
  <2>2. /\ bound' = FALSE /\ room' = 0 /\ len' = 0 /\ count' = 0 /\ opt' \in Options
        /\ opt'.ft = type
    BY <1>2, <2>1, UnboundFields DEF SetTarget
  <2>3. Target
    BY Parts
  <2> QED
    BY <1>1, <1>2, <1>21, <1>22, <1>3, <2>2, <2>3
    DEF Target, PayloadPending, FieldExpected, BoundFits, TextBound, NoOverrun
<1>6. Notes'
  BY <1>1, <1>2, <1>3 DEF Notes, NotifiedOnce
<1> QED
  BY <1>3, <1>4, <1>5, <1>6, Parts

LEMMA HeaderStartStep ==
    ASSUME Inductive, HeaderStart
    PROVE  Inductive'
<1>1. CASE InState("idle") /\ ~invalid /\ depth = MaxDepth /\ Reject("depth")
  BY <1>1, RejectStep DEF Reasons
<1>2. CASE ~(depth = MaxDepth /\ Reject("depth"))
  <2> DEFINE f == Header("START", chain)
  <2>1. PICK c \in Answers :
           /\ chain' = IF Deliver(f, c.read, TRUE).bound
                       THEN Deliver(f, c.read, TRUE).chain
                       ELSE [Deliver(f, c.read, TRUE).chain EXCEPT
                                ![Len(Deliver(f, c.read, TRUE).chain)].skip = @ + 1]
           /\ SetTarget(Deliver(f, c.read, TRUE), Deliver(f, c.read, TRUE).count)
           /\ CallbackEffects(Deliver(f, c.read, TRUE), c.condemn, 0)
    BY <1>2 DEF HeaderStart
  <2>2. /\ feeding /\ ~invalid /\ vshift' = 0 /\ Consumed /\ Active.state = "idle"
        /\ depth # MaxDepth /\ depth' = depth + 1
        /\ UNCHANGED <<awc, rem, utf8, badText, overrun>>
    BY <1>2 DEF HeaderStart, HeaderSeen, InState
  <2> DEFINE d == Deliver(f, c.read, TRUE)
  <2>3. /\ ChainOK(chain, depth) /\ depth \in 0..MaxDepth /\ Active = Top(chain)
        /\ chain \in Seq(Decoder) /\ chain # <<>> /\ Active.skip \in Nat
    BY ActiveType DEF ChainOK
  <2>4. "START" \in WireTypes
    BY DEF WireTypes
  <2>5. f \in Fields /\ f.chain = chain /\ f.opt.ft = "START"
    BY <2>3, <2>4, HeaderFields
  <2>6. /\ c.read \in Reads \cup {Decline} /\ c.condemn \in BOOLEAN
        /\ Active.skip > 0 => c.read = Decline
    BY AnswerType
  <2>7. Active.skip > 0 => ~d.bound
    BY <2>6, DeclineUnbound
  <2> HIDE DEF f
  <2>8. Delivered(d, f, TRUE)
    BY <2>3, <2>5, <2>6, DeliverType
  <2> HIDE DEF d
  <2>9. /\ chain' = IF d.bound THEN d.chain ELSE [d.chain EXCEPT ![Len(d.chain)].skip = @ + 1]
        /\ SetTarget(d, d.count) /\ CallbackEffects(d, c.condemn, 0)
    BY <2>1 DEF d
  <2>10. d.chain = IF d.bound THEN Append(chain, Fresh) ELSE chain
    BY <2>5, <2>8 DEF Delivered
  <2>11. depth' \in 0..MaxDepth
    BY <2>2, <2>3, IStreamAssumption
  <2>12. Nesting' /\ Active'.state = "idle" /\ (d.bound => Active'.skip = 0)
    <3>1. CASE d.bound
      <4>1. Active = Fresh
        <5>1. Active \in Decoder
          BY <2>3, TopType
        <5> QED
          BY <2>2, <2>3, <2>7, <3>1, <5>1 DEF Fresh, Decoder
      <4>2. chain' = Append(chain, Fresh)
        BY <2>9, <2>10, <3>1
      <4>3. ChainOK(chain', depth') /\ Top(chain') = Fresh
        BY <2>2, <2>3, <4>1, <4>2, PushDecoder
      <4> QED
        BY <2>11, <4>3, NestingIsChain DEF Fresh
    <3>2. CASE ~d.bound
      <4>1. chain' = [chain EXCEPT ![Len(chain)].skip = @ + 1]
        BY <2>9, <2>10, <3>2
      <4> DEFINE k == Top(chain).skip + 1
      <4>2. chain' = [chain EXCEPT ![Len(chain)].skip = k]
        BY <4>1 DEF Top
      <4>3. k \in Nat /\ depth' = depth - Top(chain).skip + k
        BY <2>2, <2>3
      <4> HIDE DEF k
      <4>4. ChainOK(chain', depth') /\ Top(chain').state = Top(chain).state
        BY <2>3, <4>2, <4>3, SetSkip
      <4> QED
        BY <2>2, <2>3, <2>11, <3>2, <4>4, NestingIsChain
    <3> QED
      BY <3>1, <3>2
  <2>13. Control'
    <3>1. d.clash \in BOOLEAN
      BY <2>8 DEF Delivered
    <3> QED
      BY <2>2, <2>6, <2>9, <2>12, <3>1, CallbackType, ConsumedControl
  <2>14. Target'
    <3>1. /\ bound' = d.bound /\ room' = d.room /\ len' = d.len /\ count' = d.count
          /\ opt' = d.opt
      BY <2>9 DEF SetTarget
    <3>2. /\ d.bound \in BOOLEAN /\ d.room \in Nat /\ d.len \in Nat /\ d.count \in Nat
          /\ d.opt \in Options
      BY <2>8 DEF Delivered
    <3>3. Target
      BY Parts
    <3> QED
      BY <2>2, <2>12, <3>1, <3>2, <3>3
      DEF Target, PayloadPending, FieldExpected, BoundFits, TextBound, NoOverrun
  <2>15. Notes'
    BY <2>2, <2>9, <2>12 DEF CallbackEffects, Notes, NotifiedOnce
  <2> QED
    BY <2>12, <2>13, <2>14, <2>15, Parts
<1> QED
  BY <1>1, <1>2 DEF HeaderStart

LEMMA HeaderEndStep ==
    ASSUME Inductive, HeaderEnd
    PROVE  Inductive'
<1> DEFINE f == Header("END", chain)
<1>1. CASE InState("idle") /\ ~invalid /\ Active.skip = 0 /\ Len(chain) = 1 /\ Reject("end")
  BY <1>1, RejectStep DEF Reasons
<1>2. CASE /\ HeaderSeen
           /\ \/ /\ Active.skip > 0
                 /\ chain' = [chain EXCEPT ![Len(chain)].skip = @ - 1]
              \/ /\ Active.skip = 0
                 /\ Len(chain) > 1
                 /\ chain' = Front(chain)
           /\ depth' = depth - 1
           /\ SetTarget(Unbound(f), 0)
           /\ notified' = 0
           /\ NoCallback
           /\ UNCHANGED <<awc, rem, utf8, badText, overrun>>
  <2>1. feeding /\ ~invalid /\ vshift' = 0 /\ Consumed /\ Active.state = "idle"
    BY <1>2 DEF HeaderSeen, InState
  <2>2. /\ ChainOK(chain, depth) /\ depth \in 0..MaxDepth /\ Active = Top(chain)
        /\ chain \in Seq(Decoder) /\ Active.skip \in Nat /\ Len(chain) \in Nat \ {0}
        /\ depth = (Len(chain) - 1) + Top(chain).skip
    BY ActiveType DEF ChainOK
  <2>3. Nesting' /\ Active'.state = "idle"
    <3>0. depth' \in 0..MaxDepth
      <4>1. (Active.skip > 0 \/ Len(chain) > 1) /\ depth' = depth - 1
        BY <1>2
      <4>2. MaxDepth \in Nat
        BY IStreamAssumption
      <4> DEFINE l == Len(chain)
                 k == Top(chain).skip
      <4>3. l \in Nat \ {0} /\ k \in Nat /\ depth = (l - 1) + k /\ (k > 0 \/ l > 1)
            /\ depth \in 0..MaxDepth
        BY <2>2, <4>1
      <4> HIDE DEF l, k
      <4> QED
        BY <4>1, <4>2, <4>3
    <3>1. CASE Active.skip > 0 /\ chain' = [chain EXCEPT ![Len(chain)].skip = @ - 1]
      <4> DEFINE k == Top(chain).skip - 1
      <4>2. chain' = [chain EXCEPT ![Len(chain)].skip = k]
        BY <3>1 DEF Top
      <4>3. k \in Nat /\ depth' = depth - Top(chain).skip + k
        BY <1>2, <2>2, <3>1
      <4> HIDE DEF k
      <4>4. ChainOK(chain', depth') /\ Top(chain').state = Top(chain).state
        BY <2>2, <4>2, <4>3, SetSkip
      <4> QED
        BY <2>1, <2>2, <3>0, <4>4, NestingIsChain
    <3>2. CASE Active.skip = 0 /\ Len(chain) > 1 /\ chain' = Front(chain)
      <4>1. ChainOK(chain', depth') /\ Top(chain') = Fresh
        BY <1>2, <2>2, <3>2, PopDecoder
      <4> QED
        BY <3>0, <4>1, NestingIsChain DEF Fresh
    <3> QED
      BY <1>2, <3>1, <3>2
  <2>4. Control'
    BY <1>2, <2>1, NoCallbackType, ConsumedControl
  <2>5. Target'
    <3>1. f \in Fields
      <4>1. "END" \in WireTypes
        BY DEF WireTypes
      <4> QED
        BY <2>2, <4>1, HeaderFields
    <3> HIDE DEF f
    <3>2. bound' = FALSE /\ room' = 0 /\ len' \in Nat /\ count' = 0 /\ opt' \in Options
      BY <1>2, <3>1, UnboundFields DEF SetTarget, Fields
    <3>3. Target
      BY Parts
    <3> QED
      BY <1>2, <2>3, <3>2, <3>3 DEF Target, PayloadPending, FieldExpected, BoundFits, TextBound, NoOverrun
  <2>6. Notes'
    BY <1>2, <2>3 DEF Notes, NotifiedOnce
  <2> QED
    BY <2>3, <2>4, <2>5, <2>6, Parts
<1> QED
  BY <1>1, <1>2 DEF HeaderEnd

-----------------------------------------------------------------------------
(* Payloads.                                                               *)

\* One element of l bytes out of a room for c of them.
LEMMA OneElement ==
    ASSUME NEW c \in Nat, NEW l \in Nat, NEW r \in Nat, c > 0, r >= c * l
    PROVE  l <= r /\ r - l \in Nat /\ r - l >= (c - 1) * l
<1> DEFINE m == (c - 1) * l
<1>1. c - 1 \in Nat /\ c * l = (c - 1) * l + l
  OBVIOUS
<1>2. m \in Nat /\ c * l = m + l
  BY <1>1
<1>3. c * l \in Nat
  OBVIOUS
<1> HIDE DEF m
<1>4. l <= r /\ r - l \in Nat /\ r - l >= m
  BY <1>2, <1>3
<1> QED
  BY <1>4 DEF m

LEMMA FewerElements ==
    ASSUME NEW n \in Nat, NEW c \in Nat, NEW l \in Nat, n <= c
    PROVE  n * l <= c * l
<1>1. (c - n) * l \in Nat /\ c * l = n * l + (c - n) * l
  OBVIOUS
<1> QED
  BY <1>1

LEMMA ScalarValueStep ==
    ASSUME Inductive, NEW need \in Needs, ScalarValue(need)
    PROVE  Inductive'
<1>1. feeding /\ Active.state \in {"vu", "vs"}
  BY DEF ScalarValue
<1>2. CASE ArgumentError
  BY <1>2, ArgumentErrorStep
<1>3. CASE Reject("range")
  BY <1>3, RejectStep DEF Reasons
<1>4. CASE ~ArgumentError /\ ~Reject("range")
  <2> DEFINE array == opt.ft = (IF Active.state = "vu" THEN "ARR_U" ELSE "ARR_S")
             left == LessOne(count)
  <2>1. /\ IF bound THEN Stored(len, room) ELSE UNCHANGED overrun
        /\ count' = IF array THEN left ELSE count
        /\ room' = IF array /\ bound /\ len <= room THEN room - len ELSE room
        /\ chain' = IF array /\ left > 0 THEN chain ELSE Parked("idle")
        /\ vshift' = 0
        /\ Consumed
        /\ UNCHANGED <<invalid, depth, bound, len, awc, opt, rem, utf8,
                       skipped, badText, notified, why>>
    BY <1>4 DEF ScalarValue
  <2>2. Target /\ SizeMax \in Nat
    BY Parts, IStreamAssumption
  <2>3. /\ room \in Nat /\ len \in Nat /\ count \in Nat /\ bound \in BOOLEAN
        /\ left \in Nat /\ (count > 0 => left = count - 1)
    BY <2>2 DEF Target, LessOne
  <2>4. array \in BOOLEAN /\ (array => opt.ft \in VarintArrays)
    BY <1>1 DEF VarintArrays
  <2>5. bound /\ ~array => opt.ft \notin VarintArrays
    BY <1>1, <2>2 DEF Target, BoundFits, VarintArrays
  <2>51. bound => Active.skip = 0
    BY <1>1, <2>2 DEF Target, BoundFits
  <2>6. bound => IF array THEN count > 0 /\ room >= count * len ELSE room >= len
    BY <1>1, <2>2, <2>4, <2>5 DEF Target, BoundFits
  <2>7. bound => len <= room
    BY <2>3, <2>6, OneElement
  <2> HIDE DEF array, left
  <2>8. overrun' = FALSE
    BY <2>1, <2>2, <2>3, <2>7 DEF Stored, Target, NoOverrun
  <2>9. room' \in Nat /\ count' \in Nat
    BY <2>1, <2>3, <2>4
  <2>10. Nesting' /\ Active'.skip = Active.skip
         /\ Active'.state = IF array /\ left > 0 THEN Active.state ELSE "idle"
    <3>1. CASE array /\ left > 0
      BY <2>1, <3>1, SameNesting DEF chainVars
    <3>2. CASE ~(array /\ left > 0)
      BY <2>1, <3>2, ParkedNesting DEF States
    <3> QED
      BY <3>1, <3>2
  <2>11. Control'
    <3>1. Control
      BY Parts
    <3> QED
      BY <1>1, <2>1, <2>10, <3>1, ConsumedControl DEF Control
  <2>12. BoundFits'
    <3>1. CASE bound /\ array /\ left > 0
      <4>1. count' = count - 1 /\ room' = room - len /\ count' > 0 /\ len' = len
            /\ opt' = opt /\ bound' = bound /\ Active'.state = Active.state
        BY <2>1, <2>3, <2>6, <2>7, <2>10, <3>1
      <4>2. room - len >= (count - 1) * len
        BY <2>3, <2>6, <3>1, OneElement
      <4>3. Active.state = "vu" => opt.ft \in {"VU", "ARR_U"}
        BY <1>1, <2>2, <3>1 DEF Target, BoundFits
      <4>4. Active.state = "vs" => opt.ft \in {"VS", "ARR_S"}
        BY <1>1, <2>2, <3>1 DEF Target, BoundFits
      <4> QED
        BY <1>1, <2>4, <2>10, <2>51, <3>1, <4>1, <4>2, <4>3, <4>4 DEF BoundFits
    <3>2. CASE ~bound
      BY <2>1, <3>2 DEF BoundFits
    <3>3. CASE ~(array /\ left > 0)
      BY <2>1, <2>10, <2>51, <3>3 DEF BoundFits
    <3> QED
      BY <2>3, <3>1, <3>2, <3>3
  <2>13. Target'
    BY <1>1, <2>1, <2>2, <2>8, <2>9, <2>10, <2>12
    DEF Target, PayloadPending, FieldExpected, TextBound, NoOverrun
  <2>14. Notes'
    <3>1. Notes
      BY Parts
    <3> QED
      BY <1>1, <2>1, <2>10, <3>1 DEF Notes, NotifiedOnce
  <2> QED
    BY <2>10, <2>11, <2>13, <2>14, Parts
<1> QED
  BY <1>2, <1>3, <1>4

LEMMA FixlenValByteStep ==
    ASSUME Inductive, FixlenValByte
    PROVE  Inductive'
<1>1. /\ feeding /\ Active.state = "fixlen_val"
      /\ IF bound THEN Stored(1, room) ELSE UNCHANGED overrun
      /\ room' = IF bound /\ room > 0 THEN room - 1 ELSE room
      /\ Consumed
      /\ UNCHANGED <<invalid, depth, vshift, bound, len, awc, opt, utf8, skipped,
                     notified, why, badText>>
  BY DEF FixlenValByte, PayloadByte, InState
<1>2. /\ Control /\ Target /\ Notes
      /\ room \in Nat /\ len \in Nat /\ count \in Nat /\ rem \in Nat /\ bound \in BOOLEAN
  BY Parts DEF Target
<1>3. /\ rem > 0
      /\ opt.ft = "ARR_F" => count > 0 /\ len > 0
      /\ bound => IF opt.ft = "ARR_F" THEN room >= (count - 1) * len + rem ELSE room >= rem
  BY <1>1, <1>2 DEF Target, PayloadPending, BoundFits
<1>4. ASSUME opt.ft = "ARR_F"
      PROVE  (count - 1) * len \in Nat
  BY <1>2, <1>3, <1>4
<1>5. bound => room > 0 /\ room' = room - 1
  BY <1>1, <1>2, <1>3, <1>4
<1>6. overrun' = FALSE /\ room' \in Nat
  BY <1>1, <1>2, <1>5 DEF Stored, Target, NoOverrun
<1>7. ASSUME Nesting', Active'.skip = Active.skip, Active'.state \in {"fixlen_val", "idle"},
             rem' \in Nat, count' \in Nat,
             Active'.state = "fixlen_val" =>
                /\ rem' > 0
                /\ opt.ft = "ARR_F" => count' > 0
                /\ bound => IF opt.ft = "ARR_F" THEN room' >= (count' - 1) * len + rem'
                            ELSE room' >= rem'
      PROVE  Inductive'
  <2>1. Control'
    BY <1>1, <1>2, <1>7 DEF Consumed, Control, CondemnedStops
  <2>2. Target'
    BY <1>1, <1>2, <1>3, <1>6, <1>7
    DEF Target, PayloadPending, FieldExpected, BoundFits, TextBound, NoOverrun
  <2>3. Notes'
    BY <1>1, <1>2, <1>7 DEF Notes, NotifiedOnce
  <2> QED
    BY <1>7, <2>1, <2>2, <2>3, Parts
<1>8. CASE rem - 1 > 0 /\ rem' = rem - 1 /\ UNCHANGED <<chain, count>>
  <2>1. Nesting' /\ Active' = Active
    BY <1>1, <1>8, SameNesting DEF chainVars
  <2>2. bound => IF opt.ft = "ARR_F" THEN room' >= (count' - 1) * len + rem' ELSE room' >= rem'
    BY <1>2, <1>3, <1>4, <1>5, <1>8
  <2> QED
    BY <1>1, <1>2, <1>3, <1>7, <1>8, <2>1, <2>2
<1>9. CASE /\ rem - 1 = 0 /\ opt.ft = "ARR_F" /\ count' = LessOne(count)
           /\ rem' = (IF LessOne(count) > 0 THEN len ELSE 0)
           /\ chain' = IF LessOne(count) > 0 THEN chain ELSE Parked("idle")
  <2>1. LessOne(count) = count - 1 /\ count > 0 /\ len > 0
    BY <1>2, <1>3, <1>9 DEF LessOne
  <2>2. CASE count - 1 > 0
    <3>1. Nesting' /\ Active' = Active
      BY <1>1, <1>9, <2>1, <2>2, SameNesting DEF chainVars
    <3>2. count' = count - 1 /\ rem' = len
      BY <1>9, <2>1, <2>2
    <3>3. bound => room' >= (count' - 1) * len + rem'
      <4>1. (count - 1) * len = (count - 2) * len + len
        BY <1>2
      <4>2. ASSUME bound PROVE room' >= (count - 1) * len
        <5>1. rem = 1 /\ room' = room - 1 /\ room >= (count - 1) * len + rem
          BY <1>2, <1>3, <1>5, <1>9, <4>2
        <5> QED
          BY <1>2, <1>4, <1>9, <5>1
      <4>3. count' - 1 = count - 2
        BY <1>2, <3>2
      <4> QED
        BY <3>2, <4>1, <4>2, <4>3
    <3> QED
      BY <1>1, <1>2, <1>7, <1>9, <2>1, <2>2, <3>1, <3>2, <3>3
  <2>3. CASE ~(count - 1 > 0)
    <3>1. Nesting' /\ Active'.state = "idle" /\ Active'.skip = Active.skip
      BY <1>1, <1>9, <2>1, <2>3, ParkedNesting DEF States
    <3>2. count' \in Nat /\ rem' \in Nat
      BY <1>2, <1>9, <2>1, <2>3
    <3> QED
      BY <1>7, <3>1, <3>2
  <2> QED
    BY <2>2, <2>3
<1>10. CASE rem - 1 = 0 /\ opt.ft # "ARR_F" /\ rem' = 0 /\ chain' = Parked("idle")
            /\ UNCHANGED count
  <2>1. Nesting' /\ Active'.state = "idle" /\ Active'.skip = Active.skip
    BY <1>1, <1>10, ParkedNesting DEF States
  <2> QED
    BY <1>2, <1>7, <1>10, <2>1
<1> QED
  BY <1>8, <1>9, <1>10 DEF FixlenValByte

LEMMA FixlenRawByteStep ==
    ASSUME Inductive, NEW bad \in BOOLEAN, FixlenRawByte(bad)
    PROVE  Inductive'
<1>1. CASE Reject("text")
  BY <1>1, RejectStep DEF Reasons
<1>2. CASE ~Reject("text")
  <2>1. /\ feeding /\ Active.state = "fixlen_raw"
        /\ IF bound THEN Stored(1, room) ELSE UNCHANGED overrun
        /\ room' = IF bound /\ room > 0 THEN room - 1 ELSE room
        /\ Consumed
        /\ UNCHANGED <<invalid, depth, vshift, bound, len, awc, opt, utf8, skipped,
                       notified, why, count>>
        /\ rem' = rem - 1
        /\ badText' = (utf8 /\ (badText \/ bad))
        /\ chain' = IF rem - 1 = 0 THEN Parked("idle") ELSE chain
    BY <1>2 DEF FixlenRawByte, PayloadByte, InState
  <2>2. /\ Control /\ Target /\ Notes
        /\ room \in Nat /\ len \in Nat /\ count \in Nat /\ rem \in Nat /\ bound \in BOOLEAN
    BY Parts DEF Target
  <2>3. rem > 0 /\ (bound => room >= rem /\ opt.ft # "ARR_F" /\ Active.skip = 0)
    BY <2>1, <2>2 DEF Target, PayloadPending, BoundFits
  <2>4. /\ bound => room > 0 /\ room' = room - 1 /\ room' >= rem'
        /\ rem' \in Nat /\ room' \in Nat
    BY <2>1, <2>2, <2>3
  <2>5. overrun' = FALSE
    BY <2>1, <2>2, <2>4 DEF Stored, Target, NoOverrun
  <2>6. /\ Nesting' /\ Active'.skip = Active.skip
        /\ Active'.state = IF rem - 1 = 0 THEN "idle" ELSE "fixlen_raw"
    <3>1. CASE rem - 1 = 0
      BY <2>1, <3>1, ParkedNesting DEF States
    <3>2. CASE rem - 1 # 0
      BY <2>1, <3>2, SameNesting DEF chainVars
    <3> QED
      BY <3>1, <3>2
  <2>7. Active'.state = "fixlen_raw" => rem' > 0
    BY <2>1, <2>2, <2>3, <2>6
  <2>8. Control'
    BY <2>1, <2>2, <2>6 DEF Consumed, Control, CondemnedStops
  <2>9. Target'
    <3>1. utf8 \in BOOLEAN /\ badText' \in BOOLEAN
      BY <2>1, <2>2 DEF Target
    <3>2. Active'.state = "idle" \/ (Active'.state = "fixlen_raw" /\ Active'.state = Active.state)
      BY <2>1, <2>6
    <3>3. BoundFits'
      BY <2>1, <2>3, <2>4, <2>6, <3>2 DEF BoundFits
    <3> QED
      BY <2>1, <2>2, <2>4, <2>5, <2>7, <3>1, <3>2, <3>3
      DEF Target, PayloadPending, FieldExpected, TextBound, NoOverrun
  <2>10. Notes'
    BY <2>1, <2>2, <2>6 DEF Notes, NotifiedOnce
  <2> QED
    BY <2>6, <2>8, <2>9, <2>10, Parts
<1> QED
  BY <1>1, <1>2

\* The callback's answer to the field f: what is delivered, and that only a
\* field outside a skipped sequence is bound.
LEMMA AnswerDelivers ==
    ASSUME Inductive, NEW f \in Fields, f.chain # <<>>, NEW c \in Answers,
           NEW withSub \in BOOLEAN
    PROVE  /\ Delivered(Deliver(f, c.read, withSub), f, withSub)
           /\ Deliver(f, c.read, withSub).bound => Active.skip = 0
<1>1. /\ c.read \in Reads \cup {Decline} /\ c.condemn \in BOOLEAN
      /\ Active.skip > 0 => c.read = Decline
  BY AnswerType
<1>2. Delivered(Deliver(f, c.read, withSub), f, withSub)
  BY <1>1, DeliverType
<1>3. Active.skip > 0 => ~Deliver(f, c.read, withSub).bound
  BY <1>1, DeclineUnbound
<1>4. Active.skip \in Nat
  BY ActiveType
<1> QED
  BY <1>2, <1>3, <1>4

LEMMA ArrayCountStep ==
    ASSUME Inductive, NEW n \in Counts, ArrayCount(n)
    PROVE  Inductive'
<1>1. /\ feeding /\ Active.state = "array_count" /\ n \in Nat
      /\ Control /\ Target /\ Notes /\ Nesting
  BY IStreamAssumption, Parts DEF ArrayCount, InState
<1>2. ~invalid /\ ~bound /\ opt.ft \in ArrayTypes /\ len \in Nat /\ opt \in Options
  BY <1>1 DEF Control, CondemnedStops, Target, BoundFits, FieldExpected
<1>3. CASE n > ArrayMax
  BY <1>3, RejectStep DEF ArrayCount, Reasons
<1>4. CASE ~(n > ArrayMax) /\ opt.ft = "ARR_F"
  <2>1. /\ chain' = Parked("fixlen_len") /\ count' = n /\ awc' = n /\ vshift' = 0
        /\ Consumed /\ NoCallback
        /\ UNCHANGED <<depth, bound, room, len, opt, rem, utf8, badText, notified, overrun>>
    BY <1>4 DEF ArrayCount
  <2>2. Nesting' /\ Active'.state = "fixlen_len" /\ Active'.skip = Active.skip
    BY <2>1, ParkedNesting DEF States
  <2>3. Control'
    <3>1. invalid' \in BOOLEAN /\ why' \in Reasons /\ skipped' \in 0..SkipMax /\ ~invalid'
      BY <1>2, <2>1, NoCallbackType
    <3> QED
      BY <1>1, <2>1, <3>1, ConsumedControl
  <2>4. awc' \in 0..ArrayMax
    BY <1>1, <1>4, <2>1, IStreamAssumption
  <2>5. Target'
    BY <1>1, <1>2, <1>4, <2>1, <2>2, <2>4
    DEF Target, PayloadPending, FieldExpected, BoundFits, TextBound, NoOverrun
  <2>6. Notes'
    BY <1>1, <2>1, <2>2 DEF Notes, NotifiedOnce
  <2> QED
    BY <2>2, <2>3, <2>5, <2>6, Parts
<1>5. CASE ~(n > ArrayMax) /\ opt.ft # "ARR_F"
  <2> DEFINE f == [chain |-> chain, len |-> len, count |-> n, opt |-> opt]
             next == IF n = 0 THEN "idle" ELSE ElementState(opt.ft)
  <2>1. PICK c \in Answers :
           LET d == Deliver(f, c.read, n > 0)
           IN  IF TooMany(d, n)
               THEN RejectRead(IF c.condemn THEN "callback" ELSE "capacity", d)
               ELSE /\ chain' = [d.chain EXCEPT ![Len(d.chain)].state = next]
                    /\ SetTarget(d, BoundCount(d, n))
                    /\ awc' = n
                    /\ IF d.bound THEN Stored(d.count * d.len, d.room)
                       ELSE UNCHANGED overrun
                    /\ CallbackEffects(d, c.condemn, notified)
                    /\ vshift' = 0
                    /\ Consumed
                    /\ UNCHANGED <<depth, rem, utf8, badText>>
    BY <1>5 DEF ArrayCount
  <2> DEFINE d == Deliver(f, c.read, n > 0)
  <2>2. f \in Fields /\ f.chain = chain /\ f.chain # <<>> /\ f.opt = opt
    BY <1>1, <1>2 DEF Fields, Nesting
  <2>3. (n > 0) \in BOOLEAN /\ c.condemn \in BOOLEAN
    <3>1. (n > 0) \in BOOLEAN
      OBVIOUS
    <3>2. c.condemn \in BOOLEAN
      BY AnswerType
    <3> QED
      BY <3>1, <3>2
  <2> HIDE DEF f
  <2>4. Delivered(d, f, n > 0) /\ (d.bound => Active.skip = 0)
    BY <2>2, <2>3, AnswerDelivers
  <2>5. CASE TooMany(d, n)
    <3>0. d.bound \in BOOLEAN
      BY <2>4 DEF Delivered
    <3>1. RejectRead(IF c.condemn THEN "callback" ELSE "capacity", d)
      BY <2>1, <2>5
    <3> HIDE DEF d
    <3> QED
      BY <1>1, <3>0, <3>1, RejectReadStep DEF Reasons
  <2>6. CASE ~TooMany(d, n)
    <3>1. /\ chain' = [d.chain EXCEPT ![Len(d.chain)].state = next]
          /\ SetTarget(d, BoundCount(d, n))
          /\ awc' = n
          /\ IF d.bound THEN Stored(d.count * d.len, d.room) ELSE UNCHANGED overrun
          /\ CallbackEffects(d, c.condemn, notified)
          /\ vshift' = 0
          /\ Consumed
          /\ UNCHANGED <<depth, rem, utf8, badText>>
      BY <2>1, <2>6
    <3> HIDE DEF d
    <3>2. next \in {"idle", "vu", "vs"} /\ next \in States
      BY DEF States, ElementState
    <3>3. /\ next = "vu" => n > 0 /\ opt.ft = "ARR_U"
          /\ next = "vs" => n > 0 /\ opt.ft = "ARR_S"
      <4>1. n = 0 => next = "idle"
        BY DEF ElementState
      <4>2. n # 0 /\ opt.ft = "ARR_U" => next = "vu"
        BY DEF ElementState
      <4>3. n # 0 /\ opt.ft # "ARR_U" => next = "vs"
        BY DEF ElementState
      <4> HIDE DEF next
      <4>4. opt.ft = "ARR_U" \/ opt.ft = "ARR_S"
        BY <1>2, <1>5 DEF ArrayTypes, VarintArrays
      <4>5. n # 0 => n > 0
        BY <1>1
      <4> QED
        BY <4>1, <4>2, <4>3, <4>4, <4>5, Zenon
    <3> HIDE DEF next
    <3>4. d.chain = chain
      BY <1>2, <2>2, <2>4 DEF Delivered, ArrayTypes, VarintArrays
    <3>5. Nesting' /\ Active'.state = next /\ Active'.skip = Active.skip
      BY <3>1, <3>2, <3>4, ParkedNesting DEF Parked
    <3>6. Control'
      <4>1. d.clash \in BOOLEAN
        BY <2>4 DEF Delivered
      <4>2. invalid' \in BOOLEAN /\ why' \in Reasons /\ skipped' \in 0..SkipMax
        BY <2>3, <3>1, <4>1, CallbackType
      <4>3. Active'.state \notin {"array_count", "fixlen_len"}
        BY <3>2, <3>5
      <4> QED
        BY <1>1, <3>1, <4>2, <4>3, ConsumedControl
    <3>7. /\ bound' = d.bound /\ room' = d.room /\ len' = d.len /\ opt' = d.opt
          /\ count' = IF d.bound THEN n ELSE d.count
      BY <3>1 DEF SetTarget, BoundCount
    <3>8. /\ d.bound \in BOOLEAN /\ d.room \in Nat /\ d.len \in Nat /\ d.count \in Nat
          /\ d.opt \in Options
          /\ d.bound => d.opt.ft = opt.ft /\ d.room = d.count * d.len
      BY <1>2, <2>2, <2>4 DEF Delivered
    <3>9. d.bound => n <= d.count
      BY <1>1, <2>6, <3>8 DEF TooMany
    <3>10. d.bound => d.room >= n * d.len
      BY <1>1, <3>8, <3>9, FewerElements
    <3>11. overrun' = FALSE
      BY <1>1, <3>1, <3>8 DEF Stored, Target, NoOverrun
    <3>12. awc' \in 0..ArrayMax /\ count' \in Nat
      BY <1>1, <1>5, <3>1, <3>7, <3>8, IStreamAssumption
    <3>13. BoundFits'
      <4>1. CASE d.bound /\ Active'.state # "idle"
        <5>1. n > 0 /\ count' = n /\ room' >= count' * len' /\ opt'.ft = opt.ft
          BY <3>2, <3>3, <3>5, <3>7, <3>8, <3>10, <4>1
        <5>2. opt'.ft \in VarintArrays
          BY <3>2, <3>3, <3>5, <4>1, <5>1 DEF VarintArrays
        <5> QED
          BY <2>4, <3>2, <3>3, <3>5, <4>1, <5>1, <5>2 DEF BoundFits
      <4>2. CASE ~d.bound
        BY <3>7, <4>2 DEF BoundFits
      <4>3. CASE Active'.state = "idle"
        BY <2>4, <3>5, <3>7, <4>3 DEF BoundFits
      <4> QED
        BY <4>1, <4>2, <4>3
    <3>14. Target'
      BY <1>1, <3>1, <3>2, <3>5, <3>7, <3>8, <3>11, <3>12, <3>13
      DEF Target, PayloadPending, FieldExpected, TextBound, NoOverrun
    <3>15. Notes'
      <4>1. notified = 0 /\ Active.skip \in Nat
        BY <1>1, ActiveType DEF Notes, NotifiedOnce
      <4>2. notified' = IF Active.skip > 0 THEN 0 ELSE 1
        BY <3>1, <4>1 DEF CallbackEffects
      <4> QED
        BY <3>2, <3>5, <4>1, <4>2 DEF Notes, NotifiedOnce
    <3> QED
      BY <3>5, <3>6, <3>14, <3>15, Parts
  <2> QED
    BY <2>5, <2>6
<1> QED
  BY <1>3, <1>4, <1>5

LEMMA FixlenWordStep ==
    ASSUME Inductive, NEW length \in Lengths, NEW sub \in Subtypes \cup {"bad"},
           FixlenWord(length, sub)
    PROVE  Inductive'
<1>1. /\ feeding /\ Active.state = "fixlen_len" /\ length \in Nat
      /\ Control /\ Target /\ Notes /\ Nesting
  BY IStreamAssumption, Parts DEF FixlenWord, InState
<1>2. ~invalid /\ ~bound /\ opt.ft \in {"FIX", "ARR_F"} /\ opt \in Options
      /\ count \in Nat /\ awc \in Nat
  BY <1>1, IStreamAssumption DEF Control, CondemnedStops, Target, BoundFits, FieldExpected
<1>3. CASE WordMalformed(length, sub)
  BY <1>3, RejectStep DEF FixlenWord, Reasons
<1>4. CASE ~WordMalformed(length, sub)
  <2> DEFINE payload == IF sub \in {"string", "blob"} THEN "fixlen_raw" ELSE "fixlen_val"
             f == [chain |-> Parked(payload), len |-> length, count |-> count,
                   opt |-> [opt EXCEPT !.sub = sub]]
  <2>1. PICK c \in Answers :
           LET d == Deliver(f, c.read, TRUE)
               array == d.opt.ft = "ARR_F"
               cnt == IF array THEN BoundCount(d, awc) ELSE d.count
               empty == array /\ cnt = 0
           IN  IF array /\ TooMany(d, awc)
               THEN RejectRead(IF c.condemn THEN "callback" ELSE "capacity", d)
               ELSE IF TooLong(d, length)
               THEN RejectRead(IF c.condemn THEN "callback" ELSE "length", d)
               ELSE /\ chain' = [d.chain EXCEPT ![Len(d.chain)].state =
                                    IF empty \/ length = 0 THEN "idle" ELSE @]
                    /\ SetTarget(d, cnt)
                    /\ IF d.bound THEN Stored(Touched(d, length), d.room)
                       ELSE UNCHANGED overrun
                    /\ utf8' = IF empty THEN utf8
                               ELSE StrictUtf8 /\ d.bound /\ d.opt.sub = "string"
                                    /\ length > 0
                    /\ rem' = IF empty \/ length = 0 THEN rem ELSE length
                    /\ badText' = FALSE
                    /\ CallbackEffects(d, c.condemn, notified)
                    /\ vshift' = 0
                    /\ Consumed
                    /\ UNCHANGED <<depth, awc>>
    BY <1>4 DEF FixlenWord
  <2> DEFINE d == Deliver(f, c.read, TRUE)
             array == d.opt.ft = "ARR_F"
             cnt == IF array THEN BoundCount(d, awc) ELSE d.count
             empty == array /\ cnt = 0
  <2>2. /\ sub \in Subtypes
        /\ sub = "fp32" => length = Fp32Len
        /\ sub = "fp64" => length = Fp64Len
        /\ opt.ft = "ARR_F" => sub \notin {"string", "blob"}
    BY <1>4 DEF WordMalformed
  <2>3. payload \in States /\ payload \in {"fixlen_raw", "fixlen_val"}
        /\ (payload = "fixlen_raw" <=> sub \in {"string", "blob"})
    BY DEF States
  <2>4. Parked(payload) \in Seq(Decoder) /\ Parked(payload) # <<>>
        /\ ChainOK(Parked(payload), depth)
        /\ Top(Parked(payload)).state = payload
        /\ Top(Parked(payload)).skip = Active.skip
    BY <2>3, ParkedType, ActiveType, SetState DEF Parked
  <2>5. /\ [opt EXCEPT !.sub = sub] \in Options
        /\ [opt EXCEPT !.sub = sub].ft = opt.ft
        /\ [opt EXCEPT !.sub = sub].sub = sub
    BY <1>2, <2>2 DEF Options
  <2> HIDE DEF payload
  <2>6. f \in Fields /\ f.chain = Parked(payload) /\ f.chain # <<>> /\ f.opt.ft = opt.ft
        /\ f.opt.sub = sub /\ f.len = length /\ f.count = count
    BY <1>1, <1>2, <2>4, <2>5 DEF Fields
  <2>7. c.condemn \in BOOLEAN
    BY AnswerType
  <2> HIDE DEF f
  <2>8. Delivered(d, f, TRUE) /\ (d.bound => Active.skip = 0)
    BY <2>6, AnswerDelivers
  <2>81. d.bound \in BOOLEAN
    BY <2>8 DEF Delivered
  <2>9. CASE RejectRead(IF c.condemn THEN "callback" ELSE "capacity", d)
    <3> HIDE DEF d
    <3> QED
      BY <1>1, <2>9, <2>81, RejectReadStep DEF Reasons
  <2>10. CASE RejectRead(IF c.condemn THEN "callback" ELSE "length", d)
    <3> HIDE DEF d
    <3> QED
      BY <1>1, <2>10, <2>81, RejectReadStep DEF Reasons
  <2>11. CASE ~(array /\ TooMany(d, awc)) /\ ~TooLong(d, length)
    <3>1. /\ chain' = [d.chain EXCEPT ![Len(d.chain)].state =
                          IF empty \/ length = 0 THEN "idle" ELSE @]
          /\ SetTarget(d, cnt)
          /\ IF d.bound THEN Stored(Touched(d, length), d.room) ELSE UNCHANGED overrun
          /\ utf8' = IF empty THEN utf8
                     ELSE StrictUtf8 /\ d.bound /\ d.opt.sub = "string" /\ length > 0
          /\ rem' = IF empty \/ length = 0 THEN rem ELSE length
          /\ badText' = FALSE
          /\ CallbackEffects(d, c.condemn, notified)
          /\ vshift' = 0
          /\ Consumed
          /\ UNCHANGED <<depth, awc>>
      BY <2>1, <2>11
    <3> HIDE DEF d
    <3>2. /\ d.bound \in BOOLEAN /\ d.clash \in BOOLEAN
          /\ d.room \in Nat /\ d.len \in Nat /\ d.count \in Nat /\ d.opt \in Options
          /\ d.chain = Parked(payload)
          /\ d.opt.term \in BOOLEAN
      <4>1. d.opt \in Options
        BY <2>8 DEF Delivered
      <4>2. d.opt.term \in BOOLEAN
        BY <4>1 DEF Options
      <4> QED
        BY <1>2, <2>6, <2>8, <4>1, <4>2 DEF Delivered
    <3>3. /\ d.bound => d.opt.ft = opt.ft /\ d.opt.sub = sub /\ d.len > 0
          /\ d.bound /\ opt.ft = "ARR_F" => d.room = d.count * d.len /\ d.len = Width(sub)
          /\ d.bound /\ opt.ft = "FIX" => d.room = d.len
      BY <1>2, <2>6, <2>8 DEF Delivered, ArrayTypes
    <3>4. d.bound /\ opt.ft = "ARR_F" => d.len = length
      BY <2>2, <3>3 DEF Width, Subtypes
    <3>5. /\ bound' = d.bound /\ room' = d.room /\ len' = d.len /\ opt' = d.opt /\ count' = cnt
      BY <3>1 DEF SetTarget
    <3>6. /\ array => cnt = IF d.bound THEN awc ELSE d.count
          /\ ~array => cnt = d.count
          /\ cnt \in Nat
      BY <1>2, <3>2 DEF BoundCount
    <3>7. d.bound /\ array => cnt <= d.count
      BY <1>2, <2>11, <3>2, <3>6 DEF TooMany
    <3>8. d.bound => length <= d.len /\ (d.opt.term => length + 1 <= d.len)
      BY <1>1, <2>11, <3>2, <3>3 DEF TooLong
    <3> DEFINE s == IF empty \/ length = 0 THEN "idle" ELSE payload
    <3>9. s \in States /\ s \in {"idle", "fixlen_val", "fixlen_raw"}
      BY <2>3 DEF States
    <3>10. chain' = [Parked(payload) EXCEPT ![Len(Parked(payload))].state = s]
      <4>1. Parked(payload)[Len(Parked(payload))].state = payload
        BY <2>4 DEF Top
      <4> QED
        BY <3>1, <3>2, <4>1
    <3> HIDE DEF s
    <3>11. Nesting' /\ Active'.state = s /\ Active'.skip = Active.skip
      <4>1. ChainOK(chain', depth) /\ Top(chain').state = s /\ Top(chain').skip = Active.skip
        BY <2>4, <3>9, <3>10, SetState
      <4>2. depth' = depth /\ depth \in 0..MaxDepth
        BY <3>1, ActiveType
      <4> QED
        BY <4>1, <4>2, NestingIsChain
    <3>12. s # "idle" => s = payload /\ length > 0 /\ rem' = length /\ (array => cnt > 0)
                         /\ (StrictUtf8 /\ d.bound => d.bound)
      BY <1>1, <3>1, <3>6 DEF s
    <3>13. Control'
      <4>1. invalid' \in BOOLEAN /\ why' \in Reasons /\ skipped' \in 0..SkipMax
        BY <2>7, <3>1, <3>2, CallbackType
      <4>2. Active'.state \notin {"array_count", "fixlen_len"}
        BY <3>9, <3>11
      <4> QED
        BY <1>1, <3>1, <4>1, <4>2, ConsumedControl
    <3>14. overrun' = FALSE
      <4>1. overrun = FALSE
        BY <1>1 DEF Target, NoOverrun
      <4>2. CASE ~d.bound
        BY <3>1, <4>1, <4>2
      <4>3. CASE d.bound
        <5> DEFINE t == Touched(d, length)
        <5>1. overrun' = (overrun \/ t > d.room)
          BY <3>1, <4>3 DEF Stored
        <5>2. t \in Nat
          BY <1>1, <3>2 DEF Touched
        <5>3. t <= d.room
          <6>1. CASE array
            <7>1. t = d.count * d.len /\ d.room = d.count * d.len
              BY <3>3, <4>3, <6>1 DEF Touched
            <7> HIDE DEF t
            <7> QED
              BY <3>2, <7>1
          <6>2. CASE ~array
            BY <1>1, <1>2, <3>2, <3>3, <3>8, <4>3, <6>2 DEF Touched
          <6> QED
            BY <6>1, <6>2
        <5> HIDE DEF t
        <5>4. ~(t > d.room)
          BY <3>2, <5>2, <5>3
        <5> QED
          BY <4>1, <5>1, <5>4
      <4> QED
        BY <4>2, <4>3
    <3>15. rem' \in Nat /\ utf8' \in BOOLEAN
      <4>1. rem \in Nat /\ utf8 \in BOOLEAN
        BY <1>1 DEF Target
      <4>2. StrictUtf8 \in BOOLEAN
        BY IStreamAssumption
      <4>3. rem' \in Nat
        BY <1>1, <3>1, <4>1
      <4>4. utf8' \in BOOLEAN
        BY <3>1, <4>1
      <4> QED
        BY <4>3, <4>4
    <3>16. PayloadPending'
      <4>1. ASSUME s = "fixlen_val", d.opt.ft = "ARR_F" PROVE cnt > 0 /\ d.len > 0
        <5>1. cnt > 0
          BY <3>12, <4>1
        <5>2. CASE d.bound
          BY <3>3, <5>1, <5>2
        <5>3. CASE ~d.bound
          <6>1. cnt = d.count
            BY <3>6, <4>1, <5>3
          <6>2. d.len = length
            BY <2>6, <2>8, <5>1, <5>3, <6>1 DEF Delivered
          <6> QED
            BY <3>12, <4>1, <5>1, <6>2
        <5> QED
          BY <3>2, <5>2, <5>3
      <4> QED
        BY <3>5, <3>9, <3>11, <3>12, <4>1 DEF PayloadPending
    <3>17. BoundFits'
      <4>1. CASE d.bound /\ s # "idle" /\ array
        <5>1. opt.ft = "ARR_F" /\ s = "fixlen_val" /\ opt'.ft = "ARR_F"
          BY <2>2, <2>3, <3>3, <3>5, <3>12, <4>1
        <5>2. d.room = d.count * d.len /\ d.len = length /\ rem' = length
          BY <3>3, <3>4, <3>12, <4>1, <5>1
        <5>3. cnt > 0 /\ cnt <= d.count
          BY <3>7, <3>12, <4>1
        <5>4. cnt * d.len <= d.count * d.len /\ (cnt - 1) * d.len + d.len = cnt * d.len
          BY <3>2, <3>6, <5>3, FewerElements
        <5>5. room' >= (count' - 1) * len' + rem'
          <6> DEFINE x == (cnt - 1) * d.len
                     y == cnt * d.len
                     z == d.count * d.len
          <6>1. x \in Int /\ y \in Int /\ z \in Int
            BY <3>2, <3>6
          <6>2. y <= z /\ x + d.len = y /\ room' = z /\ rem' = d.len
            BY <3>5, <5>2, <5>4
          <6>3. (count' - 1) * len' = x
            BY <3>5
          <6> HIDE DEF x, y, z
          <6>4. room' >= x + rem'
            BY <3>2, <6>1, <6>2
          <6> QED
            BY <6>3, <6>4
        <5> QED
          BY <2>8, <3>5, <3>11, <4>1, <5>1, <5>5 DEF BoundFits
      <4>2. CASE d.bound /\ s # "idle" /\ ~array
        <5>1. opt.ft = "FIX" /\ opt'.ft = "FIX" /\ room' = d.len /\ rem' = length
          BY <1>2, <3>3, <3>5, <3>12, <4>2
        <5>2. room' >= rem'
          BY <1>1, <3>2, <3>8, <4>2, <5>1
        <5> QED
          BY <2>8, <3>9, <3>11, <4>2, <5>1, <5>2 DEF BoundFits
      <4>3. CASE ~d.bound
        BY <3>5, <4>3 DEF BoundFits
      <4>4. CASE s = "idle"
        BY <2>8, <3>5, <3>11, <4>4 DEF BoundFits
      <4> QED
        BY <3>2, <4>1, <4>2, <4>3, <4>4
    <3>18. TextBound'
      <4>1. s = "fixlen_raw" /\ utf8' => d.bound
        <5>1. ASSUME s = "fixlen_raw" PROVE ~empty
          BY <5>1 DEF s
        <5> QED
          BY <3>1, <5>1
      <4> QED
        BY <3>5, <3>11, <4>1 DEF TextBound
    <3>19. Target'
      <4>1. FieldExpected'
        BY <3>9, <3>11 DEF FieldExpected
      <4>2. awc' \in 0..ArrayMax
        BY <1>1, <3>1 DEF Target
      <4> QED
        BY <3>1, <3>2, <3>5, <3>6, <3>14, <3>15, <3>16, <3>17, <3>18, <4>1, <4>2
        DEF Target, NoOverrun
    <3>20. Notes'
      <4>1. notified = 0 /\ Active.skip \in Nat
        BY <1>1, ActiveType DEF Notes, NotifiedOnce
      <4>2. notified' = IF Active.skip > 0 THEN 0 ELSE 1
        BY <3>1, <4>1 DEF CallbackEffects
      <4> QED
        BY <3>9, <3>11, <4>1, <4>2 DEF Notes, NotifiedOnce
    <3> QED
      BY <3>11, <3>13, <3>19, <3>20, Parts
  <2> QED
    BY <2>1, <2>9, <2>10, <2>11
<1> QED
  BY <1>3, <1>4

-----------------------------------------------------------------------------
(* The inductive invariant.                                                *)

LEMMA HeaderRefusedStep ==
    ASSUME Inductive, HeaderRefused
    PROVE  Inductive'
BY RejectStep DEF HeaderRefused, Reasons

LEMMA InitInductive == Init => Inductive
<1> SUFFICES ASSUME Init PROVE Inductive
  OBVIOUS
<1>0. 0 \in 0..MaxGroups - 1 /\ 0 \in 0..SkipMax /\ 0 \in 0..ArrayMax
  BY IStreamAssumption
<1>1. Control
  BY <1>0 DEF Init, Control, CondemnedStops, Reasons
<1>2. chain = <<Fresh>> /\ depth = 0 /\ Fresh \in Decoder /\ Fresh.skip = 0
  BY DEF Init, Fresh, Decoder
<1>3. chain \in Seq(Decoder) /\ chain # <<>> /\ Len(chain) = 1 /\ chain[1] = Fresh
  BY <1>2
<1>4. Active = Fresh
  BY <1>3 DEF Active
<1>5. Nesting
  BY <1>2, <1>3, <1>4, IStreamAssumption DEF Nesting, DepthAgrees
<1>6. Active.state = "idle" /\ Active.skip = 0
  BY <1>4 DEF Fresh
<1>7. Target
  <2>1. WireOpt("VU") \in Options
    BY DEF WireOpt, Options, WireTypes, ScalarTypes
  <2> QED
    BY <1>0, <1>6, <2>1
    DEF Init, Target, PayloadPending, FieldExpected, BoundFits, TextBound, NoOverrun
<1>8. Notes
  BY <1>6 DEF Init, Notes, NotifiedOnce
<1> QED
  BY <1>1, <1>5, <1>7, <1>8, Parts

LEMMA NextInductive == Inductive /\ [Next]_vars => Inductive'
<1> SUFFICES ASSUME Inductive, [Next]_vars PROVE Inductive'
  OBVIOUS
<1>1. CASE FeedBegin
  BY <1>1, FeedBeginStep
<1>2. CASE FeedEnd
  BY <1>2, FeedEndStep
<1>3. CASE VarintMore
  BY <1>3, VarintMoreStep
<1>4. CASE VarintTooWide
  BY <1>4, VarintTooWideStep
<1>5. CASE HeaderRefused
  BY <1>5, HeaderRefusedStep
<1>6. CASE \E type \in ScalarTypes : HeaderScalar(type)
  BY <1>6, HeaderScalarStep
<1>7. CASE \E type \in ArrayTypes \cup {"FIX"} : HeaderDeferred(type)
  BY <1>7, HeaderDeferredStep
<1>8. CASE HeaderStart
  BY <1>8, HeaderStartStep
<1>9. CASE HeaderEnd
  BY <1>9, HeaderEndStep
<1>10. CASE \E need \in Needs : ScalarValue(need)
  BY <1>10, ScalarValueStep
<1>11. CASE \E n \in Counts : ArrayCount(n)
  BY <1>11, ArrayCountStep
<1>12. CASE \E length \in Lengths, sub \in Subtypes \cup {"bad"} : FixlenWord(length, sub)
  BY <1>12, FixlenWordStep
<1>13. CASE FixlenValByte
  BY <1>13, FixlenValByteStep
<1>14. CASE \E bad \in BOOLEAN : FixlenRawByte(bad)
  BY <1>14, FixlenRawByteStep
<1>15. CASE UNCHANGED vars
  <2>1. Control'
    BY <1>15, Parts, SameNesting DEF vars, chainVars, Control, CondemnedStops
  <2>2. Nesting' /\ Target' /\ Notes'
    BY <1>15, SameField DEF vars, chainVars, field, target
  <2> QED
    BY <2>1, <2>2, Parts
<1> QED
  BY <1>1, <1>2, <1>3, <1>4, <1>5, <1>6, <1>7, <1>8, <1>9, <1>10, <1>11, <1>12,
     <1>13, <1>14, <1>15 DEF Next

\* The inductive invariant holds in every reachable state.
THEOREM InductiveHolds == Spec => []Inductive
<1> QED
  BY InitInductive, NextInductive, PTL DEF Spec

\* The decoder's state is well formed: the nesting depth never exceeds its
\* limit and the varint accumulator is never shifted past its width.
THEOREM TypeCorrect == Spec => []TypeOK
<1>1. Inductive => TypeOK
  BY DEF Inductive
<1> QED
  BY <1>1, InductiveHolds, PTL

\* ctx->depth is the number of decoders above the top one and of levels
\* skipped, whatever the callbacks bound, declined or contradicted.
THEOREM NestingKept == Spec => []DepthAgrees
<1>1. Inductive => DepthAgrees
  BY DEF Inductive
<1> QED
  BY <1>1, InductiveHolds, PTL

\* The decoder never stores past the end of a destination that a callback
\* bound through the public API, for any bytes and any chunks.
THEOREM StoresStayInside == Spec => []NoOverrun
<1>1. Inductive => NoOverrun
  BY DEF Inductive
<1> QED
  BY <1>1, InductiveHolds, PTL

\* A field is announced once, and never inside a skipped sequence.
THEOREM AnnouncedOnce == Spec => []NotifiedOnce
<1>1. Inductive => NotifiedOnce
  BY DEF Inductive
<1> QED
  BY <1>1, InductiveHolds, PTL

\* What is left of an accepted field fits what is left of its destination.
THEOREM AcceptedFieldsFit == Spec => []PayloadFits
<1>1. ASSUME Inductive PROVE PayloadFits
  <2>1. BoundFits /\ Target
    BY <1>1, Parts DEF Inductive
  <2>2. ASSUME bound, ~invalid, Active.state \in {"vu", "vs"}, opt.ft \in VarintArrays
        PROVE  room >= count * len
    BY <2>1, <2>2 DEF BoundFits
  <2>3. ASSUME bound, ~invalid, Active.state = "fixlen_val", opt.ft = "ARR_F"
        PROVE  room >= (count - 1) * len + rem /\ room >= rem
    <3> DEFINE x == (count - 1) * len
    <3>1. room >= x + rem
      BY <2>1, <2>3 DEF BoundFits
    <3>2. count - 1 \in Nat /\ len \in Nat /\ rem \in Nat /\ room \in Nat
      BY <1>1, <2>1, <2>3 DEF Target, PayloadPending
    <3>3. x \in Nat
      BY <3>2
    <3> HIDE DEF x
    <3>4. room >= rem
      BY <3>1, <3>2, <3>3
    <3> QED
      BY <3>1, <3>4 DEF x
  <2>4. ASSUME bound, ~invalid, Active.state \in {"fixlen_val", "fixlen_raw"},
               opt.ft # "ARR_F"
        PROVE  room >= rem
    BY <2>1, <2>4 DEF BoundFits
  <2>5. bound /\ ~invalid /\ Active.state = "fixlen_raw" => opt.ft # "ARR_F"
    BY <2>1 DEF BoundFits
  <2> QED
    BY <2>2, <2>3, <2>4, <2>5 DEF PayloadFits
<1> QED
  BY <1>1, InductiveHolds, PTL

-----------------------------------------------------------------------------
(* What a step may not do.                                                 *)

Final ==
    /\ invalid' /\ why' = why
    /\ UNCHANGED <<notified, skipped, depth>>
    /\ (ret = "invalid" => ret' = "invalid" /\ UNCHANGED field)

LEMMA RejectIsFinal ==
    ASSUME invalid, feeding, ret # "invalid", NEW reason, Reject(reason)
    PROVE  Final
BY DEF Reject, Final, chainVars

LEMMA CondemnedStep ==
    ASSUME Inductive, [Next]_vars, invalid
    PROVE  Final
<1>1. /\ ret = "invalid" => ~feeding
      /\ feeding => ret # "invalid" /\ Active.state \notin {"array_count", "fixlen_len"}
  BY DEF Inductive, CondemnedStops
<1>2. CASE FeedBegin
  BY <1>2 DEF FeedBegin, Final, chainVars
<1>3. CASE FeedEnd
  BY <1>1, <1>3 DEF FeedEnd, Final, chainVars
<1>4. CASE VarintMore \/ VarintTooWide \/ HeaderRefused
  <2>1. feeding
    BY <1>4 DEF VarintMore, VarintTooWide, HeaderRefused, InState
  <2>2. CASE Reject("varint") \/ Reject("id")
    BY <1>1, <2>1, <2>2, RejectIsFinal
  <2>3. CASE ~Reject("varint") /\ ~Reject("id")
    BY <1>1, <1>4, <2>1, <2>3
    DEF VarintMore, VarintTooWide, HeaderRefused, Consumed, Final, chainVars
  <2> QED
    BY <2>2, <2>3
<1>5. CASE \/ \E type \in ScalarTypes : HeaderScalar(type)
           \/ \E type \in ArrayTypes \cup {"FIX"} : HeaderDeferred(type)
           \/ HeaderStart
           \/ HeaderEnd
  BY <1>5 DEF HeaderScalar, HeaderDeferred, HeaderStart, HeaderEnd, HeaderSeen
<1>6. CASE \E need \in Needs : ScalarValue(need)
  <2> PICK need \in Needs : ScalarValue(need)
    BY <1>6
  <2>1. feeding /\ ret # "invalid"
    BY <1>1 DEF ScalarValue
  <2>2. CASE ArgumentError
    BY <2>1, <2>2 DEF ArgumentError, Final, chainVars
  <2>3. CASE Reject("range")
    BY <2>1, <2>3, RejectIsFinal
  <2>4. CASE ~ArgumentError /\ ~Reject("range")
    <3>1. UNCHANGED <<invalid, depth, skipped, notified, why>>
      BY <2>4 DEF ScalarValue
    <3> QED
      BY <2>1, <3>1 DEF Final
  <2> QED
    BY <2>2, <2>3, <2>4
<1>7. CASE \/ \E n \in Counts : ArrayCount(n)
           \/ \E length \in Lengths, sub \in Subtypes \cup {"bad"} : FixlenWord(length, sub)
  <2>1. ASSUME NEW n \in Counts, ArrayCount(n) PROVE FALSE
    BY <1>1, <2>1 DEF ArrayCount, InState
  <2>2. ASSUME NEW length \in Lengths, NEW sub \in Subtypes \cup {"bad"},
               FixlenWord(length, sub)
        PROVE  FALSE
    BY <1>1, <2>2 DEF FixlenWord, InState
  <2> QED
    BY <1>7, <2>1, <2>2
<1>8. CASE FixlenValByte
  <2>1. feeding /\ PayloadByte
    BY <1>8 DEF FixlenValByte, InState
  <2> QED
    BY <1>1, <2>1 DEF PayloadByte, Final
<1>9. CASE \E bad \in BOOLEAN : FixlenRawByte(bad)
  <2> PICK bad \in BOOLEAN : FixlenRawByte(bad)
    BY <1>9
  <2>1. feeding /\ (Reject("text") \/ PayloadByte)
    BY DEF FixlenRawByte, InState
  <2>2. CASE Reject("text")
    BY <1>1, <2>1, <2>2, RejectIsFinal
  <2>3. CASE PayloadByte
    BY <1>1, <2>1, <2>3 DEF PayloadByte, Final
  <2> QED
    BY <2>1, <2>2, <2>3
<1>10. CASE UNCHANGED vars
  BY <1>10 DEF vars, field, target, chainVars, Final
<1> QED
  BY <1>2, <1>3, <1>4, <1>5, <1>6, <1>7, <1>8, <1>9, <1>10 DEF Next

\* A condemned message stays condemned: no later byte reaches a callback or
\* opens or closes a sequence, and every later feed reports INVALID.
THEOREM CondemnedStaysSo == Spec => CondemnedIsFinal
<1>1. Inductive /\ [Next]_vars => [invalid => Final]_vars
  BY CondemnedStep
<1> QED
  BY <1>1, InductiveHolds, PTL DEF Spec, CondemnedIsFinal, Final

LEMMA NamedReject ==
    ASSUME NEW reason, Reject(reason), why = "none"
    PROVE  why' \in {"none", reason}
BY DEF Reject

LEMMA NamedRejectRead ==
    ASSUME NEW reason, NEW d, RejectRead(reason, d), why = "none"
    PROVE  why' \in {"none", reason} /\ bound' = d.bound
BY DEF RejectRead

ReaderRefusal ==
    (why = "none" /\ why' \in ReceiverReasons) =>
       /\ Active.skip = 0
       /\ why' = "callback" \/ bound'

\* A callback's verdict is its own, never one of the decoder's, and a skipped
\* field has none.
LEMMA CallbackVerdict ==
    ASSUME Inductive, NEW c \in Answers, NEW d, NEW before,
           CallbackEffects(d, c.condemn, before), why = "none"
    PROVE  ReaderRefusal
<1>1. why' \in {"none", "callback"} /\ (why' = "callback" => c.condemn)
  BY DEF CallbackEffects
<1>2. c.condemn => Active.skip = 0
  <2>1. (Active.skip > 0 => c.condemn = FALSE) /\ Active.skip \in Nat
    BY AnswerType, ActiveType
  <2> QED
    BY <2>1
<1> QED
  BY <1>1, <1>2 DEF ReaderRefusal, ReceiverReasons

LEMMA ArrayCountRefusal ==
    ASSUME Inductive, NEW n \in Counts, ArrayCount(n)
    PROVE  ReaderRefusal
<1> SUFFICES ASSUME why = "none" PROVE ReaderRefusal
  BY DEF ReaderRefusal
<1>1. /\ feeding /\ Active.state = "array_count" /\ n \in Nat
      /\ Target /\ Nesting
  BY IStreamAssumption, Parts DEF ArrayCount, InState
<1>2. CASE n > ArrayMax
  BY <1>2, NamedReject DEF ArrayCount, ReaderRefusal, ReceiverReasons
<1>3. CASE ~(n > ArrayMax) /\ opt.ft = "ARR_F"
  BY <1>3 DEF ArrayCount, NoCallback, ReaderRefusal, ReceiverReasons
<1>4. CASE ~(n > ArrayMax) /\ opt.ft # "ARR_F"
  <2> DEFINE f == [chain |-> chain, len |-> len, count |-> n, opt |-> opt]
  <2>1. PICK c \in Answers :
           LET d == Deliver(f, c.read, n > 0)
           IN  IF TooMany(d, n)
               THEN RejectRead(IF c.condemn THEN "callback" ELSE "capacity", d)
               ELSE CallbackEffects(d, c.condemn, notified)
    BY <1>4 DEF ArrayCount
  <2> DEFINE d == Deliver(f, c.read, n > 0)
  <2>2. f \in Fields /\ f.chain # <<>>
    BY <1>1 DEF Fields, Nesting, Target
  <2>3. (n > 0) \in BOOLEAN
    OBVIOUS
  <2>4. d.bound => Active.skip = 0
    BY <2>2, <2>3, AnswerDelivers
  <2> HIDE DEF d, f
  <2>5. CASE TooMany(d, n)
    <3>1. d.bound
      BY <2>5 DEF TooMany
    <3>2. RejectRead("callback", d) \/ RejectRead("capacity", d)
      BY <2>1, <2>5 DEF d, f
    <3> QED
      BY <2>4, <3>1, <3>2, NamedRejectRead DEF ReaderRefusal, ReceiverReasons
  <2>6. CASE ~TooMany(d, n)
    <3>1. CallbackEffects(d, c.condemn, notified)
      BY <2>1, <2>6 DEF d, f
    <3> QED
      BY <3>1, CallbackVerdict
  <2> QED
    BY <2>5, <2>6
<1> QED
  BY <1>2, <1>3, <1>4

LEMMA FixlenWordRefusal ==
    ASSUME Inductive, NEW length \in Lengths, NEW sub \in Subtypes \cup {"bad"},
           FixlenWord(length, sub)
    PROVE  ReaderRefusal
<1> SUFFICES ASSUME why = "none" PROVE ReaderRefusal
  BY DEF ReaderRefusal
<1>1. /\ feeding /\ Active.state = "fixlen_len" /\ length \in Nat
      /\ Target /\ Nesting
  BY IStreamAssumption, Parts DEF FixlenWord, InState
<1>2. CASE WordMalformed(length, sub)
  BY <1>2, NamedReject DEF FixlenWord, ReaderRefusal, ReceiverReasons
<1>3. CASE ~WordMalformed(length, sub)
  <2> DEFINE payload == IF sub \in {"string", "blob"} THEN "fixlen_raw" ELSE "fixlen_val"
             f == [chain |-> Parked(payload), len |-> length, count |-> count,
                   opt |-> [opt EXCEPT !.sub = sub]]
  <2>1. PICK c \in Answers :
           LET d == Deliver(f, c.read, TRUE)
           IN  IF d.opt.ft = "ARR_F" /\ TooMany(d, awc)
               THEN RejectRead(IF c.condemn THEN "callback" ELSE "capacity", d)
               ELSE IF TooLong(d, length)
               THEN RejectRead(IF c.condemn THEN "callback" ELSE "length", d)
               ELSE CallbackEffects(d, c.condemn, notified)
    BY <1>3 DEF FixlenWord
  <2> DEFINE d == Deliver(f, c.read, TRUE)
  <2>2. f \in Fields /\ f.chain # <<>>
    <3>1. payload \in States /\ ChainOK(chain, depth)
      BY ActiveType DEF States
    <3>2. Parked(payload) \in Seq(Decoder) /\ Parked(payload) # <<>>
      BY <3>1, SetState DEF Parked, ChainOK
    <3>3. sub \in Subtypes /\ opt \in Options
      BY <1>1, <1>3 DEF WordMalformed, Target
    <3>4. [opt EXCEPT !.sub = sub] \in Options
      BY <3>3 DEF Options
    <3> QED
      BY <1>1, <3>2, <3>4 DEF Fields, Target
  <2>4. d.bound => Active.skip = 0
    BY <2>2, AnswerDelivers
  <2> HIDE DEF d, f
  <2>5. CASE d.opt.ft = "ARR_F" /\ TooMany(d, awc)
    <3>1. d.bound
      BY <2>5 DEF TooMany
    <3>2. RejectRead("callback", d) \/ RejectRead("capacity", d)
      BY <2>1, <2>5 DEF d, f
    <3> QED
      BY <2>4, <3>1, <3>2, NamedRejectRead DEF ReaderRefusal, ReceiverReasons
  <2>6. CASE ~(d.opt.ft = "ARR_F" /\ TooMany(d, awc)) /\ TooLong(d, length)
    <3>1. d.bound
      BY <2>6 DEF TooLong
    <3>2. RejectRead("callback", d) \/ RejectRead("length", d)
      BY <2>1, <2>6 DEF d, f
    <3> QED
      BY <2>4, <3>1, <3>2, NamedRejectRead DEF ReaderRefusal, ReceiverReasons
  <2>7. CASE ~(d.opt.ft = "ARR_F" /\ TooMany(d, awc)) /\ ~TooLong(d, length)
    <3>1. CallbackEffects(d, c.condemn, notified)
      BY <2>1, <2>7 DEF d, f
    <3> QED
      BY <3>1, CallbackVerdict
  <2> QED
    BY <2>5, <2>6, <2>7
<1> QED
  BY <1>2, <1>3

LEMMA RefusalStep ==
    ASSUME Inductive, [Next]_vars
    PROVE  ReaderRefusal
<1> SUFFICES ASSUME why = "none" PROVE ReaderRefusal
  BY DEF ReaderRefusal
<1>1. CASE UNCHANGED why
  BY <1>1 DEF ReaderRefusal, ReceiverReasons
<1>2. ASSUME NEW reason \in {"varint", "id", "depth", "end"}, Reject(reason)
      PROVE  ReaderRefusal
  BY <1>2, NamedReject DEF ReaderRefusal, ReceiverReasons
<1>3. CASE VarintMore \/ VarintTooWide \/ HeaderRefused
  <2>1. Reject("varint") \/ Reject("id") \/ UNCHANGED why
    BY <1>3 DEF VarintMore, VarintTooWide, HeaderRefused
  <2> QED
    BY <1>1, <1>2, <2>1
<1>4. CASE HeaderStart
  <2>1. ASSUME ~Reject("depth")
        PROVE  \E c \in Answers : \E d : CallbackEffects(d, c.condemn, 0)
    BY <1>4, <2>1 DEF HeaderStart
  <2>2. CASE ~Reject("depth")
    BY <2>1, <2>2, CallbackVerdict
  <2> QED
    BY <1>2, <2>2
<1>5. CASE HeaderEnd
  <2>1. Reject("end") \/ UNCHANGED why
    BY <1>5 DEF HeaderEnd, NoCallback
  <2> QED
    BY <1>1, <1>2, <2>1
<1>6. CASE \E type \in ScalarTypes : HeaderScalar(type)
  <2>1. \E c \in Answers : \E d : CallbackEffects(d, c.condemn, 0)
    BY <1>6 DEF HeaderScalar
  <2> QED
    BY <2>1, CallbackVerdict
<1>7. CASE \E need \in Needs : ScalarValue(need)
  <2>1. UNCHANGED why \/ (Reject("range") /\ bound /\ feeding)
    BY <1>7 DEF ScalarValue, ArgumentError
  <2>2. BoundFits
    BY DEF Inductive
  <2>3. CASE Reject("range") /\ bound /\ feeding
    <3>1. bound' = bound
      BY <2>3 DEF Reject, field, target
    <3>2. Active.skip = 0
      BY <2>2, <2>3 DEF BoundFits
    <3> QED
      BY <2>3, <3>1, <3>2 DEF ReaderRefusal
  <2> QED
    BY <1>1, <2>1, <2>3, NamedReject DEF ReaderRefusal, ReceiverReasons
<1>8. CASE \E bad \in BOOLEAN : FixlenRawByte(bad)
  <2>1. UNCHANGED why \/ (Reject("text") /\ feeding /\ Active.state = "fixlen_raw" /\ utf8)
    BY <1>8 DEF FixlenRawByte, PayloadByte, InState
  <2>2. TextBound /\ BoundFits
    BY DEF Inductive
  <2>3. CASE Reject("text") /\ feeding /\ Active.state = "fixlen_raw" /\ utf8
    <3>1. bound /\ bound' = bound
      BY <2>2, <2>3 DEF Reject, field, target, TextBound
    <3>2. Active.skip = 0
      BY <2>2, <2>3, <3>1 DEF BoundFits
    <3> QED
      BY <3>1, <3>2 DEF ReaderRefusal
  <2> QED
    BY <1>1, <2>1, <2>3
<1>9. CASE \/ FeedBegin \/ FeedEnd \/ FixlenValByte
           \/ \E type \in ArrayTypes \cup {"FIX"} : HeaderDeferred(type)
           \/ UNCHANGED vars
  <2>1. UNCHANGED why
    BY <1>9 DEF FeedBegin, FeedEnd, FixlenValByte, PayloadByte, HeaderDeferred,
                NoCallback, vars
  <2> QED
    BY <1>1, <2>1
<1> QED
  BY <1>3, <1>4, <1>5, <1>6, <1>7, <1>8, <1>9, ArrayCountRefusal, FixlenWordRefusal
  DEF Next

\* A receiver's rejection hits only what the receiver had asked for: a decoder
\* that declines every field accepts every well-formed message.
THEOREM RefusalsAreAskedFor == Spec => RefusalNeedsReader
<1>1. Inductive /\ [Next]_vars => [ReaderRefusal]_vars
  BY RefusalStep
<1> QED
  BY <1>1, InductiveHolds, PTL DEF Spec, RefusalNeedsReader, ReaderRefusal

-----------------------------------------------------------------------------
(***************************************************************************)
(* The decoder implements the parser of WireParser: no callback that reads *)
(* through the public API moves the position in the message, binds a       *)
(* verdict of "malformed" to well-formed bytes, or lets malformed bytes    *)
(* pass.  The one read for which that fails is left out by hypothesis: an  *)
(* array of zero elements read into NULL.                                  *)
(***************************************************************************)

(* What a callback leaves of the field it was called for.                  *)

\* Whatever the callback read, the type on the wire stays; the subtype stays
\* if it was compared; only an array that is bound has another count.
Framed(d, f, withSub) ==
    /\ d.opt.ft = f.opt.ft
    /\ (withSub \/ f.opt.ft \notin {"FIX", "ARR_F"}) => d.opt.sub = f.opt.sub
    /\ d.count = f.count \/ (d.bound /\ f.opt.ft \in ArrayTypes)
    /\ d.bound \/ d.len = f.len

LEMMA DeliverFraming ==
    ASSUME NoNullReads,
           NEW f \in Fields, NEW r \in Reads \cup {Decline}, NEW withSub \in BOOLEAN,
           f.chain # <<>>,
           f.opt.ft \notin {"FIX", "ARR_F"} => f.opt.sub = "none"
    PROVE  Framed(Deliver(f, r, withSub), f, withSub)
<1> DEFINE a == AfterRead(f, r)
           d == Deliver(f, r, withSub)
<1> SUFFICES Framed(d, f, withSub)
  OBVIOUS
<1>1. r \in ReadCalls /\ GoodRead(r) /\ r.null = FALSE
  BY IStreamAssumption, DeclineRead DEF NoNullReads, Decline, ReadCalls
<1>2. r.call \in {"none", "field", "array", "sequence"}
  BY <1>1 DEF ReadCalls
<1>3. /\ r.call = "field" => r.opt.ft \in ScalarTypes \cup {"FIX"}
      /\ r.call = "array" => r.opt.ft \in ArrayTypes
      /\ r.call = "sequence" => r.opt.ft = "START"
      /\ r.opt.ft \notin {"FIX", "ARR_F"} => r.opt.sub = "none"
  BY <1>1 DEF GoodRead
<1>4. d = IF a.bound /\ Contradicts(a.opt, f.opt, withSub) THEN RollBack(f, a) ELSE a
  BY DEF Deliver
<1>5. /\ r.call = "none" =>
            /\ a.bound = FALSE
            /\ a.chain = f.chain /\ a.len = f.len /\ a.count = f.count /\ a.opt = f.opt
      /\ r.call = "field" =>
            /\ a.bound = TRUE /\ a.chain = f.chain /\ a.count = f.count /\ a.opt = r.opt
      /\ r.call = "array" =>
            /\ a.bound = TRUE /\ a.chain = f.chain /\ a.opt = r.opt
      /\ r.call = "sequence" =>
            /\ a.bound = TRUE /\ a.chain = Append(f.chain, Fresh)
            /\ a.count = f.count /\ a.opt = r.opt
  BY <1>1, AfterReadFields
<1> HIDE DEF a, d
<1>6. CASE a.bound /\ Contradicts(a.opt, f.opt, withSub)
  <2>1. a.chain = IF a.opt.ft = "START" THEN Append(f.chain, Fresh) ELSE f.chain
    BY <1>2, <1>3, <1>5, <1>6 DEF ScalarTypes, ArrayTypes, VarintArrays
  <2>2. d = RollBack(f, a)
    BY <1>4, <1>6
  <2>3. d.len = f.len /\ d.count = f.count /\ d.opt = f.opt
    BY <2>1, <2>2, RollBackFields
  <2> QED
    BY <2>3 DEF Framed
<1>7. CASE ~(a.bound /\ Contradicts(a.opt, f.opt, withSub))
  <2>1. d = a
    BY <1>4, <1>7
  <2>2. CASE r.call = "none"
    BY <1>5, <2>1, <2>2 DEF Framed
  <2>3. CASE r.call # "none"
    <3>1. a.bound = TRUE /\ a.opt = r.opt
      BY <1>2, <1>5, <2>3
    <3>2. r.opt.ft = f.opt.ft /\ (withSub => r.opt.sub = f.opt.sub)
      BY <1>7, <3>1 DEF Contradicts
    <3>3. (withSub \/ f.opt.ft \notin {"FIX", "ARR_F"}) => r.opt.sub = f.opt.sub
      BY <1>3, <3>2
    <3>4. a.count = f.count \/ f.opt.ft \in ArrayTypes
      BY <1>2, <1>3, <1>5, <2>3, <3>2
    <3> QED
      BY <2>1, <3>1, <3>2, <3>3, <3>4 DEF Framed
  <2> QED
    BY <2>2, <2>3
<1> QED
  BY <1>6, <1>7

\* The same for whatever answer the callback of the active decoder gives.
LEMMA AnswerFrames ==
    ASSUME NoNullReads, Inductive,
           NEW c \in Answers, NEW f \in Fields, NEW withSub \in BOOLEAN, f.chain # <<>>,
           f.opt.ft \notin {"FIX", "ARR_F"} => f.opt.sub = "none"
    PROVE  LET d == Deliver(f, c.read, withSub)
           IN  Framed(d, f, withSub) /\ Delivered(d, f, withSub)
<1>1. c.read \in Reads \cup {Decline}
  BY AnswerType
<1> QED
  BY <1>1, DeliverFraming, DeliverType

-----------------------------------------------------------------------------
(* Verdicts.                                                               *)

LEMMA VerdictType ==
    ASSUME Inductive, FramingKnown
    PROVE  /\ invalid \in BOOLEAN /\ why \in Reasons /\ feeding \in BOOLEAN
           /\ Verdict = "fine" <=> ~invalid
           /\ ~invalid => why = "none"
           /\ invalid => why # "none"
<1>1. invalid \in BOOLEAN /\ why \in Reasons /\ feeding \in BOOLEAN
  BY Parts DEF Control
<1>2. invalid <=> why # "none"
  BY DEF FramingKnown
<1> QED
  BY <1>1, <1>2 DEF Verdict, Reasons, ReceiverReasons

\* A rejected byte condemns the message, for the reason given unless it has
\* been condemned before.
LEMMA RejectCondemns ==
    ASSUME Inductive, FramingKnown, feeding, NEW reason \in Reasons, reason # "none",
           Reject(reason) \/ \E d : RejectRead(reason, d)
    PROVE  /\ FramingKnown'
           /\ reason \in ReceiverReasons => Wire!Refuse
           /\ reason \notin ReceiverReasons => Wire!Condemn(reason)
<1>1. /\ feeding' = FALSE /\ ret' = "invalid" /\ invalid' = TRUE
      /\ why' = (IF invalid THEN why ELSE reason)
      /\ UNCHANGED <<chain, depth, vshift, count, opt, rem, len, awc>>
  BY DEF Reject, RejectRead, chainVars, field, target
<1>2. Active' = Active
  BY <1>1 DEF Active
<1>3. /\ Verdict = "fine" <=> ~invalid
      /\ invalid => why # "none"
      /\ invalid \in BOOLEAN
  BY VerdictType
<1>4. Verdict' = IF Verdict = "fine"
                 THEN IF reason \in ReceiverReasons THEN "refused" ELSE reason
                 ELSE Verdict
  BY <1>1, <1>3 DEF Verdict, ReceiverReasons
<1>5. FramingKnown'
  <2>1. FieldFramed(Active.state) /\ FieldFramed(Active.state)' <=> FieldFramed(Active.state)
    BY <1>1, <1>2 DEF FramingKnown, FieldFramed
  <2>2. invalid' /\ why' # "none"
    BY <1>1, <1>3
  <2> QED
    BY <2>1, <2>2 DEF FramingKnown
<1>6. UNCHANGED <<Active.state, opt.ft, opt.sub, depth, count, rem, vshift>>
  BY <1>1, <1>2
<1> QED
  BY <1>1, <1>4, <1>5, <1>6 DEF Wire!Refuse, Wire!Condemn, Wire!position

\* The callback of a byte that is taken may condemn the message.
LEMMA CallbackTaken ==
    ASSUME Inductive, FramingKnown, feeding, Consumed,
           NEW d, NEW condemn \in BOOLEAN, NEW before, CallbackEffects(d, condemn, before)
    PROVE  Wire!Taken /\ (invalid' <=> why' # "none")
<1>1. /\ invalid' = (invalid \/ condemn)
      /\ why' = (IF condemn /\ ~invalid THEN "callback" ELSE why)
  BY DEF CallbackEffects
<1>2. /\ invalid \in BOOLEAN /\ (Verdict = "fine" <=> ~invalid)
      /\ ~invalid => why = "none"
      /\ invalid => why # "none"
  BY VerdictType
<1>3. Verdict' \in {Verdict, IF Verdict = "fine" THEN "refused" ELSE Verdict}
  BY <1>1, <1>2 DEF Verdict, ReceiverReasons
<1>4. feeding' = feeding /\ ret' = ret
  BY DEF Consumed
<1>5. Wire!Taken
  BY <1>3, <1>4 DEF Wire!Taken
<1> QED
  BY <1>1, <1>2, <1>5

LEMMA QuietlyTaken ==
    ASSUME Inductive, FramingKnown, feeding, Consumed, UNCHANGED <<invalid, why>>
    PROVE  Wire!Taken /\ (invalid' <=> why' # "none")
<1>1. Verdict' = Verdict /\ (invalid' <=> why' # "none")
  BY DEF Verdict, FramingKnown
<1>2. feeding' = feeding /\ ret' = ret
  BY DEF Consumed
<1> QED
  BY <1>1, <1>2 DEF Wire!Taken


-----------------------------------------------------------------------------
(* Chunks and varints.                                                     *)

LEMMA SameFraming ==
    ASSUME FramingKnown, UNCHANGED <<chain, count, opt, len, awc, invalid, why>>
    PROVE  FramingKnown'
<1>1. Active' = Active
  BY DEF Active
<1> QED
  BY <1>1 DEF FramingKnown, FieldFramed

LEMMA BoundaryIsBoundary ==
    ASSUME Inductive
    PROVE  AtMessageBoundary <=> Wire!Boundary
<1> DEFINE l == Len(chain)
           k == Active.skip
<1>1. l \in Nat \ {0} /\ k \in Nat /\ depth = (l - 1) + k
  BY ActiveType DEF ChainOK
<1> HIDE DEF l, k
<1>2. depth = 0 <=> l = 1 /\ k = 0
  BY <1>1
<1> QED
  BY <1>2 DEF AtMessageBoundary, Wire!Boundary, l, k

LEMMA FeedBeginWire ==
    ASSUME Inductive, FramingKnown, FeedBegin
    PROVE  FramingKnown' /\ Wire!Next
<1>1. /\ ~feeding /\ feeding' = ~invalid /\ ret' = IF invalid THEN "invalid" ELSE ret
      /\ UNCHANGED <<chain, depth, vshift, count, opt, rem, len, awc, invalid, why>>
  BY DEF FeedBegin, chainVars, field, target
<1>2. UNCHANGED <<Active.state, opt.ft, opt.sub, depth, count, rem, vshift, Verdict>>
  BY <1>1 DEF Active, Verdict
<1>3. invalid \in BOOLEAN /\ (Verdict = "fine" <=> ~invalid)
  BY VerdictType
<1>4. feeding' = (Verdict = "fine") /\ ret' = IF Verdict = "fine" THEN ret ELSE "invalid"
  BY <1>1, <1>3
<1>5. Wire!Begin
  BY <1>1, <1>2, <1>4 DEF Wire!Begin, Wire!position
<1> QED
  BY <1>1, <1>5, SameFraming DEF Wire!Next

LEMMA FeedEndWire ==
    ASSUME Inductive, FramingKnown, FeedEnd
    PROVE  FramingKnown' /\ Wire!Next
<1>1. /\ feeding /\ feeding' = FALSE
      /\ ret' = IF invalid THEN "invalid" ELSE IF AtMessageBoundary THEN "ok" ELSE "incomplete"
      /\ UNCHANGED <<chain, depth, vshift, count, opt, rem, len, awc, invalid, why>>
  BY DEF FeedEnd, chainVars, field, target
<1>2. UNCHANGED <<Active.state, opt.ft, opt.sub, depth, count, rem, vshift, Verdict>>
  BY <1>1 DEF Active, Verdict
<1>3. invalid \in BOOLEAN /\ (Verdict = "fine" <=> ~invalid)
  BY VerdictType
<1>4. ret' = IF Verdict # "fine" THEN "invalid"
             ELSE IF Wire!Boundary THEN "ok" ELSE "incomplete"
  BY <1>1, <1>3, BoundaryIsBoundary
<1>5. Wire!End
  BY <1>1, <1>2, <1>4 DEF Wire!End, Wire!position
<1> QED
  BY <1>1, <1>5, SameFraming DEF Wire!Next

LEMMA VarintMoreWire ==
    ASSUME Inductive, FramingKnown, VarintMore
    PROVE  FramingKnown' /\ Wire!Next
<1>0. feeding /\ Active.state \in {"idle", "vu", "vs", "fixlen_len", "array_count"}
  BY DEF VarintMore, VarintStates
<1>1. CASE vshift + 1 >= MaxGroups
  <2>1. FramingKnown' /\ Wire!Condemn("varint")
    BY <1>0, <1>1, RejectCondemns DEF VarintMore, Reasons, ReceiverReasons
  <2> QED
    BY <1>0, <1>1, <2>1 DEF Wire!Next, Wire!Malformed, Wire!InVarint
<1>2. CASE ~(vshift + 1 >= MaxGroups)
  <2>1. /\ vshift' = vshift + 1 /\ Consumed
        /\ UNCHANGED <<chain, depth, count, opt, rem, len, awc, invalid, why>>
    BY <1>2 DEF VarintMore, chainVars, field, target
  <2>2. Active' = Active /\ FramingKnown'
    BY <2>1, SameFraming DEF Active
  <2>3. Wire!Taken
    BY <1>0, <2>1, QuietlyTaken
  <2>4. vshift + 1 < MaxGroups
    BY <1>2, IStreamAssumption, Parts DEF Control
  <2>5. Wire!More
    BY <1>0, <2>1, <2>2, <2>3, <2>4 DEF Wire!More, Wire!InVarint
  <2> QED
    BY <2>2, <2>5 DEF Wire!Next
<1> QED
  BY <1>1, <1>2

LEMMA VarintTooWideWire ==
    ASSUME Inductive, FramingKnown, VarintTooWide
    PROVE  FramingKnown' /\ Wire!Next
<1>1. /\ feeding /\ Active.state \in {"idle", "vu", "vs", "fixlen_len", "array_count"}
      /\ vshift + 1 = MaxGroups
  BY DEF VarintTooWide, VarintStates
<1>2. vshift + 1 >= MaxGroups
  BY <1>1, IStreamAssumption
<1>3. FramingKnown' /\ Wire!Condemn("varint")
  BY <1>1, RejectCondemns DEF VarintTooWide, Reasons, ReceiverReasons
<1> QED
  BY <1>1, <1>2, <1>3 DEF Wire!Next, Wire!Malformed, Wire!InVarint

-----------------------------------------------------------------------------
(* Headers.                                                                *)

LEMMA HeaderRefusedWire ==
    ASSUME Inductive, FramingKnown, HeaderRefused
    PROVE  FramingKnown' /\ Wire!Next
<1>1. feeding /\ Active.state = "idle"
  BY DEF HeaderRefused, InState
<1>2. FramingKnown' /\ Wire!Condemn("id")
  BY <1>1, RejectCondemns DEF HeaderRefused, Reasons, ReceiverReasons
<1> QED
  BY <1>1, <1>2 DEF Wire!Next, Wire!Malformed

LEMMA WireOptType ==
    ASSUME NEW type
    PROVE  WireOpt(type).ft = type /\ WireOpt(type).sub = "none"
BY DEF WireOpt

LEMMA HeaderScalarWire ==
    ASSUME NoNullReads, Inductive, FramingKnown, NEW type \in ScalarTypes, HeaderScalar(type)
    PROVE  FramingKnown' /\ Wire!Next
<1> DEFINE s == IF type = "VU" THEN "vu" ELSE "vs"
           f == Header(type, Parked(s))
<1>0. s \in States /\ type \in WireTypes /\ type \in {"VU", "VS"} /\ s \in {"vu", "vs"}
      /\ (type = "VU" => s = "vu") /\ (type = "VS" => s = "vs")
  BY DEF States, WireTypes, ScalarTypes
<1>1. PICK c \in Answers :
         /\ chain' = Deliver(f, c.read, TRUE).chain
         /\ SetTarget(Deliver(f, c.read, TRUE), Deliver(f, c.read, TRUE).count)
         /\ CallbackEffects(Deliver(f, c.read, TRUE), c.condemn, 0)
  BY DEF HeaderScalar
<1> DEFINE d == Deliver(f, c.read, TRUE)
<1>2. Parked(s) \in Seq(Decoder) /\ Parked(s) # <<>>
  BY <1>0, ParkedType
<1>3. f \in Fields /\ f.chain = Parked(s) /\ f.opt.ft = type /\ f.opt.sub = "none" /\ f.count = 0
  BY <1>0, <1>2, HeaderFields, WireOptType
<1>4. /\ feeding /\ vshift' = 0 /\ Consumed /\ Active.state = "idle"
      /\ UNCHANGED <<depth, rem>>
  BY DEF HeaderScalar, HeaderSeen, InState
<1> HIDE DEF s, f
<1>5. Framed(d, f, TRUE) /\ Delivered(d, f, TRUE)
  BY <1>0, <1>2, <1>3, AnswerFrames
<1>6. c.condemn \in BOOLEAN
  BY AnswerType
<1> HIDE DEF d
<1>7. chain' = d.chain /\ SetTarget(d, d.count) /\ CallbackEffects(d, c.condemn, 0)
  BY <1>1 DEF d
<1>8. chain' = Parked(s)
  BY <1>0, <1>3, <1>5, <1>7 DEF Delivered
<1>9. Active'.state = s
  BY <1>0, <1>4, <1>8, ParkedNesting
<1>10. opt'.ft = type /\ opt'.sub = "none" /\ count' = 0
  BY <1>0, <1>3, <1>5, <1>7 DEF Framed, SetTarget, ArrayTypes, VarintArrays
<1>11. Wire!Taken /\ (invalid' <=> why' # "none")
  BY <1>4, <1>6, <1>7, CallbackTaken
<1>12. FramingKnown'
  BY <1>0, <1>9, <1>10, <1>11 DEF FramingKnown, FieldFramed, VarintArrays
<1>13. Wire!Header(type)
  BY <1>0, <1>4, <1>9, <1>10, <1>11 DEF Wire!Header, Wire!StateAfterHeader
<1> QED
  BY <1>0, <1>12, <1>13 DEF Wire!Next

LEMMA HeaderDeferredWire ==
    ASSUME Inductive, FramingKnown, NEW type \in ArrayTypes \cup {"FIX"}, HeaderDeferred(type)
    PROVE  FramingKnown' /\ Wire!Next
<1> DEFINE s == IF type = "FIX" THEN "fixlen_len" ELSE "array_count"
           f == Header(type, chain)
<1>1. /\ s \in States /\ type \in WireTypes /\ type \in {"FIX", "ARR_U", "ARR_S", "ARR_F"}
      /\ (type = "FIX" => s = "fixlen_len") /\ (type # "FIX" => s = "array_count")
  BY DEF States, WireTypes, ArrayTypes, VarintArrays
<1>2. /\ feeding /\ vshift' = 0 /\ Consumed /\ chain' = Parked(s) /\ Active.state = "idle"
      /\ UNCHANGED <<depth, awc, rem, invalid, why>>
      /\ SetTarget(Unbound(f), 0)
  BY DEF HeaderDeferred, HeaderSeen, InState, NoCallback
<1> HIDE DEF s
<1>3. Active'.state = s
  BY <1>1, <1>2, ParkedNesting
<1>4. f \in Fields /\ f.opt.ft = type /\ f.opt.sub = "none"
  BY <1>1, HeaderFields, WireOptType, Parts DEF Nesting
<1> HIDE DEF f
<1>5. opt'.ft = type /\ opt'.sub = "none" /\ count' = 0
  BY <1>2, <1>4, UnboundFields DEF SetTarget
<1>6. Wire!Taken /\ (invalid' <=> why' # "none")
  BY <1>2, QuietlyTaken
<1>7. FramingKnown'
  BY <1>1, <1>3, <1>5, <1>6 DEF FramingKnown, FieldFramed
<1>8. Wire!Header(type)
  BY <1>1, <1>2, <1>3, <1>5, <1>6 DEF Wire!Header, Wire!StateAfterHeader
<1> QED
  BY <1>1, <1>7, <1>8 DEF Wire!Next


\* A sequence opens: in a decoder of its own, or as one more level to skip.
LEMMA HeaderStartWire ==
    ASSUME NoNullReads, Inductive, Inductive', FramingKnown, HeaderStart
    PROVE  FramingKnown' /\ Wire!Next
<1>1. feeding /\ Active.state = "idle" /\ depth \in 0..MaxDepth /\ MaxDepth \in Nat
  BY ActiveType, IStreamAssumption DEF HeaderStart, HeaderSeen, InState
<1>2. CASE depth = MaxDepth /\ Reject("depth")
  <2>1. FramingKnown' /\ Wire!Condemn("depth")
    BY <1>1, <1>2, RejectCondemns DEF Reasons, ReceiverReasons
  <2> QED
    BY <1>1, <1>2, <2>1 DEF Wire!Next, Wire!Malformed
<1>3. CASE ~(depth = MaxDepth /\ Reject("depth"))
  <2> DEFINE f == Header("START", chain)
  <2>1. PICK c \in Answers :
           /\ chain' = IF Deliver(f, c.read, TRUE).bound
                       THEN Deliver(f, c.read, TRUE).chain
                       ELSE [Deliver(f, c.read, TRUE).chain EXCEPT
                                ![Len(Deliver(f, c.read, TRUE).chain)].skip = @ + 1]
           /\ SetTarget(Deliver(f, c.read, TRUE), Deliver(f, c.read, TRUE).count)
           /\ CallbackEffects(Deliver(f, c.read, TRUE), c.condemn, 0)
    BY <1>3 DEF HeaderStart
  <2>2. /\ ~invalid /\ vshift' = 0 /\ Consumed /\ depth # MaxDepth /\ depth' = depth + 1
        /\ UNCHANGED rem
    BY <1>3 DEF HeaderStart, HeaderSeen
  <2> DEFINE d == Deliver(f, c.read, TRUE)
  <2>3. chain \in Seq(Decoder) /\ chain # <<>> /\ Active = Top(chain) /\ ChainOK(chain, depth)
        /\ Active.skip \in Nat
    BY ActiveType DEF ChainOK
  <2>4. /\ f \in Fields /\ f.chain = chain /\ f.count = 0
        /\ f.opt.ft = "START" /\ f.opt.sub = "none"
    <3>1. "START" \in WireTypes
      BY DEF WireTypes
    <3> QED
      BY <2>3, <3>1, HeaderFields, WireOptType
  <2> HIDE DEF f
  <2>5. Framed(d, f, TRUE) /\ Delivered(d, f, TRUE)
    BY <2>3, <2>4, AnswerFrames
  <2>6. c.condemn \in BOOLEAN
    BY AnswerType
  <2> HIDE DEF d
  <2>7. /\ chain' = IF d.bound THEN d.chain ELSE [d.chain EXCEPT ![Len(d.chain)].skip = @ + 1]
        /\ SetTarget(d, d.count) /\ CallbackEffects(d, c.condemn, 0)
    BY <2>1 DEF d
  <2>8. d.chain = IF d.bound THEN Append(chain, Fresh) ELSE chain
    BY <2>4, <2>5 DEF Delivered
  <2>9. Active'.state = "idle"
    <3>1. CASE d.bound
      <4>1. chain' = Append(chain, Fresh)
        BY <2>7, <2>8, <3>1
      <4>2. Len(chain) \in Nat /\ Fresh \in Decoder
        BY <2>3, TopType DEF Fresh, Decoder
      <4>3. Top(chain') = Fresh
        BY <2>3, <4>1, <4>2, AppendProperties DEF Top
      <4> QED
        BY <4>3, NestingIsChain DEF Fresh
    <3>2. CASE ~d.bound
      <4> DEFINE k == Top(chain).skip + 1
      <4>1. chain' = [chain EXCEPT ![Len(chain)].skip = k]
        BY <2>7, <2>8, <3>2 DEF Top
      <4>2. k \in Nat
        BY <2>3
      <4> HIDE DEF k
      <4>3. Top(chain').state = Top(chain).state
        BY <2>3, <4>1, <4>2, SetSkip
      <4> QED
        BY <1>1, <2>3, <4>3, NestingIsChain
    <3> QED
      BY <3>1, <3>2
  <2>10. opt'.ft = "START" /\ opt'.sub = "none" /\ count' = 0
    BY <2>4, <2>5, <2>7 DEF Framed, SetTarget, ArrayTypes, VarintArrays
  <2>11. Wire!Taken /\ (invalid' <=> why' # "none")
    BY <1>1, <2>2, <2>6, <2>7, CallbackTaken
  <2>12. FramingKnown'
    BY <2>9, <2>11 DEF FramingKnown, FieldFramed
  <2>13. depth < MaxDepth
    BY <1>1, <2>2
  <2>14. Wire!Header("START")
    BY <1>1, <2>2, <2>9, <2>10, <2>11, <2>13 DEF Wire!Header, Wire!StateAfterHeader
  <2> QED
    BY <2>12, <2>14 DEF Wire!Next
<1> QED
  BY <1>2, <1>3 DEF HeaderStart

\* A sequence closes: the decoder opened for it goes, or one skipped level.
LEMMA HeaderEndWire ==
    ASSUME Inductive, Inductive', FramingKnown, HeaderEnd
    PROVE  FramingKnown' /\ Wire!Next
<1> DEFINE f == Header("END", chain)
           l == Len(chain)
           k == Active.skip
<1>1. /\ feeding /\ Active.state = "idle" /\ depth \in 0..MaxDepth
      /\ Active = Top(chain) /\ ChainOK(chain, depth) /\ chain \in Seq(Decoder)
      /\ l \in Nat \ {0} /\ k \in Nat /\ depth = (l - 1) + k
  BY ActiveType DEF HeaderEnd, HeaderSeen, InState, ChainOK
<1> HIDE DEF l, k
<1>2. CASE k = 0 /\ l = 1 /\ Reject("end")
  <2>1. FramingKnown' /\ Wire!Condemn("end")
    BY <1>1, <1>2, RejectCondemns DEF Reasons, ReceiverReasons
  <2>2. depth = 0
    BY <1>1, <1>2
  <2> QED
    BY <1>1, <2>1, <2>2 DEF Wire!Next, Wire!Malformed
<1>3. CASE /\ HeaderSeen
           /\ \/ k > 0 /\ chain' = [chain EXCEPT ![Len(chain)].skip = @ - 1]
              \/ k = 0 /\ l > 1 /\ chain' = Front(chain)
           /\ depth' = depth - 1
           /\ SetTarget(Unbound(f), 0)
           /\ NoCallback
           /\ UNCHANGED rem
  <2>1. vshift' = 0 /\ Consumed /\ UNCHANGED <<invalid, why>>
    BY <1>3 DEF HeaderSeen, NoCallback
  <2>2. k > 0 \/ l > 1
    BY <1>3
  <2>3. depth > 0
    BY <1>1, <2>2
  <2>4. Active'.state = "idle"
    <3>1. CASE k > 0 /\ chain' = [chain EXCEPT ![Len(chain)].skip = @ - 1]
      <4> DEFINE j == Top(chain).skip - 1
      <4>1. chain' = [chain EXCEPT ![Len(chain)].skip = j]
        BY <3>1 DEF Top
      <4>2. j \in Nat
        BY <1>1, <3>1 DEF k
      <4> HIDE DEF j
      <4>3. Top(chain').state = Top(chain).state
        BY <1>1, <4>1, <4>2, SetSkip
      <4> QED
        BY <1>1, <4>3, NestingIsChain
    <3>2. CASE k = 0 /\ l > 1 /\ chain' = Front(chain)
      <4>1. Top(chain') = Fresh
        BY <1>1, <3>2, PopDecoder DEF k, l
      <4> QED
        BY <4>1, NestingIsChain DEF Fresh
    <3> QED
      BY <1>3, <3>1, <3>2
  <2>5. opt'.ft = "END" /\ opt'.sub = "none" /\ count' = 0
    <3>1. "END" \in WireTypes
      BY DEF WireTypes
    <3>2. f \in Fields /\ f.opt.ft = "END" /\ f.opt.sub = "none"
      BY <1>1, <3>1, HeaderFields, WireOptType
    <3> HIDE DEF f
    <3> QED
      BY <1>3, <3>2, UnboundFields DEF SetTarget
  <2>6. Wire!Taken /\ (invalid' <=> why' # "none")
    BY <1>1, <2>1, QuietlyTaken
  <2>7. FramingKnown'
    BY <2>4, <2>6 DEF FramingKnown, FieldFramed
  <2>8. Wire!Header("END")
    BY <1>1, <1>3, <2>1, <2>3, <2>4, <2>5, <2>6 DEF Wire!Header, Wire!StateAfterHeader
  <2> QED
    BY <2>7, <2>8 DEF Wire!Next
<1> QED
  BY <1>2, <1>3 DEF HeaderEnd, l, k

-----------------------------------------------------------------------------
(* Payloads.                                                               *)

LEMMA ScalarValueWire ==
    ASSUME Inductive, FramingKnown, NEW need \in Needs, ScalarValue(need)
    PROVE  FramingKnown' /\ Wire!Next
<1>1. /\ feeding /\ Active.state \in {"vu", "vs"} /\ count \in Nat
      /\ FieldFramed(Active.state)
  BY Parts DEF ScalarValue, FramingKnown, Target
<1>2. CASE ArgumentError
  <2>1. /\ feeding' = FALSE /\ ret' = "arg" /\ vshift' = 0
        /\ UNCHANGED <<chain, depth, count, opt, rem, len, awc, invalid, why>>
    BY <1>2 DEF ArgumentError, chainVars, field, target
  <2>2. Active' = Active /\ Verdict' = Verdict /\ FramingKnown'
    BY <2>1, SameFraming DEF Active, Verdict
  <2>3. Wire!Abandon
    BY <1>1, <2>1, <2>2 DEF Wire!Abandon
  <2> QED
    BY <2>2, <2>3 DEF Wire!Next
<1>3. CASE Reject("range")
  <2>1. FramingKnown' /\ Wire!Refuse
    BY <1>1, <1>3, RejectCondemns DEF Reasons, ReceiverReasons
  <2> QED
    BY <2>1 DEF Wire!Next
<1>4. CASE ~ArgumentError /\ ~Reject("range")
  <2> DEFINE array == opt.ft = (IF Active.state = "vu" THEN "ARR_U" ELSE "ARR_S")
             left == LessOne(count)
  <2>1. /\ count' = IF array THEN left ELSE count
        /\ chain' = IF array /\ left > 0 THEN chain ELSE Parked("idle")
        /\ vshift' = 0
        /\ Consumed
        /\ UNCHANGED <<invalid, depth, len, awc, opt, rem, why>>
    BY <1>4 DEF ScalarValue
  <2>2. /\ array <=> opt.ft \in VarintArrays
        /\ array => count > 0
        /\ ~array => count = 0
    BY <1>1 DEF FieldFramed, VarintArrays
  <2>3. array => left = count - 1
    BY <1>1, <2>2 DEF LessOne
  <2> HIDE DEF array, left
  <2>4. Active'.state = IF array /\ left > 0 THEN Active.state ELSE "idle"
    <3>1. CASE array /\ left > 0
      BY <2>1, <3>1 DEF Active
    <3>2. CASE ~(array /\ left > 0)
      BY <2>1, <3>2, ParkedNesting DEF States
    <3> QED
      BY <3>1, <3>2
  <2>5. array /\ left > 0 <=> count > 1
    BY <1>1, <2>2, <2>3
  <2>6. count' = IF count > 0 THEN count - 1 ELSE 0
    BY <1>1, <2>1, <2>2, <2>3
  <2>7. Wire!Taken /\ (invalid' <=> why' # "none")
    BY <1>1, <2>1, QuietlyTaken
  <2>8. FramingKnown'
    <3>1. CASE array /\ left > 0
      <4>1. Active'.state = Active.state /\ count' > 0 /\ opt' = opt
        BY <2>1, <2>4, <3>1
      <4>2. FieldFramed(Active.state)'
        BY <1>1, <2>2, <3>1, <4>1 DEF FieldFramed
      <4> QED
        BY <2>7, <4>2 DEF FramingKnown
    <3>2. CASE ~(array /\ left > 0)
      BY <2>4, <2>7, <3>2 DEF FramingKnown, FieldFramed
    <3> QED
      BY <3>1, <3>2
  <2>9. IF count > 1 THEN Active'.state = Active.state ELSE Active'.state = "idle"
    BY <2>4, <2>5
  <2>10. Wire!Value
    BY <1>1, <2>1, <2>6, <2>7, <2>9 DEF Wire!Value
  <2> QED
    BY <2>8, <2>10 DEF Wire!Next
<1> QED
  BY <1>2, <1>3, <1>4


LEMMA ArrayCountWire ==
    ASSUME NoNullReads, Inductive, FramingKnown, NEW n \in Counts, ArrayCount(n)
    PROVE  FramingKnown' /\ Wire!Next
<1>1. /\ feeding /\ Active.state = "array_count" /\ n \in Nat /\ ArrayMax \in Nat
      /\ opt.ft \in ArrayTypes /\ opt.sub = "none" /\ opt \in Options /\ len \in Nat
      /\ chain \in Seq(Decoder) /\ chain # <<>>
  BY IStreamAssumption, Parts
  DEF ArrayCount, InState, Target, FieldExpected, FramingKnown, FieldFramed, Nesting
<1>2. CASE n > ArrayMax
  <2>1. FramingKnown' /\ Wire!Condemn("count")
    BY <1>1, <1>2, RejectCondemns DEF ArrayCount, Reasons, ReceiverReasons
  <2> QED
    BY <1>1, <2>1 DEF Wire!Next, Wire!Malformed
<1>3. CASE ~(n > ArrayMax)
  <2>0. n \in 0..ArrayMax /\ n <= ArrayMax
    BY <1>1, <1>3
  <2>1. CASE opt.ft = "ARR_F"
    <3>1. /\ chain' = Parked("fixlen_len") /\ count' = n /\ awc' = n /\ vshift' = 0
          /\ Consumed /\ UNCHANGED <<depth, len, opt, rem, invalid, why>>
      BY <1>3, <2>1 DEF ArrayCount, NoCallback
    <3>2. Active'.state = "fixlen_len"
      BY <3>1, ParkedNesting DEF States
    <3>3. Wire!Taken /\ (invalid' <=> why' # "none")
      BY <1>1, <3>1, QuietlyTaken
    <3>4. FramingKnown'
      BY <2>1, <3>1, <3>2, <3>3 DEF FramingKnown, FieldFramed
    <3>5. Wire!Count(n)
      BY <1>1, <2>0, <2>1, <3>1, <3>2, <3>3 DEF Wire!Count
    <3> QED
      BY <2>0, <3>4, <3>5 DEF Wire!Next
  <2>2. CASE opt.ft # "ARR_F"
    <3> DEFINE f == [chain |-> chain, len |-> len, count |-> n, opt |-> opt]
               next == IF n = 0 THEN "idle" ELSE ElementState(opt.ft)
    <3>1. PICK c \in Answers :
             LET d == Deliver(f, c.read, n > 0)
             IN  IF TooMany(d, n)
                 THEN RejectRead(IF c.condemn THEN "callback" ELSE "capacity", d)
                 ELSE /\ chain' = [d.chain EXCEPT ![Len(d.chain)].state = next]
                      /\ SetTarget(d, BoundCount(d, n))
                      /\ CallbackEffects(d, c.condemn, notified)
                      /\ vshift' = 0
                      /\ Consumed
                      /\ UNCHANGED <<depth, rem>>
      BY <1>3, <2>2 DEF ArrayCount
    <3> DEFINE d == Deliver(f, c.read, n > 0)
    <3>2. f \in Fields /\ f.chain = chain /\ f.chain # <<>> /\ f.opt = opt /\ f.count = n
      BY <1>1 DEF Fields
    <3>3. (n > 0) \in BOOLEAN
      OBVIOUS
    <3>4. c.condemn \in BOOLEAN
      BY AnswerType
    <3> HIDE DEF f
    <3>5. Framed(d, f, n > 0) /\ Delivered(d, f, n > 0)
      BY <1>1, <3>2, <3>3, AnswerFrames
    <3>6. CASE TooMany(d, n)
      <4>1. RejectRead("callback", d) \/ RejectRead("capacity", d)
        BY <3>1, <3>6
      <4>2. FramingKnown' /\ Wire!Refuse
        BY <1>1, <4>1, RejectCondemns DEF Reasons, ReceiverReasons
      <4> QED
        BY <4>2 DEF Wire!Next
    <3>7. CASE ~TooMany(d, n)
      <4>1. /\ chain' = [d.chain EXCEPT ![Len(d.chain)].state = next]
            /\ SetTarget(d, BoundCount(d, n))
            /\ CallbackEffects(d, c.condemn, notified)
            /\ vshift' = 0
            /\ Consumed
            /\ UNCHANGED <<depth, rem>>
        BY <3>1, <3>7
      <4> HIDE DEF d
      <4>2. opt.ft \in {"ARR_U", "ARR_S"} /\ opt.ft \in VarintArrays
        BY <1>1, <2>2 DEF ArrayTypes, VarintArrays
      <4>3. next = IF n = 0 THEN "idle" ELSE IF opt.ft = "ARR_U" THEN "vu" ELSE "vs"
        BY DEF ElementState
      <4> HIDE DEF next
      <4>4. next \in States
        BY <4>3 DEF States
      <4>5. d.chain = chain
        BY <3>2, <3>5, <4>2 DEF Delivered
      <4>6. Active'.state = next
        BY <4>1, <4>4, <4>5, ParkedNesting DEF Parked
      <4>7. opt'.ft = opt.ft /\ opt'.sub = "none" /\ count' = n
        BY <1>1, <2>2, <3>2, <3>5, <4>1, <4>2 DEF Framed, SetTarget, BoundCount
      <4>8. Wire!Taken /\ (invalid' <=> why' # "none")
        BY <1>1, <3>4, <4>1, CallbackTaken
      <4>9. FieldFramed(Active.state)'
        <5>1. CASE n = 0
          BY <4>3, <4>6, <5>1 DEF FieldFramed
        <5>2. CASE n # 0
          <6>1. count' > 0 /\ opt'.ft \in VarintArrays
            BY <1>1, <4>2, <4>7, <5>2
          <6>2. \/ Active'.state = "vu" /\ opt'.ft = "ARR_U"
                \/ Active'.state = "vs" /\ opt'.ft = "ARR_S"
            BY <4>2, <4>3, <4>6, <4>7, <5>2
          <6> QED
            BY <6>1, <6>2 DEF FieldFramed
        <5> QED
          BY <5>1, <5>2
      <4>10. Wire!Count(n)
        BY <1>1, <2>0, <2>2, <4>1, <4>3, <4>6, <4>7, <4>8 DEF Wire!Count
      <4> QED
        BY <2>0, <4>8, <4>9, <4>10 DEF FramingKnown, Wire!Next
    <3> QED
      BY <3>6, <3>7
  <2> QED
    BY <2>1, <2>2
<1> QED
  BY <1>2, <1>3

LEMMA FixlenWordWire ==
    ASSUME NoNullReads, Inductive, FramingKnown,
           NEW length \in Lengths, NEW sub \in Subtypes \cup {"bad"},
           FixlenWord(length, sub)
    PROVE  FramingKnown' /\ Wire!Next
<1>1. /\ feeding /\ Active.state = "fixlen_len" /\ length \in Nat /\ FixlenMax \in Nat
      /\ opt.ft \in {"FIX", "ARR_F"} /\ opt \in Options /\ count \in Nat /\ awc \in Nat
      /\ count = (IF opt.ft = "ARR_F" THEN awc ELSE 0)
  BY IStreamAssumption, Parts
  DEF FixlenWord, InState, Target, FieldExpected, FramingKnown, FieldFramed
<1>2. CASE WordMalformed(length, sub)
  <2>1. FramingKnown' /\ Wire!Condemn("fixlen")
    BY <1>1, <1>2, RejectCondemns DEF FixlenWord, Reasons, ReceiverReasons
  <2> QED
    BY <1>1, <2>1 DEF Wire!Next, Wire!Malformed
<1>3. CASE ~WordMalformed(length, sub)
  <2> DEFINE payload == IF sub \in {"string", "blob"} THEN "fixlen_raw" ELSE "fixlen_val"
             f == [chain |-> Parked(payload), len |-> length, count |-> count,
                   opt |-> [opt EXCEPT !.sub = sub]]
  <2>1. PICK c \in Answers :
           LET d == Deliver(f, c.read, TRUE)
               array == d.opt.ft = "ARR_F"
               cnt == IF array THEN BoundCount(d, awc) ELSE d.count
               empty == array /\ cnt = 0
           IN  IF array /\ TooMany(d, awc)
               THEN RejectRead(IF c.condemn THEN "callback" ELSE "capacity", d)
               ELSE IF TooLong(d, length)
               THEN RejectRead(IF c.condemn THEN "callback" ELSE "length", d)
               ELSE /\ chain' = [d.chain EXCEPT ![Len(d.chain)].state =
                                    IF empty \/ length = 0 THEN "idle" ELSE @]
                    /\ SetTarget(d, cnt)
                    /\ rem' = IF empty \/ length = 0 THEN rem ELSE length
                    /\ CallbackEffects(d, c.condemn, notified)
                    /\ vshift' = 0
                    /\ Consumed
                    /\ UNCHANGED <<depth, awc>>
    BY <1>3 DEF FixlenWord
  <2> DEFINE d == Deliver(f, c.read, TRUE)
             array == d.opt.ft = "ARR_F"
             cnt == IF array THEN BoundCount(d, awc) ELSE d.count
             empty == array /\ cnt = 0
  <2>2. /\ sub \in {"fp32", "fp64", "string", "blob"} /\ sub \in Subtypes
        /\ sub = "fp32" => length = Fp32Len
        /\ sub = "fp64" => length = Fp64Len
        /\ opt.ft = "ARR_F" => sub \in {"fp32", "fp64"}
        /\ ~(length > FixlenMax)
    BY <1>3 DEF WordMalformed, Subtypes
  <2>3. length \in 0..FixlenMax /\ length <= FixlenMax
    BY <1>1, <2>2
  <2>4. payload \in States /\ payload = IF sub \in {"fp32", "fp64"} THEN "fixlen_val" ELSE "fixlen_raw"
    BY <2>2 DEF States
  <2>5. /\ Parked(payload) \in Seq(Decoder) /\ Parked(payload) # <<>>
        /\ ChainOK(Parked(payload), depth)
        /\ Top(Parked(payload)).state = payload
    BY <2>4, ParkedType, ActiveType, SetState DEF Parked
  <2>6. /\ [opt EXCEPT !.sub = sub] \in Options
        /\ [opt EXCEPT !.sub = sub].ft = opt.ft
        /\ [opt EXCEPT !.sub = sub].sub = sub
    BY <1>1, <2>2 DEF Options
  <2> HIDE DEF payload
  <2>7. f \in Fields /\ f.chain = Parked(payload) /\ f.chain # <<>> /\ f.opt.ft = opt.ft
        /\ f.opt.sub = sub /\ f.len = length /\ f.count = count
    BY <1>1, <2>5, <2>6 DEF Fields
  <2>8. c.condemn \in BOOLEAN
    BY AnswerType
  <2> HIDE DEF f
  <2>9. Framed(d, f, TRUE) /\ Delivered(d, f, TRUE)
    BY <1>1, <2>7, AnswerDelivers, AnswerType, DeliverFraming
  <2>10. CASE RejectRead("callback", d) \/ RejectRead("capacity", d) \/ RejectRead("length", d)
    <3>1. FramingKnown' /\ Wire!Refuse
      BY <1>1, <2>10, RejectCondemns DEF Reasons, ReceiverReasons
    <3> QED
      BY <3>1 DEF Wire!Next
  <2>11. CASE ~(array /\ TooMany(d, awc)) /\ ~TooLong(d, length)
    <3>1. /\ chain' = [d.chain EXCEPT ![Len(d.chain)].state =
                          IF empty \/ length = 0 THEN "idle" ELSE @]
          /\ SetTarget(d, cnt)
          /\ rem' = IF empty \/ length = 0 THEN rem ELSE length
          /\ CallbackEffects(d, c.condemn, notified)
          /\ vshift' = 0
          /\ Consumed
          /\ UNCHANGED <<depth, awc>>
      BY <2>1, <2>11
    <3> HIDE DEF d
    <3>2. d.opt.ft = opt.ft /\ d.opt.sub = sub /\ (array <=> opt.ft = "ARR_F")
      BY <2>7, <2>9 DEF Framed
    <3>3. d.chain = Parked(payload)
      BY <1>1, <2>7, <2>9 DEF Delivered
    <3>4. cnt = count
      <4>1. d.bound \in BOOLEAN
        BY <2>9 DEF Delivered
      <4>2. d.count = count \/ (d.bound /\ opt.ft = "ARR_F")
        BY <1>1, <2>7, <2>9 DEF Framed, ArrayTypes, VarintArrays
      <4> QED
        BY <1>1, <3>2, <4>1, <4>2 DEF BoundCount
    <3>5. empty <=> opt.ft = "ARR_F" /\ count = 0
      BY <3>2, <3>4
    <3>6. opt'.ft = opt.ft /\ opt'.sub = sub /\ count' = count /\ len' = d.len
      BY <3>1, <3>2, <3>4 DEF SetTarget
    <3>7. opt.ft = "ARR_F" => d.len = Width(sub)
      <4>1. CASE d.bound
        BY <2>7, <2>9, <3>2, <4>1 DEF Delivered
      <4>2. CASE ~d.bound
        BY <2>2, <2>7, <2>9, <4>2 DEF Framed, Width
      <4> QED
        BY <4>1, <4>2
    <3> HIDE DEF empty, cnt, array
    <3> DEFINE s == IF empty \/ length = 0 THEN "idle" ELSE payload
    <3>8. s \in States
      BY <2>4 DEF States
    <3>9. chain' = [Parked(payload) EXCEPT ![Len(Parked(payload))].state = s]
      <4>1. Parked(payload)[Len(Parked(payload))].state = payload
        BY <2>5 DEF Top
      <4> QED
        BY <3>1, <3>3, <4>1
    <3>10. (empty \/ length = 0 => s = "idle") /\ (~(empty \/ length = 0) => s = payload)
      OBVIOUS
    <3> HIDE DEF s
    <3>11. Active'.state = s
      <4>1. Top(chain').state = s
        BY <2>5, <3>8, <3>9, SetState
      <4> QED
        BY <4>1, NestingIsChain
    <3>12. Wire!Taken /\ (invalid' <=> why' # "none")
      BY <1>1, <2>8, <3>1, CallbackTaken
    <3>13. FieldFramed(Active.state)'
      <4>1. CASE s = "idle"
        BY <3>11, <4>1 DEF FieldFramed
      <4>2. CASE s = "fixlen_val"
        <5>1. sub \in {"fp32", "fp64"}
          BY <2>4, <3>10, <4>2
        <5> QED
          BY <1>1, <3>6, <3>7, <3>11, <4>2, <5>1 DEF FieldFramed
      <4>3. CASE s = "fixlen_raw"
        <5>1. opt.ft = "FIX"
          BY <1>1, <2>2, <2>4, <3>10, <4>3
        <5> QED
          BY <1>1, <3>6, <3>11, <4>3, <5>1 DEF FieldFramed
      <4> QED
        BY <2>4, <3>10, <4>1, <4>2, <4>3
    <3>14. Wire!Word(length, sub)
      <4>1. sub \in {"fp32", "fp64"} => length = Wire!Width(sub)
        BY <2>2 DEF Wire!Width
      <4>2. IF length = 0 \/ (opt.ft = "ARR_F" /\ count = 0)
            THEN Active'.state = "idle" /\ rem' = rem
            ELSE /\ Active'.state = IF sub \in {"fp32", "fp64"} THEN "fixlen_val" ELSE "fixlen_raw"
                 /\ rem' = length
        BY <2>4, <3>1, <3>5, <3>10, <3>11
      <4> QED
        BY <1>1, <2>2, <2>3, <3>1, <3>6, <3>12, <4>1, <4>2 DEF Wire!Word
    <3> QED
      BY <2>2, <2>3, <3>12, <3>13, <3>14 DEF FramingKnown, Wire!Next
  <2>12. CASE (array /\ TooMany(d, awc)) \/ TooLong(d, length)
    BY <2>1, <2>10, <2>12
  <2> QED
    BY <2>11, <2>12
<1> QED
  BY <1>2, <1>3


LEMMA FixlenValByteWire ==
    ASSUME Inductive, FramingKnown, FixlenValByte
    PROVE  FramingKnown' /\ Wire!Next
<1>1. /\ feeding /\ Active.state = "fixlen_val" /\ Consumed
      /\ UNCHANGED <<invalid, depth, vshift, len, awc, opt, why>>
  BY DEF FixlenValByte, PayloadByte, InState
<1>2. /\ rem \in Nat /\ rem > 0 /\ count \in Nat
      /\ opt.ft \in {"FIX", "ARR_F"} /\ opt.sub \in {"fp32", "fp64"}
      /\ opt.ft = "ARR_F" => count > 0 /\ len = Width(opt.sub)
      /\ opt.ft # "ARR_F" => count = 0
  BY <1>1, Parts DEF Target, PayloadPending, FramingKnown, FieldFramed
<1>3. Wire!Taken /\ (invalid' <=> why' # "none")
  BY <1>1, QuietlyTaken
<1>4. ASSUME Active'.state \in {"idle", "fixlen_val"},
             opt.ft # "ARR_F" => count' = 0 \/ Active'.state = "idle",
             IF rem > 1
             THEN rem' = rem - 1 /\ Active'.state = Active.state /\ count' = count
             ELSE IF count > 1
             THEN rem' = Width(opt.sub) /\ count' = count - 1 /\ Active'.state = Active.state
             ELSE rem' = 0 /\ count' = 0 /\ Active'.state = "idle"
      PROVE  FramingKnown' /\ Wire!Next
  <2>1. FieldFramed(Active.state)'
    BY <1>1, <1>2, <1>4 DEF FieldFramed
  <2>2. Wire!Width(opt.sub) = Width(opt.sub)
    BY DEF Width, Wire!Width
  <2>3. Wire!PayloadByte
    BY <1>1, <1>3, <1>4, <2>2 DEF Wire!PayloadByte
  <2> QED
    BY <1>3, <2>1, <2>3 DEF FramingKnown, Wire!Next
<1>5. CASE rem - 1 > 0 /\ rem' = rem - 1 /\ UNCHANGED <<chain, count>>
  <2>1. Active' = Active
    BY <1>5 DEF Active
  <2>2. rem > 1
    BY <1>2, <1>5
  <2> QED
    BY <1>1, <1>2, <1>4, <1>5, <2>1, <2>2
<1>6. CASE /\ rem - 1 = 0 /\ opt.ft = "ARR_F" /\ count' = LessOne(count)
           /\ rem' = (IF LessOne(count) > 0 THEN len ELSE 0)
           /\ chain' = IF LessOne(count) > 0 THEN chain ELSE Parked("idle")
  <2>1. LessOne(count) = count - 1 /\ rem = 1 /\ ~(rem > 1)
    BY <1>2, <1>6 DEF LessOne
  <2>2. CASE count > 1
    <3>1. count - 1 > 0
      BY <1>2, <2>2
    <3>2. chain' = chain /\ rem' = len /\ count' = count - 1
      BY <1>6, <2>1, <3>1
    <3>3. Active' = Active
      BY <3>2 DEF Active
    <3> QED
      BY <1>1, <1>2, <1>4, <1>6, <2>1, <2>2, <3>2, <3>3
  <2>3. CASE ~(count > 1)
    <3>1. count = 1 /\ count - 1 = 0
      BY <1>2, <1>6, <2>3
    <3>2. chain' = Parked("idle") /\ rem' = 0 /\ count' = 0
      BY <1>6, <2>1, <3>1
    <3>3. Active'.state = "idle"
      BY <1>1, <3>2, ParkedNesting DEF States
    <3> QED
      BY <1>4, <2>1, <2>3, <3>2, <3>3
  <2> QED
    BY <2>2, <2>3
<1>7. CASE rem - 1 = 0 /\ opt.ft # "ARR_F" /\ rem' = 0 /\ chain' = Parked("idle")
           /\ UNCHANGED count
  <2>1. Active'.state = "idle"
    BY <1>1, <1>7, ParkedNesting DEF States
  <2>2. ~(rem > 1) /\ ~(count > 1) /\ count' = 0
    BY <1>2, <1>7
  <2> QED
    BY <1>4, <1>7, <2>1, <2>2
<1> QED
  BY <1>5, <1>6, <1>7 DEF FixlenValByte

LEMMA FixlenRawByteWire ==
    ASSUME Inductive, FramingKnown, NEW bad \in BOOLEAN, FixlenRawByte(bad)
    PROVE  FramingKnown' /\ Wire!Next
<1>1. /\ feeding /\ Active.state = "fixlen_raw"
      /\ rem \in Nat /\ rem > 0 /\ opt.ft = "FIX" /\ count = 0
  BY Parts DEF FixlenRawByte, InState, Target, PayloadPending, FramingKnown, FieldFramed
<1>2. CASE Reject("text")
  <2>1. FramingKnown' /\ Wire!Refuse
    BY <1>1, <1>2, RejectCondemns DEF Reasons, ReceiverReasons
  <2> QED
    BY <2>1 DEF Wire!Next
<1>3. CASE ~Reject("text")
  <2>1. /\ Consumed /\ rem' = rem - 1 /\ count' = count
        /\ chain' = IF rem - 1 = 0 THEN Parked("idle") ELSE chain
        /\ UNCHANGED <<invalid, depth, vshift, len, awc, opt, why>>
    BY <1>3 DEF FixlenRawByte, PayloadByte
  <2>2. Wire!Taken /\ (invalid' <=> why' # "none")
    BY <1>1, <2>1, QuietlyTaken
  <2>3. Active'.state = IF rem > 1 THEN "fixlen_raw" ELSE "idle"
    <3>1. CASE rem > 1
      <4>1. chain' = chain
        BY <1>1, <2>1, <3>1
      <4> QED
        BY <1>1, <3>1, <4>1 DEF Active
    <3>2. CASE ~(rem > 1)
      <4>1. rem - 1 = 0
        BY <1>1, <3>2
      <4>2. chain' = Parked("idle")
        BY <2>1, <4>1
      <4> QED
        BY <2>1, <3>2, <4>2, ParkedNesting DEF States
    <3> QED
      BY <3>1, <3>2
  <2>4. ~(rem > 1) => rem' = 0
    BY <1>1, <2>1
  <2>5. FieldFramed(Active.state)'
    BY <1>1, <2>1, <2>3 DEF FieldFramed
  <2>6. Wire!PayloadByte
    BY <1>1, <2>1, <2>2, <2>3, <2>4 DEF Wire!PayloadByte
  <2> QED
    BY <2>2, <2>5, <2>6 DEF FramingKnown, Wire!Next
<1> QED
  BY <1>2, <1>3

-----------------------------------------------------------------------------
LEMMA FramingInit == Init => FramingKnown /\ Wire!Init
<1> SUFFICES ASSUME Init PROVE FramingKnown /\ Wire!Init
  OBVIOUS
<1>1. /\ Active = [state |-> "idle", skip |-> 0]
      /\ opt.ft = "VU" /\ opt.sub = "none" /\ why = "none" /\ ~invalid
  BY DEF Init, Active, WireOpt
<1>2. Active.state = "idle" /\ Verdict = "fine"
  BY <1>1 DEF Verdict
<1>3. FramingKnown
  BY <1>1, <1>2 DEF FramingKnown, FieldFramed
<1>4. Wire!Init
  BY <1>1, <1>2 DEF Init, Wire!Init
<1> QED
  BY <1>3, <1>4

LEMMA WireStep ==
    ASSUME NoNullReads, Inductive, Inductive', FramingKnown, [Next]_vars
    PROVE  FramingKnown' /\ [Wire!Next]_(Wire!vars)
<1>1. CASE UNCHANGED vars
  <2>1. UNCHANGED <<feeding, ret, invalid, chain, depth, vshift, len, count, awc, opt, rem, why>>
    BY <1>1 DEF vars
  <2>2. Active' = Active /\ Verdict' = Verdict /\ FramingKnown'
    BY <2>1, SameFraming DEF Active, Verdict
  <2> QED
    BY <2>1, <2>2 DEF Wire!vars
<1>2. CASE \/ FeedBegin \/ FeedEnd \/ VarintMore \/ VarintTooWide \/ HeaderRefused
  BY <1>2, FeedBeginWire, FeedEndWire, VarintMoreWire, VarintTooWideWire, HeaderRefusedWire
<1>3. CASE \/ HeaderStart \/ HeaderEnd
           \/ \E type \in ScalarTypes : HeaderScalar(type)
           \/ \E type \in ArrayTypes \cup {"FIX"} : HeaderDeferred(type)
  BY <1>3, HeaderStartWire, HeaderEndWire, HeaderScalarWire, HeaderDeferredWire
<1>4. CASE \/ \E need \in Needs : ScalarValue(need)
           \/ \E n \in Counts : ArrayCount(n)
           \/ \E length \in Lengths, sub \in Subtypes \cup {"bad"} : FixlenWord(length, sub)
  BY <1>4, ScalarValueWire, ArrayCountWire, FixlenWordWire
<1>5. CASE FixlenValByte \/ \E bad \in BOOLEAN : FixlenRawByte(bad)
  BY <1>5, FixlenValByteWire, FixlenRawByteWire
<1> QED
  BY <1>1, <1>2, <1>3, <1>4, <1>5 DEF Next

\* The field the target describes is the field on the wire, whatever the
\* callback of that field read.
THEOREM FramingHolds == ASSUME NoNullReads PROVE Spec => []FramingKnown
<1>1. Init => FramingKnown
  BY FramingInit
<1>2. Inductive /\ Inductive' /\ FramingKnown /\ [Next]_vars => FramingKnown'
  BY WireStep
<1> QED
  BY <1>1, <1>2, InductiveHolds, PTL DEF Spec

\* The decoder implements the wire format's own parser: bound, declined,
\* contradicted or skipped, every field is consumed as its header and words
\* say, only malformed bytes are called malformed, and a feed reports OK
\* exactly at a message boundary.
THEOREM WireRefinement == ASSUME NoNullReads PROVE Spec => ImplementsWireParser
<1>1. Init => Wire!Init
  BY FramingInit
<1>2. Inductive /\ Inductive' /\ FramingKnown /\ [Next]_vars => [Wire!Next]_(Wire!vars)
  BY WireStep
<1> QED
  BY <1>1, <1>2, InductiveHolds, FramingHolds, PTL DEF Spec, ImplementsWireParser, Wire!Spec
=============================================================================
