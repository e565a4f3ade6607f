-------------------------- MODULE CppBuffersProofs --------------------------
(***************************************************************************)
(* Theorems about the buffers of a C++ output stream, module CppBuffers,   *)
(* for any buffers, of any length, and any number of bytes written.        *)
(***************************************************************************)
EXTENDS CppBuffers, TLAPS

-----------------------------------------------------------------------------
(* Sequences of bytes.                                                     *)

\* A byte written behind the first n of a buffer.
LEMMA PutSeq ==
    ASSUME NEW s \in Seq(Nat), NEW n \in Nat, n <= Len(s), NEW e \in Nat, NEW t,
           t = Append(SubSeq(s, 1, n), e)
    PROVE  /\ t \in Seq(Nat)
           /\ Len(t) = n + 1
           /\ \A i \in 1..n : t[i] = s[i]
           /\ t[n + 1] = e
<1>1. SubSeq(s, 1, n) \in Seq(Nat) /\ Len(SubSeq(s, 1, n)) = n
  OBVIOUS
<1>2. \A i \in 1..n : SubSeq(s, 1, n)[i] = s[i]
  OBVIOUS
<1> QED
  BY <1>1, <1>2

\* A unit of n bytes handed over after the bytes of s.
LEMMA UnitAppended ==
    ASSUME NEW s \in Seq(Nat), NEW t \in Seq(Nat), NEW n \in Nat, n <= Len(t),
           \A i \in 1..Len(s) : s[i] = i,
           \A i \in 1..n : t[i] = Len(s) + i
    PROVE  /\ s \o SubSeq(t, 1, n) \in Seq(Nat)
           /\ Len(s \o SubSeq(t, 1, n)) = Len(s) + n
           /\ \A i \in 1..Len(s) + n : (s \o SubSeq(t, 1, n))[i] = i
           /\ s \o SubSeq(t, 1, n) = Numbers(Len(s) + n)
<1> DEFINE u == SubSeq(t, 1, n)
<1>1. u \in Seq(Nat) /\ Len(u) = n /\ \A i \in 1..n : u[i] = Len(s) + i
  OBVIOUS
<1>2. ASSUME NEW i \in 1..Len(s) + n PROVE (s \o u)[i] = i
  <2>1. CASE i <= Len(s)
    BY <1>1, <2>1
  <2>2. CASE i > Len(s)
    <3>1. i - Len(s) \in 1..n
      BY <2>2
    <3>2. (s \o u)[i] = u[i - Len(s)]
      BY <1>1, <2>2, <3>1
    <3> QED
      BY <1>1, <3>1, <3>2
  <2> QED
    BY <2>1, <2>2
<1>3. s \o u \in Seq(Nat) /\ Len(s \o u) = Len(s) + n
  BY <1>1
<1>4. s \o u = Numbers(Len(s) + n)
  BY <1>2, <1>3 DEF Numbers
<1> QED
  BY <1>2, <1>3, <1>4

-----------------------------------------------------------------------------
(* The stream in use.                                                      *)

\* Only one object is in use: the first, or after a move the second.
LEMMA OneInUse ==
    ASSUME BufInductive, NEW o \in Objects, InUse(o)
    PROVE  o = IF moved THEN 2 ELSE 1
BY DEF BufInductive, Unmoved, InUse, Live, Unborn, Objects

\* A step changes the stream in use, not its kind and not whom its encoder
\* calls back.
LEMMA Update ==
    ASSUME BufInductive, NEW o \in Objects, InUse(o), NEW r \in Stream,
           obj' = [obj EXCEPT ![o] = r],
           r.state = "live", r.kind = obj[o].kind, r.callback = obj[o].callback,
           r.ctx.usr = obj[o].ctx.usr,
           UNCHANGED <<refs, moved>>,
           mem' \in [Storage -> Seq(Nat)], count' \in Nat, got' \in Seq(Nat),
           astray' \subseteq {"write", "flush", "destructor"},
           ~moved => astray' \subseteq {"destructor"} /\ HandedOver(r)',
           r.ctx.used <= Len(mem'[r.ctx.buffer]),
           Intact(obj[o]) => Settled(r) /\ Filled(r)'
    PROVE  BufInductive'
<1> USE DEF Objects
<1>1. BufTypeOK'
  BY DEF BufInductive, BufTypeOK
<1>2. obj'[o] = r /\ \A p \in Objects : p # o => obj'[p] = obj[p]
  BY DEF BufInductive, BufTypeOK
<1>3. o = (IF moved THEN 2 ELSE 1) /\ Live(o)
  BY OneInUse DEF InUse
<1>4. ASSUME moved PROVE ~obj'[1].callback /\ obj'[2].state # "unborn"
  BY <1>2, <1>3, <1>4 DEF BufInductive
<1>5. ASSUME ~moved PROVE Unmoved'
  <2>1. obj'[1] = r /\ obj'[2] = obj[2]
    BY <1>2, <1>3, <1>5
  <2> QED
    BY <1>3, <1>5, <2>1 DEF BufInductive, Unmoved, Live, Unborn, HandedOver
<1>6. obj'[1].state # "unborn"
  BY <1>2, <1>3 DEF BufInductive, Live
<1>7. ASSUME NEW p \in Objects, InUse(p)' PROVE p = o
  BY <1>2, <1>3, <1>7 DEF BufInductive, InUse, Live, Unmoved, Unborn
<1>8. Intact(r)' => Intact(obj[o])
  BY DEF Intact
<1> QED
  BY <1>1, <1>2, <1>4, <1>5, <1>6, <1>7, <1>8
  DEF BufInductive, Intact, Settled, Filled, Array

\* A unit handed over by the encoder: without a move it is the callback's, it
\* exists, and the callback has had all bytes then.
LEMMA UnitHandedOver ==
    ASSUME BufInductive, NEW o \in Objects, InUse(o), obj[o].ctx.usr # 0,
           NEW when \in {"write", "flush"},
           HandOver(obj[o].ctx.usr, obj[o].ctx.used, obj, when)
    PROVE  /\ got' \in Seq(Nat)
           /\ astray' \subseteq {"write", "flush", "destructor"}
           /\ ~moved => /\ astray' \subseteq {"destructor"}
                        /\ Len(got') = count
                        /\ \A i \in 1..Len(got') : got'[i] = i
<1> USE DEF Objects
<1>1. obj[o].ctx.usr = 1
  BY DEF BufInductive, BufTypeOK, Stream
<1>2. CASE moved
  <2>1. ~obj[1].callback
    BY <1>2 DEF BufInductive
  <2>2. got' = got /\ astray' \subseteq astray \cup {when}
    BY <1>1, <2>1 DEF HandOver
  <2> QED
    BY <1>2, <2>2 DEF BufInductive, BufTypeOK
<1>3. CASE ~moved
  <2>1. o = 1 /\ Live(1) /\ obj[1].callback /\ Settled(obj[1]) /\ Filled(obj[1])
    BY <1>1, <1>3, OneInUse DEF BufInductive, Unmoved, InUse, Intact
  <2>2. Exists(obj[1].buffer, obj)
    BY <2>1 DEF Exists, Settled, Live
  <2>3. got' = got \o Content(obj[1].buffer, obj[1].ctx.used) /\ astray' = astray
    BY <1>1, <2>1, <2>2 DEF HandOver, Live
  <2> DEFINE n == obj[1].ctx.used
             t == mem[obj[1].buffer]
  <2>4. /\ n \in Nat /\ t \in Seq(Nat) /\ n <= Len(t) /\ got \in Seq(Nat) /\ count \in Nat
        /\ Len(got) = count - n /\ \A i \in 1..Len(got) : got[i] = i
    BY <1>1, <1>3, <2>1
    DEF BufInductive, BufTypeOK, Stream, Unmoved, HandedOver, Settled, InUse
  <2>5. \A i \in 1..n : t[i] = Len(got) + i
    BY <2>1, <2>4 DEF Filled
  <2>6. got' = got \o SubSeq(t, 1, n)
    BY <2>3 DEF Content
  <2> HIDE DEF n, t
  <2>7. /\ got' \in Seq(Nat)
        /\ Len(got') = Len(got) + n
        /\ \A i \in 1..Len(got) + n : got'[i] = i
    BY <2>4, <2>5, <2>6, UnitAppended
  <2>8. astray \subseteq {"destructor"}
    BY <1>3 DEF BufInductive, Unmoved
  <2> QED
    BY <1>3, <2>3, <2>4, <2>7, <2>8
<1> QED
  BY <1>2, <1>3

\* What the callback leaves installed is empty, and kept alive.
LEMMA AfterCallbackFacts ==
    ASSUME BufInductive, NEW o \in Objects, InUse(o),
           NEW r \in AfterCallback(o, Reset(obj[o]))
    PROVE  /\ r \in Stream
           /\ r.state = "live"
           /\ r.kind = obj[o].kind
           /\ r.callback = obj[o].callback
           /\ r.ctx.usr = obj[o].ctx.usr
           /\ r.ctx.used = 0
           /\ Intact(obj[o]) => Settled(r)
<1>1. obj[o] \in Stream /\ obj[o].state = "live" /\ refs \subseteq Storage /\ refs \subseteq Shared
  BY DEF BufInductive, BufTypeOK, InUse, Live, Storage
<1>2. Intact(obj[o]) => Settled(obj[o])
  BY DEF BufInductive
<1>3. CASE r = Reset(obj[o])
  BY <1>1, <1>2, <1>3 DEF Reset, Stream, Settled
<1>4. ASSUME NEW b \in refs, r = Installed(Reset(obj[o]), b), Reset(obj[o]).kind = "shared"
      PROVE  /\ r \in Stream
             /\ r.state = "live"
             /\ r.kind = obj[o].kind
             /\ r.callback = obj[o].callback
             /\ r.ctx.usr = obj[o].ctx.usr
             /\ r.ctx.used = 0
             /\ Settled(r)
  BY <1>1, <1>4 DEF Reset, Installed, Stream, Settled
<1> QED
  BY <1>3, <1>4 DEF AfterCallback

\* A byte put behind the first used ones of the buffer r points to.
LEMMA PutFacts ==
    ASSUME BufInductive, NEW o \in Objects, NEW r \in Stream,
           r.ctx.used <= Len(mem[r.ctx.buffer]),
           Put([self |-> o, rec |-> r])
    PROVE  \E q \in Stream :
              /\ obj' = [obj EXCEPT ![o] = q]
              /\ q.state = r.state /\ q.kind = r.kind /\ q.callback = r.callback
              /\ q.ctx.usr = r.ctx.usr /\ q.ctx.used = r.ctx.used + 1
              /\ mem' \in [Storage -> Seq(Nat)] /\ count' = count + 1
              /\ q.ctx.used <= Len(mem'[q.ctx.buffer])
              /\ (Settled(r) /\ Filled(r)) => (Settled(q) /\ Filled(q)')
<1> DEFINE q == [r EXCEPT !.ctx.used = @ + 1]
           b == r.ctx.buffer
           n == r.ctx.used
<1>1. /\ q \in Stream /\ q.state = r.state /\ q.kind = r.kind /\ q.callback = r.callback
      /\ q.ctx.usr = r.ctx.usr /\ q.ctx.used = n + 1 /\ q.ctx.buffer = b
      /\ q.buffer = r.buffer /\ q.owner = r.owner
  BY DEF Stream
<1>2. obj' = [obj EXCEPT ![o] = q] /\ count' = count + 1
  BY DEF Put
<1>3. /\ mem \in [Storage -> Seq(Nat)] /\ b \in Storage /\ n \in Nat /\ count \in Nat
      /\ n <= Len(mem[b])
  BY DEF BufInductive, BufTypeOK, Stream
<1>4. mem' = [mem EXCEPT ![b] = Append(SubSeq(mem[b], 1, n), count + 1)]
  BY DEF Put, Content
<1> HIDE DEF q, b, n
<1>5. mem'[b] = Append(SubSeq(mem[b], 1, n), count + 1)
  BY <1>3, <1>4
<1>6. /\ mem'[b] \in Seq(Nat)
      /\ Len(mem'[b]) = n + 1
      /\ \A i \in 1..n : mem'[b][i] = mem[b][i]
      /\ mem'[b][n + 1] = count + 1
  <2>1. mem[b] \in Seq(Nat) /\ count + 1 \in Nat
    BY <1>3
  <2> QED
    BY <1>3, <1>5, <2>1, PutSeq
<1>7. mem' \in [Storage -> Seq(Nat)]
  <2>1. Append(SubSeq(mem[b], 1, n), count + 1) \in Seq(Nat)
    BY <1>5, <1>6
  <2> QED
    BY <1>3, <1>4, <2>1
<1>8. ASSUME Settled(r), Filled(r) PROVE Settled(q) /\ Filled(q)'
  <2>1. r.buffer = b
    BY <1>8 DEF Settled, b
  <2>2. n <= count /\ \A i \in 1..n : mem[b][i] = count - n + i
    BY <1>8, <2>1 DEF Filled, n
  <2>3. \A i \in 1..n + 1 : mem'[b][i] = (count + 1) - (n + 1) + i
    <3> DEFINE u == mem[b]
               v == mem'[b]
    <3>1. /\ n \in Nat /\ count \in Nat /\ v[n + 1] = count + 1
          /\ \A i \in 1..n : u[i] = count - n + i /\ v[i] = u[i]
      BY <1>3, <1>6, <2>2
    <3> HIDE DEF u, v
    <3> SUFFICES ASSUME NEW i \in 1..n + 1 PROVE v[i] = (count + 1) - (n + 1) + i
      BY DEF v
    <3>2. CASE i \in 1..n
      BY <3>1, <3>2
    <3>3. CASE i = n + 1
      BY <3>1, <3>3
    <3> QED
      BY <3>1, <3>2, <3>3
  <2>4. Filled(q)'
    <3>1. n + 1 <= count + 1 /\ 1..n + 1 = 1..q.ctx.used
      BY <1>1, <1>3, <2>2
    <3> QED
      BY <1>1, <1>2, <2>1, <2>3, <3>1 DEF Filled
  <2>5. Settled(q)
    BY <1>1, <1>8, <2>1 DEF Settled
  <2> QED
    BY <2>4, <2>5
<1> QED
  <2>1. q.ctx.used = r.ctx.used + 1 /\ q.ctx.used <= Len(mem'[q.ctx.buffer])
    BY <1>1, <1>3, <1>6 DEF n
  <2> QED
    BY <1>1, <1>2, <1>7, <1>8, <2>1

-----------------------------------------------------------------------------
(* The steps.                                                              *)

\* A byte is written into the buffer installed in r.
LEMMA WrittenInto ==
    ASSUME BufInductive, NEW o \in Objects, InUse(o), NEW r \in Stream,
           r.state = "live", r.kind = obj[o].kind, r.callback = obj[o].callback,
           r.ctx.usr = obj[o].ctx.usr,
           r.ctx.used <= Len(mem[r.ctx.buffer]),
           Intact(obj[o]) => Settled(r) /\ Filled(r),
           Put([self |-> o, rec |-> r]),
           UNCHANGED <<refs, moved>>,
           got' \in Seq(Nat), astray' \subseteq {"write", "flush", "destructor"},
           ~moved => astray' \subseteq {"destructor"},
           (~moved /\ r.ctx.usr = 1) =>
               Len(got') = count - r.ctx.used /\ \A i \in 1..Len(got') : got'[i] = i
    PROVE  BufInductive'
<1>1. PICK q \in Stream :
          /\ obj' = [obj EXCEPT ![o] = q]
          /\ q.state = r.state /\ q.kind = r.kind /\ q.callback = r.callback
          /\ q.ctx.usr = r.ctx.usr /\ q.ctx.used = r.ctx.used + 1
          /\ mem' \in [Storage -> Seq(Nat)] /\ count' = count + 1
          /\ q.ctx.used <= Len(mem'[q.ctx.buffer])
          /\ (Settled(r) /\ Filled(r)) => (Settled(q) /\ Filled(q)')
  BY PutFacts
<1>2. count \in Nat /\ count' \in Nat /\ r.ctx.used \in Nat
  BY <1>1 DEF BufInductive, BufTypeOK, Stream
<1>3. ~moved => HandedOver(q)'
  <2>1. count' - q.ctx.used = count - r.ctx.used
    BY <1>1, <1>2
  <2> QED
    BY <1>1, <2>1 DEF HandedOver
<1> QED
  BY <1>1, <1>2, <1>3, Update

LEMMA WriteByteStep ==
    ASSUME BufInductive, NEW o \in Objects, WriteByte(o)
    PROVE  BufInductive'
<1>1. InUse(o) /\ UNCHANGED <<refs, moved>>
  BY DEF WriteByte
<1>2. /\ obj[o] \in Stream /\ obj[o].state = "live"
      /\ count \in Nat /\ got \in Seq(Nat) /\ mem \in [Storage -> Seq(Nat)]
      /\ astray \subseteq {"write", "flush", "destructor"}
      /\ ~moved => astray \subseteq {"destructor"} /\ HandedOver(obj[o])
      /\ obj[o].ctx.used <= Len(mem[obj[o].ctx.buffer])
      /\ Intact(obj[o]) => Settled(obj[o]) /\ Filled(obj[o])
  BY <1>1, OneInUse DEF BufInductive, BufTypeOK, InUse, Live, Unmoved
<1>3. CASE obj[o].ctx.used < Cap
  <2>1. Put([self |-> o, rec |-> obj[o]]) /\ UNCHANGED <<got, astray>>
    BY <1>3 DEF WriteByte
  <2>2. (~moved /\ obj[o].ctx.usr = 1) =>
            Len(got') = count - obj[o].ctx.used /\ \A i \in 1..Len(got') : got'[i] = i
    BY <1>2, <2>1 DEF HandedOver
  <2> QED
    BY <1>1, <1>2, <2>1, <2>2, WrittenInto
<1>4. CASE ~(obj[o].ctx.used < Cap)
  <2>1. /\ obj[o].ctx.usr # 0
        /\ HandOver(obj[o].ctx.usr, obj[o].ctx.used, obj, "write")
    BY <1>4 DEF WriteByte
  <2>2. PICK r \in AfterCallback(o, Reset(obj[o])) : Put([self |-> o, rec |-> r])
    BY <1>4 DEF WriteByte
  <2>3. /\ got' \in Seq(Nat)
        /\ astray' \subseteq {"write", "flush", "destructor"}
        /\ ~moved => /\ astray' \subseteq {"destructor"}
                     /\ Len(got') = count
                     /\ \A i \in 1..Len(got') : got'[i] = i
    BY <1>1, <2>1, UnitHandedOver
  <2>4. /\ r \in Stream /\ r.state = "live" /\ r.kind = obj[o].kind
        /\ r.callback = obj[o].callback /\ r.ctx.usr = obj[o].ctx.usr
        /\ r.ctx.used = 0
        /\ Intact(obj[o]) => Settled(r)
    BY <1>1, AfterCallbackFacts
  <2>5. r.ctx.used <= Len(mem[r.ctx.buffer]) /\ Filled(r)
    <3>1. mem[r.ctx.buffer] \in Seq(Nat)
      BY <1>2, <2>4 DEF Stream
    <3> QED
      BY <1>2, <2>4, <3>1 DEF Filled
  <2>6. (~moved /\ r.ctx.usr = 1) =>
            Len(got') = count - r.ctx.used /\ \A i \in 1..Len(got') : got'[i] = i
    BY <1>2, <2>3, <2>4
  <2> QED
    BY <1>1, <2>2, <2>3, <2>4, <2>5, <2>6, WrittenInto
<1> QED
  BY <1>3, <1>4

LEMMA FlushStep ==
    ASSUME BufInductive, NEW o \in Objects, Flush(o)
    PROVE  BufInductive'
<1>1. /\ InUse(o) /\ obj[o].ctx.usr # 0
      /\ HandOver(obj[o].ctx.usr, obj[o].ctx.used, obj, "flush")
      /\ UNCHANGED <<refs, mem, count, moved>>
  BY DEF Flush
<1>2. PICK r \in AfterCallback(o, Reset(obj[o])) : obj' = [obj EXCEPT ![o] = r]
  BY DEF Flush
<1>3. count \in Nat /\ mem \in [Storage -> Seq(Nat)]
  BY DEF BufInductive, BufTypeOK
<1>4. /\ got' \in Seq(Nat)
      /\ astray' \subseteq {"write", "flush", "destructor"}
      /\ ~moved => /\ astray' \subseteq {"destructor"}
                   /\ Len(got') = count
                   /\ \A i \in 1..Len(got') : got'[i] = i
  BY <1>1, UnitHandedOver
<1>5. /\ r \in Stream /\ r.state = "live" /\ r.kind = obj[o].kind
      /\ r.callback = obj[o].callback /\ r.ctx.usr = obj[o].ctx.usr
      /\ r.ctx.used = 0
      /\ Intact(obj[o]) => Settled(r)
  BY <1>1, AfterCallbackFacts
<1>6. r.ctx.used <= Len(mem'[r.ctx.buffer]) /\ Filled(r)'
  <2>1. mem[r.ctx.buffer] \in Seq(Nat)
    BY <1>3, <1>5 DEF Stream
  <2> QED
    BY <1>1, <1>3, <1>5, <2>1 DEF Filled
<1>7. ~moved => HandedOver(r)'
  BY <1>1, <1>3, <1>4, <1>5 DEF HandedOver
<1> QED
  BY <1>1, <1>2, <1>3, <1>4, <1>5, <1>6, <1>7, Update

LEMMA SetBufferStep ==
    ASSUME BufInductive, NEW o \in Objects, NEW b \in refs, SetBuffer(o, b)
    PROVE  BufInductive'
<1>1. /\ InUse(o) /\ obj[o].kind = "shared"
      /\ obj[o].ctx.usr # 0 => obj[o].ctx.used = 0
      /\ obj' = [obj EXCEPT ![o] = Installed(obj[o], b)]
      /\ UNCHANGED <<refs, mem, count, got, astray, moved>>
  BY DEF SetBuffer
<1>2. /\ obj[o] \in Stream /\ obj[o].state = "live" /\ b \in Shared /\ b \in Storage
      /\ count \in Nat /\ got \in Seq(Nat) /\ mem \in [Storage -> Seq(Nat)]
      /\ astray \subseteq {"write", "flush", "destructor"}
      /\ ~moved => astray \subseteq {"destructor"} /\ HandedOver(obj[o])
  BY <1>1, OneInUse DEF BufInductive, BufTypeOK, InUse, Live, Unmoved, Storage
<1>3. PICK r \in Stream :
          /\ r = Installed(obj[o], b)
          /\ r.state = "live" /\ r.kind = obj[o].kind
          /\ r.callback = obj[o].callback /\ r.ctx.usr = obj[o].ctx.usr
          /\ r.ctx.used = 0 /\ r.ctx.buffer = b /\ Settled(r)
  <2>1. Installed(obj[o], b) \in Stream
    BY <1>2 DEF Installed, Stream
  <2> QED
    BY <1>1, <1>2, <2>1 DEF Installed, Stream, Settled
<1>4. r.ctx.used <= Len(mem'[r.ctx.buffer]) /\ Filled(r)'
  <2>1. mem[b] \in Seq(Nat)
    BY <1>2
  <2> QED
    BY <1>1, <1>2, <1>3, <2>1 DEF Filled
<1>5. ~moved => HandedOver(r)'
  BY <1>1, <1>2, <1>3 DEF HandedOver
<1> QED
  BY <1>1, <1>2, <1>3, <1>4, <1>5, Update

LEMMA ConstructStep ==
    ASSUME BufInductive, NEW kind, NEW b, NEW callback \in BOOLEAN,
           \/ kind = "shared" /\ b \in Shared
           \/ kind = "inline" /\ b = Array(1)
           \/ kind = "view" /\ b = "frame",
           Construct(kind, b, callback)
    PROVE  BufInductive'
<1> USE DEF Objects
<1>1. PICK r : r = [state |-> "live", kind |-> kind, buffer |-> b,
                   owner |-> IF kind = "shared" THEN b ELSE "none", callback |-> callback,
                   ctx |-> [buffer |-> b, used |-> 0, usr |-> IF callback THEN 1 ELSE 0]]
  OBVIOUS
<1>2. /\ obj[1].state = "unborn" /\ obj' = [obj EXCEPT ![1] = r]
      /\ UNCHANGED <<refs, mem, count, got, astray, moved>>
  BY <1>1 DEF Construct
<1>3. b \in Storage
  BY DEF Storage
<1>4. r \in Stream
  BY <1>1, <1>3 DEF Stream
<1>5. /\ r.state = "live" /\ r.callback = callback /\ r.ctx.used = 0 /\ r.ctx.buffer = b
      /\ r.ctx.usr = IF callback THEN 1 ELSE 0
      /\ Settled(r)
  BY <1>1 DEF Settled
<1>6. ~moved /\ Unmoved /\ BufTypeOK /\ count = 0 /\ got = <<>>
  BY <1>2 DEF BufInductive
<1>7. obj'[1] = r /\ obj'[2] = Unborn
  BY <1>2, <1>6 DEF BufTypeOK, Unmoved
<1>8. BufTypeOK'
  BY <1>2, <1>4, <1>6 DEF BufTypeOK
<1>9. Unmoved'
  BY <1>2, <1>5, <1>6, <1>7 DEF Unmoved, HandedOver, Live
<1>10. 0 <= Len(mem'[b]) /\ Filled(r)'
  <2>1. mem[b] \in Seq(Nat)
    BY <1>3, <1>6 DEF BufTypeOK
  <2> QED
    BY <1>2, <1>5, <1>6, <2>1 DEF Filled
<1>11. ASSUME NEW p \in Objects, InUse(p)' PROVE p = 1
  BY <1>7, <1>11 DEF InUse, Live, Unborn
<1> QED
  BY <1>2, <1>5, <1>6, <1>7, <1>8, <1>9, <1>10, <1>11
  DEF BufInductive, Settled, Filled, Array

LEMMA ReleaseStep ==
    ASSUME BufInductive, NEW b \in refs, Release(b)
    PROVE  BufInductive'
<1>1. refs' \subseteq refs /\ UNCHANGED <<obj, mem, count, got, astray, moved>>
  BY DEF Release
<1>2. BufTypeOK'
  BY <1>1 DEF BufInductive, BufTypeOK
<1> QED
  BY <1>1, <1>2 DEF BufInductive, Unmoved, HandedOver, Live, InUse, Intact, Settled, Filled, Array

LEMMA MoveStep ==
    ASSUME BufInductive, Move
    PROVE  BufInductive'
<1> USE DEF Objects
<1>1. /\ Live(1) /\ obj[2].state = "unborn"
      /\ obj' = [obj EXCEPT ![2] = obj[1], ![1].owner = "none", ![1].callback = FALSE]
      /\ mem' = [mem EXCEPT ![Array(2)] = mem[Array(1)]]
      /\ moved' = TRUE
      /\ UNCHANGED <<refs, count, got, astray>>
  BY DEF Move, MovedTo
<1>2. ~moved
  BY <1>1 DEF BufInductive
<1>3. /\ InUse(1) /\ Settled(obj[1]) /\ Filled(obj[1]) /\ BufTypeOK
      /\ obj[1].ctx.used <= Len(mem[obj[1].ctx.buffer])
  BY <1>1, <1>2 DEF BufInductive, InUse, Intact
<1>4. Array(1) \in Storage /\ Array(2) \in Storage
  BY DEF Storage
<1>5. obj'[1] = [obj[1] EXCEPT !.owner = "none", !.callback = FALSE] /\ obj'[2] = obj[1]
  BY <1>1, <1>3 DEF BufTypeOK
<1>6. obj[1] \in Stream /\ obj'[1] \in Stream /\ ~obj'[1].callback /\ obj'[1].state = "live"
  <2>1. obj[1] \in Stream /\ obj[1].state = "live"
    BY <1>1, <1>3 DEF BufTypeOK, Live
  <2> QED
    BY <1>5, <2>1 DEF Stream
<1>7. BufTypeOK'
  <2>1. obj' \in [Objects -> Stream]
    BY <1>1, <1>3, <1>5, <1>6 DEF BufTypeOK
  <2>2. mem' \in [Storage -> Seq(Nat)]
    BY <1>1, <1>3, <1>4 DEF BufTypeOK
  <2> QED
    BY <1>1, <1>3, <2>1, <2>2 DEF BufTypeOK
<1>8. obj[1].buffer # Array(2) /\ obj[1].ctx.buffer = obj[1].buffer
  <2>1. CASE obj[1].kind = "shared"
    <3>1. obj[1].buffer \in Shared \cup {"none"}
      BY <1>3, <1>6, <2>1 DEF Settled, Stream
    <3> QED
      BY <1>3, <3>1, CppBuffersAssumption DEF Array, Settled
  <2>2. CASE obj[1].kind # "shared"
    BY <1>3, <2>2 DEF Settled, Array
  <2> QED
    BY <2>1, <2>2
<1>9. obj[1].buffer \in Storage /\ mem'[obj[1].buffer] = mem[obj[1].buffer]
  BY <1>1, <1>3, <1>4, <1>6, <1>8 DEF BufTypeOK, Stream
<1>10. ASSUME NEW p \in Objects, InUse(p)' PROVE p = 2
  BY <1>1, <1>10 DEF InUse
<1>11. obj'[2].state # "unborn" /\ obj'[1].state # "unborn"
  BY <1>1, <1>5, <1>6 DEF Live
<1>12. PICK q : q = obj[1]
  OBVIOUS
<1>13. q.ctx.used <= Len(mem'[q.ctx.buffer]) /\ Settled(q) /\ Filled(q)'
  BY <1>1, <1>3, <1>8, <1>9, <1>12 DEF Filled
<1>14. /\ obj'[2].ctx.used <= Len(mem'[obj'[2].ctx.buffer])
       /\ Settled(obj[2])' /\ Filled(obj[2])'
  BY <1>5, <1>12, <1>13 DEF Settled, Filled, Array
<1> QED
  BY <1>1, <1>6, <1>7, <1>10, <1>11, <1>14 DEF BufInductive

\* The destructor's unit: the callback of a stream that was not moved gets all
\* that is left.
LEMMA LastUnitHandedOver ==
    ASSUME BufInductive, NEW o \in Objects, Destroy(o)
    PROVE  /\ got' \in Seq(Nat)
           /\ astray' \subseteq astray \cup {"destructor"}
           /\ (~moved /\ obj[o].ctx.usr = 1) => got' = Numbers(count)
<1> USE DEF Objects
<1> DEFINE dying == [obj EXCEPT ![o].owner = "none", ![o].state = "dying"]
           n == obj[o].ctx.used
           u == IF n > 0 THEN obj[o].ctx.usr ELSE 0
<1>1. Live(o) /\ HandOver(u, n, dying, "destructor")
  BY DEF Destroy
<1>2. BufTypeOK /\ n \in Nat /\ u \in {0, 1} /\ obj[o] \in Stream
  BY DEF BufInductive, BufTypeOK, Stream
<1>3. astray' \subseteq astray \cup {"destructor"}
  BY <1>1 DEF HandOver
<1>4. CASE moved
  <2>1. ~dying[1].callback
    BY <1>2, <1>4 DEF BufInductive, BufTypeOK, Stream
  <2>2. got' = got
    BY <1>1, <1>2, <2>1 DEF HandOver
  <2> QED
    BY <1>2, <1>3, <1>4, <2>2 DEF BufTypeOK
<1>5. CASE ~moved
  <2>1. o = 1 /\ Unmoved /\ InUse(1)
    BY <1>1, <1>5 DEF BufInductive, Unmoved, Live, Unborn, InUse
  <2>2. Settled(obj[1]) /\ Filled(obj[1]) /\ n <= Len(mem[obj[1].buffer])
    BY <1>5, <2>1 DEF BufInductive, Intact, Settled
  <2>3. /\ dying[1].callback = obj[1].callback /\ dying[1].buffer = obj[1].buffer
        /\ dying[1].state = "dying"
    BY <1>2, <2>1 DEF BufTypeOK, Stream
  <2>4. CASE obj[1].ctx.usr = 0
    <3>1. u = 0
      BY <2>1, <2>4
    <3>2. got' = got
      BY <1>1, <3>1 DEF HandOver
    <3> QED
      BY <1>2, <1>3, <2>1, <2>4, <3>2 DEF BufTypeOK
  <2>5. CASE obj[1].ctx.usr = 1
    <3> DEFINE t == mem[obj[1].buffer]
    <3>1. /\ t \in Seq(Nat) /\ got \in Seq(Nat) /\ count \in Nat /\ n \in Nat
          /\ n <= Len(t) /\ Len(got) = count - n /\ \A i \in 1..Len(got) : got[i] = i
      BY <1>2, <2>1, <2>2, <2>5 DEF BufTypeOK, Stream, Unmoved, HandedOver, InUse
    <3>2. \A i \in 1..n : t[i] = Len(got) + i
      BY <2>1, <2>2, <3>1 DEF Filled
    <3>3. got \o SubSeq(t, 1, n) \in Seq(Nat) /\ got \o SubSeq(t, 1, n) = Numbers(count)
      <4> HIDE DEF t, n
      <4>1. Len(got) + n = count
        BY <3>1
      <4> QED
        BY <3>1, <3>2, <4>1, UnitAppended
    <3>4. CASE n > 0
      <4>1. u = 1 /\ obj[1].callback
        BY <2>1, <2>5, <3>4 DEF Unmoved
      <4>2. got' = got \o SubSeq(t, 1, n)
        <5>1. HandOver(1, n, dying, "destructor")
          BY <1>1, <4>1
        <5>2. dying[1].callback /\ dying[1].state = "dying"
          BY <2>3, <4>1
        <5> HIDE DEF dying, n
        <5>3. got' = got \o Content(dying[1].buffer, n)
          BY <5>1, <5>2 DEF HandOver
        <5>4. dying[1].buffer = obj[1].buffer
          BY <2>3
        <5> QED
          BY <5>3, <5>4 DEF Content
      <4> QED
        BY <1>3, <3>3, <4>2
    <3>5. CASE n = 0
      <4>1. got' = got
        BY <1>1, <3>5 DEF HandOver
      <4>2. got = Numbers(count)
        BY <3>1, <3>5 DEF Numbers
      <4> QED
        BY <1>3, <3>1, <4>1, <4>2
    <3> QED
      BY <3>1, <3>4, <3>5
  <2> QED
    BY <1>2, <2>1, <2>4, <2>5 DEF Stream
<1> QED
  BY <1>4, <1>5

LEMMA DestroyStep ==
    ASSUME BufInductive, NEW o \in Objects, Destroy(o)
    PROVE  BufInductive'
<1> USE DEF Objects
<1>1. Live(o) /\ obj' = Dead(o) /\ UNCHANGED <<refs, mem, count, moved>>
  BY DEF Destroy
<1>2. got' \in Seq(Nat) /\ astray' \subseteq astray \cup {"destructor"}
  BY LastUnitHandedOver
<1>3. BufTypeOK
  BY DEF BufInductive
<1>4. /\ obj'[o].state = "dead" /\ ~obj'[o].callback /\ obj'[o].ctx.usr = 0
      /\ obj'[o] \in Stream
      /\ \A p \in Objects : p # o => obj'[p] = obj[p]
  BY <1>1, <1>3 DEF BufTypeOK, Dead, Unborn, Stream, Storage
<1>5. BufTypeOK'
  <2>1. obj' \in [Objects -> Stream]
    BY <1>1, <1>3, <1>4 DEF BufTypeOK, Dead
  <2> QED
    BY <1>1, <1>2, <1>3, <2>1 DEF BufTypeOK
<1>6. ASSUME moved PROVE ~obj'[1].callback /\ obj'[2].state # "unborn"
  BY <1>4, <1>6 DEF BufInductive
<1>7. ASSUME ~moved PROVE Unmoved'
  <2>1. o = 1 /\ Unmoved
    BY <1>1, <1>7 DEF BufInductive, Unmoved, Live, Unborn
  <2> QED
    BY <1>2, <1>4, <2>1 DEF Unmoved, Live
<1>8. obj'[1].state # "unborn" \/ (obj'[1] = obj[1] /\ got' = got)
  <2>1. CASE o = 1
    BY <1>4, <2>1
  <2>2. CASE o = 2
    <3>1. moved
      BY <1>1, <2>2 DEF BufInductive, Unmoved, Live, Unborn
    <3>2. obj[1].state # "unborn"
      BY <3>1 DEF BufInductive
    <3> QED
      BY <1>4, <2>2, <3>2
  <2> QED
    BY <2>1, <2>2
<1>9. ASSUME NEW p \in Objects, InUse(p)' PROVE p # o /\ InUse(p) /\ obj'[p] = obj[p]
  BY <1>1, <1>4, <1>9 DEF InUse, Live
<1> QED
  BY <1>1, <1>5, <1>6, <1>7, <1>8, <1>9
  DEF BufInductive, Intact, Settled, Filled, Array

-----------------------------------------------------------------------------
LEMMA InitInductive == Init => BufInductive
<1> SUFFICES ASSUME Init PROVE BufInductive
  OBVIOUS
<1>1. obj = [o \in Objects |-> Unborn] /\ Unborn \in Stream
  BY DEF Init, Unborn, Stream, Storage
<1>2. BufTypeOK
  <2>1. <<>> \in Seq(Nat)
    OBVIOUS
  <2>2. /\ refs \subseteq Shared /\ count = 0 /\ got = <<>> /\ astray = {} /\ moved = FALSE
        /\ mem = [b \in Storage |-> <<>>]
    BY DEF Init
  <2>3. mem \in [Storage -> Seq(Nat)]
    BY <2>1, <2>2
  <2>4. obj \in [Objects -> Stream]
    BY <1>1
  <2> QED
    BY <2>1, <2>2, <2>3, <2>4 DEF BufTypeOK
<1> QED
  BY <1>1, <1>2 DEF Init, BufInductive, Unmoved, Live, InUse, Unborn, Objects

LEMMA NextInductive == BufInductive /\ [Next]_vars => BufInductive'
<1> SUFFICES ASSUME BufInductive, [Next]_vars PROVE BufInductive'
  OBVIOUS
<1>1. CASE ConstructShared \/ ConstructInline \/ ConstructView
  BY <1>1, ConstructStep DEF ConstructShared, ConstructInline, ConstructView
<1>2. ASSUME NEW o \in Objects, WriteByte(o) \/ Flush(o) \/ Destroy(o)
      PROVE  BufInductive'
  BY <1>2, WriteByteStep, FlushStep, DestroyStep
<1>3. ASSUME NEW o \in Objects, NEW b \in refs, SetBuffer(o, b)
      PROVE  BufInductive'
  BY <1>3, SetBufferStep
<1>4. ASSUME NEW b \in refs, Release(b)
      PROVE  BufInductive'
  BY <1>4, ReleaseStep
<1>5. CASE Move
  BY <1>5, MoveStep
<1>6. CASE UNCHANGED vars
  <2>1. BufTypeOK'
    BY <1>6 DEF vars, BufInductive, BufTypeOK
  <2> QED
    BY <1>6, <2>1
    DEF vars, BufInductive, Unmoved, HandedOver, Live, InUse, Intact, Settled, Filled, Array
<1> QED
  BY <1>1, <1>2, <1>3, <1>4, <1>5, <1>6 DEF Next

\* The pointers of a stream agree, what they point to is alive, and its buffer
\* has the last bytes written, for every buffer, callback and owner.
THEOREM BufInductiveHolds == Spec => []BufInductive
BY InitInductive, NextInductive, PTL DEF Spec

\* A callback never gets bytes that are gone, except from the destructor, if
\* the stream is not moved.  (setBuffer, onFlushCallback)
THEOREM UnitsLive == Spec => []UnitsExist
<1>1. BufInductive => UnitsExist
  BY DEF BufInductive, Unmoved, UnitsExist
<1> QED
  BY <1>1, BufInductiveHolds, PTL

\* Without a callback data() is what was written last, also after a move,
\* except of an OStreamInline.  (data, bytesUsed)
THEOREM DataKept == Spec => []DataIsWhatWasWritten
<1>1. BufInductive => DataIsWhatWasWritten
  <2> SUFFICES ASSUME BufInductive, NEW o \in Objects, InUse(o), obj[o].ctx.usr = 0,
                      ~(moved /\ obj[o].kind = "inline")
               PROVE  /\ obj[o].ctx.used <= count
                      /\ Content(obj[o].buffer, obj[o].ctx.used)
                            = [i \in 1..obj[o].ctx.used |-> count - obj[o].ctx.used + i]
                      /\ Exists(obj[o].buffer, obj)
    BY DEF DataIsWhatWasWritten
  <2>1. Settled(obj[o]) /\ Filled(obj[o]) /\ obj[o].ctx.used <= Len(mem[obj[o].ctx.buffer])
    BY DEF BufInductive, Intact
  <2>2. Exists(obj[o].buffer, obj)
    <3>1. obj[o].state = "live"
      BY DEF InUse, Live
    <3>2. CASE obj[o].kind = "shared"
      BY <2>1, <3>1, <3>2 DEF Exists, Settled
    <3>3. CASE obj[o].kind = "inline"
      <4>1. o = 1 /\ obj[o].buffer = Array(o)
        BY <2>1, <3>3, OneInUse DEF Settled
      <4> QED
        BY <3>1, <4>1 DEF Exists
    <3>4. CASE obj[o].kind = "view"
      BY <2>1, <3>4 DEF Exists, Settled
    <3> QED
      BY <2>1, <3>2, <3>3, <3>4 DEF Settled
  <2> DEFINE t == mem[obj[o].buffer]
             n == obj[o].ctx.used
  <2>3. t \in Seq(Nat) /\ n \in Nat /\ n <= Len(t) /\ count \in Nat
    BY <2>1 DEF BufInductive, BufTypeOK, Stream, Settled
  <2>4. n <= count /\ \A i \in 1..n : t[i] = count - n + i
    BY <2>1 DEF Filled
  <2> HIDE DEF t, n
  <2>5. SubSeq(t, 1, n) = [i \in 1..n |-> count - n + i]
    BY <2>3, <2>4
  <2> QED
    BY <2>2, <2>4, <2>5 DEF Content, t, n
<1> QED
  BY <1>1, BufInductiveHolds, PTL

\* What a step before a move makes of the stream: it ends in its destructor,
\* or its encoder goes on calling back whom it called.
LEMMA StepOfStream ==
    ASSUME BufInductive, ~moved', ~moved, Live(1), Next
    PROVE  \/ Live(1)' /\ obj'[1].ctx.usr = obj[1].ctx.usr
           \/ Destroy(1) /\ ~Live(1)'
<1> USE DEF Objects
<1>1. obj \in [Objects -> Stream] /\ obj[1] \in Stream /\ obj[1].state = "live" /\ InUse(1)
      /\ Unmoved /\ ~Live(2)
  BY DEF BufInductive, BufTypeOK, Live, InUse, Unmoved, Unborn
<1>2. ~ConstructShared /\ ~ConstructInline /\ ~ConstructView
  BY <1>1 DEF ConstructShared, ConstructInline, ConstructView, Construct
<1>3. ~Move
  BY DEF Move
<1>4. ASSUME NEW r \in AfterCallback(1, Reset(obj[1]))
      PROVE  r \in Stream /\ r.state = "live" /\ r.ctx.usr = obj[1].ctx.usr
  BY <1>1, AfterCallbackFacts
<1>5. ASSUME NEW r \in Stream, r.state = "live", r.ctx.usr = obj[1].ctx.usr,
             Put([self |-> 1, rec |-> r])
      PROVE  Live(1)' /\ obj'[1].ctx.usr = obj[1].ctx.usr
  BY <1>1, <1>5 DEF Put, Live, Stream
<1>6. ASSUME NEW o \in Objects, WriteByte(o)
      PROVE  Live(1)' /\ obj'[1].ctx.usr = obj[1].ctx.usr
  <2>1. o = 1
    BY <1>1, <1>6 DEF WriteByte, InUse
  <2> QED
    BY <1>1, <1>4, <1>5, <1>6, <2>1 DEF WriteByte
<1>7. ASSUME NEW o \in Objects, Flush(o)
      PROVE  Live(1)' /\ obj'[1].ctx.usr = obj[1].ctx.usr
  <2>1. o = 1
    BY <1>1, <1>7 DEF Flush, InUse
  <2>2. PICK r \in AfterCallback(1, Reset(obj[1])) : obj' = [obj EXCEPT ![1] = r]
    BY <1>7, <2>1 DEF Flush
  <2> QED
    BY <1>1, <1>4, <2>2 DEF Live
<1>8. ASSUME NEW o \in Objects, NEW b \in refs, SetBuffer(o, b)
      PROVE  Live(1)' /\ obj'[1].ctx.usr = obj[1].ctx.usr
  <2>1. o = 1
    BY <1>1, <1>8 DEF SetBuffer, InUse
  <2>2. obj' = [obj EXCEPT ![1] = Installed(obj[1], b)]
    BY <1>8, <2>1 DEF SetBuffer
  <2> QED
    BY <1>1, <2>2 DEF Live, Installed, Stream
<1>9. ASSUME NEW b \in refs, Release(b)
      PROVE  Live(1)' /\ obj'[1].ctx.usr = obj[1].ctx.usr
  BY <1>9 DEF Release, Live
<1>10. ASSUME NEW o \in Objects, Destroy(o) PROVE Destroy(1) /\ ~Live(1)'
  <2>1. o = 1
    BY <1>1, <1>10 DEF Destroy
  <2>2. obj' = [obj EXCEPT ![1] = Unborn, ![1].state = "dead"]
    BY <1>10, <2>1 DEF Destroy, Dead
  <2> QED
    BY <1>1, <1>10, <2>1, <2>2 DEF Live, Unborn
<1> QED
  BY <1>2, <1>3, <1>6, <1>7, <1>8, <1>9, <1>10 DEF Next

\* With a callback every byte is handed over once and in order, or is in the
\* buffer, if the stream is not moved.  (onFlushCallback, setBuffer,
\* ~OStreamImpl)
THEOREM HandedOverOnce == Spec => EveryByteOnce
<1>1. BufInductive /\ BufInductive' /\ [Next]_vars =>
          [(HadCallback /\ ~moved') => Accounted' = Numbers(count')]_vars
  <2> SUFFICES ASSUME BufInductive, BufInductive', Next, HadCallback, ~moved'
               PROVE  Accounted' = Numbers(count')
    BY DEF vars
  <2>1. ~moved
    BY DEF Next, ConstructShared, ConstructInline, ConstructView, Construct, WriteByte, Flush,
       Destroy, SetBuffer, Release, Move
  <2>2. Unmoved /\ Unmoved' /\ obj[1].ctx.usr = 1 /\ Live(1)
    BY <2>1 DEF BufInductive, BufTypeOK, Stream, Unmoved, HadCallback, Objects, Unborn
  <2>3. ASSUME NEW p \in Objects, InUse(p)' PROVE p = 1
    BY <2>2, <2>3 DEF Unmoved, InUse, Live, Unborn, Objects
  <2>4. CASE Live(1)'
    <3>1. InUse(1)'
      BY <2>4 DEF InUse
    <3>2. obj'[1].ctx.usr = 1
      BY <2>1, <2>2, <2>4, StepOfStream
    <3>3. Settled(obj[1])' /\ Filled(obj[1])' /\ HandedOver(obj[1])'
          /\ obj'[1].ctx.used <= Len(mem'[obj'[1].ctx.buffer])
      BY <2>2, <2>4, <3>1 DEF BufInductive, Unmoved, Intact, Objects
    <3>4. Accounted' = got' \o Content(obj[1].ctx.buffer, obj[1].ctx.used)'
      <4>1. (CHOOSE p \in Objects : InUse(p)') = 1
        BY <2>3, <3>1 DEF Objects
      <4> QED
        BY <3>1, <4>1 DEF Accounted, Objects
    <3> DEFINE t == mem'[obj'[1].buffer]
               n == obj'[1].ctx.used
    <3>5. /\ obj'[1].ctx.buffer = obj'[1].buffer
          /\ n <= count' /\ n <= Len(t) /\ \A i \in 1..n : t[i] = count' - n + i
          /\ Len(got') = count' - n /\ \A i \in 1..Len(got') : got'[i] = i
      BY <3>2, <3>3 DEF Settled, Filled, HandedOver
    <3>6. t \in Seq(Nat) /\ n \in Nat /\ got' \in Seq(Nat) /\ count' \in Nat
      BY DEF BufInductive, BufTypeOK, Stream, Objects
    <3>7. Accounted' = got' \o SubSeq(t, 1, n)
      BY <3>4, <3>5 DEF Content
    <3> HIDE DEF t, n
    <3>8. Len(got') + n = count' /\ count' - n = Len(got')
      <4>1. Len(got') = count' - n
        BY <3>5
      <4>2. n \in Nat /\ count' \in Nat /\ Len(got') \in Nat
        BY <3>6
      <4> DEFINE k == Len(got')
                 c == count'
      <4>3. k = c - n /\ n \in Nat /\ c \in Nat /\ k \in Nat
        BY <4>1, <4>2, Zenon
      <4> HIDE DEF k, c
      <4>4. k + n = c /\ c - n = k
        BY <4>3
      <4> QED
        BY <4>4, Zenon DEF k, c
    <3>9. \A i \in 1..n : t[i] = Len(got') + i
      BY <3>5, <3>8
    <3> QED
      BY <3>5, <3>6, <3>7, <3>8, <3>9, UnitAppended
  <2>5. CASE ~Live(1)'
    <3>1. Destroy(1)
      BY <2>1, <2>2, <2>5, StepOfStream
    <3>2. got' = Numbers(count) /\ count' = count
      BY <2>1, <2>2, <3>1, LastUnitHandedOver DEF Destroy, Objects
    <3>3. Accounted' = got'
      BY <2>3, <2>5 DEF Accounted, InUse
    <3>4. Numbers(count') = Numbers(count)
      BY <3>2
    <3> QED
      BY <3>2, <3>3, <3>4
  <2> QED
    BY <2>4, <2>5
<1> QED
  BY <1>1, BufInductiveHolds, PTL DEF Spec, EveryByteOnce
=============================================================================
