----------------------------- MODULE CppBuffers -----------------------------
(***************************************************************************)
(* Who owns the bytes of a C++ output stream: OStream, OStreamInline and   *)
(* OStreamView of src/src/include/sofab/sofab.hpp, over the C encoder that *)
(* keeps a pointer of its own to the buffer and one to the object whose    *)
(* callback it is to run.                                                  *)
(*                                                                         *)
(* The callback gets its bytes through buffer_, not through the pointer    *)
(* the C encoder passes it, may call setBuffer() while it runs, and runs   *)
(* once more out of the destructor.  The bytes written are numbered, what  *)
(* the encoder does with them is the business of module OStream.           *)
(***************************************************************************)
EXTENDS Naturals, Sequences

CONSTANTS
    Shared,   \* the buffers under a shared_ptr
    Cap,      \* the length of every buffer
    MaxBytes  \* bound: bytes written

ASSUME CppBuffersAssumption ==
    /\ Shared \cap {"array1", "array2", "frame", "none"} = {}
    /\ Cap \in Nat \ {0}
    /\ MaxBytes \in Nat

VARIABLES
    obj,     \* the stream (1) and the one it may be moved to (2)
    refs,    \* the shared buffers the application holds a reference to
    mem,     \* the contents of the buffers
    count,   \* bytes written
    got,     \* what the callback was handed, in order
    astray,  \* history: when a unit was handed over whose buffer was gone
    moved    \* history: the stream was moved

vars == <<obj, refs, mem, count, got, astray, moved>>

Objects == {1, 2}

\* Each object has room for the array of OStreamInline; a view's frame and
\* its lifetime are the caller's.
Array(o) == IF o = 1 THEN "array1" ELSE "array2"
Storage == Shared \cup {Array(o) : o \in Objects} \cup {"frame"}

\* usr is the object the C encoder calls back, 0 without a callback.
Unborn == [state |-> "unborn", kind |-> "none", buffer |-> "frame", owner |-> "none",
           callback |-> FALSE, ctx |-> [buffer |-> "frame", used |-> 0, usr |-> 0]]

Live(o) == obj[o].state = "live"

\* A buffer exists as long as somebody refers to it.
Exists(b, objects) ==
    \/ b = "frame"
    \/ b \in refs
    \/ \E o \in Objects :
          objects[o].state \in {"live", "dying"} /\ b \in {objects[o].owner, Array(o)}

Content(b, n) == SubSeq(mem[b], 1, n)

-----------------------------------------------------------------------------
(* onFlushCallback: the unit of the object the encoder calls back.         *)

\* The callback of u runs, if it has one, on the n bytes its buffer_ has: a
\* unit is astray when the object or the bytes are gone by then.
HandOver(u, n, objects, when) ==
    LET alive  == u # 0 /\ objects[u].state \in {"live", "dying"}
        called == alive /\ objects[u].callback
        gone   == IF called THEN ~Exists(objects[u].buffer, objects) ELSE u # 0 /\ ~alive
    IN  /\ got' = IF called THEN got \o Content(objects[u].buffer, n) ELSE got
        /\ astray' = IF gone THEN astray \cup {when} ELSE astray

\* A slip: the new buffer is used, the old one still owned.
InstalledUnowned(r, b) ==
    [r EXCEPT !.buffer = b, !.ctx.buffer = b, !.ctx.used = 0]

\* setBuffer(): the three pointers change together.
Installed(r, b) ==
    [r EXCEPT !.owner = b, !.buffer = b, !.ctx.buffer = b, !.ctx.used = 0]

\* What the callback leaves installed: only OStream has a setBuffer().
AfterCallback(o, r) ==
    {r} \cup (IF r.kind = "shared" /\ obj[o].ctx.usr = o /\ r.callback
              THEN {Installed(r, b) : b \in refs} ELSE {})

Reset(r) == [r EXCEPT !.ctx.used = 0]

Put(r) ==
    /\ obj' = [obj EXCEPT ![r.self] = [r.rec EXCEPT !.ctx.used = @ + 1]]
    /\ mem' = [mem EXCEPT ![r.rec.ctx.buffer] =
                  Append(Content(r.rec.ctx.buffer, r.rec.ctx.used), count + 1)]
    /\ count' = count + 1

-----------------------------------------------------------------------------
(* The constructors.                                                       *)

Construct(kind, b, callback) ==
    /\ obj[1].state = "unborn"
    /\ obj' = [obj EXCEPT ![1] =
                  [state |-> "live", kind |-> kind, buffer |-> b,
                   owner |-> IF kind = "shared" THEN b ELSE "none", callback |-> callback,
                   ctx |-> [buffer |-> b, used |-> 0, usr |-> IF callback THEN 1 ELSE 0]]]
    /\ UNCHANGED <<refs, mem, count, got, astray, moved>>

\* OStream(buflen) allocates its buffer, the others are given one.
ConstructShared ==
    \E b \in Shared : \E callback \in BOOLEAN :
        /\ b \notin refs => ~callback
        /\ Construct("shared", b, callback)

ConstructInline == \E callback \in BOOLEAN : Construct("inline", Array(1), callback)

ConstructView == \E callback \in BOOLEAN : Construct("view", "frame", callback)

-----------------------------------------------------------------------------
(* Operations on the stream in use: the one moved to, if there is one.     *)

InUse(o) == Live(o) /\ (moved => o = 2)

\* A byte finds room, or the encoder hands the buffer over first.  Nothing is
\* written any more once the buffer is gone, as after the end of an
\* OStreamInline that was moved from.
WriteByte(o) ==
    /\ InUse(o)
    /\ Exists(obj[o].ctx.buffer, obj)
    /\ count < MaxBytes
    /\ IF obj[o].ctx.used < Cap
       THEN Put([self |-> o, rec |-> obj[o]]) /\ UNCHANGED <<got, astray>>
       ELSE /\ obj[o].ctx.usr # 0
            /\ HandOver(obj[o].ctx.usr, obj[o].ctx.used, obj, "write")
            /\ \E r \in AfterCallback(o, Reset(obj[o])) : Put([self |-> o, rec |-> r])
    /\ UNCHANGED <<refs, moved>>

Flush(o) ==
    /\ InUse(o)
    /\ obj[o].ctx.used > 0
    /\ obj[o].ctx.usr # 0
    /\ HandOver(obj[o].ctx.usr, obj[o].ctx.used, obj, "flush")
    /\ \E r \in AfterCallback(o, Reset(obj[o])) : obj' = [obj EXCEPT ![o] = r]
    /\ UNCHANGED <<refs, mem, count, moved>>

\* setBuffer() between two writes, with nothing left to flush; without a
\* callback the caller has taken the bytes.
SetBuffer(o, b) ==
    /\ InUse(o)
    /\ obj[o].kind = "shared"
    /\ obj[o].ctx.usr # 0 => obj[o].ctx.used = 0
    /\ obj' = [obj EXCEPT ![o] = Installed(@, b)]
    /\ UNCHANGED <<refs, mem, count, got, astray, moved>>

\* The application drops its reference.
Release(b) ==
    /\ refs' = refs \ {b}
    /\ UNCHANGED <<obj, mem, count, got, astray, moved>>

\* A slip: the new object refers to the buffer, the old one owns it.
MovedUnowned(r) == [r EXCEPT !.owner = "none"]

MovedTo(r) == r

\* The defaulted move constructor: member by member.  The shared_ptr and the
\* function leave the old object, the C context and buffer_ are copied, and
\* an inline array is copied while they still point to the old one.
Move ==
    /\ Live(1)
    /\ obj[2].state = "unborn"
    /\ obj' = [obj EXCEPT ![2] = MovedTo(obj[1]), ![1].owner = "none", ![1].callback = FALSE]
    /\ mem' = [mem EXCEPT ![Array(2)] = mem[Array(1)]]
    /\ moved' = TRUE
    /\ UNCHANGED <<refs, count, got, astray>>

Dead(o) == [obj EXCEPT ![o] = Unborn, ![o].state = "dead"]

\* A slip: no flush.
DestroySilently(o) ==
    /\ Live(o)
    /\ obj' = Dead(o)
    /\ UNCHANGED <<refs, mem, count, got, astray, moved>>

\* The members of the derived class go first, bufferOwner_ among them; then
\* ~OStreamImpl flushes what is in the buffer.
Destroy(o) ==
    /\ Live(o)
    /\ LET dying == [obj EXCEPT ![o].owner = "none", ![o].state = "dying"]
       IN  HandOver(IF obj[o].ctx.used > 0 THEN obj[o].ctx.usr ELSE 0,
                    obj[o].ctx.used, dying, "destructor")
    /\ obj' = Dead(o)
    /\ UNCHANGED <<refs, mem, count, moved>>

Init ==
    /\ obj = [o \in Objects |-> Unborn]
    /\ refs \in SUBSET Shared
    /\ mem = [b \in Storage |-> <<>>]
    /\ count = 0
    /\ got = <<>>
    /\ astray = {}
    /\ moved = FALSE

Next ==
    \/ ConstructShared
    \/ ConstructInline
    \/ ConstructView
    \/ \E o \in Objects : WriteByte(o) \/ Flush(o) \/ Destroy(o)
    \/ \E o \in Objects, b \in refs : SetBuffer(o, b)
    \/ \E b \in refs : Release(b)
    \/ Move

Spec == Init /\ [][Next]_vars

-----------------------------------------------------------------------------
Numbers(n) == [i \in 1..n |-> i]

\* The bytes handed over and those still in the buffer.
Accounted ==
    IF \E o \in Objects : InUse(o)
    THEN LET o == CHOOSE p \in Objects : InUse(p)
         IN  got \o Content(obj[o].ctx.buffer, obj[o].ctx.used)
    ELSE got

HadCallback == \E o \in Objects : obj[o].ctx.usr # 0

\* With a callback every byte written is handed over once and in order, or is
\* still in the buffer -- whichever buffer the callback installs, and up to
\* the destructor's last unit -- if the stream is not moved.
\* (onFlushCallback, setBuffer, ~OStreamImpl)
EveryByteOnce ==
    [][ (HadCallback /\ ~moved') => Accounted' = Numbers(count') ]_vars

\* The bytes a callback is handed are in a buffer that exists, with one
\* exception: an OStream that alone owns its buffer has released it when its
\* destructor flushes.  A stream that was moved is left out: its encoder still
\* calls the object it was moved from.  (setBuffer, ~OStreamImpl)
UnitsExist == ~moved => astray \subseteq {"destructor"}

\* "Destructor; flushes any buffered bytes." (comment on ~OStreamImpl,
\* src/src/include/sofab/sofab.hpp): the last unit is handed over like any other.
LastUnitExists == astray = {}

\* Without a callback, data() and bytesUsed() are what was written last, also
\* of a stream that was moved; of an OStreamInline only until it is.
\* (data, bytesUsed, the move constructor)
DataIsWhatWasWritten ==
    \A o \in Objects :
        (InUse(o) /\ obj[o].ctx.usr = 0 /\ ~(moved /\ obj[o].kind = "inline")) =>
            LET n == obj[o].ctx.used IN
            /\ n <= count
            /\ Content(obj[o].buffer, n) = [i \in 1..n |-> count - n + i]
            /\ Exists(obj[o].buffer, obj)

-----------------------------------------------------------------------------
(* What makes the properties above inductive.                              *)

Stream ==
    [state : {"unborn", "live", "dead"}, kind : {"none", "shared", "inline", "view"},
     buffer : Storage, owner : Shared \cup {"none"}, callback : BOOLEAN,
     ctx : [buffer : Storage, used : Nat, usr : {0, 1}]]

BufTypeOK ==
    /\ obj \in [Objects -> Stream]
    /\ refs \subseteq Shared
    /\ mem \in [Storage -> Seq(Nat)]
    /\ count \in Nat
    /\ got \in Seq(Nat)
    /\ astray \subseteq {"write", "flush", "destructor"}
    /\ moved \in BOOLEAN

\* The pointers of a stream agree, and what they point to is kept alive.
Settled(r) ==
    /\ r.ctx.buffer = r.buffer
    /\ \/ r.kind = "shared" /\ r.owner = r.buffer
       \/ r.kind = "inline" /\ r.buffer = Array(1)
       \/ r.kind = "view" /\ r.buffer = "frame"

\* Its buffer has the bytes written last.
Filled(r) ==
    /\ r.ctx.used <= count
    /\ \A i \in 1..r.ctx.used : mem[r.buffer][i] = count - r.ctx.used + i

\* What a move leaves intact: a stream without a callback, except an
\* OStreamInline.
Intact(r) == ~moved \/ (r.ctx.usr = 0 /\ r.kind # "inline")

\* The callback has had all bytes but those in the buffer.
HandedOver(r) ==
    r.ctx.usr = 1 =>
        /\ Len(got) = count - r.ctx.used
        /\ \A i \in 1..Len(got) : got[i] = i

\* Before a move there is one object, which the encoder calls back if it has
\* a callback.
Unmoved ==
    /\ obj[2] = Unborn
    /\ obj[1].callback <=> obj[1].ctx.usr = 1
    /\ Live(1) => HandedOver(obj[1])
    /\ ~Live(1) => obj[1].ctx.usr = 0
    /\ astray \subseteq {"destructor"}

BufInductive ==
    /\ BufTypeOK
    /\ IF moved THEN ~obj[1].callback /\ obj[2].state # "unborn" ELSE Unmoved
    /\ obj[1].state = "unborn" => ~moved /\ count = 0 /\ got = <<>>
    /\ \A o \in Objects : InUse(o) =>
          /\ obj[o].ctx.used <= Len(mem[obj[o].ctx.buffer])
          /\ Intact(obj[o]) => Settled(obj[o]) /\ Filled(obj[o])
=============================================================================
