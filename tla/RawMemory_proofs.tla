-------------------------- MODULE RawMemory_proofs --------------------------
(***************************************************************************)
(* Proofs about RawMemory, for every set of objects, addresses and bytes   *)
(* and every size: each block has one owner and is as large as that thinks,*)
(* and objects behave as the strings of ByteStrings, whenever the memory   *)
(* runs out.                                                               *)
(***************************************************************************)
EXTENDS RawMemory, TLAPS

HeapOK(h) == /\ DOMAIN h \subseteq Pointers
             /\ \A p \in DOMAIN h : h[p] \in Seq(Bytes)

(* The members of an object and its block agree.                           *)
Fits(m, h) ==
  /\ m \in [data_ : DOMAIN h \cup {NULL}, capacity_ : Nat, size_ : Nat]
  /\ m.size_ <= m.capacity_
  /\ m.data_ = NULL => m.capacity_ = 0
  /\ m.data_ # NULL => m.capacity_ = Len(h[m.data_])

(* No block leaks, and none is shared.                                     *)
Owned(mem, h) ==
  /\ \A p \in DOMAIN h : \E o \in Objects : mem[o] # Absent /\ mem[o].data_ = p
  /\ \A o, other \in Objects :
        (o # other /\ mem[o] # Absent /\ mem[other] # Absent /\ mem[o].data_ # NULL)
           => mem[o].data_ # mem[other].data_

MemoryInv(mem, h) ==
  /\ mem = [o \in Objects |-> mem[o]]
  /\ HeapOK(h)
  /\ \A o \in Objects : mem[o] # Absent => Fits(mem[o], h)
  /\ Owned(mem, h)

(* An object whose pointer was old has the members m now, the heap was h   *)
(* and is h2: its block is where it was, or a new one, and the blocks of   *)
(* others are as they were.                                                *)
Relocated(old, h, m, h2) ==
  /\ HeapOK(h2)
  /\ Fits(m, h2)
  /\ m.data_ \in (Pointers \ DOMAIN h) \cup {old, NULL}
  /\ DOMAIN h2 = (DOMAIN h \ {old}) \cup ({m.data_} \ {NULL})
  /\ \A p \in DOMAIN h \ {old} : h2[p] = h[p]

DataOf(m) == IF m = Absent THEN NULL ELSE m.data_

-----------------------------------------------------------------------------
(* Bytes and blocks.                                                       *)

(* n bytes are a sequence of that length.                                  *)
LEMMA BytesAreASequence ==
  ASSUME NEW n \in Nat, NEW bytes \in [1 .. n -> Bytes]
  PROVE  bytes \in Seq(Bytes) /\ Len(bytes) = n
OBVIOUS

(* A record of members is not the mark of an object that does not exist.   *)
LEMMA MembersExist ==
  ASSUME NEW m, NEW h, HeapOK(h), Fits(m, h)
  PROVE  m # Absent
BY RawMemoryAssumption DEF HeapOK, Fits

(* An object that has got new members, and no other's block, leaves the    *)
(* invariant as it was.                                                    *)
LEMMA RelocationIsSound ==
  ASSUME NEW mem, NEW h, MemoryInv(mem, h), NEW o \in Objects, NEW m, NEW h2,
         Relocated(DataOf(mem[o]), h, m, h2)
  PROVE  MemoryInv([mem EXCEPT ![o] = m], h2)
<1> DEFINE old  == DataOf(mem[o])
           mem2 == [mem EXCEPT ![o] = m]
<1>1. m # Absent
  BY MembersExist DEF Relocated
<1>2. /\ mem2 = [q \in Objects |-> mem2[q]]
      /\ mem2[o] = m
      /\ \A q \in Objects \ {o} : mem2[q] = mem[q]
  BY DEF MemoryInv
<1>3. ASSUME NEW q \in Objects, q # o, mem[q] # Absent
      PROVE  /\ Fits(mem[q], h2)
             /\ mem[q].data_ # NULL => mem[q].data_ # m.data_ /\ mem[q].data_ # old
  <2>1. Fits(mem[q], h)
    BY <1>3 DEF MemoryInv
  <2>2. CASE mem[q].data_ = NULL
    BY <2>1, <2>2 DEF Fits
  <2>3. CASE mem[q].data_ # NULL
    <3>1. mem[q].data_ \in DOMAIN h
      BY <2>1, <2>3 DEF Fits
    <3>2. mem[q].data_ # old
      BY <1>3, <2>3 DEF MemoryInv, Owned, DataOf
    <3>3. mem[q].data_ \in DOMAIN h2 /\ Len(h2[mem[q].data_]) = Len(h[mem[q].data_])
      BY <3>1, <3>2 DEF Relocated
    <3>4. QED BY <2>1, <2>3, <3>1, <3>2, <3>3 DEF Fits, Relocated
  <2>4. QED BY <2>2, <2>3
<1>4. \A q \in Objects : mem2[q] # Absent => Fits(mem2[q], h2)
  BY <1>2, <1>3 DEF Relocated
<1>5. \A p \in DOMAIN h2 : \E q \in Objects : mem2[q] # Absent /\ mem2[q].data_ = p
  <2> SUFFICES ASSUME NEW p \in DOMAIN h2
               PROVE  \E q \in Objects : mem2[q] # Absent /\ mem2[q].data_ = p
    OBVIOUS
  <2>1. CASE p = m.data_
    BY <1>1, <1>2, <2>1
  <2>2. CASE p # m.data_
    <3>1. p \in DOMAIN h /\ p # old
      BY <2>2 DEF Relocated
    <3>2. PICK q \in Objects : mem[q] # Absent /\ mem[q].data_ = p
      BY <3>1 DEF MemoryInv, Owned
    <3>3. q # o
      BY <3>1, <3>2 DEF DataOf
    <3>4. QED BY <1>2, <3>2, <3>3
  <2>3. QED BY <2>1, <2>2
<1>6. \A q, other \in Objects :
         (q # other /\ mem2[q] # Absent /\ mem2[other] # Absent /\ mem2[q].data_ # NULL)
            => mem2[q].data_ # mem2[other].data_
  BY <1>2, <1>3 DEF MemoryInv, Owned
<1>7. QED BY <1>2, <1>4, <1>5, <1>6 DEF MemoryInv, Owned, Relocated

(* What malloc gives: nothing, or a block of its own.                      *)
LEMMA MallocIsSound ==
  ASSUME NEW h, HeapOK(h), NEW size \in Nat, NEW used \in Nat, used <= size,
         NEW r \in malloc(h, size)
  PROVE  /\ r.p = NULL => r.heap = h
         /\ ~ ThrowsBadAlloc(size, r.p) => Relocated(NULL, h, Members(r.p, size, used), r.heap)
<1>1. CASE r = OutOfMemory(h)
  <2>1. r.p = NULL /\ r.heap = h
    BY <1>1 DEF OutOfMemory
  <2>2. CASE size = 0
    <3>1. Fits(Members(NULL, size, used), h)
      BY <2>2 DEF Fits, Members
    <3>2. QED BY <2>1, <3>1, RawMemoryAssumption DEF Relocated, Members, HeapOK
  <2>3. QED BY <2>1, <2>2 DEF ThrowsBadAlloc
<1>2. ASSUME NEW p \in Pointers \ DOMAIN h, NEW bytes \in [1 .. size -> Bytes],
             r = [p |-> p, heap |-> WithBlock(h, p, bytes)]
      PROVE  r.p # NULL /\ Relocated(NULL, h, Members(r.p, size, used), r.heap)
  <2> DEFINE h2 == WithBlock(h, p, bytes)
  <2>1. bytes \in Seq(Bytes) /\ Len(bytes) = size
    BY BytesAreASequence
  <2>2. /\ DOMAIN h2 = DOMAIN h \cup {p}
        /\ h2[p] = bytes
        /\ \A q \in DOMAIN h : h2[q] = h[q]
    BY DEF WithBlock
  <2>3. HeapOK(h2)
    BY <2>1, <2>2 DEF HeapOK
  <2>4. p # NULL
    BY RawMemoryAssumption
  <2>5. Fits(Members(p, size, used), h2)
    BY <2>1, <2>2, <2>4 DEF Fits, Members
  <2>6. QED BY <1>2, <2>2, <2>3, <2>4, <2>5, RawMemoryAssumption DEF Relocated, Members, HeapOK
<1>3. QED BY <1>1, <1>2 DEF malloc

(* reserve throws and changes nothing, or there is room now.               *)
LEMMA ReserveIsSound ==
  ASSUME NEW h, HeapOK(h), NEW m, Fits(m, h), NEW size \in Nat, NEW r \in reserve(m, h, size)
  PROVE  /\ Relocated(m.data_, h, r.members, r.heap)
         /\ r.threw \in BOOLEAN
         /\ r.threw => r.members = m /\ r.heap = h
         /\ ~ r.threw => size <= r.members.capacity_
<1>0. Relocated(m.data_, h, m, h)
  BY RawMemoryAssumption DEF Relocated, Fits, HeapOK
<1>1. CASE size <= m.capacity_
  <2>1. r = Outcome(m, h, FALSE)
    BY <1>1 DEF reserve
  <2>2. QED BY <1>0, <1>1, <2>1 DEF Outcome
<1>2. CASE ~ (size <= m.capacity_)
  <2>1. PICK s \in realloc(h, m.data_, size) :
           r = IF s.p = NULL THEN Outcome(m, s.heap, TRUE)
               ELSE Outcome(Members(s.p, size, m.size_), s.heap, FALSE)
    BY <1>2 DEF reserve
  <2>2. CASE s = OutOfMemory(h)
    BY <1>0, <2>1, <2>2 DEF OutOfMemory, Outcome
  <2>3. ASSUME NEW p \in (Pointers \ DOMAIN h) \cup ({m.data_} \ {NULL}),
               NEW bytes \in Extensions(h, m.data_, size),
               s = [p |-> p, heap |-> WithBlock(free(h, m.data_), p, bytes)]
        PROVE  /\ Relocated(m.data_, h, r.members, r.heap)
               /\ ~ r.threw
               /\ size <= r.members.capacity_
    <3>1. bytes \in Seq(Bytes) /\ Len(bytes) = size
      BY BytesAreASequence DEF Extensions
    <3>2. m.data_ \in DOMAIN h \cup {NULL} /\ m.size_ \in Nat /\ m.size_ < size
      BY <1>2 DEF Fits
    <3>3. p # NULL
      BY <3>2, RawMemoryAssumption
    <3>4. r = Outcome(Members(p, size, m.size_), WithBlock(free(h, m.data_), p, bytes), FALSE)
      BY <2>1, <2>3, <3>3
    <3> DEFINE h2 == WithBlock(free(h, m.data_), p, bytes)
    <3>5. DOMAIN free(h, m.data_) = DOMAIN h \ {m.data_}
          /\ \A q \in DOMAIN h \ {m.data_} : free(h, m.data_)[q] = h[q]
      BY DEF free
    <3>6. DOMAIN h2 = (DOMAIN h \ {m.data_}) \cup {p}
      BY <3>5 DEF WithBlock
    <3>7. h2[p] = bytes /\ \A q \in DOMAIN h \ {m.data_} : q # p => h2[q] = h[q]
      BY <3>5 DEF WithBlock
    <3>8. HeapOK(h2)
      BY <3>1, <3>2, <3>6, <3>7 DEF HeapOK
    <3> HIDE DEF h2
    <3>9. Fits(Members(p, size, m.size_), h2)
      BY <3>1, <3>2, <3>3, <3>6, <3>7 DEF Fits, Members
    <3>10. Relocated(m.data_, h, Members(p, size, m.size_), h2)
      BY <3>3, <3>6, <3>7, <3>8, <3>9 DEF Relocated, Members
    <3>11. QED BY <3>4, <3>10 DEF Outcome, Members, h2
  <2>4. QED BY <2>1, <2>2, <2>3, <1>0 DEF realloc, Outcome, OutOfMemory
<1>3. QED BY <1>1, <1>2 DEF Fits

(* resize, too, and when it does not throw the object has that size.       *)
LEMMA ResizeIsSound ==
  ASSUME NEW h, HeapOK(h), NEW m, Fits(m, h), NEW size \in Nat, NEW r \in resize(m, h, size)
  PROVE  /\ Relocated(m.data_, h, r.members, r.heap)
         /\ r.threw \in BOOLEAN
<1>1. PICK s \in reserve(m, h, size) : r = IF s.threw THEN s ELSE [s EXCEPT !.members.size_ = size]
  BY DEF resize
<1>2. /\ Relocated(m.data_, h, s.members, s.heap)
      /\ s.threw \in BOOLEAN
      /\ ~ s.threw => size <= s.members.capacity_
  BY ReserveIsSound
<1>3. CASE s.threw
  BY <1>1, <1>2, <1>3
<1>4. CASE ~ s.threw
  <2>1. s = [members |-> s.members, heap |-> s.heap, threw |-> s.threw]
    BY DEF reserve, Outcome
  <2>2. s.members \in [data_ : DOMAIN s.heap \cup {NULL}, capacity_ : Nat, size_ : Nat]
    BY <1>2 DEF Relocated, Fits
  <2>3. /\ r.heap = s.heap /\ r.threw = s.threw
        /\ r.members = [s.members EXCEPT !.size_ = size]
    BY <1>1, <1>4, <2>1
  <2>4. Fits(r.members, r.heap)
    BY <1>2, <1>4, <2>2, <2>3 DEF Relocated, Fits
  <2>5. r.members.data_ = s.members.data_
    BY <2>2, <2>3
  <2>6. QED BY <1>2, <2>3, <2>4, <2>5 DEF Relocated
<1>5. QED BY <1>2, <1>3, <1>4

(* memcpy within two blocks changes no block's size.                       *)
LEMMA MemcpyKeepsSizes ==
  ASSUME NEW h, HeapOK(h), NEW to \in DOMAIN h \cup {NULL}, NEW from \in DOMAIN h \cup {NULL},
         NEW size \in Nat, from # NULL => size <= Len(h[from])
  PROVE  /\ HeapOK(memcpy(h, to, from, size))
         /\ DOMAIN memcpy(h, to, from, size) = DOMAIN h
         /\ \A p \in DOMAIN h : Len(memcpy(h, to, from, size)[p]) = Len(h[p])
         /\ \A p \in DOMAIN h \ {to} : memcpy(h, to, from, size)[p] = h[p]
<1>1. CASE to = NULL \/ from = NULL
  BY <1>1 DEF memcpy
<1>2. CASE ~ (to = NULL \/ from = NULL)
  <2> DEFINE bytes == [i \in DOMAIN h[to] |-> IF i <= size THEN h[from][i] ELSE h[to][i]]
             h2    == [h EXCEPT ![to] = bytes]
  <2>1. memcpy(h, to, from, size) = h2
    BY <1>2 DEF memcpy
  <2>2. h[to] \in Seq(Bytes) /\ h[from] \in Seq(Bytes)
    BY <1>2 DEF HeapOK
  <2>3. /\ Len(h[to]) \in Nat /\ DOMAIN h[to] = 1 .. Len(h[to])
        /\ Len(h[from]) \in Nat
        /\ \A i \in 1 .. Len(h[to])   : h[to][i] \in Bytes
        /\ \A i \in 1 .. Len(h[from]) : h[from][i] \in Bytes
    BY <2>2
  <2>4. bytes \in [1 .. Len(h[to]) -> Bytes]
    BY <1>2, <2>3
  <2>5. bytes \in Seq(Bytes) /\ Len(bytes) = Len(h[to])
    BY <2>3, <2>4, BytesAreASequence
  <2> HIDE DEF bytes
  <2>6. DOMAIN h2 = DOMAIN h /\ \A p \in DOMAIN h : h2[p] = IF p = to THEN bytes ELSE h[p]
    OBVIOUS
  <2>7. QED BY <2>1, <2>5, <2>6 DEF HeapOK
<1>3. QED BY <1>1, <1>2

(* What is relocated may have its bytes copied afterwards.                 *)
LEMMA RelocatedAndCopied ==
  ASSUME NEW old, NEW h, NEW m, NEW h2, Relocated(old, h, m, h2),
         NEW from \in DOMAIN h2 \cup {NULL}, NEW size \in Nat,
         from # NULL => size <= Len(h2[from])
  PROVE  Relocated(old, h, m, memcpy(h2, m.data_, from, size))
<1> DEFINE h3 == memcpy(h2, m.data_, from, size)
<1>1. HeapOK(h2) /\ m.data_ \in DOMAIN h2 \cup {NULL}
  BY DEF Relocated, Fits
<1>2. /\ HeapOK(h3) /\ DOMAIN h3 = DOMAIN h2
      /\ \A p \in DOMAIN h2 : Len(h3[p]) = Len(h2[p])
      /\ \A p \in DOMAIN h2 \ {m.data_} : h3[p] = h2[p]
  BY <1>1, MemcpyKeepsSizes
<1> HIDE DEF h3
<1>3. Fits(m, h3)
  BY <1>1, <1>2 DEF Relocated, Fits
<1>4. \A p \in DOMAIN h \ {old} : h3[p] = h[p]
  BY <1>2, RawMemoryAssumption DEF Relocated, HeapOK
<1>5. Relocated(old, h, m, h3)
  BY <1>2, <1>3, <1>4 DEF Relocated
<1>6. QED BY <1>5 DEF h3

(* A resize within the capacity does not throw: it sets the size.          *)
LEMMA ResizeWithinCapacity ==
  ASSUME NEW old, NEW h, NEW m, NEW h2, Relocated(old, h, m, h2),
         NEW size \in Nat, size <= m.capacity_, NEW s \in resize(m, h2, size)
  PROVE  /\ ~ s.threw
         /\ s.heap = h2
         /\ s.members.size_ = size
         /\ Relocated(old, h, s.members, h2)
<1>1. s = [Outcome(m, h2, FALSE) EXCEPT !.members.size_ = size]
  <2>1. reserve(m, h2, size) = {Outcome(m, h2, FALSE)}
    BY DEF reserve
  <2>2. PICK r \in reserve(m, h2, size) : s = IF r.threw THEN r ELSE [r EXCEPT !.members.size_ = size]
    BY DEF resize
  <2>3. r = Outcome(m, h2, FALSE) /\ ~ r.threw
    BY <2>1 DEF Outcome
  <2>4. QED BY <2>2, <2>3
<1>2. m \in [data_ : DOMAIN h2 \cup {NULL}, capacity_ : Nat, size_ : Nat]
  BY DEF Relocated, Fits
<1>3. ~ s.threw /\ s.heap = h2 /\ s.members = [m EXCEPT !.size_ = size]
  BY <1>1, <1>2 DEF Outcome
<1>4. Fits(s.members, h2) /\ s.members.data_ = m.data_ /\ s.members.size_ = size
  BY <1>2, <1>3 DEF Fits, Relocated
<1>5. QED BY <1>3, <1>4 DEF Relocated

-----------------------------------------------------------------------------
(* The operations keep the invariant.                                      *)

Invariant == MemoryInv(memory, heap)

\* No object, no block: nothing to own twice, nothing too large.
LEMMA InitIsSound == RawMemoryInit => Invariant
BY DEF RawMemoryInit, Invariant, MemoryInv, HeapOK, Owned

(* What the invariant says of one object, and of two.                      *)
LEMMA ObjectsFit ==
  ASSUME Invariant, NEW o \in Objects, Constructed(o)
  PROVE  /\ HeapOK(heap)
         /\ Fits(memory[o], heap)
         /\ DataOf(memory[o]) = memory[o].data_
BY DEF Invariant, MemoryInv, Constructed, DataOf

(* An object that gets new members keeps the invariant.                    *)
LEMMA BecomesIsSound ==
  ASSUME Invariant, NEW o \in Objects, NEW m,
         Relocated(DataOf(memory[o]), heap, m, heap'), Becomes(o, m)
  PROVE  Invariant'
BY RelocationIsSound DEF Invariant, Becomes

\* A constructor gives its object a fresh block, or none, or takes another
\* object's over and leaves that one empty.
LEMMA ConstructorsAreSound ==
  ASSUME Invariant, NEW o \in Objects, NEW other \in Objects, NEW size \in Nat,
         Construct(o) \/ ConstructWithSize(o, size) \/ ConstructCopy(o, other)
  PROVE  Invariant'
<1>0. HeapOK(heap) /\ DataOf(memory[o]) = NULL
  BY DEF Invariant, MemoryInv, DataOf, Construct, ConstructWithSize, ConstructCopy, Constructed
<1>1. CASE Construct(o)
  <2>0. heap' = heap /\ NULL \notin DOMAIN heap
    BY <1>0, <1>1, RawMemoryAssumption DEF Construct, HeapOK
  <2>1. Relocated(NULL, heap, Empty, heap')
    <3>1. Fits(Empty, heap)
      BY DEF Fits, Empty, Members
    <3>2. QED BY <1>0, <2>0, <3>1 DEF Relocated, Empty, Members
  <2>2. QED BY <1>0, <1>1, <2>1, BecomesIsSound DEF Construct
<1>2. CASE ConstructWithSize(o, size)
  <2>1. PICK r \in malloc(heap, size) :
           /\ IF ThrowsBadAlloc(size, r.p) THEN UNCHANGED memory
                                           ELSE Becomes(o, Members(r.p, size, size))
           /\ heap' = r.heap
    BY <1>2 DEF ConstructWithSize
  <2>2. CASE ThrowsBadAlloc(size, r.p)
    <3>1. UNCHANGED << memory, heap >>
      BY <1>0, <2>1, <2>2, MallocIsSound DEF ThrowsBadAlloc
    <3>2. QED BY <3>1 DEF Invariant
  <2>3. CASE ~ ThrowsBadAlloc(size, r.p)
    BY <1>0, <2>1, <2>3, MallocIsSound, BecomesIsSound
  <2>4. QED BY <2>2, <2>3
<1>3. CASE ConstructCopy(o, other)
  <2> DEFINE from == memory[other]
  <2>1. Constructed(other) /\ Fits(from, heap)
    BY <1>3, ObjectsFit DEF ConstructCopy
  <2>2. /\ from.capacity_ \in Nat /\ from.size_ \in Nat /\ from.size_ <= from.capacity_
        /\ from.data_ \in DOMAIN heap \cup {NULL}
        /\ from.data_ # NULL => from.capacity_ = Len(heap[from.data_])
    BY <2>1 DEF Fits
  <2>3. PICK r \in malloc(heap, from.capacity_) :
           \/ /\ ThrowsBadAlloc(from.capacity_, r.p)
              /\ heap' = r.heap
              /\ UNCHANGED memory
           \/ /\ ~ ThrowsBadAlloc(from.capacity_, r.p)
              /\ heap' = memcpy(r.heap, r.p, from.data_, from.size_)
              /\ Becomes(o, Members(r.p, from.capacity_, from.size_))
    BY <1>3 DEF ConstructCopy
  <2>4. CASE ThrowsBadAlloc(from.capacity_, r.p)
    <3>1. UNCHANGED << memory, heap >>
      BY <1>0, <2>2, <2>3, <2>4, MallocIsSound DEF ThrowsBadAlloc
    <3>2. QED BY <3>1 DEF Invariant
  <2>5. CASE ~ ThrowsBadAlloc(from.capacity_, r.p)
    <3> DEFINE m == Members(r.p, from.capacity_, from.size_)
    <3>1. Relocated(NULL, heap, m, r.heap)
      BY <1>0, <2>2, <2>5, MallocIsSound
    <3>2. /\ from.data_ \in DOMAIN r.heap \cup {NULL}
          /\ from.data_ # NULL => from.size_ <= Len(r.heap[from.data_])
      BY <2>2, <3>1, RawMemoryAssumption, <1>0 DEF Relocated, HeapOK
    <3>3. m.data_ = r.p
      BY DEF Members
    <3> HIDE DEF m
    <3>4. Relocated(NULL, heap, m, memcpy(r.heap, m.data_, from.data_, from.size_))
      BY <2>2, <3>1, <3>2, RelocatedAndCopied
    <3>5. Becomes(o, m) /\ heap' = memcpy(r.heap, m.data_, from.data_, from.size_)
      BY <2>3, <2>5, <3>3 DEF m
    <3>6. QED BY <1>0, <3>4, <3>5, BecomesIsSound
  <2>6. QED BY <2>4, <2>5
<1>4. QED BY <1>1, <1>2, <1>3

(* Memory that passes from one object to another, and a block that is      *)
(* freed with its owner.                                                   *)
LEMMA MovesAreSound ==
  ASSUME Invariant, NEW o \in Objects, NEW other \in Objects,
         \/ ConstructMove(o, other) \/ AssignMove(o, other)
         \/ swap(o, other) \/ Destroy(o)
  PROVE  Invariant'
<1>0. /\ HeapOK(heap) /\ Owned(memory, heap)
      /\ NULL \notin DOMAIN heap
      /\ memory = [q \in Objects |-> memory[q]]
      /\ \A q \in Objects : memory[q] # Absent => Fits(memory[q], heap)
  BY RawMemoryAssumption DEF Invariant, MemoryInv, HeapOK
<1>e. /\ Empty.data_ = NULL /\ Empty # Absent
      /\ \A h : Fits(Empty, h)
  BY RawMemoryAssumption DEF Empty, Members, Fits
<1>1. CASE ConstructMove(o, other)
  <2>1. /\ heap' = heap
        /\ memory[o] = Absent /\ memory[other] # Absent /\ o # other
        /\ memory'[o] = memory[other] /\ memory'[other] = Empty
        /\ memory' = [q \in Objects |-> memory'[q]]
        /\ \A q \in Objects \ {o, other} : memory'[q] = memory[q]
    BY <1>0, <1>1 DEF ConstructMove, Constructed
  <2>2. \A q \in Objects : memory'[q] # Absent => Fits(memory'[q], heap')
    BY <1>0, <1>e, <2>1
  <2>3. Owned(memory', heap')
    BY <1>0, <1>e, <2>1 DEF Owned
  <2>4. QED BY <1>0, <2>1, <2>2, <2>3 DEF Invariant, MemoryInv
<1>2. CASE AssignMove(o, other)
  <2> DEFINE old == memory[o].data_
  <2>1. /\ heap' = free(heap, old)
        /\ memory[o] # Absent /\ memory[other] # Absent /\ o # other
        /\ memory'[o] = memory[other] /\ memory'[other] = Empty
        /\ memory' = [q \in Objects |-> memory'[q]]
        /\ \A q \in Objects \ {o, other} : memory'[q] = memory[q]
    BY <1>0, <1>2 DEF AssignMove, Constructed
  <2>2. DOMAIN heap' = DOMAIN heap \ {old} /\ \A p \in DOMAIN heap' : heap'[p] = heap[p]
    BY <2>1 DEF free
  <2>3. ASSUME NEW q \in Objects, q # o, memory[q] # Absent
        PROVE  Fits(memory[q], heap')
    <3>1. memory[q].data_ # NULL => memory[q].data_ # old
      BY <1>0, <2>1, <2>3 DEF Owned
    <3>2. QED BY <1>0, <2>2, <2>3, <3>1 DEF Fits
  <2>4. \A q \in Objects : memory'[q] # Absent => Fits(memory'[q], heap')
    BY <1>e, <2>1, <2>3
  <2>5. Owned(memory', heap')
    <3>1. \A p \in DOMAIN heap' : \E q \in Objects : memory'[q] # Absent /\ memory'[q].data_ = p
      BY <1>0, <2>1, <2>2 DEF Owned
    <3>2. QED BY <1>0, <1>e, <2>1, <3>1 DEF Owned
  <2>6. HeapOK(heap')
    BY <1>0, <2>2 DEF HeapOK
  <2>7. QED BY <2>1, <2>4, <2>5, <2>6 DEF Invariant, MemoryInv
<1>3. CASE swap(o, other)
  <2>1. /\ heap' = heap
        /\ memory[o] # Absent /\ memory[other] # Absent
        /\ memory'[o] = memory[other] /\ memory'[other] = memory[o]
        /\ memory' = [q \in Objects |-> memory'[q]]
        /\ \A q \in Objects \ {o, other} : memory'[q] = memory[q]
    BY <1>0, <1>3 DEF swap, Constructed
  <2>2. \A q \in Objects : memory'[q] # Absent => Fits(memory'[q], heap')
    BY <1>0, <2>1
  <2>3. Owned(memory', heap')
    BY <1>0, <2>1 DEF Owned
  <2>4. QED BY <1>0, <2>1, <2>2, <2>3 DEF Invariant, MemoryInv
<1>4. CASE Destroy(o)
  <2> DEFINE old == memory[o].data_
  <2>1. /\ heap' = free(heap, old)
        /\ memory[o] # Absent /\ memory'[o] = Absent
        /\ memory' = [q \in Objects |-> memory'[q]]
        /\ \A q \in Objects \ {o} : memory'[q] = memory[q]
    BY <1>0, <1>4 DEF Destroy, Constructed, Becomes
  <2>2. DOMAIN heap' = DOMAIN heap \ {old} /\ \A p \in DOMAIN heap' : heap'[p] = heap[p]
    BY <2>1 DEF free
  <2>3. ASSUME NEW q \in Objects, q # o, memory[q] # Absent
        PROVE  Fits(memory[q], heap')
    <3>1. memory[q].data_ # NULL => memory[q].data_ # old
      BY <1>0, <2>1, <2>3 DEF Owned
    <3>2. QED BY <1>0, <2>2, <2>3, <3>1 DEF Fits
  <2>4. \A q \in Objects : memory'[q] # Absent => Fits(memory'[q], heap')
    BY <2>1, <2>3
  <2>5. Owned(memory', heap')
    BY <1>0, <2>1, <2>2 DEF Owned
  <2>6. HeapOK(heap')
    BY <1>0, <2>2 DEF HeapOK
  <2>7. QED BY <2>1, <2>4, <2>5, <2>6 DEF Invariant, MemoryInv
<1>5. QED BY <1>1, <1>2, <1>3, <1>4

\* Assigning a copy keeps the block when it is large enough and otherwise
\* replaces it, whether or not malloc succeeds.
LEMMA AssignCopyIsSound ==
  ASSUME Invariant, NEW o \in Objects, NEW other \in Objects, AssignCopy(o, other)
  PROVE  Invariant'
<1> DEFINE from == memory[other]
           old  == memory[o].data_
<1>1. /\ HeapOK(heap) /\ Fits(memory[o], heap) /\ Fits(from, heap)
      /\ DataOf(memory[o]) = old
      /\ o # other /\ memory[o] # Absent /\ memory[other] # Absent
  BY ObjectsFit DEF AssignCopy, Constructed
<1>2. /\ from.capacity_ \in Nat /\ from.size_ \in Nat /\ from.size_ <= from.capacity_
      /\ from.data_ \in DOMAIN heap \cup {NULL}
      /\ from.data_ # NULL => from.capacity_ = Len(heap[from.data_])
      /\ from.data_ # NULL => from.data_ # old
  BY <1>1 DEF Fits, Invariant, MemoryInv, Owned
<1>3. PICK r \in reserve(memory[o], heap, from.capacity_) :
         \/ /\ r.threw
            /\ heap' = r.heap
            /\ Becomes(o, r.members)
         \/ /\ ~ r.threw
            /\ \E s \in resize(r.members, r.heap, from.size_) :
                  /\ heap' = IF s.threw THEN s.heap
                             ELSE memcpy(s.heap, s.members.data_, from.data_, from.size_)
                  /\ Becomes(o, s.members)
  BY DEF AssignCopy
<1>4. /\ Relocated(old, heap, r.members, r.heap)
      /\ ~ r.threw => from.capacity_ <= r.members.capacity_
  BY <1>1, <1>2, ReserveIsSound
<1>5. CASE r.threw
  BY <1>1, <1>3, <1>4, <1>5, BecomesIsSound
<1>6. CASE ~ r.threw
  <2>1. PICK s \in resize(r.members, r.heap, from.size_) :
           /\ heap' = IF s.threw THEN s.heap
                      ELSE memcpy(s.heap, s.members.data_, from.data_, from.size_)
           /\ Becomes(o, s.members)
    BY <1>3, <1>6
  <2>2. from.size_ <= r.members.capacity_
    BY <1>2, <1>4, <1>6 DEF Relocated, Fits
  <2>3. ~ s.threw /\ s.heap = r.heap /\ Relocated(old, heap, s.members, r.heap)
    BY <1>2, <1>4, <2>2, ResizeWithinCapacity
  <2>4. /\ from.data_ \in DOMAIN r.heap \cup {NULL}
        /\ from.data_ # NULL => from.size_ <= Len(r.heap[from.data_])
    BY <1>2, <1>4 DEF Relocated
  <2>5. Relocated(old, heap, s.members, memcpy(r.heap, s.members.data_, from.data_, from.size_))
    BY <1>2, <2>3, <2>4, RelocatedAndCopied
  <2>6. QED BY <1>1, <2>1, <2>3, <2>5, BecomesIsSound
<1>7. QED BY <1>5, <1>6

\* resize, reserve and shrinking move the bytes to another block of the same
\* owner, or leave all as it was.
LEMMA SizeChangesAreSound ==
  ASSUME Invariant, NEW o \in Objects, NEW size \in Nat, Reserve(o, size) \/ Resize(o, size)
  PROVE  Invariant'
<1>1. HeapOK(heap) /\ Fits(memory[o], heap) /\ DataOf(memory[o]) = memory[o].data_
  BY ObjectsFit DEF Reserve, Resize
<1>2. CASE Reserve(o, size)
  BY <1>1, <1>2, ReserveIsSound, BecomesIsSound DEF Reserve
<1>3. CASE Resize(o, size)
  BY <1>1, <1>3, ResizeIsSound, BecomesIsSound DEF Resize
<1>4. QED BY <1>2, <1>3

\* Writing a byte changes the bytes of a block, not who owns it.
LEMMA WritesAreSound ==
  ASSUME Invariant, NEW o \in Objects, NEW i, NEW byte \in Bytes, WriteByte(o, i, byte)
  PROVE  Invariant'
<1> DEFINE p == memory[o].data_
           bytes == [heap[p] EXCEPT ![i] = byte]
<1>1. HeapOK(heap) /\ Fits(memory[o], heap) /\ i \in 1 .. memory[o].size_ /\ memory' = memory
  BY ObjectsFit DEF WriteByte
<1>2. p \in DOMAIN heap /\ heap[p] \in Seq(Bytes)
  BY <1>1 DEF Fits, HeapOK
<1>3. bytes \in Seq(Bytes) /\ Len(bytes) = Len(heap[p])
  <2>1. Len(heap[p]) \in Nat /\ heap[p] \in [1 .. Len(heap[p]) -> Bytes]
    BY <1>2
  <2>2. bytes \in [1 .. Len(heap[p]) -> Bytes]
    BY <2>1
  <2>3. QED BY <2>1, <2>2, BytesAreASequence
<1>4. /\ DOMAIN heap' = DOMAIN heap
      /\ \A q \in DOMAIN heap : heap'[q] = IF q = p THEN bytes ELSE heap[q]
  BY <1>1, <1>2 DEF WriteByte
<1> HIDE DEF bytes
<1>5. HeapOK(heap') /\ \A q \in DOMAIN heap : Len(heap'[q]) = Len(heap[q])
  BY <1>1, <1>3, <1>4 DEF HeapOK
<1>6. ASSUME NEW q \in Objects, memory[q] # Absent
      PROVE  Fits(memory[q], heap')
  <2>1. Fits(memory[q], heap)
    BY <1>6 DEF Invariant, MemoryInv
  <2>2. QED BY <1>4, <1>5, <2>1 DEF Fits
<1>7. QED BY <1>1, <1>4, <1>5, <1>6 DEF Invariant, MemoryInv, Owned

\* Every step preserves the invariant: the lemmas above, one for each kind.
LEMMA StepIsSound == Invariant /\ [RawMemoryNext]_rawMemoryVars => Invariant'
<1> SUFFICES ASSUME Invariant, [RawMemoryNext]_rawMemoryVars
             PROVE  Invariant'
  OBVIOUS
<1>0. 0 .. MaxSize \subseteq Nat
  OBVIOUS
<1>1. CASE UNCHANGED rawMemoryVars
  BY <1>1 DEF rawMemoryVars, Invariant
<1>2. CASE \E o \in Objects : Construct(o) \/ Destroy(o)
  BY <1>2, ConstructorsAreSound, MovesAreSound
<1>3. CASE \E o \in Objects, size \in 0 .. MaxSize :
              ConstructWithSize(o, size) \/ Reserve(o, size) \/ Resize(o, size)
  BY <1>0, <1>3, ConstructorsAreSound, SizeChangesAreSound
<1>4. CASE \E o, other \in Objects : \/ ConstructCopy(o, other) \/ ConstructMove(o, other)
                                     \/ AssignCopy(o, other) \/ AssignMove(o, other) \/ swap(o, other)
  BY <1>4, ConstructorsAreSound, MovesAreSound, AssignCopyIsSound
<1>5. CASE \E o \in Objects, i \in 1 .. MaxSize, byte \in Bytes : WriteByte(o, i, byte)
  BY <1>5, WritesAreSound
<1>6. QED BY <1>1, <1>2, <1>3, <1>4, <1>5 DEF RawMemoryNext

-----------------------------------------------------------------------------
(* The invariant holds, and with it what the runs check.                   *)
LEMMA InvariantHolds == RawMemorySpec => []Invariant
BY InitIsSound, StepIsSound, PTL DEF RawMemorySpec

(* No object ever points to a block that is not allocated.                 *)
THEOREM MemoryTypeCorrect == RawMemorySpec => []RawMemoryTypeOK
<1>1. Invariant => RawMemoryTypeOK
  BY DEF Invariant, MemoryInv, HeapOK, Fits, RawMemoryTypeOK, Constructed
<1>2. QED BY <1>1, InvariantHolds, PTL

(* No operation leaks a block, shares it or frees it twice, however many   *)
(* objects there are and whenever memory runs out.                         *)
THEOREM BlocksAreOwnedOnce == RawMemorySpec => []BlocksHaveOneOwner
<1>1. Invariant => BlocksHaveOneOwner
  <2> SUFFICES ASSUME Invariant, NEW p \in DOMAIN heap
               PROVE  \E o \in Objects :
                         /\ Constructed(o) /\ memory[o].data_ = p
                         /\ \A other \in Objects \ {o} : Constructed(other) => memory[other].data_ # p
    BY DEF BlocksHaveOneOwner
  <2>1. Owned(memory, heap) /\ p # NULL
    BY RawMemoryAssumption DEF Invariant, MemoryInv, HeapOK
  <2>2. QED BY <2>1 DEF Owned, Constructed
<1>2. QED BY <1>1, InvariantHolds, PTL

(* Who writes size() bytes to data() stays within the block.               *)
THEOREM SizesAreWithinBlocks == RawMemorySpec => []SizesFitTheirBlocks
<1>1. Invariant => SizesFitTheirBlocks
  BY DEF Invariant, MemoryInv, Fits, SizesFitTheirBlocks, Constructed
<1>2. QED BY <1>1, InvariantHolds, PTL

-----------------------------------------------------------------------------
(* The refinement.  An object's value is in its block and nowhere else, so *)
(* a step changes the values of the objects it names and of no others.     *)

(* The value of an object whose members are m, as Value says.              *)
ValueOf(m, h) ==
  IF m = Absent THEN Absent ELSE IF m.data_ = NULL THEN << >> ELSE SubSeq(h[m.data_], 1, m.size_)

\* ValueOf is Value, of the members and the heap, before and after a step.
LEMMA ValueIsValueOf ==
  /\ \A o : Value(o) = ValueOf(memory[o], heap)
  /\ \A o : Value(o)' = ValueOf(memory'[o], heap')
BY DEF Value, ValueOf, Constructed

(* The first bytes of a block.                                             *)
LEMMA FirstBytes ==
  ASSUME NEW bytes \in Seq(Bytes), NEW n \in Nat, n <= Len(bytes)
  PROVE  /\ SubSeq(bytes, 1, n) = [i \in 1 .. n |-> bytes[i]]
         /\ SubSeq(bytes, 1, n) \in Seq(Bytes)
         /\ DOMAIN SubSeq(bytes, 1, n) = 1 .. n
<1>1. SubSeq(bytes, 1, n) = [i \in 1 .. n |-> bytes[i]]
  OBVIOUS
<1>2. [i \in 1 .. n |-> bytes[i]] \in [1 .. n -> Bytes]
  OBVIOUS
<1>3. QED BY <1>1, <1>2, BytesAreASequence

(* A value is a string, and tells whether the object exists.               *)
LEMMA ValuesAreStrings ==
  ASSUME NEW m, NEW h, HeapOK(h), Fits(m, h)
  PROVE  /\ ValueOf(m, h) \in Seq(Bytes) /\ ValueOf(m, h) # Absent
         /\ DOMAIN ValueOf(m, h) = 1 .. m.size_
         /\ m.data_ # NULL => ValueOf(m, h) = [i \in 1 .. m.size_ |-> h[m.data_][i]]
<1>1. m # Absent
  BY MembersExist
<1>2. CASE m.data_ = NULL
  <2>1. m.size_ = 0
    BY <1>2 DEF Fits
  <2>2. ValueOf(m, h) = << >> /\ << >> \in Seq(Bytes) /\ DOMAIN << >> = 1 .. 0
    BY <1>1, <1>2 DEF ValueOf
  <2>3. QED BY <1>2, <2>1, <2>2, RawMemoryAssumption
<1>3. CASE m.data_ # NULL
  <2>1. h[m.data_] \in Seq(Bytes) /\ m.size_ \in Nat /\ m.size_ <= Len(h[m.data_])
    BY <1>3 DEF Fits, HeapOK
  <2>2. ValueOf(m, h) = SubSeq(h[m.data_], 1, m.size_)
    BY <1>1, <1>3 DEF ValueOf
  <2>3. QED BY <2>1, <2>2, FirstBytes, RawMemoryAssumption
<1>4. QED BY <1>2, <1>3

(* Objects of the same size have the same value if their bytes agree.      *)
LEMMA SameBytesSameValue ==
  ASSUME NEW m, NEW h, HeapOK(h), Fits(m, h), NEW m2, NEW h2, HeapOK(h2), Fits(m2, h2),
         m.size_ = m2.size_,
         \A i \in 1 .. m.size_ : h[m.data_][i] = h2[m2.data_][i]
  PROVE  ValueOf(m, h) = ValueOf(m2, h2)
<1>1. CASE m.size_ = 0
  <2>1. \A m3, h3 : HeapOK(h3) /\ Fits(m3, h3) /\ m3.size_ = 0 => ValueOf(m3, h3) = << >>
    <3> SUFFICES ASSUME NEW m3, NEW h3, HeapOK(h3), Fits(m3, h3), m3.size_ = 0
                 PROVE  ValueOf(m3, h3) = << >>
      OBVIOUS
    <3>1. ValueOf(m3, h3) \in Seq(Bytes) /\ DOMAIN ValueOf(m3, h3) = 1 .. 0
      BY ValuesAreStrings
    <3> HIDE DEF ValueOf
    <3>2. QED BY <3>1
  <2>2. QED BY <1>1, <2>1
<1>2. CASE m.size_ # 0
  <2>1. m.data_ # NULL /\ m2.data_ # NULL
    BY <1>2 DEF Fits
  <2>2. /\ ValueOf(m, h) = [i \in 1 .. m.size_ |-> h[m.data_][i]]
        /\ ValueOf(m2, h2) = [i \in 1 .. m2.size_ |-> h2[m2.data_][i]]
    BY <2>1, ValuesAreStrings
  <2>3. QED BY <2>2
<1>3. QED BY <1>1, <1>2

(* Another object's value is in another block.                             *)
LEMMA OthersKeepTheirValue ==
  ASSUME NEW mem, NEW h, MemoryInv(mem, h), NEW o \in Objects, NEW m, NEW h2,
         Relocated(DataOf(mem[o]), h, m, h2), NEW q \in Objects, q # o
  PROVE  ValueOf(mem[q], h2) = ValueOf(mem[q], h)
<1>1. CASE mem[q] = Absent \/ mem[q].data_ = NULL
  BY <1>1 DEF ValueOf
<1>2. CASE mem[q] # Absent /\ mem[q].data_ # NULL
  <2>1. mem[q].data_ \in DOMAIN h
    BY <1>2 DEF MemoryInv, Fits
  <2>2. mem[q].data_ # DataOf(mem[o])
    BY <1>2 DEF MemoryInv, Owned, DataOf
  <2>3. h2[mem[q].data_] = h[mem[q].data_]
    BY <2>1, <2>2 DEF Relocated
  <2>4. QED BY <1>2, <2>3 DEF ValueOf
<1>3. QED BY <1>1, <1>2

(* An object that gets new members gets a value, and nothing else changes. *)
LEMMA BecomesGets ==
  ASSUME Invariant, NEW o \in Objects, NEW m,
         Relocated(DataOf(memory[o]), heap, m, heap'), Becomes(o, m)
  PROVE  /\ Values' = [Values EXCEPT ![o] = ValueOf(m, heap')]
         /\ ValueOf(m, heap') \in Seq(Bytes)
<1>1. memory'[o] = m /\ \A q \in Objects \ {o} : memory'[q] = memory[q]
  BY DEF Becomes, Invariant, MemoryInv
<1>2. Value(o)' = ValueOf(m, heap')
  BY <1>1, ValueIsValueOf
<1>3. \A q \in Objects \ {o} : Value(q)' = Value(q)
  BY <1>1, ValueIsValueOf, OthersKeepTheirValue DEF Invariant
<1>4. ValueOf(m, heap') \in Seq(Bytes)
  BY ValuesAreStrings DEF Relocated
<1>5. QED BY <1>2, <1>3, <1>4 DEF Values

(* malloc's block is as large as asked for, so that memcpy fills it.       *)
LEMMA MemcpyCopies ==
  ASSUME NEW old, NEW h, NEW m, NEW h2, Relocated(old, h, m, h2), NEW f, Fits(f, h2),
         f.data_ # m.data_ \/ f.data_ = NULL, m.size_ = f.size_
  PROVE  ValueOf(m, memcpy(h2, m.data_, f.data_, f.size_)) = ValueOf(f, h2)
<1> DEFINE h3 == memcpy(h2, m.data_, f.data_, f.size_)
<1>1. Relocated(old, h, m, h3)
  BY RelocatedAndCopied DEF Fits
<1>2. /\ HeapOK(h3) /\ Fits(m, h3) /\ HeapOK(h2) /\ Fits(m, h2)
  BY <1>1 DEF Relocated
<1>3. \A i \in 1 .. m.size_ : h3[m.data_][i] = h2[f.data_][i]
  <2> SUFFICES ASSUME NEW i \in 1 .. m.size_ PROVE h3[m.data_][i] = h2[f.data_][i]
    OBVIOUS
  <2>1. m.data_ # NULL /\ f.data_ # NULL /\ m.data_ \in DOMAIN h2 /\ m.size_ \in Nat
        /\ m.size_ <= Len(h2[m.data_]) /\ h2[m.data_] \in Seq(Bytes)
    BY <1>2 DEF Fits, HeapOK
  <2>2. i \in DOMAIN h2[m.data_] /\ i <= f.size_
    BY <2>1
  <2>3. QED BY <2>1, <2>2 DEF memcpy
<1> HIDE DEF h3
<1>4. ValueOf(m, h3) = ValueOf(f, h2)
  BY <1>2, <1>3, SameBytesSameValue
<1>5. QED BY <1>4 DEF h3

(* reserve, which keeps all bytes of an object, and so its value.          *)
LEMMA ReserveKeepsValue ==
  ASSUME NEW h, HeapOK(h), NEW m, Fits(m, h), NEW size \in Nat, NEW r \in reserve(m, h, size)
  PROVE  /\ r.members.size_ = m.size_
         /\ \A i \in 1 .. m.size_ : r.heap[r.members.data_][i] = h[m.data_][i]
         /\ ValueOf(r.members, r.heap) = ValueOf(m, h)
<1>1. Relocated(m.data_, h, r.members, r.heap)
  BY ReserveIsSound
<1>2. /\ r.members.size_ = m.size_
      /\ \A i \in 1 .. m.size_ : r.heap[r.members.data_][i] = h[m.data_][i]
  <2>1. CASE size <= m.capacity_
    BY <2>1 DEF reserve, Outcome
  <2>2. CASE ~ (size <= m.capacity_)
    <3>1. PICK s \in realloc(h, m.data_, size) :
             r = IF s.p = NULL THEN Outcome(m, s.heap, TRUE)
                 ELSE Outcome(Members(s.p, size, m.size_), s.heap, FALSE)
      BY <2>2 DEF reserve
    <3>2. CASE s = OutOfMemory(h)
      BY <3>1, <3>2 DEF OutOfMemory, Outcome
    <3>3. ASSUME NEW p \in (Pointers \ DOMAIN h) \cup ({m.data_} \ {NULL}),
                 NEW bytes \in Extensions(h, m.data_, size),
                 s = [p |-> p, heap |-> WithBlock(free(h, m.data_), p, bytes)]
          PROVE  /\ r.members.size_ = m.size_
                 /\ \A i \in 1 .. m.size_ : r.heap[r.members.data_][i] = h[m.data_][i]
      <4>1. p # NULL
        BY RawMemoryAssumption DEF Fits
      <4>2. r = Outcome(Members(p, size, m.size_), WithBlock(free(h, m.data_), p, bytes), FALSE)
        BY <3>1, <3>3, <4>1
      <4>3. r.members.size_ = m.size_ /\ r.members.data_ = p /\ r.heap[p] = bytes
        BY <4>2 DEF Outcome, Members, WithBlock
      <4>4. ASSUME NEW i \in 1 .. m.size_
            PROVE  bytes[i] = h[m.data_][i]
        <5>1. /\ m.data_ # NULL /\ h[m.data_] \in Seq(Bytes)
              /\ m.size_ \in Nat /\ m.size_ <= Len(h[m.data_]) /\ m.size_ < size
          BY <2>2 DEF Fits, HeapOK
        <5>2. i \in DOMAIN h[m.data_] \cap 1 .. size
          BY <5>1
        <5>3. QED BY <5>1, <5>2 DEF Extensions
      <4>5. QED BY <4>3, <4>4
    <3>4. \/ s = OutOfMemory(h)
          \/ \E p \in (Pointers \ DOMAIN h) \cup ({m.data_} \ {NULL}), bytes \in Extensions(h, m.data_, size) :
                s = [p |-> p, heap |-> WithBlock(free(h, m.data_), p, bytes)]
      BY <3>1 DEF realloc
    <3>5. QED BY <3>2, <3>3, <3>4
  <2>3. QED BY <2>1, <2>2
<1>3. QED BY <1>1, <1>2, SameBytesSameValue DEF Relocated

(* resize keeps the bytes that fit.                                        *)
LEMMA ResizeKeepsBytes ==
  ASSUME NEW h, HeapOK(h), NEW m, Fits(m, h), NEW size \in Nat, NEW r \in resize(m, h, size)
  PROVE  \A i \in DOMAIN ValueOf(m, h) \cap DOMAIN ValueOf(r.members, r.heap) :
            ValueOf(r.members, r.heap)[i] = ValueOf(m, h)[i]
<1>1. PICK s \in reserve(m, h, size) : r = IF s.threw THEN s ELSE [s EXCEPT !.members.size_ = size]
  BY DEF resize
<1>2. /\ Relocated(m.data_, h, r.members, r.heap)
      /\ Relocated(m.data_, h, s.members, s.heap)
  BY ResizeIsSound, ReserveIsSound
<1>3. r.heap = s.heap /\ r.members.data_ = s.members.data_
  <2>1. s = [members |-> s.members, heap |-> s.heap, threw |-> s.threw]
    BY DEF reserve, Outcome
  <2>2. s.members \in [data_ : DOMAIN s.heap \cup {NULL}, capacity_ : Nat, size_ : Nat]
    BY <1>2 DEF Relocated, Fits
  <2>3. QED BY <1>1, <2>1, <2>2
<1>4. \A i \in 1 .. m.size_ : r.heap[r.members.data_][i] = h[m.data_][i]
  BY <1>3, ReserveKeepsValue
<1>5. SUFFICES ASSUME NEW i \in DOMAIN ValueOf(m, h) \cap DOMAIN ValueOf(r.members, r.heap)
               PROVE  ValueOf(r.members, r.heap)[i] = ValueOf(m, h)[i]
  OBVIOUS
<1>6. HeapOK(r.heap) /\ Fits(r.members, r.heap)
  BY <1>2 DEF Relocated
<1>7. i \in 1 .. m.size_ /\ i \in 1 .. r.members.size_
  BY <1>6, ValuesAreStrings
<1>8. m.data_ # NULL /\ r.members.data_ # NULL
  BY <1>6, <1>7 DEF Fits
<1>9. /\ ValueOf(m, h) = [j \in 1 .. m.size_ |-> h[m.data_][j]]
      /\ ValueOf(r.members, r.heap) = [j \in 1 .. r.members.size_ |-> r.heap[r.members.data_][j]]
  BY <1>6, <1>8, ValuesAreStrings
<1>10. QED BY <1>4, <1>7, <1>9

-----------------------------------------------------------------------------
(* Each operation is one of ByteStrings', or changes no value.             *)

(* What an object that exists has, and one that does not.                  *)
LEMMA ExistsIsConstructed ==
  ASSUME Invariant, NEW o \in Objects
  PROVE  /\ Values[o] = Value(o)
         /\ (Values[o] # Absent) <=> Constructed(o)
         /\ Constructed(o) => Value(o) = ValueOf(memory[o], heap) /\ Value(o) \in Seq(Bytes)
<1>1. Values[o] = Value(o) /\ Value(o) = ValueOf(memory[o], heap)
  BY ValueIsValueOf DEF Values
<1>2. ~ Constructed(o) => ValueOf(memory[o], heap) = Absent
  BY DEF ValueOf, Constructed
<1>3. Constructed(o) => ValueOf(memory[o], heap) \in Seq(Bytes) /\ ValueOf(memory[o], heap) # Absent
  BY ObjectsFit, ValuesAreStrings
<1>4. QED BY <1>1, <1>2, <1>3

(* What every step has to be.                                              *)
Implements == Strings!ByteStringsNext \/ Values' = Values

\* A constructor makes an object or a copy, or has thrown and made nothing.
LEMMA ConstructorsImplement ==
  ASSUME Invariant, NEW o \in Objects, NEW other \in Objects, NEW size \in Nat,
         Construct(o) \/ ConstructWithSize(o, size) \/ ConstructCopy(o, other)
  PROVE  Implements
<1>0. HeapOK(heap) /\ DataOf(memory[o]) = NULL /\ ~ Constructed(o)
  BY DEF Invariant, MemoryInv, DataOf, Construct, ConstructWithSize, ConstructCopy, Constructed
<1>1. ASSUME NEW m, Relocated(NULL, heap, m, heap'), Becomes(o, m)
      PROVE  /\ Values' = [Values EXCEPT ![o] = ValueOf(m, heap')]
             /\ ValueOf(m, heap') \in Seq(Bytes)
             /\ Implements
  <2>1. /\ Values' = [Values EXCEPT ![o] = ValueOf(m, heap')]
        /\ ValueOf(m, heap') \in Seq(Bytes)
    BY <1>0, <1>1, BecomesGets
  <2>2. Values[o] = Absent /\ DOMAIN Values = Objects
    BY <1>0, ExistsIsConstructed DEF Values
  <2>3. Values'[o] = ValueOf(m, heap')
    BY <2>1, <2>2
  <2>4. Strings!Make(o)
    BY <2>1, <2>2, <2>3 DEF Strings!Make, Strings!Gets, Strings!Exists, Values
  <2>5. QED BY <2>1, <2>4 DEF Implements, Strings!ByteStringsNext
<1>2. CASE Construct(o)
  <2>1. Relocated(NULL, heap, Empty, heap')
    <3>1. Fits(Empty, heap)
      BY DEF Fits, Empty, Members
    <3>2. heap' = heap /\ NULL \notin DOMAIN heap
      BY <1>0, <1>2, RawMemoryAssumption DEF Construct, HeapOK
    <3>3. QED BY <1>0, <3>1, <3>2 DEF Relocated, Empty, Members
  <2>2. QED BY <1>1, <1>2, <2>1 DEF Construct
<1>3. ASSUME UNCHANGED << memory, heap >>
      PROVE  Implements
  BY <1>3 DEF Implements, Values, Value, Constructed
<1>4. CASE ConstructWithSize(o, size)
  <2>1. PICK r \in malloc(heap, size) :
           /\ IF ThrowsBadAlloc(size, r.p) THEN UNCHANGED memory
                                           ELSE Becomes(o, Members(r.p, size, size))
           /\ heap' = r.heap
    BY <1>4 DEF ConstructWithSize
  <2>2. CASE ThrowsBadAlloc(size, r.p)
    BY <1>0, <1>3, <2>1, <2>2, MallocIsSound DEF ThrowsBadAlloc
  <2>3. CASE ~ ThrowsBadAlloc(size, r.p)
    BY <1>0, <1>1, <2>1, <2>3, MallocIsSound
  <2>4. QED BY <2>2, <2>3
<1>5. CASE ConstructCopy(o, other)
  <2> DEFINE from == memory[other]
  <2>1. Constructed(other) /\ Fits(from, heap)
    BY <1>5, ObjectsFit DEF ConstructCopy
  <2>2. /\ from.capacity_ \in Nat /\ from.size_ \in Nat /\ from.size_ <= from.capacity_
        /\ from.data_ \in DOMAIN heap \cup {NULL}
    BY <2>1 DEF Fits
  <2>3. PICK r \in malloc(heap, from.capacity_) :
           \/ /\ ThrowsBadAlloc(from.capacity_, r.p)
              /\ heap' = r.heap
              /\ UNCHANGED memory
           \/ /\ ~ ThrowsBadAlloc(from.capacity_, r.p)
              /\ heap' = memcpy(r.heap, r.p, from.data_, from.size_)
              /\ Becomes(o, Members(r.p, from.capacity_, from.size_))
    BY <1>5 DEF ConstructCopy
  <2>4. CASE ThrowsBadAlloc(from.capacity_, r.p)
    BY <1>0, <1>3, <2>2, <2>3, <2>4, MallocIsSound DEF ThrowsBadAlloc
  <2>5. CASE ~ ThrowsBadAlloc(from.capacity_, r.p)
    <3> DEFINE m == Members(r.p, from.capacity_, from.size_)
    <3>1. Relocated(NULL, heap, m, r.heap)
      BY <1>0, <2>2, <2>5, MallocIsSound
    <3>2. m.data_ = r.p /\ m.size_ = from.size_
      BY DEF Members
    <3> HIDE DEF m
    <3>3. NULL \notin DOMAIN heap
      BY <1>0, RawMemoryAssumption DEF HeapOK
    <3>4. Fits(from, r.heap) /\ ValueOf(from, r.heap) = ValueOf(from, heap)
      BY <2>1, <3>1, <3>3 DEF Fits, Relocated, ValueOf
    <3>5. /\ from.data_ \in DOMAIN r.heap \cup {NULL}
          /\ from.data_ # NULL => from.size_ <= Len(r.heap[from.data_])
      BY <3>4 DEF Fits
    <3>6. Relocated(NULL, heap, m, memcpy(r.heap, m.data_, from.data_, from.size_))
      BY <2>2, <3>1, <3>5, RelocatedAndCopied
    <3>7. Becomes(o, m) /\ heap' = memcpy(r.heap, m.data_, from.data_, from.size_)
      BY <2>3, <2>5, <3>2 DEF m
    <3>8. from.data_ # m.data_ \/ from.data_ = NULL
      BY <2>2, <3>1 DEF Relocated
    <3>9. ValueOf(m, heap') = ValueOf(from, heap)
      BY <3>1, <3>2, <3>4, <3>7, <3>8, MemcpyCopies
    <3>10. Values[other] = ValueOf(from, heap) /\ Values[other] # Absent
      BY <2>1, ExistsIsConstructed
    <3>11. Values' = [Values EXCEPT ![o] = Values[other]]
      BY <1>1, <3>6, <3>7, <3>9, <3>10
    <3>12. Strings!Copy(o, other)
      BY <3>10, <3>11 DEF Strings!Copy, Strings!Exists, Values
    <3>13. QED BY <3>12 DEF Implements, Strings!ByteStringsNext
  <2>6. QED BY <2>4, <2>5
<1>6. QED BY <1>2, <1>4, <1>5

(* Members that are handed over take the value with them.                  *)
LEMMA MovesImplement ==
  ASSUME Invariant, NEW o \in Objects, NEW other \in Objects,
         \/ ConstructMove(o, other) \/ AssignMove(o, other)
         \/ swap(o, other) \/ Destroy(o)
  PROVE  Implements
<1>0. /\ HeapOK(heap) /\ NULL \notin DOMAIN heap
      /\ memory = [q \in Objects |-> memory[q]]
      /\ Values = [q \in Objects |-> Values[q]]
      /\ Values' = [q \in Objects |-> Values'[q]]
  BY RawMemoryAssumption DEF Invariant, MemoryInv, HeapOK, Values
<1>t. ASSUME NEW a, NEW b, Values'[o] = a, Values'[other] = b,
             \A q \in Objects \ {o, other} : Values'[q] = Values[q]
      PROVE  Values' = [Values EXCEPT ![o] = a, ![other] = b]
  BY <1>0, <1>t
<1>e. \A h : ValueOf(Empty, h) = << >>
  BY RawMemoryAssumption DEF Empty, Members, ValueOf
<1>a. \A h : ValueOf(Absent, h) = Absent
  BY DEF ValueOf
<1>v. \A q \in Objects : Values[q] = ValueOf(memory[q], heap) /\ Values'[q] = ValueOf(memory'[q], heap')
  BY ValueIsValueOf DEF Values
<1>x. \A q \in Objects : Constructed(q) => Values[q] # Absent
  BY ExistsIsConstructed
<1>1. CASE ConstructMove(o, other)
  <2>1. /\ heap' = heap
        /\ Constructed(other) /\ o # other
        /\ memory'[o] = memory[other] /\ memory'[other] = Empty
        /\ \A q \in Objects \ {o, other} : memory'[q] = memory[q]
    BY <1>0, <1>1 DEF ConstructMove, Constructed
  <2>a. /\ Values'[o] = Values[other] /\ Values'[other] = << >>
        /\ \A q \in Objects \ {o, other} : Values'[q] = Values[q]
    BY <1>e, <1>v, <2>1
  <2>2. Values' = [Values EXCEPT ![o] = Values[other], ![other] = << >>]
    BY <1>t, <2>a
  <2>3. Strings!Move(o, other)
    BY <1>x, <2>1, <2>2 DEF Strings!Move, Strings!Exists, Values
  <2>4. QED BY <2>3 DEF Implements, Strings!ByteStringsNext
<1>f. ASSUME NEW old, heap' = free(heap, old), NEW q \in Objects,
             Constructed(q) => memory[q].data_ = NULL \/ memory[q].data_ # old
      PROVE  ValueOf(memory[q], heap') = ValueOf(memory[q], heap)
  <2>1. \A p \in DOMAIN heap \ {old} : heap'[p] = heap[p]
    BY <1>f DEF free
  <2>2. Constructed(q) => memory[q].data_ \in DOMAIN heap \cup {NULL}
    BY ObjectsFit DEF Fits
  <2>3. QED BY <1>f, <2>1, <2>2 DEF ValueOf, Constructed
<1>2. CASE AssignMove(o, other)
  <2>1. /\ heap' = free(heap, memory[o].data_)
        /\ Constructed(o) /\ Constructed(other) /\ o # other
        /\ memory'[o] = memory[other] /\ memory'[other] = Empty
        /\ \A q \in Objects \ {o, other} : memory'[q] = memory[q]
    BY <1>0, <1>2 DEF AssignMove, Constructed
  <2>2. ASSUME NEW q \in Objects, q # o
        PROVE  ValueOf(memory[q], heap') = ValueOf(memory[q], heap)
    <3>1. Constructed(q) => memory[q].data_ = NULL \/ memory[q].data_ # memory[o].data_
      BY <2>1, <2>2 DEF Invariant, MemoryInv, Owned, Constructed
    <3>2. QED BY <1>f, <2>1, <3>1
  <2>a. /\ Values'[o] = Values[other] /\ Values'[other] = << >>
        /\ \A q \in Objects \ {o, other} : Values'[q] = Values[q]
    BY <1>e, <1>v, <2>1, <2>2
  <2>3. Values' = [Values EXCEPT ![o] = Values[other], ![other] = << >>]
    BY <1>t, <2>a
  <2>4. Strings!Move(o, other)
    BY <1>x, <2>1, <2>3 DEF Strings!Move, Strings!Exists, Values
  <2>5. QED BY <2>4 DEF Implements, Strings!ByteStringsNext
<1>3. CASE swap(o, other)
  <2>1. /\ heap' = heap
        /\ Constructed(o) /\ Constructed(other)
        /\ memory'[o] = memory[other] /\ memory'[other] = memory[o]
        /\ \A q \in Objects \ {o, other} : memory'[q] = memory[q]
    BY <1>0, <1>3 DEF swap, Constructed
  <2>a. /\ Values'[o] = Values[other] /\ Values'[other] = Values[o]
        /\ \A q \in Objects \ {o, other} : Values'[q] = Values[q]
    BY <1>v, <2>1
  <2>2. Values' = [Values EXCEPT ![o] = Values[other], ![other] = Values[o]]
    BY <1>t, <2>a
  <2>3. Strings!Swap(o, other)
    BY <1>x, <2>1, <2>2 DEF Strings!Swap, Strings!Exists, Values
  <2>4. QED BY <2>3 DEF Implements, Strings!ByteStringsNext
<1>4. CASE Destroy(o)
  <2>1. /\ heap' = free(heap, memory[o].data_)
        /\ Constructed(o) /\ memory'[o] = Absent
        /\ \A q \in Objects \ {o} : memory'[q] = memory[q]
    BY <1>0, <1>4 DEF Destroy, Constructed, Becomes
  <2>2. ASSUME NEW q \in Objects, q # o
        PROVE  ValueOf(memory[q], heap') = ValueOf(memory[q], heap)
    <3>1. Constructed(q) => memory[q].data_ = NULL \/ memory[q].data_ # memory[o].data_
      BY <2>1, <2>2 DEF Invariant, MemoryInv, Owned, Constructed
    <3>2. QED BY <1>f, <2>1, <3>1
  <2>a. Values'[o] = Absent /\ \A q \in Objects \ {o} : Values'[q] = Values[q]
    BY <1>a, <1>v, <2>1, <2>2
  <2>3. Values' = [Values EXCEPT ![o] = Absent]
    BY <1>0, <2>a
  <2>4. Strings!Destroy(o)
    BY <1>x, <2>1, <2>3 DEF Strings!Destroy, Strings!Exists, Values
  <2>5. QED BY <2>4 DEF Implements, Strings!ByteStringsNext
<1>5. QED BY <1>1, <1>2, <1>3, <1>4

(* Copy assignment copies, or changes nothing when reserve throws.         *)
LEMMA AssignCopyImplements ==
  ASSUME Invariant, NEW o \in Objects, NEW other \in Objects, AssignCopy(o, other)
  PROVE  Implements
<1> DEFINE from == memory[other]
           old  == memory[o].data_
<1>1. /\ HeapOK(heap) /\ Fits(memory[o], heap) /\ Fits(from, heap)
      /\ DataOf(memory[o]) = old /\ Constructed(o) /\ Constructed(other)
      /\ o # other /\ memory[o] # Absent /\ memory[other] # Absent
  BY ObjectsFit DEF AssignCopy, Constructed
<1>2. /\ from.capacity_ \in Nat /\ from.size_ \in Nat /\ from.size_ <= from.capacity_
      /\ from.data_ \in DOMAIN heap \cup {NULL}
      /\ from.data_ # NULL => from.data_ # old
  BY <1>1 DEF Fits, Invariant, MemoryInv, Owned
<1>3. PICK r \in reserve(memory[o], heap, from.capacity_) :
         \/ /\ r.threw
            /\ heap' = r.heap
            /\ Becomes(o, r.members)
         \/ /\ ~ r.threw
            /\ \E s \in resize(r.members, r.heap, from.size_) :
                  /\ heap' = IF s.threw THEN s.heap
                             ELSE memcpy(s.heap, s.members.data_, from.data_, from.size_)
                  /\ Becomes(o, s.members)
  BY DEF AssignCopy
<1>4. /\ Relocated(old, heap, r.members, r.heap)
      /\ r.threw => r.members = memory[o] /\ r.heap = heap
      /\ ~ r.threw => from.capacity_ <= r.members.capacity_
  BY <1>1, <1>2, ReserveIsSound
<1>5. CASE r.threw
  <2>1. Becomes(o, memory[o]) /\ heap' = heap
    BY <1>3, <1>4, <1>5
  <2>2. memory' = memory
    BY <2>1 DEF Becomes, Invariant, MemoryInv
  <2>3. QED BY <2>1, <2>2 DEF Implements, Values, Value, Constructed
<1>6. CASE ~ r.threw
  <2>1. PICK s \in resize(r.members, r.heap, from.size_) :
           /\ heap' = IF s.threw THEN s.heap
                      ELSE memcpy(s.heap, s.members.data_, from.data_, from.size_)
           /\ Becomes(o, s.members)
    BY <1>3, <1>6
  <2>2. from.size_ <= r.members.capacity_
    BY <1>2, <1>4, <1>6 DEF Relocated, Fits
  <2>3. ~ s.threw /\ s.heap = r.heap /\ Relocated(old, heap, s.members, r.heap)
        /\ s.members.size_ = from.size_
    BY <1>2, <1>4, <2>2, ResizeWithinCapacity
  <2>4. Fits(from, r.heap) /\ ValueOf(from, r.heap) = ValueOf(from, heap)
    BY <1>1, <1>2, <1>4 DEF Fits, Relocated, ValueOf
  <2>5. /\ from.data_ \in DOMAIN r.heap \cup {NULL}
        /\ from.data_ # NULL => from.size_ <= Len(r.heap[from.data_])
    BY <2>4 DEF Fits
  <2>6. Relocated(old, heap, s.members, memcpy(r.heap, s.members.data_, from.data_, from.size_))
    BY <1>2, <2>3, <2>5, RelocatedAndCopied
  <2>7. heap' = memcpy(r.heap, s.members.data_, from.data_, from.size_)
    BY <2>1, <2>3
  <2>8. from.data_ # s.members.data_ \/ from.data_ = NULL
    BY <1>2, <2>3, RawMemoryAssumption DEF Relocated
  <2>9. ValueOf(s.members, heap') = ValueOf(from, heap)
    BY <2>3, <2>4, <2>7, <2>8, MemcpyCopies
  <2>10. Values' = [Values EXCEPT ![o] = ValueOf(from, heap)]
    BY <1>1, <2>1, <2>6, <2>7, <2>9, BecomesGets
  <2>11. Values[other] = ValueOf(from, heap) /\ Values[other] # Absent
    BY <1>1, ExistsIsConstructed
  <2>12. Values' = [Values EXCEPT ![o] = Values[other]]
    BY <2>10, <2>11
  <2>13. Strings!Copy(o, other)
    BY <2>11, <2>12 DEF Strings!Copy, Strings!Exists, Values
  <2>14. QED BY <2>13 DEF Implements, Strings!ByteStringsNext
<1>7. QED BY <1>5, <1>6

(* reserve changes no value; resize keeps the bytes that fit.              *)
LEMMA SizeChangesImplement ==
  ASSUME Invariant, NEW o \in Objects, NEW size \in Nat, Reserve(o, size) \/ Resize(o, size)
  PROVE  Implements
<1>1. /\ HeapOK(heap) /\ Fits(memory[o], heap) /\ DataOf(memory[o]) = memory[o].data_
      /\ Constructed(o)
  BY ObjectsFit DEF Reserve, Resize
<1>2. /\ Values[o] = ValueOf(memory[o], heap) /\ Values[o] # Absent
      /\ Values = [q \in Objects |-> Values[q]]
  <2>1. Values[o] = Value(o) /\ Values[o] # Absent /\ Value(o) = ValueOf(memory[o], heap)
    BY <1>1, ExistsIsConstructed
  <2>2. QED BY <2>1 DEF Values
<1>3. CASE Reserve(o, size)
  <2>1. PICK r \in reserve(memory[o], heap, size) : heap' = r.heap /\ Becomes(o, r.members)
    BY <1>3 DEF Reserve
  <2>2. /\ Relocated(memory[o].data_, heap, r.members, heap')
        /\ ValueOf(r.members, heap') = ValueOf(memory[o], heap)
    BY <1>1, <2>1, ReserveIsSound, ReserveKeepsValue
  <2>3. Values' = [Values EXCEPT ![o] = ValueOf(r.members, heap')]
    BY <1>1, <2>1, <2>2, BecomesGets
  <2>4. Values' = Values
    BY <1>2, <2>2, <2>3
  <2>5. QED BY <2>4 DEF Implements
<1>4. CASE Resize(o, size)
  <2>1. PICK r \in resize(memory[o], heap, size) : heap' = r.heap /\ Becomes(o, r.members)
    BY <1>4 DEF Resize
  <2> DEFINE new == ValueOf(r.members, heap')
  <2>2. /\ Relocated(memory[o].data_, heap, r.members, heap')
        /\ \A i \in DOMAIN ValueOf(memory[o], heap) \cap DOMAIN new :
              new[i] = ValueOf(memory[o], heap)[i]
    BY <1>1, <2>1, ResizeIsSound, ResizeKeepsBytes
  <2>3. Values' = [Values EXCEPT ![o] = new] /\ new \in Seq(Bytes)
    BY <1>1, <2>1, <2>2, BecomesGets
  <2> HIDE DEF new
  <2>4. Values'[o] = new
    BY <1>2, <2>3
  <2>5. \A i \in DOMAIN Values[o] \cap DOMAIN Values'[o] : Values'[o][i] = Values[o][i]
    BY <1>2, <2>2, <2>4
  <2>6. Strings!Resize(o)
    BY <1>2, <2>3, <2>4, <2>5 DEF Strings!Resize, Strings!Gets, Strings!Exists, Values
  <2>7. QED BY <2>6 DEF Implements, Strings!ByteStringsNext
<1>5. QED BY <1>3, <1>4

(* Writing a byte changes that byte of that object.                        *)
LEMMA WritesImplement ==
  ASSUME Invariant, NEW o \in Objects, NEW i, NEW byte \in Bytes, WriteByte(o, i, byte)
  PROVE  Implements
<1> DEFINE p == memory[o].data_
           n == memory[o].size_
<1>1. /\ HeapOK(heap) /\ Fits(memory[o], heap) /\ i \in 1 .. n /\ memory' = memory
      /\ Constructed(o) /\ memory[o] # Absent
      /\ heap' = [heap EXCEPT ![p] = [@ EXCEPT ![i] = byte]]
  BY ObjectsFit DEF WriteByte, Constructed
<1>2. p \in DOMAIN heap /\ heap[p] \in Seq(Bytes) /\ p # NULL /\ n \in Nat /\ n <= Len(heap[p])
  BY <1>1, RawMemoryAssumption DEF Fits, HeapOK
<1>3. /\ heap'[p] = [heap[p] EXCEPT ![i] = byte]
      /\ \A q \in DOMAIN heap \ {p} : heap'[q] = heap[q]
  BY <1>1, <1>2
<1>4. Invariant'
  BY WritesAreSound
<1>5. HeapOK(heap') /\ Fits(memory[o], heap')
  BY <1>1, <1>4 DEF Invariant, MemoryInv
<1>6. /\ ValueOf(memory[o], heap) = [j \in 1 .. n |-> heap[p][j]]
      /\ ValueOf(memory[o], heap') = [j \in 1 .. n |-> heap'[p][j]]
  <2>1. \A m, h : HeapOK(h) /\ Fits(m, h) /\ m.data_ # NULL
                     => ValueOf(m, h) = [j \in 1 .. m.size_ |-> h[m.data_][j]]
    BY ValuesAreStrings
  <2>2. HeapOK(heap) /\ Fits(memory[o], heap) /\ HeapOK(heap') /\ Fits(memory[o], heap')
        /\ memory[o].data_ # NULL
    BY <1>1, <1>2, <1>5
  <2>3. QED BY <2>1, <2>2, Zenon
<1>7. \A j \in 1 .. n : heap'[p][j] = IF j = i THEN byte ELSE heap[p][j]
  BY <1>2, <1>3
<1>8. ValueOf(memory[o], heap') = [ValueOf(memory[o], heap) EXCEPT ![i] = byte]
  BY <1>1, <1>6, <1>7
<1>9. ASSUME NEW q \in Objects, q # o
      PROVE  ValueOf(memory[q], heap') = ValueOf(memory[q], heap)
  <2>1. memory[q] # Absent /\ memory[q].data_ # NULL => memory[q].data_ \in DOMAIN heap \ {p}
    BY <1>1, <1>2, <1>9 DEF Invariant, MemoryInv, Owned, Fits
  <2>2. QED BY <1>3, <2>1 DEF ValueOf
<1>10. /\ \A q \in Objects : /\ Values[q] = ValueOf(memory[q], heap)
                             /\ Values'[q] = ValueOf(memory[q], heap')
       /\ Values = [q \in Objects |-> Values[q]]
       /\ Values' = [q \in Objects |-> Values'[q]]
  BY <1>1, ValueIsValueOf DEF Values
<1>11. Values' = [Values EXCEPT ![o] = [Values[o] EXCEPT ![i] = byte]]
  BY <1>8, <1>9, <1>10
<1>12. Values[o] # Absent /\ i \in DOMAIN Values[o]
  BY <1>1, <1>6, <1>10, ExistsIsConstructed
<1>13. Strings!Write(o)
  BY <1>11, <1>12 DEF Strings!Write, Strings!Exists, Values
<1>14. QED BY <1>13 DEF Implements, Strings!ByteStringsNext

(* Every step is a step of ByteStrings or changes no value.                *)
LEMMA StepImplements == Invariant /\ [RawMemoryNext]_rawMemoryVars => Implements
<1> SUFFICES ASSUME Invariant, [RawMemoryNext]_rawMemoryVars
             PROVE  Implements
  OBVIOUS
<1>0. 0 .. MaxSize \subseteq Nat /\ 0 \in Nat
  OBVIOUS
<1>1. CASE UNCHANGED rawMemoryVars
  BY <1>1 DEF rawMemoryVars, Implements, Values, Value, Constructed
<1>2. CASE \E o \in Objects : Construct(o) \/ Destroy(o)
  BY <1>0, <1>2, ConstructorsImplement, MovesImplement
<1>3. CASE \E o \in Objects, size \in 0 .. MaxSize :
              ConstructWithSize(o, size) \/ Reserve(o, size) \/ Resize(o, size)
  BY <1>0, <1>3, ConstructorsImplement, SizeChangesImplement
<1>4. CASE \E o, other \in Objects : \/ ConstructCopy(o, other) \/ ConstructMove(o, other)
                                     \/ AssignCopy(o, other) \/ AssignMove(o, other) \/ swap(o, other)
  BY <1>0, <1>4, ConstructorsImplement, MovesImplement, AssignCopyImplements
<1>5. CASE \E o \in Objects, i \in 1 .. MaxSize, byte \in Bytes : WriteByte(o, i, byte)
  BY <1>5, WritesImplement
<1>6. QED BY <1>1, <1>2, <1>3, <1>4, <1>5 DEF RawMemoryNext

(* Objects behave as values: a copy is equal and independent, moving takes *)
(* the bytes along, a reallocation keeps them, and an operation that       *)
(* throws std::bad_alloc has changed nothing, for every number of objects, *)
(* addresses and bytes, and whenever malloc and realloc fail.              *)
THEOREM RawMemoryImplementsByteStrings == RawMemorySpec => ImplementsByteStrings
<1>1. RawMemoryInit => Strings!ByteStringsInit
  BY DEF RawMemoryInit, Strings!ByteStringsInit, Values, Value, Constructed
<1>2. Invariant /\ [RawMemoryNext]_rawMemoryVars => [Strings!ByteStringsNext]_Values
  BY StepImplements DEF Implements
<1>3. RawMemorySpec => [][Strings!ByteStringsNext]_Values
  BY <1>2, InvariantHolds, PTL DEF RawMemorySpec
<1>4. QED BY <1>1, <1>3, PTL
            DEF RawMemorySpec, ImplementsByteStrings, Strings!ByteStringsSpec

=============================================================================
