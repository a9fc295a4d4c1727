------------------------------ MODULE RawMemory ------------------------------
(***************************************************************************)
(* ecaludp::RawMemory, which owns a block of the heap by hand: its         *)
(* constructors, assignments and destructor, swap, reserve and resize, and *)
(* the heap they share, whose malloc and realloc may fail.                 *)
(*                                                                         *)
(* An operation is one step; one that throws std::bad_alloc is one, too.   *)
(***************************************************************************)
EXTENDS Integers, Sequences

CONSTANTS
  Objects,   \* variables of type RawMemory
  Absent,    \* for one that is not constructed
  Pointers,  \* addresses of blocks
  NULL,
  Bytes,     \* what a byte can be
  MaxSize    \* bound: what a user asks for

ASSUME RawMemoryAssumption ==
  /\ NULL \notin Pointers
  /\ Absent \notin [data_ : Pointers \cup {NULL}, capacity_ : Nat, size_ : Nat]
  /\ Absent \notin Seq(Bytes)
  /\ MaxSize \in Nat

VARIABLES
  memory,  \* the members of each object
  heap     \* the bytes of each block that is allocated

rawMemoryVars == << memory, heap >>

Members(data, capacity, size) == [data_ |-> data, capacity_ |-> capacity, size_ |-> size]

Empty == Members(NULL, 0, 0)

RawMemoryInit == memory = [o \in Objects |-> Absent] /\ heap = << >>

Constructed(o) == memory[o] # Absent

-----------------------------------------------------------------------------
(* The C library: what malloc and realloc can return, and the heap then.   *)
(* New bytes are any bytes.                                                *)

WithBlock(h, p, bytes) == [q \in DOMAIN h \cup {p} |-> IF q = p THEN bytes ELSE h[q]]

(* The heap once the block is freed; nothing happens to NULL.              *)
free(h, p) == [q \in DOMAIN h \ {p} |-> h[q]]

OutOfMemory(h) == [p |-> NULL, heap |-> h]

malloc(h, size) ==
  {OutOfMemory(h)}
  \cup {[p |-> p, heap |-> WithBlock(h, p, bytes)] :
          p \in Pointers \ DOMAIN h, bytes \in [1 .. size -> Bytes]}

(* The bytes of a block are kept, in its place or in another; if there is  *)
(* no memory the block is left alone.                                      *)
Extensions(h, p, size) ==
  {bytes \in [1 .. size -> Bytes] : p # NULL => \A i \in DOMAIN h[p] \cap 1 .. size : bytes[i] = h[p][i]}

realloc(h, data, size) ==
  {OutOfMemory(h)}
  \cup {[p |-> p, heap |-> WithBlock(free(h, data), p, bytes)] :
          p \in (Pointers \ DOMAIN h) \cup ({data} \ {NULL}), bytes \in Extensions(h, data, size)}

(* memcpy of the first bytes of a block, if both pointers are not NULL.    *)
memcpy(h, to, from, size) ==
  IF to = NULL \/ from = NULL THEN h
  ELSE [h EXCEPT ![to] = [i \in DOMAIN h[to] |-> IF i <= size THEN h[from][i] ELSE h[to][i]]]

-----------------------------------------------------------------------------
(* reserve and resize of an object m, on the heap h: what they may leave,  *)
(* and whether they have thrown std::bad_alloc.                            *)

Outcome(m, h, threw) == [members |-> m, heap |-> h, threw |-> threw]

reserve(m, h, size) ==
  IF size <= m.capacity_ THEN {Outcome(m, h, FALSE)}
  ELSE {IF r.p = NULL THEN Outcome(m, r.heap, TRUE)
        ELSE Outcome(Members(r.p, size, m.size_), r.heap, FALSE) : r \in realloc(h, m.data_, size)}

(* Fault: does not ask for more memory.                                    *)
resize_only(m, h, size) == {Outcome([m EXCEPT !.size_ = size], h, FALSE)}

resize(m, h, size) ==
  {IF r.threw THEN r ELSE [r EXCEPT !.members.size_ = size] : r \in reserve(m, h, size)}

(* The block of an object under construction.                              *)
ThrowsBadAlloc(size, p) == size > 0 /\ p = NULL

Becomes(o, m) == memory' = [memory EXCEPT ![o] = m]

-----------------------------------------------------------------------------
(* The constructors and the destructor.                                    *)

Construct(o) ==
  /\ ~ Constructed(o)
  /\ Becomes(o, Empty)
  /\ UNCHANGED heap

ConstructWithSize(o, size) ==
  /\ ~ Constructed(o)
  /\ \E r \in malloc(heap, size) :
        /\ IF ThrowsBadAlloc(size, r.p) THEN UNCHANGED memory
                                        ELSE Becomes(o, Members(r.p, size, size))
        /\ heap' = r.heap

ConstructCopy(o, other) ==
  LET from == memory[other]
  IN  /\ ~ Constructed(o) /\ Constructed(other)
      /\ \E r \in malloc(heap, from.capacity_) :
            \/ /\ ThrowsBadAlloc(from.capacity_, r.p)
               /\ heap' = r.heap
               /\ UNCHANGED memory
            \/ /\ ~ ThrowsBadAlloc(from.capacity_, r.p)
               /\ heap' = memcpy(r.heap, r.p, from.data_, from.size_)
               /\ Becomes(o, Members(r.p, from.capacity_, from.size_))

ConstructMove(o, other) ==
  /\ ~ Constructed(o) /\ Constructed(other)
  /\ memory' = [memory EXCEPT ![o] = memory[other], ![other] = Empty]
  /\ UNCHANGED heap

Destroy(o) ==
  /\ Constructed(o)
  /\ heap' = free(heap, memory[o].data_)
  /\ Becomes(o, Absent)

-----------------------------------------------------------------------------
(* The assignments, which do nothing if an object is assigned to itself.   *)

(* Fault: keeps its size.                                                  *)
AssignCopyWithoutResize(o, other) ==
  LET from == memory[other]
  IN  /\ Constructed(o) /\ Constructed(other) /\ o # other
      /\ \E r \in reserve(memory[o], heap, from.capacity_) :
            /\ heap' = IF r.threw THEN r.heap
                       ELSE memcpy(r.heap, r.members.data_, from.data_, from.size_)
            /\ Becomes(o, r.members)

AssignCopy(o, other) ==
  LET from == memory[other]
  IN  /\ Constructed(o) /\ Constructed(other) /\ o # other
      /\ \E r \in reserve(memory[o], heap, from.capacity_) :
            \/ /\ r.threw
               /\ heap' = r.heap
               /\ Becomes(o, r.members)
            \/ /\ ~ r.threw
               /\ \E s \in resize(r.members, r.heap, from.size_) :
                     /\ heap' = IF s.threw THEN s.heap
                                ELSE memcpy(s.heap, s.members.data_, from.data_, from.size_)
                     /\ Becomes(o, s.members)

(* Fault: forgets its own block.                                           *)
AssignMoveWithoutFree(o, other) ==
  /\ Constructed(o) /\ Constructed(other) /\ o # other
  /\ memory' = [memory EXCEPT ![o] = memory[other], ![other] = Empty]
  /\ UNCHANGED heap

(* Fault: frees the block it has taken over.                               *)
AssignMoveThenFree(o, other) ==
  /\ Constructed(o) /\ Constructed(other) /\ o # other
  /\ heap' = free(heap, memory[other].data_)
  /\ memory' = [memory EXCEPT ![o] = memory[other], ![other] = Empty]

AssignMove(o, other) ==
  /\ Constructed(o) /\ Constructed(other) /\ o # other
  /\ heap' = free(heap, memory[o].data_)
  /\ memory' = [memory EXCEPT ![o] = memory[other], ![other] = Empty]

swap(o, other) ==
  /\ Constructed(o) /\ Constructed(other)
  /\ memory' = [memory EXCEPT ![o] = memory[other], ![other] = memory[o]]
  /\ UNCHANGED heap

-----------------------------------------------------------------------------
Reserve(o, size) ==
  /\ Constructed(o)
  /\ \E r \in reserve(memory[o], heap, size) : heap' = r.heap /\ Becomes(o, r.members)

Resize(o, size) ==
  /\ Constructed(o)
  /\ \E r \in resize(memory[o], heap, size) : heap' = r.heap /\ Becomes(o, r.members)

(* A user writes to data(), within size().                                 *)
WriteByte(o, i, byte) ==
  /\ Constructed(o)
  /\ i \in 1 .. memory[o].size_
  /\ heap' = [heap EXCEPT ![memory[o].data_] = [@ EXCEPT ![i] = byte]]
  /\ UNCHANGED memory

RawMemoryNext ==
  \/ \E o \in Objects : Construct(o) \/ Destroy(o)
  \/ \E o \in Objects, size \in 0 .. MaxSize : ConstructWithSize(o, size) \/ Reserve(o, size) \/ Resize(o, size)
  \/ \E o, other \in Objects : \/ ConstructCopy(o, other) \/ ConstructMove(o, other)
                               \/ AssignCopy(o, other) \/ AssignMove(o, other) \/ swap(o, other)
  \/ \E o \in Objects, i \in 1 .. MaxSize, byte \in Bytes : WriteByte(o, i, byte)

RawMemorySpec == RawMemoryInit /\ [][RawMemoryNext]_rawMemoryVars

-----------------------------------------------------------------------------

(* The variables have their types, and no object points to a block that is *)
(* not allocated.                                                          *)
RawMemoryTypeOK ==
  /\ DOMAIN heap \subseteq Pointers
  /\ \A p \in DOMAIN heap : heap[p] \in Seq(Bytes)
  /\ DOMAIN memory = Objects
  /\ \A o \in Objects : Constructed(o) =>
        memory[o] \in [data_ : DOMAIN heap \cup {NULL}, capacity_ : Nat, size_ : Nat]

(* Every block that is allocated belongs to exactly one object: whatever   *)
(* is copied, moved, swapped, destroyed or runs out of memory, nothing     *)
(* leaks and nothing is freed twice (the assignments and the constructors  *)
(* of RawMemory, which handle data_ by hand).                              *)
BlocksHaveOneOwner ==
  \A p \in DOMAIN heap :
     \E o \in Objects : /\ Constructed(o) /\ memory[o].data_ = p
                        /\ \A other \in Objects \ {o} : Constructed(other) => memory[other].data_ # p

(* capacity_ is the size of the block, and size_ `Must be <= capacity_'    *)
(* (raw_memory.h:253), also after a resize or an assignment that threw in  *)
(* the middle: who writes size() bytes to data() stays within the block.   *)
SizesFitTheirBlocks ==
  \A o \in Objects : Constructed(o) =>
     /\ memory[o].size_ <= memory[o].capacity_
     /\ memory[o].capacity_ = IF memory[o].data_ = NULL THEN 0 ELSE Len(heap[memory[o].data_])

Value(o) == IF ~ Constructed(o) THEN Absent
            ELSE IF memory[o].data_ = NULL THEN << >>
            ELSE SubSeq(heap[memory[o].data_], 1, memory[o].size_)

Values == [o \in Objects |-> Value(o)]

Strings == INSTANCE ByteStrings WITH value <- Values

(* Objects behave as values: a copy has the bytes of the original and is   *)
(* not changed through it, a reallocation keeps them, and an operation     *)
(* that throws has changed nothing, copy assignment included, although     *)
(* that calls reserve and resize, which can both throw.                    *)
ImplementsByteStrings == Strings!ByteStringsSpec

=============================================================================
