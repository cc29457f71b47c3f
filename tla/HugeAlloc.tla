----------------------------- MODULE HugeAlloc -----------------------------
(***************************************************************************)
(* The allocator of huge pages: one free list per size class, where every  *)
(* class is twice the one below it. A raw region of shared memory is cut   *)
(* into buffers of the largest class; a request for which the own class is *)
(* empty splits a buffer of the next larger class that has one, again and  *)
(* again down to the wanted size.                                          *)
(*                                                                         *)
(* A buffer is its offset from the start of the region and the class_size_ *)
(* recorded in it. free_buf and reserve_hugepages have no caller: what was *)
(* handed out stays so, and there is one region.                           *)
(***************************************************************************)
EXTENDS Integers, Sequences, SequencesExt, FiniteSetsExt

CONSTANTS
  MinClassSize,  \* k_min_class_size
  NumClasses,    \* k_num_classes
  HugePageSize   \* kHugepageSize

\* With a single class a second ring could find nothing left to split.
ASSUME ClassAssumption ==
  /\ MinClassSize \in Nat \ {0}
  /\ NumClasses \in Nat \ {0, 1}
  /\ HugePageSize \in Nat \ {0}

VARIABLES
  shm,         \* shm_list_: the sizes of the shared memory regions
  freelist,    \* freelist_: a vector of buffers per class
  user_alloc,  \* stats_.user_alloc_tot_
  next_class   \* the loop variable of alloc

alloc_vars == <<shm, freelist, user_alloc, next_class>>

Classes == 0 .. NumClasses - 1

\* 1ull << n.
Power2(n) ==
  LET power[i \in 0 .. n] == IF i = 0 THEN 1 ELSE 2 * power[i - 1] IN power[n]

ClassMaxSize(c) == MinClassSize * Power2(c)
MaxClassSize == ClassMaxSize(NumClasses - 1)

AllocInit ==
  /\ shm = <<>>
  /\ freelist = [c \in Classes |-> <<>>]
  /\ user_alloc = 0
  /\ next_class = 0

----------------------------------------------------------------------------
(* Plausible slips, each a variant of the operator it is named after.      *)

\* The size itself is shifted.
Bug_GetClassExact(size) ==
  LET x == size \div MinClassSize
  IN IF x = 0 THEN 0 ELSE CHOOSE n \in 1 .. x : Power2(n - 1) <= x /\ x < Power2(n)

\* Both halves start where the whole did.
Bug_HalvesAtOnePlace(b) ==
  << [addr |-> b.addr, class_size |-> b.class_size \div 2],
     [addr |-> b.addr, class_size |-> b.class_size \div 2] >>

\* Only one of the halves comes back to a list.
Bug_AfterSplitDropsHalf(c) ==
  [freelist EXCEPT ![c] = Front(@),
                   ![c - 1] = Append(@, [Last(freelist[c]) EXCEPT !.class_size = @ \div 2])]

\* The halves are recorded with the size of the whole.
Bug_HalvesKeepSize(b) == << b, [b EXCEPT !.addr = @ + b.class_size \div 2] >>

----------------------------------------------------------------------------
(* Which class a size belongs to.                                          *)

\* One more than the index of the highest bit set, and 0 of 0.
MsbIndex(x) == IF x = 0 THEN 0 ELSE CHOOSE n \in 1 .. x : Power2(n - 1) <= x /\ x < Power2(n)

GetClass(size) == MsbIndex((size - 1) \div MinClassSize)

\* The reference function: the first class whose limit is not exceeded.
GetClassSlow(size) == CHOOSE c \in Classes :
  /\ size <= ClassMaxSize(c)
  /\ \A d \in 0 .. c - 1 : size > ClassMaxSize(d)

----------------------------------------------------------------------------
(* Adding memory.                                                          *)

\* alloc_raw attaches whole pages, after as many keys as are taken; the call
\* comes back empty-handed when there are no pages left, and throws else.
RoundUp(size) == ((size + HugePageSize - 1) \div HugePageSize) * HugePageSize

AllocRaw(size) == shm' = Append(shm, RoundUp(size))

\* add_raw_buffer: buffers of the largest class, and what remains as one more
\* buffer. That one starts where the region starts, and its class_size_ is the
\* number of its class.
Whole(size) ==
  [i \in 1 .. size \div MaxClassSize |->
     [addr |-> (i - 1) * MaxClassSize, class_size |-> MaxClassSize]]

Remainder(size) ==
  IF size % MaxClassSize = 0 THEN <<>>
  ELSE << [addr |-> 0, class_size |-> GetClass(size % MaxClassSize)] >>

AddRawBuffer(size) ==
  freelist' = [c \in Classes |->
    freelist[c]
      \o (IF c = NumClasses - 1 THEN Whole(size) ELSE <<>>)
      \o (IF Remainder(size) # <<>> /\ c = GetClass(size % MaxClassSize)
          THEN Remainder(size) ELSE <<>>)]

----------------------------------------------------------------------------
(* alloc(size).                                                            *)

\* The first class from that of the size on that has a buffer.
Larger(size) == {c \in Classes : c >= GetClass(size) /\ freelist[c] # <<>>}

\* No class has one: the result is a null pointer.
Exhausted(size) == Larger(size) = {}

FindClass(size) ==
  /\ ~Exhausted(size)
  /\ next_class' = Min(Larger(size))

\* split(next_class): the last buffer becomes two of the class below.
Halves(b) ==
  << [addr |-> b.addr, class_size |-> b.class_size \div 2],
     [addr |-> b.addr + b.class_size \div 2, class_size |-> b.class_size \div 2] >>

AfterSplit(c) ==
  [freelist EXCEPT ![c] = Front(@), ![c - 1] = @ \o Halves(Last(freelist[c]))]

Split(size) ==
  /\ next_class # GetClass(size)
  /\ freelist' = AfterSplit(next_class)
  /\ next_class' = next_class - 1

\* alloc_from_class takes the last buffer.
AllocFromClass(size) ==
  /\ next_class = GetClass(size)
  /\ freelist' = [freelist EXCEPT ![next_class] = Front(@)]
  /\ user_alloc' = user_alloc + Last(freelist[next_class]).class_size

----------------------------------------------------------------------------

Free == UNION {ToSet(freelist[c]) : c \in Classes}

\* The bytes a buffer of a class really stands for.
Bytes(addr, size) == addr .. addr + size - 1

=============================================================================
