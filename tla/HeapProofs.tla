----------------------------- MODULE HeapProofs -----------------------------
(***************************************************************************)
(* The safety properties of the two modules about the memory of programs,  *)
(* proved for every value of their constants: first the heap that threads  *)
(* share, then the calls of one thread, which copy parts of it.            *)
(*                                                                         *)
(* Bookkeeping is not inductive by itself: an operation that is half done  *)
(* carries a pointer, an index and contents past the lock, and Pending     *)
(* says what they still mean when it takes the lock again.                 *)
(*                                                                         *)
(* A call is safe because, while its arguments are bound, what is met is   *)
(* protected (Keeps) and what is copied corresponds (Copies).              *)
(***************************************************************************)
EXTENDS Heap, CopyOnCall, SequenceTheorems, FiniteSetTheorems, WellFoundedInduction, TLAPS

Allocated == 1..(next_ptr - 1)

Pending ==
    \A t \in Threads :
       /\ pc[t] # "idle" => ptr[t] \in Allocated
       /\ pc[t] = "fill" => val[t] \in Contents
       /\ pc[t] \in {"get", "set"} => idx[t] \in Indices
       /\ pc[t] \in {"set", "push"} => \E v \in Values : val[t] = <<v>>
       /\ pc[t] \in {"get", "set"} /\ t \notin shortened => idx[t] <= Len(cells[ptr[t]])

IInv == TypeOK /\ Bookkeeping /\ Pending

-----------------------------------------------------------------------------
\* Contents are the sequences of values of at most MaxSize elements.
LEMMA ContentsAreSequences ==
    ASSUME NEW s
    PROVE  s \in Contents <=> s \in Seq(Values) /\ Len(s) <= MaxSize
<1>1. ASSUME s \in Contents
      PROVE  s \in Seq(Values) /\ Len(s) <= MaxSize
  <2>1. PICK n \in 0..MaxSize : s \in [1..n -> Values]
    BY <1>1 DEF Contents, BoundedSeq, SeqOf
  <2>2. QED
    BY <2>1, HeapAssumption
<1>2. ASSUME s \in Seq(Values), Len(s) <= MaxSize
      PROVE  s \in Contents
  <2>1. Len(s) \in 0..MaxSize /\ s \in [1..Len(s) -> Values]
    BY <1>2, HeapAssumption
  <2>2. QED
    BY <2>1 DEF Contents, BoundedSeq, SeqOf
<1>3. QED
  BY <1>1, <1>2

LEMMA NoContents == <<>> \in Contents
<1>1. <<>> \in Seq(Values) /\ Len(<<>>) = 0
  OBVIOUS
<1>2. 0 <= MaxSize
  BY HeapAssumption
<1>3. Len(<<>>) <= MaxSize
  BY <1>1, <1>2
<1>4. QED
  BY <1>1, <1>3, ContentsAreSequences

\* Storing a value in a cell keeps the size of the block.
LEMMA StoreKeepsSize ==
    ASSUME NEW s \in Contents, NEW i, NEW v \in Values
    PROVE  /\ [s EXCEPT ![i] = v] \in Contents
           /\ Len([s EXCEPT ![i] = v]) = Len(s)
<1>1. s \in Seq(Values) /\ Len(s) <= MaxSize
  BY ContentsAreSequences
<1>2. [s EXCEPT ![i] = v] \in Seq(Values) /\ Len([s EXCEPT ![i] = v]) = Len(s)
  <2>1. Len(s) \in Nat /\ s \in [1..Len(s) -> Values]
    BY <1>1
  <2>2. [s EXCEPT ![i] = v] \in [1..Len(s) -> Values]
    BY <2>1
  <2>3. QED
    BY <2>1, <2>2
<1>3. QED
  BY <1>1, <1>2, ContentsAreSequences

\* A new block has the requested size.
LEMMA NewBlock ==
    ASSUME NEW n \in 0..MaxSize
    PROVE  /\ [i \in 1..n |-> 0] \in Contents
           /\ Len([i \in 1..n |-> 0]) = n
<1>1. 0 \in Values
  BY HeapAssumption DEF Values
<1>2. [i \in 1..n |-> 0] \in [1..n -> Values]
  BY <1>1
<1>3. n \in Nat
  BY HeapAssumption
<1>4. [i \in 1..n |-> 0] \in Seq(Values) /\ Len([i \in 1..n |-> 0]) = n
  BY <1>2, <1>3
<1>5. QED
  BY <1>4, HeapAssumption, ContentsAreSequences

\* Tables with keys in D and entries in T are closed under adding and removing.
LEMMA ExtendTable ==
    ASSUME NEW D, NEW T, NEW f \in Tables(D, T), NEW x \in D, NEW y \in T
    PROVE  Extend(f, x, y) \in Tables(D, T)
<1>1. PICK S \in SUBSET D : f \in [S -> T]
  BY DEF Tables
<1>2. Extend(f, x, y) \in [S \cup {x} -> T]
  BY <1>1 DEF Extend
<1>3. S \cup {x} \in SUBSET D
  BY <1>1
<1>4. QED
  BY <1>2, <1>3 DEF Tables

LEMMA DropTable ==
    ASSUME NEW D, NEW T, NEW f \in Tables(D, T), NEW x
    PROVE  Drop(f, x) \in Tables(D, T)
<1>1. PICK S \in SUBSET D : f \in [S -> T]
  BY DEF Tables
<1>2. Drop(f, x) \in [S \ {x} -> T]
  BY <1>1 DEF Drop, Restrict
<1>3. S \ {x} \in SUBSET D
  BY <1>1
<1>4. QED
  BY <1>2, <1>3 DEF Tables

LEMMA EmptyTable ==
    ASSUME NEW D, NEW T
    PROVE  Empty \in Tables(D, T)
<1>1. Empty \in [{} -> T]
  BY DEF Empty
<1>2. {} \in SUBSET D
  OBVIOUS
<1>3. QED
  BY <1>1, <1>2 DEF Tables

LEMMA TypeNameIsOne ==
    ASSUME TypeOK, NEW v
    PROVE  TypeName(v) \in TypeNames
<1>1. PICK S \in SUBSET Pointers : ptr_tags \in [S -> Labels]
  BY DEF TypeOK, Tables
<1>2. v \in DOMAIN ptr_tags => ptr_tags[v] \in Labels
  BY <1>1
<1>3. QED
  BY <1>2 DEF TypeName, TypeNames

\* What the library writes in place of the cells of a block.
LEMMA PushedIs ==
    ASSUME NEW s \in Contents, NEW v \in Values, Len(s) < MaxSize
    PROVE  s \o <<v>> \in Contents /\ Len(s \o <<v>>) >= Len(s)
<1>1. s \in Seq(Values) /\ Len(s) <= MaxSize
  BY ContentsAreSequences
<1>2. s \o <<v>> \in Seq(Values) /\ Len(s \o <<v>>) = Len(s) + 1
  BY <1>1
<1>3. Len(s) + 1 <= MaxSize
  BY <1>1, HeapAssumption
<1>4. s \o <<v>> \in Contents
  BY <1>1, <1>2, <1>3, ContentsAreSequences
<1>5. Len(s) \in Nat
  BY <1>1
<1>6. QED
  BY <1>2, <1>4, <1>5

LEMMA PoppedIs ==
    ASSUME NEW s \in Contents, s # <<>>
    PROVE  Front(s) \in Contents
<1>1. s \in Seq(Values) /\ Len(s) <= MaxSize /\ Len(s) \in Nat
  BY ContentsAreSequences
<1>2. Len(s) >= 1
  BY <1>1, EmptySeq
<1>3. Front(s) \in Seq(Values) /\ Len(Front(s)) = Len(s) - 1
  <2>1. \A i \in 1..(Len(s) - 1) : s[i] \in Values
    BY <1>1
  <2>2. PICK n \in Nat : n = Len(s)
    BY <1>1
  <2>3. /\ SubSeq(s, 1, n - 1) \in Seq(Values)
        /\ Len(SubSeq(s, 1, n - 1)) = IF 1 <= n - 1 THEN n - 1 - 1 + 1 ELSE 0
    BY <2>1, <2>2, SubSeqProperties
  <2>4. n >= 1 => (IF 1 <= n - 1 THEN n - 1 - 1 + 1 ELSE 0) = n - 1
    OBVIOUS
  <2>5. Front(s) = SubSeq(s, 1, Len(s) - 1)
    BY DEF Front
  <2>6. QED
    BY <1>2, <2>2, <2>3, <2>4, <2>5
<1>4. Len(s) - 1 <= MaxSize
  BY <1>1, HeapAssumption
<1>5. QED
  BY <1>3, <1>4, ContentsAreSequences

LEMMA SwappedIs ==
    ASSUME NEW s \in Contents, NEW i \in DOMAIN s, NEW j \in DOMAIN s
    PROVE  /\ [s EXCEPT ![i] = s[j], ![j] = s[i]] \in Contents
           /\ Len([s EXCEPT ![i] = s[j], ![j] = s[i]]) = Len(s)
<1>1. s \in Seq(Values) /\ s[i] \in Values /\ s[j] \in Values
  BY ContentsAreSequences
<1> DEFINE r == [s EXCEPT ![i] = s[j]]
<1>2. r \in Contents /\ Len(r) = Len(s)
  BY <1>1, StoreKeepsSize
<1>3. /\ [r EXCEPT ![j] = s[i]] \in Contents
      /\ Len([r EXCEPT ![j] = s[i]]) = Len(r)
  BY <1>1, <1>2, StoreKeepsSize
<1>4. [r EXCEPT ![j] = s[i]] = [s EXCEPT ![i] = s[j], ![j] = s[i]]
  OBVIOUS
<1>5. QED
  BY <1>2, <1>3, <1>4

-----------------------------------------------------------------------------
LEMMA InitInv == Init => IInv
<1> SUFFICES ASSUME Init PROVE IInv
  OBVIOUS
<1>1. DOMAIN Empty = {}
  BY DEF Empty
<1>2. TypeOK
  <2>1. ptr_tags \in Tables(Pointers, Labels)
    BY EmptyTable DEF Init
  <2>2. <<>> \in Contents
    BY NoContents
  <2>3. cells \in [1..(next_ptr - 1) -> Contents] /\ asked \in [1..(next_ptr - 1) -> 0..MaxSize]
    <3>1. cells = Empty /\ asked = Empty /\ 1..(next_ptr - 1) = {}
      BY DEF Init
    <3>2. Empty \in [{} -> Contents] /\ Empty \in [{} -> 0..MaxSize]
      BY DEF Empty
    <3>3. QED
      BY <3>1, <3>2
  <2>4. next_ptr \in 1..(MaxAllocs + 1)
    BY HeapAssumption DEF Init
  <2>5. /\ ptr \in [Threads -> 0..MaxAllocs]
        /\ idx \in [Threads -> 0..MaxSize]
        /\ val \in [Threads -> Contents \cup {<<v>> : v \in Values}]
        /\ pc \in [Threads -> Steps]
    BY <2>2, HeapAssumption DEF Init, Steps
  <2>6. QED
    BY <1>1, <2>1, <2>3, <2>4, <2>5 DEF Init, TypeOK
<1>3. Bookkeeping
  BY <1>1 DEF Init, Bookkeeping
<1>4. Pending
  BY DEF Init, Pending
<1>5. QED
  BY <1>2, <1>3, <1>4 DEF IInv

\* The variables of TypeOK that Goto touches.
LEMMA GotoInv ==
    ASSUME IInv, NEW t \in Threads, NEW step \in Steps,
           NEW p \in 0..MaxAllocs, NEW i \in 0..MaxSize,
           NEW v \in Contents \cup {<<w>> : w \in Values},
           Goto(t, step, p, i, v)
    PROVE  /\ pc' \in [Threads -> Steps]
           /\ ptr' \in [Threads -> 0..MaxAllocs]
           /\ idx' \in [Threads -> 0..MaxSize]
           /\ val' \in [Threads -> Contents \cup {<<w>> : w \in Values}]
           /\ pc'[t] = step /\ ptr'[t] = p /\ idx'[t] = i /\ val'[t] = v
           /\ \A u \in Threads \ {t} : /\ pc'[u] = pc[u] /\ ptr'[u] = ptr[u]
                                       /\ idx'[u] = idx[u] /\ val'[u] = val[u]
<1>1. /\ pc \in [Threads -> Steps]
      /\ ptr \in [Threads -> 0..MaxAllocs]
      /\ idx \in [Threads -> 0..MaxSize]
      /\ val \in [Threads -> Contents \cup {<<w>> : w \in Values}]
  BY DEF IInv, TypeOK
<1>2. QED
  BY <1>1 DEF Goto

LEMMA ReturnInv ==
    ASSUME IInv, NEW t \in Threads, Return(t)
    PROVE  /\ pc' \in [Threads -> Steps]
           /\ ptr' \in [Threads -> 0..MaxAllocs]
           /\ idx' \in [Threads -> 0..MaxSize]
           /\ val' \in [Threads -> Contents \cup {<<w>> : w \in Values}]
           /\ pc'[t] = "idle"
           /\ \A u \in Threads \ {t} : /\ pc'[u] = pc[u] /\ ptr'[u] = ptr[u]
                                       /\ idx'[u] = idx[u] /\ val'[u] = val[u]
<1>1. "idle" \in Steps /\ 0 \in 0..MaxAllocs /\ 0 \in 0..MaxSize /\ <<>> \in Contents
  BY NoContents, HeapAssumption DEF Steps
<1>2. QED
  BY <1>1, GotoInv DEF Return

\* What TypeOK and Bookkeeping say, in the form the steps use it.
LEMMA Facts ==
    ASSUME IInv
    PROVE  /\ next_ptr \in Nat
           /\ Allocated \subseteq 1..MaxAllocs
           /\ cells \in [Allocated -> Contents]
           /\ asked \in [Allocated -> 0..MaxSize]
           /\ heap \cap freed_ptrs = {}
           /\ heap \cup freed_ptrs = Allocated
           /\ DOMAIN cell_types = heap
<1>1. /\ next_ptr \in 1..(MaxAllocs + 1)
      /\ cells \in [1..(next_ptr - 1) -> Contents]
      /\ asked \in [1..(next_ptr - 1) -> 0..MaxSize]
  BY DEF IInv, TypeOK
<1>2. QED
  BY <1>1, HeapAssumption DEF IInv, Bookkeeping, Allocated

\* The thread keeps the place it had, and the cell it checked is still there unless
\* its block became shorter.
Undisturbed(u) ==
    \/ pc'[u] = "idle"
    \/ /\ pc'[u] = pc[u] /\ ptr'[u] = ptr[u] /\ idx'[u] = idx[u] /\ val'[u] = val[u]
       /\ pc[u] \in {"get", "set"} /\ u \notin shortened'
          => u \notin shortened /\ Len(cells'[ptr[u]]) >= Len(cells[ptr[u]])

\* The place a call goes to.
Placed(u) ==
    /\ ptr'[u] \in Allocated'
    /\ pc'[u] = "fill" => val'[u] \in Contents
    /\ pc'[u] \in {"get", "set"} => idx'[u] \in Indices
    /\ pc'[u] \in {"set", "push"} => \E v \in Values : val'[u] = <<v>>
    /\ pc'[u] \in {"get", "set"} => idx'[u] <= Len(cells'[ptr'[u]])

LEMMA UpTo ==
    ASSUME NEW a \in Nat, NEW b \in Nat
    PROVE  a <= b => 1..(a - 1) \subseteq 1..(b - 1)
OBVIOUS

LEMMA PendingKept ==
    ASSUME IInv, cells' \in [Allocated' -> Contents],
           next_ptr' \in {next_ptr, next_ptr + 1},
           \A u \in Threads : Undisturbed(u) \/ Placed(u)
    PROVE  Pending'
<1>1. Allocated \subseteq Allocated'
  <2>1. next_ptr \in Nat /\ next_ptr' \in Nat /\ next_ptr <= next_ptr'
    BY Facts
  <2>2. 1..(next_ptr - 1) \subseteq 1..(next_ptr' - 1)
    BY <2>1, UpTo
  <2>3. QED
    BY <2>2 DEF Allocated
<1>2. ASSUME NEW u \in Threads
      PROVE  /\ pc'[u] # "idle" => ptr'[u] \in Allocated'
             /\ pc'[u] = "fill" => val'[u] \in Contents
             /\ pc'[u] \in {"get", "set"} => idx'[u] \in Indices
             /\ pc'[u] \in {"set", "push"} => \E v \in Values : val'[u] = <<v>>
             /\ pc'[u] \in {"get", "set"} /\ u \notin shortened' => idx'[u] <= Len(cells'[ptr'[u]])
  <2>1. CASE Placed(u)
    BY <2>1 DEF Placed
  <2>2. CASE pc'[u] = "idle"
    BY <2>2
  <2>3. CASE /\ pc'[u] = pc[u] /\ ptr'[u] = ptr[u] /\ idx'[u] = idx[u] /\ val'[u] = val[u]
             /\ pc[u] \in {"get", "set"} /\ u \notin shortened'
                => u \notin shortened /\ Len(cells'[ptr[u]]) >= Len(cells[ptr[u]])
    <3>1. /\ pc[u] # "idle" => ptr[u] \in Allocated
          /\ pc[u] = "fill" => val[u] \in Contents
          /\ pc[u] \in {"get", "set"} => idx[u] \in Indices
          /\ pc[u] \in {"set", "push"} => \E v \in Values : val[u] = <<v>>
          /\ pc[u] \in {"get", "set"} /\ u \notin shortened => idx[u] <= Len(cells[ptr[u]])
      BY DEF IInv, Pending
    <3>2. ASSUME pc[u] \in {"get", "set"}, u \notin shortened'
          PROVE  idx[u] <= Len(cells'[ptr[u]])
      <4>1. ptr[u] \in Allocated /\ idx[u] \in Indices /\ idx[u] <= Len(cells[ptr[u]])
        BY <2>3, <3>1, <3>2
      <4>2. cells[ptr[u]] \in Contents /\ cells'[ptr[u]] \in Contents
        BY <4>1, <1>1, Facts
      <4>3. Len(cells[ptr[u]]) \in Nat /\ Len(cells'[ptr[u]]) \in Nat /\ idx[u] \in Nat
        BY <4>1, <4>2, ContentsAreSequences, HeapAssumption DEF Indices
      <4>4. QED
        BY <2>3, <3>2, <4>1, <4>3
    <3>3. QED
      BY <1>1, <2>3, <3>1, <3>2
  <2>4. QED
    BY <2>1, <2>2, <2>3 DEF Undisturbed
<1>3. QED
  BY <1>2 DEF Pending

LEMMA AllocateInv ==
    ASSUME IInv, NEW n \in 0..MaxSize, Allocate(n)
    PROVE  /\ Bookkeeping'
           /\ next_ptr \in Nat /\ next_ptr \in 1..MaxAllocs /\ next_ptr' = next_ptr + 1
           /\ heap' \subseteq Pointers
           /\ next_ptr' \in 1..(MaxAllocs + 1)
           /\ cells' \in [1..(next_ptr' - 1) -> Contents]
           /\ \A p \in Allocated : cells'[p] = cells[p]
           /\ asked' \in [1..(next_ptr' - 1) -> 0..MaxSize]
           /\ \A p \in DOMAIN allocations' : allocations'[p] \in 0..MaxSize
           /\ \A p \in DOMAIN freed_allocations' : freed_allocations'[p] \in 0..MaxSize
           /\ freed_ptrs' = freed_ptrs
           /\ \A p \in DOMAIN cell_types' : cell_types'[p] \in Tables(Indices, TypeNames)
<1> DEFINE block == [i \in 1..n |-> 0]
<1>1. block \in Contents /\ Len(block) = n
  BY NewBlock
<1> HIDE DEF block
<1>2. /\ next_ptr \in Nat
      /\ next_ptr \in 1..MaxAllocs
      /\ cells \in [Allocated -> Contents]
      /\ asked \in [Allocated -> 0..MaxSize]
      /\ next_ptr \notin Allocated
  BY HeapAssumption DEF IInv, TypeOK, Allocate, Allocated
<1>3. /\ heap \cap freed_ptrs = {}
      /\ heap \cup freed_ptrs = Allocated
      /\ DOMAIN allocations = heap
      /\ DOMAIN cell_types = heap
      /\ DOMAIN freed_allocations = freed_ptrs
      /\ \A p \in heap : allocations[p] = asked[p]
      /\ \A p \in freed_ptrs : freed_allocations[p] = asked[p]
  BY DEF IInv, Bookkeeping, Allocated
<1>4. /\ next_ptr' = next_ptr + 1
      /\ heap' = heap \cup {next_ptr}
      /\ cells' = Extend(cells, next_ptr, block)
      /\ allocations' = Extend(allocations, next_ptr, n)
      /\ freed_allocations' = Drop(freed_allocations, next_ptr)
      /\ freed_ptrs' = freed_ptrs \ {next_ptr}
      /\ cell_types' = Extend(cell_types, next_ptr, Empty)
      /\ asked' = Extend(asked, next_ptr, n)
  BY DEF Allocate, Zeroes, block
<1>5. 1..(next_ptr' - 1) = Allocated \cup {next_ptr}
  BY <1>2, <1>4 DEF Allocated
<1>6. /\ cells' \in [Allocated \cup {next_ptr} -> Contents]
      /\ \A p \in Allocated : cells'[p] = cells[p]
      /\ asked' \in [Allocated \cup {next_ptr} -> 0..MaxSize]
      /\ asked'[next_ptr] = n
      /\ \A p \in Allocated : asked'[p] = asked[p]
  BY <1>1, <1>2, <1>4 DEF Extend
<1>7. /\ freed_ptrs' = freed_ptrs
      /\ DOMAIN freed_allocations' = freed_ptrs
      /\ \A p \in freed_ptrs : freed_allocations'[p] = freed_allocations[p]
  BY <1>2, <1>3, <1>4 DEF Drop, Restrict
<1>8. /\ DOMAIN allocations' = heap'
      /\ allocations'[next_ptr] = n
      /\ \A p \in heap : allocations'[p] = allocations[p]
  BY <1>2, <1>3, <1>4 DEF Extend
<1>9. /\ DOMAIN cell_types' = heap'
      /\ cell_types'[next_ptr] = Empty
      /\ \A p \in heap : cell_types'[p] = cell_types[p]
  BY <1>2, <1>3, <1>4 DEF Extend
<1>10. Bookkeeping'
  <2>1. heap' \cap freed_ptrs' = {} /\ heap' \cup freed_ptrs' = 1..(next_ptr' - 1)
    BY <1>2, <1>3, <1>4, <1>5, <1>7
  <2>2. \A p \in heap' : allocations'[p] = asked'[p]
    BY <1>1, <1>3, <1>4, <1>6, <1>8
  <2>3. \A p \in freed_ptrs' : freed_allocations'[p] = asked'[p]
    BY <1>3, <1>6, <1>7
  <2>4. QED
    BY <2>1, <2>2, <2>3, <1>7, <1>8, <1>9 DEF Bookkeeping
<1>11. \A p \in DOMAIN cell_types' : cell_types'[p] \in Tables(Indices, TypeNames)
  <2>1. \A p \in heap : cell_types[p] \in Tables(Indices, TypeNames)
    BY <1>3 DEF IInv, TypeOK
  <2>2. Empty \in Tables(Indices, TypeNames)
    BY EmptyTable
  <2>3. DOMAIN cell_types' = heap \cup {next_ptr}
    BY <1>4, <1>9
  <2>4. QED
    BY <2>1, <2>2, <2>3, <1>9
<1>12. heap' \subseteq Pointers /\ next_ptr' \in 1..(MaxAllocs + 1)
  <2>1. heap \subseteq Pointers
    BY DEF IInv, TypeOK
  <2>2. next_ptr \in Pointers
    BY <1>2 DEF Pointers
  <2>3. next_ptr + 1 \in 1..(MaxAllocs + 1)
    BY <1>2, HeapAssumption
  <2>4. QED
    BY <2>1, <2>2, <2>3, <1>4
<1>13. \A p \in DOMAIN allocations' : allocations'[p] \in 0..MaxSize
  BY <1>3, <1>4, <1>8 DEF IInv, TypeOK
<1>14. \A p \in DOMAIN freed_allocations' : freed_allocations'[p] \in 0..MaxSize
  BY <1>3, <1>7 DEF IInv, TypeOK
<1>15. QED
  BY <1>1, <1>2, <1>4, <1>5, <1>6, <1>7, <1>10, <1>11, <1>12, <1>13, <1>14

\* A list object nobody touched has the length it had.
LEMMA LengthStays ==
    ASSUME IInv, NEW p \in Allocated, cells'[p] = cells[p]
    PROVE  Len(cells'[p]) >= Len(cells[p])
<1>1. Len(cells[p]) \in Nat
  BY Facts, ContentsAreSequences
<1>2. QED
  BY <1>1

-----------------------------------------------------------------------------
LEMMA NewInv ==
    ASSUME IInv, NEW t \in Threads, NEW n \in 0..MaxSize, New(t, n)
    PROVE  IInv'
<1>1. Allocate(n) /\ UNCHANGED <<pc, args, shortened>>
  BY DEF New, Allocate
<1>2. /\ Bookkeeping'
      /\ next_ptr' = next_ptr + 1
      /\ cells' \in [Allocated' -> Contents]
      /\ \A p \in Allocated : cells'[p] = cells[p]
  BY <1>1, AllocateInv DEF Allocated
<1>3. TypeOK'
  BY <1>1, AllocateInv DEF Allocate, IInv, TypeOK, args
<1>4. ASSUME NEW u \in Threads
      PROVE  Undisturbed(u)
  <2>1. /\ pc'[u] = pc[u] /\ ptr'[u] = ptr[u] /\ idx'[u] = idx[u] /\ val'[u] = val[u]
        /\ shortened' = shortened
    BY <1>1 DEF args
  <2>2. ASSUME pc[u] \in {"get", "set"}
        PROVE  Len(cells'[ptr[u]]) >= Len(cells[ptr[u]])
    BY <2>2, <1>2, LengthStays DEF IInv, Pending
  <2>3. QED
    BY <2>1, <2>2 DEF Undisturbed
<1>5. Pending'
  BY <1>2, <1>4, PendingKept
<1>6. QED
  BY <1>2, <1>3, <1>5 DEF IInv

LEMMA NewLiteralInv ==
    ASSUME IInv, NEW t \in Threads, NEW vs \in Contents, NewLiteral(t, vs)
    PROVE  IInv'
<1>1. Len(vs) \in 0..MaxSize
  BY ContentsAreSequences, HeapAssumption
<1>2. Allocate(Len(vs)) /\ Goto(t, "fill", next_ptr, 0, vs) /\ shortened' = shortened
  BY DEF NewLiteral, Allocate
<1>3. /\ Bookkeeping'
      /\ next_ptr \in 1..MaxAllocs
      /\ next_ptr' = next_ptr + 1
      /\ cells' \in [Allocated' -> Contents]
      /\ \A p \in Allocated : cells'[p] = cells[p]
  BY <1>1, <1>2, AllocateInv DEF Allocated
<1>4. /\ next_ptr \in 0..MaxAllocs /\ 0 \in 0..MaxSize /\ next_ptr \in Allocated'
      /\ "fill" \in Steps
  BY <1>3, HeapAssumption DEF Allocated, Steps
<1>5. /\ pc' \in [Threads -> Steps]
      /\ ptr' \in [Threads -> 0..MaxAllocs]
      /\ idx' \in [Threads -> 0..MaxSize]
      /\ val' \in [Threads -> Contents \cup {<<w>> : w \in Values}]
      /\ pc'[t] = "fill" /\ ptr'[t] = next_ptr /\ val'[t] = vs
      /\ \A u \in Threads \ {t} : /\ pc'[u] = pc[u] /\ ptr'[u] = ptr[u]
                                  /\ idx'[u] = idx[u] /\ val'[u] = val[u]
  BY <1>2, <1>4, GotoInv
<1>6. TypeOK'
  BY <1>1, <1>2, <1>5, AllocateInv DEF Allocate, IInv, TypeOK
<1>7. ASSUME NEW u \in Threads
      PROVE  Undisturbed(u) \/ Placed(u)
  <2>1. CASE u = t
    BY <2>1, <1>4, <1>5 DEF Placed
  <2>2. CASE u # t
    <3>1. ASSUME pc[u] \in {"get", "set"}
          PROVE  Len(cells'[ptr[u]]) >= Len(cells[ptr[u]])
      BY <3>1, <1>3, LengthStays DEF IInv, Pending
    <3>2. QED
      BY <2>2, <3>1, <1>2, <1>5 DEF Undisturbed
  <2>3. QED
    BY <2>1, <2>2
<1>8. Pending'
  BY <1>3, <1>7, PendingKept
<1>9. QED
  BY <1>3, <1>6, <1>8 DEF IInv

\* One list object is given other contents.
LEMMA RewriteInv ==
    ASSUME IInv, NEW p \in Allocated, NEW s \in Contents, Rewrite(p, s)
    PROVE  /\ cells' \in [Allocated -> Contents]
           /\ shortened' \subseteq Threads
           /\ \A u \in Threads : pc[u] \in {"get", "set"} /\ u \notin shortened'
                 => u \notin shortened /\ Len(cells'[ptr[u]]) >= Len(cells[ptr[u]])
<1>1. /\ cells' = [cells EXCEPT ![p] = s]
      /\ shortened' = IF Len(s) < Len(cells[p]) THEN shortened \cup Checked(p) ELSE shortened
      /\ Checked(p) = {t \in Threads : pc[t] \in {"get", "set"} /\ ptr[t] = p}
      /\ cells \in [Allocated -> Contents]
      /\ shortened \subseteq Threads
  BY Facts DEF Rewrite, Checked, IInv, TypeOK
<1>2. cells' \in [Allocated -> Contents] /\ shortened' \subseteq Threads
  BY <1>1
<1>3. ASSUME NEW u \in Threads, pc[u] \in {"get", "set"}, u \notin shortened'
      PROVE  u \notin shortened /\ Len(cells'[ptr[u]]) >= Len(cells[ptr[u]])
  <2>1. u \notin shortened /\ ptr[u] \in Allocated
    BY <1>1, <1>3 DEF IInv, Pending
  <2>2. Len(s) \in Nat /\ Len(cells[ptr[u]]) \in Nat /\ Len(cells[p]) \in Nat
    BY <1>1, <2>1, ContentsAreSequences
  <2>3. CASE ptr[u] = p
    <3>1. ~(Len(s) < Len(cells[p])) /\ cells'[p] = s
      BY <1>1, <1>3, <2>3
    <3>2. QED
      BY <2>1, <2>2, <2>3, <3>1
  <2>4. CASE ptr[u] # p
    <3>1. cells'[ptr[u]] = cells[ptr[u]]
      BY <1>1, <2>1, <2>4
    <3>2. QED
      BY <2>1, <2>2, <3>1
  <2>5. QED
    BY <2>3, <2>4
<1>4. QED
  BY <1>2, <1>3

\* What is left of the invariant to show for a step that touches no table.
LEMMA WriteInv ==
    ASSUME IInv, UNCHANGED Records,
           pc' \in [Threads -> Steps],
           ptr' \in [Threads -> 0..MaxAllocs],
           idx' \in [Threads -> 0..MaxSize],
           val' \in [Threads -> Contents \cup {<<w>> : w \in Values}],
           cells' \in [Allocated -> Contents],
           shortened' \subseteq Threads,
           DOMAIN cell_types' = DOMAIN cell_types,
           \A q \in DOMAIN cell_types' : cell_types'[q] \in Tables(Indices, TypeNames),
           \A u \in Threads : Undisturbed(u) \/ Placed(u)
    PROVE  IInv'
<1>1. /\ UNCHANGED <<heap, next_ptr, allocations, freed_allocations, freed_ptrs, ptr_tags>>
      /\ asked' = asked
  BY DEF Records
<1>2. TypeOK'
  BY <1>1 DEF IInv, TypeOK, Allocated
<1>3. Bookkeeping'
  BY <1>1 DEF IInv, Bookkeeping
<1>4. Pending'
  BY <1>1, PendingKept DEF Allocated
<1>5. QED
  BY <1>2, <1>3, <1>4 DEF IInv

\* A thread returns from an operation and the others stay where they are.
LEMMA ReturnsInv ==
    ASSUME IInv, NEW t \in Threads, Return(t), UNCHANGED Records,
           cells' \in [Allocated -> Contents],
           shortened' \subseteq Threads,
           DOMAIN cell_types' = DOMAIN cell_types,
           \A q \in DOMAIN cell_types' : cell_types'[q] \in Tables(Indices, TypeNames),
           \A u \in Threads \ {t} : pc[u] \in {"get", "set"} /\ u \notin shortened'
              => u \notin shortened /\ Len(cells'[ptr[u]]) >= Len(cells[ptr[u]])
    PROVE  IInv'
<1>1. \A u \in Threads : Undisturbed(u)
  BY ReturnInv DEF Undisturbed
<1>2. QED
  BY <1>1, ReturnInv, WriteInv

\* The same with one list object given other contents, or none.
LEMMA RewrittenInv ==
    ASSUME IInv, NEW t \in Threads, Return(t), UNCHANGED <<Records, cell_types>>,
           \/ UNCHANGED <<cells, shortened>>
           \/ \E p \in Allocated, s \in Contents : Rewrite(p, s)
    PROVE  IInv'
<1>1. \A q \in DOMAIN cell_types : cell_types[q] \in Tables(Indices, TypeNames)
  BY DEF IInv, TypeOK
<1>2. CASE UNCHANGED <<cells, shortened>>
  <2>1. shortened' = shortened /\ shortened \subseteq Threads /\ cells' = cells
    BY <1>2 DEF IInv, TypeOK
  <2>2. \A u \in Threads : pc[u] \in {"get", "set"} => Len(cells'[ptr[u]]) >= Len(cells[ptr[u]])
    BY <2>1, LengthStays DEF IInv, Pending
  <2>3. QED
    BY <1>1, <2>1, <2>2, Facts, ReturnsInv
<1>3. CASE \E p \in Allocated, s \in Contents : Rewrite(p, s)
  BY <1>1, <1>3, RewriteInv, ReturnsInv
<1>4. QED
  BY <1>2, <1>3

LEMMA FillInv ==
    ASSUME IInv, NEW t \in Threads, Fill(t)
    PROVE  IInv'
<1>1. ptr[t] \in Allocated /\ val[t] \in Contents
  BY DEF IInv, Pending, Fill
<1>2. QED
  BY <1>1, RewrittenInv DEF Fill

LEMMA PushInv ==
    ASSUME IInv, NEW t \in Threads, Push(t)
    PROVE  IInv'
<1>1. ptr[t] \in Allocated /\ \E v \in Values : val[t] = <<v>>
  BY DEF IInv, Pending, Push
<1>2. cells[ptr[t]] \in Contents
  BY <1>1, Facts
<1>3. cells[ptr[t]] \o val[t] \in Contents
  BY <1>1, <1>2, PushedIs DEF Push
<1>4. QED
  BY <1>1, <1>3, RewrittenInv DEF Push

LEMMA PopInv ==
    ASSUME IInv, NEW t \in Threads, Pop(t)
    PROVE  IInv'
<1>1. ptr[t] \in Allocated
  BY DEF IInv, Pending, Pop
<1>2. cells[ptr[t]] \in Contents
  BY <1>1, Facts
<1>3. cells[ptr[t]] # <<>> => Front(cells[ptr[t]]) \in Contents
  BY <1>2, PoppedIs
<1>4. QED
  BY <1>1, <1>3, RewrittenInv DEF Pop

LEMMA SwapInv ==
    ASSUME IInv, NEW t \in Threads, Swap(t)
    PROVE  IInv'
<1>1. ptr[t] \in Allocated
  BY DEF IInv, Pending, Swap
<1>2. cells[ptr[t]] \in Contents
  BY <1>1, Facts
<1>3. PICK s \in Contents : Rewrite(ptr[t], s)
  BY <1>2, SwappedIs DEF Swap
<1>4. /\ UNCHANGED Records /\ cell_types' = cell_types
      /\ pc' = pc /\ ptr' = ptr /\ idx' = idx /\ val' = val
  BY DEF Swap, args
<1>5. \A u \in Threads : Undisturbed(u)
  BY <1>1, <1>3, <1>4, RewriteInv DEF Undisturbed
<1>6. /\ pc \in [Threads -> Steps]
      /\ ptr \in [Threads -> 0..MaxAllocs]
      /\ idx \in [Threads -> 0..MaxSize]
      /\ val \in [Threads -> Contents \cup {<<w>> : w \in Values}]
      /\ \A q \in DOMAIN cell_types : cell_types[q] \in Tables(Indices, TypeNames)
  BY DEF IInv, TypeOK
<1>7. QED
  BY <1>1, <1>3, <1>4, <1>5, <1>6, RewriteInv, WriteInv

LEMMA SetInv ==
    ASSUME IInv, NEW t \in Threads, Set(t)
    PROVE  IInv'
<1> DEFINE p == ptr[t]
           i == idx[t]
           v == val[t][1]
<1>1. /\ pc[t] = "set" /\ Return(t) /\ UNCHANGED Records
      /\ shortened' = shortened \ {t}
      /\ \/ /\ p \in heap
            /\ cells' = [cells EXCEPT ![p] = [cells[p] EXCEPT ![i] = v]]
            /\ cell_types' = [cell_types EXCEPT ![p] = Extend(cell_types[p], i, TypeName(v))]
         \/ UNCHANGED <<cells, cell_types>>
  BY DEF Set, Found
<1>2. p \in Allocated /\ i \in Indices /\ v \in Values
  BY <1>1 DEF IInv, Pending
<1>3. cells[p] \in Contents
  BY <1>2, Facts
<1>4. /\ cells' \in [Allocated -> Contents]
      /\ \A q \in Allocated : Len(cells'[q]) = Len(cells[q])
  <2>1. /\ [cells[p] EXCEPT ![i] = v] \in Contents
        /\ Len([cells[p] EXCEPT ![i] = v]) = Len(cells[p])
    BY <1>2, <1>3, StoreKeepsSize
  <2>2. CASE cells' = cells
    BY <2>2, Facts
  <2>3. CASE cells' = [cells EXCEPT ![p] = [cells[p] EXCEPT ![i] = v]]
    BY <2>1, <2>3, <1>2, Facts
  <2>4. QED
    BY <2>2, <2>3, <1>1
<1>5. /\ DOMAIN cell_types' = DOMAIN cell_types
      /\ \A q \in DOMAIN cell_types' : cell_types'[q] \in Tables(Indices, TypeNames)
  <2>1. \A q \in heap : cell_types[q] \in Tables(Indices, TypeNames)
    BY Facts DEF IInv, TypeOK
  <2>2. TypeName(v) \in TypeNames
    BY TypeNameIsOne DEF IInv
  <2>3. p \in heap => Extend(cell_types[p], i, TypeName(v)) \in Tables(Indices, TypeNames)
    BY <2>1, <2>2, <1>2, ExtendTable
  <2>4. QED
    BY <1>1, <2>1, <2>3, Facts
<1>6. \A u \in Threads \ {t} : pc[u] \in {"get", "set"} /\ u \notin shortened'
         => u \notin shortened /\ Len(cells'[ptr[u]]) >= Len(cells[ptr[u]])
  <2>1. ASSUME NEW u \in Threads, pc[u] \in {"get", "set"}
        PROVE  Len(cells'[ptr[u]]) = Len(cells[ptr[u]]) /\ Len(cells[ptr[u]]) \in Nat
    BY <2>1, <1>4, Facts, ContentsAreSequences DEF IInv, Pending
  <2>2. QED
    BY <1>1, <2>1
<1>7. shortened' \subseteq Threads
  BY <1>1 DEF IInv, TypeOK
<1>8. QED
  BY <1>1, <1>4, <1>5, <1>6, <1>7, ReturnsInv

LEMMA DeleteInv ==
    ASSUME IInv, NEW t \in Threads, Delete(t)
    PROVE  IInv'
<1> DEFINE p == ptr[t]
<1>1. /\ pc[t] = "delete" /\ Return(t)
      /\ heap' = heap \ {p}
      /\ cell_types' = Drop(cell_types, p)
      /\ ptr_tags' = Drop(ptr_tags, p)
      /\ allocations' = Drop(allocations, p)
      /\ freed_allocations' = IF p \in DOMAIN allocations
                              THEN Extend(freed_allocations, p, allocations[p])
                              ELSE freed_allocations
      /\ freed_ptrs' = freed_ptrs \cup {p}
      /\ UNCHANGED <<next_ptr, cells, asked, shortened>>
  BY DEF Delete, SizeRemembered
<1>2. p \in Allocated
  BY <1>1 DEF IInv, Pending
<1>3. /\ DOMAIN allocations = heap
      /\ DOMAIN freed_allocations = freed_ptrs
      /\ \A q \in heap : allocations[q] = asked[q]
      /\ \A q \in freed_ptrs : freed_allocations[q] = asked[q]
  BY DEF IInv, Bookkeeping
<1>4. /\ DOMAIN allocations' = heap' /\ DOMAIN cell_types' = heap'
      /\ \A q \in heap' : allocations'[q] = allocations[q] /\ cell_types'[q] = cell_types[q]
  BY <1>1, <1>3, Facts DEF Drop, Restrict
<1>5. /\ DOMAIN freed_allocations' = freed_ptrs'
      /\ \A q \in freed_ptrs' : freed_allocations'[q] = asked[q]
  BY <1>1, <1>2, <1>3, Facts DEF Extend
<1>6. Bookkeeping'
  <2>1. heap' \cap freed_ptrs' = {} /\ heap' \cup freed_ptrs' = Allocated
    BY <1>1, <1>2, Facts
  <2>2. QED
    BY <2>1, <1>1, <1>3, <1>4, <1>5 DEF Bookkeeping, Allocated
<1>7. TypeOK'
  <2>1. /\ heap' \subseteq Pointers /\ freed_ptrs' \subseteq Pointers
        /\ ptr_tags' \in Tables(Pointers, Labels)
    BY <1>1, <1>2, Facts, DropTable DEF IInv, TypeOK, Pointers
  <2>2. \A q \in DOMAIN allocations' : allocations'[q] \in 0..MaxSize
    BY <1>1, <1>3, <1>4 DEF IInv, TypeOK
  <2>3. \A q \in DOMAIN freed_allocations' : freed_allocations'[q] \in 0..MaxSize
    BY <1>1, <1>2, <1>5, Facts
  <2>4. \A q \in DOMAIN cell_types' : cell_types'[q] \in Tables(Indices, TypeNames)
    BY <1>1, <1>4, Facts DEF IInv, TypeOK
  <2>5. QED
    BY <1>1, <2>1, <2>2, <2>3, <2>4, ReturnInv DEF IInv, TypeOK
<1>8. Pending'
  <2>1. ASSUME NEW u \in Threads
        PROVE  Undisturbed(u)
    <3>1. pc[u] \in {"get", "set"} => Len(cells'[ptr[u]]) >= Len(cells[ptr[u]])
      BY <1>1, LengthStays DEF IInv, Pending
    <3>2. QED
      BY <3>1, <1>1, ReturnInv DEF Undisturbed
  <2>2. cells' \in [Allocated' -> Contents]
    BY <1>1, Facts DEF Allocated
  <2>3. QED
    BY <1>1, <2>1, <2>2, PendingKept
<1>9. QED
  BY <1>6, <1>7, <1>8 DEF IInv

\* A call that only resolves its pointer, or an operation that ends without a
\* change, leaves the heap itself alone.
LEMMA CallInv ==
    ASSUME IInv, NEW t \in Threads, UNCHANGED <<Heap, shortened>>,
           NEW p \in heap, NEW i \in 0..MaxSize,
           NEW v \in Contents \cup {<<w>> : w \in Values},
           NEW step \in {"get", "set", "delete", "push", "pop", "shuffle"},
           Goto(t, step, p, i, v),
           step \in {"get", "set"} => i \in Indices /\ InRange(p, i),
           step \in {"set", "push"} => \E w \in Values : v = <<w>>
    PROVE  IInv'
<1>1. /\ UNCHANGED Records /\ cells' = cells /\ cell_types' = cell_types
      /\ shortened' = shortened
      /\ p \in Allocated /\ Allocated' = Allocated
  BY Facts DEF Heap, Records, Allocated
<1>2. p \in 0..MaxAllocs /\ step \in Steps
  BY <1>1, Facts, HeapAssumption DEF Steps
<1>3. /\ pc' \in [Threads -> Steps]
      /\ ptr' \in [Threads -> 0..MaxAllocs]
      /\ idx' \in [Threads -> 0..MaxSize]
      /\ val' \in [Threads -> Contents \cup {<<w>> : w \in Values}]
      /\ pc'[t] = step /\ ptr'[t] = p /\ idx'[t] = i /\ val'[t] = v
      /\ \A u \in Threads \ {t} : /\ pc'[u] = pc[u] /\ ptr'[u] = ptr[u]
                                  /\ idx'[u] = idx[u] /\ val'[u] = val[u]
  BY <1>2, GotoInv
<1>4. ASSUME NEW u \in Threads
      PROVE  Undisturbed(u) \/ Placed(u)
  <2>1. CASE u = t
    <3>1. step \in {"get", "set"} => i <= Len(cells[p])
      <4>1. Len(cells[p]) \in Nat
        BY <1>1, Facts, ContentsAreSequences
      <4>2. QED
        BY <4>1 DEF InRange
    <3>2. step # "fill"
      OBVIOUS
    <3>3. QED
      BY <2>1, <3>1, <3>2, <1>1, <1>3 DEF Placed
  <2>2. CASE u # t
    <3>1. pc[u] \in {"get", "set"} => Len(cells'[ptr[u]]) >= Len(cells[ptr[u]])
      BY <1>1, LengthStays DEF IInv, Pending
    <3>2. QED
      BY <2>2, <3>1, <1>1, <1>3 DEF Undisturbed
  <2>3. QED
    BY <2>1, <2>2
<1>5. /\ cells' \in [Allocated -> Contents] /\ shortened' \subseteq Threads
      /\ \A q \in DOMAIN cell_types' : cell_types'[q] \in Tables(Indices, TypeNames)
  BY <1>1, Facts DEF IInv, TypeOK
<1>6. QED
  BY <1>1, <1>3, <1>4, <1>5, WriteInv

LEMMA EndInv ==
    ASSUME IInv, NEW t \in Threads, UNCHANGED Heap, Return(t),
           shortened' \in {shortened, shortened \ {t}}
    PROVE  IInv'
<1>1. /\ UNCHANGED Records /\ cells' = cells /\ cell_types' = cell_types
      /\ shortened \subseteq Threads
      /\ \A q \in DOMAIN cell_types : cell_types[q] \in Tables(Indices, TypeNames)
  BY DEF Heap, IInv, TypeOK
<1>2. \A u \in Threads : pc[u] \in {"get", "set"} => Len(cells'[ptr[u]]) >= Len(cells[ptr[u]])
  BY <1>1, LengthStays DEF IInv, Pending
<1>3. QED
  BY <1>1, <1>2, Facts, ReturnsInv

LEMMA TagInv ==
    ASSUME IInv, NEW t \in Threads, NEW p \in Pointers, NEW label \in Labels,
           Tag(t, p, label)
    PROVE  IInv'
<1>1. /\ ptr_tags' = Extend(ptr_tags, p, label)
      /\ UNCHANGED <<heap, next_ptr, cells, allocations, freed_allocations, freed_ptrs,
                     cell_types, pc, args, asked, shortened>>
  BY DEF Tag
<1>2. ptr_tags' \in Tables(Pointers, Labels)
  BY <1>1, ExtendTable DEF IInv, TypeOK
<1>3. TypeOK'
  BY <1>1, <1>2 DEF IInv, TypeOK, args
<1>4. Bookkeeping' /\ Pending'
  BY <1>1 DEF IInv, Bookkeeping, Pending, Allocated, args
<1>5. QED
  BY <1>3, <1>4 DEF IInv

LEMMA NextInv == IInv /\ [Next]_vars => IInv'
<1> SUFFICES ASSUME IInv, [Next]_vars PROVE IInv'
  OBVIOUS
<1>0. 0 \in 0..MaxSize /\ <<>> \in Contents /\ Indices \subseteq 0..MaxSize
  BY HeapAssumption, NoContents DEF Indices
<1>1. ASSUME NEW t \in Threads, NEW n \in 0..MaxSize, New(t, n)
      PROVE  IInv'
  BY <1>1, NewInv
<1>2. ASSUME NEW t \in Threads, NEW vs \in Contents, NewLiteral(t, vs)
      PROVE  IInv'
  BY <1>2, NewLiteralInv
<1>3. ASSUME NEW t \in Threads, Fill(t)
      PROVE  IInv'
  BY <1>3, FillInv
<1>4. ASSUME NEW t \in Threads, NEW p \in Pointers, NEW i \in Indices, GetCall(t, p, i)
      PROVE  IInv'
  BY <1>0, <1>4, CallInv DEF GetCall, Resolves
<1>5. ASSUME NEW t \in Threads, Get(t)
      PROVE  IInv'
  BY <1>5, EndInv DEF Get
<1>6. ASSUME NEW t \in Threads, NEW p \in Pointers, NEW i \in Indices, NEW v \in Values,
             SetCall(t, p, i, v)
      PROVE  IInv'
  <2>1. <<v>> \in Contents \cup {<<w>> : w \in Values}
    OBVIOUS
  <2>2. QED
    BY <1>0, <1>6, <2>1, CallInv DEF SetCall, Resolves
<1>7. ASSUME NEW t \in Threads, Set(t)
      PROVE  IInv'
  BY <1>7, SetInv
<1>8. ASSUME NEW t \in Threads, SetGuarded(t)
      PROVE  IInv'
  BY <1>8, EndInv DEF SetGuarded
<1>9. ASSUME NEW t \in Threads, NEW p \in Pointers, DeleteCall(t, p)
      PROVE  IInv'
  BY <1>0, <1>9, CallInv DEF DeleteCall, Resolves
<1>10. ASSUME NEW t \in Threads, Delete(t)
       PROVE  IInv'
  BY <1>10, DeleteInv
<1>11. ASSUME NEW t \in Threads, NEW p \in Pointers, NEW label \in Labels, Tag(t, p, label)
       PROVE  IInv'
  BY <1>11, TagInv
<1>12. ASSUME NEW t \in Threads, NEW p \in Pointers, NEW v \in Values,
              LibraryCall(t, "push", p, <<v>>)
       PROVE  IInv'
  <2>1. <<v>> \in Contents \cup {<<w>> : w \in Values}
    OBVIOUS
  <2>2. QED
    BY <1>0, <1>12, <2>1, CallInv DEF LibraryCall
<1>13. ASSUME NEW t \in Threads, NEW p \in Pointers, NEW op \in {"pop", "shuffle"},
              LibraryCall(t, op, p, <<>>)
       PROVE  IInv'
  BY <1>0, <1>13, CallInv DEF LibraryCall
<1>14. ASSUME NEW t \in Threads, Push(t) \/ Pop(t) \/ Swap(t)
       PROVE  IInv'
  BY <1>14, PushInv, PopInv, SwapInv
<1>15. ASSUME NEW t \in Threads, Shuffled(t)
       PROVE  IInv'
  BY <1>15, EndInv DEF Shuffled
<1>16. ASSUME UNCHANGED vars
       PROVE  IInv'
  BY <1>16 DEF vars, args, IInv, TypeOK, Bookkeeping, Pending, Allocated
<1>17. QED
  BY <1>1, <1>2, <1>3, <1>4, <1>5, <1>6, <1>7, <1>8, <1>9, <1>10, <1>11, <1>12, <1>13, <1>14,
     <1>15, <1>16 DEF Next

\* The inductive invariant of the heap.
THEOREM HeapInvariant == Spec => []IInv
BY InitInv, NextInv, PTL DEF Spec

\* Type correctness.
THEOREM HeapTypeOK == Spec => []TypeOK
<1>1. IInv => TypeOK
  BY DEF IInv
<1>2. QED
  BY <1>1, HeapInvariant, PTL

\* The tables behind heap_leak_report agree whatever deletes and stores raced, and
\* remember the size a block was allocated with whatever was pushed and popped.
THEOREM HeapBookkeeping == Spec => []Bookkeeping
<1>1. IInv => Bookkeeping
  BY DEF IInv
<1>2. QED
  BY <1>1, HeapInvariant, PTL

\* heap_get and heap_set use an index that is still in the list object they resolved,
\* although the block may have been deleted since, unless the list became shorter.
THEOREM HeapReadsLand == Spec => []ReadsLand
<1>1. ASSUME IInv PROVE ReadsLand
  <2>1. ASSUME NEW t \in Threads, pc[t] \in {"get", "set"}, t \notin shortened
        PROVE  idx[t] \in DOMAIN cells[ptr[t]]
    <3>1. ptr[t] \in Allocated /\ idx[t] \in Indices /\ idx[t] <= Len(cells[ptr[t]])
      BY <1>1, <2>1 DEF IInv, Pending
    <3>2. cells[ptr[t]] \in Seq(Values) /\ idx[t] \in Nat /\ idx[t] >= 1
      BY <1>1, <3>1, Facts, ContentsAreSequences, HeapAssumption DEF Indices
    <3>3. QED
      BY <3>1, <3>2
  <2>2. QED
    BY <2>1 DEF ReadsLand
<1>2. QED
  BY <1>1, HeapInvariant, PTL

-----------------------------------------------------------------------------
\* The ways a step can leave the tables and the contents of freed blocks.
LEMMA StepIs ==
    ASSUME IInv, [Next]_vars
    PROVE  \/ \E n \in 0..MaxSize : Allocate(n)
           \/ \E t \in Threads : Fill(t) \/ Set(t) \/ Delete(t)
           \/ \E t \in Threads : Push(t) \/ Pop(t) \/ Swap(t)
           \/ UNCHANGED <<heap, cells, freed_ptrs, cell_types>>
<1>1. \A vs \in Contents : Len(vs) \in 0..MaxSize
  BY ContentsAreSequences, HeapAssumption
<1>2. QED
  BY <1>1 DEF Next, vars, New, NewLiteral, Heap, Records, GetCall, Get, SetCall, SetGuarded,
              DeleteCall, Tag, LibraryCall, Shuffled

\* No heap_set and no literal writes a freed block or makes it live again, even one
\* that resolved the pointer before the block was freed.
THEOREM HeapFreedStaysFrozen == Spec => FreedStaysFrozen
<1> DEFINE Frozen == \A p \in freed_ptrs :
              /\ p \in freed_ptrs' /\ p \notin heap'
              /\ cells'[p] # cells[p]
                 => \E t \in Threads : pc[t] \in {"push", "pop", "shuffle"} /\ ptr[t] = p
<1>1. ASSUME IInv, IInv', [Next]_vars
      PROVE  Frozen
  <2>1. ASSUME NEW n \in 0..MaxSize, Allocate(n)
        PROVE  Frozen
    BY <1>1, <2>1, Facts, AllocateInv DEF IInv, Bookkeeping, Allocate
  <2>2. ASSUME NEW t \in Threads, Fill(t)
        PROVE  Frozen
    BY <1>1, <2>2, Facts DEF Fill, Found, Rewrite, Records
  <2>3. ASSUME NEW t \in Threads, Set(t)
        PROVE  Frozen
    BY <1>1, <2>3, Facts DEF Set, Found, Records
  <2>4. ASSUME NEW t \in Threads, Delete(t)
        PROVE  Frozen
    BY <1>1, <2>4, Facts DEF Delete
  <2>5. ASSUME NEW t \in Threads, Push(t) \/ Pop(t) \/ Swap(t)
        PROVE  Frozen
    <3>1. pc[t] \in {"push", "pop", "shuffle"} /\ heap' = heap /\ freed_ptrs' = freed_ptrs
      BY <2>5 DEF Push, Pop, Swap, Records
    <3>2. \A p \in freed_ptrs : p # ptr[t] => cells'[p] = cells[p]
      BY <1>1, <2>5, Facts DEF Push, Pop, Swap, Rewrite
    <3>3. QED
      BY <1>1, <3>1, <3>2, Facts
  <2>6. ASSUME UNCHANGED <<heap, cells, freed_ptrs>>
        PROVE  Frozen
    BY <1>1, <2>6, Facts
  <2>7. QED
    BY <1>1, <2>1, <2>2, <2>3, <2>4, <2>5, <2>6, StepIs
<1>2. QED
  BY <1>1, HeapInvariant, PTL DEF Spec, FreedStaysFrozen

\* Only a thread's own step ends its heap_set.
LEMMA EndsIts ==
    ASSUME IInv, [Next]_vars, NEW t \in Threads, pc[t] = "set", pc'[t] = "idle"
    PROVE  Set(t) \/ SetGuarded(t)
<1>1. pc \in [Threads -> Steps]
  BY DEF IInv, TypeOK
<1>2. ASSUME NEW u \in Threads, NEW step, NEW p, NEW i, NEW v, Goto(u, step, p, i, v)
      PROVE  u = t
  BY <1>1, <1>2 DEF Goto
<1>3. ~UNCHANGED pc
  OBVIOUS
<1>4. PICK u \in Threads :
           \/ \E n \in 0..MaxSize : New(u, n)
           \/ \E vs \in Contents : NewLiteral(u, vs)
           \/ Fill(u)
           \/ \E p \in Pointers, i \in Indices : GetCall(u, p, i)
           \/ Get(u)
           \/ \E p \in Pointers, i \in Indices, v \in Values : SetCall(u, p, i, v)
           \/ Set(u)
           \/ SetGuarded(u)
           \/ \E p \in Pointers : DeleteCall(u, p)
           \/ Delete(u)
           \/ \E p \in Pointers, label \in Labels : Tag(u, p, label)
           \/ \E p \in Pointers, v \in Values : LibraryCall(u, "push", p, <<v>>)
           \/ \E p \in Pointers, op \in {"pop", "shuffle"} : LibraryCall(u, op, p, <<>>)
           \/ Push(u)
           \/ Pop(u)
           \/ Swap(u)
           \/ Shuffled(u)
  BY <1>3 DEF Next, vars
<1>5. u = t
  BY <1>2, <1>3, <1>4 DEF New, NewLiteral, Fill, GetCall, Get, SetCall, Set, SetGuarded, DeleteCall,
                          Delete, Tag, LibraryCall, Push, Pop, Swap, Shuffled, Return
<1>6. QED
  BY <1>3, <1>4, <1>5 DEF New, NewLiteral, Fill, GetCall, Get, SetCall, DeleteCall,
                          Delete, Tag, LibraryCall, Push, Pop, Swap, Shuffled

\* heap_set stores one type in the cells of a live block, though the check and the
\* store come after a lookup that may be old.
THEOREM HeapTypesStable == Spec => TypesStable
<1> DEFINE Kept == \A p \in heap \cap heap' : \A i \in DOMAIN cell_types[p] :
                        i \in DOMAIN cell_types'[p] /\ cell_types'[p][i] = cell_types[p][i]
           TypedAs == \A p \in heap \cap heap' : \A i \in DOMAIN cell_types[p] :
                       \A t \in Threads :
                         pc[t] = "set" /\ ptr[t] = p /\ idx[t] = i /\ pc'[t] = "idle"
                         /\ cells' # cells => TypeName(val[t][1]) = cell_types[p][i]
<1>1. ASSUME IInv, [Next]_vars
      PROVE  Kept
  <2>1. ASSUME NEW n \in 0..MaxSize, Allocate(n)
        PROVE  Kept
    <3>1. cell_types' = Extend(cell_types, next_ptr, Empty)
      BY <2>1 DEF Allocate
    <3>2. DOMAIN cell_types = heap /\ next_ptr \notin heap
      <4>1. heap \subseteq 1..(next_ptr - 1) /\ next_ptr \in Nat
        BY <1>1, Facts DEF Allocated
      <4> QED
        BY <1>1, <4>1, Facts
    <3> QED
      BY <3>1, <3>2 DEF Extend
  <2>2. ASSUME NEW t \in Threads, Set(t)
        PROVE  Kept
    <3> DEFINE p == ptr[t]
               i == idx[t]
               v == val[t][1]
    <3>1. DOMAIN cell_types = heap
      BY <1>1 DEF IInv, Bookkeeping
    <3>2. CASE cell_types' = cell_types
      BY <3>2
    <3>3. CASE /\ TypeAccepts(p, i, v)
               /\ cell_types' = [cell_types EXCEPT ![p] = Extend(@, i, TypeName(v))]
      <4>1. \A q \in heap \ {p} : cell_types'[q] = cell_types[q]
        BY <3>1, <3>3
      <4>2. p \in heap => cell_types'[p] = Extend(cell_types[p], i, TypeName(v))
        BY <3>1, <3>3
      <4>3. p \in heap /\ i \in DOMAIN cell_types[p] => cell_types[p][i] = TypeName(v)
        BY <3>1, <3>3 DEF TypeAccepts
      <4> HIDE DEF p, i, v
      <4> QED
        BY <4>1, <4>2, <4>3 DEF Extend
    <3> QED
      BY <2>2, <3>2, <3>3 DEF Set
  <2>3. ASSUME NEW t \in Threads, Delete(t)
        PROVE  Kept
    <3>1. cell_types' = Drop(cell_types, ptr[t]) /\ heap' = heap \ {ptr[t]}
      BY <2>3 DEF Delete
    <3>2. DOMAIN cell_types = heap
      BY <1>1 DEF IInv, Bookkeeping
    <3> QED
      BY <3>1, <3>2 DEF Drop, Restrict
  <2>4. CASE cell_types' = cell_types
    BY <2>4
  <2> QED
    BY <1>1, <2>1, <2>2, <2>3, <2>4, StepIs DEF Fill, Push, Pop, Swap
<1>2. ASSUME IInv, [Next]_vars
      PROVE  TypedAs
  <2>1. ASSUME NEW p \in heap, NEW i \in DOMAIN cell_types[p], NEW t \in Threads,
               pc[t] = "set", ptr[t] = p, idx[t] = i, pc'[t] = "idle", cells' # cells
        PROVE  TypeName(val[t][1]) = cell_types[p][i]
    <3>1. Set(t)
      BY <1>2, <2>1, EndsIts DEF SetGuarded, Heap
    <3>2. TypeAccepts(p, i, val[t][1])
      BY <3>1, <2>1 DEF Set
    <3>3. DOMAIN cell_types = heap
      BY <1>2 DEF IInv, Bookkeeping
    <3>4. QED
      BY <2>1, <3>2, <3>3 DEF TypeAccepts
  <2>2. QED
    BY <2>1
<1>3. Kept /\ TypedAs => \A p \in heap \cap heap' : \A i \in DOMAIN cell_types[p] :
          /\ i \in DOMAIN cell_types'[p] /\ cell_types'[p][i] = cell_types[p][i]
          /\ \A t \in Threads :
                pc[t] = "set" /\ ptr[t] = p /\ idx[t] = i /\ pc'[t] = "idle"
                /\ cells' # cells => TypeName(val[t][1]) = cell_types[p][i]
  OBVIOUS
<1> QED
  BY <1>1, <1>2, <1>3, HeapInvariant, PTL DEF Spec, TypesStable

-----------------------------------------------------------------------------
\* What a value leads to.

\* A set of naturals has a least member.  (This is induction, for sets instead of
\* predicates.)
LEMMA Least == ASSUME NEW T \in SUBSET Nat, T # {}
               PROVE  \E n \in T : \A m \in T : n <= m
<1> DEFINE R == {ss \in Nat \X Nat : ss[1] < ss[2]}
<1>1. IsWellFoundedOn(R, Nat)
  BY NatLessThanWellFounded DEF OpToRel
<1>2. \A m, n \in Nat : <<m, n>> \in R <=> m < n
  OBVIOUS
<1> HIDE DEF R
<1>3. PICK n \in T : \A m \in T : ~ (<<m, n>> \in R)
  BY <1>1, WFMin
<1>4. ASSUME NEW m \in T PROVE n <= m
  <2>1. m \in Nat /\ n \in Nat /\ ~ (<<m, n>> \in R)
    BY <1>3
  <2>2. ~ (m < n)
    BY <1>2, <2>1
  <2> QED
    BY <2>1, <2>2
<1> QED
  BY <1>4

\* The rounds of Spread exist: there is no least n up to which they do not.
Spreads(start, step, g, n) ==
    g = [m \in 0..n |-> IF m = 0 THEN start ELSE g[m - 1] \cup UNION {step[x] : x \in g[m - 1]}]

LEMMA SpreadExists == ASSUME NEW start, NEW step, NEW N \in Nat PROVE \E g : Spreads(start, step, g, N)
<1> DEFINE T == {n \in Nat : ~ \E g : Spreads(start, step, g, n)}
           Next1(X) == X \cup UNION {step[x] : x \in X}
<1> SUFFICES ASSUME T # {} PROVE FALSE
  OBVIOUS
<1>1. PICK n \in T : \A m \in T : n <= m
  <2>1. T \in SUBSET Nat
    OBVIOUS
  <2> HIDE DEF T
  <2> QED
    BY <2>1, Least
<1>2. CASE n = 0
  <2> DEFINE g == [m \in 0..0 |-> start]
  <2>1. Spreads(start, step, g, 0)
    BY DEF Spreads
  <2> QED
    BY <1>1, <1>2, <2>1
<1>3. CASE n # 0
  <2>1. n - 1 \in Nat /\ n - 1 \notin T
    BY <1>1, <1>3
  <2>2. PICK h : Spreads(start, step, h, n - 1)
    BY <2>1
  <2>3. h = [m \in 0..(n - 1) |-> IF m = 0 THEN start ELSE Next1(h[m - 1])]
    BY <2>2 DEF Spreads
  <2> DEFINE g == [m \in 0..n |-> IF m = n THEN Next1(h[n - 1]) ELSE h[m]]
  <2> HIDE DEF Next1
  <2>4. ASSUME NEW m \in 0..n
        PROVE  g[m] = IF m = 0 THEN start ELSE Next1(g[m - 1])
    <3>1. CASE m = n
      <4>1. m - 1 \in 0..n /\ m - 1 # n /\ m # 0
        BY <1>3, <2>1, <3>1
      <4> QED
        BY <3>1, <4>1
    <3>2. CASE m # n
      <4>1. m \in 0..(n - 1) /\ g[m] = h[m]
        BY <2>1, <3>2
      <4>2. h[m] = IF m = 0 THEN start ELSE Next1(h[m - 1])
        BY <2>3, <4>1
      <4>3. m # 0 => m - 1 \in 0..n /\ m - 1 # n
        BY <2>1, <3>2
      <4> QED
        BY <4>1, <4>2, <4>3
    <3> QED
      BY <3>1, <3>2
  <2>5. g = [m \in 0..n |-> g[m]]
    OBVIOUS
  <2> HIDE DEF g
  <2>6. g = [m \in 0..n |-> IF m = 0 THEN start ELSE Next1(g[m - 1])]
    BY <2>4, <2>5
  <2>7. Spreads(start, step, g, n)
    BY <2>6 DEF Spreads, Next1
  <2> QED
    BY <1>1, <2>7
<1> QED
  BY <1>2, <1>3

\* What is closed under the steps and has the start in it has all in it that Spread
\* reaches.
LEMMA SpreadWithin ==
    ASSUME NEW start, NEW step, IsFiniteSet(DOMAIN step), NEW K, start \subseteq K,
           \A x \in K : step[x] \subseteq K
    PROVE  Spread(start, step) \subseteq K
<1> DEFINE N == Cardinality(DOMAIN step)
           grow == CHOOSE g : g = [n \in 0..N |->
                       IF n = 0 THEN start ELSE g[n - 1] \cup UNION {step[x] : x \in g[n - 1]}]
<1>1. N \in Nat
  BY FS_CardinalityType
<1> HIDE DEF N
<1>2. \E g : g = [n \in 0..N |-> IF n = 0 THEN start ELSE g[n - 1] \cup UNION {step[x] : x \in g[n - 1]}]
  <2>1. PICK h : Spreads(start, step, h, N)
    BY <1>1, SpreadExists
  <2>2. h = [n \in 0..N |-> IF n = 0 THEN start ELSE h[n - 1] \cup UNION {step[x] : x \in h[n - 1]}]
    BY <2>1 DEF Spreads
  <2> QED
    BY <2>2
<1>3. Spreads(start, step, grow, N)
  BY <1>2 DEF Spreads
<1>4. Spread(start, step) = grow[N]
  BY DEF Spread, N
<1> HIDE DEF grow
<1>5. \A n \in 0..N : grow[n] = IF n = 0 THEN start ELSE grow[n - 1] \cup UNION {step[x] : x \in grow[n - 1]}
  BY <1>3 DEF Spreads
<1> DEFINE T == {n \in 0..N : ~ (grow[n] \subseteq K)}
<1>6. T = {}
  <2> SUFFICES ASSUME T # {} PROVE FALSE
    OBVIOUS
  <2>1. PICK n \in T : \A m \in T : n <= m
    <3>1. T \in SUBSET Nat
      BY <1>1
    <3> HIDE DEF T
    <3> QED
      BY <3>1, Least
  <2>2. n \in 0..N /\ ~ (grow[n] \subseteq K)
    BY <2>1
  <2>3. n # 0
    BY <1>5, <2>2
  <2>4. n - 1 \in 0..N /\ ~ (n <= n - 1)
    BY <1>1, <2>2, <2>3
  <2>5. grow[n - 1] \subseteq K
    BY <2>1, <2>4
  <2>6. grow[n] = grow[n - 1] \cup UNION {step[x] : x \in grow[n - 1]}
    BY <1>5, <2>2, <2>3
  <2> QED
    BY <2>2, <2>5, <2>6
<1> QED
  BY <1>1, <1>4, <1>6

LEMMA ReachWithin ==
    ASSUME NEW old, IsFiniteSet(DOMAIN old), NEW K \in SUBSET DOMAIN old,
           NEW v, Refers(v, old) => KeyOf(v) \in K,
           \A key \in K : \A i \in DOMAIN old[key] : Refers(old[key][i], old) => KeyOf(old[key][i]) \in K
    PROVE  Reach(v, old) \subseteq K
<1> DEFINE step == [key \in DOMAIN old |-> KeysIn(ToSet(old[key]), old)]
<1>1. KeysIn({v}, old) \subseteq K
  BY DEF KeysIn
<1>2. DOMAIN step = DOMAIN old
  OBVIOUS
<1>3. ASSUME NEW key \in K PROVE step[key] \subseteq K
  BY DEF KeysIn, ToSet
<1>4. Reach(v, old) = Spread(KeysIn({v}, old), step)
  BY DEF Reach
<1>5. IsFiniteSet(DOMAIN step) /\ \A key \in K : step[key] \subseteq K
  BY <1>2, <1>3
<1> HIDE DEF step
<1>6. Spread(KeysIn({v}, old), step) \subseteq K
  BY <1>1, <1>5, SpreadWithin
<1> QED
  BY <1>4, <1>6

\* The same for two values side by side.
LEMMA SideBySideWithin ==
    ASSUME NEW old, IsFiniteSet(DOMAIN old), NEW new, IsFiniteSet(DOMAIN new),
           NEW K \in SUBSET ((DOMAIN old) \X (DOMAIN new)),
           NEW v, NEW w, Refers(v, old) /\ Refers(w, new) => <<KeyOf(v), KeyOf(w)>> \in K,
           \A p \in K : \A i \in DOMAIN old[p[1]] \cap DOMAIN new[p[2]] :
              Refers(old[p[1]][i], old) /\ Refers(new[p[2]][i], new)
                 => <<KeyOf(old[p[1]][i]), KeyOf(new[p[2]][i])>> \in K
    PROVE  SideBySide(v, old, w, new) \subseteq K
<1> DEFINE Cells(p) == {<<old[p[1]][i], new[p[2]][i]>> : i \in DOMAIN old[p[1]] \cap DOMAIN new[p[2]]}
           step == [p \in (DOMAIN old) \X (DOMAIN new) |-> PairsIn(Cells(p), old, new)]
<1>1. PairsIn({<<v, w>>}, old, new) \subseteq K
  BY DEF PairsIn
<1>2. DOMAIN step = (DOMAIN old) \X (DOMAIN new) /\ IsFiniteSet((DOMAIN old) \X (DOMAIN new))
  BY FS_Product
<1>3. ASSUME NEW p \in K PROVE step[p] \subseteq K
  <2>1. step[p] = PairsIn(Cells(p), old, new)
    OBVIOUS
  <2>2. PairsIn(Cells(p), old, new) \subseteq K
    BY DEF PairsIn
  <2> QED
    BY <2>1, <2>2
<1>4. SideBySide(v, old, w, new) = Spread(PairsIn({<<v, w>>}, old, new), step)
  BY DEF SideBySide
<1>5. \A p \in K : step[p] \subseteq K
  BY <1>3
<1> HIDE DEF step
<1>6. IsFiniteSet(DOMAIN step)
  BY <1>2, Zenon
<1>7. Spread(PairsIn({<<v, w>>}, old, new), step) \subseteq K
  BY <1>1, <1>5, <1>6, SpreadWithin
<1> QED
  BY <1>4, <1>7

-----------------------------------------------------------------------------
(* The invariant of the calls.                                             *)
Keys == Kinds \X Nat
Cell == [is : Kinds \cup {"num"}, n : Int]
Store == UNION {[D -> Seq(Cell)] : D \in SUBSET Keys}
Activations == [key : Keys \cup {<<>>}, from : Seq(Cell), done : Seq(Cell), new : Keys \cup {<<>>},
                memo : SUBSET (Keys \X Keys)]

Bindings == [escaped : SUBSET Nat, keys : SUBSET Keys, heap : Store,
             copies : SUBSET (Keys \X Keys), stack : Seq(Activations)]

CallsTypeOK ==
    /\ made \in [Kinds -> Nat]
    /\ content \in Store
    /\ IsFiniteSet(DOMAIN content)
    /\ \A key \in DOMAIN content : key[2] \in 1..made[key[1]]
    /\ frames \in Seq([bindings : SUBSET Keys, reached : SUBSET Keys])
    /\ binding \in Bindings
    /\ IsFiniteSet(DOMAIN binding.heap)
    /\ Binds \/ binding = NoBinding
    /\ \A j \in DOMAIN binding.stack :
          /\ Len(binding.stack[j].done) <= Len(binding.stack[j].from)
          /\ j # 1 => binding.stack[j].key \in Keys /\ binding.stack[j].new \in Keys

\* What a step of the binding does to the activations: it delivers a value to the
\* last of them, whose memo may change,
Gets(old, new, v, memo) ==
    /\ new \in Seq(Activations)
    /\ Len(new) = Len(old)
    /\ \A j \in 1..Len(old) :
          /\ new[j].key = old[j].key /\ new[j].from = old[j].from /\ new[j].new = old[j].new
          /\ new[j].memo = IF j = Len(old) THEN memo ELSE old[j].memo
          /\ new[j].done = IF j = Len(old) THEN Append(old[j].done, v) ELSE old[j].done

LEMMA DeliverIs ==
    ASSUME NEW stack \in Seq(Activations), stack # <<>>, NEW v \in Cell
    PROVE  Gets(stack, Deliver(stack, v), v, stack[Len(stack)].memo)
<1> DEFINE n == Len(stack)
           a == stack[n]
           b == [a EXCEPT !.done = Append(@, v)]
<1>1. n \in Nat \ {0} /\ a \in Activations
  BY EmptySeq, ElementOfSeq
<1>2. Deliver(stack, v) = [stack EXCEPT ![n] = b]
  BY DEF Deliver
<1>3. a.done \in Seq(Cell) /\ Append(a.done, v) \in Seq(Cell)
  BY <1>1, AppendProperties DEF Activations
<1>4. b \in Activations
  BY <1>1, <1>3 DEF Activations
<1>5. b.done = Append(a.done, v) /\ b.key = a.key /\ b.from = a.from /\ b.new = a.new /\ b.memo = a.memo
  BY <1>1 DEF Activations
<1> HIDE DEF b
<1>6. /\ [stack EXCEPT ![n] = b] \in Seq(Activations)
      /\ Len([stack EXCEPT ![n] = b]) = n
      /\ \A j \in 1..n : [stack EXCEPT ![n] = b][j] = IF j = n THEN b ELSE stack[j]
  BY <1>1, <1>4, ExceptSeq
<1> HIDE DEF n, a
<1>7. Deliver(stack, v) \in Seq(Activations) /\ Len(Deliver(stack, v)) = n
  BY <1>2, <1>6
<1>8. ASSUME NEW j \in 1..n
      PROVE  LET c == stack[j]
                 d == Deliver(stack, v)[j]
             IN  /\ d.key = c.key /\ d.from = c.from /\ d.new = c.new
                 /\ d.memo = IF j = n THEN a.memo ELSE c.memo
                 /\ d.done = IF j = n THEN Append(c.done, v) ELSE c.done
  <2>1. CASE j = n
    BY <1>2, <1>5, <1>6, <2>1 DEF a, n
  <2>2. CASE j # n
    BY <1>2, <1>6, <2>2
  <2> QED
    BY <2>1, <2>2
<1> QED
  BY <1>1, <1>7, <1>8 DEF n, a, Gets

\* or, at the end of a copy, to the one below it.
LEMMA EndCopyIs ==
    ASSUME NEW stack \in Seq(Activations), Len(stack) > 1, NEW v \in Cell, NEW memo \in SUBSET (Keys \X Keys)
    PROVE  /\ Front(stack) \in Seq(Activations) /\ Len(Front(stack)) = Len(stack) - 1
           /\ \A j \in 1..(Len(stack) - 1) : Front(stack)[j] = stack[j]
           /\ Gets(Front(stack), Deliver([Front(stack) EXCEPT ![Len(Front(stack))].memo = memo], v), v, memo)
<1> DEFINE below == Front(stack)
           n == Len(below)
           b == [below[n] EXCEPT !.memo = memo]
           under == [below EXCEPT ![n] = b]
<1>1. below \in Seq(Activations) /\ n = Len(stack) - 1 /\ \A j \in 1..n : below[j] = stack[j]
  <2>1. Len(stack) \in Nat /\ \A j \in 1..(Len(stack) - 1) : stack[j] \in Activations
    BY ElementOfSeq, LenProperties
  <2>2. below = SubSeq(stack, 1, Len(stack) - 1)
    BY DEF Front
  <2>3. /\ SubSeq(stack, 1, Len(stack) - 1) \in Seq(Activations)
        /\ Len(SubSeq(stack, 1, Len(stack) - 1)) = Len(stack) - 1
        /\ \A j \in 1..(Len(stack) - 1) : SubSeq(stack, 1, Len(stack) - 1)[j] = stack[j]
    BY <2>1
  <2> QED
    BY <2>2, <2>3
<1>2. n \in 1..n /\ below[n] \in Activations
  <2>1. Len(stack) \in Nat
    BY LenProperties
  <2>2. n \in 1..n
    BY <1>1, <2>1
  <2> QED
    BY <1>1, <2>2, ElementOfSeq
<1> HIDE DEF below
<1>3. b \in Activations
  BY <1>2 DEF Activations
<1>4. b.key = below[n].key /\ b.from = below[n].from /\ b.new = below[n].new /\ b.done = below[n].done /\ b.memo = memo
  BY <1>2 DEF Activations
<1> HIDE DEF b
<1>5. under \in Seq(Activations) /\ Len(under) = n /\ \A j \in 1..n : under[j] = IF j = n THEN b ELSE below[j]
  BY <1>1, <1>2, <1>3, ExceptSeq
<1>6. [below EXCEPT ![n].memo = memo] = under
  BY DEF b
<1> HIDE DEF under, n
<1>7. under # <<>>
  BY <1>2, <1>5, EmptySeq
<1>8. Gets(under, Deliver(under, v), v, under[n].memo)
  BY <1>5, <1>7, DeliverIs
<1>9. under[n].memo = memo
  BY <1>2, <1>4, <1>5
<1>10. Gets(below, Deliver(under, v), v, memo)
  <2>1. /\ Deliver(under, v) \in Seq(Activations) /\ Len(Deliver(under, v)) = n
        /\ \A j \in 1..n :
              LET d == Deliver(under, v)[j]
              IN  /\ d.key = under[j].key /\ d.from = under[j].from /\ d.new = under[j].new
                  /\ d.memo = IF j = n THEN memo ELSE under[j].memo
                  /\ d.done = IF j = n THEN Append(under[j].done, v) ELSE under[j].done
    BY <1>5, <1>8, <1>9 DEF Gets
  <2>2. ASSUME NEW j \in 1..n
        PROVE  LET c == below[j]
                   d == Deliver(under, v)[j]
               IN  /\ d.key = c.key /\ d.from = c.from /\ d.new = c.new
                   /\ d.memo = IF j = n THEN memo ELSE c.memo
                   /\ d.done = IF j = n THEN Append(c.done, v) ELSE c.done
    <3>1. CASE j = n
      <4>1. under[j] = b
        BY <1>5, <3>1
      <4> QED
        BY <1>4, <2>1, <3>1, <4>1
    <3>2. CASE j # n
      BY <1>5, <2>1, <3>2
    <3> QED
      BY <3>1, <3>2
  <2> QED
    BY <2>1, <2>2 DEF Gets, n
<1> QED
  BY <1>1, <1>6, <1>10 DEF below, n

-----------------------------------------------------------------------------
\* What the content may be.
LEMMA StoreIs ==
    ASSUME NEW f \in Store
    PROVE  DOMAIN f \in SUBSET Keys /\ \A x \in DOMAIN f : f[x] \in Seq(Cell)
<1>1. PICK D \in SUBSET Keys : f \in [D -> Seq(Cell)]
  BY DEF Store
<1> QED
  BY <1>1

LEMMA IsStore ==
    ASSUME NEW D \in SUBSET Keys, NEW f, f = [x \in D |-> f[x]], \A x \in D : f[x] \in Seq(Cell)
    PROVE  f \in Store /\ DOMAIN f = D
<1>1. f \in [D -> Seq(Cell)]
  OBVIOUS
<1> QED
  BY <1>1 DEF Store

IsWith(g, f, x, s) ==
    /\ g \in Store
    /\ DOMAIN g = DOMAIN f \cup {x}
    /\ IsFiniteSet(DOMAIN g)
    /\ \A y \in DOMAIN f \cup {x} : g[y] = IF y = x THEN s ELSE f[y]

LEMMA StoreWith ==
    ASSUME NEW f \in Store, IsFiniteSet(DOMAIN f), NEW x \in Keys, NEW s \in Seq(Cell)
    PROVE  IsWith(With(f, x, s), f, x, s)
<1> DEFINE D == DOMAIN f \cup {x}
           g == [y \in D |-> IF y = x THEN s ELSE f[y]]
<1>1. D \in SUBSET Keys /\ g = [y \in D |-> g[y]] /\ \A y \in D : g[y] \in Seq(Cell)
  BY StoreIs
<1>2. With(f, x, s) = g
  BY DEF With
<1>3. \A y \in D : g[y] = IF y = x THEN s ELSE f[y]
  OBVIOUS
<1> HIDE DEF g
<1>4. g \in Store /\ DOMAIN g = D
  BY <1>1, IsStore
<1>5. IsFiniteSet(DOMAIN f \cup {x})
  BY FS_AddElement
<1> QED
  BY <1>2, <1>3, <1>4, <1>5 DEF IsWith

LEMMA StoreExcept ==
    ASSUME NEW f \in Store, NEW x \in DOMAIN f, NEW s \in Seq(Cell)
    PROVE  /\ [f EXCEPT ![x] = s] \in Store
           /\ DOMAIN [f EXCEPT ![x] = s] = DOMAIN f
           /\ \A y \in DOMAIN f : [f EXCEPT ![x] = s][y] = IF y = x THEN s ELSE f[y]
<1> DEFINE g == [f EXCEPT ![x] = s]
<1>1. DOMAIN f \in SUBSET Keys /\ \A y \in DOMAIN f : f[y] \in Seq(Cell)
  BY StoreIs
<1>2. \A y \in DOMAIN f : g[y] = IF y = x THEN s ELSE f[y]
  OBVIOUS
<1>3. g = [y \in DOMAIN f |-> g[y]]
  OBVIOUS
<1> HIDE DEF g
<1>4. \A y \in DOMAIN f : g[y] \in Seq(Cell)
  BY <1>1, <1>2
<1>5. g \in Store /\ DOMAIN g = DOMAIN f
  BY <1>1, <1>3, <1>4, IsStore
<1> QED
  BY <1>2, <1>5 DEF g

LEMMA StoreWithout ==
    ASSUME NEW f \in Store, IsFiniteSet(DOMAIN f), NEW x
    PROVE  /\ [y \in DOMAIN f \ {x} |-> f[y]] \in Store
           /\ IsFiniteSet(DOMAIN f \ {x})
<1> DEFINE D == DOMAIN f \ {x}
           g == [y \in D |-> f[y]]
<1>1. D \in SUBSET Keys /\ g = [y \in D |-> g[y]] /\ \A y \in D : g[y] \in Seq(Cell)
  BY StoreIs
<1> HIDE DEF g
<1>2. g \in Store
  BY <1>1, IsStore
<1>3. IsFiniteSet(D)
  BY FS_RemoveElement
<1> QED
  BY <1>2, <1>3 DEF g

LEMMA NoneIsStore == None \in Store /\ DOMAIN None = {} /\ IsFiniteSet(DOMAIN None)
<1>1. None = [x \in {} |-> None[x]] /\ DOMAIN None = {}
  BY DEF None
<1> QED
  BY <1>1, IsStore, FS_EmptySet

LEMMA NoBindingIs ==
    /\ NoBinding \in Bindings
    /\ NoBinding.keys = {} /\ NoBinding.copies = {} /\ NoBinding.heap = None /\ NoBinding.stack = <<>>
    /\ Len(NoBinding.stack) = 0 /\ DOMAIN NoBinding.stack = {}
<1>1. <<>> \in Seq(Activations) /\ Len(<<>>) = 0 /\ DOMAIN <<>> = {}
  OBVIOUS
<1> QED
  BY <1>1, NoneIsStore DEF NoBinding, Bindings

LEMMA CellIs ==
    /\ Zero \in Cell
    /\ \A v \in Cell : \A key \in Keys : Naming(v, key) \in Cell /\ Naming(v, key).is = v.is
    /\ CallsTypeOK => KnownValues \subseteq Cell
<1>1. Zero \in Cell
  BY DEF Zero, Cell
<1>2. ASSUME NEW v \in Cell, NEW key \in Keys PROVE Naming(v, key) \in Cell /\ Naming(v, key).is = v.is
  BY DEF Naming, Cell, Keys
<1>3. ASSUME CallsTypeOK, NEW v \in KnownValues PROVE v \in Cell
  <2>1. Numbers \subseteq Int /\ \A kind \in Kinds : made[kind] \in Nat
    BY <1>3, CopyAssumption DEF CallsTypeOK
  <2>2. CASE \E n \in Numbers : v = [is |-> "num", n |-> n]
    BY <2>1, <2>2 DEF Cell
  <2>3. CASE \E kind \in Kinds : \E n \in 1..made[kind] : v = [is |-> kind, n |-> n]
    BY <2>1, <2>3 DEF Cell
  <2> QED
    BY <2>2, <2>3 DEF KnownValues
<1> QED
  BY <1>1, <1>2, <1>3

LEMMA BlankIs ==
    ASSUME NEW n \in Nat
    PROVE  Blank(n) \in Seq(Cell) /\ Len(Blank(n)) = n /\ \A i \in DOMAIN Blank(n) : Blank(n)[i] = Zero
  BY CellIs DEF Blank

\* A copy that is half made holds what has been copied, and zeros behind it.
HalfDone(s, done, from) ==
    /\ s \in Seq(Cell)
    /\ Len(done) = Len(from) => s = done
    /\ \A i \in DOMAIN s : s[i] = Zero \/ (i \in DOMAIN done /\ s[i] = done[i])

LEMMA PartlyIs ==
    ASSUME NEW new, NEW done \in Seq(Cell), NEW from \in Seq(Cell), Len(done) <= Len(from)
    PROVE  HalfDone(Partly(new, done, from), done, from)
<1>1. PICK n \in Nat, m \in Nat : n = Len(done) /\ m = Len(from) /\ n <= m /\ DOMAIN done = 1..n
  BY LenProperties
<1>2. CASE new[1] # "ptr"
  BY <1>2 DEF Partly, HalfDone
<1>3. CASE new[1] = "ptr"
  <2>0. PICK k \in Nat : k = m - n
    BY <1>1
  <2>1. PICK b : b = Blank(k)
    OBVIOUS
  <2>2. b \in Seq(Cell) /\ Len(b) = k /\ DOMAIN b = 1..k /\ \A i \in 1..k : b[i] = Zero
    BY <2>1, BlankIs, LenProperties
  <2>3. Partly(new, done, from) = done \o b
    BY <1>1, <1>3, <2>0, <2>1 DEF Partly
  <2>4. /\ done \o b \in Seq(Cell) /\ Len(done \o b) = Len(done) + Len(b)
        /\ \A i \in 1..(Len(done) + Len(b)) : (done \o b)[i] = IF i <= Len(done) THEN done[i] ELSE b[i - Len(done)]
    BY <2>2, ConcatProperties
  <2>5. Len(done \o b) = m /\ DOMAIN (done \o b) = 1..m /\ Len(done) + Len(b) = m
    BY <1>1, <2>0, <2>2, <2>4, LenProperties
  <2>6. ASSUME NEW i \in 1..m PROVE (done \o b)[i] = Zero \/ (i \in 1..n /\ (done \o b)[i] = done[i])
    <3>1. CASE i <= n
      BY <1>1, <2>4, <2>5, <3>1
    <3>2. CASE ~(i <= n)
      <4>1. i - n \in 1..k
        BY <1>1, <2>0, <3>2
      <4> QED
        BY <1>1, <2>2, <2>4, <2>5, <3>2, <4>1
    <3> QED
      BY <3>1, <3>2
  <2>7. ASSUME n = m PROVE done \o b = done
    <3>1. \A i \in 1..m : (done \o b)[i] = done[i]
      BY <1>1, <2>4, <2>5, <2>7
    <3>2. Len(done \o b) = Len(done) /\ \A i \in 1..Len(done \o b) : (done \o b)[i] = done[i]
      BY <1>1, <2>5, <2>7, <3>1
    <3> QED
      BY <2>4, <3>2, SeqEqual
  <2> QED
    BY <1>1, <2>3, <2>4, <2>5, <2>6, <2>7 DEF HalfDone
<1> QED
  BY <1>2, <1>3

-----------------------------------------------------------------------------
\* The types of what changes the content outside the binding of arguments.
ContentTypeOK ==
    /\ made \in [Kinds -> Nat]
    /\ content \in Store
    /\ IsFiniteSet(DOMAIN content)
    /\ \A key \in DOMAIN content : key[2] \in 1..made[key[1]]

LEMMA Unbound ==
    ASSUME CallsTypeOK, ContentTypeOK', UNCHANGED <<frames, binding>>
    PROVE  CallsTypeOK'
  BY DEF CallsTypeOK, ContentTypeOK, Binds

LEMMA MakeTyped ==
    ASSUME CallsTypeOK, NEW kind \in Kinds, NEW values \in Seq(Cell), Make(kind, values)
    PROVE  /\ ContentTypeOK'
           /\ NewKey(kind) \in Keys \ DOMAIN content /\ NewKey(kind)[1] = kind
           /\ NewKey(kind)[2] = made[kind] + 1
           /\ \A k \in Kinds : made[k] <= made'[k]
           /\ DOMAIN content' = DOMAIN content \cup {NewKey(kind)}
           /\ content'[NewKey(kind)] = values
           /\ \A key \in DOMAIN content : content'[key] = content[key]
<1> DEFINE new == NewKey(kind)
<1>1. /\ made \in [Kinds -> Nat] /\ content \in Store /\ IsFiniteSet(DOMAIN content)
      /\ \A key \in DOMAIN content : key[2] \in 1..made[key[1]]
  BY DEF CallsTypeOK
<1>2. new \in Keys /\ new[1] = kind /\ new[2] = made[kind] + 1
  BY <1>1 DEF NewKey, Keys
<1>3. new \notin DOMAIN content
  BY <1>1, <1>2
<1>5. made' = [made EXCEPT ![kind] = @ + 1] /\ content' = With(content, new, values)
  BY DEF Make
<1>6. made' \in [Kinds -> Nat] /\ \A k \in Kinds : made'[k] = IF k = kind THEN made[k] + 1 ELSE made[k]
  BY <1>1, <1>5
<1>7. ASSUME NEW k \in Kinds PROVE made[k] <= made'[k]
  <2>1. PICK n \in Nat : n = made[k]
    BY <1>1
  <2>2. made'[k] = n \/ made'[k] = n + 1
    BY <1>6, <2>1
  <2> QED
    BY <2>1, <2>2
<1> HIDE DEF new
<1>8. /\ content' \in Store /\ DOMAIN content' = DOMAIN content \cup {new} /\ IsFiniteSet(DOMAIN content')
      /\ \A key \in DOMAIN content \cup {new} : content'[key] = IF key = new THEN values ELSE content[key]
  <2>1. content \in Store /\ IsFiniteSet(DOMAIN content) /\ new \in Keys /\ values \in Seq(Cell)
    BY <1>1, <1>2
  <2>2. IsWith(content', content, new, values)
    BY <1>5, <2>1, StoreWith
  <2> QED
    BY <2>2 DEF IsWith
<1>9. ASSUME NEW key \in DOMAIN content'
      PROVE  key[2] \in 1..made'[key[1]]
  <2>1. CASE key = new
    BY <1>1, <1>2, <1>6, <2>1
  <2>2. CASE key \in DOMAIN content
    <3>1. key \in Keys /\ key[2] \in 1..made[key[1]] /\ key[1] \in Kinds
      BY <1>1, <2>2, StoreIs DEF Keys
    <3> QED
      BY <1>1, <1>6, <1>7, <3>1
  <2> QED
    BY <1>8, <2>1, <2>2
<1>10. ContentTypeOK'
  BY <1>6, <1>8, <1>9 DEF ContentTypeOK
<1> QED
  BY <1>2, <1>3, <1>7, <1>8, <1>10 DEF new

LEMMA StoredTyped ==
    ASSUME CallsTypeOK, NEW key \in DOMAIN content, NEW s \in Seq(Cell),
           content' = [content EXCEPT ![key] = s], UNCHANGED made
    PROVE  /\ ContentTypeOK'
           /\ DOMAIN content' = DOMAIN content
           /\ \A k \in DOMAIN content : content'[k] = IF k = key THEN s ELSE content[k]
<1>1. /\ content' \in Store /\ DOMAIN content' = DOMAIN content
      /\ \A k \in DOMAIN content : content'[k] = IF k = key THEN s ELSE content[k]
  BY StoreExcept DEF CallsTypeOK
<1>2. ContentTypeOK'
  BY <1>1 DEF CallsTypeOK, ContentTypeOK
<1> QED
  BY <1>1, <1>2

\* The actions of the running program.
Program ==
    \/ \E kind \in Kinds : Create(kind)
    \/ \E key \in DOMAIN content, i \in 1..(Width + 1), v \in KnownValues : Write(key, i, v) \/ MapSet(key, i, v)
    \/ \E key \in DOMAIN content, v \in KnownValues : PushTo(key, v)
    \/ \E key \in DOMAIN content, i \in 1..(Width + 1) : TakeFrom(key, i)
    \/ \E key \in DOMAIN content, i, j \in 1..(Width + 1) : Exchange(key, i, j)
    \/ \E key \in DOMAIN content : Free(key)

\* How a step of the program may change what a key holds.
Stores(key, s) ==
    /\ content' = [content EXCEPT ![key] = s]
    /\ s \in Seq(Cell)
    /\ writes' # writes => ~Protected(key)
    /\ \A i \in DOMAIN s : s[i] \in KnownValues \/ \E j \in DOMAIN content[key] : s[i] = content[key][j]

\* Sequences that hold what a sequence holds, and perhaps one value more.
From(s, c, V) == \A i \in DOMAIN s : s[i] \in V \/ \E j \in DOMAIN c : s[i] = c[j]

LEMMA WithIs ==
    ASSUME NEW S, NEW c \in Seq(S), NEW v \in S, NEW i \in 1..(Len(c) + 1)
    PROVE  With(c, i, v) \in Seq(S) /\ From(With(c, i, v), c, {v})
<1>1. PICK n \in Nat : n = Len(c)
  BY LenProperties
<1>2. DOMAIN c = 1..n /\ \A j \in 1..n : c[j] \in S
  BY <1>1
<1>3. PICK m \in Nat : DOMAIN c \cup {i} = 1..m
  <2>1. CASE i = n + 1
    <3>1. (1..n) \cup {n + 1} = 1..(n + 1)
      OBVIOUS
    <3> QED
      BY <1>2, <2>1, <3>1
  <2>2. CASE i # n + 1
    <3>1. i \in 1..n
      BY <1>1, <2>2
    <3> QED
      BY <1>2, <3>1
  <2> QED
    BY <2>1, <2>2
<1>4. With(c, i, v) = [j \in 1..m |-> IF j = i THEN v ELSE c[j]]
  BY <1>3 DEF With
<1>5. \A j \in 1..m : j = i \/ j \in DOMAIN c
  BY <1>3
<1>6. With(c, i, v) \in Seq(S)
  <2>1. \A j \in 1..m : (IF j = i THEN v ELSE c[j]) \in S
    BY <1>2, <1>5
  <2> QED
    BY <1>4, <2>1
<1>7. From(With(c, i, v), c, {v})
  BY <1>4, <1>5 DEF From
<1> QED
  BY <1>6, <1>7

LEMMA RemovedIs ==
    ASSUME NEW S, NEW c \in Seq(S), NEW i \in DOMAIN c
    PROVE  RemoveAt(c, i) \in Seq(S) /\ From(RemoveAt(c, i), c, {})
<1>1. PICK n \in Nat : n = Len(c)
  BY LenProperties
<1>2. DOMAIN c = 1..n /\ i \in 1..n /\ \A j \in 1..n : c[j] \in S
  BY <1>1
<1> DEFINE a == SubSeq(c, 1, i - 1)
           b == SubSeq(c, i + 1, n)
<1>3. a \in Seq(S) /\ Len(a) = i - 1 /\ \A j \in 1..(i - 1) : a[j] = c[j]
  BY <1>2
<1>4. b \in Seq(S) /\ Len(b) = n - i /\ \A j \in 1..(n - i) : b[j] = c[i + j]
  BY <1>2
<1>5. RemoveAt(c, i) = a \o b
  BY <1>1 DEF RemoveAt
<1> HIDE DEF a, b
<1>6. /\ a \o b \in Seq(S) /\ Len(a \o b) = Len(a) + Len(b)
      /\ \A j \in 1..(Len(a) + Len(b)) : (a \o b)[j] = IF j <= Len(a) THEN a[j] ELSE b[j - Len(a)]
  BY <1>3, <1>4, ConcatProperties
<1>7. DOMAIN (a \o b) = 1..(n - 1) /\ Len(a) + Len(b) = n - 1
  BY <1>2, <1>3, <1>4, <1>6, LenProperties
<1>8. ASSUME NEW j \in 1..(n - 1) PROVE \E k \in 1..n : (a \o b)[j] = c[k]
  <2>1. CASE j <= i - 1
    <3>1. j \in 1..(i - 1) /\ j \in 1..n
      BY <1>2, <2>1
    <3> QED
      BY <1>2, <1>3, <1>6, <1>7, <2>1, <3>1
  <2>2. CASE ~(j <= i - 1)
    <3>1. j - (i - 1) \in 1..(n - i) /\ i + (j - (i - 1)) = j + 1 /\ j + 1 \in 1..n
      BY <1>2, <2>2
    <3>2. (a \o b)[j] = b[j - (i - 1)]
      BY <1>2, <1>3, <1>6, <1>7, <2>2
    <3> QED
      BY <1>4, <3>1, <3>2
  <2> QED
    BY <2>1, <2>2
<1> QED
  BY <1>2, <1>5, <1>6, <1>7, <1>8 DEF From

LEMMA ExchangedIs ==
    ASSUME NEW S, NEW c \in Seq(S), NEW i \in DOMAIN c, NEW j \in DOMAIN c
    PROVE  /\ [c EXCEPT ![i] = c[j], ![j] = c[i]] \in Seq(S)
           /\ From([c EXCEPT ![i] = c[j], ![j] = c[i]], c, {})
<1>1. PICK n \in Nat : n = Len(c)
  BY LenProperties
<1>2. DOMAIN c = 1..n /\ \A k \in 1..n : c[k] \in S
  BY <1>1
<1> DEFINE s == [c EXCEPT ![i] = c[j], ![j] = c[i]]
<1>3. s = [k \in 1..n |-> IF k = j THEN c[i] ELSE IF k = i THEN c[j] ELSE c[k]]
  BY <1>2
<1> HIDE DEF s
<1>4. s \in Seq(S)
  <2>1. \A k \in 1..n : (IF k = j THEN c[i] ELSE IF k = i THEN c[j] ELSE c[k]) \in S
    BY <1>2
  <2> QED
    BY <1>3, <2>1
<1>5. From(s, c, {})
  BY <1>2, <1>3 DEF From
<1> QED
  BY <1>4, <1>5 DEF s

LEMMA AppendedIs ==
    ASSUME NEW S, NEW c \in Seq(S), NEW v \in S
    PROVE  Append(c, v) \in Seq(S) /\ From(Append(c, v), c, {v})
<1>1. PICK n \in Nat : n = Len(c)
  BY LenProperties
<1>2. Append(c, v) \in Seq(S) /\ Len(Append(c, v)) = n + 1 /\ Append(c, v)[n + 1] = v /\ \A j \in 1..n : Append(c, v)[j] = c[j]
  BY <1>1, AppendProperties
<1> DEFINE s == Append(c, v)
<1> HIDE DEF s
<1>3. DOMAIN s = 1..(n + 1) /\ DOMAIN c = 1..n
  BY <1>1, <1>2, LenProperties DEF s
<1>4. \A j \in 1..(n + 1) : j = n + 1 \/ j \in 1..n
  OBVIOUS
<1>5. From(s, c, {v})
  BY <1>2, <1>3, <1>4 DEF From, s
<1> QED
  BY <1>2, <1>5 DEF s

LEMMA FrontIs ==
    ASSUME NEW S, NEW c \in Seq(S), c # <<>>
    PROVE  /\ Front(c) \in Seq(S)
           /\ Len(c) \in Nat \ {0}
           /\ Len(Front(c)) = Len(c) - 1
           /\ Len(Front(c)) # Len(c)
           /\ DOMAIN Front(c) = 1..(Len(c) - 1)
           /\ \A j \in DOMAIN Front(c) : j \in DOMAIN c /\ Front(c)[j] = c[j]
<1> DEFINE s == Front(c)
           n == Len(c)
<1>1. n \in Nat \ {0} /\ DOMAIN c = 1..n /\ \A j \in 1..n : c[j] \in S
  BY LenProperties, EmptySeq, ElementOfSeq
<1>2. s = SubSeq(c, 1, n - 1)
  BY DEF Front
<1>3. s \in Seq(S) /\ Len(s) = n - 1 /\ \A j \in 1..(n - 1) : s[j] = c[j]
  BY <1>1, <1>2
<1> HIDE DEF s, n
<1>4. DOMAIN s = 1..(n - 1)
  BY <1>3, LenProperties
<1>5. n - 1 # n /\ \A j \in 1..(n - 1) : j \in 1..n
  BY <1>1
<1>6. Len(s) # n
  BY <1>3, <1>5, Zenon
<1>7. ASSUME NEW j \in DOMAIN s PROVE j \in DOMAIN c /\ s[j] = c[j]
  BY <1>1, <1>3, <1>4, <1>5, Zenon
<1> QED
  BY <1>1, <1>3, <1>4, <1>6, <1>7, Zenon DEF s, n

LEMMA FromStores ==
    ASSUME CallsTypeOK, NEW key \in DOMAIN content, NEW s \in Seq(Cell), NEW V \in SUBSET KnownValues,
           From(s, content[key], V), content' = [content EXCEPT ![key] = s], writes' # writes => ~Protected(key)
    PROVE  Stores(key, s)
  BY Zenon DEF From, Stores

LEMMA PlaceIs ==
    ASSUME CallsTypeOK, NEW key \in DOMAIN content, NEW i, HasPlace(key, i)
    PROVE  i \in 1..(Len(content[key]) + 1)
<1>1. content[key] \in Seq(Cell)
  BY StoreIs DEF CallsTypeOK
<1>2. PICK n \in Nat : n = Len(content[key]) /\ DOMAIN content[key] = 1..n
  BY <1>1, LenProperties
<1> QED
  BY <1>2 DEF HasPlace

LEMMA WriteStores ==
    ASSUME CallsTypeOK, NEW key \in DOMAIN content, NEW i, NEW v \in KnownValues, Write(key, i, v) \/ MapSet(key, i, v)
    PROVE  \E s : Stores(key, s)
<1> DEFINE s == With(content[key], i, v)
<1>1. content[key] \in Seq(Cell) /\ v \in Cell
  BY StoreIs, CellIs DEF CallsTypeOK
<1>2. HasPlace(key, i) /\ content' = [content EXCEPT ![key] = s] /\ (writes' # writes => ~Protected(key))
  BY DEF Write, MapSet, Bypass
<1>3. s \in Seq(Cell) /\ From(s, content[key], {v})
  BY <1>1, <1>2, PlaceIs, WithIs
<1> HIDE DEF s
<1> QED
  BY <1>2, <1>3, FromStores

LEMMA PushStores ==
    ASSUME CallsTypeOK, NEW key \in DOMAIN content, NEW v \in KnownValues, PushTo(key, v)
    PROVE  \E s : Stores(key, s)
<1> DEFINE s == Append(content[key], v)
<1>1. content[key] \in Seq(Cell) /\ v \in Cell
  BY StoreIs, CellIs DEF CallsTypeOK
<1>2. content' = [content EXCEPT ![key] = s] /\ writes' = writes
  BY DEF PushTo, Bypass
<1>3. s \in Seq(Cell) /\ From(s, content[key], {v})
  BY <1>1, AppendedIs
<1> HIDE DEF s
<1> QED
  BY <1>2, <1>3, FromStores

LEMMA TakeStores ==
    ASSUME CallsTypeOK, NEW key \in DOMAIN content, NEW i, TakeFrom(key, i)
    PROVE  \E s : Stores(key, s)
<1> DEFINE s == RemoveAt(content[key], i)
<1>1. content[key] \in Seq(Cell) /\ i \in DOMAIN content[key]
  BY StoreIs DEF CallsTypeOK, TakeFrom
<1>2. content' = [content EXCEPT ![key] = s] /\ writes' = writes
  BY DEF TakeFrom, Bypass
<1>3. s \in Seq(Cell) /\ From(s, content[key], {}) /\ {} \in SUBSET KnownValues
  BY <1>1, RemovedIs
<1> HIDE DEF s
<1> QED
  BY <1>2, <1>3, FromStores

LEMMA ExchangeStores ==
    ASSUME CallsTypeOK, NEW key \in DOMAIN content, NEW i, NEW j, Exchange(key, i, j)
    PROVE  \E s : Stores(key, s)
<1> DEFINE c == content[key]
           s == [c EXCEPT ![i] = c[j], ![j] = c[i]]
<1>1. c \in Seq(Cell) /\ i \in DOMAIN c /\ j \in DOMAIN c
  BY StoreIs DEF CallsTypeOK, Exchange
<1>2. content' = [content EXCEPT ![key][i] = content[key][j], ![key][j] = content[key][i]] /\ writes' = writes
  BY DEF Exchange, Bypass
<1>3. content' = [content EXCEPT ![key] = s]
  BY <1>2
<1>4. s \in Seq(Cell) /\ From(s, content[key], {}) /\ {} \in SUBSET KnownValues
  BY <1>1, ExchangedIs
<1> HIDE DEF s
<1> QED
  BY <1>2, <1>3, <1>4, FromStores

\* What a step of the program leaves as it is.
ProgramKeeps ==
    /\ UNCHANGED <<frames, binding>>
    /\ ~Binds
    /\ \A kind \in Kinds : made[kind] <= made'[kind]
    /\ \A key \in DOMAIN content' :
          /\ key \in DOMAIN content \/ key[2] > made[key[1]]
          /\ \A i \in DOMAIN content'[key] :
                \/ content'[key][i] \in KnownValues \cup {Zero}
                \/ key \in DOMAIN content /\ \E j \in DOMAIN content[key] : content'[key][i] = content[key][j]
    /\ writes' # writes =>
          \A key \in DOMAIN content : Protected(key) => key \in DOMAIN content' /\ content'[key] = content[key]

LEMMA ProgramIs ==
    ASSUME CallsTypeOK, Program
    PROVE  CallsTypeOK' /\ ProgramKeeps
<1>1. /\ made \in [Kinds -> Nat] /\ content \in Store /\ IsFiniteSet(DOMAIN content)
      /\ \A key \in DOMAIN content : key[2] \in 1..made[key[1]]
  BY DEF CallsTypeOK
<1>2. \A kind \in Kinds : made[kind] <= made[kind]
  BY <1>1
<1>3. ASSUME NEW kind \in Kinds, Create(kind)
      PROVE  CallsTypeOK' /\ ProgramKeeps
  <2>1. Make(kind, Blank(Width)) /\ ~Binds /\ UNCHANGED <<frames, binding>> /\ writes' = writes /\ Width \in Nat
    BY <1>3, CopyAssumption DEF Create, counters
  <2>2. Blank(Width) \in Seq(Cell) /\ \A i \in DOMAIN Blank(Width) : Blank(Width)[i] = Zero
    BY <2>1, BlankIs
  <2>3. /\ ContentTypeOK'
        /\ NewKey(kind)[1] = kind /\ NewKey(kind)[2] = made[kind] + 1
        /\ \A k \in Kinds : made[k] <= made'[k]
        /\ DOMAIN content' = DOMAIN content \cup {NewKey(kind)}
        /\ content'[NewKey(kind)] = Blank(Width)
        /\ \A key \in DOMAIN content : content'[key] = content[key]
    BY <2>1, <2>2, MakeTyped
  <2>4. ASSUME NEW key \in DOMAIN content'
        PROVE  /\ key \in DOMAIN content \/ key[2] > made[key[1]]
               /\ \A i \in DOMAIN content'[key] :
                     \/ content'[key][i] = Zero
                     \/ key \in DOMAIN content /\ \E j \in DOMAIN content[key] : content'[key][i] = content[key][j]
    <3>1. CASE key \in DOMAIN content
      BY <2>3, <3>1
    <3>2. CASE key = NewKey(kind)
      <4>1. key[2] > made[key[1]]
        BY <1>1, <2>3, <3>2
      <4>2. \A i \in DOMAIN content'[key] : content'[key][i] = Zero
        BY <2>2, <2>3, <3>2
      <4> QED
        BY <2>3, <4>1, <4>2
    <3> QED
      BY <2>3, <3>1, <3>2
  <2> QED
    BY <2>1, <2>3, <2>4, Unbound, Zenon DEF ProgramKeeps
<1>4. ASSUME NEW key \in DOMAIN content, NEW s, Stores(key, s), ~Binds, UNCHANGED <<made, frames, binding>>
      PROVE  CallsTypeOK' /\ ProgramKeeps
  <2>1. /\ ContentTypeOK'
        /\ DOMAIN content' = DOMAIN content
        /\ \A k \in DOMAIN content : content'[k] = IF k = key THEN s ELSE content[k]
    BY <1>4, StoredTyped DEF Stores
  <2>2. ASSUME NEW k \in DOMAIN content'
        PROVE  /\ writes' # writes /\ Protected(k) => content'[k] = content[k]
               /\ \A i \in DOMAIN content'[k] :
                     content'[k][i] \in KnownValues \/ \E j \in DOMAIN content[k] : content'[k][i] = content[k][j]
    <3>1. CASE k = key
      <4>1. content'[k] = s
        BY <2>1, <3>1
      <4> QED
        BY <1>4, <3>1, <4>1, Zenon DEF Stores
    <3>2. CASE k # key
      <4>1. content'[k] = content[k]
        BY <2>1, <3>2
      <4> QED
        BY <4>1, Zenon
    <3> QED
      BY <3>1, <3>2
  <2> QED
    BY <1>2, <1>4, <2>1, <2>2, Unbound, Zenon DEF ProgramKeeps
<1>5. ASSUME NEW key \in DOMAIN content, Free(key)
      PROVE  CallsTypeOK' /\ ProgramKeeps
  <2>1. /\ content' = [k \in DOMAIN content \ {key} |-> content[k]]
        /\ ~Binds /\ UNCHANGED <<made, frames, binding>> /\ writes' = writes
    BY <1>5 DEF Free, Bypass
  <2>2. DOMAIN content' = DOMAIN content \ {key} /\ \A k \in DOMAIN content' : content'[k] = content[k]
    BY <2>1
  <2>3. content' \in Store /\ IsFiniteSet(DOMAIN content \ {key})
    BY <1>1, <2>1, StoreWithout
  <2>4. ContentTypeOK'
    BY <1>1, <2>1, <2>2, <2>3 DEF ContentTypeOK
  <2> QED
    BY <1>2, <2>1, <2>2, <2>4, Unbound, Zenon DEF ProgramKeeps
<1>6. CASE \E key \in DOMAIN content, i \in 1..(Width + 1), v \in KnownValues : Write(key, i, v) \/ MapSet(key, i, v)
  BY <1>4, <1>6, WriteStores DEF Write, MapSet, Bypass
<1>7. CASE \E key \in DOMAIN content, v \in KnownValues : PushTo(key, v)
  BY <1>4, <1>7, PushStores DEF PushTo, Bypass
<1>8. CASE \E key \in DOMAIN content, i \in 1..(Width + 1) : TakeFrom(key, i)
  BY <1>4, <1>8, TakeStores DEF TakeFrom, Bypass
<1>9. ASSUME NEW key \in DOMAIN content, NEW i \in 1..(Width + 1), NEW j \in 1..(Width + 1), Exchange(key, i, j)
      PROVE  CallsTypeOK' /\ ProgramKeeps
  <2>1. PICK s : Stores(key, s)
    BY <1>9, ExchangeStores
  <2>2. ~Binds /\ UNCHANGED <<made, frames, binding>>
    BY <1>9 DEF Exchange, Bypass
  <2> QED
    BY <1>4, <2>1, <2>2
<1> QED
  BY <1>3, <1>5, <1>6, <1>7, <1>8, <1>9, Zenon DEF Program

-----------------------------------------------------------------------------
(* While arguments are bound the old content stays, and what is met in it  *)
(* is protected: all that a protected key holds has been met, or the key   *)
(* is being copied and what it holds has been met so far.                  *)
Met(v) == Refers(v, binding.heap) => KeyOf(v) \in binding.keys

KeepsActive(j) ==
    LET a == binding.stack[j]
        below == binding.stack[j - 1]
        next == Len(below.done) + 1
    IN  /\ \A i \in DOMAIN a.done : Met(a.from[i]) \/ (j = 1 /\ i \in binding.escaped)
        /\ \A p \in a.memo : p[1] \in binding.keys
        /\ j # 1 => /\ a.key \in binding.keys
                    /\ a.key \in DOMAIN binding.heap => a.from = binding.heap[a.key]
                    /\ a.new \in DOMAIN content \ DOMAIN binding.heap
                    /\ \A f \in DOMAIN frames : a.new \notin frames[f].reached
                    /\ next <= Len(below.from) /\ a.key = KeyOf(below.from[next])
                    /\ ~(j = 2 /\ next \in binding.escaped)

Keeps ==
    /\ \A f \in DOMAIN frames :
          /\ frames[f].reached \subseteq frames[f].bindings
          /\ \A key \in frames[f].reached : key[2] <= made[key[1]]
    /\ \A key \in DOMAIN binding.heap : key \in DOMAIN content /\ content[key] = binding.heap[key]
    /\ \A key \in binding.keys \cap DOMAIN binding.heap :
          \/ \A i \in DOMAIN binding.heap[key] : Met(binding.heap[key][i])
          \/ \E j \in 2..Len(binding.stack) : binding.stack[j].key = key
    /\ \A j \in DOMAIN binding.stack : KeepsActive(j)

IsBinding(c, b, keys, copies, stack) ==
    /\ c \in Bindings /\ c.keys = keys /\ c.copies = copies /\ c.stack = stack
    /\ c.escaped = b.escaped /\ c.heap = b.heap

Put(b, keys, copies, stack) == [b EXCEPT !.keys = keys, !.copies = copies, !.stack = stack]

LEMMA PutIs ==
    ASSUME NEW b \in Bindings, NEW keys \in SUBSET Keys, NEW copies \in SUBSET (Keys \X Keys),
           NEW stack \in Seq(Activations)
    PROVE  IsBinding(Put(b, keys, copies, stack), b, keys, copies, stack)
  BY DEF Bindings, IsBinding, Put

LEMMA StackIs ==
    ASSUME CallsTypeOK
    PROVE  /\ binding.stack \in Seq(Activations) /\ Len(binding.stack) \in Nat
           /\ DOMAIN binding.stack = 1..Len(binding.stack)
           /\ \A j \in 1..Len(binding.stack) :
                 /\ binding.stack[j] \in Activations
                 /\ Len(binding.stack[j].done) \in Nat /\ Len(binding.stack[j].from) \in Nat
                 /\ DOMAIN binding.stack[j].done = 1..Len(binding.stack[j].done)
                 /\ DOMAIN binding.stack[j].from = 1..Len(binding.stack[j].from)
                 /\ binding.stack[j].from \in Seq(Cell) /\ binding.stack[j].done \in Seq(Cell)
                 /\ binding.stack[j].memo \in SUBSET (Keys \X Keys)
                 /\ j # 1 => binding.stack[j].key \in Keys /\ binding.stack[j].new \in Keys
           /\ Binds => Len(binding.stack) # 0 /\ Top = binding.stack[Len(binding.stack)]
                       /\ Len(binding.stack) \in 1..Len(binding.stack)
<1>1. binding.stack \in Seq(Activations)
  BY DEF CallsTypeOK, Bindings
<1>2. Len(binding.stack) \in Nat /\ DOMAIN binding.stack = 1..Len(binding.stack)
  BY <1>1, LenProperties
<1>3. ASSUME NEW j \in 1..Len(binding.stack)
      PROVE  /\ binding.stack[j] \in Activations
             /\ Len(binding.stack[j].done) \in Nat /\ Len(binding.stack[j].from) \in Nat
             /\ DOMAIN binding.stack[j].done = 1..Len(binding.stack[j].done)
             /\ DOMAIN binding.stack[j].from = 1..Len(binding.stack[j].from)
             /\ binding.stack[j].from \in Seq(Cell) /\ binding.stack[j].done \in Seq(Cell)
             /\ binding.stack[j].memo \in SUBSET (Keys \X Keys)
             /\ j # 1 => binding.stack[j].key \in Keys /\ binding.stack[j].new \in Keys
  <2>1. binding.stack[j] \in Activations
    BY <1>1, ElementOfSeq
  <2>2. binding.stack[j].from \in Seq(Cell) /\ binding.stack[j].done \in Seq(Cell)
        /\ binding.stack[j].memo \in SUBSET (Keys \X Keys)
    BY <2>1 DEF Activations
  <2>3. j # 1 => binding.stack[j].key \in Keys /\ binding.stack[j].new \in Keys
    BY <1>2 DEF CallsTypeOK
  <2> QED
    BY <2>1, <2>2, <2>3, LenProperties
<1>4. ASSUME Binds
      PROVE  Len(binding.stack) # 0 /\ Top = binding.stack[Len(binding.stack)] /\ Len(binding.stack) \in 1..Len(binding.stack)
  <2>1. Len(binding.stack) \in Nat \ {0}
    BY <1>1, <1>4, EmptySeq DEF Binds
  <2> QED
    BY <2>1 DEF Top, Last
<1> QED
  BY <1>1, <1>2, <1>3, <1>4

\* A step of the binding delivers v to the activation m, the last that stays, and
\* stores it in the copy that this one makes.
Lands(m, v) ==
    LET a == binding.stack[m] IN
    /\ DOMAIN content' = DOMAIN content
    /\ \A key \in DOMAIN content :
          content'[key] = IF m # 1 /\ key = a.new THEN Partly(a.new, Append(a.done, v), a.from) ELSE content[key]

Gives(m, v, memo) ==
    /\ m \in 1..Len(binding.stack)
    /\ UNCHANGED <<frames, made>>
    /\ Lands(m, v)
    /\ binding'.escaped = binding.escaped /\ binding'.heap = binding.heap
    /\ binding'.keys = binding.keys /\ binding'.copies = binding.copies
    /\ Len(binding.stack[m].done) < Len(binding.stack[m].from)
    /\ Len(binding'.stack) = m
    /\ \A j \in 1..m :
          /\ binding'.stack[j].key = binding.stack[j].key
          /\ binding'.stack[j].from = binding.stack[j].from
          /\ binding'.stack[j].new = binding.stack[j].new
          /\ binding'.stack[j].memo = IF j = m THEN memo ELSE binding.stack[j].memo
          /\ binding'.stack[j].done = IF j = m THEN Append(binding.stack[j].done, v) ELSE binding.stack[j].done

LEMMA GivesTyped ==
    ASSUME CallsTypeOK, ContentTypeOK', Binds, NEW m, NEW v \in Cell, NEW memo, Gives(m, v, memo), binding' \in Bindings
    PROVE  CallsTypeOK'
<1>1. /\ made \in [Kinds -> Nat]
      /\ frames' \in Seq([bindings : SUBSET Keys, reached : SUBSET Keys])
      /\ binding'.heap = binding.heap /\ IsFiniteSet(DOMAIN binding.heap)
  BY DEF CallsTypeOK, Gives
<1>2. binding'.stack \in Seq(Activations) /\ m \in 1..Len(binding.stack) /\ Len(binding'.stack) = m
  BY DEF Bindings, Gives
<1>3. m \in Nat \ {0} /\ DOMAIN binding'.stack = 1..m /\ binding'.stack # <<>>
  BY <1>2, StackIs, LenProperties, EmptySeq
<1>4. ASSUME NEW j \in 1..m
      PROVE  /\ Len(binding'.stack[j].done) <= Len(binding'.stack[j].from)
             /\ j # 1 => binding'.stack[j].key \in Keys /\ binding'.stack[j].new \in Keys
  <2>1. j \in 1..Len(binding.stack)
    BY <1>2, StackIs
  <2>2. /\ binding.stack[j].done \in Seq(Cell) /\ Len(binding.stack[j].done) \in Nat /\ Len(binding.stack[j].from) \in Nat
        /\ Len(binding.stack[j].done) <= Len(binding.stack[j].from)
        /\ j # 1 => binding.stack[j].key \in Keys /\ binding.stack[j].new \in Keys
    BY <2>1, StackIs DEF CallsTypeOK
  <2>3. Len(Append(binding.stack[j].done, v)) = Len(binding.stack[j].done) + 1
    BY <2>2, AppendProperties
  <2>4. CASE j = m
    <3>1. /\ binding'.stack[j].done = Append(binding.stack[j].done, v)
          /\ Len(binding.stack[j].done) < Len(binding.stack[j].from)
          /\ binding'.stack[j].from = binding.stack[j].from
          /\ binding'.stack[j].key = binding.stack[j].key /\ binding'.stack[j].new = binding.stack[j].new
      BY <2>4 DEF Gives
    <3>2. Len(binding'.stack[j].done) <= Len(binding'.stack[j].from)
      BY <2>2, <2>3, <3>1
    <3> QED
      BY <2>2, <3>1, <3>2
  <2>5. CASE j # m
    BY <2>2, <2>5 DEF Gives
  <2> QED
    BY <2>4, <2>5
<1>5. Binds'
  BY <1>3 DEF Binds
<1> QED
  BY <1>1, <1>3, <1>4, <1>5, Zenon DEF CallsTypeOK, ContentTypeOK

LEMMA CurrentIs ==
    ASSUME CallsTypeOK, More
    PROVE  LET n == Len(binding.stack)
           IN  /\ Binds /\ Top = binding.stack[n] /\ n \in 1..n
               /\ Len(Top.done) < Len(Top.from) /\ Len(Top.done) + 1 \in DOMAIN Top.from
               /\ Current \in Cell
<1> DEFINE n == Len(binding.stack)
<1>1. Binds /\ Len(Top.done) < Len(Top.from)
  BY DEF More
<1>2. Top = binding.stack[n] /\ n \in 1..n
  BY <1>1, StackIs
<1>3. Len(Top.done) \in Nat /\ Len(Top.from) \in Nat /\ DOMAIN Top.from = 1..Len(Top.from) /\ Top.from \in Seq(Cell)
  BY <1>2, StackIs
<1>4. Len(Top.done) + 1 \in 1..Len(Top.from)
  BY <1>1, <1>3
<1>5. Current \in Cell
  BY <1>3, <1>4, ElementOfSeq DEF Current, Awaited
<1> QED
  BY <1>1, <1>2, <1>3, <1>4, <1>5

LEMMA SameContent ==
    ASSUME CallsTypeOK, UNCHANGED <<content, made>>
    PROVE  ContentTypeOK'
  BY DEF CallsTypeOK, ContentTypeOK

\* What is delivered is stored.
LEMMA StoredLands ==
    ASSUME CallsTypeOK, Keeps, NEW stack \in Seq(Activations), stack # <<>>, NEW m \in 1..Len(binding.stack),
           Len(stack) = m, stack[m] = binding.stack[m], NEW v \in Cell,
           Len(binding.stack[m].done) < Len(binding.stack[m].from),
           content' = Stored(stack, v), UNCHANGED made
    PROVE  ContentTypeOK' /\ Lands(m, v)
<1>1. PICK a : a = binding.stack[m]
  OBVIOUS
<1>2. /\ a.done \in Seq(Cell) /\ a.from \in Seq(Cell) /\ Len(a.done) \in Nat /\ Len(a.from) \in Nat
      /\ m \in DOMAIN binding.stack
  BY <1>1, StackIs
<1>3. PICK s : s = Partly(a.new, Append(a.done, v), a.from)
  OBVIOUS
<1>4. s \in Seq(Cell)
  <2>1. Append(a.done, v) \in Seq(Cell) /\ Len(Append(a.done, v)) = Len(a.done) + 1
    BY <1>2, AppendProperties
  <2>2. Len(Append(a.done, v)) <= Len(a.from)
    BY <1>1, <1>2, <2>1
  <2> QED
    BY <1>2, <1>3, <2>1, <2>2, PartlyIs DEF HalfDone
<1>5. Last(stack) = a
  BY <1>1 DEF Last
<1>6. CASE m = 1
  <2>1. content' = content
    BY <1>6 DEF Stored
  <2> QED
    BY <1>6, <2>1, SameContent DEF Lands
<1>7. CASE m # 1
  <2>1. content' = [content EXCEPT ![a.new] = s]
    BY <1>3, <1>5, <1>7 DEF Stored
  <2>2. a.new \in DOMAIN content
    BY <1>1, <1>2, <1>7 DEF Keeps, KeepsActive
  <2>3. /\ ContentTypeOK' /\ DOMAIN content' = DOMAIN content
        /\ \A k \in DOMAIN content : content'[k] = IF k = a.new THEN s ELSE content[k]
    BY <1>4, <2>1, <2>2, StoredTyped
  <2> QED
    BY <1>1, <1>3, <1>7, <2>3 DEF Lands
<1> QED
  BY <1>6, <1>7

\* The steps that deliver to the activation that is running,
LEMMA DeliversTop ==
    ASSUME CallsTypeOK, Keeps, More, NEW v \in Cell, NEW keys \in SUBSET Keys, keys = binding.keys,
           binding' = Put(binding, keys, binding.copies, Deliver(binding.stack, v)),
           content' = Stored(binding.stack, v), UNCHANGED <<made, frames>>
    PROVE  Gives(Len(binding.stack), v, Top.memo) /\ CallsTypeOK'
<1> DEFINE n == Len(binding.stack)
<1>1. /\ Binds /\ Top = binding.stack[n] /\ n \in 1..n
      /\ Len(Top.done) < Len(Top.from)
  BY CurrentIs
<1>2. binding \in Bindings /\ binding.stack \in Seq(Activations) /\ binding.stack # <<>>
  BY <1>1 DEF CallsTypeOK, Bindings, Binds
<1>3. Gets(binding.stack, Deliver(binding.stack, v), v, Top.memo)
  BY <1>1, <1>2, DeliverIs
<1> DEFINE stack == Deliver(binding.stack, v)
<1>4. stack \in Seq(Activations)
  BY <1>3 DEF Gets
<1>5. binding' = Put(binding, keys, binding.copies, stack) /\ binding.copies \in SUBSET (Keys \X Keys)
  BY <1>2 DEF Bindings
<1> HIDE DEF stack
<1>6. IsBinding(binding', binding, keys, binding.copies, stack)
  BY <1>2, <1>4, <1>5, PutIs
<1>7. /\ binding' \in Bindings /\ binding'.keys = keys /\ binding'.copies = binding.copies /\ binding'.stack = stack
      /\ binding'.escaped = binding.escaped /\ binding'.heap = binding.heap
  BY <1>6 DEF IsBinding
<1>8. ContentTypeOK' /\ Lands(n, v)
  BY <1>1, <1>2, StoredLands
<1>9. Gives(n, v, Top.memo)
  BY <1>1, <1>3, <1>7, <1>8 DEF Gives, Gets, stack
<1> QED
  BY <1>1, <1>7, <1>8, <1>9, GivesTyped

LEMMA AsItIsGives ==
    ASSUME CallsTypeOK, Keeps, AsItIs
    PROVE  Gives(Len(binding.stack), Current, Top.memo) /\ CallsTypeOK'
<1>1. /\ More /\ UNCHANGED <<made, frames>> /\ binding' = [binding EXCEPT !.stack = Deliver(@, Current)]
      /\ content' = Stored(binding.stack, Current)
  BY DEF AsItIs
<1>2. Current \in Cell
  BY <1>1, CurrentIs
<1> DEFINE keys == binding.keys
<1>3. keys \in SUBSET Keys
  BY DEF CallsTypeOK, Bindings
<1>4. binding' = Put(binding, keys, binding.copies, Deliver(binding.stack, Current))
  BY <1>1 DEF CallsTypeOK, Bindings, Put
<1> QED
  BY <1>1, <1>2, <1>3, <1>4, DeliversTop

LEMMA CopiedBeforeGives ==
    ASSUME CallsTypeOK, Keeps, CopiedBefore
    PROVE  /\ \E p \in Top.memo : p[1] = KeyOf(Current) /\ p[2] \in Keys
                                  /\ Gives(Len(binding.stack), Naming(Current, p[2]), Top.memo)
           /\ CallsTypeOK'
<1> DEFINE n == Len(binding.stack)
<1>1. /\ More /\ UNCHANGED <<made, frames>>
      /\ \E new \in Copied : /\ binding' = [binding EXCEPT !.keys = @ \cup {KeyOf(Current)},
                                                            !.stack = Deliver(@, Naming(Current, new))]
                             /\ content' = Stored(binding.stack, Naming(Current, new))
  BY Zenon DEF CopiedBefore
<1>2. PICK p \in Top.memo : /\ p[1] = KeyOf(Current)
                            /\ binding' = [binding EXCEPT !.keys = @ \cup {KeyOf(Current)},
                                                         !.stack = Deliver(@, Naming(Current, p[2]))]
                            /\ content' = Stored(binding.stack, Naming(Current, p[2]))
  BY <1>1, Zenon DEF Copied
<1>3. Top = binding.stack[n] /\ n \in 1..n /\ n \in DOMAIN binding.stack /\ Current \in Cell
  BY <1>1, CurrentIs, StackIs
<1>4. p \in Keys \X Keys
  BY <1>3, StackIs
<1>5. p[1] \in binding.keys
  BY <1>3 DEF Keeps, KeepsActive
<1> DEFINE keys == binding.keys \cup {KeyOf(Current)}
<1>6. keys = binding.keys /\ keys \in SUBSET Keys
  BY <1>2, <1>5 DEF CallsTypeOK, Bindings
<1>7. Naming(Current, p[2]) \in Cell
  BY <1>3, <1>4, CellIs
<1>8. binding' = Put(binding, keys, binding.copies, Deliver(binding.stack, Naming(Current, p[2])))
  BY <1>2 DEF CallsTypeOK, Bindings, Put
<1> HIDE DEF keys
<1>9. Gives(n, Naming(Current, p[2]), Top.memo) /\ CallsTypeOK'
  BY <1>1, <1>2, <1>6, <1>7, <1>8, DeliversTop
<1> QED
  BY <1>2, <1>4, <1>9

\* and the one that ends a copy.
LEMMA EndCopyGives ==
    ASSUME CallsTypeOK, Keeps, EndCopy
    PROVE  LET n == Len(binding.stack)
               below == binding.stack[n - 1]
           IN  /\ n - 1 \in 1..n /\ n \in 2..n /\ Top = binding.stack[n] /\ Top.new \in DOMAIN content
               /\ Len(Top.done) = Len(Top.from)
               /\ Gives(n - 1, Naming(below.from[Len(below.done) + 1], Top.new), MemoAfter(below.memo, Top.memo))
               /\ CallsTypeOK'
<1> DEFINE n == Len(binding.stack)
           under == binding.stack[n - 1]
           v == Naming(under.from[Len(under.done) + 1], Top.new)
           memo == MemoAfter(binding.stack[n - 1].memo, Top.memo)
           below == Front(binding.stack)
           stack == Deliver([below EXCEPT ![Len(below)].memo = memo], v)
<1>1. /\ Binds /\ ~More /\ n > 1 /\ UNCHANGED <<made, frames>>
      /\ content' = Stored(below, Naming(Awaited(Last(below)), Top.new))
  BY DEF EndCopy
<1>2. /\ binding \in Bindings /\ binding.stack \in Seq(Activations) /\ n \in Nat
      /\ binding.copies \in SUBSET (Keys \X Keys) /\ binding.keys \in SUBSET Keys
  BY StackIs DEF CallsTypeOK, Bindings
<1>3. n - 1 \in 1..n /\ n \in 2..n /\ n \in 1..n /\ n # 1 /\ n - 1 \in Nat \ {0}
  <2>1. \A k \in Nat : k > 1 => k - 1 \in 1..k /\ k \in 2..k /\ k \in 1..k /\ k # 1 /\ k - 1 \in Nat \ {0}
    OBVIOUS
  <2> QED
    BY <1>1, <1>2, <2>1, Zenon
<1>4. Top = binding.stack[n] /\ n \in DOMAIN binding.stack
  BY <1>1, <1>3, StackIs
<1>5. Top.new \in DOMAIN content
  BY <1>3, <1>4 DEF Keeps, KeepsActive
<1>6. /\ Top.new \in Keys /\ Top.done \in Seq(Cell) /\ Len(Top.done) \in Nat /\ Len(Top.from) \in Nat
      /\ Len(Top.done) <= Len(Top.from) /\ Top.memo \in SUBSET (Keys \X Keys)
  BY <1>3, <1>4, StackIs DEF CallsTypeOK
<1>7. Len(Top.done) = Len(Top.from)
  BY <1>1, <1>6 DEF More
<1>8. /\ Len(under.done) < Len(under.from) /\ under.from[Len(under.done) + 1] \in Cell
  <2>1. Len(under.done) + 1 <= Len(under.from)
    BY <1>3, <1>4 DEF Keeps, KeepsActive
  <2>2. Len(under.done) \in Nat /\ Len(under.from) \in Nat /\ under.from \in Seq(Cell)
    BY <1>3, StackIs
  <2> HIDE DEF under
  <2>3. Len(under.done) + 1 \in 1..Len(under.from)
    BY <2>1, <2>2
  <2> QED
    BY <2>1, <2>2, <2>3, ElementOfSeq
<1>9. v \in Cell /\ memo \in SUBSET (Keys \X Keys)
  <2> HIDE DEF under
  <2> QED
    BY <1>6, <1>8, CellIs DEF MemoAfter
<1>10. below \in Seq(Activations) /\ Len(below) = n - 1 /\ \A j \in 1..(n - 1) : below[j] = binding.stack[j]
  <2> HIDE DEF v, memo
  <2> QED
    BY <1>1, <1>2, <1>9, EndCopyIs
<1>11. Gets(below, stack, v, memo)
  <2> HIDE DEF v, memo
  <2> QED
    BY <1>1, <1>2, <1>9, EndCopyIs
<1>12. below[Len(below)] = under /\ Len(below) \in DOMAIN below /\ below # <<>>
  BY <1>3, <1>10, LenProperties, EmptySeq
<1>13. Naming(Awaited(Last(below)), Top.new) = v
  BY <1>12 DEF Awaited, Last
<1>14. binding' = [binding EXCEPT !.stack = stack]
  <2>1. binding' = [binding EXCEPT
             !.stack = Deliver([below EXCEPT ![Len(below)].memo = MemoAfter(@, Top.memo)], Naming(Awaited(Last(below)), Top.new))]
    BY DEF EndCopy
  <2>2. [below EXCEPT ![Len(below)].memo = MemoAfter(@, Top.memo)] = [below EXCEPT ![Len(below)].memo = memo]
    BY <1>12
  <2> QED
    BY <1>13, <2>1, <2>2
<1> HIDE DEF stack, v, memo, below
<1>15. stack \in Seq(Activations)
  BY <1>11 DEF Gets
<1>16. IsBinding(binding', binding, binding.keys, binding.copies, stack)
  <2>1. binding' = Put(binding, binding.keys, binding.copies, stack)
    BY <1>2, <1>14 DEF Bindings, Put
  <2> QED
    BY <1>2, <1>15, <2>1, PutIs
<1>17. /\ binding' \in Bindings /\ binding'.keys = binding.keys /\ binding'.copies = binding.copies
       /\ binding'.stack = stack /\ binding'.escaped = binding.escaped /\ binding'.heap = binding.heap
  BY <1>16 DEF IsBinding
<1>18. ContentTypeOK' /\ Lands(n - 1, v)
  <2>1. PICK m \in 1..n : m = n - 1 /\ m \in Nat
    BY <1>3
  <2>2. Len(below) = m /\ below[m] = binding.stack[m] /\ Len(binding.stack[m].done) < Len(binding.stack[m].from)
    BY <1>8, <1>10, <1>12, <2>1
  <2>3. content' = Stored(below, v)
    BY <1>1, <1>13
  <2>4. ContentTypeOK' /\ Lands(m, v)
    BY <1>1, <1>9, <1>10, <1>12, <2>1, <2>2, <2>3, StoredLands
  <2> QED
    BY <2>1, <2>4
<1>19. Gives(n - 1, v, memo)
  <2>1. PICK m : m = n - 1
    OBVIOUS
  <2>2. /\ m \in 1..n /\ Len(binding.stack[m].done) < Len(binding.stack[m].from) /\ Len(below) = m /\ Lands(m, v)
        /\ \A j \in 1..m : below[j] = binding.stack[j]
    BY <1>3, <1>8, <1>10, <1>18, <2>1
  <2>3. Gives(m, v, memo)
    <3> HIDE DEF under
    <3> QED
      BY <1>1, <1>11, <1>17, <2>2 DEF Gives, Gets
  <2> QED
    BY <2>1, <2>3
<1>20. CallsTypeOK'
  BY <1>1, <1>9, <1>17, <1>18, <1>19, GivesTyped
<1> QED
  BY <1>3, <1>4, <1>5, <1>7, <1>19, <1>20 DEF v, memo

\* The step that begins a copy.
Begins(key, new) ==
    LET n == Len(binding.stack)
        a == binding'.stack[n + 1]
    IN  /\ key = KeyOf(Current) /\ key \in DOMAIN content
        /\ new \in Keys \ DOMAIN content /\ new[1] = key[1] /\ new[2] = made[key[1]] + 1
        /\ ~(n = 1 /\ Len(Top.done) + 1 \in binding.escaped)
        /\ \A p \in Top.memo : p[1] # key
        /\ UNCHANGED frames
        /\ \A kind \in Kinds : made[kind] <= made'[kind]
        /\ DOMAIN content' = DOMAIN content \cup {new}
        /\ content'[new] = Partly(new, <<>>, content[key])
        /\ \A k \in DOMAIN content : content'[k] = content[k]
        /\ binding'.escaped = binding.escaped /\ binding'.heap = binding.heap
        /\ binding'.keys = binding.keys \cup {key} /\ binding'.copies = binding.copies \cup {<<key, new>>}
        /\ Len(binding'.stack) = n + 1
        /\ \A j \in 1..n : binding'.stack[j] = binding.stack[j]
        /\ a.key = key /\ a.new = new /\ a.from = content[key] /\ a.done = <<>> /\ a.memo = Top.memo \cup {<<key, new>>}

LEMMA BeginCopyBegins ==
    ASSUME CallsTypeOK, BeginCopy
    PROVE  /\ More /\ CallsTypeOK'
           /\ \E key, new : Begins(key, new)
<1> DEFINE n == Len(binding.stack)
           key == KeyOf(Current)
           new == NewKey(key[1])
           act == Activation(key, content[key], new, Top.memo \cup {<<key, new>>})
           stack == Append(binding.stack, act)
           values == Partly(new, <<>>, content[key])
<1>1. /\ More /\ Mutable /\ Copied = {} /\ Make(key[1], values) /\ UNCHANGED frames
      /\ binding' = [binding EXCEPT !.keys = @ \cup {key}, !.copies = @ \cup {<<key, new>>}, !.stack = Append(@, act)]
  BY DEF BeginCopy
<1>2. /\ binding \in Bindings /\ binding.stack \in Seq(Activations) /\ n \in Nat
      /\ binding.copies \in SUBSET (Keys \X Keys) /\ binding.keys \in SUBSET Keys
      /\ content \in Store
  BY StackIs DEF CallsTypeOK, Bindings
<1>3. /\ Top = binding.stack[n] /\ n \in 1..n /\ Top.memo \in SUBSET (Keys \X Keys)
      /\ Len(Top.done) < Len(Top.from)
  BY <1>1, CurrentIs, StackIs
<1>4. key \in DOMAIN content /\ ~(n = 1 /\ Len(Top.done) + 1 \in binding.escaped)
  BY <1>1 DEF Mutable, IsMutable
<1>5. key \in Keys /\ content[key] \in Seq(Cell) /\ key[1] \in Kinds /\ Len(content[key]) \in Nat
  BY <1>2, <1>4, StoreIs, LenProperties DEF Keys
<1> HIDE DEF key
<1>5a. values \in Seq(Cell)
  <2>1. <<>> \in Seq(Cell) /\ Len(<<>>) = 0 /\ 0 <= Len(content[key])
    BY <1>5
  <2> QED
    BY <1>5, <2>1, PartlyIs DEF HalfDone
<1> HIDE DEF values
<1>6. /\ ContentTypeOK'
      /\ new \in Keys \ DOMAIN content /\ new[1] = key[1] /\ new[2] = made[key[1]] + 1
      /\ \A k \in Kinds : made[k] <= made'[k]
      /\ DOMAIN content' = DOMAIN content \cup {new}
      /\ content'[new] = values
      /\ \A k \in DOMAIN content : content'[k] = content[k]
  BY <1>1, <1>5, <1>5a, MakeTyped
<1>7. \A p \in Top.memo : p[1] # key
  BY <1>1 DEF Copied, key
<1> HIDE DEF new
<1>8. act \in Activations /\ <<key, new>> \in Keys \X Keys
  BY <1>3, <1>5, <1>6 DEF Activation, Activations
<1>9. /\ act.key = key /\ act.new = new /\ act.from = content[key] /\ act.done = <<>>
      /\ act.memo = Top.memo \cup {<<key, new>>}
  BY DEF Activation
<1> HIDE DEF act
<1>10. stack \in Seq(Activations) /\ Len(stack) = n + 1 /\ stack[n + 1] = act /\ \A j \in 1..n : stack[j] = binding.stack[j]
  BY <1>2, <1>8, AppendProperties
<1> DEFINE keys == binding.keys \cup {key}
           copies == binding.copies \cup {<<key, new>>}
<1>11. keys \in SUBSET Keys /\ copies \in SUBSET (Keys \X Keys)
  BY <1>2, <1>5, <1>8
<1>12. binding' = Put(binding, keys, copies, stack)
  BY <1>1 DEF Put
<1> HIDE DEF stack, keys, copies
<1>13. IsBinding(binding', binding, keys, copies, stack)
  BY <1>2, <1>10, <1>11, <1>12, PutIs
<1>14. /\ binding' \in Bindings /\ binding'.keys = keys /\ binding'.copies = copies /\ binding'.stack = stack
       /\ binding'.escaped = binding.escaped /\ binding'.heap = binding.heap
  BY <1>13 DEF IsBinding
<1>15. Begins(key, new)
  BY <1>1, <1>4, <1>6, <1>7, <1>9, <1>10, <1>14, Zenon DEF Begins, key, keys, copies, values
<1>16. CallsTypeOK'
  <2>1. /\ frames' \in Seq([bindings : SUBSET Keys, reached : SUBSET Keys])
        /\ IsFiniteSet(DOMAIN binding'.heap)
    BY <1>1, <1>14 DEF CallsTypeOK
  <2>2. Binds'
    BY <1>2, <1>10, <1>14, EmptySeq DEF Binds
  <2>3. DOMAIN binding'.stack = 1..(n + 1)
    BY <1>10, <1>14, LenProperties
  <2>4. ASSUME NEW j \in 1..(n + 1)
        PROVE  /\ Len(binding'.stack[j].done) <= Len(binding'.stack[j].from)
               /\ j # 1 => binding'.stack[j].key \in Keys /\ binding'.stack[j].new \in Keys
    <3>1. CASE j \in 1..n
      <4>1. binding'.stack[j] = binding.stack[j] /\ j \in DOMAIN binding.stack
        BY <1>10, <1>14, <3>1, StackIs
      <4> QED
        BY <4>1 DEF CallsTypeOK
    <3>2. CASE j = n + 1
      <4>1. binding'.stack[j] = act
        BY <1>10, <1>14, <3>2
      <4>2. Len(<<>>) = 0 /\ 0 <= Len(content[key])
        BY <1>5
      <4> QED
        BY <1>5, <1>6, <1>9, <4>1, <4>2
    <3> QED
      BY <1>2, <3>1, <3>2
  <2> QED
    BY <1>6, <1>14, <2>1, <2>2, <2>3, <2>4, Zenon DEF CallsTypeOK, ContentTypeOK
<1> QED
  BY <1>1, <1>15, <1>16

\* A call begins with the activation of its arguments.
Calls(actuals, escaped) ==
    LET a == binding'.stack[1] IN
    /\ ~Binds /\ UNCHANGED <<content, made, frames>>
    /\ actuals \in Seq(Cell) /\ \A i \in DOMAIN actuals : actuals[i] \in KnownValues
    /\ binding'.heap = content /\ binding'.keys = {} /\ binding'.copies = {} /\ binding'.escaped = escaped
    /\ Len(binding'.stack) = 1 /\ DOMAIN binding'.stack = {1}
    /\ a.key = <<>> /\ a.from = actuals /\ a.done = <<>> /\ a.memo = {}

LEMMA CallCalls ==
    ASSUME CallsTypeOK, NEW n \in 1..MaxArgs, NEW actuals \in [1..n -> KnownValues], NEW escaped \in SUBSET (1..n),
           Call(actuals, escaped)
    PROVE  Calls(actuals, escaped) /\ CallsTypeOK'
<1> DEFINE act == Activation(<<>>, actuals, <<>>, {})
<1>1. ~Binds /\ UNCHANGED <<content, made, frames>> /\ binding' = Binding(actuals, escaped, content)
  BY DEF Call
<1>2. KnownValues \subseteq Cell
  BY CellIs
<1>3. n \in Nat
  BY CopyAssumption
<1>4. actuals \in Seq(KnownValues) /\ DOMAIN actuals = 1..n
  BY <1>3
<1>5. actuals \in Seq(Cell)
  BY <1>2, <1>4, SeqMonotonic
<1>6. <<>> \in Seq(Cell) /\ Len(<<>>) = 0
  OBVIOUS
<1>7. act \in Activations
  BY <1>5, <1>6 DEF Activation, Activations
<1>8. act.key = <<>> /\ act.from = actuals /\ act.done = <<>> /\ act.memo = {}
  BY DEF Activation
<1> HIDE DEF act
<1>9. <<act>> \in Seq(Activations) /\ Len(<<act>>) = 1 /\ <<act>>[1] = act /\ DOMAIN <<act>> = {1} /\ <<act>> # <<>>
  BY <1>7
<1>10. content \in Store /\ IsFiniteSet(DOMAIN content) /\ escaped \in SUBSET Nat
  BY <1>3 DEF CallsTypeOK
<1>11. binding' = [escaped |-> escaped, keys |-> {}, heap |-> content, copies |-> {}, stack |-> <<act>>]
  BY <1>1 DEF Binding, act
<1>12. /\ binding' \in Bindings
       /\ binding'.heap = content /\ binding'.keys = {} /\ binding'.copies = {} /\ binding'.escaped = escaped
       /\ binding'.stack = <<act>>
  BY <1>9, <1>10, <1>11 DEF Bindings
<1>13. Calls(actuals, escaped)
  BY <1>1, <1>4, <1>5, <1>8, <1>9, <1>12 DEF Calls
<1>14. CallsTypeOK'
  <2>1. ContentTypeOK'
    BY <1>1, SameContent
  <2>2. Len(act.done) <= Len(act.from)
    BY <1>3, <1>4, <1>5, <1>6, <1>8
  <2>3. Binds'
    BY <1>9, <1>12 DEF Binds
  <2>4. frames' \in Seq([bindings : SUBSET Keys, reached : SUBSET Keys])
    BY <1>1 DEF CallsTypeOK
  <2>5. \A j \in DOMAIN binding'.stack : j = 1 /\ binding'.stack[j] = act
    BY <1>9, <1>12
  <2>6. IsFiniteSet(DOMAIN binding'.heap)
    BY <1>10, <1>12
  <2> QED
    BY <1>12, <2>1, <2>2, <2>3, <2>4, <2>5, <2>6, Zenon DEF CallsTypeOK, ContentTypeOK
<1> QED
  BY <1>13, <1>14

-----------------------------------------------------------------------------
\* Keeps is preserved.
FramesKeep ==
    \A f \in DOMAIN frames :
       /\ frames[f].reached \subseteq frames[f].bindings
       /\ \A key \in frames[f].reached : key[2] <= made[key[1]]

LEMMA IdleKeeps == ASSUME FramesKeep', binding' = NoBinding PROVE Keeps'
<1>1. /\ binding'.keys = {} /\ DOMAIN binding'.heap = {} /\ DOMAIN binding'.stack = {}
  BY NoBindingIs, NoneIsStore
<1> QED
  BY <1>1 DEF FramesKeep, Keeps

LEMMA FramesGrow ==
    ASSUME CallsTypeOK, Keeps, UNCHANGED frames, \A kind \in Kinds : made[kind] <= made'[kind], CallsTypeOK'
    PROVE  FramesKeep'
<1>1. ASSUME NEW f \in DOMAIN frames, NEW key \in frames[f].reached
      PROVE  key[2] <= made'[key[1]]
  <2>1. frames \in Seq([bindings : SUBSET Keys, reached : SUBSET Keys]) /\ f \in 1..Len(frames)
    BY LenProperties DEF CallsTypeOK
  <2>2. frames[f] \in [bindings : SUBSET Keys, reached : SUBSET Keys]
    BY <2>1, ElementOfSeq
  <2>3. key[2] \in Nat /\ key[1] \in Kinds
    BY <2>2 DEF Keys
  <2>4. key[2] <= made[key[1]] /\ made[key[1]] <= made'[key[1]]
    BY <2>3 DEF Keeps
  <2>5. made[key[1]] \in Nat /\ made'[key[1]] \in Nat
    BY <2>3 DEF CallsTypeOK
  <2> QED
    BY <2>3, <2>4, <2>5
<1> QED
  BY <1>1 DEF FramesKeep, Keeps

LEMMA GivesKeeps ==
    ASSUME CallsTypeOK, Keeps, CallsTypeOK', NEW m, NEW v, NEW memo, Gives(m, v, memo),
           \/ Met(binding.stack[m].from[Len(binding.stack[m].done) + 1])
           \/ m = 1 /\ Len(binding.stack[m].done) + 1 \in binding.escaped,
           \A p \in memo : p[1] \in binding.keys,
           \A j \in 1..Len(binding.stack) : j > m /\ binding.stack[j].key \in DOMAIN binding.heap =>
              \A i \in DOMAIN binding.heap[binding.stack[j].key] : Met(binding.heap[binding.stack[j].key][i])
    PROVE  Keeps'
<1>1. /\ m \in 1..Len(binding.stack) /\ UNCHANGED <<frames, made>>
      /\ binding'.escaped = binding.escaped /\ binding'.heap = binding.heap
      /\ binding'.keys = binding.keys
      /\ Len(binding'.stack) = m
  BY DEF Gives
<1>2. m \in Nat \ {0} /\ DOMAIN binding'.stack = 1..m /\ Len(binding.stack) \in Nat /\ DOMAIN binding.stack = 1..Len(binding.stack)
      /\ \A j \in 1..m : j \in 1..Len(binding.stack)
  <2>1. binding'.stack \in Seq(Activations)
    BY DEF CallsTypeOK, Bindings
  <2> QED
    BY <1>1, <2>1, LenProperties, StackIs
<1>3. FramesKeep'
  BY <1>1 DEF FramesKeep, Keeps
<1>4. \A w : Met(w)' <=> Met(w)
  BY <1>1 DEF Met
<1>5. ASSUME NEW key \in DOMAIN binding'.heap PROVE key \in DOMAIN content' /\ content'[key] = binding'.heap[key]
  <2>1. key \in DOMAIN content /\ content[key] = binding.heap[key]
    BY <1>1 DEF Keeps
  <2>2. m # 1 => binding.stack[m].new \notin DOMAIN binding.heap
    BY <1>1, <1>2 DEF Keeps, KeepsActive
  <2> QED
    BY <1>1, <2>1, <2>2 DEF Gives, Lands
<1>6. ASSUME NEW key \in binding'.keys \cap DOMAIN binding'.heap
      PROVE  \/ \A i \in DOMAIN binding'.heap[key] : Met(binding.heap[key][i])'
             \/ \E j \in 2..Len(binding'.stack) : binding'.stack[j].key = key
  <2>1. \/ \A i \in DOMAIN binding.heap[key] : Met(binding.heap[key][i])
        \/ \E j \in 2..Len(binding.stack) : binding.stack[j].key = key
    BY <1>1, <1>6 DEF Keeps
  <2>2. ASSUME NEW j \in 2..Len(binding.stack), binding.stack[j].key = key
        PROVE  \/ \A i \in DOMAIN binding.heap[key] : Met(binding.heap[key][i])
               \/ \E k \in 2..Len(binding'.stack) : binding'.stack[k].key = key
    <3>1. CASE j > m
      <4>1. j \in 1..Len(binding.stack) /\ key \in DOMAIN binding.heap
        BY <1>1, <1>2, <1>6
      <4> QED
        BY <2>2, <3>1, <4>1
    <3>2. CASE ~(j > m)
      <4>1. j \in 1..m /\ j \in 2..m
        BY <1>2, <3>2
      <4>2. binding'.stack[j].key = key
        BY <2>2, <4>1 DEF Gives
      <4> QED
        BY <1>1, <4>1, <4>2
    <3> QED
      BY <3>1, <3>2
  <2>3. (\A i \in DOMAIN binding.heap[key] : Met(binding.heap[key][i]))
           => \A i \in DOMAIN binding'.heap[key] : Met(binding.heap[key][i])'
    BY <1>1 DEF Met
  <2> QED
    BY <2>1, <2>2, <2>3
<1>7. ASSUME NEW j \in 1..m
      PROVE  KeepsActive(j)'
  <2> DEFINE a == binding.stack[j]
             b == binding'.stack[j]
  <2>1. KeepsActive(j) /\ j \in 1..Len(binding.stack)
    BY <1>2 DEF Keeps
  <2>2. /\ b.key = a.key /\ b.from = a.from /\ b.new = a.new
        /\ b.memo = IF j = m THEN memo ELSE a.memo
        /\ b.done = IF j = m THEN Append(a.done, v) ELSE a.done
    BY DEF Gives
  <2>3. ASSUME NEW i \in DOMAIN b.done
        PROVE  Met(binding.stack[j].from[i])' \/ (j = 1 /\ i \in binding'.escaped)
    <3>1. i \in DOMAIN a.done \/ (j = m /\ i = Len(a.done) + 1)
      <4>1. a.done \in Seq(Cell) /\ Len(a.done) \in Nat /\ DOMAIN a.done = 1..Len(a.done)
        BY <2>1, StackIs
      <4>2. CASE j = m
        <5>1. b.done = Append(a.done, v)
          BY <2>2, <4>2
        <5>2. DOMAIN Append(a.done, v) = 1..(Len(a.done) + 1)
          BY <4>1
        <5>3. i \in 1..(Len(a.done) + 1)
          BY <2>3, <5>1, <5>2
        <5> QED
          BY <4>1, <4>2, <5>3
      <4>3. CASE j # m
        BY <2>2, <2>3, <4>3
      <4> QED
        BY <4>2, <4>3
    <3>2. Met(a.from[i]) \/ (j = 1 /\ i \in binding.escaped)
      <4>1. CASE i \in DOMAIN a.done
        BY <2>1, <4>1 DEF KeepsActive
      <4>2. CASE j = m /\ i = Len(a.done) + 1
        BY <4>2
      <4> QED
        BY <3>1, <4>1, <4>2
    <3>3. Met(a.from[i]) => Met(binding.stack[j].from[i])'
      BY <1>1, <2>2 DEF Met
    <3> QED
      BY <1>1, <3>2, <3>3
  <2>4. \A p \in b.memo : p[1] \in binding'.keys
    <3>1. CASE j = m
      BY <1>1, <2>2, <3>1
    <3>2. CASE j # m
      BY <1>1, <2>1, <2>2, <3>2 DEF KeepsActive
    <3> QED
      BY <3>1, <3>2
  <2>5. ASSUME j # 1
        PROVE  LET below == binding'.stack[j - 1]
                   next == Len(below.done) + 1
               IN  /\ b.key \in binding'.keys
                   /\ b.key \in DOMAIN binding'.heap => b.from = binding'.heap[b.key]
                   /\ b.new \in DOMAIN content' \ DOMAIN binding'.heap
                   /\ \A f \in DOMAIN frames' : b.new \notin frames'[f].reached
                   /\ next <= Len(below.from) /\ b.key = KeyOf(below.from[next])
                   /\ ~(j = 2 /\ next \in binding'.escaped)
    <3>0. DOMAIN content' = DOMAIN content
      BY DEF Gives, Lands
    <3>1. j - 1 \in 1..m /\ j - 1 # m
      BY <1>2, <2>5
    <3>2. binding'.stack[j - 1].done = binding.stack[j - 1].done /\ binding'.stack[j - 1].from = binding.stack[j - 1].from
      BY <3>1 DEF Gives
    <3> HIDE DEF b
    <3> QED
      BY <1>1, <2>1, <2>2, <2>5, <3>0, <3>2 DEF KeepsActive
  <2> QED
    BY <2>3, <2>4, <2>5 DEF KeepsActive
<1> QED
  BY <1>2, <1>3, <1>5, <1>6, <1>7 DEF Keeps, FramesKeep

LEMMA BeginKeeps ==
    ASSUME CallsTypeOK, Keeps, More, CallsTypeOK', NEW key, NEW new, Begins(key, new)
    PROVE  Keeps'
<1>0. PICK n : n = Len(binding.stack)
  OBVIOUS
<1>1. /\ UNCHANGED frames /\ \A kind \in Kinds : made[kind] <= made'[kind]
      /\ new \in Keys \ DOMAIN content /\ new[1] = key[1] /\ new[2] = made[key[1]] + 1
      /\ key \in DOMAIN content /\ key = KeyOf(Current)
      /\ DOMAIN content' = DOMAIN content \cup {new} /\ \A k \in DOMAIN content : content'[k] = content[k]
      /\ binding'.escaped = binding.escaped /\ binding'.heap = binding.heap
      /\ binding'.keys = binding.keys \cup {key}
      /\ Len(binding'.stack) = n + 1
      /\ \A j \in 1..n : binding'.stack[j] = binding.stack[j]
  BY <1>0, Zenon DEF Begins
<1>2. LET a == binding'.stack[n + 1]
      IN  a.key = key /\ a.new = new /\ a.from = content[key] /\ a.done = <<>> /\ a.memo = Top.memo \cup {<<key, new>>}
  BY <1>0, Zenon DEF Begins
<1>3. Top = binding.stack[n] /\ n \in 1..n /\ Len(Top.done) < Len(Top.from) /\ n \in Nat
  BY <1>0, CurrentIs, StackIs
<1>4. DOMAIN binding'.stack = 1..(n + 1) /\ DOMAIN binding.stack = 1..n
  <2>1. binding'.stack \in Seq(Activations)
    BY DEF CallsTypeOK, Bindings
  <2> QED
    BY <1>0, <1>1, <2>1, LenProperties, StackIs
<1>5. FramesKeep'
  BY <1>1, FramesGrow
<1>6. \A w : Met(w) => Met(w)'
  BY <1>1 DEF Met
<1>7. \A k \in DOMAIN binding.heap : k \in DOMAIN content /\ content[k] = binding.heap[k]
  BY DEF Keeps
<1>8. \A k \in DOMAIN binding'.heap : k \in DOMAIN content' /\ content'[k] = binding'.heap[k]
  BY <1>1, <1>7
<1>9. ASSUME NEW k \in binding'.keys \cap DOMAIN binding'.heap
      PROVE  \/ \A i \in DOMAIN binding'.heap[k] : Met(binding.heap[k][i])'
             \/ \E j \in 2..Len(binding'.stack) : binding'.stack[j].key = k
  <2>1. CASE k = key
    <3>1. n + 1 \in 2..Len(binding'.stack) /\ binding'.stack[n + 1].key = k
      BY <1>1, <1>2, <1>3, <2>1
    <3> QED
      BY <3>1
  <2>2. CASE k # key
    <3>1. \/ \A i \in DOMAIN binding.heap[k] : Met(binding.heap[k][i])
          \/ \E j \in 2..n : binding.stack[j].key = k
      BY <1>0, <1>1, <1>9, <2>2 DEF Keeps
    <3>2. ASSUME \A i \in DOMAIN binding.heap[k] : Met(binding.heap[k][i])
          PROVE  \A i \in DOMAIN binding'.heap[k] : Met(binding.heap[k][i])'
      BY <1>1, <3>2 DEF Met
    <3>3. ASSUME NEW j \in 2..n, binding.stack[j].key = k
          PROVE  j \in 2..Len(binding'.stack) /\ binding'.stack[j].key = k
      <4>1. j \in 1..n /\ j \in 2..(n + 1)
        BY <1>3
      <4> QED
        BY <1>1, <3>3, <4>1
    <3> QED
      BY <3>1, <3>2, <3>3
  <2> QED
    BY <2>1, <2>2
<1>10. ASSUME NEW j \in 1..n
       PROVE  KeepsActive(j)'
  <2>1. KeepsActive(j) /\ binding'.stack[j] = binding.stack[j]
    BY <1>1, <1>4 DEF Keeps
  <2>2. j # 1 => j - 1 \in 1..n
    BY <1>3
  <2>3. j # 1 => binding'.stack[j - 1] = binding.stack[j - 1]
    BY <1>1, <2>2
  <2>4. \A i \in DOMAIN binding.stack[j].done :
           Met(binding.stack[j].from[i])' \/ (j = 1 /\ i \in binding.escaped)
    BY <1>1, <2>1 DEF KeepsActive, Met
  <2> QED
    BY <1>1, <2>1, <2>3, <2>4 DEF KeepsActive
<1>11. KeepsActive(n + 1)'
  <2> DEFINE a == binding'.stack[n + 1]
             below == binding'.stack[n]
             next == Len(below.done) + 1
  <2>1. below = Top
    BY <1>1, <1>3
  <2>2. next <= Len(below.from) /\ key = KeyOf(below.from[next]) /\ ~(n = 1 /\ next \in binding.escaped)
    <3>1. Len(Top.done) \in Nat /\ Len(Top.from) \in Nat
      BY <1>0, <1>3, StackIs
    <3>2. ~(n = 1 /\ Len(Top.done) + 1 \in binding.escaped)
      BY <1>0, Zenon DEF Begins
    <3>3. key = KeyOf(Top.from[Len(Top.done) + 1])
      BY <1>1, Zenon DEF Current, Awaited
    <3>4. Len(Top.done) + 1 <= Len(Top.from)
      BY <1>3, <3>1
    <3> QED
      BY <2>1, <3>2, <3>3, <3>4, Zenon
  <2>3. \A p \in a.memo : p[1] \in binding'.keys
    <3>1. \A p \in Top.memo : p[1] \in binding.keys
      BY <1>3, <1>4 DEF Keeps, KeepsActive
    <3> QED
      BY <1>1, <1>2, <3>1
  <2>4. a.key \in DOMAIN binding'.heap => a.from = binding'.heap[a.key]
    BY <1>1, <1>2, <1>7
  <2>5. a.new \in DOMAIN content' \ DOMAIN binding'.heap
    BY <1>1, <1>2, <1>7
  <2>6. ASSUME NEW f \in DOMAIN frames' PROVE a.new \notin frames'[f].reached
    <3>1. SUFFICES ASSUME new \in frames[f].reached PROVE FALSE
      BY <1>1, <1>2
    <3>2. new[2] <= made[new[1]]
      BY <1>1, <2>6, <3>1 DEF Keeps
    <3>3. new[1] \in Kinds /\ made[new[1]] \in Nat
      BY <1>1 DEF Keys, CallsTypeOK
    <3> QED
      BY <1>1, <3>2, <3>3
  <2>7. DOMAIN a.done = {}
    BY <1>2
  <2>8. (n + 1) - 1 = n /\ (n + 1 = 2 => n = 1)
    <3>1. \A k \in Nat : (k + 1) - 1 = k /\ (k + 1 = 2 => k = 1)
      OBVIOUS
    <3> QED
      BY <1>3, <3>1, Zenon
  <2>9. a.key \in binding'.keys /\ a.key = key
    BY <1>1, <1>2
  <2>10. ~(n + 1 = 2 /\ next \in binding'.escaped)
    BY <1>1, <2>2, <2>8, Zenon
  <2>11. next <= Len(below.from) /\ a.key = KeyOf(below.from[next])
    BY <2>2, <2>9, Zenon
  <2>12. /\ \A i \in DOMAIN binding'.stack[n + 1].done :
               Met(binding.stack[n + 1].from[i])' \/ (n + 1 = 1 /\ i \in binding'.escaped)
         /\ binding'.stack[(n + 1) - 1] = below
    BY <2>7, <2>8
  <2> QED
    BY <2>3, <2>4, <2>5, <2>6, <2>9, <2>10, <2>11, <2>12, Zenon DEF KeepsActive
<1>12. \A j \in 1..(n + 1) : j \in 1..n \/ j = n + 1
  BY <1>3
<1>13. \A j \in DOMAIN binding'.stack : KeepsActive(j)'
  BY <1>4, <1>10, <1>11, <1>12, Zenon
<1> QED
  BY <1>5, <1>8, <1>9, <1>13, Zenon DEF Keeps, FramesKeep

LEMMA CallKeeps ==
    ASSUME CallsTypeOK, Keeps, CallsTypeOK', NEW actuals, NEW escaped, Calls(actuals, escaped)
    PROVE  Keeps'
<1>1. /\ UNCHANGED <<content, made, frames>>
      /\ binding'.heap = content /\ binding'.keys = {}
      /\ DOMAIN binding'.stack = {1}
      /\ binding'.stack[1].done = <<>> /\ binding'.stack[1].memo = {}
  BY DEF Calls
<1>2. KeepsActive(1)'
  <2>1. DOMAIN binding'.stack[1].done = {}
    BY <1>1
  <2> QED
    BY <1>1, <2>1 DEF KeepsActive
<1> QED
  BY <1>1, <1>2 DEF Keeps

LEMMA EnterKeeps ==
    ASSUME CallsTypeOK, Keeps, Enter
    PROVE  CallsTypeOK' /\ Keeps'
<1> DEFINE n == Len(binding.stack)
           old == binding.heap
           K == binding.keys \cap DOMAIN old
           R == UNION {Reach(Top.from[i], old) : i \in DOMAIN Top.from \ binding.escaped}
           frame == [bindings |-> binding.keys, reached |-> R]
<1>1. Binds /\ ~More /\ n = 1 /\ frames' = Append(frames, frame) /\ binding' = NoBinding /\ UNCHANGED <<content, made>>
  BY DEF Enter
<1>2. /\ Top = binding.stack[1] /\ DOMAIN binding.stack = 1..1
      /\ Len(Top.done) = Len(Top.from) /\ DOMAIN Top.done = DOMAIN Top.from
  <2>1. Top = binding.stack[1] /\ DOMAIN binding.stack = 1..1 /\ 1 \in 1..n
    BY <1>1, StackIs
  <2>2. /\ Len(Top.done) \in Nat /\ Len(Top.from) \in Nat /\ Len(Top.done) <= Len(Top.from)
        /\ DOMAIN Top.done = 1..Len(Top.done) /\ DOMAIN Top.from = 1..Len(Top.from)
    BY <2>1, StackIs DEF CallsTypeOK
  <2>3. Len(Top.done) = Len(Top.from)
    BY <1>1, <2>2 DEF More
  <2> QED
    BY <2>1, <2>2, <2>3
<1>3. /\ IsFiniteSet(DOMAIN old) /\ old \in Store /\ binding.keys \in SUBSET Keys
      /\ frames \in Seq([bindings : SUBSET Keys, reached : SUBSET Keys])
  BY DEF CallsTypeOK, Bindings
<1>4. \A key \in K : \A i \in DOMAIN old[key] : Refers(old[key][i], old) => KeyOf(old[key][i]) \in K
  <2>1. ASSUME NEW key \in K, NEW i \in DOMAIN old[key] PROVE Met(old[key][i])
    <3>1. \/ \A l \in DOMAIN binding.heap[key] : Met(binding.heap[key][l])
          \/ \E j \in 2..Len(binding.stack) : binding.stack[j].key = key
      BY DEF Keeps
    <3>2. 2..Len(binding.stack) = {}
      BY <1>1
    <3> QED
      BY <2>1, <3>1, <3>2
  <2> QED
    BY <2>1 DEF Met, Refers
<1>5. ASSUME NEW i \in DOMAIN Top.from \ binding.escaped PROVE Reach(Top.from[i], old) \subseteq K
  <2>1. KeepsActive(1)
    BY <1>2 DEF Keeps
  <2>2. Met(Top.from[i])
    BY <1>2, <1>5, <2>1 DEF KeepsActive
  <2>3. Refers(Top.from[i], old) => KeyOf(Top.from[i]) \in K
    BY <2>2 DEF Met, Refers
  <2> HIDE DEF K, old
  <2>4. K \in SUBSET DOMAIN old
    BY DEF K
  <2> QED
    BY <1>3, <1>4, <2>3, <2>4, ReachWithin
<1>6. R \subseteq K
  BY <1>5
<1> HIDE DEF R
<1>7. frame \in [bindings : SUBSET Keys, reached : SUBSET Keys]
  BY <1>3, <1>6
<1>8. \A key \in R : key[2] <= made[key[1]]
  <2>1. ASSUME NEW key \in R PROVE key[2] <= made[key[1]]
    <3>1. key \in DOMAIN content
      BY <1>6 DEF Keeps
    <3>2. key \in Keys /\ key[2] \in 1..made[key[1]]
      BY <3>1, StoreIs DEF CallsTypeOK
    <3> QED
      BY <3>2 DEF Keys, CallsTypeOK
  <2> QED
    BY <2>1
<1>9. /\ frames' \in Seq([bindings : SUBSET Keys, reached : SUBSET Keys])
      /\ Len(frames') = Len(frames) + 1 /\ Len(frames) \in Nat
      /\ \A f \in 1..Len(frames) : frames'[f] = frames[f]
      /\ frames'[Len(frames) + 1] = frame
      /\ DOMAIN frames = 1..Len(frames)
  BY <1>1, <1>3, <1>7, AppendProperties, LenProperties
<1>10. ASSUME NEW f \in DOMAIN frames'
       PROVE  frames'[f].reached \subseteq frames'[f].bindings /\ \A key \in frames'[f].reached : key[2] <= made[key[1]]
  <2>1. f \in 1..Len(frames) \/ f = Len(frames) + 1
    BY <1>9, LenProperties
  <2>2. CASE f \in 1..Len(frames)
    BY <1>9, <2>2 DEF Keeps
  <2>3. CASE f = Len(frames) + 1
    <3>1. frames'[f].reached = R /\ frames'[f].bindings = binding.keys
      BY <1>9, <2>3
    <3> QED
      BY <1>6, <1>8, <3>1
  <2> QED
    BY <2>1, <2>2, <2>3
<1>11. FramesKeep'
  BY <1>1, <1>10 DEF FramesKeep
<1>12. ContentTypeOK'
  BY <1>1, SameContent
<1>13. CallsTypeOK'
  <2>1. binding' \in Bindings /\ IsFiniteSet(DOMAIN binding'.heap) /\ DOMAIN binding'.stack = {}
    BY <1>1, NoBindingIs, NoneIsStore
  <2> QED
    BY <1>1, <1>9, <1>12, <2>1, Zenon DEF CallsTypeOK, ContentTypeOK
<1> QED
  BY <1>1, <1>11, <1>13, IdleKeeps

LEMMA EndCallKeeps ==
    ASSUME CallsTypeOK, Keeps, EndCall
    PROVE  CallsTypeOK' /\ Keeps'
<1>1. ~Binds /\ frames # <<>> /\ frames' = Front(frames) /\ UNCHANGED <<content, made, binding>> /\ binding = NoBinding
  BY DEF EndCall, CallsTypeOK
<1>2. frames \in Seq([bindings : SUBSET Keys, reached : SUBSET Keys])
  BY DEF CallsTypeOK
<1>3. /\ frames' \in Seq([bindings : SUBSET Keys, reached : SUBSET Keys])
      /\ \A f \in DOMAIN frames' : f \in DOMAIN frames /\ frames'[f] = frames[f]
  BY <1>1, <1>2, FrontIs
<1>4. FramesKeep'
  BY <1>1, <1>3 DEF FramesKeep, Keeps
<1>5. CallsTypeOK'
  BY <1>1, <1>3 DEF CallsTypeOK, Binds
<1> QED
  BY <1>1, <1>4, <1>5, IdleKeeps

-----------------------------------------------------------------------------
\* The initial state, and what ended calls leave.
LEMMA CallsInitOK == ASSUME CallsInit PROVE CallsTypeOK /\ Keeps
<1>1. /\ content = None /\ made = [kind \in Kinds |-> 0] /\ frames = <<>> /\ binding = NoBinding
  BY DEF CallsInit
<1>2. /\ binding \in Bindings /\ binding.keys = {} /\ DOMAIN binding.heap = {} /\ DOMAIN binding.stack = {}
      /\ IsFiniteSet(DOMAIN binding.heap)
  BY <1>1, NoBindingIs, NoneIsStore
<1>3. content \in Store /\ DOMAIN content = {} /\ IsFiniteSet(DOMAIN content)
  BY <1>1, NoneIsStore
<1>4. frames \in Seq([bindings : SUBSET Keys, reached : SUBSET Keys]) /\ DOMAIN frames = {}
  BY <1>1
<1>5. made \in [Kinds -> Nat]
  BY <1>1
<1> QED
  BY <1>1, <1>2, <1>3, <1>4, <1>5, Zenon DEF CallsTypeOK, Keeps

\* The steps of the next-state relation, one lemma for those that deliver a value.
LEMMA DeliveriesKeep ==
    ASSUME CallsTypeOK, Keeps, AsItIs \/ CopiedBefore \/ EndCopy
    PROVE  CallsTypeOK' /\ Keeps'
<1> DEFINE n == Len(binding.stack)
<1>1. \A key \in DOMAIN binding.heap : key \in DOMAIN content /\ content[key] = binding.heap[key]
  BY DEF Keeps
<1>2. ASSUME More, NEW v, Gives(n, v, Top.memo), CallsTypeOK',
             Met(Current) \/ (n = 1 /\ Len(Top.done) + 1 \in binding.escaped)
      PROVE  Keeps'
  <2>1. Top = binding.stack[n] /\ n \in 1..n /\ n \in Nat /\ n \in DOMAIN binding.stack
    BY <1>2, CurrentIs, StackIs
  <2>2. \A p \in Top.memo : p[1] \in binding.keys
    BY <2>1 DEF Keeps, KeepsActive
  <2>3. \A j \in 1..Len(binding.stack) : j > n /\ binding.stack[j].key \in DOMAIN binding.heap =>
           \A i \in DOMAIN binding.heap[binding.stack[j].key] : Met(binding.heap[binding.stack[j].key][i])
    BY <2>1
  <2>4. Current = binding.stack[n].from[Len(binding.stack[n].done) + 1]
    BY <2>1 DEF Current, Awaited
  <2>5. \/ Met(binding.stack[n].from[Len(binding.stack[n].done) + 1])
        \/ n = 1 /\ Len(binding.stack[n].done) + 1 \in binding.escaped
    BY <1>2, <2>1, <2>4
  <2> QED
    BY <1>2, <2>2, <2>3, <2>5, GivesKeeps, Zenon
<1>3. CASE AsItIs
  <2>1. More /\ ~Mutable /\ Gives(n, Current, Top.memo) /\ CallsTypeOK'
    BY <1>3, AsItIsGives DEF AsItIs
  <2>2. Met(Current) \/ (n = 1 /\ Len(Top.done) + 1 \in binding.escaped)
    BY <1>1, <2>1 DEF Mutable, IsMutable, Met, Refers
  <2> QED
    BY <1>2, <2>1, <2>2
<1>4. CASE CopiedBefore
  <2>1. PICK p \in Top.memo : p[1] = KeyOf(Current) /\ Gives(n, Naming(Current, p[2]), Top.memo)
    BY <1>4, CopiedBeforeGives
  <2>2. CallsTypeOK' /\ More
    BY <1>4, CopiedBeforeGives, Zenon DEF CopiedBefore
  <2>3. Top = binding.stack[n] /\ n \in DOMAIN binding.stack
    BY <2>2, CurrentIs, StackIs
  <2>4. p[1] \in binding.keys
    BY <2>3, Zenon DEF Keeps, KeepsActive
  <2>5. Met(Current)
    BY <2>1, <2>4 DEF Met
  <2> QED
    BY <1>2, <2>1, <2>2, <2>5
<1>5. CASE EndCopy
  <2>1. /\ n - 1 \in 1..n /\ n \in 2..n /\ Top = binding.stack[n] /\ Top.new \in DOMAIN content
        /\ Len(Top.done) = Len(Top.from)
        /\ Gives(n - 1, Naming(binding.stack[n - 1].from[Len(binding.stack[n - 1].done) + 1], Top.new),
                 MemoAfter(binding.stack[n - 1].memo, Top.memo))
        /\ CallsTypeOK'
    BY <1>5, EndCopyGives
  <2>2. n \in Nat /\ n \in DOMAIN binding.stack /\ n # 1 /\ DOMAIN Top.done = DOMAIN Top.from
    BY <2>1, StackIs
  <2>3. /\ \A i \in DOMAIN Top.done : Met(Top.from[i])
        /\ \A p \in Top.memo : p[1] \in binding.keys
        /\ Top.key \in binding.keys
        /\ Top.key \in DOMAIN binding.heap => Top.from = binding.heap[Top.key]
        /\ Top.new \notin DOMAIN binding.heap
        /\ Top.key = KeyOf(binding.stack[n - 1].from[Len(binding.stack[n - 1].done) + 1])
    BY <2>1, <2>2, Zenon DEF Keeps, KeepsActive
  <2>5. Met(binding.stack[n - 1].from[Len(binding.stack[n - 1].done) + 1])
    BY <2>3, Zenon DEF Met
  <2>6. \A p \in MemoAfter(binding.stack[n - 1].memo, Top.memo) : p[1] \in binding.keys
    <3>1. MemoAfter(binding.stack[n - 1].memo, Top.memo) \subseteq Top.memo
      BY DEF MemoAfter
    <3> QED
      BY <2>3, <3>1, Zenon
  <2>7. ASSUME NEW j \in 1..n, j > n - 1, binding.stack[j].key \in DOMAIN binding.heap
        PROVE  \A i \in DOMAIN binding.heap[binding.stack[j].key] : Met(binding.heap[binding.stack[j].key][i])
    <3>1. j = n
      BY <2>2, <2>7
    <3>2. binding.stack[j] = Top
      BY <2>1, <3>1, Zenon
    <3>3. binding.heap[binding.stack[j].key] = Top.from
      BY <2>3, <2>7, <3>2, Zenon
    <3>4. \A i \in DOMAIN Top.from : Met(Top.from[i])
      BY <2>2, <2>3, Zenon
    <3> QED
      BY <3>3, <3>4, Zenon
  <2> QED
    BY <2>1, <2>5, <2>6, <2>7, GivesKeeps
<1> QED
  BY <1>3, <1>4, <1>5

LEMMA CallsNextOK ==
    ASSUME CallsTypeOK, Keeps, [CallsNext]_callVars
    PROVE  CallsTypeOK' /\ Keeps'
<1>1. CASE Program
  <2>1. CallsTypeOK' /\ ProgramKeeps
    BY <1>1, ProgramIs
  <2>2. binding' = NoBinding /\ FramesKeep'
    BY <2>1, FramesGrow DEF ProgramKeeps, CallsTypeOK
  <2> QED
    BY <2>1, <2>2, IdleKeeps
<1>2. CASE \E n \in 1..MaxArgs : \E actuals \in [1..n -> KnownValues], escaped \in SUBSET (1..n) : Call(actuals, escaped)
  BY <1>2, CallCalls, CallKeeps
<1>3. CASE BeginCopy
  BY <1>3, BeginCopyBegins, BeginKeeps
<1>4. CASE UNCHANGED callVars
  BY <1>4 DEF callVars, CallsTypeOK, Keeps, KeepsActive, Met, Refers, Binds
<1> QED
  BY <1>1, <1>2, <1>3, <1>4, DeliveriesKeep, EnterKeeps, EndCallKeeps, Zenon DEF CallsNext, Program

\* While a call runs, no write changes what its arguments reached, for every program,
\* also one whose numbers name blocks.
LEMMA ReachedKept ==
    ASSUME CallsTypeOK, Keeps, [CallsNext]_callVars, writes' # writes, NEW f \in DOMAIN frames,
           NEW key \in frames[f].reached \cap DOMAIN content
    PROVE  key \in DOMAIN content' /\ content'[key] = content[key]
<1>1. Protected(key)
  BY DEF Keeps, Protected
<1>2. Program
  BY Zenon DEF CallsNext, Program, Call, AsItIs, CopiedBefore, BeginCopy, EndCopy, Enter, EndCall, callVars, counters
<1>3. ProgramKeeps
  BY <1>2, ProgramIs
<1> QED
  BY <1>1, <1>3 DEF ProgramKeeps

(* WritesAreKeptOut holds of every execution, whatever numbers the program *)
(* writes: while a call runs, no heap_set and no field_set changes what    *)
(* its arguments reached.                                                  *)
THEOREM CallsKeepWritesOut == CallsSpec => WritesAreKeptOut
<1>1. CallsInit => CallsTypeOK /\ Keeps
  BY CallsInitOK
<1>2. (CallsTypeOK /\ Keeps) /\ [CallsNext]_callVars => (CallsTypeOK /\ Keeps)'
  BY CallsNextOK
<1>3. (CallsTypeOK /\ Keeps) /\ [CallsNext]_callVars
         => [writes' # writes =>
                \A f \in DOMAIN frames : \A key \in frames[f].reached :
                   key \in DOMAIN content => key \in DOMAIN content' /\ content'[key] = content[key]]_callVars
  BY ReachedKept
<1> QED
  BY <1>1, <1>2, <1>3, PTL DEF CallsSpec, WritesAreKeptOut

-----------------------------------------------------------------------------
(* What there was when the call began leads to nothing new, but for a      *)
(* number that names a copy of the same call; every copy of something old  *)
(* corresponds to it as soon as it is off the stack, and what is being     *)
(* copied is in the memos above it.                                        *)
Known(v) == v.is # "num" => v.n <= made[v.is]
ContentKnown == \A key \in DOMAIN content : \A i \in DOMAIN content[key] : Known(content[key][i])

Old(v) == v.is # "num" /\ KeyOf(v) \in DOMAIN content => KeyOf(v) \in DOMAIN binding.heap
Corresponds(v, w) ==
    /\ w.is = v.is
    /\ IF Refers(v, binding.heap) THEN <<KeyOf(v), KeyOf(w)>> \in binding.copies
       ELSE w = v \/ (v.is = "num" /\ KeyOf(v) \in DOMAIN content)

Complete(p) ==
    /\ Len(content[p[2]]) = Len(binding.heap[p[1]])
    /\ \A i \in DOMAIN binding.heap[p[1]] : Corresponds(binding.heap[p[1]][i], content[p[2]][i])
CopyOf(p) ==
    /\ p[1] \in DOMAIN content
    /\ p[2] \in DOMAIN content \ DOMAIN binding.heap
    /\ p[1][1] = p[2][1]
    /\ p[1] \in DOMAIN binding.heap => Complete(p) \/ \E j \in 2..Len(binding.stack) : binding.stack[j].new = p[2]

Matches(j) ==
    LET a == binding.stack[j] IN
    /\ \A i \in DOMAIN a.from : Old(a.from[i])
    /\ \A i \in DOMAIN a.done :
          IF j = 1 /\ i \in binding.escaped THEN a.done[i] = a.from[i] ELSE Corresponds(a.from[i], a.done[i])

CopiesActive(j) ==
    LET a == binding.stack[j] IN
    /\ \A i \in DOMAIN a.from : Known(a.from[i])
    /\ \A i \in DOMAIN a.done : Known(a.done[i])
    /\ j = 1 \/ a.key \in DOMAIN binding.heap => Matches(j)
    /\ a.memo \subseteq binding.copies
    /\ IF j = 1 THEN a.key = <<>>
       ELSE a.key # <<>> /\ <<a.key, a.new>> \in binding.copies /\ content[a.new] = Partly(a.new, a.done, a.from)
    /\ \A i \in 2..j : \E p \in a.memo : p[1] = binding.stack[i].key

Copies ==
    /\ ContentKnown
    /\ \A key \in DOMAIN binding.heap : \A i \in DOMAIN binding.heap[key] : Old(binding.heap[key][i])
    /\ \A p \in binding.copies : CopyOf(p)
    /\ \A p, q \in binding.copies : p[2] = q[2] => p[1] = q[1]
    /\ \A j \in DOMAIN binding.stack : CopiesActive(j)
    /\ \A i, j \in 2..Len(binding.stack) : binding.stack[i].key = binding.stack[j].key => i = j

LEMMA KnownAre ==
    ASSUME CallsTypeOK
    PROVE  Known(Zero) /\ \A v \in KnownValues : Known(v)
<1>1. Known(Zero)
  BY DEF Known, Zero
<1>2. ASSUME NEW v \in KnownValues PROVE Known(v)
  <2>1. \A kind \in Kinds : made[kind] \in Nat /\ kind # "num"
    BY DEF CallsTypeOK, Kinds
  <2>2. CASE \E n \in Numbers : v = [is |-> "num", n |-> n]
    BY <2>2 DEF Known
  <2>3. CASE \E kind \in Kinds : \E n \in 1..made[kind] : v = [is |-> kind, n |-> n]
    BY <2>1, <2>3 DEF Known
  <2> QED
    BY <2>2, <2>3 DEF KnownValues
<1> QED
  BY <1>1, <1>2

\* What is known stays known, and is not what is made next.
LEMMA KnownStays ==
    ASSUME CallsTypeOK, CallsTypeOK', \A kind \in Kinds : made[kind] <= made'[kind], NEW v \in Cell, Known(v)
    PROVE  Known(v)'
<1>1. v.is \in Kinds \cup {"num"} /\ v.n \in Int
  BY DEF Cell
<1>2. CASE v.is = "num"
  BY <1>2 DEF Known
<1>3. CASE v.is \in Kinds /\ v.is # "num"
  <2>1. made[v.is] \in Nat /\ made'[v.is] \in Nat /\ made[v.is] <= made'[v.is] /\ v.n <= made[v.is]
    BY <1>3 DEF CallsTypeOK, Known
  <2>2. v.n <= made'[v.is]
    BY <1>1, <2>1
  <2> QED
    BY <1>3, <2>2 DEF Known
<1> QED
  BY <1>1, <1>2, <1>3

LEMMA KnownNotNew ==
    ASSUME CallsTypeOK, NEW v \in Cell, Known(v), v.is # "num", NEW new \in Keys, new[2] = made[new[1]] + 1
    PROVE  KeyOf(v) # new
<1>1. v.is \in Kinds \cup {"num"} /\ v.n \in Int /\ made[new[1]] \in Nat /\ new[1] \in Kinds
  BY DEF Cell, Keys, CallsTypeOK
<1>2. SUFFICES ASSUME KeyOf(v) = new PROVE FALSE
  OBVIOUS
<1>3. v.n = made[new[1]] + 1 /\ new[1] = IF v.is = "obj" THEN "obj" ELSE "ptr"
  BY <1>2 DEF KeyOf
<1>4. v.is = new[1]
  BY <1>1, <1>3 DEF Kinds
<1>5. v.n <= made[new[1]]
  BY <1>4 DEF Known
<1> QED
  BY <1>1, <1>3, <1>5

\* The key of what names a copy.
LEMMA NamingIs ==
    ASSUME NEW v \in Cell, NEW key \in Keys, key[1] = KeyOf(v)[1]
    PROVE  KeyOf(Naming(v, key)) = key /\ Naming(v, key).is = v.is
<1>1. key[1] \in {"ptr", "obj"} /\ key = <<key[1], key[2]>>
  BY DEF Keys, Kinds
<1>2. Naming(v, key).is = v.is /\ Naming(v, key).n = key[2]
  BY DEF Naming, Cell
<1> QED
  BY <1>1, <1>2 DEF KeyOf

\* Of the values of what is old, those that name something old or were looked up.
LEMMA CopyCorresponds ==
    ASSUME CallsTypeOK, Keeps, NEW v \in Cell, Old(v), KeyOf(v) \in DOMAIN content,
           NEW p \in binding.copies, CopyOf(p), KeyOf(v) = p[1]
    PROVE  Corresponds(v, Naming(v, p[2]))
<1>1. p \in Keys \X Keys
  BY DEF CallsTypeOK, Bindings
<1>2. p[2] \in Keys /\ p = <<p[1], p[2]>>
  BY <1>1
<1>3. KeyOf(Naming(v, p[2])) = p[2] /\ Naming(v, p[2]).is = v.is
  BY <1>2, NamingIs DEF CopyOf
<1>4. v.is # "num" => Refers(v, binding.heap)
  BY DEF Old, Refers
<1> QED
  BY <1>2, <1>3, <1>4 DEF Corresponds, Refers

\* What names a copy is known.
LEMMA NamingKnown ==
    ASSUME CallsTypeOK, NEW v \in Cell, NEW p \in binding.copies, CopyOf(p), KeyOf(v) = p[1]
    PROVE  Known(Naming(v, p[2]))
<1>1. p \in Keys \X Keys
  BY DEF CallsTypeOK, Bindings
<1>2. p[2] \in Keys
  BY <1>1
<1>3. Naming(v, p[2]).is = v.is /\ Naming(v, p[2]).n = p[2][2]
  BY DEF Naming, Cell
<1>4. p[2] \in DOMAIN content /\ p[2][1] = KeyOf(v)[1]
  BY DEF CopyOf
<1>5. v.is # "num" => v.is = KeyOf(v)[1]
  BY DEF KeyOf, Cell, Kinds
<1>6. p[2][2] \in 1..made[p[2][1]] /\ made[p[2][1]] \in Nat
  BY <1>2, <1>4 DEF CallsTypeOK, Keys
<1> QED
  BY <1>3, <1>4, <1>5, <1>6 DEF Known

LEMMA NothingBound == ASSUME binding' = NoBinding, ContentKnown' PROVE Copies'
<1>1. /\ DOMAIN binding'.stack = {} /\ Len(binding'.stack) = 0 /\ binding'.copies = {}
      /\ DOMAIN binding'.heap = {}
  BY NoBindingIs, NoneIsStore
<1> QED
  BY <1>1 DEF Copies

LEMMA ContentIs ==
    ASSUME CallsTypeOK, NEW key \in DOMAIN content
    PROVE  /\ key \in Keys /\ content[key] \in Seq(Cell) /\ Len(content[key]) \in Nat
           /\ DOMAIN content[key] = 1..Len(content[key]) /\ \A i \in DOMAIN content[key] : content[key][i] \in Cell
<1>1. key \in Keys /\ content[key] \in Seq(Cell)
  BY StoreIs DEF CallsTypeOK
<1> QED
  BY <1>1

LEMMA ContentStaysKnown ==
    ASSUME CallsTypeOK, CallsTypeOK', ContentKnown, \A kind \in Kinds : made[kind] <= made'[kind],
           \A key \in DOMAIN content' : \A i \in DOMAIN content'[key] :
              \/ content'[key][i] \in KnownValues \cup {Zero}
              \/ key \in DOMAIN content /\ \E j \in DOMAIN content[key] : content'[key][i] = content[key][j]
    PROVE  ContentKnown'
<1>1. \A v \in Cell : Known(v) => Known(v)'
  BY KnownStays
<1>2. ASSUME NEW key \in DOMAIN content', NEW i \in DOMAIN content'[key] PROVE Known(content[key][i])'
  <2>1. PICK v : v = content'[key][i]
    OBVIOUS
  <2>2. v \in Cell /\ Known(v)
    <3>1. CASE v \in KnownValues \cup {Zero}
      BY <3>1, CellIs, KnownAre
    <3>2. ASSUME key \in DOMAIN content, NEW j \in DOMAIN content[key], v = content[key][j]
          PROVE  v \in Cell /\ Known(v)
      BY <3>2, ContentIs DEF ContentKnown
    <3> QED
      BY <1>2, <2>1, <3>1, <3>2
  <2>3. Known(v)'
    BY <1>1, <2>2
  <2> QED
    BY <2>1, <2>3 DEF Known
<1> QED
  BY <1>2 DEF ContentKnown

\* No two activations make the same copy.
LEMMA NewsDiffer ==
    ASSUME CallsTypeOK, Copies, NEW i \in 2..Len(binding.stack), NEW j \in 2..Len(binding.stack),
           binding.stack[i].new = binding.stack[j].new
    PROVE  i = j
<1>1. i \in DOMAIN binding.stack /\ j \in DOMAIN binding.stack /\ i # 1 /\ j # 1
  BY StackIs
<1>2. \A k \in {i, j} : <<binding.stack[k].key, binding.stack[k].new>> \in binding.copies
  BY <1>1 DEF Copies, CopiesActive
<1>3. binding.stack[i].key = binding.stack[j].key
  <2>1. PICK p \in binding.copies, q \in binding.copies :
           p = <<binding.stack[i].key, binding.stack[i].new>> /\ q = <<binding.stack[j].key, binding.stack[j].new>>
    BY <1>2
  <2>2. p[2] = q[2] => p[1] = q[1]
    BY DEF Copies
  <2> QED
    BY <2>1, <2>2
<1> QED
  BY <1>3 DEF Copies

\* What may be delivered: it corresponds, if what it is for is old, and the
\* activations that end by it have done all.
Fits(m, v, memo) ==
    LET a == binding.stack[m]
        i == Len(a.done) + 1
    IN  /\ v \in Cell /\ Known(v)
        /\ m = 1 \/ a.key \in DOMAIN binding.heap =>
              IF m = 1 /\ i \in binding.escaped THEN v = a.from[i] ELSE Corresponds(a.from[i], v)
        /\ memo \subseteq binding.copies
        /\ \A k \in 2..m : \E p \in memo : p[1] = binding.stack[k].key
        /\ \A j \in 2..Len(binding.stack) : j > m => Len(binding.stack[j].done) = Len(binding.stack[j].from)

\* What a step that delivers leaves.
LEMMA GivesLeaves ==
    ASSUME CallsTypeOK, CallsTypeOK', NEW m, NEW v, NEW memo, Gives(m, v, memo)
    PROVE  /\ m \in 1..Len(binding.stack) /\ Len(binding.stack) \in Nat /\ Len(binding'.stack) = m
           /\ DOMAIN binding'.stack = 1..m /\ DOMAIN binding.stack = 1..Len(binding.stack)
           /\ \A j \in 1..m : j \in DOMAIN binding.stack
           /\ DOMAIN content' = DOMAIN content
           /\ binding'.heap = binding.heap /\ binding'.copies = binding.copies /\ binding'.escaped = binding.escaped
           /\ \A x : (Known(x)' <=> Known(x)) /\ (Old(x)' <=> Old(x)) /\ \A y : Corresponds(x, y)' <=> Corresponds(x, y)
<1>1. /\ m \in 1..Len(binding.stack) /\ Len(binding.stack) \in Nat /\ Len(binding'.stack) = m
      /\ DOMAIN binding'.stack = 1..m /\ DOMAIN binding.stack = 1..Len(binding.stack)
  <2>1. binding'.stack \in Seq(Activations)
    BY DEF CallsTypeOK, Bindings
  <2> QED
    BY <2>1, LenProperties, StackIs DEF Gives
<1>2. \A j \in 1..m : j \in DOMAIN binding.stack
  BY <1>1
<1>3. DOMAIN content' = DOMAIN content /\ made' = made
  BY DEF Gives, Lands
<1>4. binding'.heap = binding.heap /\ binding'.copies = binding.copies /\ binding'.escaped = binding.escaped
  BY DEF Gives
<1>5. \A x : (Known(x)' <=> Known(x)) /\ (Old(x)' <=> Old(x)) /\ \A y : Corresponds(x, y)' <=> Corresponds(x, y)
  BY <1>3, <1>4 DEF Known, Old, Corresponds, Refers
<1> QED
  BY <1>1, <1>2, <1>3, <1>4, <1>5

\* The values so far, and the one that is delivered.
LEMMA DeliveredKnown ==
    ASSUME CallsTypeOK, Copies, NEW m, NEW v, NEW memo, Gives(m, v, memo), Fits(m, v, memo)
    PROVE  LET a == binding.stack[m]
               s == Partly(a.new, Append(a.done, v), a.from)
           IN  /\ \A i \in DOMAIN Append(a.done, v) : Known(Append(a.done, v)[i])
               /\ \A i \in DOMAIN s : Known(s[i])
<1>1. PICK a : a = binding.stack[m]
  OBVIOUS
<1>2. PICK d : d = Append(a.done, v)
  OBVIOUS
<1>3. /\ a.done \in Seq(Cell) /\ a.from \in Seq(Cell) /\ Len(a.done) \in Nat /\ Len(a.from) \in Nat
      /\ DOMAIN a.done = 1..Len(a.done) /\ m \in DOMAIN binding.stack /\ Len(a.done) < Len(a.from)
  BY <1>1, StackIs DEF Gives
<1>4. /\ d \in Seq(Cell) /\ Len(d) = Len(a.done) + 1 /\ d[Len(a.done) + 1] = v /\ \A i \in 1..Len(a.done) : d[i] = a.done[i]
      /\ DOMAIN d = 1..(Len(a.done) + 1)
  <2>1. v \in Cell
    BY DEF Fits
  <2> QED
    BY <1>2, <1>3, <2>1, AppendProperties, LenProperties
<1>5. \A i \in DOMAIN d : Known(d[i])
  <2>1. \A i \in DOMAIN a.done : Known(a.done[i])
    BY <1>1, <1>3 DEF Copies, CopiesActive
  <2>2. Known(v)
    BY DEF Fits
  <2>3. \A i \in 1..(Len(a.done) + 1) : i = Len(a.done) + 1 \/ i \in 1..Len(a.done)
    BY <1>3
  <2> QED
    BY <1>3, <1>4, <2>1, <2>2, <2>3
<1>6. PICK s : s = Partly(a.new, d, a.from)
  OBVIOUS
<1>7. HalfDone(s, d, a.from)
  <2>1. Len(d) <= Len(a.from)
    BY <1>3, <1>4
  <2> QED
    BY <1>3, <1>4, <1>6, <2>1, PartlyIs
<1>8. \A i \in DOMAIN s : Known(s[i])
  BY <1>5, <1>7, KnownAre DEF HalfDone
<1> QED
  BY <1>1, <1>2, <1>5, <1>6, <1>8

\* The copies after a value was delivered.
LEMMA GivesCopyOf ==
    ASSUME CallsTypeOK, Keeps, Copies, CallsTypeOK', NEW m, NEW v, NEW memo, Gives(m, v, memo), Fits(m, v, memo),
           NEW p \in binding.copies
    PROVE  CopyOf(p)'
<1>1. /\ m \in 1..Len(binding.stack) /\ Len(binding.stack) \in Nat /\ Len(binding'.stack) = m
      /\ DOMAIN content' = DOMAIN content
      /\ binding'.heap = binding.heap /\ binding'.copies = binding.copies
      /\ \A x, y : Corresponds(x, y)' <=> Corresponds(x, y)
  BY GivesLeaves
<1>2. CopyOf(p)
  BY DEF Copies
<1>3. \A j \in 1..m : binding'.stack[j].new = binding.stack[j].new
  BY DEF Gives
<1>4. ASSUME NEW j \in 2..m, binding.stack[j].new = p[2]
      PROVE  \E k \in 2..Len(binding'.stack) : binding'.stack[k].new = p[2]
  <2>1. j \in 1..m
    BY <1>4
  <2> QED
    BY <1>1, <1>3, <1>4, <2>1
<1>5. CASE m # 1 /\ p[2] = binding.stack[m].new
  <2>1. m \in 2..m
    BY <1>1, <1>5
  <2> QED
    BY <1>1, <1>2, <1>4, <1>5, <2>1 DEF CopyOf
<1>6. CASE ~(m # 1 /\ p[2] = binding.stack[m].new)
  <2>1. content'[p[2]] = content[p[2]]
    BY <1>2, <1>6 DEF Gives, Lands, CopyOf
  <2>2. Complete(p) => Complete(p)'
    BY <1>1, <2>1 DEF Complete, Corresponds
  <2>3. ASSUME p[1] \in DOMAIN binding.heap, NEW j \in 2..Len(binding.stack), j > m, binding.stack[j].new = p[2]
        PROVE  Complete(p)
    <3>1. PICK a : a = binding.stack[j]
      OBVIOUS
    <3>2. j \in DOMAIN binding.stack /\ j # 1 /\ a.done \in Seq(Cell) /\ a.from \in Seq(Cell)
      BY <3>1, StackIs
    <3>3. Len(a.done) = Len(a.from)
      BY <2>3, <3>1 DEF Fits
    <3>4. CopiesActive(j) /\ KeepsActive(j)
      BY <3>2 DEF Copies, Keeps
    <3>5. <<a.key, a.new>> \in binding.copies /\ content[a.new] = Partly(a.new, a.done, a.from)
      BY <3>1, <3>2, <3>4 DEF CopiesActive
    <3>6. p[1] = a.key
      <4>1. PICK q \in binding.copies : q = <<a.key, a.new>>
        BY <3>5
      <4>2. q[2] = p[2] => q[1] = p[1]
        BY DEF Copies
      <4> QED
        BY <2>3, <3>1, <4>1, <4>2
    <3>7. a.from = binding.heap[p[1]] /\ Matches(j)
      BY <2>3, <3>1, <3>2, <3>4, <3>6 DEF KeepsActive, CopiesActive
    <3>8. content[p[2]] = a.done
      <4>1. Len(a.done) <= Len(a.from)
        BY <3>2, <3>3, LenProperties
      <4>2. HalfDone(Partly(a.new, a.done, a.from), a.done, a.from)
        BY <3>2, <4>1, PartlyIs
      <4> QED
        BY <2>3, <3>1, <3>3, <3>5, <4>2 DEF HalfDone
    <3>9. DOMAIN a.done = DOMAIN a.from
      BY <3>2, <3>3, LenProperties
    <3>10. \A i \in DOMAIN a.from : Corresponds(a.from[i], a.done[i])
      BY <3>1, <3>2, <3>7, <3>9 DEF Matches
    <3> QED
      BY <3>3, <3>7, <3>8, <3>10 DEF Complete
  <2>4. \A j \in 2..Len(binding.stack) : j \in 2..m \/ j > m
    BY <1>1
  <2> QED
    BY <1>1, <1>2, <1>4, <2>2, <2>3, <2>4 DEF CopyOf
<1> QED
  BY <1>5, <1>6

\* The activations after a value was delivered.
LEMMA GivesActive ==
    ASSUME CallsTypeOK, Keeps, Copies, CallsTypeOK', NEW m, NEW v, NEW memo, Gives(m, v, memo), Fits(m, v, memo),
           NEW j \in 1..m
    PROVE  CopiesActive(j)'
<1>1. /\ m \in 1..Len(binding.stack) /\ Len(binding.stack) \in Nat /\ j \in DOMAIN binding.stack /\ j \in 1..Len(binding.stack)
      /\ DOMAIN content' = DOMAIN content
      /\ binding'.heap = binding.heap /\ binding'.copies = binding.copies /\ binding'.escaped = binding.escaped
      /\ \A x : (Known(x)' <=> Known(x)) /\ (Old(x)' <=> Old(x)) /\ \A y : Corresponds(x, y)' <=> Corresponds(x, y)
  BY GivesLeaves
<1>2. PICK a : a = binding.stack[j]
  OBVIOUS
<1>3. PICK b : b = binding'.stack[j]
  OBVIOUS
<1>4. /\ b.key = a.key /\ b.from = a.from /\ b.new = a.new
      /\ b.memo = (IF j = m THEN memo ELSE a.memo)
      /\ b.done = (IF j = m THEN Append(a.done, v) ELSE a.done)
  BY <1>2, <1>3 DEF Gives
<1>5. CopiesActive(j)
  BY <1>1 DEF Copies
<1>6. a.done \in Seq(Cell) /\ DOMAIN a.done = 1..Len(a.done) /\ Len(a.done) \in Nat
  BY <1>1, <1>2, StackIs
<1>7. \A i \in DOMAIN b.from : Known(b.from[i])
  BY <1>2, <1>4, <1>5 DEF CopiesActive
<1>8. \A i \in DOMAIN b.done : Known(b.done[i])
  <2>1. CASE j = m
    BY <1>2, <1>4, <2>1, DeliveredKnown
  <2>2. CASE j # m
    BY <1>2, <1>4, <1>5, <2>2 DEF CopiesActive
  <2> QED
    BY <2>1, <2>2
<1>9. ASSUME j = 1 \/ b.key \in DOMAIN binding.heap
      PROVE  /\ \A i \in DOMAIN b.from : Old(b.from[i])
             /\ \A i \in DOMAIN b.done :
                   IF j = 1 /\ i \in binding.escaped THEN b.done[i] = b.from[i] ELSE Corresponds(b.from[i], b.done[i])
  <2>1. /\ \A i \in DOMAIN a.from : Old(a.from[i])
        /\ \A i \in DOMAIN a.done :
              IF j = 1 /\ i \in binding.escaped THEN a.done[i] = a.from[i] ELSE Corresponds(a.from[i], a.done[i])
    BY <1>2, <1>4, <1>5, <1>9 DEF CopiesActive, Matches
  <2>2. CASE j # m
    BY <1>4, <2>1, <2>2
  <2>3. CASE j = m
    <3>1. /\ DOMAIN b.done = 1..(Len(a.done) + 1) /\ b.done[Len(a.done) + 1] = v
          /\ \A i \in DOMAIN a.done : b.done[i] = a.done[i]
      <4>1. b.done = Append(a.done, v)
        BY <1>4, <2>3
      <4>2. DOMAIN Append(a.done, v) = 1..(Len(a.done) + 1)
        BY <1>6
      <4> QED
        BY <1>6, <4>1, <4>2
    <3>2. IF m = 1 /\ Len(a.done) + 1 \in binding.escaped THEN v = a.from[Len(a.done) + 1]
          ELSE Corresponds(a.from[Len(a.done) + 1], v)
      BY <1>2, <1>4, <1>9, <2>3 DEF Fits
    <3>3. \A i \in 1..(Len(a.done) + 1) : i = Len(a.done) + 1 \/ i \in 1..Len(a.done)
      BY <1>6
    <3> QED
      BY <1>4, <1>6, <2>1, <2>3, <3>1, <3>2, <3>3
  <2> QED
    BY <2>2, <2>3
<1>10. b.memo \subseteq binding.copies
  BY <1>2, <1>4, <1>5 DEF CopiesActive, Fits
<1>11. IF j = 1 THEN b.key = <<>>
       ELSE b.key # <<>> /\ <<b.key, b.new>> \in binding.copies /\ content'[b.new] = Partly(b.new, b.done, b.from)
  <2>1. IF j = 1 THEN a.key = <<>>
        ELSE a.key # <<>> /\ <<a.key, a.new>> \in binding.copies /\ content[a.new] = Partly(a.new, a.done, a.from)
    BY <1>2, <1>5 DEF CopiesActive
  <2>2. CASE j = 1
    BY <1>4, <2>1, <2>2
  <2>3. CASE j # 1
    <3>1. a.new \in DOMAIN content
      BY <1>1, <1>2, <2>3 DEF Keeps, KeepsActive
    <3>2. CASE j = m
      <4>1. content'[a.new] = Partly(a.new, Append(a.done, v), a.from)
        BY <1>2, <2>3, <3>1, <3>2 DEF Gives, Lands
      <4> QED
        BY <1>4, <2>1, <2>3, <3>2, <4>1
    <3>3. CASE j # m
      <4>1. m \in 2..Len(binding.stack) /\ j \in 2..Len(binding.stack)
        BY <1>1, <2>3, <3>3
      <4>2. binding.stack[m].new # a.new
        BY <1>2, <3>3, <4>1, NewsDiffer
      <4>3. content'[a.new] = content[a.new]
        BY <3>1, <4>2 DEF Gives, Lands
      <4> QED
        BY <1>4, <2>1, <2>3, <3>3, <4>3
    <3> QED
      BY <3>2, <3>3
  <2> QED
    BY <2>2, <2>3
<1>12. \A i \in 2..j : \E p \in b.memo : p[1] = binding'.stack[i].key
  <2>1. \A i \in 2..j : \E p \in a.memo : p[1] = binding.stack[i].key
    BY <1>2, <1>5 DEF CopiesActive
  <2>2. \A i \in 2..j : binding'.stack[i].key = binding.stack[i].key
    <3>1. \A i \in 2..j : i \in 1..m
      BY <1>1
    <3> QED
      BY <3>1 DEF Gives
  <2>3. j = m => \A i \in 2..j : \E p \in memo : p[1] = binding.stack[i].key
    BY DEF Fits
  <2> QED
    BY <1>4, <2>1, <2>2, <2>3
<1>13. j = 1 \/ binding'.stack[j].key \in DOMAIN binding'.heap => Matches(j)'
  BY <1>1, <1>3, <1>9 DEF Matches, Old, Corresponds
<1>14. /\ \A i \in DOMAIN binding'.stack[j].from : Known(binding.stack[j].from[i])'
       /\ \A i \in DOMAIN binding'.stack[j].done : Known(binding.stack[j].done[i])'
  BY <1>1, <1>3, <1>7, <1>8 DEF Known
<1> QED
  BY <1>1, <1>3, <1>10, <1>11, <1>12, <1>13, <1>14 DEF CopiesActive

LEMMA GivesCopies ==
    ASSUME CallsTypeOK, Keeps, Copies, CallsTypeOK', NEW m, NEW v, NEW memo, Gives(m, v, memo), Fits(m, v, memo)
    PROVE  Copies'
<1>1. /\ m \in 1..Len(binding.stack) /\ Len(binding.stack) \in Nat /\ Len(binding'.stack) = m
      /\ DOMAIN binding'.stack = 1..m
      /\ DOMAIN content' = DOMAIN content
      /\ binding'.heap = binding.heap /\ binding'.copies = binding.copies
      /\ \A x : (Known(x)' <=> Known(x)) /\ (Old(x)' <=> Old(x))
  BY GivesLeaves
<1>2. ASSUME NEW key \in DOMAIN content', NEW i \in DOMAIN content'[key]
      PROVE  Known(content[key][i])'
  <2>1. Known(content'[key][i])
    <3>1. CASE m # 1 /\ key = binding.stack[m].new
      <4>1. content'[key] = Partly(binding.stack[m].new, Append(binding.stack[m].done, v), binding.stack[m].from)
        BY <1>1, <1>2, <3>1 DEF Gives, Lands
      <4> QED
        BY <1>2, <4>1, DeliveredKnown
    <3>2. CASE ~(m # 1 /\ key = binding.stack[m].new)
      <4>1. content'[key] = content[key]
        BY <1>1, <1>2, <3>2 DEF Gives, Lands
      <4> QED
        BY <1>1, <1>2, <4>1 DEF Copies, ContentKnown
    <3> QED
      BY <3>1, <3>2
  <2> QED
    BY <1>1, <2>1 DEF Known
<1>3. \A key \in DOMAIN binding'.heap : \A i \in DOMAIN binding'.heap[key] : Old(binding.heap[key][i])'
  <2>1. \A key \in DOMAIN binding.heap : \A i \in DOMAIN binding.heap[key] : Old(binding.heap[key][i])
    BY DEF Copies
  <2> QED
    BY <1>1, <2>1 DEF Old
<1>4. \A p \in binding'.copies : CopyOf(p)'
  BY <1>1, GivesCopyOf
<1>5. \A p, q \in binding'.copies : p[2] = q[2] => p[1] = q[1]
  BY <1>1 DEF Copies
<1>6. \A j \in DOMAIN binding'.stack : CopiesActive(j)'
  BY <1>1, GivesActive
<1>7. \A i, j \in 2..Len(binding'.stack) : binding'.stack[i].key = binding'.stack[j].key => i = j
  <2>1. \A i \in 2..m : i \in 1..m /\ i \in 2..Len(binding.stack)
    BY <1>1
  <2>2. \A i, j \in 2..Len(binding.stack) : binding.stack[i].key = binding.stack[j].key => i = j
    BY DEF Copies
  <2>3. \A j \in 1..m : binding'.stack[j].key = binding.stack[j].key
    BY DEF Gives
  <2> QED
    BY <1>1, <2>1, <2>2, <2>3
<1> QED
  BY <1>2, <1>3, <1>4, <1>5, <1>6, <1>7, Zenon DEF Copies, ContentKnown

LEMMA CurrentKnown ==
    ASSUME CallsTypeOK, Copies, More
    PROVE  LET n == Len(binding.stack)
           IN  /\ CopiesActive(n) /\ Known(Current) /\ Top.memo \subseteq binding.copies
               /\ n = 1 \/ Top.key \in DOMAIN binding.heap => Old(Current)
               /\ \A i \in 2..n : \E p \in Top.memo : p[1] = binding.stack[i].key
<1> DEFINE n == Len(binding.stack)
<1>1. Top = binding.stack[n] /\ n \in DOMAIN binding.stack /\ Len(Top.done) + 1 \in DOMAIN Top.from
  BY CurrentIs, StackIs
<1>2. CopiesActive(n)
  BY <1>1 DEF Copies
<1>3. n = 1 \/ Top.key \in DOMAIN binding.heap => Old(Current)
  BY <1>1, <1>2 DEF CopiesActive, Matches, Current, Awaited
<1> QED
  BY <1>1, <1>2, <1>3, Zenon DEF CopiesActive, Current, Awaited

LEMMA TopCopies ==
    ASSUME CallsTypeOK, Keeps, Copies, AsItIs \/ CopiedBefore
    PROVE  Copies'
<1> DEFINE n == Len(binding.stack)
           next == Len(Top.done) + 1
<1>1. More
  BY Zenon DEF AsItIs, CopiedBefore
<1>2. /\ Top = binding.stack[n] /\ n \in 1..n /\ n \in Nat /\ next \in DOMAIN Top.from /\ Current = Top.from[next]
      /\ Current \in Cell
  BY <1>1, CurrentIs, StackIs DEF Current, Awaited
<1>3. /\ Known(Current) /\ Top.memo \subseteq binding.copies
      /\ n = 1 \/ Top.key \in DOMAIN binding.heap => Old(Current)
      /\ \A i \in 2..n : \E p \in Top.memo : p[1] = binding.stack[i].key
  BY <1>1, CurrentKnown
<1>4. ASSUME NEW v \in Cell, Known(v), Gives(n, v, Top.memo), CallsTypeOK',
             n = 1 \/ Top.key \in DOMAIN binding.heap =>
                IF n = 1 /\ next \in binding.escaped THEN v = Current ELSE Corresponds(Current, v)
      PROVE  Copies'
  <2>1. \A j \in 2..n : ~(j > n)
    BY <1>2
  <2>2. Fits(n, v, Top.memo)
    BY <1>2, <1>3, <1>4, <2>1 DEF Fits
  <2> QED
    BY <1>4, <2>2, GivesCopies
<1>5. CASE AsItIs
  <2>1. Gives(n, Current, Top.memo) /\ CallsTypeOK'
    BY <1>5, AsItIsGives
  <2>2. ~Mutable
    BY <1>5 DEF AsItIs
  <2>3. ~(n = 1 /\ next \in binding.escaped) => ~Refers(Current, binding.heap)
    BY <2>2 DEF Mutable, IsMutable, Refers, Keeps
  <2> QED
    BY <1>2, <1>3, <1>4, <2>1, <2>3 DEF Corresponds
<1>6. CASE CopiedBefore
  <2>1. CallsTypeOK'
    BY <1>6, CopiedBeforeGives
  <2>2. PICK p \in Top.memo : p[1] = KeyOf(Current) /\ p[2] \in Keys /\ Gives(n, Naming(Current, p[2]), Top.memo)
    BY <1>6, CopiedBeforeGives
  <2>3. p \in binding.copies /\ CopyOf(p)
    BY <1>3 DEF Copies
  <2>4. Mutable
    BY <1>6, Zenon DEF CopiedBefore
  <2>5. ~(n = 1 /\ next \in binding.escaped) /\ KeyOf(Current) \in DOMAIN content
    BY <2>4 DEF Mutable, IsMutable
  <2>6. n = 1 \/ Top.key \in DOMAIN binding.heap => Corresponds(Current, Naming(Current, p[2]))
    BY <1>2, <1>3, <2>2, <2>3, <2>5, CopyCorresponds
  <2>7. Known(Naming(Current, p[2])) /\ Naming(Current, p[2]) \in Cell
    BY <1>2, <2>2, <2>3, NamingKnown, CellIs
  <2> QED
    BY <1>4, <2>1, <2>2, <2>5, <2>6, <2>7
<1> QED
  BY <1>5, <1>6

LEMMA EndCopyCopies ==
    ASSUME CallsTypeOK, Keeps, Copies, EndCopy
    PROVE  Copies'
<1> DEFINE n == Len(binding.stack)
<1>1. PICK m : m = n - 1
  OBVIOUS
<1>2. PICK a : a = binding.stack[m]
  OBVIOUS
<1>3. PICK memo : memo = MemoAfter(a.memo, Top.memo)
  OBVIOUS
<1>4. PICK x : x = a.from[Len(a.done) + 1]
  OBVIOUS
<1>5. PICK v : v = Naming(x, Top.new)
  OBVIOUS
<1>6. /\ n \in 2..n /\ m \in 1..n /\ Top = binding.stack[n] /\ Top.new \in DOMAIN content
      /\ Len(Top.done) = Len(Top.from) /\ CallsTypeOK' /\ Gives(m, v, memo)
  BY <1>1, <1>2, <1>3, <1>4, <1>5, EndCopyGives
<1>7. n \in Nat /\ n \in DOMAIN binding.stack /\ m \in DOMAIN binding.stack /\ n # 1 /\ (m = 1 <=> n = 2)
  BY <1>1, <1>6, StackIs
<1>8. CopiesActive(n) /\ KeepsActive(n) /\ CopiesActive(m)
  BY <1>7 DEF Copies, Keeps
<1>9. /\ Len(a.done) + 1 \in DOMAIN a.from /\ x \in Cell
      /\ Top.key = KeyOf(x) /\ ~(m = 1 /\ Len(a.done) + 1 \in binding.escaped)
  <2>1. /\ a.from \in Seq(Cell) /\ Len(a.done) \in Nat /\ DOMAIN a.from = 1..Len(a.from)
        /\ Len(a.from) \in Nat
    BY <1>2, <1>6, StackIs
  <2>2. Len(a.done) + 1 <= Len(a.from) /\ Top.key = KeyOf(x) /\ ~(n = 2 /\ Len(a.done) + 1 \in binding.escaped)
    BY <1>1, <1>2, <1>4, <1>6, <1>7, <1>8 DEF KeepsActive
  <2>3. Len(a.done) + 1 \in 1..Len(a.from)
    BY <2>1, <2>2
  <2> QED
    BY <1>4, <1>7, <2>1, <2>2, <2>3
<1>10. PICK p : p = <<Top.key, Top.new>>
  OBVIOUS
<1>11. p \in binding.copies /\ CopyOf(p) /\ p[1] = Top.key /\ p[2] = Top.new
  <2>1. p \in binding.copies
    BY <1>6, <1>7, <1>8, <1>10 DEF CopiesActive
  <2> QED
    BY <1>10, <2>1 DEF Copies
<1>12. v \in Cell /\ Known(v)
  <2>1. Top.new \in Keys
    BY <1>6, <1>7, StackIs
  <2> QED
    BY <1>5, <1>9, <1>11, <2>1, CellIs, NamingKnown
<1>13. ASSUME m = 1 \/ a.key \in DOMAIN binding.heap PROVE Corresponds(x, v)
  <2>1. Old(x)
    BY <1>2, <1>4, <1>8, <1>9, <1>13 DEF CopiesActive, Matches
  <2>2. KeyOf(x) \in DOMAIN content
    BY <1>9, <1>11 DEF CopyOf
  <2> QED
    BY <1>5, <1>9, <1>11, <2>1, <2>2, CopyCorresponds
<1>14. memo \subseteq binding.copies
  BY <1>3, <1>6, <1>8 DEF MemoAfter, CopiesActive
<1>15. ASSUME NEW i \in 2..m
       PROVE  \E q \in memo : q[1] = binding.stack[i].key
  <2>1. i \in 2..n
    BY <1>1, <1>7
  <2>2. PICK q \in a.memo : q[1] = binding.stack[i].key
    BY <1>2, <1>8 DEF CopiesActive
  <2>3. PICK r \in Top.memo : r[1] = binding.stack[i].key
    BY <1>6, <1>8, <2>1 DEF CopiesActive
  <2> QED
    BY <1>3, <2>2, <2>3 DEF MemoAfter
<1>16. \A j \in 2..n : j > m => Len(binding.stack[j].done) = Len(binding.stack[j].from)
  <2>1. \A j \in 2..n : j > m => j = n
    BY <1>1, <1>7
  <2> QED
    BY <1>6, <2>1
<1>17. Fits(m, v, memo)
  BY <1>2, <1>4, <1>9, <1>12, <1>13, <1>14, <1>15, <1>16 DEF Fits
<1> QED
  BY <1>6, <1>17, GivesCopies

\* A copy that begins is of something that is not being copied.
LEMMA BeginCopies ==
    ASSUME CallsTypeOK, Keeps, Copies, More, CallsTypeOK', NEW key, NEW new, Begins(key, new)
    PROVE  Copies'
<1>0. PICK n : n = Len(binding.stack)
  OBVIOUS
<1>1. /\ key = KeyOf(Current) /\ key \in DOMAIN content
      /\ new \in Keys \ DOMAIN content /\ new[1] = key[1] /\ new[2] = made[new[1]] + 1
      /\ \A p \in Top.memo : p[1] # key
      /\ \A kind \in Kinds : made[kind] <= made'[kind]
      /\ DOMAIN content' = DOMAIN content \cup {new}
      /\ content'[new] = Partly(new, <<>>, content[key])
      /\ \A k \in DOMAIN content : content'[k] = content[k]
      /\ binding'.escaped = binding.escaped /\ binding'.heap = binding.heap
      /\ binding'.copies = binding.copies \cup {<<key, new>>}
      /\ Len(binding'.stack) = n + 1
      /\ \A j \in 1..n : binding'.stack[j] = binding.stack[j]
  BY <1>0 DEF Begins
<1>2. /\ binding'.stack[n + 1].key = key /\ binding'.stack[n + 1].new = new /\ binding'.stack[n + 1].from = content[key]
      /\ binding'.stack[n + 1].done = <<>> /\ binding'.stack[n + 1].memo = Top.memo \cup {<<key, new>>}
  BY <1>0 DEF Begins
<1>3. /\ n \in Nat \ {0} /\ Top = binding.stack[n] /\ DOMAIN binding.stack = 1..n /\ n \in 1..n
  BY <1>0, CurrentIs, StackIs
<1>4. /\ Top.memo \subseteq binding.copies
      /\ \A i \in 2..n : \E p \in Top.memo : p[1] = binding.stack[i].key
  BY <1>0, CurrentKnown
<1>5. DOMAIN binding'.stack = 1..(n + 1)
  <2>1. binding'.stack \in Seq(Activations)
    BY DEF CallsTypeOK, Bindings
  <2> QED
    BY <1>1, <2>1
<1>6. /\ key \in Keys /\ Len(content[key]) \in Nat /\ content[key] \in Seq(Cell)
      /\ \A i \in DOMAIN content[key] : content[key][i] \in Cell
      /\ key \in DOMAIN binding.heap => content[key] = binding.heap[key]
  BY <1>1, ContentIs DEF Keeps
<1>7. ContentKnown'
  <2>1. \A i \in DOMAIN content'[new] : content'[new][i] = Zero
    <3>1. <<>> \in Seq(Cell) /\ Len(<<>>) = 0 /\ DOMAIN <<>> = {}
      OBVIOUS
    <3>2. Len(<<>>) <= Len(content[key])
      BY <1>6, <3>1
    <3>3. PICK none : none = <<>>
      OBVIOUS
    <3>4. none \in Seq(Cell) /\ Len(none) <= Len(content[key]) /\ DOMAIN none = {}
      BY <3>1, <3>2, <3>3
    <3>5. HalfDone(Partly(new, none, content[key]), none, content[key])
      BY <1>6, <3>4, PartlyIs
    <3> QED
      BY <1>1, <3>3, <3>4, <3>5 DEF HalfDone
  <2>2. ASSUME NEW k \in DOMAIN content', NEW i \in DOMAIN content'[k]
        PROVE  \/ content'[k][i] \in KnownValues \cup {Zero}
               \/ k \in DOMAIN content /\ \E j \in DOMAIN content[k] : content'[k][i] = content[k][j]
    BY <1>1, <2>1, <2>2
  <2>3. ContentKnown
    BY DEF Copies
  <2> QED
    BY <1>1, <2>2, <2>3, ContentStaysKnown
<1>8. \A v \in Cell : Known(v) => (v.is # "num" => KeyOf(v) # new) /\ Known(v)'
  BY <1>1, KnownNotNew, KnownStays
<1>9. \A v \in Cell : Known(v) /\ Old(v) => Old(v)'
  BY <1>1, <1>8 DEF Old
<1>10. \A v, w : Corresponds(v, w) => Corresponds(v, w)'
  BY <1>1 DEF Corresponds, Refers
<1>11. ASSUME NEW k \in DOMAIN binding.heap, NEW i \in DOMAIN binding.heap[k]
       PROVE  /\ binding.heap[k][i] \in Cell /\ Known(binding.heap[k][i]) /\ Old(binding.heap[k][i])
  <2>1. k \in DOMAIN content /\ content[k] = binding.heap[k]
    BY DEF Keeps
  <2> QED
    BY <2>1, ContentIs DEF Copies, ContentKnown
<1>12. ASSUME NEW p \in binding.copies
       PROVE  CopyOf(p)' /\ p[2] # new
  <2>1. CopyOf(p)
    BY DEF Copies
  <2>2. p[2] \in DOMAIN content /\ p[2] # new /\ content'[p[2]] = content[p[2]]
    BY <1>1, <2>1 DEF CopyOf
  <2>3. Complete(p) => Complete(p)'
    <3>1. SUFFICES ASSUME Complete(p) PROVE Complete(p)'
      OBVIOUS
    <3>2. PICK old, copy : old = binding.heap[p[1]] /\ copy = content[p[2]]
      OBVIOUS
    <3>3. Len(copy) = Len(old) /\ \A i \in DOMAIN old : Corresponds(old[i], copy[i])'
      BY <1>10, <3>1, <3>2 DEF Complete
    <3>4. binding'.heap[p[1]] = old /\ content'[p[2]] = copy
      BY <1>1, <2>2, <3>2
    <3> QED
      BY <3>3, <3>4 DEF Complete
  <2>4. ASSUME NEW j \in 2..n, binding.stack[j].new = p[2]
        PROVE  j \in 2..Len(binding'.stack) /\ binding'.stack[j].new = p[2]
    <3>1. j \in 1..n /\ j \in 2..(n + 1)
      BY <1>3
    <3> QED
      BY <1>1, <2>4, <3>1
  <2> QED
    BY <1>0, <1>1, <2>1, <2>2, <2>3, <2>4 DEF CopyOf
<1>13. PICK p : p = <<key, new>>
  OBVIOUS
<1>14. CopyOf(p)'
  <2>1. p[1] = key /\ p[2] = new
    BY <1>13
  <2>2. new \notin DOMAIN binding.heap
    BY <1>1 DEF Keeps
  <2>3. n + 1 \in 2..Len(binding'.stack) /\ binding'.stack[n + 1].new = new
    BY <1>1, <1>2, <1>3
  <2> QED
    BY <1>1, <2>1, <2>2, <2>3 DEF CopyOf
<1>15. ASSUME NEW j \in 1..n PROVE CopiesActive(j)'
  <2>1. PICK a : a = binding.stack[j]
    OBVIOUS
  <2>2. CopiesActive(j) /\ j \in 1..(n + 1) /\ binding'.stack[j] = a /\ j \in 1..Len(binding.stack) /\ j \in DOMAIN binding.stack
    BY <1>0, <1>1, <1>3, <2>1 DEF Copies
  <2>3. a.from \in Seq(Cell) /\ a.done \in Seq(Cell)
    BY <2>1, <2>2, StackIs
  <2>4. /\ \A i \in DOMAIN binding'.stack[j].from : Known(binding.stack[j].from[i])'
        /\ \A i \in DOMAIN binding'.stack[j].done : Known(binding.stack[j].done[i])'
    <3>1. \A i \in DOMAIN a.from : a.from[i] \in Cell /\ Known(a.from[i])
      BY <2>1, <2>2, <2>3 DEF CopiesActive
    <3>2. \A i \in DOMAIN a.done : a.done[i] \in Cell /\ Known(a.done[i])
      BY <2>1, <2>2, <2>3 DEF CopiesActive
    <3>3. \A i \in DOMAIN a.from : \E v : v = a.from[i] /\ Known(v)'
      BY <1>8, <3>1
    <3>4. \A i \in DOMAIN a.done : \E v : v = a.done[i] /\ Known(v)'
      BY <1>8, <3>2
    <3> QED
      BY <2>2, <3>3, <3>4 DEF Known
  <2>5. ASSUME j = 1 \/ a.key \in DOMAIN binding.heap PROVE Matches(j)'
    <3>1. /\ \A i \in DOMAIN a.from : a.from[i] \in Cell /\ Known(a.from[i]) /\ Old(a.from[i])
          /\ \A i \in DOMAIN a.done :
                IF j = 1 /\ i \in binding.escaped THEN a.done[i] = a.from[i] ELSE Corresponds(a.from[i], a.done[i])
      BY <2>1, <2>2, <2>3, <2>5 DEF CopiesActive, Matches
    <3>2. \A i \in DOMAIN a.from : \E v : v = a.from[i] /\ Old(v)'
      BY <1>9, <3>1
    <3>3. \A i \in DOMAIN a.done :
             IF j = 1 /\ i \in binding.escaped THEN a.done[i] = a.from[i] ELSE Corresponds(a.from[i], a.done[i])'
      BY <1>10, <3>1
    <3>4. \A i \in DOMAIN a.from : Old(a.from[i])'
      BY <3>2 DEF Old
    <3>5. binding'.stack[j] = a /\ binding'.escaped = binding.escaped
      BY <1>1, <2>2
    <3> QED
      BY <3>3, <3>4, <3>5 DEF Matches
  <2>6. \A i \in 2..j : binding'.stack[i].key = binding.stack[i].key
    <3>1. \A i \in 2..j : i \in 1..n
      BY <1>3
    <3> QED
      BY <1>1, <3>1
  <2>7. /\ a.memo \subseteq binding'.copies
        /\ \A i \in 2..j : \E q \in a.memo : q[1] = binding.stack[i].key
    BY <1>1, <2>1, <2>2 DEF CopiesActive
  <2>8. IF j = 1 THEN a.key = <<>>
        ELSE a.key # <<>> /\ <<a.key, a.new>> \in binding'.copies /\ content'[a.new] = Partly(a.new, a.done, a.from)
    <3>1. j # 1 => a.new \in DOMAIN content
      BY <2>1, <2>2 DEF Keeps, KeepsActive
    <3> QED
      BY <1>1, <2>1, <2>2, <3>1 DEF CopiesActive
  <2> QED
    BY <1>1, <2>2, <2>4, <2>5, <2>6, <2>7, <2>8 DEF CopiesActive
<1>16. ASSUME NEW j, j = n + 1 PROVE CopiesActive(j)'
  <2>1. \A i \in DOMAIN binding'.stack[j].from : Known(binding.stack[j].from[i])'
    <3>1. \A i \in DOMAIN content[key] : Known(content[key][i])
      BY <1>1 DEF Copies, ContentKnown
    <3>2. \A i \in DOMAIN content[key] : \E v : v = content[key][i] /\ Known(v)'
      BY <1>6, <1>8, <3>1
    <3> QED
      BY <1>2, <1>16, <3>2 DEF Known
  <2>2. DOMAIN binding'.stack[j].done = {}
    BY <1>2, <1>16
  <2>3. ASSUME key \in DOMAIN binding.heap PROVE Matches(j)'
    <3>1. \A i \in DOMAIN binding.heap[key] : \E v : v = binding.heap[key][i] /\ Old(v)'
      BY <1>9, <1>11, <2>3
    <3>2. binding'.stack[j].from = binding.heap[key]
      BY <1>2, <1>6, <1>16, <2>3
    <3> QED
      BY <2>2, <3>1, <3>2 DEF Matches, Old
  <2>4. binding'.stack[j].memo \subseteq binding'.copies
    BY <1>1, <1>2, <1>4, <1>16
  <2>5. /\ j # 1 /\ binding'.stack[j].key # <<>> /\ <<binding'.stack[j].key, binding'.stack[j].new>> \in binding'.copies
        /\ content'[binding'.stack[j].new] = Partly(binding'.stack[j].new, binding'.stack[j].done, binding'.stack[j].from)
    <3>1. key # <<>>
      <4>1. key = <<key[1], key[2]>>
        BY <1>6 DEF Keys
      <4> QED
        BY <4>1
    <3> QED
      BY <1>1, <1>2, <1>3, <1>16, <3>1
  <2>6. ASSUME NEW i \in 2..j PROVE \E q \in binding'.stack[j].memo : q[1] = binding'.stack[i].key
    <3>1. CASE i = j
      <4>1. p \in binding'.stack[j].memo /\ p[1] = binding'.stack[i].key
        BY <1>2, <1>13, <1>16, <3>1
      <4> QED
        BY <4>1
    <3>2. CASE i # j
      <4>1. i \in 2..n /\ i \in 1..n
        BY <1>3, <1>16, <3>2
      <4>2. binding'.stack[i].key = binding.stack[i].key
        BY <1>1, <4>1
      <4> QED
        BY <1>2, <1>4, <1>16, <4>1, <4>2
    <3> QED
      BY <3>1, <3>2
  <2>7. j = 1 \/ binding'.stack[j].key \in DOMAIN binding'.heap => Matches(j)'
    BY <1>1, <1>2, <1>3, <1>16, <2>3
  <2> QED
    BY <2>1, <2>2, <2>4, <2>5, <2>6, <2>7 DEF CopiesActive
<1>17. ASSUME NEW i \in 2..(n + 1), NEW j \in 2..(n + 1), binding'.stack[i].key = binding'.stack[j].key
       PROVE  i = j
  <2>1. \A k \in 2..n : binding'.stack[k].key = binding.stack[k].key /\ binding.stack[k].key # key
    <3>1. \A k \in 2..n : k \in 1..n
      BY <1>3
    <3>2. \A k \in 2..n : binding.stack[k].key # key
      <4>1. ASSUME NEW k \in 2..n PROVE binding.stack[k].key # key
        <5>1. PICK q \in Top.memo : q[1] = binding.stack[k].key
          BY <1>4
        <5>2. q[1] # key
          BY <1>1
        <5> QED
          BY <5>1, <5>2
      <4> QED
        BY <4>1
    <3>3. \A k \in 2..n : binding'.stack[k] = binding.stack[k]
      BY <1>1, <3>1, Zenon
    <3> QED
      BY <3>2, <3>3
  <2>2. \A k \in 2..(n + 1) : k \in 2..n \/ k = n + 1
    BY <1>3
  <2>3. \A k, l \in 2..n : binding.stack[k].key = binding.stack[l].key => k = l
    BY <1>0 DEF Copies
  <2> QED
    BY <1>2, <1>17, <2>1, <2>2, <2>3
<1>18. \A k \in DOMAIN binding'.heap : \A i \in DOMAIN binding'.heap[k] : Old(binding.heap[k][i])'
  <2>1. \A k \in DOMAIN binding.heap : \A i \in DOMAIN binding.heap[k] : \E v : v = binding.heap[k][i] /\ Old(v)'
    BY <1>9, <1>11
  <2> QED
    BY <1>1, <2>1 DEF Old
<1>19. \A q, r \in binding'.copies : q[2] = r[2] => q[1] = r[1]
  <2>1. \A q, r \in binding.copies : q[2] = r[2] => q[1] = r[1]
    BY DEF Copies
  <2> QED
    BY <1>1, <1>12, <2>1
<1>20. \A j \in DOMAIN binding'.stack : CopiesActive(j)'
  <2>1. \A j \in 1..(n + 1) : j \in 1..n \/ j = n + 1
    BY <1>3
  <2> QED
    BY <1>5, <1>15, <1>16, <2>1
<1>21. \A q \in binding'.copies : CopyOf(q)'
  BY <1>1, <1>12, <1>13, <1>14
<1>22. \A i, j \in 2..Len(binding'.stack) : binding'.stack[i].key = binding'.stack[j].key => i = j
  BY <1>1, <1>17
<1> QED
  BY <1>7, <1>18, <1>19, <1>20, <1>21, <1>22, Zenon DEF Copies

LEMMA CallCopies ==
    ASSUME CallsTypeOK, Copies, CallsTypeOK', NEW actuals, NEW escaped, Calls(actuals, escaped)
    PROVE  Copies'
<1>1. /\ UNCHANGED <<content, made, frames>>
      /\ binding'.heap = content /\ binding'.copies = {}
      /\ Len(binding'.stack) = 1 /\ DOMAIN binding'.stack = {1}
      /\ binding'.stack[1].key = <<>> /\ binding'.stack[1].from = actuals /\ binding'.stack[1].done = <<>>
      /\ binding'.stack[1].memo = {}
      /\ \A i \in DOMAIN actuals : actuals[i] \in KnownValues
  BY DEF Calls
<1>2. \A v : Old(v)' /\ (Known(v)' <=> Known(v))
  BY <1>1 DEF Old, Known
<1>3. ContentKnown'
  BY <1>1 DEF Copies, ContentKnown, Known
<1>4. CopiesActive(1)'
  <2>1. \A i \in DOMAIN actuals : Known(actuals[i])
    BY <1>1, KnownAre
  <2>2. \A i \in DOMAIN binding'.stack[1].from : Known(binding.stack[1].from[i])' /\ Old(binding.stack[1].from[i])'
    BY <1>1, <2>1 DEF Known, Old
  <2>3. DOMAIN binding'.stack[1].done = {}
    BY <1>1
  <2>4. Matches(1)'
    BY <2>2, <2>3 DEF Matches
  <2> QED
    BY <1>1, <2>2, <2>3, <2>4 DEF CopiesActive
<1>5. \A key \in DOMAIN binding'.heap : \A i \in DOMAIN binding'.heap[key] : Old(binding.heap[key][i])'
  BY <1>1 DEF Old
<1> QED
  BY <1>1, <1>3, <1>4, <1>5 DEF Copies

LEMMA CopiesAreKept ==
    ASSUME CallsTypeOK, Keeps, Copies, [CallsNext]_callVars
    PROVE  Copies'
<1>1. CallsTypeOK'
  BY CallsNextOK
<1>2. CASE Program
  <2>1. ProgramKeeps
    BY <1>2, ProgramIs
  <2>2. ContentKnown'
    BY <1>1, <2>1, ContentStaysKnown DEF ProgramKeeps, Copies
  <2>3. binding' = NoBinding
    BY <2>1 DEF ProgramKeeps, CallsTypeOK
  <2> QED
    BY <2>2, <2>3, NothingBound
<1>3. CASE Enter \/ EndCall
  <2>1. binding' = NoBinding /\ UNCHANGED <<content, made>>
    BY <1>3, Zenon DEF Enter, EndCall, CallsTypeOK
  <2>2. ContentKnown'
    BY <2>1 DEF Copies, ContentKnown, Known
  <2> QED
    BY <2>1, <2>2, NothingBound
<1>4. CASE \E n \in 1..MaxArgs : \E actuals \in [1..n -> KnownValues], escaped \in SUBSET (1..n) : Call(actuals, escaped)
  BY <1>1, <1>4, CallCalls, CallCopies
<1>5. CASE BeginCopy
  BY <1>1, <1>5, BeginCopyBegins, BeginCopies
<1>6. CASE UNCHANGED callVars
  <2>1. content' = content /\ made' = made /\ binding' = binding
    BY <1>6 DEF callVars
  <2>2. ContentKnown'
    BY <2>1 DEF Copies, ContentKnown, Known
  <2>3. \A p : CopyOf(p)' <=> CopyOf(p)
    BY <2>1 DEF CopyOf, Complete, Corresponds, Refers
  <2>4. \A j : CopiesActive(j)' <=> CopiesActive(j)
    BY <2>1 DEF CopiesActive, Matches, Corresponds, Refers, Known, Old
  <2> QED
    BY <2>1, <2>2, <2>3, <2>4 DEF Copies, Old
<1> QED
  BY <1>2, <1>3, <1>4, <1>5, <1>6, TopCopies, EndCopyCopies, Zenon DEF CallsNext, Program

\* What the copies come to.
LEMMA CopiesGive ==
    ASSUME CallsTypeOK, Keeps, Copies
    PROVE  CopiesAreFaithful
<1> DEFINE old == binding.heap
           K == {p \in binding.copies : p[1] \in DOMAIN old}
           P == {p[2] : p \in K}
<1>1. /\ IsFiniteSet(DOMAIN old) /\ old \in Store /\ binding.copies \in SUBSET (Keys \X Keys)
      /\ IsFiniteSet(DOMAIN content) /\ content \in Store
  BY DEF CallsTypeOK, Bindings
<1>2. ASSUME NEW i \in DOMAIN binding.stack, NEW j \in DOMAIN binding.stack, binding.stack[i].key = binding.stack[j].key
      PROVE  i = j
  <2>1. i \in 1..Len(binding.stack) /\ j \in 1..Len(binding.stack) /\ Len(binding.stack) \in Nat
    BY StackIs
  <2>2. (i = 1 <=> binding.stack[i].key = <<>>) /\ (j = 1 <=> binding.stack[j].key = <<>>)
    BY DEF Copies, CopiesActive
  <2>3. \A k, l \in 2..Len(binding.stack) : binding.stack[k].key = binding.stack[l].key => k = l
    BY DEF Copies
  <2>4. i = 1 <=> j = 1
    BY <1>2, <2>2
  <2>5. i # 1 => i \in 2..Len(binding.stack)
    BY <2>1
  <2>6. j # 1 => j \in 2..Len(binding.stack)
    BY <2>1
  <2> QED
    BY <1>2, <2>3, <2>4, <2>5, <2>6
<1>3. ASSUME Len(binding.stack) = 1, NEW i \in DOMAIN Top.done, ~(i \in binding.escaped)
      PROVE  /\ LookAlike(Top.from[i], old, Top.done[i], content)
             /\ Reach(Top.from[i], old) \cap Reach(Top.done[i], content) = {}
  <2> DEFINE arg == Top.from[i]
             param == Top.done[i]
  <2>1. Top = binding.stack[1] /\ 1 \in DOMAIN binding.stack
    BY <1>3, StackIs DEF Binds
  <2>2. i \in DOMAIN Top.from
    <3>1. /\ Len(Top.done) \in Nat /\ Len(Top.from) \in Nat /\ DOMAIN Top.done = 1..Len(Top.done)
          /\ DOMAIN Top.from = 1..Len(Top.from) /\ Len(Top.done) <= Len(Top.from)
      BY <1>3, <2>1, StackIs DEF CallsTypeOK
    <3> QED
      BY <1>3, <3>1
  <2>3. Corresponds(arg, param) /\ Old(arg)
    BY <1>3, <2>1, <2>2 DEF Copies, CopiesActive, Matches
  <2>4. \A p \in K : CopyOf(p) /\ Complete(p)
    <3>1. 2..Len(binding.stack) = {}
      BY <1>3
    <3> QED
      BY <3>1 DEF Copies, CopyOf
  \* A value and what corresponds to it.
  <2>5. ASSUME NEW v, NEW w, Corresponds(v, w), Old(v)
        PROVE  /\ Alike(v, old, w, content)
               /\ Refers(v, old) => <<KeyOf(v), KeyOf(w)>> \in K
               /\ Refers(w, content) => Refers(v, old)
    <3>1. CASE Refers(v, old)
      <4>1. w.is = v.is /\ <<KeyOf(v), KeyOf(w)>> \in K
        BY <2>5, <3>1 DEF Corresponds, Refers
      <4>2. KeyOf(w) \in DOMAIN content
        BY <2>4, <4>1 DEF CopyOf
      <4> QED
        BY <3>1, <4>1, <4>2 DEF Alike, Refers
    <3>2. CASE ~Refers(v, old)
      <4>1. w.is = v.is /\ (w = v \/ (v.is = "num" /\ KeyOf(v) \in DOMAIN content))
        BY <2>5, <3>2 DEF Corresponds
      <4>2. Alike(v, old, w, content)
        BY <3>2, <4>1 DEF Alike
      <4>3. ~Refers(w, content)
        <5>1. CASE v.is = "num"
          BY <4>1, <5>1 DEF Refers
        <5>2. CASE v.is # "num"
          BY <2>5, <3>2, <4>1, <5>2 DEF Refers, Old
        <5> QED
          BY <5>1, <5>2
      <4> QED
        BY <3>2, <4>2, <4>3
    <3> QED
      BY <3>1, <3>2
  \* The cells of an original and those of its copy.
  <2>6. ASSUME NEW p \in K
        PROVE  /\ p[1] \in DOMAIN old /\ p[2] \in DOMAIN content \ DOMAIN old
               /\ Len(old[p[1]]) = Len(content[p[2]]) /\ DOMAIN old[p[1]] = DOMAIN content[p[2]]
               /\ \A k \in DOMAIN old[p[1]] : Corresponds(old[p[1]][k], content[p[2]][k]) /\ Old(old[p[1]][k])
    <3>1. CopyOf(p) /\ Complete(p)
      BY <2>4
    <3>2. p[1] \in DOMAIN old /\ p[2] \in DOMAIN content \ DOMAIN old /\ Len(old[p[1]]) = Len(content[p[2]])
      BY <3>1 DEF CopyOf, Complete
    <3>3. old[p[1]] \in Seq(Cell) /\ content[p[2]] \in Seq(Cell)
      BY <1>1, <3>2, StoreIs
    <3>4. DOMAIN old[p[1]] = DOMAIN content[p[2]]
      BY <3>2, <3>3, LenProperties
    <3> QED
      BY <3>1, <3>2, <3>4 DEF Complete, Copies
  <2>7. LookAlike(arg, old, param, content)
    <3> HIDE DEF arg, param, old
    <3>1. SideBySide(arg, old, param, content) \subseteq K
      <4>1. K \in SUBSET ((DOMAIN old) \X (DOMAIN content))
        BY <1>1, <2>6
      <4>2. Refers(arg, old) /\ Refers(param, content) => <<KeyOf(arg), KeyOf(param)>> \in K
        BY <2>3, <2>5
      <4>3. \A p \in K : \A k \in DOMAIN old[p[1]] \cap DOMAIN content[p[2]] :
               Refers(old[p[1]][k], old) /\ Refers(content[p[2]][k], content)
                  => <<KeyOf(old[p[1]][k]), KeyOf(content[p[2]][k])>> \in K
        BY <2>5, <2>6
      <4> QED
        <5> HIDE DEF K
        <5> QED
          BY <1>1, <4>1, <4>2, <4>3, SideBySideWithin
    <3>2. \A p \in K :
             /\ Len(old[p[1]]) = Len(content[p[2]])
             /\ \A k \in DOMAIN old[p[1]] : Alike(old[p[1]][k], old, content[p[2]][k], content)
      BY <2>5, <2>6
    <3>3. Alike(arg, old, param, content)
      BY <2>3, <2>5
    <3> QED
      BY <3>1, <3>2, <3>3 DEF LookAlike
  <2>8. Reach(arg, old) \subseteq DOMAIN old
    <3> HIDE DEF arg
    <3>1. \A v : Refers(v, old) => KeyOf(v) \in DOMAIN old
      BY DEF Refers
    <3> HIDE DEF old
    <3> QED
      BY <1>1, <3>1, ReachWithin
  <2>9. Reach(param, content) \subseteq P
    <3> HIDE DEF param, old
    <3>1. P \in SUBSET DOMAIN content
      BY <2>6
    <3>2. Refers(param, content) => KeyOf(param) \in P
      <4>1. Refers(param, content) => <<KeyOf(arg), KeyOf(param)>> \in K
        BY <2>3, <2>5
      <4>2. \A x, y : <<x, y>> \in K => y \in P
        OBVIOUS
      <4> QED
        BY <4>1, <4>2
    <3>3. ASSUME NEW key \in P, NEW k \in DOMAIN content[key], Refers(content[key][k], content)
          PROVE  KeyOf(content[key][k]) \in P
      <4>1. PICK p \in K : key = p[2]
        OBVIOUS
      <4>2. <<KeyOf(old[p[1]][k]), KeyOf(content[key][k])>> \in K
        BY <2>5, <2>6, <3>3, <4>1
      <4>3. \A x, y : <<x, y>> \in K => y \in P
        OBVIOUS
      <4> QED
        BY <4>2, <4>3
    <3> HIDE DEF P
    <3> QED
      BY <1>1, <3>1, <3>2, <3>3, ReachWithin
  <2>10. P \cap DOMAIN old = {}
    BY <2>6
  <2> QED
    BY <2>7, <2>8, <2>9, <2>10
<1>4. ASSUME Len(binding.stack) = 1, NEW i \in DOMAIN Top.done, i \in binding.escaped
      PROVE  Top.done[i] = Top.from[i]
  <2>1. Top = binding.stack[1] /\ 1 \in DOMAIN binding.stack
    BY <1>4, StackIs DEF Binds
  <2> QED
    BY <1>4, <2>1 DEF Copies, CopiesActive, Matches
<1> QED
  BY <1>2, <1>3, <1>4 DEF CopiesAreFaithful

(* CopiesAreFaithful holds of every execution, whatever blocks the plain   *)
(* numbers of the program name: what does not escape arrives as a copy     *)
(* that looks like it and shares nothing with it.                          *)
THEOREM CallsCopyFaithfully == CallsSpec => []CopiesAreFaithful
<1>1. CallsInit => CallsTypeOK /\ Keeps /\ Copies
  <2>1. ASSUME CallsInit PROVE Copies
    <3>1. /\ DOMAIN content = {} /\ binding = NoBinding
      BY <2>1, NoneIsStore DEF CallsInit
    <3>2. DOMAIN binding.stack = {} /\ Len(binding.stack) = 0 /\ binding.copies = {} /\ DOMAIN binding.heap = {}
      BY <3>1, NoBindingIs, NoneIsStore
    <3> QED
      BY <3>1, <3>2 DEF Copies, ContentKnown
  <2> QED
    BY <2>1, CallsInitOK
<1>2. (CallsTypeOK /\ Keeps /\ Copies) /\ [CallsNext]_callVars => (CallsTypeOK /\ Keeps /\ Copies)'
  BY CallsNextOK, CopiesAreKept
<1>3. CallsTypeOK /\ Keeps /\ Copies => CopiesAreFaithful
  BY CopiesGive
<1> QED
  BY <1>1, <1>2, <1>3, PTL DEF CallsSpec
=============================================================================
