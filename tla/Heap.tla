-------------------------------- MODULE Heap --------------------------------
(***************************************************************************)
(* The manual heap of the runtime: new, heap_get, heap_set, delete and tag *)
(* called by threads that share it, and the operations of the library that *)
(* write a block through no lock and no table: Collections.push and pop,   *)
(* Random.shuffle.                                                         *)
(*                                                                         *)
(* Each operation of the runtime takes Runtime._lock once to resolve the   *)
(* pointer and, where it changes anything, a second time to do so; another *)
(* thread may delete the block in between, or change its length.  A        *)
(* pointer is an integer that counts up and is never used again, so the    *)
(* list object of block p stays cells[p] after the block has left the live *)
(* set.                                                                    *)
(*                                                                         *)
(* Definitions named Bug... are mistakes one could make in the operation   *)
(* below them; the specification does not use them.                        *)
(***************************************************************************)
EXTENDS Naturals, Sequences, Functions, SequencesExt

CONSTANTS Threads,
          Text,        \* a string value
          Labels,      \* type labels that programs attach with tag()
          MaxSize,     \* bound: cells of a block
          MaxAllocs    \* bound: blocks allocated in a run

ASSUME HeapAssumption == /\ Text \notin Nat
                         /\ Labels \subseteq STRING
                         /\ MaxSize \in Nat
                         /\ MaxAllocs \in Nat

Pointers == 1..MaxAllocs
Indices == 1..MaxSize
Values == 0..MaxAllocs \cup {Text}     \* an integer may also be read as a pointer
TypeNames == Labels \cup {"int", "string"}
Contents == BoundedSeq(Values, MaxSize)
Steps == {"idle", "fill", "get", "set", "delete", "push", "pop", "shuffle"}

VARIABLES heap,              \* the live pointers: keys of self.heap
          next_ptr,
          cells,             \* the list object of every block ever allocated
          allocations,       \* live pointer -> size
          freed_allocations, \* freed pointer -> size
          freed_ptrs,
          cell_types,        \* heap_cell_types: live pointer -> index -> type name
          ptr_tags,          \* integer -> label
          pc,                \* the step a thread has reached inside an operation
          ptr, idx, val,     \* its arguments
          asked,             \* history: the size each block was allocated with
          shortened          \* history: threads inside heap_get or heap_set whose
                             \* block lost cells since they checked the index

args == <<ptr, idx, val>>
vars == <<heap, next_ptr, cells, allocations, freed_allocations, freed_ptrs,
          cell_types, ptr_tags, pc, args, asked, shortened>>

-----------------------------------------------------------------------------
Empty == [p \in {} |-> p]
Extend(f, x, y) == [z \in DOMAIN f \cup {x} |-> IF z = x THEN y ELSE f[z]]
Drop(f, x) == Restrict(f, DOMAIN f \ {x})
Tables(D, T) == UNION {[S -> T] : S \in SUBSET D}

Init == /\ heap = {}
        /\ next_ptr = 1
        /\ cells = Empty
        /\ allocations = Empty
        /\ freed_allocations = Empty
        /\ freed_ptrs = {}
        /\ cell_types = Empty
        /\ ptr_tags = Empty
        /\ pc = [t \in Threads |-> "idle"]
        /\ ptr = [t \in Threads |-> 0]
        /\ idx = [t \in Threads |-> 0]
        /\ val = [t \in Threads |-> <<>>]
        /\ asked = Empty
        /\ shortened = {}

\* _value_type_name: an integer that happens to be a tagged pointer has the type
\* of the tag.
TypeName(v) == IF v = Text THEN "string"
               ELSE IF v \in DOMAIN ptr_tags THEN ptr_tags[v]
               ELSE "int"

\* Only the arguments the rest of the operation needs are kept.
Goto(t, step, p, i, v) == /\ pc' = [pc EXCEPT ![t] = step]
                          /\ ptr' = [ptr EXCEPT ![t] = p]
                          /\ idx' = [idx EXCEPT ![t] = i]
                          /\ val' = [val EXCEPT ![t] = v]
Return(t) == Goto(t, "idle", 0, 0, <<>>)

\* The list object of block p is given other contents.
Checked(p) == {t \in Threads : pc[t] \in {"get", "set"} /\ ptr[t] = p}
Rewrite(p, s) == /\ cells' = [cells EXCEPT ![p] = s]
                 /\ shortened' = IF Len(s) < Len(cells[p]) THEN shortened \cup Checked(p)
                                 ELSE shortened

BugOneMore(n) == [i \in 1..(n + 1) |-> 0]
Zeroes(n) == [i \in 1..n |-> 0]

\* __new; a tag that was put on the integer earlier stays on it.
Allocate(n) ==
    /\ next_ptr <= MaxAllocs
    /\ next_ptr' = next_ptr + 1
    /\ heap' = heap \cup {next_ptr}
    /\ cells' = Extend(cells, next_ptr, Zeroes(n))
    /\ allocations' = Extend(allocations, next_ptr, n)
    /\ freed_allocations' = Drop(freed_allocations, next_ptr)
    /\ freed_ptrs' = freed_ptrs \ {next_ptr}
    /\ cell_types' = Extend(cell_types, next_ptr, Empty)
    /\ asked' = Extend(asked, next_ptr, n)
    /\ UNCHANGED <<ptr_tags, shortened>>

New(t, n) == /\ pc[t] = "idle"
             /\ Allocate(n)
             /\ UNCHANGED <<pc, args>>

Records == <<heap, next_ptr, allocations, freed_allocations, freed_ptrs, ptr_tags, asked>>

\* heap_new: the block is allocated under the lock, and filled when the lock has
\* been taken again.
NewLiteral(t, vs) == /\ pc[t] = "idle"
                     /\ Allocate(Len(vs))
                     /\ Goto(t, "fill", next_ptr, 0, vs)

\* The block found before is used, whether or not it is still in self.heap.
BugFoundBefore(p) == TRUE

\* self.heap[p] raises a KeyError when the block is gone by now.
Found(p) == p \in heap

Fill(t) == /\ pc[t] = "fill"
           /\ \/ /\ Found(ptr[t])
                 /\ Rewrite(ptr[t], val[t])
              \/ /\ ~Found(ptr[t])
                 /\ UNCHANGED <<cells, shortened>>
           /\ Return(t)
           /\ UNCHANGED <<Records, cell_types>>

\* _resolve_ptr and the range check; the list object it found is remembered.  An
\* operation that fails here records an error and changes nothing.
Resolves(p) == p \notin freed_ptrs /\ p \in heap
BugOffByOne(p, i) == i \in 1..(Len(cells[p]) + 1)
InRange(p, i) == i \in 1..Len(cells[p])

Heap == <<Records, cells, cell_types>>

GetCall(t, p, i) == /\ pc[t] = "idle"
                    /\ Resolves(p) /\ InRange(p, i)
                    /\ Goto(t, "get", p, i, <<>>)
                    /\ UNCHANGED <<Heap, shortened>>

\* cells[idx], read without the lock from the list object found before; it raises
\* an IndexError when the cell is gone.  What is done with the value is the
\* program's business.
Get(t) == /\ pc[t] = "get"
          /\ Return(t)
          /\ shortened' = shortened \ {t}
          /\ UNCHANGED Heap

SetCall(t, p, i, v) == /\ pc[t] = "idle"
                       /\ Resolves(p) /\ InRange(p, i)
                       /\ Goto(t, "set", p, i, <<v>>)
                       /\ UNCHANGED <<Heap, shortened>>

\* Any value is stored.
BugAnyType(p, i, v) == TRUE

\* The second half of heap_set.  The cell takes the type of the first value that
\* heap_set stores in it and refuses any other (E014); a block deleted meanwhile has
\* no types, and self.heap[ip] raises, as does the index of a cell popped meanwhile.
TypeAccepts(p, i, v) == IF p \in DOMAIN cell_types /\ i \in DOMAIN cell_types[p]
                        THEN cell_types[p][i] = TypeName(v)
                        ELSE TRUE

Set(t) ==
    LET p == ptr[t]
        i == idx[t]
        v == val[t][1]
    IN  /\ pc[t] = "set"
        /\ \/ /\ TypeAccepts(p, i, v)
              /\ Found(p) /\ i \in DOMAIN cells[p]
              /\ cells' = [cells EXCEPT ![p][i] = v]
              /\ cell_types' = [cell_types EXCEPT ![p] = Extend(@, i, TypeName(v))]
           \/ /\ ~TypeAccepts(p, i, v) \/ ~Found(p) \/ i \notin DOMAIN cells[p]
              /\ UNCHANGED <<cells, cell_types>>
        /\ Return(t)
        /\ shortened' = shortened \ {t}
        /\ UNCHANGED Records

\* _guard_protected_mutation refuses the write when the pointer is a parameter
\* that copy-on-call protects.
SetGuarded(t) == /\ pc[t] = "set"
                 /\ Return(t)
                 /\ shortened' = shortened \ {t}
                 /\ UNCHANGED Heap

DeleteCall(t, p) == /\ pc[t] = "idle"
                    /\ Resolves(p)
                    /\ Goto(t, "delete", p, 0, <<>>)
                    /\ UNCHANGED <<Heap, shortened>>

\* A second delete finds no size and forgets the first one's.
BugSizeLost(p) == IF p \in DOMAIN allocations
                  THEN Extend(freed_allocations, p, allocations[p])
                  ELSE Drop(freed_allocations, p)

SizeRemembered(p) == IF p \in DOMAIN allocations
                     THEN Extend(freed_allocations, p, allocations[p])
                     ELSE freed_allocations

\* The second half of delete looks nothing up again: of two threads that resolved
\* the pointer both get here, and both report success.
Delete(t) ==
    LET p == ptr[t]
    IN  /\ pc[t] = "delete"
        /\ heap' = heap \ {p}
        /\ cell_types' = Drop(cell_types, p)
        /\ ptr_tags' = Drop(ptr_tags, p)
        /\ allocations' = Drop(allocations, p)
        /\ freed_allocations' = SizeRemembered(p)
        /\ freed_ptrs' = freed_ptrs \cup {p}
        /\ Return(t)
        /\ UNCHANGED <<next_ptr, cells, asked, shortened>>

\* tag() asks nothing of its pointer: it may be freed, or not yet allocated.
Tag(t, p, label) == /\ pc[t] = "idle"
                    /\ ptr_tags' = Extend(ptr_tags, p, label)
                    /\ UNCHANGED <<heap, next_ptr, cells, allocations, freed_allocations,
                                   freed_ptrs, cell_types, pc, args, asked, shortened>>

\* Collections.push, pop and Random.shuffle take the list object of a live block
\* and change it afterwards, under no lock: a delete in between is not noticed, and
\* neither sizes nor types are kept.
LibraryCall(t, op, p, v) == /\ pc[t] = "idle"
                            /\ p \in heap
                            /\ Goto(t, op, p, 0, v)
                            /\ UNCHANGED <<Heap, shortened>>

Push(t) == /\ pc[t] = "push"
           /\ Len(cells[ptr[t]]) < MaxSize
           /\ Rewrite(ptr[t], cells[ptr[t]] \o val[t])
           /\ Return(t)
           /\ UNCHANGED <<Records, cell_types>>

\* An empty list raises.
Pop(t) == /\ pc[t] = "pop"
          /\ IF cells[ptr[t]] = <<>> THEN UNCHANGED <<cells, shortened>>
             ELSE Rewrite(ptr[t], Front(cells[ptr[t]]))
          /\ Return(t)
          /\ UNCHANGED <<Records, cell_types>>

\* One exchange of random.shuffle; there is no call between its two reads and its
\* two writes, so the interpreter does not switch threads within it.
Swap(t) == /\ pc[t] = "shuffle"
           /\ \E i, j \in DOMAIN cells[ptr[t]] :
                 Rewrite(ptr[t], [cells[ptr[t]] EXCEPT ![i] = cells[ptr[t]][j],
                                                       ![j] = cells[ptr[t]][i]])
           /\ UNCHANGED <<Records, cell_types, pc, args>>

\* The loop is over, or an index it computed before a pop raises.
Shuffled(t) == /\ pc[t] = "shuffle"
               /\ Return(t)
               /\ UNCHANGED <<Heap, shortened>>

Next == \E t \in Threads :
           \/ \E n \in 0..MaxSize : New(t, n)
           \/ \E vs \in Contents : NewLiteral(t, vs)
           \/ Fill(t)
           \/ \E p \in Pointers, i \in Indices : GetCall(t, p, i)
           \/ Get(t)
           \/ \E p \in Pointers, i \in Indices, v \in Values : SetCall(t, p, i, v)
           \/ Set(t)
           \/ SetGuarded(t)
           \/ \E p \in Pointers : DeleteCall(t, p)
           \/ Delete(t)
           \/ \E p \in Pointers, label \in Labels : Tag(t, p, label)
           \/ \E p \in Pointers, v \in Values : LibraryCall(t, "push", p, <<v>>)
           \/ \E p \in Pointers, op \in {"pop", "shuffle"} : LibraryCall(t, op, p, <<>>)
           \/ Push(t)
           \/ Pop(t)
           \/ Swap(t)
           \/ Shuffled(t)

Spec == Init /\ [][Next]_vars

-----------------------------------------------------------------------------
\* The type of every variable.
TypeOK ==
    /\ heap \subseteq Pointers
    /\ next_ptr \in 1..(MaxAllocs + 1)
    /\ cells \in [1..(next_ptr - 1) -> Contents]
    /\ asked \in [1..(next_ptr - 1) -> 0..MaxSize]
    /\ \A p \in DOMAIN allocations : allocations[p] \in 0..MaxSize
    /\ \A p \in DOMAIN freed_allocations : freed_allocations[p] \in 0..MaxSize
    /\ freed_ptrs \subseteq Pointers
    /\ \A p \in DOMAIN cell_types : cell_types[p] \in Tables(Indices, TypeNames)
    /\ ptr_tags \in Tables(Pointers, Labels)
    /\ pc \in [Threads -> Steps]
    /\ ptr \in [Threads -> 0..MaxAllocs]
    /\ idx \in [Threads -> 0..MaxSize]
    /\ val \in [Threads -> Contents \cup {<<v>> : v \in Values}]
    /\ shortened \subseteq Threads

\* heap_leak_report tells the truth whatever deletes raced: the five tables agree
\* on which blocks are live and which are freed, every block ever allocated is
\* exactly one of the two, and the size it was allocated with is remembered on the
\* right side, whatever was pushed and popped since.
Bookkeeping ==
    /\ heap \cap freed_ptrs = {}
    /\ heap \cup freed_ptrs = 1..(next_ptr - 1)
    /\ DOMAIN allocations = heap
    /\ DOMAIN cell_types = heap
    /\ DOMAIN freed_allocations = freed_ptrs
    /\ \A p \in heap : allocations[p] = asked[p]
    /\ \A p \in freed_ptrs : freed_allocations[p] = asked[p]

\* The index that heap_get and heap_set checked is still good when they use it on the
\* list object, whatever was stored, pushed, shuffled or deleted meanwhile: only a
\* list that became shorter since the check can make them miss.
ReadsLand ==
    \A t \in Threads : pc[t] \in {"get", "set"} /\ t \notin shortened
                       => idx[t] \in DOMAIN cells[ptr[t]]

\* A freed block stays freed, and no heap_set and no literal writes to it any more,
\* although calls that resolved its pointer earlier are still under way; only a
\* library operation that got hold of the list object before can.
FreedStaysFrozen ==
    [][\A p \in freed_ptrs :
          /\ p \in freed_ptrs' /\ p \notin heap'
          /\ cells'[p] # cells[p]
             => \E t \in Threads : pc[t] \in {"push", "pop", "shuffle"} /\ ptr[t] = p]_vars

\* heap_set stores only one type in a cell as long as its block lives, although the
\* check and the write of two calls may interleave and the cell be popped and pushed
\* in between: the type once recorded stays, and no other is stored over it.
TypesStable ==
    [][\A p \in heap \cap heap' : \A i \in DOMAIN cell_types[p] :
          /\ i \in DOMAIN cell_types'[p] /\ cell_types'[p][i] = cell_types[p][i]
          /\ \A t \in Threads :
                pc[t] = "set" /\ ptr[t] = p /\ idx[t] = i /\ pc'[t] = "idle"
                /\ cells' # cells => TypeName(val[t][1]) = cell_types[p][i]]_vars
=============================================================================
