----------------------------- MODULE CopyOnCall -----------------------------
(***************************************************************************)
(* Argument encapsulation (--copy-on-call) of one thread of a TinyLanguage *)
(* program: the copies a call makes of its arguments, the scopes of        *)
(* protected bindings, and the writes that look them up.                   *)
(*   src/src/tiny_language_runtime.py   _bind_parameters_to_env, ...       *)
(*                                                                         *)
(* A value is a number or a reference to an object.  The code has no       *)
(* pointer type: a pointer is the number of a live block, so [is, n] of a  *)
(* number says whether the program means it as a pointer, which no         *)
(* operator of the code reads.  An object stands for a dictionary of the   *)
(* interpreter, its fields in their order; a block for a list of cells.    *)
(*                                                                         *)
(* _deep_copy_value is recursive; a step here is what it does with one     *)
(* value: it finds or makes its copy and stores that in the copy of what   *)
(* holds the value.  A number that happens to name a block is copied as a  *)
(* pointer, and may lead to the half-made copies of the same call.         *)
(*                                                                         *)
(* Left out: the types of cells and of fields (Heap has those of cells),   *)
(* views of base classes, blocks that hold a map, and where a program      *)
(* keeps its values: any block it has allocated and any object may be      *)
(* written, stored or passed, as if each had a global name.                *)
(***************************************************************************)
EXTENDS Integers, Sequences, SequencesExt

CONSTANTS
    Numbers,      \* the plain numbers the program writes, whatever they name
    Width,        \* the cells of a new block and the fields of an object
    MaxBlocks,    \* bound on the blocks ever allocated
    MaxObjects,   \* bound on the objects ever made
    MaxFrames,    \* bound on the depth of calls
    MaxWrites,    \* bound on the writes, by the library too, and deletes
    MaxArgs       \* bound on the arguments of a call

ASSUME CopyAssumption == /\ {Width, MaxBlocks, MaxObjects, MaxFrames, MaxWrites, MaxArgs} \subseteq Nat
                         /\ Numbers \subseteq Int

VARIABLES
    content,      \* runtime.heap and the objects: from a binding key to its values
    made,         \* the blocks (_next_ptr) and the objects made so far
    frames,       \* _binding_stack(): the calls in progress, innermost last, with
                  \* what their arguments reached, for the properties
    binding,      \* the call whose arguments are being bound
    writes,       \* the calls of heap_set and field_set so far
    bypasses      \* the writes of the library and the deletes so far

counters == <<writes, bypasses>>
callVars == <<content, made, frames, binding, counters>>

Kinds == {"ptr", "obj"}
Zero == [is |-> "num", n |-> 0]
None == [key \in {} |-> <<>>]
With(f, x, y) == [z \in DOMAIN f \cup {x} |-> IF z = x THEN y ELSE f[z]]

\* The binding of arguments: those that escape, the protected keys, the stack of
\* activations of _deep_copy_value over _bind_parameters_to_env, each with the key
\* it copies, the values in it, their copies so far, the key these are for and
\* its two memos as one, from keys to keys; for the properties the content when
\* the call began and the pairs of originals and copies.
Activation(key, from, new, memo) ==
    [key |-> key, from |-> from, done |-> <<>>, new |-> new, memo |-> memo]
Binding(args, escaped, heap) ==
    [escaped |-> escaped, keys |-> {}, heap |-> heap, copies |-> {},
     stack |-> <<Activation(<<>>, args, <<>>, {})>>]
NoBinding == [escaped |-> {}, keys |-> {}, heap |-> None, copies |-> {}, stack |-> <<>>]

(* The numbers of blocks that were freed are still there to be written.    *)
KnownValues == {[is |-> "num", n |-> n] : n \in Numbers} \cup
               UNION {{[is |-> kind, n |-> n] : n \in 1..made[kind]} : kind \in Kinds}

-----------------------------------------------------------------------------
(* _binding_key: a number is looked up among the blocks.                   *)
KeyOf(v) == <<IF v.is = "obj" THEN "obj" ELSE "ptr", v.n>>
Naming(v, key) == [v EXCEPT !.n = key[2]]
IsMutable(v) == KeyOf(v) \in DOMAIN content

(* `memo or {}`, a memo for the blocks and one for the rest: one that is   *)
(* empty when it is handed down is replaced, so what the callee adds to it *)
(* is lost to the caller.                                                  *)
MemoAfter(old, new) == {p \in new : \E q \in old : q[1][1] = p[1][1]}

BugProtected(key) == frames # <<>> /\ key \in frames[Len(frames)].bindings

(* _lookup_protected_binding, _guard_protected_mutation: every scope of    *)
(* the stack is searched.                                                  *)
Protected(key) == \E f \in DOMAIN frames : key \in frames[f].bindings

(* What a value means to the program: the block or the object it refers    *)
(* to, never a block that a plain number happens to name.                  *)
Refers(v, heap) == v.is # "num" /\ KeyOf(v) \in DOMAIN heap

\* All that start leads to along the function step.
Spread(start, step) ==
    LET N == Cardinality(DOMAIN step)
        grow[n \in 0..N] ==
            IF n = 0 THEN start
            ELSE LET before == grow[n - 1] IN before \cup UNION {step[x] : x \in before}
    IN  grow[N]

KeysIn(values, heap) == {KeyOf(v) : v \in {w \in values : Refers(w, heap)}}
Reach(v, heap) == Spread(KeysIn({v}, heap), [key \in DOMAIN heap |-> KeysIn(ToSet(heap[key]), heap)])
-----------------------------------------------------------------------------
CallsInit ==
    /\ content = None
    /\ made = [kind \in Kinds |-> 0]
    /\ frames = <<>>
    /\ binding = NoBinding
    /\ writes = 0
    /\ bypasses = 0

Bound(kind) == IF kind = "ptr" THEN MaxBlocks ELSE MaxObjects
Binds == binding.stack # <<>>

(* __new and the construction of an object.                                *)
NewKey(kind) == <<kind, made[kind] + 1>>
Make(kind, values) ==
    /\ made[kind] < Bound(kind)
    /\ made' = [made EXCEPT ![kind] = @ + 1]
    /\ content' = With(content, NewKey(kind), values)

Blank(n) == [i \in 1..n |-> Zero]
Create(kind) == ~Binds /\ Make(kind, Blank(Width)) /\ UNCHANGED <<frames, binding, counters>>

(* A cell of a block, or a field of an object, which may be a new one.     *)
HasPlace(key, i) ==
    i \in DOMAIN content[key] \/ (key[1] = "obj" /\ i = Len(content[key]) + 1)

(* heap_set and field_set: refused (an error, which ends the calls it      *)
(* passes through) when the target is protected.                           *)
Write(key, i, v) ==
    /\ ~Binds
    /\ writes + bypasses < MaxWrites
    /\ HasPlace(key, i)
    /\ ~Protected(key)
    /\ content' = [content EXCEPT ![key] = With(@, i, v)]
    /\ writes' = writes + 1
    /\ UNCHANGED <<made, frames, binding, bypasses>>

(* What the library writes, and delete() frees, looks up no binding.       *)
Bypass ==
    /\ ~Binds
    /\ writes + bypasses < MaxWrites
    /\ bypasses' = bypasses + 1
    /\ UNCHANGED <<made, frames, binding, writes>>

(* Map.set, on the dictionary that an object is.                           *)
MapSet(key, i, v) ==
    /\ Bypass
    /\ key[1] = "obj" /\ HasPlace(key, i)
    /\ content' = [content EXCEPT ![key] = With(@, i, v)]

(* Collections.push.                                                       *)
PushTo(key, v) ==
    /\ Bypass
    /\ key[1] = "ptr" /\ Len(content[key]) <= Width
    /\ content' = [content EXCEPT ![key] = Append(@, v)]

(* Collections.pop on a block, Map.delete on an object.                    *)
TakeFrom(key, i) ==
    /\ Bypass
    /\ i \in DOMAIN content[key]
    /\ key[1] = "ptr" => i = Len(content[key])
    /\ content' = [content EXCEPT ![key] = RemoveAt(@, i)]

(* Random.shuffle, one exchange of it.                                     *)
Exchange(key, i, j) ==
    /\ Bypass
    /\ key[1] = "ptr" /\ {i, j} \subseteq DOMAIN content[key]
    /\ content' = [content EXCEPT ![key][i] = content[key][j], ![key][j] = content[key][i]]

Free(key) ==
    /\ Bypass
    /\ key[1] = "ptr"
    /\ content' = [k \in DOMAIN content \ {key} |-> content[k]]

-----------------------------------------------------------------------------
(* _invoke_function and call_method: the arguments are bound in order,     *)
Call(args, escaped) ==
    /\ ~Binds
    /\ Len(frames) < MaxFrames
    /\ binding' = Binding(args, escaped, content)
    /\ UNCHANGED <<content, made, frames, counters>>

Top == Last(binding.stack)
More == Binds /\ Len(Top.done) < Len(Top.from)
Awaited(a) == a.from[Len(a.done) + 1]
Current == Awaited(Top)
Mutable == IsMutable(Current) /\ ~(Len(binding.stack) = 1 /\ Len(Top.done) + 1 \in binding.escaped)
Copied == {p[2] : p \in {q \in Top.memo : q[1] = KeyOf(Current)}}

BugPartly(new, done, from) == from

(* A copy while it is made: a block has all its cells from the beginning,  *)
(* an object gets field after field.                                       *)
Partly(new, done, from) ==
    IF new[1] = "ptr" THEN done \o Blank(Len(from) - Len(done)) ELSE done

(* The copy of a value takes its place behind those made before it: in the *)
(* parameters, and in the copy of what holds the value.                    *)
Deliver(stack, v) == [stack EXCEPT ![Len(stack)].done = Append(@, v)]
Stored(stack, v) ==
    LET top == Last(stack) IN
    IF Len(stack) = 1 THEN content
    ELSE [content EXCEPT ![top.new] = Partly(top.new, Append(top.done, v), top.from)]

(* those that escape (parameters on a return path, the receiver of a       *)
(* method) as they are, as is all that is not mutable.  Otherwise          *)
(* _deep_copy_value looks into its memo,                                   *)
AsItIs ==
    /\ More /\ ~Mutable
    /\ binding' = [binding EXCEPT !.stack = Deliver(@, Current)]
    /\ content' = Stored(binding.stack, Current)
    /\ UNCHANGED <<made, frames, counters>>

CopiedBefore ==
    /\ More /\ Mutable
    /\ \E new \in Copied :
          LET copy == Naming(Current, new) IN
          /\ binding' = [binding EXCEPT !.keys = @ \cup {KeyOf(Current)},
                                        !.stack = Deliver(@, copy)]
          /\ content' = Stored(binding.stack, copy)
    /\ UNCHANGED <<made, frames, counters>>

(* and makes a block or an object of its own for what is not there,        *)
BeginCopy ==
    LET key == KeyOf(Current)
        new == NewKey(key[1])
    IN  /\ More /\ Mutable /\ Copied = {}
        /\ Make(key[1], Partly(new, <<>>, content[key]))
        /\ binding' = [binding EXCEPT
              !.keys = @ \cup {key},
              !.copies = @ \cup {<<key, new>>},
              !.stack = Append(@, Activation(key, content[key], new, Top.memo \cup {<<key, new>>}))]
        /\ UNCHANGED <<frames, counters>>

(* which is returned when all that the original holds has been copied.     *)
EndCopy ==
    LET below == Front(binding.stack)
        copy == Naming(Awaited(Last(below)), Top.new)
    IN  /\ Binds /\ ~More /\ Len(binding.stack) > 1
        /\ content' = Stored(below, copy)
        /\ binding' = [binding EXCEPT
              !.stack = Deliver([below EXCEPT ![Len(below)].memo = MemoAfter(@, Top.memo)], copy)]
        /\ UNCHANGED <<made, frames, counters>>

(* _push_parameter_scope, and the call begins.                             *)
Enter ==
    /\ Binds /\ ~More /\ Len(binding.stack) = 1
    /\ frames' = Append(frames,
          [bindings |-> binding.keys,
           reached |-> UNION {Reach(Top.from[i], binding.heap) : i \in DOMAIN Top.from \ binding.escaped}])
    /\ binding' = NoBinding
    /\ UNCHANGED <<content, made, counters>>

(* `finally: self._pop_parameter_scope()`: a return, or an error.          *)
EndCall ==
    /\ ~Binds /\ frames # <<>>
    /\ frames' = Front(frames)
    /\ UNCHANGED <<content, made, binding, counters>>

CallsNext ==
    \/ \E kind \in Kinds : Create(kind)
    \/ \E key \in DOMAIN content, i \in 1..(Width + 1), v \in KnownValues :
          Write(key, i, v) \/ MapSet(key, i, v)
    \/ \E key \in DOMAIN content, v \in KnownValues : PushTo(key, v)
    \/ \E key \in DOMAIN content, i \in 1..(Width + 1) : TakeFrom(key, i)
    \/ \E key \in DOMAIN content, i, j \in 1..(Width + 1) : Exchange(key, i, j)
    \/ \E key \in DOMAIN content : Free(key)
    \/ \E n \in 1..MaxArgs : \E args \in [1..n -> KnownValues], escaped \in SUBSET (1..n) : Call(args, escaped)
    \/ AsItIs \/ CopiedBefore \/ BeginCopy \/ EndCopy \/ Enter
    \/ EndCall

CallsSpec == CallsInit /\ [][CallsNext]_callVars
-----------------------------------------------------------------------------
(* What v is in heap, w is in newHeap, and what they refer to looks alike, *)
(* and so on along all ways that lead from them.  A plain number may only  *)
(* come out as another one when it names a block.                          *)
Alike(v, heap, w, newHeap) ==
    /\ v.is = w.is
    /\ IF Refers(v, heap) THEN Refers(w, newHeap)
       ELSE v = w \/ (v.is = "num" /\ KeyOf(v) \in DOMAIN newHeap)

PairsIn(pairs, heap, newHeap) ==
    {<<KeyOf(p[1]), KeyOf(p[2])>> : p \in {q \in pairs : Refers(q[1], heap) /\ Refers(q[2], newHeap)}}

SideBySide(v, heap, w, newHeap) ==
    Spread(PairsIn({<<v, w>>}, heap, newHeap),
           [p \in (DOMAIN heap) \X (DOMAIN newHeap) |->
               PairsIn({<<heap[p[1]][i], newHeap[p[2]][i]>> : i \in DOMAIN heap[p[1]] \cap DOMAIN newHeap[p[2]]},
                       heap, newHeap)])

LookAlike(v, heap, w, newHeap) ==
    /\ Alike(v, heap, w, newHeap)
    /\ \A p \in SideBySide(v, heap, w, newHeap) :
          /\ Len(heap[p[1]]) = Len(newHeap[p[2]])
          /\ \A i \in DOMAIN heap[p[1]] : Alike(heap[p[1]][i], heap, newHeap[p[2]][i], newHeap)

(* Whatever a call is made with, an argument that does not escape arrives  *)
(* as a copy: it looks like the argument however far the callee follows    *)
(* it, cycles, shared parts and blocks that were freed included, and it    *)
(* shares no block and no object with it, so nothing the callee writes to  *)
(* its parameter is seen by the caller.  Arguments that escape arrive as   *)
(* they are.  And the copying of something never comes to the same thing   *)
(* again before it is done.  (_deep_copy_value)                            *)
CopiesAreFaithful ==
    /\ Len(binding.stack) = 1 =>
          \A i \in DOMAIN Top.done :
             LET arg == Top.from[i]
                 param == Top.done[i]
             IN  IF i \in binding.escaped THEN param = arg
                 ELSE /\ LookAlike(arg, binding.heap, param, content)
                      /\ Reach(arg, binding.heap) \cap Reach(param, content) = {}
    /\ \A i, j \in DOMAIN binding.stack : binding.stack[i].key = binding.stack[j].key => i = j

(* While a call runs, no heap_set and no field_set, by whatever alias and  *)
(* however deep in further calls, changes what the arguments reached when  *)
(* they were passed.  (_guard_protected_mutation and its callers)          *)
WritesAreKeptOut ==
    [][writes' # writes =>
          \A f \in DOMAIN frames : \A key \in frames[f].reached :
             key \in DOMAIN content => key \in DOMAIN content' /\ content'[key] = content[key]]_callVars

(* docs/language_spec.md: "Attempts to write to a protected parameter      *)
(* through other aliases fail with a runtime error to avoid side effects": *)
(* no write at all changes it.  (The library's do.)                        *)
AliasesAreRefused ==
    [][\A f \in DOMAIN frames : \A key \in frames[f].reached \cap DOMAIN content' :
          content'[key] = content[key]]_callVars
=============================================================================
