----------------------------- MODULE AsyncQueue -----------------------------
(***************************************************************************)
(* What a channel of the Async namespace promises to the Tiny programs     *)
(* that share it, without threads, locks or condition variables: values    *)
(* are accepted while the channel is open and below its capacity, they are *)
(* delivered in the order of acceptance, each at most once, and closing    *)
(* stops acceptance but not delivery.                                      *)
(***************************************************************************)
EXTENDS Naturals, Sequences

CONSTANTS Values,     \* the values a program may send
          Bound       \* the number of values accepted and not yet delivered

VARIABLES sent,       \* every value accepted so far, oldest first
          received,   \* every value delivered so far, oldest first
          closed      \* no value is accepted any more

vars == <<sent, received, closed>>

Init == /\ sent = <<>>
        /\ received = <<>>
        /\ closed = FALSE

\* A send is answered with True.
Accept == /\ ~closed
          /\ Len(sent) - Len(received) < Bound
          /\ \E v \in Values : sent' = Append(sent, v)
          /\ UNCHANGED <<received, closed>>

\* A receive is answered with a value: always the oldest one not delivered.
Deliver == /\ Len(received) < Len(sent)
           /\ received' = Append(received, sent[Len(received) + 1])
           /\ UNCHANGED <<sent, closed>>

Close == /\ closed' = TRUE
         /\ UNCHANGED <<sent, received>>

Next == Accept \/ Deliver \/ Close

Spec == Init /\ [][Next]_vars
=============================================================================
