---------------------------- MODULE ChannelProofs ---------------------------
(***************************************************************************)
(* The safety properties of the channel and its refinement of the abstract *)
(* queue, proved for any finite set of threads, any values, any requested  *)
(* capacity and any bound on the sends.                                    *)
(*                                                                         *)
(* The inductive invariant is the conjunction of the properties the runs   *)
(* check: TypeOK gives the sets of waiting threads their meaning, and      *)
(* NoLostSender also says that nobody sleeps on a closed channel.          *)
(*                                                                         *)
(* Workers that may be cancelled drive the channel as any threads do, so   *)
(* all that is proved of the channel holds for them; and a cancelled       *)
(* worker begins one more call on it at most.  For any workers among the   *)
(* threads.                                                                *)
(***************************************************************************)
EXTENDS ChannelWorkers, SequenceTheorems, FiniteSetTheorems, TLAPS

IInv == TypeOK /\ Fifo /\ NoLostSender /\ NoLostReceiver /\ NullMeansDrained

-----------------------------------------------------------------------------
\* Notifying an empty set of waiters does nothing; otherwise it wakes one.
LEMMA NotifyOne ==
    ASSUME NEW W, NEW V \in OneFewer(W)
    PROVE  \/ W = {} /\ V = {}
           \/ \E u \in W : V = W \ {u}
BY DEF OneFewer

LEMMA CapacityNat == capacity \in Nat
BY ChannelAssumption DEF capacity

\* Moving the oldest buffered value behind the received ones leaves their
\* concatenation as it was.
LEMMA MoveHead ==
    ASSUME NEW S, NEW r \in Seq(S), NEW b \in Seq(S), b # <<>>
    PROVE  /\ Head(b) \in S
           /\ Tail(b) \in Seq(S)
           /\ Append(r, Head(b)) \o Tail(b) = r \o b
<1>1. /\ Head(b) \in S
      /\ Tail(b) \in Seq(S)
      /\ Len(Tail(b)) = Len(b) - 1
      /\ \A i \in 1 .. Len(Tail(b)) : Tail(b)[i] = b[i + 1]
  BY HeadTailProperties
<1>2. Head(b) = b[1]
  OBVIOUS
<1> DEFINE a == Append(r, Head(b))
           left == a \o Tail(b)
           right == r \o b
<1>3. /\ a \in Seq(S)
      /\ Len(a) = Len(r) + 1
      /\ \A i \in 1 .. Len(r) : a[i] = r[i]
      /\ a[Len(r) + 1] = Head(b)
  BY <1>1, AppendProperties
<1> HIDE DEF a
<1>4. /\ left \in Seq(S)
      /\ Len(left) = Len(a) + Len(Tail(b))
      /\ \A i \in 1 .. Len(a) + Len(Tail(b)) :
            left[i] = IF i <= Len(a) THEN a[i] ELSE Tail(b)[i - Len(a)]
  BY <1>1, <1>3, ConcatProperties
<1>5. /\ right \in Seq(S)
      /\ Len(right) = Len(r) + Len(b)
      /\ \A i \in 1 .. Len(r) + Len(b) :
            right[i] = IF i <= Len(r) THEN r[i] ELSE b[i - Len(r)]
  BY ConcatProperties
<1>6. Len(r) \in Nat /\ Len(b) \in Nat /\ Len(b) > 0
  BY EmptySeq, LenProperties
<1> HIDE DEF left, right
<1>7. Len(left) = Len(right)
  BY <1>1, <1>3, <1>4, <1>5, <1>6
<1>8. ASSUME NEW i \in 1 .. Len(left)
      PROVE  left[i] = right[i]
  <2>1. i \in 1 .. Len(a) + Len(Tail(b)) /\ i \in 1 .. Len(r) + Len(b)
    BY <1>4, <1>5, <1>7
  <2>2. CASE i <= Len(r)
    BY <2>1, <2>2, <1>3, <1>4, <1>5, <1>6
  <2>3. CASE i = Len(r) + 1
    <3>1. left[i] = Head(b)
      BY <2>1, <2>3, <1>3, <1>4, <1>6
    <3>2. right[i] = b[1]
      BY <2>1, <2>3, <1>5, <1>6
    <3>3. QED
      BY <3>1, <3>2, <1>2
  <2>4. CASE i > Len(r) + 1
    <3>1. left[i] = Tail(b)[i - (Len(r) + 1)]
      BY <2>1, <2>4, <1>3, <1>4, <1>6
    <3>2. right[i] = b[i - Len(r)]
      BY <2>1, <2>4, <1>5, <1>6
    <3>3. i - (Len(r) + 1) \in 1 .. Len(Tail(b))
      BY <2>1, <2>4, <1>1, <1>6
    <3>4. Tail(b)[i - (Len(r) + 1)] = b[(i - (Len(r) + 1)) + 1]
      BY <3>3, <1>1
    <3>5. (i - (Len(r) + 1)) + 1 = i - Len(r)
      BY <1>6
    <3>6. QED
      BY <3>1, <3>2, <3>4, <3>5
  <2>5. QED
    BY <2>2, <2>3, <2>4, <1>6
<1>9. left = right
  BY <1>4, <1>5, <1>7, <1>8, SeqEqual
<1>10. QED
  BY <1>1, <1>9 DEF left, right, a

-----------------------------------------------------------------------------
\* Every step runs the body of send or of recv in a thread that holds the lock
\* and is not asleep, or closes the channel.
LEMMA StepCases ==
    ASSUME TypeOK, Next
    PROVE  \E t \in Threads :
             \/ \E v \in Values :
                   /\ SendBody(t, v)
                   /\ pc[t] \in {"idle", "send"}
                   /\ t \notin not_full
                   /\ arg' \in [Threads -> Values]
             \/ /\ RecvBody(t)
                /\ pc[t] \in {"idle", "recv"}
                /\ t \notin not_empty
                /\ arg' = arg
             \/ Close(t)
<1>1. PICK t \in Threads : \/ \E v \in Values : Send(t, v)
                           \/ Recv(t)
                           \/ ResumeSend(t)
                           \/ ResumeRecv(t)
                           \/ Close(t)
  BY DEF Next
<1>2. ASSUME NEW v \in Values, Send(t, v)
      PROVE  /\ SendBody(t, v)
             /\ pc[t] \in {"idle", "send"}
             /\ t \notin not_full
             /\ arg' \in [Threads -> Values]
  BY <1>2 DEF Send, TypeOK
<1>3. CASE ResumeSend(t)
  BY <1>3 DEF ResumeSend, TypeOK
<1>4. CASE Recv(t)
  BY <1>4 DEF Recv, TypeOK
<1>5. CASE ResumeRecv(t)
  BY <1>5 DEF ResumeRecv, TypeOK
<1>6. QED
  BY <1>1, <1>2, <1>3, <1>4, <1>5

\* Threads are finitely many, so the woken ones can be counted.
LEMMA WokenFinite ==
    ASSUME TypeOK
    PROVE  /\ IsFiniteSet(WokenSenders) /\ Cardinality(WokenSenders) \in Nat
           /\ IsFiniteSet(WokenReceivers) /\ Cardinality(WokenReceivers) \in Nat
<1>1. WokenSenders \in SUBSET Threads /\ WokenReceivers \in SUBSET Threads
  BY DEF WokenSenders, WokenReceivers
<1>2. QED
  BY <1>1, ChannelAssumption, FS_Subset, FS_CardinalityType

-----------------------------------------------------------------------------
LEMMA InitIInv == Init => IInv
<1> SUFFICES ASSUME Init PROVE IInv
  OBVIOUS
<1>1. TypeOK
  BY EmptySeq DEF Init, TypeOK
<1>2. Fifo
  BY ConcatEmptySeq, EmptySeq DEF Init, Fifo
<1>3. NoLostSender /\ NoLostReceiver /\ NullMeansDrained
  BY DEF Init, NoLostSender, NoLostReceiver, NullMeansDrained
<1>4. QED
  BY <1>1, <1>2, <1>3 DEF IInv

LEMMA TypeStep == TypeOK /\ [Next]_vars => TypeOK'
<1> SUFFICES ASSUME TypeOK, [Next]_vars PROVE TypeOK'
  OBVIOUS
<1>1. CASE UNCHANGED vars
  BY <1>1 DEF vars, TypeOK
<1>2. CASE Next
  <2> PICK t \in Threads :
             \/ \E v \in Values :
                   /\ SendBody(t, v)
                   /\ pc[t] \in {"idle", "send"}
                   /\ t \notin not_full
                   /\ arg' \in [Threads -> Values]
             \/ /\ RecvBody(t)
                /\ pc[t] \in {"idle", "recv"}
                /\ t \notin not_empty
                /\ arg' = arg
             \/ Close(t)
    BY <1>2, StepCases
  <2>1. CASE Close(t)
    BY <2>1 DEF Close, history, TypeOK
  <2>2. ASSUME NEW v \in Values, SendBody(t, v), pc[t] \in {"idle", "send"},
               t \notin not_full, arg' \in [Threads -> Values]
        PROVE  TypeOK'
    <3>1. CASE SendWait(t)
      BY <3>1, <2>2 DEF SendWait, Enter, history, TypeOK
    <3>2. CASE SendRefused(t)
      BY <3>2, <2>2 DEF SendRefused, Return, history, TypeOK
    <3>3. CASE SendAccepted(t, v)
      <4>1. buffer' \in Seq(Values) /\ sent' \in Seq(Values)
        BY <3>3, AppendProperties DEF SendAccepted, TypeOK
      <4>2. not_empty' \subseteq not_empty
        BY <3>3, NotifyOne DEF SendAccepted
      <4>3. QED
        BY <3>3, <2>2, <4>1, <4>2 DEF SendAccepted, Return, TypeOK
    <3>4. QED
      BY <2>2, <3>1, <3>2, <3>3 DEF SendBody
  <2>3. ASSUME RecvBody(t), pc[t] \in {"idle", "recv"}, t \notin not_empty, arg' = arg
        PROVE  TypeOK'
    <3>1. CASE RecvWait(t)
      BY <3>1, <2>3 DEF RecvWait, Enter, history, TypeOK
    <3>2. CASE RecvNull(t)
      BY <3>2, <2>3 DEF RecvNull, Return, TypeOK
    <3>3. CASE RecvValue(t)
      <4>1. buffer' \in Seq(Values) /\ received' \in Seq(Values)
        BY <3>3, MoveHead, AppendProperties DEF RecvValue, TypeOK
      <4>2. not_full' \subseteq not_full
        BY <3>3, NotifyOne DEF RecvValue
      <4>3. QED
        BY <3>3, <2>3, <4>1, <4>2 DEF RecvValue, Return, TypeOK
    <3>4. QED
      BY <2>3, <3>1, <3>2, <3>3 DEF RecvBody
  <2>4. QED
    BY <2>1, <2>2, <2>3
<1>3. QED
  BY <1>1, <1>2

LEMMA FifoStep == TypeOK /\ Fifo /\ [Next]_vars => Fifo'
<1> SUFFICES ASSUME TypeOK, Fifo, [Next]_vars PROVE Fifo'
  OBVIOUS
<1>1. ASSUME UNCHANGED <<buffer, sent, received>> PROVE Fifo'
  BY <1>1 DEF Fifo
<1>2. ASSUME NEW t \in Threads, NEW v \in Values, SendAccepted(t, v) PROVE Fifo'
  <2>1. /\ received \in Seq(Values) /\ buffer \in Seq(Values)
        /\ sent = received \o buffer /\ <<v>> \in Seq(Values)
    BY DEF TypeOK, Fifo
  <2>2. /\ Append(buffer, v) = buffer \o <<v>>
        /\ Append(sent, v) = sent \o <<v>>
    BY AppendIsConcat DEF TypeOK
  <2>3. (received \o buffer) \o <<v>> = received \o (buffer \o <<v>>)
    BY <2>1, ConcatAssociative
  <2>4. QED
    BY <1>2, <2>1, <2>2, <2>3 DEF SendAccepted, Fifo
<1>3. ASSUME NEW t \in Threads, RecvValue(t) PROVE Fifo'
  BY <1>3, MoveHead DEF RecvValue, Fifo, TypeOK
<1>4. QED
  BY <1>1, <1>2, <1>3, StepCases
     DEF vars, SendBody, SendWait, SendRefused, RecvBody, RecvWait, RecvNull, Close, history

\* A slot can become free only together with a notification, and a thread falls
\* asleep only when there is none.
LEMMA NoLostSenderStep == TypeOK /\ NoLostSender /\ [Next]_vars => NoLostSender'
<1> SUFFICES ASSUME TypeOK, NoLostSender, [Next]_vars, not_full' # {}
             PROVE  /\ ~closed'
                    /\ capacity - Len(buffer') <= Cardinality(WokenSenders')
  BY DEF NoLostSender
<1>t. TypeOK'
  BY TypeStep
<1>f. /\ IsFiniteSet(WokenSenders) /\ Cardinality(WokenSenders) \in Nat
      /\ IsFiniteSet(WokenSenders') /\ Cardinality(WokenSenders') \in Nat
  BY <1>t, WokenFinite, ChannelAssumption, FS_Subset, FS_CardinalityType
     DEF WokenSenders
<1>l. Len(buffer) \in Nat /\ Len(buffer') \in Nat /\ capacity \in Nat
  BY <1>t, LenProperties, CapacityNat DEF TypeOK
<1>1. CASE UNCHANGED vars
  BY <1>1 DEF vars, NoLostSender, WokenSenders
<1>2. CASE Next
  <2> PICK t \in Threads :
             \/ \E v \in Values :
                   /\ SendBody(t, v)
                   /\ pc[t] \in {"idle", "send"}
                   /\ t \notin not_full
                   /\ arg' \in [Threads -> Values]
             \/ /\ RecvBody(t)
                /\ pc[t] \in {"idle", "recv"}
                /\ t \notin not_empty
                /\ arg' = arg
             \/ Close(t)
    BY <1>2, StepCases
  <2>1. CASE Close(t)
    BY <2>1 DEF Close
  <2>2. CASE SendWait(t)
    BY <2>2, <1>f, <1>l DEF SendWait, history
  <2>3. CASE SendRefused(t)
    BY <2>3 DEF SendRefused, history, NoLostSender
  <2>4. ASSUME NEW v \in Values, SendAccepted(t, v), t \notin not_full
        PROVE  /\ ~closed'
               /\ capacity - Len(buffer') <= Cardinality(WokenSenders')
    <3>1. not_full # {} /\ ~closed /\ capacity - Len(buffer) <= Cardinality(WokenSenders)
      BY <2>4 DEF SendAccepted, NoLostSender
    <3>2. Len(buffer') = Len(buffer) + 1
      BY <2>4, AppendProperties DEF SendAccepted, TypeOK
    <3>3. WokenSenders' = WokenSenders \ {t}
      BY <2>4 DEF SendAccepted, Return, WokenSenders, TypeOK
    <3>4. Cardinality(WokenSenders) - 1 <= Cardinality(WokenSenders')
      BY <3>3, <1>f, FS_RemoveElement
    <3>5. QED
      BY <2>4, <3>1, <3>2, <3>4, <1>f, <1>l DEF SendAccepted
  <2>5. ASSUME RecvWait(t) \/ RecvNull(t), pc[t] \in {"idle", "recv"}
        PROVE  /\ ~closed'
               /\ capacity - Len(buffer') <= Cardinality(WokenSenders')
    <3>1. WokenSenders' = WokenSenders
      BY <2>5 DEF RecvWait, RecvNull, Enter, Return, WokenSenders, TypeOK, history
    <3>2. QED
      BY <2>5, <3>1 DEF RecvWait, RecvNull, NoLostSender, history
  <2>6. ASSUME RecvValue(t), pc[t] \in {"idle", "recv"}
        PROVE  /\ ~closed'
               /\ capacity - Len(buffer') <= Cardinality(WokenSenders')
    <3>1. PICK u \in not_full : not_full' = not_full \ {u}
      BY <2>6, NotifyOne DEF RecvValue
    <3>2. ~closed /\ capacity - Len(buffer) <= Cardinality(WokenSenders)
      BY <3>1 DEF NoLostSender
    <3>3. WokenSenders' = WokenSenders \cup {u} /\ u \notin WokenSenders
      BY <2>6, <3>1 DEF RecvValue, Return, WokenSenders, TypeOK
    <3>4. Cardinality(WokenSenders') = Cardinality(WokenSenders) + 1
      BY <3>3, <1>f, FS_AddElement
    <3>5. Len(buffer') = Len(buffer) - 1
      BY <2>6, HeadTailProperties DEF RecvValue, TypeOK
    <3>6. QED
      BY <2>6, <3>2, <3>4, <3>5, <1>f, <1>l DEF RecvValue
  <2>7. QED
    BY <2>1, <2>2, <2>3, <2>4, <2>5, <2>6 DEF SendBody, RecvBody
<1>3. QED
  BY <1>1, <1>2

LEMMA NoLostReceiverStep == TypeOK /\ NoLostReceiver /\ [Next]_vars => NoLostReceiver'
<1> SUFFICES ASSUME TypeOK, NoLostReceiver, [Next]_vars, not_empty' # {}
             PROVE  /\ ~closed'
                    /\ Len(buffer') <= Cardinality(WokenReceivers')
  BY DEF NoLostReceiver
<1>t. TypeOK'
  BY TypeStep
<1>f. /\ IsFiniteSet(WokenReceivers) /\ Cardinality(WokenReceivers) \in Nat
      /\ IsFiniteSet(WokenReceivers') /\ Cardinality(WokenReceivers') \in Nat
  BY <1>t, WokenFinite, ChannelAssumption, FS_Subset, FS_CardinalityType
     DEF WokenReceivers
<1>l. Len(buffer) \in Nat /\ Len(buffer') \in Nat
  BY <1>t, LenProperties DEF TypeOK
<1>1. CASE UNCHANGED vars
  BY <1>1 DEF vars, NoLostReceiver, WokenReceivers
<1>2. CASE Next
  <2> PICK t \in Threads :
             \/ \E v \in Values :
                   /\ SendBody(t, v)
                   /\ pc[t] \in {"idle", "send"}
                   /\ t \notin not_full
                   /\ arg' \in [Threads -> Values]
             \/ /\ RecvBody(t)
                /\ pc[t] \in {"idle", "recv"}
                /\ t \notin not_empty
                /\ arg' = arg
             \/ Close(t)
    BY <1>2, StepCases
  <2>1. CASE Close(t)
    BY <2>1 DEF Close
  <2>2. CASE RecvWait(t)
    <3>1. Len(buffer') = 0
      BY <2>2, EmptySeq DEF RecvWait, history
    <3>2. QED
      BY <2>2, <3>1, <1>f DEF RecvWait, history
  <2>3. CASE RecvNull(t)
    BY <2>3 DEF RecvNull, NoLostReceiver
  <2>4. ASSUME RecvValue(t), t \notin not_empty
        PROVE  /\ ~closed'
               /\ Len(buffer') <= Cardinality(WokenReceivers')
    <3>1. not_empty # {} /\ ~closed /\ Len(buffer) <= Cardinality(WokenReceivers)
      BY <2>4 DEF RecvValue, NoLostReceiver
    <3>2. Len(buffer') = Len(buffer) - 1
      BY <2>4, HeadTailProperties DEF RecvValue, TypeOK
    <3>3. WokenReceivers' = WokenReceivers \ {t}
      BY <2>4 DEF RecvValue, Return, WokenReceivers, TypeOK
    <3>4. Cardinality(WokenReceivers) - 1 <= Cardinality(WokenReceivers')
      BY <3>3, <1>f, FS_RemoveElement
    <3>5. QED
      BY <2>4, <3>1, <3>2, <3>4, <1>f, <1>l DEF RecvValue
  <2>5. ASSUME SendWait(t) \/ SendRefused(t), pc[t] \in {"idle", "send"}
        PROVE  /\ ~closed'
               /\ Len(buffer') <= Cardinality(WokenReceivers')
    <3>1. WokenReceivers' = WokenReceivers
      BY <2>5 DEF SendWait, SendRefused, Enter, Return, WokenReceivers, TypeOK, history
    <3>2. QED
      BY <2>5, <3>1 DEF SendWait, SendRefused, NoLostReceiver, history
  <2>6. ASSUME NEW v \in Values, SendAccepted(t, v), pc[t] \in {"idle", "send"}
        PROVE  /\ ~closed'
               /\ Len(buffer') <= Cardinality(WokenReceivers')
    <3>1. PICK u \in not_empty : not_empty' = not_empty \ {u}
      BY <2>6, NotifyOne DEF SendAccepted
    <3>2. ~closed /\ Len(buffer) <= Cardinality(WokenReceivers)
      BY <3>1 DEF NoLostReceiver
    <3>3. WokenReceivers' = WokenReceivers \cup {u} /\ u \notin WokenReceivers
      BY <2>6, <3>1 DEF SendAccepted, Return, WokenReceivers, TypeOK
    <3>4. Cardinality(WokenReceivers') = Cardinality(WokenReceivers) + 1
      BY <3>3, <1>f, FS_AddElement
    <3>5. Len(buffer') = Len(buffer) + 1
      BY <2>6, AppendProperties DEF SendAccepted, TypeOK
    <3>6. QED
      BY <2>6, <3>2, <3>4, <3>5, <1>f, <1>l DEF SendAccepted
  <2>7. QED
    BY <2>1, <2>2, <2>3, <2>4, <2>5, <2>6 DEF SendBody, RecvBody
<1>3. QED
  BY <1>1, <1>2

\* Once some recv has returned None the channel is closed and its buffer empty,
\* so neither history grows any more.
LEMMA NullStep == TypeOK /\ Fifo /\ NullMeansDrained /\ [Next]_vars => NullMeansDrained'
<1> SUFFICES ASSUME TypeOK, Fifo, NullMeansDrained, [Next]_vars
             PROVE  NullMeansDrained'
  OBVIOUS
<1>0. buffer = <<>> => received = sent
  BY ConcatEmptySeq DEF Fifo, TypeOK
<1>1. received = sent => buffer = <<>>
  BY ConcatEqualIffEmpty DEF Fifo, TypeOK
<1>2. ASSUME UNCHANGED <<closed, sent, received, gotNull>> PROVE NullMeansDrained'
  BY <1>2 DEF NullMeansDrained
<1>3. ASSUME NEW t \in Threads, RecvNull(t) PROVE NullMeansDrained'
  BY <1>0, <1>3 DEF RecvNull, NullMeansDrained
<1>4. ASSUME NEW t \in Threads, RecvValue(t) PROVE NullMeansDrained'
  BY <1>1, <1>4 DEF RecvValue, NullMeansDrained
<1>5. ASSUME NEW t \in Threads, NEW v \in Values, SendAccepted(t, v)
      PROVE  NullMeansDrained'
  BY <1>5 DEF SendAccepted, NullMeansDrained
<1>6. ASSUME NEW t \in Threads, Close(t) PROVE NullMeansDrained'
  BY <1>6 DEF Close, history, NullMeansDrained
<1>7. QED
  BY <1>2, <1>3, <1>4, <1>5, <1>6, StepCases
     DEF vars, SendBody, SendWait, SendRefused, RecvBody, RecvWait, history

-----------------------------------------------------------------------------
\* The inductive invariant holds in every reachable state of _Channel.
THEOREM ChannelInvariant == Spec => []IInv
<1>1. Init => IInv
  BY InitIInv
<1>2. IInv /\ [Next]_vars => IInv'
  BY TypeStep, FifoStep, NoLostSenderStep, NoLostReceiverStep, NullStep DEF IInv
<1>3. QED
  BY <1>1, <1>2, PTL DEF Spec

\* Type correctness of _Channel's state.
THEOREM ChannelTypeOK == Spec => []TypeOK
BY ChannelInvariant, PTL DEF IInv

\* send and recv neither lose, duplicate nor reorder values.
THEOREM ChannelFifo == Spec => []Fifo
BY ChannelInvariant, PTL DEF IInv

\* One notify per recv wakes enough senders: no sender sleeps beside a free slot
\* that nobody is about to take.
THEOREM ChannelNoLostSender == Spec => []NoLostSender
BY ChannelInvariant, PTL DEF IInv

\* One notify per send wakes enough receivers.
THEOREM ChannelNoLostReceiver == Spec => []NoLostReceiver
BY ChannelInvariant, PTL DEF IInv

\* Both together: no thread of send or recv sleeps beside what it waits for.
THEOREM ChannelNoLostWakeup == Spec => []NoLostWakeup
BY ChannelNoLostSender, ChannelNoLostReceiver, PTL DEF NoLostWakeup

\* None from recv means that every accepted value has been received.
THEOREM ChannelNullMeansDrained == Spec => []NullMeansDrained
BY ChannelInvariant, PTL DEF IInv

-----------------------------------------------------------------------------
LEMMA RefinesInit == Init => AQ!Init
BY DEF Init, AQ!Init

LEMMA RefinesStep == TypeOK /\ Fifo /\ [Next]_vars => [AQ!Next]_(AQ!vars)
<1> SUFFICES ASSUME TypeOK, Fifo, [Next]_vars
             PROVE  AQ!Next \/ UNCHANGED AQ!vars
  OBVIOUS
<1>1. /\ Len(sent) = Len(received) + Len(buffer)
      /\ Len(received) \in Nat /\ Len(buffer) \in Nat
      /\ \A i \in 1 .. Len(received) + Len(buffer) :
            sent[i] = IF i <= Len(received) THEN received[i] ELSE buffer[i - Len(received)]
  BY ConcatProperties, LenProperties DEF TypeOK, Fifo
<1>2. ASSUME NEW t \in Threads, NEW v \in Values, SendAccepted(t, v)
      PROVE  AQ!Accept
  BY <1>1, <1>2, CapacityNat DEF SendAccepted, AQ!Accept
<1>3. ASSUME NEW t \in Threads, RecvValue(t)
      PROVE  AQ!Deliver
  <2>1. Len(buffer) > 0
    BY <1>1, <1>3, EmptySeq DEF RecvValue, TypeOK
  <2>2. sent[Len(received) + 1] = buffer[1]
    BY <1>1, <2>1
  <2>3. QED
    BY <1>1, <1>3, <2>1, <2>2 DEF RecvValue, AQ!Deliver
<1>4. ASSUME NEW t \in Threads, Close(t)
      PROVE  AQ!Close
  BY <1>4 DEF Close, AQ!Close, history
<1>5. QED
  BY <1>2, <1>3, <1>4, StepCases
     DEF vars, AQ!vars, AQ!Next, SendBody, SendWait, SendRefused,
         RecvBody, RecvWait, RecvNull, history

\* The channel with its lock, wait queues and wakeups implements the abstract
\* queue.
THEOREM ChannelRefinesQueue == Spec => QueueSpec
<1>1. TypeOK /\ Fifo /\ [Next]_vars => [AQ!Next]_(AQ!vars)
  BY RefinesStep
<1>2. QED
  BY <1>1, RefinesInit, ChannelTypeOK, ChannelFifo, PTL DEF Spec, QueueSpec, AQ!Spec

-----------------------------------------------------------------------------
\* A step of the workers is a step of the channel, or does not touch it.
LEMMA WorkersStep == [WorkersNext]_allVars => [Next]_vars
<1> SUFFICES ASSUME [WorkersNext]_allVars PROVE [Next]_vars
  OBVIOUS
<1>1. ASSUME NEW t \in Threads, Recv(t) \/ Close(t) \/ \E v \in Values : Send(t, v) PROVE Next
  BY <1>1 DEF Next
<1>2. ASSUME NEW t \in Threads, ResumeThread(t) PROVE Next
  BY <1>2 DEF ResumeThread, Resume, Next
<1>3. ASSUME NEW t \in Threads, CallFreely(t) PROVE Next
  BY <1>1, <1>3 DEF CallFreely
<1>4. ASSUME NEW w \in Workers, CallChannel(w) PROVE Next
  BY <1>1, <1>4, WorkersAssumption DEF CallChannel
<1>5. ASSUME NEW w \in Workers, Cancel(w) \/ CheckStatement(w) \/ EndStatement(w)
      PROVE  UNCHANGED vars
  BY <1>5 DEF Cancel, CheckStatement, EndStatement
<1>6. CASE UNCHANGED allVars
  BY <1>6 DEF allVars
<1> QED
  BY <1>2, <1>3, <1>4, <1>5, <1>6 DEF WorkersNext

\* Hence the invariants of the channel hold among workers too.
LEMMA WorkersRefineChannel == WorkersSpec => Spec
<1>1. WorkersInit => Init
  BY DEF WorkersInit
<1> QED
  BY <1>1, WorkersStep, PTL DEF WorkersSpec, Spec

\* So no wakeup is lost when the waiting threads are cancelled, whose flag nobody
\* notifies them of.
THEOREM WorkersNoLostWakeup == WorkersSpec => []NoLostWakeup
  BY WorkersRefineChannel, ChannelNoLostWakeup, PTL

=============================================================================
