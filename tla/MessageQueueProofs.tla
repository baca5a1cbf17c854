------------------------- MODULE MessageQueueProofs -------------------------
(***************************************************************************)
(* Proofs about the MessageQueue actor, for any set of getters, any        *)
(* capacity and any number of puts.  The inductive invariant is            *)
(* TypeOK /\ QueueIsWindow /\ NoLostWakeup; the refinement of              *)
(* DropOldestFifo follows from it, step by step.                           *)
(***************************************************************************)
EXTENDS MessageQueue, TLAPS

Inv == TypeOK /\ QueueIsWindow /\ NoLostWakeup

USE QueueSizeAssumption, BoundsAssumption, NoSampleAssumption

\* notify_all() keeps getter states and leaves nobody waiting.
LEMMA NotifyAllWakes ==
    ASSUME NEW g \in [Getters -> GetterStates]
    PROVE  /\ NotifyAll(g) \in [Getters -> GetterStates]
           /\ \A c \in Getters : NotifyAll(g)[c] # "waiting"
BY DEF NotifyAll, GetterStates

\* The actor starts with an empty window and nobody waiting.
LEMMA InitInv == Init => Inv
BY DEF Init, InitWith, Inv, TypeOK, QueueIsWindow, NoLostWakeup, Gone, GetterStates

\* put_sample keeps the window: the new sample is the last one, and the
\* eviction moves the front by one.
LEMMA PutInv == Inv /\ Put => Inv'
<1> SUFFICES ASSUME Inv, Put PROVE Inv'
  OBVIOUS
<1> DEFINE kept == IF IsFull THEN Tail(queue) ELSE queue
<1>1. /\ queue \in Seq(1..MaxPuts) /\ Len(queue) \in Nat
      /\ Len(queue) <= MaxQueueSize
  BY DEF Inv, TypeOK, QueueIsWindow
<1>2. /\ kept \in Seq(1..MaxPuts)
      /\ Len(kept) = IF IsFull THEN Len(queue) - 1 ELSE Len(queue)
      /\ Len(kept) + 1 <= MaxQueueSize
      /\ \A i \in 1..Len(kept) : kept[i] = IF IsFull THEN queue[i + 1] ELSE queue[i]
  <2>1. CASE IsFull
    <3>1. queue # <<>>
      BY <2>1, <1>1 DEF IsFull
    <3> QED BY <2>1, <3>1, <1>1
  <2>2. CASE ~IsFull
    BY <2>2, <1>1 DEF IsFull
  <2> QED BY <2>1, <2>2
<1> HIDE DEF kept
<1>3. queue' = Append(kept, total_produced + 1)
  BY DEF Put, PutSample, Appended, kept
<1>4. Gone' = IF IsFull THEN Gone + 1 ELSE Gone
  BY DEF Put, PutSample, Gone, Inv, TypeOK
<1>5. total_produced' = Gone' + Len(queue')
  <2>1. total_produced' = total_produced + 1 /\ Len(queue') = Len(kept) + 1
    BY <1>2, <1>3 DEF Put, PutSample
  <2>2. /\ total_produced = Gone + Len(queue)
        /\ total_produced \in Nat /\ Gone \in Nat /\ Len(queue) \in Nat
    BY <1>1 DEF Inv, TypeOK, QueueIsWindow, Gone
  <2> QED BY <2>1, <2>2, <1>2, <1>4
<1>6. ASSUME NEW i \in 1..Len(queue') PROVE queue'[i] = Gone' + i
  <2>1. CASE i = Len(queue')
    BY <2>1, <1>2, <1>3, <1>5 DEF Put, PutSample, Inv, TypeOK, Gone
  <2>2. CASE i # Len(queue')
    <3>1. i \in 1..Len(kept) /\ queue'[i] = kept[i]
      BY <2>2, <1>2, <1>3
    <3>2. CASE IsFull
      BY <3>1, <3>2, <1>1, <1>2, <1>4 DEF Inv, TypeOK, QueueIsWindow, Gone
    <3>3. CASE ~IsFull
      BY <3>1, <3>3, <1>1, <1>2, <1>4 DEF Inv, TypeOK, QueueIsWindow, Gone
    <3> QED BY <3>2, <3>3
  <2> QED BY <2>1, <2>2
<1>7. TypeOK'
  <2>1. total_produced + 1 \in 1..MaxPuts
    BY DEF Put, Inv, TypeOK
  <2>2. queue' \in Seq(1..MaxPuts)
    BY <2>1, <1>2, <1>3
  <2> QED
    <3>1. getter' \in [Getters -> GetterStates]
      BY NotifyAllWakes DEF Put, PutSample, Inv, TypeOK
    <3> QED BY <2>1, <2>2, <3>1 DEF Put, PutSample, Inv, TypeOK
<1>8. QueueIsWindow'
  BY <1>2, <1>3, <1>5, <1>6 DEF QueueIsWindow
<1>9. NoLostWakeup'
  BY NotifyAllWakes DEF NoLostWakeup, Put, PutSample, Inv, TypeOK
<1> QED
  BY <1>7, <1>8, <1>9 DEF Inv

\* get_sample, up to its wait() or its return, keeps the window; it parks a
\* getter only when there is nothing to return.
LEMMA GetInv == ASSUME NEW c \in Getters PROVE Inv /\ GetLoop(c) => Inv'
<1> SUFFICES ASSUME Inv, GetLoop(c) PROVE Inv'
  OBVIOUS
<1>1. CASE WaitForSample(c)
  BY <1>1 DEF WaitForSample, GetLoop, Inv, TypeOK, QueueIsWindow, NoLostWakeup, Gone, GetterStates
<1>2. CASE ReturnNone(c)
  BY <1>2 DEF ReturnNone, GetLoop, Inv, TypeOK, QueueIsWindow, NoLostWakeup, Gone, GetterStates
<1>3. CASE TakeOldest(c)
  <2>1. /\ queue \in Seq(1..MaxPuts) /\ queue # <<>>
        /\ Len(queue) \in Nat \ {0}
    BY <1>3 DEF Inv, TypeOK, TakeOldest
  <2>2. /\ queue' \in Seq(1..MaxPuts) /\ Len(queue') = Len(queue) - 1
        /\ \A i \in 1..Len(queue') : queue'[i] = queue[i + 1]
        /\ Head(queue) \in 1..MaxPuts
    BY <2>1, <1>3 DEF TakeOldest
  <2>3. Gone' = Gone + 1
    BY <1>3 DEF TakeOldest, GetLoop, Gone, Inv, TypeOK
  <2>4. TypeOK'
    BY <1>3, <2>2 DEF TakeOldest, GetLoop, Inv, TypeOK, GetterStates
  <2>5. QueueIsWindow'
    BY <1>3, <2>1, <2>2, <2>3 DEF TakeOldest, GetLoop, Inv, TypeOK, QueueIsWindow, Gone
  <2>6. NoLostWakeup'
    BY <1>3, <2>1 DEF TakeOldest, GetLoop, Inv, TypeOK, NoLostWakeup, GetterStates
  <2> QED BY <2>4, <2>5, <2>6 DEF Inv
<1> QED
  BY <1>1, <1>2, <1>3 DEF GetLoop

\* The methods that touch neither the samples nor the getters.
LEMMA OtherInv ==
    ASSUME Inv,
           \/ \E v \in 0..MaxVersion : UpdateParamVersion(v)
           \/ ClearQueue
           \/ Shutdown
           \/ PutValidate(Len(val_queue))
           \/ GetValidate
           \/ UNCHANGED vars
    PROVE  Inv'
<1> USE DEF counters
<1>1. CASE \E v \in 0..MaxVersion : UpdateParamVersion(v)
  BY <1>1 DEF UpdateParamVersion, Inv, TypeOK, QueueIsWindow, NoLostWakeup, Gone
<1>2. CASE ClearQueue
  BY <1>2 DEF ClearQueue, Inv, TypeOK, QueueIsWindow, NoLostWakeup, Gone
<1>3. CASE Shutdown
  <2>1. TypeOK' /\ QueueIsWindow'
    BY <1>3, NotifyAllWakes DEF Shutdown, Inv, TypeOK, QueueIsWindow, Gone
  <2>2. NoLostWakeup'
    BY <1>3, NotifyAllWakes DEF Shutdown, Inv, TypeOK, NoLostWakeup
  <2> QED BY <2>1, <2>2 DEF Inv
<1>4. CASE PutValidate(Len(val_queue))
  BY <1>4 DEF PutValidate, Inv, TypeOK, QueueIsWindow, NoLostWakeup, Gone
<1>5. CASE GetValidate
  BY <1>5 DEF GetValidate, Inv, TypeOK, QueueIsWindow, NoLostWakeup, Gone
<1>6. CASE UNCHANGED vars
  BY <1>6 DEF vars, Inv, TypeOK, QueueIsWindow, NoLostWakeup, Gone
<1> QED
  BY <1>1, <1>2, <1>3, <1>4, <1>5, <1>6

LEMMA NextInv == Inv /\ [Next]_vars => Inv'
BY PutInv, GetInv, OtherInv DEF Next, GetSample, Wake

LEMMA SpecInv == Spec => []Inv
BY InitInv, NextInv, PTL DEF Spec

\* The actor's state is well typed, whatever calls arrive in what order.
THEOREM TypeCorrect == Spec => []TypeOK
BY SpecInv, PTL DEF Inv

\* The deque is the window of the last samples put, and the statistics add up.
THEOREM WindowCorrect == Spec => []QueueIsWindow
BY SpecInv, PTL DEF Inv

\* No getter waits while there is a sample to return or after shutdown.
THEOREM NoLostWakeupCorrect == Spec => []NoLostWakeup
BY SpecInv, PTL DEF Inv
-----------------------------------------------------------------------------
(* The refinement: each step of the actor is a step of DropOldestFifo or   *)
(* leaves its four variables alone.                                        *)

fifoVars == <<Gone, total_produced, ~running, reply>>

LEMMA InitRefines == Init => Fifo!Init
BY DEF Init, InitWith, Fifo!Init, Gone

\* A put is the abstract Put: the eviction test of the deque is the abstract
\* test on the window's width.
LEMMA PutRefines == Inv /\ Put => Fifo!Put
<1> SUFFICES ASSUME Inv, Put PROVE Fifo!Put
  OBVIOUS
<1>1. Len(queue) = total_produced - Gone
  BY DEF Inv, TypeOK, QueueIsWindow, Gone
<1> QED
  BY <1>1 DEF Put, PutSample, IsFull, Gone, Fifo!Put, Inv, TypeOK

\* get_sample answers with the oldest number of the window, or None when the
\* window is empty and closed, or has no visible effect (wait).
LEMMA GetRefines ==
    ASSUME NEW c \in Getters, Inv, GetLoop(c)
    PROVE  Fifo!Take(c) \/ Fifo!TellNothing(c) \/ UNCHANGED fifoVars
<1>0. /\ Len(queue) = total_produced - Gone
      /\ Gone \in Nat /\ total_produced \in Nat
  BY DEF Inv, TypeOK, QueueIsWindow, Gone
<1>1. CASE WaitForSample(c)
  BY <1>1 DEF WaitForSample, GetLoop, fifoVars, Gone
<1>2. CASE ReturnNone(c)
  BY <1>0, <1>2 DEF ReturnNone, GetLoop, Fifo!TellNothing, Gone
<1>3. CASE TakeOldest(c)
  <2>1. Len(queue) \in Nat \ {0} /\ Head(queue) = queue[1]
    BY <1>3 DEF TakeOldest, Inv, TypeOK
  <2>2. Head(queue) = Gone + 1
    BY <2>1 DEF Inv, QueueIsWindow
  <2>3. Gone' = Gone + 1
    BY <1>3 DEF TakeOldest, GetLoop, Gone, Inv, TypeOK
  <2>4. Gone < total_produced
    BY <1>0, <2>1
  <2>5. reply' = [reply EXCEPT ![c] = Gone + 1]
    BY <1>3, <2>2 DEF TakeOldest
  <2>6. UNCHANGED <<total_produced, ~running>>
    BY <1>3 DEF TakeOldest, GetLoop
  <2> QED
    BY <2>3, <2>4, <2>5, <2>6 DEF Fifo!Take
<1> QED
  BY <1>1, <1>2, <1>3 DEF GetLoop

\* The other methods clear or close the window, or do not touch it.
LEMMA OtherRefines ==
    ASSUME Inv,
           \/ \E v \in 0..MaxVersion : UpdateParamVersion(v)
           \/ ClearQueue
           \/ Shutdown
           \/ PutValidate(Len(val_queue))
           \/ GetValidate
           \/ UNCHANGED vars
    PROVE  Fifo!Clear \/ Fifo!Close \/ UNCHANGED fifoVars
<1> USE DEF counters, fifoVars, Gone
<1>1. CASE ClearQueue
  BY <1>1 DEF ClearQueue, Fifo!Clear, Inv, TypeOK, QueueIsWindow
<1>2. CASE Shutdown
  BY <1>2 DEF Shutdown, Fifo!Close
<1>3. CASE \E v \in 0..MaxVersion : UpdateParamVersion(v)
  BY <1>3 DEF UpdateParamVersion
<1>4. CASE PutValidate(Len(val_queue)) \/ GetValidate
  BY <1>4 DEF PutValidate, GetValidate
<1>5. CASE UNCHANGED vars
  BY <1>5 DEF vars
<1> QED
  BY <1>1, <1>2, <1>3, <1>4, <1>5

LEMMA StepRefines ==
    Inv /\ [Next]_vars => [Fifo!Next]_fifoVars
BY PutRefines, GetRefines, OtherRefines
   DEF Next, GetSample, Wake, Fifo!Next

\* The actor implements the abstract drop-oldest FIFO, for every capacity,
\* every set of getters and every order of calls.
THEOREM RefinesFifo == Spec => ImplementsFifo
BY InitRefines, StepRefines, SpecInv, PTL
   DEF Spec, ImplementsFifo, Fifo!Spec, fifoVars
=============================================================================
