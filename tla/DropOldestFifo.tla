--------------------------- MODULE DropOldestFifo ---------------------------
(***************************************************************************)
(* What the sample queue promises, without queue, lock or condition.  The  *)
(* samples are numbered in the order they were put; those the queue holds  *)
(* are lo+1 .. hi.  A reader is given the oldest one, each sample goes to  *)
(* at most one reader, and a sample that no reader took leaves only as the *)
(* oldest of a full queue or by an explicit clear.  A reader is told       *)
(* "nothing" only of a closed and empty queue.                             *)
(***************************************************************************)
EXTENDS Integers

CONSTANTS Readers, Capacity, Nothing

VARIABLES lo, hi, closed, answer

Init == lo = 0 /\ hi = 0 /\ closed = FALSE /\ answer = [r \in Readers |-> Nothing]

Put ==
    /\ hi' = hi + 1
    /\ lo' = IF hi - lo >= Capacity THEN lo + 1 ELSE lo
    /\ UNCHANGED <<closed, answer>>

Take(r) ==
    /\ lo < hi
    /\ lo' = lo + 1
    /\ answer' = [answer EXCEPT ![r] = lo + 1]
    /\ UNCHANGED <<hi, closed>>

TellNothing(r) ==
    /\ closed /\ lo = hi
    /\ answer' = [answer EXCEPT ![r] = Nothing]
    /\ UNCHANGED <<lo, hi, closed>>

Clear == lo' = hi /\ UNCHANGED <<hi, closed, answer>>

Close == closed' = TRUE /\ UNCHANGED <<lo, hi, answer>>

Next == Put \/ Clear \/ Close \/ \E r \in Readers : Take(r) \/ TellNothing(r)

Spec == Init /\ [][Next]_<<lo, hi, closed, answer>>
=============================================================================
