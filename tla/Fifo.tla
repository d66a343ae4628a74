-------------------------------- MODULE Fifo --------------------------------
(***************************************************************************)
(* What a channel promises, whatever its monitor: a bounded queue between  *)
(* one writer and one reader.  The n-th write is of the value n.  A value  *)
(* is queued once and in order, or the channel is closed and it is given   *)
(* back; a write that reports success has queued its value.                *)
(***************************************************************************)
EXTENDS Naturals, Sequences

CONSTANT MaxWrites

VARIABLES
  queue,   \* values on their way
  got,     \* the values that reads returned
  fate,    \* what write reported of each value
  closed,
  capacity \* set when the channel is made

fifoVars == <<queue, got, fate, closed, capacity>>

Init ==
  /\ queue = <<>>
  /\ got = <<>>
  /\ fate = [n \in 1..MaxWrites |-> "none"]
  /\ closed = FALSE
  /\ capacity \in Nat \ {0}

(* The values so far: those that were read, then those on their way. *)
Accepted == Len(got) + Len(queue)

Enqueue ==
  /\ Len(queue) < capacity
  /\ Accepted < MaxWrites
  /\ fate[Accepted + 1] = "none"
  /\ queue' = Append(queue, Accepted + 1)
  /\ UNCHANGED <<got, fate, closed, capacity>>

Dequeue ==
  /\ queue # <<>>
  /\ got' = Append(got, Head(queue))
  /\ queue' = Tail(queue)
  /\ UNCHANGED <<fate, closed, capacity>>

(* The oldest write that has not reported yet reports. *)
Report(n) ==
  /\ fate[n] = "none"
  /\ \A m \in 1..n - 1 : fate[m] # "none"
  /\ \/ n <= Accepted /\ fate' = [fate EXCEPT ![n] = "sent"]
     \/ n > Accepted /\ closed /\ fate' = [fate EXCEPT ![n] = "kept"]
  /\ UNCHANGED <<queue, got, closed, capacity>>

Close ==
  /\ closed' = TRUE
  /\ UNCHANGED <<queue, got, fate, capacity>>

Next == Enqueue \/ Dequeue \/ Close \/ \E n \in 1..MaxWrites : Report(n)

Spec == Init /\ [][Next]_fifoVars
=============================================================================
