---------------------------- MODULE ChannelProofs ----------------------------
(***************************************************************************)
(* Proofs about module Channel, for any capacity and any number of values: *)
(* type correctness, the safety invariants of run channel, and that both   *)
(* monitors implement the bounded queue of module Fifo.                    *)
(***************************************************************************)
EXTENDS Channel, TLAPS, SequenceTheorems

-----------------------------------------------------------------------------
(* The inductive invariant: control *)

Other(c) == IF c = Reader THEN Writer ELSE Reader

(* Each monitor and each end has its own places. *)
PlacesInv ==
  /\ monitor = "channel_window" => \A c \in Task : pc[c] \notin {"load", "slot", "store"}
  /\ monitor = "ring_buffer" =>
       /\ ~ reader
       /\ \A c \in Task : pc[c] \notin {"loop", "woken", "fill", "meet", "go", "back", "clear"}
  /\ pc[Reader] \notin {"fill", "back"}
  /\ pc[Writer] # "over"

(* The channel is closed by an end that is being dropped. *)
CloseInv ==
  /\ closed <=> closing # {}
  /\ \A c \in closing : pc[c] \in {"clear", "tail", "wake", "done"}
  /\ \A c \in Task : pc[c] \in {"clear", "done"} => c \in closing

(* Who is not current is on the run queue, once, unless it waits. *)
SchedInv ==
  /\ run_state[current] = "RUNNING" \/ (run_state[current] = "WAITING" /\ pc[current] = "sleep")
  /\ ready[current] = 0
  /\ \A t \in Task \ {current} :
       /\ run_state[t] \in {"SUSPENDED", "WAITING"}
       /\ ready[t] = IF run_state[t] = "WAITING" THEN 0 ELSE 1

(* Who waits is in the waiter or in the hands of the one that took it out. *)
SpotInv ==
  \A c \in Task :
    /\ pc[c] \in {"check", "wait", "go"} => waiter[Spot] = c
    /\ waiter[Spot] = c => pc[c] \in {"check", "wait", "go"} \/ run_state[c] = "WAITING"
    /\ run_state[c] = "WAITING" =>
         /\ pc[c] \in {"sleep", "woken", "load", "return"}
         /\ waiter[Spot] = c \/ pc[Other(c)] \in {"wake", "go"}
    /\ pc[c] \in {"wake", "go"} =>
         c = current /\ peer[c] = Other(c) /\ run_state[Other(c)] = "WAITING"
    /\ pc[c] = "wake" => waiter[Spot] = NULL

(* The hand-over of channel_window.  While _reader is set and the channel is
   open, its read has not come back from the waiter and no write is between
   filling the slot and waking it. *)
HandOverInv ==
  /\ reader => ret = 0
  /\ reader /\ ~ closed =>
       /\ ~ Outside(Reader)
       /\ pc[Reader] \notin {"tail", "wake"}
       /\ pc[Reader] \in {"sleep", "woken", "return"} => run_state[Reader] = "WAITING"
       /\ pc[Writer] \notin {"tail", "wake", "back", "go"}
  /\ pc[Writer] = "fill" /\ closed => ~ reader
  /\ pc[Reader] = "meet" /\ ~ closed => waiter[Spot] = Writer
  /\ monitor = "channel_window" /\ pc[Writer] = "tail" /\ ~ closed => waiter[Spot] = Reader
  /\ pc[Writer] = "back" => pc[Reader] \in {"loop", "park"} \/ waiter[Spot] = Reader

ControlInv ==
  /\ PlacesInv
  /\ CloseInv
  /\ SchedInv
  /\ SpotInv
  /\ HandOverInv
  /\ fault \in {"none", "assertion"}

-----------------------------------------------------------------------------
(* The inductive invariant: the values.  a is the last one that was put into
   the reader's hands or into the buffer. *)

(* The write that is going on has yet to hand over its value ... *)
Offers ==
  pc[Writer] \in {"loop", "load", "park", "check", "wait", "sleep", "slot", "woken", "fill", "meet"}

(* ... or has done so. *)
Delivered ==
  \/ pc[Writer] \in {"store", "back", "go"}
  \/ pc[Writer] \in {"tail", "wake"} /\ Writer \notin closing

(* What write reported, and what it knows. *)
WriterInv(a) ==
  /\ a <= next
  /\ \A n \in 1..MaxWrites :
       /\ fate[n] = "sent" => n <= a
       /\ fate[n] = "kept" => a < n /\ closed
       /\ n < next => fate[n] # "none"
       /\ n > next => fate[n] = "none"
  /\ Offers => fate[next] = "none" /\ a < next /\ (a = next - 1 \/ (closed /\ pc[Writer] = "loop"))
  /\ Delivered => fate[next] = "none" /\ a = next
  /\ pc[Writer] = "return" => next > 0 /\ (fate[next] = "kept" \/ (fate[next] = "none" /\ a = next))
  /\ Outside(Writer) => (closed \/ a = next) /\ (next > 0 => fate[next] # "none")
  /\ Offers \/ Delivered => next > 0

(* What read returned, and what it has in hand. *)
ReaderInv ==
  /\ \A i \in DOMAIN got : got[i] = i
  /\ InHand # 0 => InHand = Len(got) + 1
  /\ monitor = "ring_buffer" =>
       /\ pc[Reader] \in {"load", "park", "check", "wait", "sleep", "slot"} => ret = 0
       /\ pc[Reader] = "store" => ret # 0

(* The values that have left the window or the ring. *)
Out == Len(got) + (IF InHand = 0 THEN 0 ELSE 1)

(* How many times each counter of the ring was stored. *)
Read == Out - (IF pc[Reader] = "store" THEN 1 ELSE 0)
Written(a) == a - (IF pc[Writer] = "store" THEN 1 ELSE 0)

(* The window keeps nothing; the ring keeps the values after Out up to a,
   each in its slot. *)
StoreInv(a) ==
  /\ Out <= a
  /\ monitor = "channel_window" => a = Out /\ r = w
  /\ monitor = "ring_buffer" =>
       /\ (w - r) % Wrap = Written(a) - Read
       /\ Written(a) - Read \in 0..Size
       /\ r % Size = Read % Size
       /\ w % Size = Written(a) % Size
       /\ pc[Reader] \in {"slot", "store"} => Read < Written(a)
       /\ pc[Writer] \in {"slot", "store"} => Written(a) - Read < Size
       /\ \A n \in Out + 1..a : buffer[(n - 1) % Size] = n
       /\ \A k \in 0..Size - 1 : (\A n \in Out + 1..a : (n - 1) % Size # k) => buffer[k] = 0

Holds(a) == WriterInv(a) /\ StoreInv(a)

ValueInv == \E a \in 0..MaxWrites : Holds(a)

IInv == TypeOK /\ ControlInv /\ ReaderInv /\ ValueInv

(* What a step does with a: nothing, or it hands over the next value. *)
Carried == \E a \in 0..MaxWrites : Holds(a) /\ Holds(a)'

Accepts == \E a, b \in 0..MaxWrites : b = a + 1 /\ fate[b] = "none" /\ Holds(a) /\ Holds(b)'

-----------------------------------------------------------------------------
(* Steps of the processor and of the waiter *)

LEMMA Ends ==
  ASSUME NEW c \in Task
  PROVE  /\ Other(c) \in Task /\ Other(c) # c /\ Other(Other(c)) = c
         /\ \A t \in Task : t = c \/ t = Other(c)
         /\ Reader \in Task /\ Writer \in Task /\ Reader # Writer
         /\ Other(Reader) = Writer /\ Other(Writer) = Reader
         /\ c = Reader \/ c = Writer
         /\ Spot \in Slot /\ NULL \notin Task
  BY EndsAssumption, SpotAssumption, NullAssumption DEF Other

(* The parts of the type invariant about control. *)
LEMMA Types ==
  ASSUME TypeOK
  PROVE  /\ current \in Task
         /\ run_state \in [Task -> RunStates]
         /\ no_preempt_flag \in [Task -> BOOLEAN]
         /\ ready \in [Task -> Nat]
         /\ waiter \in [Slot -> Task \cup {NULL}]
         /\ pc \in [Task -> Places]
         /\ closed \in BOOLEAN
         /\ peer \in [Task -> Task \cup {NULL}]
         /\ closing \subseteq Task
         /\ reader \in BOOLEAN
  BY Zenon DEF TypeOK, EndTypeOK, WaiterTypeOK, DispatchTypeOK

(* Who is current, and not on its way into park, runs and is not in the waiter. *)
LEMMA Runner ==
  ASSUME TypeOK, ControlInv, NEW c \in Task, c = current, pc[c] # "sleep"
  PROVE  run_state[c] = "RUNNING"
  BY DEF ControlInv, SchedInv

(* A yield takes somebody who does not wait, if need be the one that yields. *)
LEMMA YieldEffect ==
  ASSUME TypeOK, ControlInv, NEW c \in Task, c = current, YieldNow(c)
  PROVE  /\ waiter' = waiter /\ fault' = fault
         /\ current' \in Task
         /\ run_state' \in [Task -> RunStates]
         /\ no_preempt_flag' \in [Task -> BOOLEAN]
         /\ ready' \in [Task -> Nat]
         /\ \A t \in Task : run_state'[t] = "WAITING" <=> run_state[t] = "WAITING"
         /\ run_state'[current'] = "RUNNING"
         /\ ready'[current'] = 0
         /\ \A t \in Task \ {current'} :
              /\ run_state'[t] \in {"SUSPENDED", "WAITING"}
              /\ ready'[t] = IF run_state'[t] = "WAITING" THEN 0 ELSE 1
         /\ run_state[Other(c)] = "WAITING" => current' = c
<1> DEFINE o == Other(c)
           q == Requeue(c, run_state, ready)
<1>1. o \in Task /\ o # c /\ \A t \in Task : t = c \/ t = o
  BY Ends
<1> HIDE DEF o
<1>2. /\ ready \in [Task -> Nat] /\ run_state \in [Task -> RunStates]
      /\ no_preempt_flag \in [Task -> BOOLEAN]
  BY Types
<1>3. /\ run_state[c] = "RUNNING" \/ (run_state[c] = "WAITING" /\ pc[c] = "sleep")
      /\ ready[c] = 0
      /\ run_state[o] \in {"SUSPENDED", "WAITING"}
      /\ ready[o] = IF run_state[o] = "WAITING" THEN 0 ELSE 1
  BY <1>1 DEF ControlInv, SchedInv
<1>4. run_state[c] = "RUNNING" \/ run_state[o] = "SUSPENDED"
  <2>1. SUFFICES ASSUME run_state[c] = "WAITING", run_state[o] = "WAITING", pc[c] = "sleep"
                 PROVE  FALSE
    BY <1>3
  <2>2. waiter[Spot] = c \/ pc[o] \in {"wake", "go"}
    BY <2>1 DEF ControlInv, SpotInv, o
  <2>3. waiter[Spot] = o \/ pc[c] \in {"wake", "go"}
    BY <1>1, <2>1, Ends DEF ControlInv, SpotInv, o
  <2>4. pc[o] \notin {"wake", "go"}
    BY <1>1, <2>1 DEF ControlInv, SpotInv
  <2> QED
    BY <1>1, <2>1, <2>2, <2>3, <2>4
<1>5. q = [t \in Task |-> IF t = c THEN (IF run_state[c] = "RUNNING" THEN 1 ELSE 0) ELSE ready[t]]
  <2>1. CASE run_state[c] = "RUNNING"
    <3>1. q = [ready EXCEPT ![c] = ready[c] + 1]
      BY <1>2, <2>1 DEF Requeue, Push
    <3>2. q = [ready EXCEPT ![c] = 1]
      BY <1>3, <3>1
    <3> HIDE DEF q
    <3> QED
      BY <1>2, <2>1, <3>2
  <2>2. CASE run_state[c] # "RUNNING"
    <3>1. q = ready
      BY <2>2 DEF Requeue
    <3> HIDE DEF q
    <3> QED
      BY <1>2, <1>3, <2>2, <3>1
  <2> QED
    BY <2>1, <2>2
<1> HIDE DEF q
<1>6. \E t \in Task : q[t] > 0
  BY <1>1, <1>3, <1>4, <1>5
<1>7. PICK n \in Task : RunNext(c, n, run_state, q, {}) /\ waiter' = waiter /\ fault' = fault
  <2>1. Queued(q) # {}
    BY <1>6 DEF Queued
  <2> QED
    BY <2>1 DEF YieldNow, q
<1>8. /\ q[n] > 0
      /\ ready' = Erase(q, n)
      /\ current' = n
      /\ run_state' = [t \in Task |->
           IF n # c /\ t = c /\ run_state[c] = "RUNNING" THEN "SUSPENDED"
           ELSE IF n # c /\ t = n THEN "RUNNING"
           ELSE run_state[t]]
      /\ no_preempt_flag' = [t \in Task |->
           IF t = n THEN FALSE ELSE IF t = c THEN TRUE ELSE no_preempt_flag[t]]
  BY <1>7 DEF RunNext, SwitchTo, Queued
<1>9. q[n] = 1
  BY <1>1, <1>3, <1>5, <1>8
<1>10. ready' = [q EXCEPT ![n] = 0]
  <2>1. q[n] - 1 = 0
    BY <1>9
  <2>2. ready' = [q EXCEPT ![n] = q[n] - 1]
    BY <1>5, <1>8 DEF Erase
  <2> QED
    BY <2>1, <2>2
<1>11. /\ run_state' \in [Task -> RunStates] /\ no_preempt_flag' \in [Task -> BOOLEAN]
       /\ ready' \in [Task -> Nat]
  <2>1. q \in [Task -> Nat]
    BY <1>2, <1>5
  <2>2. ready' \in [Task -> Nat]
    BY <1>10, <2>1
  <2>3. run_state' \in [Task -> RunStates]
    BY <1>2, <1>8 DEF RunStates
  <2>4. no_preempt_flag' \in [Task -> BOOLEAN]
    BY <1>2, <1>8
  <2> QED
    BY <2>2, <2>3, <2>4
<1>12. n = c => run_state[c] = "RUNNING"
  BY <1>5, <1>9
<1>13. n # c => n = o /\ run_state[o] = "SUSPENDED"
  BY <1>1, <1>3, <1>5, <1>9
<1>14. \A t \in Task : run_state'[t] = "WAITING" <=> run_state[t] = "WAITING"
  BY <1>1, <1>8, <1>12, <1>13
<1>15. run_state'[n] = "RUNNING" /\ ready'[n] = 0
  BY <1>1, <1>5, <1>8, <1>10, <1>12
<1>16. \A t \in Task \ {n} : /\ run_state'[t] \in {"SUSPENDED", "WAITING"}
                             /\ ready'[t] = IF run_state'[t] = "WAITING" THEN 0 ELSE 1
  BY <1>1, <1>3, <1>5, <1>8, <1>10, <1>12, <1>13
<1>17. run_state[o] = "WAITING" => n = c
  BY <1>13
<1> QED
  BY <1>7, <1>8, <1>11, <1>14, <1>15, <1>16, <1>17 DEF o

-----------------------------------------------------------------------------
(* Control: the steps that leave the processor and the waiter alone *)

(* c goes on at p and touches neither the queues nor the waiter. *)
Quiet(c, p) ==
  /\ fault = "none" /\ fault' = fault
  /\ c = current
  /\ pc' = [pc EXCEPT ![c] = p]
  /\ UNCHANGED <<current, run_state, no_preempt_flag, ready, waiter, peer, monitor>>

Settled == {"check", "wait", "go", "wake", "sleep"}

LEMMA QuietControl ==
  ASSUME TypeOK, ControlInv, NEW c \in Task, NEW p, Quiet(c, p),
         pc[c] \notin Settled, p \notin Settled
  PROVE  SchedInv' /\ SpotInv' /\ fault' \in {"none", "assertion"}
<1>1. /\ fault' = "none" /\ c = current /\ pc' = [pc EXCEPT ![c] = p]
      /\ UNCHANGED <<current, run_state, no_preempt_flag, ready, waiter, peer, monitor>>
  BY DEF Quiet
<1>2. pc \in [Task -> Places] /\ run_state[c] = "RUNNING"
  BY <1>1, Types, Runner DEF Settled
<1>3. SchedInv'
  BY <1>1, <1>2 DEF ControlInv, SchedInv
<1>4. SpotInv'
  BY <1>1, <1>2, Ends DEF ControlInv, SpotInv, Settled
<1> QED
  BY <1>1, <1>3, <1>4

(* An assertion leaves everything where it was. *)
LEMMA AssertionControl ==
  ASSUME ControlInv, AssertionFails, UNCHANGED <<reader, monitor>>
  PROVE  ControlInv'
<1>1. /\ fault' = "assertion"
      /\ UNCHANGED <<current, run_state, no_preempt_flag, ready, waiter, pc, closed, ret, peer,
                     closing, reader, monitor>>
  BY DEF AssertionFails, Fail, dispatchVars, endVars
<1> QED
  BY <1>1 DEF ControlInv, PlacesInv, CloseInv, SchedInv, SpotInv, HandOverInv, Outside

LEMMA WindowReadControl ==
  ASSUME TypeOK, ControlInv, WindowRead, monitor = "channel_window", ~ reader, UNCHANGED monitor
  PROVE  ControlInv'
<1>1. /\ Quiet(Reader, "loop")
      /\ pc[Reader] = "idle" /\ UNCHANGED <<closed, closing>> /\ reader' = TRUE /\ ret' = 0
  BY DEF Quiet, WindowRead, At, Running, Goto, waiterVars, dispatchVars, endVars
<1>2. /\ Reader \in Task /\ pc \in [Task -> Places] /\ pc' = [pc EXCEPT ![Reader] = "loop"]
      /\ UNCHANGED <<current, run_state, waiter, monitor>> /\ run_state[Reader] = "RUNNING"
  BY <1>1, Types, Ends, Runner, EndsAssumption DEF Quiet
<1>3. SchedInv' /\ SpotInv' /\ fault' \in {"none", "assertion"}
  BY <1>1, <1>2, QuietControl DEF Settled
<1>4. PlacesInv'
  BY <1>1, <1>2, EndsAssumption DEF ControlInv, PlacesInv
<1>5. CloseInv'
  BY <1>1, <1>2, EndsAssumption DEF ControlInv, CloseInv
<1>6. pc[Writer] = "fill" => ~ closed
  BY <1>1, EndsAssumption, Types DEF ControlInv, CloseInv
<1>7. HandOverInv'
  BY <1>1, <1>2, <1>6, EndsAssumption, NullAssumption DEF ControlInv, HandOverInv, CloseInv, SpotInv,
       PlacesInv, SchedInv, Outside, Other
<1> QED
  BY <1>3, <1>4, <1>5, <1>7 DEF ControlInv

LEMMA WindowWriteControl ==
  ASSUME TypeOK, ControlInv, WindowWrite, monitor = "channel_window", UNCHANGED monitor
  PROVE  ControlInv'
<1>1. /\ Quiet(Writer, "loop")
      /\ pc[Writer] = "idle" /\ UNCHANGED <<closed, ret, closing, reader>>
  BY DEF Quiet, WindowWrite, At, Running, Goto, waiterVars, dispatchVars, endVars
<1>2. /\ Writer \in Task /\ pc \in [Task -> Places] /\ pc' = [pc EXCEPT ![Writer] = "loop"]
      /\ UNCHANGED <<current, run_state, waiter, monitor>> /\ run_state[Writer] = "RUNNING"
  BY <1>1, Types, Ends, Runner, EndsAssumption DEF Quiet
<1>3. SchedInv' /\ SpotInv' /\ fault' \in {"none", "assertion"}
  BY <1>1, <1>2, QuietControl DEF Settled
<1>4. PlacesInv'
  BY <1>1, <1>2, EndsAssumption DEF ControlInv, PlacesInv
<1>5. CloseInv'
  BY <1>1, <1>2, EndsAssumption DEF ControlInv, CloseInv
<1>6. HandOverInv'
  BY <1>1, <1>2, EndsAssumption, NullAssumption DEF ControlInv, HandOverInv, CloseInv, SpotInv,
       PlacesInv, SchedInv, Outside, Other
<1> QED
  BY <1>3, <1>4, <1>5, <1>6 DEF ControlInv

LEMMA LoopControl ==
  ASSUME TypeOK, ControlInv, NEW c \in Task, Loop(c), monitor = "channel_window",
         UNCHANGED monitor
  PROVE  ControlInv'
<1>1. /\ Quiet(c, IF closed THEN "return" ELSE "park")
      /\ pc[c] = "loop" /\ UNCHANGED <<closed, ret, closing, reader>>
  BY DEF Quiet, Loop, At, Running, Goto, waiterVars, dispatchVars, endVars
<1>2. /\ c \in Task
      /\ pc \in [Task -> Places]
      /\ pc' = [pc EXCEPT ![c] = IF closed THEN "return" ELSE "park"]
      /\ UNCHANGED <<current, run_state, waiter, monitor>> /\ run_state[c] = "RUNNING"
  BY <1>1, Types, Ends, Runner, EndsAssumption DEF Quiet
<1>3. SchedInv' /\ SpotInv' /\ fault' \in {"none", "assertion"}
  BY <1>1, <1>2, QuietControl DEF Settled
<1>4. PlacesInv'
  BY <1>1, <1>2, EndsAssumption DEF ControlInv, PlacesInv
<1>5. CloseInv'
  BY <1>1, <1>2, EndsAssumption DEF ControlInv, CloseInv
<1>6. HandOverInv'
  <2>1. CASE c = Writer
    BY <1>1, <1>2, <2>1, EndsAssumption DEF ControlInv, HandOverInv, Outside
  <2>2. CASE c = Reader
    <3>1. pc[Writer] = "back" => ~ closed
      BY <1>1, <2>2, EndsAssumption, Types DEF ControlInv, CloseInv
    <3> QED
      BY <1>1, <1>2, <2>2, <3>1, EndsAssumption DEF ControlInv, HandOverInv, Outside
  <2> QED
    BY <2>1, <2>2, EndsAssumption
<1> QED
  BY <1>3, <1>4, <1>5, <1>6 DEF ControlInv

LEMMA ReadWokenControl ==
  ASSUME TypeOK, ControlInv, ReadWoken, monitor = "channel_window", ~ reader, UNCHANGED monitor
  PROVE  ControlInv'
<1>1. /\ Quiet(Reader, "tail")
      /\ pc[Reader] = "woken" /\ UNCHANGED <<closed, ret, closing, reader>>
  BY DEF Quiet, ReadWoken, At, Running, Goto, waiterVars, dispatchVars, endVars
<1>2. /\ Reader \in Task /\ pc \in [Task -> Places] /\ pc' = [pc EXCEPT ![Reader] = "tail"]
      /\ UNCHANGED <<current, run_state, waiter, monitor>> /\ run_state[Reader] = "RUNNING"
  BY <1>1, Types, Ends, Runner, EndsAssumption DEF Quiet
<1>3. SchedInv' /\ SpotInv' /\ fault' \in {"none", "assertion"}
  BY <1>1, <1>2, QuietControl DEF Settled
<1>4. PlacesInv'
  BY <1>1, <1>2, EndsAssumption DEF ControlInv, PlacesInv
<1>5. CloseInv'
  BY <1>1, <1>2, EndsAssumption DEF ControlInv, CloseInv
<1>6. HandOverInv'
  BY <1>1, <1>2, EndsAssumption, NullAssumption DEF ControlInv, HandOverInv, CloseInv, SpotInv,
       PlacesInv, SchedInv, Outside, Other
<1> QED
  BY <1>3, <1>4, <1>5, <1>6 DEF ControlInv

LEMMA WriteWokenClosedControl ==
  ASSUME TypeOK, ControlInv, WriteWoken, monitor = "channel_window", closed, UNCHANGED monitor
  PROVE  ControlInv'
<1>1. /\ Quiet(Writer, "return")
      /\ pc[Writer] = "woken" /\ UNCHANGED <<closed, ret, closing>> /\ reader' = FALSE
  BY DEF Quiet, WriteWoken, At, Running, Goto, waiterVars, dispatchVars, endVars
<1>2. /\ Writer \in Task /\ pc \in [Task -> Places] /\ pc' = [pc EXCEPT ![Writer] = "return"]
      /\ UNCHANGED <<current, run_state, waiter, monitor>> /\ run_state[Writer] = "RUNNING"
  BY <1>1, Types, Ends, Runner, EndsAssumption DEF Quiet
<1>3. SchedInv' /\ SpotInv' /\ fault' \in {"none", "assertion"}
  BY <1>1, <1>2, QuietControl DEF Settled
<1>4. PlacesInv'
  BY <1>1, <1>2, EndsAssumption DEF ControlInv, PlacesInv
<1>5. CloseInv'
  BY <1>1, <1>2, EndsAssumption DEF ControlInv, CloseInv
<1>6. HandOverInv'
  BY <1>1, <1>2, EndsAssumption, NullAssumption DEF ControlInv, HandOverInv, CloseInv, SpotInv,
       PlacesInv, SchedInv, Outside, Other
<1> QED
  BY <1>3, <1>4, <1>5, <1>6 DEF ControlInv

LEMMA WriteWokenOpenControl ==
  ASSUME TypeOK, ControlInv, WriteWoken, monitor = "channel_window", ~ closed, UNCHANGED monitor
  PROVE  ControlInv'
<1>1. /\ Quiet(Writer, "fill")
      /\ pc[Writer] = "woken" /\ UNCHANGED <<closed, ret, closing, reader>>
  BY DEF Quiet, WriteWoken, At, Running, Goto, waiterVars, dispatchVars, endVars
<1>2. /\ Writer \in Task /\ pc \in [Task -> Places] /\ pc' = [pc EXCEPT ![Writer] = "fill"]
      /\ UNCHANGED <<current, run_state, waiter, monitor>> /\ run_state[Writer] = "RUNNING"
  BY <1>1, Types, Ends, Runner, EndsAssumption DEF Quiet
<1>3. SchedInv' /\ SpotInv' /\ fault' \in {"none", "assertion"}
  BY <1>1, <1>2, QuietControl DEF Settled
<1>4. PlacesInv'
  BY <1>1, <1>2, EndsAssumption DEF ControlInv, PlacesInv
<1>5. CloseInv'
  BY <1>1, <1>2, EndsAssumption DEF ControlInv, CloseInv
<1>6. HandOverInv'
  BY <1>1, <1>2, EndsAssumption, NullAssumption DEF ControlInv, HandOverInv, CloseInv, SpotInv,
       PlacesInv, SchedInv, Outside, Other
<1> QED
  BY <1>3, <1>4, <1>5, <1>6 DEF ControlInv

LEMMA WriteFillControl ==
  ASSUME TypeOK, ControlInv, WriteFill, monitor = "channel_window", reader, UNCHANGED monitor
  PROVE  ControlInv'
<1>1. /\ Quiet(Writer, "back")
      /\ pc[Writer] = "fill" /\ UNCHANGED <<closed, closing>> /\ reader' = FALSE
  BY DEF Quiet, WriteFill, At, Running, Goto, waiterVars, dispatchVars, endVars, Filled
<1>2. /\ Writer \in Task /\ pc \in [Task -> Places] /\ pc' = [pc EXCEPT ![Writer] = "back"]
      /\ UNCHANGED <<current, run_state, waiter, monitor>> /\ run_state[Writer] = "RUNNING"
  BY <1>1, Types, Ends, Runner, EndsAssumption DEF Quiet
<1>3. SchedInv' /\ SpotInv' /\ fault' \in {"none", "assertion"}
  BY <1>1, <1>2, QuietControl DEF Settled
<1>4. PlacesInv'
  BY <1>1, <1>2, EndsAssumption DEF ControlInv, PlacesInv
<1>5. CloseInv'
  BY <1>1, <1>2, EndsAssumption DEF ControlInv, CloseInv
<1>6. HandOverInv'
  <2> ~ closed
    BY <1>1 DEF ControlInv, HandOverInv
  <2>1. waiter[Spot] # Writer
    BY <1>1, <1>2 DEF ControlInv, SpotInv
  <2>2. pc[Reader] \in {"loop", "park"} \/ waiter[Spot] = Reader
    <3>1. run_state[Reader] = "WAITING" => waiter[Spot] = Reader
      BY <1>1, EndsAssumption DEF ControlInv, SpotInv, Other
    <3>2. pc[Reader] \in {"check", "wait", "go"} => waiter[Spot] = Reader
      BY EndsAssumption DEF ControlInv, SpotInv
    <3>3. pc[Reader] \in {"loop", "park", "check", "wait", "go"} \/ run_state[Reader] = "WAITING"
      <4>1. pc[Reader] # "meet"
        BY <2>1 DEF ControlInv, HandOverInv
      <4>2. pc[Reader] \notin {"idle", "over", "clear", "done", "tail", "wake"}
        BY DEF ControlInv, HandOverInv, Outside
      <4>3. pc[Reader] \notin {"load", "slot", "store", "fill", "back"} /\ pc[Reader] \in Places
        BY <1>2, EndsAssumption DEF ControlInv, PlacesInv
      <4>4. pc[Reader] \in {"sleep", "woken", "return"} => run_state[Reader] = "WAITING"
        BY DEF ControlInv, HandOverInv
      <4> QED
        BY <4>1, <4>2, <4>3, <4>4 DEF Places
    <3> QED
      BY <3>1, <3>2, <3>3
  <2> QED
    BY <1>1, <1>2, <2>1, <2>2, EndsAssumption DEF ControlInv, HandOverInv, Outside
<1> QED
  BY <1>3, <1>4, <1>5, <1>6 DEF ControlInv

LEMMA WriteMeetFillsControl ==
  ASSUME TypeOK, ControlInv, WriteMeet, monitor = "channel_window",
         waiter[Spot] # NULL, reader, UNCHANGED monitor
  PROVE  ControlInv'
<1>1. /\ Quiet(Writer, "tail")
      /\ pc[Writer] = "meet" /\ UNCHANGED <<closed, closing>> /\ reader' = FALSE
  BY DEF Quiet, WriteMeet, At, Running, Goto, waiterVars, dispatchVars, endVars, Filled
<1>2. /\ Writer \in Task /\ pc \in [Task -> Places] /\ pc' = [pc EXCEPT ![Writer] = "tail"]
      /\ UNCHANGED <<current, run_state, waiter, monitor>> /\ run_state[Writer] = "RUNNING"
  BY <1>1, Types, Ends, Runner, EndsAssumption DEF Quiet
<1>3. SchedInv' /\ SpotInv' /\ fault' \in {"none", "assertion"}
  BY <1>1, <1>2, QuietControl DEF Settled
<1>4. PlacesInv'
  BY <1>1, <1>2, EndsAssumption DEF ControlInv, PlacesInv
<1>5. CloseInv'
  BY <1>1, <1>2, EndsAssumption DEF ControlInv, CloseInv
<1>6. HandOverInv'
  <2>1. waiter[Spot] = Reader
    <3>1. waiter[Spot] # Writer
      BY <1>1, <1>2 DEF ControlInv, SpotInv
    <3> QED
      BY <3>1, EndsAssumption, SpotAssumption, Types
  <2> QED
    BY <1>1, <1>2, <2>1, EndsAssumption DEF ControlInv, HandOverInv, Outside
<1> QED
  BY <1>3, <1>4, <1>5, <1>6 DEF ControlInv

LEMMA ClearControl ==
  ASSUME TypeOK, ControlInv, NEW c \in Task, Clear(c), monitor = "channel_window",
         UNCHANGED monitor
  PROVE  ControlInv'
<1>1. /\ Quiet(c, "tail")
      /\ pc[c] = "clear" /\ UNCHANGED <<closed, ret, closing>> /\ reader' = FALSE
  BY DEF Quiet, Clear, At, Running, Goto, waiterVars, dispatchVars, endVars
<1>2. /\ c \in Task /\ pc \in [Task -> Places] /\ pc' = [pc EXCEPT ![c] = "tail"]
      /\ UNCHANGED <<current, run_state, waiter, monitor>> /\ run_state[c] = "RUNNING"
  BY <1>1, Types, Ends, Runner, EndsAssumption DEF Quiet
<1>3. SchedInv' /\ SpotInv' /\ fault' \in {"none", "assertion"}
  BY <1>1, <1>2, QuietControl DEF Settled
<1>4. PlacesInv'
  BY <1>1, <1>2, EndsAssumption DEF ControlInv, PlacesInv
<1>5. CloseInv'
  BY <1>1, <1>2, EndsAssumption DEF ControlInv, CloseInv
<1>6. HandOverInv'
  BY <1>1, <1>2, EndsAssumption, NullAssumption DEF ControlInv, HandOverInv, CloseInv, SpotInv,
       PlacesInv, SchedInv, Outside, Other
<1> QED
  BY <1>3, <1>4, <1>5, <1>6 DEF ControlInv

LEMMA RingReadControl ==
  ASSUME TypeOK, ControlInv, RingRead, monitor = "ring_buffer", UNCHANGED <<reader, monitor>>
  PROVE  ControlInv'
<1>1. /\ Quiet(Reader, "load")
      /\ pc[Reader] = "idle" /\ UNCHANGED <<closed, closing, reader>>
  BY DEF Quiet, RingRead, At, Running, Goto, waiterVars, dispatchVars, endVars
<1>2. /\ Reader \in Task /\ pc \in [Task -> Places] /\ pc' = [pc EXCEPT ![Reader] = "load"]
      /\ UNCHANGED <<current, run_state, waiter, monitor>> /\ run_state[Reader] = "RUNNING"
  BY <1>1, Types, Ends, Runner, EndsAssumption DEF Quiet
<1>3. SchedInv' /\ SpotInv' /\ fault' \in {"none", "assertion"}
  BY <1>1, <1>2, QuietControl DEF Settled
<1>4. PlacesInv'
  BY <1>1, <1>2, EndsAssumption DEF ControlInv, PlacesInv
<1>5. CloseInv'
  BY <1>1, <1>2, EndsAssumption DEF ControlInv, CloseInv
<1>6. HandOverInv'
  BY <1>1, <1>2, EndsAssumption, NullAssumption DEF ControlInv, HandOverInv, CloseInv, SpotInv,
       PlacesInv, SchedInv, Outside, Other
<1> QED
  BY <1>3, <1>4, <1>5, <1>6 DEF ControlInv

LEMMA RingWriteControl ==
  ASSUME TypeOK, ControlInv, RingWrite, monitor = "ring_buffer", UNCHANGED <<reader, monitor>>
  PROVE  ControlInv'
<1>1. /\ Quiet(Writer, IF closed THEN "return" ELSE "load")
      /\ pc[Writer] = "idle" /\ UNCHANGED <<closed, closing, reader>>
  BY DEF Quiet, RingWrite, At, Running, Goto, waiterVars, dispatchVars, endVars
<1>2. /\ Writer \in Task
      /\ pc \in [Task -> Places]
      /\ pc' = [pc EXCEPT ![Writer] = IF closed THEN "return" ELSE "load"]
      /\ UNCHANGED <<current, run_state, waiter, monitor>> /\ run_state[Writer] = "RUNNING"
  BY <1>1, Types, Ends, Runner, EndsAssumption DEF Quiet
<1>3. SchedInv' /\ SpotInv' /\ fault' \in {"none", "assertion"}
  BY <1>1, <1>2, QuietControl DEF Settled
<1>4. PlacesInv'
  BY <1>1, <1>2, EndsAssumption DEF ControlInv, PlacesInv
<1>5. CloseInv'
  BY <1>1, <1>2, EndsAssumption DEF ControlInv, CloseInv
<1>6. HandOverInv'
  BY <1>1, <1>2, EndsAssumption, NullAssumption DEF ControlInv, HandOverInv, CloseInv, SpotInv,
       PlacesInv, SchedInv, Outside, Other
<1> QED
  BY <1>3, <1>4, <1>5, <1>6 DEF ControlInv

LEMMA RingLoadControl ==
  ASSUME TypeOK, ControlInv, NEW c \in Task, RingLoad(c), monitor = "ring_buffer",
         UNCHANGED <<reader, monitor>>
  PROVE  ControlInv'
<1>1. /\ Quiet(c, IF MustWait(c) THEN "park" ELSE "slot")
      /\ pc[c] = "load" /\ UNCHANGED <<closed, closing, reader>>
  BY DEF Quiet, RingLoad, At, Running, Goto, waiterVars, dispatchVars, endVars
<1>2. /\ c \in Task
      /\ pc \in [Task -> Places]
      /\ pc' = [pc EXCEPT ![c] = IF MustWait(c) THEN "park" ELSE "slot"]
      /\ UNCHANGED <<current, run_state, waiter, monitor>> /\ run_state[c] = "RUNNING"
  BY <1>1, Types, Ends, Runner, EndsAssumption DEF Quiet
<1>3. SchedInv' /\ SpotInv' /\ fault' \in {"none", "assertion"}
  BY <1>1, <1>2, QuietControl DEF Settled
<1>4. PlacesInv'
  BY <1>1, <1>2, EndsAssumption DEF ControlInv, PlacesInv
<1>5. CloseInv'
  BY <1>1, <1>2, EndsAssumption DEF ControlInv, CloseInv
<1>6. HandOverInv'
  BY <1>1, <1>2, EndsAssumption, NullAssumption DEF ControlInv, HandOverInv, CloseInv, SpotInv,
       PlacesInv, SchedInv, Outside, Other
<1> QED
  BY <1>3, <1>4, <1>5, <1>6 DEF ControlInv

LEMMA TakeControl ==
  ASSUME TypeOK, ControlInv, Take, monitor = "ring_buffer", UNCHANGED <<reader, monitor>>
  PROVE  ControlInv'
<1>1. /\ Quiet(Reader, "store")
      /\ pc[Reader] = "slot" /\ UNCHANGED <<closed, closing, reader>>
  BY DEF Quiet, Take, At, Running, Goto, waiterVars, dispatchVars, endVars
<1>2. /\ Reader \in Task /\ pc \in [Task -> Places] /\ pc' = [pc EXCEPT ![Reader] = "store"]
      /\ UNCHANGED <<current, run_state, waiter, monitor>> /\ run_state[Reader] = "RUNNING"
  BY <1>1, Types, Ends, Runner, EndsAssumption DEF Quiet
<1>3. SchedInv' /\ SpotInv' /\ fault' \in {"none", "assertion"}
  BY <1>1, <1>2, QuietControl DEF Settled
<1>4. PlacesInv'
  BY <1>1, <1>2, EndsAssumption DEF ControlInv, PlacesInv
<1>5. CloseInv'
  BY <1>1, <1>2, EndsAssumption DEF ControlInv, CloseInv
<1>6. HandOverInv'
  BY <1>1, <1>2, EndsAssumption, NullAssumption DEF ControlInv, HandOverInv, CloseInv, SpotInv,
       PlacesInv, SchedInv, Outside, Other
<1> QED
  BY <1>3, <1>4, <1>5, <1>6 DEF ControlInv

LEMMA PutControl ==
  ASSUME TypeOK, ControlInv, Put, monitor = "ring_buffer", UNCHANGED <<reader, monitor>>
  PROVE  ControlInv'
<1>1. /\ Quiet(Writer, "store")
      /\ pc[Writer] = "slot" /\ UNCHANGED <<closed, closing, reader>>
  BY DEF Quiet, Put, At, Running, Goto, waiterVars, dispatchVars, endVars
<1>2. /\ Writer \in Task /\ pc \in [Task -> Places] /\ pc' = [pc EXCEPT ![Writer] = "store"]
      /\ UNCHANGED <<current, run_state, waiter, monitor>> /\ run_state[Writer] = "RUNNING"
  BY <1>1, Types, Ends, Runner, EndsAssumption DEF Quiet
<1>3. SchedInv' /\ SpotInv' /\ fault' \in {"none", "assertion"}
  BY <1>1, <1>2, QuietControl DEF Settled
<1>4. PlacesInv'
  BY <1>1, <1>2, EndsAssumption DEF ControlInv, PlacesInv
<1>5. CloseInv'
  BY <1>1, <1>2, EndsAssumption DEF ControlInv, CloseInv
<1>6. HandOverInv'
  BY <1>1, <1>2, EndsAssumption, NullAssumption DEF ControlInv, HandOverInv, CloseInv, SpotInv,
       PlacesInv, SchedInv, Outside, Other
<1> QED
  BY <1>3, <1>4, <1>5, <1>6 DEF ControlInv

LEMMA StoreControl ==
  ASSUME TypeOK, ControlInv, NEW c \in Task, Store(c), monitor = "ring_buffer",
         UNCHANGED <<reader, monitor>>
  PROVE  ControlInv'
<1>1. /\ Quiet(c, "tail")
      /\ pc[c] = "store" /\ UNCHANGED <<closed, closing, reader>>
  BY DEF Quiet, Store, At, Running, Goto, waiterVars, dispatchVars, endVars
<1>2. /\ c \in Task /\ pc \in [Task -> Places] /\ pc' = [pc EXCEPT ![c] = "tail"]
      /\ UNCHANGED <<current, run_state, waiter, monitor>> /\ run_state[c] = "RUNNING"
  BY <1>1, Types, Ends, Runner, EndsAssumption DEF Quiet
<1>3. SchedInv' /\ SpotInv' /\ fault' \in {"none", "assertion"}
  BY <1>1, <1>2, QuietControl DEF Settled
<1>4. PlacesInv'
  BY <1>1, <1>2, EndsAssumption DEF ControlInv, PlacesInv
<1>5. CloseInv'
  BY <1>1, <1>2, EndsAssumption DEF ControlInv, CloseInv
<1>6. HandOverInv'
  BY <1>1, <1>2, EndsAssumption, NullAssumption DEF ControlInv, HandOverInv, CloseInv, SpotInv,
       PlacesInv, SchedInv, Outside, Other
<1> QED
  BY <1>3, <1>4, <1>5, <1>6 DEF ControlInv

LEMMA ReadReturnsControl ==
  ASSUME TypeOK, ControlInv, ReadReturns, UNCHANGED <<reader, monitor>>
  PROVE  ControlInv'
<1>1. /\ Quiet(Reader, IF ret = 0 THEN "over" ELSE "idle")
      /\ pc[Reader] = "return" /\ UNCHANGED <<closed, ret, closing, reader>>
  BY DEF Quiet, ReadReturns, At, Running, Goto, waiterVars, dispatchVars, endVars
<1>2. /\ Reader \in Task
      /\ pc \in [Task -> Places]
      /\ pc' = [pc EXCEPT ![Reader] = IF ret = 0 THEN "over" ELSE "idle"]
      /\ UNCHANGED <<current, run_state, waiter, monitor>> /\ run_state[Reader] = "RUNNING"
  BY <1>1, Types, Ends, Runner, EndsAssumption DEF Quiet
<1>3. SchedInv' /\ SpotInv' /\ fault' \in {"none", "assertion"}
  BY <1>1, <1>2, QuietControl DEF Settled
<1>4. PlacesInv'
  BY <1>1, <1>2, EndsAssumption DEF ControlInv, PlacesInv
<1>5. CloseInv'
  BY <1>1, <1>2, EndsAssumption DEF ControlInv, CloseInv
<1>6. HandOverInv'
  BY <1>1, <1>2, EndsAssumption, NullAssumption DEF ControlInv, HandOverInv, CloseInv, SpotInv,
       PlacesInv, SchedInv, Outside, Other
<1> QED
  BY <1>3, <1>4, <1>5, <1>6 DEF ControlInv

LEMMA WriteReturnsControl ==
  ASSUME TypeOK, ControlInv, WriteReturns, UNCHANGED <<reader, monitor>>
  PROVE  ControlInv'
<1>1. /\ Quiet(Writer, "idle")
      /\ pc[Writer] = "return" /\ UNCHANGED <<closed, ret, closing, reader>>
  BY DEF Quiet, WriteReturns, At, Running, Goto, waiterVars, dispatchVars, endVars
<1>2. /\ Writer \in Task /\ pc \in [Task -> Places] /\ pc' = [pc EXCEPT ![Writer] = "idle"]
      /\ UNCHANGED <<current, run_state, waiter, monitor>> /\ run_state[Writer] = "RUNNING"
  BY <1>1, Types, Ends, Runner, EndsAssumption DEF Quiet
<1>3. SchedInv' /\ SpotInv' /\ fault' \in {"none", "assertion"}
  BY <1>1, <1>2, QuietControl DEF Settled
<1>4. PlacesInv'
  BY <1>1, <1>2, EndsAssumption DEF ControlInv, PlacesInv
<1>5. CloseInv'
  BY <1>1, <1>2, EndsAssumption DEF ControlInv, CloseInv
<1>6. HandOverInv'
  BY <1>1, <1>2, EndsAssumption, NullAssumption DEF ControlInv, HandOverInv, CloseInv, SpotInv,
       PlacesInv, SchedInv, Outside, Other
<1> QED
  BY <1>3, <1>4, <1>5, <1>6 DEF ControlInv

LEMMA UnparkTailLeavesControl ==
  ASSUME TypeOK, ControlInv, NEW c \in Task, UnparkTail(c), ~ Unparks,
         UNCHANGED <<reader, monitor>>
  PROVE  ControlInv'
<1>1. /\ Quiet(c, IF c \in closing THEN "done" ELSE "return")
      /\ pc[c] = "tail" /\ UNCHANGED <<closed, ret, closing, reader>> /\ waiter[Spot] = NULL
  BY DEF Quiet, UnparkTail, At, Running, Goto, waiterVars, dispatchVars, endVars, Unparks, Leave
<1>2. /\ c \in Task
      /\ pc \in [Task -> Places]
      /\ pc' = [pc EXCEPT ![c] = IF c \in closing THEN "done" ELSE "return"]
      /\ UNCHANGED <<current, run_state, waiter, monitor>> /\ run_state[c] = "RUNNING"
  BY <1>1, Types, Ends, Runner, EndsAssumption DEF Quiet
<1>3. SchedInv' /\ SpotInv' /\ fault' \in {"none", "assertion"}
  BY <1>1, <1>2, QuietControl DEF Settled
<1>4. PlacesInv'
  BY <1>1, <1>2, EndsAssumption DEF ControlInv, PlacesInv
<1>5. CloseInv'
  BY <1>1, <1>2, EndsAssumption DEF ControlInv, CloseInv
<1>6. HandOverInv'
  BY <1>1, <1>2, EndsAssumption, NullAssumption DEF ControlInv, HandOverInv, CloseInv, SpotInv,
       PlacesInv, SchedInv, Outside, Other
<1> QED
  BY <1>3, <1>4, <1>5, <1>6 DEF ControlInv

LEMMA CloseControl ==
  ASSUME TypeOK, ControlInv, NEW c \in Task, NEW first \in {"clear", "tail"},
         Close(c, first), first = "clear" <=> monitor = "channel_window",
         UNCHANGED <<reader, monitor>>
  PROVE  ControlInv'
<1>1. /\ Quiet(c, first)
      /\ pc[c] \in {"idle", "over"} /\ UNCHANGED <<ret, reader>>
      /\ closed' = TRUE /\ closing' = closing \cup {c}
  BY DEF Quiet, Close, At, Running, Goto, waiterVars, dispatchVars, endVars
<1>2. /\ c \in Task /\ pc \in [Task -> Places] /\ pc' = [pc EXCEPT ![c] = first]
      /\ UNCHANGED <<current, run_state, waiter, monitor>> /\ run_state[c] = "RUNNING"
  BY <1>1, Types, Ends, Runner, EndsAssumption DEF Quiet
<1>3. SchedInv' /\ SpotInv' /\ fault' \in {"none", "assertion"}
  BY <1>1, <1>2, QuietControl DEF Settled
<1>4. PlacesInv'
  BY <1>1, <1>2, EndsAssumption DEF ControlInv, PlacesInv
<1>5. CloseInv'
  BY <1>1, <1>2, EndsAssumption DEF ControlInv, CloseInv
<1>6. HandOverInv'
  BY <1>1, <1>2, EndsAssumption, NullAssumption DEF ControlInv, HandOverInv, CloseInv, SpotInv,
       PlacesInv, SchedInv, Outside, Other
<1> QED
  BY <1>3, <1>4, <1>5, <1>6 DEF ControlInv

-----------------------------------------------------------------------------
(* Control: the steps that yield *)

(* c yields and goes on at p when it is taken again. *)
Yields(c, p) ==
  /\ fault = "none"
  /\ c = current
  /\ YieldNow(c)
  /\ pc' = [pc EXCEPT ![c] = p]
  /\ UNCHANGED <<closed, ret, peer, closing, reader, monitor>>

LEMMA YieldsControl ==
  ASSUME TypeOK, ControlInv, NEW c \in Task, NEW p, Yields(c, p),
         \/ p = pc[c]
         \/ /\ pc[c] \notin {"check", "wait", "go", "wake"}
            /\ p \notin {"check", "wait", "go", "wake"}
            /\ run_state[c] = "WAITING" => p \in {"woken", "load"}
  PROVE  /\ SchedInv' /\ SpotInv' /\ fault' \in {"none", "assertion"}
         /\ waiter' = waiter
         /\ \A t \in Task : run_state'[t] = "WAITING" <=> run_state[t] = "WAITING"
<1>1. /\ fault = "none" /\ c = current /\ pc' = [pc EXCEPT ![c] = p] /\ YieldNow(c)
      /\ UNCHANGED <<closed, ret, peer, closing, reader, monitor>>
  BY DEF Yields
<1>2. pc \in [Task -> Places]
  BY Types
<1>3. /\ waiter' = waiter /\ fault' = fault
      /\ current' \in Task
      /\ \A t \in Task : run_state'[t] = "WAITING" <=> run_state[t] = "WAITING"
      /\ run_state'[current'] = "RUNNING"
      /\ ready'[current'] = 0
      /\ \A t \in Task \ {current'} :
           /\ run_state'[t] \in {"SUSPENDED", "WAITING"}
           /\ ready'[t] = IF run_state'[t] = "WAITING" THEN 0 ELSE 1
      /\ run_state[Other(c)] = "WAITING" => current' = c
  BY <1>1, YieldEffect
<1>4. SchedInv'
  BY <1>3 DEF SchedInv
<1>5. SpotInv'
  BY <1>1, <1>2, <1>3, Ends DEF ControlInv, SpotInv
<1> QED
  BY <1>1, <1>3, <1>4, <1>5

LEMMA TickControl ==
  ASSUME TypeOK, ControlInv, Tick, UNCHANGED <<reader, monitor>>
  PROVE  ControlInv'
<1>1. Yields(current, pc[current]) /\ TRUE
  <2>1. fault = "none" /\ YieldNow(current) /\ UNCHANGED <<pc, closed, ret, peer, closing, reader, monitor>>
    BY DEF Tick, endVars
  <2>2. pc \in [Task -> Places]
    BY Types
  <2> QED
    BY <2>1, <2>2 DEF Yields
<1>2. /\ current \in Task
      /\ pc \in [Task -> Places]
      /\ pc' = [pc EXCEPT ![current] = pc[current]]
      /\ UNCHANGED <<closed, ret, closing, reader, monitor>>
      /\ pc[current] # "sleep" => run_state[current] = "RUNNING"
  BY <1>1, Types, Runner, EndsAssumption DEF Yields
<1>3. /\ SchedInv' /\ SpotInv' /\ fault' \in {"none", "assertion"} /\ waiter' = waiter
      /\ \A t \in Task : run_state'[t] = "WAITING" <=> run_state[t] = "WAITING"
  BY <1>1, <1>2, YieldsControl
<1>4. PlacesInv'
  BY <1>1, <1>2, EndsAssumption DEF ControlInv, PlacesInv
<1>5. CloseInv'
  BY <1>1, <1>2, EndsAssumption DEF ControlInv, CloseInv
<1>6. HandOverInv'
  BY <1>1, <1>2, <1>3, EndsAssumption DEF ControlInv, HandOverInv, Outside
<1> QED
  BY <1>3, <1>4, <1>5, <1>6 DEF ControlInv

LEMMA SleepControl ==
  ASSUME TypeOK, ControlInv, NEW c \in Task, NEW woken, Sleep(c, woken),
         woken = IF monitor = "channel_window" THEN "woken" ELSE "load",
         monitor \in {"channel_window", "ring_buffer"}, UNCHANGED <<reader, monitor>>
  PROVE  ControlInv'
<1>1. Yields(c, woken) /\ pc[c] = "sleep"
  BY DEF Yields, Sleep, At, Running, Goto, endVars
<1>2. /\ c \in Task /\ pc \in [Task -> Places] /\ pc' = [pc EXCEPT ![c] = woken]
      /\ UNCHANGED <<closed, ret, closing, reader, monitor>>
      /\ pc[c] # "sleep" => run_state[c] = "RUNNING"
  BY <1>1, Types, Runner, EndsAssumption DEF Yields
<1>3. /\ SchedInv' /\ SpotInv' /\ fault' \in {"none", "assertion"} /\ waiter' = waiter
      /\ \A t \in Task : run_state'[t] = "WAITING" <=> run_state[t] = "WAITING"
  BY <1>1, <1>2, YieldsControl
<1>4. PlacesInv'
  BY <1>1, <1>2, EndsAssumption DEF ControlInv, PlacesInv
<1>5. CloseInv'
  BY <1>1, <1>2, EndsAssumption DEF ControlInv, CloseInv
<1>6. HandOverInv'
  BY <1>1, <1>2, <1>3, EndsAssumption DEF ControlInv, HandOverInv, Outside
<1> QED
  BY <1>3, <1>4, <1>5, <1>6 DEF ControlInv

LEMMA UnparkTailYieldsControl ==
  ASSUME TypeOK, ControlInv, NEW c \in Task, UnparkTail(c), Unparks, ~ IsParked(Spot),
         UNCHANGED <<reader, monitor>>
  PROVE  ControlInv'
<1>1. Yields(c, "tail") /\ pc[c] = "tail"
  <2>1. /\ fault = "none" /\ c = current /\ pc[c] = "tail" /\ YieldNow(c)
        /\ UNCHANGED <<pc, closed, ret, peer, closing, reader, monitor>>
    BY DEF UnparkTail, At, Running
  <2>2. pc \in [Task -> Places]
    BY Types
  <2> QED
    BY <2>1, <2>2 DEF Yields
<1>2. /\ c \in Task /\ pc \in [Task -> Places] /\ pc' = [pc EXCEPT ![c] = "tail"]
      /\ UNCHANGED <<closed, ret, closing, reader, monitor>>
      /\ pc[c] # "sleep" => run_state[c] = "RUNNING"
  BY <1>1, Types, Runner, EndsAssumption DEF Yields
<1>3. /\ SchedInv' /\ SpotInv' /\ fault' \in {"none", "assertion"} /\ waiter' = waiter
      /\ \A t \in Task : run_state'[t] = "WAITING" <=> run_state[t] = "WAITING"
  BY <1>1, <1>2, YieldsControl
<1>4. PlacesInv'
  BY <1>1, <1>2, EndsAssumption DEF ControlInv, PlacesInv
<1>5. CloseInv'
  BY <1>1, <1>2, EndsAssumption DEF ControlInv, CloseInv
<1>6. HandOverInv'
  BY <1>1, <1>2, <1>3, EndsAssumption DEF ControlInv, HandOverInv, Outside
<1> QED
  BY <1>3, <1>4, <1>5, <1>6 DEF ControlInv

LEMMA ReadMeetYieldsControl ==
  ASSUME TypeOK, ControlInv, ReadMeet, monitor = "channel_window", ~ IsParked(Spot),
         UNCHANGED monitor
  PROVE  ControlInv'
<1>1. Yields(Reader, "loop") /\ pc[Reader] = "meet"
  BY DEF Yields, ReadMeet, At, Running, Goto, endVars, SwapOrYield
<1>2. /\ Reader \in Task /\ pc \in [Task -> Places] /\ pc' = [pc EXCEPT ![Reader] = "loop"]
      /\ UNCHANGED <<closed, ret, closing, reader, monitor>>
      /\ pc[Reader] # "sleep" => run_state[Reader] = "RUNNING"
  BY <1>1, Types, Runner, EndsAssumption DEF Yields
<1>3. /\ SchedInv' /\ SpotInv' /\ fault' \in {"none", "assertion"} /\ waiter' = waiter
      /\ \A t \in Task : run_state'[t] = "WAITING" <=> run_state[t] = "WAITING"
  BY <1>1, <1>2, YieldsControl
<1>4. PlacesInv'
  BY <1>1, <1>2, EndsAssumption DEF ControlInv, PlacesInv
<1>5. CloseInv'
  BY <1>1, <1>2, EndsAssumption DEF ControlInv, CloseInv
<1>6. HandOverInv'
  BY <1>1, <1>2, <1>3, EndsAssumption DEF ControlInv, HandOverInv, Outside
<1> QED
  BY <1>3, <1>4, <1>5, <1>6 DEF ControlInv

LEMMA WriteBackYieldsControl ==
  ASSUME TypeOK, ControlInv, WriteBack, monitor = "channel_window", ~ IsParked(Spot),
         UNCHANGED monitor
  PROVE  ControlInv'
<1>1. Yields(Writer, "back") /\ pc[Writer] = "back"
  BY DEF Yields, WriteBack, At, Running, Goto, endVars, SwapOrYield
<1>2. /\ Writer \in Task /\ pc \in [Task -> Places] /\ pc' = [pc EXCEPT ![Writer] = "back"]
      /\ UNCHANGED <<closed, ret, closing, reader, monitor>>
      /\ pc[Writer] # "sleep" => run_state[Writer] = "RUNNING"
  BY <1>1, Types, Runner, EndsAssumption DEF Yields
<1>3. /\ SchedInv' /\ SpotInv' /\ fault' \in {"none", "assertion"} /\ waiter' = waiter
      /\ \A t \in Task : run_state'[t] = "WAITING" <=> run_state[t] = "WAITING"
  BY <1>1, <1>2, YieldsControl
<1>4. PlacesInv'
  BY <1>1, <1>2, EndsAssumption DEF ControlInv, PlacesInv
<1>5. CloseInv'
  BY <1>1, <1>2, EndsAssumption DEF ControlInv, CloseInv
<1>6. HandOverInv'
  BY <1>1, <1>2, <1>3, EndsAssumption DEF ControlInv, HandOverInv, Outside
<1> QED
  BY <1>3, <1>4, <1>5, <1>6 DEF ControlInv

LEMMA WriteMeetYieldsControl ==
  ASSUME TypeOK, ControlInv, WriteMeet, monitor = "channel_window",
         waiter[Spot] = NULL \/ ~ reader, UNCHANGED monitor
  PROVE  ControlInv'
<1>1. Yields(Writer, "loop") /\ pc[Writer] = "meet"
  BY DEF Yields, WriteMeet, At, Running, Goto, endVars
<1>2. /\ Writer \in Task /\ pc \in [Task -> Places] /\ pc' = [pc EXCEPT ![Writer] = "loop"]
      /\ UNCHANGED <<closed, ret, closing, reader, monitor>>
      /\ pc[Writer] # "sleep" => run_state[Writer] = "RUNNING"
  BY <1>1, Types, Runner, EndsAssumption DEF Yields
<1>3. /\ SchedInv' /\ SpotInv' /\ fault' \in {"none", "assertion"} /\ waiter' = waiter
      /\ \A t \in Task : run_state'[t] = "WAITING" <=> run_state[t] = "WAITING"
  BY <1>1, <1>2, YieldsControl
<1>4. PlacesInv'
  BY <1>1, <1>2, EndsAssumption DEF ControlInv, PlacesInv
<1>5. CloseInv'
  BY <1>1, <1>2, EndsAssumption DEF ControlInv, CloseInv
<1>6. HandOverInv'
  BY <1>1, <1>2, <1>3, EndsAssumption DEF ControlInv, HandOverInv, Outside
<1> QED
  BY <1>3, <1>4, <1>5, <1>6 DEF ControlInv

-----------------------------------------------------------------------------
(* Control: the steps of the waiter *)

LEMMA ParkClaimsControl ==
  ASSUME TypeOK, ControlInv, NEW c \in Task, NEW missed, Park(c, missed),
         CanPark(Spot), UNCHANGED <<reader, monitor>>
  PROVE  ControlInv'
<1>1. /\ fault = "none" /\ fault' = fault /\ c = current /\ pc' = [pc EXCEPT ![c] = "check"]
      /\ pc[c] = "park" /\ waiter[Spot] = NULL /\ waiter' = [waiter EXCEPT ![Spot] = c]
      /\ UNCHANGED peer /\ UNCHANGED <<current, run_state, no_preempt_flag, ready>>
      /\ UNCHANGED <<closed, ret, closing, reader, monitor>>
  BY DEF Park, At, Running, Goto, waiterVars, dispatchVars, endVars, CanPark, Claim
<1>2. /\ c \in Task /\ pc \in [Task -> Places] /\ waiter \in [Slot -> Task \cup {NULL}]
      /\ peer \in [Task -> Task \cup {NULL}] /\ run_state \in [Task -> RunStates]
      /\ ready \in [Task -> Nat] /\ Spot \in Slot
      /\ pc[c] # "sleep" => run_state[c] = "RUNNING"
  BY <1>1, Types, Runner, EndsAssumption, SpotAssumption
<1>3. SchedInv'
  BY <1>1, <1>2, Ends, EndsAssumption DEF ControlInv, SchedInv
<1>4. SpotInv'
  BY <1>1, <1>2, Ends DEF ControlInv, SpotInv, SchedInv
<1>5. PlacesInv'
  BY <1>1, <1>2, EndsAssumption DEF ControlInv, PlacesInv
<1>6. CloseInv'
  BY <1>1, <1>2, EndsAssumption DEF ControlInv, CloseInv
<1>7. HandOverInv'
  BY <1>1, <1>2, EndsAssumption, NullAssumption DEF ControlInv, HandOverInv, CloseInv, SpotInv,
       PlacesInv, SchedInv, Outside, Other
<1> QED
  BY <1>1, <1>3, <1>4, <1>5, <1>6, <1>7 DEF ControlInv

LEMMA ParkMissesControl ==
  ASSUME TypeOK, ControlInv, NEW c \in Task, NEW missed, Park(c, missed),
         ~ CanPark(Spot),
         missed = IF monitor = "channel_window" THEN "meet" ELSE "load",
         monitor \in {"channel_window", "ring_buffer"}, UNCHANGED <<reader, monitor>>
  PROVE  ControlInv'
<1>1. /\ fault = "none" /\ fault' = fault /\ c = current /\ pc' = [pc EXCEPT ![c] = missed]
      /\ pc[c] = "park" /\ waiter[Spot] # NULL /\ UNCHANGED waiter
      /\ UNCHANGED peer /\ UNCHANGED <<current, run_state, no_preempt_flag, ready>>
      /\ UNCHANGED <<closed, ret, closing, reader, monitor>>
  BY DEF Park, At, Running, Goto, waiterVars, dispatchVars, endVars, CanPark
<1>2. /\ c \in Task /\ pc \in [Task -> Places] /\ waiter \in [Slot -> Task \cup {NULL}]
      /\ peer \in [Task -> Task \cup {NULL}] /\ run_state \in [Task -> RunStates]
      /\ ready \in [Task -> Nat] /\ Spot \in Slot
      /\ pc[c] # "sleep" => run_state[c] = "RUNNING"
  BY <1>1, Types, Runner, EndsAssumption, SpotAssumption
<1>3. SchedInv'
  BY <1>1, <1>2, Ends, EndsAssumption DEF ControlInv, SchedInv
<1>4. SpotInv'
  BY <1>1, <1>2, Ends DEF ControlInv, SpotInv, SchedInv
<1>5. PlacesInv'
  BY <1>1, <1>2, EndsAssumption DEF ControlInv, PlacesInv
<1>6. CloseInv'
  BY <1>1, <1>2, EndsAssumption DEF ControlInv, CloseInv
<1>7. HandOverInv'
  BY <1>1, <1>2, EndsAssumption, NullAssumption DEF ControlInv, HandOverInv, CloseInv, SpotInv,
       PlacesInv, SchedInv, Outside, Other
<1> QED
  BY <1>1, <1>3, <1>4, <1>5, <1>6, <1>7 DEF ControlInv

LEMMA CheckClosedControl ==
  ASSUME TypeOK, ControlInv, NEW c \in Task, NEW told, Check(c, told), closed,
         told = IF monitor = "channel_window" THEN "meet" ELSE "return",
         monitor \in {"channel_window", "ring_buffer"}, UNCHANGED <<reader, monitor>>
  PROVE  ControlInv'
<1>1. /\ fault = "none" /\ fault' = fault /\ c = current /\ pc' = [pc EXCEPT ![c] = told]
      /\ pc[c] = "check" /\ waiter' = [waiter EXCEPT ![Spot] = NULL]
      /\ UNCHANGED peer /\ UNCHANGED <<current, run_state, no_preempt_flag, ready>>
      /\ UNCHANGED <<closed, ret, closing, reader, monitor>>
  BY DEF Check, At, Running, Goto, waiterVars, dispatchVars, endVars, Unclaim
<1>2. /\ c \in Task /\ pc \in [Task -> Places] /\ waiter \in [Slot -> Task \cup {NULL}]
      /\ peer \in [Task -> Task \cup {NULL}] /\ run_state \in [Task -> RunStates]
      /\ ready \in [Task -> Nat] /\ Spot \in Slot
      /\ pc[c] # "sleep" => run_state[c] = "RUNNING"
  BY <1>1, Types, Runner, EndsAssumption, SpotAssumption
<1>3. SchedInv'
  BY <1>1, <1>2, Ends, EndsAssumption DEF ControlInv, SchedInv
<1>4. SpotInv'
  BY <1>1, <1>2, Ends DEF ControlInv, SpotInv, SchedInv
<1>5. PlacesInv'
  BY <1>1, <1>2, EndsAssumption DEF ControlInv, PlacesInv
<1>6. CloseInv'
  BY <1>1, <1>2, EndsAssumption DEF ControlInv, CloseInv
<1>7. HandOverInv'
  <2>1. pc[Writer] # "back" \/ pc[Reader] # "check"
    BY EndsAssumption, Types DEF ControlInv, CloseInv
  <2> QED
    BY <1>1, <1>2, <2>1, EndsAssumption DEF ControlInv, HandOverInv, Outside
<1> QED
  BY <1>1, <1>3, <1>4, <1>5, <1>6, <1>7 DEF ControlInv

LEMMA CheckOpenControl ==
  ASSUME TypeOK, ControlInv, NEW c \in Task, NEW told, Check(c, told), ~ closed,
         UNCHANGED <<reader, monitor>>
  PROVE  ControlInv'
<1>1. /\ fault = "none" /\ fault' = fault /\ c = current /\ pc' = [pc EXCEPT ![c] = "wait"]
      /\ pc[c] = "check" /\ UNCHANGED waiter
      /\ UNCHANGED peer /\ UNCHANGED <<current, run_state, no_preempt_flag, ready>>
      /\ UNCHANGED <<closed, ret, closing, reader, monitor>>
  BY DEF Check, At, Running, Goto, waiterVars, dispatchVars, endVars, Unclaim
<1>2. /\ c \in Task /\ pc \in [Task -> Places] /\ waiter \in [Slot -> Task \cup {NULL}]
      /\ peer \in [Task -> Task \cup {NULL}] /\ run_state \in [Task -> RunStates]
      /\ ready \in [Task -> Nat] /\ Spot \in Slot
      /\ pc[c] # "sleep" => run_state[c] = "RUNNING"
  BY <1>1, Types, Runner, EndsAssumption, SpotAssumption
<1>3. SchedInv'
  BY <1>1, <1>2, Ends, EndsAssumption DEF ControlInv, SchedInv
<1>4. SpotInv'
  BY <1>1, <1>2, Ends DEF ControlInv, SpotInv, SchedInv
<1>5. PlacesInv'
  BY <1>1, <1>2, EndsAssumption DEF ControlInv, PlacesInv
<1>6. CloseInv'
  BY <1>1, <1>2, EndsAssumption DEF ControlInv, CloseInv
<1>7. HandOverInv'
  BY <1>1, <1>2, EndsAssumption, NullAssumption DEF ControlInv, HandOverInv, CloseInv, SpotInv,
       PlacesInv, SchedInv, Outside, Other
<1> QED
  BY <1>1, <1>3, <1>4, <1>5, <1>6, <1>7 DEF ControlInv

LEMMA WaitInSpotControl ==
  ASSUME TypeOK, ControlInv, NEW c \in Task, WaitInSpot(c), UNCHANGED <<reader, monitor>>
  PROVE  ControlInv'
<1>1. /\ fault = "none" /\ fault' = fault /\ c = current /\ pc' = [pc EXCEPT ![c] = "sleep"]
      /\ pc[c] = "wait" /\ run_state' = [run_state EXCEPT ![c] = "WAITING"]
      /\ UNCHANGED <<current, no_preempt_flag, ready, waiter, peer>>
      /\ UNCHANGED <<closed, ret, closing, reader, monitor>>
  BY DEF WaitInSpot, At, Running, Goto, waiterVars, dispatchVars, endVars, Wait
<1>2. /\ c \in Task /\ pc \in [Task -> Places] /\ waiter \in [Slot -> Task \cup {NULL}]
      /\ peer \in [Task -> Task \cup {NULL}] /\ run_state \in [Task -> RunStates]
      /\ ready \in [Task -> Nat] /\ Spot \in Slot
      /\ pc[c] # "sleep" => run_state[c] = "RUNNING"
  BY <1>1, Types, Runner, EndsAssumption, SpotAssumption
<1>3. SchedInv'
  BY <1>1, <1>2, Ends, EndsAssumption DEF ControlInv, SchedInv
<1>4. SpotInv'
  BY <1>1, <1>2, Ends DEF ControlInv, SpotInv, SchedInv
<1>5. PlacesInv'
  BY <1>1, <1>2, EndsAssumption DEF ControlInv, PlacesInv
<1>6. CloseInv'
  BY <1>1, <1>2, EndsAssumption DEF ControlInv, CloseInv
<1>7. HandOverInv'
  BY <1>1, <1>2, EndsAssumption, NullAssumption DEF ControlInv, HandOverInv, CloseInv, SpotInv,
       PlacesInv, SchedInv, Outside, Other
<1> QED
  BY <1>1, <1>3, <1>4, <1>5, <1>6, <1>7 DEF ControlInv

LEMMA UnparkTailTakesControl ==
  ASSUME TypeOK, ControlInv, NEW c \in Task, UnparkTail(c), Unparks, IsParked(Spot),
         UNCHANGED <<reader, monitor>>
  PROVE  ControlInv'
<1>1. /\ fault = "none" /\ fault' = fault /\ c = current /\ pc' = [pc EXCEPT ![c] = "wake"]
      /\ pc[c] = "tail" /\ waiter[Spot] # NULL /\ run_state[waiter[Spot]] = "WAITING"
      /\ waiter' = [waiter EXCEPT ![Spot] = NULL] /\ peer' = [peer EXCEPT ![c] = waiter[Spot]]
      /\ UNCHANGED <<current, run_state, no_preempt_flag, ready>>
      /\ UNCHANGED <<closed, ret, closing, reader, monitor>>
  BY DEF UnparkTail, At, Running, Goto, waiterVars, dispatchVars, endVars, Unparks,
       IsParked, TakeOut, Unclaim
<1>2. /\ c \in Task /\ pc \in [Task -> Places] /\ waiter \in [Slot -> Task \cup {NULL}]
      /\ peer \in [Task -> Task \cup {NULL}] /\ run_state \in [Task -> RunStates]
      /\ ready \in [Task -> Nat] /\ Spot \in Slot
      /\ pc[c] # "sleep" => run_state[c] = "RUNNING"
  BY <1>1, Types, Runner, EndsAssumption, SpotAssumption
<1>3. SchedInv'
  BY <1>1, <1>2, Ends, EndsAssumption DEF ControlInv, SchedInv
<1>4. SpotInv'
  BY <1>1, <1>2, Ends DEF ControlInv, SpotInv, SchedInv
<1>5. PlacesInv'
  BY <1>1, <1>2, EndsAssumption DEF ControlInv, PlacesInv
<1>6. CloseInv'
  BY <1>1, <1>2, EndsAssumption DEF ControlInv, CloseInv
<1>7. HandOverInv'
  BY <1>1, <1>2, EndsAssumption, NullAssumption DEF ControlInv, HandOverInv, CloseInv, SpotInv,
       PlacesInv, SchedInv, Outside, Other
<1> QED
  BY <1>1, <1>3, <1>4, <1>5, <1>6, <1>7 DEF ControlInv

LEMMA WakePeerControl ==
  ASSUME TypeOK, ControlInv, NEW c \in Task, WakePeer(c),
         run_state[peer[c]] = "WAITING", UNCHANGED <<reader, monitor>>
  PROVE  ControlInv'
<1>1. /\ fault = "none"
      /\ fault' = fault
      /\ c = current
      /\ pc' = [pc EXCEPT ![c] = IF c \in closing THEN "done" ELSE "return"]
      /\ pc[c] = "wake" /\ run_state' = [run_state EXCEPT ![peer[c]] = "SUSPENDED"]
      /\ ready' = Push(ready, peer[c])
      /\ UNCHANGED <<current, no_preempt_flag, waiter, peer>>
      /\ UNCHANGED <<closed, ret, closing, reader, monitor>>
  BY DEF WakePeer, At, Running, Goto, waiterVars, dispatchVars, endVars, Resume, Leave
<1>2. /\ c \in Task /\ pc \in [Task -> Places] /\ waiter \in [Slot -> Task \cup {NULL}]
      /\ peer \in [Task -> Task \cup {NULL}] /\ run_state \in [Task -> RunStates]
      /\ ready \in [Task -> Nat] /\ Spot \in Slot
      /\ pc[c] # "sleep" => run_state[c] = "RUNNING"
  BY <1>1, Types, Runner, EndsAssumption, SpotAssumption
<1>3. SchedInv'
  <2>1. PICK o \in Task : o = Other(c) /\ o # c /\ \A t \in Task : t = c \/ t = o
    BY Ends
  <2>2. peer[c] = o /\ run_state[o] = "WAITING"
    BY <1>1, <2>1 DEF ControlInv, SpotInv
  <2>3. ready[o] = 0 /\ ready[c] = 0
    BY <1>1, <2>1, <2>2 DEF ControlInv, SchedInv
  <2>4. ready' = [ready EXCEPT ![o] = 1]
    <3>1. ready' = [ready EXCEPT ![o] = ready[o] + 1]
      BY <1>1, <1>2, <2>2 DEF Push
    <3> QED
      BY <2>3, <3>1
  <2>5. run_state' = [run_state EXCEPT ![o] = "SUSPENDED"]
    BY <1>1, <2>2
  <2> QED
    BY <1>1, <1>2, <2>1, <2>3, <2>4, <2>5 DEF SchedInv
<1>4. SpotInv'
  BY <1>1, <1>2, Ends DEF ControlInv, SpotInv, SchedInv
<1>5. PlacesInv'
  BY <1>1, <1>2, EndsAssumption DEF ControlInv, PlacesInv
<1>6. CloseInv'
  BY <1>1, <1>2, EndsAssumption DEF ControlInv, CloseInv
<1>7. HandOverInv'
  BY <1>1, <1>2, EndsAssumption, NullAssumption DEF ControlInv, HandOverInv, CloseInv, SpotInv,
       PlacesInv, SchedInv, Outside, Other
<1> QED
  BY <1>1, <1>3, <1>4, <1>5, <1>6, <1>7 DEF ControlInv

LEMMA SwapControl ==
  ASSUME TypeOK, ControlInv, NEW c \in Task, NEW from, NEW to,
         SwapOrYield(c, from, to), monitor = "channel_window", IsParked(Spot),
         from = IF c = Reader THEN "meet" ELSE "back", UNCHANGED monitor
  PROVE  ControlInv'
<1>1. /\ fault = "none" /\ fault' = fault /\ c = current /\ pc' = [pc EXCEPT ![c] = "go"]
      /\ pc[c] = from /\ waiter[Spot] # NULL /\ run_state[waiter[Spot]] = "WAITING"
      /\ waiter' = [waiter EXCEPT ![Spot] = c] /\ peer' = [peer EXCEPT ![c] = waiter[Spot]]
      /\ UNCHANGED <<current, run_state, no_preempt_flag, ready>>
      /\ UNCHANGED <<closed, ret, closing, reader, monitor>>
  BY DEF SwapOrYield, At, Running, Goto, waiterVars, dispatchVars, endVars, Swap, IsParked
<1>2. /\ c \in Task /\ pc \in [Task -> Places] /\ waiter \in [Slot -> Task \cup {NULL}]
      /\ peer \in [Task -> Task \cup {NULL}] /\ run_state \in [Task -> RunStates]
      /\ ready \in [Task -> Nat] /\ Spot \in Slot
      /\ pc[c] # "sleep" => run_state[c] = "RUNNING"
  BY <1>1, Types, Runner, EndsAssumption, SpotAssumption
<1>3. SchedInv'
  BY <1>1, <1>2, Ends, EndsAssumption DEF ControlInv, SchedInv
<1>4. SpotInv'
  BY <1>1, <1>2, Ends DEF ControlInv, SpotInv, SchedInv
<1>5. PlacesInv'
  BY <1>1, <1>2, EndsAssumption DEF ControlInv, PlacesInv
<1>6. CloseInv'
  BY <1>1, <1>2, EndsAssumption DEF ControlInv, CloseInv
<1>7. HandOverInv'
  BY <1>1, <1>2, EndsAssumption, NullAssumption DEF ControlInv, HandOverInv, CloseInv, SpotInv,
       PlacesInv, SchedInv, Outside, Other
<1> QED
  BY <1>1, <1>3, <1>4, <1>5, <1>6, <1>7 DEF ControlInv

(* swap: c waits in the place of the one that runs. *)
LEMMA GoControl ==
  ASSUME TypeOK, ControlInv, NEW c \in Task, Go(c), monitor = "channel_window",
         UNCHANGED monitor
  PROVE  ControlInv'
<1>1. PICK o \in Task : o = Other(c) /\ o # c /\ Other(o) = c /\ \A t \in Task : t = c \/ t = o
  BY Ends
<1>2. /\ pc[c] = "go" /\ c = current /\ fault = "none" /\ fault' = fault
      /\ pc' = [pc EXCEPT ![c] = "return"]
      /\ UNCHANGED <<ready, waiter, closed, ret, peer, closing, reader, monitor>>
  BY DEF Go, At, Running, Goto, windowVars, endVars
<1>3. peer[c] = o /\ run_state[o] = "WAITING" /\ run_state[c] = "RUNNING" /\ waiter[Spot] = c
  BY <1>1, <1>2, Runner DEF ControlInv, SpotInv
<1>4. pc \in [Task -> Places] /\ run_state \in [Task -> RunStates] /\ ready[o] = 0 /\ ready[c] = 0
  BY <1>1, <1>2, <1>3, Types DEF ControlInv, SchedInv
<1>5. current' = o /\ run_state'[c] = "WAITING" /\ run_state'[o] = "RUNNING"
  BY <1>1, <1>2, <1>3, <1>4 DEF Go, SwitchTo
<1>6. SchedInv'
  BY <1>1, <1>2, <1>4, <1>5 DEF SchedInv
<1>7. pc[o] \in {"sleep", "woken", "load", "return"}
  BY <1>1, <1>3 DEF ControlInv, SpotInv
<1>8. SpotInv'
  BY <1>1, <1>2, <1>3, <1>4, <1>5, <1>7, Ends DEF SpotInv
<1>9. PlacesInv'
  BY <1>2, <1>4, EndsAssumption DEF ControlInv, PlacesInv
<1>10. CloseInv'
  BY <1>2, <1>4, EndsAssumption DEF ControlInv, CloseInv
<1>11. HandOverInv'
  BY <1>1, <1>2, <1>3, <1>4, <1>5, <1>7, EndsAssumption DEF ControlInv, HandOverInv, Outside
<1> QED
  BY <1>2, <1>6, <1>8, <1>9, <1>10, <1>11 DEF ControlInv

-----------------------------------------------------------------------------
(* Counters that wrap *)

LEMMA ModRange ==
  ASSUME NEW n \in Nat \ {0}, NEW x \in Int
  PROVE  x % n \in 0..n - 1 /\ x % n \in Nat
  BY Z3

LEMMA DivInt ==
  ASSUME NEW n \in Nat \ {0}, NEW x \in Int
  PROVE  x \div n \in Int
  BY Z3

LEMMA ModDiv ==
  ASSUME NEW n \in Nat \ {0}, NEW x \in Int
  PROVE  x = n * (x \div n) + (x % n)
  BY Z3

LEMMA ModUnique ==
  ASSUME NEW n \in Nat \ {0}, NEW k \in Int, NEW m \in 0..n - 1
  PROVE  (n * k + m) % n = m
  BY Z3

(* x is m in the k-th round of n. *)
InRound(x, n, k, m) == x = n * k + m /\ x % n = m

LEMMA ModSplit ==
  ASSUME NEW n \in Nat \ {0}, NEW x \in Int
  PROVE  \E k \in Int, m \in 0..n - 1 : InRound(x, n, k, m)
<1>1. PICK m \in 0..n - 1 : m = x % n
  BY ModRange
<1>2. PICK k \in Int : k = x \div n
  BY DivInt
<1>3. InRound(x, n, k, m)
  <2>1. x = n * k + m
    BY <1>1, <1>2, ModDiv
  <2> QED
    BY <1>1, <2>1 DEF InRound
<1> QED
  BY <1>3

(* Counting up. *)
LEMMA ModStep ==
  ASSUME NEW n \in Nat \ {0}, NEW x \in Nat
  PROVE  (x + 1) % n = IF x % n = n - 1 THEN 0 ELSE (x % n) + 1
<1> PICK k \in Int, m \in 0..n - 1 : InRound(x, n, k, m)
  BY ModSplit
<1>1. x = n * k + m /\ x % n = m
  BY DEF InRound
<1>2. CASE m = n - 1
  <2>1. x + 1 = n * (k + 1) + 0
    BY <1>1, <1>2
  <2>2. (n * (k + 1) + 0) % n = 0
    BY ModUnique
  <2> QED
    BY <1>1, <1>2, <2>1, <2>2
<1>3. CASE m # n - 1
  <2>1. x + 1 = n * k + (m + 1) /\ m + 1 \in 0..n - 1
    BY <1>1, <1>3
  <2>2. (n * k + (m + 1)) % n = m + 1
    BY <2>1, ModUnique
  <2> QED
    BY <1>1, <1>3, <2>1, <2>2
<1> QED
  BY <1>2, <1>3

LEMMA ModNext ==
  ASSUME NEW n \in Nat \ {0}, NEW x \in Nat, NEW y \in Nat
  PROVE  x % n = y % n => (x + 1) % n = (y + 1) % n
<1>1. (x + 1) % n = IF x % n = n - 1 THEN 0 ELSE (x % n) + 1
  BY ModStep
<1>2. (y + 1) % n = IF y % n = n - 1 THEN 0 ELSE (y % n) + 1
  BY ModStep
<1> QED
  BY <1>1, <1>2, Zenon

LEMMA MulBound ==
  ASSUME NEW n \in Nat \ {0}, NEW k \in Int, n * k < n, 0 < n * k
  PROVE  FALSE
  BY Z3

(* Less than n apart is never in the same slot. *)
LEMMA ModDiffer ==
  ASSUME NEW n \in Nat \ {0}, NEW x \in Nat, NEW y \in Nat, 0 < y - x, y - x < n
  PROVE  x % n # y % n
<1>1. PICK k \in Int, m \in 0..n - 1 : InRound(x, n, k, m)
  BY ModSplit
<1>2. PICK j \in Int, l \in 0..n - 1 : InRound(y, n, j, l)
  BY ModSplit
<1>3. SUFFICES ASSUME x % n = y % n PROVE FALSE
  OBVIOUS
<1>4. x = n * k + m /\ y = n * j + m
  BY <1>1, <1>2, <1>3 DEF InRound
<1>5. y - x = n * (j - k)
  BY <1>4
<1>6. n * (j - k) < n /\ 0 < n * (j - k) /\ j - k \in Int
  BY <1>5
<1> QED
  BY <1>6, MulBound

(* The same slot stays the same slot k further on. *)
LEMMA ModShift ==
  ASSUME NEW n \in Nat \ {0}, NEW x \in Nat, NEW y \in Nat, NEW k \in Nat
  PROVE  x % n = y % n => (x + k) % n = (y + k) % n
<1>1. PICK i \in Int, m \in 0..n - 1 : InRound(x, n, i, m)
  BY ModSplit
<1>2. PICK j \in Int, d \in 0..n - 1 : InRound(y, n, j, d)
  BY ModSplit
<1>3. PICK e \in Nat : e = m + k
  OBVIOUS
<1>4. PICK h \in Int, l \in 0..n - 1 : InRound(e, n, h, l)
  BY ModSplit
<1>5. SUFFICES ASSUME x % n = y % n PROVE (x + k) % n = (y + k) % n
  OBVIOUS
<1>6. x = n * i + m /\ y = n * j + m /\ m + k = n * h + l
  BY <1>1, <1>2, <1>3, <1>4, <1>5 DEF InRound
<1>7. x + k = n * (i + h) + l /\ y + k = n * (j + h) + l
  BY <1>6
<1>8. (n * (i + h) + l) % n = l /\ (n * (j + h) + l) % n = l
  BY ModUnique
<1> QED
  BY <1>7, <1>8

(* The difference of two counters on size_t. *)
LEMMA ModMinus ==
  ASSUME NEW n \in Nat \ {0}, NEW x \in 0..n - 1, NEW y \in 0..n - 1
  PROVE  (x - y) % n = IF x >= y THEN x - y ELSE x - y + n
<1>1. CASE x >= y
  <2>1. x - y = n * 0 + (x - y) /\ x - y \in 0..n - 1
    BY <1>1
  <2>2. (n * 0 + (x - y)) % n = x - y
    BY <2>1, ModUnique
  <2> QED
    BY <1>1, <2>1, <2>2
<1>2. CASE x < y
  <2>1. x - y = n * (-1) + (x - y + n) /\ x - y + n \in 0..n - 1
    BY <1>2
  <2>2. (n * (-1) + (x - y + n)) % n = x - y + n
    BY <2>1, ModUnique
  <2> QED
    BY <1>2, <2>1, <2>2
<1> QED
  BY <1>1, <1>2

(* The store of a counter: it moves on by one, wraps, and leads to the next
   slot, because Size divides Wrap. *)
LEMMA CounterStep ==
  ASSUME NEW x \in 0..Wrap - 1
  PROVE  /\ (x + 1) % Wrap = IF x = Wrap - 1 THEN 0 ELSE x + 1
         /\ ((x + 1) % Wrap) % Size = (x + 1) % Size
<1>1. Wrap \in Nat \ {0} /\ Size \in Nat \ {0} /\ x \in Nat
  BY SizeAssumption
<1>2. (x + 1) % Wrap = IF x = Wrap - 1 THEN 0 ELSE x + 1
  <2>1. x = Wrap * 0 + x /\ (Wrap * 0 + x) % Wrap = x
    BY <1>1, ModUnique
  <2>2. (x + 1) % Wrap = IF x % Wrap = Wrap - 1 THEN 0 ELSE (x % Wrap) + 1
    BY <1>1, ModStep
  <2>3. x % Wrap = x
    BY <2>1
  <2> QED
    BY <2>2, <2>3
<1>3. 0 % Size = 0
  <2>1. 0 = Size * 0 + 0 /\ (Size * 0 + 0) % Size = 0
    BY <1>1, ModUnique
  <2> QED
    BY <2>1
<1> QED
  BY <1>1, <1>2, <1>3, SizeAssumption

-----------------------------------------------------------------------------
(* Values: the steps that hand nothing over *)

(* The parts of the type invariant about values. *)
LEMMA ValueTypes ==
  ASSUME TypeOK
  PROVE  /\ ret \in 0..MaxWrites /\ next \in 0..MaxWrites /\ MaxWrites \in Nat
         /\ ret \in Nat /\ next \in Nat
         /\ got \in Seq(1..MaxWrites) /\ Len(got) \in Nat
         /\ fate \in [1..MaxWrites -> {"none", "sent", "kept"}]
         /\ r \in 0..Wrap - 1 /\ w \in 0..Wrap - 1 /\ r \in Nat /\ w \in Nat
         /\ buffer \in [0..Size - 1 -> 0..MaxWrites]
         /\ Size \in Nat \ {0} /\ Wrap \in Nat \ {0} /\ Size < Wrap
         /\ monitor \in {"channel_window", "ring_buffer"}
<1>1. /\ ret \in 0..MaxWrites /\ next \in 0..MaxWrites
      /\ got \in Seq(1..MaxWrites)
      /\ fate \in [1..MaxWrites -> {"none", "sent", "kept"}]
      /\ r \in 0..Wrap - 1 /\ w \in 0..Wrap - 1
      /\ buffer \in [0..Size - 1 -> 0..MaxWrites]
      /\ monitor \in Monitors
  BY Zenon DEF TypeOK, EndTypeOK, RingTypeOK
<1>2. MaxWrites \in Nat /\ Size \in Nat \ {0} /\ Wrap \in Nat \ {0} /\ Size < Wrap
  BY SizeAssumption, WritesAssumption
<1>3. monitor \in {"channel_window", "ring_buffer"}
  BY <1>1, MonitorsAssumption
<1>4. Len(got) \in Nat
  BY <1>1
<1> QED
  BY <1>1, <1>2, <1>3, <1>4

LEMMA StillValues == Carried \/ Accepts => ValueInv'
  BY DEF Carried, Accepts, ValueInv

Away == {"idle", "over", "clear", "done"}

OfferPlaces == {"loop", "load", "park", "check", "wait", "sleep", "slot", "woken", "fill", "meet"}

(* c goes on at p, in the same phase of its call. *)
SamePhase(c, p) ==
  /\ pc[c] \notin {"slot", "store"} /\ p \notin {"slot", "store"}
  /\ c \in closing \/ (pc[c] \in Away <=> p \in Away)
  /\ c \in closing => p \in {"tail", "wake", "done"}
  /\ c = Reader /\ monitor = "ring_buffer" /\ p \in OfferPlaces => ret = 0
  /\ c = Writer /\ p \in OfferPlaces => pc[c] \in OfferPlaces /\ (pc[c] = "loop" => ~ closed)
  /\ c = Writer /\ c \notin closing /\ p \in {"back", "go", "tail", "wake", "return"} => Delivered

LEMMA ValuesStay ==
  ASSUME TypeOK, ControlInv, ReaderInv, ValueInv, NEW c \in Task, NEW p,
         pc' = [pc EXCEPT ![c] = p], p = pc[c] \/ SamePhase(c, p),
         UNCHANGED <<closed, ret, next, closing, got, fate, r, w, buffer, monitor>>
  PROVE  ReaderInv' /\ Carried
<1>1. PICK a \in 0..MaxWrites : WriterInv(a) /\ StoreInv(a)
  BY DEF ValueInv, Holds
<1>2. pc \in [Task -> Places]
  BY Types
<1>3. /\ pc'[Reader] = "store" <=> pc[Reader] = "store"
      /\ pc'[Writer] = "store" <=> pc[Writer] = "store"
      /\ pc'[Reader] = "slot" <=> pc[Reader] = "slot"
      /\ pc'[Writer] = "slot" <=> pc[Writer] = "slot"
      /\ pc'[Reader] = IF c = Reader THEN p ELSE pc[Reader]
      /\ pc'[Writer] = IF c = Writer THEN p ELSE pc[Writer]
  BY <1>2, EndsAssumption DEF SamePhase
<1>4. Outside(Reader)' = Outside(Reader) /\ Outside(Writer)' = Outside(Writer)
  BY <1>3, EndsAssumption DEF SamePhase, Outside, Away, ControlInv, CloseInv
<1>5. InHand' = InHand
  BY <1>4 DEF InHand
<1>6. ReaderInv'
  BY <1>3, <1>5 DEF ReaderInv, SamePhase, OfferPlaces
<1>7. WriterInv(a)'
  <2>1. CASE c = Writer /\ p # pc[c]
    <3>1. Offers' => Offers /\ (pc[Writer] = "loop" => ~ closed)
      BY <1>3, <2>1 DEF SamePhase, Offers, OfferPlaces
    <3>2. Delivered' => Delivered
      BY <1>3, <2>1 DEF SamePhase, Delivered
    <3>3. pc'[Writer] = "return" => Delivered
      BY <1>3, <2>1 DEF SamePhase
    <3> HIDE DEF Offers, Delivered
    <3>4. \/ Offers' => fate[next] = "none" /\ a < next /\ a = next - 1
          \/ ~ Offers'
      BY <1>1, <3>1 DEF WriterInv
    <3>5. Delivered' \/ pc'[Writer] = "return" => fate[next] = "none" /\ a = next /\ next > 0
      BY <1>1, <3>2, <3>3 DEF WriterInv
    <3> QED
      BY <1>1, <1>4, <3>1, <3>4, <3>5 DEF WriterInv
  <2>2. CASE c # Writer \/ p = pc[c]
    <3>1. pc'[Writer] = pc[Writer]
      BY <1>3, <2>2
    <3> QED
      BY <1>1, <1>4, <3>1 DEF WriterInv, Offers, Delivered
  <2> QED
    BY <2>1, <2>2
<1>8. StoreInv(a)'
  <2>1. Out' = Out /\ Read' = Read /\ Written(a)' = Written(a)
    BY <1>3, <1>5 DEF Out, Read, Written
  <2> HIDE DEF Out, Read, Written
  <2> QED
    BY <1>1, <1>3, <2>1 DEF StoreInv
<1> QED
  BY <1>1, <1>6, <1>7, <1>8 DEF Carried, Holds

-----------------------------------------------------------------------------
(* Values: the steps that hand something over *)

(* Where c goes on, for both ends. *)
LEMMA Moves ==
  ASSUME TypeOK, NEW c \in Task, NEW p, pc' = [pc EXCEPT ![c] = p]
  PROVE  /\ pc'[Reader] = IF c = Reader THEN p ELSE pc[Reader]
         /\ pc'[Writer] = IF c = Writer THEN p ELSE pc[Writer]
  BY Types, EndsAssumption

(* Who is on its way through a call is not being dropped. *)
LEMMA NotClosing ==
  ASSUME ControlInv, NEW c \in Task, pc[c] \notin {"clear", "tail", "wake", "done"}
  PROVE  c \notin closing
  BY DEF ControlInv, CloseInv

(* A call to read. *)
LEMMA ValuesReadCalled ==
  ASSUME TypeOK, ControlInv, ReaderInv, ValueInv, NEW p \in {"loop", "load"},
         pc[Reader] = "idle", pc' = [pc EXCEPT ![Reader] = p], ret' = 0,
         UNCHANGED <<closed, next, closing, got, fate, r, w, buffer, monitor>>
  PROVE  ReaderInv' /\ Carried
<1>1. PICK a \in 0..MaxWrites : WriterInv(a) /\ StoreInv(a)
  BY DEF ValueInv, Holds
<1>2. pc'[Reader] = p /\ pc'[Writer] = pc[Writer]
  BY Moves, EndsAssumption
<1>3. InHand = 0 /\ InHand' = 0
  BY DEF InHand, Outside
<1>4. ReaderInv'
  BY <1>2, <1>3 DEF ReaderInv
<1>5. WriterInv(a)'
  BY <1>1, <1>2 DEF WriterInv, Offers, Delivered, Outside
<1>6. StoreInv(a)'
  <2>1. Out' = Out /\ Read' = Read /\ Written(a)' = Written(a)
    BY <1>2, <1>3 DEF Out, Read, Written
  <2> QED
    BY <1>1, <1>2, <2>1 DEF StoreInv
<1> QED
  BY <1>1, <1>4, <1>5, <1>6 DEF Carried, Holds

(* A step of the writer that leaves the reader, the ring and a alone. *)
LEMMA WriterAlone ==
  ASSUME TypeOK, ReaderInv, NEW a \in 0..MaxWrites, StoreInv(a), NEW p,
         pc[Writer] \notin {"slot", "store"}, p \notin {"slot", "store"},
         pc' = [pc EXCEPT ![Writer] = p],
         UNCHANGED <<ret, closing, got, r, w, buffer, monitor>>
  PROVE  ReaderInv' /\ StoreInv(a)'
<1>1. pc'[Reader] = pc[Reader] /\ pc'[Writer] = p
  BY Moves, EndsAssumption
<1>2. InHand' = InHand
  BY <1>1 DEF InHand, Outside
<1>3. ReaderInv'
  BY <1>1, <1>2 DEF ReaderInv
<1>4. Out' = Out /\ Read' = Read /\ Written(a)' = Written(a)
  BY <1>1, <1>2 DEF Out, Read, Written
<1>5. StoreInv(a)'
  BY <1>1, <1>4 DEF StoreInv
<1> QED
  BY <1>3, <1>5

(* A call to write; a closed ring gives the value back at once. *)
LEMMA ValuesWriteCalled ==
  ASSUME TypeOK, ControlInv, ReaderInv, ValueInv, NEW p \in {"loop", "load", "return"},
         pc[Writer] = "idle", pc' = [pc EXCEPT ![Writer] = p],
         next < MaxWrites, next' = next + 1,
         p = "load" => ~ closed, p = "return" => closed,
         fate' = IF p = "return" THEN [fate EXCEPT ![next'] = "kept"] ELSE fate,
         UNCHANGED <<closed, ret, closing, got, r, w, buffer, monitor>>
  PROVE  ReaderInv' /\ Carried
<1>1. PICK a \in 0..MaxWrites : WriterInv(a) /\ StoreInv(a)
  BY DEF ValueInv, Holds
<1>2. pc'[Writer] = p /\ Writer \notin closing /\ next \in Nat /\ MaxWrites \in Nat
  BY Moves, NotClosing, EndsAssumption, ValueTypes
<1>3. ReaderInv' /\ StoreInv(a)'
  BY <1>1, WriterAlone
<1>4. WriterInv(a)'
  <2>1. /\ a <= next
        /\ \A n \in 1..MaxWrites :
             /\ fate[n] = "sent" => n <= a
             /\ fate[n] = "kept" => a < n /\ closed
             /\ n < next => fate[n] # "none"
             /\ n > next => fate[n] = "none"
        /\ closed \/ a = next
        /\ next > 0 => fate[next] # "none"
    BY <1>1 DEF WriterInv, Outside
  <2>2. next + 1 \in 1..MaxWrites /\ fate[next + 1] = "none" /\ a \in Nat
    BY <1>2, <2>1
  <2>3. \A n \in 1..MaxWrites : fate'[n] = IF p = "return" /\ n = next + 1 THEN "kept" ELSE fate[n]
    BY <1>2, ValueTypes
  <2>4. \A n \in 1..MaxWrites :
             /\ fate'[n] = "sent" => n <= a
             /\ fate'[n] = "kept" => a < n /\ closed
             /\ n < next + 1 => fate'[n] # "none"
             /\ n > next + 1 => fate'[n] = "none"
    <3> SUFFICES ASSUME NEW n \in 1..MaxWrites
                 PROVE  /\ fate'[n] = "sent" => n <= a
                        /\ fate'[n] = "kept" => a < n /\ closed
                        /\ n < next + 1 => fate'[n] # "none"
                        /\ n > next + 1 => fate'[n] = "none"
      OBVIOUS
    <3>1. CASE n = next + 1
      BY <1>2, <2>1, <2>2, <2>3, <3>1
    <3>2. CASE n = next
      BY <1>2, <2>1, <2>2, <2>3, <3>2
    <3>3. CASE n < next \/ n > next + 1
      BY <1>2, <2>1, <2>2, <2>3, <3>3
    <3> QED
      BY <1>2, <3>1, <3>2, <3>3
  <2>5. fate'[next + 1] = IF p = "return" THEN "kept" ELSE "none"
    BY <2>2, <2>3
  <2> QED
    BY <1>2, <2>1, <2>2, <2>4, <2>5 DEF WriterInv, Offers, Delivered, Outside
<1> QED
  BY <1>1, <1>3, <1>4 DEF Carried, Holds

(* A write finds the channel closed and gives its value back. *)
LEMMA ValuesKept ==
  ASSUME TypeOK, ControlInv, ReaderInv, ValueInv, Offers, pc[Writer] # "slot", closed,
         pc' = [pc EXCEPT ![Writer] = "return"], fate' = [fate EXCEPT ![next] = "kept"],
         UNCHANGED <<closed, ret, next, closing, got, r, w, buffer, monitor>>
  PROVE  ReaderInv' /\ Carried
<1>1. PICK a \in 0..MaxWrites : WriterInv(a) /\ StoreInv(a)
  BY DEF ValueInv, Holds
<1>2. /\ pc'[Writer] = "return" /\ Writer \notin closing /\ next \in 1..MaxWrites
      /\ fate \in [1..MaxWrites -> {"none", "sent", "kept"}]
  <2>1. next > 0
    BY <1>1 DEF WriterInv
  <2>2. pc'[Writer] = "return" /\ Writer \notin closing
    BY Moves, NotClosing, EndsAssumption DEF Offers
  <2> QED
    BY <2>1, <2>2, ValueTypes
<1>3. ReaderInv' /\ StoreInv(a)'
  BY <1>1, WriterAlone DEF Offers
<1>4. WriterInv(a)'
  <2>1. \A n \in 1..MaxWrites : fate'[n] = IF n = next THEN "kept" ELSE fate[n]
    BY <1>2
  <2>2. a < next /\ a \in Nat
    BY <1>1 DEF WriterInv
  <2> QED
    BY <1>1, <1>2, <2>1, <2>2 DEF WriterInv, Offers, Delivered, Outside
<1> QED
  BY <1>1, <1>3, <1>4 DEF Carried, Holds

(* A write puts its value into the hands of the read that waits. *)
LEMMA ValuesFilled ==
  ASSUME TypeOK, ControlInv, ReaderInv, ValueInv, monitor = "channel_window", ~ closed, reader,
         pc[Writer] \in {"fill", "meet"}, NEW p \in {"back", "tail"},
         pc' = [pc EXCEPT ![Writer] = p], ret' = next,
         UNCHANGED <<closed, next, closing, got, fate, r, w, buffer, monitor>>
  PROVE  ReaderInv' /\ Accepts
<1>1. PICK a \in 0..MaxWrites : WriterInv(a) /\ StoreInv(a)
  BY DEF ValueInv, Holds
<1>2. /\ pc'[Writer] = p /\ pc'[Reader] = pc[Reader] /\ next \in Nat /\ Len(got) \in Nat
      /\ Writer \notin closing
  BY Moves, NotClosing, EndsAssumption, ValueTypes
<1>3. ~ Outside(Reader) /\ ret = 0
  BY DEF ControlInv, HandOverInv
<1>4. InHand = 0 /\ InHand' = next
  BY <1>2, <1>3 DEF InHand, Outside
<1>5. a = next - 1 /\ next > 0 /\ fate[next] = "none"
  BY <1>1 DEF WriterInv, Offers
<1>6. Out = a /\ r = w
  BY <1>1 DEF StoreInv
<1>7. Len(got) = a
  BY <1>2, <1>4, <1>6 DEF Out
<1>8. ReaderInv'
  BY <1>2, <1>4, <1>5, <1>7 DEF ReaderInv
<1>9. PICK b \in 0..MaxWrites : b = next /\ b = a + 1
  BY <1>5, ValueTypes
<1>10. WriterInv(b)'
  BY <1>1, <1>2, <1>5, <1>9 DEF WriterInv, Offers, Delivered, Outside
<1>11. StoreInv(b)'
  <2>1. Out' = b
    BY <1>2, <1>4, <1>5, <1>7, <1>9 DEF Out
  <2> QED
    BY <1>6, <1>9, <2>1 DEF StoreInv
<1> QED
  BY <1>1, <1>5, <1>8, <1>9, <1>10, <1>11 DEF Accepts, Holds

(* A read returns. *)
LEMMA ValuesReadReturns ==
  ASSUME TypeOK, ControlInv, ReaderInv, ValueInv, ReadReturns,
         UNCHANGED <<r, w, buffer, monitor>>
  PROVE  ReaderInv' /\ Carried
<1>1. PICK a \in 0..MaxWrites : WriterInv(a) /\ StoreInv(a)
  BY DEF ValueInv, Holds
<1>2. /\ pc[Reader] = "return"
      /\ pc' = [pc EXCEPT ![Reader] = IF ret = 0 THEN "over" ELSE "idle"]
      /\ got' = IF ret = 0 THEN got ELSE Append(got, ret)
      /\ UNCHANGED <<closed, ret, next, closing, fate>>
  BY DEF ReadReturns, At, Goto
<1>3. pc'[Reader] \in {"over", "idle"} /\ pc'[Writer] = pc[Writer] /\ Reader \notin closing
  BY <1>2, Moves, NotClosing, EndsAssumption
<1>4. got \in Seq(1..MaxWrites) /\ Len(got) \in Nat /\ ret \in 0..MaxWrites /\ MaxWrites \in Nat
  BY ValueTypes
<1>5. InHand = ret /\ InHand' = 0
  BY <1>2, <1>3 DEF InHand, Outside
<1>6. ret # 0 => /\ ret = Len(got) + 1 /\ Len(got') = Len(got) + 1
                 /\ \A i \in 1..Len(got) + 1 : got'[i] = IF i = Len(got) + 1 THEN ret ELSE got[i]
  BY <1>2, <1>4, <1>5 DEF ReaderInv
<1>7. DOMAIN got = 1..Len(got) /\ (ret # 0 => DOMAIN got' = 1..Len(got) + 1)
  BY <1>2, <1>4
<1>8. ReaderInv'
  <2>1. \A i \in DOMAIN got' : got'[i] = i
    BY <1>2, <1>4, <1>6, <1>7 DEF ReaderInv
  <2> QED
    BY <1>3, <1>5, <2>1 DEF ReaderInv
<1>9. WriterInv(a)'
  BY <1>1, <1>2, <1>3 DEF WriterInv, Offers, Delivered, Outside
<1>10. StoreInv(a)'
  <2>1. Out' = Out
    BY <1>2, <1>4, <1>5, <1>6 DEF Out
  <2>2. Read' = Read /\ Written(a)' = Written(a)
    BY <1>2, <1>3, <2>1 DEF Read, Written
  <2> QED
    BY <1>1, <1>2, <1>3, <2>1, <2>2 DEF StoreInv
<1> QED
  BY <1>1, <1>8, <1>9, <1>10 DEF Carried, Holds

(* A write reports success, unless it gave its value back. *)
LEMMA ValuesWriteReturns ==
  ASSUME TypeOK, ControlInv, ReaderInv, ValueInv, WriteReturns,
         UNCHANGED <<r, w, buffer, monitor>>
  PROVE  ReaderInv' /\ Carried
<1>1. PICK a \in 0..MaxWrites : WriterInv(a) /\ StoreInv(a)
  BY DEF ValueInv, Holds
<1>2. /\ pc[Writer] = "return" /\ pc' = [pc EXCEPT ![Writer] = "idle"]
      /\ fate' = [fate EXCEPT ![next] = IF fate[next] = "kept" THEN fate[next] ELSE "sent"]
      /\ UNCHANGED <<closed, ret, next, closing, got>>
  BY DEF WriteReturns, At, Goto
<1>3. pc'[Writer] = "idle" /\ Writer \notin closing
  BY <1>2, Moves, NotClosing, EndsAssumption
<1>4. /\ next \in 1..MaxWrites /\ fate \in [1..MaxWrites -> {"none", "sent", "kept"}]
      /\ fate[next] = "kept" \/ (fate[next] = "none" /\ a = next)
  BY <1>1, <1>2, ValueTypes DEF WriterInv
<1>5. ReaderInv' /\ StoreInv(a)'
  BY <1>1, <1>2, WriterAlone
<1>6. WriterInv(a)'
  <2>1. \A n \in 1..MaxWrites :
          fate'[n] = IF n = next THEN (IF fate[next] = "kept" THEN "kept" ELSE "sent") ELSE fate[n]
    BY <1>2, <1>4
  <2>2. a \in Nat /\ next \in Nat
    BY <1>4
  <2> QED
    BY <1>1, <1>2, <1>3, <1>4, <2>1, <2>2 DEF WriterInv, Offers, Delivered, Outside
<1> QED
  BY <1>1, <1>5, <1>6 DEF Carried, Holds

(* An end is dropped. *)
LEMMA ValuesClose ==
  ASSUME TypeOK, ControlInv, ReaderInv, ValueInv, NEW c \in Task,
         NEW first \in {"clear", "tail"},
         Close(c, first), UNCHANGED <<r, w, buffer, monitor>>
  PROVE  ReaderInv' /\ Carried
<1>1. PICK a \in 0..MaxWrites : WriterInv(a) /\ StoreInv(a)
  BY DEF ValueInv, Holds
<1>2. /\ pc[c] \in {"idle", "over"} /\ pc' = [pc EXCEPT ![c] = first]
      /\ closed' = TRUE /\ closing' = closing \cup {c}
      /\ UNCHANGED <<ret, next, got, fate>>
  BY DEF Close, At, Goto
<1>3. /\ pc'[Reader] = IF c = Reader THEN first ELSE pc[Reader]
      /\ pc'[Writer] = IF c = Writer THEN first ELSE pc[Writer]
  BY <1>2, Moves
<1>4. Outside(Reader)' = Outside(Reader) /\ Outside(Writer)' = Outside(Writer)
  BY <1>2, <1>3, EndsAssumption DEF Outside
<1>5. InHand' = InHand
  BY <1>2, <1>4 DEF InHand
<1>6. ReaderInv'
  BY <1>2, <1>3, <1>5 DEF ReaderInv
<1>7. WriterInv(a)'
  <2>1. CASE c = Writer
    BY <1>1, <1>2, <1>3, <1>4, <2>1 DEF WriterInv, Offers, Delivered, Outside
  <2>2. CASE c # Writer
    <3>1. pc'[Writer] = pc[Writer] /\ (Writer \in closing' <=> Writer \in closing)
      BY <1>2, <1>3, <2>2
    <3> QED
      BY <1>1, <1>2, <1>4, <3>1 DEF WriterInv, Offers, Delivered
  <2> QED
    BY <2>1, <2>2
<1>8. StoreInv(a)'
  <2>1. Out' = Out /\ Read' = Read /\ Written(a)' = Written(a)
    BY <1>2, <1>3, <1>5 DEF Out, Read, Written
  <2> QED
    BY <1>1, <1>2, <1>3, <2>1 DEF StoreInv
<1> QED
  BY <1>1, <1>6, <1>7, <1>8 DEF Carried, Holds

-----------------------------------------------------------------------------
(* Values: the steps of the ring *)

(* The counters apart, after one of them was stored. *)
LEMMA Apart ==
  ASSUME NEW x \in 0..Wrap - 1, NEW y \in 0..Wrap - 1
  PROVE  /\ (x - y) % Wrap > 0 => (x - ((y + 1) % Wrap)) % Wrap = ((x - y) % Wrap) - 1
         /\ (x - y) % Wrap < Wrap - 1 => (((x + 1) % Wrap) - y) % Wrap = ((x - y) % Wrap) + 1
<1>1. Wrap \in Nat \ {0}
  BY SizeAssumption
<1>2. PICK d \in Int : d = (x - y) % Wrap
  BY <1>1, ModRange
<1>3. d = IF x >= y THEN x - y ELSE x - y + Wrap
  BY <1>1, <1>2, ModMinus
<1>4. PICK z \in 0..Wrap - 1 : z = (y + 1) % Wrap /\ z = IF y = Wrap - 1 THEN 0 ELSE y + 1
  BY <1>1, CounterStep
<1>5. PICK v \in 0..Wrap - 1 : v = (x + 1) % Wrap /\ v = IF x = Wrap - 1 THEN 0 ELSE x + 1
  BY <1>1, CounterStep
<1>6. (x - z) % Wrap = IF x >= z THEN x - z ELSE x - z + Wrap
  BY <1>1, ModMinus
<1>7. (v - y) % Wrap = IF v >= y THEN v - y ELSE v - y + Wrap
  BY <1>1, ModMinus
<1>8. PICK e \in Int : e = (x - z) % Wrap
  BY <1>1, <1>6
<1>9. PICK f \in Int : f = (v - y) % Wrap
  BY <1>1, <1>7
<1>10. e = (IF x >= z THEN x - z ELSE x - z + Wrap) /\ f = IF v >= y THEN v - y ELSE v - y + Wrap
  BY <1>6, <1>7, <1>8, <1>9
<1>11. (d > 0 => e = d - 1) /\ (d < Wrap - 1 => f = d + 1)
  <2> USE <1>1
  <2>1. z = IF y = Wrap - 1 THEN 0 ELSE y + 1
    BY <1>4
  <2>2. v = IF x = Wrap - 1 THEN 0 ELSE x + 1
    BY <1>5
  <2> QED
    BY <1>3, <1>10, <2>1, <2>2
<1>12. e = (x - ((y + 1) % Wrap)) % Wrap
  BY <1>4, <1>8, Zenon
<1>13. f = (((x + 1) % Wrap) - y) % Wrap
  BY <1>5, <1>9, Zenon
<1> QED
  BY <1>2, <1>11, <1>12, <1>13, Zenon

(* The numbers of the ring at rest. *)
LEMMA RingNumbers ==
  ASSUME TypeOK, NEW a \in 0..MaxWrites, StoreInv(a), monitor = "ring_buffer"
  PROVE  /\ a \in Nat /\ Len(got) \in Nat /\ Size \in Nat \ {0}
         /\ Out \in Nat /\ Read \in Int /\ Written(a) \in Int
         /\ Out <= a /\ Read <= Out /\ Out <= Read + 1
         /\ Written(a) <= a /\ a <= Written(a) + 1
         /\ a - Read <= Size
         /\ pc[Reader] # "store" => Read = Out
         /\ pc[Writer] # "store" => Written(a) = a
         /\ pc[Reader] = "store" => Read = Out - 1
         /\ pc[Writer] = "store" => Written(a) = a - 1
<1>1. Len(got) \in Nat /\ a \in Nat /\ Size \in Nat \ {0}
  BY ValueTypes
<1>2. Out \in Nat
  BY <1>1 DEF Out
<1>3. /\ Read = (IF pc[Reader] = "store" THEN Out - 1 ELSE Out)
      /\ Written(a) = (IF pc[Writer] = "store" THEN a - 1 ELSE a)
  BY <1>1, <1>2 DEF Read, Written
<1>4. /\ Out <= a /\ Written(a) - Read \in 0..Size
      /\ pc[Writer] = "store" => Written(a) - Read < Size
  BY DEF StoreInv
<1> HIDE DEF Out, Read, Written
<1> QED
  BY <1>1, <1>2, <1>3, <1>4

(* The other end's counter is loaded: there is a value, or a free slot. *)
LEMMA ValuesRingLoad ==
  ASSUME TypeOK, ControlInv, ReaderInv, ValueInv, NEW c \in Task, RingLoad(c),
         monitor = "ring_buffer", UNCHANGED <<ringVars, monitor>>
  PROVE  ReaderInv' /\ Carried
<1>1. /\ pc[c] = "load" /\ pc' = [pc EXCEPT ![c] = IF MustWait(c) THEN "park" ELSE "slot"]
      /\ UNCHANGED <<closed, ret, next, closing, got, fate, r, w, buffer, monitor>>
  BY DEF RingLoad, At, Goto, endVars, ringVars
<1>2. c \notin closing
  BY <1>1, NotClosing
<1>3. CASE MustWait(c)
  <2>1. SamePhase(c, "park")
    BY <1>1, <1>2 DEF SamePhase, OfferPlaces, Away, ReaderInv
  <2> QED
    BY <1>1, <1>3, <2>1, ValuesStay
<1>4. CASE ~ MustWait(c)
  <2>1. PICK a \in 0..MaxWrites : WriterInv(a) /\ StoreInv(a)
    BY DEF ValueInv, Holds
  <2>2. /\ pc'[Reader] = IF c = Reader THEN "slot" ELSE pc[Reader]
        /\ pc'[Writer] = IF c = Writer THEN "slot" ELSE pc[Writer]
    BY <1>1, <1>4, Moves
  <2>3. Outside(Reader)' = Outside(Reader) /\ Outside(Writer)' = Outside(Writer)
    BY <1>1, <2>2, EndsAssumption DEF Outside
  <2>4. InHand' = InHand
    BY <1>1, <2>3 DEF InHand
  <2>5. ReaderInv'
    BY <1>1, <2>2, <2>4 DEF ReaderInv
  <2>6. WriterInv(a)'
    BY <1>1, <2>1, <2>2, <2>3 DEF WriterInv, Offers, Delivered
  <2>7. Out' = Out /\ Read' = Read /\ Written(a)' = Written(a)
    <3>1. /\ pc'[Reader] = "store" <=> pc[Reader] = "store"
          /\ pc'[Writer] = "store" <=> pc[Writer] = "store"
      BY <1>1, <2>2
    <3> QED
      BY <1>1, <2>4, <3>1 DEF Out, Read, Written
  <2>8. /\ (w - r) % Wrap = Written(a) - Read /\ Written(a) - Read \in 0..Size
        /\ Read \in Int /\ Written(a) \in Int /\ Size \in Nat
    BY <2>1, RingNumbers DEF StoreInv
  <2>9. /\ c = Reader => Read < Written(a)
        /\ c = Writer => Written(a) - Read < Size
    <3>1. c = Reader => Written(a) - Read # 0
      BY <1>4, <2>8 DEF MustWait
    <3>2. c = Writer => Written(a) - Read # Size
      BY <1>4, <2>8, EndsAssumption DEF MustWait
    <3> QED
      BY <2>8, <3>1, <3>2
  <2>10. StoreInv(a)'
    <3> HIDE DEF Out, Read, Written
    <3> QED
      BY <1>1, <2>1, <2>2, <2>7, <2>9 DEF StoreInv
  <2> QED
    BY <2>1, <2>5, <2>6, <2>10 DEF Carried, Holds
<1> QED
  BY <1>3, <1>4

(* The reader moves the oldest value out of its slot. *)
LEMMA ValuesTake ==
  ASSUME TypeOK, ControlInv, ReaderInv, ValueInv, Take,
         monitor = "ring_buffer", UNCHANGED monitor
  PROVE  ReaderInv' /\ Carried
<1>1. PICK a \in 0..MaxWrites : WriterInv(a) /\ StoreInv(a)
  BY DEF ValueInv, Holds
<1>2. /\ pc[Reader] = "slot" /\ pc' = [pc EXCEPT ![Reader] = "store"]
      /\ ret' = buffer[r % Size] /\ buffer' = [buffer EXCEPT ![r % Size] = 0]
      /\ UNCHANGED <<closed, next, closing, got, fate, r, w>>
  BY DEF Take, At, Goto
<1>3. /\ pc'[Reader] = "store" /\ pc'[Writer] = pc[Writer] /\ Reader \notin closing
  BY <1>2, Moves, NotClosing, EndsAssumption
<1>4. ret = 0 /\ InHand = 0
  BY <1>2 DEF ReaderInv, InHand
<1>5. PICK o \in Nat : o = Out /\ o = Len(got) /\ Read = o
  BY <1>1, <1>2, <1>4, RingNumbers DEF Out
<1>6. PICK v \in Int : v = Written(a)
  BY <1>1, RingNumbers
<1>7. /\ o < v /\ v - o <= Size /\ o <= a /\ a - o <= Size /\ v <= a /\ a \in Nat
      /\ Size \in Nat \ {0}
      /\ (w - r) % Wrap = v - o /\ r % Size = o % Size /\ w % Size = v % Size
      /\ pc[Writer] \in {"slot", "store"} => v - o < Size
      /\ \A n \in o + 1..a : buffer[(n - 1) % Size] = n
      /\ \A k \in 0..Size - 1 : (\A n \in o + 1..a : (n - 1) % Size # k) => buffer[k] = 0
  <2>1. StoreInv(a) /\ Out = o /\ Read = o /\ Written(a) = v
    BY <1>1, <1>5, <1>6
  <2>2. o < v
    BY <1>2, <2>1 DEF StoreInv
  <2>3. o <= a /\ a - o <= Size /\ v <= a /\ a \in Nat /\ Size \in Nat \ {0}
    BY <1>1, <2>1, RingNumbers
  <2>4. /\ v - o \in 0..Size
        /\ (w - r) % Wrap = v - o /\ r % Size = o % Size /\ w % Size = v % Size
        /\ pc[Writer] \in {"slot", "store"} => v - o < Size
    BY <2>1 DEF StoreInv
  <2>5. /\ \A n \in o + 1..a : buffer[(n - 1) % Size] = n
        /\ \A k \in 0..Size - 1 : (\A n \in o + 1..a : (n - 1) % Size # k) => buffer[k] = 0
    BY <2>1 DEF StoreInv
  <2> QED
    BY <2>2, <2>3, <2>4, <2>5
<1>8. o + 1 \in o + 1..a /\ (o + 1) - 1 = o
  BY <1>7
<1>9. ret' = o + 1
  BY <1>2, <1>7, <1>8
<1>10. InHand' = o + 1
  BY <1>2, <1>3, <1>9 DEF InHand, Outside
<1>11. Len(got') = o
  BY <1>2, <1>5
<1>12. Out' = o + 1
  BY <1>10, <1>11 DEF Out
<1>13. Read' = o /\ Written(a)' = v
  BY <1>3, <1>6, <1>12 DEF Read, Written
<1>14. ReaderInv'
  BY <1>2, <1>3, <1>9, <1>10, <1>11 DEF ReaderInv
<1>15. WriterInv(a)'
  BY <1>1, <1>2, <1>3 DEF WriterInv, Offers, Delivered, Outside
<1>16. PICK s \in 0..Size - 1 : s = o % Size
  BY <1>7, ModRange
<1>17. \A k \in 0..Size - 1 : buffer'[k] = IF k = s THEN 0 ELSE buffer[k]
  BY <1>2, <1>7, <1>16, ValueTypes
<1>18. \A n \in o + 2..a : buffer'[(n - 1) % Size] = n
  <2> SUFFICES ASSUME NEW n \in o + 2..a PROVE buffer'[(n - 1) % Size] = n
    OBVIOUS
  <2>1. PICK m \in Nat : m = n - 1 /\ m > o /\ m - o < Size /\ n \in o + 1..a
    BY <1>7
  <2>2. m % Size # s /\ m % Size \in 0..Size - 1
    <3>1. 0 < m - o /\ m - o < Size /\ Size \in Nat \ {0}
      BY <1>7, <2>1
    <3>2. o % Size # m % Size
      BY <3>1, ModDiffer
    <3>3. m % Size \in 0..Size - 1
      BY <3>1, ModRange
    <3> QED
      BY <1>16, <3>2, <3>3
  <2>3. buffer[m % Size] = n
    BY <1>7, <2>1
  <2> QED
    BY <1>17, <2>1, <2>2, <2>3
<1>19. \A k \in 0..Size - 1 : (\A n \in o + 2..a : (n - 1) % Size # k) => buffer'[k] = 0
  <2> SUFFICES ASSUME NEW k \in 0..Size - 1, \A n \in o + 2..a : (n - 1) % Size # k, k # s
               PROVE  buffer'[k] = 0
    BY <1>17
  <2>1. ASSUME NEW n \in o + 1..a PROVE (n - 1) % Size # k
    <3>1. CASE n = o + 1
      BY <1>8, <1>16, <3>1
    <3>2. CASE n # o + 1
      <4>1. n \in o + 2..a
        BY <1>7, <3>2
      <4> QED
        BY <4>1
    <3> QED
      BY <3>1, <3>2
  <2>2. buffer[k] = 0
    BY <1>7, <2>1
  <2> QED
    BY <1>17, <2>2
<1>20. StoreInv(a)'
  <2>1. o + 1 <= a /\ v - o \in 0..Size /\ (o + 1) + 1 = o + 2
    BY <1>7
  <2> QED
    BY <1>2, <1>3, <1>7, <1>12, <1>13, <1>18, <1>19, <2>1 DEF StoreInv
<1> QED
  BY <1>1, <1>14, <1>15, <1>20 DEF Carried, Holds

(* The writer constructs its value in the free slot. *)
LEMMA ValuesPut ==
  ASSUME TypeOK, ControlInv, ReaderInv, ValueInv, Put,
         monitor = "ring_buffer", UNCHANGED monitor
  PROVE  ReaderInv' /\ Accepts
<1>1. PICK a \in 0..MaxWrites : WriterInv(a) /\ StoreInv(a)
  BY DEF ValueInv, Holds
<1>2. /\ pc[Writer] = "slot" /\ pc' = [pc EXCEPT ![Writer] = "store"]
      /\ buffer' = [buffer EXCEPT ![w % Size] = next]
      /\ UNCHANGED <<closed, ret, next, closing, got, fate, r, w>>
  BY DEF Put, At, Goto, endVars
<1>3. /\ pc'[Reader] = pc[Reader] /\ pc'[Writer] = "store" /\ Writer \notin closing
  BY <1>2, Moves, NotClosing, EndsAssumption
<1>4. a = next - 1 /\ next > 0 /\ fate[next] = "none" /\ next \in 0..MaxWrites /\ next \in Nat
  BY <1>1, <1>2, ValueTypes DEF WriterInv, Offers
<1>5. PICK b \in 0..MaxWrites : b = next /\ b = a + 1 /\ fate[b] = "none"
  BY <1>4
<1>6. InHand' = InHand
  BY <1>2, <1>3 DEF InHand, Outside
<1>7. Out' = Out /\ Read' = Read /\ Written(b)' = b - 1
  BY <1>2, <1>3, <1>6 DEF Out, Read, Written
<1>8. PICK o \in Nat, q \in Int : o = Out /\ q = Read
  BY <1>1, RingNumbers
<1>9. /\ o <= a
      /\ q <= o
      /\ a - q < Size
      /\ a - q \in 0..Size
      /\ a \in Nat
      /\ Size \in Nat \ {0}
      /\ (w - r) % Wrap = a - q /\ r % Size = q % Size /\ w % Size = a % Size
      /\ pc[Reader] \in {"slot", "store"} => q < a
      /\ \A n \in o + 1..a : buffer[(n - 1) % Size] = n
      /\ \A k \in 0..Size - 1 : (\A n \in o + 1..a : (n - 1) % Size # k) => buffer[k] = 0
  <2>1. StoreInv(a) /\ Out = o /\ Read = q /\ Written(a) = a
    BY <1>1, <1>2, <1>8, RingNumbers
  <2>2. o <= a /\ q <= o /\ a \in Nat /\ Size \in Nat \ {0}
    BY <1>1, <2>1, RingNumbers
  <2>3. /\ a - q \in 0..Size
        /\ (w - r) % Wrap = a - q /\ r % Size = q % Size /\ w % Size = a % Size
        /\ a - q < Size
        /\ pc[Reader] \in {"slot", "store"} => q < a
    BY <1>2, <2>1 DEF StoreInv
  <2>4. /\ \A n \in o + 1..a : buffer[(n - 1) % Size] = n
        /\ \A k \in 0..Size - 1 : (\A n \in o + 1..a : (n - 1) % Size # k) => buffer[k] = 0
    BY <2>1 DEF StoreInv
  <2> QED
    BY <2>2, <2>3, <2>4
<1>10. ReaderInv'
  BY <1>2, <1>3, <1>6 DEF ReaderInv
<1>11. WriterInv(b)'
  BY <1>1, <1>2, <1>3, <1>4, <1>5 DEF WriterInv, Offers, Delivered, Outside
<1>12. PICK s \in 0..Size - 1 : s = a % Size
  BY <1>9, ModRange
<1>13. \A k \in 0..Size - 1 : buffer'[k] = IF k = s THEN next ELSE buffer[k]
  BY <1>2, <1>9, <1>12, ValueTypes
<1>14. \A n \in o + 1..next : buffer'[(n - 1) % Size] = n
  <2> SUFFICES ASSUME NEW n \in o + 1..next PROVE buffer'[(n - 1) % Size] = n
    OBVIOUS
  <2>1. CASE n = next
    <3>1. n - 1 = a
      BY <1>4, <2>1
    <3> QED
      BY <1>12, <1>13, <2>1, <3>1
  <2>2. CASE n # next
    <3>1. PICK m \in Nat : m = n - 1 /\ a > m /\ a - m < Size /\ n \in o + 1..a
      BY <1>4, <1>9, <2>2
    <3>2. m % Size # s /\ m % Size \in 0..Size - 1
      <4>1. 0 < a - m /\ a - m < Size /\ Size \in Nat \ {0} /\ a \in Nat
        BY <1>9, <3>1
      <4>2. m % Size # a % Size
        BY <4>1, ModDiffer
      <4>3. m % Size \in 0..Size - 1
        BY <4>1, ModRange
      <4> QED
        BY <1>12, <4>2, <4>3
    <3>3. buffer[m % Size] = n
      BY <1>9, <3>1
    <3> QED
      BY <1>13, <3>1, <3>2, <3>3
  <2> QED
    BY <2>1, <2>2
<1>15. \A k \in 0..Size - 1 : (\A n \in o + 1..next : (n - 1) % Size # k) => buffer'[k] = 0
  <2> SUFFICES ASSUME NEW k \in 0..Size - 1, \A n \in o + 1..next : (n - 1) % Size # k
               PROVE  buffer'[k] = 0
    OBVIOUS
  <2>1. next \in o + 1..next /\ next - 1 = a
    BY <1>4, <1>9
  <2>2. k # s
    BY <1>12, <2>1
  <2>3. \A n \in o + 1..a : n \in o + 1..next
    BY <1>4, <1>9
  <2>4. buffer[k] = 0
    BY <1>9, <2>3
  <2> QED
    BY <1>13, <2>2, <2>4
<1>16. StoreInv(b)'
  <2>1. o <= next /\ next - 1 = a
    BY <1>4, <1>9
  <2>2. Out' = o /\ Read' = q /\ Written(b)' = a
    BY <1>7, <1>8, <1>5, <2>1
  <2> QED
    BY <1>2, <1>3, <1>9, <1>14, <1>15, <1>5, <2>1, <2>2 DEF StoreInv
<1> QED
  BY <1>1, <1>5, <1>10, <1>11, <1>16 DEF Accepts, Holds

(* Each end stores its own counter. *)
LEMMA ValuesStore ==
  ASSUME TypeOK, ControlInv, ReaderInv, ValueInv, NEW c \in Task, Store(c),
         monitor = "ring_buffer", UNCHANGED monitor
  PROVE  ReaderInv' /\ Carried
<1>1. PICK a \in 0..MaxWrites : WriterInv(a) /\ StoreInv(a)
  BY DEF ValueInv, Holds
<1>2. /\ pc[c] = "store" /\ pc' = [pc EXCEPT ![c] = "tail"]
      /\ c = Reader => r' = (r + 1) % Wrap /\ w' = w
      /\ c = Writer => w' = (w + 1) % Wrap /\ r' = r
      /\ UNCHANGED <<closed, ret, next, closing, got, fate, buffer>>
  BY EndsAssumption DEF Store, At, Goto, endVars
<1>3. /\ pc'[Reader] = IF c = Reader THEN "tail" ELSE pc[Reader]
      /\ pc'[Writer] = IF c = Writer THEN "tail" ELSE pc[Writer]
      /\ c \notin closing
  BY <1>2, Moves, NotClosing
<1>4. InHand' = InHand
  BY <1>2, <1>3, EndsAssumption DEF InHand, Outside
<1>5. ReaderInv'
  BY <1>2, <1>3, <1>4 DEF ReaderInv
<1>6. WriterInv(a)'
  BY <1>1, <1>2, <1>3, EndsAssumption DEF WriterInv, Offers, Delivered, Outside
<1>7. Out' = Out
  BY <1>2, <1>4 DEF Out
<1>8. /\ r \in 0..Wrap - 1 /\ w \in 0..Wrap - 1 /\ Size \in Nat \ {0} /\ Wrap \in Nat
      /\ Size < Wrap /\ r \in Nat /\ w \in Nat
  BY ValueTypes
<1>9. /\ Out \in Nat /\ Read \in Int /\ Written(a) \in Int /\ Out <= a /\ a \in Nat
      /\ (w - r) % Wrap = Written(a) - Read /\ Written(a) - Read \in 0..Size
      /\ r % Size = Read % Size /\ w % Size = Written(a) % Size
      /\ pc[Reader] \in {"slot", "store"} => Read < Written(a)
      /\ pc[Writer] \in {"slot", "store"} => Written(a) - Read < Size
      /\ \A n \in Out + 1..a : buffer[(n - 1) % Size] = n
      /\ \A k \in 0..Size - 1 : (\A n \in Out + 1..a : (n - 1) % Size # k) => buffer[k] = 0
  <2>1. Out \in Nat /\ Read \in Int /\ Written(a) \in Int /\ Out <= a /\ a \in Nat
    BY <1>1, RingNumbers
  <2> HIDE DEF Out, Read, Written
  <2> QED
    BY <1>1, <2>1 DEF StoreInv
<1>10. CASE c = Reader
  <2>1. pc[Reader] = "store" /\ pc'[Reader] = "tail" /\ pc'[Writer] = pc[Writer]
    BY <1>2, <1>3, <1>10, EndsAssumption
  <2>2. Read = Out - 1 /\ Read' = Out /\ Written(a)' = Written(a) /\ Read \in Nat
    <3>1. Read = Out - 1 /\ Read' = Out' - 0 /\ Written(a)' = Written(a)
      BY <2>1 DEF Read, Written
    <3>2. InHand # 0 /\ Len(got) \in Nat
      BY <2>1, <1>1, NotClosing, EndsAssumption, ValueTypes DEF ReaderInv, InHand, Outside
    <3>3. Out = Len(got) + 1
      BY <3>2 DEF Out
    <3> QED
      BY <1>7, <1>9, <3>1, <3>2, <3>3
  <2>3. r' = (r + 1) % Wrap /\ w' = w
    BY <1>2, <1>10
  <2>4. (w' - r') % Wrap = Written(a) - Out
    <3>1. (w - r) % Wrap > 0
      BY <1>9, <2>1
    <3>2. (w - ((r + 1) % Wrap)) % Wrap = ((w - r) % Wrap) - 1
      BY <1>8, <3>1, Apart
    <3>3. PICK d \in Int : d = (w - r) % Wrap
      BY <1>9
    <3>4. d - 1 = Written(a) - Out
      BY <1>9, <2>2, <3>3
    <3> QED
      BY <2>3, <3>2, <3>3, <3>4
  <2>5. r' % Size = Out % Size
    <3>1. r' % Size = (r + 1) % Size
      BY <1>8, <2>3, CounterStep
    <3>2. (r + 1) % Size = (Read + 1) % Size
      <4>1. PICK x \in Nat, y \in Nat, n \in Nat \ {0} : x = r /\ y = Read /\ n = Size
        BY <1>8, <2>2
      <4>2. x % n = y % n => (x + 1) % n = (y + 1) % n
        BY ModNext
      <4> QED
        BY <1>9, <4>1, <4>2
    <3>3. Read + 1 = Out
      BY <1>9, <2>2
    <3> QED
      BY <3>1, <3>2, <3>3
  <2>6. /\ Written(a) - Out \in 0..Size
        /\ pc[Writer] \in {"slot", "store"} => Written(a) - Out < Size
    BY <1>8, <1>9, <2>1, <2>2
  <2> HIDE DEF Out, Read, Written
  <2>7. StoreInv(a)'
    BY <1>2, <1>7, <1>9, <2>1, <2>2, <2>3, <2>4, <2>5, <2>6 DEF StoreInv
  <2> QED
    BY <1>1, <1>5, <1>6, <2>7 DEF Carried, Holds
<1>11. CASE c = Writer
  <2>1. pc[Writer] = "store" /\ pc'[Writer] = "tail" /\ pc'[Reader] = pc[Reader]
    BY <1>2, <1>3, <1>11, EndsAssumption
  <2>2. Written(a) = a - 1 /\ Written(a)' = a /\ Read' = Read /\ Written(a) \in Nat
    <3>1. Written(a) = a - 1 /\ Written(a)' = a - 0 /\ Read' = Read
      BY <1>7, <2>1 DEF Read, Written
    <3>2. a > 0
      BY <1>1, <2>1 DEF WriterInv, Delivered
    <3> QED
      BY <1>9, <3>1, <3>2
  <2>3. w' = (w + 1) % Wrap /\ r' = r
    BY <1>2, <1>11
  <2>4. (w' - r') % Wrap = a - Read
    <3>1. (w - r) % Wrap < Wrap - 1
      BY <1>8, <1>9, <2>1
    <3>2. (((w + 1) % Wrap) - r) % Wrap = ((w - r) % Wrap) + 1
      BY <1>8, <3>1, Apart
    <3>3. PICK d \in Int : d = (w - r) % Wrap
      BY <1>9
    <3>4. d + 1 = a - Read
      BY <1>9, <2>2, <3>3
    <3> QED
      BY <2>3, <3>2, <3>3, <3>4
  <2>5. w' % Size = a % Size
    <3>1. w' % Size = (w + 1) % Size
      BY <1>8, <2>3, CounterStep
    <3>2. (w + 1) % Size = (Written(a) + 1) % Size
      <4>1. PICK x \in Nat, y \in Nat, n \in Nat \ {0} : x = w /\ y = Written(a) /\ n = Size
        BY <1>8, <2>2
      <4>2. x % n = y % n => (x + 1) % n = (y + 1) % n
        BY ModNext
      <4> QED
        BY <1>9, <4>1, <4>2
    <3>3. Written(a) + 1 = a
      BY <1>9, <2>2
    <3> QED
      BY <3>1, <3>2, <3>3
  <2>6. /\ a - Read \in 0..Size
        /\ pc[Reader] \in {"slot", "store"} => Read < a
    BY <1>8, <1>9, <2>1, <2>2
  <2> HIDE DEF Out, Read, Written
  <2>7. StoreInv(a)'
    BY <1>2, <1>7, <1>9, <2>1, <2>2, <2>3, <2>4, <2>5, <2>6 DEF StoreInv
  <2> QED
    BY <1>1, <1>5, <1>6, <2>7 DEF Carried, Holds
<1> QED
  BY <1>10, <1>11, EndsAssumption

-----------------------------------------------------------------------------
(* Types *)

(* The processor, the waiter and the state of the two ends. *)
MachineTyped ==
  /\ WaiterTypeOK
  /\ pc \in [Task -> Places]
  /\ closed \in BOOLEAN
  /\ peer \in [Task -> Task \cup {NULL}]
  /\ closing \subseteq Task
  /\ reader \in BOOLEAN

(* The values. *)
ValuesTyped ==
  /\ ret \in 0..MaxWrites
  /\ next \in 0..MaxWrites
  /\ got \in Seq(1..MaxWrites)
  /\ fate \in [1..MaxWrites -> {"none", "sent", "kept"}]
  /\ RingTypeOK
  /\ monitor \in Monitors

LEMMA TypeParts == TypeOK <=> MachineTyped /\ ValuesTyped
  BY Zenon DEF TypeOK, EndTypeOK, MachineTyped, ValuesTyped

(* A step that leaves the processor and the waiter alone. *)
LEMMA QuietTyped ==
  ASSUME TypeOK, NEW c \in Task, NEW p \in Places, pc' = [pc EXCEPT ![c] = p],
         UNCHANGED <<waiterVars, peer>>,
         closed' \in BOOLEAN, closing' \subseteq Task, reader' \in BOOLEAN
  PROVE  MachineTyped'
<1>1. UNCHANGED <<current, run_state, no_preempt_flag, ready, waiter, fault, peer>>
  BY DEF waiterVars, dispatchVars
<1>2. MachineTyped
  BY TypeParts
<1>3. WaiterTypeOK'
  BY <1>1, <1>2 DEF MachineTyped, WaiterTypeOK, DispatchTypeOK
<1> QED
  BY <1>1, <1>2, <1>3 DEF MachineTyped

(* A yield. *)
LEMMA YieldTyped ==
  ASSUME TypeOK, ControlInv, NEW c \in Task, c = current, NEW p \in Places,
         pc' = [pc EXCEPT ![c] = p], YieldNow(c),
         UNCHANGED <<peer, closed, closing, reader>>
  PROVE  MachineTyped'
<1>1. /\ waiter' = waiter /\ fault' = fault
      /\ current' \in Task
      /\ run_state' \in [Task -> RunStates]
      /\ no_preempt_flag' \in [Task -> BOOLEAN]
      /\ ready' \in [Task -> Nat]
  BY YieldEffect
<1>2. MachineTyped
  BY TypeParts
<1>3. WaiterTypeOK'
  BY <1>1, <1>2 DEF MachineTyped, WaiterTypeOK, DispatchTypeOK
<1> QED
  BY <1>2, <1>3 DEF MachineTyped

(* The waiter is claimed, given up or taken over. *)
LEMMA WaiterTyped ==
  ASSUME TypeOK, NEW c \in Task, NEW p \in Places, pc' = [pc EXCEPT ![c] = p],
         NEW t \in Task \cup {NULL}, waiter' = [waiter EXCEPT ![Spot] = t],
         UNCHANGED <<current, run_state, no_preempt_flag, ready, fault, closed, closing, reader>>,
         peer' \in [Task -> Task \cup {NULL}]
  PROVE  MachineTyped'
<1>1. MachineTyped
  BY TypeParts
<1>2. WaiterTypeOK'
  BY <1>1 DEF MachineTyped, WaiterTypeOK, DispatchTypeOK
<1> QED
  BY <1>1, <1>2 DEF MachineTyped

LEMMA ValuesTypedStay ==
  ASSUME TypeOK, UNCHANGED <<ret, next, got, fate, r, w, buffer, monitor>>
  PROVE  ValuesTyped'
<1>1. ValuesTyped
  BY TypeParts
<1> QED
  BY <1>1 DEF ValuesTyped, RingTypeOK

(* An assertion leaves everything where it was. *)
LEMMA AssertionKeeps ==
  ASSUME IInv, AssertionFails, UNCHANGED <<reader, ringVars, monitor>>
  PROVE  IInv' /\ Carried
<1>1. /\ fault' = "assertion"
      /\ UNCHANGED <<current, run_state, no_preempt_flag, ready, waiter, pc, closed, ret, next, peer,
                     closing, got, fate, reader, r, w, buffer, monitor>>
  BY DEF AssertionFails, Fail, dispatchVars, endVars, ringVars
<1>2. ValuesTyped'
  BY <1>1, ValuesTypedStay DEF IInv
<1>3. MachineTyped
  BY TypeParts DEF IInv
<1>4. MachineTyped'
  BY <1>1, <1>3 DEF MachineTyped, WaiterTypeOK, DispatchTypeOK
<1>5. ControlInv'
  BY AssertionControl DEF IInv
<1>6. ReaderInv'
  BY <1>1 DEF IInv, ReaderInv, InHand, Outside
<1>7. Carried
  <2>1. pc' = [pc EXCEPT ![Reader] = pc[Reader]]
    BY <1>1, Types, EndsAssumption DEF IInv
  <2> QED
    BY <1>1, <2>1, ValuesStay, EndsAssumption DEF IInv
<1>8. TypeOK'
  BY <1>2, <1>4, TypeParts, PTL
<1> QED
  BY <1>5, <1>6, <1>7, <1>8, StillValues DEF IInv

-----------------------------------------------------------------------------
(* The steps that both monitors have *)

LEMMA ParkKeeps ==
  ASSUME IInv, NEW c \in Task, NEW missed, Park(c, missed),
         missed = IF monitor = "channel_window" THEN "meet" ELSE "load",
         UNCHANGED <<reader, ringVars, monitor>>
  PROVE  IInv' /\ Carried
<1>1. /\ pc[c] = "park"
      /\ UNCHANGED <<closed, ret, next, peer, closing, got, fate, r, w, buffer, reader, monitor>>
  BY DEF Park, At, endVars, ringVars
<1>2. TypeOK /\ ControlInv /\ ReaderInv /\ ValueInv
  BY DEF IInv
<1>3. ValuesTyped'
  BY <1>1, <1>2, ValuesTypedStay
<1>4. c \notin closing /\ (c = Reader /\ monitor = "ring_buffer" => ret = 0)
  BY <1>1, <1>2, NotClosing DEF ReaderInv
<1>5. CASE CanPark(Spot)
  <2>1. /\ waiter' = [waiter EXCEPT ![Spot] = c] /\ pc' = [pc EXCEPT ![c] = "check"]
        /\ UNCHANGED <<current, run_state, no_preempt_flag, ready, fault>>
    BY <1>5 DEF Park, Claim, Goto, dispatchVars
  <2>2. MachineTyped'
    BY <1>1, <1>2, <2>1, WaiterTyped, Types DEF Places
  <2>3. ControlInv'
    BY <1>2, <1>5, ParkClaimsControl
  <2>4. SamePhase(c, "check")
    BY <1>1, <1>4 DEF SamePhase, OfferPlaces, Away
  <2>5. ReaderInv' /\ Carried
    BY <1>1, <1>2, <2>1, <2>4, ValuesStay
  <2> QED
    BY <1>3, <2>2, <2>3, <2>5, TypeParts, StillValues, PTL DEF IInv
<1>6. CASE ~ CanPark(Spot)
  <2>1. UNCHANGED waiterVars /\ pc' = [pc EXCEPT ![c] = missed] /\ missed \in {"meet", "load"}
    BY <1>6 DEF Park, Goto
  <2>2. MachineTyped'
    BY <1>1, <1>2, <2>1, QuietTyped, Types DEF Places
  <2>3. ControlInv'
    BY <1>2, <1>6, ParkMissesControl, ValueTypes
  <2>4. SamePhase(c, missed)
    BY <1>1, <1>4, <2>1 DEF SamePhase, OfferPlaces, Away
  <2>5. ReaderInv' /\ Carried
    BY <1>1, <1>2, <2>1, <2>4, ValuesStay
  <2> QED
    BY <1>3, <2>2, <2>3, <2>5, TypeParts, StillValues, PTL DEF IInv
<1> QED
  BY <1>5, <1>6

(* The check of park_if: only the ring's write ends there, with its value. *)
LEMMA CheckKeeps ==
  ASSUME IInv, NEW c \in Task, NEW told, Check(c, told),
         told = IF monitor = "channel_window" THEN "meet" ELSE "return",
         monitor = "ring_buffer" /\ closed => KeptBy(c),
         monitor = "channel_window" \/ ~ closed => UNCHANGED fate,
         UNCHANGED <<reader, ringVars, monitor>>
  PROVE  IInv' /\ Carried
<1>1. /\ pc[c] = "check"
      /\ UNCHANGED <<closed, ret, next, peer, closing, got, r, w, buffer, reader, monitor>>
  BY DEF Check, At, ringVars
<1>2. TypeOK /\ ControlInv /\ ReaderInv /\ ValueInv
  BY DEF IInv
<1>3. c \notin closing /\ (c = Reader /\ monitor = "ring_buffer" => ret = 0)
  BY <1>1, <1>2, NotClosing DEF ReaderInv
<1>4. monitor \in {"channel_window", "ring_buffer"}
  BY <1>2, ValueTypes
<1>5. CASE closed
  <2>1. /\ waiter' = [waiter EXCEPT ![Spot] = NULL] /\ pc' = [pc EXCEPT ![c] = told]
        /\ UNCHANGED <<current, run_state, no_preempt_flag, ready, fault>>
    BY <1>5 DEF Check, Unclaim, Goto, dispatchVars
  <2>2. MachineTyped'
    BY <1>1, <1>2, <2>1, WaiterTyped, Types DEF Places
  <2>3. ControlInv'
    BY <1>2, <1>4, <1>5, CheckClosedControl
  <2>4. CASE monitor = "ring_buffer" /\ c = Writer
    <3>1. fate' = [fate EXCEPT ![next] = "kept"] /\ told = "return" /\ Offers
      BY <1>1, <1>5, <2>4 DEF KeptBy, Offers
    <3>2. ValuesTyped'
      BY <1>1, <1>2, <3>1, TypeParts DEF ValuesTyped, RingTypeOK
    <3>3. ReaderInv' /\ Carried
      BY <1>1, <1>2, <1>5, <2>1, <2>4, <3>1, ValuesKept
    <3> QED
      BY <2>2, <2>3, <3>2, <3>3, TypeParts, StillValues, PTL DEF IInv
  <2>5. CASE monitor = "channel_window" \/ c = Reader
    <3>1. fate' = fate
      BY <1>4, <1>5, <2>5, EndsAssumption DEF KeptBy
    <3>2. ValuesTyped'
      BY <1>1, <1>2, <3>1, ValuesTypedStay
    <3>3. SamePhase(c, told)
      BY <1>1, <1>3, <2>5, EndsAssumption DEF SamePhase, OfferPlaces, Away
    <3>4. ReaderInv' /\ Carried
      BY <1>1, <1>2, <2>1, <3>1, <3>3, ValuesStay
    <3> QED
      BY <2>2, <2>3, <3>2, <3>4, TypeParts, StillValues, PTL DEF IInv
  <2> QED
    BY <1>4, <2>4, <2>5, EndsAssumption
<1>6. CASE ~ closed
  <2>1. UNCHANGED <<waiterVars, fate>> /\ pc' = [pc EXCEPT ![c] = "wait"]
    BY <1>6 DEF Check, Goto
  <2>2. MachineTyped'
    BY <1>1, <1>2, <2>1, QuietTyped, Types DEF Places
  <2>3. ControlInv'
    BY <1>2, <1>6, CheckOpenControl
  <2>4. SamePhase(c, "wait")
    BY <1>1, <1>3 DEF SamePhase, OfferPlaces, Away
  <2>5. ReaderInv' /\ Carried
    BY <1>1, <1>2, <2>1, <2>4, ValuesStay
  <2>6. ValuesTyped'
    BY <1>1, <1>2, <2>1, ValuesTypedStay
  <2> QED
    BY <2>2, <2>3, <2>5, <2>6, TypeParts, StillValues, PTL DEF IInv
<1> QED
  BY <1>5, <1>6

LEMMA WaitInSpotKeeps ==
  ASSUME IInv, NEW c \in Task, WaitInSpot(c), UNCHANGED <<reader, ringVars, monitor>>
  PROVE  IInv' /\ Carried
<1>1. /\ pc[c] = "wait" /\ pc' = [pc EXCEPT ![c] = "sleep"]
      /\ run_state' = [run_state EXCEPT ![c] = "WAITING"]
      /\ UNCHANGED <<current, no_preempt_flag, ready, waiter, fault>>
      /\ UNCHANGED <<closed, ret, next, peer, closing, got, fate, r, w, buffer, reader, monitor>>
  BY DEF WaitInSpot, Wait, At, Goto, endVars, ringVars
<1>2. TypeOK /\ ControlInv /\ ReaderInv /\ ValueInv
  BY DEF IInv
<1>3. ValuesTyped'
  BY <1>1, <1>2, ValuesTypedStay
<1>4. MachineTyped'
  <2>1. MachineTyped
    BY <1>2, TypeParts
  <2>2. WaiterTypeOK'
    BY <1>1, <2>1 DEF MachineTyped, WaiterTypeOK, DispatchTypeOK, RunStates
  <2> QED
    BY <1>1, <2>1, <2>2 DEF MachineTyped, Places
<1>5. ControlInv'
  BY <1>2, WaitInSpotControl
<1>6. c \notin closing /\ (c = Reader /\ monitor = "ring_buffer" => ret = 0)
  BY <1>1, <1>2, NotClosing DEF ReaderInv
<1>7. SamePhase(c, "sleep")
  BY <1>1, <1>6 DEF SamePhase, OfferPlaces, Away
<1>8. ReaderInv' /\ Carried
  BY <1>1, <1>2, <1>7, ValuesStay
<1> QED
  BY <1>3, <1>4, <1>5, <1>8, TypeParts, StillValues, PTL DEF IInv

LEMMA SleepKeeps ==
  ASSUME IInv, NEW c \in Task, NEW woken, Sleep(c, woken),
         woken = IF monitor = "channel_window" THEN "woken" ELSE "load",
         UNCHANGED <<reader, ringVars, monitor>>
  PROVE  IInv' /\ Carried
<1>1. /\ pc[c] = "sleep" /\ pc' = [pc EXCEPT ![c] = woken] /\ c = current /\ YieldNow(c)
      /\ woken \in {"woken", "load"}
      /\ UNCHANGED <<closed, ret, next, peer, closing, got, fate, r, w, buffer, reader, monitor>>
  BY DEF Sleep, At, Running, Goto, endVars, ringVars
<1>2. TypeOK /\ ControlInv /\ ReaderInv /\ ValueInv
  BY DEF IInv
<1>3. ValuesTyped'
  BY <1>1, <1>2, ValuesTypedStay
<1>4. MachineTyped'
  BY <1>1, <1>2, YieldTyped DEF Places
<1>5. ControlInv'
  BY <1>2, SleepControl, ValueTypes
<1>6. c \notin closing /\ (c = Reader /\ monitor = "ring_buffer" => ret = 0)
  BY <1>1, <1>2, NotClosing DEF ReaderInv
<1>7. SamePhase(c, woken)
  BY <1>1, <1>6 DEF SamePhase, OfferPlaces, Away
<1>8. ReaderInv' /\ Carried
  BY <1>1, <1>2, <1>7, ValuesStay
<1> QED
  BY <1>3, <1>4, <1>5, <1>8, TypeParts, StillValues, PTL DEF IInv

LEMMA UnparkTailKeeps ==
  ASSUME IInv, NEW c \in Task, UnparkTail(c), UNCHANGED <<reader, ringVars, monitor>>
  PROVE  IInv' /\ Carried
<1>1. /\ pc[c] = "tail" /\ c = current
      /\ UNCHANGED <<closed, ret, next, closing, got, fate, r, w, buffer, reader, monitor>>
  BY DEF UnparkTail, At, Running, ringVars
<1>2. TypeOK /\ ControlInv /\ ReaderInv /\ ValueInv
  BY DEF IInv
<1>3. ValuesTyped'
  BY <1>1, <1>2, ValuesTypedStay
<1>4. c = Writer /\ c \notin closing => Delivered
  BY <1>1 DEF Delivered
<1>5. CASE ~ Unparks
  <2>1. PICK p \in {"done", "return"} : p = IF c \in closing THEN "done" ELSE "return"
    OBVIOUS
  <2>2. UNCHANGED <<waiterVars, peer>> /\ pc' = [pc EXCEPT ![c] = p]
    BY <1>5, <2>1 DEF UnparkTail, Leave, Goto
  <2>3. MachineTyped'
    BY <1>1, <1>2, <2>2, QuietTyped, Types DEF Places
  <2>4. ControlInv'
    BY <1>2, <1>5, UnparkTailLeavesControl
  <2>5. SamePhase(c, p)
    BY <1>1, <1>4, <2>1 DEF SamePhase, OfferPlaces, Away
  <2>6. ReaderInv' /\ Carried
    BY <1>1, <1>2, <2>2, <2>5, ValuesStay
  <2> QED
    BY <1>3, <2>3, <2>4, <2>6, TypeParts, StillValues, PTL DEF IInv
<1>6. CASE Unparks /\ IsParked(Spot)
  <2>1. /\ waiter' = [waiter EXCEPT ![Spot] = NULL] /\ pc' = [pc EXCEPT ![c] = "wake"]
        /\ peer' = [peer EXCEPT ![c] = waiter[Spot]]
        /\ UNCHANGED <<current, run_state, no_preempt_flag, ready, fault>>
    BY <1>6 DEF UnparkTail, TakeOut, Unclaim, Goto, dispatchVars
  <2>2. peer' \in [Task -> Task \cup {NULL}]
    BY <1>2, <2>1, Types, SpotAssumption
  <2>3. MachineTyped'
    BY <1>1, <1>2, <2>1, <2>2, WaiterTyped DEF Places
  <2>4. ControlInv'
    BY <1>2, <1>6, UnparkTailTakesControl
  <2>5. SamePhase(c, "wake")
    BY <1>1, <1>4 DEF SamePhase, OfferPlaces, Away
  <2>6. ReaderInv' /\ Carried
    BY <1>1, <1>2, <2>1, <2>5, ValuesStay
  <2> QED
    BY <1>3, <2>3, <2>4, <2>6, TypeParts, StillValues, PTL DEF IInv
<1>7. CASE Unparks /\ ~ IsParked(Spot)
  <2>1. YieldNow(c) /\ UNCHANGED <<pc, peer>>
    BY <1>7 DEF UnparkTail
  <2>2. pc' = [pc EXCEPT ![c] = pc[c]] /\ pc[c] \in Places
    BY <1>2, <2>1, Types
  <2>3. MachineTyped'
    BY <1>1, <1>2, <2>1, <2>2, YieldTyped
  <2>4. ControlInv'
    BY <1>2, <1>7, UnparkTailYieldsControl
  <2>5. ReaderInv' /\ Carried
    BY <1>1, <1>2, <2>2, ValuesStay
  <2> QED
    BY <1>3, <2>3, <2>4, <2>5, TypeParts, StillValues, PTL DEF IInv
<1> QED
  BY <1>5, <1>6, <1>7

LEMMA WakePeerKeeps ==
  ASSUME IInv, NEW c \in Task, WakePeer(c), UNCHANGED <<reader, ringVars, monitor>>
  PROVE  IInv' /\ Carried
<1>1. CASE run_state[peer[c]] = "WAITING"
  <2>1. PICK p \in {"done", "return"} : p = IF c \in closing THEN "done" ELSE "return"
    OBVIOUS
  <2>2. /\ pc[c] = "wake" /\ pc' = [pc EXCEPT ![c] = p]
        /\ run_state' = [run_state EXCEPT ![peer[c]] = "SUSPENDED"] /\ ready' = Push(ready, peer[c])
        /\ UNCHANGED <<current, no_preempt_flag, waiter, fault>>
        /\ UNCHANGED <<closed, ret, next, peer, closing, got, fate, r, w, buffer, reader, monitor>>
    BY <1>1, <2>1 DEF WakePeer, Resume, Leave, At, Goto, endVars, ringVars
  <2>3. TypeOK /\ ControlInv /\ ReaderInv /\ ValueInv
    BY DEF IInv
  <2>4. ValuesTyped'
    BY <2>2, <2>3, ValuesTypedStay
  <2>5. MachineTyped'
    <3>1. MachineTyped /\ ready \in [Task -> Nat]
      BY <2>3, TypeParts, Types
    <3>2. ready' \in [Task -> Nat]
      <4>1. PICK t \in Task : t = peer[c]
        BY <2>2, <2>3, Ends DEF ControlInv, SpotInv
      <4>2. PICK k \in Nat : k = ready[t] + 1
        BY <3>1
      <4>3. ready' = [ready EXCEPT ![t] = k]
        BY <2>2, <4>1, <4>2 DEF Push
      <4> QED
        BY <3>1, <4>3
    <3>3. WaiterTypeOK'
      BY <2>2, <3>1, <3>2 DEF MachineTyped, WaiterTypeOK, DispatchTypeOK, RunStates
    <3> QED
      BY <2>2, <3>1, <3>3 DEF MachineTyped, Places
  <2>6. ControlInv'
    BY <1>1, <2>3, WakePeerControl
  <2>7. SamePhase(c, p)
    BY <2>1, <2>2 DEF SamePhase, OfferPlaces, Away, Delivered
  <2>8. ReaderInv' /\ Carried
    BY <2>2, <2>3, <2>7, ValuesStay
  <2> QED
    BY <2>4, <2>5, <2>6, <2>8, TypeParts, StillValues, PTL DEF IInv
<1>2. CASE run_state[peer[c]] # "WAITING"
  BY <1>2, AssertionKeeps DEF WakePeer
<1> QED
  BY <1>1, <1>2

LEMMA ReadReturnsKeeps ==
  ASSUME IInv, ReadReturns, UNCHANGED <<reader, ringVars, monitor>>
  PROVE  IInv' /\ Carried
<1>1. PICK p \in {"over", "idle"} : p = IF ret = 0 THEN "over" ELSE "idle"
  OBVIOUS
<1>2. /\ pc' = [pc EXCEPT ![Reader] = p] /\ got' = (IF ret = 0 THEN got ELSE Append(got, ret))
      /\ UNCHANGED waiterVars
      /\ UNCHANGED <<closed, ret, next, peer, closing, fate, r, w, buffer, reader, monitor>>
  BY <1>1 DEF ReadReturns, Goto, ringVars
<1>3. TypeOK /\ ControlInv /\ ReaderInv /\ ValueInv
  BY DEF IInv
<1>4. ValuesTyped'
  <2>1. ret \in 0..MaxWrites /\ got \in Seq(1..MaxWrites) /\ MaxWrites \in Nat
    BY <1>3, ValueTypes
  <2>2. ret # 0 => ret \in 1..MaxWrites
    BY <2>1
  <2>3. got' \in Seq(1..MaxWrites)
    <3>1. ASSUME NEW x \in 1..MaxWrites PROVE Append(got, x) \in Seq(1..MaxWrites)
      BY <2>1
    <3> QED
      BY <1>2, <2>1, <2>2, <3>1
  <2> QED
    BY <1>2, <1>3, <2>3, TypeParts DEF ValuesTyped, RingTypeOK
<1>5. MachineTyped'
  BY <1>2, <1>3, QuietTyped, Types, EndsAssumption DEF Places
<1>6. ControlInv'
  BY <1>3, ReadReturnsControl
<1>7. ReaderInv' /\ Carried
  BY <1>2, <1>3, ValuesReadReturns
<1> QED
  BY <1>4, <1>5, <1>6, <1>7, TypeParts, StillValues, PTL DEF IInv

LEMMA WriteReturnsKeeps ==
  ASSUME IInv, WriteReturns, UNCHANGED <<reader, ringVars, monitor>>
  PROVE  IInv' /\ Carried
<1>1. /\ pc' = [pc EXCEPT ![Writer] = "idle"]
      /\ fate' = [fate EXCEPT ![next] = IF fate[next] = "kept" THEN fate[next] ELSE "sent"]
      /\ UNCHANGED waiterVars
      /\ UNCHANGED <<closed, ret, next, peer, closing, got, r, w, buffer, reader, monitor>>
  BY DEF WriteReturns, Goto, ringVars
<1>2. TypeOK /\ ControlInv /\ ReaderInv /\ ValueInv
  BY DEF IInv
<1>3. ValuesTyped'
  BY <1>1, <1>2, TypeParts DEF ValuesTyped, RingTypeOK
<1>4. MachineTyped'
  BY <1>1, <1>2, QuietTyped, Types, EndsAssumption DEF Places
<1>5. ControlInv'
  BY <1>2, WriteReturnsControl
<1>6. ReaderInv' /\ Carried
  BY <1>1, <1>2, ValuesWriteReturns
<1> QED
  BY <1>3, <1>4, <1>5, <1>6, TypeParts, StillValues, PTL DEF IInv

LEMMA CloseKeeps ==
  ASSUME IInv, NEW c \in Task, NEW first \in {"clear", "tail"}, Close(c, first),
         first = "clear" <=> monitor = "channel_window", UNCHANGED <<reader, ringVars, monitor>>
  PROVE  IInv' /\ Carried
<1>1. /\ pc' = [pc EXCEPT ![c] = first] /\ closed' = TRUE /\ closing' = closing \cup {c}
      /\ UNCHANGED waiterVars
      /\ UNCHANGED <<ret, next, peer, got, fate, r, w, buffer, reader, monitor>>
  BY DEF Close, Goto, ringVars
<1>2. TypeOK /\ ControlInv /\ ReaderInv /\ ValueInv
  BY DEF IInv
<1>3. ValuesTyped'
  BY <1>1, <1>2, ValuesTypedStay
<1>4. MachineTyped'
  BY <1>1, <1>2, QuietTyped, Types DEF Places
<1>5. ControlInv'
  BY <1>2, CloseControl
<1>6. ReaderInv' /\ Carried
  BY <1>1, <1>2, ValuesClose
<1> QED
  BY <1>3, <1>4, <1>5, <1>6, TypeParts, StillValues, PTL DEF IInv

LEMMA TickKeeps ==
  ASSUME IInv, Tick, UNCHANGED <<reader, ringVars, monitor>>
  PROVE  IInv' /\ Carried
<1>1. /\ YieldNow(current)
      /\ UNCHANGED <<pc, closed, ret, next, peer, closing, got, fate, r, w, buffer, reader, monitor>>
  BY DEF Tick, endVars, ringVars
<1>2. TypeOK /\ ControlInv /\ ReaderInv /\ ValueInv
  BY DEF IInv
<1>3. PICK c \in Task : c = current
  BY <1>2, Types
<1>4. pc' = [pc EXCEPT ![c] = pc[c]] /\ pc[c] \in Places
  BY <1>1, <1>2, Types
<1>5. ValuesTyped'
  BY <1>1, <1>2, ValuesTypedStay
<1>6. MachineTyped'
  BY <1>1, <1>2, <1>3, <1>4, YieldTyped
<1>7. ControlInv'
  BY <1>2, TickControl
<1>8. ReaderInv' /\ Carried
  BY <1>1, <1>2, <1>4, ValuesStay
<1> QED
  BY <1>5, <1>6, <1>7, <1>8, TypeParts, StillValues, PTL DEF IInv

-----------------------------------------------------------------------------
(* The steps of channel_window *)

LEMMA WindowReadKeeps ==
  ASSUME IInv, WindowRead, monitor = "channel_window", UNCHANGED <<ringVars, monitor>>
  PROVE  IInv' /\ Carried
<1>1. CASE reader
  BY <1>1, AssertionKeeps DEF WindowRead
<1>2. CASE ~ reader
  <2>1. /\ pc[Reader] = "idle"
        /\ pc' = [pc EXCEPT ![Reader] = "loop"]
        /\ reader' = TRUE
        /\ ret' = 0
        /\ UNCHANGED waiterVars
        /\ UNCHANGED <<closed, next, peer, closing, got, fate, r, w, buffer, monitor>>
    BY <1>2 DEF WindowRead, At, Goto, ringVars
  <2>2. TypeOK /\ ControlInv /\ ReaderInv /\ ValueInv
    BY DEF IInv
  <2>3. ValuesTyped'
    BY <2>1, <2>2, TypeParts, WritesAssumption DEF ValuesTyped, RingTypeOK
  <2>4. MachineTyped'
    BY <2>1, <2>2, QuietTyped, Types, EndsAssumption DEF Places
  <2>5. ControlInv'
    BY <1>2, <2>2, WindowReadControl
  <2>6. ReaderInv' /\ Carried
    BY <2>1, <2>2, ValuesReadCalled
  <2> QED
    BY <2>3, <2>4, <2>5, <2>6, TypeParts, StillValues, PTL DEF IInv
<1> QED
  BY <1>1, <1>2

LEMMA WindowWriteKeeps ==
  ASSUME IInv, WindowWrite, monitor = "channel_window", UNCHANGED <<ringVars, monitor>>
  PROVE  IInv' /\ Carried
<1>1. /\ pc[Writer] = "idle" /\ pc' = [pc EXCEPT ![Writer] = "loop"]
      /\ next < MaxWrites /\ next' = next + 1
      /\ UNCHANGED waiterVars
      /\ UNCHANGED <<closed, ret, peer, closing, got, fate, reader, r, w, buffer, monitor>>
  BY DEF WindowWrite, At, Goto, ringVars
<1>2. TypeOK /\ ControlInv /\ ReaderInv /\ ValueInv
  BY DEF IInv
<1>3. ValuesTyped'
  <2>1. next' \in 0..MaxWrites
    BY <1>1, <1>2, ValueTypes
  <2> QED
    BY <1>1, <1>2, <2>1, TypeParts DEF ValuesTyped, RingTypeOK
<1>4. MachineTyped'
  BY <1>1, <1>2, QuietTyped, Types, EndsAssumption DEF Places
<1>5. ControlInv'
  BY <1>2, WindowWriteControl
<1>6. ReaderInv' /\ Carried
  BY <1>1, <1>2, ValuesWriteCalled
<1> QED
  BY <1>3, <1>4, <1>5, <1>6, TypeParts, StillValues, PTL DEF IInv

LEMMA LoopKeeps ==
  ASSUME IInv, NEW c \in Task, Loop(c), monitor = "channel_window",
         UNCHANGED <<ringVars, monitor>>
  PROVE  IInv' /\ Carried
<1>1. /\ pc[c] = "loop"
      /\ UNCHANGED waiterVars
      /\ UNCHANGED <<closed, ret, next, peer, closing, got, reader, r, w, buffer, monitor>>
  BY DEF Loop, At, ringVars
<1>2. TypeOK /\ ControlInv /\ ReaderInv /\ ValueInv
  BY DEF IInv
<1>3. ControlInv'
  BY <1>2, LoopControl
<1>4. c \notin closing
  BY <1>1, <1>2, NotClosing
<1>5. CASE closed /\ c = Writer
  <2>1. fate' = [fate EXCEPT ![next] = "kept"] /\ pc' = [pc EXCEPT ![Writer] = "return"] /\ Offers
    BY <1>1, <1>5 DEF Loop, KeptBy, Goto, Offers
  <2>2. ValuesTyped'
    BY <1>1, <1>2, <2>1, TypeParts DEF ValuesTyped, RingTypeOK
  <2>3. MachineTyped'
    BY <1>1, <1>2, <2>1, QuietTyped, Types, EndsAssumption DEF Places
  <2>4. ReaderInv' /\ Carried
    BY <1>1, <1>2, <1>5, <2>1, ValuesKept
  <2> QED
    BY <1>3, <2>2, <2>3, <2>4, TypeParts, StillValues, PTL DEF IInv
<1>6. CASE ~ closed \/ c # Writer
  <2>1. PICK p \in {"park", "return"} : p = IF closed THEN "return" ELSE "park"
    OBVIOUS
  <2>2. fate' = fate /\ pc' = [pc EXCEPT ![c] = p]
    BY <1>1, <1>6, <2>1 DEF Loop, KeptBy, Goto
  <2>3. ValuesTyped'
    BY <1>1, <1>2, <2>2, ValuesTypedStay
  <2>4. MachineTyped'
    BY <1>1, <1>2, <2>2, QuietTyped, Types DEF Places
  <2>5. SamePhase(c, p)
    BY <1>1, <1>4, <1>6, <2>1 DEF SamePhase, OfferPlaces, Away
  <2>6. ReaderInv' /\ Carried
    BY <1>1, <1>2, <2>2, <2>5, ValuesStay
  <2> QED
    BY <1>3, <2>3, <2>4, <2>6, TypeParts, StillValues, PTL DEF IInv
<1> QED
  BY <1>5, <1>6

LEMMA ReadWokenKeeps ==
  ASSUME IInv, ReadWoken, monitor = "channel_window", UNCHANGED <<ringVars, monitor>>
  PROVE  IInv' /\ Carried
<1>1. CASE reader
  BY <1>1, AssertionKeeps DEF ReadWoken
<1>2. CASE ~ reader
  <2>1. /\ pc[Reader] = "woken" /\ pc' = [pc EXCEPT ![Reader] = "tail"]
        /\ UNCHANGED waiterVars
        /\ UNCHANGED <<closed, ret, next, peer, closing, got, fate, reader, r, w, buffer, monitor>>
    BY <1>2 DEF ReadWoken, At, Goto, endVars, ringVars
  <2>2. TypeOK /\ ControlInv /\ ReaderInv /\ ValueInv
    BY DEF IInv
  <2>3. ValuesTyped'
    BY <2>1, <2>2, ValuesTypedStay
  <2>4. MachineTyped'
    BY <2>1, <2>2, QuietTyped, Types, EndsAssumption DEF Places
  <2>5. ControlInv'
    BY <1>2, <2>2, ReadWokenControl
  <2>6. Reader \notin closing
    BY <2>1, <2>2, NotClosing, EndsAssumption
  <2>7. SamePhase(Reader, "tail")
    BY <2>1, <2>6, EndsAssumption DEF SamePhase, OfferPlaces, Away
  <2>8. ReaderInv' /\ Carried
    BY <2>1, <2>2, <2>7, ValuesStay, EndsAssumption
  <2> QED
    BY <2>3, <2>4, <2>5, <2>8, TypeParts, StillValues, PTL DEF IInv
<1> QED
  BY <1>1, <1>2

LEMMA WriteWokenKeeps ==
  ASSUME IInv, WriteWoken, monitor = "channel_window", UNCHANGED <<ringVars, monitor>>
  PROVE  IInv' /\ Carried
<1>1. TypeOK /\ ControlInv /\ ReaderInv /\ ValueInv
  BY DEF IInv
<1>2. CASE closed
  <2>1. /\ pc[Writer] = "woken" /\ pc' = [pc EXCEPT ![Writer] = "return"] /\ reader' = FALSE
        /\ fate' = [fate EXCEPT ![next] = "kept"] /\ Offers
        /\ UNCHANGED waiterVars
        /\ UNCHANGED <<closed, ret, next, peer, closing, got, r, w, buffer, monitor>>
    BY <1>2 DEF WriteWoken, KeptBy, At, Goto, Offers, ringVars
  <2>2. ValuesTyped'
    BY <1>1, <2>1, TypeParts DEF ValuesTyped, RingTypeOK
  <2>3. MachineTyped'
    BY <1>1, <2>1, QuietTyped, Types, EndsAssumption DEF Places
  <2>4. ControlInv'
    BY <1>1, <1>2, WriteWokenClosedControl
  <2>5. ReaderInv' /\ Carried
    BY <1>1, <1>2, <2>1, ValuesKept
  <2> QED
    BY <2>2, <2>3, <2>4, <2>5, TypeParts, StillValues, PTL DEF IInv
<1>3. CASE ~ closed
  <2>1. /\ pc[Writer] = "woken" /\ pc' = [pc EXCEPT ![Writer] = "fill"]
        /\ UNCHANGED waiterVars
        /\ UNCHANGED <<closed, ret, next, peer, closing, got, fate, reader, r, w, buffer, monitor>>
    BY <1>3 DEF WriteWoken, At, Goto, ringVars
  <2>2. ValuesTyped'
    BY <1>1, <2>1, ValuesTypedStay
  <2>3. MachineTyped'
    BY <1>1, <2>1, QuietTyped, Types, EndsAssumption DEF Places
  <2>4. ControlInv'
    BY <1>1, <1>3, WriteWokenOpenControl
  <2>5. Writer \notin closing
    BY <1>1, <2>1, NotClosing, EndsAssumption
  <2>6. SamePhase(Writer, "fill")
    BY <2>1, <2>5, EndsAssumption DEF SamePhase, OfferPlaces, Away
  <2>7. ReaderInv' /\ Carried
    BY <1>1, <2>1, <2>6, ValuesStay, EndsAssumption
  <2> QED
    BY <2>2, <2>3, <2>4, <2>7, TypeParts, StillValues, PTL DEF IInv
<1> QED
  BY <1>2, <1>3

LEMMA WriteFillKeeps ==
  ASSUME IInv, WriteFill, monitor = "channel_window", UNCHANGED <<ringVars, monitor>>
  PROVE  IInv' /\ (Carried \/ (~ closed /\ Accepts))
<1>1. TypeOK /\ ControlInv /\ ReaderInv /\ ValueInv
  BY DEF IInv
<1>2. CASE ~ reader
  BY <1>2, AssertionKeeps DEF WriteFill
<1>3. CASE reader
  <2>1. /\ pc[Writer] = "fill" /\ pc' = [pc EXCEPT ![Writer] = "back"] /\ reader' = FALSE
        /\ ret' = next
        /\ UNCHANGED waiterVars
        /\ UNCHANGED <<closed, next, peer, closing, got, fate, r, w, buffer, monitor>>
    BY <1>3 DEF WriteFill, Filled, At, Goto, ringVars
  <2>2. ~ closed
    BY <1>1, <1>3, <2>1 DEF ControlInv, HandOverInv
  <2>3. ValuesTyped'
    BY <1>1, <2>1, TypeParts DEF ValuesTyped, RingTypeOK
  <2>4. MachineTyped'
    BY <1>1, <2>1, QuietTyped, Types, EndsAssumption DEF Places
  <2>5. ControlInv'
    BY <1>1, <1>3, WriteFillControl
  <2>6. ReaderInv' /\ Accepts
    BY <1>1, <1>3, <2>1, <2>2, ValuesFilled
  <2> QED
    BY <2>2, <2>3, <2>4, <2>5, <2>6, TypeParts, StillValues, PTL DEF IInv
<1> QED
  BY <1>2, <1>3

LEMMA WriteMeetKeeps ==
  ASSUME IInv, WriteMeet, monitor = "channel_window", UNCHANGED <<ringVars, monitor>>
  PROVE  IInv' /\ (Carried \/ Accepts)
<1>1. TypeOK /\ ControlInv /\ ReaderInv /\ ValueInv
  BY DEF IInv
<1>2. /\ pc[Writer] = "meet" /\ Writer = current
      /\ UNCHANGED <<closed, next, peer, closing, got, fate, r, w, buffer, monitor>>
  BY DEF WriteMeet, At, Running, ringVars
<1>3. CASE waiter[Spot] # NULL /\ reader
  <2>1. /\ pc' = [pc EXCEPT ![Writer] = "tail"] /\ reader' = FALSE /\ ret' = next
        /\ UNCHANGED waiterVars
    BY <1>3 DEF WriteMeet, Filled, Goto
  <2>2. ValuesTyped'
    BY <1>1, <1>2, <2>1, TypeParts DEF ValuesTyped, RingTypeOK
  <2>3. MachineTyped'
    BY <1>1, <1>2, <2>1, QuietTyped, Types, EndsAssumption DEF Places
  <2>4. ControlInv'
    BY <1>1, <1>3, WriteMeetFillsControl
  <2>5. CASE closed
    <3>1. FALSE
      <4>1. Writer \notin closing /\ Reader \in closing
        BY <1>1, <1>2, <2>5, NotClosing, Types, EndsAssumption DEF ControlInv, CloseInv
      <4>2. pc[Reader] \in {"clear", "tail", "wake", "done"} /\ run_state[Writer] = "RUNNING"
        BY <1>1, <1>2, <4>1, Runner, EndsAssumption DEF ControlInv, CloseInv
      <4>3. waiter[Spot] \in Task
        BY <1>1, <1>3, Types, SpotAssumption
      <4> QED
        BY <1>1, <1>2, <4>2, <4>3, EndsAssumption DEF ControlInv, SpotInv
    <3> QED
      BY <3>1
  <2>6. CASE ~ closed
    <3>1. ReaderInv' /\ Accepts
      BY <1>1, <1>2, <1>3, <2>1, <2>6, ValuesFilled
    <3> QED
      BY <2>2, <2>3, <2>4, <3>1, TypeParts, StillValues, PTL DEF IInv
  <2> QED
    BY <2>5, <2>6
<1>4. CASE waiter[Spot] = NULL \/ ~ reader
  <2>1. /\ pc' = [pc EXCEPT ![Writer] = "loop"] /\ YieldNow(Writer) /\ UNCHANGED <<ret, reader>>
    BY <1>4 DEF WriteMeet, Goto
  <2>2. ValuesTyped'
    BY <1>1, <1>2, <2>1, ValuesTypedStay
  <2>3. MachineTyped'
    BY <1>1, <1>2, <2>1, YieldTyped, EndsAssumption DEF Places
  <2>4. ControlInv'
    BY <1>1, <1>4, WriteMeetYieldsControl
  <2>5. Writer \notin closing
    BY <1>1, <1>2, NotClosing, EndsAssumption
  <2>6. SamePhase(Writer, "loop")
    BY <1>2, <2>5, EndsAssumption DEF SamePhase, OfferPlaces, Away
  <2>7. ReaderInv' /\ Carried
    BY <1>1, <1>2, <2>1, <2>6, ValuesStay, EndsAssumption
  <2> QED
    BY <2>2, <2>3, <2>4, <2>7, TypeParts, StillValues, PTL DEF IInv
<1> QED
  BY <1>3, <1>4

LEMMA SwapOrYieldKeeps ==
  ASSUME IInv, NEW c \in Task, NEW from, NEW to, SwapOrYield(c, from, to),
         c = Reader => from = "meet" /\ to = "loop",
         c = Writer => from = "back" /\ to = "back",
         monitor = "channel_window", UNCHANGED <<ringVars, monitor>>
  PROVE  IInv' /\ Carried
<1>1. TypeOK /\ ControlInv /\ ReaderInv /\ ValueInv
  BY DEF IInv
<1>2. /\ pc[c] = from /\ c = current
      /\ UNCHANGED <<closed, ret, next, closing, got, fate, reader, r, w, buffer, monitor>>
  BY DEF SwapOrYield, At, Running, ringVars
<1>3. ValuesTyped'
  BY <1>1, <1>2, ValuesTypedStay
<1>4. c \notin closing
  BY <1>1, <1>2, NotClosing, EndsAssumption
<1>5. CASE IsParked(Spot)
  <2>1. /\ waiter' = [waiter EXCEPT ![Spot] = c] /\ pc' = [pc EXCEPT ![c] = "go"]
        /\ peer' = [peer EXCEPT ![c] = waiter[Spot]]
        /\ UNCHANGED <<current, run_state, no_preempt_flag, ready, fault>>
    BY <1>5 DEF SwapOrYield, Swap, Goto, dispatchVars
  <2>2. peer' \in [Task -> Task \cup {NULL}]
    BY <1>1, <2>1, Types, SpotAssumption
  <2>3. MachineTyped'
    BY <1>1, <1>2, <2>1, <2>2, WaiterTyped DEF Places
  <2>4. ControlInv'
    BY <1>1, <1>5, SwapControl, EndsAssumption
  <2>5. SamePhase(c, "go")
    BY <1>2, <1>4, EndsAssumption DEF SamePhase, OfferPlaces, Away, Delivered
  <2>6. ReaderInv' /\ Carried
    BY <1>1, <1>2, <2>1, <2>5, ValuesStay
  <2> QED
    BY <1>3, <2>3, <2>4, <2>6, TypeParts, StillValues, PTL DEF IInv
<1>6. CASE ~ IsParked(Spot)
  <2>1. YieldNow(c) /\ pc' = [pc EXCEPT ![c] = to] /\ UNCHANGED peer
    BY <1>6 DEF SwapOrYield, Goto
  <2>2. MachineTyped'
    BY <1>1, <1>2, <2>1, YieldTyped, EndsAssumption DEF Places
  <2>3. ControlInv'
    BY <1>1, <1>6, EndsAssumption, ReadMeetYieldsControl,
         WriteBackYieldsControl DEF ReadMeet, WriteBack
  <2>4. to = pc[c] \/ SamePhase(c, to)
    BY <1>2, <1>4, EndsAssumption DEF SamePhase, OfferPlaces, Away, Delivered
  <2>5. ReaderInv' /\ Carried
    BY <1>1, <1>2, <2>1, <2>4, ValuesStay
  <2> QED
    BY <1>3, <2>2, <2>3, <2>5, TypeParts, StillValues, PTL DEF IInv
<1> QED
  BY <1>5, <1>6

LEMMA GoKeeps ==
  ASSUME IInv, NEW c \in Task, Go(c), monitor = "channel_window",
         UNCHANGED <<ringVars, monitor>>
  PROVE  IInv' /\ Carried
<1>1. TypeOK /\ ControlInv /\ ReaderInv /\ ValueInv
  BY DEF IInv
<1>2. /\ pc[c] = "go" /\ pc' = [pc EXCEPT ![c] = "return"]
      /\ UNCHANGED <<ready, waiter, fault>>
      /\ UNCHANGED <<closed, ret, next, peer, closing, got, fate, reader, r, w, buffer, monitor>>
  BY DEF Go, At, Goto, windowVars, endVars, ringVars
<1>3. ValuesTyped'
  BY <1>1, <1>2, ValuesTypedStay
<1>4. MachineTyped'
  <2>1. MachineTyped /\ run_state \in [Task -> RunStates] /\ no_preempt_flag \in [Task -> BOOLEAN]
    BY <1>1, TypeParts, Types
  <2>2. peer[c] \in Task
    BY <1>1, <1>2, Ends DEF ControlInv, SpotInv
  <2>3. PICK rs \in [Task -> RunStates] : rs = [run_state EXCEPT ![c] = "WAITING"]
    BY <2>1 DEF RunStates
  <2>4. /\ current' = peer[c]
        /\ run_state' = [t \in Task |->
             IF peer[c] # c /\ t = c /\ rs[c] = "RUNNING" THEN "SUSPENDED"
             ELSE IF peer[c] # c /\ t = peer[c] /\ peer[c] \notin {} THEN "RUNNING"
             ELSE rs[t]]
        /\ no_preempt_flag' = [t \in Task |->
             IF t = peer[c] THEN FALSE ELSE IF t = c THEN TRUE ELSE no_preempt_flag[t]]
    BY <2>3 DEF Go, SwitchTo
  <2>5. run_state' \in [Task -> RunStates]
    BY <2>4 DEF RunStates
  <2>6. no_preempt_flag' \in [Task -> BOOLEAN]
    BY <2>1, <2>4
  <2>7. WaiterTypeOK'
    BY <1>2, <2>1, <2>2, <2>4, <2>5, <2>6 DEF MachineTyped, WaiterTypeOK, DispatchTypeOK
  <2> QED
    BY <1>2, <2>1, <2>7 DEF MachineTyped, Places
<1>5. ControlInv'
  BY <1>1, GoControl
<1>6. c \notin closing
  BY <1>1, <1>2, NotClosing
<1>7. SamePhase(c, "return")
  BY <1>2, <1>6 DEF SamePhase, OfferPlaces, Away, Delivered
<1>8. ReaderInv' /\ Carried
  BY <1>1, <1>2, <1>7, ValuesStay
<1> QED
  BY <1>3, <1>4, <1>5, <1>8, TypeParts, StillValues, PTL DEF IInv

LEMMA ClearKeeps ==
  ASSUME IInv, NEW c \in Task, Clear(c), monitor = "channel_window",
         UNCHANGED <<ringVars, monitor>>
  PROVE  IInv' /\ Carried
<1>1. TypeOK /\ ControlInv /\ ReaderInv /\ ValueInv
  BY DEF IInv
<1>2. /\ pc[c] = "clear" /\ pc' = [pc EXCEPT ![c] = "tail"] /\ reader' = FALSE
      /\ UNCHANGED waiterVars
      /\ UNCHANGED <<closed, ret, next, peer, closing, got, fate, r, w, buffer, monitor>>
  BY DEF Clear, At, Goto, endVars, ringVars
<1>3. ValuesTyped'
  BY <1>1, <1>2, ValuesTypedStay
<1>4. MachineTyped'
  BY <1>1, <1>2, QuietTyped, Types DEF Places
<1>5. ControlInv'
  BY <1>1, ClearControl
<1>6. SamePhase(c, "tail")
  BY <1>1, <1>2 DEF SamePhase, OfferPlaces, Away, ControlInv, CloseInv
<1>7. ReaderInv' /\ Carried
  BY <1>1, <1>2, <1>6, ValuesStay
<1> QED
  BY <1>3, <1>4, <1>5, <1>7, TypeParts, StillValues, PTL DEF IInv

-----------------------------------------------------------------------------
(* The steps of ring_buffer *)

LEMMA RingReadKeeps ==
  ASSUME IInv, RingRead, monitor = "ring_buffer", UNCHANGED <<reader, monitor>>
  PROVE  IInv' /\ Carried
<1>1. TypeOK /\ ControlInv /\ ReaderInv /\ ValueInv
  BY DEF IInv
<1>2. /\ pc[Reader] = "idle" /\ pc' = [pc EXCEPT ![Reader] = "load"] /\ ret' = 0
      /\ UNCHANGED waiterVars
      /\ UNCHANGED <<closed, next, peer, closing, got, fate, reader, r, w, buffer, monitor>>
  BY DEF RingRead, At, Goto, ringVars
<1>3. ValuesTyped'
  BY <1>1, <1>2, TypeParts, WritesAssumption DEF ValuesTyped, RingTypeOK
<1>4. MachineTyped'
  BY <1>1, <1>2, QuietTyped, Types, EndsAssumption DEF Places
<1>5. ControlInv'
  BY <1>1, RingReadControl
<1>6. ReaderInv' /\ Carried
  BY <1>1, <1>2, ValuesReadCalled
<1> QED
  BY <1>3, <1>4, <1>5, <1>6, TypeParts, StillValues, PTL DEF IInv

LEMMA RingWriteKeeps ==
  ASSUME IInv, RingWrite, monitor = "ring_buffer", UNCHANGED <<reader, monitor>>
  PROVE  IInv' /\ Carried
<1>1. TypeOK /\ ControlInv /\ ReaderInv /\ ValueInv
  BY DEF IInv
<1>2. PICK p \in {"return", "load"} : p = IF closed THEN "return" ELSE "load"
  OBVIOUS
<1>3. /\ pc[Writer] = "idle" /\ pc' = [pc EXCEPT ![Writer] = p]
      /\ next < MaxWrites /\ next' = next + 1
      /\ fate' = IF p = "return" THEN [fate EXCEPT ![next'] = "kept"] ELSE fate
      /\ UNCHANGED waiterVars
      /\ UNCHANGED <<closed, ret, peer, closing, got, reader, r, w, buffer, monitor>>
  BY <1>2 DEF RingWrite, At, Goto, ringVars
<1>4. ValuesTyped'
  <2>1. next' \in 0..MaxWrites
    BY <1>1, <1>3, ValueTypes
  <2> QED
    BY <1>1, <1>3, <2>1, TypeParts DEF ValuesTyped, RingTypeOK
<1>5. MachineTyped'
  BY <1>1, <1>3, QuietTyped, Types, EndsAssumption DEF Places
<1>6. ControlInv'
  BY <1>1, RingWriteControl
<1>7. ReaderInv' /\ Carried
  BY <1>1, <1>2, <1>3, ValuesWriteCalled
<1> QED
  BY <1>4, <1>5, <1>6, <1>7, TypeParts, StillValues, PTL DEF IInv

LEMMA RingLoadKeeps ==
  ASSUME IInv, NEW c \in Task, RingLoad(c), monitor = "ring_buffer",
         UNCHANGED <<reader, monitor>>
  PROVE  IInv' /\ Carried
<1>1. TypeOK /\ ControlInv /\ ReaderInv /\ ValueInv
  BY DEF IInv
<1>2. PICK p \in {"park", "slot"} : p = IF MustWait(c) THEN "park" ELSE "slot"
  OBVIOUS
<1>3. /\ pc' = [pc EXCEPT ![c] = p]
      /\ UNCHANGED <<waiterVars, ringVars>>
      /\ UNCHANGED <<closed, ret, next, peer, closing, got, fate, reader, r, w, buffer, monitor>>
  BY <1>2 DEF RingLoad, Goto, endVars, ringVars
<1>4. ValuesTyped'
  BY <1>1, <1>3, ValuesTypedStay
<1>5. MachineTyped'
  BY <1>1, <1>3, QuietTyped, Types DEF Places
<1>6. ControlInv'
  BY <1>1, RingLoadControl
<1>7. ReaderInv' /\ Carried
  BY <1>1, <1>3, ValuesRingLoad
<1> QED
  BY <1>4, <1>5, <1>6, <1>7, TypeParts, StillValues, PTL DEF IInv

LEMMA TakeKeeps ==
  ASSUME IInv, Take, monitor = "ring_buffer", UNCHANGED <<reader, monitor>>
  PROVE  IInv' /\ Carried
<1>1. TypeOK /\ ControlInv /\ ReaderInv /\ ValueInv
  BY DEF IInv
<1>2. PICK s \in 0..Size - 1 : s = r % Size
  <2>1. r \in Int /\ Size \in Nat \ {0}
    BY <1>1, ValueTypes
  <2> QED
    BY <2>1, ModRange
<1>3. /\ pc' = [pc EXCEPT ![Reader] = "store"]
      /\ ret' = buffer[s] /\ buffer' = [buffer EXCEPT ![s] = 0]
      /\ UNCHANGED waiterVars
      /\ UNCHANGED <<closed, next, peer, closing, got, fate, reader, r, w, monitor>>
  BY <1>2 DEF Take, Goto
<1>4. ValuesTyped'
  BY <1>1, <1>3, TypeParts, WritesAssumption DEF ValuesTyped, RingTypeOK
<1>5. MachineTyped'
  BY <1>1, <1>3, QuietTyped, Types, EndsAssumption DEF Places
<1>6. ControlInv'
  BY <1>1, TakeControl
<1>7. ReaderInv' /\ Carried
  BY <1>1, ValuesTake
<1> QED
  BY <1>4, <1>5, <1>6, <1>7, TypeParts, StillValues, PTL DEF IInv

LEMMA PutKeeps ==
  ASSUME IInv, Put, monitor = "ring_buffer", UNCHANGED <<reader, monitor>>
  PROVE  IInv' /\ Accepts
<1>1. TypeOK /\ ControlInv /\ ReaderInv /\ ValueInv
  BY DEF IInv
<1>2. /\ pc' = [pc EXCEPT ![Writer] = "store"]
      /\ buffer' = [buffer EXCEPT ![w % Size] = next]
      /\ UNCHANGED waiterVars
      /\ UNCHANGED <<closed, ret, next, peer, closing, got, fate, reader, r, w, monitor>>
  BY DEF Put, Goto, endVars
<1>3. ValuesTyped'
  BY <1>1, <1>2, TypeParts DEF ValuesTyped, RingTypeOK
<1>4. MachineTyped'
  BY <1>1, <1>2, QuietTyped, Types, EndsAssumption DEF Places
<1>5. ControlInv'
  BY <1>1, PutControl
<1>6. ReaderInv' /\ Accepts
  BY <1>1, ValuesPut
<1> QED
  BY <1>3, <1>4, <1>5, <1>6, TypeParts, StillValues, PTL DEF IInv

LEMMA StoreKeeps ==
  ASSUME IInv, NEW c \in Task, Store(c), monitor = "ring_buffer", UNCHANGED <<reader, monitor>>
  PROVE  IInv' /\ Carried
<1>1. TypeOK /\ ControlInv /\ ReaderInv /\ ValueInv
  BY DEF IInv
<1>2. /\ pc' = [pc EXCEPT ![c] = "tail"]
      /\ r' = r \/ r' = (r + 1) % Wrap
      /\ w' = w \/ w' = (w + 1) % Wrap
      /\ UNCHANGED waiterVars
      /\ UNCHANGED <<closed, ret, next, peer, closing, got, fate, reader, buffer, monitor>>
  BY DEF Store, Goto, endVars
<1>3. ValuesTyped'
  <2>1. r' \in 0..Wrap - 1 /\ w' \in 0..Wrap - 1
    <3>1. r \in 0..Wrap - 1 /\ w \in 0..Wrap - 1 /\ Wrap \in Nat \ {0}
      BY <1>1, ValueTypes
    <3>2. (r + 1) % Wrap \in 0..Wrap - 1 /\ (w + 1) % Wrap \in 0..Wrap - 1
      BY <3>1, ModRange
    <3> QED
      BY <1>2, <3>1, <3>2
  <2> QED
    BY <1>1, <1>2, <2>1, TypeParts DEF ValuesTyped, RingTypeOK
<1>4. MachineTyped'
  BY <1>1, <1>2, QuietTyped, Types DEF Places
<1>5. ControlInv'
  BY <1>1, StoreControl
<1>6. ReaderInv' /\ Carried
  BY <1>1, ValuesStore
<1> QED
  BY <1>3, <1>4, <1>5, <1>6, TypeParts, StillValues, PTL DEF IInv

-----------------------------------------------------------------------------
(* The inductive invariant *)

LEMMA InitInv == Init => IInv
<1> SUFFICES ASSUME Init PROVE IInv
  OBVIOUS
<1>1. /\ current \in Task
      /\ run_state = [t \in Task |-> IF t = current THEN "RUNNING" ELSE "SUSPENDED"]
      /\ no_preempt_flag = [t \in Task |-> t # current]
      /\ ready = [t \in Task |-> IF t = current THEN 0 ELSE 1]
      /\ waiter = [s \in Slot |-> NULL]
      /\ fault = "none"
      /\ pc = [t \in Task |-> "idle"]
      /\ closed = FALSE /\ closing = {} /\ reader = FALSE
      /\ peer = [t \in Task |-> NULL]
  BY DEF Init, EndInit, WindowInit
<1>2. /\ ret = 0 /\ next = 0 /\ got = <<>>
      /\ fate = [n \in 1..MaxWrites |-> "none"]
      /\ r = 0 /\ w = 0 /\ buffer = [i \in 0..Size - 1 |-> 0]
      /\ monitor \in Monitors
  BY DEF Init, EndInit, RingInit
<1>3. MachineTyped
  BY <1>1 DEF MachineTyped, WaiterTypeOK, DispatchTypeOK, RunStates, Places
<1>4. ValuesTyped
  <2>1. MaxWrites \in Nat /\ Wrap \in Nat \ {0}
    BY WritesAssumption, SizeAssumption
  <2> QED
    BY <1>2, <2>1 DEF ValuesTyped, RingTypeOK
<1>5. ControlInv
  BY <1>1, <1>2, EndsAssumption, SpotAssumption, NullAssumption
     DEF ControlInv, PlacesInv, CloseInv, SchedInv, SpotInv, HandOverInv
<1>6. pc[Reader] = "idle" /\ pc[Writer] = "idle"
  BY <1>1, EndsAssumption
<1>7. InHand = 0 /\ Outside(Writer)
  BY <1>6 DEF InHand, Outside
<1>8. ReaderInv
  BY <1>2, <1>6, <1>7 DEF ReaderInv
<1>9. WriterInv(0)
  BY <1>1, <1>2, <1>6, WritesAssumption DEF WriterInv, Offers, Delivered
<1>10. StoreInv(0)
  <2>1. Out = 0
    BY <1>2, <1>7 DEF Out
  <2>2. Read = 0 /\ Written(0) = 0
    BY <1>6, <2>1 DEF Read, Written
  <2>3. (0 - 0) % Wrap = 0 /\ Wrap \in Nat /\ Size \in Nat /\ 0 - 0 = 0
    <3>1. Wrap \in Nat \ {0} /\ Size \in Nat
      BY SizeAssumption
    <3>2. 0 \in 0..Wrap - 1
      BY <3>1
    <3>3. (0 - 0) % Wrap = IF 0 >= 0 THEN 0 - 0 ELSE 0 - 0 + Wrap
      BY <3>1, <3>2, ModMinus
    <3> QED
      BY <3>1, <3>3
  <2>4. \A n \in 1..0 : FALSE
    OBVIOUS
  <2> QED
    BY <1>2, <1>6, <2>1, <2>2, <2>3, <2>4 DEF StoreInv
<1> QED
  BY <1>3, <1>4, <1>5, <1>8, <1>9, <1>10, TypeParts, WritesAssumption DEF IInv, ValueInv, Holds

LEMMA WindowStepKeeps ==
  ASSUME IInv, NEW c \in Task, WindowStep(c), monitor = "channel_window",
         UNCHANGED <<ringVars, monitor>>
  PROVE  IInv' /\ (Carried \/ Accepts)
<1>1. CASE Loop(c)
  BY <1>1, LoopKeeps
<1>2. CASE WindowPark(c)
  <2>1. CASE Park(c, "meet")
    BY <1>2, <2>1, ParkKeeps DEF WindowPark
  <2>2. CASE Check(c, "meet") /\ UNCHANGED fate
    BY <1>2, <2>2, CheckKeeps DEF WindowPark
  <2>3. CASE WaitInSpot(c)
    BY <1>2, <2>3, WaitInSpotKeeps DEF WindowPark
  <2>4. CASE Sleep(c, "woken")
    BY <1>2, <2>4, SleepKeeps DEF WindowPark
  <2> QED
    BY <1>2, <2>1, <2>2, <2>3, <2>4 DEF WindowPark
<1>3. CASE Go(c)
  BY <1>3, GoKeeps
<1>4. CASE Clear(c)
  BY <1>4, ClearKeeps
<1>5. CASE WindowCommon(c)
  <2>1. CASE UnparkTail(c)
    BY <1>5, <2>1, UnparkTailKeeps DEF WindowCommon
  <2>2. CASE WakePeer(c)
    BY <1>5, <2>2, WakePeerKeeps DEF WindowCommon
  <2>3. CASE Close(c, "clear")
    BY <1>5, <2>3, CloseKeeps DEF WindowCommon
  <2>4. CASE ReadReturns
    BY <1>5, <2>4, ReadReturnsKeeps DEF WindowCommon
  <2>5. CASE WriteReturns
    BY <1>5, <2>5, WriteReturnsKeeps DEF WindowCommon
  <2> QED
    BY <1>5, <2>1, <2>2, <2>3, <2>4, <2>5 DEF WindowCommon
<1>6. CASE c = Reader /\ WindowRead
  BY <1>6, WindowReadKeeps
<1>7. CASE c = Reader /\ ReadWoken
  BY <1>7, ReadWokenKeeps
<1>8. CASE c = Reader /\ ReadMeet
  <2>1. SwapOrYield(c, "meet", "loop")
    BY <1>8 DEF ReadMeet
  <2> QED
    BY <1>8, <2>1, SwapOrYieldKeeps, EndsAssumption
<1>9. CASE c = Writer /\ WindowWrite
  BY <1>9, WindowWriteKeeps
<1>10. CASE c = Writer /\ WriteWoken
  BY <1>10, WriteWokenKeeps
<1>11. CASE c = Writer /\ WriteFill
  BY <1>11, WriteFillKeeps
<1>12. CASE c = Writer /\ WriteMeet
  BY <1>12, WriteMeetKeeps
<1>13. CASE c = Writer /\ WriteBack
  <2>1. SwapOrYield(c, "back", "back")
    BY <1>13 DEF WriteBack
  <2> QED
    BY <1>13, <2>1, SwapOrYieldKeeps, EndsAssumption
<1> QED
  BY <1>1, <1>2, <1>3, <1>4, <1>5, <1>6, <1>7, <1>8, <1>9, <1>10, <1>11, <1>12,
     <1>13 DEF WindowStep

LEMMA RingStepKeeps ==
  ASSUME IInv, NEW c \in Task, RingStep(c), monitor = "ring_buffer",
         UNCHANGED <<reader, monitor>>
  PROVE  IInv' /\ (Carried \/ Accepts)
<1>1. CASE RingLoad(c)
  BY <1>1, RingLoadKeeps
<1>2. CASE RingPark(c)
  <2>1. CASE Park(c, "load")
    BY <1>2, <2>1, ParkKeeps DEF RingPark
  <2>2. CASE Check(c, "return") /\ IF closed THEN KeptBy(c) ELSE UNCHANGED fate
    BY <1>2, <2>2, CheckKeeps DEF RingPark
  <2>3. CASE WaitInSpot(c)
    BY <1>2, <2>3, WaitInSpotKeeps DEF RingPark
  <2>4. CASE Sleep(c, "load")
    BY <1>2, <2>4, SleepKeeps DEF RingPark
  <2> QED
    BY <1>2, <2>1, <2>2, <2>3, <2>4 DEF RingPark
<1>3. CASE Store(c)
  BY <1>3, StoreKeeps
<1>4. CASE RingCommon(c)
  <2>1. CASE UnparkTail(c)
    BY <1>4, <2>1, UnparkTailKeeps DEF RingCommon
  <2>2. CASE WakePeer(c)
    BY <1>4, <2>2, WakePeerKeeps DEF RingCommon
  <2>3. CASE Close(c, "tail")
    BY <1>4, <2>3, CloseKeeps DEF RingCommon
  <2>4. CASE ReadReturns
    BY <1>4, <2>4, ReadReturnsKeeps DEF RingCommon
  <2>5. CASE WriteReturns
    BY <1>4, <2>5, WriteReturnsKeeps DEF RingCommon
  <2> QED
    BY <1>4, <2>1, <2>2, <2>3, <2>4, <2>5 DEF RingCommon
<1>5. CASE RingRead
  BY <1>5, RingReadKeeps
<1>6. CASE Take
  BY <1>6, TakeKeeps
<1>7. CASE RingWrite
  BY <1>7, RingWriteKeeps
<1>8. CASE Put
  BY <1>8, PutKeeps
<1> QED
  BY <1>1, <1>2, <1>3, <1>4, <1>5, <1>6, <1>7, <1>8 DEF RingStep

LEMMA NextKeeps == IInv /\ [Next]_vars => IInv' /\ (Carried \/ Accepts)
<1> SUFFICES ASSUME IInv, [Next]_vars PROVE IInv' /\ (Carried \/ Accepts)
  OBVIOUS
<1>1. CASE Tick /\ UNCHANGED <<reader, ringVars, monitor>>
  BY <1>1, TickKeeps
<1>2. ASSUME NEW c \in Task, EndStep(c) PROVE IInv' /\ (Carried \/ Accepts)
  BY <1>2, WindowStepKeeps, RingStepKeeps DEF EndStep
<1>3. CASE UNCHANGED vars
  <2>1. UNCHANGED <<current, run_state, no_preempt_flag, ready, waiter, fault, pc, closed, ret, next,
                    peer, closing, got, fate, reader, r, w, buffer, monitor>>
    BY <1>3 DEF vars, waiterVars, dispatchVars, endVars, ringVars
  <2>2. TypeOK /\ ControlInv /\ ReaderInv /\ ValueInv
    BY DEF IInv
  <2>3. ValuesTyped'
    BY <2>1, <2>2, ValuesTypedStay
  <2>4. pc' = [pc EXCEPT ![Reader] = pc[Reader]] /\ pc[Reader] \in Places
    BY <2>1, <2>2, Types, EndsAssumption
  <2>5. MachineTyped'
    BY <2>1, <2>2, <2>4, QuietTyped, Types, EndsAssumption DEF waiterVars, dispatchVars
  <2>6. ControlInv'
    BY <2>1, <2>2 DEF ControlInv, PlacesInv, CloseInv, SchedInv, SpotInv, HandOverInv, Outside
  <2>7. ReaderInv' /\ Carried
    BY <2>1, <2>2, <2>4, ValuesStay, EndsAssumption
  <2> QED
    BY <2>3, <2>5, <2>6, <2>7, TypeParts, StillValues, PTL DEF IInv
<1> QED
  BY <1>1, <1>2, <1>3 DEF Next

(* The inductive invariant holds for any capacity of the ring, any power at
   which its counters wrap and any number of values. *)
THEOREM Invariant == Spec => []IInv
  BY InitInv, NextKeeps, PTL DEF Spec

(* Type correctness of both monitors (channel_window and ring_buffer): the
   counters stay below the wrap and every slot holds a value or none. *)
THEOREM TypeCorrect == Spec => []TypeOK
<1>1. IInv => TypeOK
  BY DEF IInv
<1> QED
  BY <1>1, Invariant, PTL

(* Reads return 1, 2, 3, ... without a gap or a repetition (read, write). *)
THEOREM InOrderAlways == Spec => []InOrder
<1>1. IInv => InOrder
  BY DEF IInv, ReaderInv, InOrder
<1> QED
  BY <1>1, Invariant, PTL

(* A store through _reader hits the frame of a read that has not returned
   (channel_window::write). *)
THEOREM NoDanglingReaderAlways == Spec => []NoDanglingReader
<1>1. IInv => NoDanglingReader
  BY DEF IInv, ControlInv, HandOverInv, NoDanglingReader
<1> QED
  BY <1>1, Invariant, PTL

-----------------------------------------------------------------------------
(* The assertions *)

(* On its way into the waiter, or in it. *)
Awaiting == {"park", "check", "wait", "sleep", "woken"}

(* Between the end of a hand-over, or of close's first lines, and the return. *)
Finishing == {"tail", "wake", "back", "go", "done"}

(* A read whose slot is neither filled nor taken away stays in the waiter,
   also in a channel that is being closed. *)
AwaitInv ==
  /\ reader => pc[Reader] # "idle"
  /\ reader /\ pc[Reader] \in Awaiting =>
       /\ pc[Writer] \notin Finishing
       /\ pc[Reader] \in {"sleep", "woken"} => run_state[Reader] = "WAITING"

(* A step of c to p that wakes nobody and sets _reader for nobody. *)
LEMMA StepAwaits ==
  ASSUME TypeOK, ControlInv, AwaitInv, NEW c \in Task, NEW p,
         pc' = [pc EXCEPT ![c] = p], reader' => reader,
         \A t \in Task : run_state[t] = "WAITING" => run_state'[t] = "WAITING",
         c = Reader /\ p = "idle" => ~ reader',
         c = Reader /\ p \in Awaiting => pc[Reader] \in Awaiting \/ ~ closed,
         c = Reader /\ p \in {"sleep", "woken"} => run_state'[Reader] = "WAITING",
         c = Writer /\ p \in Finishing => pc[Writer] \in Finishing \/ ~ reader'
  PROVE  AwaitInv'
<1>1. /\ Reader \in Task /\ Writer \in Task /\ Reader # Writer /\ c \in {Reader, Writer}
      /\ pc \in [Task -> Places]
  BY Types, EndsAssumption
<1>2. reader /\ ~ closed => pc[Writer] \notin Finishing
  BY <1>1 DEF ControlInv, CloseInv, HandOverInv, Finishing
<1>3. CASE c = Reader
  <2>1. pc'[Reader] = p /\ pc'[Writer] = pc[Writer]
    BY <1>1, <1>3
  <2> QED
    BY <1>1, <1>2, <1>3, <2>1 DEF AwaitInv
<1>4. CASE c = Writer
  <2>1. pc'[Writer] = p /\ pc'[Reader] = pc[Reader]
    BY <1>1, <1>4
  <2> QED
    BY <1>1, <1>4, <2>1 DEF AwaitInv
<1> QED
  BY <1>1, <1>3, <1>4

(* Whom unpark or swap has taken out waits until it is put on its way: the
   assertion of waiter::unpark holds. *)
LEMMA PeerWaits ==
  ASSUME TypeOK, ControlInv, NEW c \in Task, pc[c] \in {"wake", "go"}
  PROVE  run_state[peer[c]] = "WAITING" /\ peer[c] = Other(c)
  BY DEF ControlInv, SpotInv

LEMMA YieldCalm ==
  ASSUME TypeOK, ControlInv, NEW c \in Task, c = current, YieldNow(c)
  PROVE  /\ fault' = fault
         /\ \A t \in Task : run_state[t] = "WAITING" => run_state'[t] = "WAITING"
  BY YieldEffect

LEMMA WindowStepAwaits ==
  ASSUME TypeOK, ControlInv, AwaitInv, NEW c \in Task, WindowStep(c),
         monitor = "channel_window", fault = "none", UNCHANGED monitor
  PROVE  AwaitInv' /\ OnlyWriteAsserts'
<1> USE DEF At, Running, Goto, waiterVars, dispatchVars, endVars
<1>1. /\ Reader \in Task /\ Writer \in Task /\ Reader # Writer /\ c \in {Reader, Writer}
      /\ pc \in [Task -> Places] /\ run_state \in [Task -> RunStates]
  BY Types, EndsAssumption
<1>2. c = current /\ (pc[c] # "sleep" => run_state[c] = "RUNNING")
  <2>1. c = current
    BY EndsAssumption DEF WindowStep, Loop, WindowPark, Park, Check, WaitInSpot, Sleep, Go, Clear,
       WindowCommon, UnparkTail, WakePeer, Close, ReadReturns, WriteReturns, WindowRead,
       ReadWoken, ReadMeet, WriteBack, SwapOrYield, WindowWrite, WriteWoken, WriteFill,
       WriteMeet
  <2> QED
    BY <2>1, Runner
<1>4. CASE Loop(c)
  <2>1. CASE closed
    <3>1. pc' = [pc EXCEPT ![c] = "return"] /\ UNCHANGED <<run_state, reader, fault>>
      BY <1>4, <2>1 DEF Loop
    <3> QED
      BY <3>1, StepAwaits DEF OnlyWriteAsserts, Awaiting, Finishing
  <2>2. CASE ~ closed
    <3>1. pc' = [pc EXCEPT ![c] = "park"] /\ UNCHANGED <<run_state, reader, fault>>
      BY <1>4, <2>2 DEF Loop
    <3> QED
      BY <2>2, <3>1, StepAwaits DEF OnlyWriteAsserts, Awaiting, Finishing
  <2> QED
    BY <2>1, <2>2
<1>5. CASE WindowPark(c)
  <2>1. CASE Park(c, "meet")
    <3>1. PICK p \in {"check", "meet"} :
            pc' = [pc EXCEPT ![c] = p] /\ UNCHANGED <<run_state, reader, fault>>
      BY <1>5, <2>1 DEF WindowPark, Park, Claim
    <3>2. pc[c] = "park"
      BY <2>1 DEF Park
    <3> QED
      BY <1>1, <3>1, <3>2, StepAwaits DEF OnlyWriteAsserts, Awaiting, Finishing
  <2>2. CASE Check(c, "meet")
    <3>1. PICK p \in {"wait", "meet"} :
            pc' = [pc EXCEPT ![c] = p] /\ UNCHANGED <<run_state, reader, fault>>
      BY <1>5, <2>2 DEF WindowPark, Check, Unclaim
    <3>2. pc[c] = "check"
      BY <2>2 DEF Check
    <3> QED
      BY <1>1, <3>1, <3>2, StepAwaits DEF OnlyWriteAsserts, Awaiting, Finishing
  <2>3. CASE WaitInSpot(c)
    <3>1. /\ pc[c] = "wait" /\ pc' = [pc EXCEPT ![c] = "sleep"] /\ UNCHANGED <<reader, fault>>
          /\ run_state' = [run_state EXCEPT ![c] = "WAITING"]
      BY <1>5, <2>3 DEF WindowPark, WaitInSpot, Wait
    <3> QED
      BY <1>1, <3>1, StepAwaits DEF OnlyWriteAsserts, Awaiting, Finishing
  <2>4. CASE Sleep(c, "woken")
    <3>1. /\ pc[c] = "sleep" /\ pc' = [pc EXCEPT ![c] = "woken"] /\ UNCHANGED reader
          /\ fault' = fault
          /\ \A t \in Task : run_state[t] = "WAITING" => run_state'[t] = "WAITING"
      BY <1>2, <1>5, <2>4, YieldCalm DEF WindowPark, Sleep
    <3>2. CASE c = Reader /\ reader
      BY <1>1, <3>1, <3>2, StepAwaits DEF OnlyWriteAsserts, Awaiting, Finishing, AwaitInv
    <3>3. CASE ~ (c = Reader /\ reader)
      <4>1. CASE reader
        BY <1>1, <3>1, <3>3, <4>1, StepAwaits DEF OnlyWriteAsserts, Awaiting, Finishing
      <4>2. CASE ~ reader
        BY <3>1, <4>2 DEF OnlyWriteAsserts, AwaitInv
      <4> QED
        BY <4>1, <4>2
    <3> QED
      BY <3>2, <3>3
  <2> QED
    BY <1>5, <2>1, <2>2, <2>3, <2>4 DEF WindowPark
<1>6. CASE Go(c)
  <2>1. /\ pc[c] = "go" /\ pc' = [pc EXCEPT ![c] = "return"] /\ UNCHANGED <<reader, fault>>
        /\ SwitchTo(c, peer[c], [run_state EXCEPT ![c] = "WAITING"], {})
    BY <1>6 DEF Go, windowVars
  <2>2. peer[c] = Other(c)
    BY <2>1, PeerWaits
  <2>3. CASE c = Writer
    <3>1. pc'[Reader] = pc[Reader] /\ (reader /\ pc[Reader] \in Awaiting => FALSE)
      BY <1>1, <2>1, <2>3 DEF AwaitInv, Finishing
    <3> QED
      BY <2>1, <3>1 DEF AwaitInv, OnlyWriteAsserts
  <2>4. CASE c = Reader
    BY <1>1, <2>1, <2>4 DEF AwaitInv, OnlyWriteAsserts, Awaiting
  <2> QED
    BY <1>1, <2>3, <2>4
<1>7. CASE Clear(c)
  BY <1>7 DEF Clear, AwaitInv, OnlyWriteAsserts
<1>8. CASE WindowCommon(c) /\ UnparkTail(c)
  <2>1. pc[c] = "tail" /\ UNCHANGED reader
    BY <1>8 DEF WindowCommon, UnparkTail
  <2>2. PICK p \in {"done", "return", "wake", "tail"} :
          pc' = [pc EXCEPT ![c] = p] /\ fault' = fault
          /\ \A t \in Task : run_state[t] = "WAITING" => run_state'[t] = "WAITING"
    <3>1. CASE ~ Unparks
      BY <1>8, <3>1 DEF UnparkTail, Leave
    <3>2. CASE Unparks /\ IsParked(Spot)
      BY <1>8, <3>2 DEF UnparkTail, TakeOut, Unclaim
    <3>3. CASE Unparks /\ ~ IsParked(Spot)
      <4>1. YieldNow(c) /\ pc' = pc
        BY <1>8, <3>3 DEF UnparkTail
      <4> QED
        BY <1>1, <1>2, <2>1, <4>1, YieldCalm
    <3> QED
      BY <3>1, <3>2, <3>3
  <2> QED
    BY <1>1, <2>1, <2>2, StepAwaits DEF OnlyWriteAsserts, Awaiting, Finishing
<1>9. CASE WindowCommon(c) /\ WakePeer(c)
  <2>1. /\ pc[c] = "wake" /\ UNCHANGED reader /\ fault' = fault
        /\ pc' = [pc EXCEPT ![c] = IF c \in closing THEN "done" ELSE "return"]
    BY <1>9, PeerWaits DEF WindowCommon, WakePeer, Resume, Leave
  <2>2. CASE c = Writer
    <3>1. pc'[Reader] = pc[Reader] /\ (reader /\ pc[Reader] \in Awaiting => FALSE)
      BY <1>1, <2>1, <2>2 DEF AwaitInv, Finishing
    <3> QED
      BY <2>1, <3>1 DEF AwaitInv, OnlyWriteAsserts
  <2>3. CASE c = Reader
    BY <1>1, <2>1, <2>3 DEF AwaitInv, OnlyWriteAsserts, Awaiting
  <2> QED
    BY <1>1, <2>2, <2>3
<1>10. CASE WindowCommon(c) /\ Close(c, "clear")
  <2>1. pc' = [pc EXCEPT ![c] = "clear"] /\ UNCHANGED <<run_state, reader, fault>>
    BY <1>10 DEF WindowCommon, Close
  <2> QED
    BY <1>1, <2>1, StepAwaits DEF OnlyWriteAsserts, Awaiting, Finishing
<1>11. CASE WindowCommon(c) /\ c = Reader /\ ReadReturns
  <2>1. reader => ret = 0
    BY DEF ControlInv, HandOverInv
  <2>2. PICK p \in {"over", "idle"} :
          /\ pc' = [pc EXCEPT ![c] = p] /\ (p = "idle" => ret # 0)
          /\ UNCHANGED <<run_state, reader, fault>>
    BY <1>11 DEF WindowCommon, ReadReturns
  <2> QED
    BY <1>1, <1>11, <2>1, <2>2, StepAwaits DEF OnlyWriteAsserts, Awaiting, Finishing
<1>12. CASE WindowCommon(c) /\ c = Writer /\ WriteReturns
  <2>1. pc' = [pc EXCEPT ![c] = "idle"] /\ UNCHANGED <<run_state, reader, fault>>
    BY <1>12 DEF WindowCommon, WriteReturns
  <2> QED
    BY <1>1, <1>12, <2>1, StepAwaits DEF OnlyWriteAsserts, Awaiting, Finishing
<1>13. CASE c = Reader /\ WindowRead
  <2>1. ~ reader /\ pc' = [pc EXCEPT ![c] = "loop"] /\ UNCHANGED fault
    BY <1>13 DEF WindowRead, AwaitInv
  <2> QED
    BY <1>1, <1>13, <2>1 DEF OnlyWriteAsserts, AwaitInv, Awaiting
<1>14. CASE c = Reader /\ ReadWoken
  <2>1. ~ reader
    BY <1>2, <1>14 DEF ReadWoken, AwaitInv, Awaiting
  <2> QED
    BY <1>14, <2>1 DEF ReadWoken, OnlyWriteAsserts, AwaitInv
<1>15. CASE c = Reader /\ ReadMeet
  <2>1. SwapOrYield(c, "meet", "loop")
    BY <1>15 DEF ReadMeet
  <2>2. PICK p \in {"go", "loop"} :
          /\ pc' = [pc EXCEPT ![c] = p] /\ fault' = fault /\ UNCHANGED reader
          /\ \A t \in Task : run_state[t] = "WAITING" => run_state'[t] = "WAITING"
    BY <1>2, <2>1, YieldCalm DEF SwapOrYield, Swap
  <2> QED
    BY <1>1, <1>15, <2>2, StepAwaits DEF OnlyWriteAsserts, Awaiting, Finishing
<1>16. CASE c = Writer /\ WindowWrite
  <2>1. pc' = [pc EXCEPT ![c] = "loop"] /\ UNCHANGED <<run_state, reader, fault>>
    BY <1>16 DEF WindowWrite
  <2> QED
    BY <1>1, <1>16, <2>1, StepAwaits DEF OnlyWriteAsserts, Awaiting, Finishing
<1>17. CASE c = Writer /\ WriteWoken
  <2>1. CASE closed
    BY <1>17, <2>1 DEF WriteWoken, AwaitInv, OnlyWriteAsserts
  <2>2. CASE ~ closed
    <3>1. pc' = [pc EXCEPT ![c] = "fill"] /\ UNCHANGED <<run_state, reader, fault>>
      BY <1>17, <2>2 DEF WriteWoken
    <3> QED
      BY <1>1, <1>17, <3>1, StepAwaits DEF OnlyWriteAsserts, Awaiting, Finishing
  <2> QED
    BY <2>1, <2>2
<1>18. CASE c = Writer /\ WriteFill
  <2>1. CASE reader
    BY <1>18, <2>1 DEF WriteFill, Filled, AwaitInv, OnlyWriteAsserts
  <2>2. CASE ~ reader
    BY <1>18, <2>2 DEF WriteFill, AssertionFails, Fail, AwaitInv, OnlyWriteAsserts
  <2> QED
    BY <2>1, <2>2
<1>19. CASE c = Writer /\ WriteMeet
  <2>1. CASE waiter[Spot] # NULL /\ reader
    BY <1>19, <2>1 DEF WriteMeet, Filled, AwaitInv, OnlyWriteAsserts
  <2>2. CASE ~ (waiter[Spot] # NULL /\ reader)
    <3>1. YieldNow(c) /\ pc' = [pc EXCEPT ![c] = "loop"] /\ UNCHANGED reader
      BY <1>19, <2>2 DEF WriteMeet
    <3> QED
      BY <1>1, <1>2, <1>19, <3>1, StepAwaits, YieldCalm
         DEF OnlyWriteAsserts, Awaiting, Finishing
  <2> QED
    BY <2>1, <2>2
<1>20. CASE c = Writer /\ WriteBack
  <2>1. SwapOrYield(c, "back", "back")
    BY <1>20 DEF WriteBack
  <2>2. PICK p \in {"go", "back"} :
          /\ pc' = [pc EXCEPT ![c] = p] /\ fault' = fault /\ UNCHANGED reader
          /\ \A t \in Task : run_state[t] = "WAITING" => run_state'[t] = "WAITING"
    BY <1>2, <2>1, YieldCalm DEF SwapOrYield, Swap
  <2>3. pc[c] = "back"
    BY <2>1 DEF SwapOrYield
  <2> QED
    BY <1>1, <1>20, <2>2, <2>3, StepAwaits DEF OnlyWriteAsserts, Awaiting, Finishing
<1> QED
  BY <1>4, <1>5, <1>6, <1>7, <1>8, <1>9, <1>10, <1>11, <1>12, <1>13, <1>14, <1>15, <1>16,
     <1>17, <1>18, <1>19, <1>20 DEF WindowStep, WindowCommon

LEMMA RingStepAwaits ==
  ASSUME TypeOK, ControlInv, NEW c \in Task, RingStep(c), monitor = "ring_buffer",
         fault = "none", UNCHANGED <<reader, monitor>>
  PROVE  AwaitInv' /\ OnlyWriteAsserts'
<1> USE DEF At, Running, waiterVars, dispatchVars, endVars
<1>1. ~ reader'
  BY DEF ControlInv, PlacesInv
<1>2. fault' = "none"
  <2>1. CASE WakePeer(c)
    BY <2>1, PeerWaits DEF WakePeer, Resume
  <2>2. CASE UnparkTail(c)
    BY <2>2, YieldCalm DEF UnparkTail, TakeOut, Unclaim
  <2>3. CASE RingPark(c)
    BY <2>3, YieldCalm DEF RingPark, Park, Check, WaitInSpot, Sleep, Claim, Unclaim, Wait
  <2>4. CASE ReadReturns \/ WriteReturns \/ Close(c, "tail")
    BY <2>4 DEF ReadReturns, WriteReturns, Close
  <2>5. CASE RingLoad(c) \/ Store(c) \/ RingRead \/ Take \/ RingWrite \/ Put
    BY <2>5 DEF RingLoad, Store, RingRead, Take, RingWrite, Put
  <2> QED
    BY <2>1, <2>2, <2>3, <2>4, <2>5 DEF RingStep, RingCommon
<1> QED
  BY <1>1, <1>2 DEF AwaitInv, OnlyWriteAsserts

(* The one assertion that can fail is that of a woken writer that
   found the channel open; run
   channel_assert shows that it can (the assertions of channel_window::read,
   channel_window::write and waiter::unpark, and sched_node::yield with
   nobody to run). *)
THEOREM OnlyWriteAssertsAlways == Spec => []OnlyWriteAsserts
<1>1. Init => AwaitInv /\ OnlyWriteAsserts
  BY DEF Init, EndInit, WindowInit, AwaitInv, OnlyWriteAsserts
<1>2. IInv /\ AwaitInv /\ OnlyWriteAsserts /\ [Next]_vars => AwaitInv' /\ OnlyWriteAsserts'
  <2> SUFFICES ASSUME IInv, AwaitInv, OnlyWriteAsserts, [Next]_vars
               PROVE  AwaitInv' /\ OnlyWriteAsserts'
    OBVIOUS
  <2>1. TypeOK /\ ControlInv
    BY DEF IInv
  <2>2. CASE UNCHANGED vars
    BY <2>2 DEF vars, waiterVars, dispatchVars, endVars, AwaitInv, OnlyWriteAsserts
  <2>3. CASE Tick /\ UNCHANGED <<reader, ringVars, monitor>>
    <3>1. fault = "none" /\ YieldNow(current) /\ UNCHANGED <<pc, reader>>
      BY <2>3 DEF Tick
    <3>2. current \in Task /\ Reader \in Task
      BY <2>1, Types, EndsAssumption
    <3> QED
      BY <2>1, <3>1, <3>2, YieldCalm DEF AwaitInv, OnlyWriteAsserts
  <2>4. ASSUME NEW c \in Task, EndStep(c) PROVE AwaitInv' /\ OnlyWriteAsserts'
    <3>1. fault = "none"
      BY <2>4 DEF EndStep, WindowStep, RingStep, At, Running, Loop, WindowPark, RingPark, Park,
         Check, WaitInSpot, Sleep, Go, Clear, WindowCommon, RingCommon, UnparkTail, WakePeer,
         Close, ReadReturns, WriteReturns, WindowRead, ReadWoken, ReadMeet, WriteBack,
         SwapOrYield, WindowWrite, WriteWoken, WriteFill, WriteMeet, RingLoad, Store,
         RingRead, Take, RingWrite, Put
    <3> QED
      BY <2>1, <2>4, <3>1, WindowStepAwaits, RingStepAwaits DEF EndStep
  <2> QED
    BY <2>2, <2>3, <2>4 DEF Next
<1> QED
  BY <1>1, <1>2, Invariant, PTL DEF Spec

-----------------------------------------------------------------------------
(* The values on their way are consecutive. *)

(* The values after o, up to a. *)
Run(o, a) == [i \in 1..(a - o) |-> o + i]

LEMMA RunIsSeq ==
  ASSUME NEW o \in Nat, NEW a \in Nat, o <= a
  PROVE  /\ Run(o, a) \in Seq(Nat) /\ Len(Run(o, a)) = a - o
         /\ \A i \in 1..a - o : Run(o, a)[i] = o + i
         /\ DOMAIN Run(o, a) = 1..a - o
<1>1. PICK n \in Nat : n = a - o
  OBVIOUS
<1>2. Run(o, a) = [i \in 1..n |-> o + i]
  BY <1>1 DEF Run
<1>3. [i \in 1..n |-> o + i] \in Seq(Nat) /\ Len([i \in 1..n |-> o + i]) = n
  OBVIOUS
<1> QED
  BY <1>1, <1>2, <1>3

(* Equal length and equal elements. *)
LEMMA RunIs ==
  ASSUME NEW o \in Nat, NEW a \in Nat, o <= a, NEW s \in Seq(Nat),
         Len(s) = a - o, \A i \in 1..a - o : s[i] = o + i
  PROVE  s = Run(o, a)
<1>1. /\ Run(o, a) \in Seq(Nat) /\ Len(Run(o, a)) = a - o
      /\ \A i \in 1..a - o : Run(o, a)[i] = o + i
  BY RunIsSeq
<1> HIDE DEF Run
<1> QED
  BY <1>1, SeqEqual

LEMMA RunAppend ==
  ASSUME NEW o \in Nat, NEW a \in Nat, o <= a, NEW b \in Nat, b = a + 1
  PROVE  Append(Run(o, a), b) = Run(o, b)
<1>1. PICK s \in Seq(Nat) : s = Run(o, a) /\ Len(s) = a - o /\ \A i \in 1..a - o : s[i] = o + i
  BY RunIsSeq
<1>2. Append(s, b) \in Seq(Nat) /\ Len(Append(s, b)) = b - o
  BY <1>1
<1>3. \A i \in 1..b - o : Append(s, b)[i] = o + i
  <2> SUFFICES ASSUME NEW i \in 1..b - o PROVE Append(s, b)[i] = o + i
    OBVIOUS
  <2>1. CASE i = Len(s) + 1
    BY <1>1, <2>1
  <2>2. CASE i # Len(s) + 1
    <3>1. i \in 1..Len(s)
      BY <1>1, <2>2
    <3> QED
      BY <1>1, <3>1
  <2> QED
    BY <2>1, <2>2
<1>4. PICK t \in Seq(Nat) : t = Append(s, b)
  BY <1>2
<1>5. Len(t) = b - o /\ (\A i \in 1..b - o : t[i] = o + i) /\ o <= b
  BY <1>2, <1>3, <1>4
<1>6. t = Run(o, b)
  BY <1>5, RunIs
<1> QED
  BY <1>1, <1>4, <1>6

LEMMA RunTail ==
  ASSUME NEW o \in Nat, NEW a \in Nat, o < a, NEW p \in Nat, p = o + 1
  PROVE  Run(o, a) # <<>> /\ Head(Run(o, a)) = p /\ Tail(Run(o, a)) = Run(p, a)
<1>1. PICK s \in Seq(Nat) : s = Run(o, a) /\ Len(s) = a - o /\ \A i \in 1..a - o : s[i] = o + i
  BY RunIsSeq
<1>2. s # <<>> /\ 1 \in 1..a - o
  BY <1>1
<1>3. Head(s) = p
  BY <1>1, <1>2
<1>4. Tail(s) \in Seq(Nat) /\ Len(Tail(s)) = a - p /\ \A i \in 1..Len(Tail(s)) : Tail(s)[i] = s[i + 1]
  BY <1>1, <1>2, HeadTailProperties
<1>5. \A i \in 1..a - p : Tail(s)[i] = p + i
  BY <1>1, <1>4
<1>6. Tail(s) = Run(p, a)
  <2>1. p <= a
    OBVIOUS
  <2> QED
    BY <1>4, <1>5, <2>1, RunIs
<1> QED
  BY <1>1, <1>2, <1>3, <1>6

LEMMA RunCons ==
  ASSUME NEW o \in Nat, NEW a \in Nat, o < a, NEW p \in Nat, p = o + 1
  PROVE  <<p>> \o Run(p, a) = Run(o, a)
<1>1. PICK s \in Seq(Nat) : s = Run(p, a) /\ Len(s) = a - p /\ \A i \in 1..a - p : s[i] = p + i
  BY RunIsSeq
<1>2. <<p>> \in Seq(Nat) /\ Len(<<p>>) = 1 /\ <<p>>[1] = p
  OBVIOUS
<1>3. /\ <<p>> \o s \in Seq(Nat) /\ Len(<<p>> \o s) = 1 + Len(s)
      /\ \A i \in 1..1 + Len(s) : (<<p>> \o s)[i] = IF i <= 1 THEN <<p>>[i] ELSE s[i - 1]
  BY <1>2, ConcatProperties
<1>4. \A i \in 1..a - o : (<<p>> \o s)[i] = o + i
  <2> SUFFICES ASSUME NEW i \in 1..a - o PROVE (<<p>> \o s)[i] = o + i
    OBVIOUS
  <2>1. CASE i = 1
    BY <1>1, <1>2, <1>3, <2>1
  <2>2. CASE i # 1
    <3>1. i - 1 \in 1..a - p /\ (<<p>> \o s)[i] = s[i - 1]
      BY <1>1, <1>3, <2>2
    <3> QED
      BY <1>1, <3>1
  <2> QED
    BY <2>1, <2>2
<1>5. Len(<<p>> \o s) = a - o
  BY <1>1, <1>3
<1>6. PICK t \in Seq(Nat) : t = <<p>> \o s
  BY <1>3
<1>7. Len(t) = a - o /\ (\A i \in 1..a - o : t[i] = o + i) /\ o <= a
  BY <1>4, <1>5, <1>6
<1>8. t = Run(o, a)
  BY <1>7, RunIs
<1> QED
  BY <1>1, <1>6, <1>8

(* What lies in the ring: the values after Out, up to a. *)
LEMMA BufferedIs ==
  ASSUME TypeOK, ControlInv, ReaderInv, NEW a \in 0..MaxWrites, StoreInv(a)
  PROVE  Buffered = Run(Out, a) /\ Out \in Nat /\ Out <= a
<1>1. /\ Size \in Nat \ {0} /\ Wrap \in Nat \ {0} /\ r \in Nat /\ w \in Nat /\ a \in Nat
      /\ Len(got) \in Nat /\ monitor \in {"channel_window", "ring_buffer"}
      /\ r \in 0..Wrap - 1 /\ w \in 0..Wrap - 1
  BY ValueTypes
<1>2. PICK o \in Nat : o = Out /\ o <= a
  BY <1>1 DEF StoreInv, Out
<1>3. PICK m \in {0, 1}, k \in {0, 1} : /\ m = IF pc[Reader] = "store" THEN 1 ELSE 0
                                        /\ k = IF pc[Writer] = "store" THEN 1 ELSE 0
  OBVIOUS
<1>4. PICK d \in Int : d = (w - r) % Wrap
  <2>1. PICK x \in Int : x = w - r
    BY <1>1
  <2>2. x % Wrap \in Nat
    BY <1>1, ModRange
  <2> QED
    BY <2>1, <2>2
<1>5. Buffered = [i \in 1..d - m + k |-> buffer[(r + m + i - 1) % Size]]
  BY <1>3, <1>4, Zenon DEF Buffered
<1>6. CASE monitor = "channel_window"
  <2>1. m = 0 /\ k = 0 /\ o = a /\ r = w
    BY <1>2, <1>3, <1>6, EndsAssumption DEF ControlInv, PlacesInv, StoreInv
  <2>2. d = 0
    BY <1>1, <1>4, <2>1, ModMinus
  <2>3. d - m + k = 0 /\ a - o = 0
    BY <1>1, <2>1, <2>2
  <2>4. Buffered = <<>> /\ Run(o, a) = <<>>
    BY <1>5, <2>3 DEF Run
  <2> QED
    BY <1>2, <2>4
<1>7. CASE monitor = "ring_buffer"
  <2>1. r % Size = Read % Size /\ \A n \in o + 1..a : buffer[(n - 1) % Size] = n
    BY <1>2, <1>7 DEF StoreInv
  <2>2. d = Written(a) - Read
    BY <1>4, <1>7 DEF StoreInv
  <2>3. Read + m = o /\ Written(a) + k = a /\ Read \in Int /\ Written(a) \in Int
    BY <1>1, <1>2, <1>3 DEF Read, Written
  <2>4. d - m + k = a - o
    <3>1. PICK x \in Int, y \in Int : x = Written(a) /\ y = Read
      BY <2>3
    <3>2. d = x - y /\ y + m = o /\ x + k = a
      BY <2>2, <2>3, <3>1
    <3>3. m \in Int /\ k \in Int
      OBVIOUS
    <3> QED
      BY <1>1, <3>2, <3>3
  <2>5. PICK q \in Nat : q = Read
    <3>1. pc[Reader] = "store" => InHand # 0
      BY <1>7, NotClosing, EndsAssumption DEF InHand, Outside, ReaderInv
    <3> QED
      BY <1>1, <1>2, <3>1 DEF Read, Out
  <2>6. (r + m) % Size = o % Size
    <3>1. CASE m = 0
      <4>1. r + m = r /\ q = o
        BY <1>1, <2>3, <2>5, <3>1
      <4> QED
        BY <2>1, <2>5, <4>1
    <3>2. CASE m = 1
      <4>1. r + m = r + 1 /\ q + 1 = o
        BY <2>3, <2>5, <3>2
      <4>2. r % Size = q % Size => (r + 1) % Size = (q + 1) % Size
        BY <1>1, ModNext
      <4> QED
        BY <2>1, <2>5, <4>1, <4>2
    <3> QED
      BY <3>1, <3>2
  <2>7. ASSUME NEW i \in 1..a - o PROVE buffer[(r + m + i - 1) % Size] = o + i
    <3>1. PICK x \in Nat, j \in Nat : x = r + m /\ j = i - 1
      BY <1>1
    <3>2. x % Size = o % Size => (x + j) % Size = (o + j) % Size
      <4>1. Size \in Nat \ {0}
        BY <1>1
      <4> QED
        BY <4>1, ModShift, Zenon
    <3>3. PICK n \in o + 1..a : n = o + i /\ n - 1 = o + j
      BY <1>1, <3>1
    <3>4. buffer[(n - 1) % Size] = n
      BY <2>1
    <3>5. r + m + i - 1 = x + j
      BY <1>1, <3>1
    <3> QED
      BY <2>6, <3>1, <3>2, <3>3, <3>4, <3>5
  <2>8. Buffered = [i \in 1..(a - o) |-> o + i]
    BY <1>5, <2>4, <2>7
  <2> QED
    BY <1>2, <2>8 DEF Run
<1> QED
  BY <1>1, <1>6, <1>7

WayInv ==
  /\ Len(got) \in Nat
  /\ \A a \in 0..MaxWrites : Holds(a) => OnTheWay = Run(Len(got), a) /\ Len(got) <= a

LEMMA OnTheWayIs == IInv => WayInv
<1> SUFFICES ASSUME IInv, NEW a \in 0..MaxWrites, Holds(a)
             PROVE  OnTheWay = Run(Len(got), a) /\ Len(got) <= a
  BY ValueTypes DEF IInv, WayInv
<1>1. Buffered = Run(Out, a) /\ Out \in Nat /\ Out <= a /\ Len(got) \in Nat /\ a \in Nat
  BY BufferedIs, ValueTypes DEF IInv, Holds
<1>2. PICK l \in Nat : l = Len(got)
  BY <1>1
<1>3. CASE InHand = 0
  <2>1. Out = l
    BY <1>1, <1>2, <1>3 DEF Out
  <2>2. Run(l, a) \in Seq(Nat)
    BY <1>1, <2>1, RunIsSeq
  <2>3. OnTheWay = <<>> \o Run(l, a)
    BY <1>1, <1>3, <2>1 DEF OnTheWay
  <2>4. <<>> \o Run(l, a) = Run(l, a)
    BY <2>2, ConcatEmptySeq
  <2> QED
    BY <1>1, <1>2, <2>1, <2>3, <2>4
<1>4. CASE InHand # 0
  <2>1. PICK p \in Nat : p = l + 1 /\ InHand = p /\ Out = p
    BY <1>1, <1>2, <1>4 DEF IInv, ReaderInv, Out
  <2>2. OnTheWay = <<p>> \o Run(p, a)
    BY <1>1, <1>4, <2>1 DEF OnTheWay
  <2>3. l < a
    BY <1>1, <2>1
  <2>4. <<p>> \o Run(p, a) = Run(l, a)
    BY <1>1, <2>1, <2>3, RunCons
  <2> QED
    BY <1>1, <1>2, <2>1, <2>2, <2>4
<1> QED
  BY <1>3, <1>4

(* A value that write reports as sent has been read or is on its way, and one
   that it hands back is neither, whenever the channel was closed (write). *)
THEOREM SentIsReadAlways == Spec => []SentIsRead
<1>1. IInv => SentIsRead
  <2> SUFFICES ASSUME IInv PROVE SentIsRead
    OBVIOUS
  <2>1. PICK a \in 0..MaxWrites : Holds(a)
    BY DEF IInv, ValueInv
  <2>2. PICK l \in Nat : l = Len(got) /\ DOMAIN got = 1..l /\ \A i \in 1..l : got[i] = i
    <3>1. got \in Seq(1..MaxWrites) /\ Len(got) \in Nat /\ \A i \in DOMAIN got : got[i] = i
      BY ValueTypes DEF IInv, ReaderInv
    <3>2. DOMAIN got = 1..Len(got)
      BY <3>1
    <3> QED
      BY <3>1, <3>2
  <2>3. OnTheWay = Run(l, a) /\ Len(got) <= a
    BY <2>1, <2>2, OnTheWayIs DEF WayInv
  <2>4. a \in Nat /\ MaxWrites \in Nat
    BY ValueTypes DEF IInv
  <2>5. l <= a
    BY <2>2, <2>3
  <2>6. DOMAIN OnTheWay = 1..a - l /\ \A i \in 1..a - l : OnTheWay[i] = l + i
    BY <2>3, <2>4, <2>5, RunIsSeq
  <2> SUFFICES ASSUME NEW n \in 1..MaxWrites
               PROVE  LET read == \/ \E i \in DOMAIN got : got[i] = n
                                  \/ \E i \in DOMAIN OnTheWay : OnTheWay[i] = n
                      IN  (fate[n] = "sent" => read) /\ (fate[n] = "kept" => ~ read)
    BY DEF SentIsRead
  <2> HIDE DEF OnTheWay
  <2>7. (fate[n] = "sent" => n <= a) /\ (fate[n] = "kept" => a < n)
    BY <2>1 DEF Holds, WriterInv
  <2>8. CASE fate[n] = "sent"
    <3>1. n <= l => n \in DOMAIN got /\ got[n] = n
      BY <2>2, <2>4
    <3>2. n > l => n - l \in DOMAIN OnTheWay /\ OnTheWay[n - l] = n
      BY <2>2, <2>4, <2>6, <2>7, <2>8
    <3> QED
      BY <2>2, <2>4, <2>8, <3>1, <3>2
  <2>9. CASE fate[n] = "kept"
    <3>1. \A i \in DOMAIN got : got[i] # n
      BY <2>2, <2>4, <2>5, <2>7, <2>9
    <3>2. \A i \in DOMAIN OnTheWay : OnTheWay[i] # n
      BY <2>2, <2>4, <2>5, <2>6, <2>7, <2>9
    <3> QED
      BY <2>9, <3>1, <3>2
  <2> QED
    BY <2>8, <2>9
<1> QED
  BY <1>1, Invariant, PTL

(* A value is moved only out of a slot in which one lives, and constructed
   only in one in which none does, for any Size and however often the
   counters wrapped (ring_buffer::read and write). *)
THEOREM SlotsSoundAlways == Spec => []SlotsSound
<1>1. IInv => SlotsSound
  <2> SUFFICES ASSUME IInv PROVE SlotsSound
    OBVIOUS
  <2>1. PICK a \in 0..MaxWrites : StoreInv(a)
    BY DEF IInv, ValueInv, Holds
  <2>2. /\ TypeOK /\ ControlInv /\ monitor \in {"channel_window", "ring_buffer"} /\ a \in Nat
        /\ Size \in Nat \ {0}
    BY ValueTypes DEF IInv
  <2>3. ASSUME monitor = "channel_window" PROVE pc[Reader] # "slot" /\ pc[Writer] # "slot"
    BY <2>2, <2>3, EndsAssumption DEF ControlInv, PlacesInv
  <2>4. ASSUME monitor = "ring_buffer", pc[Reader] = "slot" PROVE buffer[r % Size] # 0
    <3>1. PICK o \in Nat : o = Out /\ Read = o
      BY <2>1, <2>2, <2>4, RingNumbers
    <3>2. Read < Written(a) /\ Written(a) <= a /\ Written(a) \in Int
      BY <2>1, <2>2, <2>4, RingNumbers DEF StoreInv
    <3>3. PICK n \in o + 1..a : n = o + 1 /\ n - 1 = o
      BY <2>2, <3>1, <3>2
    <3>4. buffer[(n - 1) % Size] = n
      BY <2>1, <2>4, <3>1 DEF StoreInv
    <3>5. r % Size = o % Size
      BY <2>1, <2>4, <3>1 DEF StoreInv
    <3>6. n # 0
      BY <3>3
    <3> QED
      BY <3>3, <3>4, <3>5, <3>6
  <2>5. ASSUME monitor = "ring_buffer", pc[Writer] = "slot" PROVE buffer[w % Size] = 0
    <3>1. PICK o \in Nat : o = Out /\ Read <= o /\ Read \in Int /\ Written(a) = a
      BY <2>1, <2>2, <2>5, RingNumbers
    <3>2. Written(a) - Read < Size /\ w % Size = Written(a) % Size
      BY <2>1, <2>5 DEF StoreInv
    <3>3. ASSUME NEW n \in o + 1..a PROVE (n - 1) % Size # a % Size
      <4>1. PICK m \in Nat : m = n - 1 /\ 0 < a - m /\ a - m < Size
        BY <2>2, <3>1, <3>2
      <4>2. Size \in Nat \ {0} /\ a \in Nat
        BY <2>2
      <4>3. m % Size # a % Size
        BY <4>1, <4>2, ModDiffer
      <4> QED
        BY <4>1, <4>3
    <3>4. PICK k \in 0..Size - 1 : k = a % Size
      <4>1. a \in Int /\ Size \in Nat \ {0}
        BY <2>2
      <4> QED
        BY <4>1, ModRange
    <3>5. (\A n \in o + 1..a : (n - 1) % Size # k) => buffer[k] = 0
      BY <2>1, <2>5, <3>1 DEF StoreInv
    <3> QED
      BY <3>1, <3>2, <3>3, <3>4, <3>5
  <2> QED
    BY <2>2, <2>3, <2>4, <2>5 DEF SlotsSound
<1> QED
  BY <1>1, Invariant, PTL

-----------------------------------------------------------------------------
(* Both monitors implement the bounded queue *)

(* The queue before and after a step. *)
LEMMA Queues ==
  ASSUME IInv, IInv', NEW a \in 0..MaxWrites, Holds(a), NEW b \in 0..MaxWrites, Holds(b)'
  PROVE  /\ OnTheWay = Run(Len(got), a) /\ Len(got) <= a /\ Len(OnTheWay) = a - Len(got)
         /\ OnTheWay' = Run(Len(got'), b) /\ Len(got') <= b /\ Len(OnTheWay') = b - Len(got')
         /\ Len(got) \in Nat /\ Len(got') \in Nat /\ a \in Nat /\ b \in Nat
         /\ F!Accepted = a
<1>1. WayInv /\ WayInv'
  BY OnTheWayIs, PTL
<1>2. /\ OnTheWay = Run(Len(got), a) /\ Len(got) <= a /\ Len(got) \in Nat
      /\ OnTheWay' = Run(Len(got'), b) /\ Len(got') <= b /\ Len(got') \in Nat
  BY <1>1 DEF WayInv
<1>3. a \in Nat /\ b \in Nat
  OBVIOUS
<1>4. Len(OnTheWay) = a - Len(got)
  <2>1. Len(Run(Len(got), a)) = a - Len(got)
    BY <1>2, <1>3, RunIsSeq
  <2> QED
    BY <1>2, <2>1
<1>5. Len(OnTheWay') = b - Len(got')
  <2>1. Len(Run(Len(got'), b)) = b - Len(got')
    BY <1>2, <1>3, RunIsSeq
  <2> QED
    BY <1>2, <2>1
<1>6. F!Accepted = a
  BY <1>2, <1>3, <1>4 DEF F!Accepted
<1> QED
  BY <1>2, <1>3, <1>4, <1>5, <1>6

(* The queue is never longer than its capacity. *)
WithinCapacity ==
  \A a \in 0..MaxWrites :
    Holds(a) => a - Len(got) <= IF monitor = "ring_buffer" THEN Size + 1 ELSE 1

LEMMA AlwaysWithin == IInv => WithinCapacity
<1> SUFFICES ASSUME IInv, NEW a \in 0..MaxWrites, Holds(a)
             PROVE  a - Len(got) <= IF monitor = "ring_buffer" THEN Size + 1 ELSE 1
  BY DEF WithinCapacity
<1>1. /\ TypeOK /\ StoreInv(a) /\ monitor \in {"channel_window", "ring_buffer"} /\ a \in Nat
      /\ Len(got) \in Nat /\ Size \in Nat
  BY ValueTypes DEF IInv, Holds
<1>2. Out \in Nat /\ Out <= Len(got) + 1
  BY <1>1 DEF Out
<1>3. CASE monitor = "channel_window"
  <2>1. a = Out
    BY <1>1, <1>3 DEF StoreInv
  <2> QED
    BY <1>1, <1>2, <1>3, <2>1
<1>4. CASE monitor = "ring_buffer"
  <2>1. a - Read <= Size /\ Read <= Out /\ Read \in Int
    BY <1>1, <1>4, RingNumbers
  <2> QED
    BY <1>1, <1>2, <1>4, <2>1
<1> QED
  BY <1>1, <1>3, <1>4

(* A step that returns nothing hands over the next value or is not seen. *)
LEMMA PlainRefines ==
  ASSUME IInv, IInv', Carried \/ Accepts, UNCHANGED <<got, fate, closed, monitor>>
  PROVE  [F!Next]_F!fifoVars
<1>1. CASE Carried
  <2>1. PICK a \in 0..MaxWrites : Holds(a) /\ Holds(a)'
    BY <1>1 DEF Carried
  <2>2. OnTheWay = Run(Len(got), a) /\ OnTheWay' = Run(Len(got'), a)
    BY <2>1, Queues
  <2>3. OnTheWay' = OnTheWay
    BY <2>2
  <2> HIDE DEF OnTheWay
  <2> QED
    BY <2>3 DEF F!fifoVars
<1>2. CASE Accepts
  <2>1. PICK a \in 0..MaxWrites, b \in 0..MaxWrites :
          b = a + 1 /\ fate[b] = "none" /\ Holds(a) /\ Holds(b)'
    BY <1>2 DEF Accepts
  <2>2. /\ OnTheWay = Run(Len(got), a) /\ OnTheWay' = Run(Len(got'), b)
        /\ Len(OnTheWay) = a - Len(got) /\ Len(OnTheWay') = b - Len(got')
        /\ Len(got) \in Nat /\ Len(got) <= a /\ a \in Nat /\ b \in Nat
        /\ F!Accepted = a
    BY <2>1, Queues
  <2>3. OnTheWay' = Append(OnTheWay, b)
    BY <2>1, <2>2, RunAppend
  <2>4. PICK k \in Nat : k = IF monitor = "ring_buffer" THEN Size + 1 ELSE 1
    BY SizeAssumption
  <2>5. b - Len(got) <= k
    <3>1. WithinCapacity'
      BY PTL, AlwaysWithin
    <3> QED
      BY <2>1, <2>4, <3>1 DEF WithinCapacity
  <2>6. Len(OnTheWay) < k
    BY <2>1, <2>2, <2>5
  <2>7. F!Accepted < MaxWrites /\ F!Accepted + 1 = b
    BY <2>1, <2>2, WritesAssumption
  <2> HIDE DEF OnTheWay
  <2>8. F!Enqueue
    BY <2>1, <2>3, <2>4, <2>6, <2>7 DEF F!Enqueue
  <2> QED
    BY <2>8 DEF F!Next
<1> QED
  BY <1>1, <1>2

(* A read returns the oldest value. *)
LEMMA ReadReturnsRefines ==
  ASSUME IInv, IInv', Carried, ReadReturns, UNCHANGED monitor
  PROVE  [F!Next]_F!fifoVars
<1>1. CASE ret = 0
  <2>1. UNCHANGED <<got, fate, closed, monitor>>
    BY <1>1 DEF ReadReturns
  <2> QED
    BY <2>1, PlainRefines
<1>2. CASE ret # 0
  <2>1. PICK a \in 0..MaxWrites : Holds(a) /\ Holds(a)'
    BY DEF Carried
  <2>2. /\ OnTheWay = Run(Len(got), a) /\ OnTheWay' = Run(Len(got'), a)
        /\ Len(got) \in Nat /\ Len(got) <= a /\ Len(got') <= a /\ a \in Nat
    BY <2>1, Queues
  <2>3. pc[Reader] = "return" /\ got' = Append(got, ret) /\ UNCHANGED <<fate, closed>>
    BY <1>2 DEF ReadReturns, At
  <2>4. InHand = ret
    BY <2>3, NotClosing, EndsAssumption DEF InHand, Outside, IInv
  <2>5. PICK p \in Nat : p = Len(got) + 1 /\ p = ret
    BY <1>2, <2>2, <2>4 DEF IInv, ReaderInv
  <2>6. Len(got') = p
    BY <2>3, <2>5, ValueTypes DEF IInv
  <2>7. OnTheWay # <<>> /\ Head(OnTheWay) = p /\ Tail(OnTheWay) = Run(p, a)
    <3>1. PICK l \in Nat : l = Len(got) /\ p = l + 1 /\ l < a
      BY <2>2, <2>5, <2>6
    <3>2. Run(l, a) # <<>> /\ Head(Run(l, a)) = p /\ Tail(Run(l, a)) = Run(p, a)
      BY <2>2, <3>1, RunTail
    <3> QED
      BY <2>2, <3>1, <3>2
  <2> HIDE DEF OnTheWay
  <2>8. F!Dequeue
    BY <2>2, <2>3, <2>5, <2>6, <2>7 DEF F!Dequeue
  <2> QED
    BY <2>8 DEF F!Next
<1> QED
  BY <1>1, <1>2

(* A write reports what became of its value, in the order of the calls. *)
LEMMA ReportRefines ==
  ASSUME IInv, IInv', NEW a \in 0..MaxWrites, Holds(a), Holds(a)', NEW n \in 1..MaxWrites,
         fate[n] = "none", \A m \in 1..n - 1 : fate[m] # "none",
         \/ n <= a /\ fate' = [fate EXCEPT ![n] = "sent"]
         \/ n > a /\ closed /\ fate' = [fate EXCEPT ![n] = "kept"],
         UNCHANGED <<got, closed, monitor>>
  PROVE  [F!Next]_F!fifoVars
<1>1. OnTheWay = Run(Len(got), a) /\ OnTheWay' = Run(Len(got'), a) /\ F!Accepted = a
  BY Queues
<1>2. OnTheWay' = OnTheWay
  BY <1>1
<1> HIDE DEF OnTheWay
<1>3. F!Report(n)
  BY <1>1, <1>2 DEF F!Report
<1> QED
  BY <1>3 DEF F!Next

LEMMA WriteReturnsRefines ==
  ASSUME IInv, IInv', Carried, WriteReturns, UNCHANGED monitor
  PROVE  [F!Next]_F!fifoVars
<1>1. /\ pc[Writer] = "return" /\ UNCHANGED <<got, closed>>
      /\ fate' = [fate EXCEPT ![next] = IF fate[next] = "kept" THEN fate[next] ELSE "sent"]
  BY DEF WriteReturns, At
<1>2. PICK a \in 0..MaxWrites : Holds(a) /\ Holds(a)'
  BY DEF Carried
<1>3. /\ next \in 1..MaxWrites /\ next \in Nat
      /\ fate \in [1..MaxWrites -> {"none", "sent", "kept"}]
      /\ fate[next] = "kept" \/ (fate[next] = "none" /\ a = next)
      /\ \A m \in 1..MaxWrites : m < next => fate[m] # "none"
  BY <1>1, <1>2, ValueTypes DEF IInv, Holds, WriterInv
<1>4. CASE fate[next] = "kept"
  <2>1. fate' = fate
    BY <1>1, <1>3, <1>4
  <2> QED
    BY <1>1, <2>1, PlainRefines
<1>5. CASE fate[next] = "none" /\ a = next
  <2>1. fate' = [fate EXCEPT ![next] = "sent"]
    BY <1>1, <1>5
  <2>2. \A m \in 1..next - 1 : fate[m] # "none"
    <3>1. ASSUME NEW m \in 1..next - 1 PROVE m \in 1..MaxWrites /\ m < next
      BY <1>3, WritesAssumption
    <3> QED
      BY <1>3, <3>1
  <2>3. next <= a
    BY <1>3, <1>5
  <2> QED
    BY <1>1, <1>2, <1>3, <1>5, <2>1, <2>2, <2>3, ReportRefines
<1> QED
  BY <1>3, <1>4, <1>5

LEMMA KeptRefines ==
  ASSUME IInv, IInv', Carried, Offers, closed, fate' = [fate EXCEPT ![next] = "kept"],
         UNCHANGED <<got, closed, monitor>>
  PROVE  [F!Next]_F!fifoVars
<1>1. PICK a \in 0..MaxWrites : Holds(a) /\ Holds(a)'
  BY DEF Carried
<1>2. /\ next \in 1..MaxWrites /\ next \in Nat /\ fate[next] = "none" /\ a < next
      /\ \A m \in 1..MaxWrites : m < next => fate[m] # "none"
  <2>1. next \in 0..MaxWrites /\ next \in Nat /\ a \in Nat
    BY ValueTypes DEF IInv
  <2> QED
    BY <1>1, <2>1 DEF Holds, WriterInv
<1>3. \A m \in 1..next - 1 : fate[m] # "none"
  <2>1. ASSUME NEW m \in 1..next - 1 PROVE m \in 1..MaxWrites /\ m < next
    BY <1>2, WritesAssumption
  <2> QED
    BY <1>2, <2>1
<1>4. next > a
  BY <1>2
<1> QED
  BY <1>1, <1>2, <1>3, <1>4, ReportRefines

LEMMA RingWriteRefines ==
  ASSUME IInv, IInv', Carried, RingWrite, UNCHANGED monitor
  PROVE  [F!Next]_F!fifoVars
<1>1. /\ pc[Writer] = "idle"
      /\ next < MaxWrites
      /\ next' = next + 1
      /\ UNCHANGED <<got, closed>>
      /\ fate' = IF closed THEN [fate EXCEPT ![next'] = "kept"] ELSE fate
  BY DEF RingWrite, At
<1>2. CASE closed
  <2>1. PICK a \in 0..MaxWrites : Holds(a) /\ Holds(a)'
    BY DEF Carried
  <2>2. next \in Nat /\ a \in Nat /\ MaxWrites \in Nat
    BY ValueTypes DEF IInv
  <2>3. /\ a <= next /\ (next > 0 => fate[next] # "none")
        /\ \A m \in 1..MaxWrites : /\ m < next => fate[m] # "none"
                                   /\ m > next => fate[m] = "none"
    BY <1>1, <2>1 DEF Holds, WriterInv, Outside
  <2>4. PICK n \in 1..MaxWrites : n = next + 1
    BY <1>1, <2>2
  <2>5. fate[n] = "none" /\ n > a /\ \A m \in 1..n - 1 : fate[m] # "none"
    BY <2>2, <2>3, <2>4
  <2>6. fate' = [fate EXCEPT ![n] = "kept"]
    BY <1>1, <1>2, <2>4
  <2> QED
    BY <1>1, <1>2, <2>1, <2>5, <2>6, ReportRefines
<1>3. CASE ~ closed
  BY <1>1, <1>3, PlainRefines
<1> QED
  BY <1>2, <1>3

LEMMA CloseRefines ==
  ASSUME IInv, IInv', Carried, NEW c \in Task, NEW first, Close(c, first), UNCHANGED monitor
  PROVE  [F!Next]_F!fifoVars
<1>1. PICK a \in 0..MaxWrites : Holds(a) /\ Holds(a)'
  BY DEF Carried
<1>2. closed' = TRUE /\ UNCHANGED <<got, fate>>
  BY DEF Close
<1>3. OnTheWay = Run(Len(got), a) /\ OnTheWay' = Run(Len(got'), a)
  BY <1>1, Queues
<1>4. OnTheWay' = OnTheWay
  BY <1>2, <1>3
<1> HIDE DEF OnTheWay
<1>5. F!Close
  BY <1>2, <1>4 DEF F!Close
<1> QED
  BY <1>5 DEF F!Next

LEMMA WindowStepRefines ==
  ASSUME IInv, IInv', Carried \/ Accepts, NEW c \in Task, WindowStep(c),
         monitor = "channel_window", UNCHANGED <<ringVars, monitor>>
  PROVE  [F!Next]_F!fifoVars
<1>1. CASE UNCHANGED <<got, fate, closed>>
  BY <1>1, PlainRefines
<1>2. CASE ReadReturns /\ UNCHANGED reader
  <2>1. Carried
    BY <1>2, ReadReturnsKeeps
  <2> QED
    BY <1>2, <2>1, ReadReturnsRefines
<1>3. CASE WriteReturns /\ UNCHANGED reader
  <2>1. Carried
    BY <1>3, WriteReturnsKeeps
  <2> QED
    BY <1>3, <2>1, WriteReturnsRefines
<1>4. CASE Close(c, "clear") /\ UNCHANGED reader
  <2>1. Carried
    BY <1>4, CloseKeeps
  <2> QED
    BY <1>4, <2>1, CloseRefines
<1>5. CASE Loop(c) /\ c = Writer /\ closed
  <2>1. Carried
    BY <1>5, LoopKeeps
  <2>2. /\ Offers /\ fate' = [fate EXCEPT ![next] = "kept"]
        /\ UNCHANGED <<got, closed, monitor>>
    BY <1>5 DEF Loop, KeptBy, At, Offers
  <2> QED
    BY <1>5, <2>1, <2>2, KeptRefines
<1>6. CASE WriteWoken /\ closed
  <2>1. /\ Offers /\ fate' = [fate EXCEPT ![next] = "kept"]
        /\ UNCHANGED <<got, closed, monitor>>
    BY <1>6 DEF WriteWoken, KeptBy, At, Offers
  <2>2. Carried
    BY <1>6, WriteWokenKeeps
  <2> QED
    BY <1>6, <2>1, <2>2, KeptRefines
<1>7. UNCHANGED <<got, fate, closed>> \/ (ReadReturns /\ UNCHANGED reader)
        \/ (WriteReturns /\ UNCHANGED reader) \/ (Close(c, "clear") /\ UNCHANGED reader)
        \/ (Loop(c) /\ c = Writer /\ closed) \/ (WriteWoken /\ closed)
  <2>1. CASE Loop(c)
    BY <2>1 DEF Loop, KeptBy
  <2>2. CASE WindowPark(c)
    BY <2>2 DEF WindowPark, Park, Check, WaitInSpot, Sleep, endVars
  <2>3. CASE Go(c) \/ Clear(c)
    BY <2>3 DEF Go, Clear, windowVars, endVars
  <2>4. CASE WindowCommon(c)
    BY <2>4 DEF WindowCommon, UnparkTail, WakePeer, AssertionFails, endVars
  <2>5. CASE WindowRead \/ ReadWoken \/ ReadMeet
    BY <2>5 DEF WindowRead, ReadWoken, ReadMeet, SwapOrYield, AssertionFails, endVars
  <2>6. CASE WindowWrite \/ WriteWoken \/ WriteFill \/ WriteMeet \/ WriteBack
    BY <2>6 DEF WindowWrite, WriteWoken, WriteFill, WriteMeet, WriteBack, SwapOrYield,
         AssertionFails, endVars
  <2> QED
    BY <2>1, <2>2, <2>3, <2>4, <2>5, <2>6 DEF WindowStep
<1> QED
  BY <1>1, <1>2, <1>3, <1>4, <1>5, <1>6, <1>7

LEMMA RingStepRefines ==
  ASSUME IInv, IInv', Carried \/ Accepts, NEW c \in Task, RingStep(c),
         monitor = "ring_buffer", UNCHANGED <<reader, monitor>>
  PROVE  [F!Next]_F!fifoVars
<1>1. CASE UNCHANGED <<got, fate, closed>>
  BY <1>1, PlainRefines
<1>2. CASE ReadReturns /\ UNCHANGED ringVars
  <2>1. Carried
    BY <1>2, ReadReturnsKeeps
  <2> QED
    BY <1>2, <2>1, ReadReturnsRefines
<1>3. CASE WriteReturns /\ UNCHANGED ringVars
  <2>1. Carried
    BY <1>3, WriteReturnsKeeps
  <2> QED
    BY <1>3, <2>1, WriteReturnsRefines
<1>4. CASE Close(c, "tail") /\ UNCHANGED ringVars
  <2>1. Carried
    BY <1>4, CloseKeeps
  <2> QED
    BY <1>4, <2>1, CloseRefines
<1>5. CASE Check(c, "return") /\ KeptBy(c) /\ c = Writer /\ closed /\ UNCHANGED ringVars
  <2>1. Carried
    BY <1>5, CheckKeeps
  <2>2. /\ Offers /\ fate' = [fate EXCEPT ![next] = "kept"]
        /\ UNCHANGED <<got, closed, monitor>>
    BY <1>5 DEF Check, KeptBy, At, Offers
  <2> QED
    BY <1>5, <2>1, <2>2, KeptRefines
<1>6. CASE RingWrite
  <2>1. Carried
    BY <1>6, RingWriteKeeps
  <2> QED
    BY <1>6, <2>1, RingWriteRefines
<1>7. UNCHANGED <<got, fate, closed>> \/ (ReadReturns /\ UNCHANGED ringVars)
        \/ (WriteReturns /\ UNCHANGED ringVars) \/ (Close(c, "tail") /\ UNCHANGED ringVars)
        \/ (Check(c, "return") /\ KeptBy(c) /\ c = Writer /\ closed /\ UNCHANGED ringVars)
        \/ RingWrite
  <2>1. CASE RingLoad(c) \/ Store(c)
    BY <2>1 DEF RingLoad, Store, endVars
  <2>2. CASE RingPark(c)
    BY <2>2 DEF RingPark, Park, Check, KeptBy, WaitInSpot, Sleep, endVars
  <2>3. CASE RingCommon(c)
    BY <2>3 DEF RingCommon, UnparkTail, WakePeer, AssertionFails, endVars
  <2>4. CASE RingRead \/ Take \/ Put
    BY <2>4 DEF RingRead, Take, Put, endVars
  <2> QED
    BY <2>1, <2>2, <2>3, <2>4 DEF RingStep
<1> QED
  BY <1>1, <1>2, <1>3, <1>4, <1>5, <1>6, <1>7

LEMMA InitRefines == Init => F!Init
<1> SUFFICES ASSUME Init PROVE F!Init
  OBVIOUS
<1>1. /\ next = 0 /\ got = <<>> /\ closed = FALSE
      /\ fate = [n \in 1..MaxWrites |-> "none"]
  BY DEF Init, EndInit
<1>2. IInv /\ WayInv
  BY InitInv, OnTheWayIs
<1>3. PICK a \in 0..MaxWrites : Holds(a)
  BY <1>2 DEF IInv, ValueInv
<1>4. a = 0
  BY <1>1, <1>3 DEF Holds, WriterInv
<1>5. OnTheWay = Run(0, 0)
  BY <1>1, <1>2, <1>3, <1>4 DEF WayInv
<1>6. Run(0, 0) = <<>>
  BY DEF Run
<1> HIDE DEF OnTheWay
<1>7. (IF monitor = "ring_buffer" THEN Size + 1 ELSE 1) \in Nat \ {0}
  BY SizeAssumption
<1> QED
  BY <1>1, <1>5, <1>6, <1>7 DEF F!Init

(* channel_window and ring_buffer implement the bounded queue, for any Size,
   any Wrap and any number of values: every step of theirs that a program
   can see is a step of the queue (read, write and close). *)
THEOREM Implementation == Spec => ImplementsFifo
<1>1. IInv /\ IInv' /\ [Next]_vars => [F!Next]_F!fifoVars
  <2> SUFFICES ASSUME IInv, IInv', [Next]_vars PROVE [F!Next]_F!fifoVars
    OBVIOUS
  <2>1. Carried \/ Accepts
    BY NextKeeps
  <2>2. CASE Tick /\ UNCHANGED <<reader, ringVars, monitor>>
    <3>1. UNCHANGED <<got, fate, closed, monitor>>
      BY <2>2 DEF Tick, endVars
    <3> QED
      BY <2>1, <3>1, PlainRefines
  <2>3. ASSUME NEW c \in Task, EndStep(c) PROVE [F!Next]_F!fifoVars
    BY <2>1, <2>3, WindowStepRefines, RingStepRefines DEF EndStep
  <2>4. CASE UNCHANGED vars
    <3>1. UNCHANGED <<got, fate, closed, monitor>>
      BY <2>4 DEF vars, endVars
    <3> QED
      BY <2>1, <3>1, PlainRefines
  <2> QED
    BY <2>2, <2>3, <2>4 DEF Next
<1> QED
  BY <1>1, InitRefines, Invariant, PTL DEF Spec, ImplementsFifo, F!Spec

=============================================================================
