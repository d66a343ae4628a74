----------------------------- MODULE ChannelEnd -----------------------------
(***************************************************************************)
(* What channel_window and ring_buffer have in common, as the ends that    *)
(* make_wishbone_channel hands out use them: one task has the reading end  *)
(* and one the writing end, an end that is dropped closes the channel      *)
(* (close_wrapper), and whoever has to wait parks in the one waiter.  The  *)
(* writer's n-th value is the number n.                                    *)
(*                                                                         *)
(* A tick can strike between any two steps.  pc[t] is where t stands:      *)
(*                                                                         *)
(*   idle     in the program's own code                                    *)
(*   loop     window: at the test of _closed                               *)
(*   load     ring: before the load of the other end's counter             *)
(*   park     at park_if                                                   *)
(*   check    park_if: the waiter claimed, at check_thunk                  *)
(*   wait     park_if: before run_state = WAITING                          *)
(*   sleep    park_if: WAITING, before yield                               *)
(*   woken    window: park_if has returned true                            *)
(*   fill     window, write: past the test of _closed, at the assertion    *)
(*   meet     window: park_if has returned false                           *)
(*   go       swap: the waiter exchanged, before the switch                *)
(*   back     window: a value was put in the reader's hands, to be swapped *)
(*   slot     ring: about to move a value out of or into its slot          *)
(*   store    ring: before the store of its own counter                    *)
(*   clear    window, close: before _reader = nullptr                      *)
(*   tail     read, write, close: unparking whoever is in the waiter       *)
(*   wake     unpark: the waiter emptied, before the task is scheduled     *)
(*   return   read, write: about to return                                 *)
(*   over     a read was told that the channel is closed                   *)
(*   done     the end was dropped                                          *)
(***************************************************************************)
EXTENDS Waiter, Sequences

CONSTANTS
  Reader, Writer,  \* the tasks that have the ends
  Spot,            \* the one waiter: channel_window::_waiter, ring_buffer::_stalled
  MaxWrites        \* bound: the writer's number of values

ASSUME EndsAssumption == Task = {Reader, Writer} /\ Reader # Writer
ASSUME SpotAssumption == Slot = {Spot}
ASSUME WritesAssumption == MaxWrites \in Nat

VARIABLES
  pc,
  closed,   \* _closed
  ret,      \* the reader's absl::optional ret: a value, or 0 for none
  next,     \* how many writes were called; the last one's value
  peer,     \* the task that swap or unpark took out of the waiter
  closing,  \* the ends that are being dropped
  got,      \* history: the values that reads returned
  fate      \* history: what became of each value, "sent" or "kept"

endVars == <<closed, ret, next, peer, closing, got, fate>>

Places == {"idle", "loop", "load", "park", "check", "wait", "sleep", "woken",
           "fill", "meet", "go", "back", "slot", "store", "clear", "tail", "wake",
           "return", "over", "done"}

EndTypeOK ==
  /\ WaiterTypeOK
  /\ pc \in [Task -> Places]
  /\ closed \in BOOLEAN
  /\ ret \in 0..MaxWrites
  /\ next \in 0..MaxWrites
  /\ peer \in [Task -> Task \cup {NULL}]
  /\ closing \subseteq Task
  /\ got \in Seq(1..MaxWrites)
  /\ fate \in [1..MaxWrites -> {"none", "sent", "kept"}]

(* Both ends have been made and moved to their tasks. *)
EndInit ==
  /\ current \in Task
  /\ run_state = [t \in Task |-> IF t = current THEN "RUNNING" ELSE "SUSPENDED"]
  /\ no_preempt_flag = [t \in Task |-> t # current]
  /\ ready = [t \in Task |-> IF t = current THEN 0 ELSE 1]
  /\ waiter = [s \in Slot |-> NULL]
  /\ fault = "none"
  /\ pc = [t \in Task |-> "idle"]
  /\ closed = FALSE
  /\ ret = 0
  /\ next = 0
  /\ peer = [t \in Task |-> NULL]
  /\ closing = {}
  /\ got = <<>>
  /\ fate = [n \in 1..MaxWrites |-> "none"]

-----------------------------------------------------------------------------
At(c, p) == Running(c) /\ pc[c] = p
Goto(c, p) == pc' = [pc EXCEPT ![c] = p]

(* A failed assertion stops the process where it stands. *)
AssertionFails == Fail /\ UNCHANGED <<pc, endVars>>

(* Variant: write goes round its loop again after the value is delivered. *)
LeaveWritesAgain(c) ==
  Goto(c, CASE c \in closing -> "done" [] c = Writer -> "loop" [] OTHER -> "return")

(* The end of a loop that unparks: close is done, read and write return. *)
Leave(c) == Goto(c, IF c \in closing THEN "done" ELSE "return")

(* Variant: write returns nothing, as if the value had been sent. *)
KeptByNobody(c) == UNCHANGED fate

(* write returns its value to the caller: it was not sent. *)
KeptBy(c) == fate' = IF c = Writer THEN [fate EXCEPT ![next] = "kept"] ELSE fate

-----------------------------------------------------------------------------
(* park_if: claim the waiter, look at _closed again, wait.  When the waiter
   is taken the caller goes on at missed. *)
Park(c, missed) ==
  /\ At(c, "park")
  /\ IF CanPark(Spot) THEN Claim(Spot, c) /\ Goto(c, "check")
                      ELSE UNCHANGED waiterVars /\ Goto(c, missed)
  /\ UNCHANGED endVars

(* A closed channel: the waiter is given up and the caller goes on at told. *)
Check(c, told) ==
  /\ At(c, "check")
  /\ IF closed THEN Unclaim(Spot) /\ Goto(c, told)
               ELSE UNCHANGED waiterVars /\ Goto(c, "wait")
  /\ UNCHANGED <<ret, next, peer, closing, got, closed>>

WaitInSpot(c) ==
  /\ At(c, "wait")
  /\ Wait(c)
  /\ Goto(c, "sleep")
  /\ UNCHANGED endVars

Sleep(c, woken) ==
  /\ At(c, "sleep")
  /\ YieldNow(c)
  /\ Goto(c, woken)
  /\ UNCHANGED endVars

(* Variant: nobody is unparked at the end of a call. *)
UnparksNobody == FALSE

(* while (_waiter && !_waiter.unpark()) self::yield() goes round. *)
Unparks == waiter[Spot] # NULL

UnparkTail(c) ==
  /\ At(c, "tail")
  /\ IF ~ Unparks
     THEN Leave(c) /\ UNCHANGED <<waiterVars, peer>>
     ELSE IF IsParked(Spot)
     THEN TakeOut(Spot) /\ peer' = [peer EXCEPT ![c] = waiter[Spot]] /\ Goto(c, "wake")
     ELSE YieldNow(c) /\ UNCHANGED <<pc, peer>>
  /\ UNCHANGED <<closed, ret, next, closing, got, fate>>

WakePeer(c) ==
  /\ At(c, "wake")
  /\ IF run_state[peer[c]] = "WAITING"
     THEN Resume(peer[c]) /\ Leave(c) /\ UNCHANGED endVars
     ELSE AssertionFails

(* read returns what it has; a program that was told that the channel is
   closed does not read again. *)
ReadReturns ==
  /\ At(Reader, "return")
  /\ IF ret = 0 THEN Goto(Reader, "over") /\ UNCHANGED got
                ELSE Goto(Reader, "idle") /\ got' = Append(got, ret)
  /\ UNCHANGED <<waiterVars, closed, ret, next, peer, closing, fate>>

WriteReturns ==
  /\ At(Writer, "return")
  /\ Goto(Writer, "idle")
  /\ fate' = [fate EXCEPT ![next] = IF @ = "kept" THEN @ ELSE "sent"]
  /\ UNCHANGED <<waiterVars, closed, ret, next, peer, closing, got>>

(* An end is dropped: close_wrapper's destructor calls close, which goes on
   at the place first. *)
Close(c, first) ==
  /\ At(c, "idle") \/ At(c, "over")
  /\ closed' = TRUE
  /\ closing' = closing \cup {c}
  /\ Goto(c, first)
  /\ UNCHANGED <<waiterVars, ret, next, peer, got, fate>>

(* The timer's tick, or a yield of the program's own. *)
Tick ==
  /\ fault = "none"
  /\ ~ no_preempt_flag[current]
  /\ YieldNow(current)
  /\ UNCHANGED <<pc, endVars>>

-----------------------------------------------------------------------------
(* Between two calls, or done with the channel. *)
Outside(c) == pc[c] \in {"idle", "over", "clear", "done"} \/ c \in closing

(* The value that a read has and has yet to return. *)
InHand == IF Outside(Reader) THEN 0 ELSE ret
=============================================================================
