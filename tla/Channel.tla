------------------------------- MODULE Channel -------------------------------
(***************************************************************************)
(* A channel as a program gets it from make_channel or from                *)
(* make_buffered_channel: two ends over one monitor.  Which monitor it is  *)
(* was settled when the channel was made and never changes; the promises   *)
(* below are those of both.                                                *)
(***************************************************************************)
EXTENDS ChannelWindow, RingBuffer

CONSTANT Monitors  \* the kinds of channel that are looked at

ASSUME MonitorsAssumption == Monitors \subseteq {"channel_window", "ring_buffer"}

VARIABLE monitor

vars == <<waiterVars, pc, endVars, reader, ringVars, monitor>>

TypeOK ==
  /\ EndTypeOK
  /\ RingTypeOK
  /\ reader \in BOOLEAN
  /\ monitor \in Monitors

Init == EndInit /\ WindowInit /\ RingInit /\ monitor \in Monitors

EndStep(c) ==
  /\ \/ monitor = "channel_window" /\ WindowStep(c) /\ UNCHANGED ringVars
     \/ monitor = "ring_buffer" /\ RingStep(c) /\ UNCHANGED reader
  /\ UNCHANGED monitor

Next ==
  \/ Tick /\ UNCHANGED <<reader, ringVars, monitor>>
  \/ \E c \in Task : EndStep(c)

Spec == Init /\ [][Next]_vars

(***************************************************************************)
(* Fairness: a queued task is popped in the end (module Rq), and a task    *)
(* goes on when it has the processor; a program that is done with an end   *)
(* drops it.                                                               *)
(***************************************************************************)
LiveSpec ==
  /\ Spec
  /\ \A t \in Task :
       /\ SF_vars(Next /\ current # t /\ current' = t)
       /\ SF_vars(EndStep(t))

-----------------------------------------------------------------------------
(* The values that were handed over and not yet returned by a read. *)
OnTheWay == (IF InHand = 0 THEN <<>> ELSE <<InHand>>) \o Buffered

F == INSTANCE Fifo WITH
       queue <- OnTheWay,
       capacity <- IF monitor = "ring_buffer" THEN Size + 1 ELSE 1

(* Both monitors implement the bounded queue: values arrive in order, once,
   or are handed back (read, write and close of either monitor). *)
ImplementsFifo == F!Spec

(* Values arrive in the order in which they were written, none of them
   twice and none left out (read, write). *)
InOrder == \A i \in DOMAIN got : got[i] = i

(***************************************************************************)
(* A value that write reports as sent was or is being read or lies in the  *)
(* buffer, and one that it hands back is not (write's two kinds of return, *)
(* and a close between the hand-over and the return).                      *)
(***************************************************************************)
SentIsRead ==
  \A n \in 1..MaxWrites :
    LET read == \/ \E i \in DOMAIN got : got[i] = n
                \/ \E i \in DOMAIN OnTheWay : OnTheWay[i] = n
    IN  (fate[n] = "sent" => read) /\ (fate[n] = "kept" => ~ read)

(***************************************************************************)
(* While the channel is open, _reader points to the slot of a read that    *)
(* has not returned, so the stores through it (channel_window::write,      *)
(* lines 57 and 62) hit a live stack frame.                                *)
(***************************************************************************)
NoDanglingReader == reader /\ ~ closed => ~ Outside(Reader)

(***************************************************************************)
(* ring_buffer constructs a value only in a slot in which none lives, and  *)
(* moves one only out of a slot in which one does, however stale the       *)
(* counter was that let it (read and write, lines 28 and 54).              *)
(***************************************************************************)
SlotsSound ==
  /\ pc[Reader] = "slot" => buffer[r % Size] # 0
  /\ pc[Writer] = "slot" => buffer[w % Size] = 0

(***************************************************************************)
(* There is always somebody to run, and of the assertions of               *)
(* channel_window and waiter only one can fail: that of a writer who was   *)
(* unparked, found the channel open and nobody reading, whether it is      *)
(* still open or not (channel_window::write, lines 50 and 56).  read finds *)
(* its slot free when it begins and used up when it is woken, and whom     *)
(* unpark takes out is WAITING until it is scheduled (lines 23 and 29,     *)
(* waiter::unpark).                                                        *)
(***************************************************************************)
OnlyWriteAsserts ==
  \/ fault = "none"
  \/ /\ fault = "assertion" /\ monitor = "channel_window"
     /\ current = Writer /\ pc[Writer] = "fill" /\ ~ reader

(* No assertion of channel_window or waiter fails, and somebody can run. *)
NoFault == fault = "none"

(***************************************************************************)
(* A read or write returns in the end, as long as the other end goes on or *)
(* is dropped (the loops of read, write and close), but for two ways to    *)
(* hang: channel_window's assertion, and ring_buffer's stale decision to   *)
(* park.                                                                   *)
(***************************************************************************)
CallsReturn ==
  \A c \in Task :
    LET returned == pc[c] \in {"idle", "over", "done"}
    IN  ~ returned ~> (returned \/ fault = "assertion"
                              \/ (monitor = "ring_buffer" /\ Stalled))
=============================================================================
