----------------------------- MODULE RingBuffer -----------------------------
(***************************************************************************)
(* internal::ring_buffer, the monitor of the buffered channel: two         *)
(* counters that only grow, each stored by one end, and a slot for each of *)
(* their values modulo Size.  An end that cannot go on parks, and looks    *)
(* again when it is unparked or when the waiter is taken.                  *)
(*                                                                         *)
(* What an end loaded of the other's counter it uses once, to decide       *)
(* whether it has to wait: that decision is in pc, and may be stale.       *)
(***************************************************************************)
EXTENDS ChannelEnd

CONSTANTS
  Size,  \* the number of slots
  Wrap   \* where the counters wrap: 2^64 in the code

(* Size is a power of two in the code, and so divides Wrap. *)
ASSUME SizeAssumption == Size \in Nat \ {0} /\ Wrap \in Nat /\ Wrap > Size /\ Wrap % Size = 0

VARIABLES
  r, w,    \* ring_buffer::_r and _w
  buffer   \* ring_buffer::_buffer: the value that lives in a slot, or 0

ringVars == <<r, w, buffer>>

RingTypeOK ==
  /\ r \in 0..Wrap - 1
  /\ w \in 0..Wrap - 1
  /\ buffer \in [0..Size - 1 -> 0..MaxWrites]

RingInit ==
  /\ r = 0
  /\ w = 0
  /\ buffer = [i \in 0..Size - 1 |-> 0]

-----------------------------------------------------------------------------
(* read and write are called; write looks at _closed, and only here. *)
RingRead ==
  /\ At(Reader, "idle")
  /\ ret' = 0
  /\ Goto(Reader, "load")
  /\ UNCHANGED <<waiterVars, closed, next, peer, closing, got, fate, ringVars>>

RingWrite ==
  /\ At(Writer, "idle")
  /\ next < MaxWrites
  /\ next' = next + 1
  /\ fate' = IF closed THEN [fate EXCEPT ![next'] = "kept"] ELSE fate
  /\ Goto(Writer, IF closed THEN "return" ELSE "load")
  /\ UNCHANGED <<waiterVars, closed, ret, peer, closing, got, ringVars>>

(* Variant: the writer thinks there is one slot more. *)
MustWaitOneLate(c) == (w - r) % Wrap = IF c = Reader THEN 0 ELSE Size + 1

(* The tests of the two loops, on size_t: empty for read, full for write. *)
MustWait(c) == (w - r) % Wrap = IF c = Reader THEN 0 ELSE Size

(* The other end's counter is loaded and looked at. *)
RingLoad(c) ==
  /\ At(c, "load")
  /\ Goto(c, IF MustWait(c) THEN "park" ELSE "slot")
  /\ UNCHANGED <<waiterVars, endVars, ringVars>>

(* park_if of both loops: only a closed channel ends the call. *)
RingPark(c) ==
  /\ \/ Park(c, "load")
     \/ Check(c, "return") /\ IF closed THEN KeptBy(c) ELSE UNCHANGED fate
     \/ WaitInSpot(c)
     \/ Sleep(c, "load")
  /\ UNCHANGED ringVars

(* The value is moved out of its slot and destroyed there ... *)
Take ==
  /\ At(Reader, "slot")
  /\ ret' = buffer[r % Size]
  /\ buffer' = [buffer EXCEPT ![r % Size] = 0]
  /\ Goto(Reader, "store")
  /\ UNCHANGED <<waiterVars, closed, next, peer, closing, got, fate, r, w>>

(* ... or constructed in it ... *)
Put ==
  /\ At(Writer, "slot")
  /\ buffer' = [buffer EXCEPT ![w % Size] = next]
  /\ Goto(Writer, "store")
  /\ UNCHANGED <<waiterVars, endVars, r, w>>

(* ... and then the slot is given to the other end. *)
Store(c) ==
  /\ At(c, "store")
  /\ IF c = Reader THEN r' = (r + 1) % Wrap /\ UNCHANGED w
                   ELSE w' = (w + 1) % Wrap /\ UNCHANGED r
  /\ Goto(c, "tail")
  /\ UNCHANGED <<waiterVars, endVars, buffer>>

RingCommon(c) ==
  /\ \/ UnparkTail(c) \/ WakePeer(c) \/ Close(c, "tail")
     \/ c = Reader /\ ReadReturns
     \/ c = Writer /\ WriteReturns
  /\ UNCHANGED ringVars

RingStep(c) ==
  \/ RingLoad(c) \/ RingPark(c) \/ Store(c) \/ RingCommon(c)
  \/ c = Reader /\ (RingRead \/ Take)
  \/ c = Writer /\ (RingWrite \/ Put)

-----------------------------------------------------------------------------
(* The values in the ring, oldest first: those between the counters, without
   the one that was moved out and with the one that was constructed before
   the counter is stored. *)
Buffered ==
  LET moved == IF pc[Reader] = "store" THEN 1 ELSE 0
      made  == IF pc[Writer] = "store" THEN 1 ELSE 0
  IN  [i \in 1..((w - r) % Wrap) - moved + made |-> buffer[(r + moved + i - 1) % Size]]

(***************************************************************************)
(* The stale decision that nobody corrects: one end is parked although it  *)
(* could go on, and the other one, which cannot, finds the waiter taken    *)
(* and goes round its loop for good without unparking it.                  *)
(***************************************************************************)
Stalled ==
  \E c \in Task :
    /\ waiter[Spot] = c /\ IsParked(Spot) /\ ~ MustWait(c)
    /\ \A o \in Task \ {c} : pc[o] \in {"load", "park"} /\ MustWait(o)
=============================================================================
