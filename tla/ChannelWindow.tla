---------------------------- MODULE ChannelWindow ----------------------------
(***************************************************************************)
(* internal::channel_window, the monitor of the synchronous channel.  Who  *)
(* comes first parks in the waiter, and reader and writer change places in *)
(* it by swap; the value goes straight into the reader's stack frame.      *)
(***************************************************************************)
EXTENDS ChannelEnd

VARIABLE reader  \* channel_window::_reader points to the ret of a read

windowVars == <<endVars, reader>>

WindowInit == reader = FALSE

(* read is called: _reader is asserted to be null, and set. *)
WindowRead ==
  /\ At(Reader, "idle")
  /\ IF reader THEN AssertionFails /\ UNCHANGED reader
     ELSE /\ reader' = TRUE
          /\ ret' = 0
          /\ Goto(Reader, "loop")
          /\ UNCHANGED <<waiterVars, closed, next, peer, closing, got, fate>>

(* write is called with the next value. *)
WindowWrite ==
  /\ At(Writer, "idle")
  /\ next < MaxWrites
  /\ next' = next + 1
  /\ Goto(Writer, "loop")
  /\ UNCHANGED <<waiterVars, closed, ret, peer, closing, got, fate, reader>>

(* The head of both loops: a closed channel ends the call. *)
Loop(c) ==
  /\ At(c, "loop")
  /\ IF closed THEN KeptBy(c) /\ Goto(c, "return")
               ELSE UNCHANGED fate /\ Goto(c, "park")
  /\ UNCHANGED <<waiterVars, closed, ret, next, peer, closing, got, reader>>

(* park_if of both loops; its answer is woken or meet. *)
WindowPark(c) ==
  /\ \/ Park(c, "meet")
     \/ Check(c, "meet") /\ UNCHANGED fate
     \/ WaitInSpot(c)
     \/ Sleep(c, "woken")
  /\ UNCHANGED reader

(* The reader was unparked: its slot must have been filled or taken away. *)
ReadWoken ==
  /\ At(Reader, "woken")
  /\ IF reader THEN AssertionFails
     ELSE Goto(Reader, "tail") /\ UNCHANGED <<waiterVars, endVars>>
  /\ UNCHANGED reader

(* The writer was unparked or swapped in, by a close or by a reader. *)
WriteWoken ==
  /\ At(Writer, "woken")
  /\ IF closed THEN reader' = FALSE /\ KeptBy(Writer) /\ Goto(Writer, "return")
               ELSE Goto(Writer, "fill") /\ UNCHANGED <<reader, fate>>
  /\ UNCHANGED <<waiterVars, closed, ret, next, peer, closing, got>>

(* Variant: _reader still points to the slot that was filled. *)
FilledKept == reader

(* _reader after a value was put into its slot *)
Filled == FALSE

(* The channel was open: there must be a reader with a slot to fill. *)
WriteFill ==
  /\ At(Writer, "fill")
  /\ IF ~ reader THEN AssertionFails /\ UNCHANGED reader
     ELSE /\ ret' = next
          /\ reader' = Filled
          /\ Goto(Writer, "back")
          /\ UNCHANGED <<waiterVars, closed, next, peer, closing, got, fate>>

(* waiter::swap: the parked task is taken out and c put in; the switch is
   the next step. *)
Swap(c) ==
  /\ waiter' = [waiter EXCEPT ![Spot] = c]
  /\ peer' = [peer EXCEPT ![c] = waiter[Spot]]
  /\ Goto(c, "go")
  /\ UNCHANGED <<dispatchVars, fault>>

(* The loops that yield when nobody is parked: read's, and write's swap. *)
SwapOrYield(c, from, to) ==
  /\ At(c, from)
  /\ \/ IsParked(Spot) /\ Swap(c)
     \/ ~ IsParked(Spot) /\ YieldNow(c) /\ Goto(c, to) /\ UNCHANGED peer
  /\ UNCHANGED <<closed, ret, next, closing, got, fate, reader>>

ReadMeet == SwapOrYield(Reader, "meet", "loop")
WriteBack == SwapOrYield(Writer, "back", "back")

(* With the preempt_mutex: c waits in the window and the other one runs. *)
Go(c) ==
  /\ At(c, "go")
  /\ SwitchTo(c, peer[c], [run_state EXCEPT ![c] = "WAITING"], {})
  /\ Goto(c, "return")
  /\ UNCHANGED <<ready, waiter, fault, windowVars>>

(* The writer finds somebody in the window and a slot to fill. *)
WriteMeet ==
  /\ At(Writer, "meet")
  /\ IF waiter[Spot] # NULL /\ reader
     THEN /\ ret' = next
          /\ reader' = Filled
          /\ Goto(Writer, "tail")
          /\ UNCHANGED waiterVars
     ELSE /\ YieldNow(Writer)
          /\ Goto(Writer, "loop")
          /\ UNCHANGED <<ret, reader>>
  /\ UNCHANGED <<closed, next, peer, closing, got, fate>>

(* close, after _closed was set *)
Clear(c) ==
  /\ At(c, "clear")
  /\ reader' = FALSE
  /\ Goto(c, "tail")
  /\ UNCHANGED <<waiterVars, endVars>>

WindowCommon(c) ==
  /\ \/ UnparkTail(c) \/ WakePeer(c) \/ Close(c, "clear")
     \/ c = Reader /\ ReadReturns
     \/ c = Writer /\ WriteReturns
  /\ UNCHANGED reader

WindowStep(c) ==
  \/ Loop(c) \/ WindowPark(c) \/ Go(c) \/ Clear(c) \/ WindowCommon(c)
  \/ c = Reader /\ (WindowRead \/ ReadWoken \/ ReadMeet)
  \/ c = Writer /\ (WindowWrite \/ WriteWoken \/ WriteFill \/ WriteMeet
                   \/ WriteBack)
=============================================================================
