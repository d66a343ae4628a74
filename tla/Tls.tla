--------------------------------- MODULE Tls ---------------------------------
(***************************************************************************)
(* gthread::tls on Linux: the block of thread-local storage that lies on   *)
(* the stack of a task made with alloc_tls, below the task itself.         *)
(*                                                                         *)
(* A block is a record: the thread pointer of its tcbhead, did_ctype_init, *)
(* g_current_sched_node (a thread_local of the program, null in the image  *)
(* it is copied from), what the data of each static module is like, and    *)
(* the dtv, through which __tls_get_addr finds the data of a module: an    *)
(* entry is the number of the static module whose image it points to.      *)
(***************************************************************************)
EXTENDS Integers, FiniteSets

CONSTANTS
  NULL,
  Modules,  \* number of modules with TLS; k_num_slots is a bound on it
  Static,   \* those loaded at start, for which there is a tls_image
  MemSize, Align  \* p_memsz and p_align of each of them

(***************************************************************************)
(* The program itself is module 1; it has g_current_sched_node.  The       *)
(* modules loaded at start have the first numbers, with no gap between     *)
(* them: prefix_bytes stops at the first gap, and the memory below it is   *)
(* all that the constructor and reset have for the images.                 *)
(***************************************************************************)
ASSUME ModulesAssumption ==
  /\ Modules \in Nat
  /\ \E n \in 1..Modules : Static = 1..n

(* No image is empty, so that reset's loop, which ends when image_base has
   come down to old_base, gets to all of them. *)
ASSUME ImagesAssumption ==
  \A m \in Static : MemSize[m] \in Nat \ {0} /\ Align[m] \in Nat \ {0}

Unallocated == 0       \* TLS_DTV_UNALLOCATED
Block == Modules + 1   \* a block that __tls_get_addr has allocated

Dtvs == [1..Modules + 1 -> 0..Modules + 1]

TlsBlocks(Thread) ==
  [thread : Thread, node : BOOLEAN, ctype : BOOLEAN,
   data : [Static -> {"image", "torn", "dirty"}], dtv : Dtvs]

-----------------------------------------------------------------------------
(* tls_image::mem_offset: what the size lacks to a multiple of the alignment. *)
MemOffset(m) == (- MemSize[m]) % Align[m]

(***************************************************************************)
(* tls::tls: the image of module m goes to entry m.  It is copied from     *)
(* mem_offset on, to mem_offset on, so that the first mem_offset bytes of  *)
(* the module's data stay zero: torn.                                      *)
(***************************************************************************)
NewTls(t) ==
  [thread |-> t, node |-> FALSE, ctype |-> FALSE,
   data |-> [m \in Static |-> IF MemOffset(m) > 0 THEN "torn" ELSE "image"],
   dtv  |-> [m \in 1..Modules + 1 |-> IF m \in Static THEN m ELSE Unallocated]]

(* The entries that reset and ~tls free. *)
Blocks(b) == {m \in 2..Modules + 1 : b.dtv[m] = Block}

(* Variant: the entries stay, freed or not. *)
ResetDtvKept(d) == d

(***************************************************************************)
(* The dtv after reset.  module is counted up before it is used, so that   *)
(* the k-th image goes to entry k + 1, and not to k as in the constructor; *)
(* entry 1 is left as it was.                                              *)
(***************************************************************************)
ResetDtv(d) ==
  [e \in 1..Modules + 1 |->
     IF e = 1 THEN d[1] ELSE IF e - 1 \in Static THEN e - 1 ELSE Unallocated]

(* Variant: a recycled task finds the thread_locals of its predecessor. *)
ResetDataKept(b) == b.data

(* memset and memcpy of reset: here the image is copied whole. *)
ResetData(b) == [m \in Static |-> "image"]

(* tls::reset: the thread pointer stays. *)
ResetTls(b) ==
  [b EXCEPT !.node = FALSE, !.ctype = FALSE, !.data = ResetData(b), !.dtv = ResetDtv(b.dtv)]

(***************************************************************************)
(* The program writes to a thread_local of module m: directly if the       *)
(* module is static, else by way of __tls_get_addr, which allocates the    *)
(* module's block unless the entry has something.                          *)
(***************************************************************************)
TouchTls(b, m) ==
  IF m \in Static THEN [b EXCEPT !.data[m] = "dirty"]
  ELSE IF b.dtv[m] = Unallocated THEN [b EXCEPT !.dtv[m] = Block]
  ELSE IF b.dtv[m] = Block THEN b
  ELSE [b EXCEPT !.data[b.dtv[m]] = "dirty"]

Allocates(b, m) == m \notin Static /\ b.dtv[m] = Unallocated
=============================================================================
