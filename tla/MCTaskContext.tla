---------------------------- MODULE MCTaskContext ----------------------------
(* Task memory for TLC: a task with and one without TLS, and stacks with and
   without a guard, so that the free list both finds and misses. *)
EXTENDS TaskContext

MCAttrs ==
  {[size |-> 1, guard |-> 0, alloc_tls |-> TRUE],
   [size |-> 1, guard |-> 0, alloc_tls |-> FALSE],
   [size |-> 1, guard |-> 9, alloc_tls |-> TRUE]}

(* One static module, of three bytes aligned to two. *)
MCMemSize == [m \in {1} |-> 3]
MCAlign == [m \in {1} |-> 2]
=============================================================================
