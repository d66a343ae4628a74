-------------------------------- MODULE MCRq --------------------------------
(* The run queue for TLC: tasks 1, 2 and 3, the host's address between the
   others', so that ties go both ways. *)
EXTENDS Rq
=============================================================================
