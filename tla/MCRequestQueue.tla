--------------------------- MODULE MCRequestQueue ---------------------------
(***************************************************************************)
(* Model checking of RequestQueue: three nanoseconds make a second, so     *)
(* that a short run of the clock meets the carry and the sum of exactly    *)
(* one second.                                                             *)
(***************************************************************************)
EXTENDS RequestQueue, TLC

MCDelays == {[sec |-> 0, nsec |-> 0], [sec |-> 0, nsec |-> 2], [sec |-> 1, nsec |-> 0]}
=============================================================================
