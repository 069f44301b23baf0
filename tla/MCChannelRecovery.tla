------------------------- MODULE MCChannelRecovery -------------------------
(***************************************************************************)
(* Bounds for model checking ChannelRecovery.                              *)
(***************************************************************************)
EXTENDS ChannelRecovery

MCLimits == [p \in BOOLEAN |-> IF p THEN [readers |-> 1, faults |-> 1, kicks |-> 1]
                                    ELSE [readers |-> 2, faults |-> 3, kicks |-> 2]]
=============================================================================
