---------------------------- MODULE MCDpmiCalls ----------------------------
(***************************************************************************)
(* DpmiCalls for TLC.  Two slots are enough for a refused call and for a   *)
(* deferred IRET under another; four activations for a hook's call down to *)
(* a procedure whose callback calls down again.                            *)
(***************************************************************************)
EXTENDS DpmiCalls
=============================================================================
