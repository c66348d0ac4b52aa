---------------------------- MODULE MCDpmiMemory ----------------------------
(***************************************************************************)
(* The heap and the descriptor table of the DPMI host.  All that the one   *)
(* asks of the other is whether cb_stack still gets a selector, which      *)
(* DpmiHeap leaves to chance (tableFull), so a behaviour exercises one of  *)
(* them: part says which.                                                  *)
(***************************************************************************)
EXTENDS DpmiHeap, DpmiLdt

VARIABLE part

(* Low memory has the largest limit in bytes, the callback stack a small   *)
(* one somewhere else.                                                     *)
MCHostWants ==
  [k \in HostKinds |-> IF k = "low" THEN [base |-> 0, limit |-> MaxField]
                                    ELSE [base |-> 1, limit |-> 1]]

Init == part \in {"heap", "ldt"} /\ HeapInit /\ LdtInit

Next ==
  \/ part = "heap" /\ HeapNext /\ UNCHANGED <<part, ldtVars>>
  \/ part = "ldt"  /\ LdtNext  /\ UNCHANGED <<part, heapVars>>

(* The fields of both keep their types.                                    *)
TypesOK == HeapTypeOK /\ LdtTypeOK

Spec == Init /\ [][Next]_<<part, heapVars, ldtVars>>
=============================================================================
