---------------------------- MODULE MCDosFiles ----------------------------
(***************************************************************************)
(* File handles and directory searches: neither touches the other's state, *)
(* so a behaviour exercises one of them.                                   *)
(***************************************************************************)
EXTENDS DosFiles, DosSearch, TLC

VARIABLE part

Alike == Permutations(Names) \union Permutations(Files)

Init == part \in {"handles", "search"} /\ FilesInit /\ SearchInit

Next ==
  \/ part = "handles" /\ FilesNext  /\ UNCHANGED <<part, searchVars>>
  \/ part = "search"  /\ SearchNext /\ UNCHANGED <<part, filesVars>>

(* The fields of both keep their types.                                    *)
TypesOK == FilesTypeOK /\ SearchTypeOK

Spec == Init /\ [][Next]_<<part, filesVars, searchVars>>
=============================================================================
