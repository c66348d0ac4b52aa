--------------------------- MODULE ProcessSearch ----------------------------
(***************************************************************************)
(* What each program may expect of FindFirst and FindNext: it has a disk   *)
(* transfer area and a search of its own.  A search gives every entry that *)
(* matched once, into that area, whatever the programs it runs meanwhile   *)
(* search for.  DosSearch implements this with one vector for all.         *)
(***************************************************************************)
EXTENDS Naturals, Sequences

CONSTANTS Entries, Areas, None

VARIABLES
  process,    (* one record for each running program, the current one last *)
  area        (* the entry each transfer area holds                        *)

vars == <<process, area>>

Depth   == Len(process)
Current == process[Depth]

(* A program starts with the area in its PSP and no search that it began.  *)
Fresh(dta) == [dta |-> dta, left |-> {}, began |-> FALSE]

Init ==
  /\ \E a \in Areas : process = <<Fresh(a)>>
  /\ area = [a \in Areas |-> None]

SetDta(a) == process' = [process EXCEPT ![Depth].dta = a] /\ UNCHANGED area

(* The entry e goes to the program's area and rest is left of the search.  *)
Gives(e, rest) ==
  /\ area' = [area EXCEPT ![Current.dta] = e]
  /\ process' = [process EXCEPT ![Depth].left = rest, ![Depth].began = TRUE]

FindFirst(found) ==
  IF found = {}
  THEN process' = [process EXCEPT ![Depth].left = {}, ![Depth].began = TRUE] /\ UNCHANGED area
  ELSE \E e \in found : Gives(e, found \ {e})

FindNext ==
  IF Current.left = {} THEN UNCHANGED vars
  ELSE \E e \in Current.left : Gives(e, Current.left \ {e})

Starts == \E a \in Areas : process' = Append(process, Fresh(a)) /\ UNCHANGED area
Ends   == Depth > 1 /\ process' = SubSeq(process, 1, Depth - 1) /\ UNCHANGED area

(* FindNext without a FindFirst is not defined: it may fill the area.      *)
FindNothing == ~Current.began /\ \E e \in Entries : area' = [area EXCEPT ![Current.dta] = e]
                              /\ UNCHANGED process

Next ==
  \/ \E a \in Areas : SetDta(a)
  \/ \E found \in SUBSET Entries : FindFirst(found)
  \/ FindNext \/ FindNothing \/ Starts \/ Ends

Spec == Init /\ [][Next]_vars
=============================================================================
