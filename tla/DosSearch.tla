----------------------------- MODULE DosSearch ------------------------------
(***************************************************************************)
(* FindFirst, FindNext and the disk transfer area (AH=1Ah, 2Fh, 4Eh, 4Fh   *)
(* in src/dos.cpp) across EXEC.  The emulator has one vector of entries,   *)
(* one position in it and one transfer area: exec() keeps the parent's in  *)
(* its locals and puts them back.                                          *)
(*                                                                         *)
(* What a pattern matches is the set of entries found (module WildMatch);  *)
(* the host lists them in any order.  Nothing a program does to the        *)
(* directory changes a vector that was filled.                             *)
(***************************************************************************)
EXTENDS Naturals, Sequences, FiniteSets

CONSTANTS
  Entries,       (* the directory's entries                                *)
  Psps,          (* the segments of PSPs, each with an area at 80h         *)
  MaxPrograms,   (* how deep programs may run each other                   *)
  Nothing

ASSUME SearchAssumption ==
  /\ IsFiniteSet(Entries)
  /\ Psps \subseteq Nat \ {0}
  /\ MaxPrograms \in Nat \ {0}

VARIABLES
  dta,       (* dta_seg_: the area is at offset 80h of it                  *)
  find,      (* find_                                                      *)
  find_pos,  (* find_pos_, from 0                                          *)
  began,     (* history: the program that runs has made a FindFirst        *)
  saved,     (* what each suspended exec() keeps, outermost first          *)
  area       (* guest memory: the entry each transfer area holds           *)

(* Segment 0 is the interrupt table: 0:80h is where INT 20h to 2Ah point.  *)
DtaSegs == {0} \union Psps

searchVars == <<dta, find, find_pos, began, saved, area>>

(* The first program has no exec() to give it an area: dta_seg_ is 0.      *)
SearchInit ==
  /\ dta = 0
  /\ find = <<>> /\ find_pos = 0 /\ began = FALSE
  /\ saved = <<>>
  /\ area = [s \in DtaSegs |-> Nothing]

(* AH=1Ah.                                                                 *)
SetDta ==
  /\ dta' \in Psps
  /\ UNCHANGED <<find, find_pos, began, saved, area>>

Orders(found) == {s \in [1 .. Cardinality(found) -> found] :
                    \A i, j \in DOMAIN s : s[i] = s[j] => i = j}

(* find_first, and the entry of write_dta_entry it is followed by.         *)
Fills(found) == find' \in Orders(found) /\ find_pos' = IF found = {} THEN 0 ELSE 1

(* write_dta_entry, for the entry at index i.                              *)
WriteDtaEntry(entries, i) == area' = [area EXCEPT ![dta] = entries[i]]

FindFirst(found) ==
  /\ Fills(found)
  /\ IF found = {} THEN UNCHANGED area ELSE WriteDtaEntry(find', find_pos')
  /\ began' = TRUE
  /\ UNCHANGED <<dta, saved>>

FindNext ==
  /\ find_pos < Len(find)
  /\ find_pos' = find_pos + 1
  /\ WriteDtaEntry(find, find_pos + 1)
  /\ UNCHANGED <<dta, find, began, saved>>

(* AH=4Eh for the volume label: refused before the search is touched.      *)
FindLabel == UNCHANGED searchVars

Kept == [dta |-> dta, find |-> find, find_pos |-> find_pos, began |-> began]

(* exec() once the child is loaded: the area at 80h of its PSP, and the    *)
(* parent's vector still in place.                                         *)
StartProgram ==
  /\ Len(saved) + 1 < MaxPrograms
  /\ saved' = Append(saved, Kept)
  /\ dta' \in Psps \ ({dta} \union {saved[i].dta : i \in DOMAIN saved})
  /\ began' = FALSE
  /\ UNCHANGED <<find, find_pos, area>>

(* Mutant: the parent's vector is not put back.                            *)
PutBackArea(k) == dta' = k.dta /\ find' = find /\ find_pos' = k.find_pos /\ began' = k.began

PutBack(k) == dta' = k.dta /\ find' = k.find /\ find_pos' = k.find_pos /\ began' = k.began

EndProgram ==
  /\ saved # <<>>
  /\ PutBack(saved[Len(saved)])
  /\ saved' = SubSeq(saved, 1, Len(saved) - 1)
  /\ UNCHANGED area

(* exec() of what cannot be loaded puts back what has not changed yet.     *)
ProgramRefused == PutBack(Kept) /\ UNCHANGED <<saved, area>>

SearchNext ==
  \/ SetDta
  \/ \E found \in SUBSET Entries : FindFirst(found)
  \/ FindNext \/ FindLabel
  \/ StartProgram \/ EndProgram \/ ProgramRefused

SearchSpec == SearchInit /\ [][SearchNext]_searchVars

----------------------------------------------------------------------------
SearchTypeOK ==
  /\ dta \in DtaSegs /\ began \in BOOLEAN
  /\ find \in Seq(Entries) /\ find_pos \in 0 .. Len(find)
  /\ Len(saved) < MaxPrograms
  /\ \A i \in DOMAIN saved : saved[i].dta \in DtaSegs
  /\ area \in [DtaSegs -> Entries \union {Nothing}]

(* A program's search is what the vector holds from the position on.       *)
Left(k) == IF k.began THEN {k.find[i] : i \in k.find_pos + 1 .. Len(k.find)} ELSE {}

Program(k) == [dta |-> k.dta, left |-> Left(k), began |-> k.began]

Promised == INSTANCE ProcessSearch WITH
              Areas <- DtaSegs,
              None <- Nothing,
              process <- [i \in 1 .. Len(saved) + 1 |->
                            Program(IF i <= Len(saved) THEN saved[i] ELSE Kept)]

(* "The DTA and the directory search running through it belong to the      *)
(* process" (dos.cpp:444): no program a search is interrupted for changes  *)
(* what it goes on to find, and every entry is found once.                 *)
SearchBelongsToProcess == Promised!Spec

(* "a program starts with its own PSP:80h as DTA" (dos.cpp:486): no entry  *)
(* is written over the interrupt table, where no program put its area.     *)
InterruptTableKept == area[0] = Nothing
=============================================================================
