----------------------------- MODULE FileTable ------------------------------
(***************************************************************************)
(* What a DOS program may expect of its file handles: a handle names an    *)
(* open file with a position, duplicates share it, a write is in the file  *)
(* when the call returns, and a file stays open until its last handle is   *)
(* closed.  Contents are lengths.  DosFiles implements this for a program  *)
(* that keeps to the restrictions DosFiles names.                          *)
(***************************************************************************)
EXTENDS Integers

CONSTANTS Names, Files, Ids, Handles, FirstFree, MaxLen, None, Free, Console

VARIABLES
  dir,      (* the file of each name, or None                              *)
  length,   (* the length of each file                                     *)
  open,     (* the open files: [file, pos, writable], or None              *)
  handle    (* the open file of each handle, Console or Free               *)

vars == <<dir, length, open, handle>>

FreeHandles == {h \in Handles : h >= FirstFree /\ handle[h] = Free}
Lowest      == CHOOSE h \in FreeHandles : \A g \in FreeHandles : h <= g
OnFile      == {h \in Handles : handle[h] \in Ids}
LastOne(h)  == \A g \in Handles \ {h} : handle[g] # handle[h]
OpenOf(h)   == open[handle[h]]
Larger(a, b) == IF a < b THEN b ELSE a
Unused      == {f \in Files : /\ \A n \in Names : dir[n] # f
                               /\ \A s \in Ids : open[s] = None \/ open[s].file # f}

Init ==
  /\ dir = [n \in Names |-> None]
  /\ length = [f \in Files |-> 0]
  /\ open = [s \in Ids |-> None]
  /\ handle = [h \in Handles |-> IF h < FirstFree THEN Console ELSE Free]

(* File f is opened under the lowest free handle.                          *)
Opens(f, writable) ==
  \E s \in {t \in Ids : open[t] = None} :
    /\ handle' = [handle EXCEPT ![Lowest] = s]
    /\ open' = [open EXCEPT ![s] = [file |-> f, pos |-> 0, writable |-> writable]]

Open(n, writable) ==
  /\ dir[n] # None /\ FreeHandles # {}
  /\ Opens(dir[n], writable)
  /\ UNCHANGED <<dir, length>>

(* An existing file is emptied, a new one made.                            *)
Create(n) ==
  /\ FreeHandles # {}
  /\ \E f \in IF dir[n] = None THEN Unused ELSE {dir[n]} :
       /\ dir' = [dir EXCEPT ![n] = f]
       /\ length' = [length EXCEPT ![f] = 0]
       /\ Opens(f, TRUE)

(* open once handle h no longer needs what it names.                       *)
WithoutLast(h) ==
  IF handle[h] \in Ids /\ LastOne(h) THEN [open EXCEPT ![handle[h]] = None] ELSE open

Close(h) ==
  /\ handle[h] # Free
  /\ handle' = [handle EXCEPT ![h] = Free]
  /\ open' = WithoutLast(h)
  /\ UNCHANGED <<dir, length>>

Moves(h, p) == open' = [open EXCEPT ![handle[h]].pos = p]

Read(h) ==
  /\ OpenOf(h).pos < length[OpenOf(h).file]
  /\ Moves(h, OpenOf(h).pos + 1)
  /\ UNCHANGED <<dir, length, handle>>

Write(h) ==
  LET o == OpenOf(h)
  IN  /\ o.writable
      /\ Moves(h, o.pos + 1)
      /\ length' = [length EXCEPT ![o.file] = Larger(@, o.pos + 1)]
      /\ UNCHANGED <<dir, handle>>

Truncate(h) ==
  /\ OpenOf(h).writable
  /\ length' = [length EXCEPT ![OpenOf(h).file] = OpenOf(h).pos]
  /\ UNCHANGED <<dir, open, handle>>

(* To a place relative to the start, the position or the end.              *)
Seek(h, offset) ==
  /\ \E from \in {0, OpenOf(h).pos, length[OpenOf(h).file]} :
       from + offset >= 0 /\ Moves(h, from + offset)
  /\ UNCHANGED <<dir, length, handle>>

Dup(h) ==
  /\ handle[h] # Free /\ FreeHandles # {}
  /\ handle' = [handle EXCEPT ![Lowest] = handle[h]]
  /\ UNCHANGED <<dir, length, open>>

(* The target is closed first.                                             *)
ForceDup(h, to) ==
  /\ handle[h] # Free /\ h # to
  /\ handle' = [handle EXCEPT ![to] = handle[h]]
  /\ open' = IF handle[to] = handle[h] THEN open ELSE WithoutLast(to)
  /\ UNCHANGED <<dir, length>>

Remove(n) ==
  /\ dir' = [dir EXCEPT ![n] = None]
  /\ UNCHANGED <<length, open, handle>>

Rename(n, m) ==
  /\ dir[n] # None
  /\ dir' = [dir EXCEPT ![m] = dir[n], ![n] = IF n = m THEN dir[n] ELSE None]
  /\ UNCHANGED <<length, open, handle>>

Next ==
  \/ \E n \in Names : \/ \E w \in BOOLEAN : Open(n, w)
                      \/ Create(n) \/ Remove(n) \/ \E m \in Names : Rename(n, m)
  \/ \E h \in OnFile : \/ Read(h) \/ Write(h) \/ Truncate(h)
                       \/ \E offset \in -MaxLen .. MaxLen : Seek(h, offset)
  \/ \E h \in Handles : Close(h) \/ Dup(h) \/ \E to \in Handles : ForceDup(h, to)
=============================================================================
