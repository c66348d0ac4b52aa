------------------------------ MODULE DosFiles ------------------------------
(***************************************************************************)
(* File handles: src/files.cpp and the INT 21h calls over it (AH=3Ch-42h,  *)
(* 45h, 46h, 56h, 5Bh in src/dos.cpp).                                     *)
(*                                                                         *)
(* A handle is an entry of the table h_ and names a stdio stream, which it *)
(* may share with other handles; a stream buffers what was written to it   *)
(* until stdio flushes.  Contents are lengths.  Streams and host files     *)
(* behave as the C library's and POSIX's do: fseek and fclose flush, and   *)
(* stdio may flush whenever it likes.  The code neither seeks nor flushes  *)
(* between a write and a read of the same stream, as C asks for: then a    *)
(* host's stdio flushes by itself (glibc) or refuses the call (Windows).   *)
(* A program that is one of several processes makes no difference here:    *)
(* neither EXEC nor the end of a program touches the table.                *)
(*                                                                         *)
(* rude is set once the guest does what the code does not support, or the  *)
(* host's stdio refuses a call: see each action.  A closed stream may stay *)
(* in the table (the code calls its close bookkeeping loose); using one is *)
(* undefined and ends the model.                                           *)
(***************************************************************************)
EXTENDS Integers, FiniteSets

CONSTANTS
  Names,       (* the file names programs use                              *)
  Files,       (* the host's files                                         *)
  Streams,     (* FILE objects: bounds how many can leak                   *)
  MaxHandle,   (* 255                                                      *)
  FirstFree,   (* 3: handles below are the console's                       *)
  MaxLen,      (* bound on lengths and positions                           *)
  Wrap,        (* 2^32: offsets are 32-bit                                 *)
  Offsets,     (* the offsets a guest gives, as 32-bit words               *)
  LongIs32,    (* whether the host's long has 32 bits                      *)
  None, Free, Console

ASSUME FilesAssumption ==
  /\ MaxHandle \in Nat /\ FirstFree \in Nat /\ MaxLen \in Nat
  /\ Streams \subseteq Nat /\ Console \notin Streams /\ Free \notin Streams \union {Console}
  /\ Wrap \in Nat /\ 2 * MaxLen < Wrap /\ Offsets \subseteq 0 .. Wrap - 1
  /\ LongIs32 \in BOOLEAN

VARIABLES
  dir,        (* the host's directory: the file of each name, or None      *)
  size,       (* the length of each file as the host has it                *)
  stream,     (* the streams that were opened                              *)
  handle,     (* DosFiles::h_: a stream, Console, or Free                  *)
  last,       (* what stdio last did on a stream: "read" or "write" when   *)
              (* the other has to be preceded by a seek, else "none"       *)
  answer,     (* what AH=42h, if it was the last call, reported            *)
  rude, undefined

filesVars == <<dir, size, stream, handle, last, answer, rude, undefined>>

Handles == 0 .. MaxHandle

Closed == [live |-> FALSE, file |-> None, pos |-> 0, unsaved |-> 0, writable |-> FALSE]

OnStream      == {h \in Handles : handle[h] \in Streams}
StreamOf(h)   == stream[handle[h]]
Sharing(s)    == {h \in Handles : handle[h] = s}
Live          == {s \in Streams : stream[s].live}
OpenOn(f)     == {s \in Live : stream[s].file = f}
Greater(a, b) == IF a < b THEN b ELSE a
Did(s, what)  == last' = [last EXCEPT ![s] = what]

(* DosFiles::alloc: the lowest free handle.                                *)
FreeHandles == {h \in Handles : h >= FirstFree /\ handle[h] = Free}
Alloc       == CHOOSE h \in FreeHandles : \A g \in FreeHandles : h <= g

(* Mutant: what is flushed lands behind the end, wherever the stream is.   *)
AppendedSize(s) ==
  IF stream[s].unsaved = 0 THEN size
  ELSE [size EXCEPT ![stream[s].file] = @ + stream[s].unsaved]

(* The file system as it is when stream s is flushed.                      *)
FlushedSize(s) ==
  IF stream[s].unsaved = 0 THEN size
  ELSE [size EXCEPT ![stream[s].file] = Greater(@, stream[s].pos)]

(* Mutant: fseek without the flush.                                        *)
SeeksUnflushed(s, p) ==
  /\ stream' = [stream EXCEPT ![s].pos = p, ![s].unsaved = 0]
  /\ size' = size

(* stdio flushes stream s and places it at p.                              *)
FlushesTo(s, p) ==
  /\ stream' = [stream EXCEPT ![s].pos = p, ![s].unsaved = 0]
  /\ size' = FlushedSize(s)

(* fopen succeeded on f: a stream nothing refers to, under handle Alloc.   *)
Fresh == {s \in Streams : s \notin Live /\ Sharing(s) = {}}

Opens(f, writable) ==
  LET s == CHOOSE s \in Fresh : \A t \in Fresh : s <= t
  IN  /\ Fresh # {}
      /\ handle' = [handle EXCEPT ![Alloc] = s]
      /\ stream' = [stream EXCEPT ![s] = [live |-> TRUE, file |-> f, pos |-> 0,
                                          unsaved |-> 0, writable |-> writable]]
      /\ Did(s, "none")

----------------------------------------------------------------------------
FilesInit ==
  /\ dir = [n \in Names |-> None]
  /\ size = [f \in Files |-> 0]
  /\ stream = [s \in Streams |-> Closed]
  /\ handle = [h \in Handles |-> IF h < FirstFree THEN Console ELSE Free]
  /\ last = [s \in Streams |-> "none"]
  /\ answer = None
  /\ rude = FALSE
  /\ undefined = FALSE

(* open, AH=3Dh: for reading "rb", else "r+b".  The guest is rude when the *)
(* file is open already: the two streams do not see each other's buffers.  *)
OpenFile(n, writable) ==
  /\ dir[n] # None /\ FreeHandles # {}
  /\ Opens(dir[n], writable)
  /\ rude' = (rude \/ OpenOn(dir[n]) # {})
  /\ answer' = None
  /\ UNCHANGED <<dir, size, undefined>>

(* create, AH=3Ch, and AH=5Bh for a name there is none of yet: "w+b"       *)
(* empties the file before a handle is found, so a call that is refused    *)
(* for want of a handle has emptied it too (rude, like an open file).      *)
CreateFile(n) ==
  \E f \in IF dir[n] # None THEN {dir[n]}
           ELSE {g \in Files : (\A m \in Names : dir[m] # g) /\ OpenOn(g) = {}} :
    /\ dir' = [dir EXCEPT ![n] = f]
    /\ size' = [size EXCEPT ![f] = 0]
    /\ \/ FreeHandles # {} /\ Opens(f, TRUE)
       \/ FreeHandles = {} /\ UNCHANGED <<handle, stream, last>>
    /\ rude' = (rude \/ OpenOn(f) # {} \/ FreeHandles = {})
    /\ answer' = None
    /\ UNCHANGED undefined

(* Mutant: the entry of a closed handle stays in the table.                *)
NotVacated(h) == handle

(* What a closed handle leaves in the table: a console handle stays used,  *)
(* and keeps the stream it was redirected to.                              *)
Vacated(h) == IF h < FirstFree THEN handle ELSE [handle EXCEPT ![h] = Free]

(* close, AH=3Eh, of a handle on a live stream.  There is no count of the  *)
(* handles that share it: it is closed under the others (rude).            *)
CloseFile(h) ==
  /\ StreamOf(h).live
  /\ size' = FlushedSize(handle[h])
  /\ stream' = [stream EXCEPT ![handle[h]] = Closed]
  /\ handle' = Vacated(h)
  /\ Did(handle[h], "none")
  /\ rude' = (rude \/ h < FirstFree \/ Sharing(handle[h]) # {h})
  /\ answer' = None
  /\ UNCHANGED <<dir, undefined>>

(* close of a console handle or of a duplicate of one.                     *)
CloseConsole(h) ==
  /\ handle[h] = Console
  /\ handle' = Vacated(h)
  /\ rude' = (rude \/ h < FirstFree)
  /\ answer' = None
  /\ UNCHANGED <<dir, size, stream, last, undefined>>

(* The host's stdio refuses to turn stream s round with no seek since it   *)
(* was used the other way: the call moves no byte.                         *)
RefusesToTurn(s, after) ==
  /\ last[s] = after
  /\ rude' = TRUE
  /\ UNCHANGED <<size, stream, last>>

(* fread: what was written is flushed first.  At the end of the file       *)
(* nothing is read, and a write may follow.                                *)
ReadsOn(s) ==
  /\ \/ /\ stream[s].pos < FlushedSize(s)[stream[s].file]
        /\ FlushesTo(s, stream[s].pos + 1) /\ Did(s, "read")
     \/ /\ stream[s].pos >= FlushedSize(s)[stream[s].file]
        /\ FlushesTo(s, stream[s].pos) /\ Did(s, "none")
  /\ UNCHANGED rude

(* read, AH=3Fh.                                                           *)
ReadFile(h) ==
  /\ StreamOf(h).live
  /\ ReadsOn(handle[h]) \/ RefusesToTurn(handle[h], "write")
  /\ answer' = None
  /\ UNCHANGED <<dir, handle, undefined>>

(* fwrite: into the stream's buffer.                                       *)
WritesOn(s) ==
  /\ stream[s].pos < MaxLen
  /\ stream' = [stream EXCEPT ![s].pos = @ + 1, ![s].unsaved = @ + 1]
  /\ Did(s, "write")
  /\ UNCHANGED <<size, rude>>

(* write, AH=40h.                                                          *)
WriteFile(h) ==
  /\ StreamOf(h).live /\ StreamOf(h).writable
  /\ WritesOn(handle[h]) \/ RefusesToTurn(handle[h], "read")
  /\ answer' = None
  /\ UNCHANGED <<dir, handle, undefined>>

(* stdio flushes a buffer that is full.                                    *)
BufferFlushed(s) ==
  /\ stream[s].unsaved > 0
  /\ FlushesTo(s, stream[s].pos)
  /\ answer' = None
  /\ UNCHANGED <<dir, handle, last, rude, undefined>>

(* truncate_here, AH=40h with CX=0.                                        *)
TruncateFile(h) ==
  /\ StreamOf(h).live /\ StreamOf(h).writable
  /\ StreamOf(h).pos <= MaxLen
  /\ size' = [size EXCEPT ![StreamOf(h).file] = StreamOf(h).pos]
  /\ stream' = [stream EXCEPT ![handle[h]].unsaved = 0]
  /\ Did(handle[h], "none")
  /\ answer' = None
  /\ UNCHANGED <<dir, handle, rude, undefined>>

(* AH=42h widens CX:DX to the host's long: where that has 64 bits the      *)
(* offset is never negative.                                               *)
Offset(word) == IF LongIs32 /\ 2 * word >= Wrap THEN word - Wrap ELSE word

(* seek, AH=42h, with an offset given as a 32-bit word.                    *)
SeekFile(h, word) ==
  LET o == StreamOf(h)
  IN  /\ o.live
      /\ \E from \in {0, o.pos, FlushedSize(handle[h])[o.file]} :
           LET p == from + Offset(word)
           IN  /\ p >= 0 /\ p % Wrap <= MaxLen /\ p <= Wrap + MaxLen
               /\ FlushesTo(handle[h], p)
               /\ answer' = p % Wrap
      /\ Did(handle[h], "none")
      /\ UNCHANGED <<dir, handle, rude, undefined>>

(* dup, AH=45h.                                                            *)
DupHandle(h) ==
  /\ handle[h] # Free /\ FreeHandles # {}
  /\ handle' = [handle EXCEPT ![Alloc] = handle[h]]
  /\ answer' = None
  /\ UNCHANGED <<dir, size, stream, last, rude, undefined>>

(* dup2, AH=46h.  The target is not closed: its stream leaks.              *)
ForceDupHandle(h, to) ==
  /\ handle[h] # Free /\ h # to
  /\ handle' = [handle EXCEPT ![to] = handle[h]]
  /\ answer' = None
  /\ UNCHANGED <<dir, size, stream, last, rude, undefined>>

(* remove, AH=41h.                                                         *)
RemoveFile(n) ==
  /\ dir[n] # None
  /\ dir' = [dir EXCEPT ![n] = None]
  /\ answer' = None
  /\ UNCHANGED <<size, stream, handle, last, rude, undefined>>

(* AH=56h: the host's rename, which replaces the target.                   *)
RenameFile(n, m) ==
  /\ dir[n] # None /\ n # m
  /\ dir' = [dir EXCEPT ![m] = dir[n], ![n] = None]
  /\ answer' = None
  /\ UNCHANGED <<size, stream, handle, last, rude, undefined>>

(* A call on a handle whose stream was closed under it.                    *)
UseClosed(h) ==
  /\ ~StreamOf(h).live
  /\ undefined' = TRUE
  /\ answer' = None
  /\ UNCHANGED <<dir, size, stream, handle, last, rude>>

OnName(n) ==
  \/ \E w \in BOOLEAN : OpenFile(n, w)
  \/ CreateFile(n)
  \/ RemoveFile(n)
  \/ \E m \in Names : RenameFile(n, m)

OnFileHandle(h) ==
  \/ ReadFile(h) \/ WriteFile(h) \/ TruncateFile(h) \/ CloseFile(h) \/ UseClosed(h)
  \/ \E word \in Offsets : SeekFile(h, word)

OnHandle(h) == CloseConsole(h) \/ DupHandle(h) \/ \E to \in Handles : ForceDupHandle(h, to)

FilesNext ==
  /\ ~undefined
  /\ \/ \E n \in Names : OnName(n)
     \/ \E h \in OnStream : OnFileHandle(h)
     \/ \E h \in Handles : OnHandle(h)
     \/ \E s \in Live : BufferFlushed(s)

FilesSpec == FilesInit /\ [][FilesNext]_filesVars

----------------------------------------------------------------------------
FilesTypeOK ==
  /\ dir \in [Names -> Files \union {None}]
  /\ size \in [Files -> 0 .. MaxLen]
  /\ stream \in [Streams -> [live : BOOLEAN, file : Files \union {None}, pos : Nat,
                             unsaved : 0 .. MaxLen, writable : BOOLEAN]]
  /\ handle \in [Handles -> Streams \union {Console, Free}]
  /\ last \in [Streams -> {"none", "read", "write"}]

(* A polite guest's handles never name a closed stream, however it         *)
(* duplicates, redirects and restores them.                                *)
PoliteNeverDangles == rude \/ \A h \in OnStream : StreamOf(h).live

(* Reports of 42h: "new position" (files.h:31), in DX:AX.                  *)
SeekAnswersPosition == answer # None => \E s \in Live : stream[s].pos = answer

(* What the guest sees: a file is as long as the furthest byte written to  *)
(* it, in the host or in a buffer, and only streams that a handle names    *)
(* are open files.                                                         *)
SeenLength(f) ==
  LET ahead == {stream[s].pos : s \in {t \in OpenOn(f) : stream[t].unsaved > 0}}
  IN  CHOOSE m \in ahead \union {size[f]} : \A p \in ahead \union {size[f]} : p <= m

SeenOpen(s) ==
  IF stream[s].live /\ Sharing(s) # {}
  THEN [file |-> stream[s].file, pos |-> stream[s].pos, writable |-> stream[s].writable]
  ELSE None

Seen == INSTANCE FileTable WITH
          Ids <- Streams,
          length <- [f \in Files |-> SeenLength(f)],
          open <- [s \in Streams |-> SeenOpen(s)]

(* Through buffering, shared streams, redirections and leaks, a polite     *)
(* guest's handles behave as the handles of FileTable: positions are       *)
(* shared, writes are seen by every later call, lengths are exact.         *)
PoliteSeesDos == [][~rude' /\ ~undefined' => [Seen!Next]_Seen!vars]_filesVars
=============================================================================
