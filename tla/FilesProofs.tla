----------------------------- MODULE FilesProofs ----------------------------
(***************************************************************************)
(* The properties of DosFiles and DosSearch for any number of files,       *)
(* streams, handles, entries and programs.  Tidy is the inductive          *)
(* invariant of the handles: a polite guest has a file open once and its   *)
(* handles name open streams, and no buffer holds more than was written    *)
(* since its stream was last placed.  From it follows that each call is a  *)
(* step of FileTable or a stutter.  SearchInv is that of the searches: no  *)
(* vector lists an entry twice, so the entries ahead of the position are   *)
(* those a search has left, the promise of ProcessSearch.                  *)
(***************************************************************************)
EXTENDS MCDosFiles, WellFoundedInduction, SequenceTheorems, FiniteSetTheorems, TLAPS

(* A stream: what it has buffered it wrote since it was last placed.       *)
Record == [live : BOOLEAN, file : Files \union {None}, pos : Nat, unsaved : 0 .. MaxLen,
           writable : BOOLEAN]

StreamFine(r) ==
  /\ r \in Record
  /\ r.live => r.file \in Files
  /\ r.unsaved <= r.pos /\ (r.unsaved > 0 => r.pos <= MaxLen)
  /\ LongIs32 => r.pos <= MaxLen

(* The inductive invariant of the types ...                                *)
FilesInv ==
  /\ dir \in [Names -> Files \union {None}]
  /\ size \in [Files -> 0 .. MaxLen]
  /\ handle \in [Handles -> Streams \union {Console, Free}]
  /\ stream \in [Streams -> Record] /\ \A s \in Streams : StreamFine(stream[s])

(* ... and of a polite guest: a file is open once, handles name open ones. *)
OpenOnce == \A s, t \in Live : stream[s].file = stream[t].file => s = t
NoneDangles == \A h \in OnStream : StreamOf(h).live
(* What each stream was last used for.                                     *)
Uses == last \in [Streams -> {"none", "read", "write"}]

Tidy == FilesInv /\ Uses /\ (~rude => OpenOnce /\ NoneDangles)

(* What FilesAssumption says, spelt out.                                   *)
LEMMA Numbers ==
  /\ MaxLen \in Nat /\ MaxHandle \in Nat /\ FirstFree \in Nat /\ Wrap \in Nat
  /\ 2 * MaxLen < Wrap /\ Offsets \subseteq 0 .. Wrap - 1
  /\ Streams \subseteq Nat /\ Console \notin Streams /\ Free \notin Streams /\ Free # Console
  /\ LongIs32 \in BOOLEAN
BY FilesAssumption

Below == {p \in Nat \X Nat : p[1] < p[2]}

(* A set of naturals that is not empty has a least element.                *)
LEMMA LeastIn ==
  ASSUME NEW S, S \subseteq Nat, S # {}
  PROVE  /\ (CHOOSE x \in S : \A y \in S : x <= y) \in S
         /\ \A y \in S : (CHOOSE x \in S : \A z \in S : x <= z) <= y
<1>1. IsWellFoundedOn(Below, Nat)
  BY NatLessThanWellFounded, Zenon DEF OpToRel, Below
<1>2. PICK x \in S : \A y \in S : ~(<<y, x>> \in Below)
  BY <1>1, WFMin, Zenon
<1>3. \A y \in S : x <= y
  <2> SUFFICES ASSUME NEW y \in S PROVE x <= y
    OBVIOUS
  <2>1. x \in Nat /\ y \in Nat
    OBVIOUS
  <2>2. y < x => <<y, x>> \in Below
    BY <2>1, SMT DEF Below
  <2> QED BY <1>2, <2>1, <2>2
<1> QED BY <1>3, Zenon

(* DosFiles::alloc returns a handle that is free and not the console's.    *)
LEMMA AllocFree ==
  ASSUME FreeHandles # {}
  PROVE  Alloc \in FreeHandles /\ Alloc \in Handles /\ handle[Alloc] = Free /\ Alloc >= FirstFree
<1>1. FreeHandles \subseteq Nat
  BY Numbers DEF FreeHandles, Handles
<1>2. Alloc \in FreeHandles
  BY <1>1, LeastIn, Zenon DEF Alloc
<1> QED BY <1>2 DEF FreeHandles

(* The stream fopen gives: none of the live or named ones.                 *)
LEMMA FreshFound ==
  ASSUME Fresh # {}
  PROVE  (CHOOSE s \in Fresh : \A t \in Fresh : s <= t) \in Fresh
<1>1. Fresh \subseteq Nat
  BY Numbers DEF Fresh
<1> QED BY <1>1, LeastIn, Zenon

(* The fields of a stream.                                                 *)
LEMMA RecordFields ==
  ASSUME NEW r \in Record
  PROVE  /\ r.live \in BOOLEAN /\ r.file \in Files \union {None} /\ r.pos \in Nat
         /\ r.unsaved \in 0 .. MaxLen /\ r.unsaved \in Nat /\ r.writable \in BOOLEAN
BY Numbers DEF Record

(* The fields of a stream, of the types FilesInv gives them.               *)
LEMMA StreamFields ==
  ASSUME FilesInv, NEW s \in Streams
  PROVE  /\ stream[s] \in Record /\ StreamFine(stream[s])
         /\ stream[s].live \in BOOLEAN /\ stream[s].file \in Files \union {None}
         /\ stream[s].pos \in Nat /\ stream[s].unsaved \in Nat /\ stream[s].unsaved <= MaxLen
         /\ stream[s].writable \in BOOLEAN
         /\ stream[s].unsaved <= stream[s].pos
         /\ stream[s].unsaved > 0 => stream[s].pos <= MaxLen
         /\ stream[s].live => stream[s].file \in Files
         /\ LongIs32 => stream[s].pos <= MaxLen
<1>1. stream[s] \in Record /\ StreamFine(stream[s])
  BY DEF FilesInv
<1>2. stream[s].unsaved <= MaxLen
  BY <1>1, RecordFields, Numbers
<1> QED BY <1>1, <1>2, RecordFields DEF StreamFine

(* A stream that is placed somewhere, with so much in its buffer.          *)
Placed(r, p, u) == [r EXCEPT !.pos = p, !.unsaved = u]

(* A stream that is placed keeps its file and its mode.                    *)
LEMMA PlacedFields ==
  ASSUME NEW r \in Record, NEW p \in Nat, NEW u \in Nat, u <= MaxLen
  PROVE  /\ Placed(r, p, u) \in Record
         /\ Placed(r, p, u).live = r.live /\ Placed(r, p, u).file = r.file
         /\ Placed(r, p, u).pos = p /\ Placed(r, p, u).unsaved = u
         /\ Placed(r, p, u).writable = r.writable
<1>1. u \in 0 .. MaxLen
  BY Numbers
<1> QED BY <1>1 DEF Placed, Record

(* A stream placed within reach is a stream the invariant admits.          *)
LEMMA PlacedFine ==
  ASSUME FilesInv, NEW s \in Streams, NEW p \in Nat, NEW u \in Nat, u <= MaxLen, u <= p,
         u > 0 \/ LongIs32 => p <= MaxLen
  PROVE  StreamFine(Placed(stream[s], p, u))
<1>1. stream[s] \in Record /\ (stream[s].live => stream[s].file \in Files)
  BY StreamFields
<1> QED BY <1>1, PlacedFields DEF StreamFine

(* The sizes once a stream is flushed.                                     *)
LEMMA Flushed ==
  ASSUME FilesInv, NEW s \in Streams, stream[s].live
  PROVE  /\ FlushedSize(s) \in [Files -> 0 .. MaxLen]
         /\ FlushedSize(s)[stream[s].file] =
              IF stream[s].unsaved = 0 THEN size[stream[s].file]
              ELSE Greater(size[stream[s].file], stream[s].pos)
         /\ \A f \in Files \ {stream[s].file} : FlushedSize(s)[f] = size[f]
<1> DEFINE f0 == stream[s].file  p0 == stream[s].pos
<1>1. f0 \in Files /\ p0 \in Nat /\ stream[s].unsaved \in Nat /\ MaxLen \in Nat
      /\ (stream[s].unsaved > 0 => p0 <= MaxLen)
  BY StreamFields, Numbers
<1>2. size \in [Files -> 0 .. MaxLen]
  BY DEF FilesInv
<1>3. CASE stream[s].unsaved = 0
  BY <1>1, <1>2, <1>3 DEF FlushedSize
<1>4. CASE stream[s].unsaved # 0
  <2>1. FlushedSize(s) = [size EXCEPT ![f0] = Greater(size[f0], p0)]
    BY <1>4 DEF FlushedSize
  <2>2. Greater(size[f0], p0) \in 0 .. MaxLen
    <3>1. size[f0] \in 0 .. MaxLen /\ p0 <= MaxLen
      BY <1>1, <1>2, <1>4
    <3> QED BY <1>1, <3>1 DEF Greater
  <2> HIDE DEF f0, p0
  <2>3. /\ FlushedSize(s) \in [Files -> 0 .. MaxLen]
        /\ FlushedSize(s)[f0] = Greater(size[f0], p0)
        /\ \A f \in Files \ {f0} : FlushedSize(s)[f] = size[f]
    BY <1>1, <1>2, <2>1, <2>2
  <2> QED BY <1>4, <2>3 DEF f0, p0
<1> QED BY <1>3, <1>4

(* Handles that name a stream name one of Streams.                         *)
LEMMA Named ==
  ASSUME NEW h \in OnStream
  PROVE  h \in Handles /\ handle[h] \in Streams /\ StreamOf(h) = stream[handle[h]]
BY DEF OnStream, StreamOf

-----------------------------------------------------------------------------
(* The types.                                                              *)
LEMMA StreamPut ==
  ASSUME FilesInv, NEW s \in Streams, NEW r, StreamFine(r), stream' = [stream EXCEPT ![s] = r],
         size' \in [Files -> 0 .. MaxLen], dir' \in [Names -> Files \union {None}],
         handle' \in [Handles -> Streams \union {Console, Free}]
  PROVE  FilesInv'
<1>1. r \in Record /\ stream \in [Streams -> Record]
  BY DEF StreamFine, FilesInv
<1>2. stream' \in [Streams -> Record] /\ stream'[s] = r
      /\ \A t \in Streams \ {s} : stream'[t] = stream[t]
  BY <1>1
<1>3. \A t \in Streams : StreamFine(stream'[t])
  BY <1>2 DEF FilesInv
<1> QED BY <1>2, <1>3 DEF FilesInv

(* A step that touches no stream keeps the types.                          *)
LEMMA StreamsKept ==
  ASSUME FilesInv, UNCHANGED stream,
         size' \in [Files -> 0 .. MaxLen], dir' \in [Names -> Files \union {None}],
         handle' \in [Handles -> Streams \union {Console, Free}]
  PROVE  FilesInv'
BY DEF FilesInv

(* fclose leaves a stream the invariant admits.                            *)
LEMMA ClosedFine == StreamFine(Closed)
<1>1. Closed \in Record
  BY Numbers DEF Closed, Record
<1> QED BY <1>1, Numbers DEF StreamFine, Closed

(* So does fopen.                                                          *)
LEMMA OpenedFine ==
  ASSUME NEW f \in Files, NEW w \in BOOLEAN
  PROVE  StreamFine([live |-> TRUE, file |-> f, pos |-> 0, unsaved |-> 0, writable |-> w])
<1> DEFINE r == [live |-> TRUE, file |-> f, pos |-> 0, unsaved |-> 0, writable |-> w]
<1>1. r \in Record
  BY Numbers DEF Record
<1>2. r.file = f /\ r.pos = 0 /\ r.unsaved = 0
  OBVIOUS
<1> HIDE DEF r
<1>3. StreamFine(r)
  BY <1>1, <1>2, Numbers DEF StreamFine
<1> QED BY <1>3 DEF r

(* The table keeps its type when a handle takes a stream or the console.   *)
LEMMA HandlePut ==
  ASSUME FilesInv, NEW h, NEW v \in Streams \union {Console, Free},
         handle' = [handle EXCEPT ![h] = v]
  PROVE  handle' \in [Handles -> Streams \union {Console, Free}]
BY DEF FilesInv

(* Opening a file keeps the types.                                         *)
LEMMA OpensTyped ==
  ASSUME FilesInv, NEW f \in Files, NEW w \in BOOLEAN, Opens(f, w),
         size' \in [Files -> 0 .. MaxLen], dir' \in [Names -> Files \union {None}]
  PROVE  FilesInv'
<1> DEFINE s == CHOOSE s \in Fresh : \A t \in Fresh : s <= t
           r == [live |-> TRUE, file |-> f, pos |-> 0, unsaved |-> 0, writable |-> w]
<1>1. s \in Fresh
  BY FreshFound DEF Opens
<1> HIDE DEF s
<1>2. s \in Streams
  BY <1>1 DEF Fresh
<1>3. handle' = [handle EXCEPT ![Alloc] = s] /\ stream' = [stream EXCEPT ![s] = r]
  BY DEF Opens, s
<1>4. StreamFine(r)
  BY OpenedFine
<1> HIDE DEF r
<1>5. handle' \in [Handles -> Streams \union {Console, Free}]
  BY <1>2, <1>3, HandlePut
<1> QED BY <1>2, <1>3, <1>4, <1>5, StreamPut

(* So does closing a handle.                                               *)
LEMMA VacatedTyped ==
  ASSUME FilesInv, NEW h
  PROVE  Vacated(h) \in [Handles -> Streams \union {Console, Free}]
BY DEF FilesInv, Vacated

(* Flushing stream s to p.                                                 *)
LEMMA FlushesTyped ==
  ASSUME FilesInv, NEW s \in Streams, stream[s].live, NEW p \in Nat,
         LongIs32 => p <= MaxLen, FlushesTo(s, p), UNCHANGED <<dir, handle>>
  PROVE  FilesInv' /\ stream' = [stream EXCEPT ![s] = Placed(stream[s], p, 0)]
<1>1. stream \in [Streams -> Record]
  BY DEF FilesInv
<1>2. stream' = [stream EXCEPT ![s] = Placed(stream[s], p, 0)]
  BY <1>1 DEF FlushesTo, Placed
<1>3. StreamFine(Placed(stream[s], p, 0))
  BY PlacedFine, Numbers
<1>4. size' \in [Files -> 0 .. MaxLen]
  BY Flushed DEF FlushesTo
<1> QED BY <1>2, <1>3, <1>4, StreamPut DEF FilesInv

(* Where a 32-bit seek may go.                                             *)
LEMMA SeekTo ==
  ASSUME NEW word \in Offsets, NEW from \in Nat, LongIs32 => from <= MaxLen,
         from + Offset(word) >= 0, (from + Offset(word)) % Wrap <= MaxLen
  PROVE  /\ from + Offset(word) \in Nat /\ Offset(word) \in Int
         /\ LongIs32 => from + Offset(word) <= MaxLen
<1>1. word \in 0 .. Wrap - 1 /\ MaxLen \in Nat /\ Wrap \in Nat /\ 2 * MaxLen < Wrap
  BY Numbers
<1>2. Offset(word) \in Int /\ (LongIs32 => 2 * Offset(word) < Wrap)
  BY <1>1 DEF Offset
<1>3. ASSUME LongIs32 PROVE from + Offset(word) <= MaxLen
  <2> DEFINE p == from + Offset(word)
  <2>1. p \in Nat /\ p < Wrap
    BY <1>1, <1>2, <1>3
  <2> HIDE DEF p
  <2>2. p % Wrap = p
    BY <1>1, <2>1
  <2> QED BY <2>2 DEF p
<1> QED BY <1>2, <1>3

(* Every call keeps the types.                                             *)
LEMMA FilesTyped == FilesInv /\ FilesNext => FilesInv'
<1> SUFFICES ASSUME FilesInv, FilesNext PROVE FilesInv'
  OBVIOUS
<1>0. dir \in [Names -> Files \union {None}] /\ size \in [Files -> 0 .. MaxLen]
      /\ handle \in [Handles -> Streams \union {Console, Free}] /\ stream \in [Streams -> Record]
  BY DEF FilesInv
<1>1. ASSUME NEW n \in Names, NEW w \in BOOLEAN, OpenFile(n, w) PROVE FilesInv'
  <2>1. dir[n] \in Files /\ Opens(dir[n], w) /\ UNCHANGED <<dir, size>>
    BY <1>0, <1>1 DEF OpenFile
  <2> QED BY <1>0, <2>1, OpensTyped
<1>2. ASSUME NEW n \in Names, CreateFile(n) PROVE FilesInv'
  <2>1. PICK f \in IF dir[n] # None THEN {dir[n]}
                   ELSE {g \in Files : (\A m \in Names : dir[m] # g) /\ OpenOn(g) = {}} :
          /\ dir' = [dir EXCEPT ![n] = f]
          /\ size' = [size EXCEPT ![f] = 0]
          /\ \/ FreeHandles # {} /\ Opens(f, TRUE)
             \/ FreeHandles = {} /\ UNCHANGED <<handle, stream>>
    BY <1>2 DEF CreateFile
  <2>2. f \in Files
    BY <1>0, <2>1
  <2>3. dir' \in [Names -> Files \union {None}] /\ size' \in [Files -> 0 .. MaxLen]
    BY <1>0, <2>1, <2>2, Numbers
  <2>4. CASE Opens(f, TRUE)
    BY <2>2, <2>3, <2>4, OpensTyped
  <2>5. CASE UNCHANGED <<handle, stream>>
    BY <1>0, <2>3, <2>5, StreamsKept
  <2> QED BY <2>1, <2>4, <2>5
<1>3. ASSUME NEW n \in Names, RemoveFile(n) PROVE FilesInv'
  <2>1. dir' \in [Names -> Files \union {None}] /\ UNCHANGED <<size, stream, handle>>
    BY <1>0, <1>3 DEF RemoveFile
  <2> QED BY <1>0, <2>1, StreamsKept
<1>4. ASSUME NEW n \in Names, NEW m \in Names, RenameFile(n, m) PROVE FilesInv'
  <2>1. dir' \in [Names -> Files \union {None}] /\ UNCHANGED <<size, stream, handle>>
    BY <1>0, <1>4 DEF RenameFile
  <2> QED BY <1>0, <2>1, StreamsKept
<1>5. ASSUME NEW h \in OnStream, ReadFile(h) PROVE FilesInv'
  <2> DEFINE s == handle[h]
  <2>1. s \in Streams /\ StreamOf(h) = stream[s]
    BY Named
  <2>2. stream[s].live /\ UNCHANGED <<dir, handle>>
    BY <1>5, <2>1 DEF ReadFile
  <2>6. CASE UNCHANGED <<size, stream>>
    BY <1>0, <2>2, <2>6, StreamsKept
  <2>3. /\ stream[s].pos \in Nat /\ stream[s].file \in Files
        /\ LongIs32 => stream[s].pos <= MaxLen
    BY <2>1, <2>2, StreamFields
  <2>4. CASE stream[s].pos < FlushedSize(s)[stream[s].file] /\ FlushesTo(s, stream[s].pos + 1)
    <3>1. FlushedSize(s)[stream[s].file] \in 0 .. MaxLen
      BY <2>1, <2>2, <2>3, Flushed
    <3>2. stream[s].pos + 1 \in Nat /\ stream[s].pos + 1 <= MaxLen
      BY <2>3, <2>4, <3>1, Numbers
    <3> HIDE DEF s
    <3> QED BY <2>1, <2>2, <2>4, <3>2, FlushesTyped
  <2>5. CASE FlushesTo(s, stream[s].pos)
    <3> HIDE DEF s
    <3> QED BY <2>1, <2>2, <2>3, <2>5, FlushesTyped
  <2> QED BY <1>5, <2>1, <2>4, <2>5, <2>6 DEF ReadFile, ReadsOn, RefusesToTurn
<1>6. ASSUME NEW h \in OnStream, WriteFile(h) PROVE FilesInv'
  <2> DEFINE s == handle[h]  p == stream[s].pos + 1  u == stream[s].unsaved + 1
  <2>1. s \in Streams /\ StreamOf(h) = stream[s]
    BY Named
  <2>2. UNCHANGED <<dir, size, handle>> /\ (WritesOn(s) \/ UNCHANGED stream)
    BY <1>6 DEF WriteFile, RefusesToTurn, WritesOn
  <2>3. ASSUME WritesOn(s) PROVE p \in Nat /\ u \in Nat /\ u <= p /\ p <= MaxLen /\ u <= MaxLen
    <3>1. /\ stream[s].pos \in Nat /\ stream[s].unsaved \in Nat
          /\ stream[s].unsaved <= stream[s].pos /\ stream[s].pos < MaxLen
      BY <2>1, <2>3, StreamFields DEF WritesOn
    <3>2. MaxLen \in Nat
      BY Numbers
    <3> QED BY <3>1, <3>2
  <2>4. WritesOn(s) => stream' = [stream EXCEPT ![s] = Placed(stream[s], p, u)]
    BY <1>0, <2>1 DEF WritesOn, Placed
  <2> HIDE DEF s, p, u
  <2>5. WritesOn(s) => StreamFine(Placed(stream[s], p, u))
    BY <2>1, <2>3, PlacedFine
  <2>6. CASE WritesOn(s)
    BY <1>0, <2>1, <2>2, <2>4, <2>5, <2>6, StreamPut
  <2>7. CASE UNCHANGED stream
    BY <1>0, <2>2, <2>7, StreamsKept
  <2> QED BY <2>2, <2>6, <2>7
<1>7. ASSUME NEW h \in OnStream, TruncateFile(h) PROVE FilesInv'
  <2> DEFINE s == handle[h]  p == stream[s].pos  f == stream[s].file
  <2>1. s \in Streams /\ StreamOf(h) = stream[s]
    BY Named
  <2>2. /\ stream[s].live /\ p <= MaxLen /\ UNCHANGED <<dir, handle>>
        /\ size' = [size EXCEPT ![f] = p]
        /\ stream' = [stream EXCEPT ![s].unsaved = 0]
    BY <1>7, <2>1 DEF TruncateFile
  <2>3. p \in Nat /\ f \in Files /\ stream[s] \in Record
    BY <2>1, <2>2, StreamFields
  <2>4. stream' = [stream EXCEPT ![s] = Placed(stream[s], p, 0)]
    <3>1. Placed(stream[s], p, 0) = [stream[s] EXCEPT !.unsaved = 0]
      BY <2>3 DEF Placed, Record
    <3> QED BY <1>0, <2>1, <2>2, <3>1
  <2>5. size' \in [Files -> 0 .. MaxLen]
    BY <1>0, <2>2, <2>3, Numbers
  <2> HIDE DEF s, p, f
  <2>6. StreamFine(Placed(stream[s], p, 0))
    BY <2>1, <2>2, <2>3, PlacedFine, Numbers
  <2> QED BY <1>0, <2>1, <2>2, <2>4, <2>5, <2>6, StreamPut
<1>8. ASSUME NEW h \in OnStream, CloseFile(h) PROVE FilesInv'
  <2> DEFINE s == handle[h]
  <2>1. s \in Streams /\ StreamOf(h) = stream[s]
    BY Named
  <2>2. /\ stream[s].live /\ UNCHANGED dir /\ size' = FlushedSize(s)
        /\ stream' = [stream EXCEPT ![s] = Closed] /\ handle' = Vacated(h)
    BY <1>8, <2>1 DEF CloseFile
  <2> HIDE DEF s
  <2>3. /\ size' \in [Files -> 0 .. MaxLen] /\ StreamFine(Closed)
        /\ handle' \in [Handles -> Streams \union {Console, Free}]
    BY <2>1, <2>2, Flushed, ClosedFine, VacatedTyped
  <2> QED BY <1>0, <2>1, <2>2, <2>3, StreamPut
<1>9. ASSUME NEW h \in OnStream, UseClosed(h) PROVE FilesInv'
  BY <1>0, <1>9, StreamsKept DEF UseClosed
<1>10. ASSUME NEW h \in OnStream, NEW word \in Offsets, SeekFile(h, word) PROVE FilesInv'
  <2> DEFINE s == handle[h]
  <2>1. s \in Streams /\ StreamOf(h) = stream[s]
    BY Named
  <2>2. stream[s].live /\ UNCHANGED <<dir, handle>>
    BY <1>10, <2>1 DEF SeekFile
  <2>3. PICK from \in {0, stream[s].pos, FlushedSize(s)[stream[s].file]} :
          /\ from + Offset(word) >= 0 /\ (from + Offset(word)) % Wrap <= MaxLen
          /\ FlushesTo(s, from + Offset(word))
    BY <1>10, <2>1 DEF SeekFile
  <2>4. from \in Nat /\ (LongIs32 => from <= MaxLen)
    <3>1. /\ stream[s].pos \in Nat /\ stream[s].file \in Files
          /\ LongIs32 => stream[s].pos <= MaxLen
      BY <2>1, <2>2, StreamFields
    <3>2. FlushedSize(s)[stream[s].file] \in 0 .. MaxLen
      BY <2>1, <2>2, <3>1, Flushed
    <3> QED BY <2>3, <3>1, <3>2, Numbers
  <2>5. from + Offset(word) \in Nat /\ (LongIs32 => from + Offset(word) <= MaxLen)
    BY <2>3, <2>4, SeekTo
  <2> HIDE DEF s
  <2> QED BY <2>1, <2>2, <2>3, <2>5, FlushesTyped
<1>11. ASSUME NEW h \in Handles, CloseConsole(h) PROVE FilesInv'
  BY <1>0, <1>11, StreamsKept, VacatedTyped DEF CloseConsole
<1>12. ASSUME NEW h \in Handles, DupHandle(h) PROVE FilesInv'
  <2>1. handle' = [handle EXCEPT ![Alloc] = handle[h]] /\ UNCHANGED <<dir, size, stream>>
        /\ handle[h] \in Streams \union {Console, Free}
    BY <1>0, <1>12 DEF DupHandle
  <2> QED BY <1>0, <2>1, HandlePut, StreamsKept
<1>13. ASSUME NEW h \in Handles, NEW to \in Handles, ForceDupHandle(h, to) PROVE FilesInv'
  <2>1. handle' = [handle EXCEPT ![to] = handle[h]] /\ UNCHANGED <<dir, size, stream>>
        /\ handle[h] \in Streams \union {Console, Free}
    BY <1>0, <1>13 DEF ForceDupHandle
  <2> QED BY <1>0, <2>1, HandlePut, StreamsKept
<1>14. ASSUME NEW s \in Live, BufferFlushed(s) PROVE FilesInv'
  <2>1. s \in Streams /\ stream[s].live
    BY DEF Live
  <2>2. stream[s].pos \in Nat /\ (LongIs32 => stream[s].pos <= MaxLen)
    BY <2>1, StreamFields
  <2> QED BY <1>14, <2>1, <2>2, FlushesTyped DEF BufferFlushed
<1> QED
  <2>1. ASSUME NEW n \in Names, OnName(n) PROVE FilesInv'
    BY <1>1, <1>2, <1>3, <1>4, <2>1 DEF OnName
  <2>2. ASSUME NEW h \in OnStream, OnFileHandle(h) PROVE FilesInv'
    BY <1>5, <1>6, <1>7, <1>8, <1>9, <1>10, <2>2 DEF OnFileHandle
  <2>3. ASSUME NEW h \in Handles, OnHandle(h) PROVE FilesInv'
    BY <1>11, <1>12, <1>13, <2>3 DEF OnHandle
  <2> QED BY <1>14, <2>1, <2>2, <2>3 DEF FilesNext

-----------------------------------------------------------------------------
(* What a polite guest sees.                                               *)
Lengths == [f \in Files |-> SeenLength(f)]
Opened  == [s \in Streams |-> SeenOpen(s)]

LengthsSeen ==
  \A f \in Files :
    /\ \A s \in OpenOn(f) : SeenLength(f) = FlushedSize(s)[f]
    /\ OpenOn(f) = {} => SeenLength(f) = size[f]

(* The largest of one number and of two.                                   *)
LEMMA LargestOfOne ==
  ASSUME NEW a \in Nat
  PROVE  (CHOOSE m \in {a} : \A p \in {a} : p <= m) = a
OBVIOUS

(* The largest of two numbers.                                             *)
LEMMA LargestOfTwo ==
  ASSUME NEW a \in Nat, NEW b \in Nat
  PROVE  (CHOOSE m \in {b, a} : \A p \in {b, a} : p <= m) = Greater(a, b)
<1> DEFINE g == Greater(a, b)
<1>1. g \in {b, a} /\ \A p \in {b, a} : p <= g
  BY DEF Greater
<1>2. \A m \in {b, a} : (\A p \in {b, a} : p <= m) => m = g
  BY DEF Greater
<1> HIDE DEF g
<1>3. (CHOOSE m \in {b, a} : \A p \in {b, a} : p <= m) = g
  BY <1>1, <1>2, Zenon
<1> QED BY <1>3 DEF g

(* While a file is open once, its length is what flushing would make it.   *)
LEMMA PoliteLengths == Tidy /\ ~rude => LengthsSeen
<1> SUFFICES ASSUME Tidy, ~rude, NEW f \in Files
             PROVE  /\ \A s \in OpenOn(f) : SeenLength(f) = FlushedSize(s)[f]
                    /\ OpenOn(f) = {} => SeenLength(f) = size[f]
  BY DEF LengthsSeen
<1> DEFINE ahead == {stream[s].pos : s \in {t \in OpenOn(f) : stream[t].unsaved > 0}}
<1>0. FilesInv /\ OpenOnce /\ size[f] \in Nat
  BY Numbers DEF Tidy, FilesInv
<1>1. SeenLength(f) = CHOOSE m \in ahead \union {size[f]} :
                        \A p \in ahead \union {size[f]} : p <= m
  BY Zenon DEF SeenLength
<1>2. CASE ahead = {}
  <2>1. ahead \union {size[f]} = {size[f]}
    BY <1>2
  <2> HIDE DEF ahead
  <2>2. SeenLength(f) = size[f]
    BY <1>0, <1>1, <2>1, LargestOfOne
  <2>3. ASSUME NEW s \in OpenOn(f) PROVE FlushedSize(s)[f] = size[f]
    <3>1. s \in Streams /\ stream[s].live /\ stream[s].file = f
      BY <2>3 DEF OpenOn, Live
    <3>2. stream[s].unsaved \in Nat /\ ~(stream[s].unsaved > 0)
      BY <1>0, <1>2, <3>1, StreamFields DEF ahead
    <3>3. stream[s].unsaved = 0
      BY <3>2
    <3> QED BY <3>3 DEF FlushedSize
  <2> QED BY <2>2, <2>3
<1>3. CASE ahead # {}
  <2>1. PICK s \in OpenOn(f) : stream[s].unsaved > 0
    BY <1>3
  <2>2. s \in Streams /\ stream[s].live /\ stream[s].file = f
    BY <2>1 DEF OpenOn, Live
  <2>3. OpenOn(f) = {s}
    BY <1>0, <2>1 DEF OpenOn, OpenOnce
  <2>4. ahead \union {size[f]} = {stream[s].pos, size[f]}
    BY <2>1, <2>3
  <2> HIDE DEF ahead
  <2>5. stream[s].pos \in Nat /\ stream[s].unsaved \in Nat
    BY <1>0, <2>2, StreamFields
  <2>6. SeenLength(f) = Greater(size[f], stream[s].pos)
    BY <1>0, <1>1, <2>4, <2>5, LargestOfTwo
  <2>7. FlushedSize(s)[f] = Greater(size[f], stream[s].pos)
    <3>1. stream[s].unsaved # 0
      BY <2>1, <2>5
    <3> QED BY <1>0, <2>2, <3>1, Flushed
  <2> QED BY <2>1, <2>3, <2>6, <2>7
<1> QED BY <1>2, <1>3

(* PoliteLengths, of the state after a step.                               *)
LEMMA PoliteLengthsNext == Tidy' /\ ~rude' => LengthsSeen'
BY PoliteLengths, PTL

(* A handle table that names no other stream, over streams that stay open. *)
LEMMA PoliteKept ==
  ASSUME OpenOnce, NoneDangles,
         \A t \in Streams : stream'[t].live = stream[t].live /\ stream'[t].file = stream[t].file,
         \A h \in Handles : handle'[h] \in Streams => \E g \in Handles : handle[g] = handle'[h]
  PROVE  OpenOnce' /\ NoneDangles'
<1>1. Live' = Live
  BY DEF Live
<1>2. OpenOnce'
  BY <1>1 DEF OpenOnce, Live
<1>3. ASSUME NEW h \in OnStream' PROVE StreamOf(h)'.live
  <2>1. h \in Handles /\ handle'[h] \in Streams
    BY <1>3 DEF OnStream
  <2>2. PICK g \in Handles : handle[g] = handle'[h]
    BY <2>1
  <2>3. stream[handle[g]].live
    BY <2>1, <2>2 DEF NoneDangles, OnStream, StreamOf
  <2> QED BY <2>1, <2>2, <2>3 DEF StreamOf
<1> QED BY <1>2, <1>3 DEF NoneDangles

(* What fopen on a file that is not open does.                             *)
LEMMA OpensFacts ==
  ASSUME FilesInv, NEW f \in Files, NEW w \in BOOLEAN, Opens(f, w), FreeHandles # {},
         NEW s, s = CHOOSE x \in Fresh : \A t \in Fresh : x <= t
  PROVE  /\ s \in Streams /\ ~stream[s].live /\ Sharing(s) = {}
         /\ handle' = [handle EXCEPT ![Alloc] = s] /\ handle'[Alloc] = s
         /\ \A h \in Handles \ {Alloc} : handle'[h] = handle[h]
         /\ stream'[s] = [live |-> TRUE, file |-> f, pos |-> 0, unsaved |-> 0, writable |-> w]
         /\ \A t \in Streams \ {s} : stream'[t] = stream[t]
<1>1. s \in Fresh
  BY FreshFound DEF Opens
<1>2. s \in Streams /\ ~stream[s].live /\ Sharing(s) = {}
  BY <1>1 DEF Fresh, Live
<1>3. /\ handle' = [handle EXCEPT ![Alloc] = s]
      /\ stream' = [stream EXCEPT ![s] = [live |-> TRUE, file |-> f, pos |-> 0,
                                           unsaved |-> 0, writable |-> w]]
  BY DEF Opens
<1>4. Alloc \in Handles
  BY AllocFree
<1> QED BY <1>2, <1>3, <1>4 DEF FilesInv

(* A file opened while it is not open leaves it open once.                 *)
LEMMA OpensPolite ==
  ASSUME FilesInv, OpenOnce, NoneDangles, NEW f \in Files, NEW w \in BOOLEAN, Opens(f, w),
         FreeHandles # {}, OpenOn(f) = {}
  PROVE  OpenOnce' /\ NoneDangles'
<1> DEFINE s == CHOOSE x \in Fresh : \A t \in Fresh : x <= t
           r == [live |-> TRUE, file |-> f, pos |-> 0, unsaved |-> 0, writable |-> w]
<1>1. /\ s \in Streams /\ ~stream[s].live
      /\ handle'[Alloc] = s /\ \A h \in Handles \ {Alloc} : handle'[h] = handle[h]
      /\ stream'[s] = r /\ \A t \in Streams \ {s} : stream'[t] = stream[t]
  BY OpensFacts
<1>2. stream'[s].live /\ stream'[s].file = f
  BY <1>1
<1> HIDE DEF s, r
<1>3. Live' = Live \union {s}
  BY <1>1, <1>2 DEF Live
<1>4. \A t \in Live : stream[t].file # f /\ t # s /\ stream'[t] = stream[t]
  BY <1>1 DEF OpenOn, Live
<1>5. OpenOnce'
  BY <1>2, <1>3, <1>4 DEF OpenOnce
<1>6. ASSUME NEW h \in OnStream' PROVE StreamOf(h)'.live
  <2>1. h \in Handles /\ handle'[h] \in Streams
    BY <1>6 DEF OnStream
  <2>2. CASE handle'[h] = s
    BY <1>2, <2>2 DEF StreamOf
  <2>3. CASE handle'[h] # s
    <3>1. handle'[h] = handle[h] /\ h \in OnStream
      BY <1>1, <2>1, <2>3 DEF OnStream
    <3>2. stream[handle[h]].live
      BY <3>1 DEF NoneDangles, StreamOf
    <3> QED BY <1>1, <2>1, <2>3, <3>1, <3>2 DEF StreamOf
  <2> QED BY <2>2, <2>3
<1> QED BY <1>5, <1>6 DEF NoneDangles

(* A stream that moves stays the stream of its file.                       *)
LEMMA MovedSame ==
  ASSUME FilesInv, NEW s \in Streams, NEW p \in Nat, NEW u \in Nat, u <= MaxLen,
         stream' = [stream EXCEPT ![s] = Placed(stream[s], p, u)]
  PROVE  /\ \A t \in Streams : /\ stream'[t].live = stream[t].live
                                /\ stream'[t].file = stream[t].file
                                /\ stream'[t].writable = stream[t].writable
         /\ stream'[s].pos = p /\ stream'[s].unsaved = u
         /\ \A t \in Streams \ {s} : stream'[t] = stream[t]
<1>1. stream \in [Streams -> Record] /\ stream[s] \in Record
  BY DEF FilesInv
<1>2. stream'[s] = Placed(stream[s], p, u) /\ \A t \in Streams \ {s} : stream'[t] = stream[t]
  BY <1>1
<1>3. /\ stream'[s].live = stream[s].live /\ stream'[s].file = stream[s].file
      /\ stream'[s].writable = stream[s].writable
      /\ stream'[s].pos = p /\ stream'[s].unsaved = u
  BY <1>1, <1>2, PlacedFields
<1> QED BY <1>2, <1>3

(* How the actions on a handle's stream move it.                           *)
LEMMA ReadMoves ==
  ASSUME FilesInv, NEW h \in OnStream, ReadFile(h), NEW s, s = handle[h], ~rude'
  PROVE  /\ s \in Streams /\ stream[s].live /\ UNCHANGED <<dir, handle, rude>>
         /\ size' = FlushedSize(s)
         /\ \/ /\ stream[s].pos < FlushedSize(s)[stream[s].file]
                /\ stream' = [stream EXCEPT ![s] = Placed(stream[s], stream[s].pos + 1, 0)]
            \/ stream' = [stream EXCEPT ![s] = Placed(stream[s], stream[s].pos, 0)]
<1>1. s \in Streams /\ StreamOf(h) = stream[s] /\ stream \in [Streams -> Record]
  BY Named DEF FilesInv
<1>2. stream[s].live /\ UNCHANGED <<dir, handle, rude>>
  BY <1>1 DEF ReadFile, ReadsOn, RefusesToTurn
<1>3. \/ /\ stream[s].pos < FlushedSize(s)[stream[s].file]
         /\ FlushesTo(s, stream[s].pos + 1)
      \/ FlushesTo(s, stream[s].pos)
  BY <1>1 DEF ReadFile, ReadsOn, RefusesToTurn
<1>4. \A p : FlushesTo(s, p) => /\ size' = FlushedSize(s)
                               /\ stream' = [stream EXCEPT ![s] = Placed(stream[s], p, 0)]
  BY <1>1 DEF FlushesTo, Placed
<1> QED BY <1>1, <1>2, <1>3, <1>4

(* AH=42h on the handle's stream: fseek flushes it and places it.          *)
LEMMA SeekMoves ==
  ASSUME FilesInv, NEW h \in OnStream, NEW word \in Offsets, SeekFile(h, word),
         NEW s, s = handle[h]
  PROVE  /\ s \in Streams /\ stream[s].live /\ UNCHANGED <<dir, handle, rude>>
         /\ size' = FlushedSize(s)
         /\ \E from \in {0, stream[s].pos, FlushedSize(s)[stream[s].file]} :
              /\ from + Offset(word) \in Nat /\ from \in Nat /\ Offset(word) \in Int
              /\ LongIs32 => from <= MaxLen /\ from + Offset(word) <= MaxLen
              /\ stream' = [stream EXCEPT ![s] = Placed(stream[s], from + Offset(word), 0)]
<1>1. s \in Streams /\ StreamOf(h) = stream[s] /\ stream \in [Streams -> Record]
  BY Named DEF FilesInv
<1>2. stream[s].live /\ UNCHANGED <<dir, handle, rude>>
  BY <1>1 DEF SeekFile
<1>3. PICK from \in {0, stream[s].pos, FlushedSize(s)[stream[s].file]} :
        /\ from + Offset(word) >= 0 /\ (from + Offset(word)) % Wrap <= MaxLen
        /\ FlushesTo(s, from + Offset(word))
  BY <1>1 DEF SeekFile
<1>4. from \in Nat /\ (LongIs32 => from <= MaxLen)
  <2>1. /\ stream[s].pos \in Nat /\ stream[s].file \in Files
        /\ LongIs32 => stream[s].pos <= MaxLen
    BY <1>1, <1>2, StreamFields
  <2>2. FlushedSize(s)[stream[s].file] \in 0 .. MaxLen
    BY <1>1, <1>2, <2>1, Flushed
  <2> QED BY <1>3, <2>1, <2>2, Numbers
<1>5. /\ from + Offset(word) \in Nat /\ Offset(word) \in Int
      /\ LongIs32 => from + Offset(word) <= MaxLen
  BY <1>3, <1>4, SeekTo
<1>6. /\ size' = FlushedSize(s)
      /\ stream' = [stream EXCEPT ![s] = Placed(stream[s], from + Offset(word), 0)]
  BY <1>1, <1>3 DEF FlushesTo, Placed
<1> QED BY <1>1, <1>2, <1>4, <1>5, <1>6

(* AH=40h on the handle's stream: a byte more waits in its buffer.         *)
LEMMA WriteMoves ==
  ASSUME FilesInv, NEW h \in OnStream, WriteFile(h), NEW s, s = handle[h], ~rude'
  PROVE  /\ s \in Streams /\ stream[s].live /\ stream[s].writable
         /\ UNCHANGED <<dir, handle, rude, size>>
         /\ stream[s].pos + 1 \in Nat /\ stream[s].unsaved + 1 \in Nat
         /\ stream[s].unsaved + 1 <= MaxLen
         /\ stream' = [stream EXCEPT ![s] = Placed(stream[s], stream[s].pos + 1,
                                                   stream[s].unsaved + 1)]
<1>1. s \in Streams /\ StreamOf(h) = stream[s] /\ stream \in [Streams -> Record]
  BY Named DEF FilesInv
<1>2. /\ stream[s].live /\ stream[s].writable /\ stream[s].pos < MaxLen
      /\ UNCHANGED <<dir, handle, rude, size>>
      /\ stream' = [stream EXCEPT ![s] = Placed(stream[s], stream[s].pos + 1,
                                                stream[s].unsaved + 1)]
  BY <1>1 DEF WriteFile, WritesOn, RefusesToTurn, Placed
<1>3. /\ stream[s].pos \in Nat /\ stream[s].unsaved \in Nat /\ stream[s].unsaved <= stream[s].pos
      /\ MaxLen \in Nat
  BY <1>1, StreamFields, Numbers
<1>4. /\ stream[s].pos + 1 \in Nat /\ stream[s].unsaved + 1 \in Nat
      /\ stream[s].unsaved + 1 <= MaxLen
  BY <1>2, <1>3
<1> QED BY <1>1, <1>2, <1>4

(* A write of no bytes: the file ends at the position.                     *)
LEMMA TruncateMoves ==
  ASSUME FilesInv, NEW h \in OnStream, TruncateFile(h), NEW s, s = handle[h]
  PROVE  /\ s \in Streams /\ stream[s].live /\ stream[s].writable
         /\ UNCHANGED <<dir, handle, rude>>
         /\ stream[s].pos \in Nat /\ stream[s].file \in Files
         /\ size' = [size EXCEPT ![stream[s].file] = stream[s].pos]
         /\ stream' = [stream EXCEPT ![s] = Placed(stream[s], stream[s].pos, 0)]
<1>1. /\ s \in Streams /\ StreamOf(h) = stream[s] /\ stream \in [Streams -> Record]
      /\ stream[s] \in Record
  BY Named DEF FilesInv
<1>2. /\ stream[s].live /\ stream[s].writable /\ UNCHANGED <<dir, handle, rude>>
      /\ size' = [size EXCEPT ![stream[s].file] = stream[s].pos]
      /\ stream' = [stream EXCEPT ![s].unsaved = 0]
  BY <1>1 DEF TruncateFile
<1>3. Placed(stream[s], stream[s].pos, 0) = [stream[s] EXCEPT !.unsaved = 0]
  BY <1>1 DEF Placed, Record
<1>4. stream' = [stream EXCEPT ![s] = Placed(stream[s], stream[s].pos, 0)]
  BY <1>1, <1>2, <1>3
<1>5. stream[s].pos \in Nat /\ stream[s].file \in Files
  BY <1>1, <1>2, StreamFields
<1> QED BY <1>1, <1>2, <1>4, <1>5

(* stdio on its own: the buffer lands, the position stays.                 *)
LEMMA FlushMoves ==
  ASSUME FilesInv, NEW s \in Live, BufferFlushed(s)
  PROVE  /\ s \in Streams /\ stream[s].live /\ UNCHANGED <<dir, handle, rude>>
         /\ stream[s].pos \in Nat
         /\ size' = FlushedSize(s)
         /\ stream' = [stream EXCEPT ![s] = Placed(stream[s], stream[s].pos, 0)]
<1>1. s \in Streams /\ stream[s].live /\ stream \in [Streams -> Record]
  BY DEF Live, FilesInv
<1> QED BY <1>1, StreamFields DEF BufferFlushed, FlushesTo, Placed

(* Closing a handle nothing shares.                                        *)
LEMMA CloseMoves ==
  ASSUME FilesInv, NEW h \in OnStream, CloseFile(h), ~rude', NEW s, s = handle[h]
  PROVE  /\ ~rude /\ s \in Streams /\ stream[s].live /\ h \in Handles /\ Sharing(s) = {h}
         /\ UNCHANGED dir /\ size' = FlushedSize(s) /\ handle' = [handle EXCEPT ![h] = Free]
         /\ stream' = [stream EXCEPT ![s] = Closed]
         /\ stream'[s] = Closed /\ \A t \in Streams \ {s} : stream'[t] = stream[t]
         /\ \A g \in Handles \ {h} : handle'[g] = handle[g] /\ handle[g] # s
         /\ handle'[h] = Free
<1>1. s \in Streams /\ StreamOf(h) = stream[s] /\ h \in Handles
  BY Named
<1>2. /\ stream[s].live /\ UNCHANGED dir /\ size' = FlushedSize(s)
      /\ stream' = [stream EXCEPT ![s] = Closed] /\ handle' = Vacated(h)
      /\ ~rude /\ ~(h < FirstFree) /\ Sharing(s) = {h}
  BY <1>1 DEF CloseFile
<1>3. handle' = [handle EXCEPT ![h] = Free]
  BY <1>2 DEF Vacated
<1>4. \A g \in Handles \ {h} : handle[g] # s
  BY <1>2 DEF Sharing
<1> QED BY <1>1, <1>2, <1>3, <1>4 DEF FilesInv

(* A polite AH=3Eh closes a stream no other handle names.                  *)
LEMMA ClosePolite ==
  ASSUME Tidy, NEW h \in OnStream, CloseFile(h), ~rude'
  PROVE  OpenOnce' /\ NoneDangles'
<1> DEFINE s == handle[h]
<1>1. /\ ~rude /\ s \in Streams /\ stream'[s] = Closed
      /\ \A t \in Streams \ {s} : stream'[t] = stream[t]
      /\ \A g \in Handles \ {h} : handle'[g] = handle[g] /\ handle[g] # s
      /\ handle'[h] = Free
  BY CloseMoves DEF Tidy
<1> HIDE DEF s
<1>2. OpenOnce /\ NoneDangles
  BY <1>1 DEF Tidy
<1>3. ~Closed.live
  BY DEF Closed
<1>4. Live' = Live \ {s}
  BY <1>1, <1>3 DEF Live
<1>5. OpenOnce'
  <2>1. \A t \in Live' : t \in Live /\ stream'[t].file = stream[t].file
    BY <1>1, <1>4 DEF Live
  <2> QED BY <1>2, <2>1 DEF OpenOnce
<1>6. ASSUME NEW g \in OnStream' PROVE StreamOf(g)'.live
  <2>1. g \in Handles /\ handle'[g] \in Streams /\ g # h
    BY <1>1, <1>6, Numbers DEF OnStream
  <2>2. handle'[g] = handle[g] /\ handle[g] # s /\ g \in OnStream
    BY <1>1, <2>1 DEF OnStream
  <2>3. stream[handle[g]].live
    BY <1>2, <2>2 DEF NoneDangles, StreamOf
  <2> QED BY <1>1, <2>1, <2>2, <2>3 DEF StreamOf
<1> QED BY <1>5, <1>6 DEF NoneDangles

(* The handles the actions on handles leave.                               *)
LEMMA HandleMoves ==
  ASSUME FilesInv, NEW h \in Handles, OnHandle(h), ~rude'
  PROVE  /\ ~rude /\ UNCHANGED <<dir, size, stream>>
         /\ \A g \in Handles : handle'[g] \in Streams => \E k \in Handles : handle[k] = handle'[g]
<1>1. handle \in [Handles -> Streams \union {Console, Free}]
  BY DEF FilesInv
<1>2. CASE CloseConsole(h)
  <2>1. ~rude /\ UNCHANGED <<dir, size, stream>> /\ handle' = [handle EXCEPT ![h] = Free]
    BY <1>2 DEF CloseConsole, Vacated
  <2> QED BY <1>1, <2>1, Numbers
<1>3. CASE DupHandle(h)
  <2>1. ~rude /\ UNCHANGED <<dir, size, stream>> /\ handle' = [handle EXCEPT ![Alloc] = handle[h]]
    BY <1>3 DEF DupHandle
  <2> QED BY <1>1, <2>1
<1>4. CASE \E to \in Handles : ForceDupHandle(h, to)
  <2>1. PICK to \in Handles : ForceDupHandle(h, to)
    BY <1>4
  <2>2. ~rude /\ UNCHANGED <<dir, size, stream>> /\ handle' = [handle EXCEPT ![to] = handle[h]]
    BY <2>1 DEF ForceDupHandle
  <2> QED BY <1>1, <2>2
<1> QED BY <1>2, <1>3, <1>4 DEF OnHandle

(* Streams are used for nothing else than reading and writing.             *)
LEMMA UsesKept == Uses /\ FilesNext => Uses'
<1> SUFFICES ASSUME Uses, FilesNext PROVE Uses'
  OBVIOUS
<1>1. ASSUME NEW s, NEW what \in {"none", "read", "write"}, Did(s, what) PROVE Uses'
  BY <1>1 DEF Uses, Did
<1>2. ASSUME UNCHANGED last PROVE Uses'
  BY <1>2 DEF Uses
<1>3. \A f, w : Opens(f, w) => Uses'
  BY <1>1, Zenon DEF Opens
<1>4. ASSUME NEW n \in Names, OnName(n) PROVE Uses'
  <2>1. (\E f, w : Opens(f, w)) \/ UNCHANGED last
    BY <1>4, Zenon DEF OnName, OpenFile, CreateFile, RemoveFile, RenameFile
  <2> QED BY <1>2, <1>3, <2>1, Zenon
<1>5. ASSUME NEW h \in OnStream, OnFileHandle(h) PROVE Uses'
  <2>1. (\E s : Did(s, "none") \/ Did(s, "read") \/ Did(s, "write")) \/ UNCHANGED last
    BY <1>5, Zenon DEF OnFileHandle, ReadFile, ReadsOn, WriteFile, WritesOn, RefusesToTurn,
                       TruncateFile, CloseFile, UseClosed, SeekFile
  <2> QED BY <1>1, <1>2, <2>1, Zenon
<1>6. ASSUME NEW h \in Handles, OnHandle(h) PROVE Uses'
  BY <1>2, <1>6, Zenon DEF OnHandle, CloseConsole, DupHandle, ForceDupHandle
<1>7. ASSUME NEW s \in Live, BufferFlushed(s) PROVE Uses'
  BY <1>2, <1>7, Zenon DEF BufferFlushed
<1> QED BY <1>4, <1>5, <1>6, <1>7, Zenon DEF FilesNext

(* The invariant holds when the emulator starts.                           *)
LEMMA TidyFirst == FilesInit => Tidy
<1> SUFFICES ASSUME FilesInit PROVE Tidy
  OBVIOUS
<1>1. \A s \in Streams : stream[s] = Closed
  BY DEF FilesInit
<1>2. FilesInv
  <2>1. dir \in [Names -> Files \union {None}] /\ size \in [Files -> 0 .. MaxLen]
    BY Numbers DEF FilesInit
  <2>2. handle \in [Handles -> Streams \union {Console, Free}]
    BY DEF FilesInit
  <2>3. Closed \in Record /\ stream = [s \in Streams |-> Closed]
    BY ClosedFine DEF StreamFine, FilesInit
  <2>4. stream \in [Streams -> Record]
    BY <2>3
  <2> QED BY <1>1, <2>1, <2>2, <2>4, ClosedFine DEF FilesInv
<1>3. Live = {} /\ OnStream = {}
  <2>1. Live = {}
    BY <1>1 DEF Live, Closed
  <2>2. \A h \in Handles : handle[h] \in {Console, Free}
    BY DEF FilesInit
  <2> QED BY <2>1, <2>2, Numbers DEF OnStream
<1>4. Uses
  BY DEF FilesInit, Uses
<1> QED BY <1>2, <1>3, <1>4 DEF Tidy, OpenOnce, NoneDangles

(* Every call, and every flush of stdio's own, keeps the invariant.        *)
LEMMA TidySteps == Tidy /\ FilesNext => Tidy'
<1> SUFFICES ASSUME Tidy, FilesNext, ~rude' PROVE OpenOnce' /\ NoneDangles'
  BY FilesTyped, UsesKept DEF Tidy
<1>0. FilesInv /\ (~rude => OpenOnce /\ NoneDangles) /\ MaxLen \in Nat
  BY Numbers DEF Tidy
<1>1. ASSUME NEW s \in Streams, NEW q \in Nat, NEW u \in Nat, u <= MaxLen, ~rude,
             stream' = [stream EXCEPT ![s] = Placed(stream[s], q, u)], UNCHANGED handle
      PROVE  OpenOnce' /\ NoneDangles'
  <2>1. \A v \in Streams : stream'[v].live = stream[v].live /\ stream'[v].file = stream[v].file
    BY <1>0, <1>1, MovedSame
  <2>2. \A h \in Handles : handle'[h] \in Streams => \E g \in Handles : handle[g] = handle'[h]
    BY <1>1
  <2> QED BY <1>0, <1>1, <2>1, <2>2, PoliteKept
<1>2. ASSUME UNCHANGED stream, ~rude,
             \A h \in Handles : handle'[h] \in Streams => \E g \in Handles : handle[g] = handle'[h]
      PROVE  OpenOnce' /\ NoneDangles'
  BY <1>0, <1>2, PoliteKept
<1>3. ASSUME NEW n \in Names, OnName(n) PROVE OpenOnce' /\ NoneDangles'
  <2>0. dir[n] # None => dir[n] \in Files
    BY <1>0 DEF FilesInv
  <2>1. CASE \E w \in BOOLEAN : OpenFile(n, w)
    <3>1. PICK w \in BOOLEAN : OpenFile(n, w)
      BY <2>1
    <3>2. /\ dir[n] \in Files /\ FreeHandles # {} /\ Opens(dir[n], w)
          /\ ~rude /\ OpenOn(dir[n]) = {}
      BY <2>0, <3>1 DEF OpenFile
    <3> QED BY <1>0, <3>2, OpensPolite
  <2>2. CASE CreateFile(n)
    <3>1. PICK f \in Files : /\ FreeHandles # {} /\ Opens(f, TRUE)
                             /\ ~rude /\ OpenOn(f) = {}
      BY <2>0, <2>2 DEF CreateFile
    <3> QED BY <1>0, <3>1, OpensPolite
  <2>3. CASE RemoveFile(n) \/ \E m \in Names : RenameFile(n, m)
    BY <1>2, <2>3 DEF RemoveFile, RenameFile
  <2> QED BY <1>3, <2>1, <2>2, <2>3 DEF OnName
<1>4. ASSUME NEW h \in OnStream, OnFileHandle(h) PROVE OpenOnce' /\ NoneDangles'
  <2> DEFINE s == handle[h]
  <2>0. s \in Streams /\ stream[s].pos \in Nat /\ stream[s].pos + 1 \in Nat
    BY <1>0, Named, StreamFields
  <2>1. CASE ReadFile(h)
    BY <1>0, <1>1, <2>0, <2>1, ReadMoves
  <2>2. CASE WriteFile(h)
    BY <1>1, <1>0, <2>2, WriteMoves
  <2>3. CASE TruncateFile(h)
    BY <1>0, <1>1, <2>3, TruncateMoves
  <2>4. CASE CloseFile(h)
    BY <2>4, ClosePolite
  <2>5. CASE UseClosed(h)
    BY <1>2, <2>5 DEF UseClosed
  <2>6. CASE \E word \in Offsets : SeekFile(h, word)
    <3>1. PICK word \in Offsets : SeekFile(h, word)
      BY <2>6
    <3>2. ~rude /\ UNCHANGED handle
      BY <1>0, <3>1, SeekMoves
    <3>3. PICK q \in Nat : stream' = [stream EXCEPT ![s] = Placed(stream[s], q, 0)]
      BY <1>0, <3>1, SeekMoves
    <3>4. 0 \in Nat /\ 0 <= MaxLen
      BY <1>0
    <3> HIDE DEF s
    <3> QED BY <1>1, <2>0, <3>2, <3>3, <3>4
  <2> QED BY <1>4, <2>1, <2>2, <2>3, <2>4, <2>5, <2>6 DEF OnFileHandle
<1>5. ASSUME NEW h \in Handles, OnHandle(h) PROVE OpenOnce' /\ NoneDangles'
  BY <1>0, <1>2, <1>5, HandleMoves
<1>6. ASSUME NEW s \in Live, BufferFlushed(s) PROVE OpenOnce' /\ NoneDangles'
  BY <1>0, <1>1, <1>6, FlushMoves
<1> QED BY <1>3, <1>4, <1>5, <1>6 DEF FilesNext

(* Tidy says all the types do.                                             *)
LEMMA FilesFields == Tidy => FilesTypeOK
BY DEF Tidy, Uses, FilesInv, FilesTypeOK, Record

(* Positions, lengths, buffers and the table of handles (h_, files.h)      *)
(* stay of their types through every call.                                 *)
THEOREM FileTypes == FilesSpec => []FilesTypeOK
<1>1. Tidy => FilesTypeOK
  BY FilesFields
<1>2. UNCHANGED filesVars /\ Tidy => Tidy'
  BY DEF filesVars, Tidy, Uses, FilesInv, OpenOnce, NoneDangles, StreamFine, Live, OnStream, StreamOf
<1> QED BY <1>1, <1>2, TidyFirst, TidySteps, PTL DEF FilesSpec

(* However a polite guest opens, duplicates (AH=45h), redirects (AH=46h)   *)
(* and closes (AH=3Eh), none of its handles names a stream that files.cpp  *)
(* has closed.                                                             *)
THEOREM HandlesStayOpen == FilesSpec => []PoliteNeverDangles
<1>1. Tidy => PoliteNeverDangles
  BY DEF Tidy, NoneDangles, PoliteNeverDangles
<1>2. UNCHANGED filesVars /\ Tidy => Tidy'
  BY DEF filesVars, Tidy, Uses, FilesInv, OpenOnce, NoneDangles, StreamFine, Live, OnStream, StreamOf
<1> QED BY <1>1, <1>2, TidyFirst, TidySteps, PTL DEF FilesSpec

-----------------------------------------------------------------------------
(* The steps of FileTable.                                                 *)

(* A file open under a handle, as the guest sees it.                       *)
Entry(f, p, w) == [file |-> f, pos |-> p, writable |-> w]

(* A stream is an open file of FileTable while it is live and named.       *)
LEMMA OpenedIs ==
  ASSUME NEW s \in Streams
  PROVE  /\ stream[s].live /\ Sharing(s) # {} =>
              Opened[s] = Entry(stream[s].file, stream[s].pos, stream[s].writable)
         /\ ~(stream[s].live /\ Sharing(s) # {}) => Opened[s] = None
BY DEF Opened, SeenOpen, Entry

(* The same of all streams.                                                *)
LEMMA OpenedAll == \A s \in Streams :
         /\ stream[s].live /\ Sharing(s) # {} =>
              Opened[s] = Entry(stream[s].file, stream[s].pos, stream[s].writable)
         /\ ~(stream[s].live /\ Sharing(s) # {}) => Opened[s] = None
BY OpenedIs

(* The same after a step.                                                  *)
LEMMA OpenedNext == (\A s \in Streams :
         /\ stream[s].live /\ Sharing(s) # {} =>
              Opened[s] = Entry(stream[s].file, stream[s].pos, stream[s].writable)
         /\ ~(stream[s].live /\ Sharing(s) # {}) => Opened[s] = None)'
BY OpenedAll, PTL

(* A file is as long as a flush of its only stream would make it.          *)
LEMMA LengthIs ==
  ASSUME Tidy, ~rude, NEW f \in Files
  PROVE  /\ \A s \in Streams : stream[s].live /\ stream[s].file = f =>
                               Lengths[f] = FlushedSize(s)[f]
         /\ (\A s \in Streams : ~(stream[s].live /\ stream[s].file = f)) => Lengths[f] = size[f]
<1>1. LengthsSeen
  BY PoliteLengths
<1>2. Lengths[f] = SeenLength(f)
  BY DEF Lengths
<1> QED BY <1>1, <1>2 DEF LengthsSeen, OpenOn, Live

(* The same of the next state, with FlushedSize spelt out.                 *)
LEMMA LengthNext ==
  ASSUME Tidy', ~rude', NEW f \in Files
  PROVE  /\ \A s \in Streams : stream'[s].live /\ stream'[s].file = f =>
              Lengths'[f] = IF stream'[s].unsaved = 0 THEN size'[f]
                            ELSE Greater(size'[f], stream'[s].pos)
         /\ (\A s \in Streams : ~(stream'[s].live /\ stream'[s].file = f)) =>
              Lengths'[f] = size'[f]
<1>1. LengthsSeen'
  BY PoliteLengthsNext
<1>2. Lengths'[f] = SeenLength(f)' /\ size' \in [Files -> 0 .. MaxLen]
  BY DEF Lengths, Tidy, FilesInv
<1>3. ASSUME NEW s \in Streams, stream'[s].live, stream'[s].file = f
      PROVE  Lengths'[f] = IF stream'[s].unsaved = 0 THEN size'[f]
                           ELSE Greater(size'[f], stream'[s].pos)
  <2>1. s \in OpenOn(f)'
    BY <1>3 DEF OpenOn, Live
  <2>2. SeenLength(f)' = FlushedSize(s)'[f]
    BY <1>1, <2>1 DEF LengthsSeen
  <2>3. FlushedSize(s)'[f] = IF stream'[s].unsaved = 0 THEN size'[f]
                             ELSE Greater(size'[f], stream'[s].pos)
    <3>1. FlushedSize(s)' = IF stream'[s].unsaved = 0 THEN size'
                            ELSE [size' EXCEPT ![f] = Greater(size'[f], stream'[s].pos)]
      BY <1>3 DEF FlushedSize, Greater
    <3> QED BY <1>2, <3>1
  <2> QED BY <1>2, <2>2, <2>3
<1>4. (\A s \in Streams : ~(stream'[s].live /\ stream'[s].file = f)) => Lengths'[f] = size'[f]
  BY <1>1, <1>2 DEF LengthsSeen, OpenOn, Live
<1> QED BY <1>3, <1>4

(* A file whose streams and size stay as they are.                         *)
LEMMA LengthSame ==
  ASSUME Tidy, ~rude, Tidy', ~rude', NEW f \in Files, size'[f] = size[f],
         \A s \in Streams : /\ stream[s].live /\ stream[s].file = f => stream'[s] = stream[s]
                            /\ stream'[s].live /\ stream'[s].file = f =>
                                 \/ stream'[s] = stream[s]
                                 \/ stream'[s].unsaved = 0 /\ OpenOn(f) = {}
  PROVE  Lengths'[f] = Lengths[f]
<1>0. FilesInv
  BY DEF Tidy
<1>1. CASE \E s \in Streams : stream[s].live /\ stream[s].file = f
  <2>1. PICK s \in Streams : stream[s].live /\ stream[s].file = f
    BY <1>1
  <2>2. stream'[s] = stream[s]
    BY <2>1
  <2>3. Lengths[f] = IF stream[s].unsaved = 0 THEN size[f] ELSE Greater(size[f], stream[s].pos)
    BY <1>0, <2>1, LengthIs, Flushed
  <2>4. Lengths'[f] = IF stream'[s].unsaved = 0 THEN size'[f]
                      ELSE Greater(size'[f], stream'[s].pos)
    BY <2>1, <2>2, LengthNext
  <2> QED BY <2>2, <2>3, <2>4
<1>2. CASE ~\E s \in Streams : stream[s].live /\ stream[s].file = f
  <2>1. Lengths[f] = size[f]
    BY <1>2, LengthIs
  <2>2. CASE \E s \in Streams : stream'[s].live /\ stream'[s].file = f
    <3>1. PICK s \in Streams : stream'[s].live /\ stream'[s].file = f
      BY <2>2
    <3>2. stream'[s].unsaved = 0
      BY <1>2, <3>1
    <3>3. Lengths'[f] = size'[f]
      BY <3>1, <3>2, LengthNext
    <3> QED BY <2>1, <3>3
  <2>3. CASE ~\E s \in Streams : stream'[s].live /\ stream'[s].file = f
    BY <2>1, <2>3, LengthNext
  <2> QED BY <2>2, <2>3
<1> QED BY <1>1, <1>2

(* A stream moves: its file's length and its position.                     *)
Moved(s, p, u) == stream' = [stream EXCEPT ![s] = Placed(stream[s], p, u)]

SeenMoved(s, p, u) ==
  /\ stream[s].file \in Files /\ Lengths[stream[s].file] = FlushedSize(s)[stream[s].file]
  /\ Lengths' = [Lengths EXCEPT ![stream[s].file] =
                    IF u = 0 THEN size'[stream[s].file] ELSE Greater(size'[stream[s].file], p)]
  /\ Sharing(s) # {} => Opened' = [Opened EXCEPT ![s].pos = p]
  /\ p = stream[s].pos => Opened' = Opened

(* A stream that moves: FileTable's position moves with it, and the        *)
(* length is the flushed one.                                              *)
LEMMA MoveSeen ==
  ASSUME Tidy, ~rude, Tidy', ~rude', NEW s \in Streams, stream[s].live,
         NEW p \in Nat, NEW u \in Nat, u <= MaxLen,
         Moved(s, p, u), UNCHANGED handle,
         \A g \in Files \ {stream[s].file} : size'[g] = size[g]
  PROVE  SeenMoved(s, p, u)
<1> DEFINE f == stream[s].file
<1>0. FilesInv
  BY DEF Tidy
<1>1. /\ \A t \in Streams : /\ stream'[t].live = stream[t].live
                             /\ stream'[t].file = stream[t].file
                             /\ stream'[t].writable = stream[t].writable
      /\ stream'[s].pos = p /\ stream'[s].unsaved = u
      /\ \A t \in Streams \ {s} : stream'[t] = stream[t]
  BY <1>0, MovedSame DEF Moved
<1>2. f \in Files /\ Lengths[f] = FlushedSize(s)[f]
  BY <1>0, StreamFields, LengthIs
<1>f. f = stream[s].file
  OBVIOUS
<1> HIDE DEF f
<1>3. Lengths' = [Lengths EXCEPT ![f] = IF u = 0 THEN size'[f] ELSE Greater(size'[f], p)]
  <2>1. Lengths'[f] = IF u = 0 THEN size'[f] ELSE Greater(size'[f], p)
    BY <1>1, <1>2, <1>f, LengthNext
  <2>2. ASSUME NEW g \in Files \ {f} PROVE Lengths'[g] = Lengths[g]
    <3>1. \A t \in Streams : stream[t].file = g => stream'[t] = stream[t]
      BY <1>1, <1>f, <2>2
    <3>2. \A t \in Streams : stream'[t].file = g => stream'[t] = stream[t]
      BY <1>1, <3>1
    <3> QED BY <1>f, <2>2, <3>1, <3>2, LengthSame
  <2>3. Lengths = [g \in Files |-> Lengths[g]] /\ Lengths' = [g \in Files |-> Lengths'[g]]
    BY DEF Lengths
  <2> QED BY <1>2, <2>1, <2>2, <2>3
<1>4. Sharing(s)' = Sharing(s) /\ \A t \in Streams : Sharing(t)' = Sharing(t)
  BY DEF Sharing
<1>5. Opened = [t \in Streams |-> Opened[t]] /\ Opened' = [t \in Streams |-> Opened'[t]]
  BY DEF Opened
<1>6. \A t \in Streams \ {s} : Opened'[t] = Opened[t]
  BY <1>1, <1>4 DEF Opened, SeenOpen
<1>7. Sharing(s) # {} => Opened'[s] = Entry(f, p, stream[s].writable)
  BY <1>1, <1>4, <1>f, OpenedNext
<1>8. p = stream[s].pos => Opened'[s] = Opened[s]
  BY <1>1, <1>4 DEF Opened, SeenOpen
<1>9. ASSUME Sharing(s) # {} PROVE Opened' = [Opened EXCEPT ![s].pos = p]
  <2>1. Opened[s] = Entry(f, stream[s].pos, stream[s].writable)
    BY <1>9, <1>f, OpenedIs
  <2>2. [Entry(f, stream[s].pos, stream[s].writable) EXCEPT !.pos = p]
          = Entry(f, p, stream[s].writable)
    BY DEF Entry
  <2>3. Opened'[s] = [Opened[s] EXCEPT !.pos = p]
    BY <1>7, <1>9, <2>1, <2>2
  <2> QED BY <1>5, <1>6, <2>3
<1>10. p = stream[s].pos => Opened' = Opened
  BY <1>5, <1>6, <1>8
<1> QED BY <1>2, <1>3, <1>9, <1>10 DEF SeenMoved, f

(* The stream a polite guest's handle names, as the guest sees it.         *)
LEMMA HandleSees ==
  ASSUME Tidy, ~rude, NEW h \in OnStream, NEW s, s = handle[h]
  PROVE  /\ h \in Handles /\ s \in Streams /\ stream[s].live /\ Sharing(s) # {}
         /\ StreamOf(h) = stream[s]
         /\ Opened[s] = Entry(stream[s].file, stream[s].pos, stream[s].writable)
         /\ Opened[s].file = stream[s].file /\ Opened[s].pos = stream[s].pos
         /\ Opened[s].writable = stream[s].writable
<1>1. h \in Handles /\ s \in Streams /\ StreamOf(h) = stream[s]
  BY Named
<1>2. stream[s].live
  BY <1>1 DEF Tidy, NoneDangles
<1>3. h \in Sharing(s)
  BY <1>1 DEF Sharing
<1>4. Opened[s] = Entry(stream[s].file, stream[s].pos, stream[s].writable)
  BY <1>1, <1>2, <1>3, OpenedIs
<1> QED BY <1>1, <1>2, <1>3, <1>4 DEF Entry

(* AH=3Fh is a read of FileTable, or a flush the guest does not see.       *)
LEMMA ReadSeen ==
  ASSUME Tidy, ~rude, Tidy', ~rude', NEW h \in OnStream, ReadFile(h)
  PROVE  Seen!Read(h) \/ UNCHANGED Seen!vars
<1> DEFINE s == handle[h]  f == stream[s].file  q == stream[s].pos
<1>0. FilesInv /\ MaxLen \in Nat /\ 0 <= MaxLen /\ 0 \in Nat
  BY Numbers DEF Tidy
<1>1. /\ s \in Streams /\ stream[s].live /\ UNCHANGED <<dir, handle, rude>>
      /\ size' = FlushedSize(s)
      /\ \/ q < FlushedSize(s)[f] /\ Moved(s, q + 1, 0)
         \/ Moved(s, q, 0)
  BY <1>0, ReadMoves DEF Moved
<1>2. Opened[s].file = f /\ Opened[s].pos = q /\ Sharing(s) # {}
  BY HandleSees
<1>3. q \in Nat /\ \A g \in Files \ {f} : size'[g] = size[g]
  BY <1>0, <1>1, StreamFields, Flushed
<1>4. q + 1 \in Nat
  BY <1>3
<1> HIDE DEF s
<1>5. CASE q < FlushedSize(s)[f] /\ Moved(s, q + 1, 0)
  <2> HIDE DEF f, q
  <2>1. SeenMoved(s, q + 1, 0)
    BY <1>0, <1>1, <1>3, <1>4, <1>5, MoveSeen DEF f
  <2>2. /\ f \in Files /\ Lengths[f] = FlushedSize(s)[f]
        /\ Lengths' = [Lengths EXCEPT ![f] = size'[f]]
        /\ Opened' = [Opened EXCEPT ![s].pos = q + 1]
    BY <1>2, <2>1 DEF SeenMoved, f
  <2>3. Lengths' = Lengths
    BY <1>1, <2>2 DEF Lengths
  <2>4. Opened[s].pos < Lengths[Opened[s].file]
    BY <1>2, <1>5, <2>2
  <2>5. Seen!Read(h)
    BY <1>1, <1>2, <2>2, <2>3, <2>4
       DEF Seen!Read, Seen!OpenOf, Seen!Moves, Lengths, Opened, s
  <2> QED BY <2>5
<1>6. CASE Moved(s, q, 0)
  <2>1. SeenMoved(s, q, 0)
    BY <1>0, <1>1, <1>3, <1>6, MoveSeen
  <2> HIDE DEF f
  <2>2. /\ f \in Files /\ Lengths[f] = FlushedSize(s)[f]
        /\ Lengths' = [Lengths EXCEPT ![f] = size'[f]]
        /\ Opened' = Opened
    BY <2>1 DEF SeenMoved, f
  <2>3. Lengths' = Lengths
    BY <1>1, <2>2 DEF Lengths
  <2> QED BY <1>1, <2>2, <2>3 DEF Seen!vars, Lengths, Opened
<1> QED BY <1>1, <1>5, <1>6

(* stdio's own flushes are stutters.                                       *)
LEMMA FlushSeen ==
  ASSUME Tidy, ~rude, Tidy', ~rude', NEW s \in Live, BufferFlushed(s)
  PROVE  UNCHANGED Seen!vars
<1> DEFINE f == stream[s].file  q == stream[s].pos
<1>0. FilesInv /\ 0 <= MaxLen /\ 0 \in Nat
  BY Numbers DEF Tidy
<1>1. /\ s \in Streams /\ stream[s].live /\ UNCHANGED <<dir, handle, rude>>
      /\ size' = FlushedSize(s) /\ q \in Nat /\ Moved(s, q, 0)
  BY <1>0, FlushMoves DEF Moved
<1>2. \A g \in Files \ {f} : size'[g] = size[g]
  BY <1>0, <1>1, Flushed
<1>3. SeenMoved(s, q, 0)
  BY <1>0, <1>1, <1>2, MoveSeen
<1> HIDE DEF f
<1>4. /\ f \in Files /\ Lengths[f] = FlushedSize(s)[f]
      /\ Lengths' = [Lengths EXCEPT ![f] = size'[f]]
      /\ Opened' = Opened
  BY <1>3 DEF SeenMoved, f
<1>5. Lengths' = Lengths
  BY <1>1, <1>4 DEF Lengths
<1> QED BY <1>1, <1>4, <1>5 DEF Seen!vars, Lengths, Opened

(* AH=40h is a write, seen at once though it waits in a buffer.            *)
LEMMA WriteSeen ==
  ASSUME Tidy, ~rude, Tidy', ~rude', NEW h \in OnStream, WriteFile(h)
  PROVE  Seen!Write(h)
<1> DEFINE s == handle[h]  f == stream[s].file  q == stream[s].pos  p == q + 1
           u == stream[s].unsaved + 1
<1>0. FilesInv
  BY DEF Tidy
<1>1. /\ s \in Streams /\ stream[s].live /\ stream[s].writable
      /\ UNCHANGED <<dir, handle, rude, size>>
      /\ p \in Nat /\ u \in Nat /\ u <= MaxLen /\ Moved(s, p, u)
  BY <1>0, WriteMoves DEF Moved
<1>2. /\ Opened[s].file = f /\ Opened[s].pos = q
      /\ Opened[s].writable = stream[s].writable /\ Sharing(s) # {}
  BY HandleSees
<1>3. q \in Nat /\ stream[s].unsaved \in Nat /\ f \in Files
  BY <1>0, <1>1, StreamFields
<1>4. size[f] \in Nat
  BY <1>0, <1>3, Numbers DEF FilesInv
<1>5. FlushedSize(s)[f] = IF stream[s].unsaved = 0 THEN size[f] ELSE Greater(size[f], q)
  BY <1>0, <1>1, Flushed
<1>6. u # 0 /\ p = q + 1
  BY <1>3
<1> HIDE DEF s, u, p
<1>7. SeenMoved(s, p, u)
  BY <1>1, MoveSeen
<1> HIDE DEF f, q
<1>8. /\ Lengths[f] = FlushedSize(s)[f]
      /\ Lengths' = [Lengths EXCEPT ![f] = Greater(size'[f], p)]
      /\ Opened' = [Opened EXCEPT ![s].pos = p]
  BY <1>2, <1>6, <1>7 DEF SeenMoved, f
<1>9. Greater(size[f], p) = Greater(Lengths[f], p)
  BY <1>3, <1>4, <1>5, <1>6, <1>8 DEF Greater
<1>10. Lengths' = [Lengths EXCEPT ![f] = Seen!Larger(Lengths[f], p)]
  BY <1>1, <1>8, <1>9 DEF Greater, Seen!Larger
<1> QED BY <1>1, <1>2, <1>6, <1>8, <1>10
        DEF Seen!Write, Seen!OpenOf, Seen!Moves, Lengths, Opened, s

(* A write of no bytes is a truncation.                                    *)
LEMMA TruncateSeen ==
  ASSUME Tidy, ~rude, Tidy', ~rude', NEW h \in OnStream, TruncateFile(h)
  PROVE  Seen!Truncate(h)
<1> DEFINE s == handle[h]  f == stream[s].file  q == stream[s].pos
<1>0. FilesInv /\ 0 <= MaxLen /\ 0 \in Nat
  BY Numbers DEF Tidy
<1>1. /\ s \in Streams /\ stream[s].live /\ stream[s].writable
      /\ UNCHANGED <<dir, handle, rude>> /\ q \in Nat /\ f \in Files
      /\ size' = [size EXCEPT ![f] = q] /\ Moved(s, q, 0)
  BY <1>0, TruncateMoves DEF Moved
<1>2. /\ Opened[s].file = f /\ Opened[s].pos = q /\ Opened[s].writable = stream[s].writable
  BY HandleSees
<1>3. size'[f] = q /\ \A g \in Files \ {f} : size'[g] = size[g]
  <2> HIDE DEF f, q
  <2> QED BY <1>0, <1>1 DEF FilesInv
<1> HIDE DEF s
<1>4. SeenMoved(s, q, 0)
  BY <1>0, <1>1, <1>3, MoveSeen
<1> HIDE DEF f
<1>5. Lengths' = [Lengths EXCEPT ![f] = size'[f]] /\ Opened' = Opened
  BY <1>4 DEF SeenMoved, f
<1> HIDE DEF q
<1> QED BY <1>1, <1>2, <1>3, <1>5 DEF Seen!Truncate, Seen!OpenOf, Lengths, Opened, s

(* AH=42h is a seek, if the host's long makes large words negative.        *)
LEMMA SeekSeen ==
  ASSUME Tidy, ~rude, Tidy', ~rude', LongIs32, NEW h \in OnStream, NEW word \in Offsets,
         SeekFile(h, word)
  PROVE  \E offset \in -MaxLen .. MaxLen : Seen!Seek(h, offset)
<1> DEFINE s == handle[h]  f == stream[s].file  q == stream[s].pos  offset == Offset(word)
<1>0. FilesInv /\ 0 <= MaxLen /\ 0 \in Nat /\ MaxLen \in Nat
  BY Numbers DEF Tidy
<1>1. /\ s \in Streams /\ stream[s].live /\ UNCHANGED <<dir, handle, rude>>
      /\ size' = FlushedSize(s)
  BY <1>0, SeekMoves
<1>2. PICK from \in {0, q, FlushedSize(s)[f]} :
        /\ from + offset \in Nat /\ from \in Nat /\ offset \in Int
        /\ from <= MaxLen /\ from + offset <= MaxLen
        /\ Moved(s, from + offset, 0)
  BY <1>0, SeekMoves DEF Moved
<1>3. Opened[s].file = f /\ Opened[s].pos = q /\ Sharing(s) # {}
  BY HandleSees
<1>4. \A g \in Files \ {f} : size'[g] = size[g]
  BY <1>0, <1>1, Flushed
<1> DEFINE p == from + offset
<1>p. p \in Nat /\ Moved(s, p, 0) /\ p = from + offset
  BY <1>2
<1> HIDE DEF s, offset, p
<1>5. SeenMoved(s, p, 0)
  BY <1>0, <1>1, <1>p, <1>4, MoveSeen
<1> HIDE DEF f, q
<1>6. /\ f \in Files /\ Lengths[f] = FlushedSize(s)[f]
      /\ Lengths' = [Lengths EXCEPT ![f] = size'[f]]
      /\ Opened' = [Opened EXCEPT ![s].pos = p]
  BY <1>3, <1>5 DEF SeenMoved, f
<1>7. Lengths' = Lengths
  BY <1>1, <1>6 DEF Lengths
<1>8. offset \in -MaxLen .. MaxLen
  BY <1>0, <1>2
<1>9. from \in {0, Opened[s].pos, Lengths[Opened[s].file]} /\ from + offset >= 0
  BY <1>2, <1>3, <1>6
<1>10. Seen!Seek(h, offset)
  BY <1>1, <1>6, <1>7, <1>9, <1>p DEF Seen!Seek, Seen!OpenOf, Seen!Moves, Lengths, Opened, s
<1> QED BY <1>8, <1>10

(* The lowest free handle is the one DOS gives.                            *)
LEMMA SameAlloc == FreeHandles = Seen!FreeHandles /\ Alloc = Seen!Lowest
<1>1. FreeHandles = Seen!FreeHandles
  BY DEF FreeHandles, Seen!FreeHandles
<1> QED BY <1>1, Zenon DEF Alloc, Seen!Lowest

(* A stream that does not change, named by some handle as before.          *)
LEMMA OpenSame ==
  ASSUME NEW t \in Streams, stream'[t] = stream[t],
         (Sharing(t)' = {}) <=> (Sharing(t) = {})
  PROVE  Opened'[t] = Opened[t]
BY DEF Opened, SeenOpen

(* fopen of a file no stream is open on: its length is the host's.         *)
LEMMA OpensSeen ==
  ASSUME Tidy, ~rude, Tidy', ~rude', NEW f \in Files, NEW w \in BOOLEAN, Opens(f, w),
         FreeHandles # {}, OpenOn(f) = {}
  PROVE  /\ Seen!Opens(f, w)
         /\ Lengths'[f] = size'[f] /\ Lengths[f] = size[f]
         /\ \A g \in Files \ {f} : size'[g] = size[g] => Lengths'[g] = Lengths[g]
<1> DEFINE r == [live |-> TRUE, file |-> f, pos |-> 0, unsaved |-> 0, writable |-> w]
<1>0. FilesInv
  BY DEF Tidy
<1>1. PICK s \in Streams :
      /\ ~stream[s].live /\ Sharing(s) = {}
      /\ handle' = [handle EXCEPT ![Alloc] = s] /\ handle'[Alloc] = s
      /\ \A h \in Handles \ {Alloc} : handle'[h] = handle[h]
      /\ stream'[s] = r /\ \A t \in Streams \ {s} : stream'[t] = stream[t]
  BY <1>0, OpensFacts
<1>2. r.live /\ r.file = f /\ r.pos = 0 /\ r.unsaved = 0 /\ r.writable = w
  OBVIOUS
<1>3. Alloc \in Handles /\ handle[Alloc] = Free /\ Free \notin Streams
  BY AllocFree, Numbers
<1> HIDE DEF r
<1>4. \A t \in Streams \ {s} : Sharing(t)' = Sharing(t)
  BY <1>1, <1>3 DEF Sharing
<1>5. \A t \in Streams \ {s} : Opened'[t] = Opened[t]
  BY <1>1, <1>4, OpenSame
<1>6. Opened[s] = None
  BY <1>1, OpenedIs
<1>7. Opened'[s] = Entry(f, 0, w)
  <2>1. Alloc \in Sharing(s)'
    BY <1>1, <1>3 DEF Sharing
  <2> QED BY <1>1, <1>2, <2>1, OpenedNext
<1>8. Opened' = [Opened EXCEPT ![s] = Entry(f, 0, w)]
  <2>1. Opened = [t \in Streams |-> Opened[t]] /\ Opened' = [t \in Streams |-> Opened'[t]]
    BY DEF Opened
  <2> QED BY <1>1, <1>5, <1>7, <2>1
<1>9. handle' = [handle EXCEPT ![Seen!Lowest] = s]
  BY <1>1, SameAlloc
<1>10. Seen!Opens(f, w)
  BY <1>1, <1>6, <1>8, <1>9 DEF Seen!Opens, Opened, Entry
<1>11. \A t \in Streams : ~(stream[t].live /\ stream[t].file = f)
  BY DEF OpenOn, Live
<1>12. Lengths'[f] = size'[f]
  BY <1>1, <1>2, LengthNext
<1>13. Lengths[f] = size[f]
  BY <1>11, LengthIs
<1>14. ASSUME NEW g \in Files \ {f}, size'[g] = size[g] PROVE Lengths'[g] = Lengths[g]
  <2>1. \A t \in Streams : /\ stream[t].live /\ stream[t].file = g => stream'[t] = stream[t]
                           /\ stream'[t].live /\ stream'[t].file = g => stream'[t] = stream[t]
    BY <1>1, <1>2, <1>14
  <2> QED BY <1>14, <2>1, LengthSame
<1> QED BY <1>10, <1>12, <1>13, <1>14

(* Lengths as a function, for its extensionality.                          *)
LEMMA LengthsFun ==
  Lengths = [g \in Files |-> Lengths[g]] /\ Lengths' = [g \in Files |-> Lengths'[g]]
BY DEF Lengths

(* AH=3Dh is FileTable's Open.                                             *)
LEMMA OpenSeen ==
  ASSUME Tidy, ~rude, Tidy', ~rude', NEW n \in Names, NEW w \in BOOLEAN, OpenFile(n, w)
  PROVE  Seen!Open(n, w)
<1>1. /\ dir[n] # None /\ FreeHandles # {} /\ Opens(dir[n], w) /\ UNCHANGED <<dir, size>>
      /\ OpenOn(dir[n]) = {}
  BY DEF OpenFile
<1>2. dir[n] \in Files
  BY <1>1 DEF Tidy, FilesInv
<1>3. /\ Seen!Opens(dir[n], w) /\ Lengths'[dir[n]] = Lengths[dir[n]]
      /\ \A g \in Files \ {dir[n]} : Lengths'[g] = Lengths[g]
  BY <1>1, <1>2, OpensSeen
<1>4. Lengths' = Lengths
  BY <1>3, LengthsFun
<1> QED BY <1>1, <1>3, <1>4, SameAlloc DEF Seen!Open, Lengths

(* AH=3Ch and AH=5Bh are FileTable's Create.                               *)
LEMMA CreateSeen ==
  ASSUME Tidy, ~rude, Tidy', ~rude', NEW n \in Names, CreateFile(n)
  PROVE  Seen!Create(n)
<1>0. FilesInv /\ size \in [Files -> 0 .. MaxLen]
  BY DEF Tidy, FilesInv
<1>1. PICK f \in IF dir[n] # None THEN {dir[n]}
                 ELSE {g \in Files : (\A m \in Names : dir[m] # g) /\ OpenOn(g) = {}} :
        /\ dir' = [dir EXCEPT ![n] = f] /\ size' = [size EXCEPT ![f] = 0]
        /\ FreeHandles # {} /\ Opens(f, TRUE) /\ OpenOn(f) = {}
  BY DEF CreateFile
<1>2. f \in Files
  BY <1>0, <1>1 DEF FilesInv
<1>3. size'[f] = 0 /\ \A g \in Files \ {f} : size'[g] = size[g]
  BY <1>0, <1>1, <1>2
<1>4. /\ Seen!Opens(f, TRUE) /\ Lengths'[f] = 0
      /\ \A g \in Files \ {f} : Lengths'[g] = Lengths[g]
  BY <1>1, <1>2, <1>3, OpensSeen
<1>5. Lengths' = [Lengths EXCEPT ![f] = 0]
  BY <1>2, <1>4, LengthsFun
<1>6. f \in IF dir[n] = None THEN Seen!Unused ELSE {dir[n]}
  <2>1. CASE dir[n] # None
    BY <1>1, <2>1
  <2>2. CASE dir[n] = None
    <3>1. \A m \in Names : dir[m] # f
      BY <1>1, <2>2
    <3>2. \A s \in Streams : Opened[s] = None \/ Opened[s].file # f
      <4> SUFFICES ASSUME NEW s \in Streams, Opened[s] # None PROVE Opened[s].file # f
        OBVIOUS
      <4>1. stream[s].live /\ Opened[s] = Entry(stream[s].file, stream[s].pos, stream[s].writable)
        BY OpenedIs
      <4>2. stream[s].file # f
        BY <1>1, <4>1 DEF OpenOn, Live
      <4> QED BY <4>1, <4>2 DEF Entry
    <3> QED BY <1>2, <2>2, <3>1, <3>2 DEF Seen!Unused, Opened
  <2> QED BY <2>1, <2>2
<1> QED BY <1>1, <1>4, <1>5, <1>6, SameAlloc DEF Seen!Create, Lengths

(* A polite AH=3Eh on a stream is FileTable's Close.                       *)
LEMMA CloseSeen ==
  ASSUME Tidy, ~rude, Tidy', ~rude', NEW h \in OnStream, CloseFile(h)
  PROVE  Seen!Close(h)
<1> DEFINE s == handle[h]  f == stream[s].file
<1>0. FilesInv
  BY DEF Tidy
<1>1. /\ s \in Streams /\ stream[s].live /\ h \in Handles
      /\ UNCHANGED dir /\ size' = FlushedSize(s) /\ handle' = [handle EXCEPT ![h] = Free]
      /\ stream'[s] = Closed /\ \A t \in Streams \ {s} : stream'[t] = stream[t]
      /\ \A g \in Handles \ {h} : handle'[g] = handle[g] /\ handle[g] # s
      /\ handle'[h] = Free
  BY <1>0, CloseMoves
<1>2. Free \notin Streams /\ ~Closed.live
  BY Numbers DEF Closed
<1>3. f \in Files /\ \A g \in Files \ {f} : size'[g] = size[g]
  BY <1>0, <1>1, StreamFields, Flushed
<1>4. Lengths[f] = FlushedSize(s)[f]
  BY <1>1, <1>3, LengthIs
<1>s. s = handle[h]
  OBVIOUS
<1> HIDE DEF s
<1>5. ASSUME NEW t \in Streams, stream'[t].live PROVE t # s /\ stream'[t] = stream[t]
  BY <1>1, <1>2, <1>5
<1>6. \A t \in Streams \ {s} : stream[t].live => stream[t].file # f
  BY <1>0, <1>1 DEF Tidy, OpenOnce, Live
<1>7. Lengths'[f] = size'[f]
  <2>1. \A t \in Streams : ~(stream'[t].live /\ stream'[t].file = f)
    BY <1>5, <1>6
  <2> QED BY <1>3, <2>1, LengthNext
<1>8. ASSUME NEW g \in Files \ {f} PROVE Lengths'[g] = Lengths[g]
  <2>1. \A t \in Streams : /\ stream[t].live /\ stream[t].file = g => stream'[t] = stream[t]
                           /\ stream'[t].live /\ stream'[t].file = g => stream'[t] = stream[t]
    BY <1>1, <1>5, <1>8
  <2> QED BY <1>3, <1>8, <2>1, LengthSame
<1>9. Lengths' = Lengths
  BY <1>1, <1>4, <1>7, <1>8, LengthsFun
<1>10. \A t \in Streams \ {s} : Sharing(t)' = Sharing(t)
  BY <1>1, <1>2, <1>s DEF Sharing
<1>11. \A t \in Streams \ {s} : Opened'[t] = Opened[t]
  BY <1>1, <1>10, OpenSame
<1>12. Opened'[s] = None
  BY <1>1, <1>2, OpenedNext
<1>13. Opened' = [Opened EXCEPT ![s] = None]
  <2>1. Opened = [t \in Streams |-> Opened[t]] /\ Opened' = [t \in Streams |-> Opened'[t]]
    BY DEF Opened
  <2> QED BY <1>1, <1>11, <1>12, <2>1
<1>14. Opened' = Seen!WithoutLast(h)
  BY <1>1, <1>s, <1>13 DEF Seen!WithoutLast, Seen!LastOne, Opened
<1>15. handle[h] # Free
  BY <1>1, <1>2, <1>s
<1> QED BY <1>1, <1>9, <1>14, <1>15 DEF Seen!Close, Lengths, Opened

(* What the guest sees when only handles or names change.                  *)
LEMMA LengthsKept == UNCHANGED <<size, stream>> => Lengths' = Lengths
BY DEF Lengths, SeenLength, OpenOn, Live

(* Opened as a function, for its extensionality.                           *)
LEMMA OpenedFun ==
  Opened = [t \in Streams |-> Opened[t]] /\ Opened' = [t \in Streams |-> Opened'[t]]
BY DEF Opened

(* The open files are the same if each is named as before.                 *)
LEMMA OpenedKept ==
  ASSUME UNCHANGED stream, \A t \in Streams : (Sharing(t)' = {}) <=> (Sharing(t) = {})
  PROVE  Opened' = Opened
<1>1. \A t \in Streams : Opened'[t] = Opened[t]
  BY OpenSame
<1> QED BY <1>1, OpenedFun

(* A duplicate joins the stream it is of.                                  *)
LEMMA JoinsSharing ==
  ASSUME NEW h \in Handles, NEW k \in Handles,
         handle \in [Handles -> Streams \union {Console, Free}],
         handle' = [handle EXCEPT ![k] = handle[h]],
         NEW t \in Streams, handle[k] # t \/ handle[h] = t
  PROVE  (Sharing(t)' = {}) <=> (Sharing(t) = {})
<1>1. handle'[k] = handle[h] /\ \A g \in Handles \ {k} : handle'[g] = handle[g]
  OBVIOUS
<1>2. ASSUME NEW g \in Handles, handle[g] = t PROVE \E j \in Handles : handle'[j] = t
  BY <1>1, <1>2
<1>3. ASSUME NEW g \in Handles, handle'[g] = t PROVE \E j \in Handles : handle[j] = t
  BY <1>1, <1>3
<1> QED BY <1>2, <1>3 DEF Sharing

(* So is one of a duplicate of the console.                                *)
LEMMA CloseConsoleSeen ==
  ASSUME Tidy, ~rude, ~rude', NEW h \in Handles, CloseConsole(h)
  PROVE  Seen!Close(h)
<1>0. handle \in [Handles -> Streams \union {Console, Free}]
  BY DEF Tidy, FilesInv
<1>1. /\ handle[h] = Console /\ handle' = [handle EXCEPT ![h] = Free]
      /\ UNCHANGED <<dir, size, stream>>
  BY DEF CloseConsole, Vacated
<1>2. Console \notin Streams /\ Free \notin Streams /\ Console # Free
  BY Numbers
<1>3. ASSUME NEW t \in Streams PROVE (Sharing(t)' = {}) <=> (Sharing(t) = {})
  <2>1. \A g \in Handles : handle'[g] = t <=> handle[g] = t
    BY <1>0, <1>1, <1>2
  <2> QED BY <2>1 DEF Sharing
<1>4. Opened' = Opened /\ Lengths' = Lengths
  BY <1>1, <1>3, OpenedKept, LengthsKept
<1> QED BY <1>1, <1>2, <1>4 DEF Seen!Close, Seen!WithoutLast, Lengths, Opened

(* AH=45h is FileTable's Dup.                                              *)
LEMMA DupSeen ==
  ASSUME Tidy, NEW h \in Handles, DupHandle(h)
  PROVE  Seen!Dup(h)
<1>0. handle \in [Handles -> Streams \union {Console, Free}]
  BY DEF Tidy, FilesInv
<1>1. /\ handle[h] # Free /\ FreeHandles # {} /\ handle' = [handle EXCEPT ![Alloc] = handle[h]]
      /\ UNCHANGED <<dir, size, stream>>
  BY DEF DupHandle
<1>2. Alloc \in Handles /\ handle[Alloc] = Free /\ Free \notin Streams
  BY <1>1, AllocFree, Numbers
<1>3. \A t \in Streams : (Sharing(t)' = {}) <=> (Sharing(t) = {})
  BY <1>0, <1>1, <1>2, JoinsSharing
<1>4. Opened' = Opened /\ Lengths' = Lengths
  BY <1>1, <1>3, OpenedKept, LengthsKept
<1> QED BY <1>1, <1>4, SameAlloc DEF Seen!Dup, Lengths, Opened

(* AH=46h is FileTable's ForceDup: the target's stream leaks, and if no    *)
(* other handle names it, it is no open file any more.                     *)
LEMMA ForceDupSeen ==
  ASSUME Tidy, NEW h \in Handles, NEW to \in Handles, ForceDupHandle(h, to)
  PROVE  Seen!ForceDup(h, to)
<1>0. handle \in [Handles -> Streams \union {Console, Free}]
  BY DEF Tidy, FilesInv
<1>1. /\ handle[h] # Free /\ h # to /\ handle' = [handle EXCEPT ![to] = handle[h]]
      /\ UNCHANGED <<dir, size, stream>>
  BY DEF ForceDupHandle
<1>2. handle'[to] = handle[h] /\ \A g \in Handles \ {to} : handle'[g] = handle[g]
  BY <1>0, <1>1
<1>3. Lengths' = Lengths
  BY <1>1, LengthsKept
<1>4. \A t \in Streams \ {handle[to]} : Opened'[t] = Opened[t]
  BY <1>0, <1>1, JoinsSharing, OpenSame
<1>5. CASE handle[to] = handle[h] \/ handle[to] \notin Streams
  <2>1. \A t \in Streams : (Sharing(t)' = {}) <=> (Sharing(t) = {})
    BY <1>0, <1>1, <1>5, JoinsSharing
  <2>2. Opened' = Opened
    BY <1>1, <2>1, OpenedKept
  <2> QED BY <1>1, <1>3, <1>5, <2>2 DEF Seen!ForceDup, Seen!WithoutLast, Lengths, Opened
<1>6. CASE handle[to] # handle[h] /\ handle[to] \in Streams
  <2>1. CASE \E g \in Handles \ {to} : handle[g] = handle[to]
    <3>1. PICK g \in Handles \ {to} : handle[g] = handle[to]
      BY <2>1
    <3>2. PICK t \in Streams : t = handle[to]
      BY <1>6
    <3>3. g \in Sharing(t) /\ handle'[g] = t
      BY <1>2, <3>1, <3>2 DEF Sharing
    <3>4. Sharing(t)' # {}
      BY <3>3 DEF Sharing
    <3>5. Opened'[t] = Opened[t]
      BY <1>1, <3>3, <3>4, OpenSame
    <3>6. Opened' = Opened
      BY <1>4, <3>2, <3>5, OpenedFun
    <3> QED BY <1>1, <1>3, <1>6, <3>1, <3>6
            DEF Seen!ForceDup, Seen!WithoutLast, Seen!LastOne, Lengths, Opened
  <2>2. CASE \A g \in Handles \ {to} : handle[g] # handle[to]
    <3>2. PICK t \in Streams : t = handle[to]
      BY <1>6
    <3>3. \A g \in Handles : handle'[g] # t
      BY <1>2, <1>6, <2>2, <3>2
    <3>4. Sharing(t)' = {}
      BY <3>3 DEF Sharing
    <3>5. Opened'[t] = None
      BY <3>4, OpenedNext
    <3>6. Opened' = [Opened EXCEPT ![t] = None]
      BY <1>4, <3>2, <3>5, OpenedFun
    <3> QED BY <1>1, <1>3, <1>6, <2>2, <3>2, <3>6
            DEF Seen!ForceDup, Seen!WithoutLast, Seen!LastOne, Lengths, Opened
  <2> QED BY <2>1, <2>2
<1> QED BY <1>5, <1>6

(* AH=41h and AH=56h are FileTable's Remove and Rename.                    *)
LEMMA NamesSeen ==
  ASSUME NEW n \in Names, RemoveFile(n) \/ \E m \in Names : RenameFile(n, m)
  PROVE  Seen!Remove(n) \/ \E m \in Names : Seen!Rename(n, m)
<1>1. UNCHANGED <<handle, size, stream>>
  BY DEF RemoveFile, RenameFile
<1>2. \A t \in Streams : Sharing(t)' = Sharing(t)
  BY <1>1 DEF Sharing
<1>3. Lengths' = Lengths /\ Opened' = Opened
  BY <1>1, <1>2, LengthsKept, OpenedKept
<1>4. CASE RemoveFile(n)
  BY <1>1, <1>3, <1>4 DEF RemoveFile, Seen!Remove, Lengths, Opened
<1>5. CASE \E m \in Names : RenameFile(n, m)
  <2>1. PICK m \in Names : RenameFile(n, m)
    BY <1>5
  <2>2. Seen!Rename(n, m)
    BY <1>1, <1>3, <2>1 DEF RenameFile, Seen!Rename, Lengths, Opened
  <2> QED BY <2>2
<1> QED BY <1>4, <1>5

(* The calls on handles of any kind are steps of FileTable.                *)
LEMMA OnHandleSeen ==
  ASSUME Tidy, ~rude, Tidy', ~rude', NEW h \in Handles, OnHandle(h)
  PROVE  Seen!Next
<1>1. Seen!Close(h) \/ Seen!Dup(h) \/ \E to \in Handles : Seen!ForceDup(h, to)
  BY CloseConsoleSeen, DupSeen, ForceDupSeen DEF OnHandle
<1> QED BY <1>1 DEF Seen!Next

(* So are the calls on handles of streams.                                 *)
LEMMA OnFileHandleSeen ==
  ASSUME Tidy, ~rude, Tidy', ~rude', ~undefined', LongIs32, NEW h \in OnStream, OnFileHandle(h)
  PROVE  Seen!Next \/ UNCHANGED Seen!vars
<1>1. h \in Handles /\ h \in Seen!OnFile
  BY DEF OnStream, Seen!OnFile
<1>2. \/ Seen!Read(h) \/ UNCHANGED Seen!vars \/ Seen!Write(h) \/ Seen!Truncate(h)
      \/ Seen!Close(h) \/ \E offset \in -MaxLen .. MaxLen : Seen!Seek(h, offset)
  <2>1. ~UseClosed(h)
    BY DEF UseClosed
  <2> QED BY <2>1, ReadSeen, WriteSeen, TruncateSeen, CloseSeen, SeekSeen DEF OnFileHandle
<1> QED BY <1>1, <1>2 DEF Seen!Next

(* So are the calls that name a file.                                      *)
LEMMA OnNameSeen ==
  ASSUME Tidy, ~rude, Tidy', ~rude', NEW n \in Names, OnName(n)
  PROVE  Seen!Next
<1>1. \/ \E w \in BOOLEAN : Seen!Open(n, w)
      \/ Seen!Create(n) \/ Seen!Remove(n) \/ \E m \in Names : Seen!Rename(n, m)
  <2>1. CASE \E w \in BOOLEAN : OpenFile(n, w)
    BY <2>1, OpenSeen
  <2>2. CASE CreateFile(n)
    BY <2>2, CreateSeen
  <2>3. CASE RemoveFile(n) \/ \E m \in Names : RenameFile(n, m)
    BY <2>3, NamesSeen
  <2> QED BY <2>1, <2>2, <2>3 DEF OnName
<1> QED BY <1>1 DEF Seen!Next

(* A guest that is rude stays so.                                          *)
LEMMA RudeStays ==
  ASSUME FilesInv, FilesNext, ~rude'
  PROVE  ~rude
<1>1. ASSUME NEW n \in Names, OnName(n) PROVE ~rude
  BY <1>1 DEF OnName, OpenFile, CreateFile, RemoveFile, RenameFile
<1>2. ASSUME NEW h \in OnStream, OnFileHandle(h) PROVE ~rude
  BY <1>2 DEF OnFileHandle, ReadFile, ReadsOn, WriteFile, WritesOn, RefusesToTurn, TruncateFile, CloseFile, UseClosed, SeekFile
<1>3. ASSUME NEW h \in Handles, OnHandle(h) PROVE ~rude
  BY <1>3, HandleMoves
<1>4. ASSUME NEW s \in Live, BufferFlushed(s) PROVE ~rude
  BY <1>4 DEF BufferFlushed
<1> QED BY <1>1, <1>2, <1>3, <1>4 DEF FilesNext

(* Every step of a polite guest is a step of FileTable or a stutter.       *)
LEMMA FilesSteps ==
  LongIs32 /\ Tidy /\ FilesNext /\ ~rude' /\ ~undefined' => [Seen!Next]_Seen!vars
<1> SUFFICES ASSUME LongIs32, Tidy, FilesNext, ~rude', ~undefined'
             PROVE  Seen!Next \/ UNCHANGED Seen!vars
  OBVIOUS
<1>1. Tidy' /\ ~rude
  BY TidySteps, RudeStays DEF Tidy
<1> QED BY <1>1, OnNameSeen, OnFileHandleSeen, OnHandleSeen, FlushSeen DEF FilesNext

(* The emulator starts as FileTable does.                                  *)
LEMMA FirstSeen == FilesInit => Seen!Init
<1> SUFFICES ASSUME FilesInit PROVE Seen!Init
  OBVIOUS
<1>1. \A s \in Streams : ~stream[s].live
  BY DEF FilesInit, Closed
<1>2. Tidy /\ ~rude
  BY TidyFirst DEF FilesInit
<1>3. \A s \in Streams : Opened[s] = None
  BY <1>1, OpenedIs
<1>4. Opened = [s \in Streams |-> None]
  BY <1>3 DEF Opened
<1>5. \A f \in Files : Lengths[f] = size[f]
  BY <1>1, <1>2, LengthIs
<1>6. Lengths = [f \in Files |-> 0]
  BY <1>5 DEF Lengths, FilesInit
<1> QED BY <1>4, <1>6 DEF Seen!Init, FilesInit, Lengths, Opened

(* Buffers, shared streams and leaks do not show: to a polite guest the    *)
(* calls of files.cpp are those of FileTable, for any number of files,     *)
(* streams and handles, on a host whose long has 32 bits (with 64, AH=42h  *)
(* reaches places that DOS cannot).                                        *)
THEOREM HandlesAreDos == ASSUME LongIs32 PROVE FilesSpec => Seen!Init /\ PoliteSeesDos
<1>1. Tidy /\ [FilesNext]_filesVars => (~rude' /\ ~undefined' => [Seen!Next]_Seen!vars)
  <2>1. UNCHANGED filesVars => UNCHANGED Seen!vars
    <3> SUFFICES ASSUME UNCHANGED filesVars PROVE UNCHANGED Seen!vars
      OBVIOUS
    <3>1. UNCHANGED <<dir, handle, size, stream>>
      BY DEF filesVars
    <3>2. \A t \in Streams : Sharing(t)' = Sharing(t)
      BY <3>1 DEF Sharing
    <3>3. Lengths' = Lengths /\ Opened' = Opened
      BY <3>1, <3>2, LengthsKept, OpenedKept
    <3> QED BY <3>1, <3>3 DEF Seen!vars, Lengths, Opened
  <2> QED BY <2>1, FilesSteps
<1>2. UNCHANGED filesVars /\ Tidy => Tidy'
  BY DEF filesVars, Tidy, Uses, FilesInv, OpenOnce, NoneDangles, StreamFine, Live, OnStream, StreamOf
<1> QED BY <1>1, <1>2, FirstSeen, TidyFirst, TidySteps, PTL DEF FilesSpec, PoliteSeesDos

-----------------------------------------------------------------------------
(* The searches.                                                           *)

(* A vector lists an entry once.                                           *)
OnceEach(s) == \A i, j \in DOMAIN s : s[i] = s[j] => i = j

(* What a program has, kept or current.                                    *)
Searches == [dta : DtaSegs, find : Seq(Entries), find_pos : Nat, began : BOOLEAN]
Sound(k) == k \in Searches /\ k.find_pos <= Len(k.find) /\ OnceEach(k.find)

(* The inductive invariant.                                                *)
SearchInv ==
  /\ Sound(Kept)
  /\ saved \in Seq(Searches) /\ Len(saved) < MaxPrograms
  /\ \A i \in DOMAIN saved : Sound(saved[i])
  /\ area \in [DtaSegs -> Entries \union {Nothing}]

(* An order of n entries lists all of them.                                *)
LEMMA OrderLists ==
  ASSUME NEW found \in SUBSET Entries, NEW s \in Orders(found)
  PROVE  /\ s \in Seq(Entries) /\ OnceEach(s)
         /\ Len(s) = Cardinality(found) /\ Cardinality(found) \in Nat
         /\ found = {s[i] : i \in 1 .. Len(s)}
         /\ found = {} <=> Len(s) = 0
<1> DEFINE n == Cardinality(found)
<1>1. IsFiniteSet(found) /\ n \in Nat
  <2>1. IsFiniteSet(Entries)
    BY SearchAssumption
  <2> QED BY <2>1, FS_Subset, FS_CardinalityType
<1>2. IsFiniteSet(1 .. n) /\ Cardinality(1 .. n) = n
  BY <1>1, FS_Interval
<1>3. s \in Injection(1 .. n, found)
  <2>1. s \in [1 .. n -> found] /\ \A i, j \in 1 .. n : s[i] = s[j] => i = j
    BY DEF Orders
  <2> HIDE DEF n
  <2> QED BY <2>1 DEF Injection, IsInjective
<1>4. s \in Surjection(1 .. n, found)
  <2> HIDE DEF n
  <2>1. Cardinality(1 .. n) = Cardinality(found)
    BY <1>2 DEF n
  <2> QED BY <1>1, <1>3, <2>1, FS_Injection
<1>5. s \in [1 .. n -> found] /\ \A e \in found : \E i \in 1 .. n : s[i] = e
  <2> HIDE DEF n
  <2> QED BY <1>4 DEF Surjection
<1>6. s \in Seq(Entries) /\ Len(s) = n /\ DOMAIN s = 1 .. n
  <2> HIDE DEF n
  <2> QED BY <1>1, <1>5
<1>7. OnceEach(s)
  BY <1>6 DEF Orders, OnceEach
<1>8. found = {s[i] : i \in 1 .. Len(s)}
  <2> HIDE DEF n
  <2> QED BY <1>5, <1>6
<1>9. found = {} <=> Len(s) = 0
  <2> HIDE DEF n
  <2> QED BY <1>1, <1>5, <1>6
<1> QED BY <1>1, <1>6, <1>7, <1>8, <1>9

(* The programs as ProcessSearch sees them, and one of them.               *)
Processes == [i \in 1 .. Len(saved) + 1 |-> Program(IF i <= Len(saved) THEN saved[i] ELSE Kept)]
Running   == [dta : DtaSegs, left : SUBSET Entries, began : BOOLEAN]

(* The invariant, spelt out for the program that runs.                     *)
LEMMA RunningIs ==
  ASSUME SearchInv
  PROVE  /\ dta \in DtaSegs /\ began \in BOOLEAN
         /\ find \in Seq(Entries) /\ OnceEach(find)
         /\ find_pos \in Nat /\ Len(find) \in Nat /\ find_pos <= Len(find)
<1>1. Kept \in Searches /\ Kept.find_pos <= Len(Kept.find) /\ OnceEach(Kept.find)
  BY DEF SearchInv, Sound
<1> QED BY <1>1 DEF Kept, Searches

(* The other direction.                                                    *)
LEMMA KeptSound ==
  ASSUME dta \in DtaSegs, began \in BOOLEAN, find \in Seq(Entries), OnceEach(find),
         find_pos \in Nat, find_pos <= Len(find)
  PROVE  Sound(Kept)
  BY DEF Kept, Sound, Searches

(* A program's entries are entries.                                        *)
LEMMA ProgramRuns ==
  ASSUME NEW k, Sound(k)
  PROVE  Program(k) \in Running
<1>1. k \in Searches
  BY DEF Sound
<1>2. k.find \in Seq(Entries) /\ k.find_pos \in Nat /\ k.dta \in DtaSegs /\ k.began \in BOOLEAN
  BY <1>1 DEF Searches
<1>3. Left(k) \in SUBSET Entries
  <2>1. \A i \in k.find_pos + 1 .. Len(k.find) : k.find[i] \in Entries
    <3> SUFFICES ASSUME NEW i \in k.find_pos + 1 .. Len(k.find) PROVE k.find[i] \in Entries
      OBVIOUS
    <3>1. i \in 1 .. Len(k.find)
      <4>1. k.find_pos \in Nat /\ Len(k.find) \in Nat
        BY <1>2, LenProperties
      <4> QED BY <4>1
    <3> QED BY <1>2, <3>1, ElementOfSeq
  <2> QED BY <2>1 DEF Left
<1> QED BY <1>2, <1>3 DEF Program, Running

(* The one that runs.                                                      *)
Ahead == IF began THEN {find[i] : i \in find_pos + 1 .. Len(find)} ELSE {}

CurrentProgram == Program(Kept) = [dta |-> dta, left |-> Ahead, began |-> began]

(* The program that runs, as ProcessSearch sees it.                        *)
LEMMA CurrentRuns == CurrentProgram
BY DEF CurrentProgram, Program, Kept, Left, Ahead

(* The same after a step.                                                  *)
LEMMA CurrentRunsNext == CurrentProgram'
BY CurrentRuns, PTL

(* The program that runs has L left of its search; the same of the last    *)
(* of the programs.                                                        *)
Advanced(L) ==
  Program(Kept)' = [Program(Kept) EXCEPT !.left = L, !.began = began']

LastAdvanced(L) ==
  Processes' = [Processes EXCEPT ![Len(Processes)].left = L, ![Len(Processes)].began = began']

(* Its search and whether it began one are set.                            *)
LEMMA CurrentBegins ==
  ASSUME NEW L, Ahead' = L, UNCHANGED dta
  PROVE  Advanced(L)
<1>1. Program(Kept) = [dta |-> dta, left |-> Ahead, began |-> began]
  BY CurrentRuns DEF CurrentProgram
<1>2. Program(Kept)' = [dta |-> dta, left |-> L, began |-> began']
  BY CurrentRunsNext DEF CurrentProgram
<1> DEFINE x == [Program(Kept) EXCEPT !.left = L, !.began = began']
           y == [dta |-> dta, left |-> L, began |-> began']
<1>3. /\ x.began = began' /\ x.left = L /\ x.dta = dta
      /\ DOMAIN x = {"dta", "left", "began"} /\ x = [g \in DOMAIN x |-> x[g]]
  <2> DEFINE r == Program(Kept)  b == began'
  <2>1. /\ r.dta = dta /\ DOMAIN r = {"dta", "left", "began"}
        /\ r = [g \in DOMAIN r |-> r[g]]
    BY <1>1
  <2> HIDE DEF r, b
  <2>2. x = [r EXCEPT !.left = L, !.began = b]
    BY DEF r, b
  <2> HIDE DEF x
  <2>3. x.began = b /\ x.left = L /\ x.dta = dta /\ DOMAIN x = {"dta", "left", "began"}
    BY <2>1, <2>2
  <2>4. x = [g \in DOMAIN x |-> x[g]]
    BY <2>1, <2>2
  <2> QED BY <2>3, <2>4 DEF b
<1>4. /\ y.began = began' /\ y.left = L /\ y.dta = dta
      /\ DOMAIN y = {"dta", "left", "began"} /\ y = [g \in DOMAIN y |-> y[g]]
  OBVIOUS
<1> HIDE DEF x, y
<1>5. \A g \in {"dta", "left", "began"} : x[g] = y[g]
  BY <1>3, <1>4
<1>6. x = y
  BY <1>3, <1>4, <1>5
<1> QED BY <1>2, <1>6 DEF x, y, Advanced

(* They are the kept ones in order and then the current one.               *)
AllPrograms ==
  /\ Processes \in Seq(Running)
  /\ Len(Processes) = Len(saved) + 1 /\ Len(saved) \in Nat
  /\ Processes[Len(saved) + 1] = Program(Kept)
  /\ \A i \in 1 .. Len(saved) : Processes[i] = Program(saved[i])

(* ProcessSearch's programs: the suspended ones, then the one that runs.   *)
LEMMA ProcessesAre == SearchInv => AllPrograms
<1> SUFFICES ASSUME SearchInv PROVE AllPrograms
  OBVIOUS
<1> DEFINE n == Len(saved)
<1>1. n \in Nat /\ DOMAIN saved = 1 .. n
  BY LenProperties DEF SearchInv
<1>2. Program(Kept) \in Running /\ \A i \in 1 .. n : Program(saved[i]) \in Running
  BY <1>1, ProgramRuns DEF SearchInv
<1> HIDE DEF n
<1>3. Processes = [i \in 1 .. n + 1 |-> IF i <= n THEN Program(saved[i]) ELSE Program(Kept)]
  BY <1>1 DEF Processes, n
<1>4. \A i \in 1 .. n + 1 : (IF i <= n THEN Program(saved[i]) ELSE Program(Kept)) \in Running
  BY <1>1, <1>2
<1>5. Processes \in [1 .. n + 1 -> Running]
  BY <1>3, <1>4
<1>6. Processes \in Seq(Running) /\ Len(Processes) = n + 1
  BY <1>1, <1>5
<1>7. Processes[n + 1] = Program(Kept)
  BY <1>1, <1>3
<1>8. \A i \in 1 .. n : Processes[i] = Program(saved[i])
  BY <1>1, <1>3
<1> QED BY <1>1, <1>6, <1>7, <1>8 DEF n, AllPrograms

(* The same after a step.                                                  *)
LEMMA ProcessesNext == SearchInv' => AllPrograms'
BY ProcessesAre, PTL

(* The entries left once the next one is taken.                            *)
LEMMA OneTaken ==
  ASSUME NEW s \in Seq(Entries), OnceEach(s), NEW p \in Nat, p < Len(s)
  PROVE  /\ s[p + 1] \in {s[i] : i \in p + 1 .. Len(s)}
         /\ {s[i] : i \in p + 2 .. Len(s)} = {s[i] : i \in p + 1 .. Len(s)} \ {s[p + 1]}
         /\ s[p + 1] \in Entries
<1>1. Len(s) \in Nat /\ DOMAIN s = 1 .. Len(s)
  BY LenProperties
<1>2. p + 1 \in 1 .. Len(s) /\ p + 1 \in p + 1 .. Len(s)
  BY <1>1
<1>3. \A i \in p + 1 .. Len(s) : i \in 1 .. Len(s) /\ (i = p + 1 \/ i \in p + 2 .. Len(s))
  BY <1>1
<1>4. \A i \in p + 2 .. Len(s) : i \in p + 1 .. Len(s) /\ i # p + 1
  BY <1>1
<1>5. \A i \in p + 1 .. Len(s) : s[i] = s[p + 1] => i = p + 1
  BY <1>1, <1>2, <1>3 DEF OnceEach
<1>6. s[p + 1] \in Entries
  BY <1>2, ElementOfSeq
<1>7. {s[i] : i \in p + 2 .. Len(s)} = {s[i] : i \in p + 1 .. Len(s)} \ {s[p + 1]}
  BY <1>3, <1>4, <1>5
<1> QED BY <1>2, <1>6, <1>7

(* A program takes a step that changes what it has: the others stay.       *)
LEMMA CurrentChanges ==
  ASSUME SearchInv, SearchInv', UNCHANGED saved
  PROVE  Processes' = [Processes EXCEPT ![Len(Processes)] = Program(Kept)']
<1> DEFINE n == Len(saved)
<1>1. /\ Processes \in Seq(Running) /\ Len(Processes) = n + 1 /\ n \in Nat
      /\ \A i \in 1 .. n : Processes[i] = Program(saved[i])
  BY ProcessesAre DEF AllPrograms
<1>2. /\ Processes' \in Seq(Running) /\ Len(Processes') = n + 1
      /\ Processes'[n + 1] = Program(Kept)'
      /\ \A i \in 1 .. n : Processes'[i] = Program(saved[i])
  BY ProcessesNext DEF AllPrograms
<1> QED BY <1>1, <1>2

(* A step of the program that runs changes the last of the programs.       *)
LEMMA CurrentFields ==
  ASSUME SearchInv, SearchInv', UNCHANGED saved, NEW L, Advanced(L)
  PROVE  LastAdvanced(L)
<1> DEFINE d == Len(Processes)  b == began'
<1>0. Program(Kept)' = [Program(Kept) EXCEPT !.left = L, !.began = b]
  BY DEF Advanced
<1>1. Processes' = [Processes EXCEPT ![d] = Program(Kept)']
  BY CurrentChanges
<1>2. Processes[d] = Program(Kept) /\ Processes \in Seq(Running) /\ d \in 1 .. d
  <2>1. AllPrograms
    BY ProcessesAre
  <2> QED BY <2>1 DEF AllPrograms
<1>3. DOMAIN Processes = 1 .. d
  BY <1>2
<1> HIDE DEF d, b
<1>4. [Processes EXCEPT ![d].left = L, ![d].began = b]
        = [Processes EXCEPT ![d] = [Processes[d] EXCEPT !.left = L, !.began = b]]
  BY <1>2, <1>3
<1>5. Processes' = [Processes EXCEPT ![d].left = L, ![d].began = b]
  BY <1>0, <1>1, <1>2, <1>4
<1> QED BY <1>5 DEF LastAdvanced, d, b

(* A step that leaves it leaves the programs.                              *)
LEMMA CurrentSame ==
  ASSUME SearchInv, SearchInv', UNCHANGED saved, Program(Kept)' = Program(Kept)
  PROVE  Processes' = Processes
<1>1. Processes' = [Processes EXCEPT ![Len(Processes)] = Program(Kept)]
  BY CurrentChanges
<1>2. Processes[Len(Processes)] = Program(Kept) /\ Processes \in Seq(Running)
  BY ProcessesAre DEF AllPrograms
<1> QED BY <1>1, <1>2

-----------------------------------------------------------------------------
(* The steps.                                                              *)
LEMMA SearchStarts == SearchInit => SearchInv
<1> SUFFICES ASSUME SearchInit PROVE SearchInv
  OBVIOUS
<1>1. Sound(Kept)
  <2>1. find \in Seq(Entries) /\ OnceEach(find) /\ Len(find) = 0
    BY DEF SearchInit, OnceEach
  <2> QED BY <2>1, KeptSound DEF SearchInit, DtaSegs
<1>2. saved \in Seq(Searches) /\ Len(saved) < MaxPrograms /\ DOMAIN saved = {}
  BY SearchAssumption DEF SearchInit
<1>3. area \in [DtaSegs -> Entries \union {Nothing}]
  BY DEF SearchInit
<1> QED BY <1>1, <1>2, <1>3 DEF SearchInv

(* write_dta_entry keeps the areas' type.                                  *)
LEMMA AreaWritten ==
  ASSUME SearchInv, NEW e \in Entries
  PROVE  [area EXCEPT ![dta] = e] \in [DtaSegs -> Entries \union {Nothing}]
  BY RunningIs DEF SearchInv

(* The current program's data change.                                      *)
LEMMA SameSaved ==
  ASSUME SearchInv, UNCHANGED saved, Sound(Kept)', area' \in [DtaSegs -> Entries \union {Nothing}]
  PROVE  SearchInv'
  BY DEF SearchInv

(* AH=1Ah keeps the invariant and is ProcessSearch's.                      *)
LEMMA SetDtaSteps ==
  ASSUME SearchInv, SetDta
  PROVE  SearchInv' /\ Promised!Next
<1>1. dta' \in DtaSegs /\ UNCHANGED <<find, find_pos, began, saved, area>>
  BY DEF SetDta, DtaSegs
<1>2. Sound(Kept)'
  <2>1. SearchInv => /\ began \in BOOLEAN /\ find \in Seq(Entries) /\ OnceEach(find)
                     /\ find_pos \in Nat /\ find_pos <= Len(find)
    BY RunningIs
  <2> QED BY <1>1, <2>1 DEF Sound, Kept, Searches
<1>3. SearchInv'
  <2>1. area' \in [DtaSegs -> Entries \union {Nothing}]
    BY <1>1 DEF SearchInv
  <2> QED BY <1>1, <1>2, <2>1, SameSaved
<1>4. Processes' = [Processes EXCEPT ![Len(Processes)] = Program(Kept)']
  BY <1>1, <1>3, CurrentChanges
<1>5. Program(Kept)' = [Program(Kept) EXCEPT !.dta = dta']
  <2>1. Ahead' = Ahead
    BY <1>1 DEF Ahead
  <2> QED BY <1>1, <2>1, CurrentRuns, CurrentRunsNext DEF CurrentProgram
<1>6. Processes' = [Processes EXCEPT ![Len(Processes)].dta = dta']
  <2>1. Processes[Len(Processes)] = Program(Kept)
    BY ProcessesAre DEF AllPrograms
  <2> QED BY <1>4, <1>5, <2>1
<1> QED BY <1>1, <1>3, <1>6 DEF Promised!Next, Promised!SetDta, Promised!Depth, Processes

(* So is an exec() that starts a child.                                    *)
LEMMA StartSteps ==
  ASSUME SearchInv, StartProgram
  PROVE  SearchInv' /\ Promised!Next
<1>1. /\ dta' \in DtaSegs /\ saved' = Append(saved, Kept) /\ Len(saved) + 1 < MaxPrograms
      /\ began' = FALSE /\ UNCHANGED <<find, find_pos, area>>
  BY DEF StartProgram, DtaSegs
<1>2. Sound(Kept)'
  <2>1. /\ began' \in BOOLEAN /\ find \in Seq(Entries) /\ OnceEach(find)
        /\ find_pos \in Nat /\ find_pos <= Len(find)
    BY <1>1, RunningIs
  <2> QED BY <1>1, <2>1 DEF Sound, Kept, Searches
<1>3. SearchInv'
  <2>1. Sound(Kept) /\ Kept \in Searches /\ saved \in Seq(Searches) /\ Len(saved) \in Nat
    BY LenProperties DEF SearchInv, Sound
  <2>2. /\ saved' \in Seq(Searches) /\ Len(saved') = Len(saved) + 1
        /\ DOMAIN saved' = 1 .. Len(saved) + 1 /\ DOMAIN saved = 1 .. Len(saved)
        /\ \A i \in 1 .. Len(saved) : saved'[i] = saved[i]
        /\ saved'[Len(saved) + 1] = Kept
    BY <1>1, <2>1, AppendProperties
  <2>3. \A i \in DOMAIN saved' : Sound(saved'[i])
    <3>1. \A i \in 1 .. Len(saved) + 1 : i \in 1 .. Len(saved) \/ i = Len(saved) + 1
      BY <2>1
    <3> QED BY <2>1, <2>2, <3>1 DEF SearchInv
  <2>4. area' \in [DtaSegs -> Entries \union {Nothing}]
    BY <1>1 DEF SearchInv
  <2> QED BY <1>1, <1>2, <2>2, <2>3, <2>4 DEF SearchInv
<1>4. Program(Kept)' = Promised!Fresh(dta')
  BY <1>1 DEF Program, Kept, Left, Promised!Fresh
<1>5. Processes' = Append(Processes, Promised!Fresh(dta'))
  <2> DEFINE n == Len(saved)
  <2>1. /\ Processes \in Seq(Running) /\ Len(Processes) = n + 1 /\ n \in Nat
        /\ Processes[n + 1] = Program(Kept)
        /\ \A i \in 1 .. n : Processes[i] = Program(saved[i])
    BY ProcessesAre DEF AllPrograms
  <2>2. /\ Len(saved') = n + 1 /\ saved'[n + 1] = Kept
        /\ \A i \in 1 .. n : saved'[i] = saved[i]
    BY <1>1, AppendProperties DEF SearchInv, Sound
  <2>3. /\ Processes' \in Seq(Running) /\ Len(Processes') = n + 2
        /\ Processes'[n + 2] = Program(Kept)'
        /\ \A i \in 1 .. n + 1 : Processes'[i] = Program(saved'[i])
    BY <1>3, <2>1, <2>2, ProcessesNext DEF AllPrograms
  <2>4. \A i \in 1 .. n + 1 : Processes'[i] = Processes[i]
    BY <2>1, <2>2, <2>3
  <2> HIDE DEF n
  <2> QED BY <1>4, <2>1, <2>3, <2>4
<1> QED BY <1>1, <1>3, <1>5 DEF Promised!Next, Promised!Starts, Processes

(* So is the child's end: the parent's locals are put back.                *)
LEMMA EndSteps ==
  ASSUME SearchInv, EndProgram
  PROVE  SearchInv' /\ Promised!Next
<1> DEFINE n == Len(saved)
<1>0. n \in Nat /\ n > 0 /\ n \in 1 .. n /\ DOMAIN saved = 1 .. n /\ saved \in Seq(Searches)
  <2>1. saved \in Seq(Searches) /\ saved # <<>>
    BY DEF SearchInv, EndProgram
  <2> QED BY <2>1, LenProperties, EmptySeq
<1>1. /\ dta' = saved[n].dta /\ find' = saved[n].find /\ find_pos' = saved[n].find_pos
      /\ began' = saved[n].began /\ saved' = SubSeq(saved, 1, n - 1) /\ UNCHANGED area
  BY DEF EndProgram, PutBack
<1>2. Kept' = saved[n]
  <2>1. saved[n] \in Searches
    BY <1>0, ElementOfSeq
  <2> QED BY <1>1, <2>1 DEF Kept, Searches
<1>3. /\ saved' \in Seq(Searches) /\ Len(saved') = n - 1 /\ DOMAIN saved' = 1 .. n - 1
      /\ \A i \in 1 .. n - 1 : saved'[i] = saved[i]
  <2> HIDE DEF n
  <2> QED BY <1>0, <1>1
<1>4. SearchInv'
  <2>1. Sound(Kept') /\ Len(saved') < MaxPrograms
    BY <1>0, <1>2, <1>3, SearchAssumption DEF SearchInv
  <2>2. Sound(Kept)'
    BY <2>1 DEF Sound, Searches, DtaSegs
  <2>3. \A i \in DOMAIN saved' : Sound(saved'[i])
    BY <1>0, <1>3 DEF SearchInv
  <2> QED BY <1>1, <1>3, <2>1, <2>2, <2>3 DEF SearchInv
<1>5. Processes' = SubSeq(Processes, 1, Len(Processes) - 1) /\ Len(Processes) > 1
  <2>1. /\ Processes \in Seq(Running) /\ Len(Processes) = n + 1
        /\ \A i \in 1 .. n : Processes[i] = Program(saved[i])
    BY ProcessesAre DEF AllPrograms
  <2>2. /\ Processes' \in Seq(Running) /\ Len(Processes') = n
        /\ Processes'[n] = Program(Kept')
        /\ \A i \in 1 .. n - 1 : Processes'[i] = Program(saved'[i])
    <3>1. /\ Processes' \in Seq(Running) /\ Len(Processes') = Len(saved') + 1
          /\ Processes'[Len(saved') + 1] = Program(Kept)'
          /\ \A i \in 1 .. Len(saved') : Processes'[i] = Program(saved[i])'
      BY <1>4, ProcessesNext DEF AllPrograms
    <3>2. Program(Kept)' = Program(Kept') /\ Len(saved') + 1 = n
      BY <1>0, <1>3 DEF Program, Left
    <3>3. \A i \in 1 .. n - 1 : Program(saved[i])' = Program(saved'[i])
      BY DEF Program, Left
    <3> HIDE DEF n
    <3> QED BY <1>3, <3>1, <3>2, <3>3
  <2>3. \A i \in 1 .. n : Processes'[i] = Processes[i]
    BY <1>0, <1>2, <1>3, <2>1, <2>2
  <2> HIDE DEF n
  <2> QED BY <1>0, <2>1, <2>2, <2>3
<1> QED BY <1>1, <1>4, <1>5 DEF Promised!Next, Promised!Ends, Promised!Depth, Processes

(* AH=4Eh lists, in whatever order, the entries a search has left.         *)
LEMMA FindFirstSteps ==
  ASSUME SearchInv, NEW found \in SUBSET Entries, FindFirst(found)
  PROVE  SearchInv' /\ Promised!Next
<1>1. find' \in Orders(found) /\ began' = TRUE /\ UNCHANGED <<dta, saved>>
  BY DEF FindFirst, Fills
<1>2. /\ find' \in Seq(Entries) /\ OnceEach(find') /\ Len(find') \in Nat
      /\ found = {find'[i] : i \in 1 .. Len(find')}
      /\ found = {} <=> Len(find') = 0
  BY <1>1, OrderLists
<1>3. dta \in DtaSegs
  BY RunningIs
<1>4. find_pos' \in Nat /\ find_pos' <= Len(find')
  BY <1>2 DEF FindFirst, Fills
<1>5. Sound(Kept)'
  BY <1>1, <1>2, <1>3, <1>4 DEF Sound, Kept, Searches, OnceEach
<1>6. CASE found = {}
  <2>1. area' = area /\ find_pos' = 0
    BY <1>6 DEF FindFirst, Fills
  <2>2. SearchInv'
    <3>1. area' \in [DtaSegs -> Entries \union {Nothing}]
      BY <2>1 DEF SearchInv
    <3> QED BY <1>1, <1>5, <3>1, SameSaved
  <2>3. Advanced({})
    <3>1. Ahead' = {}
      <4>1. \A i \in find_pos' + 1 .. Len(find') : FALSE
        <5>1. find_pos' = 0 /\ Len(find') = 0
          BY <1>2, <1>6, <2>1
        <5> QED BY <5>1
      <4> QED BY <4>1 DEF Ahead
    <3> QED BY <1>1, <3>1, CurrentBegins
  <2>4. LastAdvanced({})
    BY <1>1, <2>2, <2>3, CurrentFields
  <2>5. Promised!FindFirst(found)
    BY <1>1, <1>6, <2>1, <2>4 DEF Promised!FindFirst, LastAdvanced, Promised!Depth, Processes
  <2> QED BY <2>2, <2>5 DEF Promised!Next
<1>7. CASE found # {}
  <2> DEFINE e == find'[1]
  <2>1. area' = [area EXCEPT ![dta] = e] /\ find_pos' = 1
    BY <1>7 DEF FindFirst, Fills, WriteDtaEntry
  <2>2. /\ e \in found /\ e \in Entries
        /\ {find'[i] : i \in find_pos' + 1 .. Len(find')} = found \ {e}
    <3>1. 0 \in Nat /\ 0 < Len(find')
      BY <1>2, <1>7
    <3>2. /\ find'[0 + 1] \in {find'[i] : i \in 0 + 1 .. Len(find')}
          /\ {find'[i] : i \in 0 + 2 .. Len(find')}
               = {find'[i] : i \in 0 + 1 .. Len(find')} \ {find'[0 + 1]}
          /\ find'[0 + 1] \in Entries
      BY <1>2, <3>1, OneTaken
    <3>3. 0 + 1 = 1 /\ 0 + 2 = find_pos' + 1
      BY <2>1
    <3>4. found \subseteq Entries
      OBVIOUS
    <3> QED BY <1>2, <3>2, <3>3, <3>4
  <2> HIDE DEF e
  <2>3. SearchInv'
    <3>1. area' \in [DtaSegs -> Entries \union {Nothing}]
      BY <2>1, <2>2, AreaWritten
    <3> QED BY <1>1, <1>5, <3>1, SameSaved
  <2>4. Advanced(found \ {e})
    <3>1. Ahead' = found \ {e}
      BY <1>1, <2>2 DEF Ahead
    <3> QED BY <1>1, <3>1, CurrentBegins
  <2>5. LastAdvanced(found \ {e})
    BY <1>1, <2>3, <2>4, CurrentFields
  <2>6. Processes[Len(Processes)].dta = dta
    BY ProcessesAre, CurrentRuns DEF AllPrograms, CurrentProgram
  <2>7. Promised!FindFirst(found)
    BY <1>1, <1>7, <2>1, <2>2, <2>5, <2>6
       DEF Promised!FindFirst, LastAdvanced, Promised!Gives, Promised!Depth, Promised!Current, Processes
  <2> QED BY <2>3, <2>7 DEF Promised!Next
<1> QED BY <1>6, <1>7

(* AH=4Fh takes one of them.                                               *)
LEMMA FindNextSteps ==
  ASSUME SearchInv, FindNext
  PROVE  SearchInv' /\ Promised!Next
<1> DEFINE e == find[find_pos + 1]
           left == {find[i] : i \in find_pos + 1 .. Len(find)}
<1>1. /\ find_pos < Len(find) /\ find_pos' = find_pos + 1
      /\ area' = [area EXCEPT ![dta] = e] /\ UNCHANGED <<dta, find, began, saved>>
  BY DEF FindNext, WriteDtaEntry
<1>2. /\ dta \in DtaSegs /\ began \in BOOLEAN
      /\ find \in Seq(Entries) /\ OnceEach(find)
      /\ find_pos \in Nat /\ Len(find) \in Nat /\ find_pos <= Len(find)
  BY RunningIs
<1>3. /\ e \in left /\ e \in Entries
      /\ {find[i] : i \in find_pos + 2 .. Len(find)} = left \ {e}
  BY <1>1, <1>2, OneTaken
<1>4. {find'[i] : i \in find_pos' + 1 .. Len(find')} = left \ {e}
  <2>1. find_pos' + 1 = find_pos + 2
    BY <1>1, <1>2
  <2> QED BY <1>1, <1>3, <2>1
<1>5. Sound(Kept)'
  <2>1. find_pos' \in Nat /\ find_pos' <= Len(find)
    BY <1>1, <1>2
  <2> QED BY <1>1, <1>2, <2>1 DEF Sound, Kept, Searches, OnceEach
<1> HIDE DEF e
<1>6. SearchInv'
  <2>1. area' \in [DtaSegs -> Entries \union {Nothing}]
    BY <1>1, <1>3, AreaWritten
  <2> QED BY <1>1, <1>5, <2>1, SameSaved
<1>7. /\ Processes[Len(Processes)].dta = dta /\ Processes[Len(Processes)].began = began
      /\ Processes[Len(Processes)].left = IF began THEN left ELSE {}
  <2>1. Processes[Len(Processes)] = [dta |-> dta, left |-> Ahead, began |-> began]
    BY ProcessesAre, CurrentRuns DEF AllPrograms, CurrentProgram
  <2>2. Ahead = IF began THEN left ELSE {}
    BY DEF Ahead
  <2> HIDE DEF left
  <2> QED BY <2>1, <2>2
<1>8. CASE began
  <2>1. Advanced(left \ {e})
    <3>1. Ahead' = left \ {e}
      BY <1>1, <1>4, <1>8 DEF Ahead
    <3> HIDE DEF left
    <3> QED BY <1>1, <3>1, CurrentBegins
  <2> HIDE DEF left
  <2>2. LastAdvanced(left \ {e})
    BY <1>1, <1>6, <2>1, CurrentFields
  <2>3. Promised!FindNext
    BY <1>1, <1>3, <1>7, <1>8, <2>2
       DEF Promised!FindNext, LastAdvanced, Promised!Gives, Promised!Depth, Promised!Current, Processes
  <2> QED BY <1>6, <2>3 DEF Promised!Next
<1>9. CASE ~began
  <2>1. Program(Kept)' = Program(Kept)
    <3>1. Ahead' = Ahead
      BY <1>1, <1>9 DEF Ahead
    <3> QED BY <1>1, <3>1, CurrentRuns, CurrentRunsNext DEF CurrentProgram
  <2>2. Processes' = Processes
    BY <1>1, <1>6, <2>1, CurrentSame
  <2>3. Promised!FindNothing
    BY <1>1, <1>3, <1>7, <1>9, <2>2
       DEF Promised!FindNothing, Promised!Depth, Promised!Current, Processes
  <2> QED BY <1>6, <2>3 DEF Promised!Next
<1> QED BY <1>2, <1>8, <1>9

(* A step that changes nothing changes nothing for ProcessSearch.          *)
LEMMA SearchStands ==
  ASSUME SearchInv, UNCHANGED searchVars
  PROVE  SearchInv' /\ UNCHANGED Promised!vars
<1>1. UNCHANGED <<dta, find, find_pos, began, saved, area>>
  BY DEF searchVars
<1>2. SearchInv'
  BY <1>1 DEF SearchInv, Sound, Kept, Searches, OnceEach
<1>3. UNCHANGED Promised!vars
  BY <1>1 DEF Promised!vars, Program, Kept, Left
<1> QED BY <1>2, <1>3

(* Every step keeps the invariant and is a step of ProcessSearch.          *)
LEMMA SearchSteps == SearchInv /\ SearchNext => SearchInv' /\ [Promised!Next]_Promised!vars
<1> SUFFICES ASSUME SearchInv, SearchNext PROVE SearchInv' /\ [Promised!Next]_Promised!vars
  OBVIOUS
<1>1. CASE SetDta
  BY <1>1, SetDtaSteps
<1>2. CASE \E found \in SUBSET Entries : FindFirst(found)
  BY <1>2, FindFirstSteps
<1>3. CASE FindNext
  BY <1>3, FindNextSteps
<1>4. CASE StartProgram
  BY <1>4, StartSteps
<1>5. CASE EndProgram
  BY <1>5, EndSteps
<1>6. CASE FindLabel \/ ProgramRefused
  <2>1. UNCHANGED searchVars
    BY <1>6 DEF FindLabel, ProgramRefused, PutBack, Kept, searchVars
  <2> QED BY <2>1, SearchStands
<1> QED BY <1>1, <1>2, <1>3, <1>4, <1>5, <1>6 DEF SearchNext

(* SearchInv says all the types do.                                        *)
LEMMA SearchFields == SearchInv => SearchTypeOK
<1> SUFFICES ASSUME SearchInv PROVE SearchTypeOK
  OBVIOUS
<1>1. find_pos \in 0 .. Len(find)
  <2>1. find_pos \in Nat /\ Len(find) \in Nat /\ find_pos <= Len(find)
    BY RunningIs
  <2> QED BY <2>1
<1>2. \A i \in DOMAIN saved : saved[i].dta \in DtaSegs
  BY DEF SearchInv, Sound, Searches
<1> QED BY <1>1, <1>2, RunningIs DEF SearchTypeOK, SearchInv

(* What the runs check of the fields' types.                               *)
THEOREM SearchTypes == SearchSpec => []SearchTypeOK
<1>1. SearchInv => SearchTypeOK
  BY SearchFields
<1>2. SearchInv /\ [SearchNext]_searchVars => SearchInv'
  BY SearchSteps, SearchStands
<1> QED BY <1>1, <1>2, SearchStarts, PTL DEF SearchSpec

(* find_, find_pos_ and dta_seg_ exist once, yet each program finishes the *)
(* search it began: what exec() keeps and puts back is enough, whatever    *)
(* the child searches for, for any entries and any depth of programs.      *)
THEOREM SearchesApart == SearchSpec => SearchBelongsToProcess
<1>1. SearchInv /\ [SearchNext]_searchVars => SearchInv' /\ [Promised!Next]_Promised!vars
  BY SearchSteps, SearchStands
<1>2. SearchInit => Promised!Init
  <2> SUFFICES ASSUME SearchInit PROVE Promised!Init
    OBVIOUS
  <2>1. dta \in DtaSegs /\ saved = <<>> /\ began = FALSE
    BY DEF SearchInit, DtaSegs
  <2>2. Processes = <<Promised!Fresh(dta)>>
    <3>1. Processes \in Seq(Running) /\ Len(Processes) = 1 /\ Processes[1] = Program(Kept)
      <4>1. AllPrograms
        BY SearchStarts, ProcessesAre
      <4>2. Len(saved) = 0
        BY <2>1
      <4> QED BY <4>1, <4>2 DEF AllPrograms
    <3>2. Program(Kept) = Promised!Fresh(dta)
      BY <2>1 DEF Program, Kept, Left, Promised!Fresh
    <3> QED BY <3>1, <3>2
  <2> QED BY <2>1, <2>2 DEF Promised!Init, Processes, SearchInit
<1> QED BY <1>1, <1>2, SearchStarts, PTL DEF SearchSpec, SearchBelongsToProcess, Promised!Spec

(* A program works on its handles or on its searches, and the fields of    *)
(* both (files.h, dos.h) stay of their types through either.               *)
THEOREM FileAndSearchTypes == Spec => []TypesOK
<1>1. Init => Tidy /\ SearchInv
  BY TidyFirst, SearchStarts DEF Init
<1>2. Tidy /\ UNCHANGED filesVars => Tidy'
  BY DEF filesVars, Tidy, Uses, FilesInv, OpenOnce, NoneDangles, StreamFine, Live, OnStream, StreamOf
<1>3. Tidy /\ SearchInv /\ [Next]_<<part, filesVars, searchVars>> => Tidy' /\ SearchInv'
  <2> SUFFICES ASSUME Tidy, SearchInv, [Next]_<<part, filesVars, searchVars>>
               PROVE  Tidy' /\ SearchInv'
    OBVIOUS
  <2>1. CASE part = "handles" /\ FilesNext /\ UNCHANGED <<part, searchVars>>
    <3>1. FilesNext /\ UNCHANGED searchVars
      BY <2>1
    <3> QED BY <3>1, TidySteps, SearchStands
  <2>2. CASE part = "search" /\ SearchNext /\ UNCHANGED <<part, filesVars>>
    <3>1. SearchNext /\ UNCHANGED filesVars
      BY <2>2
    <3> QED BY <3>1, <1>2, SearchSteps
  <2>3. CASE UNCHANGED <<part, filesVars, searchVars>>
    <3>1. UNCHANGED filesVars /\ UNCHANGED searchVars
      BY <2>3
    <3> QED BY <3>1, <1>2, SearchStands
  <2> QED BY <2>1, <2>2, <2>3 DEF Next
<1>4. Tidy /\ SearchInv => TypesOK
  BY FilesFields, SearchFields DEF TypesOK
<1> QED BY <1>1, <1>3, <1>4, PTL DEF Spec
=============================================================================
