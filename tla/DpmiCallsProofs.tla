--------------------------- MODULE DpmiCallsProofs ---------------------------
(***************************************************************************)
(* Theorems about the control transfers of DpmiCalls, for a guest that     *)
(* does not re-enter the host's stacks, frees no callback it still calls   *)
(* and EXECs nothing that uses the DPMI host: whatever the numbers of      *)
(* slots, activations and programs.  What it EXECs from protected mode is  *)
(* lost (DpmiCalls!Exec), and is only followed to its end.                 *)
(***************************************************************************)
EXTENDS DpmiCalls, FiniteSetTheorems, SequenceTheorems, TLAPS

Polite == ~SharedStacks /\ ~StrayCalls /\ ~DpmiChildren

----------------------------------------------------------------------------
(* The machine's values.                                                   *)
ActSet   == [kind : Kinds, pe : BOOLEAN, ss : Stacks, sp : Nat]
SlotSet  == [saved : Machine, unwind : BOOLEAN]
FrameSet == [cpu : Machine, default : BOOLEAN, acts : Nat]
StrSet   == [at : Places, ss : Stacks, sp : Nat]

MachineSet ==
  [cpu : Machine, mem : [Stacks -> Seq(Places)], acts : Seq(ActSet),
   rm : [0 .. RmSlots - 1 -> SlotSet], depth : Nat, transferred : BOOLEAN,
   in_default : BOOLEAN, pmint : [Vectors -> NoHook .. MaxExec + 1], client : Nat,
   cb : BOOLEAN, str : StrSet, ivt : BOOLEAN, frames : Seq(FrameSet), wild : BOOLEAN]

(* A stack's cell has a value.                                             *)
Holds(cells, ss, p, v) == p \in 1 .. Len(cells[ss]) /\ cells[ss][p] = v

(* A CPU state belongs to activation k: it is in the guest's code, or at a *)
(* hook the guest went to, the guest's place in the cell it went with.     *)
AtHook(c) == c.at.code \in {"default", "stub", "stubiret", "cbentry"}
Stands(m, c, k) ==
  /\ c.pe = m.acts[k].pe /\ c.ss = m.acts[k].ss
  /\ \/ c.at = Guest(k) /\ c.sp = m.acts[k].sp
     \/ AtHook(c) /\ c.sp = m.acts[k].sp + 1 /\ Holds(m.mem, c.ss, c.sp, Guest(k))

(* A procedure's caller is saved in the slot its number names.             *)
ProcsTo(as, k) == Cardinality({i \in 1 .. k : as[i].kind = "proc"})
Saved(m, i) == m.rm[ProcsTo(m.acts, i - 1)].saved

(* How activation i was entered, and what will take it back.               *)
Programs == {"main", "lost"}
OnTop(m, i) ==
  LET a == m.acts[i]  b == m.acts[i - 1]
  IN  /\ a.kind \in {"handler21", "handler31", "isr"} /\ (a.kind = "isr" => ~a.pe)
      /\ a.pe = b.pe /\ a.ss = b.ss /\ a.sp = b.sp + 1
      /\ Holds(m.mem, a.ss, a.sp, Guest(i - 1))
Fresh(m, i, ss) == \A j \in 1 .. i - 1 : m.acts[j].ss # ss
Proc(m, i) ==
  LET a == m.acts[i]
  IN  /\ a.kind = "proc" /\ a.sp = 1 /\ Holds(m.mem, a.ss, 1, RmRet) /\ Fresh(m, i, a.ss)
      /\ Stands(m, Saved(m, i), i - 1)
Callback(m, i) ==
  LET a == m.acts[i]  b == m.acts[i - 1]
  IN  /\ a.kind = "callback" /\ a.ss = CbStack /\ a.sp = 1 /\ Holds(m.mem, a.ss, 1, CbRet)
      /\ Fresh(m, i, CbStack)
      /\ ~b.pe /\ m.str.ss = b.ss /\ m.str.sp = b.sp + 1
      /\ Holds(m.mem, b.ss, b.sp + 1, Guest(i - 1))
Child(m, i) ==
  LET a == m.acts[i]
  IN  a.kind \in Programs /\ a.sp = 0 /\ Fresh(m, i, a.ss)
Entered(m, i) == OnTop(m, i) \/ Proc(m, i) \/ Callback(m, i) \/ Child(m, i)

(* The first k activations, and the stacks they are on.                    *)
Nested(m, k) ==
  /\ m.acts[1].kind = "main"
  /\ \A i \in 2 .. k : Entered(m, i)
Stacked(m, k) ==
  /\ \A i \in 1 .. k : /\ m.acts[i].ss \in {Scratch, CbStack} \union (1 .. i)
                       /\ m.acts[i].sp <= Len(m.mem[m.acts[i].ss])
  /\ \A i, j \in 1 .. k :
       i < j /\ m.acts[i].ss = m.acts[j].ss => m.acts[i].sp < m.acts[j].sp

(* The slots in use.                                                       *)
Counted(m) ==
  /\ m.depth <= RmSlots
  /\ m.depth = ProcsTo(m.acts, Len(m.acts)) + (IF m.cpu.at = RmRet THEN 1 ELSE 0)
Marked(m) ==
  \A j \in 0 .. m.depth - 1 :
    /\ m.rm[j].saved.at.code \in {"guest", "default"}
    /\ m.rm[j].unwind <=> m.rm[j].saved.at.code = "default"

(* The suspended programs; above the first of them nobody is a client, and *)
(* all run in the mode the first child was started in.                     *)
Waiting(m, f) ==
  /\ m.frames[f].acts \in 1 .. Len(m.acts) - 1
  /\ m.acts[m.frames[f].acts + 1].kind \in Programs
  /\ Stands(m, m.frames[f].cpu, m.frames[f].acts)
  /\ m.frames[f].cpu.at.code \in {"guest", "default", "stubiret"}
  /\ m.frames[f].cpu.at.code = "stubiret" => ~m.frames[f].cpu.pe
  /\ m.frames[f].default <=> m.frames[f].cpu.at.code = "default"
  /\ f > 1 => ~m.frames[f].default
  /\ \A g \in 1 .. f - 1 : m.frames[g].acts < m.frames[f].acts
ChildMode(m) == m.acts[m.frames[1].acts + 1].pe
Suspended(m) ==
  /\ \A f \in 1 .. Len(m.frames) : Waiting(m, f)
  /\ m.frames # <<>> => \A i \in m.frames[1].acts + 1 .. Len(m.acts) :
                          m.acts[i].kind \in Programs \union {"isr"}
                            /\ m.acts[i].pe = ChildMode(m)

(* Where the CPU is.                                                       *)
CallDone(m) ==
  m.cpu.at = RmRet /\ m.depth > 0 /\ Stands(m, m.rm[m.depth - 1].saved, Len(m.acts))
CallbackDone(m) ==
  /\ m.cpu.at = CbRet
  /\ m.str.at = Guest(Len(m.acts)) /\ m.str.ss = m.acts[Len(m.acts)].ss
  /\ m.str.sp = m.acts[Len(m.acts)].sp
  /\ ~m.acts[Len(m.acts)].pe
Resting(m) ==
  /\ Stands(m, m.cpu, Len(m.acts)) \/ CallDone(m) \/ CallbackDone(m)
  /\ m.cpu.at.code = "cbentry" => m.cb /\ ~m.cpu.pe /\ Len(m.acts) < MaxActs
  /\ m.cpu.at.code \in {"cbentry", "cbret"} => Fresh(m, Len(m.acts) + 1, CbStack)
  /\ m.frames # <<>> => m.cpu.at.code \in {"guest", "stub", "stubiret"}
  /\ m.cpu.at.code \in {"stub", "stubiret"} => ~m.cpu.pe

Sized(m) ==
  m \in MachineSet /\ Len(m.acts) \in 1 .. MaxActs /\ Len(m.frames) <= MaxExec /\ ~m.wild

Body(m) ==
  /\ Sized(m)
  /\ Nested(m, Len(m.acts)) /\ Stacked(m, Len(m.acts))
  /\ Counted(m) /\ Marked(m)
  /\ Suspended(m) /\ Resting(m)

(* The host's flags: the default handler is running only under a program   *)
(* it EXECed, and then nothing has been handed to a procedure.  A child in *)
(* protected mode is one whose INT 21h no hook has taken.                  *)
Flags(m) ==
  /\ m.in_default <=> \E f \in 1 .. Len(m.frames) : m.frames[f].default
  /\ m.in_default => ~m.transferred
  /\ m.frames # <<>> /\ ChildMode(m) => m.in_default \/ m.pmint[33] = NoHook

CallsInv == Body(Now) /\ Flags(Now)

USE DEF Programs

----------------------------------------------------------------------------
(* The cells of a stack after a push.                                      *)
Put(cells, sp, p) == IF sp <= Len(cells) THEN [cells EXCEPT ![sp] = p] ELSE Append(cells, p)

(* A push writes one cell and keeps the others.                            *)
LEMMA PutCells ==
  ASSUME NEW cells \in Seq(Places), NEW sp \in 1 .. Len(cells) + 1, NEW p \in Places
  PROVE  /\ Put(cells, sp, p) \in Seq(Places)
         /\ sp <= Len(Put(cells, sp, p)) /\ Put(cells, sp, p)[sp] = p
         /\ Len(cells) <= Len(Put(cells, sp, p))
         /\ \A q \in 1 .. Len(cells) : q # sp => Put(cells, sp, p)[q] = cells[q]
<1>0. Len(cells) \in Nat
  BY LenProperties
<1>1. CASE sp <= Len(cells)
  <2>1. sp \in 1 .. Len(cells)
    BY <1>0, <1>1
  <2> QED BY <1>0, <1>1, <2>1, ExceptSeq DEF Put
<1>2. CASE ~(sp <= Len(cells))
  <2>1. sp = Len(cells) + 1
    BY <1>0, <1>2
  <2>2. Put(cells, sp, p) = Append(cells, p)
    BY <1>2 DEF Put
  <2> QED BY <1>0, <2>1, <2>2
<1> QED BY <1>1, <1>2

(* A pop keeps the cells below.                                            *)
LEMMA PoppedCells ==
  ASSUME Polite, NEW cells \in Seq(Places), NEW sp \in 1 .. Len(cells)
  PROVE  /\ Popped(cells, sp) \in Seq(Places)
         /\ Len(Popped(cells, sp)) = sp - 1
         /\ \A q \in 1 .. sp - 1 : Popped(cells, sp)[q] = cells[q]
<1>0. Len(cells) \in Nat
  BY LenProperties
<1>1. Popped(cells, sp) = SubSeq(cells, 1, sp - 1)
  BY DEF Popped, Polite
<1>2. \A i \in 1 .. sp - 1 : cells[i] \in Places
  BY <1>0, ElementOfSeq
<1>3. /\ SubSeq(cells, 1, sp - 1) \in Seq(Places)
      /\ Len(SubSeq(cells, 1, sp - 1)) = IF 1 <= sp - 1 THEN (sp - 1) - 1 + 1 ELSE 0
      /\ \A i \in 1 .. (sp - 1) - 1 + 1 : SubSeq(cells, 1, sp - 1)[i] = cells[1 + i - 1]
  BY <1>0, <1>2, SubSeqProperties
<1> QED BY <1>0, <1>1, <1>3

----------------------------------------------------------------------------
(* Places and stacks.                                                      *)
LEMMA PlaceFacts ==
  /\ MaxActs \in Nat \ {0} /\ RmSlots \in Nat \ {0} /\ MaxExec \in Nat
  /\ \A n \in 1 .. MaxActs : Guest(n) \in Places /\ Guest(n).code = "guest"
  /\ \A v \in Vectors : Default(v) \in Places /\ Default(v).code = "default"
  /\ RmRet \in Places /\ CbRet \in Places /\ CbEntry \in Places
  /\ Stub \in Places /\ StubIret \in Places
  /\ RmRet.code = "rmret" /\ CbRet.code = "cbret" /\ CbEntry.code = "cbentry"
  /\ Stub.code = "stub" /\ StubIret.code = "stubiret"
  /\ \A n, k \in Nat : Guest(n) = Guest(k) => n = k
  /\ \A p \in Places : /\ p.code = "guest" => (\E n \in 1 .. MaxActs : p = Guest(n))
                       /\ p.code = "rmret" => p = RmRet
                       /\ p.code = "cbret" => p = CbRet
  /\ Scratch \in Stacks /\ CbStack \in Stacks /\ 1 .. MaxActs \subseteq Stacks
  /\ Stacks \subseteq Int
<1>1. MaxActs \in Nat \ {0} /\ RmSlots \in Nat \ {0} /\ MaxExec \in Nat
  BY CallsAssumption
<1>2. /\ \A n, k \in Nat : Guest(n) = Guest(k) => n = k
      /\ \A n \in 1 .. MaxActs : Guest(n) \in Places /\ Guest(n).code = "guest"
  BY DEF Guest, Place, Places
<1>3. \A v \in Vectors : Default(v) \in Places /\ Default(v).code = "default"
  BY DEF Default, Place, Places
<1>4. /\ RmRet \in Places /\ CbRet \in Places /\ CbEntry \in Places
      /\ Stub \in Places /\ StubIret \in Places
      /\ RmRet.code = "rmret" /\ CbRet.code = "cbret" /\ CbEntry.code = "cbentry"
      /\ Stub.code = "stub" /\ StubIret.code = "stubiret"
  BY DEF Places, RmRet, CbRet, CbEntry, Stub, StubIret, Place
<1>5. \A p \in Places : /\ p.code = "guest" => (\E n \in 1 .. MaxActs : p = Guest(n))
                        /\ p.code = "rmret" => p = RmRet
                        /\ p.code = "cbret" => p = CbRet
  BY DEF Places, Guest, Default, RmRet, CbRet, CbEntry, Stub, StubIret, Place
<1>6. /\ Scratch \in Stacks /\ CbStack \in Stacks /\ 1 .. MaxActs \subseteq Stacks
      /\ Stacks \subseteq Int
  BY <1>1 DEF Scratch, CbStack, Stacks
<1> QED BY <1>1, <1>2, <1>3, <1>4, <1>5, <1>6

(* The fields of a machine.                                                *)
LEMMA MachineFields ==
  ASSUME NEW m \in MachineSet
  PROVE  /\ m.cpu \in Machine /\ m.cpu.pe \in BOOLEAN /\ m.cpu.at \in Places
         /\ m.cpu.ss \in Stacks /\ m.cpu.sp \in Nat
         /\ m.mem \in [Stacks -> Seq(Places)] /\ m.acts \in Seq(ActSet)
         /\ \A i \in 1 .. Len(m.acts) :
              /\ m.acts[i].kind \in Kinds /\ m.acts[i].pe \in BOOLEAN
              /\ m.acts[i].ss \in Stacks /\ m.acts[i].sp \in Nat
         /\ m.rm \in [0 .. RmSlots - 1 -> SlotSet] /\ m.depth \in Nat
         /\ m.transferred \in BOOLEAN /\ m.in_default \in BOOLEAN
         /\ m.pmint \in [Vectors -> NoHook .. MaxExec + 1] /\ m.client \in Nat
         /\ m.cb \in BOOLEAN /\ m.ivt \in BOOLEAN /\ m.wild \in BOOLEAN
         /\ m.str \in StrSet /\ m.str.at \in Places /\ m.str.ss \in Stacks /\ m.str.sp \in Nat
         /\ m.frames \in Seq(FrameSet) /\ Len(m.acts) \in Nat /\ Len(m.frames) \in Nat
<1>1. /\ m.cpu \in Machine /\ m.acts \in Seq(ActSet)
      /\ m.rm \in [0 .. RmSlots - 1 -> SlotSet] /\ m.depth \in Nat
      /\ m.transferred \in BOOLEAN /\ m.in_default \in BOOLEAN
      /\ m.pmint \in [Vectors -> NoHook .. MaxExec + 1] /\ m.client \in Nat
      /\ m.cb \in BOOLEAN /\ m.ivt \in BOOLEAN /\ m.wild \in BOOLEAN
      /\ m.str \in StrSet /\ m.frames \in Seq(FrameSet) /\ m.mem \in [Stacks -> Seq(Places)]
  BY DEF MachineSet
<1>2. m.cpu.pe \in BOOLEAN /\ m.cpu.at \in Places /\ m.cpu.ss \in Stacks /\ m.cpu.sp \in Nat
  BY <1>1 DEF Machine
<1>3. m.str.at \in Places /\ m.str.ss \in Stacks /\ m.str.sp \in Nat
  BY <1>1 DEF StrSet
<1>4. \A i \in 1 .. Len(m.acts) :
         /\ m.acts[i].kind \in Kinds /\ m.acts[i].pe \in BOOLEAN
         /\ m.acts[i].ss \in Stacks /\ m.acts[i].sp \in Nat
  <2>1. \A i \in 1 .. Len(m.acts) : m.acts[i] \in ActSet
    BY <1>1, ElementOfSeq
  <2> QED BY <2>1 DEF ActSet
<1>5. Len(m.acts) \in Nat /\ Len(m.frames) \in Nat
  BY <1>1, LenProperties
<1> QED BY <1>1, <1>2, <1>3, <1>4, <1>5

(* What a push leaves alone.                                               *)
SameHost(n, m) ==
  /\ n.depth = m.depth /\ n.transferred = m.transferred /\ n.in_default = m.in_default
  /\ n.pmint = m.pmint /\ n.client = m.client /\ n.cb = m.cb /\ n.ivt = m.ivt
  /\ n.frames = m.frames /\ n.wild = m.wild

(* n is m with p pushed.                                                   *)
Pushed(n, m, p) ==
  /\ n.cpu = [m.cpu EXCEPT !.sp = m.cpu.sp + 1]
  /\ n.mem = [m.mem EXCEPT ![m.cpu.ss] = Put(m.mem[m.cpu.ss], m.cpu.sp + 1, p)]
  /\ n.acts = m.acts /\ n.rm = m.rm /\ n.str = m.str
  /\ SameHost(n, m)

(* What a push leaves alone.                                               *)
LEMMA PushFields ==
  ASSUME NEW m \in MachineSet, NEW p \in Places, m.cpu.sp <= Len(m.mem[m.cpu.ss])
  PROVE  Push(m, p) \in MachineSet /\ Pushed(Push(m, p), m, p)
<1> DEFINE w == Put(m.mem[m.cpu.ss], m.cpu.sp + 1, p)
<1>1. Push(m, p) = [m EXCEPT !.cpu.sp = m.cpu.sp + 1, !.mem[m.cpu.ss] = w]
  BY DEF Push, Put
<1>2. w \in Seq(Places)
  <2>1. m.cpu.sp + 1 \in 1 .. Len(m.mem[m.cpu.ss]) + 1 /\ m.mem[m.cpu.ss] \in Seq(Places)
    BY MachineFields, LenProperties
  <2> QED BY <2>1, PutCells
<1> HIDE DEF w
<1>3. [m.cpu EXCEPT !.sp = m.cpu.sp + 1] \in Machine
  <2>1. m.cpu \in Machine /\ m.cpu.sp \in Nat
    BY MachineFields
  <2> QED BY <2>1 DEF Machine
<1>4. [m.mem EXCEPT ![m.cpu.ss] = w] \in [Stacks -> Seq(Places)]
  BY <1>2, MachineFields
<1>5. Push(m, p) \in MachineSet
  BY <1>1, <1>3, <1>4 DEF MachineSet
<1>6. /\ Push(m, p).cpu = [m.cpu EXCEPT !.sp = m.cpu.sp + 1]
      /\ Push(m, p).mem = [m.mem EXCEPT ![m.cpu.ss] = w]
      /\ Push(m, p).acts = m.acts /\ Push(m, p).rm = m.rm /\ Push(m, p).str = m.str
      /\ SameHost(Push(m, p), m)
  BY <1>1 DEF MachineSet, SameHost
<1> QED BY <1>5, <1>6 DEF w, Pushed

(* What a push does to the stacks.                                         *)
LEMMA PushHolds ==
  ASSUME NEW cells \in [Stacks -> Seq(Places)], NEW ss \in Stacks,
         NEW sp \in 1 .. Len(cells[ss]) + 1, NEW p \in Places,
         NEW after, after = [cells EXCEPT ![ss] = Put(cells[ss], sp, p)]
  PROVE  /\ Holds(after, ss, sp, p)
         /\ \A s \in Stacks : Len(cells[s]) <= Len(after[s])
         /\ \A s \in Stacks : \A q \in Nat : \A v :
              Holds(cells, s, q, v) /\ (s # ss \/ q # sp) => Holds(after, s, q, v)
<1> DEFINE w == Put(cells[ss], sp, p)
<1>1. /\ cells[ss] \in Seq(Places) /\ Len(cells[ss]) \in Nat
      /\ \A s \in Stacks : cells[s] \in Seq(Places) /\ Len(cells[s]) \in Nat
  BY LenProperties
<1>2. /\ w \in Seq(Places) /\ Len(w) \in Nat /\ sp <= Len(w) /\ w[sp] = p
      /\ Len(cells[ss]) <= Len(w)
      /\ \A q \in 1 .. Len(cells[ss]) : q # sp => w[q] = cells[ss][q]
  BY <1>1, PutCells, LenProperties
<1>3. after[ss] = w /\ \A s \in Stacks : s # ss => after[s] = cells[s]
  OBVIOUS
<1> HIDE DEF w
<1>4. Holds(after, ss, sp, p)
  BY <1>1, <1>2, <1>3 DEF Holds
<1>5. \A s \in Stacks : Len(cells[s]) <= Len(after[s])
  BY <1>1, <1>2, <1>3
<1>6. ASSUME NEW s \in Stacks, NEW q \in Nat, NEW v, Holds(cells, s, q, v), s # ss \/ q # sp
      PROVE  Holds(after, s, q, v)
  <2>1. CASE s # ss
    BY <1>3, <1>6, <2>1 DEF Holds
  <2>2. CASE s = ss
    BY <1>1, <1>2, <1>3, <1>6, <2>2 DEF Holds
  <2> QED BY <2>1, <2>2
<1> QED BY <1>4, <1>5, <1>6

(* A return: the place on top of the stack, one cell down.                 *)
LEMMA ReturnFields ==
  ASSUME Polite, NEW m \in MachineSet, NEW p, Holds(m.mem, m.cpu.ss, m.cpu.sp, p)
  PROVE  /\ Return(m) \in MachineSet /\ p \in Places
         /\ Return(m).cpu.at = p /\ Return(m).cpu.pe = m.cpu.pe
         /\ Return(m).cpu.ss = m.cpu.ss /\ Return(m).cpu.sp = m.cpu.sp - 1
         /\ Return(m).mem = [m.mem EXCEPT ![m.cpu.ss] = Popped(m.mem[m.cpu.ss], m.cpu.sp)]
         /\ Return(m).acts = m.acts /\ Return(m).rm = m.rm /\ Return(m).str = m.str
         /\ SameHost(Return(m), m)
<1> DEFINE w == Popped(m.mem[m.cpu.ss], m.cpu.sp)
           c == [m.cpu EXCEPT !.sp = m.cpu.sp - 1, !.at = p]
           n == [m EXCEPT !.cpu.sp = m.cpu.sp - 1, !.mem[m.cpu.ss] = w]
<1>0. /\ m.cpu \in Machine /\ m.cpu.sp \in Nat /\ m.mem[m.cpu.ss] \in Seq(Places)
      /\ m.mem \in [Stacks -> Seq(Places)] /\ m.cpu.ss \in Stacks
  BY MachineFields
<1>1. m.cpu.sp \in 1 .. Len(m.mem[m.cpu.ss]) /\ p = m.mem[m.cpu.ss][m.cpu.sp]
  BY <1>0 DEF Holds
<1>2. p \in Places
  BY <1>0, <1>1, ElementOfSeq
<1>3. w \in Seq(Places)
  BY <1>0, <1>1, PoppedCells
<1>4. Return(m) = [n EXCEPT !.cpu.at = p]
  BY <1>1 DEF Return, Go, Drop, Top
<1> HIDE DEF w
<1>5. n = [m EXCEPT !.cpu = [m.cpu EXCEPT !.sp = m.cpu.sp - 1], !.mem = [m.mem EXCEPT ![m.cpu.ss] = w]]
  BY DEF MachineSet
<1> HIDE DEF n
<1>6. Return(m) = [m EXCEPT !.cpu = c, !.mem = [m.mem EXCEPT ![m.cpu.ss] = w]]
  BY <1>4, <1>5 DEF MachineSet
<1>7. /\ c \in Machine /\ c.at = p /\ c.pe = m.cpu.pe /\ c.ss = m.cpu.ss
      /\ c.sp = m.cpu.sp - 1
  <2>1. m.cpu.sp - 1 \in Nat
    BY <1>0, <1>1, LenProperties
  <2>2. m.cpu \in Machine /\ p \in Places
    BY <1>0, <1>2
  <2> QED BY <2>1, <2>2 DEF Machine
<1> HIDE DEF c
<1>8. [m.mem EXCEPT ![m.cpu.ss] = w] \in [Stacks -> Seq(Places)]
  BY <1>0, <1>3
<1>9. /\ Return(m) \in MachineSet /\ Return(m).cpu = c
      /\ Return(m).mem = [m.mem EXCEPT ![m.cpu.ss] = w]
      /\ Return(m).acts = m.acts /\ Return(m).rm = m.rm /\ Return(m).str = m.str
      /\ SameHost(Return(m), m)
  BY <1>6, <1>7, <1>8 DEF MachineSet, SameHost
<1> QED BY <1>2, <1>7, <1>9 DEF w

(* A new activation.                                                       *)
Added(m, kind) == [kind |-> kind, pe |-> m.cpu.pe, ss |-> m.cpu.ss, sp |-> m.cpu.sp]

(* What entering guest code leaves alone.                                  *)
LEMMA EnterFields ==
  ASSUME NEW m \in MachineSet, NEW kind \in Kinds, Len(m.acts) < MaxActs
  PROVE  /\ Enter(m, kind) \in MachineSet
         /\ Enter(m, kind).cpu.at = Guest(Len(m.acts) + 1)
         /\ Enter(m, kind).cpu.pe = m.cpu.pe /\ Enter(m, kind).cpu.ss = m.cpu.ss
         /\ Enter(m, kind).cpu.sp = m.cpu.sp
         /\ Enter(m, kind).mem = m.mem
         /\ Enter(m, kind).acts = Append(m.acts, Added(m, kind))
         /\ Enter(m, kind).rm = m.rm /\ Enter(m, kind).str = m.str
         /\ SameHost(Enter(m, kind), m)
<1> DEFINE c == [m.cpu EXCEPT !.at = Guest(Len(m.acts) + 1)]
<1>0. /\ m.cpu \in Machine /\ Len(m.acts) \in Nat /\ m.acts \in Seq(ActSet)
  BY MachineFields
<1>1. Guest(Len(m.acts) + 1) \in Places
  <2>1. Len(m.acts) + 1 \in 1 .. MaxActs
    BY <1>0, PlaceFacts
  <2> QED BY <2>1, PlaceFacts
<1>2. /\ c \in Machine /\ c.at = Guest(Len(m.acts) + 1) /\ c.pe = m.cpu.pe
      /\ c.ss = m.cpu.ss /\ c.sp = m.cpu.sp
  BY <1>0, <1>1 DEF Machine
<1>3. Added(m, kind) \in ActSet
  BY <1>0 DEF Added, ActSet, Machine
<1>4. Append(m.acts, Added(m, kind)) \in Seq(ActSet)
  BY <1>0, <1>3
<1>5. Enter(m, kind) = [m EXCEPT !.acts = Append(m.acts, Added(m, kind)), !.cpu = c]
  BY DEF Enter, Go, Added, MachineSet
<1> HIDE DEF c
<1>6. /\ Enter(m, kind) \in MachineSet /\ Enter(m, kind).cpu = c
      /\ Enter(m, kind).mem = m.mem
      /\ Enter(m, kind).acts = Append(m.acts, Added(m, kind))
      /\ Enter(m, kind).rm = m.rm /\ Enter(m, kind).str = m.str
      /\ SameHost(Enter(m, kind), m)
  BY <1>2, <1>4, <1>5 DEF MachineSet, SameHost
<1> QED BY <1>2, <1>6

(* The innermost activation goes.                                          *)
LEMMA LeaveFields ==
  ASSUME NEW m \in MachineSet, Len(m.acts) > 0
  PROVE  /\ Leave(m) \in MachineSet
         /\ Leave(m).cpu = m.cpu /\ Leave(m).mem = m.mem
         /\ Len(Leave(m).acts) = Len(m.acts) - 1
         /\ \A i \in 1 .. Len(m.acts) - 1 : Leave(m).acts[i] = m.acts[i]
         /\ Leave(m).rm = m.rm /\ Leave(m).str = m.str /\ SameHost(Leave(m), m)
<1> DEFINE f == SubSeq(m.acts, 1, Len(m.acts) - 1)
<1>0. Len(m.acts) \in Nat /\ m.acts \in Seq(ActSet)
  BY MachineFields
<1>1. /\ f \in Seq(ActSet) /\ Len(f) = Len(m.acts) - 1
      /\ \A i \in 1 .. Len(m.acts) - 1 : f[i] = m.acts[i]
  <2>1. \A i \in 1 .. Len(m.acts) - 1 : m.acts[i] \in ActSet
    BY <1>0, ElementOfSeq
  <2>2. /\ f \in Seq(ActSet)
        /\ Len(f) = IF 1 <= Len(m.acts) - 1 THEN (Len(m.acts) - 1) - 1 + 1 ELSE 0
        /\ \A i \in 1 .. (Len(m.acts) - 1) - 1 + 1 : f[i] = m.acts[1 + i - 1]
    BY <1>0, <2>1, SubSeqProperties
  <2> HIDE DEF f
  <2> QED BY <1>0, <2>2
<1>2. Leave(m) = [m EXCEPT !.acts = f]
  BY DEF Leave, Front
<1> HIDE DEF f
<1> QED BY <1>1, <1>2 DEF MachineSet, SameHost

----------------------------------------------------------------------------
(* Counting the procedures that are out.                                   *)
LEMMA ProcsSame ==
  ASSUME NEW as, NEW bs, NEW k \in Nat, \A i \in 1 .. k : as[i].kind = bs[i].kind
  PROVE  ProcsTo(as, k) = ProcsTo(bs, k)
<1>1. {i \in 1 .. k : as[i].kind = "proc"} = {i \in 1 .. k : bs[i].kind = "proc"}
  OBVIOUS
<1> QED BY <1>1 DEF ProcsTo

(* Counting the procedures one activation further.                         *)
LEMMA ProcsStep ==
  ASSUME NEW as, NEW k \in Nat
  PROVE  /\ ProcsTo(as, k) \in Nat
         /\ as[k + 1].kind = "proc" => ProcsTo(as, k + 1) = ProcsTo(as, k) + 1
         /\ as[k + 1].kind # "proc" => ProcsTo(as, k + 1) = ProcsTo(as, k)
<1> DEFINE S == {i \in 1 .. k : as[i].kind = "proc"}
           T == {i \in 1 .. k + 1 : as[i].kind = "proc"}
<1>1. IsFiniteSet(S)
  <2>1. IsFiniteSet(1 .. k)
    BY FS_Interval
  <2> QED BY <2>1, FS_Subset
<1>2. Cardinality(S) \in Nat
  BY <1>1, FS_CardinalityType
<1>3. CASE as[k + 1].kind = "proc"
  <2>1. T = S \cup {k + 1} /\ k + 1 \notin S
    <3>1. \A x : x \in 1 .. k + 1 <=> x \in 1 .. k \/ x = k + 1
      OBVIOUS
    <3>2. k + 1 \notin 1 .. k
      OBVIOUS
    <3> QED BY <1>3, <3>1, <3>2
  <2>2. Cardinality(S \cup {k + 1}) = Cardinality(S) + 1
    BY <1>1, <2>1, FS_AddElement
  <2> QED BY <1>2, <1>3, <2>1, <2>2 DEF ProcsTo
<1>4. CASE ~(as[k + 1].kind = "proc")
  <2>1. T = S
    <3>1. \A x : x \in 1 .. k + 1 <=> x \in 1 .. k \/ x = k + 1
      OBVIOUS
    <3> QED BY <1>4, <3>1
  <2>2. ProcsTo(as, k + 1) = Cardinality(S)
    BY <2>1 DEF ProcsTo
  <2> QED BY <1>2, <1>4, <2>2 DEF ProcsTo
<1> QED BY <1>3, <1>4

(* Counting them when an activation is added.                              *)
LEMMA ProcsGrown ==
  ASSUME NEW as \in Seq(ActSet), NEW bs \in Seq(ActSet), Len(bs) = Len(as) + 1,
         \A i \in 1 .. Len(as) : bs[i] = as[i]
  PROVE  /\ bs[Len(bs)].kind = "proc" => ProcsTo(bs, Len(bs)) = ProcsTo(as, Len(as)) + 1
         /\ bs[Len(bs)].kind # "proc" => ProcsTo(bs, Len(bs)) = ProcsTo(as, Len(as))
<1> DEFINE k == Len(as)
<1>0. k \in Nat
  BY LenProperties
<1>1. \A i \in 1 .. k : bs[i].kind = as[i].kind
  OBVIOUS
<1> HIDE DEF k
<1>2. ProcsTo(bs, k) = ProcsTo(as, k)
  BY <1>0, <1>1, ProcsSame
<1>3. /\ bs[k + 1].kind = "proc" => ProcsTo(bs, k + 1) = ProcsTo(bs, k) + 1
      /\ bs[k + 1].kind # "proc" => ProcsTo(bs, k + 1) = ProcsTo(bs, k)
  BY <1>0, ProcsStep
<1>4. Len(bs) = k + 1
  BY DEF k
<1>5. /\ bs[k + 1].kind = "proc" => ProcsTo(bs, k + 1) = ProcsTo(as, k) + 1
      /\ bs[k + 1].kind # "proc" => ProcsTo(bs, k + 1) = ProcsTo(as, k)
  BY <1>2, <1>3
<1> QED BY <1>4, <1>5 DEF k

(* More activations hold no fewer procedures.                              *)
LEMMA ProcsMore ==
  ASSUME NEW as, NEW j \in Nat, NEW k \in Nat, j <= k
  PROVE  ProcsTo(as, j) \in Nat /\ ProcsTo(as, k) \in Nat /\ ProcsTo(as, j) <= ProcsTo(as, k)
<1> DEFINE S == {i \in 1 .. j : as[i].kind = "proc"}
           T == {i \in 1 .. k : as[i].kind = "proc"}
<1>1. IsFiniteSet(T)
  <2>1. IsFiniteSet(1 .. k)
    BY FS_Interval
  <2> QED BY <2>1, FS_Subset
<1>2. S \in SUBSET T
  <2>1. 1 .. j \subseteq 1 .. k
    OBVIOUS
  <2> QED BY <2>1
<1>3. Cardinality(S) <= Cardinality(T)
  BY <1>1, <1>2, FS_Subset
<1>4. ProcsTo(as, j) \in Nat /\ ProcsTo(as, k) \in Nat
  BY ProcsStep
<1> QED BY <1>3, <1>4 DEF ProcsTo

(* The cells the first k activations stand on, with above = 1 also the one *)
(* the k-th left on its stack when it went to a hook.                      *)
CellsKept(as, cells, after, k, above) ==
  \A i \in 1 .. k : \A q \in Nat : \A v :
    /\ q <= as[i].sp + (IF i < k THEN 1 ELSE above)
    /\ Holds(cells, as[i].ss, q, v)
    => Holds(after, as[i].ss, q, v)

(* n has m's first k activations, with everything that they need.          *)
Kept(m, n, k, above) ==
  /\ \A i \in 1 .. k : n.acts[i] = m.acts[i]
  /\ CellsKept(m.acts, m.mem, n.mem, k, above)
  /\ \A j \in 0 .. ProcsTo(m.acts, k) - 1 : n.rm[j] = m.rm[j]
  /\ (\E i \in 1 .. k : m.acts[i].kind = "callback") => n.str.ss = m.str.ss /\ n.str.sp = m.str.sp

(* Where a CPU state stands, it still stands in a machine that kept what   *)
(* is under it.                                                            *)
LEMMA StandsKept ==
  ASSUME NEW m \in MachineSet, NEW n \in MachineSet, NEW k \in 1 .. Len(m.acts),
         NEW above \in {0, 1}, Kept(m, n, k, above),
         NEW c \in Machine, NEW j \in 1 .. k, j < k \/ above = 1, Stands(m, c, j)
  PROVE  Stands(n, c, j)
<1>1. n.acts[j] = m.acts[j]
  BY DEF Kept, CellsKept
<1>2. CASE c.at = Guest(j) /\ c.sp = m.acts[j].sp
  BY <1>1, <1>2 DEF Stands
<1>3. CASE AtHook(c) /\ c.sp = m.acts[j].sp + 1 /\ Holds(m.mem, c.ss, c.sp, Guest(j))
  <2>0. k \in Nat /\ m.acts[j].sp \in Nat
    BY MachineFields
  <2>1. c.sp \in Nat /\ c.ss = m.acts[j].ss
    BY DEF Machine, Stands
  <2>2. c.sp <= m.acts[j].sp + (IF j < k THEN 1 ELSE above)
    BY <1>3, <2>0
  <2>3. Holds(n.mem, c.ss, c.sp, Guest(j))
    BY <1>3, <2>1, <2>2 DEF Kept, CellsKept
  <2> QED BY <1>1, <1>3, <2>3 DEF Stands
<1> QED BY <1>2, <1>3 DEF Stands

(* And an activation is still entered as it was.                           *)
LEMMA EnteredKept ==
  ASSUME NEW m \in MachineSet, NEW n \in MachineSet, NEW k \in 1 .. Len(m.acts),
         NEW above \in {0, 1}, Kept(m, n, k, above),
         NEW i \in 2 .. k, Entered(m, i), ProcsTo(m.acts, k) <= RmSlots
  PROVE  Entered(n, i)
<1>0. /\ i \in Nat /\ i - 1 \in Nat /\ k \in Nat /\ i - 1 \in 1 .. k /\ i \in 1 .. k /\ i - 1 < k
      /\ m.acts[i].sp \in Nat /\ m.acts[i - 1].sp \in Nat
  <2>1. Len(m.acts) \in Nat /\ \A j \in 1 .. Len(m.acts) : m.acts[j].sp \in Nat
    BY MachineFields
  <2>2. /\ i \in Nat /\ i - 1 \in Nat /\ k \in Nat /\ i - 1 \in 1 .. k /\ i \in 1 .. k /\ i - 1 < k
        /\ i \in 1 .. Len(m.acts) /\ i - 1 \in 1 .. Len(m.acts)
    BY <2>1
  <2> QED BY <2>1, <2>2
<1>1. n.acts[i] = m.acts[i] /\ n.acts[i - 1] = m.acts[i - 1]
  BY <1>0 DEF Kept, CellsKept
<1>2. \A j \in 1 .. i - 1 : n.acts[j] = m.acts[j]
  BY <1>0 DEF Kept, CellsKept
<1>3. \A q \in Nat : \A v : q <= m.acts[i].sp /\ Holds(m.mem, m.acts[i].ss, q, v)
                              => Holds(n.mem, m.acts[i].ss, q, v)
  <2>1. ASSUME NEW q \in Nat, NEW v, q <= m.acts[i].sp, Holds(m.mem, m.acts[i].ss, q, v)
        PROVE  Holds(n.mem, m.acts[i].ss, q, v)
    <3>1. q <= m.acts[i].sp + (IF i < k THEN 1 ELSE above)
      BY <1>0, <2>1
    <3> QED BY <1>0, <2>1, <3>1 DEF Kept, CellsKept
  <2> QED BY <2>1
<1>4. \A q \in Nat : \A v : q <= m.acts[i - 1].sp + 1 /\ Holds(m.mem, m.acts[i - 1].ss, q, v)
                              => Holds(n.mem, m.acts[i - 1].ss, q, v)
  BY <1>0 DEF Kept, CellsKept
<1>5. \A ss : Fresh(m, i, ss) => Fresh(n, i, ss)
  BY <1>2 DEF Fresh
<1>6. CASE OnTop(m, i)
  <2>1. Holds(n.mem, m.acts[i].ss, m.acts[i].sp, Guest(i - 1))
    BY <1>0, <1>3, <1>6 DEF OnTop
  <2> QED BY <1>1, <1>6, <2>1 DEF OnTop, Entered
<1>7. CASE Proc(m, i)
  <2>1. Holds(n.mem, m.acts[i].ss, 1, RmRet)
    BY <1>0, <1>3, <1>7 DEF Proc
  <2>2. ProcsTo(n.acts, i - 1) = ProcsTo(m.acts, i - 1)
    BY <1>0, <1>2, ProcsSame
  <2>3. ProcsTo(m.acts, i) = ProcsTo(m.acts, i - 1) + 1 /\ ProcsTo(m.acts, i - 1) \in Nat
    <3>1. i = (i - 1) + 1
      BY <1>0
    <3>2. m.acts[i].kind = "proc"
      BY <1>7 DEF Proc
    <3> QED BY <1>0, <3>1, <3>2, ProcsStep
  <2>4. ProcsTo(m.acts, i) <= ProcsTo(m.acts, k) /\ ProcsTo(m.acts, k) \in Nat
    BY <1>0, ProcsMore
  <2>5. ProcsTo(m.acts, i - 1) \in 0 .. ProcsTo(m.acts, k) - 1
    BY <2>3, <2>4
  <2>6. Saved(n, i) = Saved(m, i)
    BY <2>2, <2>5 DEF Kept, CellsKept, Saved
  <2>7. Saved(m, i) \in Machine
    <3>1. ProcsTo(m.acts, i - 1) \in 0 .. RmSlots - 1
      BY <2>3, <2>4, PlaceFacts
    <3>2. m.rm[ProcsTo(m.acts, i - 1)] \in SlotSet
      BY <3>1, MachineFields
    <3> QED BY <3>2 DEF Saved, SlotSet
  <2>8. Stands(n, Saved(m, i), i - 1)
    BY <1>0, <1>7, <2>7, StandsKept DEF Proc
  <2> QED BY <1>1, <1>5, <1>7, <2>1, <2>6, <2>8 DEF Proc, Entered
<1>8. CASE Callback(m, i)
  <2>1. n.str.ss = m.str.ss /\ n.str.sp = m.str.sp
    BY <1>0, <1>8 DEF Kept, CellsKept, Callback
  <2>2. Holds(n.mem, m.acts[i].ss, 1, CbRet)
    BY <1>0, <1>3, <1>8 DEF Callback
  <2>3. Holds(n.mem, m.acts[i - 1].ss, m.acts[i - 1].sp + 1, Guest(i - 1))
    BY <1>0, <1>4, <1>8 DEF Callback
  <2> QED BY <1>1, <1>5, <1>8, <2>1, <2>2, <2>3 DEF Callback, Entered
<1>9. CASE Child(m, i)
  BY <1>1, <1>5, <1>9 DEF Child, Entered
<1> QED BY <1>6, <1>7, <1>8, <1>9 DEF Entered

(* So the whole nesting is.                                                *)
LEMMA BaseKept ==
  ASSUME NEW m \in MachineSet, NEW n \in MachineSet, NEW k \in 1 .. Len(m.acts),
         NEW above \in {0, 1}, Kept(m, n, k, above), ProcsTo(m.acts, k) <= RmSlots,
         Nested(m, k), Stacked(m, k)
  PROVE  Nested(n, k) /\ Stacked(n, k)
<1>0. k \in Nat /\ Len(m.acts) \in Nat /\ 1 \in 1 .. k
  BY MachineFields
<1>1. \A i \in 1 .. k : n.acts[i] = m.acts[i]
  BY DEF Kept, CellsKept
<1>2. Nested(n, k)
  <2>1. n.acts[1].kind = "main"
    BY <1>0, <1>1 DEF Nested
  <2>2. \A i \in 2 .. k : Entered(n, i)
    BY EnteredKept DEF Nested
  <2> QED BY <2>1, <2>2 DEF Nested
<1>3. ASSUME NEW i \in 1 .. k
      PROVE  m.acts[i].sp <= Len(n.mem[m.acts[i].ss])
  <2>0. /\ m.acts[i].sp \in Nat /\ m.acts[i].ss \in Stacks /\ i \in Nat
        /\ m.mem[m.acts[i].ss] \in Seq(Places) /\ n.mem[m.acts[i].ss] \in Seq(Places)
    BY <1>0, MachineFields
  <2>1. Len(m.mem[m.acts[i].ss]) \in Nat /\ Len(n.mem[m.acts[i].ss]) \in Nat
    BY <2>0, LenProperties
  <2>2. CASE m.acts[i].sp = 0
    BY <2>1, <2>2
  <2>3. CASE m.acts[i].sp # 0
    <3>1. Holds(m.mem, m.acts[i].ss, m.acts[i].sp, m.mem[m.acts[i].ss][m.acts[i].sp])
      BY <2>0, <2>1, <2>3 DEF Holds, Stacked
    <3>2. m.acts[i].sp <= m.acts[i].sp + (IF i < k THEN 1 ELSE above)
      BY <2>0, <1>0
    <3>3. Holds(n.mem, m.acts[i].ss, m.acts[i].sp, m.mem[m.acts[i].ss][m.acts[i].sp])
      BY <2>0, <3>1, <3>2 DEF Kept, CellsKept
    <3> QED BY <2>1, <3>3 DEF Holds
  <2> QED BY <2>2, <2>3
<1>4. Stacked(n, k)
  BY <1>1, <1>3 DEF Stacked
<1> QED BY <1>2, <1>4

(* And a suspended program still waits.                                    *)
LEMMA WaitingKept ==
  ASSUME NEW m \in MachineSet, NEW n \in MachineSet, NEW k \in 1 .. Len(m.acts),
         Kept(m, n, k, 0), k <= Len(n.acts),
         NEW f \in 1 .. Len(m.frames), Waiting(m, f), m.frames[f].acts < k,
         \A g \in 1 .. f : n.frames[g] = m.frames[g]
  PROVE  Waiting(n, f)
<1>0. /\ m.frames[f] \in FrameSet /\ f \in Nat /\ k \in Nat /\ f \in 1 .. f
      /\ Len(n.acts) \in Nat /\ Len(m.acts) \in Nat
  BY MachineFields, ElementOfSeq
<1>1. m.frames[f].acts \in 1 .. k /\ m.frames[f].cpu \in Machine /\ n.frames[f] = m.frames[f]
      /\ m.frames[f].acts \in Nat
  BY <1>0 DEF Waiting, FrameSet
<1>2. Stands(n, m.frames[f].cpu, m.frames[f].acts)
  BY <1>1, StandsKept DEF Waiting
<1>3. m.frames[f].acts \in 1 .. Len(n.acts) - 1
  BY <1>0, <1>1
<1>4. m.frames[f].acts + 1 \in 1 .. k
  BY <1>0, <1>1
<1>5. n.acts[m.frames[f].acts + 1].kind \in Programs
  BY <1>4 DEF Kept, CellsKept, Waiting
<1>6. \A g \in 1 .. f - 1 : n.frames[g].acts < n.frames[f].acts
  <2>1. \A g \in 1 .. f - 1 : g \in 1 .. f
    BY <1>0
  <2> QED BY <1>1, <2>1 DEF Waiting
<1> QED BY <1>1, <1>2, <1>3, <1>5, <1>6 DEF Waiting

(* The programs that wait still do.                                        *)
LEMMA SuspendedKept ==
  ASSUME NEW m \in MachineSet, NEW n \in MachineSet, NEW k \in 1 .. Len(m.acts),
         Kept(m, n, k, 0), Suspended(m), n.frames = m.frames, k <= Len(n.acts),
         \A f \in 1 .. Len(m.frames) : m.frames[f].acts < k,
         m.frames # <<>> => \A i \in k + 1 .. Len(n.acts) :
                              n.acts[i].kind \in Programs \union {"isr"}
                                /\ n.acts[i].pe = ChildMode(m)
  PROVE  Suspended(n) /\ (m.frames # <<>> => ChildMode(n) = ChildMode(m))
<1>0. k \in Nat /\ Len(n.acts) \in Nat
  BY MachineFields
<1>1. \A f \in 1 .. Len(m.frames) : Waiting(n, f)
  BY WaitingKept DEF Suspended
<1>2. ASSUME m.frames # <<>>
      PROVE  ChildMode(n) = ChildMode(m)
  <2>0. 1 \in 1 .. Len(m.frames)
    BY <1>2, MachineFields, EmptySeq
  <2>1. m.frames[1].acts \in 1 .. Len(m.acts) - 1 /\ m.frames[1].acts < k
    BY <2>0 DEF Suspended, Waiting
  <2>2. m.frames[1].acts + 1 \in 1 .. k
    BY <1>0, <2>1
  <2> QED BY <2>2 DEF ChildMode, Kept, CellsKept
<1>3. ASSUME m.frames # <<>>, NEW i \in m.frames[1].acts + 1 .. Len(n.acts)
      PROVE  n.acts[i].kind \in Programs \union {"isr"} /\ n.acts[i].pe = ChildMode(m)
  <2>0. 1 \in 1 .. Len(m.frames) /\ m.frames \in Seq(FrameSet)
    BY <1>3, MachineFields, EmptySeq
  <2>1. m.frames[1].acts \in 1 .. Len(m.acts) - 1 /\ m.frames[1].acts \in Nat
    BY <2>0, MachineFields DEF Suspended, Waiting
  <2>2. i \in Nat /\ m.frames[1].acts < i /\ Len(m.acts) \in Nat
    BY <1>0, <2>1, MachineFields
  <2>3. CASE i <= k
    <3>1. i \in 1 .. k /\ i \in m.frames[1].acts + 1 .. Len(m.acts)
      BY <1>0, <2>1, <2>2, <2>3
    <3> QED BY <1>3, <3>1 DEF Kept, CellsKept, Suspended
  <2>4. CASE ~(i <= k)
    <3>1. i \in k + 1 .. Len(n.acts)
      BY <1>0, <2>2, <2>4
    <3> QED BY <1>3, <3>1
  <2> QED BY <2>3, <2>4
<1> QED BY <1>1, <1>2, <1>3 DEF Suspended

----------------------------------------------------------------------------
(* The stacks under a push, a pop, and a change of a stack nobody is on.   *)
LEMMA CellsPushed ==
  ASSUME NEW m \in MachineSet, NEW k \in 1 .. Len(m.acts), Stacked(m, k), NEW p \in Places,
         NEW after,
         after = [m.mem EXCEPT ![m.acts[k].ss] =
                    Put(m.mem[m.acts[k].ss], m.acts[k].sp + 1, p)]
  PROVE  /\ CellsKept(m.acts, m.mem, after, k, 0)
         /\ Holds(after, m.acts[k].ss, m.acts[k].sp + 1, p)
         /\ \A s \in Stacks : Len(m.mem[s]) <= Len(after[s])
<1> DEFINE ss == m.acts[k].ss  sp == m.acts[k].sp
<1>0. /\ k \in Nat /\ ss \in Stacks /\ sp \in Nat /\ m.mem \in [Stacks -> Seq(Places)]
      /\ k \in 1 .. k
  BY MachineFields
<1>1. \A i \in 1 .. k : m.acts[i].ss \in Stacks /\ m.acts[i].sp \in Nat
  <2>1. \A i \in 1 .. k : i \in 1 .. Len(m.acts)
    BY MachineFields
  <2> QED BY <2>1, MachineFields
<1>2. sp + 1 \in 1 .. Len(m.mem[ss]) + 1
  <2>1. sp <= Len(m.mem[ss])
    BY <1>0 DEF Stacked
  <2>2. Len(m.mem[ss]) \in Nat
    BY <1>0, LenProperties
  <2> QED BY <1>0, <2>1, <2>2
<1>3. /\ Holds(after, ss, sp + 1, p)
      /\ \A s \in Stacks : Len(m.mem[s]) <= Len(after[s])
      /\ \A s \in Stacks : \A q \in Nat : \A v :
           Holds(m.mem, s, q, v) /\ (s # ss \/ q # sp + 1) => Holds(after, s, q, v)
  <2>1. /\ m.mem \in [Stacks -> Seq(Places)] /\ ss \in Stacks
        /\ sp + 1 \in 1 .. Len(m.mem[ss]) + 1
        /\ after = [m.mem EXCEPT ![ss] = Put(m.mem[ss], sp + 1, p)]
    BY <1>0, <1>2
  <2> HIDE DEF ss, sp
  <2> QED BY <2>1, PushHolds
<1>4. ASSUME NEW i \in 1 .. k, NEW q \in Nat, NEW v,
             q <= m.acts[i].sp + (IF i < k THEN 1 ELSE 0), Holds(m.mem, m.acts[i].ss, q, v)
      PROVE  Holds(after, m.acts[i].ss, q, v)
  <2>1. m.acts[i].ss # ss \/ q # sp + 1
    <3>1. CASE i = k
      BY <1>0, <1>4, <3>1
    <3>2. CASE i < k /\ m.acts[i].ss = ss
      <4>1. m.acts[i].sp < sp
        BY <1>0, <3>2 DEF Stacked
      <4> QED BY <1>0, <1>1, <1>4, <3>2, <4>1
    <3> QED BY <1>0, <3>1, <3>2
  <2> QED BY <1>1, <1>3, <1>4, <2>1
<1> HIDE DEF ss, sp
<1>5. CellsKept(m.acts, m.mem, after, k, 0)
  BY <1>4 DEF CellsKept
<1> QED BY <1>3, <1>5 DEF ss, sp

(* Popping the cell above an activation keeps the cells it stands on.      *)
LEMMA CellsPopped ==
  ASSUME Polite, NEW m \in MachineSet, NEW k \in 1 .. Len(m.acts), Stacked(m, k),
         NEW cells \in [Stacks -> Seq(Places)],
         NEW sp, sp = m.acts[k].sp + 1, sp <= Len(cells[m.acts[k].ss]),
         NEW after, after = [cells EXCEPT ![m.acts[k].ss] = Popped(cells[m.acts[k].ss], sp)]
  PROVE  CellsKept(m.acts, cells, after, k, 0)
<1> DEFINE ss == m.acts[k].ss
<1>0. k \in Nat /\ ss \in Stacks /\ m.acts[k].sp \in Nat /\ sp \in Nat /\ k \in 1 .. k
  BY MachineFields
<1>1. \A i \in 1 .. k : m.acts[i].ss \in Stacks /\ m.acts[i].sp \in Nat
  <2>1. \A i \in 1 .. k : i \in 1 .. Len(m.acts)
    BY MachineFields
  <2> QED BY <2>1, MachineFields
<1>2. sp \in 1 .. Len(cells[ss])
  <2>1. Len(cells[ss]) \in Nat
    BY <1>0, LenProperties
  <2> QED BY <1>0, <2>1
<1> DEFINE w == Popped(cells[ss], sp)
<1>3. /\ cells[ss] \in Seq(Places) /\ after[ss] = w
      /\ \A s \in Stacks : s # ss => after[s] = cells[s]
  BY <1>0
<1>4. /\ Len(w) = sp - 1
      /\ \A q \in 1 .. sp - 1 : w[q] = cells[ss][q]
  BY <1>2, <1>3, PoppedCells
<1> HIDE DEF w
<1>5. ASSUME NEW i \in 1 .. k, NEW q \in Nat, NEW v,
             q <= m.acts[i].sp + (IF i < k THEN 1 ELSE 0), Holds(cells, m.acts[i].ss, q, v)
      PROVE  Holds(after, m.acts[i].ss, q, v)
  <2>1. CASE m.acts[i].ss # ss
    BY <1>1, <1>3, <1>5, <2>1 DEF Holds
  <2>2. CASE m.acts[i].ss = ss
    <3>1. q < sp
      <4>1. CASE i = k
        BY <1>0, <1>5, <4>1
      <4>2. CASE i < k
        <5>1. m.acts[i].sp < m.acts[k].sp
          BY <1>0, <2>2, <4>2 DEF Stacked
        <5> QED BY <1>0, <1>1, <1>5, <4>2, <5>1
      <4> QED BY <1>0, <4>1, <4>2
    <3>2. q \in 1 .. Len(cells[ss]) /\ cells[ss][q] = v
      BY <1>5, <2>2 DEF Holds
    <3>3. q \in 1 .. sp - 1
      BY <1>0, <1>2, <3>1, <3>2
    <3> QED BY <1>3, <1>4, <2>2, <3>2, <3>3 DEF Holds
  <2> QED BY <2>1, <2>2
<1> QED BY <1>5 DEF CellsKept

(* So does any change on a stack that none of them is on.                  *)
LEMMA CellsElsewhere ==
  ASSUME NEW as, NEW k, NEW ss,
         \A i \in 1 .. k : as[i].ss \in Stacks /\ as[i].ss # ss,
         NEW cells, NEW after, \A s \in Stacks : s # ss => after[s] = cells[s], NEW above
  PROVE  CellsKept(as, cells, after, k, above)
BY DEF CellsKept, Holds

(* One activation more, or fewer.                                          *)
LEMMA OneMore ==
  ASSUME NEW n \in MachineSet, NEW k \in 1 .. Len(n.acts) - 1,
         Nested(n, k), Stacked(n, k), Entered(n, k + 1),
         n.acts[k + 1].ss \in {Scratch, CbStack} \union (1 .. k + 1),
         n.acts[k + 1].sp <= Len(n.mem[n.acts[k + 1].ss]),
         \A i \in 1 .. k : n.acts[i].ss = n.acts[k + 1].ss => n.acts[i].sp < n.acts[k + 1].sp
  PROVE  Nested(n, k + 1) /\ Stacked(n, k + 1)
<1>0. k \in Nat /\ \A i \in 1 .. k + 1 : i \in 1 .. k \/ i = k + 1
  BY MachineFields
<1>1. \A i \in 2 .. k + 1 : i \in 2 .. k \/ i = k + 1
  BY <1>0
<1>2. Nested(n, k + 1)
  BY <1>1 DEF Nested
<1>3. ASSUME NEW i \in 1 .. k + 1, NEW j \in 1 .. k + 1, i < j, n.acts[i].ss = n.acts[j].ss
      PROVE  n.acts[i].sp < n.acts[j].sp
  <2>1. i \in 1 .. k
    BY <1>0, <1>3
  <2>2. CASE j = k + 1
    BY <1>3, <2>1, <2>2
  <2>3. CASE j \in 1 .. k
    BY <1>3, <2>1, <2>3 DEF Stacked
  <2> QED BY <1>0, <2>2, <2>3
<1>4. Stacked(n, k + 1)
  BY <1>0, <1>3 DEF Stacked
<1> QED BY <1>2, <1>4

(* The outer activations are nested by themselves.                         *)
LEMMA Fewer ==
  ASSUME NEW m, NEW k \in Nat, NEW j \in 1 .. k, Nested(m, k), Stacked(m, k)
  PROVE  Nested(m, j) /\ Stacked(m, j)
<1>1. \A i \in 1 .. j : i \in 1 .. k
  OBVIOUS
<1>2. \A i \in 2 .. j : i \in 2 .. k
  OBVIOUS
<1> QED BY <1>1, <1>2 DEF Nested, Stacked

(* Where the CPU is when it runs guest code, and when it is at a hook the  *)
(* guest went to.                                                          *)
LEMMA InGuestCode ==
  ASSUME NEW m, Body(m), m.cpu.at.code = "guest"
  PROVE  /\ m.cpu.at = Guest(Len(m.acts))
         /\ m.cpu.pe = m.acts[Len(m.acts)].pe /\ m.cpu.ss = m.acts[Len(m.acts)].ss
         /\ m.cpu.sp = m.acts[Len(m.acts)].sp
         /\ m.depth = ProcsTo(m.acts, Len(m.acts))
<1>1. m.cpu.at # RmRet /\ m.cpu.at # CbRet /\ ~AtHook(m.cpu)
  BY PlaceFacts DEF AtHook
<1>2. Stands(m, m.cpu, Len(m.acts))
  BY <1>1 DEF Body, Resting, CallDone, CallbackDone
<1>3. m \in MachineSet /\ Len(m.acts) \in Nat
  BY MachineFields DEF Body, Sized
<1>4. ProcsTo(m.acts, Len(m.acts)) \in Nat
  BY <1>3, ProcsStep
<1> QED BY <1>1, <1>2, <1>4 DEF Stands, Body, Counted

(* At a hook the guest went to, its place is the cell at SP.               *)
LEMMA AtGuestHook ==
  ASSUME NEW m, Body(m), AtHook(m.cpu)
  PROVE  /\ Holds(m.mem, m.cpu.ss, m.cpu.sp, Guest(Len(m.acts)))
         /\ m.cpu.pe = m.acts[Len(m.acts)].pe /\ m.cpu.ss = m.acts[Len(m.acts)].ss
         /\ m.cpu.sp = m.acts[Len(m.acts)].sp + 1
         /\ m.depth = ProcsTo(m.acts, Len(m.acts))
<1>0. m \in MachineSet /\ Len(m.acts) \in Nat /\ Len(m.acts) \in 1 .. MaxActs
  BY MachineFields DEF Body, Sized
<1>1. m.cpu.at # RmRet /\ m.cpu.at # CbRet /\ m.cpu.at # Guest(Len(m.acts))
  BY <1>0, PlaceFacts DEF AtHook
<1>2. Stands(m, m.cpu, Len(m.acts))
  BY <1>1 DEF Body, Resting, CallDone, CallbackDone
<1>4. ProcsTo(m.acts, Len(m.acts)) \in Nat
  BY <1>0, ProcsStep
<1> QED BY <1>1, <1>2, <1>4 DEF Stands, Body, Counted

----------------------------------------------------------------------------
(* Facts about a good machine that every step below needs.                 *)
LEMMA BodyFacts ==
  ASSUME NEW m, Body(m)
  PROVE  /\ m \in MachineSet /\ Len(m.acts) \in Nat /\ Len(m.acts) \in 1 .. MaxActs
         /\ Len(m.acts) \in 1 .. Len(m.acts) /\ MaxActs \in Nat
         /\ ProcsTo(m.acts, Len(m.acts)) \in Nat /\ ProcsTo(m.acts, Len(m.acts)) <= RmSlots
         /\ ProcsTo(m.acts, Len(m.acts)) <= m.depth
         /\ Nested(m, Len(m.acts)) /\ Stacked(m, Len(m.acts))
         /\ m.depth \in Nat /\ m.depth <= RmSlots /\ RmSlots \in Nat
         /\ \A f \in 1 .. Len(m.frames) : /\ m.frames[f].acts \in Nat
                                          /\ m.frames[f].acts < Len(m.acts)
<1>1. m \in MachineSet /\ Len(m.acts) \in 1 .. MaxActs
  BY DEF Body, Sized
<1>2. /\ Len(m.acts) \in Nat /\ MaxActs \in Nat /\ RmSlots \in Nat /\ m.depth \in Nat
  BY <1>1, MachineFields, PlaceFacts
<1>3. ProcsTo(m.acts, Len(m.acts)) \in Nat
  BY <1>2, ProcsStep
<1>4. m.depth <= RmSlots /\ ProcsTo(m.acts, Len(m.acts)) <= m.depth
  BY <1>2, <1>3 DEF Body, Counted
<1>5. \A f \in 1 .. Len(m.frames) : /\ m.frames[f].acts \in Nat
                                    /\ m.frames[f].acts < Len(m.acts)
  BY <1>2 DEF Body, Suspended, Waiting
<1>6. Nested(m, Len(m.acts)) /\ Stacked(m, Len(m.acts))
  BY DEF Body
<1>7. Len(m.acts) \in 1 .. Len(m.acts) /\ ProcsTo(m.acts, Len(m.acts)) <= RmSlots
  BY <1>1, <1>2, <1>3, <1>4
<1> QED BY <1>1, <1>2, <1>3, <1>4, <1>5, <1>6, <1>7

(* While a program waits, the innermost activation is in the child's mode. *)
LEMMA InChild ==
  ASSUME NEW m, Body(m), m.frames # <<>>
  PROVE  /\ 1 \in 1 .. Len(m.frames) /\ m.frames[1].acts + 1 \in 1 .. Len(m.acts)
         /\ m.acts[Len(m.acts)].kind \in Programs \union {"isr"}
         /\ m.acts[Len(m.acts)].pe = ChildMode(m)
<1>1. 1 \in 1 .. Len(m.frames)
  BY BodyFacts, MachineFields, EmptySeq
<1>2. m.frames[1].acts \in 1 .. Len(m.acts) - 1 /\ Len(m.acts) \in Nat
  BY <1>1, BodyFacts DEF Body, Suspended, Waiting
<1>3. Len(m.acts) \in m.frames[1].acts + 1 .. Len(m.acts)
  BY <1>2
<1>4. m.frames[1].acts + 1 \in 1 .. Len(m.acts)
  BY <1>2
<1> QED BY <1>1, <1>3, <1>4 DEF Body, Suspended

(* An activation is added to those there are.                              *)
LEMMA Grown ==
  ASSUME NEW m, Body(m), Len(m.acts) < MaxActs,
         NEW n \in MachineSet, NEW a, n.acts = Append(m.acts, a),
         NEW above \in {0, 1}, Kept(m, n, Len(m.acts), above),
         Entered(n, Len(m.acts) + 1),
         a.ss \in {Scratch, CbStack} \union (1 .. Len(m.acts) + 1),
         a.sp <= Len(n.mem[a.ss]),
         \A i \in 1 .. Len(m.acts) : m.acts[i].ss = a.ss => m.acts[i].sp < a.sp
  PROVE  /\ Nested(n, Len(n.acts)) /\ Stacked(n, Len(n.acts))
         /\ Len(n.acts) = Len(m.acts) + 1 /\ Len(n.acts) \in 1 .. MaxActs
<1> DEFINE r == Len(m.acts)
<1>0. /\ m \in MachineSet /\ r \in 1 .. r /\ r \in Nat /\ r \in 1 .. MaxActs /\ MaxActs \in Nat
      /\ ProcsTo(m.acts, r) <= RmSlots /\ Nested(m, r) /\ Stacked(m, r)
      /\ m.acts \in Seq(ActSet)
  BY BodyFacts, MachineFields
<1>1. Len(n.acts) = r + 1 /\ n.acts[r + 1] = a /\ \A i \in 1 .. r : n.acts[i] = m.acts[i]
  BY <1>0
<1> HIDE DEF r
<1>2. Nested(n, r) /\ Stacked(n, r)
  BY <1>0, BaseKept DEF r
<1>3. r \in 1 .. Len(n.acts) - 1
  BY <1>0, <1>1
<1>4. /\ Entered(n, r + 1) /\ n.acts[r + 1].ss \in {Scratch, CbStack} \union (1 .. r + 1)
      /\ n.acts[r + 1].sp <= Len(n.mem[n.acts[r + 1].ss])
      /\ \A i \in 1 .. r : n.acts[i].ss = n.acts[r + 1].ss => n.acts[i].sp < n.acts[r + 1].sp
  BY <1>1 DEF r
<1>5. Nested(n, r + 1) /\ Stacked(n, r + 1)
  BY <1>2, <1>3, <1>4, OneMore
<1>6. Len(n.acts) \in 1 .. MaxActs
  BY <1>0, <1>1 DEF r
<1> QED BY <1>1, <1>5, <1>6 DEF r

(* A hook, or an ISR, is entered: the guest's place is on its stack.       *)
LEMMA EnterKeeps ==
  ASSUME NEW m, Body(m), m.cpu.at.code = "guest", Len(m.acts) < MaxActs,
         NEW kind \in {"handler21", "handler31", "isr"}, m.frames # <<>> => kind = "isr",
         kind = "isr" => ~m.cpu.pe,
         NEW n \in MachineSet,
         n.mem = [m.mem EXCEPT ![m.cpu.ss] = Put(m.mem[m.cpu.ss], m.cpu.sp + 1, m.cpu.at)],
         NEW a, n.acts = Append(m.acts, a),
         a.kind = kind, a.pe = m.cpu.pe, a.ss = m.cpu.ss, a.sp = m.cpu.sp + 1,
         n.cpu.at = Guest(Len(m.acts) + 1), n.cpu.pe = m.cpu.pe, n.cpu.ss = m.cpu.ss,
         n.cpu.sp = m.cpu.sp + 1,
         n.rm = m.rm, n.str = m.str, SameHost(n, m)
  PROVE  Body(n)
<1> DEFINE r == Len(m.acts)
<1>0. /\ m \in MachineSet /\ r \in 1 .. r /\ r \in Nat /\ r \in 1 .. MaxActs /\ MaxActs \in Nat
      /\ Nested(m, r) /\ Stacked(m, r) /\ m.acts \in Seq(ActSet)
      /\ m.acts[r].ss \in Stacks /\ m.acts[r].sp \in Nat /\ m.frames \in Seq(FrameSet)
  BY BodyFacts, MachineFields
<1>1. Len(n.acts) = r + 1 /\ n.acts[r + 1] = a /\ \A i \in 1 .. r : n.acts[i] = m.acts[i]
  BY <1>0
<1>2. /\ m.cpu.at = Guest(r) /\ m.cpu.pe = m.acts[r].pe /\ m.cpu.ss = m.acts[r].ss
      /\ m.cpu.sp = m.acts[r].sp /\ m.depth = ProcsTo(m.acts, r)
  BY InGuestCode
<1>3. m.cpu.at \in Places
  BY <1>0, MachineFields
<1> HIDE DEF r
<1>4. /\ CellsKept(m.acts, m.mem, n.mem, r, 0)
      /\ Holds(n.mem, m.acts[r].ss, m.acts[r].sp + 1, Guest(r))
  BY <1>0, <1>2, <1>3, CellsPushed DEF r
<1>5. Kept(m, n, r, 0)
  BY <1>1, <1>4 DEF Kept
<1>6. Entered(n, r + 1)
  <2>1. (r + 1) - 1 = r
    BY <1>0
  <2>2. n.acts[r] = m.acts[r]
    BY <1>0, <1>1
  <2> QED BY <1>1, <1>2, <1>4, <2>1, <2>2 DEF Entered, OnTop
<1>7. /\ a.ss \in {Scratch, CbStack} \union (1 .. r + 1)
      /\ a.sp <= Len(n.mem[a.ss])
      /\ \A i \in 1 .. r : m.acts[i].ss = a.ss => m.acts[i].sp < a.sp
  <2>1. m.acts[r].ss \in {Scratch, CbStack} \union (1 .. r)
    BY <1>0 DEF Stacked
  <2>2. \A i \in 1 .. r : m.acts[i].sp \in Nat
    BY <1>0, MachineFields DEF r
  <2>3. ASSUME NEW i \in 1 .. r, m.acts[i].ss = a.ss
        PROVE  m.acts[i].sp < a.sp
    <3>1. CASE i = r
      BY <1>0, <1>2, <3>1
    <3>2. CASE i < r
      <4>1. m.acts[i].sp < m.acts[r].sp
        BY <1>0, <1>2, <2>3, <3>2 DEF Stacked
      <4> QED BY <1>0, <1>2, <2>2, <4>1
    <3> QED BY <1>0, <3>1, <3>2
  <2>4. a.sp <= Len(n.mem[a.ss])
    <3>1. a.sp \in 1 .. Len(n.mem[a.ss])
      BY <1>2, <1>4 DEF Holds
    <3> QED BY <3>1
  <2> QED BY <1>0, <1>2, <2>1, <2>3, <2>4
<1>8. /\ Nested(n, Len(n.acts)) /\ Stacked(n, Len(n.acts)) /\ Len(n.acts) \in 1 .. MaxActs
  BY <1>5, <1>6, <1>7, Grown DEF r
<1>9. Sized(n)
  BY <1>8 DEF Sized, Body, SameHost
<1>10. Counted(n) /\ Marked(n)
  <2>1. n.cpu.at # RmRet /\ m.cpu.at # RmRet
    BY <1>2, PlaceFacts, <1>0 DEF Guest, Place, RmRet
  <2>2. ProcsTo(n.acts, Len(n.acts)) = ProcsTo(m.acts, r)
    <3>1. n.acts[Len(n.acts)].kind # "proc"
      BY <1>1
    <3>2. /\ m.acts \in Seq(ActSet) /\ n.acts \in Seq(ActSet) /\ Len(n.acts) = Len(m.acts) + 1
          /\ \A i \in 1 .. Len(m.acts) : n.acts[i] = m.acts[i]
      BY <1>0, <1>1, MachineFields DEF r
    <3> QED BY <3>1, <3>2, ProcsGrown DEF r
  <2>4. n.depth = m.depth /\ m.depth <= RmSlots /\ n.depth \in Nat
    BY BodyFacts DEF SameHost
  <2>5. n.depth = ProcsTo(n.acts, Len(n.acts)) + (IF n.cpu.at = RmRet THEN 1 ELSE 0)
    BY <1>1, <1>2, <2>1, <2>2, <2>4
  <2> QED BY <2>4, <2>5 DEF Counted, Marked, Body
<1>11. Suspended(n)
  <2>1. \A f \in 1 .. Len(m.frames) : m.frames[f].acts < r
    BY BodyFacts DEF r
  <2>2. m.frames # <<>> => \A i \in r + 1 .. Len(n.acts) :
                              n.acts[i].kind \in Programs \union {"isr"}
                                /\ n.acts[i].pe = ChildMode(m)
    <3>1. \A i \in r + 1 .. Len(n.acts) : i = r + 1
      BY <1>0, <1>1
    <3>2. m.frames # <<>> => a.pe = ChildMode(m)
      BY <1>2, InChild DEF r
    <3> QED BY <1>1, <3>1, <3>2
  <2>3. r <= Len(n.acts) /\ n.frames = m.frames /\ Suspended(m)
    BY <1>0, <1>1 DEF SameHost, Body
  <2>4. r \in 1 .. Len(m.acts)
    BY <1>0 DEF r
  <2> QED BY <1>0, <1>5, <2>1, <2>2, <2>3, <2>4, SuspendedKept
<1>12. Resting(n)
  <2>1. Stands(n, n.cpu, Len(n.acts))
    BY <1>1 DEF Stands, r
  <2>2. n.cpu.at.code = "guest"
    BY DEF Guest, Place
  <2> QED BY <2>1, <2>2 DEF Resting
<1> QED BY <1>8, <1>9, <1>10, <1>11, <1>12 DEF Body

(* p is the first value on stack ss.                                       *)
Started(after, cells, ss, p) == after = [cells EXCEPT ![ss] = Put(cells[ss], 1, p)]

(* Nobody's stack: the cells of all activations stay, and a new one there  *)
(* is above none of them.                                                  *)
LEMMA FreshStack ==
  ASSUME NEW m, Body(m), NEW ss \in Stacks, Fresh(m, Len(m.acts) + 1, ss), NEW p \in Places,
         NEW after, Started(after, m.mem, ss, p)
  PROVE  /\ CellsKept(m.acts, m.mem, after, Len(m.acts), 1)
         /\ Holds(after, ss, 1, p) /\ 1 <= Len(after[ss])
         /\ \A i \in 1 .. Len(m.acts) : m.acts[i].ss # ss
<1>0. /\ m \in MachineSet /\ Len(m.acts) \in 0 .. Len(m.acts) /\ Len(m.acts) \in Nat
      /\ m.mem \in [Stacks -> Seq(Places)]
      /\ after = [m.mem EXCEPT ![ss] = Put(m.mem[ss], 1, p)]
  BY BodyFacts, MachineFields DEF Started
<1>1. \A i \in 1 .. Len(m.acts) : m.acts[i].ss # ss
  <2>1. (Len(m.acts) + 1) - 1 = Len(m.acts)
    BY <1>0
  <2> QED BY <2>1 DEF Fresh
<1>2. CellsKept(m.acts, m.mem, after, Len(m.acts), 1)
  <2>1. \A i \in 1 .. Len(m.acts) : m.acts[i].ss \in Stacks /\ m.acts[i].ss # ss
    BY <1>0, <1>1, MachineFields
  <2>2. \A s \in Stacks : s # ss => after[s] = m.mem[s]
    BY <1>0
  <2> QED BY <2>1, <2>2, CellsElsewhere
<1>3. /\ m.mem[ss] \in Seq(Places) /\ Len(m.mem[ss]) \in Nat /\ 1 \in 1 .. Len(m.mem[ss]) + 1
  BY <1>0, LenProperties
<1>4. /\ Put(m.mem[ss], 1, p) \in Seq(Places) /\ 1 <= Len(Put(m.mem[ss], 1, p))
      /\ Put(m.mem[ss], 1, p)[1] = p
  BY <1>3, PutCells
<1>5. after[ss] = Put(m.mem[ss], 1, p) /\ Len(Put(m.mem[ss], 1, p)) \in Nat
  BY <1>0, <1>4, LenProperties
<1> QED BY <1>1, <1>2, <1>4, <1>5 DEF Holds

(* A real-mode procedure starts.                                           *)
LEMMA CalledKeeps ==
  ASSUME NEW m, Body(m), m.cpu.at.code \in {"guest", "default"}, m.frames = <<>>,
         Len(m.acts) < MaxActs, m.depth < RmSlots,
         NEW ss \in {Scratch, Len(m.acts) + 1}, Fresh(m, Len(m.acts) + 1, ss),
         NEW n \in MachineSet,
         n.mem = [m.mem EXCEPT ![ss] = Put(m.mem[ss], 1, RmRet)],
         NEW a, n.acts = Append(m.acts, a), a.kind = "proc", ~a.pe, a.ss = ss, a.sp = 1,
         n.cpu.at = Guest(Len(m.acts) + 1), ~n.cpu.pe, n.cpu.ss = ss, n.cpu.sp = 1,
         NEW d \in BOOLEAN, d <=> m.cpu.at.code = "default",
         n.rm = [m.rm EXCEPT ![m.depth] = [saved |-> m.cpu, unwind |-> d]],
         n.depth = m.depth + 1, n.str = m.str, n.frames = m.frames, n.wild = m.wild
  PROVE  Body(n)
<1> DEFINE r == Len(m.acts)
<1>0. /\ m \in MachineSet /\ r \in 1 .. r /\ r \in Nat /\ r \in 1 .. MaxActs /\ MaxActs \in Nat
      /\ m.acts \in Seq(ActSet) /\ RmSlots \in Nat /\ m.depth \in Nat
      /\ m.rm \in [0 .. RmSlots - 1 -> SlotSet] /\ m.cpu \in Machine
  BY BodyFacts, MachineFields
<1>1. Len(n.acts) = r + 1 /\ n.acts[r + 1] = a /\ \A i \in 1 .. r : n.acts[i] = m.acts[i]
  BY <1>0
<1>2. Stands(m, m.cpu, r) /\ m.depth = ProcsTo(m.acts, r)
  <2>1. CASE m.cpu.at.code = "guest"
    BY <2>1, InGuestCode DEF Stands
  <2>2. CASE m.cpu.at.code = "default"
    <3>1. AtHook(m.cpu)
      BY <2>2 DEF AtHook
    <3> QED BY <3>1, AtGuestHook DEF Stands
  <2> QED BY <2>1, <2>2
<1>3. ss \in Stacks /\ ss \in {Scratch, CbStack} \union (1 .. r + 1)
  <2>1. r + 1 \in 1 .. MaxActs /\ r + 1 \in 1 .. r + 1
    BY <1>0
  <2> QED BY <2>1, PlaceFacts
<1>4. /\ CellsKept(m.acts, m.mem, n.mem, r, 1)
      /\ Holds(n.mem, ss, 1, RmRet) /\ 1 <= Len(n.mem[ss])
      /\ \A i \in 1 .. r : m.acts[i].ss # ss
  <2>1. RmRet \in Places
    BY PlaceFacts
  <2>2. Started(n.mem, m.mem, ss, RmRet)
    BY DEF Started
  <2> QED BY <1>3, <2>1, <2>2, FreshStack
<1> HIDE DEF r
<1>5. n.rm[m.depth].saved = m.cpu /\ (n.rm[m.depth].unwind <=> m.cpu.at.code = "default")
  <2>1. m.depth \in 0 .. RmSlots - 1
    BY <1>0
  <2>2. n.rm[m.depth] = [saved |-> m.cpu, unwind |-> d]
    BY <1>0, <2>1
  <2> QED BY <2>2
<1>6. \A j \in 0 .. m.depth - 1 : n.rm[j] = m.rm[j]
  BY <1>0
<1>7. Kept(m, n, r, 1)
  <2>1. \A j \in 0 .. ProcsTo(m.acts, r) - 1 : n.rm[j] = m.rm[j]
    BY <1>2, <1>6
  <2> QED BY <1>1, <1>4, <2>1 DEF Kept
<1>8. Entered(n, r + 1)
  <2>1. (r + 1) - 1 = r /\ \A i \in 1 .. r : n.acts[i].ss # ss
    BY <1>0, <1>1, <1>4
  <2>2. ProcsTo(n.acts, r) = m.depth
    <3>1. r \in Nat /\ \A i \in 1 .. r : n.acts[i].kind = m.acts[i].kind
      BY <1>0, <1>1
    <3>2. {i \in 1 .. r : n.acts[i].kind = "proc"} = {i \in 1 .. r : m.acts[i].kind = "proc"}
      BY <3>1
    <3> QED BY <1>2, <3>2 DEF ProcsTo
  <2>3. Saved(n, r + 1) = m.cpu
    BY <1>5, <2>1, <2>2 DEF Saved
  <2>4. Stands(n, m.cpu, r)
    BY <1>0, <1>2, <1>7, StandsKept DEF r
  <2> QED BY <1>1, <1>4, <2>1, <2>3, <2>4 DEF Entered, Proc, Fresh
<1>9. /\ Nested(n, Len(n.acts)) /\ Stacked(n, Len(n.acts)) /\ Len(n.acts) \in 1 .. MaxActs
  <2>1. /\ a.ss \in {Scratch, CbStack} \union (1 .. r + 1) /\ a.sp <= Len(n.mem[a.ss])
        /\ \A i \in 1 .. r : m.acts[i].ss = a.ss => m.acts[i].sp < a.sp
    BY <1>3, <1>4
  <2> QED BY <1>7, <1>8, <2>1, Grown DEF r
<1>10. Sized(n)
  BY <1>9 DEF Sized, Body
<1>11. Counted(n)
  <2>1. n.cpu.at # RmRet
    BY <1>0, PlaceFacts DEF Guest, Place, RmRet
  <2>2. ProcsTo(n.acts, Len(n.acts)) = ProcsTo(m.acts, r) + 1
    <3>1. n.acts[Len(n.acts)].kind = "proc"
      BY <1>1
    <3>2. /\ m.acts \in Seq(ActSet) /\ n.acts \in Seq(ActSet) /\ Len(n.acts) = Len(m.acts) + 1
          /\ \A i \in 1 .. Len(m.acts) : n.acts[i] = m.acts[i]
      BY <1>0, <1>1, MachineFields DEF r
    <3> QED BY <3>1, <3>2, ProcsGrown DEF r
  <2> QED BY <1>0, <1>2, <2>1, <2>2 DEF Counted
<1>12. Marked(n)
  <2>1. ASSUME NEW j \in 0 .. n.depth - 1
        PROVE  /\ n.rm[j].saved.at.code \in {"guest", "default"}
               /\ n.rm[j].unwind <=> n.rm[j].saved.at.code = "default"
    <3>1. CASE j = m.depth
      BY <1>5, <3>1
    <3>2. CASE j # m.depth
      <4>1. j \in 0 .. m.depth - 1
        BY <1>0, <3>2
      <4> QED BY <1>6, <4>1 DEF Body, Marked
    <3> QED BY <3>1, <3>2
  <2> QED BY <2>1 DEF Marked
<1>13. Suspended(n)
  <2>1. Len(n.frames) = 0
    OBVIOUS
  <2> QED BY <2>1 DEF Suspended
<1>14. Resting(n)
  <2>1. Stands(n, n.cpu, Len(n.acts))
    <3>1. n.cpu.pe \in BOOLEAN /\ a.pe \in BOOLEAN
      <4>1. r + 1 \in 1 .. Len(n.acts)
        BY <1>0, <1>1
      <4> QED BY <1>1, <4>1, MachineFields
    <3> QED BY <1>1, <3>1 DEF Stands, r
  <2>2. n.cpu.at.code = "guest"
    BY DEF Guest, Place
  <2> QED BY <2>1, <2>2 DEF Resting
<1> QED BY <1>9, <1>10, <1>11, <1>12, <1>13, <1>14 DEF Body

(* An activation that is not a procedure does not change the count, and    *)
(* guest code that starts runs where it was entered.                       *)
LEMMA SameCount ==
  ASSUME NEW m, Body(m), NEW n \in MachineSet, NEW a, n.acts = Append(m.acts, a),
         a.kind # "proc", n.depth = m.depth, m.cpu.at # RmRet, n.cpu.at # RmRet
  PROVE  Counted(n)
<1>0. m \in MachineSet /\ m.acts \in Seq(ActSet) /\ n.acts \in Seq(ActSet) /\ Len(m.acts) \in Nat
  BY BodyFacts, MachineFields
<1>1. /\ Len(n.acts) = Len(m.acts) + 1 /\ n.acts[Len(n.acts)] = a
      /\ \A i \in 1 .. Len(m.acts) : n.acts[i] = m.acts[i]
  BY <1>0
<1>2. n.acts[Len(n.acts)].kind # "proc"
  BY <1>1
<1>3. ProcsTo(n.acts, Len(n.acts)) = ProcsTo(m.acts, Len(m.acts))
  BY <1>0, <1>1, <1>2, ProcsGrown
<1>4. n.depth = ProcsTo(m.acts, Len(m.acts)) /\ n.depth <= RmSlots /\ n.depth \in Nat
  BY BodyFacts DEF Body, Counted
<1> QED BY <1>3, <1>4 DEF Counted

(* Guest code that was just entered, or resumed, is at rest.               *)
LEMMA TopRests ==
  ASSUME NEW n \in MachineSet, n.cpu.at = Guest(Len(n.acts)),
         n.cpu.pe = n.acts[Len(n.acts)].pe, n.cpu.ss = n.acts[Len(n.acts)].ss,
         n.cpu.sp = n.acts[Len(n.acts)].sp
  PROVE  Resting(n)
<1>1. Stands(n, n.cpu, Len(n.acts))
  BY DEF Stands
<1>2. n.cpu.at.code = "guest"
  BY DEF Guest, Place
<1> QED BY <1>1, <1>2 DEF Resting

(* EXEC: the caller waits and a program starts on a stack of its own, in   *)
(* the mode of the programs that wait.                                     *)
LEMMA ExecKeeps ==
  ASSUME NEW m, Body(m), m.cpu.at.code \in {"guest", "default", "stubiret"},
         Len(m.acts) < MaxActs, Len(m.frames) < MaxExec,
         NEW n \in MachineSet, n.mem = m.mem,
         NEW a, n.acts = Append(m.acts, a), a.kind \in Programs, n.cpu.pe = a.pe,
         m.frames # <<>> => a.pe = ChildMode(m),
         a.ss = Len(m.acts) + 1, a.sp = 0,
         n.cpu.at = Guest(Len(m.acts) + 1), n.cpu.ss = a.ss, n.cpu.sp = 0,
         NEW f \in FrameSet, n.frames = Append(m.frames, f),
         f.cpu = m.cpu, f.acts = Len(m.acts), f.default <=> m.cpu.at.code = "default",
         n.rm = m.rm, n.depth = m.depth, n.str = m.str, n.wild = m.wild
  PROVE  Body(n) /\ ChildMode(n) = (IF m.frames = <<>> THEN a.pe ELSE ChildMode(m))
<1> DEFINE r == Len(m.acts)  g == Len(m.frames)
<1>0. /\ m \in MachineSet /\ r \in 1 .. r /\ r \in Nat /\ r \in 1 .. MaxActs /\ MaxActs \in Nat
      /\ m.acts \in Seq(ActSet) /\ m.frames \in Seq(FrameSet) /\ g \in Nat /\ m.cpu \in Machine
      /\ MaxExec \in Nat
  BY BodyFacts, MachineFields, PlaceFacts
<1>1. Len(n.acts) = r + 1 /\ n.acts[r + 1] = a /\ \A i \in 1 .. r : n.acts[i] = m.acts[i]
  BY <1>0
<1>2. Stands(m, m.cpu, r) /\ m.depth = ProcsTo(m.acts, r)
  <2>1. CASE m.cpu.at.code = "guest"
    BY <2>1, InGuestCode DEF Stands
  <2>2. CASE m.cpu.at.code \in {"default", "stubiret"}
    <3>1. AtHook(m.cpu)
      BY <2>2 DEF AtHook
    <3> QED BY <3>1, AtGuestHook DEF Stands
  <2> QED BY <2>1, <2>2
<1>3. Len(n.frames) = g + 1 /\ n.frames[g + 1] = f /\ \A i \in 1 .. g : n.frames[i] = m.frames[i]
  BY <1>0
<1>4. \A i \in 1 .. r : m.acts[i].ss # r + 1
  <2>1. \A i \in 1 .. r : m.acts[i].ss \in {Scratch, CbStack} \union (1 .. i)
    BY BodyFacts DEF Stacked
  <2>2. r + 1 # Scratch /\ r + 1 # CbStack
    BY <1>0 DEF Scratch, CbStack
  <2> HIDE DEF r
  <2>3. \A i \in 1 .. r : \A j \in 1 .. i : j # r + 1
    BY <1>0
  <2> QED BY <2>1, <2>2, <2>3
<1> HIDE DEF r, g
<1>5. Kept(m, n, r, 1) /\ Kept(m, n, r, 0)
  BY <1>1 DEF Kept, CellsKept
<1>6. Entered(n, r + 1)
  <2>1. \A i \in 1 .. (r + 1) - 1 : i \in 1 .. r
    BY <1>0
  <2>2. \A i \in 1 .. (r + 1) - 1 : n.acts[i].ss # r + 1
    BY <1>1, <1>4, <2>1
  <2> QED BY <1>1, <2>2 DEF Entered, Child, Fresh, r
<1>7. /\ Nested(n, Len(n.acts)) /\ Stacked(n, Len(n.acts)) /\ Len(n.acts) \in 1 .. MaxActs
  <2>1. /\ a.ss \in {Scratch, CbStack} \union (1 .. r + 1) /\ a.sp <= Len(n.mem[a.ss])
        /\ \A i \in 1 .. r : m.acts[i].ss = a.ss => m.acts[i].sp < a.sp
    <3>1. r + 1 \in 1 .. r + 1 /\ r + 1 \in 1 .. MaxActs
      BY <1>0 DEF r
    <3>2. n.mem[a.ss] \in Seq(Places)
      BY <3>1, MachineFields, PlaceFacts DEF r
    <3>3. Len(n.mem[a.ss]) \in Nat
      BY <3>2, LenProperties
    <3> QED BY <1>4, <3>1, <3>3 DEF r
  <2> QED BY <1>5, <1>6, <2>1, Grown DEF r
<1>8. Sized(n)
  <2>1. Len(n.frames) <= MaxExec
    BY <1>0, <1>3 DEF g
  <2> QED BY <1>7, <2>1 DEF Sized, Body
<1>9. Counted(n) /\ Marked(n)
  <2>1. m.cpu.at # RmRet /\ n.cpu.at # RmRet
    BY PlaceFacts DEF Guest, Place, RmRet
  <2>2. Counted(n)
    BY <2>1, SameCount
  <2> QED BY <2>2 DEF Marked, Body
<1>10. \A i \in 1 .. g : Waiting(n, i)
  <2>1. ASSUME NEW i \in 1 .. g PROVE Waiting(n, i)
    <3>1. \A j \in 1 .. i : n.frames[j] = m.frames[j]
      BY <1>0, <1>3
    <3>2. m.frames[i].acts < r /\ Waiting(m, i)
      BY BodyFacts DEF r, g, Body, Suspended
    <3>3. r \in 1 .. Len(m.acts) /\ r <= Len(n.acts) /\ i \in 1 .. Len(m.frames)
      BY <1>0, <1>1 DEF r, g
    <3> QED BY <1>0, <1>5, <3>1, <3>2, <3>3, WaitingKept
  <2> QED BY <2>1
<1>11. Waiting(n, g + 1)
  <2>1. Stands(n, m.cpu, r)
    BY <1>0, <1>2, <1>5, StandsKept DEF r
  <2>2. r \in 1 .. Len(n.acts) - 1
    BY <1>0, <1>1
  <2>3. g + 1 > 1 => ~f.default
    <3>1. CASE m.frames = <<>>
      BY <1>0, <3>1 DEF g
    <3>2. CASE m.frames # <<>>
      <4>1. m.cpu.at.code \in {"guest", "stub", "stubiret"}
        BY <3>2 DEF Body, Resting
      <4> QED BY <4>1
    <3> QED BY <3>1, <3>2
  <2>4. \A i \in 1 .. (g + 1) - 1 : n.frames[i].acts < r
    <3>1. \A i \in 1 .. (g + 1) - 1 : i \in 1 .. g
      BY <1>0
    <3>2. \A i \in 1 .. g : m.frames[i].acts < r
      BY BodyFacts DEF r, g
    <3> QED BY <1>3, <3>1, <3>2
  <2>5. m.cpu.at.code = "stubiret" => ~m.cpu.pe
    BY DEF Body, Resting
  <2>6. n.acts[r + 1].kind \in Programs
    BY <1>1
  <2> QED BY <1>1, <1>3, <2>1, <2>2, <2>3, <2>4, <2>5, <2>6 DEF Waiting, r
<1>12. ChildMode(n) = IF m.frames = <<>> THEN a.pe ELSE ChildMode(m)
  <2>1. CASE m.frames = <<>>
    <3>1. n.frames[1] = f
      BY <1>0, <1>3, <2>1 DEF g
    <3> QED BY <1>1, <2>1, <3>1 DEF ChildMode, r
  <2>2. CASE m.frames # <<>>
    <3>1. 1 \in 1 .. g
      BY <1>0, <2>2, EmptySeq DEF g
    <3>2. m.frames[1].acts \in 1 .. Len(m.acts) - 1
      BY <3>1 DEF Body, Suspended, Waiting, g
    <3>3. m.frames[1].acts + 1 \in 1 .. r
      BY <2>2, InChild DEF r
    <3> QED BY <1>1, <1>3, <2>2, <3>1, <3>3 DEF ChildMode
  <2> QED BY <2>1, <2>2
<1>13. Suspended(n)
  <2>1. \A i \in 1 .. Len(n.frames) : Waiting(n, i)
    BY <1>0, <1>3, <1>10, <1>11
  <2>2. ASSUME NEW i \in n.frames[1].acts + 1 .. Len(n.acts)
        PROVE  n.acts[i].kind \in Programs \union {"isr"} /\ n.acts[i].pe = ChildMode(n)
    <3>1. CASE i = r + 1
      BY <1>1, <1>12, <3>1
    <3>2. CASE i # r + 1
      <4>1. 1 \in 1 .. Len(n.frames)
        BY <1>0, <1>3
      <4>2. n.frames[1].acts \in Nat /\ i \in Nat
        BY <2>1, <4>1 DEF Waiting
      <4>3. n.frames[1].acts < i /\ i <= r
        <5>1. i \in n.frames[1].acts + 1 .. r + 1
          BY <1>1
        <5>2. r \in Nat
          BY <1>0
        <5> HIDE DEF r
        <5> QED BY <3>2, <4>2, <5>1, <5>2
      <4>4. g # 0
        <5>1. n.frames[1].acts # r
          BY <1>0, <4>2, <4>3
        <5> QED BY <1>3, <5>1 DEF r
      <4>5. 1 \in 1 .. g /\ n.frames[1] = m.frames[1] /\ m.frames # <<>>
        BY <1>0, <1>3, <4>4 DEF g
      <4>6. i \in m.frames[1].acts + 1 .. Len(m.acts) /\ i \in 1 .. r
        BY <1>0, <4>2, <4>3, <4>5 DEF r
      <4> QED BY <1>1, <1>12, <4>5, <4>6 DEF Body, Suspended
    <3> QED BY <3>1, <3>2
  <2> QED BY <2>1, <2>2 DEF Suspended
<1>14. Resting(n)
  BY <1>1, TopRests DEF r
<1> QED BY <1>7, <1>8, <1>9, <1>12, <1>13, <1>14 DEF Body

(* A callback's procedure starts, in protected mode on the host's stack.   *)
LEMMA CalledBackKeeps ==
  ASSUME NEW m, Body(m), m.cpu.at.code = "cbentry", Len(m.acts) < MaxActs,
         NEW n \in MachineSet,
         n.mem = [m.mem EXCEPT ![CbStack] = Put(m.mem[CbStack], 1, CbRet)],
         NEW a, n.acts = Append(m.acts, a), a.kind = "callback", a.pe, a.ss = CbStack, a.sp = 1,
         n.cpu.at = Guest(Len(m.acts) + 1), n.cpu.pe, n.cpu.ss = CbStack, n.cpu.sp = 1,
         n.str.ss = m.cpu.ss, n.str.sp = m.cpu.sp,
         n.rm = m.rm, n.depth = m.depth, n.frames = m.frames, n.wild = m.wild
  PROVE  Body(n)
<1> DEFINE r == Len(m.acts)
<1>0. /\ m \in MachineSet /\ r \in 1 .. r /\ r \in Nat /\ r \in 1 .. MaxActs /\ MaxActs \in Nat
      /\ m.acts \in Seq(ActSet) /\ m.frames \in Seq(FrameSet) /\ Nested(m, r)
  BY BodyFacts, MachineFields
<1>1. Len(n.acts) = r + 1 /\ n.acts[r + 1] = a /\ \A i \in 1 .. r : n.acts[i] = m.acts[i]
  BY <1>0
<1>2. /\ Holds(m.mem, m.cpu.ss, m.cpu.sp, Guest(r)) /\ m.cpu.pe = m.acts[r].pe
      /\ m.cpu.ss = m.acts[r].ss /\ m.cpu.sp = m.acts[r].sp + 1
  <2>1. AtHook(m.cpu)
    BY DEF AtHook
  <2> QED BY <2>1, AtGuestHook
<1>3. Fresh(m, r + 1, CbStack) /\ ~m.cpu.pe /\ m.frames = <<>>
  BY DEF Body, Resting
<1>4. /\ CellsKept(m.acts, m.mem, n.mem, r, 1)
      /\ Holds(n.mem, CbStack, 1, CbRet) /\ 1 <= Len(n.mem[CbStack])
      /\ \A i \in 1 .. r : m.acts[i].ss # CbStack
  <2>1. CbRet \in Places /\ CbStack \in Stacks
    BY PlaceFacts
  <2>2. Started(n.mem, m.mem, CbStack, CbRet)
    BY DEF Started
  <2> QED BY <1>3, <2>1, <2>2, FreshStack
<1> HIDE DEF r
<1>5. Kept(m, n, r, 1)
  <2>1. ASSUME NEW i \in 1 .. r, m.acts[i].kind = "callback" PROVE FALSE
    <3>1. i # 1
      BY <1>0, <2>1 DEF Nested
    <3>2. Entered(m, i)
      BY <1>0, <3>1 DEF Nested
    <3>3. m.acts[i].ss = CbStack
      BY <2>1, <3>2 DEF Entered, OnTop, Proc, Child, Callback
    <3> QED BY <1>4, <3>3
  <2> QED BY <1>1, <1>4, <2>1 DEF Kept
<1>6. Entered(n, r + 1)
  <2>1. (r + 1) - 1 = r /\ \A i \in 1 .. r : n.acts[i].ss # CbStack
    BY <1>0, <1>1, <1>4
  <2>2. n.acts[r] = m.acts[r]
    BY <1>0, <1>1
  <2>3. Holds(n.mem, m.acts[r].ss, m.acts[r].sp + 1, Guest(r))
    <3>1. m.cpu.sp \in Nat /\ m.acts[r].sp \in Nat
      BY <1>0, MachineFields DEF r
    <3>2. m.cpu.sp <= m.acts[r].sp + (IF r < r THEN 1 ELSE 1)
      BY <1>0, <1>2, <3>1
    <3> QED BY <1>0, <1>2, <1>4, <3>1, <3>2 DEF CellsKept
  <2>4. Fresh(n, r + 1, CbStack) /\ ~n.acts[r].pe
    BY <1>2, <1>3, <2>1, <2>2 DEF Fresh
  <2>5. Callback(n, r + 1)
    BY <1>1, <1>2, <1>4, <2>1, <2>2, <2>3, <2>4 DEF Callback
  <2> QED BY <2>5 DEF Entered
<1>7. /\ Nested(n, Len(n.acts)) /\ Stacked(n, Len(n.acts)) /\ Len(n.acts) \in 1 .. MaxActs
  <2>1. /\ a.ss \in {Scratch, CbStack} \union (1 .. r + 1) /\ a.sp <= Len(n.mem[a.ss])
        /\ \A i \in 1 .. r : m.acts[i].ss = a.ss => m.acts[i].sp < a.sp
    BY <1>4
  <2> QED BY <1>5, <1>6, <2>1, Grown DEF r
<1>8. Sized(n)
  BY <1>7 DEF Sized, Body
<1>9. Counted(n) /\ Marked(n)
  <2>1. m.cpu.at # RmRet /\ n.cpu.at # RmRet
    BY PlaceFacts DEF Guest, Place, RmRet
  <2>2. Counted(n)
    BY <2>1, SameCount
  <2> QED BY <2>2 DEF Marked, Body
<1>10. Suspended(n)
  <2>1. Len(n.frames) = 0 /\ n.frames = <<>>
    BY <1>3
  <2> QED BY <2>1 DEF Suspended
<1>11. Resting(n)
  <2>1. n.cpu.pe = a.pe
    <3>1. r + 1 \in 1 .. Len(n.acts)
      BY <1>0, <1>1
    <3> QED BY <1>1, <3>1, MachineFields
  <2> QED BY <1>1, <2>1, TopRests DEF r
<1> QED BY <1>7, <1>8, <1>9, <1>10, <1>11 DEF Body

(* The same activations, of the same programs.                             *)
LEMMA SameActs ==
  ASSUME NEW m, Body(m), NEW n \in MachineSet, n.acts = m.acts, n.frames = m.frames,
         n.wild = m.wild, Kept(m, n, Len(m.acts), 0)
  PROVE  /\ Sized(n) /\ Nested(n, Len(n.acts)) /\ Stacked(n, Len(n.acts)) /\ Suspended(n)
<1> DEFINE r == Len(m.acts)
<1>0. /\ m \in MachineSet /\ r \in 1 .. Len(m.acts) /\ r \in Nat /\ Nested(m, r) /\ Stacked(m, r)
      /\ ProcsTo(m.acts, r) <= RmSlots /\ \A f \in 1 .. Len(m.frames) : m.frames[f].acts < r
  BY BodyFacts
<1>1. Len(n.acts) = r
  OBVIOUS
<1> HIDE DEF r
<1>2. Kept(m, n, r, 0)
  BY DEF r
<1>3. Nested(n, r) /\ Stacked(n, r)
  BY <1>0, <1>2, BaseKept
<1>4. \A i \in r + 1 .. Len(n.acts) : FALSE
  BY <1>0, <1>1
<1>5. r <= Len(n.acts)
  BY <1>0, <1>1
<1>6. Suspended(n)
  BY <1>0, <1>2, <1>4, <1>5, SuspendedKept DEF Body
<1>7. Sized(n)
  BY DEF Sized, Body
<1> QED BY <1>1, <1>3, <1>6, <1>7 DEF r

(* A service that only changes the host's settings; the stub's INT n done. *)
LEMMA SettingsKeep ==
  ASSUME NEW m, Body(m), NEW n \in MachineSet,
         n.cpu = m.cpu \/ (m.cpu.at = Stub /\ n.cpu = [m.cpu EXCEPT !.at = StubIret]),
         n.mem = m.mem, n.acts = m.acts, n.rm = m.rm, n.depth = m.depth,
         n.str = m.str, n.frames = m.frames, n.wild = m.wild,
         m.cpu.at.code = "cbentry" => n.cb
  PROVE  Body(n)
<1>0. m \in MachineSet /\ m.cpu \in Machine /\ Len(m.acts) \in 1 .. MaxActs
  BY BodyFacts, MachineFields
<1>1. Kept(m, n, Len(m.acts), 0)
  BY DEF Kept, CellsKept
<1>2. Sized(n) /\ Nested(n, Len(n.acts)) /\ Stacked(n, Len(n.acts)) /\ Suspended(n)
  BY <1>1, SameActs
<1>3. CASE n.cpu = m.cpu
  <2>1. Counted(n) /\ Marked(n)
    BY <1>3 DEF Body, Counted, Marked
  <2>2. Resting(n)
    BY <1>3 DEF Body, Resting, Stands, CallDone, CallbackDone, Fresh
  <2> QED BY <1>2, <2>1, <2>2 DEF Body
<1>4. CASE m.cpu.at = Stub /\ n.cpu = [m.cpu EXCEPT !.at = StubIret]
  <2>0. AtHook(m.cpu)
    BY <1>4, PlaceFacts DEF AtHook
  <2>1. /\ n.cpu.at = StubIret /\ n.cpu.pe = m.cpu.pe /\ n.cpu.ss = m.cpu.ss
        /\ n.cpu.sp = m.cpu.sp
    BY <1>0, <1>4 DEF Machine
  <2>2. m.cpu.at # RmRet /\ n.cpu.at # RmRet /\ n.cpu.at.code = "stubiret"
    BY <1>4, <2>1, PlaceFacts
  <2>3. Counted(n) /\ Marked(n)
    BY <2>2 DEF Body, Counted, Marked
  <2>4. Stands(n, n.cpu, Len(n.acts))
    BY <2>0, <2>1, <2>2, AtGuestHook DEF Stands, AtHook
  <2>5. Resting(n)
    <3>1. ~n.cpu.pe
      BY <1>4, <2>1, PlaceFacts DEF Body, Resting
    <3> QED BY <2>2, <2>4, <3>1 DEF Resting
  <2> QED BY <1>2, <2>3, <2>5 DEF Body
<1> QED BY <1>3, <1>4

(* Real-mode code far-calls the callback's address.                        *)
LEMMA FarCalledKeeps ==
  ASSUME NEW m, Body(m), m.cpu.at.code = "guest", ~m.cpu.pe, m.frames = <<>>, m.cb,
         Len(m.acts) < MaxActs, Fresh(m, Len(m.acts) + 1, CbStack),
         NEW n \in MachineSet, n.acts = m.acts,
         n.mem = [m.mem EXCEPT ![m.cpu.ss] = Put(m.mem[m.cpu.ss], m.cpu.sp + 1, m.cpu.at)],
         n.cpu.at = CbEntry, n.cpu.pe = m.cpu.pe, n.cpu.ss = m.cpu.ss, n.cpu.sp = m.cpu.sp + 1,
         n.rm = m.rm, n.str = m.str, SameHost(n, m)
  PROVE  Body(n)
<1> DEFINE r == Len(m.acts)
<1>0. /\ m \in MachineSet /\ r \in 1 .. Len(m.acts) /\ r \in Nat /\ Stacked(m, r)
      /\ m.cpu.at \in Places
  BY BodyFacts, MachineFields
<1>1. /\ m.cpu.at = Guest(r) /\ m.cpu.pe = m.acts[r].pe /\ m.cpu.ss = m.acts[r].ss
      /\ m.cpu.sp = m.acts[r].sp /\ m.depth = ProcsTo(m.acts, r)
  BY InGuestCode
<1> HIDE DEF r
<1>2. /\ CellsKept(m.acts, m.mem, n.mem, r, 0)
      /\ Holds(n.mem, m.acts[r].ss, m.acts[r].sp + 1, Guest(r))
  BY <1>0, <1>1, CellsPushed
<1>3. Kept(m, n, Len(m.acts), 0)
  BY <1>2 DEF Kept, r
<1>4. Sized(n) /\ Nested(n, Len(n.acts)) /\ Stacked(n, Len(n.acts)) /\ Suspended(n)
  BY <1>3, SameActs DEF SameHost
<1>5. n.cpu.at # RmRet /\ m.cpu.at # RmRet /\ n.cpu.at.code = "cbentry"
  BY <1>1, PlaceFacts
<1>6. Counted(n) /\ Marked(n)
  BY <1>5 DEF Body, Counted, Marked, SameHost
<1>7. Stands(n, n.cpu, Len(n.acts))
  BY <1>1, <1>2, <1>5 DEF Stands, AtHook, r
<1>8. Resting(n)
  BY <1>5, <1>7 DEF Resting, Fresh, SameHost
<1> QED BY <1>4, <1>6, <1>8 DEF Body

(* A return from a hook: the guest goes on where it was.                   *)
LEMMA UnwoundKeeps ==
  ASSUME Polite, NEW m, Body(m), AtHook(m.cpu),
         NEW n \in MachineSet, n.acts = m.acts,
         n.mem = [m.mem EXCEPT ![m.cpu.ss] = Popped(m.mem[m.cpu.ss], m.cpu.sp)],
         n.cpu.at = Guest(Len(m.acts)), n.cpu.pe = m.cpu.pe, n.cpu.ss = m.cpu.ss,
         n.cpu.sp = m.cpu.sp - 1,
         n.rm = m.rm, n.depth = m.depth, n.str = m.str, n.frames = m.frames, n.wild = m.wild
  PROVE  Body(n)
<1> DEFINE r == Len(m.acts)
<1>0. /\ m \in MachineSet /\ r \in 1 .. Len(m.acts) /\ r \in Nat /\ Stacked(m, r)
      /\ m.mem \in [Stacks -> Seq(Places)] /\ m.cpu.ss \in Stacks /\ m.cpu.sp \in Nat
      /\ m.acts[r].sp \in Nat
  BY BodyFacts, MachineFields
<1>1. /\ Holds(m.mem, m.cpu.ss, m.cpu.sp, Guest(r)) /\ m.cpu.pe = m.acts[r].pe
      /\ m.cpu.ss = m.acts[r].ss /\ m.cpu.sp = m.acts[r].sp + 1
      /\ m.depth = ProcsTo(m.acts, r)
  BY AtGuestHook
<1> HIDE DEF r
<1>2. CellsKept(m.acts, m.mem, n.mem, r, 0)
  <2>1. m.cpu.sp <= Len(m.mem[m.acts[r].ss])
    <3>1. Len(m.mem[m.cpu.ss]) \in Nat
      BY <1>0, LenProperties
    <3> QED BY <1>1, <3>1 DEF Holds
  <2>2. n.mem = [m.mem EXCEPT ![m.acts[r].ss] = Popped(m.mem[m.acts[r].ss], m.cpu.sp)]
    BY <1>1
  <2> QED BY <1>0, <1>1, <2>1, <2>2, CellsPopped
<1>3. Kept(m, n, Len(m.acts), 0)
  BY <1>2 DEF Kept, r
<1>4. Sized(n) /\ Nested(n, Len(n.acts)) /\ Stacked(n, Len(n.acts)) /\ Suspended(n)
  BY <1>3, SameActs
<1>5. m.cpu.at # RmRet /\ n.cpu.at # RmRet
  BY PlaceFacts DEF AtHook, Guest, Place, RmRet
<1>6. Counted(n) /\ Marked(n)
  BY <1>5 DEF Body, Counted, Marked
<1>7. Resting(n)
  <2>1. n.cpu.sp = m.acts[r].sp
    BY <1>0, <1>1
  <2> QED BY <1>1, <2>1, TopRests DEF r
<1> QED BY <1>4, <1>6, <1>7 DEF Body

(* An activation goes; the others are what they were.                      *)
LEMMA Shrunk ==
  ASSUME NEW m, Body(m), Len(m.acts) > 1, m.acts[Len(m.acts)].kind \notin Programs,
         NEW n \in MachineSet, Len(n.acts) = Len(m.acts) - 1,
         \A i \in 1 .. Len(m.acts) - 1 : n.acts[i] = m.acts[i],
         n.frames = m.frames, n.wild = m.wild, Kept(m, n, Len(m.acts) - 1, 0)
  PROVE  Sized(n) /\ Nested(n, Len(n.acts)) /\ Stacked(n, Len(n.acts)) /\ Suspended(n)
<1> DEFINE r == Len(m.acts) - 1
<1>0. /\ m \in MachineSet /\ r \in 1 .. Len(m.acts) /\ r \in Nat /\ Len(m.acts) \in Nat
      /\ Nested(m, Len(m.acts)) /\ Stacked(m, Len(m.acts))
      /\ ProcsTo(m.acts, Len(m.acts)) <= RmSlots /\ RmSlots \in Nat
      /\ ProcsTo(m.acts, Len(m.acts)) \in Nat
      /\ r <= Len(m.acts) /\ Len(n.acts) = r /\ Len(m.acts) = r + 1
      /\ Len(m.acts) \in 1 .. MaxActs /\ MaxActs \in Nat
  BY BodyFacts
<1> HIDE DEF r
<1>1. Kept(m, n, r, 0)
  BY DEF r
<1>2. ProcsTo(m.acts, r) <= RmSlots
  <2>1. ProcsTo(m.acts, r) \in Nat /\ ProcsTo(m.acts, r) <= ProcsTo(m.acts, Len(m.acts))
    BY <1>0, ProcsMore
  <2> QED BY <1>0, <2>1
<1>3. Nested(m, r) /\ Stacked(m, r)
  BY <1>0, Fewer
<1>4. Nested(n, r) /\ Stacked(n, r)
  BY <1>0, <1>1, <1>2, <1>3, BaseKept
<1>5. \A f \in 1 .. Len(m.frames) : m.frames[f].acts < r
  <2>1. ASSUME NEW f \in 1 .. Len(m.frames) PROVE m.frames[f].acts < r
    <3>1. m.frames[f].acts \in 1 .. Len(m.acts) - 1 /\ m.acts[m.frames[f].acts + 1].kind \in Programs
      BY DEF Body, Suspended, Waiting
    <3>2. m.frames[f].acts # r
      BY <1>0, <3>1
    <3> QED BY <1>0, <3>1, <3>2
  <2> QED BY <2>1
<1>6. \A i \in r + 1 .. Len(n.acts) : FALSE
  BY <1>0
<1>7. Suspended(n)
  <2>1. r <= Len(n.acts)
    BY <1>0
  <2> QED BY <1>0, <1>1, <1>5, <1>6, <2>1, SuspendedKept DEF Body
<1>8. Sized(n)
  BY <1>0 DEF Sized, Body
<1> QED BY <1>0, <1>4, <1>7, <1>8

(* How many procedures are out once the innermost activation is gone.      *)
LEMMA CountedOff ==
  ASSUME NEW m \in MachineSet, NEW n \in MachineSet, Len(m.acts) > 0,
         Len(n.acts) = Len(m.acts) - 1,
         \A i \in 1 .. Len(m.acts) - 1 : n.acts[i] = m.acts[i]
  PROVE  /\ ProcsTo(n.acts, Len(n.acts)) \in Nat
         /\ m.acts[Len(m.acts)].kind = "proc" =>
              ProcsTo(m.acts, Len(m.acts)) = ProcsTo(n.acts, Len(n.acts)) + 1
         /\ m.acts[Len(m.acts)].kind # "proc" =>
              ProcsTo(m.acts, Len(m.acts)) = ProcsTo(n.acts, Len(n.acts))
<1>1. /\ m.acts \in Seq(ActSet) /\ n.acts \in Seq(ActSet) /\ Len(m.acts) \in Nat
      /\ Len(n.acts) \in Nat
  BY MachineFields
<1>2. Len(m.acts) = Len(n.acts) + 1 /\ \A i \in 1 .. Len(n.acts) : m.acts[i] = n.acts[i]
  BY <1>1
<1>3. ProcsTo(n.acts, Len(n.acts)) \in Nat
  BY <1>1, ProcsStep
<1> QED BY <1>1, <1>2, <1>3, ProcsGrown

(* How the innermost activation was entered, by its kind.                  *)
LEMMA Innermost ==
  ASSUME NEW m, Body(m), m.acts[Len(m.acts)].kind \notin Programs
  PROVE  /\ Len(m.acts) > 1 /\ Len(m.acts) - 1 \in 1 .. Len(m.acts)
         /\ m.acts[Len(m.acts)].kind \in {"handler21", "handler31", "isr"} => OnTop(m, Len(m.acts))
         /\ m.acts[Len(m.acts)].kind = "proc" => Proc(m, Len(m.acts))
         /\ m.acts[Len(m.acts)].kind = "callback" => Callback(m, Len(m.acts))
<1>0. /\ Len(m.acts) \in Nat /\ Len(m.acts) \in 1 .. MaxActs /\ Nested(m, Len(m.acts))
      /\ MaxActs \in Nat
  BY BodyFacts
<1>1. Len(m.acts) # 1
  BY <1>0 DEF Nested
<1>2. Len(m.acts) \in 2 .. Len(m.acts) /\ Len(m.acts) > 1 /\ Len(m.acts) - 1 \in 1 .. Len(m.acts)
  <2> DEFINE r == Len(m.acts)
  <2>1. r \in Nat /\ r \in 1 .. MaxActs /\ MaxActs \in Nat /\ r # 1
    BY <1>0, <1>1
  <2> HIDE DEF r
  <2>2. r \in 2 .. r /\ r > 1 /\ r - 1 \in 1 .. r
    BY <2>1
  <2> QED BY <2>2 DEF r
<1>3. Entered(m, Len(m.acts))
  BY <1>0, <1>2 DEF Nested
<1> QED BY <1>2, <1>3 DEF Entered, OnTop, Proc, Callback, Child

(* Only the first program's clients have hooks, procedures and callbacks.  *)
LEMMA ClientFirst ==
  ASSUME NEW m, Body(m), m.acts[Len(m.acts)].kind \notin Programs \union {"isr"}
  PROVE  m.frames = <<>>
<1>1. SUFFICES ASSUME m.frames # <<>> PROVE FALSE
  OBVIOUS
<1>2. m.frames \in Seq(FrameSet) /\ Len(m.frames) \in Nat
  BY BodyFacts, MachineFields
<1>3. 1 \in 1 .. Len(m.frames)
  BY <1>1, <1>2, EmptySeq
<1>4. m.frames[1].acts \in Nat /\ m.frames[1].acts < Len(m.acts) /\ Len(m.acts) \in Nat
  BY <1>3, BodyFacts
<1>5. Len(m.acts) \in m.frames[1].acts + 1 .. Len(m.acts)
  BY <1>4
<1> QED BY <1>1, <1>5 DEF Body, Suspended

(* A handler's IRET: below, at the place it was called from.               *)
LEMMA HandlerLeftKeeps ==
  ASSUME Polite, NEW m, Body(m), m.cpu.at.code = "guest",
         m.acts[Len(m.acts)].kind \in {"handler21", "handler31", "isr"},
         NEW n \in MachineSet, Len(n.acts) = Len(m.acts) - 1,
         \A i \in 1 .. Len(m.acts) - 1 : n.acts[i] = m.acts[i],
         n.mem = [m.mem EXCEPT ![m.cpu.ss] = Popped(m.mem[m.cpu.ss], m.cpu.sp)],
         n.cpu.at = Guest(Len(m.acts) - 1), n.cpu.pe = m.cpu.pe, n.cpu.ss = m.cpu.ss,
         n.cpu.sp = m.cpu.sp - 1,
         n.rm = m.rm, n.str = m.str, SameHost(n, m)
  PROVE  Body(n)
<1> DEFINE r == Len(m.acts)  k == Len(m.acts) - 1
<1>0. /\ m \in MachineSet /\ r \in Nat /\ r > 1 /\ k \in Nat /\ k \in 1 .. r
      /\ Nested(m, r) /\ Stacked(m, r) /\ OnTop(m, r) /\ m.acts[r].kind \notin Programs
      /\ m.mem \in [Stacks -> Seq(Places)] /\ m.cpu.ss \in Stacks /\ m.cpu.sp \in Nat
  <2>1. r > 1 /\ k \in 1 .. r /\ OnTop(m, r)
    BY Innermost
  <2>2. m \in MachineSet /\ r \in Nat /\ Nested(m, r) /\ Stacked(m, r)
    BY BodyFacts
  <2>3. m.mem \in [Stacks -> Seq(Places)] /\ m.cpu.ss \in Stacks /\ m.cpu.sp \in Nat
    BY <2>2, MachineFields
  <2> QED BY <2>1, <2>2, <2>3
<1>1. /\ m.cpu.pe = m.acts[r].pe /\ m.cpu.ss = m.acts[r].ss /\ m.cpu.sp = m.acts[r].sp
      /\ m.depth = ProcsTo(m.acts, r) /\ m.cpu.at = Guest(r)
  BY InGuestCode
<1>2. /\ m.acts[r].pe = m.acts[k].pe /\ m.acts[r].ss = m.acts[k].ss
      /\ m.acts[r].sp = m.acts[k].sp + 1 /\ Holds(m.mem, m.acts[r].ss, m.acts[r].sp, Guest(k))
  BY <1>0 DEF OnTop
<1>3. m.acts[k].sp \in Nat /\ Stacked(m, k)
  BY <1>0, MachineFields, Fewer
<1>5. Len(n.acts) = k /\ \A i \in 1 .. k : n.acts[i] = m.acts[i]
  OBVIOUS
<1> HIDE DEF r, k
<1>4. Len(n.acts) = k /\ n.acts[k] = m.acts[k] /\ k \in 1 .. k
  BY <1>0, <1>5
<1>6. CellsKept(m.acts, m.mem, n.mem, k, 0)
  <2>1. m.cpu.sp <= Len(m.mem[m.acts[k].ss])
    <3>1. Len(m.mem[m.cpu.ss]) \in Nat
      BY <1>0, LenProperties
    <3> QED BY <1>1, <1>2, <3>1 DEF Holds
  <2>2. n.mem = [m.mem EXCEPT ![m.acts[k].ss] = Popped(m.mem[m.acts[k].ss], m.cpu.sp)]
    BY <1>1, <1>2
  <2>3. k \in 1 .. Len(m.acts) /\ m.cpu.sp = m.acts[k].sp + 1
    BY <1>0, <1>1, <1>2 DEF r
  <2> QED BY <1>0, <1>3, <2>1, <2>2, <2>3, CellsPopped
<1>7. Kept(m, n, k, 0)
  BY <1>5, <1>6 DEF Kept
<1>8. Sized(n) /\ Nested(n, Len(n.acts)) /\ Stacked(n, Len(n.acts)) /\ Suspended(n)
  <2>1. Len(m.acts) > 1 /\ m.acts[Len(m.acts)].kind \notin Programs
    BY <1>0 DEF r
  <2>2. n.frames = m.frames /\ n.wild = m.wild
    BY DEF SameHost
  <2> QED BY <1>7, <2>1, <2>2, Shrunk DEF k
<1>9. Counted(n) /\ Marked(n)
  <2>1. m.cpu.at # RmRet /\ n.cpu.at # RmRet
    BY <1>1, PlaceFacts DEF Guest, Place, RmRet
  <2>2. ProcsTo(n.acts, Len(n.acts)) = ProcsTo(m.acts, r) /\ ProcsTo(n.acts, Len(n.acts)) \in Nat
    <3>1. Len(m.acts) > 0 /\ m.acts[Len(m.acts)].kind # "proc"
      BY <1>0 DEF r, OnTop
    <3> QED BY <1>0, <3>1, CountedOff DEF r
  <2>3. n.depth = m.depth /\ m.depth <= RmSlots
    BY BodyFacts DEF SameHost
  <2> QED BY <1>1, <2>1, <2>2, <2>3 DEF Counted, Marked, Body
<1>10. Resting(n)
  <2>1. n.cpu.sp = m.acts[k].sp
    BY <1>1, <1>2, <1>3
  <2>2. n.cpu.at = Guest(k)
    BY DEF k
  <2> QED BY <1>1, <1>2, <1>4, <2>1, <2>2, TopRests
<1> QED BY <1>8, <1>9, <1>10 DEF Body

(* Or it jumps on, to the host's default handler or the table's stub.      *)
LEMMA ChainedKeeps ==
  ASSUME NEW m, Body(m), m.cpu.at.code = "guest",
         m.acts[Len(m.acts)].kind \in {"handler21", "handler31", "isr"},
         NEW n \in MachineSet, Len(n.acts) = Len(m.acts) - 1,
         \A i \in 1 .. Len(m.acts) - 1 : n.acts[i] = m.acts[i],
         n.mem = m.mem, n.cpu.at.code \in {"default", "stub"},
         m.frames # <<>> => n.cpu.at.code = "stub",
         n.cpu.at.code = "stub" => m.acts[Len(m.acts)].kind = "isr",
         n.cpu.pe = m.cpu.pe, n.cpu.ss = m.cpu.ss, n.cpu.sp = m.cpu.sp,
         n.rm = m.rm, n.str = m.str, SameHost(n, m)
  PROVE  Body(n)
<1> DEFINE r == Len(m.acts)  k == Len(m.acts) - 1
<1>0. /\ m \in MachineSet /\ r \in Nat /\ r > 1 /\ k \in Nat /\ k \in 1 .. r
      /\ OnTop(m, r) /\ m.acts[r].kind \notin Programs
  BY BodyFacts, MachineFields, Innermost
<1>1. /\ m.cpu.pe = m.acts[r].pe /\ m.cpu.ss = m.acts[r].ss /\ m.cpu.sp = m.acts[r].sp
      /\ m.depth = ProcsTo(m.acts, r) /\ m.cpu.at = Guest(r)
  BY InGuestCode
<1>2. /\ m.acts[r].pe = m.acts[k].pe /\ m.acts[r].ss = m.acts[k].ss
      /\ m.acts[r].sp = m.acts[k].sp + 1 /\ Holds(m.mem, m.acts[r].ss, m.acts[r].sp, Guest(k))
  BY <1>0 DEF OnTop
<1>5. Len(n.acts) = k /\ \A i \in 1 .. k : n.acts[i] = m.acts[i]
  OBVIOUS
<1> HIDE DEF r, k
<1>4. Len(n.acts) = k /\ n.acts[k] = m.acts[k] /\ k \in 1 .. k
  BY <1>0, <1>5
<1>7. Kept(m, n, k, 0)
  BY <1>5 DEF Kept, CellsKept
<1>8. Sized(n) /\ Nested(n, Len(n.acts)) /\ Stacked(n, Len(n.acts)) /\ Suspended(n)
  <2>1. Len(m.acts) > 1 /\ m.acts[Len(m.acts)].kind \notin Programs
    BY <1>0 DEF r
  <2>2. n.frames = m.frames /\ n.wild = m.wild
    BY DEF SameHost
  <2> QED BY <1>7, <2>1, <2>2, Shrunk DEF k
<1>9. Counted(n) /\ Marked(n)
  <2>1. m.cpu.at # RmRet /\ n.cpu.at # RmRet
    BY <1>1, PlaceFacts DEF Guest, Place, RmRet
  <2>2. ProcsTo(n.acts, Len(n.acts)) = ProcsTo(m.acts, r) /\ ProcsTo(n.acts, Len(n.acts)) \in Nat
    <3>1. Len(m.acts) > 0 /\ m.acts[Len(m.acts)].kind # "proc"
      BY <1>0 DEF r, OnTop
    <3> QED BY <1>0, <3>1, CountedOff DEF r
  <2>3. n.depth = m.depth /\ m.depth <= RmSlots
    BY BodyFacts DEF SameHost
  <2> QED BY <1>1, <2>1, <2>2, <2>3 DEF Counted, Marked, Body
<1>10. Resting(n)
  <2>1. Stands(n, n.cpu, k)
    BY <1>1, <1>2, <1>4 DEF Stands, AtHook
  <2>2. n.cpu.at.code = "stub" => ~n.cpu.pe
    BY <1>0, <1>1 DEF OnTop, r
  <2> QED BY <1>4, <2>1, <2>2 DEF Resting, SameHost
<1> QED BY <1>8, <1>9, <1>10 DEF Body

(* A real-mode procedure is done, and stands at the host's hook.           *)
LEMMA ProcLeftKeeps ==
  ASSUME NEW m, Body(m), m.cpu.at.code = "guest", m.acts[Len(m.acts)].kind = "proc",
         NEW n \in MachineSet, Len(n.acts) = Len(m.acts) - 1,
         \A i \in 1 .. Len(m.acts) - 1 : n.acts[i] = m.acts[i],
         n.mem = [m.mem EXCEPT ![m.cpu.ss] = Popped(m.mem[m.cpu.ss], m.cpu.sp)],
         n.cpu.at = RmRet, n.rm = m.rm, n.str = m.str, SameHost(n, m)
  PROVE  Body(n)
<1> DEFINE r == Len(m.acts)  k == Len(m.acts) - 1
<1>0. /\ m \in MachineSet /\ r \in Nat /\ r > 1 /\ k \in Nat /\ k \in 1 .. r /\ k \in 0 .. r
      /\ Proc(m, r) /\ m.acts[r].kind \notin Programs
      /\ m.mem \in [Stacks -> Seq(Places)] /\ m.cpu.ss \in Stacks
  <2>1. r > 1 /\ k \in 1 .. r /\ Proc(m, r)
    BY Innermost
  <2>2. m \in MachineSet /\ r \in Nat
    BY BodyFacts
  <2>3. m.mem \in [Stacks -> Seq(Places)] /\ m.cpu.ss \in Stacks
    BY <2>2, MachineFields
  <2> QED BY <2>1, <2>2, <2>3
<1>1. m.cpu.ss = m.acts[r].ss /\ m.depth = ProcsTo(m.acts, r) /\ m.cpu.at = Guest(r)
  BY InGuestCode
<1>2. Stands(m, Saved(m, r), k) /\ \A j \in 1 .. k : m.acts[j].ss # m.cpu.ss
  BY <1>0, <1>1 DEF Proc, Fresh
<1>3. m.frames = <<>>
  BY ClientFirst
<1>5. Len(n.acts) = k /\ \A i \in 1 .. k : n.acts[i] = m.acts[i]
  OBVIOUS
<1> HIDE DEF r, k
<1>4. k \in 1 .. k /\ k \in 1 .. Len(m.acts) /\ k \in 0 .. Len(m.acts)
  BY <1>0 DEF r
<1>6. CellsKept(m.acts, m.mem, n.mem, k, 1) /\ CellsKept(m.acts, m.mem, n.mem, k, 0)
  <2>1. \A i \in 1 .. k : i \in 1 .. Len(m.acts)
    BY <1>0 DEF r
  <2>2. \A i \in 1 .. k : m.acts[i].ss \in Stacks /\ m.acts[i].ss # m.cpu.ss
    BY <1>0, <1>2, <2>1, MachineFields
  <2>3. \A s \in Stacks : s # m.cpu.ss => n.mem[s] = m.mem[s]
    BY <1>0
  <2>4. \A i \in 1 .. k : n.mem[m.acts[i].ss] = m.mem[m.acts[i].ss]
    BY <2>2, <2>3
  <2> QED BY <2>4 DEF CellsKept, Holds
<1>7. Kept(m, n, k, 0) /\ Kept(m, n, k, 1)
  BY <1>5, <1>6 DEF Kept
<1>8. Sized(n) /\ Nested(n, Len(n.acts)) /\ Stacked(n, Len(n.acts)) /\ Suspended(n)
  <2>1. Len(m.acts) > 1 /\ m.acts[Len(m.acts)].kind \notin Programs
    BY <1>0 DEF r
  <2>2. n.frames = m.frames /\ n.wild = m.wild
    BY DEF SameHost
  <2> QED BY <1>7, <2>1, <2>2, Shrunk DEF k
<1>9. /\ ProcsTo(m.acts, r) = ProcsTo(n.acts, Len(n.acts)) + 1
      /\ ProcsTo(n.acts, Len(n.acts)) \in Nat
  <2>1. Len(m.acts) > 0 /\ m.acts[Len(m.acts)].kind = "proc"
    BY <1>0 DEF r
  <2> QED BY <1>0, <2>1, CountedOff DEF r
<1>10. Counted(n) /\ Marked(n)
  <2>1. m.cpu.at # RmRet
    BY <1>1, PlaceFacts DEF Guest, Place, RmRet
  <2>2. n.depth = m.depth /\ m.depth <= RmSlots
    BY BodyFacts DEF SameHost
  <2> QED BY <1>1, <1>9, <2>1, <2>2 DEF Counted, Marked, Body
<1>11. CallDone(n)
  <2>1. ProcsTo(m.acts, k) = ProcsTo(n.acts, Len(n.acts))
    <3>1. {i \in 1 .. k : m.acts[i].kind = "proc"} = {i \in 1 .. k : n.acts[i].kind = "proc"}
      BY <1>5
    <3> QED BY <1>5, <3>1 DEF ProcsTo
  <2>2. n.depth = m.depth /\ n.rm = m.rm
    BY DEF SameHost
  <2>3. n.depth - 1 = ProcsTo(m.acts, k) /\ n.depth > 0
    <3>1. n.depth = ProcsTo(n.acts, Len(n.acts)) + 1 /\ ProcsTo(n.acts, Len(n.acts)) \in Nat
      BY <1>1, <1>9, <2>2
    <3>2. n.depth - 1 = ProcsTo(n.acts, Len(n.acts)) /\ n.depth > 0
      BY <3>1
    <3> QED BY <2>1, <3>2
  <2>4. n.rm[n.depth - 1].saved = Saved(m, r)
    BY <2>2, <2>3 DEF Saved, r, k
  <2>5. Saved(m, r) \in Machine
    <3>1. ProcsTo(m.acts, k) \in 0 .. RmSlots - 1
      <4>1. ProcsTo(m.acts, r) <= RmSlots /\ RmSlots \in Nat
        BY BodyFacts DEF r
      <4> QED BY <1>9, <2>1, <4>1
    <3>2. m.rm \in [0 .. RmSlots - 1 -> SlotSet]
      BY <1>0, MachineFields
    <3>3. m.rm[ProcsTo(m.acts, k)] \in SlotSet
      BY <3>1, <3>2
    <3> QED BY <3>3 DEF Saved, SlotSet, r, k
  <2>6. Stands(n, Saved(m, r), k)
    BY <1>0, <1>2, <1>4, <1>7, <2>5, StandsKept
  <2> QED BY <1>5, <2>3, <2>4, <2>6 DEF CallDone
<1>12. Resting(n)
  <2>1. n.cpu.at.code = "rmret"
    BY PlaceFacts
  <2> QED BY <1>3, <1>11, <2>1 DEF Resting, SameHost
<1> QED BY <1>8, <1>10, <1>12 DEF Body

(* The hook puts the caller back.                                          *)
LEMMA RmReturnedKeeps ==
  ASSUME NEW m, Body(m), m.cpu.at = RmRet,
         NEW n \in MachineSet, n.acts = m.acts, n.mem = m.mem,
         n.cpu = m.rm[m.depth - 1].saved, n.depth = m.depth - 1,
         NEW s, n.rm = [m.rm EXCEPT ![m.depth - 1] = s],
         n.str = m.str, n.frames = m.frames, n.wild = m.wild
  PROVE  Body(n) /\ n.cpu.at.code \in {"guest", "default"}
<1> DEFINE r == Len(m.acts)
<1>0. /\ m \in MachineSet /\ r \in 1 .. r /\ r \in Nat /\ m.depth \in Nat /\ m.depth <= RmSlots
      /\ m.rm \in [0 .. RmSlots - 1 -> SlotSet] /\ RmSlots \in Nat
      /\ ProcsTo(m.acts, r) \in Nat
  BY BodyFacts, MachineFields
<1>1. m.depth = ProcsTo(m.acts, r) + 1
  BY DEF Body, Counted
<1>2. CallDone(m) /\ m.frames = <<>>
  <2>1. m.cpu.at.code = "rmret" /\ m.cpu.at # CbRet /\ m.cpu.at # Guest(r) /\ ~AtHook(m.cpu)
    BY <1>0, PlaceFacts DEF AtHook, Guest, Place, CbRet, RmRet
  <2> QED BY <2>1 DEF Body, Resting, CallbackDone, Stands
<1> HIDE DEF r
<1>3. \A j \in 0 .. ProcsTo(m.acts, r) - 1 : n.rm[j] = m.rm[j]
  BY <1>0, <1>1
<1>4. Kept(m, n, Len(m.acts), 0)
  BY <1>3 DEF Kept, CellsKept, r
<1>5. Sized(n) /\ Nested(n, Len(n.acts)) /\ Stacked(n, Len(n.acts)) /\ Suspended(n)
  BY <1>4, SameActs
<1>6. n.cpu.at.code \in {"guest", "default"}
  <2>1. m.depth - 1 \in 0 .. m.depth - 1
    BY <1>0, <1>1
  <2> QED BY <2>1 DEF Body, Marked
<1>7. Counted(n)
  <2>1. n.cpu.at # RmRet
    BY <1>6, PlaceFacts
  <2>2. n.depth = ProcsTo(n.acts, Len(n.acts)) /\ n.depth <= RmSlots
    BY <1>0, <1>1 DEF r
  <2> QED BY <1>0, <2>1, <2>2 DEF Counted, r
<1>8. Marked(n)
  <2>1. ASSUME NEW j \in 0 .. n.depth - 1
        PROVE  n.rm[j] = m.rm[j] /\ j \in 0 .. m.depth - 1
    BY <1>0, <1>1
  <2> QED BY <2>1 DEF Body, Marked
<1>9. Resting(n)
  <2>1. Stands(n, n.cpu, Len(n.acts))
    BY <1>2 DEF CallDone, Stands
  <2> QED BY <1>2, <1>6, <2>1 DEF Resting
<1> QED BY <1>5, <1>6, <1>7, <1>8, <1>9 DEF Body

(* Nobody is a callback who is not on its stack.                           *)
LEMMA NoCallback ==
  ASSUME NEW m, NEW k \in Nat, Nested(m, k), \A i \in 1 .. k : m.acts[i].ss # CbStack,
         NEW i \in 1 .. k
  PROVE  m.acts[i].kind # "callback"
<1>1. CASE i = 1
  BY <1>1 DEF Nested
<1>2. CASE i # 1
  <2>1. Entered(m, i)
    BY <1>2 DEF Nested
  <2> QED BY <2>1 DEF Entered, OnTop, Proc, Child, Callback
<1> QED BY <1>1, <1>2

(* A callback's procedure is done: the guest's place goes to the           *)
(* structure, and the CPU to the host's hook.                              *)
LEMMA CallbackLeftKeeps ==
  ASSUME Polite, NEW m, Body(m), m.cpu.at.code = "guest",
         m.acts[Len(m.acts)].kind = "callback",
         NEW n \in MachineSet, Len(n.acts) = Len(m.acts) - 1,
         \A i \in 1 .. Len(m.acts) - 1 : n.acts[i] = m.acts[i],
         NEW mid \in [Stacks -> Seq(Places)],
         mid = [m.mem EXCEPT ![m.cpu.ss] = Popped(m.mem[m.cpu.ss], m.cpu.sp)],
         n.mem = [mid EXCEPT ![m.str.ss] = Popped(mid[m.str.ss], m.str.sp)],
         n.cpu.at = CbRet, n.str.at = Guest(Len(m.acts) - 1), n.str.ss = m.str.ss,
         n.str.sp = m.str.sp - 1, n.rm = m.rm, SameHost(n, m)
  PROVE  Body(n)
<1> DEFINE r == Len(m.acts)  k == Len(m.acts) - 1
<1>0. /\ m \in MachineSet /\ r \in Nat /\ r > 1 /\ k \in Nat /\ k \in 1 .. r
      /\ Callback(m, r) /\ m.acts[r].kind \notin Programs /\ Nested(m, r) /\ Stacked(m, r)
      /\ m.mem \in [Stacks -> Seq(Places)] /\ m.cpu.ss \in Stacks
  <2>1. Callback(m, r) /\ r > 1 /\ k \in 1 .. r
    BY Innermost
  <2>2. m \in MachineSet /\ r \in Nat /\ Nested(m, r) /\ Stacked(m, r)
    BY BodyFacts
  <2>3. m.mem \in [Stacks -> Seq(Places)] /\ m.cpu.ss \in Stacks
    BY <2>2, MachineFields
  <2> QED BY <2>1, <2>2, <2>3
<1>1. m.cpu.ss = m.acts[r].ss /\ m.depth = ProcsTo(m.acts, r) /\ m.cpu.at = Guest(r)
  BY InGuestCode
<1>2. /\ m.cpu.ss = CbStack /\ ~m.acts[k].pe /\ m.str.ss = m.acts[k].ss
      /\ m.str.sp = m.acts[k].sp + 1 /\ Holds(m.mem, m.acts[k].ss, m.acts[k].sp + 1, Guest(k))
      /\ \A j \in 1 .. k : m.acts[j].ss # CbStack
  BY <1>0, <1>1 DEF Callback, Fresh
<1>3. m.frames = <<>>
  BY ClientFirst
<1>4. m.acts[k].sp \in Nat /\ Stacked(m, k) /\ Nested(m, k) /\ k \in 1 .. k
  <2>1. m.acts[k].sp \in Nat
    BY <1>0, MachineFields
  <2>2. k \in 1 .. k
    BY <1>0
  <2> HIDE DEF r, k
  <2> QED BY <1>0, <2>1, <2>2, Fewer
<1>5. Len(n.acts) = k /\ \A i \in 1 .. k : n.acts[i] = m.acts[i]
  OBVIOUS
<1> HIDE DEF r, k
<1>6. CellsKept(m.acts, m.mem, mid, k, 1)
  <2>1. \A i \in 1 .. k : i \in 1 .. Len(m.acts)
    BY <1>0 DEF r
  <2>2. \A i \in 1 .. k : m.acts[i].ss \in Stacks /\ m.acts[i].ss # m.cpu.ss
    BY <1>0, <1>2, <2>1, MachineFields
  <2>3. \A i \in 1 .. k : mid[m.acts[i].ss] = m.mem[m.acts[i].ss]
    BY <1>0, <2>2
  <2> QED BY <2>3 DEF CellsKept, Holds
<1>7. CellsKept(m.acts, mid, n.mem, k, 0)
  <2>1. m.acts[k].ss \in Stacks /\ m.acts[k].ss # m.cpu.ss /\ k \in 1 .. Len(m.acts)
    BY <1>0, <1>2, <1>4, MachineFields DEF r
  <2>2. mid[m.acts[k].ss] = m.mem[m.acts[k].ss]
    BY <1>0, <2>1
  <2>3. m.str.sp <= Len(mid[m.acts[k].ss])
    <3>1. Len(m.mem[m.acts[k].ss]) \in Nat
      BY <1>0, <2>1, LenProperties
    <3> QED BY <1>2, <1>4, <2>2, <3>1 DEF Holds
  <2>4. n.mem = [mid EXCEPT ![m.acts[k].ss] = Popped(mid[m.acts[k].ss], m.str.sp)]
    BY <1>2
  <2> QED BY <1>0, <1>2, <1>4, <2>1, <2>3, <2>4, CellsPopped
<1>8. CellsKept(m.acts, m.mem, n.mem, k, 0)
  <2>1. ASSUME NEW i \in 1 .. k, NEW q \in Nat, NEW v,
               q <= m.acts[i].sp + (IF i < k THEN 1 ELSE 0), Holds(m.mem, m.acts[i].ss, q, v)
        PROVE  Holds(n.mem, m.acts[i].ss, q, v)
    <3>1. i \in 1 .. Len(m.acts) /\ m.acts[i].sp \in Nat
      <4>1. i \in 1 .. Len(m.acts)
        BY <1>0 DEF r
      <4> QED BY <1>0, <4>1, MachineFields
    <3>2. q <= m.acts[i].sp + (IF i < k THEN 1 ELSE 1)
      BY <2>1, <3>1
    <3>3. Holds(mid, m.acts[i].ss, q, v)
      BY <1>6, <2>1, <3>2 DEF CellsKept
    <3> QED BY <1>7, <2>1, <3>3 DEF CellsKept
  <2> QED BY <2>1 DEF CellsKept
<1>9. Kept(m, n, k, 0)
  <2>1. k \in Nat /\ Nested(m, k) /\ \A i \in 1 .. k : m.acts[i].ss # CbStack
    BY <1>0, <1>2, <1>4
  <2>2. \A i \in 1 .. k : m.acts[i].kind # "callback"
    BY <2>1, NoCallback
  <2> QED BY <1>5, <1>8, <2>2 DEF Kept
<1>10. Sized(n) /\ Nested(n, Len(n.acts)) /\ Stacked(n, Len(n.acts)) /\ Suspended(n)
  <2>1. Len(m.acts) > 1 /\ m.acts[Len(m.acts)].kind \notin Programs
    BY <1>0 DEF r
  <2>2. n.frames = m.frames /\ n.wild = m.wild
    BY DEF SameHost
  <2> QED BY <1>9, <2>1, <2>2, Shrunk DEF k
<1>11. Counted(n) /\ Marked(n)
  <2>1. m.cpu.at # RmRet /\ n.cpu.at # RmRet
    BY <1>1, PlaceFacts DEF Guest, Place, RmRet
  <2>2. ProcsTo(n.acts, Len(n.acts)) = ProcsTo(m.acts, r) /\ ProcsTo(n.acts, Len(n.acts)) \in Nat
    <3>1. Len(m.acts) > 0 /\ m.acts[Len(m.acts)].kind # "proc"
      BY <1>0 DEF r, Callback
    <3> QED BY <1>0, <3>1, CountedOff DEF r
  <2>3. n.depth = m.depth /\ m.depth <= RmSlots
    BY BodyFacts DEF SameHost
  <2> QED BY <1>1, <2>1, <2>2, <2>3 DEF Counted, Marked, Body
<1>12. Resting(n)
  <2>1. n.acts[k] = m.acts[k] /\ n.str.sp = m.acts[k].sp /\ n.str.at = Guest(k)
    <3>1. n.str.at = Guest(k)
      BY DEF k
    <3>2. n.str.sp = m.acts[k].sp
      BY <1>2, <1>4
    <3> QED BY <1>4, <1>5, <3>1, <3>2
  <2>2. CallbackDone(n)
    BY <1>2, <1>5, <2>1 DEF CallbackDone
  <2>3. Fresh(n, k + 1, CbStack)
    <3>1. (k + 1) - 1 = k
      BY <1>0
    <3> QED BY <1>2, <1>5, <3>1 DEF Fresh
  <2>4. n.cpu.at.code = "cbret" /\ n.frames = <<>>
    BY <1>3, PlaceFacts DEF SameHost
  <2> QED BY <1>5, <2>2, <2>3, <2>4 DEF Resting
<1> QED BY <1>10, <1>11, <1>12 DEF Body

(* The hook puts the interrupted real-mode code back.                      *)
LEMMA CbReturnedKeeps ==
  ASSUME NEW m, Body(m), m.cpu.at = CbRet,
         NEW n \in MachineSet, n.acts = m.acts, n.mem = m.mem,
         ~n.cpu.pe, n.cpu.at = m.str.at, n.cpu.ss = m.str.ss, n.cpu.sp = m.str.sp,
         n.rm = m.rm, SameHost(n, m)
  PROVE  Body(n)
<1> DEFINE r == Len(m.acts)
<1>0. /\ m \in MachineSet /\ r \in 1 .. r /\ r \in Nat /\ Nested(m, r) /\ r \in 1 .. Len(m.acts)
  BY BodyFacts, MachineFields
<1>1. m.cpu.at.code = "cbret" /\ m.cpu.at # RmRet /\ m.cpu.at # Guest(r) /\ ~AtHook(m.cpu)
  BY <1>0, PlaceFacts DEF AtHook, Guest, Place, CbRet, RmRet
<1>2. CallbackDone(m) /\ Fresh(m, r + 1, CbStack) /\ m.frames = <<>>
  BY <1>1 DEF Body, Resting, CallDone, Stands
<1>3. \A i \in 1 .. r : m.acts[i].kind # "callback"
  <2>1. (r + 1) - 1 = r
    BY <1>0
  <2>2. \A i \in 1 .. r : m.acts[i].ss # CbStack
    BY <1>2, <2>1 DEF Fresh
  <2> QED BY <1>0, <2>2, NoCallback
<1>4. Kept(m, n, Len(m.acts), 0)
  BY <1>3 DEF Kept, CellsKept
<1>5. Sized(n) /\ Nested(n, Len(n.acts)) /\ Stacked(n, Len(n.acts)) /\ Suspended(n)
  BY <1>4, SameActs DEF SameHost
<1>6. n.cpu.at = Guest(r) /\ n.cpu.ss = m.acts[r].ss /\ n.cpu.sp = m.acts[r].sp /\ ~m.acts[r].pe
  BY <1>2 DEF CallbackDone
<1>7. Counted(n) /\ Marked(n)
  <2>1. n.cpu.at # RmRet
    BY <1>0, <1>6, PlaceFacts DEF Guest, Place, RmRet
  <2> QED BY <1>1, <2>1 DEF Body, Counted, Marked, SameHost
<1>8. Resting(n)
  <2>1. n.cpu.pe = n.acts[Len(n.acts)].pe
    BY <1>0, <1>6, MachineFields
  <2> QED BY <1>6, <2>1, TopRests
<1> QED BY <1>5, <1>7, <1>8 DEF Body

(* The guest switches its own mode.                                        *)
LEMMA SwitchedKeeps ==
  ASSUME NEW m, Body(m), m.cpu.at.code = "guest", m.frames = <<>>,
         m.acts[Len(m.acts)].kind \in {"main", "proc"},
         NEW n \in MachineSet, Len(n.acts) = Len(m.acts),
         \A i \in 1 .. Len(m.acts) - 1 : n.acts[i] = m.acts[i],
         n.acts[Len(m.acts)].kind = m.acts[Len(m.acts)].kind,
         n.acts[Len(m.acts)].pe = n.cpu.pe,
         n.acts[Len(m.acts)].ss = m.acts[Len(m.acts)].ss,
         n.acts[Len(m.acts)].sp = m.acts[Len(m.acts)].sp,
         n.mem = m.mem, n.cpu.at = m.cpu.at, n.cpu.ss = m.cpu.ss, n.cpu.sp = m.cpu.sp,
         n.rm = m.rm, n.depth = m.depth, n.str = m.str, n.frames = m.frames, n.wild = m.wild
  PROVE  Body(n)
<1> DEFINE r == Len(m.acts)  k == Len(m.acts) - 1
<1>0. /\ m \in MachineSet /\ r \in Nat /\ r \in 1 .. r /\ Nested(m, r) /\ Stacked(m, r)
      /\ k \in Nat /\ k + 1 = r /\ RmSlots \in Nat /\ ProcsTo(m.acts, r) <= RmSlots
      /\ ProcsTo(m.acts, r) \in Nat
  BY BodyFacts
<1>1. m.cpu.at = Guest(r) /\ m.cpu.ss = m.acts[r].ss /\ m.cpu.sp = m.acts[r].sp
  BY InGuestCode
<1>2. /\ Len(n.acts) = r /\ \A i \in 1 .. k : n.acts[i] = m.acts[i]
      /\ n.acts[r].kind = m.acts[r].kind /\ n.acts[r].pe = n.cpu.pe
      /\ n.acts[r].ss = m.acts[r].ss /\ n.acts[r].sp = m.acts[r].sp
      /\ m.acts[r].kind \in {"main", "proc"}
  OBVIOUS
<1> HIDE DEF r, k
<1>3. \A i \in 1 .. r : n.acts[i].kind = m.acts[i].kind
  <2>1. \A i \in 1 .. r : i \in 1 .. k \/ i = r
    BY <1>0
  <2> QED BY <1>2, <2>1
<1>4. ProcsTo(n.acts, Len(n.acts)) = ProcsTo(m.acts, r)
  <2>1. {i \in 1 .. r : n.acts[i].kind = "proc"} = {i \in 1 .. r : m.acts[i].kind = "proc"}
    BY <1>3
  <2> QED BY <1>2, <2>1 DEF ProcsTo
<1>5. Nested(n, r) /\ Stacked(n, r)
  <2>1. CASE k = 0
    <3>1. r = 1 /\ (\A i \in 2 .. r : FALSE) /\ \A i \in 1 .. r : i = r
      BY <1>0, <2>1
    <3>2. Nested(n, r)
      BY <1>0, <1>2, <3>1 DEF Nested
    <3>3. ASSUME NEW i \in 1 .. r, NEW j \in 1 .. r PROVE ~(i < j)
      BY <3>1
    <3> QED BY <1>0, <1>2, <3>1, <3>2, <3>3 DEF Stacked
  <2>2. CASE k # 0
    <3>1. k \in 1 .. Len(m.acts) /\ k \in 1 .. r /\ r \in 2 .. r /\ k \in 1 .. k
      BY <1>0, <2>2 DEF r
    <3>2. Nested(m, k) /\ Stacked(m, k)
      BY <1>0, <3>1, Fewer
    <3>3. ProcsTo(m.acts, k) <= RmSlots
      <4>1. ProcsTo(m.acts, k) \in Nat /\ ProcsTo(m.acts, k) <= ProcsTo(m.acts, r)
        <5>1. k <= r
          BY <1>0
        <5> QED BY <1>0, <5>1, ProcsMore
      <4> QED BY <1>0, <4>1
    <3>4. Kept(m, n, k, 1)
      BY <1>2 DEF Kept, CellsKept
    <3>5. Nested(n, k) /\ Stacked(n, k)
      BY <1>0, <3>1, <3>2, <3>3, <3>4, BaseKept
    <3>6. Entered(m, r)
      BY <1>0, <3>1 DEF Nested
    <3>7. Entered(n, k + 1)
      <4>0. (k + 1) - 1 = k /\ k + 1 = r /\ r - 1 = k
        BY <1>0
      <4>1. CASE m.acts[r].kind = "main"
        <5>1. Child(m, r)
          BY <3>6, <4>1 DEF Entered, OnTop, Proc, Callback
        <5>2. Child(n, r)
          BY <1>2, <4>0, <4>1, <5>1 DEF Child, Fresh
        <5> QED BY <4>0, <5>2 DEF Entered
      <4>2. CASE m.acts[r].kind = "proc"
        <5>1. Proc(m, r)
          BY <3>6, <4>2 DEF Entered, OnTop, Child, Callback
        <5>2. ProcsTo(n.acts, k) = ProcsTo(m.acts, k) /\ ProcsTo(m.acts, k) \in Nat
          <6>1. \A i \in 1 .. k : n.acts[i].kind = m.acts[i].kind
            BY <1>2
          <6>2. {i \in 1 .. k : n.acts[i].kind = "proc"} = {i \in 1 .. k : m.acts[i].kind = "proc"}
            BY <6>1
          <6> QED BY <1>0, <6>2, ProcsStep DEF ProcsTo
        <5>3. Saved(n, r) = Saved(m, r)
          BY <4>0, <5>2 DEF Saved
        <5>4. Saved(m, r) \in Machine
          <6>1. ProcsTo(m.acts, k + 1) = ProcsTo(m.acts, k) + 1
            BY <1>0, <4>0, <4>2, ProcsStep
          <6>2. ProcsTo(m.acts, k) \in 0 .. RmSlots - 1
            BY <1>0, <4>0, <5>2, <6>1
          <6>3. m.rm[ProcsTo(m.acts, k)] \in SlotSet
            BY <1>0, <6>2, MachineFields
          <6> QED BY <4>0, <6>3 DEF Saved, SlotSet
        <5>5. Stands(n, Saved(m, r), k)
          <6>1. Stands(m, Saved(m, r), k)
            BY <4>0, <5>1 DEF Proc
          <6> QED BY <1>0, <3>1, <3>4, <5>4, <6>1, StandsKept
        <5>6. Proc(n, r)
          BY <1>2, <4>0, <4>2, <5>1, <5>3, <5>5 DEF Proc, Fresh
        <5> QED BY <4>0, <5>6 DEF Entered
      <4> QED BY <1>2, <4>1, <4>2
    <3>8. /\ n.acts[k + 1].ss \in {Scratch, CbStack} \union (1 .. k + 1)
          /\ n.acts[k + 1].sp <= Len(n.mem[n.acts[k + 1].ss])
          /\ \A i \in 1 .. k : n.acts[i].ss = n.acts[k + 1].ss => n.acts[i].sp < n.acts[k + 1].sp
      <4>1. \A i \in 1 .. k : i \in 1 .. r /\ i < r
        BY <1>0
      <4>2. k + 1 = r /\ r \in 1 .. r
        BY <1>0
      <4>3. /\ m.acts[r].ss \in {Scratch, CbStack} \union (1 .. r)
            /\ m.acts[r].sp <= Len(m.mem[m.acts[r].ss])
            /\ \A i \in 1 .. k : m.acts[i].ss = m.acts[r].ss => m.acts[i].sp < m.acts[r].sp
        BY <1>0, <4>1, <4>2 DEF Stacked
      <4>4. /\ n.acts[r].ss \in {Scratch, CbStack} \union (1 .. r)
            /\ n.acts[r].sp <= Len(n.mem[n.acts[r].ss])
            /\ \A i \in 1 .. k : n.acts[i].ss = n.acts[r].ss => n.acts[i].sp < n.acts[r].sp
        BY <1>2, <4>3
      <4> QED BY <4>2, <4>4
    <3>9. k \in 1 .. Len(n.acts) - 1
      BY <1>0, <1>2, <2>2
    <3> QED BY <1>0, <3>5, <3>7, <3>8, <3>9, OneMore
  <2> QED BY <2>1, <2>2
<1>6. Sized(n)
  BY <1>2 DEF Sized, Body, r
<1>7. Counted(n) /\ Marked(n)
  <2>1. n.cpu.at # RmRet
    BY <1>1, PlaceFacts DEF Guest, Place, RmRet
  <2> QED BY <1>2, <1>4, <2>1 DEF Counted, Marked, Body, r
<1>8. Suspended(n)
  <2>1. Len(n.frames) = 0 /\ n.frames = <<>>
    OBVIOUS
  <2> QED BY <2>1 DEF Suspended
<1>9. Resting(n)
  BY <1>1, <1>2, TopRests
<1> QED BY <1>2, <1>5, <1>6, <1>7, <1>8, <1>9 DEF Body

(* A program ends, and with it whatever it had entered: its parent goes on *)
(* where it waited.                                                        *)
LEMMA ChildEndedKeeps ==
  ASSUME NEW m, Body(m), m.frames # <<>>, NEW f, f = m.frames[Len(m.frames)],
         NEW n \in MachineSet, n.cpu = f.cpu, Len(n.acts) = f.acts,
         \A i \in 1 .. f.acts : n.acts[i] = m.acts[i],
         Len(n.frames) = Len(m.frames) - 1,
         \A i \in 1 .. Len(m.frames) - 1 : n.frames[i] = m.frames[i],
         n.mem = m.mem, n.rm = m.rm, n.depth = m.depth, n.str = m.str, n.wild = m.wild
  PROVE  /\ Body(n)
         /\ n.cpu.at.code \in {"guest", "default", "stubiret"}
         /\ f.default <=> n.cpu.at.code = "default"
         /\ f.default => n.frames = <<>>
         /\ n.frames # <<>> => m.frames # <<>> /\ ChildMode(n) = ChildMode(m)
<1> DEFINE r == Len(m.acts)  g == Len(m.frames)  k == f.acts
<1>0. /\ m \in MachineSet /\ r \in Nat /\ r \in 1 .. MaxActs /\ Nested(m, r) /\ Stacked(m, r)
      /\ RmSlots \in Nat /\ ProcsTo(m.acts, r) <= RmSlots /\ ProcsTo(m.acts, r) \in Nat
      /\ MaxActs \in Nat
  BY BodyFacts
<1>1. g \in Nat /\ g \in 1 .. g /\ 1 \in 1 .. g /\ m.frames \in Seq(FrameSet) /\ f \in FrameSet
  <2>1. m.frames \in Seq(FrameSet) /\ g \in Nat
    BY <1>0, MachineFields
  <2>2. g # 0
    BY <2>1, EmptySeq
  <2> QED BY <2>1, <2>2, ElementOfSeq
<1>2. Waiting(m, g) /\ f.cpu \in Machine /\ k \in Nat
  BY <1>1 DEF Body, Suspended, FrameSet
<1>3. /\ k \in 1 .. r - 1 /\ Stands(m, f.cpu, k)
      /\ f.cpu.at.code \in {"guest", "default", "stubiret"}
      /\ f.default <=> f.cpu.at.code = "default"
      /\ f.cpu.at.code = "stubiret" => ~f.cpu.pe
      /\ g > 1 => ~f.default
      /\ \A i \in 1 .. g - 1 : m.frames[i].acts < k
  BY <1>2 DEF Waiting
<1>4. /\ Len(n.acts) = k /\ \A i \in 1 .. k : n.acts[i] = m.acts[i]
      /\ Len(n.frames) = g - 1 /\ \A i \in 1 .. g - 1 : n.frames[i] = m.frames[i]
  OBVIOUS
<1> HIDE DEF r, g, k
<1>5. k \in 1 .. r /\ k \in 1 .. k /\ k \in 1 .. Len(m.acts)
  BY <1>0, <1>2, <1>3 DEF r
<1>6. Nested(m, k) /\ Stacked(m, k)
  BY <1>0, <1>5, Fewer
<1>7. Kept(m, n, k, 1) /\ Kept(m, n, k, 0)
  BY <1>4 DEF Kept, CellsKept
<1>8. ProcsTo(n.acts, Len(n.acts)) = ProcsTo(m.acts, r) /\ ProcsTo(m.acts, k) = ProcsTo(m.acts, r)
  <2>1. ASSUME NEW i \in 1 .. r, m.acts[i].kind = "proc" PROVE i \in 1 .. k
    <3>1. SUFFICES ASSUME k < i PROVE FALSE
      BY <1>0, <1>2
    <3>2. m.frames[1].acts \in Nat /\ m.frames[1].acts <= k
      <4>1. Waiting(m, 1)
        BY <1>1 DEF Body, Suspended, g
      <4>2. m.frames[1].acts \in Nat
        BY <4>1 DEF Waiting
      <4>3. CASE g = 1
        BY <1>2, <4>3 DEF g, k
      <4>4. CASE g # 1
        <5>1. 1 \in 1 .. g - 1
          BY <1>1, <4>4
        <5> QED BY <1>2, <1>3, <4>2, <5>1
      <4> QED BY <4>2, <4>3, <4>4
    <3>3. i \in m.frames[1].acts + 1 .. Len(m.acts)
      BY <1>0, <1>2, <3>1, <3>2 DEF r
    <3> QED BY <2>1, <3>3 DEF Body, Suspended
  <2>2. {i \in 1 .. r : m.acts[i].kind = "proc"} = {i \in 1 .. k : m.acts[i].kind = "proc"}
    <3>1. \A i \in 1 .. k : i \in 1 .. r
      BY <1>0, <1>2, <1>3
    <3> QED BY <2>1, <3>1
  <2>3. {i \in 1 .. k : n.acts[i].kind = "proc"} = {i \in 1 .. k : m.acts[i].kind = "proc"}
    BY <1>4
  <2> QED BY <1>4, <2>2, <2>3 DEF ProcsTo
<1>9. Nested(n, k) /\ Stacked(n, k)
  <2>1. ProcsTo(m.acts, k) <= RmSlots
    BY <1>0, <1>8
  <2> QED BY <1>0, <1>5, <1>6, <1>7, <2>1, BaseKept
<1>10. Sized(n)
  <2>1. Len(n.frames) <= MaxExec
    <3>1. g <= MaxExec /\ MaxExec \in Nat
      BY PlaceFacts DEF Body, Sized, g
    <3> QED BY <1>1, <1>4, <3>1
  <2>2. Len(n.acts) \in 1 .. MaxActs
    BY <1>0, <1>3, <1>4
  <2> QED BY <2>1, <2>2 DEF Sized, Body
<1>11. Counted(n) /\ Marked(n)
  <2>1. n.cpu.at # RmRet
    BY <1>3, PlaceFacts
  <2>2. m.cpu.at # RmRet
    BY PlaceFacts DEF Body, Resting
  <2> QED BY <1>8, <2>1, <2>2 DEF Body, Counted, Marked, r
<1>12. \A i \in 1 .. Len(n.frames) : Waiting(n, i)
  <2>1. ASSUME NEW i \in 1 .. g - 1 PROVE Waiting(n, i)
    <3>1. i \in 1 .. Len(m.frames) /\ \A j \in 1 .. i : n.frames[j] = m.frames[j]
      <4>1. \A j \in 1 .. i : j \in 1 .. g - 1
        BY <1>1
      <4> QED BY <1>1, <1>4, <4>1 DEF g
    <3>2. m.frames[i].acts < k /\ Waiting(m, i)
      BY <1>3, <3>1 DEF Body, Suspended
    <3>3. k <= Len(n.acts)
      BY <1>2, <1>4
    <3> QED BY <1>0, <1>5, <1>7, <3>1, <3>2, <3>3, WaitingKept
  <2> QED BY <1>4, <2>1
<1>13. n.frames # <<>> => g > 1
  <2>1. n.frames \in Seq(FrameSet)
    BY MachineFields
  <2> QED BY <1>1, <1>4, <2>1, EmptySeq
<1>14. ASSUME n.frames # <<>>
       PROVE  /\ 1 \in 1 .. Len(n.frames) /\ n.frames[1] = m.frames[1]
              /\ n.frames[1].acts \in Nat /\ ChildMode(n) = ChildMode(m)
  <2>1. 1 \in 1 .. g - 1
    BY <1>1, <1>13, <1>14
  <2>2. 1 \in 1 .. Len(n.frames) /\ n.frames[1] = m.frames[1]
    BY <1>4, <2>1
  <2>3. n.frames[1].acts \in Nat /\ n.frames[1].acts < k
    BY <1>3, <1>12, <2>1, <2>2 DEF Waiting
  <2>4. n.frames[1].acts + 1 \in 1 .. k
    BY <1>2, <2>3
  <2> QED BY <1>4, <2>2, <2>3, <2>4 DEF ChildMode
<1>15. Suspended(n)
  <2>1. ASSUME n.frames # <<>>, NEW i \in n.frames[1].acts + 1 .. Len(n.acts)
        PROVE  n.acts[i].kind \in Programs \union {"isr"} /\ n.acts[i].pe = ChildMode(n)
    <3>1. n.frames[1] = m.frames[1] /\ n.frames[1].acts \in Nat /\ ChildMode(n) = ChildMode(m)
      BY <1>14, <2>1
    <3>2. i \in m.frames[1].acts + 1 .. Len(m.acts) /\ i \in 1 .. k
      <4>1. i \in m.frames[1].acts + 1 .. k /\ m.frames[1].acts \in Nat
        BY <1>4, <2>1, <3>1
      <4>2. i \in m.frames[1].acts + 1 .. r /\ i \in 1 .. k
        BY <1>0, <1>2, <1>3, <4>1
      <4> QED BY <4>2 DEF r
    <3>3. m.frames # <<>>
      BY <1>1
    <3> QED BY <1>4, <3>1, <3>2, <3>3 DEF Body, Suspended
  <2> QED BY <1>12, <2>1 DEF Suspended
<1>16. Resting(n)
  <2>1. Stands(n, n.cpu, Len(n.acts))
    BY <1>0, <1>2, <1>3, <1>4, <1>5, <1>7, StandsKept
  <2> QED BY <1>3, <1>13, <2>1 DEF Resting
<1>17. f.default => n.frames = <<>>
  BY <1>3, <1>13
<1> QED BY <1>3, <1>4, <1>9, <1>10, <1>11, <1>14, <1>15, <1>16, <1>17 DEF Body

----------------------------------------------------------------------------
(* A machine that a step may end in; a machine becomes the next state.     *)
Good(m) == Body(m) /\ Flags(m)

(* What an action makes of the machine is the next state.                  *)
LEMMA BecomesNext ==
  ASSUME NEW m \in MachineSet, Become(m), Good(m)
  PROVE  CallsInv' /\ Now' = m
<1>1. Now' = m
  BY DEF Become, Now, MachineSet
<1>2. Good(Now')
  BY <1>1
<1> QED BY <1>1, <1>2 DEF CallsInv, Good

(* The flags stay what they are while the programs that wait do.           *)
LEMMA FlagsSame ==
  ASSUME NEW m, Body(m), Flags(m), NEW n, SameHost(n, m),
         \A i \in 1 .. Len(m.acts) - 1 : n.acts[i] = m.acts[i],
         m.acts[Len(m.acts)].kind \in Programs => n.acts[Len(m.acts)] = m.acts[Len(m.acts)]
  PROVE  Flags(n)
<1>1. n.frames = m.frames /\ n.in_default = m.in_default /\ n.transferred = m.transferred
      /\ n.pmint = m.pmint
  BY DEF SameHost
<1>2. ASSUME m.frames # <<>> PROVE ChildMode(n) = ChildMode(m)
  <2>1. /\ 1 \in 1 .. Len(m.frames) /\ m.frames[1].acts + 1 \in 1 .. Len(m.acts)
        /\ Len(m.acts) \in Nat
    BY <1>2, InChild, BodyFacts
  <2>2. m.acts[m.frames[1].acts + 1].kind \in Programs
    BY <2>1 DEF Body, Suspended, Waiting
  <2>3. n.acts[m.frames[1].acts + 1] = m.acts[m.frames[1].acts + 1]
    <3>1. CASE m.frames[1].acts + 1 = Len(m.acts)
      BY <2>2, <3>1
    <3>2. CASE m.frames[1].acts + 1 # Len(m.acts)
      <4>1. m.frames[1].acts + 1 \in 1 .. Len(m.acts) - 1
        BY <2>1, <3>2
      <4> QED BY <4>1
    <3> QED BY <3>1, <3>2
  <2> QED BY <1>1, <2>3 DEF ChildMode
<1> QED BY <1>1, <1>2 DEF Flags

(* The stack of guest code that runs.                                      *)
(* There is room to push on the stack that guest code runs on.             *)
LEMMA GuestRoom ==
  ASSUME NEW m, Body(m), m.cpu.at.code = "guest"
  PROVE  /\ m \in MachineSet /\ m.cpu.at \in Places /\ m.cpu.sp <= Len(m.mem[m.cpu.ss])
         /\ m.cpu.sp + 1 \in Nat /\ m.cpu.ss \in Stacks
<1>1. m \in MachineSet /\ Len(m.acts) \in 1 .. Len(m.acts) /\ Stacked(m, Len(m.acts))
  BY BodyFacts
<1>2. m.cpu.ss = m.acts[Len(m.acts)].ss /\ m.cpu.sp = m.acts[Len(m.acts)].sp
  BY InGuestCode
<1>3. m.cpu.sp <= Len(m.mem[m.cpu.ss])
  BY <1>1, <1>2 DEF Stacked
<1>4. m.cpu.at \in Places /\ m.cpu.sp \in Nat /\ m.cpu.ss \in Stacks
  BY <1>1, MachineFields
<1> QED BY <1>1, <1>3, <1>4

(* An interrupt goes to a hook, or to the guest's real-mode handler.       *)
LEMMA InterruptGood ==
  ASSUME NEW m, Good(m), m.cpu.at.code = "guest", Len(m.acts) < MaxActs,
         NEW kind \in {"handler21", "handler31", "isr"}, m.frames # <<>> => kind = "isr",
         kind = "isr" => ~m.cpu.pe
  PROVE  Enter(Push(m, m.cpu.at), kind) \in MachineSet /\ Good(Enter(Push(m, m.cpu.at), kind))
<1> DEFINE x == Push(m, m.cpu.at)  n == Enter(x, kind)  a == Added(x, kind)
<1>0. m \in MachineSet /\ m.cpu.at \in Places /\ m.cpu.sp <= Len(m.mem[m.cpu.ss])
      /\ Body(m) /\ Flags(m)
  BY GuestRoom DEF Good
<1>1. /\ x \in MachineSet /\ x.cpu = [m.cpu EXCEPT !.sp = m.cpu.sp + 1]
      /\ x.mem = [m.mem EXCEPT ![m.cpu.ss] = Put(m.mem[m.cpu.ss], m.cpu.sp + 1, m.cpu.at)]
      /\ x.acts = m.acts /\ x.rm = m.rm /\ x.str = m.str /\ SameHost(x, m)
  <2>1. x \in MachineSet /\ Pushed(x, m, m.cpu.at)
    BY <1>0, PushFields
  <2> QED BY <2>1 DEF Pushed
<1>2. x.cpu.pe = m.cpu.pe /\ x.cpu.ss = m.cpu.ss /\ x.cpu.sp = m.cpu.sp + 1
  <2>1. m.cpu \in Machine
    BY <1>0, MachineFields
  <2> QED BY <1>1, <2>1 DEF Machine
<1>3. kind \in Kinds
  BY DEF Kinds, Vectors, Handler
<1>4. a.kind = kind /\ a.pe = m.cpu.pe /\ a.ss = m.cpu.ss /\ a.sp = m.cpu.sp + 1
  BY <1>2 DEF Added
<1> HIDE DEF x
<1>5. /\ n \in MachineSet /\ n.cpu.at = Guest(Len(x.acts) + 1)
      /\ n.cpu.pe = x.cpu.pe /\ n.cpu.ss = x.cpu.ss /\ n.cpu.sp = x.cpu.sp /\ n.mem = x.mem
      /\ n.acts = Append(x.acts, a) /\ n.rm = x.rm /\ n.str = x.str /\ SameHost(n, x)
  BY <1>1, <1>3, EnterFields
<1> HIDE DEF n, a
<1>6. SameHost(n, m)
  BY <1>1, <1>5 DEF SameHost
<1>7. Body(n)
  <2>1. /\ n.mem = [m.mem EXCEPT ![m.cpu.ss] = Put(m.mem[m.cpu.ss], m.cpu.sp + 1, m.cpu.at)]
        /\ n.acts = Append(m.acts, a) /\ n.cpu.at = Guest(Len(m.acts) + 1)
        /\ n.cpu.pe = m.cpu.pe /\ n.cpu.ss = m.cpu.ss /\ n.cpu.sp = m.cpu.sp + 1
        /\ n.rm = m.rm /\ n.str = m.str
    BY <1>1, <1>2, <1>5
  <2> QED BY <1>0, <1>4, <1>5, <1>6, <2>1, EnterKeeps
<1>8. Flags(n)
  <2>1. \A i \in 1 .. Len(m.acts) : n.acts[i] = m.acts[i]
    BY <1>0, <1>1, <1>5, MachineFields
  <2>2. \A i \in 1 .. Len(m.acts) - 1 : i \in 1 .. Len(m.acts)
    BY <1>0, BodyFacts
  <2> QED BY <1>0, <1>6, <2>1, <2>2, BodyFacts, FlagsSame
<1> QED BY <1>5, <1>7, <1>8 DEF Good, n, x

(* A jump.                                                                 *)
LEMMA GoFields ==
  ASSUME NEW m \in MachineSet, NEW p \in Places
  PROVE  /\ Go(m, p) \in MachineSet /\ Go(m, p).cpu = [m.cpu EXCEPT !.at = p]
         /\ Go(m, p).cpu.at = p /\ Go(m, p).cpu.pe = m.cpu.pe /\ Go(m, p).cpu.ss = m.cpu.ss
         /\ Go(m, p).cpu.sp = m.cpu.sp /\ Go(m, p).mem = m.mem
         /\ Go(m, p).acts = m.acts /\ Go(m, p).rm = m.rm /\ Go(m, p).str = m.str
         /\ SameHost(Go(m, p), m)
<1> DEFINE c == [m.cpu EXCEPT !.at = p]
<1>1. m.cpu \in Machine
  BY MachineFields
<1>2. c \in Machine /\ c.at = p /\ c.pe = m.cpu.pe /\ c.ss = m.cpu.ss /\ c.sp = m.cpu.sp
  BY <1>1 DEF Machine
<1>3. Go(m, p) = [m EXCEPT !.cpu = c]
  BY DEF Go
<1> HIDE DEF c
<1>4. Go(m, p) \in MachineSet /\ Go(m, p).cpu = c
  BY <1>2, <1>3 DEF MachineSet
<1>5. /\ Go(m, p).mem = m.mem
      /\ Go(m, p).acts = m.acts /\ Go(m, p).rm = m.rm /\ Go(m, p).str = m.str
      /\ SameHost(Go(m, p), m)
  BY <1>3 DEF MachineSet, SameHost
<1> QED BY <1>2, <1>4, <1>5 DEF c

(* n is m when its last activation has returned to p.                     *)
Left(n, m, p) ==
  /\ Len(n.acts) = Len(m.acts) - 1
  /\ \A i \in 1 .. Len(m.acts) - 1 : n.acts[i] = m.acts[i]
  /\ n.mem = [m.mem EXCEPT ![m.cpu.ss] = Popped(m.mem[m.cpu.ss], m.cpu.sp)]
  /\ n.cpu.at = p /\ n.cpu.pe = m.cpu.pe
  /\ n.cpu.ss = m.cpu.ss /\ n.cpu.sp = m.cpu.sp - 1
  /\ n.rm = m.rm /\ n.str = m.str /\ SameHost(n, m)

(* The innermost activation returns by what is on its stack.               *)
LEMMA LeaveReturn ==
  ASSUME Polite, NEW m, Body(m), NEW p, Holds(m.mem, m.cpu.ss, m.cpu.sp, p)
  PROVE  Return(Leave(m)) \in MachineSet /\ Left(Return(Leave(m)), m, p)
<1> DEFINE x == Leave(m)  n == Return(x)
<1>0. m \in MachineSet /\ Len(m.acts) > 0
  BY BodyFacts
<1>1. /\ x \in MachineSet /\ x.cpu = m.cpu /\ x.mem = m.mem
      /\ Len(x.acts) = Len(m.acts) - 1
      /\ \A i \in 1 .. Len(m.acts) - 1 : x.acts[i] = m.acts[i]
      /\ x.rm = m.rm /\ x.str = m.str /\ SameHost(x, m)
  BY <1>0, LeaveFields
<1> HIDE DEF x
<1>2. Holds(x.mem, x.cpu.ss, x.cpu.sp, p)
  BY <1>1
<1>3. /\ n \in MachineSet
      /\ n.cpu.at = p /\ n.cpu.pe = x.cpu.pe /\ n.cpu.ss = x.cpu.ss /\ n.cpu.sp = x.cpu.sp - 1
      /\ n.mem = [x.mem EXCEPT ![x.cpu.ss] = Popped(x.mem[x.cpu.ss], x.cpu.sp)]
      /\ n.acts = x.acts /\ n.rm = x.rm /\ n.str = x.str /\ SameHost(n, x)
  <2>1. x \in MachineSet /\ Holds(x.mem, x.cpu.ss, x.cpu.sp, p)
    BY <1>1, <1>2
  <2>2. /\ Return(x) \in MachineSet
        /\ Return(x).cpu.at = p /\ Return(x).cpu.pe = x.cpu.pe /\ Return(x).cpu.ss = x.cpu.ss
        /\ Return(x).cpu.sp = x.cpu.sp - 1
        /\ Return(x).mem = [x.mem EXCEPT ![x.cpu.ss] = Popped(x.mem[x.cpu.ss], x.cpu.sp)]
        /\ Return(x).acts = x.acts /\ Return(x).rm = x.rm /\ Return(x).str = x.str
        /\ SameHost(Return(x), x)
    BY <2>1, ReturnFields
  <2> QED BY <2>2
<1> HIDE DEF n
<1>4. SameHost(n, m)
  BY <1>1, <1>3 DEF SameHost
<1> QED BY <1>1, <1>3, <1>4 DEF n, x, Left

(* The guest's returns: from a handler, from a procedure, from a callback. *)
LEMMA HandlerGood ==
  ASSUME Polite, NEW m, Good(m), m.cpu.at.code = "guest",
         m.acts[Len(m.acts)].kind \in {"handler21", "handler31", "isr"}
  PROVE  Return(Leave(m)) \in MachineSet /\ Good(Return(Leave(m)))
<1> DEFINE n == Return(Leave(m))  k == Len(m.acts) - 1
<1>0. Body(m) /\ Flags(m) /\ m.acts[Len(m.acts)].kind \notin Programs
  BY DEF Good
<1>1. Holds(m.mem, m.cpu.ss, m.cpu.sp, Guest(k))
  <2>1. OnTop(m, Len(m.acts))
    BY <1>0, Innermost
  <2> QED BY <1>0, <2>1, InGuestCode DEF OnTop
<1>2. /\ n \in MachineSet /\ Len(n.acts) = Len(m.acts) - 1
      /\ \A i \in 1 .. Len(m.acts) - 1 : n.acts[i] = m.acts[i]
      /\ n.mem = [m.mem EXCEPT ![m.cpu.ss] = Popped(m.mem[m.cpu.ss], m.cpu.sp)]
      /\ n.cpu.at = Guest(k) /\ n.cpu.pe = m.cpu.pe /\ n.cpu.ss = m.cpu.ss
      /\ n.cpu.sp = m.cpu.sp - 1
      /\ n.rm = m.rm /\ n.str = m.str /\ SameHost(n, m)
  <2>1. n \in MachineSet /\ Left(n, m, Guest(k))
    BY <1>0, <1>1, LeaveReturn
  <2> HIDE DEF n, k
  <2> QED BY <2>1 DEF Left
<1> HIDE DEF n
<1>3. Body(n)
  BY <1>0, <1>2, HandlerLeftKeeps
<1>4. Flags(n)
  BY <1>0, <1>2, FlagsSame
<1> QED BY <1>2, <1>3, <1>4 DEF Good, n

(* A procedure returns to the hook the host planted.                       *)
LEMMA ProcGood ==
  ASSUME Polite, NEW m, Good(m), m.cpu.at.code = "guest", m.acts[Len(m.acts)].kind = "proc"
  PROVE  Return(Leave(m)) \in MachineSet /\ Good(Return(Leave(m)))
<1> DEFINE n == Return(Leave(m))
<1>0. Body(m) /\ Flags(m) /\ m.acts[Len(m.acts)].kind \notin Programs
  BY DEF Good
<1>1. Holds(m.mem, m.cpu.ss, m.cpu.sp, RmRet)
  <2>1. Proc(m, Len(m.acts))
    BY <1>0, Innermost
  <2> QED BY <1>0, <2>1, InGuestCode DEF Proc
<1>2. /\ n \in MachineSet /\ Len(n.acts) = Len(m.acts) - 1
      /\ \A i \in 1 .. Len(m.acts) - 1 : n.acts[i] = m.acts[i]
      /\ n.mem = [m.mem EXCEPT ![m.cpu.ss] = Popped(m.mem[m.cpu.ss], m.cpu.sp)]
      /\ n.cpu.at = RmRet /\ n.rm = m.rm /\ n.str = m.str /\ SameHost(n, m)
  <2>1. n \in MachineSet /\ Left(n, m, RmRet)
    BY <1>0, <1>1, LeaveReturn
  <2> HIDE DEF n
  <2> QED BY <2>1 DEF Left
<1> HIDE DEF n
<1>3. Body(n)
  BY <1>0, <1>2, ProcLeftKeeps
<1>4. Flags(n)
  BY <1>0, <1>2, FlagsSame
<1> QED BY <1>2, <1>3, <1>4 DEF Good, n

(* A callback procedure returns, its structure naming the far call's       *)
(* return address.                                                         *)
LEMMA CallbackGood ==
  ASSUME Polite, NEW m, Good(m), m.cpu.at.code = "guest", m.acts[Len(m.acts)].kind = "callback",
         NEW n, n = [Return(Leave(m)) EXCEPT !.str.at = m.mem[m.str.ss][m.str.sp], !.str.sp = @ - 1,
                                             !.mem[m.str.ss] = Popped(@, m.str.sp)]
  PROVE  n \in MachineSet /\ Good(n)
<1> DEFINE x == Return(Leave(m))  k == Len(m.acts) - 1
           s == [m.str EXCEPT !.at = Guest(k), !.sp = m.str.sp - 1]
           after == [x.mem EXCEPT ![m.str.ss] = Popped(x.mem[m.str.ss], m.str.sp)]
<1>0. Body(m) /\ Flags(m) /\ m.acts[Len(m.acts)].kind \notin Programs /\ m \in MachineSet
  BY BodyFacts DEF Good
<1>1. Callback(m, Len(m.acts)) /\ k \in 1 .. Len(m.acts)
  BY <1>0, Innermost
<1>2. Holds(m.mem, m.cpu.ss, m.cpu.sp, CbRet)
  BY <1>0, <1>1, InGuestCode DEF Callback
<1>3. /\ x \in MachineSet /\ Len(x.acts) = Len(m.acts) - 1
      /\ \A i \in 1 .. Len(m.acts) - 1 : x.acts[i] = m.acts[i]
      /\ x.mem = [m.mem EXCEPT ![m.cpu.ss] = Popped(m.mem[m.cpu.ss], m.cpu.sp)]
      /\ x.cpu.at = CbRet /\ x.rm = m.rm /\ x.str = m.str /\ SameHost(x, m)
  <2>1. x \in MachineSet /\ Left(x, m, CbRet)
    BY <1>0, <1>2, LeaveReturn
  <2> HIDE DEF x
  <2> QED BY <2>1 DEF Left
<1>4. /\ m.str.ss = m.acts[k].ss /\ m.str.sp = m.acts[k].sp + 1
      /\ Holds(m.mem, m.str.ss, m.str.sp, Guest(k)) /\ m.acts[k].ss # CbStack
      /\ m.cpu.ss = CbStack
  <2>1. k \in 1 .. Len(m.acts) - 1
    BY <1>1
  <2> QED BY <1>0, <1>1, <2>1, InGuestCode DEF Callback, Fresh
<1>5. /\ m.str \in StrSet /\ m.str.ss \in Stacks /\ m.str.sp \in Nat /\ m.acts[k].sp \in Nat
      /\ m.mem \in [Stacks -> Seq(Places)] /\ x.mem \in [Stacks -> Seq(Places)]
  BY <1>0, <1>1, <1>3, MachineFields
<1> HIDE DEF k, x
<1>6. x.mem[m.str.ss] = m.mem[m.str.ss] /\ Guest(k) = m.mem[m.str.ss][m.str.sp]
  BY <1>3, <1>4, <1>5 DEF Holds
<1>7. m.str.sp \in 1 .. Len(x.mem[m.str.ss]) /\ x.mem[m.str.ss] \in Seq(Places)
  BY <1>4, <1>5, <1>6 DEF Holds
<1>8. after \in [Stacks -> Seq(Places)]
  <2>1. Popped(x.mem[m.str.ss], m.str.sp) \in Seq(Places)
    BY <1>7, PoppedCells
  <2> QED BY <1>5, <2>1
<1>9. s \in StrSet /\ s.at = Guest(k) /\ s.ss = m.str.ss /\ s.sp = m.str.sp - 1
  <2>1. Guest(k) \in Places
    BY <1>6, <1>7, <1>5, <1>4, ElementOfSeq
  <2>2. m.str.sp - 1 \in Nat
    <3>1. m.str.sp = m.acts[k].sp + 1 /\ m.acts[k].sp \in Nat
      BY <1>4, <1>5
    <3> QED BY <3>1
  <2> QED BY <1>5, <2>1, <2>2 DEF StrSet
<1>10. n = [x EXCEPT !.str = s, !.mem = after]
  BY <1>3, <1>6 DEF x, MachineSet
<1> HIDE DEF s, after
<1>11. /\ n \in MachineSet /\ n.str = s /\ n.mem = after /\ n.acts = x.acts /\ n.cpu = x.cpu
       /\ n.rm = x.rm /\ SameHost(n, x)
  <2>0. x \in MachineSet /\ s \in StrSet
    BY <1>3, <1>9
  <2>1. n \in MachineSet
    BY <1>8, <1>10, <2>0 DEF MachineSet
  <2>2. n.str = s /\ n.mem = after /\ n.acts = x.acts /\ n.cpu = x.cpu /\ n.rm = x.rm
    BY <1>10, <2>0 DEF MachineSet
  <2>3. SameHost(n, x)
    BY <1>10, <2>0 DEF MachineSet, SameHost
  <2> QED BY <2>1, <2>2, <2>3
<1>12. SameHost(n, m)
  BY <1>3, <1>11 DEF SameHost
<1>13. Body(n)
  <2>1. /\ x.mem \in [Stacks -> Seq(Places)]
        /\ x.mem = [m.mem EXCEPT ![m.cpu.ss] = Popped(m.mem[m.cpu.ss], m.cpu.sp)]
        /\ n.mem = [x.mem EXCEPT ![m.str.ss] = Popped(x.mem[m.str.ss], m.str.sp)]
    BY <1>3, <1>5, <1>11 DEF after
  <2>2. /\ Len(n.acts) = Len(m.acts) - 1 /\ \A i \in 1 .. Len(m.acts) - 1 : n.acts[i] = m.acts[i]
        /\ n.cpu.at = CbRet /\ n.str.at = Guest(Len(m.acts) - 1) /\ n.str.ss = m.str.ss
        /\ n.str.sp = m.str.sp - 1 /\ n.rm = m.rm
    BY <1>3, <1>9, <1>11 DEF k
  <2> QED BY <1>0, <1>11, <1>12, <2>1, <2>2, CallbackLeftKeeps
<1>14. Flags(n)
  <2>1. \A i \in 1 .. Len(m.acts) - 1 : n.acts[i] = m.acts[i]
    BY <1>3, <1>11
  <2> QED BY <1>0, <1>12, <2>1, FlagsSame
<1> QED BY <1>11, <1>13, <1>14 DEF Good

(* A handler's jump to the one it replaced.                                *)
LEMMA ChainGood ==
  ASSUME NEW m, Good(m), m.cpu.at.code = "guest",
         m.acts[Len(m.acts)].kind \in {"handler21", "handler31", "isr"},
         NEW p \in Places, p.code \in {"default", "stub"}, m.frames # <<>> => p.code = "stub",
         p.code = "stub" => m.acts[Len(m.acts)].kind = "isr"
  PROVE  Go(Leave(m), p) \in MachineSet /\ Good(Go(Leave(m), p))
<1> DEFINE x == Leave(m)  n == Go(x, p)
<1>0. m \in MachineSet /\ Len(m.acts) > 0 /\ Body(m) /\ Flags(m)
  BY BodyFacts DEF Good
<1>1. /\ x \in MachineSet /\ x.cpu = m.cpu /\ x.mem = m.mem
      /\ Len(x.acts) = Len(m.acts) - 1
      /\ \A i \in 1 .. Len(m.acts) - 1 : x.acts[i] = m.acts[i]
      /\ x.rm = m.rm /\ x.str = m.str /\ SameHost(x, m)
  BY <1>0, LeaveFields
<1> HIDE DEF x
<1>2. /\ n \in MachineSet /\ n.cpu.at = p /\ n.cpu.pe = x.cpu.pe /\ n.cpu.ss = x.cpu.ss
      /\ n.cpu.sp = x.cpu.sp /\ n.mem = x.mem
      /\ n.acts = x.acts /\ n.rm = x.rm /\ n.str = x.str /\ SameHost(n, x)
  BY <1>1, GoFields
<1> HIDE DEF n
<1>3. SameHost(n, m)
  BY <1>1, <1>2 DEF SameHost
<1>4. Body(n)
  BY <1>0, <1>1, <1>2, <1>3, ChainedKeeps
<1>5. Flags(n)
  BY <1>0, <1>1, <1>2, <1>3, FlagsSame
<1> QED BY <1>2, <1>4, <1>5 DEF Good, n, x

(* The call of the callback's address.                                     *)
LEMMA FarCallGood ==
  ASSUME NEW m, Good(m), m.cpu.at.code = "guest", ~m.cpu.pe, m.frames = <<>>, m.cb,
         Len(m.acts) < MaxActs, Fresh(m, Len(m.acts) + 1, CbStack)
  PROVE  /\ Go(Push(m, m.cpu.at), CbEntry) \in MachineSet
         /\ Good(Go(Push(m, m.cpu.at), CbEntry))
<1> DEFINE x == Push(m, m.cpu.at)  n == Go(x, CbEntry)
<1>0. /\ m \in MachineSet /\ m.cpu.at \in Places /\ m.cpu.sp <= Len(m.mem[m.cpu.ss])
      /\ Body(m) /\ Flags(m) /\ CbEntry \in Places
  BY GuestRoom, PlaceFacts DEF Good
<1>1. /\ x \in MachineSet /\ x.cpu = [m.cpu EXCEPT !.sp = m.cpu.sp + 1]
      /\ x.mem = [m.mem EXCEPT ![m.cpu.ss] = Put(m.mem[m.cpu.ss], m.cpu.sp + 1, m.cpu.at)]
      /\ x.acts = m.acts /\ x.rm = m.rm /\ x.str = m.str /\ SameHost(x, m)
  <2>1. x \in MachineSet /\ Pushed(x, m, m.cpu.at)
    BY <1>0, PushFields
  <2> QED BY <2>1 DEF Pushed
<1>2. x.cpu.pe = m.cpu.pe /\ x.cpu.ss = m.cpu.ss /\ x.cpu.sp = m.cpu.sp + 1
  <2>1. m.cpu \in Machine
    BY <1>0, MachineFields
  <2> QED BY <1>1, <2>1 DEF Machine
<1> HIDE DEF x
<1>3. /\ n \in MachineSet /\ n.cpu.at = CbEntry /\ n.cpu.pe = x.cpu.pe /\ n.cpu.ss = x.cpu.ss
      /\ n.cpu.sp = x.cpu.sp /\ n.mem = x.mem
      /\ n.acts = x.acts /\ n.rm = x.rm /\ n.str = x.str /\ SameHost(n, x)
  <2>1. x \in MachineSet /\ CbEntry \in Places
    BY <1>0, <1>1
  <2> QED BY <2>1, GoFields
<1> HIDE DEF n
<1>4. SameHost(n, m)
  BY <1>1, <1>3 DEF SameHost
<1>5. Body(n)
  <2>1. /\ n.acts = m.acts
        /\ n.mem = [m.mem EXCEPT ![m.cpu.ss] = Put(m.mem[m.cpu.ss], m.cpu.sp + 1, m.cpu.at)]
        /\ n.cpu.pe = m.cpu.pe /\ n.cpu.ss = m.cpu.ss /\ n.cpu.sp = m.cpu.sp + 1
        /\ n.rm = m.rm /\ n.str = m.str
    BY <1>1, <1>2, <1>3
  <2> QED BY <1>0, <1>3, <1>4, <2>1, FarCalledKeeps
<1>6. Flags(n)
  BY <1>0, <1>1, <1>3, <1>4, FlagsSame
<1> QED BY <1>3, <1>5, <1>6 DEF Good, n, x

(* The guest's switches of mode.                                           *)
LEMMA SwitchGood ==
  ASSUME NEW m, Good(m), m.cpu.at.code = "guest", m.frames = <<>>,
         m.acts[Len(m.acts)].kind \in {"main", "proc"}, NEW pe \in BOOLEAN, NEW client_ \in Nat,
         NEW n, n = [m EXCEPT !.cpu = [m.cpu EXCEPT !.pe = pe],
                              !.acts = [m.acts EXCEPT ![Len(m.acts)] = [@ EXCEPT !.pe = pe]],
                              !.client = client_]
  PROVE  n \in MachineSet /\ Good(n)
<1> DEFINE r == Len(m.acts)  a == [m.acts[r] EXCEPT !.pe = pe]
           as == [m.acts EXCEPT ![r] = a]  c == [m.cpu EXCEPT !.pe = pe]
<1>0. /\ m \in MachineSet /\ Body(m) /\ Flags(m) /\ r \in 1 .. r /\ r \in Nat
      /\ m.acts \in Seq(ActSet) /\ m.cpu \in Machine
  BY BodyFacts, MachineFields DEF Good
<1>1. c \in Machine /\ c.pe = pe /\ c.at = m.cpu.at /\ c.ss = m.cpu.ss /\ c.sp = m.cpu.sp
  BY <1>0 DEF Machine
<1>2. /\ a \in ActSet /\ a.pe = pe /\ a.kind = m.acts[r].kind /\ a.ss = m.acts[r].ss
      /\ a.sp = m.acts[r].sp
  <2>1. m.acts[r] \in ActSet
    BY <1>0, ElementOfSeq
  <2> QED BY <2>1 DEF ActSet
<1> HIDE DEF a, c
<1>3. /\ as \in Seq(ActSet) /\ Len(as) = r /\ as[r] = a
      /\ \A i \in 1 .. r - 1 : as[i] = m.acts[i]
  BY <1>0, <1>2, ExceptSeq
<1>4. n = [m EXCEPT !.cpu = c, !.acts = as, !.client = client_]
  BY DEF a, c
<1> HIDE DEF as
<1>5. /\ n \in MachineSet /\ n.cpu = c /\ n.acts = as /\ n.mem = m.mem
      /\ n.rm = m.rm /\ n.depth = m.depth /\ n.str = m.str /\ n.frames = m.frames
      /\ n.wild = m.wild /\ n.in_default = m.in_default /\ n.transferred = m.transferred
  <2>0. m \in MachineSet /\ c \in Machine /\ as \in Seq(ActSet)
    BY <1>0, <1>1, <1>3
  <2>1. n \in MachineSet
    BY <1>4, <2>0 DEF MachineSet
  <2>2. /\ n.cpu = c /\ n.acts = as /\ n.mem = m.mem
        /\ n.rm = m.rm /\ n.depth = m.depth /\ n.str = m.str /\ n.frames = m.frames
        /\ n.wild = m.wild /\ n.in_default = m.in_default /\ n.transferred = m.transferred
    BY <1>4, <2>0 DEF MachineSet
  <2> QED BY <2>1, <2>2
<1>6. Body(n)
  <2>1. /\ Len(n.acts) = Len(m.acts)
        /\ \A i \in 1 .. Len(m.acts) - 1 : n.acts[i] = m.acts[i]
        /\ n.acts[Len(m.acts)].kind = m.acts[Len(m.acts)].kind
        /\ n.acts[Len(m.acts)].pe = n.cpu.pe
        /\ n.acts[Len(m.acts)].ss = m.acts[Len(m.acts)].ss
        /\ n.acts[Len(m.acts)].sp = m.acts[Len(m.acts)].sp
    BY <1>1, <1>2, <1>3, <1>5
  <2>2. n.cpu.at = m.cpu.at /\ n.cpu.ss = m.cpu.ss /\ n.cpu.sp = m.cpu.sp
    BY <1>1, <1>5
  <2> QED BY <1>0, <1>5, <2>1, <2>2, SwitchedKeeps
<1>7. Flags(n)
  BY <1>0, <1>5 DEF Flags
<1> QED BY <1>5, <1>6, <1>7 DEF Good

(* A hook the guest went to gives the CPU back to it.                      *)
LEMMA UnwindBody ==
  ASSUME Polite, NEW m, Body(m), AtHook(m.cpu)
  PROVE  /\ Return(m) \in MachineSet /\ Body(Return(m)) /\ SameHost(Return(m), m)
         /\ Return(m).cpu.at = Guest(Len(m.acts)) /\ Return(m).acts = m.acts
<1> DEFINE n == Return(m)  p == Guest(Len(m.acts))
<1>0. m \in MachineSet /\ Holds(m.mem, m.cpu.ss, m.cpu.sp, p)
  BY BodyFacts, AtGuestHook
<1> HIDE DEF p
<1>1. /\ n \in MachineSet /\ n.cpu.at = p /\ n.cpu.pe = m.cpu.pe /\ n.cpu.ss = m.cpu.ss
      /\ n.cpu.sp = m.cpu.sp - 1
      /\ n.mem = [m.mem EXCEPT ![m.cpu.ss] = Popped(m.mem[m.cpu.ss], m.cpu.sp)]
      /\ n.acts = m.acts /\ n.rm = m.rm /\ n.str = m.str /\ SameHost(n, m)
  BY <1>0, ReturnFields
<1> HIDE DEF n
<1>2. n.depth = m.depth /\ n.frames = m.frames /\ n.wild = m.wild
  BY <1>1 DEF SameHost
<1>3. n.cpu.at = Guest(Len(m.acts))
  BY <1>1 DEF p
<1>4. Body(n)
  BY <1>1, <1>2, <1>3, UnwoundKeeps
<1> QED BY <1>1, <1>3, <1>4 DEF n

(* The IRET of a hook resumes the guest code that went there.              *)
LEMMA UnwindGood ==
  ASSUME Polite, NEW m, Good(m), AtHook(m.cpu)
  PROVE  Return(m) \in MachineSet /\ Good(Return(m))
<1>0. Body(m) /\ Flags(m)
  BY DEF Good
<1>1. Return(m) \in MachineSet /\ Body(Return(m)) /\ SameHost(Return(m), m)
      /\ Return(m).acts = m.acts
  BY <1>0, UnwindBody
<1>2. Flags(Return(m))
  BY <1>0, <1>1, FlagsSame
<1> QED BY <1>1, <1>2 DEF Good

(* What is in a slot, or in no slot.                                       *)
LEMMA SlotFacts ==
  /\ FreeSlot \in SlotSet /\ Boot \in Machine
  /\ \A s \in SlotSet : s.saved \in Machine /\ s.unwind \in BOOLEAN
<1>1. 1 \in Stacks /\ Guest(1) \in Places
  <2>1. 1 \in 1 .. MaxActs
    BY PlaceFacts
  <2> QED BY <2>1, PlaceFacts
<1>2. Boot \in Machine
  BY <1>1 DEF Boot, Machine
<1> QED BY <1>2 DEF FreeSlot, SlotSet

(* The host's hook behind a real-mode procedure resumes the caller, which  *)
(* is never left at the default handler.                                   *)
LEMMA RmReturnGood ==
  ASSUME Polite, NEW m, Good(m), m.cpu.at = RmRet
  PROVE  /\ RmReturn(m) \in MachineSet /\ Good(RmReturn(m))
         /\ RmReturn(m).cpu.at = Guest(Len(m.acts))
<1> DEFINE d == m.depth - 1  slot == m.rm[m.depth - 1]
           regs == [m.rm EXCEPT ![m.depth - 1] = FreeSlot]
           b == [m EXCEPT !.depth = m.depth - 1, !.cpu = slot.saved, !.rm = regs]
<1>0. /\ Body(m) /\ Flags(m) /\ m \in MachineSet /\ Len(m.acts) \in Nat
      /\ m.depth \in Nat /\ m.depth <= RmSlots /\ RmSlots \in Nat
      /\ m.rm \in [0 .. RmSlots - 1 -> SlotSet]
  BY BodyFacts, MachineFields DEF Good
<1>1. m.depth # 0
  <2>1. m.depth = ProcsTo(m.acts, Len(m.acts)) + 1 /\ ProcsTo(m.acts, Len(m.acts)) \in Nat
    BY <1>0, ProcsStep DEF Body, Counted
  <2> QED BY <2>1
<1>2. d \in 0 .. RmSlots - 1 /\ d \in 0 .. m.depth - 1 /\ d \in Nat
  BY <1>0, <1>1
<1>3. /\ slot \in SlotSet /\ slot.saved \in Machine
      /\ slot.saved.at.code \in {"guest", "default"}
      /\ slot.unwind <=> slot.saved.at.code = "default"
  <2>1. slot \in SlotSet
    BY <1>0, <1>2
  <2>2. /\ slot.saved.at.code \in {"guest", "default"}
        /\ slot.unwind <=> slot.saved.at.code = "default"
    BY <1>0, <1>2 DEF Body, Marked
  <2> HIDE DEF slot
  <2> QED BY <2>1, <2>2, SlotFacts
<1>4. RmReturn(m) = IF slot.unwind THEN Return(b) ELSE b
  <2>1. b = [m EXCEPT !.depth = @ - 1, !.cpu = m.rm[m.depth - 1].saved,
                      !.rm[m.depth - 1] = FreeSlot]
    OBVIOUS
  <2> HIDE DEF b
  <2> QED BY <1>1, <2>1 DEF RmReturn
<1>5. regs \in [0 .. RmSlots - 1 -> SlotSet]
  BY <1>0, <1>2, SlotFacts
<1> HIDE DEF slot, regs
<1>6. /\ b \in MachineSet /\ b.cpu = slot.saved /\ b.depth = m.depth - 1 /\ b.rm = regs
      /\ b.acts = m.acts /\ b.mem = m.mem /\ b.str = m.str /\ b.frames = m.frames
      /\ b.wild = m.wild /\ b.in_default = m.in_default /\ b.transferred = m.transferred
      /\ b.pmint = m.pmint
  BY <1>0, <1>2, <1>3, <1>5 DEF MachineSet
<1> HIDE DEF b
<1>7. Body(b) /\ b.cpu.at.code \in {"guest", "default"}
  <2>1. b.cpu = m.rm[m.depth - 1].saved
    BY <1>6 DEF slot
  <2>2. b.rm = [m.rm EXCEPT ![m.depth - 1] = FreeSlot]
    BY <1>6 DEF regs
  <2> QED BY <1>0, <1>6, <2>1, <2>2, RmReturnedKeeps
<1>8. Flags(b)
  BY <1>0, <1>6 DEF Flags, ChildMode
<1>9. CASE slot.unwind
  <2>1. AtHook(b.cpu)
    BY <1>3, <1>6, <1>9 DEF AtHook
  <2>2. Return(b) \in MachineSet /\ Body(Return(b)) /\ SameHost(Return(b), b)
        /\ Return(b).cpu.at = Guest(Len(b.acts)) /\ Return(b).acts = b.acts
    BY <1>7, <2>1, UnwindBody
  <2>3. Flags(Return(b))
    BY <1>7, <1>8, <2>2, FlagsSame
  <2> QED BY <1>4, <1>6, <1>9, <2>2, <2>3 DEF Good
<1>10. CASE ~slot.unwind
  <2>1. b.cpu.at.code = "guest"
    BY <1>3, <1>6, <1>10
  <2>2. b.cpu.at = Guest(Len(b.acts))
    BY <1>7, <2>1, InGuestCode
  <2> QED BY <1>4, <1>6, <1>7, <1>8, <1>10, <2>2 DEF Good
<1> QED BY <1>9, <1>10

(* The callback's entry, and the hook behind it.                           *)
LEMMA CallBackGood ==
  ASSUME NEW m, Good(m), m.cpu.at = CbEntry,
         NEW laid, laid = [m EXCEPT !.str = [at |-> CbEntry, ss |-> m.cpu.ss, sp |-> m.cpu.sp],
                                    !.cpu.pe = TRUE, !.cpu.ss = CbStack, !.cpu.sp = 0]
  PROVE  /\ m.cb /\ Enter(Push(laid, CbRet), "callback") \in MachineSet
         /\ Good(Enter(Push(laid, CbRet), "callback"))
<1> DEFINE s == [at |-> CbEntry, ss |-> m.cpu.ss, sp |-> m.cpu.sp]
           c == [m.cpu EXCEPT !.pe = TRUE, !.ss = CbStack, !.sp = 0]
           p == CbRet  x == Push(laid, p)  n == Enter(x, "callback")
           a == Added(x, "callback")
<1>0. /\ m \in MachineSet /\ Body(m) /\ Flags(m) /\ m.cpu \in Machine
      /\ m.cpu.ss \in Stacks /\ m.cpu.sp \in Nat /\ m.mem \in [Stacks -> Seq(Places)]
      /\ CbEntry \in Places /\ CbStack \in Stacks /\ p \in Places
  BY BodyFacts, MachineFields, PlaceFacts DEF Good
<1>1. m.cb /\ Len(m.acts) < MaxActs /\ m.cpu.at.code = "cbentry"
  BY <1>0, PlaceFacts DEF Body, Resting
<1>2. s \in StrSet /\ s.ss = m.cpu.ss /\ s.sp = m.cpu.sp
  BY <1>0 DEF StrSet
<1>3. c \in Machine /\ c.pe = TRUE /\ c.ss = CbStack /\ c.sp = 0
  BY <1>0 DEF Machine
<1>4. laid = [m EXCEPT !.str = s, !.cpu = c]
  BY <1>0 DEF MachineSet, Machine
<1> HIDE DEF s, c, p
<1>5. /\ laid \in MachineSet /\ laid.cpu = c /\ laid.str = s /\ laid.mem = m.mem
      /\ laid.acts = m.acts /\ laid.rm = m.rm /\ SameHost(laid, m)
  <2>0. m \in MachineSet /\ s \in StrSet /\ c \in Machine
    BY <1>0, <1>2, <1>3
  <2>1. laid \in MachineSet
    BY <1>4, <2>0 DEF MachineSet
  <2>2. /\ laid.cpu = c /\ laid.str = s /\ laid.mem = m.mem
        /\ laid.acts = m.acts /\ laid.rm = m.rm
    BY <1>0, <1>4 DEF MachineSet
  <2>3. SameHost(laid, m)
    BY <1>0, <1>4 DEF MachineSet, SameHost
  <2> QED BY <2>1, <2>2, <2>3
<1>6. laid.cpu.sp <= Len(laid.mem[laid.cpu.ss])
  <2>1. Len(m.mem[CbStack]) \in Nat
    BY <1>0, LenProperties
  <2> QED BY <1>3, <1>5, <2>1
<1>7. /\ x \in MachineSet /\ x.cpu = [laid.cpu EXCEPT !.sp = laid.cpu.sp + 1]
      /\ x.mem = [laid.mem EXCEPT ![laid.cpu.ss] =
                    Put(laid.mem[laid.cpu.ss], laid.cpu.sp + 1, p)]
      /\ x.acts = laid.acts /\ x.rm = laid.rm /\ x.str = laid.str /\ SameHost(x, laid)
  <2>1. laid \in MachineSet /\ p \in Places
    BY <1>0, <1>5
  <2>2. x \in MachineSet /\ Pushed(x, laid, p)
    BY <1>6, <2>1, PushFields
  <2> HIDE DEF x
  <2> QED BY <2>2 DEF Pushed
<1> HIDE DEF x
<1>8. x.cpu.pe = TRUE /\ x.cpu.ss = CbStack /\ x.cpu.sp = 1
  <2>1. x.cpu = [c EXCEPT !.sp = c.sp + 1]
    BY <1>5, <1>7
  <2>2. c.sp + 1 = 1
    BY <1>3
  <2> QED BY <2>2, <1>3, <2>1 DEF Machine
<1>9. x.mem = [m.mem EXCEPT ![CbStack] = Put(m.mem[CbStack], 1, p)]
  BY <1>3, <1>5, <1>7
<1>10. a.kind = "callback" /\ a.pe = TRUE /\ a.ss = CbStack /\ a.sp = 1
  BY <1>8 DEF Added
<1>11. /\ n \in MachineSet /\ n.cpu.at = Guest(Len(x.acts) + 1)
       /\ n.cpu.pe = x.cpu.pe /\ n.cpu.ss = x.cpu.ss /\ n.cpu.sp = x.cpu.sp /\ n.mem = x.mem
       /\ n.acts = Append(x.acts, a) /\ n.rm = x.rm /\ n.str = x.str /\ SameHost(n, x)
  <2>1. "callback" \in Kinds /\ Len(x.acts) < MaxActs
    BY <1>1, <1>5, <1>7 DEF Kinds
  <2>2. x \in MachineSet
    BY <1>7
  <2> QED BY <2>1, <2>2, EnterFields
<1> HIDE DEF n, a
<1>12. SameHost(n, m)
  BY <1>5, <1>7, <1>11 DEF SameHost
<1>13. Body(n)
  <2>1. /\ n.mem = [m.mem EXCEPT ![CbStack] = Put(m.mem[CbStack], 1, CbRet)]
        /\ n.acts = Append(m.acts, a) /\ n.cpu.at = Guest(Len(m.acts) + 1)
    BY <1>5, <1>7, <1>9, <1>11 DEF p
  <2>2. /\ n.cpu.pe /\ n.cpu.ss = CbStack /\ n.cpu.sp = 1
        /\ n.str.ss = m.cpu.ss /\ n.str.sp = m.cpu.sp
    BY <1>2, <1>5, <1>7, <1>8, <1>11
  <2>3. n.rm = m.rm /\ n.depth = m.depth /\ n.frames = m.frames /\ n.wild = m.wild
    BY <1>5, <1>7, <1>11, <1>12 DEF SameHost
  <2> QED BY <1>0, <1>1, <1>10, <1>11, <2>1, <2>2, <2>3, CalledBackKeeps
<1>14. Flags(n)
  <2>1. n.acts = Append(m.acts, a) /\ m.acts \in Seq(ActSet) /\ Len(m.acts) \in Nat
    BY <1>0, <1>5, <1>7, <1>11, MachineFields, BodyFacts
  <2>2. \A i \in 1 .. Len(m.acts) : n.acts[i] = m.acts[i]
    BY <2>1
  <2>3. /\ Len(m.acts) \in 1 .. Len(m.acts)
        /\ \A i \in 1 .. Len(m.acts) - 1 : i \in 1 .. Len(m.acts)
    BY <1>0, <2>1, BodyFacts
  <2> QED BY <1>0, <1>12, <2>2, <2>3, FlagsSame
<1> QED BY <1>1, <1>11, <1>13, <1>14 DEF Good, n, x, p

(* The hook after a callback resumes the far caller.                       *)
LEMMA CbReturnGood ==
  ASSUME NEW m, Good(m), m.cpu.at = CbRet,
         NEW n, n = [m EXCEPT !.cpu.pe = FALSE, !.cpu.at = m.str.at,
                              !.cpu.ss = m.str.ss, !.cpu.sp = m.str.sp, !.str = NoStructure]
  PROVE  n \in MachineSet /\ Good(n)
<1> DEFINE c == [m.cpu EXCEPT !.pe = FALSE, !.at = m.str.at, !.ss = m.str.ss, !.sp = m.str.sp]
<1>0. /\ m \in MachineSet /\ Body(m) /\ Flags(m) /\ m.cpu \in Machine
      /\ m.str.at \in Places /\ m.str.ss \in Stacks /\ m.str.sp \in Nat
  BY BodyFacts, MachineFields DEF Good
<1>1. /\ c \in Machine /\ c.pe = FALSE /\ c.at = m.str.at /\ c.ss = m.str.ss
      /\ c.sp = m.str.sp
  BY <1>0 DEF Machine
<1>2. NoStructure \in StrSet
  <2>1. 1 \in 1 .. MaxActs
    BY PlaceFacts
  <2>2. 1 \in Stacks /\ CbEntry \in Places
    BY <2>1, PlaceFacts
  <2> QED BY <2>2 DEF NoStructure, StrSet
<1>3. n = [m EXCEPT !.cpu = c, !.str = NoStructure]
  BY <1>0 DEF MachineSet, Machine
<1> HIDE DEF c
<1>4. /\ n \in MachineSet /\ n.cpu = c /\ n.acts = m.acts /\ n.mem = m.mem /\ n.rm = m.rm
      /\ SameHost(n, m)
  BY <1>0, <1>1, <1>2, <1>3 DEF MachineSet, SameHost
<1>5. Body(n)
  BY <1>0, <1>1, <1>4, CbReturnedKeeps
<1>6. Flags(n)
  BY <1>0, <1>4, FlagsSame
<1> QED BY <1>4, <1>5, <1>6 DEF Good

(* The stack a guest supplies, and the scratch stack when it is free.      *)
LEMMA OwnStack ==
  ASSUME NEW m, Body(m), Len(m.acts) < MaxActs
  PROVE  Fresh(m, Len(m.acts) + 1, Len(m.acts) + 1) /\ Len(m.acts) + 1 \in Stacks
<1> DEFINE r == Len(m.acts)
<1>0. r \in Nat /\ MaxActs \in Nat /\ r < MaxActs /\ Stacked(m, r)
  BY BodyFacts
<1>1. \A i \in 1 .. r : m.acts[i].ss # r + 1
  <2>1. \A i \in 1 .. r : m.acts[i].ss \in {Scratch, CbStack} \union (1 .. i)
    BY <1>0 DEF Stacked
  <2>2. r + 1 # Scratch /\ r + 1 # CbStack
    BY <1>0 DEF Scratch, CbStack
  <2> HIDE DEF r
  <2>3. \A i \in 1 .. r : \A j \in 1 .. i : j # r + 1
    BY <1>0
  <2> QED BY <2>1, <2>2, <2>3
<1> HIDE DEF r
<1>2. Fresh(m, r + 1, r + 1)
  <2>1. (r + 1) - 1 = r
    BY <1>0
  <2> QED BY <1>1, <2>1 DEF Fresh
<1>3. r + 1 \in Stacks
  <2>1. r + 1 \in 1 .. MaxActs
    BY <1>0
  <2> QED BY <2>1, PlaceFacts
<1> QED BY <1>2, <1>3 DEF r

(* EXEC, from guest code, from the stub and from the default handler.      *)
LEMMA ExecGood ==
  ASSUME NEW m, Body(m), m.cpu.at.code \in {"guest", "default", "stubiret"},
         Len(m.acts) < MaxActs, Len(m.frames) < MaxExec,
         NEW d \in BOOLEAN, d <=> m.cpu.at.code = "default",
         d => m.frames = <<>> /\ m.in_default /\ ~m.transferred, ~d => Flags(m),
         NEW pe \in BOOLEAN, m.frames # <<>> => pe = ChildMode(m),
         m.frames = <<>> /\ pe => m.in_default \/ m.pmint[33] = NoHook
  PROVE  Exec(m, d, pe) \in MachineSet /\ Good(Exec(m, d, pe))
<1> DEFINE f == [cpu |-> m.cpu, default |-> d, acts |-> Len(m.acts)]
           c == [m.cpu EXCEPT !.pe = pe, !.ss = Len(m.acts) + 1, !.sp = 0]
           fs == Append(m.frames, f)
           x == [m EXCEPT !.frames = Append(@, f), !.cpu.pe = pe,
                          !.cpu.ss = Len(m.acts) + 1, !.cpu.sp = 0]
           kind == IF pe THEN "lost" ELSE "main"
           n == Enter(x, kind)  a == Added(x, kind)
<1>0. /\ m \in MachineSet /\ m.cpu \in Machine /\ Len(m.acts) \in Nat
      /\ m.frames \in Seq(FrameSet) /\ Len(m.frames) \in Nat /\ Len(m.acts) + 1 \in Stacks
  BY BodyFacts, MachineFields, OwnStack
<1>1. f \in FrameSet /\ f.cpu = m.cpu /\ f.default = d /\ f.acts = Len(m.acts)
  BY <1>0 DEF FrameSet
<1>2. c \in Machine /\ c.pe = pe /\ c.ss = Len(m.acts) + 1 /\ c.sp = 0
  BY <1>0 DEF Machine
<1>3. x = [m EXCEPT !.frames = fs, !.cpu = c]
  BY <1>0 DEF MachineSet, Machine
<1>4. Exec(m, d, pe) = n
  BY DEF Exec
<1> HIDE DEF f, c
<1>5. /\ fs \in Seq(FrameSet) /\ Len(fs) = Len(m.frames) + 1 /\ fs[Len(m.frames) + 1] = f
      /\ \A i \in 1 .. Len(m.frames) : fs[i] = m.frames[i]
  BY <1>0, <1>1
<1> HIDE DEF fs, x
<1>6. /\ x \in MachineSet /\ x.cpu = c /\ x.frames = fs /\ x.mem = m.mem /\ x.acts = m.acts
      /\ x.rm = m.rm /\ x.depth = m.depth /\ x.str = m.str /\ x.wild = m.wild
      /\ x.in_default = m.in_default /\ x.transferred = m.transferred /\ x.pmint = m.pmint
  BY <1>0, <1>2, <1>3, <1>5 DEF MachineSet
<1>7. a.kind \in Programs /\ a.pe = pe /\ a.ss = Len(m.acts) + 1 /\ a.sp = 0
  BY <1>2, <1>6 DEF Added
<1>8. /\ n \in MachineSet /\ n.cpu.at = Guest(Len(x.acts) + 1)
      /\ n.cpu.pe = x.cpu.pe /\ n.cpu.ss = x.cpu.ss /\ n.cpu.sp = x.cpu.sp /\ n.mem = x.mem
      /\ n.acts = Append(x.acts, a) /\ n.rm = x.rm /\ n.str = x.str /\ SameHost(n, x)
  <2>1. kind \in Kinds /\ Len(x.acts) < MaxActs
    BY <1>6 DEF Kinds
  <2> QED BY <1>6, <2>1, EnterFields
<1> HIDE DEF n, a, kind
<1>9. /\ n.depth = m.depth /\ n.wild = m.wild /\ n.frames = fs
      /\ n.in_default = m.in_default /\ n.transferred = m.transferred /\ n.pmint = m.pmint
  BY <1>6, <1>8 DEF SameHost
<1>10. Body(n) /\ ChildMode(n) = (IF m.frames = <<>> THEN a.pe ELSE ChildMode(m))
  <2>1. /\ n.mem = m.mem /\ n.acts = Append(m.acts, a) /\ n.cpu.at = Guest(Len(m.acts) + 1)
        /\ n.cpu.pe = a.pe /\ n.cpu.ss = a.ss /\ n.cpu.sp = 0 /\ n.rm = m.rm /\ n.str = m.str
    BY <1>2, <1>6, <1>7, <1>8
  <2>2. f \in FrameSet /\ n.frames = Append(m.frames, f) /\ f.cpu = m.cpu /\ f.acts = Len(m.acts)
        /\ (f.default <=> m.cpu.at.code = "default")
    BY <1>1, <1>9 DEF fs
  <2>3. /\ n \in MachineSet /\ a.kind \in Programs /\ (m.frames # <<>> => a.pe = ChildMode(m))
        /\ a.ss = Len(m.acts) + 1 /\ a.sp = 0 /\ n.depth = m.depth /\ n.wild = m.wild
    BY <1>7, <1>8, <1>9
  <2> QED BY <2>1, <2>2, <2>3, ExecKeeps
<1>11. Flags(n)
  <2>1. \A i \in 1 .. Len(m.frames) + 1 : i \in 1 .. Len(m.frames) \/ i = Len(m.frames) + 1
    BY <1>0
  <2>2. Len(m.frames) + 1 \in 1 .. Len(n.frames) /\ n.frames[Len(m.frames) + 1].default = d
    BY <1>0, <1>1, <1>5, <1>9
  <2>3. \A i \in 1 .. Len(m.frames) : i \in 1 .. Len(n.frames) /\ n.frames[i] = m.frames[i]
    BY <1>0, <1>5, <1>9
  <2>4. CASE d
    BY <1>9, <2>2, <2>4 DEF Flags
  <2>5. CASE ~d
    <3>1. (\E i \in 1 .. Len(n.frames) : n.frames[i].default)
            <=> \E i \in 1 .. Len(m.frames) : m.frames[i].default
      BY <1>5, <1>9, <2>1, <2>2, <2>3, <2>5
    <3>2. n.frames # <<>> /\ ChildMode(n) => n.in_default \/ n.pmint[33] = NoHook
      BY <1>7, <1>9, <1>10, <2>5 DEF Flags
    <3> QED BY <1>9, <2>5, <3>1, <3>2 DEF Flags
  <2> QED BY <2>4, <2>5
<1> QED BY <1>4, <1>8, <1>10, <1>11 DEF Good

(* n is m with a procedure called on stack ss.                             *)
Called(n, m, ss) ==
  /\ n.mem = [m.mem EXCEPT ![ss] = Put(m.mem[ss], 1, RmRet)]
  /\ n.acts = Append(m.acts, [kind |-> "proc", pe |-> FALSE, ss |-> ss, sp |-> 1])
  /\ n.cpu.at = Guest(Len(m.acts) + 1) /\ ~n.cpu.pe
  /\ n.cpu.ss = ss /\ n.cpu.sp = 1
  /\ n.rm = [m.rm EXCEPT ![m.depth] = [saved |-> m.cpu, unwind |-> FALSE]]
  /\ n.depth = m.depth + 1 /\ n.transferred
  /\ n.in_default = m.in_default /\ n.str = m.str
  /\ n.frames = m.frames /\ n.wild = m.wild

(* The machine after rm_call.                                              *)
LEMMA RmCallFields ==
  ASSUME NEW m \in MachineSet, Len(m.acts) < MaxActs, m.depth < RmSlots, NEW own \in BOOLEAN,
         NEW ss \in Stacks, ss = IF own THEN Len(m.acts) + 1 ELSE Scratch
  PROVE  RmCall(m, own) \in MachineSet /\ Called(RmCall(m, own), m, ss)
<1> DEFINE slot == [saved |-> m.cpu, unwind |-> FALSE]
           regs == [m.rm EXCEPT ![m.depth] = slot]
           c == [m.cpu EXCEPT !.pe = FALSE, !.sp = 0, !.ss = ss]
           p == RmRet
           y == [m EXCEPT !.rm[m.depth] = slot,
                          !.depth = @ + 1, !.transferred = TRUE,
                          !.cpu.pe = FALSE, !.cpu.sp = 0,
                          !.cpu.ss = IF own THEN Len(m.acts) + 1 ELSE Scratch]
           x == Push(y, p)  n == Enter(x, "proc")  a == Added(x, "proc")
<1>0. /\ m.cpu \in Machine /\ m.mem \in [Stacks -> Seq(Places)] /\ p \in Places
      /\ m.rm \in [0 .. RmSlots - 1 -> SlotSet] /\ m.depth \in Nat /\ RmSlots \in Nat
  BY MachineFields, PlaceFacts
<1>1. regs \in [0 .. RmSlots - 1 -> SlotSet]
  <2>1. slot \in SlotSet
    BY <1>0 DEF SlotSet
  <2>2. m.depth \in 0 .. RmSlots - 1
    BY <1>0
  <2> HIDE DEF slot
  <2> QED BY <1>0, <2>1, <2>2
<1>2. c \in Machine /\ c.pe = FALSE /\ c.ss = ss /\ c.sp = 0
  BY <1>0 DEF Machine
<1>3. RmCall(m, own) = n
  <2>1. ~(m.depth >= RmSlots)
    BY <1>0
  <2> QED BY <2>1 DEF RmCall
<1>4. y = [m EXCEPT !.rm = regs, !.depth = m.depth + 1, !.transferred = TRUE, !.cpu = c]
  BY <1>0 DEF MachineSet, Machine
<1> HIDE DEF c, p, y, regs
<1>5. /\ y \in MachineSet /\ y.cpu = c /\ y.rm = regs /\ y.depth = m.depth + 1
      /\ y.transferred = TRUE /\ y.in_default = m.in_default /\ y.mem = m.mem
      /\ y.acts = m.acts /\ y.str = m.str /\ y.frames = m.frames /\ y.wild = m.wild
  <2> DEFINE e == m.depth + 1
  <2>1. e \in Nat /\ y = [m EXCEPT !.rm = regs, !.depth = e, !.transferred = TRUE, !.cpu = c]
    BY <1>0, <1>4
  <2> HIDE DEF e
  <2>2. y \in MachineSet
    BY <1>1, <1>2, <2>1 DEF MachineSet
  <2>3. /\ y.cpu = c /\ y.rm = regs /\ y.depth = e
        /\ y.transferred = TRUE /\ y.in_default = m.in_default /\ y.mem = m.mem
        /\ y.acts = m.acts /\ y.str = m.str /\ y.frames = m.frames /\ y.wild = m.wild
    BY <2>1 DEF MachineSet
  <2> QED BY <2>2, <2>3 DEF e
<1>6. y.cpu.sp <= Len(y.mem[y.cpu.ss])
  <2>1. Len(m.mem[ss]) \in Nat
    BY <1>0, LenProperties
  <2> QED BY <1>2, <1>5, <2>1
<1>7. /\ x \in MachineSet /\ x.cpu = [y.cpu EXCEPT !.sp = y.cpu.sp + 1]
      /\ x.mem = [y.mem EXCEPT ![y.cpu.ss] = Put(y.mem[y.cpu.ss], y.cpu.sp + 1, p)]
      /\ x.acts = y.acts /\ x.rm = y.rm /\ x.str = y.str /\ SameHost(x, y)
  <2>1. x \in MachineSet /\ Pushed(x, y, p)
    BY <1>0, <1>5, <1>6, PushFields
  <2> HIDE DEF x
  <2> QED BY <2>1 DEF Pushed
<1> HIDE DEF x
<1>8. x.cpu.pe = FALSE /\ x.cpu.ss = ss /\ x.cpu.sp = 1
  <2>1. x.cpu = [c EXCEPT !.sp = c.sp + 1]
    BY <1>5, <1>7
  <2>2. c.sp + 1 = 1
    BY <1>2
  <2> QED BY <1>2, <2>1, <2>2 DEF Machine
<1>9. x.mem = [m.mem EXCEPT ![ss] = Put(m.mem[ss], 1, p)]
  BY <1>2, <1>5, <1>7
<1>10. a = [kind |-> "proc", pe |-> FALSE, ss |-> ss, sp |-> 1]
  BY <1>8 DEF Added
<1>11. /\ n \in MachineSet /\ n.cpu.at = Guest(Len(x.acts) + 1)
       /\ n.cpu.pe = x.cpu.pe /\ n.cpu.ss = x.cpu.ss /\ n.cpu.sp = x.cpu.sp /\ n.mem = x.mem
       /\ n.acts = Append(x.acts, a) /\ n.rm = x.rm /\ n.str = x.str /\ SameHost(n, x)
  <2>1. "proc" \in Kinds /\ Len(x.acts) < MaxActs
    BY <1>5, <1>7 DEF Kinds
  <2> QED BY <1>7, <2>1, EnterFields
<1> HIDE DEF n, a
<1>12. SameHost(n, y)
  BY <1>7, <1>11 DEF SameHost
<1>13. /\ n.mem = [m.mem EXCEPT ![ss] = Put(m.mem[ss], 1, RmRet)]
       /\ n.acts = Append(m.acts, [kind |-> "proc", pe |-> FALSE, ss |-> ss, sp |-> 1])
       /\ n.cpu.at = Guest(Len(m.acts) + 1)
  BY <1>5, <1>7, <1>9, <1>10, <1>11 DEF p
<1>14. /\ ~n.cpu.pe /\ n.cpu.ss = ss /\ n.cpu.sp = 1
       /\ n.rm = [m.rm EXCEPT ![m.depth] = [saved |-> m.cpu, unwind |-> FALSE]]
       /\ n.str = m.str
  BY <1>5, <1>7, <1>8, <1>11 DEF regs
<1>15. /\ n.depth = m.depth + 1 /\ n.transferred /\ n.in_default = m.in_default
       /\ n.frames = m.frames /\ n.wild = m.wild
  BY <1>5, <1>12 DEF SameHost
<1> QED BY <1>3, <1>11, <1>13, <1>14, <1>15 DEF Called

(* The default handler is done, and nothing was handed over: unwound.      *)
LEMMA TailGood ==
  ASSUME Polite, NEW m, Body(m), AtHook(m.cpu), m.cpu.at.code # "cbentry",
         ~m.transferred, m.frames = <<>>
  PROVE  DefaultTail(m) \in MachineSet /\ Good(DefaultTail(m))
<1> DEFINE out == [m EXCEPT !.in_default = FALSE, !.transferred = FALSE]
<1>0. m \in MachineSet
  BY BodyFacts
<1>1. DefaultTail(m) = Return(out)
  BY DEF DefaultTail
<1> HIDE DEF out
<1>2. /\ out \in MachineSet /\ out.in_default = FALSE /\ out.transferred = FALSE
      /\ out.cpu = m.cpu /\ out.mem = m.mem /\ out.acts = m.acts /\ out.rm = m.rm
      /\ out.depth = m.depth /\ out.str = m.str /\ out.frames = m.frames /\ out.wild = m.wild
  BY <1>0 DEF out, MachineSet
<1>3. Body(out) /\ AtHook(out.cpu)
  <2>1. AtHook(out.cpu)
    BY <1>2
  <2>2. Body(out)
    BY <1>2, SettingsKeep
  <2> QED BY <2>1, <2>2
<1>4. /\ Return(out) \in MachineSet /\ Body(Return(out)) /\ SameHost(Return(out), out)
      /\ Return(out).acts = out.acts
  BY <1>3, UnwindBody
<1>5. Flags(out)
  <2>1. Len(out.frames) = 0
    BY <1>2
  <2> QED BY <1>2, <2>1 DEF Flags
<1>6. Flags(Return(out))
  BY <1>3, <1>4, <1>5, FlagsSame
<1> QED BY <1>1, <1>4, <1>6 DEF Good

(* A procedure called by guest code.                                       *)
LEMMA CallGood ==
  ASSUME NEW m, Good(m), m.cpu.at.code = "guest", m.frames = <<>>,
         Len(m.acts) < MaxActs \/ m.depth = RmSlots,
         NEW own \in BOOLEAN, own \/ Fresh(m, Len(m.acts) + 1, Scratch)
  PROVE  RmCall(m, own) \in MachineSet /\ Good(RmCall(m, own))
<1>0. /\ Body(m) /\ Flags(m) /\ m \in MachineSet /\ m.depth \in Nat /\ RmSlots \in Nat
      /\ m.depth <= RmSlots
  BY BodyFacts DEF Good
<1>1. CASE m.depth = RmSlots
  <2>1. RmCall(m, own) = m
    BY <1>0, <1>1 DEF RmCall
  <2> QED BY <1>0, <2>1
<1>2. CASE m.depth # RmSlots
  <2> DEFINE ss == IF own THEN Len(m.acts) + 1 ELSE Scratch
             n == RmCall(m, own)
             a == [kind |-> "proc", pe |-> FALSE, ss |-> ss, sp |-> 1]
  <2>1. m.depth < RmSlots /\ Len(m.acts) < MaxActs
    BY <1>0, <1>2
  <2>2. /\ ss \in {Scratch, Len(m.acts) + 1} /\ ss \in Stacks /\ Fresh(m, Len(m.acts) + 1, ss)
        /\ ss = IF own THEN Len(m.acts) + 1 ELSE Scratch
    BY <1>0, <2>1, OwnStack, PlaceFacts
  <2>3. a.kind = "proc" /\ ~a.pe /\ a.ss = ss /\ a.sp = 1
    OBVIOUS
  <2> HIDE DEF ss
  <2>4. /\ n \in MachineSet
        /\ n.mem = [m.mem EXCEPT ![ss] = Put(m.mem[ss], 1, RmRet)]
        /\ n.acts = Append(m.acts, a)
        /\ n.cpu.at = Guest(Len(m.acts) + 1) /\ ~n.cpu.pe
        /\ n.cpu.ss = ss /\ n.cpu.sp = 1
        /\ n.rm = [m.rm EXCEPT ![m.depth] = [saved |-> m.cpu, unwind |-> FALSE]]
        /\ n.depth = m.depth + 1 /\ n.transferred
        /\ n.in_default = m.in_default /\ n.str = m.str
        /\ n.frames = m.frames /\ n.wild = m.wild
    <3>1. m \in MachineSet /\ own \in BOOLEAN
      BY <1>0
    <3>2. ss \in Stacks /\ ss = IF own THEN Len(m.acts) + 1 ELSE Scratch
      BY <2>2
    <3>3. n \in MachineSet /\ Called(n, m, ss)
      BY <2>1, <3>1, <3>2, RmCallFields
    <3> HIDE DEF n
    <3> QED BY <3>3 DEF Called
  <2> HIDE DEF n, a
  <2>5. Body(n)
    <3>1. FALSE <=> m.cpu.at.code = "default"
      OBVIOUS
    <3>2. m.cpu.at.code \in {"guest", "default"}
      OBVIOUS
    <3> QED BY <1>0, <2>1, <2>2, <2>3, <2>4, <3>1, <3>2, CalledKeeps
  <2>6. Flags(n)
    <3>1. Len(n.frames) = 0 /\ ~m.in_default /\ Len(m.frames) = 0
      BY <1>0, <2>4 DEF Flags
    <3> QED BY <2>4, <3>1 DEF Flags
  <2> QED BY <2>4, <2>5, <2>6 DEF Good, n
<1> QED BY <1>1, <1>2

(* A procedure called through the default handler: the IRET is owed.       *)
LEMMA CallTailGood ==
  ASSUME Polite, NEW m, Body(m), m.cpu.at.code = "default", m.frames = <<>>, ~m.transferred,
         Len(m.acts) < MaxActs \/ m.depth = RmSlots,
         NEW own \in BOOLEAN, own \/ Fresh(m, Len(m.acts) + 1, Scratch)
  PROVE  DefaultTail(RmCall(m, own)) \in MachineSet /\ Good(DefaultTail(RmCall(m, own)))
<1>0. /\ m \in MachineSet /\ m.depth \in Nat /\ RmSlots \in Nat /\ m.depth <= RmSlots
      /\ m.rm \in [0 .. RmSlots - 1 -> SlotSet] /\ m.cpu \in Machine
  BY BodyFacts, MachineFields
<1>1. CASE m.depth = RmSlots
  <2>1. RmCall(m, own) = m
    BY <1>0, <1>1 DEF RmCall
  <2>2. AtHook(m.cpu) /\ m.cpu.at.code # "cbentry"
    BY DEF AtHook
  <2> QED BY <2>1, <2>2, TailGood
<1>2. CASE m.depth # RmSlots
  <2> DEFINE ss == IF own THEN Len(m.acts) + 1 ELSE Scratch
             x == RmCall(m, own)
             a == [kind |-> "proc", pe |-> FALSE, ss |-> ss, sp |-> 1]
             regs == [m.rm EXCEPT ![m.depth] = [saved |-> m.cpu, unwind |-> TRUE]]
             out == [x EXCEPT !.in_default = FALSE, !.transferred = FALSE]
             n == [out EXCEPT !.rm[x.depth - 1].unwind = TRUE]
  <2>1. m.depth < RmSlots /\ Len(m.acts) < MaxActs
    BY <1>0, <1>2
  <2>2. /\ ss \in {Scratch, Len(m.acts) + 1} /\ ss \in Stacks /\ Fresh(m, Len(m.acts) + 1, ss)
        /\ ss = IF own THEN Len(m.acts) + 1 ELSE Scratch
    BY <2>1, OwnStack, PlaceFacts
  <2>3. a.kind = "proc" /\ ~a.pe /\ a.ss = ss /\ a.sp = 1
    OBVIOUS
  <2> HIDE DEF ss
  <2>4. /\ x \in MachineSet
        /\ x.mem = [m.mem EXCEPT ![ss] = Put(m.mem[ss], 1, RmRet)]
        /\ x.acts = Append(m.acts, a)
        /\ x.cpu.at = Guest(Len(m.acts) + 1) /\ ~x.cpu.pe
        /\ x.cpu.ss = ss /\ x.cpu.sp = 1
        /\ x.rm = [m.rm EXCEPT ![m.depth] = [saved |-> m.cpu, unwind |-> FALSE]]
        /\ x.depth = m.depth + 1 /\ x.transferred
        /\ x.in_default = m.in_default /\ x.str = m.str
        /\ x.frames = m.frames /\ x.wild = m.wild
    <3>1. m \in MachineSet
      BY <1>0
    <3>2. x \in MachineSet /\ Called(x, m, ss)
      BY <2>1, <2>2, <3>1, RmCallFields
    <3> HIDE DEF x
    <3> QED BY <3>2 DEF Called
  <2> HIDE DEF x, a
  <2>5. DefaultTail(x) = n
    BY <1>0, <2>4 DEF DefaultTail
  <2>6. regs \in [0 .. RmSlots - 1 -> SlotSet]
    <3>1. m.depth \in 0 .. RmSlots - 1 /\ [saved |-> m.cpu, unwind |-> TRUE] \in SlotSet
      BY <1>0, <2>1 DEF SlotSet
    <3> QED BY <1>0, <3>1
  <2>7. n = [x EXCEPT !.in_default = FALSE, !.transferred = FALSE, !.rm = regs]
    <3>1. x.depth - 1 = m.depth /\ m.depth \in 0 .. RmSlots - 1
      <4>1. m.depth \in 0 .. RmSlots - 1 /\ (m.depth + 1) - 1 = m.depth
        BY <1>0, <2>1
      <4> QED BY <2>4, <4>1
    <3>2. x.rm[m.depth] = [saved |-> m.cpu, unwind |-> FALSE]
      BY <1>0, <2>4, <3>1
    <3>3. [x.rm EXCEPT ![m.depth].unwind = TRUE] = regs
      BY <1>0, <2>4, <3>1, <3>2
    <3>4. n = [out EXCEPT !.rm = [x.rm EXCEPT ![m.depth].unwind = TRUE]]
      BY <2>4, <3>1 DEF MachineSet
    <3> HIDE DEF regs
    <3> QED BY <2>4, <3>3, <3>4 DEF MachineSet
  <2> HIDE DEF n, out, regs
  <2>8. /\ n \in MachineSet /\ n.cpu = x.cpu /\ n.mem = x.mem /\ n.acts = x.acts /\ n.rm = regs
        /\ n.depth = x.depth /\ n.str = x.str /\ n.frames = x.frames /\ n.wild = x.wild
        /\ n.in_default = FALSE /\ n.transferred = FALSE
    BY <2>4, <2>6, <2>7 DEF MachineSet
  <2>9. Body(n)
    <3>1. TRUE <=> m.cpu.at.code = "default"
      OBVIOUS
    <3>2. m.cpu.at.code \in {"guest", "default"}
      OBVIOUS
    <3>3. /\ n.mem = [m.mem EXCEPT ![ss] = Put(m.mem[ss], 1, RmRet)]
          /\ n.acts = Append(m.acts, a)
          /\ n.cpu.at = Guest(Len(m.acts) + 1) /\ ~n.cpu.pe
          /\ n.cpu.ss = ss /\ n.cpu.sp = 1
          /\ n.rm = [m.rm EXCEPT ![m.depth] = [saved |-> m.cpu, unwind |-> TRUE]]
          /\ n.depth = m.depth + 1 /\ n.str = m.str
          /\ n.frames = m.frames /\ n.wild = m.wild
      BY <2>4, <2>8 DEF regs
    <3> QED BY <2>1, <2>2, <2>3, <2>8, <3>1, <3>2, <3>3, CalledKeeps
  <2>10. Flags(n)
    <3>1. Len(n.frames) = 0
      BY <2>4, <2>8
    <3> QED BY <2>8, <3>1 DEF Flags
  <2> QED BY <2>5, <2>8, <2>9, <2>10 DEF Good, x
<1> QED BY <1>1, <1>2

(* A program's end: the parent's CPU, and the default handler's tail when  *)
(* EXEC was called from inside it.                                         *)
LEMMA EndChildGood ==
  ASSUME Polite, NEW m, Good(m), m.frames # <<>>
  PROVE  EndChild(m) \in MachineSet /\ Good(EndChild(m))
<1> DEFINE g == Len(m.frames)  f == m.frames[Len(m.frames)]
           as == SubSeq(m.acts, 1, f.acts)  fs == SubSeq(m.frames, 1, g - 1)
           p == [m EXCEPT !.cpu = f.cpu, !.acts = SubSeq(@, 1, f.acts), !.frames = Front(@)]
<1>0. /\ m \in MachineSet /\ Body(m) /\ Flags(m) /\ Len(m.acts) \in Nat
      /\ m.acts \in Seq(ActSet) /\ m.frames \in Seq(FrameSet) /\ g \in Nat
  BY BodyFacts, MachineFields DEF Good
<1>1. g \in 1 .. g /\ g # 0
  BY <1>0, EmptySeq
<1>2. /\ f \in FrameSet /\ f.acts \in Nat /\ f.acts < Len(m.acts) /\ f.cpu \in Machine
      /\ f.default \in BOOLEAN /\ f.acts \in 1 .. Len(m.acts) - 1
  <2>1. f \in FrameSet
    BY <1>0, <1>1, ElementOfSeq
  <2>2. Waiting(m, g)
    BY <1>0, <1>1 DEF Body, Suspended
  <2>3. f.acts \in Nat /\ f.acts < Len(m.acts) /\ f.acts \in 1 .. Len(m.acts) - 1
    BY <1>0, <1>1, <2>2, BodyFacts DEF Waiting
  <2> HIDE DEF f
  <2> QED BY <2>1, <2>3 DEF FrameSet
<1>3. p = [m EXCEPT !.cpu = f.cpu, !.acts = as, !.frames = fs]
  BY DEF Front
<1>4. EndChild(m) = IF f.default THEN DefaultTail(p) ELSE p
  BY DEF EndChild
<1> HIDE DEF p, f, g
<1>5. /\ as \in Seq(ActSet) /\ Len(as) = f.acts /\ \A i \in 1 .. f.acts : as[i] = m.acts[i]
  <2> DEFINE k == f.acts  ks == SubSeq(m.acts, 1, k)
  <2>1. k \in 1 .. Len(m.acts) - 1 /\ k \in Nat
    BY <1>2
  <2>2. as = ks
    BY DEF as
  <2> HIDE DEF k
  <2>3. \A i \in 1 .. k : m.acts[i] \in ActSet
    BY <1>0, <2>1, ElementOfSeq
  <2>4. /\ ks \in Seq(ActSet)
        /\ Len(ks) = IF 1 <= k THEN k - 1 + 1 ELSE 0
        /\ \A i \in 1 .. k - 1 + 1 : ks[i] = m.acts[1 + i - 1]
    BY <1>0, <2>1, <2>3, SubSeqProperties
  <2> HIDE DEF ks
  <2>5. ks \in Seq(ActSet) /\ Len(ks) = k /\ \A i \in 1 .. k : ks[i] = m.acts[i]
    BY <1>0, <2>1, <2>4
  <2> QED BY <2>2, <2>5 DEF k
<1>6. /\ fs \in Seq(FrameSet) /\ Len(fs) = g - 1 /\ \A i \in 1 .. g - 1 : fs[i] = m.frames[i]
  <2>1. \A i \in 1 .. g - 1 : m.frames[i] \in FrameSet
    BY <1>0, <1>1, ElementOfSeq DEF g
  <2>2. /\ fs \in Seq(FrameSet)
        /\ Len(fs) = IF 1 <= g - 1 THEN (g - 1) - 1 + 1 ELSE 0
        /\ \A i \in 1 .. (g - 1) - 1 + 1 : fs[i] = m.frames[1 + i - 1]
    BY <1>0, <1>1, <2>1, SubSeqProperties
  <2> HIDE DEF fs
  <2> QED BY <1>0, <1>1, <2>2
<1> HIDE DEF as, fs
<1>7. /\ p \in MachineSet /\ p.cpu = f.cpu /\ p.acts = as /\ p.frames = fs
      /\ p.mem = m.mem /\ p.rm = m.rm /\ p.depth = m.depth /\ p.str = m.str /\ p.wild = m.wild
      /\ p.in_default = m.in_default /\ p.transferred = m.transferred /\ p.pmint = m.pmint
  BY <1>0, <1>2, <1>3, <1>5, <1>6 DEF MachineSet
<1>8. /\ Body(p) /\ p.cpu.at.code \in {"guest", "default", "stubiret"}
      /\ f.default <=> p.cpu.at.code = "default"
      /\ f.default => p.frames = <<>>
      /\ p.frames # <<>> => ChildMode(p) = ChildMode(m)
  <2>1. m.frames # <<>> /\ p \in MachineSet
    BY <1>7
  <2>2. /\ p.cpu = m.frames[Len(m.frames)].cpu /\ Len(p.acts) = m.frames[Len(m.frames)].acts
        /\ \A i \in 1 .. m.frames[Len(m.frames)].acts : p.acts[i] = m.acts[i]
        /\ p.mem = m.mem /\ p.rm = m.rm /\ p.depth = m.depth /\ p.str = m.str /\ p.wild = m.wild
    BY <1>5, <1>7 DEF f
  <2>3. /\ Len(p.frames) = Len(m.frames) - 1
        /\ \A i \in 1 .. Len(m.frames) - 1 : p.frames[i] = m.frames[i]
    BY <1>6, <1>7 DEF g
  <2>4. /\ Body(p)
        /\ p.cpu.at.code \in {"guest", "default", "stubiret"}
        /\ m.frames[Len(m.frames)].default <=> p.cpu.at.code = "default"
        /\ m.frames[Len(m.frames)].default => p.frames = <<>>
        /\ p.frames # <<>> => m.frames # <<>> /\ ChildMode(p) = ChildMode(m)
    BY <1>0, <2>1, <2>2, <2>3, ChildEndedKeeps
  <2> QED BY <2>4 DEF f
<1>9. CASE f.default
  <2>1. m.in_default /\ ~m.transferred
    BY <1>0, <1>1, <1>9 DEF Flags, f, g
  <2>2. AtHook(p.cpu) /\ p.cpu.at.code # "cbentry"
    BY <1>8, <1>9 DEF AtHook
  <2> QED BY <1>4, <1>7, <1>8, <1>9, <2>1, <2>2, TailGood
<1>10. CASE ~f.default
  <2>1. \A i \in 1 .. g : i \in 1 .. g - 1 \/ i = g
    BY <1>0
  <2>2. \A i \in 1 .. g - 1 : i \in 1 .. g
    BY <1>0
  <2>3. (\E i \in 1 .. Len(p.frames) : p.frames[i].default)
          <=> \E i \in 1 .. g : m.frames[i].default
    <3>1. m.frames[g].default = f.default
      BY DEF f, g
    <3> QED BY <1>6, <1>7, <1>10, <2>1, <2>2, <3>1
  <2>4. Flags(p)
    BY <1>0, <1>7, <1>8, <2>3 DEF Flags, g
  <2> QED BY <1>4, <1>7, <1>8, <1>10, <2>4 DEF Good
<1> QED BY <1>2, <1>9, <1>10

(* What a service that changes only the host's settings leaves alone.      *)
Settings(n, m) ==
  /\ n.cpu = m.cpu /\ n.mem = m.mem /\ n.acts = m.acts /\ n.rm = m.rm /\ n.depth = m.depth
  /\ n.str = m.str /\ n.frames = m.frames /\ n.wild = m.wild
  /\ n.in_default = m.in_default /\ n.transferred = m.transferred

(* Re-pointing the vector, setting a hook and the callback change settings *)
(* only.                                                                   *)
LEMMA SettingsFields ==
  ASSUME NEW m \in MachineSet, Len(m.frames) <= MaxExec
  PROVE  /\ [m EXCEPT !.ivt = TRUE] \in MachineSet /\ Settings([m EXCEPT !.ivt = TRUE], m)
         /\ [m EXCEPT !.ivt = TRUE].pmint = m.pmint
         /\ \A b \in BOOLEAN : /\ [m EXCEPT !.cb = b] \in MachineSet
                               /\ Settings([m EXCEPT !.cb = b], m)
                               /\ [m EXCEPT !.cb = b].pmint = m.pmint
         /\ \A q \in Request(49) : q.fn = "set_vector" =>
              /\ SetVector(m, q, Len(m.frames) + 1) \in MachineSet
              /\ Settings(SetVector(m, q, Len(m.frames) + 1), m)
<1>0. /\ Len(m.frames) \in Nat /\ MaxExec \in Nat
      /\ m.pmint \in [Vectors -> NoHook .. MaxExec + 1]
  BY MachineFields, PlaceFacts
<1>1. /\ [m EXCEPT !.ivt = TRUE] \in MachineSet /\ Settings([m EXCEPT !.ivt = TRUE], m)
      /\ [m EXCEPT !.ivt = TRUE].pmint = m.pmint
  BY DEF MachineSet, Settings
<1>2. ASSUME NEW b \in BOOLEAN
      PROVE  /\ [m EXCEPT !.cb = b] \in MachineSet /\ Settings([m EXCEPT !.cb = b], m)
             /\ [m EXCEPT !.cb = b].pmint = m.pmint
  BY DEF MachineSet, Settings
<1>3. ASSUME NEW q \in Request(49), q.fn = "set_vector"
      PROVE  /\ SetVector(m, q, Len(m.frames) + 1) \in MachineSet
             /\ Settings(SetVector(m, q, Len(m.frames) + 1), m)
  <2> DEFINE w == [m.pmint EXCEPT ![q.vec] = IF q.hook THEN Len(m.frames) + 1 ELSE NoHook]
  <2>1. w \in [Vectors -> NoHook .. MaxExec + 1]
    <3>1. (IF q.hook THEN Len(m.frames) + 1 ELSE NoHook) \in NoHook .. MaxExec + 1
      BY <1>0 DEF NoHook
    <3> QED BY <1>0, <3>1
  <2>2. SetVector(m, q, Len(m.frames) + 1) = [m EXCEPT !.pmint = w]
    BY DEF SetVector
  <2> HIDE DEF w
  <2> QED BY <2>1, <2>2 DEF MachineSet, Settings
<1> QED BY <1>1, <1>2, <1>3

(* And those changes keep the machine good.                                *)
LEMMA SettingsBody ==
  ASSUME NEW m, Body(m), NEW n \in MachineSet, Settings(n, m), m.cpu.at.code # "cbentry"
  PROVE  /\ Body(n)
         /\ Flags(m) /\ (m.frames = <<>> \/ n.pmint = m.pmint) => Flags(n)
<1>1. Body(n)
  BY SettingsKeep DEF Settings
<1>2. Flags(m) /\ (m.frames = <<>> \/ n.pmint = m.pmint) => Flags(n)
  BY DEF Flags, Settings, ChildMode
<1> QED BY <1>1, <1>2

(* The requests, and what a service does with each.                        *)
LEMMA RequestFacts ==
  ASSUME NEW v \in Vectors, NEW q \in Request(v)
  PROVE  /\ v = 33 => q.fn \in {"service", "exec", "exit", "repoint"}
         /\ v = 49 => q.fn \in {"allocate_cb", "free_cb", "set_vector", "call", "simulate"}
         /\ v = 49 /\ q.fn = "call" => q.own \in BOOLEAN
         /\ v \in {33, 49}
<1>1. CASE v = 33
  BY <1>1 DEF Request, DosRequests, Named
<1>2. CASE v = 49
  <2>1. q \in DpmiRequests
    BY <1>2 DEF Request
  <2> QED BY <1>2, <2>1 DEF DpmiRequests, Named
<1> QED BY <1>1, <1>2 DEF Vectors

After(d, x) == IF d THEN DefaultTail(x) ELSE x
Execs(m, q) == q.fn = "exec" \/ (q.fn = "simulate" /\ q.int = "exec" /\ ~m.ivt)

InMode(m, q) == m.cpu.pe /\ q.fn = "exec"

(* The services, one by one: what a request makes of the machine.          *)
LEMMA ServeShape ==
  ASSUME NEW m, NEW v \in Vectors, NEW q \in Request(v), NEW d \in BOOLEAN
  PROVE  \/ Execs(m, q) /\ Serve(m, q, d) = Exec(m, d, InMode(m, q))
         \/ v = 33 /\ q.fn = "exit" /\ Serve(m, q, d) = EndChild(After(d, m))
         \/ Serve(m, q, d) = After(d, [m EXCEPT !.ivt = TRUE])
         \/ /\ v = 49 /\ q.fn = "set_vector"
            /\ Serve(m, q, d) = After(d, SetVector(m, q, Len(m.frames) + 1))
         \/ /\ v = 49 /\ q.fn = "call" /\ q.own \in BOOLEAN
            /\ Serve(m, q, d) = After(d, RmCall(m, q.own))
         \/ \E b \in BOOLEAN : Serve(m, q, d) = After(d, [m EXCEPT !.cb = b])
         \/ Serve(m, q, d) = After(d, m)
<1>0. /\ v = 33 => q.fn \in {"service", "exec", "exit", "repoint"}
      /\ v = 49 => q.fn \in {"allocate_cb", "free_cb", "set_vector", "call", "simulate"}
      /\ v = 49 /\ q.fn = "call" => q.own \in BOOLEAN
      /\ v \in {33, 49}
  BY RequestFacts
<1>1. CASE Execs(m, q)
  BY <1>1 DEF Serve, Execs, InMode
<1>2. CASE ~Execs(m, q) /\ q.fn = "exit"
  BY <1>0, <1>2 DEF Serve, Execs, After
<1>3. CASE ~Execs(m, q) /\ q.fn = "repoint"
  BY <1>3 DEF Serve, Execs, After
<1>4. CASE ~Execs(m, q) /\ q.fn = "set_vector"
  BY <1>0, <1>4 DEF Serve, Execs, After
<1>5. CASE ~Execs(m, q) /\ q.fn = "call"
  BY <1>0, <1>5 DEF Serve, Execs, After
<1>6. CASE ~Execs(m, q) /\ q.fn \in {"allocate_cb", "free_cb"}
  BY <1>6 DEF Serve, Execs, After
<1>7. CASE ~Execs(m, q) /\ q.fn \in {"service", "simulate"}
  BY <1>7 DEF Serve, Execs, After
<1> QED BY <1>0, <1>1, <1>2, <1>3, <1>4, <1>5, <1>6, <1>7 DEF Execs

(* What a request that is served may ask for.                              *)
Allowed(m, q) ==
  /\ Execs(m, q) => Len(m.acts) < MaxActs /\ Len(m.frames) < MaxExec
  /\ q.fn = "exit" => m.frames # <<>>
  /\ q.fn = "call" => /\ Len(m.acts) < MaxActs \/ m.depth = RmSlots
                      /\ q.own \/ Fresh(m, Len(m.acts) + 1, Scratch)

(* A child's code runs in the first child's mode.                          *)
LEMMA CpuInChild ==
  ASSUME NEW m, Body(m), m.frames # <<>>
  PROVE  m.cpu.pe = ChildMode(m)
<1>1. m.acts[Len(m.acts)].pe = ChildMode(m)
  BY InChild
<1>2. m.cpu.at.code \in {"guest", "stub", "stubiret"}
  BY DEF Body, Resting
<1>3. CASE m.cpu.at.code = "guest"
  BY <1>1, <1>3, InGuestCode
<1>4. CASE m.cpu.at.code # "guest"
  <2>1. AtHook(m.cpu)
    BY <1>2, <1>4 DEF AtHook
  <2> QED BY <1>1, <2>1, AtGuestHook
<1> QED BY <1>3, <1>4

(* A service asked for by an INT n.                                        *)
LEMMA ServeGood ==
  ASSUME Polite, NEW m, Good(m), m.cpu.at.code \in {"guest", "stubiret"},
         NEW v \in Vectors, NEW q \in Request(v), Allowed(m, q),
         v = 49 => m.cpu.at.code = "guest" /\ m.frames = <<>>, ~Hooked(m, v)
  PROVE  Serve(m, q, FALSE) \in MachineSet /\ Good(Serve(m, q, FALSE))
<1> DEFINE n == Serve(m, q, FALSE)
<1> SUFFICES n \in MachineSet /\ Good(n)
  OBVIOUS
<1>0. /\ Body(m) /\ Flags(m) /\ m \in MachineSet /\ m.cpu.at.code # "cbentry"
      /\ Len(m.frames) <= MaxExec
  BY BodyFacts DEF Good, Body, Sized
<1>1. \A x : After(FALSE, x) = x
  BY DEF After
<1>2. \A x \in MachineSet :
         Settings(x, m) /\ (m.frames = <<>> \/ x.pmint = m.pmint) => Good(x)
  BY <1>0, SettingsBody DEF Good
<1>3. CASE Execs(m, q) /\ n = Exec(m, FALSE, InMode(m, q))
  <2>1. FALSE <=> m.cpu.at.code = "default"
    OBVIOUS
  <2>2. m.cpu.at.code \in {"guest", "default", "stubiret"}
    OBVIOUS
  <2>3. Len(m.acts) < MaxActs /\ Len(m.frames) < MaxExec
    BY <1>3 DEF Allowed
  <2>4. m.cpu.pe \in BOOLEAN /\ (v = 49 => q.fn # "exec") /\ (v = 33 => q.fn = "exec")
        /\ v \in {33, 49}
    BY <1>0, <1>3, RequestFacts, MachineFields DEF Execs
  <2>5. InMode(m, q) \in BOOLEAN
    BY DEF InMode
  <2>6. m.frames # <<>> => InMode(m, q) = ChildMode(m)
    BY <1>0, <2>4, CpuInChild DEF InMode
  <2>7. InMode(m, q) => m.in_default \/ m.pmint[33] = NoHook
    BY <2>4 DEF InMode, Hooked
  <2>8. Exec(m, FALSE, InMode(m, q)) \in MachineSet /\ Good(Exec(m, FALSE, InMode(m, q)))
    BY <1>0, <2>1, <2>2, <2>3, <2>5, <2>6, <2>7, ExecGood
  <2> QED BY <1>3, <2>8
<1>4. CASE q.fn = "exit" /\ n = EndChild(m)
  BY <1>4, EndChildGood DEF Allowed
<1>5. CASE n = [m EXCEPT !.ivt = TRUE]
  BY <1>0, <1>2, <1>5, SettingsFields
<1>6. CASE v = 49 /\ q.fn = "set_vector" /\ n = SetVector(m, q, Len(m.frames) + 1)
  BY <1>0, <1>2, <1>6, SettingsFields
<1>7. CASE v = 49 /\ q.fn = "call" /\ q.own \in BOOLEAN /\ n = RmCall(m, q.own)
  BY <1>7, CallGood DEF Allowed
<1>8. CASE \E b \in BOOLEAN : n = [m EXCEPT !.cb = b]
  BY <1>0, <1>2, <1>8, SettingsFields
<1>9. CASE n = m
  BY <1>0, <1>9
<1>10. \/ Execs(m, q) /\ n = Exec(m, FALSE, InMode(m, q))
       \/ v = 33 /\ q.fn = "exit" /\ n = EndChild(m)
       \/ n = [m EXCEPT !.ivt = TRUE]
       \/ v = 49 /\ q.fn = "set_vector" /\ n = SetVector(m, q, Len(m.frames) + 1)
       \/ v = 49 /\ q.fn = "call" /\ q.own \in BOOLEAN /\ n = RmCall(m, q.own)
       \/ \E b \in BOOLEAN : n = [m EXCEPT !.cb = b]
       \/ n = m
  <2>1. \/ Execs(m, q) /\ Serve(m, q, FALSE) = Exec(m, FALSE, InMode(m, q))
        \/ v = 33 /\ q.fn = "exit" /\ Serve(m, q, FALSE) = EndChild(After(FALSE, m))
        \/ Serve(m, q, FALSE) = After(FALSE, [m EXCEPT !.ivt = TRUE])
        \/ /\ v = 49 /\ q.fn = "set_vector"
           /\ Serve(m, q, FALSE) = After(FALSE, SetVector(m, q, Len(m.frames) + 1))
        \/ /\ v = 49 /\ q.fn = "call" /\ q.own \in BOOLEAN
           /\ Serve(m, q, FALSE) = After(FALSE, RmCall(m, q.own))
        \/ \E b \in BOOLEAN : Serve(m, q, FALSE) = After(FALSE, [m EXCEPT !.cb = b])
        \/ Serve(m, q, FALSE) = After(FALSE, m)
    <3>1. FALSE \in BOOLEAN
      OBVIOUS
    <3> QED BY <3>1, ServeShape, Zenon
  <2> QED BY <1>1, <2>1, Zenon DEF n
<1> HIDE DEF n
<1> QED BY <1>3, <1>4, <1>5, <1>6, <1>7, <1>8, <1>9, <1>10, Zenon

(* A service asked for by the default handler, and the handler's tail.     *)
LEMMA ServeTailGood ==
  ASSUME Polite, NEW m, Body(m), m.cpu.at.code = "default", m.frames = <<>>,
         m.in_default, ~m.transferred,
         NEW v \in Vectors, NEW q \in Request(v), Allowed(m, q)
  PROVE  Serve(m, q, TRUE) \in MachineSet /\ Good(Serve(m, q, TRUE))
<1> DEFINE n == Serve(m, q, TRUE)
<1> SUFFICES n \in MachineSet /\ Good(n)
  OBVIOUS
<1>0. m \in MachineSet /\ m.cpu.at.code # "cbentry" /\ Len(m.frames) <= MaxExec
  BY BodyFacts DEF Body, Sized
<1>1. \A x : After(TRUE, x) = DefaultTail(x)
  BY DEF After
<1>2. \A x \in MachineSet : Settings(x, m) => DefaultTail(x) \in MachineSet /\ Good(DefaultTail(x))
  <2>1. ASSUME NEW x \in MachineSet, Settings(x, m)
        PROVE  DefaultTail(x) \in MachineSet /\ Good(DefaultTail(x))
    <3>1. Body(x)
      BY <1>0, <2>1, SettingsBody
    <3>2. AtHook(x.cpu) /\ x.cpu.at.code # "cbentry" /\ ~x.transferred /\ x.frames = <<>>
      BY <2>1 DEF Settings, AtHook
    <3> QED BY <3>1, <3>2, TailGood
  <2> QED BY <2>1
<1>3. CASE Execs(m, q) /\ n = Exec(m, TRUE, InMode(m, q))
  <2>1. TRUE <=> m.cpu.at.code = "default"
    OBVIOUS
  <2>2. m.cpu.at.code \in {"guest", "default", "stubiret"}
    OBVIOUS
  <2>3. Len(m.acts) < MaxActs /\ Len(m.frames) < MaxExec
    BY <1>3 DEF Allowed
  <2>4. InMode(m, q) \in BOOLEAN
    BY DEF InMode
  <2>5. Exec(m, TRUE, InMode(m, q)) \in MachineSet /\ Good(Exec(m, TRUE, InMode(m, q)))
    BY <2>1, <2>2, <2>3, <2>4, ExecGood
  <2> QED BY <1>3, <2>5
<1>4. CASE q.fn = "exit"
  BY <1>4 DEF Allowed
<1>5. CASE n = DefaultTail([m EXCEPT !.ivt = TRUE])
  BY <1>0, <1>2, <1>5, SettingsFields
<1>6. CASE v = 49 /\ q.fn = "set_vector" /\ n = DefaultTail(SetVector(m, q, Len(m.frames) + 1))
  BY <1>0, <1>2, <1>6, SettingsFields
<1>7. CASE v = 49 /\ q.fn = "call" /\ q.own \in BOOLEAN /\ n = DefaultTail(RmCall(m, q.own))
  BY <1>7, CallTailGood DEF Allowed
<1>8. CASE \E b \in BOOLEAN : n = DefaultTail([m EXCEPT !.cb = b])
  BY <1>0, <1>2, <1>8, SettingsFields
<1>9. CASE n = DefaultTail(m)
  <2>1. Settings(m, m)
    BY DEF Settings
  <2> QED BY <1>0, <1>2, <1>9, <2>1
<1>10. \/ Execs(m, q) /\ n = Exec(m, TRUE, InMode(m, q))
       \/ q.fn = "exit"
       \/ n = DefaultTail([m EXCEPT !.ivt = TRUE])
       \/ v = 49 /\ q.fn = "set_vector" /\ n = DefaultTail(SetVector(m, q, Len(m.frames) + 1))
       \/ v = 49 /\ q.fn = "call" /\ q.own \in BOOLEAN /\ n = DefaultTail(RmCall(m, q.own))
       \/ \E b \in BOOLEAN : n = DefaultTail([m EXCEPT !.cb = b])
       \/ n = DefaultTail(m)
  <2>1. \/ Execs(m, q) /\ Serve(m, q, TRUE) = Exec(m, TRUE, InMode(m, q))
        \/ v = 33 /\ q.fn = "exit" /\ Serve(m, q, TRUE) = EndChild(After(TRUE, m))
        \/ Serve(m, q, TRUE) = After(TRUE, [m EXCEPT !.ivt = TRUE])
        \/ /\ v = 49 /\ q.fn = "set_vector"
           /\ Serve(m, q, TRUE) = After(TRUE, SetVector(m, q, Len(m.frames) + 1))
        \/ /\ v = 49 /\ q.fn = "call" /\ q.own \in BOOLEAN
           /\ Serve(m, q, TRUE) = After(TRUE, RmCall(m, q.own))
        \/ \E b \in BOOLEAN : Serve(m, q, TRUE) = After(TRUE, [m EXCEPT !.cb = b])
        \/ Serve(m, q, TRUE) = After(TRUE, m)
    <3>1. TRUE \in BOOLEAN
      OBVIOUS
    <3> QED BY <3>1, ServeShape, Zenon
  <2> QED BY <1>1, <2>1, Zenon DEF n
<1> HIDE DEF n
<1> QED BY <1>3, <1>4, <1>5, <1>6, <1>7, <1>8, <1>9, <1>10, Zenon

----------------------------------------------------------------------------
(* The initial machine, and the steps: each handler makes the state it     *)
(* finds into a good one.                                                  *)
LEMMA NowFields ==
  /\ Now.cpu = cpu /\ Now.mem = mem /\ Now.acts = acts /\ Now.rm = rm /\ Now.depth = rm_depth
  /\ Now.transferred = rm_transferred /\ Now.in_default = in_default /\ Now.pmint = pmint
  /\ Now.client = client /\ Now.cb = cb /\ Now.str = str /\ Now.ivt = ivt
  /\ Now.frames = frames /\ Now.wild = wild
BY DEF Now

(* Nothing is suspended, nothing is entered: the first program runs.       *)
LEMMA InitCalls == Init => CallsInv
<1> DEFINE a == [kind |-> "main", pe |-> FALSE, ss |-> 1, sp |-> 0]
<1> SUFFICES ASSUME Init PROVE Body(Now) /\ Flags(Now)
  BY DEF CallsInv
<1>0. /\ MaxActs \in Nat \ {0} /\ RmSlots \in Nat \ {0} /\ MaxExec \in Nat
      /\ 1 \in Stacks /\ CbEntry \in Places /\ Boot \in Machine /\ FreeSlot \in SlotSet
  BY PlaceFacts, SlotFacts
<1>1. /\ Now.cpu = Boot /\ Now.mem = [s \in Stacks |-> <<>>] /\ Now.acts = <<a>>
      /\ Now.rm = [i \in 0 .. RmSlots - 1 |-> FreeSlot] /\ Now.depth = 0
      /\ Now.transferred = FALSE /\ Now.in_default = FALSE
      /\ Now.str = NoStructure /\ Now.frames = <<>> /\ Now.wild = FALSE
  BY NowFields DEF Init
<1>2. a \in ActSet
  BY <1>0 DEF ActSet, Kinds
<1>3. Now \in MachineSet
  <2>1. cpu \in Machine /\ mem \in [Stacks -> Seq(Places)] /\ acts \in Seq(ActSet)
    BY <1>0, <1>2 DEF Init
  <2>2. rm \in [0 .. RmSlots - 1 -> SlotSet] /\ rm_depth \in Nat
    BY <1>0 DEF Init
  <2>3. rm_transferred \in BOOLEAN /\ in_default \in BOOLEAN /\ client \in Nat /\ cb \in BOOLEAN
    BY DEF Init
  <2>4. pmint \in [Vectors -> NoHook .. MaxExec + 1]
    <3>1. NoHook \in NoHook .. MaxExec + 1
      BY <1>0 DEF NoHook
    <3> QED BY <3>1 DEF Init
  <2>5. str \in StrSet /\ ivt \in BOOLEAN /\ frames \in Seq(FrameSet) /\ wild \in BOOLEAN
    <3>1. NoStructure \in StrSet
      BY <1>0 DEF NoStructure, StrSet
    <3>2. <<>> \in Seq(FrameSet)
      OBVIOUS
    <3> QED BY <3>1, <3>2 DEF Init
  <2> QED BY <2>1, <2>2, <2>3, <2>4, <2>5 DEF Now, MachineSet
<1>4. Len(Now.acts) = 1 /\ Now.acts[1] = a /\ Len(Now.frames) = 0
  BY <1>1
<1>5. a.kind = "main" /\ a.pe = FALSE /\ a.ss = 1 /\ a.sp = 0
  OBVIOUS
<1> HIDE DEF a
<1>6. Sized(Now)
  BY <1>0, <1>1, <1>3, <1>4 DEF Sized
<1>7. Nested(Now, 1)
  BY <1>4, <1>5 DEF Nested
<1>8. Stacked(Now, 1)
  BY <1>0, <1>1, <1>4, <1>5 DEF Stacked
<1>9. ProcsTo(Now.acts, 1) = 0
  <2>1. ProcsTo(Now.acts, 0) = 0
    <3>1. {i \in 1 .. 0 : Now.acts[i].kind = "proc"} = {}
      OBVIOUS
    <3> QED BY <3>1, FS_EmptySet DEF ProcsTo
  <2>2. Now.acts[0 + 1].kind # "proc"
    BY <1>4, <1>5
  <2>3. ProcsTo(Now.acts, 0 + 1) = ProcsTo(Now.acts, 0)
    BY <2>2, ProcsStep
  <2> QED BY <2>1, <2>3
<1>10. Now.cpu.at = Guest(1) /\ Now.cpu.pe = FALSE /\ Now.cpu.ss = 1 /\ Now.cpu.sp = 0
  BY <1>1 DEF Boot
<1>11. Counted(Now) /\ Marked(Now)
  <2>1. Now.cpu.at # RmRet
    BY <1>10 DEF Guest, RmRet, Place
  <2> QED BY <1>0, <1>1, <1>4, <1>9, <2>1 DEF Counted, Marked
<1>12. Suspended(Now)
  BY <1>1, <1>4 DEF Suspended
<1>13. Resting(Now)
  BY <1>3, <1>4, <1>5, <1>10, TopRests
<1>14. Flags(Now)
  BY <1>1, <1>4 DEF Flags
<1> QED BY <1>4, <1>6, <1>7, <1>8, <1>11, <1>12, <1>13, <1>14 DEF Body

(* Above the first EXEC nobody is a client, and no hook sees INT 21h.      *)
LEMMA ChildUnhooked ==
  ASSUME NEW m, Body(m), Flags(m), m.frames # <<>>
  PROVE  m.acts[Len(m.acts)].kind \in Programs \union {"isr"} /\ ~Hooked(m, 33)
<1>1. m.acts[Len(m.acts)].kind \in Programs \union {"isr"}
  BY InChild
<1>2. m.cpu.pe = ChildMode(m)
  BY CpuInChild
<1> QED BY <1>1, <1>2 DEF Flags, Hooked

(* What the guest may ask for keeps within the bounds.                     *)
LEMMA AskedAllowed ==
  ASSUME Polite, NEW m, m.acts = acts, m.depth = rm_depth, m.frames = frames, m.ivt = ivt,
         Len(acts) \in Nat, NEW v \in Vectors, NEW q, Asked(v, q)
  PROVE  q \in Request(v) /\ Allowed(m, q)
<1>1. q \in Request(v)
  BY DEF Asked
<1>2. Execs(m, q) => Starts(q) /\ q.fn # "call"
  BY DEF Execs, Starts
<1>3. Execs(m, q) => Len(m.acts) < MaxActs /\ Len(m.frames) < MaxExec
  BY <1>2 DEF Asked, Running
<1>4. q.fn = "exit" => m.frames # <<>>
  BY DEF Asked
<1>5. q.fn = "call" => Len(m.acts) < MaxActs \/ m.depth = RmSlots
  BY DEF Asked, Starts, Running
<1>6. ~OnStack(Scratch) => Fresh(m, Len(m.acts) + 1, Scratch)
  BY DEF OnStack, Running, Fresh
<1>7. q.fn = "call" => q.own \/ Fresh(m, Len(m.acts) + 1, Scratch)
  BY <1>6 DEF Asked, Polite
<1> QED BY <1>1, <1>3, <1>4, <1>5, <1>7 DEF Allowed

(* An INT n goes to the client's hook.                                     *)
LEMMA HookStep ==
  ASSUME Polite, CallsInv, NEW v \in Vectors, IntToHook(v)
  PROVE  CallsInv'
<1> DEFINE n == Enter(Push(Now, Now.cpu.at), Handler(v))
<1>0. Good(Now) /\ Body(Now) /\ Now.cpu.at.code = "guest" /\ Len(Now.acts) < MaxActs
  BY NowFields DEF CallsInv, Good, IntToHook, MayInt, InGuest, Running
<1>1. Now.frames = <<>>
  <2>1. v = 49 => Now.frames = <<>>
    BY NowFields DEF IntToHook, MayInt, MayUseDpmi, Polite
  <2>2. v = 33 => Now.frames = <<>>
    BY <1>0, ChildUnhooked DEF Good, IntToHook
  <2> QED BY <2>1, <2>2 DEF Vectors
<1>2. Handler(v) \in {"handler21", "handler31", "isr"} /\ Handler(v) # "isr"
  BY DEF Handler
<1>3. n \in MachineSet /\ Good(n)
  BY <1>0, <1>1, <1>2, InterruptGood
<1>4. Become(n)
  BY NowFields DEF IntToHook, PmInt
<1> QED BY <1>3, <1>4, BecomesNext

(* An INT 21h in real mode goes to the handler the guest put in the table. *)
LEMMA IsrStep ==
  ASSUME Polite, CallsInv, IntToIsr
  PROVE  CallsInv'
<1> DEFINE n == Enter(Push(Now, Now.cpu.at), "isr")
<1>0. /\ Good(Now) /\ Now.cpu.at.code = "guest" /\ Len(Now.acts) < MaxActs /\ ~Now.cpu.pe
  BY NowFields DEF CallsInv, Good, IntToIsr, MayInt, InGuest, Running
<1>1. n \in MachineSet /\ Good(n)
  BY <1>0, InterruptGood
<1>2. Become(n)
  BY NowFields DEF IntToIsr
<1> QED BY <1>1, <1>2, BecomesNext

(* An INT n is served at once.                                             *)
LEMMA ServedStep ==
  ASSUME Polite, CallsInv, NEW v \in Vectors, NEW q \in Request(v), IntServed(v, q)
  PROVE  CallsInv'
<1> DEFINE n == Serve(Now, q, FALSE)
<1>0. Good(Now) /\ Now.cpu.at.code = "guest" /\ Now \in MachineSet
  BY NowFields, BodyFacts DEF CallsInv, Good, IntServed, MayInt, InGuest
<1>1. Allowed(Now, q)
  <2>1. Len(acts) \in Nat
    BY <1>0, MachineFields, NowFields
  <2>2. Asked(v, q)
    BY DEF IntServed
  <2> QED BY <2>1, <2>2, NowFields, AskedAllowed
<1>2. v = 49 => Now.frames = <<>>
  BY NowFields DEF IntServed, MayInt, MayUseDpmi, Polite
<1>3. n \in MachineSet /\ Good(n)
  BY <1>0, <1>1, <1>2, ServeGood DEF IntServed
<1>4. Become(n)
  BY DEF IntServed
<1> QED BY <1>3, <1>4, BecomesNext

(* A child ends.                                                           *)
LEMMA EndsStep ==
  ASSUME Polite, CallsInv, ProgramEnds
  PROVE  CallsInv'
<1>1. Good(Now) /\ Now.frames # <<>> /\ Become(EndChild(Now))
  BY NowFields DEF CallsInv, Good, ProgramEnds
<1>2. EndChild(Now) \in MachineSet /\ Good(EndChild(Now))
  BY <1>1, EndChildGood
<1> QED BY <1>1, <1>2, BecomesNext

(* A handler's IRET, a procedure's RETF.                                   *)
LEMMA IretStep ==
  ASSUME Polite, CallsInv, HandlerIret \/ ProcReturns
  PROVE  CallsInv'
<1>1. /\ Good(Now) /\ Now.cpu.at.code = "guest" /\ Become(Return(Leave(Now)))
      /\ Now.acts[Len(Now.acts)].kind \in {"handler21", "handler31", "isr", "proc"}
  BY NowFields DEF CallsInv, Good, HandlerIret, ProcReturns, InGuest, Act, Running
<1>2. Return(Leave(Now)) \in MachineSet /\ Good(Return(Leave(Now)))
  BY <1>1, HandlerGood, ProcGood
<1> QED BY <1>1, <1>2, BecomesNext

(* A handler jumps to the one it replaced.                                 *)
LEMMA ChainStep ==
  ASSUME Polite, CallsInv, IsrChains \/ \E v \in Vectors : HandlerChains(v)
  PROVE  CallsInv'
<1>0. Good(Now) /\ Body(Now) /\ Now.cpu.at.code = "guest"
  BY NowFields DEF CallsInv, Good, HandlerChains, IsrChains, InGuest
<1>1. CASE IsrChains
  <2>1. Now.acts[Len(Now.acts)].kind = "isr" /\ Become(Go(Leave(Now), Stub))
    BY <1>1, NowFields DEF IsrChains, Act, Running
  <2>2. Go(Leave(Now), Stub) \in MachineSet /\ Good(Go(Leave(Now), Stub))
    BY <1>0, <2>1, ChainGood, PlaceFacts
  <2> QED BY <2>1, <2>2, BecomesNext
<1>2. ASSUME NEW v \in Vectors, HandlerChains(v) PROVE CallsInv'
  <2>1. Now.acts[Len(Now.acts)].kind = Handler(v) /\ Become(Go(Leave(Now), Default(v)))
    BY <1>2, NowFields DEF HandlerChains, Act, Running
  <2>2. Handler(v) \in {"handler21", "handler31"}
    BY DEF Handler
  <2>3. Now.frames = <<>>
    BY <1>0, <2>1, <2>2, ClientFirst
  <2>4. Go(Leave(Now), Default(v)) \in MachineSet /\ Good(Go(Leave(Now), Default(v)))
    BY <1>0, <2>1, <2>2, <2>3, ChainGood, PlaceFacts
  <2> QED BY <2>1, <2>4, BecomesNext
<1> QED BY <1>1, <1>2

(* Real-mode code calls the callback.                                      *)
LEMMA FarCallStep ==
  ASSUME Polite, CallsInv, FarCall
  PROVE  CallsInv'
<1> DEFINE n == Go(Push(Now, Now.cpu.at), CbEntry)
<1>0. /\ Good(Now) /\ Now.cpu.at.code = "guest" /\ Len(Now.acts) < MaxActs /\ ~Now.cpu.pe
      /\ Now.frames = <<>> /\ Now.cb /\ Now \in MachineSet
  BY NowFields, BodyFacts DEF CallsInv, Good, FarCall, InGuest, Running, MayUseDpmi, Polite
<1>1. Fresh(Now, Len(Now.acts) + 1, CbStack)
  <2>1. Len(Now.acts) \in Nat
    BY <1>0, MachineFields
  <2> QED BY <2>1, NowFields DEF FarCall, Polite, OnStack, Running, Fresh
<1>2. n \in MachineSet /\ Good(n)
  BY <1>0, <1>1, FarCallGood
<1>3. Become(n)
  BY NowFields DEF FarCall
<1> QED BY <1>2, <1>3, BecomesNext

(* The callback procedure's IRET.                                          *)
LEMMA CallbackReturnsStep ==
  ASSUME Polite, CallsInv, CallbackReturns
  PROVE  CallsInv'
<1> DEFINE n == [Return(Leave(Now)) EXCEPT !.str.at = Now.mem[Now.str.ss][Now.str.sp],
                                           !.str.sp = @ - 1,
                                           !.mem[Now.str.ss] = Popped(@, Now.str.sp)]
<1>0. /\ Good(Now) /\ Now.cpu.at.code = "guest"
      /\ Now.acts[Len(Now.acts)].kind = "callback"
  BY NowFields DEF CallsInv, Good, CallbackReturns, InGuest, Act, Running
<1>1. Become(n)
  BY NowFields DEF CallbackReturns
<1>2. n = [Return(Leave(Now)) EXCEPT !.str.at = Now.mem[Now.str.ss][Now.str.sp],
                                     !.str.sp = @ - 1,
                                     !.mem[Now.str.ss] = Popped(@, Now.str.sp)]
  OBVIOUS
<1> HIDE DEF n
<1>3. n \in MachineSet /\ Good(n)
  BY <1>0, <1>2, CallbackGood
<1> QED BY <1>1, <1>3, BecomesNext

(* The switch to protected mode.                                           *)
LEMMA SwitchStep ==
  ASSUME Polite, CallsInv, SwitchToPm
  PROVE  CallsInv'
<1> DEFINE k == Len(Now.acts)
           n == [Now EXCEPT !.cpu = [Now.cpu EXCEPT !.pe = TRUE],
                            !.acts = [Now.acts EXCEPT ![Len(Now.acts)] = [@ EXCEPT !.pe = TRUE]],
                            !.client = Len(Now.frames) + 1]
<1>0. /\ Good(Now) /\ Now.cpu.at.code = "guest" /\ Now.frames = <<>>
      /\ Now.acts[Len(Now.acts)].kind \in {"main", "proc"}
  BY NowFields DEF CallsInv, Good, SwitchToPm, InGuest, Act, Running, MayUseDpmi, Polite
<1>1. Len(Now.frames) + 1 \in Nat
  BY <1>0
<1>2. Become(n)
  <2>1. n = [Now EXCEPT !.cpu.pe = TRUE, !.acts[Running].pe = TRUE, !.client = Program]
    BY NowFields DEF Running, Program
  <2> QED BY <2>1 DEF SwitchToPm
<1>3. n = [Now EXCEPT !.cpu = [Now.cpu EXCEPT !.pe = TRUE],
                      !.acts = [Now.acts EXCEPT ![Len(Now.acts)] = [@ EXCEPT !.pe = TRUE]],
                      !.client = Len(Now.frames) + 1]
  OBVIOUS
<1> HIDE DEF n
<1>4. n \in MachineSet /\ Good(n)
  BY <1>0, <1>1, <1>3, SwitchGood
<1> QED BY <1>2, <1>4, BecomesNext

(* The raw mode switches.                                                  *)
LEMMA RawSwitchStep ==
  ASSUME Polite, CallsInv, RawSwitch
  PROVE  CallsInv'
<1> DEFINE pe == ~Now.cpu.pe
           n == [Now EXCEPT !.cpu = [Now.cpu EXCEPT !.pe = pe],
                            !.acts = [Now.acts EXCEPT ![Len(Now.acts)] = [@ EXCEPT !.pe = pe]],
                            !.client = Now.client]
<1>0. /\ Good(Now) /\ Now.cpu.at.code = "guest" /\ Now.frames = <<>> /\ Body(Now)
      /\ Now.acts[Len(Now.acts)].kind \in {"main", "proc"} /\ Now \in MachineSet
  BY NowFields, BodyFacts
     DEF CallsInv, Good, RawSwitch, InGuest, Act, Running, MayUseDpmi, Polite
<1>1. Now.client \in Nat /\ pe \in BOOLEAN
  BY <1>0, MachineFields
<1>2. Become(n)
  <2>1. Now.acts[Len(Now.acts)].pe = Now.cpu.pe
    BY <1>0, InGuestCode
  <2>2. n = [Now EXCEPT !.cpu.pe = ~@, !.acts[Running].pe = ~@]
    <3>1. [Now EXCEPT !.cpu.pe = ~@, !.acts[Running].pe = ~@]
            = [Now EXCEPT !.cpu = [Now.cpu EXCEPT !.pe = ~Now.cpu.pe],
                          !.acts = [Now.acts EXCEPT ![Len(Now.acts)] =
                                      [@ EXCEPT !.pe = ~Now.acts[Len(Now.acts)].pe]]]
      BY NowFields DEF Running
    <3> QED BY <1>0, <2>1, <3>1 DEF MachineSet
  <2> QED BY <2>2 DEF RawSwitch
<1>3. n = [Now EXCEPT !.cpu = [Now.cpu EXCEPT !.pe = pe],
                      !.acts = [Now.acts EXCEPT ![Len(Now.acts)] = [@ EXCEPT !.pe = pe]],
                      !.client = Now.client]
  OBVIOUS
<1> HIDE DEF n, pe
<1>4. n \in MachineSet /\ Good(n)
  BY <1>0, <1>1, <1>3, SwitchGood
<1> QED BY <1>2, <1>4, BecomesNext

(* The host's default handler serves a request and unwinds, or leaves that *)
(* to rm_return.                                                           *)
LEMMA DefaultStep ==
  ASSUME Polite, CallsInv, NEW v \in Vectors, NEW q \in Request(v), HostDefault(v, q)
  PROVE  CallsInv'
<1> DEFINE m == [Now EXCEPT !.transferred = FALSE, !.in_default = TRUE]
           n == Serve(m, q, TRUE)
<1>0. Body(Now) /\ Now \in MachineSet /\ Now.cpu.at.code = "default"
  BY NowFields, BodyFacts, PlaceFacts DEF CallsInv, HostDefault
<1>1. Now.frames = <<>>
  BY <1>0 DEF Body, Resting
<1>2. /\ m \in MachineSet /\ m.in_default = TRUE /\ m.transferred = FALSE
      /\ m.cpu = Now.cpu /\ m.mem = Now.mem /\ m.acts = Now.acts /\ m.rm = Now.rm
      /\ m.depth = Now.depth /\ m.str = Now.str /\ m.frames = Now.frames
      /\ m.wild = Now.wild /\ m.ivt = Now.ivt
  BY <1>0 DEF MachineSet
<1>3. Become(n)
  BY DEF HostDefault
<1>4. Asked(v, q)
  BY DEF HostDefault
<1> HIDE DEF m
<1>5. Body(m)
  BY <1>0, <1>2, SettingsKeep
<1>6. Allowed(m, q)
  <2>1. Len(acts) \in Nat
    BY <1>0, MachineFields, NowFields
  <2>2. m.acts = acts /\ m.depth = rm_depth /\ m.frames = frames /\ m.ivt = ivt
    BY <1>2, NowFields
  <2> QED BY <1>4, <2>1, <2>2, AskedAllowed
<1>7. n \in MachineSet /\ Good(n)
  BY <1>0, <1>1, <1>2, <1>5, <1>6, ServeTailGood
<1> QED BY <1>3, <1>7, BecomesNext

(* rm_return resumes the guest code that called the procedure.             *)
LEMMA ReturnStep ==
  ASSUME Polite, CallsInv, HostRmReturn
  PROVE  CallsInv' /\ cpu'.at = Guest(Running)
<1>1. Good(Now) /\ Now.cpu.at = RmRet /\ Become(RmReturn(Now))
  BY NowFields DEF CallsInv, Good, HostRmReturn
<1>2. /\ RmReturn(Now) \in MachineSet /\ Good(RmReturn(Now))
      /\ RmReturn(Now).cpu.at = Guest(Len(Now.acts))
  BY <1>1, RmReturnGood
<1>3. cpu' = RmReturn(Now).cpu
  BY <1>1 DEF Become
<1> QED BY <1>1, <1>2, <1>3, BecomesNext, NowFields DEF Running

(* call_back enters the callback procedure.                                *)
LEMMA CallBackStep ==
  ASSUME Polite, CallsInv, HostCallBack
  PROVE  CallsInv'
<1> DEFINE laid == [Now EXCEPT !.str = [at |-> CbEntry, ss |-> Now.cpu.ss, sp |-> Now.cpu.sp],
                               !.cpu.pe = TRUE, !.cpu.ss = CbStack, !.cpu.sp = 0]
           n == Enter(Push(laid, CbRet), "callback")
<1>0. Good(Now) /\ Now.cpu.at = CbEntry
  BY NowFields DEF CallsInv, Good, HostCallBack
<1>1. laid = [Now EXCEPT !.str = [at |-> CbEntry, ss |-> Now.cpu.ss, sp |-> Now.cpu.sp],
                         !.cpu.pe = TRUE, !.cpu.ss = CbStack, !.cpu.sp = 0]
  OBVIOUS
<1>2. cb => Become(n)
  BY NowFields DEF HostCallBack
<1> HIDE DEF laid
<1>3. Now.cb /\ n \in MachineSet /\ Good(n)
  BY <1>0, <1>1, CallBackGood
<1> QED BY <1>2, <1>3, BecomesNext, NowFields

(* The host resumes the far caller.                                        *)
LEMMA CbReturnStep ==
  ASSUME Polite, CallsInv, HostCbReturn
  PROVE  CallsInv'
<1> DEFINE n == [Now EXCEPT !.cpu.pe = FALSE, !.cpu.at = Now.str.at,
                            !.cpu.ss = Now.str.ss, !.cpu.sp = Now.str.sp, !.str = NoStructure]
<1>0. Good(Now) /\ Now.cpu.at = CbRet
  BY NowFields DEF CallsInv, Good, HostCbReturn
<1>1. n = [Now EXCEPT !.cpu.pe = FALSE, !.cpu.at = Now.str.at,
                      !.cpu.ss = Now.str.ss, !.cpu.sp = Now.str.sp, !.str = NoStructure]
  OBVIOUS
<1>2. Become(n)
  BY NowFields DEF HostCbReturn
<1> HIDE DEF n
<1>3. n \in MachineSet /\ Good(n)
  BY <1>0, <1>1, CbReturnGood
<1> QED BY <1>2, <1>3, BecomesNext

(* The INT n of the stub is served.                                        *)
LEMMA StubStep ==
  ASSUME Polite, CallsInv, NEW q \in Request(33), StubInt(q)
  PROVE  CallsInv'
<1> DEFINE m == Go(Now, StubIret)
           n == Serve(m, q, FALSE)
<1>0. Body(Now) /\ Flags(Now) /\ Now \in MachineSet /\ Now.cpu.at = Stub /\ 33 \in Vectors
  BY NowFields, BodyFacts DEF CallsInv, StubInt, Vectors
<1>1. /\ m \in MachineSet /\ m.cpu = [Now.cpu EXCEPT !.at = StubIret] /\ m.cpu.at = StubIret
      /\ m.mem = Now.mem /\ m.acts = Now.acts /\ m.rm = Now.rm /\ m.str = Now.str
      /\ SameHost(m, Now)
  BY <1>0, GoFields, PlaceFacts
<1>2. Become(n)
  BY DEF StubInt
<1>3. Asked(33, q)
  BY DEF StubInt
<1> HIDE DEF m
<1>4. m.depth = Now.depth /\ m.frames = Now.frames /\ m.wild = Now.wild /\ m.ivt = Now.ivt
  BY <1>1 DEF SameHost
<1>5. Now.cpu.at.code # "cbentry" /\ m.cpu.at.code = "stubiret"
  BY <1>0, <1>1, PlaceFacts
<1>6. Good(m)
  <2>1. Body(m)
    BY <1>0, <1>1, <1>4, <1>5, SettingsKeep
  <2> QED BY <1>0, <1>1, <2>1, FlagsSame DEF Good
<1>7. Allowed(m, q)
  <2>1. Len(acts) \in Nat
    BY <1>0, MachineFields, NowFields
  <2>2. m.acts = acts /\ m.depth = rm_depth /\ m.frames = frames /\ m.ivt = ivt
    BY <1>1, <1>4, NowFields
  <2> QED BY <1>0, <1>3, <2>1, <2>2, AskedAllowed
<1>8. n \in MachineSet /\ Good(n)
  <2>1. m.cpu.at.code \in {"guest", "stubiret"}
    BY <1>5
  <2>2. 33 = 49 => m.cpu.at.code = "guest" /\ m.frames = <<>>
    OBVIOUS
  <2>3. ~Hooked(m, 33)
    <3>1. ~m.cpu.pe
      BY <1>5, <1>6 DEF Good, Body, Resting
    <3> QED BY <3>1 DEF Hooked
  <2> QED BY <1>0, <1>6, <1>7, <2>1, <2>2, <2>3, ServeGood
<1> QED BY <1>2, <1>8, BecomesNext

(* The stub's IRET.                                                        *)
LEMMA StubEndsStep ==
  ASSUME Polite, CallsInv, StubEnds
  PROVE  CallsInv'
<1>1. Good(Now) /\ AtHook(Now.cpu) /\ Become(Return(Now))
  BY NowFields, PlaceFacts DEF CallsInv, Good, StubEnds, AtHook
<1>2. Return(Now) \in MachineSet /\ Good(Return(Now))
  BY <1>1, UnwindGood
<1> QED BY <1>1, <1>2, BecomesNext

(* Every step, one by one; and a step that changes nothing.                *)
LEMMA StepCalls ==
  ASSUME Polite
  PROVE  CallsInv /\ [Next]_vars => CallsInv'
<1> SUFFICES ASSUME CallsInv, [Next]_vars PROVE CallsInv'
  OBVIOUS
<1>1. CASE GuestStep
  <2>1. ASSUME NEW v \in Vectors, IntToHook(v) PROVE CallsInv'
    BY <2>1, HookStep
  <2>2. ASSUME NEW v \in Vectors, HandlerChains(v) PROVE CallsInv'
    BY <2>2, ChainStep
  <2>3. ASSUME NEW v \in Vectors, NEW q \in Request(v), IntServed(v, q) PROVE CallsInv'
    BY <2>3, ServedStep
  <2>4. IntToIsr \/ ProgramEnds \/ HandlerIret \/ IsrChains \/ ProcReturns => CallsInv'
    BY IsrStep, EndsStep, IretStep, ChainStep
  <2>5. FarCall \/ CallbackReturns \/ SwitchToPm \/ RawSwitch => CallsInv'
    BY FarCallStep, CallbackReturnsStep, SwitchStep, RawSwitchStep
  <2> QED BY <1>1, <2>1, <2>2, <2>3, <2>4, <2>5 DEF GuestStep
<1>2. CASE HostStep
  <2>1. ASSUME NEW v \in Vectors, NEW q \in Request(v), HostDefault(v, q) PROVE CallsInv'
    BY <2>1, DefaultStep
  <2>2. ASSUME NEW q \in Request(33), StubInt(q) PROVE CallsInv'
    BY <2>2, StubStep
  <2>3. HostRmReturn \/ HostCallBack \/ HostCbReturn \/ StubEnds => CallsInv'
    BY ReturnStep, CallBackStep, CbReturnStep, StubEndsStep
  <2> QED BY <1>2, <2>1, <2>2, <2>3 DEF HostStep
<1>3. CASE UNCHANGED vars
  <2>1. Now' = Now
    BY <1>3 DEF vars, Now
  <2> QED BY <2>1 DEF CallsInv
<1> QED BY <1>1, <1>2, <1>3 DEF Next

(* Every machine the host reaches is nested as CallsInv says: on whatever  *)
(* stack an activation is, the cells it and its callers return by are the  *)
(* ones they were entered with, through hooks, default handlers,           *)
(* procedures, callbacks and programs.  All of a program's children run in *)
(* the mode it EXECed the first of them from: exec() clears no cr0.PE.     *)
THEOREM CallsNest ==
  ASSUME Polite
  PROVE  Spec => []CallsInv
<1>1. CallsInv /\ [Next]_vars => CallsInv'
  BY StepCalls
<1> QED BY <1>1, InitCalls, PTL DEF Spec

(* The nesting implies the types,                                          *)
LEMMA CallsTyped == CallsInv => TypeOK
<1> SUFFICES ASSUME CallsInv PROVE TypeOK
  OBVIOUS
<1>0. Body(Now) /\ Now \in MachineSet /\ Sized(Now) /\ Counted(Now)
  BY BodyFacts DEF CallsInv, Body
<1>1. cpu \in Machine /\ mem \in [Stacks -> Seq(Places)]
  BY <1>0, MachineFields, NowFields
<1>2. Running \in 1 .. MaxActs
  BY <1>0, NowFields DEF Sized, Running
<1>3. \A i \in 1 .. Running : acts[i].kind \in Kinds
  BY <1>0, MachineFields, NowFields DEF Running
<1>4. rm_depth \in 0 .. RmSlots
  BY <1>0, BodyFacts, NowFields
<1>5. \A i \in 0 .. RmSlots - 1 : rm[i].saved \in Machine /\ rm[i].unwind \in BOOLEAN
  <2>1. rm \in [0 .. RmSlots - 1 -> SlotSet]
    BY <1>0, MachineFields, NowFields
  <2> QED BY <2>1, SlotFacts
<1>6. Len(frames) \in 0 .. MaxExec
  <2>1. MaxExec \in Nat /\ Len(frames) \in Nat /\ Len(frames) <= MaxExec
    BY <1>0, PlaceFacts, MachineFields, NowFields DEF Sized
  <2> QED BY <2>1
<1>7. \A v \in Vectors : pmint[v] \in NoHook .. MaxExec + 1
  <2>1. pmint \in [Vectors -> NoHook .. MaxExec + 1]
    BY <1>0, MachineFields, NowFields
  <2> QED BY <2>1
<1>8. {rm_transferred, in_default, cb, ivt, wild} \subseteq BOOLEAN
  BY <1>0, MachineFields, NowFields
<1>9. \A s \in Stacks : \A i \in DOMAIN mem[s] : mem[s][i] \in Places
  BY <1>1
<1> QED BY <1>1, <1>2, <1>3, <1>4, <1>5, <1>6, <1>7, <1>8, <1>9 DEF TypeOK

(* that guest code runs where and as it was entered,                       *)
LEMMA CallsResume == CallsInv => ResumesCaller
<1> SUFFICES ASSUME CallsInv, InGuest PROVE ResumesCaller
  BY DEF ResumesCaller
<1>1. Body(Now) /\ Now.cpu.at.code = "guest"
  BY NowFields DEF CallsInv, InGuest
<1> QED BY <1>1, InGuestCode, NowFields DEF ResumesCaller, Running, Act

(* that exactly the slots of default handlers are marked,                  *)
LEMMA CallsMarked == CallsInv => IretKept
<1> SUFFICES ASSUME CallsInv PROVE IretKept
  OBVIOUS
<1>1. ~Now.wild /\ Marked(Now)
  BY DEF CallsInv, Body, Sized
<1> QED BY <1>1, NowFields DEF IretKept, Marked

(* that the slots in use are the procedures outstanding,                   *)
LEMMA CallsCounted == CallsInv => SlotsMatchCalls
<1> SUFFICES ASSUME CallsInv PROVE SlotsMatchCalls
  OBVIOUS
<1>1. Counted(Now)
  BY DEF CallsInv, Body
<1> QED BY <1>1, NowFields DEF SlotsMatchCalls, Counted, ProcsTo, Running

(* and that in_default_ is set only under a program the default handler    *)
(* EXECed.                                                                 *)
LEMMA CallsHooked == CallsInv => HooksOnAgain
<1> SUFFICES ASSUME CallsInv PROVE HooksOnAgain
  OBVIOUS
<1>1. Flags(Now) /\ Now \in MachineSet
  BY BodyFacts DEF CallsInv
<1>2. frames \in Seq(FrameSet)
  BY <1>1, MachineFields, NowFields
<1>3. DOMAIN frames = 1 .. Len(frames)
  BY <1>2
<1> QED BY <1>1, <1>3, NowFields DEF HooksOnAgain, Flags

(* The host's fields keep their types, and no more slots are used than     *)
(* there are.                                                              *)
THEOREM CallsTypes ==
  ASSUME Polite
  PROVE  Spec => []TypeOK
<1>1. CallsInv => TypeOK
  BY CallsTyped
<1> QED BY <1>1, CallsNest, PTL

(* Every way back puts the caller exactly as it was: guest code runs in    *)
(* the innermost activation only, in the mode it was entered in (a program *)
(* EXECed from protected mode stays in it) or switched itself to, and at   *)
(* its stack.                                                              *)
THEOREM CallersResume ==
  ASSUME Polite
  PROVE  Spec => []ResumesCaller
<1>1. CallsInv => ResumesCaller
  BY CallsResume
<1> QED BY <1>1, CallsNest, PTL

(* The IRET that pm_int_default defers is owed by exactly the slots whose  *)
(* caller stands at a default handler, and the mark never goes outside     *)
(* rm_.                                                                    *)
THEOREM IretsAreKept ==
  ASSUME Polite
  PROVE  Spec => []IretKept
<1>1. CallsInv => IretKept
  BY CallsMarked
<1> QED BY <1>1, CallsNest, PTL

(* rm_depth_ is the number of procedures that have not come back.          *)
THEOREM SlotsAreCalls ==
  ASSUME Polite
  PROVE  Spec => []SlotsMatchCalls
<1>1. CallsInv => SlotsMatchCalls
  BY CallsCounted
<1> QED BY <1>1, CallsNest, PTL

(* The client's hooks are off only under a program EXECed inside the       *)
(* default handler.                                                        *)
THEOREM HooksComeBack ==
  ASSUME Polite
  PROVE  Spec => []HooksOnAgain
<1>1. CallsInv => HooksOnAgain
  BY CallsHooked
<1> QED BY <1>1, CallsNest, PTL

(* At the hook of a procedure's return nothing else is enabled.            *)
LEMMA ReturnOnly ==
  ASSUME Polite, CallsInv, Next, cpu.at = RmRet
  PROVE  cpu'.at = Guest(Running)
<1>1. ~InGuest
  BY PlaceFacts DEF InGuest
<1>2. ~GuestStep
  BY <1>1 DEF GuestStep, IntToHook, HandlerChains, IntServed, IntToIsr, ProgramEnds, HandlerIret,
              IsrChains, ProcReturns, FarCall, CallbackReturns, SwitchToPm, RawSwitch, MayInt
<1>3. HostStep => HostRmReturn
  <2>1. \A v \in Vectors : cpu.at # Default(v)
    BY DEF Default, RmRet, Place
  <2>2. cpu.at \notin {CbEntry, CbRet, Stub, StubIret}
    BY DEF CbEntry, CbRet, Stub, StubIret, RmRet, Place
  <2> QED BY <2>1, <2>2 DEF HostStep, HostDefault, HostCallBack, HostCbReturn, StubInt, StubEnds
<1> QED BY <1>2, <1>3, ReturnStep DEF Next

(* rm_return resumes guest code, never the default handler it was called   *)
(* from.                                                                   *)
THEOREM CallsComeBack ==
  ASSUME Polite
  PROVE  Spec => CallComesBack
<1>1. CallsInv /\ [Next]_vars => [cpu.at = RmRet => cpu'.at = Guest(Running)]_vars
  BY ReturnOnly
<1> QED BY <1>1, CallsNest, PTL DEF Spec, CallComesBack
=============================================================================
