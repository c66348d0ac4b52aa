------------------------------ MODULE DpmiCalls ------------------------------
(***************************************************************************)
(* Control transfers of the DPMI host: interrupts from protected mode, the *)
(* client's hooks and the host's default handlers, real-mode procedures    *)
(* (0301h, 0302h), simulated interrupts (0300h), real-mode callbacks, the  *)
(* raw mode switches, interrupt handlers the guest put in the real-mode    *)
(* table, and EXEC in the middle of any of them (src/dpmi.cpp, with        *)
(* Dos::handle, Cpu::interrupt and Dos::exec).                             *)
(*                                                                         *)
(* There is one CPU and it runs one piece of guest code at a time.  An     *)
(* activation is a piece of guest code that was entered and has not        *)
(* returned: acts, which no code reads, is their true nesting.  What the   *)
(* host knows is what the code knows: the return addresses on the stacks   *)
(* in guest memory, and its own rm_ slots and flags.  A place is a CS:IP:  *)
(* somewhere in an activation, or an entry point of the host.  General     *)
(* registers, frame widths and descriptor caches are left out.             *)
(***************************************************************************)
EXTENDS Integers, Sequences, FiniteSets, SequencesExt

CONSTANTS
  RmSlots,        (* size of rm_ (4)                                        *)
  MaxActs,        (* bound: activations outstanding at once                 *)
  MaxExec,        (* bound: how deep EXEC nests                             *)
  DpmiChildren,   (* whether what EXEC runs may use the DPMI host           *)
  SharedStacks,   (* whether a guest re-enters a stack the host supplies    *)
  StrayCalls      (* whether a guest calls a callback it has freed          *)

ASSUME CallsAssumption ==
  /\ RmSlots \in Nat \ {0} /\ MaxActs \in Nat \ {0} /\ MaxExec \in Nat
  /\ {DpmiChildren, SharedStacks, StrayCalls} \subseteq BOOLEAN

VARIABLES
  cpu,            (* mode, place, stack segment and pointer                 *)
  mem,            (* the cells of every stack                               *)
  acts,           (* the activations outstanding, outermost first           *)
  rm, rm_depth,   (* rm_ and rm_depth_                                      *)
  rm_transferred, in_default, pmint,        (* as the host's fields         *)
  client,         (* client32_: the program whose declaration it holds      *)
  cb,             (* cb_[0].used                                            *)
  str,            (* the callback's register structure: where to resume     *)
  ivt,            (* whether the guest re-pointed the real INT 21h vector   *)
  frames,         (* the suspended exec() calls                             *)
  wild            (* rm_ was indexed outside its bounds                     *)

vars == <<cpu, mem, acts, rm, rm_depth, rm_transferred, in_default, pmint, client,
          cb, str, ivt, frames, wild>>

----------------------------------------------------------------------------
Place(code, n) == [code |-> code, n |-> n]
Guest(n)   == Place("guest", n)
Default(v) == Place("default", v)         \* +80h: the default handlers
RmRet      == Place("rmret", 0)           \* +51h
CbRet      == Place("cbret", 0)           \* +50h
CbEntry    == Place("cbentry", 0)         \* +60h
Stub       == Place("stub", 0)            \* 0050:n*4, INT n
StubIret   == Place("stubiret", 0)        \* and the IRET after it

Vectors == {33, 49}                       \* INT 21h and INT 31h
Places  == {Guest(n) : n \in 1 .. MaxActs} \union {Default(v) : v \in Vectors}
             \union {RmRet, CbRet, CbEntry, Stub, StubIret}

Scratch == 0                              \* scratch_ss_
CbStack == MaxActs + 1                    \* cb_ss_
Stacks  == 0 .. MaxActs + 1               \* and one of its own per activation

NoHook == 0                               \* a null selector in pmint_

Boot == [pe |-> FALSE, at |-> Guest(1), ss |-> 1, sp |-> 0]
FreeSlot == [saved |-> Boot, unwind |-> FALSE]
Named(fns) == {[fn |-> f] : f \in fns}
DosRequests  == Named({"service", "exec", "exit", "repoint"})
DpmiRequests ==
  Named({"allocate_cb", "free_cb"})
    \union [fn : {"set_vector"}, vec : Vectors, hook : BOOLEAN]
    \union [fn : {"call"}, own : BOOLEAN]
    \union [fn : {"simulate"}, int : {"service", "exec"}]
Request(v) == IF v = 33 THEN DosRequests ELSE DpmiRequests

Program == Len(frames) + 1
Running == Len(acts)
Handler(v) == IF v = 33 THEN "handler21" ELSE "handler31"
Kinds   == {"main", "lost", "isr", "proc", "callback"} \union {Handler(v) : v \in Vectors}

(* The machine as a value.  Host routines call one another, so each is an  *)
(* operator from machine to machine; an action makes one the next state.   *)
Now == [cpu |-> cpu, mem |-> mem, acts |-> acts, rm |-> rm, depth |-> rm_depth,
        transferred |-> rm_transferred, in_default |-> in_default, pmint |-> pmint,
        client |-> client, cb |-> cb, str |-> str, ivt |-> ivt, frames |-> frames,
        wild |-> wild]

Become(m) ==
  /\ cpu' = m.cpu /\ mem' = m.mem /\ acts' = m.acts /\ rm' = m.rm /\ rm_depth' = m.depth
  /\ rm_transferred' = m.transferred /\ in_default' = m.in_default /\ pmint' = m.pmint
  /\ client' = m.client /\ cb' = m.cb /\ str' = m.str /\ ivt' = m.ivt
  /\ frames' = m.frames /\ wild' = m.wild

(* A push writes the cell above SP and nothing else.  The contents of a    *)
(* slot or of the structure once used, and what was popped off a stack     *)
(* that nobody else is on, are not kept: nothing reads them again.         *)
Push(m, p) ==
  LET ss == m.cpu.ss  sp == m.cpu.sp + 1
  IN  [m EXCEPT !.cpu.sp = sp,
                !.mem[ss] = IF sp <= Len(@) THEN [@ EXCEPT ![sp] = p] ELSE Append(@, p)]
Top(m)   == m.mem[m.cpu.ss][m.cpu.sp]
Popped(cells, sp) == IF SharedStacks THEN cells ELSE SubSeq(cells, 1, sp - 1)
Drop(m)  == [m EXCEPT !.cpu.sp = @ - 1, !.mem[m.cpu.ss] = Popped(@, m.cpu.sp)]
Go(m, p) == [m EXCEPT !.cpu.at = p]

(* RETF, IRET and unwind_int_frame: resume at the place on the stack.      *)
Return(m) == Go(Drop(m), Top(m))

(* Guest code starts, with the mode and stack the machine has by then; and *)
(* guest code returns.                                                     *)
Enter(m, kind) ==
  LET act == [kind |-> kind, pe |-> m.cpu.pe, ss |-> m.cpu.ss, sp |-> m.cpu.sp]
  IN  Go([m EXCEPT !.acts = Append(@, act)], Guest(Len(m.acts) + 1))
Leave(m) == [m EXCEPT !.acts = Front(@)]

----------------------------------------------------------------------------
(* pm_int: the client's hook is entered with a frame on the stack the      *)
(* client is using.  In real mode, without a hook, or inside the host's    *)
(* own handler there is no such detour.                                    *)
Hooked(m, v) == m.cpu.pe /\ m.pmint[v] # NoHook /\ ~m.in_default

PmInt(m, v) == Enter(Push(m, m.cpu.at), Handler(v))

(* Mutant: the slots are tested after one is taken.                        *)
RmCallUnbounded(m, own) ==
  LET moved == [m EXCEPT !.rm[m.depth % RmSlots] = [saved |-> m.cpu, unwind |-> FALSE],
                         !.depth = @ + 1, !.transferred = TRUE,
                         !.cpu.pe = FALSE, !.cpu.sp = 0,
                         !.cpu.ss = IF own THEN Len(m.acts) + 1 ELSE Scratch]
  IN  Enter(Push(moved, RmRet), "proc")

(* rm_call: 0301h and 0302h hand the CPU to a real-mode procedure, on the  *)
(* client's stack or the scratch one, or fail when the slots are taken.    *)
RmCall(m, own) ==
  LET moved == [m EXCEPT !.rm[m.depth] = [saved |-> m.cpu, unwind |-> FALSE],
                         !.depth = @ + 1, !.transferred = TRUE,
                         !.cpu.pe = FALSE, !.cpu.sp = 0,
                         !.cpu.ss = IF own THEN Len(m.acts) + 1 ELSE Scratch]
  IN  IF m.depth >= RmSlots
      THEN m
      ELSE Enter(Push(moved, RmRet), "proc")

(* Dos::exec: the child runs in a nested step loop.  The frame holds what  *)
(* exec() saved, the CPU, whether pm_int_default is underneath, and how    *)
(* many activations wait.  Of the host's own fields exec() saves none.     *)
(* Neither exec() nor load_program() leaves protected mode: asked from     *)
(* there, the child's paragraphs are loaded as selectors, and what runs is *)
(* not its image.  Such a program is lost: of what it may do, only its DOS *)
(* calls and its end are followed.                                         *)
Exec(m, default, pe) ==
  LET f == [cpu |-> m.cpu, default |-> default, acts |-> Len(m.acts)]
  IN  Enter([m EXCEPT !.frames = Append(@, f), !.cpu.pe = pe,
                      !.cpu.ss = Len(m.acts) + 1, !.cpu.sp = 0],
            IF pe THEN "lost" ELSE "main")

(* Mutant: nobody is told that an IRET is owed.                            *)
IretForgotten(m) ==
  LET out == [m EXCEPT !.in_default = FALSE, !.transferred = FALSE]
  IN  IF m.transferred THEN out ELSE Return(out)

(* Mutant: the flag is cleared only on the path that unwinds.              *)
HooksLeftOff(m) ==
  LET out == [m EXCEPT !.transferred = FALSE]
  IN  IF ~m.transferred
      THEN Return([out EXCEPT !.in_default = FALSE])
      ELSE IF m.depth > 0
           THEN [out EXCEPT !.rm[m.depth - 1].unwind = TRUE]
           ELSE [out EXCEPT !.wild = TRUE]

(* The rest of pm_int_default once real_int() is back: unwind the frame,   *)
(* or leave that to rm_return() when a procedure has the CPU now.          *)
DefaultTail(m) ==
  LET out == [m EXCEPT !.in_default = FALSE, !.transferred = FALSE]
  IN  IF ~m.transferred
      THEN Return(out)
      ELSE IF m.depth > 0
           THEN [out EXCEPT !.rm[m.depth - 1].unwind = TRUE]
           ELSE [out EXCEPT !.wild = TRUE]

(* Mutant: the parent has its registers back and not its mode.             *)
EndChildInItsMode(m) ==
  LET f == m.frames[Len(m.frames)]
      p == [m EXCEPT !.cpu = [f.cpu EXCEPT !.pe = m.cpu.pe], !.acts = SubSeq(@, 1, f.acts),
                     !.frames = Front(@)]
  IN  IF f.default THEN DefaultTail(p) ELSE p

(* The end of exec(): the parent's CPU is back, and so is whatever host    *)
(* routine had called exec().                                              *)
EndChild(m) ==
  LET f == m.frames[Len(m.frames)]
      p == [m EXCEPT !.cpu = f.cpu, !.acts = SubSeq(@, 1, f.acts),
                     !.frames = Front(@)]
  IN  IF f.default THEN DefaultTail(p) ELSE p

(* 0205h in program p; a null selector takes the hook off.                 *)
SetVector(m, q, p) == [m EXCEPT !.pmint[q.vec] = IF q.hook THEN p ELSE NoHook]

(* handle() from the SegAlias on: the service itself, asked for by an INT  *)
(* or (default) by pm_int_default.  The functions that touch none of this  *)
(* state are "service".  0300h asks handle() in real mode, which declines  *)
(* a re-pointed vector, and simulate_real_int() goes on as if it had not;  *)
(* what it EXECs is the one child of a client's that starts in real mode.  *)
Serve(m, q, default) ==
  LET after(x) == IF default THEN DefaultTail(x) ELSE x
      execs    == q.fn = "exec" \/ (q.fn = "simulate" /\ q.int = "exec" /\ ~m.ivt)
  IN  CASE execs                   -> Exec(m, default, m.cpu.pe /\ q.fn = "exec")
        [] q.fn = "exit"           -> EndChild(after(m))
        [] q.fn = "repoint"        -> after([m EXCEPT !.ivt = TRUE])
        [] q.fn = "set_vector"     -> after(SetVector(m, q, Len(m.frames) + 1))
        [] q.fn = "call"           -> after(RmCall(m, q.own))
        [] q.fn \in {"allocate_cb", "free_cb"} -> after([m EXCEPT !.cb = (q.fn = "allocate_cb")])
        [] OTHER                   -> after(m)

(* Mutant: a client that came from the default handler is put back there.  *)
RmReturnNoUnwind(m) ==
  IF m.depth = 0 THEN m
  ELSE [m EXCEPT !.depth = @ - 1, !.cpu = m.rm[m.depth - 1].saved,
                 !.rm[m.depth - 1] = FreeSlot]

(* Mutant: the outermost call is taken for none.                           *)
RmReturnMissesFirst(m) ==
  LET slot == m.rm[m.depth - 1]
      back == [m EXCEPT !.depth = @ - 1, !.cpu = slot.saved,
                         !.rm[m.depth - 1] = FreeSlot]
  IN  IF m.depth <= 1 THEN m ELSE IF slot.unwind THEN Return(back) ELSE back

(* Mutant: the slot is read and kept.                                      *)
RmReturnKeepsSlot(m) ==
  LET slot == m.rm[m.depth - 1]
      back == [m EXCEPT !.cpu = slot.saved]
  IN  IF m.depth = 0 THEN m ELSE IF slot.unwind THEN Return(back) ELSE back

(* rm_return: the client exactly as it was, and the IRET it is still owed. *)
(* With no call outstanding the CPU stays at the hook.                     *)
RmReturn(m) ==
  LET slot == m.rm[m.depth - 1]
      back == [m EXCEPT !.depth = @ - 1, !.cpu = slot.saved,
                         !.rm[m.depth - 1] = FreeSlot]
  IN  IF m.depth = 0 THEN m ELSE IF slot.unwind THEN Return(back) ELSE back

----------------------------------------------------------------------------
NoStructure == [at |-> CbEntry, ss |-> 1, sp |-> 0]

(* A program in real mode that has not asked for the DPMI host yet.        *)
Init ==
  /\ cpu = Boot
  /\ mem = [s \in Stacks |-> <<>>]
  /\ acts = <<[kind |-> "main", pe |-> FALSE, ss |-> 1, sp |-> 0]>>
  /\ rm = [i \in 0 .. RmSlots - 1 |-> FreeSlot] /\ rm_depth = 0
  /\ rm_transferred = FALSE /\ in_default = FALSE
  /\ pmint = [v \in Vectors |-> NoHook] /\ client = 0
  /\ cb = FALSE /\ str = NoStructure
  /\ ivt = FALSE /\ frames = <<>> /\ wild = FALSE

InGuest == cpu.at.code = "guest"
Act     == acts[Running]
OnStack(ss) == \E i \in 1 .. Running : acts[i].ss = ss
MayUseDpmi == Act.kind # "lost" /\ (frames = <<>> \/ DpmiChildren)

(* What the registers may ask for when a request is served: within the     *)
(* bounds, an exit only in a child (the first program's ends the machine), *)
(* and the scratch stack not twice unless SharedStacks.                    *)
Starts(q) == q.fn \in {"exec", "call"} \/ (q.fn = "simulate" /\ q.int = "exec")
Asked(v, q) ==
  /\ q \in Request(v)
  /\ Starts(q) => Running < MaxActs \/ (q.fn = "call" /\ rm_depth = RmSlots)
  /\ Starts(q) /\ q.fn # "call" => Len(frames) < MaxExec
  /\ q.fn = "exit" => frames # <<>>
  /\ q.fn = "call" => q.own \/ SharedStacks \/ ~OnStack(Scratch)

(* INT n in guest code: Cpu::interrupt and the start of Dos::handle.  A    *)
(* client's hook comes first, then a vector the guest re-pointed.          *)
MayInt(v) == InGuest /\ (v = 49 => cpu.pe /\ MayUseDpmi)

IntToHook(v) == MayInt(v) /\ Hooked(Now, v) /\ Running < MaxActs /\ Become(PmInt(Now, v))

IntToIsr == /\ MayInt(33) /\ ~cpu.pe /\ ivt /\ Running < MaxActs
            /\ Become(Enter(Push(Now, cpu.at), "isr"))

IntServed(v, q) ==
  /\ MayInt(v) /\ Asked(v, q) /\ ~Hooked(Now, v) /\ ~(~cpu.pe /\ ivt)
  /\ Become(Serve(Now, q, FALSE))

(* INT 20h, which nobody hooks, ends a child.                              *)
ProgramEnds == InGuest /\ frames # <<>> /\ Become(EndChild(Now))

(* A client's handler, or a guest's real-mode one, is done: IRET.          *)
HandlerIret ==
  /\ InGuest /\ Act.kind \in {"handler21", "handler31", "isr"}
  /\ Become(Return(Leave(Now)))

(* Or it jumps to the handler it replaced, its frame still on the stack    *)
(* and the registers as it translated them: the default handler 0204h      *)
(* reported, or the stub the real vector named.                            *)
HandlerChains(v) == InGuest /\ Act.kind = Handler(v) /\ Become(Go(Leave(Now), Default(v)))
IsrChains        == InGuest /\ Act.kind = "isr" /\ Become(Go(Leave(Now), Stub))

(* A real-mode procedure's RETF or IRET.                                   *)
ProcReturns == InGuest /\ Act.kind = "proc" /\ ~cpu.pe /\ Become(Return(Leave(Now)))

(* Real-mode code far-calls the callback's address.                        *)
FarCall ==
  /\ InGuest /\ ~cpu.pe /\ Running < MaxActs /\ MayUseDpmi
  /\ cb \/ StrayCalls
  /\ SharedStacks \/ ~OnStack(CbStack)
  /\ Become(Go(Push(Now, cpu.at), CbEntry))

(* The callback procedure pops the far call's return address from the      *)
(* real-mode stack into its structure and IRETs.                           *)
CallbackReturns ==
  /\ InGuest /\ Act.kind = "callback"
  /\ Become([Return(Leave(Now)) EXCEPT !.str.at = mem[str.ss][str.sp], !.str.sp = @ - 1,
                                        !.mem[str.ss] = Popped(@, str.sp)])

(* The far call of the mode switch entry: switch_to_pm.                    *)
SwitchToPm ==
  /\ InGuest /\ Act.kind = "main" /\ ~cpu.pe /\ MayUseDpmi
  /\ Become([Now EXCEPT !.cpu.pe = TRUE, !.acts[Running].pe = TRUE, !.client = Program])

(* The far jump to a raw switch; the guest supplies its own stack again.   *)
RawSwitch ==
  /\ InGuest /\ Act.kind \in {"main", "proc"} /\ client >= Program /\ MayUseDpmi
  /\ Become([Now EXCEPT !.cpu.pe = ~@, !.acts[Running].pe = ~@])

----------------------------------------------------------------------------
(* The hooks of Cpu::step, and the stub of the real-mode table.            *)
HostDefault(v, q) ==
  /\ cpu.at = Default(v) /\ Asked(v, q)
  /\ Become(Serve([Now EXCEPT !.transferred = FALSE, !.in_default = TRUE], q, TRUE))

HostRmReturn == cpu.at = RmRet /\ Become(RmReturn(Now))

(* call_back: the procedure starts on the host's own stack, from the top.  *)
HostCallBack ==
  /\ cpu.at = CbEntry
  /\ IF cb
     THEN LET laid == [Now EXCEPT !.str = [at |-> CbEntry, ss |-> cpu.ss, sp |-> cpu.sp],
                                  !.cpu.pe = TRUE, !.cpu.ss = CbStack, !.cpu.sp = 0]
          IN  Become(Enter(Push(laid, CbRet), "callback"))
     ELSE Become(Now)

HostCbReturn ==
  /\ cpu.at = CbRet
  /\ Become([Now EXCEPT !.cpu.pe = FALSE, !.cpu.at = str.at,
                        !.cpu.ss = str.ss, !.cpu.sp = str.sp, !.str = NoStructure])

(* The stub's INT n comes from the stub's own segment, so handle() serves  *)
(* it; then the stub's IRET.                                               *)
StubInt(q) == /\ cpu.at = Stub /\ Asked(33, q)
              /\ Become(Serve(Go(Now, StubIret), q, FALSE))
StubEnds   == cpu.at = StubIret /\ Become(Return(Now))

HostStep ==
  \/ \E v \in Vectors : \E q \in Request(v) : HostDefault(v, q)
  \/ HostRmReturn \/ HostCallBack \/ HostCbReturn
  \/ \E q \in Request(33) : StubInt(q)
  \/ StubEnds

GuestStep ==
  \/ \E v \in Vectors : IntToHook(v) \/ HandlerChains(v) \/ \E q \in Request(v) : IntServed(v, q)
  \/ IntToIsr \/ ProgramEnds
  \/ HandlerIret \/ IsrChains \/ ProcReturns
  \/ FarCall \/ CallbackReturns
  \/ SwitchToPm \/ RawSwitch

Next == GuestStep \/ HostStep
Spec == Init /\ [][Next]_vars

(* step() runs whatever CS:IP names until the machine halts, so a hook it  *)
(* stands at is acted on.  Nothing is assumed of the guest.                *)
FairSpec == Spec /\ WF_vars(HostStep)
----------------------------------------------------------------------------
(* Every field of the machine and of the host has its type; the slots in   *)
(* use are never more than there are.                                      *)
Machine == [pe : BOOLEAN, at : Places, ss : Stacks, sp : Nat]
TypeOK ==
  /\ cpu \in Machine
  /\ DOMAIN mem = Stacks /\ \A s \in Stacks : \A i \in DOMAIN mem[s] : mem[s][i] \in Places
  /\ Running \in 1 .. MaxActs /\ \A i \in 1 .. Running : acts[i].kind \in Kinds
  /\ rm_depth \in 0 .. RmSlots
  /\ \A i \in 0 .. RmSlots - 1 : rm[i].saved \in Machine /\ rm[i].unwind \in BOOLEAN
  /\ Len(frames) \in 0 .. MaxExec
  /\ \A v \in Vectors : pmint[v] \in NoHook .. MaxExec + 1
  /\ {rm_transferred, in_default, cb, ivt, wild} \subseteq BOOLEAN

(* rm_return "put[s] the client exactly as it was", and so does every      *)
(* other way back: guest code only ever runs in the innermost activation,  *)
(* in the mode and at the stack it was entered with (or switched itself    *)
(* to), however hooks, default handlers, procedures, callbacks and         *)
(* programs were nested and ended.                                         *)
ResumesCaller ==
  InGuest => /\ cpu.at = Guest(Running)
             /\ cpu.pe = Act.pe /\ cpu.ss = Act.ss /\ cpu.sp = Act.sp

(* pm_int_default: the IRET is "not cancelled, only deferred".  A slot is  *)
(* marked exactly when what it saved stands at the host's default handler, *)
(* and the mark never goes to a slot that does not exist.                  *)
IretKept ==
  /\ ~wild
  /\ \A i \in 0 .. rm_depth - 1 : rm[i].unwind <=> rm[i].saved.at.code = "default"

(* The slots in use are the procedures that have not come back: neither a  *)
(* refused call nor a program's end leaks one or gives one back twice.     *)
SlotsMatchCalls ==
  rm_depth = Cardinality({i \in 1 .. Running : acts[i].kind = "proc"})
               + (IF cpu.at = RmRet THEN 1 ELSE 0)

(* in_default_ turns every hook of the client's off, so while guest code   *)
(* runs it may be set only if that code was EXECed from inside the default *)
(* handler, and then it must be.                                           *)
HooksOnAgain == in_default <=> \E i \in DOMAIN frames : frames[i].default

(* A real-mode procedure's return resumes its caller and never the host's  *)
(* default handler, which would serve the same request again ("Resuming    *)
(* there would re-enter the handler forever").                             *)
CallComesBack ==
  [][cpu.at = RmRet => cpu'.at = Guest(Running)]_vars

(* A hook the CPU has reached is left for guest code again: host routines  *)
(* that hand the CPU to one another do not do so for ever.                 *)
HostStepsEnd == ~InGuest ~> InGuest
=============================================================================
