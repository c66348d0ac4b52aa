------------------------------ MODULE CpuGates ------------------------------
(***************************************************************************)
(* A protected-mode guest with an IDT and a TSS of its own: interrupt() of *)
(* src/cpu.cpp through a gate, IRET, far calls and far returns.  A gate    *)
(* into a more privileged ring switches to that ring's stack and leaves    *)
(* the old SS:SP above the frame; a return to a less privileged ring takes *)
(* it back.  A word stands for what the gate's size pushes, two or four    *)
(* bytes; handlers return in the size they were called in.                 *)
(*                                                                         *)
(* The guest does what its processor would let it: gates lead to its own   *)
(* ring or inwards, and a handler returns with SP where it found it.       *)
(***************************************************************************)
EXTENDS Integers, Sequences

CONSTANTS
  Outer,       (* the ring applications run in; handlers run in 0 too      *)
  Top,         (* the words of each ring's stack                           *)
  Places,      (* values of IP                                             *)
  MaxNest,     (* bound on calls within calls                              *)
  MaxParams,   (* words a far call may pass                                *)
  MaxLocals    (* bound on what a procedure leaves pushed when it calls    *)

ASSUME GatesAssumption ==
  /\ Outer \in 1 .. 3 /\ Top \in Nat /\ Places \subseteq Nat
  /\ MaxNest \in Nat /\ MaxParams \in Nat /\ MaxLocals \in Nat

Rings == {0, Outer}

VARIABLES
  cs, ip,     (* the ring in CS's selector, and IP                         *)
  ss, sp,     (* the ring whose stack SS selects, and SP                   *)
  intOn,      (* IF                                                        *)
  stacks,     (* the words of each ring's stack                            *)
  calls,      (* history: where each call in progress was made, and how    *)
  back        (* history: the call that the last step returned from        *)

gateVars == <<cs, ip, ss, sp, intOn, stacks, calls, back>>

Nowhere == [how |-> "none"]
Junk    == 99
Bit(b)  == IF b THEN 1 ELSE 0

GatesInit ==
  /\ cs = Outer /\ ip \in Places
  /\ ss = Outer /\ sp = Top
  /\ intOn = TRUE
  /\ stacks = [r \in Rings |-> [a \in 0 .. Top - 1 |-> Junk]]
  /\ calls = <<>> /\ back = Nowhere

Last      == calls[Len(calls)]
WithoutLast == SubSeq(calls, 1, Len(calls) - 1)

(* push16, push32: words, the first one first, below top on the stack of r. *)
Pushed(r, top, words) ==
  [stacks EXCEPT ![r] = [a \in 0 .. Top - 1 |->
     IF a < top /\ a >= top - Len(words) THEN words[top - a] ELSE @[a]]]

(* The word that a pop finds behind k others.                              *)
Popped(k) == stacks[ss][sp + k]

(* A call from here, whose handler finds SP at frame.                      *)
Calls(how, drop, frame) ==
  calls' = Append(calls, [how |-> how, cs |-> cs, ip |-> ip, ss |-> ss, sp |-> sp,
                          intOn |-> intOn, drop |-> drop, frame |-> frame])

(* Mutant: a gate inwards stays on the caller's stack.                     *)
GateHere(r) == [ring |-> ss, sp |-> sp, words |-> <<Bit(intOn), cs, ip>>]

(* Where a gate to ring r pushes, and what: the TSS has the top of the     *)
(* inner ring's stack.                                                     *)
Gate(r) ==
  IF r < cs THEN [ring |-> r, sp |-> Top, words |-> <<ss, sp, Bit(intOn), cs, ip>>]
  ELSE [ring |-> ss, sp |-> sp, words |-> <<Bit(intOn), cs, ip>>]

(* interrupt(), for a gate to handler in ring r.                           *)
Interrupt(r, handler, interruptGate) ==
  LET g     == Gate(r)
      frame == g.sp - Len(g.words)
  IN  /\ r <= cs /\ Len(calls) < MaxNest /\ frame >= 0
      /\ stacks' = Pushed(g.ring, g.sp, g.words)
      /\ ss' = g.ring /\ sp' = frame
      /\ intOn' = (intOn /\ ~interruptGate)
      /\ cs' = r /\ ip' = handler
      /\ Calls("int", 0, frame)
      /\ back' = Nowhere

(* CALL far within the ring, to a procedure that takes drop parameters.    *)
FarCall(target, drop) ==
  /\ Len(calls) < MaxNest /\ sp >= drop + 2
  /\ stacks' = Pushed(ss, sp - drop, <<cs, ip>>)
  /\ sp' = sp - drop - 2
  /\ ip' = target
  /\ Calls("far", drop, sp - drop - 2)
  /\ back' = Nowhere
  /\ UNCHANGED <<cs, ss, intOn>>

(* Mutant: the immediate is released from the inner stack only.            *)
FarRetInner(sel, off, at, drop) ==
  /\ IF sel > cs THEN ss' = stacks[ss][at + drop + 1] /\ sp' = stacks[ss][at]
     ELSE sp' = at /\ UNCHANGED ss
  /\ cs' = sel /\ ip' = off

(* far_ret(), with SP at the word behind CS; drop is RETF's immediate.     *)
FarRet(sel, off, at, drop) ==
  /\ IF sel > cs
     THEN sp' = stacks[ss][at + drop] + drop /\ ss' = stacks[ss][at + drop + 1]
     ELSE sp' = at + drop /\ UNCHANGED ss
  /\ cs' = sel /\ ip' = off

(* Words below SP are forgotten: nothing reads them again.                 *)
Forgotten(r, below) == [stacks EXCEPT ![r] = [a \in 0 .. Top - 1 |-> IF a < below THEN Junk ELSE @[a]]]

Returns(how, sel, at) ==
  /\ calls # <<>> /\ Last.how = how /\ sp = Last.frame
  /\ calls' = WithoutLast
  /\ stacks' = Forgotten(ss, IF sel > cs THEN Top ELSE at)

Iret ==
  /\ Returns("int", Popped(1), sp + 3)
  /\ intOn' = (Popped(2) = 1)
  /\ FarRet(Popped(1), Popped(0), sp + 3, 0)
  /\ back' = [Last EXCEPT !.how = "iret"]

(* A handler that has moved EIP and CS over the flags closes with RETF.    *)
RetfFromInterrupt ==
  /\ Returns("int", Popped(1), sp + 3)
  /\ FarRet(Popped(1), Popped(0), sp + 3, 0)
  /\ back' = Last /\ UNCHANGED intOn

Retf ==
  /\ Returns("far", Popped(1), sp + 2 + Last.drop)
  /\ FarRet(Popped(1), Popped(0), sp + 2, Last.drop)
  /\ back' = Last /\ UNCHANGED intOn

(* Other instructions: a jump, PUSH, and POP of what was pushed here.      *)
Floor  == IF calls = <<>> THEN Top ELSE Last.frame
Locals == Floor - sp

Jump == ip' \in Places /\ UNCHANGED <<sp, stacks>>

PushLocal ==
  /\ Locals < MaxLocals /\ sp > 0 /\ sp' = sp - 1
  /\ stacks' = Pushed(ss, sp, <<Junk>>) /\ UNCHANGED ip

PopLocal ==
  /\ Locals > 0 /\ sp' = sp + 1
  /\ stacks' = Forgotten(ss, sp + 1) /\ UNCHANGED ip

OtherInstruction ==
  /\ Jump \/ PushLocal \/ PopLocal
  /\ back' = Nowhere /\ UNCHANGED <<cs, ss, intOn, calls>>

GatesNext ==
  \/ \E r \in Rings, h \in Places, i \in BOOLEAN : Interrupt(r, h, i)
  \/ \E t \in Places, d \in 0 .. MaxParams : FarCall(t, d)
  \/ Iret \/ RetfFromInterrupt \/ Retf \/ OtherInstruction

GatesSpec == GatesInit /\ [][GatesNext]_gateVars

----------------------------------------------------------------------------
(* However interrupts and calls nest, and whichever rings they cross, a    *)
(* return continues where the call was made, on its stack, with SP where   *)
(* it was before the parameters were pushed; IRET restores IF as well.     *)
ReturnsResume ==
  back # Nowhere => /\ cs = back.cs /\ ip = back.ip
                    /\ ss = back.ss /\ sp = back.sp
                    /\ back.how = "iret" => intOn = back.intOn
=============================================================================
