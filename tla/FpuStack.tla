------------------------------ MODULE FpuStack ------------------------------
(***************************************************************************)
(* The x87 of src/fpu.cpp: eight registers that a pointer goes round,      *)
(* comparisons that report in three scattered bits of the status word, and *)
(* FNSTSW AX; SAHF, which puts those bits where jumps look.  There are no  *)
(* tags: a push too many overwrites the deepest operand, a pop too many    *)
(* reads what was left (rude).  Numbers are small integers; subtraction    *)
(* stands for the arithmetic group.                                        *)
(***************************************************************************)
EXTENDS Integers, FiniteSets, Sequences

CONSTANTS
  Slots,      (* 8: a power of two                                         *)
  Numbers,    (* the numbers programs compute with                         *)
  NaN

ASSUME FpuAssumption == Slots \in {2, 4, 8} /\ 0 \in Numbers /\ Numbers \subseteq Int

VARIABLES
  fst,        (* the registers                                             *)
  ftop,       (* ST(i) is fst[(ftop + i) % Slots]                          *)
  fsw,        (* the status word: the bits that are set                    *)
  lowFlags,   (* the low byte of the flags, likewise                       *)
  depth,      (* history: the operands on the stack                        *)
  fpuRude     (* history: the stack over- or underflowed                   *)

fpuVars == <<fst, ftop, fsw, lowFlags, depth, fpuRude>>

Registers == 0 .. Slots - 1
FpuValues == Numbers \union {NaN}

(* The bits of the status word, and of the flags SAHF loads from bits 8-15.*)
C0 == 8    C2 == 10   C3 == 14
CF == 0    PF == 2    ZF == 6

(* Mutant: ST(i) counted against the pointer.                              *)
StDownwards(i) == (ftop - i) % Slots

St(i) == (ftop + i) % Slots

Down1 == (ftop - 1) % Slots

(* The difference as the code takes it; what leaves Numbers is any result. *)
Minus(a, b) == IF a = NaN \/ b = NaN \/ a - b \notin Numbers THEN NaN ELSE a - b

(* compare(): all clear is greater.                                        *)
CompareBits(a, b) ==
  IF a = NaN \/ b = NaN THEN {C0, C2, C3}
  ELSE IF a > b THEN {} ELSE IF a < b THEN {C0} ELSE {C3}

(* status(): TOP in bits 11-13, whatever fsw has there.                    *)
TopBits == {11 + b : b \in {k \in 0 .. 2 : (ftop \div (2 ^ k)) % 2 = 1}}
Status  == (fsw \ {11, 12, 13}) \union TopBits

FpuInit ==
  /\ fst = [r \in Registers |-> 0]
  /\ ftop = 0 /\ fsw = {} /\ lowFlags = {} /\ depth = 0 /\ fpuRude = FALSE

(* The pointer moves by n pops; reading ST(i) for i < need is no surprise. *)
Needs(need)  == fpuRude' = (fpuRude \/ depth < need)
Pops(n)      == ftop' = (ftop + n) % Slots /\ depth' = IF depth < n THEN 0 ELSE depth - n
SameFlags    == UNCHANGED <<fsw, lowFlags>>

(* FLD, FILD, FLD1, FLDZ ... and FLD ST(i).                                *)
Push(v, need) ==
  /\ ftop' = Down1 /\ fst' = [fst EXCEPT ![Down1] = v]
  /\ depth' = IF depth < Slots THEN depth + 1 ELSE Slots
  /\ fpuRude' = (fpuRude \/ depth = Slots \/ depth < need)
  /\ SameFlags

LoadValue(v) == Push(v, 0)
LoadSt(i)    == Push(fst[St(i)], i + 1)

(* FSTP and FISTP to memory.                                               *)
StorePop == Pops(1) /\ Needs(1) /\ UNCHANGED fst /\ SameFlags

(* FST ST(i), FSTP ST(i).                                                  *)
StoreSt(i, n) ==
  /\ fst' = [fst EXCEPT ![St(i)] = fst[St(0)]]
  /\ Pops(n) /\ Needs(i + 1) /\ SameFlags

ExchangeSt(i) ==
  /\ fst' = [fst EXCEPT ![St(0)] = fst[St(i)], ![St(i)] = fst[St(0)]]
  /\ Pops(0) /\ Needs(i + 1) /\ SameFlags

(* arith(), for FSUB (4) and FSUBR (5); rev in the forms that replace      *)
(* ST(i), where the encodings change places.                               *)
Arith(which, dst, src, rev) ==
  IF (which = 4) # rev THEN Minus(dst, src) ELSE Minus(src, dst)

(* D8: ST(0) becomes the result.                                           *)
ArithSt0(i, which) ==
  /\ fst' = [fst EXCEPT ![St(0)] = Arith(which, fst[St(0)], fst[St(i)], FALSE)]
  /\ Pops(0) /\ Needs(i + 1) /\ SameFlags

(* DC, and DE, which pops: ST(i) becomes the result.  Named by what the    *)
(* assembler calls them: FSUB is 5 here.                                   *)
SubSti(i, n)  ==
  /\ fst' = [fst EXCEPT ![St(i)] = Arith(5, fst[St(i)], fst[St(0)], TRUE)]
  /\ Pops(n) /\ Needs(i + 1) /\ SameFlags

SubrSti(i, n) ==
  /\ fst' = [fst EXCEPT ![St(i)] = Arith(4, fst[St(i)], fst[St(0)], TRUE)]
  /\ Pops(n) /\ Needs(i + 1) /\ SameFlags

(* FCHS, FABS, FSQRT, FRNDINT, FSIN, FCOS, and arithmetic with memory; with*)
(* FPREM and FSCALE also ST(1) is read.                                    *)
ApplySt0(v, need) ==
  /\ fst' = [fst EXCEPT ![St(0)] = v]
  /\ Pops(0) /\ Needs(need) /\ SameFlags

Compares(v) == fsw' = (fsw \ {C0, C2, C3}) \union CompareBits(fst[St(0)], v)

(* FCOM, FCOMP, FUCOM, FUCOMP with ST(i); FCOMPP and FUCOMPP with ST(1).   *)
CompareSt(i, n) ==
  /\ n = 2 => i = 1
  /\ Compares(fst[St(i)]) /\ Pops(n) /\ Needs(i + 1) /\ UNCHANGED <<fst, lowFlags>>

(* FCOM, FCOMP, FICOM, FICOMP with memory; FTST.                           *)
CompareValue(v, n) ==
  Compares(v) /\ Pops(n) /\ Needs(1) /\ UNCHANGED <<fst, lowFlags>>

(* FNSTSW AX; SAHF.                                                        *)
StatusToFlags ==
  /\ lowFlags' = {b - 8 : b \in {s \in Status : s >= 8}}
  /\ UNCHANGED <<fst, ftop, fsw, depth, fpuRude>>

(* FNCLEX clears the condition bits along with the exceptions.             *)
ClearExceptions == fsw' = {} /\ UNCHANGED <<fst, ftop, lowFlags, depth, fpuRude>>

Reset ==
  /\ fst' = [r \in Registers |-> 0]
  /\ ftop' = 0 /\ fsw' = {} /\ depth' = 0
  /\ UNCHANGED <<lowFlags, fpuRude>>

OnSt(i) ==
  \/ LoadSt(i) \/ ExchangeSt(i)
  \/ \E n \in {0, 1} : StoreSt(i, n) \/ SubSti(i, n) \/ SubrSti(i, n)
  \/ \E which \in {4, 5} : ArithSt0(i, which)
  \/ \E n \in 0 .. 2 : CompareSt(i, n)

WithValue(v) ==
  \/ LoadValue(v)
  \/ \E n \in {0, 1} : CompareValue(v, n)
  \/ \E n \in {1, 2} : ApplySt0(v, n)

FpuNext ==
  /\ ~fpuRude
  /\ \/ StorePop \/ StatusToFlags \/ ClearExceptions \/ Reset
     \/ \E v \in FpuValues : WithValue(v)
     \/ \E i \in Registers : OnSt(i)

FpuSpec == FpuInit /\ [][FpuNext]_fpuVars

----------------------------------------------------------------------------
FpuTypeOK ==
  /\ fst \in [Registers -> FpuValues] /\ ftop \in Registers
  /\ fsw \subseteq {C0, C2, C3} /\ lowFlags \subseteq 0 .. 7
  /\ depth \in 0 .. Slots /\ fpuRude \in BOOLEAN

OrderIn(c0, c2, c3) ==
  IF c2 THEN "unordered" ELSE IF c0 THEN "less" ELSE IF c3 THEN "equal" ELSE "greater"

(* Jumps go by CF (JB), PF (JP) and ZF (JE).                               *)
Computed == INSTANCE EvalStack WITH
              Limit  <- Slots,
              stack  <- [i \in 1 .. depth |-> fst[St(i - 1)]],
              order  <- OrderIn(C0 \in fsw, C2 \in fsw, C3 \in fsw),
              branch <- OrderIn(CF \in lowFlags, PF \in lowFlags, ZF \in lowFlags)

(* As long as the guest keeps within the registers, they are a stack, and  *)
(* the jump behind FNSTSW AX and SAHF goes the way of the last comparison  *)
(* ("the same three bits SAHF later tests", fpu.cpp:91).                   *)
FpuIsStack == [][~fpuRude' => [Computed!Next]_Computed!vars]_fpuVars
=============================================================================
