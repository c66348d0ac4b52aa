------------------------------- MODULE CpuAlu -------------------------------
(***************************************************************************)
(* Numbers of two words, as 16-bit compilers compute with them on the      *)
(* instructions of src/cpu.cpp: ADD and ADC, SUB and SBB, CMP and SBB, NEG *)
(* and SBB, SHL and RCL, SHR or SAR and RCR, with INC and DEC of a pointer *)
(* or a counter in between.  The carry has to travel from one to the next. *)
(***************************************************************************)
EXTENDS CpuFlags

Ops    == {"add", "sub", "cmp", "neg", "shl", "shr", "sar"}
Stages == {"start", "first", "second", "done"}

VARIABLES
  op,           (* what is being computed                                  *)
  at,           (* how far it is                                           *)
  touched,      (* INC or DEC came between                                 *)
  lo, hi,       (* the operand the result replaces                         *)
  ylo, yhi,     (* the other one                                           *)
  f,            (* the flags                                               *)
  lo0, hi0      (* history: lo and hi to begin with                        *)

aluVars == <<op, at, touched, lo, hi, ylo, yhi, f, lo0, hi0>>

AluInit ==
  /\ op \in Ops /\ at = "start" /\ touched = FALSE
  /\ lo \in Word /\ hi \in Word /\ ylo \in Word /\ yhi \in Word
  /\ op \in {"neg", "shl", "shr", "sar"} => ylo = 0 /\ yhi = 0
  /\ f \in [cf : BOOLEAN, af : {FALSE}, zf : {FALSE}, sf : {FALSE}, of : {FALSE}]
  /\ lo0 = lo /\ hi0 = hi

(* The first of two instructions.                                          *)
AddLow ==
  /\ op = "add" /\ at = "start" /\ at' = "first"
  /\ lo' = Cut(lo + ylo) /\ f' = AddFlags(lo, ylo, 0) /\ UNCHANGED hi

SubLow ==
  /\ op \in {"sub", "cmp"} /\ at = "start" /\ at' = "first"
  /\ lo' = (IF op = "cmp" THEN lo ELSE Cut(lo - ylo))
  /\ f' = SubFlags(lo, ylo, 0) /\ UNCHANGED hi

(* NEG of the high word, then of the low one: CF says it was not zero.     *)
NegHigh ==
  /\ op = "neg" /\ at = "start" /\ at' = "first"
  /\ hi' = Cut(0 - hi) /\ f' = [SubFlags(0, hi, 0) EXCEPT !.cf = hi # 0]
  /\ UNCHANGED lo

NegLow ==
  /\ op = "neg" /\ at = "first" /\ at' = "second"
  /\ lo' = Cut(0 - lo) /\ f' = [SubFlags(0, lo, 0) EXCEPT !.cf = lo # 0]
  /\ UNCHANGED hi

ShiftFirst ==
  /\ at = "start" /\ at' = "first"
  /\ \/ /\ op = "shl"
        /\ lo' = Up(lo, FALSE) /\ f' = ShiftFlags(f, Sign(lo), lo') /\ UNCHANGED hi
     \/ /\ op \in {"shr", "sar"}
        /\ hi' = Down(hi, op = "sar" /\ Sign(hi))
        /\ f' = ShiftFlags(f, LowBit(hi), hi') /\ UNCHANGED lo

(* INC or DEC of some register v, which the result does not show.          *)
Between ==
  /\ at \in {"first", "second"}
  /\ \E v \in Word : \/ f' = KeepingCarry(AddFlags(v, 1, 0), f)
                     \/ f' = KeepingCarry(SubFlags(v, 1, 0), f)
  /\ touched' = TRUE
  /\ UNCHANGED <<op, at, lo, hi, ylo, yhi, lo0, hi0>>

(* Mutant: ADD in place of ADC.                                            *)
NoCarry == 0

Carry == One(f.cf)

(* The second.                                                             *)
AddHigh ==
  /\ op = "add" /\ at = "first" /\ at' = "done"
  /\ hi' = Cut(hi + yhi + Carry) /\ f' = AddFlags(hi, yhi, Carry) /\ UNCHANGED lo

SubHigh ==
  /\ \/ op \in {"sub", "cmp"} /\ at = "first"
     \/ op = "neg" /\ at = "second"
  /\ at' = "done"
  /\ hi' = Cut(hi - yhi - Carry) /\ f' = SubFlags(hi, yhi, Carry) /\ UNCHANGED lo

(* Mutant: a rotate that does not go through the carry.                    *)
RotatedIn == IF op = "shl" THEN Sign(hi) ELSE LowBit(lo)

ShiftedIn == f.cf

ShiftSecond ==
  /\ at = "first" /\ at' = "done"
  /\ \/ /\ op = "shl"
        /\ hi' = Up(hi, ShiftedIn) /\ f' = ShiftFlags(f, Sign(hi), hi') /\ UNCHANGED lo
     \/ /\ op \in {"shr", "sar"}
        /\ lo' = Down(lo, ShiftedIn) /\ f' = ShiftFlags(f, LowBit(lo), lo') /\ UNCHANGED hi

AluStep == AddLow \/ SubLow \/ NegHigh \/ NegLow \/ ShiftFirst \/ AddHigh \/ SubHigh \/ ShiftSecond

AluNext == (AluStep /\ UNCHANGED <<op, touched, ylo, yhi, lo0, hi0>>) \/ Between

AluSpec == AluInit /\ [][AluNext]_aluVars

----------------------------------------------------------------------------
AluTypeOK ==
  /\ op \in Ops /\ at \in Stages /\ touched \in BOOLEAN
  /\ lo \in Word /\ hi \in Word /\ ylo \in Word /\ yhi \in Word
  /\ lo0 \in Word /\ hi0 \in Word
  /\ f \in Flags

Wide(h, l)       == h * W + l
SignedWide(h, l) == Signed(h) * W + l
Range(v)         == -(Half * W) <= v /\ v < Half * W     (* a signed wide number *)

(* The wide result, with CF for what does not fit and OF for what does not *)
(* fit a signed number, whatever INC and DEC did in between.  (CMP leaves  *)
(* the low word.)                                                          *)
WideArithmetic ==
  LET x == Wide(hi0, lo0)  y == Wide(yhi, ylo)
      sx == SignedWide(hi0, lo0)  sy == SignedWide(yhi, ylo)
  IN  at = "done" =>
        /\ op = "add" => /\ Wide(hi, lo) + One(f.cf) * W * W = x + y
                         /\ f.of <=> ~Range(sx + sy)
        /\ op = "sub" => /\ Wide(hi, lo) - One(f.cf) * W * W = x - y
                         /\ f.of <=> ~Range(sx - sy)
        /\ op = "neg" => Wide(hi, lo) = IF x = 0 THEN 0 ELSE W * W - x

(* A comparison decides: JB and JL of two words by the flags of the second *)
(* instruction, and of one word every condition by those of the first.     *)
BranchesDecide ==
  /\ op \in {"sub", "cmp"} /\ at = "done" =>
       /\ Below(f) <=> Wide(hi0, lo0) < Wide(yhi, ylo)
       /\ Less(f)  <=> SignedWide(hi0, lo0) < SignedWide(yhi, ylo)
  /\ op \in {"sub", "cmp"} /\ at = "first" /\ ~touched =>
       /\ Below(f)   <=> lo0 < ylo
       /\ BelowEq(f) <=> lo0 <= ylo
       /\ Equal(f)   <=> lo0 = ylo
       /\ Less(f)    <=> Signed(lo0) < Signed(ylo)
       /\ LessEq(f)  <=> Signed(lo0) <= Signed(ylo)

(* Shifting two words through the carry doubles or halves the number, and  *)
(* CF is what was lost.                                                    *)
WideShift ==
  at = "done" =>
    /\ op = "shl" => Wide(hi, lo) + One(f.cf) * W * W = 2 * Wide(hi0, lo0)
    /\ op = "shr" => 2 * Wide(hi, lo) + One(f.cf) = Wide(hi0, lo0)
    /\ op = "sar" => 2 * SignedWide(hi, lo) + One(f.cf) = SignedWide(hi0, lo0)
=============================================================================
