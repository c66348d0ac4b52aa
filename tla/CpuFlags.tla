------------------------------ MODULE CpuFlags ------------------------------
(***************************************************************************)
(* What an arithmetic instruction of src/cpu.cpp makes of two words and    *)
(* the carry: alu8 and aluv, which are the same at 8, 16 and 32 bits, and  *)
(* the conditions cc() of Jcc, SETcc and CMOVcc.  Half is the weight of    *)
(* the sign bit.  The parity flag is left out: nothing here reads it.      *)
(***************************************************************************)
EXTENDS Integers

CONSTANT Half

ASSUME HalfAssumption == Half \in Nat \ {0}

W         == 2 * Half
Word      == 0 .. W - 1
Sign(v)   == v >= Half
Signed(v) == IF v >= Half THEN v - W ELSE v
One(b)    == IF b THEN 1 ELSE 0

Flags == [cf : BOOLEAN, af : BOOLEAN, zf : BOOLEAN, sf : BOOLEAN, of : BOOLEAN]

(* The total before it is cut to a word: from -W to 2W - 1.  CF is the bit *)
(* above the word (res & 0x100).                                           *)
Cut(t)       == IF t < 0 THEN t + W ELSE IF t >= W THEN t - W ELSE t
BitAbove(t)  == t < 0 \/ t >= W
Bit4(v)      == (v \div 16) % 2 = 1

(* Mutant: the overflow of a difference taken for that of a sum.           *)
AsSum(x, y, r) == Sign(x) = Sign(y) /\ Sign(x) # Sign(r)

(* ~(a ^ b) & (a ^ r) and (a ^ b) & (a ^ r), at the sign bit.              *)
SumOverflows(x, y, r)        == Sign(x) = Sign(y) /\ Sign(x) # Sign(r)
DifferenceOverflows(x, y, r) == Sign(x) # Sign(y) /\ Sign(x) # Sign(r)

ArithFlags(x, y, t, of) ==
  [cf |-> BitAbove(t), af |-> (Bit4(x) # Bit4(y)) # Bit4(Cut(t)),
   zf |-> Cut(t) = 0, sf |-> Sign(Cut(t)), of |-> of]

AddFlags(x, y, c) == ArithFlags(x, y, x + y + c, SumOverflows(x, y, Cut(x + y + c)))
SubFlags(x, y, c) == ArithFlags(x, y, x - y - c, DifferenceOverflows(x, y, Cut(x - y - c)))

(* Mutant: INC and DEC set the carry.                                      *)
TakingCarry(f, old) == f

(* INC and DEC: of ADD and SUB everything but the carry.                   *)
KeepingCarry(f, old) == [f EXCEPT !.cf = old.cf]

(* A shift by one sets CF to the bit that leaves, ZF and SF; the code lets *)
(* rotates set ZF and SF as well.                                          *)
ShiftFlags(f, out, r) == [f EXCEPT !.cf = out, !.zf = (r = 0), !.sf = Sign(r)]

Up(v, in)        == Cut(2 * v) + One(in)
Down(v, in)      == (v \div 2) + (IF in THEN Half ELSE 0)
LowBit(v)        == v % 2 = 1

(* cc(): the conditions by the names assemblers give them.                 *)
Below(f)     == f.cf
Equal(f)     == f.zf
BelowEq(f)   == f.cf \/ f.zf
Less(f)      == f.sf # f.of
LessEq(f)    == f.zf \/ f.sf # f.of
=============================================================================
