---------------------------- MODULE CpuAluProofs ----------------------------
(***************************************************************************)
(* The properties of the instructions that work on data: CpuAlu for a word *)
(* of any width, CpuDecimal for every pair of digits, and RepString for a  *)
(* segment of any size.  For each an inductive invariant says what has     *)
(* been computed at each stage, or after each element (Progress,           *)
(* DecimalInv, RepInv), and the properties are what it says of the end.    *)
(***************************************************************************)
EXTENDS CpuAlu, CpuDecimal, RepString, TLAPS

-----------------------------------------------------------------------------
(* CpuAlu.                                                                 *)

(* What one instruction leaves: the word and the carry determine the total.*)
LEMMA CutOfTotal ==
  ASSUME NEW t \in Int, -W <= t, t < 2 * W
  PROVE  /\ Cut(t) \in Word
         /\ BitAbove(t) \in BOOLEAN
         /\ t >= 0 => Cut(t) + One(BitAbove(t)) * W = t
         /\ t < W  => Cut(t) - One(BitAbove(t)) * W = t
  BY HalfAssumption, SMT DEF Cut, BitAbove, One, Word, W

(* A flag as a number is a bit.                                            *)
LEMMA OneIsBit == ASSUME NEW b \in BOOLEAN PROVE One(b) \in {0, 1}
  BY DEF One

(* The sums and differences an instruction forms, in their range.          *)
LEMMA TotalsInRange ==
  ASSUME NEW x \in Word, NEW y \in Word, NEW c \in {0, 1}
  PROVE  /\ x + y + c \in Int /\ -W <= x + y + c /\ x + y + c < 2 * W /\ x + y + c >= 0
         /\ x - y - c \in Int /\ -W <= x - y - c /\ x - y - c < W /\ x - y - c < 2 * W
  BY HalfAssumption, SMT DEF Word, W

(* The additions and subtractions answer flags.                            *)
LEMMA FlagTypes ==
  ASSUME NEW x \in Word, NEW y \in Word, NEW c \in {0, 1}
  PROVE  AddFlags(x, y, c) \in Flags /\ SubFlags(x, y, c) \in Flags
  BY DEF AddFlags, SubFlags, ArithFlags, Flags, SumOverflows, DifferenceOverflows, BitAbove, Bit4, Sign

(* Setting the carry alone.                                                *)
LEMMA CarryUpdate ==
  ASSUME NEW g \in Flags, NEW a \in BOOLEAN
  PROVE  [g EXCEPT !.cf = a] \in Flags /\ [g EXCEPT !.cf = a].cf = a
  BY DEF Flags

(* Setting several flags at a time.                                        *)
LEMMA FlagUpdates ==
  ASSUME NEW g \in Flags, NEW a \in BOOLEAN, NEW b \in BOOLEAN, NEW c \in BOOLEAN
  PROVE  /\ [g EXCEPT !.cf = a, !.zf = b, !.sf = c] \in Flags
         /\ [g EXCEPT !.cf = a, !.zf = b, !.sf = c].cf = a
  BY DEF Flags

(* The overflow flag of a difference, and the conditions made of it.       *)
LEMMA SignedOverflow ==
  ASSUME NEW x \in Word, NEW y \in Word, NEW c \in {0, 1}
  PROVE  LET d == Signed(x) - Signed(y) - c
             s == Signed(x) + Signed(y) + c
         IN  /\ DifferenceOverflows(x, y, Cut(x - y - c)) <=> (d < -Half \/ d >= Half)
             /\ SumOverflows(x, y, Cut(x + y + c)) <=> (s < -Half \/ s >= Half)
             /\ (Sign(Cut(x - y - c)) # DifferenceOverflows(x, y, Cut(x - y - c))) <=> d < 0
  BY HalfAssumption, SMT DEF Signed, Sign, Cut, SumOverflows, DifferenceOverflows, Word, W

(* Two words are in the order of their high words, or of their low words.  *)
LEMMA WideOrder ==
  ASSUME NEW a \in Int, NEW b \in Int, NEW l \in Word, NEW m \in Word
  PROVE  (a * W + l < b * W + m) <=> (a - b - One(l < m) < 0)
<1>1. W \in Int /\ W > 0 /\ l \in Int /\ m \in Int /\ 0 <= l /\ l < W /\ 0 <= m /\ m < W
  BY HalfAssumption, SMT DEF W, Word
<1>2. CASE a = b
  <2>1. a - b - One(l < m) < 0 <=> l < m
    BY <1>1, <1>2, SMT DEF One
  <2>2. a * W + l < b * W + m <=> l < m
    BY <1>1, <1>2, SMT
  <2> QED BY <2>1, <2>2
<1>3. CASE a < b
  <2>1. PICK k \in Nat : b = a + 1 + k
    <3>1. b - a - 1 \in Nat
      BY <1>3
    <3> QED BY <3>1
  <2>2. k * W >= 0 /\ b * W = a * W + W + k * W
    BY <1>1, <2>1, SMT
  <2>3. a * W + l < b * W + m
    BY <1>1, <2>2, SMT
  <2>4. a - b - One(l < m) < 0
    BY <1>3, SMT DEF One
  <2> QED BY <2>3, <2>4
<1>4. CASE b < a
  <2>1. PICK k \in Nat : a = b + 1 + k
    <3>1. a - b - 1 \in Nat
      BY <1>4
    <3> QED BY <3>1
  <2>2. k * W >= 0 /\ a * W = b * W + W + k * W
    BY <1>1, <2>1, SMT
  <2>3. ~(a * W + l < b * W + m)
    BY <1>1, <2>2, SMT
  <2>4. ~(a - b - One(l < m) < 0)
    BY <1>4, SMT DEF One
  <2> QED BY <2>3, <2>4
<1> QED BY <1>2, <1>3, <1>4

(* A total of the high words decides whether the wide number fits.         *)
LEMMA WideRange ==
  ASSUME NEW s \in Int, NEW l \in Word
  PROVE  Range(s * W + l) <=> ~(s < -Half \/ s >= Half)
<1>1. 0 \in Word /\ Half \in Int /\ -Half \in Int /\ W \in Int /\ l \in Int /\ ~(l < 0)
  BY HalfAssumption, SMT DEF W, Word
<1>2. s * W + l < Half * W + 0 <=> s - Half - One(l < 0) < 0
  BY <1>1, WideOrder
<1>3. s * W + l < (-Half) * W + 0 <=> s - (-Half) - One(l < 0) < 0
  BY <1>1, WideOrder
<1>4. One(l < 0) = 0
  BY <1>1 DEF One
<1>5. s * W + l < Half * W <=> s < Half
  BY <1>1, <1>2, <1>4, SMT
<1>6. s * W + l < -(Half * W) <=> s < -Half
  <2>1. (-Half) * W + 0 = -(Half * W)
    BY <1>1, SMT
  <2> QED BY <1>1, <1>3, <1>4, <2>1, SMT
<1>7. s * W + l \in Int /\ Half * W \in Int
  BY <1>1
<1> QED BY <1>1, <1>5, <1>6, <1>7, SMT DEF Range

(* The carry between the words of a sum cancels out.                       *)
LEMMA SumIdentity ==
  ASSUME NEW w \in Int, NEW h \in Int, NEW k \in Int, NEW l \in Int, NEW m \in Int,
         NEW c \in Int, NEW d \in Int
  PROVE  /\ (h + k + c - d * w) * w + (l + m - c * w) + d * w * w = (h * w + l) + (k * w + m)
         /\ (h - k - c + d * w) * w + (l - m + c * w) - d * w * w = (h * w + l) - (k * w + m)
         /\ (h + k + c) * w + (l + m - c * w) = (h * w + l) + (k * w + m)
         /\ (h - k - c) * w + (l - m + c * w) = (h * w + l) - (k * w + m)
  BY SMT

(* So does the bit one half of a shift hands the other.                    *)
LEMMA HalvesIdentity ==
  ASSUME NEW w \in Int, NEW h \in Int, NEW l \in Int, NEW p \in Int, NEW q \in Int
  PROVE  (h - p) * w + (l - q + p * w) + q = h * w + l
  BY SMT

(* A shift right halves a word and drops its last bit.                     *)
LEMMA HalfAndRest ==
  ASSUME NEW v \in Word, NEW in \in BOOLEAN
  PROVE  One(LowBit(v)) \in Int /\ 2 * Down(v, in) = v - One(LowBit(v)) + One(in) * W
<1>1. v \in Nat /\ Half \in Nat /\ W = 2 * Half
  BY HalfAssumption, SMT DEF Word, W
<1>2. 2 * (v \div 2) = v - One(LowBit(v)) /\ v \div 2 \in Int /\ One(LowBit(v)) \in Int
  BY <1>1, SMT DEF LowBit, One
<1>3. CASE in
  BY <1>1, <1>2, <1>3, SMT DEF Down, One
<1>4. CASE ~in
  BY <1>1, <1>2, <1>4, SMT DEF Down, One
<1> QED BY <1>3, <1>4

(* ADD on the low words and ADC on the high ones add the double words.     *)
LEMMA WideSum ==
  ASSUME NEW h \in Word, NEW l \in Word, NEW k \in Word, NEW m \in Word, NEW c,
         c = One(BitAbove(l + m))
  PROVE  /\ Wide(Cut(h + k + c), Cut(l + m)) + One(BitAbove(h + k + c)) * W * W
               = Wide(h, l) + Wide(k, m)
         /\ SumOverflows(h, k, Cut(h + k + c)) <=> ~Range(SignedWide(h, l) + SignedWide(k, m))
<1>1. /\ h \in Int /\ k \in Int /\ l \in Int /\ m \in Int /\ W \in Int /\ c \in {0, 1} /\ c \in Int
      /\ Signed(h) \in Int /\ Signed(k) \in Int
  BY HalfAssumption, SMT DEF Word, W, One, BitAbove, Signed
<1>2. Cut(l + m) \in Word /\ Cut(l + m) = l + m - c * W
  BY HalfAssumption, SMT DEF Cut, One, BitAbove, Word, W
<1>3. /\ One(BitAbove(h + k + c)) \in Int
      /\ Cut(h + k + c) = h + k + c - One(BitAbove(h + k + c)) * W
  BY <1>1, HalfAssumption, SMT DEF Cut, One, BitAbove, Word, W
<1>4. Wide(Cut(h + k + c), Cut(l + m)) + One(BitAbove(h + k + c)) * W * W = Wide(h, l) + Wide(k, m)
  BY <1>1, <1>2, <1>3, SumIdentity DEF Wide
<1>5. SignedWide(h, l) + SignedWide(k, m) = (Signed(h) + Signed(k) + c) * W + Cut(l + m)
  BY <1>1, <1>2, SumIdentity DEF SignedWide
<1>6. Range((Signed(h) + Signed(k) + c) * W + Cut(l + m))
        <=> ~(Signed(h) + Signed(k) + c < -Half \/ Signed(h) + Signed(k) + c >= Half)
  <2>1. Signed(h) + Signed(k) + c \in Int
    BY <1>1
  <2> QED BY <1>2, <2>1, WideRange
<1> QED BY <1>1, <1>4, <1>5, <1>6, SignedOverflow

(* SUB and SBB subtract them, and tell whether the result overflows.       *)
LEMMA WideDifference ==
  ASSUME NEW h \in Word, NEW l \in Word, NEW k \in Word, NEW m \in Word, NEW c,
         c = One(BitAbove(l - m))
  PROVE  LET r == Cut(h - k - c)
             o == DifferenceOverflows(h, k, r)
         IN  /\ Wide(r, Cut(l - m)) - One(BitAbove(h - k - c)) * W * W = Wide(h, l) - Wide(k, m)
             /\ o <=> ~Range(SignedWide(h, l) - SignedWide(k, m))
             /\ BitAbove(h - k - c) <=> Wide(h, l) < Wide(k, m)
             /\ (Sign(r) # o) <=> SignedWide(h, l) < SignedWide(k, m)
<1>1. /\ h \in Int /\ k \in Int /\ l \in Int /\ m \in Int /\ W \in Int /\ c \in {0, 1} /\ c \in Int
      /\ Signed(h) \in Int /\ Signed(k) \in Int
  BY HalfAssumption, SMT DEF Word, W, One, BitAbove, Signed
<1>2. Cut(l - m) \in Word /\ Cut(l - m) = l - m + c * W /\ c = One(l < m)
  BY HalfAssumption, SMT DEF Cut, One, BitAbove, Word, W
<1>3. /\ One(BitAbove(h - k - c)) \in Int
      /\ Cut(h - k - c) = h - k - c + One(BitAbove(h - k - c)) * W
      /\ BitAbove(h - k - c) <=> h - k - c < 0
  BY <1>1, HalfAssumption, SMT DEF Cut, One, BitAbove, Word, W
<1>4. Wide(Cut(h - k - c), Cut(l - m)) - One(BitAbove(h - k - c)) * W * W = Wide(h, l) - Wide(k, m)
  BY <1>1, <1>2, <1>3, SumIdentity DEF Wide
<1>5. SignedWide(h, l) - SignedWide(k, m) = (Signed(h) - Signed(k) - c) * W + Cut(l - m)
  BY <1>1, <1>2, SumIdentity DEF SignedWide
<1>6. Range((Signed(h) - Signed(k) - c) * W + Cut(l - m))
        <=> ~(Signed(h) - Signed(k) - c < -Half \/ Signed(h) - Signed(k) - c >= Half)
  <2>1. Signed(h) - Signed(k) - c \in Int
    BY <1>1
  <2> QED BY <1>2, <2>1, WideRange
<1>7. BitAbove(h - k - c) <=> Wide(h, l) < Wide(k, m)
  BY <1>1, <1>2, <1>3, WideOrder DEF Wide
<1>8. Signed(h) - Signed(k) - c < 0 <=> SignedWide(h, l) < SignedWide(k, m)
  BY <1>1, <1>2, WideOrder DEF SignedWide
<1> QED BY <1>1, <1>4, <1>5, <1>6, <1>7, <1>8, SignedOverflow

(* What has been computed at each stage.                                   *)
AddedLow      == lo = Cut(lo0 + ylo) /\ f.cf = BitAbove(lo0 + ylo) /\ hi = hi0
SubtractedLow ==
  /\ lo = (IF op = "cmp" THEN lo0 ELSE Cut(lo0 - ylo)) /\ hi = hi0
  /\ f.cf = BitAbove(lo0 - ylo)
  /\ ~touched => f = SubFlags(lo0, ylo, 0)
NegatedHigh   == hi = Cut(0 - hi0) /\ lo = lo0
NegatedLow    == hi = Cut(0 - hi0) /\ lo = Cut(0 - lo0) /\ f.cf = (lo0 # 0)
ShiftedUp     == lo = Up(lo0, FALSE) /\ f.cf = Sign(lo0) /\ hi = hi0
ShiftedDown   ==
  hi = Down(hi0, op = "sar" /\ Sign(hi0)) /\ f.cf = LowBit(hi0) /\ lo = lo0

Progress ==
  /\ AluTypeOK
  /\ op \in {"neg", "shl", "shr", "sar"} => ylo = 0 /\ yhi = 0
  /\ at = "start" => lo = lo0 /\ hi = hi0
  /\ at = "first" /\ op = "add" => AddedLow
  /\ at = "first" /\ op \in {"sub", "cmp"} => SubtractedLow
  /\ at = "first" /\ op = "neg" => NegatedHigh
  /\ at = "second" => op = "neg" /\ NegatedLow
  /\ at = "first" /\ op = "shl" => ShiftedUp
  /\ at = "first" /\ op \in {"shr", "sar"} => ShiftedDown
  /\ at = "done" => WideArithmetic /\ BranchesDecide /\ WideShift

(* Progress speaks of the stage that is reached, so a step is judged by    *)
(* what it computes there.                                                 *)
LEMMA ProgressInit == AluInit => Progress
<1> SUFFICES ASSUME AluInit PROVE Progress
  OBVIOUS
<1>1. f \in Flags
  BY DEF AluInit, Flags
<1>2. AluTypeOK
  BY <1>1 DEF AluInit, AluTypeOK, Stages
<1> QED BY <1>2 DEF AluInit, Progress

(* The shifts answer words and carries.                                    *)
LEMMA ShiftTypes ==
  ASSUME NEW v \in Word, NEW in \in BOOLEAN
  PROVE  Up(v, in) \in Word /\ Down(v, in) \in Word
  BY HalfAssumption, SMT DEF Up, Down, Cut, One, Word, W

(* The instructions that may come first keep Progress.                     *)
LEMMA FirstSteps ==
  ASSUME Progress, AddLow \/ SubLow \/ NegHigh \/ NegLow \/ ShiftFirst,
         UNCHANGED <<op, touched, ylo, yhi, lo0, hi0>>
  PROVE  Progress'
<1> USE DEF Progress, AluTypeOK
<1>0. 0 \in Word /\ 0 \in {0, 1}
  BY HalfAssumption, SMT DEF Word, W
<1>1. CASE AddLow
  <2>1. lo + ylo + 0 = lo + ylo /\ lo + ylo \in Int /\ -W <= lo + ylo /\ lo + ylo < 2 * W
    BY HalfAssumption, SMT DEF Word, W
  <2>2. lo' \in Word /\ f' \in Flags
    BY <1>0, <1>1, <2>1, CutOfTotal, FlagTypes DEF AddLow
  <2>3. f'.cf = BitAbove(lo + ylo)
    BY <1>1, <2>1 DEF AddLow, AddFlags, ArithFlags
  <2> QED BY <1>1, <2>2, <2>3 DEF AddLow, AddedLow, Stages
<1>2. CASE SubLow
  <2>1. lo - ylo - 0 = lo - ylo /\ lo - ylo \in Int /\ -W <= lo - ylo /\ lo - ylo < 2 * W
    BY HalfAssumption, SMT DEF Word, W
  <2>2. lo' \in Word /\ f' \in Flags
    BY <1>0, <1>2, <2>1, CutOfTotal, FlagTypes DEF SubLow
  <2>3. f'.cf = BitAbove(lo - ylo)
    BY <1>2, <2>1 DEF SubLow, SubFlags, ArithFlags
  <2>4. SubtractedLow'
    BY <1>2, <2>3 DEF SubLow, SubtractedLow
  <2> QED BY <1>2, <2>2, <2>4 DEF SubLow, Stages
<1>3. CASE NegHigh
  <2>1. 0 - hi - 0 = 0 - hi /\ 0 - hi \in Int /\ -W <= 0 - hi /\ 0 - hi < 2 * W
    BY HalfAssumption, SMT DEF Word, W
  <2>2. hi' \in Word /\ SubFlags(0, hi, 0) \in Flags
    BY <1>0, <1>3, <2>1, CutOfTotal, FlagTypes DEF NegHigh
  <2>3. f' \in Flags
    BY <1>3, <2>2 DEF NegHigh, Flags
  <2> QED BY <1>3, <2>2, <2>3 DEF NegHigh, NegatedHigh, Stages
<1>4. CASE NegLow
  <2>1. 0 - lo - 0 = 0 - lo /\ 0 - lo \in Int /\ -W <= 0 - lo /\ 0 - lo < 2 * W
    BY HalfAssumption, SMT DEF Word, W
  <2>2. lo' \in Word /\ SubFlags(0, lo, 0) \in Flags
    BY <1>0, <1>4, <2>1, CutOfTotal, FlagTypes DEF NegLow
  <2>3. f' \in Flags /\ f'.cf = (lo # 0)
    BY <1>4, <2>2 DEF NegLow, Flags
  <2> QED BY <1>4, <2>2, <2>3 DEF NegLow, NegatedHigh, NegatedLow, Stages
<1>5. CASE ShiftFirst
  <2>1. ASSUME NEW out \in BOOLEAN, NEW r \in Word
        PROVE  ShiftFlags(f, out, r) \in Flags /\ ShiftFlags(f, out, r).cf = out
    <3>1. (r = 0) \in BOOLEAN /\ Sign(r) \in BOOLEAN
      BY DEF Sign
    <3> QED BY <3>1, FlagUpdates DEF ShiftFlags
  <2>2. Sign(lo) \in BOOLEAN /\ LowBit(hi) \in BOOLEAN /\ (op = "sar" /\ Sign(hi)) \in BOOLEAN
    BY DEF Sign, LowBit
  <2>3. CASE op = "shl"
    <3>1. lo' \in Word /\ f' \in Flags /\ f'.cf = Sign(lo)
      BY <1>5, <2>1, <2>2, <2>3, ShiftTypes DEF ShiftFirst
    <3> QED BY <1>5, <2>3, <3>1 DEF ShiftFirst, ShiftedUp, Stages
  <2>4. CASE op \in {"shr", "sar"}
    <3>1. hi' \in Word /\ f' \in Flags /\ f'.cf = LowBit(hi)
      BY <1>5, <2>1, <2>2, <2>4, ShiftTypes DEF ShiftFirst
    <3> QED BY <1>5, <2>4, <3>1 DEF ShiftFirst, ShiftedDown, Stages
  <2> QED BY <1>5, <2>3, <2>4 DEF ShiftFirst
<1> QED BY <1>1, <1>2, <1>3, <1>4, <1>5

(* An INC or DEC between the words keeps it.                               *)
LEMMA BetweenStep ==
  ASSUME Progress, Between
  PROVE  Progress'
<1>1. PICK v \in Word : \/ f' = KeepingCarry(AddFlags(v, 1, 0), f)
                        \/ f' = KeepingCarry(SubFlags(v, 1, 0), f)
  BY DEF Between
<1>2. 1 \in Word /\ 0 \in {0, 1}
  BY HalfAssumption, SMT DEF Word, W
<1>3. f' \in Flags /\ f'.cf = f.cf
  <2>1. AddFlags(v, 1, 0) \in Flags /\ SubFlags(v, 1, 0) \in Flags /\ f.cf \in BOOLEAN
    BY <1>2, FlagTypes DEF Progress, AluTypeOK, Flags
  <2>2. \/ f' = [AddFlags(v, 1, 0) EXCEPT !.cf = f.cf]
        \/ f' = [SubFlags(v, 1, 0) EXCEPT !.cf = f.cf]
    BY <1>1 DEF KeepingCarry
  <2> QED BY <2>1, <2>2, CarryUpdate
<1> QED BY <1>3 DEF Between, Progress, AluTypeOK, AddedLow, SubtractedLow, NegatedHigh,
           NegatedLow, ShiftedUp, ShiftedDown

(* The instruction that completes a wide number.                           *)
LEMMA LastSteps ==
  ASSUME Progress, AddHigh \/ SubHigh \/ ShiftSecond,
         UNCHANGED <<op, touched, ylo, yhi, lo0, hi0>>
  PROVE  Progress'
<1> DEFINE c == One(f.cf)
<1>0. /\ AluTypeOK /\ c \in {0, 1} /\ W \in Int /\ Half \in Int /\ W = 2 * Half
      /\ Carry = c /\ 0 \in Word
  BY HalfAssumption, SMT DEF Progress, AluTypeOK, One, Flags, W, Word, Carry
<1>1. CASE AddHigh
  <2>1. AddedLow /\ hi + yhi + c \in Int /\ -W <= hi + yhi + c /\ hi + yhi + c < 2 * W
    BY <1>0, <1>1, TotalsInRange DEF AddHigh, Progress, AluTypeOK
  <2>2. hi' \in Word /\ f' \in Flags
    BY <1>0, <1>1, <2>1, CutOfTotal, FlagTypes DEF AddHigh, AluTypeOK
  <2>3. /\ f'.cf = BitAbove(hi + yhi + c) /\ f'.of = SumOverflows(hi, yhi, Cut(hi + yhi + c))
        /\ hi' = Cut(hi + yhi + c) /\ lo' = Cut(lo0 + ylo)
    BY <1>0, <1>1, <2>1 DEF AddHigh, AddFlags, ArithFlags, AddedLow
  <2>4. c = One(BitAbove(lo0 + ylo)) /\ hi = hi0
    BY <2>1 DEF AddedLow
  <2>5. WideArithmetic'
    BY <1>0, <1>1, <2>3, <2>4, WideSum DEF WideArithmetic, AluTypeOK, AddHigh
  <2> QED BY <1>0, <1>1, <2>2, <2>5
          DEF AddHigh, Progress, AluTypeOK, Stages, WideShift, BranchesDecide
<1>2. ASSUME SubHigh
      PROVE  /\ hi - yhi - c \in Int /\ -W <= hi - yhi - c /\ hi - yhi - c < 2 * W
             /\ hi' \in Word /\ f' \in Flags
             /\ hi' = Cut(hi - yhi - c) /\ lo' = lo /\ at' = "done" /\ UNCHANGED <<yhi, ylo, op, hi0, lo0>>
             /\ f'.cf = BitAbove(hi - yhi - c)
             /\ f'.of = DifferenceOverflows(hi, yhi, Cut(hi - yhi - c))
             /\ f'.sf = Sign(Cut(hi - yhi - c))
  <2>1. hi - yhi - c \in Int /\ -W <= hi - yhi - c /\ hi - yhi - c < 2 * W
    BY <1>0, TotalsInRange DEF AluTypeOK
  <2>2. hi' \in Word /\ f' \in Flags
    BY <1>0, <1>2, <2>1, CutOfTotal, FlagTypes DEF SubHigh, AluTypeOK
  <2> QED BY <1>0, <1>2, <2>1, <2>2 DEF SubHigh, SubFlags, ArithFlags
<1>3. CASE SubHigh /\ op \in {"sub", "cmp"}
  <2>1. SubtractedLow /\ c = One(BitAbove(lo0 - ylo)) /\ hi = hi0
    BY <1>3 DEF SubHigh, Progress, SubtractedLow
  <2>2. /\ Wide(hi', Cut(lo0 - ylo)) - One(f'.cf) * W * W = Wide(hi0, lo0) - Wide(yhi, ylo)
        /\ f'.of <=> ~Range(SignedWide(hi0, lo0) - SignedWide(yhi, ylo))
        /\ f'.cf <=> Wide(hi0, lo0) < Wide(yhi, ylo)
        /\ (f'.sf # f'.of) <=> SignedWide(hi0, lo0) < SignedWide(yhi, ylo)
    BY <1>0, <1>2, <1>3, <2>1, WideDifference DEF AluTypeOK
  <2>3. WideArithmetic'
    BY <1>2, <1>3, <2>1, <2>2 DEF WideArithmetic, SubtractedLow
  <2>4. BranchesDecide'
    BY <1>2, <1>3, <2>2 DEF BranchesDecide, Below, Less
  <2> QED BY <1>0, <1>2, <1>3, <2>3, <2>4 DEF Progress, AluTypeOK, Stages, WideShift
<1>4. CASE SubHigh /\ op = "neg"
  <2>1. NegatedLow /\ yhi = 0 /\ hi0 \in Int /\ lo0 \in Int /\ 0 <= hi0 /\ 0 <= lo0 /\ c = One(lo0 # 0)
    BY <1>0, <1>4, SMT DEF SubHigh, Progress, NegatedLow, AluTypeOK, Word
  <2>2. hi' = Cut(Cut(0 - hi0) - c) /\ lo' = Cut(0 - lo0)
    <3>1. hi \in Int /\ hi - 0 - c = hi - c
      BY <1>0, SMT DEF AluTypeOK, Word
    <3> QED BY <1>2, <1>4, <2>1, <3>1 DEF NegatedLow
  <2>3. Wide(hi0, lo0) = 0 <=> hi0 = 0 /\ lo0 = 0
    <3>1. hi0 > 0 => hi0 * W > 0
      BY <1>0, <2>1, HalfAssumption, SMT DEF W
    <3>2. hi0 * W \in Int /\ (hi0 = 0 => hi0 * W = 0)
      BY <1>0, <2>1, SMT
    <3> QED BY <2>1, <3>1, <3>2, SMT DEF Wide
  <2>4. ASSUME lo0 = 0 /\ hi0 = 0 PROVE WideArithmetic'
    <3>1. hi' = 0 /\ lo' = 0
      BY <1>0, <2>1, <2>2, <2>4, HalfAssumption, SMT DEF Cut, One, W
    <3>2. 0 * W + 0 = 0
      BY <1>0
    <3> QED BY <2>3, <2>4, <3>1, <3>2, <1>2, <1>4 DEF WideArithmetic, Wide
  <2>5. ASSUME lo0 = 0 /\ hi0 > 0 PROVE WideArithmetic'
    <3>1. hi' = W - hi0 /\ lo' = 0
      BY <1>0, <2>1, <2>2, <2>5, HalfAssumption, SMT DEF Cut, One, W, AluTypeOK, Word
    <3>2. (W - hi0) * W + 0 = W * W - (hi0 * W + 0)
      BY <1>0, <2>1, SMT
    <3> QED BY <2>3, <2>5, <3>1, <3>2, <1>2, <1>4 DEF WideArithmetic, Wide
  <2>6. ASSUME lo0 > 0 PROVE WideArithmetic'
    <3>1. hi' = W - hi0 - 1 /\ lo' = W - lo0
      BY <1>0, <2>1, <2>2, <2>6, HalfAssumption, SMT DEF Cut, One, W, AluTypeOK, Word
    <3>2. (W - hi0 - 1) * W + (W - lo0) = W * W - (hi0 * W + lo0)
      BY <1>0, <2>1, SMT
    <3> QED BY <2>1, <2>3, <2>6, <3>1, <3>2, <1>2, <1>4 DEF WideArithmetic, Wide
  <2>7. WideArithmetic'
    BY <2>1, <2>4, <2>5, <2>6, SMT
  <2> QED BY <1>0, <1>2, <1>4, <2>7 DEF Progress, AluTypeOK, Stages, WideShift, BranchesDecide
<1>5. CASE ShiftSecond /\ op = "shl"
  <2>1. /\ ShiftedUp /\ hi' = Up(hi, f.cf) /\ lo' = lo /\ f' = ShiftFlags(f, Sign(hi), hi')
        /\ at' = "done" /\ UNCHANGED <<op, hi0, lo0>>
    BY <1>0, <1>5 DEF ShiftSecond, ShiftedIn, Progress
  <2>2. hi' \in Word /\ f' \in Flags /\ f'.cf = Sign(hi)
    <3>1. /\ f.cf \in BOOLEAN /\ Sign(hi) \in BOOLEAN /\ (hi' = 0) \in BOOLEAN /\ Sign(hi') \in BOOLEAN
          /\ hi \in Word /\ f \in Flags
      BY <1>0 DEF AluTypeOK, Flags, Sign
    <3> QED BY <2>1, <3>1, ShiftTypes, FlagUpdates DEF ShiftFlags
  <2>3. hi = hi0 /\ lo = Cut(2 * lo0) + 0 /\ f.cf = Sign(lo0) /\ hi' = Cut(2 * hi0) + One(Sign(lo0))
    BY <2>1 DEF ShiftedUp, Up, One
  <2>4. \A v \in Word : One(Sign(v)) \in Int /\ Cut(2 * v) = 2 * v - One(Sign(v)) * W
    BY <1>0, SMT DEF Cut, One, Sign, Word
  <2>5. hi0 \in Word /\ lo0 \in Word /\ hi0 \in Int /\ lo0 \in Int
    BY <1>0, SMT DEF AluTypeOK, Word
  <2>6. Wide(hi', lo') + One(f'.cf) * W * W = 2 * Wide(hi0, lo0)
    <3> DEFINE p == One(Sign(hi0))  q == One(Sign(lo0))
    <3>1. p \in Int /\ q \in Int
      BY <2>4, <2>5
    <3>2. /\ hi' = 2 * hi0 - p * W + q /\ lo' = 2 * lo0 - q * W /\ One(f'.cf) = p
      <4>1. Cut(2 * lo0) + 0 = 2 * lo0 - q * W
        <5>1. Cut(2 * lo0) = 2 * lo0 - q * W /\ 2 * lo0 - q * W \in Int
          BY <1>0, <2>4, <2>5, <3>1
        <5> QED BY <5>1
      <4> QED BY <2>1, <2>2, <2>3, <2>4, <2>5, <4>1
    <3>3. (2 * hi0 - p * W + q) * W + (2 * lo0 - q * W) + p * W * W = 2 * (hi0 * W + lo0)
      <4> HIDE DEF p, q
      <4> QED BY <1>0, <2>5, <3>1, SMT
    <3> QED BY <3>2, <3>3 DEF Wide
  <2>7. WideShift'
    BY <1>5, <2>1, <2>6 DEF WideShift
  <2> QED BY <1>0, <1>5, <2>1, <2>2, <2>7
          DEF Progress, AluTypeOK, Stages, WideArithmetic, BranchesDecide
<1>6. CASE ShiftSecond /\ op \in {"shr", "sar"}
  <2>1. /\ ShiftedDown /\ lo' = Down(lo, f.cf) /\ hi' = hi /\ f' = ShiftFlags(f, LowBit(lo), lo')
        /\ at' = "done" /\ UNCHANGED <<op, hi0, lo0>>
    BY <1>0, <1>6 DEF ShiftSecond, ShiftedIn, Progress
  <2>2. lo' \in Word /\ f' \in Flags /\ f'.cf = LowBit(lo)
    <3>1. /\ f.cf \in BOOLEAN /\ LowBit(lo) \in BOOLEAN /\ (lo' = 0) \in BOOLEAN /\ Sign(lo') \in BOOLEAN
          /\ lo \in Word /\ f \in Flags
      BY <1>0 DEF AluTypeOK, Flags, Sign, LowBit
    <3> QED BY <2>1, <3>1, ShiftTypes, FlagUpdates DEF ShiftFlags
  <2>3. /\ lo = lo0 /\ f.cf = LowBit(hi0) /\ hi' = Down(hi0, op = "sar" /\ Sign(hi0))
        /\ hi0 \in Word /\ lo0 \in Word
    BY <1>0, <2>1 DEF ShiftedDown, AluTypeOK
  <2> DEFINE p == One(LowBit(hi0))  q == One(LowBit(lo0))
  <2>4. p \in Int /\ q \in Int /\ 2 * lo' = lo0 - q + p * W /\ One(f'.cf) = q
    BY <2>1, <2>2, <2>3, HalfAndRest DEF LowBit
  <2>5. CASE op = "shr"
    <3>1. 2 * hi' = hi0 - p
      BY <1>0, <2>3, <2>5, SMT DEF Down, LowBit, One, Word
    <3>2. 2 * (hi' * W + lo') + q = hi0 * W + lo0
      <4>1. hi' \in Int /\ lo' \in Int /\ hi0 \in Int /\ lo0 \in Int
        BY <1>0, <2>1, <2>2, <2>3, SMT DEF Word, AluTypeOK
      <4>2. 2 * (hi' * W + lo') + q = (2 * hi') * W + 2 * lo' + q
        <5> HIDE DEF q
        <5> QED BY <1>0, <2>4, <4>1, SMT
      <4>3. (hi0 - p) * W + (lo0 - q + p * W) + q = hi0 * W + lo0
        <5> HIDE DEF p, q
        <5> QED BY <1>0, <2>4, <4>1, HalvesIdentity
      <4> QED BY <2>4, <3>1, <4>2, <4>3
    <3> QED BY <1>0, <1>6, <2>1, <2>2, <2>3, <2>4, <2>5, <3>2
            DEF Progress, AluTypeOK, Stages, WideArithmetic, BranchesDecide, WideShift, Wide
  <2>6. CASE op = "sar"
    <3>1. 2 * Signed(hi') = Signed(hi0) - p
      BY <1>0, <2>3, <2>6, SMT DEF Down, LowBit, One, Word, Signed, Sign
    <3>2. 2 * (Signed(hi') * W + lo') + q = Signed(hi0) * W + lo0
      <4>1. Signed(hi') \in Int /\ lo' \in Int /\ Signed(hi0) \in Int /\ lo0 \in Int
        BY <1>0, <2>1, <2>2, <2>3, SMT DEF Word, AluTypeOK, Signed
      <4>2. 2 * (Signed(hi') * W + lo') + q = (2 * Signed(hi')) * W + 2 * lo' + q
        <5> HIDE DEF q
        <5> QED BY <1>0, <2>4, <4>1, SMT
      <4>3. (Signed(hi0) - p) * W + (lo0 - q + p * W) + q = Signed(hi0) * W + lo0
        <5>1. \A s \in Int : (s - p) * W + (lo0 - q + p * W) + q = s * W + lo0
          <6> HIDE DEF p, q
          <6> QED BY <1>0, <2>4, <4>1, HalvesIdentity
        <5> HIDE DEF p, q
        <5> QED BY <4>1, <5>1
      <4> QED BY <2>4, <3>1, <4>2, <4>3
    <3> QED BY <1>0, <1>6, <2>1, <2>2, <2>3, <2>4, <2>6, <3>2
            DEF Progress, AluTypeOK, Stages, WideArithmetic, BranchesDecide, WideShift, SignedWide
  <2> QED BY <1>6, <2>5, <2>6
<1> QED BY <1>1, <1>3, <1>4, <1>5, <1>6 DEF SubHigh, ShiftSecond

(* Every instruction keeps Progress.                                       *)
LEMMA ProgressKept == ASSUME Progress, [AluNext]_aluVars PROVE Progress'
<1>1. CASE AluStep /\ UNCHANGED <<op, touched, ylo, yhi, lo0, hi0>>
  <2>1. CASE AddLow \/ SubLow \/ NegHigh \/ NegLow \/ ShiftFirst
    BY <1>1, <2>1, FirstSteps
  <2>2. CASE AddHigh \/ SubHigh \/ ShiftSecond
    BY <1>1, <2>2, LastSteps
  <2> QED BY <1>1, <2>1, <2>2 DEF AluStep
<1>2. CASE Between
  BY <1>2, BetweenStep
<1>3. CASE UNCHANGED aluVars
  <2>1. UNCHANGED <<op, at, touched, lo, hi, ylo, yhi, f, lo0, hi0>>
    BY <1>3 DEF aluVars
  <2>2. AluTypeOK' <=> AluTypeOK
    BY <2>1 DEF AluTypeOK
  <2>3. WideArithmetic' <=> WideArithmetic
    BY <2>1 DEF WideArithmetic
  <2>4. BranchesDecide' <=> BranchesDecide
    BY <2>1 DEF BranchesDecide
  <2>5. WideShift' <=> WideShift
    BY <2>1 DEF WideShift
  <2>6. /\ AddedLow' <=> AddedLow
        /\ SubtractedLow' <=> SubtractedLow
        /\ NegatedHigh' <=> NegatedHigh
        /\ NegatedLow' <=> NegatedLow
        /\ ShiftedUp' <=> ShiftedUp
        /\ ShiftedDown' <=> ShiftedDown
    BY <2>1 DEF AddedLow, SubtractedLow, NegatedHigh, NegatedLow, ShiftedUp, ShiftedDown
  <2> QED BY <2>1, <2>2, <2>3, <2>4, <2>5, <2>6 DEF Progress
<1> QED BY <1>1, <1>2, <1>3 DEF AluNext

(* Progress holds in every state.                                          *)
LEMMA ProgressHolds == AluSpec => []Progress
  BY ProgressInit, ProgressKept, PTL DEF AluSpec

(* After one comparison, by the flags of that instruction.                 *)
LEMMA OneWordBranches ==
  ASSUME NEW x \in Word, NEW y \in Word, NEW g, g = SubFlags(x, y, 0)
  PROVE  /\ Below(g)   <=> x < y
         /\ BelowEq(g) <=> x <= y
         /\ Equal(g)   <=> x = y
         /\ Less(g)    <=> Signed(x) < Signed(y)
         /\ LessEq(g)  <=> Signed(x) <= Signed(y)
<1>1. /\ x \in Int /\ y \in Int /\ x - y - 0 = x - y /\ Signed(x) \in Int /\ Signed(y) \in Int
      /\ Signed(x) - Signed(y) - 0 = Signed(x) - Signed(y)
  BY HalfAssumption, SMT DEF Word, W, Signed
<1>2. /\ g.cf = BitAbove(x - y) /\ g.zf = (Cut(x - y) = 0) /\ g.sf = Sign(Cut(x - y))
      /\ g.of = DifferenceOverflows(x, y, Cut(x - y))
  BY <1>1 DEF SubFlags, ArithFlags
<1>3. (g.cf <=> x < y) /\ (g.zf <=> x = y)
  <2>1. BitAbove(x - y) <=> x < y
    BY <1>1, HalfAssumption, SMT DEF BitAbove, Word, W
  <2>2. Cut(x - y) = 0 <=> x = y
    BY <1>1, HalfAssumption, SMT DEF Cut, Word, W
  <2> QED BY <1>2, <2>1, <2>2
<1>4. (g.sf # g.of) <=> Signed(x) - Signed(y) < 0
  BY <1>1, <1>2, SignedOverflow
<1>5. x = y <=> Signed(x) = Signed(y)
  BY HalfAssumption, SMT DEF Signed, Word, W
<1>6. Signed(x) - Signed(y) < 0 <=> Signed(x) < Signed(y)
  BY <1>1
<1>7. Less(g) <=> Signed(x) < Signed(y)
  BY <1>4, <1>6 DEF Less
<1>8. (x <= y <=> x < y \/ x = y) /\ (Signed(x) <= Signed(y) <=> Signed(x) < Signed(y) \/ x = y)
  BY <1>1, <1>5
<1>9. LessEq(g) <=> g.zf \/ Less(g)
  BY DEF LessEq, Less
<1> QED BY <1>3, <1>7, <1>8, <1>9 DEF Below, BelowEq, Equal

(* Every field keeps its type.                                             *)
THEOREM AluTypeCorrect == AluSpec => []AluTypeOK
<1>1. Progress => AluTypeOK
  BY DEF Progress
<1> QED BY <1>1, ProgressHolds, PTL

(* Sums, differences and negations of two words, with their carry and      *)
(* overflow, for every word size.                                          *)
THEOREM WideSums == AluSpec => []WideArithmetic
<1>1. Progress => WideArithmetic
  BY DEF Progress, WideArithmetic
<1> QED BY <1>1, ProgressHolds, PTL

(* Shifts of two words through the carry, for every word size.             *)
THEOREM WideShifts == AluSpec => []WideShift
<1>1. Progress => WideShift
  BY DEF Progress, WideShift
<1> QED BY <1>1, ProgressHolds, PTL

(* Every conditional jump after a comparison of one word or two, for every *)
(* word size.                                                              *)
THEOREM Branches == AluSpec => []BranchesDecide
<1>1. Progress => BranchesDecide
  <2> SUFFICES ASSUME Progress PROVE BranchesDecide
    OBVIOUS
  <2>1. CASE at = "done"
    BY <2>1 DEF Progress
  <2>2. CASE at = "first" /\ op \in {"sub", "cmp"} /\ ~touched
    <3>1. lo0 \in Word /\ ylo \in Word /\ f = SubFlags(lo0, ylo, 0)
      BY <2>2 DEF Progress, SubtractedLow, AluTypeOK
    <3> QED BY <2>2, <3>1, OneWordBranches DEF BranchesDecide
  <2> QED BY <2>1, <2>2 DEF BranchesDecide
<1> QED BY <1>1, ProgressHolds, PTL

-----------------------------------------------------------------------------
(* CpuDecimal.                                                             *)

(* Two digits in a byte.                                                   *)
LEMMA Digits ==
  ASSUME NEW n \in 0 .. 99
  PROVE  \E a, b \in 0 .. 9 : n = 10 * a + b /\ Bcd(n) = 16 * a + b
<1>1. n \div 10 \in 0 .. 9 /\ n % 10 \in 0 .. 9 /\ n = 10 * (n \div 10) + (n % 10)
  OBVIOUS
<1> QED BY <1>1 DEF Bcd

(* Two digits packed.                                                      *)
LEMMA BcdOf ==
  ASSUME NEW a \in 0 .. 9, NEW b \in 0 .. 9
  PROVE  Bcd(10 * a + b) = 16 * a + b
BY DEF Bcd

(* The nibbles of a byte.                                                  *)
LEMMA Nibbles ==
  ASSUME NEW a \in 0 .. 15, NEW b \in 0 .. 15
  PROVE  (16 * a + b) \div 16 = a /\ (16 * a + b) % 16 = b
OBVIOUS

(* The words of CpuFlags, at eight bits.                                   *)
LEMMA ByteOps ==
  /\ \A t : Byte!Cut(t) = IF t < 0 THEN t + 256 ELSE IF t >= 256 THEN t - 256 ELSE t
  /\ \A t : Byte!BitAbove(t) <=> t < 0 \/ t >= 256
  /\ \A b : Byte!One(b) = IF b THEN 1 ELSE 0
  /\ \A v : Byte!Bit4(v) <=> (v \div 16) % 2 = 1
<1>1. Byte!W = 256
  BY DEF Byte!W
<1> QED BY <1>1 DEF Byte!Cut, Byte!BitAbove, Byte!One, Byte!Bit4

(* The operand as the instruction has it: two digits in a byte, or one.    *)
Encoded(n) == IF kind \in {"daa", "das"} THEN Bcd(n) ELSE n

(* The numbers: two digits, or one.                                        *)
DecTyped ==
  /\ kind \in Kinds /\ done \in {"loaded", "computed", "adjusted"}
  /\ first \in 0 .. 99 /\ second \in 0 .. 99 /\ carried \in BOOLEAN
  /\ kind \notin {"daa", "das"} => first \in 0 .. 9 /\ second \in 0 .. 9

(* What each instruction finds in AL, AH and the flags: the operand that   *)
(* was loaded and the carry that came in, then what ADC, SBB or MUL left.  *)
Loaded ==
  done = "loaded" =>
    /\ al = IF kind = "aad" THEN second ELSE Encoded(first)
    /\ kind = "aad" => ah = first
    /\ df.cf = carried

Computed ==
  done = "computed" =>
    LET x == Encoded(first)  y == Encoded(second)  c == Byte!One(carried)
    IN  /\ kind \in {"daa", "aaa"} => al = Byte!Cut(x + y + c) /\ df = Byte!AddFlags(x, y, c)
        /\ kind \in {"das", "aas"} => al = Byte!Cut(x - y - c) /\ df = Byte!SubFlags(x, y, c)
        /\ kind = "aam" => al = first * second
        /\ kind = "aad" => al = second /\ ah = first

(* The inductive invariant: the stages in turn, and what the last one      *)
(* promises.                                                               *)
DecimalInv == DecTyped /\ Loaded /\ Computed /\ DecimalResult

(* The operands as loaded.                                                 *)
LEMMA DecimalInitInv == DecimalInit => DecimalInv
<1> SUFFICES ASSUME DecimalInit PROVE DecimalInv
  OBVIOUS
<1>1. PICK o \in Operands(kind) : first = o[1] /\ second = o[2] /\ carried = o[3]
  BY DEF DecimalInit
<1>2. kind \in Kinds /\ done = "loaded"
  BY DEF DecimalInit
<1>3. DecTyped
  <2>1. CASE kind \in {"daa", "das"}
    <3>1. Operands(kind) = Packed \X Packed \X BOOLEAN
      BY <2>1 DEF Operands
    <3>2. first \in Packed /\ second \in Packed /\ carried \in BOOLEAN
      BY <1>1, <3>1
    <3> QED BY <1>2, <2>1, <3>2, PackedAssumption DEF DecTyped
  <2>2. CASE kind \notin {"daa", "das"}
    <3>1. \/ Operands(kind) = (0 .. 9) \X (0 .. 9) \X BOOLEAN
          \/ Operands(kind) = (0 .. 9) \X (0 .. 9) \X {FALSE}
      BY <1>2, <2>2 DEF Operands, Kinds
    <3>2. o \in Operands(kind)
      BY <1>1
    <3>3. o[1] \in 0 .. 9 /\ o[2] \in 0 .. 9 /\ o[3] \in BOOLEAN
      <4>1. CASE Operands(kind) = (0 .. 9) \X (0 .. 9) \X BOOLEAN
        BY <3>2, <4>1
      <4>2. CASE Operands(kind) = (0 .. 9) \X (0 .. 9) \X {FALSE}
        BY <3>2, <4>2
      <4> QED BY <3>1, <4>1, <4>2
    <3>4. first \in 0 .. 9 /\ second \in 0 .. 9 /\ carried \in BOOLEAN
      BY <1>1, <3>3
    <3> QED BY <1>2, <2>2, <3>4 DEF DecTyped
  <2> QED BY <2>1, <2>2
<1>4. al = (IF kind = "aad" THEN second ELSE Encoded(first))
  BY <1>2 DEF DecimalInit, Encoded, Kinds
<1>5. (kind = "aad" => ah = first) /\ df.cf = carried
  BY DEF DecimalInit
<1> QED BY <1>2, <1>3, <1>4, <1>5 DEF DecimalInv, Loaded, Computed, DecimalResult

(* ADC, SBB or MUL of what was loaded.                                     *)
LEMMA ComputeStep ==
  ASSUME DecimalInv, Compute
  PROVE  DecimalInv'
<1>1. done = "loaded" /\ done' = "computed"
      /\ UNCHANGED <<kind, first, second, carried, ah>>
  BY DEF Compute
<1>2. DecTyped'
  BY <1>1 DEF DecimalInv, DecTyped
<1>3. /\ al = IF kind = "aad" THEN second ELSE Encoded(first)
      /\ kind = "aad" => ah = first
      /\ df.cf = carried
      /\ kind \in Kinds
  BY <1>1 DEF DecimalInv, Loaded, DecTyped
<1>4. Computed'
  <2>1. \A n : Encoded(n)' = Encoded(n)
    BY <1>1 DEF Encoded
  <2>2. Encoded(first)' = Encoded(first) /\ Encoded(second)' = Encoded(second)
    BY <1>1 DEF Encoded
  <2>3. kind \in {"daa", "das"} \/ Encoded(second) = second
    BY DEF Encoded
  <2>4. (IF kind \in {"daa", "das"} THEN Bcd(second) ELSE second) = Encoded(second)
    BY DEF Encoded
  <2>5. CASE kind \in {"daa", "aaa"}
    <3>1. al' = Byte!Cut(al + Encoded(second) + Byte!One(df.cf))
          /\ df' = Byte!AddFlags(al, Encoded(second), Byte!One(df.cf))
      BY <2>4, <2>5 DEF Compute
    <3> QED BY <1>1, <1>3, <2>2, <2>5, <3>1 DEF Computed
  <2>6. CASE kind \in {"das", "aas"}
    <3>1. al' = Byte!Cut(al - Encoded(second) - Byte!One(df.cf))
          /\ df' = Byte!SubFlags(al, Encoded(second), Byte!One(df.cf))
      BY <2>4, <2>6 DEF Compute
    <3> QED BY <1>1, <1>3, <2>2, <2>6, <3>1 DEF Computed
  <2>7. CASE kind = "aam"
    <3>1. al' = al * Encoded(second)
      BY <2>4, <2>7 DEF Compute
    <3>2. al = first /\ Encoded(second) = second
      BY <1>3, <2>7 DEF Encoded
    <3> QED BY <1>1, <2>7, <3>1, <3>2 DEF Computed
  <2>8. CASE kind = "aad"
    <3>1. al' = al
      BY <2>8 DEF Compute
    <3> QED BY <1>1, <1>3, <2>8, <3>1 DEF Computed
  <2> QED BY <1>3, <2>5, <2>6, <2>7, <2>8 DEF Kinds
<1> QED BY <1>1, <1>2, <1>4 DEF DecimalInv, Loaded, DecimalResult

(* DAA: what it makes of AL, CF and AF behind the sum of two packed        *)
(* numbers, digit by digit: l and h are the sums of the digits, r and g    *)
(* the nibbles they leave.                                                 *)
LEMMA DecimalSum ==
  ASSUME DecimalInv, done = "computed", kind = "daa"
  PROVE  LET e     == Byte!One(carried)
             low   == IF LowTooBig THEN al + 6 ELSE al
             after == Byte!Cut(low)
         IN  /\ (IF HighTooBig THEN (after + 96) % 256 ELSE after) = Bcd((first + second + e) % 100)
             /\ (LowTooBig /\ (df.cf \/ Byte!BitAbove(low))) \/ HighTooBig <=> first + second + e > 99
<1> DEFINE x     == Bcd(first)
           y     == Bcd(second)
           e     == Byte!One(carried)
           low   == IF LowTooBig THEN al + 6 ELSE al
           after == Byte!Cut(low)
           total == first + second + e
<1>0. /\ first \in 0 .. 99 /\ second \in 0 .. 99 /\ e \in {0, 1}
      /\ al = Byte!Cut(x + y + e)
      /\ df.cf = Byte!BitAbove(x + y + e)
      /\ df.af = ((Byte!Bit4(x) # Byte!Bit4(y)) # Byte!Bit4(al))
  <2>1. Encoded(first) = x /\ Encoded(second) = y
    BY DEF Encoded
  <2>2. al = Byte!Cut(x + y + e) /\ df = Byte!AddFlags(x, y, e)
    BY <2>1 DEF DecimalInv, Computed
  <2>3. first \in 0 .. 99 /\ second \in 0 .. 99 /\ e \in {0, 1}
    BY ByteOps DEF DecimalInv, DecTyped
  <2>4. df.cf = Byte!BitAbove(x + y + e) /\ df.af = ((Byte!Bit4(x) # Byte!Bit4(y)) # Byte!Bit4(al))
    BY <2>2 DEF Byte!AddFlags, Byte!ArithFlags
  <2> QED BY <2>2, <2>3, <2>4
<1> HIDE DEF e
<1>1. PICK a \in 0 .. 9, b \in 0 .. 9 : first = 10 * a + b /\ x = 16 * a + b
  BY <1>0, Digits
<1>2. PICK c \in 0 .. 9, d \in 0 .. 9 : second = 10 * c + d /\ y = 16 * c + d
  BY <1>0, Digits
<1> DEFINE l == b + d + e
           r == IF l > 15 THEN l - 16 ELSE l
           h == a + c + (IF l > 15 THEN 1 ELSE 0)
           g == IF h > 15 THEN h - 16 ELSE h
<1>3. l \in 0 .. 19 /\ r \in 0 .. 15 /\ h \in 0 .. 19 /\ g \in 0 .. 15
  BY <1>0
<1>4. x + y + e = 16 * h + r
  BY <1>0, <1>1, <1>2
<1> HIDE DEF x, y
<1>5. al = 16 * g + r /\ (df.cf <=> h > 15)
  BY <1>0, <1>3, <1>4, ByteOps
<1>6. al \div 16 = g /\ al % 16 = r
  BY <1>3, <1>5, Nibbles
<1>7. (Byte!Bit4(x) <=> a % 2 = 1) /\ (Byte!Bit4(y) <=> c % 2 = 1) /\ (Byte!Bit4(al) <=> g % 2 = 1)
  <2>1. x \div 16 = a /\ y \div 16 = c
    BY <1>1, <1>2, Nibbles
  <2> QED BY <1>6, <2>1, ByteOps
<1>8. df.af <=> l > 15
  <2>1. ((a % 2 = 1) # (c % 2 = 1)) # (g % 2 = 1) <=> l > 15
    BY <1>0
  <2>2. Byte!Bit4(x) \in BOOLEAN /\ Byte!Bit4(y) \in BOOLEAN /\ Byte!Bit4(al) \in BOOLEAN
    BY DEF Byte!Bit4
  <2> QED BY <1>0, <1>7, <2>1, <2>2
<1>9. LowTooBig <=> l > 9
  BY <1>3, <1>6, <1>8 DEF LowTooBig
<1> DEFINE H == a + c + (IF l > 9 THEN 1 ELSE 0)
           R == IF l > 9 THEN l - 10 ELSE l
           G == IF H > 15 THEN H - 16 ELSE H
           T == IF H > 9 THEN H - 10 ELSE H
<1>10. H \in 0 .. 19 /\ R \in 0 .. 9 /\ total = 10 * H + R /\ T \in 0 .. 9
  BY <1>0, <1>1, <1>2, <1>3
<1>11. after = 16 * G + R /\ (Byte!BitAbove(low) => H > 9)
  BY <1>3, <1>5, <1>9, ByteOps
<1>12. HighTooBig <=> H > 9
  BY <1>3, <1>5 DEF HighTooBig
<1>13. total % 100 = 10 * T + R /\ (total > 99 <=> H > 9)
  BY <1>10
<1> HIDE DEF low, after, total
<1>14. (IF HighTooBig THEN (after + 96) % 256 ELSE after) = 16 * T + R
  <2>1. (16 * G + R + 96) % 256 = IF G + 6 > 15 THEN 16 * (G - 10) + R ELSE 16 * (G + 6) + R
    BY <1>10
  <2> QED BY <1>10, <1>11, <1>12, <2>1
<1>15. (IF HighTooBig THEN (after + 96) % 256 ELSE after) = Bcd(total % 100)
  BY <1>10, <1>13, <1>14, BcdOf
<1>16. (LowTooBig /\ (df.cf \/ Byte!BitAbove(low))) \/ HighTooBig <=> total > 99
  BY <1>3, <1>5, <1>11, <1>12, <1>13
<1> QED BY <1>15, <1>16 DEF e, low, after, total

(* DAS behind the difference.                                              *)
LEMMA DecimalDifference ==
  ASSUME DecimalInv, done = "computed", kind = "das"
  PROVE  LET e     == Byte!One(carried)
             low   == IF LowTooBig THEN al - 6 ELSE al
             after == Byte!Cut(low)
         IN  /\ (IF HighTooBig THEN (after - 96) % 256 ELSE after) = Bcd((first - (second + e)) % 100)
             /\ (LowTooBig /\ (df.cf \/ Byte!BitAbove(low))) \/ HighTooBig <=> first - (second + e) < 0
             /\ al \in 0 .. 255
<1> DEFINE x     == Bcd(first)
           y     == Bcd(second)
           e     == Byte!One(carried)
           low   == IF LowTooBig THEN al - 6 ELSE al
           after == Byte!Cut(low)
           total == first - (second + e)
<1>0. /\ first \in 0 .. 99 /\ second \in 0 .. 99 /\ e \in {0, 1}
      /\ al = Byte!Cut(x - y - e)
      /\ df.cf = Byte!BitAbove(x - y - e)
      /\ df.af = ((Byte!Bit4(x) # Byte!Bit4(y)) # Byte!Bit4(al))
  <2>1. Encoded(first) = x /\ Encoded(second) = y
    BY DEF Encoded
  <2>2. al = Byte!Cut(x - y - e) /\ df = Byte!SubFlags(x, y, e)
    BY <2>1 DEF DecimalInv, Computed
  <2>3. first \in 0 .. 99 /\ second \in 0 .. 99 /\ e \in {0, 1}
    BY ByteOps DEF DecimalInv, DecTyped
  <2>4. df.cf = Byte!BitAbove(x - y - e) /\ df.af = ((Byte!Bit4(x) # Byte!Bit4(y)) # Byte!Bit4(al))
    BY <2>2 DEF Byte!SubFlags, Byte!ArithFlags
  <2> QED BY <2>2, <2>3, <2>4
<1> HIDE DEF e
<1>1. PICK a \in 0 .. 9, b \in 0 .. 9 : first = 10 * a + b /\ x = 16 * a + b
  BY <1>0, Digits
<1>2. PICK c \in 0 .. 9, d \in 0 .. 9 : second = 10 * c + d /\ y = 16 * c + d
  BY <1>0, Digits
<1> DEFINE l == b - d - e
           r == IF l < 0 THEN l + 16 ELSE l
           h == a - c - (IF l < 0 THEN 1 ELSE 0)
           g == IF h < 0 THEN h + 16 ELSE h
<1>3. l \in -10 .. 9 /\ r \in 0 .. 15 /\ h \in -10 .. 9 /\ g \in 0 .. 15
  BY <1>0
<1>4. x - y - e = 16 * h + r
  BY <1>0, <1>1, <1>2
<1> HIDE DEF x, y
<1>5. al = 16 * g + r /\ (df.cf <=> h < 0)
  BY <1>0, <1>3, <1>4, ByteOps
<1>6. al \div 16 = g /\ al % 16 = r
  BY <1>3, <1>5, Nibbles
<1>7. (Byte!Bit4(x) <=> a % 2 = 1) /\ (Byte!Bit4(y) <=> c % 2 = 1) /\ (Byte!Bit4(al) <=> g % 2 = 1)
  <2>1. x \div 16 = a /\ y \div 16 = c
    BY <1>1, <1>2, Nibbles
  <2> QED BY <1>6, <2>1, ByteOps
<1>8. df.af <=> l < 0
  <2>1. ((a % 2 = 1) # (c % 2 = 1)) # (g % 2 = 1) <=> l < 0
    BY <1>0
  <2>2. Byte!Bit4(x) \in BOOLEAN /\ Byte!Bit4(y) \in BOOLEAN /\ Byte!Bit4(al) \in BOOLEAN
    BY DEF Byte!Bit4
  <2> QED BY <1>0, <1>7, <2>1, <2>2
<1>9. LowTooBig <=> l < 0
  BY <1>3, <1>6, <1>8 DEF LowTooBig
<1> DEFINE R == IF l < 0 THEN l + 10 ELSE l
           T == IF h < 0 THEN h + 10 ELSE h
<1>10. R \in 0 .. 9 /\ total = 10 * h + R /\ T \in 0 .. 9
  BY <1>0, <1>1, <1>2, <1>3
<1>11. after = 16 * g + R /\ ~Byte!BitAbove(low)
  BY <1>3, <1>5, <1>9, ByteOps
<1>12. HighTooBig <=> h < 0
  BY <1>3, <1>5 DEF HighTooBig
<1>13. total % 100 = 10 * T + R /\ (total < 0 <=> h < 0)
  BY <1>3, <1>10
<1> HIDE DEF low, after, total
<1>14. (IF HighTooBig THEN (after - 96) % 256 ELSE after) = 16 * T + R
  BY <1>3, <1>10, <1>11, <1>12
<1>15. (IF HighTooBig THEN (after - 96) % 256 ELSE after) = Bcd(total % 100)
  BY <1>10, <1>13, <1>14, BcdOf
<1>16. (LowTooBig /\ (df.cf \/ Byte!BitAbove(low))) \/ HighTooBig <=> total < 0
  BY <1>3, <1>5, <1>11, <1>12, <1>13
<1>17. al \in 0 .. 255
  BY <1>3, <1>5
<1> QED BY <1>15, <1>16, <1>17 DEF e, low, after, total

(* DAA after ADC, and AAA.                                                 *)
LEMMA SumAdjusted ==
  ASSUME DecimalInv, Adjust, kind \in {"daa", "aaa"}
  PROVE  /\ kind = "daa" => al' = Bcd(Total(1) % 100) /\ (df'.cf <=> Total(1) > 99)
         /\ kind = "aaa" => al' = Total(1) % 10 /\ (df'.cf <=> Total(1) > 9)
<1> DEFINE x == Encoded(first)
           y == Encoded(second)
           e == Byte!One(carried)
<1>1. DecTyped /\ done = "computed"
  BY DEF DecimalInv, Adjust
<1>2. al = Byte!Cut(x + y + e) /\ df = Byte!AddFlags(x, y, e)
  BY <1>1 DEF DecimalInv, Computed
<1>3. /\ df.cf = Byte!BitAbove(x + y + e)
      /\ df.af = ((Byte!Bit4(x) # Byte!Bit4(y)) # Byte!Bit4(al))
      /\ \A v, cf, af : ResultFlags(v, cf, af).cf = cf
  BY <1>2 DEF Byte!AddFlags, Byte!ArithFlags, ResultFlags
<1>4. e \in {0, 1} /\ first \in 0 .. 99 /\ second \in 0 .. 99 /\ Total(1) = first + second + e
  BY <1>1, ByteOps DEF DecTyped, Total
<1>5. ASSUME kind = "daa"
      PROVE  al' = Bcd(Total(1) % 100) /\ (df'.cf <=> Total(1) > 99)
  <2> DEFINE low   == IF LowTooBig THEN al + 6 ELSE al
             after == Byte!Cut(low)
  <2>1. /\ (IF HighTooBig THEN (after + 96) % 256 ELSE after) = Bcd((first + second + e) % 100)
        /\ (LowTooBig /\ (df.cf \/ Byte!BitAbove(low))) \/ HighTooBig <=> first + second + e > 99
    BY <1>1, <1>5, DecimalSum
  <2>2. PackedAdjust(1)
    BY <1>5 DEF Adjust
  <2>3. /\ al' = IF HighTooBig THEN (after + 96) % 256 ELSE after
        /\ df'.cf = ((LowTooBig /\ (df.cf \/ Byte!BitAbove(low))) \/ HighTooBig)
    BY <1>3, <2>2 DEF PackedAdjust
  <2> HIDE DEF low, after
  <2> QED BY <1>4, <2>1, <2>3
<1>6. ASSUME kind = "aaa"
      PROVE  al' = Total(1) % 10 /\ (df'.cf <=> Total(1) > 9)
  <2>1. first \in 0 .. 9 /\ second \in 0 .. 9 /\ x = first /\ y = second
    BY <1>1, <1>6 DEF DecTyped, Encoded
  <2>2. UnpackedAdjust(1)
    BY <1>6 DEF Adjust
  <2>3. al' = (IF LowTooBig THEN al + 6 ELSE al) % 16 /\ df'.cf = LowTooBig
    BY <1>3, <2>2 DEF UnpackedAdjust
  <2> HIDE DEF x, y, e
  <2>4. al = first + second + e
    BY <1>2, <1>4, <2>1, ByteOps
  <2>5. df.af <=> al > 15
    <3>1. x \div 16 = 0 /\ y \div 16 = 0 /\ al \div 16 = IF al > 15 THEN 1 ELSE 0
      BY <1>4, <2>1, <2>4
    <3>2. ~Byte!Bit4(x) /\ ~Byte!Bit4(y) /\ (Byte!Bit4(al) <=> al > 15)
      BY <3>1, ByteOps
    <3>3. Byte!Bit4(x) \in BOOLEAN /\ Byte!Bit4(y) \in BOOLEAN /\ Byte!Bit4(al) \in BOOLEAN
      BY DEF Byte!Bit4
    <3> QED BY <1>3, <3>2, <3>3
  <2>6. LowTooBig <=> al > 9
    BY <1>4, <2>1, <2>4, <2>5 DEF LowTooBig
  <2>7. (IF al > 9 THEN al + 6 ELSE al) % 16 = al % 10
    BY <1>4, <2>1, <2>4
  <2> QED BY <1>4, <2>3, <2>4, <2>6, <2>7
<1> QED BY <1>5, <1>6

(* DAS after SBB, and AAS.                                                 *)
LEMMA DifferenceAdjusted ==
  ASSUME DecimalInv, Adjust, kind \in {"das", "aas"}
  PROVE  /\ kind = "das" => al' = Bcd(Total(-1) % 100) /\ (df'.cf <=> Total(-1) < 0)
         /\ kind = "aas" => al' = Total(-1) % 10 /\ (df'.cf <=> Total(-1) < 0)
<1> DEFINE x == Encoded(first)
           y == Encoded(second)
           e == Byte!One(carried)
<1>1. DecTyped /\ done = "computed"
  BY DEF DecimalInv, Adjust
<1>2. al = Byte!Cut(x - y - e) /\ df = Byte!SubFlags(x, y, e)
  BY <1>1 DEF DecimalInv, Computed
<1>3. /\ df.cf = Byte!BitAbove(x - y - e)
      /\ df.af = ((Byte!Bit4(x) # Byte!Bit4(y)) # Byte!Bit4(al))
      /\ \A v, cf, af : ResultFlags(v, cf, af).cf = cf
  BY <1>2 DEF Byte!SubFlags, Byte!ArithFlags, ResultFlags
<1>4. e \in {0, 1} /\ first \in 0 .. 99 /\ second \in 0 .. 99 /\ Total(-1) = first - (second + e)
  BY <1>1, ByteOps DEF DecTyped, Total
<1>5. ASSUME kind = "das"
      PROVE  al' = Bcd(Total(-1) % 100) /\ (df'.cf <=> Total(-1) < 0)
  <2> DEFINE low   == IF LowTooBig THEN al - 6 ELSE al
             after == Byte!Cut(low)
  <2>1. /\ (IF HighTooBig THEN (after - 96) % 256 ELSE after) = Bcd((first - (second + e)) % 100)
        /\ (LowTooBig /\ (df.cf \/ Byte!BitAbove(low))) \/ HighTooBig <=> first - (second + e) < 0
        /\ al \in 0 .. 255
    BY <1>1, <1>5, DecimalDifference
  <2>2. PackedAdjust(-1)
    BY <1>5 DEF Adjust
  <2>3. after \in Int
    BY <2>1, ByteOps
  <2>4. al + (-1) * 6 = al - 6 /\ after + (-1) * 96 = after - 96
    BY <2>1, <2>3
  <2>5. /\ al' = IF HighTooBig THEN (after - 96) % 256 ELSE after
        /\ df'.cf = ((LowTooBig /\ (df.cf \/ Byte!BitAbove(low))) \/ HighTooBig)
    BY <1>3, <2>2, <2>4 DEF PackedAdjust
  <2> HIDE DEF low, after
  <2> QED BY <1>4, <2>1, <2>5
<1>6. ASSUME kind = "aas"
      PROVE  al' = Total(-1) % 10 /\ (df'.cf <=> Total(-1) < 0)
  <2>1. first \in 0 .. 9 /\ second \in 0 .. 9 /\ x = first /\ y = second
    BY <1>1, <1>6 DEF DecTyped, Encoded
  <2>2. UnpackedAdjust(-1)
    BY <1>6 DEF Adjust
  <2> HIDE DEF x, y, e
  <2> DEFINE total == first - (second + e)
  <2>3. total \in -10 .. 9 /\ al = (IF total < 0 THEN total + 256 ELSE total)
    BY <1>2, <1>4, <2>1, ByteOps
  <2>4. al' = (IF LowTooBig THEN al - 6 ELSE al) % 16 /\ df'.cf = LowTooBig
    BY <1>3, <2>2, <2>3 DEF UnpackedAdjust
  <2>5. df.af <=> total < 0
    <3>1. x \div 16 = 0 /\ y \div 16 = 0 /\ al \div 16 = IF total < 0 THEN 15 ELSE 0
      BY <1>4, <2>1, <2>3
    <3>2. ~Byte!Bit4(x) /\ ~Byte!Bit4(y) /\ (Byte!Bit4(al) <=> total < 0)
      BY <3>1, ByteOps
    <3>3. Byte!Bit4(x) \in BOOLEAN /\ Byte!Bit4(y) \in BOOLEAN /\ Byte!Bit4(al) \in BOOLEAN
      BY DEF Byte!Bit4
    <3> QED BY <1>3, <3>2, <3>3
  <2>6. LowTooBig <=> total < 0
    BY <2>3, <2>5 DEF LowTooBig
  <2>7. (IF total < 0 THEN al - 6 ELSE al) % 16 = total % 10
    BY <2>3
  <2> QED BY <1>4, <2>4, <2>6, <2>7
<1> QED BY <1>5, <1>6

(* The correction: the invariant becomes the result.                       *)
LEMMA AdjustStep ==
  ASSUME DecimalInv, Adjust
  PROVE  DecimalInv'
<1>1. /\ done = "computed" /\ done' = "adjusted"
      /\ UNCHANGED <<kind, first, second, carried>>
      /\ DecTyped
  BY DEF Adjust, DecimalInv
<1>2. DecTyped'
  BY <1>1 DEF DecTyped
<1>3. Total(1)' = Total(1) /\ Total(-1)' = Total(-1)
  BY <1>1 DEF Total
<1>4. kind = "aam" => ah' * 10 + al' = first * second /\ al' < 10
  <2> SUFFICES ASSUME kind = "aam" PROVE ah' * 10 + al' = first * second /\ al' < 10
    OBVIOUS
  <2>1. al = first * second
    BY <1>1 DEF DecimalInv, Computed
  <2>2. al \in Int
    BY <1>1, <2>1 DEF DecTyped
  <2>3. ah' = al \div 10 /\ al' = al % 10
    BY DEF Adjust
  <2>4. (al \div 10) * 10 + (al % 10) = al /\ al % 10 < 10
    BY <2>2
  <2> QED BY <2>1, <2>3, <2>4
<1>5. kind = "aad" => al' = first * 10 + second
  <2> SUFFICES ASSUME kind = "aad" PROVE al' = first * 10 + second
    OBVIOUS
  <2>1. al = second /\ ah = first /\ first \in 0 .. 9 /\ second \in 0 .. 9
    BY <1>1 DEF DecimalInv, Computed, DecTyped
  <2>2. al' = (al + ah * 10) % 256
    BY DEF Adjust
  <2> QED BY <2>1, <2>2
<1>6. DecimalResult'
  BY <1>1, <1>3, <1>4, <1>5, SumAdjusted, DifferenceAdjusted DEF DecimalResult
<1> QED BY <1>1, <1>2, <1>6 DEF DecimalInv, Loaded, Computed

(* DecimalResult: with the carry from the numbers before, ADC or SBB of    *)
(* two packed or unpacked decimal numbers and the correction behind it     *)
(* leave the decimal digits of the sum or the difference and the carry for *)
(* the next ones; AAM splits a product of two digits and AAD joins them.   *)
(* For every pair of the numbers the programs have.                        *)
THEOREM DecimalsAreRight == DecimalSpec => []DecimalResult
<1>1. DecimalInit => DecimalInv
  BY DecimalInitInv
<1>2. DecimalInv /\ [DecimalNext]_decimalVars => DecimalInv'
  <2> SUFFICES ASSUME DecimalInv, [DecimalNext]_decimalVars PROVE DecimalInv'
    OBVIOUS
  <2>1. CASE Compute
    BY <2>1, ComputeStep
  <2>2. CASE Adjust
    BY <2>2, AdjustStep
  <2>3. CASE UNCHANGED decimalVars
    BY <2>3 DEF decimalVars, DecimalInv, DecTyped, Loaded, Computed, DecimalResult, Encoded, Total
  <2> QED BY <2>1, <2>2, <2>3 DEF DecimalNext
<1>3. DecimalInv => DecimalResult
  BY DEF DecimalInv
<1> QED BY <1>1, <1>2, <1>3, PTL DEF DecimalSpec

-----------------------------------------------------------------------------
(* RepString.                                                              *)

(* Remainders: the only one in its class, of a sum, of two numbers apart.  *)
LEMMA Remainder ==
  ASSUME NEW n \in Nat \ {0}, NEW q \in Int, NEW r \in 0 .. n - 1
  PROVE  (n * q + r) % n = r
<1> DEFINE x == n * q + r
<1>1. x \in Int /\ x = n * q + r
  OBVIOUS
<1> HIDE DEF x
<1>2. x % n = r
  BY <1>1
<1> QED BY <1>2 DEF x

(* A number is its quotient and its remainder.                             *)
LEMMA Division ==
  ASSUME NEW n \in Nat \ {0}, NEW x \in Int
  PROVE  x % n \in 0 .. n - 1 /\ \E q \in Int : x = n * q + (x % n)
<1>1. x % n \in 0 .. n - 1 /\ x = n * (x \div n) + (x % n) /\ x \div n \in Int
  OBVIOUS
<1> QED BY <1>1

(* A remainder may be taken before another number is added.                *)
LEMMA RemainderOfSum ==
  ASSUME NEW n \in Nat \ {0}, NEW x \in Int, NEW y \in Int
  PROVE  ((x % n) + y) % n = (x + y) % n
<1>1. PICK q \in Int : x = n * q + (x % n)
  BY Division
<1> DEFINE a == x % n
<1>2. a \in Int /\ x = n * q + a
  BY <1>1, Division
<1> HIDE DEF a
<1> DEFINE s == a + y
<1>3. s \in Int /\ x + y = n * q + s
  BY <1>2
<1> HIDE DEF s
<1>4. PICK p \in Int : s = n * p + (s % n)
  BY <1>3, Division
<1> DEFINE b == s % n
<1>5. b \in 0 .. n - 1 /\ s = n * p + b
  BY <1>3, <1>4, Division
<1> HIDE DEF b
<1>6. x + y = n * (q + p) + b /\ q + p \in Int
  BY <1>3, <1>5
<1>7. (x + y) % n = b
  BY <1>5, <1>6, Remainder
<1>8. s % n = b
  BY DEF b
<1> QED BY <1>7, <1>8 DEF s, a

(* Two numbers less than n apart that leave the same remainder are the     *)
(* same.                                                                   *)
LEMMA RemaindersApart ==
  ASSUME NEW n \in Nat \ {0}, NEW x \in Int, NEW y \in Int, x % n = y % n,
         x - y < n, y - x < n
  PROVE  x = y
<1>1. PICK q \in Int : x = n * q + (x % n)
  BY Division
<1>2. PICK p \in Int : y = n * p + (y % n)
  BY Division
<1> DEFINE r == x % n
<1>3. r \in Int /\ x = n * q + r /\ y = n * p + r
  BY <1>1, <1>2, Division
<1> HIDE DEF r
<1> DEFINE d == q - p
           a == x - y
<1>4. d \in Int /\ a \in Int /\ n * d = a /\ a < n /\ -n < a
  BY <1>3
<1> HIDE DEF d, a
<1>5. a = 0
  BY <1>4
<1> QED BY <1>5 DEF a

----------------------------------------------------------------------------
(* The address of element k, whichever way DF says.                        *)
Pos(d, s, k) == (s + (IF d THEN -k ELSE k)) % Size

(* A run of at most Size elements stays in the segment, never meets an     *)
(* address twice, and steps with SI and DI.                                *)
LEMMA Positions ==
  ASSUME NEW d \in BOOLEAN, NEW s \in Addresses
  PROVE  /\ \A k \in Int : Pos(d, s, k) \in Addresses
         /\ Pos(d, s, 0) = s
         /\ \A k \in Int : (Pos(d, s, k) + (IF d THEN -1 ELSE 1)) % Size = Pos(d, s, k + 1)
         /\ \A j, k \in 0 .. Size - 1 : Pos(d, s, j) = Pos(d, s, k) => j = k
<1>0. Size \in Nat \ {0} /\ s \in Int /\ s \in 0 .. Size - 1
  BY SizeAssumption DEF Addresses
<1>1. ASSUME NEW k \in Int PROVE Pos(d, s, k) \in Addresses
  <2> DEFINE x == s + (IF d THEN -k ELSE k)
  <2>1. x \in Int
    BY <1>0
  <2> HIDE DEF x
  <2>2. x % Size \in 0 .. Size - 1
    BY <1>0, <2>1, Division
  <2> QED BY <2>2 DEF Pos, Addresses, x
<1>2. Pos(d, s, 0) = s
  <2>1. s = Size * 0 + s /\ 0 \in Int
    BY <1>0
  <2>2. s % Size = s
    BY <1>0, <2>1, Remainder
  <2>3. s + (IF d THEN -0 ELSE 0) = s
    BY <1>0
  <2> QED BY <2>2, <2>3 DEF Pos
<1>3. ASSUME NEW k \in Int
      PROVE  (Pos(d, s, k) + (IF d THEN -1 ELSE 1)) % Size = Pos(d, s, k + 1)
  <2> DEFINE x == s + (IF d THEN -k ELSE k)
             y == IF d THEN -1 ELSE 1
  <2>1. x \in Int /\ y \in Int /\ x + y = s + (IF d THEN -(k + 1) ELSE k + 1)
    BY <1>0
  <2> HIDE DEF x, y
  <2>2. ((x % Size) + y) % Size = (x + y) % Size
    BY <1>0, <2>1, RemainderOfSum
  <2>3. Pos(d, s, k) = x % Size /\ Pos(d, s, k + 1) = (x + y) % Size
    BY <2>1 DEF Pos, x
  <2> QED BY <2>2, <2>3 DEF y
<1>4. ASSUME NEW j \in 0 .. Size - 1, NEW k \in 0 .. Size - 1, Pos(d, s, j) = Pos(d, s, k)
      PROVE  j = k
  <2> DEFINE x == s + (IF d THEN -j ELSE j)
             y == s + (IF d THEN -k ELSE k)
  <2>1. x \in Int /\ y \in Int /\ x - y < Size /\ y - x < Size /\ (x = y => j = k)
    BY <1>0
  <2>2. Pos(d, s, j) = x % Size /\ Pos(d, s, k) = y % Size
    BY DEF Pos
  <2> HIDE DEF x, y
  <2>3. x = y
    BY <1>0, <1>4, <2>1, <2>2, RemaindersApart
  <2> QED BY <2>1, <2>3
<1> QED BY <1>1, <1>2, <1>3, <1>4

(* An address counted from another.                                        *)
LEMMA PosOfPos ==
  ASSUME NEW d \in BOOLEAN, NEW s \in Addresses, NEW k \in Int
  PROVE  Pos(d, Pos(d, s, 1), k - 1) = Pos(d, s, k)
<1> DEFINE x == s + (IF d THEN -1 ELSE 1)
           y == IF d THEN -(k - 1) ELSE k - 1
<1>0. Size \in Nat \ {0} /\ s \in Int
  BY SizeAssumption DEF Addresses
<1>1. x \in Int /\ y \in Int /\ x + y = s + (IF d THEN -k ELSE k)
  BY <1>0
<1>2. Pos(d, s, 1) = x % Size
  BY DEF Pos
<1> HIDE DEF x
<1>3. Pos(d, Pos(d, s, 1), k - 1) = ((x % Size) + y) % Size
  BY <1>2 DEF Pos
<1> HIDE DEF y
<1>4. ((x % Size) + y) % Size = (x + y) % Size
  BY <1>0, <1>1, RemainderOfSum
<1> QED BY <1>1, <1>3, <1>4 DEF Pos

----------------------------------------------------------------------------
(* The state, and what an instruction that began with w, in direction d,   *)
(* has done after k elements.                                              *)
Segment == [Addresses -> Elements]
RepTyped ==
  /\ insn \in Insns /\ going \in BOOLEAN /\ down \in BOOLEAN
  /\ bytes \in Segment /\ acc \in Elements /\ si \in Addresses /\ di \in Addresses
  /\ was \in [bytes : Segment, si : Addresses, di : Addresses, cx : 0 .. Size]
  /\ cx \in 0 .. was.cx

Apart(w, d) == \A j, k \in 0 .. w.cx - 1 : j < k => Pos(d, w.di, j) # Pos(d, w.si, k)

(* MOVS, of a source not overwritten ahead of the copy: what was there.    *)
Copied(b, w, d, k) ==
  Apart(w, d) =>
    /\ \A j \in 0 .. k - 1 : b[Pos(d, w.di, j)] = w.bytes[Pos(d, w.si, j)]
    /\ \A a \in Addresses : (\A j \in 0 .. k - 1 : a # Pos(d, w.di, j)) => b[a] = w.bytes[a]

(* MOVS of a destination one element ahead: the first element everywhere.  *)
Spread(b, w, d, k) ==
  w.di = Pos(d, w.si, 1) =>
    /\ k = 0 => b = w.bytes
    /\ \A j \in 0 .. k - 1 : b[Pos(d, w.di, j)] = w.bytes[w.si]

(* STOS: the accumulator.                                                  *)
Filled(b, w, d, a, k) == \A j \in 0 .. k - 1 : b[Pos(d, w.di, j)] = a

(* CMPS and SCAS: the two sides of comparison k, and whether it ends the   *)
(* search.                                                                 *)
Operand(i, w, d, a, k) ==
  IF i \in {"repe cmps", "repne cmps"} THEN w.bytes[Pos(d, w.si, k)] ELSE a
Alike(i, w, d, a, k)   == Operand(i, w, d, a, k) = w.bytes[Pos(d, w.di, k)]
Decides(i, w, d, a, k) == Alike(i, w, d, a, k) <=> i \in {"repne cmps", "repne scas"}
Passed(i, w, d, a, k)  == \A j \in 0 .. k - 1 : ~Decides(i, w, d, a, j)

(* The inductive invariant: SI, DI and memory after the elements counted   *)
(* off CX, and for a search that none of those compared ended it, but      *)
(* perhaps the last.                                                       *)
RepInv ==
  LET k == was.cx - cx
  IN  /\ RepTyped
      /\ di = Pos(down, was.di, k)
      /\ insn \in {"movs", "repe cmps", "repne cmps"} => si = Pos(down, was.si, k)
      /\ insn = "movs" => Copied(bytes, was, down, k) /\ Spread(bytes, was, down, k)
      /\ insn = "stos" => Filled(bytes, was, down, acc, k)
      /\ Comparing => bytes = was.bytes
      /\ Comparing /\ going => Passed(insn, was, down, acc, k)
      /\ Comparing /\ ~going =>
           \/ cx = 0 /\ Passed(insn, was, down, acc, k)
           \/ /\ k > 0 /\ Passed(insn, was, down, acc, k - 1)
              /\ Decides(insn, was, down, acc, k - 1)
              /\ zf = Alike(insn, was, down, acc, k - 1)
              /\ below = (Operand(insn, was, down, acc, k - 1)
                            < was.bytes[Pos(down, was.di, k - 1)])
      /\ ~Comparing /\ ~going => cx = 0

(* The elements of a run are at different addresses, in the segment.       *)
LEMMA RunPositions ==
  ASSUME NEW w, w.si \in Addresses, w.di \in Addresses, w.cx \in 0 .. Size, NEW d \in BOOLEAN
  PROVE  /\ \A j \in Nat : Pos(d, w.si, j) \in Addresses /\ Pos(d, w.di, j) \in Addresses
         /\ \A j, k \in 0 .. w.cx - 1 : j # k => Pos(d, w.di, j) # Pos(d, w.di, k)
         /\ w.cx \in Nat /\ Size \in Nat
<1>1. Size \in Nat /\ w.cx \in Nat /\ w.cx <= Size
  BY SizeAssumption
<1>2. \A j \in 0 .. w.cx - 1 : j \in 0 .. Size - 1
  BY <1>1
<1>3. \A j \in Nat : j \in Int
  OBVIOUS
<1>4. \A j \in Nat : Pos(d, w.si, j) \in Addresses /\ Pos(d, w.di, j) \in Addresses
  BY <1>3, Positions
<1>5. \A j, k \in 0 .. Size - 1 : Pos(d, w.di, j) = Pos(d, w.di, k) => j = k
  BY Positions
<1> QED BY <1>1, <1>2, <1>4, <1>5

(* MOVS with another element.                                              *)
LEMMA CopyOn ==
  ASSUME NEW w, w.bytes \in Segment, w.si \in Addresses, w.di \in Addresses,
         w.cx \in 0 .. Size, NEW d \in BOOLEAN, NEW b \in Segment, NEW k \in Nat, k < w.cx,
         NEW c, c = [b EXCEPT ![Pos(d, w.di, k)] = b[Pos(d, w.si, k)]], Copied(b, w, d, k)
  PROVE  Copied(c, w, d, k + 1)
<1> SUFFICES ASSUME Apart(w, d)
             PROVE  /\ \A j \in 0 .. (k + 1) - 1 : c[Pos(d, w.di, j)] = w.bytes[Pos(d, w.si, j)]
                    /\ \A a \in Addresses : (\A j \in 0 .. (k + 1) - 1 : a # Pos(d, w.di, j))
                                              => c[a] = w.bytes[a]
  BY DEF Copied
<1>0. /\ \A j \in Nat : Pos(d, w.si, j) \in Addresses /\ Pos(d, w.di, j) \in Addresses
      /\ \A i, j \in 0 .. w.cx - 1 : i # j => Pos(d, w.di, i) # Pos(d, w.di, j)
      /\ w.cx \in Nat
  BY RunPositions
<1>1. /\ \A j \in 0 .. k - 1 : b[Pos(d, w.di, j)] = w.bytes[Pos(d, w.si, j)]
      /\ \A a \in Addresses : (\A j \in 0 .. k - 1 : a # Pos(d, w.di, j)) => b[a] = w.bytes[a]
  BY DEF Copied
<1>2. /\ c[Pos(d, w.di, k)] = b[Pos(d, w.si, k)]
      /\ \A a \in Addresses : a # Pos(d, w.di, k) => c[a] = b[a]
  BY <1>0 DEF Segment
<1>3. b[Pos(d, w.si, k)] = w.bytes[Pos(d, w.si, k)]
  <2>1. \A j \in 0 .. k - 1 : Pos(d, w.si, k) # Pos(d, w.di, j)
    BY <1>0 DEF Apart
  <2> QED BY <1>0, <1>1, <2>1
<1>4. ASSUME NEW j \in 0 .. (k + 1) - 1 PROVE c[Pos(d, w.di, j)] = w.bytes[Pos(d, w.si, j)]
  <2>1. CASE j = k
    BY <1>2, <1>3, <2>1
  <2>2. CASE j # k
    <3>1. j \in 0 .. k - 1 /\ j \in 0 .. w.cx - 1 /\ k \in 0 .. w.cx - 1 /\ j \in Nat
      BY <1>0, <2>2
    <3> QED BY <1>0, <1>1, <1>2, <2>2, <3>1
  <2> QED BY <2>1, <2>2
<1>5. ASSUME NEW a \in Addresses, \A j \in 0 .. (k + 1) - 1 : a # Pos(d, w.di, j)
      PROVE  c[a] = w.bytes[a]
  <2>1. a # Pos(d, w.di, k) /\ \A j \in 0 .. k - 1 : a # Pos(d, w.di, j)
    BY <1>5
  <2> QED BY <1>1, <1>2, <2>1
<1> QED BY <1>4, <1>5

(* The element that MOVS reads is the one it has just written.             *)
LEMMA SpreadOn ==
  ASSUME NEW w, w.bytes \in Segment, w.si \in Addresses, w.di \in Addresses,
         w.cx \in 0 .. Size, NEW d \in BOOLEAN, NEW b \in Segment, NEW k \in Nat, k < w.cx,
         NEW c, c = [b EXCEPT ![Pos(d, w.di, k)] = b[Pos(d, w.si, k)]], Spread(b, w, d, k)
  PROVE  Spread(c, w, d, k + 1)
<1> SUFFICES ASSUME w.di = Pos(d, w.si, 1)
             PROVE  \A j \in 0 .. (k + 1) - 1 : c[Pos(d, w.di, j)] = w.bytes[w.si]
  BY DEF Spread
<1>0. /\ \A j \in Nat : Pos(d, w.si, j) \in Addresses /\ Pos(d, w.di, j) \in Addresses
      /\ \A i, j \in 0 .. w.cx - 1 : i # j => Pos(d, w.di, i) # Pos(d, w.di, j)
      /\ w.cx \in Nat
  BY RunPositions
<1>1. /\ k = 0 => b = w.bytes
      /\ \A j \in 0 .. k - 1 : b[Pos(d, w.di, j)] = w.bytes[w.si]
  BY DEF Spread
<1>2. /\ c[Pos(d, w.di, k)] = b[Pos(d, w.si, k)]
      /\ \A a \in Addresses : a # Pos(d, w.di, k) => c[a] = b[a]
  BY <1>0 DEF Segment
<1>3. b[Pos(d, w.si, k)] = w.bytes[w.si]
  <2>1. CASE k = 0
    BY <1>1, <2>1, Positions
  <2>2. CASE k > 0
    <3>1. Pos(d, w.si, k) = Pos(d, w.di, k - 1)
      BY <2>2, PosOfPos
    <3> QED BY <1>1, <2>2, <3>1
  <2> QED BY <2>1, <2>2
<1>4. ASSUME NEW j \in 0 .. (k + 1) - 1 PROVE c[Pos(d, w.di, j)] = w.bytes[w.si]
  <2>1. CASE j = k
    BY <1>2, <1>3, <2>1
  <2>2. CASE j # k
    <3>1. j \in 0 .. k - 1 /\ j \in 0 .. w.cx - 1 /\ k \in 0 .. w.cx - 1 /\ j \in Nat
      BY <1>0, <2>2
    <3> QED BY <1>0, <1>1, <1>2, <2>2, <3>1
  <2> QED BY <2>1, <2>2
<1> QED BY <1>4

(* STOS with another element.                                              *)
LEMMA FillOn ==
  ASSUME NEW w, w.si \in Addresses, w.di \in Addresses,
         w.cx \in 0 .. Size, NEW d \in BOOLEAN, NEW b \in Segment, NEW k \in Nat, k < w.cx,
         NEW a, NEW c, c = [b EXCEPT ![Pos(d, w.di, k)] = a], Filled(b, w, d, a, k)
  PROVE  Filled(c, w, d, a, k + 1)
<1>0. \A j \in Nat : Pos(d, w.di, j) \in Addresses
  BY RunPositions
<1>1. \A p \in Addresses : c[p] = IF p = Pos(d, w.di, k) THEN a ELSE b[p]
  BY <1>0 DEF Segment
<1>2. \A j \in 0 .. (k + 1) - 1 : j \in Nat /\ (j = k \/ j \in 0 .. k - 1)
  OBVIOUS
<1> QED BY <1>0, <1>1, <1>2 DEF Filled

(* The instruction as it begins.                                           *)
LEMMA RepInitInv == RepInit => RepInv
<1> SUFFICES ASSUME RepInit PROVE RepInv
  OBVIOUS
<1>0. /\ was.bytes = bytes /\ was.si = si /\ was.di = di /\ was.cx = cx
      /\ insn \in Insns /\ going = TRUE /\ bytes \in Segment /\ acc \in Elements
      /\ si \in Addresses /\ di \in Addresses /\ cx \in 0 .. Size /\ down \in BOOLEAN
  BY DEF RepInit, Segment
<1>1. cx \in Nat /\ Size \in Nat
  BY <1>0, SizeAssumption
<1>2. RepTyped
  <2>1. was \in [bytes : Segment, si : Addresses, di : Addresses, cx : 0 .. Size]
    BY <1>0 DEF RepInit
  <2> QED BY <1>0, <1>1, <2>1 DEF RepTyped
<1>3. was.cx - cx = 0
  BY <1>0, <1>1
<1>4. di = Pos(down, was.di, 0) /\ si = Pos(down, was.si, 0)
  BY <1>0, Positions
<1>5. \A j : j \notin 0 .. 0 - 1
  OBVIOUS
<1>6. /\ Copied(bytes, was, down, 0) /\ Spread(bytes, was, down, 0)
      /\ Filled(bytes, was, down, acc, 0) /\ Passed(insn, was, down, acc, 0)
  BY <1>0, <1>5 DEF Copied, Spread, Filled, Passed
<1> QED BY <1>0, <1>2, <1>3, <1>4, <1>6 DEF RepInv

(* One more element: what every instruction does.                          *)
LEMMA RepeatTypes ==
  ASSUME RepInv, Repeat
  PROVE  /\ RepTyped' /\ was' = was /\ insn' = insn /\ down' = down /\ acc' = acc
         /\ was.cx - cx \in Nat /\ was.cx - cx < was.cx
         /\ was'.cx - cx' = (was.cx - cx) + 1
         /\ was.bytes \in Segment /\ was.si \in Addresses /\ was.di \in Addresses
         /\ was.cx \in 0 .. Size /\ down \in BOOLEAN /\ bytes \in Segment
         /\ going' = ~EndsHere /\ going = TRUE /\ insn \in Insns
<1>0. /\ insn \in Insns /\ going = TRUE /\ down \in BOOLEAN
      /\ bytes \in Segment /\ acc \in Elements /\ si \in Addresses /\ di \in Addresses
      /\ was.bytes \in Segment /\ was.si \in Addresses /\ was.di \in Addresses
      /\ was.cx \in 0 .. Size /\ cx \in 0 .. was.cx
      /\ was \in [bytes : Segment, si : Addresses, di : Addresses, cx : 0 .. Size]
  BY DEF RepInv, RepTyped, Repeat
<1>1. cx > 0 /\ cx' = cx - 1 /\ Once /\ going' = ~EndsHere
      /\ was' = was /\ insn' = insn /\ down' = down /\ acc' = acc
  BY DEF Repeat
<1>2. was.cx \in Nat /\ cx \in Nat /\ cx <= was.cx
  BY <1>0, SizeAssumption
<1>3. \A s \in Addresses : Next1(s) \in Addresses
  <2>1. ASSUME NEW s \in Addresses PROVE Next1(s) \in Addresses
    <3>1. Next1(s) = Pos(down, s, 1)
      BY DEF Next1, Pos
    <3> QED BY <1>0, <3>1, Positions
  <2> QED BY <2>1
<1>4. bytes' \in Segment /\ si' \in Addresses /\ di' \in Addresses
  <2>1. CASE insn = "movs" /\ Move
    BY <1>0, <1>3, <2>1 DEF Move, Segment
  <2>2. CASE insn = "stos" /\ Store
    BY <1>0, <1>3, <2>2 DEF Store, Segment
  <2>3. CASE bytes' = bytes /\ di' = Next1(di) /\ si' \in {si, Next1(si)}
    BY <1>0, <1>3, <2>3
  <2> QED BY <1>1, <2>1, <2>2, <2>3 DEF Once
<1>5. going' \in BOOLEAN /\ cx' \in 0 .. was.cx
  BY <1>1, <1>2
<1>6. RepTyped'
  BY <1>0, <1>1, <1>4, <1>5 DEF RepTyped
<1> QED BY <1>0, <1>1, <1>2, <1>6

(* The pointers move on.                                                   *)
LEMMA RepeatMoves ==
  ASSUME RepInv, Repeat, NEW k, k = was.cx - cx
  PROVE  /\ di = Pos(down, was.di, k) /\ di' = Pos(down, was.di, k + 1)
         /\ insn \in {"movs", "repe cmps", "repne cmps"} =>
              si = Pos(down, was.si, k) /\ si' = Pos(down, was.si, k + 1)
<1>0. k \in Nat /\ was.si \in Addresses /\ was.di \in Addresses /\ down \in BOOLEAN
  BY RepeatTypes
<1>1. /\ di = Pos(down, was.di, k)
      /\ insn \in {"movs", "repe cmps", "repne cmps"} => si = Pos(down, was.si, k)
  BY DEF RepInv
<1>2. /\ di' = Next1(di)
      /\ insn \in {"movs", "repe cmps", "repne cmps"} => si' = Next1(si)
  BY DEF Repeat, Once, Move, Store
<1>3. \A s \in Addresses : Next1(Pos(down, s, k)) = Pos(down, s, k + 1)
  BY <1>0, Positions DEF Next1
<1> QED BY <1>0, <1>1, <1>2, <1>3

(* MOVS: both kinds of copy.                                               *)
LEMMA RepeatMovs ==
  ASSUME RepInv, Repeat, insn = "movs"
  PROVE  RepInv'
<1> DEFINE k == was.cx - cx
<1>0. /\ RepTyped' /\ was' = was /\ insn' = insn /\ down' = down /\ acc' = acc
      /\ k \in Nat /\ k < was.cx /\ was'.cx - cx' = k + 1
      /\ was.bytes \in Segment /\ was.si \in Addresses /\ was.di \in Addresses
      /\ was.cx \in 0 .. Size /\ down \in BOOLEAN /\ bytes \in Segment
      /\ going' = ~EndsHere
  BY RepeatTypes
<1>1. /\ di = Pos(down, was.di, k) /\ di' = Pos(down, was.di, k + 1)
      /\ si = Pos(down, was.si, k) /\ si' = Pos(down, was.si, k + 1)
  BY RepeatMoves
<1>2. bytes' = [bytes EXCEPT ![Pos(down, was.di, k)] = bytes[Pos(down, was.si, k)]]
  BY <1>1 DEF Repeat, Once, Move
<1>3. Copied(bytes, was, down, k) /\ Spread(bytes, was, down, k)
  BY DEF RepInv
<1> HIDE DEF k
<1>4. Copied(bytes', was, down, k + 1) /\ Spread(bytes', was, down, k + 1)
  BY <1>0, <1>2, <1>3, CopyOn, SpreadOn
<1>5. going' = TRUE
  BY <1>0 DEF EndsHere
<1>6. ~Comparing'
  BY <1>0 DEF Comparing
<1> QED BY <1>0, <1>1, <1>4, <1>5, <1>6 DEF RepInv

(* STOS: the fill.                                                         *)
LEMMA RepeatStos ==
  ASSUME RepInv, Repeat, insn = "stos"
  PROVE  RepInv'
<1> DEFINE k == was.cx - cx
<1>0. /\ RepTyped' /\ was' = was /\ insn' = insn /\ down' = down /\ acc' = acc
      /\ k \in Nat /\ k < was.cx /\ was'.cx - cx' = k + 1
      /\ was.si \in Addresses /\ was.di \in Addresses
      /\ was.cx \in 0 .. Size /\ down \in BOOLEAN /\ bytes \in Segment
      /\ going' = ~EndsHere
  BY RepeatTypes
<1>1. di = Pos(down, was.di, k) /\ di' = Pos(down, was.di, k + 1)
  BY RepeatMoves
<1>2. bytes' = [bytes EXCEPT ![Pos(down, was.di, k)] = acc]
  BY <1>1 DEF Repeat, Once, Store
<1>3. Filled(bytes, was, down, acc, k)
  BY DEF RepInv
<1> HIDE DEF k
<1>4. Filled(bytes', was, down, acc, k + 1)
  BY <1>0, <1>2, <1>3, FillOn
<1>5. going' = TRUE
  BY <1>0 DEF EndsHere
<1>6. ~Comparing'
  BY <1>0 DEF Comparing
<1> QED BY <1>0, <1>1, <1>4, <1>5, <1>6 DEF RepInv

(* CMPS and SCAS: memory is as it was, and the flags are of this           *)
(* comparison.                                                             *)
LEMMA RepeatSearch ==
  ASSUME RepInv, Repeat, Comparing
  PROVE  RepInv'
<1> DEFINE k == was.cx - cx
           v == Operand(insn, was, down, acc, k)
           u == was.bytes[Pos(down, was.di, k)]
<1>0. /\ RepTyped' /\ was' = was /\ insn' = insn /\ down' = down /\ acc' = acc
      /\ k \in Nat /\ was'.cx - cx' = k + 1
      /\ going' = ~EndsHere /\ going = TRUE
      /\ insn \in {"repe cmps", "repne cmps", "repe scas", "repne scas"}
  BY RepeatTypes DEF Comparing, Insns
<1>1. /\ di = Pos(down, was.di, k) /\ di' = Pos(down, was.di, k + 1)
      /\ insn \in {"movs", "repe cmps", "repne cmps"} =>
           si = Pos(down, was.si, k) /\ si' = Pos(down, was.si, k + 1)
  BY RepeatMoves
<1>2. bytes = was.bytes /\ Passed(insn, was, down, acc, k)
  BY <1>0 DEF RepInv
<1>3. bytes' = bytes /\ zf' = (v = u) /\ below' = (v < u)
  BY <1>0, <1>1, <1>2 DEF Repeat, Once, CompareWith, Operand
<1>4. zf' = Alike(insn, was, down, acc, k)
  BY <1>3 DEF Alike
<1>n. k \in Nat
  BY <1>0
<1> HIDE DEF k, v, u
<1>5. going' = ~Decides(insn, was, down, acc, k)
  BY <1>0, <1>4 DEF EndsHere, Decides, Alike
<1>6. \A j \in 0 .. (k + 1) - 1 : j \in 0 .. k - 1 \/ j = k
  BY <1>n
<1>7. going' => Passed(insn, was, down, acc, k + 1)
  BY <1>2, <1>5, <1>6 DEF Passed
<1>8. (k + 1) - 1 = k /\ k + 1 > 0
  BY <1>n
<1>9. Comparing' /\ insn # "movs" /\ insn # "stos"
  BY <1>0 DEF Comparing
<1>10. going' = FALSE => Decides(insn, was, down, acc, k)
  BY <1>5
<1>11. /\ Passed(insn, was, down, acc, (k + 1) - 1)
       /\ zf' = Alike(insn, was, down, acc, (k + 1) - 1)
       /\ below' = (Operand(insn, was, down, acc, (k + 1) - 1)
                       < was.bytes[Pos(down, was.di, (k + 1) - 1)])
       /\ going' = FALSE => Decides(insn, was, down, acc, (k + 1) - 1)
  BY <1>2, <1>3, <1>4, <1>8, <1>10 DEF v, u
<1>12. going' \in BOOLEAN
  BY <1>0 DEF RepTyped
<1>13. /\ was'.cx - cx' = k + 1 /\ was' = was /\ insn' = insn /\ down' = down /\ acc' = acc
       /\ RepTyped'
  BY <1>0
<1>14. bytes' = was.bytes
  BY <1>2, <1>3
<1> QED BY <1>1, <1>7, <1>8, <1>9, <1>11, <1>12, <1>13, <1>14 DEF RepInv

(* Every step of the instruction keeps the invariant.                      *)
LEMMA RepStep == RepInv /\ [RepNext]_repVars => RepInv'
<1> SUFFICES ASSUME RepInv, [RepNext]_repVars PROVE RepInv'
  OBVIOUS
<1>1. CASE Repeat
  <2>1. insn \in Insns
    BY DEF RepInv, RepTyped
  <2> QED BY <1>1, <2>1, RepeatMovs, RepeatStos, RepeatSearch DEF Comparing
<1>2. CASE CountOut
  <2>1. /\ going = TRUE /\ cx = 0 /\ going' = FALSE /\ insn' = insn /\ bytes' = bytes
        /\ si' = si /\ di' = di /\ cx' = cx /\ down' = down /\ acc' = acc /\ was' = was
    BY <1>2 DEF CountOut, RepInv, RepTyped
  <2>2. RepTyped' /\ (Comparing' <=> Comparing)
    BY <2>1 DEF RepInv, RepTyped, Comparing
  <2>3. Comparing => Passed(insn, was, down, acc, was.cx - cx)
    BY <2>1 DEF RepInv
  <2> QED BY <2>1, <2>2, <2>3 DEF RepInv
<1>3. CASE UNCHANGED repVars
  BY <1>3 DEF repVars, RepInv, RepTyped, Comparing
<1> QED BY <1>1, <1>2, <1>3 DEF RepNext

(* The addresses and comparisons, as the property counts them.             *)
LEMMA Counting ==
  /\ \A s, k : At(s, k) = Pos(down, s, k)
  /\ \A s : Next1(s) = Pos(down, s, 1)
  /\ \A k : Compared(k) = Operand(insn, was, down, acc, k)
  /\ \A k : Equals(k) = Alike(insn, was, down, acc, k)
  /\ \A k : Stops(k) <=> Decides(insn, was, down, acc, k)
  /\ ReadsFirst <=> Apart(was, down)
<1>1. \A s, k : At(s, k) = Pos(down, s, k)
  BY DEF At, Pos
<1>2. \A s : Next1(s) = Pos(down, s, 1)
  BY DEF Next1, Pos
<1>3. \A k : Compared(k) = Operand(insn, was, down, acc, k)
  BY <1>1 DEF Compared, Operand
<1>4. \A k : Equals(k) = Alike(insn, was, down, acc, k)
  BY <1>1, <1>3 DEF Equals, Alike
<1>5. \A k : Stops(k) <=> Decides(insn, was, down, acc, k)
  BY <1>4 DEF Stops, Decides
<1>6. ReadsFirst <=> Apart(was, down)
  BY <1>1 DEF ReadsFirst, Apart, Run
<1> QED BY <1>1, <1>2, <1>3, <1>4, <1>5, <1>6

(* A finished instruction has done what it is for.                         *)
LEMMA RepDone == RepInv => StringIdioms
<1> SUFFICES ASSUME RepInv, ~going PROVE StringIdioms
  BY DEF StringIdioms
<1> DEFINE k == was.cx - cx
<1>0. /\ was.cx \in Nat /\ cx \in Nat /\ cx <= was.cx /\ down \in BOOLEAN
      /\ was.si \in Addresses /\ was.di \in Addresses /\ insn \in Insns
  <2>1. was.cx \in 0 .. Size /\ cx \in 0 .. was.cx
    BY DEF RepInv, RepTyped
  <2>2. was.cx \in Nat /\ cx \in Nat /\ cx <= was.cx
    BY <2>1, SizeAssumption
  <2>3. /\ was.si \in Addresses /\ was.di \in Addresses /\ insn \in Insns /\ down \in BOOLEAN
    BY DEF RepInv, RepTyped
  <2> QED BY <2>2, <2>3
<1>1. ~Comparing => cx = 0 /\ k = was.cx
  <2>1. ~Comparing => cx = 0
    BY DEF RepInv
  <2> QED BY <1>0, <2>1
<1>2. \A j \in Run : j \in Nat /\ j \in 0 .. was.cx - 1
  BY <1>0 DEF Run
<1>3. insn = "movs" /\ ReadsFirst =>
        /\ \A j \in Run : bytes[At(was.di, j)] = was.bytes[At(was.si, j)]
        /\ \A a \in Addresses \ {At(was.di, j) : j \in Run} : bytes[a] = was.bytes[a]
  <2> SUFFICES ASSUME insn = "movs", ReadsFirst
               PROVE  /\ \A j \in Run : bytes[At(was.di, j)] = was.bytes[At(was.si, j)]
                      /\ \A a \in Addresses \ {At(was.di, j) : j \in Run} : bytes[a] = was.bytes[a]
    OBVIOUS
  <2>1. Copied(bytes, was, down, was.cx)
    BY <1>1 DEF RepInv, Comparing
  <2> QED BY <2>1, Counting DEF Copied, Run
<1>4. insn = "movs" /\ was.di = Next1(was.si) =>
        \A j \in Run : bytes[At(was.di, j)] = was.bytes[was.si]
  <2> SUFFICES ASSUME insn = "movs", was.di = Next1(was.si)
               PROVE  \A j \in Run : bytes[At(was.di, j)] = was.bytes[was.si]
    OBVIOUS
  <2>1. Spread(bytes, was, down, was.cx)
    BY <1>1 DEF RepInv, Comparing
  <2> QED BY <2>1, Counting DEF Spread, Run
<1>5. insn = "stos" => \A j \in Run : bytes[At(was.di, j)] = acc
  <2> SUFFICES ASSUME insn = "stos" PROVE \A j \in Run : bytes[At(was.di, j)] = acc
    OBVIOUS
  <2>1. Filled(bytes, was, down, acc, was.cx)
    BY <1>1 DEF RepInv, Comparing
  <2> QED BY <2>1, Counting DEF Filled, Run
<1>6. Comparing =>
        \/ cx = 0 /\ Passed(insn, was, down, acc, k)
        \/ /\ k > 0 /\ Passed(insn, was, down, acc, k - 1)
           /\ Decides(insn, was, down, acc, k - 1)
           /\ zf = Alike(insn, was, down, acc, k - 1)
           /\ below = (Operand(insn, was, down, acc, k - 1)
                         < was.bytes[Pos(down, was.di, k - 1)])
  BY DEF RepInv
<1>7. di = Pos(down, was.di, k)
  BY DEF RepInv
<1>k. k \in Nat /\ k <= was.cx /\ (cx = 0 => k = was.cx) /\ cx = was.cx - k
  BY <1>0
<1> HIDE DEF k
<1>8. Comparing /\ (\E j \in Run : Stops(j)) =>
        LET start == CHOOSE j \in Run : Stops(j) /\ \A i \in Run : Stops(i) => j <= i
        IN  /\ cx = was.cx - start - 1 /\ di = At(was.di, start + 1)
            /\ zf = Equals(start)
            /\ below = (Compared(start) < was.bytes[At(was.di, start)])
  <2> SUFFICES ASSUME Comparing, NEW i \in Run, Stops(i)
               PROVE  LET start == CHOOSE j \in Run : Stops(j) /\ \A h \in Run : Stops(h) => j <= h
                      IN  /\ cx = was.cx - start - 1 /\ di = At(was.di, start + 1)
                          /\ zf = Equals(start)
                          /\ below = (Compared(start) < was.bytes[At(was.di, start)])
    OBVIOUS
  <2> DEFINE start == CHOOSE j \in Run : Stops(j) /\ \A h \in Run : Stops(h) => j <= h
             l == k - 1
  <2>1. ~(cx = 0 /\ Passed(insn, was, down, acc, k))
    BY <1>k, Counting DEF Passed, Run
  <2>2. /\ k > 0 /\ Passed(insn, was, down, acc, l)
        /\ Decides(insn, was, down, acc, l)
        /\ zf = Alike(insn, was, down, acc, l)
        /\ below = (Operand(insn, was, down, acc, l) < was.bytes[Pos(down, was.di, l)])
    BY <1>6, <2>1
  <2>3. l \in Run /\ l \in Nat /\ l + 1 = k /\ cx = was.cx - l - 1
    BY <1>0, <1>k, <2>2 DEF Run
  <2> HIDE DEF l
  <2>4. Stops(l)
    BY <2>2, Counting
  <2>5. \A h \in Run : Stops(h) => l <= h
    <3>1. ASSUME NEW h \in Run, Stops(h) PROVE l <= h
      <4>1. h \notin 0 .. l - 1
        BY <2>2, <3>1, Counting DEF Passed
      <4> QED BY <1>2, <2>3, <4>1
    <3> QED BY <3>1
  <2>6. \A h \in Run : (Stops(h) /\ \A j \in Run : Stops(j) => h <= j) => h = l
    <3>1. ASSUME NEW h \in Run, Stops(h), \A j \in Run : Stops(j) => h <= j PROVE h = l
      <4>1. h <= l /\ l <= h
        BY <2>3, <2>4, <2>5, <3>1
      <4> QED BY <1>2, <2>3, <4>1
    <3> QED BY <3>1
  <2>7. start = l
    BY <2>3, <2>4, <2>5, <2>6
  <2> HIDE DEF start
  <2>8. /\ cx = was.cx - start - 1 /\ di = At(was.di, start + 1)
        /\ zf = Equals(start)
        /\ below = (Compared(start) < was.bytes[At(was.di, start)])
    BY <1>7, <2>2, <2>3, <2>7, Counting
  <2> QED BY <2>8 DEF start
<1>9. Comparing /\ (\A j \in Run : ~Stops(j)) => cx = 0 /\ di = At(was.di, was.cx)
  <2> SUFFICES ASSUME Comparing, \A j \in Run : ~Stops(j)
               PROVE  cx = 0 /\ di = At(was.di, was.cx)
    OBVIOUS
  <2>1. k > 0 => k - 1 \in Run
    BY <1>0, <1>k DEF Run
  <2>2. cx = 0
    BY <1>6, <2>1, Counting
  <2> QED BY <1>7, <1>k, <2>2, Counting
<1> QED BY <1>3, <1>4, <1>5, <1>8, <1>9 DEF StringIdioms

(* StringIdioms: in a segment of any size, a finished REP MOVS has copied  *)
(* or, one element ahead, has filled; REP STOS has filled; REPE and REPNE  *)
(* CMPS and SCAS have stopped behind the first element that decides, with  *)
(* the flags of that comparison, or have run out of CX.                    *)
THEOREM StringsDoTheirWork == RepSpec => []StringIdioms
<1>1. RepInv /\ [RepNext]_repVars => RepInv'
  BY RepStep
<1>2. RepInv => StringIdioms
  BY RepDone
<1> QED BY <1>1, <1>2, RepInitInv, PTL DEF RepSpec
=============================================================================
