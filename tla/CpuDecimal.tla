----------------------------- MODULE CpuDecimal -----------------------------
(***************************************************************************)
(* Decimal arithmetic on AL and AH: an ADC or SBB of two digits packed in  *)
(* a byte, or of one digit, and the instruction that corrects it (DAA, DAS,*)
(* AAA, AAS in src/cpu.cpp); AAM after a product, AAD before a division.   *)
(* The correction reads what the addition left in AL, CF and AF.           *)
(***************************************************************************)
EXTENDS Integers

CONSTANT Packed     (* the two-digit numbers that are added: some of 0..99 *)

ASSUME PackedAssumption == Packed \subseteq 0 .. 99

Kinds == {"daa", "das", "aaa", "aas", "aam", "aad"}

VARIABLES
  kind,       (* the correction                                            *)
  done,       (* "loaded", "computed", "adjusted"                          *)
  first, second, carried,   (* the numbers and the carry that comes in     *)
  al, ah,     (* AL and AH                                                 *)
  df          (* the flags                                                 *)

decimalVars == <<kind, done, first, second, carried, al, ah, df>>

Byte == INSTANCE CpuFlags WITH Half <- 128

Bcd(n) == (n \div 10) * 16 + (n % 10)

Operands(k) ==
  CASE k \in {"daa", "das"} -> Packed \X Packed \X BOOLEAN
    [] k \in {"aaa", "aas"} -> (0 .. 9) \X (0 .. 9) \X BOOLEAN
    [] OTHER                -> (0 .. 9) \X (0 .. 9) \X {FALSE}

DecimalInit ==
  /\ kind \in Kinds /\ done = "loaded"
  /\ \E o \in Operands(kind) : first = o[1] /\ second = o[2] /\ carried = o[3]
  /\ al = (CASE kind \in {"daa", "das"} -> Bcd(first)
             [] kind = "aad"            -> second
             [] OTHER                   -> first)
  /\ ah \in IF kind \in {"aaa", "aas"} THEN {0, 7} ELSE IF kind = "aad" THEN {first} ELSE {0}
  /\ df = [cf |-> carried, af |-> FALSE, zf |-> FALSE, sf |-> FALSE, of |-> FALSE]

(* ADC, SBB, or MUL of two digits.                                         *)
Compute ==
  LET y == IF kind \in {"daa", "das"} THEN Bcd(second) ELSE second
      c == Byte!One(df.cf)
  IN  /\ done = "loaded" /\ done' = "computed"
      /\ \/ /\ kind \in {"daa", "aaa"}
            /\ al' = Byte!Cut(al + y + c) /\ df' = Byte!AddFlags(al, y, c)
         \/ /\ kind \in {"das", "aas"}
            /\ al' = Byte!Cut(al - y - c) /\ df' = Byte!SubFlags(al, y, c)
         \/ kind = "aam" /\ al' = al * y /\ UNCHANGED df
         \/ kind = "aad" /\ UNCHANGED <<al, df>>
      /\ UNCHANGED <<kind, first, second, carried, ah>>

ResultFlags(v, cf, af) == [df EXCEPT !.cf = cf, !.af = af, !.zf = (v = 0), !.sf = Byte!Sign(v)]

LowTooBig == al % 16 > 9 \/ df.af

(* Mutant: the high digit judged without the carry that came in.           *)
HighByValue == al > 153

HighTooBig == al > 153 \/ df.cf

(* DAA and DAS: by is the sign of the correction.                          *)
PackedAdjust(by) ==
  LET low    == IF LowTooBig THEN al + by * 6 ELSE al
      after  == Byte!Cut(low)
      result == IF HighTooBig THEN (after + by * 96) % 256 ELSE after
  IN  /\ al' = result
      /\ df' = ResultFlags(result, (LowTooBig /\ (df.cf \/ Byte!BitAbove(low))) \/ HighTooBig,
                           LowTooBig)
      /\ UNCHANGED ah

(* AAA and AAS.                                                            *)
UnpackedAdjust(by) ==
  LET result == (IF LowTooBig THEN al + by * 6 ELSE al) % 16
  IN  /\ al' = result
      /\ ah' = (IF LowTooBig THEN (ah + by) % 256 ELSE ah)
      /\ df' = ResultFlags(result, LowTooBig, LowTooBig)

Adjust ==
  /\ done = "computed" /\ done' = "adjusted"
  /\ \/ kind = "daa" /\ PackedAdjust(1)
     \/ kind = "das" /\ PackedAdjust(-1)
     \/ kind = "aaa" /\ UnpackedAdjust(1)
     \/ kind = "aas" /\ UnpackedAdjust(-1)
     \/ /\ kind = "aam"
        /\ ah' = al \div 10 /\ al' = al % 10
        /\ df' = ResultFlags(al', df.cf, df.af)
     \/ /\ kind = "aad"
        /\ al' = (al + ah * 10) % 256 /\ ah' = 0
        /\ df' = ResultFlags(al', df.cf, df.af)
  /\ UNCHANGED <<kind, first, second, carried>>

DecimalNext == Compute \/ Adjust
DecimalSpec == DecimalInit /\ [][DecimalNext]_decimalVars

----------------------------------------------------------------------------
Total(sign) == first + sign * (second + Byte!One(carried))

(* The corrected byte is the decimal sum or difference, and CF carries to  *)
(* the next digits, so a chain of bytes computes with decimal numbers of   *)
(* any length.                                                             *)
DecimalResult ==
  done = "adjusted" =>
    /\ kind = "daa" => al = Bcd(Total(1) % 100)  /\ (df.cf <=> Total(1) > 99)
    /\ kind = "das" => al = Bcd(Total(-1) % 100) /\ (df.cf <=> Total(-1) < 0)
    /\ kind = "aaa" => al = Total(1) % 10  /\ (df.cf <=> Total(1) > 9)
    /\ kind = "aas" => al = Total(-1) % 10 /\ (df.cf <=> Total(-1) < 0)
    /\ kind = "aam" => ah * 10 + al = first * second /\ al < 10
    /\ kind = "aad" => al = first * 10 + second
=============================================================================
