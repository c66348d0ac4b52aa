----------------------------- MODULE RepString ------------------------------
(***************************************************************************)
(* REP, REPE and REPNE of the string instructions (A4h-AFh in              *)
(* src/cpu.cpp), an element at a time: the loop decrements CX, does the    *)
(* instruction once, and lets ZF end only the comparing ones.  Addresses   *)
(* wrap in their segment, source and destination are in the same one.      *)
(***************************************************************************)
EXTENDS Integers

CONSTANTS
  Size,      (* the elements of the segment                                *)
  Elements   (* their values: numbers                                      *)

ASSUME SizeAssumption == Size \in Nat \ {0} /\ Elements \subseteq Nat

Insns == {"movs", "stos", "repe cmps", "repne cmps", "repe scas", "repne scas"}

VARIABLES
  insn, going,       (* the instruction, and whether it goes on            *)
  bytes,             (* the segment                                        *)
  si, di, cx,        (* the registers                                      *)
  down,              (* DF                                                 *)
  acc,               (* AL                                                 *)
  zf, below,         (* ZF, CF of the last comparison                      *)
  was                (* history: bytes, si, di and cx to begin with        *)

repVars == <<insn, going, bytes, si, di, cx, down, acc, zf, below, was>>

Addresses == 0 .. Size - 1

RepInit ==
  /\ insn \in Insns /\ going = TRUE
  /\ bytes \in [Addresses -> Elements] /\ acc \in Elements
  /\ si \in Addresses /\ di \in Addresses /\ cx \in 0 .. Size
  /\ down \in BOOLEAN /\ zf = FALSE /\ below = FALSE
  /\ was = [bytes |-> bytes, si |-> si, di |-> di, cx |-> cx]

Comparing == insn \notin {"movs", "stos"}

Next1(address) == (address + (IF down THEN -1 ELSE 1)) % Size

(* once(): one element.                                                    *)
Move  == bytes' = [bytes EXCEPT ![di] = bytes[si]] /\ si' = Next1(si) /\ di' = Next1(di)
Store == bytes' = [bytes EXCEPT ![di] = acc] /\ di' = Next1(di) /\ UNCHANGED si

CompareWith(value) == zf' = (value = bytes[di]) /\ below' = (value < bytes[di])

Once ==
  \/ insn = "movs" /\ Move /\ UNCHANGED <<zf, below>>
  \/ insn = "stos" /\ Store /\ UNCHANGED <<zf, below>>
  \/ insn \in {"repe cmps", "repne cmps"} /\ CompareWith(bytes[si])
     /\ si' = Next1(si) /\ di' = Next1(di) /\ UNCHANGED bytes
  \/ insn \in {"repe scas", "repne scas"} /\ CompareWith(acc)
     /\ di' = Next1(di) /\ UNCHANGED <<si, bytes>>

(* Mutant: ZF ends both prefixes alike.                                    *)
EndsWhenEqual == Comparing /\ zf'

EndsHere == \/ insn \in {"repe cmps", "repe scas"} /\ ~zf'
            \/ insn \in {"repne cmps", "repne scas"} /\ zf'

Repeat ==
  /\ going /\ cx > 0
  /\ cx' = cx - 1
  /\ Once
  /\ going' = ~EndsHere
  /\ UNCHANGED <<insn, down, acc, was>>

CountOut ==
  /\ going /\ cx = 0
  /\ going' = FALSE
  /\ UNCHANGED <<insn, bytes, si, di, cx, down, acc, zf, below, was>>

RepNext == Repeat \/ CountOut
RepSpec == RepInit /\ [][RepNext]_repVars

----------------------------------------------------------------------------
(* The address of element k, counted from where the instruction began.     *)
At(start, k) == (start + (IF down THEN -k ELSE k)) % Size

Run == 0 .. was.cx - 1

(* No element is overwritten before it is read.                            *)
ReadsFirst == \A j, k \in Run : j < k => At(was.di, j) # At(was.si, k)

(* The comparison an element makes.                                        *)
Compared(k) == IF insn \in {"repe cmps", "repne cmps"} THEN was.bytes[At(was.si, k)] ELSE acc
Equals(k)   == Compared(k) = was.bytes[At(was.di, k)]
Stops(k)    == Equals(k) <=> insn \in {"repne cmps", "repne scas"}

(* What compilers use them for: a block is moved, overlapping ones in the  *)
(* right direction too, one overlapping by one is filled with its first    *)
(* element (memset), and the search (strlen, memcmp, memchr) stops behind  *)
(* the first element that decides it, with CX for the distance and the     *)
(* flags of that element.                                                  *)
StringIdioms ==
  ~going =>
    /\ insn = "movs" /\ ReadsFirst =>
         /\ \A k \in Run : bytes[At(was.di, k)] = was.bytes[At(was.si, k)]
         /\ \A a \in Addresses \ {At(was.di, k) : k \in Run} : bytes[a] = was.bytes[a]
    /\ insn = "movs" /\ was.di = Next1(was.si) /\ was.cx < Size =>
         \A k \in Run : bytes[At(was.di, k)] = was.bytes[was.si]
    /\ insn = "stos" => \A k \in Run : bytes[At(was.di, k)] = acc
    /\ Comparing /\ (\E k \in Run : Stops(k)) =>
         LET first == CHOOSE k \in Run : Stops(k) /\ \A j \in Run : Stops(j) => k <= j
         IN  /\ cx = was.cx - first - 1 /\ di = At(was.di, first + 1)
             /\ zf = Equals(first)
             /\ below = (Compared(first) < was.bytes[At(was.di, first)])
    /\ Comparing /\ (\A k \in Run : ~Stops(k)) => cx = 0 /\ di = At(was.di, was.cx)
=============================================================================
