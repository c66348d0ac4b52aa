-------------------------------- MODULE MCCpu --------------------------------
(***************************************************************************)
(* What compiled code relies on in the interpreter, in one model: numbers  *)
(* of several words, decimal digits, string instructions, the floating     *)
(* point stack, and interrupts across rings.  They share nothing: part     *)
(* says which one runs, the others stay in one of their initial states.    *)
(***************************************************************************)
EXTENDS CpuAlu, CpuDecimal, RepString, FpuStack, CpuGates

VARIABLE part

MCPacked  == {0, 1, 4, 5, 6, 9, 10, 15, 49, 50, 51, 89, 90, 94, 95, 99}

(* One initial state of a part that does not run.                          *)
AluStill ==
  /\ op = "add" /\ at = "done" /\ touched = TRUE
  /\ lo = 0 /\ hi = 0 /\ ylo = 0 /\ yhi = 0 /\ lo0 = 0 /\ hi0 = 0
  /\ f = [cf |-> FALSE, af |-> FALSE, zf |-> TRUE, sf |-> FALSE, of |-> FALSE]

DecimalStill ==
  /\ kind = "daa" /\ done = "loaded" /\ carried = FALSE
  /\ first = 0 /\ second = 0 /\ al = 0 /\ ah = 0
  /\ df = [cf |-> FALSE, af |-> FALSE, zf |-> FALSE, sf |-> FALSE, of |-> FALSE]

RepStill ==
  /\ insn = "movs" /\ going = TRUE /\ bytes = [a \in Addresses |-> 0] /\ acc = 0
  /\ si = 0 /\ di = 0 /\ cx = 0 /\ down = FALSE /\ zf = FALSE /\ below = FALSE
  /\ was = [bytes |-> bytes, si |-> 0, di |-> 0, cx |-> 0]

GatesStill ==
  /\ cs = Outer /\ ip = 1 /\ ss = Outer /\ sp = Top /\ intOn = TRUE
  /\ stacks = [r \in Rings |-> [a \in 0 .. Top - 1 |-> Junk]] /\ calls = <<>> /\ back = Nowhere

Init ==
  \/ part = "alu"     /\ AluInit  /\ DecimalStill /\ RepStill /\ FpuInit /\ GatesStill
  \/ part = "decimal" /\ AluStill /\ DecimalInit  /\ RepStill /\ FpuInit /\ GatesStill
  \/ part = "rep"     /\ AluStill /\ DecimalStill /\ RepInit  /\ FpuInit /\ GatesStill
  \/ part = "fpu"     /\ AluStill /\ DecimalStill /\ RepStill /\ FpuInit /\ GatesStill
  \/ part = "gates"   /\ AluStill /\ DecimalStill /\ RepStill /\ FpuInit /\ GatesInit

Next ==
  /\ UNCHANGED part
  /\ \/ part = "alu"     /\ AluNext     /\ UNCHANGED <<decimalVars, repVars, fpuVars, gateVars>>
     \/ part = "decimal" /\ DecimalNext /\ UNCHANGED <<aluVars, repVars, fpuVars, gateVars>>
     \/ part = "rep"     /\ RepNext     /\ UNCHANGED <<aluVars, decimalVars, fpuVars, gateVars>>
     \/ part = "fpu"     /\ FpuNext     /\ UNCHANGED <<aluVars, decimalVars, repVars, gateVars>>
     \/ part = "gates"   /\ GatesNext   /\ UNCHANGED <<aluVars, decimalVars, repVars, fpuVars>>

Spec == Init /\ [][Next]_<<part, aluVars, decimalVars, repVars, fpuVars, gateVars>>
=============================================================================
