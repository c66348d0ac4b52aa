----------------------------- MODULE EvalStack ------------------------------
(***************************************************************************)
(* The stack a compiler's floating-point code computes on: operands are    *)
(* pushed and popped, an operation names its operands by their depth, and  *)
(* the branch after a comparison follows the operands' order.  FpuStack    *)
(* implements this on eight registers and a status word.                   *)
(***************************************************************************)
EXTENDS Integers, Sequences

CONSTANTS Numbers, NaN, Limit

VARIABLES
  stack,      (* ST(0) first                                               *)
  order,      (* how the last comparison came out                          *)
  branch      (* what a conditional jump goes by                           *)

vars == <<stack, order, branch>>

Values == Numbers \union {NaN}
Orders == {"less", "equal", "greater", "unordered"}

OrderOf(a, b) ==
  IF a = NaN \/ b = NaN THEN "unordered"
  ELSE IF a < b THEN "less" ELSE IF a > b THEN "greater" ELSE "equal"

(* A difference stands for the operations whose operands have an order.    *)
Difference(a, b) == IF a = NaN \/ b = NaN \/ a - b \notin Numbers THEN NaN ELSE a - b

Init == stack = <<>> /\ order \in Orders /\ branch \in Orders

Push(v)    == Len(stack) < Limit /\ stack' = <<v>> \o stack /\ UNCHANGED <<order, branch>>
Drop(n)    == SubSeq(stack, n + 1, Len(stack))
Pop        == stack # <<>> /\ stack' = Drop(1) /\ UNCHANGED <<order, branch>>
Depths     == 1 .. Len(stack)

Exchange(i) ==
  stack' = [stack EXCEPT ![1] = stack[i], ![i] = stack[1]] /\ UNCHANGED <<order, branch>>

CopyTo(i, pops) ==
  LET s == [stack EXCEPT ![i] = stack[1]]
  IN  stack' = SubSeq(s, pops + 1, Len(s)) /\ UNCHANGED <<order, branch>>

(* ST(i) becomes the difference of it and ST(0), one way or the other.     *)
Subtract(i, to, reversed, pops) ==
  LET v == IF reversed THEN Difference(stack[i], stack[1]) ELSE Difference(stack[1], stack[i])
      s == [stack EXCEPT ![to] = v]
  IN  stack' = SubSeq(s, pops + 1, Len(s)) /\ UNCHANGED <<order, branch>>

Apply(v) == stack # <<>> /\ stack' = <<v>> \o Drop(1) /\ UNCHANGED <<order, branch>>

Compare(v, pops) ==
  order' = OrderOf(stack[1], v) /\ stack' = Drop(pops) /\ UNCHANGED branch

Test  == branch' = order /\ UNCHANGED <<stack, order>>
Clear == order' \in Orders /\ stack' \in {stack, <<>>} /\ UNCHANGED branch

Next ==
  \/ \E v \in Values : Push(v) \/ Apply(v)
  \/ Pop \/ Test \/ Clear
  \/ \E i \in Depths :
       \/ Exchange(i)
       \/ \E n \in {0, 1} : CopyTo(i, n)
       \/ \E r \in BOOLEAN : Subtract(i, 1, r, 0) \/ \E n \in {0, 1} : Subtract(i, i, r, n)
       \/ \E n \in 0 .. Len(stack) : n <= 2 /\ Compare(stack[i], n)
  \/ stack # <<>> /\ \E v \in Values, n \in {0, 1} : Compare(v, n)
=============================================================================
