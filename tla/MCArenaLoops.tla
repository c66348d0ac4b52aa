---------------------------- MODULE MCArenaLoops ----------------------------
(***************************************************************************)
(* The two loops of the source that earn a model of their own: the         *)
(* allocator's on every arena of six paragraphs, and the comparison of a   *)
(* name with a pattern.  They share nothing: part says which one runs.     *)
(***************************************************************************)
EXTENDS ArenaLoops, WildMatch

VARIABLE part

Strings(S, len) == UNION {[1 .. k -> S] : k \in 0 .. len}

MCOwners     == {3}
MCPatterns   == Strings({"A", "?", "*", "."}, 4)
MCEntryNames == Strings(Letters \union {"."}, 3)

Init ==
  /\ part \in {"arena", "match"}
  /\ \/ part = "arena" /\ ListInit
     \/ part = "match" /\ list = <<>>
  /\ MatchInit

Next ==
  \/ part = "arena" /\ ListNext  /\ UNCHANGED <<part, matchVars>>
  \/ part = "match" /\ MatchNext /\ UNCHANGED <<part, list>>

(* A loop that has begun runs on: nothing interrupts it.                   *)
Spec == Init /\ [][Next]_<<part, list, matchVars>>
             /\ WF_matchVars(part = "match" /\ MatchTurn /\ UNCHANGED <<part, list>>)
=============================================================================
