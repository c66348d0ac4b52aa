----------------------------- MODULE WildMatch -----------------------------
(***************************************************************************)
(* dos83match and wildmatch of src/dos.cpp: a directory entry against the  *)
(* pattern of AH=4Eh.  wildmatch is one loop with one remembered star: a   *)
(* mismatch behind a star goes back to it and gives it one letter more.    *)
(* Earlier stars are never revisited.  A step is one turn of the loop.     *)
(*                                                                         *)
(* Both sides are compared in upper case by the code; here letters are     *)
(* simply equal or not.                                                    *)
(***************************************************************************)
EXTENDS Naturals, Sequences

CONSTANTS
  Letters,      (* what names are made of, besides the dot                 *)
  Patterns,     (* the patterns and names that are compared: sequences     *)
  EntryNames

ASSUME MatchAssumption ==
  /\ Patterns \subseteq Seq(Letters \union {".", "?", "*"})
  /\ EntryNames \subseteq Seq(Letters \union {"."})

VARIABLES
  phase,        (* "idle", "base", "ext": comparing that part; "yes", "no" *)
  pat, name,    (* dos83match's arguments                                  *)
  p, n,         (* wildmatch's positions in the two parts                  *)
  star, mark    (* the last star, or 0, and where its text starts          *)

matchVars == <<phase, pat, name, p, n, star, mark>>

(* split: at the first dot.                                                *)
HasDot(s) == \E i \in DOMAIN s : s[i] = "."
Dot(s)    == CHOOSE i \in DOMAIN s : s[i] = "." /\ \A j \in 1 .. i-1 : s[j] # "."
Base(s)   == IF HasDot(s) THEN SubSeq(s, 1, Dot(s) - 1) ELSE s
Ext(s)    == IF HasDot(s) THEN SubSeq(s, Dot(s) + 1, Len(s)) ELSE <<>>
PatExt    == IF HasDot(pat) THEN Ext(pat) ELSE <<"*">>

Pattern == IF phase = "base" THEN Base(pat) ELSE PatExt
Text    == IF phase = "base" THEN Base(name) ELSE Ext(name)

Fits(c, d) == c = "?" \/ c = d
Comparing  == phase \in {"base", "ext"}
OneFits    == p <= Len(Pattern) /\ Fits(Pattern[p], Text[n])
AtStar     == p <= Len(Pattern) /\ Pattern[p] = "*"

----------------------------------------------------------------------------
MatchInit ==
  /\ phase = "idle" /\ pat = <<>> /\ name = <<>>
  /\ p = 1 /\ n = 1 /\ star = 0 /\ mark = 0

Compare ==
  /\ phase = "idle"
  /\ pat' \in Patterns /\ name' \in EntryNames
  /\ phase' = "base"
  /\ UNCHANGED <<p, n, star, mark>>

TakeOne ==
  /\ Comparing /\ n <= Len(Text) /\ OneFits
  /\ p' = p + 1 /\ n' = n + 1
  /\ UNCHANGED <<phase, pat, name, star, mark>>

MeetStar ==
  /\ Comparing /\ n <= Len(Text) /\ ~OneFits /\ AtStar
  /\ star' = p /\ mark' = n /\ p' = p + 1
  /\ UNCHANGED <<phase, pat, name, n>>

(* Mutant: the text is resumed where it failed.                            *)
BackToFailure == p' = star + 1 /\ n' = n /\ mark' = n + 1

(* Mutant: the star is not given the letter.                               *)
BackForNothing == p' = star + 1 /\ n' = mark /\ mark' = mark

BackToStar == p' = star + 1 /\ n' = mark + 1 /\ mark' = mark + 1

Mismatch ==
  /\ Comparing /\ n <= Len(Text) /\ ~OneFits /\ ~AtStar
  /\ \/ star # 0 /\ BackToStar /\ UNCHANGED phase
     \/ star = 0 /\ phase' = "no" /\ UNCHANGED <<p, n, mark>>
  /\ UNCHANGED <<pat, name, star>>

(* The text is used up: what is left of the pattern may only be stars.     *)
TextEnds ==
  /\ Comparing /\ n > Len(Text)
  /\ phase' = IF \E i \in p .. Len(Pattern) : Pattern[i] # "*" THEN "no"
              ELSE IF phase = "base" THEN "ext" ELSE "yes"
  /\ p' = 1 /\ n' = 1 /\ star' = 0 /\ mark' = 0
  /\ UNCHANGED <<pat, name>>

Return ==
  /\ phase \in {"yes", "no"}
  /\ phase' = "idle" /\ pat' = <<>> /\ name' = <<>>
  /\ p' = 1 /\ n' = 1 /\ star' = 0 /\ mark' = 0

MatchTurn == TakeOne \/ MeetStar \/ Mismatch \/ TextEnds
MatchNext == Compare \/ MatchTurn \/ Return

MatchSpec == MatchInit /\ [][MatchNext]_matchVars

----------------------------------------------------------------------------
(* What a pattern means: each star stands for some text.  cut says where   *)
(* what each letter of the pattern stands for begins.                      *)
Glob(pt, tx) ==
  \E cut \in [1 .. Len(pt) + 1 -> 1 .. Len(tx) + 1] :
    /\ cut[1] = 1 /\ cut[Len(pt) + 1] = Len(tx) + 1
    /\ \A i \in 1 .. Len(pt) :
         IF pt[i] = "*" THEN cut[i] <= cut[i + 1]
         ELSE cut[i + 1] = cut[i] + 1 /\ Fits(pt[i], tx[cut[i]])

(* "the name and extension are matched separately, so "*.*" (and a bare    *)
(* "*") match names with no extension too" (dos.cpp:517): going back to    *)
(* the last star only still finds every match there is.                    *)
VerdictIsGlob ==
  /\ phase = "yes" => Glob(Base(pat), Base(name)) /\ Glob(PatExt, Ext(name))
  /\ phase = "no"  => ~(Glob(Base(pat), Base(name)) /\ Glob(PatExt, Ext(name)))

(* What the loop runs on: a turn ends the part, gives the last star more   *)
(* of the text, or goes on in the pattern; so it cannot turn for ever.     *)
TurnsAdvance ==
  [][MatchTurn => \/ phase' # phase /\ phase' # "base"
                  \/ mark' > mark
                  \/ mark' = mark /\ p' > p]_matchVars

(* Going back ends: every comparison returns.                              *)
MatchReturns == Comparing ~> phase \in {"yes", "no"}
=============================================================================
