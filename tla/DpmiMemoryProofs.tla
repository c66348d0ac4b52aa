-------------------------- MODULE DpmiMemoryProofs --------------------------
(***************************************************************************)
(* The properties of DpmiHeap and DpmiLdt for a heap and a table of any    *)
(* size and clients that ask for anything.  Listed is the inductive        *)
(* invariant of the heap: the entries account for every byte below         *)
(* heap_next_ once.  From it follows that the run of free blocks free_mem  *)
(* absorbs ends where it says, and that what the list hands out is what    *)
(* HeapGrants promises.  Order is that of the table: selectors are handed  *)
(* out upwards, so those below next_sel_ have been and the others have     *)
(* not, which keeps the host's apart from the client's and each other.     *)
(***************************************************************************)
EXTENDS MCDpmiMemory, WellFoundedInduction, SequenceTheorems, FiniteSetTheorems, TLAPS

Listed(bs, next) ==
  /\ bs \in Seq(Entry)
  /\ next \in HeapBase .. HeapTop
  /\ InHeap(bs, next)
  /\ Disjoint(bs)
  /\ Gapless(bs, next)
  /\ \A i \in DOMAIN bs : bs[i].used => bs[i].len > 0

(* Requests become at least one byte.                                      *)
LEMMA RoundedPositive ==
  ASSUME NEW len \in Nat
  PROVE  Rounded(len) \in Nat \ {0}
<1> DEFINE up == (len + PageSize - 1) % WordLimit
<1>1. PageSize \in Nat \ {0} /\ WordLimit \in Nat \ {0} /\ len + PageSize - 1 \in Int
  BY HeapAssumption, SMT
<1>2. up \in Int /\ up >= 0
  BY <1>1, SMT
<1> HIDE DEF up
<1>3. up % PageSize \in Int /\ 0 <= up % PageSize /\ up % PageSize < PageSize
  BY <1>1, <1>2, SMT
<1>4. Rounded(len) = IF up < PageSize THEN PageSize ELSE up - (up % PageSize)
  BY DEF Rounded, up
<1> QED BY <1>1, <1>2, <1>3, <1>4, SMT

(* UsedRanges of any list.                                                 *)
UsedOf(bs) == {[base |-> bs[i].base, len |-> bs[i].len] : i \in {j \in DOMAIN bs : bs[j].used}}

(* The order on the naturals as a relation.                                *)
Below == {p \in Nat \X Nat : p[1] < p[2]}

(* A set of naturals that is not empty has its Least.                      *)
LEMMA LeastIsLeast ==
  ASSUME NEW S, S \subseteq Nat, S # {}
  PROVE  Least(S) \in S /\ \A y \in S : Least(S) <= y
<1>1. IsWellFoundedOn(Below, Nat)
  BY NatLessThanWellFounded, Zenon DEF OpToRel, Below
<1>2. PICK x \in S : \A y \in S : ~(<<y, x>> \in Below)
  BY <1>1, WFMin, Zenon
<1>3. \A y \in S : x <= y
  <2> SUFFICES ASSUME NEW y \in S PROVE x <= y
    OBVIOUS
  <2>1. x \in Nat /\ y \in Nat
    OBVIOUS
  <2>2. y < x => <<y, x>> \in Below
    BY <2>1, SMT DEF Below
  <2> QED BY <1>2, <2>1, <2>2
<1> QED BY <1>3, Zenon DEF Least

(* What the list says of one entry.                                        *)
LEMMA EntryFacts ==
  ASSUME NEW bs, NEW next, Listed(bs, next), NEW i \in DOMAIN bs
  PROVE  /\ i \in Nat /\ i >= 1 /\ i <= Len(bs) /\ Len(bs) \in Nat
         /\ bs[i] \in Entry
         /\ bs[i].base \in Nat /\ HeapBase <= bs[i].base /\ bs[i].base <= HeapTop
         /\ bs[i].len \in Nat /\ bs[i].used \in BOOLEAN
         /\ End(bs[i]) \in Nat /\ bs[i].base <= End(bs[i]) /\ End(bs[i]) <= next
         /\ next \in Nat /\ next <= HeapTop /\ HeapBase <= next
<1>1. bs[i] \in Entry /\ i \in Nat /\ i >= 1 /\ i <= Len(bs) /\ Len(bs) \in Nat
  BY DEF Listed
<1>2. HeapBase \in Nat /\ HeapTop \in Nat
  BY HeapAssumption
<1>3. next \in Nat /\ next <= HeapTop /\ HeapBase <= next /\ End(bs[i]) <= next
  BY <1>2, SMT DEF Listed, InHeap
<1>4. /\ bs[i].base \in Nat /\ HeapBase <= bs[i].base /\ bs[i].base <= HeapTop
      /\ bs[i].len \in Nat /\ bs[i].used \in BOOLEAN
  BY <1>1, <1>2, SMT DEF Entry
<1> QED BY <1>1, <1>3, <1>4, SMT DEF End

(* No two entries that are not empty start or end at the same byte.        *)
LEMMA OneEntryAt ==
  ASSUME NEW bs, NEW next, Listed(bs, next), NEW i \in Filled(bs), NEW j \in Filled(bs),
         bs[i].base = bs[j].base \/ End(bs[i]) = End(bs[j])
  PROVE  i = j
<1>1. i \in DOMAIN bs /\ j \in DOMAIN bs /\ bs[i].len > 0 /\ bs[j].len > 0
  BY DEF Filled
<1>2. /\ bs[i].base \in Nat /\ bs[i].len \in Nat /\ bs[j].base \in Nat /\ bs[j].len \in Nat
  BY <1>1, EntryFacts
<1>3. i # j => End(bs[i]) <= bs[j].base \/ End(bs[j]) <= bs[i].base
  BY DEF Listed, Disjoint
<1> QED BY <1>1, <1>2, <1>3, SMT DEF End

(* The record of the entry that serves a request.                          *)
Marked(e, n, u) ==
  [e EXCEPT !.len = n, !.used = u] = [base |-> e.base, len |-> n, used |-> u]

LEMMA MarkedUsed ==
  ASSUME NEW P, NEW Q, NEW e \in [base : P, len : Q, used : BOOLEAN], NEW n, NEW u
  PROVE  Marked(e, n, u)
<1> DEFINE x == [e EXCEPT !.len = n, !.used = u]
           y == [base |-> e.base, len |-> n, used |-> u]
           N == {"base", "len", "used"}
<1>1. DOMAIN e = N /\ e = [g \in N |-> e[g]]
  OBVIOUS
<1>2. x.base = e.base /\ x.len = n /\ x.used = u /\ x = [g \in N |-> x[g]]
  BY <1>1
<1>3. y.base = e.base /\ y.len = n /\ y.used = u /\ y = [g \in N |-> y[g]]
  OBVIOUS
<1> HIDE DEF x, y
<1>4. \A g \in N : x[g] = y[g]
  BY <1>2, <1>3
<1>5. x = y
  BY <1>2, <1>3, <1>4
<1> QED BY <1>5 DEF x, y, Marked

(* The same with the flag the code sets.                                   *)
LEMMA MarkedTaken ==
  ASSUME NEW P, NEW Q, NEW e \in [base : P, len : Q, used : BOOLEAN], NEW n
  PROVE  [e EXCEPT !.len = n, !.used = TRUE] = [base |-> e.base, len |-> n, used |-> TRUE]
<1>1. Marked(e, n, TRUE)
  BY MarkedUsed
<1> QED BY <1>1, Zenon DEF Marked

(* The list with that entry in it.                                         *)
LEMMA TakenEntry ==
  ASSUME NEW bs \in Seq(Entry), NEW i \in DOMAIN bs, NEW n
  PROVE  [bs EXCEPT ![i].len = n, ![i].used = TRUE] =
           [bs EXCEPT ![i] = [base |-> bs[i].base, len |-> n, used |-> TRUE]]
<1>1. bs[i] \in Entry
  OBVIOUS
<1>2. [bs EXCEPT ![i].len = n, ![i].used = TRUE] =
        [bs EXCEPT ![i] = [bs[i] EXCEPT !.len = n, !.used = TRUE]]
  OBVIOUS
<1>3. [bs[i] EXCEPT !.len = n, !.used = TRUE] = [base |-> bs[i].base, len |-> n, used |-> TRUE]
  BY <1>1, MarkedTaken, Zenon DEF Entry
<1> QED BY <1>2, <1>3, Zenon

(* First fit: the entry that serves the request is cut in two.             *)
LEMMA TakeKeeps ==
  ASSUME NEW bs, NEW next, Listed(bs, next), NEW n \in Nat \ {0}, NEW i \in Fitting(bs, n)
  PROVE  /\ Listed(Take(bs, i, n), next)
         /\ UsedOf(Take(bs, i, n)) = UsedOf(bs) \union {[base |-> bs[i].base, len |-> n]}
         /\ bs[i].base + n <= next
         /\ \A j \in DOMAIN bs : bs[j].used => \/ End(bs[j]) <= bs[i].base
                                               \/ bs[i].base + n <= bs[j].base
<1> DEFINE ts == Take(bs, i, n)
           t  == [base |-> bs[i].base, len |-> n, used |-> TRUE]
           r  == [base |-> bs[i].base + n, len |-> bs[i].len - n, used |-> FALSE]
<1>1. i \in DOMAIN bs /\ bs[i].len >= n /\ ~bs[i].used
  BY DEF Fitting
<1>2. /\ bs[i] \in Entry /\ bs[i].base \in Nat /\ HeapBase <= bs[i].base /\ bs[i].len \in Nat
      /\ End(bs[i]) \in Nat /\ End(bs[i]) <= next /\ next \in Nat /\ next <= HeapTop /\ HeapBase <= next
      /\ HeapBase \in Nat /\ HeapTop \in Nat /\ bs[i].len <= HeapTop
      /\ Len(bs) \in Nat /\ i \in Nat /\ i <= Len(bs) /\ DOMAIN bs = 1 .. Len(bs)
  <2>1. bs[i].len <= HeapTop
    BY <1>1, EntryFacts, HeapAssumption, SMT DEF Entry
  <2> QED BY <1>1, <2>1, EntryFacts, HeapAssumption DEF Listed
<1>3. End(bs[i]) = bs[i].base + bs[i].len
  BY DEF End
<1>4. t \in Entry
  BY <1>1, <1>2, SMT DEF Entry
<1>5. End(t) = bs[i].base + n /\ t.base = bs[i].base /\ t.len = n /\ t.used
  BY DEF End
<1>6. r \in Entry
  <2>1. bs[i].base + n \in Nat /\ bs[i].len - n \in Nat /\ bs[i].len - n <= HeapTop
        /\ HeapBase <= bs[i].base + n /\ bs[i].base + n <= HeapTop
    BY <1>1, <1>2, <1>3, SMTT(20)
  <2> QED BY <1>2, <2>1, SMTT(20) DEF Entry
<1>7. End(r) = End(bs[i]) /\ r.base = bs[i].base + n /\ r.len = bs[i].len - n /\ ~r.used
  <2>1. (bs[i].base + n) + (bs[i].len - n) = bs[i].base + bs[i].len
    BY <1>2, SMTT(20)
  <2> QED BY <1>3, <2>1 DEF End
<1> DEFINE taken == [bs EXCEPT ![i] = t]
<1>8. ts = IF bs[i].len = n THEN taken ELSE Append(taken, r)
  <2>1. [bs EXCEPT ![i].len = n, ![i].used = TRUE] = taken
    BY <1>1, TakenEntry DEF Listed
  <2> QED BY <2>1 DEF Take
<1>9. taken \in Seq(Entry) /\ Len(taken) = Len(bs) /\ DOMAIN taken = DOMAIN bs
  BY <1>1, <1>2, <1>4 DEF Listed
<1>10. ts \in Seq(Entry)
  BY <1>6, <1>8, <1>9
<1> HIDE DEF t, r
<1>11. taken[i] = t /\ \A j \in DOMAIN bs \ {i} : taken[j] = bs[j]
  BY <1>1 DEF Listed
<1>12. bs[i].base + n <= next
  BY <1>1, <1>2, <1>3, SMT
<1>13. \A j \in DOMAIN bs : bs[j].used => End(bs[j]) <= bs[i].base \/ bs[i].base + n <= bs[j].base
  <2> SUFFICES ASSUME NEW j \in DOMAIN bs, bs[j].used
               PROVE  End(bs[j]) <= bs[i].base \/ bs[i].base + n <= bs[j].base
    OBVIOUS
  <2>1. j # i /\ j \in Filled(bs) /\ i \in Filled(bs)
    <3>1. bs[j] \in Entry
      BY EntryFacts
    <3>2. bs[i].len > 0 /\ bs[j].len > 0
      BY <1>1, <1>2, <3>1, SMTT(20) DEF Entry, Listed
    <3> QED BY <1>1, <3>2 DEF Filled
  <2>2. End(bs[j]) <= bs[i].base \/ End(bs[i]) <= bs[j].base
    BY <2>1 DEF Listed, Disjoint
  <2>3. bs[j].base \in Nat
    BY EntryFacts
  <2>4. bs[i].base + n <= End(bs[i]) /\ bs[i].base + n \in Nat /\ End(bs[i]) \in Nat
    BY <1>1, <1>2, <1>3, SMTT(20)
  <2> QED BY <2>2, <2>3, <2>4, SMT
<1>14. CASE bs[i].len = n
  <2>1. ts = taken
    BY <1>8, <1>14
  <2>2. DOMAIN ts = DOMAIN bs /\ ts[i] = t /\ \A j \in DOMAIN bs \ {i} : ts[j] = bs[j]
    BY <1>9, <1>11, <2>1
  <2>3. End(t) = End(bs[i])
    BY <1>3, <1>5, <1>14
  <2> HIDE DEF ts, taken
  <2>4. \A j \in DOMAIN bs : ts[j].base = bs[j].base /\ ts[j].len = bs[j].len /\ End(ts[j]) = End(bs[j])
    BY <1>5, <1>14, <2>2, <2>3
  <2>5. Filled(ts) = Filled(bs)
    BY <2>2, <2>4 DEF Filled
  <2>6. InHeap(ts, next) /\ Disjoint(ts) /\ Gapless(ts, next)
    <3>1. Filled(bs) \subseteq DOMAIN bs
      BY DEF Filled
    <3>2. InHeap(ts, next)
      BY <2>2, <2>4 DEF Listed, InHeap
    <3>3. Disjoint(ts)
      BY <2>4, <2>5, <3>1 DEF Listed, Disjoint
    <3>4. \A b : Follows(bs, b) => Follows(ts, b)
      BY <2>4, <2>5, <3>1 DEF Follows
    <3>5. Gapless(ts, next)
      BY <2>4, <2>5, <3>1, <3>4 DEF Listed, Gapless
    <3> QED BY <3>2, <3>3, <3>5
  <2>7. \A j \in DOMAIN ts : ts[j].used => ts[j].len > 0
    <3> SUFFICES ASSUME NEW j \in DOMAIN ts, ts[j].used PROVE ts[j].len > 0
      OBVIOUS
    <3>1. CASE j = i
      BY <1>5, <2>2, <3>1
    <3>2. CASE j # i
      BY <2>2, <3>2 DEF Listed
    <3> QED BY <3>1, <3>2
  <2>8. UsedOf(ts) = UsedOf(bs) \union {[base |-> bs[i].base, len |-> n]}
    BY <1>1, <1>5, <2>2 DEF UsedOf
  <2> QED BY <1>10, <1>12, <1>13, <2>6, <2>7, <2>8 DEF Listed, ts
<1>15. CASE bs[i].len # n
  <2> DEFINE l == Len(bs) + 1
  <2>1. ts = Append(taken, r)
    BY <1>8, <1>15
  <2>2. /\ DOMAIN ts = DOMAIN bs \union {l} /\ l \notin DOMAIN bs /\ ts[i] = t /\ ts[l] = r
        /\ \A j \in DOMAIN bs \ {i} : ts[j] = bs[j]
    <3>1. Len(ts) = l /\ DOMAIN ts = 1 .. l /\ ts[l] = r
      BY <1>2, <1>9, <2>1
    <3>2. \A j \in DOMAIN bs : ts[j] = taken[j]
      BY <1>2, <1>9, <2>1
    <3>3. 1 .. l = (1 .. Len(bs)) \union {l} /\ l \notin 1 .. Len(bs)
      BY <1>2, SMT
    <3> QED BY <1>1, <1>2, <1>11, <3>1, <3>2, <3>3
  <2> HIDE DEF ts, taken, l
  <2>3. Filled(ts) = Filled(bs) \union {l} /\ i \in Filled(bs) /\ l \notin Filled(bs) /\ Filled(bs) \subseteq DOMAIN bs
    <3>1. ts[i].len > 0 /\ bs[i].len > 0 /\ ts[l].len > 0
      <4>1. bs[i].len - n > 0 /\ bs[i].len > 0 /\ n > 0
        BY <1>1, <1>2, <1>15, SMT
      <4> QED BY <4>1, <1>5, <1>7, <2>2
    <3>2. \A j \in DOMAIN ts : j \in Filled(ts) <=> j \in Filled(bs) \union {l}
      BY <1>1, <2>2, <3>1 DEF Filled
    <3> QED BY <1>1, <2>2, <3>1, <3>2 DEF Filled
  <2>4. InHeap(ts, next)
    <3> SUFFICES ASSUME NEW j \in DOMAIN ts PROVE End(ts[j]) <= next
      BY DEF InHeap
    <3>1. CASE j = i
      BY <1>1, <1>2, <1>3, <1>5, <2>2, <3>1, SMT
    <3>2. CASE j = l
      BY <1>2, <1>7, <2>2, <3>2
    <3>3. CASE j # i /\ j # l
      BY <2>2, <3>3 DEF Listed, InHeap
    <3> QED BY <3>1, <3>2, <3>3
  <2>5. \A j \in Filled(bs) \ {i} : \/ End(bs[j]) <= bs[i].base
                                    \/ End(bs[i]) <= bs[j].base
    BY <2>3 DEF Listed, Disjoint
  <2>6. \A j \in Filled(bs) : bs[j].base \in Nat /\ End(bs[j]) \in Nat
    BY <2>3, EntryFacts
  <2>7. Disjoint(ts)
    <3> SUFFICES ASSUME NEW j \in Filled(ts), NEW k \in Filled(ts), j # k
                 PROVE  End(ts[j]) <= ts[k].base \/ End(ts[k]) <= ts[j].base
      BY DEF Disjoint
    <3>1. ASSUME NEW a \in Filled(ts), a # i, a # l
          PROVE  /\ a \in Filled(bs) \ {i} /\ ts[a] = bs[a]
                 /\ End(ts[i]) <= ts[a].base \/ End(ts[a]) <= ts[i].base
                 /\ End(ts[l]) <= ts[a].base \/ End(ts[a]) <= ts[l].base
      <4>1. a \in Filled(bs) \ {i} /\ ts[a] = bs[a]
        BY <2>2, <2>3, <3>1
      <4>2. End(bs[a]) <= bs[i].base \/ End(bs[i]) <= bs[a].base
        BY <2>5, <4>1
      <4>3. bs[a].base \in Nat /\ End(bs[a]) \in Nat
        BY <2>6, <4>1
      <4>4. End(t) <= End(bs[i]) /\ End(t) \in Nat /\ r.base \in Nat /\ bs[i].base <= r.base
        BY <1>1, <1>2, <1>3, <1>5, <1>7, SMT
      <4>5. End(ts[i]) <= ts[a].base \/ End(ts[a]) <= ts[i].base
        <5>1. End(t) <= bs[a].base \/ End(bs[a]) <= t.base
          <6>1. t.base = bs[i].base /\ bs[i].base \in Nat /\ End(bs[i]) \in Nat
            BY <1>2, <1>5, <2>6
          <6> QED BY <4>2, <4>3, <4>4, <6>1
        <5> QED BY <2>2, <4>1, <5>1
      <4>6. End(ts[l]) <= ts[a].base \/ End(ts[a]) <= ts[l].base
        <5>1. End(r) <= bs[a].base \/ End(bs[a]) <= r.base
          BY <1>2, <1>7, <4>2, <4>3, <4>4, SMT
        <5> QED BY <2>2, <4>1, <5>1
      <4> QED BY <4>1, <4>5, <4>6
    <3>2. End(ts[i]) <= ts[l].base
      BY <1>2, <1>5, <1>7, <2>2
    <3>3. CASE j # i /\ j # l /\ k # i /\ k # l
      <4>1. j \in Filled(bs) /\ k \in Filled(bs) /\ ts[j] = bs[j] /\ ts[k] = bs[k]
        BY <3>1, <3>3
      <4> QED BY <4>1 DEF Listed, Disjoint
    <3>4. CASE j # i /\ j # l /\ k \in {i, l}
      BY <3>1, <3>4
    <3>5. CASE k # i /\ k # l /\ j \in {i, l}
      BY <3>1, <3>5
    <3>6. CASE j \in {i, l} /\ k \in {i, l}
      BY <3>2, <3>6
    <3> QED BY <3>3, <3>4, <3>5, <3>6
  <2>8. \A b : Follows(bs, b) => Follows(ts, b)
    <3> SUFFICES ASSUME NEW b, NEW j \in Filled(bs), End(bs[j]) = b PROVE Follows(ts, b)
      BY DEF Follows
    <3>1. CASE j = i
      BY <1>7, <2>2, <2>3, <3>1 DEF Follows
    <3>2. CASE j # i
      BY <2>2, <2>3, <3>2 DEF Follows
    <3> QED BY <3>1, <3>2
  <2>9. Gapless(ts, next)
    <3>1. next = HeapBase \/ Follows(ts, next)
      BY <2>8 DEF Listed, Gapless
    <3>2. ASSUME NEW j \in Filled(ts)
          PROVE  ts[j].base = HeapBase \/ Follows(ts, ts[j].base)
      <4>1. CASE j = l
        <5>1. End(ts[i]) = ts[l].base /\ i \in Filled(ts)
          BY <1>5, <1>7, <2>2, <2>3
        <5> QED BY <4>1, <5>1 DEF Follows
      <4>2. CASE j # l
        <5>1. j \in Filled(bs) /\ ts[j].base = bs[j].base
          BY <1>5, <2>2, <2>3, <4>2
        <5> QED BY <2>8, <5>1 DEF Listed, Gapless
      <4> QED BY <4>1, <4>2
    <3> QED BY <3>1, <3>2 DEF Gapless
  <2>10. \A j \in DOMAIN ts : ts[j].used => ts[j].len > 0
    <3> SUFFICES ASSUME NEW j \in DOMAIN ts, ts[j].used PROVE ts[j].len > 0
      OBVIOUS
    <3>1. CASE j = i
      BY <1>5, <2>2, <3>1
    <3>2. CASE j = l
      BY <1>7, <2>2, <3>2
    <3>3. CASE j # i /\ j # l
      BY <2>2, <3>3 DEF Listed
    <3> QED BY <3>1, <3>2, <3>3
  <2>11. UsedOf(ts) = UsedOf(bs) \union {[base |-> bs[i].base, len |-> n]}
    BY <1>1, <1>5, <1>7, <2>2 DEF UsedOf
  <2> QED BY <1>10, <1>12, <1>13, <2>4, <2>7, <2>9, <2>10, <2>11 DEF Listed, ts
<1> QED BY <1>14, <1>15

(* The heap grows: the entry added is above all others.                    *)
LEMMA GrowKeeps ==
  ASSUME NEW bs, NEW next, Listed(bs, next), NEW n \in Nat \ {0}, next + n <= HeapTop,
         NEW ts, ts = Append(bs, [base |-> next, len |-> n, used |-> TRUE])
  PROVE  /\ Listed(ts, next + n)
         /\ UsedOf(ts) = UsedOf(bs) \union {[base |-> next, len |-> n]}
<1> DEFINE t == [base |-> next, len |-> n, used |-> TRUE]
           l == Len(bs) + 1
<1>1. /\ next \in Nat /\ HeapBase <= next /\ next <= HeapTop /\ HeapBase \in Nat /\ HeapTop \in Nat
      /\ Len(bs) \in Nat /\ bs \in Seq(Entry) /\ next + n \in HeapBase .. HeapTop
  BY HeapAssumption, SMT DEF Listed
<1>2. t \in Entry
  BY <1>1, SMT DEF Entry
<1>3. End(t) = next + n /\ t.base = next /\ t.len = n /\ t.used
  BY DEF End
<1>4. ts \in Seq(Entry)
  BY <1>1, <1>2
<1>5. DOMAIN ts = DOMAIN bs \union {l} /\ l \notin DOMAIN bs /\ ts[l] = t /\ \A j \in DOMAIN bs : ts[j] = bs[j]
  <2>1. DOMAIN bs = 1 .. Len(bs) /\ DOMAIN ts = 1 .. l /\ ts[l] = t /\ \A j \in 1 .. Len(bs) : ts[j] = bs[j]
    BY <1>1
  <2>2. 1 .. l = (1 .. Len(bs)) \union {l} /\ l \notin 1 .. Len(bs)
    BY <1>1, SMT
  <2> QED BY <2>1, <2>2
<1> HIDE DEF t, l
<1>6. Filled(ts) = Filled(bs) \union {l} /\ Filled(bs) \subseteq DOMAIN bs /\ l \notin Filled(bs)
  BY <1>3, <1>5 DEF Filled
<1>7. \A j \in DOMAIN bs : bs[j].base \in Nat /\ End(bs[j]) \in Nat /\ End(bs[j]) <= next
  BY EntryFacts
<1>8. InHeap(ts, next + n)
  <2> SUFFICES ASSUME NEW j \in DOMAIN ts PROVE End(ts[j]) <= next + n
    BY DEF InHeap
  <2>1. CASE j = l
    <3>1. End(ts[j]) = next + n
      BY <1>3, <1>5, <2>1
    <3> QED BY <1>1, <3>1, SMT
  <2>2. CASE j # l
    <3>1. ts[j] = bs[j] /\ End(bs[j]) \in Nat /\ End(bs[j]) <= next
      BY <1>5, <1>7, <2>2
    <3> QED BY <1>1, <3>1, SMT
  <2> QED BY <2>1, <2>2
<1>9. Disjoint(ts)
  <2> SUFFICES ASSUME NEW j \in Filled(ts), NEW k \in Filled(ts), j # k
               PROVE  End(ts[j]) <= ts[k].base \/ End(ts[k]) <= ts[j].base
    BY DEF Disjoint
  <2>1. CASE j # l /\ k # l
    BY <1>5, <1>6, <2>1 DEF Listed, Disjoint
  <2>2. CASE j = l /\ k # l
    BY <1>3, <1>5, <1>6, <1>7, <2>2
  <2>3. CASE j # l /\ k = l
    BY <1>3, <1>5, <1>6, <1>7, <2>3
  <2> QED BY <2>1, <2>2, <2>3
<1>10. Gapless(ts, next + n)
  <2>1. \A b : Follows(bs, b) => Follows(ts, b)
    BY <1>5, <1>6 DEF Follows
  <2>2. Follows(ts, next + n)
    BY <1>3, <1>5, <1>6 DEF Follows
  <2>3. \A j \in Filled(ts) : ts[j].base = HeapBase \/ Follows(ts, ts[j].base)
    <3> SUFFICES ASSUME NEW j \in Filled(ts) PROVE ts[j].base = HeapBase \/ Follows(ts, ts[j].base)
      OBVIOUS
    <3>1. CASE j = l
      <4>1. next = HeapBase \/ Follows(bs, next)
        BY DEF Listed, Gapless
      <4> QED BY <1>3, <1>5, <2>1, <3>1, <4>1
    <3>2. CASE j # l
      <4>1. j \in Filled(bs) /\ ts[j] = bs[j]
        BY <1>5, <1>6, <3>2
      <4>2. bs[j].base = HeapBase \/ Follows(bs, bs[j].base)
        BY <4>1 DEF Listed, Gapless
      <4> QED BY <2>1, <4>1, <4>2
    <3> QED BY <3>1, <3>2
  <2> QED BY <2>2, <2>3 DEF Gapless
<1>11. \A j \in DOMAIN ts : ts[j].used => ts[j].len > 0
  BY <1>3, <1>5 DEF Listed
<1>12. UsedOf(ts) = UsedOf(bs) \union {[base |-> next, len |-> n]}
  BY <1>3, <1>5 DEF UsedOf
<1> QED BY <1>1, <1>4, <1>8, <1>9, <1>10, <1>11, <1>12 DEF Listed

(* Marking an entry free changes no extent.                                *)
LEMMA FreeingKeeps ==
  ASSUME NEW bs, NEW next, Listed(bs, next), NEW f \in DOMAIN bs,
         NEW cs, cs = [bs EXCEPT ![f].used = FALSE]
  PROVE  /\ Listed(cs, next) /\ DOMAIN cs = DOMAIN bs
         /\ \A i \in DOMAIN bs : /\ cs[i].base = bs[i].base /\ cs[i].len = bs[i].len
                                 /\ cs[i].used <=> bs[i].used /\ i # f
<1>1. cs \in Seq(Entry) /\ DOMAIN cs = DOMAIN bs
  <2>1. [bs[f] EXCEPT !.used = FALSE] \in Entry
    <3> DEFINE e == bs[f]
               u == FALSE
    <3>1. e \in Entry /\ u \in BOOLEAN /\ u = FALSE
      BY DEF Listed
    <3> HIDE DEF e, u
    <3>2. [e EXCEPT !.used = u] = [base |-> e.base, len |-> e.len, used |-> u]
      BY <3>1 DEF Entry
    <3>3. [e EXCEPT !.used = u] \in Entry
      BY <3>1, <3>2 DEF Entry
    <3> QED BY <3>1, <3>3, Zenon DEF e
  <2>2. cs = [bs EXCEPT ![f] = [bs[f] EXCEPT !.used = FALSE]]
    OBVIOUS
  <2> QED BY <2>1, <2>2 DEF Listed
<1>2. ASSUME NEW i \in DOMAIN bs
      PROVE  /\ cs[i].base = bs[i].base /\ cs[i].len = bs[i].len
             /\ cs[i].used <=> bs[i].used /\ i # f
  <2>1. bs[i] \in Entry
    BY DEF Listed
  <2> QED BY <2>1 DEF Listed, Entry
<1>3. \A i \in DOMAIN bs : End(cs[i]) = End(bs[i])
  BY <1>2 DEF End
<1>4. Filled(cs) = Filled(bs) /\ Filled(bs) \subseteq DOMAIN bs
  BY <1>1, <1>2 DEF Filled
<1>5. InHeap(cs, next) /\ Disjoint(cs)
  BY <1>1, <1>2, <1>3, <1>4 DEF Listed, InHeap, Disjoint
<1>6. Gapless(cs, next)
  <2>1. \A b : Follows(bs, b) => Follows(cs, b)
    BY <1>3, <1>4 DEF Follows
  <2> QED BY <1>2, <1>4, <2>1 DEF Listed, Gapless
<1>7. \A i \in DOMAIN cs : cs[i].used => cs[i].len > 0
  BY <1>1, <1>2 DEF Listed
<1> QED BY <1>1, <1>2, <1>5, <1>6, <1>7 DEF Listed

(* The run of free blocks above entry f ends where an entry ends, and      *)
(* everything in it is free.                                               *)
LEMMA RunFacts ==
  ASSUME NEW bs, NEW next, Listed(bs, next), NEW f \in Filled(bs)
  PROVE  /\ RunEnd(bs, f) \in Nat /\ End(bs[f]) <= RunEnd(bs, f) /\ RunEnd(bs, f) <= next
         /\ \A j \in Filled(bs) :
              bs[j].base < RunEnd(bs, f) => End(bs[j]) <= RunEnd(bs, f)
         /\ \A j \in Filled(bs) :
              End(bs[f]) <= bs[j].base /\ bs[j].base < RunEnd(bs, f) => ~bs[j].used
<1> DEFINE ends == {e \in {End(bs[i]) : i \in Filled(bs)} : e >= End(bs[f]) /\ FreeAt(bs, e) = {}}
           r    == RunEnd(bs, f)
<1>1. Filled(bs) \subseteq DOMAIN bs
  BY DEF Filled
<1>2. \A i \in Filled(bs) : /\ End(bs[i]) \in Nat /\ bs[i].base \in Nat /\ End(bs[i]) <= next
                            /\ bs[i].base < End(bs[i]) /\ HeapBase <= bs[i].base
  <2> SUFFICES ASSUME NEW i \in Filled(bs)
               PROVE  /\ End(bs[i]) \in Nat /\ bs[i].base \in Nat /\ End(bs[i]) <= next
                      /\ bs[i].base < End(bs[i]) /\ HeapBase <= bs[i].base
    OBVIOUS
  <2>1. i \in DOMAIN bs /\ bs[i].len > 0
    BY DEF Filled
  <2>2. /\ End(bs[i]) \in Nat /\ bs[i].base \in Nat /\ End(bs[i]) <= next
        /\ HeapBase <= bs[i].base /\ bs[i].len \in Nat
    BY <2>1, EntryFacts
  <2> QED BY <2>1, <2>2, SMT DEF End
<1>3. ends \subseteq Nat
  BY <1>2
<1>4. next \in ends
  <2>1. next \in Nat /\ HeapBase \in Nat
    BY HeapAssumption, SMT DEF Listed
  <2>2. next # HeapBase
    BY <1>2, <2>1, SMT
  <2>3. PICK j \in Filled(bs) : End(bs[j]) = next
    BY <2>2 DEF Listed, Gapless, Follows
  <2>4. FreeAt(bs, next) = {}
    <3> SUFFICES ASSUME NEW i \in FreeAt(bs, next) PROVE FALSE
      OBVIOUS
    <3>1. i \in Filled(bs) /\ bs[i].base = next
      BY DEF FreeAt
    <3> QED BY <1>2, <2>1, <3>1, SMT
  <2>5. next >= End(bs[f])
    BY <1>2, <2>1, SMT
  <2> QED BY <2>3, <2>4, <2>5
<1>5. r \in ends /\ \A e \in ends : r <= e
  <2>1. r = Least(ends)
    BY DEF RunEnd
  <2> HIDE DEF ends, r
  <2> QED BY <1>3, <1>4, <2>1, LeastIsLeast
<1>6. r \in Nat /\ End(bs[f]) <= r /\ r <= next
  BY <1>2, <1>3, <1>4, <1>5, SMT
<1>7. PICK m \in Filled(bs) : End(bs[m]) = r
  BY <1>5
<1> HIDE DEF r
<1>8. \A j \in Filled(bs) : bs[j].base < r => End(bs[j]) <= r
  <2> SUFFICES ASSUME NEW j \in Filled(bs), bs[j].base < r, j # m PROVE End(bs[j]) <= r
    BY <1>6, <1>7
  <2>1. End(bs[j]) <= bs[m].base \/ End(bs[m]) <= bs[j].base
    BY DEF Listed, Disjoint
  <2> QED BY <1>2, <1>6, <1>7, <2>1, SMT
<1>9. \A j \in Filled(bs) : End(bs[f]) <= bs[j].base /\ bs[j].base < r => ~bs[j].used
  <2> SUFFICES ASSUME NEW j \in Filled(bs), End(bs[f]) <= bs[j].base, bs[j].base < r, bs[j].used
               PROVE  FALSE
    OBVIOUS
  <2>1. bs[j].base # HeapBase
    BY <1>2, HeapAssumption, SMT
  <2>2. PICK k \in Filled(bs) : End(bs[k]) = bs[j].base
    BY <2>1 DEF Listed, Gapless, Follows
  <2>3. FreeAt(bs, bs[j].base) = {}
    <3> SUFFICES ASSUME NEW i \in FreeAt(bs, bs[j].base) PROVE FALSE
      OBVIOUS
    <3>1. i \in Filled(bs) /\ bs[i].base = bs[j].base /\ ~bs[i].used
      BY DEF FreeAt
    <3>2. i = j
      BY <3>1, OneEntryAt
    <3> QED BY <3>1, <3>2
  <2>4. bs[j].base >= End(bs[f])
    BY <1>2, SMT
  <2>5. bs[j].base \in ends
    BY <2>2, <2>3, <2>4
  <2>6. r <= bs[j].base
    BY <1>5, <2>5
  <2> QED BY <1>2, <1>6, <2>6, SMT
<1> QED BY <1>6, <1>8, <1>9 DEF r

(* The loop of free_mem: what f absorbs is accounted for by f alone.       *)
LEMMA AbsorbKeeps ==
  ASSUME NEW bs, NEW next, Listed(bs, next), NEW f \in Filled(bs), ~bs[f].used
  PROVE  Listed(Absorb(bs, f), next) /\ UsedOf(Absorb(bs, f)) = UsedOf(bs)
<1> DEFINE as == Absorb(bs, f)
           r  == RunEnd(bs, f)
           e  == End(bs[f])
           Inside(i) == i # f /\ ~bs[i].used /\ e <= bs[i].base /\ bs[i].base < r
<1>1. r \in Nat /\ e <= r /\ r <= next /\ f \in DOMAIN bs /\ bs[f].len > 0
  BY RunFacts DEF Filled
<1>2. /\ \A j \in Filled(bs) : bs[j].base < r => End(bs[j]) <= r
      /\ \A j \in Filled(bs) : e <= bs[j].base /\ bs[j].base < r => ~bs[j].used
  BY RunFacts
<1>3. \A i \in DOMAIN bs : /\ bs[i] \in Entry /\ bs[i].base \in Nat /\ bs[i].len \in Nat
                           /\ End(bs[i]) \in Nat /\ End(bs[i]) <= next
                           /\ bs[i].base <= End(bs[i]) /\ End(bs[i]) = bs[i].base + bs[i].len
                           /\ HeapBase <= bs[i].base
  BY EntryFacts DEF End
<1>4. /\ next \in Nat /\ HeapBase \in Nat /\ HeapTop \in Nat /\ next <= HeapTop
      /\ e \in Nat /\ bs[f].base < e /\ HeapBase <= bs[f].base
  BY <1>1, <1>3, HeapAssumption, EntryFacts, SMT
<1>5. /\ as = [i \in DOMAIN bs |->
                 CASE i = f -> [bs[f] EXCEPT !.len = r - bs[f].base]
                   [] Inside(i) -> [bs[i] EXCEPT !.len = 0]
                   [] OTHER -> bs[i]]
  BY DEF Absorb
<1>6. as[f] = [bs[f] EXCEPT !.len = r - bs[f].base]
  BY <1>1, <1>5
<1>7. \A i \in DOMAIN bs : Inside(i) => as[i] = [bs[i] EXCEPT !.len = 0]
  BY <1>5
<1>8. \A i \in DOMAIN bs : i # f /\ ~Inside(i) => as[i] = bs[i]
  BY <1>5
<1>9. DOMAIN as = DOMAIN bs
  BY <1>5
<1> HIDE DEF as, r, e
<1>10. as[f] \in Entry /\ as[f].base = bs[f].base /\ as[f].len = r - bs[f].base /\ ~as[f].used /\ End(as[f]) = r
  <2>1. r - bs[f].base \in 0 .. HeapTop /\ bs[f].base + (r - bs[f].base) = r
    BY <1>1, <1>3, <1>4, SMT
  <2>2. bs[f] \in Entry
    BY <1>1, <1>3
  <2> DEFINE d == r - bs[f].base
  <2>3. as[f] = [bs[f] EXCEPT !.len = d]
    BY <1>6
  <2> HIDE DEF d
  <2>4. as[f].base = bs[f].base /\ as[f].len = d /\ as[f].used = bs[f].used
    BY <2>2, <2>3 DEF Entry
  <2>5. as[f] \in Entry
    <3>1. d \in 0 .. HeapTop
      BY <2>1 DEF d
    <3> QED BY <2>2, <2>3, <3>1 DEF Entry
  <2> QED BY <2>1, <2>4, <2>5 DEF End, d
<1>11. \A i \in DOMAIN bs : Inside(i) => as[i] \in Entry /\ as[i].base = bs[i].base /\ as[i].len = 0 /\ ~as[i].used
  <2> SUFFICES ASSUME NEW i \in DOMAIN bs, Inside(i)
               PROVE  as[i] \in Entry /\ as[i].base = bs[i].base /\ as[i].len = 0 /\ ~as[i].used
    OBVIOUS
  <2>1. as[i] = [bs[i] EXCEPT !.len = 0] /\ bs[i] \in Entry /\ ~bs[i].used
    BY <1>3, <1>7
  <2>2. 0 \in 0 .. HeapTop
    BY <1>4, SMT
  <2> HIDE DEF Inside
  <2> QED BY <2>1, <2>2 DEF Entry
<1>12. as \in Seq(Entry)
  <2>1. \A i \in DOMAIN bs : as[i] \in Entry
    BY <1>3, <1>8, <1>10, <1>11
  <2>2. DOMAIN bs = 1 .. Len(bs) /\ Len(bs) \in Nat
    BY DEF Listed
  <2>3. as \in [1 .. Len(bs) -> Entry]
    BY <1>5, <2>1, <2>2 DEF as, Absorb
  <2> QED BY <2>2, <2>3, SeqDef
<1>13. f \in Filled(as)
  <2>1. r - bs[f].base > 0
    BY <1>1, <1>3, <1>4, SMT
  <2>2. f \in DOMAIN as /\ as[f].len > 0
    BY <1>1, <1>9, <1>10, <2>1
  <2> QED BY <2>2 DEF Filled
<1>14. \A i \in DOMAIN bs \ {f} : i \in Filled(as) <=> i \in Filled(bs) /\ ~Inside(i)
  <2> SUFFICES ASSUME NEW i \in DOMAIN bs, i # f
               PROVE  i \in Filled(as) <=> i \in Filled(bs) /\ ~Inside(i)
    OBVIOUS
  <2>1. CASE Inside(i)
    <3>1. as[i].len = 0
      BY <1>11, <2>1
    <3>2. i \notin Filled(as)
      <4>1. ~(as[i].len > 0)
        BY <3>1
      <4> HIDE DEF Inside
      <4> QED BY <4>1 DEF Filled
    <3> QED BY <2>1, <3>2
  <2>2. CASE ~Inside(i)
    BY <1>8, <1>9, <2>2 DEF Filled
  <2> QED BY <2>1, <2>2
<1>15. \A i \in Filled(as) \ {f} :
         /\ i \in Filled(bs) /\ as[i] = bs[i]
         /\ End(bs[i]) <= bs[f].base \/ r <= bs[i].base
  <2> SUFFICES ASSUME NEW i \in Filled(as), i # f
               PROVE  /\ i \in Filled(bs) /\ as[i] = bs[i]
                      /\ End(bs[i]) <= bs[f].base \/ r <= bs[i].base
    OBVIOUS
  <2>1. i \in DOMAIN bs
    BY <1>9 DEF Filled
  <2>2. i \in Filled(bs) /\ ~Inside(i) /\ as[i] = bs[i]
    BY <1>8, <1>14, <2>1
  <2>3. End(bs[i]) <= bs[f].base \/ e <= bs[i].base
    BY <2>2 DEF Listed, Disjoint, e
  <2>4. e <= bs[i].base => r <= bs[i].base
    <3>1. ~(e <= bs[i].base /\ bs[i].base < r)
      BY <1>2, <2>2
    <3> QED BY <1>1, <1>3, <2>1, <3>1, SMT
  <2> QED BY <2>2, <2>3, <2>4
<1>16. InHeap(as, next)
  <2> SUFFICES ASSUME NEW i \in DOMAIN bs PROVE End(as[i]) <= next
    BY <1>9 DEF InHeap
  <2>1. CASE i = f
    BY <1>1, <1>10, <2>1
  <2>2. CASE i # f /\ Inside(i)
    <3>1. End(as[i]) = bs[i].base + 0
      BY <1>11, <2>2 DEF End
    <3> QED BY <1>3, <1>4, <3>1, SMT
  <2>3. CASE i # f /\ ~Inside(i)
    BY <1>3, <1>8, <2>3
  <2> QED BY <2>1, <2>2, <2>3
<1>17. Disjoint(as)
  <2> SUFFICES ASSUME NEW i \in Filled(as), NEW j \in Filled(as), i # j
               PROVE  End(as[i]) <= as[j].base \/ End(as[j]) <= as[i].base
    BY DEF Disjoint
  <2>1. CASE i # f /\ j # f
    BY <1>15, <2>1 DEF Listed, Disjoint
  <2>2. CASE i = f
    BY <1>10, <1>15, <2>2
  <2>3. CASE j = f
    BY <1>10, <1>15, <2>3
  <2> QED BY <2>1, <2>2, <2>3
<1>18. \A k \in Filled(bs) : \A b \in Nat :
         End(bs[k]) = b /\ (b <= bs[f].base \/ r <= b) => Follows(as, b)
  <2> SUFFICES ASSUME NEW k \in Filled(bs), NEW b \in Nat, End(bs[k]) = b,
                      b <= bs[f].base \/ r <= b
               PROVE  Follows(as, b)
    OBVIOUS
  <2>1. k \in DOMAIN bs /\ bs[k].len > 0
    BY DEF Filled
  <2>2. /\ bs[k].base \in Nat /\ bs[k].base < b /\ e \in Nat /\ r \in Nat /\ e <= r
        /\ bs[f].base \in Nat /\ bs[f].base < e
    BY <1>1, <1>3, <1>4, <2>1, SMT
  <2>3. CASE k = f
    <3>1. b = r
      BY <2>2, <2>3, SMT DEF e
    <3> QED BY <1>10, <1>13, <3>1 DEF Follows
  <2>4. CASE k # f /\ Inside(k)
    <3>1. End(bs[k]) <= r /\ e <= bs[k].base
      BY <1>2, <2>4
    <3>2. b = r
      BY <2>2, <3>1, SMT
    <3> QED BY <1>10, <1>13, <3>2 DEF Follows
  <2>5. CASE k # f /\ ~Inside(k)
    <3>1. k \in Filled(as) /\ as[k] = bs[k]
      BY <1>8, <1>14, <2>1, <2>5
    <3> QED BY <3>1 DEF Follows
  <2> QED BY <2>3, <2>4, <2>5
<1>19. Gapless(as, next)
  <2>1. ASSUME NEW i \in Filled(as) PROVE as[i].base = HeapBase \/ Follows(as, as[i].base)
    <3>1. i \in Filled(bs) /\ as[i].base = bs[i].base /\ bs[i].base \in Nat
          /\ (bs[i].base <= bs[f].base \/ r <= bs[i].base)
      <4>1. CASE i = f
        <5>1. bs[f].base \in Nat
          BY <1>1, <1>3
        <5>2. bs[f].base <= bs[f].base
          BY <5>1
        <5> QED BY <1>10, <4>1, <5>1, <5>2
      <4>2. CASE i # f
        <5>1. i \in Filled(bs) /\ as[i] = bs[i] /\ i \in DOMAIN bs
              /\ (End(bs[i]) <= bs[f].base \/ r <= bs[i].base)
          BY <1>15, <4>2 DEF Filled
        <5>2. bs[i].base \in Nat /\ bs[f].base \in Nat /\ End(bs[i]) \in Nat /\ bs[i].base <= End(bs[i])
          BY <1>1, <1>3, <5>1
        <5>3. End(bs[i]) <= bs[f].base => bs[i].base <= bs[f].base
          BY <5>2, SMT
        <5> QED BY <5>1, <5>2, <5>3
      <4> QED BY <4>1, <4>2
    <3>2. bs[i].base = HeapBase \/ Follows(bs, bs[i].base)
      BY <3>1 DEF Listed, Gapless
    <3> QED BY <1>18, <3>1, <3>2 DEF Follows
  <2>2. next = HeapBase \/ Follows(as, next)
    <3>1. next = HeapBase \/ Follows(bs, next)
      BY DEF Listed, Gapless
    <3> QED BY <1>1, <1>4, <1>18, <3>1 DEF Follows
  <2> QED BY <2>1, <2>2 DEF Gapless
<1>20. \A i \in DOMAIN bs : (as[i].used <=> bs[i].used) /\ (bs[i].used => as[i] = bs[i])
  BY <1>8, <1>10, <1>11
<1>21. \A i \in DOMAIN as : as[i].used => as[i].len > 0
  BY <1>9, <1>20 DEF Listed
<1>22. UsedOf(as) = UsedOf(bs)
  BY <1>9, <1>20 DEF UsedOf
<1>23. Listed(as, next)
  BY <1>12, <1>16, <1>17, <1>19, <1>21 DEF Listed
<1> QED BY <1>22, <1>23 DEF as

HeapInv == Listed(blocks, heapNext)

(* A range that shares no byte with the granted ones can be granted.       *)
LEMMA GrantIsPromised ==
  ASSUME HeapInv, NEW b \in Nat, NEW n \in Nat \ {0}, HeapBase <= b, b + n <= HeapTop,
         \A j \in DOMAIN blocks : blocks[j].used => End(blocks[j]) <= b \/ b + n <= blocks[j].base,
         UsedRanges' = UsedRanges \union {[base |-> b, len |-> n]}
  PROVE  [Promise!Next]_UsedRanges
<1> DEFINE g == [base |-> b, len |-> n]
<1>1. g \in Promise!Ranges
  <2>1. b \in HeapBase .. HeapTop /\ n \in 1 .. HeapTop
    BY HeapAssumption, SMT
  <2> QED BY <2>1 DEF Promise!Ranges
<1>2. Promise!Within(g)
  BY DEF Promise!Within
<1>3. \A h \in UsedRanges : Promise!Apart(g, h)
  <2> SUFFICES ASSUME NEW j \in DOMAIN blocks, blocks[j].used
               PROVE  Promise!Apart(g, [base |-> blocks[j].base, len |-> blocks[j].len])
    BY DEF UsedRanges
  <2> QED BY DEF Promise!Apart, End
<1>4. Promise!Grant(g)
  BY <1>2, <1>3 DEF Promise!Grant
<1> QED BY <1>1, <1>4 DEF Promise!Next

(* What lies apart from every used entry starts where none does.           *)
LEMMA BaseIsNew ==
  ASSUME HeapInv, NEW b \in Nat, NEW n \in Nat \ {0},
         \A j \in DOMAIN blocks : blocks[j].used => End(blocks[j]) <= b \/ b + n <= blocks[j].base
  PROVE  \A g \in UsedRanges : g.base # b
<1> SUFFICES ASSUME NEW j \in DOMAIN blocks, blocks[j].used, blocks[j].base = b PROVE FALSE
  BY DEF UsedRanges
<1>1. blocks[j].len > 0 /\ blocks[j].len \in Nat /\ blocks[j].base \in Nat
  BY EntryFacts DEF HeapInv, Listed
<1>2. End(blocks[j]) <= b \/ b + n <= blocks[j].base
  OBVIOUS
<1> QED BY <1>1, <1>2, SMT DEF End

(* alloc_mem, whoever calls it, keeps the list and the promise, and starts *)
(* its block where no other does.                                          *)
LEMMA AllocStep ==
  ASSUME HeapInv, NEW len \in Nat, NEW base, AllocMem(len, base)
  PROVE  /\ HeapInv' /\ [Promise!Next]_UsedRanges
         /\ base \in Nat /\ HeapBase <= base
         /\ UsedRanges' = UsedRanges \union {[base |-> base, len |-> Rounded(len)]}
         /\ \A g \in UsedRanges : g.base # base
<1> DEFINE n    == Rounded(len)
           fits == Fitting(blocks, n)
<1>1. n \in Nat \ {0}
  BY RoundedPositive
<1>2. heapNext \in Nat /\ HeapBase <= heapNext /\ heapNext <= HeapTop /\ HeapTop \in Nat /\ HeapBase \in Nat
  BY HeapAssumption, SMT DEF HeapInv, Listed
<1>3. CASE /\ fits # {} /\ blocks' = Take(blocks, Least(fits), n) /\ heapNext' = heapNext
           /\ base = blocks[Least(fits)].base
  <2> DEFINE i == Least(fits)
  <2>1. fits \subseteq Nat
    BY DEF Fitting, HeapInv, Listed
  <2>2. i \in fits
    <3> HIDE DEF fits
    <3> QED BY <1>3, <2>1, LeastIsLeast
  <2>3. i \in DOMAIN blocks /\ i \in Fitting(blocks, n)
    BY <2>2 DEF Fitting
  <2> HIDE DEF i, n
  <2>4. /\ Listed(Take(blocks, i, n), heapNext)
        /\ UsedOf(Take(blocks, i, n)) = UsedOf(blocks) \union {[base |-> blocks[i].base, len |-> n]}
        /\ blocks[i].base + n <= heapNext
        /\ \A j \in DOMAIN blocks : blocks[j].used => \/ End(blocks[j]) <= blocks[i].base
                                                      \/ blocks[i].base + n <= blocks[j].base
    BY <1>1, <2>3, TakeKeeps DEF HeapInv
  <2>5. blocks' = Take(blocks, i, n)
    BY <1>3 DEF i, n
  <2>6. HeapInv'
    BY <1>3, <2>4, <2>5 DEF HeapInv
  <2>7. UsedRanges' = UsedRanges \union {[base |-> blocks[i].base, len |-> n]}
    BY <2>4, <2>5 DEF UsedRanges, UsedOf
  <2>8. blocks[i].base \in Nat /\ HeapBase <= blocks[i].base
    BY <2>3, EntryFacts DEF HeapInv
  <2>9. blocks[i].base + n <= HeapTop
    BY <1>1, <1>2, <2>4, <2>8, SMT
  <2>10. [Promise!Next]_UsedRanges
    BY <1>1, <2>4, <2>7, <2>8, <2>9, GrantIsPromised
  <2>11. \A g \in UsedRanges : g.base # blocks[i].base
    BY <1>1, <2>4, <2>8, BaseIsNew DEF HeapInv
  <2>12. base = blocks[i].base
    BY <1>3 DEF i
  <2> QED BY <2>6, <2>7, <2>8, <2>10, <2>11, <2>12 DEF n
<1>4. CASE /\ Room(heapNext, n) /\ heapNext' = heapNext + n /\ base = heapNext
           /\ blocks' = Append(blocks, [base |-> heapNext, len |-> n, used |-> TRUE])
  <2>1. heapNext + n <= HeapTop
    BY <1>4 DEF Room
  <2> HIDE DEF n
  <2>2. /\ Listed(blocks', heapNext + n)
        /\ UsedOf(blocks') = UsedOf(blocks) \union {[base |-> heapNext, len |-> n]}
    BY <1>1, <1>4, <2>1, GrowKeeps DEF HeapInv
  <2>3. HeapInv'
    BY <1>4, <2>2 DEF HeapInv
  <2>4. UsedRanges' = UsedRanges \union {[base |-> heapNext, len |-> n]}
    BY <2>2 DEF UsedRanges, UsedOf
  <2>5. \A j \in DOMAIN blocks : End(blocks[j]) <= heapNext
    BY DEF HeapInv, Listed, InHeap
  <2>6. [Promise!Next]_UsedRanges
    BY <1>1, <1>2, <2>1, <2>4, <2>5, GrantIsPromised
  <2>7. \A g \in UsedRanges : g.base # heapNext
    BY <1>1, <1>2, <2>5, BaseIsNew DEF HeapInv
  <2> QED BY <1>2, <1>4, <2>3, <2>4, <2>6, <2>7 DEF n
<1> QED BY <1>3, <1>4 DEF AllocMem

(* free_mem keeps the list and takes back the range of the handle.         *)
LEMMA FreeStep ==
  ASSUME HeapInv, NEW handle, FreeBlock(handle)
  PROVE  /\ HeapInv' /\ [Promise!Next]_UsedRanges
         /\ UsedRanges' = {g \in UsedRanges : g.base # handle}
<1> DEFINE fs == UsedAt(blocks, handle)
           f  == Least(fs)
           cs == [blocks EXCEPT ![f].used = FALSE]
<1>1. fs # {} /\ blocks' = Absorb(cs, f) /\ heapNext' = heapNext
  BY DEF FreeBlock
<1>2. f \in fs
  <2>1. fs \subseteq Nat
    BY DEF UsedAt, HeapInv, Listed
  <2> HIDE DEF fs
  <2> QED BY <1>1, <2>1, LeastIsLeast
<1>3. f \in DOMAIN blocks /\ blocks[f].used /\ blocks[f].len > 0
  BY <1>2 DEF UsedAt, HeapInv, Listed
<1> HIDE DEF f
<1>4. /\ Listed(cs, heapNext) /\ DOMAIN cs = DOMAIN blocks
      /\ \A i \in DOMAIN blocks : /\ cs[i].base = blocks[i].base /\ cs[i].len = blocks[i].len
                                  /\ cs[i].used <=> blocks[i].used /\ i # f
  BY <1>3, FreeingKeeps DEF HeapInv
<1> HIDE DEF cs
<1>5. f \in Filled(cs) /\ ~cs[f].used
  BY <1>3, <1>4 DEF Filled
<1>6. Listed(blocks', heapNext) /\ UsedOf(blocks') = UsedOf(cs)
  BY <1>1, <1>4, <1>5, AbsorbKeeps
<1>7. HeapInv'
  BY <1>1, <1>6 DEF HeapInv
<1> DEFINE g == [base |-> blocks[f].base, len |-> blocks[f].len]
<1>8. g \in UsedRanges
  BY <1>3 DEF UsedRanges
<1>9. \A j \in DOMAIN blocks : blocks[j].used /\ j # f => blocks[j].base # blocks[f].base
  <2> SUFFICES ASSUME NEW j \in DOMAIN blocks, blocks[j].used, blocks[j].base = blocks[f].base
               PROVE  j = f
    OBVIOUS
  <2>1. j \in Filled(blocks) /\ f \in Filled(blocks)
    BY <1>3 DEF Filled, HeapInv, Listed
  <2> QED BY <2>1, OneEntryAt DEF HeapInv
<1>10. UsedOf(cs) = UsedOf(blocks) \ {g}
  <2>1. ASSUME NEW x, x \in UsedOf(cs) PROVE x \in UsedOf(blocks) /\ x # g
    <3>1. PICK j \in DOMAIN blocks : cs[j].used /\ x = [base |-> cs[j].base, len |-> cs[j].len]
      BY <1>4, <2>1 DEF UsedOf
    <3>2. blocks[j].used /\ j # f /\ x = [base |-> blocks[j].base, len |-> blocks[j].len]
      BY <1>4, <3>1
    <3>3. x.base = blocks[j].base /\ g.base = blocks[f].base
      BY <3>2
    <3> HIDE DEF g
    <3> QED BY <1>9, <3>2, <3>3 DEF UsedOf
  <2>2. ASSUME NEW x, x \in UsedOf(blocks), x # g PROVE x \in UsedOf(cs)
    <3>1. PICK j \in DOMAIN blocks : blocks[j].used /\ x = [base |-> blocks[j].base, len |-> blocks[j].len]
      BY <2>2 DEF UsedOf
    <3>2. j # f
      BY <2>2, <3>1
    <3> QED BY <1>4, <3>1, <3>2 DEF UsedOf
  <2> QED BY <2>1, <2>2
<1>11. UsedRanges' = UsedRanges \ {g}
  BY <1>6, <1>10 DEF UsedRanges, UsedOf
<1>12. Promise!Next
  <2>1. UsedRanges' # UsedRanges
    BY <1>8, <1>11
  <2>2. Promise!Release(g)
    BY <1>11 DEF Promise!Release
  <2> QED BY <1>8, <2>1, <2>2 DEF Promise!Next
<1>13. {h \in UsedRanges : h.base # handle} = UsedRanges \ {g}
  <2>1. g.base = handle
    BY <1>2 DEF UsedAt
  <2>2. \A h \in UsedRanges : h.base = handle => h = g
    <3> SUFFICES ASSUME NEW j \in DOMAIN blocks, blocks[j].used, blocks[j].base = handle
                 PROVE  [base |-> blocks[j].base, len |-> blocks[j].len] = g
      BY DEF UsedRanges
    <3>1. j = f
      BY <1>9, <2>1
    <3> QED BY <3>1
  <2> QED BY <1>8, <2>1, <2>2
<1> QED BY <1>7, <1>11, <1>12, <1>13

(* Every call keeps the list and is a step of HeapGrants.                  *)
LEMMA HeapStep ==
  ASSUME HeapInv, [HeapNext]_heapVars
  PROVE  HeapInv' /\ [Promise!Next]_UsedRanges
<1>1. CASE HeapNext
  <2>1. ASSUME NEW len \in Lengths, AllocateBlock(len) PROVE HeapInv' /\ [Promise!Next]_UsedRanges
    <3>1. len \in Nat
      BY HeapAssumption, SMT
    <3>2. PICK base : AllocMem(len, base)
      BY <2>1 DEF AllocateBlock
    <3> QED BY <3>1, <3>2, AllocStep
  <2>2. ASSUME NEW handle, FreeBlock(handle) PROVE HeapInv' /\ [Promise!Next]_UsedRanges
    BY <2>2, FreeStep
  <2>3. ASSUME CallbackStack PROVE HeapInv' /\ [Promise!Next]_UsedRanges
    <3>1. StackLen \in Nat
      BY HeapAssumption, SMT
    <3>2. ASSUME NEW base, AllocMem(StackLen, base) PROVE HeapInv' /\ [Promise!Next]_UsedRanges
      BY <3>1, <3>2, AllocStep
    <3>3. ASSUME UNCHANGED <<blocks, heapNext>> PROVE HeapInv' /\ [Promise!Next]_UsedRanges
      BY <3>3 DEF HeapInv, UsedRanges
    <3> QED BY <2>3, <3>2, <3>3 DEF CallbackStack
  <2>4. ASSUME TableFills PROVE HeapInv' /\ [Promise!Next]_UsedRanges
    BY <2>4 DEF TableFills, HeapInv, UsedRanges
  <2> QED BY <1>1, <2>1, <2>2, <2>3, <2>4 DEF HeapNext
<1>2. CASE UNCHANGED heapVars
  BY <1>2 DEF heapVars, HeapInv, UsedRanges
<1> QED BY <1>1, <1>2

(* The empty list is one, and promises nothing yet.                        *)
LEMMA HeapStarts == HeapInit => HeapInv /\ Promise!Init
<1> SUFFICES ASSUME HeapInit PROVE HeapInv /\ Promise!Init
  OBVIOUS
<1>1. blocks = <<>> /\ DOMAIN blocks = {} /\ heapNext = HeapBase /\ blocks \in Seq(Entry)
  BY SMT DEF HeapInit
<1>2. heapNext \in HeapBase .. HeapTop
  BY <1>1, HeapAssumption, SMT
<1>3. HeapInv
  BY <1>1, <1>2 DEF HeapInv, Listed, InHeap, Disjoint, Gapless, Filled
<1>4. UsedRanges = {}
  BY <1>1 DEF UsedRanges
<1> QED BY <1>3, <1>4 DEF Promise!Init

(* The invariant behind the others: blocks_ accounts for every byte below  *)
(* heap_next_ once.                                                        *)
THEOREM HeapListed == HeapSpec => []HeapInv
<1> QED BY HeapStarts, HeapStep, PTL DEF HeapSpec

(* alloc_mem and free_mem neither lose a byte of the heap nor list one     *)
(* twice, through splits, absorptions and entries left with length 0.      *)
THEOREM HeapStaysTiled == HeapSpec => []HeapTiled
<1>1. HeapInv => HeapTiled
  BY DEF HeapInv, Listed, HeapTiled
<1> QED BY <1>1, HeapListed, PTL

(* What alloc_mem hands out and free_mem takes back is what HeapGrants     *)
(* promises: ranges in the heap that share no byte, granted until freed.   *)
THEOREM HeapImplementsGrants == HeapSpec => GrantsNeverOverlap
<1> QED BY HeapStarts, HeapStep, HeapListed, PTL DEF HeapSpec, GrantsNeverOverlap, Promise!Spec

-----------------------------------------------------------------------------
(* Who holds the blocks: OwedHeld relates the ranges in use to the handles *)
(* the client has and to the callback stack.  The heap grows by whole      *)
(* pages, which the figure of 0500h depends on.                            *)

(* A range of R starts at b and serves a request for len bytes there.      *)
Covers(R, b, len) == \E g \in R : g.base = b /\ Serves(g.len, len)

(* A range the client frees, the callback stack, or a stack that was lost. *)
Accounted(g) ==
  \/ g.base \in DOMAIN owed
  \/ g.len = Rounded(StackLen) /\ (g.base = hostStack \/ StacksLost)

OwedHeld ==
  /\ \A b \in DOMAIN owed : Covers(UsedRanges, b, owed[b])
  /\ ~astray /\ hostStack \notin {None, 0} =>
       hostStack \notin DOMAIN owed /\ Covers(UsedRanges, hostStack, StackLen)
  /\ \A g \in UsedRanges : Accounted(g)
  /\ hostStack # None /\ ~cb_ss => tableFull

(* Multiples of PageSize: how % finds one, and what it leaves of a sum.    *)
LEMMA Division ==
  ASSUME NEW P \in Nat \ {0}, NEW k \in Nat, NEW r \in Nat, r < P
  PROVE  (P * k + r) % P = r
<1> DEFINE a == P * k + r
<1>1. a \in Nat /\ a = P * k + r
  BY SMT
<1> HIDE DEF a
<1>2. a % P = r
  BY <1>1, SMTT(30)
<1> QED BY <1>1, <1>2

(* The other way round.                                                    *)
LEMMA Quotient ==
  ASSUME NEW P \in Nat \ {0}, NEW a \in Nat, a % P = 0
  PROVE  \E k \in Nat : a = P * k
<1>1. a = P * (a \div P) /\ a \div P \in Nat
  BY SMTT(30)
<1> QED BY <1>1, Zenon

(* What rounding gives a request, up to the last length of 32 bits.        *)
LEMMA RoundedCovers ==
  ASSUME NEW len \in 0 .. WordLimit - 1
  PROVE  Serves(Rounded(len), len)
<1> DEFINE P == PageSize
           W == WordLimit
           a == len + P - 1
<1>1. P \in Nat \ {0} /\ W \in Nat \ {0} /\ a \in Nat /\ len \in Nat /\ len < W /\ a = len + P - 1
  BY HeapAssumption, SMT
<1>2. Rounded(len) = IF a % W < P THEN P ELSE (a % W) - ((a % W) % P)
  BY DEF Rounded
<1>3. Serves(Rounded(len), len) <=>
        IF len = 0 \/ a >= W THEN Rounded(len) = P ELSE len <= Rounded(len) /\ Rounded(len) < len + P
  BY <1>1 DEF Serves, Wraps
<1>4. P <= W
  <2>1. W % P = 0
    BY PageAssumption
  <2> HIDE DEF P, W
  <2>2. PICK k \in Nat : W = P * k
    BY <1>1, <2>1, Quotient
  <2>3. k # 0
    BY <1>1, <2>2, SMT
  <2> QED BY <1>1, <2>2, <2>3, SMT
<1> HIDE DEF P, W, a
<1>5. CASE a < W
  <2>1. a % W = a
    BY <1>1, <1>5, SMT
  <2>2. a % P \in Int /\ 0 <= a % P /\ a % P < P
    BY <1>1, SMT
  <2>3. Rounded(len) = IF a < P THEN P ELSE a - (a % P)
    BY <1>2, <2>1
  <2>4. ~(a >= W)
    BY <1>1, <1>5, SMT
  <2>5. CASE len = 0
    BY <1>1, <1>3, <2>3, <2>5, SMT
  <2>6. CASE len # 0
    <3>1. len <= Rounded(len) /\ Rounded(len) < len + P
      BY <1>1, <2>2, <2>3, <2>6, SMT
    <3> QED BY <1>3, <2>4, <2>6, <3>1
  <2> QED BY <2>5, <2>6
<1>6. CASE ~(a < W)
  <2> DEFINE r == a - W
  <2>1. r \in Nat /\ r < W /\ r < P /\ a = W * 1 + r /\ a >= W
    BY <1>1, <1>4, <1>6, SMT
  <2> HIDE DEF r
  <2>2. (W * 1 + r) % W = r
    BY <1>1, <2>1, Division
  <2>3. a % W < P
    BY <2>1, <2>2
  <2> QED BY <1>2, <1>3, <2>1, <2>3
<1> QED BY <1>5, <1>6

(* The lengths the client asks for, and that of the callback stack.        *)
LEMMA Requests ==
  /\ \A len \in Lengths : len \in Nat /\ len \in 0 .. WordLimit - 1
  /\ StackLen \in Nat /\ StackLen \in 0 .. WordLimit - 1
BY HeapAssumption, SMT

(* Bases are addresses of the heap.                                        *)
LEMMA UsedBases ==
  ASSUME HeapInv
  PROVE  \A g \in UsedRanges : g.base \in Nat /\ HeapBase <= g.base
<1> SUFFICES ASSUME NEW j \in DOMAIN blocks, blocks[j].used
             PROVE  blocks[j].base \in Nat /\ HeapBase <= blocks[j].base
  BY DEF UsedRanges
<1> QED BY EntryFacts DEF HeapInv

(* A range more in use, at a new base, leaves the others covering.         *)
LEMMA CoversMore ==
  ASSUME NEW R, NEW g
  PROVE  \A b, l : Covers(R, b, l) => Covers(R \union {g}, b, l)
BY Zenon DEF Covers

(* A range less in use, that of base f, leaves the others covering.        *)
LEMMA CoversLess ==
  ASSUME NEW R, NEW f
  PROVE  \A b, l : b # f /\ Covers(R, b, l) => Covers({g \in R : g.base # f}, b, l)
BY Zenon DEF Covers

(* The host's heap starts with nothing held.                               *)
LEMMA HeldInit == HeapInit => OwedHeld
<1> SUFFICES ASSUME HeapInit PROVE OwedHeld
  OBVIOUS
<1>1. blocks = <<>> /\ DOMAIN blocks = {} /\ hostStack = None /\ DOMAIN owed = {}
  BY DEF HeapInit
<1>2. UsedRanges = {}
  BY <1>1 DEF UsedRanges
<1> QED BY <1>1, <1>2 DEF OwedHeld

(* What alloc_mem hands out: a new range, which serves the request.        *)
LEMMA AllocCovers ==
  ASSUME HeapInv, OwedHeld, NEW len \in Nat, len \in 0 .. WordLimit - 1,
         NEW base \in HeapBase .. HeapTop, AllocMem(len, base)
  PROVE  /\ base \in Nat /\ base \notin {None, 0} /\ base \notin DOMAIN owed
         /\ ~astray /\ hostStack \notin {None, 0} => hostStack # base
         /\ Covers(UsedRanges', base, len)
         /\ \A b, l : Covers(UsedRanges, b, l) => Covers(UsedRanges', b, l)
         /\ \A h \in UsedRanges' : (h.base = base /\ h.len = Rounded(len)) \/ h \in UsedRanges
<1> DEFINE n == Rounded(len)
           g == [base |-> base, len |-> n]
<1>1. /\ base \in Nat /\ HeapBase <= base
      /\ UsedRanges' = UsedRanges \union {g}
      /\ \A h \in UsedRanges : h.base # base
  BY AllocStep
<1>2. base \notin {None, 0}
  BY <1>1, HeapAssumption, SMT DEF None
<1>3. \A l : ~Covers(UsedRanges, base, l)
  BY <1>1, Zenon DEF Covers
<1>4. base \notin DOMAIN owed /\ (~astray /\ hostStack \notin {None, 0} => hostStack # base)
  BY <1>3, Zenon DEF OwedHeld
<1>5. Serves(n, len)
  BY RoundedCovers
<1>6. g.base = base /\ g.len = n
  OBVIOUS
<1> HIDE DEF g
<1>7. Covers(UsedRanges', base, len)
  <2> HIDE DEF n
  <2> QED BY <1>1, <1>5, <1>6, Zenon DEF Covers
<1>8. \A b, l : Covers(UsedRanges, b, l) => Covers(UsedRanges', b, l)
  BY <1>1, CoversMore, Zenon
<1>9. \A h \in UsedRanges' : (h.base = base /\ h.len = n) \/ h \in UsedRanges
  BY <1>1, <1>6, Zenon
<1> QED BY <1>1, <1>2, <1>4, <1>7, <1>8, <1>9, Zenon

(* 0501h: the client holds one block more.                                 *)
LEMMA AllocateHeld ==
  ASSUME HeapInv, OwedHeld, NEW len \in Lengths, AllocateBlock(len)
  PROVE  OwedHeld'
<1>1. len \in Nat /\ len \in 0 .. WordLimit - 1
  BY Requests
<1>2. PICK base \in HeapBase .. HeapTop :
        /\ AllocMem(len, base)
        /\ owed' = [b \in DOMAIN owed \union {base} |-> IF b = base THEN len ELSE owed[b]]
        /\ hostStack' = hostStack /\ cb_ss' = cb_ss /\ tableFull' = tableFull /\ astray' = astray
  BY DEF AllocateBlock
<1>3. /\ base \notin DOMAIN owed
      /\ ~astray /\ hostStack \notin {None, 0} => hostStack # base
      /\ Covers(UsedRanges', base, len)
      /\ \A b, l : Covers(UsedRanges, b, l) => Covers(UsedRanges', b, l)
      /\ \A h \in UsedRanges' : h.base = base \/ h \in UsedRanges
  BY <1>1, <1>2, AllocCovers
<1>4. /\ DOMAIN owed' = DOMAIN owed \union {base} /\ owed'[base] = len
      /\ \A b \in DOMAIN owed : owed'[b] = owed[b]
  BY <1>2, <1>3
<1>5. ASSUME NEW b \in DOMAIN owed'
      PROVE  Covers(UsedRanges', b, owed'[b])
  <2>1. CASE b = base
    BY <1>3, <1>4, <2>1, Zenon
  <2>2. CASE b # base
    <3>1. b \in DOMAIN owed /\ owed'[b] = owed[b]
      BY <1>4, <2>2
    <3> QED BY <1>3, <3>1, Zenon DEF OwedHeld
  <2> QED BY <2>1, <2>2
<1>6. ~astray' /\ hostStack' \notin {None, 0} =>
        hostStack' \notin DOMAIN owed' /\ Covers(UsedRanges', hostStack', StackLen)
  BY <1>2, <1>3, <1>4, Zenon DEF OwedHeld
<1>7. \A h \in UsedRanges' : Accounted(h)'
  BY <1>2, <1>3, <1>4, Zenon DEF OwedHeld, Accounted, StacksLost
<1>8. hostStack' # None /\ ~cb_ss' => tableFull'
  BY <1>2, Zenon DEF OwedHeld
<1> QED BY <1>5, <1>6, <1>7, <1>8, Zenon DEF OwedHeld

(* 0502h: the block freed is the one its handle stood for.  A handle that  *)
(* was not the client's may have been the host's stack.                    *)
LEMMA FreeHeld ==
  ASSUME HeapInv, OwedHeld, NEW handle \in HeapBase .. HeapTop, FreeBlock(handle)
  PROVE  OwedHeld'
<1>1. /\ hostStack' = hostStack /\ cb_ss' = cb_ss /\ tableFull' = tableFull
      /\ astray' = (astray \/ handle \notin DOMAIN owed)
      /\ owed' = [b \in DOMAIN owed \ {handle} |-> owed[b]]
  BY Zenon DEF FreeBlock
<1>2. UsedRanges' = {g \in UsedRanges : g.base # handle}
  BY FreeStep
<1>3. \A b, l : b # handle /\ Covers(UsedRanges, b, l) => Covers(UsedRanges', b, l)
  BY <1>2, CoversLess, Zenon
<1>4. DOMAIN owed' = DOMAIN owed \ {handle} /\ \A b \in DOMAIN owed' : owed'[b] = owed[b]
  BY <1>1
<1>5. ASSUME NEW b \in DOMAIN owed'
      PROVE  Covers(UsedRanges', b, owed'[b])
  <2>1. b \in DOMAIN owed /\ b # handle /\ owed'[b] = owed[b]
    BY <1>4
  <2> QED BY <1>3, <2>1, Zenon DEF OwedHeld
<1>6. ASSUME ~astray', hostStack' \notin {None, 0}
      PROVE  hostStack' \notin DOMAIN owed' /\ Covers(UsedRanges', hostStack', StackLen)
  <2>1. ~astray /\ handle \in DOMAIN owed
    BY <1>1, <1>6, Zenon
  <2>2. hostStack \notin DOMAIN owed /\ Covers(UsedRanges, hostStack, StackLen)
    BY <1>1, <1>6, <2>1, Zenon DEF OwedHeld
  <2>3. hostStack # handle
    BY <2>1, <2>2, Zenon
  <2>4. hostStack \notin DOMAIN owed'
    BY <1>4, <2>2
  <2> QED BY <1>1, <1>3, <2>2, <2>3, <2>4, Zenon
<1>7. \A h \in UsedRanges' : Accounted(h)'
  BY <1>1, <1>2, <1>4, Zenon DEF OwedHeld, Accounted, StacksLost
<1>8. hostStack' # None /\ ~cb_ss' => tableFull'
  BY <1>1, Zenon DEF OwedHeld
<1> QED BY <1>5, <1>6, <1>7, <1>8, Zenon DEF OwedHeld

(* A callback that allocates: the host holds one block more, or none.  The *)
(* stack before it, if there was one, is lost: then the table is full.     *)
LEMMA CallbackHeld ==
  ASSUME HeapInv, OwedHeld, CallbackStack
  PROVE  OwedHeld'
<1>1. StackLen \in Nat /\ StackLen \in 0 .. WordLimit - 1
  BY Requests
<1>2. /\ ~cb_ss /\ owed' = owed /\ astray' = astray /\ tableFull' = tableFull
      /\ cb_ss' = ~tableFull
  BY DEF CallbackStack
<1>3. hostStack # None => tableFull
  BY <1>2, Zenon DEF OwedHeld
<1>4. ASSUME hostStack' # None, NEW h \in UsedRanges
      PROVE  Accounted(h)'
  <2>1. CASE tableFull
    <3>1. StacksLost'
      BY <1>2, <1>4, <2>1, Zenon DEF StacksLost
    <3> QED BY <1>2, <3>1, Zenon DEF OwedHeld, Accounted
  <2>2. CASE ~tableFull
    <3>1. hostStack = None /\ ~StacksLost
      BY <1>3, <2>2, Zenon DEF StacksLost
    <3>2. h.base # None
      <4>1. h.base \in Nat
        BY UsedBases
      <4> QED BY <4>1, SMT DEF None
    <3>3. h.base \in DOMAIN owed
      BY <3>1, <3>2, Zenon DEF OwedHeld, Accounted
    <3> QED BY <1>2, <3>3, Zenon DEF Accounted
  <2> QED BY <2>1, <2>2
<1>5. hostStack' # None /\ ~cb_ss' => tableFull'
  BY <1>2, Zenon
<1>6. ASSUME NEW base \in HeapBase .. HeapTop, AllocMem(StackLen, base), hostStack' = base
      PROVE  OwedHeld'
  <2>1. /\ base \notin {None, 0} /\ base \notin DOMAIN owed
        /\ Covers(UsedRanges', base, StackLen)
        /\ \A b, l : Covers(UsedRanges, b, l) => Covers(UsedRanges', b, l)
        /\ \A h \in UsedRanges' : (h.base = base /\ h.len = Rounded(StackLen)) \/ h \in UsedRanges
    BY <1>1, <1>6, AllocCovers
  <2>2. \A b \in DOMAIN owed' : Covers(UsedRanges', b, owed'[b])
    BY <1>2, <2>1, Zenon DEF OwedHeld
  <2>3. hostStack' # None
    BY <1>6, <2>1, Zenon
  <2>4. ASSUME NEW h \in UsedRanges' PROVE Accounted(h)'
    <3>1. CASE h \in UsedRanges
      BY <1>4, <2>3, <3>1, Zenon
    <3>2. CASE h.base = base /\ h.len = Rounded(StackLen)
      BY <1>6, <3>2, Zenon DEF Accounted
    <3> QED BY <2>1, <3>1, <3>2, Zenon
  <2> QED BY <1>2, <1>5, <1>6, <2>1, <2>2, <2>4, Zenon DEF OwedHeld
<1>7. CASE hostStack' = 0 /\ blocks' = blocks
  <2>1. UsedRanges' = UsedRanges
    BY <1>7 DEF UsedRanges
  <2>2. hostStack' # None
    BY <1>7, SMT DEF None
  <2>3. \A b \in DOMAIN owed' : Covers(UsedRanges', b, owed'[b])
    BY <1>2, <2>1, Zenon DEF OwedHeld
  <2>4. \A h \in UsedRanges' : Accounted(h)'
    BY <1>4, <2>1, <2>2, Zenon
  <2> QED BY <1>5, <1>7, <2>3, <2>4, Zenon DEF OwedHeld
<1> QED BY <1>6, <1>7, Zenon DEF CallbackStack

(* Nobody's block changes hands when the table fills, or at a stutter.     *)
LEMMA OthersHeld ==
  ASSUME OwedHeld, TableFills \/ UNCHANGED heapVars
  PROVE  OwedHeld'
<1>1. /\ blocks' = blocks /\ owed' = owed /\ hostStack' = hostStack
      /\ cb_ss' = cb_ss /\ astray' = astray
      /\ (tableFull' /\ ~tableFull) \/ tableFull' = tableFull
  BY Zenon DEF TableFills, heapVars
<1>2. UsedRanges' = UsedRanges
  BY <1>1 DEF UsedRanges
<1>3. StacksLost => StacksLost'
  BY <1>1, Zenon DEF StacksLost
<1>4. \A h \in UsedRanges : Accounted(h) => Accounted(h)'
  BY <1>1, <1>3, Zenon DEF Accounted
<1>5. \A h \in UsedRanges' : Accounted(h)'
  BY <1>2, <1>4, Zenon DEF OwedHeld
<1>6. hostStack' # None /\ ~cb_ss' => tableFull'
  BY <1>1, Zenon DEF OwedHeld
<1>7. ~astray' /\ hostStack' \notin {None, 0} =>
        hostStack' \notin DOMAIN owed' /\ Covers(UsedRanges', hostStack', StackLen)
  BY <1>1, <1>2, Zenon DEF OwedHeld
<1>8. \A b \in DOMAIN owed' : Covers(UsedRanges', b, owed'[b])
  BY <1>1, <1>2, Zenon DEF OwedHeld
<1> QED BY <1>5, <1>6, <1>7, <1>8, Zenon DEF OwedHeld

(* OwedHeld is kept by every step, along with the tiling of the heap.      *)
THEOREM HeldHolds == HeapSpec => []OwedHeld
<1>1. HeapInit => OwedHeld
  BY HeldInit
<1>2. ASSUME HeapInv, OwedHeld, [HeapNext]_heapVars
      PROVE  OwedHeld'
  <2>1. CASE \E len \in Lengths : AllocateBlock(len)
    BY <1>2, <2>1, AllocateHeld
  <2>2. CASE \E handle \in HeapBase .. HeapTop : FreeBlock(handle)
    BY <1>2, <2>2, FreeHeld
  <2>3. CASE CallbackStack
    BY <1>2, <2>3, CallbackHeld
  <2>4. CASE TableFills \/ UNCHANGED heapVars
    BY <1>2, <2>4, OthersHeld
  <2> QED BY <1>2, <2>1, <2>2, <2>3, <2>4 DEF HeapNext
<1>3. HeapSpec => []HeapInv
  BY HeapListed
<1> QED BY <1>1, <1>2, <1>3, PTL DEF HeapSpec

(* A range in use is an entry of the list.                                 *)
LEMMA CoversEntry ==
  ASSUME NEW b, NEW len, Covers(UsedRanges, b, len)
  PROVE  \E i \in UsedAt(blocks, b) : Serves(blocks[i].len, len)
<1>1. PICK g \in UsedRanges : g.base = b /\ Serves(g.len, len)
  BY Zenon DEF Covers
<1>2. PICK i \in {j \in DOMAIN blocks : blocks[j].used} : g = [base |-> blocks[i].base, len |-> blocks[i].len]
  BY DEF UsedRanges
<1>3. g.base = blocks[i].base /\ g.len = blocks[i].len
  BY <1>2
<1>4. i \in UsedAt(blocks, b)
  BY <1>1, <1>3 DEF UsedAt
<1> QED BY <1>1, <1>3, <1>4, Zenon

(* However requests, frees (of handles the client no longer holds, and of  *)
(* the host's stack, too) and callbacks are mixed, every block the client  *)
(* holds is in the list with the length the request is owed: what it asked *)
(* for and less than a page more, but one page for no bytes at all and for *)
(* a request within a page of 2^32, which alloc_mem cuts short so.         *)
THEOREM RequestsCovered == HeapSpec => []GrantsCoverRequests
<1>1. OwedHeld => GrantsCoverRequests
  BY CoversEntry, Zenon DEF OwedHeld, GrantsCoverRequests
<1> QED BY <1>1, HeldHolds, PTL

(* The callback stack is the host's alone for as long as the client frees  *)
(* nothing that it does not hold, also when it is not the first.           *)
THEOREM StackApart == HeapSpec => []HostStackApart
<1>1. \A n \in Nat : Serves(n, StackLen) => n >= StackLen
  BY HeapAssumption, SMT DEF Serves, Wraps
<1>2. HeapInv /\ OwedHeld => HostStackApart
  <2> SUFFICES ASSUME HeapInv, OwedHeld, ~astray, hostStack \notin {None, 0}
               PROVE  /\ hostStack \notin DOMAIN owed
                      /\ \E i \in UsedAt(blocks, hostStack) : blocks[i].len >= StackLen
    BY Zenon DEF HostStackApart
  <2>1. hostStack \notin DOMAIN owed /\ Covers(UsedRanges, hostStack, StackLen)
    BY Zenon DEF OwedHeld
  <2>2. PICK i \in UsedAt(blocks, hostStack) : Serves(blocks[i].len, StackLen)
    BY <2>1, CoversEntry, Zenon
  <2>3. blocks[i].len \in Nat
    <3>1. i \in DOMAIN blocks
      BY <2>2 DEF UsedAt
    <3> QED BY <3>1, EntryFacts DEF HeapInv
  <2>4. blocks[i].len >= StackLen
    BY <1>1, <2>2, <2>3, Zenon
  <2> QED BY <2>1, <2>2, <2>4, Zenon
<1> QED BY <1>2, HeldHolds, HeapListed, PTL

(* Every entry in use has a holder, however often the client frees what it *)
(* no longer holds, until callbacks find the selector table full: from     *)
(* there on one stack more is lost at each, and nothing but such stacks.   *)
THEOREM NoLeaks == HeapSpec => []NothingLeaks
<1>1. OwedHeld => NothingLeaks
  <2> SUFFICES ASSUME OwedHeld, NEW i \in DOMAIN blocks, blocks[i].used
               PROVE  \/ blocks[i].base \in DOMAIN owed
                      \/ /\ blocks[i].len = Rounded(StackLen)
                         /\ blocks[i].base = hostStack \/ StacksLost
    BY DEF NothingLeaks
  <2> DEFINE g == [base |-> blocks[i].base, len |-> blocks[i].len]
  <2>1. g \in UsedRanges /\ g.base = blocks[i].base /\ g.len = blocks[i].len
    BY DEF UsedRanges
  <2> HIDE DEF g
  <2> QED BY <2>1, Zenon DEF OwedHeld, Accounted
<1> QED BY <1>1, HeldHolds, PTL

----------------------------------------------------------------------------
(* Sums of whole pages are whole pages.                                    *)
LEMMA PagesAdd ==
  ASSUME NEW P \in Nat \ {0}, NEW a \in Nat, NEW b \in Nat, a % P = 0, b % P = 0
  PROVE  (a + b) % P = 0
<1>1. PICK j \in Nat : a = P * j
  BY Quotient
<1>2. PICK k \in Nat : b = P * k
  BY Quotient
<1>3. a + b = P * (j + k) + 0 /\ j + k \in Nat
  BY <1>1, <1>2, SMT
<1>4. (P * (j + k) + 0) % P = 0
  BY <1>3, Division, SMT
<1> QED BY <1>3, <1>4

(* So is what is left of one whole number of pages by another.             *)
LEMMA PagesLeft ==
  ASSUME NEW P \in Nat \ {0}, NEW a \in Nat, NEW b \in Nat, a % P = 0, b % P = 0, b <= a
  PROVE  (a - b) % P = 0
<1>1. PICK j \in Nat : a = P * j
  BY Quotient
<1>2. PICK k \in Nat : b = P * k
  BY Quotient
<1>3. k <= j
  BY <1>1, <1>2, SMT
<1>4. a - b = P * (j - k) + 0 /\ j - k \in Nat
  BY <1>1, <1>2, <1>3, SMT
<1>5. (P * (j - k) + 0) % P = 0
  BY <1>4, Division, SMT
<1> QED BY <1>4, <1>5

(* What is above whole pages is cut off.                                   *)
LEMMA CutToPages ==
  ASSUME NEW P \in Nat \ {0}, NEW a \in Nat, NEW r \in Nat, a % P = 0, r < P
  PROVE  (a + r) - ((a + r) % P) = a
<1>1. PICK k \in Nat : a = P * k
  BY Quotient
<1>2. (P * k + r) % P = r
  BY Division
<1>3. (a + r) % P = r
  BY <1>1, <1>2
<1> QED BY <1>3, SMT

(* A block that is cut leaves whole pages.                                 *)
LEMMA CutIsPages ==
  ASSUME NEW P \in Nat \ {0}, NEW a \in Nat
  PROVE  (a - (a % P)) % P = 0
<1> DEFINE k == a \div P
<1>1. k \in Nat /\ a - (a % P) = P * k + 0
  BY SMTT(30)
<1> HIDE DEF k
<1>2. (P * k + 0) % P = 0
  BY <1>1, Division, SMT
<1> QED BY <1>1, <1>2

(* Requests become whole pages.                                            *)
LEMMA RoundedPages ==
  ASSUME NEW len \in Nat
  PROVE  Rounded(len) % PageSize = 0
<1> DEFINE up == (len + PageSize - 1) % WordLimit
<1>1. PageSize \in Nat \ {0} /\ up \in Nat
  <2>1. PageSize \in Nat \ {0} /\ WordLimit \in Nat \ {0} /\ len + PageSize - 1 \in Int
    BY HeapAssumption, SMT
  <2> QED BY <2>1, SMT
<1>2. Rounded(len) = IF up < PageSize THEN PageSize ELSE up - (up % PageSize)
  BY DEF Rounded
<1> HIDE DEF up
<1>3. (up - (up % PageSize)) % PageSize = 0
  BY <1>1, CutIsPages
<1>4. PageSize % PageSize = 0
  BY <1>1, SMT
<1> QED BY <1>2, <1>3, <1>4

Paged == heapNext % PageSize = 0

(* alloc_mem grows the heap by whole pages or not at all.                  *)
LEMMA AllocPaged ==
  ASSUME HeapInv, Paged, NEW len \in Nat, NEW base, AllocMem(len, base)
  PROVE  Paged'
<1>1. heapNext \in Nat /\ PageSize \in Nat \ {0} /\ Rounded(len) \in Nat
  BY HeapAssumption, RoundedPositive, SMT DEF HeapInv, Listed
<1>2. heapNext' = heapNext \/ heapNext' = heapNext + Rounded(len)
  BY DEF AllocMem
<1>3. (heapNext + Rounded(len)) % PageSize = 0
  BY <1>1, RoundedPages, PagesAdd DEF Paged
<1> QED BY <1>2, <1>3 DEF Paged

(* What is left above heap_next_ is whole pages, so rounding up a request  *)
(* for all of it asks for no more than there is.                           *)
LEMMA FigureFits ==
  ASSUME HeapInv, Paged, heapNext < HeapTop
  PROVE  ~Refuses(HeapTop - heapNext)
<1> DEFINE d == HeapTop - heapNext
<1>1. /\ heapNext \in Nat /\ HeapBase <= heapNext /\ HeapBase > 0 /\ HeapTop \in Nat
      /\ PageSize \in Nat \ {0} /\ WordLimit \in Nat /\ HeapTop < WordLimit
      /\ d \in Nat /\ d > 0 /\ d < HeapTop /\ heapNext + d = HeapTop
  BY HeapAssumption, SMT DEF HeapInv, Listed
<1>2. d % PageSize = 0
  <2>1. heapNext % PageSize = 0 /\ HeapTop % PageSize = 0
    BY PageAssumption DEF Paged
  <2>2. heapNext <= HeapTop
    BY <1>1, SMT
  <2>3. (HeapTop - heapNext) % PageSize = 0
    <3> HIDE DEF d
    <3> QED BY <1>1, <2>1, <2>2, PagesLeft
  <2> QED BY <2>3 DEF d
<1>3. HeapTop + PageSize <= WordLimit
  <2>1. PICK j \in Nat : HeapTop = PageSize * j
    BY <1>1, PageAssumption, Quotient
  <2>2. PICK k \in Nat : WordLimit = PageSize * k
    BY <1>1, PageAssumption, Quotient
  <2>3. j < k
    BY <1>1, <2>1, <2>2, SMT
  <2> QED BY <1>1, <2>1, <2>2, <2>3, SMT
<1> HIDE DEF d
<1> DEFINE up == (d + PageSize - 1) % WordLimit
           r  == PageSize - 1
<1>4. up = d + r
  <2> DEFINE a == d + PageSize - 1
  <2>1. a \in Nat /\ a < WordLimit /\ a = d + r
    BY <1>1, <1>3, SMT
  <2> HIDE DEF a
  <2>2. a % WordLimit = a
    BY <1>1, <2>1, SMT
  <2> QED BY <2>1, <2>2 DEF a
<1>5. r \in Nat /\ r < PageSize /\ ~(d + r < PageSize)
  BY <1>1, SMT
<1>6. Rounded(d) = IF up < PageSize THEN PageSize ELSE up - (up % PageSize)
  BY DEF Rounded
<1> HIDE DEF up, r
<1>7. (d + r) - ((d + r) % PageSize) = d
  BY <1>1, <1>2, <1>5, CutToPages
<1>8. Rounded(d) = d
  BY <1>4, <1>5, <1>6, <1>7, Zenon
<1>9. Room(heapNext, Rounded(d))
  BY <1>1, <1>8 DEF Room
<1> QED BY <1>9 DEF Refuses, d

(* The figure 0500h reports as the largest free block can be had, at any   *)
(* point of any run and whatever the page size and the size of the heap.   *)
THEOREM FigureIsTrue == HeapSpec => []FigureCanBeHad
<1>1. HeapInit => Paged
  BY PageAssumption DEF HeapInit, Paged
<1>2. ASSUME HeapInv, Paged, [HeapNext]_heapVars
      PROVE  Paged'
  <2>1. ASSUME NEW len \in Lengths, AllocateBlock(len) PROVE Paged'
    <3>1. len \in Nat
      BY HeapAssumption, SMT
    <3>2. PICK base \in HeapBase .. HeapTop : AllocMem(len, base)
      BY <2>1 DEF AllocateBlock
    <3> QED BY <1>2, <3>1, <3>2, AllocPaged
  <2>2. ASSUME NEW handle, FreeBlock(handle) PROVE Paged'
    BY <1>2, <2>2 DEF FreeBlock, Paged
  <2>3. ASSUME CallbackStack PROVE Paged'
    <3>1. StackLen \in Nat
      BY HeapAssumption, SMT
    <3>2. ASSUME NEW base, AllocMem(StackLen, base) PROVE Paged'
      BY <1>2, <3>1, <3>2, AllocPaged
    <3>3. ASSUME heapNext' = heapNext PROVE Paged'
      BY <1>2, <3>3 DEF Paged
    <3> QED BY <2>3, <3>2, <3>3 DEF CallbackStack
  <2>4. CASE TableFills \/ UNCHANGED heapVars
    BY <1>2, <2>4 DEF TableFills, heapVars, Paged
  <2> QED BY <1>2, <2>1, <2>2, <2>3, <2>4 DEF HeapNext
<1>3. HeapInv /\ Paged => FigureCanBeHad
  BY FigureFits DEF FigureCanBeHad
<1>4. HeapSpec => []HeapInv
  BY HeapListed
<1> QED BY <1>1, <1>2, <1>3, <1>4, PTL DEF HeapSpec

-----------------------------------------------------------------------------
Numbers ==
  /\ nextSel \in 1 .. Count
  /\ ldt \in [Indices -> Descriptor]
  /\ hostSel \in [HostKinds -> Indices]
  /\ want \in [Indices -> [base : Nat, limit : 0 .. MaxLimit]]
  /\ grant \in [Indices -> Int]
  /\ loose \subseteq Indices

Order ==
  /\ grant[0] = 0
  /\ \A i \in Indices : grant[i] # 0 => i < nextSel
  /\ \A k \in HostKinds : hostSel[k] # 0 => grant[hostSel[k]] # 0

IInv ==
  /\ Numbers
  /\ Order
  /\ DescriptorsDescribe
  /\ HostSelectorsKept
  /\ NullUntilExhausted

(* set_desc: the packing and what is made of it.                           *)
LEMMA EncodeFacts ==
  ASSUME NEW b \in Nat, NEW l \in 0 .. MaxLimit
  PROVE  /\ Encode(b, l) \in Descriptor
         /\ Encode(b, l).base = b
         /\ Effective(Encode(b, l)) = AsHeld(l)
<1>1. l \in Nat /\ Page \in Nat \ {0} /\ MaxField \in Nat
  BY LdtAssumption, SMT DEF MaxLimit
<1>2. l > MaxField => l \div Page \in 0 .. MaxField
  <2>1. l < (MaxField + 1) * Page
    BY LdtAssumption, SMT DEF MaxLimit
  <2>2. l \div Page < MaxField + 1 /\ l \div Page >= 0
    BY <1>1, <2>1, SMT
  <2> QED BY <1>1, <2>2, SMT
<1>3. l <= MaxField => l \in 0 .. MaxField
  BY <1>1
<1> QED BY <1>1, <1>2, <1>3 DEF Encode, Effective, AsHeld, Descriptor

(* Multiplying by a natural keeps the order.                               *)
LEMMA ProductsGrow ==
  ASSUME NEW a \in Int, NEW b \in Int, NEW p \in Nat, a <= b
  PROVE  a * p <= b * p
<1>1. PICK k \in Nat : b = a + k
  <2>1. b - a \in Nat
    OBVIOUS
  <2> QED BY <2>1
<1>2. a * p \in Int /\ k * p \in Nat /\ b * p = a * p + k * p
  BY <1>1, SMT
<1> QED BY <1>2, SMT

(* The page number of the last byte of page n is n.                        *)
LEMMA PageOfLast ==
  ASSUME NEW n \in Nat, NEW p \in Nat \ {0}
  PROVE  (n * p + p - 1) \div p = n
<1> DEFINE a == n * p + p - 1
           q == a \div p
<1>1. a \in Nat /\ n * p \in Nat
  BY SMT
<1>2. q \in Int /\ q * p <= a /\ a < q * p + p
  <2> HIDE DEF a
  <2> QED BY <1>1, SMT
<1>3. ~(q < n)
  <2>1. ASSUME q < n PROVE FALSE
    <3>1. (q + 1) * p <= n * p /\ (q + 1) * p = q * p + p
      <4> HIDE DEF q
      <4> QED BY <1>2, <2>1, ProductsGrow, SMT
    <3> QED BY <1>1, <1>2, <3>1, SMT
  <2> QED BY <2>1
<1>4. ~(n < q)
  <2>1. ASSUME n < q PROVE FALSE
    <3>1. (n + 1) * p <= q * p /\ (n + 1) * p = n * p + p
      <4> HIDE DEF q
      <4> QED BY <1>2, <2>1, ProductsGrow, SMT
    <3> QED BY <1>1, <1>2, <3>1, SMT
  <2> QED BY <2>1
<1>5. q = n
  <2> HIDE DEF q
  <2> QED BY <1>2, <1>3, <1>4
<1> QED BY <1>5

(* A limit read from the table is one the table holds exactly.             *)
LEMMA EffectiveFacts ==
  ASSUME NEW d \in Descriptor
  PROVE  Effective(d) \in 0 .. MaxLimit /\ AsHeld(Effective(d)) = Effective(d)
<1>1. d.field \in Nat /\ d.field <= MaxField /\ Page \in Nat \ {0} /\ MaxField \in Nat /\ d.gran \in BOOLEAN
  BY LdtAssumption, SMT DEF Descriptor
<1>2. CASE d.gran
  <2>1. Effective(d) = d.field * Page + Page - 1 /\ d.field * Page \in Nat /\ MaxLimit = MaxField * Page + Page - 1
    BY <1>1, <1>2, SMT DEF Effective, MaxLimit
  <2>2. d.field * Page <= MaxField * Page
    BY <1>1, ProductsGrow
  <2>3. Effective(d) \div Page = d.field
    BY <1>1, <2>1, PageOfLast
  <2>4. AsHeld(Effective(d)) = Effective(d)
    BY <2>1, <2>3 DEF AsHeld
  <2>5. Effective(d) \in 0 .. MaxLimit
    <3>1. MaxField * Page \in Nat
      BY <1>1, SMT
    <3> QED BY <1>1, <2>1, <2>2, <3>1, SMT
  <2> QED BY <2>4, <2>5
<1>3. CASE ~d.gran
  <2>1. Effective(d) = d.field
    BY <1>3 DEF Effective
  <2>2. MaxLimit \in Int /\ MaxField <= MaxLimit
    <3>1. (MaxField + 1) * Page >= MaxField + 1 /\ (MaxField + 1) * Page \in Int
      BY <1>1, SMT
    <3> QED BY <1>1, <3>1, SMT DEF MaxLimit
  <2>3. AsHeld(d.field) = d.field
    BY <1>1, SMT DEF AsHeld
  <2> QED BY <1>1, <2>1, <2>2, <2>3, SMT
<1> QED BY <1>1, <1>2, <1>3

(* A grant's number is not 0, the mark of a selector in no grant.          *)
LEMMA SerialPositive ==
  ASSUME Numbers
  PROVE  Serial \in Nat \ {0}
<1>1. IsFiniteSet(Indices)
  BY LdtAssumption, FS_Interval DEF Indices
<1>2. IsFiniteSet(Grants)
  <2>1. grant \in Surjection(Indices, Grants)
    BY DEF Surjection, Grants, Numbers
  <2> QED BY <1>1, <2>1, FS_Surjection
<1>3. IsFiniteSet(Grants \ {0})
  BY <1>2, FS_Difference
<1> QED BY <1>3, FS_CardinalityType DEF Serial

(* alloc_sel, when there are selectors left: the ones handed out are new,  *)
(* and those handed out before stay.                                       *)
LEMMA TakesNew ==
  ASSUME Numbers, Order, NEW n \in Nat, Left(n), Takes(n)
  PROVE  /\ nextSel' \in 1 .. Count /\ nextSel <= nextSel'
         /\ grant' \in [Indices -> Int] /\ grant'[0] = 0
         /\ \A i \in Run(n) : i \in Indices /\ i # 0 /\ grant[i] = 0 /\ grant'[i] # 0
         /\ \A i \in Indices : grant[i] # 0 => grant'[i] = grant[i]
         /\ \A i \in Indices : grant'[i] # 0 => i < nextSel'
<1>1. /\ Count \in Nat /\ nextSel \in Nat /\ 1 <= nextSel /\ nextSel <= Count /\ nextSel + n <= Count
      /\ nextSel' = nextSel + n
  BY LdtAssumption, SMT DEF Numbers, Left, Takes
<1>2. Serial \in Nat \ {0}
  BY SerialPositive
<1>3. \A i \in Run(n) : i \in Indices /\ i # 0 /\ nextSel <= i /\ i < nextSel + n
  BY <1>1, SMT DEF Run, Indices
<1>4. \A i \in Run(n) : grant[i] = 0
  BY <1>1, <1>3, SMT DEF Order, Indices
<1>5. grant' = [i \in Indices |-> IF i \in Run(n) THEN Serial ELSE grant[i]]
  BY DEF Takes
<1>6. 0 \in Indices /\ 0 \notin Run(n)
  BY <1>1, <1>3, LdtAssumption, SMT DEF Indices
<1>7. grant' \in [Indices -> Int]
  BY <1>2, <1>5 DEF Numbers
<1>8. \A i \in Indices : grant'[i] # 0 => i < nextSel'
  <2> SUFFICES ASSUME NEW i \in Indices, grant'[i] # 0 PROVE i < nextSel'
    OBVIOUS
  <2>1. CASE i \in Run(n)
    BY <1>1, <1>3, <2>1
  <2>2. CASE i \notin Run(n)
    <3>1. i < nextSel /\ i \in Int
      BY <1>5, <2>2 DEF Order, Indices
    <3> QED BY <1>1, <3>1, SMT
  <2> QED BY <2>1, <2>2
<1>9. nextSel' \in 1 .. Count /\ nextSel <= nextSel'
  BY <1>1, SMT
<1> QED BY <1>2, <1>3, <1>4, <1>5, <1>6, <1>7, <1>8, <1>9 DEF Order

(* alloc_sel for a caller that does not look at its answer.                *)
LEMMA TakesSelNew ==
  ASSUME Numbers, Order, TakesSel
  PROVE  /\ nextSel' \in 1 .. Count /\ nextSel <= nextSel'
         /\ grant' \in [Indices -> Int] /\ grant'[0] = 0
         /\ Sel \in Indices /\ grant[Sel] = 0
         /\ Sel # 0 => grant'[Sel] # 0
         /\ Sel = 0 => nextSel = Count /\ nextSel' = Count
         /\ \A i \in Indices : grant[i] # 0 => grant'[i] = grant[i]
         /\ \A i \in Indices : grant'[i] # 0 => i < nextSel'
<1>1. Count \in Nat /\ nextSel \in Nat /\ 1 <= nextSel /\ nextSel <= Count /\ 1 \in Nat
  BY LdtAssumption, SMT DEF Numbers
<1>2. CASE Left(1)
  <2>1. Takes(1) /\ Sel = nextSel /\ nextSel # 0
    BY <1>1, <1>2 DEF TakesSel, Sel
  <2>2. nextSel \in Run(1)
    BY <1>1, SMT DEF Run
  <2> QED BY <1>1, <1>2, <2>1, <2>2, TakesNew
<1>3. CASE ~Left(1)
  <2>1. UNCHANGED <<nextSel, grant>> /\ Sel = 0 /\ nextSel = Count
    BY <1>1, <1>3, SMT DEF TakesSel, Sel, Left
  <2>2. 0 \in Indices
    BY LdtAssumption, SMT DEF Indices
  <2> QED BY <1>1, <2>1, <2>2 DEF Numbers, Order
<1> QED BY <1>2, <1>3

(* Descriptor i describes what its holder asked for.                       *)
Describes(i) ==
  /\ ldt[i].base = want[i].base
  /\ Effective(ldt[i]) \in IF i \in loose THEN TooLarge(want[i].limit)
                                          ELSE {AsHeld(want[i].limit)}

Stays == \A i \in Indices : grant[i] # 0 => grant'[i] = grant[i]

(* A step that writes the descriptors W, none of them the host's, keeps    *)
(* what the descriptors describe if it does so in W.                       *)
LEMMA WritesKeep ==
  ASSUME IInv, NEW W \in SUBSET Indices, hostSel' = hostSel,
         \A i \in Indices \ W : ldt'[i] = ldt[i] /\ want'[i] = want[i] /\ (i \in loose' <=> i \in loose),
         \A i \in W : Describes(i)',
         \A k \in HostKinds : hostSel[k] # 0 => hostSel[k] \notin W,
         0 \in W => nextSel' = Count,
         nextSel = Count => nextSel' = Count
  PROVE  DescriptorsDescribe' /\ HostSelectorsKept' /\ NullUntilExhausted'
<1>1. DescriptorsDescribe'
  <2> SUFFICES ASSUME NEW i \in Indices PROVE Describes(i)'
    BY DEF DescriptorsDescribe, Describes
  <2>1. CASE i \notin W
    <3>1. Describes(i)
      BY DEF IInv, DescriptorsDescribe, Describes
    <3> QED BY <2>1, <3>1 DEF Describes, Effective
  <2> QED BY <2>1
<1>2. HostSelectorsKept'
  <2> SUFFICES ASSUME NEW k \in HostKinds, hostSel[k] # 0
               PROVE  ldt'[hostSel[k]] = ldt[hostSel[k]]
    BY DEF HostSelectorsKept, IInv, Effective
  <2> QED BY DEF IInv, Numbers
<1>3. NullUntilExhausted'
  <2>1. 0 \in Indices
    BY LdtAssumption, SMT DEF Indices
  <2> QED BY <2>1 DEF IInv, NullUntilExhausted
<1> QED BY <1>1, <1>2, <1>3

(* A step that leaves the host's selectors alone keeps Order.              *)
LEMMA KeepsOrder ==
  ASSUME IInv, hostSel' = hostSel, grant'[0] = 0, Stays,
         \A i \in Indices : grant'[i] # 0 => i < nextSel'
  PROVE  Order'
BY DEF IInv, Numbers, Order, Stays

(* What the client holds is neither the null descriptor nor the host's.    *)
LEMMA HeldFacts ==
  ASSUME IInv, NEW i \in Held
  PROVE  i \in Indices /\ i # 0 /\ \A k \in HostKinds : hostSel[k] # i
BY DEF Held, IInv, Order

(* 0000h.                                                                  *)
LEMMA AllocateDescriptorsKeeps ==
  ASSUME IInv, NEW n \in Runs, AllocateDescriptors(n)
  PROVE  IInv' /\ Stays
<1> DEFINE m == IF n = 0 THEN 1 ELSE n
<1>1. m \in Nat /\ Left(m) /\ Takes(m) /\ hostSel' = hostSel
  BY LdtAssumption DEF AllocateDescriptors
<1>2. /\ ldt' = [i \in Indices |-> IF i \in Run(m) THEN Null ELSE ldt[i]]
      /\ want' = [i \in Indices |-> IF i \in Run(m) THEN Nothing ELSE want[i]]
      /\ loose' = loose \ Run(m)
  BY DEF AllocateDescriptors
<1> HIDE DEF m
<1>3. /\ nextSel' \in 1 .. Count /\ nextSel <= nextSel'
      /\ grant' \in [Indices -> Int] /\ grant'[0] = 0
      /\ \A i \in Run(m) : i \in Indices /\ i # 0 /\ grant[i] = 0 /\ grant'[i] # 0
      /\ \A i \in Indices : grant[i] # 0 => grant'[i] = grant[i]
      /\ \A i \in Indices : grant'[i] # 0 => i < nextSel'
  BY <1>1, TakesNew DEF IInv
<1>4. /\ MaxField \in Nat /\ 0 \in 0 .. MaxLimit
      /\ Null \in Descriptor /\ Nothing \in [base : Nat, limit : 0 .. MaxLimit]
  <2>1. MaxField \in Nat /\ (MaxField + 1) * Page >= 1 /\ (MaxField + 1) * Page \in Int
    BY LdtAssumption, SMT
  <2>2. 0 \in 0 .. MaxLimit /\ 0 \in 0 .. MaxField
    BY <2>1, SMT DEF MaxLimit
  <2> QED BY <2>1, <2>2 DEF Null, Nothing, Descriptor
<1>5. Numbers'
  BY <1>1, <1>2, <1>3, <1>4 DEF Numbers, IInv
<1>6. Stays /\ Order'
  BY <1>1, <1>3, KeepsOrder DEF Stays
<1>7. DescriptorsDescribe' /\ HostSelectorsKept' /\ NullUntilExhausted'
  <2>1. \A i \in Run(m) : Describes(i)'
    <3> SUFFICES ASSUME NEW i \in Run(m) PROVE Describes(i)'
      OBVIOUS
    <3>1. ldt'[i] = Null /\ want'[i] = Nothing /\ i \notin loose'
      BY <1>2, <1>3
    <3>2. Effective(Null) = 0 /\ AsHeld(0) = 0 /\ Null.base = Nothing.base /\ Nothing.limit = 0
      BY <1>4, SMT DEF Null, Nothing, Effective, AsHeld
    <3> QED BY <3>1, <3>2 DEF Describes, Effective
  <2>2. Run(m) \in SUBSET Indices /\ 0 \notin Run(m)
    BY <1>3
  <2>3. \A k \in HostKinds : hostSel[k] # 0 => hostSel[k] \notin Run(m)
    BY <1>3 DEF IInv, Order, Numbers
  <2>4. nextSel = Count => nextSel' = Count
    BY <1>3, LdtAssumption, SMT
  <2>5. \A i \in Indices \ Run(m) : ldt'[i] = ldt[i] /\ want'[i] = want[i] /\ (i \in loose' <=> i \in loose)
    BY <1>2
  <2> QED BY <1>1, <2>1, <2>2, <2>3, <2>4, <2>5, WritesKeep
<1> QED BY <1>5, <1>6, <1>7 DEF IInv

(* A call that rewrites one descriptor the client holds and hands out none.*)
LEMMA RewriteKeeps ==
  ASSUME IInv, NEW i \in Held, UNCHANGED <<nextSel, hostSel, grant>>,
         NEW d \in Descriptor, NEW w \in [base : Nat, limit : 0 .. MaxLimit],
         ldt' = [ldt EXCEPT ![i] = d], want' = [want EXCEPT ![i] = w],
         loose' = loose \union {i} \/ loose' = loose \ {i} \/ loose' = loose,
         d.base = w.base,
         Effective(d) \in IF i \in loose' THEN TooLarge(w.limit) ELSE {AsHeld(w.limit)}
  PROVE  IInv' /\ Stays
<1>1. i \in Indices /\ i # 0 /\ \A k \in HostKinds : hostSel[k] # i
  BY HeldFacts
<1>2. Numbers'
  BY <1>1 DEF IInv, Numbers
<1>3. Stays /\ Order'
  BY DEF IInv, Order, Stays
<1>4. ldt'[i] = d /\ want'[i] = w
  BY <1>1 DEF IInv, Numbers
<1>5. \A j \in {i} : Describes(j)'
  BY <1>4 DEF Describes, Effective
<1>6. \A j \in Indices \ {i} : ldt'[j] = ldt[j] /\ want'[j] = want[j] /\ (j \in loose' <=> j \in loose)
  BY DEF IInv, Numbers
<1>7. DescriptorsDescribe' /\ HostSelectorsKept' /\ NullUntilExhausted'
  <2>1. {i} \in SUBSET Indices /\ 0 \notin {i}
    BY <1>1
  <2>2. \A k \in HostKinds : hostSel[k] # 0 => hostSel[k] \notin {i}
    BY <1>1
  <2>3. hostSel' = hostSel /\ nextSel' = nextSel
    OBVIOUS
  <2> QED BY <1>5, <1>6, <2>1, <2>2, <2>3, WritesKeep
<1> QED BY <1>2, <1>3, <1>7 DEF IInv

(* 0007h.                                                                  *)
LEMMA SetSegmentBaseKeeps ==
  ASSUME IInv, NEW i \in Held, NEW b \in Bases, SetSegmentBase(i, b)
  PROVE  IInv' /\ Stays
<1> DEFINE d == [ldt[i] EXCEPT !.base = b]
           w == [want[i] EXCEPT !.base = b]
<1>1. i \in Indices /\ b \in Nat /\ ldt[i] \in Descriptor /\ want[i] \in [base : Nat, limit : 0 .. MaxLimit]
  BY HeldFacts, LdtAssumption DEF IInv, Numbers
<1>2. d \in Descriptor /\ d.base = b /\ d.field = ldt[i].field /\ d.gran = ldt[i].gran
  BY <1>1 DEF Descriptor
<1>3. w \in [base : Nat, limit : 0 .. MaxLimit] /\ w.base = b /\ w.limit = want[i].limit
  BY <1>1
<1>4. ldt' = [ldt EXCEPT ![i] = d] /\ want' = [want EXCEPT ![i] = w]
  BY DEF SetSegmentBase
<1>5. Effective(d) = Effective(ldt[i])
  BY <1>2 DEF Effective
<1>6. UNCHANGED <<nextSel, hostSel, grant>> /\ loose' = loose
  BY DEF SetSegmentBase
<1>7. Effective(d) \in IF i \in loose' THEN TooLarge(w.limit) ELSE {AsHeld(w.limit)}
  <2> HIDE DEF d, w
  <2> QED BY <1>1, <1>3, <1>5, <1>6 DEF IInv, DescriptorsDescribe
<1> HIDE DEF d, w
<1> QED BY <1>2, <1>3, <1>4, <1>6, <1>7, RewriteKeeps

(* 0008h: the bit that stays can only make the limit larger.               *)
LEMMA SetSegmentLimitKeeps ==
  ASSUME IInv, NEW i \in Held, NEW l \in Limits, SetSegmentLimit(i, l)
  PROVE  IInv' /\ Stays
<1> DEFINE e == Encode(ldt[i].base, l)
           d == [e EXCEPT !.gran = e.gran \/ ldt[i].gran]
           w == [want[i] EXCEPT !.limit = l]
<1>1. /\ i \in Indices /\ l \in 0 .. MaxLimit
      /\ ldt[i] \in Descriptor /\ want[i] \in [base : Nat, limit : 0 .. MaxLimit]
      /\ ldt[i].base \in Nat /\ ldt[i].gran \in BOOLEAN
  <2>1. i \in Indices /\ l \in 0 .. MaxLimit /\ ldt[i] \in Descriptor
        /\ want[i] \in [base : Nat, limit : 0 .. MaxLimit]
    BY HeldFacts, LdtAssumption DEF IInv, Numbers
  <2> QED BY <2>1 DEF Descriptor
<1>2. e \in Descriptor /\ e.base = ldt[i].base /\ Effective(e) = AsHeld(l)
  BY <1>1, EncodeFacts
<1>3. ldt' = [ldt EXCEPT ![i] = d] /\ want' = [want EXCEPT ![i] = w]
  BY DEF SetSegmentLimit
<1>4. /\ UNCHANGED <<nextSel, hostSel, grant>>
      /\ loose' = IF ldt[i].gran /\ ~e.gran THEN loose \union {i} ELSE loose \ {i}
  BY DEF SetSegmentLimit
<1>5. ~e.gran => e.field = l
  BY DEF Encode
<1>6. w \in [base : Nat, limit : 0 .. MaxLimit] /\ w.base = want[i].base /\ w.limit = l
  BY <1>1
<1>7. ldt[i].base = want[i].base
  BY <1>1 DEF IInv, DescriptorsDescribe
<1> HIDE DEF e
<1>8. /\ d \in Descriptor /\ d.base = e.base /\ d.field = e.field
      /\ d.gran = (e.gran \/ ldt[i].gran)
  BY <1>1, <1>2 DEF Descriptor
<1>9. Effective(d) \in IF i \in loose' THEN TooLarge(w.limit) ELSE {AsHeld(w.limit)}
  <2>1. CASE ldt[i].gran /\ ~e.gran
    <3>1. Effective(d) = l * Page + Page - 1 /\ i \in loose' /\ l \in Int
      <4>1. d.gran /\ d.field = l
        BY <1>5, <1>8, <2>1
      <4>2. Effective(d) = d.field * Page + Page - 1
        <5> HIDE DEF d
        <5> QED BY <4>1 DEF Effective
      <4>3. i \in loose' /\ l \in Int
        BY <1>1, <1>4, <2>1
      <4> QED BY <4>1, <4>2, <4>3
    <3> QED BY <1>6, <3>1 DEF TooLarge
  <2>2. CASE ~(ldt[i].gran /\ ~e.gran)
    <3>1. i \notin loose' /\ (d.gran <=> e.gran)
      <4> HIDE DEF d
      <4> QED BY <1>1, <1>2, <1>4, <1>8, <2>2 DEF Descriptor
    <3>2. Effective(d) = Effective(e)
      <4> HIDE DEF d
      <4> QED BY <1>8, <3>1 DEF Effective
    <3> QED BY <1>2, <1>6, <3>1, <3>2
  <2> QED BY <2>1, <2>2
<1> HIDE DEF d, w
<1>10. loose' = loose \union {i} \/ loose' = loose \ {i} \/ loose' = loose
  BY <1>4
<1> QED BY <1>2, <1>3, <1>4, <1>6, <1>7, <1>8, <1>9, <1>10, RewriteKeeps

(* 0009h.                                                                  *)
LEMMA SetAccessRightsKeeps ==
  ASSUME IInv, NEW i \in Held, NEW g \in BOOLEAN, SetAccessRights(i, g)
  PROVE  IInv' /\ Stays
<1> DEFINE d == [ldt[i] EXCEPT !.gran = g]
           w == [want[i] EXCEPT !.limit = Effective(d)]
<1>1. i \in Indices /\ ldt[i] \in Descriptor /\ want[i] \in [base : Nat, limit : 0 .. MaxLimit]
  BY HeldFacts DEF IInv, Numbers
<1>2. d \in Descriptor /\ d.base = ldt[i].base
  BY <1>1 DEF Descriptor
<1>3. Effective(d) \in 0 .. MaxLimit /\ AsHeld(Effective(d)) = Effective(d)
  BY <1>2, EffectiveFacts
<1>4. ldt' = [ldt EXCEPT ![i] = d] /\ want' = [want EXCEPT ![i] = w]
  BY DEF SetAccessRights
<1>5. UNCHANGED <<nextSel, hostSel, grant>> /\ loose' = loose \ {i}
  BY DEF SetAccessRights
<1>6. ldt[i].base = want[i].base
  BY <1>1 DEF IInv, DescriptorsDescribe
<1> HIDE DEF d
<1>7. w \in [base : Nat, limit : 0 .. MaxLimit] /\ w.base = want[i].base /\ w.limit = Effective(d)
  BY <1>1, <1>3
<1> HIDE DEF w
<1>8. Effective(d) \in IF i \in loose' THEN TooLarge(w.limit) ELSE {AsHeld(w.limit)}
  BY <1>3, <1>5, <1>7
<1> QED BY <1>2, <1>4, <1>5, <1>6, <1>7, <1>8, RewriteKeeps

(* 000Bh and 000Ch.                                                        *)
LEMMA CopyDescriptorKeeps ==
  ASSUME IInv, NEW i \in Held, NEW j \in Held, CopyDescriptor(i, j)
  PROVE  IInv' /\ Stays
<1>1. /\ j \in Indices /\ ldt[j] \in Descriptor /\ want[j] \in [base : Nat, limit : 0 .. MaxLimit]
      /\ ldt[j].base = want[j].base
      /\ Effective(ldt[j]) \in IF j \in loose THEN TooLarge(want[j].limit) ELSE {AsHeld(want[j].limit)}
  BY HeldFacts DEF IInv, Numbers, DescriptorsDescribe
<1>2. /\ UNCHANGED <<nextSel, hostSel, grant>>
      /\ ldt' = [ldt EXCEPT ![i] = ldt[j]] /\ want' = [want EXCEPT ![i] = want[j]]
      /\ loose' = IF j \in loose THEN loose \union {i} ELSE loose \ {i}
  BY DEF CopyDescriptor
<1>3. i \in loose' <=> j \in loose
  BY <1>2
<1>4. Effective(ldt[j]) \in IF i \in loose' THEN TooLarge(want[j].limit) ELSE {AsHeld(want[j].limit)}
  BY <1>1, <1>3
<1>5. loose' = loose \union {i} \/ loose' = loose \ {i} \/ loose' = loose
  BY <1>2
<1> QED BY <1>1, <1>2, <1>4, <1>5, RewriteKeeps

(* A call that takes one selector by alloc_sel, whatever that answers, and *)
(* writes its descriptor.                                                  *)
LEMMA TakeOneKeeps ==
  ASSUME IInv, TakesSel, hostSel' = hostSel,
         NEW d \in Descriptor, NEW w \in [base : Nat, limit : 0 .. MaxLimit],
         ldt' = [ldt EXCEPT ![Sel] = d], want' = [want EXCEPT ![Sel] = w],
         loose' = loose \union {Sel} \/ loose' = loose \ {Sel} \/ loose' = loose,
         d.base = w.base,
         Effective(d) \in IF Sel \in loose' THEN TooLarge(w.limit) ELSE {AsHeld(w.limit)}
  PROVE  IInv' /\ Stays
<1>1. /\ nextSel' \in 1 .. Count /\ nextSel <= nextSel'
      /\ grant' \in [Indices -> Int] /\ grant'[0] = 0
      /\ Sel \in Indices /\ grant[Sel] = 0
      /\ Sel = 0 => nextSel = Count /\ nextSel' = Count
      /\ \A i \in Indices : grant[i] # 0 => grant'[i] = grant[i]
      /\ \A i \in Indices : grant'[i] # 0 => i < nextSel'
  BY TakesSelNew DEF IInv
<1>2. Numbers'
  BY <1>1 DEF IInv, Numbers
<1>3. Stays /\ Order'
  BY <1>1, KeepsOrder DEF Stays
<1>4. ldt'[Sel] = d /\ want'[Sel] = w
  BY <1>1 DEF IInv, Numbers
<1>5. \A j \in {Sel} : Describes(j)'
  <2> DEFINE s == Sel
  <2>1. ldt'[s] = d /\ want'[s] = w
    BY <1>4
  <2>2. Effective(d) \in IF s \in loose' THEN TooLarge(w.limit) ELSE {AsHeld(w.limit)}
    OBVIOUS
  <2> SUFFICES ASSUME NEW j, j = s PROVE Describes(j)'
    OBVIOUS
  <2> HIDE DEF s
  <2> QED BY <2>1, <2>2 DEF Describes, Effective
<1>6. \A j \in Indices \ {Sel} : ldt'[j] = ldt[j] /\ want'[j] = want[j] /\ (j \in loose' <=> j \in loose)
  BY DEF IInv, Numbers
<1>7. {Sel} \in SUBSET Indices /\ (0 \in {Sel} => nextSel' = Count)
  BY <1>1
<1>8. \A k \in HostKinds : hostSel[k] # 0 => hostSel[k] \notin {Sel}
  BY <1>1 DEF IInv, Order
<1>9. nextSel = Count => nextSel' = Count
  BY <1>1, LdtAssumption, SMT
<1>10. DescriptorsDescribe' /\ HostSelectorsKept' /\ NullUntilExhausted'
  BY <1>5, <1>6, <1>7, <1>8, <1>9, WritesKeep
<1> QED BY <1>2, <1>3, <1>10 DEF IInv

(* 000Ah.                                                                  *)
LEMMA CreateAliasKeeps ==
  ASSUME IInv, NEW i \in Held, CreateAlias(i)
  PROVE  IInv' /\ Stays
<1>1. /\ i \in Indices /\ ldt[i] \in Descriptor /\ want[i] \in [base : Nat, limit : 0 .. MaxLimit]
      /\ ldt[i].base = want[i].base
      /\ Effective(ldt[i]) \in IF i \in loose THEN TooLarge(want[i].limit) ELSE {AsHeld(want[i].limit)}
  BY HeldFacts DEF IInv, Numbers, DescriptorsDescribe
<1>2. TakesSel /\ Sel = nextSel /\ hostSel' = hostSel
  BY DEF CreateAlias, TakesSel, Sel
<1>3. /\ ldt' = [ldt EXCEPT ![Sel] = ldt[i]] /\ want' = [want EXCEPT ![Sel] = want[i]]
      /\ loose' = IF i \in loose THEN loose \union {Sel} ELSE loose \ {Sel}
  BY <1>2 DEF CreateAlias
<1>4. Effective(ldt[i]) \in IF Sel \in loose' THEN TooLarge(want[i].limit) ELSE {AsHeld(want[i].limit)}
  <2> DEFINE s == Sel
  <2>1. loose' = IF i \in loose THEN loose \union {s} ELSE loose \ {s}
    BY <1>3
  <2> HIDE DEF s
  <2>2. s \in loose' <=> i \in loose
    BY <2>1
  <2>3. Sel \in loose' <=> i \in loose
    BY <2>2 DEF s
  <2> QED BY <1>1, <2>3
<1>5. loose' = loose \union {Sel} \/ loose' = loose \ {Sel} \/ loose' = loose
  BY <1>3
<1> QED BY <1>1, <1>2, <1>3, <1>4, <1>5, TakeOneKeeps

(* The limit of no paragraphs, one below 0, is the largest there is.       *)
LEMMA NothingWraps == (0 * Paragraph - 1) % (MaxLimit + 1) = MaxLimit
<1> DEFINE m == MaxLimit + 1
           r == (0 - 1) % m
           q == (0 - 1) \div m
<1>1. m \in Nat \ {0} /\ MaxLimit = m - 1 /\ Paragraph \in Nat
  <2>1. (MaxField + 1) * Page \in Nat /\ (MaxField + 1) * Page >= 1
    BY LdtAssumption, SMT
  <2> QED BY <2>1, LdtAssumption, SMT DEF MaxLimit
<1> HIDE DEF m
<1>2. r \in Nat /\ r < m /\ q \in Int /\ 0 - 1 = q * m + r
  BY <1>1, SMT
<1> HIDE DEF q, r
<1>3. ~(q <= 0 - 2)
  <2> SUFFICES ASSUME q <= 0 - 2 PROVE FALSE
    OBVIOUS
  <2>1. q * m <= (0 - 2) * m
    BY <1>1, <1>2, ProductsGrow
  <2>2. (0 - 2) * m = 0 - m - m /\ q * m \in Int
    BY <1>1, <1>2, SMT
  <2> QED BY <1>1, <1>2, <2>1, <2>2, SMT
<1>4. ~(q >= 0)
  <2> SUFFICES ASSUME q >= 0 PROVE FALSE
    OBVIOUS
  <2>1. 0 * m <= q * m
    BY <1>1, <1>2, ProductsGrow
  <2>2. 0 * m = 0 /\ q * m \in Int
    BY <1>1, <1>2, SMT
  <2> QED BY <1>1, <1>2, <2>1, <2>2, SMT
<1>5. q = 0 - 1
  BY <1>2, <1>3, <1>4, SMT
<1>6. q * m = 0 - m
  BY <1>1, <1>5, SMT
<1>7. r = m - 1
  BY <1>1, <1>2, <1>6, SMT
<1>8. 0 * Paragraph - 1 = 0 - 1
  BY <1>1, SMT
<1> QED BY <1>1, <1>7, <1>8 DEF r, m

(* ... and the table holds it exactly.                                     *)
LEMMA LargestHeld == AsHeld(MaxLimit) = MaxLimit
<1> DEFINE d == [base |-> 0, field |-> MaxField, gran |-> TRUE]
<1>1. d \in Descriptor /\ d.gran /\ d.field = MaxField
  BY LdtAssumption, SMT DEF Descriptor
<1> HIDE DEF d
<1>2. Effective(d) = MaxField * Page + Page - 1
  BY <1>1 DEF Effective
<1>3. MaxLimit = MaxField * Page + Page - 1
  BY LdtAssumption, SMT DEF MaxLimit
<1> QED BY <1>1, <1>2, <1>3, EffectiveFacts

(* 0100h.                                                                  *)
LEMMA AllocateDosBlockKeeps ==
  ASSUME IInv, NEW b \in Bases, NEW p \in Paras, AllocateDosBlock(b, p)
  PROVE  IInv' /\ Stays
<1> DEFINE l == (p * Paragraph - 1) % (MaxLimit + 1)
           d == Encode(b, l)
           w == [base |-> b, limit |-> IF p = 0 THEN 0 ELSE l]
<1>1. b \in Nat /\ l \in 0 .. MaxLimit /\ 0 \in 0 .. MaxLimit
  <2>1. MaxLimit + 1 \in Nat \ {0} /\ MaxLimit \in Nat
    <3>1. (MaxField + 1) * Page \in Nat /\ (MaxField + 1) * Page >= 1
      BY LdtAssumption, SMT
    <3> QED BY <3>1, SMT DEF MaxLimit
  <2>2. p * Paragraph - 1 \in Int
    BY LdtAssumption, SMT
  <2> DEFINE a == p * Paragraph - 1
             m == MaxLimit + 1
  <2>3. a % m \in Int /\ 0 <= a % m /\ a % m < m
    <3>1. a \in Int /\ m \in Nat \ {0}
      BY <2>1, <2>2
    <3> HIDE DEF a, m
    <3> QED BY <3>1, SMT
  <2>4. l = a % m
    OBVIOUS
  <2> HIDE DEF a
  <2> QED BY <2>1, <2>3, <2>4, LdtAssumption, SMT
<1> HIDE DEF l
<1>2. d \in Descriptor /\ d.base = b /\ Effective(d) = AsHeld(l)
  BY <1>1, EncodeFacts
<1>3. w \in [base : Nat, limit : 0 .. MaxLimit] /\ w.base = b /\ w.limit = IF p = 0 THEN 0 ELSE l
  BY <1>1
<1>4. /\ TakesSel /\ hostSel' = hostSel
      /\ ldt' = [ldt EXCEPT ![Sel] = d] /\ want' = [want EXCEPT ![Sel] = w]
      /\ loose' = IF p = 0 THEN loose \union {Sel} ELSE loose \ {Sel}
  BY DEF AllocateDosBlock, l
<1>5. p = 0 => Effective(d) = MaxLimit
  <2> SUFFICES ASSUME p = 0 PROVE Effective(d) = MaxLimit
    OBVIOUS
  <2>1. l = MaxLimit
    BY NothingWraps DEF l
  <2> QED BY <1>2, <2>1, LargestHeld
<1> HIDE DEF d, w
<1>6. Effective(d) \in IF Sel \in loose' THEN TooLarge(w.limit) ELSE {AsHeld(w.limit)}
  <2> DEFINE s == Sel
  <2>1. CASE p = 0
    <3>1. s \in loose' /\ w.limit = 0
      BY <1>3, <1>4, <2>1
    <3> HIDE DEF s
    <3> QED BY <1>5, <2>1, <3>1 DEF TooLarge, s
  <2>2. CASE p # 0
    <3>1. s \notin loose' /\ w.limit = l
      BY <1>3, <1>4, <2>2
    <3> HIDE DEF s
    <3> QED BY <1>2, <3>1 DEF s
  <2> QED BY <2>1, <2>2
<1>7. loose' = loose \union {Sel} \/ loose' = loose \ {Sel} \/ loose' = loose
  BY <1>4
<1> QED BY <1>2, <1>3, <1>4, <1>6, <1>7, TakeOneKeeps

(* entry_sel, low_sel and cb_stack.                                        *)
LEMMA MakeHostSelectorKeeps ==
  ASSUME IInv, NEW k \in HostKinds, MakeHostSelector(k)
  PROVE  IInv' /\ Stays
<1> DEFINE h == HostWants[k]
           d == Encode(h.base, h.limit)
           w == [base |-> h.base, limit |-> h.limit]
<1>1. h.base \in Nat /\ h.limit \in 0 .. MaxLimit
  BY LdtAssumption
<1>2. d \in Descriptor /\ d.base = h.base /\ Effective(d) = AsHeld(h.limit)
  BY <1>1, EncodeFacts
<1>3. w \in [base : Nat, limit : 0 .. MaxLimit] /\ w.base = h.base /\ w.limit = h.limit
  BY <1>1
<1>4. /\ TakesSel /\ hostSel[k] = 0 /\ hostSel' = [hostSel EXCEPT ![k] = Sel]
      /\ ldt' = [ldt EXCEPT ![Sel] = d] /\ want' = [want EXCEPT ![Sel] = w]
      /\ loose' = loose \ {Sel}
  BY DEF MakeHostSelector, Describe
<1> HIDE DEF d, w
<1>5. /\ nextSel' \in 1 .. Count /\ nextSel <= nextSel'
      /\ grant' \in [Indices -> Int] /\ grant'[0] = 0
      /\ Sel \in Indices /\ grant[Sel] = 0
      /\ Sel # 0 => grant'[Sel] # 0
      /\ Sel = 0 => nextSel = Count /\ nextSel' = Count
      /\ \A i \in Indices : grant[i] # 0 => grant'[i] = grant[i]
      /\ \A i \in Indices : grant'[i] # 0 => i < nextSel'
  BY <1>4, TakesSelNew DEF IInv
<1> DEFINE s == Sel
<1>6. /\ s \in Indices /\ grant[s] = 0 /\ (s # 0 => grant'[s] # 0) /\ (s = 0 => nextSel' = Count)
      /\ hostSel' = [hostSel EXCEPT ![k] = s]
      /\ ldt' = [ldt EXCEPT ![s] = d] /\ want' = [want EXCEPT ![s] = w]
      /\ loose' = loose \ {s}
  BY <1>4, <1>5
<1> HIDE DEF s, h
<1>7. Numbers'
  BY <1>2, <1>3, <1>5, <1>6 DEF IInv, Numbers
<1>8. Stays
  BY <1>5 DEF Stays
<1>9. Order'
  <2> SUFFICES ASSUME NEW j \in HostKinds, hostSel'[j] # 0 PROVE grant'[hostSel'[j]] # 0
    BY <1>5 DEF Order
  <2>1. CASE j = k
    BY <1>6, <2>1 DEF IInv, Numbers
  <2>2. CASE j # k
    BY <1>6, <1>8, <2>2 DEF IInv, Numbers, Order, Stays
  <2> QED BY <2>1, <2>2
<1>10. DescriptorsDescribe'
  <2> SUFFICES ASSUME NEW i \in Indices PROVE Describes(i)'
    BY DEF DescriptorsDescribe, Describes
  <2>1. CASE i = s
    <3>1. ldt'[i] = d /\ want'[i] = w /\ i \notin loose'
      BY <1>6, <2>1 DEF IInv, Numbers
    <3> QED BY <1>2, <1>3, <3>1 DEF Describes, Effective
  <2>2. CASE i # s
    <3>1. ldt'[i] = ldt[i] /\ want'[i] = want[i] /\ (i \in loose' <=> i \in loose)
      BY <1>6, <2>2 DEF IInv, Numbers
    <3>2. Describes(i)
      BY DEF IInv, DescriptorsDescribe, Describes
    <3> QED BY <3>1, <3>2 DEF Describes, Effective
  <2> QED BY <2>1, <2>2
<1>11. HostSelectorsKept'
  <2> SUFFICES ASSUME NEW j \in HostKinds, hostSel'[j] # 0
               PROVE  /\ ldt'[hostSel'[j]].base = HostWants[j].base
                      /\ Effective(ldt'[hostSel'[j]]) = AsHeld(HostWants[j].limit)
    BY DEF HostSelectorsKept, Effective
  <2>1. CASE j = k
    <3>1. hostSel'[j] = s /\ ldt'[s] = d
      BY <1>6, <2>1 DEF IInv, Numbers
    <3> QED BY <1>2, <2>1, <3>1 DEF h
  <2>2. CASE j # k
    <3>1. hostSel'[j] = hostSel[j] /\ hostSel[j] # s
      BY <1>6, <2>2 DEF IInv, Numbers, Order
    <3>2. ldt'[hostSel[j]] = ldt[hostSel[j]]
      BY <1>6, <3>1 DEF IInv, Numbers
    <3> QED BY <3>1, <3>2 DEF IInv, HostSelectorsKept
  <2> QED BY <2>1, <2>2
<1>12. NullUntilExhausted'
  <2>1. 0 \in Indices
    BY LdtAssumption, SMT DEF Indices
  <2>2. nextSel = Count => nextSel' = Count
    BY <1>5, LdtAssumption, SMT
  <2> QED BY <1>6, <2>1, <2>2 DEF IInv, Numbers, NullUntilExhausted
<1> QED BY <1>7, <1>8, <1>9, <1>10, <1>11, <1>12 DEF IInv

(* switch_to_pm takes what is left of its run, each with a grant of its    *)
(* own, and writes the null descriptor if the run was cut short.           *)
LEMMA SwitchToPmKeeps ==
  ASSUME IInv, NEW n \in ClientSegs, NEW bases \in [0 .. n - 1 -> Bases], SwitchToPm(n, bases)
  PROVE  IInv' /\ Stays
<1> DEFINE got   == Run(n) \intersect Indices
           wrote == IF Left(n) THEN got ELSE got \union {0}
           w(i)  == Segment(bases, IF i = 0 THEN n - 1 ELSE i - nextSel)
           d(i)  == Encode(w(i).base, w(i).limit)
<1>1. /\ nextSel' = nextSel + Cardinality(got) /\ hostSel' = hostSel
      /\ grant' = [i \in Indices |-> IF i \in got THEN Serial + i - nextSel ELSE grant[i]]
      /\ ldt' = [i \in Indices |-> IF i \in wrote THEN d(i) ELSE ldt[i]]
      /\ want' = [i \in Indices |-> IF i \in wrote THEN w(i) ELSE want[i]]
      /\ loose' = loose \ wrote
  BY DEF SwitchToPm
<1>2. /\ n \in Nat /\ Count \in Nat /\ Count >= 1 /\ nextSel \in Nat /\ 1 <= nextSel /\ nextSel <= Count
      /\ Serial \in Nat /\ Serial >= 1
  BY LdtAssumption, SerialPositive, SMT DEF IInv, Numbers
<1>3. 0 \in Indices /\ \A i \in got : i \in Indices /\ i \in Int /\ nextSel <= i /\ i # 0 /\ i < nextSel + n
  BY <1>2, SMT DEF Run, Indices
<1>4. nextSel' = IF Left(n) THEN nextSel + n ELSE Count
  <2>1. CASE Left(n)
    <3>1. got = nextSel .. nextSel + n - 1
      BY <1>2, <2>1, SMT DEF Run, Indices, Left
    <3>2. Cardinality(nextSel .. nextSel + n - 1) = n
      <4> DEFINE hi == nextSel + n - 1
      <4>1. hi \in Int /\ nextSel \in Int
        BY <1>2, SMT
      <4>2. Cardinality(nextSel .. hi) = IF nextSel > hi THEN 0 ELSE hi - nextSel + 1
        <5> HIDE DEF hi
        <5> QED BY <4>1, FS_Interval
      <4> QED BY <1>2, <4>2, SMT
    <3> QED BY <1>1, <2>1, <3>1, <3>2
  <2>2. CASE ~Left(n)
    <3>1. got = nextSel .. Count - 1
      BY <1>2, <2>2, SMT DEF Run, Indices, Left
    <3>2. Cardinality(nextSel .. Count - 1) = Count - nextSel
      <4>1. Count - 1 \in Int /\ nextSel \in Int
        BY <1>2, SMT
      <4>2. Cardinality(nextSel .. Count - 1) =
              IF nextSel > Count - 1 THEN 0 ELSE Count - 1 - nextSel + 1
        BY <4>1, FS_Interval
      <4> QED BY <1>2, <4>2, SMT
    <3>3. nextSel' = nextSel + (Count - nextSel)
      BY <1>1, <3>1, <3>2
    <3> QED BY <1>2, <2>2, <3>3, SMT
  <2> QED BY <2>1, <2>2
<1>5. nextSel' \in 1 .. Count /\ nextSel <= nextSel' /\ (nextSel = Count => nextSel' = Count)
  BY <1>2, <1>4, SMT DEF Left
<1>6. \A i \in got : i < nextSel' /\ grant[i] = 0 /\ Serial + i - nextSel \in Nat \ {0}
  <2> SUFFICES ASSUME NEW i \in got
               PROVE  i < nextSel' /\ grant[i] = 0 /\ Serial + i - nextSel \in Nat \ {0}
    OBVIOUS
  <2>1. i \in Int /\ nextSel <= i /\ i < nextSel + n /\ i < Count
    BY <1>2, <1>3, SMT DEF Indices
  <2>2. i < nextSel'
    BY <1>4, <2>1
  <2>3. grant[i] = 0
    BY <1>2, <1>3, <2>1, SMT DEF IInv, Order
  <2>4. Serial + i - nextSel \in Nat \ {0}
    BY <1>2, <2>1, SMT
  <2> QED BY <2>2, <2>3, <2>4
<1>7. \A i \in wrote : i \in Indices /\ grant[i] = 0
  BY <1>3, <1>6 DEF IInv, Order
<1>9. ASSUME NEW i \in wrote
      PROVE  w(i).base \in Nat /\ w(i).limit \in 0 .. MaxLimit
             /\ w(i) \in [base : Nat, limit : 0 .. MaxLimit]
  <2> DEFINE k == IF i = 0 THEN n - 1 ELSE i - nextSel
  <2>1. CASE i = 0
    <3>1. ~Left(n)
      BY <1>3, <2>1
    <3>2. n - 1 \in 0 .. n - 1
      BY <1>2, <3>1, SMT DEF Left
    <3> QED BY <2>1, <3>2, LdtAssumption DEF Segment
  <2>2. CASE i # 0
    <3>1. i \in got
      BY <2>2
    <3>2. i \in Int /\ nextSel <= i /\ i < nextSel + n
      BY <1>3, <3>1
    <3>3. i - nextSel \in 0 .. n - 1
      BY <1>2, <3>2, SMT
    <3> QED BY <2>2, <3>3, LdtAssumption DEF Segment
  <2> QED BY <2>1, <2>2
<1>8. ASSUME NEW i \in wrote
      PROVE  /\ d(i) \in Descriptor /\ d(i).base = w(i).base
             /\ Effective(d(i)) = AsHeld(w(i).limit)
  <2>1. w(i).base \in Nat /\ w(i).limit \in 0 .. MaxLimit
    BY <1>9
  <2> HIDE DEF w
  <2> QED BY <2>1, EncodeFacts
<1>10. 0 \in wrote => nextSel' = Count
  BY <1>3, <1>4
<1> HIDE DEF got, d, w
<1>11. Numbers'
  <2>1. grant' \in [Indices -> Int]
    BY <1>1, <1>6 DEF IInv, Numbers
  <2>2. /\ ldt' \in [Indices -> Descriptor]
        /\ want' \in [Indices -> [base : Nat, limit : 0 .. MaxLimit]]
    <3> HIDE DEF wrote
    <3> QED BY <1>1, <1>8, <1>9 DEF IInv, Numbers
  <2> QED BY <1>1, <1>5, <2>1, <2>2 DEF IInv, Numbers
<1>12. Stays /\ Order'
  <2>1. Stays
    BY <1>1, <1>6 DEF Stays
  <2>2. grant'[0] = 0
    BY <1>1, <1>3 DEF IInv, Order
  <2>3. \A i \in Indices : grant'[i] # 0 => i < nextSel'
    <3> SUFFICES ASSUME NEW i \in Indices, grant'[i] # 0 PROVE i < nextSel'
      OBVIOUS
    <3>1. CASE i \in got
      BY <1>6, <3>1
    <3>2. CASE i \notin got
      <4>1. grant[i] # 0
        BY <1>1, <3>2
      <4>2. i < nextSel /\ i \in Int
        BY <4>1 DEF IInv, Order, Indices
      <4> QED BY <1>2, <1>5, <4>2, SMT
    <3> QED BY <3>1, <3>2
  <2> QED BY <1>1, <2>1, <2>2, <2>3, KeepsOrder
<1> HIDE DEF wrote
<1>13. DescriptorsDescribe' /\ HostSelectorsKept' /\ NullUntilExhausted'
  <2>1. \A i \in wrote : Describes(i)'
    <3> SUFFICES ASSUME NEW i \in wrote PROVE Describes(i)'
      OBVIOUS
    <3>1. ldt'[i] = d(i) /\ want'[i] = w(i) /\ i \notin loose'
      BY <1>1, <1>7
    <3> QED BY <1>8, <3>1 DEF Describes, Effective
  <2>2. wrote \in SUBSET Indices
    BY <1>7
  <2>3. \A k \in HostKinds : hostSel[k] # 0 => hostSel[k] \notin wrote
    BY <1>7 DEF IInv, Order
  <2>4. \A i \in Indices \ wrote : ldt'[i] = ldt[i] /\ want'[i] = want[i] /\ (i \in loose' <=> i \in loose)
    BY <1>1
  <2> QED BY <1>1, <1>5, <1>10, <2>1, <2>2, <2>3, <2>4, WritesKeep
<1> QED BY <1>11, <1>12, <1>13 DEF IInv

(* An empty table has all of it.                                           *)
LEMMA InitEstablishes == LdtInit => IInv
<1> SUFFICES ASSUME LdtInit PROVE IInv
  OBVIOUS
<1>1. MaxField \in Nat /\ 0 \in Indices /\ 1 \in 1 .. Count /\ 0 \in 0 .. MaxLimit
  <2>1. MaxField \in Nat /\ (MaxField + 1) * Page >= 1 /\ (MaxField + 1) * Page \in Int
    BY LdtAssumption, SMT
  <2> QED BY <2>1, LdtAssumption, SMT DEF MaxLimit, Indices
<1>2. Null \in Descriptor /\ Nothing \in [base : Nat, limit : 0 .. MaxLimit]
  BY <1>1, SMT DEF Null, Nothing, Descriptor
<1>3. Effective(Null) = 0 /\ AsHeld(0) = 0 /\ Null.base = Nothing.base /\ Nothing.limit = 0
  BY <1>1, SMT DEF Null, Nothing, Effective, AsHeld
<1>4. /\ ldt = [i \in Indices |-> Null] /\ nextSel = 1 /\ hostSel = [k \in HostKinds |-> 0]
      /\ want = [i \in Indices |-> Nothing] /\ grant = [i \in Indices |-> 0] /\ loose = {}
  BY DEF LdtInit
<1>5. Numbers
  BY <1>1, <1>2, <1>4 DEF Numbers
<1>6. Order
  BY <1>1, <1>4 DEF Order
<1>7. DescriptorsDescribe
  BY <1>3, <1>4 DEF DescriptorsDescribe
<1>8. HostSelectorsKept /\ NullUntilExhausted
  BY <1>1, <1>4 DEF HostSelectorsKept, NullUntilExhausted
<1> QED BY <1>5, <1>6, <1>7, <1>8 DEF IInv

(* Every call keeps the invariant and what was granted.                    *)
LEMMA StepKeeps ==
  ASSUME IInv, LdtNext
  PROVE  IInv' /\ Stays
<1>1. CASE ClientCall
  <2>1. ASSUME NEW n \in Runs, AllocateDescriptors(n) PROVE IInv' /\ Stays
    BY <2>1, AllocateDescriptorsKeeps
  <2>2. ASSUME NEW i \in Held, NEW b \in Bases, SetSegmentBase(i, b) PROVE IInv' /\ Stays
    BY <2>2, SetSegmentBaseKeeps
  <2>3. ASSUME NEW i \in Held, NEW l \in Limits, SetSegmentLimit(i, l) PROVE IInv' /\ Stays
    BY <2>3, SetSegmentLimitKeeps
  <2>4. ASSUME NEW i \in Held, NEW g \in BOOLEAN, SetAccessRights(i, g) PROVE IInv' /\ Stays
    BY <2>4, SetAccessRightsKeeps
  <2>5. ASSUME NEW i \in Held, CreateAlias(i) PROVE IInv' /\ Stays
    BY <2>5, CreateAliasKeeps
  <2>6. ASSUME NEW i \in Held, NEW j \in Held, CopyDescriptor(i, j) PROVE IInv' /\ Stays
    BY <2>6, CopyDescriptorKeeps
  <2>7. ASSUME NEW b \in Bases, NEW p \in Paras, AllocateDosBlock(b, p) PROVE IInv' /\ Stays
    BY <2>7, AllocateDosBlockKeeps
  <2> QED BY <1>1, <2>1, <2>2, <2>3, <2>4, <2>5, <2>6, <2>7 DEF ClientCall
<1>2. CASE \E n \in ClientSegs : \E bases \in [0 .. n - 1 -> Bases] : SwitchToPm(n, bases)
  BY <1>2, SwitchToPmKeeps
<1>3. CASE \E k \in HostKinds : MakeHostSelector(k)
  BY <1>3, MakeHostSelectorKeeps
<1> QED BY <1>1, <1>2, <1>3 DEF LdtNext

(* So does a step of somebody else.                                        *)
LEMMA StutterKeeps ==
  ASSUME IInv, UNCHANGED ldtVars
  PROVE  IInv' /\ Stays
BY DEF ldtVars, IInv, Numbers, Order, DescriptorsDescribe, HostSelectorsKept, NullUntilExhausted,
       Effective, Stays

(* The strengthened invariant holds of a table of any size: every call of  *)
(* int31 and switch_to_pm keeps it.                                        *)
THEOREM LdtInvariant == LdtSpec => []IInv
<1>1. IInv /\ [LdtNext]_ldtVars => IInv'
  BY StepKeeps, StutterKeeps
<1> QED BY <1>1, InitEstablishes, PTL DEF LdtSpec

(* set_desc, 0007h to 000Ch and 0100h: a descriptor describes what its     *)
(* holder last asked for, through every packing, alias and copy.           *)
THEOREM DescriptorsFaithful == LdtSpec => []DescriptorsDescribe
<1>1. IInv => DescriptorsDescribe
  BY DEF IInv
<1> QED BY <1>1, LdtInvariant, PTL

(* entry_sel, low_sel and cb_stack: what the host made for itself is never *)
(* written by a client's call, nor by another selector of the host's.      *)
THEOREM HostSelectorsSafe == LdtSpec => []HostSelectorsKept
<1>1. IInv => HostSelectorsKept
  BY DEF IInv
<1> QED BY <1>1, LdtInvariant, PTL

(* The null descriptor is written only once alloc_sel has nothing left.    *)
THEOREM NullSafe == LdtSpec => []NullUntilExhausted
<1>1. IInv => NullUntilExhausted
  BY DEF IInv
<1> QED BY <1>1, LdtInvariant, PTL

(* alloc_sel never hands out a selector again, whoever asks and however    *)
(* many at a time.                                                         *)
THEOREM SelectorsGrantedOnce == LdtSpec => GrantedOnce
<1>1. IInv /\ [LdtNext]_ldtVars => [\A i \in Indices : grant[i] # 0 => grant'[i] = grant[i]]_ldtVars
  BY StepKeeps DEF Stays
<1> QED BY <1>1, LdtInvariant, PTL DEF LdtSpec, GrantedOnce

-----------------------------------------------------------------------------
(* The numbers of grants do not outgrow the table: each grant but none     *)
(* holds a selector that has been handed out.                              *)
LEMMA SerialBounded ==
  ASSUME Numbers, Order
  PROVE  Serial \in 1 .. nextSel
<1> DEFINE given == {i \in Indices : grant[i] # 0}
           f == [i \in given |-> grant[i]]
<1>1. Count \in Nat /\ nextSel \in Nat /\ 1 <= nextSel
  BY LdtAssumption, SMT DEF Numbers
<1>2. given \subseteq 1 .. nextSel - 1
  BY <1>1, SMT DEF Order, Indices
<1>3. IsFiniteSet(1 .. nextSel - 1) /\ Cardinality(1 .. nextSel - 1) = nextSel - 1
  BY <1>1, FS_Interval
<1>4. IsFiniteSet(given) /\ Cardinality(given) <= nextSel - 1
  <2> HIDE DEF given
  <2> QED BY <1>2, <1>3, FS_Subset
<1>5. f \in Surjection(given, Grants \ {0})
  BY DEF Surjection, Grants
<1>6. IsFiniteSet(Grants \ {0}) /\ Cardinality(Grants \ {0}) <= Cardinality(given)
  <2> HIDE DEF f, given
  <2> QED BY <1>4, <1>5, FS_Surjection
<1>7. Cardinality(Grants \ {0}) \in Nat /\ Cardinality(given) \in Nat
  <2> HIDE DEF given
  <2> QED BY <1>4, <1>6, FS_CardinalityType
<1> HIDE DEF given
<1> QED BY <1>1, <1>4, <1>6, <1>7, SMT DEF Serial

GrantsBounded == \A i \in Indices : grant[i] \in 0 .. Count

LEMMA GrantsStayBounded ==
  ASSUME IInv, GrantsBounded, LdtNext
  PROVE  GrantsBounded'
<1>1. Count \in Nat /\ nextSel \in 1 .. Count /\ Serial \in 1 .. nextSel
  BY SerialBounded, LdtAssumption, SMT DEF IInv, Numbers
<1>2. ASSUME NEW m, Takes(m) PROVE GrantsBounded'
  <2>1. Serial \in 0 .. Count
    BY <1>1, SMT
  <2> QED BY <1>2, <2>1 DEF Takes, GrantsBounded
<1>3. ASSUME grant' = grant PROVE GrantsBounded'
  BY <1>3 DEF GrantsBounded
<1>4. ASSUME NEW m, NEW b, SwitchToPm(m, b) PROVE GrantsBounded'
  <2> DEFINE got == Run(m) \intersect Indices
  <2>1. \A i \in got : Serial + i - nextSel \in 0 .. Count
    BY <1>1, SMT DEF Run, Indices
  <2>2. grant' = [i \in Indices |-> IF i \in got THEN Serial + i - nextSel ELSE grant[i]]
    BY <1>4 DEF SwitchToPm
  <2> HIDE DEF got
  <2> QED BY <2>1, <2>2 DEF GrantsBounded
<1>5. CASE ClientCall
  <2>1. \/ grant' = grant
        \/ \E m : Takes(m)
    BY <1>5 DEF ClientCall, AllocateDescriptors, SetSegmentBase, SetSegmentLimit, SetAccessRights,
                CreateAlias, CopyDescriptor, AllocateDosBlock, TakesSel
  <2> QED BY <1>2, <1>3, <2>1
<1>6. ASSUME NEW k \in HostKinds, MakeHostSelector(k) PROVE GrantsBounded'
  BY <1>2, <1>3, <1>6 DEF MakeHostSelector, TakesSel
<1> QED BY <1>4, <1>5, <1>6 DEF LdtNext

(* What the heap's client and the host hold, by type.                      *)
OwedTyped ==
  /\ hostStack \in {None, 0} \union HeapBase .. HeapTop
  /\ {cb_ss, tableFull, astray} \subseteq BOOLEAN
  /\ DOMAIN owed \subseteq HeapBase .. HeapTop /\ owed \in [DOMAIN owed -> Lengths \union {0}]

LEMMA OwedStaysTyped ==
  ASSUME OwedTyped, HeapNext
  PROVE  OwedTyped'
<1>1. ASSUME NEW len \in Lengths, AllocateBlock(len) PROVE OwedTyped'
  BY <1>1 DEF OwedTyped, AllocateBlock
<1>2. ASSUME NEW handle, FreeBlock(handle) PROVE OwedTyped'
  BY <1>2 DEF OwedTyped, FreeBlock
<1>3. ASSUME CallbackStack PROVE OwedTyped'
  BY <1>3 DEF OwedTyped, CallbackStack
<1>4. ASSUME TableFills PROVE OwedTyped'
  BY <1>4 DEF OwedTyped, TableFills
<1> QED BY <1>1, <1>2, <1>3, <1>4 DEF HeapNext

MemoryInv == HeapInv /\ OwedTyped /\ IInv /\ GrantsBounded

(* The composition TLC checks: heap and table keep their types, whichever  *)
(* of them the calls of int31 and switch_to_pm reach.                      *)
THEOREM MemoryTypes == Spec => []TypesOK
<1>1. Init => MemoryInv
  <2>1. LdtInit => GrantsBounded
    BY LdtAssumption, SMT DEF LdtInit, GrantsBounded
  <2>2. HeapInit => OwedTyped
    BY DEF HeapInit, OwedTyped
  <2> QED BY <2>1, <2>2, HeapStarts, InitEstablishes DEF Init, MemoryInv
<1>2. MemoryInv /\ [Next]_<<part, heapVars, ldtVars>> => MemoryInv'
  <2>1. ASSUME MemoryInv, HeapNext, UNCHANGED ldtVars PROVE MemoryInv'
    <3>1. HeapInv' /\ OwedTyped'
      BY <2>1, HeapStep, OwedStaysTyped DEF MemoryInv
    <3>2. IInv' /\ GrantsBounded'
      BY <2>1, StutterKeeps DEF MemoryInv, GrantsBounded, ldtVars
    <3> QED BY <3>1, <3>2 DEF MemoryInv
  <2>2. ASSUME MemoryInv, LdtNext, UNCHANGED heapVars PROVE MemoryInv'
    <3>1. HeapInv' /\ OwedTyped'
      BY <2>2, HeapStep DEF MemoryInv, OwedTyped, heapVars
    <3>2. IInv' /\ GrantsBounded'
      BY <2>2, StepKeeps, GrantsStayBounded DEF MemoryInv
    <3> QED BY <3>1, <3>2 DEF MemoryInv
  <2>3. ASSUME MemoryInv, UNCHANGED heapVars, UNCHANGED ldtVars PROVE MemoryInv'
    <3>1. HeapInv' /\ OwedTyped'
      BY <2>3, HeapStep DEF MemoryInv, OwedTyped, heapVars
    <3>2. IInv' /\ GrantsBounded'
      BY <2>3, StutterKeeps DEF MemoryInv, GrantsBounded, ldtVars
    <3> QED BY <3>1, <3>2 DEF MemoryInv
  <2> QED BY <2>1, <2>2, <2>3 DEF Next
<1>3. MemoryInv => TypesOK
  <2>1. HeapInv /\ OwedTyped => HeapTypeOK
    BY DEF HeapInv, Listed, OwedTyped, HeapTypeOK
  <2>2. IInv /\ GrantsBounded => LdtTypeOK
    BY DEF IInv, Numbers, GrantsBounded, LdtTypeOK
  <2> QED BY <2>1, <2>2 DEF MemoryInv, TypesOK
<1> QED BY <1>1, <1>2, <1>3, PTL DEF Spec
=============================================================================
