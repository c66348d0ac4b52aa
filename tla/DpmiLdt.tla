------------------------------- MODULE DpmiLdt -------------------------------
(***************************************************************************)
(* The DPMI host's descriptor table: alloc_sel and set_desc of             *)
(* src/dpmi.cpp, the INT 31h functions 0000h-000Ch and 0100h, the          *)
(* selectors switch_to_pm makes for a client and those the host makes for  *)
(* itself (entry_sel, low_sel, cb_stack).                                  *)
(*                                                                         *)
(* A selector is its index in the table.  A descriptor keeps its base, its *)
(* 20-bit limit field and the granularity bit; code, size and access bits  *)
(* are left out.  want, grant and loose are the client's view and no code  *)
(* reads them: what each descriptor was last asked to describe, in which   *)
(* grant it was handed out, and which limits the code makes too large.     *)
(***************************************************************************)
EXTENDS Integers, FiniteSets

CONSTANTS
  Count,        (* kLdtCount, 1024                                         *)
  MaxField,     (* 0xFFFFF, the largest limit that is counted in bytes     *)
  Page,         (* 4096, the unit of a granular limit                      *)
  Paragraph,    (* 16                                                      *)
  ClientSegs,   (* the selectors switch_to_pm makes: 4, 5 with environment *)
  PspAt,        (* which of them is the PSP's, counting from 0: 2 (ES)     *)
  PspLimit,     (* its limit, 0xFF                                         *)
  SegLimit,     (* the limit of the others, 0xFFFF                         *)
  HostKinds,    (* the host's own selectors: entry, low memory, callbacks  *)
  HostWants,    (* what each of them describes                             *)
  Bases, Limits, Runs, Paras   (* the arguments of the client's calls      *)

Indices  == 0 .. Count - 1
MaxLimit == (MaxField + 1) * Page - 1

ASSUME LdtAssumption ==
  /\ Count \in Nat \ {0} /\ MaxField \in Nat /\ Page \in Nat \ {0} /\ Paragraph \in Nat \ {0}
  /\ Bases \subseteq Nat /\ Limits \subseteq 0 .. MaxLimit
  /\ Runs \subseteq Nat /\ Paras \subseteq Nat /\ ClientSegs \subseteq Nat
  /\ {PspLimit, SegLimit} \subseteq 0 .. MaxLimit
  /\ HostWants \in [HostKinds -> [base : Nat, limit : 0 .. MaxLimit]]

VARIABLES
  ldt,       (* the descriptors                                            *)
  nextSel,   (* Dpmi::next_sel_                                            *)
  hostSel,   (* entry_sel_, low_sel_, cb_ss_: 0 until made                 *)
  want,      (* what the holder of a descriptor asked it to describe       *)
  grant,     (* the number of the grant a descriptor belongs to, 0 if none *)
  loose      (* descriptors whose limit the code makes too large           *)

ldtVars == <<ldt, nextSel, hostSel, want, grant, loose>>

Null    == [base |-> 0, field |-> 0, gran |-> FALSE]
Nothing == [base |-> 0, limit |-> 0]

(* What read_desc and set_seg make of a descriptor's limit.                *)
Effective(d) == IF d.gran THEN d.field * Page + Page - 1 ELSE d.field

(* Mutant: the limit is shifted but the granularity bit is not set.        *)
EncodeForgetsBit(base, limit) ==
  [base |-> base, field |-> IF limit > MaxField THEN limit \div Page ELSE limit, gran |-> FALSE]

(* set_desc.                                                               *)
Encode(base, limit) ==
  IF limit > MaxField
  THEN [base |-> base, field |-> limit \div Page, gran |-> TRUE]
  ELSE [base |-> base, field |-> limit, gran |-> FALSE]

(* A byte limit as the table can hold it: rounded up to the last byte of   *)
(* its page when it is above 1 MiB.                                        *)
AsHeld(limit) ==
  IF limit > MaxField THEN (limit \div Page) * Page + Page - 1 ELSE limit

(* Mutant: the last selector is never handed out.                          *)
OneIsKept(n) == nextSel + n < Count

(* alloc_sel has n selectors left.                                         *)
Left(n)  == nextSel + n <= Count
Run(n)   == nextSel .. nextSel + n - 1
Grants   == {grant[i] : i \in Indices}
Serial   == Cardinality(Grants \ {0}) + 1

(* Mutant: the next free selector moves by one, whatever was asked.        *)
TakesOne(n) ==
  /\ nextSel' = nextSel + 1
  /\ grant' = [i \in Indices |-> IF i \in Run(n) THEN Serial ELSE grant[i]]

(* The selectors of Run(n) are handed out.                                 *)
Takes(n) ==
  /\ nextSel' = nextSel + n
  /\ grant' = [i \in Indices |-> IF i \in Run(n) THEN Serial ELSE grant[i]]

(* Mutant: alloc_sel's failure is served with selector 1.                  *)
FirstOnFailure == IF Left(1) THEN nextSel ELSE 1

(* What alloc_sel() answers to callers that do not look: 0 if none is left *)
Sel == IF Left(1) THEN nextSel ELSE 0

TakesSel == IF Left(1) THEN Takes(1) ELSE UNCHANGED <<nextSel, grant>>

(* Descriptor i is made to describe n bytes at base, by set_desc.          *)
Describe(i, base, limit) ==
  /\ ldt' = [ldt EXCEPT ![i] = Encode(base, limit)]
  /\ want' = [want EXCEPT ![i] = [base |-> base, limit |-> limit]]

----------------------------------------------------------------------------
LdtInit ==
  /\ ldt = [i \in Indices |-> Null]
  /\ nextSel = 1
  /\ hostSel = [k \in HostKinds |-> 0]
  /\ want = [i \in Indices |-> Nothing]
  /\ grant = [i \in Indices |-> 0]
  /\ loose = {}

(* The client's calls name descriptors that were handed out, the host's    *)
(* excepted.                                                               *)
Held == {i \in Indices : grant[i] # 0 /\ \A k \in HostKinds : hostSel[k] # i}

(* 0000h.  None asked for is one.                                          *)
AllocateDescriptors(cx) ==
  LET n == IF cx = 0 THEN 1 ELSE cx
  IN  /\ Left(n)
      /\ Takes(n)
      /\ ldt' = [i \in Indices |-> IF i \in Run(n) THEN Null ELSE ldt[i]]
      /\ want' = [i \in Indices |-> IF i \in Run(n) THEN Nothing ELSE want[i]]
      /\ loose' = loose \ Run(n)
      /\ UNCHANGED hostSel

(* 0007h.                                                                  *)
SetSegmentBase(i, base) ==
  /\ ldt' = [ldt EXCEPT ![i].base = base]
  /\ want' = [want EXCEPT ![i].base = base]
  /\ UNCHANGED <<nextSel, hostSel, grant, loose>>

(* 0008h.  A granularity bit that is already set stays set, so a byte      *)
(* limit after a page limit is counted in pages.                           *)
SetSegmentLimit(i, limit) ==
  LET d == Encode(ldt[i].base, limit)
  IN  /\ ldt' = [ldt EXCEPT ![i] = [d EXCEPT !.gran = d.gran \/ ldt[i].gran]]
      /\ want' = [want EXCEPT ![i].limit = limit]
      /\ loose' = IF ldt[i].gran /\ ~d.gran THEN loose \union {i} ELSE loose \ {i}
      /\ UNCHANGED <<nextSel, hostSel, grant>>

(* 0009h, of which only the granularity bit is kept here: the limit field  *)
(* stays, and what it describes is the client's choice.                    *)
SetAccessRights(i, gran) ==
  /\ ldt' = [ldt EXCEPT ![i].gran = gran]
  /\ want' = [want EXCEPT ![i].limit = Effective([ldt[i] EXCEPT !.gran = gran])]
  /\ loose' = loose \ {i}
  /\ UNCHANGED <<nextSel, hostSel, grant>>

(* 000Ah.                                                                  *)
CreateAlias(i) ==
  /\ Left(1)
  /\ Takes(1)
  /\ ldt' = [ldt EXCEPT ![nextSel] = ldt[i]]
  /\ want' = [want EXCEPT ![nextSel] = want[i]]
  /\ loose' = IF i \in loose THEN loose \union {nextSel} ELSE loose \ {nextSel}
  /\ UNCHANGED hostSel

(* 000Bh and 000Ch: a client reads descriptor j and writes it to i.        *)
CopyDescriptor(i, j) ==
  /\ ldt' = [ldt EXCEPT ![i] = ldt[j]]
  /\ want' = [want EXCEPT ![i] = want[j]]
  /\ loose' = IF j \in loose THEN loose \union {i} ELSE loose \ {i}
  /\ UNCHANGED <<nextSel, hostSel, grant>>

(* 0100h, once alloc_dos has found the paragraphs at base.  alloc_sel's    *)
(* answer is not looked at, and the limit of no paragraphs wraps.          *)
AllocateDosBlock(base, paras) ==
  LET limit == (paras * Paragraph - 1) % (MaxLimit + 1)
  IN  /\ TakesSel
      /\ ldt' = [ldt EXCEPT ![Sel] = Encode(base, limit)]
      /\ want' = [want EXCEPT ![Sel] = [base |-> base, limit |-> IF paras = 0 THEN 0 ELSE limit]]
      /\ loose' = IF paras = 0 THEN loose \union {Sel} ELSE loose \ {Sel}
      /\ UNCHANGED hostSel

(* switch_to_pm: n selectors, each by alloc_sel, then their descriptors:   *)
(* segment k of the client at bases[k], the PSP's shorter than the others. *)
(* Those alloc_sel cannot serve are all written to index 0, the last one   *)
(* last.                                                                   *)
Segment(bases, k) == [base |-> bases[k], limit |-> IF k = PspAt THEN PspLimit ELSE SegLimit]

SwitchToPm(n, bases) ==
  LET got     == Run(n) \intersect Indices
      wrote   == IF Left(n) THEN got ELSE got \union {0}
      seen(i) == Segment(bases, IF i = 0 THEN n - 1 ELSE i - nextSel)
  IN  /\ nextSel' = nextSel + Cardinality(got)
      /\ grant' = [i \in Indices |-> IF i \in got THEN Serial + i - nextSel ELSE grant[i]]
      /\ ldt' = [i \in Indices |-> IF i \in wrote THEN Encode(seen(i).base, seen(i).limit) ELSE ldt[i]]
      /\ want' = [i \in Indices |-> IF i \in wrote THEN seen(i) ELSE want[i]]
      /\ loose' = loose \ wrote
      /\ UNCHANGED hostSel

(* entry_sel, low_sel, cb_stack: made at the first use.                    *)
MakeHostSelector(k) ==
  /\ hostSel[k] = 0
  /\ hostSel' = [hostSel EXCEPT ![k] = Sel]
  /\ TakesSel
  /\ Describe(Sel, HostWants[k].base, HostWants[k].limit)
  /\ loose' = loose \ {Sel}

ClientCall ==
  \/ \E n \in Runs : AllocateDescriptors(n)
  \/ \E i \in Held, b \in Bases : SetSegmentBase(i, b)
  \/ \E i \in Held, l \in Limits : SetSegmentLimit(i, l)
  \/ \E i \in Held, g \in BOOLEAN : SetAccessRights(i, g)
  \/ \E i \in Held : CreateAlias(i)
  \/ \E i, j \in Held : CopyDescriptor(i, j)
  \/ \E b \in Bases, p \in Paras : AllocateDosBlock(b, p)

LdtNext ==
  \/ ClientCall
  \/ \E n \in ClientSegs : \E bases \in [0 .. n - 1 -> Bases] : SwitchToPm(n, bases)
  \/ \E k \in HostKinds : MakeHostSelector(k)

LdtSpec == LdtInit /\ [][LdtNext]_ldtVars

----------------------------------------------------------------------------
Descriptor == [base : Nat, field : 0 .. MaxField, gran : BOOLEAN]

LdtTypeOK ==
  /\ ldt \in [Indices -> Descriptor]
  /\ nextSel \in 1 .. Count
  /\ hostSel \in [HostKinds -> Indices]
  /\ want \in [Indices -> [base : Nat, limit : 0 .. MaxLimit]]
  /\ grant \in [Indices -> 0 .. Count]
  /\ loose \subseteq Indices

(* A descriptor describes what its holder last asked for, through grants,  *)
(* aliases, copies and the packing of the limit: the base exactly, and the *)
(* limit exactly up to its page.  In two cases the code makes the limit    *)
(* larger, and then by just so much: a limit below 1 MiB set while the     *)
(* granularity bit is there is counted in pages (dpmi.cpp:662), and a DOS  *)
(* block of no paragraphs is given all 4 GiB.                              *)
TooLarge(limit) ==
  {limit * Page + Page - 1} \union (IF limit = 0 THEN {MaxLimit} ELSE {})

DescriptorsDescribe ==
  \A i \in Indices :
    /\ ldt[i].base = want[i].base
    /\ Effective(ldt[i]) \in IF i \in loose THEN TooLarge(want[i].limit)
                                            ELSE {AsHeld(want[i].limit)}

(* A selector that was handed out is never handed out again, to the client *)
(* or to the host, whatever order runs and single selectors are asked in.  *)
GrantedOnce == [][\A i \in Indices : grant[i] # 0 => grant'[i] = grant[i]]_ldtVars

(* The host's own selectors go on describing what the host needs them for  *)
(* while clients allocate, alias and rewrite theirs, once there was a      *)
(* descriptor left to make them.                                           *)
HostSelectorsKept ==
  \A k \in HostKinds :
    hostSel[k] # 0 => /\ ldt[hostSel[k]].base = HostWants[k].base
                      /\ Effective(ldt[hostSel[k]]) = AsHeld(HostWants[k].limit)

(* The null descriptor is written by nobody as long as the table has room: *)
(* only a selector that could not be allocated lands on it.                *)
NullUntilExhausted == ldt[0] # Null => nextSel = Count
=============================================================================
