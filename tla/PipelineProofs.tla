--------------------------- MODULE PipelineProofs ---------------------------
(***************************************************************************)
(* Proofs about IndexText, and so about the parsers of Sidecar, for        *)
(* indexes of any length, any set of lines, and integers of every width;   *)
(* and, with what they show of the parsers, about Pipeline: both programs, *)
(* for every set of editions, uploads and selectors.                       *)
(***************************************************************************)
EXTENDS IndexText, Pipeline, SequenceTheorems, WellFoundedInduction, TLAPS

------------------------------------------------------------------------------
\* Induction.

\* A nonempty set of natural numbers has a least element.
LEMMA LeastNat ==
    ASSUME NEW T \in SUBSET Nat, T # {}
    PROVE  \E m \in T : \A n \in T : m <= n
  <1> DEFINE R == OpToRel(<, Nat)
  <1>1. IsWellFoundedOn(R, Nat)
    BY NatLessThanWellFounded
  <1>2. \A x, y \in Nat : x < y => <<x, y>> \in R
    BY DEF OpToRel
  <1> HIDE DEF R
  <1>3. \E m \in T : \A n \in T : ~ (<<n, m>> \in R)
    BY <1>1, WFMin
  <1>4. \E m \in T : \A n \in T : ~ (n < m)
    BY <1>2, <1>3, Zenon
  <1>5. \A m, n \in Nat : ~ (n < m) => m <= n
    OBVIOUS
  <1> QED
    BY <1>4, <1>5, Zenon

\* Induction, for sets: the library's rule is about formulas, which the provers
\* cannot instantiate.
LEMMA SetInduction ==
    ASSUME NEW T \in SUBSET Nat, 0 \in T, \A n \in T : n + 1 \in T
    PROVE  T = Nat
  <1> SUFFICES ASSUME Nat \ T # {} PROVE FALSE
    OBVIOUS
  <1>1. PICK m \in Nat \ T : \A n \in Nat \ T : m <= n
    BY LeastNat
  <1> QED
    BY <1>1, m - 1 \in Nat

------------------------------------------------------------------------------
\* The loops over lines.

\* What the nth pass of the loop makes of what was collected `before' it.
Grown(before, places, s, n) ==
    IF n \in places THEN Append(before, s[n]) ELSE before

\* f is what was collected after each of the first n passes.
IsRun(f, s, places, n) ==
    f[0] = <<>> /\ \A i \in 1..n : f[i] = Grown(f[i - 1], places, s, i)

\* The loop has a run, and collects a sequence of what it runs over ...
LEMMA RunExists ==
    ASSUME NEW S, NEW s \in Seq(S), NEW places
    PROVE  \E f \in [0..Len(s) -> Seq(S)] : IsRun(f, s, places, Len(s))
  <1> DEFINE T == {n \in Nat : n <= Len(s) =>
                      \E f \in [0..n -> Seq(S)] : IsRun(f, s, places, n)}
  <1>l. Len(s) \in Nat
    OBVIOUS
  <1>1. 0 \in T
    <2>1. [i \in 0..0 |-> <<>>] \in [0..0 -> Seq(S)] /\ IsRun([i \in 0..0 |-> <<>>], s, places, 0)
      BY DEF IsRun
    <2> QED  BY <2>1
  <1>2. ASSUME NEW n \in T  PROVE n + 1 \in T
    <2>0. n \in Nat
      OBVIOUS
    <2> SUFFICES ASSUME n + 1 <= Len(s)
                 PROVE  \E f \in [0..(n + 1) -> Seq(S)] : IsRun(f, s, places, n + 1)
      BY <2>0
    <2>1. PICK f \in [0..n -> Seq(S)] : IsRun(f, s, places, n)
      BY <2>0, <1>l
    <2> DEFINE x == Grown(f[n], places, s, n + 1)
               g == [i \in 0..(n + 1) |-> IF i = n + 1 THEN x ELSE f[i]]
    <2>2. s[n + 1] \in S /\ f[n] \in Seq(S)
      BY <2>0, <1>l, ElementOfSeq
    <2>3. x \in Seq(S)
      BY <2>2 DEF Grown
    <2>4. g[n + 1] = x /\ \A i \in 0..n : g[i] = f[i]
      BY <2>0
    <2> HIDE DEF x
    <2>5. g \in [0..(n + 1) -> Seq(S)]
      BY <2>0, <2>3
    <2> HIDE DEF g
    <2>6. g[0] = <<>>
      <3>1. f[0] = <<>> /\ 0 \in 0..n
        BY <2>0, <2>1 DEF IsRun
      <3> QED  BY <3>1, <2>4
    <2>7. ASSUME NEW i \in 1..(n + 1)  PROVE g[i] = Grown(g[i - 1], places, s, i)
      <3>1. CASE i = n + 1
        <4>1. g[i - 1] = f[n]
          BY <3>1, <2>0, <2>4
        <4> QED  BY <3>1, <4>1, <2>4 DEF x
      <3>2. CASE i # n + 1
        <4>1. i \in 1..n /\ i \in 0..n /\ i - 1 \in 0..n
          BY <2>0, <2>7, <3>2
        <4> QED  BY <4>1, <2>1, <2>4 DEF IsRun
      <3> QED  BY <3>1, <3>2
    <2>8. IsRun(g, s, places, n + 1)
      BY <2>6, <2>7 DEF IsRun
    <2> QED  BY <2>5, <2>8
  <1>3. T = Nat
    <2>1. T \in SUBSET Nat
      OBVIOUS
    <2> HIDE DEF T
    <2> QED  BY <1>1, <1>2, <2>1, SetInduction
  <1> QED  BY <1>3, <1>l

\* ... and only one: two runs over the same elements arrive at the same.
LEMMA RunsAgree ==
    ASSUME NEW m \in Nat, NEW s, NEW t, NEW I, NEW J, NEW f, NEW g,
           IsRun(f, s, I, m), IsRun(g, t, J, m),
           \A i \in 1..m : s[i] = t[i] /\ (i \in I <=> i \in J)
    PROVE  f[m] = g[m]
  <1> DEFINE T == {n \in Nat : n <= m => f[n] = g[n]}
  <1>1. 0 \in T
    BY DEF IsRun
  <1>2. ASSUME NEW n \in T  PROVE n + 1 \in T
    <2> SUFFICES ASSUME n + 1 <= m  PROVE f[n + 1] = g[n + 1]
      OBVIOUS
    <2>1. n \in Nat /\ n + 1 \in 1..m /\ (n + 1) - 1 = n
      OBVIOUS
    <2>2. f[n] = g[n]
      BY <2>1
    <2> QED  BY <2>1, <2>2 DEF IsRun, Grown
  <1>3. T = Nat
    <2>1. T \in SUBSET Nat
      OBVIOUS
    <2> HIDE DEF T
    <2> QED  BY <1>1, <1>2, <2>1, SetInduction
  <1> QED  BY <1>3

\* Kept() is where the run of the loop arrives.
LEMMA KeptIsRun ==
    ASSUME NEW S, NEW s \in Seq(S), NEW places
    PROVE  \E f : /\ IsRun(f, s, places, Len(s)) /\ f[Len(s)] \in Seq(S)
                  /\ Kept(s, places) = f[Len(s)]
  <1>l. Len(s) \in Nat
    OBVIOUS
  <1> DEFINE Eq(f) == f = [n \in 0..Len(s) |->
                             IF n = 0 THEN <<>>
                             ELSE IF n \in places THEN Append(f[n - 1], s[n])
                             ELSE f[n - 1]]
             kept == CHOOSE f : Eq(f)
  <1>1. PICK g \in [0..Len(s) -> Seq(S)] : IsRun(g, s, places, Len(s))
    BY RunExists
  <1>2. Eq(g)
    <2> DEFINE rhs == [n \in 0..Len(s) |->
                             IF n = 0 THEN <<>>
                             ELSE IF n \in places THEN Append(g[n - 1], s[n])
                             ELSE g[n - 1]]
    <2>1. ASSUME NEW n \in 0..Len(s)  PROVE g[n] = rhs[n]
      <3>1. CASE n = 0
        BY <3>1, <1>1 DEF IsRun
      <3>2. CASE n # 0
        <4>1. n \in 1..Len(s)
          BY <3>2, <1>l
        <4> QED  BY <4>1, <3>2, <1>1 DEF IsRun, Grown
      <3> QED  BY <3>1, <3>2
    <2> QED  BY <1>1, <2>1
  <1>3. Eq(kept)
    BY <1>2
  <1>4. Kept(s, places) = kept[Len(s)]
    BY DEF Kept
  <1> HIDE DEF kept
  <1>5. IsRun(kept, s, places, Len(s))
    <2>1. \A n \in 0..Len(s) : kept[n] = IF n = 0 THEN <<>>
                             ELSE IF n \in places THEN Append(kept[n - 1], s[n])
                             ELSE kept[n - 1]
      BY <1>3
    <2>2. kept[0] = <<>>
      BY <2>1, <1>l
    <2>3. ASSUME NEW i \in 1..Len(s)  PROVE kept[i] = Grown(kept[i - 1], places, s, i)
      <3>1. i \in 0..Len(s) /\ i # 0
        BY <1>l
      <3> QED  BY <3>1, <2>1 DEF Grown
    <2> QED  BY <2>2, <2>3 DEF IsRun
  <1>6. kept[Len(s)] = g[Len(s)]
    BY <1>l, <1>1, <1>5, RunsAgree
  <1>7. g[Len(s)] \in Seq(S)
    BY <1>l, <1>1
  <1> QED  BY <1>4, <1>5, <1>6, <1>7

\* One more element: it is appended to what was collected, or passed over.
LEMMA KeptOfAppend ==
    ASSUME NEW S, NEW s \in Seq(S), NEW x \in S, NEW I, NEW J,
           \A i \in 1..Len(s) : i \in I <=> i \in J
    PROVE  Kept(Append(s, x), J)
             = IF Len(s) + 1 \in J THEN Append(Kept(s, I), x) ELSE Kept(s, I)
  <1> DEFINE t == Append(s, x)
             m == Len(s)
  <1>1. m \in Nat /\ t \in Seq(S) /\ Len(t) = m + 1 /\ t[m + 1] = x
        /\ \A i \in 1..m : t[i] = s[i]
    OBVIOUS
  <1>2. PICK f : IsRun(f, s, I, m) /\ Kept(s, I) = f[m]
    BY KeptIsRun
  <1> HIDE DEF t
  <1>3. PICK g : IsRun(g, t, J, m + 1) /\ Kept(t, J) = g[m + 1]
    BY <1>1, KeptIsRun
  <1> HIDE DEF m
  <1>4. IsRun(g, t, J, m)
    BY <1>1, <1>3 DEF IsRun
  <1>5. f[m] = g[m]
    <2>1. \A i \in 1..m : s[i] = t[i] /\ (i \in I <=> i \in J)
      BY <1>1 DEF m
    <2> QED  BY <1>1, <1>2, <1>4, <2>1, RunsAgree
  <1>6. g[m + 1] = Grown(g[m], J, t, m + 1)
    BY <1>1, <1>3 DEF IsRun
  <1> QED  BY <1>1, <1>2, <1>3, <1>5, <1>6 DEF Grown, t, m

\* The lines that the parsers look at are lines of the index.
LEMMA LinesKept ==
    ASSUME NEW S, NEW s \in Seq(S)
    PROVE  /\ InventoryLines(s) \in Seq(S) /\ JsonLines(s) \in Seq(S)
  BY KeptIsRun DEF InventoryLines, JsonLines

\* One more line of an .idx is appended to the inventory lines, or passed over ...
LEMMA InventoryGrows ==
    ASSUME NEW S, NEW s \in Seq(S), NEW x \in S
    PROVE  InventoryLines(Append(s, x))
             = IF IsInventory(x) THEN Append(InventoryLines(s), x) ELSE InventoryLines(s)
  <1> DEFINE I == {i \in DOMAIN s : IsInventory(s[i])}
             t == Append(s, x)
             J == {i \in DOMAIN t : IsInventory(t[i])}
  <1>1. /\ Len(s) \in Nat /\ DOMAIN s = 1..Len(s) /\ DOMAIN t = 1..(Len(s) + 1)
        /\ t[Len(s) + 1] = x /\ \A i \in 1..Len(s) : t[i] = s[i]
    BY AppendProperties, LenProperties
  <1> HIDE DEF t
  <1>2. \A i \in 1..Len(s) : i \in I <=> i \in J
    BY <1>1
  <1>3. Len(s) + 1 \in J <=> IsInventory(x)
    BY <1>1
  <1> HIDE DEF I, J
  <1>4. Kept(Append(s, x), J)
             = IF Len(s) + 1 \in J THEN Append(Kept(s, I), x) ELSE Kept(s, I)
    BY <1>2, KeptOfAppend
  <1> QED  BY <1>3, <1>4 DEF InventoryLines, I, J, t

\* ... and so is one more line of an .index.
LEMMA JsonGrows ==
    ASSUME NEW S, NEW s \in Seq(S), NEW x \in S
    PROVE  JsonLines(Append(s, x))
             = IF x.json # "blank" THEN Append(JsonLines(s), x) ELSE JsonLines(s)
  <1> DEFINE I == {i \in DOMAIN s : s[i].json # "blank"}
             t == Append(s, x)
             J == {i \in DOMAIN t : t[i].json # "blank"}
  <1>1. /\ Len(s) \in Nat /\ DOMAIN s = 1..Len(s) /\ DOMAIN t = 1..(Len(s) + 1)
        /\ t[Len(s) + 1] = x /\ \A i \in 1..Len(s) : t[i] = s[i]
    BY AppendProperties, LenProperties
  <1> HIDE DEF t
  <1>2. \A i \in 1..Len(s) : i \in I <=> i \in J
    BY <1>1
  <1>3. Len(s) + 1 \in J <=> x.json # "blank"
    BY <1>1
  <1> HIDE DEF I, J
  <1>4. Kept(Append(s, x), J)
             = IF Len(s) + 1 \in J THEN Append(Kept(s, I), x) ELSE Kept(s, I)
    BY <1>2, KeptOfAppend
  <1> QED  BY <1>3, <1>4 DEF JsonLines, I, J, t

------------------------------------------------------------------------------
\* The parsers.

\* What parse_nomads_idx() makes of the inventory lines L, without the detour over
\* entries that have no length yet; and when it accepts them.
NomadsEntry(L, i) ==
    [record |-> L[i].record, offset |-> L[i].offset,
     length |-> IF i = Len(L) THEN 0 ELSE L[i + 1].offset - L[i].offset,
     param |-> L[i].param, level |-> L[i].level, step |-> L[i].step,
     member |-> parse_nomads_member(L[i])]
NomadsEntries(L) == [i \in 1..Len(L) |-> NomadsEntry(L, i)]
NomadsOk(L) ==
    /\ \A i \in 1..Len(L) : ValidNomads(L[i])
    /\ \A i \in 1..(Len(L) - 1) : L[i].offset < L[i + 1].offset

\* It does: the second loop, which fills in the lengths, changes nothing else.
LEMMA NomadsParsed ==
    ASSUME NEW S, NEW s \in Seq(S)
    PROVE  parse_nomads_idx(s) = IF NomadsOk(InventoryLines(s))
                                 THEN Parsed(NomadsEntries(InventoryLines(s)))
                                 ELSE ParseError
  <1> DEFINE L == InventoryLines(s)
             n == Len(L)
             Raw(i) == Entry(L[i].record, L[i].offset, L[i].param, L[i].level,
                             L[i].step, parse_nomads_member(L[i]))
             first == [i \in 1..n |-> Raw(i)]
             all == [i \in 1..Len(first) |->
                IF i = Len(first) THEN LastEntry(first)
                ELSE [first[i] EXCEPT !.length = LengthTo(first[i], first[i + 1])]]
  <1>1. L \in Seq(S) /\ n \in Nat
    BY LinesKept
  <1>2. parse_nomads_idx(s)
           = IF (\A i \in 1..n : ValidNomads(L[i])) /\ Increasing(first)
             THEN Parsed(all) ELSE ParseError
    BY DEF parse_nomads_idx
  <1> HIDE DEF L, n
  <1>3. \A i : Raw(i).offset = L[i].offset
    BY DEF Entry
  <1>4. Len(first) = n /\ \A i \in 1..n : first[i] = Raw(i)
    <2> HIDE DEF Raw
    <2> DEFINE V == {Raw(i) : i \in 1..n}
    <2>1. first \in [1..n -> V]
      OBVIOUS
    <2> QED  BY <1>1, <2>1
  <1> HIDE DEF first
  <1>5. Increasing(first) <=> \A i \in 1..(n - 1) : L[i].offset < L[i + 1].offset
    <2>1. \A i \in 1..(n - 1) : i \in 1..n /\ i + 1 \in 1..n
      BY <1>1
    <2> HIDE DEF Raw
    <2> QED  BY <1>3, <1>4, <2>1 DEF Increasing
  <1>6. all = NomadsEntries(L)
    <2>1. ASSUME NEW i \in 1..n
          PROVE  (IF i = n THEN first[n]
                  ELSE [first[i] EXCEPT !.length = first[i + 1].offset - first[i].offset])
                  = NomadsEntry(L, i)
      <3>1. CASE i = n
        BY <3>1, <1>1, <1>4 DEF NomadsEntry, Entry, n
      <3>2. CASE i # n
        <4>1. i \in 1..n /\ i + 1 \in 1..n
          BY <3>2, <1>1
        <4>2. first[i + 1].offset = L[i + 1].offset /\ first[i].offset = L[i].offset
          <5> HIDE DEF Raw
          <5> QED  BY <4>1, <1>3, <1>4
        <4> DEFINE d == L[i + 1].offset - L[i].offset
        <4>3. first[i] = Raw(i)
          BY <4>1, <1>4
        <4>5. NomadsEntry(L, i) = [record |-> L[i].record, offset |-> L[i].offset,
                   length |-> d,
                   param |-> L[i].param, level |-> L[i].level, step |-> L[i].step,
                   member |-> parse_nomads_member(L[i])]
          BY <3>2 DEF NomadsEntry, n
        <4> HIDE DEF d
        <4>4. [Raw(i) EXCEPT !.length = d] = NomadsEntry(L, i)
          BY <4>5 DEF Entry
        <4> HIDE DEF Raw
        <4> QED  BY <3>2, <4>2, <4>3, <4>4 DEF d
      <3> QED  BY <3>1, <3>2
    <2>2. all = [i \in 1..n |->
                  IF i = n THEN first[n]
                  ELSE [first[i] EXCEPT !.length = first[i + 1].offset - first[i].offset]]
      BY <1>4 DEF LastEntry, LengthTo
    <2> HIDE DEF all
    <2> QED  BY <2>1, <2>2 DEF NomadsEntries, n
  <1> HIDE DEF all
  <1> QED  BY <1>2, <1>5, <1>6 DEF NomadsOk, L, n

\* The same of parse_ecmwf_index().
EcmwfOk(L) == \A i \in 1..Len(L) : ValidEcmwf(L[i])
EcmwfEntries(L) == [i \in 1..Len(L) |-> EcmwfEntry(L[i])]

\* Its one loop does this.
LEMMA EcmwfParsed ==
    \A s : parse_ecmwf_index(s) = IF EcmwfOk(JsonLines(s))
                                  THEN Parsed(EcmwfEntries(JsonLines(s)))
                                  ELSE ParseError
  BY DEF parse_ecmwf_index, EcmwfOk, EcmwfEntries

\* The numbers of an entry ...
LEMMA EcmwfEntryFields ==
    \A l : /\ EcmwfEntry(l).record = 0 /\ EcmwfEntry(l).offset = l.offset.value
           /\ EcmwfEntry(l).length = l.length.value
           /\ EcmwfEntry(l).member \in {0, -1} \cup (-IntMax - 1)..IntMax
  BY SidecarAssumption DEF EcmwfEntry, Entry, ToMember

\* ... for either format.
LEMMA NomadsEntryFields ==
    \A L, i : /\ NomadsEntry(L, i).record = L[i].record
              /\ NomadsEntry(L, i).offset = L[i].offset
              /\ NomadsEntry(L, i).length
                   = IF i = Len(L) THEN 0 ELSE L[i + 1].offset - L[i].offset
              /\ NomadsEntry(L, i).member \in {0, -1} \cup 0..IntMax
  BY DEF NomadsEntry, parse_nomads_member

------------------------------------------------------------------------------
\* Types.

\* The lines an index of the format may have, and the invariant: the text is made of
\* them.
LineSet == IF format = "nomads" THEN NomadsLines ELSE EcmwfLines

IndexInv == format \in {"nomads", "ecmwf"} /\ text \in Seq(LineSet)

\* It holds of the empty text ...
LEMMA IndexStart == TextInit => IndexInv
  BY DEF TextInit, IndexInv, LineSet

\* ... and with every line that arrives.
LEMMA IndexStep == IndexInv /\ [TextNext]_textVars => IndexInv'
  <1> SUFFICES ASSUME IndexInv, [TextNext]_textVars  PROVE IndexInv'
    OBVIOUS
  <1>1. CASE AddLine
    <2>1. PICK l \in LineSet : text' = Append(text, l)
      BY <1>1 DEF AddLine, IndexInv, LineSet
    <2>2. format' = format /\ LineSet' = LineSet
      BY <1>1 DEF AddLine, LineSet
    <2>3. Append(text, l) \in Seq(LineSet)
      BY <2>1 DEF IndexInv
    <2> QED  BY <2>1, <2>2, <2>3 DEF IndexInv
  <1>2. CASE NewIndex
    BY <1>2 DEF NewIndex, IndexInv
  <1>3. CASE UNCHANGED textVars
    BY <1>3 DEF textVars, IndexInv, LineSet
  <1> QED  BY <1>1, <1>2, <1>3 DEF TextNext

\* Whatever part of an index has arrived, it is lines of its format.
THEOREM IndexInvariant == TextSpec => []IndexInv
  BY IndexStart, IndexStep, PTL DEF TextSpec

\* What Parse can be: an error, or the entries of lines that were accepted.
LEMMA ParseShape ==
    ASSUME IndexInv
    PROVE  \/ Parse = ParseError /\ entries = <<>>
           \/ \E L \in Seq(NomadsLines) :
                 /\ format = "nomads" /\ L = InventoryLines(text) /\ NomadsOk(L)
                 /\ Parse = Parsed(NomadsEntries(L)) /\ entries = NomadsEntries(L)
           \/ \E L \in Seq(EcmwfLines) :
                 /\ format = "ecmwf" /\ L = JsonLines(text) /\ EcmwfOk(L)
                 /\ Parse = Parsed(EcmwfEntries(L)) /\ entries = EcmwfEntries(L)
  <1>1. CASE format = "nomads"
    <2>1. text \in Seq(NomadsLines) /\ Parse = parse_nomads_idx(text)
      BY <1>1 DEF IndexInv, LineSet, Parse
    <2>2. InventoryLines(text) \in Seq(NomadsLines)
      BY <2>1, LinesKept
    <2>3. Parse = IF NomadsOk(InventoryLines(text))
                  THEN Parsed(NomadsEntries(InventoryLines(text))) ELSE ParseError
      BY <2>1, NomadsParsed
    <2> QED  BY <1>1, <2>2, <2>3 DEF entries, Parsed, ParseError
  <1>2. CASE format = "ecmwf"
    <2>1. text \in Seq(EcmwfLines) /\ Parse = parse_ecmwf_index(text)
      BY <1>2 DEF IndexInv, LineSet, Parse
    <2>2. JsonLines(text) \in Seq(EcmwfLines)
      BY <2>1, LinesKept
    <2>3. Parse = IF EcmwfOk(JsonLines(text))
                  THEN Parsed(EcmwfEntries(JsonLines(text))) ELSE ParseError
      BY <2>1, EcmwfParsed
    <2> QED  BY <1>2, <2>2, <2>3 DEF entries, Parsed, ParseError
  <1> QED  BY <1>1, <1>2 DEF IndexInv

\* The numbers of an entry fit their types and get_range() takes its range.
EntryFits(e) ==
    /\ e.record \in 0..RecordMax
    /\ e.offset \in 0..UMax
    /\ e.length \in 0..UMax
    /\ e.offset + e.length - 1 <= UMax
    /\ e.member \in (-IntMax - 1)..IntMax

\* The widths of the integers are numbers.
LEMMA ConstantsNat == /\ UMax \in Nat /\ RecordMax \in Nat /\ IntMax \in Nat
                      /\ ExactMax \in Nat /\ ExactMax <= UMax
  BY SidecarAssumption

\* Every entry of an accepted .idx fits: the difference of two offsets does not wrap,
\* as the offsets increase.
LEMMA NomadsEntriesFit ==
    ASSUME NEW S, NEW L \in Seq(S), NomadsOk(L), NEW i \in 1..Len(L)
    PROVE  EntryFits(NomadsEntry(L, i))
  <1> DEFINE e == NomadsEntry(L, i)
  <1>1. /\ L[i].record \in 0..RecordMax /\ L[i].offset \in 0..UMax
    <2>1. ValidNomads(L[i])
      BY DEF NomadsOk
    <2> QED  BY <2>1, ConstantsNat DEF ValidNomads, to_u64
  <1>2. /\ e.record = L[i].record /\ e.offset = L[i].offset
        /\ e.length = IF i = Len(L) THEN 0 ELSE L[i + 1].offset - L[i].offset
        /\ e.member \in {0, -1} \cup 0..IntMax
    BY NomadsEntryFields, Zenon
  <1> HIDE DEF e
  <1>m. e.member \in (-IntMax - 1)..IntMax
    BY <1>2, ConstantsNat
  <1>3. CASE i = Len(L)
    <2>1. e.length = 0
      BY <1>2, <1>3
    <2>2. e.length \in 0..UMax /\ e.offset + e.length - 1 <= UMax
      BY <1>1, <1>2, <2>1, ConstantsNat
    <2> QED  BY <1>1, <1>2, <1>m, <2>2 DEF EntryFits, e
  <1>4. CASE i # Len(L)
    <2>1. i \in 1..(Len(L) - 1) /\ i + 1 \in 1..Len(L)
      BY <1>4
    <2>2. ValidNomads(L[i + 1]) /\ L[i].offset < L[i + 1].offset
      BY <2>1 DEF NomadsOk
    <2>3. L[i + 1].offset \in 0..UMax
      BY <2>2 DEF ValidNomads, to_u64
    <2>4. e.length = L[i + 1].offset - L[i].offset
      BY <1>2, <1>4
    <2> DEFINE a == L[i].offset
               b == L[i + 1].offset
    <2>6. a \in 0..UMax /\ b \in 0..UMax /\ a < b /\ e.offset = a /\ e.length = b - a
      BY <1>1, <1>2, <2>2, <2>3, <2>4
    <2> HIDE DEF a, b
    <2>7. b - a \in 0..UMax /\ a + ((b - a) - 1) <= UMax
      BY <2>6, ConstantsNat
    <2>5. e.length \in 0..UMax /\ e.offset + e.length - 1 <= UMax
      BY <2>6, <2>7
    <2> QED  BY <1>1, <1>2, <1>m, <2>5 DEF EntryFits, e
  <1> QED  BY <1>3, <1>4

\* The numbers that exact_u64() lets through are as they are written.
LEMMA EcmwfLineFacts ==
    ASSUME NEW l \in EcmwfLines, ValidEcmwf(l)
    PROVE  /\ l.offset.value \in 0..UMax /\ l.length.value \in 0..UMax
           /\ l.offset.value + l.length.value - 1 <= UMax
           /\ l.offset.twice = 2 * l.offset.value /\ l.length.twice = 2 * l.length.value
  <1>1. ASSUME NEW v \in {l.offset, l.length}, exact_u64(v)
        PROVE  v.value \in 0..UMax /\ v.twice = 2 * v.value
    <2>1. /\ v.value \in Int
          /\ \/ v.kind = "int"
             \/ v.kind = "double" /\ v.whole /\ v.value \in 0..(ExactMax - 1)
             => v.twice = 2 * v.value
      BY IndexAssumption
    <2> QED  BY <1>1, <2>1, ConstantsNat DEF exact_u64
  <1>2. exact_u64(l.offset) /\ exact_u64(l.length)
        /\ RangeFits(l.offset.value, l.length.value)
    BY DEF ValidEcmwf
  <1>3. /\ l.offset.value \in 0..UMax /\ l.length.value \in 0..UMax
        /\ l.offset.twice = 2 * l.offset.value /\ l.length.twice = 2 * l.length.value
    BY <1>1, <1>2
  <1> QED  BY <1>2, <1>3, ConstantsNat DEF RangeFits

\* Every entry of an accepted .index fits.
LEMMA EcmwfEntriesFit ==
    ASSUME NEW l \in EcmwfLines, ValidEcmwf(l)
    PROVE  EntryFits(EcmwfEntry(l))
  <1> DEFINE e == EcmwfEntry(l)
  <1>1. /\ e.record = 0 /\ e.offset = l.offset.value /\ e.length = l.length.value
        /\ e.member \in {0, -1} \cup (-IntMax - 1)..IntMax
    BY EcmwfEntryFields
  <1> HIDE DEF e
  <1>2. /\ l.offset.value \in 0..UMax /\ l.length.value \in 0..UMax
        /\ l.offset.value + l.length.value - 1 <= UMax
    BY EcmwfLineFacts
  <1>3. 0 \in 0..RecordMax /\ e.member \in (-IntMax - 1)..IntMax
    BY <1>1, ConstantsNat
  <1> QED  BY <1>1, <1>2, <1>3 DEF EntryFits, e

\* Of every text either parser accepts, all numbers are in range, no difference of
\* offsets has wrapped, and get_range() refuses no range as overflowing.
THEOREM TypeCorrect == TextSpec => []TypeOK
  <1>1. IndexInv => TypeOK
    <2> SUFFICES ASSUME IndexInv  PROVE TypeOK
      OBVIOUS
    <2>1. \A i \in DOMAIN entries : EntryFits(entries[i])
      <3>1. CASE entries = <<>>
        BY <3>1
      <3>2. ASSUME NEW L \in Seq(NomadsLines), NomadsOk(L), entries = NomadsEntries(L)
            PROVE  \A i \in DOMAIN entries : EntryFits(entries[i])
        BY <3>2, NomadsEntriesFit DEF NomadsEntries
      <3>3. ASSUME NEW L \in Seq(EcmwfLines), EcmwfOk(L), entries = EcmwfEntries(L)
            PROVE  \A i \in DOMAIN entries : EntryFits(entries[i])
        <4>1. ASSUME NEW i \in 1..Len(L)  PROVE EntryFits(EcmwfEntry(L[i]))
          <5>1. L[i] \in EcmwfLines /\ ValidEcmwf(L[i])
            BY <3>3, ElementOfSeq DEF EcmwfOk
          <5> QED  BY <5>1, EcmwfEntriesFit
        <4> QED  BY <3>3, <4>1 DEF EcmwfEntries
      <3> QED  BY <3>1, <3>2, <3>3, ParseShape
    <2>2. Parse.ok \in BOOLEAN
      <3>1. ParseError.ok \in BOOLEAN /\ \A x : Parsed(x).ok \in BOOLEAN
        BY DEF Parsed, ParseError
      <3> QED  BY <3>1, ParseShape
    <2> QED  BY <2>1, <2>2 DEF TypeOK, EntryFits, IndexInv
  <1> QED  BY <1>1, IndexInvariant, PTL

\* parse_ecmwf_index() returns the byte ranges that are written in the index, for every
\* text: no rounded, negative or fractional number gets through as another one.
THEOREM RangesAreThoseStated == TextSpec => []RangesAreStated
  <1>1. IndexInv => RangesAreStated
    <2> SUFFICES ASSUME IndexInv, format = "ecmwf", NEW i \in DOMAIN entries
                 PROVE  /\ JsonLines(text)[i].offset.twice = 2 * entries[i].offset
                        /\ JsonLines(text)[i].length.twice = 2 * entries[i].length
      BY DEF RangesAreStated
    <2>1. PICK L \in Seq(EcmwfLines) :
             L = JsonLines(text) /\ EcmwfOk(L) /\ entries = EcmwfEntries(L)
      BY ParseShape
    <2>2. i \in 1..Len(L) /\ entries[i] = EcmwfEntry(L[i])
      BY <2>1 DEF EcmwfEntries
    <2>3. L[i] \in EcmwfLines /\ ValidEcmwf(L[i])
      BY <2>1, <2>2, ElementOfSeq DEF EcmwfOk
    <2>4. /\ L[i].offset.twice = 2 * L[i].offset.value
          /\ L[i].length.twice = 2 * L[i].length.value
      BY <2>3, EcmwfLineFacts
    <2> QED  BY <2>1, <2>2, <2>4, EcmwfEntryFields
  <1> QED  BY <1>1, IndexInvariant, PTL

------------------------------------------------------------------------------
\* The records divide the object.

\* Neighbouring offsets that increase make all of them increase.
LEMMA OffsetsIncrease ==
    ASSUME NEW S, NEW L \in Seq(S), NomadsOk(L)
    PROVE  \A i, j \in 1..Len(L) : i < j => L[i].offset < L[j].offset
  <1>1. /\ \A i \in 1..Len(L) : L[i].offset \in Int
        /\ \A i \in 1..(Len(L) - 1) : L[i].offset < L[i + 1].offset
        /\ Len(L) \in Nat
    BY DEF NomadsOk, ValidNomads, to_u64
  <1> SUFFICES ASSUME NEW i \in 1..Len(L)
               PROVE  \A j \in 1..Len(L) : i < j => L[i].offset < L[j].offset
    OBVIOUS
  <1> DEFINE T == {n \in Nat : n + 1 <= Len(L) /\ i < n + 1 => L[i].offset < L[n + 1].offset}
  <1>2. 0 \in T
    OBVIOUS
  <1>3. ASSUME NEW n \in T  PROVE n + 1 \in T
    <2>0. n \in Nat /\ (n + 1 <= Len(L) /\ i < n + 1 => L[i].offset < L[n + 1].offset)
      OBVIOUS
    <2> SUFFICES ASSUME (n + 1) + 1 <= Len(L), i < (n + 1) + 1
                 PROVE  L[i].offset < L[(n + 1) + 1].offset
      BY <2>0
    <2> DEFINE k == n + 1
    <2>1. /\ k \in 1..(Len(L) - 1) /\ k \in 1..Len(L) /\ k + 1 \in 1..Len(L)
          /\ i = k \/ i < k
      BY <2>0, <1>1
    <2>2. i < k => L[i].offset < L[k].offset
      BY <2>0, <2>1
    <2> HIDE DEF k
    <2>3. /\ L[k].offset \in Int /\ L[k + 1].offset \in Int /\ L[i].offset \in Int
          /\ L[k].offset < L[k + 1].offset
      BY <2>1, <1>1
    <2>4. L[i].offset < L[k + 1].offset
      BY <2>1, <2>2, <2>3
    <2> QED  BY <2>4 DEF k
  <1>4. T = Nat
    <2>1. T \in SUBSET Nat
      OBVIOUS
    <2> HIDE DEF T
    <2> QED  BY <1>2, <1>3, <2>1, SetInduction
  <1>5. ASSUME NEW j \in 1..Len(L), i < j  PROVE L[i].offset < L[j].offset
    <2>1. j - 1 \in Nat /\ (j - 1) + 1 = j /\ j <= Len(L)
      BY <1>1
    <2>2. j - 1 \in T
      BY <2>1, <1>4
    <2> QED  BY <2>1, <2>2, <1>5
  <1> QED  BY <1>5

\* A nonempty set of positions has a last one.
LEMMA Greatest ==
    ASSUME NEW n \in Nat, NEW T \in SUBSET 1..n, T # {}
    PROVE  \E m \in T : \A k \in T : k <= m
  <1> DEFINE D == {n - k : k \in T}
  <1>1. D \in SUBSET Nat /\ D # {}
    <2>1. \A k \in T : k \in 1..n /\ n - k \in Nat
      OBVIOUS
    <2>2. PICK k \in T : TRUE
      OBVIOUS
    <2> QED  BY <2>1, <2>2
  <1> HIDE DEF D
  <1>2. PICK d \in D : \A c \in D : d <= c
    BY <1>1, LeastNat
  <1>3. PICK m \in T : d = n - m
    BY DEF D
  <1>4. ASSUME NEW k \in T  PROVE k <= m
    <2>1. n - k \in D
      BY DEF D
    <2>2. n - m <= n - k
      BY <1>2, <1>3, <2>1
    <2> QED  BY <2>2
  <1> QED  BY <1>4

\* The records of every .idx that parse_nomads_idx() accepts divide the object: from the
\* first offset on, every byte is in the range of exactly one, the last one that starts
\* at or before it.
THEOREM RecordsTile == TextSpec => []RangesTile
  <1>1. IndexInv => RangesTile
    <2> SUFFICES ASSUME IndexInv, format = "nomads", entries # <<>>,
                        NEW p \in entries[1].offset..UMax
                 PROVE  \E i \in DOMAIN entries : \A k \in DOMAIN entries :
                           Covers(entries[k], p) <=> k = i
      BY DEF RangesTile
    <2>1. PICK L \in Seq(NomadsLines) : NomadsOk(L) /\ entries = NomadsEntries(L)
      BY ParseShape
    <2> DEFINE n == Len(L)
               o(i) == L[i].offset
    <2>2. n \in Nat /\ DOMAIN entries = 1..n /\ n # 0
      BY <2>1 DEF NomadsEntries
    <2>3. \A i \in 1..n : /\ o(i) \in 0..UMax /\ entries[i].offset = o(i)
                          /\ entries[i].length = IF i = n THEN 0 ELSE o(i + 1) - o(i)
      BY <2>1, NomadsEntryFields DEF NomadsEntries, NomadsOk, ValidNomads, to_u64
    <2>4. \A i, j \in 1..n : i < j => o(i) < o(j)
      BY <2>1, OffsetsIncrease
    <2> HIDE DEF n, o
    <2>5. o(1) <= p /\ p \in Int /\ UMax \in Nat
      BY <2>2, <2>3, ConstantsNat
    <2> DEFINE T == {i \in 1..n : o(i) <= p}
    <2>6. T # {} /\ T \in SUBSET 1..n
      BY <2>2, <2>5
    <2>7. PICK m \in T : \A k \in T : k <= m
      BY <2>2, <2>6, Greatest
    <2>8. \A k \in 1..n : o(k) <= p <=> k <= m
      <3>1. ASSUME NEW k \in 1..n, o(k) <= p  PROVE k <= m
        BY <3>1, <2>7
      <3>2. ASSUME NEW k \in 1..n, k <= m  PROVE o(k) <= p
        <4>1. m \in 1..n /\ o(m) <= p
          BY <2>7
        <4>2. k = m \/ o(k) < o(m)
          BY <3>2, <4>1, <2>4
        <4> QED  BY <4>1, <4>2, <2>3, <2>5
      <3> QED  BY <3>1, <3>2
    <2>9. ASSUME NEW k \in 1..n  PROVE Covers(entries[k], p) <=> k = m
      <3>1. m \in 1..n
        BY <2>7
      <3>2. CASE k = n
        <4>1. Covers(entries[k], p) <=> o(k) <= p
          BY <3>2, <2>3, <2>5 DEF Covers
        <4> QED  BY <3>1, <3>2, <4>1, <2>2, <2>8
      <3>3. CASE k # n
        <4>1. k + 1 \in 1..n /\ k < k + 1
          BY <3>3, <2>2
        <4>2. /\ o(k) \in Int /\ o(k + 1) \in Int /\ o(k) < o(k + 1)
              /\ entries[k].offset = o(k) /\ entries[k].length = o(k + 1) - o(k)
          BY <3>3, <4>1, <2>3, <2>4
        <4>3. Covers(entries[k], p) <=> o(k) <= p /\ p < o(k + 1)
          BY <4>2, <2>5 DEF Covers
        <4>4. (o(k) <= p <=> k <= m) /\ (o(k + 1) <= p <=> k + 1 <= m)
          BY <4>1, <2>8
        <4> QED  BY <3>1, <4>2, <4>3, <4>4, <2>2, <2>5
      <3> QED  BY <3>2, <3>3
    <2>10. m \in DOMAIN entries /\ \A k \in DOMAIN entries : Covers(entries[k], p) <=> k = m
      BY <2>2, <2>7, <2>9
    <2> QED  BY <2>10
  <1> QED  BY <1>1, IndexInvariant, PTL

------------------------------------------------------------------------------
\* An index that is cut off.

\* q, the result for a longer text, agrees with r.
Agrees(r, q) ==
    q.ok =>
        /\ r.ok
        /\ Len(r.entries) <= Len(q.entries)
        /\ \A i \in DOMAIN r.entries :
              \/ q.entries[i] = r.entries[i]
              \/ /\ i = Len(r.entries)
                 /\ r.entries[i] = [q.entries[i] EXCEPT !.length = 0]

\* The two kinds of result.
LEMMA ParsedFields ==
    /\ \A e : Parsed(e).ok /\ Parsed(e).entries = e
    /\ ~ParseError.ok
  BY DEF Parsed, ParseError

\* There are as many entries as lines.
LEMMA ShapeOfEntries ==
    \A S : \A L \in Seq(S) :
        /\ DOMAIN NomadsEntries(L) = 1..Len(L) /\ Len(NomadsEntries(L)) = Len(L)
        /\ DOMAIN EcmwfEntries(L) = 1..Len(L) /\ Len(EcmwfEntries(L)) = Len(L)
  <1> SUFFICES ASSUME NEW S, NEW L \in Seq(S)
               PROVE  /\ DOMAIN NomadsEntries(L) = 1..Len(L) /\ Len(NomadsEntries(L)) = Len(L)
                      /\ DOMAIN EcmwfEntries(L) = 1..Len(L) /\ Len(EcmwfEntries(L)) = Len(L)
    OBVIOUS
  <1> DEFINE n == Len(L)
  <1>1. n \in Nat
    OBVIOUS
  <1> HIDE DEF n
  <1>2. ASSUME NEW f, DOMAIN f = 1..n, f \in [1..n -> {f[i] : i \in 1..n}]
        PROVE  Len(f) = n
    BY <1>1, <1>2
  <1>3. NomadsEntries(L) = [i \in 1..n |-> NomadsEntry(L, i)]
    BY DEF NomadsEntries, n
  <1>4. EcmwfEntries(L) = [i \in 1..n |-> EcmwfEntry(L[i])]
    BY DEF EcmwfEntries, n
  <1>5. ASSUME NEW f, DOMAIN f = 1..n, f = [i \in 1..n |-> f[i]]
        PROVE  Len(f) = n
    <2>1. f \in [1..n -> {f[i] : i \in 1..n}]
      BY <1>5
    <2> QED  BY <1>2, <1>5, <2>1
  <1>6. DOMAIN NomadsEntries(L) = 1..n /\ DOMAIN EcmwfEntries(L) = 1..n
    BY <1>3, <1>4
  <1>7. Len(NomadsEntries(L)) = n
    BY <1>3, <1>5, <1>6
  <1>8. Len(EcmwfEntries(L)) = n
    BY <1>4, <1>5, <1>6
  <1> QED  BY <1>6, <1>7, <1>8 DEF n

\* One more line of an .idx leaves the entries alone, except for the length of the last.
LEMMA NomadsGrows ==
    ASSUME NEW S, NEW s \in Seq(S), NEW x \in S
    PROVE  Agrees(parse_nomads_idx(s), parse_nomads_idx(Append(s, x)))
  <1> DEFINE r == parse_nomads_idx(s)
             q == parse_nomads_idx(Append(s, x))
             L == InventoryLines(s)
             M == InventoryLines(Append(s, x))
             n == Len(L)
  <1>0. Append(s, x) \in Seq(S)
    OBVIOUS
  <1>1. L \in Seq(S) /\ M \in Seq(S) /\ n \in Nat
    <2>1. L \in Seq(S)
      BY LinesKept
    <2> DEFINE t == Append(s, x)
    <2> HIDE DEF t
    <2>2. t \in Seq(S)
      BY <1>0 DEF t
    <2>3. InventoryLines(t) \in Seq(S) /\ JsonLines(t) \in Seq(S)
      BY <2>2, LinesKept
    <2> QED  BY <2>1, <2>3 DEF t
  <1>2. /\ r = IF NomadsOk(L) THEN Parsed(NomadsEntries(L)) ELSE ParseError
        /\ q = IF NomadsOk(M) THEN Parsed(NomadsEntries(M)) ELSE ParseError
    BY <1>0, NomadsParsed
  <1>3. M = L \/ M = Append(L, x)
    BY InventoryGrows
  <1> SUFFICES ASSUME q.ok
               PROVE  /\ r.ok
                      /\ Len(r.entries) <= Len(q.entries)
                      /\ \A i \in DOMAIN r.entries :
                            \/ q.entries[i] = r.entries[i]
                            \/ /\ i = Len(r.entries)
                               /\ r.entries[i] = [q.entries[i] EXCEPT !.length = 0]
    BY DEF Agrees
  <1> HIDE DEF r, q, L, M
  <1>4. NomadsOk(M) /\ q.entries = NomadsEntries(M)
    BY <1>2, ParsedFields
  <1>5. CASE M = L
    BY <1>1, <1>2, <1>4, <1>5, ParsedFields, ShapeOfEntries
  <1>6. CASE M = Append(L, x)
    <2>1. /\ Len(M) = n + 1 /\ \A i \in 1..n : M[i] = L[i]
      BY <1>1, <1>6
    <2>2. NomadsOk(L)
      <3>1. \A i \in 1..n : i \in 1..(n + 1) /\ i \in 1..((n + 1) - 1)
        BY <1>1
      <3>2. \A i \in 1..(n - 1) : i \in 1..n /\ i + 1 \in 1..n
        BY <1>1
      <3> QED  BY <1>1, <1>4, <2>1, <3>1, <3>2 DEF NomadsOk
    <2>3. r.ok /\ r.entries = NomadsEntries(L)
      BY <1>2, <2>2, ParsedFields
    <2>4. /\ Len(r.entries) = n /\ DOMAIN r.entries = 1..n /\ Len(q.entries) = n + 1
      BY <1>1, <1>4, <2>1, <2>3, ShapeOfEntries
    <2>5. ASSUME NEW i \in 1..n
          PROVE  \/ q.entries[i] = r.entries[i]
                 \/ i = n /\ r.entries[i] = [q.entries[i] EXCEPT !.length = 0]
      <3>1. q.entries[i] = NomadsEntry(M, i) /\ r.entries[i] = NomadsEntry(L, i)
        <4>1. i \in 1..(n + 1)
          BY <1>1
        <4> QED  BY <1>4, <2>1, <2>3, <4>1 DEF NomadsEntries
      <3>2. CASE i = n
        <4> DEFINE d == M[i + 1].offset - M[i].offset
        <4>1. M[i] = L[i] /\ i # n + 1
          BY <1>1, <2>1
        <4>2. NomadsEntry(M, i) = [record |-> L[i].record, offset |-> L[i].offset,
                   length |-> d,
                   param |-> L[i].param, level |-> L[i].level, step |-> L[i].step,
                   member |-> parse_nomads_member(L[i])]
          BY <2>1, <4>1 DEF NomadsEntry
        <4>3. NomadsEntry(L, i) = [record |-> L[i].record, offset |-> L[i].offset,
                   length |-> 0,
                   param |-> L[i].param, level |-> L[i].level, step |-> L[i].step,
                   member |-> parse_nomads_member(L[i])]
          BY <3>2 DEF NomadsEntry
        <4> HIDE DEF d
        <4>4. NomadsEntry(L, i) = [NomadsEntry(M, i) EXCEPT !.length = 0]
          BY <4>2, <4>3
        <4> QED  BY <3>1, <3>2, <4>4
      <3>3. CASE i # n
        <4>1. i + 1 \in 1..n /\ i # n + 1
          BY <1>1, <3>3
        <4>2. NomadsEntry(M, i) = NomadsEntry(L, i)
          BY <2>1, <3>3, <4>1 DEF NomadsEntry
        <4> QED  BY <3>1, <4>2
      <3> QED  BY <3>2, <3>3
    <2>6. n <= n + 1
      BY <1>1
    <2> QED  BY <2>3, <2>4, <2>5, <2>6
  <1> QED  BY <1>3, <1>5, <1>6

\* One more line of an .index leaves them alone.
LEMMA EcmwfGrows ==
    ASSUME NEW S, NEW s \in Seq(S), NEW x \in S
    PROVE  Agrees(parse_ecmwf_index(s), parse_ecmwf_index(Append(s, x)))
  <1> DEFINE r == parse_ecmwf_index(s)
             q == parse_ecmwf_index(Append(s, x))
             L == JsonLines(s)
             M == JsonLines(Append(s, x))
             n == Len(L)
  <1>0. Append(s, x) \in Seq(S)
    OBVIOUS
  <1>1. L \in Seq(S) /\ M \in Seq(S) /\ n \in Nat
    <2>1. L \in Seq(S)
      BY LinesKept
    <2> DEFINE t == Append(s, x)
    <2> HIDE DEF t
    <2>2. t \in Seq(S)
      BY <1>0 DEF t
    <2>3. InventoryLines(t) \in Seq(S) /\ JsonLines(t) \in Seq(S)
      BY <2>2, LinesKept
    <2> QED  BY <2>1, <2>3 DEF t
  <1>2. /\ r = IF EcmwfOk(L) THEN Parsed(EcmwfEntries(L)) ELSE ParseError
        /\ q = IF EcmwfOk(M) THEN Parsed(EcmwfEntries(M)) ELSE ParseError
    BY EcmwfParsed
  <1>3. M = L \/ M = Append(L, x)
    BY JsonGrows
  <1> SUFFICES ASSUME q.ok
               PROVE  /\ r.ok
                      /\ Len(r.entries) <= Len(q.entries)
                      /\ \A i \in DOMAIN r.entries :
                            \/ q.entries[i] = r.entries[i]
                            \/ /\ i = Len(r.entries)
                               /\ r.entries[i] = [q.entries[i] EXCEPT !.length = 0]
    BY DEF Agrees
  <1> HIDE DEF r, q, L, M
  <1>4. EcmwfOk(M) /\ q.entries = EcmwfEntries(M)
    BY <1>2, ParsedFields
  <1>5. CASE M = L
    BY <1>1, <1>2, <1>4, <1>5, ParsedFields, ShapeOfEntries
  <1>6. CASE M = Append(L, x)
    <2>1. /\ Len(M) = n + 1 /\ \A i \in 1..n : M[i] = L[i]
      BY <1>1, <1>6
    <2>0. n <= n + 1 /\ \A i \in 1..n : i \in 1..(n + 1)
      BY <1>1
    <2>2. EcmwfOk(L)
      BY <1>1, <1>4, <2>1, <2>0 DEF EcmwfOk
    <2>3. r.ok /\ r.entries = EcmwfEntries(L)
      BY <1>2, <2>2, ParsedFields
    <2>4. /\ Len(r.entries) = n /\ DOMAIN r.entries = 1..n /\ Len(q.entries) = n + 1
      BY <1>1, <1>4, <2>1, <2>3, ShapeOfEntries
    <2>5. ASSUME NEW i \in 1..n  PROVE q.entries[i] = r.entries[i]
      BY <1>4, <2>0, <2>1, <2>3 DEF EcmwfEntries
    <2> QED  BY <2>3, <2>4, <2>5, <2>0
  <1> QED  BY <1>3, <1>5, <1>6

\* So it is for every line that arrives.
LEMMA LineAgrees ==
    ASSUME IndexInv, AddLine
    PROVE  Agrees(Parse, Parse')
  <1>1. PICK l \in LineSet : text' = Append(text, l)
    BY DEF AddLine, IndexInv, LineSet
  <1>2. format' = format
    BY DEF AddLine
  <1>3. CASE format = "nomads"
    <2>1. Parse = parse_nomads_idx(text) /\ Parse' = parse_nomads_idx(Append(text, l))
      BY <1>1, <1>2, <1>3 DEF Parse
    <2> QED  BY <1>1, <2>1, NomadsGrows DEF IndexInv
  <1>4. CASE format = "ecmwf"
    <2>1. Parse = parse_ecmwf_index(text) /\ Parse' = parse_ecmwf_index(Append(text, l))
      BY <1>1, <1>2, <1>4 DEF Parse
    <2> QED  BY <1>1, <2>1, EcmwfGrows DEF IndexInv
  <1> QED  BY <1>3, <1>4 DEF IndexInv

\* Cutting an index off between two lines, of any number, never changes what it says of
\* a record, but for the last one's range, which is open-ended then.
THEOREM CutIndexTellsNoLies == TextSpec => CutIndexAgrees
  <1>1. IndexInv /\ [TextNext]_textVars =>
     [text' # <<>> /\ Parse'.ok =>
         /\ Parse.ok
         /\ Len(entries) <= Len(entries')
         /\ \A i \in DOMAIN entries :
               \/ entries'[i] = entries[i]
               \/ /\ i = Len(entries)
                  /\ entries[i] = [entries'[i] EXCEPT !.length = 0]]_textVars
    <2> SUFFICES ASSUME IndexInv, TextNext, text' # <<>>, Parse'.ok
                 PROVE  /\ Parse.ok
                        /\ Len(entries) <= Len(entries')
                        /\ \A i \in DOMAIN entries :
                              \/ entries'[i] = entries[i]
                              \/ /\ i = Len(entries)
                                 /\ entries[i] = [entries'[i] EXCEPT !.length = 0]
      OBVIOUS
    <2>1. AddLine
      BY DEF TextNext, NewIndex
    <2>2. Agrees(Parse, Parse')
      BY <2>1, LineAgrees
    <2> QED  BY <2>2 DEF Agrees, entries
  <1> QED  BY <1>1, IndexInvariant, PTL DEF TextSpec, CutIndexAgrees

------------------------------------------------------------------------------
\* What the loops over lines and entries collect.

\* t has just the elements of s that are at `places' among the first n.
Collected(t, s, places, n) ==
    /\ \A j \in 1..Len(t) : \E i \in 1..n : i \in places /\ t[j] = s[i]
    /\ \A i \in 1..n : i \in places => \E j \in 1..Len(t) : t[j] = s[i]

\* That is what a loop has collected which passes over all the others.
LEMMA KeptElements ==
    ASSUME NEW S, NEW s \in Seq(S), NEW places
    PROVE  Kept(s, places) \in Seq(S) /\ Collected(Kept(s, places), s, places, Len(s))
  <1> DEFINE m == Len(s)
  <1>1. m \in Nat
    OBVIOUS
  <1>2. PICK f : IsRun(f, s, places, m) /\ f[m] \in Seq(S) /\ Kept(s, places) = f[m]
    BY KeptIsRun
  <1> DEFINE T == {n \in Nat : n <= m => f[n] \in Seq(S) /\ Collected(f[n], s, places, n)}
  <1>3. 0 \in T
    <2>1. f[0] = <<>>
      BY <1>2 DEF IsRun
    <2>2. <<>> \in Seq(S) /\ Len(<<>>) = 0 /\ 1..0 = {}
      OBVIOUS
    <2>3. Collected(<<>>, s, places, 0)
      BY <2>2 DEF Collected
    <2> QED  BY <2>1, <2>2, <2>3
  <1>4. ASSUME NEW n \in T  PROVE n + 1 \in T
    <2>0. n \in Nat
      OBVIOUS
    <2> SUFFICES ASSUME n + 1 <= m
                 PROVE  f[n + 1] \in Seq(S) /\ Collected(f[n + 1], s, places, n + 1)
      BY <2>0
    <2> DEFINE t == f[n]
               u == f[n + 1]
               x == s[n + 1]
    <2>1. t \in Seq(S) /\ Collected(t, s, places, n) /\ Len(t) \in Nat
      BY <2>0, <1>1
    <2>2. n + 1 \in 1..m /\ (n + 1) - 1 = n /\ x \in S
      BY <2>0, <1>1, ElementOfSeq
    <2>3. u = IF n + 1 \in places THEN Append(t, x) ELSE t
      BY <2>2, <1>2 DEF IsRun, Grown
    <2> HIDE DEF t, u, x, m
    <2>4. CASE n + 1 \notin places
      BY <2>0, <2>1, <2>3, <2>4 DEF Collected, u
    <2>5. CASE n + 1 \in places
      <3>1. /\ u \in Seq(S) /\ Len(u) = Len(t) + 1 /\ u[Len(t) + 1] = x
            /\ \A j \in 1..Len(t) : u[j] = t[j]
        BY <2>1, <2>2, <2>3, <2>5
      <3>2. ASSUME NEW j \in 1..Len(u)
            PROVE  \E i \in 1..(n + 1) : i \in places /\ u[j] = s[i]
        <4>1. CASE j = Len(t) + 1
          BY <4>1, <3>1, <2>0, <2>5 DEF x
        <4>2. CASE j # Len(t) + 1
          <5>1. j \in 1..Len(t)
            BY <4>2, <3>1, <2>1
          <5>2. PICK i \in 1..n : i \in places /\ t[j] = s[i]
            BY <5>1, <2>1 DEF Collected
          <5> QED  BY <5>1, <5>2, <3>1, <2>0
        <4> QED  BY <4>1, <4>2
      <3>3. ASSUME NEW i \in 1..(n + 1), i \in places
            PROVE  \E j \in 1..Len(u) : u[j] = s[i]
        <4>1. CASE i = n + 1
          BY <4>1, <3>1, <2>1 DEF x
        <4>2. CASE i # n + 1
          <5>1. i \in 1..n
            BY <4>2, <2>0
          <5>2. PICK j \in 1..Len(t) : t[j] = s[i]
            BY <5>1, <3>3, <2>1 DEF Collected
          <5> QED  BY <5>2, <3>1, <2>1
        <4> QED  BY <4>1, <4>2
      <3> QED  BY <3>1, <3>2, <3>3 DEF Collected, u
    <2> QED  BY <2>4, <2>5
  <1>5. T = Nat
    <2>1. T \in SUBSET Nat
      OBVIOUS
    <2> HIDE DEF T
    <2> QED  BY <1>3, <1>4, <2>1, SetInduction
  <1> QED  BY <1>1, <1>2, <1>5

\* select() returns matching entries only, and something if one matches.
LEMMA SelectElements ==
    ASSUME NEW S, NEW s \in Seq(S), NEW q
    PROVE  /\ select(s, q) \in Seq(S)
           /\ \A j \in 1..Len(select(s, q)) :
                 \E i \in 1..Len(s) : Matches(s[i], q) /\ select(s, q)[j] = s[i]
           /\ \A i \in 1..Len(s) : Matches(s[i], q) => select(s, q) # <<>>
  <1> DEFINE I == {i \in DOMAIN s : Matches(s[i], q)}
             t == Kept(s, I)
  <1>1. t \in Seq(S) /\ Collected(t, s, I, Len(s)) /\ Len(t) \in Nat
    <2> HIDE DEF I
    <2> QED  BY KeptElements
  <1>2. select(s, q) = t
    BY DEF select
  <1>3. DOMAIN s = 1..Len(s)
    OBVIOUS
  <1>4. \A i \in 1..Len(s) : i \in I <=> Matches(s[i], q)
    BY <1>3
  <1> HIDE DEF t, I
  <1> QED  BY <1>1, <1>2, <1>4 DEF Collected

\* The inventory lines are those of the text ...
LEMMA InventoryElements ==
    ASSUME NEW S, NEW s \in Seq(S)
    PROVE  /\ InventoryLines(s) \in Seq(S)
           /\ \A j \in 1..Len(InventoryLines(s)) :
                 \E i \in 1..Len(s) : IsInventory(s[i]) /\ InventoryLines(s)[j] = s[i]
           /\ \A i \in 1..Len(s) : IsInventory(s[i]) =>
                 \E j \in 1..Len(InventoryLines(s)) : InventoryLines(s)[j] = s[i]
  <1> DEFINE I == {i \in DOMAIN s : IsInventory(s[i])}
             t == Kept(s, I)
  <1>1. t \in Seq(S) /\ Collected(t, s, I, Len(s)) /\ Len(t) \in Nat
    <2> HIDE DEF I
    <2> QED  BY KeptElements
  <1>2. InventoryLines(s) = t
    BY DEF InventoryLines
  <1>3. DOMAIN s = 1..Len(s)
    OBVIOUS
  <1>4. \A i \in 1..Len(s) : i \in I <=> IsInventory(s[i])
    BY <1>3
  <1> HIDE DEF t, I
  <1> QED  BY <1>1, <1>2, <1>4 DEF Collected

\* ... and so are the JSON lines.
LEMMA JsonElements ==
    ASSUME NEW S, NEW s \in Seq(S)
    PROVE  /\ JsonLines(s) \in Seq(S)
           /\ \A j \in 1..Len(JsonLines(s)) :
                 \E i \in 1..Len(s) : s[i].json # "blank" /\ JsonLines(s)[j] = s[i]
           /\ \A i \in 1..Len(s) : s[i].json # "blank" =>
                 \E j \in 1..Len(JsonLines(s)) : JsonLines(s)[j] = s[i]
  <1> DEFINE I == {i \in DOMAIN s : s[i].json # "blank"}
             t == Kept(s, I)
  <1>1. t \in Seq(S) /\ Collected(t, s, I, Len(s)) /\ Len(t) \in Nat
    <2> HIDE DEF I
    <2> QED  BY KeptElements
  <1>2. JsonLines(s) = t
    BY DEF JsonLines
  <1>3. DOMAIN s = 1..Len(s)
    OBVIOUS
  <1>4. \A i \in 1..Len(s) : i \in I <=> s[i].json # "blank"
    BY <1>3
  <1> HIDE DEF t, I
  <1> QED  BY <1>1, <1>2, <1>4 DEF Collected

\* The first and the last byte of an answer, as extract_point() gets it.
LEMMA Bytes ==
    ASSUME NEW a \in Nat, NEW z \in Nat, a <= z
    PROVE  /\ F!Positions(a, z)[1] = a
           /\ F!Positions(a, z)[Len(F!Positions(a, z))] = z
  <1> DEFINE p == F!Positions(a, z)
             n == (z - a) + 1
  <1>1. p = [i \in 1..n |-> (a + i) - 1] /\ n \in Nat /\ n >= 1
    BY DEF F!Positions
  <1> HIDE DEF p, n
  <1>2. p \in Seq(Int) /\ Len(p) = n
    BY <1>1
  <1>3. p[1] = a /\ p[n] = z
    BY <1>1 DEF n
  <1> QED  BY <1>2, <1>3 DEF p

------------------------------------------------------------------------------
\* Extraction from a range of bytes.

\* find_message() judges the first magic that the loop stops at.
LEMMA FirstStop ==
    ASSUME NEW b, NEW from, NEW m \in Stops(b, from),
           \A k \in Stops(b, from) : m.at \in Int /\ k.at \in Int /\ m.at <= k.at,
           \A k \in Stops(b, from) : k.at = m.at => k = m
    PROVE  find_message(b, from) = IF Complete(b, m) THEN Found(m) ELSE Invalid
  <1> DEFINE stops == Stops(b, from)
             first == CHOOSE x \in stops : \A k \in stops : x.at <= k.at
  <1>1. first \in stops /\ \A k \in stops : first.at <= k.at
    <2> HIDE DEF stops
    <2> QED  BY DEF stops
  <1>2. find_message(b, from) = IF stops = {} THEN End
                                ELSE IF Complete(b, first) THEN Found(first) ELSE Invalid
    BY DEF find_message
  <1> HIDE DEF first
  <1>3. first = m
    BY <1>1
  <1> HIDE DEF stops
  <1> QED  BY <1>1, <1>2, <1>3

\* The magics that are wholly among the bytes first..last, as those bytes have them.
SlicedMagics(b, first, last) ==
    {[m EXCEPT !.at = @ - first] :
        m \in {k \in b.magics : k.at >= first /\ k.at + 3 <= last}}

\* What a range of bytes has of the object's size, magics, trailers and messages.
LEMMA SliceFields ==
    ASSUME NEW b, WellFormed(b), NEW first \in Nat, NEW last \in Nat, first <= last
    PROVE  /\ Slice(b, first, last).size = (last - first) + 1
           /\ Slice(b, first, last).magics = SlicedMagics(b, first, last)
           /\ \A t \in b.trailers : t \in Int /\ t >= first /\ t + 3 <= last
                                        => t - first \in Slice(b, first, last).trailers
           /\ \A m \in b.magics : m.at = first
                 => Slice(b, first, last).decoded[0] = b.decoded[first]
  <1>1. /\ Slice(b, first, last).size = (last - first) + 1
        /\ Slice(b, first, last).magics = SlicedMagics(b, first, last)
    BY DEF Slice, SlicedMagics
  <1>2. ASSUME NEW t \in b.trailers, t \in Int /\ t >= first /\ t + 3 <= last
        PROVE  t - first \in Slice(b, first, last).trailers
    BY <1>2 DEF Slice
  <1>3. ASSUME NEW m \in b.magics, m.at = first
        PROVE  Slice(b, first, last).decoded[0] = b.decoded[first]
    <2> DEFINE D == {k.at - first : k \in b.magics}
               d == [p \in D |-> IF p >= 0 THEN b.decoded[p + first] ELSE FALSE]
    <2>1. Slice(b, first, last).decoded = d
      BY DEF Slice
    <2>2. 0 \in D
      BY <1>3
    <2> HIDE DEF D
    <2>3. d[0] = b.decoded[0 + first]
      BY <2>2
    <2>4. 0 + first = first
      OBVIOUS
    <2> QED  BY <2>1, <2>3, <2>4
  <1> QED  BY <1>1, <1>2, <1>3

\* A magic in the range is one of the object, moved.
LEMMA SlicedMagicFacts ==
    ASSUME NEW b, WellFormed(b), NEW first \in Nat, NEW last \in Nat,
           NEW x \in SlicedMagics(b, first, last)
    PROVE  \E m \in b.magics :
              /\ m.at >= first /\ m.at + 3 <= last /\ m.at \in Nat
              /\ x = [at |-> m.at - first, edition |-> m.edition, length |-> m.length]
              /\ x.at = m.at - first
  <1>1. PICK m \in b.magics : /\ m.at >= first /\ m.at + 3 <= last
                              /\ x = [m EXCEPT !.at = @ - first]
    BY DEF SlicedMagics
  <1>2. m \in [at : Nat, edition : Nat, length : Nat]
    BY DEF WellFormed
  <1> QED  BY <1>1, <1>2

\* from_bytes() of a range that starts with a message finds no other message, whatever
\* magics the message's data has; and it finds that one when it is all there and ecCodes
\* can read it.
LEMMA SliceScan ==
    ASSUME NEW b, WellFormed(b), NEW i \in 1..Len(b.messages), NEW last \in Nat,
           b.messages[i].at <= last
    PROVE  LET got == FromBytes(Slice(b, b.messages[i].at, last))
           IN  /\ got \in {Error, Message(0)}
               /\ last >= EndOf(b, i) - 1 /\ b.decoded[b.messages[i].at].decodes
                     => got = Message(0)
  <1> DEFINE first == b.messages[i].at
             size == b.messages[i].length
             s == Slice(b, first, last)
             stops == Stops(s, 0)
  <1>1. first \in Nat /\ size \in Nat /\ EndOf(b, i) = first + size
    <2>1. b.messages[i] \in [at : Nat, length : Nat]
      BY ElementOfSeq DEF WellFormed
    <2> QED  BY <2>1 DEF EndOf
  <1>2. PICK m \in b.magics : /\ m.at = first /\ m.length = size
                              /\ m.edition \in {1, 2} /\ m.length >= Smallest(m.edition)
    BY DEF WellFormed
  <1>2a. m \in [at : Nat, edition : Nat, length : Nat]
    BY DEF WellFormed
  <1>3. EndOf(b, i) - 4 \in b.trailers
    BY DEF WellFormed
  <1>4. /\ s.size = (last - first) + 1
        /\ s.magics = SlicedMagics(b, first, last)
        /\ \A t \in b.trailers : t \in Int /\ t >= first /\ t + 3 <= last
                                     => t - first \in s.trailers
        /\ s.decoded[0] = b.decoded[first]
    <2>1. first <= last
      OBVIOUS
    <2> HIDE DEF first
    <2>2. \A t \in b.trailers : t \in Int /\ t >= first /\ t + 3 <= last
                                     => t - first \in s.trailers
      BY <1>1, <2>1, SliceFields
    <2>3. /\ s.size = (last - first) + 1 /\ s.magics = SlicedMagics(b, first, last)
          /\ \A k \in b.magics : k.at = first => s.decoded[0] = b.decoded[first]
      BY <1>1, <2>1, SliceFields
    <2> QED  BY <1>2, <2>2, <2>3
  <1> DEFINE x == [at |-> 0, edition |-> m.edition, length |-> size]
  <1>5. ASSUME NEW y \in SlicedMagics(b, first, last)
        PROVE  y.at \in Nat /\ y.at <= (last - first) - 3 /\ (y.at = 0 => y = x)
    <2> HIDE DEF first
    <2>1. PICK k \in b.magics :
              /\ k.at >= first /\ k.at + 3 <= last /\ k.at \in Nat
              /\ y = [at |-> k.at - first, edition |-> k.edition, length |-> k.length]
              /\ y.at = k.at - first
      BY <1>1, <1>5, SlicedMagicFacts
    <2>2. y.at = 0 => k = m
      <3>1. m = k \/ m.at + 4 <= k.at \/ k.at + 4 <= m.at
        BY DEF WellFormed
      <3> QED  BY <3>1, <2>1, <1>1, <1>2
    <2>3. ASSUME y.at = 0  PROVE y = x
      <3>1. k = m /\ k.at - first = 0
        BY <2>3, <2>2, <2>1
      <3>2. y = [at |-> 0, edition |-> m.edition, length |-> m.length]
        BY <3>1, <2>1
      <3> QED  BY <3>2, <1>2
    <2> QED  BY <2>1, <2>3, <1>1
  <1> HIDE DEF s, first, size
  <1>6. CASE last - first < 3
    <2>1. stops = {}
      BY <1>1, <1>4, <1>5, <1>6 DEF Stops
    <2>2. find_message(s, 0) = End
      BY <2>1 DEF find_message
    <2>3. FromBytes(s) = Error
      BY <2>2 DEF FromBytes, End
    <2> QED  BY <2>3, <1>1, <1>2, <1>2a, <1>6 DEF Smallest, s, first
  <1>7. CASE last - first >= 3
    <2>1. x \in SlicedMagics(b, first, last)
      <3>1. x = [m EXCEPT !.at = @ - first]
        BY <1>1, <1>2, <1>2a
      <3>2. m.at >= first /\ m.at + 3 <= last
        BY <1>1, <1>2, <1>7
      <3> QED  BY <3>1, <3>2 DEF SlicedMagics
    <2>2. x \in stops
      BY <2>1, <1>1, <1>2, <1>4, <1>7 DEF Stops, Rest
    <2>3. \A k \in stops : x.at \in Int /\ k.at \in Int /\ x.at <= k.at
      BY <1>4, <1>5 DEF Stops
    <2>4. \A k \in stops : k.at = x.at => k = x
      BY <1>4, <1>5 DEF Stops
    <2>5. find_message(s, 0) = IF Complete(s, x) THEN Found(x) ELSE Invalid
      BY <2>2, <2>3, <2>4, FirstStop
    <2>6. Found(x).start = 0 /\ Found(x).scan = "Found" /\ Invalid.scan = "Invalid"
      BY DEF Found, Invalid
    <2>7. FromBytes(s) \in {Error, Message(0)}
      BY <2>5, <2>6 DEF FromBytes
    <2>8. ASSUME last >= EndOf(b, i) - 1, b.decoded[first].decodes
          PROVE  FromBytes(s) = Message(0)
      <3>1. size - 4 \in s.trailers
        <4>1. EndOf(b, i) - 4 \in Int /\ EndOf(b, i) - 4 >= first
              /\ (EndOf(b, i) - 4) + 3 <= last /\ (EndOf(b, i) - 4) - first = size - 4
          BY <2>8, <1>1, <1>2 DEF Smallest
        <4> QED  BY <4>1, <1>3, <1>4
      <3>2. Complete(s, x)
        BY <3>1, <2>8, <1>1, <1>2, <1>4 DEF Complete, Rest, Smallest
      <3> QED  BY <3>2, <2>5, <2>6, <2>8, <1>4 DEF FromBytes
    <2> QED  BY <2>7, <2>8 DEF s, first
  <1> QED  BY <1>1, <1>6, <1>7

------------------------------------------------------------------------------
\* Editions.

\* What is assumed of an edition, line by line.
LEMMA EditionFacts ==
    ASSUME NEW e \in Editions
    PROVE  /\ WellFormed(e.object) /\ e.object.size \in 0..UMax
           /\ \A r \in e.records :
                 /\ \E i \in DOMAIN e.object.messages : e.object.messages[i].at = r.at
                 /\ r.member \in -1..IntMax
                 /\ \E i \in DOMAIN e.nomads :
                       IsInventory(e.nomads[i]) /\ NomadsTells(e.nomads[i], r)
                 /\ \E i \in DOMAIN e.ecmwf :
                       e.ecmwf[i].json # "blank" /\ EcmwfTells(e.ecmwf[i], r)
           /\ e.nomads \in Seq(LineType)
           /\ \A i \in DOMAIN e.nomads : IsInventory(e.nomads[i]) =>
                 \E r \in e.records : NomadsTells(e.nomads[i], r)
           /\ e.ecmwf \in Seq({e.ecmwf[i] : i \in DOMAIN e.ecmwf})
           /\ \A k \in DOMAIN e.ecmwf : e.ecmwf[k].json # "blank" =>
                 \E r \in e.records :
                    /\ EcmwfTells(e.ecmwf[k], r)
                    /\ e.ecmwf[k].length.value \in Nat
                    /\ \A i \in DOMAIN e.object.messages :
                          e.object.messages[i].at = r.at
                             => e.ecmwf[k].length.value >= e.object.messages[i].length
  <1> DEFINE inventory == {e.nomads[i] : i \in {k \in DOMAIN e.nomads : e.nomads[k].fields >= 6}}
             json == {e.ecmwf[i] : i \in {k \in DOMAIN e.ecmwf : e.ecmwf[k].json # "blank"}}
  <1>1. TrueEdition(e)
    BY PipelineAssumption
  <1>2. /\ WellFormed(e.object) /\ e.object.size <= UMax
        /\ \A r \in e.records :
              /\ \E i \in DOMAIN e.object.messages : e.object.messages[i].at = r.at
              /\ r.member \in -1..IntMax
              /\ \E l \in inventory : NomadsTells(l, r)
              /\ \E l \in json : EcmwfTells(l, r)
        /\ e.nomads \in Seq(LineType)
        /\ \A l \in inventory : \E r \in e.records : NomadsTells(l, r)
        /\ e.ecmwf \in Seq({e.ecmwf[i] : i \in DOMAIN e.ecmwf})
        /\ \A l \in json : \E r \in e.records :
              /\ EcmwfTells(l, r)
              /\ l.length.value \in Nat
              /\ \A i \in DOMAIN e.object.messages :
                    e.object.messages[i].at = r.at
                        => l.length.value >= e.object.messages[i].length
    BY <1>1, Zenon DEF TrueEdition
  <1>3. e.object.size \in 0..UMax
    BY <1>2, ConstantsNat DEF WellFormed
  <1>4. ASSUME NEW r \in e.records
        PROVE  /\ \E i \in DOMAIN e.nomads :
                     IsInventory(e.nomads[i]) /\ NomadsTells(e.nomads[i], r)
               /\ \E i \in DOMAIN e.ecmwf :
                     e.ecmwf[i].json # "blank" /\ EcmwfTells(e.ecmwf[i], r)
    BY <1>2, <1>4, Zenon DEF IsInventory
  <1>5. ASSUME NEW i \in DOMAIN e.nomads, IsInventory(e.nomads[i])
        PROVE  \E r \in e.records : NomadsTells(e.nomads[i], r)
    <2>1. e.nomads[i] \in inventory
      BY <1>5 DEF IsInventory
    <2> QED  BY <2>1, <1>2, Zenon
  <1>6. ASSUME NEW k \in DOMAIN e.ecmwf, e.ecmwf[k].json # "blank"
        PROVE  \E r \in e.records :
                    /\ EcmwfTells(e.ecmwf[k], r)
                    /\ e.ecmwf[k].length.value \in Nat
                    /\ \A i \in DOMAIN e.object.messages :
                          e.object.messages[i].at = r.at
                             => e.ecmwf[k].length.value >= e.object.messages[i].length
    <2>1. e.ecmwf[k] \in json
      BY <1>6
    <2> HIDE DEF json, inventory
    <2> QED  BY <2>1, <1>2, Zenon
  <1> HIDE DEF json, inventory
  <1>7. \A r \in e.records :
              /\ \E i \in DOMAIN e.object.messages : e.object.messages[i].at = r.at
              /\ r.member \in -1..IntMax
    BY <1>2, Zenon
  <1> QED  BY <1>2, <1>3, <1>4, <1>5, <1>6, <1>7, Zenon

\* A message of the object starts where a record is.
LEMMA RecordStarts ==
    ASSUME NEW e \in Editions, NEW r \in e.records
    PROVE  \E i \in 1..Len(e.object.messages) :
              /\ e.object.messages[i].at = r.at /\ r.at \in Nat
              /\ e.object.messages[i].length \in Nat
              /\ EndOf(e.object, i) = r.at + e.object.messages[i].length
              /\ EndOf(e.object, i) <= e.object.size
  <1>1. PICK i \in DOMAIN e.object.messages : e.object.messages[i].at = r.at
    BY EditionFacts
  <1>2. WellFormed(e.object)
    BY EditionFacts
  <1> DEFINE b == e.object
  <1>3. b.messages \in Seq([at : Nat, length : Nat]) /\ b.size \in Nat /\ b.cut \in 0..b.size
    BY <1>2 DEF WellFormed
  <1>4. i \in 1..Len(b.messages)
    BY <1>3
  <1>5. b.messages[i] \in [at : Nat, length : Nat]
    BY <1>3, <1>4, ElementOfSeq
  <1>6. EndOf(b, i) <= b.size - b.cut
    BY <1>2, <1>4 DEF WellFormed
  <1>7. EndOf(b, i) = b.messages[i].at + b.messages[i].length
    BY DEF EndOf
  <1> HIDE DEF b
  <1>8. b.messages[i].at \in Nat /\ b.messages[i].length \in Nat
    BY <1>5
  <1>9. EndOf(b, i) <= b.size
    <2>1. EndOf(b, i) \in Nat
      BY <1>7, <1>8
    <2>2. b.cut \in Nat /\ b.size \in Nat
      BY <1>3
    <2> QED  BY <1>6, <2>1, <2>2
  <1> QED  BY <1>1, <1>4, <1>7, <1>8, <1>9 DEF b

\* Up to the start of another record there is room for the whole message.
LEMMA RoomToNext ==
    ASSUME NEW e \in Editions, NEW r \in e.records, NEW q \in e.records, r.at < q.at,
           NEW i \in DOMAIN e.object.messages, e.object.messages[i].at = r.at
    PROVE  q.at - r.at >= e.object.messages[i].length
  <1> DEFINE b == e.object
             n == Len(b.messages)
  <1>1. WellFormed(b)
    BY EditionFacts
  <1>2. PICK j \in 1..n : b.messages[j].at = q.at /\ q.at \in Nat
    BY RecordStarts
  <1>3. b.messages \in Seq([at : Nat, length : Nat])
    BY <1>1 DEF WellFormed
  <1>4. i \in 1..n /\ n \in Nat
    BY <1>3, LenProperties
  <1>5. b.messages[i] \in [at : Nat, length : Nat] /\ b.messages[j] \in [at : Nat, length : Nat]
    BY <1>2, <1>3, <1>4, ElementOfSeq
  <1>6. \A x, y \in 1..n : x < y => EndOf(b, x) <= b.messages[y].at
    BY <1>1 DEF WellFormed
  <1>7. \A x : EndOf(b, x) = b.messages[x].at + b.messages[x].length
    BY DEF EndOf
  <1> HIDE DEF b, n
  <1>8. b.messages[i].at = r.at
    BY DEF b
  <1>9. ~(j < i)
    BY <1>2, <1>4, <1>5, <1>6, <1>7, <1>8
  <1>10. j # i
    BY <1>2, <1>5, <1>8
  <1>11. i < j
    BY <1>2, <1>4, <1>9, <1>10
  <1>12. b.messages[i].at + b.messages[i].length <= b.messages[j].at
    BY <1>2, <1>4, <1>6, <1>7, <1>11
  <1>13. q.at - r.at >= b.messages[i].length
    BY <1>2, <1>5, <1>8, <1>12
  <1> QED  BY <1>13 DEF b

------------------------------------------------------------------------------
\* From lines to entries.

\* Inventory line l tells of record r.  Of a line that broke off the step may be shorter
\* and the member another one.
LineTells(torn, l, r) ==
    /\ l.offset = r.at /\ l.param = r.param /\ l.level = r.level
    /\ l.step = r.step \/ <<l.step, r.step>> \in Occurs
    /\ parse_nomads_member(l) = r.member \/ torn = l.offset

\* Entry x tells of record r of edition e: as its line does, and with a range that is
\* open or holds the message.
Tells(e, torn, x, r) ==
    /\ x.offset = r.at /\ x.param = r.param /\ x.level = r.level
    /\ x.step = r.step \/ <<x.step, r.step>> \in Occurs
    /\ x.member = r.member \/ torn = x.offset
    /\ \A i \in DOMAIN e.object.messages :
          e.object.messages[i].at = r.at
              => x.length = 0 \/ x.length >= e.object.messages[i].length

\* The entry is one that an index of the edition can have.
Told(e, torn, x) ==
    /\ x.offset \in 0..UMax /\ x.length \in 0..UMax
    /\ \E r \in e.records : Tells(e, torn, x, r)

\* What select() looks at is the same.
Same(x, r) ==
    x.param = r.param /\ x.level = r.level /\ x.step = r.step /\ x.member = r.member

\* A parsed index says nothing that is not so ...
AllTold(e, torn, h) ==
    /\ h \in Seq({h[j] : j \in DOMAIN h})
    /\ \A j \in 1..Len(h) : Told(e, torn, h[j])

\* ... and a whole one leaves nothing out.
Covered(e, h) == \A r \in e.records : \E j \in 1..Len(h) : Same(h[j], r)

\* The fields of an entry of an .idx.
LEMMA NomadsFields ==
    \A L, i : /\ NomadsEntry(L, i).offset = L[i].offset
              /\ NomadsEntry(L, i).length
                   = IF i = Len(L) THEN 0 ELSE L[i + 1].offset - L[i].offset
              /\ NomadsEntry(L, i).param = L[i].param
              /\ NomadsEntry(L, i).level = L[i].level
              /\ NomadsEntry(L, i).step = L[i].step
              /\ NomadsEntry(L, i).member = parse_nomads_member(L[i])
  BY DEF NomadsEntry

\* parse_nomads_idx(): the ranges hold the messages, as the next line's offset is where
\* another message starts.
LEMMA NomadsTold ==
    ASSUME NEW e \in Editions, NEW torn, NEW S, NEW L \in Seq(S), NomadsOk(L),
           \A i \in 1..Len(L) : \E r \in e.records : LineTells(torn, L[i], r)
    PROVE  AllTold(e, torn, NomadsEntries(L))
  <1> DEFINE h == NomadsEntries(L)
             n == Len(L)
  <1>1. n \in Nat /\ DOMAIN h = 1..n /\ Len(h) = n /\ h \in Seq({h[j] : j \in DOMAIN h})
    <2>1. n \in Nat
      OBVIOUS
    <2>2. DOMAIN h = 1..n /\ Len(h) = n
      BY ShapeOfEntries
    <2>3. h = [j \in 1..n |-> h[j]]
      BY DEF NomadsEntries
    <2> HIDE DEF h, n
    <2>4. h \in [1..n -> {h[j] : j \in DOMAIN h}]
      BY <2>2, <2>3
    <2> QED  BY <2>1, <2>2, <2>4
  <1>2. ASSUME NEW i \in 1..n  PROVE Told(e, torn, h[i])
    <2> DEFINE x == h[i]
    <2>1. x = NomadsEntry(L, i)
      BY DEF NomadsEntries
    <2>2. /\ x.offset = L[i].offset
          /\ x.length = IF i = n THEN 0 ELSE L[i + 1].offset - L[i].offset
          /\ x.param = L[i].param /\ x.level = L[i].level /\ x.step = L[i].step
          /\ x.member = parse_nomads_member(L[i])
      BY <2>1, NomadsFields, Zenon
    <2>3. x.offset \in 0..UMax /\ x.length \in 0..UMax
      BY <2>1, NomadsEntriesFit DEF EntryFits
    <2>4. PICK r \in e.records : LineTells(torn, L[i], r)
      OBVIOUS
    <2> HIDE DEF x, h
    <2>5. ASSUME NEW k \in DOMAIN e.object.messages, e.object.messages[k].at = r.at,
                 x.length # 0
          PROVE  x.length >= e.object.messages[k].length
      <3>1. i # n /\ i + 1 \in 1..n /\ i \in 1..(n - 1)
        <4>1. i # n
          BY <2>2, <2>5
        <4>2. \A m \in Nat : \A j \in 1..m : j # m => j + 1 \in 1..m /\ j \in 1..(m - 1)
          OBVIOUS
        <4>3. n \in Nat /\ i \in 1..n
          BY <1>1
        <4> HIDE DEF n
        <4> QED  BY <4>1, <4>2, <4>3
      <3>2. PICK q \in e.records : LineTells(torn, L[i + 1], q)
        BY <3>1
      <3>3. r.at < q.at
        BY <3>1, <3>2, <2>4 DEF NomadsOk, LineTells
      <3>4. q.at - r.at >= e.object.messages[k].length
        BY <3>3, <2>5, RoomToNext
      <3> QED  BY <3>1, <3>2, <3>4, <2>2, <2>4 DEF LineTells
    <2>6. Tells(e, torn, x, r)
      <3>1. /\ x.offset = r.at /\ x.param = r.param /\ x.level = r.level
            /\ x.step = r.step \/ <<x.step, r.step>> \in Occurs
            /\ x.member = r.member \/ torn = x.offset
        BY <2>2, <2>4, Zenon DEF LineTells
      <3> QED  BY <3>1, <2>5, Zenon DEF Tells
    <2> QED  BY <2>3, <2>6 DEF Told, x
  <1> HIDE DEF h
  <1> QED  BY <1>1, <1>2 DEF AllTold, h

\* A whole line's ENS= tag is read as the record's member.
LEMMA LineOfRecord ==
    ASSUME NEW e \in Editions, NEW l, NEW r \in e.records, NomadsTells(l, r)
    PROVE  parse_nomads_member(l) = r.member
  <1>1. r.member \in -1..IntMax /\ IntMax \in Nat
    BY EditionFacts, ConstantsNat
  <1>2. r.member = IF l.ens.tag = "ctl" THEN 0 ELSE IF l.ens.tag = "number" THEN l.ens.n
                   ELSE -1
    BY DEF NomadsTells
  <1> QED  BY <1>1, <1>2 DEF parse_nomads_member

\* parse_nomads_idx() leaves no record out.
LEMMA NomadsCovered ==
    ASSUME NEW e \in Editions, NEW S, NEW L \in Seq(S),
           \A r \in e.records : \E i \in 1..Len(L) : NomadsTells(L[i], r)
    PROVE  Covered(e, NomadsEntries(L))
  <1> DEFINE h == NomadsEntries(L)
  <1>1. Len(h) = Len(L)
    BY ShapeOfEntries
  <1>2. ASSUME NEW r \in e.records  PROVE \E j \in 1..Len(L) : Same(h[j], r)
    <2>1. PICK i \in 1..Len(L) : NomadsTells(L[i], r)
      OBVIOUS
    <2>2. h[i] = NomadsEntry(L, i)
      BY DEF NomadsEntries
    <2>3. /\ h[i].param = L[i].param /\ h[i].level = L[i].level /\ h[i].step = L[i].step
          /\ h[i].member = parse_nomads_member(L[i])
      BY <2>2, NomadsFields, Zenon
    <2>4. parse_nomads_member(L[i]) = r.member
      BY <2>1, LineOfRecord
    <2> HIDE DEF h
    <2> QED  BY <2>1, <2>3, <2>4 DEF Same, NomadsTells
  <1> QED  BY <1>1, <1>2 DEF Covered

\* Line l of an .index tells of a record and states a range that holds its message.
JsonTells(e, l) ==
    \E r \in e.records :
        /\ EcmwfTells(l, r)
        /\ l.length.value \in Nat
        /\ \A i \in DOMAIN e.object.messages :
              e.object.messages[i].at = r.at
                  => l.length.value >= e.object.messages[i].length

\* The entry that parse_ecmwf_index() makes of it.
LEMMA JsonOfRecord ==
    ASSUME NEW e \in Editions, NEW l, NEW r \in e.records, EcmwfTells(l, r)
    PROVE  /\ EcmwfEntry(l).offset = r.at
           /\ EcmwfEntry(l).length = l.length.value
           /\ Same(EcmwfEntry(l), r)
  <1>1. r.member \in -1..IntMax /\ IntMax \in Nat
    BY EditionFacts, ConstantsNat
  <1> DEFINE x == EcmwfEntry(l)
             lev == IF l.levelist.kind # "absent" THEN l.levelist ELSE l.levtype
             mem == IF l.type.kind = "text" /\ l.type.text = "cf" THEN 0
                    ELSE IF l.number.kind # "absent" THEN ToMember(l.number)
                    ELSE -1
  <1>2. /\ x.offset = l.offset.value /\ x.length = l.length.value
        /\ x.param = generic_to_string(l.param)
        /\ x.level = generic_to_string(lev)
        /\ x.step = generic_to_string(l.step)
        /\ x.member = mem
    BY DEF EcmwfEntry, Entry
  <1>3. mem = r.member
    <2>1. CASE l.type.kind = "text" /\ l.type.text = "cf"
      BY <2>1 DEF EcmwfTells
    <2>2. CASE ~(l.type.kind = "text" /\ l.type.text = "cf")
      <3>1. CASE l.number.kind = "absent"
        BY <2>2, <3>1 DEF EcmwfTells
      <3>2. CASE l.number.kind # "absent"
        <4>1. /\ generic_to_string(l.number) # Empty /\ l.number.whole
              /\ r.member = l.number.value
          BY <2>2, <3>2, Zenon DEF EcmwfTells
        <4>2. r.member \in (-IntMax - 1)..IntMax
          BY <1>1
        <4>3. ToMember(l.number) = r.member
          BY <4>1, <4>2, Zenon DEF ToMember
        <4> QED  BY <4>3, <2>2, <3>2
      <3> QED  BY <3>1, <3>2
    <2> QED  BY <2>1, <2>2
  <1> HIDE DEF mem, x
  <1>4. /\ l.offset.value = r.at
        /\ generic_to_string(l.param) = r.param
        /\ r.level = generic_to_string(lev)
        /\ generic_to_string(l.step) = r.step
    BY Zenon DEF EcmwfTells
  <1> HIDE DEF lev
  <1> QED  BY <1>2, <1>3, <1>4 DEF Same, x

\* parse_ecmwf_index(): the same as for an .idx.
LEMMA EcmwfTold ==
    ASSUME NEW e \in Editions, NEW torn, NEW S, NEW L \in Seq(S), EcmwfOk(L),
           \A i \in 1..Len(L) : JsonTells(e, L[i])
    PROVE  AllTold(e, torn, EcmwfEntries(L))
  <1> DEFINE h == EcmwfEntries(L)
             n == Len(L)
  <1>1. n \in Nat /\ DOMAIN h = 1..n /\ Len(h) = n /\ h \in Seq({h[j] : j \in DOMAIN h})
    <2>1. n \in Nat
      OBVIOUS
    <2>2. DOMAIN h = 1..n /\ Len(h) = n
      BY ShapeOfEntries
    <2>3. h = [j \in 1..n |-> h[j]]
      BY DEF EcmwfEntries
    <2> HIDE DEF h, n
    <2>4. h \in [1..n -> {h[j] : j \in DOMAIN h}]
      BY <2>2, <2>3
    <2> QED  BY <2>1, <2>2, <2>4
  <1>2. ASSUME NEW i \in 1..n  PROVE Told(e, torn, h[i])
    <2> DEFINE x == h[i]
               l == L[i]
    <2>1. x = EcmwfEntry(l)
      BY DEF EcmwfEntries
    <2>2. PICK r \in e.records :
              /\ EcmwfTells(l, r)
              /\ l.length.value \in Nat
              /\ \A k \in DOMAIN e.object.messages :
                    e.object.messages[k].at = r.at
                        => l.length.value >= e.object.messages[k].length
      BY Zenon DEF JsonTells
    <2>3. x.offset = r.at /\ x.length = l.length.value /\ Same(x, r)
      BY <2>1, <2>2, JsonOfRecord
    <2>4. x.offset = l.offset.value
      BY <2>1, EcmwfEntryFields
    <2>5. ValidEcmwf(l)
      BY DEF EcmwfOk
    <2> HIDE DEF x, l, h
    <2>6. r.at \in Nat
      BY RecordStarts
    <2>7. x.offset \in 0..UMax /\ x.length \in 0..UMax
      <3>1. \A v : exact_u64(v) /\ v.value \in Nat => v.value \in 0..UMax
        BY ConstantsNat DEF exact_u64
      <3> QED  BY <3>1, <2>2, <2>3, <2>4, <2>5, <2>6 DEF ValidEcmwf
    <2>8. Tells(e, torn, x, r)
      BY <2>2, <2>3, Zenon DEF Tells, Same
    <2> QED  BY <2>7, <2>8 DEF Told, x
  <1> HIDE DEF h
  <1> QED  BY <1>1, <1>2 DEF AllTold, h

\* parse_ecmwf_index() leaves no record out.
LEMMA EcmwfCovered ==
    ASSUME NEW e \in Editions, NEW S, NEW L \in Seq(S),
           \A r \in e.records : \E i \in 1..Len(L) : EcmwfTells(L[i], r)
    PROVE  Covered(e, EcmwfEntries(L))
  <1> DEFINE h == EcmwfEntries(L)
  <1>1. Len(h) = Len(L)
    BY ShapeOfEntries
  <1>2. ASSUME NEW r \in e.records  PROVE \E j \in 1..Len(L) : Same(h[j], r)
    <2>1. PICK i \in 1..Len(L) : EcmwfTells(L[i], r)
      OBVIOUS
    <2>2. h[i] = EcmwfEntry(L[i])
      BY DEF EcmwfEntries
    <2>3. Same(h[i], r)
      BY <2>1, <2>2, JsonOfRecord
    <2> QED  BY <2>3
  <1> QED  BY <1>1, <1>2 DEF Covered

------------------------------------------------------------------------------
\* From a download to entries.

\* A sequence is one of its elements.
LEMMA SeqOfElements ==
    ASSUME NEW S, NEW s \in Seq(S)
    PROVE  s \in Seq({s[i] : i \in DOMAIN s})
  <1> DEFINE n == Len(s)
             R == {s[i] : i \in DOMAIN s}
  <1>1. n \in Nat /\ DOMAIN s = 1..n /\ s = [i \in 1..n |-> s[i]]
    OBVIOUS
  <1> HIDE DEF n
  <1>2. \A i \in 1..n : s[i] \in R
    BY <1>1
  <1> HIDE DEF R
  <1>3. s \in [1..n -> R]
    BY <1>1, <1>2
  <1>4. s \in Seq(R)
    BY <1>1, <1>3
  <1> QED  BY <1>4 DEF R

\* What arrived of an index, x, for program p: its inventory lines, the broken one as
\* well, tell of records of the edition, and when it is whole each record has a line.
TrueIndex(p, x) ==
    /\ x.edition \in Editions
    /\ x.lines \in Seq({x.lines[i] : i \in DOMAIN x.lines})
    /\ p = "nomads" =>
          /\ \A i \in 1..Len(x.lines) : IsInventory(x.lines[i]) =>
                \E r \in x.edition.records : LineTells(x.torn, x.lines[i], r)
          /\ x.whole => \A r \in x.edition.records : \E i \in 1..Len(x.lines) :
                IsInventory(x.lines[i]) /\ NomadsTells(x.lines[i], r)
    /\ p = "ecmwf" =>
          /\ \A i \in 1..Len(x.lines) : x.lines[i].json \notin {"blank", "bad"} =>
                JsonTells(x.edition, x.lines[i])
          /\ x.whole => \A r \in x.edition.records : \E i \in 1..Len(x.lines) :
                x.lines[i].json # "blank" /\ EcmwfTells(x.lines[i], r)

\* What the NOMADS program gets from parsing such an index ...
LEMMA NomadsIndexTold ==
    ASSUME NEW x, TrueIndex("nomads", x), parse_nomads_idx(x.lines).ok
    PROVE  /\ AllTold(x.edition, x.torn, parse_nomads_idx(x.lines).entries)
           /\ x.whole => Covered(x.edition, parse_nomads_idx(x.lines).entries)
  <1> DEFINE s == x.lines
             S == {s[i] : i \in DOMAIN s}
             e == x.edition
             L == InventoryLines(s)
  <1>1. s \in Seq(S) /\ e \in Editions
    BY DEF TrueIndex
  <1>2. \A i \in 1..Len(s) : IsInventory(s[i]) =>
                \E r \in e.records : LineTells(x.torn, s[i], r)
    BY DEF TrueIndex
  <1>3. x.whole => \A r \in e.records : \E i \in 1..Len(s) :
                IsInventory(s[i]) /\ NomadsTells(s[i], r)
    BY DEF TrueIndex
  <1> HIDE DEF s, S, e
  <1>4. /\ L \in Seq(S)
        /\ \A j \in 1..Len(L) : \E i \in 1..Len(s) : IsInventory(s[i]) /\ L[j] = s[i]
        /\ \A i \in 1..Len(s) : IsInventory(s[i]) => \E j \in 1..Len(L) : L[j] = s[i]
    BY <1>1, InventoryElements
  <1>5. parse_nomads_idx(s) = IF NomadsOk(L) THEN Parsed(NomadsEntries(L)) ELSE ParseError
    BY <1>1, NomadsParsed
  <1>6. NomadsOk(L) /\ parse_nomads_idx(s).entries = NomadsEntries(L)
    BY <1>5, ParsedFields DEF s
  <1> HIDE DEF L
  <1>7. \A j \in 1..Len(L) : \E r \in e.records : LineTells(x.torn, L[j], r)
    BY <1>2, <1>4, Zenon
  <1>8. AllTold(e, x.torn, NomadsEntries(L))
    BY <1>1, <1>4, <1>6, <1>7, NomadsTold
  <1>9. ASSUME x.whole  PROVE Covered(e, NomadsEntries(L))
    <2>1. \A r \in e.records : \E j \in 1..Len(L) : NomadsTells(L[j], r)
      BY <1>3, <1>4, <1>9, Zenon
    <2> QED  BY <1>1, <1>4, <2>1, NomadsCovered
  <1> QED  BY <1>6, <1>8, <1>9 DEF s, e

\* ... and the ECMWF program.
LEMMA EcmwfIndexTold ==
    ASSUME NEW x, TrueIndex("ecmwf", x), parse_ecmwf_index(x.lines).ok
    PROVE  /\ AllTold(x.edition, x.torn, parse_ecmwf_index(x.lines).entries)
           /\ x.whole => Covered(x.edition, parse_ecmwf_index(x.lines).entries)
  <1> DEFINE s == x.lines
             S == {s[i] : i \in DOMAIN s}
             e == x.edition
             L == JsonLines(s)
  <1>1. s \in Seq(S) /\ e \in Editions
    BY DEF TrueIndex
  <1>2. \A i \in 1..Len(s) : s[i].json \notin {"blank", "bad"} => JsonTells(e, s[i])
    BY DEF TrueIndex
  <1>3. x.whole => \A r \in e.records : \E i \in 1..Len(s) :
                s[i].json # "blank" /\ EcmwfTells(s[i], r)
    BY DEF TrueIndex
  <1> HIDE DEF s, S, e
  <1>4. /\ L \in Seq(S)
        /\ \A j \in 1..Len(L) : \E i \in 1..Len(s) : s[i].json # "blank" /\ L[j] = s[i]
        /\ \A i \in 1..Len(s) : s[i].json # "blank" => \E j \in 1..Len(L) : L[j] = s[i]
    BY <1>1, JsonElements
  <1>5. parse_ecmwf_index(s) = IF EcmwfOk(L) THEN Parsed(EcmwfEntries(L)) ELSE ParseError
    BY EcmwfParsed
  <1>6. EcmwfOk(L) /\ parse_ecmwf_index(s).entries = EcmwfEntries(L)
    BY <1>5, ParsedFields DEF s
  <1> HIDE DEF L
  <1>7. ASSUME NEW j \in 1..Len(L)  PROVE JsonTells(e, L[j])
    <2>1. PICK i \in 1..Len(s) : L[j] = s[i]
      BY <1>4
    <2>2. L[j].json = "object"
      BY <1>6 DEF EcmwfOk, ValidEcmwf
    <2>3. L[j].json \notin {"blank", "bad"}
      BY <2>2
    <2>4. s[i].json \notin {"blank", "bad"}
      BY <2>1, <2>3
    <2>5. JsonTells(e, s[i])
      BY <1>2, <2>4
    <2> QED  BY <2>1, <2>5
  <1>8. AllTold(e, x.torn, EcmwfEntries(L))
    BY <1>1, <1>4, <1>6, <1>7, EcmwfTold
  <1>9. ASSUME x.whole  PROVE Covered(e, EcmwfEntries(L))
    <2>1. \A r \in e.records : \E j \in 1..Len(L) : EcmwfTells(L[j], r)
      BY <1>3, <1>4, <1>9, Zenon
    <2> QED  BY <1>1, <1>4, <2>1, EcmwfCovered
  <1> QED  BY <1>6, <1>8, <1>9 DEF s, e

\* The first k lines of an index.
LEMMA FirstLines ==
    ASSUME NEW S, NEW s \in Seq(S), NEW k \in 0..Len(s)
    PROVE  /\ SubSeq(s, 1, k) \in Seq(S) /\ Len(SubSeq(s, 1, k)) = k
           /\ \A i \in 1..k : SubSeq(s, 1, k)[i] = s[i] /\ i \in DOMAIN s
  OBVIOUS

\* An index is a sequence of lines.
LEMMA LinesSeq ==
    ASSUME NEW e \in Editions
    PROVE  Lines(e) \in Seq({Lines(e)[i] : i \in DOMAIN Lines(e)})
  <1>1. e.nomads \in Seq(LineType) /\ e.ecmwf \in Seq({e.ecmwf[i] : i \in DOMAIN e.ecmwf})
    BY EditionFacts
  <1>2. e.nomads \in Seq({e.nomads[i] : i \in DOMAIN e.nomads})
    BY <1>1, SeqOfElements
  <1> QED  BY <1>1, <1>2 DEF Lines

\* A line that did not break off tells of its record.
LEMMA WholeLines ==
    ASSUME NEW e \in Editions, NEW r \in e.records, NEW l, NomadsTells(l, r), NEW torn
    PROVE  LineTells(torn, l, r)
  <1>1. parse_nomads_member(l) = r.member
    BY LineOfRecord
  <1> QED  BY <1>1 DEF LineTells, NomadsTells

\* A download that ends between two lines leaves such an index ...
LEMMA ReceivedTrue ==
    ASSUME NEW e \in Editions, NEW k \in 0..Len(Lines(e)), program \in {"nomads", "ecmwf"}
    PROVE  TrueIndex(program, Received(e, k))
  <1> DEFINE x == Received(e, k)
             s == Lines(e)
             S == {s[i] : i \in DOMAIN s}
             t == SubSeq(s, 1, k)
  <1>1. s \in Seq(S)
    BY LinesSeq
  <1> DEFINE all == (k = Len(s))
  <1>2. x.lines = t /\ x.edition = e /\ x.torn = -1 /\ x.whole = all
    <2>1. x = [lines |-> t, edition |-> e, torn |-> -1, whole |-> all]
      BY DEF Received
    <2> HIDE DEF x, t, s, all
    <2> QED  BY <2>1
  <1> HIDE DEF x, S
  <1>3. t \in Seq(S) /\ Len(t) = k /\ \A i \in 1..k : t[i] = s[i] /\ i \in DOMAIN s
    BY <1>1, FirstLines
  <1>4. DOMAIN s = 1..Len(s)
    BY <1>1
  <1>5. t \in Seq({t[i] : i \in DOMAIN t})
    <2> HIDE DEF t
    <2> QED  BY <1>3, SeqOfElements
  <1>6. program = "nomads" => s = e.nomads
    BY DEF Lines
  <1>7. program = "ecmwf" => s = e.ecmwf
    BY DEF Lines
  <1> HIDE DEF s, t
  <1>8. ASSUME program = "nomads"
        PROVE  /\ \A i \in 1..k : IsInventory(t[i]) =>
                      \E r \in e.records : LineTells(-1, t[i], r)
               /\ k = Len(s) => \A r \in e.records : \E i \in 1..k :
                      IsInventory(t[i]) /\ NomadsTells(t[i], r)
    <2>1. ASSUME NEW i \in 1..k, IsInventory(t[i])
          PROVE  \E r \in e.records : LineTells(-1, t[i], r)
      <3>1. i \in DOMAIN e.nomads /\ t[i] = e.nomads[i]
        BY <1>3, <1>6, <1>8
      <3>2. PICK r \in e.records : NomadsTells(e.nomads[i], r)
        BY <2>1, <3>1, EditionFacts
      <3>3. LineTells(-1, e.nomads[i], r)
        BY <3>2, WholeLines
      <3> QED  BY <3>1, <3>3
    <2>2. ASSUME k = Len(s), NEW r \in e.records
          PROVE  \E i \in 1..k : IsInventory(t[i]) /\ NomadsTells(t[i], r)
      <3>1. PICK i \in DOMAIN e.nomads : IsInventory(e.nomads[i]) /\ NomadsTells(e.nomads[i], r)
        BY EditionFacts
      <3>2. i \in 1..k
        BY <2>2, <1>4, <1>6, <1>8
      <3>3. t[i] = e.nomads[i]
        BY <3>2, <1>3, <1>6, <1>8
      <3> QED  BY <3>1, <3>2, <3>3
    <2> QED  BY <2>1, <2>2
  <1>9. ASSUME program = "ecmwf"
        PROVE  /\ \A i \in 1..k : t[i].json \notin {"blank", "bad"} => JsonTells(e, t[i])
               /\ k = Len(s) => \A r \in e.records : \E i \in 1..k :
                      t[i].json # "blank" /\ EcmwfTells(t[i], r)
    <2>1. ASSUME NEW i \in 1..k, t[i].json \notin {"blank", "bad"}
          PROVE  JsonTells(e, t[i])
      <3>1. i \in DOMAIN e.ecmwf /\ t[i] = e.ecmwf[i]
        BY <1>3, <1>7, <1>9
      <3>2. e.ecmwf[i].json # "blank"
        BY <3>1, <2>1
      <3>3. JsonTells(e, e.ecmwf[i])
        BY <3>1, <3>2, EditionFacts DEF JsonTells
      <3> QED  BY <3>1, <3>3
    <2>2. ASSUME k = Len(s), NEW r \in e.records
          PROVE  \E i \in 1..k : t[i].json # "blank" /\ EcmwfTells(t[i], r)
      <3>1. PICK i \in DOMAIN e.ecmwf : e.ecmwf[i].json # "blank" /\ EcmwfTells(e.ecmwf[i], r)
        BY EditionFacts
      <3>2. i \in 1..k
        BY <2>2, <1>4, <1>7, <1>9
      <3>3. t[i] = e.ecmwf[i]
        BY <3>2, <1>3, <1>7, <1>9
      <3> QED  BY <3>1, <3>2, <3>3
    <2> QED  BY <2>1, <2>2
  <1>10. TrueIndex(program, x)
    BY <1>2, <1>3, <1>5, <1>8, <1>9, Zenon DEF TrueIndex
  <1> QED  BY <1>10 DEF x

\* ... a broken line, when it still counts as an inventory line, tells of its record
\* but for the member ...
LEMMA RemnantTells ==
    ASSUME NEW e \in Editions, program = "nomads", NEW l \in LineType,
           IsInventory(l) => \E r \in e.records : NomadsTells(l, r),
           NEW x \in Remnants(l), IsInventory(x)
    PROVE  \E r \in e.records : LineTells(x.offset, x, r)
  <1>1. "nomads" # "ecmwf"
    OBVIOUS
  <1>0. l.fields \in Nat
    BY DEF LineType
  <1>2. IsInventory(l)
    <2> SUFFICES ASSUME ~IsInventory(l)  PROVE FALSE
      OBVIOUS
    <2>1. l.fields < 6
      BY <1>0 DEF IsInventory
    <2>2. x = l
      BY <1>1, <2>1 DEF Remnants
    <2> QED  BY <2>2
  <1>3. PICK r \in e.records : NomadsTells(l, r)
    BY <1>2
  <1>4. \/ x = [l EXCEPT !.fields = 3]
        \/ \E t : /\ <<t, l.step>> \in Occurs
                  /\ x = [l EXCEPT !.fields = 6, !.ens.tag = "none", !.step = t]
        \/ x = [l EXCEPT !.ens = TornTag(@)]
    <2>1. ~(l.fields < 6)
      BY <1>0, <1>2 DEF IsInventory
    <2> QED  BY <1>1, <2>1 DEF Remnants
  <1>5. DOMAIN l = {"fields", "record", "offset", "param", "level", "step", "ens"}
    BY DEF LineType
  <1>6. CASE x = [l EXCEPT !.fields = 3]
    <2>1. x.fields = 3
      BY <1>5, <1>6
    <2> QED  BY <2>1 DEF IsInventory
  <1>7. ASSUME NEW t, <<t, l.step>> \in Occurs,
               x = [l EXCEPT !.fields = 6, !.ens.tag = "none", !.step = t]
        PROVE  LineTells(x.offset, x, r)
    <2>1. x.offset = l.offset /\ x.param = l.param /\ x.level = l.level /\ x.step = t
      BY <1>5, <1>7
    <2> QED  BY <2>1, <1>3, <1>7 DEF LineTells, NomadsTells
  <1>8. CASE x = [l EXCEPT !.ens = TornTag(@)]
    <2>1. x.offset = l.offset /\ x.param = l.param /\ x.level = l.level /\ x.step = l.step
      BY <1>5, <1>8
    <2>2. LineTells(x.offset, x, r)
      BY <2>1, <1>3 DEF LineTells, NomadsTells
    <2> QED  BY <2>2
  <1> QED  BY <1>4, <1>6, <1>7, <1>8

\* ... and so a download that ends inside a line leaves one too.
LEMMA TornTrue ==
    ASSUME NEW e \in Editions, NEW k \in 0..Len(Lines(e)), k < Len(Lines(e)),
           program \in {"nomads", "ecmwf"}, NEW y \in Remnants(Lines(e)[k + 1])
    PROVE  TrueIndex(program, ReceivedTorn(e, k, y))
  <1> DEFINE x == ReceivedTorn(e, k, y)
             s == Lines(e)
             S == {s[i] : i \in DOMAIN s}
             u == SubSeq(s, 1, k)
             t == Append(u, y)
             torn == IF program = "nomads" THEN y.offset ELSE -1
  <1>1. s \in Seq(S)
    BY LinesSeq
  <1>2. x.lines = t /\ x.edition = e /\ x.torn = torn /\ x.whole = FALSE
    <2>1. x = [lines |-> t, edition |-> e, torn |-> torn, whole |-> FALSE]
      BY DEF ReceivedTorn
    <2> HIDE DEF x, t, s, u, torn
    <2> QED  BY <2>1
  <1> HIDE DEF x, S
  <1>3. u \in Seq(S) /\ Len(u) = k /\ \A i \in 1..k : u[i] = s[i] /\ i \in DOMAIN s
    BY <1>1, FirstLines
  <1>4. DOMAIN s = 1..Len(s) /\ k \in Nat /\ k + 1 \in DOMAIN s
    <2>1. DOMAIN s = 1..Len(s) /\ Len(s) \in Nat
      BY <1>1
    <2>2. k \in 0..Len(s) /\ k < Len(s)
      OBVIOUS
    <2> HIDE DEF s
    <2> QED  BY <2>1, <2>2
  <1> HIDE DEF u
  <1>5. /\ t \in Seq(S \cup {y}) /\ Len(t) = k + 1 /\ t[k + 1] = y
        /\ \A i \in 1..k : t[i] = s[i] /\ i \in DOMAIN s
    <2>1. u \in Seq(S \cup {y})
      BY <1>3
    <2>2. /\ t \in Seq(S \cup {y}) /\ Len(t) = Len(u) + 1 /\ t[Len(u) + 1] = y
          /\ \A i \in 1..Len(u) : t[i] = u[i]
      BY <2>1
    <2> HIDE DEF t, s
    <2> QED  BY <2>2, <1>3
  <1>6. t \in Seq({t[i] : i \in DOMAIN t})
    <2> HIDE DEF t
    <2> QED  BY <1>5, SeqOfElements
  <1>7. program = "nomads" => s = e.nomads
    BY DEF Lines
  <1>8. program = "ecmwf" => s = e.ecmwf /\ y.json = "bad"
    BY DEF Lines, Remnants
  <1>9. y \in Remnants(s[k + 1])
    OBVIOUS
  <1> HIDE DEF s, t
  <1>10. \A i \in 1..(k + 1) : i \in 1..k \/ i = k + 1
    BY <1>4
  <1>11. ASSUME program = "nomads", NEW i \in 1..(k + 1), IsInventory(t[i])
         PROVE  \E r \in e.records : LineTells(torn, t[i], r)
    <2>1. CASE i \in 1..k
      <3>1. i \in DOMAIN e.nomads /\ t[i] = e.nomads[i]
        BY <2>1, <1>5, <1>7, <1>11
      <3>2. PICK r \in e.records : NomadsTells(e.nomads[i], r)
        BY <1>11, <3>1, EditionFacts
      <3>3. LineTells(torn, e.nomads[i], r)
        BY <3>2, WholeLines
      <3> QED  BY <3>1, <3>3
    <2>2. CASE i = k + 1
      <3>1. t[i] = y /\ torn = y.offset
        BY <2>2, <1>5, <1>11
      <3>2. k + 1 \in DOMAIN e.nomads /\ s[k + 1] = e.nomads[k + 1]
        BY <1>4, <1>7, <1>11
      <3> DEFINE l == e.nomads[k + 1]
      <3>3. l \in LineType
        <4>1. e.nomads \in Seq(LineType)
          BY EditionFacts
        <4> QED  BY <4>1, <3>2, LenProperties, ElementOfSeq
      <3>4. IsInventory(l) => \E r \in e.records : NomadsTells(l, r)
        BY <3>2, EditionFacts
      <3>5. y \in Remnants(l) /\ IsInventory(y)
        BY <3>1, <3>2, <1>9, <1>11
      <3> HIDE DEF l, torn
      <3>6. \E r \in e.records : LineTells(y.offset, y, r)
        BY <3>3, <3>4, <3>5, <1>11, RemnantTells
      <3> QED  BY <3>1, <3>6
    <2> QED  BY <1>10, <2>1, <2>2
  <1>12. ASSUME program = "ecmwf", NEW i \in 1..(k + 1), t[i].json \notin {"blank", "bad"}
         PROVE  JsonTells(e, t[i])
    <2>1. i # k + 1
      BY <1>5, <1>8, <1>12
    <2>2. i \in 1..k
      BY <2>1, <1>10
    <2>3. i \in DOMAIN e.ecmwf /\ t[i] = e.ecmwf[i]
      BY <2>2, <1>5, <1>8, <1>12
    <2>4. e.ecmwf[i].json # "blank"
      BY <2>3, <1>12
    <2>5. JsonTells(e, e.ecmwf[i])
      BY <2>3, <2>4, EditionFacts DEF JsonTells
    <2> QED  BY <2>3, <2>5
  <1> HIDE DEF torn
  <1>13. TrueIndex(program, x)
    BY <1>2, <1>5, <1>6, <1>11, <1>12, Zenon DEF TrueIndex
  <1> QED  BY <1>13 DEF x

------------------------------------------------------------------------------
\* The inductive invariant of the pipeline.

\* The site's files.
SiteType == [object : Uploads \cup {None}, index : Editions \cup {None}]

\* The selected entry is one of the index, and matches.
Selected ==
    /\ index.edition \in Editions
    /\ Told(index.edition, index.torn, rec)
    /\ Matches(rec, sel)

\* The request is for it, made to an upload.
Asked ==
    /\ origin \in Uploads
    /\ request = RequestFor(rec)
    /\ object = origin.size

\* The answer is the whole range.
Answered ==
    /\ request.offset < object
    /\ reply.body = F!Positions(request.offset, F!LastWanted(request, object))

\* The three properties.
Correct == RightRecord /\ NoRecordIsTrue /\ RangeHoldsMessage

\* The inductive invariant: what is known at each place of the program.
PipeInv ==
    /\ site \in SiteType
    /\ program \in {"nomads", "ecmwf"}
    /\ pc \in {"start", "parse", "select", "ask", "fetching", "extract", "done"}
    /\ pc # "done" => outcome = NoOutcome
    /\ pc = "parse" => TrueIndex(program, index)
    /\ pc = "select" =>
          /\ index.edition \in Editions
          /\ AllTold(index.edition, index.torn, hits)
          /\ index.whole => Covered(index.edition, hits)
    /\ pc \in {"ask", "fetching", "extract"} => Selected
    /\ pc \in {"fetching", "extract"} => Asked
    /\ pc = "extract" => Answered
    /\ Correct

\* What the program has printed stays right as long as what it is about does not change.
LEMMA CorrectKept ==
    ASSUME Correct, UNCHANGED <<outcome, index, hits, origin, sel>>
    PROVE  Correct'
  BY DEF Correct, RightRecord, NoRecordIsTrue, RangeHoldsMessage, SameEdition, Misread,
         rec, Matches, TextsMatch

\* Other outcomes say nothing that could be wrong.
LEMMA NothingSaid ==
    ASSUME outcome'.kind # "value", outcome'.why \notin {"no record", "decode"}
    PROVE  Correct'
  BY DEF Correct, RightRecord, NoRecordIsTrue, RangeHoldsMessage

\* The outcomes.
LEMMA Outcomes ==
    /\ NoOutcome.kind = "none" /\ NoOutcome.why = ""
    /\ \A w : Failed(w).kind = "error" /\ Failed(w).why = w
    /\ \A p : Printed(p).kind = "value" /\ Printed(p).why = "" /\ Printed(p).at = p
  BY DEF NoOutcome, Failed, Printed

\* extract_point() of the bytes that arrived, when the object is of the index's edition:
\* the selected message or an error, and no error when the object and the message are
\* all right.
LEMMA RangeRead ==
    ASSUME Selected, Asked, Answered, origin.edition = index.edition
    PROVE  LET b == origin.edition.object
               got == FromBytes(Slice(b, reply.body[1], reply.body[Len(reply.body)]))
           IN  /\ got \in {Error, Message(0)}
               /\ ~(origin.size < b.size) /\ b.decoded[rec.offset].decodes
                      => got = Message(0)
  <1> DEFINE e == index.edition
             b == e.object
             x == rec
             first == x.offset
             last == F!LastWanted(request, object)
  <1>1. e \in Editions /\ x.offset \in 0..UMax /\ x.length \in 0..UMax
    BY DEF Selected, Told
  <1>2. PICK r \in e.records : Tells(e, index.torn, x, r)
    BY DEF Selected, Told
  <1>3. PICK i \in 1..Len(b.messages) :
              /\ b.messages[i].at = r.at /\ r.at \in Nat
              /\ b.messages[i].length \in Nat
              /\ EndOf(b, i) = r.at + b.messages[i].length
              /\ EndOf(b, i) <= b.size
    BY <1>1, RecordStarts
  <1>4. WellFormed(b) /\ b.size \in Nat
    <2>1. WellFormed(b)
      BY <1>1, EditionFacts
    <2> QED  BY <2>1 DEF WellFormed
  <1>5. first = r.at
    BY <1>2 DEF Tells
  <1>6. x.length = 0 \/ x.length >= b.messages[i].length
    <2>1. i \in DOMAIN b.messages
      BY <1>4 DEF WellFormed
    <2> QED  BY <2>1, <1>2, <1>3 DEF Tells
  <1>7. request.offset = first /\ request.length = x.length /\ first < object
    BY DEF Asked, Answered, RequestFor
  <1>8. object = origin.size /\ object \in Nat /\ object >= 1
    <2>1. origin \in Uploads /\ object = origin.size
      BY DEF Asked
    <2>2. origin.size \in 1..origin.edition.object.size
      BY <2>1, PipelineAssumption
    <2> QED  BY <2>1, <2>2
  <1>9. last = IF x.length = 0 THEN object - 1
               ELSE IF (first + x.length) - 1 <= object - 1 THEN (first + x.length) - 1
               ELSE object - 1
    BY <1>1, <1>7, <1>8 DEF F!LastWanted, F!Smaller
  <1>10. reply.body = F!Positions(first, last)
    BY <1>7 DEF Answered
  <1>11. origin.edition.object = b
    OBVIOUS
  <1>u. UMax \in Nat
    BY ConstantsNat
  <1> HIDE DEF e, b, x, first, last
  <1>12. first \in Nat /\ last \in Nat /\ first <= last
    <2>1. first \in Nat /\ object \in Nat /\ first < object
      BY <1>3, <1>5, <1>7, <1>8
    <2>2. x.length \in Nat
      BY <1>1, <1>u
    <2>3. CASE last = object - 1
      BY <2>1, <2>3
    <2>4. CASE last = (first + x.length) - 1 /\ x.length # 0
      BY <2>1, <2>2, <2>4
    <2> QED  BY <1>9, <2>3, <2>4
  <1>13. reply.body[1] = first /\ reply.body[Len(reply.body)] = last
    <2>1. /\ F!Positions(first, last)[1] = first
          /\ F!Positions(first, last)[Len(F!Positions(first, last))] = last
      BY <1>12, Bytes
    <2> QED  BY <1>10, <2>1, Zenon
  <1>14. /\ FromBytes(Slice(b, first, last)) \in {Error, Message(0)}
         /\ last >= EndOf(b, i) - 1 /\ b.decoded[first].decodes
               => FromBytes(Slice(b, first, last)) = Message(0)
    <2>1. b.messages[i].at = first
      BY <1>3, <1>5
    <2>2. LET got == FromBytes(Slice(b, b.messages[i].at, last))
          IN  /\ got \in {Error, Message(0)}
              /\ last >= EndOf(b, i) - 1 /\ b.decoded[b.messages[i].at].decodes
                    => got = Message(0)
      BY <2>1, <1>4, <1>12, SliceScan
    <2> QED  BY <2>1, <2>2
  <1>15. ~(origin.size < b.size) => last >= EndOf(b, i) - 1
    <2> SUFFICES ASSUME ~(origin.size < b.size)  PROVE last >= EndOf(b, i) - 1
      OBVIOUS
    <2>1. /\ EndOf(b, i) = first + b.messages[i].length /\ EndOf(b, i) <= b.size
          /\ first \in Nat /\ b.messages[i].length \in Nat /\ b.size \in Nat
      BY <1>3, <1>4, <1>5
    <2>2. object \in Nat /\ object >= b.size
      BY <1>8, <2>1
    <2>3. x.length \in Nat
      BY <1>1, <1>u
    <2>4. CASE last = object - 1
      BY <2>1, <2>2, <2>4
    <2>5. CASE last = (first + x.length) - 1 /\ x.length # 0
      BY <1>6, <2>1, <2>3, <2>5
    <2> QED  BY <1>9, <2>4, <2>5
  <1>16. first = rec.offset
    BY DEF first, x
  <1> QED  BY <1>11, <1>13, <1>14, <1>15, <1>16

\* The record that an entry tells of matches the selector the entry matches, unless the
\* member was asked for and its tag broke off: what occurs in a part occurs in the whole.
LEMMA RecordMatches ==
    ASSUME NEW e, NEW torn, NEW x, NEW r, NEW q, Tells(e, torn, x, r), Matches(x, q),
           q.member = Unset \/ torn # x.offset
    PROVE  Matches(r, q)
  <1>1. /\ q.param # Unset => <<q.param, r.param>> \in Occurs
        /\ q.level # Unset => <<q.level, r.level>> \in Occurs
    BY DEF Tells, Matches, TextsMatch
  <1>2. q.step # Unset => <<q.step, r.step>> \in Occurs
    <2> SUFFICES ASSUME q.step # Unset  PROVE <<q.step, r.step>> \in Occurs
      OBVIOUS
    <2>1. <<q.step, x.step>> \in Occurs
      BY DEF Matches, TextsMatch
    <2>2. CASE x.step = r.step
      BY <2>1, <2>2
    <2>3. CASE <<x.step, r.step>> \in Occurs
      <3> DEFINE a == <<q.step, x.step>>
                 c == <<x.step, r.step>>
      <3>1. a[1] = q.step /\ a[2] = c[1] /\ c[2] = r.step
        OBVIOUS
      <3>2. a \in Occurs /\ c \in Occurs
        BY <2>1, <2>3
      <3> HIDE DEF a, c
      <3>3. <<a[1], c[2]>> \in Occurs
        BY <3>1, <3>2, PipelineAssumption
      <3> QED  BY <3>1, <3>3
    <2> QED  BY <2>2, <2>3 DEF Tells
  <1>3. q.member # Unset => q.member = r.member
    BY DEF Tells, Matches
  <1> QED  BY <1>1, <1>2, <1>3 DEF Matches, TextsMatch

\* The invariant holds at first.
LEMMA PipeStart == Init => PipeInv
  <1> SUFFICES ASSUME Init  PROVE PipeInv
    OBVIOUS
  <1>1. outcome = NoOutcome /\ pc = "start"
    BY DEF Init
  <1>2. Correct
    BY <1>1, Outcomes DEF Correct, RightRecord, NoRecordIsTrue, RangeHoldsMessage
  <1> QED  BY <1>1, <1>2 DEF Init, PipeInv, SiteType

------------------------------------------------------------------------------
\* Each step.

\* What the site does, at any time, does not matter to it ...
LEMMA SiteChanges ==
    ASSUME PipeInv, site' \in SiteType,
           UNCHANGED <<program, sel, pc, index, hits, request, object, reply, origin, outcome>>
    PROVE  PipeInv'
  <1>1. Correct'
    BY CorrectKept DEF PipeInv
  <1>2. Selected' = Selected /\ Asked' = Asked /\ Answered' = Answered
    BY DEF Selected, Asked, Answered, rec
  <1> QED  BY <1>1, <1>2 DEF PipeInv

\* ... be it a new object or a new index.
LEMMA PostKeeps ==
    ASSUME PipeInv, \/ \E u \in Uploads : PostObject(u)
                    \/ \E e \in Editions : PostIndex(e)
    PROVE  PipeInv'
  <1>1. site \in SiteType
    BY DEF PipeInv
  <1>2. site' \in SiteType
    BY <1>1 DEF PostObject, PostIndex, Post, SiteType
  <1>3. UNCHANGED <<program, sel, pc, index, hits, request, object, reply, origin, outcome>>
    BY DEF PostObject, PostIndex, Post, task, fetch
  <1> QED  BY <1>2, <1>3, SiteChanges

\* A program that ends with another error says nothing that could be wrong.
LEMMA StopKeeps ==
    ASSUME PipeInv, NEW w, w \notin {"no record", "decode"}, Stop(Failed(w)),
           UNCHANGED <<site, program>>
    PROVE  PipeInv'
  <1>1. Correct'
    BY NothingSaid, Outcomes DEF Stop
  <1>2. pc' = "done"
    BY DEF Stop
  <1>3. site' \in SiteType /\ program' \in {"nomads", "ecmwf"}
    BY DEF PipeInv
  <1> QED  BY <1>1, <1>2, <1>3 DEF PipeInv

\* A program that goes on has printed nothing.
LEMMA StillSilent ==
    ASSUME PipeInv, pc # "done", UNCHANGED outcome
    PROVE  outcome' = NoOutcome /\ Correct'
  <1>1. outcome' = NoOutcome
    BY DEF PipeInv
  <1> QED  BY <1>1, NothingSaid, Outcomes

\* The index arrives, or a part of it.
LEMMA ArrivalKeeps ==
    ASSUME PipeInv, IndexArrives
    PROVE  PipeInv'
  <1>1. /\ pc = "start" /\ pc' = "parse" /\ site.index # None
        /\ site' = site /\ program' = program /\ UNCHANGED outcome
    BY DEF IndexArrives, world, task
  <1>2. outcome' = NoOutcome /\ Correct'
    BY <1>1, StillSilent
  <1>3. site.index \in Editions
    BY <1>1 DEF PipeInv, SiteType
  <1>4. program \in {"nomads", "ecmwf"} /\ site \in SiteType
    BY DEF PipeInv
  <1> DEFINE e == site.index
  <1>5. PICK k \in 0..Len(Lines(e)) :
          \/ index' = Received(e, k)
          \/ /\ k < Len(Lines(e))
             /\ \E r \in Remnants(Lines(e)[k + 1]) : index' = ReceivedTorn(e, k, r)
    BY Zenon DEF IndexArrives
  <1> HIDE DEF e
  <1>6. TrueIndex(program, index')
    <2>e. e \in Editions
      BY <1>3 DEF e
    <2>1. CASE index' = Received(e, k)
      BY <2>1, <2>e, <1>4, ReceivedTrue
    <2>2. ASSUME k < Len(Lines(e)), NEW r \in Remnants(Lines(e)[k + 1]),
                 index' = ReceivedTorn(e, k, r)
          PROVE  TrueIndex(program, index')
      BY <2>2, <2>e, <1>4, TornTrue
    <2> QED  BY <1>5, <2>1, <2>2
  <1> QED  BY <1>1, <1>2, <1>4, <1>6 DEF PipeInv

\* Parsing it.
LEMMA ParseKeeps ==
    ASSUME PipeInv, ParseIndex
    PROVE  PipeInv'
  <1> DEFINE parsed == IF program = "nomads" THEN parse_nomads_idx(index.lines)
                       ELSE parse_ecmwf_index(index.lines)
  <1>1. /\ pc = "parse" /\ hits' = parsed.entries
        /\ IF parsed.ok THEN pc' = "select" /\ UNCHANGED outcome
           ELSE Stop(Failed("parse"))
        /\ site' = site /\ program' = program /\ index' = index
    BY DEF ParseIndex, world, task
  <1>2. TrueIndex(program, index) /\ program \in {"nomads", "ecmwf"} /\ site \in SiteType
    BY <1>1 DEF PipeInv
  <1>3. CASE parsed.ok
    <2>1. pc' = "select" /\ UNCHANGED outcome
      BY <1>1, <1>3
    <2>2. outcome' = NoOutcome /\ Correct'
      BY <1>1, <2>1, StillSilent
    <2>3. /\ AllTold(index.edition, index.torn, parsed.entries)
          /\ index.whole => Covered(index.edition, parsed.entries)
      <3>1. CASE program = "nomads"
        <4>1. parsed = parse_nomads_idx(index.lines) /\ TrueIndex("nomads", index)
          BY <3>1, <1>2
        <4> QED  BY <4>1, <1>3, NomadsIndexTold
      <3>2. CASE program = "ecmwf"
        <4>1. parsed = parse_ecmwf_index(index.lines) /\ TrueIndex("ecmwf", index)
          BY <3>2, <1>2
        <4> QED  BY <4>1, <1>3, EcmwfIndexTold
      <3> QED  BY <3>1, <3>2, <1>2
    <2>4. index.edition \in Editions
      BY <1>2 DEF TrueIndex
    <2> HIDE DEF parsed
    <2> QED  BY <1>1, <1>2, <2>1, <2>2, <2>3, <2>4 DEF PipeInv
  <1>4. CASE ~parsed.ok
    <2>1. Stop(Failed("parse"))
      BY <1>1, <1>4
    <2> QED  BY <2>1, <1>1, StopKeeps
  <1> QED  BY <1>3, <1>4

\* Selecting a record: one is found when there is one.
LEMMA SelectKeeps ==
    ASSUME PipeInv, SelectRecord
    PROVE  PipeInv'
  <1>1. /\ pc = "select" /\ hits' = select(hits, sel)
        /\ IF hits' # <<>> THEN pc' = "ask" /\ UNCHANGED outcome
           ELSE Stop(Failed("no record"))
        /\ site' = site /\ program' = program /\ sel' = sel /\ index' = index
    BY DEF SelectRecord, world, task
  <1>2. /\ index.edition \in Editions
        /\ AllTold(index.edition, index.torn, hits)
        /\ index.whole => Covered(index.edition, hits)
        /\ program \in {"nomads", "ecmwf"} /\ site \in SiteType
    BY <1>1 DEF PipeInv
  <1> DEFINE h == hits
             S == {h[j] : j \in DOMAIN h}
             t == hits'
  <1>3. h \in Seq(S) /\ \A j \in 1..Len(h) : Told(index.edition, index.torn, h[j])
    BY <1>2 DEF AllTold
  <1>4. /\ t \in Seq(S)
        /\ \A j \in 1..Len(t) : \E i \in 1..Len(h) : Matches(h[i], sel) /\ t[j] = h[i]
        /\ \A i \in 1..Len(h) : Matches(h[i], sel) => t # <<>>
    <2> HIDE DEF S
    <2>1. /\ select(h, sel) \in Seq(S)
          /\ \A j \in 1..Len(select(h, sel)) :
                \E i \in 1..Len(h) : Matches(h[i], sel) /\ select(h, sel)[j] = h[i]
          /\ \A i \in 1..Len(h) : Matches(h[i], sel) => select(h, sel) # <<>>
      BY <1>3, SelectElements
    <2> QED  BY <1>1, <2>1
  <1>5. CASE hits' # <<>>
    <2>1. pc' = "ask" /\ UNCHANGED outcome
      BY <1>1, <1>5
    <2>2. outcome' = NoOutcome /\ Correct'
      BY <1>1, <2>1, StillSilent
    <2>3. 1 \in 1..Len(t)
      <3> HIDE DEF t, S
      <3> QED  BY <1>4, <1>5 DEF t
    <2>4. PICK i \in 1..Len(h) : Matches(h[i], sel) /\ t[1] = h[i]
      BY <1>4, <2>3
    <2>5. Told(index.edition, index.torn, t[1]) /\ Matches(t[1], sel)
      BY <1>3, <2>4
    <2>6. rec' = t[1]
      BY DEF rec
    <2>7. Selected'
      BY <1>1, <1>2, <2>5, <2>6 DEF Selected
    <2> QED  BY <1>1, <1>2, <2>1, <2>2, <2>7 DEF PipeInv
  <1>6. CASE hits' = <<>>
    <2>1. pc' = "done" /\ outcome' = Failed("no record")
      BY <1>1, <1>6 DEF Stop
    <2>2. outcome'.kind = "error" /\ outcome'.why = "no record"
      BY <2>1, Outcomes
    <2>3. RightRecord' /\ RangeHoldsMessage'
      BY <2>2 DEF RightRecord, RangeHoldsMessage
    <2>4. ASSUME index.whole, NEW r \in index.edition.records, Matches(r, sel)  PROVE FALSE
      <3>1. PICK j \in 1..Len(h) : Same(h[j], r)
        BY <2>4, <1>2 DEF Covered
      <3>2. Matches(h[j], sel)
        BY <2>4, <3>1 DEF Same, Matches, TextsMatch
      <3> QED  BY <3>1, <3>2, <1>4, <1>6
    <2>5. NoRecordIsTrue'
      BY <2>4, <1>1 DEF NoRecordIsTrue
    <2>6. Correct'
      BY <2>3, <2>5 DEF Correct
    <2> QED  BY <1>1, <1>2, <2>1, <2>6 DEF PipeInv
  <1> QED  BY <1>5, <1>6

\* The range request reaches the server.
LEMMA AskKeeps ==
    ASSUME PipeInv, AskRange
    PROVE  PipeInv'
  <1>1. /\ pc = "ask" /\ pc' = "fetching" /\ site.object # None
        /\ request' = RequestFor(rec) /\ object' = site.object.size
        /\ origin' = site.object /\ UNCHANGED outcome
        /\ site' = site /\ program' = program /\ sel' = sel /\ index' = index /\ hits' = hits
    BY DEF AskRange, F!Ask, world, task
  <1>2. outcome' = NoOutcome /\ Correct'
    BY <1>1, StillSilent
  <1>3. site \in SiteType /\ program \in {"nomads", "ecmwf"} /\ Selected
    BY <1>1 DEF PipeInv
  <1>4. Selected' = Selected /\ rec' = rec
    BY <1>1 DEF Selected, rec
  <1>5. site.object \in Uploads
    BY <1>1, <1>3 DEF SiteType
  <1>6. RequestFor(rec)' = RequestFor(rec)
    BY <1>4 DEF RequestFor
  <1>7. Asked'
    BY <1>1, <1>4, <1>5, <1>6 DEF Asked
  <1> QED  BY <1>1, <1>2, <1>3, <1>4, <1>7 DEF PipeInv

\* The answer keeps HttpClient's promise.
LEMMA RangeKeeps ==
    ASSUME PipeInv, RangeArrives
    PROVE  PipeInv'
  <1>1. /\ pc = "fetching" /\ F!Promised(request, object, reply')
        /\ request' = request /\ object' = object
        /\ IF reply'.ok /\ reply'.status = 206 THEN pc' = "extract" /\ UNCHANGED outcome
           ELSE Stop(Failed("range"))
        /\ site' = site /\ program' = program /\ sel' = sel /\ index' = index /\ hits' = hits
        /\ origin' = origin
    BY DEF RangeArrives, F!Answer, world, task
  <1>2. /\ site \in SiteType /\ program \in {"nomads", "ecmwf"} /\ Selected /\ Asked
    BY <1>1 DEF PipeInv
  <1>3. CASE reply'.ok /\ reply'.status = 206
    <2>1. pc' = "extract" /\ UNCHANGED outcome
      BY <1>1, <1>3
    <2>2. outcome' = NoOutcome /\ Correct'
      BY <1>1, <2>1, StillSilent
    <2>3. Selected' = Selected /\ Asked' = Asked
      BY <1>1 DEF Selected, Asked, rec, RequestFor
    <2>4. request.op = "get_range"
      BY <1>2 DEF Asked, RequestFor
    <2>5. /\ request.offset < object
          /\ reply'.body = F!Positions(request.offset, F!LastWanted(request, object))
      BY <1>1, <1>3, <2>4 DEF F!Promised
    <2>6. Answered'
      BY <2>5, <1>1 DEF Answered, F!Positions, F!LastWanted, F!Smaller
    <2> QED  BY <1>1, <1>2, <2>1, <2>2, <2>3, <2>6 DEF PipeInv
  <1>4. CASE ~(reply'.ok /\ reply'.status = 206)
    <2>1. Stop(Failed("range"))
      BY <1>1, <1>4
    <2> QED  BY <2>1, <1>1, StopKeeps
  <1> QED  BY <1>3, <1>4

\* extract_point(): the value is of the record that the index names, and a message that
\* cannot be decoded is the site's fault.
LEMMA ExtractKeeps ==
    ASSUME PipeInv, ExtractPoint
    PROVE  PipeInv'
  <1> DEFINE b == origin.edition.object
             got == FromBytes(Slice(b, reply.body[1], reply.body[Len(reply.body)]))
  <1>1. /\ pc = "extract"
        /\ site' = site /\ program' = program /\ sel' = sel /\ index' = index /\ hits' = hits
        /\ origin' = origin
        /\ \/ got.kind = "message" /\ Stop(Printed(request.offset + got.at))
           \/ got.kind = "message" /\ Stop(Failed("nearest"))
           \/ got = Error /\ Stop(Failed("decode"))
    BY DEF ExtractPoint, world, task
  <1>2. /\ site \in SiteType /\ program \in {"nomads", "ecmwf"}
        /\ Selected /\ Asked /\ Answered
    BY <1>1 DEF PipeInv
  <1>3. ASSUME origin.edition = index.edition
        PROVE  /\ got \in {Error, Message(0)}
               /\ ~(origin.size < b.size) /\ b.decoded[rec.offset].decodes
                      => got = Message(0)
    BY <1>2, <1>3, RangeRead
  <1>4. /\ Error.kind = "error" /\ Message(0).kind = "message" /\ Message(0).at = 0
    BY DEF Error, Message
  <1>5. request.offset = rec.offset /\ rec' = rec
    BY <1>1, <1>2 DEF Asked, RequestFor, rec
  <1> HIDE DEF got
  <1>6. CASE got.kind = "message" /\ Stop(Printed(request.offset + got.at))
    <2>1. pc' = "done" /\ outcome' = Printed(request.offset + got.at)
      BY <1>6 DEF Stop
    <2>2. outcome'.kind = "value" /\ outcome'.why = "" /\ outcome'.at = request.offset + got.at
      BY <2>1, Outcomes
    <2>3. NoRecordIsTrue' /\ RangeHoldsMessage'
      BY <2>2 DEF NoRecordIsTrue, RangeHoldsMessage
    <2>4. ASSUME SameEdition, ~Misread
          PROVE  \E r \in index.edition.records :
                    r.at = request.offset + got.at /\ r.at = rec.offset /\ Matches(r, sel)
      <3>1. got = Message(0)
        BY <2>4, <1>3, <1>4, <1>6 DEF SameEdition
      <3>2. PICK r \in index.edition.records : Tells(index.edition, index.torn, rec, r)
        BY <1>2 DEF Selected, Told
      <3>3. Matches(rec, sel)
        BY <1>2 DEF Selected
      <3>4. sel.member = Unset \/ index.torn # rec.offset
        BY <2>4 DEF Misread
      <3>5. Matches(r, sel)
        BY <3>2, <3>3, <3>4, RecordMatches
      <3>6. r.at = rec.offset /\ r.at \in Nat
        <4>1. r.at = rec.offset
          BY <3>2 DEF Tells
        <4>2. index.edition \in Editions
          BY <1>2 DEF Selected
        <4> QED  BY <4>1, <4>2, RecordStarts
      <3>7. r.at = request.offset + got.at
        BY <3>1, <3>6, <1>4, <1>5
      <3> QED  BY <3>5, <3>6, <3>7
    <2>5. SameEdition' = SameEdition /\ Misread' = Misread
      BY <1>1, <1>5 DEF SameEdition, Misread
    <2>6. RightRecord'
      BY <2>2, <2>4, <2>5, <1>1, <1>5 DEF RightRecord
    <2>7. Correct'
      BY <2>3, <2>6 DEF Correct
    <2> QED  BY <1>1, <1>2, <2>1, <2>7 DEF PipeInv
  <1>7. CASE Stop(Failed("nearest"))
    BY <1>1, <1>7, StopKeeps
  <1>8. CASE got = Error /\ Stop(Failed("decode"))
    <2>1. pc' = "done" /\ outcome' = Failed("decode")
      BY <1>8 DEF Stop
    <2>2. outcome'.kind = "error" /\ outcome'.why = "decode"
      BY <2>1, Outcomes
    <2>3. RightRecord' /\ NoRecordIsTrue'
      BY <2>2 DEF RightRecord, NoRecordIsTrue
    <2>4. \/ ~SameEdition \/ origin.size < b.size \/ ~b.decoded[rec.offset].decodes
      BY <1>3, <1>4, <1>8 DEF SameEdition
    <2>5. SameEdition' = SameEdition
      BY <1>1 DEF SameEdition
    <2>6. RangeHoldsMessage'
      BY <2>4, <2>5, <1>1, <1>5 DEF RangeHoldsMessage
    <2>7. Correct'
      BY <2>3, <2>6 DEF Correct
    <2> QED  BY <1>1, <1>2, <2>1, <2>7 DEF PipeInv
  <1> QED  BY <1>1, <1>6, <1>7, <1>8

\* Every step keeps the invariant.
LEMMA PipeStep == PipeInv /\ [Next]_vars => PipeInv'
  <1> SUFFICES ASSUME PipeInv, [Next]_vars  PROVE PipeInv'
    OBVIOUS
  <1>1. CASE (\E u \in Uploads : PostObject(u)) \/ (\E e \in Editions : PostIndex(e))
    BY <1>1, PostKeeps
  <1>2. CASE IndexFails
    BY <1>2, StopKeeps DEF IndexFails, world, task
  <1>3. CASE IndexArrives
    BY <1>3, ArrivalKeeps
  <1>4. CASE ParseIndex
    BY <1>4, ParseKeeps
  <1>5. CASE SelectRecord
    BY <1>5, SelectKeeps
  <1>6. CASE AskRange
    BY <1>6, AskKeeps
  <1>7. CASE RangeRefused
    BY <1>7, StopKeeps DEF RangeRefused, world, task
  <1>8. CASE RangeArrives
    BY <1>8, RangeKeeps
  <1>9. CASE ExtractPoint
    BY <1>9, ExtractKeeps
  <1>10. CASE UNCHANGED vars
    <2>1. UNCHANGED <<program, sel, pc, index, hits, request, object, reply, origin, outcome>>
          /\ site' = site
      BY <1>10 DEF vars, world, task, fetch
    <2>2. site' \in SiteType
      BY <2>1 DEF PipeInv
    <2> QED  BY <2>1, <2>2, SiteChanges
  <1>11. CASE Finished
    BY <1>10, <1>11 DEF Finished
  <1> QED
    BY <1>1, <1>2, <1>3, <1>4, <1>5, <1>6, <1>7, <1>8, <1>9, <1>10, <1>11 DEF Next

------------------------------------------------------------------------------
\* The theorems.

\* In all behaviours of the two programs and the site, what a program knows at each
\* place is as the invariant says.
THEOREM PipelineInvariant == Spec => []PipeInv
  BY PipeStart, PipeStep, PTL DEF Spec

\* A value printed by either program is that of the record the index names and of one
\* that was asked for, if index and object are of one edition and the tag that names
\* the member did not break off.
THEOREM ValueIsOfRightRecord == Spec => []RightRecord
  <1>1. PipeInv => RightRecord
    BY DEF PipeInv, Correct
  <1> QED  BY <1>1, PipelineInvariant, PTL

\* "no record", from select() of an index that arrived whole, means that the edition has
\* no such record.
THEOREM NoRecordMeansNone == Spec => []NoRecordIsTrue
  <1>1. PipeInv => NoRecordIsTrue
    BY DEF PipeInv, Correct
  <1> QED  BY <1>1, PipelineInvariant, PTL

\* A range that get_range() is asked for holds the whole message: extract_point() fails
\* to decode only what is not all there, of another edition, or unreadable for ecCodes.
THEOREM RangesHoldMessages == Spec => []RangeHoldsMessage
  <1>1. PipeInv => RangeHoldsMessage
    BY DEF PipeInv, Correct
  <1> QED  BY <1>1, PipelineInvariant, PTL

------------------------------------------------------------------------------
\* The pipeline and RangeFetch.

\* What the program asks of get_range() is a request of 64-bit integers.
LEMMA RequestIsOne ==
    ASSUME Selected
    PROVE  RequestFor(rec) \in F!Requests
  <1>1. rec.offset \in 0..UMax /\ rec.length \in 0..UMax
    BY DEF Selected, Told
  <1> QED  BY <1>1 DEF RequestFor, F!Requests, F!U64

\* Each step of the program and the site is one of RangeFetch, or none of its concern.
LEMMA FetchStep == PipeInv /\ [Next]_vars => [F!Next]_(F!vars)
  <1> SUFFICES ASSUME PipeInv, [Next]_vars  PROVE [F!Next]_(F!vars)
    OBVIOUS
  <1>1. CASE UNCHANGED fetch
    BY <1>1 DEF fetch, F!vars
  <1>2. CASE AskRange
    <2>1. RequestFor(rec) \in F!Requests
      BY <1>2, RequestIsOne DEF AskRange, PipeInv
    <2>2. site.object.size \in F!U64
      <3>1. site.object \in Uploads
        BY <1>2 DEF AskRange, PipeInv, SiteType
      <3> DEFINE u == site.object
      <3>2. u.edition \in Editions /\ u.size \in 1..u.edition.object.size
        BY <3>1, PipelineAssumption
      <3>3. u.edition.object.size \in 0..UMax
        BY <3>2, EditionFacts
      <3> HIDE DEF u
      <3>4. u.size \in 0..UMax
        BY <3>2, <3>3, ConstantsNat
      <3> QED  BY <3>4 DEF F!U64, u
    <2>3. F!Ask(RequestFor(rec), site.object.size)
      BY <1>2 DEF AskRange
    <2> QED  BY <2>1, <2>2, <2>3 DEF F!Next
  <1>3. CASE RangeRefused
    <2>1. RequestFor(rec) \in F!Requests
      BY <1>3, RequestIsOne DEF RangeRefused, PipeInv
    <2>2. F!Refuse(RequestFor(rec))
      BY <1>3 DEF RangeRefused
    <2> QED  BY <2>1, <2>2 DEF F!Next
  <1>4. CASE RangeArrives
    BY <1>4 DEF RangeArrives, F!Next
  <1> QED
    BY <1>1, <1>2, <1>3, <1>4
    DEF Next, vars, PostObject, PostIndex, Post, IndexFails, IndexArrives, ParseIndex,
        SelectRecord, ExtractPoint, Finished

\* The programs use HttpClient by the rules of RangeFetch, which HttpClient implements:
\* one request at a time, of integers in range, and nothing else touches its state.
THEOREM RequestsFollowPromise == Spec => F!Spec
  <1>1. Init => F!Init
    BY DEF Init, F!Init, NoReply
  <1> QED  BY <1>1, PipelineInvariant, FetchStep, PTL DEF Spec, F!Spec
==============================================================================
