------------------------------- MODULE Sidecar -------------------------------
(***************************************************************************)
(* The byte-range indexes (src/models/sidecar.cpp): parse_nomads_idx(),    *)
(* parse_ecmwf_index() and select().  Pure functions.                      *)
(*                                                                         *)
(* A NOMADS line is how many fields it has and what they say, an ECMWF     *)
(* line what its JSON says.  Numbers are whole here; a field that is no    *)
(* number ("4.1", "12junk") is NotANumber.  Of texts only equality and     *)
(* which one occurs in which are known.                                    *)
(***************************************************************************)
EXTENDS Integers, Sequences

CONSTANTS
    UMax,       \* the largest std::uint64_t
    RecordMax,  \* the largest std::uint32_t
    IntMax,     \* the largest int
    ExactMax,   \* 2^53: doubles from here on are not trusted to be exact
    Occurs,     \* pairs of texts: the first occurs in the second
    Unset       \* a selector's field that is not set

ASSUME SidecarAssumption ==
    /\ {UMax, RecordMax, IntMax, ExactMax} \subseteq Nat
    /\ ExactMax <= UMax
    /\ Unset \notin Int

NotANumber == -1
Empty == ""

\* GribIndexEntry, as it is before its length is known.
Entry(record, offset, param, level, step, member) ==
    [record |-> record, offset |-> offset, length |-> 0, param |-> param,
     level |-> level, step |-> step, member |-> member]

\* What a loop over s has collected that passes over all but the elements at `places'.
Kept(s, places) ==
    LET kept[n \in 0..Len(s)] ==
            IF n = 0 THEN <<>>
            ELSE IF n \in places THEN Append(kept[n - 1], s[n])
            ELSE kept[n - 1]
    IN  kept[Len(s)]

ParseError == [ok |-> FALSE, entries |-> <<>>]
Parsed(entries) == [ok |-> TRUE, entries |-> entries]

------------------------------------------------------------------------------
\* NOMADS

\* Slip: a line needs a field after the forecast.
HasTrailingField(line) == line.fields > 6

\* Blank lines, and lines that are no inventory lines, are passed over.
IsInventory(line) == line.fields >= 6

InventoryLines(text) == Kept(text, {i \in DOMAIN text : IsInventory(text[i])})

to_u64(n) == n \in 0..UMax

\* The ENS= tag, if it is there: a control, a number with its sign, or neither.
parse_nomads_member(line) ==
    CASE line.ens.tag = "ctl" -> 0
      [] line.ens.tag = "number" /\ line.ens.n \in 0..IntMax -> line.ens.n
      [] OTHER -> -1

ValidNomads(line) ==
    /\ to_u64(line.record) /\ line.record # 0 /\ line.record <= RecordMax
    /\ to_u64(line.offset)

\* Slip: the last byte of a record is left out.
LengthToLast(e, next) == next.offset - e.offset - 1

\* A record ends where the next one starts.
LengthTo(e, next) == next.offset - e.offset

\* Slip: the last record is taken to be as long as the one before it.
LastLikePrevious(entries) ==
    LET n == Len(entries)
    IN  IF n < 2 THEN entries[n]
        ELSE [entries[n] EXCEPT !.length = entries[n].offset - entries[n - 1].offset]

\* The last record is open-ended.
LastEntry(entries) == entries[Len(entries)]

\* Slip: the order of the offsets is not checked.
Unordered(entries) == TRUE

Increasing(entries) ==
    \A i \in 1..(Len(entries) - 1) : entries[i].offset < entries[i + 1].offset

parse_nomads_idx(text) ==
    LET lines == InventoryLines(text)
        first == [i \in 1..Len(lines) |->
                    Entry(lines[i].record, lines[i].offset, lines[i].param,
                          lines[i].level, lines[i].step,
                          parse_nomads_member(lines[i]))]
    IN  IF /\ \A i \in 1..Len(lines) : ValidNomads(lines[i])
           /\ Increasing(first)
        THEN Parsed([i \in 1..Len(first) |->
                IF i = Len(first) THEN LastEntry(first)
                ELSE [first[i] EXCEPT !.length = LengthTo(first[i], first[i + 1])]])
        ELSE ParseError

------------------------------------------------------------------------------
\* ECMWF.  A JSON value is its kind ("absent", "text", "int", "double", "other"), the
\* text it is or prints as, and the number that the JSON parser holds, or that the
\* text spells, if that is `whole'.  `twice' is for the properties: twice the number
\* that is written in the index.

is_number(v) == v.kind \in {"int", "double"}

generic_to_string(v) == IF v.kind = "text" \/ is_number(v) THEN v.text ELSE Empty

\* Slip: a double is cast.
CastsDouble(v) == is_number(v) /\ v.value \in 0..UMax

\* Integers keep their width; a double must be whole and small enough to be exact.
exact_u64(v) ==
    \/ v.kind = "int" /\ v.value \in 0..UMax
    \/ v.kind = "double" /\ v.whole /\ v.value >= 0 /\ v.value < ExactMax

\* Slip: the end of the range may overflow.
AnyRange(offset, length) == TRUE

\* The range ends within the integers.
RangeFits(offset, length) == length > 0 => length - 1 <= UMax - offset

ValidEcmwf(line) ==
    /\ line.json = "object"
    /\ is_number(line.offset) /\ is_number(line.length)
    /\ exact_u64(line.offset) /\ exact_u64(line.length)
    /\ RangeFits(line.offset.value, line.length.value)

\* The number must be all there is, and fit an int.
ToMember(v) ==
    IF generic_to_string(v) # Empty /\ v.whole /\ v.value \in (-IntMax - 1)..IntMax
    THEN v.value ELSE -1

EcmwfEntry(line) ==
    [Entry(0, line.offset.value, generic_to_string(line.param),
           generic_to_string(IF line.levelist.kind # "absent" THEN line.levelist
                             ELSE line.levtype),
           generic_to_string(line.step),
           IF line.type.kind = "text" /\ line.type.text = "cf" THEN 0
           ELSE IF line.number.kind # "absent" THEN ToMember(line.number)
           ELSE -1)
     EXCEPT !.length = line.length.value]

\* Blank lines are passed over.
JsonLines(text) == Kept(text, {i \in DOMAIN text : text[i].json # "blank"})

parse_ecmwf_index(text) ==
    LET lines == JsonLines(text)
    IN  IF \A i \in 1..Len(lines) : ValidEcmwf(lines[i])
        THEN Parsed([i \in 1..Len(lines) |-> EcmwfEntry(lines[i])])
        ELSE ParseError

------------------------------------------------------------------------------
\* select()

TextsMatch(e, sel) ==
    /\ sel.param # Unset => <<sel.param, e.param>> \in Occurs
    /\ sel.level # Unset => <<sel.level, e.level>> \in Occurs
    /\ sel.step # Unset => <<sel.step, e.step>> \in Occurs

Matches(e, sel) ==
    TextsMatch(e, sel) /\ (sel.member # Unset => sel.member = e.member)

select(entries, sel) ==
    Kept(entries, {i \in DOMAIN entries : Matches(entries[i], sel)})
==============================================================================
