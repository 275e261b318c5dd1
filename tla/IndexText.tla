------------------------------ MODULE IndexText ------------------------------
(***************************************************************************)
(* An index arrives line by line: what the parsers of Sidecar make of any  *)
(* text, and of every part of it that a cut-off download may leave.        *)
(***************************************************************************)
EXTENDS Sidecar

CONSTANTS
    NomadsLines,    \* lines an .idx may have
    EcmwfLines,     \* lines an .index may have
    MaxLines        \* bound: lines of an index

\* The JSON parser holds an integer as it is written, and a whole number in a double
\* as long as doubles are exact.
ASSUME IndexAssumption ==
    \A l \in EcmwfLines : \A v \in {l.offset, l.length} :
        /\ v.value \in Int
        /\ \/ v.kind = "int"
           \/ v.kind = "double" /\ v.whole /\ v.value \in 0..(ExactMax - 1)
           => v.twice = 2 * v.value

VARIABLES
    format,         \* "nomads" or "ecmwf"
    text            \* the lines so far

textVars == <<format, text>>

\* What the parser for the format returns.
Parse ==
    IF format = "nomads" THEN parse_nomads_idx(text) ELSE parse_ecmwf_index(text)

AddLine ==
    /\ Len(text) < MaxLines
    /\ \/ format = "nomads" /\ \E l \in NomadsLines : text' = Append(text, l)
       \/ format = "ecmwf" /\ \E l \in EcmwfLines : text' = Append(text, l)
    /\ UNCHANGED format

\* Another download.
NewIndex ==
    /\ text' = <<>>
    /\ format' \in {"nomads", "ecmwf"}

TextInit == text = <<>> /\ format \in {"nomads", "ecmwf"}

TextNext == AddLine \/ NewIndex

TextSpec == TextInit /\ [][TextNext]_textVars
------------------------------------------------------------------------------
\* Properties.

entries == Parse.entries

(* Types; no difference of offsets has wrapped, and get_range() refuses no *)
(* range of an accepted index as overflowing.                              *)
TypeOK ==
    /\ format \in {"nomads", "ecmwf"}
    /\ Parse.ok \in BOOLEAN
    /\ \A i \in DOMAIN entries :
          /\ entries[i].record \in 0..RecordMax
          /\ entries[i].offset \in 0..UMax
          /\ entries[i].length \in 0..UMax
          /\ entries[i].offset + entries[i].length - 1 <= UMax
          /\ entries[i].member \in (-IntMax - 1)..IntMax

\* Byte p is in the range of an entry; length 0 is open-ended.
Covers(e, p) == p >= e.offset /\ (e.length = 0 \/ p < e.offset + e.length)

(* The records of an accepted .idx divide the object: from the first one   *)
(* on every byte is in exactly one record's range.                         *)
RangesTile ==
    format = "nomads" /\ entries # <<>> =>
        \A p \in entries[1].offset..UMax :
            \E i \in DOMAIN entries : \A k \in DOMAIN entries : Covers(entries[k], p) <=> k = i

(* An accepted .index has the byte ranges that are written in it, exactly: *)
(* a negative number, a fraction that a double can hold, or an integer     *)
(* that a double may have rounded never turns into another offset or       *)
(* length.                                                                 *)
RangesAreStated ==
    format = "ecmwf" =>
        LET lines == JsonLines(text)
        IN  \A i \in DOMAIN entries :
                /\ lines[i].offset.twice = 2 * entries[i].offset
                /\ lines[i].length.twice = 2 * entries[i].length

(* An index cut off between two lines tells no lies: each record it names  *)
(* is a record of the whole index, and only the last one's range differs,  *)
(* being open-ended.                                                       *)
CutIndexAgrees ==
    [][text' # <<>> /\ Parse'.ok =>
         /\ Parse.ok
         /\ Len(entries) <= Len(entries')
         /\ \A i \in DOMAIN entries :
               \/ entries'[i] = entries[i]
               \/ /\ i = Len(entries)
                  /\ entries[i] = [entries'[i] EXCEPT !.length = 0]]_textVars
==============================================================================
