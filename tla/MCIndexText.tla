----------------------------- MODULE MCIndexText -----------------------------
(* An instance of IndexText for TLC.  A 64-bit number is 7 bits wide here, *)
(* and doubles are exact up to 2^5.                                        *)
EXTENDS IndexText

MCOccurs == {<<"t", "t">>}

NLine(fields, record, offset, tag, n) ==
    [fields |-> fields, record |-> record, offset |-> offset, param |-> "t",
     level |-> "t", step |-> "t", ens |-> [tag |-> tag, n |-> n]]

\* Blank and other lines; records in any order, up to the largest offset, and past
\* it; submessages and other bad records; ensemble tags.
MCNomadsLines ==
    {NLine(f, NotANumber, NotANumber, "none", 0) : f \in {0, 5}}
    \cup {NLine(6, 1, o, "none", 0) : o \in {0, 20, 40, 127, 128, NotANumber}}
    \cup {NLine(6, r, 60, "none", 0) : r \in {NotANumber, 0, 15, 16}}
    \cup {NLine(7, 2, 80, e[1], e[2]) :
            e \in {<<"ctl", 0>>, <<"number", 7>>, <<"number", 8>>,
                   <<"number", -3>>, <<"other", 0>>}}

Json(kind, value, whole, twice) ==
    [kind |-> kind, text |-> "t", value |-> value, whole |-> whole, twice |-> twice]
Int0(n) == Json("int", n, TRUE, 2 * n)
AbsentValue == Json("absent", 0, FALSE, 0)

ELine(json, offset, length, number) ==
    [json |-> json, offset |-> offset, length |-> length, param |-> Json("text", 0, FALSE, 0),
     levtype |-> AbsentValue, levelist |-> Json("int", 5, TRUE, 10),
     step |-> Json("other", 0, FALSE, 0), type |-> AbsentValue, number |-> number]

\* Integers and doubles, whole, with a fraction, negative, rounded, and too large.
Numbers ==
    {Int0(n) : n \in {-5, 0, 1, 20, 127, 128}}
    \cup {Json("double", 20, TRUE, 40), Json("double", 20, FALSE, 41),
          Json("double", 31, TRUE, 62), Json("double", 32, TRUE, 66),
          Json("text", 20, TRUE, 40), AbsentValue}

MCEcmwfLines ==
    {ELine(j, Int0(0), Int0(1), AbsentValue) : j \in {"blank", "bad", "array"}}
    \cup {ELine("object", o, Int0(1), AbsentValue) : o \in Numbers}
    \cup {ELine("object", Int0(o), l, AbsentValue) : o \in {0, 20, 127}, l \in Numbers}
    \cup {ELine("object", Int0(40), Int0(20), n) :
            n \in {Int0(7), Int0(8), Int0(-2), Json("text", 3, TRUE, 6),
                   Json("double", 3, FALSE, 7)}}
==============================================================================
