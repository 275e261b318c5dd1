----------------------------- MODULE MCPipeline -----------------------------
(* An instance of Pipeline for TLC.                                        *)
EXTENDS Pipeline, GribBlobs

\* Which text occurs in which.
Texts == {"2t", "mx2t", "6 h", "36 h", "36", "sfc"}
MCOccurs ==
    {<<t, t>> : t \in Texts}
    \cup {<<"2t", "mx2t">>, <<"6 h", "36 h">>, <<"36", "36 h">>}

Json(kind, text, value) ==
    [kind |-> kind, text |-> text, value |-> value, whole |-> kind = "int"]
AbsentValue == Json("absent", "", 0)

\* A part of an object: a segment, and what the index says of it.
Part(seg, param, step, member) ==
    [seg |-> seg, param |-> param, step |-> step, member |-> member]
Gap == Part(Padding, "", "", -1)

NomadsLine(i, at, p) ==
    [fields |-> IF p.member = -1 THEN 6 ELSE 7, record |-> i, offset |-> at,
     param |-> p.param, level |-> "sfc", step |-> p.step,
     ens |-> [tag |-> IF p.member = -1 THEN "none" ELSE IF p.member = 0 THEN "ctl"
                      ELSE "number", n |-> p.member]]

EcmwfLine(at, length, p) ==
    [json |-> "object", offset |-> Json("int", "", at), length |-> Json("int", "", length),
     param |-> Json("text", p.param, 0), levtype |-> Json("text", "sfc", 0),
     levelist |-> AbsentValue, step |-> Json("text", p.step, 0),
     type |-> Json("text", IF p.member = 0 THEN "cf" ELSE "pf", 0),
     number |-> IF p.member = -1 THEN AbsentValue ELSE Json("int", "n", p.member)]

Edition(parts) ==
    LET blob == Blob([i \in 1..Len(parts) |-> parts[i].seg], UMax)
        described == SelectSeq(parts, LAMBDA p : p.seg.message)
        at(i) == blob.messages[i].at
        I == 1..Len(described)
    IN  [object |-> blob,
         nomads |-> [i \in I |-> NomadsLine(i, at(i), described[i])],
         ecmwf |-> [i \in I |-> EcmwfLine(at(i), described[i].seg.size, described[i])],
         records |-> {[at |-> at(i), param |-> described[i].param, level |-> "sfc",
                       step |-> described[i].step, member |-> described[i].member] :
                        i \in I}]

E1 == Edition(<<Part(Plain, "mx2t", "36 h", 12), Part(Nested, "2t", "6 h", 1),
                Part(Edition1, "2t", "36 h", 0)>>)
E2 == Edition(<<Part(Edition1, "2t", "6 h", -1), Gap, Part(Nested, "2t", "36 h", 12),
                Part(Undecodable, "mx2t", "6 h", 1)>>)
\* An inventory with lines that are none, and an index with an impossible range.
E3 ==
    LET e == Edition(<<Part(Plain, "2t", "36 h", -1), Part(Plain, "2t", "36 h", 12)>>)
    IN  [e EXCEPT !.nomads = <<[@[1] EXCEPT !.fields = 0], @[1],
                               [@[1] EXCEPT !.fields = 2], @[2]>>,
                  !.ecmwf = <<[@[1] EXCEPT !.json = "blank"], @[1],
                              [@[2] EXCEPT !.length.value = UMax]>>]

MCEditions == {E1, E2, E3}

Upload(e, n) == [edition |-> e, size |-> n]
MCUploads ==
    {Upload(e, e.object.size) : e \in MCEditions}
    \cup {Upload(E1, 30), Upload(E1, 67), Upload(E2, 51)}

Selector(param, step, member) ==
    [param |-> param, level |-> "sfc", step |-> step, member |-> member]
MCSelectors ==
    {Selector("2t", Unset, Unset), Selector("2t", "6 h", Unset),
     Selector("mx2t", "6 h", Unset), Selector(Unset, "36", 12),
     Selector("2t", Unset, 1), Selector(Unset, Unset, -1)}
==============================================================================
