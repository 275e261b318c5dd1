------------------------------ MODULE GribBlobs ------------------------------
(* Blobs for the TLC instances: put together from segments, cut off        *)
(* anywhere.                                                               *)
EXTENDS GribScan, FiniteSets

Magic(p, e, n) == [at |-> p, edition |-> e, length |-> n]

\* A segment: its bytes, the magics and trailers in it, whether it is a message,
\* and what ecCodes makes of it.
Segment(size, magics, trailers, message, decodes, pn, n) ==
    [size |-> size, magics |-> magics, trailers |-> trailers,
     message |-> message,
     decoded |-> [decodes |-> decodes, perturbationNumber |-> pn, number |-> n]]

Plain == Segment(20, {Magic(0, 2, 20)}, {16}, TRUE, TRUE, 1, 7)
Edition1 == Segment(12, {Magic(0, 1, 12)}, {8}, TRUE, TRUE, Absent, 2)
\* A message whose data looks like another message.
Nested == Segment(36, {Magic(0, 2, 36), Magic(16, 1, 12)}, {24, 32}, TRUE, TRUE,
                  Absent, Absent)
Undecodable == Segment(20, {Magic(0, 2, 20)}, {16}, TRUE, FALSE, 1, 1)
Padding == Segment(5, {}, {1}, FALSE, FALSE, Absent, Absent)
Alien == Segment(9, {Magic(0, 3, 9)}, {}, FALSE, FALSE, Absent, Absent)

\* The blob of the segments `segs', cut off after n bytes.
Blob(segs, n) ==
    LET start[i \in 1..(Len(segs) + 1)] ==
            IF i = 1 THEN 0 ELSE start[i - 1] + segs[i - 1].size
        I == 1..Len(segs)
        size == IF n < start[Len(segs) + 1] THEN n ELSE start[Len(segs) + 1]
        magics == UNION {{[m EXCEPT !.at = @ + start[i]] :
                             m \in segs[i].magics} : i \in I}
        in == {m \in magics : m.at + 4 <= size}
        of(p) == CHOOSE i \in I : start[i] <= p /\ p < start[i + 1]
        whole == {i \in I : segs[i].message /\ start[i + 1] <= size}
        parts == {i \in I : segs[i].message /\ start[i] < size /\ size < start[i + 1]}
        nth(k) == CHOOSE i \in whole : Cardinality({j \in whole : j <= i}) = k
    IN  [size |-> size,
         magics |-> in,
         trailers |-> {p \in UNION {{t + start[i] : t \in segs[i].trailers} :
                                       i \in I} : p + 4 <= size},
         decoded |-> [p \in {m.at : m \in in} |-> segs[of(p)].decoded],
         messages |-> [k \in 1..Cardinality(whole) |->
                          [at |-> start[nth(k)], length |-> segs[nth(k)].size]],
         cut |-> IF parts = {} THEN 0
                 ELSE size - start[CHOOSE i \in parts : TRUE]]
==============================================================================
