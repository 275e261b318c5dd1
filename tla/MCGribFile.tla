----------------------------- MODULE MCGribFile -----------------------------
(* Instances of GribFile for TLC.                                          *)
EXTENDS GribFile, GribBlobs

Pairs == {Plain, Nested, Padding, Undecodable} \X {Edition1, Nested, Alien, Plain}
Triples == {<<Plain, Nested, Edition1>>, <<Edition1, Undecodable, Plain>>,
            <<Nested, Alien, Edition1>>, <<Padding, Nested, Plain>>}

\* Whole blobs.
WholeBlobs == {Blob(s, 100) : s \in Pairs \cup Triples}

\* A message, and one cut off after n bytes: in the magic, before the edition,
\* in the length, in the data, before the last trailer byte.
CutBlobs ==
    {Blob(<<Plain, s>>, Plain.size + n) :
        s \in {Edition1, Nested}, n \in {1, 3, 4, 7, 8, 11, 15, 19, 35}}

MCBuffers == WholeBlobs \cup CutBlobs \cup {NoBuffer}

\* Member 2 occurs, 5 does not; -1 is what a message without a member has.
MCMembers == {-1, 2, 5}

MCFewBuffers ==
    {Blob(<<Plain, Nested, Edition1>>, 100), Blob(<<Plain, Edition1>>, 27), NoBuffer}

\* Bound: one file at a time is open on any blob, or two on these few.
FewAtOnce ==
    \/ \A f \in Files : file[f].buf \in MCFewBuffers
    \/ \E f \in Files : \A g \in Files \ {f} : file[g].buf = NoBuffer
==============================================================================
