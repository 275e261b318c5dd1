------------------------------ MODULE GribScan ------------------------------
(***************************************************************************)
(* Finding GRIB messages in a buffer: find_message() and from_bytes()      *)
(* (src/decode/handle.cpp), and what the callers read of a decoded message *)
(* (src/api/extract.cpp).  Pure functions of the buffer.                   *)
(*                                                                         *)
(* A buffer is its size, the places where the bytes "GRIB" start with the  *)
(* edition and length fields that follow them, and the places where "7777" *)
(* starts.  What ecCodes makes of the message at a place is `decoded'.     *)
(***************************************************************************)
EXTENDS Integers, Sequences

CONSTANT
    Absent      \* a GRIB key the message does not have

NoBuffer == [size |-> 0, magics |-> {}, trailers |-> {}, decoded |-> <<>>,
             messages |-> <<>>, cut |-> 0]

Smallest(edition) == IF edition = 2 THEN 20 ELSE 12

\* Where message i of a blob ends.
EndOf(b, i) == b.messages[i].at + b.messages[i].length

\* What a blob is: whole messages one after the other, each with its header and
\* trailer, perhaps with other bytes between them, and then perhaps the first `cut'
\* bytes of another.  "GRIB" may occur in a message's data, but it does not overlap
\* itself, and in the other bytes no edition follows it.
WellFormed(b) ==
    LET n == Len(b.messages)
    IN  /\ b.size \in Nat /\ b.cut \in 0..b.size
        /\ b.messages \in Seq([at : Nat, length : Nat])
        /\ b.magics \subseteq [at : Nat, edition : Nat, length : Nat]
        /\ \A m, k \in b.magics : m = k \/ m.at + 4 <= k.at \/ k.at + 4 <= m.at
        /\ \A i \in 1..n :
              /\ EndOf(b, i) <= b.size - b.cut
              /\ \A j \in 1..n : i < j => EndOf(b, i) <= b.messages[j].at
              /\ \E m \in b.magics : /\ m.at = b.messages[i].at
                                      /\ m.length = b.messages[i].length
                                      /\ m.edition \in {1, 2}
                                      /\ m.length >= Smallest(m.edition)
              /\ EndOf(b, i) - 4 \in b.trailers
        /\ b.cut >= 4 => \E m \in b.magics : /\ m.at = b.size - b.cut
                                             /\ m.edition \in {1, 2}
                                             /\ m.length > b.cut
        /\ \A m \in b.magics :
              m.edition \in {1, 2} =>
                  \/ m.at >= b.size - b.cut
                  \/ \E i \in 1..n : b.messages[i].at <= m.at /\ m.at < EndOf(b, i)

End == [scan |-> "End", start |-> 0, length |-> 0]
Invalid == [scan |-> "Invalid", start |-> 0, length |-> 0]
Found(m) == [scan |-> "Found", start |-> m.at, length |-> m.length]

\* Bytes of the buffer from a magic on.
Rest(buf, m) == buf.size - m.at

\* Slip: a magic without a whole header is not looked at.
StopsAtHeaders(buf, from) ==
    {m \in buf.magics :
        m.at >= from /\ Rest(buf, m) >= 8 /\ m.edition \in {1, 2}}

\* The magics the loop stops at: with a known edition, or too close to the end
\* for the edition to be read.
Stops(buf, from) ==
    {m \in buf.magics :
        /\ m.at >= from
        /\ Rest(buf, m) >= 4
        /\ Rest(buf, m) < 8 \/ m.edition \in {1, 2}}

\* The message at m is all there.
Complete(buf, m) ==
    /\ Rest(buf, m) >= (IF m.edition = 2 THEN 16 ELSE 8)
    /\ m.length >= Smallest(m.edition)
    /\ m.length <= Rest(buf, m)
    /\ (m.at + m.length - 4) \in buf.trailers

find_message(buf, from) ==
    LET stops == Stops(buf, from)
        first == CHOOSE m \in stops : \A k \in stops : m.at <= k.at
    IN  IF stops = {} THEN End
        ELSE IF Complete(buf, first) THEN Found(first) ELSE Invalid

\* Slip: pos_ is only moved up to the message.
AfterNothing(s) == s.start

\* Where next() leaves pos_ after a message was found.
After(s) == s.start + s.length

------------------------------------------------------------------------------
\* What a call returns, with the place of the message it is about.
Error == [kind |-> "error", at |-> 0]
Nothing == [kind |-> "nullopt", at |-> 0]
Message(start) == [kind |-> "message", at |-> start]
Value(start) == [kind |-> "value", at |-> start]
NoResult == [kind |-> "none", at |-> 0]

\* from_bytes(): the first message of the blob, if it can be decoded.
FromBytes(b) ==
    LET s == find_message(b, 0)
    IN  IF s.scan = "Found" /\ b.decoded[s.start].decodes THEN Message(s.start)
        ELSE Error

\* perturbationNumber, else number, else -1.
MemberAt(b, p) ==
    LET d == b.decoded[p]
    IN  IF d.perturbationNumber # Absent THEN d.perturbationNumber
        ELSE IF d.number # Absent THEN d.number
        ELSE -1
==============================================================================
