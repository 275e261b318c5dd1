------------------------------ MODULE GribFile ------------------------------
(***************************************************************************)
(* grib::GribFile (src/decode/handle.cpp) and the extraction functions of  *)
(* src/api/extract.cpp, which loop over the messages that GribScan finds.  *)
(***************************************************************************)
EXTENDS GribScan

CONSTANTS
    Files,      \* GribFile objects
    Buffers,    \* the blobs they may be opened on
    Members     \* the ensemble members a caller may ask for

ASSUME FileAssumption == \A m \in Members : m \in Int

ASSUME BufferAssumption == \A b \in Buffers : WellFormed(b)

VARIABLES
    file,       \* buf_ and pos_ of each file, and the history `seen'
    pc,         \* "idle", or "member" inside extract_point_member()
    blob,       \* the buffer that the last extraction works on
    at,         \* pos_ of the GribFile that extract_point_member() opened, or 0
    want,       \* its member argument, or 0
    result      \* what the last call returned

vars == <<file, pc, blob, at, want, result>>

------------------------------------------------------------------------------
Opened(b) == [buf |-> b, pos |-> 0, seen |-> <<>>]

\* open(), assigned to f.
Open(f, b) ==
    /\ pc = "idle"
    /\ file' = [file EXCEPT ![f] = Opened(b)]
    /\ result' = NoResult
    /\ UNCHANGED <<pc, blob, at, want>>

\* Slip: pos_ stays behind.
MovedWithoutPos(f, g) == [file EXCEPT ![f] = [file[g] EXCEPT !.pos = 0]]

\* The files after f = std::move(g); the moved-from string is empty.
Moved(f, g) ==
    IF f = g THEN file ELSE [file EXCEPT ![f] = file[g], ![g] = Opened(NoBuffer)]

Move(f, g) ==
    /\ pc = "idle"
    /\ file' = Moved(f, g)
    /\ result' = NoResult
    /\ UNCHANGED <<pc, blob, at, want>>

\* next() finds a message, which ecCodes may reject.
NextFound(f) ==
    LET s == find_message(file[f].buf, file[f].pos)
        ok == file[f].buf.decoded[s.start].decodes
    IN  /\ pc = "idle"
        /\ s.scan = "Found"
        /\ file' = [file EXCEPT ![f].pos = After(s),
                                ![f].seen = Append(@, s.start)]
        /\ result' = IF ok THEN Message(s.start) ELSE Error
        /\ UNCHANGED <<pc, blob, at, want>>

NextInvalid(f) ==
    /\ pc = "idle"
    /\ find_message(file[f].buf, file[f].pos) = Invalid
    /\ result' = Error
    /\ UNCHANGED <<file, pc, blob, at, want>>

NextEnd(f) ==
    /\ pc = "idle"
    /\ find_message(file[f].buf, file[f].pos) = End
    /\ result' = Nothing
    /\ UNCHANGED <<file, pc, blob, at, want>>

------------------------------------------------------------------------------
\* Extraction.  nearest() may fail on any message.

\* extract_point(), and extract_points(), which asks the same message once for
\* each station and fails if one of them does.
ExtractPoint(b) ==
    /\ pc = "idle"
    /\ blob' = b
    /\ \/ /\ FromBytes(b).kind = "message"
          /\ result' \in {Value(FromBytes(b).at), Error}
       \/ /\ FromBytes(b) = Error
          /\ result' = Error
    /\ UNCHANGED <<file, pc, at, want>>

\* extract_point_member() opens its own file on the blob.
ExtractPointMember(b, m) ==
    /\ pc = "idle"
    /\ pc' = "member"
    /\ blob' = b
    /\ at' = 0
    /\ want' = m
    /\ result' = NoResult
    /\ UNCHANGED file

Done(r) ==
    /\ result' = r
    /\ pc' = "idle"
    /\ at' = 0
    /\ want' = 0
    /\ UNCHANGED <<file, blob>>

\* A pass of the loop that ends it: next() fails or finds nothing ...
MemberFails ==
    LET s == find_message(blob, at)
    IN  /\ pc = "member"
        /\ s.scan = "Found" => ~blob.decoded[s.start].decodes
        /\ Done(Error)

\* ... or finds the member.
MemberFound ==
    LET s == find_message(blob, at)
    IN  /\ pc = "member"
        /\ s.scan = "Found"
        /\ blob.decoded[s.start].decodes
        /\ MemberAt(blob, s.start) = want
        /\ \E r \in {Value(s.start), Error} : Done(r)

\* Slip: a message that cannot be decoded is passed over.
PassesUndecodable(p) == ~blob.decoded[p].decodes \/ MemberAt(blob, p) # want

\* The loop goes on after the message at p.
Passes(p) == blob.decoded[p].decodes /\ MemberAt(blob, p) # want

MemberSkips ==
    LET s == find_message(blob, at)
    IN  /\ pc = "member"
        /\ s.scan = "Found"
        /\ Passes(s.start)
        /\ at' = After(s)
        /\ UNCHANGED <<file, pc, blob, want, result>>

Init ==
    /\ file = [f \in Files |-> Opened(NoBuffer)]
    /\ pc = "idle"
    /\ blob = NoBuffer
    /\ at = 0
    /\ want = 0
    /\ result = NoResult

Next ==
    \/ \E f \in Files :
          \/ \E b \in Buffers : Open(f, b)
          \/ \E g \in Files : Move(f, g)
          \/ NextFound(f)
          \/ NextInvalid(f)
          \/ NextEnd(f)
    \/ \E b \in Buffers :
          ExtractPoint(b) \/ \E m \in Members : ExtractPointMember(b, m)
    \/ MemberFails
    \/ MemberFound
    \/ MemberSkips

Spec == Init /\ [][Next]_vars

\* extract_point_member() runs on once it is called.
Fairness == WF_vars(MemberFails \/ MemberFound \/ MemberSkips)

FairSpec == Spec /\ Fairness
------------------------------------------------------------------------------
\* Properties.  Of a buffer the history knows the whole messages in it, in order,
\* and how many bytes of a further, cut-off message follow them.

Starts(b) == [i \in 1..Len(b.messages) |-> b.messages[i].at]

(* next() visits the whole messages of the blob in order, each once, also  *)
(* across moves, never a "GRIB" inside another message's data, and stays   *)
(* within the blob.                                                        *)
VisitsInOrder ==
    \A f \in Files :
        /\ file[f].pos \in 0..file[f].buf.size
        /\ Len(file[f].seen) <= Len(file[f].buf.messages)
        /\ file[f].seen = SubSeq(Starts(file[f].buf), 1, Len(file[f].seen))

(* std::nullopt means the end: all the messages were visited, and no       *)
(* message that has its magic in the blob was cut off.                     *)
EndIsTheEnd ==
    \A f \in Files :
        find_message(file[f].buf, file[f].pos) = End
            => /\ file[f].seen = Starts(file[f].buf)
               /\ file[f].buf.cut < 4

(* As find_message() has it, a clean end is distinguished from a truncated *)
(* message: nothing of a message is left over at the end.                  *)
EndIsClean ==
    \A f \in Files :
        find_message(file[f].buf, file[f].pos) = End => file[f].buf.cut = 0

(* A value comes from the right message or not at all: from the first one, *)
(* or for extract_point_member() from the first one of the member, with no *)
(* undecodable message passed over on the way.                             *)
RightMessage ==
    [][result'.kind = "value" =>
         LET m == blob'.messages
             i == CHOOSE k \in 1..Len(m) : m[k].at = result'.at
         IN  /\ \E k \in 1..Len(m) : m[k].at = result'.at
             /\ IF pc = "idle" THEN i = 1
                ELSE /\ MemberAt(blob, m[i].at) = want
                     /\ \A k \in 1..(i - 1) :
                           /\ MemberAt(blob, m[k].at) # want
                           /\ blob.decoded[m[k].at].decodes]_vars

(* extract_point_member() returns, whatever the blob holds.                *)
ExtractionReturns == pc = "member" ~> pc = "idle"
==============================================================================
