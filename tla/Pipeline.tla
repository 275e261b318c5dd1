------------------------------ MODULE Pipeline ------------------------------
(***************************************************************************)
(* The whole of grib-cpp, as the two example programs put it together      *)
(* (examples/example_nomads_idx.cpp, examples/example_ecmwf_index.cpp):    *)
(* get the index, parse it, select a record, get its byte range, and       *)
(* extract a value.  The parsers are those of Sidecar, the scanner that of *)
(* GribScan, and a request does what RangeFetch promises, which is what    *)
(* HttpClient implements.                                                  *)
(*                                                                         *)
(* The site is external: files are uploaded piece by piece and replaced by *)
(* other editions between any two requests, the index apart from the       *)
(* object, and the download of an index may end early unnoticed.           *)
(***************************************************************************)
EXTENDS Sidecar, GribScan

CONSTANTS
    Editions,   \* an object, its two indexes, and the records that are really in it
    Uploads,    \* what of an edition may be on the site: the edition and its bytes
    Selectors,  \* what a program may look for
    None,       \* a file that is not there
    MaxPosts    \* bound: uploads while the program runs

LineType ==
    [fields : Nat, record : Int, offset : Int, param : STRING, level : STRING,
     step : STRING, ens : [tag : STRING, n : Int]]

\* The line of an .idx says what record r is ...
NomadsTells(l, r) ==
    /\ l.offset = r.at
    /\ l.param = r.param /\ l.level = r.level /\ l.step = r.step
    /\ r.member = IF l.ens.tag = "ctl" THEN 0 ELSE IF l.ens.tag = "number" THEN l.ens.n
                  ELSE -1

\* ... and so does that of an .index, in JSON.
EcmwfTells(l, r) ==
    /\ l.offset.value = r.at
    /\ generic_to_string(l.param) = r.param
    /\ r.level = generic_to_string(IF l.levelist.kind # "absent" THEN l.levelist
                                   ELSE l.levtype)
    /\ generic_to_string(l.step) = r.step
    /\ \/ l.type.kind = "text" /\ l.type.text = "cf" /\ r.member = 0
       \/ ~(l.type.kind = "text" /\ l.type.text = "cf")
          /\ IF l.number.kind = "absent" THEN r.member = -1
             ELSE /\ generic_to_string(l.number) # Empty /\ l.number.whole
                  /\ r.member = l.number.value

\* What an edition is: each record a message of the object, and two indexes with a line
\* for each record and, but for lines that are passed over, no others.  The range that
\* an .index states holds the message.
TrueEdition(e) ==
    LET inventory == {e.nomads[i] : i \in {k \in DOMAIN e.nomads : e.nomads[k].fields >= 6}}
        json == {e.ecmwf[i] : i \in {k \in DOMAIN e.ecmwf : e.ecmwf[k].json # "blank"}}
    IN  /\ WellFormed(e.object) /\ e.object.size <= UMax
        /\ \A r \in e.records :
              /\ \E i \in DOMAIN e.object.messages : e.object.messages[i].at = r.at
              /\ r.member \in -1..IntMax
              /\ \E l \in inventory : NomadsTells(l, r)
              /\ \E l \in json : EcmwfTells(l, r)
        /\ e.nomads \in Seq(LineType)
        /\ \A l \in inventory : \E r \in e.records : NomadsTells(l, r)
        /\ e.ecmwf \in Seq({e.ecmwf[i] : i \in DOMAIN e.ecmwf})
        /\ \A l \in json : \E r \in e.records :
              /\ EcmwfTells(l, r)
              /\ l.length.value \in Nat
              /\ \A i \in DOMAIN e.object.messages :
                    e.object.messages[i].at = r.at
                        => l.length.value >= e.object.messages[i].length

ASSUME PipelineAssumption ==
    /\ \A e \in Editions : TrueEdition(e)
    /\ \A u \in Uploads : u.edition \in Editions /\ u.size \in 1..u.edition.object.size
    /\ None \notin Editions \cup Uploads
    /\ MaxPosts \in Nat
    /\ \A p, q \in Occurs : p[2] = q[1] => <<p[1], q[2]>> \in Occurs

VARIABLES
    site,       \* external: the object and the edition of the index, if there
    posts,      \* uploads so far
    program,    \* which of the two programs runs
    sel,        \* its selector
    pc,         \* where it is
    index,      \* the lines received; history: their edition, the torn line's offset
    hits,       \* entries parsed, then the selected ones
    busy, request, object, reply,   \* the range request, as in RangeFetch
    origin,     \* history: the upload that the range request was made to
    outcome     \* what the program prints

world == <<site, posts>>
task == <<program, sel>>
fetch == <<busy, request, object, reply>>
vars == <<world, task, pc, index, hits, fetch, origin, outcome>>

F == INSTANCE RangeFetch WITH limit <- 0, result <- reply

Failed(why) == [kind |-> "error", why |-> why, at |-> 0]
Printed(at) == [kind |-> "value", why |-> "", at |-> at]
NoOutcome == [kind |-> "none", why |-> "", at |-> 0]

NoReply == [ok |-> FALSE, status |-> 0, body |-> <<>>]
NoIndex == [lines |-> <<>>, edition |-> None, torn |-> -1, whole |-> FALSE]

\* The program ends.
Stop(o) == pc' = "done" /\ outcome' = o

------------------------------------------------------------------------------
\* The site.

Post(s) ==
    /\ posts < MaxPosts
    /\ posts' = posts + 1
    /\ site' = s
    /\ UNCHANGED <<task, pc, index, hits, fetch, origin, outcome>>

PostObject(u) == Post([site EXCEPT !.object = u])
PostIndex(e) == Post([site EXCEPT !.index = e])

\* An ENS= tag that broke off: "+12" becomes "+1", anything shorter makes no sense.
TornTag(ens) ==
    IF ens.tag = "number" /\ ens.n >= 10 THEN [tag |-> "number", n |-> ens.n \div 10]
    ELSE [tag |-> "other", n |-> 0]

\* What may be left of a line at the end of a download that broke off.
Remnants(line) ==
    IF program = "ecmwf" THEN {[json |-> "bad"]}
    ELSE IF line.fields < 6 THEN {line}
    ELSE {[line EXCEPT !.fields = 3]}
         \cup {[line EXCEPT !.fields = 6, !.ens.tag = "none", !.step = t] :
                 t \in {x \in {p[1] : p \in Occurs} : <<x, line.step>> \in Occurs}}
         \cup {[line EXCEPT !.ens = TornTag(@)]}

Lines(e) == IF program = "nomads" THEN e.nomads ELSE e.ecmwf

\* The first k lines of the index of edition e, whole, ...
Received(e, k) ==
    [lines |-> SubSeq(Lines(e), 1, k), edition |-> e, torn |-> -1,
     whole |-> k = Len(Lines(e))]

\* ... and with a piece r of the next one.
ReceivedTorn(e, k, r) ==
    [lines |-> Append(SubSeq(Lines(e), 1, k), r), edition |-> e,
     torn |-> IF program = "nomads" THEN r.offset ELSE -1, whole |-> FALSE]

------------------------------------------------------------------------------
\* The program.

\* client.get(idx_url) fails, or its status is not 200.
IndexFails ==
    /\ pc = "start"
    /\ Stop(Failed("index"))
    /\ UNCHANGED <<world, task, index, hits, fetch, origin>>

IndexArrives ==
    /\ pc = "start"
    /\ site.index # None
    /\ \E k \in 0..Len(Lines(site.index)) :
          \/ index' = Received(site.index, k)
          \/ /\ k < Len(Lines(site.index))
             /\ \E r \in Remnants(Lines(site.index)[k + 1]) :
                   index' = ReceivedTorn(site.index, k, r)
    /\ pc' = "parse"
    /\ UNCHANGED <<world, task, hits, fetch, origin, outcome>>

ParseIndex ==
    LET parsed == IF program = "nomads" THEN parse_nomads_idx(index.lines)
                  ELSE parse_ecmwf_index(index.lines)
    IN  /\ pc = "parse"
        /\ hits' = parsed.entries
        /\ IF parsed.ok THEN pc' = "select" /\ UNCHANGED outcome
           ELSE Stop(Failed("parse"))
        /\ UNCHANGED <<world, task, index, fetch, origin>>

SelectRecord ==
    /\ pc = "select"
    /\ hits' = select(hits, sel)
    /\ IF hits' # <<>> THEN pc' = "ask" /\ UNCHANGED outcome
       ELSE Stop(Failed("no record"))
    /\ UNCHANGED <<world, task, index, fetch, origin>>

rec == hits[1]

\* Slip: byte offsets are counted from 1.
OneBased(e) == [op |-> "get_range", offset |-> e.offset + 1, length |-> e.length]

RequestFor(e) == [op |-> "get_range", offset |-> e.offset, length |-> e.length]

\* client.get_range(base, rec.offset, rec.length) reaches the server ...
AskRange ==
    /\ pc = "ask"
    /\ site.object # None
    /\ reply' = NoReply
    /\ F!Ask(RequestFor(rec), site.object.size)
    /\ origin' = site.object
    /\ pc' = "fetching"
    /\ UNCHANGED <<world, task, index, hits, outcome>>

\* ... or fails, or there is no object.
RangeRefused ==
    /\ pc = "ask"
    /\ reply' = NoReply
    /\ F!Refuse(RequestFor(rec))
    /\ Stop(Failed("range"))
    /\ UNCHANGED <<world, task, index, hits, origin>>

\* The answers a client that keeps the promise could give: an error, a status, or some
\* bytes of the object from the right place on.
Replies ==
    {NoReply} \cup {[ok |-> TRUE, status |-> s, body |-> <<>>] : s \in {404, 416}}
    \cup {[ok |-> TRUE, status |-> 206, body |-> F!Positions(request.offset, last)] :
            last \in 0..(object - 1)}

RangeArrives ==
    /\ pc = "fetching"
    /\ reply' \in Replies
    /\ F!Answer
    /\ IF reply'.ok /\ reply'.status = 206 THEN pc' = "extract" /\ UNCHANGED outcome
       ELSE Stop(Failed("range"))
    /\ UNCHANGED <<world, task, index, hits, origin>>

\* Bytes first..last of buffer b, as a buffer.
Slice(b, first, last) ==
    LET in(p) == p >= first /\ p + 3 <= last
    IN  [size |-> last - first + 1,
         magics |-> {[m EXCEPT !.at = @ - first] : m \in {k \in b.magics : in(k.at)}},
         trailers |-> {t - first : t \in {k \in b.trailers : in(k)}},
         decoded |-> [p \in {m.at - first : m \in b.magics} |->
                         IF p >= 0 THEN b.decoded[p + first] ELSE FALSE]]

\* extract_point() of the body; nearest() may fail.
ExtractPoint ==
    LET got == FromBytes(Slice(origin.edition.object, reply.body[1],
                               reply.body[Len(reply.body)]))
    IN  /\ pc = "extract"
        /\ \/ got.kind = "message" /\ Stop(Printed(request.offset + got.at))
           \/ got.kind = "message" /\ Stop(Failed("nearest"))
           \/ got = Error /\ Stop(Failed("decode"))
        /\ UNCHANGED <<world, task, index, hits, fetch, origin>>

Finished == pc = "done" /\ UNCHANGED vars

Init ==
    /\ site \in [object : Uploads \cup {None}, index : Editions \cup {None}]
    /\ posts = 0
    /\ program \in {"nomads", "ecmwf"}
    /\ sel \in Selectors
    /\ pc = "start"
    /\ index = NoIndex
    /\ hits = <<>>
    /\ busy = FALSE
    /\ request = [op |-> "none", offset |-> 0, length |-> 0]
    /\ object = 0
    /\ reply = NoReply
    /\ origin = None
    /\ outcome = NoOutcome

Next ==
    \/ \E u \in Uploads : PostObject(u)
    \/ \E e \in Editions : PostIndex(e)
    \/ IndexFails
    \/ IndexArrives
    \/ ParseIndex
    \/ SelectRecord
    \/ AskRange
    \/ RangeRefused
    \/ RangeArrives
    \/ ExtractPoint
    \/ Finished

Spec == Init /\ [][Next]_vars
------------------------------------------------------------------------------
\* Properties.

\* The index and the object are of one edition.
SameEdition == origin # None /\ origin.edition = index.edition

\* The line of the selected record broke off and its ensemble tag was needed.
Misread == index.torn = rec.offset /\ sel.member # Unset

(* The value printed is that of a record with the parameter, level, step   *)
(* and member that were asked for, and of the very record the index names, *)
(* also when the upload of the object is not complete, when the index      *)
(* broke off, and when either was replaced in the meantime by something    *)
(* else that was not used.                                                 *)
RightRecord ==
    outcome.kind = "value" /\ SameEdition /\ ~Misread =>
        \E r \in index.edition.records :
            /\ r.at = outcome.at
            /\ r.at = rec.offset
            /\ Matches(r, sel)

(* "No record" means that there is none, if the index arrived whole.       *)
NoRecordIsTrue ==
    outcome.why = "no record" /\ index.whole =>
        ~ \E r \in index.edition.records : Matches(r, sel)

(* The range asked for holds the whole message: when it cannot be decoded, *)
(* the object was not all there, was another edition, or has a message     *)
(* that ecCodes cannot read at that place.                                 *)
RangeHoldsMessage ==
    outcome.why = "decode" =>
        \/ ~SameEdition
        \/ origin.size < origin.edition.object.size
        \/ ~origin.edition.object.decoded[rec.offset].decodes
==============================================================================
