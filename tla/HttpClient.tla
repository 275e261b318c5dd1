----------------------------- MODULE HttpClient -----------------------------
(***************************************************************************)
(* grib::HttpClient (src/http/client.cpp): get() and get_range(), the two  *)
(* libcurl callbacks they install, and the check of a 206 answer.  libcurl *)
(* and the server are external: they may redirect, ignore the range, send  *)
(* another range, cut the body short, time out, or describe the range      *)
(* badly; what they never do is label bytes with a false position.         *)
(*                                                                         *)
(* A byte of the object is its position, a byte of an error page is Junk,  *)
(* a header is what get_range() reads of it.                               *)
(***************************************************************************)
EXTENDS Integers, Sequences

CONSTANTS
    UMax,       \* the largest std::uint64_t
    Limits,     \* the values of max_response_bytes; 0 is no limit
    MaxHops,    \* bound: responses of one transfer (redirects, then the last)
    MaxChunk    \* bound: bytes handed to one write_callback()

ASSUME HttpAssumption ==
    /\ UMax \in Nat
    /\ Limits \subseteq Nat
    /\ MaxHops \in Nat
    /\ MaxChunk \in Nat \ {0}

Junk == -1
Star == -1          \* the total of "bytes a-b/*"

VARIABLES
    limit,      \* config.max_response_bytes
    pc,         \* "idle", "transfer" inside curl_easy_perform(), "aborted"
    request,    \* the call: which operation, offset and length
    object,     \* external: the size of the object behind the URL
    answer,     \* external: the response being received
    sink,       \* ResponseSink
    result      \* what the last call returned

vars == <<limit, pc, request, object, answer, sink, result>>

\* What the client promises: its transfer is one step there.
Fetch == INSTANCE RangeFetch WITH busy <- pc # "idle"

U64 == 0..UMax
Positions(first, last) == Fetch!Positions(first, last)

------------------------------------------------------------------------------
\* Data.

\* A Content-Range header, or one that the parser gives up on, and another one.
ContentRangeHeader(first, last, total) ==
    [name |-> "content-range", parses |-> TRUE, first |-> first, last |-> last,
     total |-> total]
BadContentRange ==
    [name |-> "content-range", parses |-> FALSE, first |-> 0, last |-> 0,
     total |-> 0]
OtherHeader ==
    [name |-> "other", parses |-> FALSE, first |-> 0, last |-> 0, total |-> 0]

Failure(code) == [ok |-> FALSE, code |-> code, status |-> 0, body |-> <<>>]
Success(status, body) ==
    [ok |-> TRUE, code |-> "Ok", status |-> status, body |-> body]

EmptySink == [headers |-> <<>>, body |-> <<>>, overflowed |-> FALSE]

NoAnswer == [hop |-> 0, status |-> 0, interim |-> FALSE, left |-> <<>>,
             headers |-> {}]

------------------------------------------------------------------------------
\* What the server may answer.

Interim ==
    \* A redirect (or a 1xx): its body, if any, is not delivered.
    {[status |-> 302, interim |-> TRUE, left |-> <<>>, headers |-> h] :
        h \in {{OtherHeader}} \cup
              {{ContentRangeHeader(f, f, Star)} : f \in U64}}

Whole ==
    {[status |-> 200, interim |-> FALSE, left |-> Positions(0, object - 1),
      headers |-> {OtherHeader}]}

Refusal ==
    {[status |-> s, interim |-> FALSE, left |-> <<Junk>>,
      headers |-> {BadContentRange}] : s \in {416, 503}}

Partial ==
    {[status |-> 206, interim |-> FALSE, left |-> Positions(r[1], r[2]),
      headers |-> h] :
        r \in {p \in U64 \X U64 : p[1] <= p[2] /\ p[2] < object},
        h \in {{}, {BadContentRange}}}
    \cup
    {[status |-> 206, interim |-> FALSE, left |-> Positions(r[1], r[2]),
      headers |-> {ContentRangeHeader(r[1], r[2], total)}] :
        r \in {p \in U64 \X U64 : p[1] <= p[2] /\ p[2] < object},
        total \in {object, Star}}

------------------------------------------------------------------------------
\* The call.

\* perform() gives up before the transfer: no easy handle (a moved-from client,
\* a failed curl_easy_init()), an invalid URL, header or timeout, or an option
\* that libcurl rejects.
Refused(req) ==
    /\ request' = req
    /\ answer' = NoAnswer
    /\ sink' = EmptySink
    /\ result' \in {Failure("NetworkError"), Failure("InvalidRequest")}
    /\ UNCHANGED <<pc, object>>

\* perform() starts the transfer with a fresh sink.
Perform(req) ==
    /\ request' = req
    /\ pc' = "transfer"
    /\ object' \in U64
    /\ answer' = NoAnswer
    /\ sink' = EmptySink
    /\ result' = Failure("none")

Get ==
    /\ pc = "idle"
    /\ LET req == [op |-> "get", offset |-> 0, length |-> 0]
       IN  Refused(req) \/ Perform(req)
    /\ UNCHANGED limit

\* Slip: the end of the range is not checked.
RangeNeverOverflows(offset, length) == FALSE

\* get_range(): the last byte of the range must not overflow.
RangeOverflows(offset, length) == length > 0 /\ length - 1 > UMax - offset

GetRangeRefused(offset, length) ==
    /\ pc = "idle"
    /\ RangeOverflows(offset, length)
    /\ request' = [op |-> "get_range", offset |-> offset, length |-> length]
    /\ answer' = NoAnswer
    /\ sink' = EmptySink
    /\ result' = Failure("InvalidRequest")
    /\ UNCHANGED <<limit, pc, object>>

GetRange(offset, length) ==
    /\ pc = "idle"
    /\ ~RangeOverflows(offset, length)
    /\ LET req == [op |-> "get_range", offset |-> offset, length |-> length]
       IN  Refused(req) \/ Perform(req)
    /\ UNCHANGED limit

------------------------------------------------------------------------------
\* The callbacks.

\* Slip: the headers of the responses before the last one are kept.
HeadersKept(headers) == headers

\* What a status line leaves of the headers received so far.
HeadersAtStatus(headers) == <<>>

\* header_callback() with the status line of a response.
StatusLine(a) ==
    /\ pc = "transfer"
    /\ answer.hop = 0 \/ answer.interim
    /\ answer.hop < MaxHops
    /\ answer' = [hop |-> answer.hop + 1, status |-> a.status,
                  interim |-> a.interim, left |-> a.left, headers |-> a.headers]
    /\ sink' = [sink EXCEPT !.headers = HeadersAtStatus(@)]
    /\ UNCHANGED <<limit, pc, request, object, result>>

\* header_callback() with a header, or with a trailer after the body.
HeaderLine ==
    /\ pc = "transfer"
    /\ \E h \in answer.headers :
          /\ sink' = [sink EXCEPT !.headers = Append(@, h)]
          /\ answer' = [answer EXCEPT !.headers = @ \ {h}]
    /\ UNCHANGED <<limit, pc, request, object, result>>

\* Slip: each chunk is compared with the limit by itself.
FitsAlone(n) == limit = 0 \/ n <= limit

\* write_callback() has room for n more bytes.
Fits(n) == limit = 0 \/ n <= limit - Len(sink.body)

\* write_callback() with n bytes.
Write(n) ==
    /\ pc = "transfer"
    /\ n <= Len(answer.left)
    /\ Fits(n)
    /\ sink' = [sink EXCEPT !.body = @ \o SubSeq(answer.left, 1, n)]
    /\ answer' = [answer EXCEPT !.left = SubSeq(@, n + 1, Len(@))]
    /\ UNCHANGED <<limit, pc, request, object, result>>

\* write_callback() with more than the limit allows: libcurl aborts.
WriteOverflows(n) ==
    /\ pc = "transfer"
    /\ n <= Len(answer.left)
    /\ ~Fits(n)
    /\ sink' = [sink EXCEPT !.overflowed = TRUE]
    /\ pc' = "aborted"
    /\ UNCHANGED <<limit, request, object, answer, result>>

\* Either callback runs out of memory and returns 0: libcurl aborts.
CallbackFails ==
    /\ pc = "transfer"
    /\ answer.hop > 0
    /\ pc' = "aborted"
    /\ UNCHANGED <<limit, request, object, answer, sink, result>>

------------------------------------------------------------------------------
\* curl_easy_perform() returns, and then the call does.

\* Slip: libcurl's code is looked at before the sink.
PerformedBlamesNetwork(code) ==
    IF code = "TIMEDOUT" THEN Failure("Timeout")
    ELSE IF code # "OK" THEN Failure("NetworkError")
    ELSE IF sink.overflowed THEN Failure("InvalidRequest")
    ELSE Success(answer.status, sink.body)

\* The answers perform() gives, from libcurl's code and the sink.
Performed(code) ==
    IF sink.overflowed THEN Failure("InvalidRequest")
    ELSE IF code = "TIMEDOUT" THEN Failure("Timeout")
    ELSE IF code # "OK" THEN Failure("NetworkError")
    ELSE Success(answer.status, sink.body)

\* The Content-Range get_range() goes by: the last one, in any letter case.
ContentRange ==
    LET found == {i \in 1..Len(sink.headers) : sink.headers[i].name = "content-range"}
    IN  IF found = {} THEN BadContentRange
        ELSE sink.headers[CHOOSE i \in found : \A j \in found : j <= i]

\* The position of the last byte the server should have sent, of `total' bytes.
ExpectedLast(total) ==
    LET end == (request.offset + request.length - 1) % (UMax + 1)
    IN  IF request.length = 0 \/ total - 1 <= end THEN total - 1 ELSE end

\* The check of a 206 answer with `size' bytes.
Accepts(cr, size) ==
    /\ cr.parses
    /\ size > 0
    /\ cr.first = request.offset
    /\ cr.last >= cr.first
    /\ cr.last - cr.first = size - 1
    /\ request.length > 0 => size <= request.length
    /\ cr.total = Star => request.length > 0 /\ size = request.length
    /\ cr.total # Star => cr.total > cr.last /\ cr.last = ExpectedLast(cr.total)

\* get_range() after perform().
Checked(r) ==
    IF r.ok /\ r.status \in 200..299 /\ r.status # 206
    THEN Failure("NetworkError")
    ELSE IF r.ok /\ r.status = 206 /\ ~Accepts(ContentRange, Len(r.body))
    THEN Failure("NetworkError")
    ELSE r

\* libcurl reports success only for a last response whose headers are in; it need
\* not notice that the body is short.  "OTHER" is any other code, or a response
\* whose status curl_easy_getinfo() cannot tell: perform() treats them alike.
Outcomes ==
    IF pc = "aborted" THEN {"OTHER"}
    ELSE {"TIMEDOUT", "OTHER"} \cup
         IF answer.hop > 0 /\ ~answer.interim /\ answer.headers = {}
         THEN {"OK"} ELSE {}

Return(code) ==
    /\ pc \in {"transfer", "aborted"}
    /\ code \in Outcomes
    /\ pc' = "idle"
    /\ result' = IF request.op = "get" THEN Performed(code)
                 ELSE Checked(Performed(code))
    /\ UNCHANGED <<limit, request, object, answer, sink>>

Init ==
    /\ limit \in Limits
    /\ pc = "idle"
    /\ request = [op |-> "none", offset |-> 0, length |-> 0]
    /\ object = 0
    /\ answer = NoAnswer
    /\ sink = EmptySink
    /\ result = Failure("none")

Next ==
    \/ Get
    \/ \E offset, length \in U64 :
          GetRangeRefused(offset, length) \/ GetRange(offset, length)
    \/ \E a \in Interim \cup Whole \cup Refusal \cup Partial : StatusLine(a)
    \/ HeaderLine
    \/ \E n \in 1..MaxChunk : Write(n) \/ WriteOverflows(n)
    \/ CallbackFails
    \/ \E code \in {"OK", "TIMEDOUT", "OTHER"} : Return(code)

Spec == Init /\ [][Next]_vars
------------------------------------------------------------------------------
\* Properties.

Codes == {"none", "Ok", "NetworkError", "Timeout", "InvalidRequest"}

(* Types; with a limit the body never outgrows it, so the unsigned         *)
(* subtraction in write_callback() never wraps.                            *)
TypeOK ==
    /\ limit \in Nat
    /\ pc \in {"idle", "transfer", "aborted"}
    /\ request.op \in {"none", "get", "get_range"}
    /\ request.offset \in U64 /\ request.length \in U64
    /\ object \in U64
    /\ limit > 0 => Len(sink.body) <= limit
    /\ sink.overflowed \in BOOLEAN
    /\ result.code \in Codes

\* The last position a complete answer to the request has.
LastWanted == Fetch!LastWanted(request, object)

(* No false alarm: when the answer is complete and truthfully labelled,    *)
(* get_range() accepts it, up to the largest offsets (the end of the range *)
(* is computed in unsigned arithmetic).                                    *)
HonestIsAccepted ==
    [][/\ Return("OK")
       /\ request.op = "get_range"
       /\ answer.status = 206
       /\ request.offset < object
       /\ sink.body = Positions(request.offset, LastWanted)
       /\ \/ sink.headers
                = <<ContentRangeHeader(request.offset, LastWanted, object)>>
          \/ /\ Len(sink.body) = request.length
             /\ sink.headers
                  = <<ContentRangeHeader(request.offset, LastWanted, Star)>>
       => result'.ok]_vars

(* A response that outgrows max_response_bytes is the caller's problem, an *)
(* InvalidRequest: as a network error it would be fetched again by every   *)
(* retry.                                                                  *)
OverflowIsFinal ==
    pc = "idle" /\ sink.overflowed => result.code = "InvalidRequest"

(* The client, callbacks, redirects and all, keeps the promise that its    *)
(* callers build on: an error, a status that is no success, or exactly the *)
(* bytes asked for, up to the end of the object; never a neighbouring      *)
(* range, a short body, or bytes described by another response's header.   *)
ImplementsFetch == Fetch!Spec
==============================================================================
