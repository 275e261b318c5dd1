-------------------------- MODULE HttpClientProofs --------------------------
(***************************************************************************)
(* Proofs about HttpClient, for integers of every width, every limit, any  *)
(* number of redirects and any size of chunk: that it implements           *)
(* RangeFetch, with the invariant that this needs.                         *)
(***************************************************************************)
EXTENDS HttpClient, SequenceTheorems, TLAPS

------------------------------------------------------------------------------
\* Bytes.

\* s is the bytes of the object from position `first' on.
From(s, first) ==
    s \in Seq(Int) /\ \A i \in 1..Len(s) : s[i] = first + (i - 1)

\* Positions(a, b) is b - a + 1 bytes from a on, none if b is a - 1.
LEMMA PositionsFrom ==
    ASSUME NEW a \in Int, NEW b \in Int, b >= a - 1
    PROVE  From(Positions(a, b), a) /\ Len(Positions(a, b)) = (b - a) + 1
  <1> DEFINE n == (b - a) + 1
             s == [i \in 1..n |-> a + (i - 1)]
  <1>1. n \in Nat
    OBVIOUS
  <1>2. Positions(a, b) = [i \in 1..(b - a + 1) |-> a + i - 1]
    BY DEF Positions, Fetch!Positions
  <1>3. Positions(a, b) = s
    BY <1>2
  <1> HIDE DEF n
  <1>4. s \in Seq(Int) /\ Len(s) = n /\ \A i \in 1..n : s[i] = a + (i - 1)
    BY <1>1
  <1> HIDE DEF s
  <1> QED
    BY <1>3, <1>4 DEF From, n

\* The bytes from a on, b - a + 1 of them, are Positions(a, b).
LEMMA FromIsPositions ==
    ASSUME NEW a \in Int, NEW b \in Int, NEW s, From(s, a), Len(s) = (b - a) + 1
    PROVE  s = Positions(a, b)
  <1> DEFINE n == (b - a) + 1
  <1>1. s \in [1..n -> Int] /\ \A i \in 1..n : s[i] = a + (i - 1)
    BY LenProperties DEF From
  <1>2. s = [i \in 1..n |-> a + (i - 1)]
    BY <1>1
  <1> QED
    BY <1>2 DEF Positions, Fetch!Positions

\* What one write_callback() does: n bytes move from the front of what the server has
\* still to send to the end of the body, and both stay in place.
LEMMA ChunkMoves ==
    ASSUME NEW a \in Int, NEW s, NEW t, From(s, a), From(t, a + Len(s)),
           NEW n \in 1..Len(t)
    PROVE  /\ From(s \o SubSeq(t, 1, n), a)
           /\ Len(s \o SubSeq(t, 1, n)) = Len(s) + n
           /\ From(SubSeq(t, n + 1, Len(t)), a + (Len(s) + n))
           /\ Len(SubSeq(t, n + 1, Len(t))) = Len(t) - n
  <1> DEFINE c == SubSeq(t, 1, n)
             d == SubSeq(t, n + 1, Len(t))
             k == Len(s)
             m == Len(t)
  <1>1. /\ s \in Seq(Int) /\ t \in Seq(Int) /\ k \in Nat /\ m \in Nat
        /\ \A i \in 1..k : s[i] = a + (i - 1)
        /\ \A i \in 1..m : t[i] = (a + k) + (i - 1) /\ t[i] \in Int
    BY DEF From
  <1>2. /\ c \in Seq(Int) /\ Len(c) = n /\ \A i \in 1..n : c[i] = t[i]
    <2>1. n \in Int /\ \A i \in 1..n : t[i] \in Int
      BY <1>1
    <2>2. /\ c \in Seq(Int)
          /\ Len(c) = IF 1 <= n THEN n - 1 + 1 ELSE 0
          /\ \A i \in 1 .. n - 1 + 1 : c[i] = t[1 + i - 1]
      BY <2>1, SubSeqProperties
    <2> QED  BY <2>1, <2>2
  <1>3. /\ d \in Seq(Int) /\ Len(d) = m - n /\ \A i \in 1..(m - n) : d[i] = t[n + i]
    <2>1. n + 1 \in Int /\ m \in Int /\ \A i \in (n + 1)..m : t[i] \in Int
      BY <1>1
    <2>2. /\ d \in Seq(Int)
          /\ Len(d) = IF n + 1 <= m THEN m - (n + 1) + 1 ELSE 0
          /\ \A i \in 1 .. m - (n + 1) + 1 : d[i] = t[n + 1 + i - 1]
      BY <2>1, SubSeqProperties
    <2> QED  BY <1>1, <2>1, <2>2
  <1> HIDE DEF c, d
  <1> DEFINE w == s \o c
  <1>4. /\ w \in Seq(Int) /\ Len(w) = k + n
        /\ \A i \in 1..(k + n) : w[i] = IF i <= k THEN s[i] ELSE c[i - k]
    BY <1>1, <1>2, ConcatProperties
  <1> HIDE DEF w, k, m
  <1>5. ASSUME NEW i \in 1..(k + n)  PROVE w[i] = a + (i - 1)
    <2>1. CASE i <= k
      <3>1. i \in 1..k
        BY <2>1, <1>1
      <3>2. w[i] = s[i]
        BY <2>1, <1>4
      <3> QED  BY <3>1, <3>2, <1>1
    <2>2. CASE i > k
      <3> DEFINE j == i - k
      <3>1. j \in 1..n /\ j \in 1..m
        BY <2>2, <1>1 DEF m
      <3>2. w[i] = c[j]
        BY <2>2, <1>1, <1>4
      <3>3. c[j] = (a + k) + (j - 1)
        <4> HIDE DEF j
        <4> QED  BY <3>1, <1>1, <1>2
      <3>4. (a + k) + (j - 1) = a + (i - 1)
        BY <1>1
      <3> HIDE DEF j
      <3> QED  BY <3>2, <3>3, <3>4
    <2> QED  BY <2>1, <2>2, <1>1
  <1>6. \A i \in 1..(m - n) : d[i] = (a + (k + n)) + (i - 1)
    <2>1. \A i \in 1..(m - n) : n + i \in 1..m
      BY <1>1 DEF m
    <2> QED  BY <1>1, <1>3, <2>1
  <1> QED
    BY <1>3, <1>4, <1>5, <1>6 DEF From, c, d, w, k, m

------------------------------------------------------------------------------
\* Responses.

\* A header, and the Content-Range headers that a 206 answer with bytes a..b may have.
HeaderType == [name : {"content-range", "other"}, parses : BOOLEAN,
               first : Int, last : Int, total : Int]
Labels(a, b) == {BadContentRange, ContentRangeHeader(a, b, object),
                 ContentRangeHeader(a, b, Star)}

\* The headers that the model uses are headers.
LEMMA HeadersTyped ==
    /\ BadContentRange \in HeaderType /\ OtherHeader \in HeaderType
    /\ \A a, b, t \in Int : ContentRangeHeader(a, b, t) \in HeaderType
  BY DEF HeaderType, BadContentRange, OtherHeader, ContentRangeHeader

\* An unknown total differs from every size.
LEMMA StarInt == Star \in Int /\ Star < 0 /\ Junk \in Int
  BY DEF Star, Junk

\* What is known of a response at its status line: the bytes of a partial one are those
\* its label, if there is one that parses, says they are.
AnswerFits(a) ==
    /\ a.status \in Int /\ a.interim \in BOOLEAN
    /\ a.left \in Seq(Int) /\ a.headers \in SUBSET HeaderType
    /\ a.interim => a.left = <<>>
    /\ ~a.interim /\ a.status = 206 =>
          \E x, y \in U64 :
             /\ x <= y /\ y < object /\ a.left = Positions(x, y)
             /\ a.headers \in {{}} \cup {{h} : h \in Labels(x, y)}

\* It is so for every response the server may give.
LEMMA Answers ==
    ASSUME object \in U64, NEW a \in Interim \cup Whole \cup Refusal \cup Partial
    PROVE  AnswerFits(a)
  <1> USE HttpAssumption
  <1>0. \A x \in U64 : x \in Int
    BY DEF U64
  <1>1. CASE a \in Interim
    <2>1. PICK h \in {{OtherHeader}} \cup {{ContentRangeHeader(f, f, Star)} : f \in U64} :
             a = [status |-> 302, interim |-> TRUE, left |-> <<>>, headers |-> h]
      BY <1>1 DEF Interim
    <2>2. h \in SUBSET HeaderType
      BY <1>0, HeadersTyped, StarInt
    <2> QED  BY <2>1, <2>2 DEF AnswerFits
  <1>2. CASE a \in Whole
    <2>1. a = [status |-> 200, interim |-> FALSE, left |-> Positions(0, object - 1),
               headers |-> {OtherHeader}]
      BY <1>2 DEF Whole
    <2>2. Positions(0, object - 1) \in Seq(Int)
      BY <1>0, PositionsFrom DEF U64, From
    <2> QED  BY <2>1, <2>2, HeadersTyped DEF AnswerFits
  <1>3. CASE a \in Refusal
    <2>1. PICK s \in {416, 503} :
             a = [status |-> s, interim |-> FALSE, left |-> <<Junk>>,
                  headers |-> {BadContentRange}]
      BY <1>3 DEF Refusal
    <2> QED  BY <2>1, HeadersTyped, StarInt DEF AnswerFits
  <1>4. CASE a \in Partial
    <2>1. PICK r \in {p \in U64 \X U64 : p[1] <= p[2] /\ p[2] < object} :
            \E h \in {{}} \cup {{l} : l \in Labels(r[1], r[2])} :
             a = [status |-> 206, interim |-> FALSE, left |-> Positions(r[1], r[2]),
                  headers |-> h]
      BY <1>4 DEF Partial, Labels
    <2>h. PICK h \in {{}} \cup {{l} : l \in Labels(r[1], r[2])} :
             a = [status |-> 206, interim |-> FALSE, left |-> Positions(r[1], r[2]),
                  headers |-> h]
      BY <2>1
    <2>2. r[1] \in U64 /\ r[2] \in U64 /\ r[1] \in Int /\ r[2] \in Int
          /\ r[1] <= r[2] /\ r[2] < object /\ object \in Int
      BY <1>0
    <2>3. Positions(r[1], r[2]) \in Seq(Int)
      BY <2>2, PositionsFrom DEF From
    <2>4. h \in SUBSET HeaderType
      BY <2>2, HeadersTyped, StarInt DEF Labels
    <2> QED  BY <2>h, <2>2, <2>3, <2>4 DEF AnswerFits
  <1> QED  BY <1>1, <1>2, <1>3, <1>4

\* ResponseSink, and the response being received.
SinkType == [headers : Seq(HeaderType), body : Seq(Int), overflowed : BOOLEAN]
AnswerType == [hop : Nat, status : Int, interim : BOOLEAN, left : Seq(Int),
               headers : SUBSET HeaderType]

\* The sink after the assignment to one of its fields.
LEMMA SinkUpdates ==
    ASSUME NEW s \in SinkType, NEW x
    PROVE  /\ [s EXCEPT !.headers = x]
                 = [headers |-> x, body |-> s.body, overflowed |-> s.overflowed]
           /\ [s EXCEPT !.body = x]
                 = [headers |-> s.headers, body |-> x, overflowed |-> s.overflowed]
           /\ [s EXCEPT !.overflowed = x]
                 = [headers |-> s.headers, body |-> s.body, overflowed |-> x]
  BY DEF SinkType

\* The response after one more of its headers was delivered ...
LEMMA AnswerHeaders ==
    ASSUME NEW a \in AnswerType, NEW x
    PROVE  [a EXCEPT !.headers = x]
              = [hop |-> a.hop, status |-> a.status, interim |-> a.interim,
                 left |-> a.left, headers |-> x]
  BY DEF AnswerType

\* ... and after some of its body was.
LEMMA AnswerLeft ==
    ASSUME NEW a \in AnswerType, NEW x
    PROVE  [a EXCEPT !.left = x]
              = [hop |-> a.hop, status |-> a.status, interim |-> a.interim,
                 left |-> x, headers |-> a.headers]
  BY DEF AnswerType

------------------------------------------------------------------------------
\* The invariant.

\* Types, with those of the sink and of the response, which TypeOK leaves open.
Types ==
    /\ limit \in Nat
    /\ pc \in {"idle", "transfer", "aborted"}
    /\ request \in [op : {"none", "get", "get_range"}, offset : U64, length : U64]
    /\ object \in U64
    /\ sink \in SinkType
    /\ answer \in AnswerType
    /\ result.code \in Codes

\* The heart of the invariant: the response is about bytes a..b, of which some are in
\* the sink and the rest is still to come, and at most one label for them is or will be
\* among the headers.  No header of an earlier response is left.
Describes(a, b) ==
    /\ a <= b /\ b < object
    /\ From(sink.body, a) /\ From(answer.left, a + Len(sink.body))
    /\ Len(sink.body) + Len(answer.left) = (b - a) + 1
    /\ \/ sink.headers = <<>> /\ answer.headers \in {{}} \cup {{h} : h \in Labels(a, b)}
       \/ \E h \in Labels(a, b) : sink.headers = <<h>> /\ answer.headers = {}

\* Before the last response nothing is in the sink; with a 206 it is described.
Received ==
    pc = "transfer" =>
        IF answer.hop = 0 \/ answer.interim
        THEN sink.body = <<>> /\ answer.left = <<>>
        ELSE answer.status = 206 => \E a, b \in U64 : Describes(a, b)

\* get_range() lets only ranges through whose last byte is a std::uint64_t.
InRange == pc # "idle" => request.length = 0 \/ request.offset + (request.length - 1) <= UMax

\* The inductive invariant.
HttpInv ==
    /\ Types
    /\ InRange
    /\ limit > 0 => Len(sink.body) <= limit
    /\ pc = "transfer" => ~sink.overflowed
    /\ OverflowIsFinal
    /\ Received

\* It holds before the first call.
LEMMA HttpInit == Init => HttpInv
  <1> SUFFICES ASSUME Init PROVE HttpInv
    OBVIOUS
  <1>1. 0 \in U64
    BY HttpAssumption DEF U64
  <1> QED
    BY <1>1, HttpAssumption DEF Init, HttpInv, Types, InRange, OverflowIsFinal, Received,
       NoAnswer, EmptySink, Failure, Codes, SinkType, AnswerType

\* Every call, callback and return of libcurl keeps it.
LEMMA HttpStep == HttpInv /\ [Next]_vars => HttpInv'
  <1> SUFFICES ASSUME HttpInv, [Next]_vars PROVE HttpInv'
    OBVIOUS
  <1> USE HttpAssumption
  <1>t. /\ limit \in Nat /\ pc \in {"idle", "transfer", "aborted"} /\ object \in U64
        /\ sink.headers \in Seq(HeaderType) /\ sink.body \in Seq(Int)
        /\ sink.overflowed \in BOOLEAN
        /\ answer.hop \in Nat /\ answer.status \in Int /\ answer.interim \in BOOLEAN
        /\ answer.left \in Seq(Int) /\ answer.headers \in SUBSET HeaderType
        /\ request.offset \in U64 /\ request.length \in U64
        /\ Len(sink.body) \in Nat /\ Len(answer.left) \in Nat
        /\ sink \in SinkType /\ answer \in AnswerType
    BY DEF HttpInv, Types, SinkType, AnswerType
  <1>z. 0 \in U64 /\ UMax \in Nat
    BY DEF U64
  <1>1. ASSUME NEW req \in [op : {"get", "get_range"}, offset : U64, length : U64],
               pc = "idle", Refused(req), limit' = limit
        PROVE  HttpInv'
    <2>1. /\ request' = req /\ pc' = "idle" /\ object' = object
          /\ answer' = NoAnswer /\ sink' = EmptySink
          /\ result'.code \in Codes
      BY <1>1 DEF Refused, Failure, Codes
    <2> QED
      BY <2>1, <1>1, <1>t DEF HttpInv, Types, InRange, OverflowIsFinal, Received,
         NoAnswer, EmptySink, SinkType, AnswerType
  <1>2. ASSUME NEW req \in [op : {"get", "get_range"}, offset : U64, length : U64],
               pc = "idle", Perform(req), limit' = limit,
               req.length = 0 \/ req.offset + (req.length - 1) <= UMax
        PROVE  HttpInv'
    <2>1. /\ request' = req /\ pc' = "transfer" /\ object' \in U64
          /\ answer' = NoAnswer /\ sink' = EmptySink
          /\ result'.code \in Codes
      BY <1>2 DEF Perform, Failure, Codes
    <2> QED
      BY <2>1, <1>2, <1>t DEF HttpInv, Types, InRange, OverflowIsFinal, Received,
         NoAnswer, EmptySink, SinkType, AnswerType
  <1>3. CASE Get
    <2> DEFINE req == [op |-> "get", offset |-> 0, length |-> 0]
    <2>1. /\ req \in [op : {"get", "get_range"}, offset : U64, length : U64]
          /\ req.length = 0
      BY <1>z
    <2>2. pc = "idle" /\ limit' = limit /\ (Refused(req) \/ Perform(req))
      BY <1>3 DEF Get
    <2> HIDE DEF req
    <2> QED  BY <2>1, <2>2, <1>1, <1>2
  <1>4. ASSUME NEW offset \in U64, NEW length \in U64, GetRangeRefused(offset, length)
        PROVE  HttpInv'
    <2> DEFINE req == [op |-> "get_range", offset |-> offset, length |-> length]
    <2>1. req \in [op : {"get", "get_range"}, offset : U64, length : U64]
      OBVIOUS
    <2>2. pc = "idle" /\ limit' = limit /\ Refused(req)
      BY <1>4 DEF GetRangeRefused, Refused
    <2> HIDE DEF req
    <2> QED  BY <2>1, <2>2, <1>1
  <1>5. ASSUME NEW offset \in U64, NEW length \in U64, GetRange(offset, length)
        PROVE  HttpInv'
    <2> DEFINE req == [op |-> "get_range", offset |-> offset, length |-> length]
    <2>1. req \in [op : {"get", "get_range"}, offset : U64, length : U64]
      OBVIOUS
    <2>2. pc = "idle" /\ limit' = limit /\ (Refused(req) \/ Perform(req))
          /\ ~RangeOverflows(offset, length)
      BY <1>5 DEF GetRange
    <2>3. req.length = 0 \/ req.offset + (req.length - 1) <= UMax
      BY <2>2, <1>z DEF RangeOverflows, U64
    <2> HIDE DEF req
    <2> QED  BY <2>1, <2>2, <2>3, <1>1, <1>2
  <1>6. ASSUME NEW a \in Interim \cup Whole \cup Refusal \cup Partial, StatusLine(a)
        PROVE  HttpInv'
    <2>1. AnswerFits(a)
      BY <1>t, Answers
    <2>2. /\ pc = "transfer" /\ pc' = pc /\ limit' = limit /\ request' = request
          /\ object' = object /\ result' = result
          /\ answer' = [hop |-> answer.hop + 1, status |-> a.status,
                        interim |-> a.interim, left |-> a.left, headers |-> a.headers]
          /\ sink.body = <<>>
      BY <1>6 DEF StatusLine, HttpInv, Received
    <2>3. /\ sink'.headers = <<>> /\ sink'.body = <<>> /\ sink'.overflowed = sink.overflowed
          /\ sink' \in SinkType
      <3>1. sink' = [headers |-> <<>>, body |-> sink.body, overflowed |-> sink.overflowed]
        BY <1>6, <1>t, SinkUpdates DEF StatusLine, HeadersAtStatus
      <3> QED  BY <3>1, <2>2, <1>t DEF SinkType
    <2>4. Types'
      <3>1. answer' \in AnswerType
        BY <2>1, <2>2, <1>t DEF AnswerFits, AnswerType
      <3> QED  BY <3>1, <2>2, <2>3, <1>t DEF HttpInv, Types
    <2>5. Received'
      <3>1. ASSUME ~a.interim, a.status = 206
            PROVE  \E x, y \in U64 : Describes(x, y)'
        <4>1. PICK x \in U64, y \in U64 :
                 /\ x <= y /\ y < object /\ a.left = Positions(x, y)
                 /\ a.headers \in {{}} \cup {{h} : h \in Labels(x, y)}
          BY <3>1, <2>1 DEF AnswerFits
        <4>2. x \in Int /\ y \in Int /\ object \in Int /\ y >= x - 1
          BY <4>1, <1>t DEF U64
        <4>3. From(Positions(x, y), x) /\ Len(Positions(x, y)) = (y - x) + 1
          BY <4>1, <4>2, PositionsFrom
        <4>4. From(<<>>, x) /\ Len(<<>>) = 0
          BY DEF From
        <4>5. x + 0 = x /\ 0 + ((y - x) + 1) = (y - x) + 1
          BY <4>2
        <4>6. Labels(x, y)' = Labels(x, y)
          BY <2>2 DEF Labels
        <4>7. /\ From(sink'.body, x) /\ From(answer'.left, x + Len(sink'.body))
              /\ Len(sink'.body) + Len(answer'.left) = (y - x) + 1
          BY <2>2, <2>3, <4>1, <4>3, <4>4, <4>5
        <4>8. Describes(x, y)'
          BY <2>2, <2>3, <4>1, <4>6, <4>7 DEF Describes
        <4> QED  BY <4>8
      <3> QED
        BY <2>1, <2>2, <2>3, <3>1, <1>t DEF Received, AnswerFits
    <2> QED
      BY <2>2, <2>3, <2>4, <2>5 DEF HttpInv, InRange, OverflowIsFinal
  <1>7. CASE HeaderLine
    <2>1. PICK h \in answer.headers :
             /\ sink' = [sink EXCEPT !.headers = Append(sink.headers, h)]
             /\ answer' = [answer EXCEPT !.headers = answer.headers \ {h}]
      BY <1>7 DEF HeaderLine
    <2>2. /\ pc = "transfer" /\ pc' = pc /\ limit' = limit /\ request' = request
          /\ object' = object /\ result' = result
      BY <1>7 DEF HeaderLine
    <2>3. /\ sink' = [headers |-> Append(sink.headers, h), body |-> sink.body,
                      overflowed |-> sink.overflowed]
          /\ answer' = [hop |-> answer.hop, status |-> answer.status,
                        interim |-> answer.interim, left |-> answer.left,
                        headers |-> answer.headers \ {h}]
      BY <2>1, <1>t, SinkUpdates, AnswerHeaders
    <2>4. sink' \in SinkType /\ answer' \in AnswerType
      <3>1. Append(sink.headers, h) \in Seq(HeaderType)
        BY <1>t
      <3> QED  BY <3>1, <2>3, <1>t DEF SinkType, AnswerType
    <2>5. Types'
      BY <2>2, <2>4 DEF HttpInv, Types
    <2>6. Received'
      <3>1. ASSUME NEW a \in U64, NEW b \in U64, Describes(a, b)
            PROVE  Describes(a, b)'
        <4>1. sink.headers = <<>> /\ \E l \in Labels(a, b) : answer.headers = {l}
          BY <3>1 DEF Describes
        <4>2. h \in Labels(a, b) /\ answer.headers \ {h} = {}
          BY <4>1
        <4>3. Append(sink.headers, h) = <<h>>
          BY <4>1
        <4>4. Labels(a, b)' = Labels(a, b)
          BY <2>2 DEF Labels
        <4> QED  BY <3>1, <4>2, <4>3, <4>4, <2>2, <2>3 DEF Describes
      <3> QED  BY <2>2, <2>3, <3>1 DEF HttpInv, Received
    <2> QED
      BY <2>2, <2>3, <2>5, <2>6 DEF HttpInv, InRange, OverflowIsFinal
  <1>8. ASSUME NEW n \in 1..MaxChunk, Write(n)  PROVE HttpInv'
    <2>1. /\ pc = "transfer" /\ pc' = pc /\ limit' = limit /\ request' = request
          /\ object' = object /\ result' = result /\ n \in 1..Len(answer.left)
          /\ limit = 0 \/ n <= limit - Len(sink.body)
      BY <1>8, <1>t DEF Write, Fits
    <2>2. /\ sink' = [headers |-> sink.headers,
                      body |-> sink.body \o SubSeq(answer.left, 1, n),
                      overflowed |-> sink.overflowed]
          /\ answer' = [hop |-> answer.hop, status |-> answer.status,
                        interim |-> answer.interim,
                        left |-> SubSeq(answer.left, n + 1, Len(answer.left)),
                        headers |-> answer.headers]
      BY <1>8, <1>t, SinkUpdates, AnswerLeft DEF Write
    <2>3. /\ SubSeq(answer.left, 1, n) \in Seq(Int) /\ Len(SubSeq(answer.left, 1, n)) = n
          /\ SubSeq(answer.left, n + 1, Len(answer.left)) \in Seq(Int)
      BY <1>t, <2>1
    <2>4. /\ sink.body \o SubSeq(answer.left, 1, n) \in Seq(Int)
          /\ Len(sink.body \o SubSeq(answer.left, 1, n)) = Len(sink.body) + n
      BY <1>t, <2>3, ConcatProperties
    <2>5. Types'
      <3>1. sink' \in SinkType /\ answer' \in AnswerType
        BY <2>2, <2>3, <2>4, <1>t DEF SinkType, AnswerType
      <3> QED  BY <3>1, <2>1 DEF HttpInv, Types
    <2>6. answer.left # <<>>
      BY <2>1, <1>t
    <2>7. Received'
      <3>1. ASSUME NEW a \in U64, NEW b \in U64, Describes(a, b)
            PROVE  Describes(a, b)'
        <4>1. a \in Int /\ b \in Int
          BY DEF U64
        <4> DEFINE w == sink.body \o SubSeq(answer.left, 1, n)
                   d == SubSeq(answer.left, n + 1, Len(answer.left))
        <4>2. /\ From(w, a) /\ Len(w) = Len(sink.body) + n
              /\ From(d, a + (Len(sink.body) + n))
              /\ Len(d) = Len(answer.left) - n
          <5>1. From(sink.body, a) /\ From(answer.left, a + Len(sink.body))
            BY <3>1 DEF Describes
          <5> DEFINE s == sink.body
                     t == answer.left
          <5>2. a \in Int /\ From(s, a) /\ From(t, a + Len(s)) /\ n \in 1..Len(t)
            BY <5>1, <4>1, <2>1
          <5> HIDE DEF s, t
          <5>3. /\ From(s \o SubSeq(t, 1, n), a)
                /\ Len(s \o SubSeq(t, 1, n)) = Len(s) + n
                /\ From(SubSeq(t, n + 1, Len(t)), a + (Len(s) + n))
                /\ Len(SubSeq(t, n + 1, Len(t))) = Len(t) - n
            BY <5>2, ChunkMoves
          <5> QED  BY <5>3 DEF s, t, w, d
        <4>w. sink'.body = w /\ answer'.left = d
          BY <2>2
        <4> HIDE DEF w, d
        <4>3. Len(w) + Len(d) = (b - a) + 1
          <5>1. Len(sink.body) + Len(answer.left) = (b - a) + 1
            BY <3>1 DEF Describes
          <5>2. n \in Nat /\ n <= Len(answer.left)
            BY <2>1, <1>t
          <5> DEFINE k == Len(sink.body)
                     m == Len(answer.left)
          <5>3. k \in Nat /\ m \in Nat
            BY <1>t
          <5>4. k + m = (b - a) + 1 /\ Len(w) = k + n /\ Len(d) = m - n
            BY <5>1, <4>2
          <5> HIDE DEF k, m
          <5> QED  BY <5>2, <5>3, <5>4, <4>1
        <4>6. /\ From(sink'.body, a) /\ From(answer'.left, a + Len(sink'.body))
              /\ Len(sink'.body) + Len(answer'.left) = (b - a) + 1
          BY <4>2, <4>3, <4>w
        <4>4. Labels(a, b)' = Labels(a, b)
          BY <2>1 DEF Labels
        <4>5. /\ sink'.headers = sink.headers /\ answer'.headers = answer.headers
          BY <2>2
        <4> QED  BY <3>1, <4>4, <4>5, <4>6, <2>1 DEF Describes
      <3> QED  BY <2>1, <2>2, <2>6, <3>1 DEF HttpInv, Received
    <2>8. (limit > 0 => Len(sink.body) <= limit)'
      BY <2>1, <2>2, <2>4, <1>t
    <2> QED
      BY <2>1, <2>2, <2>5, <2>7, <2>8 DEF HttpInv, InRange, OverflowIsFinal
  <1>9. ASSUME NEW n \in 1..MaxChunk, WriteOverflows(n)  PROVE HttpInv'
    <2>1. sink' = [headers |-> sink.headers, body |-> sink.body, overflowed |-> TRUE]
      BY <1>9, <1>t, SinkUpdates DEF WriteOverflows
    <2>2. sink' \in SinkType
      BY <2>1, <1>t DEF SinkType
    <2> QED
      BY <1>9, <2>1, <2>2 DEF WriteOverflows, HttpInv, Types, InRange, OverflowIsFinal,
         Received
  <1>10. CASE CallbackFails
    BY <1>10 DEF CallbackFails, HttpInv, Types, InRange, OverflowIsFinal, Received
  <1>11. ASSUME NEW code \in {"OK", "TIMEDOUT", "OTHER"}, Return(code)  PROVE HttpInv'
    <2>1. /\ pc' = "idle" /\ UNCHANGED <<limit, request, object, answer, sink>>
          /\ result' = IF request.op = "get" THEN Performed(code)
                       ELSE Checked(Performed(code))
      BY <1>11 DEF Return
    <2>2. Performed(code).code \in Codes /\ Checked(Performed(code)).code \in Codes
      BY DEF Performed, Checked, Failure, Success, Codes
    <2>3. sink.overflowed => /\ Performed(code).code = "InvalidRequest"
                             /\ Checked(Performed(code)).code = "InvalidRequest"
      BY DEF Performed, Checked, Failure
    <2> QED
      BY <2>1, <2>2, <2>3 DEF HttpInv, Types, InRange, OverflowIsFinal, Received
  <1>12. CASE UNCHANGED vars
    <2>1. \A a, b : Describes(a, b)' <=> Describes(a, b)
      BY <1>12 DEF vars, Describes, Labels
    <2> QED
      BY <1>12, <2>1 DEF vars, HttpInv, Types, InRange, OverflowIsFinal, Received
  <1> QED
    BY <1>3, <1>4, <1>5, <1>6, <1>7, <1>8, <1>9, <1>10, <1>11, <1>12 DEF Next

------------------------------------------------------------------------------
\* The check of a 206 answer.

\* A number below the modulus is its own remainder.
LEMMA ModSmall == \A x, m \in Nat : x < m => x % m = x
  OBVIOUS

\* The end that get_range() works out in unsigned arithmetic is the last byte wanted,
\* also where offset + length - 1 is the largest std::uint64_t; and for a total that is
\* not known, the length alone settles the last byte.
LEMMA ExpectedIsWanted ==
    ASSUME HttpInv, pc # "idle"
    PROVE  /\ ExpectedLast(object) = LastWanted
           /\ LastWanted \in Int /\ LastWanted < object
           /\ request.offset < object => request.offset <= LastWanted
           /\ request.length > 0 =>
                 /\ (LastWanted - request.offset) + 1 <= request.length
                 /\ \A b \in Int : b < object /\ (b - request.offset) + 1 = request.length
                                   => b = LastWanted
  <1> DEFINE o == request.offset
             l == request.length
  <1>1. /\ UMax \in Nat /\ o \in 0..UMax /\ l \in 0..UMax /\ object \in 0..UMax
        /\ l = 0 \/ o + (l - 1) <= UMax
    BY HttpAssumption DEF HttpInv, Types, InRange, U64
  <1>2. LastWanted = IF l = 0 THEN object - 1
                     ELSE IF o + (l - 1) <= object - 1 THEN o + (l - 1) ELSE object - 1
    BY DEF LastWanted, Fetch!LastWanted, Fetch!Smaller
  <1>3. ExpectedLast(object) =
            IF l = 0 \/ object - 1 <= (o + (l - 1)) % (UMax + 1)
            THEN object - 1 ELSE (o + (l - 1)) % (UMax + 1)
    BY DEF ExpectedLast
  <1> HIDE DEF o, l
  <1>4. l > 0 => (o + (l - 1)) % (UMax + 1) = o + (l - 1)
    <2> SUFFICES ASSUME l > 0  PROVE (o + (l - 1)) % (UMax + 1) = o + (l - 1)
      OBVIOUS
    <2>1. o + (l - 1) \in Nat /\ UMax + 1 \in Nat /\ o + (l - 1) < UMax + 1
      BY <1>1
    <2> QED  BY <2>1, ModSmall
  <1>5. ExpectedLast(object) = LastWanted
    BY <1>1, <1>2, <1>3, <1>4
  <1>6. /\ LastWanted \in Int /\ LastWanted < object
        /\ o < object => o <= LastWanted
        /\ l > 0 => /\ (LastWanted - o) + 1 <= l
                    /\ \A b \in Int : b < object /\ (b - o) + 1 = l => b = LastWanted
    BY <1>1, <1>2
  <1> QED  BY <1>5, <1>6 DEF o, l

\* Of a single header, get_range() reads that one ...
LEMMA SingleHeader ==
    ASSUME NEW h, sink.headers = <<h>>, h.name = "content-range"
    PROVE  ContentRange = h
  <1> DEFINE found == {i \in 1..Len(sink.headers) : sink.headers[i].name = "content-range"}
  <1>1. Len(sink.headers) = 1 /\ sink.headers[1] = h
    OBVIOUS
  <1>2. found = {1}
    BY <1>1
  <1>3. (CHOOSE i \in {1} : \A j \in {1} : j <= i) = 1
    OBVIOUS
  <1>4. ContentRange = IF found = {} THEN BadContentRange
                       ELSE sink.headers[CHOOSE i \in found : \A j \in found : j <= i]
    BY DEF ContentRange
  <1> HIDE DEF found
  <1> QED  BY <1>1, <1>2, <1>3, <1>4

\* ... and of none, nothing that parses.
LEMMA NoHeader == sink.headers = <<>> => ContentRange = BadContentRange
  BY DEF ContentRange

\* When curl_easy_perform() succeeds, the last response has begun, all its headers are
\* in, and write_callback() has refused nothing.
LEMMA Succeeds ==
    ASSUME HttpInv, Return("OK")
    PROVE  /\ pc = "transfer" /\ answer.hop > 0 /\ ~answer.interim /\ answer.headers = {}
           /\ ~sink.overflowed
           /\ Performed("OK") = Success(answer.status, sink.body)
  <1>1. pc = "transfer" /\ answer.hop > 0 /\ ~answer.interim /\ answer.headers = {}
    BY DEF Return, Outcomes
  <1>2. ~sink.overflowed
    BY <1>1 DEF HttpInv
  <1> QED  BY <1>1, <1>2 DEF Performed

\* The step of HonestIsAccepted.
LEMMA HonestStep ==
    ASSUME HttpInv, Return("OK"), request.op = "get_range", answer.status = 206,
           request.offset < object, sink.body = Positions(request.offset, LastWanted),
           \/ sink.headers = <<ContentRangeHeader(request.offset, LastWanted, object)>>
           \/ /\ Len(sink.body) = request.length
              /\ sink.headers
                   = <<ContentRangeHeader(request.offset, LastWanted, Star)>>
    PROVE  result'.ok
  <1>1. /\ request.offset \in 0..UMax /\ request.length \in 0..UMax /\ object \in 0..UMax
        /\ UMax \in Nat
    BY HttpAssumption DEF HttpInv, Types, U64
  <1>2. pc # "idle"
    BY DEF Return
  <1>3. /\ ExpectedLast(object) = LastWanted
        /\ LastWanted \in Int /\ LastWanted < object
        /\ request.offset <= LastWanted
        /\ request.length > 0 => (LastWanted - request.offset) + 1 <= request.length
    BY <1>2, ExpectedIsWanted
  <1>4. Len(sink.body) = (LastWanted - request.offset) + 1
    <2>1. request.offset \in Int /\ LastWanted >= request.offset - 1
      BY <1>1, <1>3
    <2> QED  BY <2>1, <1>3, PositionsFrom
  <1>5. Accepts(ContentRange, Len(sink.body))
    <2>1. CASE sink.headers = <<ContentRangeHeader(request.offset, LastWanted, object)>>
      <3>1. ContentRange = ContentRangeHeader(request.offset, LastWanted, object)
        BY <2>1, SingleHeader DEF ContentRangeHeader
      <3> QED  BY <3>1, <1>1, <1>3, <1>4, StarInt DEF Accepts, ContentRangeHeader
    <2>2. CASE /\ Len(sink.body) = request.length
               /\ sink.headers = <<ContentRangeHeader(request.offset, LastWanted, Star)>>
      <3>1. ContentRange = ContentRangeHeader(request.offset, LastWanted, Star)
        BY <2>2, SingleHeader DEF ContentRangeHeader
      <3> QED  BY <3>1, <2>2, <1>1, <1>3, <1>4, StarInt DEF Accepts, ContentRangeHeader
    <2> QED  BY <2>1, <2>2
  <1>6. result' = Checked(Success(206, sink.body))
    BY Succeeds DEF Return
  <1> QED
    BY <1>5, <1>6 DEF Checked, Success

\* However the transfer ends, what get() and get_range() return keeps the promise.
LEMMA Kept ==
    ASSUME HttpInv, NEW code \in {"OK", "TIMEDOUT", "OTHER"}, Return(code)
    PROVE  Fetch!Promised(request, object, result')
  <1> SUFFICES ASSUME result'.ok
               PROVE  /\ limit > 0 => Len(result'.body) <= limit
                      /\ request.op = "get_range" =>
                           IF result'.status = 206
                           THEN /\ request.offset < object
                                /\ result'.body = Positions(request.offset, LastWanted)
                           ELSE result'.status \notin 200..299
    BY DEF Fetch!Promised, Positions, LastWanted
  <1>1. code = "OK" /\ result' = Success(answer.status, sink.body)
        /\ (request.op # "get" => Checked(Performed(code)) = result')
    <2>1. Performed(code).ok
            => code = "OK" /\ Performed(code) = Success(answer.status, sink.body)
      BY DEF Performed, Failure
    <2>2. Checked(Performed(code)).ok
            => Performed(code).ok /\ Checked(Performed(code)) = Performed(code)
      BY DEF Checked, Failure
    <2>3. result' = IF request.op = "get" THEN Performed(code) ELSE Checked(Performed(code))
      BY DEF Return
    <2> QED  BY <2>1, <2>2, <2>3
  <1>2. result'.status = answer.status /\ result'.body = sink.body
    BY <1>1 DEF Success
  <1>3. limit > 0 => Len(result'.body) <= limit
    BY <1>2 DEF HttpInv
  <1>4. ASSUME request.op = "get_range"
        PROVE  IF answer.status = 206
               THEN /\ request.offset < object
                    /\ sink.body = Positions(request.offset, LastWanted)
               ELSE answer.status \notin 200..299
    <2>1. /\ pc = "transfer" /\ answer.hop > 0 /\ ~answer.interim /\ answer.headers = {}
          /\ Performed(code) = Success(answer.status, sink.body)
      BY <1>1, Succeeds
    <2>2. Checked(Success(answer.status, sink.body)) = Success(answer.status, sink.body)
      BY <1>1, <1>4, <2>1
    <2>3. answer.status # 206 => answer.status \notin 200..299
      BY <2>2 DEF Checked, Success, Failure
    <2>4. ASSUME answer.status = 206
          PROVE  /\ request.offset < object
                 /\ sink.body = Positions(request.offset, LastWanted)
      <3>1. Accepts(ContentRange, Len(sink.body))
        BY <2>2, <2>4 DEF Checked, Success, Failure
      <3>2. PICK a \in U64, b \in U64 : Describes(a, b)
        <4>1. answer.hop # 0
          BY <2>1, HttpAssumption DEF HttpInv, Types, AnswerType
        <4> QED  BY <2>1, <2>4, <4>1 DEF HttpInv, Received
      <3>3. /\ a \in Int /\ b \in Int /\ a <= b /\ b < object /\ From(sink.body, a)
            /\ object \in 0..UMax /\ UMax \in Nat
            /\ request.offset \in 0..UMax /\ request.length \in 0..UMax
            /\ Len(sink.body) \in Nat
        BY <3>2, HttpAssumption DEF Describes, HttpInv, Types, U64, SinkType
      <3>4. PICK t \in {object, Star} : ContentRange = ContentRangeHeader(a, b, t)
        <4>1. ContentRange # BadContentRange
          BY <3>1 DEF Accepts, BadContentRange
        <4>2. sink.headers # <<>>
          BY <4>1, NoHeader
        <4>3. PICK h \in Labels(a, b) : sink.headers = <<h>>
          BY <3>2, <4>2 DEF Describes
        <4>4. h.name = "content-range"
          BY <4>3 DEF Labels, BadContentRange, ContentRangeHeader
        <4>5. ContentRange = h
          BY <4>3, <4>4, SingleHeader
        <4> QED  BY <4>1, <4>3, <4>5 DEF Labels
      <3>5. /\ a = request.offset
            /\ b - a = Len(sink.body) - 1
            /\ t = Star => request.length > 0 /\ Len(sink.body) = request.length
            /\ t # Star => b = ExpectedLast(t)
        BY <3>1, <3>4 DEF Accepts, ContentRangeHeader
      <3>6. Len(sink.body) = (b - a) + 1
        BY <3>3, <3>5
      <3>7. b = LastWanted
        <4>1. pc # "idle"
          BY <2>1
        <4>2. CASE t = Star
          BY <4>1, <4>2, <3>3, <3>5, <3>6, ExpectedIsWanted
        <4>3. CASE t = object /\ t # Star
          BY <4>1, <4>3, <3>5, ExpectedIsWanted
        <4> QED  BY <4>2, <4>3
      <3>8. sink.body = Positions(a, b)
        BY <3>3, <3>6, FromIsPositions
      <3> QED  BY <3>3, <3>5, <3>7, <3>8
    <2> QED  BY <2>3, <2>4
  <1> QED  BY <1>2, <1>3, <1>4

------------------------------------------------------------------------------
\* Theorems.

\* The invariant holds throughout, for every width of the integers, every limit, number
\* of redirects and size of chunk.
THEOREM HttpInvariant == Spec => []HttpInv
  BY HttpInit, HttpStep, PTL DEF Spec

\* Types, and no body outgrows max_response_bytes, so that the subtraction in
\* write_callback() never wraps.
THEOREM TypeCorrect == Spec => []TypeOK
  <1>1. HttpInv => TypeOK
    BY DEF HttpInv, Types, TypeOK, SinkType
  <1> QED  BY <1>1, HttpInvariant, PTL

\* A response that outgrows the limit ends as an InvalidRequest, which is not retried.
THEOREM OverflowReported == Spec => []OverflowIsFinal
  <1>1. HttpInv => OverflowIsFinal
    BY DEF HttpInv
  <1> QED  BY <1>1, HttpInvariant, PTL

\* Starting a transfer is asking ...
LEMMA Asks ==
    ASSUME HttpInv, NEW req \in Fetch!Requests, pc = "idle",
           req.length = 0 \/ req.offset + (req.length - 1) <= UMax,
           limit' = limit, Perform(req)
    PROVE  Fetch!Ask(req, object') /\ object' \in Fetch!U64
  <1>1. req.offset + req.length - 1 <= UMax
    <2>1. req.offset \in 0..UMax /\ req.length \in 0..UMax /\ UMax \in Nat
      BY HttpAssumption DEF Fetch!Requests, Fetch!U64
    <2> QED  BY <2>1
  <1>2. /\ request' = req /\ pc' = "transfer" /\ object' \in U64 /\ result'.ok = FALSE
    BY DEF Perform, Failure
  <1>3. (pc' # "idle") = TRUE
    BY <1>2
  <1> QED  BY <1>1, <1>2, <1>3 DEF Fetch!Ask, Fetch!U64, U64

\* ... giving up before it is refusing ...
LEMMA Refuses ==
    ASSUME NEW req, pc = "idle", limit' = limit, Refused(req)
    PROVE  Fetch!Refuse(req)
  BY DEF Refused, Failure, Fetch!Refuse

\* ... and a callback is no step of RangeFetch.
LEMMA Quiet ==
    ASSUME limit' = limit, request' = request, object' = object, result' = result,
           pc # "idle", pc' # "idle"
    PROVE  UNCHANGED Fetch!vars
  <1>1. (pc' # "idle") = (pc # "idle")
    OBVIOUS
  <1> QED  BY <1>1 DEF Fetch!vars

\* Every step of the client is one of RangeFetch, or none.
LEMMA FetchStep == HttpInv /\ [Next]_vars => [Fetch!Next]_Fetch!vars
  <1> SUFFICES ASSUME HttpInv, [Next]_vars  PROVE [Fetch!Next]_Fetch!vars
    OBVIOUS
  <1> USE HttpAssumption
  <1>1. ASSUME NEW req \in Fetch!Requests, pc = "idle", limit' = limit,
               req.length = 0 \/ req.offset + (req.length - 1) <= UMax,
               Refused(req) \/ Perform(req)
        PROVE  Fetch!Next
    <2>1. CASE Refused(req)
      BY <2>1, <1>1, Refuses DEF Fetch!Next
    <2>2. CASE Perform(req)
      BY <2>2, <1>1, Asks DEF Fetch!Next
    <2> QED  BY <2>1, <2>2, <1>1
  <1>2. CASE Get
    <2> DEFINE req == [op |-> "get", offset |-> 0, length |-> 0]
    <2>1. req \in Fetch!Requests /\ req.length = 0
      BY DEF Fetch!Requests, Fetch!U64
    <2>2. pc = "idle" /\ limit' = limit /\ (Refused(req) \/ Perform(req))
      BY <1>2 DEF Get
    <2> HIDE DEF req
    <2> QED  BY <2>1, <2>2, <1>1
  <1>3. ASSUME NEW offset \in U64, NEW length \in U64, GetRangeRefused(offset, length)
        PROVE  Fetch!Next
    <2> DEFINE req == [op |-> "get_range", offset |-> offset, length |-> length]
    <2>1. req \in Fetch!Requests
      BY DEF Fetch!Requests, Fetch!U64, U64
    <2>2. pc = "idle" /\ limit' = limit /\ Refused(req)
      BY <1>3 DEF GetRangeRefused, Refused
    <2> HIDE DEF req
    <2> QED  BY <2>1, <2>2, Refuses DEF Fetch!Next
  <1>4. ASSUME NEW offset \in U64, NEW length \in U64, GetRange(offset, length)
        PROVE  Fetch!Next
    <2> DEFINE req == [op |-> "get_range", offset |-> offset, length |-> length]
    <2>1. req \in Fetch!Requests
      BY DEF Fetch!Requests, Fetch!U64, U64
    <2>2. pc = "idle" /\ limit' = limit /\ (Refused(req) \/ Perform(req))
          /\ ~RangeOverflows(offset, length)
      BY <1>4 DEF GetRange
    <2>3. req.length = 0 \/ req.offset + (req.length - 1) <= UMax
      BY <2>2 DEF RangeOverflows, U64
    <2> HIDE DEF req
    <2> QED  BY <2>1, <2>2, <2>3, <1>1
  <1>5. ASSUME NEW a, StatusLine(a)  PROVE UNCHANGED Fetch!vars
    BY <1>5, Quiet DEF StatusLine
  <1>6. CASE HeaderLine
    BY <1>6, Quiet DEF HeaderLine
  <1>7. ASSUME NEW n \in 1..MaxChunk, Write(n) \/ WriteOverflows(n)
        PROVE  UNCHANGED Fetch!vars
    BY <1>7, Quiet DEF Write, WriteOverflows
  <1>8. CASE CallbackFails
    BY <1>8, Quiet DEF CallbackFails
  <1>9. ASSUME NEW code \in {"OK", "TIMEDOUT", "OTHER"}, Return(code)
        PROVE  Fetch!Next
    <2>1. Fetch!Promised(request, object, result')
      BY <1>9, Kept
    <2>2. /\ pc # "idle" /\ pc' = "idle" /\ limit' = limit /\ request' = request
          /\ object' = object
      BY <1>9 DEF Return
    <2>3. (pc' # "idle") = FALSE
      BY <2>2
    <2> QED  BY <2>1, <2>2, <2>3 DEF Fetch!Next, Fetch!Answer
  <1>10. CASE UNCHANGED vars
    BY <1>10 DEF vars, Fetch!vars
  <1> QED
    BY <1>2, <1>3, <1>4, <1>5, <1>6, <1>7, <1>8, <1>9, <1>10 DEF Next

\* HttpClient implements RangeFetch: get_range() returns an error, a status that is no
\* success, or exactly the bytes asked for, whatever redirects, labels, short bodies and
\* failures come in between.
THEOREM ClientKeepsItsPromise == Spec => ImplementsFetch
  <1>1. Init => Fetch!Init
    BY HttpAssumption DEF Init, Fetch!Init, Failure
  <1> QED
    BY <1>1, FetchStep, HttpInvariant, PTL DEF Spec, ImplementsFetch, Fetch!Spec

\* get_range() rejects no complete and truthfully labelled answer, up to the largest
\* offsets.
THEOREM HonestAnswersAccepted == Spec => HonestIsAccepted
  <1>1. HttpInv =>
      [/\ Return("OK")
       /\ request.op = "get_range"
       /\ answer.status = 206
       /\ request.offset < object
       /\ sink.body = Positions(request.offset, LastWanted)
       /\ \/ sink.headers
                = <<ContentRangeHeader(request.offset, LastWanted, object)>>
          \/ /\ Len(sink.body) = request.length
             /\ sink.headers
                  = <<ContentRangeHeader(request.offset, LastWanted, Star)>>
       => result'.ok]_vars
    BY HonestStep
  <1> QED
    BY <1>1, HttpInvariant, PTL DEF HonestIsAccepted
==============================================================================
