--------------------------- MODULE GribFileProofs ---------------------------
(***************************************************************************)
(* Proofs about GribFile: the messages of a blob are visited in order and  *)
(* each once, the end is the end, and values come from the right message,  *)
(* for all well-formed blobs.                                              *)
(***************************************************************************)
EXTENDS GribFile, SequenceTheorems, TLAPS

------------------------------------------------------------------------------
\* Scanning a blob.

\* The blobs a file may be open on; a moved-from file holds the empty one.
Blobs == Buffers \cup {NoBuffer}

\* Where the scan goes on after the first k messages.
Reached(b, k) == IF k = 0 THEN 0 ELSE EndOf(b, k)

\* All of them are well formed.
LEMMA BlobsWellFormed == \A b \in Blobs : WellFormed(b)
  <1>1. WellFormed(NoBuffer)
    BY DEF NoBuffer, WellFormed
  <1> QED  BY <1>1, BufferAssumption DEF Blobs

\* The two fields of a message.
At(b, i) == b.messages[i].at
Size(b, i) == b.messages[i].length

\* What it means to be well formed, conjunct by conjunct.
LEMMA BlobFacts ==
    ASSUME NEW b, WellFormed(b)
    PROVE  /\ b.size \in Nat /\ b.cut \in Nat /\ b.cut <= b.size
           /\ Len(b.messages) \in Nat
           /\ \A m \in b.magics : m.at \in Nat /\ m.length \in Nat
           /\ \A m, k \in b.magics : m = k \/ m.at + 4 <= k.at \/ k.at + 4 <= m.at
           /\ \A i \in 1..Len(b.messages) :
                 /\ At(b, i) \in Nat /\ Size(b, i) \in Nat /\ Size(b, i) >= 12
                 /\ EndOf(b, i) = At(b, i) + Size(b, i)
                 /\ EndOf(b, i) <= b.size - b.cut
                 /\ \E m \in b.magics : /\ m.at = At(b, i) /\ m.length = Size(b, i)
                                        /\ m.edition \in {1, 2}
                                        /\ m.length >= Smallest(m.edition)
                 /\ EndOf(b, i) - 4 \in b.trailers
           /\ \A i, j \in 1..Len(b.messages) : i < j => EndOf(b, i) <= At(b, j)
           /\ b.cut >= 4 => \E m \in b.magics : /\ m.at = b.size - b.cut
                                                /\ m.edition \in {1, 2}
                                                /\ m.length > b.cut
           /\ \A m \in b.magics :
                 m.edition \in {1, 2} =>
                    \/ m.at >= b.size - b.cut
                    \/ \E i \in 1..Len(b.messages) : At(b, i) <= m.at /\ m.at < EndOf(b, i)
  <1>1. /\ b.size \in Nat /\ b.cut \in Nat /\ b.cut <= b.size
        /\ Len(b.messages) \in Nat
    BY DEF WellFormed
  <1>2. ASSUME NEW i \in 1..Len(b.messages)
        PROVE  /\ At(b, i) \in Nat /\ Size(b, i) \in Nat /\ Size(b, i) >= 12
               /\ EndOf(b, i) = At(b, i) + Size(b, i)
               /\ EndOf(b, i) <= b.size - b.cut
               /\ \E m \in b.magics : /\ m.at = At(b, i) /\ m.length = Size(b, i)
                                      /\ m.edition \in {1, 2}
                                      /\ m.length >= Smallest(m.edition)
               /\ EndOf(b, i) - 4 \in b.trailers
    <2>1. b.messages[i] \in [at : Nat, length : Nat]
      BY ElementOfSeq DEF WellFormed
    <2>2. PICK m \in b.magics : /\ m.at = At(b, i) /\ m.length = Size(b, i)
                                /\ m.edition \in {1, 2}
                                /\ m.length >= Smallest(m.edition)
      BY DEF WellFormed, At, Size
    <2>3. Size(b, i) \in Nat /\ At(b, i) \in Nat
      BY <2>1 DEF Size, At
    <2>4. Size(b, i) >= 12
      BY <2>2, <2>3 DEF Smallest
    <2>5. EndOf(b, i) = At(b, i) + Size(b, i)
      BY DEF EndOf, At, Size
    <2>6. EndOf(b, i) <= b.size - b.cut /\ EndOf(b, i) - 4 \in b.trailers
      BY DEF WellFormed
    <2> QED  BY <2>2, <2>3, <2>4, <2>5, <2>6
  <1>3. \A i, j \in 1..Len(b.messages) : i < j => EndOf(b, i) <= At(b, j)
    BY DEF WellFormed, At
  <1>4. /\ \A m \in b.magics : m.at \in Nat /\ m.length \in Nat
        /\ \A m, k \in b.magics : m = k \/ m.at + 4 <= k.at \/ k.at + 4 <= m.at
        /\ b.cut >= 4 => \E m \in b.magics : /\ m.at = b.size - b.cut
                                             /\ m.edition \in {1, 2}
                                             /\ m.length > b.cut
    BY DEF WellFormed
  <1>5. \A m \in b.magics :
           m.edition \in {1, 2} =>
              \/ m.at >= b.size - b.cut
              \/ \E i \in 1..Len(b.messages) : At(b, i) <= m.at /\ m.at < EndOf(b, i)
    BY DEF WellFormed, At
  <1> QED  BY <1>1, <1>2, <1>3, <1>4, <1>5

\* The messages end in the order in which they start.
LEMMA EndsInOrder ==
    ASSUME NEW b, WellFormed(b), NEW i \in 1..Len(b.messages), NEW j \in 1..Len(b.messages),
           i <= j
    PROVE  EndOf(b, i) \in Nat /\ EndOf(b, j) \in Nat /\ EndOf(b, i) <= EndOf(b, j)
  <1>1. /\ At(b, i) \in Nat /\ Size(b, i) \in Nat /\ EndOf(b, i) = At(b, i) + Size(b, i)
        /\ At(b, j) \in Nat /\ Size(b, j) \in Nat /\ EndOf(b, j) = At(b, j) + Size(b, j)
    BY BlobFacts
  <1>2. i < j => EndOf(b, i) <= At(b, j)
    BY BlobFacts
  <1> QED  BY <1>1, <1>2

\* find_message() judges the first magic that the loop stops at.
LEMMA FirstStop ==
    ASSUME NEW b, NEW from, NEW m \in Stops(b, from),
           \A k \in Stops(b, from) : m.at \in Int /\ k.at \in Int /\ m.at <= k.at,
           \A k \in Stops(b, from) : k.at = m.at => k = m
    PROVE  find_message(b, from) = IF Complete(b, m) THEN Found(m) ELSE Invalid
  <1> DEFINE stops == Stops(b, from)
             first == CHOOSE x \in stops : \A k \in stops : x.at <= k.at
  <1>1. first \in stops /\ \A k \in stops : first.at <= k.at
    <2> HIDE DEF stops
    <2> QED  BY DEF stops
  <1>2. find_message(b, from) = IF stops = {} THEN End
                                ELSE IF Complete(b, first) THEN Found(first) ELSE Invalid
    BY DEF find_message
  <1> HIDE DEF first
  <1>3. first = m
    BY <1>1
  <1> HIDE DEF stops
  <1> QED  BY <1>1, <1>2, <1>3

\* While messages are left, the scan finds the next one: other magics before it are in
\* the bytes between the messages and are passed over, and magics in the data of the
\* messages before it lie before the place where the scan starts.
LEMMA ScanNext ==
    ASSUME NEW b, WellFormed(b), NEW k \in Nat, k < Len(b.messages)
    PROVE  find_message(b, Reached(b, k))
             = [scan |-> "Found", start |-> At(b, k + 1), length |-> Size(b, k + 1)]
  <1> DEFINE n == Len(b.messages)
             i == k + 1
             from == Reached(b, k)
  <1>1. n \in Nat /\ i \in 1..n
    BY BlobFacts
  <1> HIDE DEF n
  <1>2. PICK m \in b.magics : /\ m.at = At(b, i) /\ m.length = Size(b, i)
                              /\ m.edition \in {1, 2} /\ m.length >= Smallest(m.edition)
    BY <1>1, BlobFacts DEF n
  <1>3. /\ b.size \in Nat /\ b.cut \in Nat /\ b.cut <= b.size
        /\ At(b, i) \in Nat /\ Size(b, i) \in Nat /\ Size(b, i) >= 12
        /\ EndOf(b, i) = At(b, i) + Size(b, i) /\ EndOf(b, i) <= b.size - b.cut
        /\ EndOf(b, i) - 4 \in b.trailers
        /\ \A x \in b.magics : x.at \in Nat
    BY <1>1, BlobFacts DEF n
  <1>4. from \in Nat /\ from <= At(b, i)
    <2>1. CASE k = 0
      BY <2>1, <1>3 DEF Reached
    <2>2. CASE k # 0
      <3>1. k \in 1..n /\ k < i
        BY <2>2, <1>1
      <3>2. EndOf(b, k) <= At(b, i) /\ EndOf(b, k) \in Nat
        BY <3>1, <1>1, BlobFacts DEF n
      <3> QED  BY <2>2, <3>2 DEF Reached
    <2> QED  BY <2>1, <2>2
  <1>5. \A j \in 1..n : j < i => EndOf(b, j) <= from /\ EndOf(b, j) \in Nat
    <2> SUFFICES ASSUME NEW j \in 1..n, j < i  PROVE EndOf(b, j) <= from /\ EndOf(b, j) \in Nat
      OBVIOUS
    <2>1. k \in 1..n /\ k # 0 /\ j <= k
      BY <1>1
    <2>2. from = EndOf(b, k)
      BY <2>1 DEF Reached
    <2> QED  BY <2>1, <2>2, EndsInOrder DEF n
  <1> HIDE DEF from
  <1>6. Rest(b, m) = b.size - m.at /\ Rest(b, m) >= Size(b, i) /\ Rest(b, m) \in Nat
    BY <1>2, <1>3 DEF Rest
  <1>7. m \in Stops(b, from)
    BY <1>2, <1>3, <1>4, <1>6 DEF Stops
  <1>8. ASSUME NEW x \in Stops(b, from)  PROVE m.at <= x.at
    <2>1. x \in b.magics /\ x.at \in Nat /\ x.at >= from
          /\ (b.size - x.at < 8 \/ x.edition \in {1, 2})
      BY <1>3 DEF Stops, Rest
    <2>2. CASE x.edition \notin {1, 2}
      BY <2>1, <2>2, <1>2, <1>3
    <2>3. CASE x.at >= b.size - b.cut
      BY <2>1, <2>3, <1>2, <1>3
    <2>4. ASSUME NEW j \in 1..n, At(b, j) <= x.at, x.at < EndOf(b, j)
          PROVE  m.at <= x.at
      <3>1. CASE j < i
        BY <3>1, <2>1, <2>4, <1>4, <1>5
      <3>2. CASE j = i
        BY <3>2, <2>4, <1>2
      <3>3. CASE j > i
        <4>1. EndOf(b, i) <= At(b, j) /\ At(b, j) \in Nat
          BY <3>3, <1>1, BlobFacts DEF n
        <4> QED  BY <4>1, <2>1, <2>4, <1>2, <1>3
      <3> QED  BY <3>1, <3>2, <3>3, <1>1
    <2> QED  BY <2>1, <2>2, <2>3, <2>4, BlobFacts DEF n
  <1>9. \A x \in Stops(b, from) : x.at = m.at => x = m
    <2> SUFFICES ASSUME NEW x \in Stops(b, from), x.at = m.at  PROVE x = m
      OBVIOUS
    <2>1. x \in b.magics
      BY DEF Stops
    <2>2. x = m \/ x.at + 4 <= m.at \/ m.at + 4 <= x.at
      BY <2>1, BlobFacts
    <2> QED  BY <2>1, <2>2, <1>3
  <1>10. Complete(b, m)
    <2>1. Rest(b, m) >= (IF m.edition = 2 THEN 16 ELSE 8)
      BY <1>2, <1>3, <1>6 DEF Smallest
    <2>2. m.at + (m.length - 4) = EndOf(b, i) - 4
      BY <1>2, <1>3
    <2> QED  BY <2>1, <2>2, <1>2, <1>3, <1>6 DEF Complete
  <1>11. \A x \in Stops(b, from) : m.at \in Int /\ x.at \in Int
    BY <1>2, <1>3 DEF Stops
  <1> QED
    BY <1>2, <1>7, <1>8, <1>9, <1>10, <1>11, FirstStop DEF Found, from

\* After the last message the scan finds no message, and it does not report the end when
\* the magic of a cut-off message is still there.
LEMMA ScanEnd ==
    ASSUME NEW b, WellFormed(b)
    PROVE  /\ find_message(b, Reached(b, Len(b.messages))) \in {End, Invalid}
           /\ find_message(b, Reached(b, Len(b.messages))) = End => b.cut < 4
  <1> DEFINE n == Len(b.messages)
             from == Reached(b, n)
             stops == Stops(b, from)
  <1>1. /\ b.size \in Nat /\ b.cut \in Nat /\ b.cut <= b.size /\ n \in Nat
        /\ \A x \in b.magics : x.at \in Nat /\ x.length \in Nat
        /\ \A m, k \in b.magics : m = k \/ m.at + 4 <= k.at \/ k.at + 4 <= m.at
    BY BlobFacts
  <1>2. from \in Nat /\ from <= b.size - b.cut
    <2>1. CASE n = 0
      BY <2>1, <1>1 DEF Reached
    <2>2. CASE n # 0
      <3>1. n \in 1..n
        BY <2>2, <1>1
      <3>2. EndOf(b, n) \in Nat /\ EndOf(b, n) <= b.size - b.cut
        BY <3>1, BlobFacts
      <3> QED  BY <2>2, <3>2 DEF Reached
    <2> QED  BY <2>1, <2>2
  <1>3. \A j \in 1..n : EndOf(b, j) <= from
    <2> SUFFICES ASSUME NEW j \in 1..n  PROVE EndOf(b, j) <= from
      OBVIOUS
    <2>1. n \in 1..n /\ n # 0 /\ j <= n
      BY <1>1
    <2>2. from = EndOf(b, n)
      BY <2>1 DEF Reached
    <2> QED  BY <2>1, <2>2, EndsInOrder
  <1> HIDE DEF n, from
  <1>4. ASSUME NEW x \in stops
        PROVE  /\ x \in b.magics /\ x.at \in Nat /\ x.at >= from
               /\ b.size - x.at >= 4
               /\ \/ x.edition \in {1, 2} /\ x.at >= b.size - b.cut /\ b.cut >= 4
                  \/ x.edition \notin {1, 2} /\ b.size - x.at < 8
    <2>1. /\ x \in b.magics /\ x.at \in Nat /\ x.at >= from /\ b.size - x.at >= 4
          /\ b.size - x.at < 8 \/ x.edition \in {1, 2}
      BY <1>1 DEF Stops, Rest
    <2>2. CASE x.edition \in {1, 2}
      <3>1. \/ x.at >= b.size - b.cut
            \/ \E i \in 1..n : At(b, i) <= x.at /\ x.at < EndOf(b, i)
        BY <2>1, <2>2, BlobFacts DEF n
      <3>2. \A i \in 1..n : EndOf(b, i) \in Nat
        BY BlobFacts DEF n
      <3>3. x.at >= b.size - b.cut
        BY <3>1, <3>2, <2>1, <1>2, <1>3
      <3> QED  BY <2>1, <2>2, <3>3, <1>1
    <2> QED  BY <2>1, <2>2
  <1>5. CASE b.cut >= 4
    <2>1. PICK m \in b.magics : /\ m.at = b.size - b.cut /\ m.edition \in {1, 2}
                                /\ m.length > b.cut
      BY <1>5, BlobFacts
    <2>2. m.at \in Nat /\ Rest(b, m) = b.cut /\ m.length \in Nat
      BY <2>1, <1>1 DEF Rest
    <2>3. m \in stops
      BY <2>1, <2>2, <1>1, <1>2, <1>5 DEF Stops
    <2>4. ASSUME NEW x \in stops  PROVE m.at <= x.at
      <3>1. CASE x.at >= b.size - b.cut
        BY <3>1, <2>1
      <3>2. CASE b.size - x.at < 8
        <4>1. x \in b.magics /\ x.at \in Nat
          BY <1>4
        <4>2. m = x \/ m.at + 4 <= x.at \/ x.at + 4 <= m.at
          BY <4>1, <1>1
        <4> QED  BY <3>2, <4>1, <4>2, <2>1, <2>2, <1>1, <1>5
      <3> QED  BY <3>1, <3>2, <1>4
    <2>5. \A x \in stops : x.at = m.at => x = m
      BY <1>1, <1>4, <2>2
    <2>6. ~Complete(b, m)
      BY <2>1, <2>2, <1>1 DEF Complete
    <2>7. \A x \in stops : m.at \in Int /\ x.at \in Int
      BY <1>4, <2>2
    <2>8. find_message(b, from) = Invalid
      BY <2>3, <2>4, <2>5, <2>6, <2>7, FirstStop
    <2>9. Invalid # End
      BY DEF Invalid, End
    <2> QED  BY <2>8, <2>9 DEF from, n
  <1>6. CASE b.cut < 4
    <2>1. CASE stops = {}
      <3>1. find_message(b, from) = End
        BY <2>1 DEF find_message
      <3> QED  BY <3>1, <1>6 DEF from, n
    <2>2. ASSUME NEW m \in stops
          PROVE  find_message(b, from) = Invalid
      <3>1. /\ m \in b.magics /\ m.at \in Nat /\ b.size - m.at >= 4
            /\ m.edition \notin {1, 2} /\ b.size - m.at < 8
        BY <2>2, <1>1, <1>4, <1>6
      <3>2. ASSUME NEW x \in stops  PROVE x = m
        <4>1. /\ x \in b.magics /\ x.at \in Nat /\ b.size - x.at >= 4
              /\ b.size - x.at < 8
          BY <3>2, <1>1, <1>4, <1>6
        <4>2. m = x \/ m.at + 4 <= x.at \/ x.at + 4 <= m.at
          BY <3>1, <4>1, <1>1
        <4> QED  BY <3>1, <4>1, <4>2, <1>1
      <3>3. ~Complete(b, m)
        BY <3>1, <1>1 DEF Complete, Rest
      <3>4. \A x \in stops : m.at \in Int /\ x.at \in Int /\ m.at <= x.at
        BY <3>1, <3>2
      <3> QED  BY <2>2, <3>2, <3>3, <3>4, FirstStop
    <2> QED  BY <2>1, <2>2, <1>6 DEF from, n
  <1> QED  BY <1>1, <1>5, <1>6

------------------------------------------------------------------------------
\* The inductive invariant.

\* A file with its history.
FileType == [buf : Blobs, pos : Nat, seen : Seq(Nat)]

\* The file has visited the first messages of its blob, and will go on after the last of
\* these.
Visited(c) ==
    /\ c \in FileType
    /\ Len(c.seen) <= Len(c.buf.messages)
    /\ c.pos = Reached(c.buf, Len(c.seen))
    /\ \A i \in 1..Len(c.seen) : c.seen[i] = At(c.buf, i)

\* The loop of extract_point_member() goes on after message j.
PassedOver(b, w, j) ==
    MemberAt(b, At(b, j)) # w /\ b.decoded[At(b, j)].decodes

\* Inside that loop, the messages before `at' were all passed over.
Searching ==
    pc = "member" =>
        /\ result = NoResult
        /\ \E k \in 0..Len(blob.messages) :
              at = Reached(blob, k) /\ \A j \in 1..k : PassedOver(blob, want, j)

\* The inductive invariant.
FileInv ==
    /\ file \in [Files -> FileType]
    /\ \A f \in Files : Visited(file[f])
    /\ pc \in {"idle", "member"}
    /\ blob \in Blobs
    /\ Searching

\* A newly opened file has visited nothing.
LEMMA OpenedVisited == \A b \in Blobs : Visited(Opened(b))
  <1> SUFFICES ASSUME NEW b \in Blobs  PROVE Visited(Opened(b))
    OBVIOUS
  <1>1. Len(b.messages) \in Nat
    BY BlobsWellFormed, BlobFacts
  <1>2. /\ Opened(b) \in FileType /\ Opened(b).buf = b /\ Opened(b).pos = 0
        /\ Opened(b).seen = <<>>
    BY DEF Opened, FileType
  <1> QED  BY <1>1, <1>2 DEF Visited, Reached

\* What is found between messages is the next message.
LEMMA ScanFound ==
    ASSUME NEW b \in Blobs, NEW k \in Nat, k <= Len(b.messages),
           find_message(b, Reached(b, k)).scan = "Found"
    PROVE  /\ k < Len(b.messages)
           /\ At(b, k + 1) \in Nat
           /\ find_message(b, Reached(b, k)).start = At(b, k + 1)
           /\ After(find_message(b, Reached(b, k))) = EndOf(b, k + 1)
           /\ EndOf(b, k + 1) = Reached(b, k + 1) /\ EndOf(b, k + 1) \in Nat
  <1>1. WellFormed(b) /\ Len(b.messages) \in Nat
    BY BlobsWellFormed, BlobFacts
  <1>2. k # Len(b.messages)
    <2> SUFFICES ASSUME k = Len(b.messages)  PROVE FALSE
      OBVIOUS
    <2>1. find_message(b, Reached(b, k)) \in {End, Invalid}
      BY <1>1, ScanEnd
    <2> QED  BY <2>1 DEF End, Invalid
  <1>3. k < Len(b.messages) /\ k + 1 \in 1..Len(b.messages) /\ k + 1 # 0
    BY <1>1, <1>2
  <1>4. find_message(b, Reached(b, k))
           = [scan |-> "Found", start |-> At(b, k + 1), length |-> Size(b, k + 1)]
    BY <1>1, <1>3, ScanNext
  <1>5. /\ At(b, k + 1) \in Nat /\ Size(b, k + 1) \in Nat
        /\ EndOf(b, k + 1) = At(b, k + 1) + Size(b, k + 1)
    BY <1>1, <1>3, BlobFacts
  <1> QED  BY <1>3, <1>4, <1>5 DEF After, Reached

\* So next() keeps a file's history in step with its position.
LEMMA NextVisited ==
    ASSUME NEW c, Visited(c), NEW d,
           find_message(c.buf, c.pos).scan = "Found",
           d = [buf |-> c.buf, pos |-> After(find_message(c.buf, c.pos)),
                seen |-> Append(c.seen, find_message(c.buf, c.pos).start)]
    PROVE  Visited(d)
  <1> DEFINE s == find_message(c.buf, c.pos)
             k == Len(c.seen)
             b == c.buf
  <1>1. /\ b \in Blobs /\ c.seen \in Seq(Nat) /\ k \in Nat /\ k <= Len(b.messages)
        /\ c.pos = Reached(b, k) /\ Len(b.messages) \in Nat
        /\ \A i \in 1..k : c.seen[i] = At(b, i)
    BY BlobsWellFormed, BlobFacts DEF Visited, FileType
  <1>2. /\ k < Len(b.messages) /\ At(b, k + 1) \in Nat
        /\ s.start = At(b, k + 1) /\ After(s) = Reached(b, k + 1)
        /\ Reached(b, k + 1) \in Nat
    BY <1>1, ScanFound
  <1> HIDE DEF s
  <1>3. d.buf = b /\ d.pos = Reached(b, k + 1) /\ d.seen = Append(c.seen, At(b, k + 1))
    BY <1>2 DEF s
  <1>4. /\ d.seen \in Seq(Nat) /\ Len(d.seen) = k + 1
        /\ \A i \in 1..(k + 1) : d.seen[i] = At(b, i)
    BY <1>1, <1>2, <1>3
  <1>5. d \in FileType
    BY <1>1, <1>2, <1>3, <1>4 DEF FileType
  <1>6. Len(d.seen) <= Len(d.buf.messages)
    BY <1>1, <1>2, <1>3, <1>4
  <1> QED  BY <1>3, <1>4, <1>5, <1>6 DEF Visited

\* Assigning pos_ and the history leaves the buffer.
LEMMA FileUpdates ==
    ASSUME NEW c \in FileType, NEW x, NEW y
    PROVE  [c EXCEPT !.pos = x, !.seen = y] = [buf |-> c.buf, pos |-> x, seen |-> y]
  <1> DEFINE d == [c EXCEPT !.pos = x, !.seen = y]
  <1>1. d = [z \in DOMAIN c |-> d[z]] /\ DOMAIN c = {"buf", "pos", "seen"}
    BY DEF FileType
  <1>2. d.buf = c.buf /\ d.pos = x /\ d.seen = y
    BY DEF FileType
  <1>3. d = [buf |-> c.buf, pos |-> x, seen |-> y]
    <2> HIDE DEF d
    <2> QED  BY <1>1, <1>2
  <1> QED  BY <1>3

\* The invariant holds at first ...
LEMMA FileInit == Init => FileInv
  <1> SUFFICES ASSUME Init  PROVE FileInv
    OBVIOUS
  <1>1. NoBuffer \in Blobs
    BY DEF Blobs
  <1>2. Opened(NoBuffer) \in FileType
    BY <1>1, OpenedVisited DEF Visited
  <1> QED  BY <1>1, <1>2, OpenedVisited DEF Init, FileInv, Searching

\* ... and every step keeps it.
LEMMA FileStep == FileInv /\ [Next]_vars => FileInv'
  <1> SUFFICES ASSUME FileInv, [Next]_vars  PROVE FileInv'
    OBVIOUS
  <1>0. NoBuffer \in Blobs /\ \A b \in Buffers : b \in Blobs
    BY DEF Blobs
  <1>v. ASSUME NEW f \in Files, NEW c, Visited(c), file' = [file EXCEPT ![f] = c],
               pc = "idle", pc' = pc, blob' = blob
        PROVE  FileInv'
    <2>1. c \in FileType
      BY <1>v DEF Visited
    <2> QED  BY <1>v, <2>1 DEF FileInv, Searching
  <1>1. ASSUME NEW f \in Files, NEW b \in Buffers, Open(f, b)  PROVE FileInv'
    <2>1. Visited(Opened(b))
      BY <1>0, OpenedVisited
    <2> QED  BY <2>1, <1>1, <1>v DEF Open
  <1>2. ASSUME NEW f \in Files, NEW g \in Files, Move(f, g)  PROVE FileInv'
    <2>1. Visited(file[g]) /\ Visited(Opened(NoBuffer)) /\ Visited(file[f])
      BY <1>0, OpenedVisited DEF FileInv
    <2>2. file[g] \in FileType /\ Opened(NoBuffer) \in FileType
      BY <2>1 DEF Visited
    <2>3. file' \in [Files -> FileType] /\ \A h \in Files : Visited(file'[h])
      <3>1. CASE f = g
        BY <3>1, <1>2 DEF Move, Moved, FileInv
      <3>2. CASE f # g
        <4>1. file' = [file EXCEPT ![f] = file[g], ![g] = Opened(NoBuffer)]
          BY <3>2, <1>2 DEF Move, Moved
        <4>2. \A h \in Files : file'[h] = IF h = g THEN Opened(NoBuffer)
                                          ELSE IF h = f THEN file[g] ELSE file[h]
          BY <4>1 DEF FileInv
        <4>3. file' \in [Files -> FileType]
          BY <4>1, <2>2 DEF FileInv
        <4> QED  BY <4>2, <4>3, <2>1 DEF FileInv
      <3> QED  BY <3>1, <3>2
    <2> QED  BY <2>3, <1>2 DEF Move, FileInv, Searching
  <1>3. ASSUME NEW f \in Files, NextFound(f)  PROVE FileInv'
    <2> DEFINE s == find_message(file[f].buf, file[f].pos)
               c == file[f]
               d == [buf |-> c.buf, pos |-> After(s), seen |-> Append(c.seen, s.start)]
    <2>1. c \in FileType /\ Visited(c)
      BY DEF FileInv
    <2>2. /\ s.scan = "Found" /\ pc = "idle" /\ pc' = pc /\ blob' = blob
          /\ file' = [file EXCEPT ![f].pos = After(s), ![f].seen = Append(@, s.start)]
      BY <1>3 DEF NextFound
    <2>3. file' = [file EXCEPT ![f] = d]
      <3>1. \A x, y : [buf |-> c.buf, pos |-> x, seen |-> y]
                         = [c EXCEPT !.pos = x, !.seen = y]
        <4> HIDE DEF c
        <4> QED  BY <2>1, FileUpdates
      <3> HIDE DEF s
      <3> QED  BY <2>2, <3>1 DEF FileInv
    <2>4. Visited(d)
      <3> HIDE DEF c
      <3> QED  BY <2>1, <2>2, NextVisited DEF c
    <2> HIDE DEF d
    <2> QED  BY <2>2, <2>3, <2>4, <1>v
  <1>4. ASSUME NEW f \in Files, NextInvalid(f) \/ NextEnd(f)  PROVE FileInv'
    BY <1>4 DEF NextInvalid, NextEnd, FileInv, Searching
  <1>5. ASSUME NEW b \in Buffers, ExtractPoint(b)  PROVE FileInv'
    BY <1>0, <1>5 DEF ExtractPoint, FileInv, Searching
  <1>6. ASSUME NEW b \in Buffers, NEW m \in Members, ExtractPointMember(b, m)
        PROVE  FileInv'
    <2>1. /\ pc' = "member" /\ blob' = b /\ at' = 0 /\ want' = m /\ result' = NoResult
          /\ file' = file
      BY <1>6 DEF ExtractPointMember
    <2>2. Len(b.messages) \in Nat
      BY <1>0, BlobsWellFormed, BlobFacts
    <2>3. 0 \in 0..Len(b.messages) /\ 0 = Reached(b, 0) /\ 1..0 = {}
      BY <2>2 DEF Reached
    <2>4. Searching'
      BY <2>1, <2>3 DEF Searching
    <2> QED  BY <1>0, <2>1, <2>4 DEF FileInv
  <1>7. CASE MemberFails \/ MemberFound
    BY <1>7 DEF MemberFails, MemberFound, Done, FileInv, Searching
  <1>8. CASE MemberSkips
    <2> DEFINE s == find_message(blob, at)
    <2>1. /\ pc = "member" /\ s.scan = "Found" /\ Passes(s.start) /\ at' = After(s)
          /\ file' = file /\ pc' = pc /\ blob' = blob /\ want' = want /\ result' = result
      BY <1>8 DEF MemberSkips
    <2>2. PICK k \in 0..Len(blob.messages) :
             at = Reached(blob, k) /\ \A j \in 1..k : PassedOver(blob, want, j)
      BY <2>1 DEF FileInv, Searching
    <2>3. blob \in Blobs /\ Len(blob.messages) \in Nat /\ k \in Nat /\ k <= Len(blob.messages)
      BY BlobsWellFormed, BlobFacts DEF FileInv
    <2>4. /\ k < Len(blob.messages) /\ s.start = At(blob, k + 1)
          /\ After(s) = Reached(blob, k + 1)
      BY <2>1, <2>2, <2>3, ScanFound
    <2>5. PassedOver(blob, want, k + 1)
      <3> HIDE DEF s
      <3> QED  BY <2>1, <2>4 DEF Passes, PassedOver
    <2>6. \A j \in 1..(k + 1) : PassedOver(blob, want, j)
      BY <2>2, <2>3, <2>5
    <2>7. k + 1 \in 0..Len(blob.messages)
      BY <2>3, <2>4
    <2> HIDE DEF s
    <2>8. Searching'
      BY <2>1, <2>4, <2>6, <2>7 DEF FileInv, Searching
    <2> QED  BY <2>1, <2>8 DEF FileInv
  <1>9. CASE UNCHANGED vars
    BY <1>9 DEF vars, FileInv, Searching
  <1> QED
    BY <1>1, <1>2, <1>3, <1>4, <1>5, <1>6, <1>7, <1>8, <1>9 DEF Next

\* Position and history of every file, and the loop of extract_point_member(), stay in
\* step with the messages of the blob.
THEOREM FileInvariant == Spec => []FileInv
  BY FileInit, FileStep, PTL DEF Spec

------------------------------------------------------------------------------
\* The properties.

\* The history in the form of the properties.
LEMMA SeenIsPrefix ==
    ASSUME NEW c, Visited(c)
    PROVE  /\ c.seen = SubSeq(Starts(c.buf), 1, Len(c.seen))
           /\ Len(c.seen) = Len(c.buf.messages) => c.seen = Starts(c.buf)
  <1> DEFINE k == Len(c.seen)
             n == Len(c.buf.messages)
             t == Starts(c.buf)
  <1>1. /\ c.seen \in Seq(Nat) /\ k \in Nat /\ n \in Nat /\ k <= n
        /\ \A i \in 1..k : c.seen[i] = At(c.buf, i)
        /\ \A i \in 1..n : At(c.buf, i) \in Nat
    BY BlobsWellFormed, BlobFacts DEF Visited, FileType
  <1> HIDE DEF n
  <1>2. t = [i \in 1..n |-> At(c.buf, i)]
    BY DEF Starts, At, n
  <1>3. t \in Seq(Nat) /\ Len(t) = n /\ \A i \in 1..n : t[i] = At(c.buf, i)
    BY <1>1, <1>2
  <1> HIDE DEF t
  <1> DEFINE u == SubSeq(t, 1, k)
  <1>4. u \in Seq(Nat) /\ Len(u) = k /\ \A i \in 1..k : u[i] = t[i]
    BY <1>1, <1>3
  <1> HIDE DEF u
  <1>5. \A i \in 1..k : c.seen[i] = u[i]
    BY <1>1, <1>3, <1>4
  <1>6. c.seen = u
    BY <1>1, <1>4, <1>5, SeqEqual
  <1>7. k = n => c.seen = t
    <2> SUFFICES ASSUME k = n  PROVE c.seen = t
      OBVIOUS
    <2> QED  BY <1>1, <1>3, SeqEqual
  <1> QED  BY <1>6, <1>7 DEF u, t, n

\* For every set of well-formed blobs, of any size and with any number of messages:
\* next() visits the whole messages in order, each once, also across moves, never a
\* "GRIB" inside a message's data, and pos_ stays within the blob.
THEOREM MessagesVisitedInOrder == Spec => []VisitsInOrder
  <1>1. FileInv => VisitsInOrder
    <2> SUFFICES ASSUME FileInv, NEW f \in Files
                 PROVE  /\ file[f].pos \in 0..file[f].buf.size
                        /\ Len(file[f].seen) <= Len(file[f].buf.messages)
                        /\ file[f].seen = SubSeq(Starts(file[f].buf), 1, Len(file[f].seen))
      BY DEF VisitsInOrder
    <2> DEFINE c == file[f]
               b == c.buf
               k == Len(c.seen)
    <2>1. Visited(c)
      BY DEF FileInv
    <2> HIDE DEF c
    <2>2. /\ b \in Blobs /\ k \in Nat /\ k <= Len(b.messages) /\ c.pos = Reached(b, k)
      BY <2>1 DEF Visited, FileType
    <2>3. WellFormed(b) /\ Len(b.messages) \in Nat /\ b.size \in Nat
          /\ b.cut \in Nat /\ b.cut <= b.size
      BY <2>2, BlobsWellFormed, BlobFacts
    <2>4. c.pos \in 0..b.size
      <3>1. CASE k = 0
        BY <3>1, <2>2, <2>3 DEF Reached
      <3>2. CASE k # 0
        <4>1. k \in 1..Len(b.messages)
          BY <3>2, <2>2, <2>3
        <4>2. EndOf(b, k) \in Nat /\ EndOf(b, k) <= b.size - b.cut
          BY <4>1, <2>3, BlobFacts
        <4> QED  BY <3>2, <4>2, <2>2, <2>3 DEF Reached
      <3> QED  BY <3>1, <3>2
    <2> QED  BY <2>1, <2>2, <2>4, SeenIsPrefix DEF c
  <1> QED  BY <1>1, FileInvariant, PTL

\* When next() returns std::nullopt, every message was visited, and the blob does not go
\* on with the magic of a message that was cut off.
THEOREM EndMeansTheEnd == Spec => []EndIsTheEnd
  <1>1. FileInv => EndIsTheEnd
    <2> SUFFICES ASSUME FileInv, NEW f \in Files,
                        find_message(file[f].buf, file[f].pos) = End
                 PROVE  file[f].seen = Starts(file[f].buf) /\ file[f].buf.cut < 4
      BY DEF EndIsTheEnd
    <2> DEFINE c == file[f]
               b == c.buf
               k == Len(c.seen)
    <2>1. Visited(c) /\ find_message(b, c.pos) = End
      BY DEF FileInv
    <2> HIDE DEF c
    <2>2. /\ b \in Blobs /\ k \in Nat /\ k <= Len(b.messages) /\ c.pos = Reached(b, k)
      BY <2>1 DEF Visited, FileType
    <2>3. WellFormed(b) /\ Len(b.messages) \in Nat
      BY <2>2, BlobsWellFormed, BlobFacts
    <2>4. k = Len(b.messages)
      <3> SUFFICES ASSUME k < Len(b.messages)  PROVE FALSE
        BY <2>2, <2>3
      <3>1. find_message(b, c.pos).scan = "Found"
        BY <2>2, <2>3, ScanNext
      <3> QED  BY <3>1, <2>1 DEF End
    <2>5. b.cut < 4
      BY <2>1, <2>2, <2>3, <2>4, ScanEnd
    <2> QED  BY <2>1, <2>4, <2>5, SeenIsPrefix DEF c
  <1> QED  BY <1>1, FileInvariant, PTL

\* Two messages do not start at the same place.
LEMMA MessageUnique ==
    ASSUME NEW b \in Blobs, NEW i \in 1..Len(b.messages)
    PROVE  (CHOOSE k \in 1..Len(b.messages) : b.messages[k].at = At(b, i)) = i
  <1> DEFINE n == Len(b.messages)
  <1>1. n \in Nat
    BY BlobsWellFormed, BlobFacts
  <1>2. ASSUME NEW k \in 1..n, At(b, k) = At(b, i)  PROVE k = i
    <2>1. /\ At(b, i) \in Nat /\ Size(b, i) >= 12 /\ Size(b, i) \in Nat
          /\ At(b, k) \in Nat /\ Size(b, k) >= 12 /\ Size(b, k) \in Nat
          /\ EndOf(b, i) = At(b, i) + Size(b, i) /\ EndOf(b, k) = At(b, k) + Size(b, k)
      BY BlobsWellFormed, BlobFacts
    <2>2. /\ i < k => EndOf(b, i) <= At(b, k)
          /\ k < i => EndOf(b, k) <= At(b, i)
      BY BlobsWellFormed, BlobFacts
    <2> HIDE DEF n
    <2> QED  BY <1>1, <1>2, <2>1, <2>2 DEF n
  <1> DEFINE c == CHOOSE k \in 1..n : b.messages[k].at = At(b, i)
  <1>3. c \in 1..n /\ At(b, c) = At(b, i)
    BY DEF At
  <1> HIDE DEF c
  <1>4. c = i
    BY <1>2, <1>3
  <1> QED  BY <1>4 DEF c

\* A value that extract_point() returns is of the first message, and one that
\* extract_point_member() returns is of the first message of that member, with every
\* message before it decoded and of another member.
THEOREM ValuesFromTheRightMessage == Spec => RightMessage
  <1> DEFINE A == result'.kind = "value" =>
         LET m == blob'.messages
             i == CHOOSE k \in 1..Len(m) : m[k].at = result'.at
         IN  /\ \E k \in 1..Len(m) : m[k].at = result'.at
             /\ IF pc = "idle" THEN i = 1
                ELSE /\ MemberAt(blob, m[i].at) = want
                     /\ \A k \in 1..(i - 1) :
                           /\ MemberAt(blob, m[k].at) # want
                           /\ blob.decoded[m[k].at].decodes
  <1>0. NoResult.kind # "value" /\ Error.kind # "value" /\ Nothing.kind # "value"
        /\ \A x : Message(x).kind # "value" /\ Value(x).at = x
    BY DEF NoResult, Error, Nothing, Message, Value
  <1>b. ASSUME FileInv, NEW b \in Buffers, ExtractPoint(b), result'.kind = "value"  PROVE A
    <2> DEFINE s == find_message(b, 0)
    <2>1. /\ pc = "idle" /\ blob' = b /\ FromBytes(b).kind = "message"
          /\ result' = Value(FromBytes(b).at)
      BY <1>0, <1>b DEF ExtractPoint
    <2>2. s.scan = "Found" /\ FromBytes(b) = Message(s.start)
      BY <2>1 DEF FromBytes, Error
    <2>3. result'.at = s.start
      BY <1>0, <2>1, <2>2 DEF Message
    <2>4. b \in Blobs /\ Len(b.messages) \in Nat /\ Reached(b, 0) = 0
      BY BlobsWellFormed, BlobFacts DEF Blobs, Reached
    <2>5. 1 \in 1..Len(b.messages) /\ s.start = At(b, 1)
      <3>1. 0 \in Nat /\ 0 <= Len(b.messages)
        BY <2>4
      <3>2. 0 < Len(b.messages) /\ s.start = At(b, 0 + 1)
        BY <2>2, <2>4, <3>1, ScanFound
      <3> QED  BY <2>4, <3>2
    <2> HIDE DEF s
    <2>6. (CHOOSE k \in 1..Len(b.messages) : b.messages[k].at = At(b, 1)) = 1
      BY <2>4, <2>5, MessageUnique
    <2>7. b.messages[1].at = At(b, 1)
      BY DEF At
    <2> QED  BY <2>1, <2>3, <2>5, <2>6, <2>7
  <1>m. ASSUME FileInv, MemberFound, result'.kind = "value"  PROVE A
    <2> DEFINE s == find_message(blob, at)
    <2>1. /\ pc = "member" /\ s.scan = "Found" /\ MemberAt(blob, s.start) = want
          /\ result' = Value(s.start) /\ blob' = blob
      BY <1>0, <1>m DEF MemberFound, Done
    <2>2. PICK k \in 0..Len(blob.messages) :
             at = Reached(blob, k) /\ \A j \in 1..k : PassedOver(blob, want, j)
      BY <1>m, <2>1 DEF FileInv, Searching
    <2>3. blob \in Blobs /\ Len(blob.messages) \in Nat /\ k \in Nat /\ k <= Len(blob.messages)
      BY <1>m, BlobsWellFormed, BlobFacts DEF FileInv
    <2>4. k < Len(blob.messages) /\ s.start = At(blob, k + 1)
      BY <2>1, <2>2, <2>3, ScanFound
    <2> HIDE DEF s
    <2> DEFINE i == k + 1
    <2>5. i \in 1..Len(blob.messages) /\ i \in Nat /\ i - 1 = k
      BY <2>3, <2>4
    <2>6. result'.at = At(blob, i)
      BY <1>0, <2>1, <2>4
    <2>7. \A j \in 1..(i - 1) : PassedOver(blob, want, j)
      BY <2>2, <2>5
    <2>8. MemberAt(blob, At(blob, i)) = want
      BY <2>1, <2>4
    <2> HIDE DEF i
    <2>9. (CHOOSE j \in 1..Len(blob.messages) : blob.messages[j].at = At(blob, i)) = i
      BY <2>3, <2>5, MessageUnique
    <2>10. \A j : blob.messages[j].at = At(blob, j)
      BY DEF At
    <2>11. pc # "idle"
      BY <2>1
    <2> QED  BY <2>1, <2>5, <2>6, <2>7, <2>8, <2>9, <2>10, <2>11 DEF PassedOver
  <1>1. FileInv /\ Next => A
    <2> SUFFICES ASSUME FileInv, Next, result'.kind = "value"  PROVE A
      OBVIOUS
    <2> HIDE DEF A
    <2>1. ASSUME NEW f \in Files,
                 \/ \E b \in Buffers : Open(f, b)
                 \/ \E g \in Files : Move(f, g)
                 \/ NextFound(f) \/ NextInvalid(f) \/ NextEnd(f)
          PROVE  FALSE
      BY <1>0, <2>1 DEF Open, Move, NextFound, NextInvalid, NextEnd
    <2>2. ASSUME NEW b \in Buffers, NEW m \in Members, ExtractPointMember(b, m)
          PROVE  FALSE
      BY <1>0, <2>2 DEF ExtractPointMember
    <2>3. CASE MemberFails
      BY <1>0, <2>3 DEF MemberFails, Done
    <2>4. CASE MemberSkips
      BY <1>0, <2>4 DEF MemberSkips, FileInv, Searching
    <2> QED  BY <1>b, <1>m, <2>1, <2>2, <2>3, <2>4 DEF Next
  <1>2. FileInv /\ [Next]_vars => [A]_vars
    BY <1>1
  <1> QED  BY <1>2, FileInvariant, PTL DEF Spec, RightMessage
==============================================================================
