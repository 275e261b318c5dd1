----------------------------- MODULE RangeFetch -----------------------------
(***************************************************************************)
(* What HttpClient promises its callers: a byte-range request is answered  *)
(* by an error, by a status that is not a success, or by exactly the bytes *)
(* asked for, and no body is larger than the limit.  HttpClient implements *)
(* this specification; Pipeline is built on it.                            *)
(***************************************************************************)
EXTENDS Integers, Sequences

CONSTANT
    UMax        \* the largest std::uint64_t

U64 == 0..UMax

VARIABLES
    limit,      \* the largest body; 0 is no limit
    busy,       \* a request is under way
    request,    \* which operation, offset and length
    object,     \* the size of the object behind the URL
    result      \* what the last call returned

vars == <<limit, busy, request, object, result>>

\* The positions first..last, in order.
Positions(first, last) == [i \in 1..(last - first + 1) |-> first + i - 1]

Smaller(a, b) == IF a <= b THEN a ELSE b

\* The last position of a complete answer to req from an object of n bytes.
LastWanted(req, n) ==
    IF req.length = 0 THEN n - 1 ELSE Smaller(req.offset + req.length - 1, n - 1)

\* r keeps the promise for req, made to an object of n bytes.
Promised(req, n, r) ==
    r.ok =>
        /\ limit > 0 => Len(r.body) <= limit
        /\ req.op = "get_range" =>
              IF r.status = 206
              THEN /\ req.offset < n
                   /\ r.body = Positions(req.offset, LastWanted(req, n))
              ELSE r.status \notin 200..299

Ask(req, n) ==
    /\ ~busy
    /\ req.offset + req.length - 1 <= UMax
    /\ request' = req
    /\ object' = n
    /\ busy' = TRUE
    /\ result'.ok = FALSE
    /\ UNCHANGED limit

Refuse(req) ==
    /\ ~busy
    /\ request' = req
    /\ result'.ok = FALSE
    /\ UNCHANGED <<limit, busy, object>>

Answer ==
    /\ busy
    /\ busy' = FALSE
    /\ Promised(request, object, result')
    /\ UNCHANGED <<limit, request, object>>

Requests == [op : {"get", "get_range"}, offset : U64, length : U64]

Init ==
    /\ limit \in Nat
    /\ busy = FALSE
    /\ request = [op |-> "none", offset |-> 0, length |-> 0]
    /\ object = 0
    /\ result.ok = FALSE

Next ==
    \/ \E req \in Requests : Refuse(req) \/ \E n \in U64 : Ask(req, n)
    \/ Answer

Spec == Init /\ [][Next]_vars
==============================================================================
