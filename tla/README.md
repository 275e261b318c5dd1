# grib-cpp in TLA+

grib-cpp fetches weather fields: it reads a sidecar index, selects records,
downloads their byte ranges over HTTP with retries and a rate limit, and decodes
the GRIB messages in them with ecCodes. This directory holds TLA+ models of its
parts, the TLC configurations that check them, and TLAPS proofs of the results
that matter most.

## Inventory

| Part (source) | State | Operations | What makes it correct |
|---|---|---|---|
| Rate limiter (`src/core/rate_limit.cpp`) | `tokens_`, `last_refill_` under `mutex_`; a deadline per waiting thread | `try_acquire`, `acquire`, `acquire_for`, `reset`, `available_tokens` | the rate over any window; nobody waits for ever; asking costs nothing; no overflow of times |
| Decoder initialisation (`make_handle_serialized` in `src/decode/handle.cpp`) | a process-wide atomic flag and mutex, ecCodes' global definitions | first and later handle creations | the definitions are loaded by one thread alone and seen by all |
| HTTP client (`src/http/client.cpp`) | the easy handle, and a `ResponseSink` per transfer | `get`, `get_range`, write and header callbacks | a byte range is the one that was asked for; the size limit holds |
| Retry (`include/grib/retry.hpp`, `src/core/retry.cpp`) | policy, attempt counter | `with_retry`, `set_policy` | bounded attempts and delays; only transient outcomes are dropped |
| Scanner and extraction (`src/decode/handle.cpp`, `src/api/extract.cpp`) | buffer and position | `open`, `next`, moves, `from_bytes`, `extract_*` | messages in order, each once; a value from the right message or an error |
| Handle ownership (`src/decode/handle.cpp`) | `h_`, cached `nearest_` | construction, moves, destruction, `nearest` | one owner; search and handle belong together |
| Sidecar indexes (`src/models/sidecar.cpp`) | none | two parsers, `select` | the ranges of an accepted index are those of the records, none overlaps or wraps; a cut-off index tells no lies |
| curl runtime (`src/http/client.cpp`) | a shared runtime, an easy handle per client | construction, moves, destruction | global cleanup after the last easy handle |
| Errors (`src/core/error.cpp`, `include/grib/error.hpp`) | none | constructors, `from_response` | a status and the error made of it are retried alike |
| Example programs (`examples/example_nomads_idx.cpp`, `examples/example_ecmwf_index.cpp`) | index, selected record, body | fetch index, parse, select, fetch range, extract | the value printed is that of the record asked for, or there is an error |

How they interact. The caller drives everything; the library starts no thread.
`RetryingClient` calls `HttpClient` in a loop and sleeps between attempts; libcurl
calls the two callbacks back during a transfer. `extract_*` call the scanner,
which calls `make_handle_serialized()`. The caller feeds the body of a
`get_range()` to `extract_*`, and puts a `RateLimiter` in front. Three pieces
of state are shared between threads: a `RateLimiter`, the initialisation of
ecCodes, and the curl runtime with its reference count. `HttpClient`, `GribHandle` and `GribFile` need external synchronisation.

What is hard: waits that are worked out under the mutex and used after it; lazy
refills with two truncating divisions; double-checked locking whose first holder
may fail; a server that answers something else than it was asked; eight-bit and
64-bit counters at their ends; blobs and indexes cut off anywhere; objects and
indexes that are replaced between two requests; the order of two deletions. PROJECT.json lists these as hazards, each at its line with the
properties aimed at it.

## Modules

| Module | Models |
|---|---|
| `TokenBucket` | what the limiter promises: an eager bucket that a timer fills |
| `RateLimiter` | `rate_limit.cpp`; refines `TokenBucket` |
| `RateLimiterHistory` | `RateLimiter` with history variables: grants in a window, threads not overtaken since they found the bucket empty |
| `RateLimiterProofs` | the theorems of both |
| `DecoderInit`, `DecoderInitProofs` | `make_handle_serialized()` and its theorems |
| `RangeFetch` | what the HTTP client promises: an error, a status, or exactly the bytes |
| `HttpClient`, `HttpClientProofs` | `get`, `get_range`, the callbacks, the check of a 206; refines `RangeFetch`; its theorems |
| `CurlLifetime`, `CurlLifetimeProofs` | the curl runtime, `Impl`, construction, moves and destruction of clients; its theorems |
| `Retry`, `RetryProofs` | `with_retry`, the delays, `RetryingClient`, `from_response`; its theorems |
| `GribScan` | `find_message`, `from_bytes`: pure functions; what a well-formed blob is |
| `GribFile`, `GribFileProofs` | `GribFile` and `extract_*`, over `GribScan`; its theorems |
| `GribHandle`, `GribHandleProofs` | ownership of ecCodes objects, and which of them each accessor uses; its theorems |
| `Sidecar` | both index parsers and `select`: pure functions |
| `IndexText` | what the parsers make of every text that arrives line by line, over `Sidecar` |
| `Pipeline` | the example programs: `Sidecar`, `RangeFetch` and `GribScan` composed |
| `PipelineProofs` | the theorems of `IndexText` and, with their lemmas on the parsers, of `Pipeline` |
| `GribBlobs` | the blobs of the TLC instances |
| `MC...` | the constants of the TLC runs |

A definition whose comment says *Slip* is a plausible mistake in the definition
after it. No specification uses it; PROJECT.json pairs it with the property that
notices the mistake.

### RateLimiter

Variables are the members `config_`, `tokens_`, `last_refill_`, `mutex_`; `now` is
the steady clock in ticks, `TicksPerMs` of them in a millisecond, so that both
casts to milliseconds really truncate. `try_acquire()` and `reset()` are one step,
being one critical section. `acquire_until()` is broken where other threads can
get in: the critical section (`LoopTakes`, or `LoopFindsNone` followed by
`Measure`, since the clock is read a second time under the mutex), the comparison
with the deadline (`GiveUp` or `Sleep`), and the return of `sleep_for()` (`Wake`),
which may be late. `tokens_` is cast modulo 2^16 as in the code, and the deadline
saturates at `ClockMax`. `available_tokens()` and `refill()` are operators of the
time they are called at.

`ImplementsBucket` is the refinement: at any instant the lazy limiter stands for
the bucket whose level and phase are what `refill()` would leave now. A token
taken is `Spend`, a tick is `Earn`, a `reset()` is `Refresh`, all else stutters.

### DecoderInit

Memory ordering is modelled with views: `version` counts the writes to ecCodes'
global state and to the flag, `view[t]` how many of them happen before `t`'s next
step. Releases publish the view, acquires join it, a relaxed load joins nothing,
and a load not ordered after the store may still return `false`. ecCodes is
external: a creation that starts before the definitions are loaded loads them,
and if it fails it may or may not have finished loading.

### HttpClient

Bytes of the object are their positions, so that "the right bytes" can be said
exactly. The server is external and unhelpful: redirects (with a misleading
`Content-Range` too), 200 for a range request, error pages, any other range,
headers missing or malformed, bodies cut short, timeouts. It is assumed not to lie
about the position of the bytes it labels. `U64` is `0..UMax`, and the end of a
range is computed modulo `UMax + 1`. `ImplementsFetch` maps `busy` of `RangeFetch`
to a transfer under way: a request is `Ask` or `Refuse`, its return `Answer`, and
everything libcurl does in between stutters.

### CurlLifetime

Owners of the shared pointer are a set: the function-local static, and the `Impl`s.
Initialising the static and `~Impl` (close the handle, then release the runtime)
take two steps each, so that other threads get in between. `Exit` is the return
of `main()`; after it the static may be destroyed before or after the clients
that are left. `curl_global_init()` and `curl_easy_init()` may fail.

### Retry

One action per way a pass of the loop can end. The doubles of
`calculate_retry_delay()` are exact here: whole multipliers, jitter in percent,
`NotFinite` for infinities and NaN. `attempt` is incremented modulo 256.
`RetryingClient` is not composed with `HttpClient` state by state: `NoOutcomeLost`
says that the caller gets one of the outcomes unchanged, and `RangeFetch` what each
of them is worth.

### GribScan and GribFile

A buffer is its size, the places of `GRIB` with the edition and length that follow,
and the places of `7777`; `find_message()` depends on nothing else. `messages` and
`cut` say which messages the blob was really made of and serve the properties
only: `WellFormed` says how the two fit together, and `BufferAssumption` that the
blobs do. `extract_point_member()` takes one step for each message, the others one.

### GribHandle

ecCodes objects have numbers. The destructor and the move assignment delete two
things one after the other, and take two steps. `touched` is what the last step
handed to ecCodes; of the accessors nothing else is modelled.

### Sidecar and IndexText

A line is what its fields say: for NOMADS how many fields there are, numbers or
`NotANumber`, and the `ENS=` tag; for ECMWF the kinds of the JSON values, which number
the JSON parser holds, and for the properties the number that is written
(`twice`, so that halves can be told). Splitting characters and parsing JSON
are external; `IndexAssumption` says what the JSON parser is trusted with: an
integer, and a whole number that a double holds exactly, arrive as written. Loops
that pass over lines are `Kept`, a recursive function. 64-bit, 32-bit and `int` limits and 2^53 are constants.

### Pipeline

One state machine for both programs, each request of which goes to a site whose
object and index are replaced, separately, at any time. An object may be uploaded
in part; the download of an index may break off after any line or in the middle
of one (`Remnants`): then the line has too few fields, or its step is shorter, or its
`ENS=` tag lost a digit or makes no sense; broken JSON is no JSON. `TrueEdition` says
what an edition is: a well-formed object, a set of records each of which is one of its
messages, and two indexes that have a line for each record and no others but those that
are passed over. The range request does what `RangeFetch` allows. `RightRecord`
excludes what the code cannot notice: an index of another edition than the object
(nothing compares a message with its line), and a torn last line whose `ENS=` tag
lost a digit or went missing when a member was asked for. Without either exclusion
TLC finds a wrong value.

## Runs

| Run | Bounds | Shows |
|---|---|---|
| `rate_limiter_safety` | 2 threads, 3 calls, 4 configurations (a burst, from full and from empty; one token with a bounded `acquire()`; one that `sanitized()` repairs in every field), 2 ticks per ms, clock up to 6 freely and 10 for sleepers | the bound on the rate over every window, the refinement, that one sleep suffices, no overflow |
| `rate_limiter_liveness` | 2 threads, 4 calls, 2 configurations | every acquire returns |
| `give_up` (violation) | 2 threads, an empty bucket | a preempted thread gives up too early |
| `decoder_init` | 3 threads, 6 calls | loading is exclusive and seen by everybody; only the first creation that succeeds is serialised; the mutex leaves the hot path; every call returns |
| `http_client` | offsets and lengths 0..3, objects of 0..3 bytes, one redirect, chunks of 1 or 2 bytes, limit none or 2 | the client implements `RangeFetch` (an accepted range is exact), a truthful answer is accepted, overflow is final |
| `retry` | 13 policies (0, 3, 4, 6 and 255 attempts; fields out of range; all flags), 8 statuses, all error codes | bounded attempts, exact delays, no outcome lost, responses and errors retried alike, every call returns |
| `grib_file` | 2 files; 20 whole blobs of two or three segments, 15 cut-off ones, 3 members; both files are open at once on 2 of the blobs only (`FewAtOnce`) | order, also across moves; the end; the right message; extraction returns |
| `grib_file_clean_end` (violation) | as `grib_file` | one to three bytes of a message pass for a clean end |
| `grib_handle` | 3 objects, 5 ecCodes objects | ownership, the order of deletion, only live objects used |
| `curl_lifetime` | 3 clients, 4 `Impl`s | libcurl starts once, is up while a handle is open, is shut down in the end |
| `index_text` | up to 3 lines of 17 NOMADS or 53 ECMWF kinds, 7-bit offsets, doubles exact up to 2^5 | ranges divide the object, are those written, and survive a cut |
| `pipeline` | 3 editions, 6 uploads (3 in part), 6 selectors, one upload while the program runs | the right record or an error with its true reason |

Why these bounds are enough to meet the interesting cases. Limiter: with two
threads one can be overtaken, reset under, or preempted at every point by the
other; an interval is two or four ticks, so remainders of every size occur, and
`ClockMax` is reached. Initialisation: three threads let one fail, one load and
one take the fast path at the same time. HTTP: with `UMax = 3` every offset and
length is at or one off the end of the integers in some run, and the limit is met
in one chunk and in two. Retry: 255 is the real end of the counter. Blobs: the
cuts fall into every field the scanner reads. Index: three lines are a record, its
neighbour and a line to be skipped between them, in any order. Pipeline: one upload
between any two requests is enough for each of the two to see another edition, and
the editions have gaps, nested look-alikes, an undecodable message and lines that
are no records.

Deadlock is checked in every run; where a bound ends the behaviour, `Finished`
lets it stutter, so a thread stuck in the middle of an operation would be found.

### Fairness

- `RateLimiter`: time passes and a thread inside a call keeps taking steps (weak
  fairness). `std::mutex` is not fair, and no fairness is assumed for it beyond
  that: the calls are finitely many, so a thread is overtaken only finitely often.
  Nobody has to make a call.
- `DecoderInit`: a thread inside a call keeps running and an ecCodes creation
  returns.
- `Retry`: the operation returns (libcurl has a timeout) and `sleep_for()` ends.
- `GribFile`: `extract_point_member()` runs on once it is called.

### Disagreements with the documentation

- `give_up`: `take_or_wait_time()` measures the wait at one reading of the clock
  and `acquire_until()` compares it with the deadline at a later one. What passes
  in between counts twice, so a thread may return `false` although its token
  arrives by its deadline and nobody overtook it; `rate_limit.hpp` promises to
  block up to `max_wait`.
- `grib_file_clean_end`: the scanner looks no further when fewer than four bytes
  are left, so one to three bytes of a cut-off message are a clean end, which the
  comment on `find_message()` and the README exclude. From four bytes on the cut
  is always noticed (`EndIsTheEnd`).

## Proofs

All for any number of threads, clients, objects, lines and messages, any
configurations and policies, any clock resolution and any width of the integers,
from the assumptions on the constants that the modules name. TLC evaluates these
assumptions in the runs. Three of them are about the world and not about numbers:
`BufferAssumption` (a blob is whole messages, perhaps with other bytes between them,
and perhaps the beginning of one more; a `GRIB` in the other bytes is followed by no
known edition), `IndexAssumption` (above), and `PipelineAssumption`: every edition is a
`TrueEdition`, an upload is the first bytes of one, and what occurs in a text that
occurs in another occurs in that one. It says nothing of which files are on the site
when, nor that an index is complete or in order when it arrives, and it lets an
`.index` state an impossible range, which the parser refuses.

- `RateLimiterProofs`: `TypeCorrect`, `AvailableAgreesAlways`, `AskingNeverDelays`,
  `LimiterIsABucket`, `RateBounded`, `OneSleepIsEnough`.
  `TypeOK` is inductive: it contains that `last_refill_` is never ahead of the
  clock and that the sanitized interval is positive. The arithmetic is in
  `EarnedBounds` (the two truncating divisions count whole intervals: no more, and
  less than one too few) and `RefillFacts` (what `refill()` keeps).
  `LimiterIsABucket` is the refinement of `TokenBucket`: a tick, which the code does
  not notice, is one `Earn` of the bucket, as the number of whole intervals up to
  `now` grows by at most one, and a `refill()` at any time changes neither the level
  nor the phase that the bucket sees.
  `RateBound` is not inductive: after a grant it does not say what is still in the
  bucket. `Covered` does: once the window has a grant, its grants and the tokens left
  are paid for by the capacity, the resets, and the time from the start of the window
  up to `last_refill_` (later time is still to be earned). `OneSleepSuffices` needs
  `NotEarly`: a thread that nobody has overtaken has a wait, or a wake-up time, that
  reaches the next token.
- `DecoderInitProofs`: `LoadingIsExclusive`, `DefinitionsAreSeen`,
  `MutexLeavesHotPath`, `OnlyFirstIsSerialized`. Besides the types, which only the
  induction needs, the invariant says who holds the mutex (`MutexOK`), that its
  holder, or the free mutex, and the flag once it is set are ordered after every
  write, and so is every thread on the fast path (`ViewsOK`), that definitions are
  being loaded only under the mutex with the flag down (`LoadingOK`), and that a
  waiting thread is not ordered after the flag (`WaitingOK`). For
  `OnlyFirstIsSerialized` it is the mutex that orders a waiting thread after the
  store of the flag, so that its relaxed second load cannot miss it.
- `CurlLifetimeProofs`: `StartedOnce`, `LibcurlOutlivesHandles`, `EverythingReleased`.
  That libcurl is up while a handle is open is not inductive: it takes that each
  open handle's `Impl` is an owner (`HandlesOK`), that an owned runtime is not down
  and the static owns it until `main()` returns (`RuntimeOK`), that an `Impl` with a
  holder has only one and is not being destroyed (`ClientsOK`), and for the
  shutdown that every owner is held or dying (`OwnersOK`).
- `HttpClientProofs`: `TypeCorrect`, `OverflowReported`, `HonestAnswersAccepted`, and
  `ClientKeepsItsPromise`, the refinement of `RangeFetch`. What the refinement needs at
  the end of a transfer is spread over the callbacks before it, so `HttpInv` follows
  the bytes: `Describes(a, b)` says that the body received and the bytes still to come
  are bytes `a..b` of the object, one after the other, and that the sink holds or will
  get at most one `Content-Range`, which is that of the last response and labels them
  truthfully if it parses. `ExpectedIsWanted` then turns the check of the 206, with its
  modular end and its unknown total, into "these are the bytes asked for".
- `RetryProofs`: `TypeCorrect`, `AttemptsAreBounded`, `NoOutcomeIsLost`,
  `StatusAndErrorAgreeAlways`, `BackoffFormula`, `BackoffIsExponentialAlways`. `RetryInv`
  ties the eight-bit `attempt` to the number of attempts made at each point of the loop
  (`Counted`), which excludes the wrap at 255 and the error behind the loop.
  `BackoffFormula` is an induction: cutting the delay off in every pass and once at the
  end come to the same. Where the run stops at the sixth attempt, the theorem does not.
- `GribFileProofs`: `MessagesVisitedInOrder`, `EndMeansTheEnd`,
  `ValuesFromTheRightMessage`. The lemmas `ScanNext` and `ScanEnd` say what
  `find_message()` finds from the end of a message on: the next message, and after the
  last one nothing, with an error if the magic of a cut-off message is there. `FileInv`
  says that every position is the end of the last message of the history, across
  moves, and that inside `extract_point_member()` all messages before the position
  were decoded and of another member (`Searching`).
- `GribHandleProofs`: `PointersStayValid`, `ExactlyOneOwner`, `SearchesDieFirst`,
  `NothingFreedIsTouched`. None of these is inductive alone; `Ownership` is: pointers
  are null or valid, except in the slot that is between its two deletions (`Valid`,
  `BusyOK`), no two slots share one (`Apart`), and nothing is without an owner
  (`Owned`).
- `PipelineProofs`, about `IndexText`: `TypeCorrect`, `RangesAreThoseStated`, `RecordsTile`,
  `CutIndexTellsNoLies`. The invariant (`IndexInv`) only says that the text is lines of its
  format; the work is in the lemmas about the parsers. `KeptOfAppend` (one line more is
  appended or passed over) carries the induction, `NomadsParsed` and `EcmwfParsed` say in
  closed form what the parsers return, `OffsetsIncrease` lifts the comparison of
  neighbours to all pairs, and `NomadsGrows` and `EcmwfGrows` compare a text with the
  text that has one line more.
- `PipelineProofs`, about `Pipeline`: `ValueIsOfRightRecord`, `NoRecordMeansNone`,
  `RangesHoldMessages`, and `RequestsFollowPromise`, that the programs and the site use
  the variables of the request as `RangeFetch` says, which `HttpClient` implements by
  `ClientKeepsItsPromise`. The three properties are about the end of a program that read
  two files of a changing site, so `PipeInv` carries the edition along: the lines in hand
  tell of records of the edition they are from, the broken one too (`TrueIndex`); so do
  the parsed entries, with ranges that are open or hold the message (`AllTold`), and a
  whole index leaves no record out (`Covered`); the selected entry is one of them and
  matches (`Selected`), the request is for it (`Asked`) and the answer is all of it
  (`Answered`). Three lemmas do the work. `NomadsTold`: the length of an `.idx` entry,
  which the file does not state, reaches the next record, and so the end of the message
  (`RoomToNext`), also when the next line broke off. `SliceScan`: from the bytes of a
  range that starts with a message `from_bytes()` gets that message or an error, whatever
  looks like a message in its data, and no error when the message is all there.
  `RecordMatches`: an entry whose step was cut short matches no selector that its record
  does not match, which is why `RightRecord` needs no exclusion for broken steps.

Loops and recursive functions. The library's rules of induction take a formula as a
parameter, which the provers cannot instantiate. The proofs use a rule about sets
instead (`SetInduction`: a set of naturals that has 0 and with each n also n + 1 has
them all), which follows from the library's least elements of well-founded orders.

Only model-checked: liveness under fairness (`AcquireReturns`, `CallsReturn`,
`CallReturns`, `ExtractionReturns`), which is out of the prover's reach, and the two
runs that expect a violation. Every invariant and every action property that a passing
run checks is a theorem.

## Not modelled

- Characters: splitting lines and fields, percent and number syntax, and the JSON
  parser, which rounds what a double cannot hold before `exact_u64()` sees it (a
  fraction as small as in 5.00000000000000001 is gone by then). URLs, dates and the
  conversion to Fahrenheit of the examples.
- Whether a text selector means a substring or a whole token: the comment on
  `GribSelector` and the one on `select()` differ, the code takes substrings and the
  caller the first hit, so "2t" may select "mx2t". The model does what the code does.
- The values the accessors of `GribHandle` return, and the choice of the closest of four
  points in `nearest()`: floating point, read through ecCodes. That they may fail is
  modelled.
- Clients constructed after the static in `runtime()` is gone, which C++ leaves
  undefined.
- URL and header validation and the options given to libcurl: one nondeterministic
  refusal in `HttpClient`.
- Allocation failures outside the callbacks; two threads using one `HttpClient`,
  `GribHandle` or `GribFile`, which the documentation rules out.

## Plan

Done, in this order: the limiter with its refinement and proofs, the decoder's
initialisation with proofs, the HTTP client, retries, the scanner, ownership; then
the promise of the HTTP client as a specification of its own, the life of the curl
runtime with proofs, the sidecar indexes, the accessors, and the pipeline.

Then the proofs: the two refinements, every invariant and action property of
`HttpClient`, `Retry`, `GribFile`, `GribHandle` and `IndexText`, and last, built on the
lemmas about the parsers, those of `Pipeline` and its use of `RangeFetch`.
