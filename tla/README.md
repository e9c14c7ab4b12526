# A verification project for SearchPlusPlus

SearchPlusPlus is a small lexical search engine in C++20: documents are added
over HTTP or in process, logged, indexed in memory, sealed into immutable
segments, and searched with BM25.  This directory holds TLA+ models of its
core, the TLC configurations that check them on small instances, and theorems
about them proved with TLAPS for every value of the constants.

Paths are relative to the repository root, lines are those of this commit.

## 1. The system

| component | state it keeps | operations | talks to |
|---|---|---|---|
| `index/index_writer` | `current_gen_`, `next_segment_id_`, `sealed_segments_`, `mutable_segment_`, `translog_`, `published_reader_`, one mutex `mu_` | `Open`, `AddDocument`, `Refresh`, `Close`, `CurrentReader` | everything below it |
| `index/translog` | the append sink of `translog.bin` | `Open`, `Append`, `Replay`, `Truncate`, `Close` | `store/file_io` |
| `index/manifest` | the file `manifest` | `LoadManifest`, `SaveManifest` | `store/directory` |
| `index/mutable_segment` | dictionary, postings, norms and stored fields of the pending documents | `AddDocument` | `analyze` |
| `index/segment_writer`, `segment_reader` | the files of a segment; their loaded form | `SealSegment`; `Open`, `FindTerm`, `PostingBytes`, ... | `store` |
| `index/index_reader` | a snapshot: a list of segments | statistics | - |
| `index/schema` | the fields | `AddField`, `FromJson`, `FromMappingsJson` | `json` |
| `store` | open files | buffered append, fsync, rename, directory sync, varbyte coding | the OS |
| `query` | cursors; a heap | iterators, top-K, reranking, parsing, scoring | `index_reader` |
| `http/http_server` | listening socket, queue of accepted sockets, worker threads, `running_`, `stopping_` | `Start`, `Stop`, `AcceptLoop`, `WorkerLoop`, `HandleClient` | `http_parser`, `router` |
| `http/http_parser`, `http_message`, `router` | the buffer of a connection, the table of routes | `TryParseRequest`, `QueryParams`, `UrlDecode`, `Add`, `Dispatch` | - |
| `server/search_server` | `writers_`, `linear_rankers_`, search slots | one handler per route, `Start`, `Stop` | `http_server`, `index_writer`, `query` |
| `json`, `analyze`, `base` | none | pure functions | - |
| `tools`, `python`, `bench`, `examples` | none of their own | call the above | - |

How they interact.  HTTP workers run the handlers of `SearchServer`
concurrently; a handler looks a writer up under `writers_mu_` and uses it
after the lock is released.  `IndexWriter` serialises its operations with
`mu_`; searches take a snapshot and go on without a lock on immutable
segments.  Durability rests on an order: log record, fsync, acknowledgement;
segment files, manifest rename, directory sync, log truncation, publication.

What is hard in it:

- crashes, power loss and failing I/O at each step of `Refresh`,
  `AddDocument` and `Open` (index_writer.cpp, translog.cpp, manifest.cpp);
- stems of segments, numbered from 0 in every process, in a directory where
  failed refreshes leave files behind;
- check-then-act on the map of writers (search_server.cpp:196-216);
- `Stop` against workers that sleep on a condition variable, and sockets that
  move from the acceptor through a queue to a worker (http_server.cpp);
- counting slots that must come back on every return path of a search;
- requests that arrive in pieces, with limits tested between two reads;
- iterators with unstarted and exhausted states, varbyte codes at their
  width, a bounded heap with ties;
- a parser of queries that looks ahead and goes back, and two sides, adding and
  searching, that must choose the same analyzer;
- what is read back after a restart: a schema and documents as JSON texts that
  a crash may have cut at any byte.

The full list, each at its line and with the properties that cover it, is
`hazards` in PROJECT.json.

## 2. Plan

Most important behaviour first; each model is followed by its proofs.

1. **Done.** `IndexWriter`: durability and visibility over crashes, power loss
   and failing I/O; proofs of all its properties.
2. **Done.** `HttpServer`: acceptor, queue, workers, `Stop`; proofs of its
   safety properties.
3. **Done.** `SearchSlots` and `SearchServer`: the cap on searches; handlers
   over the map of writers; proofs of their safety properties.
4. **Done.** `Postings`, `Segment`, `Iterators` against the abstract `Cursor`;
   `TopK` and `Searcher`, which refines it; proofs about the posting bytes,
   about all of `Searcher`'s properties, that a segment gives back what was
   added to it, and that the iterators of every query implement `Cursor`.
5. **Done.** `HttpRequest`: the parser, the router and the reading loop between
   them; proofs that the pieces a request arrives in do not matter.
6. **Done.** `NrtIndex`: the abstract index - acknowledged, visible,
   recoverable - which `IndexWriter` implements; the step simulation proved
   (`ImplementsNrtIndex`).
7. **Done.** `Analyzer` and `QueryParser`, composed with `Segment` and
   `Iterators`: from texts to the documents found.
8. **Done.** `Json`, `Schema` and `Recovery`: what a restart reads back, with
   the byte framing of the log; proofs of all properties of `Recovery`.
9. Left: a proof about `Cursor` (a walk never repeats); `linear_rankers_` of
   the server and the rankers behind `RankerScore`.

| module | models | extends / uses | proofs |
|---|---|---|---|
| `NrtIndex` | what index_writer.h promises | - | - |
| `IndexWriter` | index_writer, translog, manifest, store | refines `NrtIndex` | `IndexWriterProofs` |
| `HttpServer` | http_server, http/platform | - | `HttpServerProofs` |
| `HttpRequest` | http_parser, http_message, router, `HandleClient`, the parameters of `Search` | - | `HttpRequestProofs` |
| `SearchSlots` | `SearchSlot`, the semaphore of the server | - | `SearchServerProofs` |
| `SearchServer` | the handlers, `Start`, `Stop` | what `IndexWriter` shows of a writer | `SearchServerProofs` |
| `Postings` | varbyte, `WritePostings`, `TermIterator` | - | `PostingsProofs` |
| `Analyzer` | standard_analyzer | - | - |
| `Segment` | mutable_segment, segment_writer, segment_reader | `Postings`, `Analyzer` | `SegmentProofs` |
| `Cells` | reading a text from left to right | - | - |
| `QueryParser` | query_parser, query_ast | `Analyzer`, `Cells` | - |
| `Cursor` | the contract of `DocIdSetIterator` | - | - |
| `Iterators` | iterators.cpp, `Build` of searcher.cpp | `Segment`; `QueryParser` by a constant; refines `Cursor` | `SegmentProofs` |
| `JsonValue` | json_value.h | `Cells` | - |
| `Json` | json_parser, json_serializer | `JsonValue` | - |
| `Schema` | schema.cpp | `JsonValue` | `RecoveryProofs` |
| `Recovery` | what index_writer and translog write and read again; the bodies of `CreateIndex` and `PostDoc` | `Schema`; `Json` by constants | `RecoveryProofs` |
| `TopK` | the heap of stage 1 | - | `SearcherProofs` |
| `Searcher` | `Searcher::Search` | `Postings`, `TopK`, refines `TopK!HeapSpec` | `SearcherProofs` |

## 3. The models

### IndexWriter

`mu_` makes operations exclusive, so one program counter `pc` holds the place
of the operation under way, and an operation is one action per I/O effect that
a crash may separate: `AddDocument` appends and fsyncs a record
(`AppendRecord`), then `IndexDocument`; `Refresh` is `RefreshNothing`, or
`RefreshSeal`, `SealSegment`, `SaveManifest` (the rename), `SyncManifest`,
`Truncate`, `Publish`; each has its failing twin (`...Fails`, at most
`MaxFaults` of them).  `Open` is `CreateSchema`, `WriteSchema`, `Open`.
`Crash` and `PowerLoss` may come at any point.

- Disk: `durable` is the set of manifests a power loss may bring back: the old
  one, and the renamed one once it is visible.  `SyncManifest` makes it a
  singleton.  fsync is assumed to be honoured; what `Truncate` cuts off is
  synced by the code, and stays off.
- The log is a sequence of records, `whole` or torn.  What `Replay` reads is
  `Replays`: everything up to a torn record, and behind it what may come in step
  again when the claimed length of the torn record ends at a record.
  Abstracted: a torn record completed by the next header, error codes of
  `Exists`, and bytes that stdio keeps after a failing write.
- A document is a model value; `Rejected` has no id, `Lossy` has values that a
  replay drops (index_writer.cpp:70): its replayed form is "text".
- A refused `AddDocument` and a second `Close` change nothing (stutters).  An
  ordinary exit of the process is `Crash` while idle.
- A crash while schema.json is written leaves it torn, and no `Open` succeeds
  any more: the run allows deadlock for it.
- `exposed` collects the acknowledged documents the code itself gives up:
  records behind a torn one, and the log that `Replay` could not read.

`NrtIndex` is the promise without files: documents are offered, acknowledged,
become visible, and what was visible when a sealing refresh returned survives
a loss of power.  Its actions for failing calls, crashes and loss of power
allow what a caller has to expect, and say how a document comes to be
promised nothing (`lost`): logged behind a torn record, in a log that could not
be read, or in a log that vanished before the first segment was sealed.  The
mapping is at the end of `IndexWriter` (`Nrt`): `Visible` is what the published
reader shows, or after a crash what the manifest names.

Known differences that need no run to see, because one line decides them:
`Close` does not refresh, although index_writer.h:59 says so; every `IoError`
of the log is taken for a missing log (translog.cpp:67); a replay keeps
string fields only (index_writer.cpp:70), so a recovered document is not found
by its numbers and booleans, which search_server.cpp:272 had indexed.

### HttpServer

A step of a thread is what happens between two accesses another thread can
see.  The critical sections of the acceptor and of `Stop` are one step each;
a worker's is several, because the predicate of its wait reads `stopping_`,
which `queue_mu_` does not protect: between the test (`PredicateFalse`) and
the sleep (`Wait`) `Stop` may set it.  `accept` may fail, a wakeup may be
spurious (`Fault`), a client may send a complete or a broken request, leave, or (if `Silent`)
never send.  A refused `Start` and a second `Stop` change nothing.
`Shutdown` of the listening socket wakes a blocked `accept`.
Not modelled: partial writes (`WriteAll` completes), the kernel's backlog limit,
SIGPIPE (ignored, platform.cpp:66), reuse of a descriptor number
between `Close` in `Shutdown` and the next `accept`.

### HttpRequest

One connection, from the first read of `HandleClient` to its reply.  `Read`
appends a piece of any length up to the scratch buffer (`ReadSize`), and the
parser runs again over the whole buffer: it wants more (`Read`, or `ReadEnds`
when the client has stopped, or `TooLarge` over the budget), has an error
(`Refuse`) or a request (`Respond`, which dispatches it).  A message is a
sequence of cells - a word, a separator, a digit - and the limits count cells; the scans of the code
(lines, blanks, percent escapes, path segments) are scans of cells.
`HeadError` keeps the order of the checks.  `Routes` is the table of
`BuildRoutes`; the reply of a call names the handler, the index and what it
was given, for `Search` the decoded parameters with the conversions of
`std::stoul` and the caps.  The reply a client is owed (`Meant` in
`MCHttpRequest`) is computed from how a request was put together,
never from its bytes.  Not modelled: `SerializeResponse`, what the handlers do
(`SearchServer`) or throw, a connection that fails while it is read
(`GiveUp` in `HttpServer`).

### SearchSlots

Each access to an atomic is a step.  The accesses are relaxed: a plain load may
return any value the peak had (`0 .. peak`), a read-modify-write works on the
latest; a weak exchange may fail.  `SizeRange` stands for 2^64 (16 in the
runs) so that the conversion of a negative `--max-searches` to `size_t` and
to `ptrdiff_t` is the code's: `--max-searches -1` passes the test against 0
(search_server.cpp:100) and makes a negative count of slots (`Slots`).  That is
undefined by the standard; the semaphores of libstdc++ and libc++ wait while the
count is zero and otherwise take one away, and so does `Acquire`: below zero
nothing waits, and the cap is gone (`DowncastSafe`).
The proved properties hold for a negative option too, because the cap that the
server then reports, 2^64 - 1, is beyond any number of threads.

### SearchServer

A handler takes a step at each lock or file-system access, so that between
looking a writer up and using it anything may happen.  A writer is the part of
`IndexWriter` a client can see when I/O succeeds (its failures are in
`IndexWriter`): the sets pending, sealed, published and its directory's log
and manifest.  `Refresh` is two steps with the mutex held between.  Addresses
of writers may be reused after they are freed.  A call on a freed writer is undefined and has no step
(`Enters`); `WriterInUseLives` says where it cannot occur.  `acked` and `shown` record
what clients were told; a document stands for one that is sent to one index.

Nothing keeps two requests from creating one index at once, in the code or in
the model.  `raced` records the indexes for which two of them were past the
checks of `CreateIndex` together.  For these the promise of DESIGN.md:92 and that
of an acknowledgement fail (`acked_kept`); what such creates may do
at worst is `WritersOwned`: every live writer is in the map under the
name of its directory or in the hand of one create about to put it there, so none is
left behind with its log open when the second replaces the first, or by `Stop`.
The other properties are about every index that
is not in `raced`, whatever happens to those that are: a handler of another
index never finds its writer replaced, and a server never forgets what it
acknowledged for it.  `CurrentReader` takes `mu_`, although
index_writer.h:36 and :62 call it lock-free.  Not modelled: `linear_rankers_`,
`Health`, a `Start` whose port is taken.

### Postings, Segment

Posting lists are the bytes of the code, with two widths as parameters: a
varbyte carries `GroupBits` bits (7 in the code), a DocId `Width` bits (32);
`More`, the continuation bit, is 2 to the power of `GroupBits` (128).
`AddDocument` analyzes the texts (`Analyzer`), an id as a keyword, and builds
postings per field and term as mutable_segment.cpp does; `Seal` is
`SealCurrentSegment` of the writer: nothing for an empty buffer, else `Sealed`,
the buffers with the offsets of segment_writer.cpp, and the lookups
(`GetFieldId`, `FindTerm`, `PostingBytes`, `StoredFields`, `DocQuality`) are
those of segment_reader.cpp.  The dictionary and the header are kept as
records, terms are numbered in the order of the strings (`Spelling`), weights are counted in
steps of their quantisation, a stored blob is a sequence of cells, behind the
bytes of its length.  The two sorts, of terms and of postings, put a set in
order (`Ordered`).  `DocumentsAssumption` is what the code takes for granted:
the terms of the texts are spelled, and no text has more tokens and no blob
more cells than a uint32 counts.  A position beyond two bytes is recorded as
`kNoPosition`, in the model as in the code, and `SaidOf` says so.  Not
modelled: the checks that only corrupt files fail, the reader's sort of a
dictionary that the writer has already sorted.

### Analyzer, QueryParser

A text is a sequence of cells: a maximal run of letters and digits is one
cell, a word, any other character one of its own.  `StandardAnalyzer` keeps the words that are
no stop words, in lower case, and counts the stop words in the positions;
`KeywordAnalyzer` keeps the text as it is.  The parser takes the text and the
place to start and gives the tree and the place behind it; the position the
code restores after looking ahead is the place an operator was called with.
`ParsesMeant` compares with the tree a text was written for (`Meaning` in
`MCIterators`, in four styles), never with the grammar again.

What a reader may not expect, and one line decides: an unquoted stop word in a
conjunction is a term without tokens, so `the cat` matches nothing (searcher.cpp:82-92);
`Token.position` counts stop words (standard_analyzer.cpp:68) but the segment
records the index among the surviving tokens (mutable_segment.cpp); ToString,
which DESIGN.md:153 wants to parse back to the same tree, prints `*` and
unquoted texts that the parser refuses or reads differently.

### Iterators, Cursor

An iterator is a record; `Moved` gives what `Next`, or `Advance` to a target,
leaves of it, for the four kinds and their trees, as `Build` makes them from a
query.  The conjunction primes its children when it is made, the disjunction at
its first `Next`; both use the sentinel for "unstarted" and "ended".  The run
drives the root as the code does: `Next` first, then `Next` or an `Advance` to a
larger target, until the end.  Outside this protocol (and without a caller):
`Advance` before `Next` on a disjunction, `MatchAllIterator` moved after its end
or backwards.  `std::sort` of few children keeps the order of equal ones.

The recursion of the code over trees - a virtual call, `Build` of a child - is
recursion over their height: `QueryAst[n]` and `DocIdSetIterator[n]` are the
trees of height up to `n`, and the operators of conjunction and disjunction take
the function that moves their children.  So an iterator over others records its
height, which the code has no field for, and its cost, which the code computes
from its children whenever it is asked: no call changes it.  `Depth` bounds the
height of a query (3 in the run, any number in the proofs).  The loop of a
conjunction is `WordMax + 1` rounds, of which those after its end change nothing:
a round that does not end it raises the candidate.  `TermQueries` are the leaves
that may occur; their terms are spelled (`QueriesAssumption`).  `ParseText` is
the parser; `MCIterators` gives it `Parse` of `QueryParser`.

`Cursor` is what iterators.h promises: a walk, upwards, over a set.
`WalksMatches` is `Cursor`'s specification under the mapping that takes the
set for the documents that match the query by their tokens.

### TopK, Searcher

The heap is a set with the order of `ScoredEntryCmp`; entries are offered one
by one.  `Searcher` walks segments, scores, offers (`Visit`), pops (`Drain`),
recomputes features and scores (`Rerank`), sorts through indices and cuts
(`Finish`).  The root iterator is replaced by the matching set, which
`WalksMatches` justifies; the iterators of leaves decode real posting bytes,
in stage 1 without the layout flags as searcher.cpp:228 does.  Scores are numbers;
`std::sort` may leave equal ones in any order.  What a search starts from is
assumed only to have its shape (`IndexesAssumption`, `ScoresAssumption`): every
leaf has a posting list with ascending DocIds in each segment, matching
DocIds are below the sentinel, scores and features are numbers.  A search of size 0 without a
ranker reads the top of an empty heap: the step `Undefined` ends the behaviour.

### Json, Schema, Recovery

The JSON parser and serializer work on cells as well: punctuation, digits,
quotes, backslashes and control characters are cells of their own, so that
numbers and escapes are read as the code reads them; the conversions of the
standard library (`strtod`, `"%.17g"`, UTF-8) are constants.  `Schema` is made
from mappings, written and read.  `Recovery` is one index: it is created
(schema.json is written in place, a crash leaves any beginning of it), gets
documents from `PostDoc` or from callers of the library, whose records are
bytes with a length in front, and is opened again, by parsing what is there.
A byte that stands for no cell is a control character or a letter.  Segments,
the manifest and I/O errors are left to `IndexWriter`; `Refresh` only empties
log and segment.  `sent` is what should come back: the records that are whole, up to the
first torn one.

The parser and the serializer are constants of `Recovery` (`ReadText`, `WriteText`,
`WritePretty`), which `MCRecovery` gives the operators of `Json`.  What `Recovery`
takes for granted of them is in two assumptions, which TLC evaluates for
`Json`: `SchemaTextAssumption`, that the text of a schema is read as the schema and no
beginning of it is a JSON text, and `DocTextAssumption`, that a record's length fits its
four bytes and that the text of a library caller's document says the document.

`RecoveredAsPosted` says what a restart keeps of a document - id and string
fields - and so also what it does not: numbers, truth values, token weights
and the quality.  `SchemaReadBack` needs one exception: a boost that no float
can hold is infinite, printed as null, and is the default after a restart,
although schema.h:70 says "JSON round-trip.".  Also met here, and decided by
one line each: `store_doc_quality` in the body of a PUT is ignored (`CreateIndex`
reads "mappings" only, search_server.cpp:185, while docs/ltr_training.md:56,
ARCHITECTURE.md:144 and tests/integration/rerank_test.cpp:66 send it); mappings
may make `_id` a text field, against schema.h:45.  Not modelled: a document of
a library caller with a field named `_id`, which would replace its id in the
log (index_writer.cpp:57).

## 4. The runs

| run | expected | states | what it asks |
|---|---|---|---|
| `index_writer` | pass | 569,140 | type, disk and memory agree, acknowledged documents survive, generations and stems |
| `acked_never_lost` | violation | - | a document acknowledged behind a torn record |
| `exactly_once` | violation | - | a crash between manifest swap and log truncation |
| `http_server` | pass | 292,345 | ownership of sockets, shutdown, liveness |
| `http_request` | pass | 11,485 | the reply a request is owed, whatever pieces it arrives in; size of the buffer |
| `search_slots` | pass | 17,888 | counting of slots, the recorded peak, slots come back |
| `search_server` | pass | 1,201,917 | who owns a writer, its lifetime, what clients were told |
| `acked_kept` | violation | - | two creates of one index at once |
| `iterators` | pass | 10,469 | what a text is parsed to, what a segment gives back, what iterators walk |
| `searcher` | pass | 113,045 | the best hits, the pool, the features |
| `best_by_bm25` | violation | - | stage 1 on fields with positions or weights |
| `recovery` | pass | 9,521 | schema and documents read back after crashes |

Bounds, and why they are enough:

- `index_writer`: three documents (plain, lossy, refused), each added once, two
  generations, one failing call, any number of crashes and power losses.  Two
  generations reach a manifest ahead of the writer and a reused local id; one failure followed by a
  crash and another refresh reaches every leftover the code can make.  The
  properties also hold with `MaxFaults = 2` (4.26 million states), and the
  safety ones are proved without bounds.
- `http_server`: two connections, two workers, a queue of one, two starts.
  Two connections fill the queue, or make two workers compete for one entry; the
  second start meets what the first left.  One of the clients may stay silent:
  with as many silent clients as workers nobody else is answered (`Answered` is
  then violated), and one of two leaves a worker.  The safety properties also hold for
  three connections (608,187 states).
- `http_request`: 425 messages - every route, one and several errors,
  heads and bodies on both sides of each limit, cut-off heads and bodies,
  bodies that look like the end of a head - read in pieces of one to three
  cells, so that a piece ends at every place.  The budget (33) lies between the limit of the head (31) and what a head and a
  body may add up to, so that all three refusals for size occur.
- `search_slots`: four threads over two slots: two wait, two race for the peak.
- `search_server`: two threads, two indexes, two documents, three addresses,
  two starts; symmetric in all of them, with no liveness property.  A third
  address lets a freed one be reused while the other two live.  Two threads are
  what it takes for creates to overlap.  `acked_kept` needs one
  index and one document.
- `iterators`: `GroupBits = 1`, `Width = 2`: three documents use every DocId,
  numbers from 2 take two bytes, and an increment of the last DocId reaches the
  sentinel.  All sequences of up to three documents of five kinds - without an
  id, with stop words, capitals, a hyphen in the id, weights - searched for
  nine trees no text stands for, and for the texts of trees of depth up
  to three in four styles, with texts that must be refused.
- `searcher`: two segments of up to three and two documents, frequencies 0 to
  2, so that ties within and across segments occur; sizes and pools 0 to 4.
- `recovery`: mappings and documents with every kind of value, escape, blank and
  number, and texts that are refused at each error of the parser; at most four
  fields, so that one body has too many; two records in the log (`MaxAppends`),
  so that a record follows a torn one.  schema.json is cut at every cell, a
  record in and behind its header and near its end (`Cuts`): a cut elsewhere in a payload is
  refused by the same comparison of lengths.

Deadlock is allowed (`CHECK_DEADLOCK FALSE`) where the program or the bounded
history may end: a torn schema, all starts used, a search done.
`search_slots` checks for deadlock.

Fairness.  `HttpServer!FairSpec`: weak fairness for each thread of the server
(the scheduler runs a thread that can run, a mutex is eventually taken), and
for a client that is not silent to complete its request.  No
fairness for clients that connect or leave, for `Start`, or for faults.
`SearchSlots!FairSlotSpec`: weak fairness for each thread once it has asked for a
slot; none for asking, none that favours a particular waiter.
A client that connects and never sends keeps its worker in `recv`
(platform.cpp:131) and so keeps `Stop` waiting, and the server has no timeout
against it.  One of the two clients of `http_server` is such (`Silent`), so
`StopReturns` says that `Stop` returns unless, for ever, it is at its last join with
the queue drained and each worker that is left reads from a silent client that
has neither sent nor left (`HeldUp`).  With `Silent` empty this is that it returns.

Every property of a passing run has a mutant in the model: a plausible slip in
one definition (a dropped lock, a wrong offset, a missing reset) that TLC shows
to break it.

## 5. What the checks found

- A torn log record is never removed: documents acknowledged after the restart
  are lost at the next one (`acked_never_lost`).
- A crash between manifest swap and truncation indexes documents twice
  (`exactly_once`).
- Two concurrent creates of an index open two writers on one directory;
  a document acknowledged through the first is in no writer of
  the map, and the next refresh truncates it out of the log (`acked_kept`).
- Stage 1 decodes posting lists without the field's layout: on fields with
  positions or weights BM25 is computed from wrong frequencies
  (`best_by_bm25`); `BestWhenPlain` shows that nothing else is wrong there.

Not a run of its own: a negative `--max-searches` makes a semaphore below zero,
for which nothing waits, so that searches run without a cap, although the
comment at search_server.cpp:102 calls the downcast safe.  With `Option <-
MinusOne` (`MCSearchSlots`) TLC finds `DowncastSafe` violated in three states.

Not a finding, for no line of the repository promises otherwise: one silent client
blocks `Stop` for ever, and as many as there are workers leave all others without an
answer.  `StopReturns` says that it takes no less.

## 6. What is proved

All theorems hold for every value of the constants, from the named `ASSUME`s of the models
(TLC evaluates them in each run) and nothing else.

**IndexWriter** (`IndexWriterProofs`).  `TypeOK` is
inductive.  `StemInv` adds what makes stems fresh: a manifest on disk is at
most one generation ahead of the writer (`ManifestInv`), the published reader
is part of the sealed segments (`ReaderInv`), and every stem in use is `Taken`:
of a generation up to the current one, or of the next one with a smaller local
id.  From it follow `DiskComplete` (`ManifestReadable` and
`SealedMatchesDisk`) and the action property `SegmentsImmutable`: the file `SealSegment` writes is never `Taken`.
`GenInv` (the last returned generation is in every durable manifest) gives
`GenerationsIncrease`.  `DurableInv` says where the acknowledged documents are
at each program point of `Refresh` (`PendingInv`); it gives `AckedDurable`,
`SeenStaysVisible`, `RefreshedDurable` and the action property
`RefreshShowsAcked`.  `OriginInv` says where documents come from - what is in
log, memory or a manifest was offered, and what is sealed was not refused -
and that the log is linked and the schema whole where the writer relies on
it.  With it every step of the writer is a step of `NrtIndex` or a stutter
(`ImplementsNrtIndex`): one lemma per kind of step says which.

**HttpServer** (`HttpServerProofs`).  `HoldInv` (what a thread holds follows
from where it is), `PhaseInv` (which threads exist in which phase of `Stop`)
and `BacklogInv` (a connection is handed out once) make `OneOwner`,
`StopWakesAll` and `StopClosesAll` inductive.

**HttpRequest** (`HttpRequestProofs`).  The end of a head, once in the buffer,
stays the first (`HeadersEndStays`), so what the parser says of a prefix it
says of the message (`ParseIsFinal`, `VerdictStands`): `AsIfReadAtOnce`, for all
messages, limits and sizes of reads.  A parser that wants more has less than its limits
(`NeedMoreIsSmall`), which with one read gives `LimitsHold`.

**SearchSlots** (`SearchServerProofs`), for any option.  `SlotsConserved`, and with `PeakInv`
`PeakBounded` and `PeakRecorded` (together `PeakRight`): some thread still has the maximum in hand
unless it is recorded, and a count that starts above zero never falls below it.
A conversion loses at most a sign (`SlotsBound`), and then the reported cap is
more than there are threads.

**SearchServer** (`SearchServerProofs`), overlapping creates included.
`MapInv` says who owns a writer, and `CallInv` what a handler has of the server at
each point; together they are inductive and give `WritersOwned`.  `ApartInv` is
about an index that is not in `raced`: a handler that uses a writer has the one
in the map, and a create past its checks is alone and finds none there.  It gives
`WriterInUseLives`; with `DataInv` and `MustInv` (memory mirrors disk, disk
accounts for every answer, for each such index) come `KeptUnlessRaced`,
`SearchesShow` and `StopSeals`.  The step that needs all of them is `Insert`: what it
replaces belongs to an index in `raced`, so no handler of another loses its writer.

**Postings** (`PostingsProofs`), for every `GroupBits` and `Width`.  What
`EncodeVarUint` writes of a number, `DecodeVarUint` reads back wherever it
stands in a buffer (`VarUintReadBack`).  A posting list with ascending DocIds,
walked with the layout it was written with, gives back every DocId, frequency, position
and quantised weight, in order, and then the sentinel (`WalkReadBack`).
Wherever a walk stands, `Advance` goes to the first posting at or past its target and
leaves the iterator as calls of `Next` would have (`AdvanceMeetsFirst`), so a
`TermIterator` keeps the contract of `Cursor` over the documents of its list,
whatever the order of the calls; one made for a document stands on its posting, or
elsewhere when it has none (`PostingsReadBack`).  The definitions recurse over numbers: that their
functions satisfy their equations (`Recursion`), and induction over a set
of numbers (`LeastNumber`, `StrongInduction`), are lemmas of the module, stated without an
operator as a parameter.

**Segment** (`SegmentProofs`), for any schema, documents, spelling and width.
`BuffersFollow`: `SegInv` is inductive.  It says

- `PostingsFit`: a field has a posting list for a term exactly when a document
  has the term, with one posting of each such document, in order, each with
  what `PostingOf` says of it; its DocId is `next_doc_id_`, the number of blobs,
  so this rests on `StoredFits`;
- `CountFits`: `doc_count` counts the documents with a token in the field;
- `StoredFits`: blobs and qualities are the documents', in order;
- a segment that is open is `Sealed`, the files laid out from these buffers.

From it follow the types (`SegTypeCorrect`), and in three steps
`SegmentGivesBack` (`SegmentAlwaysGivesBack`).  The
files: a flattened sequence of pieces holds each piece behind those before it
(`FlattenSlice`, from the lemma of `PostingsProofs` on entries), which applied
twice is the offset of a term within a field and of a field within the file
(`TermPlace`, `FieldPlace`), and once more that of a blob (`BlobPlace`).  The
dictionary: `Ordered` lists a finite set in ascending order (`OrderedList`, by
counting), so `lower_bound` finds a term exactly when it is there
(`FindTermIs`).  The codes: `WalkReadBack` for a posting list, whose sort by
document changes nothing (`ByDocumentIs`), and `VarUintReadBack` for the length
of a blob.  The specification is `SegSpec`: `AddDocument` and `Seal` in any
order, the steps `Iterators` builds its segment with; `SearchedGivesBack` says
the same of `Iterators`.

**Iterators** (`SegmentProofs`), for every segment, query, depth and width.  An
iterator is judged by all it may ever be asked, not by a run of calls:
`Keeps(n, it, S, F)` says that `it`, of height up to `n`, is unstarted and walks
over the set `S` with the frequencies `F`.  It says that there is a set `X` of iterators,
closed under every call, in every order, none of which is ever at a document outside `S` or, after
an `Advance`, before its target; and a set `V` of those that are in order, each
with a bound, such that an iterator in `V` with the bound `b` is at the first
document of `S` from `b` on, with the frequency `F` says, `Next` leads to the
next and `Advance` to any target from `b` on to the first from there (`Walks`,
`IsAt`).  Both sets are needed: a conjunction that ends, or is asked for less
than it has reached, calls children that are no longer in `V`, and must not find
a document that does not match.  The argument:

- leaves keep to their documents: `MatchAllKeeps`, and `TermKeeps` from
  `AdvanceMeetsFirst`;
- `DisjunctionKeeps`: the least document of children that are at or past a bound
  is the first of the union from there, and exactly the children that stand on it
  add up (`AtLeastIs`);
- `ConjunctionKeeps`: while the loop is on, the first child is at a candidate and no
  document of the intersection has been passed (`Together`); a round keeps this and
  raises the candidate, or ends at a document of all children or with none left
  (`RoundIs`); so the loop ends within `WordMax + 1` rounds (`LeapfrogIs`).  Sorting by cost is a
  permutation (`InOrderIs`), which changes neither set nor sum, and priming is a first `Next`
  (`PrimedKeeps`);
- `CombineKeeps`: none, one, or several children; `TermBuilt`: the terms of a text
  are found by `FindTermIs` and read back by `PostingBytesAre`, so that their
  documents are those that have all terms and their frequencies the occurrences;
- `BuildKeeps`: by induction on the height, every query.

`ItInv` (`SearchKeepsPlace`) is the invariant of a search: its iterator is new
(`Fresh`) or where the last call asked it to go (`Underway`), over the documents
that match.  It gives `TypeOK` (`SearchTypeCorrect`), `FreqIsTotal`
(`FreqAlwaysTotal`) and, as each call is then a step of `Cursor`, `WalksMatches`
(`IteratorsWalkMatches`).  That the functions over heights satisfy their
equations is `Definitions`.

**TopK, Searcher** (`SearcherProofs`).  `HeapAlwaysBest`: whatever is offered
and in whatever order, the heap leaves out an entry only when it is full of
entries that score at least as much; the steps that compare with the top use
that no entry scores less (`TopIsLeast`).  Every step of a search is a step of
that heap or a stutter (`SearchRunsHeap`), so `HeapIsBest` holds of every
search (`SearchKeepsBest`).  `SearchInv` is inductive: the types, `HeapInv`, and

- `OfferedOnce`: the entries offered are those of the matching documents passed so
  far, as many as `total_hits`; without it the size of the heap says nothing of the
  number of matching documents;
- `CandidatesFit`: the candidates are the documents the heap kept, each once;
- `ScoresFit`: before `Rerank` a candidate has its entry's score, after it the
  ranker's score of its own true features, and the features at an index are those of
  the candidate there;
- `ResultFits`: hits and features are cut from these by one and the same order of
  indices.

With them hold `TypeOK`, `HitsAreBest` (`SearchReturnsBest`) and `FeaturesFit`
(`SearchFeaturesFit`), which cites `PostingsReadBack` for the leaves.  That a cut of
the pool has as many hits as it should is counting over injections, from the
library's theorems on cardinality.

**Recovery** (`RecoveryProofs`), for any parser and serializer that keep the two
assumptions, any bodies, and crashes that cut a record or schema.json at any byte.
`MappingsGiveSchemas`: whatever the mappings, the schema made of them has an
`_id` and no name twice, so `AddField` refuses none of its fields when it is read
again (`SchemaIsRead`: field by field, but for numbers that were infinite).  A record is read as the
document it says whatever bytes follow it (`RecordRead`), and a record that is cut
is never taken for a whole one (`CutRecord`).  `Replay` recurses over
sequences of bytes; that it satisfies its equation is `ReplayIs`.  The
inductive invariant is `Inv`:

- `LogInv`: the log is the records up to the first torn one, whose replay is what was
  sent, followed by anything; if only the torn record follows, that yields nothing;
- `DocsInv`: the mutable segment has first what the log gave, then what was
  added since;
- `SchemaInv`: schema.json is a beginning of the text of the schema that was made, and
  a writer that is open has that schema, or the one the whole text says.

From it follow `TypeOK` (`TypeCorrect`), `SchemaReadBack` (`SchemaAlwaysReadBack`) and
`RecoveredAsPosted` (`AlwaysRecoveredAsPosted`).  Once a torn record is followed by another,
bytes of a payload may be read as a header, and nothing bounds what is replayed from
there: this is why `TypeOK` bounds `docs`, and `RecoveredAsPosted` its length, only without
such a record.

Only model-checked: liveness (`StopReturns`, `Answered`, `SlotsComeBack`), which
rests on fairness and `ENABLED`; the parsers of queries and of JSON texts, whose
texts are taken apart by recursive operators, beyond the prover, and with the
first `ParsesMeant`; and `ReplyIsMeant`.  These two are about the texts and
requests the runs put together: for arbitrary ones, what they stand for would have
to be assumed.

## 7. What is not modelled

BM25 and feature arithmetic and the linear ranker (floating point), the CatBoost
model, logging, command-line tools, Python bindings and benchmarks; the map of
linear rankers of the server, which only grows and hands out shared pointers,
and is empty after a restart; `QueryAst::ToString`.  `components` in
PROJECT.json lists every part with its reason.
