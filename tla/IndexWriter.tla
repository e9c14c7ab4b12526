---------------------------- MODULE IndexWriter ----------------------------
(***************************************************************************)
(* The near-real-time index writer of src/index: documents are appended to *)
(* a translog and to an in-memory segment; Refresh seals that segment to   *)
(* disk, swaps the manifest, truncates the translog and publishes a new    *)
(* reader; Open rebuilds the in-memory state from manifest and translog.   *)
(*                                                                         *)
(* AddDocument, Refresh, Close and CurrentReader hold one mutex (mu_), so  *)
(* at most one of them is under way: "pc" is the program point of the      *)
(* holder.  What interleaves with its steps is the outside world: a crash  *)
(* of the process, a loss of power, and the failure of any I/O call.       *)
(***************************************************************************)
EXTENDS Naturals, Sequences, FiniteSets

CONSTANTS
  Doc,        \* the documents clients add
  Rejected,   \* those MutableSegment::AddDocument refuses (empty _id)
  Lossy,      \* those with numbers, booleans, token weights or a quality
  MaxAdds,    \* bound: AddDocument calls per document
  MaxGen,     \* bound: generations
  MaxFaults   \* bound: failing I/O calls

ASSUME ConstantsAssumption ==
  /\ Rejected \subseteq Doc
  /\ Lossy \subseteq Doc
  /\ MaxAdds \in Nat /\ MaxGen \in Nat /\ MaxFaults \in Nat

VARIABLES
  \* The index directory.
  schemaFile, \* schema.json: "none", "torn" or "whole"
  log,        \* translog.bin: the records written, torn ones included
  logLinked,  \* is the directory entry of translog.bin on stable storage?
  files,      \* segment files by stem
  manifest,   \* the manifest file as the running system reads it
  durable,    \* the manifests a loss of power may leave behind
  \* The IndexWriter object.
  pc,         \* program point of the operation holding mu_
  sink,       \* translog_ / sink_: "open", "closed", "null", or "none" after Close
  gen,        \* current_gen_
  nextId,     \* next_segment_id_
  sealed,     \* sealed_segments_: contents, loaded in memory, by stem
  mutable,    \* mutable_segment_
  published,  \* published_reader_: contents by stem
  \* Bounds and history.
  adds,       \* AddDocument calls so far, per document
  faults,     \* I/O failures so far
  acked,      \* documents whose AddDocument returned Ok
  exposed,    \* acked documents whose log record Replay may not reach
  seen,       \* documents of the published readers since the last power loss
  promised,   \* documents visible when a sealing Refresh returned Ok
  retGen      \* generation the last sealing Refresh returned

disk    == <<schemaFile, log, logLinked, files, manifest, durable>>
memory  == <<pc, sink, gen, nextId, sealed, mutable, published>>
history == <<adds, faults, acked, exposed, seen, promised, retGen>>
vars    == <<disk, memory, history>>

-----------------------------------------------------------------------------
(* Data.                                                                   *)

Stem == Nat \X Nat            \* MakeSegmentStem: generation, local id

\* What a segment holds of a document: all that was indexed, or only the
\* string fields that survive a replay of the translog.
Form  == {"full", "text"}
Entry == Doc \X Form
Bag   == [Entry -> Nat]
NoDocs == [e \in Entry |-> 0]

Record  == [doc : Doc, whole : BOOLEAN]
SegFile == [docs : Bag, whole : BOOLEAN]
Manifest == [gen : Nat, segs : SUBSET Stem]

EmptySegs == [s \in {} |-> NoDocs]
Put(f, s, v) == [t \in DOMAIN f \cup {s} |-> IF t = s THEN v ELSE f[t]]

Docs(b) == {d \in Doc : \E f \in Form : b[<<d, f>>] > 0}
DocsOfSegs(segs) == {d \in Doc : \E s \in DOMAIN segs : d \in Docs(segs[s])}
DocsOfManifest(m) == {d \in Doc : \E s \in m.segs : d \in Docs(files[s].docs)}

-----------------------------------------------------------------------------
(* Translog::Replay.  Records are read from the head.  The length header   *)
(* of a torn record claims bytes that were never written, so what follows  *)
(* it is taken for its payload; reading then resumes in the middle of a    *)
(* record, whose bytes read as a length lead past the end of the file,     *)
(* unless the claimed bytes happen to end where a later record starts:     *)
(* from there on reading is in step again, up to the next torn record.     *)

WholeAt(l) == {i \in DOMAIN l : l[i].whole}

Readable(l) == {i \in DOMAIN l : \A j \in 1..i : l[j].whole}

Replays(l) ==
  {S \in SUBSET WholeAt(l) :
     /\ Readable(l) \subseteq S
     /\ \A i \in S : i + 1 \in WholeAt(l) => i + 1 \in S
     /\ \A i \in DOMAIN l \ WholeAt(l) : (i = 1 \/ i - 1 \in S) => i + 1 \notin S}

\* DocFromJson keeps the string values only.
DocFromJson(d) == <<d, IF d \in Lossy THEN "text" ELSE "full">>

\* Mutant: records without an _id are not skipped.
ReplayedAll(l, S) == [e \in Entry |-> Cardinality({i \in S : DocFromJson(l[i].doc) = e})]

\* ReplayTranslog: the mutable segment after the records at S were added; a
\* record without an _id does not convert and is skipped.
Replayed(l, S) ==
  [e \in Entry |-> Cardinality({i \in S : /\ l[i].doc \notin Rejected
                                          /\ DocFromJson(l[i].doc) = e})]

LogDocs(l) == {l[i].doc : i \in DOMAIN l}

-----------------------------------------------------------------------------
(* The index before its first Open.                                        *)

Init ==
  /\ schemaFile = "none" /\ log = <<>> /\ logLinked = FALSE
  /\ files = [s \in {} |-> [docs |-> NoDocs, whole |-> FALSE]]
  /\ manifest = [gen |-> 0, segs |-> {}] /\ durable = {manifest}
  /\ pc = "down" /\ sink = "none" /\ gen = 0 /\ nextId = 0
  /\ sealed = EmptySegs /\ mutable = NoDocs /\ published = EmptySegs
  /\ adds = [d \in Doc |-> 0] /\ faults = 0
  /\ acked = {} /\ exposed = {} /\ seen = {} /\ promised = {} /\ retGen = 0

\* An I/O call fails.
Fault == faults < MaxFaults /\ faults' = faults + 1

-----------------------------------------------------------------------------
(* Open = BootstrapInitial; ReplayTranslog.                                *)

\* WriteSchemaJson writes schema.json in place: created empty, then filled.
CreateSchema ==
  /\ pc = "down" /\ schemaFile = "none"
  /\ schemaFile' = "torn" /\ pc' = "schema"
  /\ UNCHANGED <<log, logLinked, files, manifest, durable,
                 sink, gen, nextId, sealed, mutable, published, history>>

\* The schema is written and the directory synced; Open goes on as it does
\* when it finds a schema, with nothing in memory yet.
WriteSchema ==
  /\ pc = "schema"
  /\ schemaFile' = "whole" /\ pc' = "down"
  /\ UNCHANGED <<log, logLinked, files, manifest, durable,
                 sink, gen, nextId, sealed, mutable, published, history>>

\* Every segment the manifest names opens (SegmentReader::Open).
SegmentsOpen(m) == \A s \in m.segs : s \in DOMAIN files /\ files[s].whole

\* Mutant: current_gen_ is not loaded from the manifest.
BootstrapFromGenZero(S) ==
  /\ pc = "down" /\ schemaFile = "whole"
  /\ SegmentsOpen(manifest)
  /\ pc' = "idle" /\ sink' = "open"
  /\ gen' = 0 /\ nextId' = 0
  /\ sealed' = [s \in manifest.segs |-> files[s].docs]
  /\ published' = sealed'
  /\ mutable' = Replayed(log, S)
  /\ seen' = seen \cup DocsOfSegs(published')
  /\ UNCHANGED <<disk, adds, acked, promised, retGen>>

\* The rest of Open, with the records at S recovered.
Bootstrap(S) ==
  /\ pc = "down" /\ schemaFile = "whole"
  /\ SegmentsOpen(manifest)
  /\ pc' = "idle" /\ sink' = "open"
  /\ gen' = manifest.gen /\ nextId' = 0
  /\ sealed' = [s \in manifest.segs |-> files[s].docs]
  /\ published' = sealed'
  /\ mutable' = Replayed(log, S)
  /\ seen' = seen \cup DocsOfSegs(published')
  /\ UNCHANGED <<disk, adds, acked, promised, retGen>>

\* Mutant: the log is opened for append but not replayed.
OpenNoReplay == Bootstrap({}) /\ UNCHANGED <<faults, exposed>>

Open ==
  \E S \in Replays(log) : Bootstrap(S) /\ UNCHANGED <<faults, exposed>>

\* Replay reports any error of reading translog.bin as an empty log.
OpenUnreadableLog ==
  /\ log # <<>> /\ Bootstrap({}) /\ Fault
  /\ exposed' = exposed \cup LogDocs(log)

-----------------------------------------------------------------------------
(* AddDocument.                                                            *)

\* Translog::Append adds a record for d, whole or cut short by a failure.
\* A record behind a torn one is not one Replay is sure to reach.
AppendRecord(d, whole) ==
  /\ log' = Append(log, [doc |-> d, whole |-> whole])
  /\ exposed' = IF Readable(log) = DOMAIN log THEN exposed ELSE exposed \cup {d}

MayAdd(d) ==
  /\ pc = "idle" /\ sink = "open" /\ adds[d] < MaxAdds
  /\ adds' = [adds EXCEPT ![d] = @ + 1]

AddDocument(d) ==
  /\ MayAdd(d) /\ AppendRecord(d, TRUE)
  /\ pc' = "index"
  /\ UNCHANGED <<schemaFile, logLinked, files, manifest, durable,
                 sink, gen, nextId, sealed, mutable, published,
                 faults, acked, seen, promised, retGen>>

\* MutableSegment::AddDocument, then the call returns.
IndexDocument ==
  LET d == log[Len(log)].doc IN
  /\ pc = "index" /\ pc' = "idle"
  /\ \/ /\ d \notin Rejected
        /\ mutable' = [mutable EXCEPT ![<<d, "full">>] = @ + 1]
        /\ acked' = acked \cup {d}
     \/ /\ d \in Rejected
        /\ UNCHANGED <<mutable, acked>>
  /\ UNCHANGED <<disk, sink, gen, nextId, sealed, published,
                 adds, faults, exposed, seen, promised, retGen>>

\* The write or the fsync fails and the call returns the error: nothing,
\* part of the record or all of it is in the file.
AppendFails(d) ==
  /\ MayAdd(d) /\ Fault
  /\ \/ \E whole \in BOOLEAN : AppendRecord(d, whole)
     \/ UNCHANGED <<log, exposed>>
  /\ UNCHANGED <<schemaFile, logLinked, files, manifest, durable, memory,
                 acked, seen, promised, retGen>>

-----------------------------------------------------------------------------
(* Refresh.                                                                *)

\* Mutant: the stem has no local id.
SegmentStemNoId(id) == <<gen + 1, 0>>

\* The stem of a segment sealed now.
SegmentStem(id) == <<gen + 1, id>>

\* The one SealCurrentSegment is writing: next_segment_id_ was taken.
NewStem == SegmentStem(nextId - 1)

MayRefresh == pc = "idle" /\ sink # "none"

\* Nothing pending: no segment, no manifest; the reader is published anew.
RefreshNothing ==
  /\ MayRefresh /\ mutable = NoDocs
  /\ published' = sealed
  /\ seen' = seen \cup DocsOfSegs(sealed)
  /\ UNCHANGED <<disk, pc, sink, gen, nextId, sealed, mutable,
                 adds, faults, acked, exposed, promised, retGen>>

\* Mutant: next_segment_id_ is read, not advanced.
RefreshSealSameId ==
  /\ MayRefresh /\ mutable # NoDocs /\ gen < MaxGen
  /\ files' = Put(files, SegmentStem(nextId), [docs |-> NoDocs, whole |-> FALSE])
  /\ pc' = "seal"
  /\ UNCHANGED <<schemaFile, log, logLinked, manifest, durable,
                 sink, gen, nextId, sealed, mutable, published, history>>

\* SealCurrentSegment takes a stem and SealSegment creates (truncating what
\* has that name) the first file of the segment.
RefreshSeal ==
  /\ MayRefresh /\ mutable # NoDocs /\ gen < MaxGen
  /\ nextId' = nextId + 1
  /\ files' = Put(files, SegmentStem(nextId), [docs |-> NoDocs, whole |-> FALSE])
  /\ pc' = "seal"
  /\ UNCHANGED <<schemaFile, log, logLinked, manifest, durable,
                 sink, gen, sealed, mutable, published, history>>

\* All files written and fsynced, the directory synced, the segment opened
\* and added to sealed_segments_.
SealSegment ==
  /\ pc = "seal" /\ pc' = "save"
  /\ files' = Put(files, NewStem, [docs |-> mutable, whole |-> TRUE])
  /\ sealed' = Put(sealed, NewStem, mutable)
  /\ logLinked' = TRUE
  /\ UNCHANGED <<schemaFile, log, manifest, durable,
                 sink, gen, nextId, mutable, published, history>>

\* Mutant: the pending documents are moved out before the seal succeeded.
SealFailsDropsPending ==
  /\ pc = "seal" /\ pc' = "idle" /\ Fault
  /\ mutable' = NoDocs
  /\ UNCHANGED <<disk, sink, gen, nextId, sealed, published,
                 adds, acked, exposed, seen, promised, retGen>>

\* A file cannot be written, or the directory not synced, or the segment not
\* opened: Refresh returns the error, the files it wrote stay.
SealFails ==
  /\ pc = "seal" /\ pc' = "idle" /\ Fault
  /\ \/ files' = Put(files, NewStem, [docs |-> mutable, whole |-> TRUE])
     \/ UNCHANGED files
  /\ UNCHANGED <<schemaFile, log, logLinked, manifest, durable,
                 sink, gen, nextId, sealed, mutable, published,
                 adds, acked, exposed, seen, promised, retGen>>

\* Mutant: the manifest lists the new segment only.
SaveManifestNewOnly ==
  /\ pc = "save" /\ pc' = "sync"
  /\ manifest' = [gen |-> gen + 1, segs |-> {NewStem}]
  /\ durable' = durable \cup {manifest'}
  /\ UNCHANGED <<schemaFile, log, logLinked, files,
                 sink, gen, nextId, sealed, mutable, published, history>>

\* SaveManifest up to the rename of manifest.tmp; the rename holds for
\* the running system at once, for stable storage only after dir.Sync.
SaveManifest ==
  /\ pc = "save" /\ pc' = "sync"
  /\ manifest' = [gen |-> gen + 1, segs |-> DOMAIN sealed]
  /\ durable' = durable \cup {manifest'}
  /\ UNCHANGED <<schemaFile, log, logLinked, files,
                 sink, gen, nextId, sealed, mutable, published, history>>

\* The temporary file cannot be written or renamed, or the directory cannot
\* be synced after the rename: Refresh returns the error.
SaveManifestFails ==
  /\ pc \in {"save", "sync"} /\ pc' = "idle" /\ Fault
  /\ UNCHANGED <<disk, sink, gen, nextId, sealed, mutable, published,
                 adds, acked, exposed, seen, promised, retGen>>

\* Mutant: the directory is not synced after the rename.
SyncManifestNoSync ==
  /\ pc = "sync" /\ pc' = "trunc"
  /\ gen' = gen + 1
  /\ mutable' = NoDocs
  /\ exposed' = exposed \ Docs(mutable)
  /\ UNCHANGED <<disk, sink, nextId, sealed, published,
                 adds, faults, acked, seen, promised, retGen>>

\* dir.Sync, then the generation and a fresh mutable segment are stored.
SyncManifest ==
  /\ pc = "sync" /\ pc' = "trunc"
  /\ durable' = {manifest}
  /\ gen' = gen + 1
  /\ mutable' = NoDocs
  /\ exposed' = exposed \ Docs(mutable)
  /\ UNCHANGED <<schemaFile, log, logLinked, files, manifest,
                 sink, nextId, sealed, published,
                 adds, faults, acked, seen, promised, retGen>>

\* Translog::Truncate: the sink is closed and the file reopened with "wb".
Truncate ==
  /\ pc = "trunc" /\ pc' = "publish"
  /\ log' = <<>>
  /\ sink' = "open"
  /\ UNCHANGED <<schemaFile, logLinked, files, manifest, durable,
                 gen, nextId, sealed, mutable, published, history>>

\* The sink cannot be closed cleanly (it counts as closed all the same) or
\* the file cannot be reopened: Refresh returns the error.
TruncateFails ==
  /\ pc = "trunc" /\ pc' = "idle" /\ Fault
  /\ sink' \in {"closed", "null"}
  /\ UNCHANGED <<disk, gen, nextId, sealed, mutable, published,
                 adds, acked, exposed, seen, promised, retGen>>

\* The truncated log is fsynced, the reader published, Refresh returns Ok.
Publish ==
  /\ pc = "publish" /\ pc' = "idle"
  /\ published' = sealed
  /\ seen' = seen \cup DocsOfSegs(sealed)
  /\ promised' = DocsOfSegs(sealed)
  /\ retGen' = gen
  /\ UNCHANGED <<disk, sink, gen, nextId, sealed, mutable,
                 adds, faults, acked, exposed>>

\* That fsync fails: Refresh returns the error before it publishes.
PublishFails ==
  /\ pc = "publish" /\ pc' = "idle" /\ Fault
  /\ UNCHANGED <<disk, sink, gen, nextId, sealed, mutable, published,
                 adds, acked, exposed, seen, promised, retGen>>

\* Close drops the translog object; pending documents stay in the log.
Close ==
  /\ pc = "idle" /\ sink # "none"
  /\ sink' = "none"
  /\ UNCHANGED <<disk, pc, gen, nextId, sealed, mutable, published, history>>

-----------------------------------------------------------------------------
(* The outside world.                                                      *)

\* Everything in memory is gone.
Forget ==
  /\ pc' = "down" /\ sink' = "none" /\ gen' = 0 /\ nextId' = 0
  /\ sealed' = EmptySegs /\ mutable' = NoDocs /\ published' = EmptySegs

\* The process ends or dies between two steps: what it wrote is kept.
Crash ==
  /\ pc # "down" /\ Forget
  /\ UNCHANGED <<disk, history>>

\* It dies while Append is writing its record.
CrashInAppend(d) ==
  /\ MayAdd(d) /\ AppendRecord(d, FALSE) /\ Forget
  /\ UNCHANGED <<schemaFile, logLinked, files, manifest, durable,
                 faults, acked, seen, promised, retGen>>

\* The host loses power; fsync is honoured.  The manifest falls back to one
\* that may be on stable storage; a log whose directory entry was never
\* synced may vanish.
PowerLoss ==
  /\ pc # "schema" /\ Forget
  /\ manifest' \in durable /\ durable' = {manifest'}
  /\ seen' = promised
  /\ \/ UNCHANGED <<log, exposed>>
     \/ /\ ~logLinked
        /\ log' = <<>> /\ exposed' = exposed \cup LogDocs(log)
  /\ UNCHANGED <<schemaFile, logLinked, files,
                 adds, faults, acked, promised, retGen>>

-----------------------------------------------------------------------------
Step ==
  \/ CreateSchema \/ WriteSchema \/ Open \/ OpenUnreadableLog
  \/ \E d \in Doc : AddDocument(d) \/ AppendFails(d)
  \/ IndexDocument
  \/ RefreshNothing \/ RefreshSeal \/ SealSegment \/ SealFails
  \/ SaveManifest \/ SaveManifestFails \/ SyncManifest
  \/ Truncate \/ TruncateFails \/ Publish \/ PublishFails
  \/ Close

Next ==
  \/ Step \/ Crash \/ PowerLoss
  \/ \E d \in Doc : CrashInAppend(d)

Spec == Init /\ [][Next]_vars

-----------------------------------------------------------------------------
(* Properties.                                                             *)

PC == {"down", "schema", "idle", "index", "seal", "save", "sync", "trunc", "publish"}
Up == pc \notin {"down", "schema"}

DiskTypeOK ==
  /\ schemaFile \in {"none", "torn", "whole"}
  /\ log \in Seq(Record)
  /\ logLinked \in BOOLEAN
  /\ DOMAIN files \subseteq Stem /\ files \in [DOMAIN files -> SegFile]
  /\ manifest \in Manifest
  /\ durable \subseteq Manifest

MemoryTypeOK ==
  /\ pc \in PC
  /\ sink \in {"open", "closed", "null", "none"}
  /\ gen \in Nat /\ nextId \in Nat
  /\ DOMAIN sealed \subseteq Stem /\ sealed \in [DOMAIN sealed -> Bag]
  /\ mutable \in Bag
  /\ DOMAIN published \subseteq Stem /\ published \in [DOMAIN published -> Bag]

HistoryTypeOK ==
  /\ adds \in [Doc -> Nat] /\ faults \in Nat
  /\ acked \subseteq Doc /\ exposed \subseteq Doc
  /\ seen \subseteq Doc /\ promised \subseteq Doc
  /\ retGen \in Nat

\* The record being indexed and the stem being written exist.
StepTypeOK ==
  /\ pc = "index" => log # <<>>
  /\ pc = "seal" => nextId > 0

\* The variables have their types, and a step finds the record or the stem
\* that the step before it produced.
TypeOK == DiskTypeOK /\ MemoryTypeOK /\ HistoryTypeOK /\ StepTypeOK

\* Whatever crash or power loss happens, the manifest found afterwards names
\* only complete segments, so that BootstrapInitial can open all of them.
ManifestReadable == \A m \in durable : SegmentsOpen(m)

\* A manifest, the writer or the published reader uses the segment.
InUse(s) ==
  \/ \E m \in durable : s \in m.segs
  \/ s \in DOMAIN sealed \/ s \in DOMAIN published

\* A sealed segment is immutable: although stems are numbered from 0 again
\* after every restart and a failed Refresh leaves files behind, SealSegment
\* never writes to a stem in use (DESIGN.md, segment immutability, item 1).
SegmentsImmutable ==
  [][\A s \in {t \in DOMAIN files : InUse(t)} :
       s \in DOMAIN files' /\ files'[s] = files[s]]_vars

\* The in-memory segments searched are those a restart would load.
SealedMatchesDisk ==
  \A s \in DOMAIN sealed :
    s \in DOMAIN files /\ files[s] = [docs |-> sealed[s], whole |-> TRUE]

\* Memory and every manifest a restart may find name complete segments, those
\* in memory with the content they have there.
DiskComplete == ManifestReadable /\ SealedMatchesDisk

\* A document whose AddDocument returned Ok can be recovered after a crash
\* or power loss at any point: it is in every manifest that may be found, or
\* Replay reaches its log record.  (Excepted: records behind a torn one, and
\* what the code itself gave up, see "exposed".)
AckedDurable ==
  \A d \in acked \ exposed : \A m \in durable :
    \/ d \in DocsOfManifest(m)
    \/ \E i \in Readable(log) : log[i].doc = d

\* A document that a search could find stays findable, across failing
\* refreshes, crashes and restarts.
SeenStaysVisible ==
  /\ seen \subseteq DocsOfManifest(manifest)
  /\ Up => seen \subseteq DocsOfSegs(published)

\* What was visible when a Refresh that sealed a segment returned Ok also
\* survives every loss of power.
RefreshedDurable == \A m \in durable : promised \subseteq DocsOfManifest(m)

\* The generations such Refresh calls return increase, across crashes too.
GenerationsIncrease == [][Publish => retGen' > retGen]_vars

\* When Refresh returns Ok, every acked document is visible (the NRT
\* contract), also those recovered from the log and those of refreshes that
\* failed before.
RefreshShowsAcked ==
  [][RefreshNothing \/ Publish => acked \ exposed \subseteq DocsOfSegs(published')]_vars

-----------------------------------------------------------------------------
(* The index seen from outside.                                            *)

Phase == IF schemaFile # "whole" THEN "new" ELSE IF Up THEN "open" ELSE "shut"
Offered == {d \in Doc : adds[d] > 0}
Visible == IF Up THEN DocsOfSegs(published) ELSE DocsOfManifest(manifest)
Torn == Readable(log) # DOMAIN log

Nrt == INSTANCE NrtIndex WITH
  phase <- Phase, offered <- Offered, acked <- acked, visible <- Visible,
  kept <- promised, lost <- exposed, torn <- Torn, failures <- faults

\* Log, segments and manifest keep what NrtIndex promises: among others, a
\* Refresh that returns Ok shows every acked document, also those recovered
\* or left by refreshes that failed (the NRT contract); nothing visible
\* disappears and nothing refused comes back from the log; a schema file
\* torn by a crash costs no document.
NrtSpec == Nrt!Spec

-----------------------------------------------------------------------------
(* The inductive invariants behind these properties (IndexWriterProofs).   *)

\* The stem was taken before the one being written, by this process or by
\* one before it.
Taken(s) ==
  \/ s[1] <= gen
  \/ s[1] = gen + 1 /\ s[2] < (IF pc = "seal" THEN nextId - 1 ELSE nextId)

\* Manifests name stems of generations up to their own; a manifest on disk
\* is at most one generation ahead of the writer, which happens when the
\* directory sync of SaveManifest failed or is under way.
ManifestInv ==
  /\ manifest \in durable
  /\ \A m \in durable : m.gen <= manifest.gen /\ \A s \in m.segs : s[1] <= m.gen
  /\ Up => manifest.gen <= gen + 1
  /\ pc = "sync" => manifest = [gen |-> gen + 1, segs |-> DOMAIN sealed]
  /\ pc \in {"trunc", "publish"} =>
       durable = {manifest} /\ manifest = [gen |-> gen, segs |-> DOMAIN sealed]

\* The published reader is a prefix of the list of sealed segments.
ReaderInv ==
  /\ \A s \in DOMAIN published : s \in DOMAIN sealed /\ published[s] = sealed[s]
  /\ ~Up => DOMAIN sealed = {}

\* Every stem in use is taken and its files are complete.
StemInv ==
  /\ ManifestInv /\ ReaderInv /\ ManifestReadable /\ SealedMatchesDisk
  /\ Up => /\ \A m \in durable : \A s \in m.segs : Taken(s)
           /\ \A s \in DOMAIN sealed : Taken(s)

\* The last generation returned is on stable storage.
GenInv ==
  /\ \A m \in durable : retGen <= m.gen
  /\ Up => retGen <= gen
  /\ pc \in {"trunc", "publish"} => retGen < gen

\* Where the acked documents are in memory while Refresh moves them.
PendingInv ==
  /\ acked \cap Rejected = {}
  /\ Up => acked \ exposed \subseteq Docs(mutable) \cup DocsOfSegs(sealed)
  /\ pc = "index" => \/ Len(log) \in Readable(log)
                     \/ log[Len(log)].doc \in exposed
  /\ pc \in {"seal", "save", "sync"} => mutable # NoDocs
  /\ pc \in {"save", "sync"} => Docs(mutable) \subseteq DocsOfSegs(sealed)
  /\ pc \in {"trunc", "publish"} => mutable = NoDocs
  /\ Up /\ mutable = NoDocs => DOMAIN sealed \subseteq manifest.segs

\* No acked or seen document is lost.
DurableInv ==
  /\ PendingInv /\ AckedDurable /\ SeenStaysVisible /\ RefreshedDurable
  /\ promised \subseteq seen

\* Where a document is found, it was offered, and not refused; the reader
\* shows what was seen, no more; a segment is sealed only after the entry of
\* the log is on stable storage; a writer runs only with a whole schema.
OriginInv ==
  /\ LogDocs(log) \subseteq Offered
  /\ Docs(mutable) \cup DocsOfSegs(sealed) \subseteq Nrt!Findable
  /\ \A m \in durable : DocsOfManifest(m) \subseteq Nrt!Findable
  /\ Up => DocsOfSegs(published) \subseteq seen
  /\ promised # {} \/ pc \in {"save", "sync", "trunc", "publish"} => logLinked
  /\ Up => schemaFile = "whole"
  /\ pc = "schema" => schemaFile = "torn"
=============================================================================
