------------------------- MODULE IndexWriterProofs -------------------------
(***************************************************************************)
(* Theorems about IndexWriter for every set of documents and every bound.  *)
(***************************************************************************)
EXTENDS IndexWriter, FiniteSetTheorems, TLAPS

-----------------------------------------------------------------------------
(* Lemmas about the data.                                                  *)

\* The empty segment content is a segment content.
LEMMA NoDocsIsBag == NoDocs \in Bag
BY DEF NoDocs, Bag

\* Replaying any set of log positions gives a segment content.
LEMMA ReplayedIsBag ==
  ASSUME NEW l \in Seq(Record), NEW S \in SUBSET DOMAIN l
  PROVE  Replayed(l, S) \in Bag
<1> DEFINE P(e) == {i \in S : l[i].doc \notin Rejected /\ DocFromJson(l[i].doc) = e}
<1>1. IsFiniteSet(DOMAIN l)
  BY FS_Interval
<1>2. ASSUME NEW e \in Entry PROVE Cardinality(P(e)) \in Nat
  <2>1. P(e) \subseteq DOMAIN l
    OBVIOUS
  <2>2. IsFiniteSet(P(e))
    BY <1>1, <2>1, FS_Subset
  <2>3. QED BY <2>2, FS_CardinalityType
<1>3. QED BY <1>2 DEF Replayed, Bag

\* Adding a file to a directory, or a segment to a list, keeps its type.
LEMMA PutType ==
  ASSUME NEW f, NEW s, NEW v, NEW K, NEW V,
         DOMAIN f \subseteq K, f \in [DOMAIN f -> V], s \in K, v \in V
  PROVE  /\ DOMAIN Put(f, s, v) = DOMAIN f \cup {s}
         /\ DOMAIN Put(f, s, v) \subseteq K
         /\ Put(f, s, v) \in [DOMAIN Put(f, s, v) -> V]
BY DEF Put

-----------------------------------------------------------------------------
(* Type correctness.                                                       *)

\* Every initial state is well typed.
LEMMA InitTypeOK == Init => TypeOK
<1> SUFFICES ASSUME Init PROVE TypeOK
  OBVIOUS
<1>1. DiskTypeOK
  <2>1. log \in Seq(Record)
    BY DEF Init
  <2>2. DOMAIN files \subseteq Stem /\ files \in [DOMAIN files -> SegFile]
    BY DEF Init
  <2>3. manifest \in Manifest /\ durable \subseteq Manifest
    BY DEF Init, Manifest
  <2>4. QED BY <2>1, <2>2, <2>3 DEF Init, DiskTypeOK
<1>2. MemoryTypeOK
  BY NoDocsIsBag DEF Init, MemoryTypeOK, EmptySegs, PC
<1>3. HistoryTypeOK
  BY DEF Init, HistoryTypeOK
<1>4. QED BY <1>1, <1>2, <1>3 DEF Init, TypeOK, StepTypeOK

\* Open leaves a well-typed state.
LEMMA BootstrapType ==
  ASSUME TypeOK, NEW S \in SUBSET DOMAIN log, Bootstrap(S),
         faults' \in Nat, exposed' \subseteq Doc
  PROVE  TypeOK'
<1>1. mutable' \in Bag
  BY ReplayedIsBag DEF Bootstrap, TypeOK, DiskTypeOK
<1>2. /\ DOMAIN sealed' \subseteq Stem /\ sealed' \in [DOMAIN sealed' -> Bag]
      /\ published' = sealed'
  BY DEF Bootstrap, TypeOK, DiskTypeOK, SegmentsOpen, SegFile, Manifest
<1>3. DiskTypeOK'
  BY DEF Bootstrap, TypeOK, DiskTypeOK, disk
<1>4. MemoryTypeOK'
  BY <1>1, <1>2 DEF Bootstrap, TypeOK, DiskTypeOK, MemoryTypeOK, Manifest, PC
<1>5. HistoryTypeOK'
  BY DEF Bootstrap, TypeOK, HistoryTypeOK, DocsOfSegs, Docs
<1>6. QED BY <1>3, <1>4, <1>5 DEF Bootstrap, TypeOK, StepTypeOK

\* The documents of a log are documents.
LEMMA LogDocsType ==
  ASSUME log \in Seq(Record)
  PROVE  LogDocs(log) \subseteq Doc
<1>1. \A i \in DOMAIN log : log[i] \in Record
  OBVIOUS
<1>2. \A i \in DOMAIN log : log[i].doc \in Doc
  BY <1>1 DEF Record
<1>3. QED BY <1>2 DEF LogDocs

\* Appending a record keeps the types of the log and of the history.
LEMMA AppendRecordType ==
  ASSUME TypeOK, NEW d \in Doc, NEW w \in BOOLEAN, AppendRecord(d, w)
  PROVE  log' \in Seq(Record) /\ exposed' \subseteq Doc
BY DEF AppendRecord, TypeOK, DiskTypeOK, HistoryTypeOK, Record

\* The state of a process that is not running is well typed.
LEMMA ForgetType == Forget => MemoryTypeOK'
BY NoDocsIsBag DEF Forget, MemoryTypeOK, PC, EmptySegs

\* Writing a segment file keeps the type of the directory.
LEMMA PutFileType ==
  ASSUME TypeOK, NEW s \in Stem, NEW b \in Bag, NEW w \in BOOLEAN,
         files' = Put(files, s, [docs |-> b, whole |-> w])
  PROVE  DOMAIN files' \subseteq Stem /\ files' \in [DOMAIN files' -> SegFile]
<1>1. [docs |-> b, whole |-> w] \in SegFile
  BY DEF SegFile
<1>2. DOMAIN files \subseteq Stem /\ files \in [DOMAIN files -> SegFile]
  BY DEF TypeOK, DiskTypeOK
<1> DEFINE v == [docs |-> b, whole |-> w]
<1>3. v \in SegFile /\ files' = Put(files, s, v)
  BY <1>1
<1> HIDE DEF v
<1>4. QED BY <1>2, <1>3 DEF Put

\* The stem being sealed is a stem.
LEMMA NewStemType ==
  ASSUME TypeOK, pc = "seal"
  PROVE  NewStem \in Stem
BY DEF TypeOK, MemoryTypeOK, StepTypeOK, NewStem, SegmentStem, Stem

\* Every step of the specification keeps the state well typed.
LEMMA NextTypeOK == TypeOK /\ [Next]_vars => TypeOK'
<1> SUFFICES ASSUME TypeOK, [Next]_vars PROVE TypeOK'
  OBVIOUS
<1> USE DEF TypeOK, DiskTypeOK, MemoryTypeOK, HistoryTypeOK, StepTypeOK
<1>1. CASE CreateSchema
  BY <1>1 DEF CreateSchema, PC, history
<1>2. CASE WriteSchema
  BY <1>2 DEF WriteSchema, PC, history
<1>3. CASE Open
  <2>1. PICK S \in Replays(log) : Bootstrap(S) /\ UNCHANGED <<faults, exposed>>
    BY <1>3 DEF Open
  <2>2. S \in SUBSET DOMAIN log
    BY DEF Replays, WholeAt
  <2>3. QED BY <2>1, <2>2, BootstrapType
<1>4. CASE OpenUnreadableLog
  <2>1. Bootstrap({}) /\ faults' = faults + 1 /\ exposed' = exposed \cup LogDocs(log)
    BY <1>4 DEF OpenUnreadableLog, Fault
  <2>2. QED BY <2>1, BootstrapType, LogDocsType
<1>5. ASSUME NEW d \in Doc, AddDocument(d) PROVE TypeOK'
  <2>1. log' \in Seq(Record) /\ exposed' \subseteq Doc
    BY <1>5, AppendRecordType DEF AddDocument
  <2>2. adds' \in [Doc -> Nat]
    BY <1>5 DEF AddDocument, MayAdd
  <2>3. log' # <<>>
    BY <1>5 DEF AddDocument, AppendRecord
  <2>4. QED BY <1>5, <2>1, <2>2, <2>3 DEF AddDocument, PC
<1>6. ASSUME NEW d \in Doc, AppendFails(d) PROVE TypeOK'
  <2>1. log' \in Seq(Record) /\ exposed' \subseteq Doc
    BY <1>6, AppendRecordType DEF AppendFails
  <2>2. adds' \in [Doc -> Nat] /\ faults' \in Nat
    BY <1>6 DEF AppendFails, MayAdd, Fault
  <2>3. QED BY <1>6, <2>1, <2>2 DEF AppendFails, MayAdd, memory
<1>7. CASE IndexDocument
  <2> DEFINE d == log[Len(log)].doc
  <2>1. log[Len(log)] \in Record
    BY <1>7 DEF IndexDocument
  <2>2. d \in Doc /\ <<d, "full">> \in Entry
    BY <2>1 DEF Record, Entry, Form
  <2>3. [mutable EXCEPT ![<<d, "full">>] = @ + 1] \in Bag
    BY <2>2 DEF Bag
  <2>4. mutable' \in Bag /\ acked' \subseteq Doc
    BY <1>7, <2>2, <2>3 DEF IndexDocument
  <2>5. QED BY <1>7, <2>4 DEF IndexDocument, PC, disk
<1>8. CASE RefreshNothing
  BY <1>8 DEF RefreshNothing, DocsOfSegs, Docs, disk
<1>9. CASE RefreshSeal
  <2>1. SegmentStem(nextId) \in Stem
    BY DEF SegmentStem, Stem
  <2>2. DOMAIN files' \subseteq Stem /\ files' \in [DOMAIN files' -> SegFile]
    BY <1>9, <2>1, NoDocsIsBag, PutFileType DEF RefreshSeal
  <2>3. pc' = "seal" /\ nextId' \in Nat /\ nextId' > 0
    BY <1>9 DEF RefreshSeal
  <2>4. DiskTypeOK'
    BY <1>9, <2>2 DEF RefreshSeal
  <2>5. QED BY <1>9, <2>3, <2>4 DEF RefreshSeal, PC, history
<1>10. CASE SealSegment
  <2>1. DOMAIN files' \subseteq Stem /\ files' \in [DOMAIN files' -> SegFile]
    BY <1>10, NewStemType, PutFileType DEF SealSegment
  <2>2. DOMAIN sealed' \subseteq Stem /\ sealed' \in [DOMAIN sealed' -> Bag]
    BY <1>10, NewStemType, PutType DEF SealSegment
  <2>3. QED BY <1>10, <2>1, <2>2 DEF SealSegment, PC, history
<1>11. CASE SealFails
  <2>1. DOMAIN files' \subseteq Stem /\ files' \in [DOMAIN files' -> SegFile]
    BY <1>11, NewStemType, PutFileType DEF SealFails
  <2>2. QED BY <1>11, <2>1 DEF SealFails, Fault, PC
<1>12. CASE SaveManifest
  <2>1. manifest' \in Manifest /\ durable' \subseteq Manifest
    BY <1>12 DEF SaveManifest, Manifest
  <2>2. QED BY <1>12, <2>1 DEF SaveManifest, PC, history
<1>13. CASE SaveManifestFails
  BY <1>13 DEF SaveManifestFails, Fault, PC, disk
<1>14. CASE SyncManifest
  BY <1>14, NoDocsIsBag DEF SyncManifest, PC
<1>15. CASE Truncate
  BY <1>15 DEF Truncate, PC, history
<1>16. CASE TruncateFails
  BY <1>16 DEF TruncateFails, Fault, PC, disk
<1>17. CASE Publish
  BY <1>17 DEF Publish, PC, disk, DocsOfSegs, Docs
<1>18. CASE PublishFails
  BY <1>18 DEF PublishFails, Fault, PC, disk
<1>19. CASE Close
  BY <1>19 DEF Close, disk, history
<1>20. CASE Crash
  <2>1. MemoryTypeOK' /\ pc' = "down"
    BY <1>20, ForgetType DEF Crash, Forget
  <2>2. QED BY <1>20, <2>1 DEF Crash, disk, history
<1>21. CASE PowerLoss
  <2>1. MemoryTypeOK' /\ pc' = "down"
    BY <1>21, ForgetType DEF PowerLoss, Forget
  <2>2. log' \in Seq(Record) /\ exposed' \subseteq Doc
    <3>1. CASE UNCHANGED <<log, exposed>>
      BY <3>1
    <3>2. CASE log' = <<>> /\ exposed' = exposed \cup LogDocs(log)
      BY <3>2, LogDocsType
    <3>3. QED BY <1>21, <3>1, <3>2 DEF PowerLoss
  <2>3. QED BY <1>21, <2>1, <2>2 DEF PowerLoss
<1>22. ASSUME NEW d \in Doc, CrashInAppend(d) PROVE TypeOK'
  <2>1. log' \in Seq(Record) /\ exposed' \subseteq Doc
    BY <1>22, AppendRecordType DEF CrashInAppend
  <2>2. adds' \in [Doc -> Nat]
    BY <1>22 DEF CrashInAppend, MayAdd
  <2>3. MemoryTypeOK' /\ pc' = "down"
    BY <1>22, ForgetType DEF CrashInAppend, Forget
  <2>4. QED BY <1>22, <2>1, <2>2, <2>3 DEF CrashInAppend
<1>23. CASE UNCHANGED vars
  BY <1>23 DEF vars, disk, memory, history
<1>24. QED
  BY <1>1, <1>2, <1>3, <1>4, <1>5, <1>6, <1>7, <1>8, <1>9, <1>10, <1>11, <1>12, <1>13, <1>14, <1>15, <1>16, <1>17, <1>18, <1>19, <1>20, <1>21, <1>22, <1>23 DEF Next, Step

\* Type correctness: the variables of the index writer keep their types and
\* the record being indexed and the stem being written always exist.
THEOREM TypeCorrect == Spec => []TypeOK
<1>1. Init => TypeOK
  BY InitTypeOK
<1>2. TypeOK /\ [Next]_vars => TypeOK'
  BY NextTypeOK
<1>3. QED BY <1>1, <1>2, PTL DEF Spec

-----------------------------------------------------------------------------
(* Stems.                                                                  *)

\* Writing the files of a stem that was not taken leaves the segments in use
\* as they are.
LEMMA PutKeepsInUse ==
  ASSUME StemInv, Up, NEW s, ~Taken(s), NEW v, files' = Put(files, s, v)
  PROVE  \A t \in DOMAIN files : InUse(t) => t \in DOMAIN files' /\ files'[t] = files[t]
BY DEF StemInv, ReaderInv, InUse, Put

\* The stem a Refresh is about to take, or is writing, is not taken.
LEMMA NewStemNotTaken ==
  ASSUME TypeOK, Up
  PROVE  /\ pc # "seal" => ~Taken(SegmentStem(nextId))
         /\ pc = "seal" => ~Taken(NewStem)
BY DEF TypeOK, MemoryTypeOK, StepTypeOK, Taken, SegmentStem, NewStem

\* The part of the invariant about files follows when the files of the
\* segments in use are kept and no other stem comes into use.
LEMMA InUseKept ==
  ASSUME StemInv,
         \A t \in DOMAIN files : InUse(t) => t \in DOMAIN files' /\ files'[t] = files[t],
         durable' \subseteq durable,
         \A s \in DOMAIN sealed' : s \in DOMAIN sealed /\ sealed'[s] = sealed[s]
  PROVE  ManifestReadable' /\ SealedMatchesDisk'
<1>1. ManifestReadable'
  BY DEF StemInv, ManifestReadable, SegmentsOpen, InUse
<1>2. ASSUME NEW s \in DOMAIN sealed'
      PROVE  s \in DOMAIN files' /\ files'[s] = [docs |-> sealed'[s], whole |-> TRUE]
  <2>1. s \in DOMAIN sealed /\ sealed'[s] = sealed[s]
    OBVIOUS
  <2>2. s \in DOMAIN files /\ files[s] = [docs |-> sealed[s], whole |-> TRUE]
    BY <2>1 DEF StemInv, SealedMatchesDisk
  <2>3. InUse(s)
    BY <2>1 DEF InUse
  <2>4. QED BY <2>1, <2>2, <2>3
<1>3. QED BY <1>1, <1>2 DEF SealedMatchesDisk

\* Initially nothing is in use.
LEMMA InitStemInv == Init => StemInv
BY DEF Init, StemInv, ManifestInv, ReaderInv, ManifestReadable, SegmentsOpen,
       SealedMatchesDisk, EmptySegs, Up

\* A process that is not running uses what the manifests on disk name.
LEMMA ForgetStemInv ==
  ASSUME TypeOK, StemInv, Forget, UNCHANGED files,
         \/ UNCHANGED <<manifest, durable>>
         \/ manifest' \in durable /\ durable' = {manifest'}
  PROVE  StemInv'
<1>1. ~Up' /\ pc' = "down" /\ DOMAIN sealed' = {} /\ DOMAIN published' = {}
  BY DEF Forget, Up, EmptySegs
<1>2. durable' \subseteq durable
  OBVIOUS
<1>3. ManifestReadable' /\ SealedMatchesDisk'
  BY <1>1, <1>2, InUseKept
<1>4. ManifestInv'
  BY <1>1 DEF StemInv, ManifestInv, TypeOK, DiskTypeOK, Manifest
<1>5. ReaderInv'
  BY <1>1 DEF ReaderInv
<1>6. QED BY <1>1, <1>3, <1>4, <1>5 DEF StemInv

\* Open takes over the stems of the manifest; all are of generations up to
\* the one the writer starts from.
LEMMA BootstrapStemInv ==
  ASSUME TypeOK, StemInv, NEW S, Bootstrap(S)
  PROVE  StemInv'
<1>1. /\ Up' /\ pc' = "idle" /\ gen' = manifest.gen
      /\ DOMAIN sealed' = manifest.segs /\ published' = sealed'
      /\ UNCHANGED <<files, manifest, durable>>
  BY DEF Bootstrap, Up, disk
<1>2. ManifestInv'
  BY <1>1 DEF StemInv, ManifestInv, TypeOK, DiskTypeOK, Manifest
<1>3. ReaderInv'
  BY <1>1 DEF ReaderInv
<1>4. ManifestReadable'
  BY <1>1 DEF StemInv, ManifestReadable, SegmentsOpen
<1>5. SealedMatchesDisk'
  BY <1>1 DEF Bootstrap, SealedMatchesDisk, SegmentsOpen, TypeOK, DiskTypeOK, SegFile
<1>6. \A m \in durable' : \A s \in m.segs : Taken(s)'
  BY <1>1 DEF StemInv, ManifestInv, TypeOK, DiskTypeOK, Manifest, Stem, Taken
<1>7. \A s \in DOMAIN sealed' : Taken(s)'
  BY <1>1, <1>6 DEF StemInv, ManifestInv
<1>8. QED BY <1>2, <1>3, <1>4, <1>5, <1>6, <1>7 DEF StemInv

\* Nothing the invariant on stems speaks of changes, other than the step
\* the writer is at.
StemVars == <<files, manifest, durable, gen, nextId, sealed, published>>

\* Steps that touch neither stems nor manifests keep the invariant.
LEMMA QuietStemInv ==
  ASSUME StemInv, UNCHANGED StemVars, Up' <=> Up,
         pc' = "seal" <=> pc = "seal",
         pc' \notin {"sync", "trunc", "publish"} \/ pc' = pc \/ (pc = "trunc" /\ pc' = "publish")
  PROVE  StemInv'
BY DEF StemVars, StemInv, ManifestInv, ReaderInv, ManifestReadable, SealedMatchesDisk, SegmentsOpen, Taken, Up

\* Every step keeps the invariant on stems.
LEMMA NextStemInv == TypeOK /\ StemInv /\ [Next]_vars => StemInv'
<1> SUFFICES ASSUME TypeOK, StemInv, [Next]_vars PROVE StemInv'
  OBVIOUS
<1>1. CASE CreateSchema
  BY <1>1, QuietStemInv DEF CreateSchema, StemVars, Up
<1>2. CASE WriteSchema
  BY <1>2, QuietStemInv DEF WriteSchema, StemVars, Up
<1>3. CASE Open
  BY <1>3, BootstrapStemInv DEF Open
<1>4. CASE OpenUnreadableLog
  BY <1>4, BootstrapStemInv DEF OpenUnreadableLog
<1>5. ASSUME NEW d \in Doc, AddDocument(d) PROVE StemInv'
  BY <1>5, QuietStemInv DEF AddDocument, StemVars, Up, MayAdd
<1>6. ASSUME NEW d \in Doc, AppendFails(d) PROVE StemInv'
  BY <1>6, QuietStemInv DEF AppendFails, StemVars, Up, MayAdd, memory
<1>7. CASE IndexDocument
  BY <1>7, QuietStemInv DEF IndexDocument, StemVars, Up, disk
<1>8. CASE RefreshNothing
  <2>1. UNCHANGED <<files, manifest, durable, pc, gen, nextId, sealed>> /\ published' = sealed
    BY <1>8 DEF RefreshNothing, disk
  <2>2. QED BY <2>1 DEF StemInv, ManifestInv, ReaderInv, ManifestReadable, SealedMatchesDisk, SegmentsOpen, Taken, Up
<1>9. CASE RefreshSeal
  <2>1. /\ pc = "idle" /\ pc' = "seal" /\ nextId' = nextId + 1
        /\ UNCHANGED <<manifest, durable, gen, sealed, published>>
    BY <1>9 DEF RefreshSeal, MayRefresh
  <2>2. ManifestReadable' /\ SealedMatchesDisk'
    BY <1>9, <2>1, NewStemNotTaken, PutKeepsInUse, InUseKept DEF RefreshSeal, Up
  <2>3. ManifestInv' /\ ReaderInv'
    BY <2>1 DEF StemInv, ManifestInv, ReaderInv, Up
  <2>4. \A s : Taken(s) => Taken(s)'
    BY <2>1 DEF Taken, TypeOK, MemoryTypeOK
  <2>5. QED BY <2>1, <2>2, <2>3, <2>4 DEF StemInv, Up
<1>10. CASE SealSegment
  <2>1. /\ pc = "seal" /\ pc' = "save"
        /\ UNCHANGED <<manifest, durable, gen, nextId, mutable, published>>
    BY <1>10 DEF SealSegment
  <2>2. ~Taken(NewStem)
    BY <2>1, NewStemNotTaken DEF Up
  <2>3. \A t \in DOMAIN files : InUse(t) => t \in DOMAIN files' /\ files'[t] = files[t]
    BY <1>10, <2>1, <2>2, PutKeepsInUse DEF SealSegment, Up
  <2>4. ManifestReadable'
    BY <2>1, <2>3 DEF StemInv, ManifestReadable, SegmentsOpen, InUse
  <2>5. /\ DOMAIN sealed' = DOMAIN sealed \cup {NewStem}
        /\ sealed'[NewStem] = mutable
        /\ \A s \in DOMAIN sealed : sealed'[s] = sealed[s]
    BY <1>10, <2>1, <2>2 DEF SealSegment, Put, StemInv, Up
  <2>6. NewStem \in DOMAIN files' /\ files'[NewStem] = [docs |-> mutable, whole |-> TRUE]
    BY <1>10 DEF SealSegment, Put
  <2>7. SealedMatchesDisk'
    <3> SUFFICES ASSUME NEW s \in DOMAIN sealed'
                 PROVE  s \in DOMAIN files' /\ files'[s] = [docs |-> sealed'[s], whole |-> TRUE]
      BY DEF SealedMatchesDisk
    <3>1. CASE s = NewStem
      BY <3>1, <2>5, <2>6
    <3>2. CASE s # NewStem
      BY <3>2, <2>3, <2>5 DEF StemInv, SealedMatchesDisk, InUse
    <3>3. QED BY <3>1, <3>2
  <2>8. ManifestInv' /\ ReaderInv'
    BY <2>1, <2>5 DEF StemInv, ManifestInv, ReaderInv, Up
  <2>9. \A s \in Stem : Taken(s) => Taken(s)'
    BY <2>1 DEF Taken, TypeOK, MemoryTypeOK, Stem
  <2>10. \A s : s = NewStem => Taken(s)'
    BY <2>1 DEF Taken, NewStem, SegmentStem, TypeOK, MemoryTypeOK, StepTypeOK
  <2>11. \A m \in durable' : \A s \in m.segs : Taken(s)'
    BY <2>1, <2>9 DEF StemInv, Up, TypeOK, DiskTypeOK, Manifest
  <2>12. \A s \in DOMAIN sealed' : Taken(s)'
    <3>1. \A s \in DOMAIN sealed : s \in Stem /\ Taken(s)
      BY <2>1 DEF StemInv, Up, TypeOK, MemoryTypeOK
    <3>2. QED BY <2>5, <2>9, <2>10, <3>1
  <2>13. QED BY <2>4, <2>7, <2>8, <2>11, <2>12 DEF StemInv
<1>11. CASE SealFails
  <2>1. /\ pc = "seal" /\ pc' = "idle"
        /\ UNCHANGED <<manifest, durable, gen, nextId, sealed, published>>
    BY <1>11 DEF SealFails
  <2>2. \A t \in DOMAIN files : InUse(t) => t \in DOMAIN files' /\ files'[t] = files[t]
    BY <1>11, <2>1, NewStemNotTaken, PutKeepsInUse DEF SealFails, Up
  <2>3. ManifestReadable' /\ SealedMatchesDisk'
    BY <2>1, <2>2, InUseKept
  <2>4. ManifestInv' /\ ReaderInv'
    BY <2>1 DEF StemInv, ManifestInv, ReaderInv, Up
  <2>5. \A s \in Stem : Taken(s) => Taken(s)'
    BY <2>1 DEF Taken, TypeOK, MemoryTypeOK, Stem
  <2>6. \A m \in durable' : \A s \in m.segs : Taken(s)'
    BY <2>1, <2>5 DEF StemInv, Up, TypeOK, DiskTypeOK, Manifest
  <2>7. \A s \in DOMAIN sealed' : Taken(s)'
    BY <2>1, <2>5 DEF StemInv, Up, TypeOK, MemoryTypeOK
  <2>8. QED BY <2>3, <2>4, <2>6, <2>7 DEF StemInv
<1>12. CASE SaveManifest
  <2>1. /\ pc = "save" /\ pc' = "sync"
        /\ manifest' = [gen |-> gen + 1, segs |-> DOMAIN sealed]
        /\ durable' = durable \cup {manifest'}
        /\ UNCHANGED <<files, gen, nextId, sealed, published>>
    BY <1>12 DEF SaveManifest
  <2>2. \A s : Taken(s)' <=> Taken(s)
    BY <2>1 DEF Taken
  <2>3. \A s \in DOMAIN sealed : s[1] <= gen + 1
    BY <2>1 DEF StemInv, Taken, TypeOK, MemoryTypeOK, Stem, Up
  <2>4. ManifestInv'
    BY <2>1, <2>3 DEF StemInv, ManifestInv, Up, TypeOK, DiskTypeOK, MemoryTypeOK, Manifest
  <2>5. SealedMatchesDisk' /\ ReaderInv'
    BY <2>1 DEF StemInv, SealedMatchesDisk, ReaderInv, Up
  <2>6. SegmentsOpen(manifest')
    <3>1. ASSUME NEW s \in DOMAIN sealed PROVE s \in DOMAIN files /\ files[s].whole
      <4>1. s \in DOMAIN files /\ files[s] = [docs |-> sealed[s], whole |-> TRUE]
        BY DEF StemInv, SealedMatchesDisk
      <4>2. files[s].whole = TRUE
        BY <4>1
      <4>3. QED BY <4>1, <4>2
    <3>2. manifest'.segs = DOMAIN sealed
      BY <2>1
    <3>3. QED BY <3>1, <3>2 DEF SegmentsOpen
  <2>7. ManifestReadable'
    BY <2>1, <2>6 DEF StemInv, ManifestReadable, SegmentsOpen
  <2>8. QED BY <2>1, <2>2, <2>4, <2>5, <2>7 DEF StemInv, Up
<1>13. CASE SaveManifestFails
  BY <1>13, QuietStemInv DEF SaveManifestFails, StemVars, Up, disk
<1>14. CASE SyncManifest
  <2>1. /\ pc = "sync" /\ pc' = "trunc" /\ gen' = gen + 1 /\ durable' = {manifest}
        /\ UNCHANGED <<files, manifest, nextId, sealed, published>>
    BY <1>14 DEF SyncManifest
  <2>2. manifest \in durable /\ manifest = [gen |-> gen + 1, segs |-> DOMAIN sealed]
    BY <2>1 DEF StemInv, ManifestInv
  <2>3. ManifestInv'
    BY <2>1, <2>2 DEF StemInv, ManifestInv, Up, TypeOK, DiskTypeOK, MemoryTypeOK, Manifest
  <2>4. ManifestReadable' /\ SealedMatchesDisk' /\ ReaderInv'
    BY <2>1, <2>2 DEF StemInv, ManifestReadable, SegmentsOpen, SealedMatchesDisk, ReaderInv, Up
  <2>5. \A s \in DOMAIN sealed : s[1] <= gen + 1
    BY <2>1 DEF StemInv, Taken, TypeOK, MemoryTypeOK, Stem, Up
  <2>6. QED BY <2>1, <2>2, <2>3, <2>4, <2>5 DEF StemInv, Taken
<1>15. CASE Truncate
  BY <1>15, QuietStemInv DEF Truncate, StemVars, Up
<1>16. CASE TruncateFails
  BY <1>16, QuietStemInv DEF TruncateFails, StemVars, Up, disk
<1>17. CASE Publish
  <2>1. /\ UNCHANGED <<files, manifest, durable, gen, nextId, sealed>> /\ published' = sealed
        /\ pc = "publish" /\ pc' = "idle"
    BY <1>17 DEF Publish, disk
  <2>2. QED BY <2>1 DEF StemInv, ManifestInv, ReaderInv, ManifestReadable, SealedMatchesDisk, SegmentsOpen, Taken, Up
<1>18. CASE PublishFails
  BY <1>18, QuietStemInv DEF PublishFails, StemVars, Up, disk
<1>19. CASE Close
  BY <1>19, QuietStemInv DEF Close, StemVars, Up, disk
<1>20. CASE Crash
  BY <1>20, ForgetStemInv DEF Crash, disk
<1>21. CASE PowerLoss
  BY <1>21, ForgetStemInv DEF PowerLoss
<1>22. ASSUME NEW d \in Doc, CrashInAppend(d) PROVE StemInv'
  BY <1>22, ForgetStemInv DEF CrashInAppend
<1>23. CASE UNCHANGED vars
  BY <1>23, QuietStemInv DEF vars, disk, memory, StemVars, Up
<1>24. QED
  BY <1>1, <1>2, <1>3, <1>4, <1>5, <1>6, <1>7, <1>8, <1>9, <1>10, <1>11, <1>12, <1>13, <1>14, <1>15, <1>16, <1>17, <1>18, <1>19, <1>20, <1>21, <1>22, <1>23 DEF Next, Step

\* The stems in use are taken, complete and match memory in every state.
THEOREM StemsInvariant == Spec => []StemInv
<1>1. Init => StemInv
  BY InitStemInv
<1>2. TypeOK /\ StemInv /\ [Next]_vars => StemInv'
  BY NextStemInv
<1>3. QED BY <1>1, <1>2, TypeCorrect, PTL DEF Spec

\* A restart, after any crash or power loss, opens every segment its manifest
\* names, and the segments searched in memory are those on disk.
THEOREM DiskAlwaysComplete == Spec => []DiskComplete
<1>1. StemInv => DiskComplete
  BY DEF StemInv, DiskComplete
<1>2. QED BY <1>1, StemsInvariant, PTL

\* A step leaves the files of the segments in use as they are.
LEMMA StepKeepsInUse ==
  ASSUME TypeOK, StemInv, [Next]_vars
  PROVE  \A t \in DOMAIN files : InUse(t) => t \in DOMAIN files' /\ files'[t] = files[t]
<1>1. CASE RefreshSeal
  <2>1. Up /\ ~Taken(SegmentStem(nextId))
    BY <1>1, NewStemNotTaken DEF RefreshSeal, MayRefresh, Up
  <2>2. QED BY <1>1, <2>1, PutKeepsInUse DEF RefreshSeal
<1>2. CASE SealSegment
  <2>1. Up /\ ~Taken(NewStem)
    BY <1>2, NewStemNotTaken DEF SealSegment, Up
  <2>2. QED BY <1>2, <2>1, PutKeepsInUse DEF SealSegment
<1>3. CASE SealFails
  <2>1. Up /\ ~Taken(NewStem)
    BY <1>3, NewStemNotTaken DEF SealFails, Up
  <2>2. QED BY <1>3, <2>1, PutKeepsInUse DEF SealFails
<1>4. CASE ~(RefreshSeal \/ SealSegment \/ SealFails)
  <2>1. UNCHANGED files
    BY <1>4 DEF Next, Step, vars, disk, CreateSchema, WriteSchema, Open, OpenUnreadableLog,
         Bootstrap, AddDocument, AppendFails, IndexDocument, RefreshNothing,
         SaveManifest, SaveManifestFails, SyncManifest, Truncate, TruncateFails,
         Publish, PublishFails, Close, Crash, PowerLoss, CrashInAppend
  <2>2. QED BY <2>1
<1>5. QED BY <1>1, <1>2, <1>3, <1>4

\* No step writes to the files of a segment in use: a sealed segment is
\* immutable although local ids restart from 0 in every process and failed
\* refreshes leave files behind.
THEOREM SealedSegmentsImmutable == Spec => SegmentsImmutable
<1>1. TypeOK /\ StemInv /\ [Next]_vars =>
        [\A s \in {t \in DOMAIN files : InUse(t)} :
           s \in DOMAIN files' /\ files'[s] = files[s]]_vars
  BY StepKeepsInUse
<1>2. QED BY <1>1, TypeCorrect, StemsInvariant, PTL DEF Spec, SegmentsImmutable

-----------------------------------------------------------------------------
(* Generations.                                                            *)

\* Steps that neither publish nor move the manifest keep the invariant.
LEMMA QuietGenInv ==
  ASSUME GenInv, UNCHANGED <<retGen, durable, gen>>, Up' => Up,
         pc' \in {"trunc", "publish"} => pc \in {"trunc", "publish"}
  PROVE  GenInv'
BY DEF GenInv

\* So does the end of the process, whatever manifest is left.
LEMMA ForgetGenInv ==
  ASSUME GenInv, Forget, retGen' = retGen, durable' \subseteq durable
  PROVE  GenInv'
BY DEF GenInv, Forget, Up

\* Every step keeps the invariant on generations.
LEMMA NextGenInv == TypeOK /\ StemInv /\ GenInv /\ [Next]_vars => GenInv'
<1> SUFFICES ASSUME TypeOK, StemInv, GenInv, [Next]_vars PROVE GenInv'
  OBVIOUS
<1>0. ASSUME NEW S, Bootstrap(S) PROVE GenInv'
  BY <1>0 DEF Bootstrap, disk, GenInv, StemInv, ManifestInv, Up
<1>1. CASE CreateSchema
  BY <1>1 DEF CreateSchema, history, GenInv, Up
<1>2. CASE WriteSchema
  BY <1>2 DEF WriteSchema, history, GenInv, Up
<1>3. CASE Open
  BY <1>3, <1>0 DEF Open
<1>4. CASE OpenUnreadableLog
  BY <1>4, <1>0 DEF OpenUnreadableLog
<1>5. ASSUME NEW d \in Doc, AddDocument(d) PROVE GenInv'
  BY <1>5, QuietGenInv DEF AddDocument, Up, MayAdd
<1>6. ASSUME NEW d \in Doc, AppendFails(d) PROVE GenInv'
  BY <1>6, QuietGenInv DEF AppendFails, Up, MayAdd, memory
<1>7. CASE IndexDocument
  BY <1>7, QuietGenInv DEF IndexDocument, Up, disk
<1>8. CASE RefreshNothing
  BY <1>8, QuietGenInv DEF RefreshNothing, Up, disk
<1>9. CASE RefreshSeal
  BY <1>9, QuietGenInv DEF RefreshSeal, Up, MayRefresh, history
<1>10. CASE SealSegment
  BY <1>10, QuietGenInv DEF SealSegment, Up, history
<1>11. CASE SealFails
  BY <1>11, QuietGenInv DEF SealFails, Up
<1>12. CASE SaveManifest
  BY <1>12 DEF SaveManifest, GenInv, Up, TypeOK, MemoryTypeOK, HistoryTypeOK, history
<1>13. CASE SaveManifestFails
  BY <1>13, QuietGenInv DEF SaveManifestFails, Up, disk
<1>14. CASE SyncManifest
  BY <1>14 DEF SyncManifest, GenInv, StemInv, ManifestInv, Up, TypeOK, MemoryTypeOK, HistoryTypeOK
<1>15. CASE Truncate
  BY <1>15, QuietGenInv DEF Truncate, Up, history
<1>16. CASE TruncateFails
  BY <1>16, QuietGenInv DEF TruncateFails, Up, disk
<1>17. CASE Publish
  BY <1>17 DEF Publish, disk, GenInv, StemInv, ManifestInv, Up, TypeOK, MemoryTypeOK
<1>18. CASE PublishFails
  BY <1>18, QuietGenInv DEF PublishFails, Up, disk
<1>19. CASE Close
  BY <1>19, QuietGenInv DEF Close, Up, disk, history
<1>20. CASE Crash
  BY <1>20, ForgetGenInv DEF Crash, disk, history
<1>21. CASE PowerLoss
  BY <1>21, ForgetGenInv DEF PowerLoss, disk, history
<1>22. ASSUME NEW d \in Doc, CrashInAppend(d) PROVE GenInv'
  BY <1>22, ForgetGenInv DEF CrashInAppend, disk, history
<1>23. CASE UNCHANGED vars
  BY <1>23, QuietGenInv DEF vars, disk, memory, history, Up
<1>24. QED
  BY <1>1, <1>2, <1>3, <1>4, <1>5, <1>6, <1>7, <1>8, <1>9, <1>10, <1>11, <1>12, <1>13, <1>14, <1>15, <1>16, <1>17, <1>18, <1>19, <1>20, <1>21, <1>22, <1>23 DEF Next, Step

\* The last generation a Refresh returned is on stable storage.
THEOREM GenInvariant == Spec => []GenInv
<1>1. Init => GenInv
  BY DEF Init, GenInv, Up
<1>2. QED BY <1>1, NextGenInv, TypeCorrect, StemsInvariant, PTL DEF Spec

\* The generations that sealing refreshes return increase across restarts,
\* crashes, failed refreshes and losses of power.
THEOREM GenerationsAlwaysIncrease == Spec => GenerationsIncrease
<1>1. TypeOK /\ GenInv => [Publish => retGen' > retGen]_vars
  BY DEF Publish, GenInv, TypeOK, MemoryTypeOK, HistoryTypeOK
<1>2. QED BY <1>1, TypeCorrect, GenInvariant, PTL DEF GenerationsIncrease

-----------------------------------------------------------------------------
(* No acknowledged document is lost and no visible document disappears:    *)
(* the argument follows a document from the log into the mutable segment,  *)
(* the sealed segment and the manifest, and uses that the files of a       *)
(* segment in use are never overwritten.                                   *)

\* The empty segment content has no documents.
LEMMA NoDocsHasNone == Docs(NoDocs) = {}
<1>1. \A d \in Doc : \A f \in Form : NoDocs[<<d, f>>] = 0
  BY DEF NoDocs, Entry
<1>2. ASSUME NEW d \in Doc, NEW f \in Form, NoDocs[<<d, f>>] > 0 PROVE FALSE
  <2>1. NoDocs[<<d, f>>] = 0
    BY <1>1
  <2>2. QED BY <1>2, <2>1
<1>3. QED BY <1>2 DEF Docs

\* A sealed segment holds on disk the documents it holds in memory.
LEMMA SealedDocs ==
  ASSUME SealedMatchesDisk, NEW s \in DOMAIN sealed
  PROVE  Docs(files[s].docs) = Docs(sealed[s])
<1>1. files[s] = [docs |-> sealed[s], whole |-> TRUE]
  BY DEF SealedMatchesDisk
<1>2. files[s].docs = sealed[s]
  BY <1>1
<1>3. QED BY <1>2

\* A manifest that names all sealed segments has all their documents.
LEMMA SealedInManifest ==
  ASSUME SealedMatchesDisk, NEW m, DOMAIN sealed \subseteq m.segs
  PROVE  DocsOfSegs(sealed) \subseteq DocsOfManifest(m)
BY SealedDocs DEF DocsOfSegs, DocsOfManifest

\* And a manifest that names only them has no other.
LEMMA ManifestInSealed ==
  ASSUME SealedMatchesDisk, NEW m, m.segs \subseteq DOMAIN sealed
  PROVE  DocsOfManifest(m) \subseteq DocsOfSegs(sealed)
BY SealedDocs DEF DocsOfSegs, DocsOfManifest

\* A step does not change what the manifests on disk hold.
LEMMA StepKeepsManifests ==
  ASSUME TypeOK, StemInv, [Next]_vars, NEW m \in durable
  PROVE  DocsOfManifest(m) = {d \in Doc : \E s \in m.segs : d \in Docs(files'[s].docs)}
<1>1. \A s \in m.segs : files'[s] = files[s]
  BY StepKeepsInUse DEF InUse, StemInv, ManifestReadable, SegmentsOpen
<1>2. QED BY <1>1 DEF DocsOfManifest

\* The published segments are sealed ones.
LEMMA PublishedInSealed ==
  ASSUME ReaderInv
  PROVE  DocsOfSegs(published) \subseteq DocsOfSegs(sealed)
BY DEF ReaderInv, DocsOfSegs

\* Appending a record keeps what Replay reaches, and adds the record if it is
\* whole and no torn record is before it.
LEMMA AppendReadable ==
  ASSUME TypeOK, NEW d \in Doc, NEW w \in BOOLEAN, AppendRecord(d, w)
  PROVE  /\ \A i \in Readable(log) : i \in Readable(log') /\ log'[i] = log[i]
         /\ log'[Len(log')].doc = d
         /\ w => Len(log') \in Readable(log') \/ d \in exposed'
<1>1. /\ log \in Seq(Record) /\ log' = Append(log, [doc |-> d, whole |-> w])
      /\ [doc |-> d, whole |-> w] \in Record
  BY DEF TypeOK, DiskTypeOK, AppendRecord, Record
<1>2. /\ Len(log') = Len(log) + 1 /\ DOMAIN log = 1..Len(log) /\ DOMAIN log' = 1..Len(log')
      /\ \A i \in DOMAIN log : log'[i] = log[i]
      /\ log'[Len(log')] = [doc |-> d, whole |-> w]
      /\ Len(log) \in Nat
  BY <1>1
<1>3. \A i \in Readable(log) : i \in Readable(log') /\ log'[i] = log[i]
  BY <1>2 DEF Readable
<1>4. ASSUME w, Readable(log) = DOMAIN log PROVE Len(log') \in Readable(log')
  <2>1. \A i \in DOMAIN log : log[i].whole
    BY <1>2, <1>4 DEF Readable
  <2>2. log'[Len(log')].whole
    BY <1>2, <1>4
  <2>3. \A i \in DOMAIN log' : log'[i].whole
    BY <1>2, <2>1, <2>2
  <2>4. QED BY <1>2, <2>3 DEF Readable
<1>5. ASSUME Readable(log) # DOMAIN log PROVE d \in exposed'
  BY <1>5 DEF AppendRecord
<1>6. QED BY <1>2, <1>3, <1>4, <1>5

\* Replay puts the document of every record it reads in the mutable segment.
LEMMA ReplayedDocs ==
  ASSUME TypeOK, NEW S \in SUBSET DOMAIN log, NEW i \in S, log[i].doc \notin Rejected
  PROVE  log[i].doc \in Docs(Replayed(log, S))
<1> DEFINE e == DocFromJson(log[i].doc)
           P == {j \in S : log[j].doc \notin Rejected /\ DocFromJson(log[j].doc) = e}
<1>1. log \in Seq(Record) /\ log[i].doc \in Doc
  <2>1. log \in Seq(Record)
    BY DEF TypeOK, DiskTypeOK
  <2>2. log[i] \in Record
    BY <2>1
  <2>3. QED BY <2>1, <2>2 DEF Record
<1>2. e \in Entry /\ \E f \in Form : e = <<log[i].doc, f>>
  BY <1>1 DEF DocFromJson, Entry, Form
<1>3. IsFiniteSet(P)
  <2>1. IsFiniteSet(DOMAIN log)
    BY <1>1, FS_Interval
  <2>2. QED BY <2>1, FS_Subset
<1>4. Cardinality(P) \in Nat /\ Cardinality(P) # 0
  <2>1. i \in P
    OBVIOUS
  <2>2. QED BY <1>3, <2>1, FS_EmptySet, FS_CardinalityType
<1>5. Replayed(log, S)[e] > 0
  BY <1>2, <1>4 DEF Replayed
<1>6. QED BY <1>1, <1>2, <1>5 DEF Docs

-----------------------------------------------------------------------------
(* Preservation.                                                           *)

\* The parts of the invariant that speak of the disk and the history hold
\* after a step that leaves the manifests and the records that Replay
\* reaches, and adds nothing to what has to be kept.
LEMMA DiskDocsKept ==
  ASSUME TypeOK, StemInv, DurableInv, [Next]_vars,
         durable' \subseteq durable,
         \A i \in Readable(log) : i \in Readable(log') /\ log'[i] = log[i],
         acked' \ exposed' \subseteq acked \ exposed
  PROVE  AckedDurable'
<1> SUFFICES ASSUME NEW d \in acked' \ exposed', NEW m \in durable'
             PROVE  \/ d \in DocsOfManifest(m)'
                    \/ \E i \in Readable(log') : log'[i].doc = d
  BY DEF AckedDurable
<1>1. m \in durable /\ d \in acked \ exposed
  OBVIOUS
<1>2. CASE d \in DocsOfManifest(m)
  BY <1>1, <1>2, StepKeepsManifests DEF DocsOfManifest
<1>3. CASE \E i \in Readable(log) : log[i].doc = d
  BY <1>3
<1>4. QED BY <1>1, <1>2, <1>3 DEF DurableInv, AckedDurable

\* What was seen or promised is still in the manifests when they are kept.
LEMMA SeenDocsKept ==
  ASSUME TypeOK, StemInv, DurableInv, [Next]_vars,
         manifest' \in durable, durable' \subseteq durable,
         \/ manifest' = manifest /\ seen' = seen
         \/ seen' = promised,
         promised' = promised
  PROVE  /\ seen' \subseteq DocsOfManifest(manifest)'
         /\ RefreshedDurable'
         /\ promised' \subseteq seen'
<1>1. \A m \in durable : DocsOfManifest(m)' = DocsOfManifest(m)
  BY StepKeepsManifests DEF DocsOfManifest
<1>2. RefreshedDurable'
  BY <1>1 DEF DurableInv, RefreshedDurable
<1>3. DocsOfManifest(manifest)' = DocsOfManifest(manifest')
  BY StepKeepsManifests DEF DocsOfManifest
<1>4. seen' \subseteq DocsOfManifest(manifest')
  BY DEF DurableInv, SeenStaysVisible, RefreshedDurable
<1>5. QED BY <1>2, <1>3, <1>4 DEF DurableInv

\* Initially there is no document to keep.
LEMMA InitDurableInv == Init => DurableInv
<1> SUFFICES ASSUME Init PROVE DurableInv
  OBVIOUS
<1>1. PendingInv
  BY DEF Init, PendingInv, EmptySegs, Up
<1>2. AckedDurable /\ RefreshedDurable /\ SeenStaysVisible
  BY DEF Init, AckedDurable, RefreshedDurable, SeenStaysVisible, Up
<1>3. QED BY <1>1, <1>2 DEF Init, DurableInv

\* Steps of a running writer that move no document between log, segments and
\* manifests.
LEMMA QuietDurableInv ==
  ASSUME TypeOK, StemInv, DurableInv, [Next]_vars,
         UNCHANGED <<log, manifest, durable, sealed, mutable, published,
                     acked, exposed, seen, promised>>,
         Up' => Up,
         pc' = "index" => pc = "index",
         pc' \in {"seal", "save", "sync"} =>
           (pc' = "seal" /\ mutable # NoDocs) \/ pc \in {"save", "sync"},
         pc' \in {"trunc", "publish"} => pc \in {"trunc", "publish"}
  PROVE  DurableInv'
<1>1. PendingInv'
  BY DEF DurableInv, PendingInv
<1>2. AckedDurable'
  BY DiskDocsKept
<1>3. /\ seen' \subseteq DocsOfManifest(manifest)' /\ RefreshedDurable' /\ promised' \subseteq seen'
  BY SeenDocsKept DEF StemInv, ManifestInv
<1>4. SeenStaysVisible'
  BY <1>3 DEF DurableInv, SeenStaysVisible
<1>5. QED BY <1>1, <1>2, <1>3, <1>4 DEF DurableInv

\* The process ends; the log and the manifest are kept or fall back.
LEMMA ForgetDurableInv ==
  ASSUME TypeOK, StemInv, DurableInv, [Next]_vars, Forget,
         manifest' \in durable, durable' \subseteq durable,
         \A i \in Readable(log) :
           \/ i \in Readable(log') /\ log'[i] = log[i]
           \/ LogDocs(log) \subseteq exposed',
         acked' = acked, exposed \subseteq exposed', promised' = promised,
         \/ manifest' = manifest /\ seen' = seen
         \/ seen' = promised
  PROVE  DurableInv'
<1>1. ~Up' /\ pc' = "down"
  BY DEF Forget, Up
<1>2. PendingInv'
  BY <1>1 DEF DurableInv, PendingInv
<1>3. AckedDurable'
  <2> SUFFICES ASSUME NEW d \in acked' \ exposed', NEW m \in durable'
               PROVE  \/ d \in DocsOfManifest(m)'
                      \/ \E i \in Readable(log') : log'[i].doc = d
    BY DEF AckedDurable
  <2>1. m \in durable /\ d \in acked \ exposed
    OBVIOUS
  <2>2. CASE d \in DocsOfManifest(m)
    BY <2>1, <2>2, StepKeepsManifests DEF DocsOfManifest
  <2>3. CASE \E i \in Readable(log) : log[i].doc = d
    BY <2>1, <2>3 DEF Readable, LogDocs
  <2>4. QED BY <2>1, <2>2, <2>3 DEF DurableInv, AckedDurable
<1>4. /\ seen' \subseteq DocsOfManifest(manifest)' /\ RefreshedDurable' /\ promised' \subseteq seen'
  BY SeenDocsKept
<1>5. SeenStaysVisible'
  BY <1>1, <1>4 DEF SeenStaysVisible
<1>6. QED BY <1>2, <1>3, <1>4, <1>5 DEF DurableInv

\* Open: what is not in the manifest is replayed from the log.
LEMMA BootstrapDurableInv ==
  ASSUME TypeOK, StemInv, DurableInv, [Next]_vars,
         NEW S \in SUBSET DOMAIN log, Bootstrap(S),
         exposed \subseteq exposed',
         Readable(log) \subseteq S \/ LogDocs(log) \subseteq exposed'
  PROVE  DurableInv'
<1>1. /\ pc' = "idle" /\ Up' /\ UNCHANGED <<log, files, manifest, durable, acked, promised>>
      /\ sealed' = [s \in manifest.segs |-> files[s].docs]
      /\ published' = sealed' /\ mutable' = Replayed(log, S)
      /\ seen' = seen \cup DocsOfSegs(published')
  BY DEF Bootstrap, disk, Up
<1>2. DocsOfSegs(sealed') = DocsOfManifest(manifest)
  BY <1>1 DEF DocsOfSegs, DocsOfManifest
<1>3. acked' \ exposed' \subseteq Docs(mutable') \cup DocsOfSegs(sealed')
  <2> SUFFICES ASSUME NEW d \in acked, d \notin exposed', d \notin DocsOfManifest(manifest)
               PROVE  d \in Docs(mutable')
    BY <1>1, <1>2
  <2>1. PICK i \in Readable(log) : log[i].doc = d
    BY DEF DurableInv, AckedDurable, StemInv, ManifestInv
  <2>2. i \in S
    BY <2>1 DEF Readable, LogDocs
  <2>3. d \notin Rejected
    BY DEF DurableInv, PendingInv
  <2>4. QED BY <1>1, <2>1, <2>2, <2>3, ReplayedDocs
<1>4. PendingInv'
  BY <1>1, <1>3 DEF DurableInv, PendingInv
<1>5. AckedDurable'
  BY <1>1, DiskDocsKept
<1>6. RefreshedDurable'
  BY <1>1 DEF DurableInv, RefreshedDurable, DocsOfManifest
<1>7. seen' \subseteq DocsOfManifest(manifest)'
  BY <1>1, <1>2 DEF DurableInv, SeenStaysVisible, DocsOfManifest
<1>8. SeenStaysVisible'
  BY <1>1, <1>2, <1>7 DEF SeenStaysVisible, DurableInv
<1>9. QED BY <1>1, <1>4, <1>5, <1>6, <1>8 DEF DurableInv

\* A record is appended by a running writer, whole or torn.
LEMMA AppendDurableInv ==
  ASSUME TypeOK, StemInv, DurableInv, [Next]_vars,
         NEW d \in Doc, NEW w \in BOOLEAN, AppendRecord(d, w),
         UNCHANGED <<manifest, durable, sealed, mutable, published, acked, seen, promised>>,
         Up, pc' = "idle" \/ (pc' = "index" /\ w)
  PROVE  DurableInv'
<1>1. exposed \subseteq exposed'
  BY DEF AppendRecord
<1>2. PendingInv'
  <2>1. pc' = "index" => \/ Len(log') \in Readable(log')
                         \/ log'[Len(log')].doc \in exposed'
    BY AppendReadable
  <2>2. Up' /\ pc' \notin {"seal", "save", "sync", "trunc", "publish"}
    BY DEF Up
  <2>3. QED BY <1>1, <2>1, <2>2 DEF DurableInv, PendingInv
<1>3. AckedDurable'
  BY <1>1, AppendReadable, DiskDocsKept
<1>4. /\ seen' \subseteq DocsOfManifest(manifest)' /\ RefreshedDurable' /\ promised' \subseteq seen'
  BY SeenDocsKept DEF StemInv, ManifestInv
<1>5. SeenStaysVisible'
  BY <1>4 DEF DurableInv, SeenStaysVisible
<1>6. QED BY <1>2, <1>3, <1>4, <1>5 DEF DurableInv

\* IndexDocument acknowledges a document whose record Replay reaches, or one
\* that is counted as exposed.
LEMMA IndexDurableInv ==
  ASSUME TypeOK, StemInv, DurableInv, [Next]_vars, IndexDocument
  PROVE  DurableInv'
<1> DEFINE d == log[Len(log)].doc
<1>1. /\ pc = "index" /\ pc' = "idle" /\ Up /\ Up'
      /\ UNCHANGED <<log, files, manifest, durable, sealed, published, exposed, seen, promised>>
  BY DEF IndexDocument, disk, Up
<1>2. d \in Doc
  <2>1. log[Len(log)] \in Record
    BY <1>1 DEF TypeOK, DiskTypeOK, StepTypeOK
  <2>2. QED BY <2>1 DEF Record
<1>3. Len(log) \in Readable(log) \/ d \in exposed
  BY <1>1 DEF DurableInv, PendingInv
<1>4. SeenStaysVisible' /\ RefreshedDurable' /\ promised' \subseteq seen'
  BY <1>1 DEF DurableInv, SeenStaysVisible, RefreshedDurable, DocsOfManifest
<1>5. CASE d \notin Rejected /\ mutable' = [mutable EXCEPT ![<<d, "full">>] = @ + 1]
           /\ acked' = acked \cup {d}
  <2>1. /\ mutable \in [Entry -> Nat] /\ <<d, "full">> \in Entry /\ "full" \in Form
    BY <1>2 DEF TypeOK, MemoryTypeOK, Bag, Entry, Form
  <2>2. \A e \in Entry : mutable'[e] >= mutable[e]
    BY <1>5, <2>1
  <2>3. mutable'[<<d, "full">>] > 0
    BY <1>5, <2>1
  <2>4. Docs(mutable) \subseteq Docs(mutable')
    <3> SUFFICES ASSUME NEW x \in Doc, NEW f \in Form, mutable[<<x, f>>] > 0
                 PROVE  mutable'[<<x, f>>] > 0
      BY DEF Docs
    <3>1. <<x, f>> \in Entry
      BY DEF Entry
    <3>2. QED BY <1>5, <2>1, <2>2, <3>1
  <2>5. d \in Docs(mutable')
    BY <1>2, <2>1, <2>3 DEF Docs
  <2>6. mutable' # NoDocs
    BY <2>1, <2>3 DEF NoDocs
  <2>7. PendingInv'
    BY <1>1, <1>5, <2>4, <2>5, <2>6 DEF DurableInv, PendingInv
  <2>8. AckedDurable'
    BY <1>1, <1>3, <1>5 DEF DurableInv, AckedDurable, DocsOfManifest
  <2>9. QED BY <1>4, <2>7, <2>8 DEF DurableInv
<1>6. CASE UNCHANGED <<mutable, acked>>
  <2>1. PendingInv' /\ AckedDurable'
    BY <1>1, <1>6 DEF DurableInv, PendingInv, AckedDurable, DocsOfManifest
  <2>2. QED BY <1>4, <2>1 DEF DurableInv
<1>7. QED BY <1>5, <1>6 DEF IndexDocument

\* Refresh with nothing pending: every sealed segment is in the manifest.
LEMMA RefreshNothingDurableInv ==
  ASSUME TypeOK, StemInv, DurableInv, [Next]_vars, RefreshNothing
  PROVE  DurableInv' /\ acked \ exposed \subseteq DocsOfSegs(published')
<1>1. /\ pc = "idle" /\ pc' = "idle" /\ Up /\ Up' /\ mutable = NoDocs
      /\ published' = sealed /\ seen' = seen \cup DocsOfSegs(sealed)
      /\ UNCHANGED <<log, files, manifest, durable, sealed, mutable, acked, exposed, promised>>
  BY DEF RefreshNothing, MayRefresh, disk, Up
<1>2. DOMAIN sealed \subseteq manifest.segs
  BY <1>1 DEF DurableInv, PendingInv
<1>3. DocsOfSegs(sealed) \subseteq DocsOfManifest(manifest)
  BY <1>2, SealedInManifest DEF StemInv
<1>4. acked \ exposed \subseteq DocsOfSegs(sealed)
  BY <1>1, NoDocsHasNone DEF DurableInv, PendingInv
<1>5. PendingInv' /\ AckedDurable' /\ RefreshedDurable'
  BY <1>1 DEF DurableInv, PendingInv, AckedDurable, RefreshedDurable, DocsOfManifest
<1>6. seen \subseteq DocsOfSegs(sealed)
  BY <1>1, PublishedInSealed DEF DurableInv, SeenStaysVisible, StemInv
<1>7. SeenStaysVisible'
  BY <1>1, <1>3, <1>6 DEF DurableInv, SeenStaysVisible, DocsOfManifest
<1>8. QED BY <1>1, <1>4, <1>5, <1>7 DEF DurableInv

\* Sealing adds the pending documents to the sealed segments.
LEMMA SealDurableInv ==
  ASSUME TypeOK, StemInv, DurableInv, [Next]_vars, SealSegment
  PROVE  DurableInv'
<1>1. /\ pc = "seal" /\ pc' = "save" /\ Up /\ Up'
      /\ sealed' = Put(sealed, NewStem, mutable)
      /\ UNCHANGED <<log, manifest, durable, mutable, published, acked, exposed, seen, promised>>
  BY DEF SealSegment, history, Up
<1>2. NewStem \notin DOMAIN sealed
  BY <1>1, NewStemNotTaken DEF StemInv
<1>3. Docs(mutable) \subseteq DocsOfSegs(sealed')
  BY <1>1 DEF Put, DocsOfSegs, Docs
<1>4. DocsOfSegs(sealed) \subseteq DocsOfSegs(sealed')
  BY <1>1, <1>2 DEF Put, DocsOfSegs
<1>5. PendingInv'
  BY <1>1, <1>3, <1>4 DEF DurableInv, PendingInv
<1>6. AckedDurable'
  BY <1>1, DiskDocsKept
<1>7. /\ seen' \subseteq DocsOfManifest(manifest)' /\ RefreshedDurable' /\ promised' \subseteq seen'
  BY <1>1, SeenDocsKept DEF StemInv, ManifestInv
<1>8. SeenStaysVisible'
  BY <1>1, <1>7 DEF DurableInv, SeenStaysVisible
<1>9. QED BY <1>5, <1>6, <1>7, <1>8 DEF DurableInv

\* The new manifest names every sealed segment, the pending documents' too.
LEMMA SaveManifestDurableInv ==
  ASSUME TypeOK, StemInv, DurableInv, [Next]_vars, SaveManifest
  PROVE  DurableInv'
<1>1. /\ pc = "save" /\ pc' = "sync" /\ Up /\ Up'
      /\ manifest'.segs = DOMAIN sealed /\ durable' = durable \cup {manifest'}
      /\ UNCHANGED <<log, files, sealed, mutable, published, acked, exposed, seen, promised>>
  BY DEF SaveManifest, history, Up
<1>2. DocsOfSegs(sealed) \subseteq DocsOfManifest(manifest')
  BY <1>1, SealedInManifest DEF StemInv
<1>3. acked \ exposed \subseteq DocsOfSegs(sealed)
  BY <1>1 DEF DurableInv, PendingInv
<1>4. seen \subseteq DocsOfSegs(sealed)
  BY <1>1, PublishedInSealed DEF DurableInv, SeenStaysVisible, StemInv
<1>5. PendingInv'
  BY <1>1 DEF DurableInv, PendingInv
<1>6. AckedDurable'
  BY <1>1, <1>2, <1>3 DEF DurableInv, AckedDurable, DocsOfManifest
<1>7. RefreshedDurable'
  BY <1>1, <1>2, <1>4 DEF DurableInv, RefreshedDurable, DocsOfManifest
<1>8. SeenStaysVisible'
  BY <1>1, <1>2, <1>4 DEF DurableInv, SeenStaysVisible, DocsOfManifest
<1>9. QED BY <1>1, <1>5, <1>6, <1>7, <1>8 DEF DurableInv

\* Once the directory is synced only the new manifest can be found.
LEMMA SyncManifestDurableInv ==
  ASSUME TypeOK, StemInv, DurableInv, [Next]_vars, SyncManifest
  PROVE  DurableInv'
<1>1. /\ pc = "sync" /\ pc' = "trunc" /\ Up /\ Up' /\ mutable' = NoDocs
      /\ durable' = {manifest} /\ exposed' = exposed \ Docs(mutable)
      /\ UNCHANGED <<log, files, manifest, sealed, published, acked, seen, promised>>
  BY DEF SyncManifest, Up
<1>2. manifest \in durable /\ manifest.segs = DOMAIN sealed
  BY <1>1 DEF StemInv, ManifestInv
<1>3. DocsOfSegs(sealed) \subseteq DocsOfManifest(manifest)
  BY <1>2, SealedInManifest DEF StemInv
<1>4. acked \ exposed' \subseteq DocsOfSegs(sealed)
  BY <1>1 DEF DurableInv, PendingInv
<1>5. PendingInv'
  BY <1>1, <1>2, <1>4 DEF DurableInv, PendingInv
<1>6. AckedDurable'
  BY <1>1, <1>3, <1>4 DEF AckedDurable, DocsOfManifest
<1>7. RefreshedDurable' /\ SeenStaysVisible' /\ promised' \subseteq seen'
  BY <1>1, <1>2 DEF DurableInv, RefreshedDurable, SeenStaysVisible, DocsOfManifest
<1>8. QED BY <1>5, <1>6, <1>7 DEF DurableInv

\* The log may be truncated: all it held is in the one manifest.
LEMMA TruncateDurableInv ==
  ASSUME TypeOK, StemInv, DurableInv, [Next]_vars, Truncate
  PROVE  DurableInv'
<1>1. /\ pc = "trunc" /\ pc' = "publish" /\ Up /\ Up'
      /\ UNCHANGED <<files, manifest, durable, sealed, mutable, published, acked, exposed, seen, promised>>
  BY DEF Truncate, history, Up
<1>2. durable = {manifest} /\ manifest.segs = DOMAIN sealed
  BY <1>1 DEF StemInv, ManifestInv
<1>3. acked \ exposed \subseteq DocsOfManifest(manifest)
  BY <1>1, <1>2, SealedInManifest, NoDocsHasNone DEF DurableInv, PendingInv, StemInv
<1>4. PendingInv'
  BY <1>1 DEF DurableInv, PendingInv
<1>5. AckedDurable'
  BY <1>1, <1>2, <1>3 DEF AckedDurable, DocsOfManifest
<1>6. RefreshedDurable' /\ SeenStaysVisible' /\ promised' \subseteq seen'
  BY <1>1 DEF DurableInv, RefreshedDurable, SeenStaysVisible, DocsOfManifest
<1>7. QED BY <1>4, <1>5, <1>6 DEF DurableInv

\* What is published is in the one manifest, and no acked document is missing.
LEMMA PublishDurableInv ==
  ASSUME TypeOK, StemInv, DurableInv, [Next]_vars, Publish
  PROVE  DurableInv' /\ acked \ exposed \subseteq DocsOfSegs(published')
<1>1. /\ pc = "publish" /\ pc' = "idle" /\ Up /\ Up'
      /\ published' = sealed /\ seen' = seen \cup DocsOfSegs(sealed)
      /\ promised' = DocsOfSegs(sealed)
      /\ UNCHANGED <<log, files, manifest, durable, sealed, mutable, acked, exposed>>
  BY DEF Publish, disk, Up
<1>2. durable = {manifest} /\ manifest.segs = DOMAIN sealed
  BY <1>1 DEF StemInv, ManifestInv
<1>3. DocsOfSegs(sealed) \subseteq DocsOfManifest(manifest)
  BY <1>2, SealedInManifest DEF StemInv
<1>4. acked \ exposed \subseteq DocsOfSegs(sealed)
  BY <1>1, NoDocsHasNone DEF DurableInv, PendingInv
<1>5. seen \subseteq DocsOfSegs(sealed)
  BY <1>1, PublishedInSealed DEF DurableInv, SeenStaysVisible, StemInv
<1>6. PendingInv' /\ AckedDurable'
  BY <1>1, <1>2 DEF DurableInv, PendingInv, AckedDurable, DocsOfManifest
<1>7. RefreshedDurable'
  BY <1>1, <1>2, <1>3 DEF RefreshedDurable, DocsOfManifest
<1>8. SeenStaysVisible'
  BY <1>1, <1>3, <1>5 DEF DurableInv, SeenStaysVisible, DocsOfManifest
<1>9. QED BY <1>1, <1>4, <1>6, <1>7, <1>8 DEF DurableInv

\* Every step keeps the invariant on documents.
LEMMA NextDurableInv == TypeOK /\ StemInv /\ DurableInv /\ [Next]_vars => DurableInv'
<1> SUFFICES ASSUME TypeOK, StemInv, DurableInv, [Next]_vars PROVE DurableInv'
  OBVIOUS
<1>1. CASE CreateSchema
  <2>1. ~Up /\ ~Up' /\ pc' \in {"down", "schema"}
        /\ UNCHANGED <<log, manifest, durable, sealed, mutable, published, acked, exposed, seen, promised>>
    BY <1>1 DEF CreateSchema, history, Up
  <2>2. QED BY <2>1, QuietDurableInv
<1>2. CASE WriteSchema
  <2>1. ~Up /\ ~Up' /\ pc' \in {"down", "schema"}
        /\ UNCHANGED <<log, manifest, durable, sealed, mutable, published, acked, exposed, seen, promised>>
    BY <1>2 DEF WriteSchema, history, Up
  <2>2. QED BY <2>1, QuietDurableInv
<1>3. CASE Open
  <2>1. PICK S \in Replays(log) : Bootstrap(S) /\ UNCHANGED <<faults, exposed>>
    BY <1>3 DEF Open
  <2>2. S \in SUBSET DOMAIN log /\ Readable(log) \subseteq S
    BY DEF Replays, WholeAt
  <2>3. QED BY <2>1, <2>2, BootstrapDurableInv
<1>4. CASE OpenUnreadableLog
  <2>1. Bootstrap({}) /\ exposed' = exposed \cup LogDocs(log)
    BY <1>4 DEF OpenUnreadableLog
  <2>2. QED BY <2>1, BootstrapDurableInv
<1>5. ASSUME NEW d \in Doc, AddDocument(d) PROVE DurableInv'
  BY <1>5, AppendDurableInv DEF AddDocument, MayAdd, Up
<1>6. ASSUME NEW d \in Doc, AppendFails(d) PROVE DurableInv'
  <2>1. /\ pc = "idle" /\ pc' = "idle" /\ Up /\ Up'
        /\ UNCHANGED <<manifest, durable, sealed, mutable, published, acked, seen, promised>>
    BY <1>6 DEF AppendFails, MayAdd, memory, Up
  <2>2. CASE \E w \in BOOLEAN : AppendRecord(d, w)
    BY <2>1, <2>2, AppendDurableInv
  <2>3. CASE UNCHANGED <<log, exposed>>
    BY <2>1, <2>3, QuietDurableInv
  <2>4. QED BY <1>6, <2>2, <2>3 DEF AppendFails
<1>7. CASE IndexDocument
  BY <1>7, IndexDurableInv
<1>8. CASE RefreshNothing
  BY <1>8, RefreshNothingDurableInv
<1>9. CASE RefreshSeal
  BY <1>9, QuietDurableInv DEF RefreshSeal, Up, MayRefresh, history
<1>10. CASE SealSegment
  BY <1>10, SealDurableInv
<1>11. CASE SealFails
  BY <1>11, QuietDurableInv DEF SealFails, Up
<1>12. CASE SaveManifest
  BY <1>12, SaveManifestDurableInv
<1>13. CASE SaveManifestFails
  BY <1>13, QuietDurableInv DEF SaveManifestFails, Up, disk
<1>14. CASE SyncManifest
  BY <1>14, SyncManifestDurableInv
<1>15. CASE Truncate
  BY <1>15, TruncateDurableInv
<1>16. CASE TruncateFails
  BY <1>16, QuietDurableInv DEF TruncateFails, Up, disk
<1>17. CASE Publish
  BY <1>17, PublishDurableInv
<1>18. CASE PublishFails
  BY <1>18, QuietDurableInv DEF PublishFails, Up, disk
<1>19. CASE Close
  BY <1>19, QuietDurableInv DEF Close, Up, disk, history
<1>20. CASE Crash
  BY <1>20, ForgetDurableInv DEF Crash, disk, history, StemInv, ManifestInv
<1>21. CASE PowerLoss
  BY <1>21, ForgetDurableInv DEF PowerLoss
<1>22. ASSUME NEW d \in Doc, CrashInAppend(d) PROVE DurableInv'
  <2>1. \A i \in Readable(log) : i \in Readable(log') /\ log'[i] = log[i]
    BY <1>22, AppendReadable DEF CrashInAppend
  <2>2. QED
    BY <1>22, <2>1, ForgetDurableInv DEF CrashInAppend, AppendRecord, StemInv, ManifestInv
<1>23. CASE UNCHANGED vars
  BY <1>23, QuietDurableInv DEF vars, disk, memory, history, Up, DurableInv, PendingInv
<1>24. QED
  BY <1>1, <1>2, <1>3, <1>4, <1>5, <1>6, <1>7, <1>8, <1>9, <1>10, <1>11, <1>12, <1>13, <1>14, <1>15, <1>16, <1>17, <1>18, <1>19, <1>20, <1>21, <1>22, <1>23 DEF Next, Step

\* No acked document is lost and no seen one disappears, in every state.
THEOREM DurableInvariant == Spec => []DurableInv
<1>1. Init => DurableInv
  BY InitDurableInv
<1>2. QED BY <1>1, NextDurableInv, TypeCorrect, StemsInvariant, PTL DEF Spec

\* Every acknowledged document that is not behind a torn record is recovered
\* after a crash or power loss at any point of any operation, whatever I/O
\* calls failed before.
THEOREM AckedAlwaysDurable == Spec => []AckedDurable
<1>1. DurableInv => AckedDurable
  BY DEF DurableInv
<1>2. QED BY <1>1, DurableInvariant, PTL

\* What a search could find can be found in every later reader, across
\* failing refreshes, crashes and restarts.
THEOREM SeenAlwaysVisible == Spec => []SeenStaysVisible
<1>1. DurableInv => SeenStaysVisible
  BY DEF DurableInv
<1>2. QED BY <1>1, DurableInvariant, PTL

\* What a Refresh that sealed a segment made visible survives every loss of
\* power.
THEOREM RefreshedAlwaysDurable == Spec => []RefreshedDurable
<1>1. DurableInv => RefreshedDurable
  BY DEF DurableInv
<1>2. QED BY <1>1, DurableInvariant, PTL

\* A Refresh that returns Ok leaves no acknowledged document invisible.
THEOREM RefreshAlwaysShowsAcked == Spec => RefreshShowsAcked
<1>1. TypeOK /\ StemInv /\ DurableInv /\ [Next]_vars =>
        [RefreshNothing \/ Publish => acked \ exposed \subseteq DocsOfSegs(published')]_vars
  BY RefreshNothingDurableInv, PublishDurableInv
<1>2. QED BY <1>1, TypeCorrect, StemsInvariant, DurableInvariant, PTL DEF Spec, RefreshShowsAcked

-----------------------------------------------------------------------------
(* The index writer implements NrtIndex: each of its steps is a step of    *)
(* the promised index or changes nothing a caller can observe.             *)

-----------------------------------------------------------------------------
(* Where documents come from.                                              *)

\* A call of AddDocument counts its document as offered.
LEMMA OfferedGrows ==
  ASSUME TypeOK, NEW d \in Doc, adds' = [adds EXCEPT ![d] = @ + 1]
  PROVE  Offered' = Offered \cup {d}
BY DEF Offered, TypeOK, HistoryTypeOK

\* The log gains the document appended, no other.
LEMMA AppendDocs ==
  ASSUME TypeOK, NEW d \in Doc, NEW w \in BOOLEAN, AppendRecord(d, w)
  PROVE  LogDocs(log') = LogDocs(log) \cup {d}
<1>1. /\ log \in Seq(Record) /\ log' = Append(log, [doc |-> d, whole |-> w])
  BY DEF TypeOK, DiskTypeOK, AppendRecord
<1>2. /\ DOMAIN log' = DOMAIN log \cup {Len(log) + 1}
      /\ \A i \in DOMAIN log : log'[i] = log[i]
      /\ log'[Len(log) + 1] = [doc |-> d, whole |-> w]
  BY <1>1
<1>3. QED BY <1>2 DEF LogDocs

\* A replay brings back logged documents that are not refused.
LEMMA ReplayedFrom ==
  ASSUME NEW l, NEW S \in SUBSET DOMAIN l
  PROVE  Docs(Replayed(l, S)) \subseteq LogDocs(l) \ Rejected
<1> SUFFICES ASSUME NEW d \in Doc, NEW f \in Form, Replayed(l, S)[<<d, f>>] > 0
             PROVE  d \in LogDocs(l) \ Rejected
  BY DEF Docs
<1> DEFINE P == {i \in S : l[i].doc \notin Rejected /\ DocFromJson(l[i].doc) = <<d, f>>}
<1>1. Replayed(l, S)[<<d, f>>] = Cardinality(P)
  BY DEF Replayed, Entry
<1>2. P # {}
  BY <1>1, FS_EmptySet
<1>3. PICK i \in S : l[i].doc \notin Rejected /\ DocFromJson(l[i].doc) = <<d, f>>
  BY <1>2
<1>4. l[i].doc = d
  BY <1>3 DEF DocFromJson
<1>5. QED BY <1>3, <1>4 DEF LogDocs

\* A new sealed segment adds its documents.
LEMMA PutDocs ==
  ASSUME NEW segs, NEW s, NEW b
  PROVE  DocsOfSegs(Put(segs, s, b)) \subseteq DocsOfSegs(segs) \cup Docs(b)
BY DEF DocsOfSegs, Put

\* A step keeps what the manifests hold.
LEMMA ManifestsKept ==
  ASSUME TypeOK, StemInv, [Next]_vars
  PROVE  \A m \in durable : DocsOfManifest(m)' = DocsOfManifest(m)
BY StepKeepsManifests DEF DocsOfManifest

-----------------------------------------------------------------------------
(* The invariant.                                                          *)

\* Initially no document is anywhere.
LEMMA InitOriginInv == Init => OriginInv
<1> SUFFICES ASSUME Init PROVE OriginInv
  OBVIOUS
<1>1. LogDocs(log) = {} /\ DocsOfSegs(sealed) = {} /\ Docs(mutable) = {}
  BY NoDocsHasNone DEF Init, LogDocs, DocsOfSegs, EmptySegs
<1>2. \A m \in durable : DocsOfManifest(m) = {}
  BY DEF Init, DocsOfManifest
<1>3. QED BY <1>1, <1>2 DEF Init, OriginInv, Up

\* What is offered stays offered, and the manifests keep their documents;
\* the rest is for each step to show.
LEMMA OriginKept ==
  ASSUME TypeOK, StemInv, OriginInv, [Next]_vars,
         Offered \subseteq Offered', LogDocs(log') \subseteq Offered',
         Docs(mutable') \cup DocsOfSegs(sealed') \subseteq Offered' \ Rejected,
         durable' \subseteq durable,
         Up' => DocsOfSegs(published') \subseteq seen',
         promised' # {} \/ pc' \in {"save", "sync", "trunc", "publish"} => logLinked',
         Up' => schemaFile' = "whole", pc' = "schema" => schemaFile' = "torn"
  PROVE  OriginInv'
<1>1. \A m \in durable' : DocsOfManifest(m)' \subseteq Offered' \ Rejected
  BY ManifestsKept DEF OriginInv, Nrt!Findable
<1>2. QED BY <1>1 DEF OriginInv, Nrt!Findable

\* A step that moves no document.
LEMMA QuietOrigin ==
  ASSUME TypeOK, StemInv, OriginInv, [Next]_vars,
         UNCHANGED <<log, adds, durable, mutable, sealed, published, seen, promised, logLinked>>,
         pc' \in {"save", "sync", "trunc", "publish"} => pc \in {"save", "sync", "trunc", "publish"},
         Up' => Up /\ schemaFile' = schemaFile,
         pc' = "schema" => schemaFile' = "torn"
  PROVE  OriginInv'
<1>1. Offered' = Offered
  BY DEF Offered
<1>2. QED BY <1>1, OriginKept DEF OriginInv, Nrt!Findable

\* The process ends.
LEMMA ForgetOrigin ==
  ASSUME TypeOK, StemInv, OriginInv, [Next]_vars, Forget,
         Offered \subseteq Offered', LogDocs(log') \subseteq Offered',
         durable' \subseteq durable, UNCHANGED <<promised, logLinked>>
  PROVE  OriginInv'
<1>1. /\ pc' = "down" /\ ~Up' /\ Docs(mutable') = {} /\ DocsOfSegs(sealed') = {}
  BY NoDocsHasNone DEF Forget, Up, EmptySegs, DocsOfSegs
<1>2. QED BY <1>1, OriginKept DEF OriginInv

\* A writer is opened.
LEMMA BootstrapOrigin ==
  ASSUME TypeOK, StemInv, OriginInv, [Next]_vars,
         NEW S \in SUBSET DOMAIN log, Bootstrap(S)
  PROVE  OriginInv'
<1>1. /\ pc' = "idle" /\ Up' /\ schemaFile' = "whole"
      /\ UNCHANGED <<log, files, manifest, durable, adds, promised, logLinked>>
      /\ sealed' = [s \in manifest.segs |-> files[s].docs]
      /\ published' = sealed' /\ mutable' = Replayed(log, S)
      /\ seen' = seen \cup DocsOfSegs(published')
  BY DEF Bootstrap, disk, Up
<1>2. Offered' = Offered
  BY <1>1 DEF Offered
<1>3. DocsOfSegs(sealed') = DocsOfManifest(manifest)
  BY <1>1 DEF DocsOfSegs, DocsOfManifest
<1>4. Docs(mutable') \cup DocsOfSegs(sealed') \subseteq Offered \ Rejected
  BY <1>1, <1>3, ReplayedFrom DEF OriginInv, Nrt!Findable, StemInv, ManifestInv
<1>5. QED BY <1>1, <1>2, <1>4, OriginKept DEF OriginInv

\* A record is appended, whole or torn, by a process that goes on.
LEMMA AppendOrigin ==
  ASSUME TypeOK, StemInv, OriginInv, [Next]_vars,
         NEW d \in Doc, NEW w \in BOOLEAN, MayAdd(d), AppendRecord(d, w),
         UNCHANGED <<schemaFile, durable, mutable, sealed, published, seen, promised, logLinked>>,
         pc' \in {"idle", "index"}
  PROVE  OriginInv'
<1>1. Offered' = Offered \cup {d} /\ LogDocs(log') = LogDocs(log) \cup {d}
  BY OfferedGrows, AppendDocs DEF MayAdd
<1>2. Up /\ Up'
  BY DEF MayAdd, Up
<1>3. QED BY <1>1, <1>2, OriginKept DEF OriginInv, Nrt!Findable

\* Every step keeps the invariant on origins.
LEMMA NextOriginInv == TypeOK /\ StemInv /\ OriginInv /\ [Next]_vars => OriginInv'
<1> SUFFICES ASSUME TypeOK, StemInv, OriginInv, [Next]_vars PROVE OriginInv'
  OBVIOUS
<1>1. CASE CreateSchema
  BY <1>1, QuietOrigin DEF CreateSchema, history, Up
<1>2. CASE WriteSchema
  BY <1>2, QuietOrigin DEF WriteSchema, history, Up
<1>3. CASE Open
  <2>1. PICK S \in Replays(log) : Bootstrap(S)
    BY <1>3 DEF Open
  <2>2. QED BY <2>1, BootstrapOrigin DEF Replays, WholeAt
<1>4. CASE OpenUnreadableLog
  BY <1>4, BootstrapOrigin DEF OpenUnreadableLog
<1>5. ASSUME NEW d \in Doc, AddDocument(d) PROVE OriginInv'
  BY <1>5, AppendOrigin DEF AddDocument
<1>6. ASSUME NEW d \in Doc, AppendFails(d) PROVE OriginInv'
  <2>1. /\ MayAdd(d) /\ pc' = "idle" /\ Up /\ Up'
        /\ UNCHANGED <<schemaFile, durable, mutable, sealed, published, seen, promised, logLinked>>
    BY <1>6 DEF AppendFails, MayAdd, memory, Up
  <2>2. CASE \E w \in BOOLEAN : AppendRecord(d, w)
    BY <2>1, <2>2, AppendOrigin
  <2>3. CASE UNCHANGED <<log, exposed>>
    <3>1. Offered' = Offered \cup {d}
      BY <2>1, OfferedGrows DEF MayAdd
    <3>2. QED BY <2>1, <2>3, <3>1, OriginKept DEF OriginInv, Nrt!Findable
  <2>4. QED BY <1>6, <2>2, <2>3 DEF AppendFails
<1>7. CASE IndexDocument
  <2> DEFINE d == log[Len(log)].doc
  <2>1. /\ pc' = "idle" /\ Up /\ Up' /\ pc = "index" /\ Offered' = Offered
        /\ UNCHANGED <<schemaFile, log, durable, sealed, published, seen, promised, logLinked>>
    BY <1>7 DEF IndexDocument, disk, Up, Offered
  <2>2. d \in LogDocs(log)
    BY <2>1 DEF TypeOK, DiskTypeOK, StepTypeOK, LogDocs
  <2>3. Docs(mutable') \subseteq Docs(mutable) \cup (IF d \in Rejected THEN {} ELSE {d})
    BY <1>7 DEF IndexDocument, Docs, Entry, TypeOK, MemoryTypeOK, Bag
  <2>4. QED BY <2>1, <2>2, <2>3, OriginKept DEF OriginInv, Nrt!Findable
<1>8. CASE RefreshNothing
  <2>1. /\ pc' = "idle" /\ Up /\ Up' /\ Offered' = Offered /\ published' = sealed
        /\ seen' = seen \cup DocsOfSegs(sealed)
        /\ UNCHANGED <<schemaFile, log, durable, mutable, sealed, promised, logLinked>>
    BY <1>8 DEF RefreshNothing, MayRefresh, disk, Up, Offered
  <2>2. QED BY <2>1, OriginKept DEF OriginInv, Nrt!Findable
<1>9. CASE RefreshSeal
  BY <1>9, QuietOrigin DEF RefreshSeal, MayRefresh, history, Up
<1>10. CASE SealSegment
  <2>1. /\ pc' = "save" /\ Up /\ Up' /\ Offered' = Offered /\ logLinked'
        /\ sealed' = Put(sealed, NewStem, mutable)
        /\ UNCHANGED <<schemaFile, log, durable, mutable, published, seen, promised>>
    BY <1>10 DEF SealSegment, history, Up, Offered
  <2>2. DocsOfSegs(sealed') \subseteq DocsOfSegs(sealed) \cup Docs(mutable)
    BY <2>1, PutDocs
  <2>3. QED BY <2>1, <2>2, OriginKept DEF OriginInv, Nrt!Findable
<1>11. CASE SealFails
  BY <1>11, QuietOrigin DEF SealFails, Up
<1>12. CASE SaveManifest
  <2>1. /\ pc = "save" /\ pc' = "sync" /\ Up /\ Up' /\ Offered' = Offered
        /\ manifest'.segs = DOMAIN sealed /\ durable' = durable \cup {manifest'}
        /\ UNCHANGED <<schemaFile, log, logLinked, files, mutable, sealed, published, seen, promised>>
    BY <1>12 DEF SaveManifest, history, Up, Offered
  <2>2. DocsOfManifest(manifest') \subseteq DocsOfSegs(sealed)
    BY <2>1, ManifestInSealed DEF StemInv
  <2>3. \A m \in durable' : DocsOfManifest(m)' \subseteq Nrt!Findable
    BY <2>1, <2>2 DEF OriginInv, DocsOfManifest
  <2>4. QED BY <2>1, <2>3 DEF OriginInv, Nrt!Findable
<1>13. CASE SaveManifestFails
  BY <1>13, QuietOrigin DEF SaveManifestFails, Up, disk
<1>14. CASE SyncManifest
  <2>1. /\ pc = "sync" /\ pc' = "trunc" /\ Up /\ Up' /\ Offered' = Offered
        /\ durable' = {manifest} /\ mutable' = NoDocs
        /\ UNCHANGED <<schemaFile, log, logLinked, sealed, published, seen, promised>>
    BY <1>14 DEF SyncManifest, Up, Offered
  <2>2. durable' \subseteq durable
    BY <2>1 DEF StemInv, ManifestInv
  <2>3. QED BY <2>1, <2>2, NoDocsHasNone, OriginKept DEF OriginInv, Nrt!Findable
<1>15. CASE Truncate
  <2>1. /\ pc = "trunc" /\ pc' = "publish" /\ Up /\ Up' /\ Offered' = Offered /\ log' = <<>>
        /\ UNCHANGED <<schemaFile, durable, logLinked, mutable, sealed, published, seen, promised>>
    BY <1>15 DEF Truncate, history, Up, Offered
  <2>2. LogDocs(log') = {}
    BY <2>1 DEF LogDocs
  <2>3. QED BY <2>1, <2>2, OriginKept DEF OriginInv, Nrt!Findable
<1>16. CASE TruncateFails
  BY <1>16, QuietOrigin DEF TruncateFails, Up, disk
<1>17. CASE Publish
  <2>1. /\ pc = "publish" /\ pc' = "idle" /\ Up /\ Up' /\ Offered' = Offered
        /\ published' = sealed /\ seen' = seen \cup DocsOfSegs(sealed)
        /\ UNCHANGED <<schemaFile, log, logLinked, durable, mutable, sealed>>
    BY <1>17 DEF Publish, disk, Up, Offered
  <2>2. QED BY <2>1, OriginKept DEF OriginInv, Nrt!Findable
<1>18. CASE PublishFails
  BY <1>18, QuietOrigin DEF PublishFails, Up, disk
<1>19. CASE Close
  BY <1>19, QuietOrigin DEF Close, Up, disk, history
<1>20. CASE Crash
  <2>1. Offered' = Offered
    BY <1>20 DEF Crash, history, Offered
  <2>2. QED BY <1>20, <2>1, ForgetOrigin DEF Crash, disk, history, OriginInv
<1>21. CASE PowerLoss
  <2>1. Offered' = Offered /\ LogDocs(log') \subseteq LogDocs(log)
    BY <1>21 DEF PowerLoss, Offered, LogDocs
  <2>2. QED BY <1>21, <2>1, ForgetOrigin DEF PowerLoss, OriginInv
<1>22. ASSUME NEW d \in Doc, CrashInAppend(d) PROVE OriginInv'
  <2>1. Offered' = Offered \cup {d} /\ LogDocs(log') = LogDocs(log) \cup {d}
    BY <1>22, OfferedGrows, AppendDocs DEF CrashInAppend, MayAdd
  <2>2. QED BY <1>22, <2>1, ForgetOrigin DEF CrashInAppend, OriginInv
<1>23. CASE UNCHANGED vars
  BY <1>23, QuietOrigin DEF vars, disk, memory, history, Up, OriginInv
<1>24. QED
  BY <1>1, <1>2, <1>3, <1>4, <1>5, <1>6, <1>7, <1>8, <1>9, <1>10, <1>11, <1>12, <1>13, <1>14, <1>15, <1>16, <1>17, <1>18, <1>19, <1>20, <1>21, <1>22, <1>23 DEF Next, Step

-----------------------------------------------------------------------------
(* Each step is one of NrtIndex.                                           *)

\* The initial index is a new one.
LEMMA InitMaps == Init => Nrt!Init
<1> SUFFICES ASSUME Init PROVE Nrt!Init
  OBVIOUS
<1>1. Phase = "new" /\ Offered = {} /\ Visible = {}
  BY DEF Init, Phase, Offered, Visible, Up, DocsOfManifest
<1>2. Torn = FALSE
  BY DEF Init, Torn, Readable
<1>3. QED BY <1>1, <1>2 DEF Init, Nrt!Init

\* What is visible to a running process and to the one after it.
LEMMA Shows ==
  ASSUME TypeOK, StemInv, DurableInv, OriginInv
  PROVE  /\ Visible \subseteq DocsOfManifest(manifest)
         /\ DocsOfManifest(manifest) \subseteq Nrt!Findable
         /\ Up => Visible = DocsOfSegs(published) /\ Phase = "open"
         /\ ~Up => Visible = DocsOfManifest(manifest)
BY DEF Visible, Phase, DurableInv, SeenStaysVisible, OriginInv, StemInv, ManifestInv

\* After the end of the process the manifest found is what is visible.
LEMMA EndsMaps ==
  ASSUME TypeOK, StemInv, DurableInv, OriginInv, OriginInv', [Next]_vars, Forget,
         UNCHANGED <<schemaFile, manifest, durable>>, Up
  PROVE  Nrt!Ends
<1>1. ~Up' /\ Up /\ schemaFile' = "whole"
  BY DEF Forget, Up, OriginInv
<1>2. Visible' = DocsOfManifest(manifest)'
  BY <1>1 DEF Visible
<1>3. DocsOfManifest(manifest)' = DocsOfManifest(manifest)
  BY ManifestsKept DEF StemInv, ManifestInv, DocsOfManifest
<1>4. Visible' \subseteq Nrt!Findable'
  BY <1>2 DEF OriginInv, StemInv, ManifestInv
<1>5. Phase' = "shut"
  BY <1>1 DEF Phase
<1>6. QED BY <1>2, <1>3, <1>4, <1>5, Shows DEF Nrt!Ends, Nrt!Findable

\* A step that changes nothing a caller can observe.
LEMMA Unseen ==
  ASSUME UNCHANGED <<schemaFile, log, published, adds, acked, promised, exposed>>,
         Up' <=> Up, DocsOfManifest(manifest)' = DocsOfManifest(manifest) \/ Up
  PROVE  UNCHANGED <<Phase, Offered, acked, Visible, promised, exposed, Torn>>
<1>1. Phase' = Phase
  BY DEF Phase
<1>2. Visible' = Visible
  BY DEF Visible
<1>3. Offered' = Offered /\ Torn' = Torn
  BY DEF Offered, Torn, Readable
<1>4. QED BY <1>1, <1>2, <1>3

\* A call that fails in Refresh.
LEMMA FailMaps ==
  ASSUME TypeOK, StemInv, DurableInv, OriginInv,
         UNCHANGED <<schemaFile, log, published, adds, acked, promised, exposed>>,
         Up, Up', Fault
  PROVE  Nrt!Fail
BY Unseen, Shows DEF Nrt!Fail, Fault

\* A writer is opened.
LEMMA OpenMaps ==
  ASSUME TypeOK, StemInv, DurableInv, OriginInv, [Next]_vars, Open \/ OpenUnreadableLog
  PROVE  Nrt!Open \/ Nrt!OpenUnread
<1>1. PICK S : Bootstrap(S)
  BY DEF Open, OpenUnreadableLog
<1>2. /\ ~Up /\ Up' /\ schemaFile = "whole" /\ schemaFile' = "whole"
      /\ UNCHANGED <<log, adds, acked, promised>>
      /\ published' = [s \in manifest.segs |-> files[s].docs]
  BY <1>1 DEF Bootstrap, disk, Up
<1>3. Phase = "shut" /\ Phase' = "open"
  BY <1>2 DEF Phase
<1>4. Visible' = Visible
  BY <1>2 DEF Visible, DocsOfSegs, DocsOfManifest
<1>5. Offered' = Offered /\ Torn' = Torn
  BY <1>2 DEF Offered, Torn, Readable
<1>6. CASE UNCHANGED <<faults, exposed>>
  BY <1>2, <1>3, <1>4, <1>5, <1>6 DEF Nrt!Open
<1>7. CASE Fault /\ exposed' = exposed \cup LogDocs(log)
  BY <1>2, <1>3, <1>4, <1>5, <1>7 DEF Nrt!OpenUnread, Fault, OriginInv
<1>8. QED BY <1>6, <1>7 DEF Open, OpenUnreadableLog

\* AddDocument logs its document.
LEMMA LoggedMaps ==
  ASSUME TypeOK, NEW d \in Doc, MayAdd(d), OriginInv, StemInv, DurableInv,
         (\E w \in BOOLEAN : AppendRecord(d, w)) \/ UNCHANGED <<log, exposed>>,
         UNCHANGED <<acked, promised>>
  PROVE  Nrt!Logged(d)
<1>1. Phase = "open" /\ Offered' = Offered \cup {d}
  BY Shows, OfferedGrows DEF MayAdd, Up
<1>2. \/ exposed' = exposed
      \/ Torn /\ exposed' = exposed \cup {d}
  BY DEF AppendRecord, Torn
<1>3. QED BY <1>1, <1>2 DEF Nrt!Logged

\* A log is torn when one of its records is.
LEMMA TornWhen ==
  ASSUME NEW l \in Seq(Record)
  PROVE  Readable(l) # DOMAIN l <=> \E i \in DOMAIN l : ~l[i].whole
<1>1. DOMAIN l = 1 .. Len(l) /\ Len(l) \in Nat
  OBVIOUS
<1>2. ASSUME NEW i \in DOMAIN l, ~l[i].whole PROVE Readable(l) # DOMAIN l
  <2>1. i \in 1 .. i
    BY <1>1
  <2>2. i \notin Readable(l)
    BY <1>2, <2>1 DEF Readable
  <2>3. QED BY <2>2
<1>3. ASSUME \A i \in DOMAIN l : l[i].whole PROVE Readable(l) = DOMAIN l
  BY <1>1, <1>3 DEF Readable
<1>4. QED BY <1>2, <1>3

\* A whole record leaves the log torn or not, a cut one makes it torn.
LEMMA AppendTorn ==
  ASSUME TypeOK, NEW d \in Doc, NEW w \in BOOLEAN, AppendRecord(d, w)
  PROVE  /\ w => (Torn' <=> Torn)
         /\ ~w => Torn'
<1>1. /\ log \in Seq(Record) /\ log' = Append(log, [doc |-> d, whole |-> w])
  BY DEF TypeOK, DiskTypeOK, AppendRecord
<1>2. log' \in Seq(Record)
  BY <1>1 DEF Record
<1>3. /\ DOMAIN log = 1 .. Len(log) /\ DOMAIN log' = 1 .. (Len(log) + 1)
      /\ \A i \in DOMAIN log : log'[i] = log[i]
      /\ log'[Len(log) + 1].whole = w /\ Len(log) \in Nat
  BY <1>1
<1>4. Torn <=> \E i \in DOMAIN log : ~log[i].whole
  BY <1>1, TornWhen DEF Torn
<1>5. Torn' <=> \E i \in DOMAIN log' : ~log'[i].whole
  BY <1>2, TornWhen DEF Torn
<1>6. QED BY <1>3, <1>4, <1>5

\* Steps that change neither a log nor a reader, nor what is promised.
LEMMA UnseenMaps ==
  ASSUME UNCHANGED <<schemaFile, log, published, adds, acked, promised, exposed, faults>>,
         Up' <=> Up, DocsOfManifest(manifest)' = DocsOfManifest(manifest) \/ Up
  PROVE  UNCHANGED Nrt!nrtVars
BY Unseen DEF Nrt!nrtVars

\* Every step of the writer is a step of NrtIndex, or is not seen.
LEMMA NextMaps ==
  ASSUME TypeOK, StemInv, DurableInv, OriginInv, OriginInv', [Next]_vars
  PROVE  [Nrt!Next]_Nrt!nrtVars
<1> USE DEF Nrt!Next
<1>1. CASE CreateSchema
  <2>1. /\ UNCHANGED <<log, published, adds, acked, promised, exposed, faults, files, manifest>>
        /\ ~Up /\ ~Up' /\ schemaFile = "none" /\ schemaFile' = "torn"
    BY <1>1 DEF CreateSchema, history, Up
  <2>2. Phase' = Phase /\ Visible' = Visible
    BY <2>1 DEF Phase, Visible, DocsOfManifest
  <2>3. QED BY <2>1, <2>2 DEF Nrt!nrtVars, Offered, Torn, Readable
<1>2. CASE WriteSchema
  <2>1. /\ UNCHANGED <<log, published, adds, acked, promised, exposed, faults, files, manifest>>
        /\ ~Up /\ ~Up' /\ schemaFile = "torn" /\ schemaFile' = "whole"
    BY <1>2 DEF WriteSchema, history, Up, OriginInv
  <2>2. Phase = "new" /\ Phase' = "shut" /\ Visible' = Visible
    BY <2>1 DEF Phase, Visible, DocsOfManifest
  <2>3. Offered' = Offered /\ Torn' = Torn
    BY <2>1 DEF Offered, Torn, Readable
  <2>4. Nrt!Create
    BY <2>1, <2>2, <2>3 DEF Nrt!Create
  <2>5. QED BY <2>4
<1>3. CASE Open \/ OpenUnreadableLog
  BY <1>3, OpenMaps
<1>4. ASSUME NEW d \in Doc, AddDocument(d) PROVE Nrt!Next
  <2>1. /\ AppendRecord(d, TRUE) /\ MayAdd(d) /\ Up /\ Up'
        /\ UNCHANGED <<schemaFile, published, acked, promised, faults>>
    BY <1>4 DEF AddDocument, MayAdd, Up
  <2>2. Nrt!Logged(d)
    BY <2>1, LoggedMaps
  <2>3. Phase' = Phase /\ Visible' = Visible
    BY <2>1 DEF Phase, Visible
  <2>4. Torn' = Torn
    <3>1. Torn' <=> Torn
      BY <2>1, AppendTorn
    <3>2. QED BY <3>1 DEF Torn
  <2>5. Nrt!Offer(d)
    BY <2>1, <2>2, <2>3, <2>4 DEF Nrt!Offer
  <2>6. QED BY <2>5
<1>5. ASSUME NEW d \in Doc, AppendFails(d) PROVE Nrt!Next
  <2>1. /\ MayAdd(d) /\ Up /\ Up' /\ faults' = faults + 1
        /\ UNCHANGED <<schemaFile, published, acked, promised>>
        /\ (\E w \in BOOLEAN : AppendRecord(d, w)) \/ UNCHANGED <<log, exposed>>
    BY <1>5 DEF AppendFails, MayAdd, Up, Fault, memory
  <2>2. Nrt!Logged(d)
    BY <2>1, LoggedMaps
  <2>3. Phase' = Phase /\ Visible' = Visible
    BY <2>1 DEF Phase, Visible
  <2>4. (Torn' <=> Torn) \/ Torn'
    BY <2>1, AppendTorn DEF Torn, Readable
  <2>5. Torn' \in {Torn, TRUE}
    BY <2>4 DEF Torn
  <2>6. Nrt!OfferFails(d)
    BY <2>1, <2>2, <2>3, <2>5 DEF Nrt!OfferFails
  <2>7. QED BY <2>6
<1>6. CASE IndexDocument
  <2> DEFINE d == log[Len(log)].doc
  <2>1. /\ pc = "index" /\ Up /\ Up' /\ d \in LogDocs(log) /\ log[Len(log)] \in Record
        /\ UNCHANGED <<schemaFile, log, published, adds, promised, exposed, faults>>
    BY <1>6 DEF IndexDocument, disk, Up, TypeOK, DiskTypeOK, StepTypeOK, LogDocs
  <2>2. Phase = "open" /\ UNCHANGED <<Phase, Offered, Visible, Torn>>
    BY <2>1, Shows DEF Phase, Offered, Visible, Torn, Readable
  <2>3. CASE d \notin Rejected /\ acked' = acked \cup {d}
    <3>1. d \in Doc /\ d \in Nrt!Findable
      BY <2>1, <2>3 DEF OriginInv, Nrt!Findable, Record
    <3>2. Nrt!Ack(d)
      BY <2>1, <2>2, <2>3, <3>1 DEF Nrt!Ack
    <3>3. QED BY <3>1, <3>2
  <2>4. CASE acked' = acked
    BY <2>1, <2>2, <2>4 DEF Nrt!nrtVars
  <2>5. QED BY <1>6, <2>3, <2>4 DEF IndexDocument
<1>7. CASE RefreshNothing \/ Publish
  <2>1. /\ Up /\ Up' /\ published' = sealed /\ promised' \in {promised, DocsOfSegs(sealed)}
        /\ UNCHANGED <<schemaFile, log, sealed, adds, acked, exposed, faults>>
    BY <1>7 DEF RefreshNothing, Publish, MayRefresh, disk, Up
  <2>2. acked \ exposed \subseteq Visible' /\ Visible' = DocsOfSegs(sealed)
    BY <1>7, <2>1, RefreshNothingDurableInv, PublishDurableInv DEF Visible
  <2>3. Visible \subseteq Visible'
    BY <2>1, <2>2, Shows, PublishedInSealed DEF StemInv
  <2>4. Visible' \subseteq Nrt!Findable' /\ Nrt!Findable' = Nrt!Findable
    BY <2>1, <2>2 DEF OriginInv, Nrt!Findable, Offered
  <2>5. Phase = "open" /\ Phase' = Phase /\ Offered' = Offered /\ Torn' = Torn
    BY <2>1, Shows DEF Phase, Offered, Torn, Readable
  <2>6. Nrt!Refresh
    BY <2>1, <2>2, <2>3, <2>4, <2>5 DEF Nrt!Refresh
  <2>7. QED BY <2>6
<1>8. CASE RefreshSeal \/ SealSegment \/ SaveManifest \/ Close
  BY <1>8, UnseenMaps DEF RefreshSeal, MayRefresh, SealSegment, SaveManifest, Close, disk, history, Up
<1>9. CASE SealFails \/ SaveManifestFails \/ TruncateFails \/ PublishFails
  BY <1>9, FailMaps DEF SealFails, SaveManifestFails, TruncateFails, PublishFails, disk, Up
<1>10. CASE SyncManifest
  <2>1. /\ Up /\ Up' /\ exposed' \subseteq exposed
        /\ UNCHANGED <<schemaFile, log, published, adds, acked, promised, faults>>
    BY <1>10 DEF SyncManifest, Up
  <2>2. Phase = "open" /\ UNCHANGED <<Phase, Offered, Visible, Torn>>
    BY <2>1, Shows DEF Phase, Offered, Visible, Torn, Readable
  <2>3. Nrt!Secure
    BY <2>1, <2>2 DEF Nrt!Secure
  <2>4. QED BY <2>3
<1>11. CASE Truncate
  <2>1. /\ Up /\ Up' /\ log' = <<>>
        /\ UNCHANGED <<schemaFile, published, adds, acked, promised, exposed, faults>>
    BY <1>11 DEF Truncate, history, Up
  <2>2. Phase = "open" /\ UNCHANGED <<Phase, Offered, Visible>>
    BY <2>1, Shows DEF Phase, Offered, Visible
  <2>3. Torn' = FALSE
    BY <2>1 DEF Torn, Readable
  <2>4. Nrt!Truncate
    BY <2>1, <2>2, <2>3 DEF Nrt!Truncate
  <2>5. QED BY <2>4
<1>12. CASE Crash
  <2>1. CASE Up
    <3>1. Nrt!Ends
      BY <1>12, <2>1, EndsMaps DEF Crash, disk
    <3>2. Phase = "open" /\ UNCHANGED <<Offered, acked, promised, exposed, Torn, faults>>
      BY <1>12, <2>1, Shows DEF Crash, disk, history, Offered, Torn, Readable
    <3>3. Nrt!Crash
      BY <3>1, <3>2 DEF Nrt!Crash
    <3>4. QED BY <3>3
  <2>2. CASE ~Up
    <3>1. ~Up' /\ DocsOfManifest(manifest)' = DocsOfManifest(manifest)
      BY <1>12 DEF Crash, Forget, Up, disk, DocsOfManifest
    <3>2. Phase' = Phase /\ Visible' = Visible
      BY <1>12, <2>2, <3>1 DEF Phase, Visible, Crash, disk
    <3>3. QED BY <1>12, <3>2 DEF Crash, disk, history, Nrt!nrtVars, Offered, Torn, Readable
  <2>3. QED BY <2>1, <2>2
<1>13. ASSUME NEW d \in Doc, CrashInAppend(d) PROVE Nrt!Next
  <2>1. /\ AppendRecord(d, FALSE) /\ MayAdd(d) /\ Up /\ Forget
        /\ UNCHANGED <<schemaFile, manifest, durable, acked, promised, faults>>
    BY <1>13 DEF CrashInAppend, MayAdd, Up
  <2>2. Nrt!Logged(d) /\ Nrt!Ends
    BY <2>1, LoggedMaps, EndsMaps
  <2>3. Torn' = TRUE
    <3>1. Torn'
      BY <2>1, AppendTorn
    <3>2. QED BY <3>1 DEF Torn
  <2>4. Nrt!OfferDies(d)
    BY <2>1, <2>2, <2>3 DEF Nrt!OfferDies
  <2>5. QED BY <2>4
<1>14. CASE PowerLoss
  <2>1. /\ ~Up' /\ manifest' \in durable
        /\ UNCHANGED <<schemaFile, adds, acked, promised, faults, logLinked>>
    BY <1>14 DEF PowerLoss, Forget, Up
  <2>2. Phase' = IF Phase = "new" THEN "new" ELSE "shut"
    BY <2>1 DEF Phase
  <2>3. Visible' = DocsOfManifest(manifest)' /\ Offered' = Offered
    BY <2>1 DEF Visible, Offered
  <2>4. DocsOfManifest(manifest)' = DocsOfManifest(manifest')
    BY <2>1, ManifestsKept DEF DocsOfManifest
  <2>5. promised \subseteq Visible' /\ Visible' \subseteq Nrt!Findable'
    BY <2>1, <2>3, <2>4 DEF DurableInv, RefreshedDurable, OriginInv, Nrt!Findable
  <2>6. \/ UNCHANGED <<exposed, Torn>>
        \/ promised = {} /\ Torn' = FALSE /\ exposed' = exposed \cup LogDocs(log)
    <3>1. CASE UNCHANGED <<log, exposed>>
      BY <3>1 DEF Torn, Readable
    <3>2. CASE ~logLinked /\ log' = <<>> /\ exposed' = exposed \cup LogDocs(log)
      BY <3>2 DEF Torn, Readable, OriginInv
    <3>3. QED BY <1>14, <3>1, <3>2 DEF PowerLoss
  <2>7. Nrt!PowerLoss
    BY <2>1, <2>2, <2>3, <2>5, <2>6 DEF Nrt!PowerLoss, Nrt!Findable, OriginInv
  <2>8. QED BY <2>7
<1>15. CASE UNCHANGED vars
  <2>1. Up' <=> Up
    BY <1>15 DEF vars, memory, Up
  <2>2. DocsOfManifest(manifest)' = DocsOfManifest(manifest)
    BY <1>15 DEF vars, disk, DocsOfManifest
  <2>3. QED BY <1>15, <2>1, <2>2, UnseenMaps DEF vars, disk, memory, history
<1>16. QED
  BY <1>1, <1>2, <1>3, <1>4, <1>5, <1>6, <1>7, <1>8, <1>9, <1>10, <1>11, <1>12, <1>13, <1>14, <1>15 DEF Next, Step

\* Documents are found only where they were offered, in every state.
THEOREM OriginInvariant == Spec => []OriginInv
<1>1. Init => OriginInv
  BY InitOriginInv
<1>2. QED BY <1>1, NextOriginInv, TypeCorrect, StemsInvariant, PTL DEF Spec

\* The writer, with its log, its segments and its manifest, with crashes,
\* losses of power and failing I/O at every step, is the index NrtIndex
\* promises.
THEOREM ImplementsNrtIndex == Spec => NrtSpec
<1>1. Init => Nrt!Init
  BY InitMaps
<1>2. TypeOK /\ StemInv /\ DurableInv /\ OriginInv /\ OriginInv' /\ [Next]_vars =>
        [Nrt!Next]_Nrt!nrtVars
  BY NextMaps
<1>3. QED
  BY <1>1, <1>2, TypeCorrect, StemsInvariant, DurableInvariant, OriginInvariant, PTL
     DEF Spec, NrtSpec, Nrt!Spec
=============================================================================
