------------------------------- MODULE Segment -------------------------------
(***************************************************************************)
(* One segment, from the documents to what a search reads of them:         *)
(* MutableSegment::AddDocument analyzes the texts of the fields (Analyzer) *)
(* and buffers postings in memory, SealSegment lays them out in files,     *)
(* SegmentReader::Open parses the files.  The posting bytes are those of   *)
(* Postings; the dictionary is kept as entries, a term as its place in the *)
(* order of the strings, and a stored blob as a sequence of texts.         *)
(* Failing I/O and crashes between these steps are in IndexWriter.         *)
(***************************************************************************)
EXTENDS Postings, Analyzer

CONSTANTS
    Schema,             \* the fields, a sequence of records: name, type, stored,
                        \* positions (position_decay > 0), weights
    StoreDocQuality,    \* store_doc_quality
    Spelling,           \* the texts of the terms, in the order of the strings
    Documents           \* what callers add: id, fields, weights, quality

ASSUME SpellingAssumption == IsInjective(Spelling)

\* A term is the place of its text.
Terms == DOMAIN Spelling
TermOf(text) == CHOOSE t \in Terms : Spelling[t] = text

\* A set of numbers in ascending order.
Ordered(S) ==
    [n \in 1 .. Cardinality(S) |-> CHOOSE x \in S : Cardinality({y \in S : y < x}) = n - 1]

kIdField == <<"_", "id">>
NoId == <<>>            \* the empty string
None == [open |-> FALSE]

VARIABLES
    added,              \* history: the documents accepted, in order
    field_data_,        \* per field: postings, doc_count, sum_field_length
    stored_blobs_,      \* per document: what SegmentReader gives back
    doc_quality_,
    reader              \* the segment sealed and opened, or None

segVars == <<added, field_data_, stored_blobs_, doc_quality_, reader>>

next_doc_id_ == Len(stored_blobs_)

-----------------------------------------------------------------------------
\* MutableSegment.

SegInit ==
    /\ added = <<>>
    /\ field_data_ = [f \in DOMAIN Schema |->
                         [postings |-> <<>>, doc_count |-> 0, sum_field_length |-> 0]]
    /\ stored_blobs_ = <<>>
    /\ doc_quality_ = <<>>
    /\ reader = None

\* The terms of a text, by the type of its field.
Analyzed(type, text) ==
    LET tokens == Analyze(type, text) IN [i \in DOMAIN tokens |-> TermOf(tokens[i].text)]

\* The tokens of a field of the document, <<>> when it has none.
Tokens(doc, f) ==
    LET name == Schema[f].name
    IN  IF name = kIdField THEN Analyzed(Schema[f].type, doc.id)
        ELSE IF name \in DOMAIN doc.fields
        THEN Analyzed(Schema[f].type, doc.fields[name]) ELSE <<>>

\* The caller's weight of each token of a field, and what a posting keeps of
\* them: the largest, 1.0 for a token without one.
Weighted(doc, f) == Schema[f].weights /\ Schema[f].name \in DOMAIN doc.weights

MaxTokenWeight(doc, f, at) ==
    LET w == doc.weights[Schema[f].name]
    IN  IF Weighted(doc, f)
        THEN Max({0} \cup {IF i <= Len(w) THEN w[i] ELSE One : i \in at})
        ELSE One

PostingOf(doc, f, t) ==
    LET tokens == Tokens(doc, f)
        at     == {i \in DOMAIN tokens : tokens[i] = t}
    IN  [doc |-> next_doc_id_, tf |-> Cardinality(at),
         pos |-> Min({Min(at) - 1, kNoPosition}), weight |-> MaxTokenWeight(doc, f, at)]

WithPostings(doc, f) ==
    LET tokens == Tokens(doc, f)
        old    == field_data_[f]
        listOf(t) == IF t \in DOMAIN old.postings THEN old.postings[t] ELSE <<>>
    IN  IF tokens = <<>> THEN old
        ELSE [postings |-> [t \in DOMAIN old.postings \cup Range(tokens) |->
                               IF t \in Range(tokens)
                               THEN Append(listOf(t), PostingOf(doc, f, t)) ELSE listOf(t)],
              doc_count |-> old.doc_count + 1,
              sum_field_length |-> old.sum_field_length + Len(tokens)]

\* The stored JSON: the id, and each stored field the document has.
Blob(doc) ==
    <<doc.id>> \o
    FlattenSeq([f \in DOMAIN Schema |->
        IF /\ Schema[f].stored /\ Schema[f].name # kIdField
           /\ Schema[f].name \in DOMAIN doc.fields
        THEN <<Schema[f].name, doc.fields[Schema[f].name]>> ELSE <<>>])

\* The terms of the documents are spelled, and neither their number nor the
\* length of a blob is beyond a uint32.
ASSUME DocumentsAssumption ==
    /\ Spelling \in Seq(Range(Spelling)) /\ Schema \in Seq(Range(Schema))
    /\ \A f \in DOMAIN Schema : Schema[f].positions \in BOOLEAN /\ Schema[f].weights \in BOOLEAN
    /\ \A doc \in Documents :
           /\ Len(Blob(doc)) <= WordMax
           /\ \A f \in DOMAIN Schema :
                  /\ Tokens(doc, f) \in Seq(Terms) /\ Len(Tokens(doc, f)) <= WordMax
                  /\ Weighted(doc, f) => doc.weights[Schema[f].name] \in Seq(Int)

\* Mutant: the DocIds may run out.
AddDocumentUnchecked(doc) ==
    /\ reader = None
    /\ doc.id # NoId
    /\ next_doc_id_ <= kNoMoreDocs
    /\ added' = Append(added, doc)
    /\ field_data_' = [f \in DOMAIN Schema |-> WithPostings(doc, f)]
    /\ stored_blobs_' = Append(stored_blobs_, Blob(doc))
    /\ doc_quality_' = IF StoreDocQuality THEN Append(doc_quality_, doc.quality)
                       ELSE doc_quality_
    /\ UNCHANGED reader

\* A document without an id, or one more than there are DocIds, is refused
\* and changes nothing.
AddDocument(doc) ==
    /\ reader = None
    /\ doc.id # NoId
    /\ next_doc_id_ # kNoMoreDocs
    /\ added' = Append(added, doc)
    /\ field_data_' = [f \in DOMAIN Schema |-> WithPostings(doc, f)]
    /\ stored_blobs_' = Append(stored_blobs_, Blob(doc))
    /\ doc_quality_' = IF StoreDocQuality THEN Append(doc_quality_, doc.quality)
                       ELSE doc_quality_
    /\ UNCHANGED reader

-----------------------------------------------------------------------------
\* SealSegment: the files.

SortedTerms(f) == Ordered(DOMAIN field_data_[f].postings)

\* The posting list is sorted by document, although it is appended in order;
\* it has one posting of a document.
ByDocument(pl) ==
    LET docs == Ordered({p.doc : p \in Range(pl)})
    IN  [n \in DOMAIN docs |-> CHOOSE p \in Range(pl) : p.doc = docs[n]]

TermBytes(f, t) ==
    WritePostings(ByDocument(field_data_[f].postings[t]), Schema[f].positions, Schema[f].weights)

\* The bytes of the first n terms of a field, of the first n fields, of the
\* first n blobs; their lengths are the offsets the files record.
TermsBytes(f, n) == FlattenSeq([i \in 1 .. n |-> TermBytes(f, SortedTerms(f)[i])])
FieldBytes(f) == TermsBytes(f, Len(SortedTerms(f)))
FieldsBytes(n) == FlattenSeq([f \in 1 .. n |-> FieldBytes(f)])
BlobsBytes(n) ==
    FlattenSeq([d \in 1 .. n |-> EncodeVarUint[Len(stored_blobs_[d])] \o stored_blobs_[d]])

TotalTf(pl) == FoldLeft(LAMBDA n, p : n + p.tf, 0, pl)

\* Mutant: the offset from the start of the file.
TermEntryAbsolute(f, i) ==
    LET t  == SortedTerms(f)[i]
        pl == field_data_[f].postings[t]
    IN  [term |-> t, df |-> Len(pl),
         total_tf |-> TotalTf(pl),
         postings_offset |-> Len(FieldsBytes(f - 1)) + Len(TermsBytes(f, i - 1)),
         postings_bytes |-> Len(TermBytes(f, t))]

TermEntry(f, i) ==
    LET t  == SortedTerms(f)[i]
        pl == field_data_[f].postings[t]
    IN  [term |-> t, df |-> Len(pl),
         total_tf |-> TotalTf(pl),
         postings_offset |-> Len(TermsBytes(f, i - 1)),
         postings_bytes |-> Len(TermBytes(f, t))]

FieldStats(f) ==
    [name |-> Schema[f].name,
     doc_count |-> field_data_[f].doc_count,
     sum_field_length |-> field_data_[f].sum_field_length,
     doc_offset |-> Len(FieldsBytes(f - 1)),
     has_positions |-> Schema[f].positions,
     has_token_weights |-> Schema[f].weights,
     terms |-> [i \in DOMAIN SortedTerms(f) |-> TermEntry(f, i)]]

\* What the files say of the buffers, all read back by SegmentReader::Open.
Sealed ==
    [open |-> TRUE,
     doc_count |-> next_doc_id_,
     fields |-> [f \in DOMAIN Schema |-> FieldStats(f)],
     doc_buf |-> FieldsBytes(Len(Schema)),
     fdt_buf |-> BlobsBytes(next_doc_id_),
     fdx_offsets |-> [d \in 1 .. next_doc_id_ |-> Len(BlobsBytes(d - 1))],
     doc_quality |-> doc_quality_]

\* SealCurrentSegment: SealSegment, unless there is nothing to seal, then
\* SegmentReader::Open.
Seal ==
    /\ reader = None
    /\ next_doc_id_ # 0
    /\ reader' = Sealed
    /\ UNCHANGED <<added, field_data_, stored_blobs_, doc_quality_>>

SegNext == (\E doc \in Documents : AddDocument(doc)) \/ Seal

SegSpec == SegInit /\ [][SegNext]_segVars

-----------------------------------------------------------------------------
\* SegmentReader: what a search asks of it.  A field or a term it does not
\* have is 0, an entry of a dictionary its index.

GetFieldId(name) ==
    LET at == {f \in DOMAIN reader.fields : reader.fields[f].name = name}
    IN  IF at = {} THEN 0 ELSE Min(at)

\* std::lower_bound over the sorted dictionary.
FindTerm(f, t) ==
    LET terms == reader.fields[f].terms
        from  == {i \in DOMAIN terms : terms[i].term >= t}
    IN  IF from = {} \/ terms[Min(from)].term # t THEN 0 ELSE Min(from)

PostingBytes(f, i) ==
    LET te  == reader.fields[f].terms[i]
        off == reader.fields[f].doc_offset + te.postings_offset
    IN  IF off + te.postings_bytes > Len(reader.doc_buf) THEN <<>>
        ELSE SubSeq(reader.doc_buf, off + 1, off + te.postings_bytes)

DocQuality(d) == IF d >= Len(reader.doc_quality) THEN 0 ELSE reader.doc_quality[d + 1]

StoredFields(d) ==
    LET len == DecodeVarUint(reader.fdt_buf, reader.fdx_offsets[d + 1] + 1, Width)
    IN  IF d >= Len(reader.fdx_offsets) \/ ~len.ok
           \/ Len(reader.fdt_buf) - len.next + 1 < len.val THEN <<>>
        ELSE SubSeq(reader.fdt_buf, len.next, len.next + len.val - 1)

-----------------------------------------------------------------------------
\* Properties.

DocIds == {d - 1 : d \in DOMAIN added}

\* The tokens of each field of each document.
TokensOf == [doc \in Documents |-> [f \in DOMAIN Schema |-> Tokens(doc, f)]]
TokensAt(d, f) == TokensOf[added[d + 1]][f]

\* What a cursor over a posting list gives, document by document.
Scan(f, i) ==
    LET it == TermIterator(PostingBytes(f, i), reader.fields[f].has_positions,
                           reader.fields[f].has_token_weights)
    IN  [n \in 1 .. it.remaining |->
            LET at == TermAfter(it, n) IN <<at.current, at.freq, at.pos, at.weight>>]

\* What the documents say of a term: its documents in order, each with the
\* number of times it occurs, where it occurs first as far as two bytes can
\* say, and its weight.
Occurs(f, t) == {d \in DocIds : t \in Range(TokensAt(d, f))}

SaidOf(f, t) ==
    LET docs == Ordered(Occurs(f, t))
        at(d) == {i \in DOMAIN TokensAt(d, f) : TokensAt(d, f)[i] = t}
    IN  [n \in DOMAIN docs |->
            <<docs[n], Cardinality(at(docs[n])),
              IF Schema[f].positions THEN Min({Min(at(docs[n])) - 1, kNoPosition})
              ELSE kNoPosition,
              IF Schema[f].weights
              THEN QuantizeTokenWeight(MaxTokenWeight(added[docs[n] + 1], f, at(docs[n])))
              ELSE One>>]

\* Every term of every field is found exactly when a document has it, and its
\* posting list, read back from the bytes with the flags the segment records,
\* is what the documents say (writer, offsets, dictionary, reader, cursor);
\* the field counts the documents that have a token in it, for BM25.
Inverted ==
    reader.open =>
        \A f \in DOMAIN Schema :
            /\ reader.fields[f].doc_count = Cardinality({d \in DocIds : TokensAt(d, f) # <<>>})
            /\ \A t \in Terms :
                   IF Occurs(f, t) = {} THEN FindTerm(f, t) = 0
                   ELSE /\ FindTerm(f, t) # 0
                        /\ Scan(f, FindTerm(f, t)) = SaidOf(f, t)
                        /\ reader.fields[f].terms[FindTerm(f, t)].df = Cardinality(Occurs(f, t))

\* Each document's stored fields and quality come back under its own DocId.
StoredBack ==
    reader.open =>
        /\ reader.doc_count = Len(added)
        /\ \A d \in DocIds :
               /\ StoredFields(d) = Blob(added[d + 1])
               /\ DocQuality(d) = IF StoreDocQuality THEN added[d + 1].quality ELSE 0

\* What a sealed segment gives back is what was added to it.
SegmentGivesBack == Inverted /\ StoredBack

SegTypeOK ==
    /\ added \in Seq(Documents) /\ Len(added) <= kNoMoreDocs
    /\ \A f \in DOMAIN Schema :
           /\ DOMAIN field_data_[f].postings \subseteq Terms
           /\ field_data_[f].doc_count \in 0 .. Len(added)
    /\ Len(stored_blobs_) = Len(added)
    /\ Len(doc_quality_) \in {0, Len(added)}
=============================================================================
