------------------------------ MODULE Postings ------------------------------
(***************************************************************************)
(* The bytes of a posting list and the cursor that decodes them:           *)
(* store/varbyte.cpp, WritePostings (index/segment_writer.cpp) and         *)
(* TermIterator (query/iterators.cpp).                                     *)
(*                                                                         *)
(* The widths are parameters.  In the code a varbyte carries 7 bits        *)
(* (GroupBits), and the bit above them, 0x80 (More), says that more follow;*)
(* a DocId, a term frequency and a document frequency are 32 bits wide     *)
(* (Width).  Small values bring the limits, the several-byte codes and the *)
(* wrap-arounds within reach of TLC.                                       *)
(***************************************************************************)
EXTENDS Integers, Sequences, FiniteSets, SequencesExt, FiniteSetsExt

CONSTANTS
    GroupBits,      \* payload bits of a varbyte: 7 in the code
    More,           \* the continuation bit, the least that is no payload: 0x80
    Width           \* bits of a DocId and of every uint32: 32 in the code

\* 1 << n.
TwoTo[n \in Nat] == IF n = 0 THEN 1 ELSE 2 * TwoTo[n - 1]

ASSUME WidthAssumption ==
    GroupBits \in Nat \ {0} /\ More = TwoTo[GroupBits] /\ Width \in Nat \ {0}

ByteMax == 2 * More - 1         \* 255
WordMax == TwoTo[Width] - 1     \* the largest uint32

\* DocId is a uint32; its largest value is the sentinel.
kNoMoreDocs == WordMax
\* Two bytes hold a position; their largest value is the sentinel.
kNoPosition == (ByteMax + 1) * (ByteMax + 1) - 1

-----------------------------------------------------------------------------
\* store/varbyte.

EncodeVarUint[v \in Nat] ==
    IF v < More THEN <<v>> ELSE <<More + (v % More)>> \o EncodeVarUint[v \div More]

\* The last byte of the code that starts at byte c, or the place behind all
\* bytes when no byte ends it.
CodeEnd(bytes, c) ==
    CHOOSE e \in c .. Len(bytes) + 1 :
        /\ e = Len(bytes) + 1 \/ bytes[e] < More
        /\ \A i \in c .. e - 1 : bytes[i] >= More

\* What the payloads of the bytes from c to e amount to.
Payloads(bytes, c, e) ==
    LET value[i \in c .. e + 1] == IF i > e THEN 0 ELSE (bytes[i] % More) + More * value[i + 1]
    IN  value[c]

\* The value coded from byte c on, and where the next one starts.  A code is
\* refused when no byte ends it, or when a byte starts beyond the width.
DecodeVarUint(bytes, c, bits) ==
    LET e == CodeEnd(bytes, c)
    IN  IF e <= Len(bytes) /\ (e - c) * GroupBits < bits
        THEN [ok |-> TRUE, val |-> Payloads(bytes, c, e) % TwoTo[bits], next |-> e + 1]
        ELSE [ok |-> FALSE, val |-> 0, next |-> Min({e, Len(bytes)}) + 1]

-----------------------------------------------------------------------------
\* index/segment_writer: the posting list of a term, sorted by document.
\* A weight is counted in steps of its quantisation.

QuantizeTokenWeight(w) == Max({0, Min({w, ByteMax})})

U16LE(p) == <<p % (ByteMax + 1), p \div (ByteMax + 1)>>

\* A list has one posting of each of its documents.
Posting == [doc : 0 .. kNoMoreDocs - 1, tf : 0 .. WordMax, pos : 0 .. kNoPosition, weight : Int]

PostingLists ==
    {pl \in Seq(Posting) : \A i, j \in DOMAIN pl : i < j => pl[i].doc < pl[j].doc}

PostingEntry(pl, i, has_positions, has_token_weights) ==
       EncodeVarUint[IF i = 1 THEN pl[i].doc ELSE pl[i].doc - pl[i - 1].doc]
    \o EncodeVarUint[pl[i].tf]
    \o (IF has_positions THEN U16LE(pl[i].pos) ELSE <<>>)
    \o (IF has_token_weights THEN <<QuantizeTokenWeight(pl[i].weight)>> ELSE <<>>)

WritePostings(pl, has_positions, has_token_weights) ==
    EncodeVarUint[Len(pl)] \o
    FlattenSeq([i \in 1 .. Len(pl) |-> PostingEntry(pl, i, has_positions, has_token_weights)])

-----------------------------------------------------------------------------
\* query/iterators: TermIterator.  "cursor" is the place of the next byte;
\* "One" stands for the weight 1.0 of a posting without one.

One == 1

TermIterator(bytes, has_positions, has_token_weights) ==
    LET count == DecodeVarUint(bytes, 1, Width)
    IN  [kind |-> "term", bytes |-> bytes, cursor |-> count.next,
         remaining |-> count.val, df |-> count.val,
         has_positions |-> has_positions, has_token_weights |-> has_token_weights,
         current |-> kNoMoreDocs, prev |-> 0, freq |-> 0,
         pos |-> kNoPosition, weight |-> One, started |-> FALSE]

\* An entry cut short ends the iteration like the end of the list; its first
\* numbers, read before the end was met, are not looked at again.
TermNext(it) ==
    LET delta == DecodeVarUint(it.bytes, it.cursor, Width)
        tf    == DecodeVarUint(it.bytes, delta.next, Width)
        p     == tf.next
        w     == IF it.has_positions THEN p + 2 ELSE p
        next  == IF it.has_token_weights THEN w + 1 ELSE w
        doc   == (it.prev + delta.val) % (WordMax + 1)
    IN  IF it.remaining = 0 \/ ~delta.ok \/ ~tf.ok \/ next > Len(it.bytes) + 1
        THEN [it EXCEPT !.current = kNoMoreDocs]
        ELSE [it EXCEPT !.cursor = next, !.freq = tf.val,
                  !.pos = IF it.has_positions
                          THEN it.bytes[p] + (ByteMax + 1) * it.bytes[p + 1]
                          ELSE kNoPosition,
                  !.weight = IF it.has_token_weights THEN it.bytes[w] ELSE One,
                  !.started = TRUE, !.prev = doc, !.current = doc,
                  !.remaining = @ - 1]

\* The iterator after n calls of Next.
TermAfter(it, n) ==
    LET after[k \in Nat] == IF k = 0 THEN it ELSE TermNext(after[k - 1])
    IN  after[n]

\* Next until a document at or behind the target; the sentinel is the largest.
TermAdvance(it, target) ==
    IF it.current >= target /\ it.started THEN it
    ELSE TermAfter(it, Min({n \in 1 .. it.remaining + 1 :
                                TermAfter(it, n).current >= target}))
=============================================================================
