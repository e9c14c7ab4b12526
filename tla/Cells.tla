-------------------------------- MODULE Cells --------------------------------
(***************************************************************************)
(* A text as its parsers read it: a sequence of cells, left to right, and  *)
(* the place of the next one.  The parsers of queries and of JSON have     *)
(* these helpers in common, each as members of a class of its own.         *)
(***************************************************************************)
EXTENDS Naturals, Sequences

Eof(in, p) == p > Len(in)

\* The next cell is c: Peek, or the test of Consume.
At(in, p, c) == ~Eof(in, p) /\ in[p] = c

\* The first cell from p on that is not one of some.
Past(in, p, Some(_)) ==
    CHOOSE q \in p .. Len(in) + 1 :
        (Eof(in, q) \/ ~Some(in[q])) /\ \A r \in p .. q - 1 : Some(in[r])

SkipWs(in, p) == Past(in, p, LAMBDA c : c \in {" ", "\t", "\n", "\r"})

\* What a parser gives: a value and the cell behind it, or a refusal, which
\* ends everything.
Err == [ok |-> FALSE]
Read(val, pos) == [ok |-> TRUE, val |-> val, pos |-> pos]
Then(r, Rest(_, _)) == IF r.ok THEN Rest(r.val, r.pos) ELSE Err
=============================================================================
