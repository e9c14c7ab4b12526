------------------------------- MODULE Cursor -------------------------------
(***************************************************************************)
(* What DocIdSetIterator promises: a walk, upwards, over a set of          *)
(* documents.  The set is chosen once; Next goes to its next document and  *)
(* Advance to its first document at or behind a target.  At the end the    *)
(* current document is the sentinel, and the walk is over.                 *)
(***************************************************************************)
EXTENDS Naturals

CONSTANTS
    Docs,           \* the documents
    End             \* the sentinel, larger than every document

VARIABLES
    set,            \* the documents walked over, {} until they are chosen
    current,        \* the document the cursor is at, or End
    phase           \* "none", "built", "walking"

vars == <<set, current, phase>>

Init == set = {} /\ current = End /\ phase = "none"

\* The first document of the set at or behind d, or End.
FirstFrom(d) ==
    LET from == {x \in set : x >= d}
    IN  IF from = {} THEN End ELSE CHOOSE x \in from : \A y \in from : x <= y

Build ==
    /\ phase = "none"
    /\ phase' = "built"
    /\ set' \in SUBSET Docs
    /\ current' = End

First ==
    /\ phase = "built"
    /\ phase' = "walking"
    /\ current' = FirstFrom(0)
    /\ UNCHANGED set

NextDoc ==
    /\ phase = "walking" /\ current # End
    /\ current' = FirstFrom(current + 1)
    /\ UNCHANGED <<set, phase>>

Advance(target) ==
    /\ phase = "walking" /\ current # End
    /\ current < target
    /\ current' = FirstFrom(target)
    /\ UNCHANGED <<set, phase>>

Next == Build \/ First \/ NextDoc \/ \E target \in Docs \cup {End} : Advance(target)

Spec == Init /\ [][Next]_vars
=============================================================================
