------------------------------ MODULE NrtIndex ------------------------------
(***************************************************************************)
(* What an index promises its callers, without log, segments or manifest:  *)
(* a document whose AddDocument returned Ok is found after the next        *)
(* Refresh; what can be found stays findable in every later process; and   *)
(* what a sealing Refresh made findable survives a loss of power.          *)
(*                                                                         *)
(* The documents in "lost" are exempt, and the actions say how one gets    *)
(* there: it was logged behind a torn record, the log could not be read by *)
(* an Open, or power went before the first segment was ever sealed.        *)
(***************************************************************************)
EXTENDS Naturals

CONSTANTS
  Doc,       \* the documents
  Rejected   \* those the index refuses

VARIABLES
  phase,     \* "new" until the schema is written, then "open" or "shut"
  offered,   \* documents AddDocument was called with
  acked,     \* those it returned Ok for
  visible,   \* what a search finds, or would find after an Open
  kept,      \* what was visible when the last sealing Refresh returned Ok
  lost,      \* documents that are promised nothing
  torn,      \* a record of the log was cut short
  failures   \* failing I/O calls

nrtVars == <<phase, offered, acked, visible, kept, lost, torn, failures>>

Init ==
  /\ phase = "new" /\ offered = {} /\ acked = {} /\ visible = {}
  /\ kept = {} /\ lost = {} /\ torn = FALSE /\ failures = 0

\* What a search may find: nothing that was not offered, nor refused.
Findable == offered \ Rejected

\* The process is gone; the manifest may be ahead of the last reader, never
\* behind it.
Ends ==
  /\ phase' = "shut"
  /\ visible \subseteq visible' /\ visible' \subseteq Findable

-----------------------------------------------------------------------------
\* The schema file of the new index is complete; until then nothing was
\* offered that a torn one could cost.
Create ==
  /\ phase = "new" /\ phase' = "shut"
  /\ UNCHANGED <<offered, acked, visible, kept, lost, torn, failures>>

Open ==
  /\ phase = "shut" /\ phase' = "open"
  /\ UNCHANGED <<offered, acked, visible, kept, lost, torn, failures>>

\* The log cannot be read: what is visible is not affected.
OpenUnread ==
  /\ phase = "shut" /\ phase' = "open" /\ failures' = failures + 1
  /\ lost \subseteq lost' /\ lost' \subseteq lost \cup offered
  /\ UNCHANGED <<offered, acked, visible, kept, torn>>

Logged(d) ==
  /\ phase = "open" /\ offered' = offered \cup {d}
  /\ \/ lost' = lost
     \/ torn /\ lost' = lost \cup {d}
  /\ UNCHANGED <<acked, kept>>

Offer(d) == Logged(d) /\ UNCHANGED <<phase, visible, torn, failures>>

OfferFails(d) ==
  /\ Logged(d) /\ failures' = failures + 1
  /\ torn' \in {torn, TRUE}
  /\ UNCHANGED <<phase, visible>>

OfferDies(d) == Logged(d) /\ torn' = TRUE /\ Ends /\ UNCHANGED failures

Ack(d) ==
  /\ phase = "open" /\ d \in Findable /\ acked' = acked \cup {d}
  /\ UNCHANGED <<phase, offered, visible, kept, lost, torn, failures>>

\* A Refresh returns Ok, with a new segment or with nothing to seal.
Refresh ==
  /\ phase = "open"
  /\ visible \cup (acked \ lost) \subseteq visible' /\ visible' \subseteq Findable
  /\ kept' \in {kept, visible'}
  /\ UNCHANGED <<phase, offered, acked, lost, torn, failures>>

\* On its way it secures documents that were lost, and empties the log.
Secure ==
  /\ phase = "open" /\ lost' \subseteq lost
  /\ UNCHANGED <<phase, offered, acked, visible, kept, torn, failures>>
Truncate ==
  /\ phase = "open" /\ torn' = FALSE
  /\ UNCHANGED <<phase, offered, acked, visible, kept, lost, failures>>

\* A call returns an error, with no other effect.
Fail ==
  /\ phase = "open" /\ failures' = failures + 1
  /\ UNCHANGED <<phase, offered, acked, visible, kept, lost, torn>>

Crash == phase = "open" /\ Ends /\ UNCHANGED <<offered, acked, kept, lost, torn, failures>>

\* The log vanishes only before the first Refresh that sealed.
PowerLoss ==
  /\ phase' = IF phase = "new" THEN "new" ELSE "shut"
  /\ kept \subseteq visible' /\ visible' \subseteq Findable
  /\ \/ UNCHANGED <<lost, torn>>
     \/ /\ kept = {} /\ torn' = FALSE
        /\ lost \subseteq lost' /\ lost' \subseteq lost \cup offered
  /\ UNCHANGED <<offered, acked, kept, failures>>

Next ==
  \/ Create \/ Open \/ OpenUnread
  \/ \E d \in Doc : Offer(d) \/ OfferFails(d) \/ OfferDies(d) \/ Ack(d)
  \/ Refresh \/ Secure \/ Truncate \/ Fail
  \/ Crash \/ PowerLoss

Spec == Init /\ [][Next]_nrtVars
=============================================================================
