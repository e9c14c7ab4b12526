---------------------------- MODULE SearchServer ----------------------------
(***************************************************************************)
(* The search server of src/server: handlers that HTTP workers run side by *)
(* side over one map from index names to writers; Start, which opens every *)
(* index on disk, and Stop, which seals and closes them.                   *)
(*                                                                         *)
(* A handler takes a step each time it takes writers_mu_ or the mutex of a *)
(* writer, or touches the file system.  A writer is what IndexWriter shows *)
(* of it when its I/O succeeds: a log, a manifest, pending, sealed and     *)
(* published documents.  Refresh is two steps with the mutex held between. *)
(***************************************************************************)
EXTENDS Naturals, FiniteSets

CONSTANTS
  Thread, Name, Doc,
  Writer,    \* addresses of IndexWriter objects
  None,      \* no writer, no name, no document, no thread
  MaxStarts  \* bound: calls of Start

ASSUME ConstantsAssumption ==
  /\ None \notin Thread \cup Name \cup Doc \cup Writer
  /\ MaxStarts \in Nat

VARIABLES
  main,      \* where the thread that owns the server is
  writers,   \* writers_
  obj,       \* the IndexWriter objects
  disk,      \* the directories of the indexes
  call,      \* what each HTTP worker executes
  acked,     \* history: the documents answered 201, of each index
  shown,     \* history: those that searches still to come must find
  raced,     \* history: the indexes that two requests have created at once
  starts

vars == <<main, writers, obj, disk, call, acked, shown, raced, starts>>

-----------------------------------------------------------------------------
\* Mutant: the log is not replayed.
OpenedNoReplay(n) == [dir |-> n, pending |-> {}, sealed |-> disk[n].manifest,
                      published |-> disk[n].manifest, mu |-> None]

\* No object at this address; an object on the directory of n as Open
\* leaves it: segments loaded, log replayed, reader published.
Dead == [dir |-> None, pending |-> {}, sealed |-> {}, published |-> {}, mu |-> None]
Opened(n) == [dir |-> n, pending |-> disk[n].log, sealed |-> disk[n].manifest,
              published |-> disk[n].manifest, mu |-> None]

Alive == {x \in Writer : obj[x].dir # None}

Idle == [pc |-> "idle", op |-> "none", name |-> None, doc |-> None, w |-> None,
         must |-> {}, result |-> {}]

Init ==
  /\ main = "killed"
  /\ writers = [n \in Name |-> None] /\ obj = [x \in Writer |-> Dead]
  /\ disk = [n \in Name |-> [dir |-> FALSE, schema |-> FALSE, manifest |-> {}, log |-> {}]]
  /\ call = [t \in Thread |-> Idle]
  /\ acked = [n \in Name |-> {}] /\ shown = [n \in Name |-> {}]
  /\ raced = {} /\ starts = 0

At(t, pc) == call[t].pc = pc
Goto(t, pc) == call' = [call EXCEPT ![t].pc = pc]
GotoWith(t, pc, x) == call' = [call EXCEPT ![t].pc = pc, ![t].w = x]
Return(t) == call' = [call EXCEPT ![t] = Idle]

-----------------------------------------------------------------------------
(* The owner of the server.                                                *)

\* Every directory that holds an index gets a writer; others are skipped.
Start ==
  /\ main \in {"down", "killed"} /\ starts < MaxStarts
  /\ LET indexes == {n \in Name : disk[n].schema}
     IN  \E new \in [indexes -> Writer] :
           /\ \A m, n \in indexes : new[m] = new[n] => m = n
           /\ writers' = [n \in Name |-> IF n \in indexes THEN new[n] ELSE None]
           /\ obj' = [x \in Writer |->
                        IF \E n \in indexes : new[n] = x
                        THEN Opened(CHOOSE n \in indexes : new[n] = x) ELSE Dead]
  /\ main' = "up" /\ starts' = starts + 1
  /\ UNCHANGED <<disk, call, acked, shown, raced>>

\* HttpServer::Stop begins; until it returns its workers finish their
\* requests, and may still take one that was accepted before.
StopHttp ==
  /\ main = "up" /\ main' = "stopping"
  /\ UNCHANGED <<writers, obj, disk, call, acked, shown, raced, starts>>

\* What Refresh and Close of all writers leave.
Seal(n) == [disk[n] EXCEPT !.manifest = obj[writers[n]].sealed \cup obj[writers[n]].pending,
                           !.log = {}]
Sealed(n) == writers[n] # None /\ obj[writers[n]].pending # {}

\* Mutants: the workers are not joined; nothing is refreshed.
CloseWritersNoJoin ==
  /\ main = "stopping"
  /\ disk' = [n \in Name |-> IF Sealed(n) THEN Seal(n) ELSE disk[n]]
  /\ writers' = [n \in Name |-> None] /\ obj' = [x \in Writer |-> Dead]
  /\ main' = "down"
  /\ UNCHANGED <<call, acked, shown, raced, starts>>
CloseWritersNoRefresh ==
  /\ main = "stopping" /\ \A t \in Thread : At(t, "idle")
  /\ writers' = [n \in Name |-> None] /\ obj' = [x \in Writer |-> Dead]
  /\ main' = "down"
  /\ UNCHANGED <<disk, call, acked, shown, raced, starts>>

\* The workers are joined; the writers refreshed, closed and destroyed.
CloseWriters ==
  /\ main = "stopping" /\ \A t \in Thread : At(t, "idle")
  /\ disk' = [n \in Name |-> IF Sealed(n) THEN Seal(n) ELSE disk[n]]
  /\ writers' = [n \in Name |-> None] /\ obj' = [x \in Writer |-> Dead]
  /\ main' = "down"
  /\ UNCHANGED <<call, acked, shown, raced, starts>>

\* The process ends without Stop.
Kill ==
  /\ main \in {"up", "stopping"} /\ main' = "killed"
  /\ writers' = [n \in Name |-> None] /\ obj' = [x \in Writer |-> Dead]
  /\ call' = [t \in Thread |-> Idle]
  /\ UNCHANGED <<disk, acked, shown, raced, starts>>

-----------------------------------------------------------------------------
(* Requests.  One that is refused before it touches an index changes       *)
(* nothing; a document stands for one that is sent, to one index.          *)

Acked == UNION {acked[n] : n \in Name}

Request(t) ==
  /\ main \in {"up", "stopping"} /\ At(t, "idle")
  /\ \E n \in Name :
       \/ call' = [call EXCEPT ![t].pc = "exists", ![t].name = n]
       \/ \E d \in Doc \ Acked :
            call' = [call EXCEPT ![t].pc = "lookup", ![t].op = "post", ![t].name = n,
                                 ![t].doc = d]
       \/ call' = [call EXCEPT ![t].pc = "lookup", ![t].op = "refresh", ![t].name = n,
                               ![t].must = acked[n]]
       \/ call' = [call EXCEPT ![t].pc = "lookup", ![t].op = "search", ![t].name = n,
                               ![t].must = shown[n]]
  /\ UNCHANGED <<main, writers, obj, disk, acked, shown, raced, starts>>

\* A create of n has found no index, and makes one.
PastChecks(t, n) == call[t].name = n /\ call[t].pc \in {"mkdir", "open", "insert"}

\* It gets past the checks, whoever else has.
PassChecks(t) ==
  /\ Goto(t, "mkdir")
  /\ raced' = raced \cup {n \in {call[t].name} : \E u \in Thread : PastChecks(u, n)}

\* CreateIndex looks for the directory without a lock ...
Exists(t) ==
  /\ At(t, "exists")
  /\ IF disk[call[t].name].dir THEN Goto(t, "count") /\ UNCHANGED raced ELSE PassChecks(t)
  /\ UNCHANGED <<main, writers, obj, disk, acked, shown, starts>>

\* ... for a writer with the lock, and for neither again: 409 ...
Count(t) ==
  /\ At(t, "count")
  /\ IF writers[call[t].name] # None THEN Return(t) /\ UNCHANGED raced ELSE PassChecks(t)
  /\ UNCHANGED <<main, writers, obj, disk, acked, shown, starts>>

MakeDirectory(t) ==
  /\ At(t, "mkdir") /\ Goto(t, "open")
  /\ disk' = [disk EXCEPT ![call[t].name].dir = TRUE]
  /\ UNCHANGED <<main, writers, obj, acked, shown, raced, starts>>

OpenWriter(t) ==
  /\ At(t, "open")
  /\ \E x \in Writer \ Alive :
       obj' = [obj EXCEPT ![x] = Opened(call[t].name)] /\ GotoWith(t, "insert", x)
  /\ disk' = [disk EXCEPT ![call[t].name].schema = TRUE]
  /\ UNCHANGED <<main, writers, acked, shown, raced, starts>>

\* 500; the schema may have been written.
OpenFails(t) ==
  /\ At(t, "open") /\ Return(t)
  /\ \E s \in {TRUE, disk[call[t].name].schema} :
       disk' = [disk EXCEPT ![call[t].name].schema = s]
  /\ UNCHANGED <<main, writers, obj, acked, shown, raced, starts>>

\* Mutant: the writer that is replaced is not destroyed.
InsertLeaks(t) ==
  /\ At(t, "insert")
  /\ writers' = [writers EXCEPT ![call[t].name] = call[t].w]
  /\ Return(t)
  /\ UNCHANGED <<main, obj, disk, acked, shown, raced, starts>>

\* ... and the writer replaces and destroys whatever the map holds by now.
\* Its destructor closes, which waits for the mutex of the writer.
Insert(t) ==
  LET n == call[t].name
      old == writers[n]
  IN  /\ At(t, "insert")
      /\ old # None => obj[old].mu = None
      /\ writers' = [writers EXCEPT ![n] = call[t].w]
      /\ obj' = IF old = None THEN obj ELSE [obj EXCEPT ![old] = Dead]
      /\ Return(t)
      /\ UNCHANGED <<main, disk, acked, shown, raced, starts>>

\* Mutant: the result of GetWriter is not tested.
LookupUntested(t) ==
  /\ At(t, "lookup")
  /\ GotoWith(t, call[t].op, writers[call[t].name])
  /\ UNCHANGED <<main, writers, obj, disk, acked, shown, raced, starts>>

\* GetWriter: 404, or a plain pointer that is used without the lock.
Lookup(t) ==
  /\ At(t, "lookup")
  /\ IF writers[call[t].name] = None THEN Return(t)
                                     ELSE GotoWith(t, call[t].op, writers[call[t].name])
  /\ UNCHANGED <<main, writers, obj, disk, acked, shown, raced, starts>>

\* A call finds the writer alive, at its address no other, and its mutex
\* free.  What a call on a destroyed writer does is undefined, and no step:
\* WriterInUseLives says where it cannot happen.
Enters(t) ==
  /\ call[t].w \in Alive /\ obj[call[t].w].dir = call[t].name
  /\ obj[call[t].w].mu = None

AddDocument(t) ==
  LET n == call[t].name
      x == call[t].w
      d == call[t].doc
  IN  /\ At(t, "post") /\ Enters(t)
      /\ disk' = [disk EXCEPT ![n].log = @ \cup {d}]
      /\ obj' = [obj EXCEPT ![x].pending = @ \cup {d}]
      /\ acked' = [acked EXCEPT ![n] = @ \cup {d}]
      /\ Return(t)
      /\ UNCHANGED <<main, writers, shown, raced, starts>>

\* Nothing pending: the reader is published again.
RefreshNothing(t) ==
  LET x == call[t].w
  IN  /\ At(t, "refresh") /\ Enters(t) /\ obj[x].pending = {}
      /\ obj' = [obj EXCEPT ![x].published = obj[x].sealed]
      /\ shown' = [shown EXCEPT ![call[t].name] = @ \cup call[t].must]
      /\ Return(t)
      /\ UNCHANGED <<main, writers, disk, acked, raced, starts>>

\* Seal the pending documents and swap the manifest, with the mutex ...
RefreshSeal(t) ==
  LET x == call[t].w
  IN  /\ At(t, "refresh") /\ Enters(t) /\ obj[x].pending # {}
      /\ obj' = [obj EXCEPT ![x].sealed = @ \cup obj[x].pending, ![x].mu = t]
      /\ disk' = [disk EXCEPT ![call[t].name].manifest = obj[x].sealed \cup obj[x].pending]
      /\ Goto(t, "publish")
      /\ UNCHANGED <<main, writers, acked, shown, raced, starts>>

\* Mutant: the new reader is not published.
PublishOmitted(t) ==
  LET x == call[t].w
  IN  /\ At(t, "publish")
      /\ disk' = [disk EXCEPT ![call[t].name].log = {}]
      /\ obj' = [obj EXCEPT ![x].pending = {}, ![x].mu = None]
      /\ shown' = [shown EXCEPT ![call[t].name] = @ \cup call[t].must]
      /\ Return(t)
      /\ UNCHANGED <<main, writers, acked, raced, starts>>

\* ... then truncate the log, publish and answer.
Publish(t) ==
  LET x == call[t].w
  IN  /\ At(t, "publish")
      /\ disk' = [disk EXCEPT ![call[t].name].log = {}]
      /\ obj' = [obj EXCEPT ![x].pending = {}, ![x].published = obj[x].sealed, ![x].mu = None]
      /\ shown' = [shown EXCEPT ![call[t].name] = @ \cup call[t].must]
      /\ Return(t)
      /\ UNCHANGED <<main, writers, acked, raced, starts>>

CurrentReader(t) ==
  /\ At(t, "search") /\ Enters(t)
  /\ call' = [call EXCEPT ![t].pc = "respond", ![t].result = obj[call[t].w].published]
  /\ UNCHANGED <<main, writers, obj, disk, acked, shown, raced, starts>>

\* The search itself, on the snapshot.
Respond(t) ==
  /\ At(t, "respond")
  /\ shown' = [shown EXCEPT ![call[t].name] = @ \cup call[t].result]
  /\ Return(t)
  /\ UNCHANGED <<main, writers, obj, disk, acked, raced, starts>>

CreateIndex(t) ==
  Exists(t) \/ Count(t) \/ MakeDirectory(t) \/ OpenWriter(t) \/ OpenFails(t) \/ Insert(t)

Refresh(t) == RefreshNothing(t) \/ RefreshSeal(t) \/ Publish(t)

Search(t) == CurrentReader(t) \/ Respond(t)

Next ==
  \/ Start \/ StopHttp \/ CloseWriters \/ Kill
  \/ \E t \in Thread :
       \/ Request(t) \/ CreateIndex(t) \/ Lookup(t)
       \/ AddDocument(t) \/ Refresh(t) \/ Search(t)

Spec == Init /\ [][Next]_vars

-----------------------------------------------------------------------------
Using == {"post", "refresh", "publish", "search"}

Object == [dir : Name \cup {None}, pending : SUBSET Doc, sealed : SUBSET Doc,
           published : SUBSET Doc, mu : Thread \cup {None}]
Directory == [dir : BOOLEAN, schema : BOOLEAN, manifest : SUBSET Doc, log : SUBSET Doc]
Call ==
  [pc : Using \cup {"idle", "exists", "count", "mkdir", "open", "insert", "lookup", "respond"},
   op : {"none", "post", "refresh", "search"},
   name : Name \cup {None}, doc : Doc \cup {None}, w : Writer \cup {None},
   must : SUBSET Doc, result : SUBSET Doc]

TypeOK ==
  /\ main \in {"killed", "up", "stopping", "down"}
  /\ writers \in [Name -> Writer \cup {None}]
  /\ obj \in [Writer -> Object] /\ disk \in [Name -> Directory] /\ call \in [Thread -> Call]
  /\ \A t \in Thread :
       /\ call[t].pc \in Using \cup {"insert"} => call[t].w # None
       /\ ~At(t, "idle") => call[t].name # None
       /\ call[t].pc \in {"post", "refresh", "search"} => call[t].op = call[t].pc
       /\ At(t, "lookup") => call[t].op # "none"
       /\ call[t].op = "post" => call[t].doc # None
  /\ acked \in [Name -> SUBSET Doc] /\ shown \in [Name -> SUBSET Doc]
  /\ raced \in SUBSET Name /\ starts \in Nat

\* "There is at most one `IndexWriter` per index directory at any time"
\* (DESIGN.md:92) does not hold when creates overlap.  What they may do at
\* worst: a live writer is in the map under the name of its directory, or in
\* the hand of one create that is about to put it there, and of no other.  So
\* a second writer lives no longer than the create that made it, and Stop
\* seals and closes all there are.
WritersOwned ==
  /\ \A n \in Name : writers[n] # None =>
       writers[n] \in Alive /\ obj[writers[n]].dir = n
  /\ \A t \in Thread : At(t, "insert") =>
       /\ call[t].w \in Alive /\ obj[call[t].w].dir = call[t].name
       /\ \A n \in Name : writers[n] # call[t].w
  /\ \A t, u \in Thread : At(t, "insert") /\ At(u, "insert") /\ call[t].w = call[u].w => t = u
  /\ \A x \in Alive :
       writers[obj[x].dir] = x \/ \E t \in Thread : At(t, "insert") /\ call[t].w = x

\* A handler uses a writer it looked up earlier, without the lock: nobody
\* has destroyed it meanwhile, neither a create nor Stop, unless two requests
\* were past the checks of CreateIndex for this very index at once.
WriterInUseLives ==
  \A t \in Thread :
    call[t].pc \in Using /\ call[t].name \notin raced =>
      call[t].w \in Alive /\ obj[call[t].w].dir = call[t].name

\* What was answered 201 is on disk, and found again by the writer in the
\* map: over creates, refreshes, stops and the end of the process.
Kept(n) ==
  /\ acked[n] \subseteq disk[n].manifest \cup disk[n].log
  /\ writers[n] # None =>
       acked[n] \subseteq obj[writers[n]].sealed \cup obj[writers[n]].pending

\* "The translog is fsynced before returning" (index_writer.h:48): of every
\* index.
AckedKept == \A n \in Name : Kept(n)

\* Of every index that no two requests created at once, whatever became of
\* those that were.
KeptUnlessRaced == \A n \in Name \ raced : Kept(n)

\* A search finds what was acknowledged before a refresh that had answered
\* when the search was sent, and what an earlier search had found, in this
\* process or one before.
SearchesShow ==
  \A t \in Thread :
    At(t, "respond") /\ call[t].name \notin raced => call[t].must \subseteq call[t].result

\* "Clean shutdown: seal any pending docs, then close."
\* (search_server.cpp:130): after Stop the next process replays nothing.
StopSeals ==
  main = "down" =>
    \A n \in Name \ raced : acked[n] \subseteq disk[n].manifest /\ disk[n].log = {}

-----------------------------------------------------------------------------
(* The inductive invariants behind them (SearchServerProofs).              *)

MapInv ==
  /\ WritersOwned
  /\ \A n \in Name : writers[n] # None => disk[n].schema
  /\ \A n \in Name : disk[n].schema => disk[n].dir
  /\ main \in {"down", "killed"} => \A x \in Writer : obj[x] = Dead

\* What a handler has of the server at each point ...
CallInv ==
  /\ \A t \in Thread : ~At(t, "idle") => main \in {"up", "stopping"}
  /\ \A t \in Thread : At(t, "open") => disk[call[t].name].dir
  /\ \A t \in Thread : At(t, "insert") => disk[call[t].name].schema
  /\ \A t \in Thread : At(t, "publish") =>
       /\ call[t].w \in Alive /\ obj[call[t].w].dir = call[t].name
       /\ obj[call[t].w].mu = t

\* ... and while no two creates of its index were past the checks: it uses
\* the writer of the map, or is alone past the checks and there is none.
ApartInv ==
  /\ \A t \in Thread : call[t].pc \in Using /\ call[t].name \notin raced =>
       call[t].w = writers[call[t].name]
  /\ \A n \in Name \ raced : \A t \in Thread : PastChecks(t, n) =>
       writers[n] = None /\ \A u \in Thread : PastChecks(u, n) => u = t

\* The writer of such an index has in memory what its directory has on disk,
\* and what is on disk accounts for what was answered.
Mirrors(x) ==
  LET n == obj[x].dir
  IN  /\ obj[x].sealed = disk[n].manifest /\ obj[x].pending = disk[n].log
      /\ obj[x].published \subseteq obj[x].sealed /\ shown[n] \subseteq obj[x].published
Accounts(n) ==
  /\ acked[n] \subseteq disk[n].manifest \cup disk[n].log
  /\ shown[n] \subseteq disk[n].manifest
  /\ disk[n].log # {} => disk[n].schema /\ main # "down"
  /\ disk[n].log # {} /\ main \in {"up", "stopping"} => writers[n] # None

DataInv ==
  /\ \A x \in Alive : obj[x].dir \notin raced => Mirrors(x)
  /\ \A n \in Name \ raced : Accounts(n)

\* What a handler will have shown is there by the time it answers.
MustOf(t) ==
  LET n == call[t].name
  IN  /\ At(t, "idle") => call[t].op = "none"
      /\ n \notin raced =>
           /\ call[t].op = "refresh" => call[t].must \subseteq acked[n]
           /\ call[t].op = "search" => call[t].must \subseteq shown[n]
           /\ At(t, "publish") => call[t].must \cup disk[n].log \subseteq disk[n].manifest
           /\ At(t, "respond") =>
                /\ writers[n] # None /\ call[t].must \subseteq call[t].result
                /\ call[t].result \subseteq obj[writers[n]].published

MustInv == \A t \in Thread : MustOf(t)
=============================================================================
