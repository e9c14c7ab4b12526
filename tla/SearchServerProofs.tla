------------------------- MODULE SearchServerProofs -------------------------
(***************************************************************************)
(* However creates of one index overlap: every live writer is in the map   *)
(* or in the hand of one create.  And for each index that no two requests  *)
(* created at once: no handler uses a destroyed writer, what was answered  *)
(* is kept, searches find what they must, and Stop seals it all.  And,     *)
(* whatever the handlers do, the slots that searches hold and the peak     *)
(* that is recorded are right.                                             *)
(***************************************************************************)
EXTENDS SearchServer, SearchSlots, FiniteSetTheorems, TLAPS

-----------------------------------------------------------------------------
(* Types.                                                                  *)

\* What a handler holds at each point is not None.
LEMMA Names ==
  ASSUME TypeOK, NEW t \in Thread
  PROVE  /\ ~At(t, "idle") => call[t].name \in Name
         /\ call[t].pc \in Using \cup {"insert"} => call[t].w \in Writer
         /\ At(t, "post") => call[t].doc \in Doc
         /\ call[t].must \in SUBSET Doc /\ call[t].result \in SUBSET Doc
BY DEF TypeOK, Call, At, Using

LEMMA Fields ==
  ASSUME TypeOK
  PROVE  /\ writers \in [Name -> Writer \cup {None}]
         /\ obj \in [Writer -> Object] /\ disk \in [Name -> Directory]
         /\ acked \in [Name -> SUBSET Doc] /\ shown \in [Name -> SUBSET Doc]
         /\ raced \in SUBSET Name
BY DEF TypeOK

\* A directory with one field changed.
LEMMA DirectoryFields ==
  ASSUME NEW r \in Directory, NEW b \in BOOLEAN, NEW S \in SUBSET Doc
  PROVE  /\ [r EXCEPT !.dir = b] \in Directory /\ [r EXCEPT !.schema = b] \in Directory
         /\ [r EXCEPT !.log = S] \in Directory /\ [r EXCEPT !.manifest = S] \in Directory
<1>1. [r EXCEPT !.dir = b] \in Directory
  BY DEF Directory
<1>2. [r EXCEPT !.schema = b] \in Directory
  BY DEF Directory
<1>3. [r EXCEPT !.log = S] \in Directory
  BY DEF Directory
<1>4. [r EXCEPT !.manifest = S] \in Directory
  BY DEF Directory
<1>5. QED BY <1>1, <1>2, <1>3, <1>4

LEMMA DiskAt ==
  ASSUME TypeOK, NEW n \in Name, NEW r \in Directory
  PROVE  [disk EXCEPT ![n] = r] \in [Name -> Directory]
BY DEF TypeOK

\* The ways a call goes on.
LEMMA Returns ==
  ASSUME TypeOK, NEW t \in Thread, Return(t)
  PROVE  /\ call' \in [Thread -> Call]
         /\ call'[t] = Idle /\ \A u \in Thread : u # t => call'[u] = call[u]
BY DEF TypeOK, Return, Idle, Call

LEMMA Goes ==
  ASSUME TypeOK, NEW t \in Thread, NEW pc, Goto(t, pc),
         pc \in {"count", "mkdir", "open", "publish"}
  PROVE  /\ call' \in [Thread -> Call]
         /\ call'[t].pc = pc /\ call'[t].name = call[t].name /\ call'[t].op = call[t].op
         /\ call'[t].doc = call[t].doc /\ call'[t].w = call[t].w
         /\ call'[t].must = call[t].must
         /\ \A u \in Thread : u # t => call'[u] = call[u]
<1>1. call[t] \in Call
  BY DEF TypeOK
<1>2. [call[t] EXCEPT !.pc = pc] \in Call
  BY <1>1 DEF Call, Using
<1>3. call' = [call EXCEPT ![t] = [call[t] EXCEPT !.pc = pc]]
  BY DEF Goto
<1>4. call' \in [Thread -> Call] /\ call'[t] = [call[t] EXCEPT !.pc = pc]
        /\ \A u \in Thread : u # t => call'[u] = call[u]
  BY <1>2, <1>3 DEF TypeOK
<1>5. QED BY <1>1, <1>4 DEF Call

LEMMA GoesWith ==
  ASSUME TypeOK, NEW t \in Thread, NEW pc, NEW x \in Writer, GotoWith(t, pc, x),
         pc \in {"insert", "post", "refresh", "search"}
  PROVE  /\ call' \in [Thread -> Call]
         /\ call'[t].pc = pc /\ call'[t].name = call[t].name /\ call'[t].op = call[t].op
         /\ call'[t].doc = call[t].doc /\ call'[t].w = x
         /\ call'[t].must = call[t].must
         /\ \A u \in Thread : u # t => call'[u] = call[u]
<1>1. call[t] \in Call
  BY DEF TypeOK
<1>2. [call[t] EXCEPT !.pc = pc, !.w = x] \in Call
  BY <1>1 DEF Call, Using
<1>3. call' = [call EXCEPT ![t] = [call[t] EXCEPT !.pc = pc, !.w = x]]
  BY DEF GotoWith
<1>4. call' \in [Thread -> Call] /\ call'[t] = [call[t] EXCEPT !.pc = pc, !.w = x]
        /\ \A u \in Thread : u # t => call'[u] = call[u]
  BY <1>2, <1>3 DEF TypeOK
<1>5. QED BY <1>1, <1>4 DEF Call

LEMMA Snapshot ==
  ASSUME TypeOK, NEW t \in Thread, CurrentReader(t)
  PROVE  /\ call' \in [Thread -> Call]
         /\ call'[t].pc = "respond" /\ call'[t].name = call[t].name
         /\ call'[t].op = call[t].op /\ call'[t].doc = call[t].doc
         /\ call'[t].w = call[t].w /\ call'[t].must = call[t].must
         /\ call'[t].result = obj[call[t].w].published
         /\ \A u \in Thread : u # t => call'[u] = call[u]
<1> DEFINE c == [call[t] EXCEPT !.pc = "respond", !.result = obj[call[t].w].published]
<1>1. call[t] \in Call
  BY DEF TypeOK
<1>2. call[t].w \in Writer
  BY Names DEF CurrentReader, At, Using
<1>3. obj[call[t].w].published \in SUBSET Doc
  BY <1>2 DEF TypeOK, Object
<1>4. c \in Call
  BY <1>1, <1>3 DEF Call
<1>5. call' = [call EXCEPT ![t] = c]
  BY DEF CurrentReader
<1>6. call' \in [Thread -> Call] /\ call'[t] = c
        /\ \A u \in Thread : u # t => call'[u] = call[u]
  BY <1>4, <1>5 DEF TypeOK
<1>7. QED BY <1>1, <1>6 DEF Call

\* A request begins: what the new call is, by its kind.
LEMMA Begins ==
  ASSUME TypeOK, NEW t \in Thread, Request(t)
  PROVE  /\ call' \in [Thread -> Call] /\ call'[t].name \in Name
         /\ \/ /\ call'[t].pc = "exists" /\ call'[t].op = call[t].op
               /\ call'[t].doc = call[t].doc /\ call'[t].must = call[t].must
            \/ call'[t].pc = "lookup" /\ call'[t].op = "post" /\ call'[t].doc # None
            \/ /\ call'[t].pc = "lookup" /\ call'[t].op = "refresh"
               /\ call'[t].must = acked[call'[t].name] /\ call'[t].doc = call[t].doc
            \/ /\ call'[t].pc = "lookup" /\ call'[t].op = "search"
               /\ call'[t].must = shown[call'[t].name] /\ call'[t].doc = call[t].doc
         /\ \A u \in Thread : u # t => call'[u] = call[u]
<1>1. call[t] \in Call
  BY DEF TypeOK
<1>2. ASSUME NEW c \in Call, call' = [call EXCEPT ![t] = c]
      PROVE  /\ call' \in [Thread -> Call] /\ call'[t] = c
             /\ \A u \in Thread : u # t => call'[u] = call[u]
  BY <1>2 DEF TypeOK
<1>3. PICK n \in Name :
        \/ call' = [call EXCEPT ![t].pc = "exists", ![t].name = n]
        \/ \E d \in Doc :
             call' = [call EXCEPT ![t].pc = "lookup", ![t].op = "post", ![t].name = n,
                                  ![t].doc = d]
        \/ call' = [call EXCEPT ![t].pc = "lookup", ![t].op = "refresh", ![t].name = n,
                                ![t].must = acked[n]]
        \/ call' = [call EXCEPT ![t].pc = "lookup", ![t].op = "search", ![t].name = n,
                                ![t].must = shown[n]]
  BY DEF Request
<1>4. CASE call' = [call EXCEPT ![t].pc = "exists", ![t].name = n]
  <2> DEFINE c == [call[t] EXCEPT !.pc = "exists", !.name = n]
  <2>1. c \in Call /\ c.pc = "exists" /\ c.name = n /\ c.op = call[t].op
          /\ c.doc = call[t].doc /\ c.must = call[t].must
    BY <1>1 DEF Call
  <2>2. call' = [call EXCEPT ![t] = c]
    BY <1>4
  <2>3. /\ call' \in [Thread -> Call] /\ call'[t] = c
        /\ \A u \in Thread : u # t => call'[u] = call[u]
    BY <1>2, <2>1, <2>2
  <2>4. QED BY <1>4, <2>1, <2>3
<1>5. CASE \E d \in Doc :
             call' = [call EXCEPT ![t].pc = "lookup", ![t].op = "post", ![t].name = n,
                                  ![t].doc = d]
  <2>1. PICK d \in Doc :
          call' = [call EXCEPT ![t].pc = "lookup", ![t].op = "post", ![t].name = n,
                               ![t].doc = d]
    BY <1>5
  <2> DEFINE c == [call[t] EXCEPT !.pc = "lookup", !.op = "post", !.name = n, !.doc = d]
  <2>2. c \in Call /\ c.pc = "lookup" /\ c.name = n /\ c.op = "post" /\ c.doc = d
    BY <1>1 DEF Call
  <2>3. call' = [call EXCEPT ![t] = c]
    BY <2>1
  <2>4. d # None
    BY ConstantsAssumption DEF ConstantsAssumption
  <2>5. /\ call' \in [Thread -> Call] /\ call'[t] = c
        /\ \A u \in Thread : u # t => call'[u] = call[u]
    BY <1>2, <2>2, <2>3
  <2>6. QED BY <2>2, <2>4, <2>5
<1>6. CASE call' = [call EXCEPT ![t].pc = "lookup", ![t].op = "refresh", ![t].name = n,
                                ![t].must = acked[n]]
  <2> DEFINE c == [call[t] EXCEPT !.pc = "lookup", !.op = "refresh", !.name = n,
                                  !.must = acked[n]]
  <2>1. c \in Call /\ c.pc = "lookup" /\ c.name = n /\ c.op = "refresh"
          /\ c.must = acked[n] /\ c.doc = call[t].doc
    BY <1>1 DEF Call, TypeOK
  <2>2. call' = [call EXCEPT ![t] = c]
    BY <1>6
  <2>3. /\ call' \in [Thread -> Call] /\ call'[t] = c
        /\ \A u \in Thread : u # t => call'[u] = call[u]
    BY <1>2, <2>1, <2>2
  <2>4. QED BY <2>1, <2>3
<1>7. CASE call' = [call EXCEPT ![t].pc = "lookup", ![t].op = "search", ![t].name = n,
                                ![t].must = shown[n]]
  <2> DEFINE c == [call[t] EXCEPT !.pc = "lookup", !.op = "search", !.name = n,
                                  !.must = shown[n]]
  <2>1. c \in Call /\ c.pc = "lookup" /\ c.name = n /\ c.op = "search"
          /\ c.must = shown[n] /\ c.doc = call[t].doc
    BY <1>1 DEF Call, TypeOK
  <2>2. call' = [call EXCEPT ![t] = c]
    BY <1>7
  <2>3. /\ call' \in [Thread -> Call] /\ call'[t] = c
        /\ \A u \in Thread : u # t => call'[u] = call[u]
    BY <1>2, <2>1, <2>2
  <2>4. QED BY <2>1, <2>3
<1>8. QED BY <1>3, <1>4, <1>5, <1>6, <1>7

\* The types hold again if they hold of the call that went on.
LEMMA CallStep ==
  ASSUME TypeOK, NEW t \in Thread,
         call' \in [Thread -> Call], \A u \in Thread : u # t => call'[u] = call[u],
         call'[t].pc \in Using \cup {"insert"} => call'[t].w # None,
         call'[t].pc # "idle" => call'[t].name # None,
         call'[t].pc \in {"post", "refresh", "search"} => call'[t].op = call'[t].pc,
         call'[t].pc = "lookup" => call'[t].op # "none",
         call'[t].op = "post" => call'[t].doc # None,
         main' = main, starts' = starts,
         writers' \in [Name -> Writer \cup {None}],
         obj' \in [Writer -> Object], disk' \in [Name -> Directory],
         acked' \in [Name -> SUBSET Doc], shown' \in [Name -> SUBSET Doc],
         raced' \in SUBSET Name
  PROVE  TypeOK'
BY DEF TypeOK, At

LEMMA ReturnStep ==
  ASSUME TypeOK, NEW t \in Thread, Return(t),
         main' = main, starts' = starts,
         writers' \in [Name -> Writer \cup {None}],
         obj' \in [Writer -> Object], disk' \in [Name -> Directory],
         acked' \in [Name -> SUBSET Doc], shown' \in [Name -> SUBSET Doc],
         raced' \in SUBSET Name
  PROVE  TypeOK'
BY Returns, CallStep DEF Idle, Using

\* What the types say of one call.
LEMMA CallOK ==
  ASSUME TypeOK, NEW t \in Thread
  PROVE  /\ call[t].pc \in {"post", "refresh", "search"} => call[t].op = call[t].pc
         /\ At(t, "lookup") => call[t].op \in {"post", "refresh", "search"}
         /\ call[t].op = "post" => call[t].doc # None
         /\ call[t].pc # "idle" => call[t].name # None
BY DEF TypeOK, At, Call

LEMMA OpenedType ==
  ASSUME TypeOK, NEW n \in Name
  PROVE  Opened(n) \in Object
BY ConstantsAssumption DEF ConstantsAssumption, TypeOK, Opened, Object, Directory

LEMMA DeadType == Dead \in Object
BY DEF Dead, Object

LEMMA IdleType == Idle \in Call
BY DEF Idle, Call

LEMMA OwnerType ==
  ASSUME TypeOK, Start \/ StopHttp \/ CloseWriters \/ Kill
  PROVE  TypeOK'
<1>1. CASE Start
  <2> DEFINE indexes == {n \in Name : disk[n].schema}
  <2>1. PICK new \in [indexes -> Writer] :
          /\ writers' = [n \in Name |-> IF n \in indexes THEN new[n] ELSE None]
          /\ obj' = [x \in Writer |->
                       IF \E n \in indexes : new[n] = x
                       THEN Opened(CHOOSE n \in indexes : new[n] = x) ELSE Dead]
    BY <1>1 DEF Start
  <2>2. writers' \in [Name -> Writer \cup {None}]
    BY <2>1
  <2>3. obj' \in [Writer -> Object]
    BY <2>1, OpenedType, DeadType
  <2>4. main' = "up" /\ starts' = starts + 1 /\ disk' = disk /\ call' = call
          /\ acked' = acked /\ shown' = shown /\ raced' = raced
    BY <1>1 DEF Start
  <2>5. starts' \in Nat /\ main' \in {"killed", "up", "stopping", "down"}
    BY <2>4 DEF TypeOK
  <2>6. QED BY <2>2, <2>3, <2>4, <2>5 DEF TypeOK, At
<1>2. CASE StopHttp
  <2>1. call' = call /\ writers' = writers /\ obj' = obj /\ disk' = disk
          /\ main' = "stopping" /\ acked' = acked /\ shown' = shown /\ starts' = starts
          /\ raced' = raced
    BY <1>2 DEF StopHttp
  <2>2. main' \in {"killed", "up", "stopping", "down"}
    BY <2>1
  <2>3. QED BY <2>1, <2>2 DEF TypeOK, At
<1>3. CASE CloseWriters
  <2>1. disk' \in [Name -> Directory]
    <3>1. ASSUME NEW n \in Name, Sealed(n) PROVE Seal(n) \in Directory
      <4>1. writers[n] \in Writer
        BY <3>1 DEF Sealed, TypeOK
      <4>2. obj[writers[n]].sealed \in SUBSET Doc /\ obj[writers[n]].pending \in SUBSET Doc
        BY <4>1 DEF TypeOK, Object
      <4> DEFINE S == obj[writers[n]].sealed \cup obj[writers[n]].pending
      <4>3. S \in SUBSET Doc /\ {} \in SUBSET Doc /\ disk[n] \in Directory
        BY <4>2, Fields
      <4>4. Seal(n) = [[disk[n] EXCEPT !.manifest = S] EXCEPT !.log = {}]
        BY DEF Seal
      <4> HIDE DEF S
      <4>5. [disk[n] EXCEPT !.manifest = S] \in Directory
        BY <4>3, DirectoryFields
      <4>6. QED BY <4>3, <4>4, <4>5, DirectoryFields
    <3>2. QED BY <1>3, <3>1 DEF CloseWriters, TypeOK
  <2>2. obj' \in [Writer -> Object] /\ writers' \in [Name -> Writer \cup {None}]
    BY <1>3, DeadType DEF CloseWriters
  <2>3. QED BY <1>3, <2>1, <2>2 DEF CloseWriters, TypeOK, At
<1>4. CASE Kill
  <2>1. obj' \in [Writer -> Object] /\ writers' \in [Name -> Writer \cup {None}]
    BY <1>4, DeadType DEF Kill
  <2>2. call' \in [Thread -> Call] /\ \A t \in Thread : call'[t] = Idle
    BY <1>4, IdleType DEF Kill
  <2>3. QED BY <1>4, <2>1, <2>2 DEF Kill, TypeOK, At, Idle, Using
<1>5. QED BY <1>1, <1>2, <1>3, <1>4

\* A create that gets past the checks may make its index one of the raced.
LEMMA Passes ==
  ASSUME TypeOK, NEW t \in Thread, call[t].name \in Name, PassChecks(t)
  PROVE  /\ raced' \in SUBSET Name /\ raced \subseteq raced'
         /\ \A n \in Name : n # call[t].name => (n \in raced' <=> n \in raced)
         /\ call[t].name \notin raced' => \A u \in Thread : ~PastChecks(u, call[t].name)
BY DEF TypeOK, PassChecks

LEMMA CreateType ==
  ASSUME TypeOK, NEW t \in Thread, CreateIndex(t)
  PROVE  TypeOK'
<1>1. call[t].pc \in {"exists", "count", "mkdir", "open", "insert"}
  BY DEF CreateIndex, Exists, Count, MakeDirectory, OpenWriter, OpenFails, Insert, At
<1>2. call[t].name \in Name /\ call[t].name # None /\ (call[t].op = "post" => call[t].doc # None)
  BY <1>1, Names, CallOK DEF At
<1>3. CASE Exists(t) \/ Count(t)
  <2>1. /\ main' = main /\ writers' = writers /\ obj' = obj /\ disk' = disk
        /\ acked' = acked /\ shown' = shown /\ starts' = starts
    BY <1>3 DEF Exists, Count
  <2>2. \/ Goto(t, "count") /\ raced' = raced
        \/ Goto(t, "mkdir") /\ raced' \in SUBSET Name
        \/ Return(t) /\ raced' = raced
    BY <1>2, <1>3, Passes DEF Exists, Count, PassChecks
  <2>3. CASE Return(t) /\ raced' = raced
    BY <2>1, <2>3, ReturnStep, Fields
  <2>4. ASSUME NEW pc \in {"count", "mkdir"}, Goto(t, pc), raced' \in SUBSET Name
        PROVE  TypeOK'
    BY <1>2, <2>1, <2>4, Goes, CallStep, Fields DEF Using
  <2>5. QED BY <2>2, <2>3, <2>4, Fields
<1>5. CASE MakeDirectory(t)
  <2>1. disk' \in [Name -> Directory]
    <3>1. disk' = [disk EXCEPT ![call[t].name] = [disk[call[t].name] EXCEPT !.dir = TRUE]]
      BY <1>5 DEF MakeDirectory
    <3>2. [disk[call[t].name] EXCEPT !.dir = TRUE] \in Directory
      BY <1>2, Fields, DirectoryFields
    <3>3. QED BY <1>2, <3>1, <3>2, DiskAt
  <2>2. Goto(t, "open")
    BY <1>5 DEF MakeDirectory
  <2>3. /\ call' \in [Thread -> Call]
        /\ call'[t].pc = "open" /\ call'[t].name = call[t].name /\ call'[t].op = call[t].op
        /\ call'[t].doc = call[t].doc /\ call'[t].w = call[t].w
        /\ \A u \in Thread : u # t => call'[u] = call[u]
    BY <2>2, Goes
  <2>4. QED
    BY <1>2, <1>5, <2>1, <2>3, CallStep, Fields DEF MakeDirectory, Using
<1>6. CASE OpenWriter(t)
  <2>1. PICK x \in Writer \ Alive :
          obj' = [obj EXCEPT ![x] = Opened(call[t].name)] /\ GotoWith(t, "insert", x)
    BY <1>6 DEF OpenWriter
  <2>2. obj' \in [Writer -> Object]
    BY <1>2, <2>1, OpenedType DEF TypeOK
  <2>3. disk' \in [Name -> Directory]
    <3>1. disk' = [disk EXCEPT ![call[t].name] = [disk[call[t].name] EXCEPT !.schema = TRUE]]
      BY <1>6 DEF OpenWriter
    <3>2. [disk[call[t].name] EXCEPT !.schema = TRUE] \in Directory
      BY <1>2, Fields, DirectoryFields
    <3>3. QED BY <1>2, <3>1, <3>2, DiskAt
  <2>4. x # None
    BY ConstantsAssumption DEF ConstantsAssumption
  <2>5. /\ call' \in [Thread -> Call]
        /\ call'[t].pc = "insert" /\ call'[t].name = call[t].name /\ call'[t].op = call[t].op
        /\ call'[t].doc = call[t].doc /\ call'[t].w = x
        /\ \A u \in Thread : u # t => call'[u] = call[u]
    BY <2>1, GoesWith
  <2>6. QED
    BY <1>2, <1>6, <2>2, <2>3, <2>4, <2>5, CallStep, Fields DEF OpenWriter, Using
<1>7. CASE OpenFails(t)
  <2>1. PICK s \in {TRUE, disk[call[t].name].schema} :
          disk' = [disk EXCEPT ![call[t].name].schema = s]
    BY <1>7 DEF OpenFails
  <2>2. s \in BOOLEAN
    BY <1>2 DEF TypeOK, Directory
  <2>3. disk' \in [Name -> Directory]
    <3>1. disk' = [disk EXCEPT ![call[t].name] = [disk[call[t].name] EXCEPT !.schema = s]]
      BY <2>1
    <3>2. [disk[call[t].name] EXCEPT !.schema = s] \in Directory
      BY <1>2, <2>2, Fields, DirectoryFields
    <3>3. QED BY <1>2, <3>1, <3>2, DiskAt
  <2>4. QED
    BY <1>7, <2>3, ReturnStep, Fields DEF OpenFails
<1>8. CASE Insert(t)
  <2>1. writers' \in [Name -> Writer \cup {None}]
    BY <1>8 DEF Insert, TypeOK, Call
  <2>2. obj' \in [Writer -> Object]
    BY <1>8, DeadType DEF Insert, TypeOK
  <2>3. QED
    BY <1>8, <2>1, <2>2, ReturnStep, Fields DEF Insert
<1>9. QED BY <1>3, <1>5, <1>6, <1>7, <1>8 DEF CreateIndex

LEMMA LookupType ==
  ASSUME TypeOK, NEW t \in Thread, Lookup(t)
  PROVE  TypeOK'
<1>1. CASE Return(t)
  BY <1>1, ReturnStep, Fields DEF Lookup
<1>2. CASE /\ writers[call[t].name] # None
           /\ GotoWith(t, call[t].op, writers[call[t].name])
  <2>1. call[t].op \in {"post", "refresh", "search"}
    BY CallOK DEF Lookup
  <2>2. writers[call[t].name] \in Writer /\ call[t].name # None
    BY <1>2, Names, CallOK DEF Lookup, TypeOK, At
  <2>3. QED
    BY <1>2, <2>1, <2>2, CallOK, GoesWith, CallStep, Fields DEF Lookup
<1>3. QED BY <1>1, <1>2 DEF Lookup

LEMMA RequestType ==
  ASSUME TypeOK, NEW t \in Thread, Request(t)
  PROVE  TypeOK'
<1>1. call'[t].name # None
  BY Begins, ConstantsAssumption DEF ConstantsAssumption
<1>2. call'[t].pc \in {"exists", "lookup"}
  BY Begins
<1>3. call'[t].op = "post" => call'[t].doc # None
  BY Begins, CallOK
<1>4. call'[t].pc = "lookup" => call'[t].op # "none"
  BY Begins
<1>5. call' \in [Thread -> Call] /\ \A u \in Thread : u # t => call'[u] = call[u]
  BY Begins
<1>6. QED BY <1>1, <1>2, <1>3, <1>4, <1>5, CallStep, Fields DEF Request, Using

LEMMA AddType ==
  ASSUME TypeOK, NEW t \in Thread, AddDocument(t)
  PROVE  TypeOK'
<1> DEFINE n == call[t].name  x == call[t].w  d == call[t].doc
<1>1. n \in Name /\ x \in Writer /\ d \in Doc
  BY Names DEF AddDocument, At, Using
<1>2. obj' \in [Writer -> Object]
  <2>1. [obj[x] EXCEPT !.pending = @ \cup {d}] \in Object
    BY <1>1 DEF TypeOK, Object
  <2>2. obj' = [obj EXCEPT ![x] = [obj[x] EXCEPT !.pending = @ \cup {d}]]
    BY DEF AddDocument
  <2>3. QED BY <2>1, <2>2 DEF TypeOK
<1>3. disk' \in [Name -> Directory]
  <2>1. disk' = [disk EXCEPT ![n] = [disk[n] EXCEPT !.log = @ \cup {d}]]
    BY DEF AddDocument
  <2>2. disk[n] \in Directory /\ disk[n].log \cup {d} \in SUBSET Doc
    BY <1>1, Fields DEF Directory
  <2>3. [disk[n] EXCEPT !.log = @ \cup {d}] \in Directory
    BY <2>2, DirectoryFields
  <2>4. QED BY <1>1, <2>1, <2>3, DiskAt
<1>4. acked' \in [Name -> SUBSET Doc]
  BY <1>1 DEF TypeOK, AddDocument
<1>5. QED
  BY <1>2, <1>3, <1>4, ReturnStep, Fields DEF AddDocument

LEMMA RefreshType ==
  ASSUME TypeOK, NEW t \in Thread, Refresh(t)
  PROVE  TypeOK'
<1> DEFINE n == call[t].name  x == call[t].w
<1>1. n \in Name /\ x \in Writer
  BY Names DEF Refresh, RefreshNothing, RefreshSeal, Publish, At, Using
<1>2. obj[x] \in Object /\ disk[n] \in Directory /\ call[t] \in Call
  BY <1>1 DEF TypeOK
<1>3. CASE RefreshNothing(t)
  <2>1. obj' \in [Writer -> Object]
    <3>1. [obj[x] EXCEPT !.published = obj[x].sealed] \in Object
      BY <1>2 DEF Object
    <3>2. obj' = [obj EXCEPT ![x] = [obj[x] EXCEPT !.published = obj[x].sealed]]
      BY <1>3 DEF RefreshNothing
    <3>3. QED BY <3>1, <3>2 DEF TypeOK
  <2>2. shown' \in [Name -> SUBSET Doc]
    BY <1>3, <1>1, Names DEF TypeOK, RefreshNothing
  <2>3. QED
    BY <1>3, <2>1, <2>2, ReturnStep, Fields DEF RefreshNothing
<1>4. CASE RefreshSeal(t)
  <2>1. obj' \in [Writer -> Object]
    <3>1. [obj[x] EXCEPT !.sealed = @ \cup obj[x].pending, !.mu = t] \in Object
      BY <1>2 DEF Object
    <3>2. obj' = [obj EXCEPT ![x] = [obj[x] EXCEPT !.sealed = @ \cup obj[x].pending, !.mu = t]]
      BY <1>4 DEF RefreshSeal
    <3>3. QED BY <3>1, <3>2 DEF TypeOK
  <2>2. disk' \in [Name -> Directory]
    <3>1. [disk[n] EXCEPT !.manifest = obj[x].sealed \cup obj[x].pending] \in Directory
      BY <1>2 DEF Object, Directory
    <3>2. disk' = [disk EXCEPT ![n] =
                     [disk[n] EXCEPT !.manifest = obj[x].sealed \cup obj[x].pending]]
      BY <1>4 DEF RefreshSeal
    <3>3. QED BY <3>1, <3>2 DEF TypeOK
  <2>3. call[t].w # None /\ call[t].name # None /\ (call[t].op = "post" => call[t].doc # None)
    BY <1>1, CallOK, ConstantsAssumption DEF ConstantsAssumption
  <2>4. Goto(t, "publish")
    BY <1>4 DEF RefreshSeal
  <2>5. /\ call' \in [Thread -> Call]
        /\ call'[t].pc = "publish" /\ call'[t].name = call[t].name /\ call'[t].op = call[t].op
        /\ call'[t].doc = call[t].doc /\ call'[t].w = call[t].w
        /\ \A u \in Thread : u # t => call'[u] = call[u]
    BY <2>4, Goes
  <2>6. QED
    BY <1>4, <2>1, <2>2, <2>3, <2>5, CallStep, Fields DEF RefreshSeal, Using
<1>5. CASE Publish(t)
  <2>1. obj' \in [Writer -> Object]
    <3>1. [obj[x] EXCEPT !.pending = {}, !.published = obj[x].sealed, !.mu = None] \in Object
      BY <1>2 DEF Object
    <3>2. obj' = [obj EXCEPT ![x] =
                    [obj[x] EXCEPT !.pending = {}, !.published = obj[x].sealed, !.mu = None]]
      BY <1>5 DEF Publish
    <3>3. QED BY <3>1, <3>2 DEF TypeOK
  <2>2. disk' \in [Name -> Directory]
    <3>1. disk' = [disk EXCEPT ![n] = [disk[n] EXCEPT !.log = {}]]
      BY <1>5 DEF Publish
    <3>2. [disk[n] EXCEPT !.log = {}] \in Directory
      BY <1>2, DirectoryFields
    <3>3. QED BY <1>1, <3>1, <3>2, DiskAt
  <2>3. shown' \in [Name -> SUBSET Doc]
    BY <1>5, <1>1, Names DEF TypeOK, Publish
  <2>4. QED
    BY <1>5, <2>1, <2>2, <2>3, ReturnStep, Fields DEF Publish
<1>6. QED BY <1>3, <1>4, <1>5 DEF Refresh

LEMMA SearchType ==
  ASSUME TypeOK, NEW t \in Thread, Search(t)
  PROVE  TypeOK'
<1>1. CASE CurrentReader(t)
  <2>1. call[t].name # None /\ (call[t].op = "post" => call[t].doc # None)
    BY <1>1, CallOK DEF CurrentReader, At
  <2>2. QED
    BY <1>1, <2>1, Snapshot, CallStep, Fields DEF CurrentReader, Using
<1>2. CASE Respond(t)
  <2>1. shown' \in [Name -> SUBSET Doc]
    BY <1>2, Names DEF TypeOK, Respond, At
  <2>2. QED BY <1>2, <2>1, ReturnStep, Fields DEF Respond
<1>3. QED BY <1>1, <1>2 DEF Search

LEMMA TypeStep ==
  ASSUME TypeOK, [Next]_vars
  PROVE  TypeOK'
<1>1. CASE UNCHANGED vars BY <1>1 DEF vars, TypeOK, At
<1>2. QED
  BY <1>1, OwnerType, RequestType, CreateType, LookupType, AddType, RefreshType, SearchType
     DEF Next

LEMMA TypeInit == Init => TypeOK
<1> SUFFICES ASSUME Init PROVE TypeOK
  OBVIOUS
<1>1. obj \in [Writer -> Object] /\ call \in [Thread -> Call]
  BY DeadType, IdleType DEF Init
<1>2. disk \in [Name -> Directory]
  BY DEF Init, Directory
<1>3. QED BY <1>1, <1>2 DEF Init, TypeOK, Idle, Using, At

\* The variables of the search server keep their types, and a handler uses a
\* writer only after it found one.
THEOREM TypeCorrect == Spec => []TypeOK
  BY TypeInit, TypeStep, PTL DEF Spec

-----------------------------------------------------------------------------
(* Writers and those who hold them.                                        *)

\* A writer in the map, and one in the hand of a create.
LEMMA InMap ==
  ASSUME TypeOK, MapInv, NEW n \in Name, writers[n] # None
  PROVE  /\ writers[n] \in Alive /\ writers[n] \in Writer /\ obj[writers[n]].dir = n
         /\ disk[n].schema
BY DEF MapInv, WritersOwned, Alive

LEMMA InHand ==
  ASSUME TypeOK, MapInv, CallInv, NEW t \in Thread, At(t, "insert")
  PROVE  /\ call[t].w \in Alive /\ call[t].w \in Writer /\ call[t].w # None
         /\ call[t].name \in Name /\ obj[call[t].w].dir = call[t].name
         /\ (\A n \in Name : writers[n] # call[t].w)
         /\ disk[call[t].name].schema /\ main \in {"up", "stopping"}
<1>1. call[t].name \in Name /\ call[t].w \in Writer /\ call[t].w # None
  BY Names DEF TypeOK, At
<1>2. QED BY <1>1 DEF MapInv, WritersOwned, CallInv, At

LEMMA AliveDir ==
  ASSUME TypeOK, NEW x \in Alive
  PROVE  x \in Writer /\ x # None /\ obj[x].dir \in Name
BY ConstantsAssumption DEF ConstantsAssumption, Alive, TypeOK, Object

\* An index that no two creates raced for has one live writer: it is in the
\* map, or with the only create that is past the checks, and then the map has
\* none.
LEMMA Single ==
  ASSUME TypeOK, MapInv, CallInv, ApartInv, NEW x \in Alive, NEW y \in Alive,
         obj[x].dir = obj[y].dir, obj[x].dir \notin raced
  PROVE  x = y
<1> DEFINE n == obj[x].dir
<1>1. n \in Name \ raced /\ x # None /\ y # None
  BY AliveDir
<1>2. ASSUME NEW t \in Thread, At(t, "insert"), call[t].w \in {x, y}
      PROVE  PastChecks(t, n) /\ writers[n] = None
  <2>1. call[t].name = n
    BY <1>2, InHand
  <2>2. PastChecks(t, n)
    BY <1>2, <2>1 DEF PastChecks, At
  <2>3. QED BY <1>1, <2>2 DEF ApartInv
<1>3. \A z \in {x, y} : writers[n] = z \/ \E t \in Thread : At(t, "insert") /\ call[t].w = z
  BY DEF MapInv, WritersOwned
<1>4. CASE writers[n] = x \/ writers[n] = y
  BY <1>1, <1>2, <1>3, <1>4
<1>5. CASE writers[n] # x /\ writers[n] # y
  <2>1. PICK t \in Thread : At(t, "insert") /\ call[t].w = x
    BY <1>3, <1>5
  <2>2. PICK u \in Thread : At(u, "insert") /\ call[u].w = y
    BY <1>3, <1>5
  <2>3. PastChecks(t, n) /\ PastChecks(u, n)
    BY <1>2, <2>1, <2>2
  <2>4. t = u
    BY <1>1, <2>3 DEF ApartInv
  <2>5. QED BY <2>1, <2>2, <2>4
<1>6. QED BY <1>4, <1>5

\* A handler that uses a writer has the live one of its index.
LEMMA InUse ==
  ASSUME TypeOK, MapInv, ApartInv, NEW t \in Thread, call[t].pc \in Using,
         call[t].name \notin raced
  PROVE  /\ call[t].name \in Name /\ call[t].w \in Alive
         /\ writers[call[t].name] = call[t].w /\ obj[call[t].w].dir = call[t].name
<1>1. call[t].name \in Name /\ call[t].w \in Writer /\ call[t].w # None
  BY Names DEF TypeOK, At, Using
<1>2. writers[call[t].name] = call[t].w
  BY DEF ApartInv
<1>3. QED BY <1>1, <1>2, InMap

\* Who owns the writers after a step of a handler that is not about to insert,
\* now or then, and that leaves the writers where they are.
LEMMA OwnedThread ==
  ASSUME MapInv, NEW t \in Thread, ~At(t, "insert"), call'[t].pc # "insert",
         writers' = writers, \A x \in Writer : obj'[x].dir = obj[x].dir,
         \A u \in Thread : u # t => call'[u] = call[u]
  PROVE  WritersOwned'
<1>1. Alive' = Alive
  BY DEF Alive
<1>2. \A u \in Thread : call'[u].pc = "insert" <=> At(u, "insert")
  BY DEF At
<1>3. \A u \in Thread : call'[u].pc = "insert" => call'[u] = call[u]
  OBVIOUS
<1>4. \A n \in Name : writers'[n] # None =>
        writers'[n] \in Alive' /\ obj'[writers'[n]].dir = n
  BY <1>1 DEF MapInv, WritersOwned, Alive
<1>5. \A u \in Thread : call'[u].pc = "insert" =>
        /\ call'[u].w \in Alive' /\ obj'[call'[u].w].dir = call'[u].name
        /\ \A n \in Name : writers'[n] # call'[u].w
  BY <1>1, <1>2, <1>3 DEF MapInv, WritersOwned, Alive
<1>6. \A u, v \in Thread :
        call'[u].pc = "insert" /\ call'[v].pc = "insert" /\ call'[u].w = call'[v].w => u = v
  BY <1>2, <1>3 DEF MapInv, WritersOwned
<1>7. \A x \in Alive' :
        writers'[obj'[x].dir] = x \/ \E u \in Thread : call'[u].pc = "insert" /\ call'[u].w = x
  <2> SUFFICES ASSUME NEW x \in Alive
               PROVE  \/ writers[obj[x].dir] = x
                      \/ \E u \in Thread : call'[u].pc = "insert" /\ call'[u].w = x
    BY <1>1 DEF Alive
  <2>1. CASE \E u \in Thread : At(u, "insert") /\ call[u].w = x
    BY <1>2, <1>3, <2>1
  <2>2. QED BY <2>1 DEF MapInv, WritersOwned
<1>8. QED BY <1>4, <1>5, <1>6, <1>7 DEF WritersOwned, At

LEMMA MapThread ==
  ASSUME TypeOK, MapInv, NEW t \in Thread, ~At(t, "insert"), call'[t].pc # "insert",
         main' = main, main \in {"up", "stopping"}, writers' = writers,
         \A x \in Writer : obj'[x].dir = obj[x].dir,
         \A n \in Name : disk[n].schema => disk'[n].schema,
         \A n \in Name : disk'[n].schema => disk'[n].dir,
         \A u \in Thread : u # t => call'[u] = call[u]
  PROVE  MapInv'
<1>1. WritersOwned'
  BY OwnedThread
<1>2. \A n \in Name : writers'[n] # None => disk'[n].schema
  BY DEF MapInv
<1>3. QED BY <1>1, <1>2 DEF MapInv

LEMMA CallThread ==
  ASSUME TypeOK, CallInv, NEW t \in Thread,
         main' = main, main \in {"up", "stopping"},
         \A n \in Name : (disk[n].schema => disk'[n].schema) /\ (disk[n].dir => disk'[n].dir),
         \A u \in Thread : u # t => call'[u] = call[u],
         \A u \in Thread : u # t /\ At(u, "publish") =>
           obj'[call[u].w].dir = obj[call[u].w].dir /\ obj'[call[u].w].mu = u,
         call'[t].pc = "open" => disk'[call'[t].name].dir,
         call'[t].pc = "insert" => disk'[call'[t].name].schema,
         call'[t].pc = "publish" =>
           /\ call'[t].w \in Alive' /\ obj'[call'[t].w].dir = call'[t].name
           /\ obj'[call'[t].w].mu = t
  PROVE  CallInv'
<1>1. \A u \in Thread : call'[u].pc = "open" => disk'[call'[u].name].dir
  <2>1. \A u \in Thread : call[u].pc = "open" => disk[call[u].name].dir /\ call[u].name \in Name
    BY Names DEF CallInv, At
  <2>2. QED BY <2>1
<1>2. \A u \in Thread : call'[u].pc = "insert" => disk'[call'[u].name].schema
  <2>1. \A u \in Thread :
          call[u].pc = "insert" => disk[call[u].name].schema /\ call[u].name \in Name
    BY Names DEF CallInv, At
  <2>2. QED BY <2>1
<1>3. \A u \in Thread : call'[u].pc = "publish" =>
        /\ call'[u].w \in Alive' /\ obj'[call'[u].w].dir = call'[u].name
        /\ obj'[call'[u].w].mu = u
  <2> SUFFICES ASSUME NEW u \in Thread, u # t, call[u].pc = "publish"
               PROVE  /\ call[u].w \in Alive' /\ obj'[call[u].w].dir = call[u].name
                      /\ obj'[call[u].w].mu = u
    OBVIOUS
  <2>1. call[u].w \in Alive /\ obj[call[u].w].dir = call[u].name
    BY DEF CallInv, At
  <2>2. obj'[call[u].w].dir = obj[call[u].w].dir /\ obj'[call[u].w].mu = u
    BY DEF At
  <2>3. QED BY <2>1, <2>2 DEF Alive
<1>4. \A u \in Thread : call'[u].pc # "idle" => main' \in {"up", "stopping"}
  OBVIOUS
<1>5. QED BY <1>1, <1>2, <1>3, <1>4 DEF CallInv, At

LEMMA ApartThread ==
  ASSUME TypeOK, ApartInv, NEW t \in Thread, writers' = writers, raced \subseteq raced',
         \A u \in Thread : u # t => call'[u] = call[u],
         call'[t].pc \in Using => call'[t].w = writers[call'[t].name] \/ call'[t].name \in raced',
         \A n \in Name \ raced' : PastChecks(t, n)' =>
           \/ PastChecks(t, n)
           \/ writers[n] = None /\ \A u \in Thread : ~PastChecks(u, n)
  PROVE  ApartInv'
<1>1. \A u \in Thread : call'[u].pc \in Using /\ call'[u].name \notin raced' =>
        call'[u].w = writers'[call'[u].name]
  BY DEF ApartInv
<1>2. ASSUME NEW n \in Name \ raced', NEW u \in Thread, PastChecks(u, n)'
      PROVE  writers'[n] = None /\ \A v \in Thread : PastChecks(v, n)' => v = u
  <2>1. n \in Name \ raced
    OBVIOUS
  <2>2. \A v \in Thread : v # t => (PastChecks(v, n)' <=> PastChecks(v, n))
    BY DEF PastChecks
  <2>3. \A v \in Thread : PastChecks(v, n) =>
          writers[n] = None /\ \A w \in Thread : PastChecks(w, n) => w = v
    BY <2>1 DEF ApartInv
  <2>4. PastChecks(t, n)' =>
          PastChecks(t, n) \/ (writers[n] = None /\ \A v \in Thread : ~PastChecks(v, n))
    BY <1>2
  <2>5. QED BY <1>2, <2>2, <2>3, <2>4
<1>3. QED BY <1>1, <1>2 DEF ApartInv

\* With no call running there is nothing to say of calls.
LEMMA AllIdle ==
  ASSUME \A t \in Thread : call[t].pc = "idle"
  PROVE  CallInv /\ ApartInv
BY DEF CallInv, ApartInv, At, Using, PastChecks

LEMMA OwnerMap ==
  ASSUME TypeOK, MapInv, CallInv, Start \/ StopHttp \/ CloseWriters \/ Kill
  PROVE  MapInv' /\ CallInv' /\ (ApartInv => ApartInv')
<1>0. ASSUME \A t \in Thread : call'[t].pc = "idle" PROVE CallInv' /\ ApartInv'
  BY <1>0 DEF CallInv, ApartInv, At, Using, PastChecks
<1>1. CASE Start
  <2> DEFINE indexes == {n \in Name : disk[n].schema}
  <2>1. PICK new \in [indexes -> Writer] :
          /\ \A m, n \in indexes : new[m] = new[n] => m = n
          /\ writers' = [n \in Name |-> IF n \in indexes THEN new[n] ELSE None]
          /\ obj' = [x \in Writer |->
                       IF \E n \in indexes : new[n] = x
                       THEN Opened(CHOOSE n \in indexes : new[n] = x) ELSE Dead]
    BY <1>1 DEF Start
  <2>2. \A n \in indexes : obj'[new[n]] = Opened(n)
    <3> SUFFICES ASSUME NEW n \in indexes PROVE obj'[new[n]] = Opened(n)
      OBVIOUS
    <3>1. (CHOOSE m \in indexes : new[m] = new[n]) = n
      BY <2>1
    <3>2. QED BY <2>1, <3>1
  <2>3. \A n \in indexes : obj'[new[n]].dir = n /\ new[n] \in Alive' /\ writers'[n] = new[n]
    <3> SUFFICES ASSUME NEW n \in indexes
                 PROVE  obj'[new[n]].dir = n /\ new[n] \in Alive' /\ writers'[n] = new[n]
      OBVIOUS
    <3>1. obj'[new[n]].dir = n
      <4>1. Opened(n).dir = n
        BY DEF Opened
      <4>2. obj'[new[n]] = Opened(n)
        BY <2>2
      <4>3. QED BY <4>1, <4>2
    <3>2. n # None /\ new[n] \in Writer
      BY <2>1, ConstantsAssumption DEF ConstantsAssumption
    <3>3. new[n] \in Alive'
      BY <3>1, <3>2 DEF Alive
    <3>4. writers'[n] = new[n]
      BY <2>1
    <3>5. QED BY <3>1, <3>3, <3>4
  <2>4. \A x \in Alive' : \E n \in indexes : new[n] = x
    BY <2>1 DEF Alive, Dead
  <2>5. main' = "up" /\ disk' = disk /\ call' = call
    BY <1>1 DEF Start
  <2>6. \A t \in Thread : call'[t].pc = "idle"
    BY <1>1, <2>5 DEF CallInv, Start, At
  <2>7. MapInv'
    <3>1. \A n \in Name : writers'[n] # None =>
            writers'[n] \in Alive' /\ obj'[writers'[n]].dir = n /\ disk'[n].schema
      BY <2>1, <2>3, <2>5
    <3>2. \A x \in Alive' : writers'[obj'[x].dir] = x
      BY <2>3, <2>4
    <3>3. WritersOwned'
      BY <2>6, <3>1, <3>2 DEF WritersOwned, At
    <3>4. QED BY <2>5, <3>1, <3>3 DEF MapInv
  <2>8. QED BY <1>0, <2>6, <2>7
<1>2. CASE StopHttp
  <2>1. /\ call' = call /\ writers' = writers /\ obj' = obj /\ disk' = disk /\ raced' = raced
        /\ main' = "stopping"
    BY <1>2 DEF StopHttp
  <2>2. MapInv'
    BY <2>1 DEF MapInv, WritersOwned, At, Alive
  <2>3. CallInv'
    BY <2>1 DEF CallInv, At, Alive
  <2>4. ApartInv => ApartInv'
    BY <2>1 DEF ApartInv, PastChecks
  <2>5. QED BY <2>2, <2>3, <2>4
<1>3. ASSUME writers' = [n \in Name |-> None], obj' = [x \in Writer |-> Dead],
             \A t \in Thread : call'[t].pc = "idle",
             \A n \in Name : disk'[n].schema = disk[n].schema /\ disk'[n].dir = disk[n].dir
      PROVE  MapInv'
  <2>1. Alive' = {}
    BY <1>3 DEF Alive, Dead
  <2>2. WritersOwned'
    BY <1>3, <2>1 DEF WritersOwned, At
  <2>3. QED BY <1>3, <2>2 DEF MapInv
<1>4. CASE CloseWriters
  <2>1. /\ writers' = [n \in Name |-> None] /\ obj' = [x \in Writer |-> Dead]
        /\ \A t \in Thread : call'[t].pc = "idle"
    BY <1>4 DEF CloseWriters, At
  <2>2. \A n \in Name : disk'[n].schema = disk[n].schema /\ disk'[n].dir = disk[n].dir
    <3>1. ASSUME NEW n \in Name
          PROVE  Seal(n).schema = disk[n].schema /\ Seal(n).dir = disk[n].dir
      BY DEF Seal, TypeOK, Directory
    <3>2. QED BY <1>4, <3>1 DEF CloseWriters
  <2>3. QED BY <1>0, <1>3, <2>1, <2>2
<1>5. CASE Kill
  <2>1. /\ writers' = [n \in Name |-> None] /\ obj' = [x \in Writer |-> Dead]
        /\ (\A t \in Thread : call'[t].pc = "idle") /\ disk' = disk
    BY <1>5 DEF Kill, Idle
  <2>2. QED BY <1>0, <1>3, <2>1
<1>6. QED BY <1>1, <1>2, <1>4, <1>5

\* A create up to the place where it opens the writer: the map stays as it is,
\* and so do the writers.
LEMMA CreateBegins ==
  ASSUME TypeOK, MapInv, CallInv, NEW t \in Thread,
         Exists(t) \/ Count(t) \/ MakeDirectory(t) \/ OpenFails(t)
  PROVE  MapInv' /\ CallInv' /\ (ApartInv => ApartInv')
<1> DEFINE n == call[t].name
<1>1. call[t].pc \in {"exists", "count", "mkdir", "open"}
  BY DEF Exists, Count, MakeDirectory, OpenFails, At
<1>2. /\ n \in Name /\ main \in {"up", "stopping"} /\ main' = main
      /\ writers' = writers /\ obj' = obj /\ ~At(t, "insert")
  BY <1>1, Names DEF CallInv, At, Exists, Count, MakeDirectory, OpenFails
<1>3. \A u \in Thread : At(u, "publish") => obj[call[u].w].mu = u
  BY DEF CallInv
<1>4. ASSUME Return(t), raced' = raced,
             \A m \in Name : /\ disk[m].schema => disk'[m].schema
                             /\ disk[m].dir => disk'[m].dir
                             /\ disk'[m].schema => disk'[m].dir
      PROVE  MapInv' /\ CallInv' /\ (ApartInv => ApartInv')
  <2>1. call'[t].pc = "idle" /\ \A u \in Thread : u # t => call'[u] = call[u]
    BY <1>4, Returns DEF Idle
  <2>2. MapInv'
    BY <1>2, <1>4, <2>1, MapThread
  <2>3. CallInv'
    BY <1>2, <1>3, <1>4, <2>1, CallThread
  <2>4. ASSUME ApartInv PROVE ApartInv'
    BY <1>2, <1>4, <2>1, <2>4, ApartThread DEF Using, PastChecks
  <2>5. QED BY <2>2, <2>3, <2>4
<1>5. ASSUME NEW pc \in {"count", "mkdir", "open"}, Goto(t, pc), raced \subseteq raced',
             pc = "open" => disk'[n].dir,
             ApartInv /\ n \notin raced' /\ pc # "count" =>
               \/ PastChecks(t, n)
               \/ writers[n] = None /\ \A u \in Thread : ~PastChecks(u, n),
             \A m \in Name : /\ disk[m].schema => disk'[m].schema
                             /\ disk[m].dir => disk'[m].dir
                             /\ disk'[m].schema => disk'[m].dir
      PROVE  MapInv' /\ CallInv' /\ (ApartInv => ApartInv')
  <2>1. /\ call'[t].pc = pc /\ call'[t].name = n
        /\ \A u \in Thread : u # t => call'[u] = call[u]
    BY <1>5, Goes
  <2>2. MapInv'
    BY <1>2, <1>5, <2>1, MapThread
  <2>3. CallInv'
    BY <1>2, <1>3, <1>5, <2>1, CallThread
  <2>4. ASSUME ApartInv PROVE ApartInv'
    <3>1. \A m \in Name \ raced' : PastChecks(t, m)' =>
            \/ PastChecks(t, m)
            \/ writers[m] = None /\ \A u \in Thread : ~PastChecks(u, m)
      <4> SUFFICES ASSUME NEW m \in Name \ raced', PastChecks(t, m)'
                   PROVE  \/ PastChecks(t, m)
                          \/ writers[m] = None /\ \A u \in Thread : ~PastChecks(u, m)
        OBVIOUS
      <4>1. m = n /\ pc # "count"
        BY <2>1 DEF PastChecks
      <4>2. QED BY <1>5, <2>4, <4>1
    <3>2. call'[t].pc \notin Using
      BY <2>1 DEF Using
    <3>3. QED BY <1>2, <1>5, <2>1, <2>4, <3>1, <3>2, ApartThread
  <2>5. QED BY <2>2, <2>3, <2>4
<1>6. ASSUME Exists(t) \/ Count(t), PassChecks(t), writers[n] = None
      PROVE  MapInv' /\ CallInv' /\ (ApartInv => ApartInv')
  <2>1. disk' = disk /\ Goto(t, "mkdir")
    BY <1>6 DEF Exists, Count, PassChecks
  <2>2. raced \subseteq raced' /\ (n \notin raced' => \A u \in Thread : ~PastChecks(u, n))
    BY <1>2, <1>6, Passes
  <2>3. \A m \in Name : disk[m].schema => disk[m].dir
    BY DEF MapInv
  <2>4. QED BY <1>5, <1>6, <2>1, <2>2, <2>3
<1>7. CASE Exists(t)
  <2>1. disk' = disk
    BY <1>7 DEF Exists
  <2>2. CASE Goto(t, "count") /\ raced' = raced
    BY <1>5, <2>1, <2>2 DEF MapInv
  <2>3. CASE ~disk[n].dir /\ PassChecks(t)
    <3>1. writers[n] = None
      BY <1>2, <2>3 DEF MapInv
    <3>2. QED BY <1>6, <1>7, <2>3, <3>1
  <2>4. QED BY <1>7, <2>2, <2>3 DEF Exists
<1>8. CASE Count(t)
  <2>1. disk' = disk
    BY <1>8 DEF Count
  <2>2. CASE Return(t) /\ raced' = raced
    BY <1>4, <2>1, <2>2 DEF MapInv
  <2>3. CASE writers[n] = None /\ PassChecks(t)
    BY <1>6, <1>8, <2>3
  <2>4. QED BY <1>8, <2>2, <2>3 DEF Count
<1>9. CASE MakeDirectory(t)
  <2>1. Goto(t, "open") /\ raced' = raced /\ PastChecks(t, n)
    BY <1>9 DEF MakeDirectory, At, PastChecks
  <2>2. \A m \in Name : /\ disk'[m].schema = disk[m].schema
                        /\ disk'[m].dir = (disk[m].dir \/ m = n)
    <3>1. disk[n] \in Directory
      BY <1>2 DEF TypeOK
    <3>2. disk' = [disk EXCEPT ![n] = [disk[n] EXCEPT !.dir = TRUE]]
      BY <1>9 DEF MakeDirectory
    <3>3. QED BY <1>2, <3>1, <3>2 DEF TypeOK, Directory
  <2>3. QED BY <1>2, <1>5, <2>1, <2>2 DEF MapInv
<1>10. CASE OpenFails(t)
  <2>1. Return(t) /\ disk[n].dir /\ raced' = raced
    BY <1>10 DEF OpenFails, At, CallInv
  <2>2. PICK s \in {TRUE, disk[n].schema} : disk' = [disk EXCEPT ![n].schema = s]
    BY <1>10 DEF OpenFails
  <2>3. \A m \in Name : /\ disk'[m].dir = disk[m].dir
                        /\ disk'[m].schema = IF m = n THEN s ELSE disk[m].schema
    <3>1. disk[n] \in Directory
      BY <1>2 DEF TypeOK
    <3>2. disk' = [disk EXCEPT ![n] = [disk[n] EXCEPT !.schema = s]]
      BY <2>2
    <3>3. QED BY <1>2, <3>1, <3>2 DEF TypeOK, Directory
  <2>4. QED BY <1>2, <1>4, <2>1, <2>2, <2>3 DEF MapInv
<1>11. QED BY <1>7, <1>8, <1>9, <1>10

\* The writer that a create opens is in its hand.
LEMMA CreateOpens ==
  ASSUME TypeOK, MapInv, CallInv, NEW t \in Thread, OpenWriter(t)
  PROVE  MapInv' /\ CallInv' /\ (ApartInv => ApartInv')
<1> DEFINE n == call[t].name
<1>1. /\ n \in Name /\ main \in {"up", "stopping"} /\ main' = main /\ raced' = raced
      /\ writers' = writers /\ disk[n].dir /\ ~At(t, "insert") /\ PastChecks(t, n)
  BY Names DEF OpenWriter, CallInv, At, PastChecks
<1>2. PICK x \in Writer \ Alive :
        obj' = [obj EXCEPT ![x] = Opened(n)] /\ GotoWith(t, "insert", x)
  BY DEF OpenWriter
<1>3. /\ call'[t].pc = "insert" /\ call'[t].name = n /\ call'[t].w = x
      /\ \A u \in Thread : u # t => call'[u] = call[u]
  BY <1>2, GoesWith
<1>4. \A m \in Name : disk'[m].dir = disk[m].dir /\ disk'[m].schema = (disk[m].schema \/ m = n)
  <2>1. disk[n] \in Directory
    BY <1>1 DEF TypeOK
  <2>2. disk' = [disk EXCEPT ![n] = [disk[n] EXCEPT !.schema = TRUE]]
    BY DEF OpenWriter
  <2>3. QED BY <1>1, <2>1, <2>2 DEF TypeOK, Directory
<1>5. obj'[x].dir = n /\ n # None /\ x # None /\ \A y \in Writer : y # x => obj'[y] = obj[y]
  BY <1>1, <1>2, ConstantsAssumption DEF ConstantsAssumption, TypeOK, Opened
<1>6. Alive' = Alive \cup {x} /\ x \notin Alive
  BY <1>2, <1>5 DEF Alive
<1>7. \A y \in Alive : y # x /\ y \in Alive' /\ obj'[y] = obj[y]
  BY <1>5, <1>6 DEF Alive
<1>8. \A m \in Name : writers[m] # x
  BY <1>5, <1>6, InMap
<1>9. \A u \in Thread : At(u, "insert") =>
        /\ u # t /\ call'[u] = call[u] /\ call[u].w \in Alive
        /\ obj[call[u].w].dir = call[u].name /\ \A m \in Name : writers[m] # call[u].w
  BY <1>1, <1>3, InHand
<1>10. \A u \in Thread : call'[u].pc = "insert" <=> u = t \/ At(u, "insert")
  BY <1>3 DEF At
<1>11. WritersOwned'
  <2>1. \A m \in Name : writers'[m] # None => writers'[m] \in Alive' /\ obj'[writers'[m]].dir = m
    BY <1>1, <1>7, InMap
  <2>2. \A u \in Thread : call'[u].pc = "insert" =>
          /\ call'[u].w \in Alive' /\ obj'[call'[u].w].dir = call'[u].name
          /\ \A m \in Name : writers'[m] # call'[u].w
    <3> SUFFICES ASSUME NEW u \in Thread, call'[u].pc = "insert"
                 PROVE  /\ call'[u].w \in Alive' /\ obj'[call'[u].w].dir = call'[u].name
                        /\ \A m \in Name : writers'[m] # call'[u].w
      OBVIOUS
    <3>1. CASE u = t
      BY <1>1, <1>3, <1>5, <1>6, <1>8, <3>1
    <3>2. CASE u # t
      BY <1>1, <1>7, <1>9, <1>10, <3>2
    <3>3. QED BY <3>1, <3>2
  <2>3. \A u, v \in Thread :
          call'[u].pc = "insert" /\ call'[v].pc = "insert" /\ call'[u].w = call'[v].w => u = v
    <3> SUFFICES ASSUME NEW u \in Thread, NEW v \in Thread, call'[u].pc = "insert",
                        call'[v].pc = "insert", call'[u].w = call'[v].w
                 PROVE  u = v
      OBVIOUS
    <3>1. CASE u = t \/ v = t
      BY <1>3, <1>6, <1>9, <1>10, <3>1
    <3>2. CASE u # t /\ v # t
      BY <1>3, <1>10, <3>2 DEF MapInv, WritersOwned
    <3>3. QED BY <3>1, <3>2
  <2>4. \A y \in Alive' :
          writers'[obj'[y].dir] = y \/ \E u \in Thread : call'[u].pc = "insert" /\ call'[u].w = y
    <3> SUFFICES ASSUME NEW y \in Alive'
                 PROVE  \/ writers[obj'[y].dir] = y
                        \/ \E u \in Thread : call'[u].pc = "insert" /\ call'[u].w = y
      BY <1>1
    <3>1. CASE y = x
      BY <1>3, <3>1
    <3>2. CASE y # x
      <4>1. y \in Alive /\ obj'[y] = obj[y]
        BY <1>6, <1>7, <3>2
      <4>2. writers[obj[y].dir] = y \/ \E u \in Thread : At(u, "insert") /\ call[u].w = y
        BY <4>1 DEF MapInv, WritersOwned
      <4>3. QED BY <1>9, <1>10, <4>1, <4>2
    <3>3. QED BY <3>1, <3>2
  <2>5. QED BY <2>1, <2>2, <2>3, <2>4 DEF WritersOwned, At
<1>12. MapInv'
  BY <1>1, <1>4, <1>11 DEF MapInv
<1>13. CallInv'
  <2>1. \A u \in Thread : u # t /\ At(u, "publish") =>
          obj'[call[u].w].dir = obj[call[u].w].dir /\ obj'[call[u].w].mu = u
    BY <1>7 DEF CallInv
  <2>2. QED BY <1>1, <1>3, <1>4, <2>1, CallThread
<1>14. ASSUME ApartInv PROVE ApartInv'
  <2>1. \A m \in Name : PastChecks(t, m)' => PastChecks(t, m)
    BY <1>1, <1>3 DEF PastChecks
  <2>2. call'[t].pc \notin Using
    BY <1>3 DEF Using
  <2>3. QED BY <1>1, <1>3, <1>14, <2>1, <2>2, ApartThread
<1>15. QED BY <1>12, <1>13, <1>14

\* What an insert does: the writer in hand comes into the map, and the one it
\* replaces ends.
LEMMA Inserts ==
  ASSUME TypeOK, MapInv, CallInv, NEW t \in Thread, Insert(t),
         NEW n, NEW w, NEW old, n = call[t].name, w = call[t].w, old = writers[n]
  PROVE  /\ n \in Name /\ w \in Alive /\ w # None /\ obj[w].dir = n /\ w # old
         /\ main \in {"up", "stopping"} /\ main' = main /\ disk' = disk /\ raced' = raced
         /\ acked' = acked /\ shown' = shown /\ PastChecks(t, n)
         /\ writers'[n] = w /\ (\A m \in Name : m # n => writers'[m] = writers[m])
         /\ call'[t] = Idle /\ (\A u \in Thread : u # t => call'[u] = call[u])
         /\ (\A x \in Writer : x # old => obj'[x] = obj[x])
         /\ (old # None => obj[old].dir = n /\ obj[old].mu = None /\ obj'[old].dir = None)
         /\ Alive' = Alive \ {old}
<1>1. At(t, "insert")
  BY DEF Insert
<1>2. /\ n \in Name /\ w \in Alive /\ w \in Writer /\ w # None /\ obj[w].dir = n /\ w # old
      /\ main \in {"up", "stopping"}
  BY <1>1, InHand
<1>3. /\ writers' = [writers EXCEPT ![n] = w] /\ main' = main /\ disk' = disk
      /\ raced' = raced /\ acked' = acked /\ shown' = shown /\ Return(t)
      /\ obj' = IF old = None THEN obj ELSE [obj EXCEPT ![old] = Dead]
      /\ (old # None => obj[old].mu = None)
  BY DEF Insert
<1>4. writers'[n] = w /\ \A m \in Name : m # n => writers'[m] = writers[m]
  BY <1>2, <1>3 DEF TypeOK
<1>5. call'[t] = Idle /\ \A u \in Thread : u # t => call'[u] = call[u]
  BY <1>3, Returns
<1>6. PastChecks(t, n)
  BY <1>1 DEF PastChecks, At
<1>7. /\ \A x \in Writer : x # old => obj'[x] = obj[x]
      /\ old # None => obj[old].dir = n /\ obj'[old].dir = None
      /\ Alive' = Alive \ {old}
  <2>1. CASE old = None
    <3>1. obj' = obj
      BY <1>3, <2>1
    <3>2. Alive' = Alive /\ old \notin Alive
      BY <2>1, <3>1, ConstantsAssumption DEF ConstantsAssumption, Alive
    <3>3. QED BY <2>1, <3>1, <3>2
  <2>2. CASE old # None
    <3>1. old \in Writer /\ obj[old].dir = n
      BY <1>2, <2>2, InMap
    <3>2. obj' = [obj EXCEPT ![old] = Dead]
      BY <1>3, <2>2
    <3>3. obj'[old] = Dead /\ \A x \in Writer : x # old => obj'[x] = obj[x]
      BY <3>1, <3>2 DEF TypeOK
    <3>4. obj'[old].dir = None
      BY <3>3 DEF Dead
    <3>5. Alive' = Alive \ {old}
      BY <3>3, <3>4 DEF Alive
    <3>6. QED BY <3>1, <3>3, <3>4, <3>5
  <2>3. QED BY <2>1, <2>2
<1>8. QED BY <1>2, <1>3, <1>4, <1>5, <1>6, <1>7

LEMMA CreateInserts ==
  ASSUME TypeOK, MapInv, CallInv, NEW t \in Thread, Insert(t)
  PROVE  MapInv' /\ CallInv' /\ (ApartInv => ApartInv')
<1> SUFFICES ASSUME NEW n, NEW w, NEW old, n = call[t].name, w = call[t].w, old = writers[n]
             PROVE  MapInv' /\ CallInv' /\ (ApartInv => ApartInv')
  OBVIOUS
<1>1. /\ n \in Name /\ w \in Alive /\ w # None /\ obj[w].dir = n /\ w # old
      /\ main \in {"up", "stopping"} /\ main' = main /\ disk' = disk /\ raced' = raced
      /\ PastChecks(t, n)
  BY Inserts
<1>2. writers'[n] = w /\ \A m \in Name : m # n => writers'[m] = writers[m]
  BY Inserts
<1>3. call'[t].pc = "idle" /\ \A u \in Thread : u # t => call'[u] = call[u]
  BY Inserts DEF Idle
<1>4. /\ \A x \in Writer : x # old => obj'[x] = obj[x]
      /\ old # None => obj[old].dir = n /\ obj[old].mu = None
      /\ Alive' = Alive \ {old}
  BY Inserts
<1>5. \A x \in Alive : x # old => x \in Alive' /\ obj'[x] = obj[x]
  BY <1>4 DEF Alive
<1>6. \A u \in Thread : call'[u].pc = "insert" =>
        u # t /\ At(u, "insert") /\ call'[u] = call[u]
  BY <1>3 DEF At
<1>7. At(t, "insert")
  BY DEF Insert
<1>8. \A u \in Thread : u # t /\ At(u, "insert") => call[u].w # w
  BY <1>7 DEF MapInv, WritersOwned
<1>9. WritersOwned'
  <2>1. \A m \in Name : writers'[m] # None => writers'[m] \in Alive' /\ obj'[writers'[m]].dir = m
    <3> SUFFICES ASSUME NEW m \in Name, writers'[m] # None
                 PROVE  writers'[m] \in Alive' /\ obj'[writers'[m]].dir = m
      OBVIOUS
    <3>1. CASE m = n
      BY <1>1, <1>2, <1>5, <3>1
    <3>2. CASE m # n
      <4>1. writers'[m] = writers[m] /\ writers[m] \in Alive /\ obj[writers[m]].dir = m
        BY <1>2, <3>2, InMap
      <4>2. writers[m] # old
        BY <1>4, <3>2, <4>1
      <4>3. QED BY <1>5, <4>1, <4>2
    <3>3. QED BY <3>1, <3>2
  <2>2. \A u \in Thread : call'[u].pc = "insert" =>
          /\ call'[u].w \in Alive' /\ obj'[call'[u].w].dir = call'[u].name
          /\ \A m \in Name : writers'[m] # call'[u].w
    <3> SUFFICES ASSUME NEW u \in Thread, u # t, At(u, "insert")
                 PROVE  /\ call[u].w \in Alive' /\ obj'[call[u].w].dir = call[u].name
                        /\ \A m \in Name : writers'[m] # call[u].w
      BY <1>6
    <3>1. /\ call[u].w \in Alive /\ obj[call[u].w].dir = call[u].name
          /\ \A m \in Name : writers[m] # call[u].w
      BY InHand
    <3>2. call[u].w # old /\ call[u].w # w
      BY <1>1, <1>8, <3>1
    <3>3. \A m \in Name : writers'[m] # call[u].w
      BY <1>2, <3>1, <3>2
    <3>4. QED BY <1>5, <3>1, <3>2, <3>3
  <2>3. \A u, v \in Thread :
          call'[u].pc = "insert" /\ call'[v].pc = "insert" /\ call'[u].w = call'[v].w => u = v
    BY <1>6 DEF MapInv, WritersOwned
  <2>4. \A y \in Alive' :
          writers'[obj'[y].dir] = y \/ \E u \in Thread : call'[u].pc = "insert" /\ call'[u].w = y
    <3> SUFFICES ASSUME NEW y \in Alive, y # old
                 PROVE  \/ writers'[obj[y].dir] = y
                        \/ \E u \in Thread : call'[u].pc = "insert" /\ call'[u].w = y
      BY <1>4, <1>5
    <3>1. obj[y].dir \in Name
      BY AliveDir
    <3>2. CASE writers[obj[y].dir] = y
      BY <1>2, <3>1, <3>2
    <3>3. CASE \E u \in Thread : At(u, "insert") /\ call[u].w = y
      <4>1. PICK u \in Thread : At(u, "insert") /\ call[u].w = y
        BY <3>3
      <4>2. CASE u = t
        BY <1>1, <1>2, <4>1, <4>2
      <4>3. CASE u # t
        BY <1>3, <4>1, <4>3 DEF At
      <4>4. QED BY <4>2, <4>3
    <3>4. QED BY <3>2, <3>3 DEF MapInv, WritersOwned
  <2>5. QED BY <2>1, <2>2, <2>3, <2>4 DEF WritersOwned, At
<1>10. MapInv'
  <2>1. \A m \in Name : writers'[m] # None => disk'[m].schema
    <3>1. disk[n].schema
      BY <1>7, InHand
    <3>2. QED BY <1>1, <1>2, <3>1 DEF MapInv
  <2>2. QED BY <1>1, <1>9, <2>1 DEF MapInv
<1>11. CallInv'
  <2>1. ASSUME NEW u \in Thread, u # t, At(u, "publish")
        PROVE  obj'[call[u].w].dir = obj[call[u].w].dir /\ obj'[call[u].w].mu = u
    <3>1. call[u].w \in Alive /\ obj[call[u].w].mu = u /\ u # None
      BY <2>1, ConstantsAssumption DEF ConstantsAssumption, CallInv
    <3>2. call[u].w # old
      BY <1>4, <3>1, AliveDir
    <3>3. QED BY <1>5, <3>1, <3>2
  <2>2. QED BY <1>1, <1>3, <2>1, CallThread
<1>12. ASSUME ApartInv PROVE ApartInv'
  <2>1. ASSUME NEW u \in Thread, u # t, call[u].pc \in Using, call[u].name \notin raced
        PROVE  call[u].w = writers'[call[u].name]
    <3>1. call[u].name \in Name /\ call[u].w = writers[call[u].name] /\ call[u].w # None
      BY <1>12, <2>1, Names DEF ApartInv, TypeOK, At, Using
    <3>2. call[u].name # n
      BY <1>1, <1>12, <2>1, <3>1 DEF ApartInv
    <3>3. QED BY <1>2, <3>1, <3>2
  <2>2. ASSUME NEW m \in Name \ raced, NEW u \in Thread, u # t, PastChecks(u, m)
        PROVE  writers'[m] = None /\ \A v \in Thread : PastChecks(v, m) => v = u
    <3>1. writers[m] = None /\ \A v \in Thread : PastChecks(v, m) => v = u
      BY <1>12, <2>2 DEF ApartInv
    <3>2. m # n
      BY <1>1, <2>2, <3>1
    <3>3. QED BY <1>2, <3>1, <3>2
  <2>3. \A m \in Name : \A u \in Thread : PastChecks(u, m)' => u # t /\ PastChecks(u, m)
    BY <1>3 DEF PastChecks
  <2>4. \A u \in Thread : call'[u].pc \in Using => u # t /\ call'[u] = call[u]
    BY <1>3 DEF Using
  <2>5. \A u \in Thread : call'[u].pc \in Using /\ call'[u].name \notin raced' =>
          call'[u].w = writers'[call'[u].name]
    BY <1>1, <2>1, <2>4
  <2>6. \A m \in Name \ raced' : \A u \in Thread : PastChecks(u, m)' =>
          writers'[m] = None /\ \A v \in Thread : PastChecks(v, m)' => v = u
    BY <1>1, <2>2, <2>3
  <2>7. QED BY <2>5, <2>6 DEF ApartInv
<1>13. QED BY <1>10, <1>11, <1>12

\* What a step of a handler that uses the writer does to the calls; the
\* step enters the mutex of the writer, or holds it.
LEMMA UseMap ==
  ASSUME TypeOK, MapInv, CallInv, NEW t \in Thread, call[t].pc \in Using,
         main' = main, writers' = writers, raced' = raced,
         \A x \in Writer : obj'[x].dir = obj[x].dir,
         \A x \in Writer : x # call[t].w => obj'[x] = obj[x],
         \A m \in Name : disk'[m].schema = disk[m].schema /\ disk'[m].dir = disk[m].dir,
         \A u \in Thread : u # t => call'[u] = call[u],
         obj[call[t].w].mu \in {None, t},
         \/ call'[t].pc \in {"idle", "respond"}
         \/ /\ call'[t].pc = "publish" /\ call'[t].name = call[t].name
            /\ call'[t].w = call[t].w /\ obj'[call[t].w].mu = t
            /\ call[t].w \in Alive /\ obj[call[t].w].dir = call[t].name
  PROVE  MapInv' /\ CallInv' /\ (ApartInv => ApartInv')
<1>1. ~At(t, "insert") /\ main \in {"up", "stopping"} /\ call'[t].pc # "insert"
  BY DEF Using, At, CallInv
<1>2. MapInv'
  BY <1>1, MapThread DEF MapInv
<1>3. \A u \in Thread : u # t /\ At(u, "publish") =>
        obj'[call[u].w].dir = obj[call[u].w].dir /\ obj'[call[u].w].mu = u
  <2> SUFFICES ASSUME NEW u \in Thread, u # t, At(u, "publish")
               PROVE  obj'[call[u].w].dir = obj[call[u].w].dir /\ obj'[call[u].w].mu = u
    OBVIOUS
  <2>1. call[u].w \in Writer /\ obj[call[u].w].mu = u
    BY Names DEF CallInv, At, Using
  <2>2. u # None
    BY ConstantsAssumption DEF ConstantsAssumption
  <2>3. QED BY <2>1, <2>2
<1>4. call'[t].pc = "publish" =>
        /\ call'[t].w \in Alive' /\ obj'[call'[t].w].dir = call'[t].name
        /\ obj'[call'[t].w].mu = t
  BY DEF Alive
<1>5. CallInv'
  BY <1>1, <1>3, <1>4, CallThread
<1>6. ASSUME ApartInv PROVE ApartInv'
  <2>1. \A m \in Name : ~PastChecks(t, m)'
    BY DEF PastChecks
  <2>2. call'[t].pc \in Using => call'[t].w = writers[call'[t].name] \/ call'[t].name \in raced'
    BY <1>6 DEF ApartInv, Using
  <2>3. QED BY <1>6, <2>1, <2>2, ApartThread
<1>7. QED BY <1>2, <1>5, <1>6

LEMMA ThreadMap ==
  ASSUME TypeOK, MapInv, CallInv, NEW t \in Thread,
         Request(t) \/ Lookup(t) \/ AddDocument(t) \/ Refresh(t) \/ Search(t)
  PROVE  MapInv' /\ CallInv' /\ (ApartInv => ApartInv')
<1> DEFINE n == call[t].name  x == call[t].w
<1>1. ASSUME NEW u \in Thread, At(u, "publish") PROVE obj[call[u].w].mu = u
  BY <1>1 DEF CallInv
<1>2. ASSUME ~At(t, "insert"), main' = main, main \in {"up", "stopping"},
             writers' = writers, obj' = obj, disk' = disk, raced' = raced,
             \A u \in Thread : u # t => call'[u] = call[u],
             call'[t].pc \notin {"publish", "mkdir", "open", "insert"},
             call'[t].pc \in Using => call'[t].w = writers[call'[t].name]
      PROVE  MapInv' /\ CallInv' /\ (ApartInv => ApartInv')
  <2>1. MapInv'
    BY <1>2, MapThread DEF MapInv
  <2>2. CallInv'
    BY <1>1, <1>2, CallThread
  <2>3. \A m \in Name : ~PastChecks(t, m)'
    BY <1>2 DEF PastChecks
  <2>4. ApartInv => ApartInv'
    BY <1>2, <2>3, ApartThread
  <2>5. QED BY <2>1, <2>2, <2>4
<1>3. CASE Request(t)
  <2>1. /\ ~At(t, "insert") /\ main' = main /\ main \in {"up", "stopping"}
        /\ writers' = writers /\ obj' = obj /\ disk' = disk /\ raced' = raced
    BY <1>3 DEF Request, At
  <2>2. /\ call'[t].pc \in {"exists", "lookup"}
        /\ \A u \in Thread : u # t => call'[u] = call[u]
    BY <1>3, Begins
  <2>3. QED BY <1>2, <2>1, <2>2 DEF Using
<1>4. CASE Lookup(t)
  <2>1. /\ ~At(t, "insert") /\ main' = main /\ main \in {"up", "stopping"}
        /\ writers' = writers /\ obj' = obj /\ disk' = disk /\ raced' = raced
    BY <1>4 DEF Lookup, At, CallInv
  <2>2. CASE Return(t)
    <3>1. call'[t].pc = "idle" /\ \A u \in Thread : u # t => call'[u] = call[u]
      BY <2>2, Returns DEF Idle
    <3>2. QED BY <1>2, <2>1, <3>1 DEF Using
  <2>3. CASE writers[n] # None /\ GotoWith(t, call[t].op, writers[n])
    <3>1. call[t].op \in {"post", "refresh", "search"} /\ n \in Name
      BY <1>4, CallOK, Names DEF Lookup, At
    <3>2. writers[n] \in Writer
      BY <2>3, <3>1 DEF TypeOK
    <3>3. /\ call'[t].pc = call[t].op /\ call'[t].name = n /\ call'[t].w = writers[n]
          /\ \A u \in Thread : u # t => call'[u] = call[u]
      BY <2>3, <3>1, <3>2, GoesWith
    <3>4. QED BY <1>2, <2>1, <3>1, <3>3
  <2>4. QED BY <1>4, <2>2, <2>3 DEF Lookup
<1>5. ASSUME call[t].pc \in Using
      PROVE  n \in Name /\ x \in Writer /\ obj[x] \in Object /\ disk[n] \in Directory
  BY <1>5, Names DEF At, Using, TypeOK
<1>6. CASE AddDocument(t)
  <2>1. call[t].pc \in Using /\ obj[x].mu = None
    BY <1>6 DEF AddDocument, At, Using, Enters
  <2>2. obj' = [obj EXCEPT ![x] = [obj[x] EXCEPT !.pending = @ \cup {call[t].doc}]]
    BY <1>6 DEF AddDocument
  <2>3. /\ \A y \in Writer : obj'[y].dir = obj[y].dir
        /\ \A y \in Writer : y # x => obj'[y] = obj[y]
    BY <1>5, <2>1, <2>2 DEF TypeOK, Object
  <2>4. disk' = [disk EXCEPT ![n] = [disk[n] EXCEPT !.log = @ \cup {call[t].doc}]]
    BY <1>6 DEF AddDocument
  <2>5. \A m \in Name : disk'[m].schema = disk[m].schema /\ disk'[m].dir = disk[m].dir
    BY <1>5, <2>1, <2>4 DEF TypeOK, Directory
  <2>6. call'[t].pc = "idle" /\ \A u \in Thread : u # t => call'[u] = call[u]
    BY <1>6, Returns DEF AddDocument, Idle
  <2>7. QED BY <1>6, <2>1, <2>3, <2>5, <2>6, UseMap DEF AddDocument
<1>7. CASE RefreshNothing(t)
  <2>1. call[t].pc \in Using /\ obj[x].mu = None
    BY <1>7 DEF RefreshNothing, At, Using, Enters
  <2>2. obj' = [obj EXCEPT ![x] = [obj[x] EXCEPT !.published = obj[x].sealed]]
    BY <1>7 DEF RefreshNothing
  <2>3. /\ \A y \in Writer : obj'[y].dir = obj[y].dir
        /\ \A y \in Writer : y # x => obj'[y] = obj[y]
    BY <1>5, <2>1, <2>2 DEF TypeOK, Object
  <2>4. call'[t].pc = "idle" /\ \A u \in Thread : u # t => call'[u] = call[u]
    BY <1>7, Returns DEF RefreshNothing, Idle
  <2>5. QED BY <1>7, <2>1, <2>3, <2>4, UseMap DEF RefreshNothing
<1>8. CASE RefreshSeal(t)
  <2>1. call[t].pc \in Using /\ obj[x].mu = None
    BY <1>8 DEF RefreshSeal, At, Using, Enters
  <2>9. x \in Alive /\ obj[x].dir = n
    BY <1>8 DEF RefreshSeal, Enters
  <2>2. obj' = [obj EXCEPT ![x] = [obj[x] EXCEPT !.sealed = @ \cup obj[x].pending, !.mu = t]]
    BY <1>8 DEF RefreshSeal
  <2>3. /\ \A y \in Writer : obj'[y].dir = obj[y].dir
        /\ \A y \in Writer : y # x => obj'[y] = obj[y]
        /\ obj'[x].mu = t
    BY <1>5, <2>1, <2>2 DEF TypeOK, Object
  <2>4. disk' = [disk EXCEPT ![n] =
                   [disk[n] EXCEPT !.manifest = obj[x].sealed \cup obj[x].pending]]
    BY <1>8 DEF RefreshSeal
  <2>5. \A m \in Name : disk'[m].schema = disk[m].schema /\ disk'[m].dir = disk[m].dir
    BY <1>5, <2>1, <2>4 DEF TypeOK, Directory
  <2>6. Goto(t, "publish")
    BY <1>8 DEF RefreshSeal
  <2>7. /\ call'[t].pc = "publish" /\ call'[t].name = n /\ call'[t].w = x
        /\ \A u \in Thread : u # t => call'[u] = call[u]
    BY <2>6, Goes
  <2>8. QED BY <1>8, <2>1, <2>3, <2>5, <2>7, <2>9, UseMap DEF RefreshSeal
<1>9. CASE Publish(t)
  <2>1. call[t].pc \in Using /\ obj[x].mu = t
    BY <1>1, <1>9 DEF Publish, At, Using
  <2>2. obj' = [obj EXCEPT ![x] =
                  [obj[x] EXCEPT !.pending = {}, !.published = obj[x].sealed, !.mu = None]]
    BY <1>9 DEF Publish
  <2>3. /\ \A y \in Writer : obj'[y].dir = obj[y].dir
        /\ \A y \in Writer : y # x => obj'[y] = obj[y]
    BY <1>5, <2>1, <2>2 DEF TypeOK, Object
  <2>4. disk' = [disk EXCEPT ![n] = [disk[n] EXCEPT !.log = {}]]
    BY <1>9 DEF Publish
  <2>5. \A m \in Name : disk'[m].schema = disk[m].schema /\ disk'[m].dir = disk[m].dir
    BY <1>5, <2>1, <2>4 DEF TypeOK, Directory
  <2>6. call'[t].pc = "idle" /\ \A u \in Thread : u # t => call'[u] = call[u]
    BY <1>9, Returns DEF Publish, Idle
  <2>7. QED BY <1>9, <2>1, <2>3, <2>5, <2>6, UseMap DEF Publish
<1>10. CASE CurrentReader(t)
  <2>1. call[t].pc \in Using /\ obj[x].mu = None
    BY <1>10 DEF CurrentReader, At, Using, Enters
  <2>2. call'[t].pc = "respond" /\ \A u \in Thread : u # t => call'[u] = call[u]
    BY <1>10, Snapshot
  <2>3. QED BY <1>10, <2>1, <2>2, UseMap DEF CurrentReader
<1>11. CASE Respond(t)
  <2>1. /\ ~At(t, "insert") /\ main' = main /\ main \in {"up", "stopping"}
        /\ writers' = writers /\ obj' = obj /\ disk' = disk /\ raced' = raced
    BY <1>11 DEF Respond, At, CallInv
  <2>2. call'[t].pc = "idle" /\ \A u \in Thread : u # t => call'[u] = call[u]
    BY <1>11, Returns DEF Respond, Idle
  <2>3. QED BY <1>2, <2>1, <2>2 DEF Using
<1>12. QED
  BY <1>3, <1>4, <1>6, <1>7, <1>8, <1>9, <1>10, <1>11 DEF Refresh, Search

LEMMA MapInit == Init => MapInv /\ CallInv /\ ApartInv
<1> SUFFICES ASSUME Init PROVE MapInv /\ CallInv /\ ApartInv
  OBVIOUS
<1>1. \A t \in Thread : call[t].pc = "idle"
  BY DEF Init, Idle
<1>2. Alive = {}
  BY DEF Init, Alive, Dead
<1>3. WritersOwned
  BY <1>1, <1>2 DEF Init, WritersOwned, At
<1>4. MapInv
  BY <1>3 DEF Init, MapInv
<1>5. QED BY <1>1, <1>4, AllIdle

LEMMA MapStep ==
  ASSUME TypeOK, MapInv, CallInv, [Next]_vars
  PROVE  MapInv' /\ CallInv' /\ (ApartInv => ApartInv')
<1>1. CASE UNCHANGED vars
  <2>1. MapInv'
    BY <1>1 DEF vars, MapInv, WritersOwned, At, Alive
  <2>2. CallInv'
    BY <1>1 DEF vars, CallInv, At, Alive
  <2>3. ApartInv => ApartInv'
    BY <1>1 DEF vars, ApartInv, PastChecks
  <2>4. QED BY <2>1, <2>2, <2>3
<1>2. QED
  BY <1>1, OwnerMap, CreateBegins, CreateOpens, CreateInserts, ThreadMap DEF Next, CreateIndex

LEMMA MapAlways == Spec => [](TypeOK /\ MapInv /\ CallInv /\ ApartInv)
<1>1. /\ TypeOK /\ MapInv /\ CallInv /\ ApartInv /\ [Next]_vars
      => (TypeOK /\ MapInv /\ CallInv /\ ApartInv)'
  BY TypeStep, MapStep
<1>2. Init => TypeOK /\ MapInv /\ CallInv /\ ApartInv
  BY TypeInit, MapInit
<1>3. QED BY <1>1, <1>2, PTL DEF Spec

\* However creates overlap, a live writer is in the map under the name of its
\* directory or in the hand of one create that is about to put it there.
THEOREM WritersAlwaysOwned == Spec => []WritersOwned
<1>1. MapInv => WritersOwned
  BY DEF MapInv
<1>2. QED BY <1>1, MapAlways, PTL

\* No handler uses a writer that was destroyed, of an index for which no two
\* requests were past the checks of CreateIndex at once.
THEOREM WriterInUseAlwaysLives == Spec => []WriterInUseLives
<1>1. TypeOK /\ MapInv /\ ApartInv => WriterInUseLives
  BY InUse DEF WriterInUseLives
<1>2. QED BY <1>1, MapAlways, PTL

-----------------------------------------------------------------------------
(* What was answered, of the indexes that no two creates raced for.        *)

\* A step on one such index that has a writer, with that writer.
LEMMA Local ==
  ASSUME TypeOK, MapInv, CallInv, ApartInv, DataInv, MustInv, NEW t \in Thread,
         NEW n \in Name \ raced, NEW x, x = writers[n], x # None, raced' = raced,
         main' = main, writers' = writers,
         \A y \in Writer : y # x => obj'[y] = obj[y],
         \A m \in Name : m # n =>
           disk'[m] = disk[m] /\ acked'[m] = acked[m] /\ shown'[m] = shown[m],
         acked[n] \subseteq acked'[n], shown[n] \subseteq shown'[n],
         obj[x].published \subseteq obj'[x].published,
         \A u \in Thread : u # t => call'[u] = call[u],
         \A u \in Thread : u # t /\ At(u, "publish") /\ call[u].name = n => disk'[n] = disk[n],
         Mirrors(x)', Accounts(n)', MustOf(t)'
  PROVE  DataInv' /\ MustInv'
<1>1. x \in Alive /\ x \in Writer /\ obj[x].dir = n
  BY InMap
<1>2. ASSUME NEW y \in Alive', y # x, obj'[y].dir \notin raced PROVE Mirrors(y)'
  <2>1. y \in Alive /\ obj'[y] = obj[y]
    BY <1>2 DEF Alive
  <2>2. obj[y].dir # n
    BY <1>1, <1>2, <2>1, Single
  <2>3. obj[y].dir \in Name
    BY <2>1, AliveDir
  <2>4. Mirrors(y)
    BY <1>2, <2>1 DEF DataInv
  <2>5. QED BY <2>1, <2>2, <2>3, <2>4 DEF Mirrors
<1>3. ASSUME NEW m \in Name \ raced, m # n PROVE Accounts(m)'
  <2>1. Accounts(m)
    BY DEF DataInv
  <2>2. QED BY <1>3, <2>1 DEF Accounts
<1>4. ASSUME NEW u \in Thread, u # t PROVE MustOf(u)'
  <2> DEFINE m == call[u].name
  <2>1. MustOf(u) /\ call'[u] = call[u]
    BY <1>4 DEF MustInv
  <2>2. CASE At(u, "idle")
    BY <2>1, <2>2 DEF MustOf, At
  <2>3. CASE ~At(u, "idle")
    <3>1. m \in Name /\ acked[m] \subseteq acked'[m] /\ shown[m] \subseteq shown'[m]
      BY <2>3, Names
    <3>2. At(u, "publish") => disk'[m] = disk[m]
      BY <1>4, <3>1
    <3>3. writers[m] # None => obj[writers[m]].published \subseteq obj'[writers[m]].published
      BY <3>1 DEF TypeOK
    <3>4. QED BY <2>1, <2>3, <3>1, <3>2, <3>3 DEF MustOf, At
  <2>4. QED BY <2>2, <2>3
<1>5. QED BY <1>2, <1>3, <1>4 DEF DataInv, MustInv

\* A step that concerns no document.
LEMMA Quiet ==
  ASSUME TypeOK, DataInv, MustInv, NEW t \in Thread, raced \subseteq raced',
         main' = main, writers' = writers, obj' = obj, acked' = acked, shown' = shown,
         \A m \in Name : /\ disk'[m].manifest = disk[m].manifest /\ disk'[m].log = disk[m].log
                         /\ disk[m].schema => disk'[m].schema,
         \A u \in Thread : u # t => call'[u] = call[u],
         MustOf(t)'
  PROVE  DataInv' /\ MustInv'
<1>1. ASSUME NEW y \in Alive', obj'[y].dir \notin raced' PROVE Mirrors(y)'
  <2>1. Mirrors(y)
    BY <1>1 DEF DataInv, Alive
  <2>2. obj[y].dir \in Name
    BY AliveDir DEF Alive
  <2>3. QED BY <2>1, <2>2 DEF Mirrors
<1>2. ASSUME NEW m \in Name \ raced' PROVE Accounts(m)'
  <2>1. Accounts(m)
    BY DEF DataInv
  <2>2. QED BY <2>1 DEF Accounts
<1>3. ASSUME NEW u \in Thread, u # t PROVE MustOf(u)'
  <2>1. MustOf(u) /\ call'[u] = call[u]
    BY <1>3 DEF MustInv
  <2>2. ~At(u, "idle") => call[u].name \in Name
    BY Names
  <2>3. QED BY <2>1, <2>2 DEF MustOf, At
<1>4. QED BY <1>1, <1>2, <1>3 DEF DataInv, MustInv

\* A step on an index that creates did race for, with writers of that index.
LEMMA Elsewhere ==
  ASSUME TypeOK, MapInv, DataInv, MustInv, NEW t \in Thread, NEW n \in raced,
         raced' = raced, main' = main,
         \A m \in Name : m # n =>
           /\ disk'[m] = disk[m] /\ writers'[m] = writers[m]
           /\ acked'[m] = acked[m] /\ shown'[m] = shown[m],
         \A y \in Writer : obj[y].dir # n => obj'[y] = obj[y],
         \A y \in Writer : obj[y].dir = n => obj'[y].dir \in {n, None},
         \A u \in Thread : u # t => call'[u] = call[u],
         MustOf(t)'
  PROVE  DataInv' /\ MustInv'
<1>1. ASSUME NEW y \in Alive', obj'[y].dir \notin raced PROVE Mirrors(y)'
  <2>1. y \in Alive /\ obj[y].dir # n /\ obj'[y] = obj[y]
    BY <1>1 DEF Alive
  <2>2. obj[y].dir \in Name
    BY <2>1, AliveDir
  <2>3. Mirrors(y)
    BY <1>1, <2>1 DEF DataInv
  <2>4. QED BY <2>1, <2>2, <2>3 DEF Mirrors
<1>2. ASSUME NEW m \in Name \ raced PROVE Accounts(m)'
  <2>1. Accounts(m)
    BY DEF DataInv
  <2>2. QED BY <2>1 DEF Accounts
<1>3. ASSUME NEW u \in Thread, u # t PROVE MustOf(u)'
  <2> DEFINE m == call[u].name
  <2>1. MustOf(u) /\ call'[u] = call[u]
    BY <1>3 DEF MustInv
  <2>2. CASE At(u, "idle") \/ m = n
    BY <2>1, <2>2 DEF MustOf, At
  <2>3. CASE ~At(u, "idle") /\ m # n
    <3>1. m \in Name
      BY <2>3, Names
    <3>2. writers[m] # None => obj'[writers[m]] = obj[writers[m]]
      BY <2>3, <3>1, InMap
    <3>3. QED BY <2>1, <2>3, <3>1, <3>2 DEF MustOf, At
  <2>4. QED BY <2>2, <2>3
<1>4. QED BY <1>1, <1>2, <1>3 DEF DataInv, MustInv

LEMMA IdleMust ==
  ASSUME TypeOK, NEW t \in Thread, Return(t)
  PROVE  MustOf(t)' /\ \A u \in Thread : u # t => call'[u] = call[u]
BY Returns DEF MustOf, Idle, At

LEMMA OwnerData ==
  ASSUME TypeOK, MapInv, CallInv, ApartInv, DataInv, MustInv, Start \/ StopHttp \/ CloseWriters \/ Kill
  PROVE  DataInv' /\ MustInv'
<1>1. CASE Start
  <2> DEFINE indexes == {n \in Name : disk[n].schema}
  <2>1. PICK new \in [indexes -> Writer] :
          /\ writers' = [n \in Name |-> IF n \in indexes THEN new[n] ELSE None]
          /\ obj' = [x \in Writer |->
                       IF \E n \in indexes : new[n] = x
                       THEN Opened(CHOOSE n \in indexes : new[n] = x) ELSE Dead]
    BY <1>1 DEF Start
  <2>2. /\ disk' = disk /\ call' = call /\ acked' = acked /\ shown' = shown /\ main' = "up"
        /\ main \in {"down", "killed"} /\ raced' = raced
    BY <1>1 DEF Start
  <2>3. ASSUME NEW x \in Alive', obj'[x].dir \notin raced PROVE Mirrors(x)'
    <3>1. PICK n \in indexes : obj'[x] = Opened(n)
      BY <2>1, <2>3 DEF Alive, Dead
    <3>2. obj'[x].dir = n
      BY <3>1 DEF Opened
    <3>3. Accounts(n)
      BY <2>3, <3>2 DEF DataInv
    <3>4. QED BY <2>2, <3>1, <3>3 DEF Mirrors, Opened, Accounts
  <2>4. ASSUME NEW n \in Name \ raced PROVE Accounts(n)'
    <3>1. Accounts(n)
      BY DEF DataInv
    <3>2. disk[n].schema => writers'[n] # None
      BY <2>1, ConstantsAssumption DEF ConstantsAssumption
    <3>3. QED BY <2>2, <3>1, <3>2 DEF Accounts
  <2>5. ASSUME NEW t \in Thread PROVE MustOf(t)'
    <3>1. MustOf(t) /\ At(t, "idle")
      BY <2>2 DEF MustInv, CallInv
    <3>2. QED BY <2>2, <3>1 DEF MustOf, At
  <2>6. QED BY <2>2, <2>3, <2>4, <2>5 DEF DataInv, MustInv
<1>2. CASE StopHttp
  <2>1. /\ call' = call /\ writers' = writers /\ obj' = obj /\ disk' = disk
        /\ acked' = acked /\ shown' = shown /\ main = "up" /\ main' = "stopping"
        /\ raced' = raced
    BY <1>2 DEF StopHttp
  <2>2. DataInv'
    BY <2>1 DEF DataInv, Mirrors, Accounts, Alive
  <2>3. MustInv'
    BY <2>1 DEF MustInv, MustOf, At
  <2>4. QED BY <2>2, <2>3
<1>3. ASSUME NEW t \in Thread, At(t, "idle"), call' = call PROVE MustOf(t)'
  BY <1>3 DEF MustInv, MustOf, At
<1>4. CASE CloseWriters
  <2>1. /\ \A x \in Writer : obj'[x] = Dead
        /\ \A t \in Thread : At(t, "idle")
        /\ call' = call /\ acked' = acked /\ shown' = shown
        /\ main = "stopping" /\ main' = "down" /\ raced' = raced
        /\ disk' = [n \in Name |-> IF Sealed(n) THEN Seal(n) ELSE disk[n]]
    BY <1>4 DEF CloseWriters
  <2>2. Alive' = {}
    BY <2>1 DEF Alive, Dead
  <2>3. ASSUME NEW n \in Name \ raced PROVE Accounts(n)'
    <3>1. Accounts(n)
      BY DEF DataInv
    <3>2. writers[n] # None => Mirrors(writers[n]) /\ obj[writers[n]].dir = n
      BY InMap DEF DataInv
    <3>3. CASE Sealed(n)
      <4>1. /\ disk'[n].manifest = disk[n].manifest \cup disk[n].log
            /\ disk'[n].log = {}
        BY <2>1, <3>2, <3>3 DEF Sealed, Seal, Mirrors, TypeOK, Directory
      <4>2. QED BY <2>1, <3>1, <4>1 DEF Accounts
    <3>4. CASE ~Sealed(n)
      <4>1. disk'[n] = disk[n] /\ disk[n].log = {}
        BY <2>1, <3>1, <3>2, <3>4 DEF Sealed, Mirrors, Accounts
      <4>2. QED BY <2>1, <3>1, <4>1 DEF Accounts
    <3>5. QED BY <3>3, <3>4
  <2>4. QED BY <1>3, <2>1, <2>2, <2>3 DEF DataInv, MustInv
<1>5. CASE Kill
  <2>1. /\ \A x \in Writer : obj'[x] = Dead
        /\ \A t \in Thread : call'[t] = Idle
        /\ disk' = disk /\ acked' = acked /\ shown' = shown
        /\ main \in {"up", "stopping"} /\ main' = "killed" /\ raced' = raced
    BY <1>5 DEF Kill
  <2>2. Alive' = {}
    BY <2>1 DEF Alive, Dead
  <2>3. \A n \in Name \ raced : Accounts(n)'
    BY <2>1 DEF Accounts, DataInv
  <2>4. \A t \in Thread : MustOf(t)'
    BY <2>1 DEF MustOf, Idle, At
  <2>5. QED BY <2>1, <2>2, <2>3, <2>4 DEF DataInv, MustInv
<1>6. QED BY <1>1, <1>2, <1>4, <1>5

LEMMA CreateData ==
  ASSUME TypeOK, MapInv, CallInv, ApartInv, DataInv, MustInv, NEW t \in Thread, CreateIndex(t)
  PROVE  DataInv' /\ MustInv'
<1> DEFINE n == call[t].name
<1>1. call[t].pc \in {"exists", "count", "mkdir", "open", "insert"}
  BY DEF CreateIndex, Exists, Count, MakeDirectory, OpenWriter, OpenFails, Insert, At
<1>2. n \in Name /\ disk[n] \in Directory /\ main' = main /\ acked' = acked /\ shown' = shown
  BY <1>1, Names DEF At, TypeOK, CreateIndex, Exists, Count, MakeDirectory, OpenWriter,
                     OpenFails, Insert
<1>3. raced \subseteq raced'
  BY <1>2, Passes DEF CreateIndex, Exists, Count, MakeDirectory, OpenWriter, OpenFails, Insert
<1>4. ASSUME NEW pc \in {"count", "mkdir", "open"}, Goto(t, pc)
      PROVE  MustOf(t)' /\ \A u \in Thread : u # t => call'[u] = call[u]
  <2>1. /\ call'[t].pc = pc /\ call'[t].name = n /\ call'[t].op = call[t].op
        /\ call'[t].must = call[t].must /\ \A u \in Thread : u # t => call'[u] = call[u]
    BY <1>4, Goes
  <2>2. MustOf(t)
    BY DEF MustInv
  <2>3. QED BY <1>2, <1>3, <2>1, <2>2 DEF MustOf, At
<1>5. CASE Exists(t) \/ Count(t)
  <2>1. /\ writers' = writers /\ obj' = obj /\ disk' = disk /\ raced \subseteq raced'
        /\ Goto(t, "count") \/ Goto(t, "mkdir") \/ Return(t)
    BY <1>2, <1>5, Passes DEF Exists, Count, PassChecks
  <2>2. MustOf(t)' /\ \A u \in Thread : u # t => call'[u] = call[u]
    BY <1>4, <2>1, IdleMust
  <2>3. QED BY <1>2, <2>1, <2>2, Quiet
<1>6. CASE MakeDirectory(t)
  <2>1. disk' = [disk EXCEPT ![n] = [disk[n] EXCEPT !.dir = TRUE]]
    BY <1>6 DEF MakeDirectory
  <2>2. \A m \in Name : /\ disk'[m].manifest = disk[m].manifest /\ disk'[m].log = disk[m].log
                        /\ disk'[m].schema = disk[m].schema
    BY <1>2, <2>1 DEF TypeOK, Directory
  <2>3. MustOf(t)' /\ \A u \in Thread : u # t => call'[u] = call[u]
    BY <1>4, <1>6 DEF MakeDirectory
  <2>4. QED BY <1>3, <1>2, <1>6, <2>2, <2>3, Quiet DEF MakeDirectory
<1>7. CASE OpenFails(t)
  <2>1. PICK s \in {TRUE, disk[n].schema} : disk' = [disk EXCEPT ![n].schema = s]
    BY <1>7 DEF OpenFails
  <2>2. disk' = [disk EXCEPT ![n] = [disk[n] EXCEPT !.schema = s]]
    BY <2>1
  <2>3. \A m \in Name : /\ disk'[m].manifest = disk[m].manifest /\ disk'[m].log = disk[m].log
                        /\ disk[m].schema => disk'[m].schema
    BY <1>2, <2>2 DEF TypeOK, Directory
  <2>4. MustOf(t)' /\ \A u \in Thread : u # t => call'[u] = call[u]
    BY <1>7, IdleMust DEF OpenFails
  <2>5. QED BY <1>3, <1>2, <1>7, <2>3, <2>4, Quiet DEF OpenFails
<1>8. CASE OpenWriter(t)
  <2>1. PICK x \in Writer \ Alive :
          obj' = [obj EXCEPT ![x] = Opened(n)] /\ GotoWith(t, "insert", x)
    BY <1>8 DEF OpenWriter
  <2>2. /\ call'[t].pc = "insert" /\ call'[t].name = n /\ call'[t].op = call[t].op
        /\ call'[t].must = call[t].must /\ \A u \in Thread : u # t => call'[u] = call[u]
    BY <2>1, GoesWith
  <2>3. disk' = [disk EXCEPT ![n] = [disk[n] EXCEPT !.schema = TRUE]] /\ writers' = writers
        /\ raced' = raced
    BY <1>8 DEF OpenWriter
  <2>4. \A m \in Name : /\ disk'[m].manifest = disk[m].manifest /\ disk'[m].log = disk[m].log
                        /\ disk[m].schema => disk'[m].schema
    BY <1>2, <2>3 DEF TypeOK, Directory
  <2>5. obj'[x] = Opened(n) /\ \A y \in Writer : y # x => obj'[y] = obj[y]
    BY <1>2, <2>1, OpenedType DEF TypeOK
  <2>6. ASSUME NEW y \in Alive', obj'[y].dir \notin raced PROVE Mirrors(y)'
    <3>1. CASE y = x
      <4>1. n \notin raced
        BY <2>5, <2>6, <3>1 DEF Opened
      <4>2. Accounts(n)
        BY <1>2, <4>1 DEF DataInv
      <4>3. QED BY <1>2, <2>4, <2>5, <3>1, <4>2 DEF Mirrors, Opened, Accounts
    <3>2. CASE y # x
      <4>1. y \in Alive /\ obj'[y] = obj[y]
        BY <2>5, <2>6, <3>2 DEF Alive
      <4>2. Mirrors(y) /\ obj[y].dir \in Name
        BY <2>6, <4>1, AliveDir DEF DataInv
      <4>3. QED BY <1>2, <2>4, <4>1, <4>2 DEF Mirrors
    <3>3. QED BY <3>1, <3>2
  <2>7. ASSUME NEW m \in Name \ raced PROVE Accounts(m)'
    <3>1. Accounts(m)
      BY DEF DataInv
    <3>2. QED BY <1>2, <2>3, <2>4, <3>1 DEF Accounts
  <2>8. ASSUME NEW u \in Thread PROVE MustOf(u)'
    <3>1. MustOf(u)
      BY DEF MustInv
    <3>2. CASE u = t
      BY <1>2, <2>2, <2>3, <3>1, <3>2 DEF MustOf, At
    <3>3. CASE u # t
      <4>1. call'[u] = call[u] /\ (~At(u, "idle") => call[u].name \in Name)
        BY <2>2, <3>3, Names
      <4>2. At(u, "respond") /\ call[u].name \notin raced =>
              obj'[writers[call[u].name]].published = obj[writers[call[u].name]].published
        <5> SUFFICES ASSUME At(u, "respond"), call[u].name \notin raced
                     PROVE  obj'[writers[call[u].name]] = obj[writers[call[u].name]]
          OBVIOUS
        <5>1. writers[call[u].name] # None /\ call[u].name \in Name
          BY <3>1, <4>1 DEF MustOf, At
        <5>2. writers[call[u].name] \in Alive
          BY <5>1, InMap
        <5>3. QED BY <2>1, <2>5, <5>2 DEF Alive
      <4>3. QED BY <1>2, <2>3, <2>4, <3>1, <4>1, <4>2 DEF MustOf, At
    <3>4. QED BY <3>2, <3>3
  <2>9. QED BY <2>3, <2>6, <2>7, <2>8 DEF DataInv, MustInv
<1>9. CASE Insert(t)
  <2> SUFFICES ASSUME NEW i, NEW w, NEW old, i = n, w = call[t].w, old = writers[n]
               PROVE  DataInv' /\ MustInv'
    OBVIOUS
  <2>1. /\ disk' = disk /\ raced' = raced /\ writers'[n] = w /\ w # None
        /\ \A m \in Name : m # n => writers'[m] = writers[m]
    BY <1>9, Inserts
  <2>2. /\ \A y \in Writer : y # old => obj'[y] = obj[y]
        /\ old # None => obj[old].dir = n /\ obj'[old].dir = None
    BY <1>9, Inserts
  <2>3. MustOf(t)' /\ \A u \in Thread : u # t => call'[u] = call[u]
    BY <1>9, IdleMust DEF Insert
  <2>4. CASE n \in raced
    <3>1. \A y \in Writer : obj[y].dir # n => obj'[y] = obj[y]
      BY <1>2, <2>2, ConstantsAssumption DEF ConstantsAssumption
    <3>2. \A y \in Writer : obj[y].dir = n => obj'[y].dir \in {n, None}
      BY <1>2, <2>2, ConstantsAssumption DEF ConstantsAssumption
    <3>3. QED BY <1>2, <2>1, <2>3, <2>4, <3>1, <3>2, Elsewhere
  <2>5. CASE n \notin raced
    <3>1. old = None
      <4>1. PastChecks(t, n)
        BY <1>9, Inserts
      <4>2. QED BY <1>2, <2>5, <4>1 DEF ApartInv
    <3>2. obj' = obj
      BY <1>9, <3>1 DEF Insert
    <3>3. \A y \in Alive' : obj'[y].dir \notin raced => Mirrors(y)'
      BY <1>2, <2>1, <3>2 DEF DataInv, Mirrors, Alive
    <3>4. ASSUME NEW m \in Name \ raced PROVE Accounts(m)'
      <4>1. Accounts(m)
        BY DEF DataInv
      <4>2. writers[m] # None => writers'[m] # None
        BY <2>1
      <4>3. QED BY <1>2, <2>1, <4>1, <4>2 DEF Accounts
    <3>5. ASSUME NEW u \in Thread, u # t PROVE MustOf(u)'
      <4>1. MustOf(u) /\ call'[u] = call[u] /\ (~At(u, "idle") => call[u].name \in Name)
        BY <2>3, <3>5, Names DEF MustInv
      <4>2. At(u, "respond") /\ call[u].name \notin raced =>
              writers'[call[u].name] = writers[call[u].name]
        BY <2>1, <3>1, <4>1 DEF MustOf, At
      <4>3. QED BY <1>2, <2>1, <3>2, <4>1, <4>2 DEF MustOf, At
    <3>6. QED BY <2>1, <2>3, <3>3, <3>4, <3>5 DEF DataInv, MustInv
  <2>6. QED BY <2>4, <2>5
<1>10. QED BY <1>5, <1>6, <1>7, <1>8, <1>9 DEF CreateIndex

\* A handler that uses the writer of such an index: what the invariants say.
LEMMA UseData ==
  ASSUME TypeOK, MapInv, CallInv, ApartInv, DataInv, MustInv, NEW t \in Thread,
         call[t].pc \in Using, NEW n, NEW x, n = call[t].name, x = call[t].w, n \notin raced
  PROVE  /\ n \in Name /\ x \in Writer /\ x # None /\ x = writers[n] /\ obj[x].dir = n
         /\ obj[x] \in Object /\ disk[n] \in Directory
         /\ disk[n].schema /\ main \in {"up", "stopping"}
         /\ Mirrors(x) /\ Accounts(n) /\ MustOf(t)
<1>1. n \in Name /\ x \in Alive /\ x = writers[n] /\ obj[x].dir = n
  BY InUse
<1>2. x \in Writer /\ x # None
  BY <1>1, AliveDir
<1>3. disk[n].schema /\ main \in {"up", "stopping"}
  BY <1>1, <1>2, InMap DEF CallInv, At, Using
<1>4. obj[x] \in Object /\ disk[n] \in Directory
  BY <1>1, <1>2 DEF TypeOK
<1>5. Mirrors(x) /\ Accounts(n) /\ MustOf(t)
  BY <1>1 DEF DataInv, MustInv
<1>6. QED BY <1>1, <1>2, <1>3, <1>4, <1>5

\* The mutex of a writer keeps others away while one thread publishes.
LEMMA Exclusive ==
  ASSUME TypeOK, MapInv, CallInv, ApartInv, NEW t \in Thread, call[t].pc \in Using,
         call[t].name \notin raced, obj[call[t].w].mu \in {None, t},
         NEW u \in Thread, u # t, At(u, "publish")
  PROVE  call[u].name # call[t].name
<1>1. obj[call[u].w].mu = u /\ u # None
  BY ConstantsAssumption DEF ConstantsAssumption, CallInv
<1>2. call[u].pc \in Using
  BY DEF At, Using
<1>3. QED BY <1>1, <1>2, InUse

\* What handlers do with a writer of an index that creates raced for stays
\* with that index.
LEMMA RacedUse ==
  ASSUME TypeOK, MapInv, CallInv, DataInv, MustInv, NEW t \in Thread,
         call[t].name \in raced, AddDocument(t) \/ Refresh(t) \/ Respond(t)
  PROVE  DataInv' /\ MustInv'
<1> SUFFICES ASSUME NEW n, NEW x, n = call[t].name, x = call[t].w
             PROVE  DataInv' /\ MustInv'
  OBVIOUS
<1>1. n \in Name /\ n \in raced
  BY DEF TypeOK
<1>2. main' = main /\ writers' = writers /\ raced' = raced
  BY DEF AddDocument, Refresh, RefreshNothing, RefreshSeal, Publish, Respond
<1>3. \A m \in Name : m # n =>
        disk'[m] = disk[m] /\ acked'[m] = acked[m] /\ shown'[m] = shown[m]
  BY <1>1 DEF TypeOK, AddDocument, Refresh, RefreshNothing, RefreshSeal, Publish, Respond
<1>4. (\A u \in Thread : u # t => call'[u] = call[u]) /\ MustOf(t)'
  <2>1. CASE Return(t)
    BY <2>1, IdleMust
  <2>2. CASE RefreshSeal(t)
    <3>1. /\ call'[t].pc = "publish" /\ call'[t].name = n
          /\ \A u \in Thread : u # t => call'[u] = call[u]
      BY <2>2, Goes DEF RefreshSeal
    <3>2. QED BY <1>1, <1>2, <3>1 DEF MustOf, At
  <2>3. QED
    BY <2>1, <2>2 DEF AddDocument, Refresh, RefreshNothing, Publish, Respond
<1>5. CASE Respond(t)
  BY <1>1, <1>2, <1>3, <1>4, <1>5, Elsewhere DEF Respond
<1>6. CASE AddDocument(t) \/ Refresh(t)
  <2>1. x \in Writer /\ obj[x] \in Object /\ obj[x].dir = n
    <3>1. x \in Alive /\ obj[x].dir = n
      BY <1>6 DEF AddDocument, Refresh, RefreshNothing, RefreshSeal, Publish, Enters, CallInv
    <3>2. QED BY <3>1 DEF Alive, TypeOK
  <2>2. (\A y \in Writer : y # x => obj'[y] = obj[y]) /\ obj'[x].dir = obj[x].dir
    <3>1. ASSUME NEW r, obj' = [obj EXCEPT ![x] = r], r.dir = obj[x].dir
          PROVE  (\A y \in Writer : y # x => obj'[y] = obj[y]) /\ obj'[x].dir = obj[x].dir
      BY <2>1, <3>1 DEF TypeOK
    <3>2. CASE AddDocument(t)
      <4>1. obj' = [obj EXCEPT ![x] = [obj[x] EXCEPT !.pending = @ \cup {call[t].doc}]]
        BY <3>2 DEF AddDocument
      <4>2. QED BY <2>1, <3>1, <4>1 DEF Object
    <3>3. CASE RefreshNothing(t)
      <4>1. obj' = [obj EXCEPT ![x] = [obj[x] EXCEPT !.published = obj[x].sealed]]
        BY <3>3 DEF RefreshNothing
      <4>2. QED BY <2>1, <3>1, <4>1 DEF Object
    <3>4. CASE RefreshSeal(t)
      <4>1. obj' = [obj EXCEPT ![x] = [obj[x] EXCEPT !.sealed = @ \cup obj[x].pending, !.mu = t]]
        BY <3>4 DEF RefreshSeal
      <4>2. QED BY <2>1, <3>1, <4>1 DEF Object
    <3>5. CASE Publish(t)
      <4>1. obj' = [obj EXCEPT ![x] =
                      [obj[x] EXCEPT !.pending = {}, !.published = obj[x].sealed, !.mu = None]]
        BY <3>5 DEF Publish
      <4>2. QED BY <2>1, <3>1, <4>1 DEF Object
    <3>6. QED BY <1>6, <3>2, <3>3, <3>4, <3>5 DEF Refresh
  <2>3. \A y \in Writer : obj[y].dir # n => obj'[y] = obj[y]
    BY <2>1, <2>2
  <2>4. \A y \in Writer : obj[y].dir = n => obj'[y].dir \in {n, None}
    BY <2>1, <2>2
  <2>5. QED BY <1>1, <1>2, <1>3, <1>4, <2>3, <2>4, Elsewhere
<1>7. QED BY <1>5, <1>6

LEMMA RefreshData ==
  ASSUME TypeOK, MapInv, CallInv, ApartInv, DataInv, MustInv, NEW t \in Thread, Refresh(t),
         call[t].name \notin raced
  PROVE  DataInv' /\ MustInv'
<1>0. call[t].pc \in Using
  BY DEF Refresh, RefreshNothing, RefreshSeal, Publish, At, Using
<1> SUFFICES ASSUME NEW n \in Name \ raced, NEW x \in Writer, n = call[t].name, x = call[t].w
             PROVE  DataInv' /\ MustInv'
  BY <1>0, UseData
<1>1. call[t].pc \in Using /\ obj[x].mu \in {None, t}
  BY <1>0 DEF Refresh, RefreshNothing, RefreshSeal, Publish, Enters, CallInv
<1>2. /\ n \in Name /\ x \in Writer /\ x # None /\ x = writers[n] /\ obj[x].dir = n
      /\ obj[x] \in Object /\ disk[n] \in Directory
      /\ disk[n].schema /\ main \in {"up", "stopping"}
      /\ Mirrors(x) /\ Accounts(n) /\ MustOf(t)
  BY <1>1, UseData
<1>3. \A u \in Thread : u # t /\ At(u, "publish") => call[u].name # n
  BY <1>1, Exclusive
<1>4. main' = main /\ writers' = writers /\ acked' = acked /\ raced' = raced
  BY DEF Refresh, RefreshNothing, RefreshSeal, Publish
<1>5. CASE RefreshNothing(t)
  <2>1. obj' = [obj EXCEPT ![x] = [obj[x] EXCEPT !.published = obj[x].sealed]]
    BY <1>5 DEF RefreshNothing
  <2>2. /\ obj'[x].dir = n /\ obj'[x].sealed = obj[x].sealed /\ obj'[x].pending = obj[x].pending
        /\ obj'[x].published = obj[x].sealed
        /\ \A y \in Writer : y # x => obj'[y] = obj[y]
    BY <1>2, <2>1 DEF TypeOK, Object
  <2>3. shown'[n] = shown[n] \cup call[t].must /\ \A m \in Name : m # n => shown'[m] = shown[m]
    BY <1>2, <1>5 DEF RefreshNothing, TypeOK
  <2>4. disk' = disk /\ disk[n].log = {}
    BY <1>2, <1>5 DEF RefreshNothing, Mirrors
  <2>5. call[t].must \subseteq acked[n]
    BY <1>2, <1>5, CallOK DEF RefreshNothing, MustOf, At
  <2>6. MustOf(t)' /\ \A u \in Thread : u # t => call'[u] = call[u]
    BY <1>5, IdleMust DEF RefreshNothing
  <2>7. Mirrors(x)'
    BY <1>2, <2>2, <2>3, <2>4, <2>5 DEF Mirrors, Accounts
  <2>8. Accounts(n)'
    BY <1>2, <1>4, <2>3, <2>4, <2>5 DEF Accounts
  <2>9. obj[x].published \subseteq obj'[x].published
    BY <1>2, <2>2 DEF Mirrors
  <2>10. QED
    BY <1>2, <1>4, <2>2, <2>3, <2>4, <2>6, <2>7, <2>8, <2>9, Local
<1>6. CASE RefreshSeal(t)
  <2>1. obj' = [obj EXCEPT ![x] = [obj[x] EXCEPT !.sealed = @ \cup obj[x].pending, !.mu = t]]
    BY <1>6 DEF RefreshSeal
  <2>2. /\ obj'[x].dir = n /\ obj'[x].sealed = obj[x].sealed \cup obj[x].pending
        /\ obj'[x].pending = obj[x].pending /\ obj'[x].published = obj[x].published
        /\ \A y \in Writer : y # x => obj'[y] = obj[y]
    BY <1>2, <2>1 DEF TypeOK, Object
  <2>3. disk' = [disk EXCEPT ![n] =
                   [disk[n] EXCEPT !.manifest = obj[x].sealed \cup obj[x].pending]]
    BY <1>6 DEF RefreshSeal
  <2>4. /\ disk'[n].manifest = disk[n].manifest \cup disk[n].log
        /\ disk'[n].log = disk[n].log /\ disk'[n].schema
        /\ \A m \in Name : m # n => disk'[m] = disk[m]
    BY <1>2, <2>3 DEF TypeOK, Directory, Mirrors
  <2>5. shown' = shown /\ Goto(t, "publish")
    BY <1>6 DEF RefreshSeal
  <2>6. /\ call'[t].pc = "publish" /\ call'[t].name = n /\ call'[t].op = call[t].op
        /\ call'[t].must = call[t].must /\ \A u \in Thread : u # t => call'[u] = call[u]
    BY <2>5, Goes
  <2>7. call[t].op = "refresh" /\ call[t].must \subseteq acked[n]
    BY <1>2, <1>6, CallOK DEF RefreshSeal, MustOf, At
  <2>8. MustOf(t)'
    BY <1>2, <1>4, <2>4, <2>6, <2>7 DEF MustOf, At, Accounts
  <2>9. Mirrors(x)'
    <3>1. /\ obj[x].sealed = disk[n].manifest /\ obj[x].pending = disk[n].log
          /\ obj[x].published \subseteq obj[x].sealed /\ shown[n] \subseteq obj[x].published
      BY <1>2 DEF Mirrors
    <3>2. obj'[x].sealed = disk'[n].manifest /\ obj'[x].pending = disk'[n].log
      BY <2>2, <2>4, <3>1
    <3>3. obj'[x].published \subseteq obj'[x].sealed /\ shown'[n] \subseteq obj'[x].published
      BY <2>2, <2>5, <3>1
    <3>4. QED BY <2>2, <3>2, <3>3 DEF Mirrors
  <2>10. Accounts(n)'
    BY <1>2, <1>4, <2>4, <2>5 DEF Accounts
  <2>11. QED
    BY <1>2, <1>3, <1>4, <2>2, <2>4, <2>5, <2>6, <2>8, <2>9, <2>10, Local
<1>7. CASE Publish(t)
  <2>1. obj' = [obj EXCEPT ![x] =
                  [obj[x] EXCEPT !.pending = {}, !.published = obj[x].sealed, !.mu = None]]
    BY <1>7 DEF Publish
  <2>2. /\ obj'[x].dir = n /\ obj'[x].sealed = obj[x].sealed /\ obj'[x].pending = {}
        /\ obj'[x].published = obj[x].sealed
        /\ \A y \in Writer : y # x => obj'[y] = obj[y]
    BY <1>2, <2>1 DEF TypeOK, Object
  <2>3. disk' = [disk EXCEPT ![n] = [disk[n] EXCEPT !.log = {}]]
    BY <1>7 DEF Publish
  <2>4. /\ disk'[n].manifest = disk[n].manifest /\ disk'[n].log = {} /\ disk'[n].schema
        /\ \A m \in Name : m # n => disk'[m] = disk[m]
    BY <1>2, <2>3 DEF TypeOK, Directory
  <2>5. shown'[n] = shown[n] \cup call[t].must /\ \A m \in Name : m # n => shown'[m] = shown[m]
    BY <1>2, <1>7 DEF Publish, TypeOK
  <2>6. call[t].must \cup disk[n].log \subseteq disk[n].manifest
    BY <1>2, <1>7 DEF Publish, MustOf
  <2>7. MustOf(t)' /\ \A u \in Thread : u # t => call'[u] = call[u]
    BY <1>7, IdleMust DEF Publish
  <2>8. Mirrors(x)'
    BY <1>2, <2>2, <2>4, <2>5, <2>6 DEF Mirrors, Accounts
  <2>9. Accounts(n)'
    BY <1>2, <1>4, <2>4, <2>5, <2>6 DEF Accounts
  <2>10. obj[x].published \subseteq obj'[x].published
    BY <1>2, <2>2 DEF Mirrors
  <2>11. QED
    BY <1>2, <1>3, <1>4, <2>2, <2>4, <2>5, <2>7, <2>8, <2>9, <2>10, Local
<1>8. QED BY <1>5, <1>6, <1>7 DEF Refresh

LEMMA ThreadData ==
  ASSUME TypeOK, MapInv, CallInv, ApartInv, DataInv, MustInv, NEW t \in Thread,
         Request(t) \/ Lookup(t) \/ AddDocument(t) \/ Search(t)
  PROVE  DataInv' /\ MustInv'
<1>1. CASE Request(t)
  <2>1. MustOf(t) /\ At(t, "idle")
    BY <1>1 DEF Request, MustInv
  <2>2. call[t].op = "none"
    BY <2>1 DEF MustOf
  <2>3. acked' = acked /\ shown' = shown /\ raced' = raced
    BY <1>1 DEF Request
  <2>4. MustOf(t)'
    BY <1>1, <2>2, <2>3, Begins DEF MustOf, At
  <2>5. \A u \in Thread : u # t => call'[u] = call[u]
    BY <1>1, Begins
  <2>6. QED BY <1>1, <2>3, <2>4, <2>5, Quiet DEF Request
<1>2. CASE Lookup(t)
  <2> DEFINE n == call[t].name
  <2>1. CASE Return(t)
    BY <1>2, <2>1, IdleMust, Quiet DEF Lookup
  <2>2. CASE writers[n] # None /\ GotoWith(t, call[t].op, writers[n])
    <3>1. call[t].op \in {"post", "refresh", "search"} /\ n \in Name
      BY <1>2, CallOK, Names DEF Lookup, At
    <3>2. writers[n] \in Writer
      BY <2>2, <3>1 DEF TypeOK
    <3>3. /\ call'[t].pc = call[t].op /\ call'[t].name = n /\ call'[t].op = call[t].op
          /\ call'[t].must = call[t].must /\ \A u \in Thread : u # t => call'[u] = call[u]
      BY <2>2, <3>1, <3>2, GoesWith
    <3>4. MustOf(t) /\ acked' = acked /\ shown' = shown /\ raced' = raced
      BY <1>2 DEF MustInv, Lookup
    <3>5. MustOf(t)'
      BY <3>1, <3>3, <3>4 DEF MustOf, At
    <3>6. QED BY <1>2, <3>3, <3>4, <3>5, Quiet DEF Lookup
  <2>3. QED BY <1>2, <2>1, <2>2 DEF Lookup
<1>3. CASE AddDocument(t) /\ call[t].name \notin raced
  <2>0. call[t].pc \in Using
    BY <1>3 DEF AddDocument, At, Using
  <2> SUFFICES ASSUME NEW n \in Name \ raced, NEW x \in Writer, n = call[t].name,
                      x = call[t].w
               PROVE  DataInv' /\ MustInv'
    BY <1>3, <2>0, UseData
  <2> DEFINE d == call[t].doc
  <2>1. call[t].pc \in Using /\ obj[x].mu \in {None, t}
    BY <1>3, <2>0 DEF AddDocument, Enters
  <2>2. /\ n \in Name /\ x \in Writer /\ x # None /\ x = writers[n] /\ obj[x].dir = n
        /\ obj[x] \in Object /\ disk[n] \in Directory
        /\ disk[n].schema /\ main \in {"up", "stopping"}
        /\ Mirrors(x) /\ Accounts(n)
    BY <2>1, UseData
  <2>3. \A u \in Thread : u # t /\ At(u, "publish") => call[u].name # n
    BY <2>1, Exclusive
  <2>4. obj' = [obj EXCEPT ![x] = [obj[x] EXCEPT !.pending = @ \cup {d}]]
    BY <1>3 DEF AddDocument
  <2>5. /\ obj'[x].dir = n /\ obj'[x].sealed = obj[x].sealed
        /\ obj'[x].pending = obj[x].pending \cup {d} /\ obj'[x].published = obj[x].published
        /\ \A y \in Writer : y # x => obj'[y] = obj[y]
    BY <2>2, <2>4 DEF TypeOK, Object
  <2>6. disk' = [disk EXCEPT ![n] = [disk[n] EXCEPT !.log = @ \cup {d}]]
    BY <1>3 DEF AddDocument
  <2>7. /\ disk'[n].manifest = disk[n].manifest /\ disk'[n].log = disk[n].log \cup {d}
        /\ disk'[n].schema /\ \A m \in Name : m # n => disk'[m] = disk[m]
    BY <2>2, <2>6 DEF TypeOK, Directory
  <2>8. acked'[n] = acked[n] \cup {d} /\ \A m \in Name : m # n => acked'[m] = acked[m]
    BY <1>3, <2>2 DEF AddDocument, TypeOK
  <2>9. shown' = shown /\ main' = main /\ writers' = writers /\ raced' = raced
    BY <1>3 DEF AddDocument
  <2>10. MustOf(t)' /\ \A u \in Thread : u # t => call'[u] = call[u]
    BY <1>3, IdleMust DEF AddDocument
  <2>11. Mirrors(x)'
    <3>1. /\ obj[x].sealed = disk[n].manifest /\ obj[x].pending = disk[n].log
          /\ obj[x].published \subseteq obj[x].sealed /\ shown[n] \subseteq obj[x].published
      BY <2>2 DEF Mirrors
    <3>2. obj'[x].sealed = disk'[n].manifest /\ obj'[x].pending = disk'[n].log
      BY <2>5, <2>7, <3>1
    <3>3. obj'[x].published \subseteq obj'[x].sealed /\ shown'[n] \subseteq obj'[x].published
      BY <2>5, <2>9, <3>1
    <3>4. QED BY <2>5, <3>2, <3>3 DEF Mirrors
  <2>12. Accounts(n)'
    BY <2>2, <2>7, <2>8, <2>9 DEF Accounts
  <2>13. QED
    BY <2>2, <2>3, <2>5, <2>7, <2>8, <2>9, <2>10, <2>11, <2>12, Local
<1>4. CASE CurrentReader(t)
  <2> SUFFICES ASSUME NEW n, NEW x, n = call[t].name, x = call[t].w
               PROVE  DataInv' /\ MustInv'
    OBVIOUS
  <2>1. call[t].pc \in Using
    BY <1>4 DEF CurrentReader, At, Using
  <2>2. n \notin raced =>
          x # None /\ x = writers[n] /\ obj[x].dir = n /\ Mirrors(x) /\ MustOf(t)
    BY <2>1, UseData
  <2>3. /\ call'[t].pc = "respond" /\ call'[t].name = n /\ call'[t].op = call[t].op
        /\ call'[t].must = call[t].must /\ call'[t].result = obj[x].published
        /\ \A u \in Thread : u # t => call'[u] = call[u]
    BY <1>4, Snapshot
  <2>4. writers' = writers /\ obj' = obj /\ acked' = acked /\ shown' = shown /\ raced' = raced
    BY <1>4 DEF CurrentReader
  <2>5. call[t].op = "search"
    BY <1>4, CallOK DEF CurrentReader, At
  <2>6. MustOf(t)'
    BY <2>2, <2>3, <2>4, <2>5 DEF MustOf, At, Mirrors
  <2>7. QED BY <1>4, <2>3, <2>4, <2>6, Quiet DEF CurrentReader
<1>5. CASE Respond(t) /\ call[t].name \notin raced
  <2>0. call[t].name \in Name
    BY <1>5, Names DEF Respond, At
  <2> SUFFICES ASSUME NEW n \in Name \ raced, NEW w, n = call[t].name, w = writers[n]
               PROVE  DataInv' /\ MustInv'
    BY <1>5, <2>0
  <2>1. /\ main' = main /\ writers' = writers /\ obj' = obj /\ disk' = disk
        /\ acked' = acked /\ raced' = raced
    BY <1>5 DEF Respond
  <2>2. w # None /\ call[t].result \subseteq obj[w].published
    BY <1>5 DEF Respond, MustInv, MustOf
  <2>3. Mirrors(w) /\ obj[w].dir = n /\ Accounts(n)
    BY <2>2, InMap DEF DataInv
  <2>4. /\ shown'[n] = shown[n] \cup call[t].result
        /\ \A m \in Name : m # n => shown'[m] = shown[m]
    BY <1>5, <2>1 DEF Respond, TypeOK
  <2>5. MustOf(t)' /\ \A u \in Thread : u # t => call'[u] = call[u]
    BY <1>5, IdleMust DEF Respond
  <2>6. Mirrors(w)'
    BY <2>1, <2>2, <2>3, <2>4 DEF Mirrors
  <2>7. Accounts(n)'
    BY <2>1, <2>2, <2>3, <2>4 DEF Accounts, Mirrors
  <2>8. QED
    BY <2>1, <2>2, <2>4, <2>5, <2>6, <2>7, Local
<1>6. QED BY <1>1, <1>2, <1>3, <1>4, <1>5, RacedUse DEF Search

LEMMA DataInit == Init => DataInv /\ MustInv
<1> SUFFICES ASSUME Init PROVE DataInv /\ MustInv
  OBVIOUS
<1>1. \A n \in Name : Accounts(n)
  BY DEF Init, Accounts
<1>2. Alive = {}
  BY DEF Init, Alive, Dead
<1>3. \A t \in Thread : MustOf(t)
  BY DEF Init, MustOf, Idle, At
<1>4. QED BY <1>1, <1>2, <1>3 DEF DataInv, MustInv

LEMMA DataStep ==
  ASSUME TypeOK, MapInv, CallInv, ApartInv, DataInv, MustInv, [Next]_vars
  PROVE  DataInv' /\ MustInv'
<1>1. CASE UNCHANGED vars
  <2>1. DataInv'
    BY <1>1 DEF vars, DataInv, Mirrors, Accounts, Alive
  <2>2. MustInv'
    BY <1>1 DEF vars, MustInv, MustOf, At
  <2>3. QED BY <2>1, <2>2
<1>2. ASSUME NEW t \in Thread, Refresh(t) PROVE DataInv' /\ MustInv'
  BY <1>2, RefreshData, RacedUse
<1>3. QED BY <1>1, <1>2, OwnerData, CreateData, ThreadData DEF Next

LEMMA DataAlways ==
  Spec => [](TypeOK /\ MapInv /\ CallInv /\ ApartInv /\ DataInv /\ MustInv)
<1>1. Init => DataInv /\ MustInv
  BY DataInit
<1>2. /\ TypeOK /\ MapInv /\ CallInv /\ ApartInv /\ DataInv /\ MustInv /\ [Next]_vars
      => (DataInv /\ MustInv)'
  BY DataStep
<1>3. QED BY <1>1, <1>2, MapAlways, PTL DEF Spec

\* What was answered 201 stays on disk and in the writer of the map, of every
\* index for which no two requests were past the checks of CreateIndex at
\* once, whatever they did to others.
THEOREM AckedAlwaysKept == Spec => []KeptUnlessRaced
<1>1. ASSUME TypeOK, MapInv, DataInv, NEW n \in Name \ raced PROVE Kept(n)
  <2>1. acked[n] \subseteq disk[n].manifest \cup disk[n].log
    BY <1>1 DEF DataInv, Accounts
  <2>2. writers[n] # None => Mirrors(writers[n]) /\ obj[writers[n]].dir = n
    BY <1>1, InMap DEF DataInv
  <2>3. QED BY <2>1, <2>2 DEF Mirrors, Kept
<1>2. TypeOK /\ MapInv /\ DataInv => KeptUnlessRaced
  BY <1>1 DEF KeptUnlessRaced
<1>3. QED BY <1>2, DataAlways, PTL

\* A search of such an index finds what the refreshes and searches answered
\* before it was sent have shown.
THEOREM SearchesAlwaysShow == Spec => []SearchesShow
<1>1. MustInv => SearchesShow
  BY DEF MustInv, MustOf, SearchesShow
<1>2. QED BY <1>1, DataAlways, PTL

\* Stop leaves all of such an index sealed, with an empty log.
THEOREM StopAlwaysSeals == Spec => []StopSeals
<1>1. DataInv => StopSeals
  BY DEF DataInv, Accounts, StopSeals
<1>2. QED BY <1>1, DataAlways, PTL

-----------------------------------------------------------------------------
(* The cap on searches.  For every number of workers and every option:     *)
(* slots are conserved, the searches in flight never exceed the cap, and   *)
(* their maximum is recorded.                                              *)

\* The conversions lose at most a sign, and then the cap that is reported is
\* beyond what any number of threads can reach.
LEMMA SlotsBound ==
  /\ max_concurrent_searches \in Nat \ {0}
  /\ Slots \in Int
  /\ Slots > 0 => Slots = max_concurrent_searches
  /\ Slots <= 0 => Cardinality(Worker) < max_concurrent_searches
<1>1. SizeT(Option) \in 0..SizeRange - 1
  BY SlotAssumption DEF SlotAssumption, SizeT
<1>2. AutoConcurrency \in 1..SizeRange - 1
  BY SlotAssumption DEF SlotAssumption, AutoConcurrency
<1>3. max_concurrent_searches \in 1..SizeRange - 1
  BY <1>1, <1>2, SlotAssumption DEF SlotAssumption, max_concurrent_searches
<1>4. Cardinality(Worker) \in Nat
  BY SlotAssumption, FS_CardinalityType DEF SlotAssumption
<1>5. CASE 2 * max_concurrent_searches < SizeRange
  <2>1. Slots = max_concurrent_searches
    BY <1>5 DEF Slots, PtrDiff
  <2>2. QED BY <1>3, <2>1, SlotAssumption DEF SlotAssumption
<1>6. CASE ~(2 * max_concurrent_searches < SizeRange)
  <2>1. Slots = max_concurrent_searches - SizeRange
    BY <1>6 DEF Slots, PtrDiff
  <2>2. Cardinality(Worker) < max_concurrent_searches
    BY <1>3, <1>4, <1>6, SlotAssumption DEF SlotAssumption
  <2>3. QED BY <1>3, <2>1, <2>2, SlotAssumption DEF SlotAssumption
<1>7. QED BY <1>5, <1>6

LEMMA SlotTypeStep ==
  ASSUME SlotTypeOK, SlotsConserved, [SlotNext]_slotVars
  PROVE  SlotTypeOK'
<1>1. ASSUME NEW t \in Worker, AskSlot(t) PROVE SlotTypeOK'
  BY <1>1 DEF SlotTypeOK, AskSlot, Go, shared
<1>2. ASSUME NEW t \in Worker, Step(t) PROVE SlotTypeOK'
  <2>1. CASE Acquire(t) BY <2>1 DEF SlotTypeOK, Acquire, Go
  <2>2. CASE Add(t) BY <2>2 DEF SlotTypeOK, Add, Go
  <2>3. CASE Load(t) BY <2>3 DEF SlotTypeOK, Load, Go, shared
  <2>4. CASE Raise(t) BY <2>4 DEF SlotTypeOK, Raise, Go
  <2>5. CASE RaiseFails(t) BY <2>5 DEF SlotTypeOK, RaiseFails, shared
  <2>6. CASE NothingToRaise(t) BY <2>6 DEF SlotTypeOK, NothingToRaise, Go, shared
  <2>7. CASE EndSearch(t) BY <2>7 DEF SlotTypeOK, EndSearch, Go, shared
  <2>8. CASE Sub(t)
    \* The thread itself is counted, so there is one to take away.
    <3>1. t \in Counted
      BY <2>8 DEF Sub, Here, Counted, Holding
    <3>2. IsFiniteSet(Counted)
      BY FS_Subset, SlotAssumption DEF SlotAssumption, Counted, Holding
    <3>3. Cardinality(Counted) \in Nat /\ Cardinality(Counted) # 0
      BY <3>1, <3>2, FS_CardinalityType, FS_EmptySet
    <3>4. in_flight_searches - 1 \in Nat
      BY <3>3 DEF SlotsConserved
    <3>5. QED BY <2>8, <3>4 DEF SlotTypeOK, Sub, Go
  <2>9. CASE Release(t) BY <2>9 DEF SlotTypeOK, Release, Go
  <2>10. QED BY <1>2, <2>1, <2>2, <2>3, <2>4, <2>5, <2>6, <2>7, <2>8, <2>9 DEF Step
<1>3. CASE UNCHANGED slotVars
  BY <1>3 DEF SlotTypeOK, slotVars, shared
<1>4. QED BY <1>1, <1>2, <1>3 DEF SlotNext

\* The two counters follow the two sets: a step moves at most one thread
\* into or out of each.
LEMMA CountStep ==
  ASSUME SlotTypeOK, SlotsConserved, [SlotNext]_slotVars
  PROVE  SlotsConserved'
<1>1. IsFiniteSet(Holding) /\ IsFiniteSet(Counted)
  BY FS_Subset, SlotAssumption DEF SlotAssumption, Counted, Holding
<1>2. Cardinality(Holding) \in Nat /\ Cardinality(Counted) \in Nat
  BY <1>1, FS_CardinalityType
<1>3. ASSUME NEW t \in Worker, NEW here, NEW there, Here(t, here), Go(t, there),
             here \in {"idle", "acquire"} <=> there \in {"idle", "acquire"}
      PROVE  Holding' = Holding
  BY <1>3 DEF SlotTypeOK, Here, Go, Holding
<1>4. ASSUME NEW t \in Worker, NEW here, NEW there, Here(t, here), Go(t, there),
             here \in {"idle", "acquire", "add", "release"}
               <=> there \in {"idle", "acquire", "add", "release"}
      PROVE  Counted' = Counted
  BY <1>4 DEF SlotTypeOK, Here, Go, Holding, Counted
<1>5. ASSUME NEW t \in Worker, AskSlot(t) PROVE SlotsConserved'
  <2>1. Holding' = Holding
    BY <1>3, <1>5 DEF AskSlot
  <2>2. Counted' = Counted
    BY <1>4, <1>5 DEF AskSlot
  <2>3. QED BY <1>5, <2>1, <2>2 DEF AskSlot, SlotsConserved, shared
<1>6. ASSUME NEW t \in Worker, Step(t) PROVE SlotsConserved'
  <2>1. CASE Acquire(t)
    <3>1. t \notin Holding /\ Holding' = Holding \cup {t}
      BY <2>1 DEF SlotTypeOK, Acquire, Here, Go, Holding
    <3>2. Cardinality(Holding') = Cardinality(Holding) + 1
      BY <1>1, <3>1, FS_AddElement
    <3>3. Counted' = Counted
      BY <1>4, <2>1 DEF Acquire
    <3>4. QED BY <1>2, <2>1, <3>2, <3>3, SlotsBound DEF SlotTypeOK, Acquire, SlotsConserved
  <2>2. CASE Add(t)
    <3>1. t \notin Counted /\ Counted' = Counted \cup {t}
      BY <2>2 DEF SlotTypeOK, Add, Here, Go, Counted, Holding
    <3>2. Cardinality(Counted') = Cardinality(Counted) + 1
      BY <1>1, <3>1, FS_AddElement
    <3>3. Holding' = Holding
      BY <1>3, <2>2 DEF Add
    <3>4. QED BY <1>2, <2>2, <3>2, <3>3 DEF Add, SlotsConserved
  <2>3. CASE Load(t)
    <3>1. Holding' = Holding /\ Counted' = Counted
      BY <1>3, <1>4, <2>3 DEF Load
    <3>2. QED BY <2>3, <3>1 DEF Load, SlotsConserved, shared
  <2>4. CASE Raise(t)
    <3>1. Holding' = Holding /\ Counted' = Counted
      BY <1>3, <1>4, <2>4 DEF Raise
    <3>2. QED BY <2>4, <3>1 DEF Raise, SlotsConserved
  <2>5. CASE RaiseFails(t)
    <3>1. Holding' = Holding /\ Counted' = Counted
      BY <2>5 DEF RaiseFails, Holding, Counted
    <3>2. QED BY <2>5, <3>1 DEF RaiseFails, SlotsConserved, shared
  <2>6. CASE NothingToRaise(t)
    <3>1. Holding' = Holding /\ Counted' = Counted
      BY <1>3, <1>4, <2>6 DEF NothingToRaise
    <3>2. QED BY <2>6, <3>1 DEF NothingToRaise, SlotsConserved, shared
  <2>7. CASE EndSearch(t)
    <3>1. Holding' = Holding /\ Counted' = Counted
      BY <1>3, <1>4, <2>7 DEF EndSearch
    <3>2. QED BY <2>7, <3>1 DEF EndSearch, SlotsConserved, shared
  <2>8. CASE Sub(t)
    <3>1. t \in Counted /\ Counted' = Counted \ {t}
      BY <2>8 DEF SlotTypeOK, Sub, Here, Go, Counted, Holding
    <3>2. Cardinality(Counted') = Cardinality(Counted) - 1
      BY <1>1, <3>1, FS_RemoveElement
    <3>3. Holding' = Holding
      BY <1>3, <2>8 DEF Sub
    <3>4. QED BY <1>2, <2>8, <3>2, <3>3 DEF Sub, SlotsConserved
  <2>9. CASE Release(t)
    <3>1. t \in Holding /\ Holding' = Holding \ {t}
      BY <2>9 DEF SlotTypeOK, Release, Here, Go, Holding
    <3>2. Cardinality(Holding') = Cardinality(Holding) - 1
      BY <1>1, <3>1, FS_RemoveElement
    <3>3. Counted' = Counted
      BY <1>4, <2>9 DEF Release
    <3>4. QED BY <1>2, <2>9, <3>2, <3>3, SlotsBound DEF SlotTypeOK, Release, SlotsConserved
  <2>10. QED BY <1>6, <2>1, <2>2, <2>3, <2>4, <2>5, <2>6, <2>7, <2>8, <2>9 DEF Step
<1>7. CASE UNCHANGED slotVars
  BY <1>7 DEF SlotsConserved, Holding, Counted, slotVars, shared
<1>8. QED BY <1>5, <1>6, <1>7 DEF SlotNext

\* A thread that has a slot and is not counted yet leaves room below the cap.
LEMMA Room ==
  ASSUME SlotTypeOK, SlotsConserved, PeakInv, NEW t \in Worker, point[t] = "add"
  PROVE  in_flight_searches + 1 <= max_concurrent_searches
<1>1. t \in Holding /\ t \notin Counted
  BY DEF Holding, Counted
<1>2. IsFiniteSet(Holding) /\ IsFiniteSet(Counted)
  BY FS_Subset, SlotAssumption DEF SlotAssumption, Counted, Holding
<1>3. Cardinality(Counted \cup {t}) = Cardinality(Counted) + 1
  BY <1>1, <1>2, FS_AddElement
<1>4. Cardinality(Counted \cup {t}) <= Cardinality(Holding)
  BY <1>1, <1>2, FS_Subset DEF Counted
<1>5. Cardinality(Holding) \in Nat /\ Cardinality(Counted) \in Nat
  BY <1>2, FS_CardinalityType
<1>6. CASE Slots > 0
  <2>1. search_slots >= 0
    BY <1>6 DEF PeakInv
  <2>2. QED BY <1>3, <1>4, <1>5, <1>6, <2>1, SlotsBound DEF SlotsConserved, SlotTypeOK
<1>7. CASE ~(Slots > 0)
  <2>1. Cardinality(Holding) <= Cardinality(Worker) /\ Cardinality(Worker) \in Nat
    BY SlotAssumption, FS_Subset, FS_CardinalityType DEF SlotAssumption, Holding
  <2>2. QED BY <1>3, <1>4, <1>5, <1>7, <2>1, SlotsBound DEF SlotsConserved, SlotTypeOK
<1>8. QED BY <1>6, <1>7

LEMMA PeakStep ==
  ASSUME SlotTypeOK, SlotsConserved, PeakInv, [SlotNext]_slotVars
  PROVE  PeakInv'
<1>1. ASSUME NEW t \in Worker, AskSlot(t) PROVE PeakInv'
  BY <1>1 DEF PeakInv, SlotTypeOK, AskSlot, Here, Go, Holding, shared
<1>2. ASSUME NEW t \in Worker, Step(t) PROVE PeakInv'
  <2>1. CASE Acquire(t)
    BY <2>1 DEF PeakInv, SlotTypeOK, Acquire, Here, Go, Holding
  <2>2. CASE Add(t)
    <3>1. in_flight_searches + 1 <= max_concurrent_searches
      BY <2>2, Room DEF Add, Here
    <3>2. \A u \in Worker : observed'[u] <= peak_in_flight' /\ now'[u] <= highest'
      BY <2>2 DEF PeakInv, SlotTypeOK, Add
    <3>3. highest' = peak_in_flight'
            \/ \E u \in Worker : point'[u] \in {"load", "cas"} /\ now'[u] = highest'
      <4>1. CASE in_flight_searches + 1 > highest
        BY <2>2, <4>1 DEF PeakInv, SlotTypeOK, Add, Here, Go
      <4>2. CASE ~(in_flight_searches + 1 > highest)
        BY <2>2, <4>2 DEF PeakInv, SlotTypeOK, Add, Here, Go
      <4>3. QED BY <4>1, <4>2
    <3>4. Slots > 0 => search_slots' >= 0
      BY <2>2 DEF PeakInv, Add
    <3>5. peak_in_flight' <= highest' /\ highest' <= max_concurrent_searches
      BY <2>2, <3>1 DEF PeakInv, SlotTypeOK, Add
    <3>6. QED BY <3>2, <3>3, <3>4, <3>5 DEF PeakInv
  <2>3. CASE Load(t)
    BY <2>3 DEF PeakInv, SlotTypeOK, Load, Here, Go, Holding, shared
  <2>4. CASE Raise(t)
    <3>1. highest' = peak_in_flight'
            \/ \E u \in Worker : point'[u] \in {"load", "cas"} /\ now'[u] = highest'
      BY <2>4 DEF PeakInv, SlotTypeOK, Raise, Here, Go
    <3>2. QED BY <2>4, <3>1 DEF PeakInv, SlotTypeOK, Raise, Here, Go, Holding
  <2>5. CASE RaiseFails(t)
    BY <2>5 DEF PeakInv, SlotTypeOK, RaiseFails, Here, Holding, shared
  <2>6. CASE NothingToRaise(t)
    \* What it saw is at most peak_, so it holds no maximum of its own.
    <3>1. highest' = peak_in_flight'
            \/ \E u \in Worker : point'[u] \in {"load", "cas"} /\ now'[u] = highest'
      BY <2>6 DEF PeakInv, SlotTypeOK, NothingToRaise, Here, Go, shared
    <3>2. QED BY <2>6, <3>1 DEF PeakInv, SlotTypeOK, NothingToRaise, Here, Go, Holding, shared
  <2>7. CASE EndSearch(t)
    BY <2>7 DEF PeakInv, SlotTypeOK, EndSearch, Here, Go, Holding, shared
  <2>8. CASE Sub(t)
    BY <2>8 DEF PeakInv, SlotTypeOK, Sub, Here, Go, Holding
  <2>9. CASE Release(t)
    BY <2>9 DEF PeakInv, SlotTypeOK, Release, Here, Go, Holding
  <2>10. QED BY <1>2, <2>1, <2>2, <2>3, <2>4, <2>5, <2>6, <2>7, <2>8, <2>9 DEF Step
<1>3. CASE UNCHANGED slotVars
  BY <1>3 DEF PeakInv, Holding, slotVars, shared
<1>4. QED BY <1>1, <1>2, <1>3 DEF SlotNext

LEMMA Initially ==
  ASSUME SlotInit
  PROVE  SlotTypeOK /\ SlotsConserved /\ PeakInv
<1>1. SlotTypeOK
  BY SlotsBound DEF SlotInit, SlotTypeOK
<1>2. Holding = {} /\ Counted = {}
  BY DEF SlotInit, Holding, Counted
<1>3. SlotsConserved
  BY <1>2, FS_EmptySet, SlotsBound DEF SlotInit, SlotsConserved
<1>4. PeakInv
  BY <1>2, SlotsBound DEF SlotInit, PeakInv
<1>5. QED BY <1>1, <1>3, <1>4

\* The variables of the search slots keep their types: no counter of type
\* size_t goes below zero.
THEOREM SlotTypeCorrect == SlotSpec => []SlotTypeOK
<1>1. SlotTypeOK /\ SlotsConserved /\ [SlotNext]_slotVars => SlotTypeOK' /\ SlotsConserved'
  BY SlotTypeStep, CountStep
<1>2. QED BY Initially, <1>1, PTL DEF SlotSpec

\* Free slots and held slots always add up to those there were.
THEOREM SlotsAlwaysConserved == SlotSpec => []SlotsConserved
<1>1. SlotTypeOK /\ SlotsConserved /\ [SlotNext]_slotVars => SlotTypeOK' /\ SlotsConserved'
  BY SlotTypeStep, CountStep
<1>2. QED BY Initially, <1>1, PTL DEF SlotSpec

LEMMA Inductive == SlotSpec => [](SlotTypeOK /\ SlotsConserved /\ PeakInv)
<1>1. SlotTypeOK /\ SlotsConserved /\ PeakInv /\ [SlotNext]_slotVars
        => SlotTypeOK' /\ SlotsConserved' /\ PeakInv'
  BY SlotTypeStep, CountStep, PeakStep
<1>2. QED BY Initially, <1>1, PTL DEF SlotSpec

\* The number of searches in flight never exceeds max_concurrent_searches,
\* whatever the option and the number of HTTP workers.
THEOREM PeakAlwaysBounded == SlotSpec => []PeakBounded
<1>1. SlotTypeOK /\ SlotsConserved /\ PeakInv => PeakBounded
  BY SlotsBound DEF SlotTypeOK, PeakInv, PeakBounded
<1>2. QED BY Inductive, <1>1, PTL

\* The compare-exchange loop with stale loads records the maximum.
THEOREM PeakAlwaysRecorded == SlotSpec => []PeakRecorded
<1>1. SlotTypeOK /\ SlotsConserved /\ PeakInv => PeakRecorded
  BY DEF PeakInv, PeakRecorded
<1>2. QED BY Inductive, <1>1, PTL

\* Both together: the peak is right.
THEOREM PeakAlwaysRight == SlotSpec => []PeakRight
<1>1. PeakBounded /\ PeakRecorded => PeakRight
  BY DEF PeakRight
<1>2. QED BY <1>1, PeakAlwaysBounded, PeakAlwaysRecorded, PTL
=============================================================================
