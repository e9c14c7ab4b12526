----------------------------- MODULE HttpServer -----------------------------
(***************************************************************************)
(* The thread pool of src/http: one acceptor thread feeds a bounded queue  *)
(* of client sockets to worker threads; a worker answers one request and   *)
(* closes its socket; Stop, called by the thread that called Start, ends   *)
(* all of them.                                                            *)
(*                                                                         *)
(* A step is what a thread does between two points where another thread or *)
(* a client can be observed: an access to an atomic, to queue_mu_ or to    *)
(* the condition variable, a system call.  A critical section of the       *)
(* acceptor or of Stop is one step, taken when queue_mu_ is free; that of  *)
(* a worker is several, because its predicate reads stopping_, which       *)
(* queue_mu_ does not protect.                                             *)
(***************************************************************************)
EXTENDS Naturals, Sequences, FiniteSets

CONSTANTS
  Conn,           \* the connections clients make
  Silent,         \* those whose client need not ever complete a request
  Worker,         \* the worker threads
  kMaxQueueDepth,
  MaxStarts,      \* bound: calls of Start
  MaxFaults,      \* bound: failing accepts and spurious wakeups
  None            \* no connection, no thread

ASSUME ConstantsAssumption ==
  /\ Silent \subseteq Conn
  /\ kMaxQueueDepth \in Nat /\ MaxStarts \in Nat /\ MaxFaults \in Nat
  /\ None \notin Conn /\ None \notin Worker

VARIABLES
  running, stopping, \* running_, stopping_
  listening,  \* is the listening socket open?
  main,       \* program point of the thread that owns the server
  acceptor,   \* program point of the acceptor thread
  fresh,      \* the socket the acceptor holds
  worker,     \* program points of the workers
  client,     \* the sockets the workers hold
  mu,         \* the worker that holds queue_mu_
  queue,      \* queue_
  \* The other side, and history.
  backlog,    \* connections the kernel has not handed out yet
  peer,       \* what the client of a connection has done
  reply,      \* what it was answered
  accepted,   \* the connections accept returned
  closes,     \* how often a socket was closed
  starts, faults

threads == <<main, acceptor, fresh, worker, client>>
server  == <<running, stopping, listening, threads, mu, queue>>
outside == <<backlog, peer, reply, accepted, closes, starts, faults>>
vars    == <<server, outside>>

-----------------------------------------------------------------------------
Init ==
  /\ running = FALSE /\ stopping = FALSE /\ listening = FALSE
  /\ main = "down" /\ acceptor = "none" /\ fresh = None
  /\ worker = [w \in Worker |-> "none"] /\ client = [w \in Worker |-> None]
  /\ mu = None /\ queue = <<>>
  /\ backlog = <<>>
  /\ peer = [c \in Conn |-> "new"] /\ reply = [c \in Conn |-> "none"]
  /\ accepted = {} /\ closes = [c \in Conn |-> 0]
  /\ starts = 0 /\ faults = 0

\* The sockets in queue_.
Queued == {queue[i] : i \in DOMAIN queue}

\* platform::Close of the sockets of S.
CloseAll(S) == closes' = [c \in Conn |-> IF c \in S THEN closes[c] + 1 ELSE closes[c]]

\* platform::WriteAll: a client that has gone sees nothing.
Answer(c, r) == reply' = IF peer[c] = "gone" THEN reply ELSE [reply EXCEPT ![c] = r]

Fault == faults < MaxFaults /\ faults' = faults + 1

-----------------------------------------------------------------------------
(* Start and Stop.                                                         *)

\* The threads are spawned; each waits for its first turn.
Start ==
  /\ main = "down" /\ ~running /\ starts < MaxStarts
  /\ starts' = starts + 1
  /\ listening' = TRUE /\ stopping' = FALSE /\ running' = TRUE
  /\ main' = "up" /\ acceptor' = "test"
  /\ worker' = [w \in Worker |-> "lock"]
  /\ UNCHANGED <<fresh, client, mu, queue, backlog, peer, reply, accepted, closes, faults>>

Stop ==
  /\ main = "up" /\ running
  /\ running' = FALSE /\ main' = "flag"
  /\ UNCHANGED <<stopping, listening, acceptor, fresh, worker, client, mu, queue, outside>>

SetStopping ==
  /\ main = "flag"
  /\ stopping' = TRUE /\ main' = "shut"
  /\ UNCHANGED <<running, listening, acceptor, fresh, worker, client, mu, queue, outside>>

\* platform::Shutdown wakes a blocked accept; connections still in the
\* kernel are reset.
ShutdownListening ==
  /\ main = "shut"
  /\ listening' = FALSE /\ main' = "join"
  /\ backlog' = <<>>
  /\ peer' = [c \in Conn |-> IF \E i \in DOMAIN backlog : backlog[i] = c
                               THEN "gone" ELSE peer[c]]
  /\ UNCHANGED <<running, stopping, acceptor, fresh, worker, client, mu, queue,
                 reply, accepted, closes, starts, faults>>

JoinAcceptor ==
  /\ main = "join" /\ acceptor = "exited"
  /\ acceptor' = "none" /\ main' = "drain"
  /\ UNCHANGED <<running, stopping, listening, fresh, worker, client, mu, queue, outside>>

\* Mutants: the queue is drained without taking queue_mu_; its sockets are
\* closed but it is not cleared; the sockets are forgotten.
DrainNoLock ==
  /\ main = "drain"
  /\ CloseAll(Queued)
  /\ queue' = <<>> /\ main' = "notify"
  /\ UNCHANGED <<running, stopping, listening, acceptor, fresh, worker, client, mu,
                 backlog, peer, reply, accepted, starts, faults>>
DrainNoClear ==
  /\ main = "drain" /\ mu = None
  /\ CloseAll(Queued)
  /\ main' = "notify"
  /\ UNCHANGED <<running, stopping, listening, acceptor, fresh, worker, client, mu, queue,
                 backlog, peer, reply, accepted, starts, faults>>
DrainNoClose ==
  /\ main = "drain" /\ mu = None
  /\ queue' = <<>> /\ main' = "notify"
  /\ UNCHANGED <<running, stopping, listening, acceptor, fresh, worker, client, mu, outside>>

\* Under queue_mu_: close what is queued, clear the queue.
Drain ==
  /\ main = "drain" /\ mu = None
  /\ CloseAll(Queued)
  /\ queue' = <<>> /\ main' = "notify"
  /\ UNCHANGED <<running, stopping, listening, acceptor, fresh, worker, client, mu,
                 backlog, peer, reply, accepted, starts, faults>>

\* The workers of S leave the wait set and go for queue_mu_.
Wake(S) == worker' = [w \in Worker |-> IF w \in S THEN "lock" ELSE worker[w]]

Waiting == {w \in Worker : worker[w] = "wait"}

NotifyAll ==
  /\ main = "notify"
  /\ Wake(Waiting) /\ main' = "joinWorkers"
  /\ UNCHANGED <<running, stopping, listening, acceptor, fresh, client, mu, queue, outside>>

JoinWorkers ==
  /\ main = "joinWorkers" /\ \A w \in Worker : worker[w] = "exited"
  /\ worker' = [w \in Worker |-> "none"] /\ main' = "down"
  /\ UNCHANGED <<running, stopping, listening, acceptor, fresh, client, mu, queue, outside>>

-----------------------------------------------------------------------------
(* AcceptLoop.                                                             *)

AcceptTest ==
  /\ acceptor = "test"
  /\ acceptor' = IF stopping THEN "exited" ELSE "accept"
  /\ UNCHANGED <<running, stopping, listening, main, fresh, worker, client, mu, queue, outside>>

Accept ==
  /\ acceptor = "accept" /\ listening /\ backlog # <<>>
  /\ fresh' = Head(backlog) /\ backlog' = Tail(backlog)
  /\ accepted' = accepted \cup {Head(backlog)}
  /\ acceptor' = "enqueue"
  /\ UNCHANGED <<running, stopping, listening, main, worker, client, mu, queue,
                 peer, reply, closes, starts, faults>>

\* Mutant: the result of accept is not tested.
AcceptFailsUntested ==
  /\ acceptor = "accept"
  /\ \/ ~listening /\ UNCHANGED faults
     \/ listening /\ Fault
  /\ acceptor' = "enqueue"
  /\ UNCHANGED <<running, stopping, listening, main, fresh, worker, client, mu, queue,
                 backlog, peer, reply, accepted, closes, starts>>

\* accept fails: the socket was shut down (whatever value the unprotected
\* read of listening_ gives), or for a moment.  stopping_ is read again.
AcceptFails ==
  /\ acceptor = "accept"
  /\ \/ ~listening /\ UNCHANGED faults
     \/ listening /\ Fault
  /\ acceptor' = "test"
  /\ UNCHANGED <<running, stopping, listening, main, fresh, worker, client, mu, queue,
                 backlog, peer, reply, accepted, closes, starts>>

\* Mutant: nobody is notified of the new entry.
EnqueueNoNotify ==
  /\ acceptor = "enqueue" /\ mu = None
  /\ Len(queue) < kMaxQueueDepth
  /\ queue' = Append(queue, fresh) /\ fresh' = None
  /\ acceptor' = "test"
  /\ UNCHANGED <<running, stopping, listening, main, worker, client, mu, outside>>

Enqueue ==
  /\ acceptor = "enqueue" /\ mu = None
  /\ Len(queue) < kMaxQueueDepth
  /\ queue' = Append(queue, fresh) /\ fresh' = None
  /\ acceptor' = "notify"
  /\ UNCHANGED <<running, stopping, listening, main, worker, client, mu, outside>>

QueueFull ==
  /\ acceptor = "enqueue" /\ mu = None
  /\ Len(queue) >= kMaxQueueDepth
  /\ acceptor' = "refuse"
  /\ UNCHANGED <<running, stopping, listening, main, fresh, worker, client, mu, queue, outside>>

\* 503, outside the lock.
Refuse ==
  /\ acceptor = "refuse"
  /\ Answer(fresh, "busy") /\ CloseAll({fresh}) /\ fresh' = None
  /\ acceptor' = "test"
  /\ UNCHANGED <<running, stopping, listening, main, worker, client, mu, queue,
                 backlog, peer, accepted, starts, faults>>

NotifyOne ==
  /\ acceptor = "notify"
  /\ \/ \E w \in Waiting : Wake({w})
     \/ Waiting = {} /\ UNCHANGED worker
  /\ acceptor' = "test"
  /\ UNCHANGED <<running, stopping, listening, main, fresh, client, mu, queue, outside>>

-----------------------------------------------------------------------------
(* WorkerLoop.                                                             *)

Go(w, pc) == worker' = [worker EXCEPT ![w] = pc]

Lock(w) ==
  /\ worker[w] = "lock" /\ mu = None
  /\ mu' = w /\ Go(w, "test")
  /\ UNCHANGED <<running, stopping, listening, main, acceptor, fresh, client, queue, outside>>

\* The predicate holds because of an entry, whether stopping or not.
Take(w) ==
  /\ worker[w] = "test" /\ queue # <<>>
  /\ client' = [client EXCEPT ![w] = Head(queue)] /\ queue' = Tail(queue)
  /\ mu' = None /\ Go(w, "handle")
  /\ UNCHANGED <<running, stopping, listening, main, acceptor, fresh, outside>>

\* It holds because of stopping_ alone.
Exit(w) ==
  /\ worker[w] = "test" /\ queue = <<>> /\ stopping
  /\ mu' = None /\ Go(w, "exited")
  /\ UNCHANGED <<running, stopping, listening, main, acceptor, fresh, client, queue, outside>>

\* It does not hold; the worker still has queue_mu_.
PredicateFalse(w) ==
  /\ worker[w] = "test" /\ queue = <<>> /\ ~stopping
  /\ Go(w, "sleep")
  /\ UNCHANGED <<running, stopping, listening, main, acceptor, fresh, client, mu, queue, outside>>

\* The wait releases queue_mu_ and joins the wait set at once.
Wait(w) ==
  /\ worker[w] = "sleep"
  /\ mu' = None /\ Go(w, "wait")
  /\ UNCHANGED <<running, stopping, listening, main, acceptor, fresh, client, queue, outside>>

SpuriousWakeup(w) ==
  /\ worker[w] = "wait" /\ Fault
  /\ Wake({w})
  /\ UNCHANGED <<running, stopping, listening, main, acceptor, fresh, client, mu, queue,
                 backlog, peer, reply, accepted, closes, starts>>

\* The last step of HandleClient: close, and back to the queue.
Finish(w) ==
  /\ CloseAll({client[w]}) /\ client' = [client EXCEPT ![w] = None]
  /\ Go(w, "lock")
  /\ UNCHANGED <<running, stopping, listening, main, acceptor, fresh, mu, queue,
                 backlog, peer, accepted, starts, faults>>

\* HandleClient with a complete request (the handler answers or throws), or
\* with one that does not parse or is too large.
Respond(w) ==
  /\ worker[w] = "handle" /\ peer[client[w]] \in {"sent", "bad"}
  /\ \/ peer[client[w]] = "sent" /\ Answer(client[w], "ok")
     \/ Answer(client[w], "error")
  /\ Finish(w)

\* Read reports that the client has gone.
GiveUp(w) ==
  /\ worker[w] = "handle" /\ peer[client[w]] = "gone"
  /\ Finish(w) /\ UNCHANGED reply

-----------------------------------------------------------------------------
(* Clients.                                                                *)

Connect(c) ==
  /\ peer[c] = "new" /\ listening
  /\ peer' = [peer EXCEPT ![c] = "quiet"] /\ backlog' = Append(backlog, c)
  /\ UNCHANGED <<server, reply, accepted, closes, starts, faults>>

\* The last byte of a request is sent, or what no more bytes can mend.
Send(c) ==
  /\ peer[c] = "quiet"
  /\ \E p \in {"sent", "bad"} : peer' = [peer EXCEPT ![c] = p]
  /\ UNCHANGED <<server, backlog, reply, accepted, closes, starts, faults>>

Leave(c) ==
  /\ peer[c] \in {"quiet", "sent", "bad"} /\ closes[c] = 0
  /\ peer' = [peer EXCEPT ![c] = "gone"]
  /\ UNCHANGED <<server, backlog, reply, accepted, closes, starts, faults>>

-----------------------------------------------------------------------------
StopStep ==
  \/ SetStopping \/ ShutdownListening \/ JoinAcceptor
  \/ Drain \/ NotifyAll \/ JoinWorkers

AcceptorStep ==
  AcceptTest \/ Accept \/ AcceptFails \/ Enqueue \/ QueueFull \/ Refuse \/ NotifyOne

WorkerStep(w) ==
  Lock(w) \/ Take(w) \/ Exit(w) \/ PredicateFalse(w) \/ Wait(w) \/ Respond(w) \/ GiveUp(w)

Next ==
  \/ Start \/ Stop \/ StopStep \/ AcceptorStep
  \/ \E w \in Worker : WorkerStep(w) \/ SpuriousWakeup(w)
  \/ \E c \in Conn : Connect(c) \/ Send(c) \/ Leave(c)

Spec == Init /\ [][Next]_vars

\* The operating system runs every thread that can go on, and a client that
\* is not silent completes its request.
Fairness ==
  /\ WF_vars(StopStep) /\ WF_vars(AcceptorStep)
  /\ \A w \in Worker : WF_vars(WorkerStep(w))
  /\ \A c \in Conn \ Silent : WF_vars(Send(c))

FairSpec == Spec /\ Fairness

-----------------------------------------------------------------------------
(* Properties.                                                             *)

TypeOK ==
  /\ running \in BOOLEAN /\ stopping \in BOOLEAN /\ listening \in BOOLEAN
  /\ main \in {"down", "up", "flag", "shut", "join", "drain", "notify", "joinWorkers"}
  /\ acceptor \in {"none", "test", "accept", "enqueue", "refuse", "notify", "exited"}
  /\ fresh \in Conn \cup {None}
  /\ worker \in [Worker -> {"none", "lock", "test", "sleep", "wait", "handle", "exited"}]
  /\ client \in [Worker -> Conn \cup {None}]
  /\ mu \in Worker \cup {None}
  /\ queue \in Seq(Conn) /\ backlog \in Seq(Conn)
  /\ peer \in [Conn -> {"new", "quiet", "sent", "bad", "gone"}]
  /\ reply \in [Conn -> {"none", "ok", "error", "busy"}]
  /\ accepted \subseteq Conn /\ closes \in [Conn -> Nat]
  /\ starts \in Nat /\ faults \in Nat

\* Some thread, or the queue, is responsible for the socket.
Held(c) == fresh = c \/ c \in Queued \/ \E w \in Worker : client[w] = c

\* On its way from the acceptor through the queue to a worker an accepted
\* socket has one owner at a time, and it is closed exactly once, by the
\* last of them or by Stop: none leaks, none is closed twice (which would
\* close a stranger's descriptor).
OneOwner ==
  /\ \A c \in Conn : Held(c) <=> c \in accepted /\ closes[c] = 0
  /\ \A c \in Conn : closes[c] <= 1
  /\ \A i, j \in DOMAIN queue : queue[i] = queue[j] => i = j
  /\ \A v, w \in Worker : client[v] = client[w] /\ client[v] # None => v = w
  /\ fresh \notin Queued
  /\ \A w \in Worker :
       client[w] # None => client[w] # fresh /\ client[w] \notin Queued

\* When Stop has notified the workers, none of them sleeps or is about to:
\* the flag is not set under queue_mu_, but Stop takes the mutex before it
\* notifies, so a worker that saw the flag unset is in the wait set by then.
StopWakesAll ==
  main = "joinWorkers" => \A w \in Worker : worker[w] \notin {"sleep", "wait"}

\* When Stop has returned every socket ever accepted has been closed.
StopClosesAll == main = "down" => \A c \in accepted : closes[c] = 1

\* Nothing ends a read of a client that sends nothing and does not leave
\* (platform.cpp:131), and Stop does not shut its socket down.
HeldUp ==
  /\ main = "joinWorkers" /\ queue = <<>>
  /\ \A w \in Worker : worker[w] # "exited" =>
       worker[w] = "handle" /\ client[w] \in Silent /\ peer[client[w]] = "quiet"

\* Stop returns, unless such clients keep it from it for ever, and only those
\* can that a worker reads from by then: it closes the others and comes as far
\* as the last join, where all the other workers have exited.
StopReturns == main = "flag" ~> main = "down" \/ []HeldUp

\* A complete request on an open connection is answered, unless its client
\* leaves or the server is stopped: no entry of the queue waits while all workers sleep.
Answered ==
  \A c \in Conn :
    peer[c] \in {"sent", "bad"} /\ closes[c] = 0
      ~> reply[c] # "none" \/ peer[c] = "gone" \/ ~running

-----------------------------------------------------------------------------
(* The inductive invariants behind them (HttpServerProofs).                *)

\* What a thread holds follows from where it is.
HoldInv ==
  /\ \A w \in Worker : worker[w] \in {"test", "sleep"} <=> mu = w
  /\ \A w \in Worker : worker[w] = "handle" <=> client[w] # None
  /\ acceptor \in {"enqueue", "refuse"} <=> fresh # None

\* Which threads exist, and what is left of the queue, in each phase of Stop.
PhaseInv ==
  /\ main = "down" => \A w \in Worker : worker[w] = "none"
  /\ \A w \in Worker : worker[w] = "none" => main = "down"
  /\ acceptor = "none" <=> main \in {"down", "drain", "notify", "joinWorkers"}
  /\ main \in {"up", "flag"} => ~stopping
  /\ main \in {"shut", "join", "drain", "notify", "joinWorkers"} => stopping
  /\ main \in {"notify", "joinWorkers", "down"} => queue = <<>>
  /\ main = "notify" => \A w \in Worker : worker[w] # "sleep"

\* A connection is handed out once.
BacklogInv ==
  /\ \A i, j \in DOMAIN backlog : backlog[i] = backlog[j] => i = j
  /\ \A i \in DOMAIN backlog : backlog[i] \notin accepted /\ peer[backlog[i]] # "new"
  /\ \A c \in accepted : peer[c] # "new"
  /\ \A c \in Conn \ accepted : closes[c] = 0
=============================================================================
