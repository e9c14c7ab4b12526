-------------------------- MODULE HttpServerProofs --------------------------
(***************************************************************************)
(* For any number of connections, workers and queue slots: the socket of a *)
(* connection has one owner and is closed once, and Stop leaves no worker  *)
(* asleep and no socket open.                                              *)
(***************************************************************************)
EXTENDS HttpServer, TLAPS

\* The types are preserved together with HoldInv: what Enqueue puts into the
\* queue is a connection because the acceptor holds one at that point.
LEMMA TypeStep ==
  ASSUME TypeOK, HoldInv, [Next]_vars
  PROVE  TypeOK'
<1>1. CASE Start
  <2>1. worker' \in [Worker -> {"none", "lock", "test", "sleep", "wait", "handle", "exited"}]
    BY <1>1 DEF Start
  <2>2. running' \in BOOLEAN /\ stopping' \in BOOLEAN /\ listening' \in BOOLEAN
    BY <1>1 DEF Start
  <2>3. QED BY <1>1, <2>1, <2>2 DEF TypeOK, Start
<1>2. CASE Stop
  BY <1>2 DEF TypeOK, Stop, outside
<1>3. CASE StopStep
  <2>1. CASE SetStopping BY <2>1 DEF TypeOK, SetStopping, outside
  <2>2. CASE ShutdownListening
    <3>1. peer' \in [Conn -> {"new", "quiet", "sent", "bad", "gone"}]
      BY <2>2 DEF TypeOK, ShutdownListening
    <3>2. backlog' \in Seq(Conn)
      BY <2>2 DEF ShutdownListening
    <3>3. listening' \in BOOLEAN
      BY <2>2 DEF ShutdownListening
    <3>4. QED BY <2>2, <3>1, <3>2, <3>3 DEF TypeOK, ShutdownListening
  <2>3. CASE JoinAcceptor BY <2>3 DEF TypeOK, JoinAcceptor, outside
  <2>4. CASE Drain BY <2>4 DEF TypeOK, Drain, CloseAll
  <2>5. CASE NotifyAll BY <2>5 DEF TypeOK, NotifyAll, Wake, outside
  <2>6. CASE JoinWorkers BY <2>6 DEF TypeOK, JoinWorkers, outside
  <2>7. QED BY <1>3, <2>1, <2>2, <2>3, <2>4, <2>5, <2>6 DEF StopStep
<1>4. CASE AcceptorStep
  <2>1. CASE AcceptTest BY <2>1 DEF TypeOK, AcceptTest, outside
  <2>2. CASE Accept BY <2>2 DEF TypeOK, Accept
  <2>3. CASE AcceptFails BY <2>3 DEF TypeOK, AcceptFails, Fault
  <2>4. CASE Enqueue
    <3>1. fresh \in Conn
      BY <2>4 DEF Enqueue, HoldInv, TypeOK
    <3>2. QED BY <2>4, <3>1 DEF TypeOK, Enqueue, outside
  <2>5. CASE QueueFull BY <2>5 DEF TypeOK, QueueFull, outside
  <2>6. CASE Refuse
    <3>1. reply' \in [Conn -> {"none", "ok", "error", "busy"}]
      BY <2>6 DEF TypeOK, Refuse, Answer
    <3>2. QED
      BY <2>6, <3>1, ConstantsAssumption DEF ConstantsAssumption, TypeOK, Refuse, CloseAll
  <2>7. CASE NotifyOne BY <2>7 DEF TypeOK, NotifyOne, Wake, outside
  <2>8. QED BY <1>4, <2>1, <2>2, <2>3, <2>4, <2>5, <2>6, <2>7 DEF AcceptorStep
<1>5. ASSUME NEW w \in Worker, WorkerStep(w) \/ SpuriousWakeup(w) PROVE TypeOK'
  <2>1. CASE Lock(w) BY <2>1 DEF TypeOK, Lock, Go, outside
  <2>2. CASE Take(w) BY <2>2 DEF TypeOK, Take, Go, outside
  <2>3. CASE Exit(w) BY <2>3 DEF TypeOK, Exit, Go, outside
  <2>4. CASE PredicateFalse(w) BY <2>4 DEF TypeOK, PredicateFalse, Go, outside
  <2>5. CASE Wait(w) BY <2>5 DEF TypeOK, Wait, Go, outside
  <2>6. CASE Respond(w)
    <3>1. reply' \in [Conn -> {"none", "ok", "error", "busy"}]
      BY <2>6 DEF TypeOK, Respond, Answer
    <3>2. QED BY <2>6, <3>1 DEF TypeOK, Respond, Finish, CloseAll, Go
  <2>7. CASE GiveUp(w) BY <2>7 DEF TypeOK, GiveUp, Finish, CloseAll, Go
  <2>8. CASE SpuriousWakeup(w) BY <2>8 DEF TypeOK, SpuriousWakeup, Wake, Fault
  <2>9. QED BY <1>5, <2>1, <2>2, <2>3, <2>4, <2>5, <2>6, <2>7, <2>8 DEF WorkerStep
<1>6. ASSUME NEW c \in Conn, Connect(c) \/ Send(c) \/ Leave(c) PROVE TypeOK'
  <2>1. CASE Connect(c)
    BY <2>1 DEF TypeOK, Connect, server, threads
  <2>2. CASE Send(c)
    BY <2>2 DEF TypeOK, Send, server, threads
  <2>3. CASE Leave(c)
    BY <2>3 DEF TypeOK, Leave, server, threads
  <2>4. QED BY <1>6, <2>1, <2>2, <2>3
<1>7. CASE UNCHANGED vars
  BY <1>7 DEF TypeOK, vars, server, threads, outside
<1>8. QED BY <1>1, <1>2, <1>3, <1>4, <1>5, <1>6, <1>7 DEF Next

-----------------------------------------------------------------------------
(* Where the threads are.                                                  *)

\* What a thread holds follows from its program point, and stays so.
LEMMA HoldStep ==
  ASSUME TypeOK, HoldInv, PhaseInv, [Next]_vars
  PROVE  HoldInv'
<1> USE ConstantsAssumption DEF ConstantsAssumption
<1>1. CASE Start
  BY <1>1 DEF TypeOK, HoldInv, PhaseInv, Start
<1>2. CASE Stop
  BY <1>2 DEF HoldInv, Stop
<1>3. CASE StopStep
  <2>1. CASE NotifyAll
    BY <2>1 DEF TypeOK, HoldInv, NotifyAll, Wake, Waiting
  <2>2. CASE JoinWorkers
    BY <2>2 DEF TypeOK, HoldInv, JoinWorkers
  <2>3. CASE SetStopping \/ ShutdownListening \/ JoinAcceptor \/ Drain
    BY <2>3 DEF TypeOK, HoldInv, SetStopping, ShutdownListening, JoinAcceptor, Drain
  <2>4. QED BY <1>3, <2>1, <2>2, <2>3 DEF StopStep
<1>4. CASE AcceptorStep
  <2>1. CASE NotifyOne
    BY <2>1 DEF TypeOK, HoldInv, NotifyOne, Wake, Waiting
  <2>2. CASE Accept
    <3>1. fresh' \in Conn
      BY <2>2 DEF TypeOK, Accept
    <3>2. QED BY <2>2, <3>1 DEF TypeOK, HoldInv, Accept
  <2>3. CASE AcceptTest \/ AcceptFails \/ Enqueue \/ QueueFull \/ Refuse
    BY <2>3 DEF TypeOK, HoldInv, AcceptTest, AcceptFails, Enqueue, QueueFull, Refuse
  <2>4. QED BY <1>4, <2>1, <2>2, <2>3 DEF AcceptorStep
<1>5. ASSUME NEW w \in Worker, WorkerStep(w) \/ SpuriousWakeup(w) PROVE HoldInv'
  <2>1. CASE Lock(w)
    BY <2>1 DEF TypeOK, HoldInv, Lock, Go
  <2>2. CASE Take(w)
    <3>1. Head(queue) \in Conn
      BY <2>2 DEF TypeOK, Take
    <3>2. QED BY <2>2, <3>1 DEF TypeOK, HoldInv, Take, Go
  <2>3. CASE Exit(w)
    BY <2>3 DEF TypeOK, HoldInv, Exit, Go
  <2>4. CASE PredicateFalse(w)
    BY <2>4 DEF TypeOK, HoldInv, PredicateFalse, Go
  <2>5. CASE Wait(w)
    BY <2>5 DEF TypeOK, HoldInv, Wait, Go
  <2>6. CASE Respond(w) \/ GiveUp(w)
    <3>1. /\ worker[w] = "handle" /\ worker' = [worker EXCEPT ![w] = "lock"]
          /\ client' = [client EXCEPT ![w] = None]
          /\ UNCHANGED <<acceptor, fresh, mu>>
      BY <2>6 DEF Respond, GiveUp, Finish, Go
    <3>2. QED BY <3>1 DEF TypeOK, HoldInv
  <2>7. CASE SpuriousWakeup(w)
    BY <2>7 DEF TypeOK, HoldInv, SpuriousWakeup, Wake
  <2>8. QED BY <1>5, <2>1, <2>2, <2>3, <2>4, <2>5, <2>6, <2>7 DEF WorkerStep
<1>6. ASSUME NEW c \in Conn, Connect(c) \/ Send(c) \/ Leave(c) PROVE HoldInv'
  <2>1. UNCHANGED server
    BY <1>6 DEF Connect, Send, Leave
  <2>2. UNCHANGED <<worker, client, mu, acceptor, fresh>>
    BY <2>1 DEF server, threads
  <2>3. QED BY <2>2 DEF HoldInv
<1>7. CASE UNCHANGED vars
  BY <1>7 DEF HoldInv, vars, server, threads
<1>8. QED BY <1>1, <1>2, <1>3, <1>4, <1>5, <1>6, <1>7 DEF Next

\* Each phase of Stop finds what the phases before it established.
LEMMA PhaseStep ==
  ASSUME TypeOK, HoldInv, PhaseInv, StopWakesAll, [Next]_vars
  PROVE  PhaseInv' /\ StopWakesAll'
<1> USE ConstantsAssumption DEF ConstantsAssumption
<1>1. CASE Start
  BY <1>1 DEF TypeOK, PhaseInv, StopWakesAll, Start
<1>2. CASE Stop
  BY <1>2 DEF PhaseInv, StopWakesAll, Stop
<1>3. CASE StopStep
  <2>1. CASE SetStopping \/ ShutdownListening \/ JoinAcceptor
    BY <2>1 DEF PhaseInv, StopWakesAll, SetStopping, ShutdownListening, JoinAcceptor
  <2>2. CASE Drain
    BY <2>2 DEF TypeOK, HoldInv, PhaseInv, StopWakesAll, Drain
  <2>3. CASE NotifyAll
    BY <2>3 DEF TypeOK, PhaseInv, StopWakesAll, NotifyAll, Wake, Waiting
  <2>4. CASE JoinWorkers
    BY <2>4 DEF TypeOK, PhaseInv, StopWakesAll, JoinWorkers
  <2>5. QED BY <1>3, <2>1, <2>2, <2>3, <2>4 DEF StopStep
<1>4. CASE AcceptorStep
  <2>1. CASE NotifyOne
    BY <2>1 DEF TypeOK, PhaseInv, StopWakesAll, NotifyOne, Wake, Waiting
  <2>2. CASE AcceptTest \/ Accept \/ AcceptFails \/ Enqueue \/ QueueFull \/ Refuse
    BY <2>2 DEF PhaseInv, StopWakesAll, AcceptTest, Accept, AcceptFails, Enqueue, QueueFull, Refuse
  <2>3. QED BY <1>4, <2>1, <2>2 DEF AcceptorStep
<1>5. ASSUME NEW w \in Worker, WorkerStep(w) \/ SpuriousWakeup(w)
      PROVE  PhaseInv' /\ StopWakesAll'
  <2>1. CASE Lock(w)
    BY <2>1 DEF TypeOK, PhaseInv, StopWakesAll, Lock, Go
  <2>2. CASE Take(w)
    BY <2>2 DEF TypeOK, PhaseInv, StopWakesAll, Take, Go
  <2>3. CASE Exit(w)
    BY <2>3 DEF TypeOK, PhaseInv, StopWakesAll, Exit, Go
  <2>4. CASE PredicateFalse(w)
    BY <2>4 DEF TypeOK, PhaseInv, StopWakesAll, PredicateFalse, Go
  <2>5. CASE Wait(w)
    BY <2>5 DEF TypeOK, PhaseInv, StopWakesAll, Wait, Go
  <2>6. CASE Respond(w) \/ GiveUp(w)
    BY <2>6 DEF TypeOK, PhaseInv, StopWakesAll, Respond, GiveUp, Finish, Go
  <2>7. CASE SpuriousWakeup(w)
    BY <2>7 DEF TypeOK, PhaseInv, StopWakesAll, SpuriousWakeup, Wake
  <2>8. QED BY <1>5, <2>1, <2>2, <2>3, <2>4, <2>5, <2>6, <2>7 DEF WorkerStep
<1>6. ASSUME NEW c \in Conn, Connect(c) \/ Send(c) \/ Leave(c)
      PROVE  PhaseInv' /\ StopWakesAll'
  BY <1>6 DEF PhaseInv, StopWakesAll, Connect, Send, Leave, server, threads
<1>7. CASE UNCHANGED vars
  BY <1>7 DEF PhaseInv, StopWakesAll, vars, server, threads
<1>8. QED BY <1>1, <1>2, <1>3, <1>4, <1>5, <1>6, <1>7 DEF Next

-----------------------------------------------------------------------------
(* The sockets.                                                            *)

\* A step that moves no socket.
LEMMA QuietOwner ==
  ASSUME OneOwner, UNCHANGED <<fresh, queue, client, accepted, closes>>
  PROVE  OneOwner'
BY DEF OneOwner, Held, Queued

\* A step that moves no connection between kernel and server.
LEMMA QuietBacklog ==
  ASSUME BacklogInv, UNCHANGED <<backlog, accepted, peer>>,
         \A c \in Conn \ accepted : closes'[c] = closes[c]
  PROVE  BacklogInv'
BY DEF BacklogInv

\* Appending an element not in a sequence keeps its elements distinct.
LEMMA AppendDistinct ==
  ASSUME NEW S, NEW s \in Seq(S), NEW e \in S,
         \A i, j \in DOMAIN s : s[i] = s[j] => i = j,
         e \notin {s[i] : i \in DOMAIN s}
  PROVE  /\ \A i, j \in DOMAIN Append(s, e) : Append(s, e)[i] = Append(s, e)[j] => i = j
         /\ {Append(s, e)[i] : i \in DOMAIN Append(s, e)} = {s[i] : i \in DOMAIN s} \cup {e}
<1> DEFINE t == Append(s, e)
<1>1. /\ DOMAIN s = 1..Len(s) /\ Len(s) \in Nat
      /\ DOMAIN t = 1..(Len(s) + 1)
      /\ t[Len(s) + 1] = e
      /\ \A i \in 1..Len(s) : t[i] = s[i]
  OBVIOUS
<1> HIDE DEF t
<1>2. /\ \A i \in DOMAIN t : i \in DOMAIN s \/ i = Len(s) + 1
      /\ \A i \in DOMAIN s : i \in DOMAIN t
      /\ Len(s) + 1 \in DOMAIN t
  BY <1>1
<1>3. \A i, j \in DOMAIN t : t[i] = t[j] => i = j
  BY <1>1, <1>2
<1>4. {t[i] : i \in DOMAIN t} = {s[i] : i \in DOMAIN s} \cup {e}
  BY <1>1, <1>2
<1>5. QED BY <1>3, <1>4 DEF t

\* The tail of a sequence of distinct elements has all of them but the head.
LEMMA TailDistinct ==
  ASSUME NEW S, NEW s \in Seq(S), s # <<>>,
         \A i, j \in DOMAIN s : s[i] = s[j] => i = j
  PROVE  /\ Head(s) \in S /\ Head(s) \in {s[i] : i \in DOMAIN s}
         /\ \A i, j \in DOMAIN Tail(s) : Tail(s)[i] = Tail(s)[j] => i = j
         /\ {Tail(s)[i] : i \in DOMAIN Tail(s)} = {s[i] : i \in DOMAIN s} \ {Head(s)}
<1> DEFINE t == Tail(s)
<1>1. /\ DOMAIN s = 1..Len(s) /\ Len(s) \in Nat \ {0}
      /\ DOMAIN t = 1..(Len(s) - 1)
      /\ Head(s) = s[1] /\ s[1] \in S
      /\ \A i \in 1..(Len(s) - 1) : t[i] = s[i + 1]
  OBVIOUS
<1> HIDE DEF t
<1>2. \A i \in DOMAIN t : i + 1 \in DOMAIN s /\ t[i] = s[i + 1] /\ i + 1 # 1
  BY <1>1
<1>3. \A i \in DOMAIN s : i = 1 \/ (i - 1 \in DOMAIN t /\ t[i - 1] = s[i])
  BY <1>1
<1>4. 1 \in DOMAIN s
  BY <1>1
<1>5. \A i, j \in DOMAIN t : t[i] = t[j] => i = j
  BY <1>1, <1>2
<1>6. ASSUME NEW i \in DOMAIN t
      PROVE  t[i] # Head(s) /\ t[i] \in {s[k] : k \in DOMAIN s}
  BY <1>1, <1>2, <1>4, <1>6
<1>7. ASSUME NEW k \in DOMAIN s, s[k] # Head(s)
      PROVE  s[k] \in {t[i] : i \in DOMAIN t}
  BY <1>1, <1>3, <1>7
<1>8. QED BY <1>1, <1>4, <1>5, <1>6, <1>7 DEF t

\* Every step that moves a socket takes it from one owner and gives it to
\* one other, or closes it.
LEMMA OwnerStep ==
  ASSUME TypeOK, HoldInv, PhaseInv, BacklogInv, OneOwner, [Next]_vars
  PROVE  OneOwner'
<1> USE ConstantsAssumption DEF ConstantsAssumption
<1>a. Queued \subseteq Conn /\ None \notin Queued
  BY DEF TypeOK, Queued
<1>1. CASE Start \/ Stop
  BY <1>1, QuietOwner DEF Start, Stop, outside
<1>2. CASE Drain
  <2>1. \A c \in Conn : closes'[c] = IF c \in Queued THEN closes[c] + 1 ELSE closes[c]
    BY <1>2 DEF TypeOK, Drain, CloseAll
  <2>2. queue' = <<>> /\ UNCHANGED <<fresh, client, accepted>>
    BY <1>2 DEF Drain
  <2>3. Queued' = {}
    BY <2>2 DEF Queued
  <2>4. \A c \in Conn : Held(c)' <=> c \in accepted' /\ closes'[c] = 0
    <3>1. \A c \in Conn : Held(c)' <=> Held(c) /\ c \notin Queued
      BY <2>2, <2>3 DEF OneOwner, Held
    <3>2. \A c \in Conn : c \in Queued => Held(c)
      BY DEF Held
    <3>3. \A c \in Conn : closes[c] \in Nat /\ (Held(c) <=> c \in accepted /\ closes[c] = 0)
      BY DEF TypeOK, OneOwner
    <3>4. \A c \in Conn : closes'[c] = 0 <=> closes[c] = 0 /\ c \notin Queued
      BY <2>1, <3>2, <3>3
    <3>5. QED BY <2>2, <3>1, <3>3, <3>4
  <2>5. \A c \in Conn : closes'[c] <= 1
    <3>1. \A c \in Queued : closes[c] = 0
      BY <1>a DEF OneOwner, Held
    <3>2. \A c \in Conn : closes[c] <= 1
      BY DEF OneOwner
    <3>3. QED BY <2>1, <3>1, <3>2
  <2>6. QED BY <2>2, <2>3, <2>4, <2>5 DEF OneOwner
<1>3. CASE SetStopping \/ ShutdownListening \/ JoinAcceptor \/ NotifyAll \/ JoinWorkers
  BY <1>3, QuietOwner
     DEF SetStopping, ShutdownListening, JoinAcceptor, NotifyAll, JoinWorkers, outside
<1>4. CASE Accept
  <2> DEFINE h == Head(backlog)
  <2>1. /\ h \in Conn /\ h \notin accepted /\ fresh = None /\ fresh' = h
        /\ accepted' = accepted \cup {h} /\ UNCHANGED <<queue, client, closes>>
    BY <1>4 DEF Accept, BacklogInv, TypeOK, HoldInv
  <2> HIDE DEF h
  <2>2. ~Held(h) /\ closes[h] = 0
    BY <2>1 DEF OneOwner, BacklogInv
  <2>3. Queued' = Queued
    BY <2>1 DEF Queued
  <2>4. \A c \in Conn : Held(c)' <=> Held(c) \/ c = h
    BY <2>1, <2>3 DEF Held
  <2>5. QED BY <2>1, <2>2, <2>3, <2>4 DEF OneOwner, Held
<1>5. CASE Enqueue
  <2>1. fresh \in Conn /\ fresh' = None /\ UNCHANGED <<client, accepted, closes>>
    BY <1>5 DEF Enqueue, TypeOK, HoldInv, outside
  <2>2. /\ \A i, j \in DOMAIN queue' : queue'[i] = queue'[j] => i = j
        /\ Queued' = Queued \cup {fresh}
    <3>1. /\ queue \in Seq(Conn) /\ queue' = Append(queue, fresh)
          /\ \A i, j \in DOMAIN queue : queue[i] = queue[j] => i = j
          /\ fresh \notin {queue[i] : i \in DOMAIN queue}
      BY <1>5 DEF Enqueue, TypeOK, OneOwner, Queued
    <3>2. QED BY <2>1, <3>1, AppendDistinct DEF Queued
  <2>3. \A c \in Conn : Held(c)' <=> Held(c)
    BY <2>1, <2>2 DEF Held
  <2>4. QED BY <1>a, <2>1, <2>2, <2>3 DEF OneOwner
<1>6. CASE Refuse
  <2>1. fresh \in Conn /\ fresh' = None /\ UNCHANGED <<queue, client, accepted>>
    BY <1>6 DEF Refuse, TypeOK, HoldInv
  <2>2. \A c \in Conn : closes'[c] = IF c = fresh THEN closes[c] + 1 ELSE closes[c]
    BY <1>6 DEF TypeOK, Refuse, CloseAll
  <2>3. Queued' = Queued
    BY <2>1 DEF Queued
  <2>4. \A c \in Conn : Held(c)' <=> Held(c) /\ c # fresh
    BY <2>1, <2>3 DEF Held, OneOwner
  <2>5. \A c \in Conn : /\ Held(c)' <=> c \in accepted' /\ closes'[c] = 0
                       /\ closes'[c] <= 1
    BY <2>1, <2>2, <2>4 DEF TypeOK, OneOwner, Held
  <2>6. QED BY <1>a, <2>1, <2>3, <2>5 DEF OneOwner
<1>7. CASE AcceptTest \/ AcceptFails \/ QueueFull \/ NotifyOne
  BY <1>7, QuietOwner DEF AcceptTest, AcceptFails, QueueFull, NotifyOne, outside
<1>8. ASSUME NEW w \in Worker, Take(w) PROVE OneOwner'
  <2> DEFINE h == Head(queue)
  <2>1. /\ h \in Conn /\ h \in Queued
        /\ \A i, j \in DOMAIN queue' : queue'[i] = queue'[j] => i = j
        /\ Queued' = Queued \ {h}
    <3>1. /\ queue \in Seq(Conn) /\ queue # <<>> /\ queue' = Tail(queue)
          /\ \A i, j \in DOMAIN queue : queue[i] = queue[j] => i = j
      BY <1>8 DEF Take, TypeOK, OneOwner
    <3>2. QED BY <3>1, TailDistinct DEF Queued
  <2>2. /\ client' = [client EXCEPT ![w] = h] /\ client[w] = None
        /\ UNCHANGED <<fresh, accepted, closes>>
    BY <1>8 DEF Take, HoldInv, outside
  <2> HIDE DEF h
  <2>3. /\ client'[w] = h
        /\ \A v \in Worker : v # w => client'[v] = client[v]
    BY <2>2 DEF TypeOK
  <2>4. \A c \in Conn : Held(c)' <=> Held(c)
    BY <2>1, <2>2, <2>3 DEF Held
  <2>5. QED BY <2>1, <2>2, <2>3, <2>4 DEF OneOwner
<1>9. ASSUME NEW w \in Worker, Respond(w) \/ GiveUp(w) PROVE OneOwner'
  <2>1. /\ client[w] # None /\ client' = [client EXCEPT ![w] = None]
        /\ UNCHANGED <<queue, fresh, accepted>>
    BY <1>9 DEF Respond, GiveUp, Finish, HoldInv
  <2>2. client[w] \in Conn
    BY <2>1 DEF TypeOK
  <2>3. \A c \in Conn : closes'[c] = IF c = client[w] THEN closes[c] + 1 ELSE closes[c]
    BY <1>9 DEF TypeOK, Respond, GiveUp, Finish, CloseAll
  <2>4. /\ client'[w] = None
        /\ \A v \in Worker : v # w => client'[v] = client[v]
    BY <2>1 DEF TypeOK
  <2>5. Queued' = Queued
    BY <2>1 DEF Queued
  <2>6. \A c \in Conn : Held(c)' <=> Held(c) /\ c # client[w]
    BY <2>1, <2>2, <2>4, <2>5 DEF Held, OneOwner
  <2>7. \A c \in Conn : /\ Held(c)' <=> c \in accepted' /\ closes'[c] = 0
                       /\ closes'[c] <= 1
    BY <2>1, <2>2, <2>3, <2>6 DEF TypeOK, OneOwner, Held
  <2>8. QED BY <2>1, <2>4, <2>5, <2>7 DEF OneOwner
<1>10. ASSUME NEW w \in Worker,
              \/ Lock(w) \/ Exit(w) \/ PredicateFalse(w) \/ Wait(w) \/ SpuriousWakeup(w)
       PROVE  OneOwner'
  BY <1>10, QuietOwner DEF Lock, Exit, PredicateFalse, Wait, SpuriousWakeup, outside
<1>11. ASSUME NEW c \in Conn, Connect(c) \/ Send(c) \/ Leave(c) PROVE OneOwner'
  BY <1>11, QuietOwner DEF Connect, Send, Leave, server, threads
<1>12. CASE UNCHANGED vars
  BY <1>12, QuietOwner DEF vars, server, threads, outside
<1>13. QED
  BY <1>1, <1>2, <1>3, <1>4, <1>5, <1>6, <1>7, <1>8, <1>9, <1>10, <1>11, <1>12
     DEF Next, StopStep, AcceptorStep, WorkerStep

\* The kernel hands a connection out once; only accepted ones are closed.
LEMMA BacklogStep ==
  ASSUME TypeOK, HoldInv, BacklogInv, OneOwner, [Next]_vars
  PROVE  BacklogInv'
<1> USE ConstantsAssumption DEF ConstantsAssumption
<1>1. CASE Start \/ Stop
  BY <1>1, QuietBacklog DEF Start, Stop, outside
<1>2. CASE ShutdownListening
  BY <1>2 DEF TypeOK, BacklogInv, ShutdownListening
<1>3. CASE Drain
  <2>1. Queued \subseteq accepted
    BY DEF TypeOK, OneOwner, Held, Queued
  <2>2. \A c \in Conn \ accepted : closes'[c] = closes[c]
    BY <1>3, <2>1 DEF Drain, CloseAll
  <2>3. QED BY <1>3, <2>2, QuietBacklog DEF Drain
<1>4. CASE SetStopping \/ JoinAcceptor \/ NotifyAll \/ JoinWorkers
  BY <1>4, QuietBacklog DEF SetStopping, JoinAcceptor, NotifyAll, JoinWorkers, outside
<1>5. CASE Accept
  <2>1. /\ backlog \in Seq(Conn) /\ backlog # <<>>
        /\ \A i, j \in DOMAIN backlog : backlog[i] = backlog[j] => i = j
        /\ backlog' = Tail(backlog) /\ accepted' = accepted \cup {Head(backlog)}
        /\ UNCHANGED <<peer, closes>>
    BY <1>5 DEF Accept, TypeOK, BacklogInv
  <2>2. /\ Head(backlog) \in {backlog[i] : i \in DOMAIN backlog}
        /\ \A i, j \in DOMAIN backlog' : backlog'[i] = backlog'[j] => i = j
        /\ {backlog'[i] : i \in DOMAIN backlog'}
             = {backlog[i] : i \in DOMAIN backlog} \ {Head(backlog)}
    <3>1. /\ Head(backlog) \in {backlog[i] : i \in DOMAIN backlog}
          /\ \A i, j \in DOMAIN Tail(backlog) :
               Tail(backlog)[i] = Tail(backlog)[j] => i = j
          /\ {Tail(backlog)[i] : i \in DOMAIN Tail(backlog)}
               = {backlog[i] : i \in DOMAIN backlog} \ {Head(backlog)}
      BY <2>1, TailDistinct
    <3>2. QED BY <2>1, <3>1
  <2>3. \A i \in DOMAIN backlog' :
          backlog'[i] # Head(backlog) /\ \E k \in DOMAIN backlog : backlog'[i] = backlog[k]
    BY <2>2
  <2>4. QED BY <2>1, <2>2, <2>3 DEF BacklogInv
<1>6. CASE Refuse
  <2>1. fresh \in accepted
    BY <1>6 DEF TypeOK, HoldInv, OneOwner, Held, Refuse
  <2>2. \A c \in Conn \ accepted : closes'[c] = closes[c]
    BY <1>6, <2>1 DEF Refuse, CloseAll
  <2>3. QED BY <1>6, <2>2, QuietBacklog DEF Refuse
<1>7. CASE AcceptTest \/ AcceptFails \/ Enqueue \/ QueueFull \/ NotifyOne
  BY <1>7, QuietBacklog DEF AcceptTest, AcceptFails, Enqueue, QueueFull, NotifyOne, outside
<1>8. ASSUME NEW w \in Worker, Respond(w) \/ GiveUp(w) PROVE BacklogInv'
  <2>1. client[w] \in accepted
    BY <1>8 DEF TypeOK, HoldInv, OneOwner, Held, Respond, GiveUp
  <2>2. \A c \in Conn \ accepted : closes'[c] = closes[c]
    BY <1>8, <2>1 DEF Respond, GiveUp, Finish, CloseAll
  <2>3. QED BY <1>8, <2>2, QuietBacklog DEF Respond, GiveUp, Finish
<1>9. ASSUME NEW w \in Worker,
             \/ Lock(w) \/ Take(w) \/ Exit(w) \/ PredicateFalse(w) \/ Wait(w)
             \/ SpuriousWakeup(w)
      PROVE  BacklogInv'
  BY <1>9, QuietBacklog DEF Lock, Take, Exit, PredicateFalse, Wait, SpuriousWakeup, outside
<1>10. ASSUME NEW c \in Conn, Connect(c) PROVE BacklogInv'
  <2>1. /\ backlog' = Append(backlog, c) /\ peer' = [peer EXCEPT ![c] = "quiet"]
        /\ peer[c] = "new" /\ UNCHANGED <<accepted, closes>>
    BY <1>10 DEF Connect
  <2>2. c \notin accepted /\ c \notin {backlog[i] : i \in DOMAIN backlog}
    BY <2>1 DEF BacklogInv
  <2>3. /\ \A i, j \in DOMAIN backlog' : backlog'[i] = backlog'[j] => i = j
        /\ {backlog'[i] : i \in DOMAIN backlog'}
             = {backlog[i] : i \in DOMAIN backlog} \cup {c}
    <3>1. /\ backlog \in Seq(Conn)
          /\ \A i, j \in DOMAIN backlog : backlog[i] = backlog[j] => i = j
      BY DEF TypeOK, BacklogInv
    <3>2. PICK S, b, e : S = Conn /\ b = backlog /\ e = c
      OBVIOUS
    <3>3. /\ b \in Seq(S) /\ e \in S /\ \A i, j \in DOMAIN b : b[i] = b[j] => i = j
          /\ e \notin {b[i] : i \in DOMAIN b}
      BY <2>2, <3>1, <3>2
    <3>4. /\ \A i, j \in DOMAIN Append(b, e) : Append(b, e)[i] = Append(b, e)[j] => i = j
          /\ {Append(b, e)[i] : i \in DOMAIN Append(b, e)} = {b[i] : i \in DOMAIN b} \cup {e}
      BY <3>3, AppendDistinct
    <3>5. QED BY <2>1, <3>2, <3>4
  <2>4. \A i \in DOMAIN backlog' :
          backlog'[i] = c \/ \E k \in DOMAIN backlog : backlog'[i] = backlog[k]
    BY <2>3
  <2>5. peer'[c] = "quiet" /\ \A d \in Conn : d # c => peer'[d] = peer[d]
    BY <2>1 DEF TypeOK
  <2>6. \A d \in Conn : peer[d] # "new" => peer'[d] # "new"
    BY <2>5
  <2>7. \A k \in DOMAIN backlog : backlog[k] \in Conn
    BY DEF TypeOK
  <2>8. QED BY SMTT(30), <2>1, <2>2, <2>3, <2>4, <2>5, <2>6, <2>7 DEF TypeOK, BacklogInv
<1>11. ASSUME NEW c \in Conn, Send(c) \/ Leave(c) PROVE BacklogInv'
  <2>1. \A d \in Conn : peer[d] # "new" => peer'[d] # "new"
    BY <1>11 DEF TypeOK, Send, Leave
  <2>2. UNCHANGED <<backlog, accepted, closes>>
    BY <1>11 DEF Send, Leave
  <2>3. \A k \in DOMAIN backlog : backlog[k] \in Conn
    BY DEF TypeOK
  <2>4. QED BY <2>1, <2>2, <2>3 DEF TypeOK, BacklogInv
<1>12. CASE UNCHANGED vars
  BY <1>12, QuietBacklog DEF vars, outside
<1>13. QED
  BY <1>1, <1>2, <1>3, <1>4, <1>5, <1>6, <1>7, <1>8, <1>9, <1>10, <1>11, <1>12
     DEF Next, StopStep, AcceptorStep, WorkerStep

-----------------------------------------------------------------------------
(* The theorems.                                                           *)

\* The inductive invariant.
IInv == TypeOK /\ HoldInv /\ PhaseInv /\ BacklogInv /\ OneOwner /\ StopWakesAll

\* It holds before the first Start.
LEMMA InitIInv == Init => IInv
<1> SUFFICES ASSUME Init PROVE IInv
  OBVIOUS
<1> USE ConstantsAssumption DEF ConstantsAssumption, Init
<1>1. TypeOK
  <2>1. queue \in Seq(Conn) /\ backlog \in Seq(Conn)
    OBVIOUS
  <2>2. running \in BOOLEAN /\ stopping \in BOOLEAN /\ listening \in BOOLEAN
    OBVIOUS
  <2>3. QED BY <2>1, <2>2 DEF TypeOK
<1>2. HoldInv /\ PhaseInv /\ StopWakesAll /\ BacklogInv
  BY DEF HoldInv, PhaseInv, StopWakesAll, BacklogInv
<1>3. OneOwner
  BY DEF OneOwner, Held, Queued
<1>4. QED BY <1>1, <1>2, <1>3 DEF IInv

\* And it is kept by every step.
LEMMA Invariance == Spec => []IInv
<1>1. IInv /\ [Next]_vars => IInv'
  BY TypeStep, HoldStep, PhaseStep, BacklogStep, OwnerStep DEF IInv
<1>2. QED BY <1>1, InitIInv, PTL DEF Spec

\* The variables keep their types; what a thread puts into the queue or
\* answers is a connection it holds.
THEOREM TypeCorrect == Spec => []TypeOK
<1>1. IInv => TypeOK
  BY DEF IInv
<1>2. QED BY <1>1, Invariance, PTL

\* From accept to close a socket has one owner, whatever the number of
\* workers, the depth of the queue and the moment of Stop.
THEOREM SocketHasOneOwner == Spec => []OneOwner
<1>1. IInv => OneOwner
  BY DEF IInv
<1>2. QED BY <1>1, Invariance, PTL

\* No worker sleeps through the notification of Stop.
THEOREM NoLostShutdown == Spec => []StopWakesAll
<1>1. IInv => StopWakesAll
  BY DEF IInv
<1>2. QED BY <1>1, Invariance, PTL

\* When Stop has returned, every accepted socket is closed: by then no
\* thread holds one and the queue is empty.
THEOREM StopLeavesNoSocket == Spec => []StopClosesAll
<1>1. IInv => StopClosesAll
  <2> SUFFICES ASSUME IInv, main = "down", NEW c \in accepted PROVE closes[c] = 1
    BY DEF StopClosesAll
  <2>1. fresh = None /\ queue = <<>> /\ \A w \in Worker : client[w] = None
    BY DEF IInv, HoldInv, PhaseInv
  <2>2. c \in Conn /\ ~Held(c)
    BY <2>1, ConstantsAssumption DEF IInv, TypeOK, Held, Queued, ConstantsAssumption
  <2>3. QED BY <2>2 DEF IInv, TypeOK, OneOwner
<1>2. QED BY <1>1, Invariance, PTL
=============================================================================
