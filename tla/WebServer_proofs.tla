--------------------------- MODULE WebServer_proofs ---------------------------
(***************************************************************************)
(* Proofs about WebServer.  The connections are followed through queue and *)
(* workers (TakeJobStep), the wakeups are counted (WakeupStep), and the three *)
(* parts of the invariant are put together in NextIInv.                    *)
(***************************************************************************)
EXTENDS WebServer, FiniteSetTheorems, TLAPS

Ready == {w \in Workers : worker[w] = "ready"}

\* What an element appended to the queue, or taken from its head, does to the
\* set of queued connections.
LEMMA QueuedAppend ==
  ASSUME jobs \in Seq(Conns), NEW c \in Conns, jobs' = Append(jobs, c)
  PROVE  /\ jobs' \in Seq(Conns)
         /\ Queued' = Queued \union {c}
         /\ Len(jobs') = Len(jobs) + 1
         /\ \A i \in 1..Len(jobs') :
               jobs'[i] = IF i <= Len(jobs) THEN jobs[i] ELSE c
<1>1. /\ Len(jobs) \in Nat
      /\ Len(jobs') = Len(jobs) + 1
      /\ jobs' \in Seq(Conns)
      /\ \A i \in 1..Len(jobs') : jobs'[i] = IF i <= Len(jobs) THEN jobs[i] ELSE c
  OBVIOUS
<1>2. QED
  BY <1>1 DEF Queued

LEMMA QueuedTail ==
  ASSUME jobs \in Seq(Conns), jobs # <<>>, jobs' = Tail(jobs),
         \A i, j \in 1..Len(jobs) : jobs[i] = jobs[j] => i = j
  PROVE  /\ jobs' \in Seq(Conns)
         /\ Head(jobs) \in Queued
         /\ Queued' = Queued \ {Head(jobs)}
         /\ Len(jobs') = Len(jobs) - 1 /\ Len(jobs) \in Nat \ {0}
         /\ \A i, j \in 1..Len(jobs') : jobs'[i] = jobs'[j] => i = j
<1>1. /\ Len(jobs) \in Nat \ {0}
      /\ Len(jobs') = Len(jobs) - 1
      /\ jobs' \in Seq(Conns)
      /\ Head(jobs) = jobs[1]
      /\ \A i \in 1..Len(jobs') : jobs'[i] = jobs[i + 1]
  OBVIOUS
<1>2. Head(jobs) \in Queued
  BY <1>1 DEF Queued
<1>3. Queued' \subseteq Queued \ {Head(jobs)}
  BY <1>1 DEF Queued
<1>4. ASSUME NEW c \in Queued \ {Head(jobs)}
      PROVE  c \in Queued'
  <2>1. PICK i \in 1..Len(jobs) : c = jobs[i]
    BY DEF Queued
  <2>2. i - 1 \in 1..Len(jobs') /\ jobs'[i - 1] = c
    BY <1>1, <2>1
  <2>3. QED
    BY <2>2 DEF Queued
<1>5. \A i, j \in 1..Len(jobs') : jobs'[i] = jobs'[j] => i = j
  BY <1>1
<1>6. QED
  BY <1>1, <1>2, <1>3, <1>4, <1>5

LEMMA InitIInv == Init => IInv
<1> SUFFICES ASSUME Init PROVE IInv
  OBVIOUS
<1> USE ServerAssumption DEF Init
<1>1. TypeOK
  <2>1. 0 \in 0..KeepAliveMax
    OBVIOUS
  <2>2. jobs \in Seq(Conns)
    OBVIOUS
  <2>3. QED
    BY <2>1, <2>2 DEF TypeOK, Busy
<1>2. Queued = {}
  BY DEF Queued
<1>. /\ \A c \in Conns : conn[c] = "new" /\ c # NoConn
     /\ \A w \in Workers : serving[w] = NoConn
     /\ hand = NoConn
     /\ Len(jobs) = 0
  OBVIOUS
<1>. HIDE DEF Init
<1>6. ServedOnce
  BY <1>2 DEF ServedOnce
<1>. USE DEF Init
<1>3. NoLostWakeup /\ JoinWaitsForWorkOnly /\ BusyInv /\ SocketInv
  BY DEF NoLostWakeup, JoinWaitsForWorkOnly, BusyInv, Busy, SocketInv
<1>4. ListenerInv
  BY DEF ListenerInv, NotListening, Running
<1>5. QED
  BY <1>1, <1>6, <1>3, <1>4 DEF IInv

-----------------------------------------------------------------------------
(***************************************************************************)
(* The number of workers that are ready, as one of them comes or goes.     *)
(***************************************************************************)
LEMMA ReadyIsFinite == Cardinality(Ready) \in Nat /\ IsFiniteSet(Ready)
  BY FS_Subset, FS_CardinalityType, ServerAssumption DEF Ready

LEMMA ReadyComes ==
  ASSUME TypeOK, NEW w \in Workers, worker[w] # "ready",
         worker' = [worker EXCEPT ![w] = "ready"]
  PROVE  Cardinality(Ready') = Cardinality(Ready) + 1
<1>1. Ready' = Ready \union {w} /\ w \notin Ready
  BY DEF Ready, TypeOK
<1>2. QED
  BY <1>1, FS_AddElement, ReadyIsFinite

LEMMA ReadyGoes ==
  ASSUME TypeOK, NEW w \in Workers, worker[w] = "ready", NEW s, s # "ready",
         worker' = [worker EXCEPT ![w] = s]
  PROVE  Cardinality(Ready') = Cardinality(Ready) - 1
<1>1. Ready' = Ready \ {w} /\ w \in Ready
  BY DEF Ready, TypeOK
<1>2. QED
  BY <1>1, FS_RemoveElement, ReadyIsFinite

\* A step that touches neither queue nor workers, and accepts no connection.
LEMMA PoolCarries ==
  ASSUME ServedOnce, NoLostWakeup, BusyInv, UNCHANGED <<hand, jobs, worker, serving>>,
         \A c \in Conns : conn'[c] = "accepted" <=> conn[c] = "accepted"
  PROVE  ServedOnce' /\ NoLostWakeup' /\ BusyInv'
<1>1. Queued' = Queued
  BY DEF Queued
<1>2. ServedOnce'
  BY <1>1 DEF ServedOnce
<1>3. QED
  BY <1>2 DEF NoLostWakeup, BusyInv

\* A worker moves on with the connection it has, or has none before and after.
LEMMA WorkerMoves ==
  ASSUME TypeOK, ServedOnce, NoLostWakeup, BusyInv,
         NEW w \in Workers, NEW s \in Busy \union {"ready", "waiting", "exited"},
         s \in Busy <=> worker[w] \in Busy,
         worker' = [worker EXCEPT ![w] = s],
         UNCHANGED <<hand, jobs, serving>>,
         worker[w] = "ready" => jobs = <<>>,
         s = "waiting" => jobs = <<>>,
         \A c \in Conns : conn'[c] = "accepted" <=> conn[c] = "accepted"
  PROVE  ServedOnce' /\ NoLostWakeup' /\ BusyInv'
<1>1. Queued' = Queued
  BY DEF Queued
<1>2. ServedOnce'
  BY <1>1 DEF ServedOnce
<1>3. BusyInv'
  BY DEF BusyInv, TypeOK
<1>4. NoLostWakeup'
  <2>1. CASE jobs = <<>>
    <3>1. Len(jobs') = 0 /\ Cardinality(Ready') \in Nat
      <4>1. IsFiniteSet(Ready')
        BY FS_Subset, ServerAssumption DEF Ready
      <4>2. QED
        BY <2>1, <4>1, FS_CardinalityType
    <3>2. QED
      BY <3>1 DEF NoLostWakeup, Ready
  <2>2. CASE jobs # <<>> /\ s = "ready"
    <3>1. Cardinality(Ready') = Cardinality(Ready) + 1
      BY <2>2, ReadyComes DEF Busy
    <3>2. (\E v \in Workers : worker'[v] = "waiting") =>
             \E v \in Workers : worker[v] = "waiting"
      BY <2>2 DEF TypeOK
    <3>3. Len(jobs) \in Nat
      BY DEF TypeOK
    <3>4. QED
      BY <3>1, <3>2, <3>3, ReadyIsFinite DEF NoLostWakeup, Ready
  <2>3. CASE jobs # <<>> /\ s # "ready"
    <3>1. Ready' = Ready
      BY <2>3 DEF Ready, TypeOK
    <3>2. (\E v \in Workers : worker'[v] = "waiting") =>
             \E v \in Workers : worker[v] = "waiting"
      BY <2>3 DEF TypeOK
    <3>3. QED
      BY <3>1, <3>2 DEF NoLostWakeup, Ready
  <2>4. QED
    BY <2>1, <2>2, <2>3
<1>5. QED
  BY <1>2, <1>3, <1>4

\* A worker takes the oldest job.
LEMMA TakeJobStep ==
  ASSUME IInv, NEW w \in Workers, TakeJob(w)
  PROVE  TypeOK' /\ ServedOnce' /\ NoLostWakeup' /\ BusyInv'
<1> DEFINE c == Head(jobs)
<1> USE DEF IInv, socket
<1>1. \A i, j \in 1..Len(jobs) : jobs[i] = jobs[j] => i = j
  BY DEF ServedOnce
<1>2. /\ jobs' \in Seq(Conns)
      /\ c \in Queued /\ Queued' = Queued \ {c}
      /\ Len(jobs') = Len(jobs) - 1 /\ Len(jobs) \in Nat \ {0}
      /\ \A i, j \in 1..Len(jobs') : jobs'[i] = jobs'[j] => i = j
  BY <1>1, QueuedTail DEF TakeJob, TypeOK
<1>3. c \in Conns
  BY DEF TakeJob, TypeOK
<1>4. TypeOK'
  <2>1. KeepAliveMax \in 0..KeepAliveMax
    BY ServerAssumption
  <2>2. QED
    BY <1>2, <1>3, <2>1 DEF TakeJob, TypeOK, Busy
<1>5. serving' = [serving EXCEPT ![w] = c] /\ serving[w] = NoConn /\ conn' = conn
  BY DEF TakeJob, BusyInv, Busy
<1>6. c # NoConn /\ (\A v \in Workers : serving[v] # c)
  BY <1>2, <1>3, ServerAssumption DEF ServedOnce
<1>7. {serving'[v] : v \in Workers} \ {NoConn} =
        ({serving[v] : v \in Workers} \ {NoConn}) \union {c}
  BY <1>5, <1>6 DEF TypeOK
<1>8. ServedOnce'
  <2>0. hand' = hand /\ c # hand /\ hand \notin Queued
    BY <1>2 DEF TakeJob, ServedOnce
  <2> HIDE DEF c
  <2>1. \A d \in Conns : conn'[d] = "accepted" <=>
          d \in Queued' \union {hand'} \union {serving'[v] : v \in Workers}
    <3> SUFFICES ASSUME NEW d \in Conns
                 PROVE  conn'[d] = "accepted" <=>
                          d \in Queued' \union {hand'} \union {serving'[v] : v \in Workers}
      OBVIOUS
    <3>1. d # NoConn
      BY ServerAssumption
    <3>2. conn[d] = "accepted" <=>
            d \in Queued \union {hand} \union {serving[v] : v \in Workers}
      BY DEF ServedOnce
    <3>3. QED
      BY <1>2, <1>5, <1>7, <2>0, <3>1, <3>2
  <2>2. \A v \in Workers : serving'[v] \notin Queued'
    BY <1>2, <1>5 DEF ServedOnce, TypeOK
  <2>3. \A u, v \in Workers : serving'[u] = serving'[v] /\ u # v => serving'[u] = NoConn
    BY <1>5, <1>6 DEF ServedOnce, TypeOK
  <2>4. hand' \notin Queued' /\ \A v \in Workers : serving'[v] = hand' => hand' = NoConn
    BY <1>2, <1>5, <2>0 DEF ServedOnce, TypeOK
  <2>5. QED
    BY <1>2, <2>1, <2>2, <2>3, <2>4 DEF ServedOnce
<1>9. BusyInv'
  BY <1>5, <1>6 DEF BusyInv, TakeJob, TypeOK, Busy
<1>10. NoLostWakeup'
  <2>1. Cardinality(Ready') = Cardinality(Ready) - 1
    BY ReadyGoes DEF TakeJob
  <2>2. (\E v \in Workers : worker'[v] = "waiting") =>
           \E v \in Workers : worker[v] = "waiting"
    BY DEF TakeJob, TypeOK
  <2>3. QED
    BY <1>2, <2>1, <2>2, ReadyIsFinite DEF NoLostWakeup, Ready
<1>11. QED
  BY <1>4, <1>8, <1>9, <1>10

\* A connection is accepted into the hand of the listening thread.
LEMMA AcceptStep ==
  ASSUME IInv, NEW c \in Conns, Accept(c)
  PROVE  TypeOK' /\ ServedOnce' /\ NoLostWakeup' /\ BusyInv'
<1> USE DEF IInv, Accept, service
<1>1. hand = NoConn /\ hand' = c /\ c # NoConn
  BY ServerAssumption DEF ListenerInv
<1>2. c \notin Queued /\ \A w \in Workers : serving[w] # c
  BY DEF ServedOnce
<1>3. Queued' = Queued
  BY DEF Queued
<1>4. TypeOK'
  BY DEF TypeOK, socket
<1>5. ServedOnce'
  <2>1. ASSUME NEW d \in Conns
        PROVE  conn'[d] = "accepted" <=>
                 d \in Queued' \union {hand'} \union {serving'[v] : v \in Workers}
    <3>1. conn'[d] = IF d = c THEN "accepted" ELSE conn[d]
      BY DEF TypeOK
    <3>2. conn[d] = "accepted" <=>
            d \in Queued \union {hand} \union {serving[v] : v \in Workers}
      BY DEF ServedOnce
    <3>3. d # NoConn
      BY ServerAssumption
    <3>4. QED
      BY <1>1, <1>3, <3>1, <3>2, <3>3
  <2>2. QED
    BY <1>1, <1>2, <1>3, <2>1 DEF ServedOnce
<1>6. QED
  BY <1>4, <1>5 DEF NoLostWakeup, BusyInv

\* It is queued, and a sleeping worker woken for it.
LEMMA EnqueueStep ==
  ASSUME IInv, Enqueue
  PROVE  TypeOK' /\ ServedOnce' /\ NoLostWakeup' /\ BusyInv'
<1> DEFINE c == hand
<1> USE DEF IInv, Enqueue, Push
<1>0. c \in Conns /\ hand' = NoConn
  BY DEF ListenerInv, TypeOK
<1>1. jobs \in Seq(Conns) /\ jobs' = Append(jobs, c) /\ serving' = serving /\ conn' = conn
  BY DEF TypeOK
<1>2. /\ jobs' \in Seq(Conns)
      /\ Queued' = Queued \union {c}
      /\ Len(jobs') = Len(jobs) + 1 /\ Len(jobs) \in Nat
      /\ \A i \in 1..Len(jobs') :
            jobs'[i] = IF i <= Len(jobs) THEN jobs[i] ELSE c
  BY <1>0, <1>1, QueuedAppend
<1>3. /\ c \notin Queued /\ c # NoConn /\ NoConn \notin Queued
      /\ \A w \in Workers : serving[w] # c
  BY <1>0, ServerAssumption DEF ServedOnce, Queued, TypeOK
<1>4. \A w \in Workers : worker[w] = "waiting" => worker[w] \notin Busy
  BY DEF Busy
<1>5. TypeOK'
  BY <1>0, <1>2 DEF TypeOK, socket, Busy
<1>6. ServedOnce'
  <2>1. ASSUME NEW d \in Conns
        PROVE  conn'[d] = "accepted" <=>
                 d \in Queued' \union {hand'} \union {serving'[v] : v \in Workers}
    <3>1. d # NoConn
      BY ServerAssumption
    <3>2. conn[d] = "accepted" <=>
            d \in Queued \union {hand} \union {serving[v] : v \in Workers}
      BY DEF ServedOnce
    <3>3. QED
      BY <1>0, <1>1, <1>2, <3>1, <3>2
  <2>2. \A i, j \in 1..Len(jobs') : jobs'[i] = jobs'[j] => i = j
    <3>1. \A i \in 1..Len(jobs) : jobs[i] # c
      BY <1>3 DEF Queued
    <3>2. \A i, j \in 1..Len(jobs) : jobs[i] = jobs[j] => i = j
      BY DEF ServedOnce
    <3>3. QED
      BY <1>2, <3>1, <3>2
  <2>3. \A v \in Workers : serving'[v] \notin Queued'
    BY <1>1, <1>2, <1>3 DEF ServedOnce
  <2>4. \A u, v \in Workers : serving'[u] = serving'[v] /\ u # v => serving'[u] = NoConn
    BY <1>1 DEF ServedOnce
  <2>5. hand' = NoConn /\ hand' \notin Queued'
    BY <1>0, <1>2, <1>3
  <2>6. QED
    BY <2>1, <2>2, <2>3, <2>4, <2>5 DEF ServedOnce
<1>7. BusyInv'
  BY DEF BusyInv, Busy, TypeOK
<1>8. NoLostWakeup'
  <2>1. CASE \E w \in Workers : /\ worker[w] = "waiting"
                               /\ worker' = [worker EXCEPT ![w] = "ready"]
    <3>1. Cardinality(Ready') = Cardinality(Ready) + 1
      BY <2>1, ReadyComes
    <3>2. Len(jobs) <= Cardinality(Ready)
      BY <2>1 DEF NoLostWakeup, Ready
    <3>3. QED
      BY <1>2, <3>1, <3>2, ReadyIsFinite DEF NoLostWakeup, Ready
  <2>2. CASE (\A w \in Workers : worker[w] # "waiting") /\ UNCHANGED worker
    BY <2>2 DEF NoLostWakeup
  <2>3. QED
    BY <2>1, <2>2
<1>9. QED
  BY <1>5, <1>6, <1>7, <1>8

\* A connection is closed and its worker is ready again.
LEMMA CloseConnStep ==
  ASSUME IInv, NEW w \in Workers, worker[w] \in Busy, CloseConn(w),
         UNCHANGED <<ui, listener, is_running_, socket, pool>>
  PROVE  TypeOK' /\ ServedOnce' /\ NoLostWakeup' /\ BusyInv'
<1> DEFINE c == serving[w]
<1> USE DEF IInv, CloseConn, pool
<1>1. c \in Conns /\ c # NoConn
  BY DEF BusyInv, TypeOK
<1>2. conn[c] = "accepted" /\ c \notin Queued /\ hand # c /\ hand' = hand
  BY <1>1 DEF ServedOnce
<1>3. Queued' = Queued
  BY DEF Queued
<1>4. serving' = [serving EXCEPT ![w] = NoConn]
  OBVIOUS
<1>5. TypeOK'
  <2>1. 0 \in 0..KeepAliveMax
    BY ServerAssumption
  <2>2. QED
    BY <1>1, <2>1 DEF TypeOK, Busy, socket
<1>6. ServedOnce'
  <2>1. ASSUME NEW d \in Conns
        PROVE  conn'[d] = "accepted" <=>
                 d \in Queued' \union {hand'} \union {serving'[v] : v \in Workers}
    <3>1. d # NoConn
      BY ServerAssumption
    <3>2. CASE d = c
      <4>1. \A v \in Workers : serving'[v] # c
        BY <1>1, <1>4 DEF ServedOnce, TypeOK
      <4>2. conn'[d] # "accepted"
        BY <1>1, <3>2 DEF TypeOK
      <4>3. QED
        BY <1>2, <1>3, <3>2, <4>1, <4>2
    <3>3. CASE d # c
      <4>1. conn'[d] = conn[d]
        BY <3>3 DEF TypeOK
      <4>2. d \in {serving'[v] : v \in Workers} <=> d \in {serving[v] : v \in Workers}
        BY <1>4, <3>1, <3>3 DEF TypeOK
      <4>3. QED
        BY <1>3, <4>1, <4>2 DEF ServedOnce
    <3>4. QED
      BY <3>2, <3>3
  <2>2. \A v \in Workers : serving'[v] \notin Queued'
    <3>1. NoConn \notin Queued
      BY ServerAssumption DEF Queued, TypeOK
    <3>2. QED
      BY <1>3, <1>4, <3>1 DEF ServedOnce, TypeOK
  <2>3. \A u, v \in Workers : serving'[u] = serving'[v] /\ u # v => serving'[u] = NoConn
    BY <1>4 DEF ServedOnce, TypeOK
  <2>4. hand' \notin Queued' /\ \A v \in Workers : serving'[v] = hand' => hand' = NoConn
    BY <1>2, <1>3, <1>4 DEF ServedOnce, TypeOK
  <2>5. QED
    BY <1>3, <2>1, <2>2, <2>3, <2>4 DEF ServedOnce
<1>7. BusyInv'
  BY DEF BusyInv, TypeOK, Busy
<1>8. NoLostWakeup'
  <2>1. Cardinality(Ready') = Cardinality(Ready) + 1
    BY ReadyComes DEF Busy
  <2>2. (\E v \in Workers : worker'[v] = "waiting") =>
           \E v \in Workers : worker[v] = "waiting"
    BY DEF TypeOK
  <2>3. Len(jobs') = Len(jobs) /\ Len(jobs) \in Nat
    BY DEF TypeOK
  <2>4. QED
    BY <2>1, <2>2, <2>3, ReadyIsFinite DEF NoLostWakeup, Ready
<1>9. QED
  BY <1>5, <1>6, <1>7, <1>8

-----------------------------------------------------------------------------
(***************************************************************************)
(* Every step keeps the invariant.                                         *)
(***************************************************************************)
LEMMA NextIInv == IInv /\ [Next]_vars => IInv'
<1> SUFFICES ASSUME IInv, [Next]_vars PROVE IInv'
  OBVIOUS
<1> USE DEF IInv, socket, pool, service
<1>1. CASE StartWebServer \/ StopWebServer \/ Exit \/ UNCHANGED vars
  <2> USE <1>1 DEF StartWebServer, StopWebServer, Exit, vars
  <2>1. TypeOK'
    BY DEF TypeOK
  <2>2. ServedOnce' /\ NoLostWakeup' /\ BusyInv'
    BY PoolCarries
  <2>3. JoinWaitsForWorkOnly' /\ ListenerInv' /\ SocketInv'
    BY DEF JoinWaitsForWorkOnly, ListenerInv, NotListening, Running, SocketInv
  <2>4. QED
    BY <2>1, <2>2, <2>3
<1>2. ASSUME NEW c \in Conns, Connect(c)
      PROVE  IInv'
  <2> USE <1>2 DEF Connect
  <2>1. TypeOK'
    BY DEF TypeOK
  <2>2. ServedOnce' /\ NoLostWakeup' /\ BusyInv'
    BY PoolCarries DEF TypeOK
  <2>3. JoinWaitsForWorkOnly' /\ ListenerInv' /\ SocketInv'
    BY DEF JoinWaitsForWorkOnly, ListenerInv, NotListening, Running, SocketInv,
       TypeOK
  <2>4. QED
    BY <2>1, <2>2, <2>3
<1>3. ASSUME CloseListener, UNCHANGED is_running_
      PROVE  /\ \A c \in Conns : /\ conn'[c] = "accepted" <=> conn[c] = "accepted"
                                 /\ conn'[c] = "closed" <=> conn[c] = "closed"
             /\ conn' \in [Conns -> {"new", "backlog", "refused", "accepted", "closed"}]
             /\ svr_sock_' = "invalid" /\ stopHeld' \in BOOLEAN
             /\ closes' \in Nat /\ acceptError' = acceptError
             /\ svr_sock_ = "invalid" => closes' = closes
             /\ svr_sock_ = "open" => closes' = 1
  BY <1>3 DEF CloseListener, RefuseBacklog, TypeOK, SocketInv
<1>4. CASE UiStop
  <2> USE <1>3, <1>4 DEF UiStop
  <2>1. TypeOK'
    BY DEF TypeOK
  <2>2. ServedOnce' /\ NoLostWakeup' /\ BusyInv'
    BY PoolCarries
  <2>3. JoinWaitsForWorkOnly' /\ ListenerInv'
    BY DEF JoinWaitsForWorkOnly, ListenerInv, NotListening, Running
  <2>4. SocketInv'
    BY DEF SocketInv, TypeOK
  <2>5. QED
    BY <2>1, <2>2, <2>3, <2>4
<1>5. CASE Bind \/ CheckSocket \/ NothingAccepted \/ AcceptFails \/ Shutdown
  <2> USE <1>5 DEF Bind, CheckSocket, NothingAccepted, AcceptFails, Shutdown
  <2>1. TypeOK'
    BY DEF TypeOK
  <2>2. ServedOnce' /\ NoLostWakeup' /\ BusyInv'
    BY PoolCarries
  <2>3. JoinWaitsForWorkOnly' /\ SocketInv'
    BY DEF JoinWaitsForWorkOnly, SocketInv, TypeOK
  <2>4. ListenerInv'
    BY DEF ListenerInv, NotListening, Running
  <2>5. QED
    BY <2>1, <2>2, <2>3, <2>4
<1>6. CASE LeaveAcceptLoop
  <2> USE <1>6 DEF LeaveAcceptLoop
  <2>1. /\ \A c \in Conns : /\ conn'[c] = "accepted" <=> conn[c] = "accepted"
                            /\ conn'[c] = "closed" <=> conn[c] = "closed"
        /\ conn' \in [Conns -> {"new", "backlog", "refused", "accepted", "closed"}]
    BY DEF RefuseBacklog, TypeOK
  <2>2. TypeOK'
    <3>1. closes' \in Nat
      BY DEF TypeOK
    <3>4. acceptError' \in BOOLEAN
      BY Zenon DEF TypeOK
    <3>2. svr_sock_' \in {"invalid", "open", "stale"}
      BY DEF TypeOK
    <3>3. QED
      BY <2>1, <3>1, <3>2, <3>4 DEF TypeOK
  <2>3. ServedOnce' /\ NoLostWakeup' /\ BusyInv'
    BY <2>1, PoolCarries
  <2>4. JoinWaitsForWorkOnly' /\ ListenerInv' /\ SocketInv'
    BY DEF JoinWaitsForWorkOnly, ListenerInv, NotListening, Running, SocketInv,
       TypeOK
  <2>5. QED
    BY <2>2, <2>3, <2>4
<1>7. CASE Listen
  <2> USE <1>7 DEF Listen
  <2>1. TypeOK'
    BY DEF TypeOK
  <2>2. Queued' = Queued
    BY DEF Queued
  <2>3. ServedOnce' /\ NoLostWakeup'
    BY <2>2 DEF ServedOnce, NoLostWakeup
  <2>4. BusyInv'
    BY DEF BusyInv, Busy, ListenerInv, NotListening
  <2>5. JoinWaitsForWorkOnly' /\ ListenerInv' /\ SocketInv'
    BY DEF JoinWaitsForWorkOnly, ListenerInv, NotListening, Running, SocketInv
  <2>6. QED
    BY <2>1, <2>3, <2>4, <2>5
<1>8. ASSUME NEW c \in Conns, Accept(c)
      PROVE  IInv'
  <2>1. TypeOK' /\ ServedOnce' /\ NoLostWakeup' /\ BusyInv'
    BY <1>8, AcceptStep
  <2>2. JoinWaitsForWorkOnly' /\ SocketInv'
    BY <1>8 DEF Accept, JoinWaitsForWorkOnly, SocketInv
  <2>3. ListenerInv'
    BY <1>8, ServerAssumption DEF Accept, ListenerInv, NotListening, Running, TypeOK
  <2>4. QED
    BY <2>1, <2>2, <2>3
<1>18. CASE Enqueue
  <2>1. TypeOK' /\ ServedOnce' /\ NoLostWakeup' /\ BusyInv'
    BY <1>18, EnqueueStep
  <2>2. JoinWaitsForWorkOnly' /\ SocketInv'
    BY <1>18 DEF Enqueue, Push, JoinWaitsForWorkOnly, SocketInv
  <2>3. ListenerInv'
    BY <1>18 DEF Enqueue, Push, ListenerInv, NotListening, Running, TypeOK
  <2>4. QED
    BY <2>1, <2>2, <2>3
<1>9. CASE NotifyAll
  <2> USE <1>9 DEF NotifyAll
  <2>1. TypeOK'
    BY DEF TypeOK
  <2>2. Queued' = Queued
    BY DEF Queued
  <2>3. ServedOnce' /\ NoLostWakeup'
    BY <2>2 DEF ServedOnce, NoLostWakeup
  <2>4. BusyInv'
    BY DEF BusyInv, Busy
  <2>5. JoinWaitsForWorkOnly' /\ SocketInv'
    BY DEF JoinWaitsForWorkOnly, SocketInv
  <2>6. ListenerInv'
    BY DEF ListenerInv, NotListening, Running
  <2>7. QED
    BY <2>1, <2>3, <2>4, <2>5, <2>6
<1>10. CASE Join
  <2> USE <1>10 DEF Join
  <2>1. TypeOK'
    BY DEF TypeOK
  <2>2. ServedOnce' /\ NoLostWakeup' /\ BusyInv'
    BY PoolCarries
  <2>3. JoinWaitsForWorkOnly' /\ ListenerInv' /\ SocketInv'
    BY DEF JoinWaitsForWorkOnly, ListenerInv, NotListening, Running, SocketInv
  <2>4. QED
    BY <2>1, <2>2, <2>3
<1>11. ASSUME NEW w \in Workers, TakeJob(w)
       PROVE  IInv'
  <2>1. TypeOK' /\ ServedOnce' /\ NoLostWakeup' /\ BusyInv'
    BY <1>11, TakeJobStep
  <2>2. JoinWaitsForWorkOnly' /\ SocketInv'
    BY <1>11 DEF TakeJob, JoinWaitsForWorkOnly, SocketInv, TypeOK
  <2>3. ListenerInv'
    BY <1>11 DEF TakeJob, ListenerInv, NotListening, Running, TypeOK
  <2>4. QED
    BY <2>1, <2>2, <2>3
<1>12. ASSUME NEW w \in Workers, NEW s \in Busy \union {"ready", "waiting", "exited"},
              s \in Busy <=> worker[w] \in Busy,
              worker' = [worker EXCEPT ![w] = s],
              worker[w] \notin {"unborn", "exited"},
              worker[w] = "ready" => jobs = <<>>,
              s = "waiting" => jobs = <<>> /\ ~shutdown_,
              s = "exited" => jobs = <<>> /\ shutdown_,
              count' \in [Workers -> 0..KeepAliveMax],
              UNCHANGED <<ui, listener, is_running_, hand, jobs, shutdown_, serving>>,
              CloseListener \/ UNCHANGED <<socket, conn>>
       PROVE  IInv'
  <2>1. \A c \in Conns : conn'[c] = "accepted" <=> conn[c] = "accepted"
    BY <1>3, <1>12
  <2>8. \A c \in Conns : conn'[c] = "closed" <=> conn[c] = "closed"
    BY <1>3, <1>12
  <2>2. TypeOK'
    BY <1>3, <1>12 DEF TypeOK
  <2>3. ServedOnce' /\ NoLostWakeup' /\ BusyInv'
    <3>1. UNCHANGED <<hand, jobs, serving>> /\ (s = "waiting" => jobs = <<>>)
      BY <1>12
    <3>2. QED
      BY <1>12, <2>1, <3>1, WorkerMoves
  <2>4. SocketInv'
    BY <1>3, <1>12 DEF SocketInv, TypeOK
  <2>5. JoinWaitsForWorkOnly'
    BY <1>12 DEF JoinWaitsForWorkOnly, ListenerInv, TypeOK
  <2>6. ListenerInv'
    BY <1>12, <2>1, <2>8 DEF ListenerInv, NotListening, Running, TypeOK, Busy
  <2>7. QED
    BY <2>2, <2>3, <2>4, <2>5, <2>6
<1>13. ASSUME NEW w \in Workers,
              WaitForJob(w) \/ SpuriousWakeup(w) \/ ExitWorker(w)
       PROVE  IInv'
  BY <1>12, <1>13 DEF WaitForJob, SpuriousWakeup, ExitWorker, Busy, TypeOK
<1>14. ASSUME NEW w \in Workers,
              HandleRequest(w) \/ HandleStop(w) \/ WorkerStop(w)
       PROVE  IInv'
  BY <1>12, <1>14 DEF HandleRequest, HandleStop, WorkerStop, Busy, TypeOK
<1>15. ASSUME NEW w \in Workers, worker[w] \in Busy, CloseConn(w),
              UNCHANGED <<ui, listener, is_running_, socket, pool>>
       PROVE  IInv'
  <2>1. TypeOK' /\ ServedOnce' /\ NoLostWakeup' /\ BusyInv'
    BY <1>15, CloseConnStep
  <2>2. JoinWaitsForWorkOnly' /\ SocketInv'
    BY <1>15 DEF CloseConn, JoinWaitsForWorkOnly, SocketInv, TypeOK
  <2>3. ListenerInv'
    BY <1>15 DEF CloseConn, ListenerInv, NotListening, Running, TypeOK, Busy
  <2>4. QED
    BY <2>1, <2>2, <2>3
<1>16. ASSUME NEW w \in Workers, Respond(w) \/ KeepAliveEnds(w)
       PROVE  IInv'
  <2>1. CASE CloseConn(w) /\ UNCHANGED <<ui, listener, is_running_, socket, pool>>
    BY <1>15, <1>16, <2>1 DEF Respond, KeepAliveEnds, Busy
  <2>2. CASE /\ worker[w] = "answering" /\ count[w] > 1
             /\ count' = [count EXCEPT ![w] = count[w] - 1]
             /\ worker' = [worker EXCEPT ![w] = "reading"]
             /\ UNCHANGED <<serving, conn, ui, listener, is_running_, socket, pool>>
    <3>1. count' \in [Workers -> 0..KeepAliveMax]
      BY <2>2, ServerAssumption DEF TypeOK
    <3>2. QED
      BY <1>12, <2>2, <3>1 DEF Busy
  <2>3. QED
    BY <1>16, <2>1, <2>2 DEF Respond, KeepAliveEnds
<1>17. QED
  BY <1>1, <1>2, <1>4, <1>5, <1>6, <1>7, <1>8, <1>9, <1>10, <1>11, <1>13, <1>14,
     <1>16, <1>18 DEF Next, Listener, Worker, PoolStep, RequestStep

-----------------------------------------------------------------------------
(***************************************************************************)
(* Every variable keeps its type, for any pool and any set of connections. *)
(***************************************************************************)
THEOREM TypeCorrect == Spec => []TypeOK
<1>1. IInv => TypeOK
  BY DEF IInv
<1>2. QED
  BY <1>1, InitIInv, NextIInv, PTL DEF Spec

(***************************************************************************)
(* The accept loop, enqueue and the workers' pop neither lose a connection *)
(* nor serve one twice.                                                    *)
(***************************************************************************)
THEOREM ConnectionsServedOnce == Spec => []ServedOnce
<1>1. IInv => ServedOnce
  BY DEF IInv
<1>2. QED
  BY <1>1, InitIInv, NextIInv, PTL DEF Spec

(***************************************************************************)
(* No notification of the pool's condition variable is lost, neither that  *)
(* of enqueue nor that of shutdown.                                        *)
(***************************************************************************)
THEOREM NoWakeupIsLost == Spec => [](NoLostWakeup /\ JoinWaitsForWorkOnly)
<1>1. IInv => NoLostWakeup /\ JoinWaitsForWorkOnly
  BY DEF IInv
<1>2. QED
  BY <1>1, InitIInv, NextIInv, PTL DEF Spec

LEMMA QuietAtTheEnd == IInv => EndedMeansQuiet
<1> SUFFICES ASSUME IInv, listener = "ended"
             PROVE  /\ jobs = <<>>
                    /\ \A c \in Conns : conn[c] # "accepted"
                    /\ \A w \in Workers : worker[w] = "exited"
  BY DEF EndedMeansQuiet
<1>1. (\A w \in Workers : worker[w] = "exited") /\ jobs = <<>> /\ hand = NoConn
  BY ServerAssumption DEF IInv, ListenerInv
<1>2. Queued = {}
  BY <1>1 DEF Queued
<1>3. \A w \in Workers : serving[w] = NoConn
  BY <1>1 DEF IInv, BusyInv, Busy
<1>4. QED
  BY <1>1, <1>2, <1>3, ServerAssumption DEF IInv, ServedOnce

(***************************************************************************)
(* When is_running_ falls no accepted connection is left anywhere.         *)
(***************************************************************************)
THEOREM QuietWhenEnded == Spec => []EndedMeansQuiet
  BY QuietAtTheEnd, InitIInv, NextIInv, PTL DEF Spec

(***************************************************************************)
(* Any number of concurrent calls of stop() closes the listening handle    *)
(* once, unless accept has failed of itself.                               *)
(***************************************************************************)
THEOREM HandleClosedOnce == Spec => []ClosedOnce
<1>1. IInv => ClosedOnce
  BY DEF IInv, TypeOK, SocketInv, ClosedOnce
<1>2. QED
  BY <1>1, InitIInv, NextIInv, PTL DEF Spec

-----------------------------------------------------------------------------
LEMMA ServiceInit == Init => Service!Init
<1> SUFFICES ASSUME Init PROVE Service!Init
  OBVIOUS
<1>1. Stage = "idle" /\ Accepted = {} /\ Finished = {}
  BY DEF Init, Stage, Accepted, Finished
<1>2. QED
  BY <1>1 DEF Service!Init

\* A worker that closes its connection finishes it.
LEMMA ServiceFinish ==
  ASSUME IInv, NEW w \in Workers, worker[w] \in Busy, CloseConn(w),
         UNCHANGED listener
  PROVE  Service!Next
<1> DEFINE c == serving[w]
<1>1. c \in Conns /\ conn[c] = "accepted"
  BY ServerAssumption DEF IInv, BusyInv, TypeOK, ServedOnce
<1>2. Stage \in {"open", "draining"} /\ Stage' = Stage
  BY DEF IInv, TypeOK, ListenerInv, Busy, NotListening, Stage
<1>3. Accepted' = Accepted /\ Finished' = Finished \union {c}
  BY <1>1 DEF CloseConn, IInv, TypeOK, Accepted, Finished
<1>4. c \in Accepted \ Finished
  BY <1>1 DEF Accepted, Finished
<1>5. Service!Finish(c)
  BY <1>2, <1>3, <1>4 DEF Service!Finish
<1>6. QED
  BY <1>1, <1>5 DEF Service!Next

LEMMA ServiceNext == IInv /\ [Next]_vars => [Service!Next]_(Service!vars)
<1> SUFFICES ASSUME IInv, [Next]_vars
             PROVE  Service!Next \/ UNCHANGED Service!vars
  OBVIOUS
<1> USE DEF socket, pool, service
<1>1. ASSUME UNCHANGED <<listener, conn>>
      PROVE  UNCHANGED Service!vars
  BY <1>1 DEF Service!vars, Stage, Accepted, Finished
<1>2. ASSUME conn' = RefuseBacklog \/ UNCHANGED conn
      PROVE  UNCHANGED <<Accepted, Finished>>
  BY <1>2 DEF RefuseBacklog, Accepted, Finished, IInv, TypeOK
<1>3. ASSUME CloseListener, UNCHANGED listener
      PROVE  UNCHANGED Service!vars
  BY <1>2, <1>3 DEF CloseListener, Service!vars, Stage
<1>4. CASE StopWebServer \/ Exit \/ UNCHANGED vars
  BY <1>1, <1>4 DEF StopWebServer, Exit, vars
<1>5. CASE UiStop
  BY <1>3, <1>5 DEF UiStop
<1>6. CASE StartWebServer \/ Bind \/ NothingAccepted \/ AcceptFails \/ Shutdown
           \/ NotifyAll
  <2>1. Stage' = Stage
    BY <1>6 DEF StartWebServer, Bind, NothingAccepted, AcceptFails, Shutdown,
       NotifyAll, IInv, ListenerInv, Stage
  <2>2. UNCHANGED conn
    BY <1>6 DEF StartWebServer, Bind, NothingAccepted, AcceptFails, Shutdown,
       NotifyAll
  <2>3. QED
    BY <1>2, <2>1, <2>2 DEF Service!vars
<1>7. CASE Listen
  <2>1. Stage = "idle" /\ Stage' = "open"
    BY <1>7 DEF Listen, Stage
  <2>2. QED
    BY <1>2, <1>7, <2>1 DEF Listen, Service!Next, Service!Open
<1>8. CASE CheckSocket \/ LeaveAcceptLoop
  <2>1. UNCHANGED <<Accepted, Finished>>
    BY <1>2, <1>8 DEF CheckSocket, LeaveAcceptLoop
  <2>2. Stage = "open" /\ Stage' \in {"open", "draining"}
    BY <1>8 DEF CheckSocket, LeaveAcceptLoop, Stage
  <2>3. QED
    BY <2>1, <2>2 DEF Service!Next, Service!Drain, Service!vars
<1>9. ASSUME NEW c \in Conns, Accept(c)
      PROVE  Service!Next
  <2>1. Stage = "open" /\ Stage' = "open"
    BY <1>9 DEF Accept, Stage
  <2>2. /\ c \notin Accepted /\ Accepted' = Accepted \union {c}
        /\ Finished' = Finished
    BY <1>9 DEF Accept, IInv, TypeOK, Accepted, Finished
  <2>3. QED
    BY <1>9, <2>1, <2>2 DEF Service!Next, Service!Accept
<1>16. CASE Enqueue
  <2>1. Stage = "open" /\ Stage' = "open" /\ UNCHANGED conn
    BY <1>16 DEF Enqueue, Stage
  <2>2. QED
    BY <1>2, <2>1 DEF Service!vars
<1>10. CASE Join
  <2>1. Stage = "draining" /\ Stage' = "ended"
    BY <1>10 DEF Join, Stage
  <2>2. Queued = {} /\ hand = NoConn /\ \A w \in Workers : serving[w] = NoConn
    BY <1>10, ServerAssumption DEF Join, IInv, ListenerInv, BusyInv, Busy, Queued
  <2>3. \A c \in Conns : conn[c] # "accepted"
    BY <2>2, ServerAssumption DEF IInv, ServedOnce
  <2>4. QED
    BY <1>2, <1>10, <2>1, <2>3
       DEF Join, Accepted, Finished, Service!Next, Service!End
<1>11. ASSUME NEW w \in Workers,
              \/ TakeJob(w) \/ WaitForJob(w) \/ SpuriousWakeup(w) \/ ExitWorker(w)
              \/ HandleRequest(w) \/ HandleStop(w)
       PROVE  UNCHANGED Service!vars
  BY <1>1, <1>11 DEF TakeJob, WaitForJob, SpuriousWakeup, ExitWorker,
     HandleRequest, HandleStop
<1>12. ASSUME NEW w \in Workers, WorkerStop(w)
       PROVE  UNCHANGED Service!vars
  BY <1>3, <1>12 DEF WorkerStop
<1>13. ASSUME NEW w \in Workers, Respond(w) \/ KeepAliveEnds(w)
       PROVE  Service!Next \/ UNCHANGED Service!vars
  <2>1. CASE CloseConn(w)
    BY <1>13, <2>1, ServiceFinish DEF Respond, KeepAliveEnds, Busy
  <2>2. CASE UNCHANGED conn
    BY <1>1, <1>13, <2>2 DEF Respond, KeepAliveEnds
  <2>3. QED
    BY <1>13, <2>1, <2>2 DEF Respond, KeepAliveEnds
<1>14. ASSUME NEW c \in Conns, Connect(c)
       PROVE  UNCHANGED Service!vars
  <2>1. Accepted' = Accepted /\ Finished' = Finished
    BY <1>14 DEF Connect, IInv, TypeOK, Accepted, Finished
  <2>2. QED
    BY <1>14, <2>1 DEF Connect, Service!vars, Stage
<1>15. QED
  BY <1>4, <1>5, <1>6, <1>7, <1>8, <1>9, <1>10, <1>11, <1>12, <1>13, <1>14, <1>16
     DEF Next, Listener, Worker, PoolStep, RequestStep

(***************************************************************************)
(* Accept loop, pool and shutdown implement ConnectionService, whatever    *)
(* the number of workers and connections.                                  *)
(***************************************************************************)
THEOREM ServerImplementsService == Spec => ImplementsService
<1>1. Spec => []IInv
  BY InitIInv, NextIInv, PTL DEF Spec
<1>2. QED
  BY <1>1, ServiceInit, ServiceNext, PTL DEF Spec, ImplementsService, Service!Spec

-----------------------------------------------------------------------------
(***************************************************************************)
(* A server whose socket is closed has only so many steps to take.         *)
(***************************************************************************)
\* One worker moves and the others keep what they have to do.
LEMMA WorkerRunsDown ==
  ASSUME IInv, NEW w \in Workers, Worker(w) \/ SpuriousWakeup(w), listener = "join"
  PROVE  \/ Len(jobs') < Len(jobs)
         \/ /\ jobs' = jobs
            /\ \A v \in Workers :
                 \/ worker'[v] = worker[v] /\ count'[v] = count[v]
                 \/ WorkLeft(v)' < WorkLeft(v)
<1> USE DEF IInv, pool, service
<1>1. count[w] \in Nat /\ w \in DOMAIN worker /\ w \in DOMAIN count
  BY ServerAssumption DEF TypeOK
<1>2. ASSUME NEW s, NEW n \in Nat, jobs' = jobs,
             worker' = [worker EXCEPT ![w] = s],
             count' = [count EXCEPT ![w] = n],
             WorkLeft(w)' < WorkLeft(w)
      PROVE  /\ jobs' = jobs
             /\ \A v \in Workers :
                  \/ worker'[v] = worker[v] /\ count'[v] = count[v]
                  \/ WorkLeft(v)' < WorkLeft(v)
  BY <1>2 DEF TypeOK
<1>3. CASE TakeJob(w)
  <2>1. jobs \in Seq(Conns) /\ jobs # <<>> /\ jobs' = Tail(jobs)
    BY <1>3 DEF TakeJob, TypeOK
  <2>2. Len(jobs') < Len(jobs)
    BY <2>1
  <2> QED BY <2>2
<1>4. ~WaitForJob(w) /\ ~SpuriousWakeup(w)
  BY DEF WaitForJob, SpuriousWakeup, ListenerInv, JoinWaitsForWorkOnly
<1>5. CASE ExitWorker(w)
  <2>1. /\ worker[w] = "ready" /\ worker' = [worker EXCEPT ![w] = "exited"]
        /\ jobs' = jobs /\ count' = count
    BY <1>5 DEF ExitWorker
  <2>2. WorkLeft(w)' < WorkLeft(w) /\ count' = [count EXCEPT ![w] = count[w]]
    BY <1>1, <2>1 DEF WorkLeft, TypeOK
  <2> QED BY <1>1, <1>2, <2>1, <2>2
<1>6. CASE HandleRequest(w) \/ HandleStop(w) \/ WorkerStop(w)
  <2>1. PICK s \in {"answering", "stopping"} :
          /\ worker' = [worker EXCEPT ![w] = s]
          /\ worker[w] = "reading" \/ (worker[w] = "stopping" /\ s = "answering")
    BY <1>6 DEF HandleRequest, HandleStop, WorkerStop
  <2>2. jobs' = jobs /\ count' = count
    BY <1>6 DEF HandleRequest, HandleStop, WorkerStop
  <2>3. worker'[w] = s /\ count'[w] = count[w] /\ count' = [count EXCEPT ![w] = count[w]]
    BY <1>1, <2>1, <2>2 DEF TypeOK
  <2>4. WorkLeft(w)' < WorkLeft(w)
    BY <1>1, <2>1, <2>3 DEF WorkLeft
  <2> QED BY <1>1, <1>2, <2>1, <2>2, <2>3, <2>4
<1>7. CASE Respond(w) \/ KeepAliveEnds(w)
  <2>1. worker[w] \in {"reading", "answering"} /\ jobs' = jobs
    BY <1>7 DEF Respond, KeepAliveEnds
  <2>2. CASE CloseConn(w)
    <3>1. worker' = [worker EXCEPT ![w] = "ready"] /\ count' = [count EXCEPT ![w] = 0]
      BY <2>2 DEF CloseConn
    <3>2. WorkLeft(w)' < WorkLeft(w)
      BY <1>1, <2>1, <3>1 DEF WorkLeft
    <3> QED BY <1>2, <2>1, <3>1, <3>2
  <2>3. CASE /\ count[w] > 1 /\ worker[w] = "answering"
             /\ count' = [count EXCEPT ![w] = count[w] - 1]
             /\ worker' = [worker EXCEPT ![w] = "reading"]
    <3>1. count[w] - 1 \in Nat
      BY <1>1, <2>3
    <3>2. worker'[w] = "reading" /\ count'[w] = count[w] - 1
      BY <1>1, <2>3
    <3>3. WorkLeft(w)' < WorkLeft(w)
      BY <1>1, <2>3, <3>1, <3>2 DEF WorkLeft
    <3> QED BY <1>2, <2>1, <2>3, <3>1, <3>3
  <2> QED BY <1>7, <2>2, <2>3 DEF Respond, KeepAliveEnds
<1> QED BY <1>3, <1>4, <1>5, <1>6, <1>7 DEF Worker, PoolStep, RequestStep

\* With its socket closed the listening thread accepts nothing more, and has
\* the shutdown before it.
LEMMA ListenerRunsDown ==
  ASSUME IInv, Next, is_running_, svr_sock_ # "open"
  PROVE  /\ svr_sock_' # "open"
         /\ listener' # listener => ListenerLeft' < ListenerLeft
         /\ Waiting' <= Waiting
<1> USE DEF pool, service, socket
<1>0. ASSUME UNCHANGED hand, Len(jobs') \in Nat, Len(jobs') <= Len(jobs)
      PROVE  Waiting' <= Waiting
  BY <1>0 DEF Waiting, IInv, TypeOK
<1>1. /\ listener \in Running /\ jobs \in Seq(Conns) /\ Len(jobs) \in Nat
      /\ listener = "loop" => svr_sock_ = "invalid"
      /\ ui # "launch"
  BY DEF IInv, TypeOK, ListenerInv, SocketInv, Running
<1>2. ~StartWebServer /\ ~Bind /\ ~Listen
  BY <1>1 DEF StartWebServer, Bind, Listen, Running
<1>3. ~(\E c \in Conns : Accept(c) \/ Connect(c))
  BY DEF Accept, Connect
<1>4. CASE StopWebServer \/ UiStop \/ Exit
  <2>1. jobs' = jobs /\ hand' = hand /\ listener' = listener
    BY <1>4 DEF StopWebServer, UiStop, Exit
  <2>2. svr_sock_' \in {svr_sock_, "invalid"}
    BY <1>4 DEF StopWebServer, UiStop, Exit, CloseListener
  <2> QED BY <1>0, <1>1, <2>1, <2>2
<1>5. /\ listener \in {"accept", "enqueue"} => ListenerLeft = 5
      /\ listener \in {"loop", "broken"} => ListenerLeft = 4
      /\ listener = "shutdown" => ListenerLeft = 3
      /\ listener = "notify" => ListenerLeft = 2
      /\ listener = "join" => ListenerLeft = 1
  BY Zenon DEF ListenerLeft
<1>6. /\ listener' \in {"loop", "broken"} => ListenerLeft' = 4
      /\ listener' = "shutdown" => ListenerLeft' = 3
      /\ listener' = "notify" => ListenerLeft' = 2
      /\ listener' = "join" => ListenerLeft' = 1
      /\ listener' = "ended" => ListenerLeft' = 0
  BY Zenon DEF ListenerLeft
<1>7. CASE CheckSocket \/ NothingAccepted \/ AcceptFails \/ LeaveAcceptLoop
  <2>1. jobs' = jobs /\ hand' = hand /\ svr_sock_' # "open"
    BY <1>7 DEF CheckSocket, NothingAccepted, AcceptFails, LeaveAcceptLoop
  <2>2. \/ listener = "accept" /\ listener' \in {"loop", "broken"}
        \/ listener \in {"loop", "broken"} /\ listener' = "shutdown"
    BY <1>1, <1>7 DEF CheckSocket, NothingAccepted, AcceptFails, LeaveAcceptLoop
  <2>3. ListenerLeft' < ListenerLeft
    BY <1>5, <1>6, <2>2
  <2> QED BY <1>0, <1>1, <2>1, <2>3
<1>10. CASE Enqueue
  <2>1. /\ hand # NoConn /\ hand' = NoConn /\ Len(jobs') = Len(jobs) + 1
        /\ UNCHANGED svr_sock_
    BY <1>1, <1>10 DEF Enqueue, Push, IInv, ListenerInv, TypeOK
  <2>2. Waiting' <= Waiting
    BY <1>1, <2>1 DEF Waiting
  <2>3. ListenerLeft' < ListenerLeft
    BY <1>5, <1>6, <1>10 DEF Enqueue
  <2> QED BY <2>1, <2>2, <2>3
<1>8. CASE Shutdown \/ NotifyAll \/ Join
  <2>1. jobs' = jobs /\ hand' = hand /\ svr_sock_' = svr_sock_
    BY <1>8 DEF Shutdown, NotifyAll, Join
  <2>2. \/ listener = "shutdown" /\ listener' = "notify"
        \/ listener = "notify" /\ listener' = "join"
        \/ listener = "join" /\ listener' = "ended"
    BY <1>8 DEF Shutdown, NotifyAll, Join
  <2>3. ListenerLeft' < ListenerLeft
    BY <1>5, <1>6, <2>2
  <2> QED BY <1>0, <1>1, <2>1, <2>3
<1>9. ASSUME NEW w \in Workers, Worker(w) \/ SpuriousWakeup(w)
      PROVE  svr_sock_' # "open" /\ listener' = listener /\ Waiting' <= Waiting
  <2>1. CASE TakeJob(w)
    <3>1. jobs # <<>> /\ jobs' = Tail(jobs) /\ UNCHANGED <<hand, listener, svr_sock_>>
      BY <2>1 DEF TakeJob
    <3>2. Len(jobs') <= Len(jobs) /\ Len(jobs') \in Nat
      BY <1>1, <3>1
    <3> QED BY <1>0, <3>1, <3>2
  <2>2. CASE ~TakeJob(w)
    <3>1. jobs' = jobs /\ hand' = hand /\ listener' = listener
      BY <1>9, <2>2
         DEF Worker, PoolStep, RequestStep, WaitForJob, ExitWorker, HandleRequest, HandleStop, WorkerStop,
             Respond, KeepAliveEnds, SpuriousWakeup
    <3>2. svr_sock_' = svr_sock_ \/ svr_sock_' = "invalid"
      BY <1>9, <2>2
         DEF Worker, PoolStep, RequestStep, WaitForJob, ExitWorker, HandleRequest, HandleStop, WorkerStop,
             Respond, KeepAliveEnds, SpuriousWakeup, CloseListener
    <3> QED BY <1>0, <1>1, <3>1, <3>2
  <2> QED BY <2>1, <2>2
<1> QED
  BY <1>2, <1>3, <1>4, <1>7, <1>8, <1>9, <1>10 DEF Next, Listener

\* The joining thread waits, and only workers take steps that count.
LEMMA JoinRunsDown ==
  ASSUME IInv, Next, listener = "join"
  PROVE  \/ Len(jobs') < Len(jobs)
         \/ /\ jobs' = jobs
            /\ \A v \in Workers :
                 \/ worker'[v] = worker[v] /\ count'[v] = count[v]
                 \/ WorkLeft(v)' < WorkLeft(v)
<1> USE DEF pool, service
<1>1. CASE \E w \in Workers : Worker(w) \/ SpuriousWakeup(w)
  BY <1>1, WorkerRunsDown
<1>2. CASE \/ StartWebServer \/ StopWebServer \/ UiStop \/ Exit \/ Join
           \/ \E c \in Conns : Connect(c)
  BY <1>2 DEF StartWebServer, StopWebServer, UiStop, Exit, Join, Connect
<1>3. CASE Listener
  BY <1>2, <1>3 DEF Listener, Bind, Listen, CheckSocket, NothingAccepted, Accept, Enqueue,
                    AcceptFails, LeaveAcceptLoop, Shutdown, NotifyAll
<1> QED BY <1>1, <1>2, <1>3 DEF Next

\* For any pool and any connections: from the close of the listening socket on
\* nothing more is accepted, only what accept had already returned is queued, and
\* every step of the listening thread, and of a worker it joins, leaves less to do
\* (the safety half of StopEnds).
THEOREM StopOnlyRunsDown == Spec => StopRunsDown
<1>1. IInv /\ [Next]_vars =>
        [is_running_ /\ svr_sock_ # "open" =>
           /\ svr_sock_' # "open"
           /\ listener' # listener => ListenerLeft' < ListenerLeft
           /\ Waiting' <= Waiting
           /\ listener = "join" =>
                \/ Len(jobs') < Len(jobs)
                \/ /\ jobs' = jobs
                   /\ \A w \in Workers :
                        \/ worker'[w] = worker[w] /\ count'[w] = count[w]
                        \/ WorkLeft(w)' < WorkLeft(w)]_vars
  BY ListenerRunsDown, JoinRunsDown
<1>2. QED
  BY <1>1, InitIInv, NextIInv, PTL DEF Spec, StopRunsDown

-----------------------------------------------------------------------------
(***************************************************************************)
(* The way of an accepted connection through the queue to its close.       *)
(***************************************************************************)
LEMMA JobMovesUp ==
  ASSUME IInv, Next, NEW i \in 1..Len(jobs)
  PROVE  \/ /\ jobs' = Tail(jobs)
            /\ i > 1 \/ \E w \in Workers : serving[w] = NoConn /\ serving'[w] = jobs[i]
         \/ i <= Len(jobs') /\ jobs'[i] = jobs[i]
<1> USE DEF pool
<1>1. jobs \in Seq(Conns) /\ i \in Nat /\ i >= 1 /\ i <= Len(jobs) /\ Len(jobs) \in Nat
  BY DEF IInv, TypeOK
<1>2. ASSUME NEW w \in Workers, TakeJob(w)
      PROVE  /\ jobs' = Tail(jobs)
             /\ i > 1 \/ \E v \in Workers : serving[v] = NoConn /\ serving'[v] = jobs[i]
  <2>1. serving[w] = NoConn /\ serving'[w] = Head(jobs)
    BY <1>2 DEF TakeJob, IInv, TypeOK, BusyInv, Busy
  <2>2. i = 1 => Head(jobs) = jobs[i]
    BY <1>1
  <2>3. QED
    BY <1>1, <1>2, <2>1, <2>2 DEF TakeJob
<1>3. ASSUME Enqueue
      PROVE  i <= Len(jobs') /\ jobs'[i] = jobs[i]
  <2>1. jobs' = Append(jobs, hand)
    BY <1>3 DEF Enqueue, Push
  <2>2. QED
    BY <1>1, <2>1
<1>4. ASSUME NEW w \in Workers, Worker(w) \/ SpuriousWakeup(w), ~TakeJob(w)
      PROVE  UNCHANGED jobs
  BY <1>4 DEF Worker, PoolStep, RequestStep, WaitForJob, ExitWorker, HandleRequest, HandleStop, WorkerStop, Respond,
              KeepAliveEnds, SpuriousWakeup
<1>5. CASE \/ StartWebServer \/ StopWebServer \/ UiStop \/ Exit
           \/ \E c \in Conns : Connect(c)
  BY <1>1, <1>5 DEF StartWebServer, StopWebServer, UiStop, Exit, Connect
<1>6. CASE Listener
  BY <1>1, <1>3, <1>6 DEF Listener, Bind, Listen, CheckSocket, NothingAccepted, Accept, AcceptFails,
                         LeaveAcceptLoop, Shutdown, NotifyAll, Join
<1>7. QED
  BY <1>1, <1>2, <1>4, <1>5, <1>6 DEF Next

LEMMA ServiceGoesOn ==
  ASSUME IInv, Next, NEW w \in Workers, serving[w] # NoConn
  PROVE  \/ conn'[serving[w]] = "closed"
         \/ /\ serving'[w] = serving[w]
            /\ \/ worker'[w] = worker[w] /\ count'[w] = count[w]
               \/ WorkLeft(w)' < WorkLeft(w)
<1> USE DEF service
<1>1. /\ worker[w] \in Busy /\ count[w] \in Nat /\ serving[w] \in Conns
      /\ worker \in [Workers -> Busy \union {"unborn", "ready", "waiting", "exited"}]
      /\ serving \in [Workers -> Conns \union {NoConn}]
      /\ count \in [Workers -> 0..KeepAliveMax]
      /\ conn \in [Conns -> {"new", "backlog", "refused", "accepted", "closed"}]
      /\ worker[w] \notin {"unborn", "ready", "waiting", "exited"}
  BY ServerAssumption DEF IInv, TypeOK, BusyInv, Busy
<1>2. CASE UNCHANGED service
  BY <1>2
<1>3. CASE Listener
  <2>1. CASE UNCHANGED service
    BY <2>1
  <2>2. CASE Listen
    BY <1>1, <2>2 DEF Listen, IInv, ListenerInv, NotListening, Busy
  <2>3. CASE NotifyAll
    BY <1>1, <2>3 DEF NotifyAll
  <2>4. CASE Enqueue
    BY <1>1, <2>4 DEF Enqueue, Push
  <2>5. QED
    BY <1>3, <2>1, <2>2, <2>3, <2>4
       DEF Listener, Bind, CheckSocket, NothingAccepted, Accept, AcceptFails,
          LeaveAcceptLoop, Shutdown, Join
<1>4. ASSUME NEW v \in Workers, v # w, Worker(v) \/ SpuriousWakeup(v)
      PROVE  serving'[w] = serving[w] /\ worker'[w] = worker[w] /\ count'[w] = count[w]
  BY <1>1, <1>4 DEF Worker, PoolStep, RequestStep, TakeJob, WaitForJob, ExitWorker, HandleRequest, HandleStop, WorkerStop,
                    Respond, KeepAliveEnds, SpuriousWakeup, CloseConn
<1>5. CASE Worker(w) \/ SpuriousWakeup(w)
  <2>1. CASE CloseConn(w)
    BY <1>1, <2>1 DEF CloseConn
  <2>2. CASE HandleRequest(w) \/ HandleStop(w) \/ WorkerStop(w)
    <3>1. PICK s \in {"answering", "stopping"} :
            /\ worker' = [worker EXCEPT ![w] = s]
            /\ worker[w] = "reading" \/ (worker[w] = "stopping" /\ s = "answering")
      BY <2>2 DEF HandleRequest, HandleStop, WorkerStop
    <3>2. serving' = serving /\ count' = count
      BY <2>2 DEF HandleRequest, HandleStop, WorkerStop
    <3>3. worker'[w] = s
      BY <1>1, <3>1
    <3>4. WorkLeft(w)' < WorkLeft(w)
      BY <1>1, <3>1, <3>2, <3>3 DEF WorkLeft
    <3>5. QED
      BY <3>2, <3>4
  <2>3. CASE Respond(w) /\ ~CloseConn(w)
    <3>1. /\ worker[w] = "answering" /\ worker'[w] = "reading" /\ serving' = serving
          /\ count[w] > 1 /\ count'[w] = count[w] - 1
      BY <1>1, <2>3 DEF Respond
    <3>2. WorkLeft(w)' < WorkLeft(w)
      BY <1>1, <3>1 DEF WorkLeft
    <3>3. QED
      BY <3>1, <3>2
  <2>4. QED
    BY <1>1, <1>5, <2>1, <2>2, <2>3
       DEF Worker, PoolStep, RequestStep, TakeJob, WaitForJob, ExitWorker, Respond, KeepAliveEnds, SpuriousWakeup
<1>6. CASE \/ StartWebServer \/ StopWebServer \/ UiStop \/ Exit
           \/ \E c \in Conns : Connect(c)
  BY <1>2, <1>6 DEF StartWebServer, StopWebServer, UiStop, Exit, Connect
<1>7. QED
  BY <1>3, <1>4, <1>5, <1>6 DEF Next

\* What was accepted comes to its turn in order and is then served to its close,
\* for any number of workers and connections, stop or no stop.
THEOREM AcceptedOnlyRunsDown == Spec => AcceptedRunsDown
<1>1. IInv /\ [Next]_vars =>
        [/\ \A i \in 1..Len(jobs) :
              \/ /\ jobs' = Tail(jobs)
                 /\ i > 1 \/ \E w \in Workers : serving[w] = NoConn /\ serving'[w] = jobs[i]
              \/ i <= Len(jobs') /\ jobs'[i] = jobs[i]
         /\ \A w \in Workers :
              serving[w] # NoConn =>
                \/ conn'[serving[w]] = "closed"
                \/ /\ serving'[w] = serving[w]
                   /\ \/ worker'[w] = worker[w] /\ count'[w] = count[w]
                      \/ WorkLeft(w)' < WorkLeft(w)]_vars
  BY JobMovesUp, ServiceGoesOn
<1>2. QED
  BY <1>1, InitIInv, NextIInv, PTL DEF Spec, AcceptedRunsDown

=============================================================================
