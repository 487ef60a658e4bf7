------------------------------ MODULE WebServer ------------------------------
(***************************************************************************)
(* The embedded HTTP server: the thread web_server.cpp detaches, in which  *)
(* httplib listens, its pool of worker threads with their condition        *)
(* variable, the connections of the clients, and the threads that stop the *)
(* server: the UI thread when the last window goes (StopWebServer) and any *)
(* worker that answers /stop.                                              *)
(*                                                                         *)
(* A step is one critical section of the pool's mutex, one access to an    *)
(* atomic of the server, or one request of a connection.  How long a       *)
(* request takes is the matter of its client (HttpConnection) and of the UI*)
(* thread (Bridge).  When the UI thread returns from wWinMain every other  *)
(* thread is gone with it.                                                 *)
(***************************************************************************)
EXTENDS Integers, Sequences, FiniteSets

CONSTANTS
  Conns,          \* connections that clients may open
  Workers,        \* the threads of the pool
  NoConn,         \* a worker that serves no connection
  KeepAliveMax    \* CPPHTTPLIB_KEEPALIVE_MAX_COUNT

ASSUME ServerAssumption ==
  /\ IsFiniteSet(Workers) /\ Workers # {}
  /\ NoConn \notin Conns
  /\ KeepAliveMax \in Nat \ {0}

VARIABLES
  ui,             \* the UI thread
  listener,       \* the thread of httptest
  is_running_,
  svr_sock_,      \* "invalid", "open", or "stale": a handle already closed
  closes,         \* how often the listening handle has been closed
  acceptError,    \* accept has failed on a socket nobody had closed
  stopHeld,       \* every assertion of httplib.h:3194 so far has held
  conn,           \* each connection, from the client to its end
  hand,           \* the connection accepted and not yet queued, or NoConn
  jobs,           \* jobs_ of the pool, oldest first
  shutdown_,
  worker,         \* where each worker is
  serving,        \* the connection a worker is busy with
  count           \* the requests its connection may still make

socket == <<svr_sock_, closes, acceptError, stopHeld>>
pool == <<hand, jobs, shutdown_>>
service == <<worker, serving, count>>
vars == <<ui, listener, is_running_, socket, conn, pool, service>>

Busy == {"reading", "stopping", "answering"}

TypeOK ==
  /\ ui \in {"launch", "serving", "stopping", "left", "exited"}
  /\ listener \in {"off", "bind", "bound", "failed", "loop", "accept",
                   "enqueue", "broken", "shutdown", "notify", "join", "ended"}
  /\ is_running_ \in BOOLEAN
  /\ svr_sock_ \in {"invalid", "open", "stale"}
  /\ closes \in Nat
  /\ acceptError \in BOOLEAN
  /\ stopHeld \in BOOLEAN
  /\ conn \in [Conns -> {"new", "backlog", "refused", "accepted", "closed"}]
  /\ hand \in Conns \union {NoConn}
  /\ jobs \in Seq(Conns)
  /\ shutdown_ \in BOOLEAN
  /\ worker \in [Workers -> Busy \union {"unborn", "ready", "waiting", "exited"}]
  /\ serving \in [Workers -> Conns \union {NoConn}]
  /\ count \in [Workers -> 0..KeepAliveMax]

Init ==
  /\ ui = "launch"
  /\ listener = "off"
  /\ is_running_ = FALSE
  /\ svr_sock_ = "invalid"
  /\ closes = 0
  /\ acceptError = FALSE
  /\ stopHeld = TRUE
  /\ conn = [c \in Conns |-> "new"]
  /\ hand = NoConn
  /\ jobs = <<>>
  /\ shutdown_ = FALSE
  /\ worker = [w \in Workers |-> "unborn"]
  /\ serving = [w \in Workers |-> NoConn]
  /\ count = [w \in Workers |-> 0]

-----------------------------------------------------------------------------
(***************************************************************************)
(* The UI thread.                                                          *)
(***************************************************************************)
StartWebServer ==
  /\ ui = "launch"
  /\ ui' = "serving"
  /\ listener' = "bind"
  /\ UNCHANGED <<is_running_, socket, conn, pool, service>>

\* StopWebServer asks is_running(), and stop() asks once more: what happens
\* between the two is the same as when both were asked before it.
StopWebServer ==
  /\ ui = "serving"
  /\ ui' = IF is_running_ THEN "stopping" ELSE "left"
  /\ UNCHANGED <<listener, is_running_, socket, conn, pool, service>>

\* wWinMain returns and takes the detached threads with it.
Exit ==
  /\ ui = "left"
  /\ ui' = "exited"
  /\ UNCHANGED <<listener, is_running_, socket, conn, pool, service>>

\* The connections still in the backlog of a listening socket that is closed.
RefuseBacklog == [c \in Conns |-> IF conn[c] = "backlog" THEN "refused"
                                  ELSE conn[c]]

\* Mutant: the socket is read and closed, and the atomic left as it was.
CloseWithoutExchange ==
  /\ stopHeld' = (stopHeld /\ svr_sock_ # "invalid")
  /\ closes' = IF svr_sock_ = "invalid" THEN closes ELSE closes + 1
  /\ conn' = RefuseBacklog
  /\ UNCHANGED <<svr_sock_, acceptError>>

\* Server::stop() behind its test of is_running_.
CloseListener ==
  /\ stopHeld' = (stopHeld /\ svr_sock_ # "invalid")
  /\ svr_sock_' = "invalid"
  /\ closes' = IF svr_sock_ = "invalid" THEN closes ELSE closes + 1
  /\ conn' = RefuseBacklog
  /\ UNCHANGED acceptError

UiStop ==
  /\ ui = "stopping"
  /\ ui' = "left"
  /\ CloseListener
  /\ UNCHANGED <<listener, is_running_, pool, service>>

-----------------------------------------------------------------------------
(***************************************************************************)
(* The listening thread.                                                   *)
(***************************************************************************)
Bind ==
  /\ listener = "bind" /\ ui # "exited"
  /\ \/ listener' = "bound" /\ svr_sock_' = "open"
     \/ listener' = "failed" /\ UNCHANGED svr_sock_
  /\ UNCHANGED <<ui, is_running_, closes, acceptError, stopHeld, conn, pool,
                 service>>

\* listen_internal starts the threads of its pool.
Listen ==
  /\ listener = "bound" /\ ui # "exited"
  /\ listener' = "loop"
  /\ is_running_' = TRUE
  /\ worker' = [w \in Workers |-> "ready"]
  /\ UNCHANGED <<ui, socket, conn, pool, serving, count>>

\* The test at the head of the accept loop.
CheckSocket ==
  /\ listener = "loop" /\ ui # "exited"
  /\ listener' = IF svr_sock_ = "invalid" THEN "shutdown" ELSE "accept"
  /\ UNCHANGED <<ui, is_running_, socket, conn, pool, service>>

\* select times out after 100 ms, or accept is out of file descriptors.
NothingAccepted ==
  /\ listener = "accept" /\ ui # "exited"
  /\ listener' = "loop"
  /\ UNCHANGED <<ui, is_running_, socket, conn, pool, service>>

Accept(c) ==
  /\ listener = "accept" /\ ui # "exited"
  /\ svr_sock_ = "open"
  /\ conn[c] = "backlog"
  /\ conn' = [conn EXCEPT ![c] = "accepted"]
  /\ hand' = c
  /\ listener' = "enqueue"
  /\ UNCHANGED <<ui, is_running_, socket, jobs, shutdown_, service>>

\* Mutant: the job is queued and no worker notified.
PushSilently(c) ==
  /\ jobs' = Append(jobs, c)
  /\ UNCHANGED worker

\* ThreadPool::enqueue wakes one of the workers that wait, if any does.
Push(c) ==
  /\ jobs' = Append(jobs, c)
  /\ \/ \E w \in Workers : /\ worker[w] = "waiting"
                           /\ worker' = [worker EXCEPT ![w] = "ready"]
     \/ /\ \A w \in Workers : worker[w] # "waiting"
        /\ UNCHANGED worker

\* What has been accepted is queued, though stop() has come in between.
Enqueue ==
  /\ listener = "enqueue" /\ ui # "exited"
  /\ Push(hand)
  /\ hand' = NoConn
  /\ listener' = "loop"
  /\ UNCHANGED <<ui, is_running_, socket, conn, shutdown_, serving, count>>

\* accept answers INVALID_SOCKET, on a socket that was closed or of itself.
AcceptFails ==
  /\ listener = "accept" /\ ui # "exited"
  /\ listener' = "broken"
  /\ UNCHANGED <<ui, is_running_, socket, conn, pool, service>>

\* A socket nobody has closed is closed now, and svr_sock_ keeps its value.
LeaveAcceptLoop ==
  /\ listener = "broken" /\ ui # "exited"
  /\ listener' = "shutdown"
  /\ \/ /\ svr_sock_ = "open"
        /\ svr_sock_' = "stale"
        /\ closes' = closes + 1
        /\ acceptError' = TRUE
        /\ conn' = RefuseBacklog
     \/ /\ svr_sock_ = "invalid"
        /\ UNCHANGED <<svr_sock_, closes, acceptError, conn>>
  /\ UNCHANGED <<ui, is_running_, stopHeld, pool, service>>

Shutdown ==
  /\ listener = "shutdown" /\ ui # "exited"
  /\ listener' = "notify"
  /\ shutdown_' = TRUE
  /\ UNCHANGED <<ui, is_running_, socket, conn, hand, jobs, service>>

\* Mutant: only one worker is woken.
NotifyOne ==
  /\ listener = "notify" /\ ui # "exited"
  /\ listener' = "join"
  /\ \/ \E w \in Workers : /\ worker[w] = "waiting"
                           /\ worker' = [worker EXCEPT ![w] = "ready"]
     \/ /\ \A w \in Workers : worker[w] # "waiting"
        /\ UNCHANGED worker
  /\ UNCHANGED <<ui, is_running_, socket, conn, pool, serving, count>>

NotifyAll ==
  /\ listener = "notify" /\ ui # "exited"
  /\ listener' = "join"
  /\ worker' = [w \in Workers |-> IF worker[w] = "waiting" THEN "ready"
                                  ELSE worker[w]]
  /\ UNCHANGED <<ui, is_running_, socket, conn, pool, serving, count>>

\* Mutant: the listening thread ends without waiting for its workers.
EndWithoutJoin ==
  /\ listener = "join" /\ ui # "exited"
  /\ listener' = "ended"
  /\ is_running_' = FALSE
  /\ UNCHANGED <<ui, socket, conn, pool, service>>

Join ==
  /\ listener = "join" /\ ui # "exited"
  /\ \A w \in Workers : worker[w] = "exited"
  /\ listener' = "ended"
  /\ is_running_' = FALSE
  /\ UNCHANGED <<ui, socket, conn, pool, service>>

-----------------------------------------------------------------------------
(***************************************************************************)
(* The workers of the pool.                                                *)
(***************************************************************************)
\* Mutant: the job is taken without being removed from the queue.
PeekJob(w) ==
  /\ worker[w] = "ready" /\ ui # "exited"
  /\ jobs # <<>>
  /\ worker' = [worker EXCEPT ![w] = "reading"]
  /\ serving' = [serving EXCEPT ![w] = Head(jobs)]
  /\ count' = [count EXCEPT ![w] = KeepAliveMax]
  /\ UNCHANGED <<ui, listener, is_running_, socket, conn, pool>>

TakeJob(w) ==
  /\ worker[w] = "ready" /\ ui # "exited"
  /\ jobs # <<>>
  /\ jobs' = Tail(jobs)
  /\ worker' = [worker EXCEPT ![w] = "reading"]
  /\ serving' = [serving EXCEPT ![w] = Head(jobs)]
  /\ count' = [count EXCEPT ![w] = KeepAliveMax]
  /\ UNCHANGED <<ui, listener, is_running_, socket, conn, hand, shutdown_>>

\* The worker evaluates the predicate of its condition variable.
WaitForJob(w) ==
  /\ worker[w] = "ready" /\ ui # "exited"
  /\ jobs = <<>> /\ ~shutdown_
  /\ worker' = [worker EXCEPT ![w] = "waiting"]
  /\ UNCHANGED <<ui, listener, is_running_, socket, conn, pool, serving, count>>

\* A condition variable may wake of itself.
SpuriousWakeup(w) ==
  /\ worker[w] = "waiting" /\ ui # "exited"
  /\ worker' = [worker EXCEPT ![w] = "ready"]
  /\ UNCHANGED <<ui, listener, is_running_, socket, conn, pool, serving, count>>

\* Mutant: shutdown alone ends the worker.
ExitAtOnce(w) ==
  /\ worker[w] = "ready" /\ ui # "exited"
  /\ shutdown_
  /\ worker' = [worker EXCEPT ![w] = "exited"]
  /\ UNCHANGED <<ui, listener, is_running_, socket, conn, pool, serving, count>>

ExitWorker(w) ==
  /\ worker[w] = "ready" /\ ui # "exited"
  /\ jobs = <<>> /\ shutdown_
  /\ worker' = [worker EXCEPT ![w] = "exited"]
  /\ UNCHANGED <<ui, listener, is_running_, socket, conn, pool, serving, count>>

\* process_and_close_socket closes the connection and the job is done.
CloseConn(w) ==
  /\ worker' = [worker EXCEPT ![w] = "ready"]
  /\ serving' = [serving EXCEPT ![w] = NoConn]
  /\ count' = [count EXCEPT ![w] = 0]
  /\ conn' = [conn EXCEPT ![serving[w]] = "closed"]

\* The request has been read, or found bad, and a handler other than that of
\* /stop runs.
HandleRequest(w) ==
  /\ worker[w] = "reading" /\ ui # "exited"
  /\ worker' = [worker EXCEPT ![w] = "answering"]
  /\ UNCHANGED <<ui, listener, is_running_, socket, conn, pool, serving, count>>

\* The response is written: the connection is kept for its next request, or
\* it was the last, the client asked to close it, or the write failed.
Respond(w) ==
  /\ worker[w] = "answering" /\ ui # "exited"
  /\ \/ /\ count[w] > 1
        /\ count' = [count EXCEPT ![w] = count[w] - 1]
        /\ worker' = [worker EXCEPT ![w] = "reading"]
        /\ UNCHANGED <<serving, conn>>
     \/ CloseConn(w)
  /\ UNCHANGED <<ui, listener, is_running_, socket, pool>>

\* GET /stop passes the test of is_running_.
HandleStop(w) ==
  /\ worker[w] = "reading" /\ ui # "exited"
  /\ is_running_
  /\ worker' = [worker EXCEPT ![w] = "stopping"]
  /\ UNCHANGED <<ui, listener, is_running_, socket, conn, pool, serving, count>>

\* The rest of stop(), after which the handler returns and the loop of the
\* connection goes on.
WorkerStop(w) ==
  /\ worker[w] = "stopping" /\ ui # "exited"
  /\ CloseListener
  /\ worker' = [worker EXCEPT ![w] = "answering"]
  /\ UNCHANGED <<ui, listener, is_running_, pool, serving, count>>

\* No request within CPPHTTPLIB_KEEPALIVE_TIMEOUT_SECOND, or the client closes,
\* before or in the middle of its request line.
KeepAliveEnds(w) ==
  /\ worker[w] = "reading" /\ ui # "exited"
  /\ CloseConn(w)
  /\ UNCHANGED <<ui, listener, is_running_, socket, pool>>

\* A client connects to the listening socket.
Connect(c) ==
  /\ ui # "exited"
  /\ svr_sock_ = "open"
  /\ conn[c] = "new"
  /\ conn' = [conn EXCEPT ![c] = "backlog"]
  /\ UNCHANGED <<ui, listener, is_running_, socket, pool, service>>

-----------------------------------------------------------------------------
Listener ==
  \/ Bind \/ Listen \/ CheckSocket \/ NothingAccepted
  \/ \E c \in Conns : Accept(c)
  \/ Enqueue
  \/ AcceptFails \/ LeaveAcceptLoop
  \/ Shutdown \/ NotifyAll \/ Join

\* The steps of a worker that depend on nobody but the pool and the socket.
PoolStep(w) == TakeJob(w) \/ WaitForJob(w) \/ ExitWorker(w) \/ WorkerStop(w)

\* The steps that end the reading of a request and its answering.
RequestStep(w) ==
  HandleRequest(w) \/ HandleStop(w) \/ Respond(w) \/ KeepAliveEnds(w)

Worker(w) == PoolStep(w) \/ RequestStep(w)

Next ==
  \/ StartWebServer \/ StopWebServer \/ UiStop \/ Exit
  \/ Listener
  \/ \E w \in Workers : Worker(w) \/ SpuriousWakeup(w)
  \/ \E c \in Conns : Connect(c)

\* The listening thread and the workers run.  Nothing is assumed of users, nor
\* of what a request takes: the time-outs of httplib begin anew with every byte
\* (httplib.h:1155), so that a client may keep a worker as long as it likes.
Fairness ==
  /\ WF_vars(Listener)
  /\ \A w \in Workers : WF_vars(PoolStep(w))

Spec == Init /\ [][Next]_vars

FairSpec == Spec /\ Fairness

-----------------------------------------------------------------------------
(***************************************************************************)
(* Properties.                                                             *)
(***************************************************************************)
Queued == {jobs[i] : i \in 1..Len(jobs)}

\* An accepted connection is in exactly one place, the hand of the listening
\* thread, the queue of the pool or the hands of one worker: accept, enqueue
\* (httplib.h:394, 3557) and the worker's pop lose none and give none to two.
ServedOnce ==
  /\ \A c \in Conns : conn[c] = "accepted" <=>
        c \in Queued \union {hand} \union {serving[w] : w \in Workers}
  /\ hand \notin Queued
  /\ \A w \in Workers : serving[w] \notin Queued
  /\ \A w \in Workers : serving[w] = hand => hand = NoConn
  /\ \A v, w \in Workers : serving[v] = serving[w] /\ v # w => serving[v] = NoConn
  /\ \A i, j \in 1..Len(jobs) : jobs[i] = jobs[j] => i = j

\* While a worker sleeps there is a worker awake for every queued job: no
\* notify_one is lost (httplib.h:397, 425).
NoLostWakeup ==
  (\E w \in Workers : worker[w] = "waiting") =>
    Len(jobs) <= Cardinality({w \in Workers : worker[w] = "ready"})

\* Once the pool has been shut down no worker goes to sleep again, so that
\* the join of httplib.h:411 waits for work only.
JoinWaitsForWorkOnly ==
  listener \in {"join", "ended"} => \A w \in Workers : worker[w] # "waiting"

\* When is_running_ falls (httplib.h:3585) nothing that was accepted is left,
\* neither in the queue nor with a worker.
EndedMeansQuiet ==
  listener = "ended" =>
    /\ jobs = <<>>
    /\ \A c \in Conns : conn[c] # "accepted"
    /\ \A w \in Workers : worker[w] = "exited"

\* However many threads call stop() at once, the listening handle is closed
\* once; only the error path of accept (httplib.h:3567) closes it besides.
ClosedOnce == closes > 1 => acceptError

\* The worker does not come back from a request: its client goes on sending it
\* byte by byte, or does not take the answer, or the handler waits.
Stays(w) == <>[](worker[w] \in {"reading", "answering"})

\* Every accepted connection is served to its end, stop or no stop, unless the
\* process ends, or the connection is itself one that keeps its worker for good,
\* or all workers are kept so: as long as one worker comes back none that waits
\* in the queue is forgotten (httplib.h:394, 425-437).
AcceptedIsServed ==
  \A c \in Conns :
    \/ conn[c] = "accepted" ~> conn[c] = "closed" \/ ui = "exited"
    \/ \E w \in Workers : <>[](serving[w] = c)
    \/ \A w \in Workers : Stays(w)

\* Once the listening socket is closed the listening thread comes to its end,
\* unless some worker it joins never comes back (httplib.h:411).
StopEnds ==
  \/ is_running_ /\ svr_sock_ # "open" ~> ~is_running_ \/ ui = "exited"
  \/ \E w \in Workers : Stays(w)

(***************************************************************************)
(* Why StopEnds holds: what is left to do once the socket is closed.       *)
(***************************************************************************)
ListenerLeft ==
  CASE listener \in {"accept", "enqueue"} -> 5
    [] listener \in {"loop", "broken"} -> 4
    [] listener = "shutdown" -> 3
    [] listener = "notify" -> 2
    [] listener = "join" -> 1
    [] OTHER -> 0

\* The steps a worker may still take with its connection, and to its exit.
WorkLeft(w) ==
  CASE worker[w] = "reading" -> 4 * count[w] + 5
    [] worker[w] = "stopping" -> 4 * count[w] + 4
    [] worker[w] = "answering" -> 4 * count[w] + 3
    [] worker[w] = "ready" -> 2
    [] worker[w] = "waiting" -> 1
    [] OTHER -> 0

\* What is queued, and what has been accepted to be queued.
Waiting == Len(jobs) + (IF hand = NoConn THEN 0 ELSE 1)

\* A socket that is closed stays closed, and nothing more is accepted: but for
\* the one connection that stop() has met between accept and enqueue the queue
\* does not grow.  The listening thread goes through its shutdown without turning
\* back (httplib.h:3539-3585), and while it joins the workers (httplib.h:411) each
\* of their steps takes a job from the queue or brings its worker nearer to its
\* exit.
StopRunsDown ==
  [][is_running_ /\ svr_sock_ # "open" =>
       /\ svr_sock_' # "open"
       /\ listener' # listener => ListenerLeft' < ListenerLeft
       /\ Waiting' <= Waiting
       /\ listener = "join" =>
            \/ Len(jobs') < Len(jobs)
            \/ /\ jobs' = jobs
               /\ \A w \in Workers :
                    \/ worker'[w] = worker[w] /\ count'[w] = count[w]
                    \/ WorkLeft(w)' < WorkLeft(w)]_vars

\* The queue serves in order, and no connection waits for more than those ahead
\* of it: a job stays at its place until the first is taken, by a worker that
\* keeps it until it has closed it, each step bringing it nearer to that; no
\* stop(), however many threads call it, takes a job or a connection away
\* (httplib.h:394, 425-437).
AcceptedRunsDown ==
  [][/\ \A i \in 1..Len(jobs) :
          \/ /\ jobs' = Tail(jobs)
             /\ i > 1 \/ \E w \in Workers : serving[w] = NoConn /\ serving'[w] = jobs[i]
          \/ i <= Len(jobs') /\ jobs'[i] = jobs[i]
     /\ \A w \in Workers :
          serving[w] # NoConn =>
            \/ conn'[serving[w]] = "closed"
            \/ /\ serving'[w] = serving[w]
               /\ \/ worker'[w] = worker[w] /\ count'[w] = count[w]
                  \/ WorkLeft(w)' < WorkLeft(w)]_vars

(***************************************************************************)
(* What the repository says of the code and the code does not keep.        *)
(***************************************************************************)

\* httplib.h:3194 asserts that a running server has its socket.
StopAssertion == stopHeld

(***************************************************************************)
(* The service the server gives to its connections.                        *)
(***************************************************************************)
Stage ==
  CASE listener \in {"off", "bind", "bound", "failed"} -> "idle"
    [] listener \in {"loop", "accept", "enqueue", "broken"} -> "open"
    [] listener \in {"shutdown", "notify", "join"} -> "draining"
    [] listener = "ended" -> "ended"

Accepted == {c \in Conns : conn[c] \in {"accepted", "closed"}}
Finished == {c \in Conns : conn[c] = "closed"}

Service == INSTANCE ConnectionService WITH
  stage <- Stage, accepted <- Accepted, finished <- Finished

\* Accept loop, pool and shutdown together behave as ConnectionService.
ImplementsService == Service!Spec

(***************************************************************************)
(* The inductive invariant of the proofs in WebServer_proofs.              *)
(***************************************************************************)
NotListening == {"off", "bind", "bound", "failed"}
Running == {"loop", "accept", "enqueue", "broken", "shutdown", "notify", "join"}

\* Before the pool exists nothing has been accepted; it ends after shutdown.
ListenerInv ==
  /\ ui = "launch" => listener = "off"
  /\ is_running_ <=> listener \in Running
  /\ shutdown_ <=> listener \in {"notify", "join", "ended"}
  /\ listener \in NotListening <=> \E w \in Workers : worker[w] = "unborn"
  /\ listener \in NotListening =>
        /\ \A w \in Workers : worker[w] = "unborn"
        /\ \A c \in Conns : conn[c] \notin {"accepted", "closed"}
  /\ hand # NoConn <=> listener = "enqueue"
  /\ (\E w \in Workers : worker[w] = "exited") => shutdown_ /\ jobs = <<>>
  /\ listener = "ended" => \A w \in Workers : worker[w] = "exited"

BusyInv == \A w \in Workers : worker[w] \in Busy <=> serving[w] # NoConn

SocketInv ==
  /\ listener \in {"off", "bind", "failed"} => svr_sock_ = "invalid" /\ closes = 0
  /\ svr_sock_ = "open" => closes = 0
  /\ svr_sock_ = "invalid" => closes <= 1 \/ acceptError
  /\ svr_sock_ = "stale" => acceptError
  /\ acceptError => listener \in {"shutdown", "notify", "join", "ended"}

IInv ==
  /\ TypeOK
  /\ ServedOnce
  /\ NoLostWakeup
  /\ JoinWaitsForWorkOnly
  /\ ListenerInv
  /\ BusyInv
  /\ SocketInv

=============================================================================
