------------------------------ MODULE TaskQueue ------------------------------
(***************************************************************************)
(* What a pool of worker threads promises to the code that uses it, and    *)
(* nothing about how: a bounded FIFO of requests, each taken by one worker *)
(* and processed once.  ThreadPool.tla (15-3threadpool.h) implements this  *)
(* specification; HttpServer.tla uses it in place of the pool.             *)
(***************************************************************************)
EXTENDS Naturals, Sequences

CONSTANTS
  Workers,   \* the worker threads
  Requests,  \* the requests that callers hand over
  Capacity,  \* the most requests that may wait at once
  NULL       \* the null pointer: no request

VARIABLES
  pending,   \* the requests accepted and not yet taken, oldest first
  running,   \* running[w]: the request worker w is processing, or NULL
  finished,  \* the requests whose processing has returned
  closed     \* the pool is being taken down

queueVars == <<pending, running, finished, closed>>

Init ==
  /\ pending = <<>>
  /\ running = [w \in Workers |-> NULL]
  /\ finished = {}
  /\ closed = FALSE

(* A caller hands over r; the pool accepts it unless it is full. *)
Submit(r) ==
  /\ ~closed
  /\ Len(pending) < Capacity
  /\ pending' = Append(pending, r)
  /\ UNCHANGED <<running, finished, closed>>

(* An idle worker takes the oldest request.  A null request leaves it idle. *)
Take(w) ==
  /\ running[w] = NULL
  /\ pending # <<>>
  /\ running' = [running EXCEPT ![w] = Head(pending)]
  /\ pending' = Tail(pending)
  /\ UNCHANGED <<finished, closed>>

(* Processing returns. *)
Finish(w) ==
  /\ running[w] # NULL
  /\ finished' = finished \cup {running[w]}
  /\ running' = [running EXCEPT ![w] = NULL]
  /\ UNCHANGED <<pending, closed>>

(* The pool is taken down without waiting for its workers. *)
Close ==
  /\ closed' = TRUE
  /\ UNCHANGED <<pending, running, finished>>

(* Only then may a request that was taken never be finished. *)
Abandon(w) ==
  /\ closed
  /\ running' = [running EXCEPT ![w] = NULL]
  /\ UNCHANGED <<pending, finished, closed>>

Next ==
  \/ \E r \in Requests \cup {NULL} : Submit(r)
  \/ \E w \in Workers : Take(w) \/ Finish(w) \/ Abandon(w)
  \/ Close

Spec == Init /\ [][Next]_queueVars
=============================================================================
