----------------------------- MODULE ThreadPool ------------------------------
(***************************************************************************)
(* The half-sync/half-async thread pool: a list of requests guarded by one *)
(* mutex (locker), a semaphore (sem) that counts the requests a worker may *)
(* come for, and detached worker threads that run until m_stop is seen.    *)
(* Every lock, list access, unlock and semaphore operation is a step of    *)
(* its own, so every interleaving of callers and workers is explored.      *)
(*                                                                         *)
(* The request's own process() is code of the pool's user; here it is one  *)
(* step that returns.  A null request is legal and is skipped.             *)
(*                                                                         *)
(* A definition marked Variant is no part of the specification: it is what *)
(* the definition after it would be with a defect, kept to see the         *)
(* properties fail.                                                        *)
(***************************************************************************)
EXTENDS Naturals, Sequences, FiniteSets

CONSTANTS
  Producers,      \* the threads that call append
  Workers,        \* the threads the constructor creates (thread_number)
  Requests,       \* the requests; each is handed to append at most once
  MaxRequests,    \* max_requests
  MaxInterrupts,  \* bound: how many times sem_wait returns with EINTR
  NULL            \* the null pointer, and "no thread" for the mutex

PoolAssumption ==
  /\ IsFiniteSet(Workers) /\ Workers # {}          \* thread_number > 0
  /\ IsFiniteSet(Producers)
  /\ Producers \cap Workers = {}
  /\ MaxRequests \in Nat \ {0}                     \* max_requests > 0
  /\ MaxInterrupts \in Nat
  /\ NULL \notin Producers \cup Workers \cup Requests

Threads == Producers \cup Workers

VARIABLES
  life,         \* "building", "ready", "stopping" or "destroyed"
  m_stop,
  m_workqueue,
  lockOwner,    \* the thread inside m_queuelocker, or NULL
  m_queuestat,  \* the semaphore's value
  ppc, preq,    \* per caller: where it is in append, and its argument
  wpc, wreq,    \* per worker: where it is in run, and its local request
  interrupts,   \* how often a wait was interrupted so far
  unsent,       \* the requests (and NULL) no caller has handed over yet
  refused,      \* the requests append returned false for
  finished      \* the requests whose process() returned

poolVars == <<life, m_stop, m_workqueue, lockOwner, m_queuestat>>
producerVars == <<ppc, preq>>
workerVars == <<wpc, wreq>>
historyVars == <<interrupts, unsent, refused, finished>>
vars == <<poolVars, producerVars, workerVars, historyVars>>

ProducerPCs == {"idle", "lock", "check", "push", "unlock", "post"}
WorkerPCs == {"unborn", "test", "wait", "lock", "empty", "front", "popfront",
              "unlock", "process", "exited", "undefined"}

Init ==
  /\ life = "building"
  /\ m_stop = FALSE
  /\ m_workqueue = <<>>
  /\ lockOwner = NULL
  /\ m_queuestat = 0
  /\ ppc = [p \in Producers |-> "idle"]
  /\ preq = [p \in Producers |-> NULL]
  /\ wpc = [w \in Workers |-> "unborn"]
  /\ wreq = [w \in Workers |-> NULL]
  /\ interrupts = 0
  /\ unsent = Requests \cup {NULL}
  /\ refused = {}
  /\ finished = {}
-----------------------------------------------------------------------------
(* The constructor and the destructor, run by the thread that owns the pool. *)

(* pthread_create and pthread_detach succeed: the new thread runs at once. *)
CreateThread(w) ==
  /\ life = "building"
  /\ wpc[w] = "unborn"
  /\ wpc' = [wpc EXCEPT ![w] = "test"]
  /\ UNCHANGED <<poolVars, producerVars, wreq, historyVars>>

ConstructorReturns ==
  /\ life = "building"
  /\ \A w \in Workers : wpc[w] # "unborn"
  /\ life' = "ready"
  /\ UNCHANGED <<m_stop, m_workqueue, lockOwner, m_queuestat,
                 producerVars, workerVars, historyVars>>

(* pthread_create or pthread_detach fails: m_threads is freed and the       *)
(* exception unwinds the members, while the threads created so far run on.  *)
ConstructorThrows ==
  /\ life = "building"
  /\ life' = "destroyed"
  /\ UNCHANGED <<m_stop, m_workqueue, lockOwner, m_queuestat,
                 producerVars, workerVars, historyVars>>

(* The body of the destructor.  Callers are outside append: the program     *)
(* deletes the pool from the thread that appends.                           *)
DestructorBody ==
  /\ life = "ready"
  /\ \A p \in Producers : ppc[p] = "idle"
  /\ life' = "stopping"
  /\ m_stop' = TRUE
  /\ UNCHANGED <<m_workqueue, lockOwner, m_queuestat,
                 producerVars, workerVars, historyVars>>

(* After the body the members are destroyed and the memory is released; the *)
(* detached workers are not waited for.                                     *)
DestructorEnds ==
  /\ life = "stopping"
  /\ life' = "destroyed"
  /\ UNCHANGED <<m_stop, m_workqueue, lockOwner, m_queuestat,
                 producerVars, workerVars, historyVars>>

Alive == life # "destroyed"
-----------------------------------------------------------------------------
(* append(request), run by caller p. *)

CallAppend(p, r) ==
  /\ life = "ready"
  /\ ppc[p] = "idle"
  /\ r \in unsent
  /\ unsent' = unsent \ {r}
  /\ preq' = [preq EXCEPT ![p] = r]
  /\ ppc' = [ppc EXCEPT ![p] = "lock"]
  /\ UNCHANGED <<poolVars, workerVars, interrupts, refused, finished>>

AppendLock(p) ==
  /\ ppc[p] = "lock"
  /\ lockOwner = NULL
  /\ lockOwner' = p
  /\ ppc' = [ppc EXCEPT ![p] = "check"]
  /\ UNCHANGED <<life, m_stop, m_workqueue, m_queuestat, preq, workerVars,
                 historyVars>>

(* The queue may hold max_requests + 1 requests: the test is ">". *)
AppendRefuses(p) ==
  /\ ppc[p] = "check"
  /\ Len(m_workqueue) > MaxRequests
  /\ lockOwner' = NULL
  /\ refused' = refused \cup {preq[p]}
  /\ ppc' = [ppc EXCEPT ![p] = "idle"]
  /\ UNCHANGED <<life, m_stop, m_workqueue, m_queuestat, preq, workerVars,
                 interrupts, unsent, finished>>

AppendChecks(p) ==
  /\ ppc[p] = "check"
  /\ ~(Len(m_workqueue) > MaxRequests)
  /\ ppc' = [ppc EXCEPT ![p] = "push"]
  /\ UNCHANGED <<poolVars, preq, workerVars, historyVars>>

(* Variant: push_front. *)
AppendPushesFront(p) ==
  /\ ppc[p] = "push"
  /\ m_workqueue' = <<preq[p]>> \o m_workqueue
  /\ ppc' = [ppc EXCEPT ![p] = "unlock"]
  /\ UNCHANGED <<life, m_stop, lockOwner, m_queuestat, preq, workerVars,
                 historyVars>>

AppendPushes(p) ==
  /\ ppc[p] = "push"
  /\ m_workqueue' = Append(m_workqueue, preq[p])
  /\ ppc' = [ppc EXCEPT ![p] = "unlock"]
  /\ UNCHANGED <<life, m_stop, lockOwner, m_queuestat, preq, workerVars,
                 historyVars>>

AppendUnlocks(p) ==
  /\ ppc[p] = "unlock"
  /\ lockOwner' = NULL
  /\ ppc' = [ppc EXCEPT ![p] = "post"]
  /\ UNCHANGED <<life, m_stop, m_workqueue, m_queuestat, preq, workerVars,
                 historyVars>>

(* Variant: the post is forgotten. *)
AppendPostsNothing(p) ==
  /\ ppc[p] = "post"
  /\ ppc' = [ppc EXCEPT ![p] = "idle"]
  /\ UNCHANGED <<poolVars, preq, workerVars, historyVars>>

(* Variant: a post only for the request that makes the list non-empty. *)
AppendPostsFirst(p) ==
  /\ ppc[p] = "post"
  /\ m_queuestat' = IF Len(m_workqueue) = 1 THEN m_queuestat + 1 ELSE m_queuestat
  /\ ppc' = [ppc EXCEPT ![p] = "idle"]
  /\ UNCHANGED <<life, m_stop, m_workqueue, lockOwner, preq, workerVars,
                 historyVars>>

AppendPosts(p) ==
  /\ ppc[p] = "post"
  /\ m_queuestat' = m_queuestat + 1
  /\ ppc' = [ppc EXCEPT ![p] = "idle"]
  /\ UNCHANGED <<life, m_stop, m_workqueue, lockOwner, preq, workerVars,
                 historyVars>>
-----------------------------------------------------------------------------
(* run(), executed by worker w. *)

TestStop(w) ==
  /\ Alive
  /\ wpc[w] = "test"
  /\ wpc' = [wpc EXCEPT ![w] = IF m_stop THEN "exited" ELSE "wait"]
  /\ UNCHANGED <<poolVars, producerVars, wreq, historyVars>>

SemWait(w) ==
  /\ Alive
  /\ wpc[w] = "wait"
  /\ m_queuestat > 0
  /\ m_queuestat' = m_queuestat - 1
  /\ wpc' = [wpc EXCEPT ![w] = "lock"]
  /\ UNCHANGED <<life, m_stop, m_workqueue, lockOwner, producerVars, wreq,
                 historyVars>>

(* sem_wait fails with EINTR.  The wrapper reports false, run() ignores the *)
(* result and goes on without having taken a unit of the semaphore.         *)
SemInterrupted(w) ==
  /\ Alive
  /\ wpc[w] = "wait"
  /\ interrupts < MaxInterrupts
  /\ interrupts' = interrupts + 1
  /\ wpc' = [wpc EXCEPT ![w] = "lock"]
  /\ UNCHANGED <<poolVars, producerVars, wreq, unsent, refused, finished>>

WorkerLock(w) ==
  /\ Alive
  /\ wpc[w] = "lock"
  /\ lockOwner = NULL
  /\ lockOwner' = w
  /\ wpc' = [wpc EXCEPT ![w] = "empty"]
  /\ UNCHANGED <<life, m_stop, m_workqueue, m_queuestat, producerVars, wreq,
                 historyVars>>

(* Variant: "continue" without the unlock. *)
FoundEmptyLocked(w) ==
  /\ Alive
  /\ wpc[w] = "empty"
  /\ m_workqueue = <<>>
  /\ wpc' = [wpc EXCEPT ![w] = "test"]
  /\ UNCHANGED <<poolVars, producerVars, wreq, historyVars>>

FoundEmpty(w) ==
  /\ Alive
  /\ wpc[w] = "empty"
  /\ m_workqueue = <<>>
  /\ lockOwner' = NULL
  /\ wpc' = [wpc EXCEPT ![w] = "test"]
  /\ UNCHANGED <<life, m_stop, m_workqueue, m_queuestat, producerVars, wreq,
                 historyVars>>

(* Variant: no test, as if sem_wait could not fail. *)
FoundUntested(w) ==
  /\ Alive
  /\ wpc[w] = "empty"
  /\ wpc' = [wpc EXCEPT ![w] = "front"]
  /\ UNCHANGED <<poolVars, producerVars, wreq, historyVars>>

FoundRequest(w) ==
  /\ Alive
  /\ wpc[w] = "empty"
  /\ m_workqueue # <<>>
  /\ wpc' = [wpc EXCEPT ![w] = "front"]
  /\ UNCHANGED <<poolVars, producerVars, wreq, historyVars>>

(* front() and pop_front() of an empty std::list are undefined: the steps   *)
(* below need no guard only because FrontSafe holds.                        *)
ReadFront(w) ==
  /\ Alive
  /\ wpc[w] = "front"
  /\ wreq' = [wreq EXCEPT ![w] = Head(m_workqueue)]
  /\ wpc' = [wpc EXCEPT ![w] = "popfront"]
  /\ UNCHANGED <<poolVars, producerVars, historyVars>>

PopFront(w) ==
  /\ Alive
  /\ wpc[w] = "popfront"
  /\ m_workqueue' = Tail(m_workqueue)
  /\ wpc' = [wpc EXCEPT ![w] = "unlock"]
  /\ UNCHANGED <<life, m_stop, lockOwner, m_queuestat, producerVars, wreq,
                 historyVars>>

(* The unlock, and the test that skips a null request. *)
WorkerUnlock(w) ==
  /\ Alive
  /\ wpc[w] = "unlock"
  /\ lockOwner' = NULL
  /\ wpc' = [wpc EXCEPT ![w] = IF wreq[w] = NULL THEN "test" ELSE "process"]
  /\ UNCHANGED <<life, m_stop, m_workqueue, m_queuestat, producerVars, wreq,
                 historyVars>>

(* request->process() returns.  It does not touch the pool, so it goes on   *)
(* after the pool is gone.                                                  *)
ProcessReturns(w) ==
  /\ wpc[w] = "process"
  /\ finished' = finished \cup {wreq[w]}
  /\ wpc' = [wpc EXCEPT ![w] = "test"]
  /\ UNCHANGED <<poolVars, producerVars, wreq, interrupts, unsent, refused>>

(* A worker that touches a member of a destroyed pool: anything may happen  *)
(* to it from here on, and nothing more is said about it.                   *)
TouchDestroyed(w) ==
  /\ ~Alive
  /\ wpc[w] \notin {"unborn", "process", "exited", "undefined"}
  /\ wpc' = [wpc EXCEPT ![w] = "undefined"]
  /\ UNCHANGED <<poolVars, producerVars, wreq, historyVars>>
-----------------------------------------------------------------------------
Owner ==
  \/ \E w \in Workers : CreateThread(w)
  \/ ConstructorReturns
  \/ ConstructorThrows
  \/ DestructorBody
  \/ DestructorEnds

AppendStep(p) ==
  \/ AppendLock(p)
  \/ AppendRefuses(p)
  \/ AppendChecks(p)
  \/ AppendPushes(p)
  \/ AppendUnlocks(p)
  \/ AppendPosts(p)

RunStep(w) ==
  \/ TestStop(w)
  \/ SemWait(w)
  \/ WorkerLock(w)
  \/ FoundEmpty(w)
  \/ FoundRequest(w)
  \/ ReadFront(w)
  \/ PopFront(w)
  \/ WorkerUnlock(w)
  \/ ProcessReturns(w)

Next ==
  \/ Owner
  \/ \E p \in Producers :
       \/ \E r \in Requests \cup {NULL} : CallAppend(p, r)
       \/ AppendStep(p)
  \/ \E w \in Workers :
       \/ RunStep(w)
       \/ SemInterrupted(w)
       \/ TouchDestroyed(w)

(* Threads that have started an operation are scheduled until it is done;   *)
(* whether anyone calls append, interrupts a wait or ends the pool is free. *)
(* Each request is appended once, so the mutex is contended finitely often  *)
(* and weak fairness of each thread is enough to acquire it.                *)
Fairness ==
  /\ \A p \in Producers : WF_vars(AppendStep(p))
  /\ \A w \in Workers : WF_vars(RunStep(w))

Spec == Init /\ [][Next]_vars

FairSpec == Spec /\ Fairness
-----------------------------------------------------------------------------
(* The type of every variable of the pool and its threads. *)
TypeOK ==
  /\ life \in {"building", "ready", "stopping", "destroyed"}
  /\ m_stop \in BOOLEAN
  /\ m_workqueue \in Seq(Requests \cup {NULL})
  /\ lockOwner \in Threads \cup {NULL}
  /\ m_queuestat \in Nat
  /\ ppc \in [Producers -> ProducerPCs]
  /\ preq \in [Producers -> Requests \cup {NULL}]
  /\ wpc \in [Workers -> WorkerPCs]
  /\ wreq \in [Workers -> Requests \cup {NULL}]
  /\ interrupts \in Nat
  /\ unsent \subseteq Requests \cup {NULL}
  /\ refused \subseteq Requests \cup {NULL}
  /\ finished \subseteq Requests \cup {NULL}

InAppendSection(p) == ppc[p] \in {"check", "push", "unlock"}

InRunSection(w) == wpc[w] \in {"empty", "front", "popfront", "unlock"}

(* The list is only touched by the thread inside m_queuelocker: every path  *)
(* of append and run that locks it also unlocks it, the early returns too.  *)
MutualExclusion ==
  Alive =>
    /\ \A p \in Producers : InAppendSection(p) <=> lockOwner = p
    /\ \A w \in Workers : InRunSection(w) <=> lockOwner = w

(* No worker calls front() or pop_front() on an empty list, and the request *)
(* it removes is the one it has read, whatever the others did in between.   *)
FrontSafe ==
  Alive => \A w \in Workers :
    /\ wpc[w] = "front" => m_workqueue # <<>>
    /\ wpc[w] = "popfront" => m_workqueue # <<>> /\ wreq[w] = Head(m_workqueue)

(* append's test and its push_back are one decision: the list never exceeds *)
(* the bound the test enforces, however many callers run append.            *)
Bounded ==
  /\ Len(m_workqueue) <= MaxRequests + 1
  /\ \A p \in Producers : ppc[p] = "push" => Len(m_workqueue) <= MaxRequests

(* Together: no thread ever finds the list other than it expects it.        *)
PoolSafe == TypeOK /\ MutualExclusion /\ FrontSafe /\ Bounded

(* Workers that have left sem_wait and not yet taken a request. *)
Coming == {w \in Workers : wpc[w] \in {"lock", "empty", "front", "popfront"}}

(* Callers that have pushed a request and not yet posted the semaphore. *)
Posting == {p \in Producers : ppc[p] \in {"unlock", "post"}}

WakeUps == m_queuestat + Cardinality(Coming) + Cardinality(Posting)

(* For every request in the list there is a wake-up: a unit of the          *)
(* semaphore, a worker on its way, or a caller about to post.  No request   *)
(* is ever left behind with all workers asleep; and there are no more       *)
(* wake-ups than requests, except those that interrupted waits caused.      *)
Accounting ==
  Alive => /\ Len(m_workqueue) <= WakeUps
           /\ WakeUps <= Len(m_workqueue) + interrupts

(* A request that append accepted is processed to the end, unless the pool  *)
(* is taken down first.                                                     *)
EventuallyFinished ==
  \A r \in Requests :
    (\E i \in 1..Len(m_workqueue) : m_workqueue[i] = r)
      ~> (r \in finished \/ life # "ready")

(* append always returns: callers never wait for a worker's process(), only *)
(* for the short sections under the lock.                                   *)
AppendReturns ==
  \A p \in Producers : ppc[p] # "idle" ~> ppc[p] = "idle"

(* The pool implements the bounded FIFO of TaskQueue: a request is accepted *)
(* at push_back and taken at pop_front, in that order.                      *)
Queue == INSTANCE TaskQueue WITH
  Capacity <- MaxRequests + 1,
  pending <- m_workqueue,
  running <- [w \in Workers |->
                IF wpc[w] \in {"unlock", "process"} THEN wreq[w] ELSE NULL],
  closed <- life \in {"stopping", "destroyed"}

ImplementsTaskQueue == Queue!Spec
=============================================================================
