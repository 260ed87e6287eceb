---------------------------- MODULE MCThreadPool -----------------------------
(* The pool by itself.  Two callers, two workers, and one request more (with *)
(* the null one) than the list takes.                                        *)
EXTENDS Naturals

CONSTANTS Callers, PoolThreads, Requests, MaxRequests, MaxInterrupts, NullRequest

VARIABLES
  t_life, t_m_stop, t_m_workqueue, t_lockOwner, t_m_queuestat, t_ppc, t_preq,
  t_wpc, t_wreq, t_interrupts, t_unsent, t_refused, t_finished

T == INSTANCE ThreadPool WITH
  Producers <- Callers, Workers <- PoolThreads, NULL <- NullRequest,
  life <- t_life, m_stop <- t_m_stop, m_workqueue <- t_m_workqueue,
  lockOwner <- t_lockOwner, m_queuestat <- t_m_queuestat, ppc <- t_ppc,
  preq <- t_preq, wpc <- t_wpc, wreq <- t_wreq, interrupts <- t_interrupts,
  unsent <- t_unsent, refused <- t_refused, finished <- t_finished

ASSUME MCThreadPoolAssumption == T!PoolAssumption

PoolSpec == T!FairSpec
-----------------------------------------------------------------------------
(* No thread ever finds the list other than it expects it: it is touched     *)
(* under the lock, front() is never called on an empty list, and the bound   *)
(* that append tests is kept.                                                *)
PoolSafe == T!PoolSafe

(* Every request in the list has a wake-up under way.                        *)
Accounting == T!Accounting

(* A request that was accepted is processed, unless the pool ends.           *)
EventuallyFinished == T!EventuallyFinished

(* append returns.                                                           *)
AppendReturns == T!AppendReturns

(* 14-2locker.h and 15-3threadpool.h together are a bounded FIFO queue.      *)
ImplementsTaskQueue == T!ImplementsTaskQueue
=============================================================================
