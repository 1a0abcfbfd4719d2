------------------------------- MODULE TPool -------------------------------
(***************************************************************************)
(* The thread pool of src/oapv_tpool.c (POSIX build) and the way the       *)
(* encoder and the decoder use it: the context creates its workers, every  *)
(* codec call hands one job to the first `fan' of them, does a share of    *)
(* the work itself, joins them in order and returns, and deleting the      *)
(* context releases the workers.                                           *)
(*                                                                         *)
(* A worker and its caller share a thread_ctx_t.  Its fields are read and  *)
(* written with c_section held, and the mutex is held only across straight *)
(* code, so a critical section is one action; pthread_cond_wait ends the   *)
(* action with the thread asleep, and a thread that wakes starts again at  *)
(* the test.  What the code does WITHOUT the mutex has actions of its own: *)
(* the worker reading task and t_arg, and the task itself.                 *)
(***************************************************************************)
EXTENDS Naturals

CONSTANTS NW,        \* number of pool threads, ctx->threads - 1
          MaxCalls,  \* bound: codec calls before the context is deleted
          Ret,       \* what a task may return
          OK,        \* the success code among them
          SysErr     \* OAPV_ERR_FAILED_SYSCALL, when a join itself fails

ASSUME PoolAssumption == /\ NW \in Nat
                         /\ MaxCalls \in Nat \ {0}
                         /\ OK \in Ret
                         /\ SysErr # OK

Worker == 0..(NW - 1)
Call   == 1..MaxCalls

\* What tpool_create_thread obtains, in the order it does.
Order   == <<"mem", "mutex", "w_event", "r_event", "attr", "thread">>
Obj     == {Order[k] : k \in 1..6}

VARIABLES objs,      \* the resources of each thread_ctx_t that exist
          thread_id, \* is ctx->thread_id[t] set?
          t_status, t_result, task, task_ret,   \* fields of thread_ctx_t
          wpc,       \* control point of each worker
          cur,       \* the job a worker has read from task and t_arg
          last,      \* history: the job each worker ran last, with its return
          cpc,       \* control point of the caller
          ci,        \* its loop index over ctx->thread_id
          cwait,     \* is it asleep on thread_id[ci]'s r_event?
          fan,       \* parallel_task - 1 of this call
          call,      \* number of calls begun: identifies the job
          got,       \* thread_ret of each join
          ret        \* the call's return value so far

ctxVars == <<t_status, t_result, task, task_ret>>
worVars == <<wpc, cur, last>>
cliVars == <<cpc, ci, cwait, fan, call, got, ret>>
resVars == <<objs, thread_id>>
vars == <<ctxVars, worVars, cliVars, resVars>>

Status == {"SUSPENDED", "RUNNING", "TERMINATED"}

TypeOK ==
  /\ objs \in [Worker -> SUBSET Obj]
  /\ thread_id \in [Worker -> BOOLEAN]
  /\ t_status \in [Worker -> Status]
  /\ t_result \in [Worker -> {"SUCCESS", "INVALID_STATE"}]
  /\ task \in [Worker -> Call]
  /\ task_ret \in [Worker -> Ret]
  /\ wpc \in [Worker -> {"none", "check", "asleep", "call", "busy", "report", "exited"}]
  /\ cur \in [Worker -> Call]
  /\ last \in [Worker -> [job : Call, ret : Ret]]
  /\ cpc \in {"create", "idle", "fork", "join", "release", "reap", "gone"}
  /\ ci \in 0..NW
  /\ cwait \in BOOLEAN
  /\ fan \in 0..NW
  /\ call \in 0..MaxCalls
  /\ got \in [Worker -> Ret]
  /\ ret \in Ret \cup {SysErr}

\* ctx is zeroed, the memory of a thread_ctx_t is not: task_ret holds
\* whatever malloc returned until a first task has finished.
Init ==
  /\ objs = [t \in Worker |-> {}]
  /\ thread_id = [t \in Worker |-> FALSE]
  /\ t_status = [t \in Worker |-> "SUSPENDED"]
  /\ t_result = [t \in Worker |-> "INVALID_STATE"]
  /\ task = [t \in Worker |-> 1]
  /\ task_ret \in [Worker -> Ret]
  /\ wpc = [t \in Worker |-> "none"]
  /\ cur = [t \in Worker |-> 1]
  /\ last = [t \in Worker |-> [job |-> 1, ret |-> OK]]
  /\ cpc = "create" /\ ci = 0 /\ cwait = FALSE /\ fan = 0 /\ call = 0
  /\ got = [t \in Worker |-> OK]
  /\ ret = OK

----------------------------------------------------------------------------
(* tpool_create_thread, called for each index by enc_ready and dec_ready.  *)

\* What exists when step k of the creation is tried.
Held(k) == {Order[j] : j \in 1..(k - 1)}

\* Step k obtains its resource.  The last one is the thread, which starts at
\* once; the attribute is no longer needed then.
Obtain(k) ==
  /\ cpc = "create" /\ ci < NW /\ objs[ci] = Held(k)
  /\ IF k < 6
     THEN /\ objs' = [objs EXCEPT ![ci] = @ \cup {Order[k]}]
          /\ UNCHANGED <<thread_id, ctxVars, worVars, cliVars>>
     ELSE /\ objs' = [objs EXCEPT ![ci] = (@ \cup {"thread"}) \ {"attr"}]
          /\ thread_id' = [thread_id EXCEPT ![ci] = TRUE]
          /\ t_status' = [t_status EXCEPT ![ci] = "SUSPENDED"]
          /\ t_result' = [t_result EXCEPT ![ci] = "INVALID_STATE"]
          /\ wpc' = [wpc EXCEPT ![ci] = "check"]
          /\ ci' = ci + 1
          /\ UNCHANGED <<task, task_ret, cur, last,
                         cpc, cwait, fan, call, got, ret>>

\* The cleanup labels, in the order they appear; each releases one resource
\* and falls through to the next.  A failing step k jumps to label 7 - k.
Label == <<"attr", "r_event", "w_event", "mutex", "mem">>

UndoneFromNext(k) == {Label[j] : j \in (8 - k)..5}

Undone(k) == {Label[j] : j \in (7 - k)..5}

\* Step k fails: its cleanup runs, thread_id stays NULL and the context is
\* flushed.
CreateFails(k) ==
  /\ cpc = "create" /\ ci < NW /\ objs[ci] = Held(k)
  /\ objs' = [objs EXCEPT ![ci] = @ \ Undone(k)]
  /\ cpc' = "release" /\ ci' = 0
  /\ UNCHANGED <<thread_id, ctxVars, worVars, cwait, fan, call, got, ret>>

Ready ==
  /\ cpc = "create" /\ ci = NW
  /\ cpc' = "idle"
  /\ UNCHANGED <<resVars, ctxVars, worVars, ci, cwait, fan, call, got, ret>>

----------------------------------------------------------------------------
(* tpool_worker_thread                                                     *)

\* One critical section: test t_status, and sleep, exit or go on.
WorkerCheck(t) ==
  /\ wpc[t] = "check"
  /\ \/ /\ t_status[t] = "SUSPENDED"
        /\ wpc' = [wpc EXCEPT ![t] = "asleep"]
        /\ UNCHANGED <<t_status, t_result>>
     \/ /\ t_status[t] = "TERMINATED"
        /\ wpc' = [wpc EXCEPT ![t] = "exited"]
        /\ t_result' = [t_result EXCEPT ![t] = "SUCCESS"]
        /\ UNCHANGED t_status
     \/ /\ t_status[t] = "RUNNING"
        /\ wpc' = [wpc EXCEPT ![t] = "call"]
        /\ UNCHANGED <<t_status, t_result>>
  /\ UNCHANGED <<task, task_ret, cur, last, cliVars, resVars>>

\* pthread_cond_wait may return although nobody signalled.
WorkerSpurious(t) ==
  /\ wpc[t] = "asleep"
  /\ wpc' = [wpc EXCEPT ![t] = "check"]
  /\ UNCHANGED <<ctxVars, cur, last, cliVars, resVars>>

\* task and t_arg are read after the mutex is released.
WorkerCall(t) ==
  /\ wpc[t] = "call"
  /\ wpc' = [wpc EXCEPT ![t] = "busy"]
  /\ cur' = [cur EXCEPT ![t] = task[t]]
  /\ UNCHANGED <<ctxVars, last, cliVars, resVars>>

\* The task function returns.
WorkerReturn(t) ==
  /\ wpc[t] = "busy"
  /\ wpc' = [wpc EXCEPT ![t] = "report"]
  /\ \E r \in Ret : last' = [last EXCEPT ![t] = [job |-> cur[t], ret |-> r]]
  /\ UNCHANGED <<ctxVars, cur, cliVars, resVars>>

\* Is the caller still asleep once r_event of t has been signalled?
NotSignalled(t) == cwait
StillAsleep(t) == cwait /\ ci # t

\* What the worker publishes as the result.
PublishedStale(t) == task_ret[t]
Published(t) == last[t].ret

\* The result is published and the caller, if it waits for t, is woken.
WorkerReport(t) ==
  /\ wpc[t] = "report"
  /\ t_status' = [t_status EXCEPT ![t] = "SUSPENDED"]
  /\ t_result' = [t_result EXCEPT ![t] = "SUCCESS"]
  /\ task_ret' = [task_ret EXCEPT ![t] = Published(t)]
  /\ cwait' = StillAsleep(t)
  /\ wpc' = [wpc EXCEPT ![t] = "check"]
  /\ UNCHANGED <<task, cur, last, cpc, ci, fan, call, got, ret, resVars>>

WorkerStep(t) == \/ WorkerCheck(t)
                 \/ WorkerCall(t)
                 \/ WorkerReturn(t)
                 \/ WorkerReport(t)

----------------------------------------------------------------------------
(* The caller                                                              *)

\* pthread_cond_signal on w_event of t.
SignalWorker(t) ==
  wpc' = IF wpc[t] = "asleep" THEN [wpc EXCEPT ![t] = "check"] ELSE wpc

\* The thread_ctx_t the caller's loop is at, when it still has one to visit.
Visits == \/ cpc = "fork" /\ ci < fan
          \/ cpc = "join" /\ ci < fan
          \/ cpc = "release" /\ ci < NW /\ thread_id[ci]

\* The test that run, join and release begin with: wait on r_event for as
\* long as the worker is RUNNING.
Await == /\ Visits /\ ~cwait
         /\ t_status[ci] = "RUNNING"
         /\ cwait' = TRUE
         /\ UNCHANGED <<resVars, ctxVars, worVars, cpc, ci, fan, call, got, ret>>

CallerSpurious == /\ cwait
                  /\ cwait' = FALSE
                  /\ UNCHANGED <<resVars, ctxVars, worVars,
                                 cpc, ci, fan, call, got, ret>>

FreeUntested == ~cwait

Free == ~cwait /\ t_status[ci] # "RUNNING"

\* A codec call, with parallel_task = p + 1.
Begin(p) ==
  /\ cpc = "idle" /\ call < MaxCalls
  /\ cpc' = "fork" /\ ci' = 0 /\ fan' = p /\ call' = call + 1 /\ ret' = OK
  /\ UNCHANGED <<resVars, ctxVars, worVars, cwait, got>>

\* tpool_assign_task
Run ==
  /\ cpc = "fork" /\ ci < fan /\ Free
  /\ t_status' = [t_status EXCEPT ![ci] = "RUNNING"]
  /\ task' = [task EXCEPT ![ci] = call]
  /\ SignalWorker(ci)
  /\ ci' = ci + 1
  /\ UNCHANGED <<resVars, t_result, task_ret, cur, last,
                 cpc, cwait, fan, call, got, ret>>

\* The caller's own share of the tiles.
OwnShare ==
  /\ cpc = "fork" /\ ci = fan
  /\ ret' \in Ret
  /\ cpc' = "join" /\ ci' = 0
  /\ UNCHANGED <<resVars, ctxVars, worVars, cwait, fan, call, got>>

FoldLast(t) == IF t_result[t] # "SUCCESS" THEN SysErr ELSE task_ret[t]

\* What the join loop makes of one join.
Fold(t) == IF t_result[t] # "SUCCESS" THEN SysErr
           ELSE IF task_ret[t] # OK THEN task_ret[t] ELSE ret

\* tpool_retrieve_result, and the caller's use of what it returns.
Join ==
  /\ cpc = "join" /\ ci < fan /\ Free
  /\ got' = [got EXCEPT ![ci] = task_ret[ci]]
  /\ ret' = Fold(ci)
  /\ ci' = ci + 1
  /\ UNCHANGED <<resVars, ctxVars, worVars, cpc, cwait, fan, call>>

ReturnAtFailure ==
  /\ cpc = "join" /\ (ci = fan \/ ret # OK)
  /\ cpc' = "idle"
  /\ UNCHANGED <<resVars, ctxVars, worVars, ci, cwait, fan, call, got, ret>>

Return ==
  /\ cpc = "join" /\ ci = fan
  /\ cpc' = "idle"
  /\ UNCHANGED <<resVars, ctxVars, worVars, ci, cwait, fan, call, got, ret>>

\* oapve_delete, oapvd_delete: the loop of enc_flush and dec_flush.
Delete ==
  /\ cpc = "idle"
  /\ cpc' = "release" /\ ci' = 0
  /\ UNCHANGED <<resVars, ctxVars, worVars, cwait, fan, call, got, ret>>

SkipRelease ==
  /\ cpc = "release" /\ ci < NW /\ ~thread_id[ci]
  /\ ci' = ci + 1
  /\ UNCHANGED <<resVars, ctxVars, worVars, cpc, cwait, fan, call, got, ret>>

\* tpool_terminate_thread up to pthread_join, and from there to the end.
Terminate ==
  /\ cpc = "release" /\ ci < NW /\ thread_id[ci] /\ Free
  /\ t_status' = [t_status EXCEPT ![ci] = "TERMINATED"]
  /\ SignalWorker(ci)
  /\ cpc' = "reap"
  /\ UNCHANGED <<resVars, t_result, task, task_ret, cur, last,
                 ci, cwait, fan, call, got, ret>>

Reap ==
  /\ cpc = "reap" /\ wpc[ci] = "exited"
  /\ objs' = [objs EXCEPT ![ci] = {}]
  /\ thread_id' = [thread_id EXCEPT ![ci] = FALSE]
  /\ cpc' = "release" /\ ci' = ci + 1
  /\ UNCHANGED <<ctxVars, worVars, cwait, fan, call, got, ret>>

Gone ==
  /\ cpc = "release" /\ ci = NW
  /\ cpc' = "gone"
  /\ UNCHANGED <<resVars, ctxVars, worVars, ci, cwait, fan, call, got, ret>>

\* After the delete the context is never used again.
Ended == cpc = "gone" /\ UNCHANGED vars

CallerStep == \/ Await \/ Run \/ OwnShare \/ Join \/ Return
              \/ SkipRelease \/ Terminate \/ Reap \/ Gone

Next == \/ \E k \in 1..6 : Obtain(k) \/ CreateFails(k)
        \/ Ready
        \/ \E p \in 0..NW : Begin(p)
        \/ CallerStep \/ Delete \/ CallerSpurious \/ Ended
        \/ \E t \in Worker : WorkerStep(t) \/ WorkerSpurious(t)

\* A runnable thread is scheduled, and a task returns; no call is forced on
\* the application and no wakeup without a signal is.
Fairness == WF_vars(CallerStep) /\ \A t \in Worker : WF_vars(WorkerStep(t))

Spec == Init /\ [][Next]_vars /\ Fairness

----------------------------------------------------------------------------
(* Properties                                                              *)

\* Worker t is between taking a job and publishing its result.
Working(t) == wpc[t] \in {"call", "busy", "report"}

\* When a codec call has returned, none of its workers is still running or
\* about to run a task, so none reads the frame, the tiles or the bitstream
\* the application now owns again ("always join spawned workers ... so no
\* worker keeps reading shared state after this function returns").
QuietWhenIdle ==
  cpc \in {"create", "idle", "gone"} =>
    \A t \in Worker : ~Working(t) /\ t_status[t] # "RUNNING"

\* The result a join hands to the call is the one the worker's task of THIS
\* call returned: not a stale or uninitialised task_ret, not an earlier job's.
JoinTellsThisCall ==
  cpc = "join" => \A t \in 0..(ci - 1) :
                     last[t].job = call /\ got[t] = last[t].ret

\* A call succeeds only if every share of it did: no worker's failure is lost
\* in the join loop.  (ret starts as the result of the caller's own share.)
NoFailureLost ==
  cpc = "join" /\ ret = OK => \A t \in 0..(ci - 1) : last[t].ret = OK

\* The thread_ctx_t exists for as long as its worker may touch it, and a
\* creation that failed or a release that finished leaves nothing behind.
ResourcesMatch ==
  /\ \A t \in Worker : wpc[t] \notin {"none", "exited"} =>
                          objs[t] = Obj \ {"attr"}
  /\ \A t \in Worker : ~thread_id[t] /\ ~(cpc = "create" /\ ci = t) =>
                          objs[t] = {}

\* While a worker is about to read task and t_arg without the mutex, and
\* while it runs the task, nobody assigns it another one.
TaskStable == [][\A t \in Worker : wpc[t] \in {"call", "busy"} =>
                                      task'[t] = task[t]]_vars

\* No wakeup is lost: every call returns, and deleting the context ends.
CallsReturn == /\ cpc = "fork" ~> cpc = "idle"
               /\ cpc = "release" ~> cpc = "gone"

----------------------------------------------------------------------------
(* TPool implements TaskHandoff.  A worker is busy from the run call until *)
(* its task returns and done until the join that collects the result.      *)

Uncollected(t) == \/ cpc = "fork" /\ t < ci
                  \/ cpc = "join" /\ ci <= t /\ t < fan

Life(t) ==
  IF ~thread_id[t] \/ t_status[t] = "TERMINATED" THEN "off"
  ELSE IF ~Uncollected(t) THEN "free"
  ELSE IF t_status[t] = "RUNNING" /\ wpc[t] # "report" THEN "busy"
  ELSE "done"

Handoff == INSTANCE TaskHandoff
             WITH Job <- Call, job <- task, out <- last,
                  life <- [t \in Worker |-> Life(t)]

ImplementsHandoff == Handoff!Spec
=============================================================================
