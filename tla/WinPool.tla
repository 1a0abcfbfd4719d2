------------------------------ MODULE WinPool ------------------------------
(***************************************************************************)
(* The Windows variant of the thread pool (src/oapv_tpool.c, the #else of  *)
(* the POSIX part): the same interface, fields and callers as TPool, but   *)
(* two events where TPool has condition variables.  w_event is reset by    *)
(* the wait it ends, and tells the worker to look; r_event stays set until *)
(* a job is assigned, and tells the caller that the worker has nothing to  *)
(* do.  A wait ends only when its event is set, and t_status is read but   *)
(* never waited on.                                                        *)
(*                                                                         *)
(* Either variant may be built.  The caller's steps that touch no event    *)
(* are those of TPool.  The SetEvent of w_event follows the critical       *)
(* section it belongs to with nothing in between that another thread could *)
(* see: only that event lets the worker look at what was written.  The     *)
(* SetEvent of r_event is a step of its own, after the worker has let go.  *)
(***************************************************************************)
EXTENDS TPool

VARIABLES build,    \* which variant is compiled: "posix" or "windows"
          w_event,  \* the workers' events that are set
          r_event   \* the callers' events that are set

poolVars == <<vars, build, w_event, r_event>>

Windows == build = "windows"

PoolInit == /\ Init
            /\ build \in {"posix", "windows"}
            /\ w_event = {} /\ r_event = {}

----------------------------------------------------------------------------
(* tpool_create_thread                                                     *)

\* What it obtains, in its order; the mutex is the critical section.
WinOrder == <<"mem", "w_event", "r_event", "mutex", "thread">>
WinHeld(k) == {WinOrder[j] : j \in 1..(k - 1)}

\* InitializeCriticalSection, step 4, cannot fail.  r_event is created set.
WinObtain(k) ==
  /\ Windows /\ cpc = "create" /\ ci < NW /\ objs[ci] = WinHeld(k)
  /\ objs' = [objs EXCEPT ![ci] = @ \cup {WinOrder[k]}]
  /\ IF k < 5
     THEN UNCHANGED <<thread_id, ctxVars, worVars, cliVars, r_event>>
     ELSE /\ thread_id' = [thread_id EXCEPT ![ci] = TRUE]
          /\ t_status' = [t_status EXCEPT ![ci] = "SUSPENDED"]
          /\ t_result' = [t_result EXCEPT ![ci] = "INVALID_STATE"]
          /\ wpc' = [wpc EXCEPT ![ci] = "asleep"]
          /\ r_event' = r_event \cup {ci}
          /\ ci' = ci + 1
          /\ UNCHANGED <<task, task_ret, cur, last, cpc, fan, cwait, call, got, ret>>
  /\ UNCHANGED <<build, w_event>>

\* TERROR releases everything, whatever was obtained; what it does to an
\* event or a critical section that was never made is left out.
WinCreateFails(k) ==
  /\ Windows /\ cpc = "create" /\ ci < NW /\ objs[ci] = WinHeld(k) /\ k # 4
  /\ objs' = [objs EXCEPT ![ci] = {}]
  /\ cpc' = "release" /\ ci' = 0
  /\ UNCHANGED <<thread_id, ctxVars, worVars, cwait, fan, call, got, ret, build, w_event, r_event>>

----------------------------------------------------------------------------
(* tpool_worker_thread                                                     *)

WinKeep == UNCHANGED <<resVars, cliVars, build>>

\* The wait for w_event ends, and resets it.
WinWake(t) ==
  /\ wpc[t] = "asleep" /\ t \in w_event
  /\ wpc' = [wpc EXCEPT ![t] = "check"] /\ w_event' = w_event \ {t}
  /\ WinKeep /\ UNCHANGED <<ctxVars, cur, last, r_event>>

\* Anything but TERMINATED means that there is a task.
WinCheck(t) ==
  /\ wpc[t] = "check"
  /\ IF t_status[t] = "TERMINATED"
     THEN wpc' = [wpc EXCEPT ![t] = "exited"] /\ t_result' = [t_result EXCEPT ![t] = "SUCCESS"]
     ELSE wpc' = [wpc EXCEPT ![t] = "call"] /\ UNCHANGED t_result
  /\ WinKeep /\ UNCHANGED <<t_status, task, task_ret, cur, last, w_event, r_event>>

WinCall(t) ==
  /\ wpc[t] = "call"
  /\ wpc' = [wpc EXCEPT ![t] = "busy"] /\ cur' = [cur EXCEPT ![t] = task[t]]
  /\ WinKeep /\ UNCHANGED <<ctxVars, last, w_event, r_event>>

\* task_ret is assigned by the return itself, outside the critical section.
WinReturn(t) ==
  /\ wpc[t] = "busy"
  /\ \E r \in Ret : /\ last' = [last EXCEPT ![t] = [job |-> cur[t], ret |-> r]]
                    /\ task_ret' = [task_ret EXCEPT ![t] = r]
  /\ wpc' = [wpc EXCEPT ![t] = "report"]
  /\ WinKeep /\ UNCHANGED <<t_status, t_result, task, cur, w_event, r_event>>

WinReport(t) ==
  /\ wpc[t] = "report"
  /\ t_status' = [t_status EXCEPT ![t] = "SUSPENDED"]
  /\ t_result' = [t_result EXCEPT ![t] = "SUCCESS"]
  /\ wpc' = [wpc EXCEPT ![t] = "signal"]
  /\ WinKeep /\ UNCHANGED <<task, task_ret, cur, last, w_event, r_event>>

WinSignal(t) ==
  /\ wpc[t] = "signal"
  /\ wpc' = [wpc EXCEPT ![t] = "asleep"] /\ r_event' = r_event \cup {t}
  /\ WinKeep /\ UNCHANGED <<ctxVars, cur, last, w_event>>

WinWorker(t) == /\ Windows
                /\ \/ WinWake(t) \/ WinCheck(t) \/ WinCall(t)
                   \/ WinReturn(t) \/ WinReport(t) \/ WinSignal(t)

----------------------------------------------------------------------------
(* The caller                                                              *)

\* tpool_assign_task waits for r_event and resets it.
EventsKept == r_event
EventsLeft == r_event \ {ci}

WinRun ==
  /\ Windows /\ cpc = "fork" /\ ci < fan /\ ci \in r_event
  /\ t_status' = [t_status EXCEPT ![ci] = "RUNNING"]
  /\ task' = [task EXCEPT ![ci] = call]
  /\ r_event' = EventsLeft /\ w_event' = w_event \cup {ci}
  /\ ci' = ci + 1
  /\ UNCHANGED <<resVars, t_result, task_ret, worVars, cpc, cwait, fan, call, got, ret, build>>

\* tpool_retrieve_result waits for r_event and leaves it set.
WinJoin ==
  /\ Windows /\ cpc = "join" /\ ci < fan /\ ci \in r_event
  /\ got' = [got EXCEPT ![ci] = task_ret[ci]] /\ ret' = Fold(ci) /\ ci' = ci + 1
  /\ UNCHANGED <<resVars, ctxVars, worVars, cpc, cwait, fan, call, build, w_event, r_event>>

WinTerminate ==
  /\ Windows /\ cpc = "release" /\ ci < NW /\ thread_id[ci] /\ ci \in r_event
  /\ t_status' = [t_status EXCEPT ![ci] = "TERMINATED"]
  /\ w_event' = w_event \cup {ci} /\ cpc' = "reap"
  /\ UNCHANGED <<resVars, t_result, task, task_ret, worVars, ci, cwait, fan, call, got, ret, build, r_event>>

\* The steps of the caller that are the same in both variants.
Same == OwnShare \/ Return \/ SkipRelease \/ Reap \/ Gone

WinCaller == WinRun \/ WinJoin \/ WinTerminate

Keep == UNCHANGED <<build, w_event, r_event>>

PoolNext ==
  \/ /\ ~Windows
     /\ \/ \E k \in 1..6 : Obtain(k) \/ CreateFails(k)
        \/ Await \/ Run \/ Join \/ Terminate \/ CallerSpurious
        \/ \E t \in Worker : WorkerStep(t) \/ WorkerSpurious(t)
     /\ Keep
  \/ \E k \in 1..5 : WinObtain(k) \/ WinCreateFails(k)
  \/ \E t \in Worker : WinWorker(t)
  \/ WinCaller
  \/ /\ Ready \/ (\E p \in 0..NW : Begin(p)) \/ Same \/ Delete \/ Ended
     /\ Keep

\* A thread that is not waiting for an event runs, and so does one whose
\* event is set; a task returns.
PoolFairness ==
  /\ WF_poolVars((~Windows /\ CallerStep /\ Keep) \/ WinCaller \/ (Same /\ Keep))
  /\ \A t \in Worker : WF_poolVars((~Windows /\ WorkerStep(t) /\ Keep) \/ WinWorker(t))

PoolSpec == PoolInit /\ [][PoolNext]_poolVars /\ PoolFairness
=============================================================================
