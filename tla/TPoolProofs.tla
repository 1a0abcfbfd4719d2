---------------------------- MODULE TPoolProofs ----------------------------
(***************************************************************************)
(* Proofs about TPool and about WinPool, which adds the Windows variant to  *)
(* it, for any number of workers, calls and return values.                  *)
(***************************************************************************)
EXTENDS WinPool, TLAPS

----------------------------------------------------------------------------
(* The inductive invariant                                                 *)

\* The caller's index is in range, and is the fan-out's while it forks and
\* joins.
IndexInv ==
  /\ cpc \in {"fork", "join"} => ci <= fan /\ call \in Call
  /\ cpc = "reap" => ci < NW /\ thread_id[ci] /\ t_status[ci] = "TERMINATED"
  /\ cwait => Visits

\* Which workers exist: those created so far, or all of them.
ExistInv ==
  /\ cpc = "create" => \A t \in Worker : thread_id[t] <=> t < ci
  /\ cpc \in {"idle", "fork", "join"} => \A t \in Worker : thread_id[t]
  /\ cpc = "gone" => \A t \in Worker : ~thread_id[t]
  /\ cpc \in {"release", "reap"} => \A t \in Worker : t < ci => ~thread_id[t]

\* Where a worker can be, by the status in its thread_ctx_t.
PlaceInv ==
  \A t \in Worker :
    /\ ~thread_id[t] => /\ wpc[t] \in {"none", "exited"}
                        /\ t_status[t] # "RUNNING"
    /\ thread_id[t] =>
         /\ t_status[t] = "SUSPENDED"  => wpc[t] \in {"check", "asleep"}
         /\ t_status[t] = "RUNNING"    => wpc[t] \in {"check", "call", "busy", "report"}
         /\ t_status[t] = "TERMINATED" => wpc[t] \in {"check", "exited"}

\* A worker runs only between the run call and the join of one codec call.
RunInv ==
  \A t \in Worker :
    /\ t_status[t] = "RUNNING" => Uncollected(t)
    /\ thread_id[t] /\ t_status[t] = "TERMINATED" => cpc = "reap" /\ ci = t

\* What an uncollected worker knows of the job of this call.
JobInv ==
  \A t \in Worker :
    /\ Uncollected(t) => task[t] = call
    /\ wpc[t] \in {"busy", "report"} => cur[t] = task[t]
    /\ wpc[t] = "report" => last[t].job = cur[t]
    /\ Uncollected(t) /\ t_status[t] # "RUNNING" =>
         /\ last[t].job = call /\ last[t].ret = task_ret[t]
         /\ t_result[t] = "SUCCESS"

IInv == /\ TypeOK /\ IndexInv /\ ExistInv /\ PlaceInv /\ RunInv /\ JobInv
        /\ JoinTellsThisCall /\ NoFailureLost /\ ResourcesMatch

USE PoolAssumption DEF IInv, TypeOK, Worker, Call, ctxVars, worVars, cliVars, resVars

\* What a creation obtains up to step k is what its cleanup releases, and all
\* six make up Obj (the labels of tpool_create_thread).
LEMMA Objects ==
  /\ \A k \in 1..5 : {Order[k]} \subseteq Obj
  /\ \A k \in 1..6 : Held(k) \subseteq Obj /\ Held(k) \ Undone(k) = {}
  /\ (Held(6) \cup {"thread"}) \ {"attr"} = Obj \ {"attr"}
  <1>1. /\ Order[1] = "mem" /\ Order[2] = "mutex" /\ Order[3] = "w_event"
        /\ Order[4] = "r_event" /\ Order[5] = "attr" /\ Order[6] = "thread"
    BY DEF Order
  <1>2. /\ Label[5] = "mem" /\ Label[4] = "mutex" /\ Label[3] = "w_event"
        /\ Label[2] = "r_event" /\ Label[1] = "attr"
    BY DEF Label
  <1>3. \A k \in 1..6 : Held(k) \ Undone(k) = {}
    <2> SUFFICES ASSUME NEW k \in 1..6, NEW j \in 1..(k - 1) PROVE Order[j] \in Undone(k)
      BY DEF Held
    <2>1. Order[j] = Label[6 - j] /\ 6 - j \in (7 - k)..5
      BY <1>1, <1>2
    <2> QED BY <2>1 DEF Undone
  <1>4. Held(6) \cup {"thread"} = Obj
    <2>1. Obj = Held(6) \cup {Order[6]}
      BY DEF Held, Obj
    <2> QED BY <1>1, <2>1
  <1> QED BY <1>3, <1>4 DEF Held, Obj

\* tpool_create_thread, one resource after the other and the thread last.
LEMMA ObtainStep == ASSUME IInv, NEW k \in 1..6, Obtain(k) PROVE IInv'
  <1>1. ci \in Worker /\ objs[ci] = Held(k) /\ cpc = "create"
    BY DEF Obtain
  <1>a. ci \in Worker /\ objs[ci] = Held(k) /\ ~thread_id[ci] /\ wpc[ci] \in {"none", "exited"}
    BY <1>1 DEF ExistInv, PlaceInv
  <1>b. CASE k < 6
    <2>1. objs' = [objs EXCEPT ![ci] = objs[ci] \cup {Order[k]}] /\ UNCHANGED <<thread_id, ctxVars, worVars, cliVars>>
      BY <1>b DEF Obtain
    <2>2. objs' \in [Worker -> SUBSET Obj]
      <3>1. Held(k) \cup {Order[k]} \in SUBSET Obj
        BY <1>b, Objects
      <3> QED BY <1>a, <2>1, <3>1
    <2>3. TypeOK' /\ IndexInv' /\ ExistInv'
      BY <2>1, <2>2 DEF IndexInv, ExistInv, Visits
    <2>4. PlaceInv' /\ RunInv' /\ JobInv'
      BY <2>1 DEF PlaceInv, RunInv, JobInv, Uncollected
    <2>5. JoinTellsThisCall' /\ NoFailureLost'
      BY <2>1 DEF JoinTellsThisCall, NoFailureLost
    <2>6. ResourcesMatch'
      BY <1>a, <2>1 DEF Obtain, ResourcesMatch
    <2> QED BY <2>2, <2>3, <2>4, <2>5, <2>6
  <1>c. CASE k = 6
    <2>1. /\ objs' = [objs EXCEPT ![ci] = Obj \ {"attr"}]
          /\ thread_id' = [thread_id EXCEPT ![ci] = TRUE]
          /\ t_status' = [t_status EXCEPT ![ci] = "SUSPENDED"]
          /\ t_result' = [t_result EXCEPT ![ci] = "INVALID_STATE"]
          /\ wpc' = [wpc EXCEPT ![ci] = "check"]
          /\ cpc = "create" /\ ci' = ci + 1 /\ ci < NW
          /\ UNCHANGED <<task, task_ret, cur, last, cpc, cwait, fan, call, got, ret>>
      BY <1>a, <1>c, Objects DEF Obtain
    <2>2. objs' \in [Worker -> SUBSET Obj]
      BY <1>a, <2>1
    <2>3. TypeOK'
      BY <1>a, <2>1, <2>2 DEF Status
    <2>4. IndexInv' /\ ExistInv'
      BY <1>a, <2>1 DEF IndexInv, ExistInv, Visits
    <2>5. PlaceInv'
      BY <1>a, <2>1 DEF PlaceInv, Status
    <2>6. RunInv' /\ JobInv'
      BY <1>a, <2>1 DEF RunInv, JobInv, Uncollected
    <2>7. JoinTellsThisCall' /\ NoFailureLost'
      BY <2>1 DEF JoinTellsThisCall, NoFailureLost
    <2>8. ResourcesMatch'
      BY <1>a, <2>1 DEF ResourcesMatch, ExistInv
    <2> QED BY <2>2, <2>3, <2>4, <2>5, <2>6, <2>7, <2>8
  <1>d. k < 6 \/ k = 6
    OBVIOUS
  <1> QED BY <1>b, <1>c, <1>d

\* tpool_create_thread gives up, and the context is flushed.
LEMMA CreateFailsStep == ASSUME IInv, NEW k \in 1..6, CreateFails(k) PROVE IInv'
  <1>1. TypeOK' /\ IndexInv' /\ ExistInv'
    BY DEF IndexInv, ExistInv, RunInv, Visits, Status, CreateFails
  <1>2. PlaceInv' /\ RunInv'
    BY DEF IndexInv, ExistInv, PlaceInv, RunInv, Uncollected, Status, CreateFails
  <1>3. JobInv'
    BY DEF IndexInv, ExistInv, PlaceInv, RunInv, Uncollected, JobInv, CreateFails
  <1>4. JoinTellsThisCall' /\ NoFailureLost'
    BY DEF IndexInv, PlaceInv, RunInv, Uncollected, JobInv, JoinTellsThisCall, NoFailureLost, CreateFails
  <1>5. ResourcesMatch'
    <2>1. Held(k) \ Undone(k) = {}
      BY Objects
    <2>2. /\ ci \in Worker /\ objs'[ci] = Held(k) \ Undone(k)
          /\ \A t \in Worker : t # ci => objs'[t] = objs[t]
          /\ cpc = "create" /\ UNCHANGED <<thread_id, wpc>>
      BY DEF CreateFails
    <2>3. objs'[ci] = {}
      BY <2>1, <2>2
    <2>4. wpc[ci] \in {"none", "exited"}
      BY <2>2 DEF ExistInv, PlaceInv
    <2>5. \A t \in Worker : wpc'[t] \notin {"none", "exited"} => objs'[t] = Obj \ {"attr"}
      BY <2>2, <2>4 DEF ResourcesMatch
    <2>6. \A t \in Worker : ~thread_id'[t] => objs'[t] = {}
      BY <2>2, <2>3 DEF ResourcesMatch
    <2> QED BY <2>5, <2>6 DEF ResourcesMatch
  <1> QED BY <1>1, <1>2, <1>3, <1>4, <1>5

\* The last worker of the context has been created.
LEMMA ReadyStep == ASSUME IInv, Ready PROVE IInv'
  <1>1. TypeOK' /\ IndexInv' /\ ExistInv'
    BY DEF IndexInv, ExistInv, RunInv, Visits, Status, Ready
  <1>2. PlaceInv' /\ RunInv'
    BY DEF IndexInv, ExistInv, PlaceInv, RunInv, Uncollected, Status, Ready
  <1>3. JobInv'
    BY DEF IndexInv, ExistInv, PlaceInv, RunInv, Uncollected, JobInv, Ready
  <1>4. JoinTellsThisCall' /\ NoFailureLost'
    BY DEF IndexInv, PlaceInv, RunInv, Uncollected, JobInv, JoinTellsThisCall, NoFailureLost, Ready
  <1>5. ResourcesMatch'
    BY DEF ResourcesMatch, ExistInv, PlaceInv, IndexInv, Ready
  <1> QED BY <1>1, <1>2, <1>3, <1>4, <1>5

\* tpool_worker_thread tests t_status: it sleeps, exits or takes the job.
LEMMA WorkerCheckStep == ASSUME IInv, NEW t \in Worker, WorkerCheck(t) PROVE IInv'
  <1>1. TypeOK' /\ IndexInv' /\ ExistInv'
    BY DEF IndexInv, ExistInv, RunInv, Visits, Status, WorkerCheck
  <1>2. PlaceInv' /\ RunInv'
    BY DEF IndexInv, ExistInv, PlaceInv, RunInv, Uncollected, Status, WorkerCheck
  <1>3. JobInv'
    BY DEF IndexInv, ExistInv, PlaceInv, RunInv, Uncollected, JobInv, WorkerCheck
  <1>4. JoinTellsThisCall' /\ NoFailureLost'
    BY DEF IndexInv, PlaceInv, RunInv, Uncollected, JobInv, JoinTellsThisCall, NoFailureLost, WorkerCheck
  <1>5. ResourcesMatch'
    BY DEF ResourcesMatch, ExistInv, PlaceInv, IndexInv, WorkerCheck
  <1> QED BY <1>1, <1>2, <1>3, <1>4, <1>5

\* The worker wakes without a signal.
LEMMA WorkerSpuriousStep == ASSUME IInv, NEW t \in Worker, WorkerSpurious(t) PROVE IInv'
  <1>1. TypeOK' /\ IndexInv' /\ ExistInv'
    BY DEF IndexInv, ExistInv, RunInv, Visits, Status, WorkerSpurious
  <1>2. PlaceInv' /\ RunInv'
    BY DEF IndexInv, ExistInv, PlaceInv, RunInv, Uncollected, Status, WorkerSpurious
  <1>3. JobInv'
    BY DEF IndexInv, ExistInv, PlaceInv, RunInv, Uncollected, JobInv, WorkerSpurious
  <1>4. JoinTellsThisCall' /\ NoFailureLost'
    BY DEF IndexInv, PlaceInv, RunInv, Uncollected, JobInv, JoinTellsThisCall, NoFailureLost, WorkerSpurious
  <1>5. ResourcesMatch'
    BY DEF ResourcesMatch, ExistInv, PlaceInv, IndexInv, WorkerSpurious
  <1> QED BY <1>1, <1>2, <1>3, <1>4, <1>5

\* The worker reads task and t_arg without the mutex; nobody changes them.
LEMMA WorkerCallStep == ASSUME IInv, NEW t \in Worker, WorkerCall(t) PROVE IInv'
  <1>1. TypeOK' /\ IndexInv' /\ ExistInv'
    BY DEF IndexInv, ExistInv, RunInv, Visits, Status, WorkerCall
  <1>2. PlaceInv' /\ RunInv'
    BY DEF IndexInv, ExistInv, PlaceInv, RunInv, Uncollected, Status, WorkerCall
  <1>3. JobInv'
    BY DEF IndexInv, ExistInv, PlaceInv, RunInv, Uncollected, JobInv, WorkerCall
  <1>4. JoinTellsThisCall' /\ NoFailureLost'
    BY DEF IndexInv, PlaceInv, RunInv, Uncollected, JobInv, JoinTellsThisCall, NoFailureLost, WorkerCall
  <1>5. ResourcesMatch'
    BY DEF ResourcesMatch, ExistInv, PlaceInv, IndexInv, WorkerCall
  <1> QED BY <1>1, <1>2, <1>3, <1>4, <1>5

\* The task returns.
LEMMA WorkerReturnStep == ASSUME IInv, NEW t \in Worker, WorkerReturn(t) PROVE IInv'
  <1> PICK r \in Ret : last' = [last EXCEPT ![t] = [job |-> cur[t], ret |-> r]]
    BY DEF WorkerReturn
  <1>a. t_status[t] = "RUNNING" /\ Uncollected(t)
    BY DEF WorkerReturn, PlaceInv, RunInv, Status
  <1>1. TypeOK' /\ IndexInv' /\ ExistInv'
    BY DEF IndexInv, ExistInv, RunInv, Visits, Status, WorkerReturn
  <1>2. PlaceInv' /\ RunInv'
    BY DEF IndexInv, ExistInv, PlaceInv, RunInv, Uncollected, Status, WorkerReturn
  <1>3. JobInv'
    BY <1>a DEF WorkerReturn, JobInv, Uncollected
  <1>4. JoinTellsThisCall' /\ NoFailureLost'
    BY <1>a DEF WorkerReturn, JoinTellsThisCall, NoFailureLost, Uncollected
  <1>5. ResourcesMatch'
    BY DEF ResourcesMatch, ExistInv, PlaceInv, IndexInv, WorkerReturn
  <1> QED BY <1>1, <1>2, <1>3, <1>4, <1>5

\* The worker publishes the result and wakes the caller.
LEMMA WorkerReportStep == ASSUME IInv, NEW t \in Worker, WorkerReport(t) PROVE IInv'
  <1>1. TypeOK' /\ IndexInv' /\ ExistInv'
    <2>1. cwait' \in BOOLEAN /\ (cwait' => cwait)
      BY DEF WorkerReport, StillAsleep
    <2>2. TypeOK'
      BY <2>1 DEF WorkerReport, Published, Status
    <2>3. t_status[t] = "RUNNING" /\ UNCHANGED <<cpc, ci, fan, call, thread_id>>
      BY DEF WorkerReport, PlaceInv, Status
    <2>4. Visits' = Visits
      BY <2>3 DEF Visits
    <2>5. IndexInv'
      BY <2>1, <2>3, <2>4 DEF WorkerReport, IndexInv
    <2>6. ExistInv'
      BY <2>3 DEF ExistInv
    <2> QED BY <2>2, <2>5, <2>6
  <1>2. PlaceInv' /\ RunInv'
    BY DEF IndexInv, ExistInv, PlaceInv, RunInv, Uncollected, Status, WorkerReport, Published, StillAsleep
  <1>3. JobInv'
    BY DEF IndexInv, ExistInv, PlaceInv, RunInv, Uncollected, JobInv, WorkerReport, Published, StillAsleep
  <1>4. JoinTellsThisCall' /\ NoFailureLost'
    BY DEF IndexInv, PlaceInv, RunInv, Uncollected, JobInv, JoinTellsThisCall, NoFailureLost, WorkerReport, Published, StillAsleep
  <1>5. ResourcesMatch'
    BY DEF ResourcesMatch, ExistInv, PlaceInv, IndexInv, WorkerReport, Published, StillAsleep
  <1> QED BY <1>1, <1>2, <1>3, <1>4, <1>5

\* The caller goes to sleep on r_event.
LEMMA AwaitStep == ASSUME IInv, Await PROVE IInv'
  <1>1. TypeOK' /\ IndexInv' /\ ExistInv'
    BY DEF IndexInv, ExistInv, RunInv, Visits, Status, Await
  <1>2. PlaceInv' /\ RunInv'
    BY DEF IndexInv, ExistInv, PlaceInv, RunInv, Uncollected, Status, Await
  <1>3. JobInv'
    BY DEF IndexInv, ExistInv, PlaceInv, RunInv, Uncollected, JobInv, Await
  <1>4. JoinTellsThisCall' /\ NoFailureLost'
    BY DEF IndexInv, PlaceInv, RunInv, Uncollected, JobInv, JoinTellsThisCall, NoFailureLost, Await
  <1>5. ResourcesMatch'
    BY DEF ResourcesMatch, ExistInv, PlaceInv, IndexInv, Await
  <1> QED BY <1>1, <1>2, <1>3, <1>4, <1>5

\* The caller wakes without a signal.
LEMMA CallerSpuriousStep == ASSUME IInv, CallerSpurious PROVE IInv'
  <1>1. TypeOK' /\ IndexInv' /\ ExistInv'
    BY DEF IndexInv, ExistInv, RunInv, Visits, Status, CallerSpurious
  <1>2. PlaceInv' /\ RunInv'
    BY DEF IndexInv, ExistInv, PlaceInv, RunInv, Uncollected, Status, CallerSpurious
  <1>3. JobInv'
    BY DEF IndexInv, ExistInv, PlaceInv, RunInv, Uncollected, JobInv, CallerSpurious
  <1>4. JoinTellsThisCall' /\ NoFailureLost'
    BY DEF IndexInv, PlaceInv, RunInv, Uncollected, JobInv, JoinTellsThisCall, NoFailureLost, CallerSpurious
  <1>5. ResourcesMatch'
    BY DEF ResourcesMatch, ExistInv, PlaceInv, IndexInv, CallerSpurious
  <1> QED BY <1>1, <1>2, <1>3, <1>4, <1>5

\* A codec call begins.
LEMMA BeginStep == ASSUME IInv, NEW p \in 0..NW, Begin(p) PROVE IInv'
  <1>1. TypeOK' /\ IndexInv' /\ ExistInv'
    BY DEF IndexInv, ExistInv, RunInv, Visits, Status, Begin
  <1>2. PlaceInv' /\ RunInv'
    BY DEF IndexInv, ExistInv, PlaceInv, RunInv, Uncollected, Status, Begin
  <1>3. JobInv'
    BY DEF IndexInv, ExistInv, PlaceInv, RunInv, Uncollected, JobInv, Begin
  <1>4. JoinTellsThisCall' /\ NoFailureLost'
    BY DEF IndexInv, PlaceInv, RunInv, Uncollected, JobInv, JoinTellsThisCall, NoFailureLost, Begin
  <1>5. ResourcesMatch'
    BY DEF ResourcesMatch, ExistInv, PlaceInv, IndexInv, Begin
  <1> QED BY <1>1, <1>2, <1>3, <1>4, <1>5

\* tpool_assign_task gives a worker the job of this call.
LEMMA RunStep == ASSUME IInv, Run PROVE IInv'
  <1>a. ci \in Worker /\ call \in Call
    BY DEF Run, IndexInv
  <1>b. /\ wpc' \in [Worker -> {"none", "check", "asleep", "call", "busy", "report", "exited"}]
        /\ \A t \in Worker : wpc'[t] = IF t = ci /\ wpc[t] = "asleep" THEN "check" ELSE wpc[t]
    BY <1>a DEF Run, SignalWorker
  <1>c. thread_id[ci] /\ t_status[ci] = "SUSPENDED" /\ wpc'[ci] = "check"
    BY <1>a, <1>b DEF Run, Free, ExistInv, PlaceInv, RunInv, Status
  <1>1. TypeOK' /\ IndexInv' /\ ExistInv'
    <2>1. TypeOK'
      BY <1>a, <1>b DEF Run, Status
    <2>2. IndexInv' /\ ExistInv'
      BY <1>a DEF Run, Free, IndexInv, ExistInv, Visits
    <2> QED BY <2>1, <2>2
  <1>2. PlaceInv' /\ RunInv'
    <2>1. PlaceInv'
      BY <1>a, <1>b, <1>c DEF Run, PlaceInv, Status
    <2>2. RunInv'
      BY <1>a DEF Run, RunInv, Uncollected
    <2> QED BY <2>1, <2>2
  <1>3. JobInv'
    BY <1>a, <1>b, <1>c DEF Run, JobInv, Uncollected
  <1>4. JoinTellsThisCall' /\ NoFailureLost'
    BY DEF IndexInv, PlaceInv, RunInv, Uncollected, JobInv, JoinTellsThisCall, NoFailureLost, Run, Free, SignalWorker
  <1>5. ResourcesMatch'
    BY DEF ResourcesMatch, ExistInv, PlaceInv, IndexInv, Run, Free, SignalWorker
  <1> QED BY <1>1, <1>2, <1>3, <1>4, <1>5

\* The caller has done its own share of the tiles.
LEMMA OwnShareStep == ASSUME IInv, OwnShare PROVE IInv'
  <1>1. TypeOK' /\ IndexInv' /\ ExistInv'
    BY DEF IndexInv, ExistInv, RunInv, Visits, Status, OwnShare
  <1>2. PlaceInv' /\ RunInv'
    <2>1. PlaceInv'
      BY DEF PlaceInv, OwnShare, Status
    <2>2. RunInv'
      BY DEF RunInv, IndexInv, Uncollected, OwnShare
    <2> QED BY <2>1, <2>2
  <1>3. JobInv'
    BY DEF IndexInv, ExistInv, PlaceInv, RunInv, Uncollected, JobInv, OwnShare
  <1>4. JoinTellsThisCall' /\ NoFailureLost'
    BY DEF IndexInv, PlaceInv, RunInv, Uncollected, JobInv, JoinTellsThisCall, NoFailureLost, OwnShare
  <1>5. ResourcesMatch'
    BY DEF ResourcesMatch, ExistInv, PlaceInv, IndexInv, OwnShare
  <1> QED BY <1>1, <1>2, <1>3, <1>4, <1>5

\* tpool_retrieve_result collects the result of this call.
LEMMA JoinStep == ASSUME IInv, Join PROVE IInv'
  <1>1. TypeOK' /\ IndexInv' /\ ExistInv'
    BY DEF IndexInv, ExistInv, RunInv, Visits, Status, Join, Free, Fold
  <1>2. PlaceInv' /\ RunInv'
    <2>1. PlaceInv'
      BY DEF PlaceInv, Join, Status
    <2>2. RunInv'
      BY DEF RunInv, IndexInv, Uncollected, Join, Free
    <2> QED BY <2>1, <2>2
  <1>3. JobInv'
    BY DEF IndexInv, ExistInv, PlaceInv, RunInv, Uncollected, JobInv, Join, Free, Fold
  <1>4. JoinTellsThisCall' /\ NoFailureLost'
    <2>1. /\ ci \in Worker /\ last[ci].job = call /\ last[ci].ret = task_ret[ci]
          /\ t_result[ci] = "SUCCESS"
      BY DEF Join, Free, IndexInv, JobInv, Uncollected
    <2>2. JoinTellsThisCall'
      BY <2>1 DEF Join, JoinTellsThisCall
    <2>3. NoFailureLost'
      BY <2>1 DEF Join, Fold, NoFailureLost
    <2> QED BY <2>2, <2>3
  <1>5. ResourcesMatch'
    BY DEF ResourcesMatch, ExistInv, PlaceInv, IndexInv, Join, Free, Fold
  <1> QED BY <1>1, <1>2, <1>3, <1>4, <1>5

\* The codec call returns: every worker it used has been collected.
LEMMA ReturnStep == ASSUME IInv, Return PROVE IInv'
  <1>1. TypeOK' /\ IndexInv' /\ ExistInv'
    BY DEF IndexInv, ExistInv, RunInv, Visits, Status, Return
  <1>2. PlaceInv' /\ RunInv'
    <2>1. PlaceInv'
      BY DEF PlaceInv, Return, Status
    <2>2. RunInv'
      BY DEF RunInv, IndexInv, Uncollected, Return
    <2> QED BY <2>1, <2>2
  <1>3. JobInv'
    BY DEF IndexInv, ExistInv, PlaceInv, RunInv, Uncollected, JobInv, Return
  <1>4. JoinTellsThisCall' /\ NoFailureLost'
    BY DEF IndexInv, PlaceInv, RunInv, Uncollected, JobInv, JoinTellsThisCall, NoFailureLost, Return
  <1>5. ResourcesMatch'
    BY DEF ResourcesMatch, ExistInv, PlaceInv, IndexInv, Return
  <1> QED BY <1>1, <1>2, <1>3, <1>4, <1>5

\* The context is being deleted.
LEMMA DeleteStep == ASSUME IInv, Delete PROVE IInv'
  <1>1. TypeOK' /\ IndexInv' /\ ExistInv'
    BY DEF IndexInv, ExistInv, RunInv, Visits, Status, Delete
  <1>2. PlaceInv' /\ RunInv'
    BY DEF IndexInv, ExistInv, PlaceInv, RunInv, Uncollected, Status, Delete
  <1>3. JobInv'
    BY DEF IndexInv, ExistInv, PlaceInv, RunInv, Uncollected, JobInv, Delete
  <1>4. JoinTellsThisCall' /\ NoFailureLost'
    BY DEF IndexInv, PlaceInv, RunInv, Uncollected, JobInv, JoinTellsThisCall, NoFailureLost, Delete
  <1>5. ResourcesMatch'
    BY DEF ResourcesMatch, ExistInv, PlaceInv, IndexInv, Delete
  <1> QED BY <1>1, <1>2, <1>3, <1>4, <1>5

\* A worker that was never created is passed over.
LEMMA SkipReleaseStep == ASSUME IInv, SkipRelease PROVE IInv'
  <1>1. TypeOK' /\ IndexInv' /\ ExistInv'
    BY DEF IndexInv, ExistInv, RunInv, Visits, Status, SkipRelease
  <1>2. PlaceInv' /\ RunInv'
    BY DEF IndexInv, ExistInv, PlaceInv, RunInv, Uncollected, Status, SkipRelease
  <1>3. JobInv'
    BY DEF IndexInv, ExistInv, PlaceInv, RunInv, Uncollected, JobInv, SkipRelease
  <1>4. JoinTellsThisCall' /\ NoFailureLost'
    BY DEF IndexInv, PlaceInv, RunInv, Uncollected, JobInv, JoinTellsThisCall, NoFailureLost, SkipRelease
  <1>5. ResourcesMatch'
    BY DEF ResourcesMatch, ExistInv, PlaceInv, IndexInv, SkipRelease
  <1> QED BY <1>1, <1>2, <1>3, <1>4, <1>5

\* tpool_terminate_thread tells the worker to exit.
LEMMA TerminateStep == ASSUME IInv, Terminate PROVE IInv'
  <1>1. TypeOK' /\ IndexInv' /\ ExistInv'
    BY DEF IndexInv, ExistInv, RunInv, Visits, Status, Terminate, Free, SignalWorker
  <1>2. PlaceInv' /\ RunInv'
    BY DEF IndexInv, ExistInv, PlaceInv, RunInv, Uncollected, Status, Terminate, Free, SignalWorker
  <1>3. JobInv'
    BY DEF IndexInv, ExistInv, PlaceInv, RunInv, Uncollected, JobInv, Terminate, Free, SignalWorker
  <1>4. JoinTellsThisCall' /\ NoFailureLost'
    BY DEF IndexInv, PlaceInv, RunInv, Uncollected, JobInv, JoinTellsThisCall, NoFailureLost, Terminate, Free, SignalWorker
  <1>5. ResourcesMatch'
    BY DEF ResourcesMatch, ExistInv, PlaceInv, IndexInv, Terminate, Free, SignalWorker
  <1> QED BY <1>1, <1>2, <1>3, <1>4, <1>5

\* The worker has exited and its thread_ctx_t is released.
LEMMA ReapStep == ASSUME IInv, Reap PROVE IInv'
  <1>1. TypeOK' /\ IndexInv' /\ ExistInv'
    BY DEF IndexInv, ExistInv, RunInv, Visits, Status, Reap
  <1>2. PlaceInv' /\ RunInv'
    BY DEF IndexInv, ExistInv, PlaceInv, RunInv, Uncollected, Status, Reap
  <1>3. JobInv'
    BY DEF IndexInv, ExistInv, PlaceInv, RunInv, Uncollected, JobInv, Reap
  <1>4. JoinTellsThisCall' /\ NoFailureLost'
    BY DEF IndexInv, PlaceInv, RunInv, Uncollected, JobInv, JoinTellsThisCall, NoFailureLost, Reap
  <1>5. ResourcesMatch'
    BY DEF ResourcesMatch, ExistInv, PlaceInv, IndexInv, Reap
  <1> QED BY <1>1, <1>2, <1>3, <1>4, <1>5

\* The context is gone.
LEMMA GoneStep == ASSUME IInv, Gone PROVE IInv'
  <1>1. TypeOK' /\ IndexInv' /\ ExistInv'
    BY DEF IndexInv, ExistInv, RunInv, Visits, Status, Gone
  <1>2. PlaceInv' /\ RunInv'
    BY DEF IndexInv, ExistInv, PlaceInv, RunInv, Uncollected, Status, Gone
  <1>3. JobInv'
    BY DEF IndexInv, ExistInv, PlaceInv, RunInv, Uncollected, JobInv, Gone
  <1>4. JoinTellsThisCall' /\ NoFailureLost'
    BY DEF IndexInv, PlaceInv, RunInv, Uncollected, JobInv, JoinTellsThisCall, NoFailureLost, Gone
  <1>5. ResourcesMatch'
    BY DEF ResourcesMatch, ExistInv, PlaceInv, IndexInv, Gone
  <1> QED BY <1>1, <1>2, <1>3, <1>4, <1>5

----------------------------------------------------------------------------
(* The invariant holds throughout                                          *)

\* The invariant holds of a context that is zeroed, whatever malloc left in
\* task_ret.
LEMMA InitEstablishes == ASSUME Init PROVE IInv
  <1>1. TypeOK
    <2>1. 1 \in Call /\ OK \in Ret
      OBVIOUS
    <2>2. last \in [Worker -> [job : Call, ret : Ret]]
      BY <2>1 DEF Init
    <2>3. objs \in [Worker -> SUBSET Obj]
      BY DEF Init
    <2>4. /\ ci \in 0..NW /\ fan \in 0..NW /\ call \in 0..MaxCalls
          /\ cpc = "create" /\ cwait = FALSE /\ ret \in Ret
      BY <2>1 DEF Init
    <2>5. /\ task \in [Worker -> Call] /\ cur \in [Worker -> Call]
          /\ task_ret \in [Worker -> Ret] /\ got \in [Worker -> Ret]
      BY <2>1 DEF Init
    <2>6. /\ thread_id \in [Worker -> BOOLEAN] /\ t_status \in [Worker -> Status]
          /\ t_result \in [Worker -> {"SUCCESS", "INVALID_STATE"}]
          /\ wpc \in [Worker -> {"none", "check", "asleep", "call", "busy", "report", "exited"}]
      BY DEF Init, Status
    <2> QED BY <2>2, <2>3, <2>4, <2>5, <2>6
  <1>2. IndexInv /\ ExistInv /\ PlaceInv /\ RunInv /\ JobInv
    BY DEF Init, IndexInv, ExistInv, PlaceInv, RunInv, JobInv, Uncollected, Visits
  <1>3. JoinTellsThisCall /\ NoFailureLost /\ ResourcesMatch
    BY DEF Init, JoinTellsThisCall, NoFailureLost, ResourcesMatch
  <1> QED BY <1>1, <1>2, <1>3

\* Nothing changes.
LEMMA StutterStep == ASSUME IInv, UNCHANGED vars PROVE IInv'
  <1>1. TypeOK' /\ IndexInv' /\ ExistInv' /\ PlaceInv' /\ RunInv' /\ JobInv'
    BY DEF vars, IndexInv, ExistInv, PlaceInv, RunInv, JobInv, Uncollected, Visits, Status
  <1>2. JoinTellsThisCall' /\ NoFailureLost' /\ ResourcesMatch'
    BY DEF vars, JoinTellsThisCall, NoFailureLost, ResourcesMatch
  <1> QED BY <1>1, <1>2

\* Every step keeps the invariant.
LEMMA NextPreserves == ASSUME IInv, [Next]_vars PROVE IInv'
  <1>1. ASSUME NEW k \in 1..6, Obtain(k) \/ CreateFails(k) PROVE IInv'
    BY <1>1, ObtainStep, CreateFailsStep
  <1>2. ASSUME NEW p \in 0..NW, Begin(p) PROVE IInv'
    BY <1>2, BeginStep
  <1>3. ASSUME NEW t \in Worker, WorkerStep(t) \/ WorkerSpurious(t) PROVE IInv'
    BY <1>3, WorkerCheckStep, WorkerCallStep, WorkerReturnStep, WorkerReportStep,
       WorkerSpuriousStep DEF WorkerStep
  <1>4. CASE CallerStep
    BY <1>4, AwaitStep, RunStep, OwnShareStep, JoinStep, ReturnStep,
       SkipReleaseStep, TerminateStep, ReapStep, GoneStep DEF CallerStep
  <1>5. CASE Ready \/ Delete \/ CallerSpurious
    BY <1>5, ReadyStep, DeleteStep, CallerSpuriousStep
  <1>6. CASE UNCHANGED vars \/ Ended
    BY <1>6, StutterStep DEF Ended
  <1> QED BY <1>1, <1>2, <1>3, <1>4, <1>5, <1>6 DEF Next

\* Every reachable state satisfies the inductive invariant.
THEOREM Invariance == Spec => []IInv
  <1>1. Init => IInv
    BY InitEstablishes
  <1>2. IInv /\ [Next]_vars => IInv'
    BY NextPreserves
  <1> QED BY <1>1, <1>2, PTL DEF Spec

\* The fields of every thread_ctx_t and the locals of every thread keep their
\* types (tpool_worker_thread, tpool_create_thread and the call loops).
THEOREM TypeCorrect == Spec => []TypeOK
  <1>1. IInv => TypeOK
    OBVIOUS
  <1> QED BY <1>1, Invariance, PTL

\* However many workers a call fanned out to, all of them have stopped
\* touching the call's data when it has returned (the join loops of
\* oapve_encode, oapvd_decode and the other calls).
THEOREM CallsQuiesce == Spec => []QuietWhenIdle
  <1>1. IInv => QuietWhenIdle
    BY DEF QuietWhenIdle, RunInv, PlaceInv, Uncollected, Working, Status
  <1> QED BY <1>1, Invariance, PTL

\* tpool_retrieve_result reports what the task of this very call returned.
THEOREM JoinsAreTrue == Spec => []JoinTellsThisCall
  <1>1. IInv => JoinTellsThisCall
    OBVIOUS
  <1> QED BY <1>1, Invariance, PTL

\* The join loop of a codec call keeps every failure a worker reported.
THEOREM FailuresAreKept == Spec => []NoFailureLost
  <1>1. IInv => NoFailureLost
    OBVIOUS
  <1> QED BY <1>1, Invariance, PTL

\* The staged clean-up of tpool_create_thread and tpool_terminate_thread
\* leaves exactly the resources that are in use.
THEOREM ResourcesAreKept == Spec => []ResourcesMatch
  <1>1. IInv => ResourcesMatch
    OBVIOUS
  <1> QED BY <1>1, Invariance, PTL

\* Reading task and t_arg after the mutex is released is safe: nobody assigns
\* them before the worker has reported (tpool_worker_thread).
THEOREM TasksAreStable == Spec => TaskStable
  <1>1. ASSUME IInv, [Next]_vars, NEW t \in Worker, wpc[t] \in {"call", "busy"}
        PROVE  task'[t] = task[t]
    <2>1. t_status[t] = "RUNNING"
      BY <1>1 DEF PlaceInv, Status
    <2>2. CASE Run
      BY <1>1, <2>1, <2>2 DEF Run, Free
    <2>3. CASE ~Run
      <3>1. UNCHANGED task
        BY <1>1, <2>3 DEF Next, vars, Obtain, CreateFails, Ready, Begin, CallerStep,
           Await, OwnShare, Join, Return, SkipRelease, Terminate, Reap, Gone, Delete,
           CallerSpurious, Ended, WorkerStep, WorkerCheck, WorkerCall, WorkerReturn,
           WorkerReport, WorkerSpurious
      <3> QED BY <3>1
    <2> QED BY <2>2, <2>3
  <1>2. IInv /\ [Next]_vars =>
          [\A t \in Worker : wpc[t] \in {"call", "busy"} => task'[t] = task[t]]_vars
    BY <1>1
  <1> QED BY <1>2, Invariance, PTL DEF Spec, TaskStable

----------------------------------------------------------------------------
(* TPool implements TaskHandoff                                            *)

\* The steps of TPool that leave what TaskHandoff sees of a worker alone.
LEMMA LifeKept ==
  ASSUME IInv, \A t \in Worker : Life(t)' = Life(t), UNCHANGED <<task, last, got>>
  PROVE  UNCHANGED Handoff!vars
  BY DEF Handoff!vars

\* No worker has been created: all are off.
LEMMA HandoffInit == ASSUME Init PROVE Handoff!Init
  <1>1. \A t \in Worker : Life(t) = "off"
    BY DEF Init, Life
  <1>2. task \in [Worker -> Call] /\ last \in [Worker -> Handoff!Outcome] /\ got \in [Worker -> Ret]
    BY InitEstablishes DEF Handoff!Outcome
  <1> QED BY <1>1, <1>2 DEF Handoff!Init

\* Every step is a step of TaskHandoff or a stutter.
LEMMA HandoffStep == ASSUME IInv, [Next]_vars PROVE [Handoff!Next]_(Handoff!vars)
  <1> DEFINE Goal == [Handoff!Next]_(Handoff!vars)
  <1>1. ASSUME NEW k \in 1..6, Obtain(k), k = 6 PROVE Goal
    <2>1. PICK t \in Worker : t = ci
      BY <1>1 DEF Obtain
    <2>2. /\ cpc = "create" /\ cpc' = "create" /\ ~thread_id[t]
          /\ thread_id'[t] = TRUE /\ t_status'[t] = "SUSPENDED"
      BY <1>1, <2>1 DEF Obtain, ExistInv
    <2>3. Life(t) = "off" /\ Life(t)' = "free"
      BY <2>2 DEF Life, Uncollected
    <2>4. \A u \in Worker \ {t} : Life(u)' = Life(u)
      BY <1>1, <2>1 DEF Obtain, Life, Uncollected
    <2>5. Handoff!Move(t, "off", "free")
      BY <2>3, <2>4 DEF Handoff!Move
    <2>6. Handoff!Start(t)
      BY <1>1, <2>5 DEF Obtain, Handoff!Start
    <2> QED BY <2>6 DEF Handoff!Next, Handoff!Step
  <1>2. ASSUME NEW k \in 1..6, Obtain(k), k # 6 PROVE Goal
    <2>1. UNCHANGED <<thread_id, ctxVars, worVars, cliVars>>
      BY <1>2 DEF Obtain
    <2> QED BY <2>1, LifeKept DEF Life, Uncollected
  <1>3. ASSUME NEW k \in 1..6, CreateFails(k) PROVE Goal
    BY <1>3, LifeKept DEF CreateFails, Life, Uncollected
  <1>4. CASE Ready \/ Delete \/ CallerSpurious \/ Await
    BY <1>4, LifeKept DEF Ready, Delete, CallerSpurious, Await, Life, Uncollected
  <1>5. ASSUME NEW p \in 0..NW, Begin(p) PROVE Goal
    BY <1>5, LifeKept DEF Begin, Life, Uncollected
  <1>6. CASE Run
    <2>1. PICK t \in Worker : t = ci
      BY <1>6 DEF Run
    <2>2. /\ call \in Call /\ t_status[t] = "SUSPENDED" /\ thread_id[t]
          /\ cpc = "fork" /\ t < fan
      BY <1>6, <2>1 DEF Run, Free, IndexInv, ExistInv, RunInv, Status
    <2>3. wpc'[t] \in {"check", "asleep"} /\ \A u \in Worker \ {t} : wpc'[u] = wpc[u]
      BY <1>6, <2>1, <2>2 DEF Run, SignalWorker, PlaceInv
    <2>4. /\ thread_id'[t] /\ t_status'[t] = "RUNNING" /\ cpc' = "fork" /\ ci' = ci + 1
      BY <1>6, <2>1, <2>2 DEF Run
    <2>5. Life(t) = "free" /\ Life(t)' = "busy"
      BY <2>1, <2>2, <2>3, <2>4 DEF Life, Uncollected
    <2>6. \A u \in Worker \ {t} : Life(u)' = Life(u)
      BY <1>6, <2>1, <2>3 DEF Run, Life, Uncollected
    <2>7. Handoff!Move(t, "free", "busy")
      BY <2>5, <2>6 DEF Handoff!Move
    <2>8. Handoff!Accept(t)
      BY <1>6, <2>1, <2>2, <2>7 DEF Run, Handoff!Accept
    <2> QED BY <2>8 DEF Handoff!Next, Handoff!Step
  <1>7. CASE OwnShare
    BY <1>7, LifeKept DEF OwnShare, Life, Uncollected
  <1>8. CASE Join
    <2>1. PICK t \in Worker : t = ci
      BY <1>8 DEF Join
    <2>2. /\ t_status[t] # "RUNNING" /\ thread_id[t] /\ Uncollected(t)
          /\ last[t].ret = task_ret[t] /\ t_status[t] # "TERMINATED"
      BY <1>8, <2>1 DEF Join, Free, IndexInv, ExistInv, Uncollected, JobInv, RunInv
    <2>3. UNCHANGED <<thread_id, t_status, cpc>> /\ cpc = "join" /\ ci' = ci + 1
      BY <1>8 DEF Join
    <2>4. Life(t) = "done" /\ Life(t)' = "free"
      BY <2>1, <2>2, <2>3 DEF Life, Uncollected
    <2>5. \A u \in Worker \ {t} : Life(u)' = Life(u)
      BY <1>8, <2>1 DEF Join, Life, Uncollected
    <2>6. Handoff!Move(t, "done", "free")
      BY <2>4, <2>5 DEF Handoff!Move
    <2>7. Handoff!Collect(t)
      BY <1>8, <2>1, <2>2, <2>6 DEF Join, Handoff!Collect
    <2> QED BY <2>7 DEF Handoff!Next, Handoff!Step
  <1>9. CASE Return \/ SkipRelease \/ Gone
    <2>1. /\ UNCHANGED <<thread_id, ctxVars, worVars, cwait, fan, call, got, ret>>
          /\ \A u \in Worker : Uncollected(u) = Uncollected(u)'
      <3>1. CASE Return
        BY <3>1 DEF Return, Uncollected, resVars, IndexInv
      <3>2. CASE SkipRelease
        BY <3>2 DEF SkipRelease, Uncollected, resVars
      <3>3. CASE Gone
        BY <3>3 DEF Gone, Uncollected, resVars
      <3> QED BY <1>9, <3>1, <3>2, <3>3
    <2>2. \A u \in Worker : Life(u)' = Life(u)
      BY <2>1 DEF Life, ctxVars
    <2> QED BY <2>1, <2>2, LifeKept DEF ctxVars, worVars
  <1>10. CASE Terminate
    <2>1. PICK t \in Worker : t = ci
      BY <1>10 DEF Terminate
    <2>2. /\ thread_id[t] /\ cpc = "release" /\ cpc' = "reap"
          /\ t_status[t] # "TERMINATED" /\ t_status'[t] = "TERMINATED"
      BY <1>10, <2>1 DEF Terminate, RunInv
    <2>3. Life(t) = "free" /\ Life(t)' = "off"
      BY <2>2 DEF Life, Uncollected
    <2>4. \A u \in Worker \ {t} : Life(u)' = Life(u)
      BY <1>10, <2>1 DEF Terminate, Life, Uncollected
    <2>5. Handoff!Move(t, "free", "off")
      BY <2>3, <2>4 DEF Handoff!Move
    <2>6. Handoff!Stop(t)
      BY <1>10, <2>5 DEF Terminate, Handoff!Stop
    <2> QED BY <2>6 DEF Handoff!Next, Handoff!Step
  <1>11. CASE Reap
    <2>1. \A u \in Worker : Life(u)' = Life(u)
      BY <1>11 DEF Reap, Life, Uncollected, IndexInv
    <2> QED BY <1>11, <2>1, LifeKept DEF Reap
  <1>12. ASSUME NEW t \in Worker, WorkerCheck(t) \/ WorkerSpurious(t) \/ WorkerCall(t) PROVE Goal
    <2>1. \A u \in Worker : Life(u)' = Life(u)
      BY <1>12 DEF WorkerCheck, WorkerSpurious, WorkerCall, Life, Uncollected
    <2> QED BY <1>12, <2>1, LifeKept DEF WorkerCheck, WorkerSpurious, WorkerCall
  <1>13. ASSUME NEW t \in Worker, WorkerReturn(t) PROVE Goal
    <2>1. PICK r \in Ret : last' = [last EXCEPT ![t] = [job |-> cur[t], ret |-> r]]
      BY <1>13 DEF WorkerReturn
    <2>2. t_status[t] = "RUNNING" /\ thread_id[t] /\ Uncollected(t) /\ cur[t] = task[t]
      BY <1>13 DEF WorkerReturn, PlaceInv, RunInv, JobInv, Status
    <2>3. Life(t) = "busy" /\ Life(t)' = "done"
      BY <1>13, <2>2 DEF WorkerReturn, Life, Uncollected
    <2>4. \A u \in Worker \ {t} : Life(u)' = Life(u)
      BY <1>13 DEF WorkerReturn, Life, Uncollected
    <2>5. Handoff!Move(t, "busy", "done")
      BY <2>3, <2>4 DEF Handoff!Move
    <2>6. Handoff!Finish(t)
      BY <1>13, <2>1, <2>2, <2>5 DEF WorkerReturn, Handoff!Finish
    <2> QED BY <2>6 DEF Handoff!Next, Handoff!Step
  <1>14. ASSUME NEW t \in Worker, WorkerReport(t) PROVE Goal
    <2>1. t_status[t] = "RUNNING" /\ UNCHANGED <<thread_id, cpc, ci, fan>>
      BY <1>14 DEF WorkerReport, PlaceInv, Status
    <2>2. \A u \in Worker : Life(u)' = Life(u)
      BY <1>14, <2>1 DEF WorkerReport, Life, Uncollected
    <2> QED BY <1>14, <2>2, LifeKept DEF WorkerReport
  <1>15. CASE UNCHANGED vars \/ Ended
    BY <1>15, LifeKept DEF Ended, vars, Life, Uncollected
  <1> QED BY <1>1, <1>2, <1>3, <1>4, <1>5, <1>6, <1>7, <1>8, <1>9, <1>10, <1>11, <1>12,
             <1>13, <1>14, <1>15 DEF Next, CallerStep, WorkerStep

\* Whatever the pool's users can see of it, TaskHandoff allows: a worker is
\* handed a job only when free, runs exactly that one, once, and is freed by
\* the join that collects its outcome (tpool_assign_task, tpool_worker_thread,
\* tpool_retrieve_result, tpool_terminate_thread).
THEOREM PoolImplementsHandoff == Spec => ImplementsHandoff
  <1>1. Init => Handoff!Init
    BY HandoffInit
  <1>2. IInv /\ [Next]_vars => [Handoff!Next]_(Handoff!vars)
    BY HandoffStep
  <1> QED BY <1>1, <1>2, Invariance, PTL DEF Spec, ImplementsHandoff, Handoff!Spec

----------------------------------------------------------------------------
(* The Windows variant: its inductive invariant.                           *)

\* The caller never sleeps on a condition variable, and a worker has one more
\* place, between letting go of the thread_ctx_t and setting r_event.
WinTypeOK ==
  /\ objs \in [Worker -> SUBSET Obj]
  /\ thread_id \in [Worker -> BOOLEAN]
  /\ t_status \in [Worker -> Status]
  /\ t_result \in [Worker -> {"SUCCESS", "INVALID_STATE"}]
  /\ task \in [Worker -> Call]
  /\ task_ret \in [Worker -> Ret]
  /\ wpc \in [Worker -> {"none", "asleep", "check", "call", "busy", "report", "signal", "exited"}]
  /\ cur \in [Worker -> Call]
  /\ last \in [Worker -> [job : Call, ret : Ret]]
  /\ cpc \in {"create", "idle", "fork", "join", "release", "reap", "gone"}
  /\ ci \in 0..NW
  /\ cwait = FALSE
  /\ fan \in 0..NW
  /\ call \in 0..MaxCalls
  /\ got \in [Worker -> Ret]
  /\ ret \in Ret \cup {SysErr}
  /\ w_event \subseteq Worker /\ r_event \subseteq Worker

\* Where a worker can be, by the status in its thread_ctx_t, and which of its
\* events are set: w_event while it is asleep with something to do, r_event
\* while it has nothing to do.
EventInv ==
  \A t \in Worker :
    /\ ~thread_id[t] => /\ wpc[t] \in {"none", "exited"} /\ t \notin w_event
                        /\ t_status[t] # "RUNNING"
    /\ thread_id[t] =>
         /\ t \in w_event => wpc[t] = "asleep"
         /\ t_status[t] = "SUSPENDED" =>
              \/ wpc[t] = "asleep" /\ t \in r_event /\ t \notin w_event
              \/ wpc[t] = "signal" /\ t \notin r_event
         /\ t_status[t] = "RUNNING" =>
              /\ wpc[t] \in {"asleep", "check", "call", "busy", "report"} /\ t \notin r_event
              /\ wpc[t] = "asleep" => t \in w_event
         /\ t_status[t] = "TERMINATED" => wpc[t] \in {"asleep", "check", "exited"}

\* A worker that has not yet set r_event is still to be joined.
WinRunInv == RunInv /\ \A t \in Worker : wpc[t] = "signal" => Uncollected(t)

WinJobInv ==
  \A t \in Worker :
    /\ Uncollected(t) => task[t] = call
    /\ wpc[t] \in {"busy", "report"} => cur[t] = task[t]
    /\ wpc[t] = "report" => last[t] = [job |-> cur[t], ret |-> task_ret[t]]
    /\ Uncollected(t) /\ t_status[t] # "RUNNING" =>
         /\ last[t].job = call /\ last[t].ret = task_ret[t]
         /\ t_result[t] = "SUCCESS"

WinIInv == /\ WinTypeOK /\ IndexInv /\ ExistInv /\ EventInv /\ WinRunInv /\ WinJobInv
           /\ JoinTellsThisCall /\ NoFailureLost /\ ResourcesMatch

HIDE DEF IInv, TypeOK

USE DEF WinIInv, WinTypeOK

\* What a creation obtains up to step k (tpool_create_thread).
LEMMA WinObjects ==
  /\ \A k \in 1..5 : WinHeld(k) \cup {WinOrder[k]} \subseteq Obj
  /\ WinHeld(5) \cup {WinOrder[5]} = Obj \ {"attr"}
  <1>1. /\ WinOrder[1] = "mem" /\ WinOrder[2] = "w_event" /\ WinOrder[3] = "r_event"
        /\ WinOrder[4] = "mutex" /\ WinOrder[5] = "thread"
    BY DEF WinOrder
  <1>2. Obj = {"mem", "mutex", "w_event", "r_event", "attr", "thread"}
    <2>1. /\ Order[1] = "mem" /\ Order[2] = "mutex" /\ Order[3] = "w_event"
          /\ Order[4] = "r_event" /\ Order[5] = "attr" /\ Order[6] = "thread"
      BY DEF Order
    <2>2. 1..6 = {1, 2, 3, 4, 5, 6}
      OBVIOUS
    <2> QED BY <2>1, <2>2 DEF Obj
  <1>3. \A k \in 1..5 : WinHeld(k) \cup {WinOrder[k]} = {WinOrder[j] : j \in 1..k}
    BY DEF WinHeld
  <1>4. 1..5 = {1, 2, 3, 4, 5}
    OBVIOUS
  <1>5. \A j \in 1..5 : WinOrder[j] \in Obj
    BY <1>1, <1>2, <1>4
  <1>6. {WinOrder[j] : j \in 1..5} = Obj \ {"attr"}
    BY <1>1, <1>2, <1>4
  <1>7. \A k \in 1..5 : k \in 1..5 /\ 1..k \subseteq 1..5
    OBVIOUS
  <1> QED BY <1>3, <1>5, <1>6, <1>7

\* tpool_create_thread, one resource after the other and the thread last.
LEMMA WinObtainStep == ASSUME WinIInv, NEW k \in 1..5, WinObtain(k) PROVE WinIInv'
  <1>a. /\ ci \in Worker /\ ~thread_id[ci] /\ wpc[ci] \in {"none", "exited"} /\ cpc = "create"
        /\ ci \notin w_event /\ objs[ci] = WinHeld(k) /\ w_event' = w_event
    BY DEF WinObtain, ExistInv, EventInv
  <1>b. /\ objs' \in [Worker -> SUBSET Obj]
        /\ \A t \in Worker \ {ci} : objs'[t] = objs[t]
        /\ k = 5 => objs'[ci] = Obj \ {"attr"}
    <2>1. objs[ci] \cup {WinOrder[k]} \in SUBSET Obj
      BY <1>a, WinObjects
    <2>2. objs' = [objs EXCEPT ![ci] = objs[ci] \cup {WinOrder[k]}]
      BY DEF WinObtain
    <2>3. k = 5 => objs[ci] \cup {WinOrder[k]} = Obj \ {"attr"}
      BY <1>a, WinObjects
    <2> QED BY <1>a, <2>1, <2>2, <2>3
  <1>c. CASE k < 5
    <2>1. UNCHANGED <<thread_id, ctxVars, worVars, cliVars, r_event>>
      BY <1>c DEF WinObtain
    <2>2. WinTypeOK' /\ IndexInv' /\ ExistInv'
      BY <1>a, <1>b, <2>1 DEF IndexInv, ExistInv, Visits
    <2>3. EventInv' /\ WinRunInv' /\ WinJobInv'
      BY <1>a, <2>1 DEF EventInv, WinRunInv, RunInv, WinJobInv, Uncollected
    <2>4. JoinTellsThisCall' /\ NoFailureLost'
      BY <2>1 DEF JoinTellsThisCall, NoFailureLost
    <2>5. ResourcesMatch'
      BY <1>a, <1>b, <2>1 DEF ResourcesMatch
    <2> QED BY <2>2, <2>3, <2>4, <2>5
  <1>d. CASE k = 5
    <2>1. /\ thread_id' = [thread_id EXCEPT ![ci] = TRUE]
          /\ t_status' = [t_status EXCEPT ![ci] = "SUSPENDED"]
          /\ t_result' = [t_result EXCEPT ![ci] = "INVALID_STATE"]
          /\ wpc' = [wpc EXCEPT ![ci] = "asleep"]
          /\ r_event' = r_event \cup {ci}
          /\ ci' = ci + 1 /\ ci < NW
          /\ UNCHANGED <<task, task_ret, cur, last, cpc, fan, cwait, call, got, ret>>
      BY <1>d DEF WinObtain
    <2>2. WinTypeOK'
      <3>1. /\ thread_id' \in [Worker -> BOOLEAN] /\ t_status' \in [Worker -> Status]
            /\ t_result' \in [Worker -> {"SUCCESS", "INVALID_STATE"}]
            /\ wpc' \in [Worker -> {"none", "asleep", "check", "call", "busy", "report", "signal", "exited"}]
        BY <1>a, <2>1 DEF Status
      <3>2. ci' \in 0..NW /\ r_event' \subseteq Worker
        BY <1>a, <2>1
      <3> QED BY <1>a, <1>b, <2>1, <3>1, <3>2
    <2>3. IndexInv' /\ ExistInv'
      BY <1>a, <2>1 DEF IndexInv, ExistInv, Visits
    <2>4. EventInv'
      BY <1>a, <2>1 DEF EventInv, Status
    <2>5. WinRunInv' /\ WinJobInv'
      BY <1>a, <2>1 DEF WinRunInv, RunInv, WinJobInv, Uncollected
    <2>6. JoinTellsThisCall' /\ NoFailureLost'
      BY <1>a, <2>1 DEF JoinTellsThisCall, NoFailureLost
    <2>7. ResourcesMatch'
      BY <1>a, <1>b, <1>d, <2>1 DEF ResourcesMatch
    <2> QED BY <2>2, <2>3, <2>4, <2>5, <2>6, <2>7
  <1>e. k < 5 \/ k = 5
    OBVIOUS
  <1> QED BY <1>c, <1>d, <1>e

\* tpool_create_thread gives up and releases everything.
LEMMA WinCreateFailsStep == ASSUME WinIInv, NEW k \in 1..5, WinCreateFails(k) PROVE WinIInv'
  <1>1. WinTypeOK'
    BY DEF Status, WinCreateFails
  <1>6. IndexInv' /\ ExistInv'
    BY DEF IndexInv, ExistInv, RunInv, Visits, Status, WinCreateFails
  <1>2. EventInv' /\ WinRunInv'
    BY DEF IndexInv, ExistInv, EventInv, RunInv, WinRunInv, Uncollected, Status, WinCreateFails
  <1>3. WinJobInv'
    BY DEF IndexInv, ExistInv, EventInv, RunInv, WinRunInv, Uncollected, WinJobInv, Status, WinCreateFails
  <1>4. JoinTellsThisCall' /\ NoFailureLost'
    BY DEF IndexInv, ExistInv, EventInv, RunInv, WinRunInv, Uncollected, WinJobInv, JoinTellsThisCall,
       NoFailureLost, WinCreateFails
  <1>5. ResourcesMatch'
    <2>1. ci \in Worker /\ wpc[ci] \in {"none", "exited"}
      BY DEF WinCreateFails, ExistInv, EventInv
    <2>2. /\ objs'[ci] = {} /\ \A t \in Worker : t # ci => objs'[t] = objs[t]
          /\ cpc = "create" /\ cpc' = "release" /\ UNCHANGED <<thread_id, wpc>>
      BY <2>1 DEF WinCreateFails
    <2> QED BY <2>1, <2>2 DEF ResourcesMatch
  <1> QED BY <1>1, <1>2, <1>3, <1>4, <1>5, <1>6

\* The wait for w_event ends, and resets it.
LEMMA WinWakeStep == ASSUME WinIInv, NEW t \in Worker, WinWake(t) PROVE WinIInv'
  <1>1. WinTypeOK'
    BY DEF Status, WinWake, WinKeep
  <1>6. IndexInv' /\ ExistInv'
    BY DEF IndexInv, ExistInv, RunInv, Visits, Status, WinWake, WinKeep
  <1>2. EventInv' /\ WinRunInv'
    BY DEF IndexInv, ExistInv, EventInv, RunInv, WinRunInv, Uncollected, Status, WinWake, WinKeep
  <1>3. WinJobInv'
    BY DEF IndexInv, ExistInv, EventInv, RunInv, WinRunInv, Uncollected, WinJobInv, Status, WinWake, WinKeep
  <1>4. JoinTellsThisCall' /\ NoFailureLost'
    BY DEF IndexInv, ExistInv, EventInv, RunInv, WinRunInv, Uncollected, WinJobInv, JoinTellsThisCall,
       NoFailureLost, WinWake, WinKeep
  <1>5. ResourcesMatch'
    BY DEF ResourcesMatch, ExistInv, EventInv, IndexInv, WinWake, WinKeep
  <1> QED BY <1>1, <1>2, <1>3, <1>4, <1>5, <1>6

\* The worker reads t_status: it exits or takes the job.
LEMMA WinCheckStep == ASSUME WinIInv, NEW t \in Worker, WinCheck(t) PROVE WinIInv'
  <1>1. WinTypeOK'
    BY DEF Status, WinCheck, WinKeep
  <1>6. IndexInv' /\ ExistInv'
    BY DEF IndexInv, ExistInv, RunInv, Visits, Status, WinCheck, WinKeep
  <1>2. EventInv' /\ WinRunInv'
    <2>1. EventInv'
      BY DEF EventInv, Status, WinCheck, WinKeep
    <2>2. WinRunInv'
      BY DEF WinRunInv, RunInv, Uncollected, WinCheck, WinKeep
    <2> QED BY <2>1, <2>2
  <1>3. WinJobInv'
    BY DEF IndexInv, ExistInv, EventInv, RunInv, WinRunInv, Uncollected, WinJobInv, Status, WinCheck, WinKeep
  <1>4. JoinTellsThisCall' /\ NoFailureLost'
    BY DEF IndexInv, ExistInv, EventInv, RunInv, WinRunInv, Uncollected, WinJobInv, JoinTellsThisCall,
       NoFailureLost, WinCheck, WinKeep
  <1>5. ResourcesMatch'
    BY DEF ResourcesMatch, ExistInv, EventInv, IndexInv, WinCheck, WinKeep
  <1> QED BY <1>1, <1>2, <1>3, <1>4, <1>5, <1>6

\* The worker reads task and t_arg; nobody changes them.
LEMMA WinCallStep == ASSUME WinIInv, NEW t \in Worker, WinCall(t) PROVE WinIInv'
  <1>1. WinTypeOK'
    BY DEF Status, WinCall, WinKeep
  <1>6. IndexInv' /\ ExistInv'
    BY DEF IndexInv, ExistInv, RunInv, Visits, Status, WinCall, WinKeep
  <1>2. EventInv' /\ WinRunInv'
    BY DEF IndexInv, ExistInv, EventInv, RunInv, WinRunInv, Uncollected, Status, WinCall, WinKeep
  <1>3. WinJobInv'
    BY DEF IndexInv, ExistInv, EventInv, RunInv, WinRunInv, Uncollected, WinJobInv, Status, WinCall, WinKeep
  <1>4. JoinTellsThisCall' /\ NoFailureLost'
    BY DEF IndexInv, ExistInv, EventInv, RunInv, WinRunInv, Uncollected, WinJobInv, JoinTellsThisCall,
       NoFailureLost, WinCall, WinKeep
  <1>5. ResourcesMatch'
    BY DEF ResourcesMatch, ExistInv, EventInv, IndexInv, WinCall, WinKeep
  <1> QED BY <1>1, <1>2, <1>3, <1>4, <1>5, <1>6

\* The task returns into task_ret.
LEMMA WinReturnStep == ASSUME WinIInv, NEW t \in Worker, WinReturn(t) PROVE WinIInv'
  <1>1. WinTypeOK'
    BY DEF Status, WinReturn, WinKeep
  <1>6. IndexInv' /\ ExistInv'
    BY DEF IndexInv, ExistInv, RunInv, Visits, Status, WinReturn, WinKeep
  <1>2. EventInv' /\ WinRunInv'
    BY DEF IndexInv, ExistInv, EventInv, RunInv, WinRunInv, Uncollected, Status, WinReturn, WinKeep
  <1>3. WinJobInv'
    BY DEF IndexInv, ExistInv, EventInv, RunInv, WinRunInv, Uncollected, WinJobInv, Status, WinReturn, WinKeep
  <1>4. JoinTellsThisCall' /\ NoFailureLost'
    <2>1. t_status[t] = "RUNNING" /\ Uncollected(t)
      BY DEF WinReturn, EventInv, WinRunInv, RunInv, Status
    <2>2. \A u \in Worker \ {t} : last'[u] = last[u]
      BY DEF WinReturn
    <2>3. UNCHANGED <<cpc, ci, call, got, ret, fan>>
      BY DEF WinReturn, WinKeep
    <2>4. cpc = "join" => 0..(ci - 1) \subseteq Worker \ {t}
      BY <2>1 DEF Uncollected
    <2> QED BY <2>2, <2>3, <2>4 DEF JoinTellsThisCall, NoFailureLost
  <1>5. ResourcesMatch'
    BY DEF ResourcesMatch, ExistInv, EventInv, IndexInv, WinReturn, WinKeep
  <1> QED BY <1>1, <1>2, <1>3, <1>4, <1>5, <1>6

\* The worker has the result published.
LEMMA WinReportStep == ASSUME WinIInv, NEW t \in Worker, WinReport(t) PROVE WinIInv'
  <1>1. WinTypeOK'
    BY DEF Status, WinReport, WinKeep
  <1>6. IndexInv' /\ ExistInv'
    <2>1. t_status[t] = "RUNNING"
      BY DEF WinReport, EventInv, Status
    <2>2. UNCHANGED <<thread_id, cpc, ci, fan, call, cwait>>
      BY DEF WinReport, WinKeep
    <2>3. cpc = "reap" => ci # t
      BY <2>1 DEF IndexInv
    <2> QED BY <2>2, <2>3 DEF WinReport, IndexInv, ExistInv, Visits
  <1>2. EventInv' /\ WinRunInv'
    BY DEF IndexInv, ExistInv, EventInv, RunInv, WinRunInv, Uncollected, Status, WinReport, WinKeep
  <1>3. WinJobInv'
    BY DEF IndexInv, ExistInv, EventInv, RunInv, WinRunInv, Uncollected, WinJobInv, Status, WinReport, WinKeep
  <1>4. JoinTellsThisCall' /\ NoFailureLost'
    BY DEF IndexInv, ExistInv, EventInv, RunInv, WinRunInv, Uncollected, WinJobInv, JoinTellsThisCall,
       NoFailureLost, WinReport, WinKeep
  <1>5. ResourcesMatch'
    BY DEF ResourcesMatch, ExistInv, EventInv, IndexInv, WinReport, WinKeep
  <1> QED BY <1>1, <1>2, <1>3, <1>4, <1>5, <1>6

\* The worker sets r_event and waits.
LEMMA WinSignalStep == ASSUME WinIInv, NEW t \in Worker, WinSignal(t) PROVE WinIInv'
  <1>1. WinTypeOK'
    BY DEF Status, WinSignal, WinKeep
  <1>6. IndexInv' /\ ExistInv'
    BY DEF IndexInv, ExistInv, RunInv, Visits, Status, WinSignal, WinKeep
  <1>2. EventInv' /\ WinRunInv'
    BY DEF IndexInv, ExistInv, EventInv, RunInv, WinRunInv, Uncollected, Status, WinSignal, WinKeep
  <1>3. WinJobInv'
    BY DEF IndexInv, ExistInv, EventInv, RunInv, WinRunInv, Uncollected, WinJobInv, Status, WinSignal, WinKeep
  <1>4. JoinTellsThisCall' /\ NoFailureLost'
    BY DEF IndexInv, ExistInv, EventInv, RunInv, WinRunInv, Uncollected, WinJobInv, JoinTellsThisCall,
       NoFailureLost, WinSignal, WinKeep
  <1>5. ResourcesMatch'
    BY DEF ResourcesMatch, ExistInv, EventInv, IndexInv, WinSignal, WinKeep
  <1> QED BY <1>1, <1>2, <1>3, <1>4, <1>5, <1>6

\* tpool_assign_task gives a worker the job of this call.
LEMMA WinRunStep == ASSUME WinIInv, WinRun PROVE WinIInv'
  <1>1. WinTypeOK'
    <2>1. ci \in Worker /\ call \in Call
      BY DEF WinRun, IndexInv
    <2> QED BY <2>1 DEF Status, WinRun, EventsLeft
  <1>6. IndexInv' /\ ExistInv'
    BY DEF IndexInv, ExistInv, RunInv, Visits, Status, WinRun, EventsLeft
  <1>2. EventInv' /\ WinRunInv'
    BY DEF IndexInv, ExistInv, EventInv, RunInv, WinRunInv, Uncollected, Status, WinRun, EventsLeft
  <1>3. WinJobInv'
    BY DEF IndexInv, ExistInv, EventInv, RunInv, WinRunInv, Uncollected, WinJobInv, Status, WinRun, EventsLeft
  <1>4. JoinTellsThisCall' /\ NoFailureLost'
    BY DEF IndexInv, ExistInv, EventInv, RunInv, WinRunInv, Uncollected, WinJobInv, JoinTellsThisCall,
       NoFailureLost, WinRun, EventsLeft
  <1>5. ResourcesMatch'
    BY DEF ResourcesMatch, ExistInv, EventInv, IndexInv, WinRun, EventsLeft
  <1> QED BY <1>1, <1>2, <1>3, <1>4, <1>5, <1>6

\* tpool_retrieve_result of a worker that has reported.
LEMMA WinJoinStep == ASSUME WinIInv, WinJoin PROVE WinIInv'
  <1>a. /\ ci \in Worker /\ ci < fan /\ thread_id[ci] /\ t_status[ci] # "RUNNING"
        /\ t_result[ci] = "SUCCESS" /\ last[ci].job = call /\ last[ci].ret = task_ret[ci]
    <2>1. ci \in Worker /\ ci < fan /\ ci \in r_event /\ thread_id[ci] /\ Uncollected(ci)
      BY DEF WinJoin, ExistInv, Uncollected
    <2> QED BY <2>1 DEF EventInv, WinJobInv
  <1>1. WinTypeOK'
    BY <1>a DEF WinJoin, Fold
  <1>6. IndexInv' /\ ExistInv'
    BY DEF IndexInv, ExistInv, RunInv, Visits, Status, WinJoin
  <1>2. EventInv' /\ WinRunInv'
    BY DEF IndexInv, ExistInv, EventInv, RunInv, WinRunInv, Uncollected, Status, WinJoin
  <1>3. WinJobInv'
    BY DEF IndexInv, ExistInv, EventInv, RunInv, WinRunInv, Uncollected, WinJobInv, Status, WinJoin
  <1>4. JoinTellsThisCall' /\ NoFailureLost'
    <2>1. /\ got' = [got EXCEPT ![ci] = task_ret[ci]] /\ ci' = ci + 1
          /\ ret' = (IF task_ret[ci] # OK THEN task_ret[ci] ELSE ret)
          /\ cpc = "join" /\ UNCHANGED <<cpc, last, call>>
      BY <1>a DEF WinJoin, Fold
    <2>2. 0..(ci' - 1) = 0..(ci - 1) \cup {ci} /\ 0..(ci - 1) \subseteq Worker \ {ci}
      BY <1>a, <2>1
    <2>3. JoinTellsThisCall'
      BY <1>a, <2>1, <2>2 DEF JoinTellsThisCall
    <2>4. NoFailureLost'
      <3>1. ret' = OK => ret = OK /\ task_ret[ci] = OK
        BY <2>1
      <3> QED BY <1>a, <2>1, <2>2, <3>1 DEF NoFailureLost
    <2> QED BY <2>3, <2>4
  <1>5. ResourcesMatch'
    BY DEF ResourcesMatch, ExistInv, EventInv, IndexInv, WinJoin
  <1> QED BY <1>1, <1>2, <1>3, <1>4, <1>5, <1>6

\* tpool_terminate_thread tells the worker to exit.
LEMMA WinTerminateStep == ASSUME WinIInv, WinTerminate PROVE WinIInv'
  <1>1. WinTypeOK'
    BY DEF Status, WinTerminate
  <1>6. IndexInv' /\ ExistInv'
    BY DEF IndexInv, ExistInv, RunInv, Visits, Status, WinTerminate
  <1>2. EventInv' /\ WinRunInv'
    BY DEF IndexInv, ExistInv, EventInv, RunInv, WinRunInv, Uncollected, Status, WinTerminate
  <1>3. WinJobInv'
    BY DEF IndexInv, ExistInv, EventInv, RunInv, WinRunInv, Uncollected, WinJobInv, Status, WinTerminate
  <1>4. JoinTellsThisCall' /\ NoFailureLost'
    BY DEF IndexInv, ExistInv, EventInv, RunInv, WinRunInv, Uncollected, WinJobInv, JoinTellsThisCall,
       NoFailureLost, WinTerminate
  <1>5. ResourcesMatch'
    BY DEF ResourcesMatch, ExistInv, EventInv, IndexInv, WinTerminate
  <1> QED BY <1>1, <1>2, <1>3, <1>4, <1>5, <1>6

\* The last worker of the context has been created.
LEMMA ReadyInWindows == ASSUME WinIInv, Ready, Keep PROVE WinIInv'
  <1>1. WinTypeOK'
    BY DEF Status, Ready, Keep
  <1>6. IndexInv' /\ ExistInv'
    BY DEF IndexInv, ExistInv, RunInv, Visits, Status, Ready, Keep
  <1>2. EventInv' /\ WinRunInv'
    BY DEF IndexInv, ExistInv, EventInv, RunInv, WinRunInv, Uncollected, Status, Ready, Keep
  <1>3. WinJobInv'
    BY DEF IndexInv, ExistInv, EventInv, RunInv, WinRunInv, Uncollected, WinJobInv, Status, Ready, Keep
  <1>4. JoinTellsThisCall' /\ NoFailureLost'
    BY DEF IndexInv, ExistInv, EventInv, RunInv, WinRunInv, Uncollected, WinJobInv, JoinTellsThisCall,
       NoFailureLost, Ready, Keep
  <1>5. ResourcesMatch'
    BY DEF ResourcesMatch, ExistInv, EventInv, IndexInv, Ready, Keep
  <1> QED BY <1>1, <1>2, <1>3, <1>4, <1>5, <1>6

\* A codec call begins.
LEMMA BeginInWindows == ASSUME WinIInv, NEW p \in 0..NW, Begin(p), Keep PROVE WinIInv'
  <1>1. WinTypeOK'
    BY DEF Status, Begin, Keep
  <1>6. IndexInv' /\ ExistInv'
    BY DEF IndexInv, ExistInv, RunInv, Visits, Status, Begin, Keep
  <1>2. EventInv' /\ WinRunInv'
    BY DEF IndexInv, ExistInv, EventInv, RunInv, WinRunInv, Uncollected, Status, Begin, Keep
  <1>3. WinJobInv'
    BY DEF IndexInv, ExistInv, EventInv, RunInv, WinRunInv, Uncollected, WinJobInv, Status, Begin, Keep
  <1>4. JoinTellsThisCall' /\ NoFailureLost'
    BY DEF IndexInv, ExistInv, EventInv, RunInv, WinRunInv, Uncollected, WinJobInv, JoinTellsThisCall,
       NoFailureLost, Begin, Keep
  <1>5. ResourcesMatch'
    BY DEF ResourcesMatch, ExistInv, EventInv, IndexInv, Begin, Keep
  <1> QED BY <1>1, <1>2, <1>3, <1>4, <1>5, <1>6

\* The caller does its own share.
LEMMA OwnShareInWindows == ASSUME WinIInv, OwnShare, Keep PROVE WinIInv'
  <1>1. WinTypeOK'
    BY DEF Status, OwnShare, Keep
  <1>6. IndexInv' /\ ExistInv'
    BY DEF IndexInv, ExistInv, RunInv, Visits, Status, OwnShare, Keep
  <1>2. EventInv' /\ WinRunInv'
    BY DEF IndexInv, ExistInv, EventInv, RunInv, WinRunInv, Uncollected, Status, OwnShare, Keep
  <1>3. WinJobInv'
    BY DEF IndexInv, ExistInv, EventInv, RunInv, WinRunInv, Uncollected, WinJobInv, Status, OwnShare, Keep
  <1>4. JoinTellsThisCall' /\ NoFailureLost'
    BY DEF IndexInv, ExistInv, EventInv, RunInv, WinRunInv, Uncollected, WinJobInv, JoinTellsThisCall,
       NoFailureLost, OwnShare, Keep
  <1>5. ResourcesMatch'
    BY DEF ResourcesMatch, ExistInv, EventInv, IndexInv, OwnShare, Keep
  <1> QED BY <1>1, <1>2, <1>3, <1>4, <1>5, <1>6

\* The call returns when every worker was joined.
LEMMA ReturnInWindows == ASSUME WinIInv, Return, Keep PROVE WinIInv'
  <1>1. WinTypeOK'
    BY DEF Status, Return, Keep
  <1>6. IndexInv' /\ ExistInv'
    BY DEF IndexInv, ExistInv, RunInv, Visits, Status, Return, Keep
  <1>2. EventInv' /\ WinRunInv'
    BY DEF IndexInv, ExistInv, EventInv, RunInv, WinRunInv, Uncollected, Status, Return, Keep
  <1>3. WinJobInv'
    BY DEF IndexInv, ExistInv, EventInv, RunInv, WinRunInv, Uncollected, WinJobInv, Status, Return, Keep
  <1>4. JoinTellsThisCall' /\ NoFailureLost'
    BY DEF IndexInv, ExistInv, EventInv, RunInv, WinRunInv, Uncollected, WinJobInv, JoinTellsThisCall,
       NoFailureLost, Return, Keep
  <1>5. ResourcesMatch'
    BY DEF ResourcesMatch, ExistInv, EventInv, IndexInv, Return, Keep
  <1> QED BY <1>1, <1>2, <1>3, <1>4, <1>5, <1>6

\* The context is deleted.
LEMMA DeleteInWindows == ASSUME WinIInv, Delete, Keep PROVE WinIInv'
  <1>1. WinTypeOK'
    BY DEF Status, Delete, Keep
  <1>6. IndexInv' /\ ExistInv'
    BY DEF IndexInv, ExistInv, RunInv, Visits, Status, Delete, Keep
  <1>2. EventInv' /\ WinRunInv'
    BY DEF IndexInv, ExistInv, EventInv, RunInv, WinRunInv, Uncollected, Status, Delete, Keep
  <1>3. WinJobInv'
    BY DEF IndexInv, ExistInv, EventInv, RunInv, WinRunInv, Uncollected, WinJobInv, Status, Delete, Keep
  <1>4. JoinTellsThisCall' /\ NoFailureLost'
    BY DEF IndexInv, ExistInv, EventInv, RunInv, WinRunInv, Uncollected, WinJobInv, JoinTellsThisCall,
       NoFailureLost, Delete, Keep
  <1>5. ResourcesMatch'
    BY DEF ResourcesMatch, ExistInv, EventInv, IndexInv, Delete, Keep
  <1> QED BY <1>1, <1>2, <1>3, <1>4, <1>5, <1>6

\* A worker that was never created is passed over.
LEMMA SkipReleaseInWindows == ASSUME WinIInv, SkipRelease, Keep PROVE WinIInv'
  <1>1. WinTypeOK'
    <2>1. ci' \in 0..NW
      BY DEF SkipRelease
    <2> QED BY <2>1 DEF SkipRelease, Keep
  <1>6. IndexInv' /\ ExistInv'
    BY DEF IndexInv, ExistInv, RunInv, Visits, Status, SkipRelease, Keep
  <1>2. EventInv' /\ WinRunInv'
    BY DEF IndexInv, ExistInv, EventInv, RunInv, WinRunInv, Uncollected, Status, SkipRelease, Keep
  <1>3. WinJobInv'
    BY DEF IndexInv, ExistInv, EventInv, RunInv, WinRunInv, Uncollected, WinJobInv, Status, SkipRelease, Keep
  <1>4. JoinTellsThisCall' /\ NoFailureLost'
    BY DEF IndexInv, ExistInv, EventInv, RunInv, WinRunInv, Uncollected, WinJobInv, JoinTellsThisCall,
       NoFailureLost, SkipRelease, Keep
  <1>5. ResourcesMatch'
    BY DEF ResourcesMatch, ExistInv, EventInv, IndexInv, SkipRelease, Keep
  <1> QED BY <1>1, <1>2, <1>3, <1>4, <1>5, <1>6

\* The worker has exited and its thread_ctx_t is released.
LEMMA ReapInWindows == ASSUME WinIInv, Reap, Keep PROVE WinIInv'
  <1>1. WinTypeOK'
    <2>1. ci \in Worker /\ ci' \in 0..NW
      BY DEF Reap, IndexInv
    <2> QED BY <2>1 DEF Reap, Keep
  <1>6. IndexInv' /\ ExistInv'
    BY DEF IndexInv, ExistInv, RunInv, Visits, Status, Reap, Keep
  <1>2. EventInv' /\ WinRunInv'
    BY DEF IndexInv, ExistInv, EventInv, RunInv, WinRunInv, Uncollected, Status, Reap, Keep
  <1>3. WinJobInv'
    BY DEF IndexInv, ExistInv, EventInv, RunInv, WinRunInv, Uncollected, WinJobInv, Status, Reap, Keep
  <1>4. JoinTellsThisCall' /\ NoFailureLost'
    BY DEF IndexInv, ExistInv, EventInv, RunInv, WinRunInv, Uncollected, WinJobInv, JoinTellsThisCall,
       NoFailureLost, Reap, Keep
  <1>5. ResourcesMatch'
    BY DEF ResourcesMatch, ExistInv, EventInv, IndexInv, Reap, Keep
  <1> QED BY <1>1, <1>2, <1>3, <1>4, <1>5, <1>6

\* The context is gone.
LEMMA GoneInWindows == ASSUME WinIInv, Gone, Keep PROVE WinIInv'
  <1>1. WinTypeOK'
    BY DEF Status, Gone, Keep
  <1>6. IndexInv' /\ ExistInv'
    BY DEF IndexInv, ExistInv, RunInv, Visits, Status, Gone, Keep
  <1>2. EventInv' /\ WinRunInv'
    BY DEF IndexInv, ExistInv, EventInv, RunInv, WinRunInv, Uncollected, Status, Gone, Keep
  <1>3. WinJobInv'
    BY DEF IndexInv, ExistInv, EventInv, RunInv, WinRunInv, Uncollected, WinJobInv, Status, Gone, Keep
  <1>4. JoinTellsThisCall' /\ NoFailureLost'
    BY DEF IndexInv, ExistInv, EventInv, RunInv, WinRunInv, Uncollected, WinJobInv, JoinTellsThisCall,
       NoFailureLost, Gone, Keep
  <1>5. ResourcesMatch'
    BY DEF ResourcesMatch, ExistInv, EventInv, IndexInv, Gone, Keep
  <1> QED BY <1>1, <1>2, <1>3, <1>4, <1>5, <1>6

----------------------------------------------------------------------------
(* Both variants: the invariant of the program as it is built              *)

\* Each build has the invariant of its variant.
PoolIInv == /\ build \in {"posix", "windows"}
            /\ ~Windows => IInv
            /\ Windows => WinIInv

HIDE DEF WinIInv, WinTypeOK

\* A zeroed context, before either variant has created a thread.
LEMMA PoolInitEstablishes == ASSUME PoolInit PROVE PoolIInv
  <1>1. IInv
    BY InitEstablishes DEF PoolInit
  <1>2. WinIInv
    <2>1. WinTypeOK
      BY <1>1 DEF IInv, TypeOK, PoolInit, Init, WinTypeOK
    <2>2. EventInv /\ WinRunInv /\ WinJobInv
      BY DEF PoolInit, Init, EventInv, WinRunInv, RunInv, WinJobInv, Uncollected
    <2> QED BY <1>1, <2>1, <2>2 DEF IInv, WinIInv
  <1> QED BY <1>1, <1>2 DEF PoolInit, PoolIInv

\* Nothing changes.
LEMMA WinStutter == ASSUME WinIInv, UNCHANGED vars, Keep PROVE WinIInv'
  <1>1. WinTypeOK' /\ IndexInv' /\ ExistInv' /\ EventInv' /\ WinRunInv' /\ WinJobInv'
    BY DEF WinIInv, WinTypeOK, Keep, vars, IndexInv, ExistInv, EventInv, WinRunInv, RunInv, WinJobInv,
       Uncollected, Visits, Status
  <1>2. JoinTellsThisCall' /\ NoFailureLost' /\ ResourcesMatch'
    BY DEF WinIInv, vars, JoinTellsThisCall, NoFailureLost, ResourcesMatch
  <1> QED BY <1>1, <1>2 DEF WinIInv

\* A step of either variant, by which variant it is of.
PosixStep   == ~Windows /\ [Next]_vars /\ Keep
WindowsStep ==
  \/ \E k \in 1..5 : WinObtain(k) \/ WinCreateFails(k)
  \/ \E t \in Worker : WinWorker(t)
  \/ WinCaller
  \/ /\ Windows /\ Keep
     /\ Ready \/ (\E p \in 0..NW : Begin(p)) \/ Same \/ Delete \/ UNCHANGED vars

\* Every step is one of the variant that was built; which one that is never
\* changes.
LEMMA StepOfAVariant ==
  ASSUME [PoolNext]_poolVars
  PROVE  /\ build' = build
         /\ PosixStep \/ (Windows /\ WindowsStep)
  <1>1. CASE /\ Ready \/ (\E p \in 0..NW : Begin(p)) \/ Same \/ Delete \/ Ended
             /\ Keep
    <2>1. [Next]_vars
      BY <1>1 DEF Same, Next, CallerStep
    <2>2. Windows => WindowsStep
      BY <1>1 DEF WindowsStep, Ended
    <2> QED BY <1>1, <2>1, <2>2 DEF PosixStep, Keep
  <1>2. CASE /\ ~Windows
             /\ \/ \E k \in 1..6 : Obtain(k) \/ CreateFails(k)
                \/ Await \/ Run \/ Join \/ Terminate \/ CallerSpurious
                \/ \E t \in Worker : WorkerStep(t) \/ WorkerSpurious(t)
             /\ Keep
    <2>1. Next
      BY <1>2 DEF Next, CallerStep
    <2> QED BY <1>2, <2>1 DEF PosixStep, Keep
  <1>3. CASE \/ \E k \in 1..5 : WinObtain(k) \/ WinCreateFails(k)
             \/ \E t \in Worker : WinWorker(t)
             \/ WinCaller
    <2>1. Windows /\ build' = build
      BY <1>3 DEF WinObtain, WinCreateFails, WinWorker, WinWake, WinCheck, WinCall, WinReturn,
         WinReport, WinSignal, WinKeep, WinCaller, WinRun, WinJoin, WinTerminate
    <2> QED BY <1>3, <2>1 DEF WindowsStep
  <1>4. CASE UNCHANGED poolVars
    BY <1>4 DEF poolVars, PosixStep, WindowsStep, Keep
  <1> QED BY <1>1, <1>2, <1>3, <1>4 DEF PoolNext

\* Every step keeps the invariant.
LEMMA PoolNextPreserves == ASSUME PoolIInv, [PoolNext]_poolVars PROVE PoolIInv'
  <1>1. build' = build /\ (Windows <=> Windows')
    BY StepOfAVariant DEF Windows
  <1>2. CASE PosixStep
    BY <1>1, <1>2, NextPreserves DEF PosixStep, PoolIInv
  <1>3. CASE Windows /\ WindowsStep
    <2>0. WinIInv
      BY <1>3 DEF PoolIInv
    <2>1. ASSUME NEW k \in 1..5, WinObtain(k) \/ WinCreateFails(k) PROVE WinIInv'
      BY <2>0, <2>1, WinObtainStep, WinCreateFailsStep
    <2>2. ASSUME NEW t \in Worker, WinWorker(t) PROVE WinIInv'
      BY <2>0, <2>2, WinWakeStep, WinCheckStep, WinCallStep, WinReturnStep, WinReportStep,
         WinSignalStep DEF WinWorker
    <2>3. ASSUME WinCaller PROVE WinIInv'
      BY <2>0, <2>3, WinRunStep, WinJoinStep, WinTerminateStep DEF WinCaller
    <2>4. ASSUME NEW p \in 0..NW, Begin(p), Keep PROVE WinIInv'
      BY <2>0, <2>4, BeginInWindows
    <2>5. ASSUME Keep, Ready \/ Delete \/ UNCHANGED vars PROVE WinIInv'
      BY <2>0, <2>5, ReadyInWindows, DeleteInWindows, WinStutter
    <2>6. ASSUME Keep, Same PROVE WinIInv'
      BY <2>0, <2>6, OwnShareInWindows, ReturnInWindows, SkipReleaseInWindows, ReapInWindows,
         GoneInWindows DEF Same
    <2>7. WinIInv'
      BY <1>3, <2>1, <2>2, <2>3, <2>4, <2>5, <2>6 DEF WindowsStep
    <2> QED BY <1>1, <1>3, <2>7 DEF PoolIInv
  <1> QED BY <1>2, <1>3, StepOfAVariant

\* Every reachable state of either build satisfies its invariant.
THEOREM PoolInvariance == PoolSpec => []PoolIInv
  <1>1. PoolInit => PoolIInv
    BY PoolInitEstablishes
  <1>2. PoolIInv /\ [PoolNext]_poolVars => PoolIInv'
    BY PoolNextPreserves
  <1> QED BY <1>1, <1>2, PTL DEF PoolSpec

\* With either variant every worker has let go of a call's data when the call
\* has returned: on Windows the join waits for r_event, which its worker sets
\* after it has published the result.
THEOREM PoolQuiesces == PoolSpec => []QuietWhenIdle
  <1>1. IInv => QuietWhenIdle
    BY DEF IInv, TypeOK, QuietWhenIdle, RunInv, PlaceInv, Uncollected, Working, Status
  <1>2. WinIInv => QuietWhenIdle
    BY DEF WinIInv, WinTypeOK, QuietWhenIdle, WinRunInv, RunInv, EventInv, Uncollected, Working, Status
  <1>3. PoolIInv => QuietWhenIdle
    BY <1>1, <1>2 DEF PoolIInv
  <1> QED BY <1>3, PoolInvariance, PTL

\* With either variant a join tells the call what the task of this very call
\* returned, although Windows writes task_ret outside the critical section.
THEOREM PoolJoinsAreTrue == PoolSpec => []JoinTellsThisCall
  <1>1. PoolIInv => JoinTellsThisCall
    BY DEF PoolIInv, IInv, WinIInv
  <1> QED BY <1>1, PoolInvariance, PTL

\* With either variant the join loop keeps every failure a worker reported.
THEOREM PoolFailuresAreKept == PoolSpec => []NoFailureLost
  <1>1. PoolIInv => NoFailureLost
    BY DEF PoolIInv, IInv, WinIInv
  <1> QED BY <1>1, PoolInvariance, PTL

\* With either variant creation and release leave exactly what is in use.
THEOREM PoolResourcesAreKept == PoolSpec => []ResourcesMatch
  <1>1. PoolIInv => ResourcesMatch
    BY DEF PoolIInv, IInv, WinIInv
  <1> QED BY <1>1, PoolInvariance, PTL

----------------------------------------------------------------------------
(* The Windows variant implements TaskHandoff too                          *)


\* The steps that leave what TaskHandoff sees of every worker alone.
LEMMA WinLifeKept ==
  ASSUME \A t \in Worker : Life(t)' = Life(t), UNCHANGED <<task, last, got>>
  PROVE  UNCHANGED Handoff!vars
  BY DEF Handoff!vars

\* Every step of the Windows variant is a step of TaskHandoff or a stutter.
LEMMA WinHandoffStep ==
  ASSUME WinIInv, Windows, WindowsStep PROVE [Handoff!Next]_(Handoff!vars)
  <1> DEFINE Goal == [Handoff!Next]_(Handoff!vars)
  <1> USE DEF WinIInv, WinTypeOK
  <1>1. ASSUME NEW k \in 1..5, WinObtain(k), k = 5 PROVE Goal
    <2>1. PICK t \in Worker : t = ci
      BY <1>1 DEF WinObtain
    <2>2. /\ cpc = "create" /\ cpc' = "create" /\ ~thread_id[t]
          /\ thread_id'[t] = TRUE /\ t_status'[t] = "SUSPENDED"
      BY <1>1, <2>1 DEF WinObtain, ExistInv
    <2>3. Life(t) = "off" /\ Life(t)' = "free"
      BY <2>2 DEF Life, Uncollected
    <2>4. \A u \in Worker \ {t} : Life(u)' = Life(u)
      BY <1>1, <2>1 DEF WinObtain, Life, Uncollected
    <2>5. Handoff!Move(t, "off", "free")
      BY <2>3, <2>4 DEF Handoff!Move
    <2>6. Handoff!Start(t)
      BY <1>1, <2>5 DEF WinObtain, Handoff!Start
    <2> QED BY <2>6 DEF Handoff!Next, Handoff!Step
  <1>2. ASSUME NEW k \in 1..5, WinObtain(k), k # 5 PROVE Goal
    <2>1. UNCHANGED <<thread_id, ctxVars, worVars, cliVars>>
      BY <1>2 DEF WinObtain
    <2> QED BY <2>1, WinLifeKept DEF Life, Uncollected
  <1>3. ASSUME NEW k \in 1..5, WinCreateFails(k) PROVE Goal
    BY <1>3, WinLifeKept DEF WinCreateFails, Life, Uncollected
  <1>4. ASSUME NEW t \in Worker, WinWake(t) \/ WinCheck(t) \/ WinCall(t) PROVE Goal
    <2>1. \A u \in Worker : Life(u)' = Life(u)
      BY <1>4 DEF WinWake, WinCheck, WinCall, WinKeep, Life, Uncollected
    <2> QED BY <1>4, <2>1, WinLifeKept DEF WinWake, WinCheck, WinCall, WinKeep
  <1>5. ASSUME NEW t \in Worker, WinReturn(t) PROVE Goal
    <2>1. PICK r \in Ret : last' = [last EXCEPT ![t] = [job |-> cur[t], ret |-> r]]
      BY <1>5 DEF WinReturn
    <2>2. t_status[t] = "RUNNING" /\ thread_id[t] /\ Uncollected(t) /\ cur[t] = task[t]
      BY <1>5 DEF WinReturn, EventInv, WinRunInv, RunInv, WinJobInv, Status
    <2>3. Life(t) = "busy" /\ Life(t)' = "done"
      BY <1>5, <2>2 DEF WinReturn, WinKeep, Life, Uncollected
    <2>4. \A u \in Worker \ {t} : Life(u)' = Life(u)
      BY <1>5 DEF WinReturn, WinKeep, Life, Uncollected
    <2>5. Handoff!Move(t, "busy", "done")
      BY <2>3, <2>4 DEF Handoff!Move
    <2>6. Handoff!Finish(t)
      BY <1>5, <2>1, <2>2, <2>5 DEF WinReturn, WinKeep, Handoff!Finish
    <2> QED BY <2>6 DEF Handoff!Next, Handoff!Step
  <1>6. ASSUME NEW t \in Worker, WinReport(t) \/ WinSignal(t) PROVE Goal
    <2>1. UNCHANGED <<thread_id, cpc, ci, fan, task, last, got>>
      BY <1>6 DEF WinReport, WinSignal, WinKeep
    <2>2. \A u \in Worker \ {t} : Life(u)' = Life(u)
      BY <1>6, <2>1 DEF WinReport, WinSignal, Life, Uncollected
    <2>3. Life(t)' = Life(t)
      <3>1. CASE WinReport(t)
        <4>1. t_status[t] = "RUNNING" /\ thread_id[t] /\ t_status'[t] = "SUSPENDED"
          BY <3>1 DEF WinReport, EventInv, Status
        <4>2. Uncollected(t) /\ Uncollected(t)'
          BY <2>1, <4>1 DEF WinRunInv, RunInv, Uncollected
        <4> QED BY <2>1, <3>1, <4>1, <4>2 DEF WinReport, Life
      <3>2. CASE WinSignal(t)
        <4>1. t_status[t] = "SUSPENDED" /\ t_status' = t_status
          BY <3>2 DEF WinSignal, EventInv, Status
        <4> QED BY <2>1, <4>1 DEF Life, Uncollected
      <3> QED BY <1>6, <3>1, <3>2
    <2> QED BY <2>1, <2>2, <2>3, WinLifeKept
  <1>7. CASE WinRun
    <2>1. PICK t \in Worker : t = ci
      BY <1>7 DEF WinRun
    <2>2. /\ call \in Call /\ t_status[t] = "SUSPENDED" /\ thread_id[t] /\ wpc[t] = "asleep"
          /\ cpc = "fork" /\ t < fan
      BY <1>7, <2>1 DEF WinRun, IndexInv, ExistInv, EventInv, WinRunInv, RunInv, Status
    <2>3. /\ thread_id'[t] /\ t_status'[t] = "RUNNING" /\ wpc' = wpc /\ cpc' = "fork" /\ ci' = ci + 1
      BY <1>7, <2>1, <2>2 DEF WinRun
    <2>4. Life(t) = "free" /\ Life(t)' = "busy"
      BY <2>1, <2>2, <2>3 DEF Life, Uncollected
    <2>5. \A u \in Worker \ {t} : Life(u)' = Life(u)
      BY <1>7, <2>1, <2>3 DEF WinRun, Life, Uncollected
    <2>6. Handoff!Move(t, "free", "busy")
      BY <2>4, <2>5 DEF Handoff!Move
    <2>7. Handoff!Accept(t)
      BY <1>7, <2>1, <2>2, <2>6 DEF WinRun, Handoff!Accept
    <2> QED BY <2>7 DEF Handoff!Next, Handoff!Step
  <1>8. CASE WinJoin
    <2>1. PICK t \in Worker : t = ci
      BY <1>8 DEF WinJoin
    <2>2. thread_id[t] /\ Uncollected(t) /\ t_status[t] = "SUSPENDED"
      BY <1>8, <2>1 DEF WinJoin, ExistInv, EventInv, WinRunInv, RunInv, Uncollected, Status
    <2>3. last[t].ret = task_ret[t]
      BY <2>2 DEF WinJobInv
    <2>4. UNCHANGED <<thread_id, t_status, cpc>> /\ cpc = "join" /\ ci' = ci + 1
      BY <1>8 DEF WinJoin
    <2>5. Life(t) = "done" /\ Life(t)' = "free"
      BY <2>1, <2>2, <2>4 DEF Life, Uncollected
    <2>6. \A u \in Worker \ {t} : Life(u)' = Life(u)
      BY <1>8, <2>1 DEF WinJoin, Life, Uncollected
    <2>7. Handoff!Move(t, "done", "free")
      BY <2>5, <2>6 DEF Handoff!Move
    <2>8. Handoff!Collect(t)
      BY <1>8, <2>1, <2>3, <2>7 DEF WinJoin, Handoff!Collect
    <2> QED BY <2>8 DEF Handoff!Next, Handoff!Step
  <1>9. CASE WinTerminate
    <2>1. PICK t \in Worker : t = ci
      BY <1>9 DEF WinTerminate
    <2>2. /\ thread_id[t] /\ cpc = "release" /\ cpc' = "reap"
          /\ t_status[t] # "TERMINATED" /\ t_status'[t] = "TERMINATED"
      BY <1>9, <2>1 DEF WinTerminate, WinRunInv, RunInv
    <2>3. Life(t) = "free" /\ Life(t)' = "off"
      BY <2>2 DEF Life, Uncollected
    <2>4. \A u \in Worker \ {t} : Life(u)' = Life(u)
      BY <1>9, <2>1 DEF WinTerminate, Life, Uncollected
    <2>5. Handoff!Move(t, "free", "off")
      BY <2>3, <2>4 DEF Handoff!Move
    <2>6. Handoff!Stop(t)
      BY <1>9, <2>5 DEF WinTerminate, Handoff!Stop
    <2> QED BY <2>6 DEF Handoff!Next, Handoff!Step
  <1>10. CASE Ready \/ Delete
    BY <1>10, WinLifeKept DEF Ready, Delete, Life, Uncollected
  <1>11. ASSUME NEW p \in 0..NW, Begin(p) PROVE Goal
    BY <1>11, WinLifeKept DEF Begin, Life, Uncollected
  <1>12. CASE OwnShare
    BY <1>12, WinLifeKept DEF OwnShare, Life, Uncollected
  <1>13. CASE Return \/ SkipRelease \/ Gone
    <2>1. /\ UNCHANGED <<thread_id, t_status, wpc, fan, task, last, got>>
          /\ ~(cpc = "fork") /\ ~(cpc' = "fork") /\ ~(cpc' = "join")
          /\ cpc = "join" => ci = fan
      BY <1>13 DEF Return, SkipRelease, Gone
    <2>2. \A u \in Worker : ~Uncollected(u) /\ ~Uncollected(u)'
      BY <2>1 DEF Uncollected
    <2>3. \A u \in Worker : Life(u)' = Life(u)
      BY <2>1, <2>2 DEF Life
    <2> QED BY <2>1, <2>3, WinLifeKept
  <1>14. CASE Reap
    <2>1. /\ t_status[ci] = "TERMINATED" /\ UNCHANGED t_status
          /\ thread_id' = [thread_id EXCEPT ![ci] = FALSE] /\ cpc = "reap" /\ cpc' = "release"
      BY <1>14 DEF Reap, IndexInv
    <2>2. \A u \in Worker : Life(u)' = Life(u)
      BY <2>1 DEF Life, Uncollected
    <2> QED BY <1>14, <2>2, WinLifeKept DEF Reap
  <1>15. CASE UNCHANGED vars
    BY <1>15, WinLifeKept DEF vars, Life, Uncollected
  <1> QED BY <1>1, <1>2, <1>3, <1>4, <1>5, <1>6, <1>7, <1>8, <1>9, <1>10, <1>11, <1>12,
             <1>13, <1>14, <1>15 DEF WindowsStep, WinWorker, WinCaller, Same

\* Either variant of the pool implements TaskHandoff: the two events of the
\* Windows variant keep the same promise as the two condition variables.
THEOREM BothImplementHandoff == PoolSpec => ImplementsHandoff
  <1>1. PoolInit => Handoff!Init
    BY HandoffInit DEF PoolInit
  <1>2. PoolIInv /\ [PoolNext]_poolVars => [Handoff!Next]_(Handoff!vars)
    <2> SUFFICES ASSUME PoolIInv, [PoolNext]_poolVars PROVE [Handoff!Next]_(Handoff!vars)
      OBVIOUS
    <2>1. CASE PosixStep
      BY <2>1, HandoffStep DEF PosixStep, PoolIInv
    <2>2. CASE Windows /\ WindowsStep
      BY <2>2, WinHandoffStep DEF PoolIInv
    <2> QED BY <2>1, <2>2, StepOfAVariant
  <1> QED BY <1>1, <1>2, PoolInvariance, PTL DEF PoolSpec, ImplementsHandoff, Handoff!Spec

=============================================================================
