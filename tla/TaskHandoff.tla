---------------------------- MODULE TaskHandoff ----------------------------
(***************************************************************************)
(* What a pool of worker threads promises to the codec that owns it.       *)
(* A worker that is free accepts one job, runs it exactly once, and keeps  *)
(* the outcome until the caller collects it; only then does it accept      *)
(* another job or stop.  Nothing is said of locks, condition variables or  *)
(* events: TPool (src/oapv_tpool.c) is shown to implement this module.     *)
(***************************************************************************)
EXTENDS Naturals

CONSTANTS Worker,   \* the worker threads of the pool
          Job,      \* the jobs a caller hands out
          Ret       \* the values a job can return

VARIABLES life,     \* where each worker stands
          job,      \* the job each worker accepted last
          out,      \* the job each worker ran last, with what it returned
          got       \* what the caller was last told by each worker

vars == <<life, job, out, got>>

Outcome == [job : Job, ret : Ret]

Init == /\ life = [t \in Worker |-> "off"]
        /\ job \in [Worker -> Job]
        /\ out \in [Worker -> Outcome]
        /\ got \in [Worker -> Ret]

Move(t, from, to) == life[t] = from /\ life' = [life EXCEPT ![t] = to]

Start(t) == Move(t, "off", "free") /\ UNCHANGED <<job, out, got>>

Accept(t) == /\ Move(t, "free", "busy")
             /\ \E j \in Job : job' = [job EXCEPT ![t] = j]
             /\ UNCHANGED <<out, got>>

\* The job that was accepted is the one that was run.
Finish(t) == /\ Move(t, "busy", "done")
             /\ \E r \in Ret :
                  out' = [out EXCEPT ![t] = [job |-> job[t], ret |-> r]]
             /\ UNCHANGED <<job, got>>

\* The caller is told what that job returned.
Collect(t) == /\ Move(t, "done", "free")
              /\ got' = [got EXCEPT ![t] = out[t].ret]
              /\ UNCHANGED <<job, out>>

Stop(t) == Move(t, "free", "off") /\ UNCHANGED <<job, out, got>>

Step(t) == Start(t) \/ Accept(t) \/ Finish(t) \/ Collect(t) \/ Stop(t)

Next == \E t \in Worker : Step(t)

Spec == Init /\ [][Next]_vars
=============================================================================
