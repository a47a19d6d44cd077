----------------------------- MODULE CronService -----------------------------
(***************************************************************************)
(* The scheduler of infra/cron_service.c: the jobs in memory and on flash, *)
(* the cron thread, and the tools (tools/tool_cron.c) that add and remove  *)
(* jobs from the agent's thread.  Every public function holds s_cron_lock  *)
(* from its first read to the end of its save, so each is one action; the  *)
(* cron thread holds it while it fires jobs one after the other.  The      *)
(* power may fail at any moment.                                           *)
(***************************************************************************)
EXTENDS Naturals, Sequences

CONSTANTS Ids,        \* 1..n: rand() is taken to give a new id each time, numbered in that order
          MaxJobs,    \* AGENT_CRON_MAX_JOBS
          Intervals,  \* interval_s of "every" jobs
          CronActions, \* with TRUE in it, a job's action may be a cron_* tool
          MaxTime,    \* bound on the clock
          MaxBoots    \* bound on power failures

VARIABLES jobs,     \* s_jobs
          file,     \* AGENT_CRON_FILE: the jobs a restart would load
          now,      \* time(NULL), which does not go back
          running,  \* s_cron_running; "stopped" once the agent shuts down
          cpc, i,   \* cron_task_main and its loop variable, from 1
          sampled,  \* now, as read before the lock was taken
          changed,  \* of cron_process_due_jobs
          boots,    \* power failures so far
          used,     \* ids given out
          gone,     \* ids of jobs whose end was saved
          fired     \* fired[id]: how often an "at" job fired

vars == <<jobs, file, now, running, cpc, i, sampled, changed, boots, used, gone, fired>>

Job == [id : Ids, kind : {"every", "at"}, time : 0 .. MaxTime, enabled : BOOLEAN,
        next : Nat, once : BOOLEAN, relocks : CronActions]
IdsOf(s) == {s[k].id : k \in DOMAIN s}
Without(s, k) == SubSeq(s, 1, k - 1) \o SubSeq(s, k + 1, Len(s))
LockFree == cpc \in {"off", "wait", "woken"}

Init ==
  /\ jobs = <<>> /\ file = <<>> /\ now = 1 /\ running = "no"
  /\ cpc = "off" /\ i = 0 /\ sampled = 0 /\ changed = FALSE /\ boots = 0
  /\ used = {} /\ gone = {} /\ fired = [id \in Ids |-> 0]

(* cron_save_jobs: fopen("w") empties the file and fwrite fills it; opening *)
(* may fail, which leaves the old file, and writing may fall short, which   *)
(* leaves one that cron_load_jobs can make nothing of.                      *)
Save(content) ==
  \/ /\ file' = content
     /\ gone' = used' \ IdsOf(content)
  \/ file' \in {file, <<>>} /\ UNCHANGED gone

-----------------------------------------------------------------------------
(* What cron_service_start does to a job: a stale one is disabled, one      *)
(* without a next run gets it.                                              *)
Rearmed(job) ==
  CASE ~job.enabled -> job
    [] job.enabled /\ job.next > 0 /\ job.next <= now -> [job EXCEPT !.enabled = FALSE, !.next = 0]
    [] job.enabled /\ job.next = 0 /\ job.kind = "every" -> [job EXCEPT !.next = now + job.time]
    [] job.enabled /\ job.next = 0 /\ job.kind = "at" /\ job.time > now -> [job EXCEPT !.next = job.time]
    [] OTHER -> job

Stale(job) == job.enabled /\ job.next > 0 /\ job.next <= now

(* cron_service_start, from the main thread or the shell's cron_start; the  *)
(* thread may not be created.                                               *)
Start ==
  /\ running = "no" /\ cpc = "off"
  /\ jobs' = [k \in DOMAIN jobs |-> Rearmed(jobs[k])]
  /\ UNCHANGED used
  /\ IF \E k \in DOMAIN jobs : Stale(jobs[k]) THEN Save(jobs') ELSE UNCHANGED <<file, gone>>
  /\ \/ running' = "yes" /\ cpc' = "wait"
     \/ UNCHANGED <<running, cpc>>
  /\ UNCHANGED <<now, i, sampled, changed, boots, fired>>

(* cron_service_stop, when the agent shuts down *)
Stop ==
  /\ running = "yes"
  /\ running' = "stopped"
  /\ UNCHANGED <<jobs, file, now, cpc, i, sampled, changed, boots, used, gone, fired>>

Store(job) == Len(jobs) < MaxJobs /\ jobs' = Append(jobs, job)

(* cron_add_job.  parse_at_schedule refuses a time that is past, but the    *)
(* clock may tick before compute_initial_next_run looks at it again.        *)
Add(id) ==
  /\ LockFree /\ used = 1 .. id - 1
  /\ used' = used \cup {id}
  /\ \E relocks \in CronActions :
       \/ \E s \in Intervals :
            Store([id |-> id, kind |-> "every", time |-> s, enabled |-> TRUE,
                   next |-> now + s, once |-> FALSE, relocks |-> relocks])
       \/ \E t \in now .. MaxTime, once \in BOOLEAN :
            Store([id |-> id, kind |-> "at", time |-> t, enabled |-> t > now,
                   next |-> IF t > now THEN t ELSE 0, once |-> once, relocks |-> relocks])
  /\ Save(jobs')
  /\ UNCHANGED <<now, running, cpc, i, sampled, changed, boots, fired>>

(* cron_remove_job; an id that is not found changes nothing *)
Remove(id) ==
  /\ LockFree
  /\ \E k \in DOMAIN jobs : jobs[k].id = id /\ jobs' = Without(jobs, k)
  /\ UNCHANGED used
  /\ Save(jobs')
  /\ UNCHANGED <<now, running, cpc, i, sampled, changed, boots, fired>>

-----------------------------------------------------------------------------
(* The timed wait ends (time out, a signal of cron_add_job or none at all)  *)
(* and cron_process_due_jobs reads the clock before it takes the lock.      *)
Wake ==
  /\ cpc = "wait"
  /\ cpc' = "woken" /\ sampled' = now
  /\ UNCHANGED <<jobs, file, now, running, i, changed, boots, used, gone, fired>>

TakeLock ==
  /\ cpc = "woken"
  /\ cpc' = "scan" /\ i' = 1 /\ changed' = FALSE
  /\ UNCHANGED <<jobs, file, now, running, sampled, boots, used, gone, fired>>

Due(job) == job.enabled /\ job.next > 0 /\ job.next <= sampled

Skip ==
  /\ cpc = "scan" /\ i <= Len(jobs) /\ ~Due(jobs[i])
  /\ i' = i + 1
  /\ UNCHANGED <<jobs, file, now, running, cpc, sampled, changed, boots, used, gone, fired>>

(* What is left of a job that fired and is not deleted *)
AfterFiring(job) ==
  IF job.kind = "at" THEN [job EXCEPT !.enabled = FALSE, !.next = 0]
                     ELSE [job EXCEPT !.next = sampled + job.time]

(* cron_fire_job runs the action and pushes the message outbound, whatever  *)
(* comes of either.  An action that is itself a cron_* tool locks           *)
(* s_cron_lock, which this thread holds: the call never returns.            *)
Fire ==
  /\ cpc = "scan" /\ i <= Len(jobs) /\ Due(jobs[i])
  /\ IF jobs[i].relocks
     THEN cpc' = "stuck" /\ UNCHANGED <<jobs, i, changed, fired>>
     ELSE /\ fired' = [fired EXCEPT ![jobs[i].id] = IF jobs[i].kind = "at" THEN @ + 1 ELSE @]
          /\ IF jobs[i].kind = "at" /\ jobs[i].once
             THEN jobs' = Without(jobs, i) /\ UNCHANGED i
             ELSE jobs' = [jobs EXCEPT ![i] = AfterFiring(@)] /\ i' = i + 1
          /\ changed' = TRUE
          /\ UNCHANGED cpc
  /\ UNCHANGED <<file, now, running, sampled, boots, used, gone>>

EndScan ==
  /\ cpc = "scan" /\ i > Len(jobs)
  /\ UNCHANGED used
  /\ IF changed THEN Save(jobs) ELSE UNCHANGED <<file, gone>>
  /\ cpc' = IF running = "yes" THEN "wait" ELSE "off"
  /\ i' = 0 /\ sampled' = 0 /\ changed' = FALSE
  /\ UNCHANGED <<jobs, now, running, boots, fired>>

-----------------------------------------------------------------------------
Tick ==
  /\ now < MaxTime
  /\ now' = now + 1
  /\ UNCHANGED <<jobs, file, running, cpc, i, sampled, changed, boots, used, gone, fired>>

(* The power fails; cron_load_jobs of the next boot reads the file.         *)
Boot ==
  /\ boots < MaxBoots
  /\ boots' = boots + 1
  /\ jobs' = file
  /\ running' = "no" /\ cpc' = "off" /\ i' = 0 /\ sampled' = 0 /\ changed' = FALSE
  /\ UNCHANGED <<file, now, used, gone, fired>>

CronStep == Wake \/ TakeLock \/ Skip \/ Fire \/ EndScan
Next == Start \/ Stop \/ (\E id \in Ids : Add(id) \/ Remove(id)) \/ CronStep \/ Tick \/ Boot

(* The thread's timed wait ends and its steps are not blocked for ever.     *)
Spec == Init /\ [][Next]_vars /\ WF_vars(CronStep)

-----------------------------------------------------------------------------
TypeOK ==
  /\ jobs \in Seq(Job) /\ Len(jobs) <= MaxJobs
  /\ file \in Seq(Job)
  /\ now \in 1 .. MaxTime /\ running \in {"no", "yes", "stopped"}
  /\ cpc \in {"off", "wait", "woken", "scan", "stuck"}
  /\ i \in 0 .. MaxJobs + 1 /\ sampled \in 0 .. MaxTime /\ changed \in BOOLEAN
  /\ used \subseteq Ids /\ gone \subseteq used

(* A reminder for one moment fires once, although the power may fail        *)
(* between the firing and the save that records it: the restart finds the   *)
(* job in the past and disables it.                                         *)
FiresOnce == \A id \in Ids : fired[id] <= 1

(* A job whose end has been saved does not come back: not while the thread  *)
(* walks over the shifted array, not with a restart, not after a later save *)
(* that failed.                                                             *)
GoneStaysGone == gone \cap IdsOf(jobs) = {}

(* A job that is due fires (which moves its next run on), unless it is      *)
(* removed, the service stops or the power fails.                           *)
IsDue(id) == \E k \in DOMAIN jobs : jobs[k].id = id /\ jobs[k].enabled
                                    /\ jobs[k].next > 0 /\ jobs[k].next <= now
Overdue == running = "yes" /\ \E id \in Ids : IsDue(id)
DueJobFires ==
  \A id \in Ids : (IsDue(id) /\ running = "yes") ~> (~IsDue(id) \/ running # "yes")
=============================================================================
