---------------------------- MODULE TaskThreads ----------------------------
(***************************************************************************)
(* The threads of TPoll: the loop's thread gives the calls that events ask *)
(* for to schedule, which appends each to the list of one of the threads   *)
(* of con_tasks; those run cocurrent_sub.  This is how TPoll is built for  *)
(* everything but Windows (tpoll/Makefile); the module has the Linux       *)
(* variant, where a thread without work waits on an eventfd.               *)
(*                                                                         *)
(* An action is what a thread does under one lock, or between two: what    *)
(* sch_spin guards is a step of one action; jobs_pool_spin is held over    *)
(* several of the loop's steps, from GetJob to Chosen.                     *)
(*                                                                         *)
(* The stack jobs_info is a set here: which of the free entries is taken   *)
(* makes no difference.                                                    *)
(***************************************************************************)
EXTENDS Integers, Sequences, FiniteSets

CONSTANTS Jobs,    \* the entries of jobs_buf
          Calls,   \* an object and the message it is to get
          NoJob, NoCall,
          concurrent_num  \* how many threads there are

ASSUME NumAssumption == concurrent_num \in Nat \ {0}
ASSUME JobAssumption == NoJob \notin Jobs
ASSUME CallAssumption == NoCall \notin Calls

Threads == 0 .. concurrent_num - 1

VARIABLES
    pc,        \* where the loop's thread is: outside schedule ("ready"), at
               \* one of its steps, or past a get_job that found no entry
    a_job, just_he, low_many, i, \* the locals of schedule
    info,      \* jobs_info: the entries nobody uses
    entry,     \* obj and ps of each entry
    job_list, many, isWaiting, \* SchThread
    work_Evt,  \* the counter of the thread's eventfd
    at,        \* where each thread is in cocurrent_sub
    prj        \* the entry it works on

scan == <<just_he, low_many, i>>
loop == <<pc, a_job, scan>>
task == <<job_list, many, isWaiting, work_Evt>>
worker == <<at, prj>>
vars == <<loop, info, entry, task, worker>>

TypeOK ==
    /\ pc \in {"ready", "choose", "append", "notify", "lost"}
    /\ a_job \in Jobs \cup {NoJob}
    /\ just_he \in Threads
    /\ low_many \in Nat
    /\ i \in 1 .. concurrent_num
    /\ info \subseteq Jobs
    /\ entry \in [Jobs -> Calls \cup {NoCall}]
    /\ job_list \in [Threads -> Seq(Jobs)]
    /\ many \in [Threads -> Nat]
    /\ isWaiting \in [Threads -> BOOLEAN]
    /\ work_Evt \in [Threads -> Nat]
    /\ at \in [Threads -> {"look", "wait", "woken", "call", "put"}]
    /\ prj \in [Threads -> Jobs \cup {NoJob}]

\* The entries are made by jobs_init when jobs_top, which nothing sets before (1395),
\* happens to be below 0, and by the first get_job when it happens to be 0; above 0
\* the program is lost at once.
Init ==
    /\ pc = "ready" /\ a_job = NoJob
    /\ just_he = 0 /\ low_many = 0 /\ i = 1
    /\ info = Jobs
    /\ entry = [j \in Jobs |-> NoCall]
    /\ job_list = [t \in Threads |-> << >>]
    /\ many = [t \in Threads |-> 0]
    /\ isWaiting = [t \in Threads |-> FALSE]
    /\ work_Evt = [t \in Threads |-> 0]
    /\ at = [t \in Threads |-> "look"]
    /\ prj = [t \in Threads |-> NoJob]

(***************************************************************************)
(* schedule                                                                *)
(***************************************************************************)
\* (mutant of GetJob) the entry stays on the stack.
GetJobKeeps(c) ==
    /\ pc = "ready" /\ pc' = "choose"
    /\ a_job' \in info
    /\ entry' = [entry EXCEPT ![a_job'] = c]
    /\ just_he' = 0 /\ low_many' = many[0] /\ i' = 1
    /\ UNCHANGED <<info, task, worker>>

GetJob(c) ==
    /\ pc = "ready" /\ pc' = "choose"
    /\ a_job' \in info
    /\ info' = info \ {a_job'}
    /\ entry' = [entry EXCEPT ![a_job'] = c]
    /\ just_he' = 0 /\ low_many' = many[0] /\ i' = 1
    /\ UNCHANGED <<task, worker>>

\* get_job finds no entry and makes twice as many: it deletes the old ones, all
\* of which are in use.  What happens from then on is undefined, and not followed.
NoEntry ==
    /\ pc = "ready" /\ info = {}
    /\ pc' = "lost"
    /\ UNCHANGED <<a_job, scan, info, entry, task, worker>>

Lost == pc = "lost" /\ UNCHANGED vars

\* The counters are read without the locks of their threads.
Compare ==
    /\ pc = "choose" /\ i < concurrent_num
    /\ IF many[i] < low_many
       THEN low_many' = many[i] /\ just_he' = i
       ELSE UNCHANGED <<low_many, just_he>>
    /\ i' = i + 1
    /\ UNCHANGED <<pc, a_job, info, entry, task, worker>>

Chosen ==
    /\ pc = "choose" /\ i = concurrent_num
    /\ pc' = "append"
    /\ UNCHANGED <<a_job, scan, info, entry, task, worker>>

\* (mutant of Notified) a thread is notified only with its second job.
NotifiedLate(t) == many[t] = 1 /\ isWaiting[t]

\* will_notify
Notified(t) == many[t] = 0 /\ isWaiting[t]

AppendJob ==
    /\ pc = "append"
    /\ pc' = IF Notified(just_he) THEN "notify" ELSE "ready"
    /\ job_list' = [job_list EXCEPT ![just_he] = Append(@, a_job)]
    /\ many' = [many EXCEPT ![just_he] = @ + 1]
    /\ a_job' = NoJob
    /\ UNCHANGED <<scan, info, entry, isWaiting, work_Evt, worker>>

Notify ==
    /\ pc = "notify" /\ pc' = "ready"
    /\ work_Evt' = [work_Evt EXCEPT ![just_he] = @ + 1]
    /\ UNCHANGED <<a_job, scan, info, entry, job_list, many, isWaiting, worker>>

(***************************************************************************)
(* cocurrent_sub                                                           *)
(***************************************************************************)
\* (mutant of Remove) remove takes the whole list with the job.
RemoveAll(t) ==
    /\ prj' = [prj EXCEPT ![t] = Head(job_list[t])]
    /\ job_list' = [job_list EXCEPT ![t] = << >>]
    /\ many' = [many EXCEPT ![t] = 0]

Remove(t) ==
    /\ prj' = [prj EXCEPT ![t] = Head(job_list[t])]
    /\ job_list' = [job_list EXCEPT ![t] = Tail(@)]
    /\ many' = [many EXCEPT ![t] = @ - 1]

TakeJob(t) ==
    /\ at[t] = "look" /\ many[t] > 0
    /\ at' = [at EXCEPT ![t] = "call"]
    /\ Remove(t)
    /\ UNCHANGED <<loop, info, entry, isWaiting, work_Evt>>

\* (mutant of GoToWait) the loop is not told.
GoToWaitUnseen(t) ==
    /\ at[t] = "look" /\ many[t] = 0
    /\ at' = [at EXCEPT ![t] = "wait"]
    /\ UNCHANGED <<loop, info, entry, task, prj>>

GoToWait(t) ==
    /\ at[t] = "look" /\ many[t] = 0
    /\ at' = [at EXCEPT ![t] = "wait"]
    /\ isWaiting' = [isWaiting EXCEPT ![t] = TRUE]
    /\ UNCHANGED <<loop, info, entry, job_list, many, work_Evt, prj>>

\* read, of an eventfd that does not count down.
Wake(t) ==
    /\ at[t] = "wait" /\ work_Evt[t] > 0
    /\ at' = [at EXCEPT ![t] = "woken"]
    /\ work_Evt' = [work_Evt EXCEPT ![t] = 0]
    /\ UNCHANGED <<loop, info, entry, job_list, many, isWaiting, prj>>

Resume(t) ==
    /\ at[t] = "woken"
    /\ at' = [at EXCEPT ![t] = "look"]
    /\ isWaiting' = [isWaiting EXCEPT ![t] = FALSE]
    /\ UNCHANGED <<loop, info, entry, job_list, many, work_Evt, prj>>

\* The call of facio returns.
Return(t) ==
    /\ at[t] = "call"
    /\ at' = [at EXCEPT ![t] = "put"]
    /\ UNCHANGED <<loop, info, entry, task, prj>>

\* put_job waits for jobs_pool_spin.
PutJob(t) ==
    /\ at[t] = "put" /\ pc # "choose"
    /\ at' = [at EXCEPT ![t] = "look"]
    /\ info' = info \cup {prj[t]}
    /\ prj' = [prj EXCEPT ![t] = NoJob]
    /\ UNCHANGED <<loop, entry, task>>

Schedule == Compare \/ Chosen \/ AppendJob \/ Notify

Sub(t) ==
    /\ pc # "lost"
    /\ \/ TakeJob(t) \/ GoToWait(t) \/ Wake(t)
       \/ Resume(t) \/ Return(t) \/ PutJob(t)

Next ==
    \/ \E c \in Calls : GetJob(c)
    \/ Schedule \/ NoEntry \/ Lost
    \/ \E t \in Threads : Sub(t)

Spec == Init /\ [][Next]_vars

\* The threads run and facio returns; a thread that keeps trying gets a lock.
Fairness ==
    /\ WF_vars(Schedule)
    /\ \A t \in Threads : WF_vars(Sub(t)) /\ SF_vars(pc # "lost" /\ PutJob(t))

FairSpec == Spec /\ Fairness

(***************************************************************************)
(* Properties                                                              *)
(***************************************************************************)
Listed(j, t) == \E k \in DOMAIN job_list[t] : job_list[t][k] = j
Waiting(j) == j = a_job \/ \E t \in Threads : Listed(j, t)

\* A thread that waits while it has a job is about to be woken: the job came
\* either before it looked, or after it had set isWaiting (schedule's will_notify
\* against cocurrent_sub's two locked sections).
WokenWhenOwed ==
    \A t \in Threads :
       at[t] = "wait" /\ many[t] > 0 =>
          work_Evt[t] > 0 \/ (pc = "notify" /\ just_he = t)

\* "now, task->many > 0, main thread will not notify" (TPoll.cpp:475): a thread
\* that is woken has a job, and while it has, no second wake-up is on its way.
WokenFindsWork ==
    \A t \in Threads :
       /\ at[t] = "woken" \/ work_Evt[t] > 0 => many[t] > 0
       /\ at[t] # "wait" => work_Evt[t] = 0 /\ ~(pc = "notify" /\ just_he = t)

\* jobs_pool_spin and the threads' own locks lose no entry and give none to two:
\* each is on the stack, in the hand of schedule, in one list, once, or with one
\* thread; and many counts the list.
Disjoint ==
    /\ \A t \in Threads :
          /\ Len(job_list[t]) = many[t]
          /\ \A k, l \in 1 .. Len(job_list[t]) :
                job_list[t][k] = job_list[t][l] => k = l
          /\ \A u \in Threads, k \in 1 .. Len(job_list[t]) :
                /\ prj[u] # job_list[t][k]
                /\ u # t => ~Listed(job_list[t][k], u)
          /\ \A k \in 1 .. Len(job_list[t]) :
                job_list[t][k] \notin info \cup {a_job}
          /\ prj[t] # NoJob => prj[t] \notin info \cup {a_job}
          /\ \A u \in Threads : prj[t] = prj[u] /\ prj[t] # NoJob => t = u
    /\ a_job \notin info

JobsAccounted ==
    /\ Disjoint
    /\ \A j \in Jobs : j \in info \/ Waiting(j) \/ \E t \in Threads : prj[t] = j

\* The calls given to schedule are made: each once, as it was given.
Owed == [j \in Jobs |-> IF Waiting(j) THEN entry[j] ELSE NoCall]
Making == [t \in Threads |-> IF at[t] = "call" THEN entry[prj[t]] ELSE NoCall]

Promise == INSTANCE JobBag WITH owed <- Owed, making <- Making
KeepsItsPromise == Promise!Spec

\* Each call given is begun, unless the entries run out.
JobsAreCalled == \A j \in Jobs : Waiting(j) ~> (~Waiting(j) \/ pc = "lost")

\* get_job's "there is not enough room: enlarge it" (TPoll.cpp:345).
JobsOutliveGrowth == pc # "lost"
=============================================================================
