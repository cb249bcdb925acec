------------------------- MODULE TaskThreadsProofs -------------------------
(***************************************************************************)
(* For any number of threads and entries: no thread of TPoll sleeps on a   *)
(* job, none is woken for nothing, no entry is lost or in two places, and  *)
(* schedule and cocurrent_sub implement JobBag.                            *)
(***************************************************************************)
EXTENDS TaskThreads, SequenceTheorems, TLAPS

\* Where there is an entry in hand, and that many counts the list.
Shape ==
    /\ a_job # NoJob <=> pc \in {"choose", "append"}
    /\ \A t \in Threads : prj[t] # NoJob <=> at[t] \in {"call", "put"}
    /\ \A t \in Threads : many[t] = Len(job_list[t])

Typed == TypeOK /\ Shape

LEMMA ThreadsAreNumbers == 0 \in Threads /\ \A t \in Threads : t \in Nat
BY NumAssumption DEF Threads

LEMMA InitTyped == Init => Typed
<1> SUFFICES ASSUME Init PROVE Typed
  OBVIOUS
<1>1. << >> \in Seq(Jobs) /\ Len(<< >>) = 0
  OBVIOUS
<1> QED
  BY <1>1, ThreadsAreNumbers, NumAssumption DEF Init, Typed, TypeOK, Shape

LEMMA StepTyped == Typed /\ [Next]_vars => Typed'
<1> SUFFICES ASSUME Typed, [Next]_vars PROVE Typed'
  OBVIOUS
<1> USE JobAssumption, CallAssumption DEF Typed, Shape
<1>1. ASSUME NEW c \in Calls, GetJob(c) PROVE Typed'
  <2>1. 1 \in 1 .. concurrent_num
    BY NumAssumption
  <2> QED
    BY <1>1, <2>1, ThreadsAreNumbers DEF GetJob, TypeOK, task, worker
<1>2. CASE NoEntry
  BY <1>2 DEF NoEntry, TypeOK, scan, task, worker
<1>3. CASE Lost
  BY <1>3 DEF Lost, TypeOK, vars, loop, scan, task, worker
<1>4. CASE Compare
  <2>1. i \in Threads /\ i + 1 \in 1 .. concurrent_num
    BY <1>4, NumAssumption DEF Compare, TypeOK, Threads
  <2> QED
    BY <1>4, <2>1 DEF Compare, TypeOK, task, worker
<1>5. CASE Chosen
  BY <1>5 DEF Chosen, TypeOK, scan, task, worker
<1>6. CASE AppendJob
  <2>1. /\ a_job \in Jobs
        /\ job_list[just_he] \in Seq(Jobs)
    BY <1>6 DEF AppendJob, TypeOK
  <2>2. /\ Append(job_list[just_he], a_job) \in Seq(Jobs)
        /\ Len(Append(job_list[just_he], a_job)) = Len(job_list[just_he]) + 1
    BY <2>1
  <2> QED
    BY <1>6, <2>2 DEF AppendJob, TypeOK, scan, worker
<1>7. CASE Notify
  BY <1>7 DEF Notify, TypeOK, scan, worker
<1>8. ASSUME NEW t \in Threads, TakeJob(t) PROVE Typed'
  <2>1. job_list[t] \in Seq(Jobs) /\ job_list[t] # << >>
    BY <1>8 DEF TakeJob, TypeOK
  <2>2. /\ Head(job_list[t]) \in Jobs
        /\ Tail(job_list[t]) \in Seq(Jobs)
        /\ Len(Tail(job_list[t])) = Len(job_list[t]) - 1
    BY <2>1, HeadTailProperties
  <2>3. many[t] - 1 \in Nat
    BY <1>8 DEF TakeJob, TypeOK
  <2> QED
    BY <1>8, <2>2, <2>3 DEF TakeJob, Remove, TypeOK, loop, scan
<1>9. ASSUME NEW t \in Threads, GoToWait(t) PROVE Typed'
  BY <1>9 DEF GoToWait, TypeOK, loop, scan
<1>10. ASSUME NEW t \in Threads, Wake(t) PROVE Typed'
  BY <1>10 DEF Wake, TypeOK, loop, scan
<1>11. ASSUME NEW t \in Threads, Resume(t) PROVE Typed'
  BY <1>11 DEF Resume, TypeOK, loop, scan
<1>12. ASSUME NEW t \in Threads, Return(t) PROVE Typed'
  BY <1>12 DEF Return, TypeOK, loop, scan, task
<1>13. ASSUME NEW t \in Threads, PutJob(t) PROVE Typed'
  BY <1>13 DEF PutJob, TypeOK, loop, scan, task
<1>14. CASE UNCHANGED vars
  BY <1>14 DEF TypeOK, vars, loop, scan, task, worker
<1> QED
  BY <1>1, <1>2, <1>3, <1>4, <1>5, <1>6, <1>7, <1>8, <1>9, <1>10, <1>11, <1>12,
     <1>13, <1>14 DEF Next, Schedule, Sub

\* Every variable keeps its type.
THEOREM TypeCorrect == Spec => []TypeOK
<1>1. Typed => TypeOK
  BY DEF Typed
<1> QED
  BY <1>1, InitTyped, StepTyped, PTL DEF Spec

(***************************************************************************)
(* Waking.                                                                 *)
(***************************************************************************)
\* A notification is under way, or the counter is up, only for a thread that
\* waits and has a job, and never both; isWaiting lasts from the one to the other
\* locked section.
Waking ==
    /\ \A t \in Threads : isWaiting[t] <=> at[t] \in {"wait", "woken"}
    /\ \A t \in Threads : work_Evt[t] > 0 => at[t] = "wait" /\ many[t] > 0
    /\ pc = "notify" =>
          at[just_he] = "wait" /\ many[just_he] > 0 /\ work_Evt[just_he] = 0

WInv == Typed /\ Waking /\ WokenWhenOwed /\ WokenFindsWork

LEMMA InitWInv == Init => WInv
BY InitTyped, ThreadsAreNumbers DEF Init, WInv, Waking, WokenWhenOwed, WokenFindsWork

LEMMA StepWInv == WInv /\ [Next]_vars => WInv'
<1> SUFFICES ASSUME WInv, [Next]_vars PROVE WInv'
  OBVIOUS
<1>0. Typed'
  BY StepTyped DEF WInv
<1>t. /\ just_he \in Threads
      /\ many \in [Threads -> Nat] /\ work_Evt \in [Threads -> Nat]
      /\ isWaiting \in [Threads -> BOOLEAN]
      /\ at \in [Threads -> {"look", "wait", "woken", "call", "put"}]
  BY DEF WInv, Typed, TypeOK
<1>w. Waking /\ WokenWhenOwed /\ WokenFindsWork
  BY DEF WInv
<1> SUFFICES Waking' /\ WokenWhenOwed' /\ WokenFindsWork'
  BY <1>0 DEF WInv
<1> USE <1>t, <1>w DEF Waking, WokenWhenOwed, WokenFindsWork
<1>1. ASSUME NEW c \in Calls, GetJob(c)
      PROVE Waking' /\ WokenWhenOwed' /\ WokenFindsWork'
  BY <1>1 DEF GetJob, task, worker
<1>2. CASE NoEntry
  BY <1>2 DEF NoEntry, scan, task, worker
<1>3. CASE Lost
  BY <1>3 DEF Lost, vars, loop, scan, task, worker
<1>4. CASE Compare
  BY <1>4 DEF Compare, task, worker
<1>5. CASE Chosen
  BY <1>5 DEF Chosen, scan, task, worker
<1>6. CASE AppendJob
  <2>1. /\ many' = [many EXCEPT ![just_he] = @ + 1]
        /\ UNCHANGED <<just_he, isWaiting, work_Evt, at>>
        /\ pc' = IF Notified(just_he) THEN "notify" ELSE "ready"
        /\ pc = "append"
    BY <1>6 DEF AppendJob, scan, worker
  <2>2. \A t \in Threads : many'[t] >= many[t] /\ (t # just_he => many'[t] = many[t])
    BY <2>1
  <2>3. many'[just_he] > 0
    BY <2>1
  <2>4. CASE Notified(just_he)
    BY <2>1, <2>2, <2>3, <2>4 DEF Notified
  <2>5. CASE ~Notified(just_he)
    BY <2>1, <2>2, <2>3, <2>5 DEF Notified
  <2> QED
    BY <2>4, <2>5
<1>7. CASE Notify
  BY <1>7 DEF Notify, scan, worker
<1>8. ASSUME NEW t \in Threads, TakeJob(t)
      PROVE Waking' /\ WokenWhenOwed' /\ WokenFindsWork'
  BY <1>8 DEF TakeJob, Remove, loop, scan
<1>9. ASSUME NEW t \in Threads, GoToWait(t)
      PROVE Waking' /\ WokenWhenOwed' /\ WokenFindsWork'
  BY <1>9 DEF GoToWait, loop, scan
<1>10. ASSUME NEW t \in Threads, Wake(t)
       PROVE Waking' /\ WokenWhenOwed' /\ WokenFindsWork'
  BY <1>10 DEF Wake, loop, scan
<1>11. ASSUME NEW t \in Threads, Resume(t)
       PROVE Waking' /\ WokenWhenOwed' /\ WokenFindsWork'
  BY <1>11 DEF Resume, loop, scan
<1>12. ASSUME NEW t \in Threads, Return(t)
       PROVE Waking' /\ WokenWhenOwed' /\ WokenFindsWork'
  BY <1>12 DEF Return, loop, scan, task
<1>13. ASSUME NEW t \in Threads, PutJob(t)
       PROVE Waking' /\ WokenWhenOwed' /\ WokenFindsWork'
  BY <1>13 DEF PutJob, loop, scan, task
<1>14. CASE UNCHANGED vars
  BY <1>14 DEF vars, loop, scan, task, worker
<1> QED
  BY <1>1, <1>2, <1>3, <1>4, <1>5, <1>6, <1>7, <1>8, <1>9, <1>10, <1>11, <1>12,
     <1>13, <1>14 DEF Next, Schedule, Sub

\* No wake-up is lost between will_notify and isWaiting: a thread that waits and
\* has a job is about to be woken.
THEOREM NoLostWakeUp == Spec => []WokenWhenOwed
<1>1. WInv => WokenWhenOwed
  BY DEF WInv
<1> QED
  BY <1>1, InitWInv, StepWInv, PTL DEF Spec

\* A thread that is woken has a job, and is not notified again while it has.
THEOREM NoIdleWakeUp == Spec => []WokenFindsWork
<1>1. WInv => WokenFindsWork
  BY DEF WInv
<1> QED
  BY <1>1, InitWInv, StepWInv, PTL DEF Spec

(***************************************************************************)
(* The entries.                                                            *)
(***************************************************************************)
\* What is given is filled in.
Filled ==
    \A j \in Jobs :
       Waiting(j) \/ (\E t \in Threads : prj[t] = j) => entry[j] \in Calls

AInv == Typed /\ JobsAccounted /\ Filled

LEMMA InitAInv == Init => AInv
<1> SUFFICES ASSUME Init PROVE AInv
  OBVIOUS
<1>1. Typed
  BY InitTyped
<1>2. Len(<< >>) = 0 /\ DOMAIN << >> = {}
  OBVIOUS
<1> QED
  BY <1>1, <1>2, JobAssumption
  DEF Init, AInv, JobsAccounted, Disjoint, Listed, Waiting, Filled

\* What append and remove make of the lists.
LEMMA AppendedLists ==
  ASSUME Typed, AppendJob
  PROVE  /\ \A t \in Threads : Len(job_list[t]) \in Nat
         /\ Len(job_list'[just_he]) = Len(job_list[just_he]) + 1
         /\ job_list'[just_he][Len(job_list[just_he]) + 1] = a_job
         /\ \A k \in 1 .. Len(job_list[just_he]) :
               job_list'[just_he][k] = job_list[just_he][k]
         /\ \A t \in Threads : t # just_he => job_list'[t] = job_list[t]
<1>1. /\ just_he \in Threads /\ a_job \in Jobs
      /\ job_list \in [Threads -> Seq(Jobs)]
      /\ job_list' = [job_list EXCEPT ![just_he] = Append(@, a_job)]
  BY JobAssumption DEF Typed, Shape, TypeOK, AppendJob
<1>2. \A t \in Threads : Len(job_list[t]) \in Nat
  BY <1>1
<1>3. /\ Len(Append(job_list[just_he], a_job)) = Len(job_list[just_he]) + 1
      /\ \A k \in 1 .. Len(job_list[just_he]) :
            Append(job_list[just_he], a_job)[k] = job_list[just_he][k]
      /\ Append(job_list[just_he], a_job)[Len(job_list[just_he]) + 1] = a_job
  BY <1>1
<1> QED
  BY <1>1, <1>2, <1>3

LEMMA RemovedLists ==
  ASSUME Typed, NEW t \in Threads, TakeJob(t)
  PROVE  /\ \A u \in Threads : Len(job_list[u]) \in Nat
         /\ Len(job_list[t]) >= 1
         /\ prj' = [prj EXCEPT ![t] = job_list[t][1]]
         /\ Len(job_list'[t]) = Len(job_list[t]) - 1
         /\ \A k \in 1 .. Len(job_list[t]) - 1 : job_list'[t][k] = job_list[t][k + 1]
         /\ \A u \in Threads : u # t => job_list'[u] = job_list[u]
<1>1. /\ job_list \in [Threads -> Seq(Jobs)]
      /\ job_list' = [job_list EXCEPT ![t] = Tail(@)]
      /\ prj' = [prj EXCEPT ![t] = Head(job_list[t])]
      /\ Len(job_list[t]) > 0
  BY DEF Typed, Shape, TypeOK, TakeJob, Remove
<1>2. \A u \in Threads : Len(job_list[u]) \in Nat
  BY <1>1
<1>3. job_list[t] \in Seq(Jobs) /\ job_list[t] # << >>
  BY <1>1
<1>4. /\ Len(Tail(job_list[t])) = Len(job_list[t]) - 1
      /\ \A k \in 1 .. Len(Tail(job_list[t])) : Tail(job_list[t])[k] = job_list[t][k + 1]
  BY <1>3, HeadTailProperties
<1>5. Head(job_list[t]) = job_list[t][1]
  BY <1>3
<1> QED
  BY <1>1, <1>2, <1>4, <1>5

LEMMA ListedIs ==
  ASSUME Typed, NEW t \in Threads, NEW j
  PROVE  Listed(j, t) <=> \E k \in 1 .. Len(job_list[t]) : job_list[t][k] = j
<1>1. DOMAIN job_list[t] = 1 .. Len(job_list[t])
  BY DEF Typed, TypeOK
<1> QED
  BY <1>1 DEF Listed

LEMMA ListedJobs ==
  ASSUME Typed
  PROVE  \A t \in Threads : \A k \in 1 .. Len(job_list[t]) : job_list[t][k] \in Jobs
<1> SUFFICES ASSUME NEW t \in Threads, NEW k \in 1 .. Len(job_list[t])
             PROVE  job_list[t][k] \in Jobs
  OBVIOUS
<1>1. job_list[t] \in Seq(Jobs)
  BY DEF Typed, TypeOK
<1> QED
  BY <1>1

\* AInv, with the lists written out.
Account ==
    /\ \A t \in Threads : \A k, l \in 1 .. Len(job_list[t]) :
          job_list[t][k] = job_list[t][l] => k = l
    /\ \A t, u \in Threads : \A k \in 1 .. Len(job_list[t]) :
          prj[u] # job_list[t][k]
    /\ \A t, u \in Threads :
          \A k \in 1 .. Len(job_list[t]), l \in 1 .. Len(job_list[u]) :
             job_list[t][k] = job_list[u][l] => t = u
    /\ \A t \in Threads : \A k \in 1 .. Len(job_list[t]) :
          job_list[t][k] \notin info /\ job_list[t][k] # a_job
    /\ \A t \in Threads : prj[t] # NoJob => prj[t] \notin info /\ prj[t] # a_job
    /\ \A t, u \in Threads : prj[t] = prj[u] /\ prj[t] # NoJob => t = u
    /\ a_job \notin info

Placed(j) ==
    \/ j \in info \/ j = a_job
    \/ \E t \in Threads : prj[t] = j
    \/ \E t \in Threads : \E k \in 1 .. Len(job_list[t]) : job_list[t][k] = j

BInv == Typed /\ Account /\ \A j \in Jobs : Placed(j) /\ (j \in info \/ entry[j] \in Calls)

LEMMA AInvIs == Typed => (AInv <=> BInv)
<1> SUFFICES ASSUME Typed PROVE AInv <=> BInv
  OBVIOUS
<1>1. \A t \in Threads, j \in Jobs : Listed(j, t) <=>
         \E k \in 1 .. Len(job_list[t]) : job_list[t][k] = j
  BY ListedIs
<1>2. \A t \in Threads : \A k \in 1 .. Len(job_list[t]) : job_list[t][k] \in Jobs
  BY ListedJobs
<1>3. /\ \A t \in Threads : many[t] = Len(job_list[t])
      /\ a_job \in Jobs \cup {NoJob} /\ info \subseteq Jobs
      /\ prj \in [Threads -> Jobs \cup {NoJob}]
  BY DEF Typed, Shape, TypeOK
<1>4. ASSUME AInv PROVE BInv
  <2>1. Disjoint /\ Filled /\ \A j \in Jobs : j \in info \/ Waiting(j) \/ \E t \in Threads : prj[t] = j
    BY <1>4 DEF AInv, JobsAccounted
  <2>2. Account
    BY <2>1, <1>1, <1>2, <1>3 DEF Disjoint, Account
  <2>3. ASSUME NEW j \in Jobs PROVE Placed(j) /\ (j \in info \/ entry[j] \in Calls)
    BY <2>1, <1>1 DEF Filled, Waiting, Placed
  <2> QED
    BY <2>2, <2>3 DEF BInv
<1>5. ASSUME BInv PROVE AInv
  <2>1. Account /\ \A j \in Jobs : Placed(j) /\ (j \in info \/ entry[j] \in Calls)
    BY <1>5 DEF BInv
  <2>2. Disjoint
    BY <2>1, <1>1, <1>2, <1>3 DEF Disjoint, Account
  <2>3. \A j \in Jobs : j \in info \/ Waiting(j) \/ \E t \in Threads : prj[t] = j
    BY <2>1, <1>1 DEF Placed, Waiting
  <2>4. \A j \in Jobs : Waiting(j) \/ (\E t \in Threads : prj[t] = j) => j \notin info
    BY <2>1, <1>1, <1>2, JobAssumption DEF Account, Waiting
  <2>5. Filled
    BY <2>1, <2>4 DEF Filled
  <2> QED
    BY <2>2, <2>3, <2>5 DEF AInv, JobsAccounted
<1> QED
  BY <1>4, <1>5

\* A step that leaves the entries where they are keeps the account.
LEMMA EntriesStay ==
  ASSUME BInv, Typed', UNCHANGED <<a_job, info, entry, job_list, prj>>
  PROVE  BInv'
BY DEF BInv, Account, Placed

LEMMA StepBInv == BInv /\ [Next]_vars => BInv'
<1> SUFFICES ASSUME BInv, [Next]_vars PROVE BInv'
  OBVIOUS
<1>0. Typed' /\ Typed
  BY StepTyped DEF BInv
<1>t. /\ a_job \in Jobs \cup {NoJob} /\ info \subseteq Jobs
      /\ entry \in [Jobs -> Calls \cup {NoCall}]
      /\ prj \in [Threads -> Jobs \cup {NoJob}]
      /\ just_he \in Threads
  BY <1>0 DEF Typed, TypeOK
<1>a. Account /\ \A j \in Jobs : Placed(j) /\ (j \in info \/ entry[j] \in Calls)
  BY DEF BInv
<1>1. ASSUME NEW c \in Calls, GetJob(c) PROVE BInv'
  <2>1. PICK j \in info :
           /\ a_job' = j /\ info' = info \ {j} /\ a_job = NoJob
           /\ entry' = [entry EXCEPT ![j] = c]
           /\ UNCHANGED <<job_list, prj>>
    BY <1>0, <1>1 DEF GetJob, task, worker, Typed, Shape
  <2>2. Account'
    BY <2>1, <1>a, <1>t, JobAssumption DEF Account
  <2>3. ASSUME NEW k \in Jobs PROVE Placed(k)' /\ (k \in info' \/ entry'[k] \in Calls)
    BY <2>1, <1>a, <1>t, JobAssumption DEF Placed
  <2> QED
    BY <1>0, <2>2, <2>3 DEF BInv
<1>6. CASE AppendJob
  <2> DEFINE L == job_list
             M == job_list'
             n == Len(L[just_he])
  <2>1. /\ a_job \in Jobs /\ a_job' = NoJob
        /\ UNCHANGED <<info, entry, prj>>
    BY <1>0, <1>6, JobAssumption DEF AppendJob, Typed, Shape, TypeOK, worker
  <2>2. /\ \A t \in Threads : Len(L[t]) \in Nat
        /\ Len(M[just_he]) = n + 1
        /\ M[just_he][n + 1] = a_job
        /\ \A k \in 1 .. n : M[just_he][k] = L[just_he][k]
        /\ \A t \in Threads : t # just_he => M[t] = L[t]
    BY <1>0, <1>6, AppendedLists
  <2>3. ASSUME NEW t \in Threads, NEW k \in 1 .. Len(M[t])
        PROVE  \/ k \in 1 .. Len(L[t]) /\ M[t][k] = L[t][k]
               \/ t = just_he /\ k = n + 1 /\ M[t][k] = a_job
    <3>1. CASE t = just_he
      <4>1. k \in 1 .. n \/ k = n + 1
        BY <2>2, <3>1
      <4> QED
        BY <2>2, <3>1, <4>1
    <3>2. CASE t # just_he
      BY <2>2, <3>2
    <3> QED
      BY <3>1, <3>2
  <2>4. ASSUME NEW t \in Threads, NEW k \in 1 .. Len(L[t])
        PROVE  k \in 1 .. Len(M[t]) /\ M[t][k] = L[t][k]
    <3>1. CASE t = just_he
      BY <2>2, <3>1
    <3>2. CASE t # just_he
      BY <2>2, <3>2
    <3> QED
      BY <3>1, <3>2
  <2>5. n + 1 \in 1 .. Len(M[just_he])
    BY <2>2, <1>t
  <2> HIDE DEF M, L, n
  <2>b. /\ \A t \in Threads : \A k, l \in 1 .. Len(L[t]) : L[t][k] = L[t][l] => k = l
        /\ \A t, u \in Threads : \A k \in 1 .. Len(L[t]) : prj[u] # L[t][k]
        /\ \A t, u \in Threads : \A k \in 1 .. Len(L[t]), l \in 1 .. Len(L[u]) :
              L[t][k] = L[u][l] => t = u
        /\ \A t \in Threads : \A k \in 1 .. Len(L[t]) : L[t][k] \notin info /\ L[t][k] # a_job
        /\ \A t \in Threads : prj[t] # NoJob => prj[t] \notin info /\ prj[t] # a_job
        /\ \A t, u \in Threads : prj[t] = prj[u] /\ prj[t] # NoJob => t = u
        /\ a_job \notin info
    BY <1>a DEF Account, L
  <2>6. \A t \in Threads : \A k, l \in 1 .. Len(M[t]) : M[t][k] = M[t][l] => k = l
    BY <2>3, <2>b
  <2>7. \A t, u \in Threads : \A k \in 1 .. Len(M[t]) : prj[u] # M[t][k]
    BY <2>1, <2>3, <2>b, JobAssumption
  <2>8. \A t, u \in Threads : \A k \in 1 .. Len(M[t]), l \in 1 .. Len(M[u]) :
           M[t][k] = M[u][l] => t = u
    BY <2>3, <2>b
  <2>9. \A t \in Threads : \A k \in 1 .. Len(M[t]) : M[t][k] \in Jobs /\ M[t][k] \notin info
    <3>1. \A t \in Threads : \A k \in 1 .. Len(L[t]) : L[t][k] \in Jobs
      BY <1>0, ListedJobs DEF L
    <3> QED
      BY <2>1, <2>3, <2>b, <3>1
  <2>10. Account'
    BY <2>1, <2>6, <2>7, <2>8, <2>9, <2>b, <1>t, JobAssumption DEF Account, M
  <2>11. ASSUME NEW j \in Jobs PROVE Placed(j)'
    <3>1. CASE j = a_job
      BY <3>1, <2>2, <2>5, <1>t DEF Placed, M
    <3>2. CASE j \in info \/ \E t \in Threads : prj[t] = j
      BY <3>2, <2>1 DEF Placed
    <3>3. CASE \E t \in Threads : \E k \in 1 .. Len(L[t]) : L[t][k] = j
      BY <3>3, <2>4 DEF Placed, M
    <3> QED
      BY <3>1, <3>2, <3>3, <1>a DEF Placed, L
  <2> QED
    BY <1>0, <1>a, <2>1, <2>10, <2>11 DEF BInv
<1>2. CASE NoEntry
  BY <1>0, <1>2, EntriesStay DEF NoEntry, worker, task
<1>3. CASE Lost
  BY <1>0, <1>3, EntriesStay DEF Lost, vars, loop, task, worker
<1>4. CASE Compare
  BY <1>0, <1>4, EntriesStay DEF Compare, task, worker
<1>5. CASE Chosen
  BY <1>0, <1>5, EntriesStay DEF Chosen, task, worker
<1>7. CASE Notify
  BY <1>0, <1>7, EntriesStay DEF Notify, worker
<1>8. ASSUME NEW v \in Threads, TakeJob(v) PROVE BInv'
  <2> DEFINE L == job_list
             M == job_list'
             n == Len(L[v])
             at0(u, k) == IF u = v THEN k + 1 ELSE k
  <2>1. UNCHANGED <<a_job, info, entry>>
    BY <1>8 DEF TakeJob, loop
  <2>2. /\ \A u \in Threads : Len(L[u]) \in Nat
        /\ n >= 1
        /\ prj' = [prj EXCEPT ![v] = L[v][1]]
        /\ Len(M[v]) = n - 1
        /\ \A k \in 1 .. n - 1 : M[v][k] = L[v][k + 1]
        /\ \A u \in Threads : u # v => M[u] = L[u]
    BY <1>0, <1>8, RemovedLists
  <2>3. ASSUME NEW u \in Threads, NEW k \in 1 .. Len(M[u])
        PROVE  /\ k \in Int
               /\ at0(u, k) \in 1 .. Len(L[u]) /\ M[u][k] = L[u][at0(u, k)]
               /\ u = v => at0(u, k) # 1
    <3>1. CASE u = v
      BY <2>2, <3>1
    <3>2. CASE u # v
      BY <2>2, <3>2
    <3> QED
      BY <3>1, <3>2
  <2>4. ASSUME NEW u \in Threads, NEW k \in 1 .. Len(L[u]), ~(u = v /\ k = 1)
        PROVE  \E l \in 1 .. Len(M[u]) : M[u][l] = L[u][k]
    <3>1. CASE u = v
      <4>1. k - 1 \in 1 .. n - 1 /\ (k - 1) + 1 = k
        BY <2>2, <2>4, <3>1
      <4> QED
        BY <2>2, <3>1, <4>1
    <3>2. CASE u # v
      BY <2>2, <3>2
    <3> QED
      BY <3>1, <3>2
  <2>5. 1 \in 1 .. Len(L[v])
    BY <2>2
  <2>6. \A u \in Threads, k, l \in Int : at0(u, k) = at0(u, l) => k = l
    OBVIOUS
  <2>7. \A u \in Threads : prj'[u] = IF u = v THEN L[v][1] ELSE prj[u]
    BY <2>2, <1>t
  <2>8. prj[v] = NoJob
    BY <1>0, <1>8 DEF TakeJob, Typed, Shape, TypeOK
  <2>9. \A t \in Threads : \A k \in 1 .. Len(L[t]) : L[t][k] \in Jobs
    BY <1>0, ListedJobs DEF L
  <2> HIDE DEF M, L, n, at0
  <2>b. /\ \A t \in Threads : \A k, l \in 1 .. Len(L[t]) : L[t][k] = L[t][l] => k = l
        /\ \A t, u \in Threads : \A k \in 1 .. Len(L[t]) : prj[u] # L[t][k]
        /\ \A t, u \in Threads : \A k \in 1 .. Len(L[t]), l \in 1 .. Len(L[u]) :
              L[t][k] = L[u][l] => t = u
        /\ \A t \in Threads : \A k \in 1 .. Len(L[t]) : L[t][k] \notin info /\ L[t][k] # a_job
        /\ \A t \in Threads : prj[t] # NoJob => prj[t] \notin info /\ prj[t] # a_job
        /\ \A t, u \in Threads : prj[t] = prj[u] /\ prj[t] # NoJob => t = u
        /\ a_job \notin info
    BY <1>a DEF Account, L
  <2>10. \A t \in Threads : \A k, l \in 1 .. Len(M[t]) : M[t][k] = M[t][l] => k = l
    BY <2>3, <2>6, <2>b
  <2>11. \A t, u \in Threads : \A k \in 1 .. Len(M[t]) : prj'[u] # M[t][k]
    <3> SUFFICES ASSUME NEW t \in Threads, NEW u \in Threads, NEW k \in 1 .. Len(M[t])
                 PROVE  prj'[u] # M[t][k]
      OBVIOUS
    <3>1. CASE u # v
      BY <3>1, <2>3, <2>7, <2>b
    <3>2. CASE u = v /\ t # v
      BY <3>2, <2>3, <2>5, <2>7, <2>b
    <3>3. CASE u = v /\ t = v
      BY <3>3, <2>3, <2>5, <2>7, <2>b
    <3> QED
      BY <3>1, <3>2, <3>3
  <2>12. \A t, u \in Threads : \A k \in 1 .. Len(M[t]), l \in 1 .. Len(M[u]) :
            M[t][k] = M[u][l] => t = u
    <3>0. SUFFICES ASSUME NEW t \in Threads, NEW u \in Threads,
                          NEW k \in 1 .. Len(M[t]), NEW l \in 1 .. Len(M[u]),
                          M[t][k] = M[u][l]
                   PROVE  t = u
      OBVIOUS
    <3>1. PICK a \in 1 .. Len(L[t]) : M[t][k] = L[t][a]
      BY <2>3
    <3>2. PICK b \in 1 .. Len(L[u]) : M[u][l] = L[u][b]
      BY <2>3
    <3>3. L[t][a] = L[u][b]
      BY <3>0, <3>1, <3>2
    <3> QED
      BY <3>3, <2>b
  <2>13. \A t \in Threads : \A k \in 1 .. Len(M[t]) : M[t][k] \notin info /\ M[t][k] # a_job
    BY <2>3, <2>b
  <2>14. \A t \in Threads : prj'[t] # NoJob => prj'[t] \notin info /\ prj'[t] # a_job
    BY <2>5, <2>7, <2>b
  <2>15. \A t, u \in Threads : prj'[t] = prj'[u] /\ prj'[t] # NoJob => t = u
    BY <2>5, <2>7, <2>b
  <2>16. Account'
    BY <2>1, <2>10, <2>11, <2>12, <2>13, <2>14, <2>15, <2>b DEF Account, M
  <2>17. ASSUME NEW j \in Jobs PROVE Placed(j)'
    <3>1. CASE j \in info \/ j = a_job
      BY <3>1, <2>1 DEF Placed
    <3>2. CASE \E t \in Threads : prj[t] = j
      BY <3>2, <2>7, <2>8, JobAssumption DEF Placed
    <3>3. CASE j = L[v][1]
      BY <3>3, <2>7 DEF Placed
    <3>4. CASE j # L[v][1] /\ \E t \in Threads : \E k \in 1 .. Len(L[t]) : L[t][k] = j
      BY <3>4, <2>4 DEF Placed, M
    <3> QED
      BY <3>1, <3>2, <3>3, <3>4, <1>a DEF Placed, L
  <2> QED
    BY <1>0, <1>a, <2>1, <2>16, <2>17 DEF BInv
<1>9. ASSUME NEW t \in Threads, GoToWait(t) PROVE BInv'
  BY <1>0, <1>9, EntriesStay DEF GoToWait, loop
<1>10. ASSUME NEW t \in Threads, Wake(t) PROVE BInv'
  BY <1>0, <1>10, EntriesStay DEF Wake, loop
<1>11. ASSUME NEW t \in Threads, Resume(t) PROVE BInv'
  BY <1>0, <1>11, EntriesStay DEF Resume, loop
<1>12. ASSUME NEW t \in Threads, Return(t) PROVE BInv'
  BY <1>0, <1>12, EntriesStay DEF Return, loop, task
<1>13. ASSUME NEW t \in Threads, PutJob(t) PROVE BInv'
  <2>1. /\ UNCHANGED <<a_job, entry, job_list>>
        /\ info' = info \cup {prj[t]}
        /\ prj' = [prj EXCEPT ![t] = NoJob]
        /\ prj[t] # NoJob
    BY <1>0, <1>13 DEF PutJob, loop, task, Typed, Shape
  <2>2. \A u \in Threads : prj'[u] = IF u = t THEN NoJob ELSE prj[u]
    BY <2>1, <1>t
  <2>3. \A u \in Threads : \A k \in 1 .. Len(job_list[u]) : job_list[u][k] \in Jobs
    BY <1>0, ListedJobs
  <2>4. Account'
    BY <2>1, <2>2, <2>3, <1>a, JobAssumption DEF Account
  <2>5. ASSUME NEW j \in Jobs PROVE Placed(j)' /\ (j \in info' \/ entry'[j] \in Calls)
    BY <2>1, <2>2, <1>a DEF Placed
  <2> QED
    BY <1>0, <2>4, <2>5 DEF BInv
<1>14. CASE UNCHANGED vars
  BY <1>0, <1>14, EntriesStay DEF vars, loop, task, worker
<1> QED
  BY <1>1, <1>2, <1>3, <1>4, <1>5, <1>6, <1>7, <1>8, <1>9, <1>10, <1>11, <1>12,
     <1>13, <1>14 DEF Next, Schedule, Sub

LEMMA StepAInv == AInv /\ [Next]_vars => AInv'
<1> SUFFICES ASSUME AInv, [Next]_vars PROVE AInv'
  OBVIOUS
<1>1. BInv
  BY AInvIs DEF AInv
<1>2. BInv'
  BY <1>1, StepBInv
<1>3. Typed'
  BY <1>2 DEF BInv
<1>4. (Typed => (AInv <=> BInv))'
  BY AInvIs, PTL
<1> QED
  BY <1>2, <1>3, <1>4

\* No entry of the pool is lost or in two places.
THEOREM NoEntryLost == Spec => []JobsAccounted
<1>1. AInv => JobsAccounted
  BY DEF AInv
<1> QED
  BY <1>1, InitAInv, StepAInv, PTL DEF Spec

(***************************************************************************)
(* The refinement.                                                         *)
(***************************************************************************)
\* What a step makes of the calls that are owed and made.
LEMMA OwedIs ==
  ASSUME AInv
  PROVE  /\ Owed \in [Jobs -> Calls \cup {NoCall}]
         /\ \A j \in Jobs : Owed[j] # NoCall <=> Waiting(j)
         /\ \A t \in Threads : Making[t] # NoCall <=> at[t] = "call"
<1>1. \A t \in Threads : at[t] = "call" => prj[t] \in Jobs
  BY DEF AInv, Typed, Shape, TypeOK
<1>2. \A t \in Threads : at[t] = "call" => entry[prj[t]] \in Calls
  BY <1>1 DEF AInv, Filled
<1>3. \A j \in Jobs : Waiting(j) => entry[j] \in Calls
  BY DEF AInv, Filled
<1> QED
  BY <1>2, <1>3, CallAssumption DEF Owed, Making

\* The calls that threads make stay when their places and entries do.
LEMMA SameCalls ==
  ASSUME UNCHANGED <<a_job, entry, job_list, prj>>,
         \A t \in Threads : at'[t] = "call" <=> at[t] = "call"
  PROVE  UNCHANGED <<Owed, Making>>
BY DEF Owed, Making, Waiting, Listed

LEMMA InitRefines == Init => Promise!Init
<1> SUFFICES ASSUME Init PROVE Promise!Init
  OBVIOUS
<1>1. DOMAIN << >> = {}
  OBVIOUS
<1> QED
  BY <1>1, JobAssumption DEF Init, Promise!Init, Owed, Making, Waiting, Listed

LEMMA StepRefines ==
  AInv /\ AInv' /\ [Next]_vars => [Promise!Next]_<<Owed, Making>>
<1> SUFFICES ASSUME AInv, AInv', [Next]_vars PROVE [Promise!Next]_<<Owed, Making>>
  OBVIOUS
<1>0. Typed /\ Typed' /\ JobsAccounted /\ JobsAccounted'
  BY DEF AInv
<1>t. /\ a_job \in Jobs \cup {NoJob} /\ info \subseteq Jobs
      /\ entry \in [Jobs -> Calls \cup {NoCall}]
      /\ prj \in [Threads -> Jobs \cup {NoJob}]
      /\ at \in [Threads -> {"look", "wait", "woken", "call", "put"}]
      /\ just_he \in Threads
  BY <1>0 DEF Typed, TypeOK
<1>o. /\ \A j \in Jobs : Owed[j] # NoCall <=> Waiting(j)
      /\ \A t \in Threads : Making[t] # NoCall <=> at[t] = "call"
  BY OwedIs
<1>p. \A t \in Threads : at[t] = "call" => prj[t] \in Jobs
  BY <1>0 DEF Typed, Shape, TypeOK
<1>1. ASSUME NEW c \in Calls, GetJob(c) PROVE Promise!Next
  <2>1. PICK j \in info :
           /\ a_job' = j /\ a_job = NoJob
           /\ entry' = [entry EXCEPT ![j] = c]
           /\ UNCHANGED <<job_list, prj, at>>
    BY <1>0, <1>1 DEF GetJob, task, worker, Typed, Shape
  <2>2. j \in Jobs /\ ~Waiting(j) /\ \A t \in Threads : at[t] = "call" => prj[t] # j
    <3>1. \A t \in Threads : \A k \in 1 .. Len(job_list[t]) : job_list[t][k] # j
      BY <1>0, <2>1 DEF JobsAccounted, Disjoint
    <3>2. \A t \in Threads : ~Listed(j, t)
      BY <1>0, <3>1, ListedIs
    <3>3. \A t \in Threads : prj[t] # NoJob => prj[t] # j
      BY <1>0, <2>1 DEF JobsAccounted, Disjoint
    <3> QED
      BY <2>1, <3>2, <3>3, <1>p, <1>t, JobAssumption DEF Waiting
  <2>3. \A k \in Jobs : Waiting(k)' <=> Waiting(k) \/ k = j
    BY <2>1, <1>t, JobAssumption DEF Waiting, Listed
  <2>4. Owed' = [Owed EXCEPT ![j] = c]
    BY <2>1, <2>2, <2>3, <1>t DEF Owed
  <2>5. Making' = Making
    BY <2>1, <2>2, <1>t, <1>p DEF Making
  <2>6. Owed[j] = NoCall
    BY <2>2, <1>o
  <2> QED
    BY <2>2, <2>4, <2>5, <2>6 DEF Promise!Next, Promise!Give
<1>2. ASSUME NEW v \in Threads, TakeJob(v) PROVE Promise!Next
  <2>0. PICK j : j = job_list[v][1]
    OBVIOUS
  <2>1. /\ \A u \in Threads : Len(job_list[u]) \in Nat
        /\ Len(job_list[v]) >= 1
        /\ prj' = [prj EXCEPT ![v] = j]
        /\ Len(job_list'[v]) = Len(job_list[v]) - 1
        /\ \A k \in 1 .. Len(job_list[v]) - 1 : job_list'[v][k] = job_list[v][k + 1]
        /\ \A u \in Threads : u # v => job_list'[u] = job_list[u]
    BY <1>0, <1>2, <2>0, RemovedLists
  <2>2. /\ at[v] = "look" /\ at' = [at EXCEPT ![v] = "call"]
        /\ UNCHANGED <<a_job, entry>>
    BY <1>2 DEF TakeJob, loop
  <2>3. 1 \in 1 .. Len(job_list[v])
    BY <2>1
  <2>4. j \in Jobs /\ Listed(j, v)
    BY <1>0, <2>0, <2>3, ListedJobs, ListedIs
  <2>5. Waiting(j)
    BY <2>4 DEF Waiting
  <2>6. ~Waiting(j)'
    <3>1. prj'[v] = j /\ prj'[v] # NoJob
      BY <2>1, <2>4, <1>t, JobAssumption
    <3>2. \A t \in Threads : \A k \in 1 .. Len(job_list'[t]) : prj'[v] # job_list'[t][k]
      BY <1>0 DEF JobsAccounted, Disjoint
    <3>3. prj'[v] # a_job'
      BY <1>0, <3>1 DEF JobsAccounted, Disjoint
    <3>4. \A t \in Threads : DOMAIN job_list'[t] = 1 .. Len(job_list'[t])
      BY <1>0 DEF Typed, TypeOK
    <3> QED
      BY <3>1, <3>2, <3>3, <3>4 DEF Waiting, Listed
  <2>7. ASSUME NEW k \in Jobs, k # j PROVE Waiting(k)' <=> Waiting(k)
    <3>1. \A t \in Threads : DOMAIN job_list'[t] = 1 .. Len(job_list'[t])
                            /\ DOMAIN job_list[t] = 1 .. Len(job_list[t])
      BY <1>0 DEF Typed, TypeOK
    <3>2. ASSUME NEW t \in Threads, t # v PROVE Listed(k, t)' <=> Listed(k, t)
      BY <3>2, <2>1 DEF Listed
    <3>3. ASSUME Listed(k, v)' PROVE Listed(k, v)
      <4>1. PICK l \in 1 .. Len(job_list'[v]) : job_list'[v][l] = k
        BY <3>1, <3>3 DEF Listed
      <4>2. l \in 1 .. Len(job_list[v]) - 1 /\ l + 1 \in 1 .. Len(job_list[v])
        BY <4>1, <2>1
      <4> QED
        BY <3>1, <4>1, <4>2, <2>1 DEF Listed
    <3>4. ASSUME Listed(k, v) PROVE Listed(k, v)'
      <4>1. PICK l \in 1 .. Len(job_list[v]) : job_list[v][l] = k
        BY <3>1, <3>4 DEF Listed
      <4>2. l # 1
        BY <4>1, <2>0, <2>7
      <4>3. /\ l - 1 \in 1 .. Len(job_list[v]) - 1 /\ (l - 1) + 1 = l
            /\ l - 1 \in 1 .. Len(job_list'[v])
        BY <4>1, <4>2, <2>1
      <4>4. job_list'[v][l - 1] = k
        BY <4>1, <4>3, <2>1
      <4> QED
        BY <3>1, <4>3, <4>4 DEF Listed
    <3> QED
      BY <2>2, <3>2, <3>3, <3>4 DEF Waiting
  <2>8. Owed' = [Owed EXCEPT ![j] = NoCall]
    BY <2>2, <2>4, <2>6, <2>7 DEF Owed
  <2>9. Making' = [Making EXCEPT ![v] = Owed[j]]
    BY <2>1, <2>2, <2>4, <2>5, <1>t DEF Making, Owed
  <2>10. Making[v] = NoCall /\ Owed[j] # NoCall
    BY <2>2, <2>4, <2>5, <1>o
  <2> QED
    BY <2>4, <2>8, <2>9, <2>10 DEF Promise!Next, Promise!Begin
<1>3. ASSUME NEW v \in Threads, Return(v) PROVE Promise!Next
  <2>1. /\ at[v] = "call" /\ at' = [at EXCEPT ![v] = "put"]
        /\ UNCHANGED <<a_job, entry, job_list, prj>>
    BY <1>3 DEF Return, loop, task
  <2>2. Owed' = Owed
    BY <2>1 DEF Owed, Waiting, Listed
  <2>3. Making' = [Making EXCEPT ![v] = NoCall]
    BY <2>1, <1>t DEF Making
  <2> QED
    BY <2>1, <2>2, <2>3, <1>o DEF Promise!Next, Promise!End
<1>4. CASE AppendJob
  <2>1. /\ UNCHANGED <<entry, prj, at>> /\ a_job' = NoJob
    BY <1>4 DEF AppendJob, worker
  <2>2. ASSUME NEW k \in Jobs PROVE Waiting(k)' <=> Waiting(k)
    <3> DEFINE n == Len(job_list[just_he])
    <3>1. /\ \A t \in Threads : Len(job_list[t]) \in Nat
          /\ Len(job_list'[just_he]) = n + 1
          /\ job_list'[just_he][n + 1] = a_job
          /\ \A l \in 1 .. n : job_list'[just_he][l] = job_list[just_he][l]
          /\ \A t \in Threads : t # just_he => job_list'[t] = job_list[t]
      BY <1>0, <1>4, AppendedLists
    <3>2. \A t \in Threads : DOMAIN job_list'[t] = 1 .. Len(job_list'[t])
                            /\ DOMAIN job_list[t] = 1 .. Len(job_list[t])
      BY <1>0 DEF Typed, TypeOK
    <3>3. n \in Nat /\ \A l \in 1 .. n + 1 : l \in 1 .. n \/ l = n + 1
      BY <3>1, <1>t
    <3>4. n + 1 \in 1 .. n + 1 /\ \A l \in 1 .. n : l \in 1 .. n + 1
      BY <3>3
    <3> HIDE DEF n
    <3>5. Listed(k, just_he)' <=> Listed(k, just_he) \/ k = a_job
      <4>1. Listed(k, just_he)' <=> \E l \in 1 .. n + 1 : job_list'[just_he][l] = k
        BY <3>1, <3>2, <1>t, <1>4 DEF Listed, AppendJob, scan
      <4>2. Listed(k, just_he) <=> \E l \in 1 .. n : job_list[just_he][l] = k
        BY <3>2, <1>t DEF Listed, n
      <4> QED
        BY <4>1, <4>2, <3>1, <3>3, <3>4
    <3>6. \A t \in Threads : t # just_he => (Listed(k, t)' <=> Listed(k, t))
      BY <3>1 DEF Listed
    <3>7. k # a_job'
      BY <2>1, JobAssumption
    <3> QED
      BY <3>5, <3>6, <3>7, <1>t, <1>4 DEF Waiting, AppendJob, scan
  <2>3. Owed' = Owed
    BY <2>1, <2>2 DEF Owed
  <2> QED
    BY <2>1, <2>3 DEF Making
<1>5. CASE NoEntry
  BY <1>5, SameCalls DEF NoEntry, task, worker
<1>6. CASE Lost
  BY <1>6, SameCalls DEF Lost, vars, loop, task, worker
<1>7. CASE Compare
  BY <1>7, SameCalls DEF Compare, task, worker
<1>8. CASE Chosen
  BY <1>8, SameCalls DEF Chosen, task, worker
<1>9. CASE Notify
  BY <1>9, SameCalls DEF Notify, worker
<1>10. ASSUME NEW t \in Threads, GoToWait(t) PROVE UNCHANGED <<Owed, Making>>
  BY <1>10, <1>t, SameCalls DEF GoToWait, loop
<1>11. ASSUME NEW t \in Threads, Wake(t) PROVE UNCHANGED <<Owed, Making>>
  BY <1>11, <1>t, SameCalls DEF Wake, loop
<1>12. ASSUME NEW t \in Threads, Resume(t) PROVE UNCHANGED <<Owed, Making>>
  BY <1>12, <1>t, SameCalls DEF Resume, loop
<1>13. ASSUME NEW t \in Threads, PutJob(t) PROVE UNCHANGED <<Owed, Making>>
  <2>1. /\ at[t] = "put" /\ at' = [at EXCEPT ![t] = "look"]
        /\ UNCHANGED <<a_job, entry, job_list>>
        /\ prj' = [prj EXCEPT ![t] = NoJob]
    BY <1>13 DEF PutJob, loop, task
  <2>2. Owed' = Owed
    BY <2>1 DEF Owed, Waiting, Listed
  <2>3. Making' = Making
    BY <2>1, <1>t DEF Making
  <2> QED
    BY <2>2, <2>3
<1>14. CASE UNCHANGED vars
  BY <1>14, SameCalls DEF vars, loop, task, worker
<1> QED
  BY <1>1, <1>2, <1>3, <1>4, <1>5, <1>6, <1>7, <1>8, <1>9, <1>10, <1>11, <1>12,
     <1>13, <1>14 DEF Next, Schedule, Sub

\* The calls handed to threads are made as JobBag promises: each once, as it was
\* given.
THEOREM Implements == Spec => KeepsItsPromise
<1> QED
  BY InitAInv, StepAInv, InitRefines, StepRefines, PTL
  DEF Spec, KeepsItsPromise, Promise!Spec
=============================================================================
