--------------------------- MODULE JobQueueProofs ---------------------------
(***************************************************************************)
(* The order in which a JobQueue runs its jobs, for any number of queues,  *)
(* callers, jobs and delays, jobs that post jobs included.  JInv adds to   *)
(* JobsInTurn what relates the jobs that have run to those that wait.      *)
(***************************************************************************)
EXTENDS JobQueue, TLAPS

DelaysAreTimes == QueueCount \in Nat /\ Delays \subseteq Nat

JobType == [id : Nat, due : Nat, posts : Queues \cup {0}]
RanType == [id : Nat, due : Nat, at : Nat]

JobTypes == /\ queue \in [Queues -> Seq(JobType)]
            /\ timers \in [Queues -> SUBSET JobType]
            /\ running \in [Queues -> JobType]
            /\ pc \in [Queues -> {"sleep", "queue", "timers", "ended"}]
            /\ now \in Nat /\ jobs \in Seq(Queues)
            /\ ran \in [Queues -> Seq(RanType)]

IsIn(id, q) == id \in 1..Len(jobs) /\ jobs[id] = q

\* The front job stays in the queue while it runs.
RunsFront(q) == pc[q] = "queue" /\ ~Idle(q)

Busy(q) == ~Idle(q) => running[q].id # 0 /\ Locked(q)
Running(q) == Busy(q) /\ (RunsFront(q) => queue[q] # <<>>)

QueueSorted(q) == \A i, k \in 1..Len(queue[q]) :
    /\ IsIn(queue[q][i].id, q) /\ queue[q][i].due = 0
    /\ i < k => queue[q][i].id < queue[q][k].id

TimersApart(q) == \A j \in timers[q] :
    /\ IsIn(j.id, q) /\ j.due # 0
    /\ \A k \in timers[q] : j.id = k.id => j = k
    /\ \A i \in 1..Len(queue[q]) : queue[q][i].id # j.id

\* What has run, against what waits
RanBefore(q) == \A r \in 1..Len(ran[q]) :
    /\ IsIn(ran[q][r].id, q) /\ ran[q][r].due <= ran[q][r].at
    /\ \A i \in 1..Len(queue[q]) :
          \/ i = 1 /\ RunsFront(q)
          \/ /\ ran[q][r].id # queue[q][i].id
             /\ ran[q][r].due = 0 => ran[q][r].id < queue[q][i].id
    /\ \A j \in timers[q] : /\ ran[q][r].id # j.id
                            /\ ran[q][r].due > j.due => ran[q][r].id < j.id

RanInOrder(q) == \A i, k \in 1..Len(ran[q]) :
    i < k => /\ ran[q][i].id # ran[q][k].id
             /\ ran[q][i].due = 0 /\ ran[q][k].due = 0 => ran[q][i].id < ran[q][k].id
             /\ ran[q][i].due > ran[q][k].due /\ ran[q][k].due # 0
                   => ran[q][i].id < ran[q][k].id

Turns(q) == Running(q) /\ QueueSorted(q) /\ TimersApart(q) /\ RanBefore(q) /\ RanInOrder(q)
JInv == JobTypes /\ \A q \in Queues : Turns(q)

LEMMA InitJInv == ASSUME DelaysAreTimes PROVE Init => JInv
  <1> SUFFICES ASSUME Init PROVE JInv
    OBVIOUS
  <1> USE DEF Init
  <1>1. NoJob \in JobType
    BY DEF NoJob, JobType
  <1>2. JobTypes
    BY <1>1 DEF JobTypes
  <1>3. ASSUME NEW q \in Queues PROVE Turns(q)
    BY DEF Turns, Running, Busy, RunsFront, Idle, QueueSorted, TimersApart, RanBefore, RanInOrder
  <1>4. QED
    BY <1>2, <1>3 DEF JInv

\* A job more elsewhere, or none, changes nothing for a queue that is left alone.
LEMMA LeftAlone ==
  ASSUME JobTypes, NEW q \in Queues, Turns(q),
         jobs' = jobs \/ \E p \in Queues : jobs' = Append(jobs, p),
         queue'[q] = queue[q], timers'[q] = timers[q], ran'[q] = ran[q],
         RunsFront(q)' = RunsFront(q), Busy(q)'
  PROVE  Turns(q)'
  <1>1. \A id \in Nat : IsIn(id, q) => IsIn(id, q)'
    BY DEF IsIn, JobTypes
  <1>2. /\ \A i \in 1..Len(queue[q]) : queue[q][i] \in JobType
        /\ \A j \in timers[q] : j \in JobType
        /\ \A r \in 1..Len(ran[q]) : ran[q][r] \in RanType
    BY DEF JobTypes
  <1>3. Running(q)'
    BY DEF Turns, Running
  <1>4. QueueSorted(q)'
    BY <1>1, <1>2 DEF Turns, QueueSorted, JobType
  <1>5. TimersApart(q)'
    BY <1>1, <1>2 DEF Turns, TimersApart, JobType
  <1>6. RanBefore(q)'
    BY <1>1, <1>2 DEF Turns, RanBefore, RanType
  <1>7. RanInOrder(q)'
    BY DEF Turns, RanInOrder
  <1>8. QED
    BY <1>3, <1>4, <1>5, <1>6, <1>7 DEF Turns

(***************************************************************************)
(* One lemma per way in which a queue changes                              *)
(***************************************************************************)
\* A new job has an identifier above all others, wherever it goes.
LEMMA PushPreserves ==
  ASSUME JobTypes, NEW q \in Queues, Turns(q), NEW delay \in Nat,
         NEW posts \in Queues \cup {0}, Push(q, delay, posts), ran' = ran,
         RunsFront(q)' = RunsFront(q), Busy(q)'
  PROVE  Turns(q)'
  <1> PICK n : n = Len(jobs) + 1
    OBVIOUS
  <1> PICK job : job = NewJob(delay, posts)
    OBVIOUS
  <1>1. job \in JobType /\ job.id = n
    BY DEF NewJob, JobType, JobTypes
  <1>2. jobs' = Append(jobs, q) /\ n \in Nat /\ Len(jobs') = n
    BY DEF Push, JobTypes
  <1>3. IsIn(n, q)'
    BY <1>2 DEF IsIn, JobTypes
  <1>4. \A id \in Nat : IsIn(id, q) => id < n /\ IsIn(id, q)'
    BY <1>2 DEF IsIn, JobTypes
  <1>5. /\ queue[q] \in Seq(JobType) /\ timers[q] \subseteq JobType
        /\ ran[q] \in Seq(RanType)
    BY DEF JobTypes
  <1>6. /\ \A i \in 1..Len(queue[q]) : queue[q][i].id \in Nat /\ queue[q][i].id < n
        /\ \A j \in timers[q] : j.id \in Nat /\ j.id < n
        /\ \A r \in 1..Len(ran[q]) : ran[q][r].id \in Nat /\ ran[q][r].id < n
    <2>1. /\ \A i \in 1..Len(queue[q]) : queue[q][i].id \in Nat
          /\ \A r \in 1..Len(ran[q]) : ran[q][r].id \in Nat
          /\ \A j \in timers[q] : j.id \in Nat
      <3>1. /\ \A i \in 1..Len(queue[q]) : queue[q][i] \in JobType
            /\ \A r \in 1..Len(ran[q]) : ran[q][r] \in RanType
        BY <1>5
      <3>2. QED
        BY <1>5, <3>1 DEF JobType, RanType
    <2>2. QED
      BY <1>4, <2>1 DEF Turns, QueueSorted, TimersApart, RanBefore
  <1>7. RanInOrder(q)'
    BY DEF Turns, RanInOrder
  <1>8. CASE delay = 0
    <2>1. /\ queue'[q] = Append(queue[q], job) /\ timers'[q] = timers[q]
      BY <1>8 DEF Push, JobTypes
    <2>2. job.due = 0
      BY <1>8 DEF NewJob
    <2>3. /\ Len(queue'[q]) = Len(queue[q]) + 1
          /\ \A i \in 1..Len(queue'[q]) : \/ i \in 1..Len(queue[q]) /\ queue'[q][i] = queue[q][i]
                                          \/ i = Len(queue[q]) + 1 /\ queue'[q][i] = job
      BY <1>1, <1>5, <2>1
    <2>4. Running(q)'
      BY <1>5, <2>3 DEF Turns, Running
    <2>5. QueueSorted(q)'
      <3> SUFFICES ASSUME NEW i \in 1..Len(queue'[q]), NEW k \in 1..Len(queue'[q])
                   PROVE  /\ IsIn(queue[q][i].id, q)' /\ queue'[q][i].due = 0
                          /\ i < k => queue'[q][i].id < queue'[q][k].id
        BY DEF QueueSorted
      <3>1. CASE i \in 1..Len(queue[q]) /\ queue'[q][i] = queue[q][i]
        <4>1. /\ IsIn(queue[q][i].id, q) /\ queue[q][i].due = 0
              /\ queue[q][i].id \in Nat /\ queue[q][i].id < n
          BY <1>6, <3>1 DEF Turns, QueueSorted
        <4>2. CASE k \in 1..Len(queue[q]) /\ queue'[q][k] = queue[q][k]
          BY <1>4, <3>1, <4>1, <4>2 DEF Turns, QueueSorted
        <4>3. CASE queue'[q][k] = job
          BY <1>1, <1>4, <3>1, <4>1, <4>3
        <4>4. QED
          BY <2>3, <4>2, <4>3
      <3>2. CASE i = Len(queue[q]) + 1 /\ queue'[q][i] = job
        <4>1. ~(i < k)
          BY ONLY <2>3, <3>2, i \in 1..Len(queue'[q]), k \in 1..Len(queue'[q])
        <4>2. QED
          BY <1>1, <1>3, <2>2, <3>2, <4>1
      <3>3. QED
        BY <2>3, <3>1, <3>2
    <2>6. TimersApart(q)'
      <3> SUFFICES ASSUME NEW j \in timers[q]
                   PROVE  /\ IsIn(j.id, q)' /\ j.due # 0
                          /\ \A k \in timers[q] : j.id = k.id => j = k
                          /\ \A i \in 1..Len(queue'[q]) : queue'[q][i].id # j.id
        BY <2>1 DEF TimersApart
      <3>1. IsIn(j.id, q) /\ j.id \in Nat /\ j.id < n
        BY <1>6 DEF Turns, TimersApart
      <3>2. \A i \in 1..Len(queue[q]) : queue[q][i].id # j.id
        BY DEF Turns, TimersApart
      <3>3. \A i \in 1..Len(queue'[q]) : queue'[q][i].id # j.id
        BY ONLY <1>1, <1>2, <2>3, <3>1, <3>2
      <3>4. QED
        BY <1>4, <3>1, <3>3 DEF Turns, TimersApart
    <2>7. RanBefore(q)'
      <3> SUFFICES ASSUME NEW r \in 1..Len(ran[q])
                   PROVE  /\ IsIn(ran[q][r].id, q)' /\ ran[q][r].due <= ran[q][r].at
                          /\ \A i \in 1..Len(queue'[q]) :
                                \/ i = 1 /\ RunsFront(q)'
                                \/ /\ ran[q][r].id # queue'[q][i].id
                                   /\ ran[q][r].due = 0 => ran[q][r].id < queue'[q][i].id
                          /\ \A j \in timers[q] : /\ ran[q][r].id # j.id
                                                  /\ ran[q][r].due > j.due => ran[q][r].id < j.id
        BY <2>1 DEF RanBefore
      <3>1. IsIn(ran[q][r].id, q) /\ ran[q][r].id \in Nat /\ ran[q][r].id < n
        BY <1>6 DEF Turns, RanBefore
      <3>2. \A i \in 1..Len(queue[q]) :
               \/ i = 1 /\ RunsFront(q)'
               \/ /\ ran[q][r].id # queue[q][i].id
                  /\ ran[q][r].due = 0 => ran[q][r].id < queue[q][i].id
        BY DEF Turns, RanBefore
      <3>3. \A i \in 1..Len(queue'[q]) :
               \/ i = 1 /\ RunsFront(q)'
               \/ /\ ran[q][r].id # queue'[q][i].id
                  /\ ran[q][r].due = 0 => ran[q][r].id < queue'[q][i].id
        <4> TAKE i \in 1..Len(queue'[q])
        <4>1. CASE i \in 1..Len(queue[q]) /\ queue'[q][i] = queue[q][i]
          BY <3>2, <4>1
        <4>2. CASE queue'[q][i] = job
          BY ONLY <1>1, <1>2, <3>1, <4>2
        <4>3. QED
          BY <2>3, <4>1, <4>2
      <3>4. QED
        BY <1>4, <3>1, <3>3 DEF Turns, RanBefore
    <2>8. QED
      BY <1>7, <2>4, <2>5, <2>6, <2>7 DEF Turns
  <1>9. CASE delay # 0
    <2>1. /\ queue'[q] = queue[q] /\ timers'[q] = timers[q] \cup {job}
      BY <1>9 DEF Push, JobTypes
    <2>2. job.due # 0
      BY <1>9 DEF NewJob, JobTypes
    <2>4. Running(q)'
      BY <2>1 DEF Turns, Running
    <2>5. QueueSorted(q)'
      BY <1>4, <1>6, <2>1 DEF Turns, QueueSorted
    <2>6. TimersApart(q)'
      BY <1>1, <1>2, <1>3, <1>4, <1>6, <2>1, <2>2 DEF Turns, TimersApart
    <2>7. RanBefore(q)'
      <3> SUFFICES ASSUME NEW r \in 1..Len(ran[q])
                   PROVE  /\ IsIn(ran[q][r].id, q)' /\ ran[q][r].due <= ran[q][r].at
                          /\ \A i \in 1..Len(queue[q]) :
                                \/ i = 1 /\ RunsFront(q)'
                                \/ /\ ran[q][r].id # queue[q][i].id
                                   /\ ran[q][r].due = 0 => ran[q][r].id < queue[q][i].id
                          /\ \A j \in timers'[q] : /\ ran[q][r].id # j.id
                                                   /\ ran[q][r].due > j.due => ran[q][r].id < j.id
        BY <2>1 DEF RanBefore
      <3>1. IsIn(ran[q][r].id, q) /\ ran[q][r].id \in Nat /\ ran[q][r].id < n
        BY <1>6 DEF Turns, RanBefore
      <3>2. \A j \in timers'[q] : /\ ran[q][r].id # j.id
                                  /\ ran[q][r].due > j.due => ran[q][r].id < j.id
        <4>1. \A j \in timers[q] : /\ ran[q][r].id # j.id
                                   /\ ran[q][r].due > j.due => ran[q][r].id < j.id
          BY DEF Turns, RanBefore
        <4>2. QED
          BY ONLY <1>1, <1>2, <2>1, <3>1, <4>1
      <3>3. QED
        BY <1>4, <3>1, <3>2 DEF Turns, RanBefore
    <2>8. QED
      BY <1>7, <2>4, <2>5, <2>6, <2>7 DEF Turns
  <1>10. QED
    BY <1>8, <1>9

\* The front job starts.
LEMMA RunFrontPreserves ==
  ASSUME JobTypes, NEW q \in Queues, Turns(q), RunFront(q)
  PROVE  Turns(q)'
  <1> DEFINE job == queue[q][1]
             e == [id |-> job.id, due |-> job.due, at |-> now]
  <1>1. /\ queue[q] \in Seq(JobType) /\ timers[q] \subseteq JobType
        /\ ran[q] \in Seq(RanType) /\ now \in Nat
    BY DEF JobTypes
  <1>2. /\ Len(queue[q]) > 0 /\ 1 \in 1..Len(queue[q]) /\ job \in JobType
        /\ Head(queue[q]) = job
    BY <1>1 DEF RunFront
  <1>3. IsIn(job.id, q) /\ job.due = 0 /\ job.id \in Nat /\ job.id # 0
    BY <1>2 DEF Turns, QueueSorted, IsIn, JobType
  <1>4. /\ ~RunsFront(q) /\ RunsFront(q)' /\ Busy(q)'
        /\ ran'[q] = Append(ran[q], e)
        /\ queue' = queue /\ timers' = timers /\ jobs' = jobs
    BY <1>2, <1>3 DEF RunFront, Runs, RunsFront, Busy, Locked, Idle, NoJob, JobTypes
  <1>5. e \in RanType /\ e.id = job.id /\ e.due = 0 /\ e.due <= e.at
    BY <1>1, <1>3 DEF RanType
  <1> HIDE DEF e
  <1>6. /\ Len(ran[q]) \in Nat /\ Len(ran'[q]) = Len(ran[q]) + 1
        /\ \A r \in 1..Len(ran'[q]) : \/ r \in 1..Len(ran[q]) /\ ran'[q][r] = ran[q][r]
                                      \/ r = Len(ran[q]) + 1 /\ ran'[q][r] = e
    BY <1>1, <1>4, <1>5
  <1>7. /\ \A i \in 1..Len(queue[q]) : i # 1 => job.id # queue[q][i].id /\ job.id < queue[q][i].id
        /\ \A j \in timers[q] : job.id # j.id /\ ~(0 > j.due)
    <2>1. \A i \in 1..Len(queue[q]) : i # 1 => job.id < queue[q][i].id
      BY <1>1, <1>2 DEF Turns, QueueSorted
    <2>2. \A i \in 1..Len(queue[q]) : queue[q][i].id \in Nat
      <3>1. \A i \in 1..Len(queue[q]) : queue[q][i] \in JobType
        BY <1>1
      <3>2. QED
        BY <3>1 DEF JobType
    <2>3. \A j \in timers[q] : j.due \in Nat
      BY <1>1 DEF JobType
    <2>4. \A j \in timers[q] : job.id # j.id
      BY <1>2 DEF Turns, TimersApart
    <2>5. QED
      BY <1>3, <2>1, <2>2, <2>3, <2>4
  <1>8. \A r \in 1..Len(ran[q]) : /\ ran[q][r].id # job.id
                                  /\ ran[q][r].due = 0 => ran[q][r].id < job.id
    BY <1>2, <1>4 DEF Turns, RanBefore
  <1> HIDE DEF job
  <1>9. Running(q)'
    BY <1>2, <1>4 DEF Running
  <1>10. QueueSorted(q)' /\ TimersApart(q)'
    BY <1>4 DEF Turns, QueueSorted, TimersApart, IsIn
  <1>11. RanBefore(q)'
    <2> SUFFICES ASSUME NEW r \in 1..Len(ran'[q])
                 PROVE  /\ IsIn(ran'[q][r].id, q) /\ ran'[q][r].due <= ran'[q][r].at
                        /\ \A i \in 1..Len(queue[q]) :
                              \/ i = 1
                              \/ /\ ran'[q][r].id # queue[q][i].id
                                 /\ ran'[q][r].due = 0 => ran'[q][r].id < queue[q][i].id
                        /\ \A j \in timers[q] : /\ ran'[q][r].id # j.id
                                                /\ ran'[q][r].due > j.due => ran'[q][r].id < j.id
      BY <1>4 DEF RanBefore, IsIn
    <2>1. CASE r \in 1..Len(ran[q]) /\ ran'[q][r] = ran[q][r]
      BY <1>4, <2>1 DEF Turns, RanBefore
    <2>2. CASE ran'[q][r] = e
      BY ONLY <1>3, <1>5, <1>7, <2>2
    <2>3. QED
      BY <1>6, <2>1, <2>2
  <1>12. RanInOrder(q)'
    <2> SUFFICES ASSUME NEW i \in 1..Len(ran'[q]), NEW k \in 1..Len(ran'[q]), i < k
                 PROVE  /\ ran'[q][i].id # ran'[q][k].id
                        /\ ran'[q][i].due = 0 /\ ran'[q][k].due = 0
                              => ran'[q][i].id < ran'[q][k].id
                        /\ ran'[q][i].due > ran'[q][k].due /\ ran'[q][k].due # 0
                              => ran'[q][i].id < ran'[q][k].id
      BY DEF RanInOrder
    <2>1. i \in 1..Len(ran[q]) /\ ran'[q][i] = ran[q][i]
      BY ONLY <1>6, i < k, i \in 1..Len(ran'[q]), k \in 1..Len(ran'[q])
    <2>2. CASE k \in 1..Len(ran[q]) /\ ran'[q][k] = ran[q][k]
      BY <2>1, <2>2 DEF Turns, RanInOrder
    <2>3. CASE ran'[q][k] = e
      BY ONLY <1>5, <1>8, <2>1, <2>3
    <2>4. QED
      BY <1>6, <2>2, <2>3
  <1>13. QED
    BY <1>9, <1>10, <1>11, <1>12 DEF Turns

\* The front job ends and is popped.
LEMMA FrontEndsPreserves ==
  ASSUME JobTypes, NEW q \in Queues, Turns(q), JobEnds(q), pc[q] = "queue"
  PROVE  Turns(q)'
  <1>1. /\ queue[q] \in Seq(JobType) /\ queue[q] # <<>>
        /\ queue'[q] = Tail(queue[q]) /\ RunsFront(q) /\ ~RunsFront(q)' /\ Idle(q)'
        /\ timers' = timers /\ ran' = ran /\ jobs' = jobs
    BY DEF JobEnds, Turns, Running, RunsFront, Idle, JobTypes
  <1>2. /\ Len(queue'[q]) = Len(queue[q]) - 1 /\ Len(queue[q]) \in Nat
        /\ \A i \in 1..Len(queue'[q]) : queue'[q][i] = queue[q][i + 1]
    BY <1>1
  <1>3. \A i \in 1..Len(queue'[q]) : i + 1 \in 1..Len(queue[q]) /\ i + 1 # 1
    BY <1>2
  <1>4. Running(q)'
    BY <1>1 DEF Running, Busy
  <1>5. QueueSorted(q)'
    BY <1>1, <1>2, <1>3 DEF Turns, QueueSorted, IsIn
  <1>6. TimersApart(q)'
    BY <1>1, <1>2, <1>3 DEF Turns, TimersApart, IsIn
  <1>7. RanBefore(q)'
    BY <1>1, <1>2, <1>3 DEF Turns, RanBefore, IsIn
  <1>8. RanInOrder(q)'
    BY <1>1 DEF Turns, RanInOrder
  <1>9. QED
    BY <1>4, <1>5, <1>6, <1>7, <1>8 DEF Turns

\* An earliest timer that is due is taken out and starts.
LEMMA RunTimerPreserves ==
  ASSUME JobTypes, NEW q \in Queues, Turns(q), RunTimer(q)
  PROVE  Turns(q)'
  <1>1. PICK job \in Due(q) : /\ timers' = [timers EXCEPT ![q] = @ \ {job}]
                              /\ Runs(q, job)
    BY DEF RunTimer
  <1> DEFINE e == [id |-> job.id, due |-> job.due, at |-> now]
  <1>2. /\ queue[q] \in Seq(JobType) /\ timers[q] \subseteq JobType
        /\ ran[q] \in Seq(RanType) /\ now \in Nat
    BY DEF JobTypes
  <1>3. /\ job \in timers[q] /\ job \in JobType /\ job.due <= now
        /\ \A k \in timers[q] : job.due <= k.due
    BY <1>2 DEF Due, Earliest
  <1>4. IsIn(job.id, q) /\ job.due # 0 /\ job.due \in Nat /\ job.id \in Nat /\ job.id # 0
    BY <1>3 DEF Turns, TimersApart, IsIn, JobType
  <1>5. /\ ~RunsFront(q) /\ ~RunsFront(q)' /\ Busy(q)'
        /\ ran'[q] = Append(ran[q], e) /\ timers'[q] = timers[q] \ {job}
        /\ queue' = queue /\ jobs' = jobs
    BY <1>1, <1>4 DEF RunTimer, Runs, RunsFront, Busy, Locked, Idle, JobTypes
  <1>6. e \in RanType /\ e.id = job.id /\ e.due = job.due /\ e.due <= e.at
    BY <1>2, <1>3, <1>4 DEF RanType
  <1> HIDE DEF e
  <1>7. /\ Len(ran[q]) \in Nat /\ Len(ran'[q]) = Len(ran[q]) + 1
        /\ \A r \in 1..Len(ran'[q]) : \/ r \in 1..Len(ran[q]) /\ ran'[q][r] = ran[q][r]
                                      \/ r = Len(ran[q]) + 1 /\ ran'[q][r] = e
    BY <1>2, <1>5, <1>6
  <1>8. /\ \A i \in 1..Len(queue[q]) : job.id # queue[q][i].id
        /\ \A k \in timers'[q] : k \in timers[q] /\ job.id # k.id /\ ~(job.due > k.due)
    <2>1. \A k \in timers'[q] : k \in timers[q] /\ k # job
      BY <1>5
    <2>2. \A k \in timers[q] : k.due \in Nat
      BY <1>2 DEF JobType
    <2>3. \A k \in timers'[q] : job.id # k.id
      BY <1>3, <2>1 DEF Turns, TimersApart
    <2>4. \A i \in 1..Len(queue[q]) : job.id # queue[q][i].id
      BY <1>3 DEF Turns, TimersApart
    <2>5. QED
      BY <1>3, <1>4, <2>1, <2>2, <2>3, <2>4
  <1>9. \A r \in 1..Len(ran[q]) : /\ ran[q][r].id # job.id
                                  /\ ran[q][r].due > job.due => ran[q][r].id < job.id
    BY <1>3 DEF Turns, RanBefore
  <1>10. Running(q)'
    BY <1>5 DEF Running
  <1>11. QueueSorted(q)' /\ TimersApart(q)'
    BY <1>5 DEF Turns, QueueSorted, TimersApart, IsIn
  <1>12. RanBefore(q)'
    <2> SUFFICES ASSUME NEW r \in 1..Len(ran'[q])
                 PROVE  /\ IsIn(ran'[q][r].id, q) /\ ran'[q][r].due <= ran'[q][r].at
                        /\ \A i \in 1..Len(queue[q]) :
                              /\ ran'[q][r].id # queue[q][i].id
                              /\ ran'[q][r].due = 0 => ran'[q][r].id < queue[q][i].id
                        /\ \A j \in timers'[q] : /\ ran'[q][r].id # j.id
                                                 /\ ran'[q][r].due > j.due => ran'[q][r].id < j.id
      BY <1>5 DEF RanBefore, IsIn
    <2>1. CASE r \in 1..Len(ran[q]) /\ ran'[q][r] = ran[q][r]
      BY <1>5, <1>8, <2>1 DEF Turns, RanBefore
    <2>2. CASE ran'[q][r] = e
      BY ONLY <1>4, <1>6, <1>8, <2>2
    <2>3. QED
      BY <1>7, <2>1, <2>2
  <1>13. RanInOrder(q)'
    <2> SUFFICES ASSUME NEW i \in 1..Len(ran'[q]), NEW k \in 1..Len(ran'[q]), i < k
                 PROVE  /\ ran'[q][i].id # ran'[q][k].id
                        /\ ran'[q][i].due = 0 /\ ran'[q][k].due = 0
                              => ran'[q][i].id < ran'[q][k].id
                        /\ ran'[q][i].due > ran'[q][k].due /\ ran'[q][k].due # 0
                              => ran'[q][i].id < ran'[q][k].id
      BY DEF RanInOrder
    <2>1. i \in 1..Len(ran[q]) /\ ran'[q][i] = ran[q][i]
      BY ONLY <1>7, i < k, i \in 1..Len(ran'[q]), k \in 1..Len(ran'[q])
    <2>2. CASE k \in 1..Len(ran[q]) /\ ran'[q][k] = ran[q][k]
      BY <2>1, <2>2 DEF Turns, RanInOrder
    <2>3. CASE ran'[q][k] = e
      BY ONLY <1>4, <1>6, <1>9, <2>1, <2>3
    <2>4. QED
      BY <1>7, <2>2, <2>3
  <1>14. QED
    BY <1>10, <1>11, <1>12, <1>13 DEF Turns

(***************************************************************************)
(* Types                                                                   *)
(***************************************************************************)
LEMMA TypesPreserved ==
  ASSUME DelaysAreTimes, JobTypes, [Next]_vars PROVE JobTypes'
  <1>1. NoJob \in JobType
    BY DEF NoJob, JobType
  <1>2. ASSUME NEW q \in Queues, NEW d \in Nat, NEW p \in Queues \cup {0}, Push(q, d, p)
        PROVE  /\ queue' \in [Queues -> Seq(JobType)] /\ timers' \in [Queues -> SUBSET JobType]
               /\ jobs' \in Seq(Queues)
    <2>1. NewJob(d, p) \in JobType
      BY DEF NewJob, JobType, JobTypes
    <2>2. jobs' \in Seq(Queues)
      BY <1>2 DEF Push, JobTypes
    <2>3. CASE d = 0
      <3>1. queue' = [queue EXCEPT ![q] = Append(@, NewJob(d, p))] /\ timers' = timers
        BY <1>2, <2>3 DEF Push
      <3>2. QED
        BY <2>1, <2>2, <3>1 DEF JobTypes
    <2>4. CASE d # 0
      <3>1. timers' = [timers EXCEPT ![q] = @ \cup {NewJob(d, p)}] /\ queue' = queue
        BY <1>2, <2>4 DEF Push
      <3>2. QED
        BY <2>1, <2>2, <3>1 DEF JobTypes
    <2>5. QED
      BY <2>3, <2>4
  <1>3. ASSUME NEW q \in Queues, NEW job \in JobType, Runs(q, job)
        PROVE  running' \in [Queues -> JobType] /\ ran' \in [Queues -> Seq(RanType)]
    <2>1. [id |-> job.id, due |-> job.due, at |-> now] \in RanType
      BY DEF JobType, RanType, JobTypes
    <2>2. QED
      BY <1>3, <2>1 DEF Runs, JobTypes
  <1>4. ASSUME NEW q \in Queues
        PROVE  [running EXCEPT ![q].posts = 0] \in [Queues -> JobType]
    BY DEF JobTypes, JobType
  <1>5. CASE UNCHANGED vars
    BY <1>5 DEF vars, JobTypes
  <1>6. CASE Tick
    BY <1>6 DEF Tick, JobTypes
  <1>7. ASSUME NEW q \in Queues, NEW d \in Delays, Post(q, d) PROVE JobTypes'
    <2>1. PICK p \in Queues \cup {0} : Push(q, d, p)
      BY <1>7 DEF Post, Posts
    <2>2. QED
      BY <1>2, <1>7, <2>1 DEF Post, JobTypes, DelaysAreTimes
  <1>8. ASSUME NEW q \in Queues, Destroy(q) PROVE JobTypes'
    BY <1>8 DEF Destroy, JobTypes
  <1>9. ASSUME NEW q \in Queues, Work(q) PROVE JobTypes'
    <2>1. CASE ExecuteBegins(q) \/ QueueEmpty(q) \/ ExecuteEnds(q) \/ WorkerEnds(q)
      BY <2>1 DEF ExecuteBegins, QueueEmpty, ExecuteEnds, WorkerEnds, Goto, AfterQueue, JobTypes
    <2>2. CASE RunFront(q)
      <3>1. Head(queue[q]) \in JobType
        BY <2>2 DEF RunFront, JobTypes
      <3>2. QED
        BY <1>3, <2>2, <3>1 DEF RunFront, JobTypes
    <2>3. CASE JobGivesUp(q)
      BY <1>4, <2>3 DEF JobGivesUp, JobTypes
    <2>4. CASE JobEnds(q)
      <3>1. queue' \in [Queues -> Seq(JobType)]
        <4>1. CASE pc[q] = "queue" /\ queue[q] # <<>>
          BY <2>4, <4>1 DEF JobEnds, JobTypes
        <4>2. CASE pc[q] # "queue"
          BY <2>4, <4>2 DEF JobEnds, JobTypes
        <4>3. CASE pc[q] = "queue" /\ queue[q] = <<>>
          BY <2>4, <4>3 DEF JobEnds, JobTypes
        <4>4. QED
          BY <4>1, <4>2, <4>3
      <3>2. QED
        BY <1>1, <2>4, <3>1 DEF JobEnds, JobTypes
    <2>5. CASE RunTimer(q)
      <3>1. PICK j \in timers[q] : /\ timers' = [timers EXCEPT ![q] = @ \ {j}]
                                   /\ Runs(q, j)
        BY <2>5 DEF RunTimer, Due, Earliest
      <3>2. j \in JobType
        BY DEF JobTypes
      <3>3. QED
        BY <1>3, <2>5, <3>1, <3>2 DEF RunTimer, JobTypes
    <2>6. ASSUME NEW d \in Delays, JobPosts(q, d) PROVE JobTypes'
      <3> PICK p : p = running[q].posts
        OBVIOUS
      <3>1. /\ p \in Queues /\ Push(p, d, 0) /\ running' = [running EXCEPT ![q].posts = 0]
            /\ UNCHANGED <<active, pc, now, ran>>
        BY <2>6 DEF JobPosts, JobTypes, JobType
      <3>2. QED
        BY <1>2, <1>4, <3>1 DEF JobTypes, DelaysAreTimes
    <2>7. QED
      BY <1>9, <2>1, <2>2, <2>3, <2>4, <2>5, <2>6 DEF Work
  <1>10. QED
    BY <1>5, <1>6, <1>7, <1>8, <1>9 DEF Next

(***************************************************************************)
(* The invariant                                                           *)
(***************************************************************************)
\* What a step of worker q leaves of another queue
SameFor(r) == /\ queue'[r] = queue[r] /\ timers'[r] = timers[r] /\ ran'[r] = ran[r]
              /\ running'[r] = running[r] /\ pc'[r] = pc[r]

LEMMA OthersTurns ==
  ASSUME JobTypes, NEW r \in Queues, Turns(r), SameFor(r),
         jobs' = jobs \/ \E p \in Queues : jobs' = Append(jobs, p)
  PROVE  Turns(r)'
  <1>1. RunsFront(r)' = RunsFront(r) /\ Busy(r)'
    BY DEF SameFor, RunsFront, Idle, Turns, Running, Busy, Locked
  <1>2. QED
    BY <1>1, LeftAlone DEF SameFor

LEMMA WorkPreserves ==
  ASSUME JobTypes, NEW q \in Queues, Turns(q), NEW r \in Queues, Turns(r),
         ExecuteBegins(q) \/ RunFront(q) \/ JobGivesUp(q) \/ JobEnds(q)
           \/ QueueEmpty(q) \/ RunTimer(q) \/ ExecuteEnds(q) \/ WorkerEnds(q)
  PROVE  Turns(r)'
  <1>1. /\ jobs' = jobs /\ (r # q => SameFor(r))
    BY DEF SameFor, JobTypes, ExecuteBegins, RunFront, JobGivesUp, JobEnds, QueueEmpty, RunTimer,
           ExecuteEnds, WorkerEnds, Runs, Goto
  <1>2. CASE r # q
    BY <1>1, <1>2, OthersTurns
  <1>3. CASE r = q /\ RunFront(q)
    BY <1>3, RunFrontPreserves
  <1>4. CASE r = q /\ RunTimer(q)
    BY <1>4, RunTimerPreserves
  <1>5. CASE r = q /\ JobEnds(q)
    <2>1. CASE pc[q] = "queue"
      BY <1>5, <2>1, FrontEndsPreserves
    <2>2. CASE pc[q] # "queue"
      <3>1. queue' = queue /\ timers' = timers /\ ran' = ran /\ pc' = pc /\ Idle(q)'
        BY <1>5, <2>2 DEF JobEnds, Idle, JobTypes
      <3>2. RunsFront(q)' = RunsFront(q)
        BY <2>2, <3>1 DEF RunsFront
      <3>3. QED
        BY <1>1, <1>5, <3>1, <3>2, LeftAlone DEF Busy
    <2>3. QED
      BY <2>1, <2>2
  <1>6. CASE r = q /\ JobGivesUp(q)
    <2>1. /\ queue' = queue /\ timers' = timers /\ ran' = ran /\ pc' = pc
          /\ running[q].posts # 0 /\ running'[q].id = running[q].id
      BY <1>6 DEF JobGivesUp, JobTypes, JobType
    <2>2. ~Idle(q) /\ running'[q].id # 0 /\ Locked(q)'
      BY <2>1 DEF Idle, NoJob, Turns, Running, Busy, Locked
    <2>3. ~Idle(q)' /\ Busy(q)'
      BY <2>2 DEF Idle, Busy, NoJob
    <2>4. RunsFront(q)' = RunsFront(q)
      BY <2>1, <2>2, <2>3 DEF RunsFront
    <2>5. QED
      BY <1>1, <1>6, <2>1, <2>3, <2>4, LeftAlone
  <1>7. CASE r = q /\ (ExecuteBegins(q) \/ QueueEmpty(q) \/ ExecuteEnds(q) \/ WorkerEnds(q))
    <2>1. queue' = queue /\ timers' = timers /\ ran' = ran /\ running' = running
      BY <1>7 DEF ExecuteBegins, QueueEmpty, ExecuteEnds, WorkerEnds
    <2>2. Idle(q)
      BY <1>7 DEF Turns, Running, Busy, Locked, ExecuteBegins, QueueEmpty, ExecuteEnds, WorkerEnds
    <2>3. RunsFront(q)' = RunsFront(q) /\ Busy(q)'
      BY <2>1, <2>2 DEF RunsFront, Busy, Idle
    <2>4. QED
      BY <1>1, <1>7, <2>1, <2>3, LeftAlone
  <1>8. QED
    BY <1>2, <1>3, <1>4, <1>5, <1>6, <1>7

LEMMA JobPostsPreserves ==
  ASSUME DelaysAreTimes, JobTypes, NEW q \in Queues, Turns(q), NEW r \in Queues, Turns(r),
         NEW d \in Delays, JobPosts(q, d)
  PROVE  Turns(r)'
  <1> PICK p : p = running[q].posts
    OBVIOUS
  <1>1. /\ p \in Queues /\ Push(p, d, 0) /\ p # 0
        /\ running' = [running EXCEPT ![q].posts = 0] /\ pc' = pc /\ ran' = ran
    BY DEF JobPosts, JobTypes, JobType
  <1>2. /\ jobs' = Append(jobs, p)
        /\ r # p => queue'[r] = queue[r] /\ timers'[r] = timers[r]
    BY <1>1 DEF Push, JobTypes
  <1>3. RunsFront(r)' = RunsFront(r) /\ Busy(r)'
    <2>1. CASE r = q
      <3>1. ~Idle(q) /\ running'[q].id = running[q].id
        BY <1>1 DEF Idle, NoJob, JobTypes, JobType
      <3>2. running'[q].id # 0 /\ Locked(q)'
        BY <1>1, <3>1 DEF Turns, Running, Busy, Locked
      <3>3. ~Idle(q)' /\ Busy(q)'
        BY <3>2 DEF Idle, Busy, NoJob
      <3>4. QED
        BY <1>1, <2>1, <3>1, <3>3 DEF RunsFront
    <2>2. CASE r # q
      <3>1. running'[r] = running[r]
        BY <1>1, <2>2 DEF JobTypes
      <3>2. QED
        BY <1>1, <3>1 DEF RunsFront, Idle, Turns, Running, Busy, Locked
    <2>3. QED
      BY <2>1, <2>2
  <1>4. CASE r = p
    BY <1>1, <1>3, <1>4, PushPreserves DEF DelaysAreTimes
  <1>5. CASE r # p
    BY <1>1, <1>2, <1>3, <1>5, LeftAlone
  <1>6. QED
    BY <1>4, <1>5

LEMMA PostPreserves ==
  ASSUME DelaysAreTimes, JobTypes, NEW q \in Queues, NEW r \in Queues, Turns(r),
         NEW d \in Delays, Post(q, d)
  PROVE  Turns(r)'
  <1>1. PICK p \in Queues \cup {0} : Push(q, d, p)
    BY DEF Post, Posts
  <1>2. /\ jobs' = Append(jobs, q) /\ ran' = ran
        /\ r # q => queue'[r] = queue[r] /\ timers'[r] = timers[r]
    BY <1>1 DEF Post, Push, JobTypes
  <1>3. RunsFront(r)' = RunsFront(r) /\ Busy(r)'
    BY DEF Post, RunsFront, Idle, Turns, Running, Busy, Locked
  <1>4. CASE r = q
    BY <1>1, <1>2, <1>3, <1>4, PushPreserves DEF DelaysAreTimes
  <1>5. CASE r # q
    BY <1>2, <1>3, <1>5, LeftAlone
  <1>6. QED
    BY <1>4, <1>5

LEMMA JInvInductive == ASSUME DelaysAreTimes PROVE JInv /\ [Next]_vars => JInv'
  <1> SUFFICES ASSUME JInv, [Next]_vars PROVE JInv'
    OBVIOUS
  <1>1. JobTypes /\ JobTypes'
    BY TypesPreserved DEF JInv
  <1>2. ASSUME NEW r \in Queues PROVE Turns(r)'
    <2>1. \A q \in Queues : Turns(q)
      BY DEF JInv
    <2>2. CASE Tick \/ UNCHANGED vars \/ \E q \in Queues : Destroy(q)
      <3>1. SameFor(r) /\ jobs' = jobs
        BY <2>2 DEF Tick, vars, Destroy, SameFor
      <3>2. QED
        BY <1>1, <2>1, <3>1, OthersTurns
    <2>3. ASSUME NEW q \in Queues, NEW d \in Delays, Post(q, d) PROVE Turns(r)'
      BY <1>1, <2>1, <2>3, PostPreserves
    <2>4. ASSUME NEW q \in Queues, Work(q) PROVE Turns(r)'
      <3>1. ASSUME NEW d \in Delays, JobPosts(q, d) PROVE Turns(r)'
        BY <1>1, <2>1, <3>1, JobPostsPreserves
      <3>2. QED
        BY <1>1, <2>1, <2>4, <3>1, WorkPreserves DEF Work
    <2>5. QED
      BY <2>2, <2>3, <2>4 DEF Next
  <1>3. QED
    BY <1>1, <1>2 DEF JInv

LEMMA JInvInTurn == JInv => JobsInTurn
  <1> SUFFICES ASSUME JInv PROVE JobsInTurn
    OBVIOUS
  <1>1. ASSUME NEW q \in Queues, NEW i \in DOMAIN ran[q], NEW k \in DOMAIN ran[q]
        PROVE  /\ jobs[ran[q][i].id] = q /\ ran[q][i].due <= ran[q][i].at
               /\ i < k => /\ ran[q][i].id # ran[q][k].id
                           /\ ran[q][i].due = 0 /\ ran[q][k].due = 0
                                 => ran[q][i].id < ran[q][k].id
                           /\ ran[q][i].due > ran[q][k].due /\ ran[q][k].due # 0
                                 => ran[q][i].id < ran[q][k].id
    <2>1. i \in 1..Len(ran[q]) /\ k \in 1..Len(ran[q])
      BY DEF JInv, JobTypes
    <2>2. RanBefore(q) /\ RanInOrder(q)
      BY DEF JInv, Turns
    <2>3. jobs[ran[q][i].id] = q /\ ran[q][i].due <= ran[q][i].at
      BY <2>1, <2>2 DEF RanBefore, IsIn
    <2>4. QED
      BY <2>1, <2>2, <2>3 DEF RanInOrder
  <1>2. QED
    BY <1>1 DEF JobsInTurn

\* A queue runs its jobs once each, those without a delay in the order they were posted,
\* and the others when they are due: JobQueue::Execute and Post (Job.cpp 92-139).
THEOREM RunsInTurn == ASSUME DelaysAreTimes PROVE Spec => []JobsInTurn
  <1>1. Init => JInv
    BY InitJInv
  <1>2. JInv /\ [Next]_vars => JInv'
    BY JInvInductive
  <1>3. QED
    BY <1>1, <1>2, JInvInTurn, PTL DEF Spec
====
