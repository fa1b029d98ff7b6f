------------------------------ MODULE JobQueue ------------------------------
(***************************************************************************)
(* Job and JobQueue (Job.cpp): callers post jobs, at once or after a       *)
(* delay; the thread of each queue runs them, holding the queue's SpinLock *)
(* all the while.  A job may post one job itself, to its own queue         *)
(* (Job::Post(f, delay) on a job thread) or to any (Job::Post(id, ...)).   *)
(* A job is [id, due, posts]: the queue it posts to, or 0.  A definition   *)
(* named X_Y is X with the defect Y; no specification uses it.             *)
(***************************************************************************)
EXTENDS Integers, Sequences, FiniteSets, SequencesExt

CONSTANTS QueueCount, \* _count, the queues
          Delays,    \* arguments of Post, 0 among them
          Across,    \* whether a job may post to the queue of another thread
          MaxJobs,   \* bound: jobs
          MaxNow     \* bound: timeGetTime(), which does not wrap here; jobs are due by then

Queues == 1..QueueCount

VARIABLES queue,   \* _queue of each JobQueue
          timers,  \* _queueTimer
          active,  \* _active
          pc,      \* of each worker: "sleep", "queue", "timers" or "ended"
          running, \* the job each worker runs, or NoJob
          now,     \* timeGetTime()
          jobs,    \* jobs posted so far: the queue each is in
          ran      \* of each queue, what it ran: [id, due, at]

vars == <<queue, timers, active, pc, running, now, jobs, ran>>

NoJob == [id |-> 0, due |-> 0, posts |-> 0]

Init == /\ queue = [q \in Queues |-> <<>>] /\ timers = [q \in Queues |-> {}]
        /\ active = [q \in Queues |-> TRUE] /\ pc = [q \in Queues |-> "sleep"]
        /\ running = [q \in Queues |-> NoJob]
        /\ now = 0 /\ jobs = <<>> /\ ran = [q \in Queues |-> <<>>]

\* A worker keeps the lock of its queue for as long as it executes jobs.
Locked(q) == pc[q] \in {"queue", "timers"}

NewJob(delay, posts) == [id |-> Len(jobs) + 1, posts |-> posts,
                         due |-> IF delay = 0 THEN 0 ELSE now + delay]

Push(q, delay, posts) ==
    LET job == NewJob(delay, posts)
    IN  /\ now + delay <= MaxNow
        /\ jobs' = Append(jobs, q)
        /\ IF delay = 0 THEN /\ queue' = [queue EXCEPT ![q] = Append(@, job)]
                             /\ UNCHANGED timers
                        ELSE /\ timers' = [timers EXCEPT ![q] = @ \cup {job}]
                             /\ UNCHANGED queue

\* Job::Post on a thread that has no queue: any (GetQueue(++_seqId)); Post of a queue that
\* is not active returns false.
Posts(q) == {0, q} \cup (IF Across THEN Queues ELSE {})

Post(q, delay) == /\ Len(jobs) < MaxJobs /\ active[q] /\ ~Locked(q)
                  /\ \E p \in Posts(q) : Push(q, delay, p)
                  /\ UNCHANGED <<active, pc, running, now, ran>>

(***************************************************************************)
(* The worker of queue q                                                   *)
(***************************************************************************)
Goto(q, l) == pc' = [pc EXCEPT ![q] = l]

ExecuteBegins(q) == /\ pc[q] = "sleep" /\ active[q]
                    /\ Goto(q, "queue")
                    /\ UNCHANGED <<queue, timers, active, running, now, jobs, ran>>

Idle(q) == running[q] = NoJob

Runs(q, job) == /\ running' = [running EXCEPT ![q] = job]
                /\ ran' = [ran EXCEPT ![q] = Append(@, [id |-> job.id, due |-> job.due, at |-> now])]

RunFront(q) == /\ pc[q] = "queue" /\ Idle(q) /\ queue[q] # <<>>
               /\ Runs(q, Head(queue[q]))
               /\ UNCHANGED <<queue, timers, active, pc, now, jobs>>

\* The job posts: to a queue whose lock this thread has, or once that lock is free.
JobPosts(q, delay) == LET p == running[q].posts
                      IN  /\ p # 0 /\ Len(jobs) < MaxJobs
                          /\ active[p] /\ (p = q \/ ~Locked(p))
                          /\ Push(p, delay, 0)
                          /\ running' = [running EXCEPT ![q].posts = 0]
                          /\ UNCHANGED <<active, pc, now, ran>>

JobGivesUp(q) == LET p == running[q].posts
                 IN  /\ p # 0 /\ (Len(jobs) >= MaxJobs \/ ~active[p])
                     /\ running' = [running EXCEPT ![q].posts = 0]
                     /\ UNCHANGED <<queue, timers, active, pc, now, jobs, ran>>

\* The front job is popped after it has run.
JobEnds(q) == /\ ~Idle(q) /\ running[q].posts = 0
              /\ running' = [running EXCEPT ![q] = NoJob]
              /\ queue' = IF pc[q] = "queue" THEN [queue EXCEPT ![q] = Tail(@)] ELSE queue
              /\ UNCHANGED <<timers, active, pc, now, jobs, ran>>

AfterQueue_Sleeps(q) == "sleep"
AfterQueue(q) == "timers"

QueueEmpty(q) == /\ pc[q] = "queue" /\ Idle(q) /\ queue[q] = <<>>
                 /\ Goto(q, AfterQueue(q))
                 /\ UNCHANGED <<queue, timers, active, running, now, jobs, ran>>

\* The top of _queueTimer: one of the earliest
Earliest(q) == {j \in timers[q] : \A k \in timers[q] : j.due <= k.due}
Due_Any(q) == Earliest(q)
Due(q) == {j \in Earliest(q) : j.due <= now}

RunTimer(q) == /\ pc[q] = "timers" /\ Idle(q)
               /\ \E j \in Due(q) : /\ timers' = [timers EXCEPT ![q] = @ \ {j}]
                                    /\ Runs(q, j)
               /\ UNCHANGED <<queue, active, pc, now, jobs>>

ExecuteEnds(q) == /\ pc[q] = "timers" /\ Idle(q) /\ Due(q) = {}
                  /\ Goto(q, "sleep")
                  /\ UNCHANGED <<queue, timers, active, running, now, jobs, ran>>

WorkerEnds(q) == /\ pc[q] = "sleep" /\ ~active[q]
                 /\ Goto(q, "ended")
                 /\ UNCHANGED <<queue, timers, active, running, now, jobs, ran>>

\* delete[] destroys the queues from the last to the first and waits for each thread.
Destroy(q) == /\ active[q] /\ \A r \in Queues : r > q => pc[r] = "ended"
              /\ active' = [active EXCEPT ![q] = FALSE]
              /\ UNCHANGED <<queue, timers, pc, running, now, jobs, ran>>

Tick == /\ now < MaxNow /\ now' = now + 1
        /\ UNCHANGED <<queue, timers, active, pc, running, jobs, ran>>

\* The worker's steps, for which it is scheduled; callers post and destroy when they like.
Work(q) == \/ ExecuteBegins(q) \/ RunFront(q) \/ JobGivesUp(q) \/ JobEnds(q)
           \/ QueueEmpty(q) \/ RunTimer(q) \/ ExecuteEnds(q) \/ WorkerEnds(q)
           \/ \E d \in Delays : JobPosts(q, d)

Next == \/ \E q \in Queues : Work(q) \/ Destroy(q) \/ \E d \in Delays : Post(q, d)
        \/ Tick

\* A thread that spins on the lock of a queue that is free again and again gets it: its
\* worker sleeps ten milliseconds in every turn.
Fairness == /\ WF_vars(Tick)
            /\ \A q \in Queues : /\ WF_vars(Work(q))
                                /\ SF_vars(\E d \in Delays : JobPosts(q, d))
Spec == Init /\ [][Next]_vars /\ Fairness

(***************************************************************************)
(* Properties                                                              *)
(***************************************************************************)
\* A queue runs its jobs once each; those without a delay in the order they were posted,
\* whoever posted them; the others not before they are due, and the earlier due first
\* unless the later one had run before the earlier was posted.
JobsInTurn ==
    \A q \in Queues : \A i, k \in DOMAIN ran[q] :
        LET a == ran[q][i]
            b == ran[q][k]
        IN  /\ jobs[a.id] = q /\ a.due <= a.at
            /\ i < k => /\ a.id # b.id
                        /\ a.due = 0 /\ b.due = 0 => a.id < b.id
                        /\ a.due > b.due /\ b.due # 0 => a.id < b.id

\* Every job is run unless its queue is destroyed first, and a job that is running ends:
\* the callers, who wait for the queue's lock meanwhile, go on.
JobsRun ==
    \A q \in Queues : /\ (queue[q] # <<>> \/ timers[q] # {}) ~>
                             (queue[q] = <<>> /\ timers[q] = {}) \/ ~active[q]
                      /\ Locked(q) ~> ~Locked(q)
=============================================================================
