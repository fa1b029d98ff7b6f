------------------------------- MODULE RecvJobs ------------------------------
(***************************************************************************)
(* HNetIoRecv in single-thread mode.  The worker runs CompletedJob, which  *)
(* goes over the whole packets as Completed does but delivers none, hands  *)
(* _buf with the number of bytes gone over to a HNetIoRecvJob and gets a   *)
(* new buffer with what is left.  Update runs Completed on the job's       *)
(* buffer.  In this mode `delivered' is what the worker went over, and     *)
(* `told' is what the application gets.                                    *)
(***************************************************************************)
EXTENDS RecvFraming

CONSTANTS Modes,   \* values of HNet::IsSingleThread to look at
          MaxJobs  \* bound: jobs the application's thread may lag behind

VARIABLES single,  \* HNet::IsSingleThread
          jobs,    \* the receive jobs of _ioJobQueue: buffer, _begin, bytes to go
          told     \* the packets given to _OnMessage by jobs

jobVars == <<vars, single, jobs, told>>

ASSUME RecvJobsAssumption == Modes \subseteq BOOLEAN /\ MaxJobs \in Nat

JobInit == Init /\ single \in Modes /\ jobs = <<>> /\ told = <<>>

(***************************************************************************)
(* operator >> and Flip, when CompletedJob has gone over what there is:    *)
(* bytes that are not copied are whatever the pool returns                 *)
(***************************************************************************)
HandOver == /\ jobs' = Append(jobs, [buf |-> buf, at |-> 0, bytes |-> begin])
            /\ buf' = [i \in 0..MaxSize - 1 |-> IF begin <= i /\ i < end' THEN buf[i] ELSE 0]

KeepJob == /\ Looping
           /\ ~HasHeader \/ (Check /\ PacketSize > incomplete)
           /\ KeepRest
           /\ HandOver
           /\ LeaveCompleted("rearm")
           /\ UNCHANGED <<begin, len, window, thread, peerVars, taken, delivered, single, told>>

LoopEndsJob == /\ state = "handling" /\ bytes = 0
               /\ UNCHANGED end
               /\ HandOver
               /\ LeaveCompleted("rearm")
               /\ UNCHANGED <<begin, len, window, thread, peerVars, taken, delivered, single, told>>

CompletedJob == \/ KeepJob \/ LoopEndsJob
                \/ (BadPacket \/ Deliver) /\ UNCHANGED <<single, jobs, told>>

(***************************************************************************)
(* HNetIoRecvJob::Excute: Completed(_byte), one action per packet          *)
(***************************************************************************)
Job == Head(jobs)
JobPacket == IF \E k \in 1..Len(packets) : Job.buf[Job.at] = Start[k - 1] + 1
             THEN packets[CHOOSE k \in 1..Len(packets) : Job.buf[Job.at] = Start[k - 1] + 1]
             ELSE 0
Whole == /\ HeaderSize <= Job.bytes
         /\ HeaderSize <= JobPacket /\ JobPacket <= MaxSize /\ JobPacket <= Job.bytes

JobDelivers_NoAdvance ==
    /\ jobs # <<>> /\ Job.bytes # 0 /\ Whole
    /\ told' = Append(told, [i \in 1..JobPacket |-> Job.buf[Job.at + i - 1]])
    /\ jobs' = [jobs EXCEPT ![1].bytes = @ - JobPacket]
    /\ UNCHANGED <<vars, single>>
JobDelivers ==
    /\ jobs # <<>> /\ Job.bytes # 0 /\ Whole
    /\ told' = Append(told, [i \in 1..JobPacket |-> Job.buf[Job.at + i - 1]])
    /\ jobs' = [jobs EXCEPT ![1].at = @ + JobPacket, ![1].bytes = @ - JobPacket]
    /\ UNCHANGED <<vars, single>>

JobEnds == /\ jobs # <<>> /\ (Job.bytes # 0 => ~Whole)
           /\ jobs' = Tail(jobs)
           /\ UNCHANGED <<vars, single, told>>

Excute == JobDelivers \/ JobEnds

Handling == \/ ~single /\ Completed /\ UNCHANGED <<single, jobs, told>>
            \/ single /\ CompletedJob

Peer == \/ \E s \in Sizes : PeerSend(s)
        \/ PeerClose
        \/ \E t \in Threads, n \in OtherLens : OtherSession(t, n)

Arrival == \/ \E t \in Threads, n \in 1..Available : Receive(t, n)
           \/ \E n \in 1..Available : Overrun(n)
           \/ ReceiveNothing

JobNext == \/ Peer /\ UNCHANGED <<single, jobs, told>>
           \/ (Len(jobs) < MaxJobs /\ Arrival) /\ UNCHANGED <<single, jobs, told>>
           \/ Handling
           \/ (Recv \/ RecvFails) /\ UNCHANGED <<single, jobs, told>>
           \/ Excute

Spec == JobInit /\ [][JobNext]_jobVars

\* A worker that dequeued the completion goes on, the kernel hands over what has
\* arrived, and the application calls Update.
Fairness == /\ WF_jobVars(Handling)
            /\ WF_jobVars((Recv \/ RecvFails) /\ UNCHANGED <<single, jobs, told>>)
            /\ WF_jobVars((Len(jobs) < MaxJobs /\ Arrival) /\ UNCHANGED <<single, jobs, told>>)
            /\ WF_jobVars(Excute)

FairSpec == Spec /\ Fairness

-----------------------------------------------------------------------------
\* In single-thread mode the jobs deliver what the worker went over, whole, in order
\* and once; what a closing session drops is the end of it.
JobsInOrder == single =>
    /\ told = SubSeq(delivered, 1, Len(told))
    /\ (jobs = <<>> /\ state = "posted") => told = delivered

\* A packet that comes after well-formed ones is given to the application (_OnMessage,
\* HNetSession.cpp:370-374), by a worker or by Update, unless the session is closed or its buffer was overrun.
Told == IF single THEN Len(told) ELSE Len(delivered)
WellFormed(k) ==
    Len(packets) >= k /\ \A j \in 1..k : packets[j] \in HeaderSize..MaxSize

Arrives ==
    \A k \in 1..MaxPackets :
        WellFormed(k) ~> (Told >= k \/ state \in {"closed", "overrun"})
=============================================================================
