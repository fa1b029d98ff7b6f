----------------------------- MODULE JobSession ------------------------------
(***************************************************************************)
(* Single-thread mode: HNet::IsSingleThread is overridden to return TRUE,  *)
(* the workers turn completions into jobs (HNetIo::CompletionJob, the      *)
(* operators >> of the HNetIo classes), and the application's thread calls *)
(* HNet::Update, which executes them.  Otherwise the slot lives as in      *)
(* Session; OnRelease queues a job instead of ending the connection (Ended *)
(* is "addDisconnect").                                                    *)
(***************************************************************************)
EXTENDS Session

VARIABLE jobs     \* HNet::_ioJobQueue

jobVars == <<vars, jobs>>

\* Update holds the lock of HNet from its first job to its last.
Updating(a) == \E i \in 1..Len(stack[a]) : stack[a][i] = "update"
LockFree(t) == \A a \in Threads \ {t} : ~Updating(a)

\* The job at the front is in Excute, and popped when it returns.
Executing == \E a \in Threads : \E i \in 1..Len(stack[a]) : stack[a][i] = "pop"

(***************************************************************************)
(* HNetSession::_AddIoJob: the constructors of the accept and the receive  *)
(* job take a reference, that of the disconnect job does not               *)
(***************************************************************************)
Making == [makeAccept |-> "addAccept", makeStale |-> "addStale", makeRecv |-> "addRecv"]

MakeJob_NoReference(t) ==
    /\ stack[t] # <<>> /\ Head(stack[t]) \in DOMAIN Making
    /\ Then(t, <<Making[Head(stack[t])]>>)
    /\ UNCHANGED <<sock, io, refs, flag, listed, sending, more, ring, gen, used, told, calls, jobs>>
MakeJob(t) == /\ stack[t] # <<>> /\ Head(stack[t]) \in DOMAIN Making
              /\ Reference
              /\ Then(t, <<Making[Head(stack[t])]>>)
              /\ UNCHANGED <<sock, io, flag, listed, sending, more, ring, gen, used, told, calls, jobs>>

Adds == [addAccept |-> "accepted", addStale |-> "acceptFailed", addRecv |-> "message",
         addDisconnect |-> "delSession"]

AddIoJob(t) == /\ stack[t] # <<>> /\ Head(stack[t]) \in DOMAIN Adds
               /\ LockFree(t)
               /\ jobs' = Append(jobs, Adds[Head(stack[t])])
               /\ Then(t, <<>>)
               /\ UNCHANGED <<sock, io, refs, flag, listed, sending, more, ring, gen, used, told, calls>>

\* CompletedJob returns false: Disconnect, and neither job nor Recv
BadBytes(t) == /\ At(t, "makeRecv")
               /\ ThenSkip(t, "recv", <<"disconnect">>)
               /\ UNCHANGED <<sock, io, refs, flag, listed, sending, more, ring, gen, used, told, calls, jobs>>

(***************************************************************************)
(* HNetIocp::WorkerJob and HNetIo::CompletionJob                           *)
(***************************************************************************)
JobHandler(k, result) ==
    CASE k = "accept" -> <<IF result = "done" THEN "makeAccept" ELSE "makeStale", "release">>
      [] k = "recv" /\ result = "done" -> <<"makeRecv", "recv", "release">>
      [] OTHER -> Handler(k, result)

DispatchJob == \E w \in Workers, k \in Kinds, result \in {"done", "zero"} :
                   Taken(w, k, result, JobHandler(k, result))

(***************************************************************************)
(* HNet::Update on an application thread                                   *)
(***************************************************************************)
Update(a) == /\ stack[a] = <<>> /\ jobs # <<>> /\ LockFree(a)
             /\ stack' = [stack EXCEPT ![a] = <<"update">>]
             /\ UNCHANGED <<sock, io, refs, flag, listed, sending, more, ring, gen, used, told, calls, jobs>>

\* Excute: the accept and the receive job give their reference back at the end.
Excute(a) == /\ At(a, "update") /\ jobs # <<>>
             /\ stack' = [stack EXCEPT ![a] =
                            <<Head(jobs)>> \o (IF Head(jobs) = "delSession" THEN <<>> ELSE <<"release">>)
                                           \o <<"pop">> \o @]
             /\ UNCHANGED <<sock, io, refs, flag, listed, sending, more, ring, gen, used, told, calls, jobs>>

Pop(a) == /\ At(a, "pop")
          /\ jobs' = Tail(jobs)
          /\ Then(a, <<>>)
          /\ UNCHANGED <<sock, io, refs, flag, listed, sending, more, ring, gen, used, told, calls>>

UpdateEnds(a) == /\ At(a, "update") /\ jobs = <<>>
                 /\ Then(a, <<>>)
                 /\ UNCHANGED <<sock, io, refs, flag, listed, sending, more, ring, gen, used, told, calls, jobs>>

JobStep(t) == \/ MakeJob(t) \/ AddIoJob(t) \/ BadBytes(t)
              \/ (t \in Apps /\ (Update(t) \/ Excute(t) \/ Pop(t) \/ UpdateEnds(t)))
              \/ (Step(t) /\ UNCHANGED jobs)

JobNext == \/ \E t \in Threads : JobStep(t)
           \/ (PeerConnects \/ AcceptReset) /\ UNCHANGED jobs
           \/ (DispatchJob \/ Kernel \/ Calling) /\ UNCHANGED <<used, jobs>>

-----------------------------------------------------------------------------
\* The references of the jobs that wait.
Holds(i) == jobs[i] # "delSession" /\ ~(i = 1 /\ Executing)
JobHolds == Cardinality({i \in 1..Len(jobs) : Holds(i)})
=============================================================================
