------------------------------ MODULE Acceptors ------------------------------
(***************************************************************************)
(* A slot of each kind of server: an HNetAcceptor (Session), one in        *)
(* single-thread mode (JobSession) and an HNetWsAcceptor (WsSession).  The *)
(* initial state chooses one; the properties are those all three share.    *)
(***************************************************************************)
EXTENDS Session

CONSTANTS Modes,   \* the kinds of server to look at
          MaxJobs  \* bound: jobs waiting when the peer sends

VARIABLES jobs,   \* HNet::_ioJobQueue
          mode    \* "acceptor", "jobs" or "ws"

ASSUME AcceptorsAssumption == Modes \subseteq {"acceptor", "jobs", "ws"} /\ MaxJobs \in Nat

J == INSTANCE JobSession WITH Ended <- "addDisconnect"
\* Without memory for the ring, the handshake's Send returns with the lock of
\* HNetIoSend held (HNetIo.cpp:641) and the slot is of no further use: left out.
W == INSTANCE WsSession WITH Rearm <- "wsaRecv", Failures <- Failures \ {"initialize"}

allVars == <<vars, jobs, mode>>

\* After Listen, which called Accept or AcceptWs for the slot.
AnyInit == Init /\ jobs = <<>> /\ mode \in Modes

StepOf(t) == \/ mode = "acceptor" /\ Step(t) /\ UNCHANGED <<jobs, mode>>
             \/ mode = "jobs" /\ J!JobStep(t) /\ UNCHANGED mode
             \/ mode = "ws" /\ W!Step(t) /\ UNCHANGED <<jobs, mode>>

\* A worker dequeues a completion.
Dequeue == \/ mode # "jobs" /\ (IF mode = "ws" THEN W!Dispatch ELSE Dispatch)
           \/ mode = "jobs" /\ J!DispatchJob

Arrival == \/ mode # "ws" /\ (PeerConnects \/ AcceptReset)
           \/ mode = "ws" /\ W!PeerRequests

AnyNext == \/ \E t \in Threads : StepOf(t)
           \/ Arrival /\ UNCHANGED <<jobs, mode>>
           \/ (Dequeue \/ Calling) /\ UNCHANGED <<used, jobs, mode>>
           \/ (PeerSends /\ Len(jobs) < MaxJobs) /\ UNCHANGED <<used, jobs, mode>>
           \/ (PeerCloses \/ RecvEnds \/ SendEnds) /\ UNCHANGED <<used, jobs, mode>>

Spec == AnyInit /\ [][AnyNext]_allVars

\* Threads run (in single-thread mode the application calls Update again and
\* again), completions are dequeued, a receive on a closed connection ends, and so
\* does a send: the peer reads what it is sent, or goes.
Fairness == /\ \A t \in Threads : WF_allVars(StepOf(t))
            /\ WF_allVars(Dequeue /\ UNCHANGED <<used, jobs, mode>>)
            /\ WF_allVars(RecvEnds /\ UNCHANGED <<used, jobs, mode>>)
            /\ WF_allVars(SendEnds /\ UNCHANGED <<used, jobs, mode>>)

FairSpec == Spec /\ Fairness

-----------------------------------------------------------------------------
(***************************************************************************)
(* Properties                                                              *)
(***************************************************************************)
\* What a thread may have to do: the steps that others lie on (Disconnect, Send and
\* the callbacks are called there), those of an accept up to _AddSession, those that
\* carry a reference to the job they add, the others, and Update's.
Calls == {"release", "recv", "wsaRecv", "handshake", "ping"}
Opening == {"accepted", "acceptFailed", "onConnect", "onConnectWs", "initialize", "addSession",
            "makeAccept", "makeStale", "addAccept", "addStale"}
Adders == {"addAccept", "addStale", "addRecv"}
Others == {"onConnected", "message", "makeRecv", "addRecv", "send", "wsaSend", "sended", "disconnect",
           "isValid", "hold", "cancel", "clear", "delSession", "onDisconnected", "addDisconnect",
           "close", "open", "acceptEx"}
Handling == Calls \cup Opening \cup Others
Steps == Handling \cup {"pop", "update"}
JobKinds == {"accepted", "acceptFailed", "message", "delSession"}

\* Every variable keeps its type: in particular _count, an unsigned long, never
\* goes below 0, however the Releases of the threads fall.
TypeOK == /\ CoreTypeOK /\ used \in BOOLEAN
          /\ stack \in [Threads -> Seq(Steps)]
          /\ jobs \in Seq(JobKinds)

\* RefCount (RefCount.cpp:18-27) under Accept, AcceptWs, _OnConnect, Recv, _Send,
\* _OnDisconnect and the jobs: _count is the number of outstanding I/O operations, of
\* waiting jobs, of Releases that threads have yet to call, and of references taken
\* for a job or an AcceptEx that comes next: none is forgotten and none is called
\* twice, on any path, failures included.
Carried(t) == Cardinality({i \in 1..Len(stack[t]) :
                  \/ stack[t][i] \in Adders
                  \/ mode = "ws" /\ stack[t][i] = "acceptEx"})

RefsExact == refs + RefTotal(Untaken, Threads)
               = Outstanding + RefTotal(Owed, Threads) + RefTotal(Carried, Threads) + J!JobHolds

\* What the application of HNetAcceptor and HNetWsAcceptor is told of a slot
\* (HNetAcceptor.cpp:112-140, HNetWsAcceptor.cpp:94-122) is OnConnected, messages,
\* OnDisconnected, again and again, whichever calls fail on the way and whether a
\* worker or Update makes the calls.
CallbacksAlternate ==
    NoAppCall => \A t \in Threads : /\ (At(t, "onConnected") => ~told)
                                    /\ (At(t, "message") => told)
                                    /\ (At(t, "onDisconnected") => told)

\* Who ends the connection is alone with the session: no I/O is outstanding, no
\* other thread is inside a handler and no other job waits, so that Close, Open and
\* the next Accept hit nobody.
Ends == {"clear", "delSession", "onDisconnected", "close", "open", "acceptEx"}
InHandler(t) == \E i \in 1..Len(stack[t]) : stack[t][i] \notin {"update", "pop"}
EndIsExclusive ==
    NoAppCall => \A t \in Threads : (\E s \in Ends : At(t, s)) =>
                     /\ Outstanding = 0 /\ J!JobHolds = 0
                     /\ \A u \in Threads : u # t => ~InHandler(u)

\* One operation of each kind at a time: each has one OVERLAPPED in the session.
OneOverlapped == NoAppCall => \A k \in Kinds : Count(k) <= 1

\* The slot is never forgotten (a session not in use has an AcceptEx): somebody works
\* on it, or an I/O is outstanding or a job is queued that will bring a thread back.
SlotKept == Outstanding > 0 \/ jobs # <<>> \/ \E t \in Threads : stack[t] # <<>>

\* A disconnect of a connection the application knows takes place: CancelIoEx
\* (HNetSession.cpp:127-132) brings back all I/O, and the last Release ends it.
DisconnectCompletes == (mode = "acceptor" /\ flag /\ told) ~> ~told

\* A slot whose connection ended accepts the next one (HNetAcceptor.cpp:129-131).
Reaccepts == ~told ~> (io["accept"].pending > 0 \/ told)
=============================================================================
