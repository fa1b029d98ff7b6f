----------------------------- MODULE SessionCore -----------------------------
(***************************************************************************)
(* What every session does, whoever owns it: the connect callback,         *)
(* receiving, sending, Disconnect and the reference count.  Every          *)
(* outstanding I/O and every function that needs the session holds one     *)
(* reference, and the thread whose Release brings the count to zero runs   *)
(* OnRelease, which ends the connection.  Session (an acceptor's slot) and *)
(* Connector add how a connection begins and what follows its end.         *)
(*                                                                         *)
(* Worker threads run completions, application threads call in.  stack[t]  *)
(* is the rest of what thread t has to do, the next step first; a step     *)
(* that calls a function puts that function's steps in front.  Between two *)
(* steps any other thread may run.                                         *)
(*                                                                         *)
(* The bytes are left out: SendQueue and RecvFraming have them.  Of the    *)
(* gathering ring there remains _pending and whether data waits behind the *)
(* WSASend.  A definition named X_Y is X with the defect Y; no             *)
(* specification uses it.                                                  *)
(***************************************************************************)
EXTENDS Naturals, Sequences, FiniteSets

CONSTANTS Workers,    \* threads of HNetIocp
          Apps,       \* application threads
          Failures,   \* the calls that may fail
          Leave,      \* first step of the owner's Disconnect, which callbacks may call
          Rearm,      \* first step of the owner's way to post the next receive
          Ended,      \* the step of OnRelease after Clear
          MaxConn,    \* bound: connections
          MaxCalls    \* bound: calls by application threads

Threads == Workers \cup Apps
Kinds == {"accept", "recv", "send", "reconnect"}
Fallible == {"open", "acceptex", "connect", "address", "initialize", "associate", "recv",
             "send", "reset"}

ASSUME SessionAssumption ==
    /\ Workers \cap Apps = {}
    /\ Failures \subseteq Fallible
    /\ MaxConn \in Nat /\ MaxCalls \in Nat

VARIABLES sock,     \* "none" (INVALID_SOCKET), "fresh", "up", "down"
          io,       \* io[k]: number of overlapped calls of kind k that are
                    \* "pending", "done" or done with 0 bytes or an error ("zero")
          refs,     \* RefCount::_count
          flag,     \* _disconnect # NULL
          listed,   \* the slot of _connectedSessions # NULL
          sending,  \* HNetIoSend::_pending
          more,     \* packets wait in the ring behind the WSASend
          ring,     \* the gathering ring exists (HNetIoSend::_head # NULL)
          gen,      \* the upper half of _netId
          stack,    \* what each thread still has to do
          told,     \* history: OnConnected was called last, not OnDisconnected
          calls     \* application calls made (only for the bound)

coreVars == <<sock, io, refs, flag, listed, sending, more, ring, gen, stack, told, calls>>

Idle == [pending |-> 0, done |-> 0, zero |-> 0]
Count(k) == io[k].pending + io[k].done + io[k].zero
\* What holds a reference: a queued Reconnect does not.
Outstanding == Count("accept") + Count("recv") + Count("send")

Posted(k) == [io EXCEPT ![k].pending = @ + 1]
Completes(k, result) == [io EXCEPT ![k].pending = @ - 1, ![k][result] = @ + 1]
Aborted(ks) == [k \in Kinds |-> IF k \in ks
                                   THEN [io[k] EXCEPT !.pending = 0, !.zero = @ + io[k].pending]
                                   ELSE io[k]]

(***************************************************************************)
(* Steps                                                                   *)
(***************************************************************************)
At(t, s) == stack[t] # <<>> /\ Head(stack[t]) = s

\* The step is done and `steps' are what it calls.
Then(t, steps) == stack' = [stack EXCEPT ![t] = steps \o Tail(@)]

\* As Then, and the function that called this step returns before `s'.
ThenSkip(t, s, steps) ==
    /\ Head(Tail(stack[t])) = s
    /\ stack' = [stack EXCEPT ![t] = steps \o Tail(Tail(@))]

MayFail(f) == f \in Failures

Reference == refs' = refs + 1

(***************************************************************************)
(* RefCount::Release and HNetSession::OnRelease                            *)
(***************************************************************************)
Release(t) == /\ At(t, "release")
              /\ refs' = refs - 1
              /\ Then(t, IF refs = 1 THEN <<"clear">> ELSE <<>>)
              /\ UNCHANGED <<sock, io, flag, listed, sending, more, ring, gen, told, calls>>

\* HNetIoSend::Clear goes round the ring without asking whether there is one:
\* where there is none yet the thread faults and takes no further step.
Clear(t) == /\ At(t, "clear") /\ ring
            /\ more' = FALSE
            /\ Then(t, <<Ended>>)
            /\ UNCHANGED <<sock, io, refs, flag, listed, sending, ring, gen, told, calls>>

\* _DelSession: a session that is not listed is left as it is
DelSession_Unchecked(t) ==
    /\ At(t, "delSession")
    /\ listed' = FALSE
    /\ Then(t, <<"onDisconnected">>)
    /\ UNCHANGED <<sock, io, refs, flag, sending, more, ring, gen, told, calls>>
DelSession(t) ==
    /\ At(t, "delSession")
    /\ listed' = FALSE
    /\ Then(t, IF listed THEN <<"onDisconnected">> ELSE <<>>)
    /\ UNCHANGED <<sock, io, refs, flag, sending, more, ring, gen, told, calls>>

Close(t) == /\ At(t, "close")
            /\ sock' = "none"
            /\ io' = Aborted(Kinds)
            /\ Then(t, <<>>)
            /\ UNCHANGED <<refs, flag, listed, sending, more, ring, gen, told, calls>>

\* HNetSession::Open: a socket it had is closed first, and a failing setsockopt
\* leaves the new one.
Opened == /\ sock' = "fresh"
          /\ io' = Aborted(Kinds)
OpenFailed == /\ MayFail("open")
              /\ sock' \in {"none", "fresh"}
              /\ io' = Aborted(Kinds)

(***************************************************************************)
(* HNetSession::_OnConnect and _OnReconnect, HNet::_Connected, callbacks   *)
(***************************************************************************)
OnConnect(t) == /\ At(t, "onConnect")
                /\ Reference
                /\ Then(t, <<"initialize", "release">>)
                /\ UNCHANGED <<sock, io, flag, listed, sending, more, ring, gen, told, calls>>

InitializeOk(t) == /\ At(t, "initialize")
                   /\ flag' = FALSE /\ sending' = FALSE /\ ring' = TRUE
                   /\ Then(t, <<"addSession">>)
                   /\ UNCHANGED <<sock, io, refs, listed, more, gen, told, calls>>

InitializeFails(t) ==
    /\ At(t, "initialize") /\ MayFail("initialize")
    /\ Then(t, <<"disconnect">>)
    /\ UNCHANGED <<sock, io, refs, flag, listed, sending, more, ring, gen, told, calls>>

\* _Associate, then _AddSession
AddSessionOk(t) == /\ At(t, "addSession") /\ sock # "none" /\ ~listed
                   /\ listed' = TRUE
                   /\ Then(t, <<"onConnected", Rearm>>)
                   /\ UNCHANGED <<sock, io, refs, flag, sending, more, ring, gen, told, calls>>

AddSessionFails(t) ==
    /\ At(t, "addSession") /\ (sock = "none" \/ listed \/ MayFail("associate"))
    /\ Then(t, <<"disconnect">>)
    /\ UNCHANGED <<sock, io, refs, flag, listed, sending, more, ring, gen, told, calls>>

\* What a callback may call on its own session.
Callback == {<<>>, <<"send">>, <<Leave>>}

OnConnected(t) == /\ At(t, "onConnected")
                  /\ gen' = gen + 1
                  /\ told' = TRUE
                  /\ \E cb \in Callback : Then(t, cb)
                  /\ UNCHANGED <<sock, io, refs, flag, listed, sending, more, ring, calls>>

(***************************************************************************)
(* HNetIoRecv                                                              *)
(***************************************************************************)
Message(t) == /\ At(t, "message")
              /\ \E cb \in Callback : Then(t, cb)
              /\ UNCHANGED <<sock, io, refs, flag, listed, sending, more, ring, gen, told, calls>>

\* Completed returns false: Disconnect, and no Recv
BadMessage(t) == /\ At(t, "message")
                 /\ ThenSkip(t, Rearm, <<"disconnect">>)
                 /\ UNCHANGED <<sock, io, refs, flag, listed, sending, more, ring, gen, told, calls>>

\* Recv: the test of IsDisconnect and the WSARecv are two steps
Recv_Unchecked(t) ==
    /\ At(t, "recv")
    /\ Then(t, <<"wsaRecv">>)
    /\ UNCHANGED <<sock, io, refs, flag, listed, sending, more, ring, gen, told, calls>>
Recv(t) == /\ At(t, "recv")
           /\ Then(t, IF flag THEN <<>> ELSE <<"wsaRecv">>)
           /\ UNCHANGED <<sock, io, refs, flag, listed, sending, more, ring, gen, told, calls>>

WsaRecvOk(t) == /\ At(t, "wsaRecv") /\ sock \in {"up", "down"}
                /\ Reference
                /\ io' = Posted("recv")
                /\ Then(t, <<>>)
                /\ UNCHANGED <<sock, flag, listed, sending, more, ring, gen, told, calls>>

WsaRecvFails(t) == /\ At(t, "wsaRecv") /\ (sock # "up" \/ MayFail("recv"))
                   /\ Reference
                   /\ Then(t, <<"disconnect", "release">>)
                   /\ UNCHANGED <<sock, io, flag, listed, sending, more, ring, gen, told, calls>>

(***************************************************************************)
(* HNetIoSend                                                              *)
(***************************************************************************)
\* The packet goes to _tail, which is *_head unless a late Send of the last
\* connection (after its Clear) left packets in the buffers before it.
SendIdle_NoFlag(t) ==
    /\ At(t, "send") /\ ~sending
    /\ Then(t, <<"wsaSend">>)
    /\ UNCHANGED <<sock, io, refs, flag, listed, sending, more, ring, gen, told, calls>>
SendIdle(t) == /\ At(t, "send") /\ ~sending
               /\ sending' = TRUE
               /\ more' \in {FALSE, more}
               /\ Then(t, <<"wsaSend">>)
               /\ UNCHANGED <<sock, io, refs, flag, listed, ring, gen, told, calls>>

SendBehind(t) == /\ At(t, "send") /\ sending
                 /\ more' = TRUE
                 /\ Then(t, <<>>)
                 /\ UNCHANGED <<sock, io, refs, flag, listed, sending, ring, gen, told, calls>>

WsaSendOk_NoReference(t) ==
    /\ At(t, "wsaSend") /\ sock \in {"up", "down"}
    /\ io' = Posted("send")
    /\ Then(t, <<>>)
    /\ UNCHANGED <<sock, refs, flag, listed, sending, more, ring, gen, told, calls>>
WsaSendOk(t) == /\ At(t, "wsaSend") /\ sock \in {"up", "down"}
                /\ Reference
                /\ io' = Posted("send")
                /\ Then(t, <<>>)
                /\ UNCHANGED <<sock, flag, listed, sending, more, ring, gen, told, calls>>

WsaSendFails(t) == /\ At(t, "wsaSend") /\ (sock # "up" \/ MayFail("send"))
                   /\ Reference
                   /\ Then(t, <<"disconnect", "release">>)
                   /\ UNCHANGED <<sock, io, flag, listed, sending, more, ring, gen, told, calls>>

Sended(t) == /\ At(t, "sended")
             /\ more' = FALSE
             /\ sending' = more
             /\ Then(t, IF more THEN <<"wsaSend">> ELSE <<>>)
             /\ UNCHANGED <<sock, io, refs, flag, listed, ring, gen, told, calls>>

(***************************************************************************)
(* HNetIoDisconnect::Disconnect and HNetSession::_OnDisconnect             *)
(***************************************************************************)
Disconnect(t) == /\ At(t, "disconnect")
                 /\ flag' = TRUE
                 /\ Then(t, <<"isValid">>)
                 /\ UNCHANGED <<sock, io, refs, listed, sending, more, ring, gen, told, calls>>

IsValid(t) == /\ At(t, "isValid")
              /\ Then(t, IF sock = "none" THEN <<>> ELSE <<"hold", "cancel", "release">>)
              /\ UNCHANGED <<sock, io, refs, flag, listed, sending, more, ring, gen, told, calls>>

Hold(t) == /\ At(t, "hold")
           /\ Reference
           /\ Then(t, <<>>)
           /\ UNCHANGED <<sock, io, flag, listed, sending, more, ring, gen, told, calls>>

\* CancelIoEx(_socket, NULL): AcceptEx was issued on the listening socket
Cancel(t) == /\ At(t, "cancel")
             /\ io' = Aborted({"recv", "send"})
             /\ Then(t, <<>>)
             /\ UNCHANGED <<sock, refs, flag, listed, sending, more, ring, gen, told, calls>>

(***************************************************************************)
(* HNetIocp::Worker and HNetIo::Completion: a worker with nothing else to  *)
(* do takes a completion.  Recved and Accepted do not look at the status,  *)
(* only at the number of bytes.                                            *)
(***************************************************************************)
Handler(k, result) ==
    CASE k = "accept" /\ result = "done" -> <<"accepted", "release">>
      [] k = "accept" /\ result = "zero" -> <<"acceptFailed", "release">>
      [] k = "recv" /\ result = "done" -> <<"message", Rearm, "release">>
      [] k = "recv" /\ result = "zero" -> <<"disconnect", "release">>
      [] k = "send" -> <<"sended", "release">>
      [] k = "reconnect" -> <<"reopen">>

Taken(w, k, result, steps) ==
    /\ stack[w] = <<>> /\ io[k][result] > 0
    /\ io' = [io EXCEPT ![k][result] = @ - 1]
    /\ stack' = [stack EXCEPT ![w] = steps]
    /\ UNCHANGED <<sock, refs, flag, listed, sending, more, ring, gen, told, calls>>
Completion(w, k, result) == Taken(w, k, result, Handler(k, result))

(***************************************************************************)
(* The kernel and the peer                                                 *)
(***************************************************************************)
PeerSends == /\ sock = "up" /\ io["recv"].pending > 0
             /\ io' = Completes("recv", "done")
             /\ UNCHANGED <<sock, refs, flag, listed, sending, more, ring, gen, stack, told, calls>>

PeerCloses == /\ sock = "up" /\ sock' = "down"
              /\ UNCHANGED <<io, refs, flag, listed, sending, more, ring, gen, stack, told, calls>>

RecvEnds == /\ sock = "down" /\ io["recv"].pending > 0
            /\ io' = Completes("recv", "zero")
            /\ UNCHANGED <<sock, refs, flag, listed, sending, more, ring, gen, stack, told, calls>>

SendEnds == /\ io["send"].pending > 0
            /\ io' = Completes("send", "done")
            /\ UNCHANGED <<sock, refs, flag, listed, sending, more, ring, gen, stack, told, calls>>

(***************************************************************************)
(* Application threads: _FindSession, then the call, without a reference   *)
(***************************************************************************)
AppCall(a, s) == /\ stack[a] = <<>> /\ calls < MaxCalls /\ gen > 0
                 /\ stack' = [stack EXCEPT ![a] = <<s>>]
                 /\ calls' = calls + 1
                 /\ UNCHANGED <<sock, io, refs, flag, listed, sending, more, ring, gen, told>>

Ending(t) == Release(t) \/ Clear(t) \/ DelSession(t) \/ Close(t)
Connecting(t) == \/ OnConnect(t) \/ InitializeOk(t) \/ InitializeFails(t)
                 \/ AddSessionOk(t) \/ AddSessionFails(t) \/ OnConnected(t)
Receiving(t) == Message(t) \/ BadMessage(t) \/ Recv(t) \/ WsaRecvOk(t) \/ WsaRecvFails(t)
Sending(t) == SendIdle(t) \/ SendBehind(t) \/ WsaSendOk(t) \/ WsaSendFails(t) \/ Sended(t)
Disconnecting(t) == Disconnect(t) \/ IsValid(t) \/ Hold(t) \/ Cancel(t)

CoreStep(t) == Ending(t) \/ Connecting(t) \/ Receiving(t) \/ Sending(t) \/ Disconnecting(t)

Dispatch == \E w \in Workers, k \in Kinds, result \in {"done", "zero"} : Completion(w, k, result)
Kernel == PeerSends \/ PeerCloses \/ RecvEnds \/ SendEnds
Calling == \E a \in Apps, s \in {"send", Leave} : AppCall(a, s)

-----------------------------------------------------------------------------
(***************************************************************************)
(* What the properties of Session and Connector share                      *)
(***************************************************************************)
CoreTypeOK ==
    /\ sock \in {"none", "fresh", "up", "down"}
    /\ io \in [Kinds -> [pending : Nat, done : Nat, zero : Nat]]
    /\ refs \in Nat
    /\ flag \in BOOLEAN /\ listed \in BOOLEAN /\ sending \in BOOLEAN
    /\ more \in BOOLEAN /\ ring \in BOOLEAN /\ told \in BOOLEAN
    /\ gen \in Nat
    /\ calls \in 0..MaxCalls

\* Releases a thread has yet to call, and holds it is about to take.
Owed(s) == Cardinality({i \in 1..Len(stack[s]) : stack[s][i] = "release"})
Untaken(s) == Cardinality({i \in 1..Len(stack[s]) : stack[s][i] = "hold"})

RefTotal(f(_), S) == Cardinality(UNION {{t} \X (1..f(t)) : t \in S})

\* Application threads that send or disconnect hold no reference, so some
\* properties are promised only while none has done so.
NoAppCall == calls = 0
=============================================================================
