------------------------------ MODULE WsSession ------------------------------
(***************************************************************************)
(* The life of one slot of an HNetWsAcceptor.  It differs from Session in  *)
(* the order of Reference and Open, in AcceptEx, which waits for the first *)
(* bytes of the handshake, in the handshake and ping sent behind the       *)
(* connect callback, in RecvWs, which does not look at the disconnect flag *)
(* (Rearm is "wsaRecv"), and in the end, where nothing calls Close: the    *)
(* socket stays until Open.  Bytes of frames are in WsFrames.              *)
(***************************************************************************)
EXTENDS SessionCore

VARIABLE used     \* _buf of HNetIoWsAccept holds addresses of a connection

vars == <<coreVars, used>>

\* HNetWsAcceptor::_Disconnected, after HNet::_Disconnected
OnDisconnected(t) ==
    /\ At(t, "onDisconnected")
    /\ told' = FALSE
    /\ Then(t, <<"open">>)
    /\ UNCHANGED <<sock, io, refs, flag, listed, sending, more, ring, gen, used, calls>>

(***************************************************************************)
(* HNetIoWsAccept::AcceptWs: Open and AcceptEx under one reference         *)
(***************************************************************************)
OpenOk(t) == /\ At(t, "open")
             /\ Opened /\ Reference
             /\ Then(t, <<"acceptEx">>)
             /\ UNCHANGED <<flag, listed, sending, more, ring, gen, used, told, calls>>

OpenFails_NoRelease(t) ==
    /\ At(t, "open")
    /\ OpenFailed /\ Reference
    /\ Then(t, <<"disconnect">>)
    /\ UNCHANGED <<flag, listed, sending, more, ring, gen, used, told, calls>>
OpenFails(t) == /\ At(t, "open")
                /\ OpenFailed /\ Reference
                /\ Then(t, <<"disconnect", "release">>)
                /\ UNCHANGED <<flag, listed, sending, more, ring, gen, used, told, calls>>

AcceptExOk(t) == /\ At(t, "acceptEx") /\ sock = "fresh"
                 /\ io' = Posted("accept")
                 /\ Then(t, <<>>)
                 /\ UNCHANGED <<sock, refs, flag, listed, sending, more, ring, gen, used, told, calls>>

AcceptExFails(t) ==
    /\ At(t, "acceptEx") /\ (sock # "fresh" \/ MayFail("acceptex"))
    /\ Then(t, <<"disconnect", "release">>)
    /\ UNCHANGED <<sock, io, refs, flag, listed, sending, more, ring, gen, used, told, calls>>

(***************************************************************************)
(* HNetIoWsAccept::AcceptedWs, which goes on to the handshake even when    *)
(* _OnConnectWs has failed                                                 *)
(***************************************************************************)
Addressed(t) == /\ (At(t, "accepted") \/ (At(t, "acceptFailed") /\ (used \/ sock = "down")))
                /\ used' = (used \/ sock # "fresh")
                /\ Then(t, <<"onConnectWs", "handshake">>)
                /\ UNCHANGED <<sock, io, refs, flag, listed, sending, more, ring, gen, told, calls>>

AddressFails(t) == /\ (At(t, "accepted") \/ At(t, "acceptFailed"))
                   /\ MayFail("address")
                   /\ Then(t, <<"disconnect">>)
                   /\ UNCHANGED <<sock, io, refs, flag, listed, sending, more, ring, gen, used, told, calls>>

\* HNetSession::_OnConnectWs holds no reference of its own.
OnConnectWs(t) == /\ At(t, "onConnectWs")
                  /\ Then(t, <<"initialize">>)
                  /\ UNCHANGED <<sock, io, refs, flag, listed, sending, more, ring, gen, used, told, calls>>

HandshakeOk(t) == /\ At(t, "handshake")
                  /\ Then(t, <<"send", "ping">>)
                  /\ UNCHANGED <<sock, io, refs, flag, listed, sending, more, ring, gen, used, told, calls>>

Ping(t) == /\ At(t, "ping")
           /\ Then(t, <<"send">>)
           /\ UNCHANGED <<sock, io, refs, flag, listed, sending, more, ring, gen, used, told, calls>>

\* No Sec-WebSocket-Key in what _buf holds
HandshakeFails(t) == /\ At(t, "handshake")
                     /\ Then(t, <<"disconnect">>)
                     /\ UNCHANGED <<sock, io, refs, flag, listed, sending, more, ring, gen, used, told, calls>>

\* A peer connects and sends a request, or connects and goes again.
PeerRequests == /\ sock = "fresh" /\ io["accept"].pending > 0 /\ gen < MaxConn
                /\ \/ sock' = "up" /\ io' = Completes("accept", "done")
                   \/ sock' = "down" /\ io' = Completes("accept", "zero")
                /\ UNCHANGED <<refs, flag, listed, sending, more, ring, gen, used, stack, told, calls>>

Accept(t) == OpenOk(t) \/ OpenFails(t) \/ AcceptExOk(t) \/ AcceptExFails(t)
Accepted(t) == \/ Addressed(t) \/ AddressFails(t) \/ OnConnectWs(t)
               \/ HandshakeOk(t) \/ HandshakeFails(t) \/ Ping(t)

\* HNet::_ConnectedWs makes the calls of _Connected, with InitializeWs.
ConnectedWs(t) == Connecting(t)

\* RecvedWs and RecvWs: messages, pings (whose pong is a Send) and the next receive
RecvedWs(t) == Receiving(t)

Own(t) == OnDisconnected(t) \/ Accept(t) \/ Accepted(t)
Core(t) == Ending(t) \/ ConnectedWs(t) \/ RecvedWs(t) \/ Sending(t) \/ Disconnecting(t)
Step(t) == Own(t) \/ (Core(t) /\ UNCHANGED used)
=============================================================================
