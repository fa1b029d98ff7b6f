------------------------------- MODULE Session -------------------------------
(***************************************************************************)
(* The life of one session (slot) of an HNetAcceptor: AcceptEx, then what  *)
(* SessionCore says, and from the end of the connection back to AcceptEx.  *)
(* Application threads call Disconnect and Send with a NetId.  Rearm is    *)
(* "recv" and Ended is "delSession".  Acceptors has the specification.     *)
(***************************************************************************)
EXTENDS SessionCore

VARIABLE used     \* _buf of HNetIoAccept holds addresses of a connection

vars == <<coreVars, used>>

\* After HNetAcceptor::Listen, which called Accept for the slot.
Init == /\ sock = "fresh"
        /\ io = [[k \in Kinds |-> Idle] EXCEPT !["accept"].pending = 1]
        /\ refs = 1
        /\ flag = FALSE /\ listed = FALSE /\ sending = FALSE /\ more = FALSE /\ ring = FALSE
        /\ gen = 0 /\ used = FALSE
        /\ stack = [t \in Threads |-> <<>>]
        /\ told = FALSE
        /\ calls = 0

(***************************************************************************)
(* HNetAcceptor::_Disconnected, after HNet::_Disconnected                  *)
(***************************************************************************)
OnDisconnected_NoAccept(t) ==
    /\ At(t, "onDisconnected")
    /\ told' = FALSE
    /\ Then(t, <<"close">>)
    /\ UNCHANGED <<sock, io, refs, flag, listed, sending, more, ring, gen, used, calls>>
OnDisconnected(t) ==
    /\ At(t, "onDisconnected")
    /\ told' = FALSE
    /\ Then(t, <<"close", "open">>)
    /\ UNCHANGED <<sock, io, refs, flag, listed, sending, more, ring, gen, used, calls>>

(***************************************************************************)
(* HNetIoAccept::Accept                                                    *)
(***************************************************************************)
OpenOk(t) == /\ At(t, "open")
             /\ Opened
             /\ Then(t, <<"acceptEx">>)
             /\ UNCHANGED <<refs, flag, listed, sending, more, ring, gen, used, told, calls>>

OpenFails(t) == /\ At(t, "open")
                /\ OpenFailed
                /\ Then(t, <<"disconnect">>)
                /\ UNCHANGED <<refs, flag, listed, sending, more, ring, gen, used, told, calls>>

AcceptExOk(t) == /\ At(t, "acceptEx") /\ sock = "fresh"
                 /\ Reference
                 /\ io' = Posted("accept")
                 /\ Then(t, <<>>)
                 /\ UNCHANGED <<sock, flag, listed, sending, more, ring, gen, used, told, calls>>

AcceptExFails(t) ==
    /\ At(t, "acceptEx") /\ (sock # "fresh" \/ MayFail("acceptex"))
    /\ Reference
    /\ Then(t, <<"disconnect", "release">>)
    /\ UNCHANGED <<sock, io, flag, listed, sending, more, ring, gen, used, told, calls>>

(***************************************************************************)
(* HNetIoAccept::Accepted                                                  *)
(***************************************************************************)
AcceptedOk(t) == /\ At(t, "accepted")
                 /\ used' = TRUE
                 /\ Then(t, <<"onConnect">>)
                 /\ UNCHANGED <<sock, io, refs, flag, listed, sending, more, ring, gen, told, calls>>

\* The address family is wrong, or AcceptEx failed and left no addresses.
AcceptedFails(t) == /\ (At(t, "accepted") \/ (At(t, "acceptFailed") /\ ~used))
                    /\ (At(t, "accepted") => MayFail("address"))
                    /\ Then(t, <<"disconnect">>)
                    /\ UNCHANGED <<sock, io, refs, flag, listed, sending, more, ring, gen, used, told, calls>>

\* AcceptEx failed, but the addresses of an earlier connection pass.
AcceptedStale(t) == /\ At(t, "acceptFailed") /\ used
                    /\ Then(t, <<"onConnect">>)
                    /\ UNCHANGED <<sock, io, refs, flag, listed, sending, more, ring, gen, used, told, calls>>

PeerConnects == /\ sock = "fresh" /\ io["accept"].pending > 0 /\ gen < MaxConn
                /\ sock' = "up"
                /\ io' = Completes("accept", "done")
                /\ UNCHANGED <<refs, flag, listed, sending, more, ring, gen, used, stack, told, calls>>

\* The connection goes before AcceptEx has completed.
AcceptReset == /\ sock = "fresh" /\ io["accept"].pending > 0 /\ gen < MaxConn
               /\ MayFail("reset")
               /\ io' = Completes("accept", "zero")
               /\ UNCHANGED <<sock, refs, flag, listed, sending, more, ring, gen, used, stack, told, calls>>

Accept(t) == OpenOk(t) \/ OpenFails(t) \/ AcceptExOk(t) \/ AcceptExFails(t)
Accepted(t) == AcceptedOk(t) \/ AcceptedFails(t) \/ AcceptedStale(t)

Own(t) == OnDisconnected(t) \/ Accept(t) \/ Accepted(t)
Step(t) == Own(t) \/ (CoreStep(t) /\ UNCHANGED used)

Next == \/ \E t \in Threads : Step(t)
        \/ PeerConnects \/ AcceptReset
        \/ (Dispatch \/ Kernel \/ Calling) /\ UNCHANGED used

=============================================================================
