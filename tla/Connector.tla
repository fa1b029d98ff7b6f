------------------------------ MODULE Connector ------------------------------
(***************************************************************************)
(* HNetConnector: Connect on an application thread, and after the end of a *)
(* connection either Close or, while _reconnect is set, attempts on the    *)
(* worker, each a packet in the completion port that holds no reference.   *)
(* In between the session does what SessionCore says; Leave is "stop".     *)
(***************************************************************************)
EXTENDS SessionCore

VARIABLES reconnect,   \* HNetConnector::_reconnect
          wish         \* history: "keep" the connection (no Disconnect so far, and
                       \* no Open failed), "end" it (Disconnect was the last
                       \* request), "any" otherwise

vars == <<coreVars, reconnect, wish>>
ownVars == <<reconnect, wish>>

ASSUME ConnectorAssumption == Leave = "stop"

Init == /\ sock = "none"
        /\ io = [k \in Kinds |-> Idle]
        /\ refs = 0
        /\ flag = FALSE /\ listed = FALSE /\ sending = FALSE /\ more = FALSE /\ ring = FALSE
        /\ gen = 0
        /\ stack = [t \in Threads |-> <<>>]
        /\ told = FALSE
        /\ calls = 0
        /\ reconnect = TRUE
        /\ wish = "keep"

(***************************************************************************)
(* Connect: it returns at once when there is a socket                      *)
(***************************************************************************)
Connect(a) == /\ stack[a] = <<>> /\ sock = "none"
              /\ stack' = [stack EXCEPT ![a] = <<"open", "arm">>]
              /\ wish' = IF wish = "end" THEN "any" ELSE wish
              /\ UNCHANGED <<sock, io, refs, flag, listed, sending, more, ring, gen, told, calls, reconnect>>

OpenOk(a) == /\ At(a, "open")
             /\ Opened
             /\ Then(a, <<"connect">>)
             /\ UNCHANGED <<refs, flag, listed, sending, more, ring, gen, told, calls, ownVars>>

OpenFails(a) == /\ At(a, "open")
                /\ OpenFailed
                /\ ThenSkip(a, "arm", <<>>)
                /\ UNCHANGED <<refs, flag, listed, sending, more, ring, gen, told, calls, ownVars>>

\* connect() returns with the connection made.
Reached(t) == /\ sock = "fresh" /\ gen < MaxConn
              /\ sock' = "up"
              /\ Then(t, <<"onConnect">>)
              /\ UNCHANGED <<io, refs, flag, listed, sending, more, ring, gen, told, calls, ownVars>>
Refused == sock # "fresh" \/ MayFail("connect")

ConnectOk(a) == At(a, "connect") /\ Reached(a)

ConnectFails(a) == /\ At(a, "connect") /\ Refused
                   /\ ThenSkip(a, "arm", <<"close">>)
                   /\ UNCHANGED <<sock, io, refs, flag, listed, sending, more, ring, gen, told, calls, ownVars>>

\* Line 73, when the connection is up and its callbacks and receives may be running.
Arm(a) == /\ At(a, "arm")
          /\ reconnect' = TRUE
          /\ Then(a, <<>>)
          /\ UNCHANGED <<sock, io, refs, flag, listed, sending, more, ring, gen, told, calls, wish>>

(***************************************************************************)
(* Disconnect, from an application thread or a callback                    *)
(***************************************************************************)
Stop(t) == /\ At(t, "stop")
           /\ reconnect' = FALSE
           /\ wish' = "end"
           /\ Then(t, <<"disconnect">>)
           /\ UNCHANGED <<sock, io, refs, flag, listed, sending, more, ring, gen, told, calls>>

(***************************************************************************)
(* HNetConnector::_Disconnected, after HNet::_Disconnected                 *)
(***************************************************************************)
OnDisconnected(t) ==
    /\ At(t, "onDisconnected")
    /\ told' = FALSE
    /\ \E cb \in {<<>>, <<Leave>>} : Then(t, cb \o <<"again">>)
    /\ UNCHANGED <<sock, io, refs, flag, listed, sending, more, ring, gen, calls, ownVars>>

TryReconnect == io' = [io EXCEPT !["reconnect"].done = @ + 1]

Again(t) == /\ At(t, "again") /\ reconnect
            /\ TryReconnect
            /\ Then(t, <<>>)
            /\ UNCHANGED <<sock, refs, flag, listed, sending, more, ring, gen, told, calls, ownVars>>

NotAgain(t) == /\ At(t, "again") /\ ~reconnect
               /\ Then(t, <<"close">>)
               /\ UNCHANGED <<sock, io, refs, flag, listed, sending, more, ring, gen, told, calls, ownVars>>

(***************************************************************************)
(* HNetIoReconnect::Reconnect                                              *)
(***************************************************************************)
ReopenOk(w) == /\ At(w, "reopen")
               /\ Opened
               /\ Then(w, <<"reconnect">>)
               /\ UNCHANGED <<refs, flag, listed, sending, more, ring, gen, told, calls, ownVars>>

ReopenFails(w) == /\ At(w, "reopen")
                  /\ OpenFailed
                  /\ wish' = IF wish = "keep" THEN "any" ELSE wish
                  /\ Then(w, <<>>)
                  /\ UNCHANGED <<refs, flag, listed, sending, more, ring, gen, told, calls, reconnect>>

ReconnectOk(w) == At(w, "reconnect") /\ Reached(w)

ReconnectFails_GivesUp(w) ==
    /\ At(w, "reconnect") /\ Refused
    /\ Then(w, <<>>)
    /\ UNCHANGED <<sock, io, refs, flag, listed, sending, more, ring, gen, told, calls, ownVars>>
ReconnectFails(w) ==
    /\ At(w, "reconnect") /\ Refused
    /\ TryReconnect
    /\ Then(w, <<>>)
    /\ UNCHANGED <<sock, refs, flag, listed, sending, more, ring, gen, told, calls, ownVars>>

Dialling(a) == OpenOk(a) \/ OpenFails(a) \/ ConnectOk(a) \/ ConnectFails(a) \/ Arm(a)
Reconnecting(w) == ReopenOk(w) \/ ReopenFails(w) \/ ReconnectOk(w) \/ ReconnectFails(w)
Own(t) == Dialling(t) \/ Stop(t) \/ OnDisconnected(t) \/ Again(t) \/ NotAgain(t) \/ Reconnecting(t)
Step(t) == Own(t) \/ (CoreStep(t) /\ UNCHANGED ownVars)

Next == \/ \E t \in Threads : Step(t)
        \/ \E a \in Apps : Connect(a)
        \/ (Dispatch \/ Kernel \/ Calling) /\ UNCHANGED ownVars

Spec == Init /\ [][Next]_vars

\* As in Session, and a server that is not gone for good: connect() succeeds if it
\* is tried again and again.
FairSpec == /\ Spec
            /\ \A t \in Threads : WF_vars(Step(t)) /\ SF_vars(ReconnectOk(t))
            /\ WF_vars(Dispatch /\ UNCHANGED ownVars)
            /\ WF_vars(RecvEnds /\ UNCHANGED ownVars)
            /\ WF_vars(SendEnds /\ UNCHANGED ownVars)

-----------------------------------------------------------------------------
(***************************************************************************)
(* Properties                                                              *)
(***************************************************************************)
Attempting == {t \in Threads : At(t, "reopen") \/ At(t, "reconnect")}
Resting == \A t \in Threads : stack[t] = <<>>

\* HNetIoReconnect (HNetIo.cpp:237-258) has one OVERLAPPED and Reconnect closes the
\* socket the session has: there is one attempt at a time, whatever the application
\* calls, and (unless it called) it never hits a session that is in use.
AttemptAlone ==
    /\ Count("reconnect") + Cardinality(Attempting) <= 1
    /\ NoAppCall => \A t \in Attempting : ~listed /\ Outstanding = 0

\* _Disconnected and Reconnect (HNetConnector.cpp:119-122, HNetIo.cpp:250-255): a
\* connection that was made once is up, on its way down, or an attempt is waiting in
\* the completion port, until Disconnect is called or Open fails.
ChainKept == (wish = "keep" /\ gen > 0 /\ ~listed /\ Resting) => Count("reconnect") > 0

\* Under the fairness above the connection comes back.
Reconnects == (wish = "keep" /\ gen \in 1..(MaxConn - 1) /\ ~told) ~> (told \/ wish # "keep")

\* HNetConnector.cpp:86: after Disconnect there is no reconnecting.  At rest, with
\* Disconnect the last request, the session is not up as if nothing had been asked.
DisconnectIsFinal == (wish = "end" /\ Resting) => ~(told /\ ~flag)
=============================================================================
