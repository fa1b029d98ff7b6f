--------------------------- MODULE AcceptorsProofs ---------------------------
(***************************************************************************)
(* Theorems about Acceptors, for a slot of each kind of server and any     *)
(* finite number of workers and application threads: the reference count   *)
(* is exact, the application is told in turn, who ends a connection is     *)
(* alone, and each kind of operation is outstanding once.  The first part  *)
(* says what may lie on the stacks, states the invariant and shows that    *)
(* the steps of a connection keep it; the second takes the last Release,   *)
(* the jobs, the completions, the kernel and the calls of the application, *)
(* and draws the theorems.  That the slot is never forgotten takes one     *)
(* more invariant, KeepInv, in the third.                                  *)
(***************************************************************************)
EXTENDS Acceptors, SessionCoreProofs

\* Finitely many threads, and the parameters of SessionCore for a slot of an acceptor.
SlotAssumption == /\ IsFiniteSet(Workers) /\ IsFiniteSet(Apps)
                  /\ Leave = "disconnect" /\ Rearm = "recv" /\ Ended = "delSession"

-----------------------------------------------------------------------------
(***************************************************************************)
(* Which step may lie directly under which                                 *)
(***************************************************************************)
\* Where an own step ends.
Base == {"bottom", "pop"}

\* In server m; n: an application thread has called.
MayLie(m, n) == [x \in Steps |->
    CASE x \in {"accepted", "acceptFailed", "recv", "handshake", "ping", "sended", "cancel"} -> {"release"}
      [] x = "onConnect" -> IF m = "ws" THEN {} ELSE {"release"}
      [] x \in {"makeAccept", "makeStale", "addAccept", "addStale"} -> IF m = "jobs" THEN {"release"} ELSE {}
      [] x = "onConnectWs" -> IF m = "ws" THEN {"handshake"} ELSE {}
      [] x \in {"initialize", "addSession"} -> IF m = "ws" THEN {"handshake"} ELSE {"release"}
      [] x = "onConnected" -> {"recv", "wsaRecv"}
      [] x = "message" -> {"recv", "wsaRecv", "release"}
      [] x \in {"makeRecv", "addRecv"} -> IF m = "jobs" THEN {"recv"} ELSE {}
      [] x = "wsaRecv" -> {"release", "handshake"}
      [] x \in {"send", "wsaSend"} -> IF n THEN Calls \cup {"bottom"} ELSE Calls
      [] x \in {"disconnect", "isValid", "release"} -> Calls \cup Base
      [] x = "hold" -> {"cancel"}
      [] x \in {"clear", "delSession", "onDisconnected", "open", "acceptEx"} -> Base
      [] x = "addDisconnect" -> IF m = "jobs" THEN Base ELSE {}
      [] x = "close" -> {"open"}
      [] x = "pop" -> IF m = "jobs" THEN {"update"} ELSE {}
      [] x = "update" -> IF m = "jobs" THEN {"bottom"} ELSE {}]

LEMMA Lies ==
    ASSUME NEW m, NEW n
    PROVE  /\ DOMAIN MayLie(m, n) = Steps
           /\ \A x \in {"accepted", "acceptFailed", "recv", "handshake", "ping", "sended", "cancel"} : MayLie(m, n)[x] = {"release"}
           /\ MayLie(m, n)["onConnect"] = IF m = "ws" THEN {} ELSE {"release"}
           /\ \A x \in {"makeAccept", "makeStale", "addAccept", "addStale"} : MayLie(m, n)[x] = IF m = "jobs" THEN {"release"} ELSE {}
           /\ MayLie(m, n)["onConnectWs"] = IF m = "ws" THEN {"handshake"} ELSE {}
           /\ \A x \in {"initialize", "addSession"} : MayLie(m, n)[x] = IF m = "ws" THEN {"handshake"} ELSE {"release"}
           /\ MayLie(m, n)["onConnected"] = {"recv", "wsaRecv"}
           /\ MayLie(m, n)["message"] = {"recv", "wsaRecv", "release"}
           /\ \A x \in {"makeRecv", "addRecv"} : MayLie(m, n)[x] = IF m = "jobs" THEN {"recv"} ELSE {}
           /\ MayLie(m, n)["wsaRecv"] = {"release", "handshake"}
           /\ \A x \in {"send", "wsaSend"} : MayLie(m, n)[x] = IF n THEN Calls \cup {"bottom"} ELSE Calls
           /\ \A x \in {"disconnect", "isValid", "release"} : MayLie(m, n)[x] = Calls \cup Base
           /\ MayLie(m, n)["hold"] = {"cancel"}
           /\ \A x \in {"clear", "delSession", "onDisconnected", "open", "acceptEx"} : MayLie(m, n)[x] = Base
           /\ MayLie(m, n)["addDisconnect"] = IF m = "jobs" THEN Base ELSE {}
           /\ MayLie(m, n)["close"] = {"open"}
           /\ MayLie(m, n)["pop"] = IF m = "jobs" THEN {"update"} ELSE {}
           /\ MayLie(m, n)["update"] = IF m = "jobs" THEN {"bottom"} ELSE {}
  BY DEF MayLie, Steps, Handling, Opening, Calls, Others

LEMMA LiesDomain == ASSUME NEW m, NEW n PROVE DOMAIN MayLie(m, n) = Steps
  BY DEF MayLie

\* A hold, a step of Opening, ... lies under nothing.
LEMMA Tops ==
    ASSUME NEW m, NEW n
    PROVE  \A y \in Steps : MayLie(m, n)[y] \cap (Opening \cup {"hold", "onConnected", "acceptEx", "delSession"}) = {}
  BY DEF MayLie, Steps, Handling, Opening, Calls, Others, Base

(***************************************************************************)
(* One stack                                                               *)
(***************************************************************************)
\* References that the steps of a stack stand for, when no hold is on it.
Bal(s) == Occurs({"release"}, s) + Occurs(Adders, s) - Occurs({"hold"}, s)

\* Steps under which there is a Release of the same thread.
Firm == Calls \cup Opening \cup {"onConnected", "message", "makeRecv", "addRecv", "send", "wsaSend", "sended",
                                "cancel"}

LEMMA StackType ==
    ASSUME NEW m, NEW n, NEW s, Good(MayLie(m, n), s)
    PROVE  s \in Seq(Steps)
  BY Lies DEF Good

\* A hold is taken only where a Release follows: no thread's balance is negative.
LEMMA BalType ==
    ASSUME NEW m, NEW n, NEW s, Good(MayLie(m, n), s)
    PROVE  Bal(s) \in Nat /\ (Top(s) # "hold" => Occurs({"hold"}, s) = 0)
<1> DEFINE U == MayLie(m, n)
<1>1. s \in Seq(Steps)
  BY StackType
<1>2. Occurs({"release"}, s) \in Nat /\ Occurs(Adders, s) \in Nat /\ Occurs({"hold"}, s) \in Nat
  BY <1>1, OccursType
<1>3. CASE s = <<>>
  <2>1. Occurs({"hold"}, s) = 0
    BY <1>3, OccursNone
  <2> QED
    BY <1>2, <2>1 DEF Bal
<1>4. CASE s # <<>>
  <2>1. Occurs({"hold"}, s) = In(Head(s), {"hold"})
    <3>1. \A y \in DOMAIN U : U[y] \cap {"hold"} = {}
      BY Tops, Lies
    <3> HIDE DEF U
    <3> QED
      BY <1>4, <3>1, TopOnly DEF U
  <2>2. CASE Head(s) # "hold"
    <3>1. Occurs({"hold"}, s) = 0
      BY <2>1, <2>2 DEF In
    <3> QED
      BY <1>2, <3>1 DEF Bal
  <2>3. CASE Head(s) = "hold"
    <3>1. Occurs({"hold"}, s) = 1
      BY <2>1, <2>3 DEF In
    <3>2. Closed(U, {"hold", "cancel", "release"}, "release")
      BY Lies DEF Closed
    <3>3. 1 \in 1..Len(s) /\ s[1] = "hold" /\ Len(s) \in Nat
      BY <1>1, <1>4, <2>3, TailProperties, LenProperties
    <3>4. PICK j \in 1..Len(s) : s[j] = "release"
      <4> HIDE DEF U
      <4>1. s[1] \in {"hold", "cancel", "release"}
        BY <3>3
      <4> QED
        BY <3>2, <3>3, <4>1, LastBelow DEF U
    <3>5. Occurs({"release"}, s) >= 1
      BY <1>1, <3>4, OccursSome
    <3>6. Top(s) = "hold"
      BY <1>4, <2>3 DEF Top
    <3> QED
      BY <1>2, <3>1, <3>5, <3>6 DEF Bal
  <2> QED
    BY <2>2, <2>3
<1> QED
  BY <1>3, <1>4

LEMMA FirmLies ==
    ASSUME NEW m
    PROVE  Closed(MayLie(m, FALSE), Firm, "release")
<1>1. "bottom" \notin Firm
  BY DEF Firm, Calls, Opening
<1>2. \A x \in Steps : x \in Firm /\ x # "release" => MayLie(m, FALSE)[x] \subseteq Firm
  BY DEF MayLie, Steps, Handling, Opening, Calls, Others, Firm
<1> QED
  BY <1>1, <1>2, LiesDomain DEF Closed

LEMMA BalFirm ==
    ASSUME NEW m, NEW s, Good(MayLie(m, FALSE), s), Top(s) \in Firm
    PROVE  Bal(s) >= 1
<1> DEFINE U == MayLie(m, FALSE)
<1>1. s \in Seq(Steps)
  BY StackType
<1>2. Occurs({"release"}, s) \in Nat /\ Occurs(Adders, s) \in Nat
  BY <1>1, OccursType
<1>3. Occurs({"hold"}, s) = 0
  <2>1. "hold" \notin Firm
    BY DEF Firm, Calls, Opening
  <2> QED
    BY <2>1, BalType
<1>4. s # <<>> /\ Head(s) = Top(s)
  <2>1. "bottom" \notin Firm
    BY DEF Firm, Calls, Opening
  <2> QED
    BY <2>1 DEF Top
<1>5. 1 \in 1..Len(s) /\ s[1] \in Firm /\ Len(s) \in Nat
  BY <1>1, <1>4, TailProperties, LenProperties
<1>7. PICK j \in 1..Len(s) : s[j] = "release"
  <2>1. PICK F : F = Firm /\ Closed(U, F, "release") /\ s[1] \in F
    BY <1>5, FirmLies
  <2>2. PICK V : V = U /\ Good(V, s) /\ Closed(V, F, "release")
    BY <2>1
  <2> HIDE DEF U
  <2>3. \E j \in 1..Len(s) : s[j] = "release"
    BY <1>5, <2>1, <2>2, LastBelow
  <2> QED
    BY <2>3
<1>8. Occurs({"release"}, s) >= 1
  BY <1>1, <1>7, OccursSome
<1> QED
  BY <1>2, <1>3, <1>8 DEF Bal

\* Below pop there is only Update.
LEMMA BaseBelow ==
    ASSUME NEW m, NEW n, NEW s, Good(MayLie(m, n), s), Top(s) \in Base
    PROVE  s = <<>> \/ (s # <<>> /\ Head(s) = "pop" /\ Tail(s) # <<>> /\ Head(Tail(s)) = "update" /\ Tail(Tail(s)) = <<>>)
<1> DEFINE U == MayLie(m, n)
<1>1. CASE s # <<>>
  <2>1. Head(s) \in Steps /\ Good(U, Tail(s)) /\ Top(Tail(s)) \in U[Head(s)]
    BY <1>1, GoodTail, Lies
  <2>2. Head(s) = "pop"
    BY <1>1, <2>1 DEF Top, Base, Steps, Handling, Calls, Opening, Others
  <2>3. Top(Tail(s)) = "update" /\ Tail(s) # <<>>
    BY <2>1, <2>2, Lies DEF Top
  <2>4. PICK r : r = Tail(s) /\ Good(U, r) /\ r # <<>> /\ Head(r) = "update"
    BY <2>1, <2>3 DEF Top
  <2>5. Good(U, Tail(r)) /\ Top(Tail(r)) \in U[Head(r)]
    BY <2>4, GoodTail
  <2>6. Top(Tail(r)) = "bottom"
    BY <2>4, <2>5, Lies
  <2>7. PICK q : q = Tail(r) /\ Good(U, q) /\ Top(q) = "bottom"
    BY <2>5, <2>6
  <2>8. q = <<>>
    <3>1. CASE q # <<>>
      <4>1. Head(q) \in Steps
        BY <2>7, <3>1, GoodTail, LiesDomain
      <4> QED
        BY <2>7, <3>1, <4>1 DEF Top, Steps, Handling, Calls, Opening, Others
    <3> QED
      BY <3>1
  <2> QED
    BY <1>1, <2>2, <2>3, <2>4, <2>7, <2>8
<1> QED
  BY <1>1

LEMMA BaseCounts ==
    ASSUME NEW m, NEW n, NEW s, Good(MayLie(m, n), s), Top(s) \in Base, NEW P, P \cap {"pop", "update"} = {}
    PROVE  Occurs(P, s) = 0
<1>1. CASE s = <<>>
  BY <1>1, OccursNone
<1>2. CASE s # <<>> /\ Head(s) = "pop" /\ Tail(s) # <<>> /\ Head(Tail(s)) = "update" /\ Tail(Tail(s)) = <<>>
  <2>1. s \in Seq(Steps)
    BY StackType
  <2>2. PICK r : r = Tail(s) /\ r \in Seq(Steps)
    BY <1>2, <2>1, TailProperties
  <2>3. Occurs(P, s) = Occurs(P, r) + In("pop", P)
    BY <1>2, <2>1, <2>2, OccursTail
  <2>4. Occurs(P, r) = Occurs(P, <<>>) + In("update", P)
    BY <1>2, <2>2, OccursTail
  <2>5. Occurs(P, <<>>) = 0 /\ In("pop", P) = 0 /\ In("update", P) = 0
    BY OccursNone DEF In
  <2> QED
    BY ONLY <2>3, <2>4, <2>5
<1> QED
  BY <1>1, <1>2, BaseBelow

\* The steps of AcceptedWs that lie on the handshake, which follows them.
OnHandshake(m) == IF m = "ws" THEN {"onConnectWs", "initialize", "addSession"} ELSE {}

\* Handshakes that come next, with nothing of the accept before them.
Greets(m, s) == Occurs({"handshake"}, s) - Occurs(OnHandshake(m), s)

LEMMA GreetsType ==
    ASSUME NEW m, NEW n, NEW s, Good(MayLie(m, n), s)
    PROVE  Greets(m, s) \in Nat /\ (Top(s) = "handshake" => Greets(m, s) >= 1)
<1> DEFINE U == MayLie(m, n)
<1>1. s \in Seq(Steps)
  BY StackType
<1>2. Occurs({"handshake"}, s) \in Nat /\ Occurs(OnHandshake(m), s) \in Nat
  BY <1>1, OccursType
<1>3. CASE s = <<>>
  <2>1. Occurs(OnHandshake(m), s) = 0 /\ Top(s) = "bottom"
    BY <1>3, OccursNone DEF Top
  <2> QED
    BY <1>2, <2>1 DEF Greets
<1>4. CASE s # <<>>
  <2>1. Occurs(OnHandshake(m), s) = In(Head(s), OnHandshake(m))
    <3>1. \A y \in DOMAIN U : U[y] \cap OnHandshake(m) = {}
      <4>1. OnHandshake(m) \subseteq Opening
        BY DEF OnHandshake, Opening
      <4> QED
        BY <4>1, Tops, LiesDomain
    <3> HIDE DEF U
    <3> QED
      BY <1>4, <3>1, TopOnly DEF U
  <2>2. CASE Head(s) \notin OnHandshake(m)
    <3>1. Occurs(OnHandshake(m), s) = 0
      BY <2>1, <2>2 DEF In
    <3>2. Head(s) = "handshake" => Occurs({"handshake"}, s) >= 1
      BY <1>1, <1>4, TopCounts
    <3>3. Top(s) = Head(s)
      BY <1>4 DEF Top
    <3> QED
      BY <1>2, <3>1, <3>2, <3>3 DEF Greets
  <2>3. CASE Head(s) \in OnHandshake(m)
    <3>1. Occurs(OnHandshake(m), s) = 1
      BY <2>1, <2>3 DEF In
    <3>2. Top(Tail(s)) \in U[Head(s)]
      <4> HIDE DEF U
      <4> QED
        BY <1>4, GoodTail DEF U
    <3>3. Head(s) \in {"onConnectWs", "initialize", "addSession"} /\ m = "ws"
      BY <2>3 DEF OnHandshake
    <3>4. Top(Tail(s)) = "handshake"
      BY <3>2, <3>3, Lies
    <3>5. Occurs({"handshake"}, s) >= 1
      BY <1>1, <1>4, <3>4, TopCounts DEF Top
    <3>6. Top(s) # "handshake"
      BY <1>4, <3>3 DEF Top
    <3> QED
      BY <1>2, <3>1, <3>5, <3>6 DEF Greets
  <2> QED
    BY <2>2, <2>3
<1> QED
  BY <1>3, <1>4

\* Behind OnConnected comes the first receive of the connection.
LEMMA ConnectedCounts ==
    ASSUME NEW m, NEW n, NEW s, Good(MayLie(m, n), s)
    PROVE  Occurs({"onConnected"}, s) <= Occurs({"recv", "wsaRecv"}, s)
<1> DEFINE U == MayLie(m, n)
<1>1. s \in Seq(Steps)
  BY StackType
<1>2. Occurs({"onConnected"}, s) \in Nat /\ Occurs({"recv", "wsaRecv"}, s) \in Nat
  BY <1>1, OccursType
<1>3. CASE s = <<>>
  <2>1. Occurs({"onConnected"}, s) = 0
    BY <1>3, OccursNone
  <2> QED
    BY <1>2, <2>1
<1>4. CASE s # <<>>
  <2>1. Occurs({"onConnected"}, s) = In(Head(s), {"onConnected"})
    <3>1. \A y \in DOMAIN U : U[y] \cap {"onConnected"} = {}
      BY Tops, LiesDomain
    <3> HIDE DEF U
    <3> QED
      BY <1>4, <3>1, TopOnly DEF U
  <2>2. CASE Head(s) # "onConnected"
    <3>1. Occurs({"onConnected"}, s) = 0
      BY <2>1, <2>2 DEF In
    <3> QED
      BY <1>2, <3>1
  <2>3. CASE Head(s) = "onConnected"
    <3>1. Occurs({"onConnected"}, s) = 1
      BY <2>1, <2>3 DEF In
    <3>2. Top(Tail(s)) \in U[Head(s)]
      <4> HIDE DEF U
      <4> QED
        BY <1>4, GoodTail DEF U
    <3>3. Top(Tail(s)) \in {"recv", "wsaRecv"}
      BY <2>3, <3>2, Lies
    <3>4. Occurs({"recv", "wsaRecv"}, s) >= 1
      BY <1>1, <1>4, <3>3, TopCounts DEF Top
    <3> QED
      BY <3>1, <3>4
  <2> QED
    BY <2>2, <2>3
<1> QED
  BY <1>3, <1>4

LEMMA OpeningTop ==
    ASSUME NEW m, NEW n, NEW s, Good(MayLie(m, n), s), Occurs(Opening, s) # 0
    PROVE  s # <<>> /\ Top(s) \in Opening /\ Occurs(Opening, s) = 1
<1> DEFINE U == MayLie(m, n)
<1>1. s # <<>>
  BY OccursNone
<1>2. Occurs(Opening, s) = In(Head(s), Opening)
  <2>1. \A y \in DOMAIN U : U[y] \cap Opening = {}
    BY Tops, LiesDomain
  <2> HIDE DEF U
  <2> QED
    BY <1>1, <2>1, TopOnly DEF U
<1> QED
  BY <1>1, <1>2 DEF In, Top

-----------------------------------------------------------------------------
(***************************************************************************)
(* What is counted, and the invariant                                      *)
(***************************************************************************)
Table == MayLie(mode, calls # 0)
StackInv == /\ mode \in {"acceptor", "jobs", "ws"}
            /\ stack \in [Threads -> Seq(Steps)]
            /\ \A t \in Threads : Good(Table, stack[t])

\* The jobs that no Excute has begun.
Waiting == IF Left({"pop"}) # 0 THEN Tail(jobs) ELSE jobs

\* One Update at a time, and Excute leaves its job at the front.
QueueInv == /\ jobs \in Seq(JobKinds)
            /\ mode # "jobs" => jobs = <<>>
            /\ Left({"update"}) <= 1 /\ Left({"pop"}) <= 1
            /\ Left({"pop"}) # 0 => jobs # <<>>

\* References other than the one AcceptWs takes before AcceptEx.
Owning == {"accepted", "acceptFailed", "message"}
Balances == [t \in Threads |-> Bal(stack[t])]
Kept == Outstanding + Occurs(Owning, Waiting) + Total(Balances)
Reserved == IF mode = "ws" THEN Left({"acceptEx"}) ELSE 0
CarriedSteps == Adders \cup (IF mode = "ws" THEN {"acceptEx"} ELSE {})

CountInv == /\ refs = Kept + Reserved
            /\ refs + Left({"hold"}) = Outstanding + Left({"release"}) + Left(CarriedSteps) + Occurs(Owning, Waiting)

\* A thread that does something for the session and keeps no reference, or the job
\* that stands for it: there is at most one, and then nobody keeps any.
Ender(s) == IF Occurs(Handling, s) # 0 /\ Bal(s) = 0 THEN 1 ELSE 0
Enders == [t \in Threads |-> Ender(stack[t])]
Endings == Total(Enders) + Occurs({"delSession"}, Waiting)
EndInv == Endings <= 1 /\ (Endings = 1 => Kept = 0)

\* An accept, from AcceptEx to _AddSession: there is at most one, and then nothing else.
Noisy == Others \cup {"recv", "wsaRecv", "ping"}
After == {"onDisconnected", "open", "acceptEx"}
Greetings == [t \in Threads |-> Greets(mode, stack[t])]
Accepts == Count("accept") + Left(Opening) + Occurs({"accepted", "acceptFailed"}, Waiting)
Traffic == Count("recv") + Count("send") + Left(Noisy) + Total(Greetings)
             + Occurs({"message", "delSession"}, Waiting)
OpenInv == /\ Accepts <= 1 /\ (Accepts = 1 => Traffic = 0 /\ ~listed)
           /\ Left(After) # 0 => ~listed

Receives == Count("recv") + Left({"recv", "wsaRecv"})
RecvInv == Receives <= 1 /\ (Receives = 1 => listed)

Sends == Count("send") + Left({"wsaSend", "sended"})
SendInv == Sends <= 1 /\ (Sends = 1 => sending)

Messages == Left({"message", "makeRecv", "addRecv"}) + Occurs({"message"}, Waiting)
Telling == Left({"onConnected"})
Untelling == Left({"onDisconnected"})
ToldInv == /\ Telling + Untelling <= 1
           /\ Telling = 1 => listed /\ ~told
           /\ Untelling = 1 => ~listed /\ told
           /\ Telling + Untelling = 0 => told = listed
           /\ Messages # 0 => listed /\ told

\* Without a call of an application thread, which would hold no reference.
QuietInv == EndInv /\ OpenInv /\ RecvInv /\ SendInv /\ ToldInv

TypeInv == /\ sock \in {"none", "fresh", "up", "down"}
           /\ io \in [Kinds -> [pending : Nat, done : Nat, zero : Nat]]
           /\ Count("reconnect") = 0
           /\ flag \in BOOLEAN /\ listed \in BOOLEAN /\ sending \in BOOLEAN
           /\ more \in BOOLEAN /\ ring \in BOOLEAN /\ told \in BOOLEAN
           /\ gen \in Nat /\ calls \in 0..MaxCalls /\ used \in BOOLEAN

IInv == TypeInv /\ StackInv /\ QueueInv /\ CountInv /\ (calls = 0 => QuietInv)

-----------------------------------------------------------------------------
(***************************************************************************)
(* How the numbers follow a step                                           *)
(***************************************************************************)
LEMMA Finite == ASSUME SlotAssumption PROVE FiniteThreads
  BY FS_Union DEF SlotAssumption, FiniteThreads, Threads

Fits(U, h, k, a, b, c) ==
    \A y \in U[IF k = "bottom" THEN h ELSE k] : (k # "bottom" => k \in U[h]) => Linked(U, a, b, c, y)

LEMMA StackMoves ==
    ASSUME StackInv, NEW t \in Threads, NEW h, h # "bottom", NEW k,
           NEW a \in Opt(Steps), NEW b \in Opt(Steps), NEW c \in Opt(Steps),
           Moves(t, h, k, a, b, c), Fits(Table, h, k, a, b, c), UNCHANGED <<mode, calls>>
    PROVE  StackInv'
<1>1. PICK U : U = Table /\ U = Table'
  BY DEF Table
<1>2. /\ stack' \in [Threads -> Seq(Steps)]
      /\ stack'[t] = Turned(h, k, a, b, c, stack[t])
      /\ \A u \in Threads : u # t => stack'[u] = stack[u]
  BY MovesType DEF StackInv
<1>3. Good(U, stack[t]) /\ Has(h, k, stack[t])
  BY <1>1 DEF StackInv, Moves
<1>4. Linked(U, a, b, c, Top(Under(h, k, stack[t])))
  BY <1>1, <1>3, UnderGood DEF Fits
<1>5. Good(U, stack'[t])
  BY <1>2, <1>3, <1>4, TurnGood
<1>6. \A u \in Threads : Good(U, stack'[u])
  BY <1>1, <1>2, <1>5 DEF StackInv
<1> QED
  BY <1>1, <1>2, <1>6 DEF StackInv

NetBal(h, k, a, b, c) ==
    Net({"release"}, h, k, a, b, c) + Net(Adders, h, k, a, b, c) - Net({"hold"}, h, k, a, b, c)

LEMMA BalancesType ==
    /\ StackInv => \A t \in Threads : Balances[t] = Bal(stack[t]) /\ Bal(stack[t]) \in Nat
    /\ StackInv' => \A t \in Threads : Balances'[t] = Bal(stack'[t]) /\ Bal(stack'[t]) \in Nat
<1>1. ASSUME StackInv PROVE \A t \in Threads : Balances[t] = Bal(stack[t]) /\ Bal(stack[t]) \in Nat
  BY <1>1, BalType DEF Balances, StackInv, Table
<1>2. ASSUME StackInv' PROVE \A t \in Threads : Balances'[t] = Bal(stack'[t]) /\ Bal(stack'[t]) \in Nat
  BY <1>2, BalType DEF Balances, StackInv, Table
<1> QED
  BY <1>1, <1>2

LEMMA BalMoves ==
    ASSUME SlotAssumption, StackInv, StackInv', NEW t \in Threads, NEW h, NEW k,
           NEW a \in Opt(Steps), NEW b \in Opt(Steps), NEW c \in Opt(Steps),
           Moves(t, h, k, a, b, c)
    PROVE  /\ Bal(stack[t]) \in Nat /\ Bal(stack'[t]) \in Nat /\ NetBal(h, k, a, b, c) \in Int
           /\ Bal(stack'[t]) = Bal(stack[t]) + NetBal(h, k, a, b, c)
           /\ Total(Balances) \in Nat /\ Total(Balances)' \in Nat
           /\ Total(Balances)' = Total(Balances) + NetBal(h, k, a, b, c)
<1>0. stack \in [Threads -> Seq(Steps)]
  BY DEF StackInv
<1>1. /\ stack'[t] = Turned(h, k, a, b, c, stack[t])
      /\ \A u \in Threads : u # t => stack'[u] = stack[u]
  BY <1>0 DEF Moves
<1>2. stack[t] \in Seq(Steps) /\ Has(h, k, stack[t])
  BY DEF StackInv, Moves
<1>3. ASSUME NEW P, "bottom" \notin P
      PROVE  /\ Occurs(P, stack[t]) \in Nat /\ Net(P, h, k, a, b, c) \in Int
             /\ Occurs(P, stack'[t]) = Occurs(P, stack[t]) + Net(P, h, k, a, b, c)
  BY <1>1, <1>2, <1>3, TurnCounts
<1>4. /\ Occurs({"release"}, stack'[t]) = Occurs({"release"}, stack[t]) + Net({"release"}, h, k, a, b, c)
      /\ Occurs({"hold"}, stack'[t]) = Occurs({"hold"}, stack[t]) + Net({"hold"}, h, k, a, b, c)
      /\ Occurs({"release"}, stack[t]) \in Nat /\ Net({"release"}, h, k, a, b, c) \in Int
      /\ Occurs({"hold"}, stack[t]) \in Nat /\ Net({"hold"}, h, k, a, b, c) \in Int
  BY <1>3
<1>5. /\ Occurs(Adders, stack'[t]) = Occurs(Adders, stack[t]) + Net(Adders, h, k, a, b, c)
      /\ Occurs(Adders, stack[t]) \in Nat /\ Net(Adders, h, k, a, b, c) \in Int
  BY <1>3 DEF Adders
<1>6. /\ NetBal(h, k, a, b, c) \in Int /\ Bal(stack'[t]) = Bal(stack[t]) + NetBal(h, k, a, b, c)
  BY ONLY <1>4, <1>5 DEF Bal, NetBal
<1>7. \A u \in Threads : Balances[u] \in Nat /\ Balances[u] = Bal(stack[u])
  BY BalancesType
<1>8. \A u \in Threads : Balances'[u] \in Nat /\ Balances'[u] = Bal(stack'[u])
  BY BalancesType
<1>9. \A u \in Threads : u # t => Balances'[u] = Balances[u]
  BY <1>1, <1>7, <1>8
<1>10. FiniteThreads
  BY Finite
<1>11. Total(Balances') = Total(Balances) + Balances'[t] - Balances[t]
  BY <1>7, <1>8, <1>9, <1>10, TotalChange
<1>12. Total(Balances) \in Nat /\ Total(Balances') \in Nat
  BY <1>7, <1>8, <1>10, TotalType
<1>13. Total(Balances)' = Total(Balances')
  BY DEF Total, Points, Threads
<1>14. Balances[t] = Bal(stack[t]) /\ Balances'[t] = Bal(stack'[t]) /\ Bal(stack[t]) \in Nat /\ Bal(stack'[t]) \in Nat
  BY <1>7, <1>8
<1>15. Total(Balances') = Total(Balances) + NetBal(h, k, a, b, c)
  BY ONLY <1>6, <1>11, <1>12, <1>14
<1> QED
  BY <1>6, <1>12, <1>13, <1>14, <1>15

LEMMA GreetingsType ==
    /\ StackInv => \A t \in Threads : Greetings[t] = Greets(mode, stack[t]) /\ Greetings[t] \in Nat
    /\ StackInv' => \A t \in Threads : Greetings'[t] = Greets(mode', stack'[t]) /\ Greetings'[t] \in Nat
<1>1. ASSUME StackInv PROVE \A t \in Threads : Greetings[t] = Greets(mode, stack[t]) /\ Greetings[t] \in Nat
  BY <1>1, GreetsType DEF Greetings, StackInv, Table
<1>2. ASSUME StackInv' PROVE \A t \in Threads : Greetings'[t] = Greets(mode', stack'[t]) /\ Greetings'[t] \in Nat
  BY <1>2, GreetsType DEF Greetings, StackInv, Table
<1> QED
  BY <1>1, <1>2

NetGreets(m, h, k, a, b, c) == Net({"handshake"}, h, k, a, b, c) - Net(OnHandshake(m), h, k, a, b, c)

LEMMA GreetMoves ==
    ASSUME SlotAssumption, StackInv, StackInv', NEW t \in Threads, NEW h, NEW k,
           NEW a \in Opt(Steps), NEW b \in Opt(Steps), NEW c \in Opt(Steps),
           Moves(t, h, k, a, b, c), mode' = mode
    PROVE  /\ Total(Greetings) \in Nat /\ Total(Greetings)' \in Nat /\ NetGreets(mode, h, k, a, b, c) \in Int
           /\ Total(Greetings)' = Total(Greetings) + NetGreets(mode, h, k, a, b, c)
<1>0. stack \in [Threads -> Seq(Steps)]
  BY DEF StackInv
<1>1. /\ stack'[t] = Turned(h, k, a, b, c, stack[t])
      /\ \A u \in Threads : u # t => stack'[u] = stack[u]
  BY <1>0 DEF Moves
<1>2. stack[t] \in Seq(Steps) /\ Has(h, k, stack[t])
  BY DEF StackInv, Moves
<1>3. ASSUME NEW P, "bottom" \notin P
      PROVE  /\ Occurs(P, stack[t]) \in Nat /\ Net(P, h, k, a, b, c) \in Int
             /\ Occurs(P, stack'[t]) = Occurs(P, stack[t]) + Net(P, h, k, a, b, c)
  BY <1>1, <1>2, <1>3, TurnCounts
<1>4. PICK Q : Q = OnHandshake(mode) /\ "bottom" \notin Q
  <2>1. "bottom" \notin OnHandshake(mode)
    BY DEF OnHandshake
  <2> QED
    BY <2>1
<1>5. /\ Occurs({"handshake"}, stack'[t]) = Occurs({"handshake"}, stack[t]) + Net({"handshake"}, h, k, a, b, c)
      /\ Occurs({"handshake"}, stack[t]) \in Nat /\ Net({"handshake"}, h, k, a, b, c) \in Int
      /\ Occurs(Q, stack'[t]) = Occurs(Q, stack[t]) + Net(Q, h, k, a, b, c)
      /\ Occurs(Q, stack[t]) \in Nat /\ Net(Q, h, k, a, b, c) \in Int
  BY <1>3, <1>4
<1>6. /\ NetGreets(mode, h, k, a, b, c) \in Int
      /\ Greets(mode, stack'[t]) = Greets(mode, stack[t]) + NetGreets(mode, h, k, a, b, c)
  BY ONLY <1>4, <1>5 DEF Greets, NetGreets
<1>7. \A u \in Threads : Greetings[u] \in Nat /\ Greetings[u] = Greets(mode, stack[u])
  BY GreetingsType
<1>8. \A u \in Threads : Greetings'[u] \in Nat /\ Greetings'[u] = Greets(mode, stack'[u])
  BY GreetingsType
<1>9. \A u \in Threads : u # t => Greetings'[u] = Greetings[u]
  BY <1>1, <1>7, <1>8
<1>10. FiniteThreads
  BY Finite
<1>11. Total(Greetings') = Total(Greetings) + Greetings'[t] - Greetings[t]
  BY <1>7, <1>8, <1>9, <1>10, TotalChange
<1>12. Total(Greetings) \in Nat /\ Total(Greetings') \in Nat
  BY <1>7, <1>8, <1>10, TotalType
<1>13. Total(Greetings)' = Total(Greetings')
  BY DEF Total, Points, Threads
<1>14. /\ Greetings[t] = Greets(mode, stack[t]) /\ Greetings'[t] = Greets(mode, stack'[t])
       /\ Greetings[t] \in Nat /\ Greetings'[t] \in Nat
  BY <1>7, <1>8
<1>15. Total(Greetings') = Total(Greetings) + NetGreets(mode, h, k, a, b, c)
  BY ONLY <1>6, <1>11, <1>12, <1>14
<1> QED
  BY <1>6, <1>12, <1>13, <1>15

LEMMA EnderType == ASSUME NEW s PROVE Ender(s) \in {0, 1}
  BY DEF Ender

LEMMA EndersMoves ==
    ASSUME SlotAssumption, StackInv, StackInv', NEW t \in Threads, NEW h, NEW k,
           NEW a \in Opt(Steps), NEW b \in Opt(Steps), NEW c \in Opt(Steps),
           Moves(t, h, k, a, b, c)
    PROVE  /\ Total(Enders) \in Nat /\ Total(Enders)' \in Nat
           /\ Ender(stack[t]) \in {0, 1} /\ Ender(stack'[t]) \in {0, 1}
           /\ Ender(stack[t]) <= Total(Enders)
           /\ Total(Enders)' = Total(Enders) + Ender(stack'[t]) - Ender(stack[t])
<1>0. stack \in [Threads -> Seq(Steps)]
  BY DEF StackInv
<1>1. \A u \in Threads : u # t => stack'[u] = stack[u]
  BY <1>0 DEF Moves
<1>2. \A u \in Threads : Enders[u] \in Nat /\ Enders[u] = Ender(stack[u])
  BY EnderType DEF Enders
<1>3. \A u \in Threads : Enders'[u] \in Nat /\ Enders'[u] = Ender(stack'[u])
  BY EnderType DEF Enders
<1>4. \A u \in Threads : u # t => Enders'[u] = Enders[u]
  BY <1>1, <1>2, <1>3
<1>5. FiniteThreads
  BY Finite
<1>6. Total(Enders') = Total(Enders) + Enders'[t] - Enders[t] /\ Enders[t] <= Total(Enders)
  BY <1>2, <1>3, <1>4, <1>5, TotalChange, TotalBound
<1>7. Total(Enders) \in Nat /\ Total(Enders') \in Nat
  BY <1>2, <1>3, <1>5, TotalType
<1>8. Total(Enders)' = Total(Enders')
  BY DEF Total, Points, Threads
<1> QED
  BY <1>2, <1>3, <1>6, <1>7, <1>8, EnderType

\* What one thread keeps, and two threads keep, is kept.
LEMMA KeptBound ==
    ASSUME SlotAssumption, StackInv, NEW t \in Threads
    PROVE  /\ Bal(stack[t]) <= Total(Balances) /\ Total(Balances) \in Nat
           /\ \A u \in Threads : u # t => Bal(stack[t]) + Bal(stack[u]) <= Total(Balances)
<1>1. \A u \in Threads : Balances[u] \in Nat /\ Balances[u] = Bal(stack[u])
  BY BalancesType
<1>2. FiniteThreads
  BY Finite
<1>3. /\ Balances[t] <= Total(Balances)
      /\ \A u \in Threads : u # t => Balances[t] + Balances[u] <= Total(Balances)
  BY <1>1, <1>2, TotalBound
<1>4. Total(Balances) \in Nat
  BY <1>1, <1>2, TotalType
<1> QED
  BY <1>1, <1>3, <1>4

\* The jobs: none is begun or ends with an ordinary step.
LEMMA WaitingType ==
    ASSUME QueueInv
    PROVE  Waiting \in Seq(JobKinds) /\ \A P : Occurs(P, Waiting) \in Nat
<1>1. Waiting \in Seq(JobKinds)
  BY TailProperties DEF QueueInv, Waiting
<1> QED
  BY <1>1, OccursType

-----------------------------------------------------------------------------
(***************************************************************************)
(* Ordinary steps: those that change neither the numbers of the I/O        *)
(* operations nor the jobs, nor _connectedSessions                         *)
(***************************************************************************)
Reserving(m, h, k, a, b, c) == IF m = "ws" THEN Net({"acceptEx"}, h, k, a, b, c) ELSE 0

\* n: references the step takes.
Plain(m, h, k, a, b, c, n) ==
    /\ h \in Handling /\ {k, a, b, c} \subseteq Handling \cup {"bottom"}
    /\ NetBal(h, k, a, b, c) \in Nat
    /\ n = NetBal(h, k, a, b, c) + Reserving(m, h, k, a, b, c)

\* No accept begins, and the one that goes on begins nothing else.
Calm(m, h, k, a, b, c) ==
    /\ Net(Opening, h, k, a, b, c) <= 0
    /\ \/ Net(Opening, h, k, a, b, c) < 0
       \/ h \in Noisy \cup {"handshake"}
       \/ Net(Noisy, h, k, a, b, c) + NetGreets(m, h, k, a, b, c) <= 0
    /\ Net(After, h, k, a, b, c) <= 0

\* No receive, no send and no call of the application begins.
Unreceived(h, k, a, b, c) == Net({"recv", "wsaRecv"}, h, k, a, b, c) <= 0
Unsent(h, k, a, b, c) == Net({"wsaSend", "sended"}, h, k, a, b, c) <= 0
Silent(h, k, a, b, c) ==
    /\ Net({"message", "makeRecv", "addRecv"}, h, k, a, b, c) <= 0
    /\ Net({"onConnected"}, h, k, a, b, c) = 0 /\ Net({"onDisconnected"}, h, k, a, b, c) = 0

Ordinary(t, h, k, a, b, c, n) ==
    /\ Moves(t, h, k, a, b, c) /\ Fits(Table, h, k, a, b, c) /\ Plain(mode, h, k, a, b, c, n)
    /\ refs' = refs + n
    /\ \A x \in Kinds : Count(x)' = Count(x)
    /\ UNCHANGED <<jobs, mode, calls>>

LEMMA LeftStep ==
    ASSUME SlotAssumption, StackInv, NEW t \in Threads, NEW h, NEW k,
           NEW a \in Opt(Steps), NEW b \in Opt(Steps), NEW c \in Opt(Steps),
           Moves(t, h, k, a, b, c), NEW P, "bottom" \notin P
    PROVE  /\ Left(P) \in Nat /\ Left(P)' \in Nat /\ Net(P, h, k, a, b, c) \in Int
           /\ Left(P)' = Left(P) + Net(P, h, k, a, b, c)
<1>1. FiniteThreads /\ stack \in [Threads -> Seq(Steps)]
  BY Finite DEF StackInv
<1> QED
  BY <1>1, LeftMoves

LEMMA InUnion == ASSUME NEW x, NEW P, NEW Q, P \cap Q = {} PROVE In(x, P \cup Q) = In(x, P) + In(x, Q)
<1>1. CASE x \in P
  BY <1>1 DEF In
<1>2. CASE x \notin P
  BY <1>2 DEF In
<1> QED
  BY <1>1, <1>2

LEMMA NetCarried ==
    ASSUME NEW h, NEW k, NEW a, NEW b, NEW c
    PROVE  Net(CarriedSteps, h, k, a, b, c) = Net(Adders, h, k, a, b, c) + Reserving(mode, h, k, a, b, c)
<1>1. CASE mode = "ws"
  <2>1. Adders \cap {"acceptEx"} = {} /\ CarriedSteps = Adders \cup {"acceptEx"}
    BY <1>1 DEF Adders, CarriedSteps
  <2>2. \A x : In(x, CarriedSteps) = In(x, Adders) + In(x, {"acceptEx"})
    BY <2>1, InUnion
  <2>3. \A x : In(x, Adders) \in Nat /\ In(x, {"acceptEx"}) \in Nat
    BY InType
  <2> QED
    BY <1>1, <2>2, <2>3 DEF Net, Reserving
<1>2. CASE mode # "ws"
  <2>1. CarriedSteps = Adders
    BY <1>2 DEF CarriedSteps
  <2>2. \A x : In(x, Adders) \in Nat
    BY InType
  <2> QED
    BY <1>2, <2>1, <2>2 DEF Net, Reserving
<1> QED
  BY <1>1, <1>2

LEMMA NoneNet ==
    ASSUME NEW h, NEW k, NEW a, NEW b, NEW c, NEW P, {h, k, a, b, c} \cap P = {}
    PROVE  Net(P, h, k, a, b, c) = 0
  BY DEF Net, In

LEMMA OrdinarySteps ==
    ASSUME NEW m, NEW h, NEW k, NEW a, NEW b, NEW c, NEW n, Plain(m, h, k, a, b, c, n)
    PROVE  /\ h # "bottom" /\ h \in Steps
           /\ a \in Opt(Steps) /\ b \in Opt(Steps) /\ c \in Opt(Steps)
           /\ Net({"pop"}, h, k, a, b, c) = 0 /\ Net({"update"}, h, k, a, b, c) = 0
<1>1. "bottom" \notin Handling /\ "pop" \notin Handling /\ "update" \notin Handling
  BY DEF Handling, Calls, Opening, Others
<1>2. h # "bottom" /\ h \in Steps /\ a \in Opt(Steps) /\ b \in Opt(Steps) /\ c \in Opt(Steps)
  BY <1>1 DEF Plain, Opt, Steps
<1>3. {h, k, a, b, c} \cap {"pop"} = {} /\ {h, k, a, b, c} \cap {"update"} = {}
  BY <1>1 DEF Plain
<1> QED
  BY <1>2, <1>3, NoneNet

\* Update and Excute go on as before, and so do the jobs.
LEMMA OrdinaryQueue ==
    ASSUME SlotAssumption, StackInv, QueueInv, NEW t \in Threads, NEW h, NEW k,
           NEW a \in Opt(Steps), NEW b \in Opt(Steps), NEW c \in Opt(Steps), Moves(t, h, k, a, b, c),
           Net({"pop"}, h, k, a, b, c) = 0, Net({"update"}, h, k, a, b, c) = 0, UNCHANGED <<jobs, mode>>
    PROVE  QueueInv' /\ Waiting' = Waiting
<1>1. Left({"pop"})' = Left({"pop"}) /\ Left({"update"})' = Left({"update"})
  <2>1. /\ Left({"pop"}) \in Nat /\ Left({"pop"})' = Left({"pop"}) + Net({"pop"}, h, k, a, b, c)
        /\ Left({"update"}) \in Nat /\ Left({"update"})' = Left({"update"}) + Net({"update"}, h, k, a, b, c)
    BY LeftStep
  <2> QED
    BY <2>1
<1> QED
  BY <1>1 DEF QueueInv, Waiting

LEMMA OrdinaryCount ==
    ASSUME SlotAssumption, TypeInv, StackInv, StackInv', QueueInv, CountInv, NEW t \in Threads, NEW h, NEW k,
           NEW a \in Opt(Steps), NEW b \in Opt(Steps), NEW c \in Opt(Steps), Moves(t, h, k, a, b, c),
           mode' = mode, NEW dOut \in Int, NEW dWait \in Int, NEW n \in Int,
           refs' = refs + n, Outstanding' = Outstanding + dOut, 
           Occurs(Owning, Waiting)' = Occurs(Owning, Waiting) + dWait,
           n = dOut + dWait + NetBal(h, k, a, b, c) + Reserving(mode, h, k, a, b, c)
    PROVE  /\ CountInv'
           /\ Kept \in Nat /\ Kept' = Kept + dOut + dWait + NetBal(h, k, a, b, c)
<1>0. Outstanding \in Nat /\ Occurs(Owning, Waiting) \in Nat
  BY OutstandingType, WaitingType DEF TypeInv
<1>1. /\ Total(Balances) \in Nat /\ NetBal(h, k, a, b, c) \in Int
      /\ Total(Balances)' = Total(Balances) + NetBal(h, k, a, b, c)
  BY BalMoves
<1>2. /\ Left({"acceptEx"}) \in Nat /\ Net({"acceptEx"}, h, k, a, b, c) \in Int
      /\ Left({"acceptEx"})' = Left({"acceptEx"}) + Net({"acceptEx"}, h, k, a, b, c)
  BY LeftStep
<1>3. /\ Left({"release"}) \in Nat /\ Net({"release"}, h, k, a, b, c) \in Int
      /\ Left({"release"})' = Left({"release"}) + Net({"release"}, h, k, a, b, c)
      /\ Left({"hold"}) \in Nat /\ Net({"hold"}, h, k, a, b, c) \in Int
      /\ Left({"hold"})' = Left({"hold"}) + Net({"hold"}, h, k, a, b, c)
  BY LeftStep
<1>4. /\ Left(CarriedSteps) \in Nat /\ Net(CarriedSteps, h, k, a, b, c) \in Int
      /\ Left(CarriedSteps)' = Left(CarriedSteps) + Net(CarriedSteps, h, k, a, b, c)
  <2>1. PICK Q : Q = CarriedSteps /\ Q = CarriedSteps' /\ "bottom" \notin Q
    <3>1. CarriedSteps = CarriedSteps' /\ "bottom" \notin CarriedSteps
      BY DEF CarriedSteps, Adders
    <3> QED
      BY <3>1
  <2>2. Left(Q) \in Nat /\ Net(Q, h, k, a, b, c) \in Int /\ Left(Q)' = Left(Q) + Net(Q, h, k, a, b, c)
    BY <2>1, LeftStep
  <2>3. Left(CarriedSteps)' = Left(Q)'
    BY <2>1 DEF Left
  <2> QED
    BY <2>1, <2>2, <2>3
<1>5. Net(Adders, h, k, a, b, c) \in Int
  BY LeftStep DEF Adders
<1>6. Reserved \in Nat /\ Reserved' = Reserved + Reserving(mode, h, k, a, b, c) /\ Reserving(mode, h, k, a, b, c) \in Int
  BY <1>2 DEF Reserved, Reserving
<1>7. Kept \in Nat /\ Kept' = Kept + dOut + dWait + NetBal(h, k, a, b, c)
  BY <1>0, <1>1 DEF Kept
<1>8. refs' = Kept' + Reserved'
  BY <1>1, <1>6, <1>7 DEF CountInv
<1>9. Net(CarriedSteps, h, k, a, b, c) = Net(Adders, h, k, a, b, c) + Reserving(mode, h, k, a, b, c)
  BY NetCarried
<1>10. NetBal(h, k, a, b, c)
         = Net({"release"}, h, k, a, b, c) + Net(Adders, h, k, a, b, c) - Net({"hold"}, h, k, a, b, c)
  BY DEF NetBal
<1>11. refs' + Left({"hold"})' = Outstanding' + Left({"release"})' + Left(CarriedSteps)' + Occurs(Owning, Waiting)'
  <2>1. refs \in Int /\ refs + Left({"hold"}) = Outstanding + Left({"release"}) + Left(CarriedSteps) + Occurs(Owning, Waiting)
    BY <1>6, <1>7 DEF CountInv
  <2> QED
    BY <1>0, <1>3, <1>4, <1>5, <1>6, <1>9, <1>10, <2>1
<1> QED
  BY <1>7, <1>8, <1>11 DEF CountInv

\* A step of the session is on the stack of the thread that takes it.
LEMMA OnStack ==
    ASSUME StackInv, NEW t \in Threads, NEW h, h # "bottom", NEW k, NEW a, NEW b, NEW c, Moves(t, h, k, a, b, c)
    PROVE  /\ stack[t] # <<>> /\ Head(stack[t]) = h /\ Top(stack[t]) = h
           /\ \A P : h \in P => Occurs(P, stack[t]) >= 1
<1>1. stack[t] # <<>> /\ Head(stack[t]) = h
  BY DEF Moves, Has, OnTop
<1>2. stack[t] \in Seq(Steps)
  BY DEF StackInv
<1>3. \A P : h \in P => Occurs(P, stack[t]) >= 1
  BY <1>1, <1>2, TopCounts
<1> QED
  BY <1>1, <1>3 DEF Top

\* A thread that takes a reference, or neither takes nor gives one.
LEMMA OrdinaryEnd ==
    ASSUME SlotAssumption, TypeInv, StackInv, StackInv', QueueInv, EndInv, NEW t \in Threads, NEW h, NEW k,
           NEW a \in Opt(Steps), NEW b \in Opt(Steps), NEW c \in Opt(Steps), Moves(t, h, k, a, b, c),
           h \in Handling, NetBal(h, k, a, b, c) \in Nat, Waiting' = Waiting,
           Kept \in Nat, Kept' = Kept + NetBal(h, k, a, b, c)
    PROVE  EndInv'
<1>1. /\ Bal(stack[t]) \in Nat /\ Bal(stack'[t]) \in Nat
      /\ Bal(stack'[t]) = Bal(stack[t]) + NetBal(h, k, a, b, c)
  BY BalMoves
<1>2. /\ Total(Enders) \in Nat /\ Total(Enders)' \in Nat
      /\ Ender(stack[t]) \in {0, 1} /\ Ender(stack'[t]) \in {0, 1}
      /\ Ender(stack[t]) <= Total(Enders)
      /\ Total(Enders)' = Total(Enders) + Ender(stack'[t]) - Ender(stack[t])
  BY EndersMoves
<1>3. Occurs({"delSession"}, Waiting) \in Nat /\ Occurs({"delSession"}, Waiting)' = Occurs({"delSession"}, Waiting)
  BY WaitingType
<1>4. Occurs(Handling, stack[t]) # 0
  <2>1. h # "bottom"
    BY DEF Handling, Calls, Opening, Others
  <2>2. Occurs(Handling, stack[t]) >= 1
    BY <2>1, OnStack
  <2> QED
    BY <2>2
<1>5. Bal(stack[t]) = 0 => Ender(stack[t]) = 1
  BY <1>4 DEF Ender
<1>6. Bal(stack'[t]) # 0 => Ender(stack'[t]) = 0
  BY DEF Ender
<1>7. Bal(stack[t]) <= Total(Balances) /\ Total(Balances) \in Nat
  BY KeptBound
<1>8. Bal(stack[t]) <= Kept
  <2>1. Outstanding \in Nat /\ Occurs(Owning, Waiting) \in Nat
    BY OutstandingType, WaitingType DEF TypeInv
  <2> QED
    BY <1>1, <1>7, <2>1 DEF Kept
<1>9. Endings \in Nat /\ Endings' = Endings + Ender(stack'[t]) - Ender(stack[t])
  BY <1>2, <1>3 DEF Endings
<1>10. Endings <= 1 /\ (Endings = 1 => Kept = 0) /\ Ender(stack[t]) <= Endings
  BY <1>2, <1>3 DEF EndInv, Endings
<1>11. CASE NetBal(h, k, a, b, c) = 0
  <2>1. Kept' = Kept /\ Ender(stack'[t]) <= Ender(stack[t])
    BY <1>1, <1>2, <1>5, <1>6, <1>11
  <2> QED
    BY <1>2, <1>9, <1>10, <2>1 DEF EndInv
<1>12. CASE NetBal(h, k, a, b, c) # 0
  <2>1. Ender(stack'[t]) = 0
    BY <1>1, <1>6, <1>12
  <2>2. Ender(stack[t]) = 0 => Endings = 0
    BY <1>1, <1>5, <1>8, <1>9, <1>10
  <2>3. Endings' = 0
    BY <1>2, <1>9, <1>10, <2>1, <2>2
  <2> QED
    BY <2>3 DEF EndInv
<1> QED
  BY <1>11, <1>12

LEMMA OrdinaryOpen ==
    ASSUME SlotAssumption, TypeInv, TypeInv', StackInv, StackInv', QueueInv, OpenInv, NEW t \in Threads,
           NEW h, NEW k, NEW a, NEW b, NEW c, NEW n, Ordinary(t, h, k, a, b, c, n),
           Calm(mode, h, k, a, b, c), Waiting' = Waiting, listed' = listed
    PROVE  OpenInv'
<1>1. /\ h # "bottom" /\ a \in Opt(Steps) /\ b \in Opt(Steps) /\ c \in Opt(Steps) /\ Moves(t, h, k, a, b, c)
      /\ mode' = mode /\ \A x \in Kinds : Count(x)' = Count(x)
  BY OrdinarySteps DEF Ordinary
<1>a. "bottom" \notin Opening /\ "bottom" \notin Noisy /\ "bottom" \notin After
  BY DEF Opening, Noisy, Others, After
<1>2. /\ Left(Opening) \in Nat /\ Left(Opening)' \in Nat /\ Net(Opening, h, k, a, b, c) \in Int
      /\ Left(Opening)' = Left(Opening) + Net(Opening, h, k, a, b, c)
  BY <1>1, <1>a, LeftStep
<1>3. /\ Left(Noisy) \in Nat /\ Left(Noisy)' \in Nat /\ Net(Noisy, h, k, a, b, c) \in Int
      /\ Left(Noisy)' = Left(Noisy) + Net(Noisy, h, k, a, b, c)
  BY <1>1, <1>a, LeftStep
<1>4. /\ Left(After) \in Nat /\ Left(After)' \in Nat /\ Net(After, h, k, a, b, c) \in Int
      /\ Left(After)' = Left(After) + Net(After, h, k, a, b, c)
  BY <1>1, <1>a, LeftStep
<1>5. /\ Total(Greetings) \in Nat /\ Total(Greetings)' \in Nat /\ NetGreets(mode, h, k, a, b, c) \in Int
      /\ Total(Greetings)' = Total(Greetings) + NetGreets(mode, h, k, a, b, c)
  BY <1>1, GreetMoves
<1>6. /\ \A P : Occurs(P, Waiting) \in Nat
      /\ \A P : Occurs(P, Waiting') = Occurs(P, Waiting)
  BY WaitingType
<1>7. /\ Count("accept") \in Nat /\ Count("recv") \in Nat /\ Count("send") \in Nat
      /\ Count("accept")' = Count("accept") /\ Count("recv")' = Count("recv") /\ Count("send")' = Count("send")
  BY <1>1, OutstandingType DEF TypeInv, Kinds
<1>8. Accepts \in Nat /\ Accepts' = Accepts + Net(Opening, h, k, a, b, c)
  BY <1>2, <1>6, <1>7 DEF Accepts
<1>9. /\ Traffic \in Nat
      /\ Traffic' = Traffic + Net(Noisy, h, k, a, b, c) + NetGreets(mode, h, k, a, b, c)
      /\ Left(Noisy) <= Traffic /\ Total(Greetings) <= Traffic
  BY <1>3, <1>5, <1>6, <1>7 DEF Traffic
<1>10. Traffic' \in Nat
  <2>1. /\ Count("recv")' \in Nat /\ Count("send")' \in Nat
        /\ Occurs({"message", "delSession"}, Waiting)' \in Nat
    BY <1>6, <1>7
  <2> QED
    BY <1>3, <1>5, <2>1 DEF Traffic
<1>11. h \in Noisy => Traffic # 0
  <2>1. ASSUME h \in Noisy PROVE Left(Noisy) # 0
    <3>1. Occurs(Noisy, stack[t]) >= 1
      BY <1>1, <2>1, OnStack
    <3>2. FiniteThreads /\ stack \in [Threads -> Seq(Steps)]
      BY Finite DEF StackInv
    <3>3. Occurs(Noisy, stack[t]) <= Left(Noisy) /\ Occurs(Noisy, stack[t]) \in Nat
      <4>1. stack[t] \in Seq(Steps)
        BY <3>2
      <4> QED
        BY <3>2, <4>1, LeftBound, OccursType
    <3> QED
      BY <1>3, <3>1, <3>3
  <2> QED
    BY <1>3, <1>9, <2>1
<1>12. h = "handshake" => Traffic # 0
  <2>1. ASSUME h = "handshake" PROVE Total(Greetings) # 0
    <3>1. Top(stack[t]) = "handshake"
      BY <1>1, <2>1, OnStack
    <3>2. Greets(mode, stack[t]) >= 1
      BY <3>1, GreetsType DEF StackInv, Table
    <3>3. \A u \in Threads : Greetings[u] = Greets(mode, stack[u]) /\ Greetings[u] \in Nat
      BY GreetingsType
    <3>4. Greetings[t] <= Total(Greetings)
      BY <3>3, Finite, TotalBound
    <3> QED
      BY <1>5, <3>2, <3>3, <3>4
  <2> QED
    BY <1>5, <1>9, <2>1
<1>13. /\ Net(Opening, h, k, a, b, c) <= 0
       /\ \/ Net(Opening, h, k, a, b, c) < 0
          \/ h \in Noisy \cup {"handshake"}
          \/ Net(Noisy, h, k, a, b, c) + NetGreets(mode, h, k, a, b, c) <= 0
       /\ Net(After, h, k, a, b, c) <= 0
  BY DEF Calm
<1>14. Accepts <= 1 /\ (Accepts = 1 => Traffic = 0 /\ ~listed) /\ (Left(After) # 0 => ~listed)
  BY DEF OpenInv
<1>15. Accepts' <= 1 /\ (Accepts' = 1 => Accepts = 1 /\ Net(Opening, h, k, a, b, c) = 0)
  BY <1>2, <1>8, <1>13, <1>14
<1>16. Accepts' = 1 => Traffic' = 0
  <2>1. ASSUME Accepts' = 1 PROVE Traffic' = 0
    <3>1. Traffic = 0 /\ Net(Noisy, h, k, a, b, c) + NetGreets(mode, h, k, a, b, c) <= 0
      BY <1>11, <1>12, <1>13, <1>14, <1>15, <2>1
    <3> QED
      BY <1>3, <1>5, <1>9, <1>10, <3>1
  <2> QED
    BY <2>1
<1>17. Left(After)' # 0 => Left(After) # 0
  BY <1>4, <1>13
<1> QED
  BY <1>14, <1>15, <1>16, <1>17 DEF OpenInv

LEMMA OrdinaryRecv ==
    ASSUME SlotAssumption, TypeInv, StackInv, RecvInv, NEW t \in Threads,
           NEW h, NEW k, NEW a, NEW b, NEW c, NEW n, Ordinary(t, h, k, a, b, c, n), Unreceived(h, k, a, b, c),
           listed' = listed
    PROVE  RecvInv'
<1> DEFINE d == Net({"recv", "wsaRecv"}, h, k, a, b, c)
<1>1. /\ a \in Opt(Steps) /\ b \in Opt(Steps) /\ c \in Opt(Steps) /\ Moves(t, h, k, a, b, c) /\ d <= 0
      /\ Count("recv")' = Count("recv") /\ Count("recv") \in Nat
  <2>1. a \in Opt(Steps) /\ b \in Opt(Steps) /\ c \in Opt(Steps) /\ Moves(t, h, k, a, b, c)
    BY OrdinarySteps DEF Ordinary
  <2>2. d <= 0
    BY DEF Unreceived
  <2>3. Count("recv")' = Count("recv") /\ Count("recv") \in Nat
    BY OutstandingType DEF Ordinary, TypeInv, Kinds
  <2> QED
    BY <2>1, <2>2, <2>3
<1>2. /\ Left({"recv", "wsaRecv"}) \in Nat /\ Left({"recv", "wsaRecv"})' \in Nat /\ d \in Int
      /\ Left({"recv", "wsaRecv"})' = Left({"recv", "wsaRecv"}) + d
  BY <1>1, LeftStep
<1> HIDE DEF d
<1>3. Receives' <= Receives /\ Receives \in Nat /\ Receives' \in Nat
  BY <1>1, <1>2 DEF Receives
<1> QED
  BY <1>3 DEF RecvInv

LEMMA OrdinarySend ==
    ASSUME SlotAssumption, TypeInv, StackInv, SendInv, NEW t \in Threads,
           NEW h, NEW k, NEW a, NEW b, NEW c, NEW n, Ordinary(t, h, k, a, b, c, n), Unsent(h, k, a, b, c),
           sending' = sending
    PROVE  SendInv'
<1> DEFINE d == Net({"wsaSend", "sended"}, h, k, a, b, c)
<1>1. /\ a \in Opt(Steps) /\ b \in Opt(Steps) /\ c \in Opt(Steps) /\ Moves(t, h, k, a, b, c) /\ d <= 0
      /\ Count("send")' = Count("send") /\ Count("send") \in Nat
  BY OrdinarySteps, OutstandingType DEF Ordinary, Unsent, TypeInv, Kinds
<1>2. /\ Left({"wsaSend", "sended"}) \in Nat /\ Left({"wsaSend", "sended"})' \in Nat /\ d \in Int
      /\ Left({"wsaSend", "sended"})' = Left({"wsaSend", "sended"}) + d
  BY <1>1, LeftStep
<1> HIDE DEF d
<1>3. Sends' <= Sends /\ Sends \in Nat /\ Sends' \in Nat
  BY <1>1, <1>2 DEF Sends
<1> QED
  BY <1>3 DEF SendInv

LEMMA OrdinaryTold ==
    ASSUME SlotAssumption, TypeInv, StackInv, QueueInv, ToldInv, NEW t \in Threads,
           NEW h, NEW k, NEW a, NEW b, NEW c, NEW n, Ordinary(t, h, k, a, b, c, n), Silent(h, k, a, b, c),
           Waiting' = Waiting, listed' = listed, told' = told
    PROVE  ToldInv'
<1> DEFINE d == Net({"message", "makeRecv", "addRecv"}, h, k, a, b, c)
<1>1. /\ a \in Opt(Steps) /\ b \in Opt(Steps) /\ c \in Opt(Steps) /\ Moves(t, h, k, a, b, c) /\ d <= 0
      /\ Net({"onConnected"}, h, k, a, b, c) = 0 /\ Net({"onDisconnected"}, h, k, a, b, c) = 0
  BY OrdinarySteps DEF Ordinary, Silent
<1>2. /\ Left({"message", "makeRecv", "addRecv"}) \in Nat /\ Left({"message", "makeRecv", "addRecv"})' \in Nat
      /\ d \in Int
      /\ Left({"message", "makeRecv", "addRecv"})' = Left({"message", "makeRecv", "addRecv"}) + d
  BY <1>1, LeftStep
<1> HIDE DEF d
<1>3. /\ Left({"onConnected"}) \in Nat
      /\ Left({"onConnected"})' = Left({"onConnected"}) + Net({"onConnected"}, h, k, a, b, c)
      /\ Left({"onDisconnected"}) \in Nat
      /\ Left({"onDisconnected"})' = Left({"onDisconnected"}) + Net({"onDisconnected"}, h, k, a, b, c)
  BY <1>1, LeftStep
<1>4. Telling' = Telling /\ Untelling' = Untelling
  BY <1>1, <1>3 DEF Telling, Untelling
<1>5. Occurs({"message"}, Waiting) \in Nat /\ Occurs({"message"}, Waiting)' = Occurs({"message"}, Waiting)
  BY WaitingType
<1>6. Messages' # 0 => Messages # 0
  BY <1>1, <1>2, <1>5 DEF Messages
<1> QED
  BY <1>4, <1>6 DEF ToldInv

LEMMA OrdinaryKeeps ==
    ASSUME SlotAssumption, IInv, TypeInv', NEW t \in Threads, NEW h, NEW k, NEW a, NEW b, NEW c, NEW n,
           Ordinary(t, h, k, a, b, c, n)
    PROVE  /\ StackInv' /\ QueueInv' /\ CountInv' /\ Waiting' = Waiting
           /\ calls = 0 => EndInv'
<1>1. /\ h # "bottom" /\ a \in Opt(Steps) /\ b \in Opt(Steps) /\ c \in Opt(Steps)
      /\ Net({"pop"}, h, k, a, b, c) = 0 /\ Net({"update"}, h, k, a, b, c) = 0
  BY OrdinarySteps DEF Ordinary
<1>2. Moves(t, h, k, a, b, c) /\ Fits(Table, h, k, a, b, c) /\ UNCHANGED <<jobs, mode, calls>>
  BY DEF Ordinary
<1>3. TypeInv /\ StackInv /\ QueueInv /\ CountInv /\ (calls = 0 => QuietInv)
  BY DEF IInv
<1>4. StackInv'
  BY <1>1, <1>2, <1>3, StackMoves
<1>5. QueueInv' /\ Waiting' = Waiting
  BY <1>1, <1>2, <1>3, OrdinaryQueue
<1>6. CountInv' /\ Kept \in Nat /\ Kept' = Kept + NetBal(h, k, a, b, c) /\ NetBal(h, k, a, b, c) \in Nat
  <2>1. /\ n = NetBal(h, k, a, b, c) + Reserving(mode, h, k, a, b, c) /\ NetBal(h, k, a, b, c) \in Nat
        /\ refs' = refs + n /\ Outstanding' = Outstanding
    BY DEF Ordinary, Plain, Outstanding, Kinds
  <2>2. Reserving(mode, h, k, a, b, c) \in Int
    <3>1. Net({"acceptEx"}, h, k, a, b, c) \in Int
      BY <1>1, <1>2, <1>3, LeftStep
    <3> QED
      BY <3>1 DEF Reserving
  <2>3. Outstanding \in Nat /\ Occurs(Owning, Waiting) \in Nat /\ Occurs(Owning, Waiting)' = Occurs(Owning, Waiting)
    BY <1>3, <1>5, OutstandingType, WaitingType DEF TypeInv
  <2>4. n \in Int /\ n = 0 + 0 + NetBal(h, k, a, b, c) + Reserving(mode, h, k, a, b, c)
        /\ Outstanding' = Outstanding + 0 /\ Occurs(Owning, Waiting)' = Occurs(Owning, Waiting) + 0
    BY <2>1, <2>2, <2>3
  <2>5. CountInv' /\ Kept \in Nat /\ Kept' = Kept + 0 + 0 + NetBal(h, k, a, b, c)
    BY <1>1, <1>2, <1>3, <1>4, <2>1, <2>4, OrdinaryCount
  <2> QED
    BY <2>1, <2>5
<1>7. ASSUME calls = 0
      PROVE  EndInv'
  <2>1. EndInv
    BY <1>3, <1>7 DEF QuietInv
  <2>2. h \in Handling
    BY DEF Ordinary, Plain
  <2> QED
    BY <1>1, <1>2, <1>3, <1>4, <1>5, <1>6, <2>1, <2>2, OrdinaryEnd
<1> QED
  BY <1>4, <1>5, <1>6, <1>7

\* A step that keeps to all of this.
LEMMA PlainKeeps ==
    ASSUME SlotAssumption, IInv, TypeInv', NEW t \in Threads, NEW h, NEW k, NEW a, NEW b, NEW c, NEW n,
           Ordinary(t, h, k, a, b, c, n), listed' = listed, Calm(mode, h, k, a, b, c),
           RecvInv /\ calls = 0 => RecvInv', SendInv /\ calls = 0 => SendInv',
           ToldInv /\ calls = 0 => ToldInv'
    PROVE  IInv'
<1>1. /\ StackInv' /\ QueueInv' /\ CountInv' /\ Waiting' = Waiting
      /\ calls = 0 => EndInv'
  BY OrdinaryKeeps
<1>2. calls = 0 => OpenInv'
  BY <1>1, OrdinaryOpen DEF IInv, QuietInv
<1>3. calls' = calls
  BY DEF Ordinary
<1> QED
  BY <1>1, <1>2, <1>3 DEF IInv, QuietInv

LEMMA StillKeeps ==
    ASSUME SlotAssumption, IInv, TypeInv', NEW t \in Threads, NEW h, NEW k, NEW a, NEW b, NEW c, NEW n,
           Ordinary(t, h, k, a, b, c, n), UNCHANGED <<listed, told, sending>>, Calm(mode, h, k, a, b, c),
           Unreceived(h, k, a, b, c), Unsent(h, k, a, b, c), Silent(h, k, a, b, c)
    PROVE  IInv'
<1>1. TypeInv /\ StackInv /\ QueueInv
  BY DEF IInv
<1>2. Waiting' = Waiting
  BY OrdinaryKeeps
<1>3. RecvInv => RecvInv'
  BY <1>1, OrdinaryRecv
<1>4. SendInv => SendInv'
  BY <1>1, OrdinarySend
<1>5. ToldInv => ToldInv'
  BY <1>1, <1>2, OrdinaryTold
<1> QED
  BY <1>3, <1>4, <1>5, PlainKeeps

-----------------------------------------------------------------------------
(***************************************************************************)
(* The ordinary steps of the handlers                                      *)
(***************************************************************************)
\* In server m, n: an application thread has called.
Still(m, n, h, k, a, b, c, d) ==
    /\ Fits(MayLie(m, n), h, k, a, b, c) /\ Plain(m, h, k, a, b, c, d) /\ Calm(m, h, k, a, b, c)
    /\ Unreceived(h, k, a, b, c) /\ Unsent(h, k, a, b, c) /\ Silent(h, k, a, b, c)

LEMMA CoreStill ==
    ASSUME NEW m, NEW n
    PROVE  /\ Still(m, n, "clear", "bottom", "delSession", "bottom", "bottom", 0)
           /\ Still(m, n, "close", "bottom", "bottom", "bottom", "bottom", 0)
           /\ Still(m, n, "onConnect", "bottom", "initialize", "release", "bottom", 1)
           /\ Still(m, n, "initialize", "bottom", "addSession", "bottom", "bottom", 0)
           /\ Still(m, n, "initialize", "bottom", "disconnect", "bottom", "bottom", 0)
           /\ Still(m, n, "addSession", "bottom", "disconnect", "bottom", "bottom", 0)
           /\ Still(m, n, "message", "bottom", "bottom", "bottom", "bottom", 0)
           /\ Still(m, n, "message", "bottom", "send", "bottom", "bottom", 0)
           /\ Still(m, n, "message", "bottom", "disconnect", "bottom", "bottom", 0)
           /\ Still(m, n, "message", "recv", "disconnect", "bottom", "bottom", 0)
           /\ Still(m, n, "message", "wsaRecv", "disconnect", "bottom", "bottom", 0)
           /\ Still(m, n, "recv", "bottom", "bottom", "bottom", "bottom", 0)
           /\ Still(m, n, "recv", "bottom", "wsaRecv", "bottom", "bottom", 0)
           /\ Still(m, n, "wsaRecv", "bottom", "disconnect", "release", "bottom", 1)
           /\ Still(m, n, "send", "bottom", "bottom", "bottom", "bottom", 0)
           /\ Still(m, n, "wsaSend", "bottom", "disconnect", "release", "bottom", 1)
           /\ Still(m, n, "disconnect", "bottom", "isValid", "bottom", "bottom", 0)
           /\ Still(m, n, "isValid", "bottom", "bottom", "bottom", "bottom", 0)
           /\ Still(m, n, "isValid", "bottom", "hold", "cancel", "release", 0)
           /\ Still(m, n, "hold", "bottom", "bottom", "bottom", "bottom", 1)
           /\ Still(m, n, "cancel", "bottom", "bottom", "bottom", "bottom", 0)
<1> USE DEF Still, Fits, Linked, Plain, Calm, Unreceived, Unsent, Silent, NetBal, NetGreets, Net, In,
            Reserving, OnHandshake, Opening, Noisy, Others, After, Adders, Handling, Calls, Steps, Base
<1>1. Still(m, n, "clear", "bottom", "delSession", "bottom", "bottom", 0)
  BY Lies
<1>2. Still(m, n, "close", "bottom", "bottom", "bottom", "bottom", 0)
  BY Lies
<1>3. Still(m, n, "onConnect", "bottom", "initialize", "release", "bottom", 1)
  BY Lies
<1>4. Still(m, n, "initialize", "bottom", "addSession", "bottom", "bottom", 0)
  BY Lies
<1>5. Still(m, n, "initialize", "bottom", "disconnect", "bottom", "bottom", 0)
  BY Lies
<1>6. Still(m, n, "addSession", "bottom", "disconnect", "bottom", "bottom", 0)
  BY Lies
<1>7. Still(m, n, "message", "bottom", "bottom", "bottom", "bottom", 0)
  BY Lies
<1>8. Still(m, n, "message", "bottom", "send", "bottom", "bottom", 0)
  BY Lies
<1>9. Still(m, n, "message", "bottom", "disconnect", "bottom", "bottom", 0)
  BY Lies
<1>10. Still(m, n, "message", "recv", "disconnect", "bottom", "bottom", 0)
  BY Lies
<1>11. Still(m, n, "message", "wsaRecv", "disconnect", "bottom", "bottom", 0)
  BY Lies
<1>12. Still(m, n, "recv", "bottom", "bottom", "bottom", "bottom", 0)
  BY Lies
<1>13. Still(m, n, "recv", "bottom", "wsaRecv", "bottom", "bottom", 0)
  BY Lies
<1>14. Still(m, n, "wsaRecv", "bottom", "disconnect", "release", "bottom", 1)
  BY Lies
<1>15. Still(m, n, "send", "bottom", "bottom", "bottom", "bottom", 0)
  BY Lies
<1>16. Still(m, n, "wsaSend", "bottom", "disconnect", "release", "bottom", 1)
  BY Lies
<1>17. Still(m, n, "disconnect", "bottom", "isValid", "bottom", "bottom", 0)
  BY Lies
<1>18. Still(m, n, "isValid", "bottom", "bottom", "bottom", "bottom", 0)
  BY Lies
<1>19. Still(m, n, "isValid", "bottom", "hold", "cancel", "release", 0)
  BY Lies
<1>20. Still(m, n, "hold", "bottom", "bottom", "bottom", "bottom", 1)
  BY Lies
<1>21. Still(m, n, "cancel", "bottom", "bottom", "bottom", "bottom", 0)
  BY Lies
<1> HIDE DEF Still
<1> QED
  BY <1>1, <1>2, <1>3, <1>4, <1>5, <1>6, <1>7, <1>8, <1>9, <1>10, <1>11, <1>12, <1>13, <1>14, <1>15, <1>16, <1>17, <1>18, <1>19, <1>20, <1>21

LEMMA OwnStill ==
    ASSUME NEW m, NEW n
    PROVE  /\ m # "ws" => Still(m, n, "open", "bottom", "acceptEx", "bottom", "bottom", 0)
           /\ m = "ws" => Still(m, n, "open", "bottom", "acceptEx", "bottom", "bottom", 1)
           /\ Still(m, n, "open", "bottom", "disconnect", "bottom", "bottom", 0)
           /\ Still(m, n, "open", "bottom", "disconnect", "release", "bottom", 1)
           /\ m # "ws" => Still(m, n, "acceptEx", "bottom", "disconnect", "release", "bottom", 1)
           /\ m = "ws" => Still(m, n, "acceptEx", "bottom", "disconnect", "release", "bottom", 0)
           /\ m # "ws" => Still(m, n, "accepted", "bottom", "onConnect", "bottom", "bottom", 0)
           /\ m # "ws" => Still(m, n, "acceptFailed", "bottom", "onConnect", "bottom", "bottom", 0)
           /\ Still(m, n, "accepted", "bottom", "disconnect", "bottom", "bottom", 0)
           /\ Still(m, n, "acceptFailed", "bottom", "disconnect", "bottom", "bottom", 0)
           /\ m = "ws" => Still(m, n, "accepted", "bottom", "onConnectWs", "handshake", "bottom", 0)
           /\ m = "ws" => Still(m, n, "acceptFailed", "bottom", "onConnectWs", "handshake", "bottom", 0)
           /\ m = "ws" => Still(m, n, "onConnectWs", "bottom", "initialize", "bottom", "bottom", 0)
           /\ Still(m, n, "handshake", "bottom", "send", "ping", "bottom", 0)
           /\ Still(m, n, "handshake", "bottom", "disconnect", "bottom", "bottom", 0)
           /\ Still(m, n, "ping", "bottom", "send", "bottom", "bottom", 0)
           /\ m = "jobs" => Still(m, n, "clear", "bottom", "addDisconnect", "bottom", "bottom", 0)
           /\ Still(m, n, "makeAccept", "bottom", "addAccept", "bottom", "bottom", 1)
           /\ Still(m, n, "makeStale", "bottom", "addStale", "bottom", "bottom", 1)
           /\ Still(m, n, "makeRecv", "bottom", "addRecv", "bottom", "bottom", 1)
           /\ Still(m, n, "makeRecv", "recv", "disconnect", "bottom", "bottom", 0)
<1> USE DEF Still, Fits, Linked, Plain, Calm, Unreceived, Unsent, Silent, NetBal, NetGreets, Net, In,
            Reserving, OnHandshake, Opening, Noisy, Others, After, Adders, Handling, Calls, Steps, Base
<1>1. m # "ws" => Still(m, n, "open", "bottom", "acceptEx", "bottom", "bottom", 0)
  BY Lies
<1>2. m = "ws" => Still(m, n, "open", "bottom", "acceptEx", "bottom", "bottom", 1)
  BY Lies
<1>3. Still(m, n, "open", "bottom", "disconnect", "bottom", "bottom", 0)
  BY Lies
<1>4. Still(m, n, "open", "bottom", "disconnect", "release", "bottom", 1)
  BY Lies
<1>5. m # "ws" => Still(m, n, "acceptEx", "bottom", "disconnect", "release", "bottom", 1)
  BY Lies
<1>6. m = "ws" => Still(m, n, "acceptEx", "bottom", "disconnect", "release", "bottom", 0)
  BY Lies
<1>7. m # "ws" => Still(m, n, "accepted", "bottom", "onConnect", "bottom", "bottom", 0)
  BY Lies
<1>8. m # "ws" => Still(m, n, "acceptFailed", "bottom", "onConnect", "bottom", "bottom", 0)
  BY Lies
<1>9. Still(m, n, "accepted", "bottom", "disconnect", "bottom", "bottom", 0)
  BY Lies
<1>10. Still(m, n, "acceptFailed", "bottom", "disconnect", "bottom", "bottom", 0)
  BY Lies
<1>11. m = "ws" => Still(m, n, "accepted", "bottom", "onConnectWs", "handshake", "bottom", 0)
  BY Lies
<1>12. m = "ws" => Still(m, n, "acceptFailed", "bottom", "onConnectWs", "handshake", "bottom", 0)
  BY Lies
<1>13. m = "ws" => Still(m, n, "onConnectWs", "bottom", "initialize", "bottom", "bottom", 0)
  BY Lies
<1>14. Still(m, n, "handshake", "bottom", "send", "ping", "bottom", 0)
  BY Lies
<1>15. Still(m, n, "handshake", "bottom", "disconnect", "bottom", "bottom", 0)
  BY Lies
<1>16. Still(m, n, "ping", "bottom", "send", "bottom", "bottom", 0)
  BY Lies
<1>17. m = "jobs" => Still(m, n, "clear", "bottom", "addDisconnect", "bottom", "bottom", 0)
  BY Lies
<1>18. Still(m, n, "makeAccept", "bottom", "addAccept", "bottom", "bottom", 1)
  BY Lies
<1>19. Still(m, n, "makeStale", "bottom", "addStale", "bottom", "bottom", 1)
  BY Lies
<1>20. Still(m, n, "makeRecv", "bottom", "addRecv", "bottom", "bottom", 1)
  BY Lies
<1>21. Still(m, n, "makeRecv", "recv", "disconnect", "bottom", "bottom", 0)
  BY Lies
<1> HIDE DEF Still
<1> QED
  BY <1>1, <1>2, <1>3, <1>4, <1>5, <1>6, <1>7, <1>8, <1>9, <1>10, <1>11, <1>12, <1>13, <1>14, <1>15, <1>16, <1>17, <1>18, <1>19, <1>20, <1>21

LEMMA StackTyped == IInv => stack \in [Threads -> Seq(Steps)]
  BY DEF IInv, StackInv

LEMMA Named ==
    /\ "initialize" \in Steps /\ "release" \in Steps /\ "disconnect" \in Steps /\ "hold" \in Steps
    /\ "cancel" \in Steps /\ "onConnectWs" \in Steps /\ "handshake" \in Steps /\ "send" \in Steps
    /\ "ping" \in Steps /\ "close" \in Steps /\ "open" \in Steps /\ "onConnected" \in Steps
    /\ "recv" \in Steps /\ "wsaRecv" \in Steps
  BY DEF Steps, Handling, Calls, Opening, Others

LEMMA KeptType ==
    ASSUME SlotAssumption, IInv
    PROVE  Kept \in Nat /\ Reserved \in Nat /\ refs \in Nat /\ refs = Kept + Reserved
<1>1. TypeInv /\ StackInv /\ QueueInv /\ CountInv
  BY DEF IInv
<1>2. Outstanding \in Nat /\ Occurs(Owning, Waiting) \in Nat
  BY <1>1, OutstandingType, WaitingType DEF TypeInv
<1>3. FiniteThreads /\ stack \in [Threads -> Seq(Steps)]
  BY Finite, StackTyped
<1>4. \A t \in Threads : Balances[t] \in Nat
  BY <1>1, BalancesType
<1>5. Total(Balances) \in Nat
  BY <1>3, <1>4, TotalType
<1>6. Left({"acceptEx"}) \in Nat
  BY <1>3, LeftType
<1>7. Kept \in Nat
  BY <1>2, <1>5 DEF Kept
<1>8. Reserved \in Nat
  BY <1>6 DEF Reserved
<1> QED
  BY <1>1, <1>7, <1>8 DEF CountInv

LEMMA StillMoveTakes ==
    ASSUME SlotAssumption, IInv, TypeInv', NEW t \in Threads, NEW h, NEW k, NEW a, NEW b, NEW c, NEW d,
           Moves(t, h, k, a, b, c), Still(mode, calls # 0, h, k, a, b, c, d), refs' = refs + d,
           \A x \in Kinds : Count(x)' = Count(x), UNCHANGED <<listed, told, sending, jobs, mode, calls>>
    PROVE  IInv'
<1>1. Ordinary(t, h, k, a, b, c, d)
  BY DEF Ordinary, Still, Table
<1> QED
  BY <1>1, StillKeeps DEF Still

LEMMA StillMove ==
    ASSUME SlotAssumption, IInv, TypeInv', NEW t \in Threads, NEW h, NEW k, NEW a, NEW b, NEW c,
           Moves(t, h, k, a, b, c), Still(mode, calls # 0, h, k, a, b, c, 0), refs' = refs,
           \A x \in Kinds : Count(x)' = Count(x), UNCHANGED <<listed, told, sending, jobs, mode, calls>>
    PROVE  IInv'
<1>1. refs' = refs + 0
  BY KeptType
<1> QED
  BY <1>1, StillMoveTakes

LEMMA ClearKeeps ==
    ASSUME SlotAssumption, IInv, TypeInv', NEW t \in Threads, UNCHANGED <<jobs, mode>>, Clear(t)
    PROVE  IInv'
<1>1. At(t, "clear") /\ Then(t, <<"delSession">>)
  BY SlotAssumption DEF Clear, SlotAssumption
<1>2. Moves(t, "clear", "bottom", "delSession", "bottom", "bottom")
  BY <1>1, StackTyped, ThenOne
<1>3. refs' = refs /\ io' = io /\ UNCHANGED <<listed, told, sending, calls>>
  BY DEF Clear
<1>4. Still(mode, calls # 0, "clear", "bottom", "delSession", "bottom", "bottom", 0)
  BY CoreStill
<1> QED
  BY <1>2, <1>3, <1>4, SameCounts, StillMove

LEMMA OnConnectKeeps ==
    ASSUME SlotAssumption, IInv, TypeInv', NEW t \in Threads, UNCHANGED <<jobs, mode>>, OnConnect(t)
    PROVE  IInv'
<1>1. At(t, "onConnect") /\ Then(t, <<"initialize", "release">>)
  BY SlotAssumption DEF OnConnect, SlotAssumption
<1>2. Moves(t, "onConnect", "bottom", "initialize", "release", "bottom")
  BY <1>1, StackTyped, Named, ThenTwo
<1>3. refs' = refs + 1 /\ io' = io /\ UNCHANGED <<listed, told, sending, calls>>
  BY DEF OnConnect, Reference
<1>4. Still(mode, calls # 0, "onConnect", "bottom", "initialize", "release", "bottom", 1)
  BY CoreStill
<1> QED
  BY <1>2, <1>3, <1>4, SameCounts, StillMoveTakes

LEMMA InitializeFailsKeeps ==
    ASSUME SlotAssumption, IInv, TypeInv', NEW t \in Threads, UNCHANGED <<jobs, mode>>, InitializeFails(t)
    PROVE  IInv'
<1>1. At(t, "initialize") /\ Then(t, <<"disconnect">>)
  BY SlotAssumption DEF InitializeFails, SlotAssumption
<1>2. Moves(t, "initialize", "bottom", "disconnect", "bottom", "bottom")
  BY <1>1, StackTyped, ThenOne
<1>3. refs' = refs /\ io' = io /\ UNCHANGED <<listed, told, sending, calls>>
  BY DEF InitializeFails
<1>4. Still(mode, calls # 0, "initialize", "bottom", "disconnect", "bottom", "bottom", 0)
  BY CoreStill
<1> QED
  BY <1>2, <1>3, <1>4, SameCounts, StillMove

LEMMA AddSessionFailsKeeps ==
    ASSUME SlotAssumption, IInv, TypeInv', NEW t \in Threads, UNCHANGED <<jobs, mode>>, AddSessionFails(t)
    PROVE  IInv'
<1>1. At(t, "addSession") /\ Then(t, <<"disconnect">>)
  BY SlotAssumption DEF AddSessionFails, SlotAssumption
<1>2. Moves(t, "addSession", "bottom", "disconnect", "bottom", "bottom")
  BY <1>1, StackTyped, ThenOne
<1>3. refs' = refs /\ io' = io /\ UNCHANGED <<listed, told, sending, calls>>
  BY DEF AddSessionFails
<1>4. Still(mode, calls # 0, "addSession", "bottom", "disconnect", "bottom", "bottom", 0)
  BY CoreStill
<1> QED
  BY <1>2, <1>3, <1>4, SameCounts, StillMove

LEMMA RecvKeeps ==
    ASSUME SlotAssumption, IInv, TypeInv', NEW t \in Threads, UNCHANGED <<jobs, mode>>, Recv(t)
    PROVE  IInv'
<1>1. CASE flag
  <2>1. At(t, "recv") /\ Then(t, <<>>)
    BY <1>1, SlotAssumption DEF Recv, SlotAssumption
  <2>2. Moves(t, "recv", "bottom", "bottom", "bottom", "bottom")
    BY <2>1, StackTyped, ThenNone
  <2>3. refs' = refs /\ io' = io /\ UNCHANGED <<listed, told, sending, calls>>
    BY <1>1 DEF Recv
  <2>4. Still(mode, calls # 0, "recv", "bottom", "bottom", "bottom", "bottom", 0)
    BY CoreStill
  <2> QED
    BY <2>2, <2>3, <2>4, SameCounts, StillMove
<1>2. CASE ~flag
  <2>1. At(t, "recv") /\ Then(t, <<"wsaRecv">>)
    BY <1>2, SlotAssumption DEF Recv, SlotAssumption
  <2>2. Moves(t, "recv", "bottom", "wsaRecv", "bottom", "bottom")
    BY <2>1, StackTyped, ThenOne
  <2>3. refs' = refs /\ io' = io /\ UNCHANGED <<listed, told, sending, calls>>
    BY <1>2 DEF Recv
  <2>4. Still(mode, calls # 0, "recv", "bottom", "wsaRecv", "bottom", "bottom", 0)
    BY CoreStill
  <2> QED
    BY <2>2, <2>3, <2>4, SameCounts, StillMove
<1> QED
  BY <1>1, <1>2

LEMMA WsaRecvFailsKeeps ==
    ASSUME SlotAssumption, IInv, TypeInv', NEW t \in Threads, UNCHANGED <<jobs, mode>>, WsaRecvFails(t)
    PROVE  IInv'
<1>1. At(t, "wsaRecv") /\ Then(t, <<"disconnect", "release">>)
  BY SlotAssumption DEF WsaRecvFails, SlotAssumption
<1>2. Moves(t, "wsaRecv", "bottom", "disconnect", "release", "bottom")
  BY <1>1, StackTyped, Named, ThenTwo
<1>3. refs' = refs + 1 /\ io' = io /\ UNCHANGED <<listed, told, sending, calls>>
  BY DEF WsaRecvFails, Reference
<1>4. Still(mode, calls # 0, "wsaRecv", "bottom", "disconnect", "release", "bottom", 1)
  BY CoreStill
<1> QED
  BY <1>2, <1>3, <1>4, SameCounts, StillMoveTakes

LEMMA SendBehindKeeps ==
    ASSUME SlotAssumption, IInv, TypeInv', NEW t \in Threads, UNCHANGED <<jobs, mode>>, SendBehind(t)
    PROVE  IInv'
<1>1. At(t, "send") /\ Then(t, <<>>)
  BY SlotAssumption DEF SendBehind, SlotAssumption
<1>2. Moves(t, "send", "bottom", "bottom", "bottom", "bottom")
  BY <1>1, StackTyped, ThenNone
<1>3. refs' = refs /\ io' = io /\ UNCHANGED <<listed, told, sending, calls>>
  BY DEF SendBehind
<1>4. Still(mode, calls # 0, "send", "bottom", "bottom", "bottom", "bottom", 0)
  BY CoreStill
<1> QED
  BY <1>2, <1>3, <1>4, SameCounts, StillMove

LEMMA WsaSendFailsKeeps ==
    ASSUME SlotAssumption, IInv, TypeInv', NEW t \in Threads, UNCHANGED <<jobs, mode>>, WsaSendFails(t)
    PROVE  IInv'
<1>1. At(t, "wsaSend") /\ Then(t, <<"disconnect", "release">>)
  BY SlotAssumption DEF WsaSendFails, SlotAssumption
<1>2. Moves(t, "wsaSend", "bottom", "disconnect", "release", "bottom")
  BY <1>1, StackTyped, Named, ThenTwo
<1>3. refs' = refs + 1 /\ io' = io /\ UNCHANGED <<listed, told, sending, calls>>
  BY DEF WsaSendFails, Reference
<1>4. Still(mode, calls # 0, "wsaSend", "bottom", "disconnect", "release", "bottom", 1)
  BY CoreStill
<1> QED
  BY <1>2, <1>3, <1>4, SameCounts, StillMoveTakes

LEMMA DisconnectKeeps ==
    ASSUME SlotAssumption, IInv, TypeInv', NEW t \in Threads, UNCHANGED <<jobs, mode>>, Disconnect(t)
    PROVE  IInv'
<1>1. At(t, "disconnect") /\ Then(t, <<"isValid">>)
  BY SlotAssumption DEF Disconnect, SlotAssumption
<1>2. Moves(t, "disconnect", "bottom", "isValid", "bottom", "bottom")
  BY <1>1, StackTyped, ThenOne
<1>3. refs' = refs /\ io' = io /\ UNCHANGED <<listed, told, sending, calls>>
  BY DEF Disconnect
<1>4. Still(mode, calls # 0, "disconnect", "bottom", "isValid", "bottom", "bottom", 0)
  BY CoreStill
<1> QED
  BY <1>2, <1>3, <1>4, SameCounts, StillMove

LEMMA IsValidKeeps ==
    ASSUME SlotAssumption, IInv, TypeInv', NEW t \in Threads, UNCHANGED <<jobs, mode>>, IsValid(t)
    PROVE  IInv'
<1>1. CASE sock = "none"
  <2>1. At(t, "isValid") /\ Then(t, <<>>)
    BY <1>1, SlotAssumption DEF IsValid, SlotAssumption
  <2>2. Moves(t, "isValid", "bottom", "bottom", "bottom", "bottom")
    BY <2>1, StackTyped, ThenNone
  <2>3. refs' = refs /\ io' = io /\ UNCHANGED <<listed, told, sending, calls>>
    BY <1>1 DEF IsValid
  <2>4. Still(mode, calls # 0, "isValid", "bottom", "bottom", "bottom", "bottom", 0)
    BY CoreStill
  <2> QED
    BY <2>2, <2>3, <2>4, SameCounts, StillMove
<1>2. CASE sock # "none"
  <2>1. At(t, "isValid") /\ Then(t, <<"hold", "cancel", "release">>)
    BY <1>2, SlotAssumption DEF IsValid, SlotAssumption
  <2>2. Moves(t, "isValid", "bottom", "hold", "cancel", "release")
    BY <2>1, StackTyped, Named, ThenThree
  <2>3. refs' = refs /\ io' = io /\ UNCHANGED <<listed, told, sending, calls>>
    BY <1>2 DEF IsValid
  <2>4. Still(mode, calls # 0, "isValid", "bottom", "hold", "cancel", "release", 0)
    BY CoreStill
  <2> QED
    BY <2>2, <2>3, <2>4, SameCounts, StillMove
<1> QED
  BY <1>1, <1>2

LEMMA HoldKeeps ==
    ASSUME SlotAssumption, IInv, TypeInv', NEW t \in Threads, UNCHANGED <<jobs, mode>>, Hold(t)
    PROVE  IInv'
<1>1. At(t, "hold") /\ Then(t, <<>>)
  BY SlotAssumption DEF Hold, SlotAssumption
<1>2. Moves(t, "hold", "bottom", "bottom", "bottom", "bottom")
  BY <1>1, StackTyped, ThenNone
<1>3. refs' = refs + 1 /\ io' = io /\ UNCHANGED <<listed, told, sending, calls>>
  BY DEF Hold, Reference
<1>4. Still(mode, calls # 0, "hold", "bottom", "bottom", "bottom", "bottom", 1)
  BY CoreStill
<1> QED
  BY <1>2, <1>3, <1>4, SameCounts, StillMoveTakes

LEMMA AbortedSame ==
    ASSUME IInv, NEW ks, io' = Aborted(ks)
    PROVE  \A x \in Kinds : Count(x)' = Count(x)
  BY AbortedCounts DEF IInv, TypeInv, IoType

\* What lies under the step on top.
LEMMA Below ==
    ASSUME IInv, NEW t \in Threads, NEW x, At(t, x)
    PROVE  /\ stack[t] # <<>> /\ Head(stack[t]) = x /\ Top(stack[t]) = x
           /\ x \in Steps /\ Good(Table, stack[t]) /\ Good(Table, Tail(stack[t]))
           /\ Top(Tail(stack[t])) \in Table[x]
           /\ "bottom" \notin Table[x] => Tail(stack[t]) # <<>>
<1>1. stack[t] # <<>> /\ Head(stack[t]) = x /\ Good(Table, stack[t])
  BY DEF IInv, StackInv, At
<1>2. Head(stack[t]) \in DOMAIN Table /\ Good(Table, Tail(stack[t])) /\ Top(Tail(stack[t])) \in Table[x]
  BY <1>1, GoodTail
<1>3. DOMAIN Table = Steps
  BY LiesDomain DEF Table
<1>4. "bottom" \notin Table[x] => Tail(stack[t]) # <<>>
  BY <1>2 DEF Top
<1> QED
  BY <1>1, <1>2, <1>3, <1>4 DEF Top

LEMMA CloseKeeps ==
    ASSUME SlotAssumption, IInv, TypeInv', NEW t \in Threads, UNCHANGED <<jobs, mode>>, Close(t)
    PROVE  IInv'
<1>1. At(t, "close") /\ Then(t, <<>>)
  BY SlotAssumption DEF Close, SlotAssumption
<1>2. Moves(t, "close", "bottom", "bottom", "bottom", "bottom")
  BY <1>1, StackTyped, ThenNone
<1>3. refs' = refs /\ io' = Aborted(Kinds) /\ UNCHANGED <<listed, told, sending, calls>>
  BY DEF Close
<1>4. Still(mode, calls # 0, "close", "bottom", "bottom", "bottom", "bottom", 0)
  BY CoreStill
<1> QED
  BY <1>2, <1>3, <1>4, AbortedSame, StillMove

LEMMA CancelKeeps ==
    ASSUME SlotAssumption, IInv, TypeInv', NEW t \in Threads, UNCHANGED <<jobs, mode>>, Cancel(t)
    PROVE  IInv'
<1>1. At(t, "cancel") /\ Then(t, <<>>)
  BY SlotAssumption DEF Cancel, SlotAssumption
<1>2. Moves(t, "cancel", "bottom", "bottom", "bottom", "bottom")
  BY <1>1, StackTyped, ThenNone
<1>3. refs' = refs /\ io' = Aborted({"recv", "send"}) /\ UNCHANGED <<listed, told, sending, calls>>
  BY DEF Cancel
<1>4. Still(mode, calls # 0, "cancel", "bottom", "bottom", "bottom", "bottom", 0)
  BY CoreStill
<1> QED
  BY <1>2, <1>3, <1>4, AbortedSame, StillMove

LEMMA MessageKeeps ==
    ASSUME SlotAssumption, IInv, TypeInv', NEW t \in Threads, UNCHANGED <<jobs, mode>>, Message(t)
    PROVE  IInv'
<1>0. PICK cb \in {<<>>, <<"send">>, <<"disconnect">>} : At(t, "message") /\ Then(t, cb)
  BY SlotAssumption DEF SlotAssumption, Message, Callback
<1>1. CASE cb = <<>>
  <2>1. At(t, "message") /\ Then(t, <<>>)
    BY <1>0, <1>1
  <2>2. Moves(t, "message", "bottom", "bottom", "bottom", "bottom")
    BY <2>1, StackTyped, ThenNone
  <2>3. refs' = refs /\ io' = io /\ UNCHANGED <<listed, told, sending, calls>>
    BY <1>1 DEF Message
  <2>4. Still(mode, calls # 0, "message", "bottom", "bottom", "bottom", "bottom", 0)
    BY <1>1, CoreStill
  <2> QED
    BY <2>2, <2>3, <2>4, SameCounts, StillMove
<1>2. CASE cb = <<"send">>
  <2>1. At(t, "message") /\ Then(t, <<"send">>)
    BY <1>0, <1>2
  <2>2. Moves(t, "message", "bottom", "send", "bottom", "bottom")
    BY <2>1, StackTyped, ThenOne
  <2>3. refs' = refs /\ io' = io /\ UNCHANGED <<listed, told, sending, calls>>
    BY <1>2 DEF Message
  <2>4. Still(mode, calls # 0, "message", "bottom", "send", "bottom", "bottom", 0)
    BY <1>2, CoreStill
  <2> QED
    BY <2>2, <2>3, <2>4, SameCounts, StillMove
<1>3. CASE cb = <<"disconnect">>
  <2>1. At(t, "message") /\ Then(t, <<"disconnect">>)
    BY <1>0, <1>3
  <2>2. Moves(t, "message", "bottom", "disconnect", "bottom", "bottom")
    BY <2>1, StackTyped, ThenOne
  <2>3. refs' = refs /\ io' = io /\ UNCHANGED <<listed, told, sending, calls>>
    BY <1>3 DEF Message
  <2>4. Still(mode, calls # 0, "message", "bottom", "disconnect", "bottom", "bottom", 0)
    BY <1>3, CoreStill
  <2> QED
    BY <2>2, <2>3, <2>4, SameCounts, StillMove
<1> QED
  BY <1>0, <1>1, <1>2, <1>3

\* A message or bytes that are refused: Disconnect instead of what comes next.
LEMMA SkipKeeps ==
    ASSUME SlotAssumption, IInv, TypeInv', NEW t \in Threads, UNCHANGED <<jobs, mode, refs, io, listed, told, sending, calls>>,
           NEW x, NEW k, <<x, k>> \in {<<"message", "recv">>, <<"message", "wsaRecv">>, <<"makeRecv", "recv">>},
           At(t, x), ThenSkip(t, k, <<"disconnect">>)
    PROVE  IInv'
<1>1. x \in {"message", "makeRecv"} /\ k \in {"recv", "wsaRecv"}
  OBVIOUS
<1>2. Tail(stack[t]) # <<>>
  <2>1. "bottom" \notin Table[x]
    BY <1>1, Lies DEF Table
  <2> QED
    BY <2>1, Below
<1>3. Moves(t, x, k, "disconnect", "bottom", "bottom")
  BY <1>1, <1>2, StackTyped, ThenSkipOne
<1>4. Still(mode, calls # 0, x, k, "disconnect", "bottom", "bottom", 0)
  BY CoreStill, OwnStill
<1> QED
  BY <1>3, <1>4, SameCounts, StillMove

LEMMA OpenOkKeeps ==
    ASSUME SlotAssumption, IInv, TypeInv', NEW t \in Threads, UNCHANGED <<jobs, mode>>, mode # "ws", OpenOk(t)
    PROVE  IInv'
<1>1. At(t, "open") /\ Then(t, <<"acceptEx">>)
  BY SlotAssumption DEF OpenOk, Opened, SlotAssumption
<1>2. Moves(t, "open", "bottom", "acceptEx", "bottom", "bottom")
  BY <1>1, StackTyped, ThenOne
<1>3. refs' = refs /\ io' = Aborted(Kinds) /\ UNCHANGED <<listed, told, sending, calls>>
  BY DEF OpenOk, Opened
<1>4. Still(mode, calls # 0, "open", "bottom", "acceptEx", "bottom", "bottom", 0)
  BY OwnStill
<1> QED
  BY <1>2, <1>3, <1>4, AbortedSame, StillMove

LEMMA OpenFailsKeeps ==
    ASSUME SlotAssumption, IInv, TypeInv', NEW t \in Threads, UNCHANGED <<jobs, mode>>, mode # "ws", OpenFails(t)
    PROVE  IInv'
<1>1. At(t, "open") /\ Then(t, <<"disconnect">>)
  BY SlotAssumption DEF OpenFails, OpenFailed, SlotAssumption
<1>2. Moves(t, "open", "bottom", "disconnect", "bottom", "bottom")
  BY <1>1, StackTyped, ThenOne
<1>3. refs' = refs /\ io' = Aborted(Kinds) /\ UNCHANGED <<listed, told, sending, calls>>
  BY DEF OpenFails, OpenFailed
<1>4. Still(mode, calls # 0, "open", "bottom", "disconnect", "bottom", "bottom", 0)
  BY OwnStill
<1> QED
  BY <1>2, <1>3, <1>4, AbortedSame, StillMove

LEMMA AcceptExFailsKeeps ==
    ASSUME SlotAssumption, IInv, TypeInv', NEW t \in Threads, UNCHANGED <<jobs, mode>>, mode # "ws", AcceptExFails(t)
    PROVE  IInv'
<1>1. At(t, "acceptEx") /\ Then(t, <<"disconnect", "release">>)
  BY SlotAssumption DEF AcceptExFails, SlotAssumption
<1>2. Moves(t, "acceptEx", "bottom", "disconnect", "release", "bottom")
  BY <1>1, StackTyped, Named, ThenTwo
<1>3. refs' = refs + 1 /\ io' = io /\ UNCHANGED <<listed, told, sending, calls>>
  BY DEF AcceptExFails, Reference
<1>4. Still(mode, calls # 0, "acceptEx", "bottom", "disconnect", "release", "bottom", 1)
  BY OwnStill
<1> QED
  BY <1>2, <1>3, <1>4, SameCounts, StillMoveTakes

LEMMA AcceptedOkKeeps ==
    ASSUME SlotAssumption, IInv, TypeInv', NEW t \in Threads, UNCHANGED <<jobs, mode>>, mode # "ws", AcceptedOk(t)
    PROVE  IInv'
<1>1. At(t, "accepted") /\ Then(t, <<"onConnect">>)
  BY SlotAssumption DEF AcceptedOk, SlotAssumption
<1>2. Moves(t, "accepted", "bottom", "onConnect", "bottom", "bottom")
  BY <1>1, StackTyped, ThenOne
<1>3. refs' = refs /\ io' = io /\ UNCHANGED <<listed, told, sending, calls>>
  BY DEF AcceptedOk
<1>4. Still(mode, calls # 0, "accepted", "bottom", "onConnect", "bottom", "bottom", 0)
  BY OwnStill
<1> QED
  BY <1>2, <1>3, <1>4, SameCounts, StillMove

LEMMA AcceptedFailsKeeps ==
    ASSUME SlotAssumption, IInv, TypeInv', NEW t \in Threads, UNCHANGED <<jobs, mode>>, mode # "ws", AcceptedFails(t)
    PROVE  IInv'
<1>1. CASE At(t, "accepted")
  <2>1. At(t, "accepted") /\ Then(t, <<"disconnect">>)
    BY <1>1, SlotAssumption DEF AcceptedFails, SlotAssumption
  <2>2. Moves(t, "accepted", "bottom", "disconnect", "bottom", "bottom")
    BY <2>1, StackTyped, ThenOne
  <2>3. refs' = refs /\ io' = io /\ UNCHANGED <<listed, told, sending, calls>>
    BY <1>1 DEF AcceptedFails
  <2>4. Still(mode, calls # 0, "accepted", "bottom", "disconnect", "bottom", "bottom", 0)
    BY <1>1, OwnStill
  <2> QED
    BY <2>2, <2>3, <2>4, SameCounts, StillMove
<1>2. CASE ~At(t, "accepted")
  <2>1. At(t, "acceptFailed") /\ Then(t, <<"disconnect">>)
    BY <1>2, SlotAssumption DEF AcceptedFails, SlotAssumption
  <2>2. Moves(t, "acceptFailed", "bottom", "disconnect", "bottom", "bottom")
    BY <2>1, StackTyped, ThenOne
  <2>3. refs' = refs /\ io' = io /\ UNCHANGED <<listed, told, sending, calls>>
    BY <1>2 DEF AcceptedFails
  <2>4. Still(mode, calls # 0, "acceptFailed", "bottom", "disconnect", "bottom", "bottom", 0)
    BY <1>2, OwnStill
  <2> QED
    BY <2>2, <2>3, <2>4, SameCounts, StillMove
<1> QED
  BY <1>1, <1>2 DEF AcceptedFails

LEMMA AcceptedStaleKeeps ==
    ASSUME SlotAssumption, IInv, TypeInv', NEW t \in Threads, UNCHANGED <<jobs, mode>>, mode # "ws", AcceptedStale(t)
    PROVE  IInv'
<1>1. At(t, "acceptFailed") /\ Then(t, <<"onConnect">>)
  BY SlotAssumption DEF AcceptedStale, SlotAssumption
<1>2. Moves(t, "acceptFailed", "bottom", "onConnect", "bottom", "bottom")
  BY <1>1, StackTyped, ThenOne
<1>3. refs' = refs /\ io' = io /\ UNCHANGED <<listed, told, sending, calls>>
  BY DEF AcceptedStale
<1>4. Still(mode, calls # 0, "acceptFailed", "bottom", "onConnect", "bottom", "bottom", 0)
  BY OwnStill
<1> QED
  BY <1>2, <1>3, <1>4, SameCounts, StillMove

LEMMA WsOpenOkKeeps ==
    ASSUME SlotAssumption, IInv, TypeInv', NEW t \in Threads, UNCHANGED <<jobs, mode>>, mode = "ws", W!OpenOk(t)
    PROVE  IInv'
<1>1. At(t, "open") /\ Then(t, <<"acceptEx">>)
  BY SlotAssumption DEF W!OpenOk, W!At, W!Then, At, Then, W!Reference, Reference, W!Opened, W!Aborted, Aborted, W!Kinds, Kinds, SlotAssumption
<1>2. Moves(t, "open", "bottom", "acceptEx", "bottom", "bottom")
  BY <1>1, StackTyped, ThenOne
<1>3. refs' = refs + 1 /\ io' = Aborted(Kinds) /\ UNCHANGED <<listed, told, sending, calls>>
  BY DEF W!OpenOk, W!At, W!Then, At, Then, W!Reference, Reference, W!Opened, W!Aborted, Aborted, W!Kinds, Kinds
<1>4. Still(mode, calls # 0, "open", "bottom", "acceptEx", "bottom", "bottom", 1)
  BY OwnStill
<1> QED
  BY <1>2, <1>3, <1>4, AbortedSame, StillMoveTakes

LEMMA WsOpenFailsKeeps ==
    ASSUME SlotAssumption, IInv, TypeInv', NEW t \in Threads, UNCHANGED <<jobs, mode>>, mode = "ws", W!OpenFails(t)
    PROVE  IInv'
<1>1. At(t, "open") /\ Then(t, <<"disconnect", "release">>)
  BY SlotAssumption DEF W!OpenFails, W!At, W!Then, At, Then, W!Reference, Reference, W!OpenFailed, W!Aborted, Aborted, W!Kinds, Kinds, SlotAssumption
<1>2. Moves(t, "open", "bottom", "disconnect", "release", "bottom")
  BY <1>1, StackTyped, Named, ThenTwo
<1>3. refs' = refs + 1 /\ io' = Aborted(Kinds) /\ UNCHANGED <<listed, told, sending, calls>>
  BY DEF W!OpenFails, W!At, W!Then, At, Then, W!Reference, Reference, W!OpenFailed, W!Aborted, Aborted, W!Kinds, Kinds
<1>4. Still(mode, calls # 0, "open", "bottom", "disconnect", "release", "bottom", 1)
  BY OwnStill
<1> QED
  BY <1>2, <1>3, <1>4, AbortedSame, StillMoveTakes

LEMMA WsAcceptExFailsKeeps ==
    ASSUME SlotAssumption, IInv, TypeInv', NEW t \in Threads, UNCHANGED <<jobs, mode>>, mode = "ws", W!AcceptExFails(t)
    PROVE  IInv'
<1>1. At(t, "acceptEx") /\ Then(t, <<"disconnect", "release">>)
  BY SlotAssumption DEF W!AcceptExFails, W!At, W!Then, At, Then, W!Reference, Reference, SlotAssumption
<1>2. Moves(t, "acceptEx", "bottom", "disconnect", "release", "bottom")
  BY <1>1, StackTyped, Named, ThenTwo
<1>3. refs' = refs /\ io' = io /\ UNCHANGED <<listed, told, sending, calls>>
  BY DEF W!AcceptExFails, W!At, W!Then, At, Then, W!Reference, Reference
<1>4. Still(mode, calls # 0, "acceptEx", "bottom", "disconnect", "release", "bottom", 0)
  BY OwnStill
<1> QED
  BY <1>2, <1>3, <1>4, SameCounts, StillMove

LEMMA WsAddressedKeeps ==
    ASSUME SlotAssumption, IInv, TypeInv', NEW t \in Threads, UNCHANGED <<jobs, mode>>, mode = "ws", W!Addressed(t)
    PROVE  IInv'
<1>1. CASE At(t, "accepted")
  <2>1. At(t, "accepted") /\ Then(t, <<"onConnectWs", "handshake">>)
    BY <1>1, SlotAssumption DEF W!Addressed, W!At, W!Then, At, Then, W!Reference, Reference, SlotAssumption
  <2>2. Moves(t, "accepted", "bottom", "onConnectWs", "handshake", "bottom")
    BY <2>1, StackTyped, Named, ThenTwo
  <2>3. refs' = refs /\ io' = io /\ UNCHANGED <<listed, told, sending, calls>>
    BY <1>1 DEF W!Addressed, W!At, W!Then, At, Then, W!Reference, Reference
  <2>4. Still(mode, calls # 0, "accepted", "bottom", "onConnectWs", "handshake", "bottom", 0)
    BY <1>1, OwnStill
  <2> QED
    BY <2>2, <2>3, <2>4, SameCounts, StillMove
<1>2. CASE ~At(t, "accepted")
  <2>1. At(t, "acceptFailed") /\ Then(t, <<"onConnectWs", "handshake">>)
    BY <1>2, SlotAssumption DEF W!Addressed, W!At, W!Then, At, Then, W!Reference, Reference, SlotAssumption
  <2>2. Moves(t, "acceptFailed", "bottom", "onConnectWs", "handshake", "bottom")
    BY <2>1, StackTyped, Named, ThenTwo
  <2>3. refs' = refs /\ io' = io /\ UNCHANGED <<listed, told, sending, calls>>
    BY <1>2 DEF W!Addressed, W!At, W!Then, At, Then, W!Reference, Reference
  <2>4. Still(mode, calls # 0, "acceptFailed", "bottom", "onConnectWs", "handshake", "bottom", 0)
    BY <1>2, OwnStill
  <2> QED
    BY <2>2, <2>3, <2>4, SameCounts, StillMove
<1> QED
  BY <1>1, <1>2 DEF W!Addressed, W!At, W!Then, At, Then, W!Reference, Reference

LEMMA WsAddressFailsKeeps ==
    ASSUME SlotAssumption, IInv, TypeInv', NEW t \in Threads, UNCHANGED <<jobs, mode>>, mode = "ws", W!AddressFails(t)
    PROVE  IInv'
<1>1. CASE At(t, "accepted")
  <2>1. At(t, "accepted") /\ Then(t, <<"disconnect">>)
    BY <1>1, SlotAssumption DEF W!AddressFails, W!At, W!Then, At, Then, W!Reference, Reference, SlotAssumption
  <2>2. Moves(t, "accepted", "bottom", "disconnect", "bottom", "bottom")
    BY <2>1, StackTyped, ThenOne
  <2>3. refs' = refs /\ io' = io /\ UNCHANGED <<listed, told, sending, calls>>
    BY <1>1 DEF W!AddressFails, W!At, W!Then, At, Then, W!Reference, Reference
  <2>4. Still(mode, calls # 0, "accepted", "bottom", "disconnect", "bottom", "bottom", 0)
    BY <1>1, OwnStill
  <2> QED
    BY <2>2, <2>3, <2>4, SameCounts, StillMove
<1>2. CASE ~At(t, "accepted")
  <2>1. At(t, "acceptFailed") /\ Then(t, <<"disconnect">>)
    BY <1>2, SlotAssumption DEF W!AddressFails, W!At, W!Then, At, Then, W!Reference, Reference, SlotAssumption
  <2>2. Moves(t, "acceptFailed", "bottom", "disconnect", "bottom", "bottom")
    BY <2>1, StackTyped, ThenOne
  <2>3. refs' = refs /\ io' = io /\ UNCHANGED <<listed, told, sending, calls>>
    BY <1>2 DEF W!AddressFails, W!At, W!Then, At, Then, W!Reference, Reference
  <2>4. Still(mode, calls # 0, "acceptFailed", "bottom", "disconnect", "bottom", "bottom", 0)
    BY <1>2, OwnStill
  <2> QED
    BY <2>2, <2>3, <2>4, SameCounts, StillMove
<1> QED
  BY <1>1, <1>2 DEF W!AddressFails, W!At, W!Then, At, Then, W!Reference, Reference

LEMMA WsOnConnectKeeps ==
    ASSUME SlotAssumption, IInv, TypeInv', NEW t \in Threads, UNCHANGED <<jobs, mode>>, mode = "ws", W!OnConnectWs(t)
    PROVE  IInv'
<1>1. At(t, "onConnectWs") /\ Then(t, <<"initialize">>)
  BY SlotAssumption DEF W!OnConnectWs, W!At, W!Then, At, Then, W!Reference, Reference, SlotAssumption
<1>2. Moves(t, "onConnectWs", "bottom", "initialize", "bottom", "bottom")
  BY <1>1, StackTyped, ThenOne
<1>3. refs' = refs /\ io' = io /\ UNCHANGED <<listed, told, sending, calls>>
  BY DEF W!OnConnectWs, W!At, W!Then, At, Then, W!Reference, Reference
<1>4. Still(mode, calls # 0, "onConnectWs", "bottom", "initialize", "bottom", "bottom", 0)
  BY OwnStill
<1> QED
  BY <1>2, <1>3, <1>4, SameCounts, StillMove

LEMMA WsHandshakeOkKeeps ==
    ASSUME SlotAssumption, IInv, TypeInv', NEW t \in Threads, UNCHANGED <<jobs, mode>>, mode = "ws", W!HandshakeOk(t)
    PROVE  IInv'
<1>1. At(t, "handshake") /\ Then(t, <<"send", "ping">>)
  BY SlotAssumption DEF W!HandshakeOk, W!At, W!Then, At, Then, W!Reference, Reference, SlotAssumption
<1>2. Moves(t, "handshake", "bottom", "send", "ping", "bottom")
  BY <1>1, StackTyped, Named, ThenTwo
<1>3. refs' = refs /\ io' = io /\ UNCHANGED <<listed, told, sending, calls>>
  BY DEF W!HandshakeOk, W!At, W!Then, At, Then, W!Reference, Reference
<1>4. Still(mode, calls # 0, "handshake", "bottom", "send", "ping", "bottom", 0)
  BY OwnStill
<1> QED
  BY <1>2, <1>3, <1>4, SameCounts, StillMove

LEMMA WsHandshakeFailsKeeps ==
    ASSUME SlotAssumption, IInv, TypeInv', NEW t \in Threads, UNCHANGED <<jobs, mode>>, mode = "ws", W!HandshakeFails(t)
    PROVE  IInv'
<1>1. At(t, "handshake") /\ Then(t, <<"disconnect">>)
  BY SlotAssumption DEF W!HandshakeFails, W!At, W!Then, At, Then, W!Reference, Reference, SlotAssumption
<1>2. Moves(t, "handshake", "bottom", "disconnect", "bottom", "bottom")
  BY <1>1, StackTyped, ThenOne
<1>3. refs' = refs /\ io' = io /\ UNCHANGED <<listed, told, sending, calls>>
  BY DEF W!HandshakeFails, W!At, W!Then, At, Then, W!Reference, Reference
<1>4. Still(mode, calls # 0, "handshake", "bottom", "disconnect", "bottom", "bottom", 0)
  BY OwnStill
<1> QED
  BY <1>2, <1>3, <1>4, SameCounts, StillMove

LEMMA WsPingKeeps ==
    ASSUME SlotAssumption, IInv, TypeInv', NEW t \in Threads, UNCHANGED <<jobs, mode>>, mode = "ws", W!Ping(t)
    PROVE  IInv'
<1>1. At(t, "ping") /\ Then(t, <<"send">>)
  BY SlotAssumption DEF W!Ping, W!At, W!Then, At, Then, W!Reference, Reference, SlotAssumption
<1>2. Moves(t, "ping", "bottom", "send", "bottom", "bottom")
  BY <1>1, StackTyped, ThenOne
<1>3. refs' = refs /\ io' = io /\ UNCHANGED <<listed, told, sending, calls>>
  BY DEF W!Ping, W!At, W!Then, At, Then, W!Reference, Reference
<1>4. Still(mode, calls # 0, "ping", "bottom", "send", "bottom", "bottom", 0)
  BY OwnStill
<1> QED
  BY <1>2, <1>3, <1>4, SameCounts, StillMove

LEMMA JobsClearKeeps ==
    ASSUME SlotAssumption, IInv, TypeInv', NEW t \in Threads, UNCHANGED <<jobs, mode>>, mode = "jobs", J!Clear(t)
    PROVE  IInv'
<1>1. At(t, "clear") /\ Then(t, <<"addDisconnect">>)
  BY SlotAssumption DEF J!Clear, J!At, J!Then, At, Then, J!Reference, Reference, SlotAssumption
<1>2. Moves(t, "clear", "bottom", "addDisconnect", "bottom", "bottom")
  BY <1>1, StackTyped, ThenOne
<1>3. refs' = refs /\ io' = io /\ UNCHANGED <<listed, told, sending, calls>>
  BY DEF J!Clear, J!At, J!Then, At, Then, J!Reference, Reference
<1>4. Still(mode, calls # 0, "clear", "bottom", "addDisconnect", "bottom", "bottom", 0)
  BY OwnStill
<1> QED
  BY <1>2, <1>3, <1>4, SameCounts, StillMove

LEMMA MakeJobKeeps ==
    ASSUME SlotAssumption, IInv, TypeInv', NEW t \in Threads, UNCHANGED <<jobs, mode>>, J!MakeJob(t)
    PROVE  IInv'
<1>1. PICK x \in {"makeAccept", "makeStale", "makeRecv"}, y \in {"addAccept", "addStale", "addRecv"} :
          /\ At(t, x) /\ Then(t, <<y>>)
          /\ <<x, y>> \in {<<"makeAccept", "addAccept">>, <<"makeStale", "addStale">>, <<"makeRecv", "addRecv">>}
  <2>1. stack[t] # <<>> /\ Head(stack[t]) \in {"makeAccept", "makeStale", "makeRecv"}
    BY DEF J!MakeJob, J!Making
  <2>2. J!Making["makeAccept"] = "addAccept" /\ J!Making["makeStale"] = "addStale" /\ J!Making["makeRecv"] = "addRecv"
    BY DEF J!Making
  <2>3. Then(t, <<J!Making[Head(stack[t])]>>)
    BY DEF J!MakeJob, J!Then, Then
  <2>4. At(t, Head(stack[t]))
    BY <2>1 DEF At
  <2> QED
    BY <2>1, <2>2, <2>3, <2>4
<1>2. Moves(t, x, "bottom", y, "bottom", "bottom")
  BY <1>1, StackTyped, ThenOne
<1>3. refs' = refs + 1 /\ io' = io /\ UNCHANGED <<listed, told, sending, calls>>
  BY DEF J!MakeJob, J!Reference
<1>4. Still(mode, calls # 0, x, "bottom", y, "bottom", "bottom", 1)
  BY <1>1, OwnStill
<1> QED
  BY <1>2, <1>3, <1>4, SameCounts, StillMoveTakes

-----------------------------------------------------------------------------
(***************************************************************************)
(* The other steps                                                         *)
(***************************************************************************)
LEMMA StackLinked ==
    ASSUME StackInv, NEW t \in Threads, NEW h, NEW k,
           NEW a \in Opt(Steps), NEW b \in Opt(Steps), NEW c \in Opt(Steps),
           Moves(t, h, k, a, b, c), Linked(Table, a, b, c, Top(Under(h, k, stack[t]))), UNCHANGED <<mode, calls>>
    PROVE  StackInv'
<1>1. PICK U : U = Table /\ U = Table'
  BY DEF Table
<1>2. /\ stack' \in [Threads -> Seq(Steps)]
      /\ stack'[t] = Turned(h, k, a, b, c, stack[t])
      /\ \A u \in Threads : u # t => stack'[u] = stack[u]
  BY MovesType DEF StackInv
<1>3. Good(U, stack[t]) /\ Has(h, k, stack[t])
  BY <1>1 DEF StackInv, Moves
<1>4. Good(U, stack'[t])
  BY <1>1, <1>2, <1>3, TurnGood
<1>5. \A u \in Threads : Good(U, stack'[u])
  BY <1>1, <1>2, <1>4 DEF StackInv
<1> QED
  BY <1>1, <1>2, <1>5 DEF StackInv

\* The numbers of QuietInv.
LEMMA NumbersType ==
    ASSUME SlotAssumption, TypeInv, StackInv, QueueInv
    PROVE  /\ \A x \in Kinds : Count(x) \in Nat
           /\ Kept \in Nat /\ Outstanding <= Kept /\ Occurs(Owning, Waiting) <= Kept
           /\ Total(Balances) <= Kept
           /\ \A P : Left(P) \in Nat /\ Occurs(P, Waiting) \in Nat
           /\ Total(Greetings) \in Nat /\ Total(Enders) \in Nat
           /\ Accepts \in Nat /\ Traffic \in Nat /\ Receives \in Nat /\ Sends \in Nat
           /\ Messages \in Nat /\ Telling \in Nat /\ Untelling \in Nat /\ Endings \in Nat
<1>1. FiniteThreads /\ stack \in [Threads -> Seq(Steps)]
  BY Finite DEF StackInv
<1>2. (\A x \in Kinds : Count(x) \in Nat) /\ Outstanding \in Nat
  BY OutstandingType DEF TypeInv
<1>3. /\ Count("accept") \in Nat /\ Count("recv") \in Nat /\ Count("send") \in Nat
  BY <1>2 DEF Kinds
<1>4. \A P : Left(P) \in Nat /\ Occurs(P, Waiting) \in Nat
  BY <1>1, LeftType, WaitingType
<1>5. \A t \in Threads : Balances[t] \in Nat /\ Greetings[t] \in Nat /\ Enders[t] \in Nat
  BY BalancesType, GreetingsType, EnderType DEF Enders
<1>6. Total(Balances) \in Nat /\ Total(Greetings) \in Nat /\ Total(Enders) \in Nat
  BY <1>1, <1>5, TotalType
<1>7. Kept \in Nat /\ Outstanding <= Kept /\ Occurs(Owning, Waiting) <= Kept /\ Total(Balances) <= Kept
  <2>1. Occurs(Owning, Waiting) \in Nat
    BY <1>4
  <2> QED
    BY <1>2, <1>6, <2>1 DEF Kept
<1>8. Accepts \in Nat /\ Traffic \in Nat
  <2>1. /\ Left(Opening) \in Nat /\ Left(Noisy) \in Nat
        /\ Occurs({"accepted", "acceptFailed"}, Waiting) \in Nat /\ Occurs({"message", "delSession"}, Waiting) \in Nat
    BY <1>4
  <2> QED
    BY <1>3, <1>6, <2>1 DEF Accepts, Traffic
<1>9. Receives \in Nat /\ Sends \in Nat /\ Messages \in Nat /\ Telling \in Nat /\ Untelling \in Nat
  BY <1>3, <1>4 DEF Receives, Sends, Messages, Telling, Untelling
<1>10. Endings \in Nat
  BY <1>4, <1>6 DEF Endings
<1> QED
  BY <1>2, <1>4, <1>6, <1>7, <1>8, <1>9, <1>10

\* How they follow a step, whatever it does to the I/O operations and to the jobs.
LEMMA OpenNumbers ==
    ASSUME SlotAssumption, TypeInv, StackInv, StackInv', QueueInv, TypeInv', QueueInv', NEW t \in Threads,
           NEW h, NEW k, NEW a \in Opt(Steps), NEW b \in Opt(Steps), NEW c \in Opt(Steps),
           Moves(t, h, k, a, b, c), mode' = mode
    PROVE  /\ Accepts \in Nat /\ Traffic \in Nat /\ Accepts' \in Nat /\ Traffic' \in Nat
           /\ Accepts' = Accepts + Count("accept")' - Count("accept") + Net(Opening, h, k, a, b, c)
                + Occurs({"accepted", "acceptFailed"}, Waiting)' - Occurs({"accepted", "acceptFailed"}, Waiting)
           /\ Traffic' = Traffic + Count("recv")' - Count("recv") + Count("send")' - Count("send")
                + Net(Noisy, h, k, a, b, c) + NetGreets(mode, h, k, a, b, c)
                + Occurs({"message", "delSession"}, Waiting)' - Occurs({"message", "delSession"}, Waiting)
           /\ Left(After) \in Nat /\ Left(After)' = Left(After) + Net(After, h, k, a, b, c)
<1>1. "bottom" \notin Opening /\ "bottom" \notin Noisy /\ "bottom" \notin After
  BY DEF Opening, Noisy, Others, After
<1>2. /\ Left(Opening) \in Nat /\ Left(Opening)' \in Nat /\ Net(Opening, h, k, a, b, c) \in Int
      /\ Left(Opening)' = Left(Opening) + Net(Opening, h, k, a, b, c)
  BY <1>1, LeftStep
<1>3. /\ Left(Noisy) \in Nat /\ Left(Noisy)' \in Nat /\ Net(Noisy, h, k, a, b, c) \in Int
      /\ Left(Noisy)' = Left(Noisy) + Net(Noisy, h, k, a, b, c)
  BY <1>1, LeftStep
<1>4. Left(After) \in Nat /\ Left(After)' = Left(After) + Net(After, h, k, a, b, c)
  BY <1>1, LeftStep
<1>5. /\ Total(Greetings) \in Nat /\ Total(Greetings)' \in Nat /\ NetGreets(mode, h, k, a, b, c) \in Int
      /\ Total(Greetings)' = Total(Greetings) + NetGreets(mode, h, k, a, b, c)
  BY GreetMoves
<1>6. /\ Occurs({"accepted", "acceptFailed"}, Waiting) \in Nat /\ Occurs({"message", "delSession"}, Waiting) \in Nat
      /\ Occurs({"accepted", "acceptFailed"}, Waiting)' \in Nat /\ Occurs({"message", "delSession"}, Waiting)' \in Nat
  <2>1. Waiting \in Seq(JobKinds) /\ Waiting' \in Seq(JobKinds)
    BY TailProperties DEF QueueInv, Waiting
  <2> QED
    BY <2>1, OccursType
<1>7. /\ Count("accept") \in Nat /\ Count("recv") \in Nat /\ Count("send") \in Nat
      /\ Count("accept")' \in Nat /\ Count("recv")' \in Nat /\ Count("send")' \in Nat
  BY DEF TypeInv, Kinds, Count
<1>8. /\ Accepts \in Nat /\ Accepts' \in Nat
      /\ Accepts' = Accepts + Count("accept")' - Count("accept") + Net(Opening, h, k, a, b, c)
           + Occurs({"accepted", "acceptFailed"}, Waiting)' - Occurs({"accepted", "acceptFailed"}, Waiting)
  BY <1>2, <1>6, <1>7 DEF Accepts
<1>9. /\ Traffic \in Nat /\ Traffic' \in Nat
      /\ Traffic' = Traffic + Count("recv")' - Count("recv") + Count("send")' - Count("send")
           + Net(Noisy, h, k, a, b, c) + NetGreets(mode, h, k, a, b, c)
           + Occurs({"message", "delSession"}, Waiting)' - Occurs({"message", "delSession"}, Waiting)
  BY <1>3, <1>5, <1>6, <1>7 DEF Traffic
<1> QED
  BY <1>4, <1>8, <1>9

LEMMA TrafficNumbers ==
    ASSUME SlotAssumption, TypeInv, StackInv, QueueInv, TypeInv', QueueInv', NEW t \in Threads,
           NEW h, NEW k, NEW a \in Opt(Steps), NEW b \in Opt(Steps), NEW c \in Opt(Steps),
           Moves(t, h, k, a, b, c)
    PROVE  /\ Receives \in Nat /\ Sends \in Nat /\ Messages \in Nat
           /\ Receives' = Receives + Count("recv")' - Count("recv") + Net({"recv", "wsaRecv"}, h, k, a, b, c)
           /\ Sends' = Sends + Count("send")' - Count("send") + Net({"wsaSend", "sended"}, h, k, a, b, c)
           /\ Messages' = Messages + Net({"message", "makeRecv", "addRecv"}, h, k, a, b, c)
                            + Occurs({"message"}, Waiting)' - Occurs({"message"}, Waiting)
           /\ Telling \in Nat /\ Telling' = Telling + Net({"onConnected"}, h, k, a, b, c)
           /\ Untelling \in Nat /\ Untelling' = Untelling + Net({"onDisconnected"}, h, k, a, b, c)
<1>1. /\ Left({"recv", "wsaRecv"}) \in Nat /\ Net({"recv", "wsaRecv"}, h, k, a, b, c) \in Int
      /\ Left({"recv", "wsaRecv"})' = Left({"recv", "wsaRecv"}) + Net({"recv", "wsaRecv"}, h, k, a, b, c)
  BY LeftStep
<1>2. /\ Left({"wsaSend", "sended"}) \in Nat /\ Net({"wsaSend", "sended"}, h, k, a, b, c) \in Int
      /\ Left({"wsaSend", "sended"})' = Left({"wsaSend", "sended"}) + Net({"wsaSend", "sended"}, h, k, a, b, c)
  BY LeftStep
<1>3. /\ Left({"message", "makeRecv", "addRecv"}) \in Nat /\ Net({"message", "makeRecv", "addRecv"}, h, k, a, b, c) \in Int
      /\ Left({"message", "makeRecv", "addRecv"})'
           = Left({"message", "makeRecv", "addRecv"}) + Net({"message", "makeRecv", "addRecv"}, h, k, a, b, c)
  BY LeftStep
<1>4. /\ Telling \in Nat /\ Telling' = Telling + Net({"onConnected"}, h, k, a, b, c)
      /\ Untelling \in Nat /\ Untelling' = Untelling + Net({"onDisconnected"}, h, k, a, b, c)
  BY LeftStep DEF Telling, Untelling
<1>5. Occurs({"message"}, Waiting) \in Nat /\ Occurs({"message"}, Waiting)' \in Nat
  <2>1. Waiting \in Seq(JobKinds) /\ Waiting' \in Seq(JobKinds)
    BY TailProperties DEF QueueInv, Waiting
  <2> QED
    BY <2>1, OccursType
<1>6. /\ Count("recv") \in Nat /\ Count("send") \in Nat /\ Count("recv")' \in Nat /\ Count("send")' \in Nat
  BY DEF TypeInv, Kinds, Count
<1>7. Receives \in Nat /\ Receives' = Receives + Count("recv")' - Count("recv") + Net({"recv", "wsaRecv"}, h, k, a, b, c)
  BY <1>1, <1>6 DEF Receives
<1>8. Sends \in Nat /\ Sends' = Sends + Count("send")' - Count("send") + Net({"wsaSend", "sended"}, h, k, a, b, c)
  BY <1>2, <1>6 DEF Sends
<1>9. /\ Messages \in Nat
      /\ Messages' = Messages + Net({"message", "makeRecv", "addRecv"}, h, k, a, b, c)
                       + Occurs({"message"}, Waiting)' - Occurs({"message"}, Waiting)
  BY <1>3, <1>5 DEF Messages
<1> QED
  BY <1>4, <1>7, <1>8, <1>9

\* Nothing of P is left where nothing of Q is.
LEMMA LeftPart ==
    ASSUME SlotAssumption, StackInv, NEW P, NEW Q, P \subseteq Q, Left(Q) = 0
    PROVE  Left(P) = 0
<1>1. FiniteThreads /\ stack \in [Threads -> Seq(Steps)]
  BY Finite DEF StackInv
<1>2. ASSUME NEW t \in Threads
      PROVE  Occurs(P, stack[t]) = 0
  <2>1. Occurs(Q, stack[t]) = 0 /\ stack[t] \in Seq(Steps)
    BY <1>1, LeftZero
  <2> QED
    BY <2>1, OccursZero
<1> QED
  BY <1>1, <1>2, LeftZero

LEMMA QuietTraffic ==
    ASSUME SlotAssumption, TypeInv, StackInv, QueueInv, Traffic = 0
    PROVE  /\ Receives = 0 /\ Sends = 0 /\ Messages = 0 /\ Telling = 0 /\ Untelling = 0
           /\ Left(Noisy) = 0 /\ Left(After) = 0
<1>1. /\ Count("recv") \in Nat /\ Count("send") \in Nat /\ Left(Noisy) \in Nat /\ Total(Greetings) \in Nat
      /\ Occurs({"message", "delSession"}, Waiting) \in Nat
  BY NumbersType DEF Kinds
<1>2. Count("recv") = 0 /\ Count("send") = 0 /\ Left(Noisy) = 0 /\ Occurs({"message", "delSession"}, Waiting) = 0
  BY <1>1 DEF Traffic
<1>3. /\ {"recv", "wsaRecv"} \subseteq Noisy /\ {"wsaSend", "sended"} \subseteq Noisy /\ After \subseteq Noisy
      /\ {"message", "makeRecv", "addRecv"} \subseteq Noisy /\ {"onConnected"} \subseteq Noisy
      /\ {"onDisconnected"} \subseteq Noisy
  BY DEF Noisy, Others, After
<1>4. /\ Left({"recv", "wsaRecv"}) = 0 /\ Left({"wsaSend", "sended"}) = 0 /\ Left(After) = 0
      /\ Left({"message", "makeRecv", "addRecv"}) = 0 /\ Left({"onConnected"}) = 0 /\ Left({"onDisconnected"}) = 0
  BY <1>2, <1>3, LeftPart
<1>5. Occurs({"message"}, Waiting) = 0
  <2>1. Waiting \in Seq(JobKinds)
    BY WaitingType
  <2> QED
    BY <1>2, <2>1, OccursZero
<1> QED
  BY <1>2, <1>4, <1>5 DEF Receives, Sends, Messages, Telling, Untelling

\* A step that somebody is at is counted.
LEMMA LeftAt ==
    ASSUME SlotAssumption, StackInv, NEW t \in Threads, NEW x, At(t, x), NEW P, x \in P
    PROVE  Left(P) \in Nat /\ Left(P) >= 1
<1>1. FiniteThreads /\ stack \in [Threads -> Seq(Steps)] /\ stack[t] \in Seq(Steps)
  BY Finite DEF StackInv
<1>2. Left(P) \in Nat /\ Occurs(P, stack[t]) <= Left(P)
  BY <1>1, LeftType, LeftBound
<1>3. Occurs(P, stack[t]) >= 1 /\ Occurs(P, stack[t]) \in Nat
  BY <1>1, TopCounts, OccursType DEF At
<1> QED
  BY <1>2, <1>3

\* While an accept goes on nothing else does, and the other way round.
LEMMA Accepting ==
    ASSUME SlotAssumption, TypeInv, StackInv, QueueInv, OpenInv, NEW t \in Threads, NEW x, At(t, x)
    PROVE  /\ x \in Opening => Accepts = 1 /\ Traffic = 0 /\ ~listed
           /\ x \in Noisy => Accepts = 0
<1>1. Accepts \in Nat /\ Traffic \in Nat /\ \A P : Left(P) \in Nat /\ Occurs(P, Waiting) \in Nat
  BY NumbersType
<1>2. Count("accept") \in Nat /\ Count("recv") \in Nat /\ Count("send") \in Nat /\ Total(Greetings) \in Nat
  BY NumbersType DEF Kinds
<1>3. ASSUME x \in Opening
      PROVE  Accepts = 1 /\ Traffic = 0 /\ ~listed
  <2>1. Left(Opening) >= 1
    BY <1>3, LeftAt
  <2>2. Accepts >= 1
    <3>1. Left(Opening) \in Nat /\ Occurs({"accepted", "acceptFailed"}, Waiting) \in Nat
      BY <1>1
    <3> QED
      BY <1>2, <2>1, <3>1 DEF Accepts
  <2> QED
    BY <1>1, <2>2 DEF OpenInv
<1>4. ASSUME x \in Noisy
      PROVE  Accepts = 0
  <2>1. Left(Noisy) >= 1
    BY <1>4, LeftAt
  <2>2. Traffic >= 1
    <3>1. Left(Noisy) \in Nat /\ Occurs({"message", "delSession"}, Waiting) \in Nat
      BY <1>1
    <3> QED
      BY <1>2, <2>1, <3>1 DEF Traffic
  <2> QED
    BY <1>1, <2>2 DEF OpenInv
<1> QED
  BY <1>3, <1>4

\* As Still, for a step that begins a send, a receive or a call of the application.
Steady(m, n, h, k, a, b, c) ==
    Fits(MayLie(m, n), h, k, a, b, c) /\ Plain(m, h, k, a, b, c, 0)

LEMMA SteadySteps ==
    ASSUME NEW m, NEW n
    PROVE  /\ Steady(m, n, "send", "bottom", "wsaSend", "bottom", "bottom")
           /\ Steady(m, n, "sended", "bottom", "wsaSend", "bottom", "bottom")
           /\ Steady(m, n, "sended", "bottom", "bottom", "bottom", "bottom")
           /\ Steady(m, n, "onConnected", "bottom", "bottom", "bottom", "bottom")
           /\ Steady(m, n, "onConnected", "bottom", "send", "bottom", "bottom")
           /\ Steady(m, n, "onConnected", "bottom", "disconnect", "bottom", "bottom")
           /\ Steady(m, n, "onDisconnected", "bottom", "close", "open", "bottom")
           /\ Steady(m, n, "onDisconnected", "bottom", "open", "bottom", "bottom")
           /\ m # "ws" => Steady(m, n, "addSession", "bottom", "onConnected", "recv", "bottom")
           /\ m = "ws" => Steady(m, n, "addSession", "bottom", "onConnected", "wsaRecv", "bottom")
           /\ Steady(m, n, "delSession", "bottom", "bottom", "bottom", "bottom")
           /\ Steady(m, n, "delSession", "bottom", "onDisconnected", "bottom", "bottom")
<1> USE DEF Steady, Fits, Linked, Plain, NetBal, Net, In, Reserving, Opening, Others, Adders, Handling, Calls,
            Steps, Base
<1>1. Steady(m, n, "send", "bottom", "wsaSend", "bottom", "bottom")
  BY Lies
<1>2. Steady(m, n, "sended", "bottom", "wsaSend", "bottom", "bottom")
  BY Lies
<1>3. Steady(m, n, "sended", "bottom", "bottom", "bottom", "bottom")
  BY Lies
<1>4. Steady(m, n, "onConnected", "bottom", "bottom", "bottom", "bottom")
  BY Lies
<1>5. Steady(m, n, "onConnected", "bottom", "send", "bottom", "bottom")
  BY Lies
<1>6. Steady(m, n, "onConnected", "bottom", "disconnect", "bottom", "bottom")
  BY Lies
<1>7. Steady(m, n, "onDisconnected", "bottom", "close", "open", "bottom")
  BY Lies
<1>8. Steady(m, n, "onDisconnected", "bottom", "open", "bottom", "bottom")
  BY Lies
<1>9. m # "ws" => Steady(m, n, "addSession", "bottom", "onConnected", "recv", "bottom")
  BY Lies
<1>10. m = "ws" => Steady(m, n, "addSession", "bottom", "onConnected", "wsaRecv", "bottom")
  BY Lies
<1>11. Steady(m, n, "delSession", "bottom", "bottom", "bottom", "bottom")
  BY Lies
<1>12. Steady(m, n, "delSession", "bottom", "onDisconnected", "bottom", "bottom")
  BY Lies
<1> HIDE DEF Steady
<1> QED
  BY <1>1, <1>2, <1>3, <1>4, <1>5, <1>6, <1>7, <1>8, <1>9, <1>10, <1>11, <1>12

LEMMA SteadyOrdinary ==
    ASSUME SlotAssumption, IInv, NEW t \in Threads, NEW h, NEW k, NEW a, NEW b, NEW c,
           Moves(t, h, k, a, b, c), Steady(mode, calls # 0, h, k, a, b, c), refs' = refs,
           \A x \in Kinds : Count(x)' = Count(x), UNCHANGED <<jobs, mode, calls>>
    PROVE  /\ Ordinary(t, h, k, a, b, c, 0)
           /\ a \in Opt(Steps) /\ b \in Opt(Steps) /\ c \in Opt(Steps)
<1>1. refs' = refs + 0
  BY KeptType
<1>2. Ordinary(t, h, k, a, b, c, 0)
  BY <1>1 DEF Ordinary, Steady, Table
<1> QED
  BY <1>2, OrdinarySteps DEF Ordinary

LEMMA InitializeOkKeeps ==
    ASSUME SlotAssumption, IInv, TypeInv', NEW t \in Threads, UNCHANGED <<jobs, mode>>, InitializeOk(t)
    PROVE  IInv'
<1>1. At(t, "initialize") /\ Then(t, <<"addSession">>)
  BY DEF InitializeOk
<1>2. Moves(t, "initialize", "bottom", "addSession", "bottom", "bottom")
  BY <1>1, StackTyped, ThenOne
<1>3. refs' = refs + 0 /\ io' = io /\ UNCHANGED <<listed, told, calls>>
  BY KeptType DEF InitializeOk
<1>4. Still(mode, calls # 0, "initialize", "bottom", "addSession", "bottom", "bottom", 0)
  BY CoreStill
<1>5. Ordinary(t, "initialize", "bottom", "addSession", "bottom", "bottom", 0)
  BY <1>2, <1>3, <1>4, SameCounts DEF Ordinary, Still, Table
<1>6. TypeInv /\ StackInv /\ QueueInv /\ (calls = 0 => QuietInv)
  BY DEF IInv
<1>7. Waiting' = Waiting /\ QueueInv'
  BY <1>5, OrdinaryKeeps
<1>8. RecvInv => RecvInv'
  BY <1>3, <1>4, <1>5, <1>6, OrdinaryRecv DEF Still
<1>9. ToldInv => ToldInv'
  BY <1>3, <1>4, <1>5, <1>6, <1>7, OrdinaryTold DEF Still
<1>10. ASSUME calls = 0
       PROVE  SendInv'
  <2>1. OpenInv
    BY <1>6, <1>10 DEF QuietInv
  <2>2. Traffic = 0
    BY <1>1, <1>6, <2>1, Accepting DEF Opening
  <2>3. Sends = 0
    BY <1>6, <2>2, QuietTraffic
  <2>4. Count("send")' = Count("send") /\ Count("send") \in Nat
    BY <1>3, <1>6, SameCounts, NumbersType DEF Kinds
  <2>5. "addSession" \in Opt(Steps) /\ "bottom" \in Opt(Steps)
    BY DEF Opt, Steps, Handling, Opening
  <2>6. Sends' = Sends + Count("send")' - Count("send") + Net({"wsaSend", "sended"}, "initialize", "bottom", "addSession", "bottom", "bottom")
    BY <1>2, <1>6, <1>7, <2>5, TrafficNumbers
  <2>7. Net({"wsaSend", "sended"}, "initialize", "bottom", "addSession", "bottom", "bottom") = 0
    BY NoneNet
  <2>8. Sends' = 0
    BY <2>3, <2>4, <2>6, <2>7
  <2> QED
    BY <2>8 DEF SendInv
<1> QED
  BY <1>3, <1>4, <1>5, <1>8, <1>9, <1>10, PlainKeeps DEF Still

\* HNetIoSend: what follows for a step to wsaSend, or from sended.
LEMMA SendingKeeps ==
    ASSUME SlotAssumption, IInv, TypeInv', NEW t \in Threads, NEW h \in {"send", "sended"}, NEW a \in {"wsaSend", "bottom"},
           Moves(t, h, "bottom", a, "bottom", "bottom"), UNCHANGED <<refs, io, listed, told, calls, jobs, mode>>,
           h = "send" => ~sending /\ sending' /\ a = "wsaSend",
           h = "sended" => sending' = (a = "wsaSend")
    PROVE  IInv'
<1>1. Steady(mode, calls # 0, h, "bottom", a, "bottom", "bottom")
  BY SteadySteps
<1>2. /\ Ordinary(t, h, "bottom", a, "bottom", "bottom", 0)
      /\ a \in Opt(Steps) /\ "bottom" \in Opt(Steps)
  BY <1>1, SameCounts, SteadyOrdinary
<1>3. /\ Calm(mode, h, "bottom", a, "bottom", "bottom") /\ Unreceived(h, "bottom", a, "bottom", "bottom")
      /\ Silent(h, "bottom", a, "bottom", "bottom")
  BY DEF Calm, Unreceived, Silent, Net, In, Opening, Noisy, Others, After
<1>4. TypeInv /\ StackInv /\ QueueInv /\ (calls = 0 => QuietInv)
  BY DEF IInv
<1>5. Waiting' = Waiting /\ QueueInv'
  BY <1>2, OrdinaryKeeps
<1>6. RecvInv => RecvInv'
  BY <1>2, <1>3, <1>4, OrdinaryRecv
<1>7. ToldInv => ToldInv'
  BY <1>2, <1>3, <1>4, <1>5, OrdinaryTold
<1>8. ASSUME SendInv
      PROVE  SendInv'
  <2>1. Count("send")' = Count("send") /\ Count("send") \in Nat /\ Sends \in Nat
    BY <1>4, SameCounts, NumbersType DEF Kinds
  <2>2. Sends' = Sends + Count("send")' - Count("send") + Net({"wsaSend", "sended"}, h, "bottom", a, "bottom", "bottom")
    BY <1>2, <1>4, <1>5, TrafficNumbers
  <2>3. Net({"wsaSend", "sended"}, h, "bottom", a, "bottom", "bottom")
          = IF a = "wsaSend" THEN IF h = "send" THEN 1 ELSE 0 ELSE IF h = "send" THEN 0 ELSE -1
    BY DEF Net, In
  <2>4. Sends' = Sends + (IF a = "wsaSend" THEN IF h = "send" THEN 1 ELSE 0 ELSE IF h = "send" THEN 0 ELSE -1)
    BY <2>1, <2>2, <2>3
  <2>5. Sends <= 1 /\ (Sends = 1 => sending)
    BY <1>8 DEF SendInv
  <2>6. sending' \in BOOLEAN
    BY DEF TypeInv
  <2> QED
    BY <2>1, <2>4, <2>5, <2>6 DEF SendInv
<1> QED
  BY <1>2, <1>3, <1>6, <1>7, <1>8, PlainKeeps

LEMMA SendIdleKeeps ==
    ASSUME SlotAssumption, IInv, TypeInv', NEW t \in Threads, UNCHANGED <<jobs, mode>>, SendIdle(t)
    PROVE  IInv'
<1>1. At(t, "send") /\ Then(t, <<"wsaSend">>)
  BY DEF SendIdle
<1>2. Moves(t, "send", "bottom", "wsaSend", "bottom", "bottom")
  BY <1>1, StackTyped, ThenOne
<1>3. ~sending /\ sending' /\ UNCHANGED <<refs, io, listed, told, calls>>
  BY DEF SendIdle
<1> QED
  BY <1>2, <1>3, SendingKeeps

LEMMA SendedKeeps ==
    ASSUME SlotAssumption, IInv, TypeInv', NEW t \in Threads, UNCHANGED <<jobs, mode>>, Sended(t)
    PROVE  IInv'
<1>1. At(t, "sended") /\ sending' = more /\ UNCHANGED <<refs, io, listed, told, calls>> /\ more \in BOOLEAN
  BY DEF Sended, IInv, TypeInv
<1>2. CASE more
  <2>1. Then(t, <<"wsaSend">>)
    BY <1>2 DEF Sended
  <2>2. Moves(t, "sended", "bottom", "wsaSend", "bottom", "bottom")
    BY <1>1, <2>1, StackTyped, ThenOne
  <2> QED
    BY <1>1, <1>2, <2>2, SendingKeeps
<1>3. CASE ~more
  <2>1. Then(t, <<>>)
    BY <1>3 DEF Sended
  <2>2. Moves(t, "sended", "bottom", "bottom", "bottom", "bottom")
    BY <1>1, <2>1, StackTyped, ThenNone
  <2> QED
    BY <1>1, <1>3, <2>2, SendingKeeps
<1> QED
  BY <1>2, <1>3

\* The callbacks that begin and end what the application is told.
Callbacks == {<<"onConnected", "bottom", "bottom">>, <<"onConnected", "send", "bottom">>,
              <<"onConnected", "disconnect", "bottom">>,
              <<"onDisconnected", "close", "open">>, <<"onDisconnected", "open", "bottom">>}

LEMMA CallbackSteps ==
    ASSUME NEW m, NEW n, NEW h, NEW a, NEW b, <<h, a, b>> \in Callbacks
    PROVE  /\ Steady(m, n, h, "bottom", a, b, "bottom")
           /\ Calm(m, h, "bottom", a, b, "bottom") /\ Unreceived(h, "bottom", a, b, "bottom")
           /\ Unsent(h, "bottom", a, b, "bottom")
           /\ Net({"message", "makeRecv", "addRecv"}, h, "bottom", a, b, "bottom") = 0
           /\ Net({"onConnected"}, h, "bottom", a, b, "bottom") = IF h = "onConnected" THEN -1 ELSE 0
           /\ Net({"onDisconnected"}, h, "bottom", a, b, "bottom") = IF h = "onConnected" THEN 0 ELSE -1
<1> USE DEF Calm, Unreceived, Unsent, Net, In, Opening, Noisy, Others, After
<1>1. CASE h = "onConnected" /\ a = "bottom" /\ b = "bottom"
  BY <1>1, SteadySteps
<1>2. CASE h = "onConnected" /\ a = "send" /\ b = "bottom"
  BY <1>2, SteadySteps
<1>3. CASE h = "onConnected" /\ a = "disconnect" /\ b = "bottom"
  BY <1>3, SteadySteps
<1>4. CASE h = "onDisconnected" /\ a = "close" /\ b = "open"
  BY <1>4, SteadySteps
<1>5. CASE h = "onDisconnected" /\ a = "open" /\ b = "bottom"
  BY <1>5, SteadySteps
<1> QED
  BY <1>1, <1>2, <1>3, <1>4, <1>5 DEF Callbacks

LEMMA CallbackKeeps ==
    ASSUME SlotAssumption, IInv, TypeInv', NEW t \in Threads, NEW h, NEW a, NEW b, <<h, a, b>> \in Callbacks,
           Moves(t, h, "bottom", a, b, "bottom"),
           h = "onConnected" => told' = TRUE, h = "onDisconnected" => told' = FALSE,
           UNCHANGED <<refs, io, listed, sending, calls, jobs, mode>>
    PROVE  IInv'
<1>1. /\ Ordinary(t, h, "bottom", a, b, "bottom", 0)
      /\ a \in Opt(Steps) /\ b \in Opt(Steps) /\ "bottom" \in Opt(Steps)
  BY CallbackSteps, SameCounts, SteadyOrdinary
<1>2. /\ Calm(mode, h, "bottom", a, b, "bottom") /\ Unreceived(h, "bottom", a, b, "bottom")
      /\ Unsent(h, "bottom", a, b, "bottom")
  BY CallbackSteps
<1>3. TypeInv /\ StackInv /\ QueueInv /\ (calls = 0 => QuietInv)
  BY DEF IInv
<1>4. Waiting' = Waiting /\ QueueInv'
  BY <1>1, OrdinaryKeeps
<1>5. RecvInv => RecvInv'
  BY <1>1, <1>2, <1>3, OrdinaryRecv
<1>6. SendInv => SendInv'
  BY <1>1, <1>2, <1>3, OrdinarySend
<1>7. ASSUME ToldInv
      PROVE  ToldInv'
  <2>1. /\ Telling \in Nat /\ Untelling \in Nat /\ Messages \in Nat
        /\ Messages' = Messages + Net({"message", "makeRecv", "addRecv"}, h, "bottom", a, b, "bottom")
                            + Occurs({"message"}, Waiting)' - Occurs({"message"}, Waiting)
        /\ Telling' = Telling + Net({"onConnected"}, h, "bottom", a, b, "bottom")
        /\ Untelling' = Untelling + Net({"onDisconnected"}, h, "bottom", a, b, "bottom")
    BY <1>1, <1>3, <1>4, TrafficNumbers
  <2>2. Occurs({"message"}, Waiting)' = Occurs({"message"}, Waiting) /\ Occurs({"message"}, Waiting) \in Nat
    BY <1>3, <1>4, NumbersType
  <2>3. /\ Net({"message", "makeRecv", "addRecv"}, h, "bottom", a, b, "bottom") = 0
        /\ Net({"onConnected"}, h, "bottom", a, b, "bottom") = IF h = "onConnected" THEN -1 ELSE 0
        /\ Net({"onDisconnected"}, h, "bottom", a, b, "bottom") = IF h = "onConnected" THEN 0 ELSE -1
    BY CallbackSteps
  <2>4. Messages' = Messages
    BY <2>1, <2>2, <2>3
  <2>5. At(t, h) /\ h \in {"onConnected", "onDisconnected"}
    BY DEF Moves, Has, OnTop, At, Callbacks
  <2>6. h = "onConnected" => Telling >= 1
    BY <1>3, <2>5, LeftAt DEF Telling
  <2>7. h = "onDisconnected" => Untelling >= 1
    BY <1>3, <2>5, LeftAt DEF Untelling
  <2>8. /\ Telling + Untelling <= 1
        /\ Telling = 1 => listed /\ ~told
        /\ Untelling = 1 => ~listed /\ told
        /\ Telling + Untelling = 0 => told = listed
        /\ Messages # 0 => listed /\ told
    BY <1>7 DEF ToldInv
  <2>9. listed \in BOOLEAN /\ listed' = listed
    BY <1>3 DEF TypeInv
  <2>10. CASE h = "onConnected"
    <3>0. Messages' \in Nat
      BY <2>1, <2>4
    <3>1. Telling = 1 /\ Untelling = 0 /\ Telling' = 0 /\ Untelling' = 0 /\ told' = TRUE /\ listed = TRUE
      BY <2>1, <2>3, <2>6, <2>8, <2>9, <2>10
    <3>2. /\ Telling' + Untelling' = 0 /\ Telling' # 1 /\ Untelling' # 1 /\ told' = listed'
          /\ Messages' # 0 => listed' /\ told'
      BY ONLY <2>2, <2>9, <3>1, <3>0
    <3> QED
      BY ONLY <3>2 DEF ToldInv
  <2>11. CASE h = "onDisconnected"
    <3>1. Telling = 0 /\ Untelling = 1 /\ Telling' = 0 /\ Untelling' = 0 /\ told' = FALSE /\ listed = FALSE
      BY <2>1, <2>3, <2>7, <2>8, <2>9, <2>11
    <3>2. Messages' = 0
      BY <2>4, <2>8, <3>1
    <3>3. Telling' + Untelling' = 0 /\ Telling' # 1 /\ Untelling' # 1 /\ ~(Messages' # 0)
      BY <3>1, <3>2
    <3>4. told' = listed'
      BY ONLY <2>9, <3>1, Zenon
    <3> QED
      BY ONLY <3>3, <3>4 DEF ToldInv
  <2> QED
    BY <2>5, <2>10, <2>11
<1> QED
  BY <1>1, <1>2, <1>5, <1>6, <1>7, PlainKeeps

LEMMA OnConnectedKeeps ==
    ASSUME SlotAssumption, IInv, TypeInv', NEW t \in Threads, UNCHANGED <<jobs, mode>>, OnConnected(t)
    PROVE  IInv'
<1>1. PICK cb \in {<<>>, <<"send">>, <<"disconnect">>} : At(t, "onConnected") /\ Then(t, cb)
  BY SlotAssumption DEF SlotAssumption, OnConnected, Callback
<1>2. told' = TRUE /\ UNCHANGED <<refs, io, listed, sending, calls>>
  BY DEF OnConnected
<1>3. CASE cb = <<>>
  <2>0. <<"onConnected", "bottom", "bottom">> \in Callbacks
    BY DEF Callbacks
  <2>1. Moves(t, "onConnected", "bottom", "bottom", "bottom", "bottom")
    BY <1>1, <1>3, StackTyped, ThenNone
  <2> QED
    BY <1>2, <2>0, <2>1, CallbackKeeps
<1>4. CASE cb = <<"send">>
  <2>0. <<"onConnected", "send", "bottom">> \in Callbacks
    BY DEF Callbacks
  <2>1. Moves(t, "onConnected", "bottom", "send", "bottom", "bottom")
    BY <1>1, <1>4, StackTyped, ThenOne
  <2> QED
    BY <1>2, <2>0, <2>1, CallbackKeeps
<1>5. CASE cb = <<"disconnect">>
  <2>0. <<"onConnected", "disconnect", "bottom">> \in Callbacks
    BY DEF Callbacks
  <2>1. Moves(t, "onConnected", "bottom", "disconnect", "bottom", "bottom")
    BY <1>1, <1>5, StackTyped, ThenOne
  <2> QED
    BY <1>2, <2>0, <2>1, CallbackKeeps
<1> QED
  BY <1>1, <1>3, <1>4, <1>5

LEMMA OnDisconnectedKeeps ==
    ASSUME SlotAssumption, IInv, TypeInv', NEW t \in Threads, UNCHANGED <<jobs, mode>>, OnDisconnected(t)
    PROVE  IInv'
<1>1. At(t, "onDisconnected") /\ Then(t, <<"close", "open">>)
  BY DEF OnDisconnected
<1>2. Moves(t, "onDisconnected", "bottom", "close", "open", "bottom")
  BY <1>1, StackTyped, Named, ThenTwo
<1>3. told' = FALSE /\ UNCHANGED <<refs, io, listed, sending, calls>>
  BY DEF OnDisconnected
<1>4. <<"onDisconnected", "close", "open">> \in Callbacks
  BY DEF Callbacks
<1> QED
  BY <1>2, <1>3, <1>4, CallbackKeeps

LEMMA WsOnDisconnectedKeeps ==
    ASSUME SlotAssumption, IInv, TypeInv', NEW t \in Threads, UNCHANGED <<jobs, mode>>, W!OnDisconnected(t)
    PROVE  IInv'
<1>1. At(t, "onDisconnected") /\ Then(t, <<"open">>)
  BY DEF W!OnDisconnected, W!At, W!Then, At, Then
<1>2. Moves(t, "onDisconnected", "bottom", "open", "bottom", "bottom")
  BY <1>1, StackTyped, ThenOne
<1>3. told' = FALSE /\ UNCHANGED <<refs, io, listed, sending, calls>>
  BY DEF W!OnDisconnected
<1>4. <<"onDisconnected", "open", "bottom">> \in Callbacks
  BY DEF Callbacks
<1> QED
  BY <1>2, <1>3, <1>4, CallbackKeeps

\* _AddSession, where r is how the owner posts the next receive.
LEMMA AddedKeeps ==
    ASSUME SlotAssumption, IInv, TypeInv', NEW t \in Threads, UNCHANGED <<jobs, mode>>,
           NEW r, r = (IF mode = "ws" THEN "wsaRecv" ELSE "recv"),
           At(t, "addSession"), ~listed, listed' = TRUE, Then(t, <<"onConnected", r>>),
           UNCHANGED <<refs, io, told, sending, calls>>
    PROVE  IInv'
<1>1. r \in {"recv", "wsaRecv"}
  OBVIOUS
<1>2. Moves(t, "addSession", "bottom", "onConnected", r, "bottom")
  BY <1>1, StackTyped, Named, ThenTwo
<1>3. Steady(mode, calls # 0, "addSession", "bottom", "onConnected", r, "bottom")
  BY SteadySteps
<1>4. /\ Ordinary(t, "addSession", "bottom", "onConnected", r, "bottom", 0)
      /\ "onConnected" \in Opt(Steps) /\ r \in Opt(Steps) /\ "bottom" \in Opt(Steps)
  BY <1>2, <1>3, SameCounts, SteadyOrdinary
<1>5. TypeInv /\ StackInv /\ QueueInv /\ (calls = 0 => QuietInv)
  BY DEF IInv
<1>6. StackInv' /\ QueueInv' /\ CountInv' /\ Waiting' = Waiting /\ (calls = 0 => EndInv')
  BY <1>4, OrdinaryKeeps
<1>7. ASSUME calls = 0
      PROVE  OpenInv' /\ RecvInv' /\ SendInv' /\ ToldInv'
  <2>1. OpenInv /\ RecvInv /\ SendInv /\ ToldInv
    BY <1>5, <1>7 DEF QuietInv
  <2>2. Accepts = 1 /\ Traffic = 0
    BY <1>5, <2>1, Accepting DEF Opening
  <2>3. Receives = 0 /\ Sends = 0 /\ Messages = 0 /\ Telling = 0 /\ Untelling = 0 /\ Left(After) = 0
    BY <1>5, <2>2, QuietTraffic
  <2>4. /\ Count("accept")' = Count("accept") /\ Count("recv")' = Count("recv") /\ Count("send")' = Count("send")
        /\ Count("accept") \in Nat /\ Count("recv") \in Nat /\ Count("send") \in Nat
        /\ \A P : Occurs(P, Waiting)' = Occurs(P, Waiting) /\ Occurs(P, Waiting) \in Nat
    BY <1>5, <1>6, SameCounts, NumbersType DEF Kinds
  <2>5. /\ Net(Opening, "addSession", "bottom", "onConnected", r, "bottom") = -1
        /\ Net(After, "addSession", "bottom", "onConnected", r, "bottom") = 0
    BY <1>1 DEF Net, In, Opening, After
  <2>6. /\ Net({"recv", "wsaRecv"}, "addSession", "bottom", "onConnected", r, "bottom") = 1
        /\ Net({"wsaSend", "sended"}, "addSession", "bottom", "onConnected", r, "bottom") = 0
        /\ Net({"message", "makeRecv", "addRecv"}, "addSession", "bottom", "onConnected", r, "bottom") = 0
        /\ Net({"onConnected"}, "addSession", "bottom", "onConnected", r, "bottom") = 1
        /\ Net({"onDisconnected"}, "addSession", "bottom", "onConnected", r, "bottom") = 0
    BY <1>1 DEF Net, In
  <2>7. /\ Accepts' = Accepts + Count("accept")' - Count("accept")
             + Net(Opening, "addSession", "bottom", "onConnected", r, "bottom")
             + Occurs({"accepted", "acceptFailed"}, Waiting)' - Occurs({"accepted", "acceptFailed"}, Waiting)
        /\ Left(After)' = Left(After) + Net(After, "addSession", "bottom", "onConnected", r, "bottom")
    BY <1>2, <1>4, <1>5, <1>6, OpenNumbers
  <2>8. Occurs({"accepted", "acceptFailed"}, Waiting)' = Occurs({"accepted", "acceptFailed"}, Waiting)
        /\ Occurs({"accepted", "acceptFailed"}, Waiting) \in Nat
        /\ Occurs({"message"}, Waiting)' = Occurs({"message"}, Waiting) /\ Occurs({"message"}, Waiting) \in Nat
    BY <2>4
  <2>9. Accepts' = 0 /\ Left(After)' = 0
    BY <2>2, <2>3, <2>4, <2>5, <2>7, <2>8
  <2>10. /\ Receives' = Receives + Count("recv")' - Count("recv") + Net({"recv", "wsaRecv"}, "addSession", "bottom", "onConnected", r, "bottom")
         /\ Sends' = Sends + Count("send")' - Count("send") + Net({"wsaSend", "sended"}, "addSession", "bottom", "onConnected", r, "bottom")
         /\ Messages' = Messages + Net({"message", "makeRecv", "addRecv"}, "addSession", "bottom", "onConnected", r, "bottom")
                            + Occurs({"message"}, Waiting)' - Occurs({"message"}, Waiting)
         /\ Telling' = Telling + Net({"onConnected"}, "addSession", "bottom", "onConnected", r, "bottom")
         /\ Untelling' = Untelling + Net({"onDisconnected"}, "addSession", "bottom", "onConnected", r, "bottom")
    BY <1>2, <1>4, <1>5, <1>6, TrafficNumbers
  <2>11. Receives' = 1 /\ Sends' = 0 /\ Messages' = 0 /\ Telling' = 1 /\ Untelling' = 0
    BY <2>3, <2>4, <2>6, <2>8, <2>10
  <2>12. told = listed /\ told' = told
    BY <2>1, <2>3 DEF ToldInv
  <2> QED
    BY <2>9, <2>11, <2>12 DEF OpenInv, RecvInv, SendInv, ToldInv
<1> QED
  BY <1>6, <1>7 DEF IInv, QuietInv

\* WSARecv and WSASend: h is taken off, one more operation of kind x is outstanding.
LEMMA PostKeeps ==
    ASSUME SlotAssumption, IInv, TypeInv', NEW t \in Threads, UNCHANGED <<jobs, mode>>,
           NEW h, NEW x, <<h, x>> \in {<<"wsaRecv", "recv">>, <<"wsaSend", "send">>},
           At(t, h), Then(t, <<>>), refs' = refs + 1, io' = Posted(x), UNCHANGED <<listed, told, sending, calls>>
    PROVE  IInv'
<1>1. h \in {"wsaRecv", "wsaSend"} /\ x \in {"recv", "send"} /\ (h = "wsaRecv" <=> x = "recv")
  OBVIOUS
<1>2. Moves(t, h, "bottom", "bottom", "bottom", "bottom") /\ "bottom" \in Opt(Steps)
  BY <1>1, StackTyped, ThenNone DEF Opt
<1>3. TypeInv /\ StackInv /\ QueueInv /\ CountInv /\ (calls = 0 => QuietInv)
  BY DEF IInv
<1>4. Count(x)' = Count(x) + 1 /\ \A y \in Kinds : y # x => Count(y)' = Count(y)
  BY <1>1, <1>3, PostedCounts DEF TypeInv, IoType, Kinds
<1>5. /\ Count("accept") \in Nat /\ Count("recv") \in Nat /\ Count("send") \in Nat
      /\ Count("accept")' = Count("accept")
      /\ Count("recv")' = Count("recv") + In(x, {"recv"}) /\ Count("send")' = Count("send") + In(x, {"send"})
      /\ In(x, {"recv"}) + In(x, {"send"}) = 1 /\ In(x, {"recv"}) \in Nat /\ In(x, {"send"}) \in Nat
  <2>1. Count("accept") \in Nat /\ Count("recv") \in Nat /\ Count("send") \in Nat
    BY <1>3, NumbersType DEF Kinds
  <2>2. Count("accept")' = Count("accept")
    BY <1>1, <1>4 DEF Kinds
  <2>3. CASE x = "recv"
    <3>1. Count("recv")' = Count("recv") + 1 /\ Count("send")' = Count("send")
      BY <1>4, <2>3 DEF Kinds
    <3>2. In(x, {"recv"}) = 1 /\ In(x, {"send"}) = 0
      BY <2>3 DEF In
    <3> QED
      BY ONLY <2>1, <2>2, <3>1, <3>2
  <2>4. CASE x = "send"
    <3>1. Count("send")' = Count("send") + 1 /\ Count("recv")' = Count("recv")
      BY <1>4, <2>4 DEF Kinds
    <3>2. In(x, {"recv"}) = 0 /\ In(x, {"send"}) = 1
      BY <2>4 DEF In
    <3> QED
      BY ONLY <2>1, <2>2, <3>1, <3>2
  <2> QED
    BY <1>1, <2>3, <2>4
<1>6. Outstanding \in Nat /\ Outstanding' = Outstanding + 1
  BY ONLY <1>5 DEF Outstanding
<1>7. NetBal(h, "bottom", "bottom", "bottom", "bottom") = 0 /\ Reserving(mode, h, "bottom", "bottom", "bottom", "bottom") = 0
  <2>1. CASE h = "wsaRecv"
    BY <2>1 DEF NetBal, Reserving, Net, In, Adders
  <2>2. CASE h = "wsaSend"
    BY <2>2 DEF NetBal, Reserving, Net, In, Adders
  <2> QED
    BY <1>1, <2>1, <2>2
<1>8. StackInv'
  <2>1. Fits(Table, h, "bottom", "bottom", "bottom", "bottom")
    BY DEF Fits, Linked
  <2> QED
    BY <1>1, <1>2, <1>3, <2>1, StackMoves DEF Steps, Handling, Calls, Others
<1>9. QueueInv' /\ Waiting' = Waiting
  <2>1. Net({"pop"}, h, "bottom", "bottom", "bottom", "bottom") = 0 /\ Net({"update"}, h, "bottom", "bottom", "bottom", "bottom") = 0
    BY <1>1, NoneNet
  <2> QED
    BY <1>2, <1>3, <2>1, OrdinaryQueue
<1>10. /\ Occurs(Owning, Waiting)' = Occurs(Owning, Waiting) + 0
       /\ \A P : Occurs(P, Waiting) \in Nat /\ Occurs(P, Waiting)' = Occurs(P, Waiting)
  BY <1>3, <1>9, NumbersType
<1>11. CountInv'
  <2>1. 1 = 1 + 0 + NetBal(h, "bottom", "bottom", "bottom", "bottom") + Reserving(mode, h, "bottom", "bottom", "bottom", "bottom")
    BY <1>7
  <2> QED
    BY <1>2, <1>3, <1>6, <1>8, <1>10, <2>1, OrdinaryCount
<1>12. ASSUME calls = 0
       PROVE  QuietInv'
  <2>1. EndInv /\ OpenInv /\ RecvInv /\ SendInv /\ ToldInv
    BY <1>3, <1>12 DEF QuietInv
  <2>2. EndInv'
    <3>1. /\ Bal(stack[t]) \in Nat /\ Bal(stack'[t]) \in Nat
          /\ Bal(stack'[t]) = Bal(stack[t]) + NetBal(h, "bottom", "bottom", "bottom", "bottom")
      BY <1>2, <1>3, <1>8, BalMoves
    <3>2. Bal(stack[t]) >= 1
      <4>1. Good(MayLie(mode, FALSE), stack[t])
        BY <1>3, <1>12 DEF StackInv, Table
      <4>2. Top(stack[t]) \in Firm
        BY <1>1 DEF At, Top, Firm, Calls
      <4> QED
        BY <4>1, <4>2, BalFirm
    <3>3. Kept \in Nat /\ Kept >= 1
      BY <1>3, <3>1, <3>2, NumbersType, KeptBound
    <3>4. Endings = 0
      BY <1>3, <2>1, <3>3, NumbersType DEF EndInv
    <3>5. Ender(stack'[t]) = 0
      BY <1>7, <3>1, <3>2 DEF Ender
    <3>6. /\ Total(Enders) \in Nat /\ Total(Enders)' \in Nat /\ Ender(stack[t]) \in {0, 1}
          /\ Total(Enders)' = Total(Enders) + Ender(stack'[t]) - Ender(stack[t])
      BY <1>2, <1>3, <1>8, EndersMoves
    <3>7. Occurs({"delSession"}, Waiting) \in Nat /\ Occurs({"delSession"}, Waiting)' = Occurs({"delSession"}, Waiting)
      BY <1>10
    <3>8. Endings' = 0
      BY <3>4, <3>5, <3>6, <3>7 DEF Endings
    <3> QED
      BY <3>8 DEF EndInv
  <2>3. OpenInv'
    <3>1. Accepts = 0
      BY <1>1, <1>3, <2>1, Accepting DEF Noisy, Others
    <3>2. /\ Net(Opening, h, "bottom", "bottom", "bottom", "bottom") = 0
          /\ Net(After, h, "bottom", "bottom", "bottom", "bottom") = 0
      BY <1>1, NoneNet DEF Opening, After
    <3>3. /\ Accepts' = Accepts + Count("accept")' - Count("accept") + Net(Opening, h, "bottom", "bottom", "bottom", "bottom")
               + Occurs({"accepted", "acceptFailed"}, Waiting)' - Occurs({"accepted", "acceptFailed"}, Waiting)
          /\ Left(After) \in Nat /\ Left(After)' = Left(After) + Net(After, h, "bottom", "bottom", "bottom", "bottom")
      BY <1>2, <1>3, <1>8, <1>9, OpenNumbers
    <3>4. /\ Occurs({"accepted", "acceptFailed"}, Waiting) \in Nat
          /\ Occurs({"accepted", "acceptFailed"}, Waiting)' = Occurs({"accepted", "acceptFailed"}, Waiting)
      BY <1>10
    <3>5. Accepts' = 0 /\ Left(After)' = Left(After)
      BY <1>5, <3>1, <3>2, <3>3, <3>4
    <3> QED
      BY <2>1, <3>5 DEF OpenInv
  <2>4. /\ Receives' = Receives + Count("recv")' - Count("recv") + Net({"recv", "wsaRecv"}, h, "bottom", "bottom", "bottom", "bottom")
        /\ Sends' = Sends + Count("send")' - Count("send") + Net({"wsaSend", "sended"}, h, "bottom", "bottom", "bottom", "bottom")
        /\ Messages' = Messages + Net({"message", "makeRecv", "addRecv"}, h, "bottom", "bottom", "bottom", "bottom")
                            + Occurs({"message"}, Waiting)' - Occurs({"message"}, Waiting)
        /\ Telling' = Telling + Net({"onConnected"}, h, "bottom", "bottom", "bottom", "bottom")
        /\ Untelling' = Untelling + Net({"onDisconnected"}, h, "bottom", "bottom", "bottom", "bottom")
        /\ Receives \in Nat /\ Sends \in Nat /\ Messages \in Nat /\ Telling \in Nat /\ Untelling \in Nat
    BY <1>2, <1>3, <1>9, TrafficNumbers
  <2>5. /\ Net({"recv", "wsaRecv"}, h, "bottom", "bottom", "bottom", "bottom") = 0 - In(x, {"recv"})
        /\ Net({"wsaSend", "sended"}, h, "bottom", "bottom", "bottom", "bottom") = 0 - In(x, {"send"})
        /\ Net({"message", "makeRecv", "addRecv"}, h, "bottom", "bottom", "bottom", "bottom") = 0
        /\ Net({"onConnected"}, h, "bottom", "bottom", "bottom", "bottom") = 0
        /\ Net({"onDisconnected"}, h, "bottom", "bottom", "bottom", "bottom") = 0
    BY <1>1 DEF Net, In
  <2>6. Occurs({"message"}, Waiting) \in Nat /\ Occurs({"message"}, Waiting)' = Occurs({"message"}, Waiting)
    BY <1>10
  <2>7. Receives' = Receives /\ Sends' = Sends /\ Messages' = Messages /\ Telling' = Telling /\ Untelling' = Untelling
    BY ONLY <1>5, <2>4, <2>5, <2>6
  <2> QED
    BY <2>1, <2>2, <2>3, <2>7 DEF QuietInv, RecvInv, SendInv, ToldInv
<1> QED
  BY <1>8, <1>9, <1>11, <1>12 DEF IInv

LEMMA WsaRecvOkKeeps ==
    ASSUME SlotAssumption, IInv, TypeInv', NEW t \in Threads, UNCHANGED <<jobs, mode>>, WsaRecvOk(t)
    PROVE  IInv'
  BY PostKeeps DEF WsaRecvOk, Reference

LEMMA WsaSendOkKeeps ==
    ASSUME SlotAssumption, IInv, TypeInv', NEW t \in Threads, UNCHANGED <<jobs, mode>>, WsaSendOk(t)
    PROVE  IInv'
  BY PostKeeps DEF WsaSendOk, Reference

\* Who does something for the session and keeps no reference is alone with it.
LEMMA Alone ==
    ASSUME SlotAssumption, IInv, calls = 0, NEW t \in Threads, Occurs(Handling, stack[t]) # 0, Bal(stack[t]) = 0
    PROVE  /\ Kept = 0 /\ Outstanding = 0
           /\ Count("accept") = 0 /\ Count("recv") = 0 /\ Count("send") = 0
           /\ Occurs(Owning, Waiting) = 0 /\ Occurs({"delSession"}, Waiting) = 0
           /\ Ender(stack[t]) = 1 /\ Endings = 1
           /\ \A u \in Threads : u # t => Occurs(Handling, stack[u]) = 0
<1>1. TypeInv /\ StackInv /\ QueueInv /\ EndInv
  BY DEF IInv, QuietInv
<1>2. FiniteThreads /\ \A u \in Threads : Enders[u] \in Nat /\ Enders[u] = Ender(stack[u]) /\ Ender(stack[u]) \in {0, 1}
  BY Finite, EnderType DEF Enders
<1>3. Ender(stack[t]) = 1
  BY DEF Ender
<1>4. /\ Enders[t] <= Total(Enders)
      /\ \A u \in Threads : u # t => Enders[t] + Enders[u] <= Total(Enders)
  BY <1>2, TotalBound
<1>5. Total(Enders) \in Nat /\ Occurs({"delSession"}, Waiting) \in Nat /\ Endings \in Nat
  BY <1>1, NumbersType
<1>6. Endings = 1 /\ Total(Enders) = 1 /\ Occurs({"delSession"}, Waiting) = 0 /\ Kept = 0
  BY <1>1, <1>2, <1>3, <1>4, <1>5 DEF EndInv, Endings
<1>7. /\ Outstanding \in Nat /\ Outstanding <= Kept /\ Occurs(Owning, Waiting) \in Nat /\ Occurs(Owning, Waiting) <= Kept
      /\ Total(Balances) <= Kept /\ Count("accept") \in Nat /\ Count("recv") \in Nat /\ Count("send") \in Nat
  BY <1>1, NumbersType, OutstandingType DEF Kinds, TypeInv
<1>8. Outstanding = 0 /\ Occurs(Owning, Waiting) = 0
  BY <1>6, <1>7
<1>9. Count("accept") = 0 /\ Count("recv") = 0 /\ Count("send") = 0
  BY <1>7, <1>8 DEF Outstanding
<1>10. ASSUME NEW u \in Threads, u # t
       PROVE  Occurs(Handling, stack[u]) = 0
  <2>1. Ender(stack[u]) = 0
    BY <1>2, <1>3, <1>4, <1>6, <1>10
  <2>2. Bal(stack[u]) = 0
    <3>1. Bal(stack[u]) <= Total(Balances) /\ Total(Balances) \in Nat /\ Bal(stack[u]) \in Nat
      BY <1>1, KeptBound, BalancesType
    <3> QED
      BY <1>6, <1>7, <3>1
  <2> QED
    BY <2>1, <2>2 DEF Ender
<1> QED
  BY <1>3, <1>6, <1>8, <1>9, <1>10

\* Of the steps of the session, nothing is on a stack under Base.
LEMMA BaseAlone ==
    ASSUME IInv, NEW t \in Threads, NEW x, At(t, x), Table[x] \subseteq Base, x \in Handling
    PROVE  /\ \A P : P \cap {"pop", "update"} = {} => Occurs(P, stack[t]) = In(x, P) /\ Occurs(P, Tail(stack[t])) = 0
           /\ Occurs(Handling, stack[t]) = 1
           /\ x \notin {"release", "hold"} \cup Adders => Bal(stack[t]) = 0
<1>1. stack[t] # <<>> /\ Head(stack[t]) = x /\ Good(Table, Tail(stack[t])) /\ Top(Tail(stack[t])) \in Base
  BY Below
<1>2. stack[t] \in Seq(Steps)
  BY StackTyped
<1>3. ASSUME NEW P, P \cap {"pop", "update"} = {}
      PROVE  Occurs(P, stack[t]) = In(x, P) /\ Occurs(P, Tail(stack[t])) = 0
  <2>1. Occurs(P, Tail(stack[t])) = 0
    BY <1>1, <1>3, BaseCounts DEF Table
  <2>2. Occurs(P, stack[t]) = Occurs(P, Tail(stack[t])) + In(Head(stack[t]), P)
    BY <1>1, <1>2, OccursTail
  <2> QED
    BY <1>1, <2>1, <2>2, InType
<1>4. Occurs(Handling, stack[t]) = 1
  <2>1. Handling \cap {"pop", "update"} = {} /\ In(x, Handling) = 1
    BY DEF Handling, Calls, Opening, Others, In
  <2> QED
    BY <1>3, <2>1
<1>5. ASSUME x \notin {"release", "hold"} \cup Adders
      PROVE  Bal(stack[t]) = 0
  <2>1. Occurs({"release"}, stack[t]) = In(x, {"release"}) /\ Occurs({"hold"}, stack[t]) = In(x, {"hold"})
    BY <1>3
  <2>2. Occurs(Adders, stack[t]) = In(x, Adders)
    BY <1>3 DEF Adders
  <2> QED
    BY <1>5, <2>1, <2>2 DEF Bal, In
<1> QED
  BY <1>3, <1>4, <1>5

\* On the stack of somebody alone is all there is of the session's steps.
LEMMA AloneLeft ==
    ASSUME SlotAssumption, StackInv, NEW t \in Threads, \A u \in Threads : u # t => Occurs(Handling, stack[u]) = 0,
           NEW P, P \subseteq Handling
    PROVE  Left(P) = Occurs(P, stack[t])
<1>1. FiniteThreads /\ stack \in [Threads -> Seq(Steps)]
  BY Finite DEF StackInv
<1>2. ASSUME NEW u \in Threads, u # t
      PROVE  Occurs(P, stack[u]) = 0
  <2>1. Occurs(Handling, stack[u]) = 0 /\ stack[u] \in Seq(Steps)
    BY <1>1, <1>2
  <2> QED
    BY <2>1, OccursZero
<1> QED
  BY <1>1, <1>2, LeftOne

LEMMA DelSessionKeeps ==
    ASSUME SlotAssumption, IInv, TypeInv', NEW t \in Threads, UNCHANGED <<jobs, mode>>, DelSession(t)
    PROVE  IInv'
<1>1. At(t, "delSession") /\ listed' = FALSE /\ listed \in BOOLEAN
      /\ Then(t, IF listed THEN <<"onDisconnected">> ELSE <<>>) /\ UNCHANGED <<refs, io, told, sending, calls>>
  BY DEF DelSession, IInv, TypeInv
<1>2. PICK a \in {"onDisconnected", "bottom"} : a = (IF listed THEN "onDisconnected" ELSE "bottom")
  OBVIOUS
<1>3. Moves(t, "delSession", "bottom", a, "bottom", "bottom")
  <2>1. CASE listed
    BY <1>1, <1>2, <2>1, StackTyped, ThenOne
  <2>2. CASE ~listed
    BY <1>1, <1>2, <2>2, StackTyped, ThenNone
  <2> QED
    BY <2>1, <2>2
<1>4. /\ Ordinary(t, "delSession", "bottom", a, "bottom", "bottom", 0)
      /\ a \in Opt(Steps) /\ "bottom" \in Opt(Steps)
  <2>1. Steady(mode, calls # 0, "delSession", "bottom", a, "bottom", "bottom")
    BY SteadySteps
  <2> QED
    BY <1>1, <1>3, <2>1, SameCounts, SteadyOrdinary
<1>5. TypeInv /\ StackInv /\ QueueInv /\ (calls = 0 => QuietInv)
  BY DEF IInv
<1>6. StackInv' /\ QueueInv' /\ CountInv' /\ Waiting' = Waiting /\ (calls = 0 => EndInv')
  BY <1>4, OrdinaryKeeps
<1>7. ASSUME calls = 0
      PROVE  OpenInv' /\ RecvInv' /\ SendInv' /\ ToldInv'
  <2>1. OpenInv /\ RecvInv /\ SendInv /\ ToldInv
    BY <1>5, <1>7 DEF QuietInv
  <2>2. "delSession" \in Steps /\ "delSession" \in Handling /\ Table["delSession"] \subseteq Base
    BY Lies DEF Table, Steps, Handling, Others
  <2>3. /\ \A P : P \cap {"pop", "update"} = {} => Occurs(P, stack[t]) = In("delSession", P)
        /\ Occurs(Handling, stack[t]) = 1 /\ Bal(stack[t]) = 0
    BY <1>1, <2>2, BaseAlone DEF Adders
  <2>4. /\ Count("recv") = 0 /\ Count("send") = 0 /\ Occurs(Owning, Waiting) = 0
        /\ \A u \in Threads : u # t => Occurs(Handling, stack[u]) = 0
    BY <1>7, <2>3, Alone
  <2>5. ASSUME NEW P, P \subseteq Handling
        PROVE  Left(P) = In("delSession", P)
    <3>1. P \cap {"pop", "update"} = {}
      BY <2>5 DEF Handling, Calls, Opening, Others
    <3> QED
      BY <1>5, <2>3, <2>4, <2>5, <3>1, AloneLeft
  <2>6. /\ Left({"recv", "wsaRecv"}) = 0 /\ Left({"wsaSend", "sended"}) = 0 /\ Left({"message", "makeRecv", "addRecv"}) = 0
        /\ Left({"onConnected"}) = 0 /\ Left({"onDisconnected"}) = 0
    BY <2>5 DEF Handling, Calls, Others, In
  <2>7. Occurs({"message"}, Waiting) = 0
    <3>1. Waiting \in Seq(JobKinds)
      BY <1>5, WaitingType
    <3> QED
      BY <2>4, <3>1, OccursZero DEF Owning
  <2>8. Receives = 0 /\ Sends = 0 /\ Messages = 0 /\ Telling = 0 /\ Untelling = 0
    BY <2>4, <2>6, <2>7 DEF Receives, Sends, Messages, Telling, Untelling
  <2>9. Accepts = 0
    BY <1>1, <1>5, <2>1, Accepting DEF Noisy, Others
  <2>10. /\ Count("accept")' = Count("accept") /\ Count("recv")' = Count("recv") /\ Count("send")' = Count("send")
         /\ Count("accept") \in Nat
         /\ \A P : Occurs(P, Waiting)' = Occurs(P, Waiting) /\ Occurs(P, Waiting) \in Nat
    BY <1>1, <1>5, <1>6, SameCounts, NumbersType DEF Kinds
  <2>11. /\ Net(Opening, "delSession", "bottom", a, "bottom", "bottom") = 0
         /\ Net({"recv", "wsaRecv"}, "delSession", "bottom", a, "bottom", "bottom") = 0
         /\ Net({"wsaSend", "sended"}, "delSession", "bottom", a, "bottom", "bottom") = 0
         /\ Net({"message", "makeRecv", "addRecv"}, "delSession", "bottom", a, "bottom", "bottom") = 0
         /\ Net({"onConnected"}, "delSession", "bottom", a, "bottom", "bottom") = 0
         /\ Net({"onDisconnected"}, "delSession", "bottom", a, "bottom", "bottom") = In(a, {"onDisconnected"})
    BY DEF Net, In, Opening
  <2>12. Accepts' = Accepts + Count("accept")' - Count("accept") + Net(Opening, "delSession", "bottom", a, "bottom", "bottom")
             + Occurs({"accepted", "acceptFailed"}, Waiting)' - Occurs({"accepted", "acceptFailed"}, Waiting)
    BY <1>3, <1>4, <1>5, <1>6, OpenNumbers
  <2>13. /\ Receives' = Receives + Count("recv")' - Count("recv") + Net({"recv", "wsaRecv"}, "delSession", "bottom", a, "bottom", "bottom")
         /\ Sends' = Sends + Count("send")' - Count("send") + Net({"wsaSend", "sended"}, "delSession", "bottom", a, "bottom", "bottom")
         /\ Messages' = Messages + Net({"message", "makeRecv", "addRecv"}, "delSession", "bottom", a, "bottom", "bottom")
                            + Occurs({"message"}, Waiting)' - Occurs({"message"}, Waiting)
         /\ Telling' = Telling + Net({"onConnected"}, "delSession", "bottom", a, "bottom", "bottom")
         /\ Untelling' = Untelling + Net({"onDisconnected"}, "delSession", "bottom", a, "bottom", "bottom")
    BY <1>3, <1>4, <1>5, <1>6, TrafficNumbers
  <2>14. /\ Occurs({"accepted", "acceptFailed"}, Waiting)' = Occurs({"accepted", "acceptFailed"}, Waiting)
         /\ Occurs({"accepted", "acceptFailed"}, Waiting) \in Nat /\ Occurs({"message"}, Waiting)' = 0
    BY <2>7, <2>10
  <2>15. Accepts' = 0 /\ Receives' = 0 /\ Sends' = 0 /\ Messages' = 0 /\ Telling' = 0
    BY <2>4, <2>7, <2>8, <2>9, <2>10, <2>11, <2>12, <2>13, <2>14
  <2>16. Untelling' = In(a, {"onDisconnected"}) /\ In(a, {"onDisconnected"}) = IF listed THEN 1 ELSE 0
    BY <1>1, <1>2, <2>8, <2>11, <2>13, InType DEF In
  <2>17. told = listed /\ told' = told
    BY <1>1, <2>1, <2>8 DEF ToldInv
  <2>18. OpenInv' /\ RecvInv' /\ SendInv'
    BY <1>1, <2>15 DEF OpenInv, RecvInv, SendInv
  <2>19. /\ Telling' = 0 /\ Messages' = 0 /\ listed' = FALSE
         /\ (Untelling' = 1 /\ told' = TRUE) \/ (Untelling' = 0 /\ told' = FALSE)
    <3>1. CASE listed = TRUE
      BY <1>1, <2>15, <2>16, <2>17, <3>1
    <3>2. CASE listed = FALSE
      BY <1>1, <2>15, <2>16, <2>17, <3>2
    <3> QED
      BY <1>1, <3>1, <3>2
  <2>20. ToldInv'
    <3>1. CASE Untelling' = 1 /\ told' = TRUE
      BY ONLY <2>19, <3>1 DEF ToldInv
    <3>2. CASE Untelling' = 0 /\ told' = FALSE
      <4>1. told' = listed'
        BY ONLY <2>19, <3>2, Zenon
      <4>2. Telling' = 0 /\ Untelling' = 0 /\ Messages' = 0
        BY ONLY <2>19, <3>2
      <4> QED
        BY ONLY <4>1, <4>2 DEF ToldInv
    <3> QED
      BY <2>19, <3>1, <3>2
  <2> QED
    BY <2>18, <2>20
<1> QED
  BY <1>6, <1>7, <1>1 DEF IInv, QuietInv

\* Nobody does anything for the session.
LEMMA Nobody ==
    ASSUME SlotAssumption, StackInv', \A u \in Threads : Occurs(Handling, stack'[u]) = 0
    PROVE  /\ \A P : P \subseteq Handling => Left(P)' = 0
           /\ Total(Greetings)' = 0
<1>1. \A u \in Threads : stack'[u] \in Seq(Steps)
  BY DEF StackInv
<1>2. ASSUME NEW P, P \subseteq Handling, NEW u \in Threads
      PROVE  Occurs(P, stack'[u]) = 0
  <2>1. Occurs(Handling, stack'[u]) = 0 /\ stack'[u] \in Seq(Steps)
    BY <1>1
  <2> QED
    BY <1>2, <2>1, OccursZero
<1>3. ASSUME NEW P, P \subseteq Handling
      PROVE  Left(P)' = 0
  <2> DEFINE f == [u \in Threads |-> Occurs(P, stack'[u])]
  <2>1. \A u \in Threads : f[u] = 0
    BY <1>2, <1>3
  <2>2. Total(f) = 0
    BY <2>1, TotalZero
  <2> QED
    BY <2>2 DEF Left, Total, Points
<1>4. \A u \in Threads : Greetings'[u] = 0
  <2>1. OnHandshake(mode') \subseteq Handling /\ {"handshake"} \subseteq Handling
    BY DEF OnHandshake, Handling, Opening, Calls
  <2>2. \A u \in Threads : Occurs(OnHandshake(mode'), stack'[u]) = 0 /\ Occurs({"handshake"}, stack'[u]) = 0
    BY <1>2, <2>1
  <2> QED
    BY <2>2 DEF Greetings, Greets
<1>5. Total(Greetings') = 0
  BY <1>4, TotalZero
<1> QED
  BY <1>3, <1>5 DEF Total, Points

\* AcceptEx: n is the reference that Accept takes for it now; AcceptWs has it already.
LEMMA AcceptedExKeeps ==
    ASSUME SlotAssumption, IInv, TypeInv', NEW t \in Threads, UNCHANGED <<jobs, mode>>,
           NEW n, n = (IF mode = "ws" THEN 0 ELSE 1),
           At(t, "acceptEx"), Then(t, <<>>), refs' = refs + n, io' = Posted("accept"),
           UNCHANGED <<listed, told, sending, calls>>
    PROVE  IInv'
<1>1. Moves(t, "acceptEx", "bottom", "bottom", "bottom", "bottom") /\ "bottom" \in Opt(Steps)
  BY StackTyped, ThenNone DEF Opt
<1>2. TypeInv /\ StackInv /\ QueueInv /\ CountInv /\ (calls = 0 => QuietInv)
  BY DEF IInv
<1>3. Count("accept")' = Count("accept") + 1 /\ \A y \in Kinds : y # "accept" => Count(y)' = Count(y)
  BY <1>2, PostedCounts DEF TypeInv, IoType, Kinds
<1>4. /\ Count("accept") \in Nat /\ Count("recv") \in Nat /\ Count("send") \in Nat
      /\ Count("recv")' = Count("recv") /\ Count("send")' = Count("send")
  BY <1>2, <1>3, NumbersType DEF Kinds
<1>5. Outstanding \in Nat /\ Outstanding' = Outstanding + 1
  BY <1>3, <1>4 DEF Outstanding
<1>6. /\ NetBal("acceptEx", "bottom", "bottom", "bottom", "bottom") = 0
      /\ Reserving(mode, "acceptEx", "bottom", "bottom", "bottom", "bottom") = IF mode = "ws" THEN -1 ELSE 0
  BY DEF NetBal, Reserving, Net, In, Adders
<1>7. StackInv'
  <2>1. Fits(Table, "acceptEx", "bottom", "bottom", "bottom", "bottom")
    BY DEF Fits, Linked
  <2> QED
    BY <1>1, <1>2, <2>1, StackMoves
<1>8. QueueInv' /\ Waiting' = Waiting
  <2>1. /\ Net({"pop"}, "acceptEx", "bottom", "bottom", "bottom", "bottom") = 0
        /\ Net({"update"}, "acceptEx", "bottom", "bottom", "bottom", "bottom") = 0
    BY NoneNet
  <2> QED
    BY <1>1, <1>2, <2>1, OrdinaryQueue
<1>9. /\ Occurs(Owning, Waiting)' = Occurs(Owning, Waiting) + 0
      /\ \A P : Occurs(P, Waiting) \in Nat /\ Occurs(P, Waiting)' = Occurs(P, Waiting)
  BY <1>2, <1>8, NumbersType
<1>10. CountInv'
  <2>1. n \in Int /\ n = 1 + 0 + NetBal("acceptEx", "bottom", "bottom", "bottom", "bottom")
                           + Reserving(mode, "acceptEx", "bottom", "bottom", "bottom", "bottom")
    BY <1>6
  <2> QED
    BY <1>1, <1>2, <1>5, <1>7, <1>9, <2>1, OrdinaryCount
<1>11. ASSUME calls = 0
       PROVE  QuietInv'
  <2>1. EndInv /\ OpenInv /\ RecvInv /\ SendInv /\ ToldInv
    BY <1>2, <1>11 DEF QuietInv
  <2>2. "acceptEx" \in Steps /\ "acceptEx" \in Handling /\ Table["acceptEx"] \subseteq Base
    BY Lies DEF Table, Steps, Handling, Others
  <2>3. /\ \A P : P \cap {"pop", "update"} = {} => Occurs(P, Tail(stack[t])) = 0
        /\ Occurs(Handling, stack[t]) = 1 /\ Bal(stack[t]) = 0
    <3>1. "acceptEx" \notin {"release", "hold"} \cup Adders
      BY DEF Adders
    <3> QED
      BY <2>2, <3>1, BaseAlone
  <2>4. /\ Count("recv") = 0 /\ Count("send") = 0 /\ Occurs(Owning, Waiting) = 0 /\ Occurs({"delSession"}, Waiting) = 0
        /\ Ender(stack[t]) = 1 /\ Endings = 1 /\ Count("accept") = 0
        /\ \A u \in Threads : u # t => Occurs(Handling, stack[u]) = 0
    BY <1>11, <2>3, Alone
  <2>5. \A u \in Threads : Occurs(Handling, stack'[u]) = 0
    <3>1. stack'[t] = Tail(stack[t]) /\ \A u \in Threads : u # t => stack'[u] = stack[u]
      BY <1>2 DEF Then, StackInv
    <3>2. Handling \cap {"pop", "update"} = {}
      BY DEF Handling, Calls, Opening, Others
    <3> QED
      BY <2>3, <2>4, <3>1, <3>2
  <2>6. (\A P : P \subseteq Handling => Left(P)' = 0) /\ Total(Greetings)' = 0
    BY <1>7, <2>5, Nobody
  <2>7. /\ Left(Opening)' = 0 /\ Left(Noisy)' = 0 /\ Left(After)' = 0
        /\ Left({"recv", "wsaRecv"})' = 0 /\ Left({"wsaSend", "sended"})' = 0
        /\ Left({"message", "makeRecv", "addRecv"})' = 0 /\ Left({"onConnected"})' = 0 /\ Left({"onDisconnected"})' = 0
    <3>1. /\ Opening \subseteq Handling /\ Noisy \subseteq Handling /\ After \subseteq Handling
          /\ {"recv", "wsaRecv"} \subseteq Handling /\ {"wsaSend", "sended"} \subseteq Handling
          /\ {"message", "makeRecv", "addRecv"} \subseteq Handling
          /\ {"onConnected"} \subseteq Handling /\ {"onDisconnected"} \subseteq Handling
      BY DEF Handling, Noisy, After, Calls, Others
    <3> QED
      BY <2>6, <3>1
  <2>8. /\ Occurs({"accepted", "acceptFailed"}, Waiting)' = 0 /\ Occurs({"message", "delSession"}, Waiting)' = 0
        /\ Occurs({"message"}, Waiting)' = 0 /\ Occurs({"delSession"}, Waiting)' = 0
    <3>1. Waiting \in Seq(JobKinds)
      BY <1>2, WaitingType
    <3>2. \A i \in 1..Len(Waiting) : Waiting[i] \notin Owning /\ Waiting[i] # "delSession"
      BY <2>4, <3>1, OccursZero
    <3>3. /\ Occurs({"accepted", "acceptFailed"}, Waiting) = 0 /\ Occurs({"message", "delSession"}, Waiting) = 0
          /\ Occurs({"message"}, Waiting) = 0
      BY <3>1, <3>2, OccursZero DEF Owning
    <3> QED
      BY <1>9, <2>4, <3>3
  <2>9. Accepts' = 1 /\ Traffic' = 0
    BY <1>3, <1>4, <2>4, <2>6, <2>7, <2>8 DEF Accepts, Traffic
  <2>10. Receives' = 0 /\ Sends' = 0 /\ Messages' = 0 /\ Telling' = 0 /\ Untelling' = 0
    BY <1>4, <2>4, <2>7, <2>8 DEF Receives, Sends, Messages, Telling, Untelling
  <2>11. ~listed
    <3>1. Left(After) >= 1 /\ Left(After) \in Nat
      BY <1>2, LeftAt DEF After
    <3> QED
      BY <2>1, <3>1 DEF OpenInv
  <2>12. Endings' = 0
    <3>1. \A u \in Threads : Enders'[u] = 0
      BY <2>5 DEF Enders, Ender
    <3>2. Total(Enders)' = 0
      BY <3>1, TotalZero DEF Total, Points
    <3> QED
      BY <2>8, <3>2 DEF Endings
  <2>13. told' = FALSE
    <3>1. Receives = 0 /\ Telling = 0 /\ Untelling = 0
      <4>1. "onConnected" \in Handling /\ "onDisconnected" \in Handling
        BY DEF Handling, Others
      <4>2. Left({"onConnected"}) = Occurs({"onConnected"}, stack[t]) /\ Left({"onDisconnected"}) = Occurs({"onDisconnected"}, stack[t])
        BY <1>2, <2>4, <4>1, AloneLeft
      <4>3. Occurs({"onConnected"}, stack[t]) = 0 /\ Occurs({"onDisconnected"}, stack[t]) = 0
        <5>1. /\ Occurs({"onConnected"}, stack[t]) = In("acceptEx", {"onConnected"})
              /\ Occurs({"onDisconnected"}, stack[t]) = In("acceptEx", {"onDisconnected"})
          BY <2>2, BaseAlone
        <5> QED
          BY <5>1 DEF In
      <4>4. Left({"recv", "wsaRecv"}) = 0
        <5>1. {"recv", "wsaRecv"} \subseteq Handling
          BY DEF Handling, Calls
        <5>2. Left({"recv", "wsaRecv"}) = Occurs({"recv", "wsaRecv"}, stack[t])
          BY <1>2, <2>4, <5>1, AloneLeft
        <5>3. Occurs({"recv", "wsaRecv"}, stack[t]) = In("acceptEx", {"recv", "wsaRecv"})
          BY <2>2, BaseAlone
        <5> QED
          BY <5>2, <5>3 DEF In
      <4> QED
        BY <2>4, <4>2, <4>3, <4>4 DEF Receives, Telling, Untelling
    <3>2. told = listed /\ listed \in BOOLEAN
      BY <1>2, <2>1, <3>1 DEF ToldInv, TypeInv
    <3> QED
      BY <2>11, <3>2
  <2> QED
    <3>1. EndInv' /\ OpenInv' /\ RecvInv' /\ SendInv'
      BY <2>9, <2>10, <2>11, <2>12 DEF EndInv, OpenInv, RecvInv, SendInv
    <3>2. /\ Telling' + Untelling' = 0 /\ Telling' # 1 /\ Untelling' # 1 /\ Messages' = 0
          /\ told' = listed'
      BY <1>2, <2>10, <2>11, <2>13 DEF TypeInv
    <3>3. ToldInv'
      BY ONLY <3>2 DEF ToldInv
    <3> QED
      BY <3>1, <3>3 DEF QuietInv
<1> QED
  BY <1>7, <1>8, <1>10, <1>11 DEF IInv

LEMMA AcceptExOkKeeps ==
    ASSUME SlotAssumption, IInv, TypeInv', NEW t \in Threads, UNCHANGED <<jobs, mode>>, mode # "ws", AcceptExOk(t)
    PROVE  IInv'
  BY AcceptedExKeeps DEF AcceptExOk, Reference

LEMMA WsAcceptExOkKeeps ==
    ASSUME SlotAssumption, IInv, TypeInv', NEW t \in Threads, UNCHANGED <<jobs, mode>>, mode = "ws", W!AcceptExOk(t)
    PROVE  IInv'
<1>1. At(t, "acceptEx") /\ Then(t, <<>>) /\ io' = Posted("accept")
  BY DEF W!AcceptExOk, W!At, W!Then, W!Posted, At, Then, Posted
<1>2. refs' = refs + 0 /\ UNCHANGED <<listed, told, sending, calls>>
  BY KeptType DEF W!AcceptExOk
<1> QED
  BY <1>1, <1>2, AcceptedExKeeps

-----------------------------------------------------------------------------
(***************************************************************************)
(* The last Release, the jobs, the completions and the calls               *)
(***************************************************************************)
\* A Release that is not the last lies on what keeps a reference, or on nothing.
LEMMA CallsFirm ==
    ASSUME NEW m, NEW n, NEW s, Good(MayLie(m, n), s), Top(s) \in Calls
    PROVE  Bal(s) >= 1
<1>1. s \in Seq(Steps)
  BY StackType
<1>2. Occurs({"release"}, s) \in Nat /\ Occurs(Adders, s) \in Nat
  BY <1>1, OccursType
<1>3. "hold" \notin Calls /\ "bottom" \notin Calls
  BY DEF Calls
<1>4. Occurs({"hold"}, s) = 0
  BY <1>3, BalType
<1>5. s # <<>> /\ Head(s) = Top(s)
  BY <1>3 DEF Top
<1>6. 1 \in 1..Len(s) /\ s[1] \in Calls /\ Len(s) \in Nat
  BY <1>1, <1>5, TailProperties, LenProperties
<1>7. PICK U : U = MayLie(m, n) /\ Good(U, s) /\ Closed(U, Calls, "release")
  <2>1. \A x \in Steps : x \in Calls /\ x # "release" => MayLie(m, n)[x] \subseteq Calls
    <3>1. Calls \subseteq Steps
      BY DEF Steps, Handling
    <3>2. \A x \in {"recv", "wsaRecv", "handshake", "ping"} : MayLie(m, n)[x] \subseteq {"release", "handshake"}
      BY Lies
    <3> QED
      BY <3>2 DEF Calls
  <2>2. Closed(MayLie(m, n), Calls, "release")
    BY <1>3, <2>1, LiesDomain DEF Closed
  <2> QED
    BY <2>2
<1>8. PICK j \in 1..Len(s) : s[j] = "release"
  BY <1>6, <1>7, LastBelow
<1>9. Occurs({"release"}, s) >= 1
  BY <1>1, <1>8, OccursSome
<1> QED
  BY <1>2, <1>4, <1>9 DEF Bal

LEMMA BalTail ==
    ASSUME NEW s \in Seq(Steps), s # <<>>
    PROVE  /\ Bal(s) = Bal(Tail(s)) + In(Head(s), {"release"}) + In(Head(s), Adders) - In(Head(s), {"hold"})
           /\ Tail(s) \in Seq(Steps) /\ Bal(Tail(s)) \in Int
<1>1. Tail(s) \in Seq(Steps)
  BY TailProperties
<1>2. ASSUME NEW P
      PROVE  Occurs(P, s) = Occurs(P, Tail(s)) + In(Head(s), P) /\ Occurs(P, Tail(s)) \in Nat /\ In(Head(s), P) \in Nat
  BY <1>1, OccursTail, OccursType, InType
<1>3. /\ Occurs({"release"}, s) = Occurs({"release"}, Tail(s)) + In(Head(s), {"release"})
      /\ Occurs({"release"}, Tail(s)) \in Nat /\ In(Head(s), {"release"}) \in Nat
      /\ Occurs({"hold"}, s) = Occurs({"hold"}, Tail(s)) + In(Head(s), {"hold"})
      /\ Occurs({"hold"}, Tail(s)) \in Nat /\ In(Head(s), {"hold"}) \in Nat
  BY <1>2
<1>4. /\ Occurs(Adders, s) = Occurs(Adders, Tail(s)) + In(Head(s), Adders)
      /\ Occurs(Adders, Tail(s)) \in Nat /\ In(Head(s), Adders) \in Nat
  BY <1>2
<1> QED
  BY <1>1, <1>3, <1>4 DEF Bal

\* While an accept goes on, somebody keeps a reference to it: a completion, a job or a
\* thread in its handler.
LEMMA AcceptKeeps ==
    ASSUME SlotAssumption, TypeInv, StackInv, QueueInv, calls = 0, NEW t \in Threads, At(t, "release"), Accepts # 0
    PROVE  Kept >= 2
<1>1. /\ Count("accept") \in Nat /\ Left(Opening) \in Nat /\ Occurs({"accepted", "acceptFailed"}, Waiting) \in Nat
      /\ Occurs(Owning, Waiting) \in Nat /\ Total(Balances) \in Nat /\ Outstanding \in Nat
      /\ Count("recv") \in Nat /\ Count("send") \in Nat
  BY NumbersType, KeptBound, OutstandingType DEF Kinds, TypeInv
<1>2. Bal(stack[t]) >= 1 /\ Bal(stack[t]) \in Nat
  <2>1. Good(MayLie(mode, FALSE), stack[t]) /\ Top(stack[t]) \in Firm
    BY DEF StackInv, Table, At, Top, Firm, Calls
  <2> QED
    BY <2>1, BalFirm, BalType
<1>3. Bal(stack[t]) <= Total(Balances) /\ \A u \in Threads : u # t => Bal(stack[t]) + Bal(stack[u]) <= Total(Balances)
  BY KeptBound
<1>4. CASE Count("accept") # 0
  BY <1>1, <1>2, <1>3, <1>4 DEF Kept, Outstanding
<1>5. CASE Occurs({"accepted", "acceptFailed"}, Waiting) # 0
  <2>1. Waiting \in Seq(JobKinds)
    BY WaitingType
  <2>2. Occurs(Owning, Waiting) # 0
    BY <1>5, <2>1, OccursZero DEF Owning
  <2> QED
    BY <1>1, <1>2, <1>3, <2>2 DEF Kept
<1>6. CASE Left(Opening) # 0
  <2>1. FiniteThreads /\ stack \in [Threads -> Seq(Steps)]
    BY Finite DEF StackInv
  <2>2. PICK u \in Threads : Occurs(Opening, stack[u]) # 0
    BY <1>6, <2>1, LeftZero
  <2>3. Good(MayLie(mode, FALSE), stack[u])
    BY DEF StackInv, Table
  <2>4. Top(stack[u]) \in Opening
    BY <2>2, <2>3, OpeningTop
  <2>5. Bal(stack[u]) >= 1 /\ Bal(stack[u]) \in Nat
    BY <2>3, <2>4, BalFirm, BalType DEF Firm
  <2>6. u # t
    <3>1. "release" \notin Opening
      BY DEF Opening
    <3> QED
      BY <2>4, <3>1 DEF At, Top
  <2> QED
    BY <1>1, <1>2, <1>3, <2>5, <2>6 DEF Kept
<1> QED
  BY <1>1, <1>4, <1>5, <1>6 DEF Accepts

LEMMA ReleaseKeeps ==
    ASSUME SlotAssumption, IInv, TypeInv', NEW t \in Threads, UNCHANGED <<jobs, mode>>, Release(t)
    PROVE  IInv'
<1>1. At(t, "release") /\ refs' = refs - 1 /\ UNCHANGED <<io, listed, told, sending, calls>>
      /\ Then(t, IF refs = 1 THEN <<"clear">> ELSE <<>>)
  BY DEF Release
<1>2. PICK a \in {"clear", "bottom"} : a = (IF refs = 1 THEN "clear" ELSE "bottom")
  OBVIOUS
<1>3. Moves(t, "release", "bottom", a, "bottom", "bottom") /\ a \in Opt(Steps) /\ "bottom" \in Opt(Steps)
  <2>1. CASE refs = 1
    BY <1>1, <1>2, <2>1, StackTyped, ThenOne DEF Opt, Steps, Handling, Others
  <2>2. CASE refs # 1
    BY <1>1, <1>2, <2>2, StackTyped, ThenNone DEF Opt
  <2> QED
    BY <2>1, <2>2
<1>4. TypeInv /\ StackInv /\ QueueInv /\ CountInv /\ (calls = 0 => QuietInv)
  BY DEF IInv
<1>5. Kept \in Nat /\ Reserved \in Nat /\ refs \in Nat /\ refs = Kept + Reserved
  BY KeptType
<1>6. PICK r : r = Tail(stack[t]) /\ Good(Table, r) /\ Top(r) \in Calls \cup Base
  <2>1. Table["release"] = Calls \cup Base
    BY Lies DEF Table
  <2> QED
    BY <1>1, <2>1, Below
<1>7. Bal(stack[t]) = Bal(r) + 1 /\ Bal(r) \in Nat
  <2>1. stack[t] # <<>> /\ Head(stack[t]) = "release" /\ stack[t] \in Seq(Steps)
    BY <1>1, StackTyped DEF At
  <2>2. In("release", {"release"}) = 1 /\ In("release", Adders) = 0 /\ In("release", {"hold"}) = 0
    BY DEF In, Adders
  <2>3. Bal(r) \in Nat
    BY <1>6, BalType DEF Table
  <2> QED
    BY <1>6, <2>1, <2>2, <2>3, BalTail
<1>8. Bal(stack[t]) <= Kept /\ Kept >= 1
  BY <1>4, <1>5, <1>7, NumbersType, KeptBound
<1>9. refs = 1 => Top(r) \in Base
  <2>1. Top(r) \in Calls => Bal(r) >= 1
    BY <1>6, CallsFirm DEF Table
  <2> QED
    BY <1>5, <1>6, <1>7, <1>8, <2>1
<1>10. StackInv'
  <2>1. Under("release", "bottom", stack[t]) = r
    BY <1>6 DEF Under, Off
  <2>2. Linked(Table, a, "bottom", "bottom", Top(r))
    <3>1. Table["clear"] = Base /\ "clear" \in DOMAIN Table
      BY Lies DEF Table, Steps, Handling, Others
    <3> QED
      BY <1>2, <1>9, <3>1 DEF Linked
  <2> QED
    BY <1>1, <1>3, <1>4, <2>1, <2>2, StackLinked
<1>11. QueueInv' /\ Waiting' = Waiting
  <2>1. Net({"pop"}, "release", "bottom", a, "bottom", "bottom") = 0 /\ Net({"update"}, "release", "bottom", a, "bottom", "bottom") = 0
    BY NoneNet
  <2> QED
    BY <1>3, <1>4, <2>1, OrdinaryQueue
<1>12. /\ \A x \in Kinds : Count(x)' = Count(x)
       /\ Count("accept") \in Nat /\ Count("recv") \in Nat /\ Count("send") \in Nat
       /\ \A P : Occurs(P, Waiting) \in Nat /\ Occurs(P, Waiting)' = Occurs(P, Waiting)
  BY <1>1, <1>4, <1>11, SameCounts, NumbersType DEF Kinds
<1>13. /\ NetBal("release", "bottom", a, "bottom", "bottom") = -1
       /\ Reserving(mode, "release", "bottom", a, "bottom", "bottom") = 0
  BY DEF NetBal, Reserving, Net, In, Adders
<1>14. CountInv' /\ Kept' = Kept - 1
  <2>1. Outstanding \in Nat /\ Outstanding' = Outstanding + 0 /\ Occurs(Owning, Waiting)' = Occurs(Owning, Waiting) + 0
    BY <1>4, <1>12, OutstandingType DEF Outstanding, Kinds, TypeInv
  <2>2. refs' = refs + (-1)
    BY <1>1, <1>5
  <2>3. -1 = 0 + 0 + NetBal("release", "bottom", a, "bottom", "bottom") + Reserving(mode, "release", "bottom", a, "bottom", "bottom")
    BY <1>13
  <2>4. CountInv' /\ Kept' = Kept + 0 + 0 + NetBal("release", "bottom", a, "bottom", "bottom")
    BY <1>1, <1>3, <1>4, <1>10, <2>1, <2>2, <2>3, OrdinaryCount
  <2> QED
    BY <1>5, <1>13, <2>4
<1>15. ASSUME calls = 0
       PROVE  QuietInv'
  <2>1. EndInv /\ OpenInv /\ RecvInv /\ SendInv /\ ToldInv
    BY <1>4, <1>15 DEF QuietInv
  <2>2. EndInv'
    <3>1. Endings = 0
      BY <1>4, <1>8, <2>1, NumbersType DEF EndInv
    <3>2. /\ Total(Enders) \in Nat /\ Total(Enders)' \in Nat
          /\ Ender(stack[t]) \in {0, 1} /\ Ender(stack'[t]) \in {0, 1} /\ Ender(stack[t]) <= Total(Enders)
          /\ Total(Enders)' = Total(Enders) + Ender(stack'[t]) - Ender(stack[t])
      BY <1>3, <1>4, <1>10, EndersMoves
    <3>3. Occurs({"delSession"}, Waiting) \in Nat /\ Occurs({"delSession"}, Waiting)' = Occurs({"delSession"}, Waiting)
      BY <1>12
    <3>4. Endings' = Ender(stack'[t])
      BY <3>1, <3>2, <3>3 DEF Endings
    <3>5. CASE refs = 1
      BY <1>5, <1>8, <1>14, <3>2, <3>4, <3>5 DEF EndInv
    <3>6. CASE refs # 1
      <4>1. stack'[t] = r
        BY <1>1, <1>4, <1>6, <3>6 DEF Then, StackInv
      <4>2. CASE Top(r) \in Calls
        <5>1. Bal(r) >= 1
          BY <1>6, <4>2, CallsFirm DEF Table
        <5> QED
          BY <1>7, <3>4, <4>1, <5>1 DEF EndInv, Ender
      <4>3. CASE Top(r) \in Base
        <5>1. Handling \cap {"pop", "update"} = {}
          BY DEF Handling, Calls, Opening, Others
        <5>2. Occurs(Handling, r) = 0
          BY <1>6, <4>3, <5>1, BaseCounts DEF Table
        <5> QED
          BY <3>4, <4>1, <5>2 DEF EndInv, Ender
      <4> QED
        BY <1>6, <4>2, <4>3
    <3> QED
      BY <3>5, <3>6
  <2>3. OpenInv'
    <3>1. /\ Accepts \in Nat /\ Traffic \in Nat /\ Accepts' \in Nat /\ Traffic' \in Nat
          /\ Accepts' = Accepts + Count("accept")' - Count("accept") + Net(Opening, "release", "bottom", a, "bottom", "bottom")
               + Occurs({"accepted", "acceptFailed"}, Waiting)' - Occurs({"accepted", "acceptFailed"}, Waiting)
          /\ Traffic' = Traffic + Count("recv")' - Count("recv") + Count("send")' - Count("send")
               + Net(Noisy, "release", "bottom", a, "bottom", "bottom") + NetGreets(mode, "release", "bottom", a, "bottom", "bottom")
               + Occurs({"message", "delSession"}, Waiting)' - Occurs({"message", "delSession"}, Waiting)
          /\ Left(After) \in Nat /\ Left(After)' = Left(After) + Net(After, "release", "bottom", a, "bottom", "bottom")
      BY <1>1, <1>3, <1>4, <1>10, <1>11, OpenNumbers
    <3>2. /\ Net(Opening, "release", "bottom", a, "bottom", "bottom") = 0 /\ Net(After, "release", "bottom", a, "bottom", "bottom") = 0
          /\ NetGreets(mode, "release", "bottom", a, "bottom", "bottom") = 0
          /\ a = "bottom" => Net(Noisy, "release", "bottom", a, "bottom", "bottom") = 0
      BY DEF Net, NetGreets, In, Opening, After, OnHandshake, Noisy, Others
    <3>3. /\ Count("accept")' = Count("accept") /\ Count("recv")' = Count("recv") /\ Count("send")' = Count("send")
          /\ Occurs({"accepted", "acceptFailed"}, Waiting)' = Occurs({"accepted", "acceptFailed"}, Waiting)
          /\ Occurs({"accepted", "acceptFailed"}, Waiting) \in Nat
          /\ Occurs({"message", "delSession"}, Waiting)' = Occurs({"message", "delSession"}, Waiting)
          /\ Occurs({"message", "delSession"}, Waiting) \in Nat
      BY <1>12 DEF Kinds
    <3>4. Accepts' = Accepts /\ Left(After)' = Left(After) /\ (a = "bottom" => Traffic' = Traffic)
      BY <1>12, <3>1, <3>2, <3>3
    <3>5. refs = 1 => Accepts = 0
      BY <1>1, <1>4, <1>5, <1>15, AcceptKeeps
    <3> QED
      BY <1>1, <1>2, <2>1, <3>4, <3>5 DEF OpenInv
  <2>4. RecvInv' /\ SendInv' /\ ToldInv'
    <3>1. /\ Receives' = Receives + Count("recv")' - Count("recv") + Net({"recv", "wsaRecv"}, "release", "bottom", a, "bottom", "bottom")
          /\ Sends' = Sends + Count("send")' - Count("send") + Net({"wsaSend", "sended"}, "release", "bottom", a, "bottom", "bottom")
          /\ Messages' = Messages + Net({"message", "makeRecv", "addRecv"}, "release", "bottom", a, "bottom", "bottom")
                              + Occurs({"message"}, Waiting)' - Occurs({"message"}, Waiting)
          /\ Telling' = Telling + Net({"onConnected"}, "release", "bottom", a, "bottom", "bottom")
          /\ Untelling' = Untelling + Net({"onDisconnected"}, "release", "bottom", a, "bottom", "bottom")
          /\ Receives \in Nat /\ Sends \in Nat /\ Messages \in Nat /\ Telling \in Nat /\ Untelling \in Nat
      BY <1>3, <1>4, <1>11, TrafficNumbers
    <3>2. /\ Net({"recv", "wsaRecv"}, "release", "bottom", a, "bottom", "bottom") = 0
          /\ Net({"wsaSend", "sended"}, "release", "bottom", a, "bottom", "bottom") = 0
          /\ Net({"message", "makeRecv", "addRecv"}, "release", "bottom", a, "bottom", "bottom") = 0
          /\ Net({"onConnected"}, "release", "bottom", a, "bottom", "bottom") = 0
          /\ Net({"onDisconnected"}, "release", "bottom", a, "bottom", "bottom") = 0
      BY DEF Net, In
    <3>3. /\ Count("recv")' = Count("recv") /\ Count("send")' = Count("send")
          /\ Occurs({"message"}, Waiting) \in Nat /\ Occurs({"message"}, Waiting)' = Occurs({"message"}, Waiting)
      BY <1>12 DEF Kinds
    <3>4. Receives' = Receives /\ Sends' = Sends /\ Messages' = Messages /\ Telling' = Telling /\ Untelling' = Untelling
      BY <1>12, <3>1, <3>2, <3>3
    <3> QED
      BY <1>1, <2>1, <3>4 DEF RecvInv, SendInv, ToldInv
  <2> QED
    BY <2>2, <2>3, <2>4 DEF QuietInv
<1> QED
  BY <1>1, <1>10, <1>11, <1>14, <1>15 DEF IInv


\* A job is put at the end of the queue.
LEMMA OccursAppend ==
    ASSUME NEW D, NEW s \in Seq(D), NEW x \in D, NEW P
    PROVE  Occurs(P, Append(s, x)) = Occurs(P, s) + In(x, P)
<1> DEFINE A == {i \in 1..Len(s) : s[i] \in P}
           B == {i \in 1..Len(Append(s, x)) : Append(s, x)[i] \in P}
<1>1. Len(s) \in Nat /\ Len(Append(s, x)) = Len(s) + 1 /\ Append(s, x)[Len(s) + 1] = x
      /\ \A i \in 1..Len(s) : Append(s, x)[i] = s[i]
  BY AppendProperties, LenProperties
<1>2. IsFiniteSet(A) /\ Cardinality(A) \in Nat /\ A \subseteq 1..Len(s)
  <2>1. IsFiniteSet(1..Len(s))
    BY <1>1, FS_Interval
  <2> QED
    BY <2>1, FS_Subset, FS_CardinalityType
<1>3. B = IF x \in P THEN A \cup {Len(s) + 1} ELSE A
  BY <1>1
<1>4. Len(s) + 1 \notin A
  BY <1>1, <1>2
<1> HIDE DEF A, B
<1>5. Cardinality(B) = Cardinality(A) + In(x, P)
  <2>1. CASE x \in P
    <3>1. Cardinality(A \cup {Len(s) + 1}) = Cardinality(A) + 1
      BY <1>2, <1>4, FS_AddElement
    <3> QED
      BY <1>3, <2>1, <3>1 DEF In
  <2>2. CASE x \notin P
    BY <1>2, <1>3, <2>2 DEF In
  <2> QED
    BY <2>1, <2>2
<1> QED
  BY <1>5 DEF Occurs, A, B

\* The numbers of QuietInv other than Endings.
LEMMA SameNumbers ==
    ASSUME EndInv, OpenInv, RecvInv, SendInv, ToldInv, Endings' = Endings, Kept' = Kept,
           Accepts' = Accepts, Traffic' = Traffic, Left(After)' = Left(After), Receives' = Receives, Sends' = Sends,
           Messages' = Messages, Telling' = Telling, Untelling' = Untelling, UNCHANGED <<listed, told, sending>>
    PROVE  QuietInv'
  BY DEF QuietInv, EndInv, OpenInv, RecvInv, SendInv, ToldInv

\* Work passes from a thread to a job or from a job to a thread: what one loses the
\* other gains.
LEMMA PassedKeeps ==
    ASSUME SlotAssumption, IInv, TypeInv', StackInv', QueueInv', NEW t \in Threads, NEW h,
           NEW a \in Opt(Steps), NEW b \in Opt(Steps), NEW c \in Opt(Steps), Moves(t, h, "bottom", a, b, c),
           UNCHANGED <<mode, refs, io, listed, told, sending, calls>>,
           NEW o \in Int, Occurs(Owning, Waiting)' = Occurs(Owning, Waiting) + o,
           NetBal(h, "bottom", a, b, c) + o = 0, Reserving(mode, h, "bottom", a, b, c) = 0,
           NEW p \in Int, Net(Opening, h, "bottom", a, b, c) + p = 0,
           Occurs({"accepted", "acceptFailed"}, Waiting)' = Occurs({"accepted", "acceptFailed"}, Waiting) + p,
           NEW q \in Int, Net(Noisy, h, "bottom", a, b, c) + q = 0, NetGreets(mode, h, "bottom", a, b, c) = 0,
           Occurs({"message", "delSession"}, Waiting)' = Occurs({"message", "delSession"}, Waiting) + q,
           NEW r \in Int, Net({"message", "makeRecv", "addRecv"}, h, "bottom", a, b, c) + r = 0,
           Occurs({"message"}, Waiting)' = Occurs({"message"}, Waiting) + r,
           NEW d \in Int, Ender(stack'[t]) + d = Ender(stack[t]),
           Occurs({"delSession"}, Waiting)' = Occurs({"delSession"}, Waiting) + d,
           Net(After, h, "bottom", a, b, c) = 0, Net({"recv", "wsaRecv"}, h, "bottom", a, b, c) = 0,
           Net({"wsaSend", "sended"}, h, "bottom", a, b, c) = 0,
           Net({"onConnected"}, h, "bottom", a, b, c) = 0, Net({"onDisconnected"}, h, "bottom", a, b, c) = 0
    PROVE  IInv'
<1>1. TypeInv /\ StackInv /\ QueueInv /\ CountInv /\ (calls = 0 => QuietInv)
  BY DEF IInv
<1>2. \A P : Left(P) \in Nat /\ Occurs(P, Waiting) \in Nat
  BY <1>1, NumbersType
<1>3. /\ \A x \in Kinds : Count(x)' = Count(x)
      /\ Count("accept") \in Nat /\ Count("recv") \in Nat /\ Count("send") \in Nat
      /\ Count("accept")' = Count("accept") /\ Count("recv")' = Count("recv") /\ Count("send")' = Count("send")
  BY <1>1, SameCounts, NumbersType DEF Kinds
<1>4. /\ NetBal(h, "bottom", a, b, c) \in Int /\ Net(Opening, h, "bottom", a, b, c) \in Int
      /\ Net(Noisy, h, "bottom", a, b, c) \in Int /\ Net({"message", "makeRecv", "addRecv"}, h, "bottom", a, b, c) \in Int
  BY <1>1, BalMoves, LeftStep DEF Opening, Noisy, Others
<1>5. CountInv' /\ Kept' = Kept
  <2>1. Outstanding \in Nat /\ Outstanding' = Outstanding + 0
    BY <1>1, <1>3, OutstandingType DEF Outstanding, Kinds, TypeInv
  <2>2. refs' = refs + 0
    BY KeptType
  <2>3. 0 = 0 + o + NetBal(h, "bottom", a, b, c) + Reserving(mode, h, "bottom", a, b, c)
    BY <1>4
  <2>4. CountInv' /\ Kept \in Nat /\ Kept' = Kept + 0 + o + NetBal(h, "bottom", a, b, c)
    BY <1>1, <2>1, <2>2, <2>3, OrdinaryCount
  <2>5. o \in Int /\ NetBal(h, "bottom", a, b, c) \in Int /\ NetBal(h, "bottom", a, b, c) + o = 0
    BY <1>4
  <2>6. Kept' = Kept
    BY ONLY <2>4, <2>5
  <2> QED
    BY <2>4, <2>6
<1>6. Accepts' = Accepts /\ Traffic' = Traffic /\ Left(After)' = Left(After)
  <2>1. /\ Accepts \in Nat /\ Traffic \in Nat
        /\ Accepts' = Accepts + Count("accept")' - Count("accept") + Net(Opening, h, "bottom", a, b, c)
             + Occurs({"accepted", "acceptFailed"}, Waiting)' - Occurs({"accepted", "acceptFailed"}, Waiting)
        /\ Traffic' = Traffic + Count("recv")' - Count("recv") + Count("send")' - Count("send")
             + Net(Noisy, h, "bottom", a, b, c) + NetGreets(mode, h, "bottom", a, b, c)
             + Occurs({"message", "delSession"}, Waiting)' - Occurs({"message", "delSession"}, Waiting)
        /\ Left(After) \in Nat /\ Left(After)' = Left(After) + Net(After, h, "bottom", a, b, c)
    BY <1>1, OpenNumbers
  <2>2. Occurs({"accepted", "acceptFailed"}, Waiting) \in Nat /\ Occurs({"message", "delSession"}, Waiting) \in Nat
    BY <1>2
  <2> QED
    BY <1>3, <1>4, <2>1, <2>2
<1>7. Receives' = Receives /\ Sends' = Sends /\ Messages' = Messages /\ Telling' = Telling /\ Untelling' = Untelling
  <2>1. /\ Receives \in Nat /\ Sends \in Nat /\ Messages \in Nat /\ Telling \in Nat /\ Untelling \in Nat
        /\ Receives' = Receives + Count("recv")' - Count("recv") + Net({"recv", "wsaRecv"}, h, "bottom", a, b, c)
        /\ Sends' = Sends + Count("send")' - Count("send") + Net({"wsaSend", "sended"}, h, "bottom", a, b, c)
        /\ Telling' = Telling + Net({"onConnected"}, h, "bottom", a, b, c)
        /\ Untelling' = Untelling + Net({"onDisconnected"}, h, "bottom", a, b, c)
    BY <1>1, TrafficNumbers
  <2>2. Messages' = Messages
    <3>1. PICK n \in Int : n + r = 0 /\ n = Net({"message", "makeRecv", "addRecv"}, h, "bottom", a, b, c)
      BY <1>4
    <3>2. Messages' = Messages + n + Occurs({"message"}, Waiting)' - Occurs({"message"}, Waiting)
      BY <1>1, <3>1, TrafficNumbers
    <3>3. Occurs({"message"}, Waiting)' = Occurs({"message"}, Waiting) + r /\ Occurs({"message"}, Waiting) \in Nat
          /\ r \in Int
      BY <1>2
    <3> QED
      BY ONLY <2>1, <3>1, <3>2, <3>3
  <2> QED
    BY <1>3, <2>1, <2>2
<1>8. Endings' = Endings
  <2>1. /\ Total(Enders) \in Nat /\ Ender(stack[t]) \in {0, 1} /\ Ender(stack'[t]) \in {0, 1}
        /\ Total(Enders)' = Total(Enders) + Ender(stack'[t]) - Ender(stack[t])
    BY <1>1, EndersMoves
  <2>2. Occurs({"delSession"}, Waiting) \in Nat
    BY <1>2
  <2> QED
    BY <2>1, <2>2 DEF Endings
<1>9. ASSUME calls = 0
      PROVE  QuietInv'
  <2>1. EndInv /\ OpenInv /\ RecvInv /\ SendInv /\ ToldInv
    BY <1>1, <1>9 DEF QuietInv
  <2> QED
    BY <1>5, <1>6, <1>7, <1>8, <2>1, SameNumbers
<1> QED
  BY <1>5, <1>9 DEF IInv

Added == {<<"addAccept", "accepted">>, <<"addStale", "acceptFailed">>, <<"addRecv", "message">>,
          <<"addDisconnect", "delSession">>}

LEMMA AddNets ==
    ASSUME NEW h, NEW j, <<h, j>> \in Added, NEW m
    PROVE  /\ NetBal(h, "bottom", "bottom", "bottom", "bottom") + In(j, Owning) = 0
           /\ NetBal(h, "bottom", "bottom", "bottom", "bottom") \in Int /\ In(j, Owning) \in Int
           /\ Reserving(m, h, "bottom", "bottom", "bottom", "bottom") = 0
           /\ Net({"pop"}, h, "bottom", "bottom", "bottom", "bottom") = 0
           /\ Net({"update"}, h, "bottom", "bottom", "bottom", "bottom") = 0
           /\ Net(Opening, h, "bottom", "bottom", "bottom", "bottom") + In(j, {"accepted", "acceptFailed"}) = 0
           /\ Net(Opening, h, "bottom", "bottom", "bottom", "bottom") \in Int /\ In(j, {"accepted", "acceptFailed"}) \in Int
           /\ Net(Noisy, h, "bottom", "bottom", "bottom", "bottom") + In(j, {"message", "delSession"}) = 0
           /\ Net(Noisy, h, "bottom", "bottom", "bottom", "bottom") \in Int /\ In(j, {"message", "delSession"}) \in Int
           /\ NetGreets(m, h, "bottom", "bottom", "bottom", "bottom") = 0
           /\ Net(After, h, "bottom", "bottom", "bottom", "bottom") = 0
           /\ Net({"recv", "wsaRecv"}, h, "bottom", "bottom", "bottom", "bottom") = 0
           /\ Net({"wsaSend", "sended"}, h, "bottom", "bottom", "bottom", "bottom") = 0
           /\ Net({"message", "makeRecv", "addRecv"}, h, "bottom", "bottom", "bottom", "bottom") + In(j, {"message"}) = 0
           /\ Net({"message", "makeRecv", "addRecv"}, h, "bottom", "bottom", "bottom", "bottom") \in Int /\ In(j, {"message"}) \in Int
           /\ Net({"onConnected"}, h, "bottom", "bottom", "bottom", "bottom") = 0
           /\ Net({"onDisconnected"}, h, "bottom", "bottom", "bottom", "bottom") = 0
           /\ j \in JobKinds /\ h \in Steps /\ h # "bottom"
<1> USE DEF NetBal, Net, In, Owning, Reserving, NetGreets, Opening, OnHandshake, Noisy, Others, After, Adders,
            JobKinds, Steps, Handling
<1>1. CASE h = "addAccept" /\ j = "accepted"
  BY <1>1
<1>2. CASE h = "addStale" /\ j = "acceptFailed"
  BY <1>2
<1>3. CASE h = "addRecv" /\ j = "message"
  BY <1>3
<1>4. CASE h = "addDisconnect" /\ j = "delSession"
  BY <1>4
<1> QED
  BY <1>1, <1>2, <1>3, <1>4 DEF Added


LEMMA AddIoJobKeeps ==
    ASSUME SlotAssumption, IInv, TypeInv', NEW t \in Threads, mode' = mode, mode = "jobs", J!AddIoJob(t)
    PROVE  IInv'
<1>1. PICK h, j : <<h, j>> \in Added /\ At(t, h) /\ jobs' = Append(jobs, j) /\ Then(t, <<>>)
                  /\ UNCHANGED <<refs, io, listed, told, sending, calls>>
  <2>1. /\ stack[t] # <<>> /\ Head(stack[t]) \in DOMAIN J!Adds
        /\ jobs' = Append(jobs, J!Adds[Head(stack[t])])
        /\ Then(t, <<>>) /\ UNCHANGED <<refs, io, listed, told, sending, calls>>
    BY DEF J!AddIoJob, J!Then, Then
  <2>2. <<Head(stack[t]), J!Adds[Head(stack[t])]>> \in Added
    BY <2>1 DEF J!Adds, Added
  <2> QED
    BY <2>1, <2>2 DEF At
<1>2. TypeInv /\ StackInv /\ QueueInv /\ CountInv /\ (calls = 0 => QuietInv)
  BY DEF IInv
<1>3. Moves(t, h, "bottom", "bottom", "bottom", "bottom") /\ "bottom" \in Opt(Steps) /\ h # "bottom"
      /\ h \in Steps /\ j \in JobKinds
  BY <1>1, StackTyped, ThenNone, AddNets DEF Opt
<1>4. StackInv'
  <2>1. Fits(Table, h, "bottom", "bottom", "bottom", "bottom")
    BY DEF Fits, Linked
  <2> QED
    BY <1>1, <1>2, <1>3, <2>1, StackMoves
<1>5. Left({"pop"})' = Left({"pop"}) /\ Left({"update"})' = Left({"update"})
  <2>1. /\ Left({"pop"}) \in Nat /\ Left({"pop"})' = Left({"pop"}) + Net({"pop"}, h, "bottom", "bottom", "bottom", "bottom")
        /\ Left({"update"}) \in Nat /\ Left({"update"})' = Left({"update"}) + Net({"update"}, h, "bottom", "bottom", "bottom", "bottom")
    BY <1>2, <1>3, LeftStep
  <2> QED
    BY <1>1, <2>1, AddNets
<1>6. Waiting' = Append(Waiting, j) /\ jobs' \in Seq(JobKinds) /\ jobs' # <<>>
  <2>1. jobs \in Seq(JobKinds) /\ (Left({"pop"}) # 0 => jobs # <<>>)
    BY <1>2 DEF QueueInv
  <2>2. /\ Append(jobs, j) \in Seq(JobKinds) /\ Append(jobs, j) # <<>>
        /\ jobs # <<>> => Tail(Append(jobs, j)) = Append(Tail(jobs), j)
    BY <1>3, <2>1
  <2> QED
    BY <1>1, <1>5, <2>1, <2>2 DEF Waiting
<1>7. QueueInv'
  BY <1>2, <1>5, <1>6 DEF QueueInv
<1>8. \A P : Occurs(P, Waiting)' = Occurs(P, Waiting) + In(j, P) /\ Occurs(P, Waiting) \in Nat
  <2>1. Waiting \in Seq(JobKinds) /\ \A P : Occurs(P, Waiting) \in Nat
    BY <1>2, WaitingType
  <2>2. \A P : Occurs(P, Append(Waiting, j)) = Occurs(P, Waiting) + In(j, P)
    BY <1>3, <2>1, OccursAppend
  <2> QED
    BY <1>6, <2>1, <2>2
<1>9. Ender(stack'[t]) + In(j, {"delSession"}) = Ender(stack[t])
  <2>1. stack'[t] = Tail(stack[t])
    BY <1>1, <1>2 DEF Then, StackInv
  <2>2. CASE h = "addDisconnect"
    <3>1. Table[h] \subseteq Base /\ h \in Handling /\ h \notin {"release", "hold"} \cup Adders
      BY <2>2, Lies DEF Table, Handling, Others, Adders
    <3>2. Occurs(Handling, stack[t]) = 1 /\ Bal(stack[t]) = 0 /\ Occurs(Handling, Tail(stack[t])) = 0
      <4>1. Handling \cap {"pop", "update"} = {}
        BY DEF Handling, Calls, Opening, Others
      <4> QED
        BY <1>1, <3>1, <4>1, BaseAlone
    <3>3. Ender(stack[t]) = 1 /\ Ender(stack'[t]) = 0
      BY <2>1, <3>2 DEF Ender
    <3>4. In(j, {"delSession"}) = 1
      BY <1>1, <2>2 DEF Added, In
    <3> QED
      BY <3>3, <3>4
  <2>3. CASE h # "addDisconnect"
    <3>1. h \in Adders /\ Table[h] \subseteq Calls
      <4>1. h \in {"addAccept", "addStale", "addRecv"}
        BY <1>1, <2>3 DEF Added
      <4> QED
        BY <4>1, Lies DEF Table, Adders, Calls
    <3>2. stack[t] # <<>> /\ Head(stack[t]) = h /\ Good(Table, Tail(stack[t])) /\ Top(Tail(stack[t])) \in Calls
      BY <1>1, <3>1, Below
    <3>3. Bal(Tail(stack[t])) >= 1
      BY <3>2, CallsFirm DEF Table
    <3>4. Bal(stack[t]) = Bal(Tail(stack[t])) + 1
      <4>1. /\ Bal(stack[t]) = Bal(Tail(stack[t])) + In(h, {"release"}) + In(h, Adders) - In(h, {"hold"})
            /\ Bal(Tail(stack[t])) \in Int
        BY <1>2, <3>2, BalTail DEF StackInv
      <4>2. In(h, {"release"}) = 0 /\ In(h, Adders) = 1 /\ In(h, {"hold"}) = 0
        BY <3>1 DEF In, Adders
      <4> QED
        BY <4>1, <4>2
    <3>5. Bal(Tail(stack[t])) \in Nat
      BY <3>2, BalType DEF Table
    <3>6. Ender(stack[t]) = 0 /\ Ender(stack'[t]) = 0
      BY <2>1, <3>3, <3>4, <3>5 DEF Ender
    <3>7. In(j, {"delSession"}) = 0
      BY <1>1, <2>3 DEF Added, In
    <3> QED
      BY <3>6, <3>7
  <2> QED
    BY <2>2, <2>3
<1>10. /\ NetBal(h, "bottom", "bottom", "bottom", "bottom") + In(j, Owning) = 0
       /\ Reserving(mode, h, "bottom", "bottom", "bottom", "bottom") = 0
       /\ Net(Opening, h, "bottom", "bottom", "bottom", "bottom") + In(j, {"accepted", "acceptFailed"}) = 0
       /\ Net(Noisy, h, "bottom", "bottom", "bottom", "bottom") + In(j, {"message", "delSession"}) = 0
       /\ NetGreets(mode, h, "bottom", "bottom", "bottom", "bottom") = 0
       /\ Net(After, h, "bottom", "bottom", "bottom", "bottom") = 0
       /\ Net({"recv", "wsaRecv"}, h, "bottom", "bottom", "bottom", "bottom") = 0
       /\ Net({"wsaSend", "sended"}, h, "bottom", "bottom", "bottom", "bottom") = 0
       /\ Net({"message", "makeRecv", "addRecv"}, h, "bottom", "bottom", "bottom", "bottom") + In(j, {"message"}) = 0
       /\ Net({"onConnected"}, h, "bottom", "bottom", "bottom", "bottom") = 0
       /\ Net({"onDisconnected"}, h, "bottom", "bottom", "bottom", "bottom") = 0
  BY <1>1, AddNets
<1>11. In(j, Owning) \in Int /\ In(j, {"accepted", "acceptFailed"}) \in Int /\ In(j, {"message", "delSession"}) \in Int
       /\ In(j, {"message"}) \in Int /\ In(j, {"delSession"}) \in Int
  BY DEF In
<1> QED
  BY <1>1, <1>3, <1>4, <1>7, <1>8, <1>9, <1>10, <1>11, PassedKeeps


\* Under pop there is Update, so that one Excute runs at a time.
LEMMA PopUpdates ==
    ASSUME NEW m, NEW n, NEW s, Good(MayLie(m, n), s), Occurs({"pop"}, s) # 0
    PROVE  Occurs({"update"}, s) # 0
<1>1. PICK U : U = MayLie(m, n) /\ Good(U, s) /\ U["pop"] \subseteq {"update"}
  <2>1. MayLie(m, n)["pop"] \subseteq {"update"}
    BY Lies
  <2> QED
    BY <2>1
<1>2. s \in Seq(Steps) /\ Len(s) \in Nat
  BY StackType, LenProperties
<1>3. PICK i \in 1..Len(s) : s[i] = "pop"
  BY <1>2, OccursZero
<1>4. (IF i < Len(s) THEN s[i+1] ELSE "bottom") \in {"update"}
  BY <1>1, <1>3 DEF Good
<1>5. i + 1 \in 1..Len(s) /\ s[i+1] = "update"
  BY <1>2, <1>3, <1>4
<1> QED
  BY <1>2, <1>5, OccursSome

\* A thread in no handler enters Update, leaves it or takes a job from the queue.
LEMMA QueueStepKeeps ==
    ASSUME SlotAssumption, IInv, TypeInv', StackInv', QueueInv', NEW t \in Threads,
           NEW h \in {"bottom", "pop", "update"}, NEW a \in {"bottom", "update"},
           Moves(t, h, "bottom", a, "bottom", "bottom"), Waiting' = Waiting,
           Occurs(Handling, stack[t]) = 0,
           UNCHANGED <<mode, refs, io, listed, told, sending, calls>>
    PROVE  IInv'
<1>1. TypeInv /\ StackInv /\ QueueInv
  BY DEF IInv
<1>2. a \in Opt(Steps) /\ "bottom" \in Opt(Steps)
  BY DEF Opt, Steps
<1>3. \A P : Occurs(P, Waiting)' = Occurs(P, Waiting) + 0
  BY <1>1, NumbersType
<1>4. /\ NetBal(h, "bottom", a, "bottom", "bottom") + 0 = 0 /\ Reserving(mode, h, "bottom", a, "bottom", "bottom") = 0
      /\ Net(Opening, h, "bottom", a, "bottom", "bottom") + 0 = 0 /\ Net(Noisy, h, "bottom", a, "bottom", "bottom") + 0 = 0
      /\ NetGreets(mode, h, "bottom", a, "bottom", "bottom") = 0
      /\ Net({"message", "makeRecv", "addRecv"}, h, "bottom", a, "bottom", "bottom") + 0 = 0
      /\ Net(After, h, "bottom", a, "bottom", "bottom") = 0 /\ Net({"recv", "wsaRecv"}, h, "bottom", a, "bottom", "bottom") = 0
      /\ Net({"wsaSend", "sended"}, h, "bottom", a, "bottom", "bottom") = 0
      /\ Net({"onConnected"}, h, "bottom", a, "bottom", "bottom") = 0 /\ Net({"onDisconnected"}, h, "bottom", a, "bottom", "bottom") = 0
  BY DEF NetBal, Net, In, Reserving, NetGreets, OnHandshake, Adders, Opening, Noisy, Others, After
<1>5. Ender(stack'[t]) + 0 = Ender(stack[t])
  <2>1. /\ Occurs(Handling, stack'[t]) = Occurs(Handling, stack[t]) + Net(Handling, h, "bottom", a, "bottom", "bottom")
        /\ Occurs(Handling, stack[t]) \in Nat
    <3>1. stack[t] \in Seq(Steps) /\ stack'[t] = Turned(h, "bottom", a, "bottom", "bottom", stack[t]) /\ Has(h, "bottom", stack[t])
      BY <1>1 DEF StackInv, Moves
    <3>2. "bottom" \notin Handling
      BY DEF Handling, Calls, Opening, Others
    <3> QED
      BY <1>2, <3>1, <3>2, TurnCounts
  <2>2. Net(Handling, h, "bottom", a, "bottom", "bottom") = 0
    <3>1. {h, "bottom", a} \cap Handling = {}
      BY DEF Handling, Calls, Opening, Others
    <3> QED
      BY <3>1, NoneNet
  <2> QED
    BY <2>1, <2>2 DEF Ender
<1>6. 0 \in Int
  OBVIOUS
<1> QED
  BY <1>2, <1>3, <1>4, <1>5, <1>6, PassedKeeps

LEMMA UpdateKeeps ==
    ASSUME SlotAssumption, IInv, TypeInv', NEW t \in Threads, mode' = mode, mode = "jobs", J!Update(t)
    PROVE  IInv'
<1>1. /\ stack[t] = <<>> /\ jobs # <<>> /\ J!LockFree(t) /\ stack' = [stack EXCEPT ![t] = <<"update">>]
      /\ UNCHANGED <<refs, io, listed, told, sending, calls, jobs>>
  BY DEF J!Update
<1>2. TypeInv /\ StackInv /\ QueueInv
  BY DEF IInv
<1>3. "update" \in Steps /\ "update" \in Opt(Steps) /\ "bottom" \in Opt(Steps)
  BY DEF Steps, Opt
<1>4. Moves(t, "bottom", "bottom", "update", "bottom", "bottom")
  BY <1>1, <1>3, StackTyped, BeginsOne
<1>5. StackInv'
  <2>1. Top(Under("bottom", "bottom", stack[t])) = "bottom"
    BY <1>1 DEF Under, Off, Top
  <2>2. Linked(Table, "update", "bottom", "bottom", "bottom")
    BY <1>3, Lies DEF Linked, Table
  <2> QED
    BY <1>1, <1>2, <1>3, <1>4, <2>1, <2>2, StackLinked
<1>6. Left({"update"}) = 0
  <2>1. ASSUME NEW u \in Threads
        PROVE  Occurs({"update"}, stack[u]) = 0
    <3>1. CASE u = t
      BY <1>1, <3>1, OccursNone
    <3>2. CASE u # t
      <4>1. stack[u] \in Seq(Steps) /\ \A i \in 1..Len(stack[u]) : stack[u][i] # "update"
        BY <1>1, <1>2, <3>2 DEF J!LockFree, J!Updating, StackInv, J!Threads, Threads
      <4> QED
        BY <4>1, OccursZero
    <3> QED
      BY <3>1, <3>2
  <2>2. FiniteThreads /\ stack \in [Threads -> Seq(Steps)]
    BY Finite, StackTyped
  <2> QED
    BY <2>1, <2>2, LeftZero
<1>7. QueueInv' /\ Waiting' = Waiting
  <2>1. /\ Left({"pop"}) \in Nat /\ Left({"pop"})' = Left({"pop"}) + Net({"pop"}, "bottom", "bottom", "update", "bottom", "bottom")
        /\ Left({"update"})' = Left({"update"}) + Net({"update"}, "bottom", "bottom", "update", "bottom", "bottom")
    BY <1>2, <1>3, <1>4, LeftStep
  <2>2. Net({"pop"}, "bottom", "bottom", "update", "bottom", "bottom") = 0 /\ Net({"update"}, "bottom", "bottom", "update", "bottom", "bottom") = 1
    BY DEF Net, In
  <2>3. Left({"pop"})' = Left({"pop"}) /\ Left({"update"})' = 1
    BY <1>6, <2>1, <2>2
  <2> QED
    BY <1>1, <1>2, <2>3 DEF QueueInv, Waiting
<1>8. Occurs(Handling, stack[t]) = 0
  BY <1>1, OccursNone
<1> QED
  BY <1>1, <1>4, <1>5, <1>7, <1>8, QueueStepKeeps


\* A thread that is at Update itself has nothing else to do.
LEMMA UpdateOnly ==
    ASSUME SlotAssumption, IInv, NEW t \in Threads, At(t, "update")
    PROVE  /\ Tail(stack[t]) = <<>> /\ Left({"pop"}) = 0 /\ Left({"update"}) = 1
           /\ \A P : Occurs(P, stack[t]) = In("update", P)
<1>1. TypeInv /\ StackInv /\ QueueInv /\ stack[t] \in Seq(Steps) /\ stack[t] # <<>>
  BY DEF IInv, StackInv, At
<1>2. /\ Head(stack[t]) = "update" /\ Good(Table, Tail(stack[t])) /\ Top(Tail(stack[t])) \in {"bottom"}
  <2>1. Table["update"] \subseteq {"bottom"}
    BY Lies DEF Table
  <2> QED
    BY <2>1, Below
<1>3. Tail(stack[t]) = <<>>
  <2>1. "bottom" \notin Steps
    BY DEF Steps, Handling, Calls, Opening, Others
  <2>2. CASE Tail(stack[t]) # <<>>
    <3>1. Head(Tail(stack[t])) \in Steps
      BY <1>2, <2>2, GoodTail, LiesDomain DEF Table
    <3> QED
      BY <1>2, <2>1, <2>2, <3>1 DEF Top
  <2> QED
    BY <2>2
<1>4. ASSUME NEW P
      PROVE  Occurs(P, stack[t]) = In("update", P)
  <2>1. Occurs(P, stack[t]) = Occurs(P, Tail(stack[t])) + In("update", P)
    BY <1>1, <1>2, OccursTail
  <2>2. Occurs(P, Tail(stack[t])) = 0
    BY <1>3, OccursNone
  <2> QED
    BY <2>1, <2>2, InType
<1>5. FiniteThreads /\ stack \in [Threads -> Seq(Steps)]
  BY Finite, StackTyped
<1>6. Occurs({"update"}, stack[t]) = 1 /\ Occurs({"pop"}, stack[t]) = 0
  BY <1>4 DEF In
<1>7. Left({"update"}) = 1
  <2>1. Occurs({"update"}, stack[t]) <= Left({"update"}) /\ Left({"update"}) \in Nat /\ Left({"update"}) <= 1
    BY <1>1, <1>5, LeftBound, LeftType DEF QueueInv
  <2> QED
    BY <1>6, <2>1
<1>8. ASSUME NEW u \in Threads
      PROVE  Occurs({"pop"}, stack[u]) = 0
  <2>1. CASE u # t
    <3>1. Occurs({"update"}, stack[t]) + Occurs({"update"}, stack[u]) <= Left({"update"})
      BY <1>5, <2>1, LeftBound
    <3>2. Occurs({"update"}, stack[u]) = 0
      <4>1. stack[u] \in Seq(Steps)
        BY <1>5
      <4>2. Occurs({"update"}, stack[u]) \in Nat
        BY <4>1, OccursType
      <4> QED
        BY <1>6, <1>7, <3>1, <4>2
    <3>3. Good(MayLie(mode, calls # 0), stack[u])
      BY <1>1 DEF StackInv, Table
    <3> QED
      BY <3>2, <3>3, PopUpdates
  <2> QED
    BY <1>6, <2>1
<1>9. Left({"pop"}) = 0
  BY <1>5, <1>8, LeftZero
<1> QED
  BY <1>3, <1>4, <1>7, <1>9

LEMMA UpdateEndsKeeps ==
    ASSUME SlotAssumption, IInv, TypeInv', NEW t \in Threads, mode' = mode, mode = "jobs", J!UpdateEnds(t)
    PROVE  IInv'
<1>1. At(t, "update") /\ Then(t, <<>>) /\ UNCHANGED <<refs, io, listed, told, sending, calls, jobs>>
  BY DEF J!UpdateEnds, J!At, J!Then, At, Then
<1>2. TypeInv /\ StackInv /\ QueueInv
  BY DEF IInv
<1>3. Moves(t, "update", "bottom", "bottom", "bottom", "bottom") /\ "bottom" \in Opt(Steps)
  BY <1>1, StackTyped, ThenNone DEF Opt
<1>4. StackInv'
  <2>1. Fits(Table, "update", "bottom", "bottom", "bottom", "bottom")
    BY DEF Fits, Linked
  <2> QED
    BY <1>1, <1>2, <1>3, <2>1, StackMoves
<1>5. QueueInv' /\ Waiting' = Waiting
  <2>1. /\ Left({"pop"}) \in Nat /\ Left({"pop"})' = Left({"pop"}) + Net({"pop"}, "update", "bottom", "bottom", "bottom", "bottom")
        /\ Left({"update"})' = Left({"update"}) + Net({"update"}, "update", "bottom", "bottom", "bottom", "bottom")
    BY <1>2, <1>3, LeftStep
  <2>2. Net({"pop"}, "update", "bottom", "bottom", "bottom", "bottom") = 0 /\ Net({"update"}, "update", "bottom", "bottom", "bottom", "bottom") = -1
    BY DEF Net, In
  <2>3. Left({"pop"})' = Left({"pop"}) /\ Left({"update"})' = 0
    BY <1>1, <2>1, <2>2, UpdateOnly
  <2> QED
    BY <1>1, <1>2, <2>3 DEF QueueInv, Waiting
<1>6. Occurs(Handling, stack[t]) = 0
  <2>1. In("update", Handling) = 0
    BY DEF In, Handling, Calls, Opening, Others
  <2> QED
    BY <1>1, <2>1, UpdateOnly
<1> QED
  BY <1>1, <1>3, <1>4, <1>5, <1>6, QueueStepKeeps

LEMMA PopKeeps ==
    ASSUME SlotAssumption, IInv, TypeInv', NEW t \in Threads, mode' = mode, mode = "jobs", J!Pop(t)
    PROVE  IInv'
<1>1. At(t, "pop") /\ jobs' = Tail(jobs) /\ Then(t, <<>>) /\ UNCHANGED <<refs, io, listed, told, sending, calls>>
  BY DEF J!Pop, J!At, J!Then, At, Then
<1>2. TypeInv /\ StackInv /\ QueueInv
  BY DEF IInv
<1>3. Moves(t, "pop", "bottom", "bottom", "bottom", "bottom") /\ "bottom" \in Opt(Steps)
  BY <1>1, StackTyped, ThenNone DEF Opt
<1>4. StackInv'
  <2>1. Fits(Table, "pop", "bottom", "bottom", "bottom", "bottom")
    BY DEF Fits, Linked
  <2> QED
    BY <1>1, <1>2, <1>3, <2>1, StackMoves
<1>5. QueueInv' /\ Waiting' = Waiting
  <2>1. /\ Left({"pop"}) \in Nat /\ Left({"pop"})' = Left({"pop"}) + Net({"pop"}, "pop", "bottom", "bottom", "bottom", "bottom")
        /\ Left({"update"}) \in Nat
        /\ Left({"update"})' = Left({"update"}) + Net({"update"}, "pop", "bottom", "bottom", "bottom", "bottom")
    BY <1>2, <1>3, LeftStep
  <2>2. Net({"pop"}, "pop", "bottom", "bottom", "bottom", "bottom") = -1 /\ Net({"update"}, "pop", "bottom", "bottom", "bottom", "bottom") = 0
    BY DEF Net, In
  <2>3. Left({"pop"}) = 1
    <3>1. Left({"pop"}) >= 1
      BY <1>1, <1>2, LeftAt
    <3> QED
      BY <1>2, <2>1, <3>1 DEF QueueInv
  <2>4. Left({"pop"})' = 0 /\ Left({"update"})' = Left({"update"})
    BY <2>1, <2>2, <2>3
  <2>5. jobs # <<>> /\ Tail(jobs) \in Seq(JobKinds)
    BY <1>2, <2>3, TailProperties DEF QueueInv
  <2> QED
    BY <1>1, <1>2, <2>3, <2>4, <2>5 DEF QueueInv, Waiting
<1>6. Occurs(Handling, stack[t]) = 0
  <2>1. Top(stack[t]) = "pop" /\ Good(MayLie(mode, calls # 0), stack[t])
    BY <1>1, Below DEF Table
  <2>2. Handling \cap {"pop", "update"} = {}
    BY DEF Handling, Calls, Opening, Others
  <2> QED
    BY <2>1, <2>2, BaseCounts DEF Base
<1> QED
  BY <1>1, <1>3, <1>4, <1>5, <1>6, QueueStepKeeps


\* What Excute puts on the stack for a job.
Begun == {<<"accepted", "release", "pop">>, <<"acceptFailed", "release", "pop">>, <<"message", "release", "pop">>,
          <<"delSession", "pop", "bottom">>}

LEMMA BegunNets ==
    ASSUME NEW a, NEW b, NEW c, <<a, b, c>> \in Begun, NEW m
    PROVE  /\ NetBal("bottom", "bottom", a, b, c) + (0 - In(a, Owning)) = 0
           /\ Reserving(m, "bottom", "bottom", a, b, c) = 0
           /\ Net({"pop"}, "bottom", "bottom", a, b, c) = 1 /\ Net({"update"}, "bottom", "bottom", a, b, c) = 0
           /\ Net(Opening, "bottom", "bottom", a, b, c) + (0 - In(a, {"accepted", "acceptFailed"})) = 0
           /\ Net(Noisy, "bottom", "bottom", a, b, c) + (0 - In(a, {"message", "delSession"})) = 0
           /\ NetGreets(m, "bottom", "bottom", a, b, c) = 0
           /\ Net({"message", "makeRecv", "addRecv"}, "bottom", "bottom", a, b, c) + (0 - In(a, {"message"})) = 0
           /\ Net(After, "bottom", "bottom", a, b, c) = 0 /\ Net({"recv", "wsaRecv"}, "bottom", "bottom", a, b, c) = 0
           /\ Net({"wsaSend", "sended"}, "bottom", "bottom", a, b, c) = 0
           /\ Net({"onConnected"}, "bottom", "bottom", a, b, c) = 0 /\ Net({"onDisconnected"}, "bottom", "bottom", a, b, c) = 0
<1> USE DEF NetBal, Net, In, Owning, Reserving, NetGreets, Opening, OnHandshake, Noisy, Others, After, Adders
<1>1. CASE a = "accepted" /\ b = "release" /\ c = "pop"
  BY <1>1
<1>2. CASE a = "acceptFailed" /\ b = "release" /\ c = "pop"
  BY <1>2
<1>3. CASE a = "message" /\ b = "release" /\ c = "pop"
  BY <1>3
<1>4. CASE a = "delSession" /\ b = "pop" /\ c = "bottom"
  BY <1>4
<1> QED
  BY <1>1, <1>2, <1>3, <1>4 DEF Begun

LEMMA BegunSteps ==
    ASSUME NEW a, NEW b, NEW c, <<a, b, c>> \in Begun, NEW n
    PROVE  /\ a \in Opt(Steps) /\ b \in Opt(Steps) /\ c \in Opt(Steps)
           /\ Linked(MayLie("jobs", n), a, b, c, "update")
           /\ Net(Handling, "bottom", "bottom", a, b, c) = IF a = "delSession" THEN 1 ELSE 2
           /\ NetBal("bottom", "bottom", a, b, c) = IF a = "delSession" THEN 0 ELSE 1
<1> USE DEF Net, NetBal, In, Linked, Adders, Opt, Steps, Handling, Calls, Opening, Others, Base
<1>1. CASE a = "accepted" /\ b = "release" /\ c = "pop"
  BY <1>1, Lies
<1>2. CASE a = "acceptFailed" /\ b = "release" /\ c = "pop"
  BY <1>2, Lies
<1>3. CASE a = "message" /\ b = "release" /\ c = "pop"
  BY <1>3, Lies
<1>4. CASE a = "delSession" /\ b = "pop" /\ c = "bottom"
  BY <1>4, Lies
<1> QED
  BY <1>1, <1>2, <1>3, <1>4 DEF Begun

LEMMA PushTwo ==
    ASSUME NEW D, NEW x \in D, NEW y \in D, NEW r \in Seq(D)
    PROVE  <<x>> \o <<>> \o <<y>> \o r = <<x>> \o (<<y>> \o r)
<1>1. <<x>> \o <<>> = <<x>>
  OBVIOUS
<1>2. <<x>> \o <<y>> \o r = <<x>> \o (<<y>> \o r)
  OBVIOUS
<1> QED
  BY <1>1, <1>2

LEMMA PushThree ==
    ASSUME NEW D, NEW x \in D, NEW y \in D, NEW z \in D, NEW r \in Seq(D)
    PROVE  <<x>> \o <<y>> \o <<z>> \o r = <<x>> \o (<<y>> \o (<<z>> \o r))
  OBVIOUS

LEMMA ExcuteMoves ==
    ASSUME IInv, NEW t \in Threads, J!Excute(t)
    PROVE  \E a, b, c : <<a, b, c>> \in Begun /\ a = Head(jobs) /\ Moves(t, "bottom", "bottom", a, b, c)
<1>1. /\ jobs # <<>> /\ jobs \in Seq(JobKinds)
      /\ stack' = [stack EXCEPT ![t] = <<Head(jobs)>> \o (IF Head(jobs) = "delSession" THEN <<>> ELSE <<"release">>)
                                           \o <<"pop">> \o @]
  BY DEF J!Excute, IInv, QueueInv
<1>2. PICK x \in JobKinds : x = Head(jobs)
  BY <1>1
<1>3. stack[t] \in Seq(Steps) /\ stack \in [Threads -> Seq(Steps)]
  BY StackTyped
<1>4. PICK D : D = Steps /\ stack[t] \in Seq(D) /\ "pop" \in D /\ "release" \in D /\ x \in D
  BY <1>3 DEF Steps, Handling, Calls, Opening, Others, JobKinds
<1>5. CASE x = "delSession"
  <2>1. <<x>> \o <<>> \o <<"pop">> \o stack[t] = <<x>> \o (<<"pop">> \o stack[t])
    BY <1>4, PushTwo
  <2>2. stack' = [stack EXCEPT ![t] = <<x>> \o <<>> \o <<"pop">> \o stack[t]]
    BY <1>1, <1>2, <1>5
  <2>3. Turned("bottom", "bottom", x, "pop", "bottom", stack[t]) = <<x>> \o (<<"pop">> \o stack[t])
    BY <1>5 DEF Turned, Under, Off, Put
  <2>4. Moves(t, "bottom", "bottom", x, "pop", "bottom")
    BY <2>1, <2>2, <2>3 DEF Moves, Has, OnTop
  <2>5. <<x, "pop", "bottom">> \in Begun
    BY <1>5 DEF Begun
  <2> QED
    BY <1>2, <2>4, <2>5
<1>6. CASE x # "delSession"
  <2>1. <<x>> \o <<"release">> \o <<"pop">> \o stack[t] = <<x>> \o (<<"release">> \o (<<"pop">> \o stack[t]))
    BY <1>4, PushThree
  <2>2. stack' = [stack EXCEPT ![t] = <<x>> \o <<"release">> \o <<"pop">> \o stack[t]]
    BY <1>1, <1>2, <1>6
  <2>3. Turned("bottom", "bottom", x, "release", "pop", stack[t]) = <<x>> \o (<<"release">> \o (<<"pop">> \o stack[t]))
    <3>1. x # "bottom"
      BY DEF JobKinds
    <3> QED
      BY <3>1 DEF Turned, Under, Off, Put
  <2>4. Moves(t, "bottom", "bottom", x, "release", "pop")
    BY <2>1, <2>2, <2>3 DEF Moves, Has, OnTop
  <2>5. <<x, "release", "pop">> \in Begun
    BY <1>6 DEF Begun, JobKinds
  <2> QED
    BY <1>2, <2>4, <2>5
<1> QED
  BY <1>5, <1>6

LEMMA ExcuteKeeps ==
    ASSUME SlotAssumption, IInv, TypeInv', NEW t \in Threads, mode' = mode, mode = "jobs", J!Excute(t)
    PROVE  IInv'
<1>1. At(t, "update") /\ jobs # <<>> /\ UNCHANGED <<refs, io, listed, told, sending, calls, jobs>>
  BY DEF J!Excute, J!At, At
<1>2. PICK a, b, c : <<a, b, c>> \in Begun /\ a = Head(jobs) /\ Moves(t, "bottom", "bottom", a, b, c)
  BY ExcuteMoves
<1>3. TypeInv /\ StackInv /\ QueueInv
  BY DEF IInv
<1>4. a \in Opt(Steps) /\ b \in Opt(Steps) /\ c \in Opt(Steps)
  BY <1>2, BegunSteps
<1>5. Left({"pop"}) = 0 /\ Left({"update"}) = 1 /\ \A P : Occurs(P, stack[t]) = In("update", P)
  BY <1>1, UpdateOnly
<1>6. StackInv'
  <2>1. Top(Under("bottom", "bottom", stack[t])) = "update"
    BY <1>1 DEF Under, Off, Top, At
  <2>2. Linked(Table, a, b, c, "update")
    BY <1>2, BegunSteps DEF Table
  <2> QED
    BY <1>1, <1>2, <1>3, <1>4, <2>1, <2>2, StackLinked
<1>7. Left({"pop"})' = 1 /\ Left({"update"})' = 1
  <2>1. /\ Left({"pop"})' = Left({"pop"}) + Net({"pop"}, "bottom", "bottom", a, b, c)
        /\ Left({"update"})' = Left({"update"}) + Net({"update"}, "bottom", "bottom", a, b, c)
    BY <1>2, <1>3, <1>4, LeftStep
  <2> QED
    BY <1>2, <1>5, <2>1, BegunNets
<1>8. QueueInv' /\ Waiting = jobs /\ Waiting' = Tail(jobs)
  BY <1>1, <1>3, <1>5, <1>7 DEF QueueInv, Waiting
<1>9. \A P : Occurs(P, Waiting)' = Occurs(P, Waiting) + (0 - In(a, P))
  <2>1. jobs \in Seq(JobKinds)
    BY <1>3 DEF QueueInv
  <2>2. ASSUME NEW P
        PROVE  Occurs(P, jobs) = Occurs(P, Tail(jobs)) + In(a, P) /\ Occurs(P, Tail(jobs)) \in Nat /\ In(a, P) \in Nat
    BY <1>1, <1>2, <2>1, OccursTail, TailProperties, OccursType, InType
  <2>3. ASSUME NEW P
        PROVE  Occurs(P, Tail(jobs)) = Occurs(P, jobs) + (0 - In(a, P))
    BY <2>2
  <2> QED
    BY <1>8, <2>3
<1>10. Ender(stack'[t]) + (0 - In(a, {"delSession"})) = Ender(stack[t])
  <2>1. "bottom" \notin Handling /\ In("update", Handling) = 0
    BY DEF Handling, Calls, Opening, Others, In
  <2>2. Occurs(Handling, stack'[t]) = Net(Handling, "bottom", "bottom", a, b, c)
    <3>1. stack[t] \in Seq(Steps) /\ stack'[t] = Turned("bottom", "bottom", a, b, c, stack[t]) /\ Has("bottom", "bottom", stack[t])
      BY <1>2, <1>3 DEF StackInv, Moves
    <3>2. /\ Occurs(Handling, stack'[t]) = Occurs(Handling, stack[t]) + Net(Handling, "bottom", "bottom", a, b, c)
          /\ Net(Handling, "bottom", "bottom", a, b, c) \in Int
      BY <1>4, <2>1, <3>1, TurnCounts
    <3>3. Occurs(Handling, stack[t]) = 0
      BY <1>5, <2>1
    <3> QED
      BY ONLY <3>2, <3>3
  <2>3. Bal(stack'[t]) = NetBal("bottom", "bottom", a, b, c)
    <3>1. Bal(stack'[t]) = Bal(stack[t]) + NetBal("bottom", "bottom", a, b, c) /\ NetBal("bottom", "bottom", a, b, c) \in Int
      BY <1>2, <1>3, <1>4, <1>6, BalMoves
    <3>2. Bal(stack[t]) = 0
      <4>1. In("update", {"release"}) = 0 /\ In("update", Adders) = 0 /\ In("update", {"hold"}) = 0
        BY DEF In, Adders
      <4>2. Occurs({"release"}, stack[t]) = 0 /\ Occurs(Adders, stack[t]) = 0 /\ Occurs({"hold"}, stack[t]) = 0
        BY <1>5, <4>1
      <4> QED
        BY <4>2 DEF Bal
    <3> QED
      BY ONLY <3>1, <3>2
  <2>4. Ender(stack[t]) = 0
    <3>1. Occurs(Handling, stack[t]) = 0
      BY <1>5, <2>1
    <3> QED
      BY <3>1 DEF Ender
  <2>5. CASE a = "delSession"
    <3>1. Ender(stack'[t]) = 1
      BY <1>2, <2>2, <2>3, <2>5, BegunSteps DEF Ender
    <3> QED
      BY <2>4, <2>5, <3>1 DEF In
  <2>6. CASE a # "delSession"
    <3>1. Ender(stack'[t]) = 0
      BY <1>2, <2>3, <2>6, BegunSteps DEF Ender
    <3>2. In(a, {"delSession"}) = 0
      BY <2>6 DEF In
    <3> QED
      BY ONLY <2>4, <3>1, <3>2
  <2> QED
    BY <2>5, <2>6
<1>11. \A P : 0 - In(a, P) \in Int
  BY DEF In
<1>12. /\ Occurs(Owning, Waiting)' = Occurs(Owning, Waiting) + (0 - In(a, Owning))
       /\ Occurs({"accepted", "acceptFailed"}, Waiting)' = Occurs({"accepted", "acceptFailed"}, Waiting) + (0 - In(a, {"accepted", "acceptFailed"}))
       /\ Occurs({"message", "delSession"}, Waiting)' = Occurs({"message", "delSession"}, Waiting) + (0 - In(a, {"message", "delSession"}))
       /\ Occurs({"message"}, Waiting)' = Occurs({"message"}, Waiting) + (0 - In(a, {"message"}))
       /\ Occurs({"delSession"}, Waiting)' = Occurs({"delSession"}, Waiting) + (0 - In(a, {"delSession"}))
  BY <1>9
<1>13. UNCHANGED <<mode, refs, io, listed, told, sending, calls>>
  BY <1>1
<1>14. PICK o \in Int, p \in Int, q \in Int, r \in Int, d \in Int :
          /\ o = 0 - In(a, Owning) /\ p = 0 - In(a, {"accepted", "acceptFailed"}) /\ q = 0 - In(a, {"message", "delSession"})
          /\ r = 0 - In(a, {"message"}) /\ d = 0 - In(a, {"delSession"})
  BY ONLY <1>11
<1>15. /\ NetBal("bottom", "bottom", a, b, c) + o = 0 /\ Reserving(mode, "bottom", "bottom", a, b, c) = 0
       /\ Net(Opening, "bottom", "bottom", a, b, c) + p = 0
       /\ Net(Noisy, "bottom", "bottom", a, b, c) + q = 0 /\ NetGreets(mode, "bottom", "bottom", a, b, c) = 0
       /\ Net({"message", "makeRecv", "addRecv"}, "bottom", "bottom", a, b, c) + r = 0
       /\ Net(After, "bottom", "bottom", a, b, c) = 0 /\ Net({"recv", "wsaRecv"}, "bottom", "bottom", a, b, c) = 0
       /\ Net({"wsaSend", "sended"}, "bottom", "bottom", a, b, c) = 0
       /\ Net({"onConnected"}, "bottom", "bottom", a, b, c) = 0 /\ Net({"onDisconnected"}, "bottom", "bottom", a, b, c) = 0
  BY <1>2, <1>14, BegunNets
<1>16. /\ Occurs(Owning, Waiting)' = Occurs(Owning, Waiting) + o
       /\ Occurs({"accepted", "acceptFailed"}, Waiting)' = Occurs({"accepted", "acceptFailed"}, Waiting) + p
       /\ Occurs({"message", "delSession"}, Waiting)' = Occurs({"message", "delSession"}, Waiting) + q
       /\ Occurs({"message"}, Waiting)' = Occurs({"message"}, Waiting) + r
       /\ Occurs({"delSession"}, Waiting)' = Occurs({"delSession"}, Waiting) + d
       /\ Ender(stack'[t]) + d = Ender(stack[t])
  BY <1>10, <1>12, <1>14
<1> QED
  BY <1>2, <1>4, <1>6, <1>8, <1>13, <1>15, <1>16, PassedKeeps


(***************************************************************************)
(* Completions and arrivals                                                *)
(***************************************************************************)
\* Which steps a worker of server m begins with a completion of kind k.
Takings(m) ==
    {<<"recv", "disconnect", "release", "bottom">>, <<"send", "sended", "release", "bottom">>}
      \cup CASE m = "acceptor" -> {<<"accept", "accepted", "release", "bottom">>, <<"accept", "acceptFailed", "release", "bottom">>,
                                   <<"recv", "message", "recv", "release">>}
             [] m = "ws" -> {<<"accept", "accepted", "release", "bottom">>, <<"accept", "acceptFailed", "release", "bottom">>,
                             <<"recv", "message", "wsaRecv", "release">>}
             [] m = "jobs" -> {<<"accept", "makeAccept", "release", "bottom">>, <<"accept", "makeStale", "release", "bottom">>,
                               <<"recv", "makeRecv", "recv", "release">>}

\* What such steps do to the numbers.
Takes(m, n, k, a, b, c) ==
    /\ a \in Opt(Steps) /\ b \in Opt(Steps) /\ c \in Opt(Steps) /\ k \in {"accept", "recv", "send"}
    /\ Linked(MayLie(m, n), a, b, c, "bottom")
    /\ NetBal("bottom", "bottom", a, b, c) = 1 /\ Reserving(m, "bottom", "bottom", a, b, c) = 0
    /\ Net({"pop"}, "bottom", "bottom", a, b, c) = 0 /\ Net({"update"}, "bottom", "bottom", a, b, c) = 0
    /\ Net(Opening, "bottom", "bottom", a, b, c) = IF k = "accept" THEN 1 ELSE 0
    /\ k = "accept" => Net(Noisy, "bottom", "bottom", a, b, c) = 0 /\ NetGreets(m, "bottom", "bottom", a, b, c) = 0
    /\ Net(After, "bottom", "bottom", a, b, c) = 0
    /\ Net({"recv", "wsaRecv"}, "bottom", "bottom", a, b, c) \in {0, IF k = "recv" THEN 1 ELSE 0}
    /\ Net({"wsaSend", "sended"}, "bottom", "bottom", a, b, c) = IF k = "send" THEN 1 ELSE 0
    /\ Net({"message", "makeRecv", "addRecv"}, "bottom", "bottom", a, b, c) \in {0, IF k = "recv" THEN 1 ELSE 0}
    /\ Net({"onConnected"}, "bottom", "bottom", a, b, c) = 0 /\ Net({"onDisconnected"}, "bottom", "bottom", a, b, c) = 0

LEMMA TakingNets ==
    ASSUME NEW m \in {"acceptor", "jobs", "ws"}, NEW n, NEW k, NEW a, NEW b, NEW c, <<k, a, b, c>> \in Takings(m)
    PROVE  Takes(m, n, k, a, b, c)
<1> USE DEF Takes, Net, NetBal, In, Linked, Reserving, NetGreets, OnHandshake, Noisy, After, Adders, Opt, Steps, Handling, Calls, Opening,
            Others, Base
<1>1. CASE k = "recv" /\ a = "disconnect" /\ b = "release" /\ c = "bottom"
  BY <1>1, Lies
<1>2. CASE k = "send" /\ a = "sended" /\ b = "release" /\ c = "bottom"
  BY <1>2, Lies
<1>3. CASE k = "accept" /\ a = "accepted" /\ b = "release" /\ c = "bottom"
  BY <1>3, Lies
<1>4. CASE k = "accept" /\ a = "acceptFailed" /\ b = "release" /\ c = "bottom"
  BY <1>4, Lies
<1>5. CASE k = "recv" /\ a = "message" /\ b = "recv" /\ c = "release"
  BY <1>5, Lies
<1>6. CASE k = "recv" /\ a = "message" /\ b = "wsaRecv" /\ c = "release"
  BY <1>6, Lies
<1>7. CASE m = "jobs" /\ k = "accept" /\ a = "makeAccept" /\ b = "release" /\ c = "bottom"
  BY <1>7, Lies
<1>8. CASE m = "jobs" /\ k = "accept" /\ a = "makeStale" /\ b = "release" /\ c = "bottom"
  BY <1>8, Lies
<1>9. CASE m = "jobs" /\ k = "recv" /\ a = "makeRecv" /\ b = "recv" /\ c = "release"
  BY <1>9, Lies
<1> HIDE DEF Takes
<1> QED
  BY <1>1, <1>2, <1>3, <1>4, <1>5, <1>6, <1>7, <1>8, <1>9 DEF Takings

\* Where a receive is outstanding the application has been told of the connection.
LEMMA ReceiveTold ==
    ASSUME SlotAssumption, TypeInv, StackInv, QueueInv, RecvInv, ToldInv, Count("recv") >= 1
    PROVE  listed /\ told /\ Telling = 0 /\ Untelling = 0
<1>1. /\ Receives \in Nat /\ Count("recv") \in Nat /\ Left({"recv", "wsaRecv"}) \in Nat /\ Telling \in Nat /\ Untelling \in Nat
  BY NumbersType DEF Kinds
<1>2. Receives = 1 /\ Left({"recv", "wsaRecv"}) = 0 /\ listed
  <2>1. Receives = Count("recv") + Left({"recv", "wsaRecv"}) /\ Receives <= 1 /\ (Receives = 1 => listed)
    BY DEF RecvInv, Receives
  <2>2. Receives = 1 /\ Left({"recv", "wsaRecv"}) = 0
    BY ONLY <1>1, <2>1, Count("recv") >= 1
  <2> QED
    BY <2>1, <2>2
<1>3. Telling = 0
  <2>1. FiniteThreads /\ stack \in [Threads -> Seq(Steps)]
    BY Finite DEF StackInv
  <2>2. ASSUME NEW u \in Threads
        PROVE  Occurs({"onConnected"}, stack[u]) = 0
    <3>1. Occurs({"recv", "wsaRecv"}, stack[u]) = 0
      BY <1>2, <2>1, LeftZero
    <3>2. Occurs({"onConnected"}, stack[u]) <= Occurs({"recv", "wsaRecv"}, stack[u])
      BY ConnectedCounts DEF StackInv, Table
    <3>3. stack[u] \in Seq(Steps)
      BY <2>1
    <3>4. Occurs({"onConnected"}, stack[u]) \in Nat
      BY <3>3, OccursType
    <3> QED
      BY <3>1, <3>2, <3>4
  <2> QED
    BY <2>1, <2>2, LeftZero DEF Telling
<1>4. Untelling = 0
  BY <1>1, <1>2, <1>3 DEF ToldInv
<1> QED
  BY <1>2, <1>3, <1>4 DEF ToldInv

\* The reference of a completed I/O is kept for its handler.
LEMMA TakenCount ==
    ASSUME SlotAssumption, TypeInv, StackInv, StackInv', QueueInv, CountInv, NEW t \in Threads,
           NEW a \in Opt(Steps), NEW b \in Opt(Steps), NEW c \in Opt(Steps), Moves(t, "bottom", "bottom", a, b, c),
           mode' = mode, refs' = refs, refs \in Nat, Outstanding \in Nat, Outstanding' = Outstanding - 1,
           Occurs(Owning, Waiting)' = Occurs(Owning, Waiting), Occurs(Owning, Waiting) \in Nat,
           NetBal("bottom", "bottom", a, b, c) = 1, Reserving(mode, "bottom", "bottom", a, b, c) = 0
    PROVE  CountInv' /\ Kept' = Kept
<1> PICK d \in Int, z \in Int : d = -1 /\ z = 0
  OBVIOUS
<1>2. /\ Outstanding' = Outstanding + d /\ Occurs(Owning, Waiting)' = Occurs(Owning, Waiting) + z
      /\ refs' = refs + z
      /\ z = d + z + NetBal("bottom", "bottom", a, b, c) + Reserving(mode, "bottom", "bottom", a, b, c)
  OBVIOUS
<1>3. CountInv' /\ Kept \in Nat /\ Kept' = Kept + d + z + NetBal("bottom", "bottom", a, b, c)
  BY <1>2, OrdinaryCount
<1> QED
  BY <1>3

\* A worker takes a completion: the I/O's reference becomes that of its handler.
LEMMA TakenKeeps ==
    ASSUME SlotAssumption, IInv, TypeInv', NEW t \in Threads, UNCHANGED <<jobs, mode, refs, listed, told, sending, calls>>,
           NEW k, NEW a, NEW b, NEW c, <<k, a, b, c>> \in Takings(mode), stack[t] = <<>>,
           Moves(t, "bottom", "bottom", a, b, c),
           NEW r \in {"done", "zero"}, io[k][r] > 0, io' = [io EXCEPT ![k][r] = @ - 1]
    PROVE  IInv'
<1>1. TypeInv /\ StackInv /\ QueueInv /\ CountInv /\ (calls = 0 => QuietInv) /\ mode \in {"acceptor", "jobs", "ws"}
  BY DEF IInv, StackInv
<1>2. Takes(mode, calls # 0, k, a, b, c)
  BY <1>1, TakingNets
<1>3. a \in Opt(Steps) /\ b \in Opt(Steps) /\ c \in Opt(Steps) /\ k \in {"accept", "recv", "send"}
  BY <1>2 DEF Takes
<1>4. StackInv'
  <2>1. Top(Under("bottom", "bottom", stack[t])) = "bottom"
    BY DEF Under, Off, Top
  <2>2. Linked(Table, a, b, c, "bottom")
    BY <1>2 DEF Takes, Table
  <2> QED
    BY <1>1, <1>3, <2>1, <2>2, StackLinked
<1>5. QueueInv' /\ Waiting' = Waiting
  <2>1. Net({"pop"}, "bottom", "bottom", a, b, c) = 0 /\ Net({"update"}, "bottom", "bottom", a, b, c) = 0
    BY <1>2 DEF Takes
  <2> QED
    BY <1>1, <1>3, <2>1, OrdinaryQueue
<1>6. \A P : Occurs(P, Waiting)' = Occurs(P, Waiting) /\ Occurs(P, Waiting) \in Nat
  BY <1>1, <1>5, NumbersType
<1>7. /\ Count(k) >= 1 /\ Count(k)' = Count(k) - 1 /\ \A x \in Kinds : x # k => Count(x)' = Count(x)
      /\ Count("accept") \in Nat /\ Count("recv") \in Nat /\ Count("send") \in Nat
  BY <1>1, <1>3, TakenCounts, NumbersType DEF TypeInv, IoType, Kinds
<1>8. CountInv' /\ Kept' = Kept
  <2>1. Outstanding \in Nat /\ Outstanding' = Outstanding - 1
    <3>1. CASE k = "accept"
      BY <1>7, <3>1 DEF Outstanding, Kinds
    <3>2. CASE k = "recv"
      BY <1>7, <3>2 DEF Outstanding, Kinds
    <3>3. CASE k = "send"
      BY <1>7, <3>3 DEF Outstanding, Kinds
    <3> QED
      BY <1>3, <3>1, <3>2, <3>3
  <2>2. Occurs(Owning, Waiting)' = Occurs(Owning, Waiting) /\ Occurs(Owning, Waiting) \in Nat
    BY <1>6
  <2>3. NetBal("bottom", "bottom", a, b, c) = 1 /\ Reserving(mode, "bottom", "bottom", a, b, c) = 0
    BY <1>2 DEF Takes
  <2> QED
    BY <1>1, <1>3, <1>4, <2>1, <2>2, <2>3, KeptType, TakenCount
<1>9. Endings' = Endings
  <2>1. /\ Total(Enders) \in Nat
        /\ Total(Enders)' = Total(Enders) + Ender(stack'[t]) - Ender(stack[t])
    BY <1>1, <1>3, <1>4, EndersMoves
  <2>2. Bal(stack'[t]) = Bal(stack[t]) + NetBal("bottom", "bottom", a, b, c)
    BY <1>1, <1>3, <1>4, BalMoves
  <2>3. Bal(stack[t]) = 0 /\ Ender(stack[t]) = 0
    BY OccursNone DEF Bal, Ender
  <2>4. NetBal("bottom", "bottom", a, b, c) = 1
    BY <1>2 DEF Takes
  <2>5. Ender(stack'[t]) = 0
    BY <2>2, <2>3, <2>4 DEF Ender
  <2>6. Occurs({"delSession"}, Waiting)' = Occurs({"delSession"}, Waiting) /\ Occurs({"delSession"}, Waiting) \in Nat
    BY <1>6
  <2> QED
    BY <2>1, <2>3, <2>5, <2>6 DEF Endings
<1>10. /\ Left(After)' = Left(After)
       /\ Accepts' = Accepts
       /\ k = "accept" => Traffic' = Traffic
       /\ k # "accept" => Traffic >= 1
  <2>1. /\ Accepts \in Nat /\ Traffic \in Nat
        /\ Accepts' = Accepts + Count("accept")' - Count("accept") + Net(Opening, "bottom", "bottom", a, b, c)
             + Occurs({"accepted", "acceptFailed"}, Waiting)' - Occurs({"accepted", "acceptFailed"}, Waiting)
        /\ Traffic' = Traffic + Count("recv")' - Count("recv") + Count("send")' - Count("send")
             + Net(Noisy, "bottom", "bottom", a, b, c) + NetGreets(mode, "bottom", "bottom", a, b, c)
             + Occurs({"message", "delSession"}, Waiting)' - Occurs({"message", "delSession"}, Waiting)
        /\ Left(After) \in Nat /\ Left(After)' = Left(After) + Net(After, "bottom", "bottom", a, b, c)
    BY <1>1, <1>3, <1>4, <1>5, OpenNumbers
  <2>2. /\ Occurs({"accepted", "acceptFailed"}, Waiting)' = Occurs({"accepted", "acceptFailed"}, Waiting)
        /\ Occurs({"accepted", "acceptFailed"}, Waiting) \in Nat
        /\ Occurs({"message", "delSession"}, Waiting)' = Occurs({"message", "delSession"}, Waiting)
        /\ Occurs({"message", "delSession"}, Waiting) \in Nat
    BY <1>6
  <2>3. /\ Net(Opening, "bottom", "bottom", a, b, c) = IF k = "accept" THEN 1 ELSE 0
        /\ k = "accept" => Net(Noisy, "bottom", "bottom", a, b, c) = 0 /\ NetGreets(mode, "bottom", "bottom", a, b, c) = 0
        /\ Net(After, "bottom", "bottom", a, b, c) = 0
    BY <1>2 DEF Takes
  <2>4. Left(After)' = Left(After)
    BY <2>1, <2>3
  <2>5. CASE k = "accept"
    <3>1. Count("accept")' = Count("accept") - 1 /\ Count("recv")' = Count("recv") /\ Count("send")' = Count("send")
      BY <1>7, <2>5 DEF Kinds
    <3> QED
      BY <1>7, <2>1, <2>2, <2>3, <2>4, <2>5, <3>1
  <2>6. CASE k # "accept"
    <3>1. Count("accept")' = Count("accept") /\ (Count("recv") >= 1 \/ Count("send") >= 1)
      BY <1>3, <1>7, <2>6 DEF Kinds
    <3>2. Accepts' = Accepts
      BY <1>7, <2>1, <2>2, <2>3, <2>6, <3>1
    <3>3. Left(Noisy) \in Nat /\ Total(Greetings) \in Nat
      BY <1>1, NumbersType
    <3>4. Traffic >= 1
      BY <1>7, <2>2, <3>1, <3>3 DEF Traffic
    <3> QED
      BY <2>4, <2>6, <3>2, <3>4
  <2> QED
    BY <2>5, <2>6
<1>11. /\ Receives' <= Receives /\ Receives \in Nat /\ Receives' \in Nat /\ Sends' = Sends
       /\ Telling' = Telling /\ Untelling' = Untelling
       /\ k # "recv" => Messages' = Messages
  <2>1. /\ Receives \in Nat /\ Sends \in Nat /\ Messages \in Nat /\ Telling \in Nat /\ Untelling \in Nat
        /\ Receives' = Receives + Count("recv")' - Count("recv") + Net({"recv", "wsaRecv"}, "bottom", "bottom", a, b, c)
        /\ Sends' = Sends + Count("send")' - Count("send") + Net({"wsaSend", "sended"}, "bottom", "bottom", a, b, c)
        /\ Messages' = Messages + Net({"message", "makeRecv", "addRecv"}, "bottom", "bottom", a, b, c)
                            + Occurs({"message"}, Waiting)' - Occurs({"message"}, Waiting)
        /\ Telling' = Telling + Net({"onConnected"}, "bottom", "bottom", a, b, c)
        /\ Untelling' = Untelling + Net({"onDisconnected"}, "bottom", "bottom", a, b, c)
    BY <1>1, <1>3, <1>5, TrafficNumbers
  <2>2. /\ Net({"recv", "wsaRecv"}, "bottom", "bottom", a, b, c) \in {0, IF k = "recv" THEN 1 ELSE 0}
        /\ Net({"wsaSend", "sended"}, "bottom", "bottom", a, b, c) = IF k = "send" THEN 1 ELSE 0
        /\ k # "recv" => Net({"message", "makeRecv", "addRecv"}, "bottom", "bottom", a, b, c) = 0
        /\ Net({"onConnected"}, "bottom", "bottom", a, b, c) = 0 /\ Net({"onDisconnected"}, "bottom", "bottom", a, b, c) = 0
    BY <1>2 DEF Takes
  <2>3. Occurs({"message"}, Waiting)' = Occurs({"message"}, Waiting) /\ Occurs({"message"}, Waiting) \in Nat
    BY <1>6
  <2>4. /\ Count("recv")' = IF k = "recv" THEN Count("recv") - 1 ELSE Count("recv")
        /\ Count("send")' = IF k = "send" THEN Count("send") - 1 ELSE Count("send")
    BY <1>7 DEF Kinds
  <2>5. k # "recv" => Messages' = Messages
    BY <2>1, <2>2, <2>3
  <2>6. Telling' = Telling /\ Untelling' = Untelling
    BY <2>1, <2>2
  <2>7. Sends' = Sends
    BY <1>7, <2>1, <2>2, <2>4
  <2>8. Receives' <= Receives
    BY <1>7, <2>1, <2>2, <2>4
  <2>9. Receives' \in Nat
    <3>1. FiniteThreads /\ stack' \in [Threads -> Seq(Steps)]
      BY <1>4, Finite DEF StackInv
    <3>3. Count("recv")' \in Nat
      <4>1. io' \in [Kinds -> [pending : Nat, done : Nat, zero : Nat]] /\ "recv" \in Kinds
        BY DEF TypeInv, Kinds
      <4>2. PICK e \in [pending : Nat, done : Nat, zero : Nat] : e = io'["recv"]
        BY <4>1
      <4> QED
        BY ONLY <4>2 DEF Count
    <3>2. Left({"recv", "wsaRecv"})' \in Nat
      BY <1>1, <1>3, LeftStep
    <3> QED
      BY <3>2, <3>3 DEF Receives
  <2> QED
    BY <2>1, <2>5, <2>6, <2>7, <2>8, <2>9
<1>12. ASSUME calls = 0
       PROVE  QuietInv'
  <2>1. EndInv /\ OpenInv /\ RecvInv /\ SendInv /\ ToldInv
    BY <1>1, <1>12 DEF QuietInv
  <2>2. EndInv'
    BY <1>8, <1>9, <2>1 DEF EndInv
  <2>3. OpenInv'
    <3>1. Accepts \in Nat /\ Traffic \in Nat
      BY <1>1, NumbersType
    <3> QED
      BY <1>10, <2>1, <3>1 DEF OpenInv
  <2>4. RecvInv'
    BY <1>11, <2>1 DEF RecvInv
  <2>5. SendInv'
    BY <1>11, <2>1 DEF SendInv
  <2>6. ToldInv'
    <3>1. CASE k = "recv"
      <4>1. listed /\ told
        BY <1>1, <1>7, <2>1, <3>1, ReceiveTold
      <4> QED
        BY <1>11, <2>1, <4>1 DEF ToldInv
    <3>2. CASE k # "recv"
      BY <1>11, <2>1, <3>2 DEF ToldInv
    <3> QED
      BY <3>1, <3>2
  <2> QED
    BY <2>2, <2>3, <2>4, <2>5, <2>6 DEF QuietInv
<1> QED
  BY <1>4, <1>5, <1>8, <1>12 DEF IInv

\* s is what a worker does with a completion of kind k.
Handles(k, s) == \/ \E a, b \in Steps : s = <<a, b>> /\ <<k, a, b, "bottom">> \in Takings(mode)
                 \/ \E a, b, c \in Steps : s = <<a, b, c>> /\ <<k, a, b, c>> \in Takings(mode)

LEMMA TakenSteps ==
    ASSUME SlotAssumption, IInv, TypeInv', NEW t \in Threads, UNCHANGED <<jobs, mode, refs, listed, told, sending, calls>>,
           stack[t] = <<>>, NEW k, NEW r \in {"done", "zero"}, io[k][r] > 0, io' = [io EXCEPT ![k][r] = @ - 1],
           NEW s, stack' = [stack EXCEPT ![t] = s],
           Handles(k, s)
    PROVE  IInv'
<1>1. stack \in [Threads -> Seq(Steps)] /\ "bottom" \notin Steps
  BY StackTyped DEF Steps, Handling, Calls, Opening, Others
<1>2. ASSUME NEW a \in Steps, NEW b \in Steps, s = <<a, b>>, <<k, a, b, "bottom">> \in Takings(mode)
      PROVE  IInv'
  <2>1. Moves(t, "bottom", "bottom", a, b, "bottom")
    <3>1. stack' = [stack EXCEPT ![t] = <<a, b>>] /\ a # "bottom" /\ b # "bottom"
      BY <1>1, <1>2
    <3> QED
      BY <1>1, <3>1, BeginsTwo
  <2> QED
    BY <1>2, <2>1, TakenKeeps
<1>3. ASSUME NEW a \in Steps, NEW b \in Steps, NEW c \in Steps, s = <<a, b, c>>, <<k, a, b, c>> \in Takings(mode)
      PROVE  IInv'
  <2>1. Moves(t, "bottom", "bottom", a, b, c)
    <3>1. stack' = [stack EXCEPT ![t] = <<a, b, c>>] /\ a # "bottom" /\ b # "bottom" /\ c # "bottom"
      BY <1>1, <1>3
    <3> QED
      BY <1>1, <3>1, BeginsThree
  <2> QED
    BY <1>3, <2>1, TakenKeeps
<1> QED
  BY <1>2, <1>3 DEF Handles

LEMMA HandlersNamed ==
    /\ "accepted" \in Steps /\ "acceptFailed" \in Steps /\ "message" \in Steps /\ "sended" \in Steps
    /\ "makeAccept" \in Steps /\ "makeStale" \in Steps /\ "makeRecv" \in Steps
  BY DEF Steps, Handling, Calls, Opening, Others

\* A worker dequeues a completion, in each kind of server.
Dequeued(w, k, r, s) ==
    /\ stack[w] = <<>> /\ io[k][r] > 0 /\ io' = [io EXCEPT ![k][r] = @ - 1]
    /\ stack' = [stack EXCEPT ![w] = s] /\ UNCHANGED <<sock, refs, listed, told, sending, calls>>
    /\ s = CASE mode = "acceptor" -> Handler(k, r)
             [] mode = "jobs" -> J!JobHandler(k, r)
             [] mode = "ws" -> W!Handler(k, r)

LEMMA SomeDequeued ==
    ASSUME IInv, Dequeue
    PROVE  \E w \in Workers, k \in Kinds, r \in {"done", "zero"} : \E s : Dequeued(w, k, r, s)
<1> USE DEF Dequeued
<1>0. mode \in {"acceptor", "jobs", "ws"}
  BY DEF IInv, StackInv
<1>1. CASE mode = "acceptor"
  <2>1. Dispatch
    BY <1>1 DEF Dequeue
  <2> QED
    BY <1>1, <2>1 DEF Dispatch, Completion, Taken
<1>2. CASE mode = "jobs"
  <2>1. J!DispatchJob
    BY <1>2 DEF Dequeue
  <2>2. PICK w \in Workers, k \in Kinds, r \in {"done", "zero"} : J!Taken(w, k, r, J!JobHandler(k, r))
    BY <2>1 DEF J!DispatchJob, J!Kinds, Kinds
  <2>3. Dequeued(w, k, r, J!JobHandler(k, r))
    BY <1>2, <2>2 DEF J!Taken
  <2> QED
    BY <2>3
<1>3. CASE mode = "ws"
  <2>1. W!Dispatch
    BY <1>3 DEF Dequeue
  <2>2. PICK w \in Workers, k \in Kinds, r \in {"done", "zero"} : W!Taken(w, k, r, W!Handler(k, r))
    BY <2>1 DEF W!Dispatch, W!Completion, W!Kinds, Kinds
  <2>3. Dequeued(w, k, r, W!Handler(k, r))
    BY <1>3, <2>2 DEF W!Taken
  <2> QED
    BY <2>3
<1> QED
  BY <1>0, <1>1, <1>2, <1>3

\* The steps of the handler.
LEMMA DequeuedSteps ==
    ASSUME SlotAssumption, IInv, NEW w, NEW k \in Kinds, NEW r \in {"done", "zero"}, NEW s, Dequeued(w, k, r, s)
    PROVE  /\ Handles(k, s)
           /\ k = "accept" /\ r = "done" => s \in {<<"accepted", "release">>, <<"makeAccept", "release">>}
<1>0. s = CASE mode = "acceptor" -> Handler(k, r)
            [] mode = "jobs" -> J!JobHandler(k, r)
            [] mode = "ws" -> W!Handler(k, r)
  BY DEF Dequeued
<1>1. mode \in {"acceptor", "jobs", "ws"}
  BY DEF IInv, StackInv
<1>2. io[k][r] > 0
  BY DEF Dequeued
<1>3. k # "reconnect"
  <2>1. io \in IoType /\ Count("reconnect") = 0
    BY DEF IInv, TypeInv, IoType
  <2>2. io' = [io EXCEPT ![k][r] = @ - 1]
    BY DEF Dequeued
  <2>3. Count(k) >= 1
    BY <1>2, <2>1, <2>2, TakenCounts
  <2> QED
    BY <2>1, <2>3
<1>4. \/ \E a, b \in Steps : s = <<a, b>> /\ <<k, a, b, "bottom">> \in Takings(mode)
      \/ \E a, b, c \in Steps : s = <<a, b, c>> /\ <<k, a, b, c>> \in Takings(mode)
  <2>1. Rearm = "recv"
    BY DEF SlotAssumption
  <2>2. CASE mode = "acceptor"
    <3>1. s = Handler(k, r)
      BY <1>0, <2>2
    <3>2. CASE k = "accept" /\ r = "done"
      <4>1. s = <<"accepted", "release">> /\ <<k, "accepted", "release", "bottom">> \in Takings(mode)
        BY <2>2, <3>1, <3>2 DEF Handler, Takings
      <4> QED
        BY <4>1, Named, HandlersNamed
    <3>3. CASE k = "accept" /\ r = "zero"
      <4>1. s = <<"acceptFailed", "release">> /\ <<k, "acceptFailed", "release", "bottom">> \in Takings(mode)
        BY <2>2, <3>1, <3>3 DEF Handler, Takings
      <4> QED
        BY <4>1, Named, HandlersNamed
    <3>4. CASE k = "recv" /\ r = "done"
      <4>1. s = <<"message", "recv", "release">> /\ <<k, "message", "recv", "release">> \in Takings(mode)
        BY <2>1, <2>2, <3>1, <3>4 DEF Handler, Takings
      <4> QED
        BY <4>1, Named, HandlersNamed
    <3>5. CASE k = "recv" /\ r = "zero"
      <4>1. s = <<"disconnect", "release">> /\ <<k, "disconnect", "release", "bottom">> \in Takings(mode)
        BY <2>2, <3>1, <3>5 DEF Handler, Takings
      <4> QED
        BY <4>1, Named, HandlersNamed
    <3>6. CASE k = "send"
      <4>1. s = <<"sended", "release">> /\ <<k, "sended", "release", "bottom">> \in Takings(mode)
        BY <2>2, <3>1, <3>6 DEF Handler, Takings
      <4> QED
        BY <4>1, Named, HandlersNamed
    <3> QED
      BY <1>3, <3>2, <3>3, <3>4, <3>5, <3>6 DEF Kinds
  <2>3. CASE mode = "ws"
    <3>1. s = W!Handler(k, r)
      BY <1>0, <2>3
    <3>2. CASE k = "accept" /\ r = "done"
      <4>1. s = <<"accepted", "release">> /\ <<k, "accepted", "release", "bottom">> \in Takings(mode)
        BY <2>3, <3>1, <3>2 DEF W!Handler, Takings
      <4> QED
        BY <4>1, Named, HandlersNamed
    <3>3. CASE k = "accept" /\ r = "zero"
      <4>1. s = <<"acceptFailed", "release">> /\ <<k, "acceptFailed", "release", "bottom">> \in Takings(mode)
        BY <2>3, <3>1, <3>3 DEF W!Handler, Takings
      <4> QED
        BY <4>1, Named, HandlersNamed
    <3>4. CASE k = "recv" /\ r = "done"
      <4>1. s = <<"message", "wsaRecv", "release">> /\ <<k, "message", "wsaRecv", "release">> \in Takings(mode)
        BY <2>3, <3>1, <3>4 DEF W!Handler, Takings
      <4> QED
        BY <4>1, Named, HandlersNamed
    <3>5. CASE k = "recv" /\ r = "zero"
      <4>1. s = <<"disconnect", "release">> /\ <<k, "disconnect", "release", "bottom">> \in Takings(mode)
        BY <2>3, <3>1, <3>5 DEF W!Handler, Takings
      <4> QED
        BY <4>1, Named, HandlersNamed
    <3>6. CASE k = "send"
      <4>1. s = <<"sended", "release">> /\ <<k, "sended", "release", "bottom">> \in Takings(mode)
        BY <2>3, <3>1, <3>6 DEF W!Handler, Takings
      <4> QED
        BY <4>1, Named, HandlersNamed
    <3> QED
      BY <1>3, <3>2, <3>3, <3>4, <3>5, <3>6 DEF Kinds
  <2>4. CASE mode = "jobs"
    <3>1. s = J!JobHandler(k, r)
      BY <1>0, <2>4
    <3>2. CASE k = "accept" /\ r = "done"
      <4>1. s = <<"makeAccept", "release">> /\ <<k, "makeAccept", "release", "bottom">> \in Takings(mode)
        BY <2>4, <3>1, <3>2 DEF J!JobHandler, Takings
      <4> QED
        BY <4>1, Named, HandlersNamed
    <3>3. CASE k = "accept" /\ r = "zero"
      <4>1. s = <<"makeStale", "release">> /\ <<k, "makeStale", "release", "bottom">> \in Takings(mode)
        BY <2>4, <3>1, <3>3 DEF J!JobHandler, Takings
      <4> QED
        BY <4>1, Named, HandlersNamed
    <3>4. CASE k = "recv" /\ r = "done"
      <4>1. s = <<"makeRecv", "recv", "release">> /\ <<k, "makeRecv", "recv", "release">> \in Takings(mode)
        BY <2>4, <3>1, <3>4 DEF J!JobHandler, Takings
      <4> QED
        BY <4>1, Named, HandlersNamed
    <3>5. CASE k = "recv" /\ r = "zero"
      <4>1. s = <<"disconnect", "release">> /\ <<k, "disconnect", "release", "bottom">> \in Takings(mode)
        BY <2>4, <3>1, <3>5 DEF J!JobHandler, J!Handler, Takings
      <4> QED
        BY <4>1, Named, HandlersNamed
    <3>6. CASE k = "send"
      <4>1. s = <<"sended", "release">> /\ <<k, "sended", "release", "bottom">> \in Takings(mode)
        BY <2>4, <3>1, <3>6 DEF J!JobHandler, J!Handler, Takings
      <4> QED
        BY <4>1, Named, HandlersNamed
    <3> QED
      BY <1>3, <3>2, <3>3, <3>4, <3>5, <3>6 DEF Kinds
  <2> QED
    BY <1>1, <2>2, <2>3, <2>4
<1>5. k = "accept" /\ r = "done" => s \in {<<"accepted", "release">>, <<"makeAccept", "release">>}
  BY <1>0, <1>1 DEF Handler, J!JobHandler, W!Handler
<1> QED
  BY <1>4, <1>5 DEF Handles

LEMMA DequeueKeeps ==
    ASSUME SlotAssumption, IInv, TypeInv', Dequeue, UNCHANGED <<used, jobs, mode>>
    PROVE  IInv'
<1>1. PICK w \in Workers, k \in Kinds, r \in {"done", "zero"} : \E s : Dequeued(w, k, r, s)
  BY SomeDequeued
<1>2. PICK s : Dequeued(w, k, r, s)
  BY <1>1
<1>3. w \in Threads
  BY DEF Threads
<1>4. Handles(k, s)
  BY <1>2, DequeuedSteps
<1>5. /\ stack[w] = <<>> /\ io[k][r] > 0 /\ io' = [io EXCEPT ![k][r] = @ - 1]
      /\ stack' = [stack EXCEPT ![w] = s] /\ UNCHANGED <<jobs, mode, refs, listed, told, sending, calls>>
  BY <1>2 DEF Dequeued
<1> QED
  BY <1>3, <1>4, <1>5, TakenSteps

\* What the kernel and the peer do: nobody's stack changes, and I/O that completes is
\* still outstanding.
LEMMA SameKeeps ==
    ASSUME SlotAssumption, IInv, TypeInv', UNCHANGED <<stack, jobs, mode, refs, listed, told, sending, calls>>,
           \A x \in Kinds : Count(x)' = Count(x)
    PROVE  IInv'
<1>1. TypeInv /\ StackInv /\ QueueInv /\ CountInv /\ (calls = 0 => QuietInv)
  BY DEF IInv
<1>2. StackInv'
  BY <1>1 DEF StackInv, Table
<1>3. \A P : Left(P)' = Left(P)
  BY DEF Left
<1>4. QueueInv' /\ Waiting' = Waiting
  BY <1>1, <1>3 DEF QueueInv, Waiting
<1>5. \A P : Occurs(P, Waiting)' = Occurs(P, Waiting)
  BY <1>4
<1>6. Total(Balances)' = Total(Balances) /\ Total(Enders)' = Total(Enders) /\ Total(Greetings)' = Total(Greetings)
  <2>1. Balances' = Balances /\ Enders' = Enders /\ Greetings' = Greetings
    BY DEF Balances, Enders, Greetings
  <2> QED
    BY <2>1
<1>7. Count("accept")' = Count("accept") /\ Count("recv")' = Count("recv") /\ Count("send")' = Count("send")
  BY DEF Kinds
<1>8. Outstanding' = Outstanding /\ Kept' = Kept
  BY <1>5, <1>6, <1>7 DEF Outstanding, Kept
<1>9. CountInv'
  <2>1. Reserved' = Reserved /\ CarriedSteps' = CarriedSteps
    BY <1>3 DEF Reserved, CarriedSteps
  <2>2. Left(CarriedSteps)' = Left(CarriedSteps)
    BY <2>1 DEF Left
  <2> QED
    BY <1>1, <1>3, <1>5, <1>8, <2>1, <2>2 DEF CountInv
<1>10. ASSUME calls = 0
       PROVE  QuietInv'
  <2>1. EndInv /\ OpenInv /\ RecvInv /\ SendInv /\ ToldInv
    BY <1>1, <1>10 DEF QuietInv
  <2>2. Endings' = Endings /\ Accepts' = Accepts /\ Traffic' = Traffic /\ Receives' = Receives /\ Sends' = Sends
    BY <1>3, <1>5, <1>6, <1>7 DEF Endings, Accepts, Traffic, Receives, Sends
  <2>3. Messages' = Messages /\ Telling' = Telling /\ Untelling' = Untelling
    BY <1>3, <1>5 DEF Messages, Telling, Untelling
  <2> QED
    BY <1>3, <1>8, <2>1, <2>2, <2>3, SameNumbers
<1> QED
  BY <1>2, <1>4, <1>9, <1>10 DEF IInv

LEMMA KernelKeeps ==
    ASSUME SlotAssumption, IInv, TypeInv', UNCHANGED <<jobs, mode>>,
           PeerSends \/ PeerCloses \/ RecvEnds \/ SendEnds \/ Arrival
    PROVE  IInv'
<1>1. io \in IoType
  BY DEF IInv, TypeInv, IoType
<1>2. UNCHANGED <<stack, refs, listed, told, sending, calls>>
  BY DEF PeerSends, PeerCloses, RecvEnds, SendEnds, Arrival, PeerConnects, AcceptReset, W!PeerRequests
<1>3. \/ io' = io
      \/ \E k \in Kinds, r \in {"done", "zero"} : io[k].pending > 0 /\ io' = Completes(k, r)
  BY DEF PeerSends, PeerCloses, RecvEnds, SendEnds, Arrival, PeerConnects, AcceptReset, W!PeerRequests, Kinds,
         W!Completes, Completes
<1>4. \A x \in Kinds : Count(x)' = Count(x)
  BY <1>1, <1>3, CompletesCounts, SameCounts
<1> QED
  BY <1>2, <1>4, SameKeeps

\* An application thread calls Send or Disconnect: from now on threads may be at work
\* without a reference, but the count is as before.
LEMMA CallingKeeps ==
    ASSUME SlotAssumption, IInv, TypeInv', Calling, UNCHANGED <<used, jobs, mode>>
    PROVE  IInv'
<1>1. TypeInv /\ StackInv /\ QueueInv /\ CountInv /\ mode \in {"acceptor", "jobs", "ws"}
  BY DEF IInv, StackInv
<1>2. PICK t \in Apps, x \in {"send", "disconnect"} :
          stack[t] = <<>> /\ stack' = [stack EXCEPT ![t] = <<x>>] /\ calls' = calls + 1 /\ UNCHANGED <<io, refs>>
  BY DEF Calling, AppCall, SlotAssumption
<1>3. t \in Threads /\ x \in Steps /\ x # "bottom" /\ x \in Opt(Steps) /\ "bottom" \in Opt(Steps)
  BY Named DEF Threads, Opt
<1>4. Moves(t, "bottom", "bottom", x, "bottom", "bottom")
  BY <1>2, <1>3, StackTyped, BeginsOne
<1>5. calls' # 0
  BY <1>1, <1>2 DEF TypeInv
<1>6. StackInv'
  <2>1. PICK U, V : U = Table /\ V = Table'
    OBVIOUS
  <2>2. DOMAIN U = Steps /\ DOMAIN V = Steps /\ \A y \in Steps : U[y] \subseteq V[y]
    <3>1. DOMAIN U = Steps /\ DOMAIN V = Steps
      BY <2>1, LiesDomain DEF Table
    <3>2. \A y \in Steps : MayLie(mode, calls # 0)[y] \subseteq MayLie(mode, TRUE)[y]
      BY DEF MayLie, Calls
    <3>3. V = MayLie(mode, TRUE)
      BY <1>5, <2>1 DEF Table
    <3> QED
      BY <2>1, <3>1, <3>2, <3>3 DEF Table
  <2>3. \A u \in Threads : Good(V, stack[u])
    <3> SUFFICES ASSUME NEW u \in Threads PROVE Good(V, stack[u])
      OBVIOUS
    <3>1. Good(U, stack[u])
      BY <1>1, <2>1 DEF StackInv
    <3> QED
      BY <2>2, <3>1, GoodMore
  <2>4. V["send"] = Calls \cup {"bottom"} /\ V["disconnect"] = Calls \cup Base
    <3>1. V = MayLie(mode', TRUE)
      BY <1>5, <2>1 DEF Table
    <3>2. /\ MayLie(mode', TRUE)["send"] = Calls \cup {"bottom"}
          /\ MayLie(mode', TRUE)["disconnect"] = Calls \cup Base
      BY Lies
    <3> QED
      BY <3>1, <3>2
  <2>5. /\ stack' \in [Threads -> Seq(Steps)]
        /\ stack'[t] = Turned("bottom", "bottom", x, "bottom", "bottom", stack[t])
        /\ \A u \in Threads : u # t => stack'[u] = stack[u]
    BY <1>1, <1>3, <1>4, MovesType DEF StackInv
  <2>6. Good(V, stack'[t])
    <3>1. Has("bottom", "bottom", stack[t]) /\ Top(Under("bottom", "bottom", stack[t])) = "bottom"
      BY <1>2 DEF Has, OnTop, Under, Off, Top
    <3>2. Linked(V, x, "bottom", "bottom", "bottom")
      BY <1>3, <2>2, <2>4 DEF Linked, Base
    <3> QED
      BY <2>3, <2>5, <1>3, <3>1, <3>2, TurnGood
  <2>7. \A u \in Threads : Good(V, stack'[u])
    BY <2>3, <2>5, <2>6
  <2> QED
    BY <1>1, <2>1, <2>5, <2>7 DEF StackInv
<1>7. /\ Net({"pop"}, "bottom", "bottom", x, "bottom", "bottom") = 0
      /\ Net({"update"}, "bottom", "bottom", x, "bottom", "bottom") = 0
      /\ NetBal("bottom", "bottom", x, "bottom", "bottom") = 0
      /\ Reserving(mode, "bottom", "bottom", x, "bottom", "bottom") = 0
  <2>1. CASE x = "send"
    BY <2>1 DEF NetBal, Reserving, Net, In, Adders
  <2>2. CASE x = "disconnect"
    BY <2>2 DEF NetBal, Reserving, Net, In, Adders
  <2> QED
    BY <2>1, <2>2
<1>8. QueueInv' /\ Waiting' = Waiting
  BY <1>1, <1>3, <1>4, <1>7, OrdinaryQueue
<1>9. CountInv'
  <2> PICK z \in Int : z = 0
    OBVIOUS
  <2>1. Outstanding' = Outstanding /\ Outstanding \in Nat /\ Occurs(Owning, Waiting) \in Nat
        /\ Occurs(Owning, Waiting)' = Occurs(Owning, Waiting) /\ refs \in Nat
    BY <1>1, <1>2, <1>8, OutstandingType, WaitingType, KeptType DEF Outstanding, Count, TypeInv
  <2>2. /\ refs' = refs + z /\ Outstanding' = Outstanding + z
        /\ Occurs(Owning, Waiting)' = Occurs(Owning, Waiting) + z
        /\ z = z + z + NetBal("bottom", "bottom", x, "bottom", "bottom") + Reserving(mode, "bottom", "bottom", x, "bottom", "bottom")
    BY <1>2, <1>7, <2>1
  <2> QED
    BY <1>1, <1>3, <1>4, <1>6, <2>2, OrdinaryCount
<1> QED
  BY <1>5, <1>6, <1>8, <1>9 DEF IInv

-----------------------------------------------------------------------------
(***************************************************************************)
(* Types                                                                   *)
(***************************************************************************)
\* What an action may do to the I/O of a slot.
IoMoves == \/ io' = io
           \/ \E k \in {"accept", "recv", "send"} : io' = Posted(k)
           \/ \E ks \in SUBSET Kinds : io' = Aborted(ks)
           \/ \E k \in Kinds, r \in {"done", "zero"} :
                 \/ io[k].pending > 0 /\ io' = Completes(k, r)
                 \/ io[k][r] > 0 /\ io' = [io EXCEPT ![k][r] = @ - 1]

LEMMA IoTyped ==
    ASSUME io \in IoType, Count("reconnect") = 0, IoMoves
    PROVE  io' \in IoType /\ Count("reconnect")' = 0
<1>1. CASE io' = io
  BY <1>1, SameCounts DEF Kinds
<1>2. ASSUME NEW k \in {"accept", "recv", "send"}, io' = Posted(k)
      PROVE  io' \in IoType /\ Count("reconnect")' = 0
  BY <1>2, PostedCounts DEF Kinds
<1>3. ASSUME NEW ks \in SUBSET Kinds, io' = Aborted(ks)
      PROVE  io' \in IoType /\ Count("reconnect")' = 0
  BY <1>3, AbortedCounts DEF Kinds
<1>4. ASSUME NEW k \in Kinds, NEW r \in {"done", "zero"}, io[k].pending > 0, io' = Completes(k, r)
      PROVE  io' \in IoType /\ Count("reconnect")' = 0
  BY <1>4, CompletesCounts DEF Kinds
<1>5. ASSUME NEW k \in Kinds, NEW r \in {"done", "zero"}, io[k][r] > 0, io' = [io EXCEPT ![k][r] = @ - 1]
      PROVE  io' \in IoType /\ Count("reconnect")' = 0
  <2>1. io' \in IoType /\ Count(k) >= 1 /\ \A x \in Kinds : x # k => Count(x)' = Count(x)
    BY <1>5, TakenCounts
  <2>2. k # "reconnect"
    BY <2>1
  <2> QED
    BY <2>1, <2>2 DEF Kinds
<1> QED
  BY <1>1, <1>2, <1>3, <1>4, <1>5 DEF IoMoves

\* The variables other than the stacks, the count and the I/O.
Plainly == /\ sock \in {"none", "fresh", "up", "down"}
           /\ flag \in BOOLEAN /\ listed \in BOOLEAN /\ sending \in BOOLEAN
           /\ more \in BOOLEAN /\ ring \in BOOLEAN /\ told \in BOOLEAN
           /\ gen \in Nat /\ calls \in 0..MaxCalls /\ used \in BOOLEAN

LEMMA CoreTyped ==
    ASSUME Plainly, NEW t \in Threads, CoreStep(t), used' = used
    PROVE  Plainly' /\ IoMoves
<1>1. CASE Ending(t)
  <2>1. Plainly'
    BY <1>1 DEF Ending, Release, Clear, DelSession, Close, Plainly
  <2>2. IoMoves
    BY <1>1 DEF Ending, Release, Clear, DelSession, Close, IoMoves, Kinds
  <2> QED
    BY <2>1, <2>2
<1>2. CASE Connecting(t)
  <2>1. io' = io
    BY <1>2 DEF Connecting, OnConnect, InitializeOk, InitializeFails, AddSessionOk, AddSessionFails, OnConnected
  <2>2. CASE OnConnected(t)
    <3>1. gen' = gen + 1 /\ told' = TRUE /\ UNCHANGED <<sock, flag, listed, sending, more, ring, calls>>
      BY <2>2 DEF OnConnected
    <3> QED
      <4>1. Plainly'
        BY <2>1, <3>1 DEF Plainly
      <4>2. IoMoves
        BY <2>1, <3>1 DEF IoMoves
      <4> QED
        BY <4>1, <4>2
  <2>3. CASE ~OnConnected(t)
    <3>1. Plainly'
      BY <1>2, <2>1, <2>3 DEF Connecting, OnConnect, InitializeOk, InitializeFails, AddSessionOk, AddSessionFails, Plainly
    <3>2. IoMoves
      BY <1>2, <2>1, <2>3 DEF Connecting, OnConnect, InitializeOk, InitializeFails, AddSessionOk, AddSessionFails, IoMoves
    <3> QED
      BY <3>1, <3>2
  <2> QED
    BY <2>2, <2>3
<1>3. CASE Receiving(t)
  <2>1. Plainly'
    BY <1>3 DEF Receiving, Message, BadMessage, Recv, WsaRecvOk, WsaRecvFails, Plainly
  <2>2. IoMoves
    BY <1>3 DEF Receiving, Message, BadMessage, Recv, WsaRecvOk, WsaRecvFails, IoMoves
  <2> QED
    BY <2>1, <2>2
<1>4. CASE Sending(t)
  <2>1. Plainly'
    BY <1>4 DEF Sending, SendIdle, SendBehind, WsaSendOk, WsaSendFails, Sended, Plainly
  <2>2. IoMoves
    BY <1>4 DEF Sending, SendIdle, SendBehind, WsaSendOk, WsaSendFails, Sended, IoMoves
  <2> QED
    BY <2>1, <2>2
<1>5. CASE Disconnecting(t)
  <2>1. Plainly'
    BY <1>5 DEF Disconnecting, Disconnect, IsValid, Hold, Cancel, Plainly
  <2>2. IoMoves
    BY <1>5 DEF Disconnecting, Disconnect, IsValid, Hold, Cancel, IoMoves, Kinds
  <2> QED
    BY <2>1, <2>2
<1> QED
  BY <1>1, <1>2, <1>3, <1>4, <1>5 DEF CoreStep

LEMMA SlotTyped ==
    ASSUME Plainly, NEW t \in Threads, Step(t)
    PROVE  Plainly' /\ IoMoves
<1>1. CASE CoreStep(t) /\ used' = used
  BY <1>1, CoreTyped
<1>2. CASE OnDisconnected(t)
  <2>1. Plainly'
    BY <1>2 DEF OnDisconnected, Plainly
  <2>2. IoMoves
    BY <1>2 DEF OnDisconnected, IoMoves
  <2> QED
    BY <2>1, <2>2
<1>3. CASE Accept(t)
  <2>1. Plainly'
    BY <1>3 DEF Accept, OpenOk, OpenFails, Opened, OpenFailed, AcceptExOk, AcceptExFails, Plainly
  <2>2. IoMoves
    BY <1>3 DEF Accept, OpenOk, OpenFails, Opened, OpenFailed, AcceptExOk, AcceptExFails, IoMoves, Kinds
  <2> QED
    BY <2>1, <2>2
<1>4. CASE Accepted(t)
  <2>1. Plainly'
    BY <1>4 DEF Accepted, AcceptedOk, AcceptedFails, AcceptedStale, Plainly
  <2>2. IoMoves
    BY <1>4 DEF Accepted, AcceptedOk, AcceptedFails, AcceptedStale, IoMoves
  <2> QED
    BY <2>1, <2>2
<1> QED
  BY <1>1, <1>2, <1>3, <1>4 DEF Step, Own

LEMMA JobsTyped ==
    ASSUME Plainly, NEW t \in Threads, J!JobStep(t)
    PROVE  Plainly' /\ IoMoves
<1>1. CASE J!MakeJob(t) \/ J!AddIoJob(t) \/ J!BadBytes(t)
  <2>1. Plainly'
    BY <1>1 DEF J!MakeJob, J!AddIoJob, J!BadBytes, Plainly
  <2>2. IoMoves
    BY <1>1 DEF J!MakeJob, J!AddIoJob, J!BadBytes, IoMoves
  <2> QED
    BY <2>1, <2>2
<1>2. CASE J!Update(t) \/ J!Excute(t) \/ J!Pop(t) \/ J!UpdateEnds(t)
  <2>1. Plainly'
    BY <1>2 DEF J!Update, J!Excute, J!Pop, J!UpdateEnds, Plainly
  <2>2. IoMoves
    BY <1>2 DEF J!Update, J!Excute, J!Pop, J!UpdateEnds, IoMoves
  <2> QED
    BY <2>1, <2>2
<1>3. CASE J!CoreStep(t) /\ used' = used
  <2>1. CASE J!Ending(t)
    <3>1. Plainly'
      BY <1>3, <2>1 DEF J!Ending, J!Release, J!Clear, J!DelSession, J!Close, Plainly
    <3>2. IoMoves
      BY <1>3, <2>1 DEF J!Ending, J!Release, J!Clear, J!DelSession, J!Close, J!Aborted, Aborted, J!Kinds, IoMoves, Kinds
    <3> QED
      BY <3>1, <3>2
  <2>2. CASE J!Connecting(t)
    <3>1. io' = io
      BY <2>2 DEF J!Connecting, J!OnConnect, J!InitializeOk, J!InitializeFails, J!AddSessionOk, J!AddSessionFails, J!OnConnected
    <3>2. CASE J!OnConnected(t)
      <4>1. gen' = gen + 1 /\ told' = TRUE /\ UNCHANGED <<sock, flag, listed, sending, more, ring, calls>>
        BY <3>2 DEF J!OnConnected
      <4> QED
        <5>1. Plainly'
          BY <1>3, <3>1, <4>1 DEF Plainly
        <5>2. IoMoves
          BY <1>3, <3>1, <4>1 DEF IoMoves
        <5> QED
          BY <5>1, <5>2
    <3>3. CASE ~J!OnConnected(t)
      <4>1. Plainly'
        BY <1>3, <2>2, <3>1, <3>3 DEF J!Connecting, J!OnConnect, J!InitializeOk, J!InitializeFails, J!AddSessionOk,
                                      J!AddSessionFails, Plainly
      <4>2. IoMoves
        BY <1>3, <2>2, <3>1, <3>3 DEF J!Connecting, J!OnConnect, J!InitializeOk, J!InitializeFails, J!AddSessionOk,
                                      J!AddSessionFails, IoMoves
      <4> QED
        BY <4>1, <4>2
    <3> QED
      BY <3>2, <3>3
  <2>3. CASE J!Receiving(t)
    <3>1. Plainly'
      BY <1>3, <2>3 DEF J!Receiving, J!Message, J!BadMessage, J!Recv, J!WsaRecvOk, J!WsaRecvFails, Plainly
    <3>2. IoMoves
      BY <1>3, <2>3 DEF J!Receiving, J!Message, J!BadMessage, J!Recv, J!WsaRecvOk, J!WsaRecvFails, J!Posted, Posted, IoMoves
    <3> QED
      BY <3>1, <3>2
  <2>4. CASE J!Sending(t)
    <3>1. Plainly'
      BY <1>3, <2>4 DEF J!Sending, J!SendIdle, J!SendBehind, J!WsaSendOk, J!WsaSendFails, J!Sended, Plainly
    <3>2. IoMoves
      BY <1>3, <2>4 DEF J!Sending, J!SendIdle, J!SendBehind, J!WsaSendOk, J!WsaSendFails, J!Sended, J!Posted, Posted,
                        IoMoves
    <3> QED
      BY <3>1, <3>2
  <2>5. CASE J!Disconnecting(t)
    <3>1. Plainly'
      BY <1>3, <2>5 DEF J!Disconnecting, J!Disconnect, J!IsValid, J!Hold, J!Cancel, Plainly
    <3>2. IoMoves
      BY <1>3, <2>5 DEF J!Disconnecting, J!Disconnect, J!IsValid, J!Hold, J!Cancel, J!Aborted, Aborted, J!Kinds, IoMoves,
                        Kinds
    <3> QED
      BY <3>1, <3>2
  <2> QED
    BY <1>3, <2>1, <2>2, <2>3, <2>4, <2>5 DEF J!CoreStep
<1>4. CASE J!OnDisconnected(t)
  <2>1. Plainly'
    BY <1>4 DEF J!OnDisconnected, Plainly
  <2>2. IoMoves
    BY <1>4 DEF J!OnDisconnected, IoMoves
  <2> QED
    BY <2>1, <2>2
<1>5. CASE J!Accept(t)
  <2>1. Plainly'
    BY <1>5 DEF J!Accept, J!OpenOk, J!OpenFails, J!Opened, J!OpenFailed, J!AcceptExOk, J!AcceptExFails, Plainly
  <2>2. IoMoves
    BY <1>5 DEF J!Accept, J!OpenOk, J!OpenFails, J!Opened, J!OpenFailed, J!AcceptExOk, J!AcceptExFails, J!Aborted, Aborted,
                J!Posted, Posted, J!Kinds, IoMoves, Kinds
  <2> QED
    BY <2>1, <2>2
<1>6. CASE J!Accepted(t)
  <2>1. Plainly'
    BY <1>6 DEF J!Accepted, J!AcceptedOk, J!AcceptedFails, J!AcceptedStale, Plainly
  <2>2. IoMoves
    BY <1>6 DEF J!Accepted, J!AcceptedOk, J!AcceptedFails, J!AcceptedStale, IoMoves
  <2> QED
    BY <2>1, <2>2
<1> QED
  BY <1>1, <1>2, <1>3, <1>4, <1>5, <1>6 DEF J!JobStep, J!Step, J!Own

LEMMA WsTyped ==
    ASSUME Plainly, NEW t \in Threads, W!Step(t)
    PROVE  Plainly' /\ IoMoves
<1>1. CASE W!Core(t) /\ used' = used
  <2>1. CASE W!Ending(t)
    <3>1. Plainly'
      BY <1>1, <2>1 DEF W!Ending, W!Release, W!Clear, W!DelSession, W!Close, Plainly
    <3>2. IoMoves
      BY <1>1, <2>1 DEF W!Ending, W!Release, W!Clear, W!DelSession, W!Close, W!Aborted, Aborted, W!Kinds, IoMoves, Kinds
    <3> QED
      BY <3>1, <3>2
  <2>2. CASE W!Connecting(t)
    <3>1. io' = io
      BY <2>2 DEF W!Connecting, W!OnConnect, W!InitializeOk, W!InitializeFails, W!AddSessionOk, W!AddSessionFails, W!OnConnected
    <3>2. CASE W!OnConnected(t)
      <4>1. gen' = gen + 1 /\ told' = TRUE /\ UNCHANGED <<sock, flag, listed, sending, more, ring, calls>>
        BY <3>2 DEF W!OnConnected
      <4> QED
        <5>1. Plainly'
          BY <1>1, <3>1, <4>1 DEF Plainly
        <5>2. IoMoves
          BY <1>1, <3>1, <4>1 DEF IoMoves
        <5> QED
          BY <5>1, <5>2
    <3>3. CASE ~W!OnConnected(t)
      <4>1. Plainly'
        BY <1>1, <2>2, <3>1, <3>3 DEF W!Connecting, W!OnConnect, W!InitializeOk, W!InitializeFails, W!AddSessionOk,
                                      W!AddSessionFails, Plainly
      <4>2. IoMoves
        BY <1>1, <2>2, <3>1, <3>3 DEF W!Connecting, W!OnConnect, W!InitializeOk, W!InitializeFails, W!AddSessionOk,
                                      W!AddSessionFails, IoMoves
      <4> QED
        BY <4>1, <4>2
    <3> QED
      BY <3>2, <3>3
  <2>3. CASE W!Receiving(t)
    <3>1. Plainly'
      BY <1>1, <2>3 DEF W!Receiving, W!Message, W!BadMessage, W!Recv, W!WsaRecvOk, W!WsaRecvFails, Plainly
    <3>2. IoMoves
      BY <1>1, <2>3 DEF W!Receiving, W!Message, W!BadMessage, W!Recv, W!WsaRecvOk, W!WsaRecvFails, W!Posted, Posted, IoMoves
    <3> QED
      BY <3>1, <3>2
  <2>4. CASE W!Sending(t)
    <3>1. Plainly'
      BY <1>1, <2>4 DEF W!Sending, W!SendIdle, W!SendBehind, W!WsaSendOk, W!WsaSendFails, W!Sended, Plainly
    <3>2. IoMoves
      BY <1>1, <2>4 DEF W!Sending, W!SendIdle, W!SendBehind, W!WsaSendOk, W!WsaSendFails, W!Sended, W!Posted, Posted,
                        IoMoves
    <3> QED
      BY <3>1, <3>2
  <2>5. CASE W!Disconnecting(t)
    <3>1. Plainly'
      BY <1>1, <2>5 DEF W!Disconnecting, W!Disconnect, W!IsValid, W!Hold, W!Cancel, Plainly
    <3>2. IoMoves
      BY <1>1, <2>5 DEF W!Disconnecting, W!Disconnect, W!IsValid, W!Hold, W!Cancel, W!Aborted, Aborted, W!Kinds, IoMoves,
                        Kinds
    <3> QED
      BY <3>1, <3>2
  <2> QED
    BY <1>1, <2>1, <2>2, <2>3, <2>4, <2>5 DEF W!Core, W!ConnectedWs, W!RecvedWs
<1>2. CASE W!OnDisconnected(t)
  <2>1. Plainly'
    BY <1>2 DEF W!OnDisconnected, Plainly
  <2>2. IoMoves
    BY <1>2 DEF W!OnDisconnected, IoMoves
  <2> QED
    BY <2>1, <2>2
<1>3. CASE W!Accept(t)
  <2>1. Plainly'
    BY <1>3 DEF W!Accept, W!OpenOk, W!OpenFails, W!Opened, W!OpenFailed, W!AcceptExOk, W!AcceptExFails, Plainly
  <2>2. IoMoves
    BY <1>3 DEF W!Accept, W!OpenOk, W!OpenFails, W!Opened, W!OpenFailed, W!AcceptExOk, W!AcceptExFails, W!Aborted, Aborted,
                W!Posted, Posted, W!Kinds, IoMoves, Kinds
  <2> QED
    BY <2>1, <2>2
<1>4. CASE W!Accepted(t)
  <2>1. CASE W!Addressed(t) \/ W!AddressFails(t) \/ W!OnConnectWs(t)
    BY <2>1 DEF W!Addressed, W!AddressFails, W!OnConnectWs, Plainly, IoMoves
  <2>2. CASE W!HandshakeOk(t) \/ W!HandshakeFails(t) \/ W!Ping(t)
    BY <2>2 DEF W!HandshakeOk, W!HandshakeFails, W!Ping, Plainly, IoMoves
  <2> QED
    BY <1>4, <2>1, <2>2 DEF W!Accepted
<1> QED
  BY <1>1, <1>2, <1>3, <1>4 DEF W!Step, W!Own

\* Every step keeps the types.
LEMMA NextTyped ==
    ASSUME TypeInv, mode \in {"acceptor", "jobs", "ws"}, AnyNext
    PROVE  TypeInv'
<1>1. Plainly /\ io \in IoType /\ Count("reconnect") = 0
  BY DEF TypeInv, Plainly, IoType
<1>2. Plainly' /\ IoMoves
  <2>1. CASE \E t \in Threads : StepOf(t)
    BY <1>1, <2>1, SlotTyped, JobsTyped, WsTyped DEF StepOf
  <2>2. CASE Arrival
    BY <1>1, <2>2 DEF Arrival, PeerConnects, AcceptReset, W!PeerRequests, W!Completes, Completes, Plainly, IoMoves, Kinds, AnyNext
  <2>3. CASE Dequeue /\ used' = used
    <3>1. CASE mode = "acceptor"
      BY <1>1, <2>3, <3>1 DEF Dequeue, Dispatch, Completion, Taken, Plainly, IoMoves
    <3>2. CASE mode = "jobs"
      BY <1>1, <2>3, <3>2 DEF Dequeue, J!DispatchJob, J!Taken, J!Kinds, Kinds, Plainly, IoMoves
    <3>3. CASE mode = "ws"
      BY <1>1, <2>3, <3>3 DEF Dequeue, W!Dispatch, W!Completion, W!Taken, W!Kinds, Kinds, Plainly, IoMoves
    <3> QED
      BY <3>1, <3>2, <3>3
  <2>4. CASE Calling /\ used' = used
    BY <1>1, <2>4, SessionAssumption DEF Calling, AppCall, Plainly, IoMoves, SessionAssumption
  <2>5. CASE (PeerSends \/ PeerCloses \/ RecvEnds \/ SendEnds) /\ used' = used
    BY <1>1, <2>5 DEF PeerSends, PeerCloses, RecvEnds, SendEnds, Plainly, IoMoves, Kinds
  <2> QED
    BY <2>1, <2>2, <2>3, <2>4, <2>5 DEF AnyNext
<1>3. io' \in IoType /\ Count("reconnect")' = 0
  BY <1>1, <1>2, IoTyped
<1> QED
  BY <1>2, <1>3 DEF TypeInv, Plainly, IoType

-----------------------------------------------------------------------------
(***************************************************************************)
(* The steps of SessionCore that every kind of server makes alike          *)
(***************************************************************************)
Alike(t) ==
    \/ Release(t) \/ DelSession(t) \/ Close(t)
    \/ OnConnect(t) \/ InitializeOk(t) \/ InitializeFails(t) \/ AddSessionFails(t) \/ OnConnected(t)
    \/ Message(t) \/ Recv(t) \/ WsaRecvOk(t) \/ WsaRecvFails(t)
    \/ Sending(t) \/ Disconnecting(t)

LEMMA AlikeKeeps ==
    ASSUME SlotAssumption, IInv, TypeInv', NEW t \in Threads, UNCHANGED <<jobs, mode>>, Alike(t)
    PROVE  IInv'
<1>1. CASE Release(t) \/ DelSession(t) \/ Close(t)
  BY <1>1, ReleaseKeeps, DelSessionKeeps, CloseKeeps
<1>2. CASE OnConnect(t) \/ InitializeOk(t) \/ InitializeFails(t) \/ AddSessionFails(t) \/ OnConnected(t)
  BY <1>2, OnConnectKeeps, InitializeOkKeeps, InitializeFailsKeeps, AddSessionFailsKeeps, OnConnectedKeeps
<1>3. CASE Message(t) \/ Recv(t) \/ WsaRecvOk(t) \/ WsaRecvFails(t)
  BY <1>3, MessageKeeps, RecvKeeps, WsaRecvOkKeeps, WsaRecvFailsKeeps
<1>4. CASE Sending(t)
  BY <1>4, SendIdleKeeps, SendBehindKeeps, WsaSendOkKeeps, WsaSendFailsKeeps, SendedKeeps DEF Sending
<1>5. CASE Disconnecting(t)
  BY <1>5, DisconnectKeeps, IsValidKeeps, HoldKeeps, CancelKeeps DEF Disconnecting
<1> QED
  BY <1>1, <1>2, <1>3, <1>4, <1>5 DEF Alike

LEMMA CoreAlike ==
    ASSUME NEW t \in Threads, CoreStep(t)
    PROVE  Alike(t) \/ Clear(t) \/ AddSessionOk(t) \/ BadMessage(t)
  BY DEF CoreStep, Ending, Connecting, Receiving, Alike

LEMMA JobsAlike ==
    ASSUME NEW t \in Threads, J!CoreStep(t)
    PROVE  Alike(t) \/ J!Clear(t) \/ AddSessionOk(t) \/ BadMessage(t)
<1>1. CASE J!Ending(t)
  BY <1>1 DEF J!Ending, J!Release, J!DelSession, J!Close, Alike, Release, DelSession, Close,
              J!At, J!Then, J!Aborted, J!Kinds, At, Then, Aborted, Kinds
<1>2. CASE J!Connecting(t)
  BY <1>2 DEF J!Connecting, J!OnConnect, J!InitializeOk, J!InitializeFails, J!AddSessionOk, J!AddSessionFails, J!OnConnected,
              Alike, OnConnect, InitializeOk, InitializeFails, AddSessionOk, AddSessionFails, OnConnected,
              J!At, J!Then, J!Reference, J!MayFail, J!Callback, At, Then, Reference, MayFail, Callback
<1>3. CASE J!Receiving(t)
  BY <1>3 DEF J!Receiving, J!Message, J!BadMessage, J!Recv, J!WsaRecvOk, J!WsaRecvFails,
              Alike, Message, BadMessage, Recv, WsaRecvOk, WsaRecvFails,
              J!At, J!Then, J!ThenSkip, J!Reference, J!MayFail, J!Callback, J!Posted,
              At, Then, ThenSkip, Reference, MayFail, Callback, Posted
<1>4. CASE J!Sending(t)
  BY <1>4 DEF J!Sending, J!SendIdle, J!SendBehind, J!WsaSendOk, J!WsaSendFails, J!Sended,
              Alike, Sending, SendIdle, SendBehind, WsaSendOk, WsaSendFails, Sended,
              J!At, J!Then, J!Reference, J!MayFail, J!Posted, At, Then, Reference, MayFail, Posted
<1>5. CASE J!Disconnecting(t)
  BY <1>5 DEF J!Disconnecting, J!Disconnect, J!IsValid, J!Hold, J!Cancel,
              Alike, Disconnecting, Disconnect, IsValid, Hold, Cancel,
              J!At, J!Then, J!Reference, J!Aborted, J!Kinds, At, Then, Reference, Aborted, Kinds
<1> QED
  BY <1>1, <1>2, <1>3, <1>4, <1>5 DEF J!CoreStep

LEMMA WsAlike ==
    ASSUME NEW t \in Threads, W!Core(t)
    PROVE  Alike(t) \/ Clear(t) \/ W!AddSessionOk(t) \/ W!BadMessage(t)
<1>1. CASE W!Ending(t)
  BY <1>1 DEF W!Ending, W!Release, W!Clear, W!DelSession, W!Close, Alike, Release, Clear, DelSession, Close,
              W!At, W!Then, W!Aborted, W!Kinds, At, Then, Aborted, Kinds
<1>2. CASE W!Connecting(t)
  BY <1>2 DEF W!Connecting, W!OnConnect, W!InitializeOk, W!InitializeFails, W!AddSessionFails, W!OnConnected,
              Alike, OnConnect, InitializeOk, InitializeFails, AddSessionFails, OnConnected,
              W!At, W!Then, W!Reference, W!MayFail, W!Callback, At, Then, Reference, MayFail, Callback
<1>3. CASE W!Receiving(t)
  BY <1>3 DEF W!Receiving, W!Message, W!Recv, W!WsaRecvOk, W!WsaRecvFails,
              Alike, Message, Recv, WsaRecvOk, WsaRecvFails,
              W!At, W!Then, W!Reference, W!MayFail, W!Callback, W!Posted,
              At, Then, Reference, MayFail, Callback, Posted
<1>4. CASE W!Sending(t)
  BY <1>4 DEF W!Sending, W!SendIdle, W!SendBehind, W!WsaSendOk, W!WsaSendFails, W!Sended,
              Alike, Sending, SendIdle, SendBehind, WsaSendOk, WsaSendFails, Sended,
              W!At, W!Then, W!Reference, W!MayFail, W!Posted, At, Then, Reference, MayFail, Posted
<1>5. CASE W!Disconnecting(t)
  BY <1>5 DEF W!Disconnecting, W!Disconnect, W!IsValid, W!Hold, W!Cancel,
              Alike, Disconnecting, Disconnect, IsValid, Hold, Cancel,
              W!At, W!Then, W!Reference, W!Aborted, W!Kinds, At, Then, Reference, Aborted, Kinds
<1> QED
  BY <1>1, <1>2, <1>3, <1>4, <1>5 DEF W!Core, W!ConnectedWs, W!RecvedWs

LEMMA AddSessionOkKeeps ==
    ASSUME SlotAssumption, IInv, TypeInv', NEW t \in Threads, UNCHANGED <<jobs, mode>>, mode # "ws", AddSessionOk(t)
    PROVE  IInv'
<1>1. At(t, "addSession") /\ ~listed /\ listed' = TRUE /\ Then(t, <<"onConnected", "recv">>)
      /\ UNCHANGED <<refs, io, told, sending, calls>>
  BY DEF AddSessionOk, SlotAssumption
<1> QED
  BY <1>1, AddedKeeps

LEMMA WsAddSessionOkKeeps ==
    ASSUME SlotAssumption, IInv, TypeInv', NEW t \in Threads, UNCHANGED <<jobs, mode>>, mode = "ws", W!AddSessionOk(t)
    PROVE  IInv'
<1>1. At(t, "addSession") /\ ~listed /\ listed' = TRUE /\ Then(t, <<"onConnected", "wsaRecv">>)
      /\ UNCHANGED <<refs, io, told, sending, calls>>
  BY DEF W!AddSessionOk, W!At, W!Then, At, Then
<1> QED
  BY <1>1, AddedKeeps

LEMMA BadMessageKeeps ==
    ASSUME SlotAssumption, IInv, TypeInv', NEW t \in Threads, UNCHANGED <<jobs, mode>>,
           BadMessage(t) \/ W!BadMessage(t) \/ J!BadBytes(t)
    PROVE  IInv'
<1>1. UNCHANGED <<refs, io, listed, told, sending, calls>>
  BY DEF BadMessage, W!BadMessage, J!BadBytes
<1>2. CASE BadMessage(t)
  <2>1. At(t, "message") /\ ThenSkip(t, "recv", <<"disconnect">>)
    BY <1>2 DEF BadMessage, SlotAssumption
  <2> QED
    BY <1>1, <2>1, SkipKeeps
<1>3. CASE W!BadMessage(t)
  <2>1. At(t, "message") /\ ThenSkip(t, "wsaRecv", <<"disconnect">>)
    BY <1>3 DEF W!BadMessage, W!At, W!ThenSkip, At, ThenSkip
  <2> QED
    BY <1>1, <2>1, SkipKeeps
<1>4. CASE J!BadBytes(t)
  <2>1. At(t, "makeRecv") /\ ThenSkip(t, "recv", <<"disconnect">>)
    BY <1>4 DEF J!BadBytes, J!At, J!ThenSkip, At, ThenSkip
  <2> QED
    BY <1>1, <2>1, SkipKeeps
<1> QED
  BY <1>2, <1>3, <1>4

\* The steps of Session outside SessionCore.
LEMMA OwnKeeps ==
    ASSUME SlotAssumption, IInv, TypeInv', NEW t \in Threads, UNCHANGED <<jobs, mode>>, mode # "ws", Own(t)
    PROVE  IInv'
<1>1. CASE OnDisconnected(t)
  BY <1>1, OnDisconnectedKeeps
<1>2. CASE Accept(t)
  BY <1>2, OpenOkKeeps, OpenFailsKeeps, AcceptExOkKeeps, AcceptExFailsKeeps DEF Accept
<1>3. CASE Accepted(t)
  BY <1>3, AcceptedOkKeeps, AcceptedFailsKeeps, AcceptedStaleKeeps DEF Accepted
<1> QED
  BY <1>1, <1>2, <1>3 DEF Own

LEMMA JobsOwn ==
    ASSUME NEW t \in Threads, J!Own(t)
    PROVE  Own(t)
<1>1. CASE J!OnDisconnected(t)
  BY <1>1 DEF J!OnDisconnected, OnDisconnected, Own, J!At, J!Then, At, Then
<1>2. CASE J!Accept(t)
  BY <1>2 DEF J!Accept, J!OpenOk, J!OpenFails, J!Opened, J!OpenFailed, J!AcceptExOk, J!AcceptExFails,
              Own, Accept, OpenOk, OpenFails, Opened, OpenFailed, AcceptExOk, AcceptExFails,
              J!At, J!Then, J!Aborted, J!Kinds, J!Posted, J!Reference, J!MayFail,
              At, Then, Aborted, Kinds, Posted, Reference, MayFail
<1>3. CASE J!Accepted(t)
  BY <1>3 DEF J!Accepted, J!AcceptedOk, J!AcceptedFails, J!AcceptedStale, J!At, J!Then, J!MayFail,
              Own, Accepted, AcceptedOk, AcceptedFails, AcceptedStale, At, Then, MayFail
<1> QED
  BY <1>1, <1>2, <1>3 DEF J!Own

LEMMA WsOwnKeeps ==
    ASSUME SlotAssumption, IInv, TypeInv', NEW t \in Threads, UNCHANGED <<jobs, mode>>, mode = "ws", W!Own(t)
    PROVE  IInv'
<1>1. CASE W!OnDisconnected(t)
  BY <1>1, WsOnDisconnectedKeeps
<1>2. CASE W!Accept(t)
  BY <1>2, WsOpenOkKeeps, WsOpenFailsKeeps, WsAcceptExOkKeeps, WsAcceptExFailsKeeps DEF W!Accept
<1>3. CASE W!Accepted(t)
  BY <1>3, WsAddressedKeeps, WsAddressFailsKeeps, WsOnConnectKeeps, WsHandshakeOkKeeps, WsHandshakeFailsKeeps, WsPingKeeps
     DEF W!Accepted
<1> QED
  BY <1>1, <1>2, <1>3 DEF W!Own

\* A step of a thread, in each kind of server.
LEMMA StepKeeps ==
    ASSUME SlotAssumption, IInv, TypeInv', NEW t \in Threads, StepOf(t)
    PROVE  IInv'
<1>1. mode' = mode
  BY DEF StepOf
<1>2. CASE mode = "acceptor" /\ Step(t) /\ jobs' = jobs
  <2>1. Own(t) \/ Alike(t) \/ Clear(t) \/ AddSessionOk(t) \/ BadMessage(t)
    BY <1>2, CoreAlike DEF Step
  <2>2. CASE Clear(t)
    BY <1>1, <1>2, <2>2, ClearKeeps
  <2> QED
    BY <1>1, <1>2, <2>1, <2>2, OwnKeeps, AlikeKeeps, AddSessionOkKeeps, BadMessageKeeps
<1>3. CASE mode = "jobs" /\ J!JobStep(t)
  <2>1. CASE J!MakeJob(t)
    <3>1. jobs' = jobs
      BY <2>1 DEF J!MakeJob
    <3> QED
      BY <1>1, <2>1, <3>1, MakeJobKeeps
  <2>2. CASE J!BadBytes(t)
    <3>1. jobs' = jobs
      BY <2>2 DEF J!BadBytes
    <3> QED
      BY <1>1, <2>2, <3>1, BadMessageKeeps
  <2>3. CASE J!AddIoJob(t) \/ J!Update(t) \/ J!Excute(t) \/ J!Pop(t) \/ J!UpdateEnds(t)
    BY <1>1, <1>3, <2>3, AddIoJobKeeps, UpdateKeeps, ExcuteKeeps, PopKeeps, UpdateEndsKeeps
  <2>4. CASE J!Step(t) /\ jobs' = jobs
    <3>1. Own(t) \/ Alike(t) \/ J!Clear(t) \/ AddSessionOk(t) \/ BadMessage(t)
      BY <2>4, JobsOwn, JobsAlike DEF J!Step
    <3>2. CASE J!Clear(t)
      BY <1>1, <1>3, <2>4, <3>2, JobsClearKeeps
    <3> QED
      BY <1>1, <1>3, <2>4, <3>1, <3>2, OwnKeeps, AlikeKeeps, AddSessionOkKeeps, BadMessageKeeps
  <2> QED
    BY <1>3, <2>1, <2>2, <2>3, <2>4 DEF J!JobStep
<1>4. CASE mode = "ws" /\ W!Step(t) /\ jobs' = jobs
  <2>1. W!Own(t) \/ Alike(t) \/ Clear(t) \/ W!AddSessionOk(t) \/ W!BadMessage(t)
    BY <1>4, WsAlike DEF W!Step
  <2>2. CASE Clear(t)
    BY <1>1, <1>4, <2>2, ClearKeeps
  <2> QED
    BY <1>1, <1>4, <2>1, <2>2, WsOwnKeeps, AlikeKeeps, WsAddSessionOkKeeps, BadMessageKeeps
<1> QED
  BY <1>2, <1>3, <1>4 DEF StepOf

\* The invariant is inductive.
LEMMA NextKeeps ==
    ASSUME SlotAssumption, IInv, [AnyNext]_allVars
    PROVE  IInv'
<1>1. TypeInv /\ mode \in {"acceptor", "jobs", "ws"}
  BY DEF IInv, StackInv
<1>2. CASE UNCHANGED allVars
  <2>1. UNCHANGED <<sock, io, refs, flag, listed, sending, more, ring, gen, stack, told, calls, used, jobs, mode>>
    BY <1>2 DEF allVars, vars, coreVars
  <2>2. \A x \in Kinds : Count(x)' = Count(x)
    BY <2>1, SameCounts
  <2>3. TypeInv'
    BY <1>1, <2>1, <2>2 DEF TypeInv, Kinds
  <2> QED
    BY <2>1, <2>2, <2>3, SameKeeps
<1>3. ASSUME AnyNext
      PROVE  IInv'
  <2>1. TypeInv'
    BY <1>1, <1>3, NextTyped
  <2> QED
    BY <1>3, <2>1, StepKeeps, KernelKeeps, DequeueKeeps, CallingKeeps DEF AnyNext
<1> QED
  BY <1>2, <1>3

\* After Listen: one AcceptEx outstanding, and nobody at work.
LEMMA InitKeeps ==
    ASSUME SlotAssumption, AnyInit
    PROVE  IInv
<1>1. /\ sock = "fresh" /\ io = [[k \in Kinds |-> Idle] EXCEPT !["accept"].pending = 1] /\ refs = 1
      /\ flag = FALSE /\ listed = FALSE /\ sending = FALSE /\ more = FALSE /\ ring = FALSE
      /\ gen = 0 /\ used = FALSE /\ stack = [t \in Threads |-> <<>>] /\ told = FALSE /\ calls = 0
      /\ jobs = <<>> /\ mode \in Modes
  BY DEF AnyInit, Init
<1>2. mode \in {"acceptor", "jobs", "ws"}
  BY <1>1, AcceptorsAssumption DEF AcceptorsAssumption
<1>3. FiniteThreads /\ stack \in [Threads -> Seq(Steps)]
  BY <1>1, Finite
<1>4. io \in IoType /\ Count("accept") = 1 /\ Count("recv") = 0 /\ Count("send") = 0 /\ Count("reconnect") = 0
  <2>1. io["accept"] = [pending |-> 1, done |-> 0, zero |-> 0] /\ \A k \in Kinds : k # "accept" => io[k] = Idle
    BY <1>1 DEF Kinds, Idle
  <2>2. io \in IoType
    BY <1>1, <2>1 DEF Kinds, Idle, IoType
  <2> QED
    BY <2>1, <2>2 DEF Count, Kinds, Idle
<1>5. TypeInv
  <2>1. calls \in 0..MaxCalls /\ gen \in Nat
    BY <1>1, SessionAssumption DEF SessionAssumption
  <2>2. /\ flag \in BOOLEAN /\ listed \in BOOLEAN /\ sending \in BOOLEAN
        /\ more \in BOOLEAN /\ ring \in BOOLEAN /\ told \in BOOLEAN /\ used \in BOOLEAN
    BY <1>1
  <2>3. sock \in {"none", "fresh", "up", "down"} /\ io \in [Kinds -> [pending : Nat, done : Nat, zero : Nat]]
    BY <1>1, <1>4 DEF IoType
  <2> QED
    BY <1>4, <2>1, <2>2, <2>3 DEF TypeInv
<1>6. \A P : Left(P) = 0
  <2> SUFFICES ASSUME NEW P PROVE Left(P) = 0
    OBVIOUS
  <2>1. \A u \in Threads : Occurs(P, stack[u]) = 0
    BY <1>1, OccursNone
  <2> QED
    BY <1>3, <2>1, LeftZero
<1>7. Waiting = <<>> /\ \A P : Occurs(P, Waiting) = 0
  BY <1>1, OccursNone DEF Waiting
<1>8. \A u \in Threads : Bal(stack[u]) = 0 /\ Ender(stack[u]) = 0 /\ Greets(mode, stack[u]) = 0
  BY <1>1, OccursNone DEF Bal, Ender, Greets
<1>9. Total(Balances) = 0 /\ Total(Enders) = 0 /\ Total(Greetings) = 0
  <2>1. /\ Balances \in [Threads -> Nat] /\ \A u \in Threads : Balances[u] = 0
        /\ Enders \in [Threads -> Nat] /\ \A u \in Threads : Enders[u] = 0
        /\ Greetings \in [Threads -> Nat] /\ \A u \in Threads : Greetings[u] = 0
    BY <1>8 DEF Balances, Enders, Greetings
  <2> QED
    BY <1>3, <2>1, TotalZero
<1>10. StackInv
  <2>1. \A u \in Threads : Good(Table, stack[u])
    BY <1>1, GoodEmpty
  <2> QED
    BY <1>2, <1>3, <2>1 DEF StackInv
<1>11. QueueInv
  BY <1>1, <1>6 DEF QueueInv
<1>12. Outstanding = 1 /\ Kept = 1
  BY <1>4, <1>7, <1>9 DEF Outstanding, Kept
<1>13. CountInv
  BY <1>1, <1>6, <1>7, <1>12 DEF CountInv, Reserved
<1>14. QuietInv
  <2>1. Endings = 0 /\ Accepts = 1 /\ Traffic = 0 /\ Receives = 0 /\ Sends = 0 /\ Messages = 0 /\ Telling = 0 /\ Untelling = 0
    BY <1>4, <1>6, <1>7, <1>9 DEF Endings, Accepts, Traffic, Receives, Sends, Messages, Telling, Untelling
  <2>2. ~listed /\ told = listed
    BY <1>1
  <2>3. Left(After) = 0
    BY <1>6
  <2>4. EndInv /\ RecvInv /\ SendInv
    BY ONLY <2>1 DEF EndInv, RecvInv, SendInv
  <2>5. OpenInv /\ ToldInv
    BY ONLY <2>1, <2>2, <2>3 DEF OpenInv, ToldInv
  <2> QED
    BY <2>4, <2>5 DEF QuietInv
<1> QED
  BY <1>5, <1>10, <1>11, <1>13, <1>14 DEF IInv

\* In every reachable state: the references, the jobs and the stacks of all threads
\* add up, and without a call of the application one accept, one receive and one send
\* are on their way at most, and who ends the connection keeps no company.
THEOREM Inductive ==
    ASSUME SlotAssumption
    PROVE  Spec => []IInv
<1>1. AnyInit => IInv
  BY InitKeeps
<1>2. IInv /\ [AnyNext]_allVars => IInv'
  BY NextKeeps
<1> QED
  BY <1>1, <1>2, PTL DEF Spec

-----------------------------------------------------------------------------
(***************************************************************************)
(* The sums of Acceptors are the numbers of the invariant                  *)
(***************************************************************************)
LEMMA RefTotals ==
    RefTotal(Owed, Threads) = Left({"release"}) /\ RefTotal(Untaken, Threads) = Left({"hold"})
      /\ RefTotal(Carried, Threads) = Left(CarriedSteps)
<1>1. ASSUME NEW t \in Threads
      PROVE  /\ Owed(t) = Occurs({"release"}, stack[t]) /\ Untaken(t) = Occurs({"hold"}, stack[t])
             /\ Carried(t) = Occurs(CarriedSteps, stack[t])
  <2>1. {i \in 1..Len(stack[t]) : stack[t][i] = "release"} = {i \in 1..Len(stack[t]) : stack[t][i] \in {"release"}}
    OBVIOUS
  <2>2. {i \in 1..Len(stack[t]) : stack[t][i] = "hold"} = {i \in 1..Len(stack[t]) : stack[t][i] \in {"hold"}}
    OBVIOUS
  <2>3. {i \in 1..Len(stack[t]) : \/ stack[t][i] \in Adders
                                  \/ mode = "ws" /\ stack[t][i] = "acceptEx"}
          = {i \in 1..Len(stack[t]) : stack[t][i] \in CarriedSteps}
    BY DEF CarriedSteps
  <2> QED
    BY <2>1, <2>2, <2>3 DEF Owed, Untaken, Carried, Occurs
<1>2. RefTotal(Owed, Threads) = Left({"release"})
  <2>1. {{t} \X (1..Owed(t)) : t \in Threads} = {{t} \X (1..Occurs({"release"}, stack[t])) : t \in Threads}
    BY <1>1
  <2> QED
    BY <2>1 DEF RefTotal, Left, Total, Points
<1>3. RefTotal(Untaken, Threads) = Left({"hold"})
  <2>1. {{t} \X (1..Untaken(t)) : t \in Threads} = {{t} \X (1..Occurs({"hold"}, stack[t])) : t \in Threads}
    BY <1>1
  <2> QED
    BY <2>1 DEF RefTotal, Left, Total, Points
<1>4. RefTotal(Carried, Threads) = Left(CarriedSteps)
  <2>1. {{t} \X (1..Carried(t)) : t \in Threads} = {{t} \X (1..Occurs(CarriedSteps, stack[t])) : t \in Threads}
    BY <1>1
  <2> QED
    BY <2>1 DEF RefTotal, Left, Total, Points
<1> QED
  BY <1>2, <1>3, <1>4

\* The waiting jobs that hold a reference: the one in Excute is not waiting any more.
LEMMA JobsHeld ==
    ASSUME SlotAssumption, StackInv, QueueInv
    PROVE  J!JobHolds = Occurs(Owning, Waiting)
<1>1. J!Executing <=> Left({"pop"}) # 0
  <2>1. FiniteThreads /\ stack \in [Threads -> Seq(Steps)] /\ \A t \in Threads : stack[t] \in Seq(Steps)
    BY Finite DEF StackInv
  <2>2. Left({"pop"}) = 0 <=> \A t \in Threads : Occurs({"pop"}, stack[t]) = 0
    BY <2>1, LeftZero
  <2>3. \A t \in Threads : Occurs({"pop"}, stack[t]) = 0 <=> \A i \in 1..Len(stack[t]) : stack[t][i] \notin {"pop"}
    BY <2>1, OccursZero
  <2> QED
    BY <2>2, <2>3 DEF J!Executing, J!Threads, Threads
<1>2. \A i \in 1..Len(jobs) : jobs[i] \in JobKinds /\ (jobs[i] # "delSession" <=> jobs[i] \in Owning)
  <2>1. jobs \in Seq(JobKinds)
    BY DEF QueueInv
  <2>2. \A i \in 1..Len(jobs) : jobs[i] \in JobKinds
    BY <2>1, ElementOfSeq
  <2> QED
    BY <2>2 DEF JobKinds, Owning
<1> DEFINE I == {i \in 1..Len(jobs) : jobs[i] \in Owning}
           H == {i \in 1..Len(jobs) : J!Holds(i)}
<1>3. IsFiniteSet(I) /\ Cardinality(I) = Occurs(Owning, jobs)
  BY OccursType DEF Occurs, QueueInv
<1>4. J!JobHolds = Cardinality(H)
  BY DEF J!JobHolds, J!Cardinality, Cardinality
<1>5. CASE Left({"pop"}) = 0
  <2>1. H = I
    BY <1>1, <1>2, <1>5 DEF J!Holds
  <2>2. Waiting = jobs
    BY <1>5 DEF Waiting
  <2> QED
    BY <1>3, <1>4, <2>1, <2>2
<1>6. CASE Left({"pop"}) # 0
  <2>1. H = I \ {1}
    BY <1>1, <1>2, <1>6 DEF J!Holds
  <2>2. Waiting = Tail(jobs) /\ jobs # <<>> /\ jobs \in Seq(JobKinds)
    BY <1>6 DEF Waiting, QueueInv
  <2>3. Occurs(Owning, jobs) = Occurs(Owning, Tail(jobs)) + In(Head(jobs), Owning)
    BY <2>2, OccursTail
  <2>4. 1 \in I <=> Head(jobs) \in Owning
    <3>1. jobs[1] = Head(jobs) /\ Len(jobs) \in Nat /\ Len(jobs) >= 1
      BY <2>2, TailProperties
    <3> QED
      BY <3>1
  <2>5. Occurs(Owning, Tail(jobs)) \in Nat /\ Occurs(Owning, jobs) \in Nat
    BY <2>2, OccursType, TailProperties
  <2> HIDE DEF I, H
  <2>6. Cardinality(H) = Occurs(Owning, Tail(jobs))
    <3>1. CASE 1 \in I
      <4>1. Cardinality(I \ {1}) = Cardinality(I) - 1
        BY <1>3, <3>1, FS_RemoveElement
      <4> QED
        BY <1>3, <2>1, <2>3, <2>4, <2>5, <3>1, <4>1 DEF In
    <3>2. CASE 1 \notin I
      <4>1. Cardinality(I \ {1}) = Cardinality(I)
        BY <1>3, <3>2, FS_RemoveElement
      <4> QED
        BY <1>3, <2>1, <2>3, <2>4, <2>5, <3>2, <4>1 DEF In
    <3> QED
      BY <3>1, <3>2
  <2> QED
    BY <1>4, <2>2, <2>6
<1> QED
  BY <1>5, <1>6

-----------------------------------------------------------------------------
(***************************************************************************)
(* Theorems                                                                *)
(***************************************************************************)
\* Every variable keeps its type; _count (RefCount.cpp:18-27) never goes below 0.
THEOREM TypeCorrect ==
    ASSUME SlotAssumption
    PROVE  Spec => []TypeOK
<1>1. IInv => TypeOK
  <2> SUFFICES ASSUME IInv PROVE TypeOK
    OBVIOUS
  <2>1. TypeInv /\ refs \in Nat /\ stack \in [Threads -> Seq(Steps)] /\ jobs \in Seq(JobKinds)
    BY KeptType DEF IInv, StackInv, QueueInv
  <2> QED
    BY <2>1 DEF TypeInv, TypeOK, CoreTypeOK
<1> QED
  BY <1>1, Inductive, PTL

\* _count is what the outstanding I/O, the waiting jobs and the Releases to come hold,
\* on every path of Accept, Recv, Send, Disconnect and the jobs, failures and calls of
\* application threads included, however many threads there are.
THEOREM ReferencesExact ==
    ASSUME SlotAssumption
    PROVE  Spec => []RefsExact
<1>1. IInv => RefsExact
  <2> SUFFICES ASSUME IInv PROVE RefsExact
    OBVIOUS
  <2>1. StackInv /\ QueueInv /\ CountInv
    BY DEF IInv
  <2>2. refs + Left({"hold"}) = Outstanding + Left({"release"}) + Left(CarriedSteps) + Occurs(Owning, Waiting)
    BY <2>1 DEF CountInv
  <2>3. /\ RefTotal(Owed, Threads) = Left({"release"}) /\ RefTotal(Untaken, Threads) = Left({"hold"})
        /\ RefTotal(Carried, Threads) = Left(CarriedSteps) /\ J!JobHolds = Occurs(Owning, Waiting)
    BY <2>1, RefTotals, JobsHeld
  <2> QED
    BY <2>2, <2>3 DEF RefsExact
<1> QED
  BY <1>1, Inductive, PTL

\* OnConnected, messages, OnDisconnected, in this order again and again
\* (HNetAcceptor.cpp:112-140, HNetWsAcceptor.cpp:94-122).
THEOREM ToldInTurn ==
    ASSUME SlotAssumption
    PROVE  Spec => []CallbacksAlternate
<1>1. IInv => CallbacksAlternate
  <2> SUFFICES ASSUME IInv, calls = 0, NEW t \in Threads
               PROVE  /\ (At(t, "onConnected") => ~told)
                      /\ (At(t, "message") => told)
                      /\ (At(t, "onDisconnected") => told)
    BY DEF CallbacksAlternate, NoAppCall
  <2>1. TypeInv /\ StackInv /\ QueueInv /\ ToldInv
    BY DEF IInv, QuietInv
  <2>2. Telling \in Nat /\ Untelling \in Nat /\ Occurs({"message"}, Waiting) \in Nat
    BY <2>1, NumbersType
  <2>3. CASE At(t, "onConnected")
    <3>1. Telling >= 1
      BY <2>1, <2>3, LeftAt DEF Telling
    <3>2. ~told
      BY <2>1, <2>2, <3>1 DEF ToldInv
    <3> QED
      BY <2>3, <3>2 DEF At
  <2>4. CASE At(t, "message")
    <3>1. Left({"message", "makeRecv", "addRecv"}) \in Nat /\ Left({"message", "makeRecv", "addRecv"}) >= 1
      BY <2>1, <2>4, LeftAt
    <3>2. told
      BY <2>1, <2>2, <3>1 DEF ToldInv, Messages
    <3> QED
      BY <2>4, <3>2 DEF At
  <2>5. CASE At(t, "onDisconnected")
    <3>1. Untelling >= 1
      BY <2>1, <2>5, LeftAt DEF Untelling
    <3>2. told
      BY <2>1, <2>2, <3>1 DEF ToldInv
    <3> QED
      BY <2>5, <3>2 DEF At
  <2> QED
    BY <2>3, <2>4, <2>5
<1> QED
  BY <1>1, Inductive, PTL

\* One AcceptEx, one WSARecv and one WSASend at a time: each uses the one OVERLAPPED
\* that the session has for it.
THEOREM OneOfEachKind ==
    ASSUME SlotAssumption
    PROVE  Spec => []OneOverlapped
<1>1. IInv => OneOverlapped
  <2> SUFFICES ASSUME IInv, calls = 0, NEW k \in Kinds
               PROVE  Count(k) <= 1
    BY DEF OneOverlapped, NoAppCall
  <2>1. TypeInv /\ StackInv /\ QueueInv /\ OpenInv /\ RecvInv /\ SendInv /\ Count("reconnect") = 0
    BY DEF IInv, QuietInv, TypeInv
  <2>2. /\ Count("accept") \in Nat /\ Count("recv") \in Nat /\ Count("send") \in Nat
        /\ Left(Opening) \in Nat /\ Left({"recv", "wsaRecv"}) \in Nat /\ Left({"wsaSend", "sended"}) \in Nat
        /\ Occurs({"accepted", "acceptFailed"}, Waiting) \in Nat
    BY <2>1, NumbersType DEF Kinds
  <2>3. Count("accept") <= 1 /\ Count("recv") <= 1 /\ Count("send") <= 1
    BY <2>1, <2>2 DEF OpenInv, RecvInv, SendInv, Accepts, Receives, Sends
  <2> QED
    BY <2>1, <2>3 DEF Kinds
<1> QED
  BY <1>1, Inductive, PTL

\* Who ends the connection keeps no reference.
LEMMA EnderBalance ==
    ASSUME IInv, NEW t \in Threads, NEW x \in Ends, At(t, x)
    PROVE  Occurs(Handling, stack[t]) # 0 /\ Bal(stack[t]) = 0
<1>1. StackInv /\ stack[t] # <<>> /\ Head(stack[t]) = x /\ stack[t] \in Seq(Steps)
  BY DEF IInv, StackInv, At
<1>2. CASE x # "close"
  <2>1. Table[x] \subseteq Base /\ x \in Handling /\ x \notin {"release", "hold"} \cup Adders
    BY <1>2, Lies DEF Table, Ends, Handling, Calls, Opening, Others, Adders
  <2> QED
    BY <2>1, BaseAlone
<1>3. CASE x = "close"
  <2>1. Good(Table, Tail(stack[t])) /\ Top(Tail(stack[t])) = "open" /\ Tail(stack[t]) \in Seq(Steps)
    <3>1. Good(Table, stack[t])
      BY <1>1 DEF StackInv
    <3>2. Good(Table, Tail(stack[t])) /\ Top(Tail(stack[t])) \in Table["close"]
      BY <1>1, <1>3, <3>1, GoodTail
    <3> QED
      BY <1>1, <3>2, Lies, TailProperties DEF Table
  <2>2. Tail(stack[t]) # <<>> /\ Head(Tail(stack[t])) = "open"
    BY <2>1 DEF Top
  <2>3. \A P : P \cap {"pop", "update"} = {} => Occurs(P, Tail(Tail(stack[t]))) = 0
    <3>1. Good(Table, Tail(Tail(stack[t]))) /\ Top(Tail(Tail(stack[t]))) \in Table["open"]
      BY <2>1, <2>2, GoodTail
    <3> QED
      BY <3>1, Lies, BaseCounts DEF Table
  <2>4. \A P : Occurs(P, stack[t]) = Occurs(P, Tail(Tail(stack[t]))) + In("open", P) + In("close", P)
    BY <1>1, <1>3, <2>1, <2>2, OccursTail
  <2>5. /\ Occurs({"release"}, Tail(Tail(stack[t]))) = 0 /\ Occurs({"hold"}, Tail(Tail(stack[t]))) = 0
        /\ Occurs(Adders, Tail(Tail(stack[t]))) = 0 /\ Occurs(Handling, Tail(Tail(stack[t]))) = 0
    BY <2>3 DEF Adders, Handling, Calls, Opening, Others
  <2>6. /\ Occurs({"release"}, stack[t]) = 0 /\ Occurs({"hold"}, stack[t]) = 0
        /\ Occurs(Adders, stack[t]) = 0
    BY <2>4, <2>5 DEF In, Adders
  <2>7. Occurs(Handling, stack[t]) = 2
    <3>1. In("open", Handling) = 1 /\ In("close", Handling) = 1
      BY DEF In, Handling, Others
    <3> QED
      BY <2>4, <2>5, <3>1
  <2> QED
    BY <2>6, <2>7 DEF Bal
<1> QED
  BY <1>2, <1>3

\* Who clears, takes from the list, closes or opens the session meets nobody else:
\* nothing is outstanding, no job waits, no other thread is in a handler.
THEOREM EnderAlone ==
    ASSUME SlotAssumption
    PROVE  Spec => []EndIsExclusive
<1>1. IInv => EndIsExclusive
  <2> SUFFICES ASSUME IInv, calls = 0, NEW t \in Threads, NEW x \in Ends, At(t, x)
               PROVE  /\ Outstanding = 0 /\ J!JobHolds = 0
                      /\ \A u \in Threads : u # t => ~InHandler(u)
    BY DEF EndIsExclusive, NoAppCall
  <2>1. StackInv /\ QueueInv /\ stack[t] # <<>> /\ Head(stack[t]) = x /\ stack[t] \in Seq(Steps)
    BY DEF IInv, StackInv, At
  <2>2. Occurs(Handling, stack[t]) # 0 /\ Bal(stack[t]) = 0
    BY EnderBalance
  <2>3. Outstanding = 0 /\ Occurs(Owning, Waiting) = 0 /\ \A u \in Threads : u # t => Occurs(Handling, stack[u]) = 0
    BY <2>2, Alone
  <2>4. J!JobHolds = 0
    BY <2>1, <2>3, JobsHeld
  <2>5. ASSUME NEW u \in Threads, u # t
        PROVE  ~InHandler(u)
    <3>1. stack[u] \in Seq(Steps) /\ Occurs(Handling, stack[u]) = 0
      BY <2>1, <2>3, <2>5 DEF StackInv
    <3>2. \A i \in 1..Len(stack[u]) : stack[u][i] \in Steps /\ stack[u][i] \notin Handling
      BY <3>1, OccursZero, ElementOfSeq
    <3> QED
      BY <3>2 DEF InHandler, Steps
  <2> QED
    BY <2>3, <2>4, <2>5
<1> QED
  BY <1>1, Inductive, PTL

-----------------------------------------------------------------------------
(***************************************************************************)
(* The slot is kept                                                        *)
(***************************************************************************)
\* The calls whose failure gives the slot up.
Fatal == {"open", "acceptex", "address", "initialize", "associate", "reset"}

\* A step of P is on a stack; a job of P waits.
Doing(P) == \E u \in Threads : \E i \in 1..Len(stack[u]) : stack[u][i] \in P
Awaits(P) == \E i \in 1..Len(Waiting) : Waiting[i] \in P

\* From the last Release to _DelSession.
Dropping == {"clear", "delSession", "addDisconnect"}
\* An AcceptEx that failed.
Stale == {"acceptFailed", "makeStale", "addStale"}

\* A session that is not in use is on its way to an accept, and one that is is referenced
\* or about to be taken from the list.
Fresh == Opening \cup After
Arrivals == {"accepted", "acceptFailed"}
LedOn == listed \/ Count("accept") # 0 \/ Doing(Fresh) \/ Awaits(Arrivals)
Held == listed => refs # 0 \/ Doing(Dropping) \/ Awaits({"delSession"})
\* Nothing fails on the way.
NoFailure == /\ Doing({"acceptEx"}) => sock = "fresh"
             /\ sock = "none" => Doing({"open"})
             /\ mode # "ws" => io["accept"].zero = 0 /\ ~Doing(Stale) /\ ~Awaits({"acceptFailed"})

KeepInv == LedOn /\ Held /\ NoFailure

(***************************************************************************)
(* What is on the stacks after a step                                      *)
(***************************************************************************)
Elems(s) == {s[i] : i \in 1..Len(s)}

\* The steps of H are taken off and those of N put on.
Turns(H, N) == \A P \in SUBSET Steps :
    /\ P \cap H = {} /\ Doing(P) => Doing(P)'
    /\ Doing(P)' => Doing(P) \/ P \cap N # {}
    /\ P \cap N # {} => Doing(P)'

LEMMA CountsZero ==
    ASSUME FiniteThreads, NEW s, s \in [Threads -> Seq(Steps)], NEW P
    PROVE  Total([t \in Threads |-> Occurs(P, s[t])]) = 0
             <=> \A u \in Threads : \A i \in 1..Len(s[u]) : s[u][i] \notin P
<1> DEFINE f == [t \in Threads |-> Occurs(P, s[t])]
<1>1. \A u \in Threads : f[u] \in Nat /\ (f[u] = 0 <=> \A i \in 1..Len(s[u]) : s[u][i] \notin P)
  BY OccursType, OccursZero
<1> HIDE DEF f
<1>2. ASSUME NEW u \in Threads
      PROVE  f[u] <= Total(f) /\ Total(f) \in Nat
  BY <1>1, TotalBound, TotalType
<1>3. (\A u \in Threads : f[u] = 0) => Total(f) = 0
  BY TotalZero
<1>4. Total(f) = 0 => \A u \in Threads : f[u] = 0
  BY <1>1, <1>2
<1> QED
  BY <1>1, <1>3, <1>4 DEF f

LEMMA LeftDoing ==
    ASSUME SlotAssumption, NEW P
    PROVE  /\ stack \in [Threads -> Seq(Steps)] => (Left(P) = 0 <=> ~Doing(P))
           /\ stack' \in [Threads -> Seq(Steps)] => (Left(P)' = 0 <=> ~Doing(P)')
<1>1. FiniteThreads
  BY Finite
<1>2. stack \in [Threads -> Seq(Steps)] => (Left(P) = 0 <=> ~Doing(P))
  BY <1>1, CountsZero DEF Left, Doing
<1>3. ASSUME stack' \in [Threads -> Seq(Steps)]
      PROVE  Left(P)' = 0 <=> ~Doing(P)'
  <2>1. Left(P)' = Total([t \in Threads |-> Occurs(P, stack'[t])])
    BY DEF Left, Total, Points
  <2> QED
    BY <1>1, <1>3, <2>1, CountsZero DEF Doing
<1> QED
  BY <1>2, <1>3

LEMMA WaitingSame ==
    ASSUME SlotAssumption, IInv, IInv', Doing({"pop"})' <=> Doing({"pop"}), jobs' = jobs
    PROVE  Waiting' = Waiting
<1>1. stack \in [Threads -> Seq(Steps)] /\ stack' \in [Threads -> Seq(Steps)]
  BY DEF IInv, StackInv
<1>2. Left({"pop"})' = 0 <=> Left({"pop"}) = 0
  BY <1>1, LeftDoing
<1> QED
  BY <1>2 DEF Waiting

\* The thread t puts steps on what is left of its stack.
LEMMA PutTurns ==
    ASSUME stack \in [Threads -> Seq(Steps)], NEW t \in Threads, NEW H,
           NEW steps \in Seq(Steps), NEW rest \in Seq(Steps),
           stack' = [stack EXCEPT ![t] = steps \o rest],
           \A i \in 1..Len(stack[t]) : stack[t][i] \in H \/ \E j \in 1..Len(rest) : rest[j] = stack[t][i],
           \A j \in 1..Len(rest) : \E i \in 1..Len(stack[t]) : stack[t][i] = rest[j]
    PROVE  Turns(H, Elems(steps))
<1>1. PICK s : s = steps \o rest
  OBVIOUS
<1>2. /\ Len(steps) \in Nat /\ Len(rest) \in Nat /\ Len(s) = Len(steps) + Len(rest)
      /\ \A i \in 1..Len(steps) : s[i] = steps[i]
      /\ \A i \in 1..Len(rest) : s[Len(steps) + i] = rest[i]
      /\ \A i \in 1..Len(s) : i > Len(steps) => s[i] = rest[i - Len(steps)]
  BY <1>1
<1>3. stack'[t] = s /\ \A u \in Threads : u # t => stack'[u] = stack[u]
  BY <1>1
<1>4. \A i \in 1..Len(steps) : i \in 1..Len(s)
  BY <1>2
<1>5. \A i \in 1..Len(rest) : Len(steps) + i \in 1..Len(s)
  BY <1>2
<1>6. \A i \in 1..Len(s) : i \in 1..Len(steps) \/ (i > Len(steps) /\ i - Len(steps) \in 1..Len(rest))
  BY <1>2
<1> SUFFICES ASSUME NEW P \in SUBSET Steps
             PROVE  /\ P \cap H = {} /\ Doing(P) => Doing(P)'
                    /\ Doing(P)' => Doing(P) \/ P \cap Elems(steps) # {}
                    /\ P \cap Elems(steps) # {} => Doing(P)'
  BY DEF Turns
<1>7. ASSUME P \cap H = {}, Doing(P)
      PROVE  Doing(P)'
  <2>1. PICK u \in Threads : \E i \in 1..Len(stack[u]) : stack[u][i] \in P
    BY <1>7 DEF Doing
  <2>2. CASE u # t
    BY <1>3, <2>1, <2>2 DEF Doing
  <2>3. CASE u = t
    <3>1. PICK j \in 1..Len(rest) : rest[j] \in P
      BY <1>7, <2>1, <2>3
    <3>2. s[Len(steps) + j] \in P /\ Len(steps) + j \in 1..Len(s)
      BY <1>2, <1>5, <3>1
    <3> QED
      BY <1>3, <3>2 DEF Doing
  <2> QED
    BY <2>2, <2>3
<1>8. ASSUME Doing(P)'
      PROVE  Doing(P) \/ P \cap Elems(steps) # {}
  <2>1. PICK u \in Threads : \E i \in 1..Len(stack'[u]) : stack'[u][i] \in P
    BY <1>8 DEF Doing
  <2>2. CASE u # t
    BY <1>3, <2>1, <2>2 DEF Doing
  <2>3. CASE u = t
    <3>1. PICK i \in 1..Len(s) : s[i] \in P
      BY <1>3, <2>1, <2>3
    <3>2. CASE i \in 1..Len(steps)
      BY <1>2, <3>1, <3>2 DEF Elems
    <3>3. CASE i > Len(steps) /\ i - Len(steps) \in 1..Len(rest)
      <4>1. rest[i - Len(steps)] \in P
        BY <1>2, <3>1, <3>3
      <4>2. PICK j \in 1..Len(stack[t]) : stack[t][j] = rest[i - Len(steps)]
        BY <3>3
      <4> QED
        BY <4>1, <4>2 DEF Doing
    <3> QED
      BY <1>6, <3>2, <3>3
  <2> QED
    BY <2>2, <2>3
<1>9. ASSUME P \cap Elems(steps) # {}
      PROVE  Doing(P)'
  <2>1. PICK i \in 1..Len(steps) : steps[i] \in P
    BY <1>9 DEF Elems
  <2>2. s[i] \in P /\ i \in 1..Len(s)
    BY <1>2, <1>4, <2>1
  <2> QED
    BY <1>3, <2>2 DEF Doing
<1> QED
  BY <1>7, <1>8, <1>9

\* A step that is done and calls others, one that returns from the function it was
\* called by, and what an idle thread begins.
LEMMA ThenTurns ==
    ASSUME stack \in [Threads -> Seq(Steps)], NEW t \in Threads, NEW x, At(t, x),
           NEW steps \in Seq(Steps), Then(t, steps)
    PROVE  Turns({x}, Elems(steps))
<1>1. /\ stack[t] \in Seq(Steps) /\ stack[t] # <<>> /\ stack[t][1] = x
      /\ Tail(stack[t]) \in Seq(Steps) /\ Len(Tail(stack[t])) = Len(stack[t]) - 1 /\ Len(stack[t]) \in Nat
      /\ \A i \in 1..Len(Tail(stack[t])) : Tail(stack[t])[i] = stack[t][i+1]
  BY TailProperties DEF At
<1>2. \A i \in 1..Len(stack[t]) : i = 1 \/ (i - 1 \in 1..Len(Tail(stack[t])) /\ (i - 1) + 1 = i)
  BY <1>1
<1>3. \A i \in 1..Len(Tail(stack[t])) : i + 1 \in 1..Len(stack[t])
  BY <1>1
<1>4. \A i \in 1..Len(stack[t]) : stack[t][i] \in {x} \/ \E j \in 1..Len(Tail(stack[t])) : Tail(stack[t])[j] = stack[t][i]
  <2> SUFFICES ASSUME NEW i \in 1..Len(stack[t]), i # 1
               PROVE  \E j \in 1..Len(Tail(stack[t])) : Tail(stack[t])[j] = stack[t][i]
    BY <1>1
  <2>1. PICK j \in 1..Len(Tail(stack[t])) : j = i - 1 /\ j + 1 = i
    BY <1>2
  <2> QED
    BY <1>1, <2>1
<1>5. \A j \in 1..Len(Tail(stack[t])) : \E i \in 1..Len(stack[t]) : stack[t][i] = Tail(stack[t])[j]
  BY <1>1, <1>3
<1>6. stack' = [stack EXCEPT ![t] = steps \o Tail(stack[t])]
  BY DEF Then
<1> HIDE DEF Turns
<1> QED
  BY <1>1, <1>4, <1>5, <1>6, PutTurns

LEMMA SkipTurns ==
    ASSUME stack \in [Threads -> Seq(Steps)], NEW t \in Threads, NEW x, At(t, x), NEW y,
           Tail(stack[t]) # <<>>, NEW steps \in Seq(Steps), ThenSkip(t, y, steps)
    PROVE  Turns({x, y}, Elems(steps))
<1>1. PICK s1, s2 : s1 = Tail(stack[t]) /\ s2 = Tail(s1)
  OBVIOUS
<1>2. /\ stack[t] \in Seq(Steps) /\ stack[t] # <<>> /\ stack[t][1] = x
      /\ s1 \in Seq(Steps) /\ Len(s1) = Len(stack[t]) - 1 /\ Len(stack[t]) \in Nat
      /\ \A i \in 1..Len(s1) : s1[i] = stack[t][i+1]
  BY <1>1, TailProperties DEF At
<1>3. /\ s1 # <<>> /\ s1[1] = y
      /\ s2 \in Seq(Steps) /\ Len(s2) = Len(s1) - 1
      /\ \A i \in 1..Len(s2) : s2[i] = s1[i+1]
  BY <1>1, <1>2, TailProperties DEF ThenSkip
<1>4. \A i \in 1..Len(stack[t]) : i = 1 \/ i = 2 \/ (i - 2 \in 1..Len(s2) /\ (i - 2) + 1 \in 1..Len(s1) /\ ((i - 2) + 1) + 1 = i)
  BY <1>2, <1>3
<1>5. 2 \in 1..Len(stack[t]) => stack[t][2] = y
  <2>1. 1 \in 1..Len(s1)
    BY <1>2, <1>3
  <2>2. s1[1] = stack[t][1 + 1]
    BY <1>2, <2>1
  <2> QED
    BY <1>3, <2>2
<1>6. \A i \in 1..Len(s2) : i + 1 \in 1..Len(s1) /\ (i + 1) + 1 \in 1..Len(stack[t])
  BY <1>2, <1>3
<1>7. \A i \in 1..Len(stack[t]) : stack[t][i] \in {x, y} \/ \E j \in 1..Len(s2) : s2[j] = stack[t][i]
  <2> SUFFICES ASSUME NEW i \in 1..Len(stack[t]), i # 1, i # 2
               PROVE  \E j \in 1..Len(s2) : s2[j] = stack[t][i]
    BY <1>2, <1>5
  <2>1. PICK j \in 1..Len(s2) : j + 1 \in 1..Len(s1) /\ (j + 1) + 1 = i
    BY <1>4
  <2> QED
    BY <1>2, <1>3, <2>1
<1>8. \A j \in 1..Len(s2) : \E i \in 1..Len(stack[t]) : stack[t][i] = s2[j]
  BY <1>2, <1>3, <1>6
<1>9. stack' = [stack EXCEPT ![t] = steps \o s2]
  BY <1>1 DEF ThenSkip
<1> QED
  BY <1>2, <1>3, <1>7, <1>8, <1>9, PutTurns

LEMMA BeginTurns ==
    ASSUME stack \in [Threads -> Seq(Steps)], NEW t \in Threads,
           NEW steps \in Seq(Steps), stack' = [stack EXCEPT ![t] = steps \o stack[t]]
    PROVE  Turns({}, Elems(steps))
<1>1. stack[t] \in Seq(Steps)
  OBVIOUS
<1> QED
  BY <1>1, PutTurns

LEMMA Few ==
    /\ Elems(<<>>) = {}
    /\ \A a : Elems(<<a>>) = {a}
    /\ \A a, b : Elems(<<a, b>>) = {a, b}
    /\ \A a, b, c : Elems(<<a, b, c>>) = {a, b, c}
<1>1. 1..0 = {} /\ 1..1 = {1} /\ 1..2 = {1, 2} /\ 1..3 = {1, 2, 3}
  OBVIOUS
<1> QED
  BY <1>1 DEF Elems

LEMMA FewTyped ==
    /\ <<>> \in Seq(Steps)
    /\ \A a \in Steps : <<a>> \in Seq(Steps)
    /\ \A a, b \in Steps : <<a, b>> \in Seq(Steps)
    /\ \A a, b, c \in Steps : <<a, b, c>> \in Seq(Steps)
  OBVIOUS

(***************************************************************************)
(* A step keeps the slot                                                   *)
(***************************************************************************)
\* The jobs of G are begun and those of A are added.
Queues(G, A) == \A P :
    /\ P \cap G = {} /\ Awaits(P) => Awaits(P)'
    /\ Awaits(P)' => Awaits(P) \/ P \cap A # {}
    /\ P \cap A # {} => Awaits(P)'

Leads(H, N, G, A) ==
    /\ \/ listed'
       \/ Count("accept")' # 0
       \/ N \cap Fresh # {}
       \/ A \cap Arrivals # {}
       \/ ~listed /\ Count("accept") = 0 /\ H \cap Fresh = {} /\ G \cap Arrivals = {}
    /\ \/ ~listed'
       \/ refs' # 0
       \/ N \cap Dropping # {}
       \/ "delSession" \in A
       \/ listed /\ refs = 0 /\ H \cap Dropping = {} /\ "delSession" \notin G
    /\ \/ sock' = "fresh"
       \/ sock' = sock /\ "acceptEx" \notin N
       \/ ~Doing({"acceptEx"})'
    /\ \/ sock' # "none"
       \/ sock' = sock /\ "open" \notin H
       \/ Doing({"open"})'
    /\ mode # "ws" => io'["accept"].zero = 0 /\ N \cap Stale = {} /\ "acceptFailed" \notin A

LEMMA ClassesTyped ==
    /\ Fresh \subseteq Steps /\ Dropping \subseteq Steps /\ Stale \subseteq Steps
    /\ {"acceptEx"} \subseteq Steps /\ {"open"} \subseteq Steps /\ {"pop"} \subseteq Steps
  BY DEF Fresh, Opening, After, Dropping, Stale, Steps, Handling, Calls, Others

LEMMA LeadKeeps ==
    ASSUME KeepInv, NEW H, NEW N, NEW G, NEW A, Turns(H, N), Queues(G, A), Leads(H, N, G, A), mode' = mode
    PROVE  KeepInv'
<1>1. \A P \in SUBSET Steps : /\ P \cap H = {} /\ Doing(P) => Doing(P)'
                              /\ Doing(P)' => Doing(P) \/ P \cap N # {}
                              /\ P \cap N # {} => Doing(P)'
  BY DEF Turns
<1>2. \A P : /\ P \cap G = {} /\ Awaits(P) => Awaits(P)'
             /\ Awaits(P)' => Awaits(P) \/ P \cap A # {}
             /\ P \cap A # {} => Awaits(P)'
  BY DEF Queues
<1>3. LedOn'
  <2>1. /\ N \cap Fresh # {} => Doing(Fresh)'
        /\ H \cap Fresh = {} /\ Doing(Fresh) => Doing(Fresh)'
    BY <1>1, ClassesTyped
  <2>2. /\ A \cap Arrivals # {} => Awaits(Arrivals)'
        /\ G \cap Arrivals = {} /\ Awaits(Arrivals) => Awaits(Arrivals)'
    BY <1>2
  <2>3. listed \/ Count("accept") # 0 \/ Doing(Fresh) \/ Awaits(Arrivals)
    BY DEF KeepInv, LedOn
  <2> QED
    BY <2>1, <2>2, <2>3 DEF LedOn, Leads
<1>4. Held'
  <2>1. /\ N \cap Dropping # {} => Doing(Dropping)'
        /\ H \cap Dropping = {} /\ Doing(Dropping) => Doing(Dropping)'
    BY <1>1, ClassesTyped
  <2>2. /\ "delSession" \in A => Awaits({"delSession"})'
        /\ "delSession" \notin G /\ Awaits({"delSession"}) => Awaits({"delSession"})'
    <3>1. /\ "delSession" \in A => {"delSession"} \cap A # {}
          /\ "delSession" \notin G => {"delSession"} \cap G = {}
      OBVIOUS
    <3> QED
      BY <1>2, <3>1
  <2>3. listed => refs # 0 \/ Doing(Dropping) \/ Awaits({"delSession"})
    BY DEF KeepInv, Held
  <2> QED
    BY <2>1, <2>2, <2>3 DEF Held, Leads
<1>5. NoFailure'
  <2>1. "acceptEx" \notin N => (Doing({"acceptEx"})' => Doing({"acceptEx"}))
    <3>1. "acceptEx" \notin N => {"acceptEx"} \cap N = {}
      OBVIOUS
    <3> QED
      BY <1>1, <3>1, ClassesTyped
  <2>2. "open" \notin H => (Doing({"open"}) => Doing({"open"})')
    <3>1. "open" \notin H => {"open"} \cap H = {}
      OBVIOUS
    <3> QED
      BY <1>1, <3>1, ClassesTyped
  <2>3. N \cap Stale = {} => (Doing(Stale)' => Doing(Stale))
    <3>1. N \cap Stale = {} => Stale \cap N = {}
      OBVIOUS
    <3> QED
      BY <1>1, <3>1, ClassesTyped
  <2>4. "acceptFailed" \notin A => (Awaits({"acceptFailed"})' => Awaits({"acceptFailed"}))
    <3>1. "acceptFailed" \notin A => {"acceptFailed"} \cap A = {}
      OBVIOUS
    <3> QED
      BY <1>2, <3>1
  <2>5. NoFailure
    BY DEF KeepInv
  <2> QED
    BY <2>1, <2>2, <2>3, <2>4, <2>5 DEF NoFailure, Leads
<1> QED
  BY <1>3, <1>4, <1>5 DEF KeepInv

\* The queue stays as it is.
LEMMA QueueSame ==
    ASSUME SlotAssumption, IInv, IInv', NEW H, NEW N, Turns(H, N), "pop" \notin H \cup N, jobs' = jobs
    PROVE  Queues({}, {})
<1>1. /\ {"pop"} \cap H = {} /\ Doing({"pop"}) => Doing({"pop"})'
      /\ Doing({"pop"})' => Doing({"pop"}) \/ {"pop"} \cap N # {}
  BY ClassesTyped DEF Turns
<1>2. Doing({"pop"})' <=> Doing({"pop"})
  BY <1>1
<1>3. Waiting' = Waiting
  BY <1>2, WaitingSame
<1> QED
  BY <1>3 DEF Queues, Awaits

\* What every step of a handler does but those below: x is done and N are called.
Onward(m, x, N) ==
    /\ N \subseteq Steps /\ "pop" \notin {x} \cup N /\ x # "open" /\ "acceptEx" \notin N
    /\ x \in Fresh => N \cap Fresh # {}
    /\ x \in Dropping => N \cap Dropping # {}
    /\ N \cap Stale # {} => m = "ws"

LEMMA OnwardKeeps ==
    ASSUME SlotAssumption, IInv, IInv', KeepInv, NEW x, NEW H, NEW N, Turns(H, N), H \subseteq {x, "recv", "wsaRecv"},
           Onward(mode, x, N), UNCHANGED <<jobs, mode, sock, listed>>, io'["accept"] = io["accept"],
           refs' # 0 \/ refs' = refs \/ N \cap Dropping # {}
    PROVE  KeepInv'
<1>1. "pop" \notin H \cup N /\ "open" \notin H
      /\ (H \cap Fresh # {} => N \cap Fresh # {}) /\ (H \cap Dropping # {} => N \cap Dropping # {})
  BY DEF Onward, Fresh, Opening, After, Dropping
<1>2. Queues({}, {})
  BY <1>1, QueueSame
<1>3. Count("accept")' = Count("accept") /\ refs \in Nat
  BY KeptType DEF Count
<1>4. listed \/ Count("accept") # 0 \/ N \cap Fresh # {} \/ (~listed /\ Count("accept") = 0 /\ H \cap Fresh = {})
  BY <1>1
<1>5. ~listed \/ refs' # 0 \/ N \cap Dropping # {} \/ (listed /\ refs = 0 /\ H \cap Dropping = {})
  BY <1>1, <1>3
<1>6. mode # "ws" => io'["accept"].zero = 0 /\ N \cap Stale = {}
  BY DEF KeepInv, NoFailure, Onward
<1>7. Leads(H, N, {}, {})
  BY <1>1, <1>3, <1>4, <1>5, <1>6 DEF Leads, Onward
<1> QED
  BY <1>2, <1>7, LeadKeeps

Goes(m, x, steps) == steps \in Seq(Steps) /\ Onward(m, x, Elems(steps))

LEMMA OnwardThen ==
    ASSUME SlotAssumption, IInv, IInv', KeepInv, NEW t \in Threads, NEW x, At(t, x),
           NEW steps, Then(t, steps), Goes(mode, x, steps),
           UNCHANGED <<jobs, mode, sock, listed>>, io'["accept"] = io["accept"],
           refs' # 0 \/ refs' = refs \/ Elems(steps) \cap Dropping # {}
    PROVE  KeepInv'
<1>1. steps \in Seq(Steps) /\ Onward(mode, x, Elems(steps))
  BY DEF Goes
<1>2. Turns({x}, Elems(steps))
  BY <1>1, StackTyped, ThenTurns
<1>3. {x} \subseteq {x, "recv", "wsaRecv"}
  OBVIOUS
<1> QED
  BY <1>1, <1>2, <1>3, OnwardKeeps

LEMMA AlsoNamed ==
    /\ "clear" \in Steps /\ "delSession" \in Steps /\ "addDisconnect" \in Steps /\ "addSession" \in Steps
    /\ "isValid" \in Steps /\ "wsaSend" \in Steps /\ "onConnect" \in Steps /\ "addAccept" \in Steps
    /\ "addRecv" \in Steps /\ "acceptEx" \in Steps /\ "onDisconnected" \in Steps /\ "sended" \in Steps
    /\ "accepted" \in Steps /\ "acceptFailed" \in Steps /\ "message" \in Steps /\ "makeAccept" \in Steps
    /\ "makeStale" \in Steps /\ "makeRecv" \in Steps /\ "pop" \in Steps /\ "update" \in Steps
  BY DEF Steps, Handling, Calls, Opening, Others

\* Going on with one, two or three steps.
LEMMA GoesOne ==
    ASSUME NEW m, NEW x, NEW a, a \in Steps, Onward(m, x, {a})
    PROVE  Goes(m, x, <<a>>)
<1>1. Elems(<<a>>) = {a} /\ <<a>> \in Seq(Steps)
  BY ONLY a \in Steps, Few, FewTyped
<1> QED
  BY ONLY <1>1, Onward(m, x, {a}) DEF Goes

LEMMA GoesTwo ==
    ASSUME NEW m, NEW x, NEW a, NEW b, a \in Steps, b \in Steps, Onward(m, x, {a, b})
    PROVE  Goes(m, x, <<a, b>>)
<1>1. Elems(<<a, b>>) = {a, b} /\ <<a, b>> \in Seq(Steps)
  BY ONLY a \in Steps, b \in Steps, Few, FewTyped
<1> QED
  BY ONLY <1>1, Onward(m, x, {a, b}) DEF Goes

LEMMA GoesThree ==
    ASSUME NEW m, NEW x, NEW a, NEW b, NEW c, a \in Steps, b \in Steps, c \in Steps,
           Onward(m, x, {a, b, c})
    PROVE  Goes(m, x, <<a, b, c>>)
<1>1. Elems(<<a, b, c>>) = {a, b, c} /\ <<a, b, c>> \in Seq(Steps)
  BY ONLY a \in Steps, b \in Steps, c \in Steps, Few, FewTyped
<1> QED
  BY ONLY <1>1, Onward(m, x, {a, b, c}) DEF Goes

\* Where each step leads.
LEMMA Going ==
    ASSUME NEW m
    PROVE  /\ \A x \in {"message", "recv", "wsaRecv", "send", "wsaSend", "sended", "isValid", "hold", "cancel", "onConnected", "release"} :
                Goes(m, x, <<>>)
           /\ Goes(m, "release", <<"clear">>) /\ Goes(m, "clear", <<"delSession">>) /\ Goes(m, "clear", <<"addDisconnect">>)
           /\ Goes(m, "onConnect", <<"initialize", "release">>) /\ Goes(m, "initialize", <<"addSession">>)
           /\ \A x \in {"onConnected", "message"} : Goes(m, x, <<"send">>) /\ Goes(m, x, <<"disconnect">>)
           /\ Goes(m, "makeRecv", <<"disconnect">>) /\ Goes(m, "makeRecv", <<"addRecv">>)
           /\ Goes(m, "recv", <<"wsaRecv">>) /\ Goes(m, "wsaRecv", <<"disconnect", "release">>)
           /\ Goes(m, "send", <<"wsaSend">>) /\ Goes(m, "wsaSend", <<"disconnect", "release">>)
           /\ Goes(m, "sended", <<"wsaSend">>) /\ Goes(m, "disconnect", <<"isValid">>)
           /\ Goes(m, "isValid", <<"hold", "cancel", "release">>)
           /\ Goes(m, "onDisconnected", <<"close", "open">>) /\ Goes(m, "onDisconnected", <<"open">>)
           /\ Goes(m, "accepted", <<"onConnect">>) /\ Goes(m, "acceptFailed", <<"onConnect">>)
           /\ Goes(m, "accepted", <<"onConnectWs", "handshake">>) /\ Goes(m, "acceptFailed", <<"onConnectWs", "handshake">>)
           /\ Goes(m, "onConnectWs", <<"initialize">>) /\ Goes(m, "handshake", <<"send", "ping">>)
           /\ Goes(m, "handshake", <<"disconnect">>) /\ Goes(m, "ping", <<"send">>)
           /\ Goes(m, "makeAccept", <<"addAccept">>)
<1>0. \A x \in {"message", "recv", "wsaRecv", "send", "wsaSend", "sended", "isValid", "hold", "cancel", "onConnected", "release"} :
          Onward(m, x, {})
  BY DEF Onward, Fresh, Opening, After, Dropping, Stale, Steps
<1>1. \A x \in {"message", "recv", "wsaRecv", "send", "wsaSend", "sended", "isValid", "hold", "cancel", "onConnected", "release"} :
          Goes(m, x, <<>>)
  BY ONLY <1>0, Few, FewTyped DEF Goes
<1>2. /\ Goes(m, "release", <<"clear">>) /\ Goes(m, "clear", <<"delSession">>) /\ Goes(m, "clear", <<"addDisconnect">>)
      /\ Goes(m, "onConnect", <<"initialize", "release">>) /\ Goes(m, "initialize", <<"addSession">>)
  <2>1. /\ Onward(m, "release", {"clear"}) /\ Onward(m, "clear", {"delSession"})
        /\ Onward(m, "clear", {"addDisconnect"}) /\ Onward(m, "onConnect", {"initialize", "release"})
        /\ Onward(m, "initialize", {"addSession"})
    BY Named, AlsoNamed DEF Onward, Fresh, Opening, After, Dropping, Stale
  <2>2. {"addDisconnect", "addSession", "clear", "delSession", "initialize", "release"} \subseteq Steps
    BY Named, AlsoNamed
  <2> QED
    BY ONLY <2>1, <2>2, GoesOne, GoesTwo, GoesThree
<1>3. /\ \A x \in {"onConnected", "message"} : Goes(m, x, <<"send">>) /\ Goes(m, x, <<"disconnect">>)
      /\ Goes(m, "makeRecv", <<"disconnect">>) /\ Goes(m, "makeRecv", <<"addRecv">>)
      /\ Goes(m, "recv", <<"wsaRecv">>) /\ Goes(m, "wsaRecv", <<"disconnect", "release">>)
  <2>1. /\ Onward(m, "onConnected", {"send"}) /\ Onward(m, "message", {"send"})
        /\ Onward(m, "onConnected", {"disconnect"}) /\ Onward(m, "message", {"disconnect"})
        /\ Onward(m, "makeRecv", {"disconnect"}) /\ Onward(m, "makeRecv", {"addRecv"})
        /\ Onward(m, "recv", {"wsaRecv"}) /\ Onward(m, "wsaRecv", {"disconnect", "release"})
    BY Named, AlsoNamed DEF Onward, Fresh, Opening, After, Dropping, Stale
  <2>2. {"addRecv", "disconnect", "release", "send", "wsaRecv"} \subseteq Steps
    BY Named, AlsoNamed
  <2>4. \A x \in {"onConnected", "message"} : Goes(m, x, <<"send">>) /\ Goes(m, x, <<"disconnect">>)
    BY ONLY <2>1, <2>2, GoesOne
  <2>5. /\ Goes(m, "makeRecv", <<"disconnect">>) /\ Goes(m, "makeRecv", <<"addRecv">>)
        /\ Goes(m, "recv", <<"wsaRecv">>) /\ Goes(m, "wsaRecv", <<"disconnect", "release">>)
    BY ONLY <2>1, <2>2, GoesOne, GoesTwo, GoesThree
  <2> QED
    BY ONLY <2>4, <2>5
<1>4. /\ Goes(m, "send", <<"wsaSend">>) /\ Goes(m, "wsaSend", <<"disconnect", "release">>)
      /\ Goes(m, "sended", <<"wsaSend">>) /\ Goes(m, "disconnect", <<"isValid">>)
      /\ Goes(m, "isValid", <<"hold", "cancel", "release">>)
  <2>1. /\ Onward(m, "send", {"wsaSend"}) /\ Onward(m, "wsaSend", {"disconnect", "release"})
        /\ Onward(m, "sended", {"wsaSend"}) /\ Onward(m, "disconnect", {"isValid"})
        /\ Onward(m, "isValid", {"hold", "cancel", "release"})
    BY Named, AlsoNamed DEF Onward, Fresh, Opening, After, Dropping, Stale
  <2>2. {"cancel", "disconnect", "hold", "isValid", "release", "wsaSend"} \subseteq Steps
    BY Named, AlsoNamed
  <2> QED
    BY ONLY <2>1, <2>2, GoesOne, GoesTwo, GoesThree
<1>5. /\ Goes(m, "onDisconnected", <<"close", "open">>) /\ Goes(m, "onDisconnected", <<"open">>)
      /\ Goes(m, "accepted", <<"onConnect">>) /\ Goes(m, "acceptFailed", <<"onConnect">>)
      /\ Goes(m, "accepted", <<"onConnectWs", "handshake">>) /\ Goes(m, "acceptFailed", <<"onConnectWs", "handshake">>)
  <2>1. /\ Onward(m, "onDisconnected", {"close", "open"}) /\ Onward(m, "onDisconnected", {"open"})
        /\ Onward(m, "accepted", {"onConnect"}) /\ Onward(m, "acceptFailed", {"onConnect"})
        /\ Onward(m, "accepted", {"onConnectWs", "handshake"}) /\ Onward(m, "acceptFailed", {"onConnectWs", "handshake"})
    BY Named, AlsoNamed DEF Onward, Fresh, Opening, After, Dropping, Stale
  <2>2. {"close", "handshake", "onConnect", "onConnectWs", "open"} \subseteq Steps
    BY Named, AlsoNamed
  <2> QED
    BY ONLY <2>1, <2>2, GoesOne, GoesTwo, GoesThree
<1>6. /\ Goes(m, "onConnectWs", <<"initialize">>) /\ Goes(m, "handshake", <<"send", "ping">>)
      /\ Goes(m, "handshake", <<"disconnect">>) /\ Goes(m, "ping", <<"send">>)
      /\ Goes(m, "makeAccept", <<"addAccept">>)
  <2>1. /\ Onward(m, "onConnectWs", {"initialize"}) /\ Onward(m, "handshake", {"send", "ping"})
        /\ Onward(m, "handshake", {"disconnect"}) /\ Onward(m, "ping", {"send"})
        /\ Onward(m, "makeAccept", {"addAccept"})
    BY Named, AlsoNamed DEF Onward, Fresh, Opening, After, Dropping, Stale
  <2>2. {"addAccept", "disconnect", "initialize", "ping", "send"} \subseteq Steps
    BY Named, AlsoNamed
  <2> QED
    BY ONLY <2>1, <2>2, GoesOne, GoesTwo, GoesThree
<1> QED
  BY <1>1, <1>2, <1>3, <1>4, <1>5, <1>6

\* The steps of the handlers that lead on.
LEMMA HandlersKept ==
    ASSUME SlotAssumption, IInv, IInv', KeepInv, NEW t \in Threads, UNCHANGED <<jobs, mode>>,
           \/ OnConnect(t) \/ InitializeOk(t) \/ OnConnected(t)
           \/ Message(t) \/ Recv(t) \/ WsaRecvOk(t) \/ WsaRecvFails(t)
    PROVE  KeepInv'
<1>0. refs \in Nat /\ refs + 1 # 0
  BY KeptType
<1>1. CASE OnConnect(t)
  <2>1. At(t, "onConnect") /\ Then(t, <<"initialize", "release">>) /\ Goes(mode, "onConnect", <<"initialize", "release">>)
    BY Going, <1>1 DEF OnConnect
  <2> QED
    BY <1>0, <1>1, <2>1, OnwardThen DEF OnConnect, Reference
<1>2. CASE InitializeOk(t)
  <2>1. At(t, "initialize") /\ Then(t, <<"addSession">>) /\ Goes(mode, "initialize", <<"addSession">>)
    BY Going, <1>2 DEF InitializeOk
  <2> QED
    BY <1>2, <2>1, OnwardThen DEF InitializeOk
<1>3. ASSUME NEW x \in {"onConnected", "message"}, At(t, x), \E cb \in Callback : Then(t, cb),
             UNCHANGED <<sock, io, refs, listed>>
      PROVE  KeepInv'
  <2>1. PICK cb \in {<<>>, <<"send">>, <<"disconnect">>} : Then(t, cb)
    BY <1>3, SlotAssumption DEF Callback, SlotAssumption
  <2>2. Goes(mode, x, cb)
    BY Going, <1>3, <2>1
  <2> QED
    BY <1>3, <2>1, <2>2, OnwardThen
<1>4. CASE Recv(t)
  <2>1. PICK steps \in {<<>>, <<"wsaRecv">>} : Then(t, steps)
    BY <1>4 DEF Recv
  <2>2. At(t, "recv") /\ Goes(mode, "recv", steps)
    BY Going, <1>4, <2>1 DEF Recv
  <2> QED
    BY <1>4, <2>1, <2>2, OnwardThen DEF Recv
<1>5. CASE WsaRecvOk(t)
  <2>1. At(t, "wsaRecv") /\ Then(t, <<>>) /\ Goes(mode, "wsaRecv", <<>>)
    BY Going, <1>5 DEF WsaRecvOk
  <2>2. io'["accept"] = io["accept"]
    BY <1>5 DEF WsaRecvOk, Posted, IInv, TypeInv, Kinds
  <2> QED
    BY <1>0, <1>5, <2>1, <2>2, OnwardThen DEF WsaRecvOk, Reference
<1>6. CASE WsaRecvFails(t)
  <2>1. At(t, "wsaRecv") /\ Then(t, <<"disconnect", "release">>) /\ Goes(mode, "wsaRecv", <<"disconnect", "release">>)
    BY Going, <1>6 DEF WsaRecvFails
  <2> QED
    BY <1>0, <1>6, <2>1, OnwardThen DEF WsaRecvFails, Reference
<1> QED
  BY <1>1, <1>2, <1>3, <1>4, <1>5, <1>6 DEF OnConnected, Message

LEMMA SendingKept ==
    ASSUME SlotAssumption, IInv, IInv', KeepInv, NEW t \in Threads, UNCHANGED <<jobs, mode>>, Sending(t)
    PROVE  KeepInv'
<1>0. refs \in Nat /\ refs + 1 # 0
  BY KeptType
<1>1. CASE SendIdle(t)
  <2>1. At(t, "send") /\ Then(t, <<"wsaSend">>) /\ Goes(mode, "send", <<"wsaSend">>)
    BY Going, <1>1 DEF SendIdle
  <2> QED
    BY <1>1, <2>1, OnwardThen DEF SendIdle
<1>2. CASE SendBehind(t)
  <2>1. At(t, "send") /\ Then(t, <<>>) /\ Goes(mode, "send", <<>>)
    BY Going, <1>2 DEF SendBehind
  <2> QED
    BY <1>2, <2>1, OnwardThen DEF SendBehind
<1>3. CASE WsaSendOk(t)
  <2>1. At(t, "wsaSend") /\ Then(t, <<>>) /\ Goes(mode, "wsaSend", <<>>)
    BY Going, <1>3 DEF WsaSendOk
  <2>2. io'["accept"] = io["accept"]
    BY <1>3 DEF WsaSendOk, Posted, IInv, TypeInv, Kinds
  <2> QED
    BY <1>0, <1>3, <2>1, <2>2, OnwardThen DEF WsaSendOk, Reference
<1>4. CASE WsaSendFails(t)
  <2>1. At(t, "wsaSend") /\ Then(t, <<"disconnect", "release">>) /\ Goes(mode, "wsaSend", <<"disconnect", "release">>)
    BY Going, <1>4 DEF WsaSendFails
  <2> QED
    BY <1>0, <1>4, <2>1, OnwardThen DEF WsaSendFails, Reference
<1>5. CASE Sended(t)
  <2>1. PICK steps \in {<<>>, <<"wsaSend">>} : Then(t, steps)
    BY <1>5 DEF Sended
  <2>2. At(t, "sended") /\ Goes(mode, "sended", steps)
    BY Going, <1>5, <2>1 DEF Sended
  <2> QED
    BY <1>5, <2>1, <2>2, OnwardThen DEF Sended
<1> QED
  BY <1>1, <1>2, <1>3, <1>4, <1>5 DEF Sending

LEMMA DisconnectingKept ==
    ASSUME SlotAssumption, IInv, IInv', KeepInv, NEW t \in Threads, UNCHANGED <<jobs, mode>>, Disconnecting(t)
    PROVE  KeepInv'
<1>0. refs \in Nat /\ refs + 1 # 0
  BY KeptType
<1>1. CASE Disconnect(t)
  <2>1. At(t, "disconnect") /\ Then(t, <<"isValid">>) /\ Goes(mode, "disconnect", <<"isValid">>)
    BY Going, <1>1 DEF Disconnect
  <2> QED
    BY <1>1, <2>1, OnwardThen DEF Disconnect
<1>2. CASE IsValid(t)
  <2>1. PICK steps \in {<<>>, <<"hold", "cancel", "release">>} : Then(t, steps)
    BY <1>2 DEF IsValid
  <2>2. At(t, "isValid") /\ Goes(mode, "isValid", steps)
    BY Going, <1>2, <2>1 DEF IsValid
  <2> QED
    BY <1>2, <2>1, <2>2, OnwardThen DEF IsValid
<1>3. CASE Hold(t)
  <2>1. At(t, "hold") /\ Then(t, <<>>) /\ Goes(mode, "hold", <<>>)
    BY Going, <1>3 DEF Hold
  <2> QED
    BY <1>0, <1>3, <2>1, OnwardThen DEF Hold, Reference
<1>4. CASE Cancel(t)
  <2>1. At(t, "cancel") /\ Then(t, <<>>) /\ Goes(mode, "cancel", <<>>)
    BY Going, <1>4 DEF Cancel
  <2>2. io'["accept"] = io["accept"]
    BY <1>4 DEF Cancel, Aborted, Kinds
  <2> QED
    BY <1>4, <2>1, <2>2, OnwardThen DEF Cancel
<1> QED
  BY <1>1, <1>2, <1>3, <1>4 DEF Disconnecting

\* The last Release leads to Clear, and Clear to _DelSession or the job for it.
LEMMA EndingKept ==
    ASSUME SlotAssumption, IInv, IInv', KeepInv, NEW t \in Threads, UNCHANGED <<jobs, mode>>,
           Release(t) \/ Clear(t) \/ J!Clear(t)
    PROVE  KeepInv'
<1>0. refs \in Nat
  BY KeptType
<1>1. CASE Release(t)
  <2>1. PICK steps \in {<<>>, <<"clear">>} : steps = IF refs = 1 THEN <<"clear">> ELSE <<>>
    OBVIOUS
  <2>2. At(t, "release") /\ Then(t, steps) /\ Goes(mode, "release", steps)
    BY Going, <1>1, <2>1 DEF Release
  <2>3. refs' # 0 \/ Elems(steps) \cap Dropping # {}
    <3>1. CASE refs = 1
      BY <2>1, <3>1, Few DEF Dropping
    <3>2. CASE refs # 1
      BY <1>0, <1>1, <3>2 DEF Release
    <3> QED
      BY <3>1, <3>2
  <2> QED
    BY <1>1, <2>2, <2>3, OnwardThen DEF Release
<1>2. CASE Clear(t)
  <2>1. At(t, "clear") /\ Then(t, <<"delSession">>) /\ Goes(mode, "clear", <<"delSession">>)
    BY Going, <1>2, SlotAssumption DEF Clear, SlotAssumption
  <2> QED
    BY <1>2, <2>1, OnwardThen DEF Clear
<1>3. CASE J!Clear(t)
  <2>1. At(t, "clear") /\ Then(t, <<"addDisconnect">>) /\ Goes(mode, "clear", <<"addDisconnect">>)
    BY Going, <1>3 DEF J!Clear, J!At, J!Then, At, Then
  <2> QED
    BY <1>3, <2>1, OnwardThen DEF J!Clear
<1> QED
  BY <1>1, <1>2, <1>3

\* A message that is refused: the function that called the handler returns.
LEMMA BadKept ==
    ASSUME SlotAssumption, IInv, IInv', KeepInv, NEW t \in Threads, UNCHANGED <<jobs, mode>>,
           BadMessage(t) \/ W!BadMessage(t) \/ J!BadBytes(t)
    PROVE  KeepInv'
<1>1. UNCHANGED <<sock, io, refs, listed>>
  BY DEF BadMessage, W!BadMessage, J!BadBytes
<1>2. PICK x \in {"message", "makeRecv"}, y \in {"recv", "wsaRecv"} : At(t, x) /\ ThenSkip(t, y, <<"disconnect">>)
  BY SlotAssumption DEF BadMessage, W!BadMessage, J!BadBytes, J!At, J!ThenSkip, W!At, W!ThenSkip, At, ThenSkip, SlotAssumption
<1>3. Tail(stack[t]) # <<>>
  <2>1. Good(Table, stack[t]) /\ stack[t] # <<>> /\ Head(stack[t]) = x /\ stack[t] \in Seq(Steps)
    BY <1>2 DEF IInv, StackInv, At
  <2>2. Top(Tail(stack[t])) \in Table[x]
    BY <2>1, GoodTail
  <2>3. "bottom" \notin Table[x]
    BY <1>2, Lies DEF Table
  <2> QED
    BY <2>2, <2>3 DEF Top
<1>4. Goes(mode, x, <<"disconnect">>)
  BY <1>2, Going
<1>5. <<"disconnect">> \in Seq(Steps) /\ Onward(mode, x, Elems(<<"disconnect">>))
  BY <1>4 DEF Goes
<1>6. Turns({x, y}, Elems(<<"disconnect">>))
  BY <1>2, <1>3, <1>5, StackTyped, SkipTurns
<1>7. {x, y} \subseteq {x, "recv", "wsaRecv"}
  BY <1>2
<1> QED
  BY <1>1, <1>5, <1>6, <1>7, OnwardKeeps

LEMMA DoneTurns ==
    ASSUME IInv, NEW t \in Threads, NEW x, At(t, x), Then(t, <<>>)
    PROVE  Turns({x}, {})
<1>1. <<>> \in Seq(Steps) /\ Elems(<<>>) = {}
  BY Few, FewTyped
<1>2. Turns({x}, Elems(<<>>))
  BY <1>1, StackTyped, ThenTurns
<1> QED
  BY <1>1, <1>2

\* Nothing else goes on while a connection is taken, so that the socket is there.
LEMMA WhileOpening ==
    ASSUME SlotAssumption, IInv, KeepInv, calls = 0, NEW t \in Threads, NEW x \in Opening, At(t, x)
    PROVE  ~listed /\ sock # "none" /\ refs # 0
<1>1. TypeInv /\ StackInv /\ QueueInv /\ OpenInv
  BY DEF IInv, QuietInv
<1>2. Traffic = 0 /\ ~listed
  BY <1>1, Accepting
<1>3. Left({"open"}) = 0
  <2>1. Left(Noisy) = 0
    BY <1>1, <1>2, QuietTraffic
  <2>2. {"open"} \subseteq Noisy
    BY DEF Noisy, Others
  <2> QED
    BY <1>1, <2>1, <2>2, LeftPart
<1>4. ~Doing({"open"})
  BY <1>3, StackTyped, LeftDoing
<1>5. refs # 0
  <2>1. Good(MayLie(mode, FALSE), stack[t]) /\ Top(stack[t]) \in Firm
    BY Below DEF Table, Firm
  <2>2. Bal(stack[t]) >= 1 /\ Bal(stack[t]) \in Nat
    BY <2>1, BalFirm, BalType
  <2>3. Bal(stack[t]) <= Total(Balances) /\ Total(Balances) <= Kept /\ Total(Balances) \in Nat
    BY <1>1, KeptBound, NumbersType
  <2>4. Kept \in Nat /\ Reserved \in Nat /\ refs = Kept + Reserved
    BY KeptType
  <2> QED
    BY ONLY <2>2, <2>3, <2>4
<1> QED
  BY <1>2, <1>4, <1>5 DEF KeepInv, NoFailure

LEMMA AddSessionKept ==
    ASSUME SlotAssumption, IInv, IInv', KeepInv, calls = 0, NEW t \in Threads, UNCHANGED <<jobs, mode>>,
           AddSessionOk(t) \/ W!AddSessionOk(t)
    PROVE  KeepInv'
<1>1. At(t, "addSession") /\ listed' = TRUE /\ UNCHANGED <<sock, io, refs>>
  BY DEF AddSessionOk, W!AddSessionOk, W!At, At
<1>2. PICK steps \in {<<"onConnected", "recv">>, <<"onConnected", "wsaRecv">>} : Then(t, steps)
  BY SlotAssumption DEF AddSessionOk, W!AddSessionOk, W!Then, Then, SlotAssumption
<1>3. steps \in Seq(Steps) /\ Elems(steps) \subseteq {"onConnected", "recv", "wsaRecv"}
  <2>1. CASE steps = <<"onConnected", "recv">>
    <3>1. steps \in Seq(Steps) /\ Elems(steps) = {"onConnected", "recv"}
      BY <2>1, Named, Few, FewTyped
    <3> QED
      BY <3>1
  <2>2. CASE steps = <<"onConnected", "wsaRecv">>
    <3>1. steps \in Seq(Steps) /\ Elems(steps) = {"onConnected", "wsaRecv"}
      BY <2>2, Named, Few, FewTyped
    <3> QED
      BY <3>1
  <2> QED
    BY <1>2, <2>1, <2>2
<1>4. Turns({"addSession"}, Elems(steps))
  BY <1>1, <1>2, <1>3, StackTyped, ThenTurns
<1>5. Queues({}, {})
  BY <1>3, <1>4, QueueSame
<1>6. refs # 0
  BY <1>1, WhileOpening DEF Opening
<1>7. Leads({"addSession"}, Elems(steps), {}, {})
  BY <1>1, <1>3, <1>6 DEF Leads, Stale, KeepInv, NoFailure
<1> QED
  BY <1>4, <1>5, <1>7, LeadKeeps

LEMMA DelSessionKept ==
    ASSUME SlotAssumption, IInv, IInv', KeepInv, NEW t \in Threads, UNCHANGED <<jobs, mode>>, DelSession(t)
    PROVE  KeepInv'
<1>1. At(t, "delSession") /\ ~listed' /\ UNCHANGED <<sock, io, refs>>
  BY DEF DelSession
<1>2. PICK steps \in {<<"onDisconnected">>, <<>>} : Then(t, steps) /\ (listed => steps = <<"onDisconnected">>)
  BY DEF DelSession
<1>3. steps \in Seq(Steps) /\ Elems(steps) \subseteq {"onDisconnected"} /\ (listed => Elems(steps) = {"onDisconnected"})
  BY <1>2, AlsoNamed, Few, FewTyped
<1>4. Turns({"delSession"}, Elems(steps))
  BY <1>1, <1>2, <1>3, StackTyped, ThenTurns
<1>5. Queues({}, {})
  BY <1>3, <1>4, QueueSame
<1>6. listed' \/ Count("accept")' # 0 \/ Elems(steps) \cap Fresh # {}
        \/ (~listed /\ Count("accept") = 0 /\ {"delSession"} \cap Fresh = {})
  <2>1. Count("accept")' = Count("accept")
    BY <1>1 DEF Count
  <2> QED
    BY <1>3, <2>1 DEF Fresh, Opening, After
<1>7. Leads({"delSession"}, Elems(steps), {}, {})
  BY <1>1, <1>3, <1>6 DEF Leads, Stale, KeepInv, NoFailure
<1> QED
  BY <1>4, <1>5, <1>7, LeadKeeps

\* Who ends the connection has no accept outstanding, and closing the socket aborts none.
LEMMA EnderAborts ==
    ASSUME SlotAssumption, IInv, calls = 0, NEW t \in Threads, NEW x \in Ends, At(t, x), io' = Aborted(Kinds)
    PROVE  /\ Count("accept") = 0 /\ Count("accept")' = 0 /\ io'["accept"].zero = 0
           /\ \A u \in Threads : u # t => Occurs(Handling, stack[u]) = 0
<1>1. Count("accept") = 0 /\ \A u \in Threads : u # t => Occurs(Handling, stack[u]) = 0
  BY EnderBalance, Alone
<1>2. io' \in IoType /\ Count("accept")' = Count("accept")
  BY AbortedCounts DEF IInv, TypeInv, IoType, Kinds
<1>3. io'["accept"] \in [pending : Nat, done : Nat, zero : Nat]
  BY <1>2 DEF IoType, Kinds
<1>4. io'["accept"].zero = 0
  <2>1. io'["accept"].pending + io'["accept"].done + io'["accept"].zero = 0
    BY <1>1, <1>2 DEF Count
  <2> QED
    BY <1>3, <2>1
<1> QED
  BY <1>1, <1>2, <1>4

LEMMA CloseKept ==
    ASSUME SlotAssumption, IInv, IInv', KeepInv, calls = 0, NEW t \in Threads, UNCHANGED <<jobs, mode>>, Close(t)
    PROVE  KeepInv'
<1>1. At(t, "close") /\ Then(t, <<>>) /\ sock' = "none" /\ io' = Aborted(Kinds) /\ UNCHANGED <<refs, listed>>
  BY DEF Close
<1>2. /\ Count("accept") = 0 /\ Count("accept")' = 0 /\ io'["accept"].zero = 0
      /\ \A u \in Threads : u # t => Occurs(Handling, stack[u]) = 0
  BY <1>1, EnderAborts DEF Ends
<1>3. Turns({"close"}, {})
  BY <1>1, DoneTurns
<1>4. Queues({}, {})
  BY <1>3, QueueSame
<1>5. ~Doing({"acceptEx"})'
  <2>1. ASSUME NEW u \in Threads, u # t
        PROVE  \A i \in 1..Len(stack[u]) : stack[u][i] # "acceptEx"
    <3>1. stack[u] \in Seq(Steps) /\ Occurs(Handling, stack[u]) = 0
      BY <1>2, <2>1, StackTyped
    <3>2. \A i \in 1..Len(stack[u]) : stack[u][i] \notin Handling
      BY <3>1, OccursZero
    <3> QED
      BY <3>2 DEF Handling, Others
  <2>2. \A i \in 1..Len(stack[t]) : stack[t][i] # "acceptEx"
    <3>1. PICK U : U = Table /\ Good(U, stack[t]) /\ stack[t] # <<>> /\ Head(stack[t]) = "close"
      BY <1>1, Below
    <3>2. \A y \in DOMAIN U : U[y] \cap {"acceptEx"} = {}
      BY <3>1, Tops, LiesDomain DEF Table
    <3>3. stack[t] \in Seq(Steps) /\ Occurs({"acceptEx"}, stack[t]) = In("close", {"acceptEx"})
      BY <3>1, <3>2, TopOnly, StackTyped
    <3> QED
      BY <3>3, OccursZero DEF In
  <2>3. ~Doing({"acceptEx"})
    BY <2>1, <2>2 DEF Doing
  <2> QED
    BY <1>3, <2>3, ClassesTyped DEF Turns
<1>6. Doing({"open"})'
  <2>1. PICK r : r = Tail(stack[t]) /\ Top(r) = "open" /\ r # <<>>
    <3>1. Table["close"] = {"open"}
      BY Lies DEF Table
    <3>2. Top(Tail(stack[t])) = "open"
      BY <1>1, <3>1, Below
    <3> QED
      BY <3>2 DEF Top
  <2>2. stack[t] \in Seq(Steps) /\ stack[t] # <<>>
    BY <1>1, StackTyped DEF At
  <2>3. Len(stack[t]) \in Nat /\ Len(r) = Len(stack[t]) - 1 /\ \A i \in 1..Len(r) : r[i] = stack[t][i+1]
    BY <2>1, <2>2, TailProperties
  <2>4. r \in Seq(Steps) /\ 1 \in 1..Len(r) /\ r[1] = "open"
    BY <2>1, <2>2, TailProperties DEF Top
  <2>5. 2 \in 1..Len(stack[t]) /\ stack[t][1+1] = "open"
    BY <2>3, <2>4
  <2>6. Doing({"open"})
    BY <2>5 DEF Doing
  <2>7. {"open"} \cap {"close"} = {}
    OBVIOUS
  <2> QED
    BY <1>3, <2>6, <2>7, ClassesTyped DEF Turns
<1>7. Leads({"close"}, {}, {}, {})
  <2>1. listed \/ (~listed /\ Count("accept") = 0 /\ {"close"} \cap Fresh = {})
    BY <1>2 DEF Fresh, Opening, After
  <2>2. ~listed \/ refs # 0 \/ (listed /\ refs = 0 /\ {"close"} \cap Dropping = {})
    BY KeptType DEF Dropping
  <2> QED
    BY <1>1, <1>2, <1>5, <1>6, <2>1, <2>2 DEF Leads
<1> QED
  BY <1>3, <1>4, <1>7, LeadKeeps

LEMMA OpenKept ==
    ASSUME SlotAssumption, IInv, IInv', KeepInv, calls = 0, NEW t \in Threads, UNCHANGED <<jobs, mode>>,
           OpenOk(t) \/ W!OpenOk(t)
    PROVE  KeepInv'
<1>0. refs \in Nat /\ refs + 1 # 0
  BY KeptType
<1>1. At(t, "open") /\ Then(t, <<"acceptEx">>) /\ sock' = "fresh" /\ io' = Aborted(Kinds) /\ listed' = listed
      /\ (refs' = refs \/ refs' = refs + 1)
  BY DEF OpenOk, W!OpenOk, W!At, W!Then, W!Opened, W!Aborted, W!Kinds, W!Reference, At, Then, Opened, Aborted, Kinds
<1>2. io'["accept"].zero = 0
  BY <1>1, EnderAborts DEF Ends
<1>3. Turns({"open"}, {"acceptEx"})
  <2>1. <<"acceptEx">> \in Seq(Steps) /\ Elems(<<"acceptEx">>) = {"acceptEx"}
    BY AlsoNamed, Few, FewTyped
  <2>2. Turns({"open"}, Elems(<<"acceptEx">>))
    BY <1>1, <2>1, StackTyped, ThenTurns
  <2> QED
    BY <2>1, <2>2
<1>4. Queues({}, {})
  BY <1>3, QueueSame
<1>5. Leads({"open"}, {"acceptEx"}, {}, {})
  <2>1. "acceptEx" \in Fresh /\ {"open"} \cap Dropping = {} /\ {"acceptEx"} \cap Stale = {}
    BY DEF Fresh, After, Dropping, Stale
  <2> QED
    BY <1>0, <1>1, <1>2, <2>1 DEF Leads
<1> QED
  BY <1>3, <1>4, <1>5, LeadKeeps

LEMMA AcceptExKept ==
    ASSUME SlotAssumption, IInv, IInv', KeepInv, NEW t \in Threads, UNCHANGED <<jobs, mode>>,
           AcceptExOk(t) \/ W!AcceptExOk(t)
    PROVE  KeepInv'
<1>0. refs \in Nat /\ refs + 1 # 0
  BY KeptType
<1>1. At(t, "acceptEx") /\ Then(t, <<>>) /\ sock' = sock /\ io' = Posted("accept") /\ listed' = listed
      /\ (refs' = refs \/ refs' = refs + 1)
  BY DEF AcceptExOk, W!AcceptExOk, W!At, W!Then, W!Posted, At, Then, Posted, Reference
<1>2. io'["accept"].zero = io["accept"].zero /\ Count("accept")' # 0
  <2>1. io \in IoType /\ io["accept"] \in [pending : Nat, done : Nat, zero : Nat]
    BY DEF IInv, TypeInv, IoType, Kinds
  <2>2. Count("accept")' = Count("accept") + 1 /\ Count("accept") \in Nat
    BY <1>1, <2>1, PostedCounts DEF Count, Kinds
  <2>3. io'["accept"] = [io["accept"] EXCEPT !.pending = @ + 1]
    BY <1>1, <2>1 DEF Posted, IoType, Kinds
  <2> QED
    BY <2>1, <2>2, <2>3
<1>3. Turns({"acceptEx"}, {})
  BY <1>1, DoneTurns
<1>4. Queues({}, {})
  BY <1>3, QueueSame
<1>5. Leads({"acceptEx"}, {}, {}, {})
  <2>1. {"acceptEx"} \cap Dropping = {}
    BY DEF Dropping
  <2>2. mode # "ws" => io["accept"].zero = 0
    BY DEF KeepInv, NoFailure
  <2> QED
    BY <1>0, <1>1, <1>2, <2>1, <2>2 DEF Leads
<1> QED
  BY <1>3, <1>4, <1>5, LeadKeeps

LEMMA AtDoes ==
    ASSUME IInv, NEW t \in Threads, NEW x, At(t, x), NEW P, x \in P
    PROVE  Doing(P)
<1>1. stack[t] \in Seq(Steps) /\ stack[t] # <<>> /\ Head(stack[t]) = x
  BY StackTyped DEF At
<1>2. 1 \in 1..Len(stack[t]) /\ stack[t][1] = x
  BY <1>1, TailProperties
<1> QED
  BY <1>2 DEF Doing

\* What else the handlers of an acceptor do when nothing fails.
LEMMA OwnKept ==
    ASSUME SlotAssumption, Failures \cap Fatal = {}, IInv, IInv', KeepInv, calls = 0, NEW t \in Threads,
           UNCHANGED <<jobs, mode>>, mode # "ws", Own(t)
    PROVE  KeepInv'
<1>1. NoFailure
  BY DEF KeepInv
<1>2. CASE OnDisconnected(t)
  <2>1. At(t, "onDisconnected") /\ Then(t, <<"close", "open">>) /\ Goes(mode, "onDisconnected", <<"close", "open">>)
    BY Going, <1>2 DEF OnDisconnected
  <2> QED
    BY <1>2, <2>1, OnwardThen DEF OnDisconnected
<1>3. CASE OpenOk(t) \/ AcceptExOk(t)
  BY <1>3, OpenKept, AcceptExKept
<1>4. ~OpenFails(t) /\ ~AcceptExFails(t)
  <2>1. ASSUME At(t, "acceptEx")
        PROVE  sock = "fresh"
    <3>1. Doing({"acceptEx"})
      BY <2>1, AtDoes
    <3> QED
      BY <1>1, <3>1 DEF NoFailure
  <2> QED
    BY <2>1 DEF OpenFails, OpenFailed, AcceptExFails, MayFail, Fatal
<1>5. CASE Accepted(t)
  <2>1. ~At(t, "acceptFailed")
    BY <1>1, AtDoes DEF NoFailure, Stale
  <2>2. AcceptedOk(t)
    BY <1>5, <2>1 DEF Accepted, AcceptedFails, AcceptedStale, MayFail, Fatal
  <2>3. At(t, "accepted") /\ Then(t, <<"onConnect">>) /\ Goes(mode, "accepted", <<"onConnect">>)
    BY Going, <2>2 DEF AcceptedOk
  <2> QED
    BY <2>2, <2>3, OnwardThen DEF AcceptedOk
<1> QED
  BY <1>2, <1>3, <1>4, <1>5 DEF Own, Accept

LEMMA WsOwnKept ==
    ASSUME SlotAssumption, Failures \cap Fatal = {}, IInv, IInv', KeepInv, calls = 0, NEW t \in Threads,
           UNCHANGED <<jobs, mode>>, mode = "ws", W!Own(t)
    PROVE  KeepInv'
<1>1. NoFailure
  BY DEF KeepInv
<1>2. CASE W!OnDisconnected(t)
  <2>1. At(t, "onDisconnected") /\ Then(t, <<"open">>) /\ Goes(mode, "onDisconnected", <<"open">>)
    BY Going, <1>2 DEF W!OnDisconnected, W!At, W!Then, At, Then
  <2> QED
    BY <1>2, <2>1, OnwardThen DEF W!OnDisconnected
<1>3. CASE W!OpenOk(t) \/ W!AcceptExOk(t)
  BY <1>3, OpenKept, AcceptExKept
<1>4. ~W!OpenFails(t) /\ ~W!AcceptExFails(t) /\ ~W!AddressFails(t)
  <2>1. ASSUME W!At(t, "acceptEx")
        PROVE  sock = "fresh"
    <3>1. Doing({"acceptEx"})
      BY <2>1, AtDoes DEF W!At, At
    <3> QED
      BY <1>1, <3>1 DEF NoFailure
  <2> QED
    BY <2>1 DEF W!OpenFails, W!OpenFailed, W!AcceptExFails, W!AddressFails, W!MayFail, Fatal
<1>5. CASE W!Addressed(t)
  <2>1. PICK x \in {"accepted", "acceptFailed"} : At(t, x)
    BY <1>5 DEF W!Addressed, W!At, At
  <2>2. Then(t, <<"onConnectWs", "handshake">>) /\ Goes(mode, x, <<"onConnectWs", "handshake">>)
    BY Going, <1>5, <2>1 DEF W!Addressed, W!Then, Then
  <2> QED
    BY <1>5, <2>1, <2>2, OnwardThen DEF W!Addressed
<1>6. CASE W!OnConnectWs(t)
  <2>1. At(t, "onConnectWs") /\ Then(t, <<"initialize">>) /\ Goes(mode, "onConnectWs", <<"initialize">>)
    BY Going, <1>6 DEF W!OnConnectWs, W!At, W!Then, At, Then
  <2> QED
    BY <1>6, <2>1, OnwardThen DEF W!OnConnectWs
<1>7. CASE W!HandshakeOk(t)
  <2>1. At(t, "handshake") /\ Then(t, <<"send", "ping">>) /\ Goes(mode, "handshake", <<"send", "ping">>)
    BY Going, <1>7 DEF W!HandshakeOk, W!At, W!Then, At, Then
  <2> QED
    BY <1>7, <2>1, OnwardThen DEF W!HandshakeOk
<1>8. CASE W!HandshakeFails(t)
  <2>1. At(t, "handshake") /\ Then(t, <<"disconnect">>) /\ Goes(mode, "handshake", <<"disconnect">>)
    BY Going, <1>8 DEF W!HandshakeFails, W!At, W!Then, At, Then
  <2> QED
    BY <1>8, <2>1, OnwardThen DEF W!HandshakeFails
<1>9. CASE W!Ping(t)
  <2>1. At(t, "ping") /\ Then(t, <<"send">>) /\ Goes(mode, "ping", <<"send">>)
    BY Going, <1>9 DEF W!Ping, W!At, W!Then, At, Then
  <2> QED
    BY <1>9, <2>1, OnwardThen DEF W!Ping
<1> QED
  BY <1>2, <1>3, <1>4, <1>5, <1>6, <1>7, <1>8, <1>9 DEF W!Own, W!Accept, W!Accepted

\* The steps of SessionCore.
LEMMA AlikeKept ==
    ASSUME SlotAssumption, Failures \cap Fatal = {}, IInv, IInv', KeepInv, calls = 0, NEW t \in Threads,
           UNCHANGED <<jobs, mode>>, Alike(t)
    PROVE  KeepInv'
<1>1. ~InitializeFails(t) /\ ~AddSessionFails(t)
  <2>1. At(t, "addSession") => ~listed /\ sock # "none"
    BY WhileOpening DEF Opening
  <2> QED
    BY <2>1 DEF InitializeFails, AddSessionFails, MayFail, Fatal
<1>2. CASE Release(t)
  BY <1>2, EndingKept
<1>3. CASE DelSession(t) \/ Close(t)
  BY <1>3, DelSessionKept, CloseKept
<1>4. CASE \/ OnConnect(t) \/ InitializeOk(t) \/ OnConnected(t)
           \/ Message(t) \/ Recv(t) \/ WsaRecvOk(t) \/ WsaRecvFails(t)
  BY <1>4, HandlersKept
<1>5. CASE Sending(t) \/ Disconnecting(t)
  BY <1>5, SendingKept, DisconnectingKept
<1> QED
  BY <1>1, <1>2, <1>3, <1>4, <1>5 DEF Alike

(***************************************************************************)
(* The jobs                                                                *)
(***************************************************************************)
LEMMA MakeJobKept ==
    ASSUME SlotAssumption, IInv, IInv', KeepInv, NEW t \in Threads, UNCHANGED <<jobs, mode>>, mode = "jobs", J!MakeJob(t)
    PROVE  KeepInv'
<1>0. refs \in Nat /\ refs + 1 # 0
  BY KeptType
<1>1. PICK x \in {"makeAccept", "makeStale", "makeRecv"} : At(t, x) /\ Then(t, <<J!Making[x]>>)
  BY DEF J!MakeJob, J!Making, J!Then, Then, At
<1>2. x # "makeStale"
  <2>1. ~Doing(Stale)
    BY DEF KeepInv, NoFailure
  <2> QED
    BY <1>1, <2>1, AtDoes DEF Stale
<1>3. CASE x = "makeAccept"
  <2>1. Then(t, <<"addAccept">>) /\ Goes(mode, x, <<"addAccept">>)
    BY Going, <1>1, <1>3 DEF J!Making
  <2> QED
    BY <1>0, <1>1, <2>1, OnwardThen DEF J!MakeJob, J!Reference
<1>4. CASE x = "makeRecv"
  <2>1. Then(t, <<"addRecv">>) /\ Goes(mode, x, <<"addRecv">>)
    BY Going, <1>1, <1>4 DEF J!Making
  <2> QED
    BY <1>0, <1>1, <2>1, OnwardThen DEF J!MakeJob, J!Reference
<1> QED
  BY <1>2, <1>3, <1>4

\* A job is added at the end of those that wait.
LEMMA AppendQueues ==
    ASSUME NEW j, NEW D, Waiting \in Seq(D), j \in D, Waiting' = Append(Waiting, j)
    PROVE  Queues({}, {j})
<1>1. /\ Len(Waiting) \in Nat /\ Len(Waiting') = Len(Waiting) + 1 /\ Waiting'[Len(Waiting) + 1] = j
      /\ \A i \in 1..Len(Waiting) : Waiting'[i] = Waiting[i]
  OBVIOUS
<1>2. \A i \in 1..Len(Waiting) : i \in 1..Len(Waiting')
  BY <1>1
<1>3. \A i \in 1..Len(Waiting') : i \in 1..Len(Waiting) \/ i = Len(Waiting) + 1
  BY <1>1
<1>4. Len(Waiting) + 1 \in 1..Len(Waiting')
  BY <1>1
<1> SUFFICES ASSUME NEW P
             PROVE  /\ Awaits(P) => Awaits(P)'
                    /\ Awaits(P)' => Awaits(P) \/ P \cap {j} # {}
                    /\ P \cap {j} # {} => Awaits(P)'
  BY DEF Queues
<1>5. Awaits(P) => Awaits(P)'
  BY <1>1, <1>2 DEF Awaits
<1>6. Awaits(P)' => Awaits(P) \/ j \in P
  BY <1>1, <1>3 DEF Awaits
<1>7. j \in P => Awaits(P)'
  BY <1>1, <1>4 DEF Awaits
<1> QED
  BY <1>5, <1>6, <1>7

\* The job at the front is begun.
LEMMA TailQueues ==
    ASSUME NEW D, Waiting \in Seq(D), Waiting # <<>>, Waiting' = Tail(Waiting)
    PROVE  Queues({Head(Waiting)}, {}) /\ \A P : Head(Waiting) \in P => Awaits(P)
<1>1. /\ Len(Waiting) \in Nat /\ Len(Waiting') = Len(Waiting) - 1 /\ Head(Waiting) = Waiting[1] /\ 1 \in 1..Len(Waiting)
      /\ \A i \in 1..Len(Waiting') : Waiting'[i] = Waiting[i+1]
  BY TailProperties
<1>2. \A i \in 1..Len(Waiting') : i + 1 \in 1..Len(Waiting)
  BY <1>1
<1>3. \A i \in 1..Len(Waiting) : i = 1 \/ (i - 1 \in 1..Len(Waiting') /\ (i - 1) + 1 = i)
  BY <1>1
<1>4. ASSUME NEW P, Head(Waiting) \in P
      PROVE  Awaits(P)
  BY <1>1, <1>4 DEF Awaits
<1>5. ASSUME NEW P, P \cap {Head(Waiting)} = {}, Awaits(P)
      PROVE  Awaits(P)'
  <2>1. PICK i \in 1..Len(Waiting) : Waiting[i] \in P
    BY <1>5 DEF Awaits
  <2>2. i # 1
    BY <1>1, <1>5, <2>1
  <2>3. PICK j \in 1..Len(Waiting') : j + 1 = i
    BY <1>3, <2>2
  <2>4. Waiting'[j] \in P
    BY <1>1, <2>1, <2>3
  <2> QED
    BY <2>4 DEF Awaits
<1>6. ASSUME NEW P, Awaits(P)'
      PROVE  Awaits(P)
  <2>1. PICK i \in 1..Len(Waiting') : Waiting'[i] \in P
    BY <1>6 DEF Awaits
  <2>2. Waiting[i+1] \in P
    BY <1>1, <2>1
  <2> QED
    BY <1>2, <2>2 DEF Awaits
<1> QED
  BY <1>4, <1>5, <1>6 DEF Queues

LEMMA AddIoJobKept ==
    ASSUME SlotAssumption, IInv, IInv', KeepInv, NEW t \in Threads, mode' = mode, mode = "jobs", J!AddIoJob(t)
    PROVE  KeepInv'
<1>1. PICK h, j : <<h, j>> \in Added /\ At(t, h) /\ jobs' = Append(jobs, j) /\ Then(t, <<>>)
                  /\ UNCHANGED <<sock, refs, io, listed>>
  <2>1. /\ stack[t] # <<>> /\ Head(stack[t]) \in DOMAIN J!Adds
        /\ jobs' = Append(jobs, J!Adds[Head(stack[t])])
        /\ Then(t, <<>>) /\ UNCHANGED <<sock, refs, io, listed>>
    BY DEF J!AddIoJob, J!Then, Then
  <2>2. <<Head(stack[t]), J!Adds[Head(stack[t])]>> \in Added
    BY <2>1 DEF J!Adds, Added
  <2> QED
    BY <2>1, <2>2 DEF At
<1>2. h # "addStale"
  <2>1. ~Doing(Stale)
    BY DEF KeepInv, NoFailure
  <2> QED
    BY <1>1, <2>1, AtDoes DEF Stale
<1>3. <<h, j>> \in {<<"addAccept", "accepted">>, <<"addRecv", "message">>, <<"addDisconnect", "delSession">>}
  BY <1>1, <1>2 DEF Added
<1>4. h \in {"addAccept", "addRecv", "addDisconnect"} /\ j \in JobKinds /\ j # "acceptFailed"
      /\ (h = "addAccept" => j = "accepted") /\ (h = "addDisconnect" => j = "delSession")
  BY <1>3 DEF JobKinds
<1>5. Turns({h}, {})
  BY <1>1, DoneTurns
<1>6. QueueInv /\ Waiting \in Seq(JobKinds)
  BY WaitingType DEF IInv
<1>7. Waiting' = Append(Waiting, j)
  <2>1. Doing({"pop"})' <=> Doing({"pop"})
    <3>1. {"pop"} \cap {h} = {}
      BY <1>4
    <3> QED
      BY <1>5, <3>1, ClassesTyped DEF Turns
  <2>2. Left({"pop"})' = 0 <=> Left({"pop"}) = 0
    <3>1. stack \in [Threads -> Seq(Steps)] /\ stack' \in [Threads -> Seq(Steps)]
      BY DEF IInv, StackInv
    <3> QED
      BY <2>1, <3>1, LeftDoing
  <2>3. jobs \in Seq(JobKinds) /\ (Left({"pop"}) # 0 => jobs # <<>>)
    BY <1>6 DEF QueueInv
  <2>4. jobs # <<>> => Tail(Append(jobs, j)) = Append(Tail(jobs), j)
    BY <1>4, <2>3
  <2> QED
    BY <1>1, <2>2, <2>3, <2>4 DEF Waiting
<1>8. Queues({}, {j})
  BY <1>4, <1>6, <1>7, AppendQueues
<1>9. Leads({h}, {}, {}, {j})
  <2>1. listed' \/ Count("accept")' # 0 \/ {j} \cap Arrivals # {}
          \/ (~listed /\ Count("accept") = 0 /\ {h} \cap Fresh = {})
    <3>1. Count("accept")' = Count("accept")
      BY <1>1 DEF Count
    <3> QED
      BY <1>1, <1>4, <3>1 DEF Fresh, Opening, After, Arrivals
  <2>2. ~listed' \/ refs' # 0 \/ "delSession" \in {j} \/ (listed /\ refs = 0 /\ {h} \cap Dropping = {})
    <3>1. refs \in Nat
      BY KeptType
    <3> QED
      BY <1>1, <1>4, <3>1 DEF Dropping
  <2>3. mode # "ws" => io'["accept"].zero = 0
    BY <1>1 DEF KeepInv, NoFailure
  <2>4. "open" \notin {h} /\ "acceptFailed" \notin {j}
    BY <1>4
  <2> QED
    BY <1>1, <2>1, <2>2, <2>3, <2>4 DEF Leads
<1> QED
  BY <1>5, <1>8, <1>9, LeadKeeps

\* Update begins, and ends.
LEMMA UpdateKept ==
    ASSUME SlotAssumption, IInv, IInv', KeepInv, NEW t \in Threads, UNCHANGED <<jobs, mode>>, J!Update(t) \/ J!UpdateEnds(t)
    PROVE  KeepInv'
<1>1. CASE J!Update(t)
  <2>1. stack[t] = <<>> /\ stack' = [stack EXCEPT ![t] = <<"update">>] /\ UNCHANGED <<sock, refs, io, listed>>
    BY <1>1 DEF J!Update
  <2>2. <<"update">> \in Seq(Steps) /\ Elems(<<"update">>) = {"update"} /\ <<"update">> \o stack[t] = <<"update">>
    BY <2>1, AlsoNamed, Few, FewTyped
  <2>3. Turns({}, Elems(<<"update">>))
    BY <2>1, <2>2, StackTyped, BeginTurns
  <2>4. Turns({}, {"update"})
    BY <2>2, <2>3
  <2>5. {} \subseteq {"update", "recv", "wsaRecv"} /\ Onward(mode, "update", {"update"})
    BY AlsoNamed DEF Onward, Fresh, Opening, After, Dropping, Stale
  <2> QED
    BY <2>1, <2>4, <2>5, OnwardKeeps
<1>2. CASE J!UpdateEnds(t)
  <2>1. At(t, "update") /\ Then(t, <<>>) /\ UNCHANGED <<sock, refs, io, listed>>
    BY <1>2 DEF J!UpdateEnds, J!At, J!Then, At, Then
  <2>2. Turns({"update"}, {})
    BY <2>1, DoneTurns
  <2>3. {"update"} \subseteq {"update", "recv", "wsaRecv"} /\ Onward(mode, "update", {})
    BY DEF Onward, Fresh, Opening, After, Dropping, Stale
  <2> QED
    BY <2>1, <2>2, <2>3, OnwardKeeps
<1> QED
  BY <1>1, <1>2

LEMMA ExcuteKept ==
    ASSUME SlotAssumption, IInv, IInv', KeepInv, NEW t \in Threads, UNCHANGED <<jobs, mode>>, mode = "jobs", J!Excute(t)
    PROVE  KeepInv'
<1>1. /\ At(t, "update") /\ jobs # <<>> /\ UNCHANGED <<sock, refs, io, listed>>
      /\ stack' = [stack EXCEPT ![t] = <<Head(jobs)>> \o (IF Head(jobs) = "delSession" THEN <<>> ELSE <<"release">>)
                                           \o <<"pop">> \o @]
  BY DEF J!Excute, J!At, At
<1>2. jobs \in Seq(JobKinds)
  BY DEF IInv, QueueInv
<1>3. PICK j \in JobKinds : j = Head(jobs)
  BY <1>1, <1>2
<1>4. stack[t] \in Seq(Steps) /\ stack \in [Threads -> Seq(Steps)]
  BY StackTyped
<1>5. j \in Steps /\ "release" \in Steps /\ "pop" \in Steps
  BY DEF JobKinds, Steps, Handling, Calls, Opening, Others
<1>6. PICK steps \in Seq(Steps) : /\ stack' = [stack EXCEPT ![t] = steps \o stack[t]]
                                  /\ Elems(steps) \in {{j, "pop"}, {j, "release", "pop"}}
  <2>1. CASE j = "delSession"
    <3>1. <<j>> \o <<>> \o <<"pop">> \o stack[t] = <<j, "pop">> \o stack[t]
      BY <1>4, <1>5
    <3>2. stack' = [stack EXCEPT ![t] = <<j, "pop">> \o stack[t]]
      BY <1>1, <1>3, <2>1, <3>1
    <3>3. <<j, "pop">> \in Seq(Steps) /\ Elems(<<j, "pop">>) = {j, "pop"}
      BY <1>5, Few, FewTyped
    <3> QED
      BY <3>2, <3>3
  <2>2. CASE j # "delSession"
    <3>1. <<j>> \o <<"release">> \o <<"pop">> \o stack[t] = <<j, "release", "pop">> \o stack[t]
      BY <1>4, <1>5
    <3>2. stack' = [stack EXCEPT ![t] = <<j, "release", "pop">> \o stack[t]]
      BY <1>1, <1>3, <2>2, <3>1
    <3>3. <<j, "release", "pop">> \in Seq(Steps) /\ Elems(<<j, "release", "pop">>) = {j, "release", "pop"}
      BY <1>5, Few, FewTyped
    <3> QED
      BY <3>2, <3>3
  <2> QED
    BY <2>1, <2>2
<1>7. Turns({}, Elems(steps))
  BY <1>4, <1>6, BeginTurns
<1>8. Waiting = jobs /\ Waiting' = Tail(jobs)
  <2>1. Left({"pop"}) = 0
    BY <1>1, UpdateOnly
  <2>2. Left({"pop"})' # 0
    <3>1. {"pop"} \cap Elems(steps) # {}
      BY <1>6
    <3>2. Doing({"pop"})'
      BY <1>7, <3>1, ClassesTyped DEF Turns
    <3>3. stack' \in [Threads -> Seq(Steps)]
      BY DEF IInv, StackInv
    <3> QED
      BY <3>2, <3>3, LeftDoing
  <2> QED
    BY <1>1, <2>1, <2>2 DEF Waiting
<1>9. Queues({j}, {}) /\ \A P : j \in P => Awaits(P)
  BY <1>1, <1>2, <1>3, <1>8, TailQueues
<1>10. j # "acceptFailed"
  <2>1. ~Awaits({"acceptFailed"})
    BY DEF KeepInv, NoFailure
  <2> QED
    BY <1>9, <2>1
<1>11. j \in Elems(steps) /\ Elems(steps) \subseteq {j, "release", "pop"} /\ j \in {"accepted", "message", "delSession"}
  BY <1>6, <1>10 DEF JobKinds
<1>12. Leads({}, Elems(steps), {j}, {})
  <2>1. listed' \/ Count("accept")' # 0 \/ Elems(steps) \cap Fresh # {}
          \/ (~listed /\ Count("accept") = 0 /\ {} \cap Fresh = {} /\ {j} \cap Arrivals = {})
    <3>1. Count("accept")' = Count("accept")
      BY <1>1 DEF Count
    <3>2. "accepted" \in Fresh /\ "message" \notin Arrivals /\ "delSession" \notin Arrivals
      BY DEF Fresh, Opening, Arrivals
    <3>3. CASE j = "accepted"
      BY <1>11, <3>2, <3>3
    <3>4. CASE j # "accepted"
      <4>1. {j} \cap Arrivals = {}
        BY <1>11, <3>2, <3>4
      <4> QED
        BY <1>1, <3>1, <4>1
    <3> QED
      BY <3>3, <3>4
  <2>2. ~listed' \/ refs' # 0 \/ Elems(steps) \cap Dropping # {} \/ (listed /\ refs = 0 /\ "delSession" \notin {j})
    <3>1. CASE j = "delSession"
      BY <1>11, <3>1 DEF Dropping
    <3>2. CASE j # "delSession"
      BY <1>1, <3>2
    <3> QED
      BY <3>1, <3>2
  <2>3. mode # "ws" => io'["accept"].zero = 0 /\ Elems(steps) \cap Stale = {}
    BY <1>1, <1>11 DEF KeepInv, NoFailure, Stale
  <2>4. "acceptEx" \notin Elems(steps)
    BY <1>11
  <2> QED
    BY <1>1, <2>1, <2>2, <2>3, <2>4 DEF Leads
<1> QED
  BY <1>7, <1>9, <1>12, LeadKeeps

LEMMA PopKept ==
    ASSUME SlotAssumption, IInv, IInv', KeepInv, NEW t \in Threads, mode' = mode, J!Pop(t)
    PROVE  KeepInv'
<1>1. At(t, "pop") /\ jobs' = Tail(jobs) /\ Then(t, <<>>) /\ UNCHANGED <<sock, refs, io, listed, calls>>
  BY DEF J!Pop, J!At, J!Then, At, Then
<1>2. StackInv /\ QueueInv /\ StackInv' /\ stack \in [Threads -> Seq(Steps)]
  BY DEF IInv, StackInv
<1>3. Turns({"pop"}, {})
  BY <1>1, DoneTurns
<1>4. Waiting' = Waiting
  <2>1. Moves(t, "pop", "bottom", "bottom", "bottom", "bottom") /\ "bottom" \in Opt(Steps)
    BY <1>1, <1>2, ThenNone DEF Opt
  <2>2. Left({"pop"}) \in Nat /\ Left({"pop"})' = Left({"pop"}) + Net({"pop"}, "pop", "bottom", "bottom", "bottom", "bottom")
    BY <1>2, <2>1, LeftStep
  <2>3. Net({"pop"}, "pop", "bottom", "bottom", "bottom", "bottom") = -1
    BY DEF Net, In
  <2>4. Left({"pop"}) >= 1 /\ Left({"pop"}) <= 1
    BY <1>1, <1>2, LeftAt DEF QueueInv
  <2>5. Left({"pop"}) # 0 /\ Left({"pop"})' = 0
    BY <2>2, <2>3, <2>4
  <2> QED
    BY <1>1, <2>5 DEF Waiting
<1>5. Queues({}, {})
  BY <1>4 DEF Queues, Awaits
<1>6. Leads({"pop"}, {}, {}, {})
  <2>1. Count("accept")' = Count("accept") /\ {"pop"} \cap Fresh = {} /\ {"pop"} \cap Dropping = {}
    BY <1>1 DEF Count, Fresh, Opening, After, Dropping
  <2>2. mode # "ws" => io'["accept"].zero = 0
    BY <1>1 DEF KeepInv, NoFailure
  <2> QED
    BY <1>1, <2>1, <2>2 DEF Leads
<1> QED
  BY <1>3, <1>5, <1>6, LeadKeeps

(***************************************************************************)
(* Completions, the kernel and the peer                                    *)
(***************************************************************************)
LEMMA TakenElems ==
    ASSUME IInv, NEW k, NEW s, Handles(k, s)
    PROVE  /\ s \in Seq(Steps) /\ Elems(s) \subseteq Steps
           /\ "pop" \notin Elems(s) /\ "acceptEx" \notin Elems(s)
           /\ k = "accept" => Elems(s) \cap Fresh # {}
           /\ k # "accept" => Elems(s) \cap Stale = {}
<1>0. mode \in {"acceptor", "jobs", "ws"}
  BY DEF IInv, StackInv
<1>1. ASSUME NEW N, N = Elems(s), NEW a \in {"accepted", "acceptFailed", "makeAccept", "makeStale", "sended", "disconnect", "message", "makeRecv"},
             a \in N, N \subseteq {a, "recv", "wsaRecv", "release"},
             k = "accept" <=> a \in {"accepted", "acceptFailed", "makeAccept", "makeStale"}
      PROVE  /\ "pop" \notin N /\ "acceptEx" \notin N
             /\ k = "accept" => N \cap Fresh # {}
             /\ k # "accept" => N \cap Stale = {}
  BY <1>1 DEF Fresh, Opening, Stale
<1>2. ASSUME NEW a \in Steps, NEW b \in Steps, s = <<a, b>>, <<k, a, b, "bottom">> \in Takings(mode)
      PROVE  /\ s \in Seq(Steps) /\ Elems(s) = {a, b}
             /\ a \in {"accepted", "acceptFailed", "makeAccept", "makeStale", "sended", "disconnect"} /\ b = "release"
             /\ k = "accept" <=> a \in {"accepted", "acceptFailed", "makeAccept", "makeStale"}
  <2>1. s \in Seq(Steps) /\ Elems(s) = {a, b}
    BY <1>2, Few, FewTyped
  <2>2. <<k, a, b>> \in {<<"recv", "disconnect", "release">>, <<"send", "sended", "release">>,
                         <<"accept", "accepted", "release">>, <<"accept", "acceptFailed", "release">>,
                         <<"accept", "makeAccept", "release">>, <<"accept", "makeStale", "release">>}
    BY <1>0, <1>2 DEF Takings
  <2> QED
    BY <2>1, <2>2
<1>3. ASSUME NEW a \in Steps, NEW b \in Steps, NEW c \in Steps, s = <<a, b, c>>, <<k, a, b, c>> \in Takings(mode)
      PROVE  /\ s \in Seq(Steps) /\ Elems(s) = {a, b, c}
             /\ a \in {"message", "makeRecv"} /\ b \in {"recv", "wsaRecv"} /\ c = "release" /\ k = "recv"
  <2>1. s \in Seq(Steps) /\ Elems(s) = {a, b, c}
    BY <1>3, Few, FewTyped
  <2>2. "bottom" \notin Steps
    BY DEF Steps, Handling, Calls, Opening, Others
  <2>3. <<k, a, b, c>> \in {<<"recv", "message", "recv", "release">>, <<"recv", "message", "wsaRecv", "release">>,
                            <<"recv", "makeRecv", "recv", "release">>}
    BY <1>0, <1>3, <2>2 DEF Takings
  <2> QED
    BY <2>1, <2>3
<1>4. \/ \E a, b \in Steps : s = <<a, b>> /\ <<k, a, b, "bottom">> \in Takings(mode)
      \/ \E a, b, c \in Steps : s = <<a, b, c>> /\ <<k, a, b, c>> \in Takings(mode)
  BY DEF Handles
<1>5. CASE \E a, b \in Steps : s = <<a, b>> /\ <<k, a, b, "bottom">> \in Takings(mode)
  <2>1. PICK a \in Steps, b \in Steps : s = <<a, b>> /\ <<k, a, b, "bottom">> \in Takings(mode)
    BY <1>5
  <2>2. /\ s \in Seq(Steps) /\ Elems(s) = {a, b}
        /\ a \in {"accepted", "acceptFailed", "makeAccept", "makeStale", "sended", "disconnect"} /\ b = "release"
        /\ k = "accept" <=> a \in {"accepted", "acceptFailed", "makeAccept", "makeStale"}
    BY <1>2, <2>1
  <2> QED
    BY <1>1, <2>2
<1>6. CASE \E a, b, c \in Steps : s = <<a, b, c>> /\ <<k, a, b, c>> \in Takings(mode)
  <2>1. PICK a \in Steps, b \in Steps, c \in Steps : s = <<a, b, c>> /\ <<k, a, b, c>> \in Takings(mode)
    BY <1>6
  <2>2. /\ s \in Seq(Steps) /\ Elems(s) = {a, b, c}
        /\ a \in {"message", "makeRecv"} /\ b \in {"recv", "wsaRecv"} /\ c = "release" /\ k = "recv"
    BY <1>3, <2>1
  <2> QED
    BY <1>1, <2>2
<1> QED
  BY <1>4, <1>5, <1>6

LEMMA DequeueKept ==
    ASSUME SlotAssumption, IInv, IInv', KeepInv, Dequeue, UNCHANGED <<used, jobs, mode>>
    PROVE  KeepInv'
<1>1. PICK w \in Workers, k \in Kinds, r \in {"done", "zero"} : \E s : Dequeued(w, k, r, s)
  BY SomeDequeued
<1>2. PICK s : Dequeued(w, k, r, s)
  BY <1>1
<1>3. w \in Threads /\ stack \in [Threads -> Seq(Steps)]
  BY StackTyped DEF Threads
<1>4. Handles(k, s) /\ (k = "accept" /\ r = "done" => s \in {<<"accepted", "release">>, <<"makeAccept", "release">>})
  BY <1>2, DequeuedSteps
<1>5. /\ stack[w] = <<>> /\ io[k][r] > 0 /\ io' = [io EXCEPT ![k][r] = @ - 1]
      /\ stack' = [stack EXCEPT ![w] = s] /\ UNCHANGED <<sock, refs, listed>>
  BY <1>2 DEF Dequeued
<1>6. /\ s \in Seq(Steps) /\ Elems(s) \subseteq Steps
      /\ "pop" \notin Elems(s) /\ "acceptEx" \notin Elems(s)
      /\ k = "accept" => Elems(s) \cap Fresh # {}
      /\ k # "accept" => Elems(s) \cap Stale = {}
  BY <1>4, TakenElems
<1>7. Turns({}, Elems(s))
  <2>1. stack' = [stack EXCEPT ![w] = s \o stack[w]]
    BY <1>5, <1>6
  <2> QED
    BY <1>3, <1>6, <2>1, BeginTurns
<1>8. Queues({}, {})
  BY <1>6, <1>7, QueueSame
<1>9. io \in [Kinds -> [pending : Nat, done : Nat, zero : Nat]] /\ refs \in Nat
  BY KeptType DEF IInv, TypeInv
<1>10. k # "accept" => io'["accept"] = io["accept"]
  BY <1>5, <1>9 DEF Kinds
<1>11. mode # "ws" => io'["accept"].zero = 0 /\ Elems(s) \cap Stale = {}
  <2>1. ASSUME mode # "ws", k = "accept"
        PROVE  io'["accept"].zero = 0 /\ Elems(s) \cap Stale = {}
    <3>1. io["accept"].zero = 0
      BY <2>1 DEF KeepInv, NoFailure
    <3>2. r = "done"
      BY <1>5, <2>1, <3>1
    <3>3. io'["accept"].zero = 0
      BY <1>5, <1>9, <2>1, <3>1, <3>2
    <3>4. Elems(s) \in {{"accepted", "release"}, {"makeAccept", "release"}}
      BY <1>4, <2>1, <3>2, Few
    <3> QED
      BY <3>3, <3>4 DEF Stale
  <2>2. ASSUME mode # "ws", k # "accept"
        PROVE  io'["accept"].zero = 0 /\ Elems(s) \cap Stale = {}
    BY <1>6, <1>10, <2>2 DEF KeepInv, NoFailure
  <2> QED
    BY <2>1, <2>2
<1>12. Leads({}, Elems(s), {}, {})
  <2>1. listed' \/ Count("accept")' # 0 \/ Elems(s) \cap Fresh # {} \/ (~listed /\ Count("accept") = 0)
    BY <1>5, <1>6, <1>10 DEF Count
  <2> QED
    BY <1>5, <1>6, <1>9, <1>11, <2>1 DEF Leads
<1> QED
  BY <1>7, <1>8, <1>12, LeadKeeps

\* Nobody does anything.
LEMMA RestKept ==
    ASSUME KeepInv, UNCHANGED <<stack, jobs, mode, refs, listed>>,
           Count("accept")' = Count("accept"), sock' = sock \/ (sock' # "none" /\ ~Doing({"acceptEx"})),
           mode # "ws" => io'["accept"].zero = 0
    PROVE  KeepInv'
<1>1. \A P : Doing(P)' <=> Doing(P)
  BY DEF Doing
<1>2. Turns({}, {})
  BY <1>1 DEF Turns
<1>3. \A P : Awaits(P)' <=> Awaits(P)
  <2>1. Left({"pop"})' = Left({"pop"})
    BY DEF Left
  <2>2. Waiting' = Waiting
    BY <2>1 DEF Waiting
  <2> QED
    BY <2>2 DEF Awaits
<1>4. Queues({}, {})
  BY <1>3 DEF Queues
<1>5. ~Doing({"acceptEx"}) => ~Doing({"acceptEx"})'
  BY <1>1
<1>6. (~listed' \/ refs' # 0 \/ (listed /\ refs = 0)) /\ (listed' \/ Count("accept")' # 0 \/ (~listed /\ Count("accept") = 0))
  OBVIOUS
<1>7. Leads({}, {}, {}, {})
  BY <1>5, <1>6 DEF Leads
<1> QED
  BY <1>2, <1>4, <1>7, LeadKeeps

LEMMA KernelKept ==
    ASSUME SlotAssumption, Failures \cap Fatal = {}, IInv, KeepInv, calls = 0, UNCHANGED <<jobs, mode>>,
           PeerSends \/ PeerCloses \/ RecvEnds \/ SendEnds \/ Arrival
    PROVE  KeepInv'
<1>1. io \in IoType /\ NoFailure
  BY DEF IInv, TypeInv, IoType, KeepInv
<1>2. UNCHANGED <<stack, refs, listed>>
  BY DEF PeerSends, PeerCloses, RecvEnds, SendEnds, Arrival, PeerConnects, AcceptReset, W!PeerRequests
<1>3. io["accept"] \in [pending : Nat, done : Nat, zero : Nat]
  BY <1>1 DEF IoType, Kinds
<1>4. CASE PeerSends \/ RecvEnds \/ SendEnds
  <2>1. sock' = sock /\ \E k \in {"recv", "send"}, r \in {"done", "zero"} : io' = Completes(k, r)
    BY <1>4 DEF PeerSends, RecvEnds, SendEnds
  <2>2. io'["accept"] = io["accept"]
    BY <1>1, <2>1 DEF Completes, IoType, Kinds
  <2> QED
    BY <1>1, <1>2, <2>1, <2>2, RestKept DEF Count, NoFailure
<1>5. CASE PeerCloses
  <2>1. io' = io /\ sock = "up" /\ sock' = "down"
    BY <1>5 DEF PeerCloses
  <2>2. ~Doing({"acceptEx"})
    BY <1>1, <2>1 DEF NoFailure
  <2> QED
    BY <1>1, <1>2, <2>1, <2>2, RestKept DEF Count, NoFailure
<1>6. CASE Arrival
  <2>1. /\ io["accept"].pending > 0 /\ sock' \in {"up", "down"}
        /\ \E r \in {"done", "zero"} : io' = Completes("accept", r) /\ (mode # "ws" => r = "done")
    BY <1>6 DEF Arrival, PeerConnects, AcceptReset, MayFail, Fatal, W!PeerRequests, W!Completes, Completes
  <2>2. PICK r \in {"done", "zero"} : io' = Completes("accept", r) /\ (mode # "ws" => r = "done")
    BY <2>1
  <2>3. Count("accept")' = Count("accept")
    BY <1>1, <2>1, <2>2, CompletesCounts DEF Kinds
  <2>4. Left({"acceptEx"}) = 0
    <3>1. TypeInv /\ StackInv /\ QueueInv /\ OpenInv
      BY DEF IInv, QuietInv
    <3>2. Count("accept") >= 1
      BY <1>3, <2>1 DEF Count
    <3>3. Accepts >= 1
      <4>1. Count("accept") \in Nat /\ Left(Opening) \in Nat /\ Occurs({"accepted", "acceptFailed"}, Waiting) \in Nat
        BY <3>1, NumbersType DEF Kinds
      <4> QED
        BY <3>2, <4>1 DEF Accepts
    <3>4. Accepts = 1
      <4>1. Accepts \in Nat
        BY <3>1, NumbersType
      <4> QED
        BY <3>1, <3>3, <4>1 DEF OpenInv
    <3>5. Left(Noisy) = 0
      BY <3>1, <3>4, QuietTraffic DEF OpenInv
    <3>6. {"acceptEx"} \subseteq Noisy
      BY DEF Noisy, Others
    <3> QED
      BY <3>1, <3>5, <3>6, LeftPart
  <2>5. ~Doing({"acceptEx"})
    BY <2>4, StackTyped, LeftDoing
  <2>6. mode # "ws" => io'["accept"].zero = 0
    <3>1. ASSUME mode # "ws"
          PROVE  io'["accept"].zero = 0
      <4>1. io' = Completes("accept", "done") /\ io["accept"].zero = 0
        BY <1>1, <2>2, <3>1 DEF NoFailure
      <4> QED
        BY <1>1, <1>3, <4>1 DEF Completes, IoType, Kinds
    <3> QED
      BY <3>1
  <2> QED
    BY <1>2, <2>1, <2>3, <2>5, <2>6, RestKept
<1> QED
  BY <1>4, <1>5, <1>6

(***************************************************************************)
(* All steps                                                               *)
(***************************************************************************)
\* Only application threads call.
LEMMA AlikeCalls ==
    ASSUME NEW t \in Threads, Alike(t)
    PROVE  calls' = calls
<1>1. CASE Release(t) \/ DelSession(t) \/ Close(t)
  BY <1>1 DEF Release, DelSession, Close
<1>2. CASE OnConnect(t) \/ InitializeOk(t) \/ InitializeFails(t) \/ AddSessionFails(t) \/ OnConnected(t)
  BY <1>2 DEF OnConnect, InitializeOk, InitializeFails, AddSessionFails, OnConnected
<1>3. CASE Message(t) \/ Recv(t) \/ WsaRecvOk(t) \/ WsaRecvFails(t)
  BY <1>3 DEF Message, Recv, WsaRecvOk, WsaRecvFails
<1>4. CASE Sending(t) \/ Disconnecting(t)
  BY <1>4 DEF Sending, SendIdle, SendBehind, WsaSendOk, WsaSendFails, Sended,
              Disconnecting, Disconnect, IsValid, Hold, Cancel
<1> QED
  BY <1>1, <1>2, <1>3, <1>4 DEF Alike

LEMMA OwnCalls ==
    ASSUME NEW t \in Threads,
           \/ Own(t) \/ W!Own(t)
           \/ Clear(t) \/ J!Clear(t)
           \/ AddSessionOk(t) \/ W!AddSessionOk(t)
           \/ BadMessage(t) \/ W!BadMessage(t) \/ J!BadBytes(t)
    PROVE  calls' = calls
<1>1. CASE Own(t)
  BY <1>1 DEF Own, OnDisconnected, Accept, OpenOk, OpenFails, AcceptExOk, AcceptExFails,
              Accepted, AcceptedOk, AcceptedFails, AcceptedStale
<1>2. CASE W!Own(t)
  BY <1>2 DEF W!Own, W!OnDisconnected, W!Accept, W!OpenOk, W!OpenFails, W!AcceptExOk, W!AcceptExFails,
              W!Accepted, W!Addressed, W!AddressFails, W!OnConnectWs, W!HandshakeOk, W!HandshakeFails, W!Ping
<1>3. CASE \/ Clear(t) \/ J!Clear(t) \/ AddSessionOk(t) \/ W!AddSessionOk(t)
           \/ BadMessage(t) \/ W!BadMessage(t) \/ J!BadBytes(t)
  BY <1>3 DEF Clear, J!Clear, AddSessionOk, W!AddSessionOk, BadMessage, W!BadMessage, J!BadBytes
<1> QED
  BY <1>1, <1>2, <1>3

LEMMA JobCalls ==
    ASSUME NEW t \in Threads,
           J!MakeJob(t) \/ J!AddIoJob(t) \/ J!Update(t) \/ J!Excute(t) \/ J!Pop(t) \/ J!UpdateEnds(t)
    PROVE  calls' = calls
  BY DEF J!MakeJob, J!AddIoJob, J!Update, J!Excute, J!Pop, J!UpdateEnds

\* A step of a thread, in each kind of server.
LEMMA StepKept ==
    ASSUME SlotAssumption, Failures \cap Fatal = {}, IInv, IInv', calls = 0 => KeepInv, NEW t \in Threads, StepOf(t),
           calls' = 0
    PROVE  KeepInv'
<1>1. mode' = mode
  BY DEF StepOf
<1>2. CASE mode = "acceptor" /\ Step(t) /\ jobs' = jobs
  <2>1. Own(t) \/ Alike(t) \/ Clear(t) \/ AddSessionOk(t) \/ BadMessage(t)
    BY <1>2, CoreAlike DEF Step
  <2>2. calls = 0
    BY <2>1, OwnCalls, AlikeCalls
  <2>3. CASE Clear(t)
    BY <1>1, <1>2, <2>2, <2>3, EndingKept
  <2> QED
    BY <1>1, <1>2, <2>1, <2>2, <2>3, OwnKept, AlikeKept, AddSessionKept, BadKept
<1>3. CASE mode = "jobs" /\ J!JobStep(t)
  <2>1. CASE J!MakeJob(t)
    <3>1. jobs' = jobs /\ calls = 0
      BY <2>1, JobCalls DEF J!MakeJob
    <3> QED
      BY <1>1, <1>3, <2>1, <3>1, MakeJobKept
  <2>2. CASE J!BadBytes(t)
    <3>1. jobs' = jobs /\ calls = 0
      BY <2>2, OwnCalls DEF J!BadBytes
    <3> QED
      BY <1>1, <1>3, <2>2, <3>1, BadKept
  <2>3. CASE J!AddIoJob(t)
    BY <1>1, <1>3, <2>3, JobCalls, AddIoJobKept
  <2>4. CASE J!Pop(t)
    BY <1>1, <1>3, <2>4, JobCalls, PopKept
  <2>5. CASE J!Update(t) \/ J!Excute(t) \/ J!UpdateEnds(t)
    <3>1. jobs' = jobs /\ calls = 0
      BY <2>5, JobCalls DEF J!Update, J!Excute, J!UpdateEnds
    <3> QED
      BY <1>1, <1>3, <2>5, <3>1, UpdateKept, ExcuteKept
  <2>6. CASE J!Step(t) /\ jobs' = jobs
    <3>1. Own(t) \/ Alike(t) \/ J!Clear(t) \/ AddSessionOk(t) \/ BadMessage(t)
      BY <2>6, JobsOwn, JobsAlike DEF J!Step
    <3>2. calls = 0
      BY <3>1, OwnCalls, AlikeCalls
    <3>3. CASE J!Clear(t)
      BY <1>1, <1>3, <2>6, <3>2, <3>3, EndingKept
    <3> QED
      BY <1>1, <1>3, <2>6, <3>1, <3>2, <3>3, OwnKept, AlikeKept, AddSessionKept, BadKept
  <2> QED
    BY <1>3, <2>1, <2>2, <2>3, <2>4, <2>5, <2>6 DEF J!JobStep
<1>4. CASE mode = "ws" /\ W!Step(t) /\ jobs' = jobs
  <2>1. W!Own(t) \/ Alike(t) \/ Clear(t) \/ W!AddSessionOk(t) \/ W!BadMessage(t)
    BY <1>4, WsAlike DEF W!Step
  <2>2. calls = 0
    BY <2>1, OwnCalls, AlikeCalls
  <2>3. CASE Clear(t)
    BY <1>1, <1>4, <2>2, <2>3, EndingKept
  <2> QED
    BY <1>1, <1>4, <2>1, <2>2, <2>3, WsOwnKept, AlikeKept, AddSessionKept, BadKept
<1> QED
  BY <1>2, <1>3, <1>4 DEF StepOf

LEMMA NextKept ==
    ASSUME SlotAssumption, Failures \cap Fatal = {}, IInv, IInv', calls = 0 => KeepInv, [AnyNext]_allVars
    PROVE  (calls = 0 => KeepInv)'
<1> SUFFICES ASSUME calls' = 0
             PROVE  KeepInv'
  OBVIOUS
<1>1. CASE UNCHANGED allVars
  <2>1. UNCHANGED <<sock, io, refs, listed, stack, calls, jobs, mode>>
    BY <1>1 DEF allVars, vars, coreVars
  <2>2. KeepInv /\ Count("accept")' = Count("accept") /\ (mode # "ws" => io'["accept"].zero = 0)
    BY <2>1 DEF Count, KeepInv, NoFailure
  <2> QED
    BY <2>1, <2>2, RestKept
<1>2. CASE \E t \in Threads : StepOf(t)
  BY <1>2, StepKept
<1>3. CASE Arrival /\ UNCHANGED <<jobs, mode>>
  <2>1. calls = 0
    BY <1>3 DEF Arrival, PeerConnects, AcceptReset, W!PeerRequests
  <2> QED
    BY <1>3, <2>1, KernelKept
<1>4. CASE (PeerSends \/ PeerCloses \/ RecvEnds \/ SendEnds) /\ UNCHANGED <<jobs, mode>>
  <2>1. calls = 0
    BY <1>4 DEF PeerSends, PeerCloses, RecvEnds, SendEnds
  <2> QED
    BY <1>4, <2>1, KernelKept
<1>5. CASE Dequeue /\ UNCHANGED <<used, jobs, mode>>
  <2>1. calls = 0
    BY <1>5, SomeDequeued DEF Dequeued
  <2> QED
    BY <1>5, <2>1, DequeueKept
<1>6. ~Calling
  <2>1. calls \in Nat
    BY SessionAssumption DEF IInv, TypeInv, SessionAssumption
  <2> QED
    BY <2>1 DEF Calling, AppCall
<1> QED
  BY <1>1, <1>2, <1>3, <1>4, <1>5, <1>6 DEF AnyNext

\* After Listen the AcceptEx is outstanding.
LEMMA InitKept ==
    ASSUME SlotAssumption, AnyInit
    PROVE  KeepInv
<1>1. /\ sock = "fresh" /\ io = [[k \in Kinds |-> Idle] EXCEPT !["accept"].pending = 1]
      /\ listed = FALSE /\ stack = [t \in Threads |-> <<>>] /\ jobs = <<>>
  BY DEF AnyInit, Init
<1>2. Count("accept") # 0 /\ io["accept"].zero = 0
  <2>1. io["accept"] = [pending |-> 1, done |-> 0, zero |-> 0]
    BY <1>1 DEF Kinds, Idle
  <2> QED
    BY <2>1 DEF Count
<1>3. \A P : ~Doing(P)
  <2>1. \A u \in Threads : Len(stack[u]) = 0
    BY <1>1
  <2> QED
    BY <2>1 DEF Doing
<1>4. ~Awaits({"acceptFailed"})
  <2>1. Left({"pop"}) = 0
    <3>1. \A u \in Threads : Occurs({"pop"}, stack[u]) = 0
      BY <1>1, OccursNone
    <3>2. stack \in [Threads -> Seq(Steps)]
      BY <1>1
    <3> QED
      BY <3>1, <3>2, Finite, LeftZero
  <2>2. Waiting = <<>>
    BY <1>1, <2>1 DEF Waiting
  <2> QED
    BY <2>2 DEF Awaits
<1> QED
  BY <1>1, <1>2, <1>3, <1>4 DEF KeepInv, LedOn, Held, NoFailure

\* Where nothing is outstanding, queued or being done, the session is neither in use
\* nor on its way to an accept.
LEMMA Forgotten ==
    ASSUME SlotAssumption, IInv, KeepInv, ~SlotKept
    PROVE  FALSE
<1>1. TypeInv /\ StackInv /\ QueueInv /\ CountInv
  BY DEF IInv
<1>2. Count("accept") \in Nat /\ Count("recv") \in Nat /\ Count("send") \in Nat /\ refs \in Nat
  BY <1>1, NumbersType, KeptType DEF Kinds
<1>3. Outstanding = 0 /\ Count("accept") = 0 /\ jobs = <<>> /\ \A u \in Threads : stack[u] = <<>>
  BY <1>2 DEF SlotKept, Outstanding
<1>4. \A P : ~Doing(P)
  <2>1. \A u \in Threads : Len(stack[u]) = 0
    BY <1>3
  <2> QED
    BY <2>1 DEF Doing
<1>5. \A P : Left(P) = 0
  BY <1>4, StackTyped, LeftDoing
<1>6. Waiting = <<>>
  BY <1>3, <1>5 DEF Waiting
<1>7. \A P : ~Awaits(P)
  BY <1>6 DEF Awaits
<1>8. listed /\ refs # 0
  BY <1>3, <1>4, <1>7 DEF KeepInv, LedOn, Held
<1>9. refs + 0 = 0
  <2>1. Occurs(Owning, Waiting) = 0
    BY <1>6, OccursNone
  <2>2. Left({"hold"}) = 0 /\ Left({"release"}) = 0 /\ Left(CarriedSteps) = 0
    BY <1>5
  <2> QED
    BY <1>1, <1>2, <1>3, <2>1, <2>2 DEF CountInv
<1> QED
  BY <1>2, <1>8, <1>9

\* The slot is never forgotten, as long as nothing fails that gives it up: a connection
\* that ended leads to the next AcceptEx (HNetAcceptor.cpp:129-131), and while a session
\* is in use a receive, a job or a thread holds it (RefCount.cpp:18-27).
THEOREM NeverForgotten ==
    ASSUME SlotAssumption, Failures \cap Fatal = {}
    PROVE  Spec => [](NoAppCall => SlotKept)
<1>1. AnyInit => (calls = 0 => KeepInv)
  BY InitKept
<1>2. (calls = 0 => KeepInv) /\ IInv /\ IInv' /\ [AnyNext]_allVars => (calls = 0 => KeepInv)'
  BY NextKept
<1>3. IInv /\ (calls = 0 => KeepInv) => (NoAppCall => SlotKept)
  BY Forgotten DEF NoAppCall
<1>4. Spec => []IInv
  BY Inductive
<1> QED
  BY <1>1, <1>2, <1>3, <1>4, PTL DEF Spec
=============================================================================
