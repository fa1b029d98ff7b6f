---------------------------- MODULE ConnectorProofs ----------------------------
(***************************************************************************)
(* Theorems about Connector: there is one attempt to connect at a time, it *)
(* never meets a session in use, and the chain from a connection to the    *)
(* next one does not break.                                                *)
(***************************************************************************)
EXTENDS Connector, SessionCoreProofs

\* One thread calls Connect, which takes no lock (HNetConnector.cpp:61-75), and the
\* parameters of SessionCore for a connector.
ConnectorsAssumption == /\ IsFiniteSet(Workers) /\ IsFiniteSet(Apps)
                        /\ \A a, b \in Apps : a = b
                        /\ Leave = "stop" /\ Rearm = "recv" /\ Ended = "delSession"

\* No call fails whose failure ends the connection without another attempt.
Lossless == Failures \cap {"initialize", "associate"} = {}

-----------------------------------------------------------------------------
(***************************************************************************)
(* The steps of a connector                                                *)
(***************************************************************************)
\* The steps from the end of a connection to the next one.
Chain == {"onDisconnected", "again", "reopen", "reconnect", "onConnect", "initialize", "addSession"}
Dial == {"open", "connect", "close"}
\* What a thread does while the session is in use.
Using == {"onConnected", "message", "recv", "wsaRecv", "send", "wsaSend", "sended"}
Parting == {"disconnect", "isValid", "cancel", "stop"}
Busy == {"release", "initialize", "addSession"} \cup Using \cup Parting
Steps == Chain \cup Dial \cup Busy \cup {"hold", "clear", "delSession", "arm"}

\* What may lie under a step: under some, the caller's next step always does.
Lying == {"open", "connect", "message"}
Table == [x \in Steps |-> IF x \in Lying THEN Steps ELSE Opt(Steps)]

LEMMA TableSteps ==
  /\ DOMAIN Table = Steps /\ "bottom" \notin Steps /\ Lying \subseteq Steps
  /\ \A x \in Steps : Steps \subseteq Table[x]
  /\ \A x \in Steps \ Lying : Table[x] = Opt(Steps)
  /\ \A x \in Lying : Table[x] = Steps
<1>1. "bottom" \notin Steps
  BY DEF Steps, Chain, Dial, Busy, Using, Parting
<1>2. Lying \subseteq Steps
  BY DEF Steps, Chain, Dial, Busy, Using, Lying
<1> HIDE DEF Steps, Lying
<1> QED
  BY <1>1, <1>2 DEF Table, Opt

LEMMA Named ==
  /\ Chain \subseteq Steps /\ Dial \subseteq Steps /\ Busy \subseteq Steps
  /\ Using \subseteq Busy /\ Parting \subseteq Busy
  /\ "hold" \in Steps /\ "clear" \in Steps /\ "delSession" \in Steps /\ "arm" \in Steps
  /\ "bottom" \notin Chain /\ "bottom" \notin Dial /\ "bottom" \notin Busy
  BY DEF Steps, Chain, Dial, Busy, Using, Parting

-----------------------------------------------------------------------------
(***************************************************************************)
(* The inductive invariant                                                 *)
(***************************************************************************)
\* Connect is on no worker, and nothing is accepted.
TypeInv == /\ io \in IoType /\ io["accept"] = Idle
           /\ refs \in Int /\ gen \in Nat /\ calls \in Nat /\ listed \in BOOLEAN
           /\ stack \in [Threads -> Seq(Steps)]
           /\ \A t \in Threads : Good(Table, stack[t])
           /\ \A w \in Workers : Occurs({"open"}, stack[w]) = 0

\* A connection, or what leads to one, is in one place.
Shown == IF listed THEN 1 ELSE 0
Linking == Count("reconnect") + Left(Chain) + Shown
TokenInv == /\ Linking + Left(Dial) <= 1
            /\ sock = "none" => Linking = 0 /\ Left(Dial) = Left({"open"})

\* While nobody has asked for the end and no Open has failed, it is not lost.
Known == gen > 0 \/ Left({"onConnected"}) > 0
KeepInv == wish = "keep" => reconnect /\ (Known => Linking > 0)

\* What is on a stack while no application thread has called: nothing but the end
\* of Connect, ...
Rests(s) == s = <<>> \/ (Head(s) = "arm" /\ Tail(s) = <<>>)

\* ... what follows the last Release, up to the callback of the next connection,
\* in whose midst the callback OnDisconnected may call Disconnect, ...
On(x, s) == s # <<>> /\ Head(s) = x
Onward(s) == On("again", s) /\ Rests(Tail(s))
Letting(s) == On("release", s) /\ Onward(Tail(s))
Cancelling(s) == On("cancel", s) /\ Letting(Tail(s))
Final == {"open", "connect", "close", "onDisconnected", "onConnect", "reopen", "reconnect",
           "again", "clear", "delSession"}
Nested == {"stop", "disconnect", "isValid", "release", "clear", "delSession"}
Closes(s) == /\ s # <<>>
             /\ \/ Head(s) \in Final /\ Rests(Tail(s))
                \/ Head(s) \in Nested /\ Onward(Tail(s))
                \/ Cancelling(s)
                \/ Head(s) = "hold" /\ Cancelling(Tail(s))

\* References that a stack holds.
Bal(s) == Occurs({"release"}, s) - Occurs({"hold"}, s)

\* ... or something above a Release.
Solid(s) == \E n \in 1..Len(s) : /\ s[n] = "release"
                                 /\ \A i \in 1..n : s[i] \in Busy
                                 /\ n = Len(s) \/ (n + 1 = Len(s) /\ s[n + 1] = "arm")
Works(s) == Solid(s) \/ (On("hold", s) /\ Solid(Tail(s)) /\ Bal(Tail(s)) >= 2)

Shaped(s) == Rests(s) \/ Closes(s) \/ Works(s)

Balances == [t \in Threads |-> Bal(stack[t])]
CountInv == refs = Outstanding + Total(Balances)

\* t is alone with the session.
Alone(t) == \A u \in Threads : u # t => Rests(stack[u])
Opens(s) == On("open", s) /\ Rests(Tail(s))

EndInv == /\ \A t \in Threads : Closes(stack[t]) => Outstanding = 0 /\ Alone(t)
          /\ Count("reconnect") > 0 => Outstanding = 0 /\ \A t \in Threads : Rests(stack[t])
          /\ sock = "none" => /\ Outstanding = 0
                              /\ \A t \in Threads : Rests(stack[t]) \/ Opens(stack[t])

QuietInv == (\A t \in Threads : Shaped(stack[t])) /\ CountInv /\ EndInv

IInv == TypeInv /\ TokenInv /\ (Lossless => KeepInv) /\ (calls = 0 => QuietInv)

LEMMA Finite == ASSUME ConnectorsAssumption PROVE FiniteThreads
  BY FS_Union DEF ConnectorsAssumption, FiniteThreads, Threads

-----------------------------------------------------------------------------
(***************************************************************************)
(* The shapes of a stack                                                   *)
(***************************************************************************)
LEMMA BalNumber ==
    ASSUME NEW s \in Seq(Steps)
    PROVE  /\ Bal(s) \in Int /\ Occurs({"release"}, s) \in Nat /\ Occurs({"hold"}, s) \in Nat
           /\ s # <<>> => /\ Tail(s) \in Seq(Steps)
                          /\ Bal(s) = Bal(Tail(s)) + In(Head(s), {"release"}) - In(Head(s), {"hold"})
<1>1. Occurs({"release"}, s) \in Nat /\ Occurs({"hold"}, s) \in Nat
  BY OccursType
<1>2. ASSUME s # <<>>
      PROVE  /\ Tail(s) \in Seq(Steps)
             /\ Bal(s) = Bal(Tail(s)) + In(Head(s), {"release"}) - In(Head(s), {"hold"})
  <2>1. Tail(s) \in Seq(Steps)
    BY <1>2, TailProperties
  <2>2. /\ Occurs({"release"}, s) = Occurs({"release"}, Tail(s)) + In(Head(s), {"release"})
        /\ Occurs({"hold"}, s) = Occurs({"hold"}, Tail(s)) + In(Head(s), {"hold"})
    BY <1>2, OccursTail
  <2>3. /\ Occurs({"release"}, Tail(s)) \in Nat /\ Occurs({"hold"}, Tail(s)) \in Nat
        /\ In(Head(s), {"release"}) \in Nat /\ In(Head(s), {"hold"}) \in Nat
    BY <2>1, OccursType, InType
  <2> QED
    BY <2>1, <2>2, <2>3 DEF Bal
<1> QED
  BY <1>1, <1>2 DEF Bal

LEMMA RestsNone ==
    ASSUME NEW s \in Seq(Steps), Rests(s), NEW P, "arm" \notin P
    PROVE  Occurs(P, s) = 0
<1>1. Occurs(P, <<>>) = 0 /\ In("arm", P) = 0
  BY OccursNone DEF In
<1>2. CASE s = <<>>
  BY <1>1, <1>2
<1>3. CASE s # <<>>
  <2>1. Head(s) = "arm" /\ Tail(s) = <<>>
    BY <1>3 DEF Rests
  <2>2. Occurs(P, s) = Occurs(P, Tail(s)) + In(Head(s), P)
    BY <1>3, OccursTail
  <2>3. Occurs(P, s) = Occurs(P, <<>>) + In("arm", P)
    BY ONLY <2>1, <2>2
  <2> QED
    BY <1>1, <2>3
<1> QED
  BY <1>2, <1>3

LEMMA RestsBal ==
    ASSUME NEW s \in Seq(Steps), Rests(s)
    PROVE  Bal(s) = 0
<1>1. Occurs({"release"}, s) = 0 /\ Occurs({"hold"}, s) = 0
  BY RestsNone
<1> QED
  BY <1>1 DEF Bal

\* Something put above a Release, and a Release.
LEMMA SolidPush ==
    ASSUME NEW s \in Seq(Steps), Solid(s), NEW a \in Busy
    PROVE  Solid(<<a>> \o s)
<1> DEFINE q == <<a>> \o s
<1>1. a \in Steps
  BY Named
<1>2. Len(s) \in Nat /\ Len(q) = Len(s) + 1 /\ q[1] = a /\ \A i \in 1..Len(s) : q[i+1] = s[i]
  BY <1>1, PushProperties, LenProperties
<1>3. PICK n \in 1..Len(s) : /\ s[n] = "release"
                             /\ \A i \in 1..n : s[i] \in Busy
                             /\ n = Len(s) \/ (n + 1 = Len(s) /\ s[n + 1] = "arm")
  BY DEF Solid
<1>4. n + 1 \in 1..Len(q) /\ q[n + 1] = "release"
  BY <1>2, <1>3
<1>5. ASSUME NEW i \in 1..(n + 1)
      PROVE  q[i] \in Busy
  <2>1. CASE i = 1
    BY <1>2, <2>1
  <2>2. CASE i # 1
    <3>1. i - 1 \in 1..n /\ i - 1 \in 1..Len(s) /\ (i - 1) + 1 = i
      BY <1>2, <2>2
    <3>2. q[(i - 1) + 1] = s[i - 1]
      BY <1>2, <3>1
    <3>3. s[i - 1] \in Busy
      BY <1>3, <3>1
    <3> QED
      BY <3>1, <3>2, <3>3
  <2> QED
    BY <2>1, <2>2
<1>6. n + 1 = Len(q) \/ ((n + 1) + 1 = Len(q) /\ q[(n + 1) + 1] = "arm")
  <2>1. CASE n = Len(s)
    BY <1>2, <2>1
  <2>2. CASE n + 1 = Len(s) /\ s[n + 1] = "arm"
    <3>1. n + 1 \in 1..Len(s)
      BY <1>2, <2>2
    <3> QED
      BY <1>2, <2>2, <3>1
  <2> QED
    BY <1>3, <2>1, <2>2
<1> HIDE DEF q
<1>7. Solid(q)
  BY <1>4, <1>5, <1>6 DEF Solid
<1> QED
  BY <1>7 DEF q

LEMMA SolidRelease ==
    ASSUME NEW s \in Seq(Steps), Rests(s)
    PROVE  Solid(<<"release">> \o s)
<1> DEFINE q == <<"release">> \o s
<1>1. "release" \in Steps /\ "release" \in Busy
  BY DEF Steps, Busy
<1>2. Len(s) \in Nat /\ Len(q) = Len(s) + 1 /\ q[1] = "release" /\ \A i \in 1..Len(s) : q[i+1] = s[i]
  BY <1>1, PushProperties, LenProperties
<1>3. Len(s) = 0 \/ (Len(s) = 1 /\ s[1] = "arm")
  <2>1. CASE s = <<>>
    BY <2>1
  <2>2. CASE s # <<>>
    <3>1. Tail(s) = <<>> /\ Head(s) = "arm"
      BY <2>2 DEF Rests
    <3>2. Len(Tail(s)) = Len(s) - 1 /\ s[1] = Head(s)
      BY <2>2, TailProperties
    <3>3. Len(Tail(s)) = 0
      BY <3>1, EmptySeq
    <3> QED
      BY <1>2, <3>1, <3>2, <3>3
  <2> QED
    BY <2>1, <2>2
<1>4. 1 \in 1..Len(q) /\ \A i \in 1..1 : q[i] \in Busy
  BY <1>1, <1>2
<1>5. 1 = Len(q) \/ (1 + 1 = Len(q) /\ q[1 + 1] = "arm")
  BY <1>2, <1>3
<1> HIDE DEF q
<1>6. Solid(q)
  BY <1>2, <1>4, <1>5 DEF Solid
<1> QED
  BY <1>6 DEF q

\* What lies under its top.
LEMMA SolidTail ==
    ASSUME NEW s \in Seq(Steps), Solid(s)
    PROVE  /\ s # <<>> /\ Head(s) \in Busy /\ Tail(s) \in Seq(Steps)
           /\ Solid(Tail(s)) \/ (Head(s) = "release" /\ Rests(Tail(s)))
<1>1. PICK n \in 1..Len(s) : /\ s[n] = "release"
                             /\ \A i \in 1..n : s[i] \in Busy
                             /\ n = Len(s) \/ (n + 1 = Len(s) /\ s[n + 1] = "arm")
  BY DEF Solid
<1>2. Len(s) \in Nat /\ s # <<>>
  <2>1. Len(s) \in Nat
    BY LenProperties
  <2>2. CASE s = <<>>
    <3>1. Len(s) = 0
      BY <2>2
    <3> QED
      BY <1>1, <3>1
  <2> QED
    BY <2>1, <2>2
<1> DEFINE r == Tail(s)
<1>3. /\ r \in Seq(Steps) /\ Len(r) = Len(s) - 1 /\ s[1] = Head(s)
      /\ \A i \in 1..Len(r) : r[i] = s[i+1]
  BY <1>2, TailProperties
<1>4. Head(s) \in Busy
  <2>1. n \in Nat /\ 1 \in 1..n
    BY <1>2
  <2>2. s[1] \in Busy
    BY <1>1, <2>1
  <2> QED
    BY <1>3, <2>2
<1> HIDE DEF r
<1>5. CASE n = 1
  <2>1. Head(s) = "release"
    BY <1>1, <1>3, <1>5
  <2>2. CASE Len(s) = 1
    <3>1. r = <<>>
      BY <1>3, <2>2, EmptySeq
    <3> QED
      BY <1>2, <1>3, <1>4, <2>1, <3>1 DEF Rests, r
  <2>3. CASE Len(s) = 2 /\ s[2] = "arm"
    <3>1. Len(r) = 1 /\ r[1] = "arm"
      BY <1>3, <2>3
    <3>2. r # <<>>
      BY <3>1
    <3>3. Head(r) = "arm" /\ Tail(r) \in Seq(Steps) /\ Len(Tail(r)) = 0
      BY <1>3, <3>1, <3>2, TailProperties
    <3>4. Tail(r) = <<>>
      BY <3>3, EmptySeq
    <3> QED
      BY <1>2, <1>3, <1>4, <2>1, <3>3, <3>4 DEF Rests, r
  <2> QED
    BY <1>1, <1>2, <1>5, <2>2, <2>3
<1>6. CASE n # 1
  <2>1. PICK m \in 1..Len(r) : m + 1 = n
    <3>1. n - 1 \in 1..Len(r) /\ (n - 1) + 1 = n
      BY <1>1, <1>2, <1>3, <1>6
    <3> QED
      BY <3>1
  <2>2. r[m] = "release"
    BY <1>1, <1>3, <2>1
  <2>3. ASSUME NEW i \in 1..m
        PROVE  r[i] \in Busy
    <3>1. i \in 1..Len(r) /\ i + 1 \in 1..n
      BY <1>2, <1>3, <2>1
    <3>2. s[i + 1] \in Busy
      BY <1>1, <3>1
    <3>3. r[i] = s[i + 1]
      BY <1>3, <3>1
    <3> QED
      BY <3>2, <3>3
  <2>4. m = Len(r) \/ (m + 1 = Len(r) /\ r[m + 1] = "arm")
    <3>1. CASE n = Len(s)
      BY <1>2, <1>3, <2>1, <3>1
    <3>2. CASE n + 1 = Len(s) /\ s[n + 1] = "arm"
      <4>1. m + 1 \in 1..Len(r) /\ m + 1 = Len(r) /\ (m + 1) + 1 = n + 1
        BY <1>2, <1>3, <2>1, <3>2
      <4> QED
        BY <1>3, <3>2, <4>1
    <3> QED
      BY <1>1, <3>1, <3>2
  <2>5. Solid(r)
    BY <2>2, <2>3, <2>4 DEF Solid
  <2> QED
    BY <1>2, <1>3, <1>4, <2>5 DEF r
<1> QED
  BY <1>5, <1>6

\* The three shapes are apart, and how many references each holds.
LEMMA NotBusy ==
  /\ "arm" \notin Busy /\ "hold" \notin Busy /\ "bottom" \notin Busy
  /\ Final \cap Busy = {} /\ "arm" \notin Final \cup Nested
  /\ "again" \notin Busy /\ "hold" \notin Final \cup Nested
  BY DEF Busy, Using, Parting, Final, Nested

LEMMA SolidApart ==
    ASSUME NEW s \in Seq(Steps), Solid(s)
    PROVE  ~Rests(s) /\ ~Onward(s) /\ ~Letting(s) /\ ~Cancelling(s) /\ ~Closes(s)
<1>1. /\ s # <<>> /\ Head(s) \in Busy /\ Tail(s) \in Seq(Steps)
      /\ Solid(Tail(s)) \/ (Head(s) = "release" /\ Rests(Tail(s)))
  BY SolidTail
<1>2. ASSUME NEW r \in Seq(Steps), Solid(r)
      PROVE  ~Onward(r)
  BY <1>2, SolidTail, NotBusy DEF Onward, On
<1>3. ASSUME NEW r \in Seq(Steps), Rests(r)
      PROVE  ~Onward(r)
  BY <1>3 DEF Onward, On, Rests
<1>4. ~Onward(s) /\ ~Onward(Tail(s))
  BY <1>1, <1>2, <1>3
<1>5. ~Rests(s)
  BY <1>1, NotBusy DEF Rests
<1>6. ASSUME NEW r \in Seq(Steps), Solid(r)
      PROVE  ~Letting(r)
  BY <1>2, <1>3, <1>6, SolidTail DEF Letting
<1>7. ~Cancelling(s)
  BY <1>1, <1>6 DEF Cancelling, On
<1>8. ~Closes(s)
  BY <1>1, <1>4, <1>7, NotBusy DEF Closes
<1> QED
  BY <1>4, <1>5, <1>6, <1>7, <1>8

LEMMA SolidBal ==
    ASSUME NEW s \in Seq(Steps), Solid(s)
    PROVE  Bal(s) \in Nat /\ Bal(s) >= 1
<1>1. PICK n \in 1..Len(s) : /\ s[n] = "release"
                             /\ \A i \in 1..n : s[i] \in Busy
                             /\ n = Len(s) \/ (n + 1 = Len(s) /\ s[n + 1] = "arm")
  BY DEF Solid
<1>2. Len(s) \in Nat
  BY LenProperties
<1>3. \A i \in 1..Len(s) : s[i] \notin {"hold"}
  <2>1. ASSUME NEW i \in 1..Len(s)
        PROVE  s[i] # "hold"
    <3>1. CASE i \in 1..n
      BY <1>1, <3>1, NotBusy
    <3>2. CASE i \notin 1..n
      <4>1. n + 1 = Len(s) /\ i = n + 1
        BY <1>1, <1>2, <3>2
      <4>2. s[n + 1] = "arm"
        BY <1>1, <4>1
      <4> QED
        BY <4>1, <4>2
    <3> QED
      BY <3>1, <3>2
  <2> QED
    BY <2>1
<1>4. Occurs({"hold"}, s) = 0
  BY <1>3, OccursZero
<1>5. Occurs({"release"}, s) >= 1
  BY <1>1, OccursSome
<1>6. Occurs({"release"}, s) \in Nat
  BY OccursType
<1> QED
  BY <1>4, <1>5, <1>6 DEF Bal

LEMMA WorksBal ==
    ASSUME NEW s \in Seq(Steps), Works(s)
    PROVE  /\ Bal(s) \in Nat /\ Bal(s) >= 1 /\ ~Rests(s) /\ ~Closes(s) /\ s # <<>>
           /\ Head(s) \in Busy \cup {"hold"} /\ (Head(s) # "hold" => Solid(s))
<1>1. CASE Solid(s)
  BY <1>1, SolidApart, SolidBal, SolidTail
<1>2. CASE On("hold", s) /\ Solid(Tail(s)) /\ Bal(Tail(s)) >= 2
  <2>1. s # <<>> /\ Head(s) = "hold"
    BY <1>2 DEF On
  <2>2. Tail(s) \in Seq(Steps) /\ Bal(s) = Bal(Tail(s)) + In("hold", {"release"}) - In("hold", {"hold"})
    BY <2>1, BalNumber
  <2>3. Bal(Tail(s)) \in Nat /\ ~Cancelling(Tail(s))
    BY <1>2, <2>2, SolidBal, SolidApart
  <2>4. In("hold", {"release"}) = 0 /\ In("hold", {"hold"}) = 1
    BY DEF In
  <2>5. Bal(s) \in Nat /\ Bal(s) >= 1
    BY <1>2, <2>2, <2>3, <2>4
  <2>6. ~Rests(s) /\ ~Closes(s)
    BY <2>1, <2>3, NotBusy DEF Rests, Closes, Cancelling, On
  <2> QED
    BY <2>1, <2>5, <2>6
<1> QED
  BY <1>1, <1>2 DEF Works

LEMMA LettingBal ==
    ASSUME NEW s \in Seq(Steps)
    PROVE  /\ Onward(s) => Bal(s) = 0
           /\ Letting(s) => Bal(s) = 1
           /\ Cancelling(s) => Bal(s) = 1
<1>1. /\ In("again", {"release"}) = 0 /\ In("again", {"hold"}) = 0 /\ In("release", {"release"}) = 1
      /\ In("release", {"hold"}) = 0 /\ In("cancel", {"release"}) = 0 /\ In("cancel", {"hold"}) = 0
  BY DEF In
<1>2. ASSUME NEW r \in Seq(Steps), Onward(r)
      PROVE  Bal(r) = 0
  <2>1. r # <<>> /\ Head(r) = "again" /\ Rests(Tail(r))
    BY <1>2 DEF Onward, On
  <2>2. Tail(r) \in Seq(Steps) /\ Bal(r) = Bal(Tail(r)) + In("again", {"release"}) - In("again", {"hold"})
    BY <2>1, BalNumber
  <2>3. Bal(Tail(r)) = 0
    BY <2>1, <2>2, RestsBal
  <2> QED
    BY <1>1, <2>2, <2>3
<1>3. ASSUME NEW r \in Seq(Steps), Letting(r)
      PROVE  Bal(r) = 1
  <2>1. r # <<>> /\ Head(r) = "release" /\ Onward(Tail(r))
    BY <1>3 DEF Letting, On
  <2>2. Tail(r) \in Seq(Steps) /\ Bal(r) = Bal(Tail(r)) + In("release", {"release"}) - In("release", {"hold"})
    BY <2>1, BalNumber
  <2>3. Bal(Tail(r)) = 0
    BY <1>2, <2>1, <2>2
  <2> QED
    BY <1>1, <2>2, <2>3
<1>4. ASSUME Cancelling(s)
      PROVE  Bal(s) = 1
  <2>1. s # <<>> /\ Head(s) = "cancel" /\ Letting(Tail(s))
    BY <1>4 DEF Cancelling, On
  <2>2. Tail(s) \in Seq(Steps) /\ Bal(s) = Bal(Tail(s)) + In("cancel", {"release"}) - In("cancel", {"hold"})
    BY <2>1, BalNumber
  <2>3. Bal(Tail(s)) = 1
    BY <1>3, <2>1, <2>2
  <2> QED
    BY <1>1, <2>2, <2>3
<1> QED
  BY <1>2, <1>3, <1>4

LEMMA ClosesBal ==
    ASSUME NEW s \in Seq(Steps), Closes(s)
    PROVE  Bal(s) \in Nat /\ ~Rests(s) /\ s # <<>>
<1>1. s # <<>> /\ Tail(s) \in Seq(Steps)
      /\ Bal(s) = Bal(Tail(s)) + In(Head(s), {"release"}) - In(Head(s), {"hold"})
  BY BalNumber DEF Closes
<1>2. CASE Head(s) \in Final /\ Rests(Tail(s))
  <2>1. In(Head(s), {"release"}) = 0 /\ In(Head(s), {"hold"}) = 0
    BY <1>2 DEF In, Final
  <2>2. Bal(Tail(s)) = 0
    BY <1>1, <1>2, RestsBal
  <2>3. ~Rests(s)
    BY <1>1, <1>2, NotBusy DEF Rests
  <2> QED
    BY <1>1, <2>1, <2>2, <2>3
<1>3. CASE Head(s) \in Nested /\ Onward(Tail(s))
  <2>1. In(Head(s), {"release"}) \in Nat /\ In(Head(s), {"hold"}) = 0
    BY <1>3, InType DEF In, Nested
  <2>2. Bal(Tail(s)) = 0
    BY <1>1, <1>3, LettingBal
  <2> QED
    BY <1>1, <1>3, <2>1, <2>2, NotBusy DEF Rests
<1>4. CASE Cancelling(s)
  BY <1>1, <1>4, LettingBal DEF Cancelling, On, Rests
<1>5. CASE Head(s) = "hold" /\ Cancelling(Tail(s))
  <2>1. In("hold", {"release"}) = 0 /\ In("hold", {"hold"}) = 1
    BY DEF In
  <2>2. Bal(Tail(s)) = 1
    BY <1>1, <1>5, LettingBal
  <2>3. Bal(s) = 0
    BY <1>1, <1>5, <2>1, <2>2
  <2> QED
    BY <1>1, <1>5, <2>3 DEF Rests
<1> QED
  BY <1>2, <1>3, <1>4, <1>5 DEF Closes

LEMMA ShapedBal ==
    ASSUME NEW s \in Seq(Steps), Shaped(s)
    PROVE  Bal(s) \in Nat
<1>1. Rests(s) => Bal(s) = 0
  BY RestsBal
<1> QED
  BY <1>1, ClosesBal, WorksBal DEF Shaped

-----------------------------------------------------------------------------
(***************************************************************************)
(* One step of one thread, while no application thread has called          *)
(***************************************************************************)
NetBal(h, k, a, b, c) == Net({"release"}, h, k, a, b, c) - Net({"hold"}, h, k, a, b, c)

LEMMA BalMoves ==
    ASSUME stack \in [Threads -> Seq(Steps)], NEW t \in Threads, NEW h, NEW k,
           NEW a \in Opt(Steps), NEW b \in Opt(Steps), NEW c \in Opt(Steps), Moves(t, h, k, a, b, c)
    PROVE  /\ stack' \in [Threads -> Seq(Steps)] /\ \A u \in Threads : u # t => stack'[u] = stack[u]
           /\ NetBal(h, k, a, b, c) \in Int
           /\ Bal(stack'[t]) = Bal(stack[t]) + NetBal(h, k, a, b, c)
<1>1. /\ stack' \in [Threads -> Seq(Steps)] /\ \A u \in Threads : u # t => stack'[u] = stack[u]
      /\ stack'[t] = Turned(h, k, a, b, c, stack[t])
  BY MovesType
<1>2. stack[t] \in Seq(Steps) /\ Has(h, k, stack[t])
  BY DEF Moves
<1>3. ASSUME NEW P, "bottom" \notin P
      PROVE  /\ Occurs(P, stack[t]) \in Nat /\ Occurs(P, stack'[t]) \in Nat
             /\ Occurs(P, stack'[t]) = Occurs(P, stack[t]) + Net(P, h, k, a, b, c)
             /\ Net(P, h, k, a, b, c) \in Int
  BY <1>1, <1>2, <1>3, TurnCounts
<1>4. /\ Occurs({"release"}, stack[t]) \in Nat /\ Occurs({"release"}, stack'[t]) \in Nat
      /\ Occurs({"release"}, stack'[t]) = Occurs({"release"}, stack[t]) + Net({"release"}, h, k, a, b, c)
      /\ Net({"release"}, h, k, a, b, c) \in Int
  BY <1>3
<1>5. /\ Occurs({"hold"}, stack[t]) \in Nat /\ Occurs({"hold"}, stack'[t]) \in Nat
      /\ Occurs({"hold"}, stack'[t]) = Occurs({"hold"}, stack[t]) + Net({"hold"}, h, k, a, b, c)
      /\ Net({"hold"}, h, k, a, b, c) \in Int
  BY <1>3
<1> QED
  BY <1>1, <1>4, <1>5 DEF Bal, NetBal

\* The references follow the stacks: n is what the step adds to the outstanding I/O.
LEMMA CountMoves ==
    ASSUME ConnectorsAssumption, TypeInv, QuietInv, NEW t \in Threads, NEW h, NEW k,
           NEW a \in Opt(Steps), NEW b \in Opt(Steps), NEW c \in Opt(Steps), Moves(t, h, k, a, b, c),
           Shaped(stack'[t]), NEW n \in Int, Outstanding' = Outstanding + n,
           refs' = refs + n + NetBal(h, k, a, b, c)
    PROVE  CountInv' /\ \A u \in Threads : Shaped(stack'[u])
<1>1. /\ stack \in [Threads -> Seq(Steps)] /\ refs \in Int /\ Outstanding \in Nat
      /\ \A u \in Threads : Shaped(stack[u]) /\ refs = Outstanding + Total(Balances)
  BY OutstandingType DEF TypeInv, IoType, QuietInv, CountInv
<1>2. /\ stack' \in [Threads -> Seq(Steps)] /\ \A u \in Threads : u # t => stack'[u] = stack[u]
      /\ NetBal(h, k, a, b, c) \in Int
      /\ Bal(stack'[t]) = Bal(stack[t]) + NetBal(h, k, a, b, c)
  BY <1>1, BalMoves
<1>3. \A u \in Threads : Shaped(stack'[u])
  BY <1>1, <1>2
<1>4. \A u \in Threads : Balances[u] \in Nat /\ Balances'[u] \in Nat
  BY <1>1, <1>2, <1>3, ShapedBal DEF Balances
<1>5. /\ \A u \in Threads : u # t => Balances'[u] = Balances[u]
      /\ Balances'[t] = Balances[t] + NetBal(h, k, a, b, c)
  BY <1>2 DEF Balances
<1>6. Total(Balances') = Total(Balances) + Balances'[t] - Balances[t]
  BY <1>4, <1>5, Finite, TotalChange
<1>7. Total(Balances) \in Nat /\ Total(Balances') \in Nat
  BY <1>4, Finite, TotalType
<1>8. Total(Balances') = Total(Balances) + NetBal(h, k, a, b, c)
  BY <1>2, <1>4, <1>5, <1>6, <1>7
<1>9. Total(Balances)' = Total(Balances')
  BY DEF Total, Points
<1>10. refs' = Outstanding' + Total(Balances')
  <2>1. /\ refs = Outstanding + Total(Balances) /\ Outstanding \in Nat /\ Total(Balances) \in Nat
        /\ NetBal(h, k, a, b, c) \in Int /\ n \in Int /\ Outstanding' = Outstanding + n
        /\ refs' = refs + n + NetBal(h, k, a, b, c)
        /\ Total(Balances') = Total(Balances) + NetBal(h, k, a, b, c)
    BY <1>1, <1>2, <1>7, <1>8
  <2> QED
    BY ONLY <2>1
<1> QED
  BY <1>3, <1>9, <1>10 DEF CountInv

\* Who works on the session keeps the end of the connection away, ...
LEMMA WorkersKeep ==
    ASSUME TypeInv, QuietInv, NEW t \in Threads, Works(stack[t])
    PROVE  /\ \A u \in Threads : ~Closes(stack[u])
           /\ sock # "none" /\ Count("reconnect") = 0
<1>1. stack[t] \in Seq(Steps) /\ Count("reconnect") \in Nat
  BY OutstandingType DEF TypeInv, IoType, Kinds
<1>2. ~Rests(stack[t]) /\ ~Closes(stack[t])
  BY <1>1, WorksBal
<1>3. \A u \in Threads : ~Closes(stack[u])
  BY <1>2 DEF QuietInv, EndInv, Alone
<1>4. ~Opens(stack[t])
  BY <1>2 DEF Opens, Closes, On, Final
<1> QED
  BY <1>1, <1>2, <1>3, <1>4 DEF QuietInv, EndInv

\* ... as outstanding I/O does.
LEMMA IoKeeps ==
    ASSUME TypeInv, QuietInv, Outstanding # 0
    PROVE  /\ \A u \in Threads : ~Closes(stack[u])
           /\ sock # "none" /\ Count("reconnect") = 0
<1>1. Count("reconnect") \in Nat
  BY OutstandingType DEF TypeInv, IoType, Kinds
<1> QED
  BY <1>1 DEF QuietInv, EndInv

\* A step with the session in use: t works, or begins on what a completion kept.
LEMMA WorkStep ==
    ASSUME ConnectorsAssumption, TypeInv, QuietInv, NEW t \in Threads, NEW h, NEW k,
           NEW a \in Opt(Steps), NEW b \in Opt(Steps), NEW c \in Opt(Steps), Moves(t, h, k, a, b, c),
           Works(stack[t]) \/ Outstanding # 0,
           Works(stack'[t]) \/ Rests(stack'[t]), NEW n \in Int, Outstanding' = Outstanding + n,
           refs' = refs + n + NetBal(h, k, a, b, c),
           sock' # "none", Count("reconnect")' = Count("reconnect")
    PROVE  QuietInv'
<1>1. (\A u \in Threads : ~Closes(stack[u])) /\ Count("reconnect") = 0
  BY WorkersKeep, IoKeeps
<1>2. /\ stack' \in [Threads -> Seq(Steps)] /\ \A u \in Threads : u # t => stack'[u] = stack[u]
  BY BalMoves DEF TypeInv
<1>3. ~Closes(stack'[t])
  BY <1>2, WorksBal, ClosesBal
<1>4. CountInv' /\ \A u \in Threads : Shaped(stack'[u])
  BY CountMoves DEF Shaped
<1>5. EndInv'
  <2>1. \A u \in Threads : ~Closes(stack'[u])
    BY <1>1, <1>2, <1>3
  <2> QED
    BY <1>1, <2>1 DEF EndInv
<1> QED
  BY <1>4, <1>5 DEF QuietInv

\* A step of the thread that is alone with the session.
LEMMA CloseStep ==
    ASSUME ConnectorsAssumption, TypeInv, QuietInv, NEW t \in Threads, NEW h, NEW k,
           NEW a \in Opt(Steps), NEW b \in Opt(Steps), NEW c \in Opt(Steps), Moves(t, h, k, a, b, c),
           Outstanding = 0, Alone(t), Shaped(stack'[t]), Outstanding' = Outstanding,
           refs' = refs + NetBal(h, k, a, b, c),
           Count("reconnect")' > 0 => Rests(stack'[t]),
           sock' = "none" => Rests(stack'[t]) \/ Opens(stack'[t])
    PROVE  QuietInv'
<1>1. /\ stack' \in [Threads -> Seq(Steps)] /\ \A u \in Threads : u # t => stack'[u] = stack[u]
  BY BalMoves DEF TypeInv
<1>2. CountInv' /\ \A u \in Threads : Shaped(stack'[u])
  <2>1. refs' = refs + 0 + NetBal(h, k, a, b, c) /\ Outstanding' = Outstanding + 0
    <3>1. refs \in Int
      BY DEF TypeInv
    <3> QED
      BY <3>1
  <2> QED
    BY <2>1, CountMoves
<1>3. \A u \in Threads : u # t => Rests(stack'[u]) /\ ~Closes(stack'[u])
  BY <1>1, ClosesBal DEF Alone
<1>4. EndInv'
  BY <1>3 DEF EndInv, Alone
<1> QED
  BY <1>2, <1>4 DEF QuietInv

\* Who closes is alone.
LEMMA CloserAlone ==
    ASSUME TypeInv, QuietInv, NEW t \in Threads, Closes(stack[t])
    PROVE  Outstanding = 0 /\ Alone(t) /\ Count("reconnect") = 0 /\ (sock = "none" => Opens(stack[t]))
<1>1. stack[t] \in Seq(Steps) /\ Count("reconnect") \in Nat
  BY OutstandingType DEF TypeInv, IoType, Kinds
<1>2. ~Rests(stack[t])
  BY <1>1, ClosesBal
<1> QED
  BY <1>1, <1>2 DEF QuietInv, EndInv

-----------------------------------------------------------------------------
(***************************************************************************)
(* One step of one thread: the types and where the connection is           *)
(***************************************************************************)
LEMMA EasyLinked ==
    ASSUME NEW s, Good(Table, s), NEW h, NEW k, Has(h, k, s),
           NEW a \in Opt(Steps \ Lying), NEW b \in Opt(Steps \ Lying), NEW c \in Opt(Steps \ Lying)
    PROVE  Linked(Table, a, b, c, Top(Under(h, k, s)))
<1>1. PICK y : y = Top(Under(h, k, s))
  OBVIOUS
<1>2. Good(Table, Under(h, k, s))
  BY UnderGood
<1>3. y \in Opt(Steps)
  <2>1. ASSUME NEW r, Good(Table, r)
        PROVE  Top(r) \in Opt(Steps)
    <3>1. CASE r = <<>>
      BY <3>1 DEF Top, Opt
    <3>2. CASE r # <<>>
      BY <2>1, <3>2, GoodTail, TableSteps DEF Top, Opt
    <3> QED
      BY <3>1, <3>2
  <2> QED
    BY <1>1, <1>2, <2>1
<1>4. Linked(Table, a, b, c, y)
  BY <1>3, TableSteps DEF Linked, Opt
<1> QED
  BY <1>1, <1>4

LEMMA TypeMoves ==
    ASSUME ConnectorsAssumption, TypeInv, NEW t \in Threads, NEW h, NEW k,
           NEW a \in Opt(Steps), NEW b \in Opt(Steps), NEW c \in Opt(Steps), Moves(t, h, k, a, b, c),
           Linked(Table, a, b, c, Top(Under(h, k, stack[t]))),
           t \in Workers => "open" \notin {a, b, c},
           io' \in IoType, io'["accept"] = Idle, refs' \in Int, gen' \in Nat, calls' \in Nat, listed' \in BOOLEAN
    PROVE  TypeInv'
<1>1. /\ stack' \in [Threads -> Seq(Steps)] /\ \A u \in Threads : u # t => stack'[u] = stack[u]
      /\ stack'[t] = Turned(h, k, a, b, c, stack[t])
  BY MovesType DEF TypeInv
<1>2. stack[t] \in Seq(Steps) /\ Good(Table, stack[t]) /\ Has(h, k, stack[t])
  BY DEF TypeInv, Moves
<1>3. Good(Table, stack'[t])
  <2>1. Good(Table, Turned(h, k, a, b, c, stack[t]))
    BY <1>2, TurnGood
  <2> QED
    BY <1>1, <2>1
<1>4. \A u \in Threads : Good(Table, stack'[u])
  BY <1>1, <1>3 DEF TypeInv
<1>5. t \in Workers => Occurs({"open"}, stack'[t]) = 0
  <2> SUFFICES ASSUME t \in Workers
               PROVE  Occurs({"open"}, stack'[t]) = 0
    OBVIOUS
  <2>1. /\ Occurs({"open"}, stack[t]) \in Nat /\ Occurs({"open"}, Turned(h, k, a, b, c, stack[t])) \in Nat
        /\ Occurs({"open"}, Turned(h, k, a, b, c, stack[t])) = Occurs({"open"}, stack[t]) + Net({"open"}, h, k, a, b, c)
    BY <1>2, TurnCounts
  <2>2. In(a, {"open"}) = 0 /\ In(b, {"open"}) = 0 /\ In(c, {"open"}) = 0
    BY DEF In
  <2>3. In(h, {"open"}) \in Nat /\ In(k, {"open"}) \in Nat
    BY InType
  <2>4. Occurs({"open"}, stack[t]) = 0
    BY DEF TypeInv
  <2>5. Occurs({"open"}, stack'[t]) \in Nat /\ Occurs({"open"}, stack'[t]) = 0 - In(h, {"open"}) - In(k, {"open"})
    BY <1>1, <2>1, <2>2, <2>3, <2>4 DEF Net
  <2> QED
    BY <2>3, <2>5
<1>6. \A w \in Workers : Occurs({"open"}, stack'[w]) = 0
  BY <1>1, <1>5 DEF TypeInv, Threads
<1> QED
  BY <1>1, <1>4, <1>6 DEF TypeInv

LEMMA PartZero ==
    ASSUME ConnectorsAssumption, NEW v \in [Threads -> Seq(Steps)], NEW P, NEW Q, P \subseteq Q,
           Total([u \in Threads |-> Occurs(Q, v[u])]) = 0
    PROVE  Total([u \in Threads |-> Occurs(P, v[u])]) = 0
<1> DEFINE f == [u \in Threads |-> Occurs(Q, v[u])]
           g == [u \in Threads |-> Occurs(P, v[u])]
<1>1. \A u \in Threads : f[u] \in Nat /\ f[u] = Occurs(Q, v[u]) /\ g[u] = Occurs(P, v[u])
  BY OccursType
<1> HIDE DEF f, g
<1>2. \A u \in Threads : f[u] <= Total(f)
  BY <1>1, Finite, TotalBound
<1>3. \A u \in Threads : f[u] = 0
  BY <1>1, <1>2 DEF f
<1>4. ASSUME NEW u \in Threads
      PROVE  g[u] = 0
  <2>1. Occurs(Q, v[u]) = 0 /\ v[u] \in Seq(Steps)
    BY <1>1, <1>3
  <2>2. Occurs(P, v[u]) = 0
    BY <2>1, OccursZero
  <2> QED
    BY <1>1, <2>2
<1>5. Total(g) = 0
  BY <1>4, TotalZero
<1> QED
  BY <1>5 DEF g

\* The numbers of TokenInv and KeepInv before and after a step.
LEMMA TokenMoves ==
    ASSUME ConnectorsAssumption, TypeInv, TypeInv', NEW t \in Threads, NEW h, NEW k,
           NEW a \in Opt(Steps), NEW b \in Opt(Steps), NEW c \in Opt(Steps), Moves(t, h, k, a, b, c)
    PROVE  /\ Linking \in Nat /\ Linking' \in Nat
           /\ Linking' = Linking + Net(Chain, h, k, a, b, c) + Count("reconnect")' - Count("reconnect")
                            + Shown' - Shown
           /\ Left(Dial) \in Nat /\ Left(Dial)' = Left(Dial) + Net(Dial, h, k, a, b, c)
           /\ Left({"open"}) \in Nat /\ Left({"open"})' = Left({"open"}) + Net({"open"}, h, k, a, b, c)
           /\ Left({"onConnected"}) \in Nat
           /\ Left({"onConnected"})' = Left({"onConnected"}) + Net({"onConnected"}, h, k, a, b, c)
           /\ Left(Dial)' \in Nat /\ Left({"open"})' \in Nat /\ Left({"onConnected"})' \in Nat
           /\ Left(Dial)' = 0 => Left({"open"})' = 0
<1>0. FiniteThreads /\ stack \in [Threads -> Seq(Steps)] /\ stack' \in [Threads -> Seq(Steps)]
  BY Finite DEF TypeInv
<1>1. ASSUME NEW P, "bottom" \notin P
      PROVE  /\ Left(P) \in Nat /\ Left(P)' \in Nat
             /\ Left(P)' = Left(P) + Net(P, h, k, a, b, c)
             /\ Net(P, h, k, a, b, c) \in Int
  BY <1>0, <1>1, LeftMoves
<1>2. /\ Left(Chain) \in Nat /\ Left(Chain)' \in Nat
      /\ Left(Chain)' = Left(Chain) + Net(Chain, h, k, a, b, c) /\ Net(Chain, h, k, a, b, c) \in Int
  BY <1>1, Named
<1>3. /\ Left(Dial) \in Nat /\ Left(Dial)' \in Nat
      /\ Left(Dial)' = Left(Dial) + Net(Dial, h, k, a, b, c)
  BY <1>1, Named
<1>4. /\ Left({"open"}) \in Nat /\ Left({"open"})' \in Nat
      /\ Left({"open"})' = Left({"open"}) + Net({"open"}, h, k, a, b, c)
      /\ Left({"onConnected"}) \in Nat /\ Left({"onConnected"})' \in Nat
      /\ Left({"onConnected"})' = Left({"onConnected"}) + Net({"onConnected"}, h, k, a, b, c)
  BY <1>1
<1>5. /\ Count("reconnect") \in Nat /\ Count("reconnect")' \in Nat /\ Shown \in Nat /\ Shown' \in Nat
  <2>1. Count("reconnect") \in Nat
    BY OutstandingType DEF TypeInv, IoType, Kinds
  <2>2. io'["reconnect"] \in [pending : Nat, done : Nat, zero : Nat]
    BY DEF TypeInv, IoType, Kinds
  <2>3. Count("reconnect")' \in Nat
    BY <2>2 DEF Count
  <2> QED
    BY <2>1, <2>3 DEF Shown
<1>6. /\ Linking \in Nat /\ Linking' \in Nat
      /\ Linking' = Linking + Net(Chain, h, k, a, b, c) + Count("reconnect")' - Count("reconnect") + Shown' - Shown
  <2>1. Linking = Count("reconnect") + Left(Chain) + Shown /\ Linking' = Count("reconnect")' + Left(Chain)' + Shown'
    BY DEF Linking
  <2> QED
    BY ONLY <1>2, <1>5, <2>1
<1>7. Left(Dial)' = 0 => Left({"open"})' = 0
  <2>1. {"open"} \subseteq Dial
    BY DEF Dial
  <2>2. PICK v \in [Threads -> Seq(Steps)] : v = stack'
    BY <1>0
  <2>3. /\ Left(Dial)' = Total([u \in Threads |-> Occurs(Dial, v[u])])
        /\ Left({"open"})' = Total([u \in Threads |-> Occurs({"open"}, v[u])])
    BY <2>2 DEF Left, Total, Points
  <2> QED
    BY <2>1, <2>3, PartZero
<1> QED
  BY <1>3, <1>4, <1>6, <1>7

\* A step of P on the stack of a thread is left.
LEMMA LeftAt ==
    ASSUME ConnectorsAssumption, TypeInv, NEW t \in Threads, NEW x, At(t, x), NEW P, x \in P
    PROVE  Left(P) \in Nat /\ Left(P) >= 1
<1>1. FiniteThreads /\ stack \in [Threads -> Seq(Steps)] /\ stack[t] \in Seq(Steps)
  BY Finite DEF TypeInv
<1>2. Left(P) \in Nat /\ Occurs(P, stack[t]) <= Left(P)
  BY <1>1, LeftType, LeftBound
<1>3. Occurs(P, stack[t]) >= 1 /\ Occurs(P, stack[t]) \in Nat
  BY <1>1, TopCounts, OccursType DEF At
<1> QED
  BY <1>2, <1>3

-----------------------------------------------------------------------------
(***************************************************************************)
(* What keeps the invariant                                                *)
(***************************************************************************)
LEMMA TurnIs ==
    ASSUME NEW s, NEW h, h # "bottom"
    PROVE  /\ Turned(h, "bottom", "bottom", "bottom", "bottom", s) = Tail(s)
           /\ \A a : a # "bottom" => Turned(h, "bottom", a, "bottom", "bottom", s) = <<a>> \o Tail(s)
           /\ \A a, b : a # "bottom" /\ b # "bottom" =>
                 Turned(h, "bottom", a, b, "bottom", s) = <<a>> \o (<<b>> \o Tail(s))
           /\ \A a, b, c : a # "bottom" /\ b # "bottom" /\ c # "bottom" =>
                 Turned(h, "bottom", a, b, c, s) = <<a>> \o (<<b>> \o (<<c>> \o Tail(s)))
           /\ \A k : k # "bottom" => Turned(h, k, "bottom", "bottom", "bottom", s) = Tail(Tail(s))
           /\ \A k, a : k # "bottom" /\ a # "bottom" =>
                 Turned(h, k, a, "bottom", "bottom", s) = <<a>> \o Tail(Tail(s))
  BY DEF Turned, Under, Off, Put

LEMMA SolidTurned ==
    ASSUME NEW s \in Seq(Steps), Solid(s), NEW h \in Busy \ {"release"}, NEW k \in Opt(Busy \ {"release"}),
           Has(h, k, s), NEW a \in Opt(Busy), NEW b \in Opt(Busy), NEW c \in Opt(Busy)
    PROVE  Solid(Turned(h, k, a, b, c, s)) /\ Turned(h, k, a, b, c, s) \in Seq(Steps)
<1>1. "bottom" \notin Busy /\ Busy \subseteq Steps
  BY Named
<1>2. ASSUME NEW r \in Seq(Steps), Solid(r), NEW x \in Opt(Busy)
      PROVE  Solid(Put(x, r)) /\ Put(x, r) \in Seq(Steps)
  <2>1. CASE x = "bottom"
    BY <1>2, <2>1 DEF Put
  <2>2. CASE x # "bottom"
    <3>1. x \in Busy /\ x \in Steps
      BY <1>1, <1>2, <2>2 DEF Opt
    <3>2. Solid(<<x>> \o r) /\ <<x>> \o r \in Seq(Steps)
      BY <1>2, <3>1, SolidPush, PushProperties
    <3> QED
      BY <2>2, <3>2 DEF Put
  <2> QED
    BY <2>1, <2>2
<1>3. ASSUME NEW r \in Seq(Steps), Solid(r), NEW x \in Opt(Busy \ {"release"}), OnTop(x, r)
      PROVE  Solid(Off(x, r)) /\ Off(x, r) \in Seq(Steps)
  BY <1>3, SolidTail DEF Off, OnTop, Opt
<1>4. PICK s1 : s1 = Off(h, s) /\ Solid(s1) /\ s1 \in Seq(Steps) /\ OnTop(k, s1)
  BY <1>3 DEF Has, Opt
<1>5. PICK s2 : s2 = Under(h, k, s) /\ Solid(s2) /\ s2 \in Seq(Steps)
  BY <1>3, <1>4 DEF Under
<1>6. PICK s3 : s3 = Put(c, s2) /\ Solid(s3) /\ s3 \in Seq(Steps)
  BY <1>2, <1>5
<1>7. PICK s4 : s4 = Put(b, s3) /\ Solid(s4) /\ s4 \in Seq(Steps)
  BY <1>2, <1>6
<1>8. PICK s5 : s5 = Put(a, s4) /\ Solid(s5) /\ s5 \in Seq(Steps)
  BY <1>2, <1>7
<1>9. Turned(h, k, a, b, c, s) = s5
  BY <1>5, <1>6, <1>7, <1>8 DEF Turned
<1> QED
  BY <1>8, <1>9

\* The numbers do not change.
LEMMA TokenSame ==
    ASSUME TokenInv, Linking' = Linking, Left(Dial)' = Left(Dial),
           sock' = "none" => sock = "none" /\ Left({"open"})' = Left({"open"}),
           wish' = "keep" => wish = "keep" /\ (reconnect => reconnect') /\ (Known' => Known)
    PROVE  TokenInv' /\ (KeepInv => KeepInv')
  BY DEF TokenInv, KeepInv

\* A step on the session in use: n is what it adds to the outstanding I/O.
Free == {"recv", "wsaRecv", "send", "wsaSend", "disconnect", "stop", "release"}
Serves(t, h, k, a, b, c, n) ==
    /\ Moves(t, h, k, a, b, c)
    /\ h \in Using /\ k \in {"bottom", "recv"} /\ a \in Opt(Free) /\ b \in Opt(Free) /\ c \in Opt(Free)
    /\ io' \in IoType /\ io'["accept"] = Idle /\ Count("reconnect")' = Count("reconnect")
    /\ n \in Nat /\ Outstanding' = Outstanding + n /\ refs' = refs + n + NetBal(h, k, a, b, c)
    /\ gen' = gen \/ (gen' = gen + 1 /\ h = "onConnected")

Neutral(h, k, a, b, c) ==
    /\ Net(Chain, h, k, a, b, c) = 0 /\ Net(Dial, h, k, a, b, c) = 0 /\ Net({"open"}, h, k, a, b, c) = 0
    /\ Net({"onConnected"}, h, k, a, b, c) <= 0 /\ NetBal(h, k, a, b, c) \in Int
    /\ Net({"onConnected"}, h, k, a, b, c) \in Int
    /\ a \in Opt(Steps \ Lying) /\ b \in Opt(Steps \ Lying) /\ c \in Opt(Steps \ Lying)
    /\ "open" \notin {a, b, c} /\ a \in Opt(Busy) /\ b \in Opt(Busy) /\ c \in Opt(Busy)
    /\ h \in Busy \ {"release"} /\ k \in Opt(Busy \ {"release"})

LEMMA ServesNets ==
    ASSUME NEW h \in Using, NEW k \in {"bottom", "recv"}, NEW a \in Opt(Free), NEW b \in Opt(Free), NEW c \in Opt(Free)
    PROVE  Neutral(h, k, a, b, c)
<1>1. ASSUME NEW P \in {Chain, Dial, {"open"}}, NEW x \in Using \cup Opt(Free)
      PROVE  In(x, P) = 0
  BY <1>1 DEF In, Chain, Dial, Using, Opt, Free
<1>2. k \in Opt(Free)
  BY DEF Opt, Free
<1>3. ASSUME NEW P \in {Chain, Dial, {"open"}}
      PROVE  Net(P, h, k, a, b, c) = 0
  <2>1. In(h, P) = 0 /\ In(k, P) = 0 /\ In(a, P) = 0 /\ In(b, P) = 0 /\ In(c, P) = 0
    BY <1>1, <1>2, <1>3
  <2> QED
    BY <2>1 DEF Net
<1>4. Net({"onConnected"}, h, k, a, b, c) <= 0 /\ Net({"onConnected"}, h, k, a, b, c) \in Int
  <2>1. In(k, {"onConnected"}) = 0 /\ In(a, {"onConnected"}) = 0 /\ In(b, {"onConnected"}) = 0 /\ In(c, {"onConnected"}) = 0
    BY DEF In, Opt, Free
  <2>2. In(h, {"onConnected"}) \in Nat
    BY InType
  <2> QED
    BY <2>1, <2>2 DEF Net
<1>5. NetBal(h, k, a, b, c) \in Int
  <2>1. ASSUME NEW P
        PROVE  Net(P, h, k, a, b, c) \in Int
    <3>1. In(h, P) \in Nat /\ In(k, P) \in Nat /\ In(a, P) \in Nat /\ In(b, P) \in Nat /\ In(c, P) \in Nat
      BY InType
    <3> QED
      BY <3>1 DEF Net
  <2>2. Net({"release"}, h, k, a, b, c) \in Int /\ Net({"hold"}, h, k, a, b, c) \in Int
    BY <2>1
  <2> QED
    BY <2>2 DEF NetBal
<1>6. Free \subseteq Steps \ Lying /\ "open" \notin Opt(Free) /\ Free \subseteq Busy
  BY DEF Free, Steps, Lying, Busy, Using, Parting, Opt
<1>7. Using \subseteq Busy \ {"release"}
  BY DEF Busy, Using
<1>8. "recv" \in Busy \ {"release"}
  BY DEF Busy, Using
<1> QED
  BY <1>3, <1>4, <1>5, <1>6, <1>7, <1>8 DEF Opt, Neutral

LEMMA UsingWorks ==
    ASSUME TypeInv, QuietInv, NEW t \in Threads, NEW h \in Using \cup {"initialize", "addSession"}, OnTop(h, stack[t])
    PROVE  Works(stack[t]) /\ Solid(stack[t])
<1>1. stack[t] \in Seq(Steps) /\ Shaped(stack[t])
  BY DEF TypeInv, QuietInv
<1>2. stack[t] # <<>> /\ Head(stack[t]) = h
  BY DEF OnTop, Using
<1>3. ~Rests(stack[t]) /\ h # "hold"
  BY <1>2 DEF Rests, Using
<1>4. ~Closes(stack[t])
  BY <1>2 DEF Closes, Cancelling, On, Using, Final, Nested
<1> QED
  BY <1>1, <1>2, <1>3, <1>4, WorksBal DEF Shaped

LEMMA ServesKeeps ==
    ASSUME ConnectorsAssumption, IInv, NEW t \in Threads, NEW h, NEW k, NEW a, NEW b, NEW c, NEW n,
           Serves(t, h, k, a, b, c, n), UNCHANGED <<sock, listed, calls, reconnect, wish>>
    PROVE  IInv'
<1>1. TypeInv /\ TokenInv /\ (Lossless => KeepInv) /\ (calls = 0 => QuietInv)
  BY DEF IInv
<1>2. Neutral(h, k, a, b, c)
  BY ServesNets DEF Serves
<1>3. a \in Opt(Steps) /\ b \in Opt(Steps) /\ c \in Opt(Steps)
  BY <1>2 DEF Opt, Neutral
<1>4. Moves(t, h, k, a, b, c) /\ Has(h, k, stack[t]) /\ Good(Table, stack[t]) /\ stack[t] \in Seq(Steps)
  BY <1>1 DEF Serves, Moves, TypeInv
<1>5. TypeInv'
  <2>1. Linked(Table, a, b, c, Top(Under(h, k, stack[t])))
    BY <1>2, <1>4, EasyLinked DEF Neutral
  <2>2. refs' \in Int /\ gen' \in Nat /\ calls' \in Nat /\ listed' \in BOOLEAN
    BY <1>1, <1>2 DEF Serves, TypeInv, Neutral
  <2> QED
    BY <1>1, <1>2, <1>3, <1>4, <2>1, <2>2, TypeMoves DEF Serves, Neutral
<1>6. TokenInv' /\ (Lossless => KeepInv')
  <2>1. /\ Linking \in Nat
        /\ Linking' = Linking + Net(Chain, h, k, a, b, c) + Count("reconnect")' - Count("reconnect") + Shown' - Shown
        /\ Left(Dial) \in Nat /\ Left(Dial)' = Left(Dial) + Net(Dial, h, k, a, b, c)
        /\ Left({"open"}) \in Nat /\ Left({"open"})' = Left({"open"}) + Net({"open"}, h, k, a, b, c)
        /\ Left({"onConnected"}) \in Nat /\ Left({"onConnected"})' \in Nat
        /\ Left({"onConnected"})' = Left({"onConnected"}) + Net({"onConnected"}, h, k, a, b, c)
    BY <1>1, <1>3, <1>4, <1>5, TokenMoves
  <2>2. Shown' = Shown /\ Shown \in Nat /\ Count("reconnect")' = Count("reconnect") /\ Count("reconnect") \in Nat
    BY <1>1, OutstandingType DEF Shown, Serves, TypeInv, IoType, Kinds
  <2>3. Linking' = Linking /\ Left(Dial)' = Left(Dial) /\ Left({"open"})' = Left({"open"})
    BY <1>2, <2>1, <2>2 DEF Neutral
  <2>4. Known' => Known
    <3>1. CASE gen' = gen + 1 /\ h = "onConnected"
      <4>1. At(t, "onConnected")
        BY <1>4, <3>1 DEF Has, OnTop, At
      <4>2. Left({"onConnected"}) >= 1
        BY <1>1, <4>1, LeftAt
      <4> QED
        BY <2>1, <4>2 DEF Known
    <3>2. CASE gen' = gen
      BY <1>2, <2>1, <3>2 DEF Known, Neutral
    <3> QED
      BY <3>1, <3>2 DEF Serves
  <2> QED
    BY <1>1, <2>3, <2>4, TokenSame
<1>7. ASSUME calls = 0
      PROVE  QuietInv'
  <2>1. Works(stack[t]) /\ Solid(stack[t])
    BY <1>1, <1>4, <1>7, UsingWorks DEF Has, Serves
  <2>2. Solid(stack'[t])
    <3>1. stack'[t] = Turned(h, k, a, b, c, stack[t])
      BY <1>1, <1>3, <1>4, MovesType DEF TypeInv
    <3>2. /\ h \in Busy \ {"release"} /\ k \in Opt(Busy \ {"release"})
          /\ a \in Opt(Busy) /\ b \in Opt(Busy) /\ c \in Opt(Busy)
      BY <1>2 DEF Neutral
    <3>3. stack[t] \in Seq(Steps) /\ Solid(stack[t]) /\ Has(h, k, stack[t])
      BY <1>4, <2>1
    <3>4. Solid(Turned(h, k, a, b, c, stack[t]))
      BY ONLY <3>2, <3>3, SolidTurned
    <3> QED
      BY ONLY <3>1, <3>4
  <2>3. sock' # "none"
    BY <1>1, <1>7, <2>1, WorkersKeep
  <2> QED
    BY <1>1, <1>3, <1>4, <1>7, <2>1, <2>2, <2>3, WorkStep DEF Serves, Works
<1> QED
  BY <1>5, <1>6, <1>7 DEF IInv

-----------------------------------------------------------------------------
(***************************************************************************)
(* The steps on the session in use                                         *)
(***************************************************************************)
LEMMA IoSame ==
    ASSUME TypeInv, io' = io
    PROVE  /\ io' \in IoType /\ io'["accept"] = Idle /\ Outstanding \in Nat /\ Outstanding' = Outstanding
           /\ Count("reconnect")' = Count("reconnect")
<1>1. Outstanding \in Nat
  BY OutstandingType DEF TypeInv, IoType
<1> QED
  BY <1>1 DEF TypeInv, Outstanding, Count

LEMMA IoAborted ==
    ASSUME TypeInv, NEW ks, io' = Aborted(ks)
    PROVE  /\ io' \in IoType /\ io'["accept"] = Idle /\ Outstanding \in Nat /\ Outstanding' = Outstanding
           /\ Count("reconnect")' = Count("reconnect")
<1>1. io \in IoType /\ io["accept"] = Idle /\ Outstanding \in Nat
  BY OutstandingType DEF TypeInv, IoType
<1>2. io' \in IoType /\ \A x \in Kinds : Count(x)' = Count(x)
  BY <1>1, AbortedCounts
<1>3. io'["accept"] = Idle
  <2>1. Idle \in [pending : Nat, done : Nat, zero : Nat] /\ Idle.pending = 0 /\ Idle.done = 0 /\ Idle.zero = 0
    BY DEF Idle
  <2>2. CASE "accept" \in ks
    <3>1. PICK e : e = Idle
      OBVIOUS
    <3>2. PICK f : f = [e EXCEPT !.pending = 0, !.zero = @ + e.pending]
      OBVIOUS
    <3>3. io'["accept"] = f
      BY <1>1, <2>2, <3>1, <3>2 DEF Aborted, Kinds
    <3>4. f \in [pending : Nat, done : Nat, zero : Nat] /\ f.pending = 0 /\ f.done = e.done /\ f.zero = e.zero + e.pending
      BY <2>1, <3>1, <3>2, EntryAborted
    <3>5. f.done = 0 /\ f.zero = 0
      BY <2>1, <3>1, <3>4
    <3>6. f = Idle
      BY <3>4, <3>5 DEF Idle
    <3> QED
      BY <3>3, <3>6
  <2>3. CASE "accept" \notin ks
    BY <1>1, <2>3 DEF Aborted, Kinds
  <2> QED
    BY <2>2, <2>3
<1> QED
  BY <1>1, <1>2, <1>3 DEF Outstanding, Kinds

LEMMA IoPosted ==
    ASSUME TypeInv, NEW k \in {"recv", "send"}, io' = Posted(k)
    PROVE  /\ io' \in IoType /\ io'["accept"] = Idle /\ Outstanding \in Nat /\ Outstanding' = Outstanding + 1
           /\ Count("reconnect")' = Count("reconnect")
<1>1. io \in IoType /\ io["accept"] = Idle /\ Outstanding \in Nat /\ \A x \in Kinds : Count(x) \in Nat
  BY OutstandingType DEF TypeInv, IoType
<1>2. io' \in IoType /\ Count(k)' = Count(k) + 1 /\ \A x \in Kinds : x # k => Count(x)' = Count(x)
  BY <1>1, PostedCounts DEF Kinds
<1>3. io'["accept"] = Idle
  BY <1>1 DEF Posted, IoType, Kinds
<1>4. /\ Count("accept") \in Nat /\ Count("recv") \in Nat /\ Count("send") \in Nat
      /\ Count("accept")' = Count("accept") /\ Count("reconnect")' = Count("reconnect")
      /\ \/ Count("recv")' = Count("recv") + 1 /\ Count("send")' = Count("send")
         \/ Count("recv")' = Count("recv") /\ Count("send")' = Count("send") + 1
  BY <1>1, <1>2 DEF Kinds
<1>5. Outstanding' = Outstanding + 1
  BY <1>4 DEF Outstanding
<1> QED
  BY <1>1, <1>2, <1>3, <1>4, <1>5

\* What lies under a step that is done.
LEMMA TailLies ==
    ASSUME TypeInv, NEW t \in Threads, NEW x \in Lying, At(t, x)
    PROVE  stack[t] \in Seq(Steps) /\ Tail(stack[t]) # <<>> /\ Tail(stack[t]) \in Seq(Steps)
<1>1. Good(Table, stack[t]) /\ stack[t] # <<>> /\ Head(stack[t]) = x /\ stack[t] \in Seq(Steps)
  BY DEF TypeInv, At
<1>2. Top(Tail(stack[t])) \in Table[x]
  BY <1>1, GoodTail
<1>3. Top(Tail(stack[t])) # "bottom"
  BY <1>2, TableSteps
<1> QED
  BY <1>1, <1>3, TailProperties DEF Top

LEMMA ServesNone ==
    ASSUME ConnectorsAssumption, TypeInv, NEW t \in Threads, NEW x \in Using, At(t, x), Then(t, <<>>),
           io' = io, refs' = refs, gen' = gen \/ (gen' = gen + 1 /\ x = "onConnected")
    PROVE  Serves(t, x, "bottom", "bottom", "bottom", "bottom", 0)
<1>1. Moves(t, x, "bottom", "bottom", "bottom", "bottom")
  BY ThenNone DEF TypeInv, Using
<1>2. NetBal(x, "bottom", "bottom", "bottom", "bottom") = 0
  BY DEF NetBal, Net, In, Using
<1>3. refs \in Int
  BY DEF TypeInv
<1> QED
  BY <1>1, <1>2, <1>3, IoSame DEF Serves, Opt

LEMMA ServesOne ==
    ASSUME ConnectorsAssumption, TypeInv, NEW t \in Threads, NEW x \in Using, At(t, x),
           NEW a \in Free \ {"release"}, Then(t, <<a>>),
           io' = io, refs' = refs, gen' = gen \/ (gen' = gen + 1 /\ x = "onConnected")
    PROVE  Serves(t, x, "bottom", a, "bottom", "bottom", 0)
<1>1. Moves(t, x, "bottom", a, "bottom", "bottom")
  BY ThenOne DEF TypeInv, Using, Free
<1>2. NetBal(x, "bottom", a, "bottom", "bottom") = 0
  BY DEF NetBal, Net, In, Using, Free
<1>3. refs \in Int
  BY DEF TypeInv
<1> QED
  BY <1>1, <1>2, <1>3, IoSame DEF Serves, Opt

\* OnConnected and Message call what the callback calls.
LEMMA CallbackServes ==
    ASSUME ConnectorsAssumption, TypeInv, NEW t \in Threads, NEW x \in Using, At(t, x),
           \E cb \in Callback : Then(t, cb),
           io' = io, refs' = refs, gen' = gen \/ (gen' = gen + 1 /\ x = "onConnected")
    PROVE  \E a : Serves(t, x, "bottom", a, "bottom", "bottom", 0)
<1>1. PICK cb \in {<<>>, <<"send">>, <<"stop">>} : Then(t, cb)
  BY DEF Callback, ConnectorsAssumption
<1>2. CASE cb = <<>>
  BY <1>1, <1>2, ServesNone
<1>3. CASE cb = <<"send">>
  BY <1>1, <1>3, ServesOne DEF Free
<1>4. CASE cb = <<"stop">>
  BY <1>1, <1>4, ServesOne DEF Free
<1> QED
  BY <1>1, <1>2, <1>3, <1>4

\* A call of the system that fails: Disconnect and Release.
LEMMA FailServes ==
    ASSUME ConnectorsAssumption, TypeInv, NEW t \in Threads, NEW x \in Using, At(t, x),
           Then(t, <<"disconnect", "release">>), io' = io, refs' = refs + 1, gen' = gen
    PROVE  Serves(t, x, "bottom", "disconnect", "release", "bottom", 0)
<1>1. Moves(t, x, "bottom", "disconnect", "release", "bottom")
  <2>1. "disconnect" \in Steps /\ "release" \in Steps /\ x # "bottom"
    BY DEF Steps, Busy, Parting, Using
  <2> QED
    BY <2>1, ThenTwo DEF TypeInv
<1>2. NetBal(x, "bottom", "disconnect", "release", "bottom") = 1
  BY DEF NetBal, Net, In, Using
<1>3. refs \in Int
  BY DEF TypeInv
<1> QED
  BY <1>1, <1>2, <1>3, IoSame DEF Serves, Opt, Free

\* A call that is posted.
LEMMA PostServes ==
    ASSUME ConnectorsAssumption, TypeInv, NEW t \in Threads, NEW x \in Using, At(t, x),
           Then(t, <<>>), NEW k \in {"recv", "send"}, io' = Posted(k), refs' = refs + 1, gen' = gen
    PROVE  Serves(t, x, "bottom", "bottom", "bottom", "bottom", 1)
<1>1. Moves(t, x, "bottom", "bottom", "bottom", "bottom")
  BY ThenNone DEF TypeInv, Using
<1>2. NetBal(x, "bottom", "bottom", "bottom", "bottom") = 0
  BY DEF NetBal, Net, In, Using
<1>3. refs \in Int
  BY DEF TypeInv
<1> QED
  BY <1>1, <1>2, <1>3, IoPosted DEF Serves, Opt

\* A message that is refused.
LEMMA SkipServes ==
    ASSUME ConnectorsAssumption, TypeInv, NEW t \in Threads, At(t, "message"),
           ThenSkip(t, "recv", <<"disconnect">>), io' = io, refs' = refs, gen' = gen
    PROVE  Serves(t, "message", "recv", "disconnect", "bottom", "bottom", 0)
<1>1. Moves(t, "message", "recv", "disconnect", "bottom", "bottom")
  BY TailLies, ThenSkipOne DEF TypeInv, Lying
<1>2. NetBal("message", "recv", "disconnect", "bottom", "bottom") = 0
  BY DEF NetBal, Net, In
<1>3. refs \in Int
  BY DEF TypeInv
<1> QED
  BY <1>1, <1>2, <1>3, IoSame DEF Serves, Opt, Free, Using

ServingStep(t) == OnConnected(t) \/ Receiving(t) \/ Sending(t)

LEMMA ServingKeeps ==
    ASSUME ConnectorsAssumption, IInv, NEW t \in Threads, ServingStep(t), UNCHANGED ownVars
    PROVE  IInv'
<1>0. TypeInv /\ UNCHANGED <<reconnect, wish>>
  BY DEF IInv, ownVars
<1> SUFFICES /\ UNCHANGED <<sock, listed, calls>>
             /\ \E h, k, a, b, c, n : Serves(t, h, k, a, b, c, n)
  BY <1>0, ServesKeeps
<1>1. CASE OnConnected(t)
  <2>1. \E a : Serves(t, "onConnected", "bottom", a, "bottom", "bottom", 0)
    BY <1>0, <1>1, CallbackServes DEF OnConnected, Using
  <2> QED
    BY <1>1, <2>1 DEF OnConnected
<1>2. CASE Message(t)
  <2>1. \E a : Serves(t, "message", "bottom", a, "bottom", "bottom", 0)
    BY <1>0, <1>2, CallbackServes DEF Message, Using
  <2> QED
    BY <1>2, <2>1 DEF Message
<1>3. CASE BadMessage(t)
  <2>1. Serves(t, "message", "recv", "disconnect", "bottom", "bottom", 0)
    BY <1>0, <1>3, SkipServes DEF BadMessage, ConnectorsAssumption
  <2> QED
    BY <1>3, <2>1 DEF BadMessage
<1>4. CASE Recv(t)
  <2>1. CASE flag
    <3>1. Serves(t, "recv", "bottom", "bottom", "bottom", "bottom", 0)
      BY <1>0, <1>4, <2>1, ServesNone DEF Recv, Using
    <3> QED
      BY <1>4, <3>1 DEF Recv
  <2>2. CASE ~flag
    <3>1. Serves(t, "recv", "bottom", "wsaRecv", "bottom", "bottom", 0)
      BY <1>0, <1>4, <2>2, ServesOne DEF Recv, Using, Free
    <3> QED
      BY <1>4, <3>1 DEF Recv
  <2> QED
    BY <2>1, <2>2
<1>5. CASE WsaRecvOk(t)
  <2>1. Serves(t, "wsaRecv", "bottom", "bottom", "bottom", "bottom", 1)
    BY <1>0, <1>5, PostServes DEF WsaRecvOk, Using, Reference
  <2> QED
    BY <1>5, <2>1 DEF WsaRecvOk
<1>6. CASE WsaRecvFails(t)
  <2>1. Serves(t, "wsaRecv", "bottom", "disconnect", "release", "bottom", 0)
    BY <1>0, <1>6, FailServes DEF WsaRecvFails, Using, Reference
  <2> QED
    BY <1>6, <2>1 DEF WsaRecvFails
<1>7. CASE SendIdle(t)
  <2>1. Serves(t, "send", "bottom", "wsaSend", "bottom", "bottom", 0)
    BY <1>0, <1>7, ServesOne DEF SendIdle, Using, Free
  <2> QED
    BY <1>7, <2>1 DEF SendIdle
<1>8. CASE SendBehind(t)
  <2>1. Serves(t, "send", "bottom", "bottom", "bottom", "bottom", 0)
    BY <1>0, <1>8, ServesNone DEF SendBehind, Using
  <2> QED
    BY <1>8, <2>1 DEF SendBehind
<1>9. CASE WsaSendOk(t)
  <2>1. Serves(t, "wsaSend", "bottom", "bottom", "bottom", "bottom", 1)
    BY <1>0, <1>9, PostServes DEF WsaSendOk, Using, Reference
  <2> QED
    BY <1>9, <2>1 DEF WsaSendOk
<1>10. CASE WsaSendFails(t)
  <2>1. Serves(t, "wsaSend", "bottom", "disconnect", "release", "bottom", 0)
    BY <1>0, <1>10, FailServes DEF WsaSendFails, Using, Reference
  <2> QED
    BY <1>10, <2>1 DEF WsaSendFails
<1>11. CASE Sended(t)
  <2>1. CASE more
    <3>1. Serves(t, "sended", "bottom", "wsaSend", "bottom", "bottom", 0)
      BY <1>0, <1>11, <2>1, ServesOne DEF Sended, Using, Free
    <3> QED
      BY <1>11, <3>1 DEF Sended
  <2>2. CASE ~more
    <3>1. Serves(t, "sended", "bottom", "bottom", "bottom", "bottom", 0)
      BY <1>0, <1>11, <2>2, ServesNone DEF Sended, Using
    <3> QED
      BY <1>11, <3>1 DEF Sended
  <2> QED
    BY <2>1, <2>2
<1> QED
  BY <1>1, <1>2, <1>3, <1>4, <1>5, <1>6, <1>7, <1>8, <1>9, <1>10, <1>11
  DEF ServingStep, Receiving, Sending

-----------------------------------------------------------------------------
(***************************************************************************)
(* Steps that leave the connection, or what leads to one, where it is      *)
(***************************************************************************)
Typed(t, h, k, a, b, c) ==
    /\ Moves(t, h, k, a, b, c) /\ a \in Opt(Steps) /\ b \in Opt(Steps) /\ c \in Opt(Steps)
    /\ Linked(Table, a, b, c, Top(Under(h, k, stack[t])))
    /\ t \in Workers => "open" \notin {a, b, c}
    /\ io' \in IoType /\ io'["accept"] = Idle /\ refs' \in Int /\ gen' \in Nat /\ calls' \in Nat /\ listed' \in BOOLEAN

Steady(t, h, k, a, b, c) ==
    /\ Typed(t, h, k, a, b, c)
    /\ Net(Chain, h, k, a, b, c) + Count("reconnect")' - Count("reconnect") + Shown' - Shown = 0
    /\ Net(Dial, h, k, a, b, c) = 0
    /\ sock' = "none" => sock = "none" /\ Net({"open"}, h, k, a, b, c) = 0
    /\ wish' = "keep" => wish = "keep" /\ (reconnect => reconnect')
    /\ h \in Chain \/ (gen' = gen /\ Net({"onConnected"}, h, k, a, b, c) = 0)

LEMMA NetType == ASSUME NEW P, NEW h, NEW k, NEW a, NEW b, NEW c
                 PROVE  Net(P, h, k, a, b, c) \in Int
<1>1. In(h, P) \in Nat /\ In(k, P) \in Nat /\ In(a, P) \in Nat /\ In(b, P) \in Nat /\ In(c, P) \in Nat
  BY InType
<1> QED
  BY <1>1 DEF Net

\* Everything TokenInv is about is a number.
LEMMA Numbers ==
    ASSUME TypeInv, TypeInv'
    PROVE  /\ Count("reconnect") \in Nat /\ Count("reconnect")' \in Nat /\ Shown \in Nat /\ Shown' \in Nat
<1>1. Count("reconnect") \in Nat
  BY OutstandingType DEF TypeInv, IoType, Kinds
<1>2. io'["reconnect"] \in [pending : Nat, done : Nat, zero : Nat]
  BY DEF TypeInv, IoType, Kinds
<1>3. Count("reconnect")' \in Nat
  BY <1>2 DEF Count
<1> QED
  BY <1>1, <1>3 DEF Shown

LEMMA TypedKeeps ==
    ASSUME ConnectorsAssumption, TypeInv, NEW t \in Threads, NEW h, NEW k, NEW a, NEW b, NEW c,
           Typed(t, h, k, a, b, c)
    PROVE  TypeInv'
  BY TypeMoves DEF Typed

LEMMA SteadyKeeps ==
    ASSUME ConnectorsAssumption, TypeInv, TokenInv, NEW t \in Threads,
           NEW h, NEW k, NEW a, NEW b, NEW c, Steady(t, h, k, a, b, c)
    PROVE  TypeInv' /\ TokenInv' /\ (KeepInv => KeepInv')
<1>1. TypeInv'
  BY TypedKeeps DEF Steady
<1>2. /\ Linking \in Nat /\ Linking' \in Nat
      /\ Linking' = Linking + Net(Chain, h, k, a, b, c) + Count("reconnect")' - Count("reconnect") + Shown' - Shown
      /\ Left(Dial) \in Nat /\ Left(Dial)' = Left(Dial) + Net(Dial, h, k, a, b, c)
      /\ Left({"open"}) \in Nat /\ Left({"open"})' = Left({"open"}) + Net({"open"}, h, k, a, b, c)
      /\ Left({"onConnected"}) \in Nat /\ Left({"onConnected"})' \in Nat
      /\ Left({"onConnected"})' = Left({"onConnected"}) + Net({"onConnected"}, h, k, a, b, c)
  BY <1>1, TokenMoves DEF Steady, Typed
<1>3. /\ Net(Chain, h, k, a, b, c) \in Int
      /\ Count("reconnect") \in Nat /\ Count("reconnect")' \in Nat /\ Shown \in Nat /\ Shown' \in Nat
  BY <1>1, NetType, Numbers
<1>4. Linking' = Linking /\ Left(Dial)' = Left(Dial)
  <2>1. /\ Net(Chain, h, k, a, b, c) + Count("reconnect")' - Count("reconnect") + Shown' - Shown = 0
        /\ Net(Dial, h, k, a, b, c) = 0
    BY DEF Steady
  <2>2. /\ Linking \in Nat /\ Linking' \in Nat
        /\ Linking' = Linking + Net(Chain, h, k, a, b, c) + Count("reconnect")' - Count("reconnect") + Shown' - Shown
    BY <1>2
  <2>3. Linking' = Linking
    <3>1. PICK l \in Nat, l2 \in Nat, n \in Int, d \in Nat, d2 \in Nat, s \in Nat, s2 \in Nat :
             /\ l = Linking /\ l2 = Linking' /\ n = Net(Chain, h, k, a, b, c)
             /\ d = Count("reconnect") /\ d2 = Count("reconnect")' /\ s = Shown /\ s2 = Shown'
      BY <1>3, <2>2
    <3>2. l2 = l + n + d2 - d + s2 - s /\ n + d2 - d + s2 - s = 0
      BY <2>1, <2>2, <3>1
    <3>3. l2 = l
      BY ONLY <3>2
    <3> QED
      BY <3>1, <3>3
  <2>4. Left(Dial) \in Nat /\ Left(Dial)' = Left(Dial) + 0
    BY <1>2, <2>1
  <2> QED
    BY ONLY <2>3, <2>4
<1>5. TokenInv'
  BY <1>2, <1>4 DEF Steady, TokenInv
<1>6. Known' => Known \/ Linking > 0
  <2>1. CASE gen' = gen /\ Net({"onConnected"}, h, k, a, b, c) = 0
    BY <1>2, <2>1 DEF Known
  <2>2. CASE h \in Chain
    <3>1. At(t, h)
      BY <2>2, Named DEF Steady, Typed, Moves, Has, OnTop, At
    <3>2. Left(Chain) \in Nat /\ Left(Chain) >= 1
      BY <2>2, <3>1, LeftAt
    <3> QED
      BY <1>3, <3>2 DEF Linking
  <2> QED
    BY <2>1, <2>2 DEF Steady
<1> QED
  BY <1>1, <1>4, <1>5, <1>6 DEF KeepInv, Steady

-----------------------------------------------------------------------------
(***************************************************************************)
(* Disconnect                                                              *)
(***************************************************************************)
\* What a step of Disconnect puts in its place.
Follows == {<<"stop", "disconnect", "bottom", "bottom">>, <<"disconnect", "isValid", "bottom", "bottom">>,
            <<"isValid", "hold", "cancel", "release">>, <<"hold", "bottom", "bottom", "bottom">>,
            <<"cancel", "bottom", "bottom", "bottom">>}

LEMMA PartShape ==
    ASSUME NEW s \in Seq(Steps), s # <<>>, Shaped(s), NEW a, NEW b, NEW c, <<Head(s), a, b, c>> \in Follows,
           NEW r, r = Turned(Head(s), "bottom", a, b, c, s)
    PROVE  (Works(s) /\ Works(r)) \/ (Closes(s) /\ Closes(r))
<1>1. PICK h : h = Head(s)
  OBVIOUS
<1>2. PICK q \in Seq(Steps) : q = Tail(s)
  BY TailProperties
<1>3. "stop" \in Busy /\ "disconnect" \in Busy /\ "isValid" \in Busy /\ "cancel" \in Busy /\ "release" \in Busy
      /\ "stop" \in Nested /\ "disconnect" \in Nested /\ "isValid" \in Nested /\ "release" \in Nested
      /\ "cancel" \notin Nested /\ Final \cap Busy = {} /\ "hold" \notin Final \cup Nested \cup Busy
  BY DEF Busy, Parting, Nested, Final, Using
<1>4. \/ h = "stop" /\ r = <<"disconnect">> \o q
      \/ h = "disconnect" /\ r = <<"isValid">> \o q
      \/ h = "isValid" /\ r = <<"hold">> \o (<<"cancel">> \o (<<"release">> \o q))
      \/ h = "hold" /\ r = q
      \/ h = "cancel" /\ r = q
  <2>1. r = Turned(h, "bottom", a, b, c, s) /\ <<h, a, b, c>> \in Follows /\ q = Tail(s)
    BY <1>1, <1>2
  <2>2. CASE <<h, a, b, c>> = <<"isValid", "hold", "cancel", "release">>
    BY <2>1, <2>2 DEF Turned, Under, Off, Put
  <2>3. CASE <<h, a, b, c>> = <<"stop", "disconnect", "bottom", "bottom">>
    BY <2>1, <2>3 DEF Turned, Under, Off, Put
  <2>4. CASE <<h, a, b, c>> = <<"disconnect", "isValid", "bottom", "bottom">>
    BY <2>1, <2>4 DEF Turned, Under, Off, Put
  <2>5. CASE <<h, a, b, c>> = <<"hold", "bottom", "bottom", "bottom">>
    BY <2>1, <2>5 DEF Turned, Under, Off, Put
  <2>6. CASE <<h, a, b, c>> = <<"cancel", "bottom", "bottom", "bottom">>
    BY <2>1, <2>6 DEF Turned, Under, Off, Put
  <2> QED
    BY <2>1, <2>2, <2>3, <2>4, <2>5, <2>6 DEF Follows
<1>5. ~Rests(s)
  BY <1>1, <1>4 DEF Rests
<1>6. ASSUME NEW x \in Steps, NEW p \in Seq(Steps)
      PROVE  <<x>> \o p # <<>> /\ Head(<<x>> \o p) = x /\ Tail(<<x>> \o p) = p /\ <<x>> \o p \in Seq(Steps)
  BY PushProperties
<1>7. {"disconnect", "isValid", "hold", "cancel", "release"} \subseteq Steps
  BY DEF Steps, Busy, Parting
<1>8. ASSUME Closes(s)
      PROVE  Closes(r)
  <2>1. CASE h \in {"stop", "disconnect", "isValid"}
    <3>1. Onward(q)
      BY <1>1, <1>2, <1>3, <1>8, <2>1 DEF Closes, Cancelling, On
    <3>2. CASE h = "stop"
      <4>1. r = <<"disconnect">> \o q
        BY <1>4, <3>2
      <4>2. r # <<>> /\ Head(r) = "disconnect" /\ Tail(r) = q
        BY <1>6, <1>7, <4>1
      <4> QED
        BY <1>3, <3>1, <4>2 DEF Closes
    <3>3. CASE h = "disconnect"
      <4>1. r = <<"isValid">> \o q
        BY <1>4, <3>3
      <4>2. r # <<>> /\ Head(r) = "isValid" /\ Tail(r) = q
        BY <1>6, <1>7, <4>1
      <4> QED
        BY <1>3, <3>1, <4>2 DEF Closes
    <3>4. CASE h = "isValid"
      <4>1. PICK r1 : r1 = <<"release">> \o q /\ r1 # <<>> /\ Head(r1) = "release" /\ Tail(r1) = q /\ r1 \in Seq(Steps)
        BY <1>6, <1>7
      <4>2. PICK r2 : r2 = <<"cancel">> \o r1 /\ r2 # <<>> /\ Head(r2) = "cancel" /\ Tail(r2) = r1 /\ r2 \in Seq(Steps)
        <5>1. "cancel" \in Steps /\ r1 \in Seq(Steps)
          BY <1>7, <4>1
        <5> QED
          BY <1>6, <5>1
      <4>3. r = <<"hold">> \o r2
        BY <1>4, <3>4, <4>1, <4>2
      <4>4. r # <<>> /\ Head(r) = "hold" /\ Tail(r) = r2
        BY <1>6, <1>7, <4>2, <4>3
      <4> QED
        BY <3>1, <4>1, <4>2, <4>4 DEF Closes, Cancelling, Letting, On
    <3> QED
      BY <2>1, <3>2, <3>3, <3>4
  <2>2. CASE h = "hold"
    <3>1. Cancelling(q) /\ r = q
      BY <1>1, <1>2, <1>3, <1>4, <1>8, <2>2 DEF Closes, Cancelling, On
    <3> QED
      BY <3>1 DEF Closes, Cancelling, On
  <2>3. CASE h = "cancel"
    <3>1. Letting(q) /\ r = q
      BY <1>1, <1>2, <1>3, <1>4, <1>8, <2>3 DEF Closes, Cancelling, On
    <3> QED
      BY <1>3, <3>1 DEF Closes, Letting, On
  <2> QED
    BY <1>4, <2>1, <2>2, <2>3
<1>9. ASSUME Works(s)
      PROVE  Works(r)
  <2>1. CASE h = "hold"
    <3>1. ~Solid(s)
      BY <1>1, <1>3, <2>1, SolidTail
    <3>2. Solid(q) /\ r = q
      BY <1>2, <1>4, <1>9, <2>1, <3>1 DEF Works
    <3> QED
      BY <3>2 DEF Works
  <2>2. CASE h # "hold"
    <3>1. Solid(s)
      BY <1>1, <1>9, <2>2, WorksBal
    <3>2. Solid(q) /\ h # "release"
      BY <1>1, <1>2, <1>4, <2>2, <3>1, SolidTail
    <3>3. CASE h # "isValid"
      <4>1. Solid(r)
        BY <1>3, <1>4, <2>2, <3>2, <3>3, SolidPush
      <4> QED
        BY <4>1 DEF Works
    <3>4. CASE h = "isValid"
      <4>1. PICK r1 : r1 = <<"release">> \o q /\ r1 # <<>> /\ Head(r1) = "release" /\ Tail(r1) = q /\ r1 \in Seq(Steps)
        BY <1>6, <1>7
      <4>2. PICK r2 : r2 = <<"cancel">> \o r1 /\ r2 # <<>> /\ Head(r2) = "cancel" /\ Tail(r2) = r1 /\ r2 \in Seq(Steps)
        <5>1. "cancel" \in Steps /\ r1 \in Seq(Steps)
          BY <1>7, <4>1
        <5> QED
          BY <1>6, <5>1
      <4>3. r = <<"hold">> \o r2
        BY <1>4, <3>4, <4>1, <4>2
      <4>4. r # <<>> /\ Head(r) = "hold" /\ Tail(r) = r2
        BY <1>6, <1>7, <4>2, <4>3
      <4>5. Solid(r1)
        BY <1>3, <3>2, <4>1, SolidPush
      <4>6. Solid(r2)
        BY <1>3, <4>1, <4>2, <4>5, SolidPush
      <4>7. Bal(q) \in Nat /\ Bal(q) >= 1
        BY <3>2, SolidBal
      <4>8. Bal(r1) = Bal(q) + In("release", {"release"}) - In("release", {"hold"})
        BY <4>1, BalNumber
      <4>9. Bal(r2) = Bal(r1) + In("cancel", {"release"}) - In("cancel", {"hold"})
        BY <4>2, BalNumber
      <4>10. /\ In("release", {"release"}) = 1 /\ In("release", {"hold"}) = 0
             /\ In("cancel", {"release"}) = 0 /\ In("cancel", {"hold"}) = 0
        BY DEF In
      <4>11. Bal(r2) >= 2
        BY <4>7, <4>8, <4>9, <4>10
      <4> QED
        BY <4>4, <4>6, <4>11 DEF Works, On
    <3> QED
      BY <3>3, <3>4
  <2> QED
    BY <2>1, <2>2
<1>10. Works(s) \/ Closes(s)
  BY <1>5 DEF Shaped
<1> QED
  BY <1>8, <1>9, <1>10

\* No step of Disconnect is one that leads to a connection.
LEMMA PartNets ==
    ASSUME NEW h, NEW a, NEW b, NEW c, <<h, a, b, c>> \in Follows \cup {<<"isValid", "bottom", "bottom", "bottom">>}
    PROVE  /\ Net(Chain, h, "bottom", a, b, c) = 0 /\ Net(Dial, h, "bottom", a, b, c) = 0
           /\ Net({"open"}, h, "bottom", a, b, c) = 0 /\ Net({"onConnected"}, h, "bottom", a, b, c) = 0
           /\ a \in Opt(Steps \ Lying) /\ b \in Opt(Steps \ Lying) /\ c \in Opt(Steps \ Lying)
           /\ "open" \notin {a, b, c}
           /\ NetBal(h, "bottom", a, b, c) = In(h, {"hold"})
<1> DEFINE D == Parting \cup {"hold", "release", "bottom"}
<1>1. h \in D /\ a \in D /\ b \in D /\ c \in D /\ "bottom" \in D
  BY DEF Follows, Parting
<1>2. ASSUME NEW P \in {Chain, Dial, {"open"}, {"onConnected"}}, NEW x \in D
      PROVE  In(x, P) = 0
  BY <1>2 DEF In, Chain, Dial, Parting
<1>3. D \subseteq Opt(Steps \ Lying) /\ "open" \notin D
  BY DEF Opt, Steps, Lying, Busy, Parting
<1> HIDE DEF D
<1>4. ASSUME NEW P \in {Chain, Dial, {"open"}, {"onConnected"}}
      PROVE  Net(P, h, "bottom", a, b, c) = 0
  <2>1. In(h, P) = 0 /\ In("bottom", P) = 0 /\ In(a, P) = 0 /\ In(b, P) = 0 /\ In(c, P) = 0
    BY <1>1, <1>2, <1>4
  <2> QED
    BY <2>1 DEF Net
<1>5. NetBal(h, "bottom", a, b, c) = In(h, {"hold"})
  BY DEF Follows, NetBal, Net, In
<1> QED
  BY <1>1, <1>3, <1>4, <1>5

Part(h, a, b, c) == \/ <<h, a, b, c>> \in Follows
                    \/ sock = "none" /\ <<h, a, b, c>> = <<"isValid", "bottom", "bottom", "bottom">>

LEMMA PartKeeps ==
    ASSUME ConnectorsAssumption, IInv, NEW t \in Threads, NEW h, NEW a, NEW b, NEW c,
           Part(h, a, b, c),
           Moves(t, h, "bottom", a, b, c), refs' = refs + In(h, {"hold"}),
           io' = io \/ io' = Aborted({"recv", "send"}),
           UNCHANGED <<sock, listed, gen, calls>>,
           (wish' = wish /\ reconnect' = reconnect) \/ wish' = "end"
    PROVE  IInv'
<1>1. TypeInv /\ TokenInv /\ (Lossless => KeepInv) /\ (calls = 0 => QuietInv)
  BY DEF IInv
<1>2. io' \in IoType /\ io'["accept"] = Idle /\ Outstanding \in Nat /\ Outstanding' = Outstanding
      /\ Count("reconnect")' = Count("reconnect")
  BY <1>1, IoSame, IoAborted
<1>3. /\ Net(Chain, h, "bottom", a, b, c) = 0 /\ Net(Dial, h, "bottom", a, b, c) = 0
      /\ Net({"open"}, h, "bottom", a, b, c) = 0 /\ Net({"onConnected"}, h, "bottom", a, b, c) = 0
      /\ a \in Opt(Steps \ Lying) /\ b \in Opt(Steps \ Lying) /\ c \in Opt(Steps \ Lying)
      /\ "open" \notin {a, b, c}
      /\ NetBal(h, "bottom", a, b, c) = In(h, {"hold"})
  BY PartNets DEF Part
<1>4. a \in Opt(Steps) /\ b \in Opt(Steps) /\ c \in Opt(Steps)
  BY <1>3 DEF Opt
<1>5. stack[t] \in Seq(Steps) /\ Good(Table, stack[t]) /\ Has(h, "bottom", stack[t])
  BY <1>1 DEF TypeInv, Moves
<1>6. h \in {"stop", "disconnect", "isValid", "hold", "cancel"} /\ stack[t] # <<>> /\ Head(stack[t]) = h
  <2>1. h \in {"stop", "disconnect", "isValid", "hold", "cancel"}
    BY DEF Follows, Part
  <2>2. h # "bottom"
    BY <2>1
  <2> QED
    BY <1>5, <2>1, <2>2 DEF Has, OnTop
<1>7. TypeInv' /\ TokenInv' /\ (KeepInv => KeepInv')
  <2>1. Linked(Table, a, b, c, Top(Under(h, "bottom", stack[t])))
    BY <1>3, <1>5, EasyLinked
  <2>2. refs' \in Int /\ gen' \in Nat /\ calls' \in Nat /\ listed' \in BOOLEAN
    BY <1>1, InType DEF TypeInv
  <2>3. Shown' = Shown /\ Shown \in Nat /\ Count("reconnect") \in Nat
    BY <1>1, OutstandingType DEF Shown, TypeInv, IoType, Kinds
  <2>4. Typed(t, h, "bottom", a, b, c)
    BY <1>2, <1>3, <1>4, <2>1, <2>2 DEF Typed
  <2>5. Steady(t, h, "bottom", a, b, c)
    BY <1>2, <1>3, <2>3, <2>4 DEF Steady
  <2> QED
    BY <1>1, <2>5, SteadyKeeps
<1>8. ASSUME calls = 0
      PROVE  QuietInv'
  <2>1. QuietInv /\ Shaped(stack[t])
    BY <1>1, <1>8 DEF QuietInv
  <2>2. stack'[t] = Turned(h, "bottom", a, b, c, stack[t]) /\ stack'[t] \in Seq(Steps)
    BY <1>1, <1>4, MovesType DEF TypeInv
  <2>3. ~Rests(stack[t]) /\ ~Opens(stack[t])
    BY <1>6 DEF Rests, Opens, On
  <2>4. sock # "none"
    BY <2>1, <2>3 DEF QuietInv, EndInv
  <2>5. \/ Works(stack[t]) /\ Works(stack'[t])
        \/ Closes(stack[t]) /\ Closes(stack'[t])
    <3>1. <<Head(stack[t]), a, b, c>> \in Follows
      BY <1>6, <2>4 DEF Part
    <3> QED
      BY <1>6, <2>1, <2>2, <3>1, <1>5, PartShape
  <2>6. CASE Works(stack[t]) /\ Works(stack'[t])
    <3>1. refs' = refs + 0 + NetBal(h, "bottom", a, b, c) /\ Outstanding' = Outstanding + 0
      BY <1>1, <1>2, <1>3, InType DEF TypeInv
    <3> QED
      BY <1>1, <1>2, <1>4, <2>1, <2>4, <2>6, <3>1, WorkStep
  <2>7. CASE Closes(stack[t]) /\ Closes(stack'[t])
    <3>1. Outstanding = 0 /\ Alone(t) /\ Count("reconnect") = 0
      BY <1>1, <2>1, <2>7, CloserAlone
    <3>2. refs' = refs + NetBal(h, "bottom", a, b, c)
      BY <1>3
    <3>3. ~(Count("reconnect")' > 0)
      BY <1>2, <3>1
    <3> QED
      BY <1>1, <1>2, <1>4, <2>1, <2>4, <2>7, <3>1, <3>2, <3>3, CloseStep DEF Shaped
  <2> QED
    BY <2>5, <2>6, <2>7
<1> QED
  BY <1>1, <1>7, <1>8 DEF IInv

PartingStep(t) == (Disconnecting(t) /\ UNCHANGED ownVars) \/ Stop(t)

LEMMA PartingKeeps ==
    ASSUME ConnectorsAssumption, IInv, NEW t \in Threads, PartingStep(t)
    PROVE  IInv'
<1>1. TypeInv /\ stack \in [Threads -> Seq(Steps)]
  BY DEF IInv, TypeInv
<1>2. refs \in Int
  BY <1>1 DEF TypeInv
<1>3. {"disconnect", "isValid", "hold", "cancel", "release"} \subseteq Steps
  BY DEF Steps, Busy, Parting
<1>4. CASE Disconnect(t) /\ UNCHANGED ownVars
  <2>1. Moves(t, "disconnect", "bottom", "isValid", "bottom", "bottom")
    BY <1>1, <1>4, ThenOne DEF Disconnect
  <2>2. In("disconnect", {"hold"}) = 0 /\ <<"disconnect", "isValid", "bottom", "bottom">> \in Follows
    BY DEF In, Follows
  <2> QED
    BY <1>2, <1>4, <2>1, <2>2, PartKeeps DEF Part, Disconnect, ownVars
<1>5. CASE IsValid(t) /\ UNCHANGED ownVars /\ sock = "none"
  <2>1. Moves(t, "isValid", "bottom", "bottom", "bottom", "bottom")
    BY <1>1, <1>5, ThenNone DEF IsValid
  <2>2. In("isValid", {"hold"}) = 0
    BY DEF In
  <2> QED
    <3>1. Part("isValid", "bottom", "bottom", "bottom")
      BY <1>5 DEF Part
    <3> QED
      BY <1>2, <1>5, <2>1, <2>2, <3>1, PartKeeps DEF IsValid, ownVars
<1>6. CASE IsValid(t) /\ UNCHANGED ownVars /\ sock # "none"
  <2>1. Moves(t, "isValid", "bottom", "hold", "cancel", "release")
    BY <1>1, <1>3, <1>6, ThenThree DEF IsValid
  <2>2. In("isValid", {"hold"}) = 0 /\ <<"isValid", "hold", "cancel", "release">> \in Follows
    BY DEF In, Follows
  <2> QED
    BY <1>2, <1>6, <2>1, <2>2, PartKeeps DEF Part, IsValid, ownVars
<1>7. CASE Hold(t) /\ UNCHANGED ownVars
  <2>1. Moves(t, "hold", "bottom", "bottom", "bottom", "bottom")
    BY <1>1, <1>7, ThenNone DEF Hold
  <2>2. In("hold", {"hold"}) = 1 /\ <<"hold", "bottom", "bottom", "bottom">> \in Follows
    BY DEF In, Follows
  <2> QED
    BY <1>2, <1>7, <2>1, <2>2, PartKeeps DEF Part, Hold, ownVars, Reference
<1>8. CASE Cancel(t) /\ UNCHANGED ownVars
  <2>1. Moves(t, "cancel", "bottom", "bottom", "bottom", "bottom")
    BY <1>1, <1>8, ThenNone DEF Cancel
  <2>2. In("cancel", {"hold"}) = 0 /\ <<"cancel", "bottom", "bottom", "bottom">> \in Follows
    BY DEF In, Follows
  <2> QED
    BY <1>2, <1>8, <2>1, <2>2, PartKeeps DEF Part, Cancel, ownVars
<1>9. CASE Stop(t)
  <2>1. Moves(t, "stop", "bottom", "disconnect", "bottom", "bottom")
    BY <1>1, <1>9, ThenOne DEF Stop
  <2>2. In("stop", {"hold"}) = 0 /\ <<"stop", "disconnect", "bottom", "bottom">> \in Follows
    BY DEF In, Follows
  <2> QED
    BY <1>2, <1>9, <2>1, <2>2, PartKeeps DEF Part, Stop
<1> QED
  BY <1>4, <1>5, <1>6, <1>7, <1>8, <1>9 DEF PartingStep, Disconnecting

-----------------------------------------------------------------------------
(***************************************************************************)
(* Release                                                                 *)
(***************************************************************************)
LEMMA EasyTyped ==
    ASSUME ConnectorsAssumption, TypeInv, NEW t \in Threads, NEW h, NEW k, NEW a \in Opt(Steps \ Lying),
           NEW b \in Opt(Steps \ Lying), NEW c \in Opt(Steps \ Lying), Moves(t, h, k, a, b, c),
           io' \in IoType, io'["accept"] = Idle, refs' \in Int, gen' \in Nat, calls' \in Nat, listed' \in BOOLEAN
    PROVE  Typed(t, h, k, a, b, c)
<1>1. Has(h, k, stack[t]) /\ Good(Table, stack[t])
  BY DEF TypeInv, Moves
<1>2. Linked(Table, a, b, c, Top(Under(h, k, stack[t])))
  BY <1>1, EasyLinked
<1>3. a \in Opt(Steps) /\ b \in Opt(Steps) /\ c \in Opt(Steps) /\ "open" \notin {a, b, c}
  BY DEF Opt, Lying
<1> QED
  BY <1>2, <1>3 DEF Typed

\* Who calls Release last: nobody else has anything to do with the session.
LEMMA LastAlone ==
    ASSUME ConnectorsAssumption, TypeInv, QuietInv, NEW t \in Threads, Works(stack[t]), At(t, "release"), refs = 1
    PROVE  Outstanding = 0 /\ Alone(t) /\ Rests(Tail(stack[t]))
<1>1. /\ stack \in [Threads -> Seq(Steps)] /\ refs \in Int /\ Outstanding \in Nat
      /\ \A u \in Threads : Shaped(stack[u]) /\ refs = Outstanding + Total(Balances)
  BY OutstandingType DEF TypeInv, IoType, QuietInv, CountInv
<1>2. \A u \in Threads : Balances[u] \in Nat /\ Balances[u] = Bal(stack[u])
  BY <1>1, ShapedBal DEF Balances
<1>3. Total(Balances) \in Nat /\ \A u \in Threads : Balances[u] <= Total(Balances)
  BY <1>2, Finite, TotalType, TotalBound
<1>4. Balances[t] >= 1 /\ Solid(stack[t])
  <2>1. Bal(stack[t]) >= 1 /\ (Head(stack[t]) # "hold" => Solid(stack[t]))
    BY <1>1, WorksBal
  <2> QED
    BY <1>2, <2>1 DEF At
<1>5. Outstanding = 0 /\ Total(Balances) = 1 /\ Balances[t] = 1
  <2>1. Balances[t] \in Nat /\ Balances[t] <= Total(Balances) /\ refs = Outstanding + Total(Balances)
    BY <1>1, <1>2, <1>3
  <2> QED
    BY <1>1, <1>3, <1>4, <2>1
<1>6. ASSUME NEW u \in Threads, u # t
      PROVE  Rests(stack[u])
  <2>1. Balances[t] + Balances[u] <= Total(Balances)
    BY <1>2, <1>6, Finite, TotalBound
  <2>2. Bal(stack[u]) = 0
    <3>1. Balances[u] \in Nat
      BY <1>2
    <3>2. Balances[u] = 0
      BY <1>5, <2>1, <3>1
    <3> QED
      BY <1>2, <3>2
  <2>3. ~Works(stack[u])
    BY <1>1, <2>2, WorksBal
  <2>4. ~Closes(stack[u])
    BY WorkersKeep
  <2> QED
    BY <1>1, <2>3, <2>4 DEF Shaped
<1>7. Rests(Tail(stack[t]))
  <2>1. Solid(Tail(stack[t])) \/ Rests(Tail(stack[t]))
    BY <1>1, <1>4, SolidTail
  <2>2. ASSUME Solid(Tail(stack[t]))
        PROVE  FALSE
    <3>1. /\ Tail(stack[t]) \in Seq(Steps)
          /\ Bal(stack[t]) = Bal(Tail(stack[t])) + In(Head(stack[t]), {"release"}) - In(Head(stack[t]), {"hold"})
      BY <1>1, BalNumber DEF At
    <3>2. Bal(Tail(stack[t])) \in Nat /\ Bal(Tail(stack[t])) >= 1
      BY <2>2, <3>1, SolidBal
    <3>3. In(Head(stack[t]), {"release"}) = 1 /\ In(Head(stack[t]), {"hold"}) = 0
      BY DEF In, At
    <3>4. Bal(stack[t]) = 1
      BY <1>2, <1>5
    <3> QED
      BY <3>1, <3>2, <3>3, <3>4
  <2> QED
    BY <2>1, <2>2
<1> QED
  BY <1>5, <1>6, <1>7 DEF Alone

LEMMA LettingLast ==
    ASSUME ConnectorsAssumption, TypeInv, QuietInv, NEW t \in Threads, Letting(stack[t])
    PROVE  Outstanding = 0 /\ Alone(t) /\ refs = 1
<1>1. /\ stack \in [Threads -> Seq(Steps)] /\ refs \in Int /\ Outstanding \in Nat
      /\ refs = Outstanding + Total(Balances)
  BY OutstandingType DEF TypeInv, IoType, QuietInv, CountInv
<1>2. Closes(stack[t])
  BY DEF Closes, Letting, On, Nested
<1>3. Outstanding = 0 /\ Alone(t)
  BY <1>2, CloserAlone
<1>4. \A u \in Threads : u # t => Balances[u] = 0
  BY <1>1, <1>3, RestsBal DEF Alone, Balances
<1>5. Balances[t] = 1
  BY <1>1, LettingBal DEF Balances
<1>6. Total(Balances) = Balances[t]
  <2>1. \A u \in Threads : Balances[u] \in Nat
    BY <1>4, <1>5
  <2> QED
    BY <1>4, <2>1, Finite, TotalOne
<1> QED
  BY <1>1, <1>3, <1>5, <1>6

LEMMA ReleaseNets ==
    ASSUME NEW a \in {"clear", "bottom"}
    PROVE  /\ Net(Chain, "release", "bottom", a, "bottom", "bottom") = 0
           /\ Net(Dial, "release", "bottom", a, "bottom", "bottom") = 0
           /\ Net({"open"}, "release", "bottom", a, "bottom", "bottom") = 0
           /\ Net({"onConnected"}, "release", "bottom", a, "bottom", "bottom") = 0
           /\ NetBal("release", "bottom", a, "bottom", "bottom") = 0 - 1
           /\ a \in Opt(Steps \ Lying) /\ a \in Opt(Steps)
           /\ "bottom" \in Opt(Steps \ Lying) /\ "bottom" \in Opt(Steps)
<1>1. "release" \notin Chain /\ "bottom" \notin Chain /\ a \notin Chain
      /\ "release" \notin Dial /\ "bottom" \notin Dial /\ a \notin Dial
  BY DEF Chain, Dial
<1>2. a \in Opt(Steps \ Lying) /\ "bottom" \in Opt(Steps \ Lying) /\ a \in Opt(Steps) /\ "bottom" \in Opt(Steps)
  BY DEF Opt, Steps, Lying
<1>3. /\ Net({"open"}, "release", "bottom", a, "bottom", "bottom") = 0
      /\ Net({"onConnected"}, "release", "bottom", a, "bottom", "bottom") = 0
      /\ NetBal("release", "bottom", a, "bottom", "bottom") = 0 - 1
  BY DEF NetBal, Net, In
<1>4. /\ Net(Chain, "release", "bottom", a, "bottom", "bottom") = 0
      /\ Net(Dial, "release", "bottom", a, "bottom", "bottom") = 0
  BY <1>1 DEF Net, In
<1> QED
  BY <1>2, <1>3, <1>4

LEMMA ReleaseKeeps ==
    ASSUME ConnectorsAssumption, IInv, NEW t \in Threads, Release(t), UNCHANGED ownVars
    PROVE  IInv'
<1>1. TypeInv /\ TokenInv /\ (Lossless => KeepInv) /\ (calls = 0 => QuietInv)
  BY DEF IInv
<1>2. io' \in IoType /\ io'["accept"] = Idle /\ Outstanding \in Nat /\ Outstanding' = Outstanding
      /\ Count("reconnect")' = Count("reconnect")
  BY <1>1, IoSame DEF Release
<1>3. stack \in [Threads -> Seq(Steps)] /\ stack[t] \in Seq(Steps) /\ refs \in Int
  BY <1>1 DEF TypeInv
<1>4. PICK a \in {"clear", "bottom"} : /\ Moves(t, "release", "bottom", a, "bottom", "bottom")
                                       /\ a = IF refs = 1 THEN "clear" ELSE "bottom"
  <2>1. CASE refs = 1
    <3>1. Moves(t, "release", "bottom", "clear", "bottom", "bottom")
      BY <1>3, <2>1, ThenOne DEF Release
    <3> QED
      BY <2>1, <3>1
  <2>2. CASE refs # 1
    <3>1. Moves(t, "release", "bottom", "bottom", "bottom", "bottom")
      BY <1>3, <2>2, ThenNone DEF Release
    <3> QED
      BY <2>2, <3>1
  <2> QED
    BY <2>1, <2>2
<1>5. TypeInv' /\ TokenInv' /\ (KeepInv => KeepInv')
  <2>1. refs' \in Int /\ gen' \in Nat /\ calls' \in Nat /\ listed' \in BOOLEAN
    BY <1>1 DEF TypeInv, Release
  <2>2. Typed(t, "release", "bottom", a, "bottom", "bottom")
    BY <1>1, <1>2, <1>4, <2>1, ReleaseNets, EasyTyped
  <2>3. Shown' = Shown /\ Shown \in Nat /\ Count("reconnect") \in Nat
    BY <1>1, OutstandingType DEF Shown, TypeInv, IoType, Kinds, Release
  <2>4. Steady(t, "release", "bottom", a, "bottom", "bottom")
    BY <1>2, <2>2, <2>3, ReleaseNets DEF Steady, Release, ownVars
  <2> QED
    BY <1>1, <2>4, SteadyKeeps
<1>6. ASSUME calls = 0
      PROVE  QuietInv'
  <2>1. QuietInv /\ Shaped(stack[t])
    BY <1>1, <1>6 DEF QuietInv
  <2>2. stack[t] # <<>> /\ Head(stack[t]) = "release" /\ Tail(stack[t]) \in Seq(Steps)
    BY <1>3, TailProperties DEF Release, At
  <2>3. stack'[t] = IF a = "clear" THEN <<"clear">> \o Tail(stack[t]) ELSE Tail(stack[t])
    <3>1. stack'[t] = Turned("release", "bottom", a, "bottom", "bottom", stack[t])
      BY <1>3, <1>4, MovesType, ReleaseNets
    <3>2. CASE a = "clear"
      <4>1. stack'[t] = Turned("release", "bottom", "clear", "bottom", "bottom", stack[t])
        BY <3>1, <3>2
      <4> QED
        BY <3>2, <4>1 DEF Turned, Under, Off, Put
    <3>3. CASE a = "bottom"
      <4>1. stack'[t] = Turned("release", "bottom", "bottom", "bottom", "bottom", stack[t])
        BY <3>1, <3>3
      <4> QED
        BY <3>3, <4>1 DEF Turned, Under, Off, Put
    <3> QED
      BY <3>2, <3>3
  <2>4. <<"clear">> \o Tail(stack[t]) # <<>> /\ Head(<<"clear">> \o Tail(stack[t])) = "clear"
        /\ Tail(<<"clear">> \o Tail(stack[t])) = Tail(stack[t])
    BY <2>2, PushProperties, Named
  <2>5. refs' = refs + NetBal("release", "bottom", a, "bottom", "bottom")
    <3>1. refs' = refs - 1
      BY DEF Release
    <3> QED
      BY <1>3, <3>1, ReleaseNets
  <2>6. sock' = sock
    BY DEF Release
  <2>7. CASE Closes(stack[t])
    <3>1. Onward(Tail(stack[t])) /\ Letting(stack[t])
      BY <2>2, <2>7 DEF Closes, Final, Cancelling, On, Letting
    <3>2. Outstanding = 0 /\ Alone(t) /\ refs = 1
      BY <1>1, <2>1, <3>1, LettingLast
    <3>3. Closes(stack'[t])
      BY <1>4, <2>3, <2>4, <3>1, <3>2 DEF Closes, Nested
    <3>4. Count("reconnect") = 0 /\ sock # "none"
      <4>1. ~Opens(stack[t])
        BY <2>2 DEF Opens, On
      <4> QED
        BY <1>1, <2>1, <2>7, <4>1, CloserAlone
    <3>5. ~(Count("reconnect")' > 0)
      BY <1>2, <3>4
    <3>6. "bottom" \in Opt(Steps) /\ a \in Opt(Steps)
      BY ReleaseNets
    <3> QED
      BY <1>1, <1>2, <1>4, <2>1, <2>5, <2>6, <3>2, <3>3, <3>4, <3>5, <3>6, CloseStep DEF Shaped
  <2>8. CASE Works(stack[t])
    <3>1. sock # "none" /\ Count("reconnect") = 0
      BY <1>1, <2>1, <2>8, WorkersKeep
    <3>2. "bottom" \in Opt(Steps) /\ a \in Opt(Steps)
      BY ReleaseNets
    <3>3. CASE refs = 1
      <4>1. Outstanding = 0 /\ Alone(t) /\ Rests(Tail(stack[t]))
        BY <1>1, <2>1, <2>8, <3>3, LastAlone DEF Release
      <4>2. Closes(stack'[t])
        BY <1>4, <2>3, <2>4, <3>3, <4>1 DEF Closes, Final
      <4>3. ~(Count("reconnect")' > 0)
        BY <1>2, <3>1
      <4> QED
        BY <1>1, <1>2, <1>4, <2>1, <2>5, <2>6, <3>1, <3>2, <4>1, <4>2, <4>3, CloseStep DEF Shaped
    <3>4. CASE refs # 1
      <4>1. Solid(stack[t])
        BY <1>3, <2>2, <2>8, WorksBal
      <4>2. Works(stack'[t]) \/ Rests(stack'[t])
        BY <1>3, <1>4, <2>3, <3>4, <4>1, SolidTail DEF Works
      <4>3. refs' = refs + 0 + NetBal("release", "bottom", a, "bottom", "bottom") /\ Outstanding' = Outstanding + 0
        BY <1>2, <1>3, <2>5
      <4> QED
        BY <1>1, <1>2, <1>4, <2>1, <2>6, <2>8, <3>1, <3>2, <4>2, <4>3, WorkStep
    <3> QED
      BY <3>3, <3>4
  <2> QED
    BY <2>1, <2>2, <2>7, <2>8 DEF Shaped, Rests
<1>7. calls' = calls
  BY DEF Release
<1> QED
  BY <1>1, <1>5, <1>6, <1>7 DEF IInv

-----------------------------------------------------------------------------
(***************************************************************************)
(* The end of a connection, and the attempts at the next one               *)
(***************************************************************************)
\* The token of a Dial step, or of a Chain step, goes.
LEMMA DialEnds ==
    ASSUME ConnectorsAssumption, TypeInv, TokenInv, NEW t \in Threads, NEW h \in Dial, NEW k, NEW a, NEW b, NEW c,
           Typed(t, h, k, a, b, c), Net(Chain, h, k, a, b, c) = 0, Net(Dial, h, k, a, b, c) = 0 - 1,
           Net({"onConnected"}, h, k, a, b, c) = 0, Count("reconnect")' = Count("reconnect"),
           UNCHANGED <<listed, gen, wish, reconnect>>
    PROVE  TokenInv' /\ (KeepInv => KeepInv')
<1>1. TypeInv'
  BY TypedKeeps
<1>2. /\ Linking \in Nat /\ Linking' \in Nat
      /\ Linking' = Linking + Net(Chain, h, k, a, b, c) + Count("reconnect")' - Count("reconnect") + Shown' - Shown
      /\ Left(Dial) \in Nat /\ Left(Dial)' = Left(Dial) + Net(Dial, h, k, a, b, c)
      /\ Left({"onConnected"}) \in Nat /\ Left({"onConnected"})' \in Nat
      /\ Left({"onConnected"})' = Left({"onConnected"}) + Net({"onConnected"}, h, k, a, b, c)
      /\ Left(Dial)' = 0 => Left({"open"})' = 0
  BY <1>1, TokenMoves DEF Typed
<1>3. Left(Dial) >= 1
  <2>1. At(t, h)
    BY Named DEF Typed, Moves, Has, OnTop, At
  <2> QED
    BY <2>1, LeftAt
<1>4. Count("reconnect") \in Nat /\ Shown \in Nat /\ Shown' = Shown
  BY <1>1, Numbers DEF Shown
<1>5. Linking' = Linking
  BY <1>2, <1>4
<1>6. Linking = 0 /\ Left(Dial) = 1
  BY <1>2, <1>3 DEF TokenInv
<1>7. Left(Dial)' = 0 /\ Left({"open"})' = 0 /\ Left({"onConnected"})' = Left({"onConnected"})
  BY <1>2, <1>6
<1> QED
  BY <1>5, <1>6, <1>7 DEF TokenInv, KeepInv, Known

LEMMA ChainEnds ==
    ASSUME ConnectorsAssumption, TypeInv, TokenInv, NEW t \in Threads, NEW h \in Chain, NEW k, NEW a, NEW b, NEW c,
           Typed(t, h, k, a, b, c), Net(Chain, h, k, a, b, c) = 0 - 1, Net(Dial, h, k, a, b, c) \in {0, 1},
           Count("reconnect")' = Count("reconnect"), listed' = listed,
           sock' = "none" => Net(Dial, h, k, a, b, c) = 0
    PROVE  TokenInv' /\ Linking = 1 /\ sock # "none"
<1>1. TypeInv'
  BY TypedKeeps
<1>2. /\ Linking \in Nat /\ Linking' \in Nat
      /\ Linking' = Linking + Net(Chain, h, k, a, b, c) + Count("reconnect")' - Count("reconnect") + Shown' - Shown
      /\ Left(Dial) \in Nat /\ Left(Dial)' = Left(Dial) + Net(Dial, h, k, a, b, c)
      /\ Left(Dial)' = 0 => Left({"open"})' = 0
  BY <1>1, TokenMoves DEF Typed
<1>3. Left(Chain) \in Nat /\ Left(Chain) >= 1
  <2>1. At(t, h)
    BY Named DEF Typed, Moves, Has, OnTop, At
  <2> QED
    BY <2>1, LeftAt
<1>4. Count("reconnect") \in Nat /\ Shown \in Nat /\ Shown' = Shown
  BY <1>1, Numbers DEF Shown
<1>5. Linking >= 1
  BY <1>3, <1>4 DEF Linking
<1>6. Linking = 1 /\ Left(Dial) = 0
  BY <1>2, <1>5 DEF TokenInv
<1>7. Linking' = 0
  BY <1>2, <1>4, <1>6
<1>8. Left(Dial)' = Net(Dial, h, k, a, b, c)
  BY <1>2, <1>6
<1> QED
  BY <1>2, <1>6, <1>7, <1>8 DEF TokenInv

\* A step of Final on top.
LEMMA FinalTop ==
    ASSUME TypeInv, QuietInv, NEW t \in Threads, NEW h \in Final, At(t, h)
    PROVE  /\ stack[t] \in Seq(Steps) /\ Tail(stack[t]) \in Seq(Steps) /\ Closes(stack[t])
           /\ Rests(Tail(stack[t])) \/ (h \in {"clear", "delSession"} /\ Onward(Tail(stack[t])))
           /\ Outstanding = 0 /\ Alone(t) /\ Count("reconnect") = 0 /\ (sock = "none" => h = "open")
<1>1. stack[t] \in Seq(Steps) /\ stack[t] # <<>> /\ Head(stack[t]) = h /\ Shaped(stack[t])
  BY DEF TypeInv, QuietInv, At
<1>2. Tail(stack[t]) \in Seq(Steps)
  BY <1>1, TailProperties
<1>3. Closes(stack[t])
  <2>1. ~Rests(stack[t])
    BY <1>1, NotBusy DEF Rests
  <2>2. ~Works(stack[t])
    BY <1>1, WorksBal, NotBusy
  <2> QED
    BY <1>1, <2>1, <2>2 DEF Shaped
<1>4. Rests(Tail(stack[t])) \/ (h \in {"clear", "delSession"} /\ Onward(Tail(stack[t])))
  <2>1. h \notin {"hold", "cancel", "stop", "disconnect", "isValid", "release"}
    BY DEF Final
  <2> QED
    BY <1>1, <1>3, <2>1 DEF Closes, Cancelling, On, Nested
<1> QED
  BY <1>1, <1>2, <1>3, <1>4, CloserAlone DEF Opens, On

LEMMA FinalPush ==
    ASSUME NEW q \in Seq(Steps), Rests(q), NEW x \in Final
    PROVE  Closes(<<x>> \o q)
<1>1. x \in Steps
  BY Named DEF Final, Steps, Chain, Dial
<1>2. <<x>> \o q # <<>> /\ Head(<<x>> \o q) = x /\ Tail(<<x>> \o q) = q
  BY <1>1, PushProperties
<1> QED
  BY <1>2 DEF Closes

LEMMA SwapNets ==
    ASSUME NEW h \in Final, NEW a \in Final \cup {"bottom"}
    PROVE  /\ NetBal(h, "bottom", a, "bottom", "bottom") = 0
           /\ Net({"onConnected"}, h, "bottom", a, "bottom", "bottom") = 0
           /\ "bottom" \in Opt(Steps) /\ a \in Opt(Steps) /\ h # "bottom"
           /\ "bottom" \in Opt(Steps \ Lying) /\ (a \notin Lying => a \in Opt(Steps \ Lying))
<1>1. In("bottom", {"release"}) = 0 /\ In("bottom", {"hold"}) = 0 /\ In("bottom", {"onConnected"}) = 0
  BY DEF In
<1>2. \A x \in Final \cup {"bottom"} : In(x, {"release"}) = 0 /\ In(x, {"hold"}) = 0 /\ In(x, {"onConnected"}) = 0
  BY DEF In, Final
<1>3. Final \subseteq Steps /\ "bottom" \notin Final
  BY DEF Final, Steps, Chain, Dial
<1>4. /\ In(h, {"release"}) = 0 /\ In(h, {"hold"}) = 0 /\ In(h, {"onConnected"}) = 0
      /\ In(a, {"release"}) = 0 /\ In(a, {"hold"}) = 0 /\ In(a, {"onConnected"}) = 0
  BY <1>2
<1>5. /\ NetBal(h, "bottom", a, "bottom", "bottom") = 0
      /\ Net({"onConnected"}, h, "bottom", a, "bottom", "bottom") = 0
  BY <1>1, <1>4 DEF NetBal, Net
<1> QED
  BY <1>3, <1>5 DEF Opt

\* One step of Final is followed by another or by nothing.
LEMMA SwapKeeps ==
    ASSUME ConnectorsAssumption, IInv, NEW t \in Threads, NEW h \in Final, NEW a \in Final \cup {"bottom"},
           Typed(t, h, "bottom", a, "bottom", "bottom"), TokenInv', Lossless => KeepInv',
           refs' = refs, Outstanding' = Outstanding, calls' = calls,
           Count("reconnect")' = Count("reconnect") \/ a = "bottom",
           sock' = "none" => a = "bottom" \/ (sock' = sock /\ h # "open"),
           h \in {"clear", "delSession"} => /\ sock' = sock /\ Count("reconnect")' = Count("reconnect")
                                            /\ \/ a = "delSession"
                                               \/ h = "delSession" /\ a = "bottom"
                                               \/ ~Onward(Tail(stack[t]))
    PROVE  IInv'
<1>1. TypeInv /\ TokenInv /\ (Lossless => KeepInv) /\ (calls = 0 => QuietInv)
  BY DEF IInv
<1>2. TypeInv'
  BY <1>1, TypedKeeps
<1>3. ASSUME calls = 0
      PROVE  QuietInv'
  <2>1. QuietInv /\ At(t, h) /\ Moves(t, h, "bottom", a, "bottom", "bottom")
    BY <1>1, <1>3, SwapNets DEF Typed, Moves, Has, OnTop, At
  <2>2. /\ stack[t] \in Seq(Steps) /\ Tail(stack[t]) \in Seq(Steps) /\ Closes(stack[t])
        /\ Rests(Tail(stack[t])) \/ (h \in {"clear", "delSession"} /\ Onward(Tail(stack[t])))
        /\ Outstanding = 0 /\ Alone(t) /\ Count("reconnect") = 0 /\ (sock = "none" => h = "open")
    BY <1>1, <2>1, FinalTop
  <2>3. stack'[t] = Turned(h, "bottom", a, "bottom", "bottom", stack[t])
    BY <1>1, <2>1, SwapNets, MovesType DEF TypeInv
  <2>4. stack'[t] = IF a = "bottom" THEN Tail(stack[t]) ELSE <<a>> \o Tail(stack[t])
    BY <2>3, SwapNets DEF Turned, Under, Off, Put
  <2>5. CASE Rests(Tail(stack[t]))
    <3>1. a = "bottom" => Rests(stack'[t])
      BY <2>4, <2>5
    <3>2. a # "bottom" => Closes(stack'[t])
      BY <2>2, <2>4, <2>5, FinalPush
    <3>3. Shaped(stack'[t])
      BY <3>1, <3>2 DEF Shaped
    <3>4. Count("reconnect")' > 0 => Rests(stack'[t])
      BY <2>2, <3>1
    <3>5. sock' = "none" => Rests(stack'[t]) \/ Opens(stack'[t])
      BY <2>2, <3>1
    <3>6. refs' = refs + NetBal(h, "bottom", a, "bottom", "bottom")
      BY <1>1, SwapNets DEF TypeInv
    <3> QED
      BY <1>1, <2>1, <2>2, <3>3, <3>4, <3>5, <3>6, SwapNets, CloseStep
  <2>6. CASE h \in {"clear", "delSession"} /\ Onward(Tail(stack[t]))
    <3>1. a = "delSession" \/ (h = "delSession" /\ a = "bottom")
      BY <2>6
    <3>2. Closes(stack'[t])
      <4>1. CASE a = "delSession"
        <5>1. <<a>> \o Tail(stack[t]) # <<>> /\ Head(<<a>> \o Tail(stack[t])) = a
              /\ Tail(<<a>> \o Tail(stack[t])) = Tail(stack[t])
          BY <2>2, <4>1, PushProperties, Named
        <5> QED
          BY <2>4, <2>6, <4>1, <5>1 DEF Closes, Nested
      <4>2. CASE a = "bottom"
        BY <2>4, <2>6, <4>2 DEF Closes, Onward, On, Final
      <4> QED
        BY <3>1, <4>1, <4>2
    <3>3. ~(Count("reconnect")' > 0) /\ sock' # "none"
      BY <2>2, <2>6
    <3>4. refs' = refs + NetBal(h, "bottom", a, "bottom", "bottom")
      BY <1>1, SwapNets DEF TypeInv
    <3> QED
      BY <1>1, <2>1, <2>2, <3>2, <3>3, <3>4, SwapNets, CloseStep DEF Shaped
  <2> QED
    BY <2>2, <2>5, <2>6
<1> QED
  BY <1>1, <1>2, <1>3 DEF IInv

LEMMA IoTried ==
    ASSUME TypeInv, TryReconnect
    PROVE  /\ io' \in IoType /\ io'["accept"] = Idle /\ Outstanding' = Outstanding
           /\ Count("reconnect")' = Count("reconnect") + 1 /\ Count("reconnect") \in Nat
<1>1. io \in IoType /\ io["accept"] = Idle /\ Count("reconnect") \in Nat
  BY OutstandingType DEF TypeInv, IoType, Kinds
<1>2. PICK e \in [pending : Nat, done : Nat, zero : Nat] : e = io["reconnect"]
  BY <1>1 DEF IoType, Kinds
<1>3. PICK f : f = [e EXCEPT !.done = @ + 1]
  OBVIOUS
<1>4. f \in [pending : Nat, done : Nat, zero : Nat] /\ f.pending = e.pending /\ f.done = e.done + 1 /\ f.zero = e.zero
  BY <1>2, <1>3
<1>5. io' = [io EXCEPT !["reconnect"] = f]
  BY <1>2, <1>3 DEF TryReconnect
<1>6. io' \in IoType /\ io'["reconnect"] = f /\ \A x \in Kinds : x # "reconnect" => io'[x] = io[x]
  BY <1>1, <1>4, <1>5 DEF IoType, Kinds
<1>7. Count("reconnect")' = Count("reconnect") + 1
  BY <1>2, <1>4, <1>6 DEF Count
<1>8. io'["accept"] = io["accept"] /\ io'["recv"] = io["recv"] /\ io'["send"] = io["send"]
  BY <1>6 DEF Kinds
<1>9. Outstanding' = Outstanding
  BY <1>8 DEF Outstanding, Count
<1> QED
  BY <1>1, <1>6, <1>7, <1>8, <1>9

\* A step of Final whose move is steady.
LEMMA SteadySwap ==
    ASSUME ConnectorsAssumption, IInv, NEW t \in Threads, NEW h \in Final, NEW a \in Final \cup {"bottom"},
           Steady(t, h, "bottom", a, "bottom", "bottom"),
           refs' = refs, Outstanding' = Outstanding, calls' = calls,
           Count("reconnect")' = Count("reconnect") \/ a = "bottom",
           sock' = "none" => sock' = sock /\ h # "open",
           h \in {"clear", "delSession"} => /\ sock' = sock /\ Count("reconnect")' = Count("reconnect")
                                            /\ \/ a = "delSession"
                                               \/ h = "delSession" /\ a = "bottom"
                                               \/ ~Onward(Tail(stack[t]))
    PROVE  IInv'
<1>1. TypeInv /\ TokenInv /\ (Lossless => KeepInv)
  BY DEF IInv
<1>2. TokenInv' /\ (KeepInv => KeepInv')
  BY <1>1, SteadyKeeps
<1>3. Typed(t, h, "bottom", a, "bottom", "bottom")
  BY DEF Steady
<1> QED
  BY <1>1, <1>2, <1>3, SwapKeeps

LEMMA ClearKeeps ==
    ASSUME ConnectorsAssumption, IInv, NEW t \in Threads, Clear(t), UNCHANGED ownVars
    PROVE  IInv'
<1>1. TypeInv /\ stack \in [Threads -> Seq(Steps)]
  BY DEF IInv, TypeInv
<1>2. Moves(t, "clear", "bottom", "delSession", "bottom", "bottom")
  BY <1>1, ThenOne DEF Clear, ConnectorsAssumption
<1>3. io' \in IoType /\ io'["accept"] = Idle /\ Outstanding' = Outstanding /\ Count("reconnect")' = Count("reconnect")
  BY <1>1, IoSame DEF Clear
<1>4. "delSession" \in Final /\ "clear" \in Final /\ "delSession" \notin Lying
  BY DEF Final, Lying
<1>5. Typed(t, "clear", "bottom", "delSession", "bottom", "bottom")
  BY <1>1, <1>2, <1>3, <1>4, SwapNets, EasyTyped DEF TypeInv, Clear
<1>6. Net(Chain, "clear", "bottom", "delSession", "bottom", "bottom") = 0
      /\ Net(Dial, "clear", "bottom", "delSession", "bottom", "bottom") = 0
      /\ Net({"open"}, "clear", "bottom", "delSession", "bottom", "bottom") = 0
  BY DEF Net, In, Chain, Dial
<1>7. Count("reconnect") \in Nat /\ Shown \in Nat /\ Shown' = Shown
  BY <1>1, <1>5, TypedKeeps, Numbers DEF Shown, Clear
<1>8. Steady(t, "clear", "bottom", "delSession", "bottom", "bottom")
  BY <1>3, <1>4, <1>5, <1>6, <1>7, SwapNets DEF Steady, Clear, ownVars
<1>9. sock' = sock /\ refs' = refs /\ calls' = calls
  BY DEF Clear
<1> QED
  BY <1>3, <1>4, <1>8, <1>9, SteadySwap

LEMMA DelSessionKeeps ==
    ASSUME ConnectorsAssumption, IInv, NEW t \in Threads, DelSession(t), UNCHANGED ownVars
    PROVE  IInv'
<1>1. TypeInv /\ TokenInv /\ stack \in [Threads -> Seq(Steps)]
  BY DEF IInv, TypeInv
<1>2. PICK a \in {"onDisconnected", "bottom"} :
         /\ Moves(t, "delSession", "bottom", a, "bottom", "bottom")
         /\ a = IF listed THEN "onDisconnected" ELSE "bottom"
  <2>1. CASE listed
    <3>1. Moves(t, "delSession", "bottom", "onDisconnected", "bottom", "bottom")
      BY <1>1, <2>1, ThenOne DEF DelSession
    <3> QED
      BY <2>1, <3>1
  <2>2. CASE ~listed
    <3>1. Moves(t, "delSession", "bottom", "bottom", "bottom", "bottom")
      BY <1>1, <2>2, ThenNone DEF DelSession
    <3> QED
      BY <2>2, <3>1
  <2> QED
    BY <2>1, <2>2
<1>3. io' \in IoType /\ io'["accept"] = Idle /\ Outstanding' = Outstanding /\ Count("reconnect")' = Count("reconnect")
  BY <1>1, IoSame DEF DelSession
<1>4. "delSession" \in Final /\ a \in Final \cup {"bottom"} /\ a \notin Lying
  BY DEF Final, Lying
<1>5. Typed(t, "delSession", "bottom", a, "bottom", "bottom")
  BY <1>1, <1>2, <1>3, <1>4, SwapNets, EasyTyped DEF TypeInv, DelSession
<1>6. /\ Net(Chain, "delSession", "bottom", a, "bottom", "bottom") = IF listed THEN 1 ELSE 0
      /\ Net(Dial, "delSession", "bottom", a, "bottom", "bottom") = 0
      /\ Net({"open"}, "delSession", "bottom", a, "bottom", "bottom") = 0
  BY <1>2 DEF Net, In, Chain, Dial
<1>7. Count("reconnect") \in Nat /\ Shown' = 0 /\ Shown = IF listed THEN 1 ELSE 0
  BY <1>1, <1>5, TypedKeeps, Numbers DEF Shown, DelSession
<1>8. Steady(t, "delSession", "bottom", a, "bottom", "bottom")
  BY <1>3, <1>4, <1>5, <1>6, <1>7, SwapNets DEF Steady, DelSession, ownVars
<1>9. sock' = sock /\ refs' = refs /\ calls' = calls
  BY DEF DelSession
<1>10. a = "bottom" \/ ~Onward(Tail(stack[t]))
  <2> SUFFICES ASSUME listed, Onward(Tail(stack[t]))
               PROVE  FALSE
    BY <1>2
  <2>1. FiniteThreads /\ stack[t] \in Seq(Steps) /\ stack[t] # <<>>
    BY <1>1, Finite DEF DelSession, At
  <2>2. Occurs(Chain, stack[t]) >= 1 /\ Occurs(Chain, stack[t]) \in Nat
    BY <2>1, TopCounts, OccursType DEF Onward, On, Chain
  <2>3. Left(Chain) \in Nat /\ Occurs(Chain, stack[t]) <= Left(Chain) /\ Left(Dial) \in Nat
    BY <1>1, <2>1, LeftType, LeftBound
  <2>4. Shown = 1
    BY DEF Shown
  <2> QED
    BY <1>1, <1>7, <2>2, <2>3, <2>4 DEF TokenInv, Linking
<1> QED
  BY <1>3, <1>4, <1>8, <1>9, <1>10, SteadySwap

LEMMA CloseKeeps ==
    ASSUME ConnectorsAssumption, IInv, NEW t \in Threads, Close(t), UNCHANGED ownVars
    PROVE  IInv'
<1>1. TypeInv /\ TokenInv /\ (Lossless => KeepInv) /\ stack \in [Threads -> Seq(Steps)]
  BY DEF IInv, TypeInv
<1>2. Moves(t, "close", "bottom", "bottom", "bottom", "bottom")
  BY <1>1, ThenNone DEF Close
<1>3. io' \in IoType /\ io'["accept"] = Idle /\ Outstanding' = Outstanding /\ Count("reconnect")' = Count("reconnect")
  BY <1>1, IoAborted DEF Close
<1>4. "close" \in Final /\ "close" \in Dial
  BY DEF Final, Dial
<1>5. Typed(t, "close", "bottom", "bottom", "bottom", "bottom")
  BY <1>1, <1>2, <1>3, <1>4, SwapNets, EasyTyped DEF TypeInv, Close
<1>6. Net(Chain, "close", "bottom", "bottom", "bottom", "bottom") = 0
      /\ Net(Dial, "close", "bottom", "bottom", "bottom", "bottom") = 0 - 1
  BY DEF Net, In, Chain, Dial
<1>7. TokenInv' /\ (KeepInv => KeepInv')
  BY <1>1, <1>3, <1>4, <1>5, <1>6, SwapNets, DialEnds DEF Close, ownVars
<1>8. refs' = refs /\ calls' = calls
  BY DEF Close
<1> QED
  BY <1>1, <1>3, <1>4, <1>5, <1>7, <1>8, SwapKeeps

\* A step of Final that changes no more than the socket and the I/O.
LEMMA PlainSwap ==
    ASSUME ConnectorsAssumption, IInv, NEW t \in Threads, NEW h \in Final \ {"clear", "delSession"},
           NEW a \in Final \cup {"bottom"}, Typed(t, h, "bottom", a, "bottom", "bottom"),
           Net(Dial, h, "bottom", a, "bottom", "bottom") = 0,
           Outstanding' = Outstanding, UNCHANGED <<refs, calls, gen, listed, reconnect, wish>>,
           \/ /\ Count("reconnect")' = Count("reconnect")
              /\ Net(Chain, h, "bottom", a, "bottom", "bottom") = 0
           \/ /\ Count("reconnect")' = Count("reconnect") + 1 /\ a = "bottom"
              /\ Net(Chain, h, "bottom", a, "bottom", "bottom") = 0 - 1,
           sock' = "none" => sock' = sock /\ h # "open" /\ Net({"open"}, h, "bottom", a, "bottom", "bottom") = 0
    PROVE  IInv'
<1>1. TypeInv /\ TypeInv'
  BY TypedKeeps DEF IInv
<1>2. Count("reconnect") \in Nat /\ Count("reconnect")' \in Nat /\ Shown \in Nat /\ Shown' = Shown
  BY <1>1, Numbers DEF Shown
<1>3. Net(Chain, h, "bottom", a, "bottom", "bottom") + Count("reconnect")' - Count("reconnect") + Shown' - Shown = 0
  BY <1>2
<1>4. Steady(t, h, "bottom", a, "bottom", "bottom")
  BY <1>3, SwapNets DEF Steady
<1> QED
  BY <1>4, SteadySwap

LEMMA OpenOkKeeps ==
    ASSUME ConnectorsAssumption, IInv, NEW t \in Threads, OpenOk(t)
    PROVE  IInv'
<1>1. TypeInv /\ stack \in [Threads -> Seq(Steps)]
  BY DEF IInv, TypeInv
<1>2. Moves(t, "open", "bottom", "connect", "bottom", "bottom")
  BY <1>1, ThenOne DEF OpenOk
<1>3. io' \in IoType /\ io'["accept"] = Idle /\ Outstanding' = Outstanding /\ Count("reconnect")' = Count("reconnect")
  BY <1>1, IoAborted DEF OpenOk, Opened
<1>4. "open" \in Final \ {"clear", "delSession"} /\ "connect" \in Final \cup {"bottom"} /\ "open" \in Lying /\ "connect" \in Lying
  BY DEF Final, Lying
<1>5. Typed(t, "open", "bottom", "connect", "bottom", "bottom")
  <2>1. Tail(stack[t]) # <<>> /\ Tail(stack[t]) \in Seq(Steps)
    BY <1>1, <1>4, TailLies DEF OpenOk
  <2>2. Top(Under("open", "bottom", stack[t])) = Head(Tail(stack[t])) /\ Head(Tail(stack[t])) \in Steps
    BY <2>1, TailProperties DEF Top, Under, Off
  <2>3. Linked(Table, "connect", "bottom", "bottom", Top(Under("open", "bottom", stack[t])))
    BY <1>4, <2>2, TableSteps DEF Linked
  <2>4. refs' \in Int /\ gen' \in Nat /\ calls' \in Nat /\ listed' \in BOOLEAN
    BY <1>1 DEF TypeInv, OpenOk
  <2>5. "open" \notin {"connect", "bottom", "bottom"}
    OBVIOUS
  <2> QED
    BY <1>2, <1>3, <1>4, <2>3, <2>4, <2>5, SwapNets DEF Typed
<1>6. Net(Chain, "open", "bottom", "connect", "bottom", "bottom") = 0
      /\ Net(Dial, "open", "bottom", "connect", "bottom", "bottom") = 0
  BY DEF Net, In, Chain, Dial
<1>7. sock' # "none" /\ UNCHANGED <<refs, calls, gen, listed, reconnect, wish>>
  BY DEF OpenOk, Opened, ownVars
<1> QED
  BY <1>3, <1>4, <1>5, <1>6, <1>7, PlainSwap

LEMMA ConnectOkKeeps ==
    ASSUME ConnectorsAssumption, IInv, NEW t \in Threads, ConnectOk(t)
    PROVE  IInv'
<1>1. TypeInv /\ TokenInv /\ (Lossless => KeepInv) /\ stack \in [Threads -> Seq(Steps)]
  BY DEF IInv, TypeInv
<1>2. Moves(t, "connect", "bottom", "onConnect", "bottom", "bottom")
  BY <1>1, ThenOne DEF ConnectOk, Reached
<1>3. io' \in IoType /\ io'["accept"] = Idle /\ Outstanding' = Outstanding /\ Count("reconnect")' = Count("reconnect")
  BY <1>1, IoSame DEF ConnectOk, Reached
<1>4. "connect" \in Final /\ "onConnect" \in Final /\ "onConnect" \notin Lying /\ "connect" \in Dial
  BY DEF Final, Lying, Dial
<1>5. Typed(t, "connect", "bottom", "onConnect", "bottom", "bottom")
  BY <1>1, <1>2, <1>3, <1>4, SwapNets, EasyTyped DEF TypeInv, ConnectOk, Reached
<1>6. Net(Chain, "connect", "bottom", "onConnect", "bottom", "bottom") = 1
      /\ Net(Dial, "connect", "bottom", "onConnect", "bottom", "bottom") = 0 - 1
  BY DEF Net, In, Chain, Dial
<1>7. sock' = "up" /\ UNCHANGED <<refs, calls, gen, listed, reconnect, wish>>
  BY DEF ConnectOk, Reached, ownVars
<1>8. /\ Linking \in Nat /\ Linking' \in Nat
      /\ Linking' = Linking + Net(Chain, "connect", "bottom", "onConnect", "bottom", "bottom")
                       + Count("reconnect")' - Count("reconnect") + Shown' - Shown
      /\ Left(Dial) \in Nat
      /\ Left(Dial)' = Left(Dial) + Net(Dial, "connect", "bottom", "onConnect", "bottom", "bottom")
      /\ Count("reconnect") \in Nat /\ Shown \in Nat /\ Shown' = Shown
  <2>1. TypeInv'
    BY <1>1, <1>5, TypedKeeps
  <2>2. "bottom" \in Opt(Steps) /\ "onConnect" \in Opt(Steps)
    BY <1>5 DEF Typed
  <2> QED
    BY <1>1, <1>2, <1>7, <2>1, <2>2, TokenMoves, Numbers DEF Shown
<1>9. Left(Dial) >= 1
  <2>1. At(t, "connect")
    BY DEF ConnectOk
  <2> QED
    BY <1>1, <1>4, <2>1, LeftAt
<1>10. Linking = 0 /\ Left(Dial) = 1
  BY <1>1, <1>8, <1>9 DEF TokenInv
<1>11. Linking' = 1
  BY <1>3, <1>6, <1>8, <1>10
<1>12. Left(Dial)' = 0
  BY <1>6, <1>8, <1>10
<1>13. TokenInv' /\ (KeepInv => KeepInv')
  BY <1>7, <1>11, <1>12 DEF TokenInv, KeepInv
<1> QED
  BY <1>1, <1>3, <1>4, <1>5, <1>7, <1>13, SwapKeeps

LEMMA AgainKeeps ==
    ASSUME ConnectorsAssumption, IInv, NEW t \in Threads, Again(t)
    PROVE  IInv'
<1>1. TypeInv /\ stack \in [Threads -> Seq(Steps)]
  BY DEF IInv, TypeInv
<1>2. Moves(t, "again", "bottom", "bottom", "bottom", "bottom")
  BY <1>1, ThenNone DEF Again
<1>3. io' \in IoType /\ io'["accept"] = Idle /\ Outstanding' = Outstanding /\ Count("reconnect")' = Count("reconnect") + 1
  BY <1>1, IoTried DEF Again
<1>4. "again" \in Final \ {"clear", "delSession"}
  BY DEF Final
<1>5. Typed(t, "again", "bottom", "bottom", "bottom", "bottom")
  BY <1>1, <1>2, <1>3, <1>4, SwapNets, EasyTyped DEF TypeInv, Again
<1>6. Net(Chain, "again", "bottom", "bottom", "bottom", "bottom") = 0 - 1
      /\ Net(Dial, "again", "bottom", "bottom", "bottom", "bottom") = 0
      /\ Net({"open"}, "again", "bottom", "bottom", "bottom", "bottom") = 0
  BY DEF Net, In, Chain, Dial
<1>7. sock' = sock /\ UNCHANGED <<refs, calls, gen, listed, reconnect, wish>>
  BY DEF Again, ownVars
<1> QED
  BY <1>3, <1>4, <1>5, <1>6, <1>7, PlainSwap

LEMMA ReconnectFailsKeeps ==
    ASSUME ConnectorsAssumption, IInv, NEW t \in Threads, ReconnectFails(t)
    PROVE  IInv'
<1>1. TypeInv /\ stack \in [Threads -> Seq(Steps)]
  BY DEF IInv, TypeInv
<1>2. Moves(t, "reconnect", "bottom", "bottom", "bottom", "bottom")
  BY <1>1, ThenNone DEF ReconnectFails
<1>3. io' \in IoType /\ io'["accept"] = Idle /\ Outstanding' = Outstanding /\ Count("reconnect")' = Count("reconnect") + 1
  BY <1>1, IoTried DEF ReconnectFails
<1>4. "reconnect" \in Final \ {"clear", "delSession"}
  BY DEF Final
<1>5. Typed(t, "reconnect", "bottom", "bottom", "bottom", "bottom")
  BY <1>1, <1>2, <1>3, <1>4, SwapNets, EasyTyped DEF TypeInv, ReconnectFails
<1>6. Net(Chain, "reconnect", "bottom", "bottom", "bottom", "bottom") = 0 - 1
      /\ Net(Dial, "reconnect", "bottom", "bottom", "bottom", "bottom") = 0
      /\ Net({"open"}, "reconnect", "bottom", "bottom", "bottom", "bottom") = 0
  BY DEF Net, In, Chain, Dial
<1>7. sock' = sock /\ UNCHANGED <<refs, calls, gen, listed, reconnect, wish>>
  BY DEF ReconnectFails, ownVars
<1> QED
  BY <1>3, <1>4, <1>5, <1>6, <1>7, PlainSwap

LEMMA ReopenOkKeeps ==
    ASSUME ConnectorsAssumption, IInv, NEW t \in Threads, ReopenOk(t)
    PROVE  IInv'
<1>1. TypeInv /\ stack \in [Threads -> Seq(Steps)]
  BY DEF IInv, TypeInv
<1>2. Moves(t, "reopen", "bottom", "reconnect", "bottom", "bottom")
  BY <1>1, ThenOne DEF ReopenOk
<1>3. io' \in IoType /\ io'["accept"] = Idle /\ Outstanding' = Outstanding /\ Count("reconnect")' = Count("reconnect")
  BY <1>1, IoAborted DEF ReopenOk, Opened
<1>4. "reopen" \in Final \ {"clear", "delSession"} /\ "reconnect" \in Final /\ "reconnect" \notin Lying
  BY DEF Final, Lying
<1>5. Typed(t, "reopen", "bottom", "reconnect", "bottom", "bottom")
  BY <1>1, <1>2, <1>3, <1>4, SwapNets, EasyTyped DEF TypeInv, ReopenOk
<1>6. Net(Chain, "reopen", "bottom", "reconnect", "bottom", "bottom") = 0
      /\ Net(Dial, "reopen", "bottom", "reconnect", "bottom", "bottom") = 0
  BY DEF Net, In, Chain, Dial
<1>7. sock' # "none" /\ UNCHANGED <<refs, calls, gen, listed, reconnect, wish>>
  BY DEF ReopenOk, Opened, ownVars
<1> QED
  BY <1>3, <1>4, <1>5, <1>6, <1>7, PlainSwap

LEMMA ReconnectOkKeeps ==
    ASSUME ConnectorsAssumption, IInv, NEW t \in Threads, ReconnectOk(t)
    PROVE  IInv'
<1>1. TypeInv /\ stack \in [Threads -> Seq(Steps)]
  BY DEF IInv, TypeInv
<1>2. Moves(t, "reconnect", "bottom", "onConnect", "bottom", "bottom")
  BY <1>1, ThenOne DEF ReconnectOk, Reached
<1>3. io' \in IoType /\ io'["accept"] = Idle /\ Outstanding' = Outstanding /\ Count("reconnect")' = Count("reconnect")
  BY <1>1, IoSame DEF ReconnectOk, Reached
<1>4. "reconnect" \in Final \ {"clear", "delSession"} /\ "onConnect" \in Final /\ "onConnect" \notin Lying
  BY DEF Final, Lying
<1>5. Typed(t, "reconnect", "bottom", "onConnect", "bottom", "bottom")
  BY <1>1, <1>2, <1>3, <1>4, SwapNets, EasyTyped DEF TypeInv, ReconnectOk, Reached
<1>6. Net(Chain, "reconnect", "bottom", "onConnect", "bottom", "bottom") = 0
      /\ Net(Dial, "reconnect", "bottom", "onConnect", "bottom", "bottom") = 0
  BY DEF Net, In, Chain, Dial
<1>7. sock' # "none" /\ UNCHANGED <<refs, calls, gen, listed, reconnect, wish>>
  BY DEF ReconnectOk, Reached, ownVars
<1> QED
  BY <1>3, <1>4, <1>5, <1>6, <1>7, PlainSwap

LEMMA NotAgainKeeps ==
    ASSUME ConnectorsAssumption, IInv, NEW t \in Threads, NotAgain(t)
    PROVE  IInv'
<1>1. TypeInv /\ TokenInv /\ (Lossless => KeepInv) /\ stack \in [Threads -> Seq(Steps)]
  BY DEF IInv, TypeInv
<1>2. Moves(t, "again", "bottom", "close", "bottom", "bottom")
  BY <1>1, ThenOne DEF NotAgain
<1>3. io' \in IoType /\ io'["accept"] = Idle /\ Outstanding' = Outstanding /\ Count("reconnect")' = Count("reconnect")
  BY <1>1, IoSame DEF NotAgain
<1>4. "again" \in Final /\ "close" \in Final /\ "close" \notin Lying /\ "again" \in Chain
  BY DEF Final, Lying, Chain
<1>5. Typed(t, "again", "bottom", "close", "bottom", "bottom")
  BY <1>1, <1>2, <1>3, <1>4, SwapNets, EasyTyped DEF TypeInv, NotAgain
<1>6. Net(Chain, "again", "bottom", "close", "bottom", "bottom") = 0 - 1
      /\ Net(Dial, "again", "bottom", "close", "bottom", "bottom") = 1
  BY DEF Net, In, Chain, Dial
<1>7. sock' = sock /\ ~reconnect /\ UNCHANGED <<refs, calls, gen, listed, reconnect, wish>>
  BY DEF NotAgain, ownVars
<1>8. sock # "none"
  <2>1. /\ Left(Chain) \in Nat /\ Left(Chain) >= 1 /\ Count("reconnect") \in Nat /\ Shown \in Nat
    <3>1. At(t, "again")
      BY DEF NotAgain
    <3> QED
      BY <1>1, <1>4, <1>5, <3>1, LeftAt, TypedKeeps, Numbers
  <2>2. Linking # 0
    BY <2>1 DEF Linking
  <2> QED
    BY <1>1, <2>2 DEF TokenInv
<1>9. TokenInv' /\ (KeepInv => KeepInv')
  BY <1>1, <1>3, <1>4, <1>5, <1>6, <1>7, <1>8, ChainEnds DEF KeepInv
<1> QED
  BY <1>1, <1>3, <1>4, <1>5, <1>7, <1>8, <1>9, SwapKeeps

LEMMA ReopenFailsKeeps ==
    ASSUME ConnectorsAssumption, IInv, NEW t \in Threads, ReopenFails(t)
    PROVE  IInv'
<1>1. TypeInv /\ TokenInv /\ (Lossless => KeepInv) /\ stack \in [Threads -> Seq(Steps)]
  BY DEF IInv, TypeInv
<1>2. Moves(t, "reopen", "bottom", "bottom", "bottom", "bottom")
  BY <1>1, ThenNone DEF ReopenFails
<1>3. io' \in IoType /\ io'["accept"] = Idle /\ Outstanding' = Outstanding /\ Count("reconnect")' = Count("reconnect")
  BY <1>1, IoAborted DEF ReopenFails, OpenFailed
<1>4. "reopen" \in Final /\ "reopen" \in Chain
  BY DEF Final, Chain
<1>5. Typed(t, "reopen", "bottom", "bottom", "bottom", "bottom")
  BY <1>1, <1>2, <1>3, <1>4, SwapNets, EasyTyped DEF TypeInv, ReopenFails
<1>6. Net(Chain, "reopen", "bottom", "bottom", "bottom", "bottom") = 0 - 1
      /\ Net(Dial, "reopen", "bottom", "bottom", "bottom", "bottom") = 0
  BY DEF Net, In, Chain, Dial
<1>7. wish' # "keep" /\ UNCHANGED <<refs, calls, gen, listed, reconnect>>
  BY DEF ReopenFails
<1>8. TokenInv' /\ KeepInv'
  BY <1>1, <1>3, <1>4, <1>5, <1>6, <1>7, ChainEnds DEF KeepInv
<1> QED
  BY <1>1, <1>3, <1>4, <1>5, <1>7, <1>8, SwapKeeps

\* A step of Final that leaves a stack of one of the shapes.
LEMMA FinalMove ==
    ASSUME ConnectorsAssumption, IInv, NEW t \in Threads, NEW h \in Final \ {"clear", "delSession"}, NEW k,
           NEW a, NEW b, NEW c, Typed(t, h, k, a, b, c), TokenInv', Lossless => KeepInv',
           Outstanding' = Outstanding, Count("reconnect")' = Count("reconnect"),
           refs' = refs + NetBal(h, k, a, b, c), calls' = calls,
           Rests(Tail(stack[t])) => /\ Shaped(stack'[t])
                                    /\ sock' = "none" => Rests(stack'[t]) \/ (sock' = sock /\ h # "open")
    PROVE  IInv'
<1>1. TypeInv /\ TokenInv /\ (Lossless => KeepInv) /\ (calls = 0 => QuietInv)
  BY DEF IInv
<1>2. TypeInv'
  BY <1>1, TypedKeeps
<1>3. ASSUME calls = 0
      PROVE  QuietInv'
  <2>1. QuietInv /\ At(t, h) /\ Moves(t, h, k, a, b, c)
    BY <1>1, <1>3, SwapNets DEF Typed, Moves, Has, OnTop, At
  <2>2. /\ Rests(Tail(stack[t]))
        /\ Outstanding = 0 /\ Alone(t) /\ Count("reconnect") = 0 /\ (sock = "none" => h = "open")
    BY <1>1, <2>1, FinalTop
  <2>3. ~(Count("reconnect")' > 0)
    BY <2>2
  <2> QED
    BY <1>1, <2>1, <2>2, <2>3, CloseStep DEF Typed
<1> QED
  BY <1>1, <1>2, <1>3 DEF IInv

LEMMA Joined == ASSUME NEW x, NEW y PROVE <<x>> \o <<y>> = <<x, y>>
<1>1. <<x>> \in Seq({x, y}) /\ <<y>> \in Seq({x, y}) /\ <<x, y>> \in Seq({x, y})
  OBVIOUS
<1>2. PICK r : r = <<x>> \o <<y>>
  OBVIOUS
<1>3. r \in Seq({x, y}) /\ Len(r) = 2 /\ r[1] = x /\ r[2] = y
  BY <1>1, <1>2
<1>4. PICK q : q = <<x, y>>
  OBVIOUS
<1>5. q \in Seq({x, y}) /\ Len(q) = 2 /\ q[1] = x /\ q[2] = y
  BY <1>1, <1>4
<1>6. \A i \in 1..Len(r) : r[i] = q[i]
  BY <1>3, <1>5
<1>7. r = q
  BY ONLY <1>3, <1>5, <1>6, SeqEqual
<1> QED
  BY <1>2, <1>4, <1>7

LEMMA OnDisconnectedKeeps ==
    ASSUME ConnectorsAssumption, IInv, NEW t \in Threads, OnDisconnected(t)
    PROVE  IInv'
<1>1. TypeInv /\ TokenInv /\ (Lossless => KeepInv) /\ stack \in [Threads -> Seq(Steps)]
  BY DEF IInv, TypeInv
<1>2. io' \in IoType /\ io'["accept"] = Idle /\ Outstanding' = Outstanding /\ Count("reconnect")' = Count("reconnect")
  BY <1>1, IoSame DEF OnDisconnected
<1>3. "onDisconnected" \in Final \ {"clear", "delSession"} /\ "again" \in Final /\ "again" \notin Lying
      /\ "again" \in Steps /\ "stop" \in Steps /\ "stop" \notin Lying
  BY DEF Final, Lying, Steps, Chain, Busy, Parting
<1>4. sock' = sock /\ UNCHANGED <<refs, calls, gen, listed, reconnect, wish>> /\ At(t, "onDisconnected")
  BY DEF OnDisconnected, ownVars
<1>5. CASE Then(t, <<"again">>)
  <2>1. Moves(t, "onDisconnected", "bottom", "again", "bottom", "bottom")
    BY <1>1, <1>4, <1>5, ThenOne
  <2>2. Typed(t, "onDisconnected", "bottom", "again", "bottom", "bottom")
    BY <1>1, <1>2, <1>3, <1>4, <2>1, SwapNets, EasyTyped DEF TypeInv
  <2>3. Net(Chain, "onDisconnected", "bottom", "again", "bottom", "bottom") = 0
        /\ Net(Dial, "onDisconnected", "bottom", "again", "bottom", "bottom") = 0
        /\ Net({"open"}, "onDisconnected", "bottom", "again", "bottom", "bottom") = 0
    BY DEF Net, In, Chain, Dial
  <2> QED
    BY <1>2, <1>3, <1>4, <2>2, <2>3, PlainSwap
<1>6. CASE Then(t, <<"stop", "again">>)
  <2>1. Moves(t, "onDisconnected", "bottom", "stop", "again", "bottom")
    BY <1>1, <1>3, <1>4, <1>6, ThenTwo
  <2>2. Typed(t, "onDisconnected", "bottom", "stop", "again", "bottom")
    BY <1>1, <1>2, <1>3, <1>4, <2>1, EasyTyped DEF TypeInv, Opt
  <2>3. Net(Chain, "onDisconnected", "bottom", "stop", "again", "bottom") = 0
        /\ Net(Dial, "onDisconnected", "bottom", "stop", "again", "bottom") = 0
        /\ Net({"open"}, "onDisconnected", "bottom", "stop", "again", "bottom") = 0
        /\ NetBal("onDisconnected", "bottom", "stop", "again", "bottom") = 0
    BY DEF NetBal, Net, In, Chain, Dial
  <2>4. Count("reconnect") \in Nat /\ Shown \in Nat /\ Shown' = Shown
    BY <1>1, <1>4, <2>2, TypedKeeps, Numbers DEF Shown
  <2>5. Steady(t, "onDisconnected", "bottom", "stop", "again", "bottom")
    BY <1>2, <1>4, <2>2, <2>3, <2>4 DEF Steady, Chain
  <2>6. TokenInv' /\ (KeepInv => KeepInv')
    BY <1>1, <2>5, SteadyKeeps
  <2>7. ASSUME Rests(Tail(stack[t]))
        PROVE  Shaped(stack'[t])
    <3>1. stack[t] \in Seq(Steps) /\ stack[t] # <<>>
      BY <1>1, <1>4 DEF At
    <3>2. PICK q \in Seq(Steps) : q = Tail(stack[t])
      BY <3>1, TailProperties
    <3>3. PICK p : p = <<"again">> \o q
      OBVIOUS
    <3>4. p \in Seq(Steps) /\ p # <<>> /\ Head(p) = "again" /\ Tail(p) = q
      BY <1>3, <3>3, PushProperties
    <3>5. stack'[t] = <<"stop">> \o p
      <4>1. stack'[t] = Turned("onDisconnected", "bottom", "stop", "again", "bottom", stack[t])
        BY <1>1, <2>1, <2>2, MovesType DEF Typed
      <4> QED
        BY <3>2, <3>3, <4>1 DEF Turned, Under, Off, Put
    <3>6. stack'[t] # <<>> /\ Head(stack'[t]) = "stop" /\ Tail(stack'[t]) = p
      BY <1>3, <3>4, <3>5, PushProperties
    <3> QED
      BY <2>7, <3>2, <3>4, <3>6 DEF Shaped, Closes, Nested, Onward, On
  <2>8. refs' = refs + NetBal("onDisconnected", "bottom", "stop", "again", "bottom")
    BY <1>1, <1>4, <2>3 DEF TypeInv
  <2> QED
    BY <1>1, <1>2, <1>3, <1>4, <2>2, <2>6, <2>7, <2>8, FinalMove
<1>7. Then(t, <<"again">>) \/ Then(t, <<"stop", "again">>)
  <2>1. PICK cb \in {<<>>, <<"stop">>} : Then(t, cb \o <<"again">>)
    BY DEF OnDisconnected, ConnectorsAssumption
  <2>2. CASE cb = <<>>
    <3>1. <<>> \o <<"again">> = <<"again">>
      BY ONLY ConcatEmptySeq
    <3> QED
      BY <2>1, <2>2, <3>1
  <2>3. CASE cb = <<"stop">>
    <3>1. <<"stop">> \o <<"again">> = <<"stop", "again">>
      BY Joined
    <3> QED
      BY <2>1, <2>3, <3>1
  <2> QED
    BY <2>1, <2>2, <2>3
<1> QED
  BY <1>5, <1>6, <1>7

LEMMA OnConnectKeeps ==
    ASSUME ConnectorsAssumption, IInv, NEW t \in Threads, OnConnect(t), UNCHANGED ownVars
    PROVE  IInv'
<1>1. TypeInv /\ TokenInv /\ (Lossless => KeepInv) /\ stack \in [Threads -> Seq(Steps)]
  BY DEF IInv, TypeInv
<1>2. io' \in IoType /\ io'["accept"] = Idle /\ Outstanding' = Outstanding /\ Count("reconnect")' = Count("reconnect")
  BY <1>1, IoSame DEF OnConnect
<1>3. "onConnect" \in Final \ {"clear", "delSession"} /\ "initialize" \in Steps \ Lying /\ "release" \in Steps \ Lying
      /\ "initialize" \in Busy /\ "release" \in Busy
  BY DEF Final, Lying, Steps, Chain, Busy
<1>4. sock' = sock /\ UNCHANGED <<calls, gen, listed, reconnect, wish>> /\ At(t, "onConnect") /\ refs' = refs + 1
  BY DEF OnConnect, ownVars, Reference
<1>5. Moves(t, "onConnect", "bottom", "initialize", "release", "bottom")
  BY <1>1, <1>3, ThenTwo DEF OnConnect
<1>6. Typed(t, "onConnect", "bottom", "initialize", "release", "bottom")
  BY <1>1, <1>2, <1>3, <1>4, <1>5, EasyTyped DEF TypeInv, Opt
<1>7. Net(Chain, "onConnect", "bottom", "initialize", "release", "bottom") = 0
      /\ Net(Dial, "onConnect", "bottom", "initialize", "release", "bottom") = 0
      /\ Net({"open"}, "onConnect", "bottom", "initialize", "release", "bottom") = 0
      /\ NetBal("onConnect", "bottom", "initialize", "release", "bottom") = 1
  BY DEF NetBal, Net, In, Chain, Dial
<1>8. Count("reconnect") \in Nat /\ Shown \in Nat /\ Shown' = Shown
  BY <1>1, <1>4, <1>6, TypedKeeps, Numbers DEF Shown
<1>9. Steady(t, "onConnect", "bottom", "initialize", "release", "bottom")
  BY <1>2, <1>4, <1>6, <1>7, <1>8 DEF Steady, Chain
<1>10. TokenInv' /\ (KeepInv => KeepInv')
  BY <1>1, <1>9, SteadyKeeps
<1>11. ASSUME Rests(Tail(stack[t]))
       PROVE  Shaped(stack'[t])
  <2>1. stack[t] \in Seq(Steps) /\ stack[t] # <<>>
    BY <1>1, <1>4 DEF At
  <2>2. PICK q \in Seq(Steps) : q = Tail(stack[t])
    BY <2>1, TailProperties
  <2>3. PICK p : p = <<"release">> \o q
    OBVIOUS
  <2>4. p \in Seq(Steps) /\ Solid(p)
    BY <1>3, <1>11, <2>2, <2>3, PushProperties, SolidRelease
  <2>5. stack'[t] = <<"initialize">> \o p
    <3>1. stack'[t] = Turned("onConnect", "bottom", "initialize", "release", "bottom", stack[t])
      BY <1>1, <1>5, <1>6, MovesType DEF Typed
    <3> QED
      BY <2>2, <2>3, <3>1 DEF Turned, Under, Off, Put
  <2> QED
    BY <1>3, <2>4, <2>5, SolidPush DEF Shaped, Works
<1>12. refs' = refs + NetBal("onConnect", "bottom", "initialize", "release", "bottom")
  BY <1>4, <1>7
<1> QED
  BY <1>1, <1>2, <1>3, <1>4, <1>6, <1>10, <1>11, <1>12, FinalMove

\* Connect returns without arming.
LEMMA SkipRests ==
    ASSUME NEW s \in Seq(Steps), s # <<>>, Tail(s) # <<>>, Rests(Tail(s))
    PROVE  Tail(Tail(s)) = <<>>
  BY DEF Rests

LEMMA OpenFailsKeeps ==
    ASSUME ConnectorsAssumption, IInv, NEW t \in Threads, OpenFails(t)
    PROVE  IInv'
<1>1. TypeInv /\ TokenInv /\ (Lossless => KeepInv) /\ stack \in [Threads -> Seq(Steps)]
  BY DEF IInv, TypeInv
<1>2. io' \in IoType /\ io'["accept"] = Idle /\ Outstanding' = Outstanding /\ Count("reconnect")' = Count("reconnect")
  BY <1>1, IoAborted DEF OpenFails, OpenFailed
<1>3. "open" \in Final \ {"clear", "delSession"} /\ "open" \in Lying /\ "open" \in Dial
  BY DEF Final, Lying, Dial
<1>4. UNCHANGED <<refs, calls, gen, listed, reconnect, wish>> /\ At(t, "open")
  BY DEF OpenFails, ownVars
<1>5. stack[t] \in Seq(Steps) /\ Tail(stack[t]) # <<>> /\ stack[t] # <<>> /\ Head(stack[t]) = "open"
  BY <1>1, <1>3, <1>4, TailLies DEF At
<1>6. Moves(t, "open", "arm", "bottom", "bottom", "bottom")
  <2>1. Head(Tail(stack[t])) = "arm" /\ stack' = [stack EXCEPT ![t] = <<>> \o Tail(Tail(stack[t]))]
    BY <1>1 DEF OpenFails, ThenSkip
  <2>2. Tail(Tail(stack[t])) \in Seq(Steps)
    BY <1>5, TailProperties
  <2>3. <<>> \o Tail(Tail(stack[t])) = Tail(Tail(stack[t]))
    BY <2>2
  <2> QED
    BY <1>5, <2>1, <2>3 DEF Moves, Has, OnTop, Turned, Under, Off, Put
<1>7. Typed(t, "open", "arm", "bottom", "bottom", "bottom")
  BY <1>1, <1>2, <1>3, <1>4, <1>6, EasyTyped DEF TypeInv, Opt
<1>8. Net(Chain, "open", "arm", "bottom", "bottom", "bottom") = 0
      /\ Net(Dial, "open", "arm", "bottom", "bottom", "bottom") = 0 - 1
      /\ Net({"onConnected"}, "open", "arm", "bottom", "bottom", "bottom") = 0
      /\ NetBal("open", "arm", "bottom", "bottom", "bottom") = 0
  BY DEF NetBal, Net, In, Chain, Dial
<1>9. TokenInv' /\ (KeepInv => KeepInv')
  BY <1>1, <1>2, <1>3, <1>4, <1>7, <1>8, DialEnds
<1>10. ASSUME Rests(Tail(stack[t]))
       PROVE  Rests(stack'[t])
  <2>1. stack'[t] = Turned("open", "arm", "bottom", "bottom", "bottom", stack[t])
    BY <1>1, <1>6, <1>7, MovesType DEF Typed
  <2>2. stack'[t] = Tail(Tail(stack[t]))
    BY <2>1 DEF Turned, Under, Off, Put
  <2> QED
    BY <1>5, <1>10, <2>2, SkipRests DEF Rests
<1>11. refs' = refs + NetBal("open", "arm", "bottom", "bottom", "bottom")
  BY <1>1, <1>4, <1>8 DEF TypeInv
<1> QED
  BY <1>1, <1>2, <1>3, <1>4, <1>7, <1>9, <1>10, <1>11, FinalMove DEF Shaped

LEMMA ConnectFailsKeeps ==
    ASSUME ConnectorsAssumption, IInv, NEW t \in Threads, ConnectFails(t)
    PROVE  IInv'
<1>1. TypeInv /\ TokenInv /\ (Lossless => KeepInv) /\ stack \in [Threads -> Seq(Steps)]
  BY DEF IInv, TypeInv
<1>2. io' \in IoType /\ io'["accept"] = Idle /\ Outstanding' = Outstanding /\ Count("reconnect")' = Count("reconnect")
  BY <1>1, IoSame DEF ConnectFails
<1>3. "connect" \in Final \ {"clear", "delSession"} /\ "connect" \in Lying /\ "close" \in Steps \ Lying /\ "close" \in Final
  BY DEF Final, Lying, Dial, Steps
<1>4. sock' = sock /\ UNCHANGED <<refs, calls, gen, listed, reconnect, wish>> /\ At(t, "connect")
  BY DEF ConnectFails, ownVars
<1>5. stack[t] \in Seq(Steps) /\ Tail(stack[t]) # <<>> /\ stack[t] # <<>>
  BY <1>1, <1>3, <1>4, TailLies DEF At
<1>6. Moves(t, "connect", "arm", "close", "bottom", "bottom")
  BY <1>1, <1>4, <1>5, ThenSkipOne DEF ConnectFails
<1>7. Typed(t, "connect", "arm", "close", "bottom", "bottom")
  BY <1>1, <1>2, <1>3, <1>4, <1>6, EasyTyped DEF TypeInv, Opt
<1>8. Net(Chain, "connect", "arm", "close", "bottom", "bottom") = 0
      /\ Net(Dial, "connect", "arm", "close", "bottom", "bottom") = 0
      /\ Net({"open"}, "connect", "arm", "close", "bottom", "bottom") = 0
      /\ Net({"onConnected"}, "connect", "arm", "close", "bottom", "bottom") = 0
      /\ NetBal("connect", "arm", "close", "bottom", "bottom") = 0
  BY DEF NetBal, Net, In, Chain, Dial
<1>9. Count("reconnect") \in Nat /\ Shown \in Nat /\ Shown' = Shown
  BY <1>1, <1>4, <1>7, TypedKeeps, Numbers DEF Shown
<1>10. Steady(t, "connect", "arm", "close", "bottom", "bottom")
  BY <1>2, <1>4, <1>7, <1>8, <1>9 DEF Steady
<1>11. TokenInv' /\ (KeepInv => KeepInv')
  BY <1>1, <1>10, SteadyKeeps
<1>12. ASSUME Rests(Tail(stack[t]))
       PROVE  Shaped(stack'[t])
  <2>1. stack'[t] = Turned("connect", "arm", "close", "bottom", "bottom", stack[t])
    BY <1>1, <1>6, <1>7, MovesType DEF Typed
  <2>2. stack'[t] = <<"close">> \o Tail(Tail(stack[t]))
    BY <2>1 DEF Turned, Under, Off, Put
  <2>3. Rests(<<>>) /\ <<>> \in Seq(Steps)
    BY DEF Rests
  <2>4. Closes(<<"close">> \o <<>>)
    BY <1>3, <2>3, FinalPush
  <2>5. Tail(Tail(stack[t])) = <<>>
    BY <1>5, <1>12, SkipRests
  <2> QED
    BY <2>2, <2>4, <2>5 DEF Shaped
<1>13. refs' = refs + NetBal("connect", "arm", "close", "bottom", "bottom")
  BY <1>1, <1>4, <1>8 DEF TypeInv
<1> QED
  BY <1>1, <1>2, <1>3, <1>4, <1>7, <1>11, <1>12, <1>13, FinalMove

-----------------------------------------------------------------------------
(***************************************************************************)
(* _OnConnect                                                              *)
(***************************************************************************)
LEMMA WorkMove ==
    ASSUME ConnectorsAssumption, IInv, NEW t \in Threads, NEW h \in {"initialize", "addSession"},
           NEW a \in Opt(Busy), NEW b \in Opt(Busy), Typed(t, h, "bottom", a, b, "bottom"),
           TokenInv', Lossless => KeepInv', NetBal(h, "bottom", a, b, "bottom") = 0,
           Outstanding' = Outstanding, Count("reconnect")' = Count("reconnect"),
           refs' = refs, calls' = calls, sock' = sock
    PROVE  IInv'
<1>1. TypeInv /\ TokenInv /\ (Lossless => KeepInv) /\ (calls = 0 => QuietInv)
  BY DEF IInv
<1>2. TypeInv'
  BY <1>1, TypedKeeps
<1>3. "bottom" \in Opt(Busy) /\ h \in Busy \ {"release"} /\ "bottom" \in Opt(Busy \ {"release"})
      /\ "bottom" \in Opt(Steps)
  BY DEF Opt, Busy
<1>4. ASSUME calls = 0
      PROVE  QuietInv'
  <2>1. QuietInv /\ Moves(t, h, "bottom", a, b, "bottom") /\ Has(h, "bottom", stack[t])
        /\ a \in Opt(Steps) /\ b \in Opt(Steps)
    BY <1>1, <1>4 DEF Typed, Moves
  <2>2. Works(stack[t]) /\ Solid(stack[t])
    BY <1>1, <2>1, UsingWorks DEF Has
  <2>3. stack'[t] = Turned(h, "bottom", a, b, "bottom", stack[t]) /\ stack[t] \in Seq(Steps)
    BY <1>1, <1>3, <2>1, MovesType DEF TypeInv
  <2>4. Solid(stack'[t])
    BY <1>3, <2>1, <2>2, <2>3, SolidTurned
  <2>5. sock' # "none"
    BY <1>1, <2>1, <2>2, WorkersKeep
  <2>6. refs' = refs + 0 + NetBal(h, "bottom", a, b, "bottom") /\ Outstanding' = Outstanding + 0
    BY <1>1, OutstandingType DEF TypeInv, IoType
  <2> QED
    BY <1>1, <1>3, <2>1, <2>2, <2>4, <2>5, <2>6, WorkStep DEF Works
<1> QED
  BY <1>1, <1>2, <1>4 DEF IInv

LEMMA InitializeOkKeeps ==
    ASSUME ConnectorsAssumption, IInv, NEW t \in Threads, InitializeOk(t), UNCHANGED ownVars
    PROVE  IInv'
<1>1. TypeInv /\ TokenInv /\ (Lossless => KeepInv) /\ stack \in [Threads -> Seq(Steps)]
  BY DEF IInv, TypeInv
<1>2. io' \in IoType /\ io'["accept"] = Idle /\ Outstanding' = Outstanding /\ Count("reconnect")' = Count("reconnect")
  BY <1>1, IoSame DEF InitializeOk
<1>3. "addSession" \in Steps \ Lying /\ "addSession" \in Opt(Busy) /\ "bottom" \in Opt(Busy)
  BY DEF Lying, Steps, Busy, Opt
<1>4. UNCHANGED <<sock, refs, calls, gen, listed, reconnect, wish>>
  BY DEF InitializeOk, ownVars
<1>5. Moves(t, "initialize", "bottom", "addSession", "bottom", "bottom")
  BY <1>1, ThenOne DEF InitializeOk
<1>6. Typed(t, "initialize", "bottom", "addSession", "bottom", "bottom")
  BY <1>1, <1>2, <1>3, <1>4, <1>5, EasyTyped DEF TypeInv, Opt
<1>7. Net(Chain, "initialize", "bottom", "addSession", "bottom", "bottom") = 0
      /\ Net(Dial, "initialize", "bottom", "addSession", "bottom", "bottom") = 0
      /\ Net({"open"}, "initialize", "bottom", "addSession", "bottom", "bottom") = 0
      /\ NetBal("initialize", "bottom", "addSession", "bottom", "bottom") = 0
  BY DEF NetBal, Net, In, Chain, Dial
<1>8. Count("reconnect") \in Nat /\ Shown \in Nat /\ Shown' = Shown
  BY <1>1, <1>4, <1>6, TypedKeeps, Numbers DEF Shown
<1>9. Steady(t, "initialize", "bottom", "addSession", "bottom", "bottom")
  BY <1>2, <1>4, <1>6, <1>7, <1>8 DEF Steady, Chain
<1>10. TokenInv' /\ (KeepInv => KeepInv')
  BY <1>1, <1>9, SteadyKeeps
<1> QED
  BY <1>1, <1>2, <1>3, <1>4, <1>6, <1>7, <1>10, WorkMove

LEMMA AddSessionOkKeeps ==
    ASSUME ConnectorsAssumption, IInv, NEW t \in Threads, AddSessionOk(t), UNCHANGED ownVars
    PROVE  IInv'
<1>1. TypeInv /\ TokenInv /\ (Lossless => KeepInv) /\ stack \in [Threads -> Seq(Steps)]
  BY DEF IInv, TypeInv
<1>2. io' \in IoType /\ io'["accept"] = Idle /\ Outstanding' = Outstanding /\ Count("reconnect")' = Count("reconnect")
  BY <1>1, IoSame DEF AddSessionOk
<1>3. "onConnected" \in Steps \ Lying /\ "recv" \in Steps \ Lying /\ "onConnected" \in Opt(Busy) /\ "recv" \in Opt(Busy)
      /\ "onConnected" \in Steps /\ "recv" \in Steps
  BY DEF Lying, Steps, Busy, Using, Opt
<1>4. UNCHANGED <<sock, refs, calls, gen, reconnect, wish>> /\ ~listed /\ listed'
  BY DEF AddSessionOk, ownVars
<1>5. Moves(t, "addSession", "bottom", "onConnected", "recv", "bottom")
  BY <1>1, <1>3, ThenTwo DEF AddSessionOk, ConnectorsAssumption
<1>6. Typed(t, "addSession", "bottom", "onConnected", "recv", "bottom")
  <2>1. listed' \in BOOLEAN
    BY DEF AddSessionOk
  <2> QED
    BY <1>1, <1>2, <1>3, <1>4, <1>5, <2>1, EasyTyped DEF TypeInv, Opt
<1>7. Net(Chain, "addSession", "bottom", "onConnected", "recv", "bottom") = 0 - 1
      /\ Net(Dial, "addSession", "bottom", "onConnected", "recv", "bottom") = 0
      /\ Net({"open"}, "addSession", "bottom", "onConnected", "recv", "bottom") = 0
      /\ NetBal("addSession", "bottom", "onConnected", "recv", "bottom") = 0
  BY DEF NetBal, Net, In, Chain, Dial
<1>8. Count("reconnect") \in Nat /\ Shown = 0 /\ Shown' = 1
  BY <1>1, <1>4, <1>6, TypedKeeps, Numbers DEF Shown
<1>9. Steady(t, "addSession", "bottom", "onConnected", "recv", "bottom")
  BY <1>2, <1>4, <1>6, <1>7, <1>8 DEF Steady, Chain
<1>10. TokenInv' /\ (KeepInv => KeepInv')
  BY <1>1, <1>9, SteadyKeeps
<1> QED
  BY <1>1, <1>2, <1>3, <1>4, <1>6, <1>7, <1>10, WorkMove

\* Initialize or _AddSession fails, which ends the chain.
LEMMA RefuseKeeps ==
    ASSUME ConnectorsAssumption, IInv, NEW t \in Threads, NEW h \in {"initialize", "addSession"}, At(t, h),
           Then(t, <<"disconnect">>), UNCHANGED <<sock, io, refs, calls, gen, listed, reconnect, wish>>,
           h = "initialize" => MayFail("initialize"),
           h = "addSession" => sock = "none" \/ listed \/ MayFail("associate")
    PROVE  IInv'
<1>1. TypeInv /\ TokenInv /\ (Lossless => KeepInv) /\ stack \in [Threads -> Seq(Steps)]
  BY DEF IInv, TypeInv
<1>2. io' \in IoType /\ io'["accept"] = Idle /\ Outstanding' = Outstanding /\ Count("reconnect")' = Count("reconnect")
  BY <1>1, IoSame
<1>3. "disconnect" \in Steps \ Lying /\ "disconnect" \in Opt(Busy) /\ "bottom" \in Opt(Busy) /\ h \in Chain
  BY DEF Lying, Steps, Busy, Parting, Opt, Chain
<1>4. Moves(t, h, "bottom", "disconnect", "bottom", "bottom")
  BY <1>1, ThenOne
<1>5. Typed(t, h, "bottom", "disconnect", "bottom", "bottom")
  BY <1>1, <1>2, <1>3, <1>4, EasyTyped DEF TypeInv, Opt
<1>6. Net(Chain, h, "bottom", "disconnect", "bottom", "bottom") = 0 - 1
      /\ Net(Dial, h, "bottom", "disconnect", "bottom", "bottom") = 0
      /\ NetBal(h, "bottom", "disconnect", "bottom", "bottom") = 0
  BY DEF NetBal, Net, In, Chain, Dial
<1>7. TokenInv' /\ Linking = 1 /\ sock # "none"
  BY <1>1, <1>2, <1>3, <1>5, <1>6, ChainEnds
<1>8. ~listed
  <2>1. Left(Chain) \in Nat /\ Left(Chain) >= 1 /\ Count("reconnect") \in Nat /\ Shown \in Nat
    BY <1>1, <1>3, <1>5, LeftAt, TypedKeeps, Numbers
  <2>2. Shown = 0
    BY <1>7, <2>1 DEF Linking
  <2> QED
    BY <2>2 DEF Shown
<1>9. ~Lossless
  BY <1>7, <1>8 DEF Lossless, MayFail
<1> QED
  BY <1>1, <1>2, <1>3, <1>5, <1>6, <1>7, <1>9, WorkMove

LEMMA ConnectingKeeps ==
    ASSUME ConnectorsAssumption, IInv, NEW t \in Threads, Connecting(t), UNCHANGED ownVars
    PROVE  IInv'
<1>1. CASE OnConnect(t)
  BY <1>1, OnConnectKeeps
<1>2. CASE InitializeOk(t)
  BY <1>2, InitializeOkKeeps
<1>3. CASE InitializeFails(t)
  <2>1. /\ At(t, "initialize") /\ MayFail("initialize") /\ Then(t, <<"disconnect">>)
        /\ UNCHANGED <<sock, io, refs, calls, gen, listed, reconnect, wish>>
    BY <1>3 DEF InitializeFails, ownVars
  <2> QED
    BY <2>1, RefuseKeeps
<1>4. CASE AddSessionOk(t)
  BY <1>4, AddSessionOkKeeps
<1>5. CASE AddSessionFails(t)
  <2>1. /\ At(t, "addSession") /\ (sock = "none" \/ listed \/ MayFail("associate")) /\ Then(t, <<"disconnect">>)
        /\ UNCHANGED <<sock, io, refs, calls, gen, listed, reconnect, wish>>
    BY <1>5 DEF AddSessionFails, ownVars
  <2> QED
    BY <2>1, RefuseKeeps
<1>6. CASE OnConnected(t)
  BY <1>6, ServingKeeps DEF ServingStep
<1> QED
  BY <1>1, <1>2, <1>3, <1>4, <1>5, <1>6 DEF Connecting

-----------------------------------------------------------------------------
(***************************************************************************)
(* Connect                                                                 *)
(***************************************************************************)
\* A step of a thread that has nothing to do with the session before and after it.
LEMMA RestStep ==
    ASSUME ConnectorsAssumption, TypeInv, QuietInv, NEW t \in Threads, NEW h, NEW k,
           NEW a \in Opt(Steps), NEW b \in Opt(Steps), NEW c \in Opt(Steps), Moves(t, h, k, a, b, c),
           Rests(stack[t]), Rests(stack'[t]), Outstanding' = Outstanding, NetBal(h, k, a, b, c) = 0, refs' = refs,
           Count("reconnect")' = Count("reconnect"), sock' = sock
    PROVE  QuietInv'
<1>1. /\ stack' \in [Threads -> Seq(Steps)] /\ \A u \in Threads : u # t => stack'[u] = stack[u]
      /\ stack[t] \in Seq(Steps) /\ stack'[t] \in Seq(Steps)
  BY BalMoves DEF TypeInv
<1>2. CountInv' /\ \A u \in Threads : Shaped(stack'[u])
  <2>1. refs' = refs + 0 + NetBal(h, k, a, b, c) /\ Outstanding' = Outstanding + 0 /\ 0 \in Int
    BY OutstandingType DEF TypeInv, IoType
  <2> QED
    BY <2>1, CountMoves DEF Shaped
<1>3. ~Closes(stack[t]) /\ ~Closes(stack'[t])
  BY <1>1, ClosesBal
<1>4. \A u \in Threads : /\ Rests(stack'[u]) <=> Rests(stack[u])
                         /\ Closes(stack'[u]) <=> Closes(stack[u])
  BY <1>1, <1>3
<1>5. \A u \in Threads : Opens(stack[u]) => Rests(stack'[u]) \/ Opens(stack'[u])
  BY <1>1
<1>6. EndInv'
  BY <1>4, <1>5 DEF QuietInv, EndInv, Alone
<1> QED
  BY <1>2, <1>6 DEF QuietInv

LEMMA ArmKeeps ==
    ASSUME ConnectorsAssumption, IInv, NEW t \in Threads, Arm(t)
    PROVE  IInv'
<1>1. TypeInv /\ TokenInv /\ (calls = 0 => QuietInv) /\ (Lossless => KeepInv) /\ stack \in [Threads -> Seq(Steps)]
  BY DEF IInv, TypeInv
<1>2. io' \in IoType /\ io'["accept"] = Idle /\ Outstanding' = Outstanding /\ Count("reconnect")' = Count("reconnect")
  BY <1>1, IoSame DEF Arm
<1>3. UNCHANGED <<sock, refs, calls, gen, listed, wish>> /\ reconnect' = TRUE
  BY DEF Arm
<1>4. Moves(t, "arm", "bottom", "bottom", "bottom", "bottom")
  BY <1>1, ThenNone DEF Arm
<1>5. Typed(t, "arm", "bottom", "bottom", "bottom", "bottom")
  BY <1>1, <1>2, <1>3, <1>4, EasyTyped DEF TypeInv, Opt
<1>6. Net(Chain, "arm", "bottom", "bottom", "bottom", "bottom") = 0
      /\ Net(Dial, "arm", "bottom", "bottom", "bottom", "bottom") = 0
      /\ Net({"open"}, "arm", "bottom", "bottom", "bottom", "bottom") = 0
      /\ Net({"onConnected"}, "arm", "bottom", "bottom", "bottom", "bottom") = 0
      /\ NetBal("arm", "bottom", "bottom", "bottom", "bottom") = 0
  BY DEF NetBal, Net, In, Chain, Dial
<1>7. Count("reconnect") \in Nat /\ Shown \in Nat /\ Shown' = Shown
  BY <1>1, <1>3, <1>5, TypedKeeps, Numbers DEF Shown
<1>8. Steady(t, "arm", "bottom", "bottom", "bottom", "bottom")
  BY <1>2, <1>3, <1>5, <1>6, <1>7 DEF Steady
<1>9. TypeInv' /\ TokenInv' /\ (KeepInv => KeepInv')
  BY <1>1, <1>8, SteadyKeeps
<1>10. ASSUME calls = 0
       PROVE  QuietInv'
  <2>1. QuietInv /\ Shaped(stack[t]) /\ stack[t] \in Seq(Steps) /\ stack[t] # <<>> /\ Head(stack[t]) = "arm"
    BY <1>1, <1>10 DEF QuietInv, Arm, At
  <2>2. ~Closes(stack[t])
    BY <2>1, NotBusy DEF Closes, Cancelling, On
  <2>3. ~Works(stack[t])
    BY <2>1, WorksBal, NotBusy
  <2>4. Rests(stack[t]) /\ Tail(stack[t]) = <<>>
    BY <2>1, <2>2, <2>3 DEF Shaped, Rests
  <2>5. stack'[t] = Tail(stack[t]) /\ "bottom" \in Opt(Steps)
    <3>1. stack'[t] = Turned("arm", "bottom", "bottom", "bottom", "bottom", stack[t])
      BY <1>1, <1>4, <1>5, MovesType DEF Typed
    <3> QED
      BY <3>1 DEF Turned, Under, Off, Put, Opt
  <2>6. Rests(stack'[t])
    BY <2>4, <2>5 DEF Rests
  <2> QED
    BY <1>1, <1>2, <1>3, <1>4, <1>6, <2>1, <2>4, <2>5, <2>6, RestStep
<1> QED
  BY <1>1, <1>3, <1>9, <1>10 DEF IInv

\* Nobody is about to call Open while the only application thread is idle.
LEMMA NoOpen ==
    ASSUME ConnectorsAssumption, TypeInv, NEW a \in Apps, stack[a] = <<>>
    PROVE  Left({"open"}) = 0 /\ \A u \in Threads : ~Opens(stack[u])
<1>1. FiniteThreads /\ stack \in [Threads -> Seq(Steps)]
  BY Finite DEF TypeInv
<1>2. ASSUME NEW u \in Threads
      PROVE  Occurs({"open"}, stack[u]) = 0
  <2>1. CASE u \in Workers
    BY <2>1 DEF TypeInv
  <2>2. CASE u \in Apps
    <3>1. u = a
      BY <2>2 DEF ConnectorsAssumption
    <3> QED
      BY <3>1, OccursNone
  <2> QED
    BY <2>1, <2>2 DEF Threads
<1>3. Left({"open"}) = 0
  BY <1>1, <1>2, LeftZero
<1>4. ASSUME NEW u \in Threads, Opens(stack[u])
      PROVE  FALSE
  <2>1. Occurs({"open"}, stack[u]) >= 1
    BY <1>1, <1>4, TopCounts DEF Opens, On
  <2> QED
    BY <1>2, <2>1
<1> QED
  BY <1>3, <1>4

LEMMA ConnectKeeps ==
    ASSUME ConnectorsAssumption, IInv, NEW t \in Apps, Connect(t)
    PROVE  IInv'
<1>1. TypeInv /\ TokenInv /\ (calls = 0 => QuietInv) /\ (Lossless => KeepInv) /\ stack \in [Threads -> Seq(Steps)]
      /\ t \in Threads
  BY DEF IInv, TypeInv, Threads
<1>2. io' \in IoType /\ io'["accept"] = Idle /\ Outstanding' = Outstanding /\ Count("reconnect")' = Count("reconnect")
  BY <1>1, IoSame DEF Connect
<1>3. UNCHANGED <<sock, refs, calls, gen, listed, reconnect>> /\ sock = "none" /\ stack[t] = <<>>
      /\ stack' = [stack EXCEPT ![t] = <<"open", "arm">>] /\ (wish' = "keep" => wish = "keep")
  BY DEF Connect
<1>4. "open" \in Steps /\ "arm" \in Steps /\ "open" \in Lying /\ "arm" \notin Lying
  BY DEF Steps, Dial, Lying
<1>5. Moves(t, "bottom", "bottom", "open", "arm", "bottom")
  BY <1>1, <1>3, <1>4, BeginsTwo
<1>6. Typed(t, "bottom", "bottom", "open", "arm", "bottom")
  <2>1. Top(Under("bottom", "bottom", stack[t])) = "bottom"
    BY <1>3 DEF Top, Under, Off
  <2>2. "bottom" \in Table["arm"] /\ "arm" \in Table["open"] /\ "open" \in DOMAIN Table /\ "arm" \in DOMAIN Table
    BY <1>4, TableSteps DEF Opt
  <2>3. Linked(Table, "open", "arm", "bottom", Top(Under("bottom", "bottom", stack[t])))
    BY <2>1, <2>2 DEF Linked
  <2>4. t \notin Workers
    BY SessionAssumption
  <2>5. refs' \in Int /\ gen' \in Nat /\ calls' \in Nat /\ listed' \in BOOLEAN
    BY <1>1, <1>3 DEF TypeInv
  <2> QED
    BY <1>2, <1>4, <1>5, <2>3, <2>4, <2>5 DEF Typed, Opt
<1>7. TypeInv'
  BY <1>1, <1>6, TypedKeeps
<1>8. Net(Chain, "bottom", "bottom", "open", "arm", "bottom") = 0
      /\ Net(Dial, "bottom", "bottom", "open", "arm", "bottom") = 1
      /\ Net({"open"}, "bottom", "bottom", "open", "arm", "bottom") = 1
      /\ Net({"onConnected"}, "bottom", "bottom", "open", "arm", "bottom") = 0
      /\ NetBal("bottom", "bottom", "open", "arm", "bottom") = 0
  BY DEF NetBal, Net, In, Chain, Dial
<1>9. Left({"open"}) = 0 /\ \A u \in Threads : ~Opens(stack[u])
  BY <1>1, <1>3, NoOpen
<1>10. Linking = 0 /\ Left(Dial) = 0
  BY <1>1, <1>3, <1>9 DEF TokenInv
<1>11. /\ Linking \in Nat /\ Linking' \in Nat
       /\ Linking' = Linking + Net(Chain, "bottom", "bottom", "open", "arm", "bottom")
                        + Count("reconnect")' - Count("reconnect") + Shown' - Shown
       /\ Left(Dial)' = Left(Dial) + Net(Dial, "bottom", "bottom", "open", "arm", "bottom")
       /\ Left({"open"})' = Left({"open"}) + Net({"open"}, "bottom", "bottom", "open", "arm", "bottom")
       /\ Left({"onConnected"}) \in Nat
       /\ Left({"onConnected"})' = Left({"onConnected"}) + Net({"onConnected"}, "bottom", "bottom", "open", "arm", "bottom")
  BY <1>1, <1>5, <1>6, <1>7, TokenMoves DEF Typed
<1>12. Count("reconnect") \in Nat /\ Shown \in Nat /\ Shown' = Shown /\ Left(Chain) \in Nat
  BY <1>1, <1>3, <1>7, Numbers, Finite, LeftType DEF Shown
<1>13. Linking' = 0 /\ Left(Dial)' = 1 /\ Left({"open"})' = 1
  BY <1>2, <1>8, <1>9, <1>10, <1>11, <1>12
<1>14. Left({"onConnected"})' = Left({"onConnected"})
  BY <1>8, <1>11
<1>15. TokenInv' /\ (KeepInv => KeepInv')
  BY <1>3, <1>10, <1>13, <1>14 DEF TokenInv, KeepInv, Known
<1>16. ASSUME calls = 0
       PROVE  QuietInv'
  <2>1. QuietInv /\ Outstanding = 0 /\ Alone(t)
    BY <1>1, <1>3, <1>9, <1>16 DEF QuietInv, EndInv, Alone
  <2>2. Count("reconnect") = 0
    <3>1. Linking = Count("reconnect") + Left(Chain) + Shown
      BY DEF Linking
    <3>2. Linking >= Count("reconnect")
      BY ONLY <1>12, <3>1
    <3> QED
      BY ONLY <1>10, <1>12, <3>2
  <2>3. Opens(stack'[t]) /\ Closes(stack'[t])
    <3>1. PICK q : q = <<"open", "arm">>
      OBVIOUS
    <3>2. q # <<>> /\ Head(q) = "open" /\ Tail(q) = <<"arm">>
      BY <3>1
    <3>3. <<"arm">> # <<>> /\ Head(<<"arm">>) = "arm" /\ Tail(<<"arm">>) = <<>>
      OBVIOUS
    <3>4. stack'[t] = q
      BY <1>1, <1>3, <3>1
    <3> QED
      BY <3>2, <3>3, <3>4 DEF Opens, Closes, On, Rests, Final
  <2>4. ~(Count("reconnect")' > 0)
    BY <1>2, <2>2
  <2>5. refs' = refs + NetBal("bottom", "bottom", "open", "arm", "bottom")
    BY <1>1, <1>3, <1>8 DEF TypeInv
  <2>6. "bottom" \in Opt(Steps) /\ "open" \in Opt(Steps) /\ "arm" \in Opt(Steps)
    BY <1>4 DEF Opt
  <2> QED
    BY <1>1, <1>2, <1>5, <2>1, <2>3, <2>4, <2>5, <2>6, CloseStep DEF Shaped
<1> QED
  BY <1>1, <1>3, <1>7, <1>15, <1>16 DEF IInv

-----------------------------------------------------------------------------
(***************************************************************************)
(* Calls by application threads                                            *)
(***************************************************************************)
LEMMA CallingKeeps ==
    ASSUME ConnectorsAssumption, IInv, NEW t \in Apps, NEW s \in {"send", "stop"}, AppCall(t, s), UNCHANGED ownVars
    PROVE  IInv'
<1>1. TypeInv /\ TokenInv /\ (Lossless => KeepInv) /\ stack \in [Threads -> Seq(Steps)] /\ t \in Threads
  BY DEF IInv, TypeInv, Threads
<1>2. io' \in IoType /\ io'["accept"] = Idle /\ Count("reconnect")' = Count("reconnect")
  BY <1>1, IoSame DEF AppCall
<1>3. UNCHANGED <<sock, refs, gen, listed, reconnect, wish>> /\ calls' = calls + 1
  BY DEF AppCall, ownVars
<1>4. s \in Steps \ Lying /\ s \in Steps /\ s # "bottom"
  BY DEF Steps, Busy, Using, Parting, Lying
<1>5. Moves(t, "bottom", "bottom", s, "bottom", "bottom")
  BY <1>1, <1>4, BeginsOne DEF AppCall
<1>6. Typed(t, "bottom", "bottom", s, "bottom", "bottom")
  BY <1>1, <1>2, <1>3, <1>4, <1>5, EasyTyped DEF TypeInv, Opt
<1>7. Net(Chain, "bottom", "bottom", s, "bottom", "bottom") = 0
      /\ Net(Dial, "bottom", "bottom", s, "bottom", "bottom") = 0
      /\ Net({"open"}, "bottom", "bottom", s, "bottom", "bottom") = 0
      /\ Net({"onConnected"}, "bottom", "bottom", s, "bottom", "bottom") = 0
  BY DEF Net, In, Chain, Dial
<1>8. Count("reconnect") \in Nat /\ Shown \in Nat /\ Shown' = Shown
  BY <1>1, <1>3, <1>6, TypedKeeps, Numbers DEF Shown
<1>9. Steady(t, "bottom", "bottom", s, "bottom", "bottom")
  BY <1>2, <1>3, <1>6, <1>7, <1>8 DEF Steady
<1>10. TypeInv' /\ TokenInv' /\ (KeepInv => KeepInv')
  BY <1>1, <1>9, SteadyKeeps
<1>11. calls' # 0
  BY <1>1, <1>3 DEF TypeInv
<1> QED
  BY <1>1, <1>10, <1>11 DEF IInv

-----------------------------------------------------------------------------
(***************************************************************************)
(* Completions and the kernel                                              *)
(***************************************************************************)
\* What a worker begins with when a receive or a send has ended.
LEMMA ServedSolid ==
    ASSUME NEW x \in Using \cup Parting, NEW y \in {"bottom", "recv"}, NEW s, s = <<>>,
           NEW r, r = Turned("bottom", "bottom", x, IF y = "bottom" THEN "release" ELSE y,
                             IF y = "bottom" THEN "bottom" ELSE "release", s)
    PROVE  Solid(r)
<1>1. x \in Busy /\ x \in Steps /\ x # "bottom" /\ "recv" \in Busy /\ "recv" \in Steps /\ "release" \in Steps
  BY DEF Busy, Steps, Using, Parting
<1>2. s \in Seq(Steps) /\ Rests(s)
  BY DEF Rests
<1>3. PICK p : p = <<"release">> \o s
  OBVIOUS
<1>4. p \in Seq(Steps) /\ Solid(p)
  BY <1>1, <1>2, <1>3, PushProperties, SolidRelease
<1>5. CASE y = "bottom"
  <2>1. r = Turned("bottom", "bottom", x, "release", "bottom", s)
    BY <1>5
  <2>2. r = <<x>> \o p
    BY <1>1, <1>3, <2>1 DEF Turned, Under, Off, Put
  <2> QED
    BY <1>1, <1>4, <2>2, SolidPush
<1>6. CASE y = "recv"
  <2>1. r = Turned("bottom", "bottom", x, "recv", "release", s)
    BY <1>6
  <2>2. PICK q : q = <<"recv">> \o p
    OBVIOUS
  <2>3. q \in Seq(Steps) /\ Solid(q)
    BY <1>1, <1>4, <2>2, PushProperties, SolidPush
  <2>4. r = <<x>> \o q
    BY <1>1, <1>3, <2>1, <2>2 DEF Turned, Under, Off, Put
  <2> QED
    BY <1>1, <2>3, <2>4, SolidPush
<1> QED
  BY <1>5, <1>6

\* The end of a receive or a send: the reference goes from the I/O to the worker.
LEMMA ServedKeeps ==
    ASSUME ConnectorsAssumption, IInv, NEW t \in Workers, stack[t] = <<>>, NEW k \in {"recv", "send"},
           NEW x \in {"message", "disconnect", "sended"}, NEW y \in {"bottom", "recv"}, x = "message" => y = "recv",
           NEW b, b = (IF y = "bottom" THEN "release" ELSE y), NEW c, c = (IF y = "bottom" THEN "bottom" ELSE "release"),
           Moves(t, "bottom", "bottom", x, b, c),
           NEW result \in {"done", "zero"}, io[k][result] > 0, io' = [io EXCEPT ![k][result] = @ - 1],
           UNCHANGED <<sock, refs, listed, gen, calls, reconnect, wish>>
    PROVE  IInv'
<1>1. TypeInv /\ TokenInv /\ (calls = 0 => QuietInv) /\ (Lossless => KeepInv) /\ stack \in [Threads -> Seq(Steps)]
      /\ t \in Threads /\ io \in IoType
  BY DEF IInv, TypeInv, Threads
<1>2. /\ io' \in IoType /\ io'["accept"] = Idle /\ Count("reconnect")' = Count("reconnect")
      /\ Outstanding' = Outstanding - 1 /\ Outstanding # 0 /\ Outstanding \in Nat
  <2>1. k \in Kinds /\ {"accept", "recv", "send", "reconnect"} \subseteq Kinds
    BY DEF Kinds
  <2>2. io' \in IoType /\ Count(k) >= 1 /\ Count(k)' = Count(k) - 1 /\ \A z \in Kinds : z # k => Count(z)' = Count(z)
    BY <1>1, <2>1, TakenCounts
  <2>3. (\A z \in Kinds : Count(z) \in Nat) /\ Outstanding \in Nat
    BY <1>1, OutstandingType DEF IoType
  <2>4. io'["accept"] = Idle
    BY <1>1, <2>1 DEF TypeInv, IoType
  <2>5. /\ Count("accept") \in Nat /\ Count("recv") \in Nat /\ Count("send") \in Nat
        /\ Count("accept")' = Count("accept") /\ Count("reconnect")' = Count("reconnect")
        /\ \/ Count("recv") >= 1 /\ Count("recv")' = Count("recv") - 1 /\ Count("send")' = Count("send")
           \/ Count("send") >= 1 /\ Count("recv")' = Count("recv") /\ Count("send")' = Count("send") - 1
    BY <2>1, <2>2, <2>3
  <2>6. Outstanding' = Outstanding - 1 /\ Outstanding # 0
    BY <2>5 DEF Outstanding
  <2> QED
    BY <2>2, <2>3, <2>4, <2>5, <2>6
<1>3. b \in {"release", "recv"} /\ c \in {"bottom", "release"}
  OBVIOUS
<1>4. x \in Steps /\ b \in Steps /\ "release" \in Steps /\ x \in Using \cup Parting
      /\ x \in Opt(Steps) /\ b \in Opt(Steps) /\ c \in Opt(Steps)
  BY <1>3 DEF Steps, Busy, Using, Parting, Opt
<1>5. Typed(t, "bottom", "bottom", x, b, c)
  <2>1. Linked(Table, x, b, c, Top(Under("bottom", "bottom", stack[t])))
    <3>1. Top(Under("bottom", "bottom", stack[t])) = "bottom"
      BY DEF Top, Under, Off
    <3>2. "bottom" \in Table["release"] /\ {x, "release", "recv"} \subseteq DOMAIN Table
          /\ Steps \subseteq Table[x] /\ Steps \subseteq Table["release"] /\ Steps \subseteq Table["recv"]
      <4>1. "release" \in Steps \ Lying /\ "recv" \in Steps
        BY DEF Steps, Busy, Using, Lying
      <4> QED
        BY <1>4, <4>1, TableSteps DEF Opt
    <3>3. CASE y = "bottom"
      <4>1. b = "release" /\ c = "bottom"
        BY <3>3
      <4> QED
        BY <1>4, <3>1, <3>2, <4>1 DEF Linked
    <3>4. CASE y = "recv"
      <4>1. b = "recv" /\ c = "release"
        BY <3>4
      <4> QED
        BY <1>4, <3>1, <3>2, <4>1 DEF Linked
    <3> QED
      BY <3>3, <3>4
  <2>2. "open" \notin {x, b, c}
    BY <1>3
  <2>3. refs' \in Int /\ gen' \in Nat /\ calls' \in Nat /\ listed' \in BOOLEAN
    BY <1>1 DEF TypeInv
  <2> QED
    BY <1>2, <1>4, <2>1, <2>2, <2>3 DEF Typed
<1>6. Net(Chain, "bottom", "bottom", x, b, c) = 0 /\ Net(Dial, "bottom", "bottom", x, b, c) = 0
      /\ Net({"open"}, "bottom", "bottom", x, b, c) = 0 /\ Net({"onConnected"}, "bottom", "bottom", x, b, c) = 0
  BY <1>3 DEF Net, In, Chain, Dial
<1>7. NetBal("bottom", "bottom", x, b, c) = 1
  BY DEF NetBal, Net, In
<1>8. Count("reconnect") \in Nat /\ Shown \in Nat /\ Shown' = Shown
  BY <1>1, <1>5, TypedKeeps, Numbers DEF Shown
<1>9. Steady(t, "bottom", "bottom", x, b, c)
  BY <1>2, <1>5, <1>6, <1>8 DEF Steady
<1>10. TypeInv' /\ TokenInv' /\ (KeepInv => KeepInv')
  BY <1>1, <1>9, SteadyKeeps
<1>11. ASSUME calls = 0
       PROVE  QuietInv'
  <2>1. QuietInv
    BY <1>1, <1>11
  <2>2. stack'[t] = Turned("bottom", "bottom", x, b, c, stack[t])
    BY <1>1, <1>4, MovesType
  <2>3. Solid(stack'[t])
    BY <1>4, <2>2, ServedSolid
  <2>4. sock' # "none"
    BY <1>1, <1>2, <2>1, IoKeeps
  <2>5. Outstanding' = Outstanding + (0 - 1) /\ refs' = refs + (0 - 1) + NetBal("bottom", "bottom", x, b, c) /\ 0 - 1 \in Int
    BY <1>1, <1>2, <1>7 DEF TypeInv
  <2> QED
    BY <1>1, <1>2, <1>4, <2>1, <2>3, <2>4, <2>5, WorkStep DEF Works
<1> QED
  BY <1>1, <1>10, <1>11 DEF IInv

\* A waiting attempt is taken up.
LEMMA AttemptKeeps ==
    ASSUME ConnectorsAssumption, IInv, NEW t \in Workers, stack[t] = <<>>, stack' = [stack EXCEPT ![t] = <<"reopen">>],
           NEW result \in {"done", "zero"}, io["reconnect"][result] > 0, io' = [io EXCEPT !["reconnect"][result] = @ - 1],
           UNCHANGED <<sock, refs, listed, gen, calls, reconnect, wish>>
    PROVE  IInv'
<1>1. TypeInv /\ TokenInv /\ (calls = 0 => QuietInv) /\ (Lossless => KeepInv) /\ stack \in [Threads -> Seq(Steps)]
      /\ t \in Threads /\ io \in IoType
  BY DEF IInv, TypeInv, Threads
<1>2. /\ io' \in IoType /\ io'["accept"] = Idle /\ Outstanding' = Outstanding
      /\ Count("reconnect") \in Nat /\ Count("reconnect") >= 1 /\ Count("reconnect")' = Count("reconnect") - 1
  <2>1. {"accept", "recv", "send", "reconnect"} \subseteq Kinds
    BY DEF Kinds
  <2>2. /\ io' \in IoType /\ Count("reconnect") >= 1 /\ Count("reconnect")' = Count("reconnect") - 1
        /\ \A z \in Kinds : z # "reconnect" => Count(z)' = Count(z)
    BY <1>1, <2>1, TakenCounts
  <2>3. Count("reconnect") \in Nat
    BY <1>1, <2>1, OutstandingType DEF IoType
  <2>4. io'["accept"] = Idle
    BY <1>1, <2>1 DEF TypeInv, IoType
  <2>5. Outstanding' = Outstanding
    <3>1. Count("accept")' = Count("accept") /\ Count("recv")' = Count("recv") /\ Count("send")' = Count("send")
      BY <2>1, <2>2
    <3> QED
      BY <3>1 DEF Outstanding
  <2> QED
    BY <2>2, <2>3, <2>4, <2>5
<1>3. "reopen" \in Steps \ Lying /\ "reopen" \in Steps /\ "reopen" \in Final
  BY DEF Steps, Chain, Lying, Final
<1>4. Moves(t, "bottom", "bottom", "reopen", "bottom", "bottom")
  BY <1>1, <1>3, BeginsOne
<1>5. Typed(t, "bottom", "bottom", "reopen", "bottom", "bottom")
  BY <1>1, <1>2, <1>3, <1>4, EasyTyped DEF TypeInv, Opt
<1>6. Net(Chain, "bottom", "bottom", "reopen", "bottom", "bottom") = 1
      /\ Net(Dial, "bottom", "bottom", "reopen", "bottom", "bottom") = 0
      /\ Net({"open"}, "bottom", "bottom", "reopen", "bottom", "bottom") = 0
      /\ Net({"onConnected"}, "bottom", "bottom", "reopen", "bottom", "bottom") = 0
      /\ NetBal("bottom", "bottom", "reopen", "bottom", "bottom") = 0
  BY DEF NetBal, Net, In, Chain, Dial
<1>7. Shown \in Nat /\ Shown' = Shown /\ Left(Chain) \in Nat
  BY <1>1, <1>5, TypedKeeps, Numbers, Finite, LeftType DEF Shown
<1>8. Steady(t, "bottom", "bottom", "reopen", "bottom", "bottom")
  BY <1>2, <1>5, <1>6, <1>7 DEF Steady
<1>9. TypeInv' /\ TokenInv' /\ (KeepInv => KeepInv')
  BY <1>1, <1>8, SteadyKeeps
<1>10. Count("reconnect") = 1 /\ sock # "none"
  <2>1. Linking = Count("reconnect") + Left(Chain) + Shown
    BY DEF Linking
  <2>2. Linking >= Count("reconnect") /\ Linking >= 1
    BY ONLY <1>2, <1>7, <2>1
  <2>3. Left(Dial) \in Nat /\ Linking + Left(Dial) <= 1
    BY <1>1, Finite, LeftType DEF TokenInv
  <2>4. Linking \in Nat
    BY <1>2, <1>7, <2>1
  <2>5. Count("reconnect") = 1
    BY ONLY <1>2, <2>2, <2>3, <2>4
  <2> QED
    BY <1>1, <2>2, <2>4, <2>5 DEF TokenInv
<1>11. ASSUME calls = 0
       PROVE  QuietInv'
  <2>1. QuietInv /\ Outstanding = 0 /\ Alone(t)
    BY <1>1, <1>10, <1>11 DEF QuietInv, EndInv, Alone
  <2>2. Closes(stack'[t])
    <3>1. stack'[t] = <<"reopen">>
      BY <1>1
    <3>2. <<"reopen">> # <<>> /\ Head(<<"reopen">>) = "reopen" /\ Tail(<<"reopen">>) = <<>>
      OBVIOUS
    <3> QED
      BY <1>3, <3>1, <3>2 DEF Closes, Rests
  <2>3. ~(Count("reconnect")' > 0) /\ sock' # "none"
    BY <1>2, <1>10
  <2>4. refs' = refs + NetBal("bottom", "bottom", "reopen", "bottom", "bottom")
    BY <1>1, <1>6 DEF TypeInv
  <2>5. "bottom" \in Opt(Steps) /\ "reopen" \in Opt(Steps)
    BY <1>3 DEF Opt
  <2> QED
    BY <1>1, <1>2, <1>4, <2>1, <2>2, <2>3, <2>4, <2>5, CloseStep DEF Shaped
<1> QED
  BY <1>1, <1>9, <1>11 DEF IInv

LEMMA DispatchKeeps ==
    ASSUME ConnectorsAssumption, IInv, NEW t \in Workers, NEW k \in Kinds, NEW result \in {"done", "zero"},
           Completion(t, k, result), UNCHANGED ownVars
    PROVE  IInv'
<1>1. TypeInv /\ stack \in [Threads -> Seq(Steps)] /\ t \in Threads
  BY DEF IInv, TypeInv, Threads
<1>2. /\ stack[t] = <<>> /\ io[k][result] > 0 /\ io' = [io EXCEPT ![k][result] = @ - 1]
      /\ stack' = [stack EXCEPT ![t] = Handler(k, result)]
      /\ UNCHANGED <<sock, refs, listed, gen, calls, reconnect, wish>>
  BY DEF Completion, Taken, ownVars
<1>3. {"message", "disconnect", "sended", "recv", "release"} \subseteq Steps
  BY DEF Steps, Busy, Using, Parting
<1>4. CASE k = "accept"
  <2>1. io["accept"][result] = 0
    BY <1>1 DEF TypeInv, Idle
  <2> QED
    BY <1>2, <1>4, <2>1
<1>5. CASE k = "recv" /\ result = "done"
  <2>1. Handler(k, result) = <<"message", "recv", "release">>
    BY <1>5 DEF Handler, ConnectorsAssumption
  <2>2. Moves(t, "bottom", "bottom", "message", "recv", "release")
    BY <1>1, <1>2, <1>3, <2>1, BeginsThree
  <2> QED
    BY <1>2, <1>5, <2>2, ServedKeeps
<1>6. CASE k = "recv" /\ result = "zero"
  <2>1. Handler(k, result) = <<"disconnect", "release">>
    BY <1>6 DEF Handler
  <2>2. Moves(t, "bottom", "bottom", "disconnect", "release", "bottom")
    BY <1>1, <1>2, <1>3, <2>1, BeginsTwo
  <2> QED
    BY <1>2, <1>6, <2>2, ServedKeeps
<1>7. CASE k = "send"
  <2>1. Handler(k, result) = <<"sended", "release">>
    BY <1>7 DEF Handler
  <2>2. Moves(t, "bottom", "bottom", "sended", "release", "bottom")
    BY <1>1, <1>2, <1>3, <2>1, BeginsTwo
  <2> QED
    BY <1>2, <1>7, <2>2, ServedKeeps
<1>8. CASE k = "reconnect"
  <2>1. Handler(k, result) = <<"reopen">>
    BY <1>8 DEF Handler
  <2> QED
    BY <1>2, <1>8, <2>1, AttemptKeeps
<1> QED
  BY <1>4, <1>5, <1>6, <1>7, <1>8 DEF Kinds

\* A step of the kernel, or none.
LEMMA StackSame ==
    ASSUME ConnectorsAssumption, IInv, UNCHANGED <<refs, listed, gen, stack, calls, reconnect, wish>>,
           io' \in IoType, io'["accept"] = Idle, Outstanding' = Outstanding,
           Count("reconnect")' = Count("reconnect"), sock' = "none" => sock = "none"
    PROVE  IInv'
<1>1. TypeInv /\ TokenInv /\ (Lossless => KeepInv) /\ (calls = 0 => QuietInv)
  BY DEF IInv
<1>2. TypeInv'
  BY <1>1 DEF TypeInv
<1>3. \A P : Left(P)' = Left(P)
  BY DEF Left, Total, Points
<1>4. Shown' = Shown
  BY DEF Shown
<1>5. Left(Dial)' = Left(Dial) /\ Left({"open"})' = Left({"open"}) /\ Linking' = Linking
      /\ Left({"onConnected"})' = Left({"onConnected"})
  <2>1. Left(Chain)' = Left(Chain)
    BY <1>3
  <2> QED
    BY <1>3, <1>4, <2>1 DEF Linking
<1>6. TokenInv' /\ (KeepInv => KeepInv')
  BY <1>1, <1>5 DEF TokenInv, KeepInv, Known
<1>7. ASSUME calls = 0
      PROVE  QuietInv'
  <2>1. Total(Balances)' = Total(Balances)
    BY DEF Total, Points, Balances
  <2>2. CountInv'
    BY <1>1, <1>7, <2>1 DEF QuietInv, CountInv
  <2>3. EndInv'
    BY <1>1, <1>7 DEF QuietInv, EndInv, Alone
  <2> QED
    BY <1>1, <1>7, <2>2, <2>3 DEF QuietInv
<1> QED
  BY <1>1, <1>2, <1>6, <1>7 DEF IInv

LEMMA KernelKeeps ==
    ASSUME ConnectorsAssumption, IInv, Kernel, UNCHANGED ownVars
    PROVE  IInv'
<1>1. TypeInv /\ io \in IoType /\ io["accept"] = Idle
  BY DEF IInv, TypeInv
<1>2. UNCHANGED <<refs, listed, gen, stack, calls, reconnect, wish>> /\ (sock' = "none" => sock = "none")
  BY DEF Kernel, PeerSends, PeerCloses, RecvEnds, SendEnds, ownVars
<1>3. ASSUME NEW k \in {"recv", "send"}, NEW r \in {"done", "zero"}, io[k].pending > 0, io' = Completes(k, r)
      PROVE  /\ io' \in IoType /\ io'["accept"] = Idle /\ Outstanding' = Outstanding
             /\ Count("reconnect")' = Count("reconnect")
  <2>1. k \in Kinds /\ {"accept", "recv", "send", "reconnect"} \subseteq Kinds
    BY DEF Kinds
  <2>2. io' \in IoType /\ \A x \in Kinds : Count(x)' = Count(x)
    BY <1>1, <1>3, <2>1, CompletesCounts
  <2>3. io'["accept"] = Idle
    BY <1>1, <1>3, <2>1 DEF Completes, IoType
  <2>4. Outstanding' = Outstanding
    <3>1. Count("accept")' = Count("accept") /\ Count("recv")' = Count("recv") /\ Count("send")' = Count("send")
      BY <2>1, <2>2
    <3> QED
      BY <3>1 DEF Outstanding
  <2> QED
    BY <2>1, <2>2, <2>3, <2>4
<1>4. /\ io' \in IoType /\ io'["accept"] = Idle /\ Outstanding' = Outstanding
      /\ Count("reconnect")' = Count("reconnect")
  <2>1. CASE PeerSends
    BY <1>3, <2>1 DEF PeerSends
  <2>2. CASE PeerCloses
    BY <1>1, <2>2, IoSame DEF PeerCloses
  <2>3. CASE RecvEnds
    BY <1>3, <2>3 DEF RecvEnds
  <2>4. CASE SendEnds
    BY <1>3, <2>4 DEF SendEnds
  <2> QED
    BY <2>1, <2>2, <2>3, <2>4 DEF Kernel
<1> QED
  BY <1>2, <1>4, StackSame

-----------------------------------------------------------------------------
(***************************************************************************)
(* The theorems                                                            *)
(***************************************************************************)
LEMMA InitInv ==
    ASSUME ConnectorsAssumption, Init
    PROVE  IInv
<1>1. stack \in [Threads -> Seq(Steps)] /\ \A t \in Threads : stack[t] = <<>>
  BY DEF Init
<1>2. \A P : Left(P) = 0
  <2>1. ASSUME NEW P
        PROVE  Left(P) = 0
    <3>1. \A t \in Threads : Occurs(P, stack[t]) = 0
      BY <1>1, OccursNone
    <3> QED
      BY <1>1, <3>1, Finite, LeftZero
  <2> QED
    BY <2>1
<1>3. io \in IoType /\ \A k \in Kinds : io[k] = Idle /\ Count(k) = 0
  <2>1. Idle \in [pending : Nat, done : Nat, zero : Nat] /\ Idle.pending = 0 /\ Idle.done = 0 /\ Idle.zero = 0
    BY DEF Idle
  <2>2. \A k \in Kinds : io[k] = Idle
    BY DEF Init
  <2> QED
    BY <2>1, <2>2 DEF Init, IoType, Count
<1>4. Outstanding = 0 /\ Count("reconnect") = 0 /\ io["accept"] = Idle
  BY <1>3 DEF Outstanding, Kinds
<1>5. TypeInv
  <2>1. \A t \in Threads : Good(Table, stack[t]) /\ Occurs({"open"}, stack[t]) = 0
    BY <1>1, GoodEmpty, OccursNone
  <2>2. \A w \in Workers : w \in Threads
    BY DEF Threads
  <2>3. refs = 0 /\ gen = 0 /\ calls = 0 /\ listed = FALSE
    BY DEF Init
  <2>4. io \in IoType /\ io["accept"] = Idle
    BY <1>3, <1>4
  <2>5. \A w \in Workers : Occurs({"open"}, stack[w]) = 0
    BY <2>1, <2>2
  <2>6. refs \in Int /\ gen \in Nat /\ calls \in Nat
    BY <2>3
  <2>7. listed \in BOOLEAN
    BY DEF Init
  <2> QED
    BY ONLY <1>1, <2>1, <2>4, <2>5, <2>6, <2>7 DEF TypeInv
<1>6. Linking = 0
  BY <1>2, <1>4 DEF Linking, Shown, Init
<1>7. TokenInv /\ KeepInv
  BY <1>2, <1>6 DEF TokenInv, KeepInv, Known, Init
<1>8. QuietInv
  <2>1. \A t \in Threads : Rests(stack[t]) /\ ~Closes(stack[t])
    BY <1>1 DEF Rests, Closes, Cancelling, On
  <2>2. Total(Balances) = 0
    <3>1. \A t \in Threads : Balances[t] = 0
      BY <1>1, <2>1, RestsBal DEF Balances
    <3> QED
      BY <3>1, TotalZero
  <2> QED
    BY <1>4, <2>1, <2>2 DEF QuietInv, Shaped, CountInv, EndInv, Alone, Init
<1> QED
  BY <1>5, <1>7, <1>8 DEF IInv

LEMMA OwnKeeps ==
    ASSUME ConnectorsAssumption, IInv, NEW t \in Threads, Own(t)
    PROVE  IInv'
<1>1. CASE Dialling(t)
  BY <1>1, OpenOkKeeps, OpenFailsKeeps, ConnectOkKeeps, ConnectFailsKeeps, ArmKeeps DEF Dialling
<1>2. CASE Stop(t)
  BY <1>2, PartingKeeps DEF PartingStep
<1>3. CASE OnDisconnected(t)
  BY <1>3, OnDisconnectedKeeps
<1>4. CASE Again(t)
  BY <1>4, AgainKeeps
<1>5. CASE NotAgain(t)
  BY <1>5, NotAgainKeeps
<1>6. CASE Reconnecting(t)
  BY <1>6, ReopenOkKeeps, ReopenFailsKeeps, ReconnectOkKeeps, ReconnectFailsKeeps DEF Reconnecting
<1> QED
  BY <1>1, <1>2, <1>3, <1>4, <1>5, <1>6 DEF Own

LEMMA CoreKeeps ==
    ASSUME ConnectorsAssumption, IInv, NEW t \in Threads, CoreStep(t), UNCHANGED ownVars
    PROVE  IInv'
<1>1. CASE Ending(t)
  BY <1>1, ReleaseKeeps, ClearKeeps, DelSessionKeeps, CloseKeeps DEF Ending
<1>2. CASE Connecting(t)
  BY <1>2, ConnectingKeeps
<1>3. CASE Receiving(t) \/ Sending(t)
  BY <1>3, ServingKeeps DEF ServingStep
<1>4. CASE Disconnecting(t)
  BY <1>4, PartingKeeps DEF PartingStep
<1> QED
  BY <1>1, <1>2, <1>3, <1>4 DEF CoreStep

LEMMA NextKeeps ==
    ASSUME ConnectorsAssumption, IInv, [Next]_vars
    PROVE  IInv'
<1>1. CASE \E t \in Threads : Step(t)
  BY <1>1, OwnKeeps, CoreKeeps DEF Step
<1>2. CASE \E a \in Apps : Connect(a)
  BY <1>2, ConnectKeeps
<1>3. CASE Dispatch /\ UNCHANGED ownVars
  BY <1>3, DispatchKeeps DEF Dispatch
<1>4. CASE Kernel /\ UNCHANGED ownVars
  BY <1>4, KernelKeeps
<1>5. CASE Calling /\ UNCHANGED ownVars
  <2>1. PICK a \in Apps, s \in {"send", "stop"} : AppCall(a, s)
    BY <1>5 DEF Calling, ConnectorsAssumption
  <2> QED
    BY <1>5, <2>1, CallingKeeps
<1>6. CASE UNCHANGED vars
  <2>1. UNCHANGED <<sock, io, refs, listed, gen, stack, calls, reconnect, wish>>
    BY <1>6 DEF vars, coreVars
  <2>2. io' \in IoType /\ io'["accept"] = Idle /\ Outstanding' = Outstanding /\ Count("reconnect")' = Count("reconnect")
    BY <2>1, IoSame DEF IInv
  <2> QED
    BY <2>1, <2>2, StackSame
<1> QED
  BY <1>1, <1>2, <1>3, <1>4, <1>5, <1>6 DEF Next

LEMMA Inductive == ASSUME ConnectorsAssumption PROVE Spec => []IInv
<1>1. Init => IInv
  BY InitInv
<1>2. IInv /\ [Next]_vars => IInv'
  BY NextKeeps
<1> QED
  BY <1>1, <1>2, PTL DEF Spec

LEMMA LinkNumbers ==
    ASSUME ConnectorsAssumption, TypeInv
    PROVE  /\ Count("reconnect") \in Nat /\ Left(Chain) \in Nat /\ Shown \in Nat /\ Left(Dial) \in Nat
           /\ Linking = Count("reconnect") + Left(Chain) + Shown
<1>1. Count("reconnect") \in Nat
  BY OutstandingType DEF TypeInv, IoType, Kinds
<1>2. Left(Chain) \in Nat /\ Left(Dial) \in Nat
  BY Finite, LeftType DEF TypeInv
<1> QED
  BY <1>1, <1>2 DEF Linking, Shown

\* A connector's attempts: HNetIoReconnect has one OVERLAPPED and Reconnect (HNetIo.cpp:
\* 237-258) closes the socket the session has.  There is one attempt at a time, whatever
\* the application calls, and, unless it called, none while the session is in use.
THEOREM Attempts == ASSUME ConnectorsAssumption PROVE Spec => []AttemptAlone
<1>1. ASSUME IInv
      PROVE  AttemptAlone
  <2>1. TypeInv /\ TokenInv /\ (calls = 0 => QuietInv) /\ stack \in [Threads -> Seq(Steps)]
    BY <1>1 DEF IInv, TypeInv
  <2>2. /\ Count("reconnect") \in Nat /\ Left(Chain) \in Nat /\ Shown \in Nat /\ Left(Dial) \in Nat
        /\ Linking = Count("reconnect") + Left(Chain) + Shown
    BY <2>1, LinkNumbers
  <2>3. Linking + Left(Dial) <= 1
    BY <2>1 DEF TokenInv
  <2>4. ASSUME NEW t \in Attempting
        PROVE  /\ t \in Threads /\ Count("reconnect") = 0 /\ Shown = 0 /\ Left(Chain) = 1
               /\ Occurs(Chain, stack[t]) \in Nat /\ Occurs(Chain, stack[t]) >= 1
               /\ \E h \in Final : At(t, h)
    <3>1. PICK h \in {"reopen", "reconnect"} : At(t, h) /\ t \in Threads
      BY DEF Attempting
    <3>2. h \in Chain /\ h \in Final
      BY DEF Chain, Final
    <3>3. Left(Chain) >= 1
      BY <2>1, <3>1, <3>2, LeftAt
    <3>4. Occurs(Chain, stack[t]) \in Nat /\ Occurs(Chain, stack[t]) >= 1
      BY <2>1, <3>1, <3>2, TopCounts, OccursType DEF At
    <3>5. Count("reconnect") = 0 /\ Shown = 0 /\ Left(Chain) = 1
      BY ONLY <2>2, <2>3, <3>3
    <3> QED
      BY <3>1, <3>2, <3>4, <3>5
  <2>5. Count("reconnect") + Cardinality(Attempting) <= 1
    <3>1. CASE Attempting = {}
      <4>1. Cardinality(Attempting) = 0
        BY <3>1, FS_EmptySet
      <4>2. Count("reconnect") <= 1
        BY ONLY <2>2, <2>3
      <4> QED
        BY <2>2, <4>1, <4>2
    <3>2. ASSUME NEW t \in Attempting
          PROVE  Count("reconnect") + Cardinality(Attempting) <= 1
      <4>1. ASSUME NEW u \in Attempting, u # t
            PROVE  FALSE
        <5>1. Occurs(Chain, stack[t]) + Occurs(Chain, stack[u]) <= Left(Chain)
          BY <2>1, <2>4, <4>1, Finite, LeftBound
        <5>2. /\ Occurs(Chain, stack[t]) \in Nat /\ Occurs(Chain, stack[t]) >= 1
              /\ Occurs(Chain, stack[u]) \in Nat /\ Occurs(Chain, stack[u]) >= 1
              /\ Left(Chain) = 1
          BY <2>4
        <5> QED
          BY ONLY <5>1, <5>2
      <4>2. Attempting = {t}
        BY <4>1
      <4>3. Cardinality(Attempting) = 1
        BY <4>2, FS_Singleton
      <4> QED
        BY <2>4, <4>3
    <3> QED
      BY <3>1, <3>2
  <2>6. NoAppCall => \A t \in Attempting : ~listed /\ Outstanding = 0
    <3> SUFFICES ASSUME calls = 0, NEW t \in Attempting
                 PROVE  ~listed /\ Outstanding = 0
      BY DEF NoAppCall
    <3>1. PICK h \in Final : At(t, h)
      BY <2>4
    <3>2. Outstanding = 0
      BY <2>1, <2>4, <3>1, FinalTop
    <3>3. ~listed
      BY <2>4 DEF Shown
    <3> QED
      BY <3>2, <3>3
  <2> QED
    BY <2>5, <2>6 DEF AttemptAlone
<1>2. Spec => []IInv
  BY Inductive
<1> QED
  BY <1>1, <1>2, PTL

\* The chain from a connection to the next (HNetConnector.cpp:119-122, HNetIo.cpp:250-255):
\* after the first connection, with every thread at rest, the session is up or an attempt
\* waits in the completion port, until Disconnect is called or Open fails.
THEOREM Chained == ASSUME ConnectorsAssumption, Lossless PROVE Spec => []ChainKept
<1>1. ASSUME IInv
      PROVE  ChainKept
  <2>1. TypeInv /\ KeepInv /\ stack \in [Threads -> Seq(Steps)]
    BY <1>1 DEF IInv, TypeInv
  <2> SUFFICES ASSUME wish = "keep", gen > 0, ~listed, Resting
               PROVE  Count("reconnect") > 0
    BY DEF ChainKept
  <2>2. Linking > 0
    BY <2>1 DEF KeepInv, Known
  <2>3. Left(Chain) = 0
    <3>1. \A t \in Threads : Occurs(Chain, stack[t]) = 0
      BY OccursNone DEF Resting
    <3> QED
      BY <2>1, <3>1, Finite, LeftZero
  <2>4. Shown = 0
    BY DEF Shown
  <2> QED
    BY <2>1, <2>2, <2>3, <2>4, LinkNumbers
<1>2. Spec => []IInv
  BY Inductive
<1> QED
  BY <1>1, <1>2, PTL
=============================================================================
