----------------------------- MODULE RecvProofs -----------------------------
(***************************************************************************)
(* Receive framing for any threads, packet sizes and buffer: packets come  *)
(* out whole and in order, and none is withheld, however the stream is cut *)
(* and whichever mode the server runs in.  RInv adds to these properties   *)
(* what lies in the buffer between the steps of the worker.  Nothing is    *)
(* assumed of the peer.  A receive that overruns the buffer, which a stale *)
(* window makes possible (WindowIsRest), ends the session; the theorems    *)
(* are about what the application was given up to there.                   *)
(***************************************************************************)
EXTENDS RecvJobs, TLAPS, SequenceTheorems, WellFoundedInduction

(***************************************************************************)
(* Induction over the naturals, from the least element of a set            *)
(***************************************************************************)
LEMMA Least ==
  ASSUME NEW T \in SUBSET Nat, T # {}
  PROVE  \E n \in T : \A m \in T : n <= m
  <1> DEFINE R == {ss \in Nat \X Nat : ss[1] < ss[2]}
  <1>1. IsWellFoundedOn(R, Nat)
    BY ONLY NatLessThanWellFounded DEF OpToRel
  <1>2. PICK n \in T : \A m \in T : <<m, n>> \notin R
    <2> HIDE DEF R
    <2> QED BY <1>1, WFMin
  <1>3. \A m \in T : ~(m < n)
    BY <1>2
  <1>4. QED
    BY <1>3

LEMMA Induction ==
  ASSUME NEW D \in SUBSET Nat, 0 \in D, \A n \in D : n + 1 \in D
  PROVE  D = Nat
  <1> SUFFICES ASSUME Nat \ D # {} PROVE FALSE
    OBVIOUS
  <1>1. PICK n \in Nat \ D : \A m \in Nat \ D : n <= m
    BY Least
  <1>2. n # 0 /\ n - 1 \in D
    BY <1>1
  <1>3. QED
    BY <1>1, <1>2

(***************************************************************************)
(* Start, the stream positions at which packets begin                      *)
(***************************************************************************)
\* f holds the positions of the first n packets of p.
Positions(f, p, n) == /\ f \in [0..n -> Nat]
                      /\ f[0] = 0
                      /\ \A k \in 1..n : f[k] = f[k - 1] + p[k]

LEMMA PositionsExist ==
  ASSUME NEW p \in Seq(Nat)
  PROVE  \E f : Positions(f, p, Len(p))
  <1> DEFINE D == {n \in Nat : n <= Len(p) => \E f : Positions(f, p, n)}
  <1>1. 0 \in D
    <2>1. Positions([k \in 0..0 |-> 0], p, 0)
      BY DEF Positions
    <2>2. QED
      BY <2>1
  <1>2. ASSUME NEW n \in D PROVE n + 1 \in D
    <2> SUFFICES ASSUME n + 1 <= Len(p) PROVE \E f : Positions(f, p, n + 1)
      OBVIOUS
    <2>1. PICK f : Positions(f, p, n)
      OBVIOUS
    <2> DEFINE g == [k \in 0..n + 1 |-> IF k = n + 1 THEN f[n] + p[n + 1] ELSE f[k]]
    <2>2. p[n + 1] \in Nat
      OBVIOUS
    <2>3. g \in [0..n + 1 -> Nat] /\ g[0] = 0
      BY <2>1, <2>2 DEF Positions
    <2>4. ASSUME NEW k \in 1..n + 1 PROVE g[k] = g[k - 1] + p[k]
      BY <2>1 DEF Positions
    <2>5. Positions(g, p, n + 1)
      BY <2>3, <2>4 DEF Positions
    <2>6. QED
      BY <2>5
  <1>3. D = Nat
    <2> HIDE DEF D
    <2>1. D \in SUBSET Nat
      BY DEF D
    <2>2. QED
      BY <1>1, <1>2, <2>1, Induction
  <1>4. Len(p) \in D
    <2> HIDE DEF D
    <2> QED BY <1>3
  <1>5. QED
    BY <1>4

StartOf(p) == CHOOSE f : f = [k \in 0..Len(p) |-> IF k = 0 THEN 0 ELSE f[k - 1] + p[k]]

\* The recursive definition of Start has a solution.
LEMMA StartPositions ==
  ASSUME NEW p \in Seq(Nat)
  PROVE  Positions(StartOf(p), p, Len(p))
  <1> DEFINE E(f) == f = [k \in 0..Len(p) |-> IF k = 0 THEN 0 ELSE f[k - 1] + p[k]]
             S == StartOf(p)
  <1>1. PICK f : Positions(f, p, Len(p))
    BY PositionsExist
  <1>2. E(f)
    BY <1>1 DEF Positions
  <1>3. S = CHOOSE g : E(g)
    BY DEF StartOf
  <1>4. E(S)
    <2> HIDE DEF E, S
    <2> QED BY <1>2, <1>3
  <1> HIDE DEF S
  <1>5. \A n \in Nat : n <= Len(p) => S[n] = f[n]
    <2> DEFINE D == {n \in Nat : n <= Len(p) => S[n] = f[n]}
    <2>1. 0 \in D
      BY <1>2, <1>4
    <2>2. ASSUME NEW n \in D PROVE n + 1 \in D
      BY <1>2, <1>4, <2>2
    <2>3. D = Nat
      <3> HIDE DEF D
      <3>1. D \in SUBSET Nat
        BY DEF D
      <3>2. QED
        BY <2>1, <2>2, <3>1, Induction
    <2>4. QED
      BY <2>3
  <1>6. S = f
    BY <1>2, <1>4, <1>5
  <1>7. QED
    BY <1>1, <1>6 DEF S

\* Packets have bytes, so that no two begin at one position.
LEMMA PositionsIncrease ==
  ASSUME NEW p \in Seq(Nat \ {0}), NEW f, Positions(f, p, Len(p)),
         NEW a \in 0..Len(p), NEW b \in 0..Len(p), a < b
  PROVE  f[a] < f[b]
  <1> DEFINE D == {d \in Nat : a + d <= Len(p) /\ d > 0 => f[a] < f[a + d]}
  <1> USE DEF Positions
  <1>1. 0 \in D
    OBVIOUS
  <1>2. ASSUME NEW d \in D PROVE d + 1 \in D
    <2> SUFFICES ASSUME a + d + 1 <= Len(p) PROVE f[a] < f[a + d + 1]
      OBVIOUS
    <2> DEFINE k == a + d + 1
    <2>1. k \in 1..Len(p) /\ k - 1 = a + d /\ k - 1 \in 0..Len(p)
      OBVIOUS
    <2>2. f[k] = f[k - 1] + p[k] /\ p[k] \in Nat /\ p[k] > 0
      BY <2>1
    <2>3. f[a] \in Nat /\ f[k - 1] \in Nat
      BY ONLY <2>1, Positions(f, p, Len(p)), a \in 0..Len(p) DEF Positions
    <2>4. d = 0 \/ f[a] < f[a + d]
      OBVIOUS
    <2>5. QED
      BY <2>1, <2>2, <2>3, <2>4
  <1>3. D = Nat
    <2> HIDE DEF D
    <2>1. D \in SUBSET Nat
      BY DEF D
    <2>2. QED
      BY <1>1, <1>2, <2>1, Induction
  <1>4. b - a \in D
    <2>1. b - a \in Nat
      OBVIOUS
    <2> HIDE DEF D
    <2>2. QED
      BY <1>3, <2>1
  <1>5. QED
    BY <1>4

\* A packet more leaves the positions of those before it.
LEMMA PositionsExtend ==
  ASSUME NEW p \in Seq(Nat), NEW q \in Seq(Nat), NEW f, NEW g,
         Positions(f, p, Len(p)), Positions(g, q, Len(q)),
         Len(p) <= Len(q), \A k \in 1..Len(p) : q[k] = p[k]
  PROVE  \A k \in 0..Len(p) : g[k] = f[k]
  <1> DEFINE D == {n \in Nat : n <= Len(p) => g[n] = f[n]}
  <1> USE DEF Positions
  <1>1. 0 \in D
    OBVIOUS
  <1>2. ASSUME NEW n \in D PROVE n + 1 \in D
    <2> SUFFICES ASSUME n + 1 <= Len(p) PROVE g[n + 1] = f[n + 1]
      OBVIOUS
    <2>1. n + 1 \in 1..Len(p) /\ n + 1 \in 1..Len(q) /\ (n + 1) - 1 = n
      OBVIOUS
    <2>2. f[n + 1] = f[n] + p[n + 1] /\ g[n + 1] = g[n] + p[n + 1]
      BY <2>1
    <2>3. QED
      BY <2>2
  <1>3. D = Nat
    <2> HIDE DEF D
    <2>1. D \in SUBSET Nat
      BY DEF D
    <2>2. QED
      BY <1>1, <1>2, <2>1, Induction
  <1>4. \A k \in 0..Len(p) : k \in D
    <2> HIDE DEF D
    <2> QED BY <1>3
  <1>5. QED
    BY <1>4

LEMMA StartIs == Start = StartOf(packets) /\ Start' = StartOf(packets')
  BY DEF Start, StartOf

(***************************************************************************)
(* The invariant                                                           *)
(***************************************************************************)
RTypes == /\ begin \in Nat /\ end \in Nat /\ begin <= end
          /\ buf \in [0..MaxSize - 1 -> Nat]
          /\ state \in {"posted", "handling", "rearm", "closed", "overrun"}
          /\ bytes \in Nat /\ incomplete \in Nat /\ taken \in Nat
          /\ packets \in Seq(Sizes) /\ delivered \in Seq(Seq(Nat))

\* Where the peer, the kernel and the worker are in the stream
StreamInv == /\ Len(delivered) <= Len(packets)
             /\ \A k \in 1..Len(delivered) : packets[k] \in HeaderSize..MaxSize
             /\ Handled <= taken /\ taken <= StreamEnd

\* The bytes received and not delivered lie at _begin.
Have == IF state = "handling" THEN incomplete ELSE end - begin
BufferInv == state \notin {"closed", "overrun"} =>
    /\ Have = taken - Handled /\ begin + Have <= MaxSize
    /\ \A i \in 0..Have - 1 : buf[begin + i] = Handled + i + 1

LoopInv == /\ state = "handling" => /\ incomplete = end - begin + bytes
                                    /\ bytes = 0 => end = begin
                                    /\ begin <= Handled
                                    /\ \A i \in 0..begin - 1 : buf[i] = Handled - begin + i + 1
           /\ state = "posted" => begin = 0

\* A session that waits, or is about to, has no whole packet.
WaitInv == state \in {"posted", "rearm"} =>
    taken - Handled < HeaderSize \/ taken < Start[Len(delivered) + 1]

RInv == RTypes /\ StreamInv /\ BufferInv /\ LoopInv /\ WaitInv /\ InOrder

(***************************************************************************)
(* Positions of packets                                                    *)
(***************************************************************************)
Grows == /\ Start \in [0..Len(packets) -> Nat] /\ Start[0] = 0
         /\ \A k \in 1..Len(packets) : /\ packets[k] \in Nat /\ packets[k] > 0
                                       /\ Start[k] = Start[k - 1] + packets[k]
         /\ \A a, b \in 0..Len(packets) : a < b => Start[a] < Start[b]

LEMMA StreamGrows == ASSUME packets \in Seq(Sizes) PROVE Grows
  <1>1. packets \in Seq(Nat) /\ packets \in Seq(Nat \ {0})
    <2>1. Sizes \subseteq Nat \ {0} /\ Sizes \subseteq Nat
      BY RecvAssumption
    <2>2. QED
      BY <2>1, SeqMonotonic
  <1>2. Positions(Start, packets, Len(packets))
    BY <1>1, StartPositions, StartIs
  <1>3. \A a, b \in 0..Len(packets) : a < b => Start[a] < Start[b]
    BY <1>1, <1>2, PositionsIncrease
  <1>4. QED
    BY <1>1, <1>2, <1>3 DEF Grows, Positions

\* At most one packet begins at a position.
PacketAt(v) == CHOOSE k \in 1..Len(packets) : v = Start[k - 1] + 1

LEMMA OnePacket ==
  ASSUME packets \in Seq(Sizes), NEW c \in 0..Len(packets), c < Len(packets)
  PROVE  /\ \E k \in 1..Len(packets) : Start[c] + 1 = Start[k - 1] + 1
         /\ PacketAt(Start[c] + 1) = c + 1
  <1> DEFINE S == Start
             n == Len(packets)
  <1>1. S \in [0..n -> Nat] /\ \A a, b \in 0..n : a < b => S[a] < S[b]
    BY StreamGrows DEF Grows
  <1>2. n \in Nat
    OBVIOUS
  <1> HIDE DEF S
  <1>3. ASSUME NEW k \in 1..n, S[c] + 1 = S[k - 1] + 1 PROVE k = c + 1
    <2> HIDE DEF n
    <2>1. k - 1 \in 0..n
      BY <1>2
    <2>2. S[c] \in Nat /\ S[k - 1] \in Nat /\ c \in 0..n
      BY <1>1, <2>1 DEF n
    <2>3. S[c] = S[k - 1]
      BY <1>3, <2>2
    <2>4. ~(c < k - 1) /\ ~(k - 1 < c)
      BY <1>1, <2>1, <2>2, <2>3
    <2>5. QED
      BY <1>2, <2>2, <2>4
  <1>4. c + 1 \in 1..n /\ S[c] + 1 = S[(c + 1) - 1] + 1
    BY <1>2
  <1>5. QED
    BY <1>3, <1>4 DEF S, PacketAt

\* The header at _begin is that of the next packet.
LEMMA HeaderIsNext ==
  ASSUME RInv, Looping, HasHeader
  PROVE  /\ Len(delivered) < Len(packets)
         /\ PacketSize = packets[Len(delivered) + 1]
         /\ Start[Len(delivered) + 1] = Handled + PacketSize
         /\ PacketSize \in Nat /\ PacketSize > 0
  <1> DEFINE c == Len(delivered)
  <1>1. c \in Nat /\ Len(packets) \in Nat /\ c <= Len(packets) /\ Grows
    BY StreamGrows DEF RInv, RTypes, StreamInv
  <1>2. incomplete = taken - Handled /\ incomplete > 0 /\ taken <= StreamEnd
    BY RecvAssumption DEF RInv, RTypes, StreamInv, BufferInv, Have, Looping, HasHeader
  <1>3. Handled \in Nat /\ StreamEnd \in Nat
    BY <1>1 DEF Grows, Handled, StreamEnd
  <1>4. c # Len(packets)
    BY <1>2, <1>3 DEF Handled, StreamEnd, RInv, RTypes
  <1>5. buf[begin] = Start[c] + 1
    <2>1. 0 \in 0..incomplete - 1 /\ begin + 0 = begin
      BY <1>2 DEF RInv, RTypes
    <2>2. buf[begin + 0] = Handled + 0 + 1
      BY <2>1 DEF RInv, BufferInv, Have, Looping
    <2>3. QED
      BY <2>1, <2>2, <1>3 DEF Handled
  <1>6. PacketSize = packets[c + 1]
    <2>1. c \in 0..Len(packets) /\ c < Len(packets) /\ packets \in Seq(Sizes)
      BY <1>1, <1>4 DEF RInv, RTypes
    <2>2. /\ \E k \in 1..Len(packets) : Start[c] + 1 = Start[k - 1] + 1
          /\ PacketAt(Start[c] + 1) = c + 1
      BY <2>1, OnePacket
    <2>3. QED
      BY <1>5, <2>2 DEF PacketSize, AtPacket, PacketAt
  <1>7. Start[c + 1] = Start[c] + packets[c + 1] /\ packets[c + 1] \in Nat /\ packets[c + 1] > 0
    <2>1. c + 1 \in 1..Len(packets) /\ (c + 1) - 1 = c
      BY <1>1, <1>4
    <2>2. QED
      BY <1>1, <2>1 DEF Grows
  <1>8. QED
    BY <1>1, <1>4, <1>6, <1>7 DEF Handled

LEMMA SameStart == ASSUME packets' = packets PROVE Start' = Start
  BY StartIs

-----------------------------------------------------------------------------
(***************************************************************************)
(* The invariant is inductive                                              *)
(***************************************************************************)
LEMMA InitRInv == Init => RInv
  <1> SUFFICES ASSUME Init PROVE RInv
    OBVIOUS
  <1> USE RecvAssumption DEF Init
  <1>1. RTypes
    BY EmptySeq DEF RTypes
  <1>2. Start[0] = 0 /\ Handled = 0 /\ StreamEnd = 0
    BY <1>1, StreamGrows DEF RTypes, Grows, Handled, StreamEnd
  <1>3. StreamInv
    BY <1>2 DEF StreamInv
  <1>4. BufferInv /\ LoopInv /\ WaitInv
    BY <1>2 DEF BufferInv, Have, LoopInv, WaitInv
  <1>5. InOrder
    BY DEF InOrder
  <1>6. QED
    BY <1>1, <1>3, <1>4, <1>5 DEF RInv

\* The peer's next packet moves none of those before it.
LEMMA StartKept ==
  ASSUME RInv, packets' = packets \/ \E s \in Sizes : packets' = Append(packets, s)
  PROVE  \A k \in 0..Len(packets) : Start'[k] = Start[k]
  <1>1. CASE packets' = packets
    BY <1>1, SameStart
  <1>2. CASE \E s \in Sizes : packets' = Append(packets, s)
    <2> DEFINE f == Start
               g == Start'
               p == packets
               q == packets'
    <2>1. Sizes \subseteq Nat /\ p \in Seq(Sizes)
      BY RecvAssumption DEF RInv, RTypes
    <2>2. q \in Seq(Sizes) /\ Len(p) <= Len(q) /\ \A k \in 1..Len(p) : q[k] = p[k]
      BY <1>2, <2>1
    <2>3. p \in Seq(Nat) /\ q \in Seq(Nat)
      BY <2>1, <2>2, SeqMonotonic
    <2>4. Positions(f, p, Len(p)) /\ Positions(g, q, Len(q))
      BY <2>3, StartPositions, StartIs
    <2> HIDE DEF f, g, p, q
    <2>5. \A k \in 0..Len(p) : g[k] = f[k]
      BY ONLY <2>2, <2>3, <2>4, PositionsExtend
    <2>6. QED
      BY <2>5 DEF f, g, p
  <1>3. QED
    BY <1>1, <1>2

LEMMA PeerPreserves ==
  ASSUME RInv, NEW s \in Sizes, PeerSend(s)
  PROVE  RInv'
  <1> USE DEF PeerSend, recvVars, loopVars
  <1> DEFINE n == Len(packets)
             c == Len(delivered)
  <1>1. packets \in Seq(Sizes) /\ packets' \in Seq(Sizes) /\ n \in Nat /\ c \in Nat
    BY DEF RInv, RTypes
  <1>2. Len(packets') = n + 1 /\ \A k \in 1..n : packets'[k] = packets[k]
    BY <1>1
  <1>3. packets'[n + 1] = s /\ s \in Nat /\ s > 0
    BY <1>1, RecvAssumption
  <1>4. Grows
    BY <1>1, StreamGrows
  <1>5. /\ \A k \in 0..n : Start'[k] = Start[k]
        /\ Start'[n + 1] = Start[n] + s
    <2>1. Sizes \subseteq Nat
      BY RecvAssumption
    <2>2. packets' \in Seq(Nat)
      BY <1>1, <2>1, SeqMonotonic
    <2>3. Positions(Start', packets', n + 1)
      BY <1>2, <2>2, StartPositions, StartIs
    <2>4. \A k \in 0..n : Start'[k] = Start[k]
      BY StartKept
    <2>5. n + 1 \in 1..n + 1 /\ (n + 1) - 1 = n /\ n \in 0..n
      BY <1>1
    <2>6. Start'[n + 1] = Start'[n] + packets'[n + 1]
      BY <2>3, <2>5 DEF Positions
    <2>7. QED
      BY <1>3, <2>4, <2>5, <2>6
  <1>7. c \in 0..n /\ Start[c] \in Nat /\ Start[n] \in Nat
    BY <1>1, <1>4 DEF Grows, RInv, StreamInv
  <1>8. Handled' = Handled /\ StreamEnd' = StreamEnd + s
    BY <1>2, <1>5, <1>7 DEF Handled, StreamEnd
  <1>9. RTypes'
    BY <1>1 DEF RInv, RTypes
  <1>10. StreamInv'
    <2>1. Handled \in Nat /\ StreamEnd \in Nat
      BY <1>7 DEF Handled, StreamEnd
    <2>2. c <= Len(packets') /\ \A k \in 1..c : packets'[k] = packets[k]
      BY <1>1, <1>2, <1>7
    <2>3. QED
      BY <1>3, <1>8, <2>1, <2>2 DEF RInv, RTypes, StreamInv
  <1>11. BufferInv' /\ LoopInv'
    BY <1>8 DEF RInv, BufferInv, LoopInv, Have
  <1>12. WaitInv'
    <2>1. CASE c < n
      <3>1. c + 1 \in 0..n
        BY <1>1, <2>1
      <3>2. QED
        BY <1>5, <1>8, <3>1 DEF RInv, WaitInv
    <2>2. CASE c = n
      <3>1. taken - Handled = 0 /\ 0 < HeaderSize
        BY <1>7, <2>2, RecvAssumption DEF RInv, RTypes, StreamInv, Handled, StreamEnd
      <3>2. QED
        BY <1>8, <3>1 DEF WaitInv
    <2>3. QED
      BY <1>1, <1>7, <2>1, <2>2
  <1>13. InOrder'
    <2>1. ASSUME NEW k \in 1..c PROVE k \in 1..n /\ k - 1 \in 0..n
      BY <1>1, <1>7
    <2>2. QED
      BY <1>2, <1>5, <2>1 DEF RInv, InOrder
  <1>14. QED
    BY <1>9, <1>10, <1>11, <1>12, <1>13 DEF RInv

LEMMA SameStream ==
  ASSUME packets' = packets, delivered' = delivered
  PROVE  Start' = Start /\ Handled' = Handled /\ StreamEnd' = StreamEnd
  BY SameStart DEF Handled, StreamEnd

LEMMA HandledType ==
  ASSUME RInv
  PROVE  /\ Handled \in Nat /\ StreamEnd \in Nat
         /\ Len(delivered) \in Nat /\ Len(packets) \in Nat
         /\ Len(delivered) \in 0..Len(packets)
  <1>1. Len(delivered) \in Nat /\ Len(packets) \in Nat /\ Len(delivered) \in 0..Len(packets)
    BY DEF RInv, RTypes, StreamInv
  <1>2. Grows
    BY StreamGrows DEF RInv, RTypes
  <1>3. QED
    BY <1>1, <1>2 DEF Grows, Handled, StreamEnd

LEMMA ReceivePreserves ==
  ASSUME RInv, NEW t \in Threads, NEW n \in 1..Available, Receive(t, n)
  PROVE  RInv'
  <1> USE DEF Receive, peerVars
  <1>1. Start' = Start /\ Handled' = Handled /\ StreamEnd' = StreamEnd
    BY SameStream
  <1>2. /\ Handled \in Nat /\ StreamEnd \in Nat /\ n \in Nat /\ n > 0
        /\ taken \in Nat /\ end \in Nat /\ MaxSize \in Nat
        /\ taken + n <= StreamEnd
    BY HandledType, RecvAssumption DEF Available, RInv, RTypes
  <1>3. begin = 0 /\ end = taken - Handled
    BY <1>2 DEF RInv, RTypes, BufferInv, Have, LoopInv
  <1>4. end + n <= MaxSize
    OBVIOUS
  <1>5. buf' \in [0..MaxSize - 1 -> Nat]
    <2>1. ASSUME NEW i \in 0..MaxSize - 1, end <= i PROVE taken + i - end + 1 \in Nat
      BY <1>2, <2>1
    <2>2. QED
      BY <2>1 DEF RInv, RTypes
  <1>6. RTypes'
    BY <1>2, <1>3, <1>5 DEF RInv, RTypes
  <1>7. StreamInv'
    BY <1>1, <1>2 DEF RInv, StreamInv
  <1>8. Have' = end + n
    BY <1>2, <1>3 DEF Have
  <1>9. ASSUME NEW i \in 0..(end + n) - 1 PROVE buf'[begin' + i] = Handled + i + 1
    <2>1. i \in 0..MaxSize - 1 /\ begin' + i = i
      BY <1>2, <1>3, <1>4
    <2>2. CASE end <= i
      BY <1>2, <1>3, <2>1, <2>2
    <2>3. CASE i < end
      <3>1. buf[begin + i] = Handled + i + 1
        BY <1>2, <1>3, <2>3 DEF RInv, BufferInv, Have
      <3>2. QED
        BY <1>2, <1>3, <2>1, <2>3, <3>1
    <2>4. QED
      BY <1>2, <2>1, <2>2, <2>3
  <1>10. BufferInv'
    <2>1. Have' = taken' - Handled' /\ begin' + Have' <= MaxSize
      BY <1>1, <1>2, <1>3, <1>4, <1>8
    <2>2. \A i \in 0..Have' - 1 : buf'[begin' + i] = Handled' + i + 1
      BY ONLY <1>1, <1>8, <1>9
    <2>3. QED
      BY <2>1, <2>2 DEF BufferInv
  <1>11. LoopInv' /\ WaitInv'
    BY <1>1, <1>2, <1>3 DEF LoopInv, WaitInv
  <1>12. InOrder'
    BY <1>1 DEF RInv, InOrder
  <1>13. QED
    BY <1>6, <1>7, <1>10, <1>11, <1>12 DEF RInv

\* Steps that leave the stream and the buffer alone, or close the session.
LEMMA ClosingPreserves ==
  ASSUME RInv, \/ PeerClose
               \/ \E t \in Threads, n \in OtherLens : OtherSession(t, n)
               \/ ReceiveNothing \/ (\E n \in 1..Available : Overrun(n))
               \/ BadPacket \/ RecvFails \/ UNCHANGED vars
  PROVE  RInv'
  <1>1. packets' = packets /\ delivered' = delivered /\ taken' = taken
    BY DEF PeerClose, OtherSession, ReceiveNothing, Overrun, BadPacket, RecvFails, peerVars, vars
  <1>2. Start' = Start /\ Handled' = Handled /\ StreamEnd' = StreamEnd
    BY <1>1, SameStream
  <1>3. StreamInv' /\ InOrder'
    BY <1>1, <1>2 DEF RInv, StreamInv, InOrder
  <1>4. CASE \/ PeerClose \/ (\E t \in Threads, n \in OtherLens : OtherSession(t, n))
             \/ UNCHANGED vars
    <2>1. UNCHANGED <<begin, end, buf, state, bytes, incomplete, taken, packets, delivered>>
      BY <1>1, <1>4 DEF PeerClose, OtherSession, vars, recvVars, loopVars
    <2>2. QED
      BY <1>2, <1>3, <2>1 DEF RInv, RTypes, BufferInv, Have, LoopInv, WaitInv
  <1>5. CASE ReceiveNothing \/ (\E n \in 1..Available : Overrun(n)) \/ BadPacket \/ RecvFails
    <2>1. state' \in {"closed", "overrun"}
      BY <1>5 DEF ReceiveNothing, Overrun, BadPacket, RecvFails, LeaveCompleted
    <2>2. bytes' \in Nat /\ incomplete' \in Nat
      BY <1>5 DEF ReceiveNothing, Overrun, BadPacket, RecvFails, LeaveCompleted, RInv, RTypes
    <2>3. /\ begin' \in Nat /\ end' \in Nat /\ begin' <= end'
          /\ buf' \in [0..MaxSize - 1 -> Nat]
      <3>1. CASE UNCHANGED <<begin, end, buf>>
        BY <3>1 DEF RInv, RTypes
      <3>2. CASE RecvFails /\ PrepareBuffer
        <4>1. CASE BufferEmpty
          BY <4>1 DEF BufferEmpty, RInv, RTypes
        <4>2. CASE MoveToFront
          <5>1. end - begin \in Nat /\ end <= MaxSize
            BY <3>2 DEF RecvFails, RInv, RTypes, BufferInv, Have
          <5>2. QED
            BY <4>2, <5>1, RecvAssumption DEF MoveToFront, RInv, RTypes
        <4>3. CASE AtFront
          BY <4>3 DEF AtFront, RInv, RTypes
        <4>4. QED
          BY <3>2, <4>1, <4>2, <4>3 DEF PrepareBuffer
      <3>3. QED
        BY <1>5, <3>1, <3>2 DEF ReceiveNothing, Overrun, BadPacket, RecvFails, recvVars
    <2>4. RTypes'
      BY <1>1, <2>1, <2>2, <2>3 DEF RInv, RTypes
    <2>5. QED
      BY <1>3, <2>1, <2>4 DEF RInv, BufferInv, LoopInv, WaitInv
  <1>6. QED
    BY <1>4, <1>5

\* _begin stays, what is left of the buffer is kept, and the worker goes on to Recv:
\* Completed in either mode.
LEMMA KeepPreserves ==
  ASSUME RInv, Keep \/ KeepJob
  PROVE  RInv'
  <1> USE DEF Keep, KeepJob, LeaveCompleted, KeepRest, peerVars
  <1>1. packets' = packets /\ delivered' = delivered /\ taken' = taken /\ begin' = begin
    OBVIOUS
  <1>2. Start' = Start /\ Handled' = Handled /\ StreamEnd' = StreamEnd
    BY <1>1, SameStream
  <1>3. StreamInv' /\ InOrder'
    BY <1>1, <1>2 DEF RInv, StreamInv, InOrder
  <1>4. /\ state = "handling" /\ state' = "rearm"
        /\ incomplete = taken - Handled /\ begin + incomplete <= MaxSize
        /\ incomplete = end - begin + bytes
        /\ begin \in Nat /\ end \in Nat /\ bytes \in Nat /\ incomplete \in Nat /\ MaxSize \in Nat
    BY RecvAssumption DEF Looping, RInv, RTypes, BufferInv, Have, LoopInv
  <1>5. end' = end + bytes /\ Have' = incomplete
    BY <1>1, <1>4 DEF Have
  <1>6. ASSUME NEW i \in 0..incomplete - 1 PROVE buf'[begin + i] = buf[begin + i]
    <2>1. begin + i \in 0..MaxSize - 1 /\ begin <= begin + i /\ begin + i < end'
      BY <1>4, <1>5
    <2>2. QED
      BY <2>1 DEF HandOver, RInv, RTypes
  <1>7. buf' \in [0..MaxSize - 1 -> Nat]
    <2>1. CASE buf' = buf
      BY <2>1 DEF RInv, RTypes
    <2>2. CASE HandOver
      BY <2>2 DEF HandOver, RInv, RTypes
    <2>3. buf' = buf \/ HandOver
      BY Keep \/ KeepJob
    <2>4. QED
      BY ONLY <2>1, <2>2, <2>3
  <1>8. RTypes'
    <2>1. bytes' = 0 /\ incomplete' = 0
      OBVIOUS
    <2>2. begin' \in Nat /\ end' \in Nat /\ begin' <= end'
      BY <1>1, <1>4, <1>5 DEF RInv, RTypes
    <2>3. QED
      BY ONLY <1>1, <1>4, <1>7, <2>1, <2>2, RInv DEF RInv, RTypes
  <1>9. BufferInv'
    <2>1. Have' = taken' - Handled' /\ begin' + Have' <= MaxSize
      BY <1>1, <1>2, <1>4, <1>5
    <2>2. \A i \in 0..incomplete - 1 : buf[begin + i] = Handled + i + 1
      BY <1>4 DEF RInv, BufferInv, Have
    <2>3. \A i \in 0..Have' - 1 : buf'[begin' + i] = Handled' + i + 1
      BY ONLY <1>1, <1>2, <1>5, <1>6, <2>2
    <2>4. QED
      BY <2>1, <2>3 DEF BufferInv
  <1>10. LoopInv'
    BY <1>4 DEF LoopInv
  <1>11. WaitInv'
    <2>1. CASE ~HasHeader
      BY <1>1, <1>2, <1>4, <2>1, RecvAssumption DEF WaitInv, HasHeader
    <2>2. CASE HasHeader /\ PacketSize > incomplete
      <3>1. Start[Len(delivered) + 1] = Handled + PacketSize /\ PacketSize \in Nat
        BY <2>2, HeaderIsNext
      <3>2. taken < Start[Len(delivered) + 1]
        <4>1. taken = Handled + incomplete /\ Handled \in Nat /\ incomplete \in Nat
          <5>1. Handled \in Nat
            BY HandledType
          <5>2. incomplete \in Nat
            BY DEF RInv, RTypes
          <5>3. taken \in Nat /\ incomplete = taken - Handled
            BY <1>4 DEF RInv, RTypes
          <5>4. QED
            BY ONLY <5>1, <5>2, <5>3
        <4>2. QED
          BY ONLY <2>2, <3>1, <4>1
      <3>3. QED
        BY <1>1, <1>2, <3>2 DEF WaitInv
    <2>3. QED
      BY <2>1, <2>2
  <1>12. QED
    BY <1>3, <1>8, <1>9, <1>10, <1>11 DEF RInv

LEMMA LoopEndsPreserves ==
  ASSUME RInv, LoopEnds \/ LoopEndsJob
  PROVE  RInv'
  <1> USE DEF LoopEnds, LoopEndsJob, LeaveCompleted, peerVars, recvVars
  <1>1. UNCHANGED <<packets, delivered, taken, begin, end>>
    OBVIOUS
  <1>2. Start' = Start /\ Handled' = Handled /\ StreamEnd' = StreamEnd
    BY <1>1, SameStream
  <1>3. StreamInv' /\ InOrder'
    BY <1>1, <1>2 DEF RInv, StreamInv, InOrder
  <1>4. /\ state' = "rearm" /\ end = begin /\ taken = Handled /\ begin <= MaxSize
        /\ begin \in Nat /\ taken \in Nat
    BY HandledType DEF RInv, RTypes, BufferInv, Have, LoopInv
  <1>5. buf' \in [0..MaxSize - 1 -> Nat]
    BY DEF HandOver, RInv, RTypes
  <1>6. RTypes'
    BY <1>1, <1>4, <1>5 DEF RInv, RTypes
  <1>7. BufferInv' /\ LoopInv' /\ WaitInv'
    BY <1>1, <1>2, <1>4, RecvAssumption DEF BufferInv, Have, LoopInv, WaitInv
  <1>8. QED
    BY <1>3, <1>6, <1>7 DEF RInv

LEMMA RecvPreserves ==
  ASSUME RInv, Recv
  PROVE  RInv'
  <1> USE DEF Recv, peerVars
  <1>1. packets' = packets /\ delivered' = delivered /\ taken' = taken
    OBVIOUS
  <1>2. Start' = Start /\ Handled' = Handled /\ StreamEnd' = StreamEnd
    BY <1>1, SameStream
  <1>3. StreamInv' /\ InOrder'
    BY <1>1, <1>2 DEF RInv, StreamInv, InOrder
  <1> DEFINE have == end - begin
  <1>4. /\ have = taken - Handled /\ have \in Nat /\ begin + have <= MaxSize
        /\ begin \in Nat /\ end \in Nat /\ MaxSize \in Nat
        /\ \A i \in 0..have - 1 : buf[begin + i] = Handled + i + 1
    BY RecvAssumption DEF RInv, RTypes, BufferInv, Have
  <1>5. /\ begin' = 0 /\ end' = have
        /\ buf' \in [0..MaxSize - 1 -> Nat]
        /\ \A i \in 0..have - 1 : buf'[i] = Handled + i + 1
    <2>1. CASE BufferEmpty
      BY <1>4, <2>1 DEF BufferEmpty, RInv, RTypes
    <2>2. CASE MoveToFront
      <3>1. ASSUME NEW i \in 0..have - 1 PROVE buf'[i] = buf[begin + i] /\ begin + i \in 0..MaxSize - 1
        <4>1. i \in 0..MaxSize - 1 /\ i < end - begin /\ begin + i \in 0..MaxSize - 1
          BY <1>4
        <4>2. QED
          BY <2>2, <4>1 DEF MoveToFront
      <3>2. ASSUME NEW i \in 0..MaxSize - 1, i < end - begin PROVE buf[begin + i] \in Nat
        <4>1. begin + i \in 0..MaxSize - 1
          BY <1>4, <3>2
        <4>2. QED
          BY <4>1 DEF RInv, RTypes
      <3>3. buf' \in [0..MaxSize - 1 -> Nat]
        BY <2>2, <3>2 DEF MoveToFront, RInv, RTypes
      <3>4. QED
        BY <1>4, <2>2, <3>1, <3>3 DEF MoveToFront
    <2>3. CASE AtFront
      BY <1>4, <2>3 DEF AtFront, RInv, RTypes
    <2>4. QED
      BY <2>1, <2>2, <2>3 DEF PrepareBuffer
  <1>6. RTypes'
    BY <1>1, <1>4, <1>5 DEF RInv, RTypes
  <1>7. BufferInv'
    <2>1. Have' = have /\ begin' = 0 /\ \A i \in 0..have - 1 : begin' + i = i
      BY <1>4, <1>5 DEF Have
    <2>2. Have' = taken' - Handled' /\ begin' + Have' <= MaxSize
      BY <1>1, <1>2, <1>4, <1>5, <2>1
    <2>3. \A i \in 0..Have' - 1 : buf'[begin' + i] = Handled' + i + 1
      BY ONLY <1>2, <1>5, <2>1
    <2>4. QED
      BY <2>2, <2>3 DEF BufferInv
  <1>8. LoopInv' /\ WaitInv'
    BY <1>1, <1>2, <1>5 DEF RInv, LoopInv, WaitInv
  <1>9. QED
    BY <1>3, <1>6, <1>7, <1>8 DEF RInv

LEMMA DeliverPreserves ==
  ASSUME RInv, Deliver
  PROVE  RInv'
  <1> USE DEF Deliver, peerVars
  <1> DEFINE c == Len(delivered)
  <1>1. PICK size \in Nat :
          /\ size = PacketSize /\ size > 0
          /\ c < Len(packets) /\ size = packets[c + 1] /\ Start[c + 1] = Handled + size
    BY HeaderIsNext
  <1> DEFINE packet == [i \in 1..size |-> buf[begin + i - 1]]
  <1>2. /\ size \in Nat /\ size > 0 /\ c \in Nat /\ Len(packets) \in Nat /\ Handled \in Nat /\ StreamEnd \in Nat
        /\ taken \in Nat /\ begin \in Nat /\ end \in Nat /\ bytes \in Nat /\ incomplete \in Nat
        /\ MaxSize \in Nat
    BY <1>1, HandledType, RecvAssumption DEF RInv, RTypes
  <1>3. /\ state = "handling" /\ state' = "handling" /\ size <= incomplete /\ size <= MaxSize
        /\ HeaderSize <= size
        /\ incomplete = taken - Handled /\ begin + incomplete <= MaxSize
        /\ incomplete = end - begin + bytes /\ begin <= Handled
    BY <1>1 DEF Looping, Check, RInv, RTypes, BufferInv, Have, LoopInv
  <1>3a. /\ \A i \in 0..incomplete - 1 : buf[begin + i] = Handled + i + 1
         /\ \A i \in 0..begin - 1 : buf[i] = Handled - begin + i + 1
    BY <1>3 DEF RInv, BufferInv, Have, LoopInv
  <1>4. /\ taken' = taken /\ begin' = begin + size /\ end' = begin + size
        /\ bytes' = bytes - (size - (end - begin)) /\ incomplete' = incomplete - size
    BY <1>1 DEF Rest
  <1>4a. UNCHANGED <<packets, buf>> /\ delivered' = Append(delivered, packet)
    BY <1>1
  <1> HIDE DEF Deliver
  <1>5. \A i \in 1..size : packet[i] = Handled + i /\ packet[i] \in Nat
    <2>1. ASSUME NEW i \in 1..size
          PROVE  buf[begin + i - 1] = Handled + i /\ buf[begin + i - 1] \in Nat
      <3>1. i - 1 \in 0..incomplete - 1 /\ begin + (i - 1) = begin + i - 1
        BY ONLY <1>2, <1>3
      <3>2. buf[begin + (i - 1)] = Handled + (i - 1) + 1
        BY ONLY <1>3a, <3>1
      <3>3. QED
        BY ONLY <1>2, <3>1, <3>2
    <2>2. QED
      BY <2>1
  <1>6. packet \in Seq(Nat)
    <2>1. packet \in [1..size -> Nat]
      BY ONLY <1>5
    <2> HIDE DEF packet
    <2>2. QED
      BY <1>1, <2>1, SeqDef
  <1> HIDE DEF packet
  <1>7. /\ delivered' \in Seq(Seq(Nat)) /\ Len(delivered') = c + 1
        /\ delivered'[c + 1] = packet /\ \A k \in 1..c : delivered'[k] = delivered[k]
    BY <1>4a, <1>6 DEF RInv, RTypes
  <1>8. Start' = Start /\ StreamEnd' = StreamEnd /\ Handled' = Handled + size
    BY <1>1, <1>4a, <1>7, SameStart DEF Handled, StreamEnd
  <1>9. bytes' = incomplete - size /\ bytes' \in Nat
    BY ONLY <1>2, <1>3, <1>4
  <1>10. RTypes'
    <2>1. /\ begin' \in Nat /\ end' \in Nat /\ begin' <= end'
          /\ bytes' \in Nat /\ incomplete' \in Nat
      BY ONLY <1>2, <1>3, <1>4, <1>9
    <2>2. QED
      BY ONLY RInv, <1>3, <1>4, <1>4a, <1>7, <2>1 DEF RInv, RTypes
  <1>11. StreamInv'
    <2>1. ASSUME NEW k \in 1..c + 1 PROVE packets[k] \in HeaderSize..MaxSize
      <3>1. CASE k = c + 1
        BY <1>1, <1>2, <1>3, <3>1, RecvAssumption
      <3>2. CASE k \in 1..c
        BY <3>2 DEF RInv, StreamInv
      <3>3. QED
        BY <1>2, <3>1, <3>2
    <2>2. Handled + size <= taken
      BY <1>2, <1>3, RecvAssumption DEF RInv, StreamInv
    <2>3. c + 1 <= Len(packets) /\ Handled' <= taken' /\ taken' <= StreamEnd'
      BY <1>1, <1>2, <1>4, <1>8, <2>2 DEF RInv, StreamInv
    <2>4. QED
      BY ONLY <1>4a, <1>7, <2>1, <2>3 DEF StreamInv
  <1>12. BufferInv'
    <2>1. Have' = incomplete - size
      BY <1>3, <1>4 DEF Have
    <2>2. Have' = taken' - Handled' /\ begin' + Have' <= MaxSize
      BY ONLY <1>2, <1>3, <1>4, <1>8, <2>1
    <2>3. ASSUME NEW i \in 0..(incomplete - size) - 1
          PROVE  buf[begin + size + i] = Handled + size + i + 1
      <3>1. size + i \in 0..incomplete - 1 /\ begin + (size + i) = begin + size + i
        BY ONLY <1>2, <1>3
      <3>2. buf[begin + (size + i)] = Handled + (size + i) + 1
        BY <1>3a, <3>1
      <3>3. QED
        BY ONLY <1>2, <3>1, <3>2
    <2>4. \A i \in 0..Have' - 1 : buf'[begin' + i] = Handled' + i + 1
      BY ONLY <1>4, <1>4a, <1>8, <2>1, <2>3
    <2>5. QED
      BY <2>2, <2>4 DEF BufferInv
  <1>13. LoopInv'
    <2>1. ASSUME NEW i \in 0..begin + size - 1
          PROVE  buf[i] = (Handled + size) - (begin + size) + i + 1
      <3>1. CASE i < begin
        <4>1. buf[i] = Handled - begin + i + 1
          BY <1>2, <1>3a, <3>1
        <4>2. QED
          BY ONLY <1>2, <4>1
      <3>2. CASE begin <= i
        <4>1. i - begin \in 0..incomplete - 1 /\ begin + (i - begin) = i
          BY ONLY <1>2, <1>3, <3>2
        <4>2. buf[begin + (i - begin)] = Handled + (i - begin) + 1
          BY <1>3a, <4>1
        <4>3. QED
          BY ONLY <1>2, <4>1, <4>2
      <3>3. QED
        BY <1>2, <3>1, <3>2
    <2>2. \A i \in 0..begin' - 1 : buf'[i] = Handled' - begin' + i + 1
      <3> SUFFICES ASSUME NEW i \in 0..begin' - 1
                   PROVE  buf'[i] = Handled' - begin' + i + 1
        OBVIOUS
      <3>1. buf' = buf /\ begin' = begin + size /\ Handled' = Handled + size
        BY <1>4, <1>4a, <1>8
      <3>2. i \in 0..begin + size - 1
        BY <1>2, <3>1
      <3>3. buf[i] = (Handled + size) - (begin + size) + i + 1
        BY ONLY <2>1, <3>2
      <3>4. QED
        BY ONLY <3>1, <3>3
    <2>3. /\ incomplete' = end' - begin' + bytes' /\ (bytes' = 0 => end' = begin')
          /\ begin' <= Handled'
      BY ONLY <1>2, <1>3, <1>4, <1>8, <1>9
    <2>4. QED
      BY <1>3, <2>2, <2>3 DEF LoopInv
  <1>14. WaitInv'
    BY <1>3 DEF WaitInv
  <1>15. InOrder'
    <2>1. ASSUME NEW k \in 1..c + 1
          PROVE  delivered'[k] = [i \in 1..packets[k] |-> Start[k - 1] + i]
      <3>1. CASE k \in 1..c
        BY <1>7, <3>1 DEF RInv, InOrder
      <3>2. CASE k = c + 1
        <4>1. k - 1 = c /\ Start[c] = Handled
          BY <1>2, <3>2 DEF Handled
        <4>2. packet = [i \in 1..size |-> Handled + i]
          BY <1>5 DEF packet
        <4>3. QED
          BY <1>1, <1>7, <3>2, <4>1, <4>2
      <3>3. QED
        BY <1>2, <3>1, <3>2
    <2>2. QED
      BY ONLY <1>4a, <1>7, <1>8, <2>1 DEF InOrder
  <1>16. QED
    BY <1>10, <1>11, <1>12, <1>13, <1>14, <1>15 DEF RInv

LEMMA RInvInductive ==
  ASSUME RInv, [JobNext]_jobVars
  PROVE  RInv'
  <1>1. CASE \E s \in Sizes : PeerSend(s)
    BY <1>1, PeerPreserves
  <1>2. CASE Arrival
    BY <1>2, ReceivePreserves, ClosingPreserves DEF Arrival
  <1>3. CASE Handling
    BY <1>3, KeepPreserves, LoopEndsPreserves, DeliverPreserves, ClosingPreserves
       DEF Handling, Completed, CompletedJob
  <1>4. CASE Recv
    BY <1>4, RecvPreserves
  <1>5. CASE \/ PeerClose \/ (\E t \in Threads, n \in OtherLens : OtherSession(t, n))
             \/ RecvFails \/ UNCHANGED vars
    BY <1>5, ClosingPreserves
  <1>6. QED
    BY <1>1, <1>2, <1>3, <1>4, <1>5
       DEF JobNext, Peer, Excute, JobDelivers, JobEnds, jobVars

LEMMA Invariance == Spec => []RInv
  <1>1. JobInit => RInv
    BY InitRInv DEF JobInit
  <1>2. RInv /\ [JobNext]_jobVars => RInv'
    BY RInvInductive
  <1>3. QED
    BY <1>1, <1>2, PTL DEF Spec
-----------------------------------------------------------------------------
(***************************************************************************)
(* Single-thread mode                                                      *)
(***************************************************************************)
Jobs == [buf : [0..MaxSize - 1 -> Nat], at : Nat, bytes : Nat]

\* Job m has the packets cut[m] + 1 to cut[m + 1] of those the worker went over.
Cut(cut) ==
    /\ cut \in [1..Len(jobs) + 1 -> 0..Len(delivered)]
    /\ cut[1] = Len(told)
    /\ state \in {"posted", "rearm"} => cut[Len(jobs) + 1] = Len(delivered)
    /\ state = "handling" => Start[cut[Len(jobs) + 1]] = Handled - begin
    /\ \A m \in 1..Len(jobs) :
          /\ cut[m] <= cut[m + 1]
          /\ jobs[m].bytes = Start[cut[m + 1]] - Start[cut[m]]
          /\ \A i \in 0..jobs[m].bytes - 1 : jobs[m].buf[jobs[m].at + i] = Start[cut[m]] + i + 1

JobInv == /\ jobs \in Seq(Jobs) /\ told \in Seq(Seq(Nat))
          /\ ~single => jobs = <<>>
          /\ single => /\ \A k \in 1..Len(told) : told[k] = delivered[k]
                       /\ \E cut : Cut(cut)

LEMMA InitJobInv == JobInit => JobInv
  <1> SUFFICES ASSUME JobInit PROVE JobInv
    OBVIOUS
  <1> USE DEF JobInit, Init
  <1>1. jobs \in Seq(Jobs) /\ told \in Seq(Seq(Nat))
    BY EmptySeq
  <1>2. Cut([m \in 1..1 |-> 0])
    BY DEF Cut
  <1>3. QED
    BY <1>1, <1>2 DEF JobInv

\* Steps in which no job is handed over or run
LEMMA OthersKeepCut ==
  ASSUME RInv, JobInv, UNCHANGED <<single, jobs, told, delivered>>,
         packets' = packets \/ \E s \in Sizes : packets' = Append(packets, s),
         \/ state' = state /\ begin' = begin
         \/ state = "posted" /\ state' = "handling" /\ begin' = begin
         \/ state = "rearm" /\ state' = "posted"
         \/ state' \in {"closed", "overrun"}
  PROVE  JobInv'
  <1>1. CASE ~single
    BY <1>1 DEF JobInv
  <1>2. CASE single
    <2>1. PICK cut : Cut(cut)
      BY <1>2 DEF JobInv
    <2> DEFINE n == Len(jobs)
               c == Len(delivered)
    <2>2. n \in Nat /\ c \in 0..Len(packets) /\ c \in Nat /\ Handled = Start[c]
      BY HandledType DEF JobInv, Handled
    <2>3. \A k \in 0..c : Start'[k] = Start[k]
      <3>1. \A k \in 0..Len(packets) : Start'[k] = Start[k]
        BY StartKept
      <3>2. \A k \in 0..c : k \in 0..Len(packets)
        BY <2>2, HandledType
      <3>3. QED
        BY <3>1, <3>2
    <2>4. Handled' = Handled
      BY <2>2, <2>3 DEF Handled
    <2>5. cut \in [1..n + 1 -> 0..c] /\ n + 1 \in 1..n + 1
      BY <2>1, <2>2 DEF Cut
    <2>6. Start'[cut[n + 1]] = Start[cut[n + 1]]
      BY <2>3, <2>5
    <2>7. state' = "handling" => Start'[cut[n + 1]] = Handled' - begin'
      <3>1. CASE state = "posted" /\ state' = "handling" /\ begin' = begin
        <4>1. begin = 0 /\ cut[n + 1] = c /\ Handled \in Nat
          BY <2>1, <3>1, HandledType DEF Cut, RInv, LoopInv
        <4>2. QED
          BY <2>2, <2>4, <2>6, <3>1, <4>1
      <3>2. CASE state' = state /\ begin' = begin
        BY <2>1, <2>4, <2>6, <3>2 DEF Cut
      <3>3. QED
        BY <3>1, <3>2
    <2>8. state' \in {"posted", "rearm"} => cut[n + 1] = c
      BY <2>1 DEF Cut
    <2>9. ASSUME NEW m \in 1..n PROVE Start'[cut[m]] = Start[cut[m]] /\ Start'[cut[m + 1]] = Start[cut[m + 1]]
      <3>1. m \in 1..n + 1 /\ m + 1 \in 1..n + 1
        BY <2>2
      <3>2. QED
        BY <2>3, <2>5, <3>1
    <2>10. Cut(cut)'
      BY <2>1, <2>7, <2>8, <2>9 DEF Cut
    <2>11. QED
      BY <1>2, <2>10 DEF JobInv
  <1>3. QED
    BY <1>1, <1>2

LEMMA DeliverKeepsCut ==
  ASSUME RInv, RInv', JobInv, Deliver, UNCHANGED <<single, jobs, told>>
  PROVE  JobInv'
  <1>1. CASE ~single
    BY <1>1 DEF JobInv
  <1>2. CASE single
    <2>1. PICK cut : Cut(cut)
      BY <1>2 DEF JobInv
    <2> DEFINE n == Len(jobs)
               c == Len(delivered)
    <2>2. packets' = packets /\ state = "handling" /\ state' = "handling"
      BY DEF Deliver, Looping, peerVars
    <2>3. Start' = Start
      BY <2>2, SameStart
    <2>4. /\ n \in Nat /\ c \in Nat /\ Len(delivered') = c + 1
          /\ \A k \in 1..c : delivered'[k] = delivered[k]
      BY HandledType DEF Deliver, JobInv, RInv, RTypes
    <2>5. Handled' - begin' = Handled - begin
      <3>1. Start[c + 1] = Handled + PacketSize /\ PacketSize \in Nat
        BY HeaderIsNext DEF Deliver
      <3>2. Handled' = Handled + PacketSize /\ begin' = begin + PacketSize
        BY <2>3, <2>4, <3>1 DEF Handled, Deliver
      <3>3. Handled \in Nat /\ begin \in Nat
        BY HandledType DEF RInv, RTypes
      <3>4. QED
        BY ONLY <3>1, <3>2, <3>3
    <2>6. cut \in [1..n + 1 -> 0..c + 1]
      <3>1. \A m \in 1..n + 1 : cut[m] \in 0..c + 1
        BY <2>1, <2>4 DEF Cut
      <3>2. QED
        BY <2>1, <3>1 DEF Cut
    <2>7. Cut(cut)'
      <3>1. cut[1] = Len(told') /\ Start'[cut[n + 1]] = Handled' - begin'
        BY <2>1, <2>2, <2>3, <2>5 DEF Cut
      <3>2. QED
        BY <2>1, <2>2, <2>3, <2>4, <2>6, <3>1 DEF Cut
    <2>8. \A k \in 1..Len(told) : told[k] = delivered'[k]
      <3>1. Len(told) \in 0..c
        <4>1. 1 \in 1..n + 1
          BY <2>4
        <4>2. QED
          BY <2>1, <4>1 DEF Cut
      <3>2. \A k \in 1..Len(told) : k \in 1..c
        BY <2>4, <3>1
      <3>3. QED
        BY <1>2, <2>4, <3>2 DEF JobInv
    <2>9. QED
      BY <1>2, <2>7, <2>8 DEF JobInv
  <1>3. QED
    BY <1>1, <1>2

\* The new job has what the worker went over since the last one.
LEMMA HandOverAddsCut ==
  ASSUME RInv, RInv', JobInv, single, KeepJob \/ LoopEndsJob
  PROVE  JobInv'
  <1>1. PICK cut : Cut(cut)
    BY DEF JobInv
  <1> DEFINE n == Len(jobs)
             c == Len(delivered)
             job == [buf |-> buf, at |-> 0, bytes |-> begin]
  <1>2. /\ UNCHANGED <<packets, delivered, single, told>>
        /\ jobs' = Append(jobs, job)
        /\ state = "handling" /\ state' = "rearm"
    BY DEF KeepJob, LoopEndsJob, HandOver, LeaveCompleted, Looping, peerVars
  <1>3. Start' = Start
    BY <1>2, SameStart
  <1>4. /\ n \in Nat /\ c \in Nat /\ begin \in Nat /\ Handled \in Nat /\ begin <= Handled
        /\ Handled = Start[c]
        /\ \A i \in 0..begin - 1 : buf[i] = Handled - begin + i + 1
    BY <1>2, HandledType DEF JobInv, RInv, RTypes, LoopInv, Handled
  <1>5. /\ jobs' \in Seq(Jobs) /\ Len(jobs') = n + 1 /\ jobs'[n + 1] = job
        /\ \A m \in 1..n : jobs'[m] = jobs[m]
    <2>1. job \in Jobs
      BY <1>4 DEF Jobs, RInv, RTypes
    <2> HIDE DEF job
    <2>2. QED
      BY <1>2, <2>1 DEF JobInv
  <1>6. /\ cut \in [1..n + 1 -> 0..c] /\ cut[1] = Len(told)
        /\ Start[cut[n + 1]] = Handled - begin
    BY <1>1, <1>2 DEF Cut
  <1>7. PICK more \in [1..n + 2 -> 0..c] : /\ more[n + 2] = c
                                           /\ \A m \in 1..n + 1 : more[m] = cut[m]
    <2> DEFINE longer == [m \in 1..n + 2 |-> IF m = n + 2 THEN c ELSE cut[m]]
    <2>1. \A m \in 1..n + 2 : m # n + 2 => m \in 1..n + 1
      BY <1>4
    <2>2. c \in 0..c /\ n + 2 \in 1..n + 2 /\ \A m \in 1..n + 1 : m \in 1..n + 2 /\ m # n + 2
      BY <1>4
    <2>3. /\ longer \in [1..n + 2 -> 0..c] /\ longer[n + 2] = c
          /\ \A m \in 1..n + 1 : longer[m] = cut[m]
      BY <1>6, <2>1, <2>2
    <2> HIDE DEF longer
    <2>4. QED
      BY <2>3
  <1>8. ASSUME NEW m \in 1..n
        PROVE  /\ more[m] <= more[m + 1]
               /\ jobs'[m].bytes = Start[more[m + 1]] - Start[more[m]]
               /\ \A i \in 0..jobs'[m].bytes - 1 :
                     jobs'[m].buf[jobs'[m].at + i] = Start[more[m]] + i + 1
    <2>1. more[m] = cut[m] /\ more[m + 1] = cut[m + 1] /\ jobs'[m] = jobs[m]
      <3>1. m \in 1..n + 1 /\ m + 1 \in 1..n + 1
        BY <1>4
      <3>2. QED
        BY <1>5, <1>7, <3>1
    <2>2. QED
      BY <1>1, <2>1 DEF Cut
  <1>9. /\ more[n + 1] <= more[n + 2]
        /\ jobs'[n + 1].bytes = Start[more[n + 2]] - Start[more[n + 1]]
        /\ \A i \in 0..jobs'[n + 1].bytes - 1 :
              jobs'[n + 1].buf[jobs'[n + 1].at + i] = Start[more[n + 1]] + i + 1
    <2>1. n + 1 \in 1..n + 1
      BY <1>4
    <2>2. more[n + 1] = cut[n + 1] /\ more[n + 2] = c /\ cut[n + 1] \in 0..c
      BY <1>6, <1>7, <2>1
    <2>3. jobs'[n + 1].bytes = begin /\ jobs'[n + 1].at = 0 /\ jobs'[n + 1].buf = buf
      BY <1>5
    <2>4. begin = Handled - (Handled - begin) /\ cut[n + 1] <= c
      BY <1>4, <2>2
    <2>5. ASSUME NEW i \in 0..begin - 1 PROVE buf[0 + i] = Handled - begin + i + 1
      <3>1. 0 + i = i
        BY <1>4
      <3>2. QED
        BY <1>4, <3>1
    <2>6. Start[more[n + 2]] = Handled /\ Start[more[n + 1]] = Handled - begin
      BY ONLY <1>4, <1>6, <2>2
    <2>7. more[n + 1] <= more[n + 2]
      BY ONLY <2>2, <2>4
    <2>8. jobs'[n + 1].bytes = Start[more[n + 2]] - Start[more[n + 1]]
      BY ONLY <2>3, <2>4, <2>6
    <2>9. \A i \in 0..jobs'[n + 1].bytes - 1 :
             jobs'[n + 1].buf[jobs'[n + 1].at + i] = Start[more[n + 1]] + i + 1
      BY ONLY <2>3, <2>5, <2>6
    <2>10. QED
      BY ONLY <2>7, <2>8, <2>9
  <1>10. Cut(more)'
    <2>1. \A m \in 1..n + 1 : m \in 1..n \/ m = n + 1
      BY <1>4
    <2>2. (n + 1) + 1 = n + 2 /\ 1 \in 1..n + 1
      BY <1>4
    <2>3. more \in [1..Len(jobs') + 1 -> 0..Len(delivered')] /\ more[1] = Len(told')
      BY <1>2, <1>5, <1>6, <1>7, <2>2
    <2>4. more[Len(jobs') + 1] = Len(delivered')
      BY <1>2, <1>5, <1>7, <2>2
    <2>5. \A m \in 1..Len(jobs') :
             /\ more[m] <= more[m + 1]
             /\ jobs'[m].bytes = Start'[more[m + 1]] - Start'[more[m]]
             /\ \A i \in 0..jobs'[m].bytes - 1 :
                   jobs'[m].buf[jobs'[m].at + i] = Start'[more[m]] + i + 1
      BY <1>3, <1>5, <1>8, <1>9, <2>1, <2>2
    <2>6. QED
      BY ONLY <1>2, <2>3, <2>4, <2>5 DEF Cut
  <1>11. QED
    BY <1>2, <1>5, <1>10 DEF JobInv

\* A job with bytes to go is at a packet, and has all of it.
LEMMA FrontJob ==
  ASSUME RInv, JobInv, single, jobs # <<>>, NEW cut, Cut(cut)
  PROVE  /\ Len(jobs) \in Nat /\ Len(jobs) > 0 /\ Job \in Jobs /\ Job = jobs[1]
         /\ cut[1] \in 0..Len(delivered) /\ cut[2] \in 0..Len(delivered)
         /\ Job.bytes = Start[cut[2]] - Start[cut[1]]
         /\ Job.bytes = 0 => cut[1] = cut[2]
         /\ Job.bytes # 0 => /\ cut[1] < cut[2] /\ Whole
                             /\ JobPacket = packets[cut[1] + 1]
                             /\ JobPacket \in Nat /\ JobPacket <= Job.bytes
                             /\ Start[cut[1] + 1] = Start[cut[1]] + JobPacket
  <1> DEFINE n == Len(jobs)
             c == Len(delivered)
             f == cut[1]
             l == cut[2]
  <1>1. n \in Nat /\ n > 0 /\ Job \in Jobs /\ Job = jobs[1]
    BY DEF JobInv, Job
  <1>2. f \in 0..c /\ l \in 0..c
    <2>1. 1 \in 1..n + 1 /\ 2 \in 1..n + 1
      BY <1>1
    <2>2. QED
      BY <2>1 DEF Cut
  <1>3. /\ f <= l /\ Job.bytes = Start[l] - Start[f]
        /\ \A i \in 0..Job.bytes - 1 : Job.buf[Job.at + i] = Start[f] + i + 1
    <2>1. 1 \in 1..n /\ 1 + 1 = 2
      BY <1>1
    <2>2. QED
      BY <1>1, <2>1 DEF Cut
  <1>4. /\ c \in 0..Len(packets) /\ c \in Nat /\ Len(packets) \in Nat
        /\ \A a \in 0..Len(packets) : Start[a] \in Nat
        /\ \A a, b \in 0..Len(packets) : a < b => Start[a] < Start[b]
    BY HandledType, StreamGrows DEF Grows, RInv, RTypes
  <1>5. f \in 0..Len(packets) /\ l \in 0..Len(packets) /\ f \in Nat /\ l \in Nat
    BY <1>2, <1>4
  <1>6. Start[f] \in Nat /\ Start[l] \in Nat /\ (f < l => Start[f] < Start[l])
    BY <1>4, <1>5
  <1>7. CASE Job.bytes = 0
    BY <1>1, <1>2, <1>3, <1>5, <1>6, <1>7
  <1>8. CASE Job.bytes # 0
    <2>1. f < l
      BY <1>3, <1>5, <1>6, <1>8
    <2>2. f + 1 \in 1..Len(packets) /\ f + 1 \in 1..c /\ (f + 1) - 1 = f /\ f < Len(packets)
      BY <1>2, <1>4, <1>5, <2>1
    <2>3. Start[f + 1] = Start[f] + packets[f + 1] /\ packets[f + 1] \in Nat
      BY <2>2, StreamGrows DEF Grows, RInv, RTypes
    <2>4. f + 1 = l \/ Start[f + 1] < Start[l]
      <3>1. f + 1 \in 0..Len(packets) /\ (f + 1 = l \/ f + 1 < l)
        BY <1>5, <2>1, <2>2
      <3>2. QED
        BY <1>4, <1>5, <3>1
    <2>5. packets[f + 1] <= Job.bytes
      BY <1>3, <1>6, <2>3, <2>4
    <2>6. packets[f + 1] \in HeaderSize..MaxSize
      BY <2>2 DEF RInv, StreamInv
    <2>7. JobPacket = packets[f + 1]
      <3>1. 0 \in 0..Job.bytes - 1 /\ Job.at + 0 = Job.at /\ Start[f] + 0 + 1 = Start[f] + 1
        BY <1>1, <1>6, <1>8 DEF Jobs
      <3>2. Job.buf[Job.at] = Start[f] + 1
        BY <1>3, <3>1
      <3>3. /\ \E k \in 1..Len(packets) : Start[f] + 1 = Start[k - 1] + 1
            /\ PacketAt(Start[f] + 1) = f + 1
        BY <1>5, <2>2, OnePacket DEF RInv, RTypes
      <3>4. QED
        BY <3>2, <3>3 DEF JobPacket, PacketAt
    <2>8. Whole
      BY <1>1, <2>5, <2>6, <2>7, RecvAssumption DEF Whole, Jobs
    <2>9. QED
      BY <1>1, <1>2, <1>3, <1>8, <2>1, <2>3, <2>5, <2>7, <2>8
  <1>9. QED
    BY <1>7, <1>8

LEMMA JobDeliversKeepsCut ==
  ASSUME RInv, JobInv, single, JobDelivers
  PROVE  JobInv'
  <1>1. PICK cut : Cut(cut)
    BY DEF JobInv
  <1> DEFINE n == Len(jobs)
             c == Len(delivered)
             f == cut[1]
             rest == [Job EXCEPT !.at = @ + JobPacket, !.bytes = @ - JobPacket]
             packet == [i \in 1..JobPacket |-> Job.buf[Job.at + i - 1]]
  <1>2. /\ jobs # <<>> /\ Job.bytes # 0 /\ UNCHANGED vars /\ UNCHANGED single
        /\ told' = Append(told, packet)
        /\ jobs' = [jobs EXCEPT ![1].at = @ + JobPacket, ![1].bytes = @ - JobPacket]
    BY DEF JobDelivers
  <1>3. /\ n \in Nat /\ n > 0 /\ Job \in Jobs /\ Job = jobs[1]
        /\ f \in 0..c /\ cut[2] \in 0..c /\ Job.bytes = Start[cut[2]] - Start[f]
        /\ f < cut[2] /\ JobPacket = packets[f + 1] /\ JobPacket \in Nat
        /\ JobPacket <= Job.bytes /\ Start[f + 1] = Start[f] + JobPacket
    BY <1>1, <1>2, FrontJob
  <1>4. /\ UNCHANGED <<packets, delivered, state, begin, buf>>
        /\ Start' = Start /\ Handled' = Handled
    BY <1>2, SameStream DEF vars, recvVars, loopVars, peerVars
  <1>5. /\ jobs' \in Seq(Jobs) /\ Len(jobs') = n /\ jobs'[1] = rest
        /\ \A m \in 2..n : jobs'[m] = jobs[m]
    <2>1. rest \in Jobs
      <3>1. Job \in Jobs /\ JobPacket \in Nat /\ JobPacket <= Job.bytes
        BY <1>3
      <3>2. Job.at \in Nat /\ Job.bytes \in Nat
        BY ONLY <3>1 DEF Jobs
      <3>3. Job.at + JobPacket \in Nat /\ Job.bytes - JobPacket \in Nat
        BY ONLY <3>1, <3>2
      <3>4. QED
        BY ONLY <3>1, <3>3 DEF Jobs
    <2>2. jobs' = [jobs EXCEPT ![1] = rest]
      BY <1>2, <1>3
    <2>3. 1 \in 1..n /\ \A m \in 2..n : m \in 1..n /\ m # 1
      BY <1>3
    <2> HIDE DEF rest
    <2>4. jobs \in Seq(Jobs)
      BY DEF JobInv
    <2>5. QED
      BY ONLY <2>1, <2>2, <2>3, <2>4, ExceptSeq
  <1>6. rest.buf = Job.buf /\ rest.at = Job.at + JobPacket /\ rest.bytes = Job.bytes - JobPacket
    BY <1>3 DEF Jobs
  <1>7. /\ c \in Nat /\ f \in Nat /\ f + 1 <= c /\ cut[2] \in Nat /\ c \in 0..Len(packets)
        /\ Start[f] \in Nat /\ Start[cut[2]] \in Nat
        /\ Job.at \in Nat /\ Job.bytes \in Nat
    <2>1. c \in Nat /\ c \in 0..Len(packets) /\ Len(packets) \in Nat
      BY HandledType
    <2>2. f \in 0..Len(packets) /\ cut[2] \in 0..Len(packets) /\ f + 1 <= c /\ cut[2] \in Nat
      BY <1>3, <2>1
    <2>3. Start[f] \in Nat /\ Start[cut[2]] \in Nat
      BY <2>2, StreamGrows DEF Grows, RInv, RTypes
    <2>4. QED
      BY <1>3, <2>1, <2>2, <2>3 DEF Jobs
  <1>8. \A i \in 0..Job.bytes - 1 : Job.buf[Job.at + i] = Start[f] + i + 1
    <2>1. 1 \in 1..n /\ 1 + 1 = 2
      BY <1>3
    <2>2. QED
      BY <1>1, <1>3, <2>1 DEF Cut
  <1>9. \A i \in 1..JobPacket : packet[i] = Start[f] + i /\ packet[i] \in Nat
    <2>1. ASSUME NEW i \in 1..JobPacket
          PROVE  /\ Job.buf[Job.at + i - 1] = Start[f] + i
                 /\ Job.buf[Job.at + i - 1] \in Nat
      <3>1. i - 1 \in 0..Job.bytes - 1 /\ Job.at + (i - 1) = Job.at + i - 1
        BY <1>3, <1>7
      <3>2. Job.buf[Job.at + (i - 1)] = Start[f] + (i - 1) + 1
        BY ONLY <1>8, <3>1
      <3>3. QED
        BY ONLY <1>7, <3>1, <3>2
    <2>2. QED
      BY <2>1
  <1>10. told \in Seq(Seq(Nat)) /\ Len(told) = f /\ \A k \in 1..f : told[k] = delivered[k]
    BY <1>1 DEF JobInv, Cut
  <1>11. packet = delivered[f + 1] /\ packet \in Seq(Nat)
    <2>1. f + 1 \in 1..c /\ (f + 1) - 1 = f
      BY <1>7
    <2>2. delivered[f + 1] = [i \in 1..packets[f + 1] |-> Start[(f + 1) - 1] + i]
      BY <2>1 DEF RInv, InOrder
    <2>3. packet = [i \in 1..JobPacket |-> Start[f] + i]
      BY <1>9
    <2>4. packet = delivered[f + 1]
      BY <1>3, <2>1, <2>2, <2>3
    <2>5. delivered[f + 1] \in Seq(Nat)
      BY <2>1 DEF RInv, RTypes
    <2>6. QED
      BY <2>4, <2>5
  <1> HIDE DEF packet
  <1>12. /\ told' \in Seq(Seq(Nat)) /\ Len(told') = f + 1
         /\ \A k \in 1..f + 1 : told'[k] = delivered[k]
    <2>1. /\ told' \in Seq(Seq(Nat)) /\ Len(told') = f + 1 /\ told'[f + 1] = packet
          /\ \A k \in 1..f : told'[k] = told[k]
      <3>1. told' = Append(told, packet)
        BY <1>2
      <3>2. told \in Seq(Seq(Nat)) /\ Len(told) = f /\ packet \in Seq(Nat)
        BY <1>10, <1>11
      <3>3. QED
        BY ONLY <3>1, <3>2
    <2>2. \A k \in 1..f + 1 : k = f + 1 \/ k \in 1..f
      BY <1>7
    <2>3. QED
      BY ONLY <1>10, <1>11, <2>1, <2>2
  <1>13. PICK fewer : fewer = [cut EXCEPT ![1] = f + 1]
    OBVIOUS
  <1>14. /\ fewer \in [1..n + 1 -> 0..c] /\ fewer[1] = f + 1
         /\ \A m \in 2..n + 1 : fewer[m] = cut[m]
    <2>1. f + 1 \in 0..c /\ 1 \in 1..n + 1 /\ \A m \in 2..n + 1 : m \in 1..n + 1 /\ m # 1
      <3>1. n \in Nat /\ f \in Nat /\ c \in Nat /\ f + 1 <= c
        BY <1>3, <1>7
      <3>2. QED
        BY ONLY <3>1
    <2>2. cut \in [1..n + 1 -> 0..c]
      BY <1>1 DEF Cut
    <2>3. QED
      BY ONLY <1>13, <2>1, <2>2
  <1>15. fewer[n + 1] = cut[n + 1]
    BY <1>3, <1>14
  <1>16. ASSUME NEW m \in 1..n
         PROVE  /\ fewer[m] <= fewer[m + 1]
                /\ jobs'[m].bytes = Start[fewer[m + 1]] - Start[fewer[m]]
                /\ \A i \in 0..jobs'[m].bytes - 1 :
                      jobs'[m].buf[jobs'[m].at + i] = Start[fewer[m]] + i + 1
    <2>1. CASE m = 1
      <3>1. fewer[m] = f + 1 /\ fewer[m + 1] = cut[2] /\ jobs'[m] = rest
        BY <1>3, <1>5, <1>14, <2>1
      <3>2. f + 1 <= cut[2]
        <4>1. f \in Nat /\ cut[2] \in Nat /\ f < cut[2]
          BY <1>3, <1>7
        <4>2. QED
          BY ONLY <4>1
      <3>n. /\ Job.bytes = Start[cut[2]] - Start[f] /\ Start[f + 1] = Start[f] + JobPacket
            /\ Start[f] \in Nat /\ Start[cut[2]] \in Nat /\ JobPacket \in Nat
            /\ JobPacket <= Job.bytes /\ Job.at \in Nat /\ Job.bytes \in Nat
        BY ONLY <1>3, <1>7
      <3>3. rest.bytes = Start[cut[2]] - Start[f + 1]
        BY ONLY <1>6, <3>n
      <3>4. ASSUME NEW i \in 0..rest.bytes - 1
            PROVE  rest.buf[rest.at + i] = Start[f + 1] + i + 1
        <4> HIDE DEF rest
        <4>i. i \in Int /\ 0 <= i /\ i <= rest.bytes - 1
          BY <1>6, <3>n
        <4>a. rest.at = Job.at + JobPacket /\ rest.bytes = Job.bytes - JobPacket
          BY <1>6
        <4>1. JobPacket + i \in 0..Job.bytes - 1 /\ Job.at + (JobPacket + i) = rest.at + i
          BY ONLY <3>n, <4>i, <4>a, SMTT(30)
        <4>2. Job.buf[Job.at + (JobPacket + i)] = Start[f] + (JobPacket + i) + 1
          BY ONLY <1>8, <4>1
        <4>3. Start[f] + (JobPacket + i) + 1 = Start[f + 1] + i + 1
          BY ONLY <3>n, <4>i
        <4>4. QED
          BY ONLY <1>6, <4>1, <4>2, <4>3
      <3> HIDE DEF rest
      <3>5. QED
        BY ONLY <3>1, <3>2, <3>3, <3>4
    <2>2. CASE m # 1
      <3>1. m \in 2..n /\ m \in 2..n + 1 /\ m + 1 \in 2..n + 1
        BY <1>3, <2>2
      <3>2. fewer[m] = cut[m] /\ fewer[m + 1] = cut[m + 1] /\ jobs'[m] = jobs[m]
        BY <1>5, <1>14, <3>1
      <3>3. QED
        BY <1>1, <3>2 DEF Cut
    <2>3. QED
      BY <2>1, <2>2
  <1>17. Cut(fewer)'
    <2>1. /\ state \in {"posted", "rearm"} => fewer[n + 1] = c
          /\ state = "handling" => Start[fewer[n + 1]] = Handled - begin
      BY <1>1, <1>15 DEF Cut
    <2>2. QED
      BY ONLY <1>4, <1>5, <1>12, <1>14, <1>16, <2>1 DEF Cut
  <1>18. QED
    BY <1>2, <1>4, <1>5, <1>12, <1>17 DEF JobInv

\* A job that ends has no bytes to go, and so no packet.
LEMMA JobEndsKeepsCut ==
  ASSUME RInv, JobInv, single, JobEnds
  PROVE  JobInv'
  <1>1. PICK cut : Cut(cut)
    BY DEF JobInv
  <1> DEFINE n == Len(jobs)
             c == Len(delivered)
  <1>2. /\ jobs # <<>> /\ (Job.bytes # 0 => ~Whole) /\ jobs' = Tail(jobs)
        /\ UNCHANGED <<packets, delivered, state, begin, told, single>>
        /\ Start' = Start /\ Handled' = Handled
    BY SameStream DEF JobEnds, vars, recvVars, loopVars, peerVars
  <1>3. n \in Nat /\ n > 0 /\ cut[1] = cut[2]
    BY <1>1, <1>2, FrontJob
  <1>4. /\ jobs' \in Seq(Jobs) /\ Len(jobs') = n - 1
        /\ \A m \in 1..n - 1 : jobs'[m] = jobs[m + 1]
    BY <1>2 DEF JobInv
  <1>5. PICK fewer : fewer = [m \in 1..n |-> cut[m + 1]]
    OBVIOUS
  <1>6. /\ fewer \in [1..n -> 0..c] /\ fewer[1] = cut[1] /\ fewer[n] = cut[n + 1]
        /\ \A m \in 1..n : fewer[m] = cut[m + 1]
    <2>1. cut \in [1..n + 1 -> 0..c]
      BY <1>1 DEF Cut
    <2>2. 1 \in 1..n /\ n \in 1..n /\ 1 + 1 = 2 /\ \A m \in 1..n : m + 1 \in 1..n + 1
      BY <1>3
    <2>3. QED
      BY ONLY <1>3, <1>5, <2>1, <2>2
  <1>7. ASSUME NEW m \in 1..n - 1
        PROVE  /\ fewer[m] <= fewer[m + 1]
               /\ jobs'[m].bytes = Start[fewer[m + 1]] - Start[fewer[m]]
               /\ \A i \in 0..jobs'[m].bytes - 1 :
                     jobs'[m].buf[jobs'[m].at + i] = Start[fewer[m]] + i + 1
    <2>1. m \in 1..n /\ m + 1 \in 1..n
      BY <1>3
    <2>2. fewer[m] = cut[m + 1] /\ fewer[m + 1] = cut[(m + 1) + 1] /\ jobs'[m] = jobs[m + 1]
      BY <1>4, <1>6, <2>1
    <2>3. QED
      BY <1>1, <2>1, <2>2 DEF Cut
  <1>8. Cut(fewer)'
    <2>1. /\ state \in {"posted", "rearm"} => fewer[n] = c
          /\ state = "handling" => Start[fewer[n]] = Handled - begin
          /\ fewer[1] = Len(told)
      BY <1>1, <1>6 DEF Cut
    <2>2. Len(jobs') + 1 = n
      BY <1>3, <1>4
    <2>3. QED
      BY ONLY <1>2, <1>4, <1>6, <1>7, <2>1, <2>2 DEF Cut
  <1>9. single' /\ told' \in Seq(Seq(Nat)) /\ \A k \in 1..Len(told') : told'[k] = delivered'[k]
    BY <1>2 DEF JobInv
  <1>10. QED
    BY ONLY <1>4, <1>8, <1>9 DEF JobInv

LEMMA JobInvInductive ==
  ASSUME RInv, RInv', JobInv, [JobNext]_jobVars
  PROVE  JobInv'
  <1>1. CASE Handling
    <2>1. CASE single /\ (KeepJob \/ LoopEndsJob)
      BY <2>1, HandOverAddsCut
    <2>2. CASE Deliver /\ UNCHANGED <<single, jobs, told>>
      BY <2>2, DeliverKeepsCut
    <2>3. CASE ~single /\ (Keep \/ LoopEnds) /\ UNCHANGED <<single, jobs, told>>
      BY <2>3 DEF JobInv
    <2>4. CASE BadPacket /\ UNCHANGED <<single, jobs, told>>
      BY <2>4, OthersKeepCut DEF BadPacket, LeaveCompleted, peerVars
    <2>5. QED
      BY <1>1, <2>1, <2>2, <2>3, <2>4 DEF Handling, Completed, CompletedJob
  <1>2. CASE JobDelivers \/ JobEnds
    <2>1. CASE single
      BY <1>2, <2>1, JobDeliversKeepsCut, JobEndsKeepsCut
    <2>2. QED
      BY <1>2, <2>1 DEF JobInv, JobDelivers, JobEnds
  <1>3. CASE Peer /\ UNCHANGED <<single, jobs, told>>
    <2>1. UNCHANGED <<begin, state, delivered>>
      BY <1>3 DEF Peer, PeerSend, PeerClose, OtherSession, recvVars, loopVars
    <2>2. packets' = packets \/ \E s \in Sizes : packets' = Append(packets, s)
      BY <1>3 DEF Peer, PeerSend, PeerClose, OtherSession, peerVars
    <2>3. QED
      BY <1>3, <2>1, <2>2, OthersKeepCut
  <1>4. CASE Arrival /\ UNCHANGED <<single, jobs, told>>
    BY <1>4, OthersKeepCut DEF Arrival, Receive, ReceiveNothing, Overrun, recvVars, peerVars
  <1>5. CASE (Recv \/ RecvFails) /\ UNCHANGED <<single, jobs, told>>
    BY <1>5, OthersKeepCut DEF Recv, RecvFails, peerVars
  <1>6. CASE UNCHANGED jobVars
    BY <1>6, OthersKeepCut DEF jobVars, vars, recvVars, loopVars, peerVars
  <1>7. QED
    BY <1>1, <1>2, <1>3, <1>4, <1>5, <1>6 DEF JobNext, Excute

LEMMA JobInvariance == Spec => [](RInv /\ JobInv)
  <1>1. RInv /\ JobInv /\ [JobNext]_jobVars => JobInv'
    BY RInvInductive, JobInvInductive
  <1>2. QED
    BY <1>1, InitJobInv, Invariance, PTL DEF Spec

-----------------------------------------------------------------------------
\* HNetIoRecv cuts the stream into the peer's packets: what _OnMessage (HNetIo.cpp:418)
\* gets is whole and in order, for any packets and however the kernel cuts the stream.
THEOREM PacketsInOrder == Spec => []InOrder
  <1>1. RInv => InOrder
    BY DEF RInv
  <1>2. QED
    BY <1>1, Invariance, PTL

\* Completed reads each header at the first byte of a packet.
THEOREM HeadersAligned == Spec => []Aligned
  <1>1. RInv => Aligned
    BY DEF RInv, RTypes, BufferInv, Have, LoopInv, Aligned, Looping
  <1>2. QED
    BY <1>1, Invariance, PTL

\* A session that waits for bytes has no whole packet it could deliver.
THEOREM NothingWithheld == Spec => []NoneWithheld
  <1>1. RInv => NoneWithheld
    BY DEF RInv, WaitInv, NoneWithheld
  <1>2. QED
    BY <1>1, Invariance, PTL

\* Update (HNet.cpp:285) gives the application what the worker went over, in order and
\* once, although worker and application meet only at the job queue.
THEOREM SingleThreadInOrder == Spec => []JobsInOrder
  <1>1. RInv /\ JobInv => JobsInOrder
    <2> SUFFICES ASSUME RInv, JobInv, single PROVE JobsInOrder
      BY DEF JobsInOrder
    <2>1. PICK cut : Cut(cut)
      BY DEF JobInv
    <2> DEFINE c == Len(delivered)
               t == Len(told)
    <2>2. /\ told \in Seq(Seq(Nat)) /\ delivered \in Seq(Seq(Nat))
          /\ c \in Nat /\ t \in Nat /\ \A k \in 1..t : told[k] = delivered[k]
      BY DEF JobInv, RInv, RTypes
    <2>3. t <= c
      <3>1. Len(jobs) \in Nat
        BY DEF JobInv
      <3>2. 1 \in 1..Len(jobs) + 1
        BY <3>1
      <3>3. t \in 0..c
        BY <2>1, <3>2 DEF Cut
      <3>4. QED
        BY <2>2, <3>3
    <2>4. told = SubSeq(delivered, 1, t)
      <3>1. \A i \in 1..t : delivered[i] \in Seq(Nat)
        BY <2>2, <2>3
      <3>2. /\ SubSeq(delivered, 1, t) \in Seq(Seq(Nat))
            /\ Len(SubSeq(delivered, 1, t)) = IF 1 <= t THEN t - 1 + 1 ELSE 0
            /\ \A i \in 1..t - 1 + 1 : SubSeq(delivered, 1, t)[i] = delivered[1 + i - 1]
        BY <2>2, <3>1, SubSeqProperties
      <3>3. Len(SubSeq(delivered, 1, t)) = t /\ \A i \in 1..t : SubSeq(delivered, 1, t)[i] = told[i]
        BY <2>2, <3>2
      <3>4. QED
        BY <2>2, <3>2, <3>3, SeqEqual
    <2>5. jobs = <<>> /\ state = "posted" => told = delivered
      <3> SUFFICES ASSUME jobs = <<>>, state = "posted" PROVE told = delivered
        OBVIOUS
      <3>1. t = c
        BY <2>1 DEF Cut
      <3>2. QED
        BY <2>2, <3>1, SeqEqual
    <2>6. QED
      BY <2>4, <2>5 DEF JobsInOrder
  <1>2. QED
    BY <1>1, JobInvariance, PTL
====
