-------------------------- MODULE SessionCoreProofs --------------------------
(***************************************************************************)
(* What the proofs about SessionCore rest on: how often a step occurs on a *)
(* stack, how the number changes when a thread takes a step, sums over the *)
(* threads, and which step may lie under which.                            *)
(***************************************************************************)
EXTENDS SessionCore, FiniteSetTheorems, SequenceTheorems, TLAPS

\* The threads are finitely many.
FiniteThreads == IsFiniteSet(Threads)

-----------------------------------------------------------------------------
(***************************************************************************)
(* One stack                                                               *)
(***************************************************************************)
\* How often s has a step of P.
Occurs(P, s) == Cardinality({i \in 1..Len(s) : s[i] \in P})
In(x, P) == IF x \in P THEN 1 ELSE 0
Net(P, h, k, a, b, c) == In(a, P) + In(b, P) + In(c, P) - In(h, P) - In(k, P)

\* The step on top, "bottom" when there is none.
Top(s) == IF s = <<>> THEN "bottom" ELSE Head(s)

\* U[x] are the steps that may lie directly under x; "bottom" is the bottom.
Good(U, s) == /\ s \in Seq(DOMAIN U)
              /\ \A i \in 1..Len(s) : (IF i < Len(s) THEN s[i+1] ELSE "bottom") \in U[s[i]]

\* A number, and none on the empty stack.
LEMMA OccursType ==
    ASSUME NEW P, NEW D, NEW s \in Seq(D)
    PROVE  Occurs(P, s) \in Nat /\ IsFiniteSet({i \in 1..Len(s) : s[i] \in P})
<1>1. IsFiniteSet(1..Len(s))
  BY FS_Interval
<1>2. IsFiniteSet({i \in 1..Len(s) : s[i] \in P})
  BY <1>1, FS_Subset
<1> QED
  BY <1>2, FS_CardinalityType DEF Occurs

LEMMA OccursNone ==
    ASSUME NEW P
    PROVE  Occurs(P, <<>>) = 0
<1>1. {i \in 1..Len(<<>>) : <<>>[i] \in P} = {}
  OBVIOUS
<1> QED
  BY <1>1, FS_EmptySet DEF Occurs

\* A step that is there is counted, and two are counted twice.
LEMMA OccursSome ==
    ASSUME NEW P, NEW D, NEW s \in Seq(D), NEW i \in 1..Len(s), s[i] \in P
    PROVE  /\ Occurs(P, s) >= 1
           /\ \A j \in 1..Len(s) : j # i /\ s[j] \in P => Occurs(P, s) >= 2
<1> DEFINE I == {k \in 1..Len(s) : s[k] \in P}
<1>1. IsFiniteSet(I) /\ Cardinality(I) = Occurs(P, s)
  BY OccursType DEF Occurs
<1>2. IsFiniteSet({i}) /\ Cardinality({i}) = 1 /\ {i} \subseteq I
  BY FS_Singleton
<1>3. Occurs(P, s) >= 1
  BY <1>1, <1>2, FS_Subset
<1>4. ASSUME NEW j \in 1..Len(s), j # i, s[j] \in P
      PROVE  Occurs(P, s) >= 2
  <2> DEFINE one == {i}
             two == one \cup {j}
  <2>1. IsFiniteSet(one) /\ Cardinality(one) = 1 /\ j \notin one
    BY <1>4, FS_Singleton
  <2>2. two \subseteq I
    BY <1>4
  <2> HIDE DEF one
  <2>3. IsFiniteSet(two) /\ Cardinality(two) = Cardinality(one) + 1
    BY <2>1, FS_AddElement
  <2> HIDE DEF two
  <2>4. Cardinality(two) <= Cardinality(I)
    BY <1>1, <2>2, <2>3, FS_Subset
  <2> QED
    BY <1>1, <2>1, <2>3, <2>4
<1> QED
  BY <1>3, <1>4

LEMMA OccursZero ==
    ASSUME NEW P, NEW D, NEW s \in Seq(D)
    PROVE  Occurs(P, s) = 0 <=> \A i \in 1..Len(s) : s[i] \notin P
<1> DEFINE I == {i \in 1..Len(s) : s[i] \in P}
<1>1. IsFiniteSet(I)
  BY OccursType
<1>2. Cardinality(I) = 0 <=> I = {}
  BY <1>1, FS_EmptySet
<1> QED
  BY <1>2 DEF Occurs

\* One more step on top.
LEMMA PushProperties ==
    ASSUME NEW D, NEW s \in Seq(D), NEW a \in D
    PROVE  /\ <<a>> \o s \in Seq(D)
           /\ Len(<<a>> \o s) = Len(s) + 1
           /\ <<a>> \o s # <<>> /\ Head(<<a>> \o s) = a /\ Tail(<<a>> \o s) = s
           /\ (<<a>> \o s)[1] = a
           /\ \A i \in 1..Len(s) : (<<a>> \o s)[i+1] = s[i]
  OBVIOUS

LEMMA TailProperties ==
    ASSUME NEW D, NEW s \in Seq(D), s # <<>>
    PROVE  /\ Head(s) \in D /\ Tail(s) \in Seq(D)
           /\ s = <<Head(s)>> \o Tail(s)
           /\ Len(s) >= 1 /\ Len(Tail(s)) = Len(s) - 1
           /\ s[1] = Head(s)
           /\ \A i \in 1..Len(Tail(s)) : Tail(s)[i] = s[i+1]
  OBVIOUS

LEMMA OccursPush ==
    ASSUME NEW P, NEW D, NEW s \in Seq(D), NEW a \in D
    PROVE  Occurs(P, <<a>> \o s) = Occurs(P, s) + In(a, P)
<1> DEFINE n == <<a>> \o s
           Old == {i \in 1..Len(s) : s[i] \in P}
           Moved == {i + 1 : i \in Old}
           New == {i \in 1..Len(n) : n[i] \in P}
<1>1. /\ n \in Seq(D) /\ Len(n) = Len(s) + 1 /\ n[1] = a
      /\ \A i \in 1..Len(s) : n[i+1] = s[i]
  BY PushProperties
<1>2. IsFiniteSet(Old) /\ Cardinality(Old) = Occurs(P, s) /\ Occurs(P, s) \in Nat
  BY OccursType DEF Occurs
<1>3. IsFiniteSet(Moved) /\ Cardinality(Moved) = Cardinality(Old)
  <2> DEFINE f == [i \in Old |-> i + 1]
  <2>1. f \in Bijection(Old, Moved)
    BY DEF Bijection, Injection, Surjection, IsInjective
  <2> QED
    BY <1>2, <2>1, FS_Bijection DEF ExistsBijection
<1>4. New = Moved \cup (IF a \in P THEN {1} ELSE {})
  <2>1. ASSUME NEW i \in New, i # 1
        PROVE  i \in Moved
    <3>1. i - 1 \in 1..Len(s) /\ n[(i-1)+1] = s[i-1] /\ (i-1)+1 = i
      BY <1>1, <2>1
    <3> QED
      BY <2>1, <3>1
  <2>2. ASSUME NEW i \in Old
        PROVE  i + 1 \in New
    BY <1>1
  <2>3. 1 \in New <=> a \in P
    BY <1>1
  <2> QED
    BY <2>1, <2>2, <2>3
<1>5. 1 \notin Moved
  OBVIOUS
<1>6. Cardinality(New) = Cardinality(Moved) + In(a, P)
  <2>1. CASE a \in P
    <3>1. New = Moved \cup {1}
      BY <1>4, <2>1
    <3>2. Cardinality(Moved \cup {1}) = Cardinality(Moved) + 1
      BY <1>3, <1>5, FS_AddElement
    <3> QED
      BY <2>1, <3>1, <3>2 DEF In
  <2>2. CASE a \notin P
    <3>1. New = Moved
      BY <1>4, <2>2
    <3>2. Cardinality(Moved) \in Nat
      BY <1>2, <1>3
    <3>3. In(a, P) = 0
      BY <2>2 DEF In
    <3> HIDE DEF Moved, New
    <3> QED
      BY <3>1, <3>2, <3>3
  <2> QED
    BY <2>1, <2>2
<1> QED
  BY <1>2, <1>3, <1>6 DEF Occurs

LEMMA OccursTail ==
    ASSUME NEW P, NEW D, NEW s \in Seq(D), s # <<>>
    PROVE  Occurs(P, s) = Occurs(P, Tail(s)) + In(Head(s), P)
<1>1. Head(s) \in D /\ Tail(s) \in Seq(D) /\ s = <<Head(s)>> \o Tail(s)
  BY TailProperties
<1> QED
  BY <1>1, OccursPush

\* A stack is good below its top, and a step may be put on what may lie under it.
LEMMA GoodTail ==
    ASSUME NEW U, NEW s, Good(U, s), s # <<>>
    PROVE  Head(s) \in DOMAIN U /\ Good(U, Tail(s)) /\ Top(Tail(s)) \in U[Head(s)]
<1>0. PICK D : D = DOMAIN U
  OBVIOUS
<1>1. s \in Seq(D) /\ Len(s) \in Nat
  BY <1>0, LenProperties DEF Good
<1>2. /\ Head(s) \in D /\ Tail(s) \in Seq(D) /\ s[1] = Head(s)
      /\ Len(s) >= 1 /\ Len(Tail(s)) = Len(s) - 1
      /\ \A i \in 1..Len(Tail(s)) : Tail(s)[i] = s[i+1]
  BY <1>1, TailProperties
<1>3. ASSUME NEW i \in 1..Len(Tail(s))
      PROVE  (IF i < Len(Tail(s)) THEN Tail(s)[i+1] ELSE "bottom") \in U[Tail(s)[i]]
  <2>1. i + 1 \in 1..Len(s) /\ (i < Len(Tail(s)) <=> i + 1 < Len(s))
    BY <1>1, <1>2
  <2>2. (IF i + 1 < Len(s) THEN s[i+1+1] ELSE "bottom") \in U[s[i+1]]
    BY <2>1 DEF Good
  <2>3. Tail(s)[i] = s[i+1] /\ (i < Len(Tail(s)) => Tail(s)[i+1] = s[i+1+1])
    BY <1>2
  <2> QED
    BY <2>1, <2>2, <2>3
<1>4. Top(Tail(s)) = IF 1 < Len(s) THEN s[1+1] ELSE "bottom"
  <2>1. CASE Tail(s) = <<>>
    <3>1. Len(Tail(s)) = 0 /\ ~(1 < Len(s))
      BY <1>1, <1>2, <2>1, EmptySeq
    <3> QED
      BY <2>1, <3>1 DEF Top
  <2>2. CASE Tail(s) # <<>>
    <3>1. Head(Tail(s)) = Tail(s)[1] /\ Len(Tail(s)) >= 1
      BY <1>2, <2>2, TailProperties
    <3>2. 1 < Len(s) /\ Tail(s)[1] = s[1+1]
      BY <1>1, <1>2, <3>1
    <3> QED
      BY <2>2, <3>1, <3>2 DEF Top
  <2> QED
    BY <2>1, <2>2
<1>5. (IF 1 < Len(s) THEN s[1+1] ELSE "bottom") \in U[s[1]]
  <2>1. 1 \in 1..Len(s)
    BY <1>1, <1>2
  <2> QED
    BY <2>1 DEF Good
<1> QED
  BY <1>0, <1>2, <1>3, <1>4, <1>5 DEF Good

LEMMA GoodPush ==
    ASSUME NEW U, NEW s, Good(U, s), NEW a \in DOMAIN U, Top(s) \in U[a]
    PROVE  Good(U, <<a>> \o s) /\ <<a>> \o s # <<>> /\ Top(<<a>> \o s) = a
<1> DEFINE n == <<a>> \o s
<1>0. PICK D : D = DOMAIN U
  OBVIOUS
<1>1. s \in Seq(D) /\ Len(s) \in Nat /\ a \in D
  BY <1>0, LenProperties DEF Good
<1>2. /\ n \in Seq(D) /\ Len(n) = Len(s) + 1 /\ n # <<>> /\ Head(n) = a /\ n[1] = a
      /\ \A i \in 1..Len(s) : n[i+1] = s[i]
  BY <1>1, PushProperties
<1>3. ASSUME NEW i \in 1..Len(n)
      PROVE  (IF i < Len(n) THEN n[i+1] ELSE "bottom") \in U[n[i]]
  <2>1. CASE i = 1
    <3>1. (IF 1 < Len(n) THEN n[1+1] ELSE "bottom") = Top(s)
      <4>1. CASE s = <<>>
        <5>1. ~(1 < Len(n))
          BY <1>2, <4>1, EmptySeq
        <5> QED
          BY <4>1, <5>1 DEF Top
      <4>2. CASE s # <<>>
        <5>1. Head(s) = s[1] /\ Len(s) >= 1
          BY <1>1, <4>2, TailProperties
        <5>2. n[1+1] = s[1] /\ 1 < Len(n)
          BY <1>1, <1>2, <5>1
        <5> QED
          BY <4>2, <5>1, <5>2 DEF Top
      <4> QED
        BY <4>1, <4>2
    <3> QED
      BY <1>2, <2>1, <3>1
  <2>2. CASE i # 1
    <3>1. i - 1 \in 1..Len(s) /\ n[i-1+1] = s[i-1] /\ i-1+1 = i
      BY <1>1, <1>2, <2>2
    <3>2. (IF i-1 < Len(s) THEN s[i-1+1] ELSE "bottom") \in U[s[i-1]]
      BY <3>1 DEF Good
    <3>3. i < Len(n) => i \in 1..Len(s) /\ n[i+1] = s[i]
      BY <1>1, <1>2, <2>2
    <3>4. i < Len(n) <=> i - 1 < Len(s)
      BY <1>1, <1>2
    <3> QED
      BY <3>1, <3>2, <3>3, <3>4
  <2> QED
    BY <2>1, <2>2
<1> QED
  BY <1>0, <1>2, <1>3 DEF Good, Top

LEMMA GoodEmpty == ASSUME NEW U PROVE Good(U, <<>>) /\ Top(<<>>) = "bottom"
<1>1. <<>> \in Seq(DOMAIN U) /\ Len(<<>>) = 0
  BY EmptySeq
<1> QED
  BY <1>1 DEF Good, Top

\* More may be allowed to lie under a step.
LEMMA GoodMore ==
    ASSUME NEW U, NEW V, NEW s, Good(U, s), DOMAIN V = DOMAIN U, \A x \in DOMAIN U : U[x] \subseteq V[x]
    PROVE  Good(V, s)
<1>1. \A i \in 1..Len(s) : s[i] \in DOMAIN U
  <2>1. PICK D : D = DOMAIN U
    OBVIOUS
  <2>2. s \in Seq(D)
    BY <2>1 DEF Good
  <2> QED
    BY <2>1, <2>2, ElementOfSeq
<1> QED
  BY <1>1 DEF Good

(***************************************************************************)
(* Least elements, from the well-foundedness of < on the naturals          *)
(***************************************************************************)
LEMMA Least ==
    ASSUME NEW T \in SUBSET Nat, T # {}
    PROVE  \E n \in T : \A m \in T : n <= m
<1> DEFINE R == {ss \in Nat \X Nat : ss[1] < ss[2]}
<1>1. IsWellFoundedOn(R, Nat)
  BY ONLY NatLessThanWellFounded DEF OpToRel
<1>2. PICK n \in T : \A m \in T : <<m, n>> \notin R
  <2> HIDE DEF R
  <2> QED
    BY <1>1, WFMin
<1>3. \A m \in T : ~(m < n)
  BY <1>2
<1> QED
  BY <1>3

\* Only steps of F lie under a step of F other than `last', so that there is a `last'
\* under each of them.
Closed(U, F, last) == /\ "bottom" \notin F
                      /\ \A x \in F \cap DOMAIN U : x # last => U[x] \subseteq F

LEMMA LastBelow ==
    ASSUME NEW U, NEW s, Good(U, s), NEW F, NEW last, Closed(U, F, last),
           NEW i \in 1..Len(s), s[i] \in F
    PROVE  \E j \in i..Len(s) : s[j] = last
<1> DEFINE T == {n \in Nat : Len(s) - n \in i..Len(s) /\ s[Len(s) - n] \in F}
<1>a. PICK D : D = DOMAIN U
  OBVIOUS
<1>b. s \in Seq(D)
  BY <1>a DEF Good
<1>0. Len(s) \in Nat /\ i \in Nat /\ \A k \in 1..Len(s) : s[k] \in D
  <2>1. Len(s) \in Nat /\ \A k \in 1..Len(s) : s[k] \in D
    BY <1>b, LenProperties, ElementOfSeq
  <2> QED
    BY ONLY <2>1, i \in 1..Len(s)
<1>1. Len(s) - i \in T
  <2>1. Len(s) - i \in Nat /\ Len(s) - (Len(s) - i) = i
    BY <1>0
  <2> QED
    BY <1>0, <2>1
<1>2. PICK n \in T : \A m \in T : n <= m
  <2> HIDE DEF T
  <2>1. T \subseteq Nat
    BY DEF T
  <2> QED
    BY <1>1, <2>1, Least
<1>3. PICK j \in i..Len(s) : j = Len(s) - n /\ s[j] \in F
  BY <1>2
<1>4. s[j] \in DOMAIN U /\ j \in 1..Len(s)
  BY <1>a, <1>0, <1>3
<1>5. CASE s[j] # last
  <2>1. U[s[j]] \subseteq F
    BY <1>3, <1>4, <1>5 DEF Closed
  <2>2. (IF j < Len(s) THEN s[j+1] ELSE "bottom") \in U[s[j]]
    BY <1>4 DEF Good
  <2>3. j < Len(s) /\ s[j+1] \in F
    BY <2>1, <2>2 DEF Closed
  <2>4. n - 1 \in Nat /\ Len(s) - (n - 1) = j + 1 /\ j + 1 \in i..Len(s)
    BY <1>0, <1>2, <1>3, <2>3
  <2>5. n - 1 \in T
    BY <2>3, <2>4
  <2>6. n <= n - 1
    BY <1>2, <2>5
  <2> QED
    BY <2>4, <2>6
<1> QED
  BY <1>3, <1>5

-----------------------------------------------------------------------------
(***************************************************************************)
(* Sums over the threads, written as in RefTotal                           *)
(***************************************************************************)
Points(f, S) == UNION {{t} \X (1..f[t]) : t \in S}
Total(f) == Cardinality(Points(f, Threads))

LEMMA PointsFinite ==
    ASSUME NEW S, IsFiniteSet(S), NEW f, \A u \in S : f[u] \in Nat
    PROVE  IsFiniteSet(Points(f, S)) /\ Cardinality(Points(f, S)) \in Nat
<1> DEFINE Piece(u) == {u} \X (1..f[u])
<1>1. ASSUME NEW u \in S
      PROVE  IsFiniteSet(Piece(u))
  <2>0. f[u] \in Int
    BY <1>1
  <2>1. IsFiniteSet({u}) /\ IsFiniteSet(1..f[u])
    <3>1. PICK n \in Int : n = f[u]
      BY <2>0
    <3>2. IsFiniteSet(1..n)
      BY FS_Interval
    <3> QED
      BY <3>1, <3>2, FS_Singleton
  <2> QED
    BY <2>1, FS_Product
<1>2. IsFiniteSet({Piece(u) : u \in S})
  <2> DEFINE g == [u \in S |-> Piece(u)]
             P == {Piece(u) : u \in S}
  <2> HIDE DEF Piece
  <2>1. g \in Surjection(S, P)
    BY DEF Surjection
  <2> HIDE DEF g, P
  <2>2. IsFiniteSet(P)
    BY <2>1, FS_Surjection
  <2> QED
    BY <2>2 DEF P
<1>3. IsFiniteSet(UNION {Piece(u) : u \in S})
  BY <1>1, <1>2, FS_UNION
<1> QED
  BY <1>3, FS_CardinalityType DEF Points

LEMMA PieceSize ==
    ASSUME NEW t, NEW n \in Nat
    PROVE  IsFiniteSet({t} \X (1..n)) /\ Cardinality({t} \X (1..n)) = n
<1>1. IsFiniteSet({t}) /\ Cardinality({t}) = 1
  BY FS_Singleton
<1>2. IsFiniteSet(1..n) /\ Cardinality(1..n) = n
  BY FS_Interval
<1>3. IsFiniteSet({t} \X (1..n)) /\ Cardinality({t} \X (1..n)) = Cardinality({t}) * Cardinality(1..n)
  BY <1>1, <1>2, FS_Product
<1> QED
  BY <1>1, <1>2, <1>3

\* One thread's number and the others'.
LEMMA PointsSplit ==
    ASSUME NEW S, IsFiniteSet(S), NEW f, \A u \in S : f[u] \in Nat, NEW t \in S
    PROVE  Cardinality(Points(f, S)) = Cardinality(Points(f, S \ {t})) + f[t]
<1> DEFINE A == Points(f, S \ {t})
           B == {t} \X (1..f[t])
<1>1. IsFiniteSet(A) /\ Cardinality(A) \in Nat
  <2>1. IsFiniteSet(S \ {t})
    BY FS_RemoveElement
  <2> QED
    BY <2>1, PointsFinite
<1>2. IsFiniteSet(B) /\ Cardinality(B) = f[t]
  BY PieceSize
<1>3. Points(f, S) = A \cup B
  <2>1. ASSUME NEW u \in S
        PROVE  ({u} \X (1..f[u])) \subseteq A \cup B
    BY DEF Points
  <2>2. A \subseteq Points(f, S) /\ B \subseteq Points(f, S)
    BY DEF Points
  <2> QED
    BY <2>1, <2>2 DEF Points
<1>4. A \cap B = {}
  BY DEF Points
<1>5. Cardinality(A \cup B) = Cardinality(A) + Cardinality(B) - Cardinality(A \cap B)
  <2> HIDE DEF A, B
  <2> QED
    BY <1>1, <1>2, FS_Union
<1>6. Cardinality(A \cap B) = 0
  BY <1>4, FS_EmptySet
<1> HIDE DEF A, B
<1> QED
  BY <1>1, <1>2, <1>3, <1>5, <1>6 DEF A, B

LEMMA TotalType ==
    ASSUME FiniteThreads, NEW f, \A u \in Threads : f[u] \in Nat
    PROVE  Total(f) \in Nat
  BY PointsFinite DEF Total, FiniteThreads

\* The sum follows the number of the only thread that changes its own.
LEMMA TotalChange ==
    ASSUME FiniteThreads, NEW f, NEW g, \A u \in Threads : f[u] \in Nat /\ g[u] \in Nat,
           NEW t \in Threads, \A u \in Threads : u # t => g[u] = f[u]
    PROVE  Total(g) = Total(f) + g[t] - f[t]
<1>1. Cardinality(Points(f, Threads)) = Cardinality(Points(f, Threads \ {t})) + f[t]
  BY PointsSplit DEF FiniteThreads
<1>2. Cardinality(Points(g, Threads)) = Cardinality(Points(g, Threads \ {t})) + g[t]
  BY PointsSplit DEF FiniteThreads
<1>3. Points(g, Threads \ {t}) = Points(f, Threads \ {t})
  BY DEF Points
<1>4. Cardinality(Points(f, Threads \ {t})) \in Nat
  <2>1. IsFiniteSet(Threads \ {t})
    BY FS_RemoveElement DEF FiniteThreads
  <2> QED
    BY <2>1, PointsFinite
<1> QED
  BY <1>1, <1>2, <1>3, <1>4 DEF Total

LEMMA TotalSame ==
    ASSUME NEW f, NEW g, \A u \in Threads : g[u] = f[u]
    PROVE  Total(g) = Total(f)
<1>1. Points(g, Threads) = Points(f, Threads)
  BY DEF Points
<1> QED
  BY <1>1 DEF Total

\* No thread's number, and no two threads' numbers, are more than the sum.
LEMMA TotalBound ==
    ASSUME FiniteThreads, NEW f, \A u \in Threads : f[u] \in Nat, NEW t \in Threads
    PROVE  /\ f[t] <= Total(f)
           /\ \A u \in Threads : u # t => f[t] + f[u] <= Total(f)
<1> DEFINE R == Threads \ {t}
<1>1. IsFiniteSet(R)
  BY FS_RemoveElement DEF FiniteThreads
<1>2. Total(f) = Cardinality(Points(f, R)) + f[t] /\ Cardinality(Points(f, R)) \in Nat
  BY <1>1, PointsSplit, PointsFinite DEF FiniteThreads, Total
<1>3. ASSUME NEW u \in Threads, u # t
      PROVE  f[t] + f[u] <= Total(f)
  <2>1. IsFiniteSet(R \ {u}) /\ u \in R
    BY <1>1, <1>3, FS_RemoveElement
  <2>2. /\ Cardinality(Points(f, R)) = Cardinality(Points(f, R \ {u})) + f[u]
        /\ Cardinality(Points(f, R \ {u})) \in Nat
    BY <1>1, <2>1, PointsSplit, PointsFinite
  <2> QED
    BY <1>2, <2>2
<1>4. f[t] <= Total(f)
  <2>1. f[t] \in Nat
    OBVIOUS
  <2> QED
    BY <1>2, <2>1
<1> QED
  BY <1>3, <1>4

LEMMA TotalZero ==
    ASSUME NEW f, \A u \in Threads : f[u] = 0
    PROVE  Total(f) = 0
<1>1. Points(f, Threads) = {}
  BY DEF Points
<1> QED
  BY <1>1, FS_EmptySet DEF Total

-----------------------------------------------------------------------------
(***************************************************************************)
(* One step of one thread                                                  *)
(***************************************************************************)
\* The steps h and k are taken off, and a, b and c put in their place; "bottom" is no step.
Off(x, s) == IF x = "bottom" THEN s ELSE Tail(s)
Put(x, s) == IF x = "bottom" THEN s ELSE <<x>> \o s
Under(h, k, s) == Off(k, Off(h, s))
Turned(h, k, a, b, c, s) == Put(a, Put(b, Put(c, Under(h, k, s))))
Opt(D) == D \cup {"bottom"}
OnTop(x, s) == x # "bottom" => s # <<>> /\ Head(s) = x
Has(h, k, s) == OnTop(h, s) /\ OnTop(k, Off(h, s))

Moves(t, h, k, a, b, c) ==
    /\ Has(h, k, stack[t])
    /\ stack' = [stack EXCEPT ![t] = Turned(h, k, a, b, c, stack[t])]

LEMMA InType == ASSUME NEW x, NEW P PROVE In(x, P) \in Nat
<1>1. CASE x \in P
  BY <1>1 DEF In
<1>2. CASE x \notin P
  BY <1>2 DEF In
<1> QED
  BY <1>1, <1>2

LEMMA TopCounts ==
    ASSUME NEW D, NEW s \in Seq(D), s # <<>>, NEW P
    PROVE  /\ Head(s) \in P => Occurs(P, s) >= 1
           /\ Tail(s) # <<>> /\ Head(Tail(s)) \in P => Occurs(P, s) >= 1
<1>0. PICK r : r = Tail(s) /\ r \in Seq(D)
  BY TailProperties
<1>1. Occurs(P, s) = Occurs(P, r) + In(Head(s), P) /\ Occurs(P, r) \in Nat /\ In(Head(s), P) \in Nat
  BY <1>0, OccursTail, OccursType, InType
<1>2. ASSUME Head(s) \in P
      PROVE  Occurs(P, s) >= 1
  <2>1. In(Head(s), P) = 1
    BY <1>2 DEF In
  <2> QED
    BY ONLY <1>1, <2>1
<1>3. ASSUME r # <<>>, Head(r) \in P
      PROVE  Occurs(P, s) >= 1
  <2>1. PICK q : q = Tail(r) /\ q \in Seq(D)
    BY <1>0, <1>3, TailProperties
  <2>2. Occurs(P, r) = Occurs(P, q) + In(Head(r), P) /\ Occurs(P, q) \in Nat
    BY <1>0, <1>3, <2>1, OccursTail, OccursType
  <2>3. In(Head(r), P) = 1
    BY <1>3 DEF In
  <2> QED
    BY ONLY <1>1, <2>2, <2>3
<1> QED
  BY <1>0, <1>2, <1>3

LEMMA OffCounts ==
    ASSUME NEW D, NEW s \in Seq(D), NEW x, OnTop(x, s), NEW P, "bottom" \notin P
    PROVE  /\ Off(x, s) \in Seq(D)
           /\ Occurs(P, s) \in Nat /\ Occurs(P, Off(x, s)) \in Nat
           /\ Occurs(P, Off(x, s)) = Occurs(P, s) - In(x, P)
<1>1. CASE x = "bottom"
  <2>1. Off(x, s) = s /\ In(x, P) = 0
    BY <1>1 DEF Off, In
  <2>2. Occurs(P, s) \in Nat
    BY OccursType
  <2> QED
    BY <2>1, <2>2
<1>2. CASE x # "bottom"
  <2>1. Tail(s) \in Seq(D) /\ Off(x, s) = Tail(s)
    BY <1>2, TailProperties DEF Off, OnTop
  <2>2. Occurs(P, s) = Occurs(P, Tail(s)) + In(x, P)
    BY <1>2, OccursTail DEF OnTop
  <2>3. Occurs(P, s) \in Nat /\ Occurs(P, Tail(s)) \in Nat /\ In(x, P) \in Nat
    BY <2>1, OccursType, InType
  <2>4. Occurs(P, Tail(s)) = Occurs(P, s) - In(x, P)
    BY ONLY <2>2, <2>3
  <2> QED
    BY <2>1, <2>3, <2>4
<1> QED
  BY <1>1, <1>2

LEMMA PutCounts ==
    ASSUME NEW D, NEW s \in Seq(D), NEW x \in Opt(D), NEW P, "bottom" \notin P
    PROVE  /\ Put(x, s) \in Seq(D)
           /\ Occurs(P, s) \in Nat /\ Occurs(P, Put(x, s)) \in Nat
           /\ Occurs(P, Put(x, s)) = Occurs(P, s) + In(x, P)
<1>1. CASE x = "bottom"
  <2>1. Put(x, s) = s /\ In(x, P) = 0
    BY <1>1 DEF Put, In
  <2>2. Occurs(P, s) \in Nat
    BY OccursType
  <2> QED
    BY <2>1, <2>2
<1>2. CASE x # "bottom"
  <2>0. x \in D
    BY <1>2 DEF Opt
  <2>1. x \in D /\ <<x>> \o s \in Seq(D) /\ Put(x, s) = <<x>> \o s
    BY <1>2, <2>0, PushProperties DEF Put
  <2>2. Occurs(P, <<x>> \o s) = Occurs(P, s) + In(x, P)
    BY <2>1, OccursPush
  <2>3. Occurs(P, s) \in Nat /\ Occurs(P, <<x>> \o s) \in Nat
    BY <2>1, OccursType
  <2> QED
    BY <2>1, <2>2, <2>3
<1> QED
  BY <1>1, <1>2

\* The number of steps of P on the stack of the thread that moves.
LEMMA TurnCounts ==
    ASSUME NEW D, NEW s \in Seq(D), NEW h, NEW k, Has(h, k, s),
           NEW a \in Opt(D), NEW b \in Opt(D), NEW c \in Opt(D), NEW P, "bottom" \notin P
    PROVE  /\ Turned(h, k, a, b, c, s) \in Seq(D)
           /\ Occurs(P, s) \in Nat /\ Occurs(P, Turned(h, k, a, b, c, s)) \in Nat
           /\ Occurs(P, Turned(h, k, a, b, c, s))
                = Occurs(P, s) + Net(P, h, k, a, b, c)
           /\ Net(P, h, k, a, b, c) \in Int
<1>0. In(h, P) \in Nat /\ In(k, P) \in Nat /\ In(a, P) \in Nat /\ In(b, P) \in Nat /\ In(c, P) \in Nat
  BY InType
<1>1. PICK s1 : s1 = Off(h, s)
  OBVIOUS
<1>2. /\ s1 \in Seq(D) /\ Occurs(P, s) \in Nat /\ Occurs(P, s1) \in Nat
      /\ Occurs(P, s1) = Occurs(P, s) - In(h, P)
  BY <1>1, OffCounts DEF Has
<1>3. PICK s2 : s2 = Off(k, s1)
  OBVIOUS
<1>4. /\ s2 \in Seq(D) /\ Occurs(P, s2) \in Nat
      /\ Occurs(P, s2) = Occurs(P, s1) - In(k, P)
  BY <1>1, <1>2, <1>3, OffCounts DEF Has
<1>5. Occurs(P, s2) = Occurs(P, s) - In(h, P) - In(k, P)
  BY ONLY <1>0, <1>2, <1>4
<1>6. PICK s3 : s3 = Put(c, s2)
  OBVIOUS
<1>7. s3 \in Seq(D) /\ Occurs(P, s3) \in Nat /\ Occurs(P, s3) = Occurs(P, s2) + In(c, P)
  BY <1>4, <1>6, PutCounts
<1>8. PICK s4 : s4 = Put(b, s3)
  OBVIOUS
<1>9. s4 \in Seq(D) /\ Occurs(P, s4) \in Nat /\ Occurs(P, s4) = Occurs(P, s3) + In(b, P)
  BY <1>7, <1>8, PutCounts
<1>10. Occurs(P, s4) = Occurs(P, s2) + In(b, P) + In(c, P)
  BY ONLY <1>0, <1>4, <1>7, <1>9
<1>11. PICK s5 : s5 = Put(a, s4)
  OBVIOUS
<1>12. s5 \in Seq(D) /\ Occurs(P, s5) \in Nat /\ Occurs(P, s5) = Occurs(P, s4) + In(a, P)
  BY <1>9, <1>11, PutCounts
<1>13. Occurs(P, s5) = Occurs(P, s) - In(h, P) - In(k, P) + In(a, P) + In(b, P) + In(c, P)
  <2>1. /\ Occurs(P, s) \in Nat /\ Occurs(P, s2) \in Nat /\ Occurs(P, s4) \in Nat /\ Occurs(P, s5) \in Nat
        /\ Occurs(P, s5) = Occurs(P, s4) + In(a, P)
    BY <1>2, <1>4, <1>9, <1>12
  <2>2. PICK p, q, r, u, x, y, z, v, w :
          /\ p = Occurs(P, s) /\ q = Occurs(P, s2) /\ r = Occurs(P, s4) /\ u = Occurs(P, s5)
          /\ x = In(h, P) /\ y = In(k, P) /\ z = In(a, P) /\ v = In(b, P) /\ w = In(c, P)
    OBVIOUS
  <2>3. /\ p \in Nat /\ q \in Nat /\ r \in Nat /\ u \in Nat
        /\ x \in Nat /\ y \in Nat /\ z \in Nat /\ v \in Nat /\ w \in Nat
    BY ONLY <1>0, <2>1, <2>2
  <2>4. u = r + z /\ q = p - x - y /\ r = q + v + w
    BY ONLY <1>5, <1>10, <2>1, <2>2
  <2>5. u = p - x - y + z + v + w
    BY ONLY <2>3, <2>4
  <2> QED
    BY ONLY <2>2, <2>5
<1>14. Turned(h, k, a, b, c, s) = s5
  BY <1>1, <1>3, <1>6, <1>8, <1>11 DEF Turned, Under
<1>15. /\ Net(P, h, k, a, b, c) \in Int /\ Occurs(P, s5) = Occurs(P, s) + Net(P, h, k, a, b, c)
  <2>1. Occurs(P, s) \in Nat
    BY <1>2
  <2> QED
    BY ONLY <1>0, <1>13, <2>1 DEF Net
<1> QED
  BY <1>2, <1>12, <1>14, <1>15

\* What lies under a step that is taken off, and what may be put on it.
LEMMA OffGood ==
    ASSUME NEW U, NEW s, Good(U, s), NEW x, OnTop(x, s)
    PROVE  /\ Good(U, Off(x, s))
           /\ x = "bottom" => Top(Off(x, s)) = Top(s)
           /\ x # "bottom" => x \in DOMAIN U /\ Top(Off(x, s)) \in U[x]
  BY GoodTail DEF Off, OnTop

LEMMA PutGood ==
    ASSUME NEW U, NEW s, Good(U, s), NEW x, x # "bottom" => x \in DOMAIN U /\ Top(s) \in U[x]
    PROVE  Good(U, Put(x, s)) /\ Top(Put(x, s)) = (IF x = "bottom" THEN Top(s) ELSE x)
  BY GoodPush DEF Put

Linked(U, a, b, c, y) ==
    /\ c # "bottom" => c \in DOMAIN U /\ y \in U[c]
    /\ b # "bottom" => b \in DOMAIN U /\ (IF c = "bottom" THEN y ELSE c) \in U[b]
    /\ a # "bottom" => a \in DOMAIN U /\ (IF b = "bottom" THEN IF c = "bottom" THEN y ELSE c ELSE b) \in U[a]

LEMMA UnderGood ==
    ASSUME NEW U, NEW s, Good(U, s), NEW h, NEW k, Has(h, k, s)
    PROVE  /\ Good(U, Under(h, k, s))
           /\ h # "bottom" /\ k = "bottom" => h \in DOMAIN U /\ Top(Under(h, k, s)) \in U[h]
           /\ h # "bottom" /\ k # "bottom" => /\ h \in DOMAIN U /\ k \in U[h]
                                  /\ k \in DOMAIN U /\ Top(Under(h, k, s)) \in U[k]
           /\ h = "bottom" /\ k = "bottom" => Under(h, k, s) = s
<1>1. /\ Good(U, Off(h, s))
      /\ h # "bottom" => h \in DOMAIN U /\ Top(Off(h, s)) \in U[h]
  BY OffGood DEF Has
<1>2. PICK r : r = Off(h, s)
  OBVIOUS
<1>3. OnTop(k, r) /\ (k # "bottom" => Top(r) = k)
  BY <1>2 DEF Has, Top, OnTop
<1>4. /\ Good(U, Off(k, r))
      /\ k = "bottom" => Top(Off(k, r)) = Top(r)
      /\ k # "bottom" => k \in DOMAIN U /\ Top(Off(k, r)) \in U[k]
  BY <1>1, <1>2, <1>3, OffGood
<1>5. Under(h, k, s) = Off(k, r)
  BY <1>2 DEF Under
<1>6. h = "bottom" /\ k = "bottom" => Under(h, k, s) = s
  BY DEF Under, Off
<1> QED
  BY <1>1, <1>2, <1>3, <1>4, <1>5, <1>6

LEMMA TurnGood ==
    ASSUME NEW U, NEW s, Good(U, s), NEW h, NEW k, Has(h, k, s), NEW a, NEW b, NEW c,
           Linked(U, a, b, c, Top(Under(h, k, s)))
    PROVE  /\ Good(U, Turned(h, k, a, b, c, s))
           /\ Top(Turned(h, k, a, b, c, s)) =
                 IF a # "bottom" THEN a ELSE IF b # "bottom" THEN b ELSE IF c # "bottom" THEN c
                 ELSE Top(Under(h, k, s))
<1>1. PICK r : r = Under(h, k, s) /\ Good(U, r)
  BY UnderGood
<1>2. Linked(U, a, b, c, Top(r))
  BY <1>1
<1>3. Good(U, Put(c, r)) /\ Top(Put(c, r)) = (IF c = "bottom" THEN Top(r) ELSE c)
  BY <1>1, <1>2, PutGood DEF Linked
<1>4. PICK r1 : r1 = Put(c, r)
  OBVIOUS
<1>5. Good(U, Put(b, r1)) /\ Top(Put(b, r1)) = (IF b = "bottom" THEN Top(r1) ELSE b)
  BY <1>2, <1>3, <1>4, PutGood DEF Linked
<1>6. PICK r2 : r2 = Put(b, r1)
  OBVIOUS
<1>7. Good(U, Put(a, r2)) /\ Top(Put(a, r2)) = (IF a = "bottom" THEN Top(r2) ELSE a)
  BY <1>2, <1>3, <1>4, <1>5, <1>6, PutGood DEF Linked
<1>8. Turned(h, k, a, b, c, s) = Put(a, r2)
  BY <1>1, <1>4, <1>6 DEF Turned
<1> QED
  BY <1>1, <1>3, <1>4, <1>5, <1>6, <1>7, <1>8

\* The number of steps of P that are on the stacks.
Left(P) == Total([t \in Threads |-> Occurs(P, stack[t])])

LEMMA LeftType ==
    ASSUME FiniteThreads, NEW D, stack \in [Threads -> Seq(D)], NEW P
    PROVE  Left(P) \in Nat
<1> DEFINE f == [t \in Threads |-> Occurs(P, stack[t])]
<1>1. \A t \in Threads : f[t] \in Nat
  BY OccursType
<1> HIDE DEF f
<1>2. Total(f) \in Nat
  BY <1>1, TotalType
<1> QED
  BY <1>2 DEF Left, f

LEMMA LeftMoves ==
    ASSUME FiniteThreads, NEW D, stack \in [Threads -> Seq(D)], NEW t \in Threads,
           NEW h, NEW k, NEW a \in Opt(D), NEW b \in Opt(D), NEW c \in Opt(D),
           Moves(t, h, k, a, b, c), NEW P, "bottom" \notin P
    PROVE  /\ Left(P) \in Nat /\ Left(P)' \in Nat
           /\ Left(P)' = Left(P) + Net(P, h, k, a, b, c)
           /\ Net(P, h, k, a, b, c) \in Int
<1> DEFINE f == [u \in Threads |-> Occurs(P, stack[u])]
           n == Turned(h, k, a, b, c, stack[t])
           g == [u \in Threads |-> Occurs(P, stack'[u])]
<1>0. stack[t] \in Seq(D) /\ Has(h, k, stack[t])
  BY DEF Moves
<1>1. /\ n \in Seq(D) /\ Occurs(P, stack[t]) \in Nat /\ Occurs(P, n) \in Nat
      /\ Occurs(P, n) = Occurs(P, stack[t]) + Net(P, h, k, a, b, c)
      /\ Net(P, h, k, a, b, c) \in Int
  BY <1>0, TurnCounts
<1>2. stack' = [stack EXCEPT ![t] = n]
  BY DEF Moves
<1>3. stack'[t] = n /\ \A u \in Threads : u # t => stack'[u] = stack[u]
  BY <1>2
<1> HIDE DEF n
<1>4. f[t] = Occurs(P, stack[t]) /\ g[t] = Occurs(P, n) /\ \A u \in Threads : u # t => g[u] = f[u]
  BY <1>3
<1>5. \A u \in Threads : f[u] \in Nat /\ g[u] \in Nat
  BY <1>1, <1>3, OccursType
<1> HIDE DEF f, g
<1>6. Total(g) = Total(f) + g[t] - f[t]
  BY <1>4, <1>5, TotalChange
<1>7. Total(f) \in Nat /\ Total(g) \in Nat
  BY <1>5, TotalType
<1>8. Left(P) = Total(f) /\ Left(P)' = Total(g)
  BY DEF Left, f, g
<1>9. /\ f[t] \in Nat /\ g[t] \in Nat /\ Net(P, h, k, a, b, c) \in Int
      /\ g[t] = f[t] + Net(P, h, k, a, b, c)
  BY <1>1, <1>4, <1>5
<1>10. Total(g) = Total(f) + Net(P, h, k, a, b, c)
  BY ONLY <1>6, <1>7, <1>9
<1> QED
  BY <1>1, <1>7, <1>8, <1>10

\* The stacks after a step.
LEMMA MovesType ==
    ASSUME NEW D, stack \in [Threads -> Seq(D)], NEW t \in Threads,
           NEW h, NEW k, NEW a \in Opt(D), NEW b \in Opt(D), NEW c \in Opt(D),
           Moves(t, h, k, a, b, c)
    PROVE  /\ stack' \in [Threads -> Seq(D)]
           /\ stack'[t] = Turned(h, k, a, b, c, stack[t])
           /\ \A u \in Threads : u # t => stack'[u] = stack[u]
<1>1. Turned(h, k, a, b, c, stack[t]) \in Seq(D)
  <2>1. stack[t] \in Seq(D) /\ Has(h, k, stack[t])
    BY DEF Moves
  <2> QED
    BY <2>1, TurnCounts, "bottom" \notin {}
<1> QED
  BY <1>1 DEF Moves

\* None is left on any stack, or some is.
LEMMA LeftZero ==
    ASSUME FiniteThreads, NEW D, stack \in [Threads -> Seq(D)], NEW P
    PROVE  Left(P) = 0 <=> \A t \in Threads : Occurs(P, stack[t]) = 0
<1> DEFINE f == [t \in Threads |-> Occurs(P, stack[t])]
<1>1. \A t \in Threads : f[t] \in Nat /\ f[t] = Occurs(P, stack[t])
  BY OccursType
<1> HIDE DEF f
<1>2. ASSUME NEW t \in Threads
      PROVE  f[t] <= Total(f)
  BY <1>1, TotalBound
<1>3. Total(f) \in Nat
  BY <1>1, TotalType
<1>4. (\A t \in Threads : f[t] = 0) => Total(f) = 0
  BY TotalZero
<1>5. Total(f) = 0 => \A t \in Threads : f[t] = 0
  BY <1>1, <1>2, <1>3
<1>6. Left(P) = Total(f)
  BY DEF Left, f
<1> QED
  BY <1>1, <1>4, <1>5, <1>6

LEMMA LeftBound ==
    ASSUME FiniteThreads, NEW D, stack \in [Threads -> Seq(D)], NEW P, NEW t \in Threads
    PROVE  /\ Occurs(P, stack[t]) <= Left(P)
           /\ \A u \in Threads : u # t => Occurs(P, stack[t]) + Occurs(P, stack[u]) <= Left(P)
<1> DEFINE f == [u \in Threads |-> Occurs(P, stack[u])]
<1>1. \A u \in Threads : f[u] \in Nat /\ f[u] = Occurs(P, stack[u])
  BY OccursType
<1> HIDE DEF f
<1>2. f[t] <= Total(f) /\ \A u \in Threads : u # t => f[t] + f[u] <= Total(f)
  BY <1>1, TotalBound
<1>3. Left(P) = Total(f)
  BY DEF Left, f
<1> QED
  BY <1>1, <1>2, <1>3

\* Where every other thread has none, the sum is the one thread's number.
LEMMA TotalOne ==
    ASSUME FiniteThreads, NEW f, \A u \in Threads : f[u] \in Nat,
           NEW t \in Threads, \A u \in Threads : u # t => f[u] = 0
    PROVE  Total(f) = f[t]
<1> DEFINE z == [u \in Threads |-> 0]
<1>1. (\A u \in Threads : z[u] \in Nat /\ z[u] = 0) /\ \A u \in Threads : u # t => f[u] = z[u]
  OBVIOUS
<1> HIDE DEF z
<1>2. Total(f) = Total(z) + f[t] - z[t]
  BY <1>1, TotalChange
<1>3. Total(z) = 0 /\ z[t] = 0 /\ f[t] \in Nat
  BY <1>1, TotalZero
<1> QED
  BY ONLY <1>2, <1>3

LEMMA LeftOne ==
    ASSUME FiniteThreads, NEW D, stack \in [Threads -> Seq(D)], NEW P,
           NEW t \in Threads, \A u \in Threads : u # t => Occurs(P, stack[u]) = 0
    PROVE  Left(P) = Occurs(P, stack[t])
<1> DEFINE f == [u \in Threads |-> Occurs(P, stack[u])]
<1>1. \A u \in Threads : f[u] \in Nat /\ f[u] = Occurs(P, stack[u])
  BY OccursType
<1> HIDE DEF f
<1>2. Total(f) = f[t]
  BY <1>1, TotalOne
<1>3. Left(P) = Total(f)
  BY DEF Left, f
<1> QED
  BY <1>1, <1>2, <1>3

\* A step of P that lies under none is nowhere but on top.
LEMMA TopOnly ==
    ASSUME NEW U, NEW s, Good(U, s), s # <<>>, NEW P, \A y \in DOMAIN U : U[y] \cap P = {}
    PROVE  /\ \A i \in 1..Len(s) : s[i] \in P => i = 1
           /\ Occurs(P, s) = In(Head(s), P)
<1>0. PICK D : D = DOMAIN U
  OBVIOUS
<1>1. s \in Seq(D) /\ Len(s) \in Nat /\ \A i \in 1..Len(s) : s[i] \in D
  BY <1>0, LenProperties, ElementOfSeq DEF Good
<1>2. ASSUME NEW i \in 1..Len(s), i # 1
      PROVE  s[i] \notin P
  <2>1. i - 1 \in 1..Len(s) /\ i - 1 < Len(s) /\ (i - 1) + 1 = i
    BY <1>1, <1>2
  <2>2. s[i] \in U[s[i-1]] /\ s[i-1] \in D
    BY <1>1, <2>1 DEF Good
  <2> QED
    BY <1>0, <2>2
<1>3. /\ Tail(s) \in Seq(D) /\ Len(Tail(s)) = Len(s) - 1
      /\ \A i \in 1..Len(Tail(s)) : Tail(s)[i] = s[i+1]
  BY <1>1, TailProperties
<1>4. \A i \in 1..Len(Tail(s)) : Tail(s)[i] \notin P
  <2>1. ASSUME NEW i \in 1..Len(Tail(s))
        PROVE  i + 1 \in 1..Len(s) /\ i + 1 # 1
    BY <1>1, <1>3
  <2> QED
    BY <1>2, <1>3, <2>1
<1>5. Occurs(P, Tail(s)) = 0
  BY <1>3, <1>4, OccursZero
<1>6. Occurs(P, s) = Occurs(P, Tail(s)) + In(Head(s), P)
  BY <1>1, OccursTail
<1>7. In(Head(s), P) \in Nat
  BY InType
<1> QED
  BY <1>2, <1>5, <1>6, <1>7

(***************************************************************************)
(* Then and ThenSkip as moves                                              *)
(***************************************************************************)
LEMMA ThenNone ==
    ASSUME NEW D, stack \in [Threads -> Seq(D)], NEW t \in Threads,
           NEW x, x # "bottom", At(t, x), Then(t, <<>>)
    PROVE  Moves(t, x, "bottom", "bottom", "bottom", "bottom")
<1>1. Tail(stack[t]) \in Seq(D)
  BY TailProperties DEF At
<1>2. <<>> \o Tail(stack[t]) = Tail(stack[t])
  BY <1>1
<1>3. Turned(x, "bottom", "bottom", "bottom", "bottom", stack[t]) = Tail(stack[t])
  BY DEF Turned, Under, Off, Put
<1> QED
  BY <1>2, <1>3 DEF Moves, Has, OnTop, At, Then

LEMMA ThenOne ==
    ASSUME NEW D, stack \in [Threads -> Seq(D)], NEW t \in Threads,
           NEW x, x # "bottom", At(t, x), NEW a, a # "bottom", Then(t, <<a>>)
    PROVE  Moves(t, x, "bottom", a, "bottom", "bottom")
<1>1. Turned(x, "bottom", a, "bottom", "bottom", stack[t]) = <<a>> \o Tail(stack[t])
  BY DEF Turned, Under, Off, Put
<1> QED
  BY <1>1 DEF Moves, Has, OnTop, At, Then

LEMMA ThenTwo ==
    ASSUME NEW D, stack \in [Threads -> Seq(D)], NEW t \in Threads, NEW x, x # "bottom", At(t, x),
           NEW a \in D, a # "bottom", NEW b \in D, b # "bottom", Then(t, <<a, b>>)
    PROVE  Moves(t, x, "bottom", a, b, "bottom")
<1>1. Tail(stack[t]) \in Seq(D)
  BY TailProperties DEF At
<1>2. <<a, b>> \o Tail(stack[t]) = <<a>> \o (<<b>> \o Tail(stack[t]))
  BY <1>1
<1>3. Turned(x, "bottom", a, b, "bottom", stack[t]) = <<a>> \o (<<b>> \o Tail(stack[t]))
  BY DEF Turned, Under, Off, Put
<1> QED
  BY <1>2, <1>3 DEF Moves, Has, OnTop, At, Then

LEMMA ThenThree ==
    ASSUME NEW D, stack \in [Threads -> Seq(D)], NEW t \in Threads, NEW x, x # "bottom", At(t, x),
           NEW a \in D, a # "bottom", NEW b \in D, b # "bottom", NEW c \in D, c # "bottom",
           Then(t, <<a, b, c>>)
    PROVE  Moves(t, x, "bottom", a, b, c)
<1>1. Tail(stack[t]) \in Seq(D)
  BY TailProperties DEF At
<1>2. <<a, b, c>> \o Tail(stack[t]) = <<a>> \o (<<b>> \o (<<c>> \o Tail(stack[t])))
  BY <1>1
<1>3. Turned(x, "bottom", a, b, c, stack[t]) = <<a>> \o (<<b>> \o (<<c>> \o Tail(stack[t])))
  BY DEF Turned, Under, Off, Put
<1> QED
  BY <1>2, <1>3 DEF Moves, Has, OnTop, At, Then

LEMMA ThenSkipOne ==
    ASSUME NEW D, stack \in [Threads -> Seq(D)], NEW t \in Threads, NEW x, x # "bottom", At(t, x),
           NEW k, k # "bottom", Tail(stack[t]) # <<>>, NEW a, a # "bottom", ThenSkip(t, k, <<a>>)
    PROVE  Moves(t, x, k, a, "bottom", "bottom")
<1>1. Turned(x, k, a, "bottom", "bottom", stack[t]) = <<a>> \o Tail(Tail(stack[t]))
  BY DEF Turned, Under, Off, Put
<1>2. Off(x, stack[t]) = Tail(stack[t])
  BY DEF Off
<1> QED
  BY <1>1, <1>2 DEF Moves, Has, OnTop, At, ThenSkip

\* An idle thread begins something.
LEMMA BeginsOne ==
    ASSUME NEW D, stack \in [Threads -> Seq(D)], NEW t \in Threads, stack[t] = <<>>,
           NEW a \in D, a # "bottom", stack' = [stack EXCEPT ![t] = <<a>>]
    PROVE  Moves(t, "bottom", "bottom", a, "bottom", "bottom")
<1>1. Turned("bottom", "bottom", a, "bottom", "bottom", <<>>) = <<a>>
  <2>1. Turned("bottom", "bottom", a, "bottom", "bottom", <<>>) = <<a>> \o <<>>
    BY DEF Turned, Under, Off, Put
  <2> QED
    BY <2>1
<1> QED
  BY <1>1 DEF Moves, Has, OnTop

LEMMA BeginsTwo ==
    ASSUME NEW D, stack \in [Threads -> Seq(D)], NEW t \in Threads, stack[t] = <<>>,
           NEW a \in D, a # "bottom", NEW b \in D, b # "bottom", stack' = [stack EXCEPT ![t] = <<a, b>>]
    PROVE  Moves(t, "bottom", "bottom", a, b, "bottom")
<1>1. Turned("bottom", "bottom", a, b, "bottom", <<>>) = <<a, b>>
  <2>1. Turned("bottom", "bottom", a, b, "bottom", <<>>) = <<a>> \o (<<b>> \o <<>>)
    BY DEF Turned, Under, Off, Put
  <2> QED
    BY <2>1
<1> QED
  BY <1>1 DEF Moves, Has, OnTop

LEMMA BeginsThree ==
    ASSUME NEW D, stack \in [Threads -> Seq(D)], NEW t \in Threads, stack[t] = <<>>,
           NEW a \in D, a # "bottom", NEW b \in D, b # "bottom", NEW c \in D, c # "bottom",
           stack' = [stack EXCEPT ![t] = <<a, b, c>>]
    PROVE  Moves(t, "bottom", "bottom", a, b, c)
<1>1. Turned("bottom", "bottom", a, b, c, <<>>) = <<a, b, c>>
  <2>1. Turned("bottom", "bottom", a, b, c, <<>>) = <<a>> \o (<<b>> \o (<<c>> \o <<>>))
    BY DEF Turned, Under, Off, Put
  <2> QED
    BY <2>1
<1> QED
  BY <1>1 DEF Moves, Has, OnTop

-----------------------------------------------------------------------------
(***************************************************************************)
(* The numbers of I/O operations                                           *)
(***************************************************************************)
IoType == [Kinds -> [pending : Nat, done : Nat, zero : Nat]]

\* One entry of io.
LEMMA EntryAborted ==
    ASSUME NEW e \in [pending : Nat, done : Nat, zero : Nat], NEW f, f = [e EXCEPT !.pending = 0, !.zero = @ + e.pending]
    PROVE  /\ f \in [pending : Nat, done : Nat, zero : Nat]
           /\ f.pending = 0 /\ f.done = e.done /\ f.zero = e.zero + e.pending
<1>1. PICK p \in Nat, d \in Nat, z \in Nat : e = [pending |-> p, done |-> d, zero |-> z]
  OBVIOUS
<1>2. f = [[pending |-> p, done |-> d, zero |-> z] EXCEPT !.pending = 0, !.zero = @ + p]
  BY <1>1
<1>3. f = [pending |-> 0, done |-> d, zero |-> z + p]
  BY ONLY <1>2
<1> QED
  BY <1>1, <1>3

LEMMA EntryCompletes ==
    ASSUME NEW e \in [pending : Nat, done : Nat, zero : Nat], e.pending > 0, NEW f, NEW r \in {"done", "zero"},
           f = [e EXCEPT !.pending = @ - 1, ![r] = @ + 1]
    PROVE  /\ f \in [pending : Nat, done : Nat, zero : Nat] /\ f.pending = e.pending - 1
           /\ f.done + f.zero = e.done + e.zero + 1
<1>1. PICK p \in Nat, d \in Nat, z \in Nat : e = [pending |-> p, done |-> d, zero |-> z] /\ p > 0
  OBVIOUS
<1>2. CASE r = "done"
  <2>1. f = [[pending |-> p, done |-> d, zero |-> z] EXCEPT !.pending = @ - 1, !["done"] = @ + 1]
    BY <1>1, <1>2
  <2>2. f = [pending |-> p - 1, done |-> d + 1, zero |-> z]
    BY ONLY <2>1
  <2> QED
    BY <1>1, <2>2
<1>3. CASE r = "zero"
  <2>1. f = [[pending |-> p, done |-> d, zero |-> z] EXCEPT !.pending = @ - 1, !["zero"] = @ + 1]
    BY <1>1, <1>3
  <2>2. f = [pending |-> p - 1, done |-> d, zero |-> z + 1]
    BY ONLY <2>1
  <2> QED
    BY <1>1, <2>2
<1> QED
  BY <1>2, <1>3

LEMMA AbortedCounts ==
    ASSUME io \in IoType, NEW ks, io' = Aborted(ks)
    PROVE  io' \in IoType /\ \A x \in Kinds : Count(x)' = Count(x)
<1>1. ASSUME NEW x \in Kinds
      PROVE  io'[x] \in [pending : Nat, done : Nat, zero : Nat] /\ Count(x)' = Count(x)
  <2>1. io[x] \in [pending : Nat, done : Nat, zero : Nat]
    BY DEF IoType
  <2>2. CASE x \in ks
    <3>1. io'[x] = [io[x] EXCEPT !.pending = 0, !.zero = @ + io[x].pending]
      BY <2>2 DEF Aborted
    <3>2. io'[x] \in [pending : Nat, done : Nat, zero : Nat]
      BY <2>1, <3>1, EntryAborted
    <3>3. io'[x].pending = 0 /\ io'[x].done = io[x].done /\ io'[x].zero = io[x].zero + io[x].pending
      BY <2>1, <3>1, EntryAborted
    <3> QED
      BY <2>1, <3>2, <3>3 DEF Count
  <2>3. CASE x \notin ks
    <3>1. io'[x] = io[x]
      BY <2>3 DEF Aborted
    <3> QED
      BY <2>1, <3>1 DEF Count
  <2> QED
    BY <2>2, <2>3
<1>2. io' = [x \in Kinds |-> io'[x]]
  BY DEF Aborted
<1> QED
  BY <1>1, <1>2 DEF IoType

LEMMA PostedCounts ==
    ASSUME io \in IoType, NEW k \in Kinds, io' = Posted(k)
    PROVE  io' \in IoType /\ Count(k)' = Count(k) + 1 /\ \A x \in Kinds : x # k => Count(x)' = Count(x)
<1>1. io[k] \in [pending : Nat, done : Nat, zero : Nat]
  BY DEF IoType
<1>2. io' = [io EXCEPT ![k] = [io[k] EXCEPT !.pending = @ + 1]]
  BY DEF Posted
<1>3. io'[k] = [io[k] EXCEPT !.pending = @ + 1] /\ \A x \in Kinds : x # k => io'[x] = io[x]
  BY <1>2 DEF IoType
<1>4. /\ io'[k] \in [pending : Nat, done : Nat, zero : Nat]
      /\ io'[k].pending = io[k].pending + 1 /\ io'[k].done = io[k].done /\ io'[k].zero = io[k].zero
  BY <1>1, <1>3
<1>5. io' \in IoType
  BY <1>2, <1>4 DEF IoType
<1> QED
  BY <1>1, <1>3, <1>4, <1>5 DEF Count

LEMMA CompletesCounts ==
    ASSUME io \in IoType, NEW k \in Kinds, io[k].pending > 0, NEW r \in {"done", "zero"}, io' = Completes(k, r)
    PROVE  io' \in IoType /\ \A x \in Kinds : Count(x)' = Count(x)
<1>1. io[k] \in [pending : Nat, done : Nat, zero : Nat]
  BY DEF IoType
<1>2. io' = [io EXCEPT ![k] = [io[k] EXCEPT !.pending = @ - 1, ![r] = @ + 1]]
  BY DEF Completes
<1>3. io'[k] = [io[k] EXCEPT !.pending = @ - 1, ![r] = @ + 1] /\ \A x \in Kinds : x # k => io'[x] = io[x]
  BY <1>2 DEF IoType
<1>4. /\ io'[k] \in [pending : Nat, done : Nat, zero : Nat]
      /\ io'[k].pending = io[k].pending - 1
      /\ io'[k].done + io'[k].zero = io[k].done + io[k].zero + 1
  BY <1>1, <1>3, EntryCompletes
<1>5. io' \in IoType
  BY <1>2, <1>4 DEF IoType
<1>6. Count(k)' = Count(k)
  <2>1. /\ io[k].pending \in Nat /\ io[k].done \in Nat /\ io[k].zero \in Nat
        /\ io'[k].pending \in Nat /\ io'[k].done \in Nat /\ io'[k].zero \in Nat
    BY <1>1, <1>4
  <2>2. io'[k].pending + io'[k].done + io'[k].zero = io[k].pending + io[k].done + io[k].zero
    BY <1>4, <2>1
  <2> QED
    BY <2>2 DEF Count
<1> QED
  BY <1>3, <1>5, <1>6 DEF Count

LEMMA TakenCounts ==
    ASSUME io \in IoType, NEW k \in Kinds, NEW r \in {"done", "zero"}, io[k][r] > 0,
           io' = [io EXCEPT ![k][r] = @ - 1]
    PROVE  io' \in IoType /\ Count(k) >= 1 /\ Count(k)' = Count(k) - 1 /\ \A x \in Kinds : x # k => Count(x)' = Count(x)
<1>1. io[k] \in [pending : Nat, done : Nat, zero : Nat]
  BY DEF IoType
<1>2. io' = [io EXCEPT ![k] = [io[k] EXCEPT ![r] = @ - 1]]
  OBVIOUS
<1>3. io'[k] = [io[k] EXCEPT ![r] = @ - 1] /\ \A x \in Kinds : x # k => io'[x] = io[x]
  BY <1>2 DEF IoType
<1>4. /\ io'[k] \in [pending : Nat, done : Nat, zero : Nat] /\ io'[k].pending = io[k].pending
      /\ \/ io[k].done > 0 /\ io'[k].done = io[k].done - 1 /\ io'[k].zero = io[k].zero
         \/ io[k].zero > 0 /\ io'[k].zero = io[k].zero - 1 /\ io'[k].done = io[k].done
  <2>1. CASE r = "done"
    BY <1>1, <1>3, <2>1
  <2>2. CASE r = "zero"
    BY <1>1, <1>3, <2>2
  <2> QED
    BY <2>1, <2>2
<1>5. io' \in IoType
  BY <1>2, <1>4 DEF IoType
<1>6. Count(k) >= 1 /\ Count(k)' = Count(k) - 1
  BY <1>1, <1>4 DEF Count
<1> QED
  BY <1>3, <1>5, <1>6 DEF Count

LEMMA OutstandingType ==
    ASSUME io \in [Kinds -> [pending : Nat, done : Nat, zero : Nat]]
    PROVE  (\A x \in Kinds : Count(x) \in Nat) /\ Outstanding \in Nat
<1>1. \A x \in Kinds : Count(x) \in Nat
  BY DEF Count
<1> QED
  BY <1>1 DEF Outstanding, Kinds

LEMMA SameCounts == io' = io => \A x \in Kinds : Count(x)' = Count(x)
  BY DEF Count
=============================================================================
