--------------------------- MODULE LibraryProofs ---------------------------
(***************************************************************************)
(* Theorems about the modules of the library, for every value of their     *)
(* constants.  A step of MCLibrary is a step of one module and leaves the  *)
(* others alone, so that each invariant is proved from its module's        *)
(* actions and from a step that changes none of its variables.             *)
(***************************************************************************)
EXTENDS MCLibrary, FiniteSetTheorems, SequenceTheorems, WellFoundedInduction, TLAPS

-----------------------------------------------------------------------------
(***************************************************************************)
(* Folds.  FoldLeft is a function that recurs on the sets of indices, from *)
(* the highest one down: that it exists, and its value for each beginning  *)
(* of the sequence, which is all that the properties need.                 *)
(***************************************************************************)
\* Every non-empty set of naturals has a least element.
LEMMA Least ==
    ASSUME NEW T \in SUBSET Nat, T # {}
    PROVE  \E n \in T : \A m \in T : n <= m
<1> DEFINE R == {ss \in Nat \X Nat : ss[1] < ss[2]}
<1>1. IsWellFoundedOn(R, Nat)
  BY ONLY NatLessThanWellFounded DEF OpToRel
<1>2. PICK n \in T : \A m \in T : <<m, n>> \notin R
  <2> HIDE DEF R
  <2> QED
    BY <1>1, WFMin
<1>3. \A m \in T : ~(m < n)
  BY <1>2
<1> QED
  BY <1>3

Highest(s) == CHOOSE x \in s : \A y \in s : x >= y

LEMMA HighestIs ==
    ASSUME NEW n \in Nat, NEW s \in SUBSET (1..n), s # {}
    PROVE  Highest(s) \in s /\ Highest(s) \in 1..n /\ \A y \in s : y <= Highest(s)
<1> DEFINE T == {k \in Nat : \A y \in s : y <= k}
<1>1. n \in T
  OBVIOUS
<1>2. PICK k \in T : \A m \in T : k <= m
  <2> HIDE DEF T
  <2>1. T \in SUBSET Nat
    BY DEF T
  <2> QED
    BY <1>1, <2>1, Least
<1>3. k \in s
  <2> SUFFICES ASSUME k \notin s PROVE FALSE
    OBVIOUS
  <2>1. \A y \in s : y \in 1..n /\ y <= k /\ y # k
    BY <1>2
  <2>2. PICK y \in s : TRUE
    OBVIOUS
  <2>3. k - 1 \in Nat /\ \A z \in s : z <= k - 1
    BY <1>2, <2>1, <2>2
  <2>4. k - 1 \in T
    BY <2>3
  <2> QED
    BY <1>2, <2>4
<1>4. \A y \in s : k >= y
  BY <1>2
<1>5. Highest(s) \in s /\ \A y \in s : Highest(s) >= y
  <2>1. \E x \in s : \A y \in s : x >= y
    BY <1>3, <1>4
  <2> QED
    BY ONLY <2>1 DEF Highest
<1> QED
  BY <1>5

LEMMA HighestBelow ==
    ASSUME NEW k \in Nat \ {0}, NEW s \in SUBSET (1..k), k \in s
    PROVE  Highest(s) = k
<1>1. Highest(s) \in 1..k /\ k <= Highest(s)
  BY HighestIs
<1> QED
  BY <1>1

LEMMA Beginning ==
    ASSUME NEW n \in Nat, NEW j \in 1..n
    PROVE  /\ 1..j \in SUBSET (1..n) /\ 1..j # {} /\ Highest(1..j) = j
           /\ (1..j) \ {j} = 1..(j - 1) /\ 1..(j - 1) \in SUBSET (1..n)
<1>1. 1..j \in SUBSET (1..n) /\ j \in 1..j /\ 1..(j - 1) \in SUBSET (1..n)
  OBVIOUS
<1>2. (1..j) \ {j} = 1..(j - 1)
  OBVIOUS
<1>3. Highest(1..j) = j
  BY <1>1, HighestBelow
<1> QED
  BY <1>1, <1>2, <1>3

\* F[i][v]: what the i-th element makes of v.
Recurs(g, F, b, s) == g[s] = IF s = {} THEN b ELSE F[Highest(s)][g[s \ {Highest(s)}]]

LEMMA FoldExists ==
    ASSUME NEW D, NEW b \in D, NEW n \in Nat, NEW F \in [1..n -> [D -> D]]
    PROVE  \E g \in [SUBSET (1..n) -> D] : \A s \in SUBSET (1..n) : Recurs(g, F, b, s)
<1> DEFINE Has(k) == \E g \in [SUBSET (1..k) -> D] : \A s \in SUBSET (1..k) : Recurs(g, F, b, s)
           T == {k \in 0..n : ~Has(k)}
<1> SUFFICES ASSUME T # {} PROVE FALSE
  <2>1. n \in 0..n
    OBVIOUS
  <2>2. T = {} => Has(n)
    <3> HIDE DEF Has
    <3> QED
      BY <2>1
  <2> QED
    BY <2>2
<1>1. PICK k \in T : \A m \in T : k <= m
  <2>1. T \in SUBSET Nat
    OBVIOUS
  <2> HIDE DEF T
  <2> QED
    BY <2>1, Least
<1>2. k \in 0..n /\ ~Has(k)
  OBVIOUS
<1>3. k # 0
  <2> SUFFICES ASSUME k = 0 PROVE FALSE
    OBVIOUS
  <2>1. 1..0 = {}
    OBVIOUS
  <2>2. PICK g : g = [s \in SUBSET (1..0) |-> b]
    OBVIOUS
  <2>3. g \in [SUBSET (1..0) -> D] /\ \A s \in SUBSET (1..0) : s = {} /\ g[s] = b
    BY <2>1, <2>2
  <2>4. Has(0)
    BY <2>3 DEF Recurs
  <2> QED
    BY <1>2, <2>4
<1>4. k \in Nat \ {0} /\ k \in 1..n /\ k - 1 \in 0..n /\ ~(k <= k - 1)
  BY <1>2, <1>3
<1>5. Has(k - 1)
  BY <1>1, <1>4
<1>6. PICK h \in [SUBSET (1..(k - 1)) -> D] : \A s \in SUBSET (1..(k - 1)) : Recurs(h, F, b, s)
  BY <1>5
<1>7. PICK g : g = [s \in SUBSET (1..k) |-> IF k \in s THEN F[k][h[s \ {k}]] ELSE h[s]]
  OBVIOUS
<1>8. /\ \A s \in SUBSET (1..k) : k \notin s => s \in SUBSET (1..(k - 1))
      /\ \A s \in SUBSET (1..k) : s \ {k} \in SUBSET (1..(k - 1))
      /\ \A s \in SUBSET (1..(k - 1)) : s \in SUBSET (1..k) /\ k \notin s
  BY <1>4
<1>9. F[k] \in [D -> D]
  BY <1>4
<1> HIDE DEF Has, T
<1>10. g \in [SUBSET (1..k) -> D]
  <2>1. \A s \in SUBSET (1..k) : (IF k \in s THEN F[k][h[s \ {k}]] ELSE h[s]) \in D
    BY <1>6, <1>8, <1>9
  <2> QED
    BY <1>7, <2>1
<1>11. \A s \in SUBSET (1..(k - 1)) : g[s] = h[s]
  BY <1>7, <1>8
<1>12. ASSUME NEW s \in SUBSET (1..k)
       PROVE  Recurs(g, F, b, s)
  <2>1. CASE k \in s
    <3>1. Highest(s) = k /\ s # {}
      BY <1>4, <2>1, HighestBelow
    <3>2. g[s] = F[k][h[s \ {k}]]
      BY <1>7, <2>1
    <3>3. g[s \ {k}] = h[s \ {k}]
      BY <1>8, <1>11
    <3> QED
      BY <3>1, <3>2, <3>3 DEF Recurs
  <2>2. CASE k \notin s
    <3>1. s \in SUBSET (1..(k - 1)) /\ g[s] = h[s] /\ Recurs(h, F, b, s)
      BY <1>6, <1>8, <1>11, <2>2
    <3>2. s \ {Highest(s)} \in SUBSET (1..(k - 1))
      BY <3>1
    <3>3. g[s \ {Highest(s)}] = h[s \ {Highest(s)}]
      BY <1>11, <3>2
    <3> QED
      BY <3>1, <3>3 DEF Recurs
  <2> QED
    BY <2>1, <2>2
<1>13. Has(k)
  BY <1>10, <1>12 DEF Has
<1> QED
  BY <1>2, <1>13

\* A value that each element keeps in D is in D, and is determined by the elements.
LEMMA FoldStays ==
    ASSUME NEW D, NEW n \in Nat, NEW p, p[0] \in D,
           \A j \in 1..n : p[j - 1] \in D => p[j] \in D
    PROVE  \A j \in 0..n : p[j] \in D
<1> DEFINE T == {j \in 0..n : p[j] \notin D}
<1> SUFFICES ASSUME T # {} PROVE FALSE
  OBVIOUS
<1>1. T \in SUBSET Nat
  OBVIOUS
<1>2. PICK k \in T : \A m \in T : k <= m
  <2> HIDE DEF T
  <2> QED
    BY <1>1, Least
<1>3. k \in 1..n /\ k - 1 \in 0..n /\ ~(k <= k - 1)
  OBVIOUS
<1>4. p[k - 1] \in D
  BY <1>2, <1>3
<1> QED
  BY <1>3, <1>4

\* Two walks that begin alike and go on alike are the same.
Alike(p, q, n) == p[0] = q[0] /\ \A j \in 1..n : p[j - 1] = q[j - 1] => p[j] = q[j]
Same(p, q, n) == \A j \in 0..n : p[j] = q[j]

LEMMA SameWalk ==
    ASSUME NEW n \in Nat, NEW p, NEW q, Alike(p, q, n)
    PROVE  Same(p, q, n)
<1> DEFINE T == {j \in 0..n : p[j] # q[j]}
<1> SUFFICES ASSUME T # {} PROVE FALSE
  BY DEF Same
<1>1. T \in SUBSET Nat
  OBVIOUS
<1>2. PICK k \in T : \A m \in T : k <= m
  <2> HIDE DEF T
  <2> QED
    BY <1>1, Least
<1>3. k \in 1..n /\ k - 1 \in 0..n /\ ~(k <= k - 1)
  BY DEF Alike
<1>4. p[k - 1] = q[k - 1]
  BY <1>2, <1>3
<1> QED
  BY <1>3, <1>4 DEF Alike

\* A fold that adds: the sums g of weights w exist, and go up from one beginning of
\* the sequence to the next.
Sums(g, w, n) == [s \in SUBSET (1..n) |-> IF s = {} THEN 0
                                          ELSE g[s \ {Highest(s)}] + w[Highest(s)]]

LEMMA SumsExist ==
    ASSUME NEW n \in Nat, NEW w \in [1..n -> Nat]
    PROVE  \E g : g = Sums(g, w, n)
<1> DEFINE F == [j \in 1..n |-> [v \in Nat |-> v + w[j]]]
<1>1. F \in [1..n -> [Nat -> Nat]]
  OBVIOUS
<1>2. PICK g \in [SUBSET (1..n) -> Nat] : \A s \in SUBSET (1..n) : Recurs(g, F, 0, s)
  <2> HIDE DEF F
  <2> QED
    BY <1>1, FoldExists
<1>3. \A s \in SUBSET (1..n) : s # {} => /\ Highest(s) \in 1..n
                                        /\ s \ {Highest(s)} \in SUBSET (1..n)
  BY HighestIs
<1>4. ASSUME NEW s \in SUBSET (1..n)
      PROVE  g[s] = Sums(g, w, n)[s]
  <2>1. CASE s = {}
    BY <1>2, <2>1 DEF Recurs, Sums
  <2>2. CASE s # {}
    <3>1. Highest(s) \in 1..n /\ g[s \ {Highest(s)}] \in Nat
      BY <1>2, <1>3, <2>2
    <3>2. F[Highest(s)][g[s \ {Highest(s)}]] = g[s \ {Highest(s)}] + w[Highest(s)]
      BY <3>1
    <3>3. g[s] = F[Highest(s)][g[s \ {Highest(s)}]]
      BY <1>2, <2>2 DEF Recurs
    <3> QED
      BY <2>2, <3>2, <3>3 DEF Sums
  <2> QED
    BY <2>1, <2>2
<1>5. Sums(g, w, n) = [s \in SUBSET (1..n) |-> Sums(g, w, n)[s]]
  BY DEF Sums
<1>6. g = [s \in SUBSET (1..n) |-> g[s]]
  OBVIOUS
<1> QED
  BY <1>4, <1>5, <1>6

SumsTo(p, it, w, n) == /\ p \in [0..n -> Nat] /\ p[0] = 0 /\ it[1..n] = p[n]
                       /\ \A j \in 1..n : p[j] = p[j - 1] + w[j]

LEMMA SumsWalk ==
    ASSUME NEW n \in Nat, NEW w \in [1..n -> Nat], NEW it, it = Sums(it, w, n)
    PROVE  \E p : SumsTo(p, it, w, n)
<1> DEFINE p == [j \in 0..n |-> it[1..j]]
<1>1. \A s \in SUBSET (1..n) : it[s] = IF s = {} THEN 0
                                       ELSE it[s \ {Highest(s)}] + w[Highest(s)]
  BY DEF Sums
<1>2. p[0] = 0
  <2>1. 1..0 = {} /\ {} \in SUBSET (1..n) /\ 0 \in 0..n
    OBVIOUS
  <2>2. it[{}] = 0
    BY <1>1, <2>1
  <2> QED
    BY <2>1, <2>2
<1>3. ASSUME NEW j \in 1..n
      PROVE  p[j] = p[j - 1] + w[j]
  <2>1. it[1..j] = it[1..(j - 1)] + w[j]
    <3>1. /\ 1..j \in SUBSET (1..n) /\ 1..j # {} /\ Highest(1..j) = j
          /\ (1..j) \ {j} = 1..(j - 1)
      BY Beginning
    <3> QED
      BY <1>1, <3>1
  <2>2. j \in 0..n /\ j - 1 \in 0..n
    OBVIOUS
  <2> QED
    BY <2>1, <2>2
<1>4. p[n] = it[1..n]
  OBVIOUS
<1>5. p = [j \in 0..n |-> p[j]]
  OBVIOUS
<1> HIDE DEF p
<1>6. \A j \in 0..n : p[j] \in Nat
  <2>1. ASSUME NEW j \in 1..n, p[j - 1] \in Nat
        PROVE  p[j] \in Nat
    <3>1. w[j] \in Nat
      OBVIOUS
    <3> QED
      BY <1>3, <2>1, <3>1
  <2>2. p[0] \in Nat
    BY <1>2
  <2> QED
    BY ONLY n \in Nat, <2>1, <2>2, FoldStays
<1>7. p \in [0..n -> Nat]
  BY <1>5, <1>6
<1>8. SumsTo(p, it, w, n)
  BY <1>2, <1>3, <1>4, <1>7 DEF SumsTo
<1> QED
  BY <1>8

\* The sum of one more weight
OneMore(v, w, n) == /\ w \in [1..n -> Nat] /\ v \in [1..(n + 1) -> Nat]
                    /\ \A j \in 1..n : v[j] = w[j]

LEMMA SumsNext ==
    ASSUME NEW n \in Nat, NEW w, NEW v, OneMore(v, w, n),
           NEW it, it = Sums(it, w, n), NEW more, more = Sums(more, v, n + 1)
    PROVE  /\ it[1..n] \in Nat
           /\ more[1..(n + 1)] = it[1..n] + v[n + 1]
<1>1. PICK p : SumsTo(p, it, w, n)
  BY SumsWalk DEF OneMore
<1>2. n + 1 \in Nat
  OBVIOUS
<1>3. PICK q : SumsTo(q, more, v, n + 1)
  BY <1>2, SumsWalk DEF OneMore
<1>4. Same(p, q, n)
  <2>1. ASSUME NEW j \in 1..n, p[j - 1] = q[j - 1]
        PROVE  p[j] = q[j]
    <3>1. j \in 1..(n + 1)
      OBVIOUS
    <3> QED
      BY <1>1, <1>3, <2>1, <3>1 DEF SumsTo, OneMore
  <2>2. p[0] = q[0]
    BY <1>1, <1>3 DEF SumsTo
  <2>3. Alike(p, q, n)
    BY <2>1, <2>2 DEF Alike
  <2> QED
    BY <2>3, SameWalk
<1>5. n \in 0..n /\ n + 1 \in 1..(n + 1) /\ (n + 1) - 1 = n
  OBVIOUS
<1>6. p[n] = q[n] /\ p[n] \in Nat
  BY <1>1, <1>4, <1>5 DEF Same, SumsTo
<1> QED
  BY <1>1, <1>3, <1>5, <1>6 DEF SumsTo

LEMMA Longer ==
    ASSUME NEW X, NEW s \in Seq(X), NEW k \in 1..Len(s)
    PROVE  /\ k - 1 \in 0..Len(s) /\ s[k] \in X
           /\ SubSeq(s, 1, k - 1) \in Seq(X) /\ SubSeq(s, 1, k) \in Seq(X)
           /\ SubSeq(s, 1, k) = Append(SubSeq(s, 1, k - 1), s[k])
<1>1. Len(s) \in Nat /\ k \in Nat /\ k - 1 \in 0..Len(s) /\ k - 1 \in Nat
  BY LenProperties
<1>2. s[k] \in X
  BY ElementOfSeq
<1>3. \A j \in 1..k : s[j] \in X
  BY <1>1, ElementOfSeq
<1>4. SubSeq(s, 1, k) \in Seq(X) /\ Len(SubSeq(s, 1, k)) = k /\ \A i \in 1..k : SubSeq(s, 1, k)[i] = s[i]
  BY <1>1, <1>3
<1>5. /\ SubSeq(s, 1, k - 1) \in Seq(X) /\ Len(SubSeq(s, 1, k - 1)) = k - 1
      /\ \A i \in 1..(k - 1) : SubSeq(s, 1, k - 1)[i] = s[i]
  BY <1>1, <1>3
<1> DEFINE a == SubSeq(s, 1, k - 1)
           b == SubSeq(s, 1, k)
<1> HIDE DEF a, b
<1>6. /\ Append(a, s[k]) \in Seq(X) /\ Len(Append(a, s[k])) = k
      /\ \A i \in 1..k : Append(a, s[k])[i] = s[i]
  BY <1>1, <1>2, <1>5 DEF a
<1>7. b = Append(a, s[k])
  BY <1>1, <1>4, <1>6, SeqEqual DEF b
<1> QED
  BY <1>1, <1>2, <1>4, <1>5, <1>7 DEF a, b

-----------------------------------------------------------------------------
(***************************************************************************)
(* Fsm: inside a state, the current one                                    *)
(***************************************************************************)
FsmInv == /\ cur \in States \cup {0} /\ pre \in [States -> States \cup {0}]
          /\ states \subseteq States /\ transition \in BOOLEAN /\ nested \in BOOLEAN
          /\ fsmPhase = "excute" => cur # 0
          /\ Machine!StatesPaired

LEMMA FsmInit == Machine!Init => FsmInv
  BY LibraryAssumption DEF Machine!Init, FsmInv, Machine!StatesPaired

\* What Change works on: its fields, and what a transition does to them.
Shape(m) == /\ m = [cur |-> m.cur, pre |-> m.pre, transition |-> m.transition, inside |-> m.inside]
            /\ m.cur \in States /\ m.pre \in [States -> States \cup {0}] /\ m.transition \in BOOLEAN
            /\ \A s \in States : m.pre[s] # s
Alone(m) == m.inside = {m.cur}

\* Exit and Enter: the state that was left is still the current one.
LEMMA EnteredShape ==
    ASSUME NEW m, Shape(m), NEW type \in States
    PROVE  LET e == Machine!Entered(m, type)
           IN  /\ Shape(e) /\ e.cur = m.cur /\ e.inside = (m.inside \ {m.cur}) \cup {type}
               /\ m.cur = type \/ Machine!Back(m, type) => e.pre = m.pre
<1> DEFINE e == Machine!Entered(m, type)
<1>1. CASE m.cur = type
  <2>1. e = [cur |-> m.cur, pre |-> m.pre, transition |-> m.transition, inside |-> (m.inside \ {type}) \cup {type}]
    BY <1>1 DEF Shape, Machine!Entered, Machine!Same, Machine!Swap
  <2> QED
    BY <1>1, <2>1 DEF Shape
<1>2. CASE m.cur # type /\ Machine!Back(m, type)
  <2>1. e = [cur |-> m.cur, pre |-> m.pre, transition |-> m.transition, inside |-> (m.inside \ {m.cur}) \cup {type}]
    BY <1>2 DEF Shape, Machine!Entered, Machine!Same, Machine!Swap
  <2> QED
    BY <2>1 DEF Shape
<1>3. CASE m.cur # type /\ ~Machine!Back(m, type)
  <2>1. e = [cur |-> m.cur, pre |-> [m.pre EXCEPT ![type] = m.cur], transition |-> TRUE,
             inside |-> (m.inside \ {m.cur}) \cup {type}]
    BY <1>3 DEF Shape, Machine!Entered, Machine!Same, Machine!Swap, Machine!Remember
  <2> QED
    BY <1>3, <2>1 DEF Shape
<1> QED
  BY <1>1, <1>2, <1>3

\* The assignments to _curState
LEMMA ToPreviousShape ==
    ASSUME NEW e, Shape(e), e.pre[e.cur] # 0
    PROVE  LET d == Machine!ToPrevious(e)
           IN  Shape(d) /\ d.cur = e.pre[e.cur] /\ d.pre = e.pre /\ d.inside = e.inside
<1>1. Machine!ToPrevious(e) = [cur |-> e.pre[e.cur], pre |-> e.pre,
                               transition |-> e.transition, inside |-> e.inside]
  BY DEF Shape, Machine!ToPrevious
<1> QED
  BY <1>1 DEF Shape

LEMMA AssignedShape ==
    ASSUME NEW m, NEW type \in States, NEW e, Shape(e),
           ~Machine!Same(m, type), ~Machine!Back(m, type)
    PROVE  LET d == Machine!Assigned(m, type, e)
           IN  Shape(d) /\ d.cur = type /\ d.pre = e.pre /\ d.inside = e.inside
<1>1. Machine!Assigned(m, type, e) = [cur |-> type, pre |-> e.pre,
                                      transition |-> e.transition, inside |-> e.inside]
  BY DEF Shape, Machine!Assigned
<1> QED
  BY <1>1 DEF Shape

\* Change, when Enter calls nothing
LEMMA ChangedShape ==
    ASSUME NEW m, Shape(m), NEW type \in States
    PROVE  LET c == Machine!Changed(m, type)
           IN  /\ Shape(c) /\ (Alone(m) => Alone(c))
               /\ Machine!Refused(m, type) => c = m
               /\ m.pre[m.cur] # 0 /\ m.pre[m.cur] # type => c.pre[c.cur] # 0
<1>1. PICK e : e = Machine!Entered(m, type)
  OBVIOUS
<1>2. PICK c : c = Machine!Changed(m, type)
  OBVIOUS
<1>3. /\ Shape(e) /\ e.cur = m.cur /\ e.inside = (m.inside \ {m.cur}) \cup {type}
      /\ m.cur = type \/ Machine!Back(m, type) => e.pre = m.pre
  BY <1>1, EnteredShape
<1>4. CASE Machine!Refused(m, type)
  <2>1. c = m
    BY <1>2, <1>4 DEF Machine!Changed
  <2> QED
    BY <1>2, <2>1
<1>5. CASE ~Machine!Refused(m, type) /\ Machine!Same(m, type)
  <2>1. c = e /\ m.cur = type
    BY <1>1, <1>2, <1>5 DEF Machine!Changed, Machine!Assigned, Machine!Same
  <2>2. Alone(m) => Alone(c)
    BY <1>3, <2>1 DEF Alone
  <2> QED
    BY <1>2, <1>3, <1>5, <2>1, <2>2
<1>6. CASE ~Machine!Refused(m, type) /\ ~Machine!Same(m, type) /\ Machine!Back(m, type)
  <2>1. c = Machine!ToPrevious(e) /\ m.pre[m.cur] # 0 /\ m.pre[m.cur] = type
    BY <1>1, <1>2, <1>6 DEF Machine!Changed, Machine!Assigned, Machine!Back
  <2>2. Shape(c) /\ c.cur = type /\ c.inside = e.inside
    BY <1>3, <1>6, <2>1, ToPreviousShape
  <2>3. Alone(m) => Alone(c)
    BY <1>3, <2>2 DEF Alone
  <2> QED
    BY <1>2, <1>6, <2>1, <2>2, <2>3
<1>7. CASE ~Machine!Refused(m, type) /\ ~Machine!Same(m, type) /\ ~Machine!Back(m, type)
  <2>1. c = Machine!Assigned(m, type, e)
    BY <1>1, <1>2, <1>7 DEF Machine!Changed
  <2>2. Shape(c) /\ c.cur = type /\ c.pre = e.pre /\ c.inside = e.inside
    BY <1>3, <1>7, <2>1, AssignedShape
  <2>3. Alone(m) => Alone(c)
    BY <1>3, <2>2 DEF Alone
  <2>4. c.pre[c.cur] = m.cur
    <3>1. e.pre = [m.pre EXCEPT ![type] = m.cur]
      BY <1>1, <1>7 DEF Shape, Machine!Entered, Machine!Swap, Machine!Remember
    <3> QED
      BY <2>2, <3>1 DEF Shape
  <2> QED
    BY <1>2, <1>7, <2>2, <2>3, <2>4, LibraryAssumption DEF Shape
<1> QED
  BY <1>4, <1>5, <1>6, <1>7

\* Change, when Enter calls Change: unless that interferes, it is alone in its state again.
LEMMA ChangedTwiceShape ==
    ASSUME NEW m, Shape(m), NEW type \in States, NEW again \in States \ {type}
    PROVE  LET d == Machine!ChangedTwice(m, type, again)
           IN  Shape(d) /\ (Alone(m) /\ ~Machine!Interferes(m, type, again) => Alone(d))
<1>1. PICK e : e = Machine!Entered(m, type)
  OBVIOUS
<1>2. PICK c : c = Machine!Changed(e, again)
  OBVIOUS
<1>3. PICK d : d = Machine!ChangedTwice(m, type, again)
  OBVIOUS
<1>4. /\ Shape(e) /\ e.cur = m.cur /\ e.inside = (m.inside \ {m.cur}) \cup {type}
      /\ m.cur = type \/ Machine!Back(m, type) => e.pre = m.pre
  BY <1>1, EnteredShape
<1>5. /\ Shape(c) /\ (Alone(e) => Alone(c)) /\ (Machine!Refused(e, again) => c = e)
      /\ e.pre[e.cur] # 0 /\ e.pre[e.cur] # again => c.pre[c.cur] # 0
  BY <1>2, <1>4, ChangedShape
<1>6. CASE Machine!Refused(m, type)
  <2>1. d = m
    BY <1>3, <1>6 DEF Machine!ChangedTwice
  <2> QED
    BY <1>3, <2>1
<1>7. CASE ~Machine!Refused(m, type) /\ Machine!Same(m, type)
  <2>1. d = c /\ m.cur = type
    BY <1>1, <1>2, <1>3, <1>7 DEF Machine!ChangedTwice, Machine!Assigned, Machine!Same
  <2>2. Alone(m) => Alone(e)
    BY <1>4, <2>1 DEF Alone
  <2> QED
    BY <1>3, <1>5, <2>1, <2>2
<1>8. CASE ~Machine!Refused(m, type) /\ ~Machine!Same(m, type) /\ Machine!Back(m, type)
  <2>1. d = Machine!ToPrevious(c) /\ m.pre[m.cur] # 0 /\ m.pre[m.cur] = type
    BY <1>1, <1>2, <1>3, <1>8 DEF Machine!ChangedTwice, Machine!Assigned, Machine!Back
  <2>2. e.pre[e.cur] = type /\ c.pre[c.cur] # 0
    BY <1>4, <1>5, <1>8, <2>1
  <2>3. Shape(d) /\ d.cur = c.pre[c.cur] /\ d.inside = c.inside
    BY <1>5, <2>1, <2>2, ToPreviousShape
  <2>4. Alone(m) /\ Machine!Refused(e, again) => Alone(d)
    BY <1>4, <1>5, <2>2, <2>3 DEF Alone
  <2> QED
    BY <1>1, <1>3, <1>8, <2>3, <2>4 DEF Machine!Interferes
<1>9. CASE ~Machine!Refused(m, type) /\ ~Machine!Same(m, type) /\ ~Machine!Back(m, type)
  <2>1. d = Machine!Assigned(m, type, c)
    BY <1>1, <1>2, <1>3, <1>9 DEF Machine!ChangedTwice
  <2>2. Shape(d) /\ d.cur = type /\ d.inside = c.inside
    BY <1>5, <1>9, <2>1, AssignedShape
  <2>3. Alone(m) /\ Machine!Refused(e, again) => Alone(d)
    BY <1>4, <1>5, <2>2 DEF Alone
  <2> QED
    BY <1>1, <1>3, <1>9, <2>2, <2>3 DEF Machine!Interferes
<1> QED
  BY <1>6, <1>7, <1>8, <1>9

\* From the machine before to the machine after
LEMMA MachineBefore ==
    ASSUME FsmInv, cur # 0
    PROVE  LET m == Machine!Machine
           IN  /\ Shape(m) /\ (~nested => Alone(m))
               /\ m.cur = cur /\ m.pre = pre /\ m.inside = inside
  BY DEF FsmInv, Machine!StatesPaired, Machine!Machine, Shape, Alone

LEMMA MachineAfter ==
    ASSUME FsmInv, NEW d, Shape(d), Machine!Update(d), UNCHANGED states,
           nested' \in BOOLEAN, ~nested' => Alone(d)
    PROVE  FsmInv'
<1>1. cur' = d.cur /\ pre' = d.pre /\ transition' = d.transition /\ inside' = d.inside
  BY DEF Machine!Update
<1>2. cur' \in States /\ cur' # 0
  BY <1>1, LibraryAssumption DEF Shape
<1> QED
  BY <1>1, <1>2 DEF FsmInv, Machine!StatesPaired, Shape, Alone

LEMMA ChangeKeeps == ASSUME FsmInv, NEW type \in States, Machine!Change(type) PROVE FsmInv'
<1>1. PICK m : m = Machine!Machine
  OBVIOUS
<1>2. Shape(m) /\ (~nested => Alone(m)) /\ nested \in BOOLEAN /\ UNCHANGED states
  BY <1>1, MachineBefore DEF Machine!Change, FsmInv
<1>3. CASE Machine!Update(Machine!Changed(m, type)) /\ UNCHANGED nested
  <2>1. Shape(Machine!Changed(m, type)) /\ (Alone(m) => Alone(Machine!Changed(m, type)))
    BY <1>2, ChangedShape
  <2> QED
    BY <1>2, <1>3, <2>1, MachineAfter
<1>4. ASSUME NEW again \in States \ {type}, Machine!Update(Machine!ChangedTwice(m, type, again)),
             nested' = (nested \/ Machine!Interferes(m, type, again))
      PROVE  FsmInv'
  <2>1. PICK d : d = Machine!ChangedTwice(m, type, again)
    OBVIOUS
  <2>2. Shape(d) /\ (Alone(m) /\ ~Machine!Interferes(m, type, again) => Alone(d))
    BY <1>2, <2>1, ChangedTwiceShape
  <2>3. nested' \in BOOLEAN /\ (~nested' => Alone(d))
    BY <1>2, <1>4, <2>2
  <2> QED
    BY <1>2, <1>4, <2>1, <2>2, <2>3, MachineAfter
<1> QED
  BY <1>1, <1>3, <1>4 DEF Machine!Change

LEMMA RevertKeeps == ASSUME FsmInv, Machine!Reverts PROVE FsmInv'
<1>1. CASE pre[cur] = 0
  BY <1>1 DEF Machine!Reverts, FsmInv, Machine!StatesPaired
<1>2. CASE pre[cur] # 0
  <2>1. PICK m : m = Machine!Machine
    OBVIOUS
  <2>2. cur # 0 /\ nested \in BOOLEAN /\ UNCHANGED states
    BY DEF Machine!Reverts, FsmInv
  <2>3. Shape(m) /\ (~nested => Alone(m)) /\ m.cur = cur /\ m.pre = pre
    BY <2>1, <2>2, MachineBefore
  <2>4. PICK e : e = Machine!Reentered(m)
    OBVIOUS
  <2>5. Shape(e) /\ e.cur = cur /\ e.pre = pre /\ e.inside = (m.inside \ {cur}) \cup {pre[cur]}
    <3>1. e = [cur |-> m.cur, pre |-> m.pre, transition |-> TRUE,
               inside |-> (m.inside \ {m.cur}) \cup {m.pre[m.cur]}]
      BY <2>3, <2>4 DEF Shape, Machine!Reentered, Machine!Swap
    <3> QED
      BY <2>3, <3>1 DEF Shape
  <2>6. ASSUME NEW c, Shape(c), c.pre[c.cur] # 0, Machine!Update(Machine!ToPrevious(c)),
               nested' \in BOOLEAN, ~nested' => ~nested /\ c = e
        PROVE  FsmInv'
    <3>1. PICK d : d = Machine!ToPrevious(c)
      OBVIOUS
    <3>2. Shape(d) /\ d.cur = c.pre[c.cur] /\ d.inside = c.inside
      BY <2>6, <3>1, ToPreviousShape
    <3>3. ~nested' => Alone(d)
      BY <2>3, <2>5, <2>6, <3>2 DEF Alone
    <3> QED
      BY <2>2, <2>6, <3>1, <3>2, <3>3, MachineAfter
  <2>7. CASE Machine!Update(Machine!ToPrevious(e)) /\ UNCHANGED nested
    BY <1>2, <2>2, <2>5, <2>6, <2>7
  <2>8. ASSUME NEW again \in States \ {pre[cur]},
               Machine!Update(Machine!ToPrevious(Machine!Changed(e, again))),
               nested' = (nested \/ ~Machine!Refused(e, again))
        PROVE  FsmInv'
    <3>1. PICK c : c = Machine!Changed(e, again)
      OBVIOUS
    <3>2. /\ Shape(c) /\ (Machine!Refused(e, again) => c = e)
          /\ e.pre[e.cur] # 0 /\ e.pre[e.cur] # again => c.pre[c.cur] # 0
      BY <2>5, <3>1, ChangedShape
    <3>3. c.pre[c.cur] # 0
      BY <1>2, <2>5, <2>8, <3>2
    <3>4. nested' \in BOOLEAN /\ (~nested' => ~nested /\ c = e)
      BY <2>2, <2>8, <3>2
    <3> QED
      BY <2>6, <2>8, <3>1, <3>2, <3>3, <3>4
  <2> QED
    BY <1>2, <2>1, <2>4, <2>7, <2>8 DEF Machine!Reverts
<1> QED
  BY <1>1, <1>2

LEMMA FsmKeeps == ASSUME FsmInv, Machine!Next PROVE FsmInv'
<1>1. ASSUME NEW s \in States, NEW d \in BOOLEAN, Machine!Register(s, d)
      PROVE  FsmInv'
  BY <1>1, LibraryAssumption DEF Machine!Register, FsmInv, Machine!StatesPaired
<1>2. ASSUME Machine!UpdateBegins
      PROVE  FsmInv'
  BY <1>2 DEF Machine!UpdateBegins, FsmInv, Machine!StatesPaired
<1>3. ASSUME Machine!Continues
      PROVE  FsmInv'
  BY <1>3 DEF Machine!Continues, FsmInv, Machine!StatesPaired
<1> QED
  BY <1>1, <1>2, <1>3, ChangeKeeps, RevertKeeps DEF Machine!Next

\* Whatever Excute and Enter ask of Change, the machine is inside its current state and no
\* other until an Enter's Change comes before the assignment of _curState; and a revert
\* always leaves the state (Fsm.h).
THEOREM FsmPaired == Spec => []StatesPaired
<1>1. Init => FsmInv
  BY FsmInit DEF Init
<1>2. FsmInv /\ [Next]_vars => FsmInv'
  <2> SUFFICES ASSUME FsmInv, [Next]_vars PROVE FsmInv'
    OBVIOUS
  <2>1. Machine!Next \/ UNCHANGED fsmVars
    BY DEF Next, Only, vars
  <2>2. CASE UNCHANGED fsmVars
    BY <2>2 DEF fsmVars, FsmInv, Machine!StatesPaired
  <2> QED
    BY <2>1, <2>2, FsmKeeps
<1>3. FsmInv => StatesPaired
  BY DEF FsmInv, StatesPaired
<1> QED
  BY <1>1, <1>2, <1>3, PTL DEF Spec

-----------------------------------------------------------------------------
(***************************************************************************)
(* Odbc: parameters and the ring of time stamps                            *)
(***************************************************************************)
\* The slot that is i slots after slot c
Slot(c, i) == IF c + i <= Ring THEN c + i ELSE c + i - Ring

\* The slot of the next time stamp
After(s) == IF s + 1 = Ring THEN 1 ELSE s + 2

Times == {b \in binds : b.slot # 0}

\* As long as they fit, the time stamps lie in consecutive slots, in the order f of the
\* calls, from c on.
InRing(T, n, s) == n <= Ring =>
    \E c \in 1..Ring : \E f \in [T -> 0..(n-1)] :
        /\ \A a, b \in T : f[a] = f[b] => a = b
        /\ \A b \in T : b.slot = Slot(c, f[b])
        /\ After(s) = Slot(c, n)

Bind == [param : Nat, slot : 0..Ring]

OdbcTypes == /\ env \in BOOLEAN /\ dbc \in BOOLEAN /\ stmt \in BOOLEAN /\ connected \in BOOLEAN /\ clean \in BOOLEAN
             /\ marks \in Nat /\ paramCount \in Nat /\ stamps \in 0..(Ring-1) /\ outs \in Int /\ col \in Nat
             /\ binds \subseteq Bind /\ IsFiniteSet(binds)

Bound == /\ marks = paramCount
         /\ stmt => {b.param : b \in binds} = 1..marks
         /\ InRing(Times, Cardinality(Times), stamps)

OdbcInv == /\ OdbcTypes
           /\ ~stmt => binds = {}
           /\ clean => Bound
           /\ outs # -1 => outs = paramCount /\ col = outs
           /\ (stmt => connected) /\ (connected => dbc) /\ (dbc => env)

LEMMA SlotType == ASSUME NEW c \in 1..Ring, NEW i \in 0..Ring PROVE Slot(c, i) \in 1..Ring
  BY LibraryAssumption DEF Slot

LEMMA SlotsApart ==
    ASSUME NEW c \in 1..Ring, NEW i \in 0..(Ring-1), NEW k \in 0..(Ring-1), Slot(c, i) = Slot(c, k)
    PROVE  i = k
  BY LibraryAssumption DEF Slot

LEMMA NextSlot == ASSUME NEW s \in 0..(Ring-1)
                  PROVE  (s + 1) % Ring = (IF s + 1 = Ring THEN 0 ELSE s + 1) /\ (s + 1) % Ring \in 0..(Ring-1)
<1>1. Ring \in Nat \ {0}
  BY LibraryAssumption
<1>2. CASE s + 1 = Ring
  <2>1. Ring % Ring = 0
    BY ONLY <1>1
  <2> QED
    BY <1>1, <1>2, <2>1
<1>3. CASE s + 1 # Ring
  <2>1. PICK x : x = s + 1
    OBVIOUS
  <2>2. x \in 0..(Ring-1)
    BY <1>1, <1>3, <2>1
  <2>3. x % Ring = x
    BY ONLY <1>1, <2>2
  <2> QED
    BY <1>1, <1>3, <2>1, <2>2, <2>3
<1> QED
  BY <1>2, <1>3

LEMMA OdbcInit == Db!Init => OdbcInv
<1> SUFFICES ASSUME Db!Init PROVE OdbcInv
  OBVIOUS
<1>1. IsFiniteSet(binds)
  BY FS_EmptySet DEF Db!Init
<1> QED
  <2>1. OdbcTypes
    <3>1. outs = -1 /\ outs \in Int /\ 0 \in 0..(Ring-1)
      BY LibraryAssumption DEF Db!Init
    <3> QED
      BY <1>1, <3>1 DEF Db!Init, OdbcTypes
  <2>2. ~clean /\ outs = -1 /\ binds = {} /\ ~stmt /\ ~connected /\ ~dbc
    BY DEF Db!Init
  <2> QED
    BY <2>1, <2>2 DEF OdbcInv

\* A parameter is added, in a slot or in none.
LEMMA AddKeeps ==
    ASSUME OdbcInv, NEW slot \in 0..Ring, Db!Add(slot),
           stamps' = IF slot = 0 THEN stamps ELSE (stamps + 1) % Ring, slot # 0 => slot = After(stamps)
    PROVE  OdbcInv'
<1> DEFINE new == [param |-> paramCount + 1, slot |-> slot]
<1>1. /\ marks' = marks + 1 /\ paramCount' = paramCount + 1 /\ outs' = -1 /\ col' = 0
      /\ UNCHANGED <<env, dbc, connected, stmt, clean>>
      /\ binds' = IF stmt THEN binds \cup {new} ELSE binds
  BY DEF Db!Add, Db!Other, Db!handles
<1>2. stamps' \in 0..(Ring-1)
  BY NextSlot DEF OdbcInv, OdbcTypes
<1>3. binds' \subseteq Bind /\ IsFiniteSet(binds')
  <2>1. new \in Bind
    BY DEF OdbcInv, OdbcTypes, Bind
  <2>2. IsFiniteSet(binds \cup {new})
    BY FS_AddElement DEF OdbcInv, OdbcTypes
  <2> QED
    BY <1>1, <2>1, <2>2 DEF OdbcInv, OdbcTypes
<1>4. ASSUME clean, stmt
      PROVE  /\ {b.param : b \in binds'} = 1..marks' /\ new \notin binds
  <2>1. {b.param : b \in binds} = 1..marks /\ paramCount = marks /\ marks \in Nat
    BY <1>4 DEF OdbcInv, OdbcTypes, Bound
  <2>2. {b.param : b \in binds'} = {b.param : b \in binds} \cup {paramCount + 1}
    <3>1. {b.param : b \in binds \cup {new}} = {b.param : b \in binds} \cup {new.param}
      BY ONLY TRUE
    <3> QED
      BY <1>1, <1>4, <3>1
  <2>3. 1..(marks + 1) = (1..marks) \cup {marks + 1}
    BY <2>1
  <2>4. marks + 1 \notin 1..marks
    BY <2>1
  <2>5. new.param = marks + 1
    BY <2>1
  <2> QED
    BY <1>1, <2>1, <2>2, <2>3, <2>4, <2>5
<1>5. ASSUME clean
      PROVE  InRing(Times, Cardinality(Times), stamps)'
  <2>1. InRing(Times, Cardinality(Times), stamps)
    BY <1>5 DEF OdbcInv, Bound
  <2>2. CASE ~stmt
    <3>1. binds' = {}
      BY <1>1, <2>2 DEF OdbcInv
    <3>2. Times' = {} /\ Cardinality(Times)' = 0
      BY <3>1, FS_EmptySet DEF Times
    <3>3. After(stamps') \in 1..Ring /\ After(stamps') = Slot(After(stamps'), 0)
      BY <1>2, LibraryAssumption DEF Slot, After
    <3>4. [b \in {} |-> 0] \in [{} -> 0..(0-1)]
      OBVIOUS
    <3> QED
      BY <3>2, <3>3, <3>4 DEF InRing
  <2>3. CASE stmt /\ slot = 0
    <3>1. Times' = Times
      BY <1>1, <2>3 DEF Times
    <3> QED
      BY <2>1, <2>3, <3>1
  <2>4. CASE stmt /\ slot # 0
    <3>1. Times' = Times \cup {new} /\ new \notin Times
      BY <1>1, <1>4, <1>5, <2>4 DEF Times
    <3>2. IsFiniteSet(Times) /\ Cardinality(Times) \in Nat
      BY FS_Subset, FS_CardinalityType DEF Times, OdbcInv, OdbcTypes
    <3>3. Cardinality(Times)' = Cardinality(Times) + 1
      BY <3>1, <3>2, FS_AddElement
    <3>4. PICK T, n : T = Times /\ n = Cardinality(Times)
      OBVIOUS
    <3>5. ASSUME n + 1 <= Ring
          PROVE  \E c \in 1..Ring : \E f \in [T \cup {new} -> 0..n] :
                    /\ \A a, b \in T \cup {new} : f[a] = f[b] => a = b
                    /\ \A b \in T \cup {new} : b.slot = Slot(c, f[b])
                    /\ After(stamps') = Slot(c, n + 1)
      <4>1. PICK c \in 1..Ring : \E f \in [T -> 0..(n-1)] :
                    /\ \A a, b \in T : f[a] = f[b] => a = b
                    /\ \A b \in T : b.slot = Slot(c, f[b])
                    /\ After(stamps) = Slot(c, n)
        BY <2>1, <3>2, <3>4, <3>5, LibraryAssumption DEF InRing
      <4>2. PICK f \in [T -> 0..(n-1)] :
                    /\ \A a, b \in T : f[a] = f[b] => a = b
                    /\ \A b \in T : b.slot = Slot(c, f[b])
                    /\ After(stamps) = Slot(c, n)
        BY <4>1
      <4> DEFINE g == [b \in T \cup {new} |-> IF b = new THEN n ELSE f[b]]
      <4>3. g \in [T \cup {new} -> 0..n] /\ g[new] = n /\ \A b \in T : g[b] = f[b] /\ f[b] \in 0..(n-1)
        BY <3>1, <3>2, <3>4
      <4>4. \A a, b \in T \cup {new} : g[a] = g[b] => a = b
        BY <3>2, <3>4, <4>2, <4>3
      <4>5. \A b \in T \cup {new} : b.slot = Slot(c, g[b])
        BY <2>4, <4>2, <4>3
      <4>6. After(stamps') = Slot(c, n + 1)
        <5>1. stamps \in 0..(Ring-1) /\ stamps' = IF stamps + 1 = Ring THEN 0 ELSE stamps + 1
          BY <2>4, NextSlot DEF OdbcInv, OdbcTypes
        <5>2. After(stamps) = Slot(c, n) /\ n \in Nat /\ n + 1 <= Ring /\ Ring \in Nat
          BY <3>2, <3>4, <3>5, <4>2, LibraryAssumption
        <5>3. PICK s \in 0..(Ring-1), x \in Int : s = stamps /\ x = stamps'
          BY <5>1, <5>2
        <5>4. x = (IF s + 1 = Ring THEN 0 ELSE s + 1) /\ After(s) = Slot(c, n)
          BY <5>1, <5>2, <5>3
        <5>5. After(x) = Slot(c, n + 1)
          BY ONLY <5>2, <5>3, <5>4, c \in 1..Ring DEF Slot, After
        <5> QED
          BY <5>3, <5>5
      <4> HIDE DEF g
      <4> QED
        BY <4>3, <4>4, <4>5, <4>6
    <3>6. Times' = T \cup {new} /\ Cardinality(Times)' = n + 1 /\ n \in Nat
      BY <3>1, <3>2, <3>3, <3>4
    <3>7. (n + 1) - 1 = n
      BY <3>6
    <3> HIDE DEF new
    <3> QED
      BY <3>5, <3>6, <3>7 DEF InRing
  <2> QED
    BY <2>2, <2>3, <2>4
<1> QED
  BY <1>1, <1>2, <1>3, <1>4, <1>5 DEF OdbcInv, OdbcTypes, Bound

\* A new statement has nothing bound.
LEMMA UnboundKeeps ==
    ASSUME OdbcInv, binds' = {}, outs' = -1, col' = 0, UNCHANGED stamps,
           env' \in BOOLEAN, dbc' \in BOOLEAN, stmt' \in BOOLEAN, connected' \in BOOLEAN, clean' \in BOOLEAN, marks' \in Nat, paramCount' \in Nat,
           clean' => (marks' = paramCount' /\ (stmt' => marks' = 0)),
           (stmt' => connected') /\ (connected' => dbc') /\ (dbc' => env')
    PROVE  OdbcInv'
<1>1. IsFiniteSet(binds') /\ stamps' \in 0..(Ring-1)
  BY FS_EmptySet DEF OdbcInv, OdbcTypes
<1>2. InRing(Times, Cardinality(Times), stamps)'
  <2>2. Times' = {} /\ Cardinality(Times)' = 0
    BY FS_EmptySet DEF Times
  <2>3. After(stamps') \in 1..Ring /\ After(stamps') = Slot(After(stamps'), 0)
    BY <1>1, LibraryAssumption DEF Slot, After
  <2>4. [b \in {} |-> 0] \in [{} -> 0..(0-1)]
    OBVIOUS
  <2> QED
    BY <2>2, <2>3, <2>4 DEF InRing
<1>3. {b.param : b \in binds'} = {} /\ 1..0 = {}
  OBVIOUS
<1> QED
  BY <1>1, <1>2, <1>3 DEF OdbcInv, OdbcTypes, Bound

\* The results of a call are read, or its text is lost.
LEMMA ReadKeeps ==
    ASSUME OdbcInv, clean' = FALSE, UNCHANGED <<env, dbc, connected, stmt, stamps, binds>>,
           marks' \in Nat, paramCount' \in Nat, outs' \in Int, col' \in Nat,
           outs' # -1 => outs' = paramCount' /\ col' = outs'
    PROVE  OdbcInv'
<1>1. OdbcTypes'
  <2>1. IsFiniteSet(binds') /\ binds' \subseteq Bind
    BY DEF OdbcInv, OdbcTypes
  <2>2. env' \in BOOLEAN /\ dbc' \in BOOLEAN /\ stmt' \in BOOLEAN /\ connected' \in BOOLEAN /\ clean' \in BOOLEAN
    BY DEF OdbcInv, OdbcTypes
  <2>3. stamps' \in 0..(Ring-1)
    BY DEF OdbcInv, OdbcTypes
  <2> QED
    BY <2>1, <2>2, <2>3 DEF OdbcTypes
<1>2. (~stmt' => binds' = {}) /\ (stmt' => connected') /\ (connected' => dbc') /\ (dbc' => env')
  BY DEF OdbcInv
<1> QED
  BY <1>1, <1>2 DEF OdbcInv

LEMMA OdbcKeeps == ASSUME OdbcInv, Db!Next PROVE OdbcInv'
<1>1. CASE Db!Disconnect
  BY <1>1, UnboundKeeps DEF Db!Disconnect, Db!Other, OdbcInv, OdbcTypes, Bound
<1>2. CASE Db!Connect
  <2>1. PICK done \in 0..3 : env' = (done >= 1) /\ dbc' = (done >= 2) /\ connected' = (done = 3)
    BY <1>2 DEF Db!Connect
  <2>2. env' \in BOOLEAN /\ dbc' \in BOOLEAN /\ connected' \in BOOLEAN /\ (connected' => dbc') /\ (dbc' => env')
    <3>1. /\ (done >= 1) \in BOOLEAN /\ (done >= 2) \in BOOLEAN /\ (done = 3) \in BOOLEAN
          /\ (done = 3 => done >= 2) /\ (done >= 2 => done >= 1)
      OBVIOUS
    <3> QED
      BY <2>1, <3>1, Zenon
  <2>3. stmt' = FALSE /\ binds' = {} /\ outs' = -1 /\ col' = 0 /\ UNCHANGED <<marks, paramCount, stamps, clean>>
    BY <1>2 DEF Db!Connect, Db!Other
  <2>4. clean \in BOOLEAN /\ marks \in Nat /\ paramCount \in Nat /\ (clean => marks = paramCount)
    BY DEF OdbcInv, OdbcTypes, Bound
  <2> QED
    BY <2>2, <2>3, <2>4, UnboundKeeps
<1>3. CASE Db!SetProcedure
  BY <1>3, UnboundKeeps DEF Db!SetProcedure, Db!Prepare, Db!Count, Db!Other, OdbcInv, OdbcTypes
<1>4. CASE Db!SetProcedureFails
  <2>1. /\ marks' = 0 /\ clean' = FALSE /\ outs' = -1 /\ col' = 0
        /\ UNCHANGED <<env, dbc, connected, stmt, paramCount, stamps, binds>>
    BY <1>4 DEF Db!SetProcedureFails, Db!handles, Db!Other
  <2>2. marks' \in Nat /\ paramCount' \in Nat /\ outs' \in Int /\ col' \in Nat
    BY <2>1 DEF OdbcInv, OdbcTypes
  <2> QED
    BY <2>1, <2>2, ReadKeeps
<1>5. CASE Db!ExecuteQuery
  BY <1>5, UnboundKeeps DEF Db!ExecuteQuery, Db!Prepare, Db!Other, OdbcInv, OdbcTypes
<1>6. CASE Db!Execute \/ Db!NextRecord
  <2>1. outs' = -1 /\ col' = 0 /\ UNCHANGED <<env, dbc, connected, stmt, marks, paramCount, stamps, binds, clean>>
    BY <1>6 DEF Db!Execute, Db!NextRecord, Db!Other, Db!handles, Db!query
  <2> QED
    BY <2>1 DEF OdbcInv, OdbcTypes, Bound, Times
<1>7. CASE Db!In
  BY <1>7, AddKeeps, LibraryAssumption DEF Db!In
<1>8. CASE Db!InTime
  <2>1. stamps' = (stamps + 1) % Ring /\ Db!Add(1 + stamps')
    BY <1>8 DEF Db!InTime
  <2>2. stamps' \in 0..(Ring-1) /\ 1 + stamps' = After(stamps) /\ Ring \in Nat
    BY <2>1, NextSlot, LibraryAssumption DEF OdbcInv, OdbcTypes, After
  <2>3. PICK slot \in 1..Ring : slot = 1 + stamps'
    <3>1. PICK s \in 0..(Ring-1) : s = stamps'
      BY <2>2
    <3>2. 1 + s \in 1..Ring
      BY ONLY <2>2, s \in 0..(Ring-1)
    <3> QED
      BY ONLY <3>1, <3>2
  <2>4. Db!Add(slot)
    BY ONLY <2>1, <2>3
  <2> QED
    BY <2>1, <2>2, <2>3, <2>4, AddKeeps
<1>9. CASE Db!Fetch
  <2>1. /\ stmt /\ paramCount' = 0 /\ clean' = FALSE /\ outs' = 0 /\ col' = 0
        /\ UNCHANGED <<env, dbc, connected, stmt, marks, stamps, binds>>
    BY <1>9 DEF Db!Fetch, Db!handles
  <2>2. marks' \in Nat /\ paramCount' \in Nat /\ outs' \in Int /\ col' \in Nat
    BY <2>1 DEF OdbcInv, OdbcTypes
  <2> QED
    BY <2>1, <2>2, ReadKeeps
<1>10. CASE Db!Out
  <2>1. /\ paramCount' = paramCount + 1 /\ clean' = FALSE /\ col' = paramCount + 1
        /\ outs' = IF outs = -1 THEN -1 ELSE outs + 1
        /\ UNCHANGED <<env, dbc, connected, stmt, marks, stamps, binds>>
    BY <1>10 DEF Db!Out, Db!handles
  <2>2. marks' \in Nat /\ paramCount' \in Nat /\ outs' \in Int /\ col' \in Nat
    BY <2>1 DEF OdbcInv, OdbcTypes
  <2>3. outs' # -1 => outs' = paramCount' /\ col' = outs'
    BY <2>1 DEF OdbcInv
  <2> QED
    BY <2>1, <2>2, <2>3, ReadKeeps
<1> QED
  BY <1>1, <1>2, <1>3, <1>4, <1>5, <1>6, <1>7, <1>8, <1>9, <1>10 DEF Db!Next

\* A procedure gets a parameter for every '?' of its text, and time stamps that share no
\* slot while the ring holds them, whatever is called before (ODBC.cpp).
THEOREM OdbcBound == Spec => []ParamsBound
<1>1. Init => OdbcInv
  BY OdbcInit DEF Init
<1>2. OdbcInv /\ [Next]_vars => OdbcInv'
  <2> SUFFICES ASSUME OdbcInv, [Next]_vars PROVE OdbcInv'
    OBVIOUS
  <2>1. Db!Next \/ UNCHANGED odbcVars
    BY DEF Next, Only, vars
  <2>2. CASE UNCHANGED odbcVars
    BY <2>2 DEF odbcVars, OdbcInv, OdbcTypes, Bound, Times
  <2> QED
    BY <2>1, <2>2, OdbcKeeps
<1>3. OdbcInv => ParamsBound
  <2> SUFFICES ASSUME OdbcInv PROVE Db!ParamsBound
    BY DEF ParamsBound
  <2>1. ASSUME clean, Cardinality(Times) <= Ring, NEW a \in Times, NEW b \in Times, a.slot = b.slot
        PROVE  a = b
    <3>1. IsFiniteSet(Times) /\ Cardinality(Times) \in Nat
      BY FS_Subset, FS_CardinalityType DEF Times, OdbcInv, OdbcTypes
    <3>2. PICK n \in Nat : n = Cardinality(Times)
      BY <3>1
    <3>3. PICK c \in 1..Ring : \E f \in [Times -> 0..(n-1)] :
                    /\ \A x, y \in Times : f[x] = f[y] => x = y
                    /\ \A x \in Times : x.slot = Slot(c, f[x])
                    /\ After(stamps) = Slot(c, n)
      BY <2>1, <3>2 DEF OdbcInv, Bound, InRing
    <3>4. PICK f \in [Times -> 0..(n-1)] :
                    /\ \A x, y \in Times : f[x] = f[y] => x = y
                    /\ \A x \in Times : x.slot = Slot(c, f[x])
      BY <3>3
    <3>5. f[a] \in 0..(Ring-1) /\ f[b] \in 0..(Ring-1)
      BY <2>1, <3>2, LibraryAssumption
    <3>6. f[a] = f[b]
      BY <2>1, <3>4, <3>5, SlotsApart
    <3> QED
      BY <3>4, <3>6
  <2> QED
    BY <2>1 DEF Db!ParamsBound, OdbcInv, Bound, Times, Db!Cardinality, Cardinality
<1> QED
  BY <1>1, <1>2, <1>3, PTL DEF Spec

-----------------------------------------------------------------------------
(***************************************************************************)
(* Serialization: the size of a packet, in arithmetic modulo Word          *)
(***************************************************************************)
LEMMA Quotient ==
    ASSUME NEW W \in Nat \ {0}, NEW x \in Int
    PROVE  x % W \in 0..(W-1) /\ x \div W \in Int /\ x = W * (x \div W) + (x % W)
  OBVIOUS

LEMMA RemainderInside ==
    ASSUME NEW W \in Nat \ {0}, NEW x \in Nat
    PROVE  x % W \in Nat /\ x % W <= x
  OBVIOUS

LEMMA Remainder ==
    ASSUME NEW W \in Nat \ {0}, NEW q \in Int, NEW r \in 0..(W-1), NEW x \in Int, x = W * q + r
    PROVE  x % W = r
  OBVIOUS

\* Numbers that differ by a multiple of W
LEMMA Congruent ==
    ASSUME NEW W \in Nat \ {0}, NEW x \in Int, NEW y \in Int, NEW k \in Int, x = y + W * k
    PROVE  x % W = y % W
<1>1. PICK q, r : q = y \div W /\ r = y % W
  OBVIOUS
<1>2. q \in Int /\ r \in 0..(W-1) /\ y = W * q + r
  BY <1>1, Quotient
<1>3. PICK p \in Int : p = q + k
  BY <1>2
<1>4. W * p = W * q + W * k /\ W * q \in Int /\ W * k \in Int
  BY <1>2, <1>3
<1>5. x = W * p + r
  BY <1>2, <1>4
<1>6. x % W = r
  BY ONLY <1>2, <1>5, Remainder, W \in Nat \ {0}, p \in Int, x \in Int
<1> QED
  BY <1>1, <1>6

LEMMA AddInside ==
    ASSUME NEW W \in Nat \ {0}, NEW x \in Int, NEW y \in Int
    PROVE  /\ ((x % W) + y) % W = (x + y) % W
           /\ (y - (x % W)) % W = (y - x) % W
<1>1. PICK q, r : q = x \div W /\ r = x % W
  OBVIOUS
<1>2. q \in Int /\ r \in Int /\ x = W * q + r
  BY <1>1, Quotient
<1>3. PICK p \in Int : p = -q
  BY <1>2
<1>4. W * p = -(W * q) /\ W * q \in Int
  BY <1>2, <1>3
<1>5. PICK a \in Int, b \in Int, c \in Int, d \in Int : a = r + y /\ b = x + y /\ c = y - r /\ d = y - x
  BY <1>2
<1>6. a = b + W * p /\ c = d + W * q
  BY <1>2, <1>4, <1>5
<1>7. a % W = b % W /\ c % W = d % W
  BY ONLY <1>2, <1>6, Congruent, W \in Nat \ {0}, a \in Int, b \in Int, c \in Int, d \in Int, p \in Int
<1> QED
  BY <1>1, <1>5, <1>7

\* The remainder of a sum or a difference: Rem hides the division from the arithmetic.
Rem(x, W) == x % W

LEMMA RemType == ASSUME NEW W \in Nat \ {0}, NEW x \in Int PROVE Rem(x, W) \in 0..(W-1)
  BY Quotient DEF Rem

LEMMA SumRemainder ==
    ASSUME NEW W \in Nat \ {0}, NEW x \in Int, NEW s \in Int, s = Rem(x, W),
           NEW y \in Int, NEW z \in Int, z = x + y, NEW u \in Int, u = s + y
    PROVE  Rem(u, W) = Rem(z, W)
<1>1. ((x % W) + y) % W = (x + y) % W
  BY ONLY AddInside, W \in Nat \ {0}, x \in Int, y \in Int
<1> QED
  BY ONLY <1>1, s = Rem(x, W), z = x + y, u = s + y, Zenon DEF Rem

LEMMA DifferenceRemainder ==
    ASSUME NEW W \in Nat \ {0}, NEW x \in Int, NEW s \in Int, s = Rem(x, W),
           NEW y \in Int, NEW z \in Int, z = y - x, NEW u \in Int, u = y - s
    PROVE  Rem(u, W) = Rem(z, W)
<1>1. (y - (x % W)) % W = (y - x) % W
  BY ONLY AddInside, W \in Nat \ {0}, x \in Int, y \in Int
<1> QED
  BY ONLY <1>1, s = Rem(x, W), z = y - x, u = y - s, Zenon DEF Rem

PacketInv == /\ in \in Nat /\ try \in Nat /\ base \in 0..(PacketWord-1) /\ size \in 0..(PacketWord-1)
             /\ size = Rem(base + in, PacketWord) \/ phase \notin {"build", "sent"}

LEMMA NoWrap == ASSUME NEW x \in 0..(PacketWord-1) PROVE Rem(x, PacketWord) = x
<1>1. PICK W \in Nat \ {0} : W = PacketWord
  BY LibraryAssumption
<1>2. x \in 0..(W-1)
  BY <1>1
<1>3. x % W = x
  BY ONLY <1>2, W \in Nat \ {0}
<1> QED
  BY <1>1, <1>3 DEF Rem

LEMMA PacketInit == Packet!Init => PacketInv
<1> SUFFICES ASSUME Packet!Init PROVE PacketInv
  OBVIOUS
<1>1. base \in 0..(PacketWord-1) /\ size = base /\ in = 0 /\ try = 0
  BY LibraryAssumption DEF Packet!Init, Packet!NewSizes, Packet!PacketExSize, Packet!WsPacketExSize
<1>2. base + in = base
  BY <1>1, LibraryAssumption
<1>3. size = Rem(base + in, PacketWord)
  BY <1>1, <1>2, NoWrap
<1> QED
  BY <1>1, <1>3 DEF PacketInv

LEMMA RollBackKeeps == ASSUME PacketInv, Packet!RollBack PROVE PacketInv'
<1>1. PICK W \in Nat \ {0} : W = PacketWord
  BY LibraryAssumption
<1>2. PICK i \in Nat, t \in Nat, b \in 0..(W-1), s \in 0..(W-1) : i = in /\ t = try /\ b = base /\ s = size
  BY <1>1 DEF PacketInv
<1>3. PICK d \in Int, l \in Int : d = i - t /\ l = Rem(d, W)
  BY <1>2, RemType
<1>4. l = Packet!Lowered /\ l \in 0..(W-1)
  <2>1. Packet!Lowered = Rem(in - try, PacketWord)
    BY DEF Packet!Lowered, Rem
  <2>2. Packet!Lowered = Rem(d, W)
    BY <1>1, <1>2, <1>3, <2>1
  <2>3. Rem(d, W) \in 0..(W-1)
    BY RemType
  <2> QED
    BY ONLY <1>3, <2>2, <2>3
<1>5. PICK n \in Int : n = IF l > BufferSize THEN t + l ELSE t
  BY <1>2, <1>4
<1>6. Packet!RollBackSize = Rem(n, W)
  <2>1. Packet!RollBackSize = Rem(IF l > BufferSize THEN try + l ELSE try, PacketWord)
    BY <1>4 DEF Packet!RollBackSize, Packet!Wrapped, Rem
  <2>2. (IF l > BufferSize THEN try + l ELSE try) = n
    BY <1>2, <1>5
  <2> QED
    BY <1>1, <2>1, <2>2
<1>7. /\ try' = 0 /\ base' = b /\ phase' = phase /\ in' = IF l > BufferSize THEN 0 ELSE l
      /\ size' = Rem(s - Rem(n, W), W)
  <2>1. /\ try' = 0 /\ base' = base /\ phase' = phase /\ in' = IF Packet!Wrapped THEN 0 ELSE Packet!Lowered
        /\ size' = Rem(size - Packet!RollBackSize, PacketWord)
    BY DEF Packet!RollBack, Rem
  <2>2. Rem(size - Packet!RollBackSize, PacketWord) = Rem(s - Rem(n, W), W)
    BY ONLY <1>1, <1>2, <1>6
  <2> QED
    BY <1>2, <1>4, <2>1, <2>2 DEF Packet!Wrapped
<1>8. in' \in Nat /\ size' \in 0..(W-1)
  <2>1. PICK m \in Int : m = s - Rem(n, W)
    <3>1. Rem(n, W) \in Int
      BY RemType
    <3> QED
      BY <3>1
  <2>2. Rem(m, W) \in 0..(W-1)
    BY RemType
  <2> QED
    BY <1>4, <1>7, <2>1, <2>2
<1>9. ASSUME size = Rem(base + in, PacketWord)
      PROVE  size' = Rem(base' + in', W)
  <2>1. PICK x \in Int, z \in Int : x = b + i /\ z = x - n
    BY <1>2, <1>5
  <2>2. s = Rem(x, W) /\ s \in Int
    BY <1>1, <1>2, <1>9, <2>1
  <2>3. PICK m \in Int, u \in Int, v \in Int : m = Rem(n, W) /\ u = s - m /\ v = s - n
    <3>1. Rem(n, W) \in Int
      BY RemType
    <3> QED
      BY <2>2, <3>1
  <2>4. Rem(u, W) = Rem(v, W)
    BY ONLY <2>2, <2>3, DifferenceRemainder, W \in Nat \ {0}, n \in Int, m \in Int, u \in Int, v \in Int
  <2>5. Rem(v, W) = Rem(z, W)
    <3>1. PICK k \in Int : k = -n
      OBVIOUS
    <3>2. z = x + k /\ v = s + k
      BY <2>1, <2>2, <2>3, <3>1
    <3> QED
      BY ONLY <2>2, <3>2, SumRemainder, W \in Nat \ {0}, x \in Int, k \in Int, z \in Int, v \in Int
  <2>6. size' = Rem(z, W)
    BY <1>7, <2>3, <2>4, <2>5
  <2>7. CASE l > BufferSize
    <3>1. PICK y \in Int, w \in Int : y = x - t /\ w = y - d
      BY <1>2, <2>1
    <3>2. z = y - l /\ w = b /\ l \in Int
      BY <1>2, <1>3, <1>4, <1>5, <2>1, <2>7, <3>1
    <3>3. Rem(z, W) = Rem(w, W)
      BY ONLY <1>3, <3>1, <3>2, DifferenceRemainder, W \in Nat \ {0}, y \in Int, d \in Int, z \in Int, w \in Int
    <3>4. base' + in' = b
      BY <1>2, <1>7, <2>7
    <3> QED
      BY <2>6, <3>2, <3>3, <3>4
  <2>8. CASE ~(l > BufferSize)
    <3>1. z = d + b /\ b \in Int /\ l \in Int
      BY <1>2, <1>3, <1>4, <1>5, <2>1, <2>8
    <3>2. PICK y \in Int : y = l + b
      BY <3>1
    <3>3. Rem(y, W) = Rem(z, W)
      BY ONLY <1>3, <3>1, <3>2, SumRemainder, W \in Nat \ {0}, y \in Int, z \in Int, d \in Int
    <3>4. base' + in' = y
      BY <1>2, <1>4, <1>7, <2>8, <3>2
    <3> QED
      BY <2>6, <3>3, <3>4
  <2> QED
    BY <2>7, <2>8
<1> QED
  BY <1>1, <1>2, <1>7, <1>8, <1>9 DEF PacketInv

LEMMA PutKeeps == ASSUME PacketInv, NEW x \in Items, Packet!PutOk(x) PROVE PacketInv'
<1>1. PICK W \in Nat \ {0} : W = PacketWord
  BY LibraryAssumption
<1>2. PICK i \in Nat, n \in Nat, b \in 0..(W-1), s \in 0..(W-1) : i = in /\ n = x.bytes /\ b = base /\ s = size
  BY <1>1, ItemsAssumption DEF PacketInv
<1>3. /\ in' = i + n /\ try' = try + Packet!Tried(x) /\ size' = Rem(s + n, W) /\ base' = b /\ phase' = phase
  BY <1>1, <1>2 DEF Packet!PutOk, Rem
<1>4. in' \in Nat /\ try' \in Nat
  BY <1>2, <1>3 DEF PacketInv, Packet!Tried
<1>5. size' \in 0..(W-1)
  <2>1. PICK m \in Int : m = s + n
    OBVIOUS
  <2>2. Rem(m, W) \in 0..(W-1)
    BY RemType
  <2> QED
    BY <1>3, <2>1, <2>2
<1>6. ASSUME size = Rem(base + in, PacketWord)
      PROVE  size' = Rem(base' + in', PacketWord)
  <2>1. PICK y \in Int, z \in Int, u \in Int : y = b + i /\ z = y + n /\ u = s + n
    BY <1>2
  <2>2. s = Rem(y, W) /\ s \in Int /\ n \in Int
    BY <1>1, <1>2, <1>6, <2>1
  <2>3. Rem(u, W) = Rem(z, W)
    BY ONLY <2>1, <2>2, SumRemainder, W \in Nat \ {0}, y \in Int, z \in Int, u \in Int
  <2>4. base' + in' = z
    BY <1>2, <1>3, <2>1
  <2> QED
    BY <1>1, <1>3, <2>1, <2>3, <2>4
<1> QED
  BY <1>1, <1>2, <1>3, <1>4, <1>5, <1>6 DEF PacketInv

LEMMA PacketKeeps == ASSUME PacketInv, Packet!Next PROVE PacketInv'
<1>1. ASSUME NEW x \in Items, Packet!Put(x)
      PROVE  PacketInv'
  <2>1. CASE Packet!PutOk(x)
    BY <2>1, PutKeeps
  <2>2. CASE Packet!PutFails(x)
    BY <2>2 DEF Packet!PutFails, PacketInv
  <2> QED
    BY <1>1, <2>1, <2>2 DEF Packet!Put
<1>2. ASSUME Packet!Success
      PROVE  PacketInv'
  <2>1. CASE Packet!Confirm
    BY <2>1 DEF Packet!Confirm, Packet!BatchEnds, PacketInv
  <2>2. CASE Packet!RollBack
    BY <2>2, RollBackKeeps
  <2> QED
    BY <1>2, <2>1, <2>2 DEF Packet!Success
<1>3. ASSUME Packet!Refused \/ Packet!Send
      PROVE  PacketInv'
  BY <1>3 DEF Packet!Refused, Packet!Send, Packet!cursors, PacketInv
<1>4. ASSUME Packet!Reuse
      PROVE  PacketInv'
  <2>1. size' = base /\ in' = 0 /\ try' = 0 /\ base' = base /\ base \in 0..(PacketWord-1)
    BY <1>4 DEF Packet!Reuse, Packet!Fresh, PacketInv
  <2>2. base' + in' = base
    BY <2>1, LibraryAssumption
  <2>3. size' = Rem(base' + in', PacketWord)
    BY <2>1, <2>2, NoWrap
  <2> QED
    BY <2>1, <2>3 DEF PacketInv
<1>5. ASSUME Packet!Out
      PROVE  PacketInv'
  BY <1>5 DEF Packet!Out, Packet!OutOk, Packet!OutStringFails, Packet!ghosts, PacketInv
<1> QED
  BY <1>1, <1>2, <1>3, <1>4, <1>5 DEF Packet!Next

\* _size counts the bytes of the buffer, whatever is put, confirmed and rolled back, also
\* when _in wraps: Buffer::_RollBack and HNetPacketEx::Success.
THEOREM SizeCounts == Spec => []PacketSized
<1>1. Init => PacketInv
  BY PacketInit DEF Init
<1>2. PacketInv /\ [Next]_vars => PacketInv'
  <2> SUFFICES ASSUME PacketInv, [Next]_vars PROVE PacketInv'
    OBVIOUS
  <2>1. Packet!Next \/ UNCHANGED packetVars
    BY DEF Next, Only, vars
  <2>2. CASE UNCHANGED packetVars
    BY <2>2 DEF packetVars, PacketInv
  <2> QED
    BY <2>1, <2>2, PacketKeeps
<1>3. PacketInv => PacketSized
  BY DEF PacketInv, PacketSized, Packet!PacketSized, Rem
<1> QED
  BY <1>1, <1>2, <1>3, PTL DEF Spec

-----------------------------------------------------------------------------
(***************************************************************************)
(* Serialization: what a receiver reads.  The strings of a batch that is   *)
(* undone are counted with two bytes too many, and what that takes from    *)
(* _in must not come back into the buffer from above: `FewItems' says that *)
(* a packet does not have that many.                                       *)
(***************************************************************************)
Weights(items) == [j \in 1..Len(items) |-> items[j].bytes]

LEMMA ItemsAre ==
    ASSUME NEW items \in Seq(Items)
    PROVE  /\ Len(items) \in Nat /\ DOMAIN items = 1..Len(items)
           /\ Weights(items) \in [1..Len(items) -> Nat]
<1>1. Len(items) \in Nat /\ DOMAIN items = 1..Len(items)
  BY LenProperties
<1>2. \A j \in 1..Len(items) : items[j] \in Items
  BY ElementOfSeq
<1>3. \A x \in Items : x.bytes \in Nat
  BY ItemsAssumption
<1> QED
  BY <1>1, <1>2, <1>3 DEF Weights

LEMMA BytesFold ==
    ASSUME NEW items \in Seq(Items)
    PROVE  \E it : /\ it = Sums(it, Weights(items), Len(items))
                   /\ Packet!Bytes(items) = it[1..Len(items)]
<1> DEFINE n == Len(items)
           w == Weights(items)
           Form(g) == [s \in SUBSET (1..n) |-> IF s = {} THEN 0
                        ELSE g[s \ {Highest(s)}] + items[Highest(s)].bytes]
           it == CHOOSE g : g = Form(g)
<1>1. n \in Nat /\ DOMAIN items = 1..n /\ w \in [1..n -> Nat]
  BY ItemsAre
<1>2. Packet!Bytes(items) = it[1..n]
  BY <1>1 DEF Packet!Bytes, Packet!FoldLeft, Packet!MapThenFoldSet, Packet!Max, Highest
<1>3. \A j \in 1..n : w[j] = items[j].bytes
  BY DEF Weights
<1> HIDE DEF n, w
<1>4. \A s \in SUBSET (1..n) : s # {} => Highest(s) \in 1..n
  BY <1>1, HighestIs
<1>5. \A g : Form(g) = Sums(g, w, n)
  BY <1>3, <1>4 DEF Sums
<1>6. \E g : g = Sums(g, w, n)
  BY <1>1, SumsExist
<1> HIDE DEF Form
<1>7. it = Form(it)
  BY ONLY <1>5, <1>6
<1> HIDE DEF it
<1> QED
  BY <1>2, <1>5, <1>7 DEF n, w

LEMMA BytesNext ==
    ASSUME NEW items \in Seq(Items), NEW x \in Items
    PROVE  /\ Packet!Bytes(items) \in Nat
           /\ Packet!Bytes(Append(items, x)) = Packet!Bytes(items) + x.bytes
<1> DEFINE n == Len(items)
           more == Append(items, x)
           w == Weights(items)
           v == Weights(more)
<1>1. /\ more \in Seq(Items) /\ Len(more) = n + 1 /\ n \in Nat
      /\ more[n + 1] = x /\ \A j \in 1..n : more[j] = items[j]
  BY AppendProperties, LenProperties
<1> HIDE DEF more
<1>2. PICK it : it = Sums(it, w, n) /\ Packet!Bytes(items) = it[1..n]
  BY BytesFold
<1>3. PICK jt : jt = Sums(jt, v, n + 1) /\ Packet!Bytes(more) = jt[1..(n + 1)]
  BY <1>1, BytesFold
<1>4. w \in [1..n -> Nat] /\ v \in [1..(n + 1) -> Nat]
  BY <1>1, ItemsAre
<1>5. (\A j \in 1..n : v[j] = w[j]) /\ v[n + 1] = x.bytes
  <2>1. \A j \in 1..n : j \in 1..(n + 1)
    BY <1>1
  <2>2. n + 1 \in 1..(n + 1)
    BY <1>1
  <2> QED
    BY <1>1, <2>1, <2>2 DEF Weights
<1> HIDE DEF n, w, v
<1>6. OneMore(v, w, n)
  BY <1>4, <1>5 DEF OneMore
<1>7. it[1..n] \in Nat /\ jt[1..(n + 1)] = it[1..n] + v[n + 1]
  BY <1>1, <1>2, <1>3, <1>6, SumsNext
<1> QED
  BY <1>2, <1>3, <1>5, <1>7 DEF more

LEMMA BytesNone ==
    Packet!Bytes(<<>>) = 0
<1>1. <<>> \in Seq(Items) /\ Len(<<>>) = 0
  OBVIOUS
<1>2. PICK it : it = Sums(it, Weights(<<>>), 0) /\ Packet!Bytes(<<>>) = it[1..0]
  BY <1>1, BytesFold
<1>3. 1..0 = {} /\ {} \in SUBSET (1..0)
  OBVIOUS
<1>4. it[{}] = 0
  BY <1>2, <1>3 DEF Sums
<1> QED
  BY <1>2, <1>3, <1>4

LEMMA BytesIsNat ==
    ASSUME NEW s \in Seq(Items)
    PROVE  Packet!Bytes(s) \in Nat
<1>1. CASE s = <<>>
  BY <1>1, BytesNone
<1>2. CASE s # <<>>
  <2>1. s[1] \in Items
    BY <1>2, EmptySeq, ElementOfSeq, LenProperties
  <2> QED
    BY <2>1, BytesNext
<1> QED
  BY <1>1, <1>2

LEMMA BytesConcat ==
    ASSUME NEW s \in Seq(Items), NEW t \in Seq(Items)
    PROVE  Packet!Bytes(s \o t) = Packet!Bytes(s) + Packet!Bytes(t)
<1> DEFINE n == Len(t)
           Part(k) == SubSeq(t, 1, k)
           p == [k \in 0..n |-> Packet!Bytes(s \o Part(k))]
           q == [k \in 0..n |-> Packet!Bytes(s) + Packet!Bytes(Part(k))]
<1>1. n \in Nat
  BY LenProperties
<1>2. Part(0) = <<>> /\ Part(n) = t
  BY <1>1, LenProperties
<1>3. s \o <<>> = s
  BY ConcatEmptySeq
<1>4. p[0] = q[0]
  <2>1. Packet!Bytes(<<>>) = 0 /\ Packet!Bytes(s) \in Nat
    BY BytesNone, BytesIsNat
  <2>2. 0 \in 0..n
    BY <1>1
  <2> HIDE DEF Part, n
  <2>3. p[0] = Packet!Bytes(s \o Part(0)) /\ q[0] = Packet!Bytes(s) + Packet!Bytes(Part(0))
    BY <2>2
  <2> HIDE DEF p, q
  <2>4. p[0] = Packet!Bytes(s) /\ q[0] = Packet!Bytes(s) + 0
    BY ONLY <1>2, <1>3, <2>1, <2>3
  <2> QED
    BY <2>1, <2>4
<1>5. ASSUME NEW k \in 1..n, p[k - 1] = q[k - 1]
      PROVE  p[k] = q[k]
  <2>1. /\ k - 1 \in 0..n /\ t[k] \in Items /\ Part(k - 1) \in Seq(Items)
        /\ Part(k) = Append(Part(k - 1), t[k])
    BY Longer
  <2>2. k \in 0..n
    BY <1>1
  <2> HIDE DEF Part, n
  <2>3. s \o Part(k - 1) \in Seq(Items)
    BY <2>1, ConcatProperties
  <2>4. s \o Part(k) = Append(s \o Part(k - 1), t[k])
    BY <2>1
  <2>5. Packet!Bytes(s \o Part(k)) = Packet!Bytes(s \o Part(k - 1)) + t[k].bytes
    BY <2>1, <2>3, <2>4, BytesNext
  <2>6. Packet!Bytes(Part(k)) = Packet!Bytes(Part(k - 1)) + t[k].bytes
    BY <2>1, BytesNext
  <2>7. Packet!Bytes(s \o Part(k - 1)) = Packet!Bytes(s) + Packet!Bytes(Part(k - 1))
    BY <1>5, <2>1
  <2>8. /\ Packet!Bytes(s) \in Nat /\ Packet!Bytes(Part(k - 1)) \in Nat /\ t[k].bytes \in Nat
    <3>1. t[k].bytes \in Nat
      BY <2>1, ItemsAssumption
    <3> QED
      BY <2>1, <3>1, BytesIsNat
  <2>9. Packet!Bytes(s \o Part(k)) = Packet!Bytes(s) + Packet!Bytes(Part(k))
    BY ONLY <2>5, <2>6, <2>7, <2>8
  <2> QED
    BY <2>2, <2>9
<1>6. Alike(p, q, n)
  <2> HIDE DEF p, q, n
  <2> QED
    BY <1>4, <1>5 DEF Alike
<1>7. Same(p, q, n)
  <2> HIDE DEF p, q, n
  <2> QED
    BY <1>1, <1>6, SameWalk
<1>8. p[n] = q[n] /\ n \in 0..n
  <2> HIDE DEF p, q, n
  <2> QED
    BY <1>1, <1>7 DEF Same
<1> HIDE DEF n, Part
<1> QED
  BY <1>2, <1>8

\* What comes next in a sequence has room in it.
LEMMA BytesBefore ==
    ASSUME NEW s \in Seq(Items), NEW k \in 1..Len(s)
    PROVE  Packet!Bytes(SubSeq(s, 1, k - 1)) + s[k].bytes <= Packet!Bytes(s)
<1> DEFINE a == SubSeq(s, 1, k)
           b == SubSeq(s, k + 1, Len(s))
<1>1. /\ s[k] \in Items /\ SubSeq(s, 1, k - 1) \in Seq(Items) /\ a \in Seq(Items)
      /\ a = Append(SubSeq(s, 1, k - 1), s[k])
  BY Longer
<1>2. Len(s) \in Nat /\ k \in Nat
  BY LenProperties
<1>3. b \in Seq(Items) /\ s = a \o b
  <2>1. \A j \in (k + 1)..Len(s) : s[j] \in Items
    BY <1>2, ElementOfSeq
  <2>2. b \in Seq(Items)
    BY <1>2, <2>1
  <2>3. Len(a) = k /\ Len(b) = Len(s) - k
    BY <1>2
  <2>4. Len(a \o b) = Len(s) /\ a \o b \in Seq(Items)
    BY <1>1, <1>2, <2>2, <2>3, ConcatProperties
  <2>5. ASSUME NEW i \in 1..Len(s)
        PROVE  (a \o b)[i] = s[i]
    <3>1. CASE i <= k
      <4>1. i \in 1..(Len(a) + Len(b)) /\ i <= Len(a)
        BY <1>2, <2>3, <3>1
      <4>2. (a \o b)[i] = a[i]
        <5> HIDE DEF a, b
        <5> QED
          BY <1>1, <2>2, <4>1, ConcatProperties
      <4>3. a[i] = s[i]
        BY <1>2, <3>1
      <4> QED
        BY <4>2, <4>3
    <3>2. CASE i > k
      <4>1. (a \o b)[i] = b[i - k]
        <5>1. i \in 1..(Len(a) + Len(b)) /\ ~(i <= Len(a)) /\ i - Len(a) = i - k
          BY <1>2, <2>3, <3>2
        <5> HIDE DEF a, b
        <5>2. (a \o b)[i] = IF i <= Len(a) THEN a[i] ELSE b[i - Len(a)]
          BY <1>1, <2>2, <5>1, ConcatProperties
        <5> QED
          BY <5>1, <5>2
      <4>2. i - k \in 1..Len(b) /\ (k + 1) + (i - k) - 1 = i
        BY <1>2, <2>3, <3>2
      <4>3. b[i - k] = s[(k + 1) + (i - k) - 1]
        <5>1. k + 1 \in 1..(Len(s) + 1) /\ Len(s) \in k..Len(s)
          BY <1>2
        <5>2. i - k \in 1..(Len(s) - (k + 1) + 1)
          BY <1>2, <3>2
        <5> QED
          BY <1>2, <5>1, <5>2, SubSeqProperties
      <4> QED
        BY <4>1, <4>2, <4>3
    <3> QED
      BY <1>2, <3>1, <3>2
  <2> QED
    BY <2>2, <2>4, <2>5, SeqEqual
<1> HIDE DEF a, b
<1>4. Packet!Bytes(s) = Packet!Bytes(a) + Packet!Bytes(b)
  BY <1>1, <1>3, BytesConcat
<1>5. Packet!Bytes(a) = Packet!Bytes(SubSeq(s, 1, k - 1)) + s[k].bytes
  BY <1>1, BytesNext
<1>6. Packet!Bytes(a) \in Nat /\ Packet!Bytes(b) \in Nat
  BY <1>1, <1>3, BytesIsNat
<1> QED
  BY <1>4, <1>5, <1>6

FewItems == MaxItems \in Nat /\ BufferSize + 2 * MaxItems < PacketWord

Begins(s, t) == Len(s) <= Len(t) /\ s = SubSeq(t, 1, Len(s))
HasText(s) == \E i \in DOMAIN s : s[i].string

Contents == /\ kept \in Seq(Items) /\ fresh \in Seq(Items) /\ read \in Seq(Items)
            /\ Len(kept) + Len(fresh) <= MaxItems

Sealed == /\ phase = "build" => xored = 0 /\ read = <<>> /\ out = 0
          /\ phase = "sent" => xored = 1

\* The cursors of a batch
Batch == /\ in = Packet!Bytes(kept) + Packet!Bytes(fresh) /\ in <= BufferSize
         /\ try \in Int /\ Packet!Bytes(fresh) <= try /\ try <= Packet!Bytes(fresh) + 2 * Len(fresh)
         /\ ~HasText(fresh) => try = Packet!Bytes(fresh)

Reading == out = Packet!Bytes(read) /\ Begins(read, Packet!Sent)

ReadInv == /\ Contents /\ Sealed
           /\ phase \in {"build", "sent"} /\ ~torn => Batch /\ Reading
           /\ phase = "cleared" /\ ~torn => read = Packet!Sent

LEMMA NothingRead == ASSUME NEW s \in Seq(Items) PROVE Begins(<<>>, s)
<1>1. Len(s) \in Nat /\ Len(<<>>) = 0
  BY LenProperties
<1>2. SubSeq(s, 1, 0) = <<>>
  BY SubSeqEmpty
<1> QED
  BY <1>1, <1>2 DEF Begins

LEMMA EmptyBatch ==
    ASSUME FewItems, kept = <<>>, fresh = <<>>, torn = FALSE, read = <<>>,
           in = 0, out = 0, try = 0, phase = "build", xored = 0
    PROVE  ReadInv
<1>1. <<>> \in Seq(Items) /\ Len(<<>>) = 0 /\ Packet!Bytes(<<>>) = 0
  BY BytesNone, EmptySeq
<1>2. Contents
  BY <1>1 DEF Contents, FewItems
<1>3. Batch
  <2>1. ~HasText(fresh)
    BY DEF HasText
  <2>2. BufferSize \in Nat
    BY LibraryAssumption
  <2> QED
    BY <1>1, <2>1, <2>2 DEF Batch
<1>4. Reading
  <2>1. Packet!Sent \in Seq(Items)
    BY <1>1, ConcatProperties DEF Packet!Sent
  <2> QED
    BY <1>1, <2>1, NothingRead DEF Reading
<1> QED
  BY <1>2, <1>3, <1>4 DEF ReadInv, Sealed

LEMMA ReadInit == ASSUME FewItems, Packet!Init PROVE ReadInv
  BY EmptyBatch DEF Packet!Init

LEMMA ReadFresh == ASSUME FewItems, Packet!Fresh PROVE ReadInv'
<1>1. kept' = <<>> /\ fresh' = <<>> /\ read' = <<>> /\ torn' = FALSE /\ xored' = 0 /\ phase' = "build"
      /\ in' = 0 /\ out' = 0 /\ try' = 0
  BY DEF Packet!Fresh
<1>2. <<>> \in Seq(Items) /\ Len(<<>>) = 0 /\ Packet!Bytes(<<>>) = 0
  BY BytesNone, EmptySeq
<1>3. Contents'
  BY <1>1, <1>2 DEF Contents, FewItems
<1>4. Batch'
  <2>1. ~HasText(fresh)'
    BY <1>1 DEF HasText
  <2>2. BufferSize \in Nat
    BY LibraryAssumption
  <2>3. Packet!Bytes(kept)' = 0 /\ Packet!Bytes(fresh)' = 0
    BY <1>1, <1>2
  <2> QED
    BY <1>1, <1>2, <2>1, <2>2, <2>3 DEF Batch
<1>5. Reading'
  <2>1. Packet!Sent' \in Seq(Items)
    BY <1>1, <1>2, ConcatProperties DEF Packet!Sent
  <2>2. Begins(read, Packet!Sent)'
    BY <1>1, <2>1, NothingRead DEF Begins
  <2>3. Packet!Bytes(read)' = 0
    BY <1>1, <1>2
  <2> QED
    BY <1>1, <2>2, <2>3 DEF Reading
<1> QED
  BY <1>1, <1>3, <1>4, <1>5 DEF ReadInv, Sealed

\* Nothing that the receiver reads changes.
LEMMA ReadSame ==
    ASSUME ReadInv, UNCHANGED <<kept, fresh, torn, read, in, out, try, xored, phase>>
    PROVE  ReadInv'
<1>1. Packet!Bytes(kept)' = Packet!Bytes(kept) /\ Packet!Bytes(fresh)' = Packet!Bytes(fresh)
      /\ Packet!Bytes(read)' = Packet!Bytes(read) /\ Packet!Sent' = Packet!Sent
  BY DEF Packet!Sent
<1>2. HasText(fresh)' <=> HasText(fresh)
  BY DEF HasText
<1>3. Batch => Batch'
  BY <1>1, <1>2 DEF Batch
<1>4. Reading => Reading'
  BY <1>1 DEF Reading, Begins
<1>5. Contents' /\ Sealed'
  BY DEF ReadInv, Contents, Sealed
<1> QED
  BY <1>1, <1>3, <1>4, <1>5 DEF ReadInv

LEMMA ReadPut ==
    ASSUME ReadInv, FewItems, NEW x \in Items, phase = "build", Packet!Room, Packet!PutOk(x)
    PROVE  ReadInv'
<1>1. /\ kept \in Seq(Items) /\ fresh \in Seq(Items) /\ Len(kept) \in Nat /\ Len(fresh) \in Nat
      /\ read = <<>> /\ out = 0 /\ xored = 0
  BY LenProperties DEF ReadInv, Contents, Sealed
<1>2. /\ kept' = kept /\ fresh' = Append(fresh, x) /\ read' = read /\ torn' = torn /\ out' = out
      /\ xored' = xored /\ phase' = phase /\ in' = in + x.bytes /\ in + x.bytes <= BufferSize
      /\ try' = try + Packet!Tried(x)
  BY DEF Packet!PutOk
<1>3. /\ Append(fresh, x) \in Seq(Items) /\ Len(Append(fresh, x)) = Len(fresh) + 1
      /\ Append(fresh, x)[Len(fresh) + 1] = x /\ \A i \in 1..Len(fresh) : Append(fresh, x)[i] = fresh[i]
  BY <1>1, AppendProperties
<1>4. Contents'
  <2>1. Len(Packet!Sent) = Len(kept) + Len(fresh)
    BY <1>1, ConcatProperties DEF Packet!Sent
  <2>2. Len(kept) + Len(fresh) < MaxItems /\ MaxItems \in Nat
    BY <2>1 DEF Packet!Room, FewItems
  <2>3. read \in Seq(Items)
    BY DEF ReadInv, Contents
  <2> QED
    BY <1>1, <1>2, <1>3, <2>2, <2>3 DEF Contents
<1>5. Sealed'
  BY <1>1, <1>2 DEF Sealed
<1>6. ASSUME ~torn
      PROVE  Batch'
  <2>1. Batch
    BY <1>6 DEF ReadInv
  <2>2. /\ Packet!Bytes(kept) \in Nat /\ Packet!Bytes(fresh) \in Nat /\ x.bytes \in Nat
        /\ Packet!Bytes(kept)' = Packet!Bytes(kept)
        /\ Packet!Bytes(fresh)' = Packet!Bytes(fresh) + x.bytes
    <3>1. Packet!Bytes(fresh)' = Packet!Bytes(Append(fresh, x))
      BY <1>2
    <3>2. x.bytes \in Nat
      BY ItemsAssumption
    <3>3. Packet!Bytes(kept)' = Packet!Bytes(kept)
      BY <1>2
    <3>4. Packet!Bytes(Append(fresh, x)) = Packet!Bytes(fresh) + x.bytes
      BY <1>1, BytesNext
    <3> QED
      BY <1>1, <3>1, <3>2, <3>3, <3>4, BytesIsNat
  <2>3. Packet!Tried(x) \in x.bytes..(x.bytes + 2) /\ (~x.string => Packet!Tried(x) = x.bytes)
    BY <2>2 DEF Packet!Tried
  <2>4. ~HasText(fresh)' => ~x.string /\ ~HasText(fresh)
    <3>1. DOMAIN fresh = 1..Len(fresh) /\ DOMAIN Append(fresh, x) = 1..(Len(fresh) + 1)
      BY <1>1, <1>3, LenProperties
    <3>2. \A i \in 1..Len(fresh) : i \in 1..(Len(fresh) + 1)
      BY <1>1
    <3>3. Len(fresh) + 1 \in 1..(Len(fresh) + 1)
      BY <1>1
    <3> QED
      BY <1>2, <1>3, <3>1, <3>2, <3>3 DEF HasText
  <2>5. Len(fresh') = Len(fresh) + 1
    BY <1>2, <1>3
  <2>6. in' = Packet!Bytes(kept)' + Packet!Bytes(fresh)' /\ in' <= BufferSize
    BY <1>2, <2>1, <2>2 DEF Batch
  <2>7. /\ try' \in Int /\ Packet!Bytes(fresh)' <= try'
        /\ try' <= Packet!Bytes(fresh)' + 2 * Len(fresh')
    <3>1. PICK f \in Nat, b \in Nat, t \in Int, v \in Int, l \in Nat :
              /\ f = Packet!Bytes(fresh) /\ b = x.bytes /\ t = try /\ v = Packet!Tried(x)
              /\ l = Len(fresh)
      BY <1>1, <2>1, <2>2, <2>3 DEF Batch
    <3>2. f <= t /\ t <= f + 2 * l /\ b <= v /\ v <= b + 2
      BY <2>1, <2>3, <3>1 DEF Batch
    <3>3. try' = t + v /\ Packet!Bytes(fresh)' = f + b /\ Len(fresh') = l + 1
      BY <1>2, <2>2, <2>5, <3>1
    <3>4. t + v \in Int /\ f + b <= t + v /\ t + v <= (f + b) + 2 * (l + 1)
      BY <3>2
    <3> QED
      BY <3>3, <3>4
  <2>8. ~HasText(fresh)' => try' = Packet!Bytes(fresh)'
    BY <1>2, <2>1, <2>2, <2>3, <2>4 DEF Batch
  <2> QED
    BY <2>6, <2>7, <2>8 DEF Batch
<1>7. Reading'
  <2>1. Packet!Sent' \in Seq(Items)
    BY <1>1, <1>2, <1>3, ConcatProperties DEF Packet!Sent
  <2>2. Begins(read, Packet!Sent)'
    BY <1>1, <1>2, <2>1, NothingRead DEF Begins
  <2>3. Packet!Bytes(read)' = 0
    BY <1>1, <1>2, BytesNone
  <2> QED
    BY <1>1, <1>2, <2>2, <2>3 DEF Reading
<1> QED
  BY <1>2, <1>4, <1>5, <1>6, <1>7 DEF ReadInv

LEMMA ReadConfirm ==
    ASSUME ReadInv, FewItems, phase = "build", Packet!Confirm
    PROVE  ReadInv'
<1>1. /\ kept \in Seq(Items) /\ fresh \in Seq(Items) /\ Len(kept) \in Nat /\ Len(fresh) \in Nat
      /\ read = <<>> /\ out = 0 /\ xored = 0 /\ Len(kept) + Len(fresh) <= MaxItems
  BY LenProperties DEF ReadInv, Contents, Sealed
<1>2. /\ kept' = kept \o fresh /\ fresh' = <<>> /\ read' = read /\ torn' = torn /\ out' = out
      /\ xored' = xored /\ phase' = phase /\ in' = in /\ try' = 0
  BY DEF Packet!Confirm, Packet!BatchEnds
<1>3. kept \o fresh \in Seq(Items) /\ Len(kept \o fresh) = Len(kept) + Len(fresh)
  BY <1>1, ConcatProperties
<1>4. <<>> \in Seq(Items) /\ Len(<<>>) = 0 /\ Packet!Bytes(<<>>) = 0
  BY BytesNone, EmptySeq
<1>5. Contents'
  <2>1. read \in Seq(Items)
    BY DEF ReadInv, Contents
  <2>2. Len(kept') + Len(fresh') <= MaxItems
    BY <1>1, <1>2, <1>3, <1>4
  <2> QED
    BY <1>2, <1>3, <1>4, <2>1, <2>2 DEF Contents
<1>6. Sealed'
  BY <1>1, <1>2 DEF Sealed
<1>7. ASSUME ~torn
      PROVE  Batch'
  <2>1. Batch
    BY <1>7 DEF ReadInv
  <2>2. Packet!Bytes(kept)' = Packet!Bytes(kept) + Packet!Bytes(fresh) /\ Packet!Bytes(fresh)' = 0
    <3>1. Packet!Bytes(kept)' = Packet!Bytes(kept \o fresh) /\ Packet!Bytes(fresh)' = Packet!Bytes(<<>>)
      BY <1>2
    <3>2. Packet!Bytes(kept \o fresh) = Packet!Bytes(kept) + Packet!Bytes(fresh)
      BY <1>1, BytesConcat
    <3> QED
      BY <1>4, <3>1, <3>2
  <2>3. Packet!Bytes(kept) \in Nat /\ Packet!Bytes(fresh) \in Nat
    BY <1>1, BytesIsNat
  <2>4. Len(fresh') = 0
    BY <1>2, <1>4
  <2> QED
    BY <1>2, <2>1, <2>2, <2>3, <2>4 DEF Batch
<1>8. Reading'
  <2>1. Packet!Sent' \in Seq(Items)
    BY <1>2, <1>3, <1>4, ConcatProperties DEF Packet!Sent
  <2>2. Begins(read, Packet!Sent)'
    BY <1>1, <1>2, <2>1, NothingRead DEF Begins
  <2>3. Packet!Bytes(read)' = 0
    BY <1>1, <1>2, BytesNone
  <2> QED
    BY <1>1, <1>2, <2>2, <2>3 DEF Reading
<1> QED
  BY <1>2, <1>5, <1>6, <1>7, <1>8 DEF ReadInv

\* What _RollBack computes: the cursor at which the batch began.
LEMMA Undone ==
    ASSUME FewItems, Batch, kept \in Seq(Items), fresh \in Seq(Items), Len(fresh) <= MaxItems,
           kept = <<>> \/ ~HasText(fresh)
    PROVE  (IF Packet!Wrapped THEN 0 ELSE Packet!Lowered) = Packet!Bytes(kept)
<1>1. Packet!Bytes(kept) \in Nat /\ Packet!Bytes(fresh) \in Nat /\ Len(fresh) \in Nat
  BY BytesIsNat, LenProperties
<1>2. PICK W \in Nat, B \in Nat, M \in Nat : W = PacketWord /\ B = BufferSize /\ M = MaxItems
  BY LibraryAssumption DEF FewItems
<1>3. W \in Nat \ {0} /\ B + 2 * M < W /\ B < W
  BY <1>2 DEF FewItems
<1>4. PICK k \in Nat, f \in Nat, t \in Int, l \in Nat :
           k = Packet!Bytes(kept) /\ f = Packet!Bytes(fresh) /\ t = try /\ l = Len(fresh)
  BY <1>1 DEF Batch
<1>5. PICK d \in Int : d = in - try
  BY <1>4 DEF Batch
<1>6. d = (k + f) - t /\ k + f <= B /\ f <= t /\ t <= f + 2 * l /\ l <= M
  BY <1>2, <1>4, <1>5 DEF Batch
<1>7. Packet!Lowered = Rem(d, W)
  BY <1>2, <1>5 DEF Packet!Lowered, Rem
<1>8. CASE 0 <= d
  <2>1. d = k
    <3>1. CASE ~HasText(fresh)
      BY <1>4, <1>6, <3>1 DEF Batch
    <3>2. CASE kept = <<>>
      <4>1. k = 0
        BY <1>4, <3>2, BytesNone
      <4> QED
        BY ONLY <1>6, <1>8, <4>1, k \in Nat, f \in Nat, t \in Int, d \in Int
    <3> QED
      BY <3>1, <3>2
  <2>2. d \in 0..(PacketWord-1) /\ d <= B
    BY <1>2, <1>3, <1>6, <1>8, <2>1
  <2>3. Packet!Lowered = d
    BY <1>2, <1>7, <2>2, NoWrap
  <2> QED
    BY <1>2, <1>4, <2>1, <2>2, <2>3 DEF Packet!Wrapped
<1>9. CASE d < 0
  <2>1. k = 0 /\ kept = <<>>
    <3>1. CASE ~HasText(fresh)
      BY <1>4, <1>6, <1>9, <3>1 DEF Batch
    <3>2. CASE kept = <<>>
      BY <1>4, <3>2, BytesNone
    <3> QED
      BY <1>4, <1>6, <1>9, <3>1, <3>2
  <2>2. PICK e \in Int : e = d + W
    BY <1>3
  <2>3. B < e /\ e < W
    BY <1>3, <1>6, <1>9, <2>1, <2>2
  <2>4. e \in 0..(W-1)
    BY <1>3, <2>2, <2>3
  <2>5. d = W * (-1) + e
    BY <1>3, <2>2
  <2>6. d % W = e
    BY ONLY <1>3, <2>4, <2>5, d \in Int, -1 \in Int, Remainder
  <2>7. Packet!Lowered = e
    BY <1>7, <2>6 DEF Rem
  <2> QED
    BY <1>2, <1>4, <2>1, <2>3, <2>7 DEF Packet!Wrapped
<1> QED
  BY <1>6, <1>8, <1>9

LEMMA ReadRollBack ==
    ASSUME ReadInv, FewItems, phase = "build", Packet!RollBack
    PROVE  ReadInv'
<1>1. /\ kept \in Seq(Items) /\ fresh \in Seq(Items) /\ Len(kept) \in Nat /\ Len(fresh) \in Nat
      /\ read = <<>> /\ out = 0 /\ xored = 0 /\ Len(kept) + Len(fresh) <= MaxItems /\ MaxItems \in Nat
  BY LenProperties DEF ReadInv, Contents, Sealed, FewItems
<1>2. /\ kept' = kept /\ fresh' = <<>> /\ read' = read /\ out' = out
      /\ xored' = xored /\ phase' = phase /\ try' = 0
      /\ in' = IF Packet!Wrapped THEN 0 ELSE Packet!Lowered
      /\ ~torn' => ~torn /\ (kept = <<>> \/ ~HasText(fresh))
  BY DEF Packet!RollBack, HasText
<1>3. <<>> \in Seq(Items) /\ Len(<<>>) = 0 /\ Packet!Bytes(<<>>) = 0
  BY BytesNone, EmptySeq
<1>4. Contents'
  <2>1. read \in Seq(Items)
    BY DEF ReadInv, Contents
  <2>2. Len(kept') + Len(fresh') <= MaxItems
    BY <1>1, <1>2, <1>3
  <2> QED
    BY <1>1, <1>2, <1>3, <2>1, <2>2 DEF Contents
<1>5. Sealed'
  BY <1>1, <1>2 DEF Sealed
<1>6. ASSUME ~torn'
      PROVE  Batch'
  <2>1. Batch
    BY <1>2, <1>6 DEF ReadInv
  <2>2. Len(fresh) <= MaxItems
    BY <1>1
  <2>3. in' = Packet!Bytes(kept)
    BY <1>1, <1>2, <1>6, <2>1, <2>2, Undone
  <2>4. Packet!Bytes(kept)' = Packet!Bytes(kept) /\ Packet!Bytes(fresh)' = 0
    <3>1. Packet!Bytes(kept)' = Packet!Bytes(kept) /\ Packet!Bytes(fresh)' = Packet!Bytes(<<>>)
      BY <1>2
    <3> QED
      BY <1>3, <3>1
  <2>5. Packet!Bytes(kept) \in Nat /\ Packet!Bytes(fresh) \in Nat /\ BufferSize \in Nat
    BY <1>1, BytesIsNat, LibraryAssumption
  <2>6. Len(fresh') = 0
    BY <1>2, <1>3
  <2>7. in' <= BufferSize
    BY <2>1, <2>3, <2>5 DEF Batch
  <2> QED
    BY <1>2, <2>3, <2>4, <2>5, <2>6, <2>7 DEF Batch
<1>7. Reading'
  <2>1. Packet!Sent' \in Seq(Items)
    BY <1>1, <1>2, <1>3, ConcatProperties DEF Packet!Sent
  <2>2. Begins(read, Packet!Sent)'
    BY <1>1, <1>2, <2>1, NothingRead DEF Begins
  <2>3. Packet!Bytes(read)' = 0
    BY <1>1, <1>2, BytesNone
  <2> QED
    BY <1>1, <1>2, <2>2, <2>3 DEF Reading
<1> QED
  BY <1>1, <1>2, <1>4, <1>5, <1>6, <1>7 DEF ReadInv

\* The body is encrypted by the first Send only.
LEMMA ReadSend ==
    ASSUME ReadInv, Packet!Send
    PROVE  ReadInv'
<1>1. /\ UNCHANGED <<kept, fresh, torn, read, in, out, try>> /\ phase' = "sent" /\ phase \in {"build", "sent"}
      /\ xored' = IF xored = 0 THEN xored + 1 ELSE xored
  BY DEF Packet!Send, Packet!cursors, Packet!ghosts, Packet!Encrypt, Packet!NotEncrypt
<1>2. xored' = 1
  BY <1>1 DEF ReadInv, Sealed
<1>3. Packet!Bytes(kept)' = Packet!Bytes(kept) /\ Packet!Bytes(fresh)' = Packet!Bytes(fresh)
      /\ Packet!Bytes(read)' = Packet!Bytes(read) /\ Packet!Sent' = Packet!Sent
  BY <1>1 DEF Packet!Sent
<1>4. HasText(fresh)' <=> HasText(fresh)
  BY <1>1 DEF HasText
<1>5. Batch => Batch'
  BY <1>1, <1>3, <1>4 DEF Batch
<1>6. Reading => Reading'
  BY <1>1, <1>3 DEF Reading, Begins
<1>7. Contents' /\ Sealed'
  BY <1>1, <1>2 DEF ReadInv, Contents, Sealed
<1> QED
  BY <1>1, <1>5, <1>6, <1>7 DEF ReadInv

\* A read that succeeds takes the next item; one that fails has nothing left to take.
LEMMA ReadNext ==
    ASSUME Contents, Begins(read, Packet!Sent), Packet!More
    PROVE  /\ Packet!Sent \in Seq(Items) /\ Len(read) + 1 \in 1..Len(Packet!Sent)
           /\ Packet!Next1 \in Items /\ Packet!Next1.bytes \in Nat /\ Packet!Next1.bytes > 0
           /\ Append(read, Packet!Next1) = SubSeq(Packet!Sent, 1, Len(read) + 1)
           /\ Packet!Bytes(read) + Packet!Next1.bytes <= Packet!Bytes(Packet!Sent)
<1>1. Packet!Sent \in Seq(Items) /\ Len(read) \in Nat /\ Len(Packet!Sent) \in Nat
  BY ConcatProperties, LenProperties DEF Packet!Sent, Contents
<1>2. Len(read) + 1 \in 1..Len(Packet!Sent) /\ (Len(read) + 1) - 1 = Len(read)
  BY <1>1 DEF Packet!More
<1> DEFINE s == Packet!Sent
           k == Len(read) + 1
<1>3. read = SubSeq(s, 1, k - 1) /\ Packet!Next1 = s[k]
  BY <1>2 DEF Begins, Packet!Next1
<1> HIDE DEF s, k
<1>4. s[k] \in Items /\ SubSeq(s, 1, k) = Append(SubSeq(s, 1, k - 1), s[k])
  BY <1>1, <1>2, Longer DEF s, k
<1>5. Packet!Bytes(SubSeq(s, 1, k - 1)) + s[k].bytes <= Packet!Bytes(s)
  BY <1>1, <1>2, BytesBefore DEF s, k
<1>6. s[k].bytes \in Nat /\ s[k].bytes > 0
  BY <1>4, ItemsAssumption
<1> QED
  BY <1>1, <1>2, <1>3, <1>4, <1>5, <1>6 DEF s, k

LEMMA ReadOut ==
    ASSUME ReadInv, Packet!Out
    PROVE  ReadInv'
<1>1. Contents /\ phase = "sent" /\ xored = 1 /\ ~torn /\ Batch /\ Reading
  BY DEF Packet!Out, ReadInv, Sealed
<1>2. /\ kept \in Seq(Items) /\ fresh \in Seq(Items) /\ read \in Seq(Items)
      /\ Packet!Sent \in Seq(Items) /\ Begins(read, Packet!Sent)
      /\ Len(read) \in Nat /\ Len(Packet!Sent) \in Nat
  BY <1>1, ConcatProperties, LenProperties DEF Contents, Reading, Packet!Sent
<1>3. in = Packet!Bytes(Packet!Sent) /\ out = Packet!Bytes(read)
  BY <1>1, <1>2, BytesConcat DEF Batch, Reading, Packet!Sent
<1>4. Packet!Bytes(Packet!Sent) \in Nat /\ Packet!Bytes(read) \in Nat
  BY <1>2, BytesIsNat
<1>5. CASE Packet!OutOk
  <2>1. /\ Packet!More /\ out' = out + Packet!Next1.bytes /\ read' = Append(read, Packet!Next1)
        /\ UNCHANGED <<in, try, kept, fresh, torn, xored, phase>>
    BY <1>5 DEF Packet!OutOk, Packet!Fits
  <2>2. /\ Len(read) + 1 \in 1..Len(Packet!Sent) /\ Packet!Next1 \in Items
        /\ Append(read, Packet!Next1) = SubSeq(Packet!Sent, 1, Len(read) + 1)
    BY <1>1, <1>2, <2>1, ReadNext
  <2>3. Append(read, Packet!Next1) \in Seq(Items) /\ Len(Append(read, Packet!Next1)) = Len(read) + 1
    BY <1>2, <2>2, AppendProperties
  <2>4. Contents'
    BY <1>1, <2>1, <2>3 DEF Contents
  <2>5. Sealed'
    BY <1>1, <2>1 DEF Sealed
  <2>6. Batch'
    <3>1. Packet!Bytes(kept)' = Packet!Bytes(kept) /\ Packet!Bytes(fresh)' = Packet!Bytes(fresh)
      BY <2>1
    <3>2. HasText(fresh)' <=> HasText(fresh)
      BY <2>1 DEF HasText
    <3> QED
      BY <1>1, <2>1, <3>1, <3>2 DEF Batch
  <2>7. Reading'
    <3>1. Packet!Sent' = Packet!Sent
      BY <2>1 DEF Packet!Sent
    <3>2. Packet!Bytes(read)' = Packet!Bytes(Append(read, Packet!Next1))
      BY <2>1
    <3>3. Packet!Bytes(Append(read, Packet!Next1)) = Packet!Bytes(read) + Packet!Next1.bytes
      BY <1>2, <2>2, BytesNext
    <3>4. Begins(read', Packet!Sent)
      BY <1>2, <2>1, <2>2, <2>3 DEF Begins
    <3>5. Begins(read, Packet!Sent)'
      BY <3>1, <3>4 DEF Begins
    <3> QED
      BY <1>3, <2>1, <3>2, <3>3, <3>5 DEF Reading
  <2> QED
    BY <1>1, <2>1, <2>4, <2>5, <2>6, <2>7 DEF ReadInv
<1>6. CASE Packet!OutStringFails
  <2>1. ~Packet!Fits /\ phase' = "cleared" /\ UNCHANGED <<kept, fresh, torn, read, xored>>
    BY <1>6 DEF Packet!OutStringFails, Packet!ghosts
  <2>2. ~Packet!More
    <3> SUFFICES ASSUME Packet!More PROVE FALSE
      OBVIOUS
    <3>1. /\ Packet!Next1.bytes \in Nat /\ Packet!Next1.bytes > 0
          /\ Packet!Bytes(read) + Packet!Next1.bytes <= Packet!Bytes(Packet!Sent)
      BY <1>1, <1>2, ReadNext
    <3>2. in > out /\ out + Packet!Next1.bytes <= in
      BY <1>3, <1>4, <3>1
    <3> QED
      BY <2>1, <3>2 DEF Packet!Fits
  <2>3. read = Packet!Sent
    <3>1. Len(read) = Len(Packet!Sent)
      BY <1>2, <2>2 DEF Packet!More, Begins
    <3>2. Packet!Sent = SubSeq(Packet!Sent, 1, Len(Packet!Sent))
      BY <1>2
    <3> QED
      BY <1>2, <3>1, <3>2 DEF Begins
  <2>4. read' = Packet!Sent'
    BY <2>1, <2>3 DEF Packet!Sent
  <2>5. Contents' /\ Sealed'
    BY <1>1, <2>1 DEF Contents, Sealed
  <2> QED
    BY <2>1, <2>4, <2>5 DEF ReadInv
<1> QED
  BY <1>5, <1>6 DEF Packet!Out

LEMMA BatchKeeps ==
    ASSUME FewItems, ReadInv, Packet!Next
    PROVE  ReadInv'
<1>1. ASSUME NEW x \in Items, Packet!Room, Packet!Put(x)
      PROVE  ReadInv'
  <2>1. CASE Packet!PutOk(x)
    BY <1>1, <2>1, ReadPut DEF Packet!Put
  <2>2. CASE Packet!PutFails(x)
    BY <2>2, ReadSame DEF Packet!PutFails, Packet!ghosts
  <2> QED
    BY <1>1, <2>1, <2>2 DEF Packet!Put
<1>2. CASE Packet!Success
  BY <1>2, ReadConfirm, ReadRollBack DEF Packet!Success
<1>3. CASE Packet!Refused
  <2>1. UNCHANGED <<kept, fresh, read>> /\ phase' = "fault"
    BY <1>3 DEF Packet!Refused, Packet!ghosts
  <2> QED
    BY <2>1 DEF ReadInv, Contents, Sealed
<1>4. CASE Packet!Send
  BY <1>4, ReadSend
<1>5. CASE Packet!Reuse
  BY <1>5, ReadFresh DEF Packet!Reuse
<1>6. CASE Packet!Out
  BY <1>6, ReadOut
<1> QED
  BY <1>1, <1>2, <1>3, <1>4, <1>5, <1>6 DEF Packet!Next

\* A receiver that takes out what was put, in order, gets all of it, also after batches
\* were rolled back: Buffer::_In, _RollBack and _Out, and HNet::_Send, which encrypts the
\* body once.
THEOREM AllReadBack == ASSUME FewItems PROVE Spec => []ReadBack
<1>1. Init => ReadInv
  BY ReadInit DEF Init
<1>2. ReadInv /\ [Next]_vars => ReadInv'
  <2> SUFFICES ASSUME ReadInv, [Next]_vars PROVE ReadInv'
    OBVIOUS
  <2>1. Packet!Next \/ UNCHANGED packetVars
    BY DEF Next, Only, vars
  <2>2. CASE UNCHANGED packetVars
    BY <2>2, ReadSame DEF packetVars
  <2> QED
    BY <2>1, <2>2, BatchKeeps
<1>3. ReadInv => ReadBack
  <2> SUFFICES ASSUME ReadInv PROVE Packet!ReadBack
    BY DEF ReadBack
  <2>1. phase = "sent" => xored = 1
    BY DEF ReadInv, Sealed
  <2>2. phase = "cleared" /\ ~torn => read = Packet!Sent
    BY DEF ReadInv
  <2>3. ASSUME phase \in {"build", "sent"}, ~torn
        PROVE  in = Packet!Bytes(Packet!Sent) /\ out = Packet!Bytes(read) /\ Packet!IsPrefix(read, Packet!Sent)
    <3>1. Batch /\ Reading /\ kept \in Seq(Items) /\ fresh \in Seq(Items) /\ read \in Seq(Items)
      BY <2>3 DEF ReadInv, Contents
    <3>2. in = Packet!Bytes(Packet!Sent) /\ out = Packet!Bytes(read)
      BY <3>1, BytesConcat DEF Batch, Reading, Packet!Sent
    <3>3. SubSeq(read, 1, Len(read)) = read
      BY <3>1, LenProperties
    <3>4. Packet!IsPrefix(read, Packet!Sent)
      BY <3>1, <3>3 DEF Reading, Begins, Packet!IsPrefix
    <3> QED
      BY <3>2, <3>4
  <2> QED
    BY <2>1, <2>2, <2>3 DEF Packet!ReadBack
<1> QED
  BY <1>1, <1>2, <1>3, PTL DEF Spec

-----------------------------------------------------------------------------
(***************************************************************************)
(* WsHeader: the arithmetic of HNetWsPacket::Header, for any widths        *)
(***************************************************************************)
\* All sizes are numbers, and the limits are in order.
Sizes == /\ {Medium, Long, Ext2, Ext8, Key, Limit} \subseteq Nat /\ Medium < Long
         /\ Word \in Nat \ {0} /\ Word <= Limit

\* What RFC 6455 says a frame of n bytes of data is long
FrameLength(n, masked) == Hd!Placed(n) + (IF masked THEN Key ELSE 0) + n

\* The length that Initialize writes selects its own extension: Header::Initialize and
\* ExtendBytes agree on the limits.
LEMMA Extended ==
  ASSUME NEW op, NEW n \in Nat, NEW masked \in BOOLEAN
  PROVE  Hd!HeaderSize(Hd!Initialize(op, n, masked)) = Hd!Placed(n) + (IF masked THEN Key ELSE 0)
  <1> Sizes
    BY LibraryAssumption DEF Sizes
  <1>1. CASE Long <= n
    BY <1>1 DEF Sizes, Hd!HeaderSize, Hd!Initialize, Hd!Extension, Hd!Placed, Hd!Basic
  <1>2. CASE Medium <= n /\ n < Long
    BY <1>2 DEF Sizes, Hd!HeaderSize, Hd!Initialize, Hd!Extension, Hd!Placed, Hd!Basic
  <1>3. CASE n < Medium
    BY <1>3 DEF Sizes, Hd!HeaderSize, Hd!Initialize, Hd!Extension, Hd!Placed, Hd!Basic
  <1>4. QED
    BY <1>1, <1>2, <1>3 DEF Sizes

\* A receiver reads from a header the length its sender wrote (Initialize, DataSize), and
\* Size, which adds in 16 bits, is the length of the frame, as long as that fits in 16
\* bits (HNetPacket.cpp 175-276).
THEOREM RoundTrip ==
  ASSUME NEW op, NEW n \in Nat, NEW masked \in BOOLEAN,
         FrameLength(n, masked) < Word, n <= Limit
  PROVE  LET h == Hd!Initialize(op, n, masked)
         IN  Hd!DataSize(h) = n /\ Hd!Size(h) = FrameLength(n, masked)
  <1> Sizes
    BY LibraryAssumption DEF Sizes
  <1> DEFINE h == Hd!Initialize(op, n, masked)
  <1>1. Hd!Placed(n) \in Nat /\ (IF masked THEN Key ELSE 0) \in Nat /\ Word \in Nat
    BY DEF Hd!Placed, Hd!Basic, Sizes
  <1>2. n < Word /\ n % Word = n
    BY <1>1 DEF FrameLength
  <1>3. Hd!DataSize(h) = n
    <2>1. CASE Long <= n
      BY <1>2, <2>1 DEF Sizes, Hd!Initialize, Hd!DataSize
    <2>2. CASE Medium <= n /\ n < Long
      BY <1>2, <2>2 DEF Sizes, Hd!Initialize, Hd!DataSize
    <2>3. CASE n < Medium
      BY <1>2, <2>3 DEF Sizes, Hd!Initialize, Hd!DataSize
    <2>4. QED
      BY <2>1, <2>2, <2>3 DEF Sizes
  <1>4. Hd!Size(h) = (Hd!Placed(n) + (IF masked THEN Key ELSE 0) + n) % Word
    BY <1>3, Extended DEF Hd!Size
  <1>5. Hd!Size(h) = FrameLength(n, masked)
    BY <1>1, <1>4 DEF FrameLength
  <1>6. QED
    BY <1>3, <1>5

-----------------------------------------------------------------------------
(***************************************************************************)
(* WsFrames: what is in the buffer is the beginning of the next frame      *)
(***************************************************************************)
\* A header says no more data than the frame has.
LEMMA DataInside ==
    ASSUME NEW h \in Frames
    PROVE  h.ext \in Nat /\ Hd!DataSize(h) \in Nat /\ Hd!DataSize(h) <= h.ext
<1> Sizes
  BY LibraryAssumption DEF Sizes
<1>1. h.ext \in Nat /\ h = Hd!Initialize(h.op, h.ext, h.mask)
  BY FramesAssumption
<1>2. PICK n : n = h.ext /\ n \in Nat
  BY <1>1
<1>2a. PICK f : f = h.flag
  OBVIOUS
<1>3. f = IF Long <= n THEN Medium + 1 ELSE IF Medium <= n THEN Medium ELSE n
  BY ONLY <1>1, <1>2, <1>2a DEF Hd!Initialize
<1>4. Hd!DataSize(h) = IF f = Medium THEN n % Word
                       ELSE IF f # Medium + 1 THEN f
                       ELSE IF n > Limit THEN 0 ELSE n % Word
  BY ONLY <1>2, <1>2a DEF Hd!DataSize
<1>5. PICK m \in Nat : m = n % Word /\ m <= n
  BY ONLY <1>2, Sizes, RemainderInside DEF Sizes
<1>6. Hd!DataSize(h) \in Nat /\ Hd!DataSize(h) <= n
  BY ONLY <1>2, <1>3, <1>4, <1>5, Sizes DEF Sizes
<1> QED
  BY ONLY <1>2, <1>6

\* Size never says more than the frame is long, and says it when that fits in 16 bits.
LEMMA FrameIs ==
    ASSUME NEW h \in Frames
    PROVE  /\ Ws!Length(h) \in Nat /\ Ws!HeaderSize(h) + h.ext = Ws!Length(h)
           /\ Ws!Basic + Ws!Extension(h) <= Ws!Length(h)
           /\ Ws!Basic = 2 /\ Ws!Extension(h) \in Nat
           /\ Ws!Size(h) \in Nat /\ Ws!Size(h) <= Ws!Length(h)
           /\ Ws!Length(h) < Word => Ws!Size(h) = Ws!Length(h)
<1> Sizes
  BY LibraryAssumption DEF Sizes
<1>1. h.ext \in Nat /\ h.mask \in BOOLEAN /\ h = Hd!Initialize(h.op, h.ext, h.mask)
  BY FramesAssumption
<1>2. /\ Ws!Size(h) = Hd!Size(h) /\ Ws!HeaderSize(h) = Hd!HeaderSize(h)
      /\ Ws!Extension(h) = Hd!Extension(h) /\ Ws!Basic = 2 /\ Hd!Basic = 2
  BY DEF Ws!Size, Ws!DataSize, Ws!HeaderSize, Ws!Extension, Ws!Basic,
         Hd!Size, Hd!DataSize, Hd!HeaderSize, Hd!Extension, Hd!Basic
<1>3. PICK x \in Nat, k \in Nat, n \in Nat, d \in Nat :
          /\ x = Hd!Extension(h) /\ k = (IF h.mask THEN Key ELSE 0)
          /\ n = h.ext /\ d = Hd!DataSize(h) /\ d <= n
  <2>1. Hd!Extension(h) \in Nat
    BY DEF Hd!Extension, Sizes
  <2>2. (IF h.mask THEN Key ELSE 0) \in Nat
    BY DEF Sizes
  <2> QED
    BY ONLY <1>1, <2>1, <2>2, DataInside
<1>4. Hd!HeaderSize(h) = 2 + x + k
  BY ONLY <1>2, <1>3 DEF Hd!HeaderSize
<1>5. Ws!Length(h) = 2 + x + k + n
  BY ONLY <1>2, <1>3, <1>4 DEF Ws!Length
<1>6. PICK m \in Nat : m = (2 + x + k + d) % Word /\ m <= 2 + x + k + d
  BY ONLY Sizes, RemainderInside, <1>3 DEF Sizes
<1>7. Ws!Size(h) = m
  BY ONLY <1>2, <1>3, <1>4, <1>6 DEF Hd!Size
<1>8. ASSUME 2 + x + k + n < Word
      PROVE  m = 2 + x + k + n
  <2>1. Hd!Placed(n) + k = 2 + x + k
    BY ONLY <1>1, <1>3, <1>4, Extended
  <2>2. FrameLength(n, h.mask) = 2 + x + k + n
    BY ONLY <1>3, <2>1 DEF FrameLength
  <2>3. n <= Limit
    BY ONLY <1>3, <1>8, Sizes DEF Sizes
  <2>4. Hd!Size(h) = FrameLength(n, h.mask)
    BY ONLY <1>1, <1>3, <1>8, <2>2, <2>3, RoundTrip
  <2> QED
    BY ONLY <1>2, <1>7, <2>2, <2>4
<1> QED
  BY ONLY <1>2, <1>3, <1>4, <1>5, <1>6, <1>7, <1>8

Extents(s) == [j \in 1..Len(s) |-> Ws!Length(s[j])]

LEMMA FramesAre ==
    ASSUME NEW s \in Seq(Frames)
    PROVE  /\ Len(s) \in Nat /\ DOMAIN s = 1..Len(s)
           /\ Extents(s) \in [1..Len(s) -> Nat]
           /\ \A j \in 1..Len(s) : Extents(s)[j] = Ws!Length(s[j])
<1>1. Len(s) \in Nat /\ DOMAIN s = 1..Len(s)
  BY LenProperties
<1>2. \A j \in 1..Len(s) : s[j] \in Frames
  BY ElementOfSeq
<1>3. \A j \in 1..Len(s) : Ws!Length(s[j]) \in Nat
  BY <1>2, FrameIs
<1> QED
  BY <1>1, <1>3 DEF Extents

LEMMA ExtentFold ==
    ASSUME NEW s \in Seq(Frames)
    PROVE  \E it : /\ it = Sums(it, Extents(s), Len(s))
                   /\ Ws!Extent(s) = it[1..Len(s)]
<1> DEFINE n == Len(s)
           w == Extents(s)
           Form(g) == [i \in SUBSET (1..n) |-> IF i = {} THEN 0
                        ELSE g[i \ {Highest(i)}] + Ws!Length(s[Highest(i)])]
           it == CHOOSE g : g = Form(g)
<1>1. n \in Nat /\ DOMAIN s = 1..n /\ w \in [1..n -> Nat]
  BY FramesAre
<1>2. Ws!Extent(s) = it[1..n]
  BY <1>1 DEF Ws!Extent, Ws!FoldLeft, Ws!MapThenFoldSet, Ws!Max, Highest
<1>3. \A j \in 1..n : w[j] = Ws!Length(s[j])
  BY FramesAre
<1> HIDE DEF n, w
<1>4. \A i \in SUBSET (1..n) : i # {} => Highest(i) \in 1..n
  BY <1>1, HighestIs
<1>5. \A g : Form(g) = Sums(g, w, n)
  BY <1>3, <1>4 DEF Sums
<1>6. \E g : g = Sums(g, w, n)
  BY <1>1, SumsExist
<1> HIDE DEF Form
<1>7. it = Form(it)
  BY ONLY <1>5, <1>6
<1> HIDE DEF it
<1> QED
  BY <1>2, <1>5, <1>7 DEF n, w

LEMMA ExtentNext ==
    ASSUME NEW s \in Seq(Frames), NEW h \in Frames
    PROVE  /\ Ws!Extent(s) \in Nat
           /\ Ws!Extent(Append(s, h)) = Ws!Extent(s) + Ws!Length(h)
<1> DEFINE n == Len(s)
           more == Append(s, h)
           w == Extents(s)
           v == Extents(more)
<1>1. /\ more \in Seq(Frames) /\ Len(more) = n + 1 /\ n \in Nat
      /\ more[n + 1] = h /\ \A j \in 1..n : more[j] = s[j]
  BY AppendProperties, LenProperties
<1> HIDE DEF more
<1>2. PICK it : it = Sums(it, w, n) /\ Ws!Extent(s) = it[1..n]
  BY ExtentFold
<1>3. PICK jt : jt = Sums(jt, v, n + 1) /\ Ws!Extent(more) = jt[1..(n + 1)]
  BY <1>1, ExtentFold
<1>4. w \in [1..n -> Nat] /\ v \in [1..(n + 1) -> Nat]
  BY <1>1, FramesAre
<1>5. (\A j \in 1..n : v[j] = w[j]) /\ v[n + 1] = Ws!Length(h)
  <2>1. \A j \in 1..n : j \in 1..(n + 1)
    BY <1>1
  <2>2. n + 1 \in 1..(n + 1)
    BY <1>1
  <2> QED
    BY <1>1, <2>1, <2>2 DEF Extents
<1> HIDE DEF n, w, v
<1>6. OneMore(v, w, n)
  BY <1>4, <1>5 DEF OneMore
<1>7. it[1..n] \in Nat /\ jt[1..(n + 1)] = it[1..n] + v[n + 1]
  BY <1>1, <1>2, <1>3, <1>6, SumsNext
<1> QED
  BY <1>2, <1>3, <1>5, <1>7 DEF more

LEMMA ExtentNone == Ws!Extent(<<>>) = 0
<1>1. <<>> \in Seq(Frames) /\ Len(<<>>) = 0
  BY EmptySeq
<1>2. PICK it : it = Sums(it, Extents(<<>>), 0) /\ Ws!Extent(<<>>) = it[1..0]
  BY <1>1, ExtentFold
<1>3. 1..0 = {} /\ {} \in SUBSET (1..0)
  OBVIOUS
<1>4. it[{}] = 0
  BY <1>2, <1>3 DEF Sums
<1> QED
  BY <1>2, <1>3, <1>4

LEMMA StartIs ==
    ASSUME frames \in Seq(Frames), NEW k \in 1..Len(frames)
    PROVE  /\ Ws!Start(k - 1) \in Nat /\ Ws!Length(frames[k]) \in Nat
           /\ Ws!Start(k) = Ws!Start(k - 1) + Ws!Length(frames[k])
<1>1. /\ frames[k] \in Frames /\ SubSeq(frames, 1, k - 1) \in Seq(Frames)
      /\ SubSeq(frames, 1, k) = Append(SubSeq(frames, 1, k - 1), frames[k])
  BY Longer
<1>2. Ws!Length(frames[k]) \in Nat
  BY <1>1, FrameIs
<1> QED
  BY <1>1, <1>2, ExtentNext DEF Ws!Start

LEMMA StartIsNat ==
    ASSUME frames \in Seq(Frames), NEW k \in 0..Len(frames)
    PROVE  Ws!Start(k) \in Nat
<1>1. Len(frames) \in Nat /\ k \in Nat
  BY LenProperties
<1>2. CASE k = 0
  <2>1. SubSeq(frames, 1, k) = <<>>
    BY <1>2, SubSeqEmpty
  <2>2. Ws!Start(k) = 0
    BY ONLY <2>1, ExtentNone DEF Ws!Start
  <2> QED
    BY ONLY <2>2
<1>3. CASE k # 0
  <2>1. k \in 1..Len(frames)
    BY <1>1, <1>3
  <2> QED
    BY <2>1, StartIs
<1> QED
  BY <1>2, <1>3

WsTypes == /\ begin \in Nat /\ end \in Nat /\ begin <= end /\ bytes \in Nat /\ incomplete \in Nat
           /\ frames \in Seq(Frames) /\ told \in Seq(Frames) /\ got \in Nat
           /\ taken \in 0..Len(frames)
           /\ state \in {"posted", "handling", "closed", "astray", "overrun"}

\* What was received begins with the frames that were handled ...
Between == Ws!Start(taken) <= got /\ got <= Ws!Start(Len(frames))
\* ... and what is left of it is in the buffer.
Waits == state = "posted" =>
            /\ end - begin = got - Ws!Start(taken)
            /\ taken < Len(frames) => end - begin < Ws!Length(Ws!Header)
Loops == state = "handling" =>
            /\ bytes > 0 => (end - begin) + bytes = incomplete /\ incomplete = got - Ws!Start(taken)
            /\ bytes = 0 => begin = end /\ got = Ws!Start(taken)
\* A frame was misread.
Strays == state = "astray" =>
            /\ taken < Len(frames)
            /\ ~Ws!Header.mask \/ ~Ws!Arrived \/ Ws!Length(Ws!Header) >= Word

DataTold(at) == /\ at \in [DOMAIN told -> 1..taken]
                /\ \A i \in DOMAIN told : told[i] = frames[at[i]]
                /\ \A i, k \in DOMAIN told : i < k => at[i] < at[k]
                /\ {at[i] : i \in DOMAIN told} = {k \in 1..taken : frames[k].op = "data"}

WsInv == WsTypes /\ Between /\ Waits /\ Loops /\ Strays /\ \E at : DataTold(at)

LEMMA WsInit == ASSUME Ws!Init PROVE WsInv
<1>1. /\ begin = 0 /\ end = 0 /\ bytes = 0 /\ incomplete = 0 /\ frames = <<>> /\ got = 0
      /\ taken = 0 /\ told = <<>> /\ state = "posted"
  BY DEF Ws!Init
<1>2. <<>> \in Seq(Frames) /\ Len(<<>>) = 0 /\ DOMAIN <<>> = 1..0 /\ 1..0 = {}
  BY EmptySeq, LenProperties
<1>3. WsTypes
  BY <1>1, <1>2 DEF WsTypes
<1>4. Ws!Start(0) = 0
  <2>1. SubSeq(frames, 1, 0) = <<>>
    BY SubSeqEmpty
  <2> QED
    BY ONLY <2>1, ExtentNone DEF Ws!Start
<1>5. Between /\ Waits /\ Loops /\ Strays
  BY <1>1, <1>2, <1>4 DEF Between, Waits, Loops, Strays
<1>6. PICK at : at = [i \in 1..0 |-> 0]
  OBVIOUS
<1>7. DataTold(at)
  BY <1>1, <1>2, <1>6 DEF DataTold
<1> QED
  BY <1>3, <1>5, <1>7 DEF WsInv

\* In the loop there is a frame that has begun to arrive.
LEMMA HeaderThere ==
    ASSUME WsInv, state = "handling", bytes > 0
    PROVE  /\ taken < Len(frames) /\ taken + 1 \in 1..Len(frames) /\ (taken + 1) - 1 = taken
           /\ Ws!Header \in Frames /\ Ws!Length(Ws!Header) \in Nat
           /\ Ws!Basic + Ws!Extension(Ws!Header) <= Ws!Length(Ws!Header)
           /\ Ws!Basic = 2 /\ Ws!Extension(Ws!Header) \in Nat
           /\ Ws!Size(Ws!Header) \in Nat /\ Ws!Size(Ws!Header) <= Ws!Length(Ws!Header)
           /\ Ws!Length(Ws!Header) < Word => Ws!Size(Ws!Header) = Ws!Length(Ws!Header)
           /\ Ws!Start(taken) \in Nat /\ Ws!Start(taken + 1) = Ws!Start(taken) + Ws!Length(Ws!Header)
<1>1. frames \in Seq(Frames) /\ Len(frames) \in Nat /\ taken \in 0..Len(frames)
  BY LenProperties DEF WsInv, WsTypes
<1>2. Ws!Start(taken) \in Nat
  BY <1>1, StartIsNat
<1>3. taken # Len(frames)
  <2>1. got > Ws!Start(taken)
    BY <1>2 DEF WsInv, WsTypes, Loops
  <2> QED
    BY <1>2, <2>1 DEF WsInv, WsTypes, Between
<1>4. taken < Len(frames) /\ taken + 1 \in 1..Len(frames) /\ (taken + 1) - 1 = taken
  BY <1>1, <1>3
<1>5. Ws!Header \in Frames
  BY <1>1, <1>4, ElementOfSeq DEF Ws!Header
<1>6. Ws!Start(taken + 1) = Ws!Start(taken) + Ws!Length(Ws!Header)
  BY <1>1, <1>4, StartIs DEF Ws!Header
<1> QED
  BY <1>2, <1>4, <1>5, <1>6, FrameIs

\* The frames, those that were handled and the data among them stay.
LEMMA ToldSame ==
    ASSUME UNCHANGED <<frames, taken, told>>
    PROVE  /\ Ws!Start(taken)' = Ws!Start(taken) /\ Ws!Start(Len(frames))' = Ws!Start(Len(frames))
           /\ Ws!Header' = Ws!Header
           /\ \A at : DataTold(at) => DataTold(at)'
  BY DEF Ws!Start, Ws!Header, DataTold

LEMMA StraysSame ==
    ASSUME Strays, UNCHANGED <<state, frames, taken, incomplete>> PROVE Strays'
<1>1. Ws!Header' = Ws!Header
  BY DEF Ws!Header
<1>2. Ws!Arrived' <=> Ws!Arrived
  BY <1>1 DEF Ws!Arrived
<1> QED
  BY <1>1, <1>2 DEF Strays

LEMMA WsSame == ASSUME WsInv, UNCHANGED wsVars PROVE WsInv'
<1>1. UNCHANGED <<begin, end, state, bytes, incomplete, frames, got, taken, told>>
  BY DEF wsVars
<1>2. WsTypes'
  BY <1>1 DEF WsInv, WsTypes
<1>3. Between' /\ Waits' /\ Loops'
  BY <1>1, ToldSame DEF WsInv, Between, Waits, Loops
<1>3a. Strays'
  BY <1>1, StraysSame DEF WsInv
<1>4. (\E at : DataTold(at))'
  BY <1>1, ToldSame DEF WsInv
<1> QED
  BY <1>2, <1>3, <1>3a, <1>4 DEF WsInv

LEMMA WsEnds ==
    ASSUME WsInv, NEW s \in {"closed", "astray", "overrun"}, Ws!Ends(s),
           s = "astray" => /\ taken < Len(frames)
                           /\ ~Ws!Header.mask \/ ~Ws!Arrived \/ Ws!Length(Ws!Header) >= Word
    PROVE  WsInv'
<1>1. state' = s /\ UNCHANGED <<begin, end, bytes, incomplete, frames, got, taken, told>>
  BY DEF Ws!Ends
<1>2. WsTypes'
  BY <1>1 DEF WsInv, WsTypes
<1>3. Between' /\ Waits' /\ Loops'
  BY <1>1, ToldSame DEF WsInv, Between, Waits, Loops
<1>4. Strays'
  <2>1. Ws!Header' = Ws!Header
    BY <1>1, ToldSame
  <2>2. Ws!Arrived' <=> Ws!Arrived
    BY <1>1, <2>1 DEF Ws!Arrived
  <2> QED
    BY <1>1, <2>1, <2>2 DEF Strays
<1>5. (\E at : DataTold(at))'
  BY <1>1, ToldSame DEF WsInv
<1> QED
  BY <1>2, <1>3, <1>4, <1>5 DEF WsInv

\* RecvWs keeps what is left of the bytes.
LEMMA WsRearm ==
    ASSUME WsInv, NEW b \in Nat, NEW e \in Nat, b <= e, Ws!RecvWs(b, e),
           e - b = got - Ws!Start(taken), taken < Len(frames) => e - b < Ws!Length(Ws!Header)
    PROVE  WsInv'
<1>1. /\ state' = "posted" /\ bytes' = 0 /\ incomplete' = 0
      /\ UNCHANGED <<frames, got, taken, told>>
  BY DEF Ws!RecvWs
<1>2. begin' \in Nat /\ end' \in Nat /\ begin' <= end' /\ end' - begin' = e - b
  BY DEF Ws!RecvWs, Ws!GetWsaBuf
<1>3. WsTypes'
  BY <1>1, <1>2 DEF WsInv, WsTypes
<1>4. Between' /\ Waits' /\ Loops' /\ Strays'
  BY <1>1, <1>2, ToldSame DEF WsInv, Between, Waits, Loops, Strays
<1>5. (\E at : DataTold(at))'
  BY <1>1, ToldSame DEF WsInv
<1> QED
  BY <1>3, <1>4, <1>5 DEF WsInv

LEMMA WsKeep == ASSUME WsInv, Ws!Keep PROVE WsInv'
<1>1. /\ state = "handling" /\ bytes > 0 /\ Ws!RecvWs(begin, end + bytes)
      /\ \/ ~Ws!IsValid
         \/ ~Ws!Arrived
         \/ Ws!Size(Ws!Header) > incomplete
  BY DEF Ws!Keep, Ws!Looping, Ws!SizeRead
<1>2. /\ Ws!Length(Ws!Header) \in Nat /\ Ws!Basic = 2 /\ Ws!Extension(Ws!Header) \in Nat
      /\ Ws!Basic + Ws!Extension(Ws!Header) <= Ws!Length(Ws!Header) /\ Ws!Start(taken) \in Nat
      /\ Ws!Size(Ws!Header) \in Nat /\ Ws!Size(Ws!Header) <= Ws!Length(Ws!Header)
  BY <1>1, HeaderThere
<1>3. /\ begin \in Nat /\ end \in Nat /\ bytes \in Nat /\ begin <= end /\ incomplete \in Nat
      /\ (end - begin) + bytes = incomplete /\ incomplete = got - Ws!Start(taken)
  BY <1>1 DEF WsInv, WsTypes, Loops
<1>4. incomplete < Ws!Length(Ws!Header)
  BY <1>1, <1>2, <1>3 DEF Ws!IsValid, Ws!Arrived
<1>5. /\ begin \in Nat /\ end + bytes \in Nat /\ begin <= end + bytes
      /\ (end + bytes) - begin = incomplete
  BY <1>3
<1> QED
  BY <1>1, <1>3, <1>4, <1>5, WsRearm

LEMMA WsLoopEnds == ASSUME WsInv, Ws!LoopEnds PROVE WsInv'
<1>1. state = "handling" /\ bytes = 0 /\ Ws!RecvWs(begin, end)
  BY DEF Ws!LoopEnds
<1>2. /\ begin \in Nat /\ end \in Nat /\ begin = end /\ got = Ws!Start(taken)
      /\ frames \in Seq(Frames) /\ taken \in 0..Len(frames)
  BY <1>1 DEF WsInv, WsTypes, Loops
<1>3. Ws!Start(taken) \in Nat
  BY <1>2, StartIsNat
<1>4. end - begin = got - Ws!Start(taken) /\ end - begin = 0 /\ begin <= end
  BY <1>2, <1>3
<1>5. ASSUME taken < Len(frames)
      PROVE  0 < Ws!Length(Ws!Header)
  <2>1. taken + 1 \in 1..Len(frames)
    BY <1>2, <1>5, LenProperties
  <2>2. Ws!Header \in Frames
    BY <1>2, <2>1, ElementOfSeq DEF Ws!Header
  <2>3. /\ Ws!Length(Ws!Header) \in Nat /\ Ws!Basic = 2 /\ Ws!Extension(Ws!Header) \in Nat
        /\ Ws!Basic + Ws!Extension(Ws!Header) <= Ws!Length(Ws!Header)
    BY <2>2, FrameIs
  <2> QED
    BY ONLY <2>3
<1> QED
  BY <1>1, <1>2, <1>4, <1>5, WsRearm

LEMMA WsReceived == ASSUME WsInv, NEW n \in 1..MaxSize, Ws!Received(n) PROVE WsInv'
<1>1. /\ state = "posted" /\ n <= Ws!Start(Len(frames)) - got
      /\ state' = "handling" /\ got' = got + n /\ bytes' = n /\ incomplete' = (end - begin) + n
      /\ UNCHANGED <<begin, end, frames, taken, told>>
  BY DEF Ws!Received, Ws!Arrives
<1>2. n \in Nat /\ n > 0
  OBVIOUS
<1>3. /\ begin \in Nat /\ end \in Nat /\ begin <= end /\ got \in Nat
      /\ end - begin = got - Ws!Start(taken) /\ Ws!Start(taken) <= got
      /\ frames \in Seq(Frames) /\ taken \in 0..Len(frames)
  BY <1>1 DEF WsInv, WsTypes, Waits, Between
<1>4. Ws!Start(taken) \in Nat /\ Ws!Start(Len(frames)) \in Nat
  BY <1>3, StartIsNat, LenProperties
<1>5. WsTypes'
  BY <1>1, <1>2, <1>3 DEF WsInv, WsTypes
<1>6. /\ Ws!Start(taken)' = Ws!Start(taken) /\ Ws!Start(Len(frames))' = Ws!Start(Len(frames))
      /\ \A at : DataTold(at) => DataTold(at)'
  BY <1>1, ToldSame
<1>7. Between'
  BY <1>1, <1>2, <1>3, <1>4, <1>6 DEF Between
<1>8. Loops'
  BY <1>1, <1>2, <1>3, <1>4, <1>6 DEF Loops
<1>9. Waits' /\ Strays'
  BY <1>1 DEF Waits, Strays
<1>10. (\E at : DataTold(at))'
  BY <1>6 DEF WsInv
<1> QED
  BY <1>5, <1>7, <1>8, <1>9, <1>10 DEF WsInv

LEMMA WsPeerSends == ASSUME WsInv, NEW h \in Frames, Ws!PeerSends(h) PROVE WsInv'
<1>1. /\ frames' = Append(frames, h)
      /\ UNCHANGED <<begin, end, state, bytes, incomplete, got, taken, told>>
  BY DEF Ws!PeerSends
<1>2. PICK n \in Nat : n = Len(frames)
  BY LenProperties DEF WsInv, WsTypes
<1>3. /\ frames \in Seq(Frames) /\ taken \in 0..n /\ told \in Seq(Frames)
      /\ begin \in Nat /\ end \in Nat /\ begin <= end /\ got \in Nat
  BY <1>2 DEF WsInv, WsTypes
<1>4. /\ frames' \in Seq(Frames) /\ Len(frames') = n + 1 /\ frames'[n + 1] = h
      /\ \A k \in 1..n : frames'[k] = frames[k]
  BY <1>1, <1>2, <1>3, AppendProperties
<1>5. SubSeq(frames', 1, n) = frames /\ SubSeq(frames, 1, n) = frames
  BY <1>1, <1>2, <1>3, <1>4, SubSeqProperties
<1>6. SubSeq(frames', 1, n + 1) = frames'
  BY <1>3, <1>4, SubSeqProperties
<1>7. SubSeq(frames', 1, taken) = SubSeq(frames, 1, taken)
  BY <1>2, <1>3, <1>4, SubSeqProperties
<1>8. Ws!Start(taken)' = Ws!Start(taken)
  BY <1>1, <1>7 DEF Ws!Start
<1>9. Ws!Length(h) \in Nat /\ 0 < Ws!Length(h)
  BY FrameIs
<1>10. /\ Ws!Extent(frames) \in Nat
       /\ Ws!Extent(frames') = Ws!Extent(frames) + Ws!Length(h)
  BY <1>1, <1>3, ExtentNext
<1>11. Ws!Start(n) = Ws!Extent(frames) /\ Ws!Start(Len(frames))' = Ws!Extent(frames')
  BY <1>4, <1>5, <1>6 DEF Ws!Start
<1>12. Ws!Start(taken) \in Nat
  BY <1>2, <1>3, StartIsNat
<1>13. WsTypes'
  BY <1>1, <1>2, <1>3, <1>4 DEF WsInv, WsTypes
<1>14. Between'
  BY <1>1, <1>2, <1>3, <1>8, <1>9, <1>10, <1>11, <1>12 DEF WsInv, Between
<1>15. ASSUME state' = "posted"
       PROVE  /\ end' - begin' = got' - Ws!Start(taken)'
              /\ taken' < Len(frames') => end' - begin' < Ws!Length(Ws!Header')
  <2>1. end - begin = got - Ws!Start(taken) /\ (taken < n => end - begin < Ws!Length(Ws!Header))
    BY <1>1, <1>2, <1>15 DEF WsInv, Waits
  <2>2. CASE taken < n
    <3>1. taken + 1 \in 1..n
      BY <1>3, <2>2
    <3>2. Ws!Header' = Ws!Header
      BY <1>1, <1>4, <3>1 DEF Ws!Header
    <3> QED
      BY <1>1, <1>8, <2>1, <2>2, <3>2
  <2>3. CASE ~(taken < n)
    <3>1. taken = n
      BY <1>3, <2>3
    <3>2. Ws!Header' = h
      BY <1>1, <1>4, <3>1 DEF Ws!Header
    <3>3. got = Ws!Start(taken)
      BY <1>2, <1>3, <1>12, <3>1 DEF WsInv, Between
    <3>4. end - begin = 0
      BY ONLY <1>12, <2>1, <3>3
    <3> QED
      BY <1>1, <1>8, <1>9, <2>1, <3>2, <3>4
  <2> QED
    BY <2>2, <2>3
<1>16. Waits'
  BY <1>15 DEF Waits
<1>17. Loops'
  BY <1>1, <1>8 DEF WsInv, Loops
<1>17a. ASSUME state' = "astray"
        PROVE  /\ taken' < Len(frames')
               /\ ~Ws!Header'.mask \/ ~Ws!Arrived' \/ Ws!Length(Ws!Header') >= Word
  <2>1. taken < n /\ (~Ws!Header.mask \/ ~Ws!Arrived \/ Ws!Length(Ws!Header) >= Word)
    BY <1>1, <1>2, <1>17a DEF WsInv, Strays
  <2>2. taken + 1 \in 1..n
    BY <1>3, <2>1
  <2>3. Ws!Header' = Ws!Header
    BY <1>1, <1>4, <2>2 DEF Ws!Header
  <2>4. Ws!Arrived' <=> Ws!Arrived
    BY <1>1, <2>3 DEF Ws!Arrived
  <2>5. taken' < Len(frames')
    BY <1>1, <1>2, <1>3, <1>4, <2>1
  <2> QED
    BY <2>1, <2>3, <2>4, <2>5
<1>17b. Strays'
  BY <1>17a DEF Strays
<1>18. PICK at : DataTold(at)
  BY DEF WsInv
<1>19. \A k \in 1..taken : frames'[k] = frames[k]
  BY <1>3, <1>4
<1>20. {k \in 1..taken : frames'[k].op = "data"} = {k \in 1..taken : frames[k].op = "data"}
  BY ONLY <1>19
<1>21. DataTold(at)'
  BY <1>1, <1>18, <1>19, <1>20 DEF DataTold
<1> QED
  BY <1>13, <1>14, <1>16, <1>17, <1>17b, <1>21 DEF WsInv

\* A frame that was handled is told when it is data.
LEMMA OneMoreTold ==
    ASSUME NEW at, DataTold(at), told \in Seq(Frames), taken \in Nat,
           taken' = taken + 1, frames' = frames,
           told' = IF Ws!Header.op = "data" THEN Append(told, Ws!Header) ELSE told
    PROVE  (\E to : DataTold(to))'
<1>1. PICK n \in Nat : n = Len(told) /\ DOMAIN told = 1..n
  BY LenProperties
<1>2. /\ at \in [1..n -> 1..taken] /\ \A i \in 1..n : told[i] = frames[at[i]]
      /\ \A i, k \in 1..n : i < k => at[i] < at[k]
      /\ {at[i] : i \in 1..n} = {k \in 1..taken : frames[k].op = "data"}
  BY <1>1 DEF DataTold
<1>3. 1..(taken + 1) = 1..taken \cup {taken + 1} /\ taken + 1 \notin 1..taken
  OBVIOUS
<1>4. CASE Ws!Header.op # "data"
  <2>1. told' = told
    BY <1>4
  <2>2. at \in [1..n -> 1..(taken + 1)]
    BY <1>2, <1>3
  <2>3. {k \in 1..(taken + 1) : frames[k].op = "data"} = {k \in 1..taken : frames[k].op = "data"}
    BY <1>3, <1>4 DEF Ws!Header
  <2>4. DataTold(at)'
    BY <1>1, <1>2, <2>1, <2>2, <2>3 DEF DataTold
  <2> QED
    BY <2>4
<1>5. CASE Ws!Header.op = "data"
  <2>1. told' = Append(told, Ws!Header)
    BY <1>5
  <2>2. /\ DOMAIN told' = 1..(n + 1) /\ told'[n + 1] = Ws!Header
        /\ \A i \in 1..n : told'[i] = told[i]
    BY <1>1, <2>1
  <2>3. PICK to : to = [i \in 1..(n + 1) |-> IF i = n + 1 THEN taken + 1 ELSE at[i]]
    OBVIOUS
  <2>4. 1..(n + 1) = 1..n \cup {n + 1} /\ n + 1 \notin 1..n /\ \A i \in 1..n : i < n + 1 /\ ~(n + 1 < i)
    OBVIOUS
  <2>5. to[n + 1] = taken + 1 /\ \A i \in 1..n : to[i] = at[i] /\ at[i] \in 1..taken
    BY <1>2, <2>3, <2>4
  <2>6. to \in [1..(n + 1) -> 1..(taken + 1)]
    BY <1>3, <2>3, <2>4, <2>5
  <2>7. \A i \in 1..(n + 1) : told'[i] = frames[to[i]]
    BY <1>2, <2>2, <2>4, <2>5 DEF Ws!Header
  <2>8. \A i, k \in 1..(n + 1) : i < k => to[i] < to[k]
    <3>1. SUFFICES ASSUME NEW i \in 1..(n + 1), NEW k \in 1..(n + 1), i < k
                   PROVE  to[i] < to[k]
      OBVIOUS
    <3>2. i \in 1..n
      BY <3>1
    <3>3. CASE k \in 1..n
      BY <1>2, <2>5, <3>1, <3>2, <3>3
    <3>4. CASE k = n + 1
      <4>1. at[i] < taken + 1
        BY <2>5, <3>2
      <4> QED
        BY <2>5, <3>2, <3>4, <4>1
    <3> QED
      BY <2>4, <3>3, <3>4
  <2>9. {to[i] : i \in 1..(n + 1)} = {at[i] : i \in 1..n} \cup {taken + 1}
    BY ONLY <2>4, <2>5
  <2>10. {k \in 1..(taken + 1) : frames[k].op = "data"}
            = {k \in 1..taken : frames[k].op = "data"} \cup {taken + 1}
    BY <1>3, <1>5 DEF Ws!Header
  <2>11. DataTold(to)'
    BY <1>2, <2>2, <2>6, <2>7, <2>8, <2>9, <2>10 DEF DataTold
  <2> QED
    BY <2>11
<1> QED
  BY <1>4, <1>5

LEMMA WsDeliver == ASSUME WsInv, Ws!Deliver PROVE WsInv'
<1>1. /\ state = "handling" /\ bytes > 0 /\ Ws!Length(Ws!Header) <= incomplete
      /\ taken' = taken + 1 /\ bytes' = bytes - (Ws!Length(Ws!Header) - (end - begin))
      /\ incomplete' = incomplete - Ws!Length(Ws!Header)
      /\ begin' = begin + Ws!Length(Ws!Header) /\ end' = begin'
      /\ UNCHANGED <<state, frames, got>>
      /\ told' = IF Ws!Header.op = "data" THEN Append(told, Ws!Header) ELSE told
  BY DEF Ws!Deliver, Ws!Fits, Ws!Looping, Ws!Preprocess, Ws!Rest
<1>2. PICK z \in Nat : z = Ws!Length(Ws!Header)
  BY <1>1, HeaderThere
<1>3. PICK s \in Nat : s = Ws!Start(taken)
  BY <1>1, HeaderThere
<1>4. /\ taken < Len(frames) /\ Ws!Header \in Frames /\ Ws!Start(taken + 1) = s + z
  BY <1>1, <1>2, <1>3, HeaderThere
<1>5. /\ begin \in Nat /\ end \in Nat /\ begin <= end /\ bytes \in Nat /\ incomplete \in Nat
      /\ (end - begin) + bytes = incomplete /\ incomplete = got - s /\ got \in Nat
      /\ frames \in Seq(Frames) /\ told \in Seq(Frames) /\ taken \in 0..Len(frames)
      /\ Len(frames) \in Nat /\ got <= Ws!Start(Len(frames))
  BY <1>1, <1>3, LenProperties DEF WsInv, WsTypes, Loops, Between
<1>6. /\ incomplete' = incomplete - z /\ bytes' = incomplete - z /\ z <= incomplete
      /\ incomplete' \in Nat /\ bytes' \in Nat /\ begin' \in Nat /\ end' = begin'
  <2>1. incomplete' = incomplete - z /\ bytes' = bytes - (z - (end - begin)) /\ z <= incomplete
        /\ begin' = begin + z /\ end' = begin'
    BY <1>1, <1>2
  <2>2. PICK i \in Nat, b \in Nat, e \in Nat, r \in Nat :
            i = incomplete /\ b = begin /\ e = end /\ r = bytes
    BY <1>5
  <2>3. (e - b) + r = i /\ b <= e /\ z <= i
    BY <1>5, <2>1, <2>2
  <2>4. r - (z - (e - b)) = i - z /\ i - z \in Nat /\ b + z \in Nat
    BY ONLY <2>3
  <2> QED
    BY <2>1, <2>2, <2>4
<1>7. /\ Ws!Start(taken)' = s + z
      /\ Ws!Start(Len(frames))' = Ws!Start(Len(frames))
  BY <1>1, <1>4 DEF Ws!Start
<1>8. told' \in Seq(Frames)
  BY <1>1, <1>4, <1>5, AppendProperties
<1>9. WsTypes'
  <2>1. taken' \in 0..Len(frames')
    BY <1>1, <1>4, <1>5
  <2>2. begin' <= end'
    BY <1>6
  <2>3. got' \in Nat /\ frames' \in Seq(Frames) /\ state' \in {"handling"}
    BY <1>1, <1>5
  <2> QED
    BY <1>6, <1>8, <2>1, <2>2, <2>3 DEF WsTypes
<1>10. /\ s + z <= got /\ incomplete - z = got - (s + z)
  BY <1>5, <1>6
<1>11. Between'
  BY <1>1, <1>5, <1>7, <1>10 DEF Between
<1>12. Waits' /\ Strays'
  BY <1>1 DEF Waits, Strays
<1>13. Loops'
  <2>1. (end' - begin') + bytes' = incomplete' /\ incomplete' = got' - (s + z)
    BY <1>1, <1>6, <1>10
  <2>2. bytes' = 0 => got' = s + z
    BY <1>1, <1>5, <1>6, <1>10
  <2> QED
    BY <1>6, <1>7, <2>1, <2>2 DEF Loops
<1>14. taken \in Nat
  BY <1>5
<1>15. PICK at : DataTold(at)
  BY DEF WsInv
<1>16. (\E to : DataTold(to))'
  BY <1>1, <1>5, <1>14, <1>15, OneMoreTold
<1> QED
  BY <1>9, <1>11, <1>12, <1>13, <1>16 DEF WsInv

\* What is misread is unmasked, its length has not arrived, or it does not fit in 16 bits.
LEMMA WsMisread == ASSUME WsInv, Ws!Misread PROVE WsInv'
<1>1. state = "handling" /\ bytes > 0 /\ Ws!Ends("astray")
  BY DEF Ws!Misread, Ws!Looping
<1>2. taken < Len(frames)
  BY <1>1, HeaderThere
<1>3. ~Ws!Header.mask \/ ~Ws!Arrived \/ Ws!Length(Ws!Header) >= Word
  <2>1. SUFFICES ASSUME Ws!Header.mask, Ws!Arrived, ~(Ws!Length(Ws!Header) >= Word)
                 PROVE  FALSE
    OBVIOUS
  <2>2. PICK n \in Ws!SizeRead : n # Ws!Length(Ws!Header) \/ Ws!Overwritten
    BY DEF Ws!Misread
  <2>3. n = Ws!Size(Ws!Header) /\ ~Ws!Overwritten
    BY <2>1, <2>2 DEF Ws!SizeRead, Ws!Overwritten
  <2>4. Ws!Length(Ws!Header) < Word
    BY <1>1, <2>1, HeaderThere, LibraryAssumption
  <2> QED
    BY <1>1, <2>2, <2>3, <2>4, HeaderThere
<1> QED
  BY <1>1, <1>2, <1>3, WsEnds

LEMMA WsKeeps == ASSUME WsInv, Ws!Next PROVE WsInv'
<1>1. CASE \E h \in Frames : Ws!PeerSends(h)
  BY <1>1, WsPeerSends
<1>2. CASE \E n \in 1..MaxSize : Ws!Received(n)
  BY <1>2, WsReceived
<1>3. CASE Ws!PeerCloses \/ Ws!BadFrame \/ Ws!PeerDisconnects
  <2>1. Ws!Ends("closed")
    BY <1>3 DEF Ws!PeerCloses, Ws!BadFrame, Ws!PeerDisconnects
  <2> QED
    BY <2>1, WsEnds
<1>4. CASE \E n \in 1..MaxSize : Ws!Overrun(n)
  <2>1. Ws!Ends("overrun")
    BY <1>4 DEF Ws!Overrun
  <2> QED
    BY <2>1, WsEnds
<1>5. CASE Ws!Keep
  BY <1>5, WsKeep
<1>6. CASE Ws!Deliver
  BY <1>6, WsDeliver
<1>7. CASE Ws!Misread
  BY <1>7, WsMisread
<1>8. CASE Ws!LoopEnds
  BY <1>8, WsLoopEnds
<1> QED
  BY <1>1, <1>2, <1>3, <1>4, <1>5, <1>6, <1>7, <1>8 DEF Ws!Next

\* Between two receives the buffer holds the beginning of the frame after those that were
\* handled, and never a whole frame; Completed looks at what the buffer and the receive
\* hold together; and the messages are the data frames, in the order in which the peer
\* sent them, however the stream is cut (HNetIoWsRecv::Completed, RecvWs, GetWsaBuf).
\* The frames are of any length.  Completed loses its place in the stream only over one
\* that is unmasked, whose extended length has not arrived, or that does not fit in 16
\* bits (lines 1013-1034, Header::Size, ToPacket).
THEOREM FramesComeWhole == Spec => []FramesInOrder
<1>1. Init => WsInv
  BY WsInit DEF Init
<1>2. WsInv /\ [Next]_vars => WsInv'
  <2> SUFFICES ASSUME WsInv, [Next]_vars PROVE WsInv'
    OBVIOUS
  <2>1. Ws!Next \/ UNCHANGED wsVars
    BY DEF Next, Only, vars
  <2> QED
    BY <2>1, WsSame, WsKeeps
<1>3. WsInv => FramesInOrder
  <2> SUFFICES ASSUME WsInv PROVE Ws!FramesInOrder
    BY DEF FramesInOrder
  <2>1. state = "posted" => /\ end - begin = got - Ws!Start(taken)
                            /\ taken < Len(frames) => end - begin < Ws!Length(Ws!Header)
    BY DEF WsInv, Waits
  <2>2. Ws!Looping => (end - begin) + bytes = incomplete /\ incomplete = got - Ws!Start(taken)
    BY DEF WsInv, Loops, Ws!Looping
  <2>3. PICK at : DataTold(at)
    BY DEF WsInv
  <2>4. state = "astray" => ~Ws!Header.mask \/ ~Ws!Arrived \/ Ws!Length(Ws!Header) >= Word
    BY DEF WsInv, Strays
  <2> QED
    BY <2>1, <2>2, <2>3, <2>4 DEF DataTold, Ws!FramesInOrder
<1> QED
  BY <1>1, <1>2, <1>3, PTL DEF Spec

-----------------------------------------------------------------------------
(***************************************************************************)
(* WordFilter: the walk through the tree, one character after the other    *)
(***************************************************************************)
LEMMA Upwards ==
    ASSUME NEW n \in Nat, NEW G, 0 \in G, \A j \in 1..n : j - 1 \in G => j \in G
    PROVE  \A j \in 0..n : j \in G
<1> DEFINE T == {j \in 0..n : j \notin G}
<1> SUFFICES ASSUME T # {} PROVE FALSE
  OBVIOUS
<1>1. T \in SUBSET Nat
  OBVIOUS
<1>2. PICK k \in T : \A m \in T : k <= m
  <2> HIDE DEF T
  <2> QED
    BY <1>1, Least
<1>3. k \in 1..n /\ k - 1 \in 0..n /\ ~(k <= k - 1)
  OBVIOUS
<1>4. k - 1 \in G
  BY <1>2, <1>3
<1> QED
  BY <1>3, <1>4

\* p[j] is where the walk is after j characters of s.
Trail(p, s) == /\ p \in [0..Len(s) -> Seq(Letters)] /\ p[0] = <<>>
               /\ \A j \in 1..Len(s) : p[j] = Filter!Walk(p[j - 1], s[j])

LEMMA TrailExists ==
    ASSUME NEW s \in Seq(Letters)
    PROVE  \E p : Trail(p, s) /\ Filter!Path(s) = p[Len(s)]
<1> DEFINE n == Len(s)
           D == Seq(Letters)
           F == [j \in 1..n |-> [v \in D |-> Filter!Walk(v, s[j])]]
           Form(g) == [i \in SUBSET (1..n) |-> IF i = {} THEN <<>>
                        ELSE Filter!Walk(g[i \ {Highest(i)}], s[Highest(i)])]
           it == CHOOSE g : g = Form(g)
           p == [j \in 0..n |-> it[1..j]]
<1>1. n \in Nat /\ DOMAIN s = 1..n
  BY LenProperties
<1>2. Filter!Path(s) = it[1..n]
  BY <1>1 DEF Filter!Path, Filter!FoldLeft, Filter!MapThenFoldSet, Filter!Max, Highest
<1>3. \A j \in 1..n : s[j] \in Letters
  BY ElementOfSeq
<1>4. \A v \in D, c \in Letters : Filter!Walk(v, c) \in D
  BY AppendProperties DEF Filter!Walk
<1> HIDE DEF n, D
<1>5. F \in [1..n -> [D -> D]] /\ <<>> \in D
  <2>1. F \in [1..n -> [D -> D]]
    BY <1>3, <1>4
  <2> QED
    BY <2>1, EmptySeq DEF D
<1>6. PICK g \in [SUBSET (1..n) -> D] : \A i \in SUBSET (1..n) : Recurs(g, F, <<>>, i)
  <2> HIDE DEF F
  <2> QED
    BY <1>1, <1>5, FoldExists
<1>7. \A i \in SUBSET (1..n) : i # {} => Highest(i) \in 1..n /\ i \ {Highest(i)} \in SUBSET (1..n)
  BY <1>1, HighestIs
<1>8. ASSUME NEW i \in SUBSET (1..n)
      PROVE  g[i] = Form(g)[i]
  <2>1. CASE i = {}
    BY <1>6, <2>1 DEF Recurs
  <2>2. CASE i # {}
    <3>1. Highest(i) \in 1..n /\ g[i \ {Highest(i)}] \in D
      BY <1>6, <1>7, <2>2
    <3>2. F[Highest(i)][g[i \ {Highest(i)}]] = Filter!Walk(g[i \ {Highest(i)}], s[Highest(i)])
      BY <3>1
    <3>3. g[i] = F[Highest(i)][g[i \ {Highest(i)}]]
      BY <1>6, <2>2 DEF Recurs
    <3> QED
      BY <2>2, <3>2, <3>3
  <2> QED
    BY <2>1, <2>2
<1>9. g = Form(g)
  <2>1. Form(g) = [i \in SUBSET (1..n) |-> Form(g)[i]]
    OBVIOUS
  <2>2. g = [i \in SUBSET (1..n) |-> g[i]]
    OBVIOUS
  <2> HIDE DEF Form
  <2> QED
    BY <1>8, <2>1, <2>2
<1>10. it = Form(it)
  <2> HIDE DEF Form
  <2> QED
    BY ONLY <1>9
<1>11. \A i \in SUBSET (1..n) : it[i] = IF i = {} THEN <<>>
                                        ELSE Filter!Walk(it[i \ {Highest(i)}], s[Highest(i)])
  <2>1. \A i \in SUBSET (1..n) : it[i] = Form(it)[i]
    <3> HIDE DEF Form, it
    <3> QED
      BY <1>10
  <2> HIDE DEF it
  <2> QED
    BY <2>1
<1> HIDE DEF it
<1>12. p[0] = <<>>
  <2>1. 1..0 = {} /\ {} \in SUBSET (1..n) /\ 0 \in 0..n
    BY <1>1
  <2>2. it[{}] = <<>>
    BY <1>11, <2>1
  <2> QED
    BY <2>1, <2>2
<1>13. ASSUME NEW j \in 1..n
       PROVE  p[j] = Filter!Walk(p[j - 1], s[j])
  <2>1. it[1..j] = Filter!Walk(it[1..(j - 1)], s[j])
    <3>1. /\ 1..j \in SUBSET (1..n) /\ 1..j # {} /\ Highest(1..j) = j
          /\ (1..j) \ {j} = 1..(j - 1)
      BY <1>1, Beginning
    <3> QED
      BY <1>11, <3>1
  <2>2. j \in 0..n /\ j - 1 \in 0..n
    BY <1>1
  <2> QED
    BY <2>1, <2>2
<1>14. p[n] = it[1..n]
  BY <1>1
<1>15. p = [j \in 0..n |-> p[j]]
  OBVIOUS
<1> HIDE DEF p
<1>16. p \in [0..n -> D]
  <2>1. \A j \in 1..n : p[j - 1] \in D => p[j] \in D
    BY <1>3, <1>4, <1>13
  <2>2. p[0] \in D
    BY <1>5, <1>12
  <2>3. \A j \in 0..n : p[j] \in D
    BY ONLY <1>1, <2>1, <2>2, FoldStays
  <2> QED
    BY <1>15, <2>3
<1>17. Trail(p, s)
  BY <1>12, <1>13, <1>16 DEF Trail, n, D
<1> QED
  BY <1>2, <1>14, <1>17 DEF n

LEMMA PrefixIs ==
    ASSUME NEW s \in Seq(Letters), NEW t \in Seq(Letters)
    PROVE  Filter!IsPrefix(s, t) <=> Len(s) <= Len(t) /\ \A i \in 1..Len(s) : s[i] = t[i]
<1>1. Len(s) \in Nat /\ Len(t) \in Nat
  BY LenProperties
<1>2. /\ SubSeq(s, 1, Len(s)) \in Seq(Letters) /\ Len(SubSeq(s, 1, Len(s))) = Len(s)
      /\ \A i \in 1..Len(s) : SubSeq(s, 1, Len(s))[i] = s[i]
  BY <1>1
<1>3. ASSUME Len(s) <= Len(t)
      PROVE  /\ SubSeq(t, 1, Len(s)) \in Seq(Letters) /\ Len(SubSeq(t, 1, Len(s))) = Len(s)
             /\ \A i \in 1..Len(s) : SubSeq(t, 1, Len(s))[i] = t[i]
  <2>1. \A i \in 1..Len(s) : i \in 1..Len(t) /\ t[i] \in Letters
    BY <1>1, <1>3, ElementOfSeq
  <2> QED
    BY <1>1, <2>1
<1>4. ASSUME Len(s) <= Len(t)
      PROVE  SubSeq(s, 1, Len(s)) = SubSeq(t, 1, Len(s)) <=> \A i \in 1..Len(s) : s[i] = t[i]
  <2> DEFINE a == SubSeq(s, 1, Len(s))
             b == SubSeq(t, 1, Len(s))
  <2>1. /\ a \in Seq(Letters) /\ b \in Seq(Letters) /\ Len(a) = Len(s) /\ Len(b) = Len(s)
        /\ \A i \in 1..Len(s) : a[i] = s[i] /\ b[i] = t[i]
    BY <1>2, <1>3, <1>4
  <2> HIDE DEF a, b
  <2>2. (\A i \in 1..Len(s) : s[i] = t[i]) => a = b
    BY <2>1, SeqEqual
  <2>3. a = b => \A i \in 1..Len(s) : s[i] = t[i]
    BY <2>1
  <2> QED
    BY <2>2, <2>3 DEF a, b
<1> QED
  BY <1>4 DEF Filter!IsPrefix

\* One more character follows the word or does not.
LEMMA PrefixNext ==
    ASSUME NEW s \in Seq(Letters), NEW t \in Seq(Letters), Filter!IsPrefix(s, t), NEW c \in Letters
    PROVE  /\ Append(s, c) \in Seq(Letters) /\ Len(Append(s, c)) = Len(s) + 1
           /\ Len(s) \in Nat /\ Len(t) \in Nat /\ Len(s) <= Len(t)
           /\ Len(s) = Len(t) <=> s = t
           /\ Filter!IsPrefix(Append(s, c), t) <=> Len(s) < Len(t) /\ t[Len(s) + 1] = c
<1>1. Len(s) \in Nat /\ Len(t) \in Nat
  BY LenProperties
<1>2. /\ Append(s, c) \in Seq(Letters) /\ Len(Append(s, c)) = Len(s) + 1
      /\ Append(s, c)[Len(s) + 1] = c /\ \A i \in 1..Len(s) : Append(s, c)[i] = s[i]
  BY AppendProperties
<1>3. Len(s) <= Len(t) /\ \A i \in 1..Len(s) : s[i] = t[i]
  BY PrefixIs
<1>4. Len(s) = Len(t) => s = t
  BY <1>3, SeqEqual
<1>5. (\A i \in 1..(Len(s) + 1) : Append(s, c)[i] = t[i]) <=> t[Len(s) + 1] = c
  <2>1. \A i \in 1..(Len(s) + 1) : i \in 1..Len(s) \/ i = Len(s) + 1
    BY <1>1
  <2>2. Len(s) + 1 \in 1..(Len(s) + 1)
    BY <1>1
  <2> QED
    BY <1>2, <1>3, <2>1, <2>2
<1>6. Filter!IsPrefix(Append(s, c), t) <=>
         Len(s) + 1 <= Len(t) /\ \A i \in 1..(Len(s) + 1) : Append(s, c)[i] = t[i]
  BY <1>2, PrefixIs
<1>7. Len(s) + 1 <= Len(t) <=> Len(s) < Len(t)
  BY <1>1
<1> QED
  BY <1>1, <1>2, <1>3, <1>4, <1>5, <1>6, <1>7

\* What the walk has taken is in the string, in order.
LEMMA TrailHolds ==
    ASSUME NEW s \in Seq(Letters), NEW p, Trail(p, s)
    PROVE  Filter!Holds(s, p[Len(s)])
<1> DEFINE n == Len(s)
           Into(f, j) == /\ f \in [1..Len(p[j]) -> 1..j]
                         /\ \A i \in 1..Len(p[j]) : s[f[i]] = p[j][i]
                         /\ \A i, k \in 1..Len(p[j]) : i < k => f[i] < f[k]
           G == {j \in 0..n : \E f : Into(f, j)}
<1>1. n \in Nat /\ DOMAIN s = 1..n
  BY LenProperties
<1>2. \A j \in 0..n : p[j] \in Seq(Letters) /\ Len(p[j]) \in Nat /\ DOMAIN p[j] = 1..Len(p[j])
  BY LenProperties DEF Trail
<1>3. 0 \in G
  <2>1. p[0] = <<>> /\ Len(p[0]) = 0 /\ 1..0 = {}
    BY EmptySeq DEF Trail
  <2>2. PICK f : f = [i \in 1..0 |-> 0]
    OBVIOUS
  <2>3. Into(f, 0)
    BY <2>1, <2>2
  <2> QED
    BY <1>1, <2>3
<1>4. ASSUME NEW j \in 1..n, j - 1 \in G
      PROVE  j \in G
  <2>1. j - 1 \in 0..n /\ j \in 0..n /\ j \in Nat
    BY <1>1
  <2>2. PICK f : Into(f, j - 1)
    BY <1>4
  <2>3. p[j] = p[j - 1] \/ p[j] = Append(p[j - 1], s[j])
    BY DEF Trail, Filter!Walk
  <2>4. CASE p[j] = p[j - 1]
    <3>1. Len(p[j]) = Len(p[j - 1]) /\ f \in [1..Len(p[j]) -> 1..j]
      <4>1. 1..(j - 1) \subseteq 1..j
        BY <2>1
      <4> QED
        BY <2>2, <2>4, <4>1
    <3>2. Into(f, j)
      BY <2>2, <2>4, <3>1
    <3> QED
      BY <2>1, <3>2
  <2>5. CASE p[j] = Append(p[j - 1], s[j])
    <3> DEFINE L == Len(p[j - 1])
    <3>1. L \in Nat /\ p[j - 1] \in Seq(Letters) /\ s[j] \in Letters
      BY <1>2, <2>1, ElementOfSeq
    <3>2. Len(p[j]) = L + 1 /\ p[j][L + 1] = s[j] /\ \A i \in 1..L : p[j][i] = p[j - 1][i]
      BY <2>5, <3>1, AppendProperties
    <3>3. /\ f \in [1..L -> 1..(j - 1)] /\ \A i \in 1..L : s[f[i]] = p[j - 1][i]
          /\ \A i, k \in 1..L : i < k => f[i] < f[k]
      BY <2>2
    <3> HIDE DEF L, Into
    <3>4. PICK h : h = [i \in 1..(L + 1) |-> IF i = L + 1 THEN j ELSE f[i]]
      OBVIOUS
    <3>5. \A i \in 1..(L + 1) : i \in 1..L \/ i = L + 1
      BY <3>1
    <3>6. \A i \in 1..L : i \in 1..(L + 1) /\ i # L + 1 /\ f[i] \in 1..(j - 1) /\ h[i] = f[i]
      BY <3>1, <3>3, <3>4
    <3>7. L + 1 \in 1..(L + 1) /\ h[L + 1] = j
      BY <3>1, <3>4
    <3>8. h \in [1..(L + 1) -> 1..j]
      <4>1. \A i \in 1..(L + 1) : h[i] \in 1..j
        BY <2>1, <3>5, <3>6, <3>7
      <4> QED
        BY <3>4, <4>1
    <3>9. \A i \in 1..(L + 1) : s[h[i]] = p[j][i]
      BY <3>2, <3>3, <3>5, <3>6, <3>7
    <3>10. ASSUME NEW i \in 1..(L + 1), NEW k \in 1..(L + 1), i < k
           PROVE  h[i] < h[k]
      <4>1. i \in 1..L
        BY <3>1, <3>10
      <4>2. CASE k = L + 1
        BY <2>1, <3>6, <3>7, <4>1, <4>2
      <4>3. CASE k \in 1..L
        BY <3>3, <3>6, <3>10, <4>1, <4>3
      <4> QED
        BY <3>5, <4>2, <4>3
    <3>11. Into(h, j)
      BY <3>2, <3>8, <3>9, <3>10 DEF Into
    <3> QED
      BY <2>1, <3>11
  <2> QED
    BY <2>3, <2>4, <2>5
<1>5. n \in G
  <2> HIDE DEF G, n
  <2>1. \A j \in 0..n : j \in G
    BY ONLY <1>1, <1>3, <1>4, Upwards
  <2> QED
    BY <1>1, <2>1
<1>6. PICK f : Into(f, n)
  BY <1>5
<1>7. n \in 0..n
  BY <1>1
<1> QED
  BY <1>1, <1>2, <1>6, <1>7 DEF Filter!Holds

\* A walk that has come to a word stays there.
LEMMA WordStays ==
    ASSUME NEW s \in Seq(Letters), NEW p, Trail(p, s), NEW j \in 1..Len(s), p[j - 1] \in words
    PROVE  p[j] = p[j - 1]
  BY DEF Trail, Filter!Walk

\* A word at the start of the string is found, whatever else is registered.
LEMMA StartFound ==
    ASSUME NEW s \in Seq(Letters), NEW p, Trail(p, s), words \subseteq Seq(Letters),
           NEW w \in words, Filter!IsPrefix(w, s)
    PROVE  p[Len(s)] \in words
<1> DEFINE n == Len(s)
           Follows(j) == /\ j <= Len(w) /\ Len(p[j]) = j
                         /\ \A i \in 1..j : p[j][i] = s[i]
           G == {j \in 0..n : p[j] \in words \/ Follows(j)}
<1>1. n \in Nat /\ w \in Seq(Letters) /\ Len(w) \in Nat
  BY LenProperties
<1>2. \A j \in 0..n : p[j] \in Seq(Letters)
  BY DEF Trail
<1>3. Len(w) <= n /\ \A i \in 1..Len(w) : w[i] = s[i]
  BY <1>1, PrefixIs
<1>4. 0 \in G
  <2>1. p[0] = <<>> /\ Len(p[0]) = 0 /\ 1..0 = {}
    BY EmptySeq DEF Trail
  <2> QED
    BY <1>1, <2>1
<1>5. \A j \in 0..n : Follows(j) /\ j = Len(w) => p[j] = w
  BY <1>1, <1>2, <1>3, SeqEqual
<1>6. \A j \in 0..n : Follows(j) => Filter!IsPrefix(p[j], w)
  <2> SUFFICES ASSUME NEW j \in 0..n, Follows(j) PROVE Filter!IsPrefix(p[j], w)
    OBVIOUS
  <2>1. \A i \in 1..j : i \in 1..Len(w) /\ p[j][i] = w[i]
    BY <1>1, <1>3
  <2> QED
    BY <1>1, <1>2, <2>1, PrefixIs
<1>7. ASSUME NEW j \in 1..n, j - 1 \in G
      PROVE  j \in G
  <2>1. j - 1 \in 0..n /\ j \in 0..n /\ j \in Nat /\ s[j] \in Letters
    BY <1>1, ElementOfSeq
  <2>2. CASE p[j - 1] \in words
    BY <2>1, <2>2, WordStays
  <2>3. CASE p[j - 1] \notin words
    <3>1. Follows(j - 1) /\ j - 1 # Len(w)
      BY <1>5, <1>7, <2>1, <2>3
    <3>2. p[j - 1] \in Seq(Letters) /\ Filter!IsPrefix(p[j - 1], w) /\ Len(p[j - 1]) = j - 1 /\ j <= Len(w)
      BY <1>1, <1>2, <1>6, <2>1, <3>1
    <3>3. w[(j - 1) + 1] = s[j] /\ (j - 1) + 1 = j
      BY <1>3, <2>1, <3>2
    <3>4. Filter!IsPrefix(Append(p[j - 1], s[j]), w)
      <4>1. j - 1 < Len(w)
        BY <1>1, <2>1, <3>2
      <4> QED
        BY <1>1, <2>1, <3>2, <3>3, <4>1, PrefixNext
    <3>5. p[j] = Append(p[j - 1], s[j])
      BY <2>3, <3>4 DEF Trail, Filter!Walk, Filter!Node
    <3>6. Len(p[j]) = j /\ p[j][j] = s[j] /\ \A i \in 1..(j - 1) : p[j][i] = p[j - 1][i]
      BY <2>1, <3>2, <3>3, <3>5, AppendProperties
    <3>7. \A i \in 1..j : i \in 1..(j - 1) \/ i = j
      BY <2>1
    <3>8. \A i \in 1..(j - 1) : p[j - 1][i] = s[i]
      BY <3>1
    <3>9. Follows(j)
      BY <3>2, <3>6, <3>7, <3>8
    <3> QED
      BY <2>1, <3>9
  <2> QED
    BY <2>2, <2>3
<1>8. n \in G
  <2> HIDE DEF G, n
  <2>1. \A j \in 0..n : j \in G
    BY ONLY <1>1, <1>4, <1>7, Upwards
  <2> QED
    BY <1>1, <2>1
<1>9. n \in 0..n /\ (Follows(n) => n = Len(w))
  BY <1>1, <1>3
<1> QED
  BY <1>5, <1>8, <1>9

\* The only word is found where its characters are.
LEMMA OnlyFound ==
    ASSUME NEW s \in Seq(Letters), NEW p, Trail(p, s), NEW w \in Seq(Letters), words = {w},
           Filter!Holds(s, w)
    PROVE  p[Len(s)] = w
<1> DEFINE n == Len(s)
           l == Len(w)
<1>1. n \in Nat /\ l \in Nat /\ DOMAIN w = 1..l /\ DOMAIN s = 1..n
  BY LenProperties
<1>2. PICK f \in [1..l -> 1..n] : /\ \A i \in 1..l : s[f[i]] = w[i]
                                  /\ \A i, k \in 1..l : i < k => f[i] < f[k]
  BY <1>1 DEF Filter!Holds
<1> DEFINE G == {j \in 0..n : /\ Filter!IsPrefix(p[j], w)
                              /\ \A i \in 1..l : f[i] <= j => i <= Len(p[j])}
<1>3. \A j \in 0..n : p[j] \in Seq(Letters) /\ Len(p[j]) \in Nat
  BY LenProperties DEF Trail
<1>4. 0 \in G
  <2>1. p[0] = <<>> /\ <<>> \in Seq(Letters) /\ Len(<<>>) = 0
    BY EmptySeq DEF Trail
  <2>2. Filter!IsPrefix(<<>>, w)
    <3>1. 1..0 = {} /\ 0 <= l
      BY <1>1
    <3> QED
      BY <1>1, <2>1, <3>1, PrefixIs
  <2>3. \A i \in 1..l : ~(f[i] <= 0)
    BY <1>1, <1>2
  <2> QED
    BY <1>1, <2>1, <2>2, <2>3
<1>5. ASSUME NEW j \in 1..n, j - 1 \in G
      PROVE  j \in G
  <2> DEFINE q == p[j - 1]
             L == Len(q)
  <2>1. j - 1 \in 0..n /\ j \in 0..n /\ j \in Nat /\ s[j] \in Letters
    BY <1>1, ElementOfSeq
  <2>2. q \in Seq(Letters) /\ L \in Nat /\ Filter!IsPrefix(q, w) /\ \A i \in 1..l : f[i] <= j - 1 => i <= L
    BY <1>3, <1>5, <2>1
  <2>3. \A i \in 1..l : f[i] = j => i <= L + 1
    <3> SUFFICES ASSUME NEW i \in 1..l, f[i] = j PROVE i <= L + 1
      OBVIOUS
    <3>1. CASE i = 1
      BY <2>2, <3>1
    <3>2. CASE i # 1
      <4>1. i - 1 \in 1..l /\ i - 1 < i
        BY <1>1, <3>2
      <4>2. f[i - 1] < f[i] /\ f[i - 1] \in 1..n
        BY <1>2, <4>1
      <4>3. f[i - 1] <= j - 1
        BY <1>1, <2>1, <4>2
      <4>4. i - 1 <= L
        BY <2>2, <4>1, <4>3
      <4> QED
        BY <1>1, <2>2, <4>4
    <3> QED
      BY <3>1, <3>2
  <2>4. \A i \in 1..l : f[i] <= j => f[i] <= j - 1 \/ f[i] = j
    BY <1>1, <1>2, <2>1
  <2> HIDE DEF q, L
  <2>5. /\ Append(q, s[j]) \in Seq(Letters) /\ Len(Append(q, s[j])) = L + 1 /\ L <= l
        /\ (L = l <=> q = w)
        /\ Filter!IsPrefix(Append(q, s[j]), w) <=> L < l /\ w[L + 1] = s[j]
    BY <2>1, <2>2, PrefixNext DEF L
  <2>6. p[j] = IF q = w \/ ~Filter!IsPrefix(Append(q, s[j]), w) THEN q ELSE Append(q, s[j])
    BY DEF q, Trail, Filter!Walk, Filter!Node
  <2>7. CASE q # w /\ Filter!IsPrefix(Append(q, s[j]), w)
    <3>1. p[j] = Append(q, s[j]) /\ Len(p[j]) = L + 1 /\ Filter!IsPrefix(p[j], w)
      BY <2>5, <2>6, <2>7
    <3>2. \A i \in 1..l : f[i] <= j => i <= L + 1
      BY <1>1, <2>2, <2>3, <2>4
    <3> QED
      BY <2>1, <3>1, <3>2
  <2>8. CASE q = w
    <3>1. p[j] = q /\ L = l
      BY <2>5, <2>6, <2>8
    <3>2. Filter!IsPrefix(p[j], w) /\ Len(p[j]) = l
      BY <2>2, <3>1 DEF L
    <3>3. \A i \in 1..l : i <= l
      BY <1>1
    <3> QED
      BY <2>1, <3>2, <3>3
  <2>9. CASE q # w /\ ~Filter!IsPrefix(Append(q, s[j]), w)
    <3>1. p[j] = q /\ L < l /\ w[L + 1] # s[j]
      <4>1. L # l
        BY <2>5, <2>9
      <4>2. L < l
        <5>1. L <= l /\ L \in Nat /\ l \in Nat
          BY <1>1, <2>2, <2>5
        <5> HIDE DEF l
        <5> QED
          BY ONLY <4>1, <5>1
      <4>3. w[L + 1] # s[j]
        BY <2>5, <2>9, <4>2
      <4> QED
        BY <2>6, <2>9, <4>2, <4>3
    <3>2. Filter!IsPrefix(p[j], w) /\ Len(p[j]) = L
      BY <2>2, <3>1 DEF L
    <3>3. \A i \in 1..l : f[i] = j => i # L + 1
      BY <1>2, <3>1
    <3>4. \A i \in 1..l : f[i] <= j => i <= L
      <4> SUFFICES ASSUME NEW i \in 1..l, f[i] <= j PROVE i <= L
        OBVIOUS
      <4>1. CASE f[i] = j
        <5>1. i <= L + 1 /\ i # L + 1
          BY <2>3, <3>3, <4>1
        <5> QED
          BY <1>1, <2>2, <5>1
      <4>2. CASE f[i] <= j - 1
        BY <2>2, <4>2
      <4> QED
        BY <2>4, <4>1, <4>2
    <3> QED
      BY <2>1, <3>2, <3>4
  <2> QED
    BY <2>7, <2>8, <2>9
<1>6. n \in G
  <2> HIDE DEF G, n
  <2>1. \A j \in 0..n : j \in G
    BY ONLY <1>1, <1>4, <1>5, Upwards
  <2> QED
    BY <1>1, <2>1
<1>7. p[n] \in Seq(Letters) /\ Len(p[n]) \in Nat /\ Filter!IsPrefix(p[n], w)
  BY <1>1, <1>3, <1>6
<1>8. l <= Len(p[n])
  <2>1. CASE l = 0
    BY <1>7, <2>1
  <2>2. CASE l # 0
    <3>1. l \in 1..l /\ f[l] \in 1..n /\ f[l] <= n
      BY <1>1, <1>2, <2>2
    <3> QED
      BY <1>6, <3>1
  <2> QED
    BY <2>1, <2>2
<1>9. Len(p[n]) <= l /\ \A i \in 1..Len(p[n]) : p[n][i] = w[i]
  BY <1>7, PrefixIs
<1>10. Len(p[n]) = l
  BY <1>1, <1>7, <1>8, <1>9
<1> QED
  BY <1>7, <1>9, <1>10, SeqEqual

FilterInv == /\ words \subseteq Seq(Letters) /\ looked \in Seq(Letters)
             /\ \E p : Trail(p, looked) /\ filter = p[Len(looked)]

LEMMA FilterTyped == Words \subseteq Seq(Letters) /\ Strings \subseteq Seq(Letters)
<1>1. Words \subseteq Seq(Letters)
  BY WordsAssumption
<1>2. Strings \subseteq Seq(Letters)
  <2> SUFFICES ASSUME NEW n \in 0..MaxLetters, NEW s \in [1..n -> Letters] PROVE s \in Seq(Letters)
    BY DEF Strings
  <2>1. n \in Nat
    OBVIOUS
  <2>2. \A i \in 1..n : s[i] \in Letters
    OBVIOUS
  <2>3. s = [i \in 1..n |-> s[i]] /\ s \in [1..n -> Letters]
    BY <2>2
  <2> QED
    BY <2>1, <2>3
<1> QED
  BY <1>1, <1>2

LEMMA FilterStart ==
    ASSUME words' \subseteq Seq(Letters), looked' = <<>>, filter' = <<>>
    PROVE  FilterInv'
<1> DEFINE p == [j \in 0..0 |-> <<>>]
<1>1. looked' \in Seq(Letters) /\ Len(looked') = 0 /\ <<>> \in Seq(Letters)
  BY EmptySeq
<1>2. p \in [0..0 -> Seq(Letters)] /\ p[0] = <<>> /\ 1..0 = {}
  BY <1>1
<1> HIDE DEF p
<1>3. Trail(p, looked)'
  BY <1>1, <1>2 DEF Trail
<1> QED
  BY <1>1, <1>2, <1>3 DEF FilterInv

LEMMA FilterInit == Filter!Init => FilterInv
<1> SUFFICES ASSUME Filter!Init PROVE FilterInv
  OBVIOUS
<1> DEFINE p == [j \in 0..0 |-> <<>>]
<1>1. looked \in Seq(Letters) /\ Len(looked) = 0 /\ <<>> \in Seq(Letters) /\ words = {} /\ filter = <<>>
  BY EmptySeq DEF Filter!Init
<1>2. p \in [0..0 -> Seq(Letters)] /\ p[0] = <<>> /\ 1..0 = {}
  BY <1>1
<1> HIDE DEF p
<1>3. Trail(p, looked)
  BY <1>1, <1>2 DEF Trail
<1> QED
  BY <1>1, <1>2, <1>3 DEF FilterInv

LEMMA FilterKeeps == ASSUME FilterInv, Filter!Next PROVE FilterInv'
<1>1. ASSUME NEW w \in Words, Filter!Register(w)
      PROVE  FilterInv'
  <2>1. words' = words \cup {w} /\ looked' = <<>> /\ filter' = <<>>
    BY <1>1 DEF Filter!Register
  <2>2. words' \subseteq Seq(Letters)
    BY <2>1, FilterTyped DEF FilterInv
  <2> QED
    BY <2>1, <2>2, FilterStart
<1>2. ASSUME NEW s \in Strings, Filter!IsExist(s)
      PROVE  FilterInv'
  <2>1. s \in Seq(Letters) /\ looked' = s /\ filter' = Filter!Path(s) /\ words' = words
    BY <1>2, FilterTyped DEF Filter!IsExist
  <2>2. PICK p : Trail(p, s) /\ Filter!Path(s) = p[Len(s)]
    BY <2>1, TrailExists
  <2>3. Trail(p, looked)'
    BY <2>1, <2>2 DEF Trail, Filter!Walk, Filter!Node
  <2> QED
    BY <2>1, <2>2, <2>3 DEF FilterInv
<1> QED
  BY <1>1, <1>2 DEF Filter!Next

\* A word that is reported is in the string; the only word that is registered is always
\* found, and of several one at the start of the string: Filter::IsExist.
THEOREM WordsAreFound == Spec => []WordsFound
<1>1. Init => FilterInv
  BY FilterInit DEF Init
<1>2. FilterInv /\ [Next]_vars => FilterInv'
  <2> SUFFICES ASSUME FilterInv, [Next]_vars PROVE FilterInv'
    OBVIOUS
  <2>1. Filter!Next \/ UNCHANGED filterVars
    BY DEF Next, Only, vars
  <2>2. CASE UNCHANGED filterVars
    <3>1. words' = words /\ looked' = looked /\ filter' = filter
      BY <2>2 DEF filterVars
    <3>2. PICK p : Trail(p, looked) /\ filter = p[Len(looked)]
      BY DEF FilterInv
    <3>3. Trail(p, looked)'
      BY <3>1, <3>2 DEF Trail, Filter!Walk, Filter!Node
    <3> QED
      BY <3>1, <3>2, <3>3 DEF FilterInv
  <2> QED
    BY <2>1, <2>2, FilterKeeps
<1>3. FilterInv => WordsFound
  <2> SUFFICES ASSUME FilterInv PROVE Filter!WordsFound
    BY DEF WordsFound
  <2>1. words \subseteq Seq(Letters) /\ looked \in Seq(Letters)
    BY DEF FilterInv
  <2>2. PICK p : Trail(p, looked) /\ filter = p[Len(looked)]
    BY DEF FilterInv
  <2>3. Filter!Holds(looked, filter)
    BY <2>1, <2>2, TrailHolds
  <2>4. ASSUME NEW w \in words, words = {w}, Filter!Holds(looked, w)
        PROVE  filter \in words
    <3>1. w \in Seq(Letters)
      BY <2>1
    <3> QED
      BY <2>1, <2>2, <2>4, <3>1, OnlyFound
  <2>5. ASSUME NEW w \in words, Filter!IsPrefix(w, looked)
        PROVE  filter \in words
    BY <2>1, <2>2, <2>5, StartFound
  <2> QED
    BY <2>3, <2>4, <2>5 DEF Filter!WordsFound
<1> QED
  BY <1>1, <1>2, <1>3, PTL DEF Spec

-----------------------------------------------------------------------------
(***************************************************************************)
(* JobQueue, whose invariant is proved in JobQueueProofs                   *)
(***************************************************************************)
Turn == INSTANCE JobQueueProofs WITH Across <- FALSE

LEMMA SameSteps == Job!Next => Turn!Next
  BY DEF Job!Next, Turn!Next, Job!Work, Turn!Work, Job!Queues, Turn!Queues, Job!Tick, Turn!Tick,
         Job!NewJob, Turn!NewJob, Job!Push, Turn!Push, Job!Posts, Turn!Posts, Job!Post, Turn!Post,
         Job!Goto, Turn!Goto, Job!Locked, Turn!Locked, Job!NoJob, Turn!NoJob, Job!Idle, Turn!Idle,
         Job!ExecuteBegins, Turn!ExecuteBegins, Job!Runs, Turn!Runs, Job!RunFront, Turn!RunFront,
         Job!JobPosts, Turn!JobPosts, Job!JobGivesUp, Turn!JobGivesUp, Job!JobEnds, Turn!JobEnds,
         Job!AfterQueue, Turn!AfterQueue, Job!QueueEmpty, Turn!QueueEmpty, Job!Earliest,
         Turn!Earliest, Job!Due, Turn!Due, Job!RunTimer, Turn!RunTimer, Job!ExecuteEnds,
         Turn!ExecuteEnds, Job!WorkerEnds, Turn!WorkerEnds, Job!Destroy, Turn!Destroy

\* A queue runs its jobs once, those without a delay in the order they were posted, the
\* others not early (Job.cpp Execute).
THEOREM JobsRunInTurn == Spec => []JobsInTurn
<1>1. Turn!DelaysAreTimes
  BY LibraryAssumption DEF Turn!DelaysAreTimes
<1>2. Init => Turn!JInv
  <2>1. Job!Init => Turn!Init
    BY DEF Job!Init, Turn!Init, Job!NoJob, Turn!NoJob, Job!Queues, Turn!Queues
  <2> QED
    BY <1>1, <2>1, Turn!InitJInv DEF Init
<1>3. Turn!JInv /\ [Next]_vars => Turn!JInv'
  <2>1. [Next]_vars => Turn!Next \/ UNCHANGED Turn!vars
    BY SameSteps DEF Next, Only, vars, jobVars, Turn!vars
  <2> QED
    BY <1>1, <2>1, Turn!JInvInductive
<1>4. Turn!JInv => JobsInTurn
  <2>1. Turn!JobsInTurn => Job!JobsInTurn
    BY DEF Turn!JobsInTurn, Job!JobsInTurn, Turn!Queues, Job!Queues
  <2> QED
    BY <2>1, Turn!JInvInTurn DEF JobsInTurn
<1> QED
  BY <1>2, <1>3, <1>4, PTL DEF Spec

-----------------------------------------------------------------------------
(***************************************************************************)
(* Logging: types, the order of the entries, and how many nodes there are  *)
(***************************************************************************)
Threads == Writers \cup {LogThread}
Labels == {"idle", "pop", "fill", "own", "freed", "drain", "delete", "ended"}

LogTypes == /\ head \in [Threads -> 0..MaxNodes] /\ chunk \in 0..MaxNodes
            /\ next \in [1..MaxNodes -> 0..MaxNodes] /\ owner \in [1..MaxNodes -> Threads \cup {0}]
            /\ created \in 0..MaxNodes /\ allocs \in Nat
            /\ poolLock \in Threads \cup {0} /\ count \in [Threads -> Nat]
            /\ logPc \in [Threads -> Labels] /\ node \in [Threads -> 0..MaxNodes]
            /\ logQueue \in Seq(Nat) /\ file \in Seq(Nat) /\ pushed \in Seq(0..MaxNodes)

LogPcs == /\ logPc[LogThread] \in {"idle", "drain", "delete", "ended"}
          /\ \A t \in Writers : logPc[t] \in {"idle", "pop", "fill", "own", "freed"}

\* The queue continues the file.
OrderInv ==
    /\ failed \subseteq 1..Len(pushed)
    /\ \A i, k \in 1..Len(file) : i < k => file[i] < file[k]
    /\ \A i, k \in 1..Len(logQueue) : i < k => logQueue[i] < logQueue[k]
    /\ \A i \in 1..Len(file), k \in 1..Len(logQueue) : file[i] < logQueue[k]
    /\ \A i \in 1..Len(logQueue) : logQueue[i] \in 1..Len(pushed) \ failed
    /\ \A i \in 1..Len(file) : file[i] \in 1..Len(pushed) \ failed
    /\ \A p \in 1..Len(pushed) \ failed : \/ \E i \in 1..Len(file) : file[i] = p
                                          \/ \E i \in 1..Len(logQueue) : logQueue[i] = p

\* Each allocation fills once, if at all: the threads that are about to, and the one that does.
Empty == {t \in Writers : logPc[t] = "pop" /\ head[t] = 0}
Due == IF poolLock = 0 THEN 0 ELSE count[poolLock]
FillInv == /\ poolLock # 0 => poolLock \in Writers /\ logPc[poolLock] = "fill"
           /\ \A t \in Writers : logPc[t] = "fill" =>
                 poolLock = t /\ (head[t] = 0 => count[t] = FillCount)
           /\ allocs <= MaxAllocs
RoomInv == created + FillCount * Cardinality(Empty) + Due <= FillCount * allocs
BoundInv == FillInv /\ RoomInv

LogInv == LogTypes /\ LogPcs /\ OrderInv /\ BoundInv

LEMMA LogInit == Log!Init => LogInv
<1> SUFFICES ASSUME Log!Init PROVE LogInv
  OBVIOUS
<1>1. LogTypes /\ LogPcs /\ OrderInv
  BY LibraryAssumption DEF Log!Init, LogTypes, LogPcs, OrderInv, Threads, Labels, Log!All, Log!Nodes
<1>2. Empty = {}
  BY DEF Log!Init, Empty, Log!All
<1>3. BoundInv
  <2>1. Cardinality(Empty) = 0
    BY <1>2, FS_EmptySet
  <2>2. FillCount * 0 = 0
    BY LibraryAssumption
  <2> QED
    BY <2>1, <2>2, LibraryAssumption DEF Log!Init, BoundInv, FillInv, RoomInv, Due, Log!All
<1> QED
  BY <1>1, <1>3 DEF LogInv

LEMMA EmptyFinite == IsFiniteSet(Empty) /\ Cardinality(Empty) \in Nat
<1>1. Empty \subseteq Writers /\ IsFiniteSet(Writers)
  BY LibraryAssumption DEF Empty
<1> QED
  BY <1>1, FS_Subset, FS_CardinalityType

\* Steps that add no node and no thread that wants one
LEMMA BoundStays ==
    ASSUME LogInv, created' = created, poolLock' = poolLock, count' = count, allocs' = allocs,
           Empty' \subseteq Empty,
           \A t \in Writers : (logPc'[t] = "fill") <=> (logPc[t] = "fill"),
           \A t \in Writers : logPc[t] = "fill" => head'[t] = head[t]
    PROVE  BoundInv'
<1>1. PICK e \in Nat, f \in Nat, p \in Nat, q \in Nat :
         e = Cardinality(Empty) /\ f = Cardinality(Empty') /\ p = FillCount * e /\ q = FillCount * f
  <2>1. Cardinality(Empty) \in Nat /\ Cardinality(Empty') \in Nat
    BY EmptyFinite, FS_Subset, FS_CardinalityType
  <2> QED
    BY <2>1, LibraryAssumption
<1>2. f <= e
  BY <1>1, EmptyFinite, FS_Subset
<1>3. q <= p
  <2>1. PICK d \in Nat : e = f + d
    BY <1>2
  <2>2. PICK F \in Nat : F = FillCount
    BY LibraryAssumption
  <2>3. F * e = F * f + F * d /\ F * d \in Nat
    BY <2>1
  <2> QED
    BY <1>1, <2>2, <2>3
<1>4. Due' = Due /\ Due \in Nat /\ created \in Nat
  BY DEF Due, LogInv, LogTypes
<1>5. created' + FillCount * Cardinality(Empty)' + Due' <= FillCount * allocs'
  <2>1. PICK m \in Int : m = FillCount * allocs
    BY LibraryAssumption DEF LogInv, LogTypes
  <2>2. created + p + Due <= m
    BY <1>1, <2>1 DEF LogInv, BoundInv, RoomInv
  <2>3. created + q + Due <= m
    BY <1>3, <1>4, <2>1, <2>2
  <2> QED
    BY <1>1, <1>4, <2>1, <2>3
<1>6. FillInv'
  BY DEF LogInv, BoundInv, FillInv
<1> QED
  BY <1>5, <1>6 DEF BoundInv, RoomInv

LEMMA OrderStays ==
    ASSUME LogInv, UNCHANGED <<logQueue, file, pushed, failed>>
    PROVE  OrderInv'
BY DEF LogInv, OrderInv

\* A push on a list, by the thread that frees
LEMMA DeallocateTypes ==
    ASSUME LogInv, NEW t \in Threads, NEW n \in 0..MaxNodes, Log!Deallocate(t, n)
    PROVE  /\ head' \in [Threads -> 0..MaxNodes] /\ chunk' \in 0..MaxNodes
           /\ next' \in [1..MaxNodes -> 0..MaxNodes] /\ owner' \in [1..MaxNodes -> Threads \cup {0}]
           /\ UNCHANGED <<created, poolLock, count>>
           /\ \A u \in Threads : u # t => head'[u] = head[u]
<1>1. /\ head \in [Threads -> 0..MaxNodes] /\ next \in [1..MaxNodes -> 0..MaxNodes]
      /\ owner \in [1..MaxNodes -> Threads \cup {0}] /\ chunk \in 0..MaxNodes
  BY DEF LogInv, LogTypes
<1>2. head[t] \in 0..MaxNodes
  BY <1>1
<1>3. CASE UNCHANGED <<head, chunk, next, owner>>
  BY <1>1, <1>3 DEF Log!Deallocate
<1>4. CASE Log!PushOwn(t, n)
  BY <1>1, <1>2, <1>4 DEF Log!Deallocate, Log!PushOwn
<1>5. CASE Log!PushChunk(n)
  BY <1>1, <1>5 DEF Log!Deallocate, Log!PushChunk
<1> QED
  BY <1>3, <1>4, <1>5 DEF Log!Deallocate

LEMMA AllocateKeeps == ASSUME LogInv, NEW t \in Writers, Log!Allocate(t) PROVE LogInv'
<1>1. /\ allocs < MaxAllocs /\ allocs' = allocs + 1 /\ logPc' = [logPc EXCEPT ![t] = "pop"]
      /\ UNCHANGED <<head, chunk, next, owner, created, poolLock, count, node>>
      /\ UNCHANGED <<logQueue, file, pushed, failed>>
  BY DEF Log!Allocate, Log!Goto, Log!poolVars, Log!logVars
<1>2. t \in Threads /\ t # LogThread /\ logPc[t] = "idle"
  BY LibraryAssumption DEF Threads, Log!Allocate
<1>3. LogTypes' /\ LogPcs'
  BY <1>1, <1>2 DEF LogInv, LogTypes, LogPcs, Labels, Threads
<1>4. BoundInv'
  <2>1. Empty' \subseteq Empty \cup {t}
    BY <1>1, <1>2 DEF Empty, LogInv, LogTypes, Threads
  <2>2. PICK e \in Nat, f \in Nat, F \in Nat, a \in Nat :
           e = Cardinality(Empty) /\ f = Cardinality(Empty') /\ F = FillCount /\ a = allocs
    <3>1. IsFiniteSet(Empty \cup {t})
      BY EmptyFinite, FS_AddElement
    <3>2. Cardinality(Empty') \in Nat
      BY <2>1, <3>1, FS_Subset, FS_CardinalityType
    <3> QED
      BY <3>2, EmptyFinite, LibraryAssumption DEF LogInv, LogTypes
  <2>3. f <= e + 1
    <3>1. IsFiniteSet(Empty \cup {t}) /\ Cardinality(Empty \cup {t}) <= e + 1
      <4>1. /\ IsFiniteSet(Empty \cup {t})
            /\ Cardinality(Empty \cup {t}) =
                  IF t \in Empty THEN Cardinality(Empty) ELSE Cardinality(Empty) + 1
        BY EmptyFinite, FS_AddElement
      <4> QED
        BY <2>2, <4>1
    <3>2. f <= Cardinality(Empty \cup {t}) /\ Cardinality(Empty \cup {t}) \in Nat
      BY <2>1, <2>2, <3>1, FS_Subset, FS_CardinalityType
    <3> QED
      BY <3>1, <3>2
  <2>4. F * f <= F * e + F
    <3>1. PICK d \in Nat : e + 1 = f + d
      BY <2>3
    <3>2. F * (e + 1) = F * f + F * d /\ F * d \in Nat /\ F * (e + 1) = F * e + F
      BY <3>1
    <3>3. F * f \in Nat /\ F * e \in Nat
      OBVIOUS
    <3> QED
      BY <3>2, <3>3
  <2>5. F * (a + 1) = F * a + F
    OBVIOUS
  <2>6. PICK p \in Nat, q \in Nat, m \in Nat, k \in Nat : p = F * e /\ q = F * f /\ m = F * a /\ k = F * (a + 1)
    OBVIOUS
  <2>7. Due' = Due /\ Due \in Nat /\ created \in Nat
    BY <1>1 DEF Due, LogInv, LogTypes
  <2>8. created + p + Due <= m
    BY <2>2, <2>6 DEF LogInv, BoundInv, RoomInv
  <2>9. created + q + Due <= k
    BY <2>4, <2>5, <2>6, <2>7, <2>8
  <2>10. created' + FillCount * Cardinality(Empty)' + Due' <= FillCount * allocs'
    BY <1>1, <2>2, <2>6, <2>7, <2>9
  <2>11. allocs' <= MaxAllocs
    BY <1>1, LibraryAssumption DEF LogInv, LogTypes
  <2>12. \A u \in Writers : logPc'[u] = "fill" <=> logPc[u] = "fill"
    BY <1>1, <1>2 DEF LogInv, LogTypes, Threads
  <2>13. FillInv'
    <3>1. FillInv /\ poolLock' = poolLock /\ head' = head /\ count' = count
      BY <1>1 DEF LogInv, BoundInv
    <3> QED
      BY <2>11, <2>12, <3>1 DEF FillInv
  <2> QED
    BY <2>10, <2>13 DEF BoundInv, RoomInv
<1> QED
  BY <1>1, <1>3, <1>4, OrderStays DEF LogInv

LEMMA PopOkKeeps == ASSUME LogInv, NEW t \in Writers, Log!PopOk(t) PROVE LogInv'
<1>1. /\ logPc[t] = "pop" /\ head[t] # 0
      /\ node' = [node EXCEPT ![t] = head[t]]
      /\ head' = [head EXCEPT ![t] = next[head[t]]]
      /\ owner' = [owner EXCEPT ![head[t]] = t]
      /\ logPc' = [logPc EXCEPT ![t] = "own"]
      /\ UNCHANGED <<chunk, next, created, poolLock, count, allocs>>
      /\ UNCHANGED <<logQueue, file, pushed, failed>>
  BY DEF Log!PopOk, Log!Goto, Log!logVars
<1>2. t \in Threads /\ t # LogThread /\ head[t] \in 1..MaxNodes
  <2>1. t \in Threads /\ t # LogThread
    BY LibraryAssumption DEF Threads
  <2>2. head \in [Threads -> 0..MaxNodes] /\ MaxNodes \in Nat
    BY LibraryAssumption DEF LogInv, LogTypes
  <2>3. head[t] \in 0..MaxNodes
    BY <2>1, <2>2
  <2> QED
    BY <1>1, <2>1, <2>2, <2>3
<1>3. LogTypes' /\ LogPcs'
  BY <1>1, <1>2 DEF LogInv, LogTypes, LogPcs, Labels, Threads
<1>4. BoundInv'
  <2>1. Empty' \subseteq Empty
    BY <1>1, <1>2 DEF Empty, LogInv, LogTypes, Threads
  <2> QED
    BY <1>1, <1>2, <2>1, BoundStays DEF LogInv, LogTypes, Threads
<1> QED
  BY <1>1, <1>3, <1>4, OrderStays DEF LogInv

LEMMA FillLockKeeps == ASSUME LogInv, NEW t \in Writers, Log!FillLock(t) PROVE LogInv'
<1>1. /\ logPc[t] = "pop" /\ head[t] = 0 /\ poolLock = 0 /\ poolLock' = t
      /\ count' = [count EXCEPT ![t] = FillCount]
      /\ logPc' = [logPc EXCEPT ![t] = "fill"]
      /\ UNCHANGED <<head, chunk, next, owner, created, allocs, node>>
      /\ UNCHANGED <<logQueue, file, pushed, failed>>
  BY DEF Log!FillLock, Log!Goto, Log!logVars
<1>2. t \in Threads /\ t # LogThread /\ t # 0
  BY LibraryAssumption DEF Threads
<1>3. LogTypes' /\ LogPcs'
  BY <1>1, <1>2, LibraryAssumption DEF LogInv, LogTypes, LogPcs, Labels, Threads
<1>4. BoundInv'
  <2>1. t \in Empty /\ Empty' = Empty \ {t}
    BY <1>1, <1>2 DEF Empty, LogInv, LogTypes, Threads
  <2>2. PICK e \in Nat, F \in Nat : e = Cardinality(Empty) /\ F = FillCount
    BY EmptyFinite, LibraryAssumption
  <2>3. Cardinality(Empty') = e - 1 /\ e >= 1
    <3>1. Cardinality(Empty \ {t}) = e - 1 /\ IsFiniteSet(Empty \ {t})
      BY <2>1, <2>2, EmptyFinite, FS_RemoveElement
    <3>2. Cardinality(Empty \ {t}) \in Nat
      BY <3>1, FS_CardinalityType
    <3> QED
      BY <2>1, <3>1, <3>2
  <2>4. PICK f \in Nat : e = f + 1
    BY <2>3
  <2>5. F * e = F * f + F
    BY <2>4
  <2>6. PICK p \in Nat, q \in Nat, m \in Nat : p = F * e /\ q = F * f /\ m = FillCount * allocs
    BY LibraryAssumption DEF LogInv, LogTypes
  <2>7. Due = 0 /\ Due' = F /\ created \in Nat
    BY <1>1, <1>2, <2>2 DEF Due, LogInv, LogTypes
  <2>8. created + p <= m
    BY <2>2, <2>6, <2>7 DEF LogInv, BoundInv, RoomInv
  <2>9. created + q + F <= m
    BY <2>5, <2>6, <2>7, <2>8
  <2>10. Cardinality(Empty') = f
    BY <2>3, <2>4
  <2>11. created' + FillCount * Cardinality(Empty)' + Due' <= FillCount * allocs'
    BY <1>1, <2>2, <2>6, <2>7, <2>9, <2>10
  <2> QED
    <3>1. ASSUME NEW u \in Writers, u # t
          PROVE  logPc'[u] # "fill" /\ u # 0
      BY <1>1, <3>1, LibraryAssumption DEF LogInv, LogTypes, BoundInv, FillInv, Threads
    <3>2. logPc'[t] = "fill" /\ count'[t] = FillCount
      BY <1>1, <1>2 DEF LogInv, LogTypes
    <3>3. FillInv'
      BY <1>1, <3>1, <3>2 DEF LogInv, BoundInv, FillInv
    <3> QED
      BY <2>11, <3>3 DEF BoundInv, RoomInv
<1> QED
  BY <1>1, <1>3, <1>4, OrderStays DEF LogInv

LEMMA FillOneKeeps == ASSUME LogInv, NEW t \in Writers, Log!FillOne(t) PROVE LogInv'
<1> DEFINE n == IF chunk # 0 THEN chunk ELSE created + 1
<1>1. /\ logPc[t] = "fill" /\ count[t] > 0
      /\ chunk' = IF chunk = 0 THEN 0 ELSE next[chunk]
      /\ created' = IF chunk # 0 THEN created ELSE created + 1
      /\ owner' = [owner EXCEPT ![n] = 0]
      /\ next' = [next EXCEPT ![n] = head[t]]
      /\ head' = [head EXCEPT ![t] = n]
      /\ count' = [count EXCEPT ![t] = count[t] - 1]
      /\ UNCHANGED <<poolLock, allocs, logPc, node>>
      /\ UNCHANGED <<logQueue, file, pushed, failed>>
  BY DEF Log!FillOne, Log!ChunkAfterPop, Log!logVars
<1>2. t \in Threads /\ t # LogThread /\ t # 0 /\ poolLock = t
  BY <1>1, LibraryAssumption DEF Threads, LogInv, BoundInv, FillInv
<1>3. PICK e \in Nat, m \in Nat, p \in Nat, a \in Nat, F \in Nat :
         /\ F = FillCount /\ a = allocs
         /\ e = Cardinality(Empty) /\ p = F * e /\ m = F * a
  <2>1. FillCount \in Nat /\ allocs \in Nat /\ Cardinality(Empty) \in Nat
    BY EmptyFinite, LibraryAssumption DEF LogInv, LogTypes
  <2>2. \A x, y \in Nat : x * y \in Nat
    OBVIOUS
  <2>3. FillCount * Cardinality(Empty) \in Nat /\ FillCount * allocs \in Nat
    BY <2>1, <2>2
  <2> QED
    BY <2>1, <2>3
<1>4. m <= MaxNodes
  <2>1. PICK d \in Nat, A \in Nat : A = MaxAllocs /\ A = a + d
    BY <1>3, LibraryAssumption DEF LogInv, BoundInv, FillInv
  <2>2. F * A = F * a + F * d /\ F * a \in Nat /\ F * d \in Nat
    BY <2>1
  <2>3. F * A <= MaxNodes
    BY <1>3, <2>1, LibraryAssumption
  <2> QED
    BY <1>3, <2>2, <2>3, LibraryAssumption
<1>5. created + p + count[t] <= m /\ count[t] \in Nat \ {0} /\ created \in Nat
  <2>1. Due = count[t] /\ count[t] \in Nat \ {0} /\ created \in Nat
    BY <1>1, <1>2 DEF LogInv, LogTypes, Due
  <2>2. created + p + Due <= m
    BY <1>3 DEF LogInv, BoundInv, RoomInv
  <2> QED
    BY <2>1, <2>2
<1>6. created' \in 0..MaxNodes /\ created' + count'[t] <= created + count[t] /\ n \in 1..MaxNodes
  <2>1. p \in Nat /\ MaxNodes \in Nat /\ chunk \in 0..MaxNodes /\ created \in 0..MaxNodes
    BY <1>3, LibraryAssumption DEF LogInv, LogTypes
  <2>2. created + 1 <= MaxNodes
    BY <1>4, <1>5, <2>1
  <2>3. count'[t] = count[t] - 1
    BY <1>1, <1>2 DEF LogInv, LogTypes
  <2> QED
    BY <1>1, <1>5, <2>1, <2>2, <2>3
<1>7. LogTypes' /\ LogPcs'
  <2>1. head' \in [Threads -> 0..MaxNodes] /\ next' \in [1..MaxNodes -> 0..MaxNodes]
    BY <1>1, <1>2, <1>6 DEF LogInv, LogTypes
  <2>2. owner' \in [1..MaxNodes -> Threads \cup {0}] /\ chunk' \in 0..MaxNodes
    BY <1>1, <1>2, <1>6 DEF LogInv, LogTypes
  <2>3. count' \in [Threads -> Nat]
    <3>1. count[t] - 1 \in Nat
      BY <1>5
    <3> QED
      BY <1>1, <3>1 DEF LogInv, LogTypes
  <2> QED
    BY <1>1, <1>6, <2>1, <2>2, <2>3 DEF LogInv, LogTypes, LogPcs
<1>8. BoundInv'
  <2>1. Empty' = Empty
    BY <1>1, <1>2 DEF Empty, LogInv, LogTypes, Threads
  <2>2. Due' = count'[t] /\ count'[t] \in Nat /\ created' \in Nat
    BY <1>1, <1>2, <1>5, <1>6, <1>7 DEF Due, LogTypes
  <2>3. created' + p + Due' <= m
    BY <1>5, <1>6, <2>2
  <2>4. created' + FillCount * Cardinality(Empty)' + Due' <= FillCount * allocs'
    BY <1>1, <1>3, <2>1, <2>3
  <2>5. \A u \in Writers : logPc'[u] = "fill" => u = t
    BY <1>1, <1>2 DEF LogInv, BoundInv, FillInv
  <2>6. head'[t] # 0
    BY <1>1, <1>2, <1>6 DEF LogInv, LogTypes
  <2>7. FillInv'
    BY <1>1, <1>2, <2>5, <2>6 DEF LogInv, BoundInv, FillInv
  <2> QED
    BY <2>4, <2>7 DEF BoundInv, RoomInv
<1> QED
  BY <1>1, <1>7, <1>8, OrderStays DEF LogInv

LEMMA FillEndsKeeps == ASSUME LogInv, NEW t \in Writers, Log!FillEnds(t) PROVE LogInv'
<1>1. /\ logPc[t] = "fill" /\ count[t] = 0 /\ poolLock' = 0
      /\ logPc' = [logPc EXCEPT ![t] = "pop"]
      /\ UNCHANGED <<head, chunk, next, owner, created, count, allocs, node>>
      /\ UNCHANGED <<logQueue, file, pushed, failed>>
  BY DEF Log!FillEnds, Log!Goto, Log!logVars
<1>2. t \in Threads /\ t # LogThread /\ t # 0 /\ poolLock = t /\ head[t] # 0
  BY <1>1, LibraryAssumption DEF Threads, LogInv, BoundInv, FillInv
<1>3. LogTypes' /\ LogPcs'
  BY <1>1, <1>2 DEF LogInv, LogTypes, LogPcs, Labels, Threads
<1>4. BoundInv'
  <2>1. Empty' = Empty
    BY <1>1, <1>2 DEF Empty, LogInv, LogTypes, Threads
  <2>2. Due = 0 /\ Due' = 0
    BY <1>1, <1>2 DEF Due
  <2>3. \A u \in Writers : logPc'[u] # "fill"
    BY <1>1, <1>2 DEF LogInv, LogTypes, BoundInv, FillInv, Threads
  <2>4. FillInv'
    BY <1>1, <2>3 DEF LogInv, BoundInv, FillInv
  <2>5. RoomInv'
    BY <1>1, <2>1, <2>2 DEF LogInv, BoundInv, RoomInv
  <2> QED
    BY <2>4, <2>5 DEF BoundInv
<1> QED
  BY <1>1, <1>3, <1>4, OrderStays DEF LogInv

LEMMA FreeKeeps == ASSUME LogInv, NEW t \in Writers, Log!Free(t) \/ Log!FreeAgain(t) PROVE LogInv'
<1>1. PICK l \in {"freed", "idle"} :
        /\ logPc[t] \in {"own", "freed"} /\ logPc' = [logPc EXCEPT ![t] = l]
        /\ Log!Deallocate(t, node[t]) \/ UNCHANGED <<head, chunk, next, owner, created, poolLock, count>>
        /\ node' = node \/ node' = [node EXCEPT ![t] = 0]
        /\ UNCHANGED <<logQueue, file, pushed, failed, allocs>>
  BY DEF Log!Free, Log!FreeAgain, Log!Goto, Log!logVars, Log!poolVars
<1>2. t \in Threads /\ t # LogThread /\ node[t] \in 0..MaxNodes
  BY LibraryAssumption DEF Threads, LogInv, LogTypes
<1>3. /\ head' \in [Threads -> 0..MaxNodes] /\ chunk' \in 0..MaxNodes
      /\ next' \in [1..MaxNodes -> 0..MaxNodes] /\ owner' \in [1..MaxNodes -> Threads \cup {0}]
      /\ UNCHANGED <<created, poolLock, count>>
      /\ \A u \in Threads : u # t => head'[u] = head[u]
  <2>1. CASE Log!Deallocate(t, node[t])
    BY <1>2, <2>1, DeallocateTypes
  <2>2. CASE UNCHANGED <<head, chunk, next, owner, created, poolLock, count>>
    BY <2>2 DEF LogInv, LogTypes
  <2> QED
    BY <1>1, <2>1, <2>2
<1>4. LogTypes' /\ LogPcs'
  <2>1. logPc' \in [Threads -> Labels] /\ node' \in [Threads -> 0..MaxNodes]
    <3>1. 0 \in 0..MaxNodes
      BY LibraryAssumption
    <3>2. logPc' \in [Threads -> Labels]
      BY <1>1 DEF LogInv, LogTypes, Labels
    <3> QED
      BY <1>1, <3>1, <3>2 DEF LogInv, LogTypes
  <2>2. LogTypes'
    BY <1>1, <1>3, <2>1 DEF LogInv, LogTypes
  <2>3. LogPcs'
    BY <1>1, <1>2 DEF LogInv, LogTypes, LogPcs, Threads
  <2> QED
    BY <2>2, <2>3
<1>5. BoundInv'
  <2>1. Empty' \subseteq Empty
    BY <1>1, <1>2, <1>3 DEF Empty, LogInv, LogTypes, Threads
  <2> QED
    BY <1>1, <1>2, <1>3, <2>1, BoundStays DEF LogInv, LogTypes, Threads
<1> QED
  BY <1>1, <1>4, <1>5, OrderStays DEF LogInv

LEMMA WriteKeeps == ASSUME LogInv, NEW t \in Writers, Log!Write(t) PROVE LogInv'
<1>1. /\ logPc[t] = "own" /\ logPc' = [logPc EXCEPT ![t] = "idle"]
      /\ logQueue' = Append(logQueue, Len(pushed) + 1) /\ pushed' = Append(pushed, node[t])
      /\ node' = [node EXCEPT ![t] = 0]
      /\ UNCHANGED <<head, chunk, next, owner, created, poolLock, count, allocs, file, failed>>
  BY DEF Log!Write, Log!Goto, Log!poolVars
<1>2. t \in Threads /\ t # LogThread /\ node[t] \in 0..MaxNodes
  BY LibraryAssumption DEF Threads, LogInv, LogTypes
<1>3. LogTypes' /\ LogPcs'
  <2>1. logPc' \in [Threads -> Labels] /\ node' \in [Threads -> 0..MaxNodes]
    <3>1. 0 \in 0..MaxNodes
      BY LibraryAssumption
    <3>2. logPc' \in [Threads -> Labels]
      BY <1>1 DEF LogInv, LogTypes, Labels
    <3> QED
      BY <1>1, <3>1, <3>2 DEF LogInv, LogTypes
  <2>2. logQueue' \in Seq(Nat) /\ pushed' \in Seq(0..MaxNodes)
    BY <1>1, <1>2 DEF LogInv, LogTypes
  <2>3. LogTypes'
    BY <1>1, <2>1, <2>2 DEF LogInv, LogTypes
  <2>4. LogPcs'
    BY <1>1, <1>2 DEF LogInv, LogTypes, LogPcs, Threads
  <2> QED
    BY <2>3, <2>4
<1>4. BoundInv'
  <2>1. Empty' \subseteq Empty
    BY <1>1, <1>2 DEF Empty, LogInv, LogTypes, Threads
  <2> QED
    BY <1>1, <1>2, <2>1, BoundStays DEF LogInv, LogTypes, Threads
<1>5. OrderInv'
  <2>1. PICK n \in Nat, m \in Nat : n = Len(pushed) /\ m = Len(logQueue)
    BY DEF LogInv, LogTypes
  <2>2. /\ Len(pushed') = n + 1 /\ Len(logQueue') = m + 1 /\ logQueue'[m + 1] = n + 1
        /\ \A i \in 1..m : logQueue'[i] = logQueue[i] /\ logQueue[i] \in 1..n \ failed
        /\ failed \subseteq 1..n /\ \A i \in 1..Len(file) : file[i] \in 1..n \ failed
    BY <1>1, <2>1 DEF LogInv, LogTypes, OrderInv
  <2>3. \A i \in 1..(m+1) : i = m + 1 \/ i \in 1..m
    OBVIOUS
  <2>4. \A p \in 1..(n+1) : p = n + 1 \/ p \in 1..n
    OBVIOUS
  <2>5. Len(file) \in Nat
    BY DEF LogInv, LogTypes
  <2>6. \A i, k \in 1..Len(logQueue') : i < k => logQueue'[i] < logQueue'[k]
    BY <2>1, <2>2, <2>3 DEF LogInv, OrderInv
  <2>7. \A i \in 1..Len(file), k \in 1..Len(logQueue') : file[i] < logQueue'[k]
    BY <2>1, <2>2, <2>3 DEF LogInv, OrderInv
  <2>8. \A i \in 1..Len(logQueue') : logQueue'[i] \in 1..Len(pushed') \ failed
    BY <2>1, <2>2, <2>3
  <2>9. \A p \in 1..Len(pushed') \ failed : \/ \E i \in 1..Len(file) : file[i] = p
                                            \/ \E i \in 1..Len(logQueue') : logQueue'[i] = p
    BY <2>1, <2>2, <2>4 DEF LogInv, OrderInv
  <2> QED
    <3>1. failed' = failed /\ file' = file /\ failed \subseteq 1..Len(pushed')
      BY <1>1, <2>2
    <3>2. /\ \A i, k \in 1..Len(file) : i < k => file[i] < file[k]
          /\ \A i \in 1..Len(file) : file[i] \in 1..Len(pushed') \ failed
      BY <2>2 DEF LogInv, OrderInv
    <3> QED
      BY ONLY <2>6, <2>7, <2>8, <2>9, <3>1, <3>2 DEF OrderInv
<1> QED
  BY <1>3, <1>4, <1>5 DEF LogInv

LEMMA ElementIn == ASSUME NEW S, NEW s \in Seq(S), NEW i \in 1..Len(s) PROVE s[i] \in S
  OBVIOUS

LEMMA WriteFileKeeps == ASSUME LogInv, Log!WriteFile PROVE LogInv'
<1>1. /\ logPc[LogThread] = "drain" /\ logQueue # <<>>
      /\ node' = [node EXCEPT ![LogThread] = pushed[Head(logQueue)]]
      /\ logQueue' = Tail(logQueue) /\ file' = Append(file, Head(logQueue))
      /\ logPc' = [logPc EXCEPT ![LogThread] = "delete"]
      /\ UNCHANGED <<head, chunk, next, owner, created, poolLock, count, allocs, pushed, failed>>
  BY DEF Log!WriteFile, Log!Goto, Log!poolVars, Log!L
<1>2. LogThread \in Threads /\ LogThread \notin Writers
  BY LibraryAssumption DEF Threads
<1>3. PICK h \in Nat, m \in Nat, n \in Nat, f \in Nat :
         h = logQueue[1] /\ m = Len(logQueue) - 1 /\ n = Len(pushed) /\ f = Len(file)
  <2>1. logQueue \in Seq(Nat) /\ Len(logQueue) \in Nat \ {0} /\ Len(pushed) \in Nat /\ Len(file) \in Nat
    BY <1>1 DEF LogInv, LogTypes
  <2>2. logQueue[1] \in Nat /\ Len(logQueue) - 1 \in Nat
    BY <2>1
  <2> QED
    BY <2>1, <2>2
<1>4. /\ Head(logQueue) = h /\ h \in 1..n \ failed
      /\ Len(logQueue') = m /\ \A i \in 1..m : logQueue'[i] = logQueue[i + 1] /\ i + 1 \in 1..Len(logQueue)
      /\ Len(file') = f + 1 /\ file'[f + 1] = h /\ \A i \in 1..f : file'[i] = file[i]
      /\ 1 \in 1..Len(logQueue)
  <2>1. /\ logQueue \in Seq(Nat) /\ Len(logQueue) \in Nat /\ Len(logQueue) = m + 1
        /\ file \in Seq(Nat) /\ 1 \in 1..Len(logQueue)
    BY <1>1, <1>3 DEF LogInv, LogTypes
  <2>2. Head(logQueue) = h /\ Len(logQueue') = m /\ \A i \in 1..m : logQueue'[i] = logQueue[i + 1]
    BY <1>1, <1>3, <2>1
  <2>3. \A i \in 1..m : i + 1 \in 1..Len(logQueue)
    BY <2>1
  <2>4. h \in 1..n \ failed
    BY <1>3, <2>1 DEF LogInv, OrderInv
  <2>5. Len(file') = f + 1 /\ file'[f + 1] = h /\ \A i \in 1..f : file'[i] = file[i]
    <3>1. file' = Append(file, h)
      BY <1>1, <2>2
    <3> QED
      BY ONLY <1>3, <2>1, <3>1
  <2> QED
    BY <2>1, <2>2, <2>3, <2>4, <2>5
<1>5. LogTypes' /\ LogPcs'
  <2>1. node' \in [Threads -> 0..MaxNodes]
    <3>1. h \in 1..Len(pushed) /\ pushed[h] \in 0..MaxNodes
      <4>1. h \in 1..Len(pushed)
        BY <1>3, <1>4
      <4>2. pushed \in Seq(0..MaxNodes)
        BY DEF LogInv, LogTypes
      <4> QED
        BY <4>1, <4>2, ElementIn
    <3> QED
      BY <1>1, <1>4, <3>1 DEF LogInv, LogTypes
  <2>2. logPc' \in [Threads -> Labels]
    BY <1>1 DEF LogInv, LogTypes, Labels
  <2>3. logQueue' \in Seq(Nat) /\ file' \in Seq(Nat)
    BY <1>1, <1>3, <1>4 DEF LogInv, LogTypes
  <2>4. LogTypes'
    BY <1>1, <2>1, <2>2, <2>3 DEF LogInv, LogTypes
  <2>5. LogPcs'
    BY <1>1, <1>2 DEF LogInv, LogTypes, LogPcs, Threads
  <2> QED
    BY <2>4, <2>5
<1>6. BoundInv'
  <2>1. Empty' \subseteq Empty
    BY <1>1, <1>2 DEF Empty, LogInv, LogTypes, Threads
  <2> QED
    BY <1>1, <1>2, <2>1, BoundStays DEF LogInv, LogTypes, Threads
<1>7. OrderInv'
  <2>1. \A i \in 1..(f+1) : i = f + 1 \/ i \in 1..f
    OBVIOUS
  <2>2. \A i \in 1..Len(logQueue) : i = 1 \/ (i - 1 \in 1..m /\ (i - 1) + 1 = i)
    BY <1>3
  <2>3. /\ \A i \in 1..f : file[i] < h
        /\ \A i \in 1..m : h < logQueue'[i] /\ logQueue'[i] \in 1..n \ failed
    BY <1>3, <1>4 DEF LogInv, OrderInv
  <2>4. \A i, k \in 1..Len(file') : i < k => file'[i] < file'[k]
    <3>1. \A i, k \in 1..f : i < k => file[i] < file[k]
      BY <1>3 DEF LogInv, OrderInv
    <3>2. \A i, k \in 1..(f+1) : i < k => i \in 1..f
      OBVIOUS
    <3>3. ASSUME NEW i \in 1..(f+1), NEW k \in 1..(f+1), i < k
          PROVE  file'[i] < file'[k]
      <4>1. i \in 1..f /\ file'[i] = file[i]
        BY <1>4, <3>2, <3>3
      <4>2. CASE k = f + 1
        BY <1>4, <2>3, <4>1, <4>2
      <4>3. CASE k \in 1..f
        BY <1>4, <3>1, <3>3, <4>1, <4>3
      <4> QED
        BY <2>1, <4>2, <4>3
    <3> QED
      BY <1>4, <3>3
  <2>5. \A i, k \in 1..Len(logQueue') : i < k => logQueue'[i] < logQueue'[k]
    BY <1>3, <1>4 DEF LogInv, OrderInv
  <2>6. \A i \in 1..Len(file'), k \in 1..Len(logQueue') : file'[i] < logQueue'[k]
    <3>1. \A i \in 1..f, k \in 1..m : file[i] < logQueue'[k]
      BY <1>3, <1>4 DEF LogInv, OrderInv
    <3> QED
      BY <1>4, <2>1, <2>3, <3>1
  <2>7. \A i \in 1..Len(file') : file'[i] \in 1..n \ failed
    BY <1>3, <1>4, <2>1 DEF LogInv, OrderInv
  <2>8. \A p \in 1..n \ failed : \/ \E i \in 1..Len(file') : file'[i] = p
                                 \/ \E i \in 1..Len(logQueue') : logQueue'[i] = p
    <3> SUFFICES ASSUME NEW p \in 1..n \ failed
                 PROVE  \/ \E i \in 1..(f+1) : file'[i] = p
                        \/ \E i \in 1..m : logQueue'[i] = p
      BY <1>4
    <3>1. CASE \E i \in 1..f : file[i] = p
      BY <1>4, <3>1
    <3>2. CASE \E i \in 1..Len(logQueue) : logQueue[i] = p
      <4>1. PICK i \in 1..Len(logQueue) : logQueue[i] = p
        BY <3>2
      <4>2. CASE i = 1
        BY <1>3, <1>4, <4>1, <4>2
      <4>3. CASE i - 1 \in 1..m /\ (i - 1) + 1 = i
        BY <1>4, <4>1, <4>3
      <4> QED
        BY <2>2, <4>2, <4>3
    <3> QED
      BY <1>3, <3>1, <3>2 DEF LogInv, OrderInv
  <2>9. failed' = failed /\ Len(pushed') = n /\ failed \subseteq 1..n
    BY <1>1, <1>3 DEF LogInv, OrderInv
  <2> QED
    BY ONLY <1>4, <2>3, <2>4, <2>5, <2>6, <2>7, <2>8, <2>9 DEF OrderInv
<1> QED
  BY <1>5, <1>6, <1>7 DEF LogInv

LEMMA OpenFailsKeeps == ASSUME LogInv, Log!OpenFails PROVE LogInv'
<1>1. /\ logPc[LogThread] = "drain" /\ logQueue # <<>>
      /\ logQueue' = Tail(logQueue) /\ failed' = failed \cup {Head(logQueue)}
      /\ UNCHANGED <<head, chunk, next, owner, created, poolLock, count, allocs, pushed, file, logPc, node>>
  BY DEF Log!OpenFails, Log!AfterFailure, Log!poolVars, Log!L
<1>2. PICK h \in Nat, m \in Nat, n \in Nat, f \in Nat :
         h = logQueue[1] /\ m = Len(logQueue) - 1 /\ n = Len(pushed) /\ f = Len(file)
  <2>1. logQueue \in Seq(Nat) /\ Len(logQueue) \in Nat \ {0} /\ Len(pushed) \in Nat /\ Len(file) \in Nat
    BY <1>1 DEF LogInv, LogTypes
  <2>2. logQueue[1] \in Nat /\ Len(logQueue) - 1 \in Nat
    BY <2>1
  <2> QED
    BY <2>1, <2>2
<1>3. /\ Head(logQueue) = h /\ h \in 1..n \ failed
      /\ Len(logQueue') = m /\ \A i \in 1..m : logQueue'[i] = logQueue[i + 1] /\ i + 1 \in 1..Len(logQueue)
      /\ 1 \in 1..Len(logQueue) /\ failed' = failed \cup {h}
  BY <1>1, <1>2 DEF LogInv, LogTypes, OrderInv
<1>4. LogTypes' /\ LogPcs'
  BY <1>1 DEF LogInv, LogTypes, LogPcs
<1>5. BoundInv'
  <2>1. Empty' = Empty
    BY <1>1 DEF Empty
  <2> QED
    BY <1>1, <2>1, BoundStays DEF LogInv, LogTypes
<1>6. OrderInv'
  <2>1. \A i \in 1..Len(logQueue) : i = 1 \/ (i - 1 \in 1..m /\ (i - 1) + 1 = i)
    BY <1>2
  <2>2. /\ \A i \in 1..f : file[i] < h /\ file[i] \in 1..n \ failed
        /\ \A i \in 1..m : h < logQueue'[i] /\ logQueue'[i] \in 1..n \ failed
    BY <1>2, <1>3 DEF LogInv, OrderInv
  <2>3. /\ \A i \in 1..f : file[i] \in 1..n \ failed'
        /\ \A i \in 1..m : logQueue'[i] \in 1..n \ failed'
    BY <1>3, <2>2
  <2>4. \A i, k \in 1..m : i < k => logQueue'[i] < logQueue'[k]
    BY <1>2, <1>3 DEF LogInv, OrderInv
  <2>5. \A i \in 1..f, k \in 1..m : file[i] < logQueue'[k]
    BY <1>2, <1>3 DEF LogInv, OrderInv
  <2>6. \A p \in 1..n \ failed' : \/ \E i \in 1..f : file[i] = p
                                  \/ \E i \in 1..m : logQueue'[i] = p
    <3> SUFFICES ASSUME NEW p \in 1..n \ failed, p # h
                 PROVE  \/ \E i \in 1..f : file[i] = p
                        \/ \E i \in 1..m : logQueue'[i] = p
      BY <1>3
    <3>1. CASE \E i \in 1..Len(logQueue) : logQueue[i] = p
      <4>1. PICK i \in 1..Len(logQueue) : logQueue[i] = p
        BY <3>1
      <4>2. CASE i = 1
        BY <1>2, <4>1, <4>2
      <4>3. CASE i - 1 \in 1..m /\ (i - 1) + 1 = i
        BY <1>3, <4>1, <4>3
      <4> QED
        BY <2>1, <4>2, <4>3
    <3> QED
      BY <1>2, <3>1 DEF LogInv, OrderInv
  <2>7. file' = file /\ Len(pushed') = n /\ failed' \subseteq 1..n
    BY <1>1, <1>2, <1>3 DEF LogInv, OrderInv
  <2>8. \A i, k \in 1..f : i < k => file[i] < file[k]
    BY <1>2 DEF LogInv, OrderInv
  <2> QED
    BY ONLY <1>2, <1>3, <2>3, <2>4, <2>5, <2>6, <2>7, <2>8 DEF OrderInv
<1> QED
  BY <1>4, <1>5, <1>6 DEF LogInv

\* Steps of the logger's thread, and its end, that touch neither entries nor nodes
LEMMA LoggerKeeps ==
    ASSUME LogInv, Log!Destroy \/ Log!Execute \/ Log!WorkerEnds \/ Log!Drained \/ Log!Delete
    PROVE  LogInv'
<1>1. /\ UNCHANGED <<logQueue, file, pushed, failed, allocs>>
      /\ \/ logPc' = logPc
         \/ \E l \in {"idle", "drain", "ended"} : logPc' = [logPc EXCEPT ![LogThread] = l]
      /\ \/ node' = node /\ UNCHANGED <<head, chunk, next, owner, created, poolLock, count>>
         \/ node' = [node EXCEPT ![LogThread] = 0] /\ Log!Deallocate(LogThread, node[LogThread])
  BY DEF Log!Destroy, Log!Execute, Log!WorkerEnds, Log!Drained, Log!Delete, Log!Goto, Log!L,
         Log!poolVars, Log!logVars
<1>2. LogThread \in Threads /\ LogThread \notin Writers /\ 0 \in 0..MaxNodes
  BY LibraryAssumption DEF Threads
<1>3. /\ head' \in [Threads -> 0..MaxNodes] /\ chunk' \in 0..MaxNodes
      /\ next' \in [1..MaxNodes -> 0..MaxNodes] /\ owner' \in [1..MaxNodes -> Threads \cup {0}]
      /\ UNCHANGED <<created, poolLock, count>>
      /\ \A u \in Threads : u # LogThread => head'[u] = head[u]
  <2>1. CASE Log!Deallocate(LogThread, node[LogThread])
    <3>1. node[LogThread] \in 0..MaxNodes
      BY <1>2 DEF LogInv, LogTypes
    <3> QED
      BY <1>2, <2>1, <3>1, DeallocateTypes
  <2>2. CASE UNCHANGED <<head, chunk, next, owner, created, poolLock, count>>
    BY <2>2 DEF LogInv, LogTypes
  <2> QED
    BY <1>1, <2>1, <2>2
<1>4. LogTypes' /\ LogPcs'
  <2>1. logPc' \in [Threads -> Labels]
    BY <1>1 DEF LogInv, LogTypes, Labels
  <2>2. node' \in [Threads -> 0..MaxNodes]
    BY <1>1, <1>2 DEF LogInv, LogTypes
  <2>3. LogTypes'
    BY <1>1, <1>3, <2>1, <2>2 DEF LogInv, LogTypes
  <2>4. LogPcs'
    BY <1>1, <1>2 DEF LogInv, LogTypes, LogPcs, Threads
  <2> QED
    BY <2>3, <2>4
<1>5. BoundInv'
  <2>1. \A u \in Writers : logPc'[u] = logPc[u] /\ head'[u] = head[u]
    BY <1>1, <1>2, <1>3 DEF LogInv, LogTypes, Threads
  <2>2. Empty' \subseteq Empty
    BY <2>1 DEF Empty
  <2> QED
    BY <1>1, <1>3, <2>1, <2>2, BoundStays
<1> QED
  BY <1>1, <1>4, <1>5, OrderStays DEF LogInv

LEMMA LogKeeps == ASSUME LogInv, Log!Next PROVE LogInv'
<1>1. ASSUME NEW t \in Writers, \/ Log!Allocate(t) \/ Log!PopOk(t) \/ Log!FillLock(t) \/ Log!FillOne(t)
                                \/ Log!FillEnds(t) \/ Log!Free(t) \/ Log!FreeAgain(t) \/ Log!Write(t)
      PROVE  LogInv'
  BY <1>1, AllocateKeeps, PopOkKeeps, FillLockKeeps, FillOneKeeps, FillEndsKeeps, FreeKeeps, WriteKeeps
<1> QED
  BY <1>1, LoggerKeeps, WriteFileKeeps, OpenFailsKeeps DEF Log!Next

LEMMA LogStutters == ASSUME LogInv, UNCHANGED logVars PROVE LogInv'
<1>1. LogTypes' /\ LogPcs' /\ OrderInv'
  BY DEF logVars, LogInv, LogTypes, LogPcs, OrderInv
<1>2. BoundInv'
  <2>1. Empty' = Empty /\ Due' = Due
    BY DEF logVars, Empty, Due
  <2> QED
    BY <2>1 DEF logVars, LogInv, BoundInv, FillInv, RoomInv
<1> QED
  BY <1>1, <1>2 DEF LogInv

LEMMA LogAlways == Spec => []LogInv
<1>1. Init => LogInv
  BY LogInit DEF Init
<1>2. LogInv /\ [Next]_vars => LogInv'
  <2>1. [Next]_vars => Log!Next \/ UNCHANGED logVars
    BY DEF Next, Only, vars
  <2> QED
    BY <2>1, LogKeeps, LogStutters
<1> QED
  BY <1>1, <1>2, PTL DEF Spec

\* The file has the entries in the order of the calls of Write, each once, and none is left
\* out but those whose file could not be opened: Logger::_Execute.
THEOREM LogKeepsOrder == Spec => []LogInOrder
<1>1. LogInv => LogInOrder
  <2> SUFFICES ASSUME LogInv PROVE Log!LogInOrder
    BY DEF LogInOrder
  <2>1. /\ Log!Range(file) = {file[i] : i \in 1..Len(file)} /\ DOMAIN pushed = 1..Len(pushed)
        /\ Log!Range(logQueue) = {logQueue[i] : i \in 1..Len(logQueue)}
    BY DEF Log!Range, LogInv, LogTypes
  <2>2. {file[i] : i \in 1..Len(file)} \subseteq (1..Len(pushed)) \ (Log!Range(logQueue) \cup failed)
    <3> SUFFICES ASSUME NEW i \in 1..Len(file) 
                 PROVE  /\ file[i] \in 1..Len(pushed) /\ file[i] \notin failed
                        /\ \A k \in 1..Len(logQueue) : file[i] # logQueue[k]
      BY <2>1
    <3> QED
      BY DEF LogInv, LogTypes, OrderInv
  <2>3. (1..Len(pushed)) \ (Log!Range(logQueue) \cup failed) \subseteq {file[i] : i \in 1..Len(file)}
    BY <2>1 DEF LogInv, OrderInv
  <2> QED
    BY <2>1, <2>2, <2>3 DEF LogInv, OrderInv, Log!LogInOrder
<1> QED
  BY <1>1, LogAlways, PTL

-----------------------------------------------------------------------------
(***************************************************************************)
(* Logging: the lists of free nodes.  st[t] has the nodes of t's stack,    *)
(* the top last; LogThread stands for the shared chunk.                    *)
(***************************************************************************)
On(st, t, n) == \E i \in 1..Len(st[t]) : st[t][i] = n

Lists(st, top, nxt, own, m) ==
    /\ st \in [Threads -> Seq(1..m)]
    /\ \A t \in Threads : top[t] = IF Len(st[t]) = 0 THEN 0 ELSE st[t][Len(st[t])]
    /\ \A t \in Threads : \A i \in 1..Len(st[t]) : nxt[st[t][i]] = IF i = 1 THEN 0 ELSE st[t][i - 1]
    /\ \A t, u \in Threads : \A i \in 1..Len(st[t]), k \in 1..Len(st[u]) :
          st[t][i] = st[u][k] => t = u /\ i = k
    /\ \A n \in 1..m : own[n] = 0 <=> \E t \in Threads : On(st, t, n)

LEMMA TopFree ==
    ASSUME NEW m \in Nat, NEW st, NEW top, NEW nxt, NEW own, Lists(st, top, nxt, own, m),
           NEW t \in Threads, top[t] # 0
    PROVE  top[t] \in 1..m /\ own[top[t]] = 0 /\ On(st, t, top[t])
<1>1. st[t] \in Seq(1..m) /\ Len(st[t]) \in Nat /\ Len(st[t]) # 0 /\ top[t] = st[t][Len(st[t])]
  BY DEF Lists
<1>2. PICK k \in 1..Len(st[t]) : k = Len(st[t])
  BY <1>1
<1>3. top[t] \in 1..m
  BY <1>1, <1>2, ElementIn
<1>4. On(st, t, top[t])
  BY <1>1, <1>2 DEF On
<1> QED
  BY <1>3, <1>4 DEF Lists

LEMMA Popped ==
    ASSUME NEW m \in Nat, NEW st, NEW top, NEW nxt, NEW own, Lists(st, top, nxt, own, m),
           NEW D, top \in [Threads -> D], 1..m \subseteq DOMAIN own,
           NEW t \in Threads, top[t] # 0, NEW x, x # 0
    PROVE  \E st2 : /\ Lists(st2, [top EXCEPT ![t] = nxt[top[t]]], nxt, [own EXCEPT ![top[t]] = x], m)
                    /\ \A u \in Threads, n \in 1..m : u # t /\ On(st, u, n) => On(st2, u, n)
<1>1. PICK s, k : s = st[t] /\ k = Len(s) - 1
  OBVIOUS
<1>2. s \in Seq(1..m) /\ k \in Nat /\ top[t] = s[k + 1] /\ s[k + 1] \in 1..m /\ Len(s) = k + 1
  <2>1. s \in Seq(1..m) /\ Len(s) \in Nat /\ Len(s) # 0
    BY <1>1 DEF Lists
  <2>2. k \in Nat /\ Len(s) = k + 1 /\ k + 1 \in 1..Len(s)
    BY <1>1, <2>1
  <2> QED
    BY <1>1, <2>1, <2>2, ElementIn DEF Lists
<1>3. PICK h \in 1..m : h = top[t]
  BY <1>2
<1>4. On(st, t, h)
  BY <1>1, <1>2, <1>3 DEF On
<1>5. PICK r : r = SubSeq(s, 1, k)
  OBVIOUS
<1>6. r \in Seq(1..m) /\ Len(r) = k /\ \A i \in 1..k : r[i] = s[i]
  BY <1>2, <1>5
<1>7. PICK st2 : st2 = [st EXCEPT ![t] = r]
  OBVIOUS
<1>8. /\ st2 \in [Threads -> Seq(1..m)] /\ st2[t] = r
      /\ \A u \in Threads : u # t => st2[u] = st[u]
      /\ \A u \in Threads : Len(st2[u]) \in Nat /\ Len(st2[u]) <= Len(st[u])
      /\ \A u \in Threads : \A i \in 1..Len(st2[u]) : i \in 1..Len(st[u]) /\ st2[u][i] = st[u][i]
  <2>1. /\ st2 \in [Threads -> Seq(1..m)] /\ st2[t] = r
        /\ \A u \in Threads : u # t => st2[u] = st[u]
    BY <1>6, <1>7 DEF Lists
  <2>2. ASSUME NEW u \in Threads
        PROVE  /\ Len(st2[u]) \in Nat /\ Len(st2[u]) <= Len(st[u])
               /\ \A i \in 1..Len(st2[u]) : i \in 1..Len(st[u]) /\ st2[u][i] = st[u][i]
    <3>1. CASE u = t
      BY <1>1, <1>2, <1>6, <2>1, <3>1
    <3>2. CASE u # t
      <4>1. Len(st[u]) \in Nat
        BY DEF Lists
      <4> QED
        BY <2>1, <3>2, <4>1
    <3> QED
      BY <3>1, <3>2
  <2> QED
    BY <2>1, <2>2
<1>9. \A u \in Threads, n \in 1..m : On(st2, u, n) <=> On(st, u, n) /\ n # h
  <2> SUFFICES ASSUME NEW u \in Threads, NEW n \in 1..m
               PROVE  On(st2, u, n) <=> On(st, u, n) /\ n # h
    OBVIOUS
  <2>1. ASSUME On(st2, u, n) PROVE On(st, u, n) /\ n # h
    <3>1. PICK i \in 1..Len(st2[u]) : st2[u][i] = n
      BY <2>1 DEF On
    <3>2. i \in 1..Len(st[u]) /\ st[u][i] = n
      BY <1>8, <3>1
    <3>3. n = h => u = t /\ i = k + 1
      BY <1>1, <1>2, <1>3, <3>2 DEF Lists
    <3>4. u = t => i # k + 1
      BY <1>6, <1>8, <3>1
    <3> QED
      BY <3>2, <3>3, <3>4 DEF On
  <2>2. ASSUME On(st, u, n), n # h PROVE On(st2, u, n)
    <3>1. PICK i \in 1..Len(st[u]) : st[u][i] = n
      BY <2>2 DEF On
    <3>2. u = t => i \in 1..k
      BY <1>1, <1>2, <1>3, <2>2, <3>1
    <3>3. i \in 1..Len(st2[u])
      BY <1>6, <1>8, <3>1, <3>2
    <3> QED
      BY <1>8, <3>1, <3>3 DEF On
  <2> QED
    BY <2>1, <2>2
<1>10. PICK top2, own2 : top2 = [top EXCEPT ![t] = nxt[top[t]]] /\ own2 = [own EXCEPT ![top[t]] = x]
  OBVIOUS
<1>11. Lists(st2, top2, nxt, own2, m)
  <2>1. ASSUME NEW u \in Threads
        PROVE  top2[u] = IF Len(st2[u]) = 0 THEN 0 ELSE st2[u][Len(st2[u])]
    <3>1. CASE u # t
      BY <1>8, <1>10, <3>1 DEF Lists
    <3>2. CASE u = t
      <4>1. top2[t] = nxt[s[k + 1]]
        BY <1>2, <1>10
      <4>2. nxt[s[k + 1]] = IF k + 1 = 1 THEN 0 ELSE s[(k + 1) - 1]
        <5>1. PICK i \in 1..Len(st[t]) : i = k + 1
          BY <1>1, <1>2
        <5>2. nxt[st[t][i]] = IF i = 1 THEN 0 ELSE st[t][i - 1]
          BY DEF Lists
        <5> QED
          BY <1>1, <5>1, <5>2
      <4>3. k # 0 => s[(k + 1) - 1] = r[k]
        BY <1>2, <1>6
      <4> QED
        BY <1>2, <1>6, <1>8, <3>2, <4>1, <4>2, <4>3
    <3> QED
      BY <3>1, <3>2
  <2>2. ASSUME NEW u \in Threads, NEW i \in 1..Len(st2[u])
        PROVE  nxt[st2[u][i]] = IF i = 1 THEN 0 ELSE st2[u][i - 1]
    <3>1. i \in 1..Len(st[u]) /\ st2[u][i] = st[u][i] /\ (i # 1 => st2[u][i - 1] = st[u][i - 1])
      <4>1. i # 1 => i - 1 \in 1..Len(st2[u])
        BY <1>8
      <4> QED
        BY <1>8, <4>1
    <3>2. nxt[st[u][i]] = IF i = 1 THEN 0 ELSE st[u][i - 1]
      BY <3>1 DEF Lists
    <3> QED
      BY <3>1, <3>2
  <2>3. \A u, v \in Threads : \A i \in 1..Len(st2[u]), j \in 1..Len(st2[v]) :
           st2[u][i] = st2[v][j] => u = v /\ i = j
    BY <1>8 DEF Lists
  <2>4. ASSUME NEW n \in 1..m
        PROVE  own2[n] = 0 <=> \E u \in Threads : On(st2, u, n)
    <3>1. n = h => own2[n] = x
      BY <1>3, <1>10
    <3>2. n # h => own2[n] = own[n]
      BY <1>3, <1>10
    <3> QED
      BY <1>9, <3>1, <3>2 DEF Lists
  <2> QED
    BY <1>8, <2>1, <2>2, <2>3, <2>4 DEF Lists
<1>12. \A u \in Threads, n \in 1..m : u # t /\ On(st, u, n) => On(st2, u, n)
  <2>1. \A u \in Threads : u # t => st2[u] = st[u]
    BY <1>8
  <2> QED
    BY <2>1 DEF On
<1> QED
  BY <1>10, <1>11, <1>12

\* A node that is in no list, of the first m or the next one, is pushed.
LEMMA Pushed ==
    ASSUME NEW m \in Nat, NEW st, NEW top, NEW nxt, NEW own, Lists(st, top, nxt, own, m),
           NEW D, top \in [Threads -> D], NEW M \in {m, m + 1}, NEW n \in 1..M,
           n \in 1..m => own[n] # 0, M = m + 1 => n = M,
           1..M \subseteq DOMAIN own, 1..M \subseteq DOMAIN nxt,
           NEW t \in Threads
    PROVE  \E st2 : /\ Lists(st2, [top EXCEPT ![t] = n], [nxt EXCEPT ![n] = top[t]],
                             [own EXCEPT ![n] = 0], M)
                    /\ On(st2, t, n)
                    /\ \A u \in Threads, p \in 1..m : On(st, u, p) => On(st2, u, p)
<1>1. PICK s, k : s = st[t] /\ k = Len(s)
  OBVIOUS
<1>2. s \in Seq(1..m) /\ k \in Nat /\ 1..m \subseteq 1..M /\ M \in Nat
  BY <1>1 DEF Lists
<1>3. \A u \in Threads : \A i \in 1..Len(st[u]) : st[u][i] \in 1..m /\ st[u][i] # n
  <2> SUFFICES ASSUME NEW u \in Threads, NEW i \in 1..Len(st[u])
               PROVE  st[u][i] \in 1..m /\ st[u][i] # n
    OBVIOUS
  <2>1. st[u] \in Seq(1..m)
    BY DEF Lists
  <2>2. st[u][i] \in 1..m
    BY <2>1, ElementIn
  <2>3. own[st[u][i]] = 0
    BY <2>2 DEF Lists, On
  <2> QED
    BY <2>2, <2>3
<1>4. PICK r : r = Append(s, n)
  OBVIOUS
<1>5. r \in Seq(1..M) /\ Len(r) = k + 1 /\ r[k + 1] = n /\ \A i \in 1..k : r[i] = s[i]
  <2>1. s \in Seq(1..M)
    <3>1. \A i \in 1..k : s[i] \in 1..M
      BY <1>1, <1>2, <1>3
    <3> QED
      BY <1>1, <1>2, <3>1
  <2> QED
    BY <1>1, <1>2, <1>4, <2>1
<1>6. PICK st2 : st2 = [st EXCEPT ![t] = r]
  OBVIOUS
<1>7. /\ st2 \in [Threads -> Seq(1..M)] /\ st2[t] = r
      /\ \A u \in Threads : u # t => st2[u] = st[u]
  <2>1. \A u \in Threads : u # t => st2[u] = st[u]
    BY <1>6 DEF Lists
  <2>2. \A u \in Threads : st[u] \in Seq(1..M)
    <3> SUFFICES ASSUME NEW u \in Threads PROVE st[u] \in Seq(1..M)
      OBVIOUS
    <3>1. st[u] \in Seq(1..m)
      BY DEF Lists
    <3>2. \A i \in 1..Len(st[u]) : st[u][i] \in 1..M
      BY <1>2, <1>3
    <3> QED
      BY <3>1, <3>2
  <2> QED
    BY <1>5, <1>6, <2>1, <2>2 DEF Lists
<1>8. ASSUME NEW u \in Threads, NEW i \in 1..Len(st2[u])
      PROVE  \/ i \in 1..Len(st[u]) /\ st2[u][i] = st[u][i] /\ st2[u][i] # n
             \/ u = t /\ i = k + 1 /\ st2[u][i] = n
  <2>1. CASE u = t
    <3>1. i \in 1..(k + 1) /\ st[u] = s /\ st2[u] = r
      BY <1>1, <1>5, <1>7, <2>1
    <3>2. CASE i = k + 1
      BY <1>5, <2>1, <3>1, <3>2
    <3>3. CASE i \in 1..k
      BY <1>1, <1>3, <1>5, <3>1, <3>3
    <3> QED
      BY <1>2, <3>1, <3>2, <3>3
  <2>2. CASE u # t
    BY <1>3, <1>7, <2>2
  <2> QED
    BY <2>1, <2>2
<1>9. ASSUME NEW u \in Threads
      PROVE  \A i \in 1..Len(st[u]) : i \in 1..Len(st2[u]) /\ st2[u][i] = st[u][i]
  <2>1. CASE u = t
    BY <1>1, <1>2, <1>5, <1>7, <2>1
  <2>2. CASE u # t
    BY <1>7, <2>2
  <2> QED
    BY <2>1, <2>2
<1>10. On(st2, t, n) /\ \A u \in Threads, p \in 1..m : On(st, u, p) => On(st2, u, p)
  <2>1. k + 1 \in 1..Len(st2[t]) /\ st2[t][k + 1] = n
    BY <1>2, <1>5, <1>7
  <2> QED
    BY <1>9, <2>1 DEF On
<1>11. PICK top2, nxt2, own2 :
          /\ top2 = [top EXCEPT ![t] = n] /\ nxt2 = [nxt EXCEPT ![n] = top[t]]
          /\ own2 = [own EXCEPT ![n] = 0]
  OBVIOUS
<1>12. Lists(st2, top2, nxt2, own2, M)
  <2>1. ASSUME NEW u \in Threads
        PROVE  top2[u] = IF Len(st2[u]) = 0 THEN 0 ELSE st2[u][Len(st2[u])]
    <3>1. CASE u = t
      BY <1>2, <1>5, <1>7, <1>11, <3>1
    <3>2. CASE u # t
      BY <1>7, <1>11, <3>2 DEF Lists
    <3> QED
      BY <3>1, <3>2
  <2>2. ASSUME NEW u \in Threads, NEW i \in 1..Len(st2[u])
        PROVE  nxt2[st2[u][i]] = IF i = 1 THEN 0 ELSE st2[u][i - 1]
    <3>1. CASE i \in 1..Len(st[u]) /\ st2[u][i] = st[u][i] /\ st2[u][i] # n
      <4>1. nxt2[st[u][i]] = nxt[st[u][i]]
        BY <1>11, <3>1
      <4>2. nxt[st[u][i]] = IF i = 1 THEN 0 ELSE st[u][i - 1]
        BY <3>1 DEF Lists
      <4>3. Len(st[u]) \in Nat
        BY DEF Lists
      <4>4. i # 1 => i - 1 \in 1..Len(st[u])
        BY <3>1, <4>3
      <4>5. i # 1 => st2[u][i - 1] = st[u][i - 1]
        BY <1>9, <4>4
      <4> QED
        BY <3>1, <4>1, <4>2, <4>5
    <3>2. CASE u = t /\ i = k + 1 /\ st2[u][i] = n
      <4>1. nxt2[n] = top[t]
        BY <1>2, <1>11
      <4>2. top[t] = IF k = 0 THEN 0 ELSE s[k]
        BY <1>1 DEF Lists
      <4>3. k # 0 => r[k] = s[k] /\ (k + 1) - 1 = k
        BY <1>2, <1>5
      <4>4. (i = 1 <=> k = 0) /\ st2[u][i] = n /\ (k # 0 => st2[u][i - 1] = s[k])
        BY <1>2, <1>7, <3>2, <4>3
      <4> QED
        BY <4>1, <4>2, <4>4
    <3> QED
      BY <1>8, <3>1, <3>2
  <2>3. ASSUME NEW u \in Threads, NEW v \in Threads, NEW i \in 1..Len(st2[u]),
               NEW j \in 1..Len(st2[v]), st2[u][i] = st2[v][j]
        PROVE  u = v /\ i = j
    <3>1. \/ i \in 1..Len(st[u]) /\ st2[u][i] = st[u][i] /\ st2[u][i] # n
          \/ u = t /\ i = k + 1 /\ st2[u][i] = n
      BY <1>8
    <3>2. \/ j \in 1..Len(st[v]) /\ st2[v][j] = st[v][j] /\ st2[v][j] # n
          \/ v = t /\ j = k + 1 /\ st2[v][j] = n
      BY <1>8
    <3> QED
      BY <2>3, <3>1, <3>2 DEF Lists
  <2>4. ASSUME NEW p \in 1..M
        PROVE  own2[p] = 0 <=> \E u \in Threads : On(st2, u, p)
    <3>1. CASE p = n
      BY <1>10, <1>11, <3>1
    <3>2. CASE p # n
      <4>1. own2[p] = own[p] /\ p \in 1..m
        BY <1>11, <3>2
      <4>2. \A u \in Threads : On(st2, u, p) => On(st, u, p)
        BY <1>8, <3>2 DEF On
      <4> QED
        BY <1>10, <4>1, <4>2 DEF Lists
    <3> QED
      BY <3>1, <3>2
  <2> QED
    BY <1>7, <2>1, <2>2, <2>3, <2>4 DEF Lists
<1> QED
  BY <1>10, <1>11, <1>12

\* A list without repetitions is no longer than there are nodes.
LEMMA ListFits ==
    ASSUME NEW m \in Nat, NEW s \in Seq(1..m), \A i, k \in 1..Len(s) : s[i] = s[k] => i = k
    PROVE  Len(s) <= m
<1> SUFFICES ASSUME m < Len(s) PROVE FALSE
  OBVIOUS
<1>1. /\ IsFiniteSet(1..Len(s)) /\ IsFiniteSet(1..m)
      /\ Cardinality(1..Len(s)) = Len(s) /\ Cardinality(1..m) = m
  <2>1. Len(s) \in Nat
    OBVIOUS
  <2>2. /\ IsFiniteSet(1..Len(s)) /\ Cardinality(1..Len(s)) = IF 1 > Len(s) THEN 0 ELSE Len(s) - 1 + 1
    BY <2>1, FS_Interval
  <2>3. /\ IsFiniteSet(1..m) /\ Cardinality(1..m) = IF 1 > m THEN 0 ELSE m - 1 + 1
    BY FS_Interval
  <2> QED
    BY <2>1, <2>2, <2>3
<1>2. s \in [1..Len(s) -> 1..m]
  OBVIOUS
<1>3. Cardinality(1..m) < Cardinality(1..Len(s))
  BY <1>1
<1>4. \E x, y \in 1..Len(s) : x # y /\ s[x] = s[y]
  BY ONLY <1>1, <1>2, <1>3, FS_PigeonHole
<1> QED
  BY <1>4

\* Chain follows the list.
LEMMA Walked ==
    ASSUME LogTypes, NEW st, NEW top, NEW own, Lists(st, top, next, own, created), NEW t \in Threads
    PROVE  Log!Chain(top[t]) = [acyclic |-> TRUE, nodes |-> {n \in 1..created : On(st, t, n)}]
<1>1. PICK s \in Seq(1..created), l \in Nat : s = st[t] /\ l = Len(s)
  <2>1. st[t] \in Seq(1..created)
    BY DEF Lists
  <2> QED
    BY <2>1
<1>2. PICK N \in Nat : N = MaxNodes /\ l <= N
  <2>1. created \in Nat /\ created <= MaxNodes /\ MaxNodes \in Nat
    BY LibraryAssumption DEF LogTypes
  <2>2. \A i, k \in 1..Len(s) : s[i] = s[k] => i = k
    BY <1>1 DEF Lists
  <2>3. Len(s) <= created
    BY <2>1, <2>2, ListFits
  <2> QED
    BY <1>1, <2>1, <2>3
<1>3. /\ \A i \in 1..l : s[i] \in 1..created /\ next[s[i]] = IF i = 1 THEN 0 ELSE s[i - 1]
      /\ top[t] = IF l = 0 THEN 0 ELSE s[l]
  <2>1. \A i \in 1..l : s[i] \in 1..created
    BY <1>1, ElementIn
  <2> QED
    BY <1>1, <2>1 DEF Lists
<1> DEFINE At(i) == IF i < l THEN s[l - i] ELSE 0
           Rec(f) == f = [i \in 0..N |-> IF i = 0 THEN top[t]
                                         ELSE IF f[i - 1] = 0 THEN 0 ELSE next[f[i - 1]]]
<1>4. At(0) = top[t]
  BY <1>3
<1>5. ASSUME NEW i \in 1..N
      PROVE  At(i) = IF At(i - 1) = 0 THEN 0 ELSE next[At(i - 1)]
  <2>1. CASE l <= i - 1
    BY <2>1
  <2>2. CASE i - 1 < l
    <3>1. PICK k \in 1..l : k = l - (i - 1)
      BY <2>2
    <3>2. At(i - 1) = s[k] /\ s[k] # 0
      <4>1. s[k] \in 1..created
        BY <1>3
      <4>2. created \in Nat
        BY DEF LogTypes
      <4> QED
        BY <2>2, <3>1, <4>1, <4>2
    <3>3. next[s[k]] = IF k = 1 THEN 0 ELSE s[k - 1]
      BY <1>3
    <3>4. (k = 1 <=> ~(i < l)) /\ (i < l => k - 1 = l - i)
      BY <3>1
    <3>5. At(i) = IF k = 1 THEN 0 ELSE s[k - 1]
      BY <3>4
    <3> QED
      BY <3>2, <3>3, <3>5
  <2> QED
    BY <2>1, <2>2
<1>6. \E f : Rec(f)
  <2>1. PICK g : g = [i \in 0..N |-> At(i)]
    OBVIOUS
  <2>2. ASSUME NEW i \in 0..N
        PROVE  g[i] = IF i = 0 THEN top[t] ELSE IF g[i - 1] = 0 THEN 0 ELSE next[g[i - 1]]
    <3>1. CASE i = 0
      BY <1>4, <2>1, <3>1
    <3>2. CASE i # 0
      <4>1. i \in 1..N /\ i - 1 \in 0..N
        BY <3>2
      <4>2. g[i] = At(i) /\ g[i - 1] = At(i - 1)
        BY ONLY <2>1, <4>1, i \in 0..N
      <4> HIDE DEF At
      <4> QED
        BY <1>5, <3>2, <4>1, <4>2
    <3> QED
      BY <3>1, <3>2
  <2>3. Rec(g)
    <3> HIDE DEF At
    <3> QED
      BY <2>1, <2>2
  <2> QED
    BY <2>3
<1>6a. PICK f : f = CHOOSE g : Rec(g)
  OBVIOUS
<1>7. Rec(f) /\ Log!Chain(top[t]) = [acyclic |-> f[N] = 0, nodes |-> {f[i] : i \in 0..N} \ {0}]
  <2> HIDE DEF At
  <2>1. Rec(f)
    BY ONLY <1>6, <1>6a
  <2>2. Log!Chain(top[t]) = [acyclic |-> f[N] = 0, nodes |-> {f[i] : i \in 0..N} \ {0}]
    BY ONLY <1>2, <1>6a DEF Log!Chain
  <2> QED
    BY ONLY <2>1, <2>2
<1>8. \A i \in 0..N : f[i] = At(i)
  <2> HIDE DEF At
  <2> SUFFICES ASSUME {i \in 0..N : f[i] # At(i)} # {} PROVE FALSE
    OBVIOUS
  <2>1. PICK i \in 0..N : f[i] # At(i) /\ \A k \in 0..N : f[k] # At(k) => i <= k
    <3>1. {j \in 0..N : f[j] # At(j)} \in SUBSET Nat
      OBVIOUS
    <3> QED
      BY <3>1, Least
  <2>2. i # 0
    BY <1>4, <1>7, <2>1
  <2>3. i \in 1..N /\ i - 1 \in 0..N /\ ~(i <= i - 1)
    BY <2>2
  <2>4. f[i - 1] = At(i - 1)
    BY <2>1, <2>3
  <2>5. f[i] = IF f[i - 1] = 0 THEN 0 ELSE next[f[i - 1]]
    BY <1>7, <2>2
  <2> QED
    BY <1>5, <2>1, <2>3, <2>4, <2>5
<1>9. f[N] = 0
  BY <1>2, <1>8
<1>10. {f[i] : i \in 0..N} \ {0} = {n \in 1..created : On(st, t, n)}
  <2>1. ASSUME NEW i \in 0..N, f[i] # 0
        PROVE  f[i] \in 1..created /\ On(st, t, f[i])
    <3>1. i < l /\ f[i] = s[l - i]
      BY <1>8, <2>1
    <3>2. l - i \in 1..l
      BY <3>1
    <3> QED
      BY <1>1, <1>3, <3>1, <3>2 DEF On
  <2>2. ASSUME NEW n \in 1..created, On(st, t, n)
        PROVE  n # 0 /\ \E i \in 0..N : f[i] = n
    <3>1. PICK k \in 1..l : s[k] = n
      BY <1>1, <2>2 DEF On
    <3>2. l - k \in 0..N /\ l - k < l /\ l - (l - k) = k
      BY <1>2
    <3>3. f[l - k] = n
      BY <1>8, <3>1, <3>2
    <3>4. n # 0
      BY DEF LogTypes
    <3> QED
      BY <3>2, <3>3, <3>4
  <2> QED
    BY <2>1, <2>2
<1> QED
  BY <1>7, <1>9, <1>10

-----------------------------------------------------------------------------
(***************************************************************************)
(* Logging: every node is free, with a thread, or in an entry              *)
(***************************************************************************)
Tops == [t \in Threads |-> IF t = LogThread THEN chunk ELSE head[t]]
Using == {t \in Threads : logPc[t] \in {"own", "delete"}}
Entries == {logQueue[i] : i \in 1..Len(logQueue)} \cup failed

\* What threads and entries have is allocated, and no two have the same.  A thread that
\* has freed still knows where the node is, and may free it again.
UseInv(st) ==
    /\ \A t \in Using : /\ node[t] \in 1..created /\ owner[node[t]] \in Writers
                        /\ t \in Writers => owner[node[t]] = t
    /\ \A t, u \in Using : node[t] = node[u] => t = u
    /\ \A p \in Entries : pushed[p] \in 1..created /\ owner[pushed[p]] \in Writers
    /\ \A p, q \in Entries : pushed[p] = pushed[q] => p = q
    /\ \A t \in Using, p \in Entries : node[t] # pushed[p]
    /\ \A n \in 1..created : owner[n] # 0 => \/ \E t \in Using : node[t] = n
                                             \/ \E p \in Entries : pushed[p] = n
    /\ \A t \in Writers : logPc[t] = "freed" => node[t] \in 1..created /\ On(st, t, node[t])

PoolInv == \E st : Lists(st, Tops, next, owner, created) /\ UseInv(st)

LEMMA PoolInit == Log!Init => PoolInv
<1> SUFFICES ASSUME Log!Init PROVE PoolInv
  OBVIOUS
<1>1. PICK st : st = [t \in Threads |-> <<>>]
  OBVIOUS
<1>2. 1..created = {} /\ \A t \in Threads : st[t] = <<>> /\ Tops[t] = 0 /\ st[t] \in Seq(1..created)
  BY <1>1 DEF Log!Init, Log!All, Threads, Tops
<1>3. Lists(st, Tops, next, owner, created)
  BY <1>1, <1>2 DEF Lists
<1>4. Using = {} /\ Entries = {} /\ \A t \in Writers : logPc[t] # "freed"
  BY DEF Log!Init, Log!All, Using, Entries, Threads
<1>5. UseInv(st)
  BY <1>2, <1>4 DEF UseInv
<1> QED
  BY <1>3, <1>5 DEF PoolInv

\* Steps that move no node
LEMMA PoolStays ==
    ASSUME PoolInv, UNCHANGED <<head, chunk, next, owner, created>>,
           Using' = Using, Entries' = Entries,
           \A t \in Using : node'[t] = node[t], \A p \in Entries : pushed'[p] = pushed[p],
           \A t \in Writers : logPc'[t] = "freed" => logPc[t] = "freed" /\ node'[t] = node[t]
    PROVE  PoolInv'
<1>1. PICK st : Lists(st, Tops, next, owner, created) /\ UseInv(st)
  BY DEF PoolInv
<1>2. Tops' = Tops
  BY DEF Tops
<1>3. Lists(st, Tops', next', owner', created')
  BY <1>1, <1>2
<1>4. UseInv(st)'
  BY <1>1 DEF UseInv
<1> QED
  BY <1>3, <1>4 DEF PoolInv

\* The property, from the invariant
LEMMA PoolOwnsOnce == ASSUME LogInv, PoolInv PROVE Log!NodeOwnedOnce
<1>1. PICK st : Lists(st, Tops, next, owner, created) /\ UseInv(st)
  BY DEF PoolInv
<1> DEFINE OfList(t) == {n \in 1..created : On(st, t, n)}
<1>2. \A t \in Threads : Log!Chain(Tops[t]) = [acyclic |-> TRUE, nodes |-> OfList(t)]
  <2> HIDE DEF OfList
  <2> SUFFICES ASSUME NEW t \in Threads PROVE Log!Chain(Tops[t]) = [acyclic |-> TRUE, nodes |-> OfList(t)]
    OBVIOUS
  <2> QED
    BY <1>1, Walked DEF LogInv, OfList
<1>3. LogThread \in Threads /\ LogThread \notin Writers /\ Writers \subseteq Threads /\ Threads = Log!All
  BY LibraryAssumption DEF Threads, Log!All
<1>4. \A s \in Log!Stacks : /\ s[1] \in Threads /\ s[2] = [acyclic |-> TRUE, nodes |-> OfList(s[1])]
                            /\ s = <<s[1], s[2]>>
  <2> HIDE DEF OfList
  <2>1. \A t \in Writers : Tops[t] = head[t]
    BY <1>3 DEF Tops
  <2>2. Tops[LogThread] = chunk
    BY <1>3 DEF Tops
  <2> QED
    BY <1>2, <1>3, <2>1, <2>2 DEF Log!Stacks, Log!L
<1>5. \A t \in Threads : \E s \in Log!Stacks : s[1] = t
  <2>1. ASSUME NEW t \in Writers PROVE <<t, Log!Chain(head[t])>> \in Log!Stacks
    BY DEF Log!Stacks
  <2>2. <<LogThread, Log!Chain(chunk)>> \in Log!Stacks
    BY DEF Log!Stacks, Log!L
  <2>3. \A a, b : <<a, b>>[1] = a
    OBVIOUS
  <2> QED
    BY <2>1, <2>2, <2>3 DEF Threads
<1>6. \A n \in 1..created : owner[n] = 0 <=> \E t \in Threads : On(st, t, n)
  BY <1>1 DEF Lists
<1>7. \A t, u \in Threads, n \in 1..created : On(st, t, n) /\ On(st, u, n) => t = u
  BY <1>1 DEF Lists, On
<1>8. \A s \in Log!Stacks : s[2].acyclic /\ s[2].nodes = OfList(s[1])
  <2> SUFFICES ASSUME NEW s \in Log!Stacks PROVE s[2].acyclic /\ s[2].nodes = OfList(s[1])
    OBVIOUS
  <2> HIDE DEF OfList
  <2>1. s[2] = [acyclic |-> TRUE, nodes |-> OfList(s[1])]
    BY <1>4
  <2> QED
    BY <2>1
<1>9. Log!Holders = Using
  BY <1>3 DEF Log!Holders, Using
<1>10. Log!InUse = {node[t] : t \in Using} \cup {pushed[p] : p \in Entries}
  <2>1. Log!Range(logQueue) = {logQueue[i] : i \in 1..Len(logQueue)}
    BY DEF Log!Range, LogInv, LogTypes
  <2> QED
    BY <1>9, <2>1 DEF Log!InUse, Entries
<1>11. \A n \in Log!InUse : n \in 1..created /\ owner[n] # 0
  BY <1>1, <1>10, LibraryAssumption DEF UseInv
<1>12. \A n \in 1..created : owner[n] # 0 => n \in Log!InUse
  BY <1>1, <1>10 DEF UseInv
<1>13. \A s \in Log!Stacks : s[2].acyclic /\ \A n \in s[2].nodes : owner[n] = 0
  BY <1>4, <1>6, <1>8
<1>14. ASSUME NEW s \in Log!Stacks, NEW u \in Log!Stacks, s # u
       PROVE  s[2].nodes \cap u[2].nodes = {}
  <2> HIDE DEF OfList
  <2>1. s[1] # u[1]
    BY <1>4, <1>14
  <2>2. \A n : n \in OfList(s[1]) => n \notin OfList(u[1])
    BY <1>4, <1>7, <2>1 DEF OfList
  <2> QED
    BY <1>8, <2>2
<1>15. \A n \in Log!InUse : owner[n] # 0 /\ \A s \in Log!Stacks : n \notin s[2].nodes
  BY <1>11, <1>13
<1> DEFINE Listed == UNION {s[2].nodes : s \in Log!Stacks}
<1>16. Listed \cup Log!InUse = 1..created
  <2>1. \A s \in Log!Stacks : s[2].nodes \subseteq 1..created
    BY <1>8
  <2>2. ASSUME NEW n \in 1..created, owner[n] = 0
        PROVE  \E s \in Log!Stacks : n \in s[2].nodes
    <3>1. PICK t \in Threads : On(st, t, n)
      BY <1>6, <2>2
    <3> QED
      BY <1>5, <1>8, <3>1
  <2>3. \A n \in Listed : n \in 1..created
    BY <2>1
  <2>4. \A n \in 1..created : n \in Listed \/ n \in Log!InUse
    <3>1. \A n \in 1..created : (\E s \in Log!Stacks : n \in s[2].nodes) => n \in Listed
      OBVIOUS
    <3> HIDE DEF Listed
    <3> QED
      BY <1>12, <2>2, <3>1
  <2> HIDE DEF Listed
  <2> QED
    BY <1>11, <2>3, <2>4
<1>17. \A t, u \in Log!Holders : node[t] = node[u] => t = u
  BY <1>1, <1>9 DEF UseInv
<1> HIDE DEF OfList
<1> QED
  BY <1>13, <1>14, <1>15, <1>16, <1>17 DEF Log!NodeOwnedOnce

\* What the types say of the arguments of Lists
LEMMA PoolTypes ==
    ASSUME LogInv
    PROVE  /\ Tops \in [Threads -> 0..MaxNodes] /\ created \in Nat /\ created <= MaxNodes
           /\ 1..created \subseteq DOMAIN owner /\ 1..created \subseteq DOMAIN next
           /\ LogThread \in Threads /\ LogThread # 0 /\ LogThread \notin Writers
           /\ \A t \in Writers : t \in Threads /\ t # 0 /\ t # LogThread /\ Tops[t] = head[t]
           /\ Tops[LogThread] = chunk
<1>1. /\ head \in [Threads -> 0..MaxNodes] /\ chunk \in 0..MaxNodes /\ created \in 0..MaxNodes
      /\ DOMAIN owner = 1..MaxNodes /\ DOMAIN next = 1..MaxNodes /\ MaxNodes \in Nat
  BY LibraryAssumption DEF LogInv, LogTypes
<1>2. /\ LogThread \in Threads /\ LogThread # 0 /\ LogThread \notin Writers
      /\ \A t \in Writers : t \in Threads /\ t # 0 /\ t # LogThread
  BY LibraryAssumption DEF Threads
<1> QED
  BY <1>1, <1>2 DEF Tops

LEMMA PopOkOwns == ASSUME LogInv, LogInv', PoolInv, NEW t \in Writers, Log!PopOk(t) PROVE PoolInv'
<1>1. /\ logPc[t] = "pop" /\ head[t] # 0
      /\ node' = [node EXCEPT ![t] = head[t]]
      /\ head' = [head EXCEPT ![t] = next[head[t]]]
      /\ owner' = [owner EXCEPT ![head[t]] = t]
      /\ logPc' = [logPc EXCEPT ![t] = "own"]
      /\ UNCHANGED <<chunk, next, created, logQueue, pushed, failed>>
  BY DEF Log!PopOk, Log!Goto, Log!logVars
<1>2. PICK st : Lists(st, Tops, next, owner, created) /\ UseInv(st)
  BY DEF PoolInv
<1>3. t \in Threads /\ t # 0 /\ t # LogThread /\ Tops[t] = head[t]
  BY PoolTypes
<1>4. PICK h : h = head[t]
  OBVIOUS
<1>5. /\ created \in Nat /\ Tops \in [Threads -> 0..MaxNodes] /\ 1..created \subseteq DOMAIN owner
      /\ Tops[t] # 0
  BY <1>1, <1>3, PoolTypes
<1>6. h \in 1..created /\ owner[h] = 0 /\ node'[t] = h /\ owner'[h] = t
  <2>1. h \in 1..created /\ owner[h] = 0
    BY ONLY <1>2, <1>3, <1>4, <1>5, TopFree
  <2>2. t \in DOMAIN node /\ h \in DOMAIN owner
    BY <1>3, <2>1, PoolTypes DEF LogInv, LogTypes
  <2> QED
    BY <1>1, <1>4, <2>1, <2>2
<1>7. PICK st2 : /\ Lists(st2, [Tops EXCEPT ![t] = next[h]], next, [owner EXCEPT ![h] = t], created)
                 /\ \A u \in Threads, n \in 1..created : u # t /\ On(st, u, n) => On(st2, u, n)
  <2>1. \E st2 : /\ Lists(st2, [Tops EXCEPT ![t] = next[Tops[t]]], next, [owner EXCEPT ![Tops[t]] = t], created)
                 /\ \A u \in Threads, n \in 1..created : u # t /\ On(st, u, n) => On(st2, u, n)
    BY ONLY <1>2, <1>3, <1>5, Popped
  <2>2. Tops[t] = h
    BY <1>3, <1>4
  <2> QED
    BY <2>1, <2>2
<1>8. Tops' = [Tops EXCEPT ![t] = next[h]]
  BY <1>1, <1>3, <1>4 DEF Tops, LogInv, LogTypes
<1>9. Lists(st2, Tops', next', owner', created')
  BY <1>1, <1>4, <1>7, <1>8
<1>10. /\ Using' = Using \cup {t} /\ t \notin Using /\ Entries' = Entries
       /\ \A u \in Using : node'[u] = node[u]
       /\ \A n \in 1..created : n # h => owner'[n] = owner[n]
       /\ \A u \in Writers : logPc'[u] = "freed" => logPc[u] = "freed" /\ node'[u] = node[u] /\ u # t
  <2>1. \A u \in Threads : u # t => logPc'[u] = logPc[u] /\ node'[u] = node[u]
    BY <1>1
  <2>2. logPc'[t] = "own" /\ logPc[t] # "own" /\ logPc[t] # "delete"
    BY <1>1, <1>3 DEF LogInv, LogTypes
  <2>3. Using' = Using \cup {t} /\ t \notin Using
    BY <1>3, <2>1, <2>2 DEF Using
  <2>4. Entries' = Entries
    BY <1>1 DEF Entries
  <2>5. \A n \in 1..created : n # h => owner'[n] = owner[n]
    BY <1>1, <1>4
  <2>6. \A u \in Using : u \in Threads
    BY DEF Using
  <2>7. \A u \in Writers : u \in Threads
    BY PoolTypes
  <2> QED
    BY <2>1, <2>2, <2>3, <2>4, <2>5, <2>6, <2>7
<1>11. /\ \A u \in Using : node[u] # h /\ node[u] \in 1..created
       /\ \A p \in Entries : pushed[p] # h /\ pushed[p] \in 1..created
  BY <1>2, <1>6, LibraryAssumption DEF UseInv
<1>12. UseInv(st2)'
  <2>1. \A u \in Using' : /\ node'[u] \in 1..created' /\ owner'[node'[u]] \in Writers
                          /\ u \in Writers => owner'[node'[u]] = u
    BY <1>1, <1>2, <1>6, <1>10, <1>11 DEF UseInv
  <2>2. \A u, v \in Using' : node'[u] = node'[v] => u = v
    BY <1>2, <1>6, <1>10, <1>11 DEF UseInv
  <2>3. \A p \in Entries' : pushed'[p] \in 1..created' /\ owner'[pushed'[p]] \in Writers
    BY <1>1, <1>2, <1>10, <1>11 DEF UseInv
  <2>4. \A p, q \in Entries' : pushed'[p] = pushed'[q] => p = q
    BY <1>1, <1>2, <1>10 DEF UseInv
  <2>5. \A u \in Using', p \in Entries' : node'[u] # pushed'[p]
    BY <1>1, <1>2, <1>6, <1>10, <1>11 DEF UseInv
  <2>6. \A n \in 1..created' : owner'[n] # 0 => \/ \E u \in Using' : node'[u] = n
                                               \/ \E p \in Entries' : pushed'[p] = n
    BY <1>1, <1>2, <1>6, <1>10 DEF UseInv
  <2>7. \A u \in Writers : logPc'[u] = "freed" => node'[u] \in 1..created' /\ On(st2, u, node'[u])
    BY <1>1, <1>2, <1>7, <1>10, PoolTypes DEF UseInv
  <2> QED
    BY <2>1, <2>2, <2>3, <2>4, <2>5, <2>6, <2>7 DEF UseInv, On
<1> QED
  BY <1>9, <1>12 DEF PoolInv

LEMMA FillOneOwns == ASSUME LogInv, LogInv', PoolInv, NEW t \in Writers, Log!FillOne(t) PROVE PoolInv'
<1>1. PICK n : n = IF chunk # 0 THEN chunk ELSE created + 1
  OBVIOUS
<1>2. /\ chunk' = IF chunk = 0 THEN 0 ELSE next[chunk]
      /\ created' = IF chunk # 0 THEN created ELSE created + 1
      /\ owner' = [owner EXCEPT ![n] = 0]
      /\ next' = [next EXCEPT ![n] = head[t]]
      /\ head' = [head EXCEPT ![t] = n]
      /\ UNCHANGED <<logPc, node, logQueue, pushed, failed>>
  BY <1>1 DEF Log!FillOne, Log!ChunkAfterPop, Log!logVars
<1>3. PICK st : Lists(st, Tops, next, owner, created) /\ UseInv(st)
  BY DEF PoolInv
<1>4. t \in Threads /\ t # 0 /\ t # LogThread /\ Tops[t] = head[t]
  BY PoolTypes
<1>5. /\ n \in 1..created' /\ (n \in 1..created => owner[n] = 0) /\ 1..created \subseteq 1..created'
      /\ \E st2 : /\ Lists(st2, Tops', next', owner', created')
                  /\ \A u \in Writers, p \in 1..created : On(st, u, p) => On(st2, u, p)
  <2>1. CASE chunk # 0
    <3>1. n = chunk /\ Tops[LogThread] = n /\ created' = created
      BY <1>1, <1>2, <2>1, PoolTypes
    <3>0. /\ created \in Nat /\ Tops \in [Threads -> 0..MaxNodes] /\ 1..created \subseteq DOMAIN owner
          /\ LogThread \in Threads /\ LogThread # 0 /\ Tops[LogThread] = chunk
      BY PoolTypes
    <3>2. n \in 1..created /\ owner[n] = 0
      BY ONLY <1>3, <2>1, <3>1, <3>0, TopFree
    <3>3. PICK top2, own2 : /\ top2 = [Tops EXCEPT ![LogThread] = next[n]]
                            /\ own2 = [owner EXCEPT ![n] = LogThread]
      OBVIOUS
    <3>4. PICK st2 : /\ Lists(st2, top2, next, own2, created)
                     /\ \A u \in Threads, p \in 1..created : u # LogThread /\ On(st, u, p) => On(st2, u, p)
      BY ONLY <1>3, <2>1, <3>0, <3>1, <3>3, Popped
    <3>5. /\ next[n] \in 0..MaxNodes /\ top2 \in [Threads -> 0..MaxNodes] /\ top2[t] = head[t]
          /\ own2[n] # 0 /\ 1..created \subseteq DOMAIN own2
      <4>1. next[n] \in 0..MaxNodes /\ n \in DOMAIN owner
        BY <3>2, PoolTypes DEF LogInv, LogTypes
      <4> QED
        BY <1>4, <3>3, <4>1, PoolTypes
    <3>6. PICK st3 : /\ Lists(st3, [top2 EXCEPT ![t] = n], [next EXCEPT ![n] = top2[t]],
                              [own2 EXCEPT ![n] = 0], created)
                     /\ \A u \in Threads, p \in 1..created : On(st2, u, p) => On(st3, u, p)
      <4>1. 1..created \subseteq DOMAIN next
        BY PoolTypes
      <4>2. PICK m \in Nat : m = created /\ created # m + 1 /\ created \in {m, m + 1}
        BY <3>0
      <4> QED
        BY ONLY <1>4, <3>0, <3>2, <3>4, <3>5, <4>1, <4>2, Pushed
    <3>7. [own2 EXCEPT ![n] = 0] = owner'
      BY <1>2, <3>3
    <3>8. [top2 EXCEPT ![t] = n] = Tops'
      <4>1. Tops \in [Threads -> 0..MaxNodes] /\ chunk' = next[n]
        BY <1>2, <2>1, <3>1, PoolTypes
      <4> QED
        BY <1>2, <1>4, <3>3, <4>1 DEF Tops, LogInv, LogTypes
    <3>9. Lists(st3, Tops', next', owner', created')
      BY <1>2, <3>1, <3>5, <3>6, <3>7, <3>8
    <3>10. \A u \in Writers, p \in 1..created : On(st, u, p) => On(st3, u, p)
      BY <3>4, <3>6, PoolTypes
    <3> QED
      BY <3>1, <3>2, <3>9, <3>10
  <2>2. CASE chunk = 0
    <3>1. n = created + 1 /\ created' = n /\ created \in Nat /\ n \in 1..n /\ n \notin 1..created
      BY <1>1, <1>2, <2>2, PoolTypes
    <3>2. 1..n \subseteq DOMAIN owner /\ 1..n \subseteq DOMAIN next
      <4>1. n \in 0..MaxNodes /\ MaxNodes \in Nat /\ DOMAIN owner = 1..MaxNodes /\ DOMAIN next = 1..MaxNodes
        BY <3>1, LibraryAssumption DEF LogInv, LogTypes
      <4> QED
        BY <3>1, <4>1
    <3>3. PICK st2 : /\ Lists(st2, [Tops EXCEPT ![t] = n], [next EXCEPT ![n] = Tops[t]],
                              [owner EXCEPT ![n] = 0], n)
                     /\ \A u \in Threads, p \in 1..created : On(st, u, p) => On(st2, u, p)
      BY <1>3, <1>4, <3>1, <3>2, PoolTypes, Pushed
    <3>4. [Tops EXCEPT ![t] = n] = Tops'
      BY <1>2, <1>4, <2>2 DEF Tops, LogInv, LogTypes
    <3>5. Lists(st2, Tops', next', owner', created')
      BY <1>2, <1>4, <3>1, <3>3, <3>4
    <3> QED
      BY <3>1, <3>3, <3>5, PoolTypes
  <2> QED
    BY <2>1, <2>2
<1>6. PICK st2 : /\ Lists(st2, Tops', next', owner', created')
                 /\ \A u \in Writers, p \in 1..created : On(st, u, p) => On(st2, u, p)
  BY <1>5
<1>7. Using' = Using /\ Entries' = Entries
  BY <1>2 DEF Using, Entries
<1>8. owner'[n] = 0 /\ \A p : p # n => owner'[p] = owner[p]
  <2>1. n \in DOMAIN owner'
    <3>1. n \in DOMAIN owner' /\ DOMAIN owner' = DOMAIN owner
      <4>1. created' \in Nat /\ created' <= MaxNodes /\ MaxNodes \in Nat /\ DOMAIN owner = 1..MaxNodes
        BY LibraryAssumption DEF LogInv, LogTypes
      <4> QED
        BY <1>2, <1>5, <4>1
    <3> QED
      BY <3>1
  <2> QED
    BY <1>2, <2>1
<1>9. /\ \A u \in Using : node[u] \in 1..created /\ node[u] # n
      /\ \A p \in Entries : pushed[p] \in 1..created /\ pushed[p] # n
  BY <1>3, <1>5, LibraryAssumption DEF UseInv
<1>10. \A p \in 1..created' : p = n \/ p \in 1..created
  BY <1>1, <1>2, PoolTypes
<1>11. UseInv(st2)'
  <2>1. \A u \in Using' : /\ node'[u] \in 1..created' /\ owner'[node'[u]] \in Writers
                          /\ u \in Writers => owner'[node'[u]] = u
    BY <1>2, <1>3, <1>5, <1>7, <1>8, <1>9 DEF UseInv
  <2>2. \A u, v \in Using' : node'[u] = node'[v] => u = v
    BY <1>2, <1>3, <1>7 DEF UseInv
  <2>3. \A p \in Entries' : pushed'[p] \in 1..created' /\ owner'[pushed'[p]] \in Writers
    BY <1>2, <1>3, <1>5, <1>7, <1>8, <1>9 DEF UseInv
  <2>4. \A p, q \in Entries' : pushed'[p] = pushed'[q] => p = q
    BY <1>2, <1>3, <1>7 DEF UseInv
  <2>5. \A u \in Using', p \in Entries' : node'[u] # pushed'[p]
    BY <1>2, <1>3, <1>7 DEF UseInv
  <2>6. \A p \in 1..created' : owner'[p] # 0 => \/ \E u \in Using' : node'[u] = p
                                               \/ \E q \in Entries' : pushed'[q] = p
    BY <1>2, <1>3, <1>7, <1>8, <1>10 DEF UseInv
  <2>7. \A u \in Writers : logPc'[u] = "freed" => node'[u] \in 1..created' /\ On(st2, u, node'[u])
    BY <1>2, <1>3, <1>5, <1>6 DEF UseInv
  <2> QED
    BY <2>1, <2>2, <2>3, <2>4, <2>5, <2>6, <2>7 DEF UseInv, On
<1> QED
  BY <1>6, <1>11 DEF PoolInv

\* A thread gives back the node that it has, to its own stack or to the chunk.
LEMMA GivenBack ==
    ASSUME LogInv, NEW st, Lists(st, Tops, next, owner, created), UseInv(st),
           NEW t \in Using, NEW l \in Threads, NEW n, n = node[t], l = IF t \in Writers THEN t ELSE LogThread,
           Tops' = [Tops EXCEPT ![l] = n], next' = [next EXCEPT ![n] = Tops[l]],
           owner' = [owner EXCEPT ![n] = 0],
           UNCHANGED <<created, logQueue, pushed, failed>>,
           \A u \in Threads : u # t => logPc'[u] = logPc[u] /\ node'[u] = node[u],
           logPc'[t] \notin {"own", "delete"},
           logPc'[t] = "freed" => t \in Writers /\ node'[t] = n
    PROVE  PoolInv'
<1>1. t \in Threads /\ n \in 1..created /\ owner[n] \in Writers /\ owner[n] # 0
  BY LibraryAssumption DEF Using, UseInv
<1>2. PICK m \in Nat : m = created /\ created \in {m, m + 1} /\ created # m + 1
  BY PoolTypes
<1>3. PICK st2 : /\ Lists(st2, Tops', next', owner', created') /\ On(st2, l, n)
                 /\ \A u \in Threads, p \in 1..created : On(st, u, p) => On(st2, u, p)
  <2>1. /\ Tops \in [Threads -> 0..MaxNodes]
        /\ 1..created \subseteq DOMAIN owner /\ 1..created \subseteq DOMAIN next
    BY PoolTypes
  <2>2. PICK st2 : /\ Lists(st2, [Tops EXCEPT ![l] = n], [next EXCEPT ![n] = Tops[l]],
                           [owner EXCEPT ![n] = 0], created)
                   /\ On(st2, l, n)
                   /\ \A u \in Threads, p \in 1..created : On(st, u, p) => On(st2, u, p)
    BY ONLY <1>1, <1>2, <2>1, Pushed, l \in Threads, Lists(st, Tops, next, owner, created)
  <2> QED
    BY <2>2
<1>4. Using' = Using \ {t} /\ Entries' = Entries /\ \A u \in Using' : node'[u] = node[u] /\ u \in Using
  BY DEF Using, Entries
<1>5. owner'[n] = 0 /\ \A p : p # n => owner'[p] = owner[p]
  BY <1>1, PoolTypes
<1>6. /\ \A u \in Using' : node[u] # n
      /\ \A p \in Entries : pushed[p] # n
  BY <1>4 DEF UseInv
<1>7. UseInv(st2)'
  <2>1. \A u \in Using' : /\ node'[u] \in 1..created' /\ owner'[node'[u]] \in Writers
                          /\ u \in Writers => owner'[node'[u]] = u
    BY <1>4, <1>5, <1>6 DEF UseInv
  <2>2. \A u, v \in Using' : node'[u] = node'[v] => u = v
    BY <1>4 DEF UseInv
  <2>3. \A p \in Entries' : pushed'[p] \in 1..created' /\ owner'[pushed'[p]] \in Writers
    BY <1>4, <1>5, <1>6 DEF UseInv
  <2>4. \A p, q \in Entries' : pushed'[p] = pushed'[q] => p = q
    BY <1>4 DEF UseInv
  <2>5. \A u \in Using', p \in Entries' : node'[u] # pushed'[p]
    BY <1>4 DEF UseInv
  <2>6. ASSUME NEW p \in 1..created', owner'[p] # 0
        PROVE  (\E u \in Using' : node'[u] = p) \/ \E q \in Entries' : pushed'[q] = p
    <3>1. p # n /\ owner[p] # 0
      BY <1>5, <2>6
    <3>2. (\E u \in Using : node[u] = p) \/ \E q \in Entries : pushed[q] = p
      BY <3>1 DEF UseInv
    <3> QED
      BY <1>4, <3>1, <3>2
  <2>7. ASSUME NEW u \in Writers, logPc'[u] = "freed"
        PROVE  node'[u] \in 1..created' /\ On(st2, u, node'[u])
    <3>1. CASE u = t
      BY <1>1, <1>3, <2>7, <3>1
    <3>2. CASE u # t
      <4>1. u \in Threads /\ logPc[u] = "freed" /\ node'[u] = node[u]
        BY <2>7, <3>2, PoolTypes
      <4> QED
        BY <1>3, <4>1 DEF UseInv
    <3> QED
      BY <3>1, <3>2
  <2> QED
    BY <2>1, <2>2, <2>3, <2>4, <2>5, <2>6, <2>7 DEF UseInv, On
<1> QED
  BY <1>3, <1>7 DEF PoolInv

LEMMA FreeOwns == ASSUME LogInv, LogInv', PoolInv, NEW t \in Writers, Log!Free(t) PROVE PoolInv'
<1>1. /\ logPc[t] = "own" /\ logPc' = [logPc EXCEPT ![t] = "freed"] /\ node' = node
      /\ Log!Deallocate(t, node[t]) /\ UNCHANGED <<logQueue, pushed, failed>>
  BY DEF Log!Free, Log!Goto, Log!logVars
<1>2. PICK st : Lists(st, Tops, next, owner, created) /\ UseInv(st)
  BY DEF PoolInv
<1>3. t \in Using /\ t \in Threads /\ t # 0 /\ t # LogThread /\ Tops[t] = head[t]
  BY <1>1, PoolTypes DEF Using
<1>4. PICK n : n = node[t] /\ owner[n] = t
  BY <1>2, <1>3 DEF UseInv
<1>5. /\ head' = [head EXCEPT ![t] = n] /\ chunk' = chunk /\ next' = [next EXCEPT ![n] = head[t]]
      /\ owner' = [owner EXCEPT ![n] = 0] /\ created' = created
  BY <1>1, <1>3, <1>4 DEF Log!Deallocate, Log!PushOwn
<1>6. Tops' = [Tops EXCEPT ![t] = n]
  BY <1>3, <1>5 DEF Tops, LogInv, LogTypes
<1>7. \A u \in Threads : u # t => logPc'[u] = logPc[u] /\ node'[u] = node[u]
  BY <1>1
<1>8. logPc'[t] = "freed" /\ node'[t] = n
  BY <1>1, <1>3, <1>4 DEF LogInv, LogTypes
<1> QED
  BY <1>1, <1>2, <1>3, <1>4, <1>5, <1>6, <1>7, <1>8, GivenBack

\* The second delete finds the node free and does nothing.
LEMMA FreeAgainOwns == ASSUME LogInv, PoolInv, NEW t \in Writers, Log!FreeAgain(t) PROVE PoolInv'
<1>1. /\ logPc[t] = "freed" /\ logPc' = [logPc EXCEPT ![t] = "idle"]
      /\ node' = [node EXCEPT ![t] = 0]
      /\ Log!Deallocate(t, node[t]) \/ UNCHANGED <<head, chunk, next, owner, created>>
      /\ UNCHANGED <<logQueue, pushed, failed>>
  BY DEF Log!FreeAgain, Log!Goto, Log!logVars, Log!poolVars
<1>2. t \in Threads
  BY PoolTypes
<1>3. owner[node[t]] = 0
  BY <1>1, <1>2 DEF PoolInv, Lists, UseInv
<1>4. UNCHANGED <<head, chunk, next, owner, created>>
  BY <1>1, <1>3 DEF Log!Deallocate
<1>5. \A u \in Threads : u # t => logPc'[u] = logPc[u] /\ node'[u] = node[u]
  BY <1>1
<1>6. logPc'[t] = "idle"
  BY <1>1, <1>2 DEF LogInv, LogTypes
<1>7. Using' = Using /\ t \notin Using /\ Entries' = Entries
  BY <1>1, <1>5, <1>6 DEF Using, Entries
<1>8. \A u \in Using : node'[u] = node[u]
  BY <1>5, <1>7 DEF Using
<1>9. \A u \in Writers : logPc'[u] = "freed" => logPc[u] = "freed" /\ node'[u] = node[u]
  BY <1>5, <1>6, PoolTypes
<1> QED
  BY <1>1, <1>4, <1>7, <1>8, <1>9, PoolStays

LEMMA DeleteOwns == ASSUME LogInv, LogInv', PoolInv, Log!Delete PROVE PoolInv'
<1>1. /\ logPc[LogThread] = "delete" /\ logPc' = [logPc EXCEPT ![LogThread] = "drain"]
      /\ node' = [node EXCEPT ![LogThread] = 0]
      /\ Log!Deallocate(LogThread, node[LogThread]) /\ UNCHANGED <<logQueue, pushed, failed>>
  BY DEF Log!Delete, Log!Goto, Log!logVars, Log!L
<1>2. PICK st : Lists(st, Tops, next, owner, created) /\ UseInv(st)
  BY DEF PoolInv
<1>3. /\ LogThread \in Using /\ LogThread \in Threads /\ LogThread \notin Writers
      /\ Tops[LogThread] = chunk
  BY <1>1, PoolTypes DEF Using
<1>4. PICK n : n = node[LogThread] /\ owner[n] \in Writers
  BY <1>2, <1>3 DEF UseInv
<1>5. owner[n] # 0 /\ owner[n] # LogThread
  BY <1>3, <1>4, LibraryAssumption
<1>6. /\ chunk' = n /\ head' = head /\ next' = [next EXCEPT ![n] = chunk]
      /\ owner' = [owner EXCEPT ![n] = 0] /\ created' = created
  BY <1>1, <1>4, <1>5 DEF Log!Deallocate, Log!PushChunk
<1>7. Tops' = [Tops EXCEPT ![LogThread] = n]
  BY <1>3, <1>6 DEF Tops
<1>8. \A u \in Threads : u # LogThread => logPc'[u] = logPc[u] /\ node'[u] = node[u]
  BY <1>1
<1>9. logPc'[LogThread] = "drain"
  BY <1>1, <1>3 DEF LogInv, LogTypes
<1> QED
  BY <1>1, <1>2, <1>3, <1>4, <1>6, <1>7, <1>8, <1>9, GivenBack

LEMMA WriteOwns == ASSUME LogInv, PoolInv, NEW t \in Writers, Log!Write(t) PROVE PoolInv'
<1>1. /\ logPc[t] = "own" /\ logPc' = [logPc EXCEPT ![t] = "idle"]
      /\ logQueue' = Append(logQueue, Len(pushed) + 1) /\ pushed' = Append(pushed, node[t])
      /\ node' = [node EXCEPT ![t] = 0]
      /\ UNCHANGED <<head, chunk, next, owner, created, failed>>
  BY DEF Log!Write, Log!Goto, Log!poolVars
<1>2. PICK st : Lists(st, Tops, next, owner, created) /\ UseInv(st)
  BY DEF PoolInv
<1>3. t \in Using /\ t \in Threads
  BY <1>1, PoolTypes DEF Using
<1>4. PICK n \in Nat : n = Len(pushed) + 1
  BY DEF LogInv, LogTypes
<1>5. /\ \A p \in Entries : p \in 1..Len(pushed) /\ p # n /\ pushed'[p] = pushed[p]
      /\ pushed'[n] = node[t]
  <2>1. \A p \in Entries : p \in 1..Len(pushed)
    BY DEF Entries, LogInv, OrderInv
  <2>2. pushed \in Seq(0..MaxNodes) /\ node[t] \in 0..MaxNodes /\ Len(pushed) \in Nat
    BY <1>3 DEF LogInv, LogTypes
  <2> QED
    BY <1>1, <1>4, <2>1, <2>2
<1>6. Entries' = Entries \cup {n}
  <2>1. logQueue \in Seq(Nat) /\ Len(logQueue) \in Nat
    BY DEF LogInv, LogTypes
  <2>2. PICK k \in Nat : k = Len(logQueue)
    BY <2>1
  <2>3. /\ Len(logQueue') = k + 1 /\ logQueue'[k + 1] = n
        /\ \A i \in 1..k : logQueue'[i] = logQueue[i]
    BY <1>1, <1>4, <2>1, <2>2
  <2>4. \A i \in 1..(k+1) : i \in 1..k \/ i = k + 1
    OBVIOUS
  <2>5. {logQueue'[i] : i \in 1..(k+1)} = {logQueue[i] : i \in 1..k} \cup {n}
    <3>1. \A x \in {logQueue'[i] : i \in 1..(k+1)} : x \in {logQueue[i] : i \in 1..k} \cup {n}
      BY <2>3, <2>4
    <3>2. \A x \in {logQueue[i] : i \in 1..k} : x \in {logQueue'[i] : i \in 1..(k+1)}
      BY <2>3
    <3>3. n \in {logQueue'[i] : i \in 1..(k+1)}
      BY <2>3
    <3> QED
      BY <3>1, <3>2, <3>3
  <2> QED
    BY <1>1, <2>2, <2>3, <2>5 DEF Entries
<1>7. /\ Using' = Using \ {t}
      /\ \A u \in Using' : u \in Using /\ u # t /\ node'[u] = node[u]
      /\ \A u \in Writers : logPc'[u] = "freed" => logPc[u] = "freed" /\ node'[u] = node[u]
  <2>1. \A u \in Threads : u # t => logPc'[u] = logPc[u] /\ node'[u] = node[u]
    BY <1>1
  <2>2. logPc'[t] = "idle"
    BY <1>1, <1>3 DEF LogInv, LogTypes
  <2>3. Using' = Using \ {t}
    BY <1>3, <2>1, <2>2 DEF Using
  <2>4. \A u \in Using' : u \in Threads /\ u # t
    BY <2>3 DEF Using
  <2> QED
    BY <2>1, <2>2, <2>3, <2>4, PoolTypes
<1>8. Lists(st, Tops', next', owner', created')
  <2>1. Tops' = Tops
    BY <1>1 DEF Tops
  <2> QED
    BY <1>1, <1>2, <2>1
<1>9. UseInv(st)'
  <2>1. \A u \in Using' : /\ node'[u] \in 1..created' /\ owner'[node'[u]] \in Writers
                          /\ u \in Writers => owner'[node'[u]] = u
    BY <1>1, <1>2, <1>7 DEF UseInv
  <2>2. \A u, v \in Using' : node'[u] = node'[v] => u = v
    BY <1>2, <1>7 DEF UseInv
  <2>3. \A p \in Entries' : pushed'[p] \in 1..created' /\ owner'[pushed'[p]] \in Writers
    <3>1. created' = created /\ owner' = owner
      BY <1>1
    <3>2. ASSUME NEW p \in Entries
          PROVE  pushed'[p] \in 1..created /\ owner[pushed'[p]] \in Writers
      BY <1>2, <1>5 DEF UseInv
    <3>3. pushed'[n] \in 1..created /\ owner[pushed'[n]] \in Writers
      BY <1>2, <1>3, <1>5 DEF UseInv
    <3> QED
      BY <1>6, <3>1, <3>2, <3>3
  <2>4. \A p, q \in Entries' : pushed'[p] = pushed'[q] => p = q
    BY <1>2, <1>3, <1>5, <1>6 DEF UseInv
  <2>5. \A u \in Using', p \in Entries' : node'[u] # pushed'[p]
    BY <1>2, <1>3, <1>5, <1>6, <1>7 DEF UseInv
  <2>6. ASSUME NEW p \in 1..created', owner'[p] # 0
        PROVE  (\E u \in Using' : node'[u] = p) \/ \E q \in Entries' : pushed'[q] = p
    <3>1. (\E u \in Using : node[u] = p) \/ \E q \in Entries : pushed[q] = p
      BY <1>1, <1>2, <2>6 DEF UseInv
    <3> QED
      BY <1>5, <1>6, <1>7, <3>1
  <2>7. \A u \in Writers : logPc'[u] = "freed" => node'[u] \in 1..created' /\ On(st, u, node'[u])
    BY <1>1, <1>2, <1>7 DEF UseInv
  <2> QED
    BY <2>1, <2>2, <2>3, <2>4, <2>5, <2>6, <2>7 DEF UseInv
<1> QED
  BY <1>8, <1>9 DEF PoolInv

LEMMA WriteFileOwns == ASSUME LogInv, PoolInv, Log!WriteFile PROVE PoolInv'
<1>1. /\ logPc[LogThread] = "drain" /\ logQueue # <<>>
      /\ node' = [node EXCEPT ![LogThread] = pushed[Head(logQueue)]]
      /\ logQueue' = Tail(logQueue)
      /\ logPc' = [logPc EXCEPT ![LogThread] = "delete"]
      /\ UNCHANGED <<head, chunk, next, owner, created, pushed, failed>>
  BY DEF Log!WriteFile, Log!Goto, Log!poolVars, Log!L
<1>2. PICK st : Lists(st, Tops, next, owner, created) /\ UseInv(st)
  BY DEF PoolInv
<1>3. LogThread \in Threads /\ LogThread \notin Writers /\ LogThread \notin Using
  BY <1>1, PoolTypes DEF Using
<1>4. PICK h \in Nat, k \in Nat : h = Head(logQueue) /\ k = Len(logQueue) - 1
  <2>1. logQueue \in Seq(Nat) /\ Len(logQueue) \in Nat /\ Len(logQueue) # 0
    BY <1>1 DEF LogInv, LogTypes
  <2> QED
    BY <2>1
<1>5. h \in Entries /\ Entries' = Entries \ {h}
  <2>1. /\ Len(logQueue) = k + 1 /\ logQueue[1] = h /\ Len(logQueue') = k
        /\ \A i \in 1..k : logQueue'[i] = logQueue[i + 1] /\ i + 1 \in 1..(k+1) /\ i + 1 # 1
    BY <1>1, <1>4 DEF LogInv, LogTypes
  <2>2. /\ 1 \in 1..(k+1) /\ \A i \in 1..(k+1) : i = 1 \/ (i - 1 \in 1..k /\ (i - 1) + 1 = i)
    OBVIOUS
  <2>3. /\ \A i \in 1..(k+1) : i # 1 => logQueue[i] # h
        /\ h \notin failed
    BY <2>1, <2>2 DEF LogInv, LogTypes, OrderInv
  <2>4. {logQueue'[i] : i \in 1..k} = {logQueue[i] : i \in 1..(k+1)} \ {h}
    <3>1. \A x \in {logQueue'[i] : i \in 1..k} : x \in {logQueue[i] : i \in 1..(k+1)} /\ x # h
      BY <2>1, <2>3
    <3>2. ASSUME NEW i \in 1..(k+1), logQueue[i] # h
          PROVE  \E j \in 1..k : logQueue'[j] = logQueue[i]
      <4>1. PICK j \in 1..k : j = i - 1 /\ j + 1 = i
        BY <2>1, <2>2, <3>2
      <4>2. logQueue'[j] = logQueue[i]
        BY <2>1, <4>1
      <4> QED
        BY <4>2
    <3> QED
      BY <3>1, <3>2
  <2>5. h \in {logQueue[i] : i \in 1..(k+1)}
    BY <2>1, <2>2
  <2> QED
    BY <1>1, <2>1, <2>3, <2>4, <2>5 DEF Entries
<1>6. node'[LogThread] = pushed[h]
  BY <1>1, <1>3, <1>4 DEF LogInv, LogTypes
<1>7. /\ Using' = Using \cup {LogThread}
      /\ \A u \in Using : node'[u] = node[u]
      /\ \A u \in Writers : logPc'[u] = "freed" => logPc[u] = "freed" /\ node'[u] = node[u]
  <2>1. \A u \in Threads : u # LogThread => logPc'[u] = logPc[u] /\ node'[u] = node[u]
    BY <1>1
  <2>2. logPc'[LogThread] = "delete"
    BY <1>1, <1>3 DEF LogInv, LogTypes
  <2>3. Using' = Using \cup {LogThread}
    BY <1>3, <2>1, <2>2 DEF Using
  <2>4. \A u \in Using : u \in Threads /\ u # LogThread
    BY <1>3 DEF Using
  <2> QED
    BY <2>1, <2>2, <2>3, <2>4, PoolTypes
<1>8. Lists(st, Tops', next', owner', created')
  <2>1. Tops' = Tops
    BY <1>1 DEF Tops
  <2> QED
    BY <1>1, <1>2, <2>1
<1>9. /\ pushed[h] \in 1..created /\ owner[pushed[h]] \in Writers
      /\ \A u \in Using : node[u] # pushed[h]
      /\ \A p \in Entries' : pushed[p] # pushed[h] /\ p \in Entries
  BY <1>2, <1>5 DEF UseInv
<1>10. UseInv(st)'
  <2>1. \A u \in Using' : /\ node'[u] \in 1..created' /\ owner'[node'[u]] \in Writers
                          /\ u \in Writers => owner'[node'[u]] = u
    BY <1>1, <1>2, <1>3, <1>6, <1>7, <1>9 DEF UseInv
  <2>2. \A u, v \in Using' : node'[u] = node'[v] => u = v
    BY <1>2, <1>6, <1>7, <1>9 DEF UseInv
  <2>3. \A p \in Entries' : pushed'[p] \in 1..created' /\ owner'[pushed'[p]] \in Writers
    BY <1>1, <1>2, <1>9 DEF UseInv
  <2>4. \A p, q \in Entries' : pushed'[p] = pushed'[q] => p = q
    BY <1>1, <1>2, <1>9 DEF UseInv
  <2>5. \A u \in Using', p \in Entries' : node'[u] # pushed'[p]
    BY <1>1, <1>2, <1>6, <1>7, <1>9 DEF UseInv
  <2>6. ASSUME NEW p \in 1..created', owner'[p] # 0
        PROVE  (\E u \in Using' : node'[u] = p) \/ \E q \in Entries' : pushed'[q] = p
    <3>1. (\E u \in Using : node[u] = p) \/ \E q \in Entries : pushed[q] = p
      BY <1>1, <1>2, <2>6 DEF UseInv
    <3> QED
      BY <1>1, <1>5, <1>6, <1>7, <3>1
  <2>7. \A u \in Writers : logPc'[u] = "freed" => node'[u] \in 1..created' /\ On(st, u, node'[u])
    BY <1>1, <1>2, <1>7 DEF UseInv
  <2> QED
    BY <2>1, <2>2, <2>3, <2>4, <2>5, <2>6, <2>7 DEF UseInv
<1> QED
  BY <1>8, <1>10 DEF PoolInv

\* Steps from one label to another, neither of which means that the thread has a node
LEMMA OtherOwns ==
    ASSUME LogInv, PoolInv,
           \/ \E t \in Writers : Log!Allocate(t) \/ Log!FillLock(t) \/ Log!FillEnds(t)
           \/ Log!Destroy \/ Log!Execute \/ Log!WorkerEnds \/ Log!Drained \/ Log!OpenFails
    PROVE  PoolInv'
<1>1. /\ UNCHANGED <<head, chunk, next, owner, created, node, pushed>>
      /\ \/ logPc' = logPc
         \/ \E t \in Threads, l \in {"idle", "drain", "ended", "pop", "fill"} :
              logPc[t] \in {"idle", "drain", "pop", "fill"} /\ logPc' = [logPc EXCEPT ![t] = l]
  <2>1. LogThread \in Threads /\ Writers \subseteq Threads
    BY DEF Threads
  <2> QED
    BY <2>1 DEF Log!Allocate, Log!FillLock, Log!FillEnds, Log!Destroy, Log!Execute, Log!WorkerEnds,
                Log!Drained, Log!OpenFails, Log!Goto, Log!L, Log!poolVars, Log!logVars
<1>2. Entries' = Entries
  <2>1. CASE UNCHANGED <<logQueue, failed>>
    BY <2>1 DEF Entries
  <2>2. CASE Log!OpenFails
    <3>1. logQueue # <<>> /\ logQueue' = Tail(logQueue) /\ failed' = failed \cup {Head(logQueue)}
      BY <2>2 DEF Log!OpenFails, Log!AfterFailure
    <3>2. PICK h \in Nat, k \in Nat : h = Head(logQueue) /\ k = Len(logQueue) - 1
      <4>1. logQueue \in Seq(Nat) /\ Len(logQueue) \in Nat /\ Len(logQueue) # 0
        BY <3>1 DEF LogInv, LogTypes
      <4> QED
        BY <4>1
    <3>3. /\ Len(logQueue) = k + 1 /\ logQueue[1] = h /\ Len(logQueue') = k
          /\ \A i \in 1..k : logQueue'[i] = logQueue[i + 1] /\ i + 1 \in 1..(k+1)
      BY <3>1, <3>2 DEF LogInv, LogTypes
    <3>4. /\ 1 \in 1..(k+1) /\ \A i \in 1..(k+1) : i = 1 \/ (i - 1 \in 1..k /\ (i - 1) + 1 = i)
      OBVIOUS
    <3>5. ASSUME NEW i \in 1..(k+1)
          PROVE  logQueue[i] = h \/ \E j \in 1..k : logQueue'[j] = logQueue[i]
      BY <3>3, <3>4
    <3>6. {logQueue'[i] : i \in 1..k} \cup {h} = {logQueue[i] : i \in 1..(k+1)}
      <4>1. \A x \in {logQueue'[i] : i \in 1..k} : x \in {logQueue[i] : i \in 1..(k+1)}
        BY <3>3
      <4>2. h \in {logQueue[i] : i \in 1..(k+1)}
        BY <3>3, <3>4
      <4> QED
        BY <3>5, <4>1, <4>2
    <3> QED
      BY <3>1, <3>2, <3>3, <3>6 DEF Entries
  <2> QED
    BY <2>1, <2>2 DEF Log!Allocate, Log!FillLock, Log!FillEnds, Log!Destroy, Log!Execute,
                      Log!WorkerEnds, Log!Drained, Log!logVars
<1>3. Using' = Using /\ \A t \in Writers : logPc'[t] = "freed" => logPc[t] = "freed"
  <2>1. logPc \in [Threads -> Labels] /\ \A t \in Writers : t \in Threads
    BY PoolTypes DEF LogInv, LogTypes
  <2>2. CASE logPc' = logPc
    BY <2>2 DEF Using
  <2>3. ASSUME NEW t \in Threads, NEW l \in {"idle", "drain", "ended", "pop", "fill"},
               logPc[t] \in {"idle", "drain", "pop", "fill"}, logPc' = [logPc EXCEPT ![t] = l]
        PROVE  Using' = Using /\ \A u \in Writers : logPc'[u] = "freed" => logPc[u] = "freed"
    <3>1. logPc'[t] = l /\ \A u \in Threads : u # t => logPc'[u] = logPc[u]
      BY <2>1, <2>3
    <3>2. \A u \in Threads : logPc'[u] \in {"own", "delete"} <=> logPc[u] \in {"own", "delete"}
      BY <2>3, <3>1
    <3> QED
      BY <2>1, <3>1, <3>2 DEF Using
  <2> QED
    BY <1>1, <2>2, <2>3
<1> QED
  BY <1>1, <1>2, <1>3, PoolStays

LEMMA PoolKeeps == ASSUME LogInv, LogInv', PoolInv, Log!Next PROVE PoolInv'
  BY PopOkOwns, FillOneOwns, FreeOwns, FreeAgainOwns, WriteOwns, WriteFileOwns, DeleteOwns, OtherOwns
     DEF Log!Next

\* The pool hands no node to two threads: neither the lists without a lock, nor the chunk, nor
\* a second delete; and no node is lost but with an entry whose file could not be opened
\* (Memory.cpp Allocate, Deallocate, Fill; Logger.cpp).
THEOREM NodesOwnedOnce == Spec => []NodeOwnedOnce
<1>1. Init => LogInv /\ PoolInv
  BY LogInit, PoolInit DEF Init
<1>2. LogInv /\ PoolInv /\ [Next]_vars => (LogInv /\ PoolInv)'
  <2> SUFFICES ASSUME LogInv, PoolInv, [Next]_vars PROVE LogInv' /\ PoolInv'
    OBVIOUS
  <2>1. Log!Next \/ UNCHANGED logVars
    BY DEF Next, Only, vars
  <2>2. CASE Log!Next
    BY <2>2, LogKeeps, PoolKeeps
  <2>3. CASE UNCHANGED logVars
    <3>1. /\ UNCHANGED <<head, chunk, next, owner, created, logPc, node, pushed>>
          /\ Using' = Using /\ Entries' = Entries
      BY <2>3 DEF logVars, Using, Entries
    <3>2. PoolInv'
      BY <3>1, PoolStays
    <3> QED
      BY <2>3, <3>2, LogStutters
  <2> QED
    BY <2>1, <2>2, <2>3
<1>3. LogInv /\ PoolInv => NodeOwnedOnce
  BY PoolOwnsOnce DEF NodeOwnedOnce
<1> QED
  BY <1>1, <1>2, <1>3, PTL DEF Spec

-----------------------------------------------------------------------------
(***************************************************************************)
(* Thread: the destructor ends after the thread                            *)
(***************************************************************************)
AfterWorker == dtor = 3 => worker \in {"none", "ended"}

\* When ~Thread has returned there is no worker, or its function has returned: none waits
\* for the event that was closed, and none calls OnWorker of an object that is gone
\* (Thread::~Thread, _Worker).  It is the first conjunct of Thread!ThreadStops.
THEOREM EndsAfterWorker == Spec => []AfterWorker
<1> DEFINE ThrInv == dtor \in -1..3 /\ AfterWorker
<1>1. Init => ThrInv
  BY DEF Init, Thr!Init, AfterWorker
<1>2. ThrInv /\ [Next]_vars => ThrInv'
  <2> SUFFICES ASSUME ThrInv, [Next]_vars PROVE ThrInv'
    OBVIOUS
  <2>1. Thr!Next \/ UNCHANGED threadVars
    BY DEF Next, Only, vars
  <2>2. CASE UNCHANGED threadVars
    BY <2>2 DEF threadVars, AfterWorker
  <2>3. CASE Thr!RunOk \/ Thr!RunFails \/ Thr!Pulse \/ Thr!Begins
    BY <2>3 DEF Thr!RunOk, Thr!RunFails, Thr!Pulse, Thr!Begins, Thr!Live, AfterWorker
  <2>4. CASE Thr!Work \/ Thr!TimesOut
    BY <2>4 DEF Thr!Work, Thr!LoopTest, Thr!CallOnWorker, Thr!Wait, Thr!OnWorkerReturns,
                Thr!Released, Thr!TimesOut, Thr!Go, AfterWorker
  <2>5. CASE Thr!Close
    <3>1. dtor \in 0..2 /\ dtor' = dtor + 1 /\ worker' = worker
      BY <2>5 DEF Thr!Close, Thr!Clear, Thr!Signal, Thr!Join, Thr!Step
    <3>2. ASSUME dtor = 2
          PROVE  worker \in {"none", "ended"}
      BY <2>5, <3>2 DEF Thr!Close, Thr!Clear, Thr!Signal, Thr!Join, Thr!Step, Thr!Closing
    <3> QED
      BY <3>1, <3>2 DEF AfterWorker
  <2> QED
    BY <2>1, <2>2, <2>3, <2>4, <2>5 DEF Thr!Next
<1>3. ThrInv => AfterWorker
  OBVIOUS
<1> QED
  BY <1>1, <1>2, <1>3, PTL DEF Spec

-----------------------------------------------------------------------------
(***************************************************************************)
(* Server: no completion is handled once the sessions are deleted          *)
(***************************************************************************)
Unhandled == sessions = -1 /\ (threads <= MaxWait \/ create = "failed")
                => \A w \in Server!Workers : portWorker[w] # "handling"

NoneHandles == \A w \in Server!Workers : portWorker[w] # "handling"

ServerTypes ==
    /\ threads \in 0..MaxThreads /\ begun \in 0..threads /\ sessions \in Nat \cup {-1} /\ posted \in Nat
    /\ portWorker \in [Server!Workers -> {"none", "waiting", "handling", "ended"}]

\* Without sessions nothing is posted, and they are made when all threads have begun.
Starting ==
    /\ \A w \in Server!Workers : w > begun => portWorker[w] = "none"
    /\ create = "no" => threads = 0
    /\ create = "creating" => port # "none"
    /\ create = "yes" => begun = threads /\ port # "none"
    /\ create # "yes" => sessions <= 0 /\ posted = 0 /\ NoneHandles
    /\ destroy # "no" => create \in {"yes", "failed"}

Stopped ==
    /\ sessions = -1 => destroy = "done"
    /\ destroy = "done" => /\ port # "open"
                           /\ threads <= MaxWait \/ create = "failed" => NoneHandles

ServerInv == ServerTypes /\ Starting /\ Stopped

LEMMA ServerInit == ASSUME Server!Init PROVE ServerInv
<1>1. MaxThreads \in Nat
  BY ServerAssumption
<1> QED
  BY <1>1 DEF Server!Init, ServerInv, ServerTypes, Starting, Stopped, NoneHandles

\* Starting the threads, and what does not concern them
LEMMA ServerStarts ==
    ASSUME ServerInv,
           \/ \E n \in 1..MaxThreads : Server!CreatePort(n)
           \/ Server!BeginThread \/ Server!BeginFails \/ Server!Created
           \/ Server!CreateSession \/ Server!Completes \/ Server!PostQuits
    PROVE  ServerInv'
<1>1. MaxThreads \in Nat
  BY ServerAssumption
<1>2. CASE \E n \in 1..MaxThreads : Server!CreatePort(n)
  BY <1>1, <1>2 DEF Server!CreatePort, ServerInv, ServerTypes, Starting, Stopped, NoneHandles
<1>3. CASE Server!BeginThread
  <2>1. /\ create = "creating" /\ begun < threads /\ begun' = begun + 1
        /\ portWorker' = [portWorker EXCEPT ![begun + 1] = "waiting"]
        /\ UNCHANGED <<threads, create, port, posted, sessions, destroy>>
    BY <1>3 DEF Server!BeginThread
  <2>2. begun + 1 \in Server!Workers /\ begun + 1 \in 0..threads
    BY <1>1, <2>1 DEF ServerInv, ServerTypes, Server!Workers
  <2>3. ServerTypes'
    BY <2>1, <2>2 DEF ServerInv, ServerTypes
  <2>4. NoneHandles'
    BY <2>1, <2>2 DEF ServerInv, ServerTypes, Starting, NoneHandles
  <2>5. \A w \in Server!Workers : w > begun' => portWorker'[w] = "none"
    BY <2>1, <2>2 DEF ServerInv, ServerTypes, Starting, Server!Workers
  <2> QED
    BY <2>1, <2>3, <2>4, <2>5 DEF ServerInv, Starting, Stopped
<1>4. CASE Server!BeginFails \/ Server!Created
  BY <1>4 DEF Server!BeginFails, Server!Created, ServerInv, ServerTypes, Starting, Stopped, NoneHandles
<1>5. CASE Server!CreateSession \/ Server!Completes
  BY <1>5 DEF Server!CreateSession, Server!Completes, ServerInv, ServerTypes, Starting, Stopped, NoneHandles
<1>6. CASE Server!PostQuits
  BY <1>6 DEF Server!PostQuits, ServerInv, ServerTypes, Starting, Stopped, NoneHandles
<1> QED
  BY <1>2, <1>3, <1>4, <1>5, <1>6

LEMMA ServerWorks ==
    ASSUME ServerInv, NEW w \in Server!Workers, Server!Work(w)
    PROVE  ServerInv'
<1>1. CASE Server!Takes(w)
  <2>1. create = "yes" /\ destroy # "done"
    BY <1>1 DEF Server!Takes, ServerInv, ServerTypes, Starting, Stopped
  <2> QED
    BY <1>1, <2>1 DEF Server!Takes, ServerInv, ServerTypes, Starting, Stopped
<1>2. CASE Server!Handled(w) \/ Server!Quits(w)
  <2>1. PICK l \in {"waiting", "ended"} : portWorker' = [portWorker EXCEPT ![w] = l]
    BY <1>2 DEF Server!Handled, Server!Quits
  <2>2. portWorker[w] # "none" /\ UNCHANGED <<threads, begun, create, port, posted, sessions, destroy>>
    BY <1>2 DEF Server!Handled, Server!Quits
  <2>3. ServerTypes' /\ (NoneHandles => NoneHandles')
    BY <2>1, <2>2 DEF ServerInv, ServerTypes, NoneHandles
  <2>4. \A v \in Server!Workers : v > begun' => portWorker'[v] = "none"
    BY <2>1, <2>2 DEF ServerInv, ServerTypes, Starting
  <2> QED
    BY <2>2, <2>3, <2>4 DEF ServerInv, Starting, Stopped
<1> QED
  BY <1>1, <1>2 DEF Server!Work

LEMMA ServerStops == ASSUME ServerInv, Server!DeleteSessions PROVE ServerInv'
<1>1. /\ destroy = "posting" /\ destroy' = "done" /\ sessions' = -1 /\ port' # "open"
      /\ port # "none" => port' # "none"
      /\ UNCHANGED <<threads, begun, create, portWorker, posted>>
  BY DEF Server!DeleteSessions
<1>2. ASSUME threads <= MaxWait \/ create = "failed"
      PROVE  NoneHandles
  <2>1. CASE create # "yes"
    BY <2>1 DEF ServerInv, Starting
  <2>2. CASE create = "yes"
    <3>1. Server!Waitable
      BY <1>2, <2>2 DEF ServerInv, Starting, Server!Waitable
    <3>2. \A w \in 1..begun : portWorker[w] = "ended"
      BY <3>1 DEF Server!DeleteSessions, Server!Returns
    <3>3. \A w \in Server!Workers : w \in 1..begun \/ w > begun
      BY DEF ServerInv, ServerTypes, Server!Workers
    <3> QED
      BY <3>2, <3>3 DEF ServerInv, Starting, NoneHandles
  <2> QED
    BY <2>1, <2>2
<1>3. ServerTypes'
  BY <1>1 DEF ServerInv, ServerTypes
<1>4. NoneHandles' <=> NoneHandles
  BY <1>1 DEF NoneHandles
<1>5. Starting'
  BY <1>1, <1>4 DEF ServerInv, Starting
<1>6. Stopped'
  BY <1>1, <1>2, <1>4 DEF Stopped
<1> QED
  BY <1>3, <1>5, <1>6 DEF ServerInv

\* When _Destroy has returned and the sessions are deleted, no thread of the completion port
\* handles a completion of one, when the threads are not more than the system call waits
\* for or when not all could be begun (HNetIocp::_Create, _Destroy, Worker; HNet::~HNet).
\* It is the first conjunct of Server!WorkersGone.
THEOREM NoneHandledAfter == Spec => []Unhandled
<1>1. Init => ServerInv
  BY ServerInit DEF Init
<1>2. ServerInv /\ [Next]_vars => ServerInv'
  <2> SUFFICES ASSUME ServerInv, [Next]_vars PROVE ServerInv'
    OBVIOUS
  <2>1. Server!Next \/ UNCHANGED serverVars
    BY DEF Next, Only, vars
  <2>2. CASE UNCHANGED serverVars
    BY <2>2 DEF serverVars, ServerInv, ServerTypes, Starting, Stopped, NoneHandles
  <2> QED
    BY <2>1, <2>2, ServerStarts, ServerWorks, ServerStops DEF Server!Next
<1>3. ServerInv => Unhandled
  BY DEF ServerInv, Stopped, NoneHandles, Unhandled
<1> QED
  BY <1>1, <1>2, <1>3, PTL DEF Spec
=============================================================================
