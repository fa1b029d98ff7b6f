----------------------------- MODULE WordFilter -----------------------------
(***************************************************************************)
(* The word filter (Filter.cpp).  A node of its tree is named by the       *)
(* characters that lead to it, so that the tree is the set of registered   *)
(* words.  IsExist walks down it with each character the node knows and    *)
(* skips the others, and never goes back.  A definition named X_Y is X     *)
(* with the defect Y; no specification uses it.                            *)
(***************************************************************************)
EXTENDS Integers, Sequences, SequencesExt, FiniteSets

CONSTANTS Words,   \* that may be registered
          Strings  \* that are looked into

VARIABLES words, looked, filter  \* registered; the last string looked into, the path walked

vars == <<words, looked, filter>>

Init == words = {} /\ looked = <<>> /\ filter = <<>>

Node(path) == \E w \in words : IsPrefix(path, w)

Register(w) == words' = words \cup {w} /\ looked' = <<>> /\ filter' = <<>>

Walk_PastEnd(path, c) == IF Node(Append(path, c)) THEN Append(path, c) ELSE path
Walk(path, c) == IF path \in words \/ ~Node(Append(path, c)) THEN path ELSE Append(path, c)

\* IsExist returns whether a word ends where the walk stops.  s is what its argument lenth
\* selects of the string: a beginning, or all when lenth runs out on a character taken.
Path(s) == FoldLeft(Walk, <<>>, s)
IsExist(s) == looked' = s /\ filter' = Path(s) /\ UNCHANGED words

Next == (\E w \in Words : Register(w)) \/ (\E s \in Strings : IsExist(s))

(***************************************************************************)
(* Properties                                                              *)
(***************************************************************************)
\* s holds the characters of w in order, others between them
Holds(s, w) == \E f \in [DOMAIN w -> DOMAIN s] :
                  /\ \A i \in DOMAIN w : s[f[i]] = w[i]
                  /\ \A i, k \in DOMAIN w : i < k => f[i] < f[k]

\* A word that is reported is in the string, whatever else is registered: a word that is
\* the beginning of another does not hide it.  The only word that is registered is always
\* found; of several, the walk may take the wrong branch and miss what is there.
WordsFound ==
    /\ filter \in words => Holds(looked, filter)
    /\ \A w \in words : words = {w} /\ Holds(looked, w) => filter \in words
    /\ \A w \in words : IsPrefix(w, looked) => filter \in words
=============================================================================
