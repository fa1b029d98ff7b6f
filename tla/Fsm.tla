-------------------------------- MODULE Fsm --------------------------------
(***************************************************************************)
(* The state machine template (Fsm.h).  States are their types; 0 is NULL. *)
(* Excute may call Change, any number of times, before it returns; Enter   *)
(* may call it once, for another state; Exit does not.  A definition named *)
(* X_Y is X with the defect Y; no specification uses it.                   *)
(***************************************************************************)
EXTENDS Integers, FiniteSets, FiniteSetsExt

CONSTANTS States,    \* types that may be registered
          MaxCalls   \* bound: calls of Change by one Excute

VARIABLES states,     \* the keys of _states
          cur,        \* _curState
          pre,        \* _preState of each state
          transition, \* _transition
          inside,     \* the states entered and not left since
          phase,      \* "idle", "excute" or "fault"
          calls,      \* calls of Change by the Excute that runs
          nested      \* whether an Enter's Change has taken effect before _curState was assigned

vars == <<states, cur, pre, transition, inside, phase, calls, nested>>

Init == /\ states = {} /\ cur = 0 /\ pre = [s \in States |-> 0]
        /\ transition = FALSE /\ inside = {} /\ phase = "idle"
        /\ calls = 0 /\ nested = FALSE

\* What Change works on
Machine == [cur |-> cur, pre |-> pre, transition |-> transition, inside |-> inside]

Update(m) == /\ cur' = m.cur /\ pre' = m.pre
             /\ transition' = m.transition /\ inside' = m.inside

(***************************************************************************)
(* Change: the result when Enter calls Change(again), or nothing for 0     *)
(***************************************************************************)
Swap(m, old, new) == [m EXCEPT !.inside = (@ \ {old}) \cup {new}]

Same(m, type) == m.cur = type
Back(m, type) == m.pre[m.cur] # 0 /\ m.pre[m.cur] = type
Refused(m, type) == ~Same(m, type) /\ ~Back(m, type) /\ (m.transition \/ type \notin states)

Remember_AfterAssign(m, type) == [m EXCEPT !.transition = TRUE, !.pre[type] = type]
Remember(m, type) == [m EXCEPT !.transition = TRUE, !.pre[type] = m.cur]

\* Exit and Enter; _curState is what it was.
Entered(m, type) == IF Same(m, type) THEN Swap(m, type, type)
                    ELSE IF Back(m, type) THEN Swap(m, m.cur, type)
                    ELSE Swap(Remember(m, type), m.cur, type)

\* _curState = _curState->_preState, of the _curState there is when Enter has returned
ToPrevious(e) == [e EXCEPT !.cur = e.pre[e.cur]]

\* Change(type) on m goes on with e, which Enter left.
Assigned(m, type, e) == IF Same(m, type) THEN e
                        ELSE IF Back(m, type) THEN ToPrevious(e)
                        ELSE [e EXCEPT !.cur = type]

Changed(m, type) == IF Refused(m, type) THEN m ELSE Assigned(m, type, Entered(m, type))

ChangedTwice(m, type, again) ==
    IF Refused(m, type) THEN m ELSE Assigned(m, type, Changed(Entered(m, type), again))

\* The Change of an Enter that does something while _curState is the state that was left
Interferes(m, type, again) ==
    ~Refused(m, type) /\ ~Same(m, type) /\ ~Refused(Entered(m, type), again)

\* RevertState up to its assignment
Reentered(m) == [Swap(m, m.cur, m.pre[m.cur]) EXCEPT !.transition = TRUE]

(***************************************************************************)
(* The machine                                                             *)
(***************************************************************************)
Register(type, default) == /\ phase = "idle"
                           /\ default => inside = {}
                           /\ states' = states \cup {type}
                           /\ IF default THEN cur' = type /\ inside' = {type}
                                         ELSE UNCHANGED <<cur, inside>>
                           /\ UNCHANGED <<pre, transition, phase, calls, nested>>

\* Before a default state is registered _curState is not initialised: not called then.
Change(type) == /\ phase # "fault" /\ cur # 0 /\ calls < MaxCalls
                /\ calls' = IF phase = "idle" THEN 0 ELSE calls + 1
                /\ \/ Update(Changed(Machine, type)) /\ UNCHANGED nested
                   \/ \E again \in States \ {type} :
                          /\ Update(ChangedTwice(Machine, type, again))
                          /\ nested' = (nested \/ Interferes(Machine, type, again))
                /\ UNCHANGED <<states, phase>>

UpdateBegins == /\ phase = "idle" /\ cur # 0
                /\ phase' = "excute" /\ transition' = FALSE /\ calls' = 0
                /\ UNCHANGED <<states, cur, pre, inside, nested>>

Continues == /\ phase = "excute" /\ phase' = "idle" /\ calls' = 0
             /\ UNCHANGED <<states, cur, pre, transition, inside, nested>>

\* Excute returned false and did not start a transition.  The state that _curState is then
\* may never have had a predecessor: Enter of NULL.
Reverts == /\ phase = "excute" /\ ~transition /\ calls' = 0
           /\ \/ /\ pre[cur] = 0 /\ phase' = "fault" /\ transition' = TRUE
                 /\ UNCHANGED <<cur, pre, inside, nested>>
              \/ /\ pre[cur] # 0 /\ phase' = "idle"
                 /\ Update(ToPrevious(Reentered(Machine))) /\ UNCHANGED nested
              \/ /\ pre[cur] # 0 /\ phase' = "idle"
                 /\ \E again \in States \ {pre[cur]} :
                       /\ Update(ToPrevious(Changed(Reentered(Machine), again)))
                       /\ nested' = (nested \/ ~Refused(Reentered(Machine), again))
           /\ UNCHANGED states

Next == \/ \E s \in States, d \in BOOLEAN : Register(s, d)
        \/ \E s \in States : Change(s)
        \/ UpdateBegins \/ Continues \/ Reverts

(***************************************************************************)
(* Properties                                                              *)
(***************************************************************************)
\* The current state is the only one that was entered and not left, as long as no Enter's
\* Change came before the assignment of _curState.  (After one _curState may even be a state
\* that was left: an Enter called by the second branch of Change that enters a third state.)
\* A state's predecessor is always another state, so that a revert leaves the current state.
StatesPaired == /\ ~nested => inside = {cur} \ {0}
                /\ \A s \in States : pre[s] # s
=============================================================================
