------------------------------- MODULE Thread -------------------------------
(***************************************************************************)
(* The event thread (Thread.cpp): a worker that calls OnWorker until       *)
(* _event is NULL and usually waits for the event there, and a destructor  *)
(* that wakes it for the last time.  A definition named X_Y is X with the  *)
(* defect Y; no specification uses it.                                     *)
(***************************************************************************)
EXTENDS Integers, Sequences

VARIABLES event,      \* _event: "null", "open" or "closed"
          closeEvent, \* the destructor's copy
          signal,     \* whether the event is signalled
          worker,     \* where the thread is; "none" without one, "purecall" if it aborted
          dtor        \* steps of the destructor that are done; -1 before it begins

vars == <<event, closeEvent, signal, worker, dtor>>

Init == /\ event = "null" /\ closeEvent = "null" /\ signal = FALSE
        /\ worker = "none" /\ dtor = -1

Live == dtor = -1

(***************************************************************************)
(* The program: it does not use an object that it is destroying            *)
(***************************************************************************)
RunOk == /\ Live /\ worker = "none"
         /\ event' = "open" /\ signal' = FALSE /\ worker' = "test"
         /\ UNCHANGED <<closeEvent, dtor>>

\* No event, or no thread: then the event is closed, but _event keeps its handle.
RunFails == /\ Live /\ worker = "none"
            /\ event' \in {"null", "closed"}
            /\ UNCHANGED <<closeEvent, signal, worker, dtor>>

SetEvent(handle) == signal' = (signal \/ handle = "open")

Pulse == /\ Live /\ SetEvent(event)
         /\ UNCHANGED <<event, closeEvent, worker, dtor>>

(***************************************************************************)
(* _Worker.  In the destructor OnWorker is pure: calling it then aborts.   *)
(***************************************************************************)
Go(l) == worker' = l /\ UNCHANGED <<event, closeEvent, signal, dtor>>

LoopTest == worker = "test" /\ Go(IF event = "null" THEN "ended" ELSE "call")
CallOnWorker == worker = "call" /\ Go(IF Live THEN "on" ELSE "purecall")

\* Wait: a NULL handle fails at once; a wait with a time limit may also end by itself.
Wait == /\ worker = "on"
        /\ IF event = "null" THEN Go("test") ELSE Go("waiting") \/ Go("timed")

OnWorkerReturns == worker = "on" /\ Go("test")
TimesOut == worker = "timed" /\ Go("on")

\* The event resets itself when it releases a thread.
Released == /\ worker \in {"waiting", "timed"} /\ signal
            /\ signal' = FALSE /\ worker' = "on"
            /\ UNCHANGED <<event, closeEvent, dtor>>

(***************************************************************************)
(* ~Thread                                                                 *)
(***************************************************************************)
Closing_Swapped == <<"signal", "clear", "join">>
Closing == <<"clear", "signal", "join">>

Begins == /\ Live /\ dtor' = 0 /\ closeEvent' = event
          /\ UNCHANGED <<event, signal, worker>>

Step(name) == dtor \in 0..2 /\ Closing[dtor + 1] = name /\ dtor' = dtor + 1

Clear == /\ Step("clear") /\ event' = "null"
         /\ UNCHANGED <<closeEvent, signal, worker>>

Signal == /\ Step("signal") /\ SetEvent(closeEvent)
          /\ UNCHANGED <<event, closeEvent, worker>>

Join == /\ Step("join") /\ worker \in {"none", "ended"}
        /\ closeEvent' = "closed" /\ signal' = FALSE
        /\ UNCHANGED <<event, worker>>

Work == LoopTest \/ CallOnWorker \/ Wait \/ OnWorkerReturns \/ Released
Close == Clear \/ Signal \/ Join
Next == RunOk \/ RunFails \/ Pulse \/ Work \/ TimesOut \/ Begins \/ Close

\* The thread is scheduled, and OnWorker returns when its waits do.
Fairness == WF_vars(Work) /\ WF_vars(Close)

(***************************************************************************)
(* Properties                                                              *)
(***************************************************************************)
\* The destructor of a thread that waits for its event always ends, whatever was pulsed
\* before, and it ends after the thread; only a thread that is between two calls of
\* OnWorker when the destructor begins can be caught by it.
ThreadStops == /\ [](dtor = 3 => worker \in {"none", "ended"})
               /\ dtor = 0 ~> dtor = 3 \/ worker = "purecall"
               /\ dtor = 0 /\ worker = "waiting" /\ ~signal ~> dtor = 3
=============================================================================
