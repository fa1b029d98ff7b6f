------------------------------- MODULE Server -------------------------------
(***************************************************************************)
(* The completion port and its threads (HNetIocp.cpp), and what HNet does  *)
(* around them: it creates sessions once they run and deletes the sessions *)
(* after _Destroy.  A thread that has taken a completion uses its session. *)
(* The kernel's part of the port and of the waits is modelled from how     *)
(* they are called.  A definition named X_Y is X with the defect Y; no     *)
(* specification uses it.                                                  *)
(***************************************************************************)
EXTENDS Integers, FiniteSets

CONSTANTS MaxThreads,  \* bound: the argument of _Create
          MaxWait,     \* MAXIMUM_WAIT_OBJECTS
          MaxSessions, \* _connectedSessions.capacity()
          MaxPosts     \* bound: completions in the port

VARIABLES threads,  \* _threadCount
          begun,    \* threads that _Create has begun
          create,   \* _create of HNet: "no", "creating", "failed" or "yes"
          port,     \* _iocp: "none", "open" or "closed"
          worker,   \* of each thread: "none", "waiting", "handling" or "ended"
          posted,   \* completions of sessions in the port
          quits,    \* NULLs in the port
          sessions, \* sessions that were created, -1 when they are deleted
          destroy   \* ~HNet: "no", "posting" or "done"

vars == <<threads, begun, create, port, worker, posted, quits, sessions, destroy>>

Workers == 1..MaxThreads

Init == /\ threads = 0 /\ begun = 0 /\ create = "no" /\ port = "none"
        /\ worker = [w \in Workers |-> "none"]
        /\ posted = 0 /\ quits = 0 /\ sessions = 0 /\ destroy = "no"

(***************************************************************************)
(* _Create.  When a thread cannot begin, its handle is 0 and those after   *)
(* it are not initialised; the others run on.  The program then gives up.  *)
(***************************************************************************)
CreatePort(n) == /\ create = "no" /\ destroy = "no"
                 /\ \/ port' = "none" /\ create' = "failed" /\ UNCHANGED threads
                    \/ port' = "open" /\ create' = "creating" /\ threads' = n
                 /\ UNCHANGED <<begun, worker, posted, quits, sessions, destroy>>

BeginThread == /\ create = "creating" /\ begun < threads
               /\ begun' = begun + 1
               /\ worker' = [worker EXCEPT ![begun + 1] = "waiting"]
               /\ UNCHANGED <<threads, create, port, posted, quits, sessions, destroy>>

BeginFails == /\ create = "creating" /\ begun < threads
              /\ create' = "failed"
              /\ UNCHANGED <<threads, begun, port, worker, posted, quits, sessions, destroy>>

Created == /\ create = "creating" /\ begun = threads
           /\ create' = "yes"
           /\ UNCHANGED <<threads, begun, port, worker, posted, quits, sessions, destroy>>

CreateSession == /\ create = "yes" /\ destroy = "no" /\ sessions < MaxSessions
                 /\ sessions' = sessions + 1
                 /\ UNCHANGED <<threads, begun, create, port, worker, posted, quits, destroy>>

(***************************************************************************)
(* The threads                                                             *)
(***************************************************************************)
\* An operation of a session ends, or _PostIo
Completes == /\ port = "open" /\ sessions > 0 /\ posted < MaxPosts
             /\ posted' = posted + 1
             /\ UNCHANGED <<threads, begun, create, port, worker, quits, sessions, destroy>>

Takes(w) == /\ port = "open" /\ worker[w] = "waiting" /\ posted > 0
            /\ posted' = posted - 1
            /\ worker' = [worker EXCEPT ![w] = "handling"]
            /\ UNCHANGED <<threads, begun, create, port, quits, sessions, destroy>>

Handled(w) == /\ worker[w] = "handling"
              /\ worker' = [worker EXCEPT ![w] = "waiting"]
              /\ UNCHANGED <<threads, begun, create, port, posted, quits, sessions, destroy>>

\* A NULL, or a port that has been closed
Quits(w) == /\ worker[w] = "waiting" /\ (quits > 0 \/ port = "closed")
            /\ quits' = IF quits > 0 THEN quits - 1 ELSE 0
            /\ worker' = [worker EXCEPT ![w] = "ended"]
            /\ UNCHANGED <<threads, begun, create, port, posted, sessions, destroy>>

(***************************************************************************)
(* ~HNet: _Destroy, then delete of the sessions                            *)
(***************************************************************************)
PostQuits == /\ destroy = "no" /\ create \in {"yes", "failed"}
             /\ destroy' = "posting"
             /\ quits' = IF port = "none" THEN 0 ELSE threads
             /\ UNCHANGED <<threads, begun, create, port, worker, posted, sessions>>

\* WaitForMultipleObjects fails, and returns, for more handles than it takes and for a
\* handle that is none.
Waitable == port # "none" /\ threads <= MaxWait /\ begun = threads

Returns_Any == \E w \in 1..begun : worker[w] = "ended"
Returns == \A w \in 1..begun : worker[w] = "ended"

DeleteSessions == /\ destroy = "posting" /\ (Waitable => Returns)
                  /\ destroy' = "done" /\ sessions' = -1
                  /\ port' = IF port = "none" THEN "none" ELSE "closed"
                  /\ UNCHANGED <<threads, begun, create, worker, posted, quits>>

Work(w) == Takes(w) \/ Handled(w) \/ Quits(w)

Next == \/ \E n \in 1..MaxThreads : CreatePort(n)
        \/ BeginThread \/ BeginFails \/ Created \/ CreateSession \/ Completes
        \/ (\E w \in Workers : Work(w)) \/ PostQuits \/ DeleteSessions

\* Completions are handed out in the order they were posted, so the threads get to the
\* NULLs, of which each ends one thread.
Fairness == /\ \A w \in Workers : WF_vars(Handled(w)) /\ SF_vars(Quits(w))
            /\ WF_vars(DeleteSessions)

(***************************************************************************)
(* Properties                                                              *)
(***************************************************************************)
\* No thread handles a completion of a session that has been deleted, when there are no
\* more threads than the system call can wait for or not all could be begun, and the
\* destructor does not wait for ever.
WorkersGone == /\ [](sessions = -1 /\ (threads <= MaxWait \/ create = "failed")
                        => \A w \in Workers : worker[w] # "handling")
               /\ destroy = "posting" ~> destroy = "done"
=============================================================================
