----------------------------- MODULE MCLibrary -----------------------------
(***************************************************************************)
(* The modules of the library side by side.  They share no state: a        *)
(* behaviour takes the steps of one of them, `part`, and the others stay   *)
(* in their initial states.                                                *)
(***************************************************************************)
EXTENDS Integers, Sequences, FiniteSets

\* The constants of the modules, with their names there; the two of Serialization that
\* WsFrames has too are prefixed.
CONSTANTS BufferSize, PacketWord, PacketHeader, Prefix, PacketMax,
          MaxItems, Items,                                                    \* Serialization
          Medium, Long, Ext2, Ext8, Key, Word, Limit, MaxSize,                \* WsFrames
          Frames, MaxFrames,
          Writers, LogThread, FillCount, MaxNodes, MaxAllocs,                 \* Logging
          QueueCount, Delays, MaxJobs, MaxNow,                                \* JobQueue
          States, MaxCalls,                                                   \* Fsm
          Ring, MaxCount,                                                     \* Odbc
          Letters, MaxLetters, Words,                                         \* WordFilter
          MaxThreads, MaxWait, MaxSessions, MaxPosts                          \* Server

ASSUME LibraryAssumption ==
    /\ 0 \notin States       \* NULL
    /\ Ring \in Nat \ {0} /\ MaxCount \in Nat
    /\ PacketWord \in Nat /\ Prefix \in 0..(PacketWord-1) /\ BufferSize \in Nat
    /\ {Medium, Long, Ext2, Ext8, Key, Limit} \subseteq Nat /\ Medium < Long
    /\ Word \in Nat \ {0} /\ Word <= Limit
    /\ QueueCount \in Nat /\ Delays \subseteq Nat
    /\ IsFiniteSet(Writers) /\ 0 \notin Writers /\ LogThread \notin Writers \cup {0}
    /\ FillCount \in Nat \ {0} /\ MaxAllocs \in Nat
    /\ MaxNodes \in Nat /\ FillCount * MaxAllocs <= MaxNodes

\* A scalar has a byte, and a string its length and what ends it.
ASSUME ItemsAssumption == \A x \in Items : x.bytes \in Nat \ {0}
ASSUME WordsAssumption == Words \subseteq Seq(Letters)
ASSUME ServerAssumption == MaxThreads \in Nat

VARIABLES part,
          base, size, success, in, out, try, kept, fresh, torn, read, xored, phase,
          begin, end, window, state, bytes, incomplete, frames, got, taken, told,
          head, chunk, next, owner, created, poolLock, allocs, logPc, node, count,
          logQueue, lock, logActive, pushed, file, failed,
          queue, timers, active, pc, running, now, jobs, ran,
          event, closeEvent, signal, worker, dtor,
          states, cur, pre, transition, inside, fsmPhase, calls, nested,
          env, dbc, stmt, connected, marks, paramCount, stamps, binds, clean, outs, col,
          words, looked, filter,
          threads, begun, create, port, portWorker, posted, quits, sessions, destroy

\* Scalars of one and four bytes, strings of one and two characters
MCItems == {[bytes |-> 1, string |-> FALSE], [bytes |-> 4, string |-> FALSE],
            [bytes |-> 3, string |-> TRUE], [bytes |-> 4, string |-> TRUE]}

Packet == INSTANCE Serialization WITH MaxSize <- PacketMax, Word <- PacketWord
Hd == INSTANCE WsHeader
Ws == INSTANCE WsFrames
\* Lengths on both sides of each limit, one that fits no buffer, one that wraps, and no data
\* at all; two without a mask
MCFrames == {Hd!Initialize("data", n, TRUE) :
                n \in {0, Medium - 1, Medium, Long, MaxSize + 1, Word - 3, Limit + 1}}
            \cup {Hd!Initialize("data", n, FALSE) : n \in {0, 1}}
            \cup {Hd!Initialize("ping", 0, TRUE), Hd!Initialize("close", 0, TRUE)}
\* A peer's headers are those that Initialize writes.
ASSUME FramesAssumption ==
    \A h \in Frames : /\ h.ext \in Nat /\ h.mask \in BOOLEAN
                      /\ h = Hd!Initialize(h.op, h.ext, h.mask)
Log == INSTANCE Logging WITH pc <- logPc, queue <- logQueue, active <- logActive
Job == INSTANCE JobQueue WITH Across <- FALSE
Thr == INSTANCE Thread
Machine == INSTANCE Fsm WITH phase <- fsmPhase
Db == INSTANCE Odbc
\* Words that overlap: one begins another, two are each other's reverse
MCWords == {<<"a", "b">>, <<"a", "b", "c", "a">>, <<"b", "a">>, <<"c", "b">>}
Strings == UNION {[1..n -> Letters] : n \in 0..MaxLetters}
Filter == INSTANCE WordFilter
Server == INSTANCE Server WITH worker <- portWorker

packetVars == <<base, size, success, in, out, try, kept, fresh, torn, read, xored, phase>>
wsVars == <<begin, end, window, state, bytes, incomplete, frames, got, taken, told>>
logVars == <<head, chunk, next, owner, created, poolLock, allocs, logPc, node, count,
             logQueue, lock, logActive, pushed, file, failed>>
jobVars == <<queue, timers, active, pc, running, now, jobs, ran>>
threadVars == <<event, closeEvent, signal, worker, dtor>>
fsmVars == <<states, cur, pre, transition, inside, fsmPhase, calls, nested>>
odbcVars == <<env, dbc, stmt, connected, marks, paramCount, stamps, binds, clean, outs, col>>
filterVars == <<words, looked, filter>>
serverVars == <<threads, begun, create, port, portWorker, posted, quits, sessions, destroy>>
vars == <<part, packetVars, wsVars, logVars, jobVars, threadVars, fsmVars, odbcVars,
          filterVars, serverVars>>

Parts == {"packet", "ws", "log", "job", "thread", "fsm", "odbc", "filter", "server"}

Init == /\ part \in Parts
        /\ Packet!Init /\ (part # "packet" => base = Prefix)
        /\ Ws!Init /\ Log!Init /\ Job!Init /\ Thr!Init
        /\ Machine!Init /\ Db!Init /\ Filter!Init /\ Server!Init

Only(p) == /\ part = p /\ UNCHANGED part
           /\ IF p = "packet" THEN TRUE ELSE UNCHANGED packetVars
           /\ IF p = "ws" THEN TRUE ELSE UNCHANGED wsVars
           /\ IF p = "log" THEN TRUE ELSE UNCHANGED logVars
           /\ IF p = "job" THEN TRUE ELSE UNCHANGED jobVars
           /\ IF p = "thread" THEN TRUE ELSE UNCHANGED threadVars
           /\ IF p = "fsm" THEN TRUE ELSE UNCHANGED fsmVars
           /\ IF p = "odbc" THEN TRUE ELSE UNCHANGED odbcVars
           /\ IF p = "filter" THEN TRUE ELSE UNCHANGED filterVars
           /\ IF p = "server" THEN TRUE ELSE UNCHANGED serverVars

Next == \/ Only("packet") /\ Packet!Next
        \/ Only("ws") /\ Ws!Next
        \/ Only("log") /\ Log!Next
        \/ Only("job") /\ Job!Next
        \/ Only("thread") /\ Thr!Next
        \/ Only("fsm") /\ Machine!Next
        \/ Only("odbc") /\ Db!Next
        \/ Only("filter") /\ Filter!Next
        \/ Only("server") /\ Server!Next

\* The fairness of each module, for its part
Fairness == /\ WF_vars(Only("job") /\ Job!Tick)
            /\ \A q \in Job!Queues :
                  /\ WF_vars(Only("job") /\ Job!Work(q))
                  /\ SF_vars(Only("job") /\ \E d \in Delays : Job!JobPosts(q, d))
            /\ WF_vars(Only("thread") /\ Thr!Work) /\ WF_vars(Only("thread") /\ Thr!Close)
            /\ \A w \in Server!Workers : /\ WF_vars(Only("server") /\ Server!Handled(w))
                                        /\ SF_vars(Only("server") /\ Server!Quits(w))
            /\ WF_vars(Only("server") /\ Server!DeleteSessions)

Spec == Init /\ [][Next]_vars /\ Fairness

(***************************************************************************)
(* The properties, stated and commented in the modules                     *)
(***************************************************************************)
\* The size of a packet is that of its contents: Serialization, Buffer.cpp _RollBack.
PacketSized == part = "packet" => Packet!PacketSized
\* A receiver reads what was put: Serialization, Buffer.cpp _In and _Out.
ReadBack == part = "packet" => Packet!ReadBack
\* Frames come out whole and in order: WsFrames, HNetIo.cpp HNetIoWsRecv.
FramesInOrder == part = "ws" => Ws!FramesInOrder
\* A memory node is in one place: Logging, Memory.cpp MemoryPool.
NodeOwnedOnce == part = "log" => Log!NodeOwnedOnce
\* The log holds its entries in order: Logging, Logger.cpp _Execute.
LogInOrder == part = "log" => Log!LogInOrder
\* Jobs run once, in order and not early: JobQueue, Job.cpp Execute.
JobsInTurn == part = "job" => Job!JobsInTurn
\* Jobs are run and the lock is released: JobQueue, Job.cpp _Worker.
JobsRun == Job!JobsRun
\* The destructor of a thread ends, after it: Thread, Thread.cpp ~Thread.
ThreadStops == Thr!ThreadStops
\* A state machine is inside its current state only: Fsm, Fsm.h Change.
StatesPaired == part = "fsm" => Machine!StatesPaired
\* The parameters of a procedure are those of its text: Odbc, ODBC.cpp In.
ParamsBound == part = "odbc" => Db!ParamsBound
\* Words that are found are there: WordFilter, Filter.cpp IsExist.
WordsFound == part = "filter" => Filter!WordsFound
\* The threads are gone before the sessions: Server, HNetIocp.cpp _Destroy.
WorkersGone == Server!WorkersGone
=============================================================================
