------------------------------- MODULE Logging -------------------------------
(***************************************************************************)
(* The memory pool (Memory.cpp) and its busiest user, the logger           *)
(* (Logger.cpp): application threads allocate entries and queue them, the  *)
(* logger's thread writes and frees them, so that every node it frees was  *)
(* allocated on another thread.  Nodes are of one size, and a thread may   *)
(* also free what it has allocated; malloc does not fail.  0 is NULL.  A   *)
(* definition named X_Y is X with the defect Y; no specification uses it.  *)
(***************************************************************************)
EXTENDS Integers, Sequences, FiniteSets, SequencesExt

CONSTANTS Writers,     \* application threads, naturals other than 0
          LogThread,   \* the thread of Logger::_Worker
          FillCount,   \* FILL_COUNT
          MaxNodes,    \* nodes that MaxAllocs allocations can create
          MaxAllocs    \* bound: calls of Allocate

VARIABLES head,      \* _head of each thread's t_stack
          chunk,     \* _head of _chunk
          next,      \* _next of each node
          owner,     \* _threadId of each node
          created,   \* nodes cut from the threads' t_buf
          poolLock,  \* _lock of the pool: its holder
          allocs,    \* calls of Allocate
          pc,        \* of each thread
          node,      \* the node each thread works on
          count,     \* of Fill
          queue,     \* _queue of the logger: positions in `pushed`
          lock,      \* the logger's SpinLock: its holder
          active,    \* _active
          pushed,    \* the nodes ever queued, in order
          file,      \* the entries written: positions in `pushed`
          failed     \* the positions whose file could not be opened

poolVars == <<head, chunk, next, owner, created, poolLock, count>>
logVars == <<queue, lock, active, pushed, file, failed>>
vars == <<poolVars, logVars, allocs, pc, node>>

Nodes == 1..MaxNodes
All == Writers \cup {LogThread}
Goto(t, l) == pc' = [pc EXCEPT ![t] = l]

Init == /\ head = [t \in All |-> 0] /\ chunk = 0
        /\ next = [n \in Nodes |-> 0] /\ owner = [n \in Nodes |-> 0]
        /\ created = 0 /\ poolLock = 0 /\ count = [t \in All |-> 0]
        /\ allocs = 0 /\ pc = [t \in All |-> "idle"] /\ node = [t \in All |-> 0]
        /\ queue = <<>> /\ lock = 0 /\ active = TRUE
        /\ pushed = <<>> /\ file = <<>> /\ failed = {}

(***************************************************************************)
(* MemoryPool                                                              *)
(***************************************************************************)
\* Write returns at once when the logger is not active; API::Alloc has no such test.
Allocate(t) == /\ pc[t] = "idle" /\ allocs < MaxAllocs
               /\ allocs' = allocs + 1
               /\ Goto(t, "pop")
               /\ UNCHANGED <<poolVars, logVars, node>>

PopOk(t) == /\ pc[t] = "pop" /\ head[t] # 0
            /\ node' = [node EXCEPT ![t] = head[t]]
            /\ head' = [head EXCEPT ![t] = next[head[t]]]
            /\ owner' = [owner EXCEPT ![head[t]] = t]
            /\ Goto(t, "own")
            /\ UNCHANGED <<chunk, next, created, poolLock, count, logVars, allocs>>

FillLock(t) == /\ pc[t] = "pop" /\ head[t] = 0 /\ poolLock = 0
               /\ poolLock' = t
               /\ count' = [count EXCEPT ![t] = FillCount]
               /\ Goto(t, "fill")
               /\ UNCHANGED <<head, chunk, next, owner, created, logVars, allocs, node>>

\* One turn of Fill: a node of the chunk, or a new one, is pushed on the stack.
ChunkAfterPop_Unmoved == chunk
ChunkAfterPop == IF chunk = 0 THEN 0 ELSE next[chunk]

FillOne(t) == LET n == IF chunk # 0 THEN chunk ELSE created + 1
              IN  /\ pc[t] = "fill" /\ count[t] > 0
                  /\ chunk' = ChunkAfterPop
                  /\ created' = IF chunk # 0 THEN created ELSE created + 1
                  /\ owner' = [owner EXCEPT ![n] = 0]
                  /\ next' = [next EXCEPT ![n] = head[t]]
                  /\ head' = [head EXCEPT ![t] = n]
                  /\ count' = [count EXCEPT ![t] = @ - 1]
                  /\ UNCHANGED <<poolLock, logVars, allocs, pc, node>>

FillEnds(t) == /\ pc[t] = "fill" /\ count[t] = 0
               /\ poolLock' = 0
               /\ Goto(t, "pop")
               /\ UNCHANGED <<head, chunk, next, owner, created, count, logVars, allocs, node>>

\* A node that is free already is left alone; else it goes to the stack of the thread
\* that allocated it, if that is this one, or to the chunk.
PushOwn(t, n) == /\ head' = [head EXCEPT ![t] = n]
                 /\ next' = [next EXCEPT ![n] = head[t]]
                 /\ owner' = [owner EXCEPT ![n] = 0]
                 /\ UNCHANGED chunk

PushChunk(n) == /\ poolLock = 0
                /\ chunk' = n
                /\ next' = [next EXCEPT ![n] = chunk]
                /\ owner' = [owner EXCEPT ![n] = 0]
                /\ UNCHANGED head

Deallocate(t, n) == /\ IF owner[n] = 0 THEN UNCHANGED <<head, chunk, next, owner>>
                       ELSE IF owner[n] = t THEN PushOwn(t, n) ELSE PushChunk(n)
                    /\ UNCHANGED <<created, poolLock, count>>

\* RefPacket and the io jobs free on the thread that allocated; the program may also
\* call operator delete twice before the node is used again.
Free(t) == /\ pc[t] = "own"
           /\ Deallocate(t, node[t])
           /\ Goto(t, "freed")
           /\ UNCHANGED <<logVars, allocs, node>>

FreeAgain(t) == /\ pc[t] = "freed"
                /\ Deallocate(t, node[t]) \/ UNCHANGED poolVars
                /\ Goto(t, "idle")
                /\ node' = [node EXCEPT ![t] = 0]
                /\ UNCHANGED <<logVars, allocs>>

(***************************************************************************)
(* Logger                                                                  *)
(***************************************************************************)
\* Write, which tested _active before it allocated the entry
Write(t) == /\ pc[t] = "own" /\ lock = 0
            /\ queue' = Append(queue, Len(pushed) + 1)
            /\ pushed' = Append(pushed, node[t])
            /\ node' = [node EXCEPT ![t] = 0]
            /\ Goto(t, "idle")
            /\ UNCHANGED <<poolVars, lock, active, file, failed, allocs>>

\* ~Logger: entries still queued are never written
Destroy == /\ active
           /\ active' = FALSE
           /\ UNCHANGED <<poolVars, queue, lock, pushed, file, failed, allocs, pc, node>>

L == LogThread

Execute == /\ pc[L] = "idle" /\ active /\ lock = 0
           /\ lock' = L
           /\ Goto(L, "drain")
           /\ UNCHANGED <<poolVars, queue, active, pushed, file, failed, allocs, node>>

WorkerEnds == /\ pc[L] = "idle" /\ ~active
              /\ Goto(L, "ended")
              /\ UNCHANGED <<poolVars, logVars, allocs, node>>

AfterFailure_Requeued == Append(Tail(queue), Head(queue))
AfterFailure == Tail(queue)

\* _OpenFile fails only when a new file is due: the first, another hour, or too big.
\* Then the entry is neither written nor freed.
OpenFails == /\ pc[L] = "drain" /\ queue # <<>>
             /\ queue' = AfterFailure
             /\ failed' = failed \cup {Head(queue)}
             /\ UNCHANGED <<poolVars, lock, active, pushed, file, allocs, pc, node>>

WriteFile == /\ pc[L] = "drain" /\ queue # <<>>
             /\ node' = [node EXCEPT ![L] = pushed[Head(queue)]]
             /\ queue' = Tail(queue)
             /\ file' = Append(file, Head(queue))
             /\ Goto(L, "delete")
             /\ UNCHANGED <<poolVars, lock, active, pushed, failed, allocs>>

Delete == /\ pc[L] = "delete"
          /\ Deallocate(L, node[L])
          /\ node' = [node EXCEPT ![L] = 0]
          /\ Goto(L, "drain")
          /\ UNCHANGED <<logVars, allocs>>

Drained == /\ pc[L] = "drain" /\ queue = <<>>
           /\ lock' = 0
           /\ Goto(L, "idle")
           /\ UNCHANGED <<poolVars, queue, active, pushed, file, failed, allocs, node>>

Next == \/ \E t \in Writers : \/ Allocate(t) \/ PopOk(t) \/ FillLock(t) \/ FillOne(t)
                              \/ FillEnds(t) \/ Free(t) \/ FreeAgain(t) \/ Write(t)
        \/ Destroy \/ Execute \/ WorkerEnds \/ OpenFails \/ WriteFile \/ Delete \/ Drained

(***************************************************************************)
(* Properties                                                              *)
(***************************************************************************)
\* The nodes of the list that starts at n, or more than there are when it has a cycle.
Chain(n) == LET f[i \in 0..MaxNodes] ==
                    IF i = 0 THEN n ELSE IF f[i - 1] = 0 THEN 0 ELSE next[f[i - 1]]
            IN  [acyclic |-> f[MaxNodes] = 0, nodes |-> {f[i] : i \in 0..MaxNodes} \ {0}]

Stacks == {<<t, Chain(head[t])>> : t \in Writers} \cup {<<L, Chain(chunk)>>}
Holders == {t \in All : pc[t] \in {"own", "delete"}}
InUse == {node[t] : t \in Holders} \cup {pushed[i] : i \in Range(queue) \cup failed}

\* Every node is in one list or in one thread's use, never in two: neither the lists
\* without a lock, nor the chunk, nor a second delete hands a node out twice.  The
\* entries whose file could not be opened are the only ones that never come back.
NodeOwnedOnce ==
    /\ \A s \in Stacks : s[2].acyclic /\ \A n \in s[2].nodes : owner[n] = 0
    /\ \A s, u \in Stacks : s # u => s[2].nodes \cap u[2].nodes = {}
    /\ \A t, u \in Holders : node[t] = node[u] => t = u
    /\ \A n \in InUse : owner[n] # 0 /\ \A s \in Stacks : n \notin s[2].nodes
    /\ (UNION {s[2].nodes : s \in Stacks}) \cup InUse = 1..created

\* The file holds the entries in the order of the calls of Write, each once, and all that
\* were queued before it except those whose file could not be opened.
LogInOrder == /\ \A i, k \in 1..Len(file) : i < k => file[i] < file[k]
              /\ Range(file) = DOMAIN pushed \ (Range(queue) \cup failed)
=============================================================================
