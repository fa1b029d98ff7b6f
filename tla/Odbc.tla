-------------------------------- MODULE Odbc --------------------------------
(***************************************************************************)
(* Database access (ODBC.cpp): the three handles, the text of a procedure  *)
(* call that grows a '?' with each parameter, the parameters bound to the  *)
(* statement and the ring of time stamps they may point to.  The driver's  *)
(* answers are free.  A definition named X_Y is X with the defect Y; no    *)
(* specification uses it.                                                  *)
(***************************************************************************)
EXTENDS Integers, FiniteSets

CONSTANTS Ring,     \* MAX_TIMESTAMP_NUM
          MaxCount  \* bound: _paramCount, parameters in _query

VARIABLES env, dbc, stmt,  \* _hEnv, _hDbc, _hStmt: whether they are allocated
          connected,  \* whether the driver has connected _hDbc
          marks,      \* number of '?' in _query
          paramCount, \* _paramCount
          stamps,     \* _timeStampCount % MAX_TIMESTAMP_NUM
          binds,      \* bound to _hStmt: [param, slot], slot 0 when not a time stamp
          clean,      \* only In and Execute() were called since SetProcedure
          outs,       \* calls of Out since the last Fetch; -1 after any other call
          col         \* the column the last Out read, 0 after Fetch

vars == <<env, dbc, connected, stmt, marks, paramCount, stamps, binds, clean, outs, col>>
query == <<marks, paramCount, stamps, binds, clean>>
handles == <<env, dbc, connected, stmt>>

Init == /\ env = FALSE /\ dbc = FALSE /\ connected = FALSE /\ stmt = FALSE
        /\ marks = 0 /\ paramCount = 0 /\ stamps = 0 /\ binds = {}
        /\ clean = FALSE /\ outs = -1 /\ col = 0

Other == outs' = -1 /\ col' = 0

(***************************************************************************)
(* Connect, which disconnects first; a step that fails leaves what is done *)
(***************************************************************************)
Disconnect == /\ env' = FALSE /\ dbc' = FALSE /\ connected' = FALSE /\ stmt' = FALSE
              /\ binds' = {} /\ Other
              /\ UNCHANGED <<marks, paramCount, stamps, clean>>

Connect == /\ \E done \in 0..3 :
                 env' = (done >= 1) /\ dbc' = (done >= 2) /\ connected' = (done = 3)
           /\ stmt' = FALSE /\ binds' = {} /\ Other
           /\ UNCHANGED <<marks, paramCount, stamps, clean>>

(***************************************************************************)
(* Statements: the driver gives one only on a connection                   *)
(***************************************************************************)
Prepare == /\ \/ connected /\ stmt' = TRUE
              \/ stmt' = FALSE
           /\ binds' = {} /\ Other
           /\ UNCHANGED <<env, dbc, connected, stamps>>

Count_Kept == paramCount
Count == 0

SetProcedure == /\ Prepare
                /\ marks' = 0 /\ paramCount' = Count /\ clean' = TRUE

\* The name does not fit: _query is cut, the statement and the counts are the old ones.
SetProcedureFails == /\ marks' = 0 /\ clean' = FALSE /\ Other
                     /\ UNCHANGED <<handles, paramCount, stamps, binds>>

ExecuteQuery == /\ Prepare
                /\ marks' = 0 /\ clean' = FALSE
                /\ UNCHANGED paramCount

\* Execute() runs what SetProcedure and In have built, and changes none of it.
Execute == Other /\ UNCHANGED <<handles, query>>

Add(slot) == /\ paramCount < MaxCount /\ marks < MaxCount
             /\ marks' = marks + 1
             /\ paramCount' = paramCount + 1
             /\ binds' = IF stmt THEN binds \cup {[param |-> paramCount + 1, slot |-> slot]}
                         ELSE binds
             /\ Other
             /\ UNCHANGED <<handles, clean>>

\* A NULL string is left out: no mark and no parameter.
In == Add(0) /\ UNCHANGED stamps

InTime == /\ stamps' = (stamps + 1) % Ring
          /\ Add(1 + stamps')

(***************************************************************************)
(* Results                                                                 *)
(***************************************************************************)
Fetch == /\ stmt /\ paramCount' = 0 /\ clean' = FALSE
         /\ outs' = 0 /\ col' = 0
         /\ UNCHANGED <<handles, marks, stamps, binds>>

\* NextRecord, and a Fetch that finds nothing
NextRecord == Other /\ UNCHANGED <<handles, query>>

Out == /\ paramCount < MaxCount
       /\ paramCount' = paramCount + 1 /\ clean' = FALSE
       /\ col' = paramCount + 1 /\ outs' = IF outs = -1 THEN -1 ELSE outs + 1
       /\ UNCHANGED <<handles, marks, stamps, binds>>

Next == \/ Disconnect \/ Connect \/ SetProcedure \/ SetProcedureFails \/ ExecuteQuery
        \/ Execute \/ In \/ InTime \/ Fetch \/ NextRecord \/ Out

(***************************************************************************)
(* Properties                                                              *)
(***************************************************************************)
\* A procedure is called with a parameter for every '?' of its text, numbered from 1, on
\* the statement prepared for it, and no two time stamps share a slot unless there are
\* more of them than the ring holds; a row is read from its first column on; and no
\* handle outlives the one it was allocated from.
ParamsBound ==
    /\ clean => marks = paramCount
    /\ (clean /\ stmt) => {b.param : b \in binds} = 1..marks
    /\ clean => LET times == {b \in binds : b.slot # 0}
                IN  Cardinality(times) <= Ring =>
                        \A a, b \in times : a.slot = b.slot => a = b
    /\ outs # -1 => col = outs
    /\ (stmt => connected) /\ (connected => dbc) /\ (dbc => env)
=============================================================================
