----------------------------- MODULE MysqlPool -----------------------------
(* The asynchronous MySQL queries of src/code/gsc_mysql.cpp: scripts append     *)
(* tasks to a list and poll for the finished ones, a handler thread hands tasks *)
(* to idle connections, and a thread per running query executes it.             *)
(*                                                                            *)
(* The list is guarded by lock_async_mysql; a connection's task pointer and a   *)
(* task's result and done flag are written by the executing thread without it,  *)
(* in program order (the stores of an x86 build).                               *)
(*                                                                            *)
(* Abstractions: a query is its id; the linked lists are sequences; the MySQL   *)
(* client library succeeds or fails as it likes and returns the result of the   *)
(* query it was given.                                                          *)
EXTENDS Naturals, Sequences, FiniteSets

CONSTANTS
    ConnectionCount,  \* connection_count of mysql_async_initializer
    MaxId,            \* bound of the model: queries created
    ConnectFails,     \* TRUE when mysql_real_connect may fail
    SpawnFails        \* TRUE when pthread_create may fail

ASSUME CountAssumption == ConnectionCount \in Nat \ {0} /\ MaxId \in Nat
ASSUME FaultsAssumption == ConnectFails \in BOOLEAN /\ SpawnFails \in BOOLEAN

Ids == 1..MaxId    \* task ids; 0 is a NULL task
Conns == 1..ConnectionCount

VARIABLES
    init,     \* mysql_async_initializer: "no", "connecting", "done", "failed"
    open,     \* connections in the list, in order: 1..open
    connTask, \* c->task of every connection
    lastId,   \* static int id
    tasks,    \* the task list, a sequence of ids
    task,     \* per id: [started, done, save, result]
    hpc,      \* handler thread: "none", "sleep", "walk", "dead"
    hq, hc,   \* the handler's q, an index into tasks, and c
    lock,     \* holder of lock_async_mysql: "free", "handler"
    exec,     \* per id, the thread of its query: [pc, conn]
    failed,   \* history: queries mysql_query failed on
    fetched,  \* history: the ids getresult_and_free has freed
    returned  \* history: and what it returned for them

poolVars == <<init, open>>
taskVars == <<lastId, tasks>>
handlerVars == <<hpc, hq, hc, lock>>
histVars == <<failed, fetched, returned>>
vars == <<poolVars, connTask, taskVars, task, handlerVars, exec, histVars>>

NewTask(save) == [started |-> FALSE, done |-> FALSE, save |-> save, result |-> 0]
NoTask == NewTask(FALSE)
NoThread == [pc |-> "none", conn |-> 1]

Init ==
    /\ init = "no" /\ open = 0 /\ connTask = [c \in Conns |-> 0]
    /\ lastId = 0 /\ tasks = <<>> /\ task = [i \in Ids |-> NoTask]
    /\ hpc = "none" /\ hq = 1 /\ hc = 1 /\ lock = "free"
    /\ exec = [i \in Ids |-> NoThread]
    /\ failed = {} /\ fetched = {} /\ returned = [i \in Ids |-> 0]

InList(i) == \E n \in 1..Len(tasks) : tasks[n] = i

(***************************************************************************)
(* The game thread: the script functions.                                  *)
(***************************************************************************)
\* mysql_async_initializer: refused once there is a connection.
Initialize ==
    /\ init \in {"no", "failed"} /\ open = 0
    /\ init' = "connecting"
    /\ UNCHANGED <<open, connTask, taskVars, task, handlerVars, exec, histVars>>
MutantConnect ==  \* one connection too many
    /\ init = "connecting" /\ open <= ConnectionCount
    /\ open' = open + 1
    /\ UNCHANGED <<init, connTask, taskVars, task, handlerVars, exec, histVars>>
\* One turn of its loop over the connections; a failure returns at once.
Connect ==
    /\ init = "connecting" /\ open < ConnectionCount
    /\ open' = open + 1
    /\ UNCHANGED <<init, connTask, taskVars, task, handlerVars, exec, histVars>>
ConnectError ==
    /\ ConnectFails /\ init = "connecting" /\ open < ConnectionCount
    /\ init' = "failed"
    /\ UNCHANGED <<open, connTask, taskVars, task, handlerVars, exec, histVars>>
\* All connected: the handler thread is created.
StartHandler ==
    /\ init = "connecting" /\ open = ConnectionCount
    /\ \/ init' = "done" /\ hpc' = "sleep"
       \/ SpawnFails /\ init' = "failed" /\ UNCHANGED hpc
    /\ UNCHANGED <<open, connTask, taskVars, task, hq, hc, lock, exec, histVars>>

MutantAppend(s, i) == <<i>> \o s  \* the newest query is put first
Appended(s, i) == Append(s, i)

\* mysql_async_create_query and its _nosave variant, with the script thread out of
\* the initializer: a new task at the end of the list.
CreateQuery(save) ==
    /\ open > 0 /\ init # "connecting"
    /\ lock = "free" /\ lastId < MaxId
    /\ lastId' = lastId + 1
    /\ tasks' = Appended(tasks, lastId')
    /\ task' = [task EXCEPT ![lastId'] = NewTask(save)]
    /\ UNCHANGED <<poolVars, connTask, handlerVars, exec, histVars>>

MutantFinished(i) == task[i].started  \* started is taken for done
Finished(i) == task[i].done

Unlinked(s, n) == SubSeq(s, 1, n - 1) \o SubSeq(s, n + 1, Len(s))

\* mysql_async_getresult_and_free of a finished query, the n-th of the list: unlink,
\* return, delete. An unknown id, or one that is not done, returns undefined and
\* changes nothing.
GetResultAndFree(n) ==
    LET i == tasks[n]
    IN  /\ lock = "free" /\ open > 0
        /\ Finished(i)
        /\ tasks' = Unlinked(tasks, n)
        /\ fetched' = fetched \cup {i}
        /\ returned' = [returned EXCEPT ![i] = IF task[i].save THEN task[i].result ELSE 0]
        /\ task' = [task EXCEPT ![i] = NoTask]
        /\ UNCHANGED <<poolVars, connTask, lastId, handlerVars, exec, failed>>

(***************************************************************************)
(* The handler thread: mysql_async_query_handler.                          *)
(***************************************************************************)
MutantFirst == hc  \* the connections are not walked from the first again
First == 1

Wake ==
    /\ hpc = "sleep" /\ lock = "free"
    /\ hpc' = "walk" /\ lock' = "handler" /\ hq' = 1 /\ hc' = First
    /\ UNCHANGED <<poolVars, connTask, taskVars, task, exec, histVars>>

MutantSleep == hpc' = "sleep" /\ UNCHANGED <<lock, hq, hc>>  \* no unlock
Sleep == hpc' = "sleep" /\ lock' = "free" /\ UNCHANGED <<hq, hc>>

MutantIdle(c) == TRUE  \* busy connections are not skipped
Idle(c) == connTask[c] = 0
IdleFrom == {c \in hc..open : Idle(c)}
\* The handler's walk is one step; a thread that ends meanwhile only frees one it passed.
NextIdle == CHOOSE c \in IdleFrom : \A d \in IdleFrom : c <= d

\* The end of the list, or no connection left for the query at hand.
WalkEnds ==
    /\ hpc = "walk"
    /\ hq <= Len(tasks) => ~task[tasks[hq]].started /\ IdleFrom = {}
    /\ Sleep
    /\ UNCHANGED <<poolVars, connTask, taskVars, task, exec, histVars>>
WalkSkips ==
    /\ hpc = "walk" /\ hq <= Len(tasks) /\ task[tasks[hq]].started
    /\ hq' = hq + 1
    /\ UNCHANGED <<poolVars, connTask, taskVars, task, hpc, hc, lock, exec, histVars>>

\* A query that is not started gets the next idle connection and a thread. If the
\* thread cannot be created the handler returns, and keeps the lock.
WalkStarts ==
    LET i == tasks[hq]
        c == NextIdle
    IN  /\ hpc = "walk" /\ hq <= Len(tasks) /\ ~task[i].started /\ IdleFrom # {}
        /\ task' = [task EXCEPT ![i].started = TRUE]
        /\ connTask' = [connTask EXCEPT ![c] = i]
        /\ \/ /\ exec' = [exec EXCEPT ![i] = [pc |-> "query", conn |-> c]]
              /\ hq' = hq + 1 /\ hc' = c + 1 /\ UNCHANGED hpc
           \/ SpawnFails /\ hpc' = "dead" /\ UNCHANGED <<exec, hq, hc>>
        /\ UNCHANGED <<poolVars, taskVars, lock, histVars>>

(***************************************************************************)
(* The thread of query i: mysql_async_execute_query. It finds its task through *)
(* its connection, every time.                                             *)
(***************************************************************************)
Own(i) == connTask[exec[i].conn]

Query(i) ==
    /\ exec[i].pc = "query" /\ Own(i) \in Ids
    /\ \E ok \in BOOLEAN :
         /\ failed' = IF ok THEN failed ELSE failed \cup {i}
         /\ exec' = [exec EXCEPT ![i].pc =
                       IF ok /\ task[Own(i)].save THEN "store" ELSE "mark"]
    /\ UNCHANGED <<poolVars, connTask, taskVars, task, handlerVars, fetched, returned>>
Store(i) ==
    /\ exec[i].pc = "store" /\ Own(i) \in Ids
    /\ task' = [task EXCEPT ![Own(i)].result = i]
    /\ exec' = [exec EXCEPT ![i].pc = "mark"]
    /\ UNCHANGED <<poolVars, connTask, taskVars, handlerVars, histVars>>
Mark(i) ==
    /\ exec[i].pc = "mark" /\ Own(i) \in Ids
    /\ task' = [task EXCEPT ![Own(i)].done = TRUE]
    /\ exec' = [exec EXCEPT ![i].pc = "clear"]
    /\ UNCHANGED <<poolVars, connTask, taskVars, handlerVars, histVars>>
Clear(i) ==
    /\ exec[i].pc = "clear"
    /\ connTask' = [connTask EXCEPT ![exec[i].conn] = 0]
    /\ exec' = [exec EXCEPT ![i] = NoThread]
    /\ UNCHANGED <<poolVars, taskVars, task, handlerVars, histVars>>

-----------------------------------------------------------------------------
Initializer == Initialize \/ Connect \/ ConnectError \/ StartHandler
Handler == Wake \/ WalkEnds \/ WalkSkips \/ WalkStarts
Executor(i) == Query(i) \/ Store(i) \/ Mark(i) \/ Clear(i)
Next ==
    \/ Initializer \/ Handler
    \/ \E save \in BOOLEAN : CreateQuery(save)
    \/ \E n \in 1..Len(tasks) : GetResultAndFree(n)
    \/ \E i \in Ids : Executor(i)
Spec == Init /\ [][Next]_vars

\* The game thread finishes what it is in, the handler and the executing threads
\* are scheduled, and every query returns. Scripts need not ask for anything.
FairSpec == /\ Spec
            /\ WF_vars(Connect \/ StartHandler) /\ WF_vars(Handler)
            /\ \A i \in Ids : WF_vars(Executor(i))

-----------------------------------------------------------------------------
TypeOK ==
    /\ init \in {"no", "connecting", "done", "failed"}
    /\ open \in 0..ConnectionCount /\ connTask \in [Conns -> 0..MaxId]
    /\ lastId \in 0..MaxId /\ tasks \in Seq(Ids) /\ Len(tasks) <= lastId
    /\ task \in [Ids -> [started : BOOLEAN, done : BOOLEAN, save : BOOLEAN,
                         result : 0..MaxId]]
    /\ hpc \in {"none", "sleep", "walk", "dead"}
    /\ hq \in 1..(MaxId + 1) /\ hc \in 1..(ConnectionCount + 1)
    /\ lock \in {"free", "handler"}
    /\ exec \in [Ids -> [pc : {"none", "query", "store", "mark", "clear"},
                         conn : Conns]]
    /\ failed \in SUBSET Ids /\ fetched \in SUBSET Ids
    /\ returned \in [Ids -> 0..MaxId]

Executing(i) == exec[i].pc # "none"

\* A MYSQL handle is used by one thread at a time, as the client library demands.
ConnectionNotShared ==
    \A i, j \in Ids : Executing(i) /\ Executing(j) /\ exec[i].conn = exec[j].conn => i = j

\* Until it has marked its task done, an executing thread reaches its own task, and
\* the game thread has not freed it.
NoUseAfterFree ==
    \A i \in Ids : exec[i].pc \in {"query", "store", "mark"} => Own(i) = i /\ InList(i)

\* What a script gets for an id is that query's own result: nothing for a query
\* that failed or was created not to save, and never another query's.
ResultIsOwn ==
    \A i \in fetched : returned[i] # 0 => returned[i] = i /\ i \notin failed

\* Queries are started in the order in which scripts created them.
StartedInOrder ==
    \A m, n \in 1..Len(tasks) :
        m < n /\ task[tasks[n]].started => task[tasks[m]].started /\ tasks[m] < tasks[n]

\* The handler gives the lock back after every walk of the list, unless it died in
\* it: the game thread, which takes it in every script function, does not freeze.
LockGivenBack == (lock = "handler") ~> (lock = "free" \/ hpc = "dead")

\* A query that was accepted is executed as long as there is a handler thread,
\* however scripts free and create others and connections fall busy and idle.
EveryQueryDone ==
    \A i \in Ids :
        (lastId >= i) ~> (task[i].done \/ i \in fetched \/ hpc \in {"none", "dead"})

\* The documentation of mysql_async_create_query: the query joins the queue of the
\* handler, and its result will be stored.
EveryQueryRuns == \A i \in Ids : (lastId >= i) ~> (task[i].done \/ i \in fetched)

\* The list and the threads on it: queries start in order and nobody reaches a
\* task that was freed.
TasksSound == TypeOK /\ StartedInOrder /\ NoUseAfterFree

\* A connection serves one query at a time, so what a script gets is its own.
ResultsNotMixed == ConnectionNotShared /\ ResultIsOwn

\* The game thread never freezes for good, and what it asked for is done.
PoolServes == LockGivenBack /\ EveryQueryDone
=============================================================================
