--------------------------- MODULE AsyncJobsProofs ---------------------------
(* The jobs that run beside the game thread.  MysqlPool for any number of         *)
(* connections and queries: nobody reaches a task that was freed, and every       *)
(* result is that of its own query.  JsonSaves for any number of files, jobs and  *)
(* saves, and any limits: no worker loses its job, the limits hold, and an older  *)
(* save never replaces a newer one.                                               *)
EXTENDS MysqlPool, JsonSaves, SequenceTheorems, FiniteSetTheorems, WellFoundedInduction, TLAPS

-----------------------------------------------------------------------------
(* MysqlPool: the invariant *)

Listed == {tasks[n] : n \in 1..Len(tasks)}
Unmarked == {"query", "store", "mark"}

\* The list is in the order of the ids, which count up, and started in this order.
ListInv ==
    /\ \A m, n \in 1..Len(tasks) : m < n => tasks[m] < tasks[n]
    /\ \A n \in 1..Len(tasks) : tasks[n] <= lastId
    /\ \A m, n \in 1..Len(tasks) :
         m < n /\ task[tasks[n]].started => task[tasks[m]].started

\* A thread has the connection it was started with for its own query. The query is
\* in the list until it is marked as done; afterwards only the connection counts.
ExecInv ==
    \A i \in Ids :
      /\ exec[i].pc # "none" => connTask[exec[i].conn] = i /\ i <= lastId
      /\ exec[i].pc # "none" /\ i \in Listed => task[i].started
      /\ exec[i].pc \in Unmarked => i \in Listed /\ ~task[i].done
      /\ task[i].done => task[i].started

\* The handler walks with the lock, which it keeps when it dies, and leaves no query
\* behind that was not started.
WalkInv ==
    /\ hpc = "walk" => lock = "handler"
    /\ hpc = "walk" => /\ hq <= Len(tasks) + 1
                       /\ \A m \in 1..Len(tasks) : m < hq => task[tasks[m]].started

\* A query has no result before it ran; one that failed stores none and is not
\* started again.
ResultInv ==
    \A i \in Ids :
      /\ task[i].result \in {0, i}
      /\ ~task[i].started \/ exec[i].pc = "query" => task[i].result = 0
      /\ i \in failed => /\ task[i].result = 0 /\ i <= lastId
                         /\ exec[i].pc \notin {"query", "store"}
                         /\ i \in Listed => task[i].started
      /\ i \in fetched => i <= lastId /\ i \notin Listed

IInv == /\ TypeOK /\ ListInv /\ ExecInv /\ WalkInv /\ ResultInv /\ ResultIsOwn

-----------------------------------------------------------------------------
(* The list *)

LEMMA ListFacts ==
  ASSUME TypeOK
  PROVE  /\ Len(tasks) \in Nat /\ lastId \in Nat /\ MaxId \in Nat
         /\ ConnectionCount \in Nat
         /\ \A n \in 1..Len(tasks) : tasks[n] \in Ids /\ tasks[n] \in Listed
         /\ Listed \subseteq Ids
         /\ \A i : InList(i) <=> i \in Listed
  <1>1. /\ tasks \in Seq(Ids) /\ lastId \in 0..MaxId /\ MaxId \in Nat
        /\ ConnectionCount \in Nat
    BY CountAssumption DEF TypeOK
  <1>2. Len(tasks) \in Nat
    BY <1>1, LenProperties
  <1>3. \A n \in 1..Len(tasks) : tasks[n] \in Ids
    BY <1>1, ElementOfSeq
  <1> QED BY <1>1, <1>2, <1>3 DEF Listed, InList

\* What is left of the list when the n-th task is unlinked.
LEMMA UnlinkedFacts ==
  ASSUME TypeOK, ListInv, NEW n \in 1..Len(tasks), tasks' = Unlinked(tasks, n)
  PROVE  /\ tasks' \in Seq(Ids) /\ Len(tasks') = Len(tasks) - 1
         /\ \A m \in 1..Len(tasks') :
              tasks'[m] = IF m < n THEN tasks[m] ELSE tasks[m + 1]
         /\ Listed' = Listed \ {tasks[n]}
  <1> DEFINE L == Len(tasks)
             front == SubSeq(tasks, 1, n - 1)
             back == SubSeq(tasks, n + 1, L)
  <1>1. L \in Nat /\ \A m \in 1..L : tasks[m] \in Ids
    BY ListFacts
  <1>2. /\ front \in Seq(Ids)
        /\ Len(front) = IF 1 <= n - 1 THEN n - 1 - 1 + 1 ELSE 0
        /\ \A i \in 1 .. n - 1 - 1 + 1 : front[i] = tasks[1 + i - 1]
    <2>1. 1 \in Int /\ n - 1 \in Int /\ \A m \in 1 .. n - 1 : tasks[m] \in Ids
      BY <1>1
    <2> QED BY <2>1, SubSeqProperties
  <1>3. /\ back \in Seq(Ids)
        /\ Len(back) = IF n + 1 <= L THEN L - (n + 1) + 1 ELSE 0
        /\ \A i \in 1 .. L - (n + 1) + 1 : back[i] = tasks[n + 1 + i - 1]
    <2>1. n + 1 \in Int /\ L \in Int /\ \A m \in n + 1 .. L : tasks[m] \in Ids
      BY <1>1
    <2> QED BY <2>1, SubSeqProperties
  <1>4. tasks' = front \o back
    BY DEF Unlinked
  <1> HIDE DEF front, back
  <1>5. /\ tasks' \in Seq(Ids) /\ Len(tasks') = Len(front) + Len(back)
        /\ \A i \in 1 .. Len(front) + Len(back) :
             tasks'[i] = IF i <= Len(front) THEN front[i] ELSE back[i - Len(front)]
    <2>1. front \in Seq(Ids) /\ back \in Seq(Ids)
      BY <1>2, <1>3
    <2>2. /\ front \o back \in Seq(Ids) /\ Len(front \o back) = Len(front) + Len(back)
          /\ \A i \in 1 .. Len(front) + Len(back) :
               (front \o back)[i] = IF i <= Len(front) THEN front[i] ELSE back[i - Len(front)]
      BY <2>1, ConcatProperties
    <2> QED BY <1>4, <2>2
  <1>6. Len(front) = n - 1 /\ Len(back) = L - n
    BY <1>1, <1>2, <1>3
  <1> HIDE DEF L
  <1>7. Len(tasks') = L - 1
    BY <1>1, <1>5, <1>6
  <1>8. ASSUME NEW m \in 1 .. L - 1
        PROVE  tasks'[m] = IF m < n THEN tasks[m] ELSE tasks[m + 1]
    <2>1. CASE m < n
      <3>1. m \in 1 .. n - 1 - 1 + 1 /\ 1 + m - 1 = m /\ m <= Len(front)
            /\ m \in 1 .. Len(front) + Len(back)
        BY <1>1, <1>6, <1>8, <2>1 DEF L
      <3> QED BY <1>2, <1>5, <2>1, <3>1
    <2>2. CASE ~(m < n)
      <3>1. /\ m - (n - 1) \in 1 .. L - (n + 1) + 1
            /\ n + 1 + (m - (n - 1)) - 1 = m + 1
            /\ ~(m <= Len(front)) /\ m \in 1 .. Len(front) + Len(back)
        BY <1>1, <1>6, <1>8, <2>2 DEF L
      <3>2. back[m - (n - 1)] = tasks[m + 1]
        BY <1>3, <3>1
      <3> QED BY <1>5, <1>6, <2>2, <3>1, <3>2
    <2> QED BY <2>1, <2>2
  <1>9. Listed' = Listed \ {tasks[n]}
    <2>1. ASSUME NEW m \in 1 .. L - 1
          PROVE  tasks'[m] \in Listed /\ tasks'[m] # tasks[n]
      <3>1. CASE m < n
        <4>1. m \in 1..L
          BY <1>1
        <4>2. tasks[m] < tasks[n]
          BY <3>1, <4>1 DEF ListInv, L
        <4> QED BY <1>1, <1>8, <3>1, <4>1, <4>2 DEF Listed, L, Ids
      <3>2. CASE ~(m < n)
        <4>1. m + 1 \in 1..L /\ n < m + 1
          BY <1>1, <3>2
        <4>2. tasks[n] < tasks[m + 1]
          BY <4>1 DEF ListInv, L
        <4> QED BY <1>1, <1>8, <3>2, <4>1, <4>2 DEF Listed, L, Ids
      <3> QED BY <3>1, <3>2
    <2>2. ASSUME NEW m \in 1..L, tasks[m] # tasks[n]
          PROVE  \E k \in 1 .. L - 1 : tasks'[k] = tasks[m]
      <3>1. CASE m < n
        <4>1. m \in 1 .. L - 1
          BY <1>1, <3>1 DEF L
        <4> QED BY <1>8, <3>1, <4>1
      <3>2. CASE n < m
        <4>1. m - 1 \in 1 .. L - 1 /\ ~(m - 1 < n) /\ m - 1 + 1 = m
          BY <1>1, <3>2
        <4> QED BY <1>8, <4>1
      <3>3. n = m \/ n < m \/ m < n
        BY <1>1
      <3> QED BY <2>2, <3>1, <3>2, <3>3
    <2> QED BY <1>7, <2>1, <2>2, SMTT(20) DEF Listed, L
  <1> QED BY <1>5, <1>7, <1>8, <1>9 DEF L

\* The new task is the last of the list.
LEMMA AppendedFacts ==
  ASSUME TypeOK, lastId < MaxId, tasks' = Append(tasks, lastId + 1)
  PROVE  /\ tasks' \in Seq(Ids) /\ Len(tasks') = Len(tasks) + 1
         /\ \A m \in 1..Len(tasks) : tasks'[m] = tasks[m]
         /\ tasks'[Len(tasks) + 1] = lastId + 1
         /\ Listed' = Listed \cup {lastId + 1}
         /\ lastId + 1 \in Ids
  <1>1. Len(tasks) \in Nat /\ lastId \in Nat /\ MaxId \in Nat
    BY ListFacts
  <1>2. lastId + 1 \in Ids /\ tasks \in Seq(Ids)
    BY <1>1 DEF Ids, TypeOK
  <1>3. /\ tasks' \in Seq(Ids) /\ Len(tasks') = Len(tasks) + 1
        /\ \A m \in 1..Len(tasks) : tasks'[m] = tasks[m]
        /\ tasks'[Len(tasks) + 1] = lastId + 1
    BY <1>2, AppendProperties
  <1>4. Listed' = Listed \cup {lastId + 1}
    BY <1>1, <1>3 DEF Listed
  <1> QED BY <1>2, <1>3, <1>4

\* The smallest of the connections the handler may take.
LEMMA Smallest ==
  ASSUME NEW S, S \subseteq Nat, S # {}
  PROVE  \E c \in S : \A d \in S : c <= d
  <1> DEFINE R == OpToRel(<, Nat)
  <1>1. IsWellFoundedOn(R, Nat)
    BY NatLessThanWellFounded
  <1>2. \A a, b \in Nat : a < b => <<a, b>> \in R
    BY DEF OpToRel
  <1> HIDE DEF R
  <1>3. PICK c \in S : \A d \in S : ~(<<d, c>> \in R)
    BY <1>1, WFMin
  <1>4. \A d \in S : ~(d < c)
    BY <1>2, <1>3
  <1> QED BY <1>3, <1>4

-----------------------------------------------------------------------------
(* The game thread *)

\* What a step leaves alone that touches neither the list, nor the tasks, nor a
\* thread of a query.
LEMMA QuietKeeps ==
  ASSUME IInv, TypeOK', UNCHANGED <<tasks, lastId, task, exec, failed, fetched, returned>>,
         connTask' = connTask, WalkInv'
  PROVE  IInv'
  <1>1. Listed' = Listed
    BY DEF Listed
  <1>2. ListInv' /\ ResultIsOwn'
    BY DEF IInv, ListInv, ResultIsOwn
  <1>3. ExecInv' /\ ResultInv'
    BY <1>1 DEF IInv, ExecInv, ResultInv
  <1> QED BY <1>2, <1>3 DEF IInv

LEMMA InitializerKeeps ==
  ASSUME IInv, Initializer
  PROVE  IInv'
  <1>1. /\ UNCHANGED <<tasks, lastId, task, exec, failed, fetched, returned>>
        /\ UNCHANGED <<connTask, hq, hc, lock>>
        /\ hpc' = hpc \/ hpc' = "sleep"
    BY DEF Initializer, Initialize, Connect, ConnectError, StartHandler, poolVars,
           taskVars, handlerVars, histVars
  <1>2. /\ init' \in {"no", "connecting", "done", "failed"}
        /\ open' \in 0..ConnectionCount
    BY CountAssumption
       DEF Initializer, Initialize, Connect, ConnectError, StartHandler, IInv, TypeOK
  <1>3. TypeOK'
    BY <1>1, <1>2 DEF IInv, TypeOK
  <1>4. WalkInv'
    BY <1>1 DEF IInv, WalkInv
  <1> QED BY <1>1, <1>3, <1>4, QuietKeeps

LEMMA CreateQueryKeeps ==
  ASSUME IInv, NEW save \in BOOLEAN, CreateQuery(save)
  PROVE  IInv'
  <1> DEFINE new == lastId + 1
             L == Len(tasks)
  <1>1. /\ lock = "free" /\ lastId < MaxId /\ lastId' = new
        /\ tasks' = Append(tasks, new)
        /\ task' = [task EXCEPT ![new] = NewTask(save)]
        /\ UNCHANGED <<init, open, connTask, hpc, hq, hc, lock, exec,
                       failed, fetched, returned>>
    BY DEF CreateQuery, Appended, poolVars, handlerVars, histVars
  <1>2. TypeOK
    BY DEF IInv
  <1>3. /\ tasks' \in Seq(Ids) /\ Len(tasks') = L + 1
        /\ \A m \in 1..L : tasks'[m] = tasks[m]
        /\ tasks'[L + 1] = new
        /\ Listed' = Listed \cup {new}
        /\ new \in Ids
    BY <1>1, <1>2, AppendedFacts
  <1>4. /\ L \in Nat /\ lastId \in Nat /\ MaxId \in Nat
        /\ \A n \in 1..L : tasks[n] \in Ids /\ tasks[n] \in Listed
        /\ \A n \in 1..L : tasks[n] <= lastId
    BY <1>2, ListFacts DEF IInv, ListInv
  <1>5. \A i \in Listed : i <= lastId
    BY <1>4 DEF Listed
  <1>6. /\ task'[new].started = FALSE /\ task'[new].done = FALSE /\ task'[new].result = 0
        /\ \A i \in Ids : i # new => task'[i] = task[i]
    BY <1>1, <1>2, <1>3 DEF TypeOK, NewTask
  <1> HIDE DEF L
  <1>7. TypeOK'
    <2>1. task' \in [Ids -> [started : BOOLEAN, done : BOOLEAN, save : BOOLEAN,
                             result : 0..MaxId]]
      <3>1. NewTask(save) \in
              [started : BOOLEAN, done : BOOLEAN, save : BOOLEAN, result : 0..MaxId]
        BY <1>4 DEF NewTask
      <3> QED BY <1>1, <1>2, <3>1 DEF TypeOK
    <2>2. lastId' \in 0..MaxId /\ Len(tasks') <= lastId'
      BY <1>1, <1>2, <1>3, <1>4 DEF TypeOK, L
    <2> QED BY <1>1, <1>2, <1>3, <2>1, <2>2 DEF TypeOK
  <1>8. ListInv'
    <2>1. \A n \in 1 .. L + 1 : n \in 1..L \/ n = L + 1
      BY <1>4
    <2>2. \A n \in 1 .. L + 1 : tasks'[n] <= lastId'
      BY <1>1, <1>3, <1>4, <2>1 DEF Ids
    <2>3. ASSUME NEW m \in 1 .. L + 1, NEW n \in 1 .. L + 1, m < n
          PROVE  /\ tasks'[m] < tasks'[n]
                 /\ task'[tasks'[n]].started => task'[tasks'[m]].started
      <3>1. m \in 1..L
        BY <1>4, <2>3
      <3>2. CASE n \in 1..L
        <4>1. tasks[m] < tasks[n] /\ (task[tasks[n]].started => task[tasks[m]].started)
          BY <2>3, <3>1, <3>2 DEF IInv, ListInv, L
        <4>2. tasks[m] # new /\ tasks[n] # new /\ tasks[m] \in Ids /\ tasks[n] \in Ids
          BY <1>4, <3>1, <3>2 DEF Ids
        <4> QED BY <1>3, <1>6, <3>1, <3>2, <4>1, <4>2
      <3>3. CASE n = L + 1
        BY <1>3, <1>4, <1>6, <3>1, <3>3 DEF Ids
      <3> QED BY <2>1, <3>2, <3>3
    <2> QED BY <1>3, <2>2, <2>3 DEF ListInv
  <1>9. ExecInv'
    <2> SUFFICES ASSUME NEW i \in Ids
                 PROVE  /\ exec[i].pc # "none" => connTask[exec[i].conn] = i /\ i <= new
                        /\ exec[i].pc # "none" /\ i \in Listed' => task'[i].started
                        /\ exec[i].pc \in Unmarked => i \in Listed' /\ ~task'[i].done
                        /\ task'[i].done => task'[i].started
      BY <1>1 DEF ExecInv
    <2>1. /\ exec[i].pc # "none" => connTask[exec[i].conn] = i /\ i <= lastId
          /\ exec[i].pc # "none" /\ i \in Listed => task[i].started
          /\ exec[i].pc \in Unmarked => i \in Listed /\ ~task[i].done
          /\ task[i].done => task[i].started
      BY DEF IInv, ExecInv
    <2>2. i \in Nat
      BY <1>4 DEF Ids
    <2>3. CASE i = new
      BY <1>4, <1>6, <2>1, <2>3 DEF Unmarked
    <2>4. CASE i # new
      BY <1>3, <1>4, <1>6, <2>1, <2>2, <2>4
    <2> QED BY <2>3, <2>4
  <1>10. WalkInv'
    BY <1>1 DEF IInv, WalkInv
  <1>11. ResultInv'
    <2> SUFFICES ASSUME NEW i \in Ids
                 PROVE  /\ task'[i].result \in {0, i}
                        /\ ~task'[i].started \/ exec[i].pc = "query" => task'[i].result = 0
                        /\ i \in failed => /\ task'[i].result = 0 /\ i <= new
                                           /\ exec[i].pc \notin {"query", "store"}
                                           /\ i \in Listed' => task'[i].started
                        /\ i \in fetched => i <= new /\ i \notin Listed'
      BY <1>1 DEF ResultInv
    <2>1. /\ task[i].result \in {0, i}
          /\ ~task[i].started \/ exec[i].pc = "query" => task[i].result = 0
          /\ i \in failed => /\ task[i].result = 0 /\ i <= lastId
                             /\ exec[i].pc \notin {"query", "store"}
                             /\ i \in Listed => task[i].started
          /\ i \in fetched => i <= lastId /\ i \notin Listed
      BY DEF IInv, ResultInv
    <2>2. i \in Nat
      BY <1>4 DEF Ids
    <2>3. CASE i = new
      BY <1>4, <1>6, <2>1, <2>3
    <2>4. CASE i # new
      BY <1>3, <1>4, <1>6, <2>1, <2>2, <2>4
    <2> QED BY <2>3, <2>4
  <1>12. ResultIsOwn'
    BY <1>1 DEF IInv, ResultIsOwn
  <1> QED BY <1>7, <1>8, <1>9, <1>10, <1>11, <1>12 DEF IInv

LEMMA GetResultAndFreeKeeps ==
  ASSUME IInv, NEW n \in 1..Len(tasks), GetResultAndFree(n)
  PROVE  IInv'
  <1> DEFINE f == tasks[n]
             L == Len(tasks)
  <1>1. /\ lock = "free" /\ task[f].done
        /\ tasks' = Unlinked(tasks, n)
        /\ fetched' = fetched \cup {f}
        /\ returned' = [returned EXCEPT ![f] = IF task[f].save THEN task[f].result ELSE 0]
        /\ task' = [task EXCEPT ![f] = NoTask]
        /\ UNCHANGED <<init, open, connTask, lastId, hpc, hq, hc, lock, exec, failed>>
    BY DEF GetResultAndFree, Finished, poolVars, handlerVars
  <1>2. TypeOK /\ ListInv
    BY DEF IInv
  <1>3. /\ L \in Nat /\ lastId \in Nat /\ MaxId \in Nat
        /\ \A m \in 1..L : tasks[m] \in Ids /\ tasks[m] \in Listed
        /\ f \in Ids /\ f \in Listed /\ f <= lastId
    BY <1>2, ListFacts DEF ListInv
  <1>4. /\ tasks' \in Seq(Ids) /\ Len(tasks') = L - 1
        /\ \A m \in 1..Len(tasks') :
             tasks'[m] = IF m < n THEN tasks[m] ELSE tasks[m + 1]
        /\ Listed' = Listed \ {f}
    BY <1>1, <1>2, UnlinkedFacts
  <1>5. /\ task'[f] = NoTask
        /\ \A i \in Ids : i # f => task'[i] = task[i]
    BY <1>1, <1>2, <1>3 DEF TypeOK
  <1> HIDE DEF f, L
  <1>6. TypeOK'
    <2>1. task' \in [Ids -> [started : BOOLEAN, done : BOOLEAN, save : BOOLEAN,
                             result : 0..MaxId]]
      <3>1. NoTask \in [started : BOOLEAN, done : BOOLEAN, save : BOOLEAN, result : 0..MaxId]
        BY <1>3 DEF NoTask, NewTask
      <3> QED BY <1>1, <1>2, <3>1 DEF TypeOK
    <2>2. Len(tasks') <= lastId'
      BY <1>1, <1>2, <1>3, <1>4 DEF TypeOK, L
    <2>3. returned' \in [Ids -> 0..MaxId] /\ fetched' \in SUBSET Ids
      <3>1. task[f].result \in 0..MaxId
        BY <1>2, <1>3 DEF TypeOK
      <3>2. (IF task[f].save THEN task[f].result ELSE 0) \in 0..MaxId
        BY <1>3, <3>1
      <3> QED BY <1>1, <1>2, <1>3, <3>2 DEF TypeOK
    <2> QED BY <1>1, <1>2, <1>4, <2>1, <2>2, <2>3 DEF TypeOK
  <1>7. ListInv'
    <2>1. \A m \in 1 .. L - 1 : \E k \in 1..L :
            /\ tasks'[m] = tasks[k] /\ k = IF m < n THEN m ELSE m + 1
            /\ tasks[k] # f
      <3> TAKE m \in 1 .. L - 1
      <3>1. tasks'[m] \in Listed'
        BY <1>4 DEF Listed
      <3>2. tasks'[m] # f
        BY <1>4, <3>1
      <3>3. CASE m < n
        <4>1. m \in 1..L
          BY <1>3
        <4> QED BY <1>4, <3>2, <3>3, <4>1
      <3>4. CASE ~(m < n)
        <4>1. m + 1 \in 1..L
          BY <1>3
        <4> QED BY <1>4, <3>2, <3>4, <4>1
      <3> QED BY <3>3, <3>4
    <2>2. \A m \in 1 .. L - 1 : tasks'[m] <= lastId'
      BY <1>1, <1>2, <2>1 DEF ListInv, L
    <2>3. ASSUME NEW l \in 1 .. L - 1, NEW m \in 1 .. L - 1, l < m
          PROVE  /\ tasks'[l] < tasks'[m]
                 /\ task'[tasks'[m]].started => task'[tasks'[l]].started
      <3>1. PICK k \in 1..L : /\ tasks'[l] = tasks[k] /\ k = IF l < n THEN l ELSE l + 1
                              /\ tasks[k] # f
        BY <2>1
      <3>2. PICK j \in 1..L : /\ tasks'[m] = tasks[j] /\ j = IF m < n THEN m ELSE m + 1
                              /\ tasks[j] # f
        BY <2>1
      <3>3. k < j
        BY <1>3, <2>3, <3>1, <3>2 DEF L
      <3>4. tasks[k] < tasks[j] /\ (task[tasks[j]].started => task[tasks[k]].started)
        BY <1>2, <3>3 DEF ListInv, L
      <3>5. tasks[k] \in Ids /\ tasks[j] \in Ids
        BY <1>3
      <3> QED BY <1>5, <3>1, <3>2, <3>4, <3>5
    <2> QED BY <1>4, <2>2, <2>3 DEF ListInv
  <1>8. ExecInv'
    <2> SUFFICES ASSUME NEW i \in Ids
                 PROVE  /\ exec[i].pc # "none" => connTask[exec[i].conn] = i /\ i <= lastId
                        /\ exec[i].pc # "none" /\ i \in Listed' => task'[i].started
                        /\ exec[i].pc \in Unmarked => i \in Listed' /\ ~task'[i].done
                        /\ task'[i].done => task'[i].started
      BY <1>1 DEF ExecInv
    <2>1. /\ exec[i].pc # "none" => connTask[exec[i].conn] = i /\ i <= lastId
          /\ exec[i].pc # "none" /\ i \in Listed => task[i].started
          /\ exec[i].pc \in Unmarked => i \in Listed /\ ~task[i].done
          /\ task[i].done => task[i].started
      BY DEF IInv, ExecInv
    <2>2. CASE i = f
      <3>1. task'[i].done = FALSE
        BY <1>5, <2>2 DEF NoTask, NewTask
      <3> QED BY <1>1, <1>4, <2>1, <2>2, <3>1 DEF f
    <2>3. CASE i # f
      BY <1>4, <1>5, <2>1, <2>3
    <2> QED BY <2>2, <2>3
  <1>9. WalkInv'
    BY <1>1 DEF IInv, WalkInv
  <1>10. ResultInv'
    <2> SUFFICES ASSUME NEW i \in Ids
                 PROVE  /\ task'[i].result \in {0, i}
                        /\ ~task'[i].started \/ exec[i].pc = "query" => task'[i].result = 0
                        /\ i \in failed => /\ task'[i].result = 0 /\ i <= lastId
                                           /\ exec[i].pc \notin {"query", "store"}
                                           /\ i \in Listed' => task'[i].started
                        /\ i \in fetched' => i <= lastId /\ i \notin Listed'
      BY <1>1 DEF ResultInv
    <2>1. /\ task[i].result \in {0, i}
          /\ ~task[i].started \/ exec[i].pc = "query" => task[i].result = 0
          /\ i \in failed => /\ task[i].result = 0 /\ i <= lastId
                             /\ exec[i].pc \notin {"query", "store"}
                             /\ i \in Listed => task[i].started
          /\ i \in fetched => i <= lastId /\ i \notin Listed
      BY DEF IInv, ResultInv
    <2>2. CASE i = f
      <3>1. task'[i].result = 0
        BY <1>5, <2>2 DEF NoTask, NewTask
      <3> QED BY <1>3, <1>4, <2>1, <2>2, <3>1
    <2>3. CASE i # f
      BY <1>1, <1>4, <1>5, <2>1, <2>3
    <2> QED BY <2>2, <2>3
  <1>11. ResultIsOwn'
    <2> SUFFICES ASSUME NEW i \in fetched', returned'[i] # 0
                 PROVE  returned'[i] = i /\ i \notin failed
      BY <1>1 DEF ResultIsOwn
    <2>1. returned \in [Ids -> 0..MaxId]
      BY <1>2 DEF TypeOK
    <2>2. CASE i = f
      <3>1. returned'[f] = IF task[f].save THEN task[f].result ELSE 0
        BY <1>1, <1>3, <2>1
      <3>2. task[f].result # 0 /\ returned'[f] = task[f].result
        BY <2>2, <3>1
      <3>3. task[f].result \in {0, f} /\ (f \in failed => task[f].result = 0)
        BY <1>3 DEF IInv, ResultInv
      <3> QED BY <2>2, <3>2, <3>3
    <2>3. CASE i # f
      BY <1>1, <2>1, <2>3 DEF IInv, ResultIsOwn
    <2> QED BY <2>2, <2>3
  <1> QED BY <1>6, <1>7, <1>8, <1>9, <1>10, <1>11 DEF IInv

-----------------------------------------------------------------------------
(* The handler *)

LEMMA WakeKeeps ==
  ASSUME IInv, Wake
  PROVE  IInv'
  <1>1. /\ hpc' = "walk" /\ lock' = "handler" /\ hq' = 1 /\ hc' = 1
        /\ UNCHANGED <<init, open, connTask, lastId, tasks, task, exec,
                       failed, fetched, returned>>
    BY DEF Wake, First, poolVars, taskVars, histVars
  <1>2. TypeOK /\ Len(tasks) \in Nat /\ MaxId \in Nat /\ ConnectionCount \in Nat
    BY ListFacts DEF IInv
  <1>3. 1 \in 1..(MaxId + 1) /\ 1 \in 1..(ConnectionCount + 1)
    BY <1>2
  <1>4. TypeOK'
    BY <1>1, <1>2, <1>3 DEF TypeOK
  <1>5. WalkInv'
    <2>1. 1 <= Len(tasks) + 1 /\ \A m \in 1..Len(tasks) : ~(m < 1)
      BY <1>2
    <2> QED BY <1>1, <2>1 DEF WalkInv
  <1> QED BY <1>1, <1>4, <1>5, QuietKeeps

LEMMA WalkEndsKeeps ==
  ASSUME IInv, WalkEnds
  PROVE  IInv'
  <1>1. /\ hpc' = "sleep" /\ lock' = "free"
        /\ UNCHANGED <<hq, hc, init, open, connTask, lastId, tasks, task, exec,
                       failed, fetched, returned>>
    BY DEF WalkEnds, Sleep, poolVars, taskVars, histVars
  <1>2. TypeOK'
    BY <1>1 DEF IInv, TypeOK
  <1>3. WalkInv'
    BY <1>1 DEF WalkInv
  <1> QED BY <1>1, <1>2, <1>3, QuietKeeps

LEMMA WalkSkipsKeeps ==
  ASSUME IInv, WalkSkips
  PROVE  IInv'
  <1>1. /\ hpc = "walk" /\ hq <= Len(tasks) /\ task[tasks[hq]].started
        /\ hq' = hq + 1
        /\ UNCHANGED <<hpc, hc, lock, init, open, connTask, lastId, tasks, task, exec,
                       failed, fetched, returned>>
    BY DEF WalkSkips, poolVars, taskVars, histVars
  <1>2. TypeOK /\ Len(tasks) \in Nat /\ MaxId \in Nat /\ lastId \in Nat
    BY ListFacts DEF IInv
  <1>3. hq \in Nat /\ hq + 1 \in 1..(MaxId + 1) /\ hq + 1 <= Len(tasks) + 1
    BY <1>1, <1>2 DEF TypeOK
  <1>4. TypeOK'
    BY <1>1, <1>2, <1>3 DEF TypeOK
  <1>5. WalkInv'
    <2>1. ASSUME NEW m \in 1..Len(tasks), m < hq + 1
          PROVE  task[tasks[m]].started
      <3>1. m < hq \/ m = hq
        BY <1>2, <1>3, <2>1
      <3> QED BY <1>1, <3>1 DEF IInv, WalkInv
    <2> QED BY <1>1, <1>3, <2>1 DEF IInv, WalkInv
  <1> QED BY <1>1, <1>4, <1>5, QuietKeeps

\* The connection the handler takes is one no thread uses.
LEMMA NextIdleFacts ==
  ASSUME TypeOK, IdleFrom # {}
  PROVE  NextIdle \in Conns /\ connTask[NextIdle] = 0
  <1>1. /\ hc \in Nat /\ hc >= 1 /\ open \in Nat /\ open <= ConnectionCount
        /\ ConnectionCount \in Nat
    BY CountAssumption DEF TypeOK
  <1>2. IdleFrom \subseteq Nat /\ IdleFrom \subseteq Conns
    BY <1>1 DEF IdleFrom, Conns
  <1>3. \E c \in IdleFrom : \A d \in IdleFrom : c <= d
    BY <1>2, Smallest
  <1>4. NextIdle \in IdleFrom
    BY <1>3 DEF NextIdle
  <1> QED BY <1>2, <1>4 DEF IdleFrom, Idle

LEMMA WalkStartsKeeps ==
  ASSUME IInv, WalkStarts
  PROVE  IInv'
  <1> DEFINE s == tasks[hq]
             c == NextIdle
             L == Len(tasks)
  <1>1. /\ hpc = "walk" /\ hq <= L /\ ~task[s].started /\ IdleFrom # {}
        /\ task' = [task EXCEPT ![s].started = TRUE]
        /\ connTask' = [connTask EXCEPT ![c] = s]
        /\ UNCHANGED <<init, open, lastId, tasks, lock, failed, fetched, returned>>
    BY DEF WalkStarts, poolVars, taskVars, histVars
  <1>2. \/ /\ exec' = [exec EXCEPT ![s] = [pc |-> "query", conn |-> c]]
           /\ hq' = hq + 1 /\ hc' = c + 1 /\ hpc' = hpc
        \/ hpc' = "dead" /\ UNCHANGED <<exec, hq, hc>>
    BY DEF WalkStarts
  <1>3. TypeOK /\ ListInv /\ ExecInv /\ WalkInv /\ ResultInv
    BY DEF IInv
  <1>4. /\ L \in Nat /\ lastId \in Nat /\ MaxId \in Nat /\ ConnectionCount \in Nat
        /\ \A n \in 1..L : tasks[n] \in Ids /\ tasks[n] \in Listed
        /\ Listed \subseteq Ids
    BY <1>3, ListFacts
  <1>5. hq \in 1..L /\ hq \in Nat
    BY <1>1, <1>3, <1>4 DEF TypeOK
  <1>6. s \in Ids /\ s \in Listed /\ s <= lastId
    BY <1>3, <1>4, <1>5 DEF ListInv
  <1>7. c \in Conns /\ connTask[c] = 0
    BY <1>1, <1>3, NextIdleFacts
  <1>8. Listed' = Listed
    BY <1>1 DEF Listed
  <1> HIDE DEF s, c, L
  <1>9. /\ task'[s].started = TRUE /\ task'[s].done = task[s].done
        /\ task'[s].result = task[s].result
        /\ \A i \in Ids : i # s => task'[i] = task[i]
    <2>1. task[s] \in [started : BOOLEAN, done : BOOLEAN, save : BOOLEAN,
                       result : 0..MaxId]
      BY <1>3, <1>6 DEF TypeOK
    <2> QED BY <1>1, <1>3, <1>6, <2>1 DEF TypeOK
  <1>10. /\ connTask'[c] = s
         /\ \A d \in Conns : d # c => connTask'[d] = connTask[d]
    BY <1>1, <1>3, <1>7 DEF TypeOK
  <1>11. exec[s].pc = "none" /\ ~task[s].done /\ s \notin failed
    BY <1>1, <1>3, <1>6 DEF ExecInv, ResultInv
  <1>12. \A i \in Ids : exec[i].pc # "none" => exec[i].conn # c /\ exec[i].conn \in Conns
    <2> TAKE i \in Ids
    <2> HAVE exec[i].pc # "none"
    <2>1. connTask[exec[i].conn] = i /\ i # 0
      BY <1>3, <1>4 DEF ExecInv, Ids
    <2> QED BY <1>3, <1>7, <2>1 DEF TypeOK
  <1>13. /\ \A i \in Ids : i # s => exec'[i] = exec[i]
         /\ \/ exec'[s] = [pc |-> "query", conn |-> c]
            \/ exec'[s] = exec[s]
    BY <1>2, <1>3, <1>6 DEF TypeOK
  <1>14. TypeOK'
    <2>1. task' \in [Ids -> [started : BOOLEAN, done : BOOLEAN, save : BOOLEAN,
                             result : 0..MaxId]]
      BY <1>1, <1>3, <1>6, ZenonT(40) DEF TypeOK
    <2>2. connTask' \in [Conns -> 0..MaxId]
      <3>1. s \in 0..MaxId
        BY <1>4, <1>6 DEF Ids
      <3> QED BY <1>1, <1>3, <1>7, <3>1 DEF TypeOK
    <2>3. exec' \in [Ids -> [pc : {"none", "query", "store", "mark", "clear"},
                             conn : Conns]]
      <3>1. [pc |-> "query", conn |-> c] \in
              [pc : {"none", "query", "store", "mark", "clear"}, conn : Conns]
        BY <1>7
      <3>2. exec \in [Ids -> [pc : {"none", "query", "store", "mark", "clear"},
                              conn : Conns]]
        BY <1>3 DEF TypeOK
      <3> QED BY <1>2, <1>6, <3>1, <3>2
    <2>4. /\ hpc' \in {"none", "sleep", "walk", "dead"}
          /\ hq' \in 1..(MaxId + 1) /\ hc' \in 1..(ConnectionCount + 1)
      <3>1. hq + 1 \in 1..(MaxId + 1)
        BY <1>3, <1>4, <1>5 DEF TypeOK, L
      <3>2. c + 1 \in 1..(ConnectionCount + 1)
        BY <1>4, <1>7 DEF Conns
      <3> QED BY <1>2, <1>3, <3>1, <3>2 DEF TypeOK
    <2> QED BY <1>1, <1>3, <2>1, <2>2, <2>3, <2>4 DEF TypeOK
  <1>15. ListInv'
    <2>1. ASSUME NEW m \in 1..L, NEW n \in 1..L, m < n, task'[tasks[n]].started
          PROVE  task'[tasks[m]].started
      <3>1. tasks[m] \in Ids /\ tasks[n] \in Ids
        BY <1>4
      <3>2. task[tasks[m]].started
        <4>1. CASE task[tasks[n]].started
          BY <1>3, <2>1, <4>1 DEF ListInv, L
        <4>2. CASE ~task[tasks[n]].started
          <5>1. tasks[n] = s
            BY <1>9, <2>1, <3>1, <4>2
          <5>2. ~(hq < n)
            BY <1>3, <1>5, <5>1, <3>1 DEF ListInv, L, s, Ids
          <5>3. m < hq
            BY <1>4, <1>5, <2>1, <5>2
          <5> QED BY <1>1, <1>3, <5>3 DEF WalkInv, L
        <4> QED BY <4>1, <4>2
      <3> QED BY <1>9, <3>1, <3>2
    <2> QED BY <1>1, <1>3, <2>1 DEF ListInv, L
  <1>16. ExecInv'
    <2> SUFFICES ASSUME NEW i \in Ids
                 PROVE  /\ exec'[i].pc # "none" =>
                             connTask'[exec'[i].conn] = i /\ i <= lastId
                        /\ exec'[i].pc # "none" /\ i \in Listed => task'[i].started
                        /\ exec'[i].pc \in Unmarked => i \in Listed /\ ~task'[i].done
                        /\ task'[i].done => task'[i].started
      BY <1>1, <1>8 DEF ExecInv
    <2>1. /\ exec[i].pc # "none" => connTask[exec[i].conn] = i /\ i <= lastId
          /\ exec[i].pc # "none" /\ i \in Listed => task[i].started
          /\ exec[i].pc \in Unmarked => i \in Listed /\ ~task[i].done
          /\ task[i].done => task[i].started
      BY <1>3 DEF ExecInv
    <2>2. CASE i = s
      <3>1. CASE exec'[s] = [pc |-> "query", conn |-> c]
        BY <1>6, <1>9, <1>10, <1>11, <2>2, <3>1
      <3>2. CASE exec'[s] = exec[s]
        BY <1>6, <1>9, <1>11, <2>2, <3>2 DEF Unmarked
      <3> QED BY <1>13, <3>1, <3>2
    <2>3. CASE i # s
      BY <1>9, <1>10, <1>12, <1>13, <2>1, <2>3
    <2> QED BY <2>2, <2>3
  <1>17. WalkInv'
    <2>1. CASE hpc' = "dead"
      BY <2>1 DEF WalkInv
    <2>2. CASE hpc' = hpc /\ hq' = hq + 1
      <3>1. ASSUME NEW m \in 1..L, m < hq + 1
            PROVE  task'[tasks[m]].started
        <4>1. tasks[m] \in Ids
          BY <1>4
        <4>2. CASE m = hq
          BY <1>9, <4>2 DEF s
        <4>3. CASE m < hq
          <5>1. task[tasks[m]].started
            BY <1>1, <1>3, <4>3 DEF WalkInv, L
          <5> QED BY <1>9, <4>1, <5>1
        <4> QED BY <1>4, <1>5, <3>1, <4>2, <4>3
      <3>2. hq + 1 <= L + 1
        BY <1>4, <1>5
      <3> QED BY <1>1, <1>3, <2>2, <3>1, <3>2 DEF WalkInv, L
    <2> QED BY <1>2, <2>1, <2>2
  <1>18. ResultInv'
    <2> SUFFICES ASSUME NEW i \in Ids
                 PROVE  /\ task'[i].result \in {0, i}
                        /\ ~task'[i].started \/ exec'[i].pc = "query" => task'[i].result = 0
                        /\ i \in failed => /\ task'[i].result = 0 /\ i <= lastId
                                           /\ exec'[i].pc \notin {"query", "store"}
                                           /\ i \in Listed => task'[i].started
                        /\ i \in fetched => i <= lastId /\ i \notin Listed
      BY <1>1, <1>8 DEF ResultInv
    <2>1. /\ task[i].result \in {0, i}
          /\ ~task[i].started \/ exec[i].pc = "query" => task[i].result = 0
          /\ i \in failed => /\ task[i].result = 0 /\ i <= lastId
                             /\ exec[i].pc \notin {"query", "store"}
                             /\ i \in Listed => task[i].started
          /\ i \in fetched => i <= lastId /\ i \notin Listed
      BY <1>3 DEF ResultInv
    <2>2. CASE i = s
      BY <1>1, <1>9, <1>11, <2>1, <2>2
    <2>3. CASE i # s
      BY <1>9, <1>13, <2>1, <2>3
    <2> QED BY <2>2, <2>3
  <1>19. ResultIsOwn'
    BY <1>1 DEF IInv, ResultIsOwn
  <1> QED BY <1>14, <1>15, <1>16, <1>17, <1>18, <1>19 DEF IInv

-----------------------------------------------------------------------------
(* The threads of the queries *)

\* What a thread may rely on while its task is not marked.
LEMMA OwnFacts ==
  ASSUME IInv, NEW i \in Ids, exec[i].pc \in Unmarked
  PROVE  /\ Own(i) = i /\ i \in Listed /\ ~task[i].done /\ task[i].started
         /\ i \notin fetched /\ i <= lastId
  BY DEF IInv, ExecInv, ResultInv, Own, Unmarked

LEMMA QueryKeeps ==
  ASSUME IInv, NEW i \in Ids, Query(i)
  PROVE  IInv'
  <1>1. exec[i].pc = "query" /\ Own(i) = i /\ TypeOK
    BY OwnFacts DEF Query, Unmarked, IInv
  <1>2. PICK ok \in BOOLEAN :
          /\ failed' = IF ok THEN failed ELSE failed \cup {i}
          /\ exec' = [exec EXCEPT ![i].pc =
                        IF ok /\ task[i].save THEN "store" ELSE "mark"]
    BY <1>1 DEF Query
  <1>3. UNCHANGED <<init, open, connTask, lastId, tasks, task, hpc, hq, hc, lock,
                    fetched, returned>>
    BY DEF Query, poolVars, taskVars, handlerVars
  <1>4. exec[i] \in [pc : {"none", "query", "store", "mark", "clear"}, conn : Conns]
    BY <1>1 DEF TypeOK
  <1>5. /\ exec'[i].pc \in {"store", "mark"} /\ exec'[i].conn = exec[i].conn
        /\ ~ok => exec'[i].pc = "mark"
        /\ \A j \in Ids : j # i => exec'[j] = exec[j]
        /\ exec' \in [Ids -> [pc : {"none", "query", "store", "mark", "clear"},
                              conn : Conns]]
    BY <1>1, <1>2, <1>4 DEF TypeOK
  <1>6. TypeOK'
    BY <1>1, <1>2, <1>3, <1>5 DEF TypeOK
  <1>7. Listed' = Listed
    BY <1>3 DEF Listed
  <1>8. ListInv' /\ WalkInv'
    BY <1>3 DEF IInv, ListInv, WalkInv
  <1>9. ExecInv'
    BY <1>1, <1>3, <1>5, <1>7 DEF IInv, ExecInv, Unmarked
  <1>10. ResultInv'
    <2> SUFFICES ASSUME NEW j \in Ids
                 PROVE  /\ task[j].result \in {0, j}
                        /\ ~task[j].started \/ exec'[j].pc = "query" => task[j].result = 0
                        /\ j \in failed' => /\ task[j].result = 0 /\ j <= lastId
                                            /\ exec'[j].pc \notin {"query", "store"}
                                            /\ j \in Listed => task[j].started
                        /\ j \in fetched => j <= lastId /\ j \notin Listed
      BY <1>3, <1>7 DEF ResultInv
    <2>1. /\ task[j].result \in {0, j}
          /\ ~task[j].started \/ exec[j].pc = "query" => task[j].result = 0
          /\ j \in failed => /\ task[j].result = 0 /\ j <= lastId
                             /\ exec[j].pc \notin {"query", "store"}
                             /\ j \in Listed => task[j].started
          /\ j \in fetched => j <= lastId /\ j \notin Listed
      BY DEF IInv, ResultInv
    <2>2. CASE j = i
      <3>1. task[i].started /\ i <= lastId
        BY <1>1, OwnFacts DEF Unmarked
      <3> QED BY <1>1, <1>2, <1>5, <2>1, <2>2, <3>1
    <2>3. CASE j # i
      BY <1>2, <1>5, <2>1, <2>3
    <2> QED BY <2>2, <2>3
  <1>11. ResultIsOwn'
    <2>1. i \notin fetched
      BY <1>1, OwnFacts DEF Unmarked
    <2> QED BY <1>2, <1>3, <2>1 DEF IInv, ResultIsOwn
  <1> QED BY <1>6, <1>8, <1>9, <1>10, <1>11 DEF IInv

LEMMA StoreKeeps ==
  ASSUME IInv, NEW i \in Ids, Store(i)
  PROVE  IInv'
  <1>1. exec[i].pc = "store" /\ Own(i) = i /\ TypeOK
    BY OwnFacts DEF Store, Unmarked, IInv
  <1>2. /\ task' = [task EXCEPT ![i].result = i]
        /\ exec' = [exec EXCEPT ![i].pc = "mark"]
        /\ UNCHANGED <<init, open, connTask, lastId, tasks, hpc, hq, hc, lock,
                       failed, fetched, returned>>
    BY <1>1 DEF Store, poolVars, taskVars, handlerVars, histVars
  <1>3. /\ exec[i] \in [pc : {"none", "query", "store", "mark", "clear"}, conn : Conns]
        /\ task[i] \in [started : BOOLEAN, done : BOOLEAN, save : BOOLEAN,
                        result : 0..MaxId]
        /\ i \in 0..MaxId
    BY <1>1, ListFacts DEF TypeOK, Ids
  <1>4. /\ exec'[i].pc = "mark" /\ exec'[i].conn = exec[i].conn
        /\ \A j \in Ids : j # i => exec'[j] = exec[j]
        /\ exec' \in [Ids -> [pc : {"none", "query", "store", "mark", "clear"},
                              conn : Conns]]
    BY <1>1, <1>2, <1>3 DEF TypeOK
  <1>5. /\ task'[i].started = task[i].started /\ task'[i].done = task[i].done
        /\ task'[i].result = i
        /\ \A j \in Ids : j # i => task'[j] = task[j]
        /\ task' \in [Ids -> [started : BOOLEAN, done : BOOLEAN, save : BOOLEAN,
                              result : 0..MaxId]]
    BY <1>1, <1>2, <1>3 DEF TypeOK
  <1>6. TypeOK'
    BY <1>1, <1>2, <1>4, <1>5 DEF TypeOK
  <1>7. Listed' = Listed /\ \A j \in Ids : task'[j].started = task[j].started
    BY <1>2, <1>5 DEF Listed
  <1>8. \A n \in 1..Len(tasks) : tasks[n] \in Ids
    BY <1>1, ListFacts
  <1>9. ListInv' /\ WalkInv'
    BY <1>2, <1>7, <1>8 DEF IInv, ListInv, WalkInv
  <1>10. ExecInv'
    BY <1>1, <1>2, <1>4, <1>5, <1>7 DEF IInv, ExecInv, Unmarked
  <1>11. ResultInv'
    <2> SUFFICES ASSUME NEW j \in Ids
                 PROVE  /\ task'[j].result \in {0, j}
                        /\ ~task'[j].started \/ exec'[j].pc = "query"
                             => task'[j].result = 0
                        /\ j \in failed => /\ task'[j].result = 0 /\ j <= lastId
                                           /\ exec'[j].pc \notin {"query", "store"}
                                           /\ j \in Listed => task'[j].started
                        /\ j \in fetched => j <= lastId /\ j \notin Listed
      BY <1>2, <1>7 DEF ResultInv
    <2>1. /\ task[j].result \in {0, j}
          /\ ~task[j].started \/ exec[j].pc = "query" => task[j].result = 0
          /\ j \in failed => /\ task[j].result = 0 /\ j <= lastId
                             /\ exec[j].pc \notin {"query", "store"}
                             /\ j \in Listed => task[j].started
          /\ j \in fetched => j <= lastId /\ j \notin Listed
      BY DEF IInv, ResultInv
    <2>2. CASE j = i
      <3>1. task[i].started
        BY <1>1, OwnFacts DEF Unmarked
      <3> QED BY <1>1, <1>4, <1>5, <2>1, <2>2, <3>1
    <2>3. CASE j # i
      BY <1>4, <1>5, <2>1, <2>3
    <2> QED BY <2>2, <2>3
  <1>12. ResultIsOwn'
    BY <1>2 DEF IInv, ResultIsOwn
  <1> QED BY <1>6, <1>9, <1>10, <1>11, <1>12 DEF IInv

LEMMA MarkKeeps ==
  ASSUME IInv, NEW i \in Ids, Mark(i)
  PROVE  IInv'
  <1>1. exec[i].pc = "mark" /\ Own(i) = i /\ TypeOK
    BY OwnFacts DEF Mark, Unmarked, IInv
  <1>2. /\ task' = [task EXCEPT ![i].done = TRUE]
        /\ exec' = [exec EXCEPT ![i].pc = "clear"]
        /\ UNCHANGED <<init, open, connTask, lastId, tasks, hpc, hq, hc, lock,
                       failed, fetched, returned>>
    BY <1>1 DEF Mark, poolVars, taskVars, handlerVars, histVars
  <1>3. /\ exec[i] \in [pc : {"none", "query", "store", "mark", "clear"}, conn : Conns]
        /\ task[i] \in [started : BOOLEAN, done : BOOLEAN, save : BOOLEAN,
                        result : 0..MaxId]
    BY <1>1 DEF TypeOK
  <1>4. /\ exec'[i].pc = "clear" /\ exec'[i].conn = exec[i].conn
        /\ \A j \in Ids : j # i => exec'[j] = exec[j]
        /\ exec' \in [Ids -> [pc : {"none", "query", "store", "mark", "clear"},
                              conn : Conns]]
    BY <1>1, <1>2, <1>3 DEF TypeOK
  <1>5. /\ task'[i].started = task[i].started /\ task'[i].done = TRUE
        /\ task'[i].result = task[i].result
        /\ \A j \in Ids : j # i => task'[j] = task[j]
        /\ task' \in [Ids -> [started : BOOLEAN, done : BOOLEAN, save : BOOLEAN,
                              result : 0..MaxId]]
    BY <1>1, <1>2, <1>3 DEF TypeOK
  <1>6. TypeOK'
    BY <1>1, <1>2, <1>4, <1>5 DEF TypeOK
  <1>7. /\ Listed' = Listed
        /\ \A j \in Ids : /\ task'[j].started = task[j].started
                          /\ task'[j].result = task[j].result
    BY <1>2, <1>5 DEF Listed
  <1>8. \A n \in 1..Len(tasks) : tasks[n] \in Ids
    BY <1>1, ListFacts
  <1>9. ListInv' /\ WalkInv'
    BY <1>2, <1>7, <1>8 DEF IInv, ListInv, WalkInv
  <1>10. ExecInv'
    <2>1. task[i].started
      BY <1>1, OwnFacts DEF Unmarked
    <2> QED BY <1>1, <1>2, <1>4, <1>5, <1>7, <2>1 DEF IInv, ExecInv, Unmarked
  <1>11. ResultInv'
    BY <1>1, <1>2, <1>4, <1>7 DEF IInv, ResultInv
  <1>12. ResultIsOwn'
    BY <1>2 DEF IInv, ResultIsOwn
  <1> QED BY <1>6, <1>9, <1>10, <1>11, <1>12 DEF IInv

LEMMA ClearKeeps ==
  ASSUME IInv, NEW i \in Ids, Clear(i)
  PROVE  IInv'
  <1>1. exec[i].pc = "clear" /\ connTask[exec[i].conn] = i /\ TypeOK
    BY DEF Clear, IInv, ExecInv
  <1>2. /\ connTask' = [connTask EXCEPT ![exec[i].conn] = 0]
        /\ exec' = [exec EXCEPT ![i] = NoThread]
        /\ UNCHANGED <<init, open, lastId, tasks, task, hpc, hq, hc, lock,
                       failed, fetched, returned>>
    BY DEF Clear, poolVars, taskVars, handlerVars, histVars
  <1>3. /\ \A j \in Ids : exec[j].conn \in Conns
        /\ 0 \in 0..MaxId /\ 1 \in Conns
    BY <1>1, ListFacts, CountAssumption DEF TypeOK, Conns
  <1>4. /\ exec'[i].pc = "none"
        /\ \A j \in Ids : j # i => exec'[j] = exec[j]
        /\ exec' \in [Ids -> [pc : {"none", "query", "store", "mark", "clear"},
                              conn : Conns]]
    <2>1. NoThread \in [pc : {"none", "query", "store", "mark", "clear"}, conn : Conns]
      BY <1>3 DEF NoThread
    <2> QED BY <1>1, <1>2, <2>1 DEF TypeOK, NoThread
  <1>5. /\ connTask' \in [Conns -> 0..MaxId]
        /\ \A d \in Conns : d # exec[i].conn => connTask'[d] = connTask[d]
    BY <1>1, <1>2, <1>3 DEF TypeOK
  <1>6. TypeOK'
    BY <1>1, <1>2, <1>4, <1>5 DEF TypeOK
  <1>7. Listed' = Listed
    BY <1>2 DEF Listed
  <1>8. ListInv' /\ WalkInv'
    BY <1>2 DEF IInv, ListInv, WalkInv
  <1>9. ExecInv'
    <2>1. \A j \in Ids : j # i /\ exec[j].pc # "none" => exec[j].conn # exec[i].conn
      BY <1>1 DEF IInv, ExecInv
    <2> QED BY <1>2, <1>3, <1>4, <1>5, <1>7, <2>1 DEF IInv, ExecInv, Unmarked
  <1>10. ResultInv'
    BY <1>2, <1>4, <1>7 DEF IInv, ResultInv
  <1>11. ResultIsOwn'
    BY <1>2 DEF IInv, ResultIsOwn
  <1> QED BY <1>6, <1>8, <1>9, <1>10, <1>11 DEF IInv

-----------------------------------------------------------------------------
(* The theorems *)

LEMMA InitHolds == Init => IInv
  <1> SUFFICES ASSUME Init
               PROVE  IInv
    OBVIOUS
  <1>1. /\ ConnectionCount \in Nat /\ ConnectionCount >= 1 /\ MaxId \in Nat
    BY CountAssumption
  <1>2. /\ tasks = <<>> /\ Len(tasks) = 0 /\ tasks \in Seq(Ids) /\ Listed = {}
    BY DEF Init, Listed
  <1>3. TypeOK
    <2>1. /\ NoTask \in [started : BOOLEAN, done : BOOLEAN, save : BOOLEAN,
                         result : 0..MaxId]
          /\ NoThread \in [pc : {"none", "query", "store", "mark", "clear"},
                           conn : Conns]
      BY <1>1 DEF NoTask, NewTask, NoThread, Conns
    <2>2. 0 \in 0..MaxId /\ 0 \in 0..ConnectionCount /\ 1 \in 1..(MaxId + 1)
          /\ 1 \in 1..(ConnectionCount + 1)
      BY <1>1
    <2> QED BY <1>2, <2>1, <2>2 DEF Init, TypeOK
  <1>4. ListInv /\ WalkInv
    BY <1>2 DEF Init, ListInv, WalkInv
  <1>5. \A i \in Ids : /\ task[i].result = 0 /\ ~task[i].done /\ exec[i].pc = "none"
                       /\ i \notin failed /\ i \notin fetched
    BY DEF Init, NoTask, NewTask, NoThread
  <1>6. ExecInv /\ ResultInv
    BY <1>2, <1>5 DEF ExecInv, ResultInv, Unmarked
  <1>7. ResultIsOwn
    BY DEF Init, ResultIsOwn
  <1> QED BY <1>3, <1>4, <1>6, <1>7 DEF IInv

LEMMA NextKeeps == IInv /\ [Next]_vars => IInv'
  <1> SUFFICES ASSUME IInv, [Next]_vars
               PROVE  IInv'
    OBVIOUS
  <1>1. CASE Initializer
    BY <1>1, InitializerKeeps
  <1>2. CASE Handler
    BY <1>2, WakeKeeps, WalkEndsKeeps, WalkSkipsKeeps, WalkStartsKeeps DEF Handler
  <1>3. ASSUME NEW save \in BOOLEAN, CreateQuery(save) PROVE IInv'
    BY <1>3, CreateQueryKeeps
  <1>4. ASSUME NEW n \in 1..Len(tasks), GetResultAndFree(n) PROVE IInv'
    BY <1>4, GetResultAndFreeKeeps
  <1>5. ASSUME NEW i \in Ids, Executor(i) PROVE IInv'
    BY <1>5, QueryKeeps, StoreKeeps, MarkKeeps, ClearKeeps DEF Executor
  <1>6. CASE UNCHANGED vars
    <2>1. TypeOK' /\ WalkInv'
      BY <1>6 DEF IInv, TypeOK, WalkInv, vars, poolVars, taskVars, handlerVars, histVars
    <2>2. UNCHANGED <<tasks, lastId, task, exec, failed, fetched, returned, connTask>>
      BY <1>6 DEF vars, poolVars, taskVars, handlerVars, histVars
    <2> QED BY <2>1, <2>2, QuietKeeps
  <1> QED BY <1>1, <1>2, <1>3, <1>4, <1>5, <1>6 DEF Next

\* The inductive invariant holds in every state.
THEOREM Invariant == Spec => []IInv
  <1>1. Init => IInv
    BY InitHolds
  <1>2. IInv /\ [Next]_vars => IInv'
    BY NextKeeps
  <1> QED BY <1>1, <1>2, PTL DEF Spec

\* However many queries, connections and threads there are: queries are started in
\* the order of their creation, and the thread of a query reaches only its own task,
\* which the game thread has not freed (mysql_async_execute_query against
\* mysql_async_getresult_and_free).
THEOREM TasksAreSound == Spec => []TasksSound
  <1>1. IInv => TasksSound
    <2> SUFFICES ASSUME IInv
                 PROVE  TasksSound
      OBVIOUS
    <2>1. TypeOK /\ StartedInOrder
      BY DEF IInv, ListInv, StartedInOrder
    <2>2. NoUseAfterFree
      <3> SUFFICES ASSUME NEW i \in Ids, exec[i].pc \in {"query", "store", "mark"}
                   PROVE  Own(i) = i /\ InList(i)
        BY DEF NoUseAfterFree
      <3>1. exec[i].pc \in Unmarked
        BY DEF Unmarked
      <3>2. Own(i) = i /\ i \in Listed
        BY <3>1, OwnFacts
      <3> QED BY <2>1, <3>2, ListFacts
    <2> QED BY <2>1, <2>2 DEF TasksSound
  <1> QED BY <1>1, Invariant, PTL

\* A connection has one thread at a time, and what a script is given for a query is
\* what that query stored: never another's result, nor one of a query that failed.
THEOREM ResultsAreOwn == Spec => []ResultsNotMixed
  <1>1. IInv => ResultsNotMixed
    <2> SUFFICES ASSUME IInv
                 PROVE  ResultsNotMixed
      OBVIOUS
    <2>1. ConnectionNotShared
      BY DEF IInv, ExecInv, ConnectionNotShared, Executing
    <2> QED BY <2>1 DEF IInv, ResultsNotMixed
  <1> QED BY <1>1, Invariant, PTL

-----------------------------------------------------------------------------
(* JsonSaves: the invariant *)

Job == [kind : {"save", "load"}, path : Paths, version : Nat,
        status : {"pending", "done", "error"}, superseded : BOOLEAN, ok : BOOLEAN,
        doc : Nat, bytes : {0, 1}]
AtWork == {"working", "renaming", "written", "failed"}
Unwritten == {"working", "renaming"}

TypeInv ==
    /\ nextId \in 1..(MaxJobs + 1) /\ version \in Nat
    /\ DOMAIN jobs \subseteq 1..(nextId - 1)
    /\ jobs \in [DOMAIN jobs -> Job]
    /\ \A id \in DOMAIN jobs : jobs[id].version <= version /\ jobs[id].doc <= version
    /\ worker \in [JobIds -> {"none", "gone"} \cup AtWork]
    /\ file \in [Paths -> 0..version] /\ saved \in [Paths -> 0..version]
    /\ phase \in {"running", "quitting", "exited"}

\* A worker has its job as long as it runs, and only saves are written.
WorkInv ==
    \A id \in JobIds :
      /\ worker[id] \in AtWork => id \in DOMAIN jobs /\ Pending(id)
      /\ worker[id] \in AtWork \ {"working"} => IsSave(id)
      /\ id >= nextId => worker[id] = "none"

\* Saves are numbered in the order of their jobs. What is not written yet is newer
\* than the file, unless it is marked as superseded: then the file is newer.
SaveInv ==
    /\ \A j, k \in DOMAIN jobs :
         IsSave(j) /\ IsSave(k) /\ j < k => jobs[j].version < jobs[k].version
    /\ \A j \in DOMAIN jobs : IsSave(j) =>
         /\ worker[j] \in Unwritten /\ ~jobs[j].superseded =>
              file[jobs[j].path] < jobs[j].version
         /\ jobs[j].superseded \/ worker[j] = "written" =>
              file[jobs[j].path] >= jobs[j].version

Bounded(list) == /\ Cardinality(Counted(list)) <= MaxPending
                 /\ Cardinality(Held(list)) <= HeldLoads

SavesIInv == TypeInv /\ WorkInv /\ SaveInv /\ Bounded(jobs) /\ NewestStays

\* What is left of the list: some jobs are gone, none of them pending.
Kept(list) == /\ DOMAIN list \subseteq DOMAIN jobs
              /\ list = [j \in DOMAIN list |-> jobs[j]]
              /\ \A j \in DOMAIN jobs : Pending(j) => j \in DOMAIN list

-----------------------------------------------------------------------------
(* Sizes *)

LEMMA Bounds ==
  /\ MaxPending \in Nat /\ MaxPending >= 1 /\ HeldLoads \in Nat /\ HeldLoads >= 1
  /\ MaxJobs \in Nat /\ MaxVersion \in Nat
  BY SavesAssumption

LEMMA Finite ==
  ASSUME TypeInv
  PROVE  /\ DOMAIN jobs \subseteq JobIds /\ nextId \in Nat
         /\ IsFiniteSet(DOMAIN jobs)
  <1>1. nextId \in Nat /\ nextId - 1 \in Int /\ nextId - 1 <= MaxJobs
    BY Bounds DEF TypeInv
  <1>2. IsFiniteSet(1..(nextId - 1))
    BY <1>1, FS_Interval
  <1> QED BY <1>1, <1>2, FS_Subset, Bounds DEF TypeInv, JobIds

\* A list that counts no more jobs than the present one is within the limits.
LEMMA FewerBounded ==
  ASSUME SavesIInv, NEW list, Counted(list) \subseteq Counted(jobs), Held(list) \subseteq Held(jobs)
  PROVE  Bounded(list)
  <1>1. IsFiniteSet(Counted(jobs))
    BY Finite, FS_Subset DEF SavesIInv, Counted
  <1>2. IsFiniteSet(Held(jobs))
    BY <1>1, FS_Subset DEF Held
  <1>3. /\ Cardinality(Counted(list)) <= Cardinality(Counted(jobs))
        /\ Cardinality(Held(list)) <= Cardinality(Held(jobs))
    BY <1>1, <1>2, FS_Subset
  <1>4. IsFiniteSet(Counted(list)) /\ IsFiniteSet(Held(list))
    BY <1>1, <1>2, FS_Subset
  <1>5. /\ Cardinality(Counted(list)) \in Nat /\ Cardinality(Counted(jobs)) \in Nat
        /\ Cardinality(Held(list)) \in Nat /\ Cardinality(Held(jobs)) \in Nat
    BY <1>1, <1>2, <1>4, FS_CardinalityType
  <1> QED BY <1>3, <1>5, Bounds DEF SavesIInv, Bounded

LEMMA KeptCounts ==
  ASSUME NEW list, Kept(list)
  PROVE  Counted(list) \subseteq Counted(jobs) /\ Held(list) \subseteq Held(jobs)
  <1>1. \A j \in DOMAIN list : list[j] = jobs[j] /\ j \in DOMAIN jobs
    BY DEF Kept
  <1> QED BY <1>1 DEF Counted, Held

\* One more job, added to a list that is not full.
LEMMA WithBounded ==
  ASSUME SavesIInv, NEW list, Kept(list), NEW id, id \notin DOMAIN list,
         NEW kind, NEW path, NEW v, NEW bytes \in {0, 1}, ~Full(list, bytes)
  PROVE  Bounded(With(list, id, NewJob(kind, path, v, bytes)))
  <1> DEFINE more == With(list, id, NewJob(kind, path, v, bytes))
  <1>1. /\ DOMAIN more = DOMAIN list \cup {id}
        /\ \A j \in DOMAIN list : more[j] = list[j]
        /\ more[id].bytes = bytes
    BY DEF With, NewJob
  <1>2. /\ Counted(more) \subseteq Counted(list) \cup {id}
        /\ Held(more) \subseteq Held(list) \cup {id}
        /\ bytes = 0 => Held(more) \subseteq Held(list)
    BY <1>1 DEF Counted, Held
  <1>3. IsFiniteSet(Counted(list)) /\ IsFiniteSet(Held(list))
    <2>1. IsFiniteSet(Counted(jobs))
      BY Finite, FS_Subset DEF SavesIInv, Counted
    <2>2. IsFiniteSet(Counted(list))
      BY <2>1, KeptCounts, FS_Subset
    <2> QED BY <2>2, FS_Subset DEF Held
  <1>4. Bounded(list)
    BY KeptCounts, FewerBounded
  <1> HIDE DEF more
  <1>5. Cardinality(Counted(more)) <= MaxPending
    <2>1. /\ IsFiniteSet(Counted(list) \cup {id})
          /\ Cardinality(Counted(list) \cup {id}) \in
               {Cardinality(Counted(list)), Cardinality(Counted(list)) + 1}
      BY <1>3, FS_AddElement
    <2>2. /\ IsFiniteSet(Counted(more))
          /\ Cardinality(Counted(more)) <= Cardinality(Counted(list) \cup {id})
      BY <1>2, <2>1, FS_Subset
    <2>3. /\ Cardinality(Counted(list)) \in Nat /\ Cardinality(Counted(more)) \in Nat
      BY <1>3, <2>2, FS_CardinalityType
    <2>4. ~(Cardinality(Counted(list)) >= MaxPending)
      BY DEF Full
    <2> QED BY <2>1, <2>2, <2>3, <2>4, Bounds
  <1>6. Cardinality(Held(more)) <= HeldLoads
    <2>1. /\ IsFiniteSet(Held(list) \cup {id})
          /\ Cardinality(Held(list) \cup {id}) \in
               {Cardinality(Held(list)), Cardinality(Held(list)) + 1}
      BY <1>3, FS_AddElement
    <2>2. /\ IsFiniteSet(Held(more))
          /\ Cardinality(Held(more)) <= Cardinality(Held(list) \cup {id})
          /\ bytes = 0 => Cardinality(Held(more)) <= Cardinality(Held(list))
      BY <1>2, <1>3, <2>1, FS_Subset
    <2>3. Cardinality(Held(list)) \in Nat /\ Cardinality(Held(more)) \in Nat
      BY <1>3, <2>2, FS_CardinalityType
    <2>4. CASE bytes = 0
      BY <1>4, <2>2, <2>3, <2>4, Bounds DEF Bounded
    <2>5. CASE bytes = 1
      <3>1. ~(Cardinality(Held(list)) >= HeldLoads)
        BY <2>5 DEF Full
      <3> QED BY <2>1, <2>2, <2>3, <3>1, Bounds
    <2> QED BY <2>4, <2>5
  <1> QED BY <1>5, <1>6 DEF Bounded, more

-----------------------------------------------------------------------------
(* The script *)

LEMMA WithoutKept ==
  ASSUME SavesIInv, NEW ids, \A id \in ids : id \in DOMAIN jobs => ~Pending(id)
  PROVE  Kept(Without(jobs, ids))
  BY DEF Kept, Without, Restrict

LEMMA TrimmedKept ==
  ASSUME SavesIInv
  PROVE  Kept(Trimmed)
  <1> DEFINE done == {id \in DOMAIN jobs : IsSave(id) /\ ~Pending(id)}
             ids == {id \in done : Cardinality({n \in done : n >= id}) > KeepSaves}
  <1>1. \A id \in ids : ~Pending(id)
    OBVIOUS
  <1>2. Trimmed = Without(jobs, ids)
    BY DEF Trimmed
  <1> HIDE DEF ids
  <1> QED BY <1>1, <1>2, WithoutKept

\* Jobs that are over may go.
LEMMA KeptKeeps ==
  ASSUME SavesIInv, Kept(jobs'), UNCHANGED <<nextId, worker, version, file, saved, phase>>
  PROVE  SavesIInv'
  <1>1. /\ DOMAIN jobs' \subseteq DOMAIN jobs
        /\ jobs' = [j \in DOMAIN jobs' |-> jobs[j]]
        /\ \A j \in DOMAIN jobs' : jobs'[j] = jobs[j]
        /\ \A j \in DOMAIN jobs : jobs[j].status = "pending" => j \in DOMAIN jobs'
    BY DEF Kept, Pending
  <1>2. TypeInv'
    <2>1. \A j \in DOMAIN jobs : jobs[j] \in Job
      BY DEF SavesIInv, TypeInv
    <2>2. jobs' \in [DOMAIN jobs' -> Job]
      BY <1>1, <2>1
    <2> QED BY <1>1, <2>2 DEF SavesIInv, TypeInv
  <1>3. WorkInv'
    BY <1>1 DEF SavesIInv, WorkInv, Pending, IsSave, AtWork
  <1>4. SaveInv'
    BY <1>1 DEF SavesIInv, SaveInv, IsSave
  <1>5. Bounded(jobs)'
    <2>1. Bounded(jobs')
      BY KeptCounts, FewerBounded
    <2> QED BY <2>1 DEF Bounded, Counted, Held
  <1>6. NewestStays'
    BY DEF SavesIInv, NewestStays
  <1> QED BY <1>2, <1>3, <1>4, <1>5, <1>6 DEF SavesIInv

\* A job joins the list: a save with the next number, or a load.
LEMMA SubmitKeeps ==
  ASSUME SavesIInv, NEW list, Kept(list), NEW kind \in {"save", "load"}, NEW path \in Paths,
         NEW v \in Nat, NEW bytes \in {0, 1}, ~Full(list, bytes),
         Submit(list, kind, path, v, bytes), UNCHANGED <<file, saved, phase>>,
         version' \in Nat, version' >= version, v <= version',
         kind = "save" => v > version
  PROVE  SavesIInv'
  <1> DEFINE id == nextId
             job == NewJob(kind, path, v, bytes)
  <1>1. /\ id \in JobIds /\ nextId' = id + 1
        /\ \/ jobs' = With(list, id, job) /\ worker' = [worker EXCEPT ![id] = "working"]
           \/ jobs' = list /\ worker' = worker
    BY DEF Submit
  <1>2. /\ DOMAIN list \subseteq DOMAIN jobs
        /\ \A j \in DOMAIN list : list[j] = jobs[j]
        /\ list = [j \in DOMAIN list |-> jobs[j]]
        /\ \A j \in DOMAIN jobs : Pending(j) => j \in DOMAIN list
    BY DEF Kept
  <1>3. /\ DOMAIN jobs \subseteq JobIds /\ id \in Nat /\ \A j \in DOMAIN jobs : j < id
        /\ \A j \in DOMAIN jobs : j \in Nat
    BY Finite, Bounds, SMTT(20) DEF SavesIInv, TypeInv, JobIds
  <1>4. id \notin DOMAIN list /\ id \notin DOMAIN jobs
    BY <1>2, <1>3
  <1>5. /\ TypeInv /\ \A j \in DOMAIN jobs : jobs[j] \in Job
        /\ version \in Nat
        /\ worker[id] = "none"
    BY <1>1, <1>3 DEF SavesIInv, TypeInv, WorkInv
  <1>6. /\ DOMAIN jobs' \subseteq DOMAIN list \cup {id} /\ DOMAIN list \subseteq DOMAIN jobs'
        /\ jobs' = [j \in DOMAIN jobs' |-> jobs'[j]]
        /\ \A j \in DOMAIN list : jobs'[j] = jobs[j]
        /\ id \in DOMAIN jobs' => jobs'[id] = job
        /\ worker'[id] # "none" => id \in DOMAIN jobs'
    <2>1. CASE jobs' = With(list, id, job) /\ worker' = [worker EXCEPT ![id] = "working"]
      BY <1>2, <1>4, <2>1 DEF With
    <2>2. CASE jobs' = list /\ worker' = worker
      BY <1>2, <1>4, <1>5, <2>2
    <2> QED BY <1>1, <2>1, <2>2
  <1>7. /\ worker' \in [JobIds -> {"none", "gone"} \cup AtWork]
        /\ worker'[id] \in {"none", "working"}
        /\ \A j \in JobIds : j # id => worker'[j] = worker[j]
    BY <1>1, <1>5 DEF TypeInv, AtWork
  <1>8. /\ job \in Job /\ job.kind = kind /\ job.version = v /\ job.doc = 0
        /\ job.superseded = FALSE /\ job.status = "pending" /\ job.path = path
    BY DEF NewJob, Job
  <1>9. Bounded(jobs')
    BY <1>1, <1>4, WithBounded, KeptCounts, FewerBounded
  <1> HIDE DEF id, job
  <1>10. \A j \in DOMAIN jobs' : (j \in DOMAIN list /\ j \in DOMAIN jobs /\ j < id) \/ j = id
    BY <1>2, <1>3, <1>6
  <1>11. TypeInv'
    <2>1. jobs' \in [DOMAIN jobs' -> Job]
      <3>1. \A j \in DOMAIN jobs' : jobs'[j] \in Job
        BY <1>2, <1>5, <1>6, <1>8, <1>10
      <3> QED BY <1>6, <3>1
    <2>2. \A j \in DOMAIN jobs' : jobs'[j].version <= version' /\ jobs'[j].doc <= version'
      <3> TAKE j \in DOMAIN jobs'
      <3>1. CASE j = id
        BY <1>6, <1>8, <3>1
      <3>2. CASE j \in DOMAIN list /\ j \in DOMAIN jobs
        <4>1. /\ jobs[j].version <= version /\ jobs[j].doc <= version
              /\ jobs[j].version \in Nat /\ jobs[j].doc \in Nat
          BY <1>5, <3>2 DEF TypeInv, Job
        <4> QED BY <1>5, <1>6, <3>2, <4>1
      <3> QED BY <1>10, <3>1, <3>2
    <2>3. DOMAIN jobs' \subseteq 1..(nextId' - 1) /\ nextId' \in 1..(MaxJobs + 1)
      BY <1>1, <1>3, <1>10, Bounds DEF JobIds
    <2>4. /\ file' \in [Paths -> 0..version'] /\ saved' \in [Paths -> 0..version']
          /\ phase' \in {"running", "quitting", "exited"}
      <3>1. \A n \in 0..version : n \in 0..version'
        BY <1>5
      <3> QED BY <1>5, <3>1 DEF TypeInv
    <2> QED BY <1>7, <2>1, <2>2, <2>3, <2>4 DEF TypeInv
  <1>12. WorkInv'
    <2> SUFFICES ASSUME NEW j \in JobIds
                 PROVE  /\ worker'[j] \in AtWork =>
                             j \in DOMAIN jobs' /\ jobs'[j].status = "pending"
                        /\ worker'[j] \in AtWork \ {"working"} => jobs'[j].kind = "save"
                        /\ j >= nextId' => worker'[j] = "none"
      BY DEF WorkInv, Pending, IsSave
    <2>1. CASE j = id
      BY <1>1, <1>3, <1>6, <1>7, <1>8, <2>1 DEF AtWork
    <2>2. CASE j # id
      <3>1. /\ worker[j] \in AtWork => j \in DOMAIN jobs /\ Pending(j)
            /\ worker[j] \in AtWork \ {"working"} => IsSave(j)
            /\ j >= id => worker[j] = "none"
            /\ j \in Nat
        BY DEF SavesIInv, WorkInv, id, JobIds
      <3>2. worker'[j] = worker[j]
        BY <1>7, <2>2
      <3>3. j >= nextId' => j >= id
        BY <1>1, <1>3, <3>1
      <3> QED BY <1>2, <1>6, <3>1, <3>2, <3>3 DEF Pending, IsSave
    <2> QED BY <2>1, <2>2
  <1>13. SaveInv'
    <2>1. ASSUME NEW j \in DOMAIN jobs', NEW k \in DOMAIN jobs',
                 jobs'[j].kind = "save", jobs'[k].kind = "save", j < k
          PROVE  jobs'[j].version < jobs'[k].version
      <3>1. j \in DOMAIN list /\ j \in DOMAIN jobs /\ j < id
        BY <1>3, <1>10, <2>1
      <3>2. CASE k = id
        <4>1. jobs[j].version <= version /\ jobs[j].version \in Nat
          BY <1>5, <3>1 DEF TypeInv, Job
        <4>2. v > version
          BY <1>6, <1>8, <2>1, <3>2
        <4> QED BY <1>5, <1>6, <1>8, <2>1, <3>1, <3>2, <4>1, <4>2
      <3>3. CASE k \in DOMAIN list /\ k \in DOMAIN jobs
        BY <1>6, <2>1, <3>1, <3>3 DEF SavesIInv, SaveInv, IsSave
      <3> QED BY <1>10, <3>2, <3>3
    <2>2. ASSUME NEW j \in DOMAIN jobs', jobs'[j].kind = "save"
          PROVE  /\ worker'[j] \in Unwritten /\ ~jobs'[j].superseded =>
                      file[jobs'[j].path] < jobs'[j].version
                 /\ jobs'[j].superseded \/ worker'[j] = "written" =>
                      file[jobs'[j].path] >= jobs'[j].version
      <3>1. CASE j = id
        <4>1. file[path] <= version /\ file[path] \in Nat
          BY <1>5 DEF TypeInv
        <4> QED BY <1>5, <1>6, <1>7, <1>8, <2>2, <3>1, <4>1
      <3>2. CASE j \in DOMAIN list /\ j \in DOMAIN jobs /\ j < id
        <4>1. j \in JobIds /\ j # id
          BY <1>3, <3>2
        <4> QED BY <1>6, <1>7, <2>2, <3>2, <4>1 DEF SavesIInv, SaveInv, IsSave
      <3> QED BY <1>10, <3>1, <3>2
    <2> QED BY <2>1, <2>2 DEF SaveInv, IsSave
  <1>14. Bounded(jobs)' /\ NewestStays'
    BY <1>9 DEF Bounded, Counted, Held, SavesIInv, NewestStays
  <1> QED BY <1>11, <1>12, <1>13, <1>14 DEF SavesIInv

LEMMA SaveAsyncKeeps ==
  ASSUME SavesIInv, NEW p \in Paths, SaveAsync(p)
  PROVE  SavesIInv'
  <1>1. Kept(Trimmed) /\ version \in Nat
    BY TrimmedKept DEF SavesIInv, TypeInv
  <1>2. CASE /\ ~Full(Trimmed, 0) /\ version' = version + 1
             /\ Submit(Trimmed, "save", p, version + 1, 0)
    <2>1. UNCHANGED <<file, saved, phase>>
      BY DEF SaveAsync
    <2>2. /\ version' \in Nat /\ version' >= version /\ version + 1 <= version'
          /\ version + 1 \in Nat /\ version + 1 > version
      BY <1>1, <1>2
    <2> QED BY <1>1, <1>2, <2>1, <2>2, SubmitKeeps
  <1>3. CASE jobs' = Trimmed /\ UNCHANGED <<nextId, worker, version>>
    BY <1>1, <1>3, KeptKeeps DEF SaveAsync
  <1> QED BY <1>2, <1>3 DEF SaveAsync

LEMMA LoadAsyncKeeps ==
  ASSUME SavesIInv, NEW p \in Paths, LoadAsync(p)
  PROVE  SavesIInv'
  <1> DEFINE bytes == IF file[p] = 0 THEN 0 ELSE 1
  <1>1. /\ ~Full(jobs, bytes) /\ Submit(jobs, "load", p, 0, bytes)
        /\ UNCHANGED <<version, file, saved, phase>>
    BY DEF LoadAsync
  <1>2. Kept(jobs) /\ bytes \in {0, 1} /\ version \in Nat
    BY DEF SavesIInv, TypeInv, Kept
  <1> HIDE DEF bytes
  <1>3. version' \in Nat /\ version' >= version /\ 0 <= version' /\ 0 \in Nat
    BY <1>1, <1>2
  <1> QED BY <1>1, <1>2, <1>3, SubmitKeeps

LEMMA ScriptDropsKeep ==
  ASSUME SavesIInv, Done \/ LevelLoad \/ \E id \in JobIds : Result(id)
  PROVE  SavesIInv'
  <1>1. UNCHANGED <<nextId, worker, version, file, saved, phase>>
    BY DEF Done, LevelLoad, Result
  <1>2. CASE Done
    BY <1>1, <1>2, TrimmedKept, KeptKeeps DEF Done
  <1>3. CASE LevelLoad
    <2>1. Kept(Without(jobs, Reaped))
      BY WithoutKept DEF Reaped
    <2> QED BY <1>1, <1>3, <2>1, KeptKeeps DEF LevelLoad
  <1>4. ASSUME NEW id \in JobIds, Result(id) PROVE SavesIInv'
    <2>1. Kept(Without(jobs, {id}))
      BY <1>4, WithoutKept DEF Result
    <2> QED BY <1>1, <1>4, <2>1, KeptKeeps DEF Result
  <1> QED BY <1>2, <1>3, <1>4

-----------------------------------------------------------------------------
(* What is written *)

\* Marking jobs as superseded changes nothing else of them.
LEMMA SupersededFacts ==
  ASSUME SavesIInv, NEW ids, jobs' = Superseded(ids)
  PROVE  /\ DOMAIN jobs' = DOMAIN jobs /\ jobs' \in [DOMAIN jobs -> Job]
         /\ \A j \in DOMAIN jobs :
              /\ jobs'[j].kind = jobs[j].kind /\ jobs'[j].path = jobs[j].path
              /\ jobs'[j].version = jobs[j].version /\ jobs'[j].status = jobs[j].status
              /\ jobs'[j].doc = jobs[j].doc /\ jobs'[j].bytes = jobs[j].bytes
              /\ jobs'[j].superseded = (j \in ids \/ jobs[j].superseded)
         /\ Counted(jobs') = Counted(jobs) /\ Held(jobs') = Held(jobs)
  <1>1. DOMAIN jobs' = DOMAIN jobs
    BY DEF Superseded
  <1>2. \A j \in DOMAIN jobs :
          /\ jobs[j] \in Job
          /\ jobs'[j] = IF j \in ids THEN [jobs[j] EXCEPT !.superseded = TRUE] ELSE jobs[j]
    BY DEF Superseded, SavesIInv, TypeInv
  <1>3. ASSUME NEW j \in DOMAIN jobs
        PROVE  /\ jobs'[j] \in Job
               /\ jobs'[j].kind = jobs[j].kind /\ jobs'[j].path = jobs[j].path
               /\ jobs'[j].version = jobs[j].version /\ jobs'[j].status = jobs[j].status
               /\ jobs'[j].doc = jobs[j].doc /\ jobs'[j].bytes = jobs[j].bytes
               /\ jobs'[j].superseded = (j \in ids \/ jobs[j].superseded)
    <2>1. CASE j \in ids
      <3>1. jobs'[j] = [jobs[j] EXCEPT !.superseded = TRUE] /\ jobs[j] \in Job
        BY <1>2, <2>1
      <3>2. jobs[j].superseded \in BOOLEAN
        BY <3>1 DEF Job
      <3> QED BY <2>1, <3>1, <3>2 DEF Job
    <2>2. CASE j \notin ids
      <3>1. jobs'[j] = jobs[j] /\ jobs[j] \in Job
        BY <1>2, <2>2
      <3> QED BY <2>2, <3>1 DEF Job
    <2> QED BY <2>1, <2>2
  <1>4. jobs' \in [DOMAIN jobs -> Job]
    <2>1. jobs' = [j \in DOMAIN jobs |-> jobs'[j]]
      BY DEF Superseded
    <2> QED BY <1>3, <2>1
  <1>5. Counted(jobs') = Counted(jobs)
    BY <1>1, <1>3 DEF Counted
  <1>6. Held(jobs') = Held(jobs)
    BY <1>3, <1>5 DEF Held, Counted
  <1> QED BY <1>1, <1>3, <1>4, <1>5, <1>6

\* A newer save takes its place in the file, and the older ones not yet written are
\* marked.
LEMMA PlacedKeeps ==
  ASSUME SavesIInv, NEW p \in Paths, NEW v \in Nat, NEW id \in Nat,
         file[p] < v,
         version' \in Nat, version' >= version, v <= version',
         \A j \in DOMAIN jobs : IsSave(j) /\ j < id => jobs[j].version < v,
         \A j \in DOMAIN jobs : IsSave(j) /\ Pending(j) /\ jobs[j].path = p =>
           j < id \/ jobs[j].version > v \/ (jobs[j].version = v /\ worker'[j] = "written"),
         file' = [file EXCEPT ![p] = v], jobs' = Superseded(Older(p, id)),
         saved' = saved \/ saved' = [saved EXCEPT ![p] = v],
         UNCHANGED <<nextId, phase>>,
         worker' = worker \/ \E j \in JobIds :
           /\ worker[j] = "renaming" /\ worker' = [worker EXCEPT ![j] = "written"]
           /\ jobs[j].path = p /\ jobs[j].version = v
  PROVE  SavesIInv'
  <1> DEFINE old == Older(p, id)
  <1>1. /\ DOMAIN jobs' = DOMAIN jobs /\ jobs' \in [DOMAIN jobs -> Job]
        /\ \A j \in DOMAIN jobs :
             /\ jobs'[j].kind = jobs[j].kind /\ jobs'[j].path = jobs[j].path
             /\ jobs'[j].version = jobs[j].version /\ jobs'[j].status = jobs[j].status
             /\ jobs'[j].doc = jobs[j].doc /\ jobs'[j].bytes = jobs[j].bytes
             /\ jobs'[j].superseded = (j \in old \/ jobs[j].superseded)
        /\ Counted(jobs') = Counted(jobs) /\ Held(jobs') = Held(jobs)
    BY SupersededFacts
  <1>2. /\ TypeInv /\ version \in Nat
        /\ \A j \in DOMAIN jobs : /\ jobs[j].version \in Nat /\ jobs[j].doc \in Nat
                                 /\ jobs[j].path \in Paths /\ j \in JobIds
        /\ \A q \in Paths : file[q] \in Nat /\ file[q] <= version
    BY Finite DEF SavesIInv, TypeInv, Job
  <1>3. /\ worker' \in [JobIds -> {"none", "gone"} \cup AtWork]
        /\ \A j \in JobIds : \/ worker'[j] = worker[j]
                          \/ /\ worker[j] = "renaming" /\ worker'[j] = "written"
                             /\ jobs[j].path = p /\ jobs[j].version = v
    BY <1>2 DEF TypeInv, AtWork
  <1>4. /\ file'[p] = v /\ \A q \in Paths : file'[q] >= file[q]
        /\ file' \in [Paths -> 0..version']
        /\ \A q \in Paths : q # p => file'[q] = file[q]
    BY <1>2 DEF TypeInv
  <1>5. /\ saved' \in [Paths -> 0..version']
        /\ \A q \in Paths : saved'[q] <= file'[q]
    <2>1. \A q \in Paths : saved[q] \in Nat /\ saved[q] <= file[q] /\ saved[q] <= version
      BY <1>2 DEF SavesIInv, TypeInv, NewestStays
    <2>2. CASE saved' = saved
      <3>1. \A n \in 0..version : n \in 0..version'
        BY <1>2
      <3> QED BY <1>2, <1>4, <2>1, <2>2, <3>1 DEF TypeInv
    <2>3. CASE saved' = [saved EXCEPT ![p] = v]
      <3>1. v \in 0..version' /\ \A n \in 0..version : n \in 0..version'
        BY <1>2
      <3>2. saved' \in [Paths -> 0..version']
        BY <1>2, <2>3, <3>1 DEF TypeInv
      <3>3. \A q \in Paths : saved'[q] = IF q = p THEN v ELSE saved[q]
        BY <1>2, <2>3 DEF TypeInv
      <3> QED BY <1>2, <1>4, <2>1, <3>2, <3>3
    <2> QED BY <2>2, <2>3
  <1>6. TypeInv'
    <2>1. \A j \in DOMAIN jobs' : jobs'[j].version <= version' /\ jobs'[j].doc <= version'
      BY <1>1, <1>2 DEF TypeInv
    <2> QED BY <1>1, <1>2, <1>3, <1>4, <1>5, <2>1 DEF TypeInv
  <1>7. WorkInv'
    <2> SUFFICES ASSUME NEW j \in JobIds
                 PROVE  /\ worker'[j] \in AtWork =>
                             j \in DOMAIN jobs' /\ jobs'[j].status = "pending"
                        /\ worker'[j] \in AtWork \ {"working"} => jobs'[j].kind = "save"
                        /\ j >= nextId => worker'[j] = "none"
      BY DEF WorkInv, Pending, IsSave
    <2>1. /\ worker[j] \in AtWork => j \in DOMAIN jobs /\ Pending(j)
          /\ worker[j] \in AtWork \ {"working"} => IsSave(j)
          /\ j >= nextId => worker[j] = "none"
      BY DEF SavesIInv, WorkInv
    <2> QED BY <1>1, <1>3, <2>1 DEF Pending, IsSave, AtWork
  <1>8. SaveInv'
    <2>1. \A j, k \in DOMAIN jobs' :
            jobs'[j].kind = "save" /\ jobs'[k].kind = "save" /\ j < k =>
              jobs'[j].version < jobs'[k].version
      BY <1>1 DEF SavesIInv, SaveInv, IsSave
    <2>2. ASSUME NEW j \in DOMAIN jobs, jobs[j].kind = "save"
          PROVE  /\ worker'[j] \in Unwritten /\ ~jobs'[j].superseded =>
                      file'[jobs[j].path] < jobs[j].version
                 /\ jobs'[j].superseded \/ worker'[j] = "written" =>
                      file'[jobs[j].path] >= jobs[j].version
      <3>1. /\ worker[j] \in Unwritten /\ ~jobs[j].superseded =>
                 file[jobs[j].path] < jobs[j].version
            /\ jobs[j].superseded \/ worker[j] = "written" =>
                 file[jobs[j].path] >= jobs[j].version
        BY <2>2 DEF SavesIInv, SaveInv, IsSave
      <3>2. worker'[j] = worker[j] \/ (worker[j] = "renaming" /\ worker'[j] = "written"
                                       /\ jobs[j].path = p /\ jobs[j].version = v)
        BY <1>2, <1>3
      <3>3. jobs'[j].superseded \/ worker'[j] = "written" =>
              file'[jobs[j].path] >= jobs[j].version
        <4>1. CASE jobs[j].superseded \/ worker[j] = "written"
          BY <1>2, <1>4, <3>1, <4>1
        <4>2. CASE j \in old
          <5>1. j < id /\ IsSave(j) /\ jobs[j].path = p
            BY <4>2 DEF Older
          <5> QED BY <1>2, <1>4, <5>1
        <4>3. CASE jobs[j].path = p /\ jobs[j].version = v
          BY <1>4, <4>3
        <4> QED BY <1>1, <3>2, <4>1, <4>2, <4>3
      <3>4. ASSUME worker'[j] \in Unwritten, ~jobs'[j].superseded
            PROVE  file'[jobs[j].path] < jobs[j].version
        <4>1. worker[j] \in Unwritten /\ ~jobs[j].superseded /\ j \notin old
          BY <1>1, <3>2, <3>4 DEF Unwritten
        <4>2. CASE jobs[j].path # p
          BY <1>2, <1>4, <3>1, <4>1, <4>2
        <4>3. CASE jobs[j].path = p
          <5>1. Pending(j)
            BY <1>2, <4>1 DEF SavesIInv, WorkInv, AtWork, Unwritten
          <5>2. ~(j < id)
            BY <2>2, <4>1, <4>3, <5>1 DEF Older, IsSave
          <5>3. worker'[j] # "written"
            BY <3>4 DEF Unwritten
          <5>4. jobs[j].version > v
            BY <2>2, <4>3, <5>1, <5>2, <5>3 DEF IsSave
          <5> QED BY <1>2, <1>4, <4>3, <5>4
        <4> QED BY <4>2, <4>3
      <3> QED BY <3>3, <3>4
    <2> QED BY <1>1, <2>1, <2>2 DEF SaveInv, IsSave
  <1>9. Bounded(jobs)'
    <2>1. Bounded(jobs')
      BY <1>1 DEF SavesIInv, Bounded
    <2> QED BY <2>1 DEF Bounded, Counted, Held
  <1>10. NewestStays'
    <2>1. \A q \in Paths : file'[q] \in Nat /\ saved'[q] \in Nat
      BY <1>4, <1>5
    <2> QED BY <1>5, <2>1 DEF NewestStays
  <1> QED BY <1>6, <1>7, <1>8, <1>9, <1>10 DEF SavesIInv

\* A step that only counts a save that failed, or takes the server down.
LEMMA IdleKeeps ==
  ASSUME SavesIInv, UNCHANGED <<jobs, nextId, worker, file, saved>>,
         version' \in Nat, version' >= version,
         phase' \in {"running", "quitting", "exited"}
  PROVE  SavesIInv'
  <1>1. /\ TypeInv /\ version \in Nat
        /\ \A j \in DOMAIN jobs : jobs[j].version \in Nat /\ jobs[j].doc \in Nat
    BY DEF SavesIInv, TypeInv, Job
  <1>2. \A n \in 0..version : n \in 0..version'
    BY <1>1
  <1>3. TypeInv'
    BY <1>1, <1>2 DEF TypeInv
  <1>4. WorkInv' /\ SaveInv'
    BY DEF SavesIInv, WorkInv, SaveInv, Pending, IsSave
  <1>5. Bounded(jobs)' /\ NewestStays'
    BY DEF SavesIInv, Bounded, Counted, Held, NewestStays
  <1> QED BY <1>3, <1>4, <1>5 DEF SavesIInv

LEMMA SaveKeeps ==
  ASSUME SavesIInv, NEW p \in Paths, Save(p)
  PROVE  SavesIInv'
  <1>1. /\ version \in Nat /\ version' = version + 1
        /\ UNCHANGED <<nextId, worker, phase>>
        /\ phase \in {"running", "quitting", "exited"}
    BY DEF Save, SavesIInv, TypeInv
  <1>2. CASE /\ file' = [file EXCEPT ![p] = version + 1]
             /\ saved' = [saved EXCEPT ![p] = version + 1]
             /\ jobs' = Superseded(Older(p, nextId))
    <2> DEFINE v == version + 1
    <2>1. /\ v \in Nat /\ nextId \in Nat /\ file[p] < v
          /\ version' \in Nat /\ version' >= version /\ v <= version'
      BY <1>1, Finite DEF SavesIInv, TypeInv
    <2>2. \A j \in DOMAIN jobs : j < nextId /\ jobs[j].version < v
      BY <1>1, Finite DEF SavesIInv, TypeInv, Job
    <2> HIDE DEF v
    <2>3. /\ file' = [file EXCEPT ![p] = v] /\ saved' = [saved EXCEPT ![p] = v]
      BY <1>2 DEF v
    <2> QED BY <1>1, <1>2, <2>1, <2>2, <2>3, PlacedKeeps
  <1>3. CASE UNCHANGED <<file, saved, jobs>>
    <2>1. version' \in Nat /\ version' >= version
      BY <1>1
    <2> QED BY <1>1, <1>3, <2>1, IdleKeeps
  <1> QED BY <1>2, <1>3 DEF Save

LEMMA ServerKeeps ==
  ASSUME SavesIInv, Quit \/ Exit \/ WaitedTooLong
  PROVE  SavesIInv'
  <1>1. /\ UNCHANGED <<jobs, nextId, worker, version, file, saved>>
        /\ phase' \in {"running", "quitting", "exited"}
    BY DEF Quit, Exit, WaitedTooLong
  <1>2. version' \in Nat /\ version' >= version
    BY <1>1 DEF SavesIInv, TypeInv
  <1> QED BY <1>1, <1>2, IdleKeeps

-----------------------------------------------------------------------------
(* The workers *)

\* Where a save's worker goes on to without touching its job.
LEMMA WorkerMoves ==
  ASSUME SavesIInv, NEW id \in JobIds, NEW at \in {"renaming", "written", "failed"},
         worker[id] \in Unwritten, IsSave(id),
         at = "written" => jobs[id].superseded,
         worker' = [worker EXCEPT ![id] = at],
         UNCHANGED <<jobs, nextId, version, file, saved, phase>>
  PROVE  SavesIInv'
  <1>1. /\ worker' \in [JobIds -> {"none", "gone"} \cup AtWork]
        /\ worker'[id] = at /\ \A j \in JobIds : j # id => worker'[j] = worker[j]
    BY DEF SavesIInv, TypeInv, AtWork
  <1>2. TypeInv'
    BY <1>1 DEF SavesIInv, TypeInv
  <1>3. WorkInv'
    BY <1>1 DEF SavesIInv, WorkInv, Pending, IsSave, AtWork, Unwritten
  <1>4. SaveInv'
    <2>1. DOMAIN jobs \subseteq JobIds
      BY Finite DEF SavesIInv
    <2>2. ASSUME NEW j \in DOMAIN jobs, IsSave(j)
          PROVE  /\ worker'[j] \in Unwritten /\ ~jobs[j].superseded =>
                      file[jobs[j].path] < jobs[j].version
                 /\ jobs[j].superseded \/ worker'[j] = "written" =>
                      file[jobs[j].path] >= jobs[j].version
      <3>1. /\ worker[j] \in Unwritten /\ ~jobs[j].superseded =>
                 file[jobs[j].path] < jobs[j].version
            /\ jobs[j].superseded \/ worker[j] = "written" =>
                 file[jobs[j].path] >= jobs[j].version
        BY <2>2 DEF SavesIInv, SaveInv
      <3>2. CASE j = id
        BY <1>1, <3>1, <3>2
      <3>3. CASE j # id
        BY <1>1, <2>1, <3>1, <3>3
      <3> QED BY <3>2, <3>3
    <2> QED BY <2>2 DEF SavesIInv, SaveInv, IsSave
  <1>5. Bounded(jobs)' /\ NewestStays'
    BY DEF SavesIInv, Bounded, Counted, Held, NewestStays
  <1> QED BY <1>2, <1>3, <1>4, <1>5 DEF SavesIInv

LEMMA WriteKeeps ==
  ASSUME SavesIInv, NEW id \in JobIds, Write(id)
  PROVE  SavesIInv'
  <1>1. /\ worker[id] \in Unwritten /\ IsSave(id)
        /\ \E at \in {"renaming", "failed"} : worker' = [worker EXCEPT ![id] = at]
        /\ UNCHANGED <<jobs, nextId, version, file, saved, phase>>
    BY DEF Write, Working, Unwritten
  <1> QED BY <1>1, WorkerMoves

LEMMA RenameKeeps ==
  ASSUME SavesIInv, NEW id \in JobIds, Rename(id)
  PROVE  SavesIInv'
  <1> DEFINE p == jobs[id].path
             v == jobs[id].version
  <1>1. /\ worker[id] = "renaming" /\ UNCHANGED <<nextId, version, saved, phase>>
        /\ \/ /\ jobs[id].superseded /\ worker' = [worker EXCEPT ![id] = "written"]
              /\ UNCHANGED <<jobs, file>>
           \/ /\ ~jobs[id].superseded /\ worker' = [worker EXCEPT ![id] = "written"]
              /\ file' = [file EXCEPT ![p] = v] /\ jobs' = Superseded(Older(p, id))
           \/ /\ worker' = [worker EXCEPT ![id] = "failed"]
              /\ UNCHANGED <<jobs, file>>
    BY DEF Rename, Working
  <1>2. /\ id \in DOMAIN jobs /\ IsSave(id) /\ worker[id] \in Unwritten
    BY <1>1 DEF SavesIInv, WorkInv, AtWork, Unwritten
  <1>3. CASE /\ \/ jobs[id].superseded /\ worker' = [worker EXCEPT ![id] = "written"]
                \/ worker' = [worker EXCEPT ![id] = "failed"]
             /\ UNCHANGED <<jobs, file>>
    BY <1>1, <1>2, <1>3, WorkerMoves
  <1>4. CASE /\ ~jobs[id].superseded /\ worker' = [worker EXCEPT ![id] = "written"]
             /\ file' = [file EXCEPT ![p] = v] /\ jobs' = Superseded(Older(p, id))
    <2>1. /\ p \in Paths /\ v \in Nat /\ id \in Nat /\ v <= version /\ version \in Nat
      BY <1>2, Bounds DEF SavesIInv, TypeInv, Job, JobIds
    <2>2. file[p] < v
      BY <1>2, <1>4 DEF SavesIInv, SaveInv
    <2>3. \A j \in DOMAIN jobs : IsSave(j) /\ j < id => jobs[j].version < v
      BY <1>2 DEF SavesIInv, SaveInv
    <2>4. worker'[id] = "written"
      BY <1>4 DEF SavesIInv, TypeInv
    <2>5. ASSUME NEW j \in DOMAIN jobs, IsSave(j)
          PROVE  \/ j < id \/ jobs[j].version > v
                 \/ jobs[j].version = v /\ worker'[j] = "written"
      <3>1. j \in Nat /\ jobs[j].version \in Nat
        BY Finite, Bounds DEF SavesIInv, TypeInv, Job, JobIds
      <3>2. CASE id < j
        <4>1. v < jobs[j].version
          BY <1>2, <2>5, <3>2 DEF SavesIInv, SaveInv
        <4> QED BY <2>1, <3>1, <4>1
      <3>3. CASE j = id
        BY <2>4, <3>3
      <3> QED BY <2>1, <3>1, <3>2, <3>3
    <2>6. version' \in Nat /\ version' >= version /\ v <= version'
      BY <1>1, <2>1
    <2> HIDE DEF p, v
    <2>7. worker' = worker \/ \E j \in JobIds :
            /\ worker[j] = "renaming" /\ worker' = [worker EXCEPT ![j] = "written"]
            /\ jobs[j].path = p /\ jobs[j].version = v
      BY <1>1, <1>4 DEF p, v
    <2>8. \A j \in DOMAIN jobs : IsSave(j) /\ Pending(j) /\ jobs[j].path = p =>
            j < id \/ jobs[j].version > v \/ (jobs[j].version = v /\ worker'[j] = "written")
      BY <2>5
    <2>9. /\ saved' = saved \/ saved' = [saved EXCEPT ![p] = v]
          /\ UNCHANGED <<nextId, phase>>
      BY <1>1
    <2>10. file' = [file EXCEPT ![p] = v] /\ jobs' = Superseded(Older(p, id))
      BY <1>4
    <2> QED BY <2>1, <2>2, <2>3, <2>6, <2>7, <2>8, <2>9, <2>10, PlacedKeeps
  <1> QED BY <1>1, <1>3, <1>4

\* A job is over: its worker returns after writing the job's result.
LEMMA OverKeeps ==
  ASSUME SavesIInv, NEW id \in JobIds, worker[id] \in AtWork, NEW job \in Job,
         jobs' = [jobs EXCEPT ![id] = job], worker' = [worker EXCEPT ![id] = "gone"],
         job.kind = jobs[id].kind, job.path = jobs[id].path,
         job.version = jobs[id].version, job.superseded = jobs[id].superseded,
         job.bytes = jobs[id].bytes, job.doc <= version,
         UNCHANGED <<nextId, version, file, phase>>,
         saved' \in [Paths -> 0..version], \A q \in Paths : file[q] >= saved'[q]
  PROVE  SavesIInv'
  <1>1. id \in DOMAIN jobs /\ Pending(id) /\ DOMAIN jobs \subseteq JobIds
    BY Finite DEF SavesIInv, WorkInv
  <1>2. /\ DOMAIN jobs' = DOMAIN jobs /\ jobs'[id] = job
        /\ jobs' \in [DOMAIN jobs' -> Job]
        /\ \A j \in DOMAIN jobs : j # id => jobs'[j] = jobs[j]
    BY <1>1 DEF SavesIInv, TypeInv
  <1>3. /\ worker' \in [JobIds -> {"none", "gone"} \cup AtWork]
        /\ worker'[id] = "gone" /\ \A j \in JobIds : j # id => worker'[j] = worker[j]
    BY DEF SavesIInv, TypeInv
  <1>4. TypeInv'
    BY <1>1, <1>2, <1>3 DEF SavesIInv, TypeInv
  <1>5. WorkInv'
    <2> SUFFICES ASSUME NEW j \in JobIds
                 PROVE  /\ worker'[j] \in AtWork =>
                             j \in DOMAIN jobs' /\ jobs'[j].status = "pending"
                        /\ worker'[j] \in AtWork \ {"working"} => jobs'[j].kind = "save"
                        /\ j >= nextId => worker'[j] = "none"
      BY DEF WorkInv, Pending, IsSave
    <2>1. /\ worker[j] \in AtWork => j \in DOMAIN jobs /\ Pending(j)
          /\ worker[j] \in AtWork \ {"working"} => IsSave(j)
          /\ j >= nextId => worker[j] = "none"
      BY DEF SavesIInv, WorkInv
    <2> QED BY <1>2, <1>3, <2>1 DEF Pending, IsSave, AtWork
  <1>6. SaveInv'
    <2>1. \A j \in DOMAIN jobs : /\ jobs'[j].kind = jobs[j].kind
                               /\ jobs'[j].path = jobs[j].path
                               /\ jobs'[j].version = jobs[j].version
                               /\ jobs'[j].superseded = jobs[j].superseded
                               /\ worker'[j] \in {worker[j], "gone"}
      BY <1>1, <1>2, <1>3
    <2> QED BY <1>2, <2>1 DEF SavesIInv, SaveInv, IsSave, Unwritten
  <1>7. Bounded(jobs)'
    <2>1. Counted(jobs') \subseteq Counted(jobs)
      BY <1>1, <1>2 DEF Counted, Pending
    <2>2. Held(jobs') \subseteq Held(jobs)
      BY <1>2, <2>1 DEF Held, Counted
    <2>3. Bounded(jobs')
      BY <2>1, <2>2, FewerBounded
    <2> QED BY <2>3 DEF Bounded, Counted, Held
  <1>8. NewestStays'
    BY DEF NewestStays
  <1> QED BY <1>4, <1>5, <1>6, <1>7, <1>8 DEF SavesIInv

LEMMA LoadKeeps ==
  ASSUME SavesIInv, NEW id \in JobIds, Load(id)
  PROVE  SavesIInv'
  <1>1. /\ worker[id] \in AtWork /\ worker' = [worker EXCEPT ![id] = "gone"]
        /\ UNCHANGED <<nextId, version, file, saved, phase>>
    BY DEF Load, Working, AtWork
  <1>2. PICK doc \in {0, file[jobs[id].path]} :
          jobs' = [jobs EXCEPT ![id].doc = doc,
                               ![id].status = IF doc = 0 THEN "error" ELSE "done"]
    BY DEF Load
  <1>3. id \in DOMAIN jobs /\ jobs[id] \in Job /\ jobs[id].path \in Paths
        /\ jobs = [j \in DOMAIN jobs |-> jobs[j]]
    BY <1>1 DEF SavesIInv, WorkInv, TypeInv, Job
  <1>4. doc \in Nat /\ doc <= version
    BY <1>2, <1>3 DEF SavesIInv, TypeInv
  <1> DEFINE job == [jobs[id] EXCEPT !.doc = doc,
                                     !.status = IF doc = 0 THEN "error" ELSE "done"]
  <1>5. jobs' = [jobs EXCEPT ![id] = job]
    BY <1>2, <1>3, Zenon
  <1>6. /\ job \in Job
        /\ job.kind = jobs[id].kind /\ job.path = jobs[id].path
        /\ job.version = jobs[id].version /\ job.superseded = jobs[id].superseded
        /\ job.bytes = jobs[id].bytes /\ job.doc = doc
    BY <1>3, <1>4 DEF Job
  <1> HIDE DEF job
  <1>7. saved' \in [Paths -> 0..version] /\ \A q \in Paths : file[q] >= saved'[q]
    BY <1>1 DEF SavesIInv, TypeInv, NewestStays
  <1> QED BY <1>1, <1>4, <1>5, <1>6, <1>7, OverKeeps

LEMMA FinishKeeps ==
  ASSUME SavesIInv, NEW id \in JobIds, Finish(id)
  PROVE  SavesIInv'
  <1> DEFINE ok == worker[id] = "written"
             p == jobs[id].path
             v == jobs[id].version
  <1>1. /\ worker[id] \in {"written", "failed"} /\ worker[id] \in AtWork
        /\ worker' = [worker EXCEPT ![id] = "gone"]
        /\ UNCHANGED <<nextId, version, file, phase>>
        /\ jobs' = [jobs EXCEPT ![id].ok = ok, ![id].status = "done"]
        /\ saved' = IF ok THEN [saved EXCEPT ![p] = Later(saved[p], v)] ELSE saved
    BY DEF Finish, Status, AtWork
  <1>2. /\ id \in DOMAIN jobs /\ IsSave(id) /\ jobs[id] \in Job
        /\ p \in Paths /\ v \in Nat /\ v <= version /\ version \in Nat
    BY <1>1 DEF SavesIInv, WorkInv, TypeInv, Job, AtWork
  <1> DEFINE job == [jobs[id] EXCEPT !.ok = ok, !.status = "done"]
  <1>3. jobs' = [jobs EXCEPT ![id] = job]
    BY <1>1, <1>2, Zenon
  <1>4. ok \in BOOLEAN
    OBVIOUS
  <1>5. ok => file[p] >= v
    BY <1>2 DEF SavesIInv, SaveInv
  <1> HIDE DEF ok
  <1>6. /\ job \in Job
        /\ job.kind = jobs[id].kind /\ job.path = jobs[id].path
        /\ job.version = jobs[id].version /\ job.superseded = jobs[id].superseded
        /\ job.bytes = jobs[id].bytes /\ job.doc = jobs[id].doc
    BY <1>2, <1>4 DEF Job
  <1>7. job.doc <= version
    BY <1>2, <1>6 DEF SavesIInv, TypeInv
  <1> HIDE DEF job, p, v
  <1>8. saved' \in [Paths -> 0..version] /\ \A q \in Paths : file[q] >= saved'[q]
    <2>1. /\ saved \in [Paths -> 0..version] /\ \A q \in Paths : file[q] >= saved[q]
      BY DEF SavesIInv, TypeInv, NewestStays
    <2>2. Later(saved[p], v) \in {saved[p], v}
      BY DEF Later
    <2>3. v \in 0..version
      BY <1>2
    <2> QED BY <1>1, <1>2, <1>5, <2>1, <2>2, <2>3
  <1> QED BY <1>1, <1>3, <1>6, <1>7, <1>8, OverKeeps

-----------------------------------------------------------------------------
(* The theorems *)

LEMMA SavesInitHolds == SavesInit => SavesIInv
  <1> SUFFICES ASSUME SavesInit
               PROVE  SavesIInv
    OBVIOUS
  <1>1. DOMAIN jobs = {} /\ jobs \in [DOMAIN jobs -> Job]
    BY DEF SavesInit
  <1>2. TypeInv
    <2>1. 1 \in 1..(MaxJobs + 1) /\ 0 \in Nat /\ 0 \in 0..0
      BY Bounds
    <2> QED BY <1>1, <2>1 DEF SavesInit, TypeInv
  <1>3. WorkInv /\ SaveInv /\ NewestStays
    BY <1>1 DEF SavesInit, WorkInv, SaveInv, NewestStays, AtWork
  <1>4. Bounded(jobs)
    <2>1. Counted(jobs) = {} /\ Held(jobs) = {}
      BY <1>1 DEF Counted, Held
    <2> QED BY <2>1, FS_EmptySet, Bounds DEF Bounded
  <1> QED BY <1>2, <1>3, <1>4 DEF SavesIInv

LEMMA SavesNextKeeps == SavesIInv /\ [SavesNext]_savesVars => SavesIInv'
  <1> SUFFICES ASSUME SavesIInv, [SavesNext]_savesVars
               PROVE  SavesIInv'
    OBVIOUS
  <1>1. ASSUME NEW p \in Paths, SaveAsync(p) \/ LoadAsync(p) \/ Save(p) PROVE SavesIInv'
    BY <1>1, SaveAsyncKeeps, LoadAsyncKeeps, SaveKeeps
  <1>2. CASE Done \/ LevelLoad \/ \E id \in JobIds : Result(id)
    BY <1>2, ScriptDropsKeep
  <1>3. ASSUME NEW id \in JobIds, WorkerStep(id) PROVE SavesIInv'
    BY <1>3, LoadKeeps, WriteKeeps, RenameKeeps, FinishKeeps DEF WorkerStep
  <1>4. CASE Quit \/ Exit \/ WaitedTooLong
    BY <1>4, ServerKeeps
  <1>5. CASE UNCHANGED savesVars
    <2>1. UNCHANGED <<jobs, nextId, worker, version, file, saved, phase>>
      BY <1>5 DEF savesVars
    <2>2. /\ version' \in Nat /\ version' >= version
          /\ phase' \in {"running", "quitting", "exited"}
      BY <2>1 DEF SavesIInv, TypeInv
    <2> QED BY <2>1, <2>2, IdleKeeps
  <1> QED BY <1>1, <1>2, <1>3, <1>4, <1>5 DEF SavesNext

\* The inductive invariant holds in every state.
THEOREM SavesInvariant == SavesSpec => []SavesIInv
  <1>1. SavesInit => SavesIInv
    BY SavesInitHolds
  <1>2. SavesIInv /\ [SavesNext]_savesVars => SavesIInv'
    BY SavesNextKeeps
  <1> QED BY <1>1, <1>2, PTL DEF SavesSpec

\* For any number of jobs and any limits: a worker that runs has its job, which no
\* claim, trim or level load frees, and the jobs in work and the documents held are
\* within scr_json_async_max_jobs and JSON_ASYNC_HELD_LOADS (json_async_full).
THEOREM JobsAreSound == SavesSpec => []JobsSound
  <1>1. SavesIInv => JobsSound
    <2> SUFFICES ASSUME SavesIInv
                 PROVE  JobsSound
      OBVIOUS
    <2>1. SavesTypeOK
      <3>1. \A id \in DOMAIN jobs :
              /\ jobs[id] \in Job
              /\ jobs[id].version <= version /\ jobs[id].doc <= version
        BY DEF SavesIInv, TypeInv
      <3>2. \A id \in DOMAIN jobs :
              /\ jobs[id].kind \in {"save", "load"} /\ jobs[id].path \in Paths
              /\ jobs[id].status \in {"pending", "done", "error"}
              /\ {jobs[id].superseded, jobs[id].ok} \subseteq BOOLEAN
              /\ {jobs[id].version, jobs[id].doc} \subseteq 0..version
        BY <3>1 DEF Job, SavesIInv, TypeInv
      <3> QED BY <3>2 DEF SavesTypeOK, SavesIInv, TypeInv, AtWork
    <2>2. \A id \in JobIds : worker[id] \notin {"none", "gone"} =>
                           (id \in DOMAIN jobs /\ Pending(id))
      BY DEF SavesIInv, WorkInv, TypeInv
    <2> QED BY <2>1, <2>2 DEF JobsSound, SavesIInv, Bounded
  <1> QED BY <1>1, SavesInvariant, PTL

\* However slow a worker is: the file holds the newest save that was reported as
\* saved, or a newer one still (json_save_rename).
THEOREM NewestSaveStays == SavesSpec => []NewestStays
  <1>1. SavesIInv => NewestStays
    BY DEF SavesIInv
  <1> QED BY <1>1, SavesInvariant, PTL
===============================================================================
