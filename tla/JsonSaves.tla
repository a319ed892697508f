------------------------------- MODULE JsonSaves -------------------------------
(***************************************************************************)
(* Saving and loading JSON files in the background: the job list shared by *)
(* the script's thread and one worker per job, the order of the saves of   *)
(* one file, level loads and the server's quit (src/code/gsc_json.cpp).    *)
(***************************************************************************)
EXTENDS Integers, FiniteSets, Functions

CONSTANTS Paths,
          MaxPending,  \* scr_json_async_max_jobs
          HeldLoads,   \* JSON_ASYNC_HELD_LOADS, in loads
          KeepSaves,   \* JSON_ASYNC_KEEP_SAVES
          MaxVersion,  \* bound: saves that are asked for
          MaxJobs      \* bound: jobs that are started

ASSUME SavesAssumption ==
    /\ {MaxPending, HeldLoads, MaxVersion, MaxJobs} \subseteq Nat \ {0}
    /\ KeepSaves \in Nat

VARIABLES
    jobs,     \* json_async_jobs, by id; an id is higher than those before it
    nextId,   \* json_async_next_id
    worker,   \* what the worker of a job is at
    version,  \* the saves asked for so far; a save writes its number
    file,     \* the save a file holds, 0 for none
    saved,    \* history: the newest save of a file that was reported as saved
    phase     \* of the server

savesVars == <<jobs, nextId, worker, version, file, saved, phase>>

JobIds == 1 .. MaxJobs
Pending(id) == jobs[id].status = "pending"
IsSave(id) == jobs[id].kind = "save"

SavesInit ==
    /\ jobs = [id \in {} |-> {}]
    /\ nextId = 1
    /\ worker = [id \in JobIds |-> "none"]
    /\ version = 0
    /\ file = [p \in Paths |-> 0]
    /\ saved = [p \in Paths |-> 0]
    /\ phase = "running"

Without(list, ids) == Restrict(list, DOMAIN list \ ids)
With(list, id, job) == [j \in DOMAIN list \cup {id} |-> IF j = id THEN job ELSE list[j]]
Later(a, b) == IF a > b THEN a ELSE b

-----------------------------------------------------------------------------
(* The script *)

\* json_async_trim_saves: all but the newest finished saves go.
Trimmed == LET done == {id \in DOMAIN jobs : IsSave(id) /\ ~Pending(id)}
           IN  Without(jobs, {id \in done : Cardinality({n \in done : n >= id}) > KeepSaves})
\* json_async_full: what is running, and the loads that still hold their document.  A
\* load that counts is one unit of the bytes held, whatever its file's size.
Counted(list) == {id \in DOMAIN list : list[id].status = "pending" \/ list[id].doc # 0}
Held(list) == {id \in Counted(list) : list[id].bytes > 0}
Full(list, bytes) == \/ Cardinality(Counted(list)) >= MaxPending
                     \/ bytes > 0 /\ Cardinality(Held(list)) >= HeldLoads

NewJob(kind, path, v, bytes) ==
    [kind |-> kind, path |-> path, version |-> v, status |-> "pending",
     superseded |-> FALSE, ok |-> FALSE, doc |-> 0, bytes |-> bytes]

\* A worker that cannot be started takes its job with it; the id stays used.
Submit(list, kind, path, v, bytes) ==
    /\ nextId \in JobIds
    /\ nextId' = nextId + 1
    /\ \/ /\ jobs' = With(list, nextId, NewJob(kind, path, v, bytes))
          /\ worker' = [worker EXCEPT ![nextId] = "working"]
       \/ jobs' = list /\ UNCHANGED worker

SaveAsync(p) ==
    /\ phase = "running" /\ version < MaxVersion
    /\ \/ ~Full(Trimmed, 0) /\ version' = version + 1
          /\ Submit(Trimmed, "save", p, version + 1, 0)
       \/ Full(Trimmed, 0) /\ jobs' = Trimmed /\ UNCHANGED <<nextId, worker, version>>
    /\ UNCHANGED <<file, saved, phase>>

LoadAsync(p) ==
    LET bytes == IF file[p] = 0 THEN 0 ELSE 1 IN
    /\ phase = "running" /\ ~Full(jobs, bytes)
    /\ Submit(jobs, "load", p, 0, bytes)
    /\ UNCHANGED <<version, file, saved, phase>>

\* json_async_done, which trims, and json_async_result of a finished job.
Done == /\ phase = "running"
        /\ jobs' = Trimmed
        /\ UNCHANGED <<nextId, worker, version, file, saved, phase>>
Result(id) == /\ phase = "running" /\ id \in DOMAIN jobs /\ ~Pending(id)
              /\ jobs' = Without(jobs, {id})
              /\ UNCHANGED <<nextId, worker, version, file, saved, phase>>

\* gsc_json_cleanup_on_level_load: running jobs stay with their workers.
MutantReaped == {id \in DOMAIN jobs : TRUE}  \* running jobs are freed as well
Reaped == {id \in DOMAIN jobs : ~Pending(id)}
LevelLoad == /\ phase = "running"
             /\ jobs' = Without(jobs, Reaped)
             /\ UNCHANGED <<nextId, worker, version, file, saved, phase>>

\* json_save_rename marks the pending saves of the path that the one in place is
\* newer than: those before a job, all of them for json_save.
MutantOlder(p, id) ==  \* those after it as well
    {j \in DOMAIN jobs : IsSave(j) /\ Pending(j) /\ jobs[j].path = p /\ j # id}
Older(p, id) == {j \in DOMAIN jobs : IsSave(j) /\ Pending(j) /\ jobs[j].path = p /\ j < id}
Superseded(ids) == [j \in DOMAIN jobs |->
                      IF j \in ids THEN [jobs[j] EXCEPT !.superseded = TRUE] ELSE jobs[j]]

\* json_save writes at once, or fails and leaves the file alone.
Save(p) ==
    /\ phase = "running" /\ version < MaxVersion
    /\ version' = version + 1
    /\ \/ /\ file' = [file EXCEPT ![p] = version + 1]
          /\ saved' = [saved EXCEPT ![p] = version + 1]
          /\ jobs' = Superseded(Older(p, nextId))
       \/ UNCHANGED <<file, saved, jobs>>
    /\ UNCHANGED <<nextId, worker, phase>>

-----------------------------------------------------------------------------
(* The workers *)

Working(id, at) == phase # "exited" /\ worker[id] = at

\* json_async_load_worker: what the file holds, or an error.
Load(id) ==
    /\ Working(id, "working") /\ ~IsSave(id)
    /\ \E doc \in {0, file[jobs[id].path]} :
         jobs' = [jobs EXCEPT ![id].doc = doc,
                              ![id].status = IF doc = 0 THEN "error" ELSE "done"]
    /\ worker' = [worker EXCEPT ![id] = "gone"]
    /\ UNCHANGED <<nextId, version, file, saved, phase>>

\* json_async_save_worker: the temporary file, which is written or not.
Write(id) ==
    /\ Working(id, "working") /\ IsSave(id)
    /\ worker' \in {[worker EXCEPT ![id] = at] : at \in {"renaming", "failed"}}
    /\ UNCHANGED <<jobs, nextId, version, file, saved, phase>>
\* json_save_rename: the temporary file is dropped when a newer save is in place.
Rename(id) ==
    LET p == jobs[id].path IN
    /\ Working(id, "renaming")
    /\ \/ jobs[id].superseded
          /\ worker' = [worker EXCEPT ![id] = "written"]
          /\ UNCHANGED <<jobs, file>>
       \/ ~jobs[id].superseded
          /\ worker' = [worker EXCEPT ![id] = "written"]
          /\ file' = [file EXCEPT ![p] = jobs[id].version]
          /\ jobs' = Superseded(Older(p, id))
       \/ ~jobs[id].superseded
          /\ worker' = [worker EXCEPT ![id] = "failed"]
          /\ UNCHANGED <<jobs, file>>
    /\ UNCHANGED <<nextId, version, saved, phase>>
\* A save that failed is done as well, only not ok.
MutantStatus(ok) == IF ok THEN "done" ELSE "pending"  \* a failed save ends without a status
Status(ok) == "done"
Finish(id) ==
    LET ok == worker[id] = "written" IN
    /\ phase # "exited" /\ worker[id] \in {"written", "failed"}
    /\ jobs' = [jobs EXCEPT ![id].ok = ok, ![id].status = Status(ok)]
    /\ worker' = [worker EXCEPT ![id] = "gone"]
    /\ saved' = IF ok THEN [saved EXCEPT ![jobs[id].path] = Later(@, jobs[id].version)] ELSE saved
    /\ UNCHANGED <<nextId, version, file, phase>>

-----------------------------------------------------------------------------
(* The quit: gsc_json_shutdown waits for the saves, up to JSON_QUIT_WAIT_MS *)

Quit == /\ phase = "running" /\ phase' = "quitting"
        /\ UNCHANGED <<jobs, nextId, worker, version, file, saved>>
Writing == {id \in DOMAIN jobs : IsSave(id) /\ Pending(id)}
Exit == /\ phase = "quitting" /\ Writing = {}
        /\ phase' = "exited"
        /\ UNCHANGED <<jobs, nextId, worker, version, file, saved>>
WaitedTooLong == /\ phase = "quitting" /\ Writing # {}
                 /\ phase' = "exited"
                 /\ UNCHANGED <<jobs, nextId, worker, version, file, saved>>

WorkerStep(id) == Load(id) \/ Write(id) \/ Rename(id) \/ Finish(id)
SavesNext ==
    \/ \E p \in Paths : SaveAsync(p) \/ LoadAsync(p) \/ Save(p)
    \/ \E id \in JobIds : Result(id) \/ WorkerStep(id)
    \/ Done \/ LevelLoad \/ Quit \/ Exit \/ WaitedTooLong

\* The system runs every worker until it returns.
SavesSpec == /\ SavesInit /\ [][SavesNext]_savesVars
             /\ \A id \in JobIds : WF_savesVars(WorkerStep(id))

-----------------------------------------------------------------------------
(* Properties *)

\* Every variable has its type.
SavesTypeOK ==
    /\ DOMAIN jobs \subseteq 1 .. nextId - 1
    /\ \A id \in DOMAIN jobs :
         /\ jobs[id].kind \in {"save", "load"} /\ jobs[id].path \in Paths
         /\ jobs[id].status \in {"pending", "done", "error"}
         /\ {jobs[id].superseded, jobs[id].ok} \subseteq BOOLEAN
         /\ {jobs[id].version, jobs[id].doc} \subseteq 0 .. version
    /\ worker \in [JobIds -> {"none", "working", "renaming", "written", "failed", "gone"}]
    /\ {file, saved} \subseteq [Paths -> 0 .. version]
    /\ phase \in {"running", "quitting", "exited"}

\* The job of a worker that has not returned is never freed, by whatever claims,
\* trims and level loads come meanwhile; and no more of them run, or hold what
\* they loaded, than is allowed.
JobsSound ==
    /\ SavesTypeOK
    /\ \A id \in JobIds : worker[id] \notin {"none", "gone"} => (id \in DOMAIN jobs /\ Pending(id))
    /\ Cardinality(Counted(jobs)) <= MaxPending /\ Cardinality(Held(jobs)) <= HeldLoads

\* The file holds the newest of the saves that were reported as saved, or one newer
\* still: a slow worker never puts an older document in its place.
NewestStays == \A p \in Paths : file[p] >= saved[p]

\* Every job gets a result to be claimed, unless the server exits first.
EveryJobEnds == \A id \in JobIds :
    (worker[id] = "working") ~> (phase = "exited" \/ id \notin DOMAIN jobs \/ ~Pending(id))
================================================================================
