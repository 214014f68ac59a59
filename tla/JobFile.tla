------------------------------- MODULE JobFile -------------------------------
(***************************************************************************)
(* Submission of a job from a job file                                     *)
(* (crates/hyperqueue/src/client/commands/submit/jobfile.rs).              *)
(*                                                                         *)
(* The client parses the file into a JobDef and turns it into one          *)
(* SubmitRequest: an array of tasks that share one description, or a graph *)
(* of individual tasks.  A task of the graph that the file gives no id     *)
(* gets the next id above the largest id of the file.  JobTaskId is an     *)
(* unsigned integer of IdBits bits (32 in the code); the addition that     *)
(* makes the next id panics on overflow in a debug build and wraps in a    *)
(* release build.                                                          *)
(*                                                                         *)
(* The conversions are operators; the two actions compose a file task by   *)
(* task and submit it, so that TLC runs the operators over every file up   *)
(* to MaxTasks tasks.                                                      *)
(***************************************************************************)
EXTENDS Integers, Sequences, FiniteSets, SequencesExt

CONSTANTS
    IdBits,     \* width of JobTaskId
    MaxTasks,   \* bound: tasks of a job file
    Configs,    \* the TaskConfigDef values a file may hold
    NoId        \* tdef.id = None

ASSUME /\ IdBits \in Nat \ {0}
       /\ MaxTasks \in Nat

IdLimit   == 2 ^ IdBits
JobTaskId == 0..(IdLimit - 1)

VARIABLES
    jdef,     \* the JobDef that the file holds
    request   \* what submit_computation_from_job_file made of it

vars == <<jdef, request>>

-----------------------------------------------------------------------------
(* Values *)

DEFAULT_STDOUT_PATH == "default_stdout"
DEFAULT_STDERR_PATH == "default_stderr"

\* Option<StdioDefInput>: absent, none, a path, or a path with an on_close
StdioDefInput ==
    [kind : {"Absent", "None"}]
        \cup [kind : {"Path"}, path : {"p"}]
        \cup [kind : {"Full"}, path : {"p"}, on_close : {"none", "rm-if-finished"}]

\* tako's StdioDef
File(path, on_close) == [kind |-> "File", path |-> path, on_close |-> on_close]

StdioDef ==
    [kind : {"Pipe", "Null"}]
        \cup [kind : {"File"},
              path : {"p", DEFAULT_STDOUT_PATH, DEFAULT_STDERR_PATH},
              on_close : {"none", "rm-if-finished"}]

TaskDef == [id : JobTaskId \cup {NoId}, config : Configs]

NoRequest == [kind |-> "NoRequest"]
Panic     == [kind |-> "Panic"]
\* the file cannot be read or is no job definition: nothing is sent
Error     == [kind |-> "Error"]

-----------------------------------------------------------------------------
(* The conversions *)

create_stdio(def, default, is_log) ==
    CASE def.kind = "Absent" -> IF is_log THEN [kind |-> "Pipe"]
                                          ELSE File(default, "none")
      [] def.kind = "None"   -> [kind |-> "Null"]
      [] def.kind = "Path"   -> File(def.path, "none")
      [] def.kind = "Full"   -> File(def.path, def.on_close)

\* the command, the environment, stdin, the directories, the limits and the
\* priority pass through unchanged and are left out
build_task_description(cfg) ==
    [stdout    |-> create_stdio(cfg.stdout, DEFAULT_STDOUT_PATH, FALSE),
     stderr    |-> create_stdio(cfg.stderr, DEFAULT_STDERR_PATH, FALSE),
     pin_mode  |-> cfg.pin,
     resources |-> IF cfg.request = <<>> THEN <<"default">> ELSE cfg.request]

\* variant: an addition without the width of the id
next_id_unbounded(max_id) == max_id + 1

\* JobTaskId::new(max_id.as_num() + 1), as a release build computes it
next_id(max_id) == (max_id + 1) % IdLimit

\* build_task with its argument max_id: the task, and max_id afterwards
build_task(tdef, max_id, data_flags) ==
    LET fresh == tdef.id = NoId
        id    == IF fresh THEN next_id(max_id) ELSE tdef.id
    IN  [task   |-> [id         |-> id,
                     data_flags |-> data_flags,
                     task_desc  |-> build_task_description(tdef.config)],
         max_id |-> IF fresh THEN id ELSE max_id]

explicit_ids(tasks) == {tasks[i].id : i \in DOMAIN tasks} \ {NoId}

\* variant that skips the first id above the ids of the file
initial_max_id_skipping_one(tasks) ==
    IF explicit_ids(tasks) = {} THEN 1 ELSE Max(explicit_ids(tasks)) + 1

\* variant that starts to count at zero whatever ids the file gives
initial_max_id_zero(tasks) == 0

\* tasks.iter().map(|t| t.id).max().flatten().unwrap_or(JobTaskId(0)):
\* None is the least Option, so the largest id of the file wins
initial_max_id(tasks) ==
    IF explicit_ids(tasks) = {} THEN 0 ELSE Max(explicit_ids(tasks))

\* the tasks are built in the order of the file, max_id passed along
build_job_desc_individual_tasks(tasks, data_flags) ==
    LET step(acc, tdef) ==
            LET built == build_task(tdef, acc.max_id, data_flags)
            IN  [tasks |-> Append(acc.tasks, built.task), max_id |-> built.max_id]
    IN  [kind  |-> "Graph",
         tasks |-> FoldLeft(step, [tasks |-> <<>>, max_id |-> initial_max_id(tasks)],
                            tasks).tasks]

\* ids: the ids of the file, or 0..n-1 for n entries.  The entries are kept
\* by their number.
build_job_desc_array(array) ==
    [kind      |-> "Array",
     ids       |-> IF array.ids = NoId THEN 0..(array.entries - 1) ELSE array.ids,
     entries   |-> IF array.entries = 0 THEN "None" ELSE array.entries,
     task_desc |-> build_task_description(array.config)]

build_job_submit(def, job_id) ==
    [kind      |-> "SubmitRequest",
     task_desc |-> IF def.array # NoId
                   THEN build_job_desc_array(def.array)
                   ELSE build_job_desc_individual_tasks(
                            def.tasks,
                            IF def.data_layer THEN {"ENABLE_DATA_LAYER"} ELSE {}),
     job_id    |-> job_id]

\* the file makes the addition of build_task overflow: it holds the largest
\* id and a task without one, or more tasks without id than ids are left
overflows(def) ==
    /\ def.array = NoId
    /\ LET fresh == {i \in DOMAIN def.tasks : def.tasks[i].id = NoId}
       IN  initial_max_id(def.tasks) + Cardinality(fresh) >= IdLimit

-----------------------------------------------------------------------------
(* The file and its submission *)

ArrayDef == [ids     : {NoId} \cup (SUBSET (0..1)),
             entries : 0..2,
             config  : Configs]

\* the user writes one more task into the file
write_task(tdef) ==
    /\ request = NoRequest
    /\ jdef.array = NoId
    /\ Len(jdef.tasks) < MaxTasks
    /\ jdef' = [jdef EXCEPT !.tasks = Append(@, tdef)]
    /\ UNCHANGED request

\* the user writes an array section, which takes precedence over the tasks
write_array(array) ==
    /\ request = NoRequest
    /\ jdef.array = NoId
    /\ jdef' = [jdef EXCEPT !.array = array]
    /\ UNCHANGED request

write_data_layer ==
    /\ request = NoRequest
    /\ ~jdef.data_layer
    /\ jdef' = [jdef EXCEPT !.data_layer = TRUE]
    /\ UNCHANGED request

\* the file is read and parsed, which may fail, and the request is built
\* and sent; a debug build panics where a release build wraps
submit_computation_from_job_file ==
    /\ request = NoRequest
    /\ \/ request' = Error
       \/ request' = build_job_submit(jdef, NoId)
       \/ overflows(jdef) /\ request' = Panic
    /\ UNCHANGED jdef

Init ==
    /\ jdef = [tasks |-> <<>>, array |-> NoId, data_layer |-> FALSE]
    /\ request = NoRequest

Next ==
    \/ \E tdef \in TaskDef : write_task(tdef)
    \/ \E array \in ArrayDef : write_array(array)
    \/ write_data_layer
    \/ submit_computation_from_job_file

Spec == Init /\ [][Next]_vars

-----------------------------------------------------------------------------
(* Properties *)

TaskDescription ==
    [stdout : StdioDef, stderr : StdioDef, pin_mode : {"None", "TaskSet", "OpenMP"},
     resources : Seq({"default", "r"})]

Graph == request.task_desc.tasks

IsGraph == request.kind = "SubmitRequest" /\ request.task_desc.kind = "Graph"

\* The type invariant: a request holds ids of the width of JobTaskId and
\* descriptions without an absent part.
TypeOK ==
    /\ jdef.tasks \in Seq(TaskDef) /\ Len(jdef.tasks) <= MaxTasks
    /\ jdef.array \in ArrayDef \cup {NoId}
    /\ request.kind \in {"NoRequest", "Error", "Panic", "SubmitRequest"}
    /\ IsGraph =>
          \A i \in DOMAIN Graph :
              /\ Graph[i].id \in JobTaskId
              /\ Graph[i].task_desc \in TaskDescription
    /\ request.kind = "SubmitRequest" /\ ~IsGraph =>
          /\ request.task_desc.ids \subseteq JobTaskId
          /\ request.task_desc.task_desc \in TaskDescription

\* build_job_desc_individual_tasks never makes two tasks collide by itself:
\* two tasks of the request share an id only when the file gave both of them
\* that id, or when the counter of build_task overflowed.  The ids that
\* build_task makes start above every id of the file, wherever in the file
\* the tasks with an id stand.
GeneratedIdsFresh ==
    IsGraph /\ ~overflows(jdef) =>
        \A i, j \in DOMAIN Graph :
            i # j /\ Graph[i].id = Graph[j].id
                => jdef.tasks[i].id # NoId /\ jdef.tasks[j].id # NoId

\* Reference for the ids: the k-th task without id, in the order of the
\* file, gets the largest id of the file plus k.
ReferenceId(tasks, i) ==
    IF tasks[i].id # NoId
    THEN tasks[i].id
    ELSE (Max(explicit_ids(tasks) \cup {0})
            + Cardinality({j \in 1..i : tasks[j].id = NoId})) % IdLimit

\* The loop over build_task, which carries max_id from task to task, gives
\* every task the id of the reference: a task with an id in the file keeps
\* it and does not move the counter, also when it stands between two tasks
\* without id.
IdsMatchReference ==
    IsGraph =>
        /\ Len(Graph) = Len(jdef.tasks)
        /\ \A i \in DOMAIN Graph : Graph[i].id = ReferenceId(jdef.tasks, i)

=============================================================================
