-------------------------------- MODULE Tako --------------------------------
(***************************************************************************)
(* The task runtime that the test environment of crates/tako drives: the   *)
(* reactor and the scheduler of the server, the Comm they send through,    *)
(* and the workers at the other end of it.                                 *)
(*                                                                         *)
(* The repository holds the test environment (tests/utils.rs), not the     *)
(* reactor and the scheduler that it calls.  What is translated from the   *)
(* source is TestComm and the helpers that call the reactor; the handlers  *)
(* of the reactor and the two decisions of the scheduler follow the        *)
(* design document (sections 4.2 to 4.4, 5 and 9) and are marked so in     *)
(* the map.  The helpers that stand in for the scheduler (force_assign,    *)
(* force_reassign, start_on_worker, start_stealing) take whatever task and *)
(* worker they are given; which task goes where is decided by schedule and *)
(* balance, the passes of the scheduler.  The helpers hand a TestComm of   *)
(* their own to the reactor and drop it; here every call sends through the *)
(* one comm of the server, and the workers read what it holds.  A worker   *)
(* is the environment: it keeps the tasks it was sent, starts them,        *)
(* reports, and answers steal requests from what it holds.                 *)
(*                                                                         *)
(* Left out: generic resources, time limits and the sockets of a worker (a *)
(* request is a number of cpus), the keep-flag and the removal of finished *)
(* tasks, the notifications that nothing here reads (client_task_running,  *)
(* new_workers, broadcast_msgs, need_scheduling: the scheduler of the      *)
(* model may decide at any time), and the choice among candidate workers   *)
(* (any candidate may be chosen).                                          *)
(***************************************************************************)
EXTENDS Naturals, Sequences, FiniteSets, SequencesExt

CONSTANTS
    TaskId,      \* the ids of the tasks that clients submit
    Deps,        \* Deps[t]: the tasks whose outputs t consumes
    Request,     \* Request[t]: the cpus that t asks for
    Batches,     \* bound: the batches of tasks that a client may submit
    WorkerCpus,  \* the numbers of cpus a worker may join with
    MaxWorkers,  \* bound: the workers that join in a behaviour
    MaxSteals,   \* bound: the steals that the scheduler starts
    None         \* no worker

VARIABLES
    tasks,              \* Core: the tasks, their state and where they are
    workers,            \* Core: the connected workers, their tasks and load
    worker_id_counter,  \* TestEnv::worker_id_counter: the id of the next worker
    comm,               \* what the server has sent (TestComm)
    inbox,              \* inbox[w]: what worker w has sent, in order
    held,               \* held[w]: the tasks at worker w, and how far they are
    steals              \* the steals started so far

vars == <<tasks, workers, worker_id_counter, comm, inbox, held, steals>>

WorkerId == 1..MaxWorkers

Terminal == {"Finished", "Failed", "Cancelled"}
OnWorker == {"Assigned", "Stealing", "Running"}
TaskState == {"Waiting", "Ready"} \cup OnWorker \cup Terminal

\* a task in steal is still at `worker`, and is promised to `target`
Task(state, worker, target) == [state |-> state, worker |-> worker, target |-> target]

Off(state) == Task(state, None, None)

in_state(states) == {t \in DOMAIN tasks : tasks[t].state \in states}

\* the consumer set of a task: the reverse of the deps
consumers(t) == {c \in DOMAIN tasks : t \in Deps[c]}

\* variant that stops at the direct consumers
consumer_closure_once(ids) == ids \cup UNION {consumers(t) : t \in ids}

\* the tasks and all that consume them, directly or not
RECURSIVE consumer_closure(_)
consumer_closure(ids) ==
    LET more == UNION {consumers(t) : t \in ids} \ ids
    IN  IF more = {} THEN ids ELSE consumer_closure(ids \cup more)

requested(ts) == MapThenSumSet(LAMBDA t : Request[t], ts)

-----------------------------------------------------------------------------
(* Messages *)

ComputeTask(t)  == [type |-> "ComputeTask", tasks |-> {t}]
StealRequest(t) == [type |-> "StealRequest", tasks |-> {t}]
CancelTasks(ts) == [type |-> "CancelTasks", tasks |-> ts]

TaskRunning(t)  == [type |-> "TaskRunning", task |-> t]
TaskFinished(t) == [type |-> "TaskFinished", task |-> t]
TaskFailed(t)   == [type |-> "TaskFailed", task |-> t]
StealResponse(t, response) ==
    [type |-> "StealResponse", task |-> t, response |-> response]

-----------------------------------------------------------------------------
(* TestComm: the Comm of the server *)

TestComm ==
    [worker_msgs          |-> [w \in WorkerId |-> <<>>],
     client_task_finished |-> <<>>,
     client_task_errors   |-> <<>>,
     lost_workers         |-> <<>>]

\* the message is serialized and read back, which leaves it as it is
send_worker_message(c, worker_id, message) ==
    [c EXCEPT !.worker_msgs[worker_id] = Append(@, message)]

send_client_task_finished(c, task_id) ==
    [c EXCEPT !.client_task_finished = Append(@, task_id)]

send_client_task_error(c, task_id, error_consumers) ==
    [c EXCEPT !.client_task_errors = Append(@, <<task_id, error_consumers>>)]

send_client_worker_lost(c, worker_id, running_tasks) ==
    [c EXCEPT !.lost_workers = Append(@, <<worker_id, running_tasks>>)]

-----------------------------------------------------------------------------
(* The worker table *)

\* the tasks leave whatever worker has them, with their load
remove_tasks(ws, ts) ==
    [w \in DOMAIN ws |->
        [ws[w] EXCEPT !.tasks = @ \ ts, !.load = @ - requested(ws[w].tasks \cap ts)]]

insert_task(ws, t, w) ==
    [ws EXCEPT ![w].tasks = @ \cup {t}, ![w].load = @ + Request[t]]

\* the task is at no other worker than w, as before it was assigned away
give_back_no_removal(ws, t, w) == insert_task(ws, t, w)

give_back(ws, t, w) == insert_task(remove_tasks(ws, {t}), t, w)

-----------------------------------------------------------------------------
(* The reactor: what clients ask for *)

\* a batch is taken as a whole or not at all: its ids are new, and its deps
\* are in the batch or known
on_new_tasks(new_tasks) ==
    /\ new_tasks # {}
    /\ new_tasks \cap DOMAIN tasks = {}
    /\ \A t \in new_tasks : Deps[t] \subseteq new_tasks \cup DOMAIN tasks
    /\ tasks' = [t \in new_tasks |->
                    Off(IF Deps[t] \subseteq in_state({"Finished"})
                        THEN "Ready" ELSE "Waiting")] @@ tasks
    /\ UNCHANGED <<workers, comm>>

submit_test_tasks(new_tasks) ==
    /\ on_new_tasks(new_tasks)
    /\ UNCHANGED <<worker_id_counter, inbox, held, steals>>

\* the tasks that have not ended and all that consume them
to_cancel(task_ids) ==
    consumer_closure(task_ids \cap in_state(TaskState \ Terminal))
        \cap in_state(TaskState \ Terminal)

\* the tasks are cancelled and the workers that were sent one of them are told
on_cancel_tasks(task_ids) ==
    LET cancelled == to_cancel(task_ids)
        at(w)     == {t \in cancelled : tasks[t].worker = w}
        holders   == {w \in DOMAIN workers : at(w) # {}}
    IN  /\ cancelled # {}
        /\ tasks' = [t \in DOMAIN tasks |->
                        IF t \in cancelled THEN Off("Cancelled") ELSE tasks[t]]
        /\ workers' = remove_tasks(workers, cancelled)
        /\ comm' = FoldSet(LAMBDA w, c : send_worker_message(c, w, CancelTasks(at(w))),
                           comm, holders)

cancel_tasks(task_ids) ==
    /\ on_cancel_tasks(task_ids)
    /\ UNCHANGED <<worker_id_counter, inbox, held, steals>>

-----------------------------------------------------------------------------
(* The reactor: workers that come and go *)

on_new_worker(worker_id, cpus) ==
    /\ workers' = worker_id :> [cpus |-> cpus, tasks |-> {}, load |-> 0] @@ workers
    /\ UNCHANGED <<tasks, comm>>

\* the id is read after the counter has moved on
new_workers_ext_id_after(cpus) ==
    /\ worker_id_counter \in WorkerId
    /\ worker_id_counter' = worker_id_counter + 1
    /\ on_new_worker(worker_id_counter + 1, cpus)
    /\ UNCHANGED <<inbox, held, steals>>

\* a worker joins under the id that the counter shows, and the counter moves
\* on
new_workers_ext(cpus) ==
    /\ worker_id_counter \in WorkerId
    /\ worker_id_counter' = worker_id_counter + 1
    /\ on_new_worker(worker_id_counter, cpus)
    /\ UNCHANGED <<inbox, held, steals>>

\* the tasks that the server has given to a worker and not taken back
tasks_of_unless_in_steal(worker_id) ==
    {t \in in_state({"Assigned", "Running"}) : tasks[t].worker = worker_id}

tasks_of(worker_id) == {t \in in_state(OnWorker) : tasks[t].worker = worker_id}

\* what the lost worker had goes back to Ready and leaves the worker it was
\* promised to; a steal towards the lost worker has no target any more
on_worker_lost(worker_id) ==
    LET mine == tasks_of(worker_id)
    IN  /\ tasks' = [t \in DOMAIN tasks |->
                        IF t \in mine THEN Off("Ready")
                        ELSE IF tasks[t].target = worker_id
                             THEN [tasks[t] EXCEPT !.target = None]
                             ELSE tasks[t]]
        /\ workers' = Restrict(remove_tasks(workers, mine),
                               DOMAIN workers \ {worker_id})
        /\ comm' = send_client_worker_lost(
                       [comm EXCEPT !.worker_msgs[worker_id] = <<>>], worker_id,
                       mine \cap in_state({"Running"}))

\* the connection ends: the worker is gone with what it held and had sent
worker_lost(w) ==
    /\ on_worker_lost(w)
    /\ inbox' = [inbox EXCEPT ![w] = <<>>]
    /\ held' = [held EXCEPT ![w] = <<>>]
    /\ UNCHANGED <<worker_id_counter, steals>>

-----------------------------------------------------------------------------
(* The scheduler *)

\* SchedulerState::assign: a ready task is assigned, an assigned one is in
\* steal from the worker that has it; the load moves with the task
assign(t, w) ==
    /\ tasks' = [tasks EXCEPT ![t] =
                    IF @.state = "Assigned" THEN Task("Stealing", @.worker, w)
                                            ELSE Task("Assigned", w, None)]
    /\ workers' = give_back(workers, t, w)

\* the messages of the decision: the task to its worker, or the request to
\* the worker that the task is taken from
finish_scheduling(t, w) ==
    comm' = IF tasks[t].state = "Assigned"
            THEN send_worker_message(comm, tasks[t].worker, StealRequest(t))
            ELSE send_worker_message(comm, w, ComputeTask(t))

\* the task leaves ready_to_assign, which here is its state, and is assigned
force_assign(t, w) == assign(t, w)

\* the same, of a task that is not in ready_to_assign
force_reassign(t, w) == assign(t, w)

start_on_worker(t, w) ==
    /\ force_assign(t, w)
    /\ finish_scheduling(t, w)
    /\ UNCHANGED <<worker_id_counter, inbox, held>>

start_stealing(t, new_worker_id) ==
    /\ force_reassign(t, new_worker_id)
    /\ finish_scheduling(t, new_worker_id)
    /\ UNCHANGED <<worker_id_counter, inbox, held>>

\* a candidate has the cpus free right now
is_candidate(t, w) == workers[w].load + Request[t] <= workers[w].cpus

\* a pass of the scheduler (TestEnv::schedule) assigns a task of the ready
\* queue to a candidate
schedule(t, w) ==
    /\ tasks[t].state = "Ready"
    /\ is_candidate(t, w)
    /\ start_on_worker(t, w)
    /\ UNCHANGED steals

\* balancing (TestEnv::balance) asks for a task that is assigned and, as far
\* as the server knows, not started, on behalf of another candidate
balance(t, w) ==
    /\ steals < MaxSteals
    /\ steals' = steals + 1
    /\ tasks[t].state = "Assigned"
    /\ tasks[t].worker # w
    /\ is_candidate(t, w)
    /\ start_stealing(t, w)

-----------------------------------------------------------------------------
(* The reactor: what workers report *)

is_at(t, w, states) == tasks[t].state \in states /\ tasks[t].worker = w

\* a start that is reported of a task in steal is left to the steal response
on_task_running_of_assigned(w, t) ==
    \/ /\ is_at(t, w, {"Assigned"})
       /\ tasks' = [tasks EXCEPT ![t].state = "Running"]
       /\ UNCHANGED <<workers, comm>>
    \/ /\ ~is_at(t, w, {"Assigned"})
       /\ UNCHANGED <<tasks, workers, comm>>

\* the worker has started the task; when the task is in steal, it stays
on_task_running(w, t) ==
    \/ /\ is_at(t, w, {"Assigned"})
       /\ tasks' = [tasks EXCEPT ![t].state = "Running"]
       /\ UNCHANGED <<workers, comm>>
    \/ /\ is_at(t, w, {"Stealing"})
       /\ tasks' = [tasks EXCEPT ![t] = Task("Running", w, None)]
       /\ workers' = give_back(workers, t, w)
       /\ UNCHANGED comm
    \/ /\ ~is_at(t, w, {"Assigned", "Stealing"})
       /\ UNCHANGED <<tasks, workers, comm>>

\* every consumer of t that waits
ready_consumers_of_any(t) == consumers(t) \cap in_state({"Waiting"})

\* the consumers of t that wait for nothing but t
ready_consumers(t) ==
    {c \in consumers(t) \cap in_state({"Waiting"}) :
        Deps[c] \subseteq in_state({"Finished"}) \cup {t}}

task_finished(t) ==
    /\ tasks' = [x \in DOMAIN tasks |->
                    IF x = t THEN Off("Finished")
                    ELSE IF x \in ready_consumers(t) THEN Off("Ready") ELSE tasks[x]]
    /\ workers' = remove_tasks(workers, {t})
    /\ comm' = send_client_task_finished(comm, t)

\* the report is taken whatever has become of the task
on_task_finished_unasked(w, t) == task_finished(t)

\* the task is finished and its consumers that wait for nothing else are
\* ready; a report of a task that does not run on the worker is left alone
on_task_finished(w, t) ==
    \/ /\ is_at(t, w, {"Running"})
       /\ task_finished(t)
    \/ /\ ~is_at(t, w, {"Running"})
       /\ UNCHANGED <<tasks, workers, comm>>

\* the consumers, which wait, are cancelled with the task as the cause
on_task_failed(w, t) ==
    \/ /\ is_at(t, w, {"Running"})
       /\ LET cancelled == (consumer_closure({t}) \ {t}) \cap in_state(TaskState \ Terminal)
          IN  /\ tasks' = [x \in DOMAIN tasks |->
                              IF x = t THEN Off("Failed")
                              ELSE IF x \in cancelled THEN Off("Cancelled")
                              ELSE tasks[x]]
              /\ workers' = remove_tasks(workers, {t})
              /\ comm' = send_client_task_error(comm, t, cancelled)
    \/ /\ ~is_at(t, w, {"Running"})
       /\ UNCHANGED <<tasks, workers, comm>>

finish_on_worker(w, t) == on_task_finished(w, t)

\* the steal ends: the task is assigned to its target, or ready when the
\* target is lost, or it stays where it runs
steal_is_confirmed_by_any(response) == response \in {"Ok", "Running"}

steal_is_confirmed(response) == response = "Ok"

on_steal_response(w, t, response) ==
    \/ /\ is_at(t, w, {"Stealing"})
       /\ steal_is_confirmed(response)
       /\ tasks[t].target # None
       /\ tasks' = [tasks EXCEPT ![t] = Task("Assigned", @.target, None)]
       /\ comm' = send_worker_message(comm, tasks[t].target, ComputeTask(t))
       /\ UNCHANGED workers
    \/ /\ is_at(t, w, {"Stealing"})
       /\ steal_is_confirmed(response)
       /\ tasks[t].target = None
       /\ tasks' = [tasks EXCEPT ![t] = Off("Ready")]
       /\ UNCHANGED <<workers, comm>>
    \/ /\ is_at(t, w, {"Stealing"})
       /\ ~steal_is_confirmed(response)
       /\ response = "Running"
       /\ tasks' = [tasks EXCEPT ![t] = Task("Assigned", w, None)]
       /\ workers' = give_back(workers, t, w)
       /\ UNCHANGED comm
    \/ /\ ~is_at(t, w, {"Stealing"}) \/ response = "NotHere"
       /\ UNCHANGED <<tasks, workers, comm>>

\* the server takes the next message of a worker
server_receives(w) ==
    /\ w \in DOMAIN workers
    /\ inbox[w] # <<>>
    /\ inbox' = [inbox EXCEPT ![w] = Tail(@)]
    /\ LET message == Head(inbox[w])
       IN  \/ message.type = "TaskRunning" /\ on_task_running(w, message.task)
           \/ message.type = "TaskFinished" /\ finish_on_worker(w, message.task)
           \/ message.type = "TaskFailed" /\ on_task_failed(w, message.task)
           \/ /\ message.type = "StealResponse"
              /\ on_steal_response(w, message.task, message.response)
    /\ UNCHANGED <<worker_id_counter, held, steals>>

-----------------------------------------------------------------------------
(* The workers *)

\* what a worker answers to a steal request: it gives up a task that it has
\* not started
steal_response(w, t) ==
    IF t \notin DOMAIN held[w] THEN "NotHere"
    ELSE IF held[w][t] = "queued" THEN "Ok" ELSE "Running"

worker_receives(w) ==
    /\ w \in DOMAIN workers
    /\ comm.worker_msgs[w] # <<>>
    /\ comm' = [comm EXCEPT !.worker_msgs[w] = Tail(@)]
    /\ LET message == Head(comm.worker_msgs[w])
           t       == CHOOSE t \in message.tasks : TRUE
       IN  \/ /\ message.type = "ComputeTask"
              /\ held' = [held EXCEPT ![w] = t :> "queued" @@ @]
              /\ UNCHANGED inbox
           \/ /\ message.type = "StealRequest"
              /\ held' = [held EXCEPT ![w] =
                    IF steal_response(w, t) = "Ok"
                    THEN Restrict(@, DOMAIN @ \ {t}) ELSE @]
              /\ inbox' = [inbox EXCEPT ![w] =
                    Append(@, StealResponse(t, steal_response(w, t)))]
           \/ /\ message.type = "CancelTasks"
              /\ held' = [held EXCEPT ![w] = Restrict(@, DOMAIN @ \ message.tasks)]
              /\ UNCHANGED inbox
    /\ UNCHANGED <<tasks, workers, worker_id_counter, steals>>

\* the worker starts a task; its report follows
worker_starts(w, t) ==
    /\ t \in DOMAIN held[w]
    /\ held[w][t] = "queued"
    /\ held' = [held EXCEPT ![w][t] = "started"]
    /\ UNCHANGED <<tasks, workers, worker_id_counter, comm, inbox, steals>>

worker_reports(w, t) ==
    /\ t \in DOMAIN held[w]
    /\ held[w][t] = "started"
    /\ held' = [held EXCEPT ![w][t] = "running"]
    /\ inbox' = [inbox EXCEPT ![w] = Append(@, TaskRunning(t))]
    /\ UNCHANGED <<tasks, workers, worker_id_counter, comm, steals>>

\* the task ends, well or not
worker_finishes(w, t) ==
    /\ t \in DOMAIN held[w]
    /\ held[w][t] = "running"
    /\ held' = [held EXCEPT ![w] = Restrict(@, DOMAIN @ \ {t})]
    /\ \E report \in {TaskFinished(t), TaskFailed(t)} :
          inbox' = [inbox EXCEPT ![w] = Append(@, report)]
    /\ UNCHANGED <<tasks, workers, worker_id_counter, comm, steals>>

worker_step(w) ==
    \/ worker_receives(w)
    \/ \E t \in TaskId : worker_starts(w, t) \/ worker_reports(w, t) \/ worker_finishes(w, t)

-----------------------------------------------------------------------------

\* TestEnv::new: an empty core; the first worker id, 100 there, is 1 here
Init ==
    /\ tasks = <<>>
    /\ workers = <<>>
    /\ worker_id_counter = 1
    /\ comm = TestComm
    /\ inbox = [w \in WorkerId |-> <<>>]
    /\ held = [w \in WorkerId |-> <<>>]
    /\ steals = 0

Next ==
    \/ \E new_tasks \in Batches : submit_test_tasks(new_tasks)
    \/ \E task_ids \in SUBSET in_state(TaskState \ Terminal) : cancel_tasks(task_ids)
    \/ \E cpus \in WorkerCpus : new_workers_ext(cpus)
    \/ \E w \in DOMAIN workers, t \in DOMAIN tasks : schedule(t, w)
    \/ \E w \in DOMAIN workers, t \in DOMAIN tasks : balance(t, w)
    \/ \E w \in DOMAIN workers : worker_lost(w)
    \/ \E w \in DOMAIN workers : server_receives(w)
    \/ \E w \in DOMAIN workers : worker_receives(w)
    \/ \E w \in DOMAIN workers, t \in TaskId : worker_starts(w, t)
    \/ \E w \in DOMAIN workers, t \in TaskId : worker_reports(w, t)
    \/ \E w \in DOMAIN workers, t \in TaskId : worker_finishes(w, t)

Spec == Init /\ [][Next]_vars

\* The executor of the server runs the handler of every message that has
\* come in, and a worker that is connected goes on: it reads what it was
\* sent, starts what it holds and reports.  Nothing makes a client submit
\* or cancel, a worker join or get lost, or the scheduler decide.
FairSpec ==
    /\ Spec
    /\ \A w \in WorkerId : WF_vars(server_receives(w)) /\ WF_vars(worker_step(w))

-----------------------------------------------------------------------------
(* The specification that the runtime implements *)

\* the life of a task as a client sees it: a task in steal is assigned to
\* the worker that has it until that worker gives it up
life_of ==
    [t \in DOMAIN tasks |->
        [state  |-> IF tasks[t].state = "Stealing" THEN "Assigned" ELSE tasks[t].state,
         worker |-> tasks[t].worker]]

TaskLife == INSTANCE TakoAbstract
                WITH life <- life_of, finished <- comm.client_task_finished,
                     errors <- comm.client_task_errors

-----------------------------------------------------------------------------
(* Properties *)

Message ==
    [type : {"ComputeTask", "StealRequest"}, tasks : {{t} : t \in TaskId}]
        \cup [type : {"CancelTasks"}, tasks : SUBSET TaskId \ {{}}]

Report ==
    [type : {"TaskRunning", "TaskFinished", "TaskFailed"}, task : TaskId]
        \cup [type : {"StealResponse"}, task : TaskId,
              response : {"Ok", "Running", "NotHere"}]

TypeOK ==
    /\ DOMAIN tasks \subseteq TaskId
    /\ \A t \in DOMAIN tasks :
          tasks[t] \in [state : TaskState, worker : WorkerId \cup {None},
                        target : WorkerId \cup {None}]
    /\ DOMAIN workers \subseteq 1..(worker_id_counter - 1)
    /\ \A w \in DOMAIN workers :
          workers[w] \in [cpus : WorkerCpus, tasks : SUBSET TaskId, load : Nat]
    /\ worker_id_counter \in 1..(MaxWorkers + 1)
    /\ comm.worker_msgs \in [WorkerId -> Seq(Message)]
    /\ comm.client_task_finished \in Seq(TaskId)
    /\ comm.client_task_errors \in Seq(TaskId \X SUBSET TaskId)
    /\ comm.lost_workers \in Seq(WorkerId \X SUBSET TaskId)
    /\ inbox \in [WorkerId -> Seq(Report)]
    /\ \A w \in WorkerId :
          /\ DOMAIN held[w] \subseteq TaskId
          /\ \A t \in DOMAIN held[w] : held[w][t] \in {"queued", "started", "running"}
    /\ steals \in 0..MaxSteals

\* where the server has put a task: at the worker it is assigned to or runs
\* on, at the target while it is in steal
place(t) ==
    IF tasks[t].state = "Stealing" THEN tasks[t].target
    ELSE IF tasks[t].state \in OnWorker THEN tasks[t].worker ELSE None

\* Core::sanity_check, which TestEnv::schedule calls after every pass, holds
\* after every event: the load of a worker is the sum of the requests of
\* its tasks, a ready task has all its deps finished, and a task is in the
\* task set of the worker that the server has put it at and of no other,
\* whatever steals, late answers, cancellations and lost workers came
\* between.
sanity_check ==
    /\ \A w \in DOMAIN workers :
          /\ workers[w].load = requested(workers[w].tasks)
          /\ workers[w].tasks = {t \in DOMAIN tasks : place(t) = w}
    /\ \A t \in in_state({"Ready"}) : Deps[t] \subseteq in_state({"Finished"})
    /\ \A t \in in_state({"Assigned", "Running"}) : tasks[t].worker \in DOMAIN workers

\* The assertions of the reactor hold for every message that the server is
\* about to take: a task reported as started is assigned to the reporting
\* worker (on_task_running), a task reported as ended runs on it
\* (on_task_finished), a worker confirms a steal only of a task that is in
\* steal from it, and a task that it says it has not has ended
\* (on_steal_response), unless the task was cancelled while the message was
\* on its way.
ReactorAssertsHold ==
    \A w \in DOMAIN workers :
        inbox[w] # <<>> =>
            LET message == Head(inbox[w])
                t       == message.task
            IN  \/ tasks[t].state = "Cancelled"
                \/ /\ message.type = "TaskRunning"
                   /\ is_at(t, w, {"Assigned", "Stealing"})
                \/ /\ message.type \in {"TaskFinished", "TaskFailed"}
                   /\ is_at(t, w, {"Running"})
                \/ /\ message.type = "StealResponse"
                   /\ \/ message.response = "Ok" /\ is_at(t, w, {"Stealing"})
                      \/ message.response = "Running" /\ is_at(t, w, {"Stealing", "Running"})
                      \/ message.response = "NotHere" /\ tasks[t].state \in Terminal

\* No task is at two workers: a worker holds a task only while the server
\* has it at that worker, so that a steal which came too late
\* (on_steal_response with Running, the fail_steal of the tests) never
\* leaves the task both where it runs and at the target of the steal.
HeldByItsWorker ==
    \A w \in DOMAIN workers :
        \A t \in DOMAIN held[w] :
            tasks[t].state = "Cancelled" \/ is_at(t, w, OnWorker)

\* A client hears of the end of a task once and in the order of the graph
\* (send_client_task_finished, send_client_task_error): the tasks reported
\* as finished are those that are Finished, each reported once and after
\* every task that it consumes (on_task_finished makes a consumer ready only
\* when all of its deps are finished); the tasks reported as failed are
\* those that are Failed, and the consumers named with them are Cancelled.
ClientHearsInOrder ==
    LET finished == comm.client_task_finished
        errors   == comm.client_task_errors
    IN  /\ IsInjective(finished)
        /\ ToSet(finished) = in_state({"Finished"})
        /\ \A i \in DOMAIN finished :
              Deps[finished[i]] \subseteq {finished[j] : j \in 1..(i - 1)}
        /\ IsInjective([i \in DOMAIN errors |-> errors[i][1]])
        /\ {e[1] : e \in ToSet(errors)} = in_state({"Failed"})
        /\ \A e \in ToSet(errors) : e[2] \subseteq in_state({"Cancelled"})

\* A task that has ended stays as it ended: a report that a worker sent
\* before it was told of the cancellation, and that the server takes after
\* it (on_task_running, on_task_finished, on_task_failed and
\* on_steal_response of a task that on_cancel_tasks has cancelled), changes
\* nothing.
EndIsFinal ==
    [][\A t \in DOMAIN tasks :
          tasks[t].state \in Terminal => tasks'[t] = tasks[t]]_vars

\* The runtime implements TakoAbstract: every step of the server and of a
\* worker is one step of the life of a task, or none.  A task starts only at
\* the worker it was given to and ends only where it runs, also when a
\* steal is under way (on_task_running and on_steal_response of a task in
\* steal); a worker that is lost gives back all it had (on_worker_lost); and
\* a task that is cancelled or fails takes with it, in that step, every
\* task that consumes it, directly or not (on_cancel_tasks,
\* on_task_failed).
ImplementsTaskLife == TaskLife!Spec

\* A task does not stay with a worker for ever: a task that is assigned, in
\* steal or running is in time finished, failed, cancelled or ready again,
\* whatever is lost on the way (on_worker_lost takes back the tasks of a
\* lost worker, also those that another worker was asked to give up).
AssignmentResolves ==
    \A t \in TaskId :
        (t \in in_state(OnWorker)) ~> (t \notin in_state(OnWorker))

=============================================================================
