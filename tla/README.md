# HyperQueue: TLA+ models

HyperQueue sits between users and a batch system (PBS, SLURM). Users submit
many small tasks; the server schedules them onto workers, and its automatic
allocator asks the batch system for allocations that start those workers.
This directory holds TLA+ models of the parts of HyperQueue whose source is in
`src/`, the TLC configurations that check them, and this description.
`PROJECT.json` lists the components, the runs, the source lines every
definition stands for, the findings and the hazards.

## 1. Inventory

### The parts of the system

| Part | Source | State | Operations |
|---|---|---|---|
| AutoAllocLoop | `hyperqueue/src/server/autoalloc/process.rs` | per coroutine: the ids still to refresh, the id awaited, the iterations left, the waiting tasks not yet provided for | `autoalloc_process`, `autoalloc_tick`, `process_descriptor`, `refresh_allocations`, `schedule_new_allocations`, `autoalloc_shutdown` |
| AutoAllocState | not in `src/` (`server/autoalloc/state.rs`) | descriptor id -> queue info, allocation map, event ring | `add_descriptor`, `remove_descriptor`, `add_allocation`, `remove_allocation`, `add_event` |
| QueueHandler | not in `src/` (trait; test handlers in `process.rs`) | the batch system's view of every allocation | `schedule_allocation`, `get_allocation_status`, `remove_allocation` |
| Autoalloc client commands | `hyperqueue/src/client/commands/autoalloc.rs` | none of its own | `add_queue` (checks the backlog), `remove_queue`, `print_*`, `filter_allocations` |
| Job file submission | `hyperqueue/src/client/commands/submit/jobfile.rs` | `max_id` while the tasks are built | `build_job_submit`, `build_job_desc_individual_tasks`, `build_task`, `build_job_desc_array` |
| Worker local communication | `tako/src/internal/worker/localcomm.rs` | `registered_tokens`, the socket path | `register_task`, `unregister_token`, `check_token`, `start`, `handle_connection` |
| Tako test environment | `tako/src/tests/utils.rs` | a `Core` with tasks and workers, the messages `TestComm` collected | `new_task`, `new_workers`, `force_assign`, `start_stealing`, `fail_steal`, `finish_on_worker`, `TestComm::check_*` |
| Data objects | `tako/src/internal/server/dataobj.rs`, `dataobjmap.rs` | id -> (the workers that hold the object, size) | `DataObjectHandle::new`, `DataObjectMap::insert` |
| Dashboard home screen | `hyperqueue/src/dashboard/ui/screens/home/screen.rs` | widgets | `draw`, `update`, `handle_key` |
| Tako core (resources, workers, task graph, reactor, scheduler, comm) | not in `src/`; the design document, sections 3 to 5 and 9 | tasks with their state and worker, workers with their tasks and load | `on_new_tasks`, `on_new_worker`, `on_task_running`, `on_task_finished`, `on_task_failed`, `on_steal_response`, `on_cancel_tasks`, `on_worker_lost`, the assignment and the steal of the scheduler |

### How they interact

The server is single-threaded and cooperative. The autoallocator is one
background future: every interval it runs `autoalloc_tick`, which starts one
`process_descriptor` coroutine per allocation queue and joins them. A
coroutine borrows the shared state for a few statements, calls the queue
handler, and awaits the answer. During the await the other coroutines run, and
so do the server's other handlers: a client adds or removes a queue, tasks are
submitted and finish, and the batch system starts and ends allocations by
itself. After every await the code looks the descriptor up again
(`get_or_return!`, `get_or_continue!`).

The client commands talk to the server by RPC. The worker's local
communication accepts connections of tasks on a unix socket and lets them in
by a token that the worker registered when it started the task.

The task runtime is the other half of the server. Its reactor takes what
clients ask for (tasks, cancellations) and what workers report (a task has
started, has ended, was given up or not); its scheduler assigns ready tasks
to workers and moves assigned tasks between them. Server and worker talk
through one ordered channel in each direction, so that what the server has
decided and what a worker has done are known to the other side only later.

### What is hard

* a snapshot (`allocations_to_create`, `waiting_tasks`, the list of ids) taken
  before a loop of awaits and used after them;
* the descriptor removed, or another descriptor's coroutine running, while a
  handler call is in flight;
* a handler call that fails in the middle of a loop;
* the batch system moving an allocation on between two polls, or forgetting it;
* the event ring dropping old events while new ones must still follow the life
  of their allocation;
* saturating arithmetic and a strict comparison at their boundary;
* a tick that has to end for the next one to start;
* a queue removed while its submission is in flight, which leaves an
  allocation that nobody records;
* a token looked up when its frame is read, after the task it was given to
  has ended and the token has gone to another;
* a command whose connection breaks after the server has acted on its message;
* the id counter of a job file at the largest id;
* a task that is taken from a worker after the worker has started it;
* a report of a worker that arrives after its task was cancelled, or after
  the worker was lost.

### What must hold

* the queued allocations of a descriptor never exceed its backlog;
* an allocation the batch system knows, of a queue that exists, is recorded by
  the descriptor, so that it is polled (and removed at shutdown);
* the event log tells the life of an allocation in order and once;
* a tick creates only allocations that the waiting tasks it saw need;
* every tick ends;
* a shutdown leaves no allocation behind that the server knows of;
* a reader of the queues sees whole steps of the life of an allocation only;
* the removal of a queue costs at most the one allocation in flight;
* a connection is served for the task that holds its token when it is let in;
* a command that fails has changed nothing, unless its connection broke;
* the worker's registry of tokens and the tokens its tasks hold agree;
* a client command reports what the server did;
* the tasks of a job file get distinct ids unless the file repeats one;
* the core of the task runtime is consistent after every event, no task is
  at two workers, a task that has ended stays so, and no task stays with a
  worker for ever.

## 2. Plan

Modules, most important first. All are built; what follows is listed at the
end.

1. **`AutoAlloc`** (built): the tick, `refresh_allocations` and
   `schedule_new_allocations` with a program counter per descriptor, the
   descriptor state, and the environment (clients, jobs, batch system).
   `MCAutoAlloc` gives it values for TLC.
2. **`AutoAlloc`, shutdown** (built): `autoalloc_shutdown` with its snapshot
   and the `remove_allocation` calls, after a tick that is dropped where it
   stands.
3. **`AutoAllocClient`** (built): the five commands with their `rpc_call!`,
   `add_queue`'s parameter check against the ranges the specification gives,
   `filter_allocations` against a reference; the allocator is run on the
   parameters that the check lets through.
4. **`LocalComm`** (built): the token registry and concurrent connections
   that check their token after an await.
5. **`JobFile`** (built): the id assignment of
   `build_job_desc_individual_tasks` over bounded task lists with ids of a
   fixed width, checked against a closed-form reference.
6. **`AutoAllocAbstract`** (built): what the allocator promises to a reader
   of the queues (a queue changes by one step of the life of one allocation,
   with its event), with `AutoAlloc` shown to implement it through a
   refinement mapping.
7. **`AutoAllocTests`** (built): the unit tests of `process.rs` with their
   handlers, run on the actions of `AutoAlloc`, and their assertions.
8. **`Tako`** (built): the reactor and the scheduler that the helpers of
   `tests/utils.rs` drive (`submit_test_tasks`, `start_on_worker`,
   `start_stealing`, `finish_on_worker`, `cancel_tasks`), with `TestComm` as
   the channel to workers that are part of the model.

9. **`TakoAbstract`** (built): the life of a task as a client sees it (given
   to one worker at a time, started there, ended once, cancelled with what it
   consumes), with `Tako` shown to implement it through a refinement mapping.

To follow: the whole graphs of `submit_example_1` and `submit_example_2` and
more than one steal in `Tako`, which the state space of four tasks and two
workers does not leave room for.

## 3. `AutoAlloc`

### State

| Variable | Code |
|---|---|
| `descriptors` | `AutoAllocState`: a function from the ids of the queues that exist to `[info, allocations, events]`; `allocations` maps an allocation id to its recorded status |
| `descriptor_counter` | the ids handed out so far; an id is never used again |
| `jobs` | `job.counters.n_waiting_tasks(..)` of every job; `MinTime` is the constant `job.resources.min_time` |
| `batch` | the batch system: the sequence of the allocations submitted, each with its queue and its status; the index is the allocation id, as with the counter of the test handlers |
| `pc` | where the coroutine of a descriptor stands |
| `allocation_ids`, `allocation_id` | locals of `refresh_allocations` |
| `allocations_to_create`, `waiting_tasks` | locals of `schedule_new_allocations`; `workers_per_alloc` is read from the descriptor's info, which never changes |
| `result` | the answer of the handler call a coroutine awaits: none, pending, or what the handler gave back |
| `phase` | `running`; `aborted` once the root shutdown has dropped the tick; `removing` while `autoalloc_shutdown` awaits its calls; `stopped` |
| `removals` | `autoalloc_shutdown`: the `remove_allocation` calls of the snapshot and their results |
| `seen` | history: what `schedule_new_allocations` saw at its snapshot and how many allocations it has recorded since; no action reads it |
| `lost` | history: the allocations that the handler created and `schedule_new_allocations` returned without recording, because the queue was gone after the await (`get_or_return!`, 220); no action reads it |

Data that no property tells apart is left out: the error texts, the
timestamps, the working directory and the worker count of an allocation, the
name and the arguments of a queue, the log messages.

### Actions

Every await of the code is the border between two actions; the statements
between two awaits are one action, as on the single-threaded executor.

| `pc` | Action | Code (`process.rs`) |
|---|---|---|
| `idle` -> `refresh` | `autoalloc_tick` | 28-35, 70-80: enabled when every coroutine has returned |
| `refresh` | `refresh_snapshot(d)` | 93-97: the ids of the active allocations, or return |
| `status_call` | `refresh_call(d)` | 98-102: next id, descriptor looked up again, handler called |
| `status_wait` | `refresh_resume(d)` | 104-157: once the handler has answered, the answer applied (`on_status`, `on_status_none`, `on_status_error`), or skipped when the descriptor or the allocation is gone |
| `schedule` | `schedule_snapshot(d)` | 185-203: the two numbers, return when no task can be served |
| `queue_call` | `schedule_call(d)` | 205-214: next iteration, descriptor looked up again, handler called |
| `queue_wait` | `schedule_resume_ok(d)`, `schedule_resume_err(d)` | 216-246: the descriptor is looked up before the result is matched; on `Ok` event, allocation, `saturating_sub`, `break` |
| all `idle` | `autoalloc_shutdown_snapshot` | 38-56: one `remove_allocation` call per allocation recorded as active |
| | `autoalloc_shutdown_join` | 58-67: every call has its result |

A handler call takes three steps: the coroutine calls and is suspended
(`result[d]` is pending), the handler answers (`handler_get_allocation_status`,
`handler_schedule_allocation`), the coroutine resumes. The answer is as old as
the handler's step: between it and the resume the batch system moves on, the
queue is removed, the other coroutine runs. `handler_schedule_allocation`
changes the batch system when it answers, so an allocation exists outside
before the descriptor records it.

The rest of the server is modelled from the specification: `add_queue`,
`remove_queue`, `jobs_change`, and `batch_step`, which moves an allocation
along `Queued -> Running -> Finished | Failed`, to `Failed` or out of the batch
system's memory (`Gone`, for which `get_allocation_status` answers `None`).
`root_shutdown` drops the future of `autoalloc_process`: every coroutine
returns to `idle` with its locals and the answer it waited for; what it has
written to the descriptors stays. After it no request is served and no tick
starts. `handler_remove_allocation` answers a call of the shutdown: the
allocation leaves the batch system, or the call fails.

### Properties

| Property | Kind | What it says |
|---|---|---|
| `TypeOK` | invariant | the shape of the state; `waiting_tasks` stays within the tasks that exist |
| `QueuedWithinBacklog` | invariant | queued allocations <= backlog, per descriptor |
| `TrackedWhileQueueExists` | invariant | while the server runs, an allocation that the batch system knows and whose queue exists is in the descriptor's map, or is the answer its coroutine is about to record |
| `EventLogFollowsLifecycle` | invariant | two events of one allocation in the log are in lifecycle order, and none is repeated |
| `TickAllocationsJustified` | invariant | within one tick: queued at the snapshot + created <= backlog, and the creations before the last left servable tasks unprovided |
| `ShutdownRemovesRecorded` | invariant | after the shutdown an allocation that a descriptor holds and that is alive in the batch system is one whose `remove_allocation` failed |
| `RemovalLosesOneAllocation` | invariant | the allocations that were created and never recorded are at most one per queue, of a queue that does not exist and whose coroutine has returned |
| `ImplementsAbstract` | refinement | every step changes the descriptors as one action of `AutoAllocAbstract` does, or not at all |
| `TickTerminates` | liveness | some coroutine running leads to all idle |
| `ActiveWithinBacklog` | invariant, violated | active (queued or running) allocations <= backlog, as the specification words it |
| `ShutdownRemovesActive` | invariant, violated | after a shutdown whose calls all succeeded no allocation of an existing queue is alive in the batch system, as the comment of `autoalloc_shutdown` words it |

### Fairness

`FairSpec` assumes weak fairness of `process_descriptor(d)` and of
`handler(d)` for every `d`. A coroutine that can take a step takes one: the
executor polls every future of `join_all`, and the code between awaits runs to
the next await. A handler call returns: the code makes this assumption itself
(the handlers carry no timeout, and a command that hangs blocks the tick).
Nothing is assumed of the clients, the jobs, the batch system or the timer.

### `AutoAllocAbstract` and the refinement

`AutoAllocAbstract` has two variables, `queues` and `issued`, and no ticks,
coroutines, handler calls or batch system. Its actions are what a reader of
the queues (`list`, `info`, `events`) may see happen: `AddQueue` under an id
that no queue had before, `RemoveQueue`, `Submit` of a new allocation while
fewer allocations wait than the backlog allows, `Advance` of an active
allocation along `Queued -> Running -> Finished | Failed`, `Disappear` of an
active allocation, and `Fail`, a failed handler call. Every action but the
first two appends its event to the ring of the queue.

`AutoAlloc` instantiates it with `queues <- descriptors` and
`issued <- descriptor_counter`; everything else is hidden.
`ImplementsAbstract` is the specification of the instance, checked as a
property: the steps of the coroutines that call the handler, wait, or find
their queue gone, the steps of the jobs, the batch system and the shutdown
are stuttering steps, and every step that writes to a descriptor is one
abstract action. What makes this more than the sum of the invariants is
that an answer is as old as its await: a status `Running` applied to an
allocation that was recorded as finished meanwhile, a second
`AllocationStarted`, or a submission recorded beyond the backlog would be a
step that no abstract action allows.

### `AutoAllocTests`

The seven tests of `mod tests` in `process.rs` (274-416) with their helpers
(418-589). A test is a record: the jobs that `create_state` and `create_job`
give, the descriptor of `add_descriptor`, a handler, the number of ticks it
awaits and what it asserts after which tick. The handlers answer from
`custom_state`: `test_schedule_allocation` bails out or hands out the next id
of its counter, `test_get_allocation_status` answers `Queued`, or `Running`
once the queue time of the allocation, one less at every check, is used up.
They take the place of `handler(d)` and of the batch system; `test_tick` is
`autoalloc_tick`, counted; the coroutine is `process_descriptor(d)` of
`AutoAlloc`, unchanged. `TestInit` chooses the test.

| Property | Kind | What it says |
|---|---|---|
| `TestsPass` | invariant | after the ticks a test awaits, the descriptor holds the allocations, by status, that the test asserts |
| `TestsReturn` | liveness | every test reaches the end of its last tick |

`test_log_failed_allocation_attempt` compares the first event with
`QueueFail` in a `matches!` whose value it drops, so the test passes whatever
the event is as long as there is one; `TestsPass` checks the comparison.
`test_fill_backlog` also compares the `worker_count` of every allocation with
`workers_per_alloc`, which the model does not keep. `TestSpec` assumes weak
fairness of its next-state relation: a test is one task of a single-threaded
runtime that is driven until the test returns.

## 4. `AutoAllocClient`

`autoalloc.rs` of the client. A command is one process with one connection.

| Variable | Code |
|---|---|
| `session[c]` | the command of client `c`: `pc` (`idle`, `connect` while `get_client_connection` is awaited, `wait` while `rpc_call!` is awaited, `done`), its options, the message on its way, the response that arrived, the outcome and what was printed |
| `queues`, `queue_counter` | the server's allocation queues and the ids handed out (from the specification) |
| `effects` | history: what the server changed on behalf of the current command of each client |

| Action | Code (`autoalloc.rs`) |
|---|---|
| `run(c, line)` | the command line is parsed; `from_str` (129-141) turns the text of `--filter` into a filter or fails |
| `connection_refused(c)` | 147: `get_client_connection(..).await?` |
| `add_queue(c)` | 191-217: `create_queue_params`, the test `backlog > 100`, the message; after the await `QueueCreated` or an error |
| `remove_queue(c)`, `print_allocation_queues(c)`, `print_event_log(c)` | 219-263: message, await, the response that the pattern expects or an error |
| `print_allocations(c)` | 265-280: as above, then `filter_allocations` (282-298) |
| `serve(c)`, `connection_lost(c)`, `exit(c)` | the server answers a message; the connection breaks and the message or the unread response is lost; the process ends |

`CommandLine` stands for the option structs (17-120): the numbers and the
filter text are kept, the names of queues, the time limit and the additional
arguments pass through unchanged and are left out.

| Property | Kind | What it says |
|---|---|---|
| `TypeOK` | invariant | the shape of the state; a message carries each number of the command line in its own field |
| `ReportMatchesServer` | invariant | a command that reports success has caused exactly the change it names, a rejected backlog has caused none, a reading command never changes the server |
| `ErrorWithoutChangeUnlessLost` | invariant | a command that ends with an error has changed nothing on the server, except when its connection broke after the server had acted: then it has made one change and reports the closed connection |
| `InfoShowsMatching` | invariant | `info` prints the allocations of the response in the state of the filter, all, once, in order |
| `AcceptedParamsInRange` | invariant, violated | every queue on the server has a backlog of 1..100 and at least one worker per allocation, as the specification lists the parameters |

## 5. `LocalComm`

`localcomm.rs` of the worker.

| Variable | Code |
|---|---|
| `registered_tokens` | `LocalCommState::registered_tokens`: token -> the task of its `Registration` |
| `token_of` | the worker's record of the token it gave to each running task (outside `src/`) |
| `listening` | `start` has bound the socket |
| `conn[c]` | a connection and its coroutine: `connecting` (the peer has connected, `accept` has not returned it), `accepted` (the coroutine awaits the intro), `intro` or `eof` (what arrived), `serving` (awaits `datanode_connection_handler` as `task_id`), `closed` (`Ok`), `failed` (`Err`), `panicked` (`get_mut()` found the worker's state borrowed); `borrow` says that the suspended coroutine holds the borrow of the worker's state |

| Action | Code (`localcomm.rs`) |
|---|---|
| `launch_task(t)` with `new_raw_token`, `register_task` | 51-56, 73-83: a token that is not registered is drawn; draws that collide change nothing |
| `task_ends(t)` with `unregister_token` | 85-87 |
| `start`, `accept(c)` | 105-123: bind, then the accept loop that takes a connection and spawns `handle_connection` for it without awaiting it |
| `peer(c)` | the process on the other side connects, sends any token, bytes that are no message, or closes |
| `handle_connection(c)` | 135-158: after the await of the first frame, `closed` on end of stream, `failed` on a frame that does not deserialize or a token that `check_token` does not know, else `serve`: the `task_id` is copied out of the registration and both borrows are dropped (149-150) before the data handler is awaited. `get_mut()` (140) panics when one of `borrowers` holds the state |
| `datanode_connection_handler(c)`, `drop(c)` | the data handler returns; the coroutine is over |

`Tokens` is small, so that a draw collides with a registered token and a
token is registered again after its task has ended. `data_access_key` (the
socket path and the token joined into one string) is left out;
`run_local_comm` repeats the accept loop of `start` and nothing calls it.

| Property | Kind | What it says |
|---|---|---|
| `TypeOK` | invariant | the shape of the state; a connection is served only under the id of a task |
| `RegistryMatchesWorker` | invariant | `registered_tokens` is the inverse of the worker's record: no task loses its token to another, no token stays behind |
| `BorrowsEndBeforeAwait` | invariant | no coroutine panics at `get_mut()`: a coroutine that awaits its data handler has given back the worker's state, so the intro of the next connection is read while others are served |
| `SilentPeerBlocksNobody` | liveness | a peer that has connected is accepted, whatever the peers accepted before it do: the accept loop spawns a handler and does not wait for it, so a peer that never sends its intro holds up its own connection only |
| `LetInAsTokenHolder` | action property | the step that lets a connection in serves it under the task that holds the token of its intro message at that step, whoever held the token when the message was sent |

`FairSpec` assumes weak fairness of `accept(c)`: the accept loop is polled
once a peer has connected, because it awaits nothing but
`listener.accept()` and `spawn_local` returns at once. Nothing is assumed of
the peers, which may stay silent for ever. That an intro message which has
arrived is answered is not a property of its own: between the frame and the
await of the data handler (138-151) the coroutine does not suspend.

## 6. `JobFile`

`submit/jobfile.rs` of the client. The conversions are operators:
`create_stdio`, `build_task_description`, `build_task`,
`build_job_desc_array`, `build_job_desc_individual_tasks`, `build_job_submit`.
`write_task`, `write_array` and `write_data_layer` compose a `JobDef` piece
by piece, and `submit_computation_from_job_file` applies `build_job_submit`
to it, so that TLC runs the operators over every file within the bounds.

`JobTaskId` has `IdBits` bits. `max_id + 1` in `build_task` overflows when the
file holds the largest id and a task without one; the action then has two
outcomes, the panic of a debug build and the wrapped id of a release build.
A file that cannot be read or is no job definition (171-173) ends the
command with `Error` and no request.

| Property | Kind | What it says |
|---|---|---|
| `TypeOK` | invariant | the request holds ids of the width of `JobTaskId` and complete task descriptions |
| `GeneratedIdsFresh` | invariant | short of an overflow, two tasks of the request share an id only when the file gave both that id |
| `IdsMatchReference` | invariant | the loop that carries `max_id` from task to task gives the k-th task without id the largest id of the file plus k |

## 7. `Tako`

The task runtime as `tests/utils.rs` of tako drives it. The repository holds
the test environment and not the reactor and the scheduler that it calls:
`TestEnv`, `TestComm` and the helpers are translated from the source, the
handlers of the reactor and the two decisions of the scheduler from the
design document, and the map says of every definition which of the two it
is. Nothing is claimed of the code of the core; what the run shows is that
the protocol the design document describes holds together, and what the
helpers of the tests have to expect of it.

The helpers hand a `TestComm` of their own to the reactor and drop it. The
model keeps one `comm` for the server, and workers read it: a worker keeps the
tasks of `ComputeTask`, starts them, reports the start in a step of its own,
ends them, gives up a task it has not started when a `StealRequest` asks for
it, and drops the tasks of `CancelTasks`. What a worker sends waits in
`inbox[w]` until the server takes it.

| Variable | Code |
|---|---|
| `tasks` | the tasks of the `Core`: state, the worker that has the task, and the target while it is in steal |
| `workers` | the workers of the `Core`: cpus, assigned tasks, load |
| `worker_id_counter` | `TestEnv::worker_id_counter` (78-85, 131-132) |
| `comm` | `TestComm` (355-367): `worker_msgs`, `client_task_finished`, `client_task_errors`, `lost_workers` |
| `inbox`, `held` | the messages of a worker on their way to the server; the tasks at a worker, `queued`, `started` or `running` |
| `steals` | the steals started, for the bound `MaxSteals` |

| Action | Code |
|---|---|
| `submit_test_tasks(batch)` | `utils.rs` 517-523, `on_new_tasks`: the batch is taken as a whole when its ids are new and its deps are in the batch or known, in whatever state; a task whose deps are all finished is ready |
| `cancel_tasks(ids)` | 605-612, `on_cancel_tasks` with `to_cancel`: the tasks and all that consume them are cancelled, the workers that have them are told |
| `new_workers_ext(cpus)` | 126-153, `on_new_worker` under the id of the counter |
| `schedule(t, w)` with `start_on_worker(t, w)` | the scheduler assigns a ready task to a worker with the cpus free (design document 4.4, the pass that `TestEnv::schedule` runs); what the assignment does is `start_on_worker`, 579-588: `force_assign` and `finish_scheduling` |
| `balance(t, w)` with `start_stealing(t, w)` | the scheduler asks for a task that is assigned at another worker (4.4, `TestEnv::balance`); what the steal does is `start_stealing`, 568-577: `force_reassign` and `finish_scheduling`; the load moves to the target at once, the `StealRequest` goes to the source |
| `server_receives(w)` | the reactor takes the next message of a worker: `on_task_running`, `finish_on_worker` (614-630, `on_task_finished`), `on_task_failed`, `on_steal_response` |
| `worker_lost(w)` | `on_worker_lost`: the tasks of the worker are ready again, what it had sent and was sent is gone |
| `worker_receives(w)`, `worker_starts(w, t)`, `worker_reports(w, t)`, `worker_finishes(w, t)` | the worker |

`force_assign`, `force_reassign`, `start_on_worker` and `start_stealing`
are operators without a guard: as in `utils.rs`, they assign whatever task
they are given to whatever worker. A test calls them with a task and a
worker of its choice; in the model the choice is that of the scheduler, and
the guards of `schedule` and `balance` (the state of the task,
`is_candidate`, the bound `MaxSteals`) are taken from the design document.
The model therefore has the behaviours of the helpers in which the caller
keeps to the scheduler's rules, and not those in which a test overbooks a
worker on purpose (`new_assigned_tasks_cpus`, 184-192) or assigns a task
that is not ready.

A scheduling pass is atomic and makes several decisions; the model makes one
decision per step, which reaches the same states. A steal that comes too late
is undone by whichever arrives first: the report of the start
(`on_task_running` of a task in steal) or the answer `Running` to the steal
request, after which the task is assigned to the source as before and the
report of its start follows.

| Property | Kind | What it says |
|---|---|---|
| `TypeOK` | invariant | the shape of the state; worker ids are those the counter has handed out |
| `sanity_check` | invariant | `Core::sanity_check` after every event: the load of a worker is the sum of the requests of its tasks, a ready task has its deps finished, a task is in the task set of the one worker that the server has put it at |
| `ReactorAssertsHold` | invariant | what the handlers assert of the next message of a worker is true: a start is reported of a task assigned to the sender, an end of a task that runs on it, a steal is confirmed of a task in steal from it, unless the task was cancelled meanwhile |
| `HeldByItsWorker` | invariant | a worker holds a task only while the server has the task at that worker: no task is at two workers |
| `ClientHearsInOrder` | invariant | the client hears of the end of every task once, of a finished task after all that it consumes, and the consumers named with a failed task are cancelled |
| `EndIsFinal` | action property | a task that has ended stays as it ended, whatever report arrives late |
| `AssignmentResolves` | liveness | a task that is assigned, in steal or running is in time finished, failed, cancelled or ready again |
| `ImplementsTaskLife` | refinement | every step of `Tako` is a step of `TakoAbstract` or leaves the lives of the tasks and what the client has heard as they are |

**`TakoAbstract`** has the tasks with their state and worker and the two
lists the client hears, and seven actions: `Submit`, `Place` (a task that
has not started is given to a worker, or to another one), `Start`,
`Release` (tasks are taken back from a worker, a running one only with all
that the worker has, which is what the loss of a worker does), `Finish`,
`Fail` and `Cancel` (a set of tasks that is closed under consumers). It has
no messages, no loads and no steals. The mapping `life_of` shows a task in
steal as assigned to the worker that has it, so that the steal request, the
answer that comes too late and every step of a worker are stuttering steps,
and a steal that succeeds is one `Place`. What the refinement adds to the
invariants is about steps: a task ends only from running, the client hears
of an end in the step in which it happens, and a failure or a cancellation
takes every consumer with it in the same step.

**The load can exceed the cpus of a worker.** The design document lists
"load never exceeds worker capacity" among the invariants of a worker. With
the steal it describes this cannot hold: `start_stealing` frees the cpus of
the source, the scheduler gives them to another task, and a task that had
started comes back. TLC finds the state with two workers of one cpu and two
tasks. `sanity_check` therefore says of the load what section 4.4 says (it
is the sum of the requests), and no property bounds the load by the cpus:
the reactor of the model follows the design document, so the state shows a
disagreement within that document and not one of the code.

**Fairness.** `FairSpec`, under which the run `tako_task_life` checks, asks
for weak fairness of `server_receives(w)` and
of the steps of every worker: the executor of the server runs the handler of
a message that has arrived, and a worker that is connected reads its
messages, starts what it holds and reports. Nothing is asked of the clients,
of the scheduler, or of workers joining and getting lost.

## 8. Runs

| Run | Config | Result | What it shows |
|---|---|---|---|
| `autoalloc_one_queue` | `MCAutoAlloc.cfg` | pass, 1 127 151 states | the seven invariants for one queue at a time: of the two kinds a user means to add, and of the two kinds with no worker per allocation or with backlog 0, which the client lets through |
| `autoalloc_two_queues` | `MCAutoAllocPair.cfg` | pass, 523 710 states | two coroutines that interleave at every await keep their descriptors apart, and every tick of the two ends under `FairSpec` |
| `autoalloc_refines` | `MCAutoAllocRefines.cfg` | pass, 287 052 states | `AutoAlloc` implements `AutoAllocAbstract` |
| `autoalloc_tests` | `MCAutoAllocTests.cfg` | pass, 745 states | the unit tests of `process.rs` pass on the model, and each reaches its last assertion |
| `job_file_ids` | `MCJobFile.cfg` | pass, 207 094 states | the ids of every job file of up to 3 tasks |
| `local_comm` | `MCLocalComm.cfg` | pass, 10 946 states | the registry of tokens under collisions and reuse; no coroutine is suspended with the worker's state borrowed; every intro message is answered, and a silent peer holds up no other |
| `client_commands` | `MCAutoAllocClient.cfg` | pass, 1 226 568 states | two commands at a time against one server: what a command reports is what the server did for it; `info --filter` over every list of up to 2 allocations |
| `tako_reactor` | `MCTako.cfg` | pass, 654 269 states | the invariants of `Tako` and `EndIsFinal` for three tasks submitted in any batches, one of which needs 2 cpus, two workers of 1 or 2 cpus and one steal |
| `tako_task_life` | `MCTakoLive.cfg` | pass, 153 425 states | for four tasks with a consumer of a consumer, under `FairSpec`: every assignment resolves, and `Tako` implements `TakoAbstract` |
| `client_params_range` | `MCAutoAllocClientRange.cfg` | violation after 4 steps | `add` with backlog 0 creates a queue |
| `autoalloc_backlog_active` | `MCAutoAllocActive.cfg` | violation after 20 steps | backlog 1: the allocation starts, the next tick queues a second one |
| `autoalloc_shutdown_orphan` | `MCAutoAllocShutdown.cfg` | violation after 11 steps | the server stops between the handler's submission and the coroutine's record of it |

The configurations of `AutoAlloc` have `CHECK_DEADLOCK FALSE`: after the
shutdown the server has stopped, and nothing of the model moves except the
batch system. So has `MCJobFile.cfg`: the command ends when the request is
sent, and `MCAutoAllocTests.cfg`: a test returns after its last assertion,
which `TestsReturn` shows it reaches, and `MCTako.cfg` and `MCTakoLive.cfg`:
when every task has ended and no worker is left to join, the runtime waits for a client. The
runs of `LocalComm` and `AutoAllocClient` check for deadlock: a worker can
always start or end a task, and a client can always run another command.

### Bounds

* `MaxDescriptors`: 1 in the runs on one queue, 2 elsewhere. A removed queue's
  id is not used again, so with 2 ids a queue can be removed and another added
  during a tick.
* `QueueInfos`: `(backlog 2, 1 worker, time limit 2)` and `(backlog 1, 2
  workers, time limit 1)`. Backlog 2 lets the loop run twice; 2 workers make
  the subtraction saturate. The run on one queue adds `(backlog 1, 0
  workers, time limit 2)` and `(backlog 0, 1 worker, time limit 1)`, the two
  zeros that the client's `add` does not reject; the `ASSUME` of `AutoAlloc`
  admits them. The run on two queues uses `(1, 1, 1)`, whose backlog two
  submissions overfill; the tick of a loop that runs more than once is
  shown to end by `TestsReturn` of `autoalloc_tests`.
* `Jobs`, `MinTime`, `MaxWaiting`: `j1` with `min_time` 0 fits every queue,
  `j2` with `min_time` 2 meets the time limit 2 exactly and is not served.
  Up to 2 waiting tasks each: enough for "more tasks than one allocation
  serves" and "fewer tasks than workers".
* `MaxAllocations` = 2: the batch system accepts two submissions, after which
  `schedule_allocation` only fails. Two allocations are enough to fill a
  backlog, to overfill one, and to have one allocation in each state.
* `EventCap` = 2 in the run that checks the log: the ring drops events, and two
  events of one allocation still fit. 0 in the runs that do not look at the log.
* `MCAutoAllocPair.cfg`: one job with up to 1 waiting task, which is enough
  for both queues to want an allocation in the same tick.
* `MCAutoAllocRefines.cfg`: one queue of either kind, one job, `EventCap` 2.
  The job decides whether a tick submits at all; which job it is does not
  change a descriptor. Two allocations give a start reported while another
  allocation is submitted, and a status that arrives for an allocation
  that has ended or disappeared meanwhile.
* `MCAutoAllocTests.cfg`: the numbers of the tests themselves: 1000 waiting
  tasks, time limits of 60 and 1800 seconds against a `min_time` of 3600, and
  the 6 allocations of `test_keep_backlog_filled`. `EventCap` is 8; the one
  test that reads the log reads an event that any capacity of 1 or more keeps.
* `MCJobFile.cfg`: `IdBits` = 2, so that ids are 0..3 and a file of
  `MaxTasks` = 3 tasks reaches the overflow (the id 3 and a task without id)
  as well as a file whose tasks with an id stand before, between and after
  those without.
* `MCLocalComm.cfg`: 2 tokens for 3 tasks: a draw collides, every token can be
  registered at once (the third task then waits), and a token passes from a
  task that ended to another while a connection that sent it is unread.
  2 connections: one served while the other arrives.
* `MCAutoAllocClient.cfg`: 2 clients, backlogs 100 and 101 (either side of the
  test), `MaxQueues` = 2 (a queue is removed while another command adds or
  removes one), lists of up to `MaxListed` = 2 allocations over the four
  states, and the filter texts `queued` and `running`, of which a list can
  hold one, both or none, and `Queued`, which `from_str` rejects.
  `MCAutoAllocClientRange.cfg`: backlogs 0, 1, 100, 101 and 0 or 1 worker.

* `MCTako.cfg`: the top of the graph of `submit_example_1`: two tasks
  without deps that ask for 1 cpu, which are at workers at the same time,
  and one that consumes both and asks for 2. Up to 2 workers of 1 or 2 cpus,
  each lost at any time: one holds a task while the other is asked to give
  one up, a steal loses its source or its target, a worker of 2 cpus holds
  two tasks at once, and the consumer fits one worker and not the other. The
  task that comes back from a late steal finds its worker full.
  `MaxSteals` = 1: one steal meets every state of its task and of both
  workers; a second steal would start from a state that the first can also
  start from.
* `MCTakoLive.cfg`: tasks 11, 12, 13 and 16 of `submit_example_1` (the
  graph above and a fourth task that consumes the third), with requests of
  1 cpu and workers of 1 cpu. This keeps every step of the life of a task
  (placed, stolen, started, released by a lost worker, finished, failed,
  cancelled with its consumers) and leaves out only the choice among sizes
  of workers. With the fourth task a cancellation or a failure has to reach
  a consumer of a consumer: in the graph of three tasks the closure over the
  consumers is the same as one step of it, and a reactor that stopped at the
  direct consumers would pass. `Batches`: the whole graph at once, as
  `submit_example_1` submits it, or the first three tasks and then the
  fourth, which may then arrive after what it consumes was cancelled or has
  failed. `MCTako.cfg` submits its three tasks in any batches.

The coroutines of the model may interleave between any two actions, the real
executor only at awaits. For `AutoAlloc`, `AutoAllocClient`, `LocalComm` and
`JobFile` every behaviour of the code within the bounds is a behaviour of
the model. For `Tako` this holds of the helpers as operators; the calls that
the model makes of them are those of a scheduler that keeps to the design
document (section 7).

## 9. Findings

* **The backlog bounds queued, not active allocations**
  (`process.rs:188`). The specification's glossary and its testable
  properties say a descriptor never has more active allocations than its
  backlog. The code subtracts the queued allocations only, which
  `test_keep_backlog_filled` expects (3 queued and 3 running with backlog 3).
* **The shutdown misses an allocation that was being submitted**
  (`process.rs:37`). The comment of `autoalloc_shutdown` says it removes all
  remaining active allocations; it removes those a descriptor records. The
  record is written after the await of `schedule_allocation`. When the server
  stops after the batch system has accepted the job and before the coroutine
  has resumed, the allocation waits in the batch system, no descriptor holds
  it, and the shutdown does not ask for its removal.

* **The client lets through parameters out of range**
  (`autoalloc.rs:195`). The specification gives `backlog` as 1..=100 and
  `workers_per_alloc` as at least 1. `add_queue` rejects a backlog above 100
  and nothing else, so that `--backlog 0` and `--workers-per-alloc 0` reach
  the server and a queue is created. The run `autoalloc_one_queue`, which
  has such queues, shows what the allocator then does: with backlog 0 it never submits, with
  no worker per allocation it submits up to the backlog while a task waits,
  and both of its bounds hold.

## 10. Not modelled

* What `RemoveQueue` does with the allocations of its queue: the request
  handler is not among the sources, and the model only drops the descriptor.
* Requests that arrive between the root shutdown and `autoalloc_shutdown`.
* Of the test environment of tako (`tests/utils.rs`): the accessors that
  assert on the messages of one test (`take_*`, `check_*`,
  `emptiness_check`), the notifications that no property reads
  (`client_task_running`, `new_workers`, `broadcast_msgs`,
  `need_scheduling`), `MemoryStream`, and `TaskBuilder` beyond deps and a
  request of cpus.
* `Handler::remove_allocation` of the tests of `process.rs`: no test shuts the
  allocator down, so nothing calls it.
* `run_local_comm` of `localcomm.rs`, which repeats the accept loop of
  `start` and is not called, `data_access_key`, which formats a string, and
  the encoding of a token and of the intro message: a token is a value that
  is equal to itself only.
* The parsing of a job file from TOML and the transport of the request: the
  model starts from a `JobDef` and ends with the `SubmitRequest`.
* The server's handling of the client's messages beyond the queues it adds
  and removes, which `AutoAllocClient` takes from the specification.
* The data objects: `DataObjectHandle::new` builds a record of an id, of the
  one worker that holds the object and of a size, and `DataObjectMap::insert`
  puts it into a map. Nothing among the sources reads, moves or removes a
  placement, so there is no behaviour to check.
* The dashboard screen: `draw` and `HomeLayout` lay out the terminal,
  `update` and `handle_key` pass the data and the keys on to the worker
  table, whose selection is the only state and whose code is not among the
  sources.
* Of the tako core, whose source is not at hand: generic resources, time
  limits and sockets, the keep-flag and the removal of finished tasks, the
  choice among candidate workers and the order of the ready queue, and
  `StopWorker`.
