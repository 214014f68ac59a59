--------------------------- MODULE AutoAllocClient ---------------------------
(***************************************************************************)
(* The autoalloc commands of the client                                    *)
(* (crates/hyperqueue/src/client/commands/autoalloc.rs).                   *)
(*                                                                         *)
(* A command is one process: it connects to the server, sends one message  *)
(* and awaits one response (rpc_call!), then prints and exits.  Several    *)
(* commands run at a time, against one server.  `add` checks the backlog   *)
(* before it sends; `info` filters the allocations it got by their state.  *)
(*                                                                         *)
(* The server's side of the messages is not among the sources at hand and  *)
(* is modelled from the specification: a table of queues with ids that     *)
(* are never used again.                                                   *)
(***************************************************************************)
EXTENDS Naturals, Sequences, FiniteSets, SequencesExt

CONSTANTS
    Clients,       \* bound: the commands that run at a time
    Backlogs,      \* the values of --backlog that are tried
    WorkerCounts,  \* the values of --workers-per-alloc that are tried
    FilterTexts,   \* the values of --filter that are tried
    MaxQueues,     \* bound: the DescriptorIds the server hands out
    MaxListed,     \* bound: the allocations of an Info response
    None           \* no filter, no message, no response

VARIABLES
    session,        \* per client: the command it runs and where it stands
    queues,         \* the server: DescriptorId -> AddQueueParams
    queue_counter,  \* the server: the ids handed out so far
    effects         \* history: what the server changed for the command

vars == <<session, queues, queue_counter, effects>>

server_vars == <<queues, queue_counter, effects>>

-----------------------------------------------------------------------------
(* Values *)

DescriptorId     == 1..MaxQueues
ManagerType      == {"Pbs", "Slurm"}
AllocationStatus == {"Queued", "Running", "Finished", "Failed"}
Err              == "Err"

\* Vec<Allocation>: the id stands for everything but the status
Allocations ==
    {[i \in DOMAIN s |-> [id |-> i, status |-> s[i]]] :
        s \in BoundedSeq(AllocationStatus, MaxListed)}

\* the command line, as clap hands it to from_str and command_autoalloc
CommandLine ==
    [cmd : {"Add"}, kind : ManagerType, backlog : Backlogs,
     workers_per_alloc : WorkerCounts]
        \cup [cmd : {"Remove"}, queue_id : DescriptorId]
        \cup [cmd : {"List"}]
        \cup [cmd : {"Events"}, queue : DescriptorId]
        \cup [cmd : {"Info"}, queue : DescriptorId,
              filter : FilterTexts \cup {None}]

Message(kind, arg) == [kind |-> kind, arg |-> arg]

NoSession == [pc |-> "idle", opts |-> None, message |-> None,
              response |-> None, outcome |-> None, printed |-> None]

at(c, pc) == session[c].pc = pc

opts(c) == session[c].opts

\* the command of client c is cmd, and it has not ended
runs(c, cmd) == session[c].pc \in {"connect", "wait"} /\ opts(c).cmd = cmd

-----------------------------------------------------------------------------
(* The conversions *)

\* AllocationStateFilter::from_str
from_str(s) ==
    LET filter == [queued |-> "Queued", running |-> "Running",
                   finished |-> "Finished", failed |-> "Failed"]
    IN  IF s \in DOMAIN filter THEN filter[s] ELSE Err

\* variant that takes the two numbers of the command line for each other
create_queue_params_swapped(cmd) ==
    [params  |-> [workers_per_alloc |-> cmd.backlog,
                  backlog           |-> cmd.workers_per_alloc],
     manager |-> cmd.kind]

\* the queue or partition, the time limit, the name and the additional
\* arguments pass through and are left out
create_queue_params(cmd) ==
    [params  |-> [workers_per_alloc |-> cmd.workers_per_alloc,
                  backlog           |-> cmd.backlog],
     manager |-> cmd.kind]

\* variant that retains what it should drop
filter_allocations_inverted(allocations, filter) ==
    IF filter = None THEN allocations
    ELSE SelectSeq(allocations, LAMBDA allocation : allocation.status # filter)

filter_allocations(allocations, filter) ==
    IF filter = None THEN allocations
    ELSE SelectSeq(allocations, LAMBDA allocation : allocation.status = filter)

-----------------------------------------------------------------------------
(* rpc_call!, as the commands use it *)

finish(c, outcome, printed) ==
    session' = [session EXCEPT ![c].pc = "done", ![c].outcome = outcome,
                               ![c].printed = printed]

\* the message is sent and the response awaited
rpc_call(c, message) ==
    /\ at(c, "connect")
    /\ session' = [session EXCEPT ![c].pc = "wait", ![c].message = message]

\* the response matches the pattern of the call, or the call is an error
rpc_result(c, kinds, shown(_)) ==
    /\ at(c, "wait")
    /\ session[c].response # None
    /\ LET response == session[c].response
       IN  IF response.kind \in kinds
           THEN finish(c, "Ok", shown(response.arg))
           ELSE finish(c, Err, None)

id(x) == x

-----------------------------------------------------------------------------
(* The commands *)

\* variant that waits for the acknowledgement of another command
add_queue_expecting_removed(c) ==
    /\ runs(c, "Add")
    /\ LET created == create_queue_params(opts(c))
       IN  \/ /\ at(c, "connect")
              /\ created.params.backlog > 100
              /\ finish(c, Err, None)
           \/ /\ created.params.backlog <= 100
              /\ rpc_call(c, Message("AddQueue", created))
           \/ rpc_result(c, {"QueueRemoved"}, id)

add_queue(c) ==
    /\ runs(c, "Add")
    /\ LET created == create_queue_params(opts(c))
       IN  \/ /\ at(c, "connect")
              /\ created.params.backlog > 100
              /\ finish(c, Err, None)
           \/ /\ created.params.backlog <= 100
              /\ rpc_call(c, Message("AddQueue", created))
           \/ rpc_result(c, {"QueueCreated"}, id)

\* variant that takes any response for the acknowledgement
remove_queue_trusting(c) ==
    /\ runs(c, "Remove")
    /\ \/ rpc_call(c, Message("RemoveQueue", opts(c).queue_id))
       \/ rpc_result(c, {"QueueRemoved", "Error", "Closed"}, id)

remove_queue(c) ==
    /\ runs(c, "Remove")
    /\ \/ rpc_call(c, Message("RemoveQueue", opts(c).queue_id))
       \/ rpc_result(c, {"QueueRemoved"}, id)

print_allocation_queues(c) ==
    /\ runs(c, "List")
    /\ \/ rpc_call(c, Message("List", None))
       \/ rpc_result(c, {"List"}, id)

print_event_log(c) ==
    /\ runs(c, "Events")
    /\ \/ rpc_call(c, Message("Events", opts(c).queue))
       \/ rpc_result(c, {"Events"}, id)

print_allocations(c) ==
    /\ runs(c, "Info")
    /\ LET filtered(allocations) ==
               filter_allocations(allocations, opts(c).filter)
       IN  \/ rpc_call(c, Message("Info", opts(c).queue))
           \/ rpc_result(c, {"Info"}, filtered)

\* The command line is parsed, a filter by from_str, and the connection to
\* the server is awaited.
run(c, line) ==
    /\ at(c, "idle")
    /\ LET filter == IF line.cmd = "Info" /\ line.filter # None
                     THEN from_str(line.filter) ELSE None
           parsed == IF line.cmd = "Info"
                     THEN [line EXCEPT !.filter = filter] ELSE line
       IN  session' = [session EXCEPT ![c] =
               IF filter = Err
               THEN [NoSession EXCEPT !.pc = "done", !.opts = line, !.outcome = Err]
               ELSE [NoSession EXCEPT !.pc = "connect", !.opts = parsed]]
    /\ effects' = [effects EXCEPT ![c] = <<>>]
    /\ UNCHANGED <<queues, queue_counter>>

\* get_client_connection(..).await?
connection_refused(c) ==
    /\ at(c, "connect")
    /\ finish(c, Err, None)

command_autoalloc(c) ==
    /\ \/ connection_refused(c)
       \/ add_queue(c)
       \/ remove_queue(c)
       \/ print_allocation_queues(c)
       \/ print_event_log(c)
       \/ print_allocations(c)
    /\ UNCHANGED server_vars

\* the process of the command is over
exit(c) ==
    /\ at(c, "done")
    /\ session' = [session EXCEPT ![c] = NoSession]
    /\ UNCHANGED server_vars

-----------------------------------------------------------------------------
(* The server *)

respond(c, kind, arg) ==
    session' = [session EXCEPT ![c].message = None,
                               ![c].response = Message(kind, arg)]

changed(c, kind, queue) ==
    effects' = [effects EXCEPT ![c] = Append(@, Message(kind, queue))]

refuse(c) ==
    /\ respond(c, "Error", None)
    /\ UNCHANGED server_vars

serve_add(c, request) ==
    \/ /\ queue_counter < MaxQueues
       /\ LET queue == queue_counter + 1
          IN  /\ queue_counter' = queue
              /\ queues' = [d \in DOMAIN queues \cup {queue} |->
                               IF d = queue THEN request ELSE queues[d]]
              /\ respond(c, "QueueCreated", queue)
              /\ changed(c, "QueueCreated", queue)
    \/ refuse(c)

serve_remove(c, queue) ==
    IF queue \in DOMAIN queues
    THEN /\ queues' = [d \in DOMAIN queues \ {queue} |-> queues[d]]
         /\ respond(c, "QueueRemoved", queue)
         /\ changed(c, "QueueRemoved", queue)
         /\ UNCHANGED queue_counter
    ELSE refuse(c)

serve_read(c, request) ==
    CASE request.kind = "List" ->
            /\ respond(c, "List", DOMAIN queues)
            /\ UNCHANGED server_vars
      [] request.arg \notin DOMAIN queues -> refuse(c)
      [] request.kind = "Events" ->
            /\ respond(c, "Events", None)
            /\ UNCHANGED server_vars
      [] request.kind = "Info" ->
            /\ \E allocations \in Allocations : respond(c, "Info", allocations)
            /\ UNCHANGED server_vars

serve(c) ==
    /\ session[c].message # None
    /\ LET request == session[c].message
       IN  CASE request.kind = "AddQueue"    -> serve_add(c, request.arg)
             [] request.kind = "RemoveQueue" -> serve_remove(c, request.arg)
             [] OTHER                        -> serve_read(c, request)

\* the connection breaks: a message on its way is lost, and so is a
\* response that was not read
connection_lost(c) ==
    /\ at(c, "wait")
    /\ session' = [session EXCEPT ![c].message = None,
                                  ![c].response = Message("Closed", None)]
    /\ UNCHANGED server_vars

-----------------------------------------------------------------------------

Init ==
    /\ session = [c \in Clients |-> NoSession]
    /\ queues = <<>>
    /\ queue_counter = 0
    /\ effects = [c \in Clients |-> <<>>]

Next ==
    \E c \in Clients :
        \/ \E line \in CommandLine : run(c, line)
        \/ command_autoalloc(c)
        \/ exit(c)
        \/ serve(c)
        \/ connection_lost(c)

Spec == Init /\ [][Next]_vars

-----------------------------------------------------------------------------
(* Properties *)

AddQueueParams == [workers_per_alloc : WorkerCounts, backlog : Backlogs]

Messages ==
    [kind : {"AddQueue"}, arg : [params : AddQueueParams, manager : ManagerType]]
        \cup [kind : {"RemoveQueue", "Events", "Info"}, arg : DescriptorId]
        \cup [kind : {"List"}, arg : {None}]

\* The type invariant.  A message carries the numbers of the command line
\* in the fields they were given for (create_queue_params).
TypeOK ==
    /\ queue_counter \in 0..MaxQueues
    /\ DOMAIN queues \subseteq 1..queue_counter
    /\ \A c \in Clients :
        /\ session[c].pc \in {"idle", "connect", "wait", "done"}
        /\ session[c].message \in Messages \cup {None}
        /\ session[c].outcome \in {"Ok", Err, None}
        /\ Len(effects[c]) <= 1

done(c, cmd, outcome) ==
    /\ at(c, "done")
    /\ opts(c).cmd = cmd
    /\ session[c].outcome = outcome

\* What a command reports is what the server did for it.  `add` that
\* reports success has created exactly one queue, with the parameters of its
\* command line and a backlog of at most 100; `add` with a larger backlog
\* reports an error and has changed nothing on the server
\* (autoalloc.rs:195).  `remove` that reports success has removed the queue
\* it named, so of two `remove` of one queue that run at a time one reports
\* an error (autoalloc.rs:225).  The other commands change nothing.
ReportMatchesServer ==
    \A c \in Clients :
        /\ done(c, "Add", "Ok") =>
            /\ opts(c).backlog <= 100
            /\ Len(effects[c]) = 1
            /\ effects[c][1].kind = "QueueCreated"
            /\ session[c].printed = effects[c][1].arg
        /\ at(c, "done") /\ opts(c).cmd = "Add" /\ opts(c).backlog > 100 =>
            /\ session[c].outcome = Err
            /\ effects[c] = <<>>
        /\ done(c, "Remove", "Ok") =>
            effects[c] = <<Message("QueueRemoved", opts(c).queue_id)>>
        /\ opts(c) # None /\ opts(c).cmd \in {"List", "Events", "Info"} =>
            effects[c] = <<>>

\* A command that reports an error has left the server as it was, unless
\* its connection broke: the server answers a request it refuses without a
\* change, and a command takes the answer to its own request for success.
\* When the connection breaks after the server has acted and before the
\* response is read (autoalloc.rs:210, 225), `add` and `remove` report an
\* error for a queue that was created or removed; it is then one change,
\* the command is not sent again.
ErrorWithoutChangeUnlessLost ==
    \A c \in Clients :
        at(c, "done") /\ session[c].outcome = Err /\ effects[c] # <<>> =>
            /\ session[c].response = Message("Closed", None)
            /\ Len(effects[c]) = 1

\* the i-th of the allocations that the filter lets through
Matching(allocations, filter, i) ==
    LET keep == {k \in DOMAIN allocations :
                    filter = None \/ allocations[k].status = filter}
    IN  CHOOSE k \in keep : Cardinality({j \in keep : j <= k}) = i

\* `info` prints the allocations of the response that are in the state of
\* the filter, all of them, once, in the order of the response, and all
\* allocations without a filter (filter_allocations, autoalloc.rs:282).
InfoShowsMatching ==
    \A c \in Clients :
        done(c, "Info", "Ok") =>
            LET allocations == session[c].response.arg
                printed     == session[c].printed
                filter      == opts(c).filter
                matching    == {k \in DOMAIN allocations :
                                   filter = None \/ allocations[k].status = filter}
            IN  /\ Len(printed) = Cardinality(matching)
                /\ \A i \in DOMAIN printed :
                       printed[i] = allocations[Matching(allocations, filter, i)]

\* The queue parameters that reach the server are in the ranges that the
\* description of the interface gives: a backlog of 1 to 100 and at least
\* one worker per allocation.  add_queue tests the upper limit of the
\* backlog only (autoalloc.rs:195).
AcceptedParamsInRange ==
    \A d \in DOMAIN queues :
        /\ queues[d].params.backlog \in 1..100
        /\ queues[d].params.workers_per_alloc >= 1

=============================================================================
