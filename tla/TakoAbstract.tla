---------------------------- MODULE TakoAbstract ----------------------------
(***************************************************************************)
(* What the task runtime promises to a client: the life of a task.  A task *)
(* waits for what it consumes, is ready, is given to one worker at a time, *)
(* starts there, and ends once; the client hears of the end in the step in *)
(* which it happens, and whatever consumes a task that did not finish is   *)
(* cancelled with it.                                                      *)
(*                                                                         *)
(* There are no messages, no loads and no steals here.  Tako implements    *)
(* this specification: a task in steal is still given to the worker that   *)
(* may start it, so the request to give it up, the answer that comes too   *)
(* late, and every step of a worker leave the lives as they are.           *)
(***************************************************************************)
EXTENDS Naturals, Sequences, FiniteSets, TLC

CONSTANTS
    TaskId,    \* the ids of tasks
    Deps,      \* Deps[t]: the tasks that t consumes
    WorkerId,  \* the ids of workers
    None       \* no worker

VARIABLES
    life,      \* the tasks submitted so far: their state and their worker
    finished,  \* the tasks the client was told have finished, in order
    errors     \* the failures the client was told of, with what they cancelled

vars == <<life, finished, errors>>

Ended == {"Finished", "Failed", "Cancelled"}

in(states) == {t \in DOMAIN life : life[t].state \in states}

alive == DOMAIN life \ in(Ended)

At(state, w) == [state |-> state, worker |-> w]

\* ts and the tasks that consume one of them, directly or not
RECURSIVE downstream(_)
downstream(ts) ==
    LET more == {c \in DOMAIN life \ ts : Deps[c] \cap ts # {}}
    IN  IF more = {} THEN ts ELSE downstream(ts \cup more)

\* those of them that are alive
dependants(ts) == downstream(ts) \cap alive

become(ts, state) == [t \in DOMAIN life |-> IF t \in ts THEN At(state, None) ELSE life[t]]

-----------------------------------------------------------------------------

\* a batch of new tasks that consume each other or tasks submitted before
Submit(batch) ==
    /\ batch # {} /\ batch \cap DOMAIN life = {}
    /\ \A t \in batch : Deps[t] \subseteq batch \cup DOMAIN life
    /\ life' = [t \in batch |-> At(IF Deps[t] \subseteq in({"Finished"})
                                   THEN "Ready" ELSE "Waiting", None)] @@ life
    /\ UNCHANGED <<finished, errors>>

\* a task that has not started is given to a worker, or to another one
Place(t, w) ==
    /\ t \in in({"Ready", "Assigned"}) /\ life[t].worker # w
    /\ life' = [life EXCEPT ![t] = At("Assigned", w)]
    /\ UNCHANGED <<finished, errors>>

\* the task starts where it is
Start(t) ==
    /\ t \in in({"Assigned"})
    /\ life' = [life EXCEPT ![t].state = "Running"]
    /\ UNCHANGED <<finished, errors>>

\* tasks are taken back; a task that runs only with all that its worker has
Release(ts) ==
    /\ ts # {} /\ ts \subseteq in({"Assigned", "Running"})
    /\ \A t \in ts \cap in({"Running"}) :
          {x \in in({"Assigned", "Running"}) : life[x].worker = life[t].worker} \subseteq ts
    /\ life' = become(ts, "Ready")
    /\ UNCHANGED <<finished, errors>>

\* a running task finishes: the client hears of it, and what waited for
\* nothing else is ready
Finish(t) ==
    /\ t \in in({"Running"})
    /\ LET ready == {c \in in({"Waiting"}) :
                        t \in Deps[c] /\ Deps[c] \subseteq in({"Finished"}) \cup {t}}
       IN  life' = [become(ready, "Ready") EXCEPT ![t] = At("Finished", None)]
    /\ finished' = Append(finished, t)
    /\ UNCHANGED errors

\* a running task fails: the client hears of it and of all that is cancelled
Fail(t) ==
    /\ t \in in({"Running"})
    /\ life' = [become(dependants({t}), "Cancelled") EXCEPT ![t] = At("Failed", None)]
    /\ errors' = Append(errors, <<t, dependants({t}) \ {t}>>)
    /\ UNCHANGED finished

\* tasks are cancelled with all that consumes them
Cancel(ts) ==
    /\ ts # {} /\ ts \subseteq alive /\ ts = dependants(ts)
    /\ life' = become(ts, "Cancelled")
    /\ UNCHANGED <<finished, errors>>

-----------------------------------------------------------------------------

Init == life = <<>> /\ finished = <<>> /\ errors = <<>>

Next ==
    \/ \E ts \in SUBSET TaskId : Submit(ts) \/ Release(ts) \/ Cancel(ts)
    \/ \E t \in TaskId : Start(t) \/ Finish(t) \/ Fail(t)
    \/ \E t \in TaskId, w \in WorkerId : Place(t, w)

Spec == Init /\ [][Next]_vars

=============================================================================
