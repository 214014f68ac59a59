------------------------------ MODULE LocalComm ------------------------------
(***************************************************************************)
(* The local communication of a worker                                     *)
(* (crates/tako/src/internal/worker/localcomm.rs).                         *)
(*                                                                         *)
(* The worker listens on a unix socket.  When it starts a task it          *)
(* registers the task under a random token and hands the token to the      *)
(* task; when the task ends it unregisters the token.  A process that      *)
(* connects sends an intro message with a token, and handle_connection     *)
(* serves it as the task the token is registered for.                      *)
(*                                                                         *)
(* Every connection has a coroutine of its own (spawn_local).  It awaits   *)
(* the intro message, and then the data handler for as long as the         *)
(* connection lasts; the worker registers and unregisters in between.      *)
(* A token is a draw from a finite alphabet, so Token::new() may return a  *)
(* token that is, or once was, registered.                                 *)
(***************************************************************************)
EXTENDS Naturals, FiniteSets, Functions, TLC

CONSTANTS
    Tokens,        \* bound: the tokens that Token::new() draws from
    Tasks,         \* bound: the tasks of the worker
    Connections,   \* bound: the connections open at a time
    NoToken,       \* the worker holds no token for a task
    NoTask,        \* task_id of a connection that was not let in
    Malformed      \* an intro message that does not deserialize

VARIABLES
    registered_tokens,  \* LocalCommState: Token -> Registration (its task_id)
    token_of,           \* the worker: the token it gave to a running task
    listening,          \* start() has bound the socket
    conn                \* per connection: where handle_connection stands

vars == <<registered_tokens, token_of, listening, conn>>

\* conn[c].pc:
\*   "none"      no such connection
\*   "connecting" the peer has connected and waits in the queue of the socket
\*   "accepted"  handle_connection awaits rx.next()
\*   "intro"     a frame has arrived (conn[c].intro)
\*   "eof"       the peer has closed without a frame
\*   "serving"   datanode_connection_handler runs as conn[c].task_id
\*   "closed"    handle_connection returned Ok
\*   "failed"    handle_connection returned Err
\*   "panicked"  state_ref.get_mut() found the worker's state borrowed
\* conn[c].borrow: the coroutine holds the borrow of the worker's state
Idle == [pc |-> "none", intro |-> NoToken, task_id |-> NoTask, borrow |-> FALSE]

at(c, pc) == conn[c].pc = pc

goto(c, pc) == conn' = [conn EXCEPT ![c].pc = pc]

-----------------------------------------------------------------------------
(* LocalCommState *)

\* Token::new(): a draw of twelve alphanumeric characters after "hq0-",
\* which may repeat an earlier draw
new_raw_token == Tokens

\* variant without the test for a collision: insert replaces the entry
register_task_unchecked(registration, token) ==
    registered_tokens' =
        [k \in DOMAIN registered_tokens \cup {token} |->
            IF k = token THEN registration ELSE registered_tokens[k]]

\* The loop draws until the token is not registered; a draw that collides
\* changes nothing.  While every token is registered the loop does not end.
register_task(registration, token) ==
    /\ token \notin DOMAIN registered_tokens
    /\ registered_tokens' = registered_tokens @@ (token :> registration)

\* variant that leaves the map as it is
unregister_token_keeping(token) == UNCHANGED registered_tokens

unregister_token(token) ==
    registered_tokens' = Restrict(registered_tokens,
                                  DOMAIN registered_tokens \ {token})

\* Option<&Registration>
check_token(token) ==
    IF token \in DOMAIN registered_tokens
    THEN {registered_tokens[token]}
    ELSE {}

\* UnixListener::bind fails on a path that is bound already
start ==
    /\ ~listening
    /\ listening' = TRUE
    /\ UNCHANGED <<registered_tokens, token_of, conn>>

-----------------------------------------------------------------------------
(* The worker that starts and ends tasks *)

launch_task(t) ==
    /\ token_of[t] = NoToken
    /\ \E token \in new_raw_token :
        /\ register_task(t, token)
        /\ token_of' = [token_of EXCEPT ![t] = token]
    /\ UNCHANGED <<listening, conn>>

task_ends(t) ==
    /\ token_of[t] # NoToken
    /\ unregister_token(token_of[t])
    /\ token_of' = [token_of EXCEPT ![t] = NoToken]
    /\ UNCHANGED <<listening, conn>>

-----------------------------------------------------------------------------
(* The accept loop and the peers *)

\* a process connects to the socket, which is bound
peer_connects(c) ==
    /\ listening
    /\ at(c, "none")
    /\ goto(c, "connecting")
    /\ UNCHANGED <<registered_tokens, token_of, listening>>

\* the connections whose handle_connection has not returned
handled == {c \in Connections : conn[c].pc \in {"accepted", "intro", "eof", "serving"}}

\* variant in which the loop awaits handle_connection itself
accept_awaiting_handler(c) ==
    /\ handled = {}
    /\ at(c, "connecting")
    /\ goto(c, "accepted")
    /\ UNCHANGED <<registered_tokens, token_of, listening>>

\* listener.accept() gives a socket and handle_connection is spawned as a
\* coroutine of its own, which runs to its first await; the loop goes on to
\* the next accept.  An accept that fails is logged.
accept(c) ==
    /\ at(c, "connecting")
    /\ goto(c, "accepted")
    /\ UNCHANGED <<registered_tokens, token_of, listening>>

\* the peer sends its first frame: any token, or bytes that are no message
peer_sends(c, intro) ==
    /\ at(c, "accepted")
    /\ conn' = [conn EXCEPT ![c].pc = "intro", ![c].intro = intro]
    /\ UNCHANGED <<registered_tokens, token_of, listening>>

peer_closes(c) ==
    /\ at(c, "accepted")
    /\ goto(c, "eof")
    /\ UNCHANGED <<registered_tokens, token_of, listening>>

peer(c) ==
    \/ peer_connects(c)
    \/ \E intro \in Tokens \cup {Malformed} : peer_sends(c, intro)
    \/ peer_closes(c)

-----------------------------------------------------------------------------
(* handle_connection *)

\* rx.next() gave None
handle_connection_closed(c) ==
    /\ at(c, "eof")
    /\ goto(c, "closed")

\* bincode::deserialize(&data)?
handle_connection_malformed(c) ==
    /\ at(c, "intro")
    /\ conn[c].intro = Malformed
    /\ goto(c, "failed")

\* the coroutines that are suspended with the worker's state borrowed
borrowers == {c \in Connections : conn[c].borrow}

\* variant without drop(lc_state) and drop(state): the borrows last until
\* handle_connection returns
serve_borrowing(c, task_id) ==
    conn' = [conn EXCEPT ![c].pc = "serving", ![c].task_id = task_id,
                         ![c].borrow = TRUE]

\* The task_id is copied out of the registration and both borrows are
\* dropped before the data handler is awaited.
serve(c, task_id) ==
    conn' = [conn EXCEPT ![c].pc = "serving", ![c].task_id = task_id]

\* variant that serves whatever the lookup gives
handle_connection_intro_unchecked(c) ==
    /\ at(c, "intro")
    /\ conn[c].intro # Malformed
    /\ LET registration == check_token(conn[c].intro)
       IN  conn' = [conn EXCEPT
                ![c].pc = "serving",
                ![c].task_id = IF registration = {} THEN NoTask
                               ELSE CHOOSE task_id \in registration : TRUE]

\* The token is looked up when the frame is read, not when it was sent.
\* state_ref.get_mut() panics when another coroutine holds the state.
handle_connection_intro(c) ==
    /\ at(c, "intro")
    /\ conn[c].intro # Malformed
    /\ LET registration == check_token(conn[c].intro)
       IN  IF borrowers # {} THEN goto(c, "panicked")
           ELSE \/ /\ registration = {}
                   /\ goto(c, "failed")
                \/ \E task_id \in registration : serve(c, task_id)

\* datanode_connection_handler returns, with or without an error, and with
\* it handle_connection and what it has borrowed
datanode_connection_handler(c) ==
    /\ at(c, "serving")
    /\ \E pc \in {"closed", "failed"} :
          conn' = [conn EXCEPT ![c].pc = pc, ![c].borrow = FALSE]

handle_connection(c) ==
    /\ \/ handle_connection_closed(c)
       \/ handle_connection_malformed(c)
       \/ handle_connection_intro(c)
    /\ UNCHANGED <<registered_tokens, token_of, listening>>

\* the coroutine of a connection is over and its socket is dropped
drop(c) ==
    /\ conn[c].pc \in {"closed", "failed", "panicked"}
    /\ conn' = [conn EXCEPT ![c] = Idle]
    /\ UNCHANGED <<registered_tokens, token_of, listening>>

-----------------------------------------------------------------------------

Init ==
    /\ registered_tokens = <<>>
    /\ token_of = [t \in Tasks |-> NoToken]
    /\ listening = FALSE
    /\ conn = [c \in Connections |-> Idle]

Next ==
    \/ start
    \/ \E t \in Tasks : launch_task(t) \/ task_ends(t)
    \/ \E c \in Connections :
        \/ accept(c)
        \/ peer(c)
        \/ handle_connection(c)
        \/ datanode_connection_handler(c)
              /\ UNCHANGED <<registered_tokens, token_of, listening>>
        \/ drop(c)

Spec == Init /\ [][Next]_vars

\* The accept loop is polled when a peer has connected: it awaits nothing
\* but listener.accept(), and spawn_local returns at once.  Nothing makes a
\* peer send.
Fairness ==
    \A c \in Connections : WF_vars(accept(c))

FairSpec == Spec /\ Fairness

-----------------------------------------------------------------------------
(* Properties *)

\* The type invariant.  handle_connection serves a connection only as a
\* task: the task_id that the data handler gets was copied out of a
\* registration (localcomm.rs:142-151).
TypeOK ==
    /\ DOMAIN registered_tokens \subseteq Tokens
    /\ \A k \in DOMAIN registered_tokens : registered_tokens[k] \in Tasks
    /\ token_of \in [Tasks -> Tokens \cup {NoToken}]
    /\ listening \in BOOLEAN
    /\ \A c \in Connections :
        /\ conn[c].pc \in {"none", "connecting", "accepted", "intro", "eof",
                           "serving", "closed", "failed", "panicked"}
        /\ conn[c].borrow \in BOOLEAN
        /\ conn[c].intro \in Tokens \cup {Malformed, NoToken}
        /\ conn[c].task_id \in Tasks \cup {NoTask}
        /\ at(c, "serving") => conn[c].task_id \in Tasks

\* The registry and the worker agree: the token that the worker gave to a
\* running task is registered for that task, and every registered token is
\* the token of the task it names.  register_task keeps this by drawing
\* again on a collision, so that no task loses its registration to another
\* (localcomm.rs:76), and unregister_token by removing the entry when the
\* task ends (localcomm.rs:86).
RegistryMatchesWorker ==
    /\ \A t \in Tasks :
        token_of[t] # NoToken =>
            /\ token_of[t] \in DOMAIN registered_tokens
            /\ registered_tokens[token_of[t]] = t
    /\ \A k \in DOMAIN registered_tokens :
        token_of[registered_tokens[k]] = k

\* A peer that has connected is accepted, whatever the peers before it
\* do: a peer that never sends its intro message keeps its own coroutine
\* waiting in rx.next(), which has no timeout (localcomm.rs:137), and
\* nothing else, because the accept loop spawns handle_connection and does
\* not await it (localcomm.rs:109-116).
SilentPeerBlocksNobody ==
    \A c \in Connections : at(c, "connecting") ~> at(c, "accepted")

\* No coroutine finds the worker's state borrowed.  handle_connection takes
\* the state with state_ref.get_mut() when its intro message has arrived
\* (localcomm.rs:140), which panics while another coroutine holds a borrow;
\* a connection is served for as long as its peer likes, so the borrows
\* must end before datanode_connection_handler is awaited
\* (localcomm.rs:149-151), or the intro message of the next connection
\* brings its coroutine down.
BorrowsEndBeforeAwait ==
    \A c \in Connections : ~at(c, "panicked")

\* A connection is let in as the task that holds its token now.  The token
\* is looked up when the frame is read (localcomm.rs:140-147), by which time
\* the task it was given to may have ended and the token may have been drawn
\* again for another task: the connection is then served as the task that
\* runs under the token at that moment, and never as one that has ended.
LetInAsTokenHolder ==
    [][\A c \in Connections :
          ~at(c, "serving") /\ conn'[c].pc = "serving"
              => token_of[conn'[c].task_id] = conn[c].intro]_vars

=============================================================================
