----------------------------- MODULE MCStreams -----------------------------
(***************************************************************************)
(* Small instances of what reaches a client over the kernel's socket: the  *)
(* event subscriptions, one connection end to end, and the socket's path.  *)
(* The three machines share no state; a behaviour runs the one that        *)
(* "which" names and leaves the others where they began.                   *)
(***************************************************************************)
EXTENDS Subscription

CONSTANT Machines    \* the machines this run exercises

VARIABLES
    which,
    (* Connection *)
    role, offered, caller, out, up, down, incoming, kernel, answers, inputs, frames,
    writing, delivery, due, applied, attached, used, taken,
    (* SocketPath *)
    parent, path, lock, daemon, listening, made, losses, fails, strayed

-----------------------------------------------------------------------------
(* Two consumers that share a connection, and one that is cut off more often. *)
Bounds(consumers, events, subscriptions, mishaps) ==
    [streams |-> consumers, log |-> events, opens |-> subscriptions, faults |-> mishaps]

SmallLimits == {Bounds({"s1", "s2"}, 1, 2, 1), Bounds({"s1"}, 2, 3, 1)}

-----------------------------------------------------------------------------
(* Every kind of client, against a kernel of today and one without raw streams. *)
Capabilities == {"pty_raw", "pty_input", "pty_control", "pty_start"}

Conn == INSTANCE Connection WITH
    client <- caller, responses <- answers, batches <- frames, stream <- attached,
    Roles <- {"Reader", "Publisher", "StartManager", "ask", "follow", "raw", "V2"},
    Offers <- {Capabilities, Capabilities \ {"pty_raw"}},
    Codes <- {"not_found", "validation", "storage", "capability", "unsupported_version"},
    Abouts <- {"any", "dispatch_node", "context_release", "command", "pty_command", "chunk", "not_base64"},
    Kept <- {1}, Due <- {1, 2}, Sizes <- 0..2, PAYLOAD_MAX <- 1, SOCKET <- 1, INCOMING <- 1,
    MAX_CALLS <- 2, MAX_STREAMED <- 2

ASSUME Conn!ConnectionAssumption

-----------------------------------------------------------------------------
(* Two daemons over one path. *)
Path == INSTANCE SocketPath WITH
    Daemons <- {"a", "b"}, MAX_FILES <- 8, MAX_LOSSES <- 2, MAX_FAILS <- 2

ASSUME Path!SocketAssumption

-----------------------------------------------------------------------------
connVars == <<role, offered, caller, out, up, down, incoming, kernel, answers, inputs, frames,
              writing, delivery, due, applied, attached, used, taken>>
pathVars == <<parent, path, lock, daemon, listening, made, losses, fails, strayed>>

MCInit ==
    /\ which \in Machines
    /\ Init  /\ (which # "subscription" => limits = Bounds({"s1"}, 2, 3, 1))
    /\ Conn!Init /\ (which # "connection" => role = "ask" /\ offered = Capabilities)
    /\ Path!Init /\ (which # "path" => parent = "private" /\ path = Path!NOTHING)

MCNext ==
    \/ /\ which = "subscription" /\ Next
       /\ UNCHANGED <<which, limits, connVars, pathVars>>
    \/ /\ which = "connection" /\ Conn!Next
       /\ UNCHANGED <<which, limits, vars, pathVars>>
    \/ /\ which = "path" /\ Path!Next
       /\ UNCHANGED <<which, limits, vars, connVars>>

\* The fairness each machine states, while that machine runs.  For the connection
\* it is asked a little less: any step of it will do.
MCFairness ==
    /\ \A s \in {"s1", "s2"} :
        /\ WF_vars(which = "subscription" /\ run(s))
        /\ WF_vars(which = "subscription" /\ admit(s) /\ stream[s].opens > 0)
    /\ WF_vars(which = "subscription" /\ Take)
    /\ SF_vars(which = "subscription" /\ Write)
    /\ WF_vars(which = "subscription" /\ Mark)
    /\ WF_vars(which = "subscription" /\ ReadAgain)
    /\ []<>~(which = "connection" /\ ENABLED Conn!Progress) \/ []<><<which = "connection">>_connVars
    /\ \A d \in {"a", "b"} : WF_pathVars(which = "path" /\ Path!Step(d))

MCSpec ==
    /\ MCInit
    /\ [][MCNext]_<<which, limits, vars, connVars, pathVars>>
    /\ MCFairness

-----------------------------------------------------------------------------
\* Connection: the two ends stay in step, and each answer is one to its call.
PipeInStep == which = "connection" => Conn!PipeInStep /\ Conn!AnswersPair

\* SocketPath: a daemon that serves under the lock is the one clients reach.
ServingReachable == which = "path" => Path!ServingReachable

\* Nobody waits for good.  A consumer catches up with the log again after every
\* append, whatever notification was lost (the consumers are alike, so one of
\* them stands for both); a call that was begun comes back without a deadline
\* having to expire; and nothing a crash or a stop leaves at the socket's path
\* keeps the service down.
NobodyWaitsForGood ==
    []<>CASE which = "subscription" -> CaughtUp("s1")
          [] which = "connection" -> ~Conn!InCall
          [] which = "path" -> Path!Served
=============================================================================
