--------------------------------- MODULE Fsm ---------------------------------
(***************************************************************************)
(* The four public state machines (gwk-domain fsm.rs) and the one function *)
(* that decides a transition (transition.rs).  An actor is a record with a *)
(* kind; a cursor is the row's state and version.                          *)
(***************************************************************************)
EXTENDS Naturals

TaskEdges ==
    {<<"submitted", "working">>, <<"submitted", "canceled">>,
     <<"working", "input_required">>, <<"working", "completed">>,
     <<"working", "failed">>, <<"working", "canceled">>,
     <<"input_required", "working">>, <<"input_required", "canceled">>}

AttemptEdges ==
    {<<"queued", "leased">>, <<"queued", "canceled">>,
     <<"leased", "starting">>, <<"leased", "canceled">>,
     <<"starting", "running">>, <<"starting", "failed">>,
     <<"starting", "unknown">>, <<"starting", "canceling">>,
     <<"running", "blocked">>, <<"running", "canceling">>, <<"running", "failed">>,
     <<"running", "unknown">>, <<"running", "succeeded">>,
     <<"blocked", "running">>, <<"blocked", "canceling">>,
     <<"blocked", "failed">>, <<"blocked", "unknown">>,
     <<"canceling", "canceled">>, <<"canceling", "unknown">>}

MessageEdges ==
    {<<"accepted", "delivered">>, <<"accepted", "dead_letter">>,
     <<"delivered", "acknowledged">>, <<"delivered", "dead_letter">>,
     <<"acknowledged", "applied">>, <<"acknowledged", "rejected">>,
     <<"acknowledged", "dead_letter">>}

CommandEdges ==
    {<<"issued", "targeted">>, <<"targeted", "signaled">>,
     <<"signaled", "verification_complete">>}

EDGES == [task |-> TaskEdges, attempt |-> AttemptEdges,
          message |-> MessageEdges, command |-> CommandEdges]

can_transition(entity, from, to) == <<from, to>> \in EDGES[entity]

LIVENESS_PRODUCER_KIND == "liveness_producer"

\* Only the liveness producer, with a receipt, flips running and blocked.
guard(entity, from, to, actor, receipt) ==
    entity = "attempt" /\ {from, to} = {"running", "blocked"} =>
        actor.kind = LIVENESS_PRODUCER_KIND /\ receipt

\* transition::apply on a request without a key (submission answers keyed
\* retries from the log before it asks): guard, edge, version, ceiling.
apply(entity, cursor, to, expected, actor, receipt, ceiling) ==
    /\ guard(entity, cursor.state, to, actor, receipt)
    /\ can_transition(entity, cursor.state, to)
    /\ cursor.version = expected
    /\ expected < ceiling
=============================================================================
