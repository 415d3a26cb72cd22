---------------------------- MODULE MCPtyDelivery ----------------------------
(***************************************************************************)
(* Instances of PtyDelivery.                                               *)
(***************************************************************************)
EXTENDS PtyDelivery, TLC

CONSTANTS r1, r2

OneRequest == {r1}
TwoRequests == {r1, r2}
OneDelivery == {1}
TwoDeliveries == {1, 2}
TwoConnections == {1, 2}
RequestSymmetry == Permutations(TwoRequests)

Env(submitted, input, conns, lease, storage, leave, claims, breaks) ==
    [submitted |-> submitted, input |-> input, connections |-> conns, lease |-> lease,
     storage |-> storage, leave |-> leave, claims |-> claims, faults |-> breaks]

\* Everything fails around one command, input or control; and, with nothing
\* broken, an input and a control command of one lifetime.
Races ==
    {Env({1}, {1}, 2, FALSE, TRUE, TRUE, 2, 1),
     Env({1}, {}, 2, FALSE, FALSE, FALSE, 2, 1),
     Env({1, 2}, {1}, 1, TRUE, FALSE, FALSE, 2, 0)}

\* One request: a sound database and clients that leave, and the reverse.
Progress ==
    {Env({1}, {1}, 2, FALSE, FALSE, TRUE, 1, 1),
     Env({1}, {1}, 2, TRUE, TRUE, FALSE, 1, 1)}

\* A connection breaks under one input command.
OneBreak == {Env({1}, {1}, 2, TRUE, FALSE, FALSE, 1, 1)}
=============================================================================
