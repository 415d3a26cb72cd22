------------------------------- MODULE Steps --------------------------------
(***************************************************************************)
(* The registry of migration steps: what the build accepts as one, and the *)
(* chain a database is carried along.                                      *)
(*                                                                         *)
(* A contract is a number, standing for its digest; MALFORMED is text that *)
(* is no digest.  A step file is named after its base and its result, and  *)
(* the registry is the files in the order of their names.                  *)
(***************************************************************************)
EXTENDS Naturals, Sequences, FiniteSets, SequencesExt
-----------------------------------------------------------------------------
(***************************************************************************)
(* The privileges the runtime role holds on the kernel's relations: what   *)
(* initialisation and migration grant, and the matrix a migration is       *)
(* refused for missing; and the guards on those relations, which a         *)
(* migration is refused for losing.                                        *)
(***************************************************************************)

History == {"event", "receipt", "ingested_record", "cost_entry", "context_manifest",
            "context_release", "context_observation", "context_finalization", "context_blob"}
Projection == {"attempt", "attention_item", "authority_grant", "command", "dispatch_node",
               "engine_session", "evidence", "gate", "lease", "message",
               "orchestrator_checkpoint", "pty_session", "pty_session_template", "task",
               "workflow_run", "worktree"}
Provenance == {"schema_fingerprint", "schema_migration"}
Blobs == {"blob", "blob_pin", "blob_upload"}

gwk == History \cup Projection \cup {"transition", "workspace_node"}
gwk_internal == Provenance \cup Blobs \cup
    {"writer", "pty_delivery", "checkpoint", "schema_migration_seq_seq"}
EXPECTED_RELATIONS == 36

\* The statements, in order, on what the role holds already: granting is
\* wholesale and only the named privileges are revoked.
privilege_statements(held) ==
    [r \in gwk \cup gwk_internal |->
        ((held[r]
            \cup (IF r \in gwk THEN {"select", "insert", "update"} ELSE {}))
            \ (IF r \in History THEN {"update"}
               ELSE IF r = "transition" THEN {"insert", "update"} ELSE {}))
            \cup (CASE r = "workspace_node" -> {"delete"}
                    [] r \in Provenance -> {"select"}
                    [] r = "writer" -> {"select", "update"}
                    [] r = "pty_delivery" -> {"select", "insert", "update"}
                    [] r \in Blobs -> {"select", "insert", "update", "delete"}
                    [] r = "checkpoint" -> {"select", "insert"}
                    [] OTHER -> {})]

grant_class(r) ==
    CASE r \in History -> "History"
      [] r = "transition" -> "Seed"
      [] r = "workspace_node" -> "TreeCache"
      [] r \in Projection -> "Projection"
      [] r \in Provenance -> "Provenance"
      [] r = "writer" -> "Lease"
      [] r = "pty_delivery" -> "Delivery"
      [] r \in Blobs -> "Blob"
      [] r = "checkpoint" -> "Snapshot"
      [] r = "schema_migration_seq_seq" -> "Nothing"

privileges(class) ==
    CASE class \in {"History", "Snapshot"} -> {"select", "insert"}
      [] class \in {"Seed", "Provenance"} -> {"select"}
      [] class \in {"Projection", "Delivery"} -> {"select", "insert", "update"}
      [] class \in {"TreeCache", "Blob"} -> {"select", "insert", "update", "delete"}
      [] class = "Lease" -> {"select", "update"}
      [] class = "Nothing" -> {}

assert_grant_matrix(held) ==
    /\ Cardinality(DOMAIN held) = EXPECTED_RELATIONS
    /\ \A r \in DOMAIN held : held[r] = privileges(grant_class(r))

\* A database nobody has granted anything on.
NothingHeld == [r \in gwk \cup gwk_internal |-> {}]

\* What a daemon refuses to run with, of the attributes its role has and the
\* privileges it holds.
RoleAttributes == {"SUPERUSER", "CREATEROLE", "CREATEDB", "BYPASSRLS"}

RuntimeViolations(role, held) ==
    (role.attributes \cap RoleAttributes)
    \cup {<<r, p>> \in {"event", "receipt"} \X {"update", "delete"} : p \in held[r]}
    \cup (IF "delete" \in held["checkpoint"] THEN {<<"checkpoint", "delete">>} ELSE {})
-----------------------------------------------------------------------------
TruncateGuarded ==
    History \cup {"transition", "task", "attempt", "message", "command", "attention_item",
                  "workflow_run", "pty_session", "pty_session_template", "schema_migration"}
DeleteGuarded == TruncateGuarded \cup {"dispatch_node"}
EXPECTED_TRUNCATE_GUARDS == 19
EXPECTED_DELETE_GUARDS == 20

\* The triggers a schema lists, those of them that raise nothing, the relations
\* with rows, and what pty_session refuses of a row half closed.
Guarded ==
    [truncate |-> TruncateGuarded, delete |-> DeleteGuarded, hollow |-> {},
     filled |-> {"event", "transition"}, half_closed |-> {"closed_without_time", "running_with_time"}]

\* Every listed relation refuses by its own guard; a delete is only tried where
\* there are rows, and at least once.
assert_protections_probes(g) ==
    /\ Cardinality(g.truncate) = EXPECTED_TRUNCATE_GUARDS
    /\ \A r \in g.truncate : <<"truncate", r>> \notin g.hollow
    /\ Cardinality(g.delete) = EXPECTED_DELETE_GUARDS
    /\ \A r \in g.delete \cap g.filled : <<"delete", r>> \notin g.hollow
    /\ g.delete \cap g.filled # {}

assert_no_half_closed_update(g) ==
    /\ "legal" \notin g.half_closed
    /\ {"closed_without_time", "running_with_time"} \subseteq g.half_closed

assert_protections_within(g) == assert_protections_probes(g) /\ assert_no_half_closed_update(g)

-----------------------------------------------------------------------------
CONSTANTS
    Contracts,        \* digests, a subset of Nat
    MALFORMED,        \* a number outside Contracts: not sixty-four hex characters
    Stems,            \* the backend migrations of this build
    INITIAL_STEMS,    \* those every database has had from its initialisation
    MAX_STEPS

VARIABLE steps        \* the registry a developer is putting together

is_sha256_hex(d) == d \in Contracts
Bases(reg) == {reg[i].base : i \in DOMAIN reg}
-----------------------------------------------------------------------------
(***************************************************************************)
(* xtask: what the build makes of the files.                               *)
(***************************************************************************)
parse_step(s) ==
    /\ ~s.commits                             \* transaction_control
    /\ is_sha256_hex(s.base) /\ is_sha256_hex(s.result) /\ s.base # s.result
    /\ IsInjective(s.carries)                 \* header_carries

Terminals(reg) == {i \in DOMAIN reg : reg[i].result \notin Bases(reg)}
Predecessors(reg, i) == {j \in DOMAIN reg : reg[j].result = reg[i].base}

\* The walk from the terminal step back: none where two steps lead to one base.
RECURSIVE Back(_, _)
Back(reg, walked) ==
    LET before == Predecessors(reg, Last(walked))
    IN  IF Len(walked) > Len(reg) \/ before = {} THEN walked
        ELSE IF Cardinality(before) > 1 THEN <<>>
        ELSE Back(reg, Append(walked, CHOOSE j \in before : TRUE))

inspect_step_chain(reg, current) ==
    /\ reg # <<>>
    /\ Cardinality(Bases(reg)) = Len(reg)
    /\ Cardinality(Terminals(reg)) = 1
    /\ \E last \in Terminals(reg) :
          reg[last].result = current /\ Len(Back(reg, <<last>>)) = Len(reg)

Claims(reg) == FlattenSeq([i \in DOMAIN reg |-> reg[i].carries])

inspect_backend_migration_claims(reg) ==
    /\ Stems # {}
    /\ IsInjective(Claims(reg))
    /\ ToSet(Claims(reg)) \subseteq Stems
    /\ Stems \subseteq INITIAL_STEMS \cup ToSet(Claims(reg))

\* Everything that must hold before a registry ships in a build of `current`.
Ships(reg, current) ==
    /\ \A i \in DOMAIN reg : parse_step(reg[i])
    /\ inspect_step_chain(reg, current)
    /\ inspect_backend_migration_claims(reg)
-----------------------------------------------------------------------------
(***************************************************************************)
(* migrate.rs: the chain from what a database records to what the binary   *)
(* carries.                                                                *)
(***************************************************************************)
Chain(c) == [ok |-> TRUE, chain |-> c]
Refusal(why) == [ok |-> FALSE, why |-> why]

StepFault(reg, i) ==
    IF ~is_sha256_hex(reg[i].base) \/ ~is_sha256_hex(reg[i].result) THEN "malformed"
    ELSE IF reg[i].base = reg[i].result THEN "self_step"
    ELSE IF \E j \in 1..(i - 1) : reg[j].base = reg[i].base THEN "branching"
    ELSE "none"

\* The fault of the first step that has one.
validate(reg) ==
    LET faulty == SelectInSeq([i \in DOMAIN reg |-> StepFault(reg, i)], LAMBDA f : f # "none")
    IN  IF faulty = 0 THEN "none" ELSE StepFault(reg, faulty)

RECURSIVE walk(_, _, _, _)
walk(reg, chain, visited, to) ==
    LET cursor == Last(visited)
        next == SelectInSeq(reg, LAMBDA s : s.base = cursor)
    IN  IF cursor = to THEN Chain(chain)
        ELSE IF next = 0 THEN Refusal("no_chain")
        ELSE IF reg[next].result \in ToSet(visited) THEN Refusal("cycle")
        ELSE walk(reg, Append(chain, reg[next]), Append(visited, reg[next].result), to)

resolve(reg, from, to) ==
    IF reg = <<>> THEN Refusal("no_steps")
    ELSE IF validate(reg) # "none" THEN Refusal(validate(reg))
    ELSE walk(reg, <<>>, <<from>>, to)
-----------------------------------------------------------------------------
(***************************************************************************)
(* A registry, one file after the other in the order of the names.         *)
(***************************************************************************)
StepFiles ==
    {[base |-> b, result |-> r, carries |-> <<>>, commits |-> c] :
        b \in Contracts \cup {MALFORMED}, r \in Contracts, c \in BOOLEAN}
    \cup {[base |-> b, result |-> r, carries |-> <<s>>, commits |-> FALSE] :
        b \in Contracts, r \in Contracts, s \in Stems \ INITIAL_STEMS}

Before(s, t) == s.base < t.base \/ (s.base = t.base /\ s.result < t.result)

StepsInit == steps = <<>>

WriteStep ==
    /\ Len(steps) < MAX_STEPS
    /\ \E s \in StepFiles :
          /\ steps # <<>> => Before(Last(steps), s)
          /\ steps' = Append(steps, s)

\* One line from one contract to another, without a detour.
IsLine(c, from, to) ==
    /\ c = <<>> => from = to
    /\ c # <<>> => c[1].base = from /\ Last(c).result = to
    /\ \A i \in 2..Len(c) : c[i].base = c[i - 1].result
    /\ \A i, j \in 1..Len(c) : c[i].result = c[j].result => i = j

\* What a database initialised at a contract has, when the registry is a line
\* that ends at `current`: the first build's stems, and those of the steps that
\* led to that contract.
HeldAt(reg, contract, current) ==
    LET ahead == ToSet(resolve(reg, contract, current).chain)
    IN  INITIAL_STEMS \cup UNION {ToSet(reg[i].carries) : i \in {j \in DOMAIN reg : reg[j] \notin ahead}}

\* A registry the build lets through carries every database it names: from each
\* base there is exactly one line to the contract of the build, and along it a
\* database is brought each backend migration it lacks once and none it has.  A
\* chain the resolver hands out is a line of registered steps in any case, and
\* it refuses only where there is none or the registry is no line.
ShippedRegistryCarries ==
    \A to \in Contracts :
        LET answer(from) == resolve(steps, from, to)
            shipped == Ships(steps, to)
        IN  \A from \in Contracts :
                /\ shipped /\ from \in Bases(steps) => answer(from).ok
                /\ shipped /\ answer(from).ok =>
                      /\ IsInjective(Claims(answer(from).chain))
                      /\ HeldAt(steps, from, to) \cap ToSet(Claims(answer(from).chain)) = {}
                      /\ HeldAt(steps, from, to) \cup ToSet(Claims(answer(from).chain)) = Stems
                /\ answer(from).ok =>
                      /\ IsLine(answer(from).chain, from, to)
                      /\ ToSet(answer(from).chain) \subseteq ToSet(steps)
                /\ ~answer(from).ok /\ answer(from).why \in {"no_chain", "cycle"} =>
                      ~\E n \in 1..Len(steps) : \E c \in [1..n -> ToSet(steps)] : IsLine(c, from, to)
=============================================================================
