------------------------------ MODULE Context -------------------------------
(***************************************************************************)
(* The Context compiler, the verifier that is kept independent of it, and  *)
(* the two read queries over what they leave behind; and the store that    *)
(* keeps the facts of a Context run.                                       *)
(*                                                                         *)
(* A caller offers candidates in whatever order it found them;  compile    *)
(* turns them into one resolved manifest or refuses.  verify re-derives    *)
(* what it can from the stored records alone.  explain and compare answer  *)
(* from those records within the scope the process grants.                 *)
(*                                                                         *)
(* Digests, slots, tiers and evidence ids are naturals because the code    *)
(* orders them;  slot 0 is the empty name and a slot above MAX_SLOT is one *)
(* longer than CONTEXT_ID_MAX_BYTES.  A content digest is injective, so    *)
(* the digest of a manifest is modelled by its preimage.                   *)
(***************************************************************************)
EXTENDS Naturals, Sequences, SequencesExt

CONSTANTS
    Candidates,      \* the candidates a caller may offer
    Budgets,         \* byte budgets a request may carry;  NoBudget is none
    Granted,         \* the tools the resolved authority grants
    MAX_SLOT,        \* longest slot name the compiler takes
    MAX_OFFERED      \* bound: candidates offered to one compilation

VARIABLES
    offered,         \* the candidates of one request, in the caller's order
    outcome          \* what compile answered, or <<>> before it ran

NoBudget == -1
Security == 1
NoReason == "none"
Placeholder == "placeholder"

-----------------------------------------------------------------------------
\* precedence.rs: the resolver.

outranks(a, b) == a < b

\* Indices of the contributions at the top tier that spoke.
TopOf(contributions) ==
    {i \in DOMAIN contributions :
        \A j \in DOMAIN contributions :
            ~ outranks(contributions[j].tier, contributions[i].tier)}

\* Mutant: the first of equal authorities wins.
ResolveFirst(contributions) ==
    IF TopOf(contributions) = {} THEN 0 ELSE Min(TopOf(contributions))

\* 0: nothing spoke;  -1: the top tier disagrees with itself;  else the winner.
resolve(contributions) ==
    LET top    == TopOf(contributions)
        values == {contributions[i].digest : i \in top}
    IN  IF top = {} THEN 0
        ELSE IF Cardinality(values) > 1 THEN -1
        ELSE Min(top)

-----------------------------------------------------------------------------
\* compile.rs

\* Standing::verdict for every standing but Ready.
verdict(standing) ==
    CASE standing = "NotEligible" -> <<"Excluded", "NotEligible">>
      [] standing = "Denied"      -> <<"Excluded", "PermissionDenied">>
      [] standing = "Quarantined" -> <<"Unavailable", "Quarantined">>
      [] standing = "Rejected"    -> <<"Unavailable", "Rejected">>
      [] standing = "PinDrift"    -> <<"Unavailable", "PinDrift">>
      [] standing = "Unreadable"  -> <<"Unavailable", "Unavailable">>

Participation(c, state, reason) ==
    [digest |-> c.digest, class |-> c.class, state |-> state, reason |-> reason]

requires_reason(state) == state \in {"Excluded", "Unavailable"}

canonical(a, b) ==
    \/ a.tier < b.tier
    \/ a.tier = b.tier /\ a.slot < b.slot
    \/ a.tier = b.tier /\ a.slot = b.slot /\ a.digest < b.digest

SlotFault(c) ==
    IF c.slot = 0 THEN "EmptySlot"
    ELSE IF c.slot > MAX_SLOT THEN "SlotTooLong"
    ELSE "none"

\* The first candidate in canonical order that the intake loop refuses.
IntakeFaults(ordered) ==
    {i \in DOMAIN ordered :
        \/ SlotFault(ordered[i]) # "none"
        \/ \E j \in 1 .. i - 1 : ordered[j].digest = ordered[i].digest}

IntakeError(ordered) ==
    LET c == ordered[Min(IntakeFaults(ordered))]
    IN  IF SlotFault(c) # "none" THEN SlotFault(c) ELSE "DuplicateCandidate"

\* The candidates that speak to a slot, in canonical order.
Group(ready, slot) == SelectSeq(ready, LAMBDA c : c.slot = slot)

SlotsOf(ready) == {ready[i].slot : i \in DOMAIN ready}

\* The budget loop: spend in canonical order, cut what does not fit, refuse
\* to cut a security constraint.
RECURSIVE Spend(_, _, _)
Spend(winners, left, acc) ==
    IF winners = <<>> THEN acc
    ELSE LET c    == Head(winners)
             fits == left = NoBudget \/ c.bytes <= left
             rest == IF left = NoBudget \/ ~fits THEN left ELSE left - c.bytes
         IN  IF ~fits /\ c.tier = Security
             THEN [acc EXCEPT !.error = "SecurityCut"]
             ELSE Spend(Tail(winners), rest,
                    IF ~fits
                    THEN [acc EXCEPT !.rows = @ \cup
                            {Participation(c, "Excluded", "BudgetCut")}]
                    ELSE [acc EXCEPT
                            !.rows  = @ \cup {Participation(c, "Active", NoReason)},
                            !.bytes = @ + c.bytes,
                            !.tools = @ \cup {<<c.digest, c.tools \cap Granted>>}])

ByDigest(rows) == SetToSortSeq(rows, LAMBDA a, b : a.digest < b.digest)

manifest_digest(m) == <<"sha256", [m EXCEPT !.manifest_digest = Placeholder]>>

Refused(error) == [ok |-> FALSE, error |-> error]

\* The manifest of a finished pass: rows by digest, evidence sorted and
\* deduplicated, the digest taken over the placeholder.
Manifest(request, spent) ==
    LET draft == [id |-> request.id, attempt |-> request.attempt,
                  manifest_digest |-> Placeholder,
                  route |-> request.route, authority |-> request.authority,
                  source_count |-> Cardinality(spent.tools),
                  source_bytes |-> spent.bytes,
                  participations |-> ByDigest(spent.rows),
                  evidence |-> SetToSortSeq(ToSet(request.evidence), <)]
    IN  [draft EXCEPT !.manifest_digest = manifest_digest(draft)]

compile(request, candidates) ==
    LET ordered == SortSeq(candidates, canonical)
        ready   == SelectSeq(ordered, LAMBDA c : c.standing = "Ready")
        judged  == {Participation(c, verdict(c.standing)[1], verdict(c.standing)[2]) :
                        c \in {d \in ToSet(candidates) : d.standing # "Ready"}}
        winner(slot) == Group(ready, slot)[resolve(Group(ready, slot))]
        lost    == {Participation(c, "Excluded", "PrecedenceLoss") :
                        c \in {d \in ToSet(ready) : winner(d.slot) # d}}
        winners == SelectSeq(ready, LAMBDA c : winner(c.slot) = c)
        spent   == Spend(winners, request.budget,
                         [rows |-> judged \cup lost, bytes |-> 0, tools |-> {},
                          error |-> "none"])
    IN  IF IntakeFaults(ordered) # {} THEN Refused(IntakeError(ordered))
        ELSE IF \E s \in SlotsOf(ready) : resolve(Group(ready, s)) = -1
             THEN Refused("PrecedenceConflict")
        ELSE IF spent.error # "none" THEN Refused(spent.error)
        ELSE IF Cardinality(spent.rows) # Len(candidates) THEN Refused("Incomplete")
        ELSE IF \E t \in spent.tools : ~ (t[2] \subseteq Granted) THEN Refused("Widened")
        ELSE [ok |-> TRUE, manifest |-> Manifest(request, spent),
              tools |-> spent.tools]

-----------------------------------------------------------------------------
\* verify.rs.  A package is a manifest with the supplements found beside it;
\* release and finalization are sets of at most one record.

Ascending(s) == \A i \in 1 .. Len(s) - 1 : s[i] < s[i + 1]

evidence_is_ordered_and_unique(ids) == Ascending(ids)

verify_manifest(m) ==
    LET rows == m.participations
    IN  IF manifest_digest(m) # m.manifest_digest THEN "ManifestDigest"
        ELSE IF \E i \in 1 .. Len(rows) - 1 : rows[i].digest = rows[i + 1].digest
             THEN "ParticipationDuplicate"
        ELSE IF \E i \in 1 .. Len(rows) - 1 : rows[i].digest > rows[i + 1].digest
             THEN "ParticipationOrder"
        ELSE IF m.source_count #
                Cardinality({i \in DOMAIN rows : rows[i].state = "Active"})
             THEN "SourceCount"
        ELSE IF ~ evidence_is_ordered_and_unique(m.evidence) THEN "EvidenceOrder"
        ELSE "ok"

binds_to(named, expected) == named = expected

\* Every evidence id any record of the package cites.
cited_evidence(p) ==
    ToSet(p.manifest.evidence)
        \cup UNION {ToSet(r.evidence) : r \in p.release \cup p.finalization}
        \cup UNION {ToSet(p.observations[i].evidence) : i \in DOMAIN p.observations}

\* Which of several faults is named is left to the first kind found.
verify(p, known) ==
    LET base == verify_manifest(p.manifest)
        all  == p.release \cup ToSet(p.observations) \cup p.finalization
    IN  IF base # "ok" THEN base
        ELSE IF \E r \in all : ~ binds_to(r.manifest, p.manifest.id)
             THEN "SupplementBinding"
        ELSE IF \E r \in all : ~ evidence_is_ordered_and_unique(r.evidence)
             THEN "EvidenceOrder"
        ELSE IF \E i \in DOMAIN p.observations : p.observations[i].index # i
             THEN "ObservationSequence"
        ELSE IF \E f \in p.finalization : f.observations # Len(p.observations)
             THEN "ObservationCount"
        ELSE IF p.release = {} /\ \E f \in p.finalization : f.complete
             THEN "LifecycleIncomplete"
        ELSE IF ~ (cited_evidence(p) \subseteq known) THEN "EvidenceUnresolved"
        ELSE "ok"

-----------------------------------------------------------------------------
\* explain.rs: what a reader within a scope is told.

scope_admits(scope, class) == scope = "Private" \/ class = "Conformance"

Visible(m, scope) ==
    SelectSeq(m.participations, LAMBDA r : scope_admits(scope, r.class))

OfInterest(m, subject) ==
    SelectSeq(m.participations, LAMBDA r :
        subject = "Participation" \/ r.reason = "PrecedenceLoss" \/ r.state = "Active")

\* Mutant: the probe reports what it withheld.
ProbeCounts(m, digest, scope) ==
    LET all == SelectSeq(m.participations, LAMBDA r : r.digest = digest)
        seen == SelectSeq(all, LAMBDA r : scope_admits(scope, r.class))
    IN  [rows |-> seen, withheld |-> Len(all) - Len(seen)]

\* A probe on a digest the caller holds: withheld and absent read the same.
ExplainSource(m, digest, scope) ==
    [rows |-> SelectSeq(Visible(m, scope), LAMBDA r : r.digest = digest),
     withheld |-> 0]

\* A listing says how many rows it withheld.
ExplainListing(m, subject, scope) ==
    LET seen == SelectSeq(OfInterest(m, subject), LAMBDA r : scope_admits(scope, r.class))
    IN  [rows |-> seen, withheld |-> Len(OfInterest(m, subject)) - Len(seen)]

verdict_of(same) == IF same THEN "Same" ELSE "Differs"

\* Two optional records of one stage, same(l, r) when both are there.
pairwise(left, right, same) ==
    IF left = {} /\ right = {} THEN "NeitherReached"
    ELSE IF right = {} THEN "OnlyLeft"
    ELSE IF left = {} THEN "OnlyRight"
    ELSE verdict_of(same)

resolved_difference(left, right, scope) ==
    [verdict |-> verdict_of(/\ Visible(left, scope) = Visible(right, scope)
                             /\ left.route = right.route
                             /\ left.authority = right.authority),
     withheld |-> Len(left.participations) - Len(Visible(left, scope))
                  + Len(right.participations) - Len(Visible(right, scope))]

Bodies(rows) == {r.body : r \in rows}

\* compare, stage by stage, over two packages.
compare(left, right, scope) ==
    [Declared  |-> "NotRecorded",
     Resolved  |-> resolved_difference(left.manifest, right.manifest, scope),
     Released  |-> pairwise(left.release, right.release,
                            Bodies(left.release) = Bodies(right.release)),
     Observed  |-> pairwise(ToSet(left.observations), ToSet(right.observations),
                            [i \in DOMAIN left.observations |->
                                left.observations[i].body]
                            = [i \in DOMAIN right.observations |->
                                right.observations[i].body]),
     Finalized |-> pairwise(left.finalization, right.finalization,
                            Bodies(left.finalization) = Bodies(right.finalization))]

-----------------------------------------------------------------------------
\* One compilation: the caller collects candidates, then compiles.

CompileInit == offered = <<>> /\ outcome = <<>>

Offer ==
    /\ outcome = <<>>
    /\ Len(offered) < MAX_OFFERED
    /\ \E c \in Candidates : offered' = Append(offered, c)
    /\ UNCHANGED outcome

Compile ==
    /\ outcome = <<>>
    /\ \E b \in Budgets, ev \in {<<>>, <<2, 1, 2>>} :
          LET request == [id |-> "m", attempt |-> "a", route |-> "r",
                          authority |-> "g", budget |-> b, evidence |-> ev]
          IN  outcome' = [request |-> request, result |-> compile(request, offered)]
    /\ UNCHANGED offered

CompileNext == Offer \/ Compile

-----------------------------------------------------------------------------
\* What the answer must be, said of the set of candidates and not of a pass
\* over them.

ReadySet == {c \in ToSet(offered) : c.standing = "Ready"}

\* The ready candidate that outranks every other of its slot.
Wins(c) == \A d \in ReadySet : d # c /\ d.slot = c.slot => outranks(c.tier, d.tier)

Tied(c) == \E d \in ReadySet : /\ d # c /\ d.slot = c.slot /\ d.tier = c.tier
                               /\ \A e \in ReadySet : e.slot = c.slot => ~outranks(e.tier, c.tier)

RowOf(m, c) == CHOOSE r \in ToSet(m.participations) : r.digest = c.digest

ActiveIn(m) == {c \in ToSet(offered) : RowOf(m, c).state = "Active"}

BytesOf(S) == FoldSet(LAMBDA c, sum : sum + c.bytes, 0, S)

\* A manifest accounts for every candidate, once.
ManifestAccounts ==
    LET m == outcome.result.manifest
        b == outcome.request.budget
    IN  /\ verify_manifest(m) = "ok"
        /\ Len(m.participations) = Len(offered)
        /\ {r.digest : r \in ToSet(m.participations)} = {c.digest : c \in ToSet(offered)}
        /\ ActiveIn(m) \subseteq {c \in ReadySet : Wins(c)}
        /\ b # NoBudget => BytesOf(ActiveIn(m)) <= b
        /\ m.source_bytes = BytesOf(ActiveIn(m))
        /\ \A c \in {d \in ReadySet : Wins(d)} \ ActiveIn(m) :
              /\ c.tier # Security
              /\ BytesOf({d \in ActiveIn(m) : canonical(d, c)}) + c.bytes > b
        /\ \A t \in outcome.result.tools : t[2] \subseteq Granted
        /\ \A r \in ToSet(m.participations) :
              requires_reason(r.state) <=> r.reason # NoReason

\* A refusal has its reason in the set of candidates.
RefusalHasReason ==
    LET e == outcome.result.error
    IN  \/ e \in {"EmptySlot", "SlotTooLong"} /\ \E c \in ToSet(offered) : SlotFault(c) = e
        \/ e = "DuplicateCandidate"
           /\ \E i, j \in DOMAIN offered : i # j /\ offered[i].digest = offered[j].digest
        \/ e = "PrecedenceConflict" /\ \E c \in ReadySet : Tied(c)
        \/ e = "SecurityCut" /\ outcome.request.budget # NoBudget
           /\ BytesOf({c \in ReadySet : Wins(c) /\ c.tier = Security})
                 > outcome.request.budget

(***************************************************************************)
(* The compiler answers the set of candidates, whatever order the caller   *)
(* enumerated them in (compile.rs).  A manifest has one row for every      *)
(* candidate: a source is active only as the single ready source of        *)
(* highest authority for its slot and within the budget, a winner is cut   *)
(* only when it did not fit beside what outranks it and never when it is a *)
(* security constraint, no tool exceeds the authority, and the manifest    *)
(* passes the verifier, which shares no code with the compiler.  A refusal *)
(* is an unusable slot, a digest offered twice, two equal authorities in   *)
(* one slot, or a security constraint that does not fit.                   *)
(***************************************************************************)
CompileAnswersTheSet ==
    outcome # <<>> => IF outcome.result.ok THEN ManifestAccounts ELSE RefusalHasReason

(***************************************************************************)
(* A probe never lets a reader of conformance content tell a private       *)
(* source that took part from one that did not (explain.rs, the module     *)
(* comment): the answer on a manifest is the answer on the manifest        *)
(* without its private rows, for every digest.  A listing withholds        *)
(* exactly the rows it does not show.                                      *)
(***************************************************************************)
ProbeTellsNothing ==
    outcome # <<>> /\ outcome.result.ok =>
        LET m == outcome.result.manifest
            public == [m EXCEPT !.participations = Visible(m, "Conformance")]
        IN  /\ \A c \in Candidates :
                  ExplainSource(m, c.digest, "Conformance")
                      = ExplainSource(public, c.digest, "Conformance")
            /\ \A s \in {"Precedence", "Participation"}, g \in {"Private", "Conformance"} :
                  Len(ExplainListing(m, s, g).rows) + ExplainListing(m, s, g).withheld
                      = Len(ExplainListing(m, s, "Private").rows)
            /\ resolved_difference(m, public, "Conformance").verdict = "Same"

-----------------------------------------------------------------------------
(***************************************************************************)
(* The Context facts of the kernel: record_context_fact appends one fact   *)
(* and projects it into the four immutable truth tables, under the writer  *)
(* lock from the epoch check to the commit, so one call is one step.       *)
(*                                                                         *)
(* Callers send the same request again after a lost answer, reuse a key    *)
(* for another fact, and race each other;  the content store seals classes *)
(* beside them;  an operator activates the epoch.                          *)
(*                                                                         *)
(* A fact is a record whose kind is its event name.  What the store only   *)
(* copies (digests of rendered text, byte counts, times) is its body.      *)
(***************************************************************************)

CONSTANTS
    Scripts,         \* what may happen around the store: each has the requests
                     \* [project, key, fact] callers may send, any number of times, the
                     \* <<digest, class>> the content store may seal, and the
                     \* attempts that may be dispatched
    MAX_FACTS        \* bound: events in the log

VARIABLES
    script,          \* the one of Scripts this behaviour follows
    log,             \* [project, aggregate, key, fact] in commit order
    attempts,        \* attempt rows
    tables,          \* the four truth tables, each a set of rows
    sealed,          \* gwk.context_blob: <<digest, class>>
    epoch            \* "Sealed" until it is "Active"

recordVars == <<script, log, attempts, tables, sealed, epoch>>

ManifestFacts == {"CompilationRequested", "ManifestResolved",
                  "ManifestVerificationRecorded", "ReleaseRecorded"}
RunFacts == {"RunOpened", "ObservationAppended", "RunClosed", "AssuranceCertified"}

\* ContextEventName::aggregate
aggregate(kind) ==
    IF kind \in ManifestFacts THEN "context_manifest"
    ELSE IF kind \in RunFacts THEN "context_run"
    ELSE "context_optimization"

-----------------------------------------------------------------------------
\* Reading the store.

ManifestRow(id) == {m \in tables.manifest : m.id = id}

require_manifest(id) == ManifestRow(id) # {}

\* The aggregate a fact belongs to;  empty when a manifest must be looked up
\* and is not there.
route_of(fact) ==
    IF fact.kind \in {"ManifestVerificationRecorded", "ReleaseRecorded"}
    THEN {<<aggregate(fact.kind), m.attempt>> : m \in ManifestRow(fact.manifest)}
    ELSE {<<aggregate(fact.kind), fact.subject>>}

\* Mutant: a key is looked up within its aggregate only.
AggregateEventsForKey(project, route, key) ==
    {i \in DOMAIN log : log[i].key = key /\ log[i].aggregate = route}

\* Every event that could make the key a reuse, in the project or on the
\* aggregate.
events_for_key(project, route, key) ==
    {i \in DOMAIN log : /\ log[i].key = key
                        /\ log[i].project = project \/ log[i].aggregate = route}

aggregate_version(route) == Cardinality({i \in DOMAIN log : log[i].aggregate = route})

\* The newest verification recorded for a manifest, as a set.
Verifications(id) ==
    {i \in DOMAIN log : /\ log[i].fact.kind = "ManifestVerificationRecorded"
                        /\ log[i].fact.manifest = id}

\* Mutant: any verification with that digest will do.
VerifiedOnce(id, claimed) ==
    LET all == Verifications(id)
    IN  IF all = {} THEN "not_found"
        ELSE IF \E i \in all : log[i].fact.verdict = "Verified" /\ log[i].fact.digest = claimed
             THEN "ok" ELSE "validation"

require_verified(id, claimed) ==
    LET all == Verifications(id)
    IN  IF all = {} THEN "not_found"
        ELSE LET last == log[Max(all)].fact
             IN  IF last.verdict = "Verified" /\ last.digest = claimed
                 THEN "ok" ELSE "validation"

\* No participation is stated under another class than its bytes were
\* sealed under.
ClassesStand(m) ==
    \A r \in ToSet(m.participations), s \in sealed :
        s[1] = r.digest => s[2] = r.class

\* Mutant: one sequence of observations over all manifests.
HighestAnywhere(id) == Max({0} \cup {o.index : o \in tables.observation})

Highest(id) == Max({0} \cup {o.index : o \in {p \in tables.observation : p.manifest = id}})

IdTaken(table, id) == \E r \in tables[table] : r.id = id

\* Mutant: the one-per-manifest checks are left to the tables.
NeverTaken(table, id) == FALSE
ManifestTaken(table, id) == \E r \in tables[table] : r.manifest = id

precheck(fact, version) ==
    CASE fact.kind = "ManifestResolved" ->
            IF fact.subject \notin attempts THEN "not_found"
            ELSE IF \/ IdTaken("manifest", fact.record.id)
                    \/ \E m \in tables.manifest : m.attempt = fact.subject
                 THEN "conflict"
            ELSE IF ~ ClassesStand(fact.record) THEN "validation"
            ELSE "ok"
      [] fact.kind = "ReleaseRecorded" ->
            IF IdTaken("release", fact.id) \/ ManifestTaken("release", fact.manifest)
            THEN "conflict" ELSE "ok"
      [] fact.kind = "RunOpened" ->
            IF version # 0 THEN "conflict"
            ELSE IF ~ require_manifest(fact.manifest) THEN "not_found"
            ELSE "ok"
      [] fact.kind = "ObservationAppended" ->
            IF version = 0 \/ ~ require_manifest(fact.manifest) THEN "not_found"
            ELSE IF IdTaken("observation", fact.id) THEN "conflict"
            ELSE IF fact.index # Highest(fact.manifest) + 1 THEN "validation"
            ELSE "ok"
      [] fact.kind = "RunClosed" -> IF version = 0 THEN "not_found" ELSE "ok"
      [] fact.kind = "AssuranceCertified" ->
            IF version = 0 \/ ~ require_manifest(fact.manifest) THEN "not_found"
            ELSE IF IdTaken("finalization", fact.id)
                    \/ ManifestTaken("finalization", fact.manifest) THEN "conflict"
            ELSE require_verified(fact.manifest, fact.digest)
      [] OTHER -> "ok"

-----------------------------------------------------------------------------
\* apply_context_event: one row per fact that has a table.  An id already
\* there is skipped;  any other constraint of the tables fails the insert.

TableOf(kind) ==
    CASE kind = "ManifestResolved"    -> "manifest"
      [] kind = "ReleaseRecorded"     -> "release"
      [] kind = "ObservationAppended" -> "observation"
      [] kind = "AssuranceCertified"  -> "finalization"
      [] OTHER -> "none"

RowFor(fact) ==
    CASE fact.kind = "ManifestResolved" -> fact.record
      [] fact.kind = "ReleaseRecorded" ->
            [id |-> fact.id, manifest |-> fact.manifest, body |-> fact.body,
             evidence |-> fact.evidence]
      [] fact.kind = "ObservationAppended" ->
            [id |-> fact.id, manifest |-> fact.manifest, index |-> fact.index,
             body |-> fact.body, evidence |-> fact.evidence]
      [] fact.kind = "AssuranceCertified" ->
            [id |-> fact.id, manifest |-> fact.manifest, digest |-> fact.digest,
             observations |-> fact.observations, complete |-> fact.complete,
             body |-> fact.body, evidence |-> fact.evidence]

\* The unique constraints and references of the four tables.
Violates(table, row) ==
    CASE table = "manifest" ->
            row.attempt \notin attempts \/ \E r \in tables.manifest : r.attempt = row.attempt
      [] table = "observation" ->
            \/ ~ require_manifest(row.manifest)
            \/ \E r \in tables.observation : r.manifest = row.manifest /\ r.index = row.index
      [] OTHER -> ~ require_manifest(row.manifest)
                  \/ \E r \in tables[table] : r.manifest = row.manifest

apply_context_event(fact) ==
    LET table == TableOf(fact.kind)
    IN  IF table = "none" \/ IdTaken(table, RowFor(fact).id)
        THEN tables
        ELSE [tables EXCEPT ![table] = @ \cup {RowFor(fact)}]

InsertFails(fact) ==
    LET table == TableOf(fact.kind)
    IN  /\ table # "none"
        /\ ~ IdTaken(table, RowFor(fact).id)
        /\ Violates(table, RowFor(fact))

-----------------------------------------------------------------------------
\* What a call answers, in the order record_context_fact decides it.

Replay(i) == <<"replayed", i>>

\* The event of a request whose route is known.
Event(r) ==
    [project |-> r.project, aggregate |-> CHOOSE a \in route_of(r.fact) : TRUE,
     key |-> r.key, fact |-> r.fact]

\* Mutant: the prechecks run before the key is answered.
AnswerChecksFirst(r) ==
    IF epoch # "Active" THEN <<"sealed">>
    ELSE IF route_of(r.fact) = {} THEN <<"not_found">>
    ELSE LET route  == CHOOSE a \in route_of(r.fact) : TRUE
             stored == events_for_key(r.project, route, r.key)
             check  == precheck(r.fact, aggregate_version(route))
         IN  IF check # "ok" THEN <<check>>
             ELSE IF stored # {} THEN Replay(Min(stored))
             ELSE <<"appended">>

Answer(r) ==
    IF epoch # "Active" THEN <<"sealed">>
    ELSE IF route_of(r.fact) = {} THEN <<"not_found">>
    ELSE LET route  == CHOOSE a \in route_of(r.fact) : TRUE
             stored == events_for_key(r.project, route, r.key)
         IN  IF stored # {}
             THEN IF /\ Cardinality(stored) = 1
                     /\ \A i \in stored : log[i] = Event(r)
                  THEN Replay(Min(stored))
                  ELSE <<"conflict">>
             ELSE LET check == precheck(r.fact, aggregate_version(route))
                  IN  IF check # "ok" THEN <<check>>
                      ELSE IF InsertFails(r.fact) THEN <<"storage">>
                      ELSE <<"appended">>

record_context_fact(r) ==
    /\ Answer(r) = <<"appended">>
    /\ Len(log) < MAX_FACTS
    /\ log' = Append(log, Event(r))
    /\ tables' = apply_context_event(r.fact)
    /\ UNCHANGED <<script, attempts, sealed, epoch>>

\* The content store seals a digest nobody sealed before.
Seal(s) ==
    /\ \A t \in sealed : t[1] # s[1]
    /\ sealed' = sealed \cup {s}
    /\ UNCHANGED <<script, log, attempts, tables, epoch>>

\* A dispatch creates the attempt's row.
CreateAttempt(a) ==
    /\ a \notin attempts
    /\ attempts' = attempts \cup {a}
    /\ UNCHANGED <<script, log, tables, sealed, epoch>>

\* The operator's one activation;  an epoch is never sealed again.
ActivateEpoch ==
    /\ epoch = "Sealed"
    /\ epoch' = "Active"
    /\ UNCHANGED <<script, log, attempts, tables, sealed>>

RecordInit ==
    /\ script \in Scripts
    /\ log = <<>> /\ attempts = {} /\ sealed = {} /\ epoch = "Sealed"
    /\ tables = [manifest |-> {}, release |-> {}, observation |-> {}, finalization |-> {}]

RecordNext ==
    \/ \E r \in script.requests : record_context_fact(r)
    \/ \E s \in script.seals : Seal(s)
    \/ \E a \in script.attempts : CreateAttempt(a)
    \/ ActivateEpoch

-----------------------------------------------------------------------------
\* The read port, and the queries over it.

ObservationsOf(id) ==
    SetToSortSeq({o \in tables.observation : o.manifest = id},
                 LAMBDA a, b : a.index < b.index)

PackageOf(m) ==
    [manifest |-> m, observations |-> ObservationsOf(m.id),
     release |-> {r \in tables.release : r.manifest = m.id},
     finalization |-> {r \in tables.finalization : r.manifest = m.id}]

\* ContextQuery::validate and the refusals of evaluate.
evaluate(query, scope) ==
    IF query.kind = "Compare" /\ query.left = query.right THEN <<"Malformed">>
    ELSE IF query.kind \notin {"Explain", "Compare"} THEN <<"NotEvaluable">>
    ELSE IF query.kind = "Compare" /\ "run" \in {query.left[1], query.right[1]}
         THEN <<"SubjectNotServed">>
    ELSE LET named == IF query.kind = "Explain" THEN {query.manifest}
                      ELSE {query.left[2], query.right[2]}
             row(id) == CHOOSE m \in ManifestRow(id) : TRUE
         IN  IF \E id \in named : ~ require_manifest(id) THEN <<"NoSuchManifest">>
             ELSE IF query.kind = "Compare"
                  THEN <<"ok", compare(PackageOf(row(query.left[2])),
                                       PackageOf(row(query.right[2])), scope)>>
             ELSE IF query.subject = "Source"
                  THEN <<"ok", ExplainSource(row(query.manifest), query.digest, scope)>>
             ELSE <<"ok", ExplainListing(row(query.manifest), query.subject, scope)>>

-----------------------------------------------------------------------------
(***************************************************************************)
(* Every fact that has a table leaves exactly the row it states, and every *)
(* row comes from a fact (context.rs, apply_context_event): the prechecks  *)
(* cover what the tables would refuse or, with ON CONFLICT DO NOTHING,     *)
(* silently skip, so no committed fact is lost and no call fails inside    *)
(* the database after its checks passed.                                   *)
(***************************************************************************)
FactsLeaveTheirRows ==
    /\ \A table \in DOMAIN tables :
          tables[table] = {RowFor(log[i].fact) :
                              i \in {j \in DOMAIN log : TableOf(log[j].fact.kind) = table}}
    /\ \A i, j \in DOMAIN log :
          i # j /\ TableOf(log[i].fact.kind) # "none"
          /\ TableOf(log[i].fact.kind) = TableOf(log[j].fact.kind)
              => RowFor(log[i].fact).id # RowFor(log[j].fact).id
    /\ \A r \in script.requests : Answer(r) # <<"storage">>

(***************************************************************************)
(* A caller that lost its answer and sends the request again is told of    *)
(* the event its first call appended, however much was recorded since      *)
(* (context.rs, record_context_fact): the key is answered before the       *)
(* prechecks, which would now refuse the fact.  A key names one event of   *)
(* its project and one of its aggregate, so a key reused for another fact, *)
(* another aggregate or by another project is never taken for the retry.   *)
(***************************************************************************)
RetriesFindTheirEvent ==
    \A i \in DOMAIN log :
        /\ Answer([project |-> log[i].project, key |-> log[i].key, fact |-> log[i].fact])
              = Replay(i)
        /\ \A j \in DOMAIN log :
              i # j /\ log[i].key = log[j].key
                  => /\ log[i].project # log[j].project
                     /\ log[i].aggregate # log[j].aggregate

(***************************************************************************)
(* What the tables hold for a manifest is a package the independent        *)
(* verifier can read: it may reject what a caller claimed about the run    *)
(* (the observation count, a complete lifecycle, evidence it does not      *)
(* know), never the binding, the order or the sequence of the records the  *)
(* kernel let in.  A finalization rests on the verdict that stood when it  *)
(* was certified.                                                          *)
(***************************************************************************)
RecordsVerify ==
    /\ \A m \in tables.manifest :
          verify(PackageOf(m), cited_evidence(PackageOf(m)))
              \in {"ok", "ObservationCount", "LifecycleIncomplete"}
    /\ \A i \in DOMAIN log : log[i].fact.kind = "AssuranceCertified" =>
          \E j \in 1 .. i - 1 :
              /\ log[j].fact.kind = "ManifestVerificationRecorded"
              /\ log[j].fact.manifest = log[i].fact.manifest
              /\ log[j].fact.verdict = "Verified"
              /\ log[j].fact.digest = log[i].fact.digest
              /\ \A k \in j + 1 .. i - 1 :
                    ~ /\ log[k].fact.kind = "ManifestVerificationRecorded"
                      /\ log[k].fact.manifest = log[i].fact.manifest

=============================================================================
