----------------------------- MODULE MCContext -----------------------------
(***************************************************************************)
(* Small instances of the Context plane: candidates that meet every branch *)
(* of the compiler, and requests that race, repeat and contradict each     *)
(* other at the kernel.                                                    *)
(***************************************************************************)
EXTENDS Context, Skill

VARIABLE which       \* which part this behaviour exercises

Source(d, s, t, b, standing, class) ==
    [digest |-> d, slot |-> s, tier |-> t, bytes |-> b, standing |-> standing,
     class |-> class, tools |-> {"x", "y"}]

MCCandidates ==
    {Source(1, 1, 1, 2, "Ready", "Private"),
     Source(2, 2, 2, 1, "Ready", "Conformance"),
     Source(3, 1, 2, 1, "Ready", "Conformance"),
     Source(4, 2, 2, 2, "Ready", "Private"),
     Source(5, 1, 3, 1, "Quarantined", "Conformance"),
     Source(6, 0, 3, 1, "Denied", "Conformance"),
     Source(2, 3, 1, 1, "Ready", "Conformance"),
     Source(7, 4, 3, 1, "Ready", "Private"),
     Source(8, 3, 5, 1, "Ready", "Conformance")}

MCBudgets == {NoBudget, 1, 2, 3}

Resolved(id, attempt) ==
    compile([id |-> id, attempt |-> attempt, route |-> "r", authority |-> "g",
             budget |-> NoBudget, evidence |-> <<2, 1>>],
            <<Source(2, 2, 2, 1, "Ready", "Conformance"),
              Source(1, 1, 1, 2, "Ready", "Private")>>).manifest

Resolve(key, id, attempt) ==
    [project |-> "p", key |-> key, fact |-> [kind |-> "ManifestResolved", subject |-> attempt,
                            record |-> Resolved(id, attempt)]]
Verification(key, id, v, d) ==
    [project |-> "p", key |-> key, fact |-> [kind |-> "ManifestVerificationRecorded", manifest |-> id,
                            verdict |-> v, digest |-> d]]
Release(key, id, m) ==
    [project |-> "p", key |-> key, fact |-> [kind |-> "ReleaseRecorded", id |-> id, manifest |-> m,
                            body |-> "b", evidence |-> <<1>>]]
Open(key, run, m) ==
    [project |-> "p", key |-> key, fact |-> [kind |-> "RunOpened", subject |-> run, manifest |-> m]]
Observe(key, run, m, id, n) ==
    [project |-> "p", key |-> key, fact |-> [kind |-> "ObservationAppended", subject |-> run,
                            manifest |-> m, id |-> id, index |-> n, body |-> id,
                            evidence |-> <<>>]]
Certify(key, run, m, id, d, n) ==
    [project |-> "p", key |-> key, fact |-> [kind |-> "AssuranceCertified", subject |-> run,
                            manifest |-> m, id |-> id, digest |-> d,
                            observations |-> n, complete |-> TRUE, body |-> "b",
                            evidence |-> <<3>>]]
Plain(key, kind, subject) ==
    [project |-> "p", key |-> key, fact |-> [kind |-> kind, subject |-> subject]]
\* The same request of another project.
Elsewhere(r) == [r EXCEPT !.project = "q"]

\* Two attempts want one manifest while its sources are being sealed.  Another
\* project uses the same keys here and below.
Resolving ==
    [requests |-> {Plain("k1", "CompilationRequested", "a1"),
                   Resolve("k2", "m1", "a1"), Resolve("k2", "m2", "a1"),
                   Resolve("k4", "m2", "a1"), Resolve("k3", "m1", "a2"),
                   Resolve("k1", "m2", "a2"), Elsewhere(Resolve("k1", "m2", "a2")),
                   Elsewhere(Plain("k1", "CompilationRequested", "a1")),
                   Release("k6", "r1", "m2")},
     seals |-> {<<1, "Conformance">>, <<1, "Private">>, <<2, "Conformance">>},
     attempts |-> {"a1", "a2"}]

\* A verifier changes its mind while the run is certified.
Certifying ==
    [requests |-> {Resolve("k2", "m1", "a1"),
                   Verification("k3", "m1", "Verified", "d1"),
                   Verification("k4", "m1", "Rejected", "d2"),
                   Verification("k5", "m1", "Verified", "d2"),
                   Release("k6", "r1", "m1"), Release("k6", "r2", "m1"),
                   Open("k1", "u1", "m1"), Plain("k5", "RunClosed", "u1"),
                   Elsewhere(Certify("k6", "u1", "m1", "f1", "d1", 1)),
                   Certify("k7", "u1", "m1", "f2", "d2", 0)},
     seals |-> {}, attempts |-> {"a1"}]

\* Two runs observe around one manifest.
Observing ==
    [requests |-> {Resolve("k2", "m1", "a1"), Resolve("k6", "m2", "a2"),
                   Open("k1", "u1", "m1"), Open("k2", "u1", "m1"), Open("k7", "u2", "m1"),
                   Observe("k3", "u1", "m1", "o1", 1), Observe("k4", "u1", "m1", "o2", 2),
                   Elsewhere(Observe("k3", "u2", "m1", "o1", 2)),
                   Observe("k4", "u2", "m1", "o3", 1), Observe("k5", "u2", "m2", "o3", 1),
                   Observe("k5", "u2", "m1", "o4", 3)},
     seals |-> {}, attempts |-> {"a1", "a2"}]

\* Optimization candidates, which no precheck reads.
Optimizing ==
    [requests |-> {Plain("k1", "OptimizationCandidateProposed", "p1"),
                   Plain("k1", "OptimizationCandidateDispositioned", "p1"),
                   Plain("k2", "OptimizationCandidateDispositioned", "p1"),
                   Plain("k2", "OptimizationCandidateDispositioned", "p2"),
                   Elsewhere(Plain("k1", "OptimizationCandidateDispositioned", "p2"))},
     seals |-> {}, attempts |-> {}]

MCScripts == {Resolving, Certifying, Observing, Optimizing}

W == [kind |-> "word"]
Node(kind, parts) ==
    IF kind = "list" THEN [kind |-> kind, items |-> parts]
    ELSE IF kind = "map" THEN [kind |-> kind, entries |-> parts]
    ELSE [kind |-> kind, lines |-> parts]
Entry(key, node) == [key |-> key, node |-> node]

\* Block text that looks like YAML, lists of mappings, three levels of nesting.
MCEntries ==
    {Entry("name", W), Entry("description", [kind |-> "quoted"]),
     Entry("allowed-tools", Node("list", <<W, W>>)),
     Entry("allowed-tools", [kind |-> "flow"]),
     Entry("metadata", Node("map", <<Entry("x", W), Entry("gridwork", [kind |-> "quoted"])>>)),
     Entry("x", Node("block", <<<<"name", ":", " ", "v">>, <<"-", " ", "q">>, <<>>>>)),
     Entry("x", Node("map", <<Entry("x", Node("map", <<Entry("x", [kind |-> "flow"])>>))>>)),
     Entry("z", Node("list", <<Node("map", <<Entry("x", W), Entry("z", W)>>),
                               Node("map", <<Entry("x", W)>>)>>)),
     Entry("z", Node("list", <<Node("list", <<Node("map", <<Entry("x", W)>>)>>)>>)),
     Entry("z", Node("list", <<Node("list", <<W, W>>), W>>)),
     Entry("12", W), Entry("yes", W)}

File1(segments, suffix, kind) == [segments |-> segments, suffix |-> suffix, kind |-> kind]

MCPaths ==
    {File1(<<"d", "f">>, "md", "File"), File1(<<".", "f">>, "json", "File"),
     File1(<<"d", "..", "..", "f">>, "md", "File"), File1(<<"", "f">>, "md", "File"),
     File1(<<"f">>, "sh", "File"), File1(<<"f">>, "md", "Symlink"),
     File1(<<"f">>, "md", "Executable")}

Init ==
    /\ which \in {"compile", "record", "skill"}
    /\ CompileInit
    /\ RecordInit
    /\ which # "record" => script = Optimizing
    /\ SkillInit

Next ==
    /\ UNCHANGED which
    /\ \/ which = "compile" /\ CompileNext
          /\ UNCHANGED <<recordVars, document, bundle>>
       \/ which = "record" /\ RecordNext /\ UNCHANGED <<offered, outcome, document, bundle>>
       \/ which = "skill" /\ SkillNext /\ UNCHANGED <<recordVars, offered, outcome>>

-----------------------------------------------------------------------------
\* The compiler, the independent verifier, the kernel's records and the readers
\* of skills agree: each of the parts' invariants.
ContextAgrees ==
    /\ CompileAnswersTheSet /\ ProbeTellsNothing
    /\ FactsLeaveTheirRows /\ RetriesFindTheirEvent /\ RecordsVerify
    /\ ScannerSeesTheTree /\ NothingDropped
=============================================================================
