------------------------------ MODULE ConfigLens ------------------------------
(***************************************************************************)
(* The Config lens over one git work tree (gwk-tui/src/config.rs and the   *)
(* console code that drives it in gridwork/src/tui.rs): form and editor    *)
(* edits of several consoles under one advisory lock, the commit, the      *)
(* evidence a console then submits, and the reconciliation at startup.     *)
(* Anybody else may write the files or commit them with plain git, at any  *)
(* moment; git may refuse a command; a console may stop between two steps. *)
(***************************************************************************)
EXTENDS Naturals, Sequences, FiniteSets

CONSTANTS
    Consoles,       \* operator consoles over the same repository
    ConfigPaths,    \* the allowlisted files
    Docs,           \* the contents a file may hold
    FIRST,          \* what every file held in the first commit
    FormOwned,      \* the <<path, contents>> pairs routed to a form
    MAX_COMMITS,    \* bound: commits in the history
    MAX_STRAYS,     \* bound: writes and commits made outside the lens
    MAX_STARTS      \* bound: console starts

VARIABLES
    work,       \* the contents in the work tree
    index,      \* the contents in git's index
    history,    \* the commits that touch an allowlisted path
    lock,       \* who holds gwk-config-lens.lock
    console,    \* the edit each console is in
    evidence,   \* the config_change references the kernel recorded, in order
    item,       \* the config-divergence attention item
    keys,       \* reconciliation keys the kernel has answered, with their summary
    strays, starts

vars == <<work, index, history, lock, console, evidence, item, keys, strays, starts>>

None == "none"

Idle == [pc |-> "idle"]

CommitsOf(p) == {i \in DOMAIN history : history[i].path \in {p, "all"}}

LastOf(S) == CHOOSE i \in S : \A j \in S : j <= i

Committed(p) == history[LastOf(CommitsOf(p))].doc

config_head == Len(history)

last_evidence == IF evidence = << >> THEN 0 ELSE evidence[Len(evidence)]

require_clean(p) == work[p] = Committed(p) /\ index[p] = Committed(p)

config_dirty == \E p \in ConfigPaths : ~require_clean(p)

route_for(p, d) == IF <<p, d>> \in FormOwned THEN "form" ELSE "editor"

\* A first commit brought every file, and its evidence is on record.
Init ==
    /\ work = [p \in ConfigPaths |-> FIRST]
    /\ index = work
    /\ history = <<[path |-> "all", doc |-> FIRST, by |-> None, base |-> FIRST, raced |-> TRUE]>>
    /\ lock = None
    /\ console = [c \in Consoles |-> [pc |-> "down"]]
    /\ evidence = <<1>>
    /\ item = "absent"
    /\ keys = {}
    /\ strays = 0 /\ starts = 0

Become(c, s) == console' = [console EXCEPT ![c] = s]

Leave(c) == Become(c, Idle) /\ lock' = None
-----------------------------------------------------------------------------
(***************************************************************************)
(* Opening.  A form keeps the lock until it is committed or dropped; a     *)
(* document no form may own goes on to $EDITOR, which takes the lock anew. *)
(***************************************************************************)
Base(p) == [path |-> p, base |-> work[p], head |-> config_head, raced |-> FALSE]

With(pc, r) == [pc |-> pc, path |-> r.path, base |-> r.base, head |-> r.head, raced |-> r.raced]

\* Mutant: an edit in progress is not looked for.
LockUnchecked == TRUE

try_lock == lock = None

form_schema(c, p) ==
    /\ console[c].pc = "idle" /\ try_lock
    /\ require_clean(p)
    /\ IF route_for(p, work[p]) = "form"
       THEN lock' = c /\ Become(c, With("form", Base(p)))
       ELSE lock' = lock /\ Become(c, [pc |-> "wants_editor", path |-> p])
    /\ UNCHANGED <<work, index, history, evidence, item, keys, strays, starts>>

\* The editor runs on a scratch copy while the live path stays as it is.
commit_editor(c) ==
    /\ console[c].pc = "wants_editor"
    /\ IF try_lock /\ require_clean(console[c].path)
       THEN lock' = c /\ Become(c, With("editor", Base(console[c].path)))
       ELSE lock' = lock /\ Become(c, Idle)
    /\ UNCHANGED <<work, index, history, evidence, item, keys, strays, starts>>

\* Escape, another surface, an editor that fails.
Drop(c) ==
    /\ console[c].pc \in {"form", "editor"}
    /\ Leave(c)
    /\ UNCHANGED <<work, index, history, evidence, item, keys, strays, starts>>
-----------------------------------------------------------------------------
(***************************************************************************)
(* Committing.                                                             *)
(***************************************************************************)
Unmoved(c) ==
    LET s == console[c]
    IN  require_clean(s.path) /\ work[s.path] = s.base /\ config_head = s.head

\* Too long, or not text: neither the form nor $EDITOR may leave it.
Junk == "junk"

validate_config(d) == d # Junk

\* commit_form and commit_editor up to the replacement.  A form may not write
\* what a form may not own.
Checked(c, d) ==
    /\ console[c].pc \in {"form", "editor"}
    /\ console[c].pc = "form" => d # console[c].base
    /\ IF /\ validate_config(d) /\ Unmoved(c)
          /\ console[c].pc = "form" => route_for(console[c].path, d) = "form"
       THEN /\ console' = [console EXCEPT ![c] =
                            [pc |-> "replace", path |-> @.path, base |-> @.base,
                             raced |-> @.raced, doc |-> d]]
            /\ lock' = lock
       ELSE Leave(c)
    /\ UNCHANGED <<work, index, history, evidence, item, keys, strays, starts>>

atomic_replace(c) ==
    /\ console[c].pc = "replace"
    /\ work' = [work EXCEPT ![console[c].path] = console[c].doc]
    /\ console' = [console EXCEPT ![c].pc = "commit"]
    /\ UNCHANGED <<index, history, lock, evidence, item, keys, strays, starts>>

\* git add, then git commit -- path, which takes what the work tree holds now.
commit(c) ==
    LET s == console[c]
    IN  /\ s.pc = "commit"
        /\ index' = [index EXCEPT ![s.path] = work[s.path]]
        /\ \/ /\ work[s.path] # Committed(s.path)
              /\ Len(history) < MAX_COMMITS
              /\ history' = Append(history, [path |-> s.path, doc |-> work[s.path], by |-> c,
                                             base |-> s.base, raced |-> s.raced])
              /\ Become(c, [s EXCEPT !.pc = "read_head"])
           \/ history' = history /\ Become(c, [s EXCEPT !.pc = "restore"])
        /\ UNCHANGED <<work, lock, evidence, item, keys, strays, starts>>

\* The revision is asked of the path-filtered history after the commit.
ReadRevision(c) ==
    /\ console[c].pc = "read_head"
    /\ \/ Become(c, [pc |-> "submit", ref |-> config_head]) /\ lock' = None
       \/ console' = [console EXCEPT ![c].pc = "restore"] /\ lock' = lock
    /\ UNCHANGED <<work, index, history, evidence, item, keys, strays, starts>>

restore(c) ==
    LET s == console[c]
    IN  /\ s.pc = "restore"
        /\ work' = [work EXCEPT ![s.path] = s.base]
        /\ index' \in {index, [index EXCEPT ![s.path] = Committed(s.path)]}
        /\ Leave(c)
        /\ UNCHANGED <<history, evidence, item, keys, strays, starts>>

\* submit_console_command with the evidence: taken, or refused and told.
Submit(c) ==
    /\ console[c].pc = "submit"
    /\ evidence' \in {evidence, Append(evidence, console[c].ref)}
    /\ Become(c, Idle)
    /\ UNCHANGED <<work, index, history, lock, item, keys, strays, starts>>
-----------------------------------------------------------------------------
(***************************************************************************)
(* Starting.  refresh_config reads the evidence and the head; git is asked *)
(* again by reconcile_startup.                                             *)
(***************************************************************************)
refresh_config(c) ==
    /\ console[c].pc = "down" /\ starts < MAX_STARTS
    /\ Become(c, [pc |-> "reconcile", head |-> config_head, recorded |-> last_evidence])
    /\ starts' = starts + 1
    /\ UNCHANGED <<work, index, history, lock, evidence, item, keys, strays>>

reconcile_startup(recorded) ==
    IF config_dirty THEN "uncommitted"
    ELSE IF config_head = recorded THEN None ELSE "differs"

\* The kernel's answer to RaiseAttention under a key: a key it has answered replays
\* the first answer, an item that exists in any state refuses a second one.
RaiseAttention(key, summary) ==
    IF item # "absent" \/ \E k \in keys : k.key = key
    THEN UNCHANGED <<item, keys>>
    ELSE item' = "open" /\ keys' = keys \cup {[key |-> key, summary |-> summary]}

Reconcile(c) ==
    LET s == console[c]
        summary == reconcile_startup(s.recorded)
    IN  /\ s.pc = "reconcile"
        /\ IF summary = None THEN UNCHANGED <<item, keys>>
           ELSE RaiseAttention(<<s.head, s.recorded>>, summary)
        /\ Become(c, Idle)
        /\ UNCHANGED <<work, index, history, lock, evidence, strays, starts>>

\* The operating system drops the lock of a console that stops.
Stop(c) ==
    /\ console[c].pc # "down"
    /\ Become(c, [pc |-> "down"])
    /\ lock' = IF lock = c THEN None ELSE lock
    /\ UNCHANGED <<work, index, history, evidence, item, keys, strays, starts>>

\* An operator resolves the item in the queue.
ResolveAttention ==
    /\ item = "open" /\ item' = "resolved"
    /\ UNCHANGED <<work, index, history, lock, console, evidence, keys, strays, starts>>
-----------------------------------------------------------------------------
(***************************************************************************)
(* Hands outside the lens.                                                 *)
(***************************************************************************)
Raced(p) ==
    [c \in Consoles |->
        IF console[c].pc \in {"replace", "commit"} /\ console[c].path = p
        THEN [console[c] EXCEPT !.raced = TRUE] ELSE console[c]]

StrayWrite(p, d) ==
    /\ strays < MAX_STRAYS /\ strays' = strays + 1
    /\ work' = [work EXCEPT ![p] = d]
    /\ console' = Raced(p)
    /\ UNCHANGED <<index, history, lock, evidence, item, keys, starts>>

StrayCommit(p) ==
    /\ strays < MAX_STRAYS /\ strays' = strays + 1
    /\ work[p] # Committed(p) /\ Len(history) < MAX_COMMITS
    /\ index' = [index EXCEPT ![p] = work[p]]
    /\ history' = Append(history, [path |-> p, doc |-> work[p], by |-> None,
                                   base |-> work[p], raced |-> TRUE])
    /\ console' = Raced(p)
    /\ UNCHANGED <<work, lock, evidence, item, keys, starts>>

Next ==
    \/ \E c \in Consoles :
        \/ refresh_config(c) \/ Reconcile(c) \/ Stop(c)
        \/ \E p \in ConfigPaths : form_schema(c, p)
        \/ commit_editor(c) \/ Drop(c)
        \/ \E d \in Docs \cup {Junk} : Checked(c, d)
        \/ atomic_replace(c) \/ commit(c) \/ ReadRevision(c) \/ restore(c) \/ Submit(c)
    \/ ResolveAttention
    \/ \E p \in ConfigPaths : StrayCommit(p) \/ \E d \in Docs : StrayWrite(p, d)

Spec == Init /\ [][Next]_vars
-----------------------------------------------------------------------------
Before(i) == {j \in CommitsOf(history[i].path) : j < i}

\* A commit the lens makes replaces exactly the contents its operator was shown:
\* however two consoles, their forms and editors, crashes and foreign commits
\* interleave, it never builds on something else and so never undoes another edit,
\* except a foreign write of the same path in the window between the last check and
\* git commit, which no check can see (ConfigRepository::lock, commit_form,
\* commit_editor).
LensBuildsOnWhatWasSeen ==
    \A i \in DOMAIN history :
        ~history[i].raced =>
            /\ Before(i) # {}
            /\ history[LastOf(Before(i))].doc = history[i].base

=============================================================================
