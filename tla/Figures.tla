------------------------------- MODULE Figures -------------------------------
(***************************************************************************)
(* The figures of a driving-window receipt, computed in SQL over the PTY   *)
(* session rows that hosts leave behind, one generation after another.     *)
(***************************************************************************)
EXTENDS Integers, FiniteSets, FiniteSetsExt, Sequences

CONSTANTS MAX_SESSIONS, MAX_TIME, MAX_GENERATION, MAX_ATTACHES

VARIABLES
    rows,             \* gwk.pty_session, in the order the sessions opened
    now,
    generation        \* of the host that runs

OPEN == -1            \* closed_at IS NULL
vars == <<rows, now, generation>>
Rows == DOMAIN rows

Init == rows = <<>> /\ now = 0 /\ generation = 1

Tick == now < MAX_TIME /\ now' = now + 1 /\ UNCHANGED <<rows, generation>>

OpenSession ==
    /\ Len(rows) < MAX_SESSIONS
    /\ rows' = Append(rows, [opened |-> now, closed |-> OPEN, generation |-> generation, attaches |-> 0])
    /\ UNCHANGED <<now, generation>>

AttachSession ==
    /\ \E s \in Rows : rows[s].closed = OPEN /\ rows[s].attaches < MAX_ATTACHES
                       /\ rows' = [rows EXCEPT ![s].attaches = @ + 1]
    /\ UNCHANGED <<now, generation>>

CloseSession ==
    /\ \E s \in Rows : rows[s].closed = OPEN /\ rows' = [rows EXCEPT ![s].closed = now]
    /\ UNCHANGED <<now, generation>>

\* A host dies and another one starts: what ran in it stays open in the rows.
RestartHost ==
    /\ generation < MAX_GENERATION /\ generation' = generation + 1
    /\ UNCHANGED <<rows, now>>

Next == Tick \/ OpenSession \/ AttachSession \/ CloseSession \/ RestartHost
Spec == Init /\ [][Next]_vars
-----------------------------------------------------------------------------
(***************************************************************************)
(* resolve_window and driving_figures.                                     *)
(***************************************************************************)
\* A window that ends before it starts is refused; an open one ends now.
resolve_window(from, to) ==
    LET end == IF to = OPEN THEN now ELSE to
    IN  IF from > end THEN {} ELSE {<<from, end>>}
Windows == UNION {resolve_window(from, to) : from \in 0..MAX_TIME, to \in 0..MAX_TIME \cup {OPEN}}

Earlier(a, b) == IF a < b THEN a ELSE b
Later(a, b) == IF a < b THEN b ELSE a

OpenedIn(w) == {s \in Rows : rows[s].opened \in w[1]..w[2]}
AliveIn(w) == {s \in Rows : rows[s].opened <= w[2] /\ (rows[s].closed = OPEN \/ rows[s].closed >= w[1])}

\* The bounds of the sweep line, clipped to the window: +1 opens, -1 closes.
Bounds(w) ==
    {[of |-> s, t |-> Later(rows[s].opened, w[1]), d |-> 1] : s \in AliveIn(w)}
    \cup {[of |-> s, t |-> Earlier(rows[s].closed, w[2]), d |-> -1] : s \in {x \in AliveIn(w) : rows[x].closed # OPEN}}

\* Mutant: at one instant a close sorts before an open.
ClosesFirst(a, b) == a.t < b.t \/ (a.t = b.t /\ a.d <= b.d)

\* ORDER BY t, d DESC: at one instant an open sorts before a close.
SortsBefore(a, b) == a.t < b.t \/ (a.t = b.t /\ a.d >= b.d)

\* sum(d) OVER (ORDER BY ...): everything before a bound, its peers included.
Running(w, b) == MapThenSumSet(LAMBDA x : x.d, {x \in Bounds(w) : SortsBefore(x, b)})

peak_concurrent(w) == Max({0} \cup {Running(w, b) : b \in Bounds(w)})

generations(w) == Cardinality({rows[s].generation : s \in OpenedIn(w)})

driving_figures(w) ==
    [sessions_in_window |-> Cardinality(OpenedIn(w)),
     sessions_alive_in_window |-> Cardinality(AliveIn(w)),
     peak_concurrent |-> peak_concurrent(w),
     generations |-> generations(w),
     restarts |-> Later(generations(w) - 1, 0),
     attaches |-> MapThenSumSet(LAMBDA s : rows[s].attaches, AliveIn(w))]

\* Generations left running, other than that of a newest session.
crashed_generations ==
    {Cardinality({rows[s].generation : s \in {x \in Rows : rows[x].closed = OPEN}} \ {rows[n].generation}) :
        n \in {x \in Rows : \A y \in Rows : rows[y].opened <= rows[x].opened}}
-----------------------------------------------------------------------------
\* How many sessions were open at an instant, its edges included.
OpenAt(t) == {s \in Rows : rows[s].opened <= t /\ (rows[s].closed = OPEN \/ t <= rows[s].closed)}

\* The figures of every window are what they are called: the peak is the most
\* sessions that were open at one instant of the window, a session that starts
\* the moment another ends counted with it, and as long as no two sessions of
\* different hosts start at one instant, no generation that is still the newest
\* is counted as crashed and every older one that left a session open is.
FiguresAreTrue ==
    /\ \A w \in Windows :
          LET f == driving_figures(w)
          IN  /\ f.peak_concurrent = Max({0} \cup {Cardinality(OpenAt(t)) : t \in w[1]..w[2]})
              /\ f.restarts = Cardinality({g \in 1..MAX_GENERATION :
                     \E a, b \in OpenedIn(w) : /\ rows[a].generation = g
                                               /\ rows[b].generation > g})
              /\ f.sessions_alive_in_window = 0 => f.attaches = 0 /\ f.peak_concurrent = 0 /\ f.sessions_in_window = 0
    /\ (\A a, b \in Rows : rows[a].opened = rows[b].opened => rows[a].generation = rows[b].generation) =>
          \A n \in crashed_generations :
              n = Cardinality({g \in 1..MAX_GENERATION :
                     \E a, b \in Rows : rows[a].generation = g /\ rows[a].closed = OPEN /\ rows[b].generation > g})
=============================================================================
