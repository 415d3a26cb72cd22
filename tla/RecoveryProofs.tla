--------------------------- MODULE RecoveryProofs ---------------------------
(***************************************************************************)
(* Proofs about Recovery, for any checkpoint interval and any environment. *)
(*                                                                         *)
(* The argument: as long as nothing outside touched them, the projections  *)
(* are what the log derives (Faithful) and every checkpoint is the hash of *)
(* what the log derives up to its sequence (Anchored), also while a        *)
(* transaction waits between its blob and its row (InFlight).  So no       *)
(* checkpoint can call the projections diverged.  What a checkpoint names  *)
(* is stored unless a sweep took it (RecordsStored).                       *)
(***************************************************************************)
EXTENDS Recovery, TLAPS

Events == [id : Nat, kind : {"genesis", "row", "item"}]
Verdicts == {"none", "verified", "diverged", "unverified", "replayed", "failed"}
Checkpoints == [seq : Nat, hash : SUBSET Nat]

TypeOK ==
    /\ env \in Environments
    /\ log \in Seq(Events) /\ rows \in SUBSET Nat /\ items \in SUBSET Nat
    /\ checkpoints \in SUBSET Checkpoints /\ blobs \in SUBSET (SUBSET Nat)
    /\ files \in SUBSET (SUBSET Nat) /\ unlinking \in SUBSET (SUBSET Nat)
    /\ barrier \in Nat /\ overdue \in BOOLEAN
    /\ kernel \in [pc : {"down", "serving", "refused"}, verdict : Verdicts,
                   clean : BOOLEAN, touched : BOOLEAN]
    /\ tx \in {NoTx} \cup [on : {"append"}, event : Events, hash : SUBSET Nat]
                     \cup [on : {"stop"}, hash : SUBSET Nat]
    /\ rebuild \in {NoRebuild} \cup [pc : {"replay"}, log : Seq(Events), live : SUBSET Nat]
                               \cup [pc : {"report"}, agrees : BOOLEAN]
    /\ events \in Nat /\ boots \in Nat
    /\ hurt \in SUBSET {"rows", "blob", "restore", "swept"}

\* What the rows are after the event.
With(r, e) == IF e.kind = "row" THEN r \cup {e.id} ELSE r

\* The projections are what the log derives, now and in the rebuild's snapshot.
Faithful ==
    "rows" \notin hurt =>
        /\ rows = Derived(log)
        /\ rebuild.pc = "replay" => rebuild.live = Derived(rebuild.log)
        /\ rebuild.pc = "report" => rebuild.agrees

\* A transaction waits only in a serving kernel, and its records are of the rows
\* as it will leave them.
InFlight ==
    tx # NoTx =>
        /\ kernel.pc = "serving"
        /\ tx.on = "append" => tx.hash = With(rows, tx.event)
        /\ tx.on = "stop" => tx.hash = rows

\* What a checkpoint names, or a waiting transaction will, has its row unless a
\* sweep came between; and a row has its container.
RecordsStored ==
    /\ "swept" \notin hurt =>
        /\ \A c \in checkpoints : c.hash \in blobs
        /\ tx # NoTx => tx.hash \in blobs
    /\ {"blob", "swept"} \cap hurt = {} => blobs \subseteq files

\* What a start or a rebuild has said of the projections.
Truthful == NoFalseAlarm /\ VerdictMatchesStop /\ RebuildAgrees

\* The genesis event stays.
LogOpens == Len(log) > 0

OnePerSequence == \A c, o \in checkpoints : c.seq = o.seq => c = o

\* A checkpoint is of the projections the log derives up to its sequence.
Anchored ==
    {"rows", "restore"} \cap hurt = {} =>
        \A c \in checkpoints : c.seq \in 1..Len(log) /\ c.hash = Derived(SubSeq(log, 1, c.seq))

\* What was changed while the kernel was down matches no checkpoint of this log.
ChangeShows ==
    kernel.touched /\ kernel.pc # "serving" /\ "restore" \notin hurt =>
        \A c \in checkpoints : c.seq = watermark => c.hash # rows

\* A clean stop has left a checkpoint at the watermark.
StopRecorded ==
    kernel.clean /\ kernel.pc # "serving" /\ hurt = {} =>
        \E c \in checkpoints : c.seq = watermark

\* A barrier that is not overdue is a checkpoint's.
BarrierHeld == ~overdue => \E c \in checkpoints : c.seq = barrier

IInv ==
    /\ TypeOK /\ LogOpens /\ Faithful /\ InFlight /\ OnePerSequence /\ Anchored /\ ChangeShows
    /\ StopRecorded /\ BarrierHeld /\ RecordsStored /\ Truthful

-----------------------------------------------------------------------------
(***************************************************************************)
(* Logs.                                                                   *)
(***************************************************************************)
LEMMA DerivedTyped ==
    ASSUME NEW l \in Seq(Events)
    PROVE  Derived(l) \in SUBSET Nat /\ Raised(l) \in SUBSET Nat
<1>1. \A i \in 1..Len(l) : l[i].id \in Nat
  <2>1. \A i \in 1..Len(l) : l[i] \in Events
    OBVIOUS
  <2> QED
    BY <2>1, Zenon DEF Events
<1> QED
  BY <1>1, Zenon DEF Derived, Raised

LEMMA DerivedAppend ==
    ASSUME NEW l \in Seq(Events), NEW e \in Events
    PROVE  Derived(Append(l, e)) = With(Derived(l), e)
<1> DEFINE m == Append(l, e)
<1>1. /\ m \in Seq(Events) /\ Len(m) = Len(l) + 1 /\ Len(l) \in Nat
      /\ \A i \in 1..Len(l) : m[i] = l[i]
      /\ m[Len(l) + 1] = e
  OBVIOUS
<1> HIDE DEF m
<1>2. Derived(m) \subseteq With(Derived(l), e)
  <2> SUFFICES ASSUME NEW i \in 1..Len(m), m[i].kind = "row"
               PROVE  m[i].id \in With(Derived(l), e)
    BY Zenon DEF Derived
  <2>1. CASE i \in 1..Len(l)
    BY <1>1, <2>1, Zenon DEF Derived, With
  <2>2. CASE i = Len(l) + 1
    BY <1>1, <2>2, Zenon DEF With
  <2> QED
    BY <1>1, <2>1, <2>2
<1>3. With(Derived(l), e) \subseteq Derived(m)
  <2>1. ASSUME NEW i \in 1..Len(l), l[i].kind = "row" PROVE l[i].id \in Derived(m)
    <3>1. i \in 1..Len(m) /\ m[i] = l[i]
      BY <1>1
    <3> QED
      BY <2>1, <3>1, Zenon DEF Derived
  <2>2. ASSUME e.kind = "row" PROVE e.id \in Derived(m)
    <3>1. Len(l) + 1 \in 1..Len(m)
      BY <1>1
    <3> QED
      BY <1>1, <2>2, <3>1, Zenon DEF Derived
  <2> QED
    BY <2>1, <2>2, Zenon DEF With, Derived
<1> QED
  BY <1>2, <1>3, Zenon DEF m

LEMMA PrefixAppend ==
    ASSUME NEW l \in Seq(Events), NEW e \in Events, NEW n \in 1..Len(l)
    PROVE  SubSeq(Append(l, e), 1, n) = SubSeq(l, 1, n)
OBVIOUS

LEMMA PrefixAll ==
    ASSUME NEW l \in Seq(Events)
    PROVE  SubSeq(l, 1, Len(l)) = l
OBVIOUS

-----------------------------------------------------------------------------
(***************************************************************************)
(* The inductive invariant.                                                *)
(***************************************************************************)
LEMMA InitIInv == Init => IInv
<1> SUFFICES ASSUME Init PROVE IInv
  BY Zenon
<1>1. /\ log \in Seq(Events) /\ Len(log) = 1 /\ log[1].kind = "genesis"
  BY DEF Init, Events
<1>2. Derived(log) = {}
  <2>1. \A i \in 1..Len(log) : log[i].kind # "row"
    BY <1>1
  <2> QED
    BY <2>1, Zenon DEF Derived
<1>3. TypeOK
  BY <1>1, Zenon DEF Init, TypeOK, Verdicts
<1>4. LogOpens /\ Faithful /\ InFlight /\ OnePerSequence /\ Anchored
  BY <1>1, <1>2 DEF Init, LogOpens, Faithful, NoRebuild, InFlight, OnePerSequence, Anchored
<1>5. ChangeShows /\ StopRecorded /\ BarrierHeld
  BY Zenon DEF Init, ChangeShows, StopRecorded, BarrierHeld
<1>6. Truthful /\ RecordsStored
  BY <1>2, Zenon DEF Init, Truthful, NoFalseAlarm, VerdictMatchesStop, RecordsStored,
              RebuildAgrees, NoRebuild
<1> QED
  BY <1>3, <1>4, <1>5, <1>6, Zenon DEF IInv

\* An event that goes to the log and to the rows leaves them in step, and every
\* earlier checkpoint where it was.
LEMMA Appended ==
    ASSUME IInv, NEW e \in Events, kernel.pc = "serving", log' = Append(log, e), apply_event(e),
           UNCHANGED <<kernel, rebuild, hurt>>
    PROVE  /\ log' \in Seq(Events) /\ Len(log') = Len(log) + 1
           /\ rows' = With(rows, e)
           /\ rows' \in SUBSET Nat /\ items' \in SUBSET Nat
           /\ LogOpens' /\ Faithful' /\ ChangeShows' /\ StopRecorded'
           /\ NoFalseAlarm' /\ VerdictMatchesStop' /\ RebuildAgrees'
           /\ {"rows", "restore"} \cap hurt = {} =>
                \A c \in checkpoints :
                    c.seq \in 1..Len(log') /\ c.hash = Derived(SubSeq(log', 1, c.seq))
<1>1. /\ log \in Seq(Events) /\ Len(log) \in Nat /\ e.id \in Nat
      /\ log' \in Seq(Events) /\ Len(log') = Len(log) + 1
  BY DEF IInv, TypeOK, Events
<1>2. rows' = With(rows, e) /\ rows' \in SUBSET Nat /\ items' \in SUBSET Nat
  BY <1>1, Zenon DEF apply_event, With, IInv, TypeOK
<1>3. "rows" \notin hurt => rows' = Derived(log')
  BY <1>1, <1>2, DerivedAppend, Zenon DEF IInv, Faithful
<1>4. Faithful' /\ ChangeShows' /\ StopRecorded'
  BY <1>3, Zenon DEF IInv, Faithful, ChangeShows, StopRecorded
<1>5. NoFalseAlarm' /\ VerdictMatchesStop' /\ RebuildAgrees'
  BY <1>3, Zenon DEF IInv, Truthful, NoFalseAlarm, VerdictMatchesStop, RebuildAgrees
<1>6. ASSUME {"rows", "restore"} \cap hurt = {}, NEW c \in checkpoints
      PROVE  c.seq \in 1..Len(log') /\ c.hash = Derived(SubSeq(log', 1, c.seq))
  <2>1. c.seq \in 1..Len(log) /\ c.hash = Derived(SubSeq(log, 1, c.seq))
    BY <1>6, Zenon DEF IInv, Anchored
  <2>2. SubSeq(Append(log, e), 1, c.seq) = SubSeq(log, 1, c.seq)
    <3>1. \A n \in 1..Len(log) : SubSeq(Append(log, e), 1, n) = SubSeq(log, 1, n)
      BY <1>1, PrefixAppend, Zenon
    <3> QED
      BY <2>1, <3>1, Zenon
  <2>3. SubSeq(log', 1, c.seq) = SubSeq(log, 1, c.seq)
    BY <2>2, Zenon
  <2>4. c.seq \in 1..Len(log')
    BY <1>1, <2>1
  <2> QED
    BY <2>1, <2>3, <2>4, Zenon
<1>7. LogOpens'
  BY <1>1 DEF LogOpens
<1> QED
  BY <1>1, <1>2, <1>4, <1>5, <1>6, <1>7, Zenon

LEMMA EventTyped ==
    ASSUME TypeOK
    PROVE  Event \subseteq Events
BY DEF Event, Events, TypeOK

LEMMA Append1Step ==
    ASSUME IInv, UNCHANGED env, Append1
    PROVE  IInv'
<1>1. PICK e \in Event : log' = Append(log, e) /\ apply_event(e)
  BY Zenon DEF Append1
<1>2. e \in Events
  BY EventTyped, Zenon DEF IInv
<1>3. /\ kernel.pc = "serving" /\ tx = NoTx /\ events' = events + 1
      /\ UNCHANGED <<checkpoints, blobs, files, unlinking, barrier, overdue, kernel, tx, rebuild, boots, hurt>>
  BY Zenon DEF Append1, evidence, stored
<1>4. /\ log' \in Seq(Events) /\ rows' \in SUBSET Nat /\ items' \in SUBSET Nat
      /\ LogOpens' /\ Faithful' /\ ChangeShows' /\ StopRecorded'
      /\ NoFalseAlarm' /\ VerdictMatchesStop' /\ RebuildAgrees'
      /\ {"rows", "restore"} \cap hurt = {} =>
                \A c \in checkpoints :
                    c.seq \in 1..Len(log') /\ c.hash = Derived(SubSeq(log', 1, c.seq))
  BY <1>1, <1>2, <1>3, Appended, Zenon
<1>5. TypeOK'
  BY <1>3, <1>4 DEF IInv, TypeOK
<1>6. InFlight' /\ OnePerSequence' /\ BarrierHeld' /\ Anchored'
  BY <1>3, <1>4, Zenon DEF IInv, InFlight, OnePerSequence, BarrierHeld, Anchored
<1>7. Truthful' /\ RecordsStored'
  BY <1>3, <1>4, Zenon DEF IInv, Truthful, RecordsStored
<1> QED
  BY <1>4, <1>5, <1>6, <1>7, Zenon DEF IInv

\* While the database stands still, what is said of it does.
LEMMA DatabaseStands ==
    ASSUME IInv, UNCHANGED <<log, rows, checkpoints, kernel, rebuild, hurt>>
    PROVE  /\ LogOpens' /\ Faithful' /\ OnePerSequence' /\ Anchored' /\ ChangeShows' /\ StopRecorded'
           /\ NoFalseAlarm' /\ VerdictMatchesStop' /\ RebuildAgrees'
<1>1. LogOpens' /\ Faithful' /\ OnePerSequence' /\ Anchored'
  BY Zenon DEF IInv, LogOpens, Faithful, OnePerSequence, Anchored
<1>2. ChangeShows' /\ StopRecorded'
  BY Zenon DEF IInv, ChangeShows, StopRecorded, watermark
<1>3. NoFalseAlarm' /\ VerdictMatchesStop' /\ RebuildAgrees'
  BY Zenon DEF IInv, Truthful, NoFalseAlarm, VerdictMatchesStop, RebuildAgrees
<1> QED
  BY <1>1, <1>2, <1>3, Zenon

LEMMA SnapshotSteps ==
    ASSUME IInv, UNCHANGED env, AppendSnapshot \/ StopSnapshot
    PROVE  IInv'
<1>1. /\ UNCHANGED <<log, rows, items, checkpoints, unlinking, barrier, overdue, kernel, rebuild, boots,
                     hurt>>
      /\ kernel.pc = "serving" /\ events' \in Nat
  BY DEF AppendSnapshot, StopSnapshot, db, IInv, TypeOK
<1>2. /\ tx' \in [on : {"append"}, event : Events, hash : SUBSET Nat] \cup [on : {"stop"}, hash : SUBSET Nat]
      /\ tx'.hash \in SUBSET Nat /\ Store(tx'.hash)
      /\ tx'.on = "append" => tx'.hash = With(rows, tx'.event)
      /\ tx'.on = "stop" => tx'.hash = rows
  <2>1. CASE StopSnapshot
    BY <2>1, Zenon DEF StopSnapshot, IInv, TypeOK
  <2>2. CASE AppendSnapshot
    <3>1. PICK e \in Event :
            /\ Store(With(rows, e))
            /\ tx' = [on |-> "append", event |-> e, hash |-> With(rows, e)]
      BY <2>2, Zenon DEF AppendSnapshot, With
    <3>2. e \in Events /\ e.id \in Nat
      BY EventTyped, Zenon DEF IInv, Events
    <3>3. With(rows, e) \in SUBSET Nat
      BY <3>2, Zenon DEF With, IInv, TypeOK
    <3> QED
      BY <3>1, <3>2, <3>3, Zenon DEF IInv, TypeOK
  <2> QED
    BY <2>1, <2>2, Zenon
<1>3. TypeOK'
  BY <1>1, <1>2, Zenon DEF IInv, TypeOK, Store
<1>4. InFlight' /\ BarrierHeld'
  BY <1>1, <1>2, Zenon DEF IInv, InFlight, BarrierHeld
<1>5. RecordsStored'
  BY <1>1, <1>2, Zenon DEF IInv, RecordsStored, Store
<1> QED
  BY <1>1, <1>3, <1>4, <1>5, DatabaseStands, Zenon DEF IInv, Truthful

LEMMA OverdueStep ==
    ASSUME IInv, UNCHANGED env, Overdue
    PROVE  IInv'
<1>1. /\ UNCHANGED <<log, rows, items, checkpoints, blobs, files, unlinking, barrier, kernel, tx, rebuild,
                     events, boots, hurt>>
      /\ overdue' = TRUE
  BY Zenon DEF Overdue, db, stored
<1>2. TypeOK' /\ InFlight' /\ BarrierHeld' /\ RecordsStored'
  BY <1>1 DEF IInv, TypeOK, InFlight, BarrierHeld, RecordsStored
<1> QED
  BY <1>1, <1>2, DatabaseStands, Zenon DEF IInv, Truthful

\* A sweep leaves every row a checkpoint names, and says so when it takes one that
\* a transaction waits to name or a container that was stored again.
LEMMA SweepSteps ==
    ASSUME IInv, UNCHANGED env, Sweep \/ Unlink
    PROVE  IInv'
<1>1. /\ UNCHANGED <<log, rows, items, checkpoints, barrier, overdue, kernel, tx, rebuild, events, boots>>
      /\ hurt' \in {hurt, hurt \cup {"swept"}}
      /\ blobs' \subseteq blobs /\ files' \subseteq files /\ unlinking' \in SUBSET (SUBSET Nat)
      /\ \A c \in checkpoints : c.hash \in blobs => c.hash \in blobs'
      /\ tx # NoTx /\ tx.hash \in blobs => tx.hash \in blobs' \/ "swept" \in hurt'
      /\ blobs \subseteq files => blobs' \subseteq files' \/ "swept" \in hurt'
  <2>1. CASE Sweep
    <3> DEFINE dead == blobs \ {c.hash : c \in checkpoints}
    <3>1. /\ UNCHANGED <<log, rows, items, checkpoints, files, barrier, overdue, kernel, tx, rebuild, events, boots>>
          /\ blobs' = blobs \ dead /\ unlinking' = dead /\ hurt' = Swept(dead)
      BY <2>1, Zenon DEF Sweep, db
    <3>2. dead \subseteq blobs /\ \A c \in checkpoints : c.hash \notin dead
      BY Zenon
    <3>3. hurt' \in {hurt, hurt \cup {"swept"}}
      BY <3>1, Zenon DEF Swept
    <3>4. tx # NoTx /\ tx.hash \in dead => "swept" \in hurt'
      BY <3>1, Zenon DEF Swept
    <3> HIDE DEF dead
    <3> QED
      BY <3>1, <3>2, <3>3, <3>4, Zenon DEF IInv, TypeOK
  <2>2. CASE Unlink
    <3>1. PICK b \in unlinking :
            /\ files' = files \ {b} /\ unlinking' = unlinking \ {b}
            /\ hurt' = IF b \in blobs THEN hurt \cup {"swept"} ELSE hurt
      BY <2>2, Zenon DEF Unlink
    <3>2. UNCHANGED <<log, rows, items, checkpoints, blobs, barrier, overdue, kernel, tx, rebuild, events, boots>>
      BY <2>2, Zenon DEF Unlink, db
    <3> QED
      BY <3>1, <3>2, Zenon DEF IInv, TypeOK
  <2> QED
    BY <2>1, <2>2, Zenon
<1>2. TypeOK'
  BY <1>1, Zenon DEF IInv, TypeOK
<1>3. LogOpens' /\ Faithful' /\ InFlight' /\ OnePerSequence' /\ Anchored' /\ BarrierHeld'
  BY <1>1, Zenon DEF IInv, LogOpens, Faithful, InFlight, OnePerSequence, Anchored, BarrierHeld
<1>4. ChangeShows' /\ StopRecorded'
  BY <1>1, Zenon DEF IInv, ChangeShows, StopRecorded, watermark
<1>5. RecordsStored'
  BY <1>1, Zenon DEF IInv, RecordsStored
<1>6. Truthful'
  BY <1>1, Zenon DEF IInv, Truthful, NoFalseAlarm, VerdictMatchesStop, RebuildAgrees
<1> QED
  BY <1>2, <1>3, <1>4, <1>5, <1>6, Zenon DEF IInv

\* A checkpoint that is recorded where there is none yet.
LEMMA Recorded ==
    ASSUME IInv, NEW seq \in Nat, NEW hash \in SUBSET Nat, Record(seq, hash)
    PROVE  /\ checkpoints' \in SUBSET Checkpoints /\ barrier' \in Nat /\ overdue' \in BOOLEAN
           /\ OnePerSequence' /\ BarrierHeld'
           /\ checkpoints' \subseteq checkpoints \cup {[seq |-> seq, hash |-> hash]}
           /\ \E c \in checkpoints' : c.seq = seq
<1> DEFINE new == [seq |-> seq, hash |-> hash]
<1>1. new \in Checkpoints /\ new.seq = seq /\ new.hash = hash
  BY Zenon DEF Checkpoints
<1>2. /\ checkpoints' = IF \E c \in checkpoints : c.seq = seq THEN checkpoints
                        ELSE checkpoints \cup {new}
      /\ barrier' = seq /\ overdue' = FALSE
  BY Zenon DEF Record
<1> HIDE DEF new
<1>3. /\ checkpoints' \in SUBSET Checkpoints /\ barrier' \in Nat /\ overdue' \in BOOLEAN
      /\ checkpoints' \subseteq checkpoints \cup {new}
      /\ \E c \in checkpoints' : c.seq = seq
  BY <1>1, <1>2, Zenon DEF IInv, TypeOK
<1>4. OnePerSequence'
  BY <1>1, <1>2, Zenon DEF IInv, OnePerSequence
<1>5. BarrierHeld'
  BY <1>2, <1>3, Zenon DEF BarrierHeld
<1> QED
  BY <1>3, <1>4, <1>5, Zenon DEF new

LEMMA AppendCommitStep ==
    ASSUME IInv, UNCHANGED env, AppendCommit
    PROVE  IInv'
<1> DEFINE e == tx.event
<1>1. /\ log' = Append(log, e) /\ apply_event(e) /\ Record(Len(log) + 1, tx.hash) /\ tx' = NoTx
      /\ UNCHANGED <<blobs, files, unlinking, kernel, rebuild, events, boots, hurt>>
  BY Zenon DEF AppendCommit, watermark, stored
<1>2. /\ tx # NoTx /\ tx.on = "append" /\ e \in Events /\ tx.hash \in SUBSET Nat
      /\ kernel.pc = "serving" /\ tx.hash = With(rows, e)
  BY DEF AppendCommit, IInv, TypeOK, NoTx, InFlight
<1> HIDE DEF e
<1>3. /\ log' \in Seq(Events) /\ Len(log') = Len(log) + 1 /\ Len(log) \in Nat
      /\ rows' = With(rows, e) /\ rows' \in SUBSET Nat /\ items' \in SUBSET Nat
      /\ LogOpens' /\ Faithful' /\ ChangeShows' /\ StopRecorded'
      /\ NoFalseAlarm' /\ VerdictMatchesStop' /\ RebuildAgrees'
      /\ {"rows", "restore"} \cap hurt = {} =>
                \A c \in checkpoints :
                    c.seq \in 1..Len(log') /\ c.hash = Derived(SubSeq(log', 1, c.seq))
  <2>1. Len(log) \in Nat
    BY DEF IInv, TypeOK
  <2> QED
    BY <1>1, <1>2, <2>1, Appended, Zenon
<1> DEFINE new == [seq |-> Len(log) + 1, hash |-> tx.hash]
<1>4. /\ checkpoints' \in SUBSET Checkpoints /\ barrier' \in Nat /\ overdue' \in BOOLEAN
      /\ OnePerSequence' /\ BarrierHeld' /\ checkpoints' \subseteq checkpoints \cup {new}
  BY <1>1, <1>2, <1>3, Recorded
<1>5. new.seq = Len(log') /\ new.hash = rows'
  BY <1>2, <1>3, Zenon
<1> HIDE DEF new
<1>6. TypeOK'
  BY <1>1, <1>3, <1>4, Zenon DEF IInv, TypeOK
<1>7. InFlight'
  BY <1>1, Zenon DEF InFlight
<1>8. Anchored'
  <2>1. SubSeq(log', 1, Len(log')) = log'
    BY <1>3, PrefixAll, Zenon
  <2>2. "rows" \notin hurt => rows' = Derived(log')
    BY <1>1, <1>3, Zenon DEF Faithful
  <2>3. Len(log') \in 1..Len(log')
    BY <1>3
  <2> QED
    BY <1>1, <1>3, <1>4, <1>5, <2>1, <2>2, <2>3, Zenon DEF Anchored
<1>9. RecordsStored'
  <2>1. new.hash = tx.hash
    BY <1>2, <1>3, <1>5, Zenon
  <2> QED
    BY <1>1, <1>2, <1>4, <2>1, Zenon DEF IInv, RecordsStored
<1> QED
  BY <1>3, <1>4, <1>6, <1>7, <1>8, <1>9, Zenon DEF IInv, Truthful

LEMMA StopCommitStep ==
    ASSUME IInv, UNCHANGED env, StopCommit
    PROVE  IInv'
<1>1. /\ Record(Len(log), tx.hash) /\ tx' = NoTx
      /\ UNCHANGED <<log, rows, items, blobs, files, unlinking, rebuild, events, boots, hurt>>
      /\ kernel' = [pc |-> "down", verdict |-> "none", clean |-> TRUE, touched |-> FALSE]
  BY Zenon DEF StopCommit, watermark, db, stored
<1>2. tx # NoTx /\ tx.hash \in SUBSET Nat /\ tx.hash = rows
  BY DEF StopCommit, IInv, TypeOK, NoTx, InFlight
<1>3. Len(log) \in Nat /\ log \in Seq(Events)
  BY DEF IInv, TypeOK
<1> DEFINE new == [seq |-> Len(log), hash |-> tx.hash]
<1>4. /\ checkpoints' \in SUBSET Checkpoints /\ barrier' \in Nat /\ overdue' \in BOOLEAN
      /\ OnePerSequence' /\ BarrierHeld' /\ checkpoints' \subseteq checkpoints \cup {new}
      /\ \E c \in checkpoints' : c.seq = Len(log)
  BY <1>1, <1>2, <1>3, Recorded, Zenon
<1>5. new.seq = Len(log) /\ new.hash = rows
  BY <1>2, Zenon
<1> HIDE DEF new
<1>6. TypeOK'
  BY <1>1, <1>4, Zenon DEF IInv, TypeOK, Verdicts
<1>7. InFlight' /\ ChangeShows' /\ StopRecorded' /\ Faithful' /\ LogOpens'
  BY <1>1, <1>4, Zenon DEF IInv, LogOpens, InFlight, ChangeShows, StopRecorded, Faithful, watermark
<1>8. Anchored'
  <2>1. SubSeq(log, 1, Len(log)) = log
    BY <1>3, PrefixAll, Zenon
  <2>2. "rows" \notin hurt => rows = Derived(log)
    BY Zenon DEF IInv, Faithful
  <2>3. {"rows", "restore"} \cap hurt = {} => Len(log) \in 1..Len(log)
    BY <1>3 DEF IInv, LogOpens
  <2> QED
    BY <1>1, <1>4, <1>5, <2>1, <2>2, <2>3, Zenon DEF IInv, Anchored
<1>9. Truthful' /\ RecordsStored'
  <2>1. Truthful'
    BY <1>1, Zenon DEF IInv, Truthful, NoFalseAlarm, VerdictMatchesStop, RebuildAgrees
  <2>2. new.hash = tx.hash
    BY <1>2, <1>5, Zenon
  <2>3. RecordsStored'
    BY <1>1, <1>2, <1>4, <2>2, Zenon DEF IInv, RecordsStored
  <2> QED
    BY <2>1, <2>3, Zenon
<1> QED
  BY <1>4, <1>6, <1>7, <1>8, <1>9, Zenon DEF IInv

LEMMA CrashStep ==
    ASSUME IInv, UNCHANGED env, Crash
    PROVE  IInv'
<1>1. /\ tx' = NoTx
      /\ kernel' = [pc |-> "down", verdict |-> "none", clean |-> FALSE, touched |-> FALSE]
      /\ UNCHANGED <<log, rows, items, checkpoints, blobs, files, unlinking, barrier, overdue,
                     rebuild, events, boots, hurt>>
  BY Zenon DEF Crash, db, evidence, stored
<1>2. TypeOK' /\ LogOpens' /\ Faithful' /\ InFlight' /\ OnePerSequence' /\ Anchored'
  BY <1>1, Zenon DEF IInv, TypeOK, Verdicts, LogOpens, Faithful, InFlight, OnePerSequence, Anchored
<1>3. ChangeShows' /\ StopRecorded' /\ BarrierHeld'
  BY <1>1, Zenon DEF IInv, ChangeShows, StopRecorded, BarrierHeld
<1>4. Truthful' /\ RecordsStored'
  BY <1>1, Zenon DEF IInv, Truthful, NoFalseAlarm, VerdictMatchesStop, RecordsStored,
              RebuildAgrees
<1> QED
  BY <1>2, <1>3, <1>4, Zenon DEF IInv

\* A transaction waits only while the kernel serves.
LEMMA NothingWaits ==
    ASSUME IInv, kernel.pc # "serving"
    PROVE  tx = NoTx
BY Zenon DEF IInv, InFlight

LEMMA ForgeStep ==
    ASSUME RecoveryAssumption, IInv, UNCHANGED env, ForgeRow
    PROVE  IInv'
<1>1. /\ kernel.pc = "down" /\ "rows" \notin hurt /\ rows' # rows
      /\ kernel' = [kernel EXCEPT !.touched = TRUE] /\ hurt' = hurt \cup {"rows"}
      /\ UNCHANGED <<log, items, checkpoints, blobs, files, unlinking, barrier, overdue, tx, rebuild, events, boots>>
  BY Zenon DEF ForgeRow, evidence, stored
<1>2. rows' \in SUBSET Nat
  <2>1. env.events + 1 \in Nat
    BY DEF IInv, TypeOK, RecoveryAssumption
  <2> QED
    BY <2>1 DEF ForgeRow, IInv, TypeOK
<1>3. kernel'.pc = "down" /\ kernel'.touched /\ kernel'.clean = kernel.clean
  BY <1>1, Zenon DEF IInv, TypeOK
<1>4. TypeOK'
  BY <1>1, <1>2, Zenon DEF IInv, TypeOK
<1>5. LogOpens' /\ Faithful' /\ InFlight' /\ OnePerSequence' /\ Anchored' /\ BarrierHeld'
  BY <1>1, NothingWaits, Zenon
     DEF IInv, LogOpens, Faithful, InFlight, OnePerSequence, Anchored, BarrierHeld
<1>6. ChangeShows'
  <2>1. ASSUME "restore" \notin hurt, NEW c \in checkpoints, c.seq = Len(log)
        PROVE  c.hash = rows
    <3>1. {"rows", "restore"} \cap hurt = {}
      BY <1>1, <2>1, Zenon
    <3>2. c.hash = Derived(SubSeq(log, 1, Len(log)))
      BY <2>1, <3>1, Zenon DEF IInv, Anchored
    <3>3. SubSeq(log, 1, Len(log)) = log
      BY PrefixAll, Zenon DEF IInv, TypeOK
    <3>4. rows = Derived(log)
      BY <1>1, Zenon DEF IInv, Faithful
    <3> QED
      BY <3>2, <3>3, <3>4, Zenon
  <2> QED
    BY <1>1, <2>1, Zenon DEF ChangeShows, watermark
<1>7. StopRecorded'
  BY <1>1, Zenon DEF StopRecorded
<1>8. Truthful' /\ RecordsStored'
  BY <1>1, <1>3, Zenon DEF IInv, Truthful, NoFalseAlarm, VerdictMatchesStop,
                    RecordsStored, RebuildAgrees
<1> QED
  BY <1>4, <1>5, <1>6, <1>7, <1>8, Zenon DEF IInv

LEMMA DamageStep ==
    ASSUME IInv, UNCHANGED env, DamageBlob
    PROVE  IInv'
<1>1. /\ kernel.pc = "down" /\ hurt' = hurt \cup {"blob"} /\ files' \subseteq files
      /\ UNCHANGED <<log, rows, items, checkpoints, blobs, unlinking, barrier, overdue, kernel, tx, rebuild,
                     events, boots>>
  BY Zenon DEF DamageBlob, db
<1>2. TypeOK' /\ LogOpens' /\ Faithful' /\ OnePerSequence' /\ Anchored' /\ BarrierHeld'
  BY <1>1 DEF IInv, TypeOK, LogOpens, Faithful, OnePerSequence, Anchored, BarrierHeld
<1>3. InFlight' /\ ChangeShows' /\ StopRecorded'
  BY <1>1, NothingWaits, Zenon DEF IInv, InFlight, ChangeShows, StopRecorded, watermark
<1>4. Truthful' /\ RecordsStored'
  BY <1>1, Zenon DEF IInv, Truthful, NoFalseAlarm, VerdictMatchesStop, RecordsStored,
              RebuildAgrees
<1> QED
  BY <1>2, <1>3, <1>4, Zenon DEF IInv

LEMMA RestoreStep ==
    ASSUME IInv, UNCHANGED env, Restore
    PROVE  IInv'
<1>1. /\ kernel.pc = "down" /\ Len(log) > 1 /\ hurt' = hurt \cup {"restore"}
      /\ log' = SubSeq(log, 1, Len(log) - 1) /\ rows' = Derived(log') /\ items' = Raised(log')
      /\ kernel' = [kernel EXCEPT !.clean = FALSE]
      /\ UNCHANGED <<checkpoints, blobs, files, unlinking, barrier, overdue, tx, rebuild, events, boots>>
  BY Zenon DEF Restore, evidence, stored, watermark
<1>2. log' \in Seq(Events) /\ Len(log') > 0
  BY <1>1 DEF IInv, TypeOK
<1>3. rows' \in SUBSET Nat /\ items' \in SUBSET Nat
  BY <1>1, <1>2, DerivedTyped, Zenon
<1>4. kernel'.pc = "down" /\ ~kernel'.clean /\ kernel'.verdict = kernel.verdict
  BY <1>1, Zenon DEF IInv, TypeOK
<1>5. TypeOK'
  BY <1>1, <1>2, <1>3, Zenon DEF IInv, TypeOK
<1>6. LogOpens' /\ Faithful' /\ InFlight' /\ OnePerSequence' /\ Anchored' /\ BarrierHeld'
  BY <1>1, <1>2, NothingWaits, Zenon
     DEF IInv, LogOpens, Faithful, InFlight, OnePerSequence, Anchored, BarrierHeld
<1>7. ChangeShows' /\ StopRecorded'
  BY <1>1, <1>4, Zenon DEF ChangeShows, StopRecorded
<1>8. Truthful' /\ RecordsStored'
  BY <1>1, <1>4, Zenon DEF IInv, Truthful, NoFalseAlarm, VerdictMatchesStop,
                    RecordsStored, RebuildAgrees
<1> QED
  BY <1>5, <1>6, <1>7, <1>8, Zenon DEF IInv

LEMMA DiscardStep ==
    ASSUME IInv, UNCHANGED env, discard_all
    PROVE  IInv'
<1>1. /\ kernel.pc # "serving" /\ checkpoints' = {} /\ barrier' = 0 /\ overdue' = TRUE
      /\ kernel' = [pc |-> "down", verdict |-> "none", clean |-> FALSE, touched |-> FALSE]
      /\ UNCHANGED <<log, rows, items, blobs, files, unlinking, tx, rebuild, events, boots, hurt>>
  BY Zenon DEF discard_all, db, stored
<1>2. TypeOK' /\ LogOpens' /\ Faithful' /\ OnePerSequence' /\ Anchored' /\ BarrierHeld'
  BY <1>1, Zenon DEF IInv, TypeOK, Verdicts, LogOpens, Faithful, OnePerSequence, Anchored, BarrierHeld
<1>3. InFlight' /\ ChangeShows' /\ StopRecorded'
  BY <1>1, NothingWaits, Zenon DEF IInv, InFlight, ChangeShows, StopRecorded
<1>4. Truthful' /\ RecordsStored'
  BY <1>1, NothingWaits, Zenon DEF IInv, Truthful, NoFalseAlarm, VerdictMatchesStop, RecordsStored,
              RebuildAgrees
<1> QED
  BY <1>2, <1>3, <1>4, Zenon DEF IInv

LEMMA RebuildSteps ==
    ASSUME IInv, UNCHANGED env, RebuildRead \/ RebuildReport
    PROVE  IInv'
<1>1. UNCHANGED <<log, rows, items, checkpoints, blobs, files, unlinking, barrier, overdue, kernel, tx,
                 events, boots, hurt>>
  BY Zenon DEF RebuildRead, RebuildReport, db, evidence, stored
<1>2. /\ rebuild' \in [pc : {"replay"}, log : Seq(Events), live : SUBSET Nat]
                      \cup [pc : {"report"}, agrees : BOOLEAN]
      /\ "rows" \notin hurt => /\ rebuild'.pc = "replay" => rebuild'.live = Derived(rebuild'.log)
                               /\ rebuild'.pc = "report" => rebuild'.agrees
  <2>1. CASE RebuildRead
    BY <2>1, Zenon DEF RebuildRead, IInv, TypeOK, Faithful
  <2>2. CASE RebuildReport
    <3>1. "rows" \notin hurt => Derived(rebuild.log) = rebuild.live
      BY <2>2, Zenon DEF RebuildReport, IInv, Faithful
    <3> QED
      BY <2>2, <3>1, Zenon DEF RebuildReport
  <2> QED
    BY <2>1, <2>2, Zenon
<1>3. TypeOK' /\ LogOpens' /\ Faithful' /\ OnePerSequence' /\ Anchored' /\ BarrierHeld'
  BY <1>1, <1>2 DEF IInv, TypeOK, LogOpens, Faithful, OnePerSequence, Anchored, BarrierHeld
<1>4. InFlight' /\ ChangeShows' /\ StopRecorded'
  BY <1>1, Zenon DEF IInv, InFlight, ChangeShows, StopRecorded, watermark
<1>5. Truthful' /\ RecordsStored'
  BY <1>1, <1>3, Zenon DEF IInv, Truthful, NoFalseAlarm, VerdictMatchesStop,
                    RecordsStored, RebuildAgrees, Faithful
<1> QED
  BY <1>3, <1>4, <1>5, Zenon DEF IInv

-----------------------------------------------------------------------------
(***************************************************************************)
(* A start.                                                                *)
(***************************************************************************)
\* A verdict on the hash rests on a checkpoint at the watermark, and where one can
\* be read back it is not passed over.
LEMMA VerdictRests ==
    ASSUME TypeOK, NEW h
    PROVE  /\ Warm(h) \in {"verified", "diverged", "unverified"}
           /\ Warm(h) = "verified" => \E c \in checkpoints : c.seq = watermark /\ c.hash = h
           /\ Warm(h) = "diverged" => \E c \in checkpoints : c.seq = watermark /\ c.hash # h
           /\ (\E c \in checkpoints : c.seq = watermark /\ c.hash \in Readable) => Warm(h) # "unverified"
<1>1. newest_valid \subseteq checkpoints
  BY Zenon DEF newest_valid
<1>2. ASSUME NEW c \in checkpoints, c.seq = watermark, c.hash \in Readable
      PROVE  c \in newest_valid
  <2>1. watermark \in Nat /\ \A o \in checkpoints : o.seq \in Nat
    BY DEF TypeOK, watermark, Checkpoints
  <2> QED
    BY <1>2, <2>1 DEF newest_valid, validate
<1> QED
  BY <1>1, <1>2, Zenon DEF Warm

\* What neither damage nor a sweep has taken can be read back.
LEMMA KeptWhole ==
    ASSUME IInv, {"blob", "swept"} \cap hurt = {}
    PROVE  \A c \in checkpoints : c.hash \in Readable
<1>1. "swept" \notin hurt
  <2>1. "swept" \in {"blob", "swept"}
    OBVIOUS
  <2> QED
    BY <2>1, Zenon
<1>2. RecordsStored
  BY Zenon DEF IInv
<1>3. \A c \in checkpoints : c.hash \in blobs
  BY <1>1, <1>2, Zenon DEF RecordsStored
<1>4. blobs \subseteq files
  BY <1>2 DEF RecordsStored
<1> QED
  BY <1>3, <1>4, Zenon DEF Readable

\* Where nothing was touched no checkpoint speaks against the rows.
LEMMA NoDivergence ==
    ASSUME IInv, {"rows", "restore"} \cap hurt = {}
    PROVE  Warm(Derived(log)) # "diverged" /\ rows = Derived(log)
<1>1. rows = Derived(log)
  BY Zenon DEF IInv, Faithful
<1>2. ASSUME NEW c \in checkpoints, c.seq = watermark PROVE c.hash = Derived(log)
  <2>1. c.hash = Derived(SubSeq(log, 1, Len(log)))
    BY <1>2, Zenon DEF IInv, Anchored, watermark
  <2>2. SubSeq(log, 1, Len(log)) = log
    BY PrefixAll, Zenon DEF IInv, TypeOK
  <2> QED
    BY <2>1, <2>2, Zenon
<1> QED
  BY <1>1, <1>2, VerdictRests, Zenon DEF IInv

\* What every start leaves alone, and what its verdict must be for the invariant.
LEMMA Booted ==
    ASSUME IInv, UNCHANGED env, NEW v \in Verdicts, kernel.pc # "serving", Boot(v),
           rows' \in SUBSET Nat, items' \in SUBSET Nat, boots' \in Nat,
           UNCHANGED <<log, checkpoints, blobs, files, unlinking, barrier, overdue, tx, rebuild, events, hurt>>,
           rows' = rows \/ rows' = Derived(log),
           {"rows", "restore"} \cap hurt = {} => v # "diverged",
           kernel.touched /\ "restore" \notin hurt => v # "verified",
           kernel.clean /\ hurt = {} /\ Ready(v) => v \in {"verified", "replayed"},
           kernel.touched /\ "restore" \notin hurt /\ ~Ready(v) =>
                \A c \in checkpoints : c.seq = watermark => c.hash # rows'
    PROVE  IInv'
<1>1. /\ kernel' = [kernel EXCEPT !.pc = IF Ready(v) THEN "serving" ELSE "refused", !.verdict = v]
      /\ kernel' \in [pc : {"down", "serving", "refused"}, verdict : Verdicts,
                      clean : BOOLEAN, touched : BOOLEAN]
  BY Zenon DEF Boot, IInv, TypeOK
<1>2. /\ kernel'.verdict = v /\ kernel'.clean = kernel.clean /\ kernel'.touched = kernel.touched
      /\ kernel'.pc = "serving" <=> Ready(v)
  BY <1>1, Zenon DEF IInv, TypeOK
<1>3. TypeOK' /\ LogOpens' /\ OnePerSequence' /\ Anchored' /\ BarrierHeld'
  BY <1>1, Zenon DEF IInv, TypeOK, LogOpens, OnePerSequence, Anchored, BarrierHeld
<1>4. Faithful'
  BY Zenon DEF IInv, Faithful
<1>5. InFlight'
  BY NothingWaits, Zenon DEF InFlight
<1>6. ChangeShows'
  BY <1>2, Zenon DEF ChangeShows, watermark
<1>7. StopRecorded'
  BY <1>2, Zenon DEF IInv, StopRecorded, watermark
<1>8. Truthful' /\ RecordsStored'
  BY <1>2, <1>4, Zenon DEF IInv, Truthful, NoFalseAlarm, VerdictMatchesStop,
                    RecordsStored, RebuildAgrees, Faithful
<1> QED
  BY <1>3, <1>4, <1>5, <1>6, <1>7, <1>8, Zenon DEF IInv

LEMMA RecoverStep ==
    ASSUME IInv, UNCHANGED env, recover
    PROVE  IInv'
<1>1. /\ kernel.pc # "serving" /\ boots' \in Nat
      /\ UNCHANGED <<log, checkpoints, blobs, files, unlinking, barrier, overdue, tx, rebuild, events, hurt>>
  BY DEF recover, evidence, stored, IInv, TypeOK
<1>2. TypeOK /\ rows \in SUBSET Nat /\ items \in SUBSET Nat /\ log \in Seq(Events)
  BY Zenon DEF IInv, TypeOK
<1>3. CASE rows # {}
  <2>1. Boot(Warm(rows)) /\ UNCHANGED <<rows, items>>
    BY <1>3, Zenon DEF recover
  <2>2. Warm(rows) \in Verdicts
    BY <1>2, VerdictRests, Zenon DEF Verdicts
  <2>3. {"rows", "restore"} \cap hurt = {} => Warm(rows) # "diverged"
    BY NoDivergence, Zenon
  <2>4. kernel.touched /\ "restore" \notin hurt =>
            \A c \in checkpoints : c.seq = watermark => c.hash # rows
    BY <1>1, Zenon DEF IInv, ChangeShows
  <2>5. kernel.touched /\ "restore" \notin hurt => Warm(rows) # "verified"
    BY <1>2, <2>4, VerdictRests, Zenon
  <2>6. kernel.clean /\ hurt = {} => Warm(rows) = "verified"
    <3> SUFFICES ASSUME kernel.clean, hurt = {} PROVE Warm(rows) = "verified"
      BY Zenon
    <3>1. \E c \in checkpoints : c.seq = watermark /\ c.hash \in Readable
      BY <1>1, KeptWhole, Zenon DEF IInv, StopRecorded
    <3> QED
      BY <1>2, <2>3, <3>1, VerdictRests, Zenon
  <2> DEFINE v == Warm(rows)
  <2> HIDE DEF v
  <2> QED
    BY <1>1, <1>2, <2>1, <2>2, <2>3, <2>4, <2>5, <2>6, Booted, Zenon DEF v
<1>4. CASE rows = {} /\ ReplayFails
  <2>1. Boot("failed") /\ UNCHANGED <<rows, items>>
    BY <1>4, Zenon DEF recover
  <2>2. "failed" \in Verdicts /\ ~Ready("failed")
    BY Zenon DEF Verdicts, Ready
  <2>3. kernel.touched /\ "restore" \notin hurt =>
            \A c \in checkpoints : c.seq = watermark => c.hash # rows
    BY <1>1, Zenon DEF IInv, ChangeShows
  <2> QED
    BY <1>1, <1>2, <2>1, <2>2, <2>3, Booted, Zenon
<1>5. CASE rows = {} /\ ~ReplayFails
  <2> DEFINE h == Derived(log)
             v == IF Warm(h) = "diverged" THEN "diverged" ELSE "replayed"
  <2>1. rows' = h /\ items' = items \cup Raised(log)
    BY <1>5, Zenon DEF recover
  <2>2. rows' \in SUBSET Nat /\ items' \in SUBSET Nat
    BY <1>2, <2>1, DerivedTyped, Zenon
  <2>3. Boot(v)
    BY <1>5, <2>1, Zenon DEF recover
  <2>4. /\ v \in Verdicts /\ (Ready(v) <=> v = "replayed") /\ v # "verified"
        /\ ~Ready(v) => Warm(h) = "diverged"
    BY Zenon DEF Verdicts, Ready
  <2>5. {"rows", "restore"} \cap hurt = {} => v # "diverged"
    BY NoDivergence, Zenon
  <2>6. ~Ready(v) => \A c \in checkpoints : c.seq = watermark => c.hash # rows'
    <3> SUFFICES ASSUME ~Ready(v), NEW c \in checkpoints, c.seq = watermark PROVE c.hash # h
      BY <2>1, Zenon
    <3>1. PICK o \in checkpoints : o.seq = watermark /\ o.hash # h
      BY <1>2, <2>4, VerdictRests, Zenon
    <3> QED
      BY <3>1, Zenon DEF IInv, OnePerSequence
  <2> HIDE DEF v
  <2> QED
    BY <1>1, <1>2, <2>1, <2>2, <2>3, <2>4, <2>5, <2>6, Booted, Zenon
<1> QED
  BY <1>3, <1>4, <1>5, Zenon

-----------------------------------------------------------------------------
\* Every step of the kernel, its operator and what may happen outside keeps it.
LEMMA StepIInv ==
    ASSUME RecoveryAssumption
    PROVE  IInv /\ [Next /\ UNCHANGED env]_<<vars, env>> => IInv'
<1> SUFFICES ASSUME IInv, [Next /\ UNCHANGED env]_<<vars, env>> PROVE IInv'
  BY Zenon
<1>1. CASE UNCHANGED <<vars, env>>
  <2>1. UNCHANGED <<log, rows, items, checkpoints, blobs, files, unlinking, barrier, overdue, kernel, tx,
                    rebuild, events, boots, hurt, env>>
    BY <1>1, Zenon DEF vars
  <2>2. TypeOK' /\ InFlight' /\ BarrierHeld' /\ RecordsStored'
    BY <2>1 DEF IInv, TypeOK, InFlight, BarrierHeld, RecordsStored
  <2> QED
    BY <2>1, <2>2, DatabaseStands, Zenon DEF IInv, Truthful
<1>2. CASE Next /\ UNCHANGED env
  BY <1>2, Append1Step, SnapshotSteps, AppendCommitStep, OverdueStep, SweepSteps, StopCommitStep, CrashStep,
     ForgeStep, DamageStep, RestoreStep, DiscardStep, RecoverStep, RebuildSteps, Zenon
     DEF Next
<1> QED
  BY <1>1, <1>2, Zenon

\* What a start or a rebuild says of the projections is true for any interval,
\* however many events, starts, crashes, damaged blobs, restores, discards and
\* sweeps, at whatever moment they come; and its checkpoints can be read back where
\* no blob was damaged and no sweep fell between a checkpoint's blob and its row or
\* unlinked a container that was stored again.
THEOREM RecoveryTruthful ==
    ASSUME RecoveryAssumption
    PROVE  Spec => []RecoveryIsTruthful
<1>1. Init => IInv
  BY InitIInv, Zenon
<1>2. IInv /\ [Next /\ UNCHANGED env]_<<vars, env>> => IInv'
  BY StepIInv, Zenon
<1>3. IInv => RecoveryIsTruthful
  <2>1. IInv => CheckpointKeepsRecords
    BY KeptWhole, Zenon DEF CheckpointKeepsRecords
  <2> QED
    BY <2>1, Zenon DEF IInv, Truthful, RecoveryIsTruthful
<1> QED
  BY <1>1, <1>2, <1>3, PTL DEF Spec

\* No append leaves the newest checkpoint an interval behind: the barrier that lets
\* an append pass without a checkpoint is always one the table holds.
THEOREM BarrierKept ==
    ASSUME RecoveryAssumption
    PROVE  Spec => BarrierHolds
<1> DEFINE Covered ==
      Len(log') > Len(log) =>
          \E c \in checkpoints' : Len(log') < c.seq + CHECKPOINT_EVENT_INTERVAL
<1>1. Init => IInv
  BY InitIInv, Zenon
<1>2. IInv /\ [Next /\ UNCHANGED env]_<<vars, env>> => IInv'
  BY StepIInv, Zenon
<1>3. IInv /\ [Next /\ UNCHANGED env]_<<vars, env>> => [Covered]_vars
  <2> SUFFICES ASSUME IInv, Next, Len(log') > Len(log)
               PROVE  \E c \in checkpoints' : Len(log') < c.seq + CHECKPOINT_EVENT_INTERVAL
    BY Zenon DEF vars
  <2>1. /\ log \in Seq(Events) /\ Len(log) \in Nat /\ barrier \in Nat
        /\ CHECKPOINT_EVENT_INTERVAL \in Nat \ {0}
    BY DEF IInv, TypeOK, RecoveryAssumption
  <2>2. CASE Append1
    <3>1. PICK e \in Event : log' = Append(log, e)
      BY <2>2, Zenon DEF Append1
    <3>2. Len(log') = Len(log) + 1
      BY <2>1, <3>1
    <3>3. ~overdue /\ Len(log) + 1 < barrier + CHECKPOINT_EVENT_INTERVAL /\ checkpoints' = checkpoints
      BY <2>1, <2>2 DEF Append1, checkpoint_due, watermark, evidence, stored
    <3> QED
      BY <3>2, <3>3, Zenon DEF IInv, BarrierHeld
  <2>3. CASE AppendCommit
    <3>1. log' = Append(log, tx.event) /\ Record(Len(log) + 1, tx.hash) /\ tx.hash \in SUBSET Nat
      BY <2>3 DEF AppendCommit, watermark, IInv, TypeOK, NoTx
    <3>2. Len(log') = Len(log) + 1
      BY <2>1, <3>1
    <3>3. \E c \in checkpoints' : c.seq = Len(log) + 1
      BY <2>1, <3>1, Recorded
    <3> QED
      BY <2>1, <3>2, <3>3
  <2>4. CASE Restore
    <3>1. Len(log) > 1 /\ log' = SubSeq(log, 1, Len(log) - 1)
      BY <2>4, Zenon DEF Restore, watermark
    <3> QED
      BY <2>1, <3>1
  <2>5. log' = log \/ Append1 \/ AppendCommit \/ Restore
    BY Zenon DEF Next, AppendSnapshot, Overdue, StopSnapshot, StopCommit, Crash, Sweep, Unlink, ForgeRow,
           DamageBlob, discard_all, recover, RebuildRead, RebuildReport, db
  <2> QED
    BY <2>1, <2>2, <2>3, <2>4, <2>5
<1> QED
  BY <1>1, <1>2, <1>3, PTL DEF Spec, BarrierHolds

\* A start never says "unverified" where the table holds readable evidence about
\* this very watermark, whatever newer checkpoints it walks past.
THEOREM EvidenceUsed ==
    ASSUME RecoveryAssumption
    PROVE  Spec => EvidenceIsUsed
<1> DEFINE Used ==
      boots' > boots /\ (\E c \in checkpoints : c.seq = watermark /\ c.hash \in Readable)
            => kernel'.verdict # "unverified"
<1>1. Init => IInv
  BY InitIInv, Zenon
<1>2. IInv /\ [Next /\ UNCHANGED env]_<<vars, env>> => IInv'
  BY StepIInv, Zenon
<1>3. IInv /\ [Next /\ UNCHANGED env]_<<vars, env>> => [Used]_vars
  <2> SUFFICES ASSUME IInv, Next, boots' > boots,
                      \E c \in checkpoints : c.seq = watermark /\ c.hash \in Readable
               PROVE  kernel'.verdict # "unverified"
    BY Zenon DEF vars
  <2>1. boots \in Nat /\ TypeOK
    BY Zenon DEF IInv, TypeOK
  <2>2. recover
    BY <2>1 DEF Next, Append1, AppendSnapshot, AppendCommit, Overdue, StopSnapshot, StopCommit,
                Crash, Sweep, Unlink, ForgeRow, DamageBlob, Restore, discard_all, RebuildRead, RebuildReport
  <2>3. PICK v \in {Warm(rows), "failed", "diverged", "replayed"} : Boot(v)
    BY <2>2, Zenon DEF recover
  <2>4. v # "unverified"
    BY <2>1, VerdictRests, Zenon
  <2>5. kernel'.verdict = v
    BY <2>1, <2>3, Zenon DEF Boot, TypeOK
  <2> QED
    BY <2>4, <2>5, Zenon
<1> QED
  BY <1>1, <1>2, <1>3, PTL DEF Spec, EvidenceIsUsed
=============================================================================
