--------------------------- MODULE EventStoreProofs ---------------------------
(***************************************************************************)
(* Proofs about EventStore, for any number of processes, append tasks and  *)
(* readers, any batches and any ceilings.                                  *)
(*                                                                         *)
(* The argument: the writer row's lock is held from the moment a           *)
(* transaction reads next_seq to the moment its rows are visible, so what  *)
(* it read is still true when it commits (LockHeld, Fresh) and what        *)
(* append_locked checked against the log still holds (Checked).            *)
(***************************************************************************)
EXTENDS EventStore, FiniteSetTheorems, TLAPS

\* A transaction past lock_writer is the one that holds the row lock.
LockHeld ==
    \A t \in Tasks : task[t].phase \in {"locked", "appended"} <=> rowLock = t

\* A task in flight belongs to a process that is up.
Attached ==
    \A t \in Tasks : task[t].phase # "idle" =>
        /\ task[t].kernel \in Kernels
        /\ kernel[task[t].kernel].life \in {"open", "reader", "cancelled"}

\* What the lock holder read of the writer row is what the row still says.
Fresh ==
    \A t \in Tasks : rowLock = t =>
        /\ task[t].w = [fence |-> writer.fence, next_seq |-> writer.next_seq]
        /\ kernel[task[t].kernel].boot_epoch = writer.epoch

\* What append_locked decided still holds of the committed log.
CheckedAt(t) ==
    IF task[t].phase = "appended"
    THEN \/ /\ Appendable(t)
            /\ task[t].staged = Inserted(writer.epoch, task[t].w, task[t].batch, task[t].fence)
            /\ task[t].reply = task[t].staged
         \/ /\ Replayable(t)
            /\ task[t].staged = {}
            /\ task[t].reply = Landed(task[t].batch)
    ELSE task[t].staged = {}

Checked == \A t \in Tasks : CheckedAt(t)

\* The log is finite and its versions start at 1; no reader is ahead of it.
LogShape ==
    /\ IsFiniteSet(event)
    /\ \A e \in event : e.env.version >= 1
    /\ \A r \in Readers : cursor[r] < writer.next_seq

AckedRows == \A rows \in acked : rows # {} /\ rows \subseteq event

Control == TypeOK /\ LockHeld /\ Attached /\ Fresh /\ Checked
Log == LogShape /\ SequenceUnique /\ VersionsContiguous /\ KeysLandOnce /\ AckedRows /\ CursorComplete

IInv == Control /\ Log

-----------------------------------------------------------------------------
(***************************************************************************)
(* Control: who holds the row lock, and what it knows.                     *)
(***************************************************************************)

LEMMA IdleTyped == Idle \in TaskState /\ Idle.phase = "idle" /\ Idle.staged = {}
BY DEF Idle, TaskState, NoBatch, Phases

\* The rows append_locked inserts are rows.
LEMMA InsertedRows ==
    ASSUME NEW k \in Nat, NEW w, w.next_seq \in Nat, NEW b,
           b.events \in Seq(Envelope), NEW f \in Nat
    PROVE  /\ Inserted(k, w, b, f) \subseteq Row
           /\ IsFiniteSet(Inserted(k, w, b, f))
<1>1. DOMAIN b.events = 1 .. Len(b.events) /\ Len(b.events) \in Nat
  OBVIOUS
<1>2. \A i \in DOMAIN b.events : b.events[i] \in Envelope
  OBVIOUS
<1>3. Inserted(k, w, b, f) \subseteq Row
  BY <1>1, <1>2, SMTT(30) DEF Inserted, Row
<1>4. IsFiniteSet(1 .. Len(b.events))
  BY <1>1, FS_Interval
<1>5. IsFiniteSet(Inserted(k, w, b, f))
  <2> DEFINE row == [i \in 1 .. Len(b.events) |->
                       [seq |-> w.next_seq + i - 1, env |-> b.events[i],
                        epoch |-> k, fence |-> f]]
  <2>1. row \in Surjection(1 .. Len(b.events), Inserted(k, w, b, f))
    BY <1>1, Zenon DEF Surjection, Inserted
  <2> QED
    BY <1>4, <2>1, FS_Surjection, Zenon
<1> QED
  BY <1>3, <1>5, Zenon

LEMMA InitControl == Init => Control
<1> SUFFICES ASSUME Init PROVE Control
  BY Zenon
<1>1. TypeOK
  BY IdleTyped, Zenon DEF Init, TypeOK, Lives
<1>2. LockHeld /\ Attached /\ Fresh /\ Checked
  BY IdleTyped, StoreAssumption, Zenon DEF Init, LockHeld, Attached, Fresh, Checked, CheckedAt
<1> QED
  BY <1>1, <1>2, Zenon DEF Control

\* The checks read the transaction and the committed log, nothing else.
LEMMA ChecksStable ==
    ASSUME NEW t, task'[t] = task[t], event' = event
    PROVE  /\ Appendable(t)' <=> Appendable(t)
           /\ Replayable(t)' <=> Replayable(t)
           /\ Landed(task[t].batch)' = Landed(task[t].batch)
BY DEF Appendable, Replayable, Landed, Replays, current_aggregate_version,
       ProjectKeysFree, FenceAccepts, validate_batch

LEMMA CheckedStable ==
    ASSUME NEW t, CheckedAt(t), task'[t] = task[t], event' = event,
           task[t].phase = "appended" => writer'.epoch = writer.epoch
    PROVE  CheckedAt(t)'
BY ChecksStable, Zenon DEF CheckedAt

\* Steps of a process: an append's transaction belongs to it, so a lock held by
\* a process that dies is released with it.
LEMMA KernelControl ==
    ASSUME Control, NEW k \in Kernels, KernelStep(k)
    PROVE  Control'
<1> USE DEF Control
<1>1. CASE acquire(k)
  <2>1. TypeOK'
    BY <1>1, Zenon DEF acquire, TypeOK, Lives
  <2>2. Attached'
    BY <1>1, Zenon DEF acquire, Attached, TypeOK
  <2>3. Fresh' /\ LockHeld'
    BY <1>1 DEF acquire, Fresh, LockHeld, TypeOK, TaskState
  <2>4. Checked'
    BY <1>1, CheckedStable, Zenon DEF acquire, Checked
  <2> QED
    BY <2>1, <2>2, <2>3, <2>4, Zenon
<1>2. CASE claim_epoch(k)
  <2>1. TypeOK'
    BY <1>2 DEF claim_epoch, TypeOK, Lives
  <2>2. Attached'
    BY <1>2, Zenon DEF claim_epoch, Attached, TypeOK
  <2>3. Fresh' /\ LockHeld'
    BY <1>2, StoreAssumption, Zenon DEF claim_epoch, Fresh, LockHeld
  <2>4. Checked'
    BY <1>2, CheckedStable, StoreAssumption, Zenon DEF claim_epoch, Checked, LockHeld
  <2> QED
    BY <2>1, <2>2, <2>3, <2>4, Zenon
<1>3. CASE open_reader(k)
  <2>1. TypeOK'
    BY <1>3, Zenon DEF open_reader, TypeOK, Lives
  <2>2. Attached'
    BY <1>3, Zenon DEF open_reader, Attached, TypeOK
  <2>3. Fresh' /\ LockHeld'
    BY <1>3, Zenon DEF open_reader, Fresh, LockHeld, Attached, TypeOK
  <2>4. Checked'
    BY <1>3, CheckedStable, Zenon DEF open_reader, Checked
  <2> QED
    BY <2>1, <2>2, <2>3, <2>4, Zenon
<1>4. CASE LoseSession(k)
  <2>1. TypeOK' /\ Attached' /\ Fresh' /\ LockHeld'
    BY <1>4, Zenon DEF LoseSession, TypeOK, Attached, Fresh, LockHeld
  <2>2. Checked'
    BY <1>4, CheckedStable, Zenon DEF LoseSession, Checked
  <2> QED
    BY <2>1, <2>2, Zenon
<1>5. CASE cancelled(k)
  <2>1. TypeOK'
    BY <1>5, Zenon DEF cancelled, TypeOK, Lives
  <2>2. Attached'
    BY <1>5, Zenon DEF cancelled, Attached, TypeOK
  <2>3. Fresh' /\ LockHeld'
    BY <1>5 DEF cancelled, Fresh, LockHeld, TypeOK, Attached
  <2>4. Checked'
    BY <1>5, CheckedStable, Zenon DEF cancelled, Checked
  <2> QED
    BY <2>1, <2>2, <2>3, <2>4, Zenon
<1>6. CASE GoDown(k)
  <2>1. TypeOK'
    BY <1>6, IdleTyped, Zenon DEF GoDown, TypeOK, Lives
  <2>2. Attached'
    BY <1>6, IdleTyped, Zenon DEF GoDown, Attached, TypeOK, TasksOf
  <2>3. LockHeld'
    BY <1>6, IdleTyped, StoreAssumption, Zenon DEF GoDown, LockHeld, TasksOf, TypeOK
  <2>4. Fresh'
    BY <1>6, StoreAssumption, Zenon DEF GoDown, Fresh, TasksOf, TypeOK, LockHeld, Attached
  <2>5. Checked'
    <3> SUFFICES ASSUME NEW t \in Tasks PROVE CheckedAt(t)'
      BY Zenon DEF Checked
    <3>1. CASE t \in TasksOf(k)
      BY <1>6, <3>1, IdleTyped, Zenon DEF GoDown, CheckedAt
    <3>2. CASE t \notin TasksOf(k)
      BY <1>6, <3>2, CheckedStable, Zenon DEF GoDown, Checked
    <3> QED
      BY <3>1, <3>2, Zenon
  <2> QED
    BY <2>1, <2>2, <2>3, <2>4, <2>5, Zenon
<1> QED
  BY <1>1, <1>2, <1>3, <1>4, <1>5, <1>6, Zenon DEF KernelStep, Exit, Crash

LEMMA AdmitControl ==
    ASSUME Control, NEW t \in Tasks, NEW k \in Kernels, NEW b \in Batches,
           NEW f \in 0 .. MaxFence, admit(t, k, b, f)
    PROVE  Control'
<1> USE DEF Control
<1> DEFINE new == [Idle EXCEPT !.phase = "admitted", !.kernel = k, !.batch = b, !.fence = f]
<1>1. new \in TaskState /\ new.phase = "admitted" /\ new.kernel = k /\ new.staged = {}
  <2>1. b \in [expected : Nat, events : Seq(Envelope)] /\ f \in Nat
    BY StoreAssumption
  <2>2. "admitted" \in Phases /\ k \in Kernels \cup {Nobody}
    BY Zenon DEF Phases
  <2>3. Idle \in TaskState /\ Idle.staged = {}
    BY IdleTyped, Zenon
  <2> QED
    BY <2>1, <2>2, <2>3, Zenon DEF TaskState
<1> HIDE DEF new
<1>2. task' = [task EXCEPT ![t] = new]
  BY Zenon DEF admit, new
<1>3. TypeOK'
  BY <1>1, <1>2, Zenon DEF admit, TypeOK
<1>4. LockHeld' /\ Attached' /\ Fresh'
  BY <1>1, <1>2 DEF admit, TypeOK, LockHeld, Attached, Fresh
<1>5. Checked'
  <2> SUFFICES ASSUME NEW u \in Tasks PROVE CheckedAt(u)'
    BY Zenon DEF Checked
  <2>1. CASE u = t
    BY <1>1, <1>2, <2>1, Zenon DEF CheckedAt, TypeOK
  <2>2. CASE u # t
    BY <1>2, <2>2, CheckedStable, Zenon DEF admit, Checked, TypeOK
  <2> QED
    BY <2>1, <2>2, Zenon
<1> QED
  BY <1>3, <1>4, <1>5, Zenon

\* A transaction that ends takes its lock and its rows with it.
LEMMA RollbackControl ==
    ASSUME Control, NEW t \in Tasks, Rollback(t)
    PROVE  Control'
<1> USE DEF Control
<1>1. TypeOK'
  BY IdleTyped, Zenon DEF Rollback, TypeOK
<1>2. LockHeld' /\ Attached' /\ Fresh'
  BY IdleTyped, StoreAssumption, Zenon DEF Rollback, TypeOK, LockHeld, Attached, Fresh
<1>3. Checked'
  <2> SUFFICES ASSUME NEW u \in Tasks PROVE CheckedAt(u)'
    BY Zenon DEF Checked
  <2>1. CASE u = t
    BY <2>1, IdleTyped, Zenon DEF Rollback, CheckedAt, TypeOK
  <2>2. CASE u # t
    BY <2>2, CheckedStable, Zenon DEF Rollback, Checked, TypeOK
  <2> QED
    BY <2>1, <2>2, Zenon
<1> QED
  BY <1>1, <1>2, <1>3, Zenon

LEMMA LockControl ==
    ASSUME Control, NEW t \in Tasks, lock_writer(t)
    PROVE  Control'
<1> USE DEF Control
<1> DEFINE new == [task[t] EXCEPT !.phase = "locked",
                     !.w = [fence |-> writer.fence, next_seq |-> writer.next_seq]]
<1>1. /\ new \in TaskState /\ new.phase = "locked" /\ new.staged = task[t].staged
      /\ new.kernel = task[t].kernel
      /\ new.w = [fence |-> writer.fence, next_seq |-> writer.next_seq]
  <2>1. /\ task[t] \in TaskState
        /\ [fence |-> writer.fence, next_seq |-> writer.next_seq] \in [fence : Nat, next_seq : Nat]
    BY Zenon DEF TypeOK
  <2>2. "locked" \in Phases
    BY Zenon DEF Phases
  <2> QED
    BY <2>1, <2>2, Zenon DEF TaskState
<1> HIDE DEF new
<1>2. task' = [task EXCEPT ![t] = new]
  BY Zenon DEF lock_writer, new, TypeOK, TaskState
<1>3. TypeOK'
  BY <1>1, <1>2, ZenonT(30) DEF lock_writer, TypeOK
<1>4. LockHeld' /\ Attached' /\ Fresh'
  BY <1>1, <1>2, StoreAssumption, SMTT(30) DEF lock_writer, TypeOK, LockHeld, Attached, Fresh
<1>5. Checked'
  <2> SUFFICES ASSUME NEW u \in Tasks PROVE CheckedAt(u)'
    BY Zenon DEF Checked
  <2>1. CASE u = t
    BY <1>1, <1>2, <2>1, Zenon DEF CheckedAt, Checked, TypeOK, lock_writer
  <2>2. CASE u # t
    BY <1>2, <2>2, CheckedStable, Zenon DEF lock_writer, Checked, TypeOK
  <2> QED
    BY <2>1, <2>2, Zenon
<1> QED
  BY <1>3, <1>4, <1>5, Zenon

\* append_locked, on a batch that lands and on a replay: the decision is taken
\* on the log it will commit to.
LEMMA AppendControl ==
    ASSUME Control, NEW t \in Tasks, append_locked(t) \/ ReplayLocked(t)
    PROVE  Control'
<1> USE DEF Control
<1>a. /\ task[t] \in TaskState /\ task[t].phase = "locked"
      /\ UNCHANGED <<writer, rowLock, session, kernel, event, cursor, seen, acked>>
  BY Zenon DEF TypeOK, append_locked, ReplayLocked
<1>b. rowLock = t /\ kernel[task[t].kernel].boot_epoch = writer.epoch
  BY <1>a, Zenon DEF LockHeld, Fresh
<1> DEFINE b == task[t].batch
           rows == IF append_locked(t)
                   THEN Inserted(writer.epoch, task[t].w, b, task[t].fence)
                   ELSE {}
           reply == IF append_locked(t) THEN rows ELSE Landed(b)
           new == [task[t] EXCEPT !.phase = "appended", !.staged = rows, !.reply = reply]
<1>1. rows \subseteq Row
  <2>1. task[t].w.next_seq \in Nat /\ b.events \in Seq(Envelope) /\ task[t].fence \in Nat
        /\ writer.epoch \in Nat
    BY <1>a, Zenon DEF TypeOK, TaskState
  <2> QED
    BY <2>1, InsertedRows, Zenon
<1>2. reply \subseteq Row
  BY <1>1, Zenon DEF Landed, TypeOK
<1>3. task[t].staged = {}
  BY <1>a, Zenon DEF Checked, CheckedAt
<1> HIDE DEF rows, reply
<1>4. /\ new \in TaskState /\ new.phase = "appended" /\ new.staged = rows /\ new.reply = reply
      /\ new.kernel = task[t].kernel /\ new.w = task[t].w /\ new.batch = b
      /\ new.fence = task[t].fence
  BY <1>a, <1>1, <1>2, Zenon DEF TaskState, Phases
<1>5. task' = [task EXCEPT ![t] = new]
  <2>1. CASE append_locked(t)
    <3>1. rows = Inserted(kernel[task[t].kernel].boot_epoch, task[t].w, b, task[t].fence)
          /\ reply = rows
      BY <2>1, <1>b, Zenon DEF rows, reply
    <3> QED
      BY <2>1, <3>1, Zenon DEF append_locked, TypeOK
  <2>2. CASE ~append_locked(t) /\ ReplayLocked(t)
    <3>1. rows = task[t].staged /\ reply = Landed(b)
      BY <2>2, <1>3, Zenon DEF rows, reply
    <3>2. new = [task[t] EXCEPT !.phase = "appended", !.reply = Landed(b)]
      BY <1>a, <3>1, Zenon DEF TaskState
    <3> QED
      BY <2>2, <3>2, Zenon DEF ReplayLocked, TypeOK
  <2> QED
    BY <2>1, <2>2, Zenon
<1> HIDE DEF new
<1>6. TypeOK'
  BY <1>a, <1>4, <1>5, Zenon DEF TypeOK
<1>7. LockHeld' /\ Attached' /\ Fresh'
  BY <1>a, <1>4, <1>5, Zenon DEF TypeOK, LockHeld, Attached, Fresh
<1>8. Checked'
  <2> SUFFICES ASSUME NEW u \in Tasks PROVE CheckedAt(u)'
    BY Zenon DEF Checked
  <2>1. CASE u = t
    <3>1. task'[t] = new
      BY <1>5, Zenon DEF TypeOK
    <3>2. Landed(task[t].batch)' = Landed(b)
      BY <1>a, <3>1, <1>4, Zenon DEF Landed
    <3>3. Appendable(t)' <=> Appendable(t)
      BY <1>a, <3>1, <1>4 DEF Appendable, Landed, current_aggregate_version,
         ProjectKeysFree, FenceAccepts, validate_batch
    <3>4. Replayable(t)' <=> Replayable(t)
      BY <1>a, <3>1, <1>4 DEF Replayable, Landed, Replays, FenceAccepts, validate_batch
    <3> QED
      BY <1>a, <1>4, <2>1, <3>1, <3>2, <3>3, <3>4, Zenon
      DEF CheckedAt, append_locked, ReplayLocked, rows, reply
  <2>2. CASE u # t
    BY <1>a, <1>5, <2>2, CheckedStable, Zenon DEF Checked, TypeOK
  <2> QED
    BY <2>1, <2>2, Zenon
<1> QED
  BY <1>6, <1>7, <1>8, Zenon

LEMMA LandControl ==
    ASSUME Control, NEW t \in Tasks, Land(t), acked' \in SUBSET SUBSET Row
    PROVE  Control'
<1> USE DEF Control
<1>1. task[t] \in TaskState /\ rowLock = t /\ task[t].phase = "appended"
  BY Zenon DEF TypeOK, Land, LockHeld
<1>2. TypeOK'
  <2>1. event' \subseteq Row
    BY <1>1, Zenon DEF Land, TypeOK, TaskState
  <2>2. task[t].batch.events \in Seq(Envelope) /\ task[t].w.next_seq \in Nat
    BY <1>1, Zenon DEF TaskState
  <2>3. task[t].w.next_seq + Len(task[t].batch.events) \in Nat
    <3>1. \A s \in Seq(Envelope) : Len(s) \in Nat
      OBVIOUS
    <3> QED
      BY <2>2, <3>1
  <2>4. writer' \in [epoch : Nat, fence : Nat, next_seq : Nat]
    BY <2>3, Zenon DEF Land, TypeOK
  <2> QED
    BY <2>1, <2>4, IdleTyped, Zenon DEF Land, TypeOK
<1>3. LockHeld' /\ Attached' /\ Fresh'
  BY <1>1, IdleTyped, StoreAssumption, Zenon DEF Land, TypeOK, LockHeld, Attached, Fresh
<1>4. Checked'
  <2> SUFFICES ASSUME NEW u \in Tasks PROVE CheckedAt(u)'
    BY Zenon DEF Checked
  <2>1. CASE u = t
    BY <2>1, IdleTyped, Zenon DEF Land, CheckedAt, TypeOK
  <2>2. CASE u # t
    BY <1>1, <2>2, Zenon DEF Land, Checked, CheckedAt, TypeOK, LockHeld
  <2> QED
    BY <2>1, <2>2, Zenon
<1> QED
  BY <1>2, <1>3, <1>4, Zenon

LEMMA GrantControl ==
    ASSUME Control, grant_fence
    PROVE  Control'
<1> USE DEF Control
<1>1. TypeOK' /\ LockHeld' /\ Attached' /\ Fresh'
  <2>1. TypeOK'
    BY DEF grant_fence, TypeOK
  <2>2. LockHeld' /\ Attached'
    BY Zenon DEF grant_fence, LockHeld, Attached
  <2>3. Fresh'
    BY StoreAssumption, Zenon DEF grant_fence, Fresh
  <2> QED
    BY <2>1, <2>2, <2>3, Zenon
<1>2. Checked'
  BY CheckedStable, Zenon DEF grant_fence, Checked, TypeOK
<1> QED
  BY <1>1, <1>2, Zenon

LEMMA ReadControl ==
    ASSUME Control, NEW r \in Readers, read_page(r)
    PROVE  Control'
<1> USE DEF Control
<1>1. Page(r) \subseteq event
  BY Zenon DEF Page
<1>2. TypeOK'
  BY <1>1, Zenon DEF read_page, TypeOK, Row
<1>3. LockHeld' /\ Attached' /\ Fresh'
  BY Zenon DEF read_page, LockHeld, Attached, Fresh
<1>4. Checked'
  BY CheckedStable, Zenon DEF read_page, Checked
<1> QED
  BY <1>2, <1>3, <1>4, Zenon

LEMMA StutterControl ==
    ASSUME Control, UNCHANGED vars
    PROVE  Control'
<1> USE DEF Control
<1>1. TypeOK' /\ LockHeld' /\ Attached' /\ Fresh'
  BY Zenon DEF vars, TypeOK, LockHeld, Attached, Fresh
<1>2. Checked'
  BY CheckedStable, Zenon DEF vars, Checked
<1> QED
  BY <1>1, <1>2, Zenon

\* What the lock holder is told is a set of rows.
LEMMA ReplyRows ==
    ASSUME Control, NEW t \in Tasks, Commit(t)
    PROVE  acked' \in SUBSET SUBSET Row
BY SMTT(30) DEF Control, TypeOK, TaskState, Commit

LEMMA NextControl == Control /\ [Next]_vars => Control'
<1> SUFFICES ASSUME Control, [Next]_vars PROVE Control'
  BY Zenon
<1>1. ASSUME NEW k \in Kernels, KernelStep(k) PROVE Control'
  BY <1>1, KernelControl, Zenon
<1>2. ASSUME NEW t \in Tasks, TaskStep(t) PROVE Control'
  <2>1. CASE lock_writer(t)
    BY <2>1, LockControl, Zenon
  <2>2. CASE Superseded(t) \/ RefuseLocked(t) \/ TxFails(t)
    BY <2>2, RollbackControl, Zenon DEF Superseded, RefuseLocked, TxFails
  <2>3. CASE append_locked(t) \/ ReplayLocked(t)
    BY <2>3, AppendControl, Zenon
  <2>4. CASE Commit(t)
    BY <2>4, ReplyRows, LandControl, Zenon DEF Commit
  <2>5. CASE CommitAnswerLost(t)
    BY <2>5, LandControl, Zenon DEF CommitAnswerLost, Control, TypeOK
  <2> QED
    BY <1>2, <2>1, <2>2, <2>3, <2>4, <2>5, Zenon DEF TaskStep
<1>3. ASSUME NEW t \in Tasks, NEW k \in Kernels, NEW b \in Batches, NEW f \in 0 .. MaxFence,
             admit(t, k, b, f)
      PROVE  Control'
  BY <1>3, AdmitControl, Zenon
<1>4. ASSUME NEW r \in Readers, read_page(r) PROVE Control'
  BY <1>4, ReadControl, Zenon
<1> QED
  BY <1>1, <1>2, <1>3, <1>4, GrantControl, StutterControl, Zenon DEF Next

\* The store's columns and in-memory state keep their types (TypeOK), on every
\* database and with any number of processes and requests.
THEOREM StoreTypes == Spec => []TypeOK
<1>1. Init => Control
  BY InitControl, Zenon
<1>2. Control /\ [Next]_vars => Control'
  BY NextControl, Zenon
<1>3. Control => TypeOK
  BY Zenon DEF Control
<1> QED
  BY <1>1, <1>2, <1>3, PTL DEF Spec

-----------------------------------------------------------------------------
(***************************************************************************)
(* The log: what a landing transaction adds to it.                         *)
(***************************************************************************)

\* The rows of a landing batch sit at next_seq and above, one per sequence,
\* and continue their aggregate's versions by one each.
LEMMA StagedRows ==
    ASSUME Control, NEW t \in Tasks, task[t].phase = "appended", task[t].staged # {}
    PROVE  LET b == task[t].batch
               n == writer.next_seq
           IN  /\ Appendable(t)
               /\ n \in Nat /\ b.expected \in Nat /\ b.events \in Seq(Envelope)
               /\ Len(b.events) \in Nat /\ Len(b.events) >= 1
               /\ task[t].w.next_seq = n
               /\ task[t].w.fence = writer.fence
               /\ \A e \in task[t].staged :
                    /\ e.seq \in n .. (n + Len(b.events) - 1)
                    /\ e = [seq |-> e.seq, env |-> b.events[e.seq - n + 1],
                            epoch |-> writer.epoch, fence |-> task[t].fence]
                    /\ e.env.aggregate = AggregateOf(b)
                    /\ e.env.version = b.expected + (e.seq - n + 1)
               /\ \A i \in n .. (n + Len(b.events) - 1) :
                    \E e \in task[t].staged : e.seq = i
<1> DEFINE b == task[t].batch
           n == writer.next_seq
<1>1. Appendable(t) /\ task[t].staged = Inserted(writer.epoch, task[t].w, b, task[t].fence)
  BY Zenon DEF Control, Checked, CheckedAt
<1>2. n \in Nat /\ b.expected \in Nat /\ b.events \in Seq(Envelope)
  BY Zenon DEF Control, TypeOK, TaskState
<1>3. task[t].w.next_seq = n /\ task[t].w.fence = writer.fence
  <2>1. task[t].w = [fence |-> writer.fence, next_seq |-> writer.next_seq]
    BY Zenon DEF Control, LockHeld, Fresh
  <2> QED
    BY <2>1
<1>4. validate_batch(b)
  BY <1>1, Zenon DEF Appendable
<1> HIDE DEF b
<1>5. /\ Len(b.events) \in Nat /\ Len(b.events) >= 1
      /\ DOMAIN b.events = 1 .. Len(b.events)
  BY <1>2, <1>4 DEF validate_batch
<1>6. \A i \in 1 .. Len(b.events) :
        b.events[i].aggregate = AggregateOf(b) /\ b.events[i].version = b.expected + i
  BY <1>4, <1>5, Zenon DEF validate_batch
<1> HIDE DEF n
<1>7. ASSUME NEW e \in task[t].staged
      PROVE  /\ e.seq \in n .. (n + Len(b.events) - 1)
             /\ e = [seq |-> e.seq, env |-> b.events[e.seq - n + 1],
                     epoch |-> writer.epoch, fence |-> task[t].fence]
             /\ e.env.aggregate = AggregateOf(b)
             /\ e.env.version = b.expected + (e.seq - n + 1)
  <2>1. PICK i \in 1 .. Len(b.events) :
            e = [seq |-> n + i - 1, env |-> b.events[i],
                 epoch |-> writer.epoch, fence |-> task[t].fence]
    BY <1>1, <1>3, <1>5, <1>7, Zenon DEF Inserted
  <2>2. e.seq = n + i - 1 /\ e.env = b.events[i]
    BY <2>1, Zenon
  <2>3. e.seq - n + 1 = i /\ e.seq \in n .. (n + Len(b.events) - 1)
    BY <2>2, <1>2, <1>5
  <2> QED
    BY <2>1, <2>2, <2>3, <1>6, Zenon
<1>8. ASSUME NEW i \in n .. (n + Len(b.events) - 1)
      PROVE  \E e \in task[t].staged : e.seq = i
  <2>1. i - n + 1 \in DOMAIN b.events /\ n + (i - n + 1) - 1 = i
    BY <1>2, <1>5
  <2>2. [seq |-> n + (i - n + 1) - 1, env |-> b.events[i - n + 1],
         epoch |-> writer.epoch, fence |-> task[t].fence] \in task[t].staged
    BY <1>1, <1>3, <2>1, Zenon DEF Inserted
  <2> QED
    BY <2>1, <2>2, Zenon
<1> QED
  BY <1>1, <1>2, <1>3, <1>5, <1>7, <1>8, Zenon DEF b, n

\* A landing transaction, as its effect on the log and next_seq.
LEMMA Landing ==
    ASSUME Control, NEW t \in Tasks, Land(t)
    PROVE  /\ event' = event \cup task[t].staged
           /\ writer'.epoch = writer.epoch /\ writer'.fence = writer.fence
           /\ task[t].staged = {} => writer'.next_seq = writer.next_seq
           /\ task[t].staged # {} =>
                writer'.next_seq = writer.next_seq + Len(task[t].batch.events)
<1>1. task[t].phase = "appended" /\ rowLock = t
  BY Zenon DEF Land, Control, LockHeld
<1>2. task[t].w.next_seq = writer.next_seq
  <2>1. task[t].w = [fence |-> writer.fence, next_seq |-> writer.next_seq]
    BY <1>1, Zenon DEF Control, Fresh
  <2> QED
    BY <2>1
<1> QED
  BY <1>2, Zenon DEF Land, Control, TypeOK

LEMMA LandSequence ==
    ASSUME Control, Log, NEW t \in Tasks, Land(t)
    PROVE  SequenceUnique' /\ LogShape'
<1>0. event \subseteq Row /\ writer.next_seq \in Nat
  BY Zenon DEF Control, TypeOK
<1>1. CASE task[t].staged = {}
  BY <1>1, Landing, Zenon DEF Log, SequenceUnique, LogShape, Land
<1>2. CASE task[t].staged # {}
  <2> DEFINE n == writer.next_seq
             m == Len(task[t].batch.events)
             S == task[t].staged
  <2>1. /\ m \in Nat /\ m >= 1 /\ n \in Nat
        /\ \A e \in S : e.seq \in n .. (n + m - 1)
        /\ \A e \in S : e = [seq |-> e.seq, env |-> task[t].batch.events[e.seq - n + 1],
                              epoch |-> writer.epoch, fence |-> task[t].fence]
        /\ \A e \in S : e.env.version = task[t].batch.expected + (e.seq - n + 1)
        /\ task[t].batch.expected \in Nat
    BY <1>2, StagedRows, Zenon DEF Land
  <2>2. event' = event \cup S /\ writer'.next_seq = n + m
    BY <1>2, Landing, Zenon
  <2>3. \A e, f \in S : e.seq = f.seq => e = f
    BY <2>1, Zenon
  <2>4. \A e \in event : e.seq \in Nat /\ e.seq < n
    BY <1>0, Zenon DEF Log, SequenceUnique, Row
  <2>5. IsFiniteSet(S)
    <3>1. S = Inserted(writer.epoch, task[t].w, task[t].batch, task[t].fence)
      BY <1>2, Zenon DEF Control, Checked, CheckedAt, Land
    <3>2. /\ writer.epoch \in Nat /\ task[t].w.next_seq \in Nat
          /\ task[t].batch.events \in Seq(Envelope) /\ task[t].fence \in Nat
      BY Zenon DEF Control, TypeOK, TaskState
    <3> QED
      BY <3>1, <3>2, InsertedRows, Zenon
  <2>6. IsFiniteSet(event')
    BY <2>2, <2>5, FS_Union, Zenon DEF Log, LogShape
  <2> HIDE DEF n, m, S
  <2>7. SequenceUnique'
    <3>1. \A e \in event' : e.seq < n + m
      BY <2>1, <2>2, <2>4
    <3>2. \A e, f \in event' : e.seq = f.seq => e = f
      BY <2>1, <2>2, <2>3, <2>4 DEF Log, SequenceUnique
    <3> QED
      BY <2>2, <3>1, <3>2, Zenon DEF SequenceUnique
  <2>8. \A e \in event' : e.env.version >= 1
    BY <2>1, <2>2 DEF Log, LogShape
  <2>9. \A r \in Readers : cursor'[r] < writer'.next_seq
    BY <2>1, <2>2 DEF Log, LogShape, Land, n, Control, TypeOK
  <2> QED
    BY <2>6, <2>7, <2>8, <2>9, Zenon DEF LogShape
<1> QED
  BY <1>1, <1>2, Zenon

LEMMA LandVersions ==
    ASSUME Control, Log, NEW t \in Tasks, Land(t)
    PROVE  VersionsContiguous'
<1>0. event \subseteq Row /\ writer.next_seq \in Nat
  BY Zenon DEF Control, TypeOK
<1>1. CASE task[t].staged = {}
  BY <1>1, Landing DEF Log, VersionsContiguous
<1>2. CASE task[t].staged # {}
  <2> DEFINE n == writer.next_seq
             b == task[t].batch
             m == Len(b.events)
             a == AggregateOf(b)
             S == task[t].staged
  <2>1. /\ m \in Nat /\ m >= 1 /\ n \in Nat /\ b.expected \in Nat
        /\ \A e \in S : /\ e.seq \in n .. (n + m - 1)
                        /\ e.env.aggregate = a
                        /\ e.env.version = b.expected + (e.seq - n + 1)
        /\ \A i \in n .. (n + m - 1) : \E e \in S : e.seq = i
    BY <1>2, StagedRows, Zenon DEF Land
  <2>2. event' = event \cup S
    BY <1>2, Landing, Zenon
  <2>3. \A e \in event : e.seq \in Nat /\ e.seq < n /\ e.env.version \in Nat
    BY <1>0, Zenon DEF Log, SequenceUnique, Row, Envelope
  <2>4. /\ \A e \in event : e.env.aggregate = a => e.env.version <= b.expected
        /\ b.expected = 0 \/ \E e \in event : e.env.aggregate = a /\ e.env.version = b.expected
    BY <1>2, StagedRows, Zenon DEF Land, Appendable, current_aggregate_version
  <2> HIDE DEF n, m, b, a, S
  <2> SUFFICES ASSUME NEW e \in event'
               PROVE  /\ \A f \in event' : f.env.aggregate = e.env.aggregate =>
                            (f.env.version < e.env.version <=> f.seq < e.seq)
                      /\ \A v \in 1 .. e.env.version :
                            \E f \in event' : f.env.aggregate = e.env.aggregate /\ f.env.version = v
    BY Zenon DEF VersionsContiguous
  <2>5. ASSUME NEW f \in event', f.env.aggregate = e.env.aggregate
        PROVE  f.env.version < e.env.version <=> f.seq < e.seq
    <3>1. CASE e \in event /\ f \in event
      BY <2>5, <3>1, Zenon DEF Log, VersionsContiguous
    <3>2. CASE e \in event /\ f \in S
      BY <2>5, <3>2, <2>1, <2>3, <2>4
    <3>3. CASE e \in S /\ f \in event
      BY <2>5, <3>3, <2>1, <2>3, <2>4
    <3>4. CASE e \in S /\ f \in S
      BY <2>5, <3>4, <2>1
    <3> QED
      BY <2>2, <3>1, <3>2, <3>3, <3>4, Zenon
  <2>6. ASSUME NEW v \in 1 .. e.env.version
        PROVE  \E f \in event' : f.env.aggregate = e.env.aggregate /\ f.env.version = v
    <3>1. CASE e \in event
      BY <3>1, <2>2 DEF Log, VersionsContiguous
    <3>2. CASE e \in S /\ v <= b.expected
      <4>1. PICK top \in event : top.env.aggregate = a /\ top.env.version = b.expected
        BY <3>2, <2>1, <2>4
      <4>2. v \in 1 .. top.env.version
        BY <3>2, <4>1, <2>1
      <4>3. \E f \in event : f.env.aggregate = top.env.aggregate /\ f.env.version = v
        BY <4>2, Zenon DEF Log, VersionsContiguous
      <4> QED
        BY <4>1, <4>3, <3>2, <2>1, <2>2, Zenon
    <3>3. CASE e \in S /\ ~(v <= b.expected)
      <4>1. n + (v - b.expected) - 1 \in n .. (n + m - 1)
        BY <3>3, <2>1
      <4>2. PICK f \in S : f.seq = n + (v - b.expected) - 1
        BY <4>1, <2>1, Zenon
      <4>3. f.env.aggregate = a /\ f.env.version = v
        BY <3>3, <4>2, <2>1
      <4> QED
        BY <4>3, <3>3, <2>1, <2>2, Zenon
    <3> QED
      BY <2>2, <3>1, <3>2, <3>3, Zenon
  <2> QED
    BY <2>5, <2>6, Zenon
<1> QED
  BY <1>1, <1>2, Zenon

LEMMA LandKeys ==
    ASSUME Control, Log, NEW t \in Tasks, Land(t)
    PROVE  KeysLandOnce'
<1>1. CASE task[t].staged = {}
  BY <1>1, Landing, Zenon DEF Log, KeysLandOnce
<1>2. CASE task[t].staged # {}
  <2> DEFINE n == writer.next_seq
             b == task[t].batch
             m == Len(b.events)
             S == task[t].staged
  <2>1. /\ m \in Nat /\ n \in Nat /\ b.events \in Seq(Envelope)
        /\ \A e \in S : /\ e.seq \in n .. (n + m - 1)
                        /\ e = [seq |-> e.seq, env |-> b.events[e.seq - n + 1],
                                epoch |-> writer.epoch, fence |-> task[t].fence]
                        /\ e.env.aggregate = AggregateOf(b)
    BY <1>2, StagedRows, Zenon DEF Land
  <2>2. event' = event \cup S
    BY <1>2, Landing, Zenon
  <2>3. validate_batch(b) /\ Landed(b) = {} /\ ProjectKeysFree(b)
    BY <1>2, StagedRows, Zenon DEF Land, Appendable
  <2> HIDE DEF n, b, m, S
  <2>4. DOMAIN b.events = 1 .. m
    BY <2>1 DEF m
  <2>5. \A e \in S : /\ e.seq - n + 1 \in DOMAIN b.events
                     /\ e.env = b.events[e.seq - n + 1]
                     /\ e.env \in EventsOf(b)
    <3> SUFFICES ASSUME NEW e \in S
                 PROVE  /\ e.seq - n + 1 \in DOMAIN b.events
                        /\ e.env = b.events[e.seq - n + 1]
                        /\ e.env \in EventsOf(b)
      BY Zenon
    <3>1. e.seq - n + 1 \in DOMAIN b.events
      BY <2>1, <2>4
    <3>2. e.env = b.events[e.seq - n + 1]
      BY <2>1
    <3> QED
      BY <3>1, <3>2, Zenon DEF EventsOf
  <2>6. \A i, j \in DOMAIN b.events :
          b.events[i].key # NoKey /\ b.events[i].key = b.events[j].key => i = j
    <3> SUFFICES ASSUME NEW i \in 1 .. m, NEW j \in 1 .. m, b.events[i].key # NoKey,
                        b.events[i].key = b.events[j].key
                 PROVE  i = j
      BY <2>4, Zenon
    <3>1. ~(j < i)
      <4> SUFFICES ASSUME j < i PROVE FALSE
        BY Zenon
      <4>1. j \in 1 .. (i - 1)
        BY <2>1
      <4> QED
        BY <4>1, <2>3, <2>4, Zenon DEF validate_batch
    <3>2. ~(i < j)
      <4> SUFFICES ASSUME i < j PROVE FALSE
        BY Zenon
      <4>1. i \in 1 .. (j - 1)
        BY <2>1
      <4> QED
        BY <4>1, <2>3, <2>4, Zenon DEF validate_batch
    <3> QED
      BY <3>1, <3>2, <2>1
  <2>7. \A e \in S, f \in event :
          e.env.key # NoKey /\ e.env.key = f.env.key =>
            f.env.aggregate # e.env.aggregate /\ f.env.project # e.env.project
    <3> SUFFICES ASSUME NEW e \in S, NEW f \in event, e.env.key # NoKey, e.env.key = f.env.key
                 PROVE  f.env.aggregate # e.env.aggregate /\ f.env.project # e.env.project
      BY Zenon
    <3>1. e.env.key \in KeysOf(b)
      BY <2>5, Zenon DEF KeysOf
    <3>2. f.env.aggregate # e.env.aggregate
      BY <3>1, <2>1, <2>3, Zenon DEF Landed
    <3>3. f.env.project # e.env.project
      BY <2>3, <2>5, Zenon DEF ProjectKeysFree
    <3> QED
      BY <3>2, <3>3, Zenon
  <2>8. \A e, f \in S : e.env.key # NoKey /\ e.env.key = f.env.key => e = f
    <3> SUFFICES ASSUME NEW e \in S, NEW f \in S, e.env.key # NoKey, e.env.key = f.env.key
                 PROVE  e = f
      BY Zenon
    <3>1. e.seq - n + 1 = f.seq - n + 1
      BY <2>5, <2>6
    <3>2. e.seq = f.seq
      BY <3>1, <2>1, SMTT(30)
    <3> QED
      BY <3>2, <2>1, Zenon
  <2> QED
    BY <2>2, <2>7, <2>8 DEF KeysLandOnce, Log
<1> QED
  BY <1>1, <1>2, Zenon

\* A reader's past pages stay complete: new rows are above every cursor.
LEMMA LandCursors ==
    ASSUME Control, Log, NEW t \in Tasks, Land(t)
    PROVE  CursorComplete'
<1>1. \A e \in task[t].staged : e.seq \in Nat /\ e.seq >= writer.next_seq
  BY StagedRows DEF Land
<1>2. \A r \in Readers : cursor[r] \in Nat /\ cursor[r] < writer.next_seq
  BY Zenon DEF Control, TypeOK, Log, LogShape
<1>3. writer.next_seq \in Nat
  BY Zenon DEF Control, TypeOK
<1>4. \A r \in Readers, e \in task[t].staged : ~(e.seq <= cursor[r])
  BY <1>1, <1>2, <1>3
<1>5. event' = event \cup task[t].staged /\ UNCHANGED <<cursor, seen>>
  BY Landing, Zenon DEF Land
<1> QED
  BY <1>4, <1>5, Zenon DEF Log, CursorComplete

\* The rows in an answer are committed with it or were committed before.
LEMMA LandAcked ==
    ASSUME Control, Log, NEW t \in Tasks, Commit(t) \/ CommitAnswerLost(t)
    PROVE  AckedRows'
<1>1. event' = event \cup task[t].staged /\ task[t].phase = "appended"
  BY Landing, Zenon DEF Commit, CommitAnswerLost, Land
<1>2. task[t].reply # {} /\ task[t].reply \subseteq event'
  <2>1. CASE task[t].staged # {}
    BY <1>1, <2>1, Zenon DEF Control, Checked, CheckedAt
  <2>2. CASE task[t].staged = {} /\ Replayable(t) /\ task[t].reply = Landed(task[t].batch)
    BY <1>1, <2>2, Zenon DEF Replayable, Landed
  <2>3. CASE task[t].staged = {} /\ Appendable(t)
             /\ task[t].staged = Inserted(writer.epoch, task[t].w, task[t].batch, task[t].fence)
    <3>1. task[t].batch.events \in Seq(Envelope)
      BY Zenon DEF Control, TypeOK, TaskState
    <3>2. task[t].batch.events # <<>>
      BY <2>3, Zenon DEF Appendable, validate_batch
    <3>3. 1 \in DOMAIN task[t].batch.events
      BY <3>1, <3>2
    <3> QED
      BY <2>3, <3>3, Zenon DEF Inserted
  <2> QED
    BY <1>1, <2>1, <2>2, <2>3, Zenon DEF Control, Checked, CheckedAt
<1> QED
  BY <1>1, <1>2 DEF Commit, CommitAnswerLost, Log, AckedRows

LEMMA LandLog ==
    ASSUME Control, Log, NEW t \in Tasks, Commit(t) \/ CommitAnswerLost(t)
    PROVE  Log'
<1>1. Land(t)
  BY Zenon DEF Commit, CommitAnswerLost
<1> QED
  BY <1>1, LandSequence, LandVersions, LandKeys, LandCursors, LandAcked, Zenon DEF Log

\* ORDER BY seq LIMIT n is closed downwards: a row of the page brings every
\* unread row before it, so the reader has the whole log up to its new cursor.
LEMMA PageComplete ==
    ASSUME Control, Log, NEW r \in Readers, read_page(r)
    PROVE  /\ CursorComplete'
           /\ \E e \in event : e.seq > cursor[r] /\ cursor' = [cursor EXCEPT ![r] = e.seq]
<1> DEFINE after == {e \in event : e.seq > cursor[r]}
<1>0. event \subseteq Row /\ cursor \in [Readers -> Nat] /\ seen \in [Readers -> SUBSET Row]
      /\ PageLimit \in Nat
  BY StoreAssumption, Zenon DEF Control, TypeOK
<1>1. \A e \in event : e.seq \in Nat
  BY <1>0, Zenon DEF Row
<1>2. PICK last \in Page(r) : /\ \A e \in Page(r) : e.seq <= last.seq
                              /\ cursor' = [cursor EXCEPT ![r] = last.seq]
  BY Zenon DEF read_page
<1>3. last \in event /\ last.seq > cursor[r]
  BY Zenon DEF Page
<1>4. ASSUME NEW e \in after, e.seq <= last.seq
      PROVE  e \in Page(r)
  <2> DEFINE B == {f \in after : f.seq < e.seq}
             T == {f \in after : f.seq < last.seq}
  <2>1. IsFiniteSet(T)
    BY FS_Subset, Zenon DEF Log, LogShape
  <2>2. B \in SUBSET T
    BY <1>1, <1>3, <1>4
  <2>3. IsFiniteSet(B) /\ Cardinality(B) <= Cardinality(T)
    BY <2>1, <2>2, FS_Subset, Zenon
  <2>4. Cardinality(B) \in Nat /\ Cardinality(T) \in Nat
    BY <2>1, <2>3, FS_CardinalityType, Zenon
  <2>5. Cardinality(T) < PageLimit
    BY <1>2, Zenon DEF Page
  <2>6. Cardinality(B) < PageLimit
    BY <1>0, <2>3, <2>4, <2>5
  <2> QED
    BY <2>6, Zenon DEF Page
<1>5. Page(r) \subseteq after
  BY Zenon DEF Page
<1>6. seen[r] = {e \in event : e.seq <= cursor[r]}
  BY Zenon DEF Log, CursorComplete
<1>7. seen[r] \cup Page(r) = {e \in event : e.seq <= last.seq}
  BY <1>0, <1>1, <1>2, <1>3, <1>4, <1>5, <1>6
<1>8. event' = event /\ seen' = [seen EXCEPT ![r] = seen[r] \cup Page(r)]
  BY Zenon DEF read_page
<1>9. CursorComplete'
  BY <1>0, <1>2, <1>7, <1>8, Zenon DEF Log, CursorComplete
<1> QED
  BY <1>2, <1>3, <1>9, Zenon

LEMMA ReadLog ==
    ASSUME Control, Log, NEW r \in Readers, read_page(r)
    PROVE  Log'
<1>1. UNCHANGED <<writer, event, acked>>
  BY Zenon DEF read_page
<1>2. PICK e \in event : cursor' = [cursor EXCEPT ![r] = e.seq]
  BY PageComplete, Zenon
<1>3. cursor \in [Readers -> Nat]
  BY Zenon DEF Control, TypeOK
<1>4. LogShape'
  BY <1>1, <1>2, <1>3, Zenon DEF Log, LogShape, SequenceUnique
<1>5. SequenceUnique' /\ VersionsContiguous' /\ KeysLandOnce' /\ AckedRows'
  BY <1>1, Zenon DEF Log, SequenceUnique, VersionsContiguous, KeysLandOnce, AckedRows
<1> QED
  BY <1>4, <1>5, PageComplete, Zenon DEF Log

\* Every other step leaves the log, the answers, the readers and next_seq alone.
LEMMA QuietLog ==
    ASSUME Log, UNCHANGED <<event, acked, cursor, seen>>, writer'.next_seq = writer.next_seq
    PROVE  Log'
BY Zenon DEF Log, LogShape, SequenceUnique, VersionsContiguous, KeysLandOnce, AckedRows, CursorComplete

LEMMA InitLog == Init => Log
<1> SUFFICES ASSUME Init PROVE Log
  BY Zenon
<1>1. LogShape
  <2>1. IsFiniteSet({})
    BY FS_EmptySet, Zenon
  <2>2. \A r \in Readers : cursor[r] = 0
    BY Zenon DEF Init
  <2>3. event = {} /\ writer.next_seq = 1
    BY Zenon DEF Init
  <2> QED
    BY <2>1, <2>2, <2>3 DEF LogShape
<1>2. SequenceUnique /\ VersionsContiguous /\ KeysLandOnce /\ AckedRows /\ CursorComplete
  BY Zenon DEF Init, SequenceUnique, VersionsContiguous, KeysLandOnce, AckedRows, CursorComplete
<1> QED
  BY <1>1, <1>2, Zenon DEF Log

LEMMA NextIInv == IInv /\ [Next]_vars => IInv'
<1> SUFFICES ASSUME Control, Log, [Next]_vars PROVE Log'
  BY NextControl, Zenon DEF IInv
<1>0. writer \in [epoch : Nat, fence : Nat, next_seq : Nat]
  BY Zenon DEF Control, TypeOK
<1>1. ASSUME NEW k \in Kernels, KernelStep(k) PROVE Log'
  BY <1>0, <1>1, QuietLog, Zenon DEF KernelStep, acquire, claim_epoch, open_reader, LoseSession,
     cancelled, Exit, Crash, GoDown
<1>2. ASSUME NEW t \in Tasks, TaskStep(t) PROVE Log'
  <2>1. CASE Commit(t) \/ CommitAnswerLost(t)
    BY <2>1, LandLog, Zenon
  <2>2. CASE lock_writer(t) \/ append_locked(t) \/ ReplayLocked(t)
    BY <2>2, QuietLog, Zenon DEF lock_writer, append_locked, ReplayLocked
  <2>3. CASE Rollback(t)
    BY <2>3, QuietLog, Zenon DEF Rollback
  <2> QED
    BY <1>2, <2>1, <2>2, <2>3, Zenon DEF TaskStep, Superseded, RefuseLocked, TxFails
<1>3. ASSUME NEW t \in Tasks, NEW k \in Kernels, NEW b \in Batches, NEW f \in 0 .. MaxFence,
             admit(t, k, b, f)
      PROVE  Log'
  BY <1>3, QuietLog, Zenon DEF admit
<1>4. CASE grant_fence
  BY <1>0, <1>4, QuietLog, Zenon DEF grant_fence
<1>5. ASSUME NEW r \in Readers, read_page(r) PROVE Log'
  BY <1>5, ReadLog, Zenon
<1>6. CASE UNCHANGED vars
  BY <1>6, QuietLog, Zenon DEF vars
<1> QED
  BY <1>1, <1>2, <1>3, <1>4, <1>5, <1>6, Zenon DEF Next

LEMMA InductiveInvariant == Spec => []IInv
<1>1. Init => IInv
  BY InitControl, InitLog, Zenon DEF IInv
<1> QED
  BY <1>1, NextIInv, PTL DEF Spec

-----------------------------------------------------------------------------
(***************************************************************************)
(* The theorems.                                                           *)
(***************************************************************************)

\* append_locked assigns sequences in commit order: no two committed rows share
\* one, and none reaches next_seq.
THEOREM SequenceIsCommitOrder == Spec => []SequenceUnique
<1>1. IInv => SequenceUnique
  BY Zenon DEF IInv, Log
<1> QED
  BY <1>1, InductiveInvariant, PTL

\* The CAS under the row lock keeps every aggregate's history free of holes and
\* forks, whatever batches race for it.
THEOREM HistoriesContiguous == Spec => []VersionsContiguous
<1>1. IInv => VersionsContiguous
  BY Zenon DEF IInv, Log
<1> QED
  BY <1>1, InductiveInvariant, PTL

\* An idempotency key names one committed event per aggregate and per project,
\* through any number of retries, crashes and takeovers.
THEOREM ExactlyOnce == Spec => []KeysLandOnce
<1>1. IInv => KeysLandOnce
  BY Zenon DEF IInv, Log
<1> QED
  BY <1>1, InductiveInvariant, PTL

\* A consumer that pages by cursor (read_from) has been handed exactly the
\* committed rows up to its cursor: nothing lands behind it later.
THEOREM CursorNeverSkips == Spec => []CursorComplete
<1>1. IInv => CursorComplete
  BY Zenon DEF IInv, Log
<1> QED
  BY <1>1, InductiveInvariant, PTL

\* An event is committed once: two rows with one envelope are one row.
LEMMA OneRowPerEnvelope ==
    ASSUME IInv, NEW e \in event, NEW f \in event, e.env = f.env
    PROVE  e = f
<1>1. e.seq \in Nat /\ f.seq \in Nat /\ e.env.version \in Nat
  BY Zenon DEF IInv, Control, TypeOK, Row, Envelope
<1>2. ~(e.seq < f.seq) /\ ~(f.seq < e.seq)
  BY <1>1 DEF IInv, Log, VersionsContiguous
<1>3. e.seq = f.seq
  BY <1>1, <1>2
<1> QED
  BY <1>3, Zenon DEF IInv, Log, SequenceUnique

\* Rows an append answered with stay in the log, and a retry that presents the
\* same events is answered with the same rows.
THEOREM AnswersAreDurable == Spec => []AckedDurable
<1>1. IInv => AckedDurable
  <2> SUFFICES ASSUME IInv, NEW rows \in acked
               PROVE  /\ rows # {} /\ rows \subseteq event
                      /\ \A other \in acked :
                            {e.env : e \in other} = {e.env : e \in rows} => other = rows
    BY Zenon DEF AckedDurable
  <2>1. \A other \in acked : other # {} /\ other \subseteq event
    BY Zenon DEF IInv, Log, AckedRows
  <2>2. ASSUME NEW other \in acked, {e.env : e \in other} = {e.env : e \in rows}
        PROVE  other = rows
    <3>1. ASSUME NEW e \in other PROVE e \in rows
      <4>1. PICK f \in rows : f.env = e.env
        BY <2>2
      <4> QED
        BY <4>1, <2>1, OneRowPerEnvelope, Zenon
    <3>2. ASSUME NEW e \in rows PROVE e \in other
      <4>1. PICK f \in other : f.env = e.env
        BY <2>2
      <4> QED
        BY <4>1, <2>1, OneRowPerEnvelope, Zenon
    <3> QED
      BY <3>1, <3>2, Zenon
  <2> QED
    BY <2>1, <2>2, Zenon
<1> QED
  BY <1>1, InductiveInvariant, PTL

\* Every step but a landing transaction leaves the log alone.
LEMMA LogChanges ==
    ASSUME Control, [Next]_vars, event' # event
    PROVE  \E t \in Tasks : Land(t)
<1>1. ASSUME NEW k \in Kernels, KernelStep(k) PROVE FALSE
  BY <1>1, Zenon DEF KernelStep, acquire, claim_epoch, open_reader, LoseSession, cancelled, Exit,
     Crash, GoDown
<1>2. ASSUME NEW t \in Tasks, TaskStep(t) PROVE Land(t)
  BY <1>2, Zenon DEF TaskStep, lock_writer, Superseded, append_locked, ReplayLocked, RefuseLocked,
     TxFails, Commit, CommitAnswerLost, Rollback
<1> QED
  BY <1>1, <1>2, Zenon DEF Next, admit, grant_fence, read_page, vars

\* Rows are only added, and only under the durable epoch and the current fence
\* token of that instant: a deposed process never commits behind its successor.
THEOREM SingleWriter == Spec => OnlyCurrentWriterLands
<1> DEFINE Rule == /\ event \subseteq event'
                   /\ \A e \in event' \ event :
                        /\ e.epoch = writer.epoch
                        /\ writer.fence # 0 => e.fence = writer.fence
<1>1. IInv /\ [Next]_vars => Rule
  <2> SUFFICES ASSUME IInv, [Next]_vars, event' # event PROVE Rule
    BY Zenon
  <2>1. PICK t \in Tasks : Land(t)
    BY LogChanges, Zenon DEF IInv
  <2>2. event' = event \cup task[t].staged
    BY <2>1, Landing, Zenon DEF IInv
  <2>3. task[t].phase = "appended" /\ task[t].staged # {}
    BY <2>1, <2>2, Zenon DEF Land
  <2>4. /\ \A e \in task[t].staged : e.epoch = writer.epoch /\ e.fence = task[t].fence
        /\ task[t].w.fence = writer.fence /\ Appendable(t)
    <3>1. \A e \in task[t].staged :
            e = [seq |-> e.seq, env |-> task[t].batch.events[e.seq - writer.next_seq + 1],
                 epoch |-> writer.epoch, fence |-> task[t].fence]
      BY <2>3, StagedRows, Zenon DEF IInv
    <3> QED
      BY <2>3, <3>1, StagedRows DEF IInv
  <2> QED
    BY <2>2, <2>4, Zenon DEF Appendable, FenceAccepts
<1>2. IInv /\ [Next]_vars => [Rule]_vars
  BY <1>1, Zenon
<1> QED
  BY <1>2, InductiveInvariant, PTL DEF Spec, OnlyCurrentWriterLands

\* A landing transaction is one append of the port.
LEMMA LandIsAppend ==
    ASSUME IInv, NEW t \in Tasks, Land(t), event' # event
    PROVE  Port!Append
<1> DEFINE n == writer.next_seq
           b == task[t].batch
           m == Len(b.events)
           S == task[t].staged
<1>1. event' = event \cup S /\ writer'.fence = writer.fence /\ UNCHANGED <<cursor, seen>>
  BY Landing, Zenon DEF IInv, Land
<1>2. task[t].phase = "appended" /\ S # {}
  BY <1>1, Zenon DEF Land
<1>3. /\ m \in Nat /\ m >= 1 /\ n \in Nat /\ b.expected \in Nat
      /\ Appendable(t) /\ task[t].w.fence = writer.fence
      /\ \A e \in S : /\ e.seq \in n .. (n + m - 1)
                      /\ e = [seq |-> e.seq, env |-> b.events[e.seq - n + 1],
                              epoch |-> writer.epoch, fence |-> task[t].fence]
                      /\ e.env.aggregate = AggregateOf(b)
                      /\ e.env.version = b.expected + (e.seq - n + 1)
      /\ \A i \in n .. (n + m - 1) : \E e \in S : e.seq = i
  BY <1>2, StagedRows, Zenon DEF IInv
<1>4. \A f \in event : f.seq \in Nat /\ f.seq < n
  BY Zenon DEF IInv, Control, TypeOK, Row, Log, SequenceUnique
<1>5. writer.fence # 0 => task[t].fence = writer.fence
  BY <1>3, Zenon DEF Appendable, FenceAccepts
<1>6. current_aggregate_version(AggregateOf(b), b.expected)
  BY <1>3, Zenon DEF Appendable
<1> HIDE DEF n, b, m, S
<1>7. event' \ event = S
  BY <1>1, <1>3, <1>4
<1>8. \A e \in S : /\ \A f \in event : f.seq < e.seq
                   /\ writer.fence # 0 => e.fence = writer.fence
  <2>1. \A e \in S : e.fence = task[t].fence
    BY <1>3
  <2> QED
    BY <2>1, <1>3, <1>4, <1>5
<1>9. \A e, f \in S : /\ f.env.aggregate = e.env.aggregate
                      /\ f.seq - e.seq = f.env.version - e.env.version
                      /\ f.seq = e.seq => f = e
  BY <1>3
<1>10. \E e \in S : Port!Top(e.env.aggregate, e.env.version - 1)
  <2>1. n \in n .. (n + m - 1)
    BY <1>3
  <2>2. PICK e \in S : e.seq = n
    BY <1>3, <2>1, Zenon
  <2>3. e.env.aggregate = AggregateOf(b) /\ e.env.version - 1 = b.expected
    BY <1>3, <2>2
  <2>4. Port!Top(AggregateOf(b), b.expected)
    BY <1>6, Zenon DEF Port!Top, current_aggregate_version
  <2> QED
    BY <2>3, <2>4, Zenon
<1> QED
  BY <1>1, <1>7, <1>8, <1>9, <1>10, Zenon DEF Port!Append

LEMMA ReadIsRead ==
    ASSUME IInv, NEW r \in Readers, read_page(r)
    PROVE  Port!Read(r)
<1>1. PICK e \in event : e.seq > cursor[r] /\ cursor' = [cursor EXCEPT ![r] = e.seq]
  BY PageComplete, Zenon DEF IInv
<1>2. CursorComplete'
  BY PageComplete, Zenon DEF IInv
<1>3. /\ event' = event /\ writer' = writer
      /\ seen' = [seen EXCEPT ![r] = seen[r] \cup Page(r)]
  BY Zenon DEF read_page
<1>4. seen \in [Readers -> SUBSET Row]
  BY Zenon DEF IInv, Control, TypeOK
<1>5. seen'[r] = {f \in event : f.seq <= cursor'[r]}
  BY <1>2, <1>3, Zenon DEF CursorComplete
<1>6. seen' = [seen EXCEPT ![r] = {f \in event : f.seq <= cursor'[r]}]
  BY <1>3, <1>4, <1>5, Zenon
<1> QED
  BY <1>1, <1>3, <1>6, Zenon DEF Port!Read

\* Whatever the processes, retries, crashes and takeovers do, what callers and
\* readers of PgEventStore can observe is a behaviour of the EventStore port.
THEOREM StoreImplementsPort == Spec => ImplementsPort
<1>1. Init => Port!LogInit
  BY DEF Init, Port!LogInit
<1>2. IInv /\ [Next]_vars => [Port!LogNext]_(Port!logVars)
  <2> SUFFICES ASSUME IInv, [Next]_vars PROVE [Port!LogNext]_(Port!logVars)
    BY Zenon
  <2>0. writer \in [epoch : Nat, fence : Nat, next_seq : Nat]
    BY Zenon DEF IInv, Control, TypeOK
  <2>1. ASSUME NEW k \in Kernels, KernelStep(k) PROVE UNCHANGED Port!logVars
    BY <2>0, <2>1, Zenon DEF KernelStep, acquire, claim_epoch, open_reader, LoseSession, cancelled,
       Exit, Crash, GoDown, Port!logVars
  <2>2. ASSUME NEW t \in Tasks, TaskStep(t) PROVE [Port!LogNext]_(Port!logVars)
    <3>1. CASE Land(t) /\ event' # event
      BY <3>1, LandIsAppend, Zenon DEF Port!LogNext
    <3>2. CASE Land(t) /\ event' = event
      BY <3>2, Landing, Zenon DEF Land, Port!logVars, IInv
    <3>3. CASE lock_writer(t) \/ append_locked(t) \/ ReplayLocked(t) \/ Rollback(t)
      BY <3>3, Zenon DEF lock_writer, append_locked, ReplayLocked, Rollback, Port!logVars
    <3> QED
      BY <2>2, <3>1, <3>2, <3>3, Zenon DEF TaskStep, Superseded, RefuseLocked, TxFails, Commit,
         CommitAnswerLost
  <2>3. ASSUME NEW t \in Tasks, NEW k \in Kernels, NEW b \in Batches, NEW f \in 0 .. MaxFence,
               admit(t, k, b, f)
        PROVE  UNCHANGED Port!logVars
    BY <2>3, Zenon DEF admit, Port!logVars
  <2>4. CASE grant_fence
    BY <2>0, <2>4 DEF grant_fence, Port!LogNext, Port!GrantFence
  <2>5. ASSUME NEW r \in Readers, read_page(r) PROVE Port!LogNext
    BY <2>5, ReadIsRead, Zenon DEF Port!LogNext
  <2>6. CASE UNCHANGED vars
    BY <2>6, Zenon DEF vars, Port!logVars
  <2> QED
    BY <2>1, <2>2, <2>3, <2>4, <2>5, <2>6, Zenon DEF Next
<1> QED
  BY <1>1, <1>2, InductiveInvariant, PTL DEF Spec, ImplementsPort, Port!LogSpec
=============================================================================
