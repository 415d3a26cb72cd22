--------------------------- MODULE TtlSweepProofs ---------------------------
(***************************************************************************)
(* Proofs about TtlSweep, for any leases, attempts, times and environment. *)
(*                                                                         *)
(* The argument: what the pass read about a row still holds as long as the *)
(* row has the version it read (LeasesAsRead, AttemptsAsRead), because     *)
(* every write raises the version and time alone takes nothing back.  The  *)
(* pass writes at the version it read, so it writes on that evidence.      *)
(***************************************************************************)
EXTENDS TtlSweep, TLAPS

AttemptStates == {"absent", "queued", "unknown"} \cup {e[2] : e \in AttemptEdges}
LeaseRow == [state : {"absent", "held", "released", "expired"}, version : Nat, ttl : Int]
AttemptRow == [state : AttemptStates, version : Nat, age : Nat, lease : Leases \cup {NoLease}]
Pass == [pc : {"idle", "leases", "fetch", "dead", "stale"}, leases : SUBSET (Leases \X Nat),
         of : Leases \cup {NoLease}, attempts : SUBSET (Attempts \X Nat)]

TypeOK ==
    /\ lease \in [Leases -> LeaseRow]
    /\ attempt \in [Attempts -> AttemptRow]
    /\ sweep \in Pass

\* A row is absent only before its first version: it is made once.
AcquiredOnce == \A l \in Leases : lease[l].state = "absent" => lease[l].version = 0
CreatedOnce == \A a \in Attempts : attempt[a].state = "absent" => attempt[a].version = 0

LeasesAsRead ==
    \A r \in sweep.leases :
        /\ r[2] <= lease[r[1]].version
        /\ r[2] = lease[r[1]].version => lease[r[1]].state = "held" /\ lease[r[1]].ttl = 0

\* The lease whose attempts the pass goes through is not held, and never will be again.
LeaseIsOver ==
    sweep.pc \in {"fetch", "dead"} =>
        sweep.of \in Leases /\ lease[sweep.of].state \in {"released", "expired"}

\* What makes the row one to bury, in the arm the pass is in.
Evidence(a) ==
    IF sweep.pc = "dead"
      THEN attempt[a].lease = sweep.of
      ELSE attempt[a].state \in stale_state_names /\ attempt[a].age = STALE_AFTER

AttemptsAsRead ==
    \A r \in sweep.attempts :
        /\ sweep.pc \in {"dead", "stale"}
        /\ r[2] <= attempt[r[1]].version
        /\ r[2] = attempt[r[1]].version => Evidence(r[1])

IInv == TypeOK /\ AcquiredOnce /\ CreatedOnce /\ LeasesAsRead /\ LeaseIsOver /\ AttemptsAsRead

LEMMA StatesThere ==
    /\ "absent" \notin uncertain_states /\ "absent" \notin stale_state_names
    /\ "blocked" \notin stale_state_names
BY Zenon DEF uncertain_states, stale_state_names, can_transition, EDGES, AttemptEdges

LEMMA InitIInv == Init => IInv
<1> SUFFICES ASSUME Init PROVE IInv
  BY Zenon
<1>1. Idle \in Pass /\ Idle.leases = {} /\ Idle.attempts = {} /\ Idle.pc = "idle"
  BY Zenon DEF Idle, Pass
<1>2. [state |-> "absent", version |-> 0, ttl |-> NoTtl] \in LeaseRow
  BY DEF LeaseRow, NoTtl
<1>3. [state |-> "absent", version |-> 0, age |-> 0, lease |-> NoLease] \in AttemptRow
  BY Zenon DEF AttemptRow, AttemptStates
<1>4. TypeOK
  BY <1>1, <1>2, <1>3, Zenon DEF Init, TypeOK
<1>5. AcquiredOnce /\ CreatedOnce
  BY Zenon DEF Init, AcquiredOnce, CreatedOnce
<1>6. LeasesAsRead /\ LeaseIsOver /\ AttemptsAsRead
  BY <1>1, Zenon DEF Init, LeasesAsRead, LeaseIsOver, AttemptsAsRead
<1> QED
  BY <1>4, <1>5, <1>6, Zenon DEF IInv

-----------------------------------------------------------------------------
(***************************************************************************)
(* A write of a row raises its version, while the pass keeps at most what  *)
(* it has read.                                                            *)
(***************************************************************************)
Trimmed ==
    /\ sweep' \in Pass /\ sweep'.leases \subseteq sweep.leases
    /\ sweep'.attempts \subseteq sweep.attempts
    /\ sweep'.attempts # {} => sweep'.pc = sweep.pc /\ sweep'.of = sweep.of

LEMMA PassKept == ASSUME IInv, UNCHANGED sweep PROVE Trimmed
BY Zenon DEF IInv, TypeOK, Trimmed

LEMMA LeaseWritten ==
    ASSUME IInv, NEW l \in Leases, NEW row \in LeaseRow, lease' = [lease EXCEPT ![l] = row],
           row.version > lease[l].version, row.state # "absent",
           lease[l].state \in {"released", "expired"} => row.state \in {"released", "expired"},
           UNCHANGED attempt, Trimmed, UNCHANGED sweep \/ LeaseIsOver'
    PROVE  IInv'
<1>1. TypeOK'
  BY Zenon DEF IInv, TypeOK, Trimmed
<1>2. AcquiredOnce'
  BY Zenon DEF IInv, TypeOK, AcquiredOnce
<1>3. LeasesAsRead'
  <2> SUFFICES ASSUME NEW r \in sweep'.leases
               PROVE  /\ r[2] <= lease'[r[1]].version
                      /\ r[2] = lease'[r[1]].version => lease'[r[1]].state = "held" /\ lease'[r[1]].ttl = 0
    BY Zenon DEF LeasesAsRead
  <2>1. r \in sweep.leases /\ r[1] \in Leases /\ r[2] \in Nat
    BY Zenon DEF IInv, TypeOK, Pass, Trimmed
  <2>2. CASE r[1] = l
    <3>1. r[2] <= lease[l].version /\ lease'[l] = row /\ row.version \in Nat /\ lease[l].version \in Nat
      BY <2>1, <2>2, Zenon DEF IInv, TypeOK, LeasesAsRead, LeaseRow
    <3> QED
      BY <2>1, <2>2, <3>1
  <2>3. CASE r[1] # l
    BY <2>1, <2>3, Zenon DEF IInv, TypeOK, LeasesAsRead
  <2> QED
    BY <2>2, <2>3, Zenon
<1>4. LeaseIsOver'
  BY Zenon DEF IInv, TypeOK, LeaseIsOver
<1>5. CreatedOnce' /\ AttemptsAsRead'
  BY Zenon DEF IInv, CreatedOnce, AttemptsAsRead, Evidence, Trimmed
<1> QED
  BY <1>1, <1>2, <1>3, <1>4, <1>5, Zenon DEF IInv

LEMMA AttemptWritten ==
    ASSUME IInv, NEW a \in Attempts, NEW row \in AttemptRow, attempt' = [attempt EXCEPT ![a] = row],
           row.version > attempt[a].version, row.state # "absent",
           UNCHANGED lease, Trimmed, UNCHANGED sweep \/ LeaseIsOver'
    PROVE  IInv'
<1>1. TypeOK'
  BY Zenon DEF IInv, TypeOK, Trimmed
<1>2. AcquiredOnce' /\ LeasesAsRead' /\ LeaseIsOver'
  BY Zenon DEF IInv, AcquiredOnce, LeasesAsRead, LeaseIsOver, Trimmed
<1>4. CreatedOnce'
  BY Zenon DEF IInv, TypeOK, CreatedOnce
<1>3. AttemptsAsRead'
  <2> SUFFICES ASSUME NEW r \in sweep'.attempts
               PROVE  /\ sweep'.pc \in {"dead", "stale"}
                      /\ r[2] <= attempt'[r[1]].version
                      /\ r[2] = attempt'[r[1]].version => Evidence(r[1])'
    BY Zenon DEF AttemptsAsRead
  <2>1. /\ r \in sweep.attempts /\ r[1] \in Attempts /\ r[2] \in Nat
        /\ sweep'.pc = sweep.pc /\ sweep'.of = sweep.of
    BY Zenon DEF IInv, TypeOK, Pass, Trimmed
  <2>2. CASE r[1] = a
    <3>1. /\ r[2] <= attempt[a].version /\ attempt'[a] = row /\ row.version \in Nat
          /\ attempt[a].version \in Nat /\ sweep.pc \in {"dead", "stale"}
      BY <2>1, <2>2, Zenon DEF IInv, TypeOK, AttemptsAsRead, AttemptRow
    <3> QED
      BY <2>1, <2>2, <3>1
  <2>3. CASE r[1] # a
    BY <2>1, <2>3, Zenon DEF IInv, TypeOK, AttemptsAsRead, Evidence
  <2> QED
    BY <2>2, <2>3, Zenon
<1> QED
  BY <1>1, <1>2, <1>3, <1>4, Zenon DEF IInv

LEMMA NothingWritten ==
    ASSUME IInv, UNCHANGED <<lease, attempt>>, Trimmed, LeaseIsOver'
    PROVE  IInv'
BY Zenon DEF IInv, TypeOK, AcquiredOnce, CreatedOnce, LeasesAsRead, AttemptsAsRead, Evidence, Trimmed

LEMMA HoldersStep ==
    ASSUME SweepAssumption, IInv, Holders
    PROVE  IInv'
<1>1. ASSUME NEW l \in Leases, AcquireLease(l) PROVE IInv'
  <2>1. PICK ttl \in {NoTtl, TTL} : lease' = [lease EXCEPT ![l] = [state |-> "held", version |-> 1, ttl |-> ttl]]
    BY <1>1, Zenon DEF AcquireLease
  <2> DEFINE row == [state |-> "held", version |-> 1, ttl |-> ttl]
  <2>2. row \in LeaseRow /\ row.version = 1 /\ row.state = "held"
    BY DEF LeaseRow, NoTtl, SweepAssumption
  <2>3. lease' = [lease EXCEPT ![l] = row]
    BY <2>1, Zenon
  <2> HIDE DEF row
  <2>4. lease[l].state = "absent" /\ lease[l].version = 0 /\ UNCHANGED <<attempt, sweep>>
    BY <1>1, Zenon DEF AcquireLease, IInv, AcquiredOnce
  <2>9. row.version > lease[l].version
    BY <2>2, <2>3, <2>4
  <2> QED
    BY <2>2, <2>3, <2>4, <2>9, LeaseWritten, PassKept, Zenon
<1>2. ASSUME NEW l \in Leases, RenewLease(l) PROVE IInv'
  <2>1. PICK ttl \in {lease[l].ttl, TTL} : lease' = [lease EXCEPT ![l].version = @ + 1, ![l].ttl = ttl]
    BY <1>2, Zenon DEF RenewLease
  <2> DEFINE row == [lease[l] EXCEPT !.version = @ + 1, !.ttl = ttl]
  <2>2. lease[l] \in LeaseRow /\ ttl \in Int /\ lease[l].version \in Nat /\ lease[l].version + 1 \in Nat
    BY DEF IInv, TypeOK, LeaseRow, SweepAssumption
  <2>3. row \in LeaseRow /\ row.version = lease[l].version + 1 /\ row.state = lease[l].state
    BY <2>2, Zenon DEF LeaseRow
  <2>4. lease' = [lease EXCEPT ![l] = row]
    BY <2>1, Zenon
  <2> HIDE DEF row
  <2>5. lease[l].version # 0 /\ UNCHANGED <<attempt, sweep>>
    BY <1>2 DEF RenewLease
  <2>6. row.state # "absent"
    BY <2>3, <2>5, Zenon DEF IInv, AcquiredOnce
  <2>9. row.version > lease[l].version
    BY <2>2, <2>3, <2>4, <2>5, <2>6
  <2> QED
    BY <2>2, <2>3, <2>4, <2>5, <2>6, <2>9, LeaseWritten, PassKept, Zenon
<1>3. ASSUME NEW l \in Leases, ReleaseLease(l) PROVE IInv'
  <2> DEFINE row == [lease[l] EXCEPT !.version = @ + 1, !.state = "released"]
  <2>1. lease[l] \in LeaseRow /\ lease[l].version \in Nat /\ lease[l].version + 1 \in Nat
    BY DEF IInv, TypeOK, LeaseRow
  <2>2. row \in LeaseRow /\ row.version = lease[l].version + 1 /\ row.state = "released"
    BY <2>1, Zenon DEF LeaseRow
  <2>3. lease' = [lease EXCEPT ![l] = row] /\ UNCHANGED <<attempt, sweep>>
    BY <1>3, Zenon DEF ReleaseLease
  <2> HIDE DEF row
  <2>9. row.version > lease[l].version
    BY <2>1, <2>2, <2>3
  <2> QED
    BY <2>1, <2>2, <2>3, <2>9, LeaseWritten, PassKept, Zenon
<1>4. ASSUME NEW a \in Attempts, CreateAttempt(a) PROVE IInv'
  <2>1. PICK l \in Leases \cup {NoLease} :
           attempt' = [attempt EXCEPT ![a] = [state |-> "queued", version |-> 1, age |-> 0, lease |-> l]]
    BY <1>4, Zenon DEF CreateAttempt
  <2> DEFINE row == [state |-> "queued", version |-> 1, age |-> 0, lease |-> l]
  <2>2. row \in AttemptRow /\ row.version = 1 /\ row.state = "queued"
    BY Zenon DEF AttemptRow, AttemptStates
  <2>3. attempt' = [attempt EXCEPT ![a] = row] /\ UNCHANGED <<lease, sweep>> /\ attempt[a].state = "absent"
    BY <1>4, <2>1, Zenon DEF CreateAttempt
  <2> HIDE DEF row
  <2>4. attempt[a].version = 0
    BY <2>3, Zenon DEF IInv, CreatedOnce
  <2>9. row.version > attempt[a].version
    BY <2>2, <2>3, <2>4
  <2> QED
    BY <2>2, <2>3, <2>4, <2>9, AttemptWritten, PassKept, Zenon
<1>5. ASSUME NEW a \in Attempts, TransitionAttempt(a) PROVE IInv'
  <2>1. PICK to \in {e[2] : e \in AttemptEdges} :
           attempt' = [attempt EXCEPT ![a].state = to, ![a].version = @ + 1, ![a].age = 0]
    BY <1>5, Zenon DEF TransitionAttempt
  <2> DEFINE row == [attempt[a] EXCEPT !.state = to, !.version = @ + 1, !.age = 0]
  <2>2. /\ attempt[a] \in AttemptRow /\ to \in AttemptStates
        /\ attempt[a].version \in Nat /\ attempt[a].version + 1 \in Nat
    BY DEF IInv, TypeOK, AttemptRow, AttemptStates
  <2>3. row \in AttemptRow /\ row.version = attempt[a].version + 1 /\ row.state = to
    BY <2>2, Zenon DEF AttemptRow
  <2>4. attempt' = [attempt EXCEPT ![a] = row] /\ UNCHANGED <<lease, sweep>>
    BY <1>5, <2>1, ZenonT(30) DEF TransitionAttempt
  <2>5. to # "absent"
    BY DEF AttemptEdges
  <2> HIDE DEF row
  <2>9. row.version > attempt[a].version
    BY <2>2, <2>3, <2>4, <2>5
  <2> QED
    BY <2>2, <2>3, <2>4, <2>5, <2>9, AttemptWritten, PassKept, Zenon
<1>6. ASSUME NEW a \in Attempts, RecordRound(a) PROVE IInv'
  <2> DEFINE row == [attempt[a] EXCEPT !.version = @ + 1, !.age = 0]
  <2>1. attempt[a] \in AttemptRow /\ attempt[a].version \in Nat /\ attempt[a].version + 1 \in Nat
    BY DEF IInv, TypeOK, AttemptRow
  <2>2. row \in AttemptRow /\ row.version = attempt[a].version + 1 /\ row.state = attempt[a].state
    BY <2>1, Zenon DEF AttemptRow
  <2>3. attempt' = [attempt EXCEPT ![a] = row] /\ UNCHANGED <<lease, sweep>>
    BY <1>6, Zenon DEF RecordRound
  <2>5. attempt[a].version # 0
    BY <1>6 DEF RecordRound
  <2> HIDE DEF row
  <2>4. row.state # "absent"
    BY <2>2, <2>5, Zenon DEF IInv, CreatedOnce
  <2>9. row.version > attempt[a].version
    BY <2>1, <2>2, <2>3, <2>4
  <2> QED
    BY <2>1, <2>2, <2>3, <2>4, <2>9, AttemptWritten, PassKept, Zenon
<1> QED
  BY <1>1, <1>2, <1>3, <1>4, <1>5, <1>6, Zenon DEF Holders

\* Time takes no evidence back: a lease that is over stays over, silence only grows.
LEMMA TickStep ==
    ASSUME SweepAssumption, IInv, Tick
    PROVE  IInv'
<1>1. /\ sweep' = sweep
      /\ \A l \in Leases : /\ lease'[l] \in LeaseRow /\ lease'[l].version = lease[l].version
                           /\ lease'[l].state = lease[l].state /\ (lease[l].ttl = 0 => lease'[l].ttl = 0)
  <2>1. \A l \in Leases : lease[l] \in LeaseRow /\ lease'[l] = [lease[l] EXCEPT !.ttl = IF @ > 0 THEN @ - 1 ELSE @]
    BY Zenon DEF Tick, IInv, TypeOK
  <2> QED
    BY <2>1 DEF Tick, LeaseRow
<1>2. \A a \in Attempts : /\ attempt'[a] \in AttemptRow /\ attempt'[a].version = attempt[a].version
                          /\ attempt'[a].state = attempt[a].state /\ attempt'[a].lease = attempt[a].lease
                          /\ attempt[a].age = STALE_AFTER => attempt'[a].age = STALE_AFTER
  <2>1. \A a \in Attempts : /\ attempt[a] \in AttemptRow
                            /\ attempt'[a] = [attempt[a] EXCEPT !.age = IF @ < STALE_AFTER THEN @ + 1 ELSE @]
    BY Zenon DEF Tick, IInv, TypeOK
  <2> SUFFICES ASSUME NEW a \in Attempts
               PROVE  /\ attempt'[a] \in AttemptRow /\ attempt'[a].version = attempt[a].version
                      /\ attempt'[a].state = attempt[a].state /\ attempt'[a].lease = attempt[a].lease
                      /\ attempt[a].age = STALE_AFTER => attempt'[a].age = STALE_AFTER
    BY Zenon
  <2> DEFINE n == IF attempt[a].age < STALE_AFTER THEN attempt[a].age + 1 ELSE attempt[a].age
  <2>4. attempt[a].age \in Nat /\ STALE_AFTER \in Nat
    BY <2>1, Zenon DEF AttemptRow, SweepAssumption
  <2>2. n \in Nat /\ (attempt[a].age = STALE_AFTER => n = STALE_AFTER)
    BY <2>4
  <2>3. attempt'[a] = [attempt[a] EXCEPT !.age = n]
    BY <2>1, Zenon
  <2> HIDE DEF n
  <2> QED
    BY <2>1, <2>2, <2>3, Zenon DEF AttemptRow
<1>3. TypeOK'
  BY <1>1, <1>2, Zenon DEF Tick, IInv, TypeOK
<1>4. \A r \in sweep.leases : r[1] \in Leases
  BY Zenon DEF IInv, TypeOK, Pass
<1>5. \A r \in sweep.attempts : r[1] \in Attempts
  BY Zenon DEF IInv, TypeOK, Pass
<1>6. AcquiredOnce' /\ CreatedOnce' /\ LeaseIsOver'
  BY <1>1, <1>2 DEF IInv, AcquiredOnce, CreatedOnce, LeaseIsOver
<1>7. LeasesAsRead'
  BY <1>1, <1>4, Zenon DEF IInv, LeasesAsRead
<1>8. AttemptsAsRead'
  BY <1>1, <1>2, <1>5, Zenon DEF IInv, AttemptsAsRead, Evidence
<1> QED
  BY <1>3, <1>6, <1>7, <1>8, Zenon DEF IInv

-----------------------------------------------------------------------------
(***************************************************************************)
(* The pass.                                                               *)
(***************************************************************************)
LEMMA ReadExpiredStep ==
    ASSUME IInv, ReadExpired
    PROVE  IInv'
<1> DEFINE read == {<<l, lease[l].version>> : l \in {k \in Leases : lease[k].state = "held" /\ lease[k].ttl = 0}}
<1>1. read \in SUBSET (Leases \X Nat)
  BY DEF IInv, TypeOK, LeaseRow
<1>2. \A r \in read : /\ r[2] = lease[r[1]].version /\ lease[r[1]].state = "held" /\ lease[r[1]].ttl = 0
                      /\ lease[r[1]].version \in Nat
  BY DEF IInv, TypeOK, LeaseRow
<1>3. sweep' = [Idle EXCEPT !.pc = "leases", !.leases = read] /\ UNCHANGED <<lease, attempt>>
  BY Zenon DEF ReadExpired
<1> HIDE DEF read
<1>4. sweep' \in Pass /\ sweep'.pc = "leases" /\ sweep'.leases = read /\ sweep'.attempts = {}
  BY <1>1, <1>3, Zenon DEF Idle, Pass
<1>5. LeasesAsRead'
  BY <1>2, <1>3, <1>4 DEF LeasesAsRead
<1>6. TypeOK' /\ AcquiredOnce' /\ CreatedOnce' /\ LeaseIsOver' /\ AttemptsAsRead'
  BY <1>3, <1>4, Zenon DEF IInv, TypeOK, AcquiredOnce, CreatedOnce, LeaseIsOver, AttemptsAsRead
<1> QED
  BY <1>5, <1>6, Zenon DEF IInv

LEMMA ExpireLeaseStep ==
    ASSUME IInv, NEW r \in sweep.leases, ExpireLease(r)
    PROVE  IInv'
<1>1. r[1] \in Leases /\ r[2] \in Nat
  BY Zenon DEF IInv, TypeOK, Pass
<1>2. sweep \in Pass /\ sweep.attempts = {} /\ sweep.pc = "leases" /\ UNCHANGED attempt
  BY Zenon DEF ExpireLease, IInv, TypeOK, AttemptsAsRead
<1>3. CASE lease[r[1]].version = r[2]
  <2> DEFINE row == [lease[r[1]] EXCEPT !.version = @ + 1, !.state = "expired"]
  <2>1. lease[r[1]] \in LeaseRow /\ lease[r[1]].version \in Nat /\ lease[r[1]].version + 1 \in Nat
    BY <1>1 DEF IInv, TypeOK, LeaseRow
  <2>2. row \in LeaseRow /\ row.version = lease[r[1]].version + 1 /\ row.state = "expired"
    BY <2>1, Zenon DEF LeaseRow
  <2>3. /\ lease' = [lease EXCEPT ![r[1]] = row]
        /\ sweep' = [sweep EXCEPT !.pc = "fetch", !.leases = @ \ {r}, !.of = r[1]]
    BY <1>3, Zenon DEF ExpireLease
  <2> HIDE DEF row
  <2>4. /\ sweep' \in Pass /\ sweep'.pc = "fetch" /\ sweep'.of = r[1]
        /\ sweep'.leases = sweep.leases \ {r} /\ sweep'.attempts = {}
    BY <1>1, <1>2, <2>3, Zenon DEF Pass
  <2>5. Trimmed
    BY <2>4, Zenon DEF Trimmed
  <2>6. LeaseIsOver'
    BY <1>1, <2>2, <2>3, <2>4, Zenon DEF IInv, TypeOK, LeaseIsOver
  <2>7. row.version > lease[r[1]].version
    BY <2>1, <2>2
  <2> QED
    BY <1>1, <1>2, <2>2, <2>3, <2>5, <2>6, <2>7, LeaseWritten, Zenon
<1>4. CASE lease[r[1]].version # r[2]
  <2>1. UNCHANGED lease /\ sweep' = [sweep EXCEPT !.leases = @ \ {r}]
    BY <1>4, Zenon DEF ExpireLease
  <2>2. /\ sweep' \in Pass /\ sweep'.pc = "leases" /\ sweep'.of = sweep.of
        /\ sweep'.leases = sweep.leases \ {r} /\ sweep'.attempts = {}
    BY <1>2, <2>1, Zenon DEF Pass
  <2>3. Trimmed /\ LeaseIsOver'
    BY <2>2, Zenon DEF Trimmed, LeaseIsOver
  <2> QED
    BY <1>2, <2>1, <2>3, NothingWritten, Zenon
<1> QED
  BY <1>3, <1>4, Zenon

\* A reading of attempts is evidence at the versions read.
LEMMA AttemptsRead ==
    ASSUME IInv, UNCHANGED <<lease, attempt>>, sweep' \in Pass, sweep'.pc \in {"dead", "stale"},
           sweep'.leases \subseteq sweep.leases, LeaseIsOver',
           \A r \in sweep'.attempts : r[2] = attempt[r[1]].version /\ Evidence(r[1])'
    PROVE  IInv'
<1>1. \A r \in sweep'.attempts : r[1] \in Attempts /\ r[2] \in Nat
  BY Zenon DEF Pass
<1>2. AttemptsAsRead'
  BY <1>1 DEF AttemptsAsRead
<1>3. TypeOK' /\ AcquiredOnce' /\ CreatedOnce' /\ LeasesAsRead'
  BY Zenon DEF IInv, TypeOK, AcquiredOnce, CreatedOnce, LeasesAsRead
<1> QED
  BY <1>2, <1>3, Zenon DEF IInv

LEMMA DeadStep ==
    ASSUME IInv, sweep_dead_attempts
    PROVE  IInv'
<1> DEFINE read == {<<a, attempt[a].version>> :
                      a \in {b \in Attempts : attempt[b].lease = sweep.of /\ attempt[b].state \in uncertain_states}}
<1>1. read \in SUBSET (Attempts \X Nat)
  BY DEF IInv, TypeOK, AttemptRow
<1>2. \A r \in read : r[2] = attempt[r[1]].version /\ attempt[r[1]].lease = sweep.of
  OBVIOUS
<1>3. sweep' = [sweep EXCEPT !.pc = "dead", !.attempts = read] /\ UNCHANGED <<lease, attempt>> /\ sweep.pc = "fetch"
  BY Zenon DEF sweep_dead_attempts
<1> HIDE DEF read
<1>4. /\ sweep' \in Pass /\ sweep'.pc = "dead" /\ sweep'.attempts = read
      /\ sweep'.leases = sweep.leases /\ sweep'.of = sweep.of
  BY <1>1, <1>3, Zenon DEF IInv, TypeOK, Pass
<1>5. LeaseIsOver'
  BY <1>3, <1>4, Zenon DEF IInv, LeaseIsOver
<1>6. \A r \in sweep'.attempts : r[2] = attempt[r[1]].version /\ Evidence(r[1])'
  BY <1>2, <1>3, <1>4, Zenon DEF Evidence
<1> QED
  BY <1>3, <1>4, <1>5, <1>6, AttemptsRead, Zenon

LEMMA StaleStep ==
    ASSUME IInv, sweep_stale_attempts
    PROVE  IInv'
<1>1. PICK batch \in SUBSET StaleAttempts :
         sweep' = [sweep EXCEPT !.pc = "stale", !.of = NoLease,
                     !.attempts = {<<a, attempt[a].version>> : a \in batch}]
  BY Zenon DEF sweep_stale_attempts
<1> DEFINE read == {<<a, attempt[a].version>> : a \in batch}
<1>2. \A a \in batch : a \in Attempts /\ attempt[a].state \in stale_state_names /\ attempt[a].age = STALE_AFTER
  BY Zenon DEF StaleAttempts
<1>3. read \in SUBSET (Attempts \X Nat)
  BY <1>2 DEF IInv, TypeOK, AttemptRow
<1>4. \A r \in read : /\ r[2] = attempt[r[1]].version /\ attempt[r[1]].state \in stale_state_names
                      /\ attempt[r[1]].age = STALE_AFTER
  BY <1>2
<1>5. sweep' = [sweep EXCEPT !.pc = "stale", !.of = NoLease, !.attempts = read] /\ UNCHANGED <<lease, attempt>>
  BY <1>1, Zenon DEF sweep_stale_attempts
<1> HIDE DEF read
<1>6. /\ sweep' \in Pass /\ sweep'.pc = "stale" /\ sweep'.attempts = read /\ sweep'.leases = sweep.leases
  BY <1>3, <1>5, Zenon DEF IInv, TypeOK, Pass
<1>7. LeaseIsOver'
  BY <1>6, Zenon DEF LeaseIsOver
<1>8. \A r \in sweep'.attempts : r[2] = attempt[r[1]].version /\ Evidence(r[1])'
  BY <1>4, <1>5, <1>6, Zenon DEF Evidence
<1> QED
  BY <1>5, <1>6, <1>7, <1>8, AttemptsRead, Zenon

LEMMA BuryStep ==
    ASSUME IInv, NEW r \in sweep.attempts, Bury(r)
    PROVE  IInv'
<1>1. r[1] \in Attempts /\ sweep \in Pass
  BY Zenon DEF IInv, TypeOK, Pass
<1>2. sweep' = [sweep EXCEPT !.attempts = @ \ {r}] /\ UNCHANGED lease
  BY Zenon DEF Bury
<1>3. /\ sweep' \in Pass /\ sweep'.pc = sweep.pc /\ sweep'.of = sweep.of
      /\ sweep'.leases = sweep.leases /\ sweep'.attempts = sweep.attempts \ {r}
  BY <1>1, <1>2, Zenon DEF Pass
<1>4. Trimmed /\ LeaseIsOver'
  BY <1>2, <1>3, Zenon DEF IInv, Trimmed, LeaseIsOver
<1>5. CASE attempt' = attempt
  BY <1>2, <1>4, <1>5, NothingWritten, Zenon
<1>6. CASE attempt' = [attempt EXCEPT ![r[1]].state = "unknown", ![r[1]].version = @ + 1, ![r[1]].age = 0]
  <2> DEFINE row == [attempt[r[1]] EXCEPT !.state = "unknown", !.version = @ + 1, !.age = 0]
  <2>1. attempt[r[1]] \in AttemptRow /\ attempt[r[1]].version \in Nat /\ attempt[r[1]].version + 1 \in Nat
    BY <1>1 DEF IInv, TypeOK, AttemptRow
  <2>2. "unknown" \in AttemptStates
    BY Zenon DEF AttemptStates
  <2>3. row \in AttemptRow /\ row.version = attempt[r[1]].version + 1 /\ row.state = "unknown"
    BY <2>1, <2>2, Zenon DEF AttemptRow
  <2>4. attempt' = [attempt EXCEPT ![r[1]] = row]
    BY <1>6, Zenon
  <2> HIDE DEF row
  <2>5. row.version > attempt[r[1]].version
    BY <2>1, <2>3
  <2> QED
    BY <1>1, <1>2, <1>4, <2>3, <2>4, <2>5, AttemptWritten, Zenon
<1> QED
  BY <1>5, <1>6, Zenon DEF Bury

\* The steps that only let go of what was read.
LEMMA LetGoStep ==
    ASSUME IInv, ArmDone \/ SubmitRefused \/ PassLost
    PROVE  IInv'
<1>1. sweep \in Pass /\ UNCHANGED <<lease, attempt>>
  BY Zenon DEF IInv, TypeOK, ArmDone, SubmitRefused, PassLost
<1>2. Idle \in Pass /\ Idle.leases = {} /\ Idle.attempts = {} /\ Idle.pc = "idle"
  BY Zenon DEF Idle, Pass
<1>3. CASE sweep' = Idle
  <2>1. Trimmed /\ LeaseIsOver'
    BY <1>2, <1>3, Zenon DEF Trimmed, LeaseIsOver
  <2> QED
    BY <1>1, <2>1, NothingWritten, Zenon
<1>4. CASE sweep.attempts = {} /\ sweep' = [sweep EXCEPT !.pc = "leases", !.of = NoLease]
  <2>1. sweep' \in Pass /\ sweep'.leases = sweep.leases /\ sweep'.attempts = {} /\ sweep'.pc = "leases"
    BY <1>1, <1>4, Zenon DEF Pass
  <2>2. Trimmed /\ LeaseIsOver'
    BY <2>1, Zenon DEF Trimmed, LeaseIsOver
  <2> QED
    BY <1>1, <2>2, NothingWritten, Zenon
<1>5. ASSUME NEW r, sweep' = [sweep EXCEPT !.leases = @ \ {r}] \/ sweep' = [sweep EXCEPT !.attempts = @ \ {r}]
      PROVE  IInv'
  <2>1. /\ sweep' \in Pass /\ sweep'.leases \subseteq sweep.leases /\ sweep'.attempts \subseteq sweep.attempts
        /\ sweep'.pc = sweep.pc /\ sweep'.of = sweep.of
    BY <1>1, <1>5 DEF Pass
  <2>2. Trimmed /\ LeaseIsOver'
    BY <1>1, <2>1, Zenon DEF IInv, Trimmed, LeaseIsOver
  <2> QED
    BY <1>1, <2>2, NothingWritten, Zenon
<1> QED
  BY <1>3, <1>4, <1>5, Zenon DEF ArmDone, SubmitRefused, PassLost

-----------------------------------------------------------------------------
LEMMA StepIInv ==
    ASSUME SweepAssumption, IInv, [Next /\ UNCHANGED env]_<<vars, env>>
    PROVE  IInv'
<1>1. CASE UNCHANGED vars
  BY <1>1, Zenon DEF vars, IInv, TypeOK, AcquiredOnce, CreatedOnce, LeasesAsRead, LeaseIsOver, AttemptsAsRead, Evidence
<1>2. CASE Next
  BY <1>2, HoldersStep, TickStep, ReadExpiredStep, ExpireLeaseStep, DeadStep, StaleStep, BuryStep, LetGoStep, Zenon
     DEF Next, run
<1> QED
  BY <1>1, <1>2, Zenon DEF vars

\* What the pass writes it writes on the evidence it has.
LEMMA PassActs ==
    ASSUME IInv, Next, sweep' # sweep
    PROVE  /\ \A l \in Leases : lease[l].state # "expired" /\ lease'[l].state = "expired"
                => lease[l].state = "held" /\ lease[l].ttl = 0
           /\ \A a \in Attempts : attempt[a].state # "unknown" /\ attempt'[a].state = "unknown"
                => \/ sweep.pc = "dead" /\ lease[attempt[a].lease].state # "held"
                   \/ sweep.pc = "stale" /\ attempt[a].state # "blocked" /\ attempt[a].age = STALE_AFTER
<1>1. CASE UNCHANGED <<lease, attempt>>
  BY <1>1, Zenon
<1>2. ASSUME NEW r \in sweep.leases, ExpireLease(r), lease' # lease
      PROVE  /\ attempt' = attempt
             /\ \A l \in Leases : lease[l].state # "expired" /\ lease'[l].state = "expired"
                  => lease[l].state = "held" /\ lease[l].ttl = 0
  <2>1. r[1] \in Leases /\ lease[r[1]].version = r[2]
    BY <1>2, Zenon DEF ExpireLease, IInv, TypeOK, Pass
  <2>2. lease[r[1]].state = "held" /\ lease[r[1]].ttl = 0
    BY <2>1, Zenon DEF IInv, LeasesAsRead
  <2>3. \A l \in Leases : l # r[1] => lease'[l] = lease[l]
    BY <1>2, Zenon DEF ExpireLease, IInv, TypeOK
  <2> QED
    BY <1>2, <2>2, <2>3, Zenon DEF ExpireLease
<1>3. ASSUME NEW r \in sweep.attempts, Bury(r), attempt' # attempt
      PROVE  /\ lease' = lease
             /\ \A a \in Attempts : attempt[a].state # "unknown" /\ attempt'[a].state = "unknown"
                => \/ sweep.pc = "dead" /\ lease[attempt[a].lease].state # "held"
                   \/ sweep.pc = "stale" /\ attempt[a].state # "blocked" /\ attempt[a].age = STALE_AFTER
  <2>1. r[1] \in Attempts /\ attempt[r[1]].version = r[2] /\ sweep.pc \in {"dead", "stale"} /\ lease' = lease
    BY <1>3, Zenon DEF Bury, apply, IInv, TypeOK, Pass
  <2>2. Evidence(r[1])
    BY <2>1, Zenon DEF IInv, AttemptsAsRead
  <2>3. \A a \in Attempts : a # r[1] => attempt'[a] = attempt[a]
    BY <1>3, Zenon DEF Bury, IInv, TypeOK
  <2>4. CASE sweep.pc = "dead"
    BY <2>1, <2>2, <2>3, <2>4, Zenon DEF Evidence, IInv, LeaseIsOver
  <2>5. CASE sweep.pc = "stale"
    BY <2>1, <2>2, <2>3, <2>5, StatesThere, Zenon DEF Evidence
  <2> QED
    BY <2>1, <2>4, <2>5, Zenon
<1>4. \/ UNCHANGED <<lease, attempt>>
      \/ \E r \in sweep.leases : ExpireLease(r)
      \/ \E r \in sweep.attempts : Bury(r)
  BY Zenon DEF Next, Holders, AcquireLease, RenewLease, ReleaseLease, CreateAttempt, TransitionAttempt, RecordRound,
         Tick, run, ReadExpired, sweep_dead_attempts, sweep_stale_attempts, ArmDone, SubmitRefused, PassLost
<1>5. \A r \in sweep.leases : ExpireLease(r) => attempt' = attempt
  BY Zenon DEF ExpireLease
<1>6. \A r \in sweep.attempts : Bury(r) => lease' = lease
  BY Zenon DEF Bury
<1> QED
  BY <1>1, <1>2, <1>3, <1>4, <1>5, <1>6, Zenon

(***************************************************************************)
(* However holders, time and the pass interleave, the sweep expires a      *)
(* lease only while it is held and over, and buries an attempt only when   *)
(* its lease is over or it has been silent long enough at that moment.     *)
(***************************************************************************)
THEOREM SweepActsOnEvidence ==
    ASSUME SweepAssumption
    PROVE  Spec => ActsOnEvidence
<1> DEFINE A == sweep' # sweep =>
        /\ \A l \in Leases : lease[l].state # "expired" /\ lease'[l].state = "expired"
            => lease[l].state = "held" /\ lease[l].ttl = 0
        /\ \A a \in Attempts : attempt[a].state # "unknown" /\ attempt'[a].state = "unknown"
            => \/ sweep.pc = "dead" /\ lease[attempt[a].lease].state # "held"
               \/ /\ sweep.pc = "stale" /\ attempt[a].state # "blocked"
                  /\ attempt[a].age = STALE_AFTER
<1>1. Init => IInv
  BY InitIInv, Zenon
<1>2. IInv /\ [Next /\ UNCHANGED env]_<<vars, env>> => IInv'
  BY StepIInv, Zenon
<1>3. IInv /\ [Next /\ UNCHANGED env]_<<vars, env>> => [A]_vars
  BY PassActs, Zenon DEF vars
<1> QED
  BY <1>1, <1>2, <1>3, PTL DEF Spec, ActsOnEvidence
=============================================================================
