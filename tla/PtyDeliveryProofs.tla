-------------------------- MODULE PtyDeliveryProofs --------------------------
(***************************************************************************)
(* Proofs about PtyDelivery, for any rows, requests, connections and       *)
(* environment: claims that expire under their attempt, statements that    *)
(* fail, clients that leave, any number of restarts.                       *)
(*                                                                         *)
(* The argument: a claim is let go only when nothing was dispatched under  *)
(* it, and only its holder lets it go (ReqOK, Sole), so a command is       *)
(* dispatched at most once.  Its one frame is therefore not among what the *)
(* session has or will take (DownOK), and an acknowledgement, wherever it  *)
(* is, stays true: what the host denied it can never apply (Denied).       *)
(***************************************************************************)
EXTENDS PtyDelivery, TLAPS

States == {"absent", "pending", "delivered", "failed", "indeterminate"}
Held == {"route", "dispatch", "wait", "applied", "refused", "release", "abandon"}
Owners == Connections \cup {None}

RowState == [state : States, claim : Nat, live : BOOLEAN, fresh : BOOLEAN, gen : Owners]
ReqState == [pc : {"idle", "check", "claim"} \cup Held, d : Deliveries \cup {None}, token : Nat,
             owner : Owners]
PendState == [d : Deliveries, owner : Connections, token : Nat, req : Requests]
ReaderState == [pc : {"read", "reconcile", "settle", "take"}, d : Deliveries \cup {None},
                token : Nat, result : {"none", "applied", "refused"}]
Acks == [d : Deliveries, result : {"applied", "refused"}]
HostState == [conn : Owners, pc : {"offline", "reconciling", "live", "silent", "over"},
              delivered : SUBSET Deliveries, queue : Seq(Deliveries), effects : Seq(Deliveries),
              confirmed : SUBSET Deliveries]
Seen == [dispatched : SUBSET Deliveries, passed : SUBSET Deliveries, told : SUBSET Deliveries]

TypeOK ==
    /\ row \in [Deliveries -> RowState] /\ req \in [Requests -> ReqState]
    /\ pending \in SUBSET PendState /\ session \in Owners
    /\ kconn \in [Connections -> {"closed", "open", "forced", "closing", "unrouted", "sweeping"}]
    /\ reader \in [Connections -> ReaderState]
    /\ abandoned \in [Connections -> SUBSET (Deliveries \X Nat)]
    /\ down \in [Connections -> Seq(Deliveries)] /\ up \in [Connections -> Seq(Acks)]
    /\ settled \in [Connections -> SUBSET Deliveries]
    /\ host \in HostState /\ minted \in Nat /\ faults \in Nat /\ seen \in Seen

\* What the session took, and what its thread will take.
Taken == host.effects \o host.queue

InDown(d) == \E c \in Connections : \E i \in DOMAIN down[c] : down[c][i] = d

\* The host said no to its one frame: the command is not and will not be
\* confirmed, and input will not reach the session.
Denied(d) ==
    /\ d \in seen.dispatched /\ ~InDown(d) /\ d \notin host.confirmed
    /\ d \in Input => d \notin Range(Taken)

ReqOK(r) ==
    /\ req[r].pc # "idle" => req[r].d \in Deliveries /\ row[req[r].d].state # "absent"
    /\ req[r].pc \notin Held => req[r].token = Free
    /\ req[r].pc \in Held =>
        /\ req[r].token # Free /\ req[r].token <= minted
        /\ Pending(req[r].d) => row[req[r].d].claim = req[r].token
    /\ req[r].pc \in {"route", "dispatch"} => req[r].d \notin seen.dispatched
    /\ req[r].pc = "release" /\ req[r].d \in seen.dispatched => ~Pending(req[r].d)
    /\ req[r].pc = "refused" => ~Pending(req[r].d)
    /\ req[r].pc = "applied" => row[req[r].d].state = "delivered"

\* One attempt per command, and a claim token of its own for each.
Sole ==
    \A r, q \in Requests :
        r # q /\ req[r].pc \in Held /\ req[q].pc \in Held =>
            req[r].d # req[q].d /\ req[r].token # req[q].token

PendOK ==
    \A e \in pending :
        /\ e.token # Free /\ e.token <= minted
        /\ \A r \in Requests : req[r].token = e.token => req[r].d = e.d

RowOK(d) ==
    /\ row[d].state = "absent" => d \notin seen.dispatched
    /\ Pending(d) /\ row[d].claim = Free => d \notin seen.dispatched
    /\ row[d].state = "absent" => row[d].claim = Free
    /\ row[d].state = "delivered" => d \in Range(host.effects)
    /\ row[d].state = "failed" => Denied(d)

Truth(d, result) ==
    /\ result = "applied" => d \in Range(host.effects)
    /\ result = "refused" => Denied(d)

UpOK(c) == \A i \in DOMAIN up[c] : Truth(up[c][i].d, up[c][i].result)

ReaderOK(c) ==
    reader[c].pc # "read" =>
        /\ reader[c].d \in Deliveries /\ reader[c].result # "none"
        /\ Truth(reader[c].d, reader[c].result)
        /\ reader[c].pc = "take" =>
            row[reader[c].d].state = IF reader[c].result = "applied" THEN "delivered" ELSE "failed"

SettledOK(d) == row[d].state = "delivered" \/ Denied(d)

HostOK ==
    /\ host.pc \in {"reconciling", "live"} <=> host.conn # None
    /\ host.delivered \subseteq Range(host.effects)
    /\ host.confirmed \subseteq Range(host.effects)
    /\ Range(Taken) \subseteq seen.dispatched
    /\ \A i, j \in DOMAIN Taken : i # j => Taken[i] # Taken[j]

DownOK ==
    \A c \in Connections : \A i \in DOMAIN down[c] :
        /\ down[c][i] \in seen.dispatched /\ down[c][i] \notin Range(Taken)
        /\ \A k \in Connections : \A j \in DOMAIN down[k] :
              down[c][i] = down[k][j] => c = k /\ i = j

IInv ==
    /\ TypeOK
    /\ \A r \in Requests : ReqOK(r)
    /\ Sole /\ PendOK
    /\ \A d \in Deliveries : RowOK(d)
    /\ \A c \in Connections : UpOK(c) /\ ReaderOK(c) /\ \A d \in settled[c] : SettledOK(d)
    /\ \A d \in seen.told : row[d].state = "delivered"
    /\ HostOK /\ DownOK /\ EvidenceKept

-----------------------------------------------------------------------------
LEMMA NoneApart == None \notin Deliveries /\ None \notin Connections /\ None = 0 /\ Free = 0
BY DeliveryAssumption, Zenon DEF None, Free

\* The fields of the records, from their types.
LEMMA Fields ==
    ASSUME TypeOK
    PROVE  /\ \A d \in Deliveries : /\ row[d] \in RowState /\ row[d].state \in States
                                    /\ row[d].claim \in Nat /\ row[d].gen \in Owners
           /\ \A r \in Requests : /\ req[r] \in ReqState /\ req[r].token \in Nat
                                  /\ req[r].pc \in {"idle", "check", "claim"} \cup Held
                                  /\ req[r].d \in Deliveries \cup {None} /\ req[r].owner \in Owners
           /\ \A e \in pending : e.d \in Deliveries /\ e.owner \in Connections /\ e.token \in Nat
           /\ \A c \in Connections : /\ reader[c] \in ReaderState /\ reader[c].token \in Nat
                                     /\ reader[c].d \in Deliveries \cup {None}
           /\ \A c \in Connections : /\ up[c] \in Seq(Acks) /\ down[c] \in Seq(Deliveries)
           /\ \A c \in Connections : \A i \in DOMAIN up[c] : up[c][i] \in Acks
           /\ \A c \in Connections : \A i \in DOMAIN down[c] : down[c][i] \in Deliveries
           /\ host.delivered \subseteq Deliveries /\ host.confirmed \subseteq Deliveries
           /\ host.conn \in Owners /\ host.queue \in Seq(Deliveries) /\ host.effects \in Seq(Deliveries)
           /\ seen.dispatched \subseteq Deliveries /\ seen.told \subseteq Deliveries
<1>1. \A d \in Deliveries : row[d] \in RowState
  BY Zenon DEF TypeOK
<1>2. \A x \in RowState : x.state \in States /\ x.claim \in Nat /\ x.gen \in Owners
  BY Zenon DEF RowState
<1>3. \A r \in Requests : req[r] \in ReqState
  BY Zenon DEF TypeOK
<1>4. \A x \in ReqState : /\ x.token \in Nat /\ x.pc \in {"idle", "check", "claim"} \cup Held
                          /\ x.d \in Deliveries \cup {None} /\ x.owner \in Owners
  BY Zenon DEF ReqState
<1>5. \A e \in pending : e.d \in Deliveries /\ e.owner \in Connections /\ e.token \in Nat
  BY Zenon DEF TypeOK, PendState
<1>6. \A c \in Connections : /\ reader[c] \in ReaderState /\ reader[c].token \in Nat
                             /\ reader[c].d \in Deliveries \cup {None}
  BY Zenon DEF TypeOK, ReaderState
<1>7. \A c \in Connections : up[c] \in Seq(Acks) /\ down[c] \in Seq(Deliveries)
  BY Zenon DEF TypeOK
<1>8. /\ \A c \in Connections : \A i \in DOMAIN up[c] : up[c][i] \in Acks
      /\ \A c \in Connections : \A i \in DOMAIN down[c] : down[c][i] \in Deliveries
  BY <1>7
<1>9. /\ host.delivered \subseteq Deliveries /\ host.confirmed \subseteq Deliveries
      /\ host.conn \in Owners /\ host.queue \in Seq(Deliveries) /\ host.effects \in Seq(Deliveries)
  BY Zenon DEF TypeOK, HostState
<1>10. seen.dispatched \subseteq Deliveries /\ seen.told \subseteq Deliveries
  BY Zenon DEF TypeOK, Seen
<1> QED
  BY <1>1, <1>2, <1>3, <1>4, <1>5, <1>6, <1>7, <1>8, <1>9, <1>10, Zenon

LEMMA InitIInv == Init => IInv
<1> SUFFICES ASSUME Init PROVE IInv
  BY Zenon
<1>1. Idle \in ReqState /\ Idle.pc = "idle" /\ Idle.token = Free
  BY NoneApart, Zenon DEF Idle, ReqState, Owners
<1>2. Reading \in ReaderState /\ Reading.pc = "read"
  BY NoneApart, Zenon DEF Reading, ReaderState
<1> DEFINE R == [state |-> "absent", claim |-> Free, live |-> FALSE, fresh |-> FALSE, gen |-> None]
<1>3. R \in RowState /\ R.state = "absent" /\ R.claim = Free
  BY NoneApart, Zenon DEF RowState, States, Owners
<1>4. \A d \in Deliveries : row[d] = R
  BY Zenon DEF Init
<1>5. row = [d \in Deliveries |-> R]
  BY Zenon DEF Init
<1> HIDE DEF R
<1>6. /\ host.pc = "offline" /\ host.delivered = {} /\ host.queue = <<>> /\ host.effects = <<>>
      /\ host.confirmed = {} /\ host \in HostState
  BY DEF Init, HostState, Owners
<1>7. seen \in Seen /\ seen.dispatched = {} /\ seen.told = {}
  BY Zenon DEF Init, Seen
<1>8. TypeOK
  <2>1. row \in [Deliveries -> RowState]
    BY <1>3, <1>5, Zenon
  <2>2. req \in [Requests -> ReqState] /\ reader \in [Connections -> ReaderState]
    BY <1>1, <1>2, Zenon DEF Init
  <2>3. /\ pending \in SUBSET PendState /\ session \in Owners /\ minted \in Nat /\ faults \in Nat
        /\ kconn \in [Connections -> {"closed", "open", "forced", "closing", "unrouted", "sweeping"}]
        /\ abandoned \in [Connections -> SUBSET (Deliveries \X Nat)]
    BY Zenon DEF Init, Owners
  <2>4. /\ down \in [Connections -> Seq(Deliveries)] /\ up \in [Connections -> Seq(Acks)]
        /\ settled \in [Connections -> SUBSET Deliveries]
    BY DEF Init
  <2> QED
    BY <1>6, <1>7, <2>1, <2>2, <2>3, <2>4, Zenon DEF TypeOK
<1>9. \A r \in Requests : req[r] = Idle /\ ReqOK(r)
  BY <1>1, Zenon DEF Init, ReqOK, Held
<1>10. Sole /\ PendOK
  BY <1>1, <1>9, Zenon DEF Init, Sole, PendOK, Held
<1>11. \A d \in Deliveries : RowOK(d)
  BY <1>3, <1>4, <1>7, Zenon DEF RowOK, Pending
<1>12. \A c \in Connections : UpOK(c) /\ ReaderOK(c) /\ \A d \in settled[c] : SettledOK(d)
  BY <1>2 DEF Init, UpOK, ReaderOK
<1>13. HostOK
  <2>1. Taken = <<>>
    BY <1>6 DEF Taken
  <2>2. DOMAIN Taken = {} /\ Range(Taken) = {}
    BY <2>1 DEF Range
  <2>3. host.pc = "offline" /\ host.conn = None
    BY Zenon DEF Init
  <2> QED
    BY <1>6, <2>2, <2>3, Zenon DEF HostOK
<1>14. DownOK /\ EvidenceKept
  BY <1>6 DEF Init, DownOK, EvidenceKept
<1> QED
  BY <1>7, <1>8, <1>9, <1>10, <1>11, <1>12, <1>13, <1>14, Zenon DEF IInv

-----------------------------------------------------------------------------
(***************************************************************************)
(* Steps of the kernel that dispatch nothing and grant no claim.           *)
(***************************************************************************)
\* A pending row keeps its claim while it is pending; delivered and failed
\* rows stay what they are.
RowsMove ==
    \A d \in Deliveries :
        /\ row'[d].state = "pending" => row[d].state = "pending" /\ row'[d].claim = row[d].claim
        /\ row[d].state \in {"delivered", "failed"} => row'[d].state = row[d].state
        /\ row'[d].state = "absent" => row[d].state = "absent"

HostSame == UNCHANGED <<host, down, env>> /\ seen'.dispatched = seen.dispatched

LEMMA HostFrame ==
    ASSUME HostSame
    PROVE  /\ \A d : Denied(d)' <=> Denied(d)
           /\ \A d, result : Truth(d, result)' <=> Truth(d, result)
           /\ HostOK => HostOK'
           /\ DownOK => DownOK'
<1>1. Taken' = Taken
  BY Zenon DEF HostSame, Taken
<1>2. \A d : Denied(d)' <=> Denied(d)
  BY <1>1, Zenon DEF HostSame, Denied, InDown, Input
<1>3. \A d, result : Truth(d, result)' <=> Truth(d, result)
  BY <1>2, Zenon DEF HostSame, Truth
<1>4. HostOK => HostOK'
  BY <1>1, Zenon DEF HostSame, HostOK
<1>5. DownOK => DownOK'
  BY <1>1 DEF HostSame, DownOK
<1> QED
  BY <1>2, <1>3, <1>4, <1>5, Zenon

LEMMA RowStays ==
    ASSUME HostSame, NEW d \in Deliveries, RowOK(d),
           row'[d].state = row[d].state, row'[d].claim = row[d].claim
    PROVE  RowOK(d)'
BY HostFrame, Zenon DEF HostSame, RowOK, Pending

LEMMA ReqStays ==
    ASSUME HostSame, RowsMove, NEW r \in Requests, ReqOK(r), minted' = minted, req'[r] = req[r]
    PROVE  ReqOK(r)'
<1>1. CASE req[r].pc = "idle"
  BY <1>1, Zenon DEF ReqOK, Held
<1>2. CASE req[r].pc # "idle"
  <2>1. req[r].d \in Deliveries
    BY <1>2, Zenon DEF ReqOK
  <2> QED
    BY <2>1, Zenon DEF ReqOK, RowsMove, Pending, HostSame
<1> QED
  BY <1>1, <1>2, Zenon

LEMMA ReqIdle ==
    ASSUME NEW r \in Requests, req'[r] = Idle
    PROVE  ReqOK(r)' /\ req'[r].pc \notin Held
BY DEF ReqOK, Idle, Held

\* The parts of the invariant that need only the rows to stay delivered or failed.
LEMMA KernelCore ==
    ASSUME IInv, TypeOK', HostSame, Sole', PendOK',
           \A d \in Deliveries :
               RowOK(d)' /\ (row[d].state \in {"delivered", "failed"} => row'[d].state = row[d].state),
           \A r \in Requests : ReqOK(r)',
           \A c \in Connections : \A i \in DOMAIN up'[c] : \E j \in DOMAIN up[c] : up'[c][i] = up[c][j],
           \A c \in Connections : reader'[c] = reader[c] \/ reader'[c].pc = "read" \/ ReaderOK(c)',
           \A c \in Connections : \A d \in settled'[c] : d \in settled[c] \/ SettledOK(d)',
           \A d \in seen'.told : d \in seen.told \/ row'[d].state = "delivered"
    PROVE  IInv'
<1>1. \A c \in Connections : UpOK(c)'
  <2> SUFFICES ASSUME NEW c \in Connections, NEW i \in DOMAIN up'[c], NEW a, a = up'[c][i]
               PROVE  Truth(a.d, a.result)'
    BY Zenon DEF UpOK
  <2>1. PICK j \in DOMAIN up[c] : a = up[c][j]
    BY Zenon
  <2> QED
    BY <2>1, HostFrame, Zenon DEF IInv, UpOK
<1>2. \A c \in Connections : ReaderOK(c)'
  <2> SUFFICES ASSUME NEW c \in Connections, reader'[c] = reader[c], NEW a, a = reader[c], a.pc # "read"
               PROVE  /\ a.d \in Deliveries /\ a.result # "none" /\ Truth(a.d, a.result)'
                      /\ a.pc = "take" => row'[a.d].state = IF a.result = "applied" THEN "delivered" ELSE "failed"
    BY DEF ReaderOK, Truth, Denied, InDown
  <2>1. ReaderOK(c)
    BY Zenon DEF IInv
  <2> QED
    BY <2>1, HostFrame, Zenon DEF ReaderOK
<1>3. \A c \in Connections : \A d \in settled'[c] : SettledOK(d)'
  <2> SUFFICES ASSUME NEW c \in Connections, NEW d \in settled[c] PROVE SettledOK(d)'
    BY Zenon
  <2>1. SettledOK(d) /\ d \in Deliveries
    BY Zenon DEF IInv, TypeOK
  <2> QED
    BY <2>1, HostFrame, Zenon DEF SettledOK
<1>4. \A d \in seen'.told : row'[d].state = "delivered"
  <2>1. \A d \in seen.told : d \in Deliveries /\ row[d].state = "delivered"
    BY Fields, Zenon DEF IInv
  <2> QED
    BY <2>1
<1>5. HostOK' /\ DownOK'
  BY HostFrame, Zenon DEF IInv
<1>6. EvidenceKept'
  <2>1. host.confirmed \subseteq Deliveries
    BY Fields, Zenon DEF IInv
  <2> QED
    BY <2>1, Zenon DEF IInv, EvidenceKept, HostSame
<1> QED
  BY <1>1, <1>2, <1>3, <1>4, <1>5, <1>6, Zenon DEF IInv

LEMMA KernelStep ==
    ASSUME IInv, TypeOK', HostSame, minted' = minted, RowsMove,
           \A d \in Deliveries : RowOK(d)',
           \A r \in Requests : ReqOK(r)',
           \A r \in Requests : req'[r].pc \in Held =>
               req[r].pc \in Held /\ req'[r].d = req[r].d /\ req'[r].token = req[r].token,
           pending' \subseteq pending,
           \A c \in Connections : \A i \in DOMAIN up'[c] : \E j \in DOMAIN up[c] : up'[c][i] = up[c][j],
           \A c \in Connections : reader'[c] = reader[c] \/ reader'[c].pc = "read" \/ ReaderOK(c)',
           \A c \in Connections : \A d \in settled'[c] : d \in settled[c] \/ SettledOK(d)',
           \A d \in seen'.told : d \in seen.told \/ row'[d].state = "delivered"
    PROVE  IInv'
<1>1. Sole'
  BY DEF IInv, Sole
<1>2. PendOK'
  <2> SUFFICES ASSUME NEW e \in pending', NEW r \in Requests, req'[r].token = e.token
               PROVE  req'[r].d = e.d
    BY Zenon DEF IInv, PendOK
  <2>1. e \in pending /\ e.token # Free
    BY Zenon DEF IInv, PendOK
  <2>2. req'[r].pc \in Held
    BY <2>1, Zenon DEF ReqOK
  <2> QED
    BY <2>1, <2>2, Zenon DEF IInv, PendOK
<1>3. \A d \in Deliveries : row[d].state \in {"delivered", "failed"} => row'[d].state = row[d].state
  BY Zenon DEF RowsMove
<1> QED
  BY <1>1, <1>2, <1>3, KernelCore, Zenon

-----------------------------------------------------------------------------
(***************************************************************************)
(* Steps of one request that leave the rows alone.                         *)
(***************************************************************************)
\* What the request's new record q owes.
Legal(r, q) ==
    /\ q \in ReqState
    /\ q.pc # "idle" => q.d \in Deliveries /\ row[q.d].state # "absent"
    /\ q.pc \notin Held => q.token = Free
    /\ q.pc \in Held => req[r].pc \in Held /\ q.d = req[r].d /\ q.token = req[r].token
    /\ q.pc \in {"route", "dispatch"} => q.d \notin seen.dispatched
    /\ q.pc = "release" /\ q.d \in seen.dispatched => ~Pending(q.d)
    /\ q.pc = "refused" => ~Pending(q.d)
    /\ q.pc = "applied" => row[q.d].state = "delivered"

LEMMA RequestStep ==
    ASSUME IInv, HostSame, NEW r \in Requests, NEW q, Legal(r, q), req' = [req EXCEPT ![r] = q],
           UNCHANGED <<row, session, reader, abandoned, up, settled, minted, faults>>,
           kconn' \in [Connections -> {"closed", "open", "forced", "closing", "unrouted", "sweeping"}],
           pending' \subseteq pending, seen' \in Seen,
           \A d \in seen'.told : d \in seen.told \/ row[d].state = "delivered"
    PROVE  IInv'
<1>1. TypeOK
  BY Zenon DEF IInv
<1>2. /\ \A p \in Requests : p # r => req'[p] = req[p]
      /\ req'[r] = q
  BY <1>1, Zenon DEF TypeOK
<1>3. TypeOK'
  <2>1. req' \in [Requests -> ReqState]
    BY <1>1, Zenon DEF TypeOK, Legal
  <2>2. pending' \in SUBSET PendState
    BY <1>1, Zenon DEF TypeOK
  <2> QED
    BY <1>1, <2>1, <2>2, Zenon DEF TypeOK, HostSame
<1>4. RowsMove
  BY Zenon DEF RowsMove
<1>5. \A d \in Deliveries : RowOK(d)'
  BY RowStays, Zenon DEF IInv
<1>6. \A p \in Requests : ReqOK(p)'
  <2> SUFFICES ASSUME NEW p \in Requests PROVE ReqOK(p)'
    BY Zenon
  <2>1. CASE p # r
    BY <1>2, <1>4, <2>1, ReqStays, Zenon DEF IInv
  <2>2. CASE p = r
    <3>1. ReqOK(r)
      BY Zenon DEF IInv
    <3> QED
      BY <1>2, <2>2, <3>1 DEF ReqOK, Legal, Pending, HostSame
  <2> QED
    BY <2>1, <2>2, Zenon
<1>7. \A p \in Requests : req'[p].pc \in Held =>
         req[p].pc \in Held /\ req'[p].d = req[p].d /\ req'[p].token = req[p].token
  BY <1>2, Zenon DEF Legal
<1> QED
  BY <1>3, <1>4, <1>5, <1>6, <1>7, KernelStep, Zenon

\* A request that only moves on keeps its command and its claim.
LEMMA Moved ==
    ASSUME IInv, NEW r \in Requests, NEW pc \in {"idle", "check", "claim"} \cup Held,
           NEW q, q = [req[r] EXCEPT !.pc = pc]
    PROVE  q \in ReqState /\ q.pc = pc /\ q.d = req[r].d /\ q.token = req[r].token
<1>1. req[r] \in ReqState
  BY Fields, Zenon DEF IInv
<1> QED
  BY <1>1, Zenon DEF ReqState

LEMMA LegalIdle == \A r : Legal(r, Idle)
<1>1. Idle \in ReqState /\ Idle.pc = "idle" /\ Idle.token = Free
  BY NoneApart, Zenon DEF Idle, ReqState, Owners
<1> QED
  BY <1>1, Zenon DEF Legal, Held

LEMMA RetryStep ==
    ASSUME IInv, env' = env, NEW r \in Requests, NEW d \in Deliveries, Retry(r, d)
    PROVE  IInv'
<1> PICK q : q = [req[r] EXCEPT !.pc = "check", !.d = d]
  BY Zenon
<1>1. req[r] \in ReqState /\ req[r].token = Free
  BY Fields, Zenon DEF IInv, ReqOK, Retry, Held
<1>2. q \in ReqState /\ q.pc = "check" /\ q.d = d /\ q.token = Free
  BY <1>1, Zenon DEF ReqState
<1>3. Legal(r, q)
  BY <1>2, Zenon DEF Legal, Retry, Held
<1>4. HostSame
  BY Zenon DEF HostSame, Retry
<1> QED
  BY <1>3, <1>4, RequestStep, Zenon DEF Retry, IInv, TypeOK

LEMMA CheckStep ==
    ASSUME IInv, env' = env, NEW r \in Requests, delivery_pending(r)
    PROVE  IInv'
<1> PICK q : q = IF PendingOf(req[r].d) # {} THEN Idle ELSE [req[r] EXCEPT !.pc = "claim"]
  BY Zenon
<1>1. Legal(r, q)
  <2>1. CASE q = Idle
    BY <2>1, LegalIdle, Zenon
  <2>2. CASE q = [req[r] EXCEPT !.pc = "claim"]
    <3>1. q \in ReqState /\ q.pc = "claim" /\ q.d = req[r].d /\ q.token = req[r].token
      BY <2>2, Moved
    <3>2. ReqOK(r) /\ req[r].pc = "check"
      BY Zenon DEF IInv, delivery_pending
    <3> QED
      BY <3>1, <3>2, Zenon DEF Legal, ReqOK, Held
  <2> QED
    BY <2>1, <2>2, Zenon
<1>2. HostSame
  BY Zenon DEF HostSame, delivery_pending
<1>3. req' = [req EXCEPT ![r] = q]
  BY Zenon DEF delivery_pending
<1> QED
  BY <1>1, <1>2, <1>3, RequestStep, Zenon DEF delivery_pending, IInv, TypeOK

LEMMA ClaimRefusedStep ==
    ASSUME IInv, env' = env, NEW r \in Requests, ClaimRefused(r)
    PROVE  IInv'
<1> PICK d : d = req[r].d
  BY Zenon
<1>1. d \in Deliveries /\ seen \in Seen
  BY Zenon DEF IInv, ReqOK, ClaimRefused, TypeOK
<1> PICK T : T = IF row[d].state = "delivered" THEN seen.told \cup {d} ELSE seen.told
  BY Zenon
<1>2. T \in SUBSET Deliveries
  BY <1>1, Fields, Zenon DEF IInv
<1>3. seen' = [seen EXCEPT !.told = T]
  BY Zenon DEF ClaimRefused
<1>4. seen' \in Seen /\ seen'.told = T /\ seen'.dispatched = seen.dispatched
  BY <1>1, <1>2, <1>3, Zenon DEF Seen
<1>5. HostSame
  BY <1>4, Zenon DEF HostSame, ClaimRefused
<1>6. \A e \in seen'.told : e \in seen.told \/ row[e].state = "delivered"
  BY <1>4, Zenon
<1> QED
  BY <1>4, <1>5, <1>6, LegalIdle, RequestStep, Zenon DEF ClaimRefused, IInv, TypeOK

LEMMA RouteSteps ==
    ASSUME IInv, env' = env, NEW r \in Requests,
           Route(r) \/ NoRoute(r) \/ DispatchRefused(r)
    PROVE  IInv'
<1>1. ReqOK(r) /\ req[r] \in ReqState /\ TypeOK
  BY Fields, Zenon DEF IInv
<1>2. req[r].pc \in {"route", "dispatch"}
  BY Zenon DEF Route, NoRoute, DispatchRefused
<1>3. PICK q : /\ req' = [req EXCEPT ![r] = q] /\ q \in ReqState
               /\ q.pc \in {"dispatch", "release"} /\ q.d = req[r].d /\ q.token = req[r].token
  <2>1. CASE Route(r)
    <3> PICK q : q = [req[r] EXCEPT !.pc = "dispatch", !.owner = session]
      BY Zenon
    <3>1. session \in Owners /\ "dispatch" \in Held
      BY <1>1, Zenon DEF TypeOK, Held
    <3>2. q \in ReqState /\ q.pc = "dispatch" /\ q.d = req[r].d /\ q.token = req[r].token
      BY <1>1, <3>1, Zenon DEF ReqState
    <3>3. req' = [req EXCEPT ![r] = q]
      BY <2>1, Zenon DEF Route
    <3> QED
      BY <3>2, <3>3, Zenon
  <2>2. CASE NoRoute(r) \/ DispatchRefused(r)
    <3> PICK q : q = [req[r] EXCEPT !.pc = "release"]
      BY Zenon
    <3>1. "release" \in Held
      BY Zenon DEF Held
    <3>2. q \in ReqState /\ q.pc = "release" /\ q.d = req[r].d /\ q.token = req[r].token
      BY <3>1, Moved
    <3>3. req' = [req EXCEPT ![r] = q]
      BY <2>2, Zenon DEF NoRoute, DispatchRefused
    <3> QED
      BY <3>2, <3>3, Zenon
  <2> QED
    BY <2>1, <2>2, Zenon
<1>4. Legal(r, q)
  BY <1>1, <1>2, <1>3, Zenon DEF Legal, ReqOK, Held
<1>5. HostSame /\ UNCHANGED <<row, session, reader, abandoned, up, settled, minted, faults, kconn, pending, seen>>
  BY Zenon DEF HostSame, Route, NoRoute, DispatchRefused
<1> QED
  BY <1>1, <1>3, <1>4, <1>5, RequestStep, Zenon DEF TypeOK

LEMMA AcknowledgedStep ==
    ASSUME IInv, env' = env, NEW r \in Requests, Acknowledged(r)
    PROVE  IInv'
<1> PICK d : d = req[r].d
  BY Zenon
<1> PICK q : q = IF req[r].pc = "applied" THEN Idle ELSE [req[r] EXCEPT !.pc = "release"]
  BY Zenon
<1>1. ReqOK(r) /\ TypeOK /\ seen \in Seen
  BY Zenon DEF IInv, TypeOK
<1>2. req[r].pc \in {"applied", "refused"} /\ req' = [req EXCEPT ![r] = q]
  BY Zenon DEF Acknowledged
<1>3. d \in Deliveries /\ (req[r].pc = "applied" => row[d].state = "delivered")
  BY <1>1, <1>2, Zenon DEF ReqOK
<1>4. Legal(r, q)
  <2>1. CASE req[r].pc = "applied"
    BY <2>1, LegalIdle, Zenon
  <2>2. CASE req[r].pc = "refused"
    <3>1. "release" \in Held
      BY Zenon DEF Held
    <3>2. q \in ReqState /\ q.pc = "release" /\ q.d = req[r].d /\ q.token = req[r].token
      BY <2>2, <3>1, Moved
    <3> QED
      BY <1>1, <2>2, <3>2, Zenon DEF Legal, ReqOK, Held
  <2> QED
    BY <1>2, <2>1, <2>2, Zenon
<1> PICK T : T = IF req[r].pc = "applied" THEN seen.told \cup {d} ELSE seen.told
  BY Zenon
<1>5. T \in SUBSET Deliveries
  BY <1>1, <1>3, Fields, Zenon
<1>6. seen' = [seen EXCEPT !.told = T]
  BY Zenon DEF Acknowledged
<1>7. seen' \in Seen /\ seen'.told = T /\ seen'.dispatched = seen.dispatched
  BY <1>1, <1>5, <1>6, Zenon DEF Seen
<1>8. HostSame
  BY <1>7, Zenon DEF HostSame, Acknowledged
<1>9. \A e \in seen'.told : e \in seen.told \/ row[e].state = "delivered"
  BY <1>3, <1>7, Zenon
<1>10. pending' \subseteq pending
  BY Zenon DEF Acknowledged
<1> QED
  BY <1>1, <1>2, <1>4, <1>7, <1>8, <1>9, <1>10, RequestStep, Zenon DEF Acknowledged, TypeOK

LEMMA LeavingSteps ==
    ASSUME IInv, env' = env, NEW r \in Requests, AckTimeout(r) \/ ClientLeaves(r)
    PROVE  IInv'
<1>1. ReqOK(r) /\ TypeOK
  BY Zenon DEF IInv
<1>2. CASE AckTimeout(r)
  <2> PICK q : q = [req[r] EXCEPT !.pc = "abandon"]
    BY Zenon
  <2>1. "abandon" \in Held /\ req[r].pc = "wait" /\ req' = [req EXCEPT ![r] = q]
    BY <1>2, Zenon DEF Held, AckTimeout
  <2>2. q \in ReqState /\ q.pc = "abandon" /\ q.d = req[r].d /\ q.token = req[r].token
    BY <2>1, Moved
  <2>3. Legal(r, q)
    BY <1>1, <2>1, <2>2, Zenon DEF Legal, ReqOK, Held
  <2>4. kconn' \in [Connections -> {"closed", "open", "forced", "closing", "unrouted", "sweeping"}]
    BY <1>1, <1>2, Zenon DEF AckTimeout, TypeOK
  <2>5. HostSame
    BY <1>2, Zenon DEF HostSame, AckTimeout
  <2> QED
    BY <1>1, <1>2, <2>1, <2>3, <2>4, <2>5, RequestStep, Zenon DEF AckTimeout, TypeOK
<1>3. CASE ClientLeaves(r)
  <2>1. HostSame
    BY <1>3, Zenon DEF HostSame, ClientLeaves
  <2> QED
    BY <1>1, <1>3, <2>1, LegalIdle, RequestStep, Zenon DEF ClientLeaves, TypeOK
<1> QED
  BY <1>2, <1>3, Zenon

-----------------------------------------------------------------------------
(***************************************************************************)
(* Steps that write one row.                                               *)
(***************************************************************************)
\* What the new row R of d may be: the old one but for its clocks, or settled
\* from pending, or delivered from indeterminate; and settled truthfully.
Lawful(d, R) ==
    /\ R \in RowState
    /\ \/ R.state = row[d].state /\ R.claim = row[d].claim
       \/ /\ row[d].state \notin {"absent", "failed"} /\ R.state \in {"delivered", "failed", "indeterminate"}
          /\ row[d].state # "pending" => R.state = "delivered"
    /\ R.state = "delivered" => d \in Range(host.effects)
    /\ R.state = "failed" => Denied(d)

LEMMA LawfulRow ==
    ASSUME IInv, HostSame, NEW d \in Deliveries, NEW R, Lawful(d, R), row' = [row EXCEPT ![d] = R]
    PROVE  /\ row' \in [Deliveries -> RowState] /\ RowsMove
           /\ \A e \in Deliveries : RowOK(e)'
<1>1. row \in [Deliveries -> RowState]
  BY Zenon DEF IInv, TypeOK
<1>2. row'[d] = R /\ \A e \in Deliveries : e # d => row'[e] = row[e]
  BY <1>1, Zenon
<1>3. row' \in [Deliveries -> RowState]
  BY <1>1, Zenon DEF Lawful
<1>4. RowsMove
  <2> SUFFICES ASSUME NEW e \in Deliveries
               PROVE  /\ row'[e].state = "pending" => row[e].state = "pending" /\ row'[e].claim = row[e].claim
                      /\ row[e].state \in {"delivered", "failed"} => row'[e].state = row[e].state
                      /\ row'[e].state = "absent" => row[e].state = "absent"
    BY Zenon DEF RowsMove
  <2> QED
    BY <1>2, Zenon DEF Lawful
<1>5. ASSUME NEW e \in Deliveries PROVE RowOK(e)'
  <2>1. RowOK(e)
    BY Zenon DEF IInv
  <2>2. CASE row'[e].state = row[e].state /\ row'[e].claim = row[e].claim
    BY <2>1, <2>2, RowStays, Zenon
  <2>3. CASE e = d /\ R.state \in {"delivered", "failed", "indeterminate"}
    BY <1>2, <2>3, HostFrame, Zenon DEF Lawful, RowOK, Pending, HostSame
  <2> QED
    BY <1>2, <2>2, <2>3, Zenon DEF Lawful
<1> QED
  BY <1>3, <1>4, <1>5, Zenon

LEMMA SettleFields ==
    ASSUME IInv, NEW d \in Deliveries, NEW st \in States
    PROVE  /\ Settle(d, st) \in RowState /\ Settle(d, st).state = st /\ Settle(d, st).claim = Free
<1>1. row[d] \in RowState
  BY Fields, Zenon DEF IInv
<1> QED
  BY <1>1, NoneApart, Zenon DEF Settle, RowState

LEMMA Unsettled ==
    ASSUME IInv, NEW d \in Deliveries
    PROVE  Lawful(d, row[d]) /\ (Pending(d) => Lawful(d, Settle(d, "indeterminate")))
<1>1. RowOK(d) /\ row[d] \in RowState
  BY Fields, Zenon DEF IInv
<1>2. "indeterminate" \in States
  BY Zenon DEF States
<1>3. Lawful(d, row[d])
  BY <1>1, Zenon DEF Lawful, RowOK
<1>4. Pending(d) => Lawful(d, Settle(d, "indeterminate"))
  BY <1>2, SettleFields, Zenon DEF Lawful, Pending
<1> QED
  BY <1>3, <1>4, Zenon

\* abandon_pty_delivery writes a lawful row.
LEMMA AbandonRow ==
    ASSUME IInv, NEW d \in Deliveries, NEW token, row' = abandon_pty_delivery(d, token)
    PROVE  \E R : Lawful(d, R) /\ row' = [row EXCEPT ![d] = R]
<1> PICK R : R = IF Pending(d) /\ row[d].claim = token THEN Settle(d, "indeterminate") ELSE row[d]
  BY Zenon
<1>1. Lawful(d, R)
  BY Unsettled, Zenon
<1>2. row' = [row EXCEPT ![d] = R]
  BY Zenon DEF abandon_pty_delivery
<1> QED
  BY <1>1, <1>2, Zenon

\* A row is written and a request, if any, is done.
LEMMA RowStep ==
    ASSUME IInv, HostSame, NEW d \in Deliveries, NEW R, Lawful(d, R), row' = [row EXCEPT ![d] = R],
           \A r \in Requests : req'[r] = req[r] \/ req'[r] = Idle,
           req' \in [Requests -> ReqState],
           abandoned' \in [Connections -> SUBSET (Deliveries \X Nat)],
           UNCHANGED <<pending, session, kconn, reader, up, settled, minted, faults, seen>>
    PROVE  IInv'
<1>1. TypeOK
  BY Zenon DEF IInv
<1>2. row' \in [Deliveries -> RowState] /\ RowsMove /\ \A e \in Deliveries : RowOK(e)'
  BY LawfulRow, Zenon
<1>3. TypeOK'
  BY <1>1, <1>2, Zenon DEF TypeOK, HostSame
<1>4. \A r \in Requests : ReqOK(r)'
  BY <1>2, ReqStays, ReqIdle, Zenon DEF IInv
<1>5. \A r \in Requests : req'[r].pc \in Held =>
         req[r].pc \in Held /\ req'[r].d = req[r].d /\ req'[r].token = req[r].token
  BY ReqIdle, Zenon
<1> QED
  BY <1>2, <1>3, <1>4, <1>5, KernelStep, Zenon

LEMMA ToIdle ==
    ASSUME IInv, NEW r \in Requests, req' = [req EXCEPT ![r] = Idle]
    PROVE  /\ req' \in [Requests -> ReqState]
           /\ \A q \in Requests : req'[q] = req[q] \/ req'[q] = Idle
<1>1. req \in [Requests -> ReqState] /\ Idle \in ReqState
  BY LegalIdle, Zenon DEF IInv, TypeOK, Legal
<1> QED
  BY <1>1, Zenon

LEMMA QuarantineStep ==
    ASSUME IInv, env' = env, NEW r \in Requests, QuarantineExpired(r)
    PROVE  IInv'
<1> PICK d : d = req[r].d
  BY Zenon
<1>1. d \in Deliveries /\ TypeOK
  BY Zenon DEF IInv, ReqOK, QuarantineExpired
<1> PICK R : R = Settle(d, "indeterminate")
  BY Zenon
<1>2. Lawful(d, R) /\ row' = [row EXCEPT ![d] = R] /\ req' = [req EXCEPT ![r] = Idle]
  BY <1>1, Unsettled, Zenon DEF QuarantineExpired
<1>3. HostSame
  BY Zenon DEF HostSame, QuarantineExpired
<1> QED
  BY <1>1, <1>2, <1>3, ToIdle, RowStep, Zenon DEF QuarantineExpired, TypeOK

LEMMA AbandonStep ==
    ASSUME IInv, env' = env, NEW r \in Requests, Abandon(r)
    PROVE  IInv'
<1> PICK d : d = req[r].d
  BY Zenon
<1>1. d \in Deliveries /\ TypeOK
  BY Zenon DEF IInv, ReqOK, Abandon
<1>2. PICK R : Lawful(d, R) /\ row' = [row EXCEPT ![d] = R]
  BY <1>1, AbandonRow, Zenon DEF Abandon
<1>3. HostSame /\ req' = [req EXCEPT ![r] = Idle]
  BY Zenon DEF HostSame, Abandon
<1> QED
  BY <1>1, <1>2, <1>3, ToIdle, RowStep, Zenon DEF Abandon, TypeOK

LEMMA ClockSteps ==
    ASSUME IInv, env' = env, NEW d \in Deliveries, ClaimExpires(d) \/ AppendAges(d)
    PROVE  IInv'
<1>1. row[d] \in RowState /\ TypeOK /\ RowOK(d)
  BY Fields, Zenon DEF IInv
<1>2. PICK R : /\ R \in RowState /\ R.state = row[d].state /\ R.claim = row[d].claim
               /\ row' = [row EXCEPT ![d] = R]
  <2>1. CASE ClaimExpires(d)
    <3> PICK R : R = [row[d] EXCEPT !.live = FALSE]
      BY Zenon
    <3>1. R \in RowState /\ R.state = row[d].state /\ R.claim = row[d].claim
      BY <1>1, Zenon DEF RowState
    <3>2. row' = [row EXCEPT ![d] = R]
      BY <2>1, Zenon DEF ClaimExpires
    <3> QED
      BY <3>1, <3>2, Zenon
  <2>2. CASE AppendAges(d)
    <3> PICK R : R = [row[d] EXCEPT !.fresh = FALSE]
      BY Zenon
    <3>1. R \in RowState /\ R.state = row[d].state /\ R.claim = row[d].claim
      BY <1>1, Zenon DEF RowState
    <3>2. row' = [row EXCEPT ![d] = R]
      BY <2>2, Zenon DEF AppendAges
    <3> QED
      BY <3>1, <3>2, Zenon
  <2> QED
    BY <2>1, <2>2, Zenon
<1>3. Lawful(d, R)
  BY <1>1, <1>2, Zenon DEF Lawful, RowOK
<1>4. HostSame /\ UNCHANGED <<req, pending, session, kconn, reader, abandoned, up, settled, minted, faults, seen>>
  BY Zenon DEF HostSame, ClaimExpires, AppendAges
<1> QED
  BY <1>1, <1>2, <1>3, <1>4, RowStep, Zenon DEF TypeOK

LEMMA SweepStep ==
    ASSUME IInv, env' = env, NEW c \in Connections, abandon_pty_deliveries(c)
    PROVE  IInv'
<1>1. TypeOK /\ HostSame
  BY Zenon DEF IInv, HostSame, abandon_pty_deliveries
<1>2. CASE abandoned[c] = {} /\ kconn' = [kconn EXCEPT ![c] = "closed"] /\ UNCHANGED <<row, abandoned>>
  <2>1. TypeOK'
    BY <1>1, <1>2, Zenon DEF TypeOK, abandon_pty_deliveries, HostSame
  <2>2. RowsMove /\ UNCHANGED <<row, req, pending, reader, up, settled, minted, seen>>
    BY <1>2, Zenon DEF RowsMove, abandon_pty_deliveries
  <2>3. \A d \in Deliveries : RowOK(d)'
    BY <1>1, <2>2, RowStays, Zenon DEF IInv
  <2>4. \A r \in Requests : ReqOK(r)'
    BY <1>1, <2>2, ReqStays, Zenon DEF IInv
  <2> QED
    BY <1>1, <2>1, <2>2, <2>3, <2>4, KernelStep, Zenon
<1>3. CASE \E p \in abandoned[c] :
            /\ \/ row' = abandon_pty_delivery(p[1], p[2])
               \/ StorageMayFail /\ row' = row
            /\ abandoned' = [abandoned EXCEPT ![c] = @ \ {p}]
            /\ UNCHANGED kconn
  <2>1. PICK p \in abandoned[c] :
            /\ row' = abandon_pty_delivery(p[1], p[2]) \/ row' = row
            /\ abandoned' = [abandoned EXCEPT ![c] = @ \ {p}]
            /\ UNCHANGED kconn
    BY <1>3, Zenon
  <2>2. p \in Deliveries \X Nat
    BY <1>1, <2>1, Zenon DEF TypeOK
  <2> PICK d \in Deliveries : d = p[1]
    BY <2>2, Zenon
  <2>3. \E R : Lawful(d, R) /\ row' = [row EXCEPT ![d] = R]
    <3>1. CASE row' = row
      <4>1. row' = [row EXCEPT ![d] = row[d]]
        BY <1>1, <3>1, Zenon DEF TypeOK
      <4> QED
        BY <4>1, Unsettled, Zenon
    <3>2. CASE row' = abandon_pty_delivery(p[1], p[2])
      BY <3>2, AbandonRow, Zenon
    <3> QED
      BY <2>1, <3>1, <3>2, Zenon
  <2>4. abandoned' \in [Connections -> SUBSET (Deliveries \X Nat)]
    BY <1>1, <2>1, Zenon DEF TypeOK
  <2>5. UNCHANGED <<req, pending, session, kconn, reader, up, settled, minted, faults, seen>>
    BY <2>1, Zenon DEF abandon_pty_deliveries
  <2>6. req' \in [Requests -> ReqState]
    BY <1>1, <2>5, Zenon DEF TypeOK
  <2> QED
    BY <1>1, <2>3, <2>4, <2>5, <2>6, RowStep, Zenon
<1> QED
  BY <1>2, <1>3, Zenon DEF abandon_pty_deliveries

-----------------------------------------------------------------------------
(***************************************************************************)
(* Steps of a connection.                                                  *)
(***************************************************************************)
LEMMA ConnStep ==
    ASSUME IInv, TypeOK', HostSame, UNCHANGED <<req, pending, minted, seen>>,
           RowsMove, \A d \in Deliveries : RowOK(d)',
           \A c \in Connections : \A i \in DOMAIN up'[c] : \E j \in DOMAIN up[c] : up'[c][i] = up[c][j],
           \A c \in Connections : reader'[c] = reader[c] \/ reader'[c].pc = "read" \/ ReaderOK(c)',
           \A c \in Connections : \A d \in settled'[c] : d \in settled[c] \/ SettledOK(d)'
    PROVE  IInv'
<1>1. \A r \in Requests : ReqOK(r)'
  BY ReqStays, Zenon DEF IInv
<1> QED
  BY <1>1, KernelStep, Zenon

\* Steps that change no row, request, acknowledgement or pending delivery.
LEMMA EndSteps ==
    ASSUME IInv, env' = env, NEW c \in Connections, Hangup(c) \/ DropSessions(c)
    PROVE  IInv'
<1>1. /\ HostSame /\ UNCHANGED <<row, req, pending, reader, abandoned, up, settled, minted, seen>>
  BY Zenon DEF Hangup, DropSessions, HostSame
<1>2. RowsMove
  BY <1>1, Zenon DEF RowsMove
<1>3. TypeOK'
  <2>1. kconn' \in [Connections -> {"closed", "open", "forced", "closing", "unrouted", "sweeping"}]
    BY Zenon DEF IInv, TypeOK, Hangup, DropSessions, EndOfStream, Broken, Close
  <2>2. session' \in Owners /\ faults' \in Nat
    BY DEF IInv, TypeOK, Hangup, DropSessions, Owners
  <2> QED
    BY <1>1, <2>1, <2>2, Zenon DEF IInv, TypeOK, HostSame
<1>4. \A d \in Deliveries : RowOK(d)'
  BY <1>1, RowStays, Zenon DEF IInv
<1> QED
  BY <1>1, <1>2, <1>3, <1>4, ConnStep, Zenon

LEMMA AckClaimStep ==
    ASSUME IInv, env' = env, NEW c \in Connections, delivery_ack_claim(c)
    PROVE  IInv'
<1>1. TypeOK /\ up[c] \in Seq(Acks) /\ up[c] # <<>> /\ UpOK(c)
  BY Fields, Zenon DEF IInv, delivery_ack_claim
<1> PICK N \in Nat : N = Len(up[c])
  BY <1>1
<1> PICK a : a = up[c][1]
  BY Zenon
<1>2. /\ N >= 1 /\ Head(up[c]) = a /\ a \in Acks /\ Tail(up[c]) \in Seq(Acks)
      /\ DOMAIN up[c] = 1..N /\ DOMAIN Tail(up[c]) = 1..(N - 1)
      /\ \A i \in 1..(N - 1) : Tail(up[c])[i] = up[c][i + 1]
  BY <1>1
<1>3. Truth(a.d, a.result) /\ a.d \in Deliveries /\ a.result \in {"applied", "refused"}
  BY <1>1, <1>2 DEF UpOK, Acks
<1>4. up' = [up EXCEPT ![c] = Tail(up[c])]
  BY Zenon DEF delivery_ack_claim
<1>5. /\ HostSame /\ UNCHANGED <<row, req, pending, session, abandoned, settled, minted, faults, seen>>
  BY Zenon DEF delivery_ack_claim, HostSame
<1>6. /\ kconn' \in [Connections -> {"closed", "open", "forced", "closing", "unrouted", "sweeping"}]
      /\ \/ reader' = reader
         \/ \E x \in ReaderState : /\ reader' = [reader EXCEPT ![c] = x]
                                   /\ x.pc \in {"reconcile", "settle"} /\ x.d = a.d /\ x.result = a.result
  <2>1. CASE UNCHANGED kconn /\ reader' = [reader EXCEPT ![c] = [pc |-> "reconcile", d |-> a.d, token |-> Free,
                                                                 result |-> a.result]]
    <3> PICK x : x = [pc |-> "reconcile", d |-> a.d, token |-> Free, result |-> a.result]
      BY Zenon
    <3>1. x \in ReaderState /\ x.pc = "reconcile" /\ x.d = a.d /\ x.result = a.result
      BY <1>3, NoneApart, Zenon DEF ReaderState
    <3> QED
      BY <1>1, <2>1, <3>1, Zenon DEF TypeOK
  <2>2. CASE Close(c) /\ UNCHANGED reader
    BY <1>1, <2>2, Zenon DEF Close, TypeOK
  <2>3. CASE /\ UNCHANGED kconn
             /\ \E e \in PendingOf(a.d) :
                   reader' = [reader EXCEPT ![c] = [pc |-> "settle", d |-> a.d, token |-> e.token,
                                                    result |-> a.result]]
    <3> PICK e \in PendingOf(a.d) :
           reader' = [reader EXCEPT ![c] = [pc |-> "settle", d |-> a.d, token |-> e.token, result |-> a.result]]
      BY <2>3, Zenon
    <3> PICK t \in Nat : t = e.token
      BY <1>1, Fields, Zenon DEF PendingOf
    <3> PICK x : x = [pc |-> "settle", d |-> a.d, token |-> t, result |-> a.result]
      BY Zenon
    <3>1. x \in ReaderState /\ x.pc = "settle" /\ x.d = a.d /\ x.result = a.result
      BY <1>3, Zenon DEF ReaderState
    <3> QED
      BY <1>1, <2>3, <3>1, Zenon DEF TypeOK
  <2> QED
    BY <1>2, <2>1, <2>2, <2>3, Zenon DEF delivery_ack_claim
<1>7. TypeOK'
  <2>1. reader' \in [Connections -> ReaderState] /\ up' \in [Connections -> Seq(Acks)]
    BY <1>1, <1>2, <1>4, <1>6, Zenon DEF TypeOK
  <2> QED
    BY <1>1, <1>5, <1>6, <2>1, Zenon DEF TypeOK, HostSame
<1>8. RowsMove /\ \A d \in Deliveries : RowOK(d)'
  BY <1>5, RowStays, Zenon DEF RowsMove, IInv
<1>9. \A k \in Connections : \A i \in DOMAIN up'[k] : \E j \in DOMAIN up[k] : up'[k][i] = up[k][j]
  <2> SUFFICES ASSUME NEW k \in Connections, NEW i \in DOMAIN up'[k]
               PROVE  \E j \in DOMAIN up[k] : up'[k][i] = up[k][j]
    BY Zenon
  <2>1. CASE k # c
    BY <1>1, <1>4, <2>1, Zenon DEF TypeOK
  <2>2. CASE k = c
    <3>1. up'[k] = Tail(up[c])
      BY <1>1, <1>4, <2>2, Zenon DEF TypeOK
    <3>2. i \in 1..(N - 1) /\ i + 1 \in 1..N
      BY <1>2, <3>1
    <3> QED
      BY <1>2, <2>2, <3>1, <3>2, Zenon
  <2> QED
    BY <2>1, <2>2, Zenon
<1>10. \A k \in Connections : reader'[k] = reader[k] \/ reader'[k].pc = "read" \/ ReaderOK(k)'
  <2> SUFFICES ASSUME NEW x \in ReaderState, reader' = [reader EXCEPT ![c] = x],
                      x.pc \in {"reconcile", "settle"}, x.d = a.d, x.result = a.result
               PROVE  \A k \in Connections : reader'[k] = reader[k] \/ ReaderOK(k)'
    BY <1>6, Zenon
  <2>1. reader'[c] = x /\ \A k \in Connections : k # c => reader'[k] = reader[k]
    BY <1>1, Zenon DEF TypeOK
  <2>2. Truth(a.d, a.result)'
    BY <1>3, <1>5, HostFrame, Zenon
  <2>3. Truth(x.d, x.result)'
    BY <2>2, Zenon DEF Truth, Denied, InDown
  <2>4. ReaderOK(c)'
    BY <1>3, <2>1, <2>3 DEF ReaderOK, Truth, Denied, InDown
  <2> QED
    BY <2>1, <2>4, Zenon
<1> QED
  BY <1>5, <1>7, <1>8, <1>9, <1>10, ConnStep, Zenon

\* A connection that only starts to close.
LEMMA CloseStep ==
    ASSUME IInv, HostSame, NEW c \in Connections, Close(c),
           UNCHANGED <<row, req, pending, session, reader, abandoned, up, settled, minted, faults, seen>>
    PROVE  IInv'
<1>1. TypeOK'
  BY Zenon DEF IInv, TypeOK, Close, HostSame
<1>2. RowsMove /\ \A d \in Deliveries : RowOK(d)'
  BY RowStays, Zenon DEF RowsMove, IInv
<1> QED
  BY <1>1, <1>2, ConnStep, Zenon

LEMMA SettleStep ==
    ASSUME IInv, env' = env, NEW c \in Connections, settle_pty_delivery(c)
    PROVE  IInv'
<1>1. /\ HostSame /\ UNCHANGED <<req, pending, session, abandoned, up, settled, minted, faults, seen>>
  BY Zenon DEF settle_pty_delivery, HostSame
<1> PICK a : a = reader[c]
  BY Zenon
<1>2. /\ TypeOK /\ ReaderOK(c) /\ a \in ReaderState /\ a.pc = "settle"
  BY Fields, Zenon DEF IInv, settle_pty_delivery
<1>3. a.d \in Deliveries /\ Truth(a.d, a.result) /\ a.result \in {"applied", "refused"}
  BY <1>2, Zenon DEF ReaderOK, ReaderState
<1>4. CASE Close(c) /\ UNCHANGED <<row, reader>>
  BY <1>1, <1>4, CloseStep, Zenon
<1>5. CASE /\ Pending(a.d) /\ UNCHANGED kconn
           /\ row' = [row EXCEPT ![a.d] = Settle(a.d, IF a.result = "applied" THEN "delivered" ELSE "failed")]
           /\ reader' = [reader EXCEPT ![c].pc = "take"]
  <2> PICK st \in States : st = IF a.result = "applied" THEN "delivered" ELSE "failed"
    BY Zenon DEF States
  <2> PICK R : R = Settle(a.d, st)
    BY Zenon
  <2>1. R \in RowState /\ R.state = st /\ row' = [row EXCEPT ![a.d] = R]
    BY <1>3, <1>5, SettleFields, Zenon
  <2>2. Lawful(a.d, R)
    BY <1>3, <1>5, <2>1, Zenon DEF Lawful, Truth, Pending
  <2>3. row' \in [Deliveries -> RowState] /\ RowsMove /\ \A e \in Deliveries : RowOK(e)'
    BY <1>1, <1>3, <2>1, <2>2, LawfulRow, Zenon
  <2> PICK x : x = [a EXCEPT !.pc = "take"]
    BY Zenon
  <2>4. x \in ReaderState /\ x.pc = "take" /\ x.d = a.d /\ x.result = a.result
    BY <1>2, Zenon DEF ReaderState
  <2>5. reader' = [reader EXCEPT ![c] = x]
    BY <1>5, Zenon
  <2>6. reader' \in [Connections -> ReaderState] /\ reader'[c] = x
        /\ \A k \in Connections : k # c => reader'[k] = reader[k]
    BY <1>2, <2>4, <2>5, Zenon DEF TypeOK
  <2>7. TypeOK'
    BY <1>1, <1>2, <1>5, <2>3, <2>6, Zenon DEF TypeOK, HostSame
  <2>8. ReaderOK(c)'
    <3>1. Truth(a.d, a.result)'
      BY <1>1, <1>3, HostFrame, Zenon
    <3>2. Truth(x.d, x.result)'
      BY <2>4, <3>1, Zenon DEF Truth, Denied, InDown
    <3>3. row'[x.d].state = st
      BY <1>2, <1>3, <2>1, <2>4, Zenon DEF TypeOK
    <3> QED
      BY <1>3, <2>4, <2>6, <3>2, <3>3 DEF ReaderOK, Truth, Denied, InDown
  <2> QED
    BY <1>1, <2>3, <2>6, <2>7, <2>8, ConnStep, Zenon
<1> QED
  BY <1>4, <1>5, Zenon DEF settle_pty_delivery

LEMMA ReconcileStep ==
    ASSUME IInv, env' = env, NEW c \in Connections, reconcile_pty_delivery(c)
    PROVE  IInv'
<1>1. /\ HostSame /\ UNCHANGED <<req, pending, session, abandoned, up, minted, faults, seen>>
  BY Zenon DEF reconcile_pty_delivery, HostSame
<1> PICK a : a = reader[c]
  BY Zenon
<1>2. /\ TypeOK /\ ReaderOK(c) /\ a \in ReaderState /\ a.pc = "reconcile"
  BY Fields, Zenon DEF IInv, reconcile_pty_delivery
<1>3. a.d \in Deliveries /\ Truth(a.d, a.result)
  BY <1>2, Zenon DEF ReaderOK
<1>4. CASE Close(c) /\ UNCHANGED <<row, settled, reader>>
  BY <1>1, <1>4, CloseStep, Zenon
<1>5. CASE /\ a.result = "applied" /\ row[a.d].state \in {"delivered", "indeterminate"}
           /\ row' = [row EXCEPT ![a.d] = Settle(a.d, "delivered")]
           /\ Answer(c, a.d) /\ reader' = [reader EXCEPT ![c] = Reading] /\ UNCHANGED kconn
  <2> PICK R : R = Settle(a.d, "delivered")
    BY Zenon
  <2>1. R \in RowState /\ R.state = "delivered" /\ row' = [row EXCEPT ![a.d] = R]
    BY <1>3, <1>5, SettleFields, Zenon DEF States
  <2>2. Lawful(a.d, R)
    BY <1>3, <1>5, <2>1, Zenon DEF Lawful, Truth
  <2>3. row' \in [Deliveries -> RowState] /\ RowsMove /\ \A e \in Deliveries : RowOK(e)'
    BY <1>1, <1>3, <2>1, <2>2, LawfulRow, Zenon
  <2>4. Reading \in ReaderState /\ Reading.pc = "read"
    BY NoneApart, Zenon DEF Reading, ReaderState
  <2>5. /\ reader' \in [Connections -> ReaderState] /\ reader'[c] = Reading
        /\ \A k \in Connections : k # c => reader'[k] = reader[k]
    BY <1>2, <1>5, <2>4, Zenon DEF TypeOK
  <2>6. /\ settled' \in [Connections -> SUBSET Deliveries]
        /\ \A k \in Connections : \A d \in settled'[k] : d \in settled[k] \/ d = a.d
    BY <1>2, <1>3, <1>5, Zenon DEF TypeOK, Answer
  <2>7. TypeOK'
    BY <1>1, <1>2, <1>5, <2>3, <2>5, <2>6, Zenon DEF TypeOK, HostSame
  <2>8. \A d : d = a.d => SettledOK(d)'
    <3>1. row'[a.d].state = "delivered"
      BY <1>2, <1>3, <2>1, Zenon DEF TypeOK
    <3> QED
      BY <3>1, Zenon DEF SettledOK
  <2> QED
    BY <1>1, <2>3, <2>4, <2>5, <2>6, <2>7, <2>8, ConnStep, Zenon
<1> QED
  BY <1>4, <1>5, Zenon DEF reconcile_pty_delivery

LEMMA TakeStep ==
    ASSUME IInv, env' = env, NEW c \in Connections, take_delivery_ack(c)
    PROVE  IInv'
<1>1. /\ HostSame /\ UNCHANGED <<row, session, abandoned, up, minted, faults, seen>>
  BY Zenon DEF take_delivery_ack, HostSame
<1> PICK a : a = reader[c]
  BY Zenon
<1> PICK mine : mine = {e \in PendingOf(a.d) : e.owner = c /\ e.token = a.token}
  BY Zenon
<1>2. /\ TypeOK /\ ReaderOK(c) /\ a \in ReaderState /\ a.pc = "take"
  BY Fields, Zenon DEF IInv, take_delivery_ack
<1>3. /\ a.d \in Deliveries /\ a.result \in {"applied", "refused"} /\ RowOK(a.d)
      /\ row[a.d].state = IF a.result = "applied" THEN "delivered" ELSE "failed"
  BY <1>2, Zenon DEF ReaderOK, ReaderState, IInv
<1>4. CASE Close(c) /\ UNCHANGED <<pending, req, settled, reader>>
  BY <1>1, <1>4, CloseStep, Zenon
<1>5. CASE /\ pending' = pending \ mine
           /\ req' = [r \in Requests |->
                            IF req[r].pc = "wait" /\ \E e \in mine : e.req = r /\ e.token = req[r].token
                              THEN [req[r] EXCEPT !.pc = a.result] ELSE req[r]]
           /\ Answer(c, a.d)
           /\ reader' = [reader EXCEPT ![c] = Reading]
           /\ UNCHANGED kconn
  <2>1. ASSUME NEW r \in Requests
        PROVE  /\ req'[r] \in ReqState /\ ReqOK(r)'
               /\ req'[r].pc \in Held => /\ req[r].pc \in Held /\ req'[r].d = req[r].d
                                         /\ req'[r].token = req[r].token
    <3>1. ReqOK(r) /\ req[r] \in ReqState
      BY <1>2, Fields, Zenon DEF IInv
    <3>2. CASE req'[r] = req[r]
      <4>1. ReqOK(r)'
        BY <1>1, <3>1, <3>2, ReqStays, Zenon DEF RowsMove
      <4> QED
        BY <3>1, <3>2, <4>1, Zenon
    <3>3. CASE /\ req[r].pc = "wait" /\ req'[r] = [req[r] EXCEPT !.pc = a.result]
               /\ \E e \in mine : e.req = r /\ e.token = req[r].token
      <4>1. req[r].d = a.d
        BY <3>3, Zenon DEF IInv, PendOK, PendingOf
      <4>2. a.result \in Held
        BY <1>3, Zenon DEF Held
      <4>3. req'[r] \in ReqState /\ req'[r].pc = a.result /\ req'[r].d = a.d /\ req'[r].token = req[r].token
        BY <3>1, <3>3, <4>1, <4>2, Moved
      <4>4. "wait" \in Held /\ a.result \notin {"idle", "route", "dispatch", "release"}
        BY <1>3, Zenon DEF Held
      <4>5. ReqOK(r)'
        BY <1>1, <1>3, <3>1, <3>3, <4>1, <4>2, <4>3, <4>4, Zenon DEF ReqOK, Pending
      <4> QED
        BY <3>3, <4>1, <4>3, <4>4, <4>5, Zenon
    <3> QED
      BY <1>5, <3>2, <3>3, Zenon
  <2>2. Reading \in ReaderState /\ Reading.pc = "read"
    BY NoneApart, Zenon DEF Reading, ReaderState
  <2>3. /\ reader' \in [Connections -> ReaderState]
        /\ \A k \in Connections : reader'[k] = reader[k] \/ reader'[k].pc = "read"
    BY <1>2, <1>5, <2>2, Zenon DEF TypeOK
  <2>4. /\ settled' \in [Connections -> SUBSET Deliveries]
        /\ \A k \in Connections : \A d \in settled'[k] : d \in settled[k] \/ d = a.d
    BY <1>2, <1>3, <1>5, Zenon DEF TypeOK, Answer
  <2>5. TypeOK'
    <3>1. pending' \in SUBSET PendState
      BY <1>2, <1>5, Zenon DEF TypeOK
    <3>2. req' \in [Requests -> ReqState]
      BY <1>5, <2>1, Zenon
    <3> QED
      BY <1>1, <1>2, <1>5, <2>3, <2>4, <3>1, <3>2, Zenon DEF TypeOK, HostSame
  <2>6. RowsMove /\ \A d \in Deliveries : RowOK(d)'
    BY <1>1, RowStays, Zenon DEF RowsMove, IInv
  <2>7. \A d : d = a.d => SettledOK(d)'
    <3>1. SettledOK(a.d)
      BY <1>3, Zenon DEF RowOK, SettledOK
    <3> QED
      BY <1>1, <3>1, HostFrame, Zenon DEF SettledOK
  <2>8. pending' \subseteq pending
    BY <1>5, Zenon
  <2> QED
    BY <1>1, <2>1, <2>3, <2>4, <2>5, <2>6, <2>7, <2>8, KernelStep, Zenon
<1> QED
  BY <1>4, <1>5 DEF take_delivery_ack

LEMMA DropRoutesStep ==
    ASSUME IInv, env' = env, NEW c \in Connections, DropRoutes(c)
    PROVE  IInv'
<1>1. /\ HostSame /\ UNCHANGED <<row, session, up, settled, minted, faults, seen>>
  BY Zenon DEF DropRoutes, HostSame
<1> PICK mine : mine = {e \in pending : e.owner = c}
  BY Zenon
<1>2. TypeOK
  BY Zenon DEF IInv
<1>3. /\ pending' = pending \ mine /\ kconn' = [kconn EXCEPT ![c] = "unrouted"]
      /\ abandoned' = [abandoned EXCEPT ![c] = {<<e.d, e.token>> : e \in mine}]
      /\ req' = [r \in Requests |->
                  IF req[r].pc = "wait" /\ \E e \in mine : e.req = r /\ e.token = req[r].token
                    THEN [req[r] EXCEPT !.pc = "abandon"] ELSE req[r]]
      /\ reader' = [reader EXCEPT ![c] = Reading]
  BY Zenon DEF DropRoutes
<1>4. ASSUME NEW r \in Requests
      PROVE  /\ req'[r] \in ReqState /\ ReqOK(r)'
             /\ req'[r].pc \in Held => /\ req[r].pc \in Held /\ req'[r].d = req[r].d
                                       /\ req'[r].token = req[r].token
  <2>1. ReqOK(r) /\ req[r] \in ReqState
    BY <1>2, Fields, Zenon DEF IInv
  <2>2. CASE req'[r] = req[r]
    <3>1. ReqOK(r)'
      BY <1>1, <2>1, <2>2, ReqStays, Zenon DEF RowsMove
    <3> QED
      BY <2>1, <2>2, <3>1, Zenon
  <2>3. CASE req[r].pc = "wait" /\ req'[r] = [req[r] EXCEPT !.pc = "abandon"]
    <3>1. "wait" \in Held /\ "abandon" \in Held
      BY Zenon DEF Held
    <3>2. /\ req'[r] \in ReqState /\ req'[r].pc = "abandon" /\ req'[r].d = req[r].d
          /\ req'[r].token = req[r].token
      BY <2>1, <2>3, <3>1, Moved
    <3>3. ReqOK(r)'
      BY <1>1, <2>1, <2>3, <3>1, <3>2, Zenon DEF ReqOK, Pending
    <3> QED
      BY <2>3, <3>1, <3>2, <3>3, Zenon
  <2> QED
    BY <1>3, <2>2, <2>3, Zenon
<1>5. Reading \in ReaderState /\ Reading.pc = "read"
  BY NoneApart, Zenon DEF Reading, ReaderState
<1>6. /\ reader' \in [Connections -> ReaderState]
      /\ \A k \in Connections : reader'[k] = reader[k] \/ reader'[k].pc = "read"
  BY <1>2, <1>3, <1>5, Zenon DEF TypeOK
<1>7. TypeOK'
  <2>1. pending' \in SUBSET PendState /\ req' \in [Requests -> ReqState]
    BY <1>2, <1>3, <1>4, Zenon DEF TypeOK
  <2>2. \A e \in mine : e.d \in Deliveries /\ e.token \in Nat
    BY <1>2, Fields, Zenon
  <2>3. {<<e.d, e.token>> : e \in mine} \in SUBSET (Deliveries \X Nat)
    BY <2>2
  <2>4. /\ abandoned' \in [Connections -> SUBSET (Deliveries \X Nat)]
        /\ kconn' \in [Connections -> {"closed", "open", "forced", "closing", "unrouted", "sweeping"}]
    BY <1>2, <1>3, <2>3, Zenon DEF TypeOK
  <2> QED
    BY <1>1, <1>2, <1>6, <2>1, <2>4, Zenon DEF TypeOK, HostSame
<1>8. RowsMove /\ \A d \in Deliveries : RowOK(d)'
  BY <1>1, RowStays, Zenon DEF RowsMove, IInv
<1>9. pending' \subseteq pending
  BY <1>3, Zenon
<1> QED
  BY <1>1, <1>4, <1>6, <1>7, <1>8, <1>9, KernelStep, Zenon

LEMMA RestartStep == ASSUME IInv, env' = env, Restart PROVE IInv'
<1>1. /\ HostSame /\ UNCHANGED <<up, settled, minted, seen>>
  BY Zenon DEF Restart, HostSame
<1>2. TypeOK
  BY Zenon DEF IInv
<1>3. /\ row' = [d \in Deliveries |-> IF Pending(d) THEN Settle(d, "indeterminate") ELSE row[d]]
      /\ req' = [r \in Requests |-> Idle] /\ pending' = {}
      /\ reader' = [c \in Connections |-> Reading]
  BY Zenon DEF Restart
<1>4. ASSUME NEW d \in Deliveries
      PROVE  /\ row'[d] \in RowState /\ RowOK(d)'
             /\ \/ row'[d] = row[d] /\ ~Pending(d)
                \/ row[d].state = "pending" /\ row'[d].state = "indeterminate"
  <2>1. CASE Pending(d)
    <3>1. row'[d] \in RowState /\ row'[d].state = "indeterminate"
      BY <1>3, <2>1, SettleFields, Zenon DEF States
    <3> QED
      BY <2>1, <3>1, Zenon DEF RowOK, Pending
  <2>2. CASE ~Pending(d)
    <3>1. row'[d] = row[d] /\ row[d] \in RowState
      BY <1>2, <1>3, <2>2, Fields, Zenon
    <3> QED
      BY <1>1, <2>2, <3>1, RowStays, Zenon DEF IInv
  <2> QED
    BY <2>1, <2>2, Zenon
<1>5. RowsMove
  BY <1>4, Zenon DEF RowsMove, Pending
<1>6. Idle \in ReqState /\ Reading \in ReaderState /\ Reading.pc = "read"
  BY NoneApart, LegalIdle, Zenon DEF Legal, Reading, ReaderState
<1>7. TypeOK'
  <2>1. /\ row' \in [Deliveries -> RowState] /\ req' \in [Requests -> ReqState]
        /\ reader' \in [Connections -> ReaderState]
    BY <1>3, <1>4, <1>6, Zenon
  <2>2. /\ pending' \in SUBSET PendState /\ session' \in Owners /\ faults' \in Nat
        /\ kconn' \in [Connections -> {"closed", "open", "forced", "closing", "unrouted", "sweeping"}]
        /\ abandoned' \in [Connections -> SUBSET (Deliveries \X Nat)]
    BY <1>2 DEF Restart, Owners, TypeOK
  <2> QED
    BY <1>1, <1>2, <2>1, <2>2, Zenon DEF TypeOK, HostSame
<1>8. \A r \in Requests : ReqOK(r)' /\ req'[r].pc \notin Held
  BY <1>3, ReqIdle, Zenon
<1>9. \A c \in Connections : reader'[c].pc = "read"
  BY <1>3, <1>6, Zenon
<1>10. pending' \subseteq pending
  BY <1>3, Zenon
<1> QED
  BY <1>1, <1>4, <1>5, <1>7, <1>8, <1>9, <1>10, KernelStep, Zenon

-----------------------------------------------------------------------------
(***************************************************************************)
(* A claim is granted, let go, and used.                                   *)
(***************************************************************************)
\* One row and one request change; the other requests do not depend on the row.
LEMMA GrantStep ==
    ASSUME IInv, HostSame, NEW r \in Requests, NEW d \in Deliveries, NEW R \in RowState, NEW q \in ReqState,
           row' = [row EXCEPT ![d] = R], req' = [req EXCEPT ![r] = q],
           UNCHANGED <<pending, session, kconn, reader, abandoned, up, settled, faults>>,
           minted' \in Nat, minted' >= minted, seen' \in Seen, seen'.told = seen.told,
           row[d].state \in {"absent", "pending"}, R.state = "pending",
           R.claim = Free => d \notin seen.dispatched,
           ReqOK(r)', Sole',
           \A p \in Requests : p # r /\ req[p].pc # "idle" /\ req[p].d = d =>
               req[p].pc \notin Held /\ row[d].state # "absent",
           q.token = Free \/ q.token > minted
    PROVE  IInv'
<1>1. TypeOK
  BY Zenon DEF IInv
<1>2. row'[d] = R /\ \A e \in Deliveries : e # d => row'[e] = row[e]
  BY <1>1, Zenon DEF TypeOK
<1>3. req'[r] = q /\ \A p \in Requests : p # r => req'[p] = req[p]
  BY <1>1, Zenon DEF TypeOK
<1>4. TypeOK'
  <2>1. row' \in [Deliveries -> RowState] /\ req' \in [Requests -> ReqState]
    BY <1>1, Zenon DEF TypeOK
  <2> QED
    BY <1>1, <2>1, Zenon DEF TypeOK, HostSame
<1>5. minted \in Nat
  BY <1>1, Zenon DEF TypeOK
<1>6. PendOK'
  <2> SUFFICES ASSUME NEW e \in pending
               PROVE  /\ e.token # Free /\ e.token <= minted'
                      /\ \A p \in Requests : req'[p].token = e.token => req'[p].d = e.d
    BY Zenon DEF PendOK
  <2>1. e.token \in Nat /\ e.token # Free /\ e.token <= minted
    BY <1>1, Fields, Zenon DEF IInv, PendOK
  <2>2. e.token <= minted'
    BY <1>5, <2>1
  <2>3. q.token # e.token
    BY <1>5, <2>1
  <2> QED
    BY <1>3, <2>1, <2>2, <2>3 DEF IInv, PendOK
<1>7. ASSUME NEW e \in Deliveries
      PROVE  RowOK(e)' /\ (row[e].state \in {"delivered", "failed"} => row'[e].state = row[e].state)
  <2>1. CASE e # d
    BY <1>2, <2>1, RowStays, Zenon DEF IInv
  <2>2. CASE e = d
    BY <1>2, <2>2, Zenon DEF RowOK, Pending, HostSame
  <2> QED
    BY <2>1, <2>2, Zenon
<1>8. \A p \in Requests : ReqOK(p)'
  <2> SUFFICES ASSUME NEW p \in Requests, p # r PROVE ReqOK(p)'
    BY Zenon
  <2>1. ReqOK(p) /\ req'[p] = req[p]
    BY <1>3, Zenon DEF IInv
  <2>2. req[p].token \in Nat
    BY <1>1, Fields, Zenon
  <2>3. req[p].token <= minted => req[p].token <= minted'
    BY <1>5, <2>2
  <2>4. CASE req[p].pc = "idle"
    BY <2>1, <2>4, Zenon DEF ReqOK, Held
  <2>5. CASE req[p].pc # "idle" /\ req[p].d = d
    BY <1>2, <2>1, <2>5, Zenon DEF ReqOK, Held
  <2>6. CASE req[p].pc # "idle" /\ req[p].d # d
    <3>1. req[p].d \in Deliveries /\ row'[req[p].d] = row[req[p].d]
      BY <1>2, <2>1, <2>6, Zenon DEF ReqOK
    <3> QED
      BY <2>1, <2>3, <3>1, Zenon DEF ReqOK, Pending, HostSame
  <2> QED
    BY <2>4, <2>5, <2>6, Zenon
<1> QED
  BY <1>4, <1>6, <1>7, <1>8, KernelCore, Zenon

LEMMA SubmitStep ==
    ASSUME IInv, env' = env, NEW r \in Requests, NEW d \in Deliveries, Submit(r, d)
    PROVE  IInv'
<1>1. TypeOK /\ row[d] \in RowState /\ RowOK(d) /\ req[r] \in ReqState /\ ReqOK(r)
  BY Fields, Zenon DEF IInv
<1>2. row[d].state = "absent" /\ req[r].pc = "idle" /\ session \in Owners
  BY <1>1, Zenon DEF Submit, TypeOK
<1> PICK R : R = [row[d] EXCEPT !.state = "pending", !.fresh = TRUE, !.gen = session]
  BY Zenon
<1> PICK q : q = [req[r] EXCEPT !.pc = "check", !.d = d]
  BY Zenon
<1>3. R \in RowState /\ R.state = "pending"
  BY <1>1, <1>2, Zenon DEF RowState, States
<1>4. q \in ReqState /\ q.pc = "check" /\ q.d = d /\ q.token = req[r].token
  BY <1>1, Zenon DEF ReqState
<1>5. row' = [row EXCEPT ![d] = R] /\ req' = [req EXCEPT ![r] = q]
  BY Zenon DEF Submit
<1>6. req'[r] = q /\ (\A p \in Requests : p # r => req'[p] = req[p]) /\ row'[d] = R
  BY <1>1, <1>5, Zenon DEF TypeOK
<1>7. HostSame /\ UNCHANGED <<pending, session, kconn, reader, abandoned, up, settled, minted, faults, seen>>
  BY Zenon DEF HostSame, Submit
<1>8. req[r].token = Free /\ d \notin seen.dispatched
  BY <1>1, <1>2, Zenon DEF ReqOK, RowOK, Held
<1>9. "check" \notin Held
  BY Zenon DEF Held
<1>10. ReqOK(r)'
  BY <1>3, <1>4, <1>6, <1>8, <1>9, Zenon DEF ReqOK
<1>11. Sole'
  <2>1. \A p \in Requests : req'[p].pc \in Held => p # r
    BY <1>4, <1>6, <1>9, Zenon
  <2> QED
    BY <1>6, <2>1 DEF Sole, IInv
<1>12. \A p \in Requests : req[p].pc # "idle" => req[p].d # d
  BY <1>2, Zenon DEF IInv, ReqOK
<1>13. minted \in Nat /\ minted' >= minted
  BY <1>1, <1>7 DEF TypeOK
<1> QED
  BY <1>1, <1>2, <1>3, <1>4, <1>5, <1>7, <1>8, <1>10, <1>11, <1>12, <1>13, GrantStep, ZenonT(30) DEF TypeOK

LEMMA ClaimStep ==
    ASSUME IInv, env' = env, NEW r \in Requests, Claim(r)
    PROVE  IInv'
<1> PICK d : d = req[r].d
  BY Zenon
<1>1. TypeOK /\ req[r] \in ReqState /\ ReqOK(r) /\ req[r].pc = "claim" /\ minted \in Nat
  BY Fields, Zenon DEF IInv, Claim, TypeOK
<1>2. d \in Deliveries /\ row[d].state = "pending" /\ row[d].claim = Free
  BY <1>1, Zenon DEF ReqOK, Claim, Pending
<1>3. row[d] \in RowState /\ d \notin seen.dispatched
  BY <1>1, <1>2, Fields, Zenon DEF IInv, RowOK, Pending
<1> PICK t \in Nat : t = minted + 1
  BY <1>1
<1>4. t > minted /\ t # Free /\ minted' = t /\ t >= minted /\ t <= t
  BY <1>1, NoneApart DEF Claim
<1> PICK R : R = [row[d] EXCEPT !.claim = t, !.live = TRUE]
  BY Zenon
<1> PICK q : q = [req[r] EXCEPT !.pc = "route", !.token = t]
  BY Zenon
<1>5. R \in RowState /\ R.state = "pending" /\ R.claim = t
  BY <1>2, <1>3, Zenon DEF RowState
<1>6. q \in ReqState /\ q.pc = "route" /\ q.d = d /\ q.token = t
  BY <1>1, Zenon DEF ReqState, Held
<1>7. row' = [row EXCEPT ![d] = R] /\ req' = [req EXCEPT ![r] = q]
  BY <1>4, Zenon DEF Claim
<1>8. req'[r] = q /\ (\A p \in Requests : p # r => req'[p] = req[p]) /\ row'[d] = R
  BY <1>1, <1>2, <1>7, Zenon DEF TypeOK
<1> PICK P : P = seen.passed \cup {e \in earlier(d) : ~row[e].live /\ ~row[e].fresh}
  BY Zenon
<1>9. seen' = [seen EXCEPT !.passed = P] /\ seen \in Seen
  BY <1>1, Zenon DEF Claim, TypeOK
<1>10. P \in SUBSET Deliveries
  BY <1>9, Zenon DEF earlier, Seen
<1>11. seen' \in Seen /\ seen'.told = seen.told /\ seen'.dispatched = seen.dispatched
  BY <1>9, <1>10, Zenon DEF Seen
<1>12. HostSame /\ UNCHANGED <<pending, session, kconn, reader, abandoned, up, settled, faults>>
  BY <1>11, Zenon DEF HostSame, Claim
<1>13. ReqOK(r)'
  BY <1>2, <1>3, <1>4, <1>5, <1>6, <1>8, <1>11, ZenonT(30) DEF ReqOK, Pending, Held
\* Whoever holds the command would hold the claim of its row.
<1>14. \A p \in Requests : p # r /\ req[p].pc \in Held => req[p].d # d /\ req[p].token # t
  <2> SUFFICES ASSUME NEW p \in Requests, req[p].pc \in Held PROVE req[p].d # d /\ req[p].token # t
    BY Zenon
  <2>1. req[p].token \in Nat /\ req[p].token # Free /\ req[p].token <= minted
    BY <1>1, Fields, Zenon DEF IInv, ReqOK
  <2>2. req[p].token # t
    BY <1>1, <2>1
  <2>3. req[p].d = d => row[d].claim = req[p].token
    BY <1>2, Zenon DEF IInv, ReqOK, Pending
  <2> QED
    BY <1>2, <2>1, <2>2, <2>3, Zenon
<1>15. Sole'
  <2> SUFFICES ASSUME NEW p \in Requests, NEW k \in Requests, p # k, req'[p].pc \in Held, req'[k].pc \in Held
               PROVE  req'[p].d # req'[k].d /\ req'[p].token # req'[k].token
    BY Zenon DEF Sole
  <2>1. CASE p = r
    <3>1. req'[p].d = d /\ req'[p].token = t /\ req'[k] = req[k]
      BY <1>6, <1>8, <2>1, Zenon
    <3>2. req[k].d # d /\ req[k].token # t
      BY <1>14, <2>1, <3>1, Zenon
    <3> QED
      BY <3>1, <3>2, Zenon
  <2>2. CASE k = r
    <3>1. req'[k].d = d /\ req'[k].token = t /\ req'[p] = req[p]
      BY <1>6, <1>8, <2>2, Zenon
    <3>2. req[p].d # d /\ req[p].token # t
      BY <1>14, <2>2, <3>1, Zenon
    <3> QED
      BY <3>1, <3>2, Zenon
  <2>3. CASE p # r /\ k # r
    BY <1>8, <2>3 DEF IInv, Sole
  <2> QED
    BY <2>1, <2>2, <2>3, Zenon
<1> QED
  BY <1>1, <1>2, <1>3, <1>4, <1>5, <1>6, <1>7, <1>11, <1>12, <1>13, <1>14, <1>15, GrantStep, Zenon

LEMMA ReleaseStep ==
    ASSUME IInv, env' = env, NEW r \in Requests, Release(r)
    PROVE  IInv'
<1> PICK d : d = req[r].d
  BY Zenon
<1>1. TypeOK /\ ReqOK(r) /\ req[r].pc = "release" /\ minted \in Nat
  BY Zenon DEF IInv, Release, TypeOK
<1>2. d \in Deliveries
  BY <1>1, Zenon DEF ReqOK
<1>3. row[d] \in RowState
  BY <1>1, <1>2, Fields, Zenon
<1>4. HostSame /\ UNCHANGED <<pending, session, kconn, reader, abandoned, up, settled, minted, faults, seen>>
  BY Zenon DEF HostSame, Release
<1>5. req' = [req EXCEPT ![r] = Idle]
  BY Zenon DEF Release
<1>6. CASE ~(Pending(d) /\ row[d].claim = req[r].token)
  <2>1. row' = [row EXCEPT ![d] = row[d]]
    BY <1>6, Zenon DEF Release
  <2>2. Lawful(d, row[d])
    BY <1>2, Unsettled, Zenon
  <2>3. /\ req' \in [Requests -> ReqState]
        /\ \A q \in Requests : req'[q] = req[q] \/ req'[q] = Idle
    BY <1>5, ToIdle, Zenon
  <2> QED
    BY <1>1, <1>2, <1>4, <2>1, <2>2, <2>3, RowStep, Zenon DEF TypeOK
<1>7. CASE Pending(d) /\ row[d].claim = req[r].token
  <2> PICK R : R = [row[d] EXCEPT !.claim = Free, !.live = FALSE]
    BY Zenon
  <2>1. R \in RowState /\ R.state = "pending" /\ row' = [row EXCEPT ![d] = R]
    BY <1>3, <1>7, NoneApart, Zenon DEF RowState, Release, Pending
  <2>2. d \notin seen.dispatched /\ row[d].state = "pending"
    BY <1>1, <1>7, Zenon DEF ReqOK, Pending
  <2>3. Idle \in ReqState /\ Idle.token = Free
    BY LegalIdle, Zenon DEF Legal, Idle
  <2>4. req'[r] = Idle /\ \A p \in Requests : p # r => req'[p] = req[p]
    BY <1>1, <1>5, Zenon DEF TypeOK
  <2>5. ReqOK(r)' /\ req'[r].pc \notin Held
    BY <2>4, ReqIdle, Zenon
  <2>6. Sole'
    <3>1. \A p \in Requests : req'[p].pc \in Held => p # r
      BY <2>5, Zenon
    <3> QED
      BY <2>4, <3>1 DEF Sole, IInv
  <2>7. \A p \in Requests : p # r /\ req[p].d = d => req[p].pc \notin Held
    BY <1>1, Zenon DEF IInv, Sole, Held
  <2>8. minted' >= minted /\ minted' \in Nat /\ seen' \in Seen
    BY <1>1, <1>4 DEF TypeOK
  <2> QED
    BY <1>2, <1>4, <1>5, <2>1, <2>2, <2>3, <2>5, <2>6, <2>7, <2>8, GrantStep, Zenon
<1> QED
  BY <1>6, <1>7, Zenon

\* The one frame of the command is on its way.
LEMMA DispatchStep ==
    ASSUME IInv, env' = env, NEW r \in Requests, Dispatch(r)
    PROVE  IInv'
<1> PICK d : d = req[r].d
  BY Zenon
<1> PICK c : c = req[r].owner
  BY Zenon
<1> PICK t : t = req[r].token
  BY Zenon
<1>1. TypeOK /\ ReqOK(r) /\ req[r].pc = "dispatch" /\ req[r] \in ReqState
  BY Fields, Zenon DEF IInv, Dispatch
<1>2. /\ d \in Deliveries /\ d \notin seen.dispatched /\ t # Free /\ t <= minted /\ t \in Nat
      /\ row[d].state # "absent" /\ (Pending(d) => row[d].claim = t)
  BY <1>1, Fields, Zenon DEF ReqOK, Held
<1>3. c \in Connections
  BY <1>1, Zenon DEF Dispatch, Live, TypeOK, Owners
<1>4. UNCHANGED <<row, session, kconn, reader, abandoned, up, settled, host, minted, faults>>
  BY Zenon DEF Dispatch
<1> PICK e : e = [d |-> d, owner |-> c, token |-> t, req |-> r]
  BY Zenon
<1>5. e \in PendState /\ e.d = d /\ e.token = t /\ pending' = pending \cup {e}
  BY <1>2, <1>3, Zenon DEF PendState, Dispatch
<1> PICK q : q = [req[r] EXCEPT !.pc = "wait"]
  BY Zenon
<1>6. q \in ReqState /\ q.pc = "wait" /\ q.d = d /\ q.token = t
  BY Moved DEF Held
<1>7. req' = [req EXCEPT ![r] = q]
  BY Zenon DEF Dispatch
<1>8. req'[r] = q /\ \A p \in Requests : p # r => req'[p] = req[p]
  BY <1>1, <1>7, Zenon DEF TypeOK
<1>9. seen' = [seen EXCEPT !.dispatched = seen.dispatched \cup {d}] /\ seen \in Seen
  BY <1>1, Zenon DEF Dispatch, TypeOK
<1>10. seen' \in Seen /\ seen'.told = seen.told /\ seen'.dispatched = seen.dispatched \cup {d}
  BY <1>2, <1>9, Zenon DEF Seen
<1>11. /\ down' \in [Connections -> Seq(Deliveries)]
       /\ \A k \in Connections : k # c => down'[k] = down[k]
       /\ down'[c] = Append(down[c], d) \/ down'[c] = down[c]
  <2> PICK D : D = IF Open(c) THEN Append(down[c], d) ELSE down[c]
    BY Zenon
  <2>1. down' = [down EXCEPT ![c] = D] /\ down[c] \in Seq(Deliveries)
    BY <1>1, <1>3, Fields, Zenon DEF Dispatch
  <2>2. D \in Seq(Deliveries)
    BY <1>2, <2>1
  <2> QED
    BY <1>1, <1>3, <2>1, <2>2, Zenon DEF TypeOK
<1>d. down[c] \in Seq(Deliveries)
  BY <1>1, <1>3, Fields, Zenon
<1> PICK N \in Nat : N = Len(down[c])
  BY <1>d
<1>12. /\ DOMAIN down[c] = 1..N /\ DOMAIN down'[c] \subseteq 1..(N + 1)
       /\ \A i \in 1..N : down'[c][i] = down[c][i]
       /\ N + 1 \in DOMAIN down'[c] => down'[c][N + 1] = d
  <2>1. down[c] \in Seq(Deliveries)
    BY <1>1, <1>3, Fields, Zenon
  <2>2. CASE down'[c] = Append(down[c], d)
    BY <1>2, <2>1, <2>2
  <2>3. CASE down'[c] = down[c]
    BY <2>1, <2>3
  <2> QED
    BY <1>11, <2>2, <2>3, Zenon
<1>13. TypeOK'
  <2>1. pending' \in SUBSET PendState /\ req' \in [Requests -> ReqState]
    BY <1>1, <1>5, <1>6, <1>7, Zenon DEF TypeOK
  <2> QED
    BY <1>1, <1>4, <1>10, <1>11, <2>1, Zenon DEF TypeOK
<1>14. Taken' = Taken
  BY <1>4, Zenon DEF Taken
<1>15. \A x : InDown(x)' => InDown(x) \/ x = d
  <2> SUFFICES ASSUME NEW k \in Connections, NEW i \in DOMAIN down'[k]
               PROVE  down'[k][i] = d \/ \E j \in DOMAIN down[k] : down[k][j] = down'[k][i]
    BY DEF InDown
  <2>1. CASE k # c
    BY <1>11, <2>1, Zenon
  <2>2. CASE k = c
    <3>1. i \in 1..N \/ i = N + 1
      BY <1>12, <2>2
    <3> QED
      BY <1>12, <2>2, <3>1, Zenon
  <2> QED
    BY <2>1, <2>2, Zenon
<1>16. \A x : Denied(x) => Denied(x)'
  BY <1>2, <1>4, <1>10, <1>14, <1>15, Zenon DEF Denied, Input
<1>17. \A x, result : Truth(x, result) => Truth(x, result)'
  BY <1>4, <1>16, Zenon DEF Truth
<1>18. \A p \in Requests : p # r /\ req[p].pc \in Held => req[p].d # d /\ req[p].token # t
  BY <1>1, Zenon DEF IInv, Sole, Held
<1>19. \A p \in Requests : ReqOK(p)'
  <2> SUFFICES ASSUME NEW p \in Requests PROVE ReqOK(p)'
    BY Zenon
  <2>1. CASE p = r
    BY <1>2, <1>4, <1>6, <1>8, <2>1, Zenon DEF ReqOK, Pending, Held
  <2>2. CASE p # r
    <3>1. ReqOK(p) /\ req'[p] = req[p]
      BY <1>8, <2>2, Zenon DEF IInv
    <3>2. req[p].pc \in Held => req[p].d # d
      BY <1>18, <2>2, Zenon
    <3> QED
      BY <1>4, <1>10, <3>1, <3>2, Zenon DEF ReqOK, Pending, Held
  <2> QED
    BY <2>1, <2>2, Zenon
<1>20. Sole'
  <2>1. "dispatch" \in Held
    BY Zenon DEF Held
  <2>2. \A p \in Requests : req'[p].pc \in Held =>
            req[p].pc \in Held /\ req'[p].d = req[p].d /\ req'[p].token = req[p].token
    BY <1>1, <1>6, <1>8, <2>1, Zenon
  <2> QED
    BY <2>2 DEF IInv, Sole
<1>21. PendOK'
  <2> SUFFICES ASSUME NEW x \in pending'
               PROVE  /\ x.token # Free /\ x.token <= minted
                      /\ \A p \in Requests : req'[p].token = x.token => req'[p].d = x.d
    BY <1>4, Zenon DEF PendOK
  <2>1. \A p \in Requests : req'[p].d = req[p].d /\ req'[p].token = req[p].token
    BY <1>6, <1>8, Zenon
  <2>2. CASE x \in pending
    BY <2>1, <2>2 DEF IInv, PendOK
  <2>3. CASE x = e
    <3>1. \A p \in Requests : req[p].token = t => req[p].pc \in Held
      BY <1>2, Zenon DEF IInv, ReqOK
    <3>2. \A p \in Requests : req[p].token = t => p = r
      BY <1>18, <3>1, Zenon
    <3> QED
      BY <1>2, <1>5, <2>1, <2>3, <3>2, Zenon
  <2> QED
    BY <1>5, <2>2, <2>3, Zenon
<1>22. \A x \in Deliveries : RowOK(x)'
  <2> SUFFICES ASSUME NEW x \in Deliveries PROVE RowOK(x)'
    BY Zenon
  <2>1. RowOK(x)
    BY Zenon DEF IInv
  <2>2. CASE x # d
    BY <1>4, <1>10, <1>16, <2>1, <2>2, Zenon DEF RowOK, Pending
  <2>3. CASE x = d
    BY <1>2, <1>4, <1>16, <2>1, <2>3, Zenon DEF RowOK, Pending
  <2> QED
    BY <2>2, <2>3, Zenon
<1>23. \A k \in Connections : UpOK(k)' /\ ReaderOK(k)' /\ \A x \in settled'[k] : SettledOK(x)'
  <2> SUFFICES ASSUME NEW k \in Connections
               PROVE  UpOK(k)' /\ ReaderOK(k)' /\ \A x \in settled[k] : SettledOK(x)'
    BY <1>4, Zenon
  <2>1. UpOK(k) /\ ReaderOK(k) /\ \A x \in settled[k] : SettledOK(x)
    BY Zenon DEF IInv
  <2>2. UpOK(k)'
    <3> SUFFICES ASSUME NEW i \in DOMAIN up[k], NEW a, a = up[k][i] PROVE Truth(a.d, a.result)'
      BY <1>4, Zenon DEF UpOK, Truth, Denied, InDown
    <3> QED
      BY <1>17, <2>1, Zenon DEF UpOK
  <2>3. ReaderOK(k)'
    <3> SUFFICES ASSUME NEW a, a = reader[k], a.pc # "read"
                 PROVE  /\ a.d \in Deliveries /\ a.result # "none" /\ Truth(a.d, a.result)'
                        /\ a.pc = "take" => row[a.d].state = IF a.result = "applied" THEN "delivered" ELSE "failed"
      BY <1>4, Zenon DEF ReaderOK, Truth, Denied, InDown
    <3> QED
      BY <1>17, <2>1, Zenon DEF ReaderOK
  <2>4. \A x \in settled[k] : SettledOK(x)'
    BY <1>4, <1>16, <2>1, Zenon DEF SettledOK
  <2> QED
    BY <2>2, <2>3, <2>4, Zenon
<1>24. HostOK' /\ EvidenceKept'
  BY <1>4, <1>10, <1>14, Zenon DEF IInv, HostOK, EvidenceKept
<1>25. DownOK'
  <2>1. \A k \in Connections : \A i \in DOMAIN down[k] : down[k][i] \in seen.dispatched /\ down[k][i] # d
    BY <1>2, Zenon DEF IInv, DownOK
  <2>2. d \notin Range(Taken)
    BY <1>2, Zenon DEF IInv, HostOK
  \* A place below is the new one, or an old one with its old frame.
  <2>3. \A k \in Connections : \A i \in DOMAIN down'[k] :
           \/ k = c /\ i = N + 1 /\ down'[k][i] = d
           \/ i \in DOMAIN down[k] /\ down'[k][i] = down[k][i]
    <3> SUFFICES ASSUME NEW k \in Connections, NEW i \in DOMAIN down'[k]
                 PROVE  \/ k = c /\ i = N + 1 /\ down'[k][i] = d
                        \/ i \in DOMAIN down[k] /\ down'[k][i] = down[k][i]
      BY Zenon
    <3>1. CASE k # c
      BY <1>11, <3>1, Zenon
    <3>2. CASE k = c
      <4>1. i \in 1..N \/ i = N + 1
        BY <1>12, <3>2
      <4> QED
        BY <1>12, <3>2, <4>1, Zenon
    <3> QED
      BY <3>1, <3>2, Zenon
  <2> SUFFICES ASSUME NEW k \in Connections, NEW i \in DOMAIN down'[k]
               PROVE  /\ down'[k][i] \in seen'.dispatched /\ down'[k][i] \notin Range(Taken)
                      /\ \A m \in Connections : \A j \in DOMAIN down'[m] :
                            down'[k][i] = down'[m][j] => k = m /\ i = j
    BY <1>14, Zenon DEF DownOK
  <2>4. down'[k][i] \in seen'.dispatched /\ down'[k][i] \notin Range(Taken)
    BY <1>10, <2>2, <2>3, Zenon DEF IInv, DownOK
  <2>5. ASSUME NEW m \in Connections, NEW j \in DOMAIN down'[m], down'[k][i] = down'[m][j]
        PROVE  k = m /\ i = j
    <3>1. CASE down'[k][i] = d
      <4>1. k = c /\ i = N + 1
        BY <2>1, <2>3, <3>1, Zenon
      <4>2. m = c /\ j = N + 1
        BY <2>1, <2>3, <2>5, <3>1, ZenonT(30)
      <4> QED
        BY <4>1, <4>2, Zenon
    <3>2. CASE down'[k][i] # d
      BY <2>3, <2>5, <3>2 DEF IInv, DownOK
    <3> QED
      BY <3>1, <3>2, Zenon
  <2> QED
    BY <2>4, <2>5, Zenon
<1>26. \A x \in seen'.told : row'[x].state = "delivered"
  BY <1>4, <1>10, Zenon DEF IInv
<1> QED
  BY <1>13, <1>19, <1>20, <1>21, <1>22, <1>23, <1>24, <1>25, <1>26, Zenon DEF IInv

-----------------------------------------------------------------------------
(***************************************************************************)
(* Steps of the host.                                                      *)
(***************************************************************************)
\* The kernel's rows and requests stay; what the host denied stays denied.
LEMMA HostStep ==
    ASSUME IInv, TypeOK', UNCHANGED <<row, req, pending, reader, minted, seen>>,
           Range(host.effects) \subseteq Range(host'.effects),
           \A d : Denied(d) => Denied(d)',
           HostOK', DownOK', EvidenceKept',
           \A c \in Connections : UpOK(c)',
           \A c \in Connections : \A d \in settled'[c] : d \in settled[c]
    PROVE  IInv'
<1>1. \A d, result : Truth(d, result) => Truth(d, result)'
  BY Zenon DEF Truth
<1>2. \A r \in Requests : ReqOK(r)'
  BY Zenon DEF IInv, ReqOK, Pending
<1>3. Sole' /\ PendOK'
  BY Zenon DEF IInv, Sole, PendOK
<1>4. \A d \in Deliveries : RowOK(d)'
  BY Zenon DEF IInv, RowOK, Pending
<1>5. \A c \in Connections : ReaderOK(c)'
  <2> SUFFICES ASSUME NEW c \in Connections, NEW a, a = reader[c], a.pc # "read"
               PROVE  /\ a.d \in Deliveries /\ a.result # "none" /\ Truth(a.d, a.result)'
                      /\ a.pc = "take" => row[a.d].state = IF a.result = "applied" THEN "delivered" ELSE "failed"
    BY Zenon DEF ReaderOK, Truth, Denied, InDown
  <2>1. ReaderOK(c)
    BY Zenon DEF IInv
  <2> QED
    BY <1>1, <2>1, Zenon DEF ReaderOK
<1>6. \A c \in Connections : \A d \in settled'[c] : SettledOK(d)'
  BY Zenon DEF IInv, SettledOK
<1> QED
  BY <1>2, <1>3, <1>4, <1>5, <1>6, Zenon DEF IInv

\* An acknowledgement in place of another keeps a connection's truthful.
LEMMA UpStays ==
    ASSUME IInv, NEW c \in Connections, up'[c] = up[c],
           Range(host.effects) \subseteq Range(host'.effects), \A d : Denied(d) => Denied(d)'
    PROVE  UpOK(c)'
<1> SUFFICES ASSUME NEW i \in DOMAIN up[c], NEW a, a = up[c][i] PROVE Truth(a.d, a.result)'
  BY Zenon DEF UpOK, Truth, Denied, InDown
<1>1. Truth(a.d, a.result)
  BY Zenon DEF IInv, UpOK
<1> QED
  BY <1>1, Zenon DEF Truth

\* The host changes connection, phase or window; nothing is taken.
LEMMA HostTurns ==
    ASSUME IInv, TypeOK', UNCHANGED <<row, req, pending, reader, minted, seen, env, up>>,
           host'.effects = host.effects, host'.queue = host.queue, host'.confirmed = host.confirmed,
           host'.delivered \subseteq host.delivered,
           host'.pc \in {"reconciling", "live"} <=> host'.conn # None,
           host'.pc # "over" => host.pc # "over",
           \A d \in host.delivered \ host'.delivered : d \in host.confirmed => row[d].state = "delivered",
           down' = down,
           \A c \in Connections : \A d \in settled'[c] : d \in settled[c]
    PROVE  IInv'
<1>1. Taken' = Taken
  BY Zenon DEF Taken
<1>2. \A d : Denied(d) => Denied(d)'
  BY <1>1, Zenon DEF Denied, InDown, Input
<1>3. HostOK'
  BY <1>1, Zenon DEF IInv, HostOK
<1>4. DownOK'
  BY <1>1 DEF IInv, DownOK
<1>5. EvidenceKept'
  BY Zenon DEF IInv, EvidenceKept
<1>6. \A c \in Connections : UpOK(c)'
  BY <1>2, UpStays, Zenon
<1> QED
  BY <1>2, <1>3, <1>4, <1>5, <1>6, HostStep, Zenon

LEMMA Concat ==
    ASSUME NEW e \in Seq(Deliveries), NEW q \in Seq(Deliveries)
    PROVE  /\ e \o q \in Seq(Deliveries) /\ Len(e) \in Nat /\ Len(q) \in Nat
           /\ DOMAIN e = 1..Len(e) /\ DOMAIN q = 1..Len(q)
           /\ DOMAIN (e \o q) = 1..(Len(e) + Len(q))
           /\ \A i \in DOMAIN e : i \in DOMAIN (e \o q) /\ (e \o q)[i] = e[i]
           /\ \A i \in DOMAIN q : Len(e) + i \in DOMAIN (e \o q) /\ (e \o q)[Len(e) + i] = q[i]
           /\ \A i \in DOMAIN (e \o q) : i \notin DOMAIN e => i - Len(e) \in DOMAIN q
<1>1. /\ e \o q \in Seq(Deliveries) /\ Len(e) \in Nat /\ Len(q) \in Nat
      /\ DOMAIN e = 1..Len(e) /\ DOMAIN q = 1..Len(q) /\ DOMAIN (e \o q) = 1..(Len(e) + Len(q))
  OBVIOUS
<1>2. ASSUME NEW i \in 1..Len(e) PROVE i \in 1..(Len(e) + Len(q)) /\ (e \o q)[i] = e[i]
  BY <1>1
<1>3. ASSUME NEW i \in 1..Len(q)
      PROVE  Len(e) + i \in 1..(Len(e) + Len(q)) /\ (e \o q)[Len(e) + i] = q[i]
  <2>1. Len(e) + i \in 1..(Len(e) + Len(q)) /\ ~(Len(e) + i <= Len(e)) /\ (Len(e) + i) - Len(e) = i
    BY <1>1
  <2> QED
    BY <1>1, <2>1
<1>4. \A i \in 1..(Len(e) + Len(q)) : i \notin 1..Len(e) => i - Len(e) \in 1..Len(q)
  BY <1>1
<1> QED
  BY <1>1, <1>2, <1>3, <1>4, Zenon

\* One more element, new to the sequence: its elements stay distinct.
LEMMA Grows ==
    ASSUME NEW T \in Seq(Deliveries), NEW d \in Deliveries, d \notin Range(T),
           \A i, j \in DOMAIN T : i # j => T[i] # T[j]
    PROVE  /\ Append(T, d) \in Seq(Deliveries) /\ Range(Append(T, d)) = Range(T) \cup {d}
           /\ \A i, j \in DOMAIN Append(T, d) : i # j => Append(T, d)[i] # Append(T, d)[j]
<1> PICK n \in Nat : n = Len(T)
  OBVIOUS
<1>0. Append(T, d) \in Seq(Deliveries)
  OBVIOUS
<1> PICK U \in Seq(Deliveries) : U = Append(T, d)
  BY <1>0, Zenon
<1>1. U \in Seq(Deliveries) /\ DOMAIN T = 1..n /\ DOMAIN U = 1..(n + 1) /\ U[n + 1] = d
  OBVIOUS
<1>2. \A i \in 1..n : U[i] = T[i] /\ i \in 1..(n + 1)
  OBVIOUS
<1>3. n + 1 \in 1..(n + 1) /\ \A i \in 1..(n + 1) : i # n + 1 => i \in 1..n
  OBVIOUS
<1>4. Range(U) = Range(T) \cup {d}
  BY <1>1, <1>2, <1>3 DEF Range
<1>5. \A i \in 1..n : T[i] # d
  BY <1>1, Zenon DEF Range
<1>6. ASSUME NEW i \in 1..(n + 1), NEW j \in 1..(n + 1), i # j PROVE U[i] # U[j]
  <2>1. CASE i = n + 1
    BY <1>1, <1>2, <1>3, <1>5, <1>6, <2>1, Zenon
  <2>2. CASE j = n + 1
    BY <1>1, <1>2, <1>3, <1>5, <1>6, <2>2, Zenon
  <2>3. CASE i # n + 1 /\ j # n + 1
    BY <1>1, <1>2, <1>3, <1>6, <2>3, Zenon
  <2> QED
    BY <2>1, <2>2, <2>3, Zenon
<1> QED
  BY <1>1, <1>4, <1>6, Zenon

\* The session's queue, one command shorter or longer.
LEMMA QueueMoves ==
    ASSUME NEW e \in Seq(Deliveries), NEW q \in Seq(Deliveries), NEW d \in Deliveries
    PROVE  /\ e \o Append(q, d) = Append(e \o q, d)
           /\ q # <<>> => Append(e, Head(q)) \o Tail(q) = e \o q
           /\ q = <<>> => Append(e, d) \o q = Append(e \o q, d)
<1>1. e \o Append(q, d) = Append(e \o q, d)
  OBVIOUS
<1>2. q # <<>> => Append(e, Head(q)) \o Tail(q) = e \o q
  OBVIOUS
<1>3. q = <<>> => Append(e, d) \o q = Append(e \o q, d)
  OBVIOUS
<1> QED
  BY <1>1, <1>2, <1>3, Zenon

\* The fields of the host's record.
LEMMA HostFields ==
    ASSUME TypeOK
    PROVE  /\ host \in HostState /\ host.pc \in {"offline", "reconciling", "live", "silent", "over"}
           /\ host.effects \in Seq(Deliveries) /\ host.queue \in Seq(Deliveries)
           /\ Taken \in Seq(Deliveries) /\ Range(host.effects) \subseteq Range(Taken)
<1>1. host \in HostState
  BY Zenon DEF TypeOK
<1>2. host.pc \in {"offline", "reconciling", "live", "silent", "over"}
  BY <1>1, Zenon DEF HostState
<1>3. host.effects \in Seq(Deliveries) /\ host.queue \in Seq(Deliveries)
  BY <1>1, Zenon DEF HostState
<1> PICK e \in Seq(Deliveries), q \in Seq(Deliveries) : e = host.effects /\ q = host.queue
  BY <1>3, Zenon
<1>4. e \o q \in Seq(Deliveries)
  OBVIOUS
<1>5. \A i \in DOMAIN e : i \in DOMAIN (e \o q) /\ (e \o q)[i] = e[i]
  BY Concat, Zenon
<1>6. Range(e) \subseteq Range(e \o q)
  BY <1>5, Zenon DEF Range
<1> QED
  BY <1>1, <1>2, <1>3, <1>4, <1>6, Zenon DEF Taken

\* settle_delivery: what the window lets go the kernel has settled.
LEMMA SettleDeliveryStep == ASSUME IInv, settle_delivery, UNCHANGED env PROVE IInv'
<1>1. TypeOK /\ host.conn \in Connections
  BY NoneApart, Fields, Zenon DEF IInv, settle_delivery, Owners
<1> PICK c \in Connections : c = host.conn
  BY <1>1, Zenon
<1> PICK d \in settled[c] : /\ host' = [host EXCEPT !.delivered = @ \ {d}]
                            /\ settled' = [settled EXCEPT ![c] = @ \ {d}]
  BY Zenon DEF settle_delivery
<1>2. UNCHANGED <<row, req, pending, session, kconn, reader, abandoned, minted, down, up, faults, seen>>
  BY Zenon DEF settle_delivery, kernel
<1>3. /\ host' \in HostState /\ host'.effects = host.effects /\ host'.queue = host.queue
      /\ host'.confirmed = host.confirmed /\ host'.delivered = host.delivered \ {d}
      /\ host'.pc = host.pc /\ host'.conn = host.conn
  BY <1>1, HostFields, Zenon DEF HostState
<1>4. /\ settled' \in [Connections -> SUBSET Deliveries]
      /\ \A k \in Connections : \A x \in settled'[k] : x \in settled[k]
  BY <1>1, Zenon DEF TypeOK
<1>5. TypeOK'
  BY <1>1, <1>2, <1>3, <1>4, Zenon DEF TypeOK
<1>6. d \in host.confirmed => row[d].state = "delivered"
  BY Zenon DEF IInv, SettledOK, Denied
<1>7. HostOK
  BY Zenon DEF IInv
<1> QED
  BY <1>2, <1>3, <1>4, <1>5, <1>6, <1>7, HostTurns, Zenon DEF HostOK

\* The host's connection ends, or its session is published.
LEMMA AttachSteps ==
    ASSUME IInv, AttachTimeout \/ publish_snapshot \/ Reconnect, UNCHANGED env PROVE IInv'
<1>1. TypeOK /\ HostOK
  BY Zenon DEF IInv
<1>2. UNCHANGED <<row, req, pending, kconn, reader, abandoned, minted, down, up, settled, seen>>
  BY Zenon DEF AttachTimeout, publish_snapshot, Reconnect, kernel
<1>3. faults' \in Nat
  BY <1>1 DEF AttachTimeout, publish_snapshot, Reconnect, TypeOK
<1>4. host.pc # "over"
  BY <1>1, Zenon DEF AttachTimeout, publish_snapshot, Reconnect, HostOK
<1>5. \/ host' = [host EXCEPT !.pc = "live"] /\ session' = host.conn /\ host.pc = "reconciling"
      \/ host' = [host EXCEPT !.conn = None, !.pc = "offline"] /\ session' = session
      \/ host' = [host EXCEPT !.conn = None, !.pc = "silent"] /\ session' = session
  BY Zenon DEF AttachTimeout, publish_snapshot, Reconnect, Offline, kernel
<1>6. /\ host' \in HostState /\ host'.effects = host.effects /\ host'.queue = host.queue
      /\ host'.confirmed = host.confirmed /\ host'.delivered = host.delivered
      /\ host'.pc \in {"reconciling", "live"} <=> host'.conn # None
      /\ session' \in Owners
  <2>1. host \in HostState /\ session \in Owners /\ None \in Owners
    BY <1>1, Zenon DEF TypeOK, Owners
  <2>2. host.pc = "reconciling" => host.conn # None /\ host.conn \in Owners
    BY <1>1, <2>1, Zenon DEF HostOK, HostState
  <2>3. CASE host' = [host EXCEPT !.pc = "live"] /\ session' = host.conn /\ host.pc = "reconciling"
    BY <2>1, <2>2, <2>3, Zenon DEF HostState
  <2>4. CASE host' = [host EXCEPT !.conn = None, !.pc = "offline"] /\ session' = session
    BY <2>1, <2>4, Zenon DEF HostState
  <2>5. CASE host' = [host EXCEPT !.conn = None, !.pc = "silent"] /\ session' = session
    BY <2>1, <2>5, Zenon DEF HostState
  <2> QED
    BY <1>5, <2>3, <2>4, <2>5, Zenon
<1>7. TypeOK'
  BY <1>1, <1>2, <1>3, <1>6, Zenon DEF TypeOK
<1> QED
  BY <1>1, <1>2, <1>4, <1>6, <1>7, HostTurns, Zenon DEF HostOK

\* SessionOver: the queue is dropped; what the session took stays.
LEMMA SessionOverStep == ASSUME IInv, SessionOver, UNCHANGED env PROVE IInv'
<1>1. TypeOK /\ HostOK
  BY Zenon DEF IInv
<1>2. UNCHANGED <<row, req, pending, session, kconn, reader, abandoned, minted, down, up, settled, seen>>
  BY Zenon DEF SessionOver, kernel
<1>3. /\ host' \in HostState /\ host'.effects = host.effects /\ host'.queue = <<>>
      /\ host'.confirmed = host.confirmed /\ host'.delivered = {}
      /\ host'.pc = "over" /\ host'.conn = None
  <2>1. host \in HostState /\ None \in Owners /\ <<>> \in Seq(Deliveries)
    BY <1>1 DEF TypeOK, Owners
  <2> QED
    BY <2>1, Zenon DEF SessionOver, HostState
<1>4. TypeOK'
  <2>1. faults' \in Nat
    BY <1>1 DEF TypeOK, SessionOver
  <2> QED
    BY <1>1, <1>2, <1>3, <2>1, Zenon DEF TypeOK
<1> PICK e \in Seq(Deliveries), q \in Seq(Deliveries) : e = host.effects /\ q = host.queue
  BY <1>1, HostFields, Zenon
<1> PICK T \in Seq(Deliveries) : T = Taken
  BY <1>1, HostFields, Zenon
<1>5. T = e \o q /\ Taken' = e
  <2>1. host'.effects \o host'.queue = e
    BY <1>3
  <2> QED
    BY <2>1, Zenon DEF Taken
<1>6. \A i \in DOMAIN e : i \in DOMAIN T /\ T[i] = e[i]
  <2>1. \A i \in DOMAIN e : i \in DOMAIN (e \o q) /\ (e \o q)[i] = e[i]
    BY Concat, ZenonT(30)
  <2> QED
    BY <1>5, <2>1, Zenon
<1>7. Range(e) \subseteq Range(T)
  BY <1>6, Zenon DEF Range
<1>8. \A d : Denied(d) => Denied(d)'
  <2> SUFFICES ASSUME NEW d, Denied(d) PROVE Denied(d)'
    BY Zenon
  <2>1. ~InDown(d)' /\ host'.confirmed = host.confirmed /\ seen' = seen /\ Input' = Input
    BY <1>2, <1>3, Zenon DEF Denied, InDown, Input
  <2>2. d \in Input => d \notin Range(Taken')
    BY <1>5, <1>7, Zenon DEF Denied
  <2> QED
    BY <2>1, <2>2, Zenon DEF Denied
<1>9. HostOK'
  <2>1. \A i, j \in DOMAIN T : i # j => T[i] # T[j]
    BY <1>1, Zenon DEF HostOK
  <2>2. \A i, j \in DOMAIN e : i # j => e[i] # e[j]
    BY <1>6, <2>1, SMTT(30)
  <2> QED
    BY <1>1, <1>2, <1>3, <1>5, <1>7, <2>2 DEF HostOK
<1>10. DownOK'
  BY <1>2, <1>5, <1>7 DEF IInv, DownOK
<1>11. \A c \in Connections : UpOK(c)'
  BY <1>2, <1>3, <1>8, UpStays, Zenon
<1>12. EvidenceKept'
  BY <1>3, Zenon DEF EvidenceKept
<1> QED
  BY <1>2, <1>3, <1>4, <1>8, <1>9, <1>10, <1>11, <1>12, HostStep, Zenon

\* A frame the host reads: dispatched once, never taken, and the last of it.
LEMMA ReceivedFacts ==
    ASSUME IInv, NEW d \in Deliveries, Received(d)
    PROVE  /\ host.conn \in Connections /\ host.pc = "live" /\ host.delivered \subseteq Range(Taken)
           /\ d \in seen.dispatched /\ d \notin Range(Taken) /\ d \notin host.delivered
           /\ down' \in [Connections -> Seq(Deliveries)]
           /\ ~InDown(d)'
           /\ InDown(d) /\ \A e : InDown(e)' => InDown(e)
           /\ \A c \in Connections : \A i \in DOMAIN down'[c] :
                /\ IF c = host.conn THEN i + 1 \in DOMAIN down[c] /\ down'[c][i] = down[c][i + 1]
                                    ELSE i \in DOMAIN down[c] /\ down'[c][i] = down[c][i]
                /\ i \in Nat /\ down'[c][i] # d
<1>1. TypeOK /\ HostOK /\ DownOK
  BY Zenon DEF IInv
<1>2. host.conn \in Connections /\ host.pc = "live"
  <2>1. host.pc = "live"
    BY Zenon DEF Received
  <2> QED
    BY <1>1, <2>1, Fields, Zenon DEF HostOK, Owners
<1> PICK h \in Connections : h = host.conn
  BY <1>2, Zenon
<1>3. /\ down[h] \in Seq(Deliveries) /\ down[h] # <<>> /\ d = Head(down[h])
      /\ down' = [down EXCEPT ![h] = Tail(@)] /\ down \in [Connections -> Seq(Deliveries)]
  BY <1>1, Fields, Zenon DEF Received, TypeOK
<1> PICK s \in Seq(Deliveries) : s = down[h]
  BY <1>3, Zenon
<1>4. /\ s # <<>> /\ d = s[1] /\ 1 \in DOMAIN s /\ DOMAIN s = 1..Len(s) /\ Len(s) \in Nat
      /\ Tail(s) \in Seq(Deliveries) /\ DOMAIN Tail(s) = 1..(Len(s) - 1)
  BY <1>3
<1>5. \A i \in 1..(Len(s) - 1) : i + 1 \in 1..Len(s) /\ Tail(s)[i] = s[i + 1] /\ i \in Nat /\ i + 1 # 1
  BY <1>4
<1>6. down' \in [Connections -> Seq(Deliveries)] /\ down'[h] = Tail(s)
      /\ \A c \in Connections : c # h => down'[c] = down[c]
  BY <1>3, <1>4, Zenon
<1>7. d \in seen.dispatched /\ d \notin Range(Taken)
  BY <1>1, <1>4, Zenon DEF DownOK
<1>8. /\ host.delivered \subseteq Range(Taken)
      /\ d \notin host.delivered
  BY <1>1, <1>7, HostFields, Zenon DEF HostOK
<1>9. ASSUME NEW c \in Connections, NEW i \in DOMAIN down'[c]
      PROVE  /\ IF c = h THEN i + 1 \in DOMAIN down[c] /\ down'[c][i] = down[c][i + 1]
                         ELSE i \in DOMAIN down[c] /\ down'[c][i] = down[c][i]
             /\ i \in Nat /\ down'[c][i] # d
  <2>0. \A j \in DOMAIN down[c] : down[c][j] = s[1] => c = h /\ j = 1
    BY <1>1, <1>4 DEF DownOK
  <2>1. CASE c = h
    <3>1. i \in 1..(Len(s) - 1)
      BY <1>4, <1>6, <2>1, Zenon
    <3>2. i + 1 \in DOMAIN down[c] /\ down'[c][i] = down[c][i + 1] /\ i \in Nat /\ i + 1 # 1
      BY <1>4, <1>5, <1>6, <2>1, <3>1, Zenon
    <3> QED
      BY <1>4, <2>0, <2>1, <3>2, Zenon
  <2>2. CASE c # h
    <3>1. down'[c] = down[c]
      BY <1>6, <2>2, Zenon
    <3>2. i \in Nat
      <4>1. down[c] \in Seq(Deliveries) /\ i \in DOMAIN down[c]
        BY <1>3, <3>1, Zenon
      <4> QED
        BY <4>1
    <3> QED
      BY <1>4, <2>0, <2>2, <3>1, <3>2, Zenon
  <2> QED
    BY <2>1, <2>2, Zenon
<1>10. ~InDown(d)' /\ InDown(d) /\ \A e : InDown(e)' => InDown(e)
  <2>1. InDown(d)
    BY <1>4, Zenon DEF InDown
  <2>2. ~InDown(d)'
    BY <1>9, Zenon DEF InDown
  <2>3. \A e : InDown(e)' => InDown(e)
    BY <1>9 DEF InDown
  <2> QED
    BY <2>1, <2>2, <2>3, Zenon
<1> QED
  BY <1>2, <1>6, <1>7, <1>8, <1>9, <1>10, Zenon

\* What the host does with a frame it read.
LEMMA ReceiveStep ==
    ASSUME IInv, NEW d \in Deliveries, Received(d), UNCHANGED <<kernel, settled, seen, env, faults>>,
           host' \in HostState, up' \in [Connections -> Seq(Acks)],
           Range(host.effects) \subseteq Range(host'.effects),
           Range(Taken') \subseteq Range(Taken) \cup {d},
           host'.confirmed \subseteq host.confirmed \cup {d},
           HostOK', EvidenceKept',
           (\A e : Denied(e) => Denied(e)') => \A c \in Connections : UpOK(c)'
    PROVE  IInv'
<1>1. UNCHANGED <<row, req, pending, session, kconn, reader, abandoned, minted, settled, seen, faults>>
  BY Zenon DEF kernel
<1>2. down' \in [Connections -> Seq(Deliveries)] /\ InDown(d) /\ \A e : InDown(e)' => InDown(e)
  BY ReceivedFacts, Zenon
<1>3. TypeOK'
  BY <1>1, <1>2, Zenon DEF IInv, TypeOK
<1>4. \A e : Denied(e) => Denied(e)'
  <2> SUFFICES ASSUME NEW e, Denied(e) PROVE Denied(e)'
    BY Zenon
  <2>1. e # d /\ ~InDown(e)'
    BY <1>2, Zenon DEF Denied
  <2> QED
    BY <1>1, <2>1, Zenon DEF Denied, Input
<1>5. DownOK'
  <2> SUFFICES ASSUME NEW c \in Connections, NEW i \in DOMAIN down'[c]
               PROVE  /\ down'[c][i] \in seen.dispatched /\ down'[c][i] \notin Range(Taken')
                      /\ \A k \in Connections : \A j \in DOMAIN down'[k] :
                            down'[c][i] = down'[k][j] => c = k /\ i = j
    BY <1>1, Zenon DEF DownOK
  <2> DEFINE at(k, j) == IF k = host.conn THEN j + 1 ELSE j
  <2>1. \A k \in Connections : \A j \in DOMAIN down'[k] :
            /\ at(k, j) \in DOMAIN down[k] /\ down'[k][j] = down[k][at(k, j)] /\ j \in Nat
            /\ down'[k][j] # d
    BY ReceivedFacts, SMTT(30)
  <2>2. \A k \in Connections : \A j \in DOMAIN down[k] :
            /\ down[k][j] \in seen.dispatched /\ down[k][j] \notin Range(Taken)
            /\ down[c][at(c, i)] = down[k][j] => c = k /\ at(c, i) = j
    BY <2>1 DEF IInv, DownOK
  <2>3. \A j \in Nat : at(c, i) = at(c, j) => i = j
    BY <2>1
  <2> HIDE DEF at
  <2>4. \A k \in Connections : \A j \in DOMAIN down'[k] : down'[c][i] = down'[k][j] => c = k /\ i = j
    BY <2>1, <2>2, <2>3
  <2> QED
    BY <2>1, <2>2, <2>4
<1> QED
  BY <1>1, <1>3, <1>4, <1>5, HostStep, Zenon

\* An acknowledgement that is true joins those under way.
LEMMA AcknowledgeUp ==
    ASSUME IInv, NEW d \in Deliveries, NEW result \in {"applied", "refused"}, host.conn \in Connections,
           Acknowledge(d, result), Range(host.effects) \subseteq Range(host'.effects)
    PROVE  /\ up' \in [Connections -> Seq(Acks)]
           /\ Truth(d, result)' /\ (\A e : Denied(e) => Denied(e)') => \A c \in Connections : UpOK(c)'
<1> PICK h \in Connections, a \in Acks : h = host.conn /\ a = [d |-> d, result |-> result]
  BY Zenon DEF Acks
<1>1. TypeOK /\ up' = [up EXCEPT ![h] = Append(@, a)] /\ a.d = d /\ a.result = result
  BY Zenon DEF IInv, Acknowledge
<1> PICK s \in Seq(Acks) : s = up[h]
  BY <1>1, Fields, Zenon
<1>2. /\ Append(s, a) \in Seq(Acks) /\ Len(s) \in Nat /\ DOMAIN s = 1..Len(s)
      /\ DOMAIN Append(s, a) = 1..(Len(s) + 1) /\ Append(s, a)[Len(s) + 1] = a
      /\ \A i \in 1..Len(s) : Append(s, a)[i] = s[i]
      /\ \A i \in 1..(Len(s) + 1) : i # Len(s) + 1 => i \in 1..Len(s)
  OBVIOUS
<1>3. up' \in [Connections -> Seq(Acks)]
  BY <1>1, <1>2, Zenon DEF TypeOK
<1>4. up'[h] = Append(s, a) /\ \A c \in Connections : c # h => up'[c] = up[c]
  BY <1>1, Zenon DEF TypeOK
<1>5. ASSUME Truth(d, result)', \A e : Denied(e) => Denied(e)', NEW c \in Connections PROVE UpOK(c)'
  <2>1. CASE c # h
    BY <1>4, <1>5, <2>1, UpStays, Zenon
  <2>2. CASE c = h
    <3> SUFFICES ASSUME NEW i \in 1..(Len(s) + 1), NEW b, b = Append(s, a)[i] PROVE Truth(b.d, b.result)'
      BY <1>2, <1>4, <2>2, Zenon DEF UpOK, Truth, Denied, InDown
    <3>1. CASE i = Len(s) + 1
      BY <1>1, <1>2, <1>5, <3>1, Zenon
    <3>2. CASE i # Len(s) + 1
      <4>1. i \in DOMAIN up[c] /\ b = up[c][i]
        BY <1>2, <2>2, <3>2, Zenon
      <4>2. Truth(b.d, b.result)
        BY <4>1, Zenon DEF IInv, UpOK
      <4> QED
        BY <1>5, <4>2, Zenon DEF Truth
    <3> QED
      BY <3>1, <3>2, Zenon
  <2> QED
    BY <2>1, <2>2, Zenon
<1> QED
  BY <1>3, <1>5, Zenon

\* apply_once: a new command takes effect, is remembered and acknowledged.
LEMMA ApplyStep == ASSUME IInv, NEW d \in Deliveries, apply_once(d), UNCHANGED env PROVE IInv'
<1>1. Received(d) /\ Acknowledge(d, "applied") /\ UNCHANGED <<kernel, settled, faults, seen>>
  BY Zenon DEF apply_once
<1>2. /\ host.conn \in Connections /\ host.pc = "live" /\ d \notin host.delivered
      /\ d \in seen.dispatched /\ d \notin Range(Taken)
  BY <1>1, ReceivedFacts, Zenon
<1>3. TypeOK /\ HostOK /\ host \in HostState
  BY HostFields, Zenon DEF IInv
<1> PICK e \in Seq(Deliveries) : e = host.effects
  BY <1>3, HostFields, Zenon
<1>4. host.queue = <<>>
  BY <1>2, Zenon DEF apply_once
<1>5. host' = [host EXCEPT !.effects = Append(e, d), !.delivered = @ \cup {d}, !.confirmed = @ \cup {d}]
  BY <1>2, Zenon DEF apply_once, Took
<1>6. Append(e, d) \in Seq(Deliveries)
  OBVIOUS
<1>7. /\ host' \in HostState /\ host'.effects = Append(e, d) /\ host'.queue = <<>>
      /\ host'.delivered = host.delivered \cup {d} /\ host'.confirmed = host.confirmed \cup {d}
      /\ host'.pc = "live" /\ host'.conn = host.conn
  BY <1>2, <1>3, <1>4, <1>5, <1>6, Zenon DEF HostState
<1>8. Taken = e /\ Taken' = Append(e, d)
  <2>1. host.effects \o host.queue = e
    BY <1>4
  <2>2. host'.effects \o host'.queue = Append(e, d)
    BY <1>6, <1>7
  <2> QED
    BY <2>1, <2>2, Zenon DEF Taken
<1>9. /\ d \notin Range(e)
      /\ \A i, j \in DOMAIN e : i # j => e[i] # e[j]
  BY <1>2, <1>3, <1>8, Zenon DEF HostOK
<1>10. /\ Range(Append(e, d)) = Range(e) \cup {d}
       /\ \A i, j \in DOMAIN Append(e, d) : i # j => Append(e, d)[i] # Append(e, d)[j]
  BY <1>9, Grows, Zenon
<1> PICK U : U = Append(e, d)
  BY Zenon
<1>11. HostOK'
  <2>1. /\ \A i, j \in DOMAIN U : i # j => U[i] # U[j]
        /\ Range(U) = Range(e) \cup {d} /\ Taken' = U /\ host'.effects = U
    BY <1>7, <1>8, <1>10
  <2> QED
    BY <1>1, <1>2, <1>3, <1>7, <1>8, <2>1, Zenon DEF HostOK
<1>12. EvidenceKept'
  <2>1. row' = row /\ EvidenceKept
    BY <1>1, Zenon DEF kernel, IInv
  <2> QED
    BY <1>2, <1>7, <2>1, Zenon DEF EvidenceKept
<1>13. Truth(d, "applied")'
  BY <1>7, <1>10, Zenon DEF Truth
<1> QED
  BY <1>1, <1>2, <1>7, <1>8, <1>10, <1>11, <1>12, <1>13, AcknowledgeUp, ReceiveStep, Zenon

\* Refuse: the one frame is spent and nothing was taken.
LEMMA RefuseStep == ASSUME IInv, NEW d \in Deliveries, Refuse(d), UNCHANGED env PROVE IInv'
<1>1. Received(d) /\ Acknowledge(d, "refused") /\ UNCHANGED <<kernel, settled, host, faults, seen>>
  BY Zenon DEF Refuse
<1>2. /\ host.conn \in Connections /\ d \in seen.dispatched /\ d \notin Range(Taken) /\ ~InDown(d)'
  BY <1>1, ReceivedFacts, Zenon
<1>3. TypeOK /\ HostOK /\ host' \in HostState
  BY <1>1, HostFields, Zenon DEF IInv
<1>4. Taken' = Taken
  BY <1>1, Zenon DEF Taken
<1>5. HostOK' /\ EvidenceKept'
  BY <1>1, <1>4, Zenon DEF HostOK, EvidenceKept, IInv, kernel
<1>6. d \notin host.confirmed
  BY <1>2, <1>3, HostFields, Zenon DEF HostOK
<1>7. Truth(d, "refused")'
  BY <1>1, <1>2, <1>4, <1>6, Zenon DEF Truth, Denied
<1> QED
  BY <1>1, <1>2, <1>3, <1>4, <1>5, <1>7, AcknowledgeUp, ReceiveStep, Zenon

\* A command queued without an answer will be taken, once.
LEMMA QueuedSteps ==
    ASSUME IInv, NEW d \in Deliveries, ApplicationIndeterminate(d) \/ ControlTimeout(d), UNCHANGED env
    PROVE  IInv'
<1>1. Received(d) /\ UNCHANGED <<kernel, settled, faults, seen>>
  BY Zenon DEF ApplicationIndeterminate, ControlTimeout
<1>2. /\ host.conn \in Connections /\ host.pc = "live" /\ d \in seen.dispatched /\ d \notin Range(Taken)
      /\ ~InDown(d)'
  BY <1>1, ReceivedFacts, Zenon
<1>3. TypeOK /\ HostOK /\ host \in HostState
  BY HostFields, Zenon DEF IInv
<1> PICK e \in Seq(Deliveries), q \in Seq(Deliveries) : e = host.effects /\ q = host.queue
  BY <1>3, HostFields, Zenon
<1>4. Append(q, d) \in Seq(Deliveries) /\ None \in Owners
  BY DEF Owners
<1>5. /\ host' \in HostState /\ host'.effects = e /\ host'.queue = Append(q, d)
      /\ host'.delivered = host.delivered /\ host'.confirmed = host.confirmed /\ host'.pc # "over"
      /\ host'.pc \in {"reconciling", "live"} <=> host'.conn # None
  <2>1. CASE ApplicationIndeterminate(d)
    <3>1. host' = [host EXCEPT !.conn = None, !.pc = "offline", !.queue = Append(q, d)]
      BY <2>1, Zenon DEF ApplicationIndeterminate, Offline
    <3> QED
      BY <1>3, <1>4, <3>1, Zenon DEF HostState
  <2>2. CASE ControlTimeout(d)
    <3>1. host' = [host EXCEPT !.queue = Append(q, d)]
      BY <2>2, Zenon DEF ControlTimeout
    <3>2. host.pc \in {"reconciling", "live"} <=> host.conn # None
      BY <1>3, Zenon DEF HostOK
    <3> QED
      BY <1>2, <1>3, <1>4, <3>1, <3>2, Zenon DEF HostState
  <2> QED
    BY <2>1, <2>2, Zenon
<1> PICK T \in Seq(Deliveries) : T = Taken
  BY <1>3, HostFields, Zenon
<1>6. T = e \o q /\ Taken' = Append(T, d)
  <2>1. e \o Append(q, d) = Append(e \o q, d)
    BY QueueMoves, Zenon
  <2> QED
    BY <1>5, <2>1, Zenon DEF Taken
<1>7. d \notin Range(T) /\ \A i, j \in DOMAIN T : i # j => T[i] # T[j]
  BY <1>2, <1>3, Zenon DEF HostOK
<1>8. /\ Range(Append(T, d)) = Range(T) \cup {d}
      /\ \A i, j \in DOMAIN Append(T, d) : i # j => Append(T, d)[i] # Append(T, d)[j]
  BY <1>7, Grows, Zenon
<1> PICK U : U = Append(T, d)
  BY Zenon
<1>9. HostOK'
  <2>1. /\ \A i, j \in DOMAIN U : i # j => U[i] # U[j]
        /\ Range(U) = Range(T) \cup {d} /\ Taken' = U
    BY <1>6, <1>8, Zenon
  <2>2. seen' = seen
    BY <1>1, Zenon
  <2> QED
    BY <1>2, <1>3, <1>5, <2>1, <2>2, SMTT(30) DEF HostOK
<1>10. EvidenceKept'
  <2>1. row' = row /\ EvidenceKept
    BY <1>1, Zenon DEF kernel, IInv
  <2> QED
    BY <1>2, <1>5, <2>1, Zenon DEF EvidenceKept
<1>11. CASE ApplicationIndeterminate(d)
  <2>1. up' = up
    BY <1>11, Zenon DEF ApplicationIndeterminate
  <2>2. (\A x : Denied(x) => Denied(x)') => \A c \in Connections : UpOK(c)'
    BY <1>5, <2>1, UpStays, Zenon
  <2>3. up' \in [Connections -> Seq(Acks)]
    BY <1>3, <2>1, Zenon DEF TypeOK
  <2> QED
    BY <1>1, <1>5, <1>6, <1>8, <1>9, <1>10, <2>2, <2>3, ReceiveStep, Zenon
<1>12. CASE ControlTimeout(d)
  <2>1. Acknowledge(d, "refused") /\ d \notin Input
    BY <1>12, Zenon DEF ControlTimeout
  <2>2. d \notin host.confirmed
    BY <1>2, <1>3, HostFields, Zenon DEF HostOK
  <2>3. Truth(d, "refused")'
    BY <1>1, <1>2, <1>5, <2>1, <2>2, Zenon DEF Truth, Denied, Input
  <2> QED
    BY <1>1, <1>2, <1>5, <1>6, <1>8, <1>9, <1>10, <2>1, <2>3, AcknowledgeUp, ReceiveStep, ZenonT(30)
<1> QED
  BY <1>11, <1>12, Zenon

\* TakeQueued: what waited in the session's queue takes effect.
LEMMA TakeQueuedStep == ASSUME IInv, TakeQueued, UNCHANGED env PROVE IInv'
<1>1. TypeOK /\ HostOK /\ host \in HostState
  BY HostFields, Zenon DEF IInv
<1>2. UNCHANGED <<row, req, pending, session, kconn, reader, abandoned, minted, down, up, settled, seen,
                  faults>>
  BY Zenon DEF TakeQueued, kernel
<1> PICK e \in Seq(Deliveries), q \in Seq(Deliveries) : e = host.effects /\ q = host.queue
  BY <1>1, HostFields, Zenon
<1>3. q # <<>> /\ host' = [host EXCEPT !.effects = Append(e, Head(q)), !.queue = Tail(q)]
  BY Zenon DEF TakeQueued, Took
<1> PICK d \in Deliveries : d = Head(q)
  BY <1>3
<1>4. Append(e, d) \in Seq(Deliveries) /\ Tail(q) \in Seq(Deliveries)
  BY <1>3
<1>5. /\ host' \in HostState /\ host'.effects = Append(e, d) /\ host'.queue = Tail(q)
      /\ host'.delivered = host.delivered /\ host'.confirmed = host.confirmed
      /\ host'.pc = host.pc /\ host'.conn = host.conn
  BY <1>1, <1>3, <1>4, Zenon DEF HostState
<1>6. TypeOK'
  BY <1>1, <1>2, <1>5, Zenon DEF TypeOK
<1>7. Taken' = Taken
  <2>1. Append(e, d) \o Tail(q) = e \o q
    BY <1>3, QueueMoves, Zenon
  <2> QED
    BY <1>5, <2>1, Zenon DEF Taken
<1>8. Range(e) \subseteq Range(Append(e, d))
  <2>1. \A i \in DOMAIN e : i \in DOMAIN Append(e, d) /\ Append(e, d)[i] = e[i]
    <3>1. /\ Len(e) \in Nat /\ DOMAIN e = 1..Len(e) /\ DOMAIN Append(e, d) = 1..(Len(e) + 1)
          /\ \A i \in 1..Len(e) : i \in 1..(Len(e) + 1) /\ Append(e, d)[i] = e[i]
      OBVIOUS
    <3> QED
      BY <3>1, Zenon
  <2> QED
    BY <2>1, Zenon DEF Range
<1>9. \A x : Denied(x) => Denied(x)'
  BY <1>2, <1>5, <1>7, Zenon DEF Denied, InDown, Input
<1>10. HostOK' /\ DownOK' /\ EvidenceKept'
  <2>1. host.delivered \subseteq Range(host'.effects) /\ host.confirmed \subseteq Range(host'.effects)
    BY <1>1, <1>5, <1>8, Zenon DEF HostOK
  <2>2. HostOK'
    BY <1>1, <1>2, <1>5, <1>7, <2>1, ZenonT(30) DEF HostOK
  <2>3. DownOK' /\ EvidenceKept'
    BY <1>2, <1>5, <1>7, SMTT(30) DEF IInv, DownOK, EvidenceKept
  <2> QED
    BY <2>2, <2>3, Zenon
<1>11. \A c \in Connections : UpOK(c)'
  BY <1>2, <1>5, <1>8, <1>9, UpStays, Zenon
<1> QED
  BY <1>2, <1>5, <1>6, <1>8, <1>9, <1>10, <1>11, HostStep, Zenon

\* Connect: a new connection carries the window again, nothing else.
LEMMA ConnectStep == ASSUME IInv, NEW c \in Connections, Connect(c), UNCHANGED env PROVE IInv'
<1>1. TypeOK /\ HostOK /\ host \in HostState /\ host.pc = "offline"
  BY HostFields, Zenon DEF IInv, Connect
<1>2. UNCHANGED <<row, req, pending, session, reader, abandoned, minted, faults, seen>>
  BY Zenon DEF Connect
<1>3. /\ host' \in HostState /\ host'.effects = host.effects /\ host'.queue = host.queue
      /\ host'.confirmed = host.confirmed /\ host'.delivered = host.delivered
      /\ host'.pc = "reconciling" /\ host'.conn = c /\ c # None
  <2>1. host' = [host EXCEPT !.conn = c, !.pc = "reconciling"] /\ c \in Owners /\ c # None
    BY NoneApart, Zenon DEF Connect, Owners
  <2> QED
    BY <1>1, <2>1, Zenon DEF HostState
<1> PICK q \in ids : up' = [up EXCEPT ![c] = [i \in DOMAIN q |-> [d |-> q[i], result |-> "applied"]]]
  BY Zenon DEF Connect
<1>4. PICK n \in 0..DELIVERED_COMMANDS : q \in [1..n -> host.delivered]
  BY Zenon DEF ids
<1>5. n \in Nat
  BY DeliveryAssumption
<1>6. \A i \in 1..n : q[i] \in Deliveries /\ q[i] \in Range(host.effects)
  <2>1. host.delivered \subseteq Deliveries /\ host.delivered \subseteq Range(host.effects)
    BY <1>1, Fields, Zenon DEF HostOK
  <2> QED
    BY <1>4, <2>1, Zenon
<1> PICK u : u = [i \in 1..n |-> [d |-> q[i], result |-> "applied"]]
  BY Zenon
<1>7. u \in Seq(Acks) /\ DOMAIN u = 1..n
  <2>1. \A i \in 1..n : [d |-> q[i], result |-> "applied"] \in Acks
    BY <1>6, Zenon DEF Acks
  <2>2. u \in [1..n -> Acks]
    BY <2>1, Zenon
  <2> QED
    BY <1>5, <2>2
<1>8. \A i \in 1..n : u[i].d \in Range(host.effects) /\ u[i].result = "applied"
  BY <1>6, Zenon
<1>9. /\ up' \in [Connections -> Seq(Acks)] /\ up'[c] = u
      /\ \A k \in Connections : k # c => up'[k] = up[k]
  <2>1. DOMAIN q = 1..n
    BY <1>4, Zenon
  <2>2. up' = [up EXCEPT ![c] = u] /\ up \in [Connections -> Seq(Acks)]
    BY <1>1, <2>1, Zenon DEF TypeOK
  <2> QED
    BY <1>7, <2>2, Zenon
<1>10. /\ down' \in [Connections -> Seq(Deliveries)] /\ down'[c] = <<>>
       /\ \A k \in Connections : k # c => down'[k] = down[k]
  BY <1>1 DEF Connect, TypeOK
<1>11. /\ settled' \in [Connections -> SUBSET Deliveries] /\ settled'[c] = {}
       /\ \A k \in Connections : k # c => settled'[k] = settled[k]
  BY <1>1, Zenon DEF Connect, TypeOK
<1>12. TypeOK'
  <2>1. kconn' \in [Connections -> {"closed", "open", "forced", "closing", "unrouted", "sweeping"}]
    BY <1>1, Zenon DEF Connect, TypeOK
  <2> QED
    BY <1>1, <1>2, <1>3, <1>9, <1>10, <1>11, <2>1, Zenon DEF TypeOK
<1>13. Taken' = Taken
  BY <1>3, Zenon DEF Taken
<1>14. \A k \in Connections : \A i \in DOMAIN down'[k] : i \in DOMAIN down[k] /\ down'[k][i] = down[k][i]
  <2>1. DOMAIN <<>> = {}
    OBVIOUS
  <2> QED
    BY <1>10, <2>1, Zenon
<1>15. \A x : Denied(x) => Denied(x)'
  <2>1. \A x : InDown(x)' => InDown(x)
    BY <1>14, Zenon DEF InDown
  <2> QED
    BY <1>2, <1>3, <1>13, <2>1, Zenon DEF Denied, Input
<1>16. HostOK'
  BY <1>1, <1>2, <1>3, <1>13, Zenon DEF HostOK
<1>17. DownOK'
  <2>1. DownOK
    BY Zenon DEF IInv
  <2> QED
    BY <1>2, <1>13, <1>14, <2>1, SMTT(30) DEF DownOK
<1>18. EvidenceKept'
  BY <1>1, <1>2, <1>3, Zenon DEF IInv, EvidenceKept
<1>19. \A k \in Connections : UpOK(k)'
  <2> SUFFICES ASSUME NEW k \in Connections PROVE UpOK(k)'
    BY Zenon
  <2>1. CASE k # c
    BY <1>3, <1>9, <1>15, <2>1, UpStays, Zenon
  <2>2. CASE k = c
    BY <1>3, <1>7, <1>8, <1>9, <2>2, Zenon DEF UpOK, Truth
  <2> QED
    BY <2>1, <2>2, Zenon
<1>20. \A k \in Connections : \A x \in settled'[k] : x \in settled[k]
  BY <1>11, Zenon
<1> QED
  BY <1>2, <1>3, <1>12, <1>15, <1>16, <1>17, <1>18, <1>19, <1>20, HostStep, ZenonT(30)

-----------------------------------------------------------------------------
\* Every step of the kernel, the hub, the host and time keeps the invariant.
LEMMA StepIInv == IInv /\ [Next /\ UNCHANGED env]_<<vars, env>> => IInv'
<1> SUFFICES ASSUME IInv, [Next /\ UNCHANGED env]_<<vars, env>> PROVE IInv'
  BY Zenon
<1>0. CASE UNCHANGED <<vars, env>>
  <2>1. /\ UNCHANGED <<row, req, pending, session, kconn, reader, abandoned, down, up, settled>>
        /\ UNCHANGED <<host, minted, faults, seen, env>>
    BY <1>0, Zenon DEF vars
  <2>2. TypeOK'
    BY <2>1, Zenon DEF IInv, TypeOK
  <2>3. \A d : Denied(d) => Denied(d)'
    BY <2>1, Zenon DEF Denied, InDown, Taken, Input
  <2>4. HostOK' /\ DownOK' /\ EvidenceKept'
    <3>1. Taken' = Taken
      BY <2>1, Zenon DEF Taken
    <3>2. HostOK'
      BY <2>1, <3>1, Zenon DEF IInv, HostOK
    <3>3. DownOK'
      BY <2>1, <3>1, SMTT(30) DEF IInv, DownOK
    <3>4. EvidenceKept'
      BY <2>1, Zenon DEF IInv, EvidenceKept
    <3> QED
      BY <3>2, <3>3, <3>4, Zenon
  <2>5. \A c \in Connections : UpOK(c)'
    BY <2>1, <2>3, UpStays, Zenon
  <2> QED
    BY <2>1, <2>2, <2>3, <2>4, <2>5, HostStep, Zenon
<1>1. ASSUME Next, env' = env PROVE IInv'
  <2>1. ASSUME NEW r \in Requests, Attempt(r) \/ ClientLeaves(r) PROVE IInv'
    BY <1>1, <2>1, CheckStep, ClaimRefusedStep, QuarantineStep, ClaimStep, RouteSteps, DispatchStep,
       AcknowledgedStep, LeavingSteps, ReleaseStep, AbandonStep, ZenonT(30) DEF Attempt
  <2>2. ASSUME NEW r \in Requests, NEW d \in Deliveries, Submit(r, d) \/ Retry(r, d) PROVE IInv'
    BY <1>1, <2>2, SubmitStep, RetryStep, Zenon
  <2>3. ASSUME NEW c \in Connections, Serve(c) \/ Hangup(c) \/ Connect(c) PROVE IInv'
    BY <1>1, <2>3, AckClaimStep, SettleStep, TakeStep, ReconcileStep, DropRoutesStep, EndSteps, SweepStep,
       ConnectStep, Zenon DEF Serve
  <2>4. ASSUME NEW d \in Deliveries, HostTakes(d) \/ ClaimExpires(d) \/ AppendAges(d) PROVE IInv'
    BY <1>1, <2>4, ApplyStep, RefuseStep, QueuedSteps, ClockSteps, Zenon DEF HostTakes
  <2>5. CASE settle_delivery \/ AttachTimeout \/ publish_snapshot \/ TakeQueued \/ Reconnect \/ SessionOver
    BY <1>1, <2>5, SettleDeliveryStep, AttachSteps, TakeQueuedStep, SessionOverStep, Zenon
  <2>6. CASE Restart
    BY <1>1, <2>6, RestartStep, Zenon
  <2> QED
    BY <1>1, <2>1, <2>2, <2>3, <2>4, <2>5, <2>6, Zenon DEF Next
<1> QED
  BY <1>0, <1>1, Zenon

\* The session takes a command at most once: for any number of requests,
\* retries, expired claims, hangups, failed sweeps, reconnections and restarts,
\* no delivery is twice in what serve.rs, pty.rs and registry.rs made it take.
THEOREM AppliedOnce == Spec => []AppliedAtMostOnce
<1>1. IInv => AppliedAtMostOnce
  <2> SUFFICES ASSUME IInv PROVE AppliedAtMostOnce
    BY Zenon
  <2> PICK e \in Seq(Deliveries), q \in Seq(Deliveries) : e = host.effects /\ q = host.queue
    BY HostFields, Zenon DEF IInv
  <2>1. \A i \in DOMAIN e : i \in DOMAIN (e \o q) /\ (e \o q)[i] = e[i]
    BY Concat, Zenon
  <2> PICK T \in Seq(Deliveries) : T = Taken
    BY HostFields, Zenon DEF IInv
  <2>2. \A i, j \in DOMAIN T : i # j => T[i] # T[j]
    BY Zenon DEF IInv, HostOK
  <2>3. \A i \in DOMAIN e : i \in DOMAIN T /\ T[i] = e[i]
    <3>1. T = e \o q
      BY Zenon DEF Taken
    <3> QED
      BY <2>1, <3>1, Zenon
  <2>4. DOMAIN e = 1..Len(e)
    OBVIOUS
  <2>5. ASSUME NEW i \in 1..Len(e), NEW j \in 1..Len(e), i # j PROVE e[i] # e[j]
    <3>1. i \in DOMAIN T /\ T[i] = e[i] /\ j \in DOMAIN T /\ T[j] = e[j]
      BY <2>3, <2>4, Zenon
    <3> QED
      BY <2>2, <2>5, <3>1, Zenon
  <2> QED
    BY <2>5, Zenon DEF AppliedAtMostOnce
<1> QED
  BY <1>1, InitIInv, StepIInv, PTL DEF Spec

\* The rows and the answers tell the truth: a row is delivered only after the
\* session took the command, input a row calls failed never reaches it, a
\* client told "applied" has its row, and a claim that settle and release let
\* go has nothing dispatched under it.
THEOREM AnswersTrue == Spec => []AnswersAreTrue
<1>1. IInv => AnswersAreTrue
  <2> SUFFICES ASSUME IInv PROVE AnswersAreTrue
    BY Zenon
  <2>1. ASSUME NEW d \in Deliveries
        PROVE  /\ row[d].state = "delivered" => d \in Range(host.effects)
               /\ d \in Input /\ row[d].state = "failed" => d \notin Range(Taken)
               /\ Pending(d) /\ row[d].claim = Free => d \notin seen.dispatched
    <3>1. RowOK(d)
      BY Zenon DEF IInv
    <3> QED
      BY <3>1, Zenon DEF RowOK, Denied
  <2>2. \A d \in seen.told : row[d].state = "delivered"
    BY Zenon DEF IInv
  <2> QED
    BY <2>1, <2>2, Zenon DEF AnswersAreTrue, Taken
<1> QED
  BY <1>1, InitIInv, StepIInv, PTL DEF Spec

\* What the session confirmed is in the host's window or in the row: apply_once
\* never evicts, and settle_delivery forgets only what the kernel settled.
THEOREM EvidenceSurvives == Spec => []EvidenceKept
<1>1. IInv => EvidenceKept
  BY Zenon DEF IInv
<1> QED
  BY <1>1, InitIInv, StepIInv, PTL DEF Spec

-----------------------------------------------------------------------------
Settled == {"delivered", "failed", "indeterminate"}

\* The step SettledIsFinal allows a row.
Final(d) ==
    row[d].state \in Settled /\ row'[d].state # row[d].state
      => row[d].state = "indeterminate" /\ row'[d].state = "delivered"

\* Only d's row is written.
LEMMA FinalRow ==
    ASSUME IInv, NEW d \in Deliveries, NEW R, row' = [row EXCEPT ![d] = R],
           row[d].state \in Settled /\ R.state # row[d].state
             => row[d].state = "indeterminate" /\ R.state = "delivered"
    PROVE  \A e \in Deliveries : Final(e)
<1>1. row'[d] = R /\ \A e \in Deliveries : e # d => row'[e] = row[e]
  BY Zenon DEF IInv, TypeOK
<1> QED
  BY <1>1, Zenon DEF Final

LEMMA FinalAbandon ==
    ASSUME IInv, NEW d \in Deliveries, NEW token, row' = abandon_pty_delivery(d, token)
    PROVE  \A e \in Deliveries : Final(e)
<1> PICK R : R = IF Pending(d) /\ row[d].claim = token THEN Settle(d, "indeterminate") ELSE row[d]
  BY Zenon
<1>1. row' = [row EXCEPT ![d] = R]
  BY Zenon DEF abandon_pty_delivery
<1>2. row[d].state \in Settled => R = row[d]
  BY Zenon DEF Settled, Pending
<1> QED
  BY <1>1, <1>2, FinalRow, Zenon

\* The requests' statements write only rows that are pending.
LEMMA FinalRequest ==
    ASSUME IInv, NEW r \in Requests, Attempt(r) \/ ClientLeaves(r)
    PROVE  \A e \in Deliveries : Final(e)
<1>1. ReqOK(r) /\ TypeOK
  BY Zenon DEF IInv
<1> PICK d : d = req[r].d
  BY Zenon
<1>2. CASE row' = row
  BY <1>2, Zenon DEF Final
<1>3. CASE QuarantineExpired(r)
  <2>1. d \in Deliveries /\ Pending(d) /\ row' = [row EXCEPT ![d] = Settle(d, "indeterminate")]
    BY <1>1, <1>3, Zenon DEF QuarantineExpired, ReqOK
  <2>2. row[d].state \notin Settled
    BY <2>1, Zenon DEF Pending, Settled
  <2> QED
    BY <2>1, <2>2, FinalRow, Zenon
<1>4. CASE Claim(r)
  <2> PICK R : R = [row[d] EXCEPT !.claim = minted', !.live = TRUE]
    BY Zenon
  <2>1. d \in Deliveries /\ Pending(d) /\ row' = [row EXCEPT ![d] = R]
    BY <1>1, <1>4, Zenon DEF Claim, ReqOK
  <2>2. row[d].state \notin Settled
    BY <2>1, Zenon DEF Pending, Settled
  <2> QED
    BY <2>1, <2>2, FinalRow, Zenon
<1>5. CASE Release(r)
  <2> PICK R : R = IF Pending(d) /\ row[d].claim = req[r].token
                     THEN [row[d] EXCEPT !.claim = Free, !.live = FALSE] ELSE row[d]
    BY Zenon
  <2>1. d \in Deliveries /\ row' = [row EXCEPT ![d] = R]
    BY <1>1, <1>5, Zenon DEF Release, ReqOK
  <2>2. row[d].state \in Settled => R = row[d]
    BY Zenon DEF Pending, Settled
  <2> QED
    BY <2>1, <2>2, FinalRow, Zenon
<1>6. CASE Abandon(r)
  <2>1. d \in Deliveries /\ row' = abandon_pty_delivery(d, req[r].token)
    BY <1>1, <1>6, Zenon DEF Abandon, ReqOK
  <2> QED
    BY <2>1, FinalAbandon, Zenon
<1> QED
  BY <1>2, <1>3, <1>4, <1>5, <1>6, Zenon DEF Attempt, ClientLeaves, delivery_pending, ClaimRefused, Route, NoRoute,
     Dispatch, DispatchRefused, Acknowledged, AckTimeout

\* The reader of a connection and its sweep.
LEMMA FinalServe ==
    ASSUME IInv, NEW c \in Connections, Serve(c) \/ Hangup(c) \/ Connect(c)
    PROVE  \A e \in Deliveries : Final(e)
<1>1. ReaderOK(c) /\ TypeOK
  BY Zenon DEF IInv
<1> PICK d : d = reader[c].d
  BY Zenon
<1>2. CASE row' = row
  BY <1>2, Zenon DEF Final
<1>3. CASE settle_pty_delivery(c)
  <2>1. d \in Deliveries
    BY <1>1, <1>3, Zenon DEF settle_pty_delivery, ReaderOK
  <2>2. row' = row \/ (Pending(d) /\ \E R : row' = [row EXCEPT ![d] = R])
    <3>1. CASE Pending(d) /\ row[d].claim = reader[c].token
      <4>1. PICK R : R = Settle(d, IF reader[c].result = "applied" THEN "delivered" ELSE "failed")
        BY Zenon
      <4>2. row' = [row EXCEPT ![d] = R]
        BY <1>3, <3>1, <4>1, Zenon DEF settle_pty_delivery
      <4> QED
        BY <3>1, <4>2, Zenon
    <3>2. CASE ~(Pending(d) /\ row[d].claim = reader[c].token)
      BY <1>3, <3>2, Zenon DEF settle_pty_delivery
    <3> QED
      BY <3>1, <3>2, Zenon
  <2>3. Pending(d) => row[d].state \notin Settled
    BY Zenon DEF Pending, Settled
  <2> QED
    BY <1>2, <2>1, <2>2, <2>3, FinalRow, Zenon
<1>4. CASE reconcile_pty_delivery(c)
  <2>1. d \in Deliveries
    BY <1>1, <1>4, Zenon DEF reconcile_pty_delivery, ReaderOK
  <2>2. \/ row' = row
        \/ row[d].state \in {"delivered", "indeterminate"} /\ row' = [row EXCEPT ![d] = Settle(d, "delivered")]
    BY <1>4, Zenon DEF reconcile_pty_delivery
  <2>3. Settle(d, "delivered").state = "delivered"
    BY <2>1, SettleFields, Zenon DEF States
  <2> QED
    BY <1>2, <2>1, <2>2, <2>3, FinalRow, Zenon
<1>5. CASE abandon_pty_deliveries(c)
  <2>1. row' = row \/ \E p \in abandoned[c] : row' = abandon_pty_delivery(p[1], p[2])
    BY <1>5, Zenon DEF abandon_pty_deliveries
  <2>2. \A p \in abandoned[c] : p[1] \in Deliveries
    BY <1>1 DEF TypeOK
  <2> QED
    BY <1>2, <2>1, <2>2, FinalAbandon, Zenon
<1> QED
  BY <1>2, <1>3, <1>4, <1>5, Zenon DEF Serve, delivery_ack_claim, take_delivery_ack, DropRoutes, DropSessions,
     Hangup, Connect

\* A settled row stays as it is, but for the indeterminate one that evidence of
\* application makes delivered: settlements, sweeps, quarantines, late attempts
\* and restarts, in any order, undo nothing a client was told.
THEOREM SettledStays == Spec => SettledIsFinal
<1> DEFINE A == \A d \in Deliveries :
                  row[d].state \in {"delivered", "failed", "indeterminate"} /\ row'[d].state # row[d].state
                    => row[d].state = "indeterminate" /\ row'[d].state = "delivered"
<1>1. IInv /\ [Next /\ UNCHANGED env]_<<vars, env>> => [A]_vars
  <2> SUFFICES ASSUME IInv, Next PROVE \A e \in Deliveries : Final(e)
    BY Zenon DEF Final, Settled
  <2>1. CASE row' = row
    BY <2>1, Zenon DEF Final
  <2>2. ASSUME NEW r \in Requests, NEW d \in Deliveries, Submit(r, d) PROVE \A e \in Deliveries : Final(e)
    <3> PICK R : R = [row[d] EXCEPT !.state = "pending", !.fresh = TRUE, !.gen = session]
      BY Zenon
    <3>1. row' = [row EXCEPT ![d] = R] /\ row[d].state \notin Settled
      BY <2>2, Zenon DEF Submit, Settled
    <3> QED
      BY <3>1, FinalRow, Zenon
  <2>3. ASSUME NEW d \in Deliveries, ClaimExpires(d) \/ AppendAges(d) PROVE \A e \in Deliveries : Final(e)
    <3>1. row[d] \in RowState /\ row \in [Deliveries -> RowState]
      BY Fields, Zenon DEF IInv, TypeOK
    <3> PICK R : /\ R = [row[d] EXCEPT !.live = FALSE] \/ R = [row[d] EXCEPT !.fresh = FALSE]
                 /\ row' = [row EXCEPT ![d] = R]
      BY <2>3, Zenon DEF ClaimExpires, AppendAges
    <3>2. R.state = row[d].state
      BY <3>1, Zenon DEF RowState
    <3> QED
      BY <3>2, FinalRow, Zenon
  <2>4. CASE Restart
    <3>1. \A d \in Deliveries : row'[d] = IF Pending(d) THEN Settle(d, "indeterminate") ELSE row[d]
      BY <2>4, Zenon DEF Restart
    <3> QED
      BY <3>1, Zenon DEF Final, Pending, Settled
  <2> QED
    BY <2>1, <2>2, <2>3, <2>4, FinalRequest, FinalServe, Zenon DEF Next, Retry, HostTakes, apply_once, Refuse,
       ApplicationIndeterminate, ControlTimeout, settle_delivery, AttachTimeout, publish_snapshot, TakeQueued,
       Reconnect, SessionOver, kernel
<1> HIDE DEF A
<1>2. Spec => []IInv
  BY InitIInv, StepIInv, PTL DEF Spec
<1>3. Spec => [][A]_vars
  BY <1>1, <1>2, PTL DEF Spec
<1> QED
  BY <1>3, Zenon DEF SettledIsFinal, A
=============================================================================
