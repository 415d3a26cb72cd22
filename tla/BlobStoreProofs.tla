--------------------------- MODULE BlobStoreProofs ---------------------------
(***************************************************************************)
(* Proofs about BlobStore, for any contents, uploaders, evidence and       *)
(* environments.                                                           *)
(*                                                                         *)
(* The argument: a tombstone is never taken back, so a shred that is about *)
(* to unlink a container unlinks one no row needs (ShredUnderWay); and     *)
(* where operations on one content take turns, a commit that seals has     *)
(* found no row and nobody makes one before it does (OneAtATime,           *)
(* CommitKnows), so the container it published is still there when its row *)
(* names it.                                                               *)
(***************************************************************************)
EXTENDS BlobStore, TLAPS

Phases == {"idle", "claimed", "open", "record", "seal", "publish", "insert", "hit", "refused",
           "close", "ok"}
Uploads == [pc : Phases, d : Contents, written : Nat, staged : Seq(Nat), seal : Nat]
Rows == [key : Nat, tombstoned : BOOLEAN, wrap : Nat, bytes : Seq(Nat),
         domain : {"none", "kernel", "context"}]
\* The chunks on record are in the staged file, and one more while it is written.
Within(r) == r.written <= Len(r.staged) /\ (r.pc = "record" => r.written < Len(r.staged))
Reasons == {"event", "checkpoint", "evidence", "recording"}

TypeOK ==
    /\ env \in Environments
    /\ row \in [Contents -> Rows] /\ file \in [Contents -> Nat]
    /\ pins \in [Contents -> SUBSET Evidence] /\ held \in [Contents -> SUBSET Reasons]
    /\ class \in [Contents -> {"none", "bounded", "elapsed"}]
    /\ upload \in [Uploaders -> Uploads]
    /\ \A u \in Uploaders : Within(upload[u])
    /\ sweeping \subseteq Contents
    /\ shredding \in {NoCall} \cup [pc : {"update", "unlink"}, d : Contents]
    /\ pinning \in {NoCall} \cup [pc : {"insert"}, d : Contents, e : Evidence]
    /\ rewrapping \in {NoCall} \cup [pc : {"update"}, d : Contents, key : Nat]
    /\ seals \in Nat /\ crashes \in Nat

\* What is sealed, and what is stored, are the bytes that hash to the address.
BytesMatch ==
    /\ \A u \in Uploaders : upload[u].pc \in {"seal", "publish", "insert"} => upload[u].staged = Plain
    /\ \A d \in Contents : Exists(d) => row[d].bytes = Plain

\* A put has its classification from its claim on, and only puts classify.
Classified ==
    /\ \A u \in Uploaders :
        u \in ContextWriters /\ upload[u].pc # "idle" => class[upload[u].d] # "none"
    /\ \A d \in Contents : row[d].domain = "context" => class[d] # "none"
    /\ \A d \in Contents : class[d] # "none" => ContextWriters # {}

\* A shred that is about to unlink has written its tombstone.
ShredUnderWay == shredding.pc = "unlink" => row[shredding.d].tombstoned

\* Operations on one content take turns.
OneAtATime ==
    ~Overlap => \A d \in Contents :
        /\ \A u, v \in Committing(d) : u = v
        /\ d \in sweeping => Committing(d) = {} /\ row[d] = NoRow
        /\ rewrapping # NoCall /\ rewrapping.d = d => Committing(d) = {} /\ d \notin sweeping

\* What a commit or a rotation has found out still holds when it acts on it.
CommitKnows ==
    ~Overlap => \A u \in Uploaders :
        LET d == upload[u].d IN
        /\ upload[u].pc \in {"seal", "publish", "insert"} => row[d] = NoRow
        /\ upload[u].pc = "insert" => file[d] = upload[u].seal
        /\ upload[u].pc \in {"hit", "ok"} =>
                Exists(d) /\ (u \in ContextWriters => row[d].domain = "context")
RotationKnows ==
    ~Overlap /\ rewrapping # NoCall /\ readable(rewrapping.d) =>
        row[rewrapping.d].key = rewrapping.key

Readable == ~Overlap => CommittedReadable

IInv ==
    /\ TypeOK /\ BytesMatch /\ Classified /\ ShredUnderWay /\ OneAtATime
    /\ CommitKnows /\ RotationKnows /\ Readable /\ HeldKept

-----------------------------------------------------------------------------
(***************************************************************************)
(* What a step does to the uploads.                                        *)
(***************************************************************************)
\* Only u's upload changes: it stays an upload of its content and goes on to p.
Moved(u, p) ==
    /\ upload' \in [Uploaders -> Uploads]
    /\ \A v \in Uploaders : Within(upload'[v])
    /\ \A v \in Uploaders : v # u => upload'[v] = upload[v]
    /\ upload'[u].d = upload[u].d
    /\ upload'[u].pc = p

LEMMA Replaced ==
    ASSUME TypeOK, NEW u \in Uploaders, NEW r \in Uploads, Within(r), r.d = upload[u].d,
           upload' = [upload EXCEPT ![u] = r]
    PROVE  Moved(u, r.pc) /\ upload'[u] = r
BY Zenon DEF TypeOK, Moved

LEMMA FreshTyped ==
    ASSUME NEW d \in Contents, NEW p \in Phases \ {"record"}
    PROVE  /\ Fresh(d) \in Uploads /\ Within(Fresh(d))
           /\ [Fresh(d) EXCEPT !.pc = p] \in Uploads
           /\ Within([Fresh(d) EXCEPT !.pc = p])
           /\ [Fresh(d) EXCEPT !.pc = p].pc = p /\ [Fresh(d) EXCEPT !.pc = p].d = d
           /\ Fresh(d).pc = "idle" /\ Fresh(d).d = d
<1>1. Fresh(d) = [pc |-> "idle", d |-> d, written |-> 0, staged |-> <<>>, seal |-> 0]
  BY Zenon DEF Fresh
<1>2. <<>> \in Seq(Nat) /\ Len(<<>>) = 0
  OBVIOUS
<1>3. [Fresh(d) EXCEPT !.pc = p] = [pc |-> p, d |-> d, written |-> 0, staged |-> <<>>, seal |-> 0]
  BY <1>1
<1>4. Fresh(d) \in Uploads
  BY <1>1, <1>2 DEF Uploads, Phases
<1>5. [Fresh(d) EXCEPT !.pc = p] \in Uploads
  <2>1. [pc |-> p, d |-> d, written |-> 0, staged |-> <<>>, seal |-> 0] \in Uploads
    BY <1>2, Zenon DEF Uploads
  <2> QED
    BY <1>3, <2>1, Zenon
<1>6. /\ Fresh(d).written = 0 /\ Fresh(d).staged = <<>> /\ Fresh(d).pc = "idle" /\ Fresh(d).d = d
  BY <1>1
<1>7. /\ [Fresh(d) EXCEPT !.pc = p].written = 0 /\ [Fresh(d) EXCEPT !.pc = p].staged = <<>>
      /\ [Fresh(d) EXCEPT !.pc = p].pc = p /\ [Fresh(d) EXCEPT !.pc = p].d = d
  BY <1>3, Zenon
<1>8. 0 <= Len(<<>>)
  BY <1>2
<1>9. Within(Fresh(d)) /\ Within([Fresh(d) EXCEPT !.pc = p])
  BY <1>6, <1>7, <1>8, Zenon DEF Within
<1> QED
  BY <1>4, <1>5, <1>6, <1>7, <1>9, Zenon

\* The call of u goes on to p, with the same chunks and the same sealing.
LEMMA Moves ==
    ASSUME TypeOK, NEW u \in Uploaders, NEW p \in Phases \ {"record"},
           upload' = [upload EXCEPT ![u].pc = p]
    PROVE  /\ Moved(u, p)
           /\ upload'[u].staged = upload[u].staged /\ upload'[u].seal = upload[u].seal
<1>1. upload[u] \in Uploads /\ upload[u].written <= Len(upload[u].staged)
  BY Zenon DEF TypeOK, Within
<1> DEFINE r == [upload[u] EXCEPT !.pc = p]
<1>2. upload' = [upload EXCEPT ![u] = r]
  BY Zenon
<1>3. /\ r \in Uploads /\ r.written = upload[u].written /\ r.staged = upload[u].staged
      /\ r.seal = upload[u].seal /\ r.pc = p /\ r.d = upload[u].d
  BY <1>1, Zenon DEF Uploads
<1> HIDE DEF r
<1>4. Within(r)
  BY <1>1, <1>3, Zenon DEF Within
<1>5. Moved(u, r.pc) /\ upload'[u] = r
  BY <1>2, <1>3, <1>4, Replaced, Zenon
<1> QED
  BY <1>3, <1>5, Zenon

\* What each action on an upload does to the uploads.
LEMMA UploadSteps ==
    ASSUME TypeOK, NEW u \in Uploaders
    PROVE  /\ put(u) => Moved(u, "claimed")
           /\ begin(u) => Moved(u, "open")
           /\ WriteFile(u) => Moved(u, "record")
           /\ RecordChunk(u) => Moved(u, "open")
           /\ abort(u) => Moved(u, "idle")
           /\ commit(u) => /\ \E sameType \in BOOLEAN : Moved(u, Found(u, sameType))
                           /\ upload'[u].staged = upload[u].staged
           /\ Seal(u) => Moved(u, "publish") /\ upload'[u].staged = upload[u].staged
           /\ Publish(u) => /\ Moved(u, "insert")
                            /\ upload'[u].staged = upload[u].staged
                            /\ upload'[u].seal = upload[u].seal
           /\ Insert(u) => Moved(u, "close")
           /\ Close(u) => Moved(u, IF Answered(u) THEN "ok" ELSE "idle")
           /\ Crash(u) => Moved(u, IF upload[u].pc \in {"claimed", "ok"} THEN "idle" ELSE "open")
           /\ Refer(u) => Moved(u, "idle")
<1>1. upload[u] \in Uploads /\ Within(upload[u]) /\ upload[u].d \in Contents
  BY Zenon DEF TypeOK, Uploads
<1>2. /\ {"idle", "claimed", "open", "seal", "publish", "insert", "hit", "refused", "close", "ok"}
              \subseteq Phases \ {"record"}
      /\ "record" \in Phases
  BY Zenon DEF Phases
<1>3. /\ upload[u].written \in Nat /\ upload[u].staged \in Seq(Nat)
      /\ Len(upload[u].staged) \in Nat
  BY <1>1 DEF Uploads
<1>4. put(u) => Moved(u, "claimed")
  <2>1. put(u) => upload' = [upload EXCEPT ![u].pc = "claimed"]
    BY Zenon DEF put
  <2> QED
    BY <1>2, <2>1, Moves, Zenon
<1>5. begin(u) => Moved(u, "open")
  <2>1. begin(u) => upload' = [upload EXCEPT ![u].pc = "open"]
    BY Zenon DEF begin
  <2> QED
    BY <1>2, <2>1, Moves, Zenon
<1>6. ASSUME WriteFile(u) PROVE Moved(u, "record")
  <2>1. PICK byte \in {0, upload[u].written + 1} :
           upload' = [upload EXCEPT ![u].pc = "record",
                                    ![u].staged = SubSeq(@, 1, upload[u].written) \o <<byte>>]
    BY <1>6, Zenon DEF WriteFile
  <2> DEFINE s == SubSeq(upload[u].staged, 1, upload[u].written) \o <<byte>>
             r == [upload[u] EXCEPT !.pc = "record", !.staged = s]
  <2>2. s \in Seq(Nat) /\ Len(s) \in Nat /\ upload[u].written < Len(s)
    <3>1. /\ SubSeq(upload[u].staged, 1, upload[u].written) \in Seq(Nat)
          /\ Len(SubSeq(upload[u].staged, 1, upload[u].written)) = upload[u].written
      BY <1>1, <1>3, SMTT(30) DEF Within
    <3>2. byte \in Nat
      BY <1>3, <2>1
    <3> HIDE DEF s
    <3> QED
      BY <1>3, <3>1, <3>2 DEF s
  <2>3. /\ r \in Uploads /\ r.written = upload[u].written /\ r.staged = s
        /\ r.pc = "record" /\ r.d = upload[u].d
    <3> HIDE DEF s
    <3> QED
      BY <1>1, <1>2, <2>2, Zenon DEF Uploads
  <2>4. upload' = [upload EXCEPT ![u] = r]
    BY <2>1, Zenon
  <2> HIDE DEF r, s
  <2>5. Within(r)
    BY <1>3, <2>2, <2>3 DEF Within
  <2> QED
    BY <2>3, <2>4, <2>5, Replaced, Zenon
<1>7. ASSUME RecordChunk(u) PROVE Moved(u, "open")
  <2> DEFINE n == upload[u].written + 1
             r == [upload[u] EXCEPT !.pc = "open", !.written = n]
  <2>1. upload' = [upload EXCEPT ![u] = r] /\ upload[u].pc = "record"
    BY <1>7, Zenon DEF RecordChunk
  <2>2. /\ r \in Uploads /\ r.written = n /\ r.staged = upload[u].staged
        /\ r.pc = "open" /\ r.d = upload[u].d
    <3>1. n \in Nat
      BY <1>3
    <3> HIDE DEF n
    <3> QED
      BY <1>1, <1>2, <3>1, Zenon DEF Uploads
  <2> HIDE DEF r
  <2>3. Within(r)
    BY <1>1, <1>3, <2>1, <2>2 DEF Within
  <2> QED
    BY <2>1, <2>2, <2>3, Replaced, Zenon
<1>8. ASSUME abort(u) PROVE Moved(u, "idle")
  <2>1. upload' = [upload EXCEPT ![u] = Fresh(upload[u].d)]
    BY <1>8, Zenon DEF abort
  <2>2. /\ Fresh(upload[u].d) \in Uploads /\ Within(Fresh(upload[u].d))
        /\ Fresh(upload[u].d).pc = "idle" /\ Fresh(upload[u].d).d = upload[u].d
    BY <1>1, <1>2, FreshTyped, Zenon
  <2> QED
    BY <2>1, <2>2, Replaced, Zenon
<1>9. ASSUME commit(u)
      PROVE  /\ \E sameType \in BOOLEAN : Moved(u, Found(u, sameType))
             /\ upload'[u].staged = upload[u].staged
  <2>1. PICK sameType \in BOOLEAN : upload' = [upload EXCEPT ![u].pc = Found(u, sameType)]
    BY <1>9, Zenon DEF commit
  <2>2. Found(u, sameType) \in Phases \ {"record"}
    BY <1>2, Zenon DEF Found
  <2> QED
    BY <2>1, <2>2, Moves, Zenon
<1>10. ASSUME Seal(u) PROVE Moved(u, "publish") /\ upload'[u].staged = upload[u].staged
  <2> DEFINE r == [upload[u] EXCEPT !.pc = "publish", !.seal = seals + 1]
  <2>1. upload' = [upload EXCEPT ![u] = r]
    BY <1>10, Zenon DEF Seal
  <2>2. seals + 1 \in Nat
    BY DEF TypeOK
  <2>3. /\ r \in Uploads /\ r.written = upload[u].written /\ r.staged = upload[u].staged
        /\ r.pc = "publish" /\ r.d = upload[u].d
    BY <1>1, <1>2, <2>2, Zenon DEF Uploads
  <2> HIDE DEF r
  <2>4. Within(r)
    BY <1>1, <2>3, Zenon DEF Within
  <2> QED
    BY <2>1, <2>3, <2>4, Replaced, Zenon
<1>11. Publish(u) => /\ Moved(u, "insert")
                     /\ upload'[u].staged = upload[u].staged
                     /\ upload'[u].seal = upload[u].seal
  <2>1. Publish(u) => upload' = [upload EXCEPT ![u].pc = "insert"]
    BY Zenon DEF Publish
  <2> QED
    BY <1>2, <2>1, Moves, Zenon
<1>12. Insert(u) => Moved(u, "close")
  <2>1. Insert(u) => upload' = [upload EXCEPT ![u].pc = "close"]
    BY Zenon DEF Insert
  <2> QED
    BY <1>2, <2>1, Moves, Zenon
<1>13. ASSUME Close(u) PROVE Moved(u, IF Answered(u) THEN "ok" ELSE "idle")
  <2> DEFINE p == IF Answered(u) THEN "ok" ELSE "idle"
             r == [Fresh(upload[u].d) EXCEPT !.pc = p]
  <2>1. upload' = [upload EXCEPT ![u] = r]
    BY <1>13, Zenon DEF Close
  <2>2. p \in Phases \ {"record"}
    BY <1>2, Zenon
  <2> HIDE DEF p
  <2>3. r \in Uploads /\ Within(r) /\ r.pc = p /\ r.d = upload[u].d
    BY <1>1, <2>2, FreshTyped, Zenon
  <2> HIDE DEF r
  <2>4. Moved(u, p)
    BY <2>1, <2>3, Replaced, Zenon
  <2> QED
    BY <2>4, Zenon DEF p
<1>14. ASSUME Crash(u)
       PROVE  Moved(u, IF upload[u].pc \in {"claimed", "ok"} THEN "idle" ELSE "open")
  <2>1. CASE upload[u].pc \in {"claimed", "ok"}
    <3>1. upload' = [upload EXCEPT ![u] = Fresh(upload[u].d)]
      BY <1>14, <2>1, Zenon DEF Crash
    <3>2. /\ Fresh(upload[u].d) \in Uploads /\ Within(Fresh(upload[u].d))
          /\ Fresh(upload[u].d).pc = "idle" /\ Fresh(upload[u].d).d = upload[u].d
      BY <1>1, <1>2, FreshTyped, Zenon
    <3>3. Moved(u, "idle")
      BY <3>1, <3>2, Replaced, Zenon
    <3> QED
      BY <2>1, <3>3, Zenon
  <2>2. CASE upload[u].pc \notin {"claimed", "ok"}
    <3> DEFINE r == [upload[u] EXCEPT !.pc = "open", !.seal = 0]
    <3>1. upload' = [upload EXCEPT ![u] = r]
      BY <1>14, <2>2, Zenon DEF Crash
    <3>2. /\ r \in Uploads /\ r.written = upload[u].written /\ r.staged = upload[u].staged
          /\ r.pc = "open" /\ r.d = upload[u].d
      BY <1>1, <1>2, Zenon DEF Uploads
    <3> HIDE DEF r
    <3>3. Within(r)
      BY <1>1, <3>2, Zenon DEF Within
    <3>4. Moved(u, "open")
      BY <3>1, <3>2, <3>3, Replaced, Zenon
    <3> QED
      BY <2>2, <3>4, Zenon
  <2> QED
    BY <2>1, <2>2, Zenon
<1>15. Refer(u) => Moved(u, "idle")
  <2>1. Refer(u) => upload' = [upload EXCEPT ![u].pc = "idle"]
    BY Zenon DEF Refer
  <2> QED
    BY <1>2, <2>1, Moves, Zenon
<1> QED
  BY <1>4, <1>5, <1>6, <1>7, <1>8, <1>9, <1>10, <1>11, <1>12, <1>13, <1>14, <1>15, Zenon
-----------------------------------------------------------------------------
(***************************************************************************)
(* The rows a step may write.                                              *)
(***************************************************************************)
LEMMA RowFacts ==
    ASSUME TypeOK
    PROVE  /\ NoRow \in Rows /\ ~NoRow.tombstoned /\ NoRow.domain = "none" /\ NoRow.wrap = 0
           /\ \A d \in Contents :
                /\ row[d] \in Rows
                /\ Shredded(d) \in Rows /\ Shredded(d).tombstoned
                /\ Shredded(d).bytes = row[d].bytes /\ Shredded(d).domain = row[d].domain
           /\ \A u \in Uploaders :
                /\ NewRow(u) \in Rows /\ ~NewRow(u).tombstoned /\ NewRow(u) # NoRow
                /\ NewRow(u).key = upload[u].seal /\ NewRow(u).bytes = upload[u].staged
                /\ NewRow(u).domain = Domain(u)
           /\ \A d \in Contents, k \in Nat :
                LET r == [row[d] EXCEPT !.key = k, !.wrap = 2] IN
                /\ r \in Rows /\ r # NoRow /\ r.key = k /\ r.tombstoned = row[d].tombstoned
                /\ r.bytes = row[d].bytes /\ r.domain = row[d].domain
<1>1. /\ NoRow \in Rows /\ ~NoRow.tombstoned /\ NoRow.domain = "none" /\ NoRow.wrap = 0
  <2>1. <<>> \in Seq(Nat)
    OBVIOUS
  <2> QED
    BY <2>1, Zenon DEF NoRow, Rows
<1>2. ASSUME NEW d \in Contents
      PROVE  /\ row[d] \in Rows
             /\ Shredded(d) \in Rows /\ Shredded(d).tombstoned
             /\ Shredded(d).bytes = row[d].bytes /\ Shredded(d).domain = row[d].domain
  <2>1. row[d] \in Rows
    BY Zenon DEF TypeOK
  <2> QED
    BY <2>1, Zenon DEF Shredded, Rows
<1>3. ASSUME NEW u \in Uploaders
      PROVE  /\ NewRow(u) \in Rows /\ ~NewRow(u).tombstoned /\ NewRow(u) # NoRow
             /\ NewRow(u).key = upload[u].seal /\ NewRow(u).bytes = upload[u].staged
             /\ NewRow(u).domain = Domain(u)
  <2>1. upload[u].seal \in Nat /\ upload[u].staged \in Seq(Nat)
    BY Zenon DEF TypeOK, Uploads
  <2>2. Domain(u) \in {"none", "kernel", "context"}
    BY Zenon DEF Domain
  <2>3. /\ NewRow(u).wrap = 1 /\ ~NewRow(u).tombstoned
        /\ NewRow(u).key = upload[u].seal /\ NewRow(u).bytes = upload[u].staged
        /\ NewRow(u).domain = Domain(u)
    BY Zenon DEF NewRow
  <2>4. NewRow(u) \in Rows
    BY <2>1, <2>2, Zenon DEF NewRow, Rows
  <2> QED
    BY <1>1, <2>3, <2>4
<1>4. ASSUME NEW d \in Contents, NEW k \in Nat
      PROVE  LET r == [row[d] EXCEPT !.key = k, !.wrap = 2] IN
             /\ r \in Rows /\ r # NoRow /\ r.key = k /\ r.tombstoned = row[d].tombstoned
             /\ r.bytes = row[d].bytes /\ r.domain = row[d].domain
  <2> DEFINE r == [row[d] EXCEPT !.key = k, !.wrap = 2]
  <2>1. row[d] \in Rows
    BY <1>2, Zenon
  <2>2. /\ r.key = k /\ r.tombstoned = row[d].tombstoned /\ r.wrap = 2
        /\ r.bytes = row[d].bytes /\ r.domain = row[d].domain
    BY <2>1, Zenon DEF Rows
  <2>3. r \in Rows
    BY <2>1, Zenon DEF Rows
  <2>4. r # NoRow
    <3> HIDE DEF r
    <3> QED
      BY <1>1, <2>2
  <2> QED
    BY <2>2, <2>3, <2>4, Zenon
<1> QED
  BY <1>1, <1>2, <1>3, <1>4, Zenon

-----------------------------------------------------------------------------
(***************************************************************************)
(* The inductive invariant.                                                *)
(***************************************************************************)
LEMMA InvariantKeeps == IInv => BlobsAreKept
<1> SUFFICES ASSUME IInv PROVE BlobsAreKept
  BY Zenon
<1>1. ContextWriters \subseteq Uploaders
  BY BlobAssumption, Zenon DEF IInv, TypeOK, ContextWriters
<1>2. CrashLeavesReadable
  BY Zenon DEF IInv, BytesMatch, Readable, CrashLeavesReadable, readable
<1>3. PutOpensWithItsClass
  BY <1>1, Zenon DEF IInv, Classified, CommitKnows, PutOpensWithItsClass
<1> QED
  BY <1>2, <1>3, Zenon DEF IInv, BlobsAreKept

LEMMA InitIInv == Init => IInv
<1> SUFFICES ASSUME Init PROVE IInv
  BY Zenon
<1>1. \A u \in Uploaders : /\ upload[u] \in Uploads /\ Within(upload[u])
                           /\ upload[u].pc = "idle"
  <2> TAKE u \in Uploaders
  <2>1. PICK d \in Contents : upload[u] = Fresh(d)
    BY Zenon DEF Init
  <2>2. "idle" \in Phases \ {"record"}
    BY Zenon DEF Phases
  <2> QED
    BY <2>1, <2>2, FreshTyped, Zenon
<1>2. TypeOK
  <2>1. NoRow \in Rows
    <3>1. <<>> \in Seq(Nat)
      OBVIOUS
    <3> QED
      BY <3>1, Zenon DEF NoRow, Rows
  <2>2. upload \in [Uploaders -> Uploads]
    BY <1>1, Zenon DEF Init
  <2> QED
    BY <1>1, <2>1, <2>2, Zenon DEF Init, TypeOK
<1>3. NoRow.domain = "none"
  BY Zenon DEF NoRow
<1>4. \A d \in Contents : Committing(d) = {}
  BY <1>1, Zenon DEF Committing
<1>5. shredding.pc = "none"
  BY Zenon DEF Init, NoCall
<1>6. BytesMatch /\ Classified /\ ShredUnderWay /\ CommitKnows
  BY <1>1, <1>3, <1>5, Zenon
     DEF Init, BytesMatch, Classified, ShredUnderWay, CommitKnows, Exists
<1>7. OneAtATime /\ RotationKnows
  BY <1>4, Zenon DEF Init, OneAtATime, RotationKnows
<1>8. Readable /\ HeldKept
  BY Zenon DEF Init, Readable, CommittedReadable, HeldKept, readable, Exists
<1> QED
  BY <1>2, <1>6, <1>7, <1>8, Zenon DEF IInv

-----------------------------------------------------------------------------
(***************************************************************************)
(* Steps of an upload.                                                     *)
(***************************************************************************)
\* An upload that is not committing after its step leaves what the commits, the
\* sweep and the rotation rely on as it was.
LEMMA OutOfTheWay ==
    ASSUME IInv, NEW u \in Uploaders, NEW p, Moved(u, p),
           p \notin {"seal", "publish", "insert", "hit", "refused", "close", "ok"},
           UNCHANGED <<row, file, sweeping, shredding, rewrapping, env>>
    PROVE  BytesMatch' /\ ShredUnderWay' /\ OneAtATime' /\ CommitKnows' /\ RotationKnows' /\ Readable'
<1>1. \A v \in Uploaders :
        upload'[v].pc \in {"seal", "publish", "insert", "hit", "refused", "close", "ok"} => upload'[v] = upload[v]
  BY Zenon DEF Moved
<1>2. \A d \in Contents : Committing(d)' \subseteq Committing(d)
  BY <1>1, Zenon DEF Committing
<1>3. BytesMatch'
  BY <1>1, Zenon DEF IInv, BytesMatch, Exists, Plain, Chunks
<1>4. ShredUnderWay' /\ RotationKnows' /\ Readable'
  BY Zenon DEF IInv, ShredUnderWay, RotationKnows, Readable, CommittedReadable, Overlap, readable, Exists
<1>5. OneAtATime'
  BY <1>2 DEF IInv, OneAtATime, Overlap
<1>6. CommitKnows'
  BY <1>1, Zenon DEF IInv, CommitKnows, Overlap, Exists, ContextWriters
<1> QED
  BY <1>3, <1>4, <1>5, <1>6, Zenon

\* A commit that goes from one of its steps to the next keeps its turn.
LEMMA KeepsItsTurn ==
    ASSUME OneAtATime, NEW u \in Uploaders, NEW p, Moved(u, p),
           upload[u].pc \in {"seal", "publish", "insert", "hit", "refused", "close", "ok"},
           UNCHANGED <<row, sweeping, rewrapping, env>>
    PROVE  OneAtATime'
<1>1. \A d \in Contents : Committing(d)' \subseteq Committing(d)
  BY Zenon DEF Committing, Moved
<1> QED
  BY <1>1 DEF OneAtATime, Overlap

\* The steps of an upload before its commit, and the crash, keep the invariant.
LEMMA BeforeCommit ==
    ASSUME IInv, NEW u \in Uploaders, UNCHANGED env,
           put(u) \/ begin(u) \/ WriteFile(u) \/ RecordChunk(u) \/ abort(u) \/ Crash(u)
    PROVE  IInv'
<1>1. TypeOK
  BY Zenon DEF IInv
<1>2. PICK p : /\ Moved(u, p) /\ p \notin {"seal", "publish", "insert", "hit", "refused", "close", "ok"}
               /\ p \notin {"idle", "claimed"} /\ u \in ContextWriters => upload[u].pc # "idle"
               /\ p = "claimed" => put(u)
  <2>1. CASE put(u)
    BY <1>1, <2>1, UploadSteps, Zenon
  <2>2. CASE begin(u)
    <3>1. Moved(u, "open")
      BY <1>1, <2>2, UploadSteps, Zenon
    <3>2. u \in ContextWriters => upload[u].pc # "idle"
      BY <2>2, Zenon DEF begin
    <3> QED
      BY <3>1, <3>2
  <2>3. CASE WriteFile(u)
    <3>1. Moved(u, "record")
      BY <1>1, <2>3, UploadSteps, Zenon
    <3>2. u \in ContextWriters => upload[u].pc # "idle"
      BY <2>3, Zenon DEF WriteFile
    <3> QED
      BY <3>1, <3>2
  <2>4. CASE RecordChunk(u)
    <3>1. Moved(u, "open")
      BY <1>1, <2>4, UploadSteps, Zenon
    <3>2. u \in ContextWriters => upload[u].pc # "idle"
      BY <2>4, Zenon DEF RecordChunk
    <3> QED
      BY <3>1, <3>2
  <2>5. CASE abort(u)
    BY <1>1, <2>5, UploadSteps
  <2>6. CASE Crash(u)
    <3>1. Moved(u, IF upload[u].pc \in {"claimed", "ok"} THEN "idle" ELSE "open")
      BY <1>1, <2>6, UploadSteps, Zenon
    <3>2. upload[u].pc # "idle"
      BY <2>6, Zenon DEF Crash
    <3> QED
      BY <3>1, <3>2
  <2> QED
    BY <2>1, <2>2, <2>3, <2>4, <2>5, <2>6, Zenon
<1>3. /\ UNCHANGED <<row, file, pins, held, sweeping, shredding, pinning, rewrapping, seals>>
      /\ crashes' \in Nat
  <2>1. CASE Crash(u)
    BY <1>1, <2>1 DEF Crash, admin, TypeOK
  <2>2. CASE ~Crash(u)
    <3>1. UNCHANGED <<row, file, pins, held, admin, seals, crashes>>
      BY <2>2, Zenon DEF put, begin, WriteFile, RecordChunk, abort
    <3> QED
      BY <1>1, <3>1, Zenon DEF admin, TypeOK
  <2> QED
    BY <2>1, <2>2, Zenon
<1>4. /\ class' \in [Contents -> {"none", "bounded", "elapsed"}]
      /\ \A d \in Contents : class[d] # "none" => class'[d] # "none"
      /\ \A d \in Contents : class'[d] # "none" => ContextWriters # {}
      /\ put(u) => class'[upload[u].d] # "none"
  <2>1. CASE put(u)
    <3>1. upload[u].d \in Contents
      BY <1>1, Zenon DEF TypeOK, Uploads
    <3>2. class' = [class EXCEPT ![upload[u].d] = IF @ = "none" THEN "bounded" ELSE @]
      BY <2>1, Zenon DEF put
    <3>3. u \in ContextWriters
      BY <2>1, Zenon DEF put
    <3> QED
      BY <1>1, <3>1, <3>2, <3>3, Zenon DEF TypeOK
  <2>2. CASE ~put(u)
    <3>1. UNCHANGED class
      BY <2>2, Zenon DEF begin, WriteFile, RecordChunk, abort, Crash
    <3> QED
      BY <1>1, <2>2, <3>1, Zenon DEF IInv, TypeOK, Classified
  <2> QED
    BY <2>1, <2>2, Zenon
<1>5. TypeOK'
  BY <1>1, <1>2, <1>3, <1>4, Zenon DEF TypeOK, Moved
<1>6. Classified'
  <2>1. ASSUME NEW v \in Uploaders, v \in ContextWriters', upload'[v].pc # "idle"
        PROVE  class'[upload'[v].d] # "none"
    <3>1. upload[v].d \in Contents /\ upload'[v].d = upload[v].d /\ v \in ContextWriters
      BY <1>1, <1>2, <2>1, Zenon DEF TypeOK, Uploads, Moved, ContextWriters
    <3>2. CASE upload[v].pc # "idle"
      BY <1>4, <3>1, <3>2, Zenon DEF IInv, Classified
    <3>3. CASE upload[v].pc = "idle"
      <4>1. v = u /\ p = "claimed"
        BY <1>2, <2>1, <3>1, <3>3, Zenon DEF Moved
      <4> QED
        BY <1>2, <1>4, <3>1, <4>1, Zenon
    <3> QED
      BY <3>2, <3>3, Zenon
  <2> QED
    BY <1>3, <1>4, <2>1, Zenon DEF IInv, Classified, ContextWriters
<1>7. HeldKept'
  BY <1>3, Zenon DEF IInv, HeldKept, Overlap, Exists, ContextWriters
<1> QED
  BY <1>2, <1>3, <1>5, <1>6, <1>7, OutOfTheWay, Zenon DEF IInv

\* The steps of a commit keep the invariant: its look at the row ...
LEMMA CommitStep ==
    ASSUME IInv, NEW u \in Uploaders, UNCHANGED env, commit(u)
    PROVE  IInv'
<1> DEFINE d == upload[u].d
<1>1. TypeOK /\ d \in Contents
  BY Zenon DEF IInv, TypeOK, Uploads
<1>2. PICK sameType \in BOOLEAN : Moved(u, Found(u, sameType))
  BY <1>1, UploadSteps, Zenon
<1> DEFINE p == Found(u, sameType)
<1>3. /\ Moved(u, p) /\ upload'[u].staged = upload[u].staged
      /\ upload[u].pc = "open" /\ upload[u].staged = Plain /\ Alone(d)
  BY <1>1, <1>2, UploadSteps, Zenon DEF commit
<1>4. UNCHANGED <<row, file, pins, held, class, sweeping, shredding, pinning, rewrapping,
                  seals, crashes>>
  BY Zenon DEF commit, admin
<1> HIDE DEF p
<1>5. \/ p = "seal" /\ row[d] = NoRow
      \/ p = "refused"
      \/ p = "hit" /\ Exists(d) /\ (u \in ContextWriters => row[d].domain = "context")
  <2>1. CASE ~Exists(d)
    BY <2>1, Zenon DEF p, Found, Exists
  <2>2. CASE Exists(d) /\ ~(Accepts(u) /\ sameType)
    BY <2>2, Zenon DEF p, Found
  <2>3. CASE Exists(d) /\ Accepts(u) /\ sameType
    BY <2>3, Zenon DEF p, Found, Accepts
  <2> QED
    BY <2>1, <2>2, <2>3, Zenon
<1>6. TypeOK'
  BY <1>1, <1>3, <1>4, Zenon DEF TypeOK, Moved
<1>7. BytesMatch'
  BY <1>3, <1>4, Zenon DEF IInv, BytesMatch, Moved, Exists, Plain, Chunks
<1>8. Classified'
  BY <1>3, <1>4, Zenon DEF IInv, Classified, Moved, ContextWriters
<1>9. ShredUnderWay' /\ RotationKnows' /\ Readable' /\ HeldKept'
  BY <1>4, Zenon DEF IInv, ShredUnderWay, RotationKnows, Readable, CommittedReadable, HeldKept,
              Overlap, readable, Exists, ContextWriters
<1>10. OneAtATime'
  <2> SUFFICES ASSUME ~Overlap, NEW c \in Contents
               PROVE  /\ \A v, w \in Committing(c)' : v = w
                      /\ c \in sweeping => Committing(c)' = {} /\ row[c] = NoRow
                      /\ rewrapping # NoCall /\ rewrapping.d = c =>
                            Committing(c)' = {} /\ c \notin sweeping
    BY <1>4, Zenon DEF OneAtATime, Overlap
  <2>1. CASE c = d
    <3>1. Committing(c) = {} /\ c \notin sweeping /\ (rewrapping # NoCall => rewrapping.d # c)
      BY <1>3, <2>1, Zenon DEF Alone
    <3>2. Committing(c)' \subseteq {u}
      BY <1>3, <3>1, Zenon DEF Committing, Moved
    <3> QED
      BY <3>1, <3>2, Zenon
  <2>2. CASE c # d
    <3>1. Committing(c)' = Committing(c)
      BY <1>3, <2>2, Zenon DEF Committing, Moved
    <3> QED
      BY <3>1, Zenon DEF IInv, OneAtATime
  <2> QED
    BY <2>1, <2>2, Zenon
<1>11. CommitKnows'
  BY <1>3, <1>4, <1>5, Zenon DEF IInv, CommitKnows, Moved, Overlap, Exists, ContextWriters
<1> QED
  BY <1>6, <1>7, <1>8, <1>9, <1>10, <1>11, Zenon DEF IInv

\* ... the sealing, the rename, the insert, the answer ...
LEMMA SealStep ==
    ASSUME IInv, NEW u \in Uploaders, UNCHANGED env, Seal(u)
    PROVE  IInv'
<1>1. TypeOK /\ OneAtATime
  BY Zenon DEF IInv
<1>2. /\ Moved(u, "publish") /\ upload'[u].staged = upload[u].staged /\ upload[u].pc = "seal"
  BY <1>1, UploadSteps, Zenon DEF Seal
<1>3. /\ UNCHANGED <<row, file, pins, held, class, sweeping, shredding, pinning, rewrapping, crashes>>
      /\ seals' = seals + 1
  BY Zenon DEF Seal, admin
<1>4. TypeOK'
  BY <1>1, <1>2, <1>3 DEF TypeOK, Moved
<1>5. BytesMatch' /\ Classified'
  BY <1>2, <1>3 DEF IInv, BytesMatch, Classified, Moved, Exists, Plain, Chunks, ContextWriters
<1>6. ShredUnderWay' /\ RotationKnows' /\ Readable' /\ HeldKept'
  BY <1>3, Zenon DEF IInv, ShredUnderWay, RotationKnows, Readable, CommittedReadable, HeldKept,
              Overlap, readable, Exists, ContextWriters
<1>7. OneAtATime'
  BY <1>1, <1>2, <1>3, KeepsItsTurn, Zenon
<1>8. CommitKnows'
  BY <1>2, <1>3 DEF IInv, CommitKnows, Moved, Overlap, Exists, ContextWriters
<1> QED
  BY <1>4, <1>5, <1>6, <1>7, <1>8, Zenon DEF IInv

LEMMA PublishStep ==
    ASSUME IInv, NEW u \in Uploaders, UNCHANGED env, Publish(u)
    PROVE  IInv'
<1>1. TypeOK /\ OneAtATime /\ upload[u].d \in Contents /\ upload[u].seal \in Nat
  BY Zenon DEF IInv, TypeOK, Uploads
<1>2. /\ Moved(u, "insert") /\ upload'[u].staged = upload[u].staged
      /\ upload'[u].seal = upload[u].seal /\ upload[u].pc = "publish"
  BY <1>1, UploadSteps, Zenon DEF Publish
<1>3. /\ UNCHANGED <<row, pins, held, class, sweeping, shredding, pinning, rewrapping, seals, crashes>>
      /\ file' = [file EXCEPT ![upload[u].d] = upload[u].seal]
  BY Zenon DEF Publish, admin
<1>4. TypeOK'
  BY <1>1, <1>2, <1>3, Zenon DEF TypeOK, Moved
<1>5. BytesMatch' /\ Classified'
  BY <1>2, <1>3, SMTT(30) DEF IInv, BytesMatch, Classified, Moved, Exists, Plain, Chunks, ContextWriters
<1>6. ShredUnderWay' /\ RotationKnows' /\ HeldKept'
  BY <1>3, Zenon DEF IInv, ShredUnderWay, RotationKnows, HeldKept, Overlap, readable, Exists, ContextWriters
<1>7. OneAtATime'
  BY <1>1, <1>2, <1>3, KeepsItsTurn, Zenon
\* The content it renames over has no row.
<1>8. Readable'
  BY <1>1, <1>2, <1>3, Zenon
     DEF IInv, TypeOK, Readable, CommittedReadable, CommitKnows, Overlap, readable, Exists
\* Nobody else commits this content.
<1>9. CommitKnows'
  <2> SUFFICES ASSUME ~Overlap, NEW v \in Uploaders
               PROVE  LET d == upload'[v].d IN
                      /\ upload'[v].pc \in {"seal", "publish", "insert"} => row[d] = NoRow
                      /\ upload'[v].pc = "insert" => file'[d] = upload'[v].seal
                      /\ upload'[v].pc \in {"hit", "ok"} =>
                            /\ row[d] # NoRow
                            /\ v \in ContextWriters => row[d].domain = "context"
    BY <1>3, Zenon DEF CommitKnows, Overlap, Exists, ContextWriters
  <2>1. CASE v = u
    BY <1>1, <1>2, <1>3, <2>1, Zenon DEF IInv, TypeOK, CommitKnows, Moved
  <2>2. CASE v # u
    <3>1. upload'[v] = upload[v]
      BY <1>2, <2>2, Zenon DEF Moved
    <3>2. upload[v].pc = "insert" => upload[v].d # upload[u].d
      BY <1>1, <1>2, <2>2, Zenon DEF OneAtATime, Committing
    <3>3. upload[v].d \in Contents
      BY <1>1, Zenon DEF TypeOK, Uploads
    <3>4. upload[v].pc = "insert" => file'[upload[v].d] = upload[v].seal
      BY <1>1, <1>3, <3>2, <3>3, Zenon DEF IInv, TypeOK, CommitKnows
    <3> QED
      BY <3>1, <3>4, Zenon DEF IInv, CommitKnows, Exists
  <2> QED
    BY <2>1, <2>2, Zenon
<1> QED
  BY <1>4, <1>5, <1>6, <1>7, <1>8, <1>9, Zenon DEF IInv

LEMMA InsertStep ==
    ASSUME IInv, NEW u \in Uploaders, UNCHANGED env, Insert(u)
    PROVE  IInv'
<1> DEFINE d == upload[u].d
<1>1. TypeOK /\ OneAtATime /\ d \in Contents
  BY Zenon DEF IInv, TypeOK, Uploads
<1>2. Moved(u, "close") /\ upload[u].pc = "insert"
  BY <1>1, UploadSteps, Zenon DEF Insert
<1>3. UNCHANGED <<file, pins, held, class, sweeping, shredding, pinning, rewrapping, seals, crashes>>
  BY Zenon DEF Insert, admin
<1>4. row' = [row EXCEPT ![d] = IF Exists(d) THEN row[d] ELSE NewRow(u)]
  BY Zenon DEF Insert
<1>5. /\ \A c \in Contents : c # d \/ Exists(c) => row'[c] = row[c]
      /\ ~Exists(d) => row'[d] = NewRow(u)
      /\ row' \in [Contents -> Rows]
  <2>1. NewRow(u) \in Rows /\ row \in [Contents -> Rows]
    BY <1>1, RowFacts, Zenon DEF TypeOK
  <2> QED
    BY <1>1, <1>4, <2>1, Zenon
<1>6. /\ NewRow(u) # NoRow /\ ~NewRow(u).tombstoned /\ NewRow(u).key = upload[u].seal
      /\ NewRow(u).bytes = upload[u].staged /\ NewRow(u).domain = Domain(u)
  BY <1>1, RowFacts, Zenon
<1>7. \A c \in Contents : Exists(c) => row'[c] = row[c] /\ row'[c] # NoRow
  BY <1>5, Zenon DEF Exists
<1> HIDE DEF d
<1>8. TypeOK'
  BY <1>1, <1>2, <1>3, <1>5, Zenon DEF TypeOK, Moved
<1>9. BytesMatch'
  <2>1. upload[u].staged = Plain
    BY <1>2, Zenon DEF IInv, BytesMatch
  <2> QED
    BY <1>2, <1>5, <1>6, <2>1, SMTT(30) DEF IInv, BytesMatch, Moved, Exists, Plain, Chunks
<1>10. Classified'
  <2>1. u \in ContextWriters => class[d] # "none"
    BY <1>2, Zenon DEF IInv, Classified, d
  <2>2. \A c \in Contents : row'[c].domain = "context" => class[c] # "none"
    BY <1>5, <1>6, <2>1, Zenon DEF IInv, Classified, Domain
  <2> QED
    BY <1>2, <1>3, <2>2, Zenon DEF IInv, Classified, Moved, ContextWriters
<1>11. ShredUnderWay'
  <2>1. ASSUME shredding.pc = "unlink" PROVE row'[shredding.d].tombstoned
    <3>1. shredding.d \in Contents /\ row[shredding.d].tombstoned
      BY <1>1, <2>1 DEF IInv, TypeOK, NoCall, ShredUnderWay
    <3>2. Exists(shredding.d)
      BY <1>1, <3>1, RowFacts, Zenon DEF Exists
    <3> QED
      BY <1>7, <3>1, <3>2, Zenon
  <2> QED
    BY <1>3, <2>1, Zenon DEF ShredUnderWay
<1>12. ASSUME ~Overlap
       PROVE  /\ Committing(d) = {u} /\ d \notin sweeping /\ row[d] = NoRow
              /\ rewrapping # NoCall => rewrapping.d # d
              /\ file[d] = upload[u].seal
  BY <1>1, <1>2, <1>12 DEF IInv, OneAtATime, Committing, CommitKnows, d
<1>13. OneAtATime'
  <2>1. \A c \in Contents : Committing(c)' \subseteq Committing(c)
    BY <1>2, Zenon DEF Committing, Moved
  <2> QED
    BY <1>1, <1>3, <1>5, <1>12, <2>1, Zenon DEF OneAtATime, Overlap
<1>14. CommitKnows'
  <2> SUFFICES ASSUME ~Overlap, NEW v \in Uploaders, v # u
               PROVE  LET c == upload[v].d IN
                      /\ upload[v].pc \in {"seal", "publish", "insert"} => row'[c] = NoRow
                      /\ upload[v].pc = "insert" => file[c] = upload[v].seal
                      /\ upload[v].pc \in {"hit", "ok"} =>
                            /\ row'[c] # NoRow
                            /\ v \in ContextWriters => row'[c].domain = "context"
    BY <1>2, <1>3, Zenon DEF CommitKnows, Overlap, Exists, ContextWriters, Moved
  <2>1. upload[v].d \in Contents
    BY <1>1, Zenon DEF TypeOK, Uploads
  <2>2. upload[v].pc \in {"seal", "publish", "insert", "hit", "ok"} => upload[v].d # d
    BY <1>12, Zenon DEF Committing
  <2> QED
    BY <1>5, <2>1, <2>2, Zenon DEF IInv, CommitKnows, Exists
<1>15. RotationKnows'
  <2> SUFFICES ASSUME ~Overlap, rewrapping # NoCall, readable(rewrapping.d)'
               PROVE  row'[rewrapping.d].key = rewrapping.key
    BY <1>3, Zenon DEF RotationKnows, Overlap, readable, Exists
  <2>1. rewrapping.d \in Contents /\ rewrapping.d # d
    BY <1>1, <1>12, Zenon DEF TypeOK
  <2>2. row'[rewrapping.d] = row[rewrapping.d]
    BY <1>5, <2>1, Zenon
  <2> QED
    BY <1>3, <2>2, Zenon DEF IInv, RotationKnows, readable, Exists
<1>16. Readable'
  BY <1>3, <1>5, <1>6, <1>12, Zenon DEF IInv, Readable, CommittedReadable, Overlap, readable, Exists
<1>17. HeldKept'
  BY <1>3, <1>7, Zenon DEF IInv, HeldKept, Overlap, Exists, ContextWriters
<1> QED
  BY <1>8, <1>9, <1>10, <1>11, <1>13, <1>14, <1>15, <1>16, <1>17, Zenon DEF IInv

LEMMA CloseStep ==
    ASSUME IInv, NEW u \in Uploaders, UNCHANGED env, Close(u)
    PROVE  IInv'
<1> DEFINE p == IF Answered(u) THEN "ok" ELSE "idle"
<1>1. TypeOK /\ OneAtATime
  BY Zenon DEF IInv
<1>2. Moved(u, p) /\ upload[u].pc \in {"hit", "refused", "close"}
  BY <1>1, UploadSteps, Zenon DEF Close
<1>3. UNCHANGED <<row, file, pins, held, class, sweeping, shredding, pinning, rewrapping,
                  seals, crashes>>
  BY Zenon DEF Close, admin
<1>4. \/ p = "ok" /\ (~Overlap => /\ Exists(upload[u].d)
                                  /\ u \in ContextWriters => row[upload[u].d].domain = "context")
      \/ p = "idle"
  <2>1. CASE Answered(u)
    BY <2>1, Zenon DEF IInv, CommitKnows, Answered
  <2>2. CASE ~Answered(u)
    BY <2>2, Zenon
  <2> QED
    BY <2>1, <2>2, Zenon
<1> HIDE DEF p
<1>5. TypeOK'
  BY <1>1, <1>2, <1>3, Zenon DEF TypeOK, Moved
<1>6. BytesMatch' /\ Classified'
  BY <1>2, <1>3, <1>4 DEF IInv, BytesMatch, Classified, Moved, Exists, Plain, Chunks, ContextWriters
<1>7. ShredUnderWay' /\ RotationKnows' /\ Readable' /\ HeldKept'
  BY <1>3, Zenon DEF IInv, ShredUnderWay, RotationKnows, Readable, CommittedReadable, HeldKept,
              Overlap, readable, Exists, ContextWriters
<1>8. OneAtATime'
  BY <1>1, <1>2, <1>3, KeepsItsTurn, Zenon
<1>9. CommitKnows'
  BY <1>2, <1>3, <1>4, Zenon DEF IInv, CommitKnows, Moved, Overlap, Exists, ContextWriters
<1> QED
  BY <1>5, <1>6, <1>7, <1>8, <1>9, Zenon DEF IInv

\* ... and the reference to what was stored.
LEMMA ReferStep ==
    ASSUME IInv, NEW u \in Uploaders, UNCHANGED env, Refer(u)
    PROVE  IInv'
<1>1. TypeOK /\ upload[u].d \in Contents
  BY Zenon DEF IInv, TypeOK, Uploads
<1>2. Moved(u, "idle") /\ upload[u].pc = "ok"
  BY <1>1, UploadSteps, Zenon DEF Refer
<1>3. UNCHANGED <<row, file, pins, class, sweeping, shredding, pinning, rewrapping, seals, crashes>>
  BY Zenon DEF Refer, admin
<1>4. PICK h \in {{"event"}, {"checkpoint"}, {"evidence"}, {"recording"}, {}} :
        held' = [held EXCEPT ![upload[u].d] = @ \cup h]
  BY Zenon DEF Refer
<1>5. held' \in [Contents -> SUBSET Reasons] /\ \A d \in Contents : d # upload[u].d => held'[d] = held[d]
  BY <1>1, <1>4, Zenon DEF TypeOK, Reasons
<1>6. TypeOK'
  BY <1>1, <1>2, <1>3, <1>5, Zenon DEF TypeOK, Moved
<1>7. Classified'
  BY <1>2, <1>3, Zenon DEF IInv, Classified, Moved, ContextWriters
<1>8. HeldKept'
  BY <1>2, <1>3, <1>5, Zenon DEF IInv, HeldKept, CommitKnows, Overlap, Exists, ContextWriters
<1> QED
  BY <1>2, <1>3, <1>6, <1>7, <1>8, OutOfTheWay, Zenon DEF IInv

-----------------------------------------------------------------------------
(***************************************************************************)
(* Steps of the operator's commands.                                       *)
(***************************************************************************)
\* What depends on the rows, the containers and the calls in flight alone.
LEMMA StoreUntouched ==
    ASSUME IInv, UNCHANGED <<row, file, upload, sweeping, rewrapping, env>>
    PROVE  BytesMatch' /\ OneAtATime' /\ CommitKnows' /\ RotationKnows' /\ Readable'
<1>1. BytesMatch' /\ RotationKnows' /\ Readable'
  BY Zenon DEF IInv, BytesMatch, RotationKnows, Readable, CommittedReadable, Overlap, readable, Exists,
         Plain, Chunks
<1>2. OneAtATime'
  BY DEF IInv, OneAtATime, Committing, Overlap
<1>3. CommitKnows'
  BY Zenon DEF IInv, CommitKnows, Overlap, Exists, ContextWriters
<1> QED
  BY <1>1, <1>2, <1>3, Zenon

LEMMA ElapseStep ==
    ASSUME IInv, NEW d \in Contents, UNCHANGED env, Elapse(d)
    PROVE  IInv'
<1>1. UNCHANGED <<row, file, pins, upload, sweeping, shredding, pinning, rewrapping, seals, crashes>>
  BY Zenon DEF Elapse, admin
<1>2. /\ held' \in [Contents -> SUBSET Reasons] /\ \A c \in Contents : held'[c] \subseteq held[c]
      /\ class' \in [Contents -> {"none", "bounded", "elapsed"}]
      /\ \A c \in Contents : class'[c] = "none" <=> class[c] = "none"
  <2>1. CASE held' = [held EXCEPT ![d] = @ \ {"recording"}] /\ UNCHANGED class
    BY <2>1, Zenon DEF IInv, TypeOK
  <2>2. CASE class[d] = "bounded" /\ class' = [class EXCEPT ![d] = "elapsed"] /\ UNCHANGED held
    BY <2>2, Zenon DEF IInv, TypeOK
  <2> QED
    BY <2>1, <2>2, Zenon DEF Elapse
<1>3. TypeOK'
  BY <1>1, <1>2, Zenon DEF IInv, TypeOK
<1>4. Classified' /\ ShredUnderWay'
  <2>1. \A u \in Uploaders : upload[u].d \in Contents
    BY Zenon DEF IInv, TypeOK, Uploads
  <2> QED
    BY <1>1, <1>2, <2>1, Zenon DEF IInv, Classified, ShredUnderWay, ContextWriters
<1>5. HeldKept'
  BY <1>1, <1>2, Zenon DEF IInv, HeldKept, Overlap, Exists, ContextWriters
<1> QED
  BY <1>1, <1>3, <1>4, <1>5, StoreUntouched, Zenon DEF IInv

\* Pins are no part of what the invariant says.
LEMMA PinSteps ==
    ASSUME IInv, UNCHANGED env,
           \/ pin
           \/ \E d \in Contents, e \in Evidence : PinCheck(d, e) \/ unpin(d, e)
    PROVE  IInv'
<1>1. UNCHANGED <<row, file, held, class, upload, sweeping, shredding, rewrapping, seals, crashes>>
  BY Zenon DEF pin, PinCheck, unpin, admin
<1>2. pins' \in [Contents -> SUBSET Evidence]
      /\ pinning' \in {NoCall} \cup [pc : {"insert"}, d : Contents, e : Evidence]
  <2>1. CASE pin
    <3>1. pinning \in [pc : {"insert"}, d : Contents, e : Evidence]
      BY <2>1 DEF IInv, TypeOK, pin, NoCall
    <3> QED
      BY <2>1, <3>1, Zenon DEF IInv, TypeOK, pin
  <2>2. ASSUME NEW d \in Contents, NEW e \in Evidence, PinCheck(d, e)
        PROVE  /\ pins' \in [Contents -> SUBSET Evidence]
               /\ pinning' \in {NoCall} \cup [pc : {"insert"}, d : Contents, e : Evidence]
    BY <2>2, Zenon DEF IInv, TypeOK, PinCheck
  <2>3. ASSUME NEW d \in Contents, NEW e \in Evidence, unpin(d, e)
        PROVE  /\ pins' \in [Contents -> SUBSET Evidence]
               /\ pinning' \in {NoCall} \cup [pc : {"insert"}, d : Contents, e : Evidence]
    BY <2>3, Zenon DEF IInv, TypeOK, unpin, admin
  <2> QED
    BY <2>1, <2>2, <2>3, Zenon
<1>3. TypeOK'
  BY <1>1, <1>2, Zenon DEF IInv, TypeOK
<1>4. Classified' /\ ShredUnderWay' /\ HeldKept'
  BY <1>1, Zenon DEF IInv, Classified, ShredUnderWay, HeldKept, Overlap, Exists, ContextWriters
<1> QED
  BY <1>1, <1>3, <1>4, StoreUntouched, Zenon DEF IInv

\* sweep deletes the rows nothing refers to.
LEMMA SweepStep ==
    ASSUME IInv, UNCHANGED env, sweep
    PROVE  IInv'
<1>1. /\ UNCHANGED <<file, pins, held, class, upload, shredding, pinning, rewrapping, seals, crashes>>
      /\ sweeping = {} /\ sweeping' \subseteq Contents
      /\ \A d \in sweeping' : Unreferenced(d) /\ Alone(d)
  BY Zenon DEF sweep
<1>2. /\ row' \in [Contents -> Rows]
      /\ \A d \in Contents : row'[d] = IF d \in sweeping' THEN NoRow ELSE row[d]
  BY RowFacts, Zenon DEF sweep, IInv, TypeOK
<1>3. NoRow.domain = "none" /\ ~NoRow.tombstoned
  BY RowFacts, Zenon DEF IInv
<1>4. TypeOK'
  BY <1>1, <1>2, Zenon DEF IInv, TypeOK
<1>5. BytesMatch'
  BY <1>1, <1>2, Zenon DEF IInv, BytesMatch, Exists, Plain, Chunks
<1>6. Classified'
  BY <1>1, <1>2, <1>3, Zenon DEF IInv, Classified, ContextWriters
<1>7. ShredUnderWay'
  <2>1. shredding.pc = "unlink" => shredding.d \in Contents /\ shredding.d \notin sweeping'
    BY <1>1 DEF IInv, TypeOK, NoCall, ShredUnderWay, Unreferenced, readable
  <2> QED
    BY <1>1, <1>2, <2>1, Zenon DEF IInv, ShredUnderWay
<1>8. ~Overlap => \A d \in sweeping' : /\ Committing(d) = {}
                                       /\ rewrapping # NoCall => rewrapping.d # d
  BY <1>1, Zenon DEF Alone
<1>9. \A d \in Contents : Committing(d)' = Committing(d)
  BY <1>1, Zenon DEF Committing
<1>10. OneAtATime'
  BY <1>1, <1>2, <1>8, <1>9 DEF IInv, OneAtATime, Overlap
<1>11. CommitKnows'
  <2> SUFFICES ASSUME ~Overlap, NEW u \in Uploaders
               PROVE  LET c == upload[u].d IN
                      /\ upload[u].pc \in {"seal", "publish", "insert"} => row'[c] = NoRow
                      /\ upload[u].pc = "insert" => file[c] = upload[u].seal
                      /\ upload[u].pc \in {"hit", "ok"} =>
                            /\ row'[c] # NoRow
                            /\ u \in ContextWriters => row'[c].domain = "context"
    BY <1>1, Zenon DEF CommitKnows, Overlap, Exists, ContextWriters
  <2>1. upload[u].d \in Contents
    BY Zenon DEF IInv, TypeOK, Uploads
  <2>2. upload[u].pc \in {"seal", "publish", "insert", "hit", "ok"} => upload[u].d \notin sweeping'
    BY <1>8, Zenon DEF Committing
  <2> QED
    BY <1>2, <2>1, <2>2, Zenon DEF IInv, CommitKnows, Exists
<1>12. RotationKnows'
  <2> SUFFICES ASSUME ~Overlap, rewrapping # NoCall, readable(rewrapping.d)'
               PROVE  row'[rewrapping.d].key = rewrapping.key
    BY <1>1, Zenon DEF RotationKnows, Overlap, readable, Exists
  <2>1. rewrapping.d \in Contents /\ rewrapping.d \notin sweeping'
    BY <1>8, Zenon DEF IInv, TypeOK
  <2> QED
    BY <1>1, <1>2, <2>1, Zenon DEF IInv, RotationKnows, readable, Exists
<1>13. Readable'
  BY <1>1, <1>2, Zenon DEF IInv, Readable, CommittedReadable, Overlap, readable, Exists
<1>14. HeldKept'
  <2> SUFFICES ASSUME ~Overlap, NEW d \in Contents, row'[d] = NoRow
               PROVE  /\ {"event", "checkpoint"} \cap held[d] = {}
                      /\ "evidence" \in held[d] => ContextWriters # {}
    BY <1>1, Zenon DEF HeldKept, Overlap, Exists, ContextWriters
  <2>1. CASE d \in sweeping'
    BY <1>1, <2>1, Zenon DEF Unreferenced, IInv, Classified
  <2>2. CASE d \notin sweeping'
    BY <1>2, <2>2, Zenon DEF IInv, HeldKept, Exists
  <2> QED
    BY <2>1, <2>2, Zenon
<1> QED
  BY <1>4, <1>5, <1>6, <1>7, <1>10, <1>11, <1>12, <1>13, <1>14, Zenon DEF IInv

\* Its unlinks take containers no row names; its death changes only what is left to do.
LEMMA SweepUnlinkStep ==
    ASSUME IInv, UNCHANGED env, SweepUnlink \/ SweepDies
    PROVE  IInv'
<1>1. /\ UNCHANGED <<row, pins, held, class, upload, shredding, pinning, rewrapping, seals>>
      /\ sweeping' \subseteq sweeping /\ crashes' \in Nat
      /\ file' \in [Contents -> Nat] /\ \A d \in Contents : d \notin sweeping => file'[d] = file[d]
  BY DEF SweepUnlink, SweepDies, IInv, TypeOK
<1>2. TypeOK'
  BY <1>1, Zenon DEF IInv, TypeOK
<1>3. BytesMatch' /\ Classified' /\ ShredUnderWay' /\ RotationKnows' /\ HeldKept'
  BY <1>1, Zenon DEF IInv, BytesMatch, Classified, ShredUnderWay, RotationKnows, HeldKept,
              Overlap, readable, Exists, Plain, Chunks, ContextWriters
<1>4. OneAtATime'
  BY <1>1 DEF IInv, OneAtATime, Committing, Overlap
<1>5. Readable'
  BY <1>1, Zenon DEF IInv, OneAtATime, Readable, CommittedReadable, Overlap, readable, Exists
<1>6. CommitKnows'
  <2>1. ASSUME ~Overlap, NEW u \in Uploaders, upload[u].pc = "insert"
        PROVE  file'[upload[u].d] = upload[u].seal
    <3>1. upload[u].d \in Contents /\ upload[u].d \notin sweeping
      BY <2>1, Zenon DEF IInv, TypeOK, Uploads, OneAtATime, Committing
    <3> QED
      BY <1>1, <2>1, <3>1, Zenon DEF IInv, CommitKnows
  <2> QED
    BY <1>1, <2>1, Zenon DEF IInv, CommitKnows, Overlap, Exists, ContextWriters
<1> QED
  BY <1>2, <1>3, <1>4, <1>5, <1>6, Zenon DEF IInv

LEMMA ShredCallSteps ==
    ASSUME IInv, UNCHANGED env, ShredDies \/ \E d \in Contents : ShredCheck(d)
    PROVE  IInv'
<1>1. /\ UNCHANGED <<row, file, pins, held, class, upload, sweeping, pinning, rewrapping, seals>>
      /\ crashes' \in Nat /\ shredding'.pc # "unlink"
      /\ shredding' \in {NoCall} \cup [pc : {"update", "unlink"}, d : Contents]
  BY DEF ShredDies, ShredCheck, NoCall, IInv, TypeOK
<1>2. TypeOK'
  BY <1>1, Zenon DEF IInv, TypeOK
<1>3. Classified' /\ ShredUnderWay' /\ HeldKept'
  BY <1>1, Zenon DEF IInv, Classified, ShredUnderWay, HeldKept, Overlap, Exists, ContextWriters
<1> QED
  BY <1>1, <1>2, <1>3, StoreUntouched, Zenon DEF IInv

\* A statement that rewrites a stored row, of a content nobody commits or sweeps,
\* leaves a row that tells as much as before.
LEMMA Rewritten ==
    ASSUME IInv, NEW d \in Contents, NEW r \in Rows, Exists(d),
           r # NoRow, r.bytes = row[d].bytes, r.domain = row[d].domain,
           row' = [row EXCEPT ![d] = r],
           UNCHANGED <<file, pins, held, class, upload, sweeping, pinning, seals, crashes, env>>
    PROVE  /\ row' \in [Contents -> Rows] /\ row'[d] = r /\ \A c \in Contents : c # d => row'[c] = row[c]
           /\ BytesMatch' /\ Classified' /\ CommitKnows' /\ HeldKept'
<1>1. row' \in [Contents -> Rows] /\ row'[d] = r /\ \A c \in Contents : c # d => row'[c] = row[c]
  BY Zenon DEF IInv, TypeOK
<1>2. BytesMatch'
  BY <1>1, Zenon DEF IInv, BytesMatch, Exists, Plain, Chunks
<1>3. Classified'
  BY <1>1, Zenon DEF IInv, Classified, ContextWriters
<1>4. CommitKnows'
  <2>1. \A u \in Uploaders : upload[u].d \in Contents
    BY Zenon DEF IInv, TypeOK, Uploads
  <2> QED
    BY <1>1, <2>1, Zenon DEF IInv, CommitKnows, Overlap, Exists, ContextWriters
<1>5. HeldKept'
  BY <1>1, Zenon DEF IInv, HeldKept, Overlap, Exists, ContextWriters
<1> QED
  BY <1>1, <1>2, <1>3, <1>4, <1>5, Zenon

LEMMA ShredStep ==
    ASSUME IInv, UNCHANGED env, shred
    PROVE  IInv'
<1> DEFINE d == shredding.d
<1>1. /\ UNCHANGED <<file, pins, held, class, upload, sweeping, pinning, rewrapping, seals, crashes>>
      /\ shredding.pc = "update" /\ d \in Contents
  BY DEF shred, IInv, TypeOK, NoCall
<1>2. CASE readable(d) /\ pins[d] = {}
  <2>1. row' = [row EXCEPT ![d] = Shredded(d)] /\ shredding' = [shredding EXCEPT !.pc = "unlink"]
    BY <1>2, Zenon DEF shred
  <2>2. shredding' = [pc |-> "unlink", d |-> d]
    BY <1>1, <2>1 DEF IInv, TypeOK, NoCall
  <2>3. /\ Shredded(d) \in Rows /\ Shredded(d).tombstoned /\ Shredded(d) # NoRow
        /\ Shredded(d).bytes = row[d].bytes /\ Shredded(d).domain = row[d].domain
    BY <1>1, RowFacts, Zenon DEF IInv
  <2>4. Exists(d)
    BY <1>2, Zenon DEF readable
  <2> DEFINE r == Shredded(d)
  <2> HIDE DEF d, r
  <2>5. /\ row' \in [Contents -> Rows] /\ row'[d] = r /\ \A c \in Contents : c # d => row'[c] = row[c]
        /\ BytesMatch' /\ Classified' /\ CommitKnows' /\ HeldKept'
    BY <1>1, <2>1, <2>3, <2>4, Rewritten, Zenon DEF r
  <2>6. TypeOK' /\ ShredUnderWay'
    BY <1>1, <2>2, <2>3, <2>5, Zenon DEF IInv, TypeOK, ShredUnderWay, r
  <2>7. OneAtATime'
    BY <1>1, <2>4, <2>5 DEF IInv, OneAtATime, Committing, Overlap, Exists
  <2>8. RotationKnows'
    <3> SUFFICES ASSUME ~Overlap, rewrapping # NoCall, readable(rewrapping.d)'
                 PROVE  row'[rewrapping.d].key = rewrapping.key
      BY <1>1, Zenon DEF RotationKnows, Overlap, readable, Exists
    <3>1. rewrapping.d \in Contents /\ rewrapping.d # d
      BY <1>1, <2>3, <2>5, Zenon DEF IInv, TypeOK, readable, r
    <3> QED
      BY <1>1, <2>5, <3>1, Zenon DEF IInv, RotationKnows, readable, Exists
  <2>9. Readable'
    BY <1>1, <2>3, <2>5, Zenon DEF IInv, Readable, CommittedReadable, Overlap, readable, Exists, r
  <2> QED
    BY <2>5, <2>6, <2>7, <2>8, <2>9, Zenon DEF IInv
<1>3. CASE ~(readable(d) /\ pins[d] = {})
  <2>1. shredding' = NoCall /\ UNCHANGED row
    BY <1>3, Zenon DEF shred
  <2>2. TypeOK'
    BY <1>1, <2>1, Zenon DEF IInv, TypeOK
  <2>3. Classified' /\ ShredUnderWay' /\ HeldKept'
    BY <1>1, <2>1, Zenon DEF IInv, Classified, ShredUnderWay, NoCall, HeldKept, Overlap, Exists, ContextWriters
  <2> QED
    BY <1>1, <2>1, <2>2, <2>3, StoreUntouched, Zenon DEF IInv
<1> QED
  BY <1>2, <1>3, Zenon

\* The row behind the container a shred unlinks is a tombstone.
LEMMA ShredUnlinkStep ==
    ASSUME IInv, UNCHANGED env, ShredUnlink
    PROVE  IInv'
<1> DEFINE d == shredding.d
<1>1. /\ UNCHANGED <<row, pins, held, class, upload, sweeping, pinning, rewrapping, seals, crashes>>
      /\ file' = [file EXCEPT ![d] = 0] /\ shredding' = NoCall
      /\ d \in Contents /\ row[d].tombstoned
  BY DEF ShredUnlink, IInv, TypeOK, NoCall, ShredUnderWay
<1>2. row[d] # NoRow
  BY <1>1, RowFacts, Zenon DEF IInv
<1> HIDE DEF d
<1>3. TypeOK'
  BY <1>1, Zenon DEF IInv, TypeOK
<1>4. BytesMatch' /\ Classified' /\ RotationKnows' /\ HeldKept'
  BY <1>1, Zenon DEF IInv, BytesMatch, Classified, RotationKnows, HeldKept,
              Overlap, readable, Exists, Plain, Chunks, ContextWriters
<1>5. ShredUnderWay'
  BY <1>1, Zenon DEF ShredUnderWay, NoCall
<1>6. OneAtATime'
  BY <1>1 DEF IInv, OneAtATime, Committing, Overlap
<1>7. Readable'
  BY <1>1, Zenon DEF IInv, TypeOK, Readable, CommittedReadable, Overlap, readable, Exists
<1>8. CommitKnows'
  <2>1. ASSUME ~Overlap, NEW u \in Uploaders, upload[u].pc = "insert"
        PROVE  file'[upload[u].d] = upload[u].seal
    <3>1. upload[u].d \in Contents /\ upload[u].d # d
      BY <1>2, <2>1, Zenon DEF IInv, TypeOK, Uploads, CommitKnows
    <3> QED
      BY <1>1, <2>1, <3>1, Zenon DEF IInv, TypeOK, CommitKnows
  <2> QED
    BY <1>1, <2>1, Zenon DEF IInv, CommitKnows, Overlap, Exists, ContextWriters
<1> QED
  BY <1>3, <1>4, <1>5, <1>6, <1>7, <1>8, Zenon DEF IInv

LEMMA RewrapReadStep ==
    ASSUME IInv, NEW d \in Contents, UNCHANGED env, RewrapRead(d)
    PROVE  IInv'
<1>1. /\ UNCHANGED <<row, file, pins, held, class, upload, sweeping, shredding, pinning, seals, crashes>>
      /\ rewrapping' = [pc |-> "update", d |-> d, key |-> row[d].key] /\ Alone(d)
  BY Zenon DEF RewrapRead
<1>2. rewrapping' \in [pc : {"update"}, d : Contents, key : Nat]
      /\ rewrapping'.d = d /\ rewrapping'.key = row[d].key
  BY <1>1, Zenon DEF IInv, TypeOK, Rows
<1>3. TypeOK'
  BY <1>1, <1>2, Zenon DEF IInv, TypeOK
<1>4. BytesMatch' /\ Classified' /\ ShredUnderWay' /\ Readable' /\ HeldKept'
  BY <1>1, Zenon DEF IInv, BytesMatch, Classified, ShredUnderWay, Readable, CommittedReadable, HeldKept,
              Overlap, readable, Exists, Plain, Chunks, ContextWriters
<1>5. OneAtATime'
  <2>1. \A c \in Contents : Committing(c)' = Committing(c)
    BY <1>1, Zenon DEF Committing
  <2>2. ~Overlap => Committing(d) = {} /\ d \notin sweeping
    BY <1>1, Zenon DEF Alone
  <2> QED
    BY <1>1, <1>2, <2>1, <2>2 DEF IInv, OneAtATime, Overlap
<1>6. CommitKnows'
  BY <1>1, Zenon DEF IInv, CommitKnows, Overlap, Exists, ContextWriters
<1>7. RotationKnows'
  BY <1>1, <1>2, Zenon DEF RotationKnows
<1> QED
  BY <1>3, <1>4, <1>5, <1>6, <1>7, Zenon DEF IInv

LEMMA RewrapStep ==
    ASSUME IInv, UNCHANGED env, rewrap_one
    PROVE  IInv'
<1> DEFINE d == rewrapping.d
           r == [row[d] EXCEPT !.key = rewrapping.key, !.wrap = 2]
<1>1. /\ UNCHANGED <<file, pins, held, class, upload, sweeping, shredding, pinning, seals, crashes>>
      /\ rewrapping' = NoCall /\ rewrapping # NoCall
      /\ d \in Contents /\ rewrapping.key \in Nat
  BY DEF rewrap_one, IInv, TypeOK, NoCall
<1>2. CASE readable(d)
  <2>1. row' = [row EXCEPT ![d] = r]
    BY <1>2, Zenon DEF rewrap_one
  <2>2. /\ r \in Rows /\ r # NoRow /\ r.key = rewrapping.key /\ r.tombstoned = row[d].tombstoned
        /\ r.bytes = row[d].bytes /\ r.domain = row[d].domain
    BY <1>1, RowFacts, Zenon DEF IInv
  <2>3. Exists(d)
    BY <1>2, Zenon DEF readable
  <2>4. ~Overlap => row[d].key = rewrapping.key
    BY <1>1, <1>2, Zenon DEF IInv, RotationKnows
  <2> HIDE DEF d, r
  <2>5. /\ row' \in [Contents -> Rows] /\ row'[d] = r /\ \A c \in Contents : c # d => row'[c] = row[c]
        /\ BytesMatch' /\ Classified' /\ CommitKnows' /\ HeldKept'
    BY <1>1, <2>1, <2>2, <2>3, Rewritten, Zenon
  <2>6. TypeOK'
    BY <1>1, <2>5, Zenon DEF IInv, TypeOK
  <2>7. ShredUnderWay'
    <3>1. shredding.pc = "unlink" => shredding.d \in Contents
      BY DEF IInv, TypeOK, NoCall
    <3> QED
      BY <1>1, <2>2, <2>5, <3>1, Zenon DEF IInv, ShredUnderWay
  <2>8. OneAtATime'
    BY <1>1, <2>3, <2>5 DEF IInv, OneAtATime, Committing, Overlap, Exists
  <2>9. RotationKnows'
    BY <1>1, Zenon DEF RotationKnows
  <2>10. Readable'
    BY <1>1, <2>2, <2>3, <2>4, <2>5, Zenon
       DEF IInv, Readable, CommittedReadable, Overlap, readable, Exists
  <2> QED
    BY <2>5, <2>6, <2>7, <2>8, <2>9, <2>10, Zenon DEF IInv
<1>3. CASE ~readable(d)
  <2>1. UNCHANGED row
    BY <1>1, <1>3, Zenon DEF rewrap_one, IInv, TypeOK
  <2>2. TypeOK'
    BY <1>1, <2>1, Zenon DEF IInv, TypeOK
  <2>3. BytesMatch' /\ Classified' /\ ShredUnderWay' /\ Readable' /\ HeldKept' /\ CommitKnows'
    BY <1>1, <2>1, Zenon
       DEF IInv, BytesMatch, Classified, ShredUnderWay, Readable, CommittedReadable, HeldKept,
           CommitKnows, Overlap, readable, Exists, Plain, Chunks, ContextWriters
  <2>4. OneAtATime' /\ RotationKnows'
    BY <1>1, <2>1 DEF IInv, OneAtATime, RotationKnows, Committing, Overlap
  <2> QED
    BY <2>2, <2>3, <2>4, Zenon DEF IInv
<1> QED
  BY <1>2, <1>3, Zenon

-----------------------------------------------------------------------------
\* Every step of the store, of its clients and of its operator keeps the invariant.
LEMMA StepIInv == IInv /\ [Next /\ UNCHANGED env]_<<vars, env>> => IInv'
<1> SUFFICES ASSUME IInv, [Next /\ UNCHANGED env]_<<vars, env>> PROVE IInv'
  BY Zenon
<1>1. CASE UNCHANGED <<vars, env>>
  <2>1. UNCHANGED <<row, file, pins, held, class, upload, sweeping, shredding, pinning, rewrapping,
                    seals, crashes, env>>
    BY <1>1, Zenon DEF vars
  <2>2. TypeOK' /\ Classified' /\ ShredUnderWay' /\ HeldKept'
    BY <2>1, Zenon DEF IInv, TypeOK, Classified, ShredUnderWay, HeldKept, Overlap, Exists, ContextWriters
  <2> QED
    BY <2>1, <2>2, StoreUntouched, Zenon DEF IInv
<1>2. CASE Next /\ UNCHANGED env
  BY <1>2, BeforeCommit, CommitStep, SealStep, PublishStep, InsertStep, CloseStep, ReferStep,
     ElapseStep, PinSteps, SweepStep, SweepUnlinkStep, ShredCallSteps, ShredStep, ShredUnlinkStep,
     RewrapReadStep, RewrapStep, Zenon
     DEF Next
<1> QED
  BY <1>1, <1>2, Zenon

\* Whatever the contents, the uploaders, the number of chunks, sealings and crashes,
\* and however the operations interleave, the bytes under an address are the ones
\* that hash to it and nothing is sealed under a class's key before it has a class.
\* Where the operations on one content do not overlap, every committed blob opens,
\* nothing an event or a checkpoint refers to is swept, and an answered put opens
\* with its class's key.  With overlap these three do not hold.
THEOREM StoreKeepsBlobs == Spec => []BlobsAreKept
<1>1. Init => IInv
  BY InitIInv, Zenon
<1>2. IInv /\ [Next /\ UNCHANGED env]_<<vars, env>> => IInv'
  BY StepIInv, Zenon
<1>3. IInv => BlobsAreKept
  BY InvariantKeeps, Zenon
<1> QED
  BY <1>1, <1>2, <1>3, PTL DEF Spec

\* The rows a step changes: a sweep takes readable ones nobody pins, a commit
\* stores where there is none, a shred takes one nobody pins, a rotation rewrites
\* the key of a readable one.
LEMMA RowsChangeLawfully ==
    ASSUME TypeOK, Next, NEW d \in Contents, row'[d] # row[d]
    PROVE  /\ ~row[d].tombstoned
           /\ readable(d) /\ pins[d] # {} => row'[d] # NoRow /\ ~row'[d].tombstoned
<1>1. ASSUME NEW u \in Uploaders, Insert(u)
      PROVE  row[d] = NoRow
  <2>1. upload[u].d \in Contents
    BY Zenon DEF TypeOK, Uploads
  <2> QED
    BY <1>1, <2>1, Zenon DEF Insert, Exists, TypeOK
<1>2. CASE sweep
  BY <1>2, Zenon DEF sweep, Unreferenced, readable
<1>3. CASE shred
  <2>1. shredding.d \in Contents
    BY <1>3, Zenon DEF shred, TypeOK, NoCall
  <2>2. d = shredding.d /\ readable(d) /\ pins[d] = {}
    BY <1>3, <2>1, Zenon DEF shred, TypeOK
  <2> QED
    BY <2>2, Zenon DEF readable
<1>4. CASE rewrap_one
  <2> DEFINE c == rewrapping.d
             r == [row[c] EXCEPT !.key = rewrapping.key, !.wrap = 2]
  <2>1. c \in Contents /\ rewrapping.key \in Nat
    BY <1>4 DEF rewrap_one, TypeOK, NoCall
  <2>2. r # NoRow /\ r.tombstoned = row[c].tombstoned
    BY <2>1, RowFacts, Zenon
  <2>3. row' = [row EXCEPT ![c] = IF readable(c) THEN r ELSE row[c]]
    BY <1>4, Zenon DEF rewrap_one
  <2> HIDE DEF c, r
  <2>4. d = c /\ readable(c) /\ row'[c] = r
    BY <2>1, <2>3, Zenon DEF TypeOK
  <2> QED
    BY <2>2, <2>4, Zenon DEF readable
<1>5. row' = row \/ sweep \/ shred \/ rewrap_one \/ \E u \in Uploaders : Insert(u)
  BY Zenon DEF Next, put, begin, WriteFile, RecordChunk, abort, commit, Seal, Publish, Close, Crash, Refer,
         Elapse, ShredCheck, RewrapRead, PinCheck, unpin, SweepUnlink, SweepDies, pin, ShredUnlink,
         ShredDies
<1>6. ~NoRow.tombstoned
  BY RowFacts, Zenon
<1> QED
  BY <1>1, <1>2, <1>3, <1>4, <1>5, <1>6, Zenon DEF readable, Exists

\* A shredded blob stays shredded, and a pinned one is neither swept nor shredded:
\* no retry, rotation, sweep or crash of any number of clients takes either back.
THEOREM StoreRemovesLawfully == Spec => RemovalIsLawful
<1> DEFINE Lawful ==
      \A d \in Contents :
        /\ row[d].tombstoned => row'[d] = row[d]
        /\ readable(d) /\ pins[d] # {} => row'[d] # NoRow /\ ~row'[d].tombstoned
<1>1. Init => IInv
  BY InitIInv, Zenon
<1>2. IInv /\ [Next /\ UNCHANGED env]_<<vars, env>> => IInv'
  BY StepIInv, Zenon
<1>3. IInv /\ [Next /\ UNCHANGED env]_<<vars, env>> => [Lawful]_vars
  <2> SUFFICES ASSUME TypeOK, Next, NEW d \in Contents
               PROVE  /\ row[d].tombstoned => row'[d] = row[d]
                      /\ readable(d) /\ pins[d] # {} => row'[d] # NoRow /\ ~row'[d].tombstoned
    BY Zenon DEF IInv, vars
  <2>1. CASE row'[d] # row[d]
    BY <2>1, RowsChangeLawfully, Zenon
  <2>2. CASE row'[d] = row[d]
    BY <2>2, Zenon DEF readable, Exists
  <2> QED
    BY <2>1, <2>2, Zenon
<1> QED
  BY <1>1, <1>2, <1>3, PTL DEF Spec, RemovalIsLawful
=============================================================================
