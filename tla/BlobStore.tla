------------------------------ MODULE BlobStore ------------------------------
(***************************************************************************)
(* The content-addressed blob store (gwk-kernel blob/store.rs), the        *)
(* context store in front of it (blob/context.rs) and the retention        *)
(* commands an operator runs beside the daemon.                            *)
(*                                                                         *)
(* A blob is a container file and a database row with the wrapped key.     *)
(* Every statement, rename and unlink is a step of its own, so operations  *)
(* of the daemon and of the operator interleave between them, and a crash  *)
(* may fall between any two.  A sealing mints a fresh key and nonce, so    *)
(* containers are told apart by the number of the sealing: a row opens the *)
(* container of its own sealing and no other.                              *)
(***************************************************************************)
EXTENDS Naturals, Sequences

CONSTANTS
    Contents,           \* digests
    Uploaders,          \* clients of the daemon, each with one upload at a time
    Evidence,           \* names a pin is held under
    Environments        \* what may happen around the store, and the bounds

\* What the constants are.
ASSUME BlobAssumption ==
    Environments \subseteq
        [context : SUBSET Uploaders,  \* the uploaders that put through the context store
         chunks : Nat \ {0},          \* chunks of every content
         overlap : BOOLEAN,           \* operations on one content overlap in time
         sweep : BOOLEAN,             \* sweep runs
         retire : BOOLEAN,            \* pin, unpin, shred and rotate run
         seals : Nat, crashes : Nat]  \* bounds on sealings and crashes

VARIABLES
    row,      \* gwk_internal.blob
    file,     \* the container at the content's path: the sealing it is of, or 0
    pins,     \* gwk_internal.blob_pin
    held,     \* who refers to the content: events, checkpoints, evidence
    class,    \* gwk.context_blob
    upload,   \* gwk_internal.blob_upload, the staged file and the call in flight
    sweeping, shredding, pinning, rewrapping,   \* the operator's calls in flight
    seals, crashes,
    env       \* the environment of this behaviour; never changes

vars == <<row, file, pins, held, class, upload, sweeping, shredding, pinning, rewrapping,
          seals, crashes>>

ContextWriters == env.context
Chunks == env.chunks
Overlap == env.overlap

NoRow == [key |-> 0, tombstoned |-> FALSE, wrap |-> 0, bytes |-> <<>>, domain |-> "none"]
Exists(d) == row[d] # NoRow
readable(d) == Exists(d) /\ ~row[d].tombstoned

Fresh(d) == [pc |-> "idle", d |-> d, written |-> 0, staged |-> <<>>, seal |-> 0]
NoCall == [pc |-> "none"]
Plain == [i \in 1..Chunks |-> i]    \* the bytes that hash to the address

Init ==
    /\ env \in Environments
    /\ row = [d \in Contents |-> NoRow] /\ file = [d \in Contents |-> 0]
    /\ pins = [d \in Contents |-> {}] /\ held = [d \in Contents |-> {}]
    /\ class = [d \in Contents |-> "none"]
    /\ upload \in [Uploaders -> {Fresh(d) : d \in Contents}]
    /\ sweeping = {} /\ shredding = NoCall /\ pinning = NoCall /\ rewrapping = NoCall
    /\ seals = 0 /\ crashes = 0

admin == <<sweeping, shredding, pinning, rewrapping>>

\* A commit between its look at the row and the reference to what it stored.
Committing(d) ==
    {u \in Uploaders : /\ upload[u].d = d
                       /\ upload[u].pc \in {"seal", "publish", "insert", "hit", "refused", "close", "ok"}}
Alone(d) ==
    Overlap \/ (Committing(d) = {} /\ d \notin sweeping
                /\ (rewrapping # NoCall => rewrapping.d # d))
-----------------------------------------------------------------------------
(***************************************************************************)
(* Uploads.                                                                *)
(***************************************************************************)
\* ContextCasStore::put refuses bytes of a key domain no class owns, then
\* claims the classification before it writes anything.
put(u) ==
    /\ u \in ContextWriters /\ upload[u].pc = "idle"
    /\ LET d == upload[u].d IN
        /\ class[d] = "none" /\ Exists(d) => row[d].domain = "context"
        /\ class' = [class EXCEPT ![d] = IF @ = "none" THEN "bounded" ELSE @]
        /\ upload' = [upload EXCEPT ![u].pc = "claimed"]
    /\ UNCHANGED <<row, file, pins, held, admin, seals, crashes>>

begin(u) ==
    /\ upload[u].pc = (IF u \in ContextWriters THEN "claimed" ELSE "idle")
    /\ seals < env.seals
    /\ upload' = [upload EXCEPT ![u].pc = "open"]
    /\ UNCHANGED <<row, file, pins, held, class, admin, seals, crashes>>

\* write_chunk: the bytes at their offset, then the row.
WriteFile(u) ==
    /\ upload[u].pc = "open" /\ upload[u].written < Chunks
    /\ \E byte \in {0, upload[u].written + 1} :
        upload' = [upload EXCEPT ![u].pc = "record",
                                 ![u].staged = SubSeq(@, 1, upload[u].written) \o <<byte>>]
    /\ UNCHANGED <<row, file, pins, held, class, admin, seals, crashes>>

RecordChunk(u) ==
    /\ upload[u].pc = "record"
    /\ upload' = [upload EXCEPT ![u].pc = "open", ![u].written = @ + 1]
    /\ UNCHANGED <<row, file, pins, held, class, admin, seals, crashes>>

\* abort, and the expiry of an upload nobody finished.
abort(u) ==
    /\ upload[u].pc \in {"open", "record"}
    /\ upload' = [upload EXCEPT ![u] = Fresh(upload[u].d)]
    /\ UNCHANGED <<row, file, pins, held, class, admin, seals, crashes>>
-----------------------------------------------------------------------------
(***************************************************************************)
(* commit.                                                                 *)
(***************************************************************************)
\* Mutant: a hit is a hit, whoever sealed it.
AcceptsAnyDomain(u) == ~row[upload[u].d].tombstoned

\* A row is a hit unless it is a tombstone or, for a context put, of another key
\* domain ...
Accepts(u) ==
    LET r == row[upload[u].d] IN
    ~r.tombstoned /\ (u \in ContextWriters => r.domain = "context")

\* ... and unless the two calls declared different media types, which they may.
Found(u, sameType) ==
    IF ~Exists(upload[u].d) THEN "seal"
    ELSE IF Accepts(u) /\ sameType THEN "hit" ELSE "refused"

\* Mutant: the digest is not compared with the address.
CommitUnchecked(u) ==
    /\ upload[u].pc = "open" /\ upload[u].written = Chunks
    /\ Alone(upload[u].d)
    /\ \E sameType \in BOOLEAN : upload' = [upload EXCEPT ![u].pc = Found(u, sameType)]
    /\ UNCHANGED <<row, file, pins, held, class, admin, seals, crashes>>

\* The plaintext is read back and hashed, and the row looked up: where there is
\* one nothing is written, and the answer is what it says now.
commit(u) ==
    /\ upload[u].pc = "open" /\ upload[u].written = Chunks
    /\ upload[u].staged = Plain
    /\ Alone(upload[u].d)
    /\ \E sameType \in BOOLEAN : upload' = [upload EXCEPT ![u].pc = Found(u, sameType)]
    /\ UNCHANGED <<row, file, pins, held, class, admin, seals, crashes>>

\* A fresh key and nonce; the container goes to a staging file.
Seal(u) ==
    /\ upload[u].pc = "seal" /\ seals < env.seals
    /\ seals' = seals + 1
    /\ upload' = [upload EXCEPT ![u].pc = "publish", ![u].seal = seals + 1]
    /\ UNCHANGED <<row, file, pins, held, class, admin, crashes>>

Domain(u) == IF u \in ContextWriters THEN "context" ELSE "kernel"
NewRow(u) == [key |-> upload[u].seal, tombstoned |-> FALSE, wrap |-> 1,
              bytes |-> upload[u].staged, domain |-> Domain(u)]

\* Mutant: the row before the container.
PublishRow(u) ==
    /\ upload[u].pc = "publish"
    /\ row' = [row EXCEPT ![upload[u].d] = NewRow(u)]
    /\ upload' = [upload EXCEPT ![u].pc = "insert"]
    /\ UNCHANGED <<file, pins, held, class, admin, seals, crashes>>

\* The rename puts the container at the content's path, whatever is there.
Publish(u) ==
    /\ upload[u].pc = "publish"
    /\ file' = [file EXCEPT ![upload[u].d] = upload[u].seal]
    /\ upload' = [upload EXCEPT ![u].pc = "insert"]
    /\ UNCHANGED <<row, pins, held, class, admin, seals, crashes>>

\* INSERT ... ON CONFLICT DO NOTHING.
Insert(u) ==
    /\ upload[u].pc = "insert"
    /\ row' = [row EXCEPT ![upload[u].d] = IF Exists(upload[u].d) THEN @ ELSE NewRow(u)]
    /\ upload' = [upload EXCEPT ![u].pc = "close"]
    /\ UNCHANGED <<file, pins, held, class, admin, seals, crashes>>

\* The upload is over.  After the insert the row is read again, whoever's it is:
\* that there is one answers the commit, and a context put asks its key domain.
Answered(u) ==
    \/ upload[u].pc = "hit"
    \/ /\ upload[u].pc = "close" /\ Exists(upload[u].d)
       /\ u \in ContextWriters => row[upload[u].d].domain = "context"
Close(u) ==
    /\ upload[u].pc \in {"hit", "refused", "close"}
    /\ upload' = [upload EXCEPT ![u] =
                    [Fresh(upload[u].d) EXCEPT !.pc = IF Answered(u) THEN "ok" ELSE "idle"]]
    /\ UNCHANGED <<row, file, pins, held, class, admin, seals, crashes>>

\* The daemon dies: the client tries again from the upload's row, or gives up.
Crash(u) ==
    /\ crashes < env.crashes /\ crashes' = crashes + 1
    /\ upload[u].pc \notin {"idle", "open"}
    /\ upload' = [upload EXCEPT ![u] = IF @.pc \in {"claimed", "ok"} THEN Fresh(@.d)
                                       ELSE [@ EXCEPT !.pc = "open", !.seal = 0]]
    /\ UNCHANGED <<row, file, pins, held, class, admin, seals>>

\* What the stored content is for: a payload of an event, the records of a
\* checkpoint, ordinary evidence, or a recording.  A client may also drop it.
Refer(u) ==
    /\ upload[u].pc = "ok"
    /\ held' \in {[held EXCEPT ![upload[u].d] = @ \cup h] :
                    h \in {{"event"}, {"checkpoint"}, {"evidence"}, {"recording"}, {}}}
    /\ upload' = [upload EXCEPT ![u].pc = "idle"]
    /\ UNCHANGED <<row, file, pins, class, admin, seals, crashes>>

\* A window elapses: of a recording's evidence, or of a bounded class.
Elapse(d) ==
    /\ \/ /\ "recording" \in held[d] /\ held' = [held EXCEPT ![d] = @ \ {"recording"}]
          /\ UNCHANGED class
       \/ /\ class[d] = "bounded" /\ class' = [class EXCEPT ![d] = "elapsed"]
          /\ UNCHANGED held
    /\ UNCHANGED <<row, file, pins, upload, admin, seals, crashes>>
-----------------------------------------------------------------------------
(***************************************************************************)
(* sweep.                                                                  *)
(***************************************************************************)

\* Evidence holds an unclassified content; the class holds a classified one.
Unreferenced(d) ==
    /\ readable(d)
    /\ pins[d] = {}
    /\ {"event", "checkpoint"} \cap held[d] = {}
    /\ {"evidence", "recording"} \cap held[d] = {} \/ class[d] # "none"
    /\ class[d] \in {"none", "elapsed"}

\* The rows go, and their pins with them ...
sweep ==
    /\ env.sweep /\ sweeping = {}
    /\ sweeping' = {d \in Contents : Unreferenced(d) /\ Alone(d)}
    /\ sweeping' # {}
    /\ row' = [d \in Contents |-> IF d \in sweeping' THEN NoRow ELSE row[d]]
    /\ UNCHANGED <<file, pins, held, class, upload, shredding, pinning, rewrapping, seals, crashes>>

\* ... then the containers, one by one, unless the command dies first.
SweepUnlink ==
    /\ \E d \in sweeping :
        /\ file' = [file EXCEPT ![d] = 0]
        /\ sweeping' = sweeping \ {d}
    /\ UNCHANGED <<row, pins, held, class, upload, shredding, pinning, rewrapping, seals, crashes>>

SweepDies ==
    /\ sweeping # {} /\ sweeping' = {}
    /\ crashes < env.crashes /\ crashes' = crashes + 1
    /\ UNCHANGED <<row, file, pins, held, class, upload, shredding, pinning, rewrapping, seals>>
-----------------------------------------------------------------------------
(***************************************************************************)
(* pin, unpin, shred, rewrap_one.                                          *)
(***************************************************************************)
PinCheck(d, e) ==
    /\ env.retire /\ pinning = NoCall /\ readable(d)
    /\ pinning' = [pc |-> "insert", d |-> d, e |-> e]
    /\ UNCHANGED <<row, file, pins, held, class, upload, sweeping, shredding, rewrapping, seals, crashes>>

\* The insert names the row: there is no pin without one.
pin ==
    /\ pinning.pc = "insert"
    /\ pins' = [pins EXCEPT ![pinning.d] = IF Exists(pinning.d) THEN @ \cup {pinning.e} ELSE @]
    /\ pinning' = NoCall
    /\ UNCHANGED <<row, file, held, class, upload, sweeping, shredding, rewrapping, seals, crashes>>

unpin(d, e) ==
    /\ env.retire /\ Exists(d) /\ e \in pins[d]
    /\ pins' = [pins EXCEPT ![d] = @ \ {e}]
    /\ UNCHANGED <<row, file, held, class, upload, admin, seals, crashes>>

ShredCheck(d) ==
    /\ env.retire /\ shredding = NoCall /\ readable(d) /\ pins[d] = {}
    /\ shredding' = [pc |-> "update", d |-> d]
    /\ UNCHANGED <<row, file, pins, held, class, upload, sweeping, pinning, rewrapping, seals, crashes>>

Shredded(d) == [row[d] EXCEPT !.key = 0, !.wrap = 0, !.tombstoned = TRUE]

\* The tombstone and the key in one statement, unless a pin came between.
shred ==
    /\ shredding.pc = "update"
    /\ LET d == shredding.d IN
        IF readable(d) /\ pins[d] = {}
          THEN /\ row' = [row EXCEPT ![d] = Shredded(d)]
               /\ shredding' = [shredding EXCEPT !.pc = "unlink"]
          ELSE shredding' = NoCall /\ UNCHANGED row
    /\ UNCHANGED <<file, pins, held, class, upload, sweeping, pinning, rewrapping, seals, crashes>>

ShredUnlink ==
    /\ shredding.pc = "unlink"
    /\ file' = [file EXCEPT ![shredding.d] = 0]
    /\ shredding' = NoCall
    /\ UNCHANGED <<row, pins, held, class, upload, sweeping, pinning, rewrapping, seals, crashes>>

ShredDies ==
    /\ shredding # NoCall /\ shredding' = NoCall
    /\ crashes < env.crashes /\ crashes' = crashes + 1
    /\ UNCHANGED <<row, file, pins, held, class, upload, sweeping, pinning, rewrapping, seals>>

\* The row and the container's header are read; the key must open.
RewrapRead(d) ==
    /\ env.retire /\ rewrapping = NoCall /\ Alone(d)
    /\ readable(d) /\ file[d] = row[d].key /\ row[d].wrap = 1
    /\ row[d].domain = "kernel"
    /\ rewrapping' = [pc |-> "update", d |-> d, key |-> row[d].key]
    /\ UNCHANGED <<row, file, pins, held, class, upload, sweeping, shredding, pinning, seals, crashes>>

\* Mutant: the update does not look at the tombstone.
RewrapAny ==
    /\ rewrapping.pc = "update"
    /\ row' = [row EXCEPT ![rewrapping.d] =
                IF Exists(rewrapping.d) THEN [@ EXCEPT !.key = rewrapping.key, !.wrap = 2] ELSE @]
    /\ rewrapping' = NoCall
    /\ UNCHANGED <<file, pins, held, class, upload, sweeping, shredding, pinning, seals, crashes>>

rewrap_one ==
    /\ rewrapping.pc = "update"
    /\ row' = [row EXCEPT ![rewrapping.d] =
                IF readable(rewrapping.d) THEN [@ EXCEPT !.key = rewrapping.key, !.wrap = 2] ELSE @]
    /\ rewrapping' = NoCall
    /\ UNCHANGED <<file, pins, held, class, upload, sweeping, shredding, pinning, seals, crashes>>
-----------------------------------------------------------------------------
Next ==
    \/ \E u \in Uploaders :
        \/ put(u) \/ begin(u) \/ WriteFile(u) \/ RecordChunk(u) \/ abort(u)
        \/ commit(u) \/ Seal(u) \/ Publish(u) \/ Insert(u) \/ Close(u) \/ Crash(u) \/ Refer(u)
    \/ \E d \in Contents : Elapse(d) \/ ShredCheck(d) \/ RewrapRead(d)
    \/ \E d \in Contents, e \in Evidence : PinCheck(d, e) \/ unpin(d, e)
    \/ sweep \/ SweepUnlink \/ SweepDies
    \/ pin \/ shred \/ ShredUnlink \/ ShredDies \/ rewrap_one

Spec == Init /\ [][Next /\ UNCHANGED env]_<<vars, env>>
-----------------------------------------------------------------------------
(***************************************************************************)
(* Properties.                                                             *)
(***************************************************************************)
\* A committed blob is there to be read: the row's key opens the container at
\* the content's path.
CommittedReadable ==
    \A d \in Contents : readable(d) => file[d] = row[d].key

\* What is stored under an address are the bytes that hash to it, however often
\* a chunk was sent again; and where operations on one content take turns, a
\* crash between any two of their steps leaves every committed blob readable.
CrashLeavesReadable ==
    /\ \A d \in Contents : readable(d) => row[d].bytes = Plain
    /\ ~Overlap => CommittedReadable

\* Where operations on one content take turns, no reference dangles: what an
\* event or a checkpoint refers to is not swept, and ordinary evidence keeps its
\* bytes without an age limit where no context store holds the same bytes.
HeldKept ==
    ~Overlap => \A d \in Contents :
        \/ Exists(d)
        \/ /\ {"event", "checkpoint"} \cap held[d] = {}
           /\ "evidence" \in held[d] => ContextWriters # {}

\* Nothing is sealed under a class key before its class is on record; and where
\* operations on one content take turns, a put that was answered holds a
\* container its class's key opens, even when the daemon stored the same bytes
\* for itself between the put's claim and its commit.
PutOpensWithItsClass ==
    /\ \A d \in Contents : row[d].domain = "context" => class[d] # "none"
    /\ ~Overlap => \A u \in ContextWriters :
        upload[u].pc = "ok" => row[upload[u].d].domain = "context"

\* Whatever crashes and interferes, what is stored are the bytes of its address,
\* and nothing is under a class's key that has no class; and where operations on
\* one content take turns, what was stored and is referred to is there and opens.
\* Operations that overlap are excepted: two commits of one content can leave a
\* container that the row's key does not open.
BlobsAreKept == CrashLeavesReadable /\ HeldKept /\ PutOpensWithItsClass

\* A shredded blob stays shredded: no retry, rotation or sweep gives it a key
\* again or forgets that it was; and while a pin is held neither sweep nor shred
\* takes the blob.
RemovalIsLawful ==
    [][\A d \in Contents :
        /\ row[d].tombstoned => row'[d] = row[d]
        /\ readable(d) /\ pins[d] # {} => row'[d] # NoRow /\ ~row'[d].tombstoned]_vars
=============================================================================
