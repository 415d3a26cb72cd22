-------------------------- MODULE SocketPathProofs --------------------------
(***************************************************************************)
(* Proofs about SocketPath, for any set of daemons and any bounds.         *)
(*                                                                         *)
(* The argument, for behaviours in which no daemon loses its lock while    *)
(* starting: only the holder of the lock is starting (OneStarts); so the   *)
(* path names the file of whoever has bound one, until that daemon itself  *)
(* removes it (PathIsTheirs), because a start that finds a socket somebody *)
(* listens on gives up before it unlinks anything (NothingInTheWay).       *)
(***************************************************************************)
EXTENDS SocketPath, TLAPS

\* The daemons that have made a file, and those that listen on theirs.
Bound == {"listen", "record", "run", "serving", "draining", "removing", "removed"}
Listening == Bound \ {"listen"}
Steps == Starting \cup Bound \cup {"down"}

TypeOK ==
    /\ path \in Nat /\ lock \in Daemons \cup {NOBODY}
    /\ daemon \in [Daemons -> [at : Steps, seen : Nat, file : Nat]]
    /\ made \in Nat /\ strayed \in BOOLEAN

OneStarts == \A d \in Daemons : daemon[d].at \in Starting => lock = d

OneBound == \A d, e \in Daemons : daemon[d].at \in Bound /\ daemon[e].at \in Bound => d = e

PathIsTheirs ==
    \A d \in Daemons :
        IF daemon[d].at \in Bound
          THEN /\ path = daemon[d].file /\ path # NOTHING
               /\ daemon[d].at \in Listening => path \in listening
               /\ daemon[d].at \in Listening \ {"record"} => daemon[d].seen = daemon[d].file
          ELSE daemon[d].file = NOTHING

NothingInTheWay ==
    \A d \in Daemons :
        daemon[d].at \in {"restat", "unlink"} => \A e \in Daemons : daemon[e].at \notin Bound

IInv ==
    /\ TypeOK
    /\ ~strayed => OneStarts /\ OneBound /\ PathIsTheirs /\ NothingInTheWay

LEMMA InitIInv == Init => IInv
<1> SUFFICES ASSUME Init PROVE IInv
  BY Zenon
<1>1. Down \in [at : Steps, seen : Nat, file : Nat] /\ Down.at = "down" /\ Down.file = NOTHING
  BY Zenon DEF Down, Steps, NOTHING
<1>2. \A d \in Daemons : daemon[d] = Down
  BY Zenon DEF Init
<1>3. "down" \notin Starting /\ "down" \notin Bound /\ "down" \notin {"restat", "unlink"}
  BY Zenon DEF Starting, Bound
<1>4. TypeOK
  <2>1. daemon \in [Daemons -> [at : Steps, seen : Nat, file : Nat]]
    BY <1>1, Zenon DEF Init
  <2>2. path \in Nat /\ made \in Nat
    BY DEF Init, NOTHING, STALE, FOREIGN
  <2>3. lock \in Daemons \cup {NOBODY} /\ strayed \in BOOLEAN
    BY Zenon DEF Init
  <2> QED
    BY <2>1, <2>2, <2>3, Zenon DEF TypeOK
<1>5. OneStarts /\ OneBound /\ PathIsTheirs /\ NothingInTheWay
  BY <1>1, <1>2, <1>3, Zenon DEF OneStarts, OneBound, PathIsTheirs, NothingInTheWay
<1> QED
  BY <1>4, <1>5, Zenon DEF IInv

-----------------------------------------------------------------------------
(***************************************************************************)
(* What a step does to the daemons.                                        *)
(***************************************************************************)
\* d goes on to a step of its own, and its file stays.
Moved(d, at) ==
    /\ daemon' \in [Daemons -> [at : Steps, seen : Nat, file : Nat]]
    /\ \A e \in Daemons : e # d => daemon'[e] = daemon[e]
    /\ daemon'[d].at = at

LEMMA GoesMoved ==
    ASSUME TypeOK, NEW d \in Daemons, NEW at \in Steps, Goes(d, at)
    PROVE  Moved(d, at) /\ daemon'[d].seen = daemon[d].seen /\ daemon'[d].file = daemon[d].file
<1> DEFINE r == [daemon[d] EXCEPT !.at = at]
<1>1. r \in [at : Steps, seen : Nat, file : Nat]
  BY Zenon DEF TypeOK
<1>2. r.at = at /\ r.seen = daemon[d].seen /\ r.file = daemon[d].file
  BY Zenon DEF TypeOK
<1>3. daemon' = [daemon EXCEPT ![d] = r]
  BY Zenon DEF Goes
<1> HIDE DEF r
<1> QED
  BY <1>1, <1>2, <1>3, Zenon DEF TypeOK, Moved

LEMMA ExitsMoved ==
    ASSUME TypeOK, NEW d \in Daemons, Exits(d)
    PROVE  /\ Moved(d, "down") /\ daemon'[d].file = NOTHING
           /\ lock' = (IF lock = d THEN NOBODY ELSE lock) /\ listening' = listening \ {daemon[d].file}
<1>1. Down \in [at : Steps, seen : Nat, file : Nat] /\ Down.at = "down" /\ Down.file = NOTHING
  BY Zenon DEF Down, Steps, NOTHING
<1> QED
  BY <1>1, Zenon DEF TypeOK, Exits, Moved

\* A daemon that ends takes nothing of the others with it.
LEMMA ExitStep ==
    ASSUME SocketAssumption, IInv, NEW d \in Daemons, Exits(d),
           UNCHANGED strayed, made' \in Nat, path' \in Nat,
           path' = path \/ (~strayed => \A e \in Daemons : e # d => daemon[e].at \notin Bound)
    PROVE  IInv'
<1>1. TypeOK
  BY Zenon DEF IInv
<1>2. /\ Moved(d, "down") /\ daemon'[d].file = NOTHING
      /\ lock' = (IF lock = d THEN NOBODY ELSE lock) /\ listening' = listening \ {daemon[d].file}
  BY <1>1, ExitsMoved, Zenon
<1>3. TypeOK'
  BY <1>1, <1>2, Zenon DEF TypeOK, Moved
<1>4. \A e \in Daemons : daemon'[e].at \in Starting \cup Bound => e # d /\ daemon'[e] = daemon[e]
  BY <1>2, Zenon DEF Moved, Starting, Bound
<1>5. "down" \notin Bound /\ {"restat", "unlink"} \subseteq Starting
  BY Zenon DEF Bound, Starting
<1> SUFFICES ASSUME ~strayed PROVE OneStarts' /\ OneBound' /\ PathIsTheirs' /\ NothingInTheWay'
  BY <1>3, Zenon DEF IInv
<1>6. OneStarts' /\ OneBound' /\ NothingInTheWay'
  BY <1>2, <1>4, <1>5, Zenon DEF IInv, OneStarts, OneBound, NothingInTheWay, Moved
<1>7. PathIsTheirs'
  <2> SUFFICES ASSUME NEW e \in Daemons
               PROVE  IF daemon'[e].at \in Bound
                        THEN /\ path' = daemon'[e].file /\ path' # NOTHING
                             /\ daemon'[e].at \in Listening => path' \in listening'
                             /\ daemon'[e].at \in Listening \ {"record"} => daemon'[e].seen = daemon'[e].file
                        ELSE daemon'[e].file = NOTHING
    BY Zenon DEF PathIsTheirs
  <2>1. CASE e = d
    BY <1>2, <1>5, <2>1, Zenon DEF Moved
  <2>2. CASE e # d /\ daemon[e].at \notin Bound
    BY <1>2, <2>2, Zenon DEF IInv, PathIsTheirs, Moved
  <2>3. CASE e # d /\ daemon[e].at \in Bound
    <3>1. daemon[d].at \notin Bound /\ path' = path
      BY <2>3, Zenon DEF IInv, OneBound
    <3>2. daemon[d].file = NOTHING
      BY <3>1, Zenon DEF IInv, PathIsTheirs
    <3> QED
      BY <1>2, <2>3, <3>1, <3>2, Zenon DEF IInv, PathIsTheirs, Moved
  <2> QED
    BY <2>1, <2>2, <2>3, Zenon
<1> QED
  BY <1>6, <1>7, Zenon
\* A daemon that goes on without touching the path, the lock or what is listened on.
LEMMA MoveStep ==
    ASSUME IInv, NEW d \in Daemons, NEW at \in Steps, Moved(d, at),
           UNCHANGED <<path, lock, listening, made, strayed>>,
           daemon'[d].file = daemon[d].file,
           at \in Starting => daemon[d].at \in Starting,
           at \in Bound <=> daemon[d].at \in Bound,
           at \in Listening => daemon[d].at \in Listening,
           ~strayed /\ at \in Listening \ {"record"} => daemon'[d].seen = daemon'[d].file,
           ~strayed /\ at \in {"restat", "unlink"} => \A e \in Daemons : daemon[e].at \notin Bound
    PROVE  IInv'
<1>1. TypeOK'
  BY Zenon DEF IInv, TypeOK, Moved
<1> SUFFICES ASSUME ~strayed PROVE OneStarts' /\ OneBound' /\ PathIsTheirs' /\ NothingInTheWay'
  BY <1>1, Zenon DEF IInv
<1>2. \A e \in Daemons : daemon'[e].at \in Bound <=> daemon[e].at \in Bound
  BY Zenon DEF Moved
<1>3. OneStarts' /\ OneBound' /\ NothingInTheWay'
  BY <1>2, Zenon DEF IInv, OneStarts, OneBound, NothingInTheWay, Moved
<1>4. PathIsTheirs'
  <2> SUFFICES ASSUME NEW e \in Daemons
               PROVE  IF daemon'[e].at \in Bound
                        THEN /\ path' = daemon'[e].file /\ path' # NOTHING
                             /\ daemon'[e].at \in Listening => path' \in listening'
                             /\ daemon'[e].at \in Listening \ {"record"} => daemon'[e].seen = daemon'[e].file
                        ELSE daemon'[e].file = NOTHING
    BY Zenon DEF PathIsTheirs
  <2>1. CASE e = d
    BY <2>1, Zenon DEF IInv, PathIsTheirs, Moved
  <2>2. CASE e # d
    BY <2>2, Zenon DEF IInv, PathIsTheirs, Moved
  <2> QED
    BY <2>1, <2>2, Zenon
<1> QED
  BY <1>3, <1>4, Zenon

-----------------------------------------------------------------------------
(***************************************************************************)
(* One lemma per group of actions.                                         *)
(***************************************************************************)
\* The bound lists of steps, as facts.
LEMMA Lists ==
    /\ Starting \subseteq Steps /\ Bound \subseteq Steps /\ Listening \subseteq Bound /\ "down" \in Steps
    /\ {"locked", "parent", "stat", "probe", "restat", "unlink", "bind"} \subseteq Starting \ Bound
    /\ {"listen", "record", "run"} \subseteq Starting \cap Bound
    /\ {"serving", "draining", "removing", "removed"} \subseteq Bound \ Starting
    /\ {"record", "run", "serving", "draining", "removing", "removed"} \subseteq Listening
    /\ {"run", "serving", "draining", "removing", "removed"} \subseteq Listening \ {"record"}
    /\ "listen" \notin Listening /\ "down" \notin Starting /\ "down" \notin Bound
    /\ {"locked", "parent", "stat", "probe", "bind", "listen", "record", "run"} \cap {"restat", "unlink"} = {}
    /\ {"serving", "draining", "removing", "removed"} \cap {"restat", "unlink"} = {}
BY Zenon DEF Starting, Bound, Listening, Steps

\* A step that exits and touches nothing else.
LEMMA EndStep ==
    ASSUME SocketAssumption, IInv, NEW d \in Daemons, Exits(d), UNCHANGED <<path, made, strayed>>
    PROVE  IInv'
BY ExitStep, Zenon DEF IInv, TypeOK

LEMMA AcquireStep ==
    ASSUME SocketAssumption, IInv, NEW d \in Daemons, acquire(d)
    PROVE  IInv'
<1>1. /\ daemon[d].at = "down" /\ lock = NOBODY /\ lock' = d /\ Goes(d, "locked")
      /\ UNCHANGED <<path, listening, made, strayed>>
  BY Zenon DEF acquire, At, Budget
<1>2. Moved(d, "locked") /\ daemon'[d].file = daemon[d].file
  BY <1>1, GoesMoved, Lists, Zenon DEF IInv
<1>3. TypeOK'
  BY <1>1, <1>2, Zenon DEF IInv, TypeOK, Moved
<1> SUFFICES ASSUME ~strayed PROVE OneStarts' /\ OneBound' /\ PathIsTheirs' /\ NothingInTheWay'
  BY <1>1, <1>3, Zenon DEF IInv
<1>4. \A e \in Daemons : daemon[e].at \notin Starting
  BY <1>1, Zenon DEF IInv, OneStarts, SocketAssumption, NOBODY
<1>5. \A e \in Daemons : daemon'[e].at \in Bound => e # d
  BY <1>2, Lists, Zenon DEF Moved
<1>6. OneStarts' /\ OneBound'
  BY <1>1, <1>2, <1>4, <1>5, Zenon DEF IInv, OneStarts, OneBound, Moved
<1>7. NothingInTheWay'
  BY <1>2, <1>4, Lists DEF NothingInTheWay, Moved
<1>8. PathIsTheirs'
  BY <1>1, <1>2, <1>5, Lists, Zenon DEF IInv, PathIsTheirs, Moved
<1> QED
  BY <1>6, <1>7, <1>8, Zenon

\* The steps that only move on.
LEMMA PlainStep ==
    ASSUME IInv, NEW d \in Daemons, NEW from, NEW at, <<from, at>> \in
               {<<"locked", "parent">>, <<"parent", "stat">>, <<"stat", "bind">>, <<"run", "serving">>,
                <<"serving", "draining">>, <<"draining", "removing">>, <<"removing", "removed">>},
           daemon[d].at = from, Goes(d, at), UNCHANGED <<path, lock, listening, made, strayed>>
    PROVE  IInv'
<1>1. at \in Steps /\ from \in Steps
  BY Lists, Zenon
<1>2. Moved(d, at) /\ daemon'[d].seen = daemon[d].seen /\ daemon'[d].file = daemon[d].file
  BY <1>1, GoesMoved, Zenon DEF IInv
<1>3. /\ at \in Starting => from \in Starting
      /\ at \in Bound <=> from \in Bound
      /\ at \in Listening => from \in Listening \ {"record"}
      /\ at \notin {"restat", "unlink"}
  BY Lists, Zenon
<1>4. ~strayed /\ at \in Listening \ {"record"} => daemon'[d].seen = daemon'[d].file
  BY <1>2, <1>3, Lists, Zenon DEF IInv, PathIsTheirs
<1> QED
  BY <1>1, <1>2, <1>3, <1>4, MoveStep, Zenon

LEMMA StatStep ==
    ASSUME SocketAssumption, IInv, NEW d \in Daemons, stat(d)
    PROVE  IInv'
<1>1. /\ daemon[d].at = "stat" /\ UNCHANGED <<path, made, strayed>>
      /\ \/ Exits(d)
         \/ Goes(d, "bind") /\ UNCHANGED <<lock, listening>>
         \/ /\ daemon' = [daemon EXCEPT ![d].at = "probe", ![d].seen = path]
            /\ UNCHANGED <<lock, listening>>
  BY Zenon DEF stat, At, Budget
<1>2. CASE Exits(d)
  BY <1>1, <1>2, EndStep, Zenon
<1>3. CASE Goes(d, "bind") /\ UNCHANGED <<lock, listening>>
  BY <1>1, <1>3, PlainStep
<1>4. CASE /\ daemon' = [daemon EXCEPT ![d].at = "probe", ![d].seen = path]
           /\ UNCHANGED <<lock, listening>>
  <2> DEFINE r == [daemon[d] EXCEPT !.at = "probe", !.seen = path]
  <2>1. r \in [at : Steps, seen : Nat, file : Nat] /\ r.at = "probe" /\ r.file = daemon[d].file
    BY Lists, Zenon DEF IInv, TypeOK
  <2>2. daemon' = [daemon EXCEPT ![d] = r]
    BY <1>4, Zenon
  <2> HIDE DEF r
  <2>3. Moved(d, "probe") /\ daemon'[d].file = daemon[d].file
    BY <2>1, <2>2, Zenon DEF IInv, TypeOK, Moved
  <2>4. /\ "probe" \in Steps /\ daemon[d].at \in Starting /\ "probe" \notin Bound /\ daemon[d].at \notin Bound
        /\ "probe" \notin Listening /\ "probe" \notin {"restat", "unlink"}
    BY <1>1, Lists, Zenon
  <2> QED
    BY <1>1, <1>4, <2>3, <2>4, MoveStep, Zenon
<1> QED
  BY <1>1, <1>2, <1>3, <1>4, Zenon

\* The way is clear once nobody answers: who has bound the path is listening on it.
LEMMA ProbeStep ==
    ASSUME SocketAssumption, IInv, NEW d \in Daemons, probe(d)
    PROVE  IInv'
<1>1. /\ daemon[d].at = "probe" /\ UNCHANGED <<path, made, strayed>>
      /\ Exits(d) \/ (path \notin listening /\ Goes(d, "restat") /\ UNCHANGED <<lock, listening>>)
  BY Zenon DEF probe, At, Budget
<1>2. CASE Exits(d)
  BY <1>1, <1>2, EndStep, Zenon
<1>3. CASE path \notin listening /\ Goes(d, "restat") /\ UNCHANGED <<lock, listening>>
  <2>1. /\ "restat" \in Steps /\ daemon[d].at \in Starting /\ "restat" \notin Bound /\ daemon[d].at \notin Bound
        /\ "restat" \notin Listening
    BY <1>1, Lists, Zenon
  <2>2. ASSUME ~strayed, NEW e \in Daemons, daemon[e].at \in Bound PROVE FALSE
    <3>1. daemon[e].at \notin Listening
      BY <1>3, <2>2, Zenon DEF IInv, PathIsTheirs
    <3>2. daemon[e].at = "listen"
      BY <2>2, <3>1, Zenon DEF Listening
    <3>3. lock = e /\ lock = d
      BY <2>1, <2>2, <3>2, Lists, Zenon DEF IInv, OneStarts
    <3> QED
      BY <1>1, <3>2, <3>3, Zenon
  <2>3. Moved(d, "restat") /\ daemon'[d].file = daemon[d].file
    BY <1>3, <2>1, GoesMoved, Zenon DEF IInv
  <2> QED
    BY <1>1, <1>3, <2>1, <2>2, <2>3, MoveStep, Zenon
<1> QED
  BY <1>1, <1>2, <1>3, Zenon

LEMMA RestatStep ==
    ASSUME SocketAssumption, IInv, NEW d \in Daemons, restat(d)
    PROVE  IInv'
<1>1. /\ daemon[d].at = "restat" /\ UNCHANGED <<path, made, strayed>>
      /\ Exits(d) \/ (Goes(d, "unlink") /\ UNCHANGED <<lock, listening>>)
  BY Zenon DEF restat, At, Budget
<1>2. CASE Exits(d)
  BY <1>1, <1>2, EndStep, Zenon
<1>3. CASE Goes(d, "unlink") /\ UNCHANGED <<lock, listening>>
  <2>1. /\ "unlink" \in Steps /\ daemon[d].at \in Starting /\ "unlink" \notin Bound /\ daemon[d].at \notin Bound
        /\ "unlink" \notin Listening
    BY <1>1, Lists, Zenon
  <2>2. ~strayed => \A e \in Daemons : daemon[e].at \notin Bound
    BY <1>1, Zenon DEF IInv, NothingInTheWay
  <2>3. Moved(d, "unlink") /\ daemon'[d].file = daemon[d].file
    BY <1>3, <2>1, GoesMoved, Zenon DEF IInv
  <2> QED
    BY <1>1, <1>3, <2>1, <2>2, <2>3, MoveStep, Zenon
<1> QED
  BY <1>1, <1>2, <1>3, Zenon

\* Unlinking by name takes nobody's socket: no daemon has bound the path.
LEMMA UnlinkStep ==
    ASSUME SocketAssumption, IInv, NEW d \in Daemons, unlink(d)
    PROVE  IInv'
<1>1. /\ daemon[d].at = "unlink" /\ UNCHANGED <<made, strayed>> /\ path' = NOTHING
      /\ Exits(d) \/ (Goes(d, "bind") /\ UNCHANGED <<lock, listening>>)
  BY Zenon DEF unlink, At, Budget
<1>2. ~strayed => \A e \in Daemons : daemon[e].at \notin Bound
  BY <1>1, Zenon DEF IInv, NothingInTheWay
<1>3. CASE Exits(d)
  <2>1. made' \in Nat /\ path' \in Nat
    BY <1>1, Zenon DEF IInv, TypeOK, NOTHING
  <2> QED
    BY <1>1, <1>2, <1>3, <2>1, ExitStep, Zenon
<1>4. CASE Goes(d, "bind") /\ UNCHANGED <<lock, listening>>
  <2>1. Moved(d, "bind") /\ daemon'[d].file = daemon[d].file
    BY <1>4, GoesMoved, Lists, Zenon DEF IInv
  <2>2. TypeOK'
    BY <1>1, <1>4, <2>1, Zenon DEF IInv, TypeOK, Moved, NOTHING
  <2> SUFFICES ASSUME ~strayed PROVE OneStarts' /\ OneBound' /\ PathIsTheirs' /\ NothingInTheWay'
    BY <1>1, <2>2, Zenon DEF IInv
  <2>3. \A e \in Daemons : daemon'[e].at \notin Bound
    BY <1>2, <2>1, Lists, Zenon DEF Moved
  <2>4. OneStarts'
    BY <1>1, <1>4, <2>1, Lists, Zenon DEF IInv, OneStarts, Moved
  <2>5. OneBound' /\ NothingInTheWay'
    BY <2>3, Zenon DEF OneBound, NothingInTheWay
  <2>6. PathIsTheirs'
    BY <1>2, <2>1, <2>3, Zenon DEF IInv, PathIsTheirs, Moved
  <2> QED
    BY <2>4, <2>5, <2>6, Zenon
<1> QED
  BY <1>1, <1>3, <1>4, Zenon

\* A bind over an empty path: whoever had bound it is gone.
LEMMA BindStep ==
    ASSUME SocketAssumption, IInv, NEW d \in Daemons, bind(d)
    PROVE  IInv'
<1>1. /\ daemon[d].at = "bind" /\ UNCHANGED strayed
      /\ \/ Exits(d) /\ UNCHANGED <<path, made>>
         \/ /\ path = NOTHING /\ made' = made + 1 /\ path' = made + 1
            /\ daemon' = [daemon EXCEPT ![d].at = "listen", ![d].file = made + 1]
            /\ UNCHANGED <<lock, listening>>
  BY Zenon DEF bind, At
<1>2. CASE Exits(d) /\ UNCHANGED <<path, made>>
  BY <1>1, <1>2, EndStep, Zenon
<1>3. CASE /\ path = NOTHING /\ made' = made + 1 /\ path' = made + 1
           /\ daemon' = [daemon EXCEPT ![d].at = "listen", ![d].file = made + 1]
           /\ UNCHANGED <<lock, listening>>
  <2> DEFINE r == [daemon[d] EXCEPT !.at = "listen", !.file = made + 1]
  <2>0. made + 1 \in Nat /\ made + 1 # 0
    BY DEF IInv, TypeOK
  <2>1. r \in [at : Steps, seen : Nat, file : Nat] /\ r.at = "listen" /\ r.file = made + 1
    BY <2>0, Lists, Zenon DEF IInv, TypeOK
  <2>2. daemon' = [daemon EXCEPT ![d] = r]
    BY <1>3, Zenon
  <2> HIDE DEF r
  <2>3. Moved(d, "listen") /\ daemon'[d].file = made + 1
    BY <2>1, <2>2, Zenon DEF IInv, TypeOK, Moved
  <2>4. TypeOK'
    BY <1>1, <1>3, <2>0, <2>3, Zenon DEF IInv, TypeOK, Moved
  <2> SUFFICES ASSUME ~strayed PROVE OneStarts' /\ OneBound' /\ PathIsTheirs' /\ NothingInTheWay'
    BY <1>1, <2>4, Zenon DEF IInv
  <2>5. \A e \in Daemons : daemon[e].at \notin Bound
    BY <1>3, Zenon DEF IInv, PathIsTheirs
  <2>6. \A e \in Daemons : daemon'[e].at \in Bound <=> e = d
    BY <2>3, <2>5, Lists, Zenon DEF Moved
  <2>7. lock = d /\ OneStarts'
    BY <1>1, <1>3, <2>3, Lists DEF IInv, OneStarts, Moved
  <2>8. OneBound'
    BY <2>6, Zenon DEF OneBound
  <2>9. NothingInTheWay'
    <3> SUFFICES ASSUME NEW e \in Daemons, daemon'[e].at \in {"restat", "unlink"} PROVE FALSE
      BY Zenon DEF NothingInTheWay
    <3>1. e # d
      BY <2>3, Lists, Zenon DEF Moved
    <3>2. lock = e
      BY <2>3, <3>1, Lists, Zenon DEF IInv, OneStarts, Moved
    <3> QED
      BY <2>7, <3>1, <3>2, Zenon
  <2>10. PathIsTheirs'
    <3>1. daemon'[d].at = "listen" /\ path' = daemon'[d].file /\ path' # NOTHING
      BY <1>3, <2>0, <2>3, Zenon DEF Moved, NOTHING
    <3>2. \A e \in Daemons : e # d => daemon'[e].file = NOTHING
      BY <2>3, <2>5, Zenon DEF IInv, PathIsTheirs, Moved
    <3> QED
      BY <2>6, <3>1, <3>2, Lists, Zenon DEF PathIsTheirs
  <2> QED
    BY <2>7, <2>8, <2>9, <2>10, Zenon
<1> QED
  BY <1>1, <1>2, <1>3, Zenon

LEMMA ListenStep ==
    ASSUME IInv, NEW d \in Daemons, listen(d)
    PROVE  IInv'
<1>1. /\ daemon[d].at = "listen" /\ listening' = listening \cup {daemon[d].file} /\ Goes(d, "record")
      /\ UNCHANGED <<path, lock, made, strayed>>
  BY Zenon DEF listen, At, Budget
<1>2. Moved(d, "record") /\ daemon'[d].file = daemon[d].file
  BY <1>1, GoesMoved, Lists, Zenon DEF IInv
<1>3. TypeOK'
  BY <1>1, <1>2, Zenon DEF IInv, TypeOK, Moved
<1> SUFFICES ASSUME ~strayed PROVE OneStarts' /\ OneBound' /\ PathIsTheirs' /\ NothingInTheWay'
  BY <1>1, <1>3, Zenon DEF IInv
<1>4. \A e \in Daemons : daemon'[e].at \in Bound <=> daemon[e].at \in Bound
  BY <1>1, <1>2, Lists, Zenon DEF Moved
<1>5. OneStarts' /\ OneBound'
  BY <1>1, <1>2, <1>4, Lists, Zenon DEF IInv, OneStarts, OneBound, Moved
<1>6. NothingInTheWay'
  BY <1>2, <1>4, Lists, Zenon DEF IInv, NothingInTheWay, Moved
<1>7. PathIsTheirs'
  <2> SUFFICES ASSUME NEW e \in Daemons
               PROVE  IF daemon'[e].at \in Bound
                        THEN /\ path' = daemon'[e].file /\ path' # NOTHING
                             /\ daemon'[e].at \in Listening => path' \in listening'
                             /\ daemon'[e].at \in Listening \ {"record"} => daemon'[e].seen = daemon'[e].file
                        ELSE daemon'[e].file = NOTHING
    BY Zenon DEF PathIsTheirs
  <2>1. CASE e = d
    BY <1>1, <1>2, <2>1, Lists, Zenon DEF IInv, PathIsTheirs, Moved
  <2>2. CASE e # d
    BY <1>1, <1>2, <2>2, Zenon DEF IInv, PathIsTheirs, Moved
  <2> QED
    BY <2>1, <2>2, Zenon
<1> QED
  BY <1>5, <1>6, <1>7, Zenon

\* What is read back from the path is the daemon's own file.
LEMMA RecordStep ==
    ASSUME SocketAssumption, IInv, NEW d \in Daemons, record(d)
    PROVE  IInv'
<1>1. /\ daemon[d].at = "record" /\ UNCHANGED <<path, made, strayed>>
      /\ \/ Exits(d)
         \/ daemon' = [daemon EXCEPT ![d].at = "run", ![d].seen = path] /\ UNCHANGED <<lock, listening>>
  BY Zenon DEF record, At, Budget
<1>2. CASE Exits(d)
  BY <1>1, <1>2, EndStep, Zenon
<1>3. CASE daemon' = [daemon EXCEPT ![d].at = "run", ![d].seen = path] /\ UNCHANGED <<lock, listening>>
  <2> DEFINE r == [daemon[d] EXCEPT !.at = "run", !.seen = path]
  <2>1. /\ r \in [at : Steps, seen : Nat, file : Nat] /\ r.at = "run"
        /\ r.file = daemon[d].file /\ r.seen = path
    BY Lists, Zenon DEF IInv, TypeOK
  <2>2. daemon' = [daemon EXCEPT ![d] = r]
    BY <1>3, Zenon
  <2> HIDE DEF r
  <2>3. Moved(d, "run") /\ daemon'[d].file = daemon[d].file /\ daemon'[d].seen = path
    BY <2>1, <2>2, Zenon DEF IInv, TypeOK, Moved
  <2>4. /\ "run" \in Steps /\ daemon[d].at \in Starting \cap Bound /\ "run" \in Bound
        /\ daemon[d].at \in Listening /\ "run" \notin {"restat", "unlink"}
    BY <1>1, Lists, Zenon
  <2>5. ~strayed => daemon'[d].seen = daemon'[d].file
    BY <2>3, <2>4, Zenon DEF IInv, PathIsTheirs
  <2> QED
    BY <1>1, <1>3, <2>3, <2>4, <2>5, MoveStep, Zenon
<1> QED
  BY <1>1, <1>2, <1>3, Zenon

LEMMA RemoveStep ==
    ASSUME SocketAssumption, IInv, NEW d \in Daemons, remove(d) \/ remove_file(d)
    PROVE  IInv'
<1>1. CASE remove(d)
  <2>1. /\ daemon[d].at = "removing" /\ UNCHANGED <<path, made, strayed>>
        /\ Exits(d) \/ (Goes(d, "removed") /\ UNCHANGED <<lock, listening>>)
    BY <1>1, Zenon DEF remove, At, Budget
  <2>2. CASE Exits(d)
    BY <2>1, <2>2, EndStep, Zenon
  <2>3. CASE Goes(d, "removed") /\ UNCHANGED <<lock, listening>>
    BY <2>1, <2>3, PlainStep
  <2> QED
    BY <2>1, <2>2, <2>3, Zenon
<1>2. CASE remove_file(d)
  <2>1. daemon[d].at = "removed" /\ Exits(d) /\ UNCHANGED <<made, strayed>> /\ path' = NOTHING
    BY <1>2, Zenon DEF remove_file, At, Budget
  <2>2. ~strayed => \A e \in Daemons : e # d => daemon[e].at \notin Bound
    BY <2>1, Lists, Zenon DEF IInv, OneBound
  <2>3. made' \in Nat /\ path' \in Nat
    BY <2>1, Zenon DEF IInv, TypeOK, NOTHING
  <2> QED
    BY <2>1, <2>2, <2>3, ExitStep, Zenon
<1> QED
  BY <1>1, <1>2, Zenon

\* A lock lost by a daemon that has started leaves nobody starting.
LEMMA LoseStep ==
    ASSUME SocketAssumption, IInv, LoseLock
    PROVE  IInv'
<1>1. /\ lock \in Daemons /\ lock' = NOBODY /\ strayed' = (strayed \/ daemon[lock].at \in Starting)
      /\ UNCHANGED <<path, daemon, listening, made>>
  BY Zenon DEF LoseLock, IInv, TypeOK
<1>2. TypeOK'
  BY <1>1, Zenon DEF IInv, TypeOK
<1> SUFFICES ASSUME ~strayed' PROVE OneStarts' /\ OneBound' /\ PathIsTheirs' /\ NothingInTheWay'
  BY <1>2, Zenon DEF IInv
<1>3. ~strayed /\ daemon[lock].at \notin Starting
  BY <1>1, Zenon
<1>4. OneStarts'
  BY <1>1, <1>3, Zenon DEF IInv, OneStarts
<1>5. OneBound' /\ PathIsTheirs' /\ NothingInTheWay'
  BY <1>1, <1>3, Zenon DEF IInv, OneBound, PathIsTheirs, NothingInTheWay
<1> QED
  BY <1>4, <1>5, Zenon

-----------------------------------------------------------------------------
LEMMA StepIInv ==
    ASSUME SocketAssumption, IInv, [Next]_vars
    PROVE  IInv'
<1>1. CASE UNCHANGED vars
  BY <1>1, Zenon DEF vars, IInv, TypeOK, OneStarts, OneBound, PathIsTheirs, NothingInTheWay
<1>2. CASE LoseLock
  BY <1>2, LoseStep, Zenon
<1>3. ASSUME NEW d \in Daemons, Step(d) \/ terminated(d) \/ Fails(d) PROVE IInv'
  <2>1. CASE open(d)
    BY <2>1, PlainStep DEF open, At, Budget
  <2>2. CASE check_parent(d)
    <3>1. /\ daemon[d].at = "parent" /\ UNCHANGED <<path, made, strayed>>
          /\ Exits(d) \/ (Goes(d, "stat") /\ UNCHANGED <<lock, listening>>)
      BY <2>2, Zenon DEF check_parent, At, Budget
    <3> QED
      BY <3>1, PlainStep, EndStep
  <2>3. CASE run(d)
    BY <2>3, PlainStep DEF run, At, Budget
  <2>4. CASE cancelled(d)
    BY <2>4, PlainStep DEF cancelled, At, Budget
  <2>5. CASE terminated(d)
    BY <2>5, PlainStep DEF terminated, At
  <2>6. CASE drain(d)
    BY <2>6, PlainStep DEF drain, At, Budget
  <2>7. CASE Fails(d)
    BY <2>7, EndStep, Zenon DEF Fails
  <2> QED
    BY <1>3, <2>1, <2>2, <2>3, <2>4, <2>5, <2>6, <2>7, AcquireStep, StatStep, ProbeStep, RestatStep,
       UnlinkStep, BindStep, ListenStep, RecordStep, RemoveStep, Zenon DEF Step
<1> QED
  BY <1>1, <1>2, <1>3, Zenon DEF Next

(***************************************************************************)
(* However many daemons share the path, and however their starts, stops,   *)
(* crashes and lost locks interleave, a daemon serving under the writer    *)
(* lock is the one clients reach, unless one went on starting without it.  *)
(***************************************************************************)
THEOREM ServingIsReachable ==
    ASSUME SocketAssumption
    PROVE  Spec => []ServingReachable
<1>1. Init => IInv
  BY InitIInv, Zenon
<1>2. IInv /\ [Next]_vars => IInv'
  BY StepIInv, Zenon
<1>3. IInv => ServingReachable
  BY Lists, Zenon DEF IInv, PathIsTheirs, ServingReachable, At
<1> QED
  BY <1>1, <1>2, <1>3, PTL DEF Spec
=============================================================================
