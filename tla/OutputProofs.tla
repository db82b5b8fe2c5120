---------------------------- MODULE OutputProofs ----------------------------
(***************************************************************************)
(* Proofs about OutputFile, for any number of writers, failing calls,      *)
(* killed runs and power losses.                                           *)
(***************************************************************************)
EXTENDS OutputFile, TLAPS

\* The inductive invariant behind NeverTorn: TypeOK says that a writer only comes
\* to install its body once the body has been synced.
SyncedFirst == TypeOK /\ NeverTorn

\* Initially nobody has reached the rename, and the path holds something whole.
LEMMA SyncedFirstInit == Init => SyncedFirst
<1> SUFFICES ASSUME Init PROVE SyncedFirst
  OBVIOUS
<1>1. TypeOK
  BY BoundsAssumption DEF Init, TypeOK, Contents, Whole
<1>2. NeverTorn
  BY DEF Init, NeverTorn, Whole
<1> QED BY <1>1, <1>2 DEF Init, SyncedFirst

\* What a step of a writer does besides the bookkeeping of errors.
LEMMA WriterStep ==
  ASSUME SyncedFirst, NEW w \in Writers, Write(w)
  PROVE  /\ SyncedFirst'
         /\ disk' = disk
<1> USE DEF SyncedFirst, TypeOK, world, Goes
<1>1. errors' \in 0..MaxErrors /\ UNCHANGED world
  BY BoundsAssumption DEF Write, Inspect, Create, Fill, Sync, Reserve, Rename, Release, Cleanup, Error
<1>2. /\ pc' \in [Writers -> {"inspect", "create", "fill", "sync", "reserve", "rename", "release",
                              "cleanup"} \cup Returned]
      /\ found' \in [Writers -> BOOLEAN]
      /\ temp' \in [Writers -> {"none", "empty", "torn", "cached", "synced"}]
  BY DEF Write, Inspect, Create, Fill, Sync, Reserve, Rename, Release, Cleanup, Returned
<1>3. \A v \in Writers : pc'[v] \in {"reserve", "rename"} => temp'[v] = "synced"
  BY DEF Write, Inspect, Create, Fill, Sync, Reserve, Rename, Release, Cleanup
<1>4. file' \in Whole
  <2>1. file' \in {file, Absent, Reservation(w)} \/ (pc[w] = "rename" /\ file' = Installed(w))
    BY DEF Write, Inspect, Create, Fill, Sync, Reserve, Rename, Release, Cleanup
  <2>2. pc[w] = "rename" => Installed(w) = Body(w)
    BY DEF Installed
  <2> QED BY <2>1, <2>2 DEF NeverTorn, Whole
<1> QED BY <1>1, <1>2, <1>3, <1>4 DEF NeverTorn, Contents

\* Every step, whoever takes it, preserves the invariant.
LEMMA SyncedFirstNext == SyncedFirst /\ [Next]_vars => SyncedFirst'
<1> SUFFICES ASSUME SyncedFirst, [Next]_vars PROVE SyncedFirst'
  OBVIOUS
<1> USE DEF SyncedFirst, TypeOK, NeverTorn
<1>1. CASE UNCHANGED vars
  BY <1>1 DEF vars
<1>2. ASSUME NEW w \in Writers, Write(w) PROVE SyncedFirst'
  BY <1>2, WriterStep
<1>3. ASSUME NEW w \in Writers, Kill(w) PROVE SyncedFirst'
  BY <1>3 DEF Kill, world, Returned
<1>4. CASE Flush
  <2>1. ~\E w \in Writers : file = Cached(w)
    BY DEF Whole, Absent, Link, Old, Reservation, Body, Cached
  <2>2. disk' = file
    BY <1>4, <2>1 DEF Flush
  <2> QED BY <1>4, <2>2 DEF Flush
<1>5. CASE PowerLoss
  <2>1. /\ pc' \in [Writers -> {"inspect", "create", "fill", "sync", "reserve", "rename", "release",
                                "cleanup"} \cup Returned]
        /\ \A w \in Writers : pc'[w] \notin {"reserve", "rename"}
    BY <1>5 DEF PowerLoss, Begun, Returned
  <2>2. losses' \in 0..MaxLosses
    BY <1>5, BoundsAssumption DEF PowerLoss
  <2> QED BY <1>5, <2>1, <2>2 DEF PowerLoss
<1>6. CASE Meddle
  <2>1. meddling' \in 0..MaxMeddling
    BY <1>6, BoundsAssumption DEF Meddle
  <2>2. file' \in Whole
    BY <1>6 DEF Meddle, Whole
  <2> QED BY <1>6, <2>1, <2>2 DEF Meddle, Contents
<1> QED
  BY <1>1, <1>2, <1>3, <1>4, <1>5, <1>6 DEF Next

\* In every reachable state the path is whole and installers have synced.
LEMMA SyncedFirstInvariant == Spec => []SyncedFirst
BY SyncedFirstInit, SyncedFirstNext, PTL DEF Spec

\* However many writers: no writer reserves the path or renames over it before
\* its body is synced, and the variables keep their types.
THEOREM OutputTypeCorrect == Spec => []TypeOK
BY SyncedFirstInvariant, PTL DEF SyncedFirst

\* However many writers, forced or not, share the path, and whatever fails:
\* neither a reader nor a power loss ever meets a part of a body.
THEOREM InstallationAtomic == Spec => []NeverTorn
BY SyncedFirstInvariant, PTL DEF SyncedFirst

-----------------------------------------------------------------------------
(* A single failing call *)

\* Behind NoReservationLeft: a writer owns a reservation only until it renames or
\* releases it, none if it found the path taken, and it is at its release because
\* the one failure has been spent.
ReleasedBy(w) ==
  /\ pc[w] \notin {"rename", "release", "killed"} => file # Reservation(w)
  /\ found[w] => file # Reservation(w) /\ pc[w] # "reserve"
  /\ pc[w] = "release" => errors = 1

Released == errors <= 1 /\ losses = 0 => \A w \in Writers : ReleasedBy(w)

\* A step of a writer keeps its own promise, and does not break that of another.
LEMMA ReleasedWrite ==
  ASSUME TypeOK, Released, NEW w \in Writers, Write(w)
  PROVE  Released'
<1> SUFFICES ASSUME errors' <= 1, losses' = 0, NEW v \in Writers
             PROVE  ReleasedBy(v)'
  BY DEF Released
<1> USE BoundsAssumption DEF TypeOK, world, Goes, Error
<1>1. errors \in Nat /\ errors' \in {errors, errors + 1} /\ losses = 0 /\ errors <= 1
  BY DEF Write, Inspect, Create, Fill, Sync, Reserve, Rename, Release, Cleanup
<1>2. ReleasedBy(v)
  BY <1>1 DEF Released
<1>3. CASE v # w
  <2>1. pc'[v] = pc[v] /\ found'[v] = found[v]
    BY <1>3 DEF Write, Inspect, Create, Fill, Sync, Reserve, Rename, Release, Cleanup
  <2>2. file' \in {file, Absent, Reservation(w), Body(w), Cached(w)}
    BY DEF Write, Inspect, Create, Fill, Sync, Reserve, Rename, Release, Cleanup, Installed
  <2>3. file' = file \/ file' # Reservation(v)
    BY <1>3, <2>2 DEF Absent, Reservation, Body, Cached
  <2> QED BY <1>1, <1>2, <2>1, <2>3 DEF ReleasedBy, Reservation
<1>4. CASE v = w
  <2>1. CASE Reserve(w)
    BY <1>1, <1>2, <1>4, <2>1 DEF ReleasedBy, Reserve, Absent, Reservation
  <2>2. CASE Rename(w)
    BY <1>1, <1>2, <1>4, <2>2 DEF ReleasedBy, Rename, Installed, Reservation, Body, Cached
  <2>3. CASE Release(w)
    BY <1>1, <1>2, <1>4, <2>3 DEF ReleasedBy, Release, Absent, Reservation
  <2>4. CASE Inspect(w) \/ Create(w) \/ Fill(w) \/ Sync(w) \/ Cleanup(w)
    BY <1>1, <1>2, <1>4, <2>4 DEF ReleasedBy, Inspect, Create, Fill, Sync, Cleanup
  <2> QED BY <2>1, <2>2, <2>3, <2>4 DEF Write
<1> QED BY <1>3, <1>4

\* Nobody else puts a reservation there.
LEMMA ReleasedNext == TypeOK /\ Released /\ [Next]_vars => Released'
<1> SUFFICES ASSUME TypeOK, Released, [Next]_vars PROVE Released'
  OBVIOUS
<1>1. CASE UNCHANGED vars
  BY <1>1 DEF ReleasedBy, vars, Released, Reservation
<1>2. ASSUME NEW w \in Writers, Write(w) PROVE Released'
  BY <1>2, ReleasedWrite
<1>3. ASSUME NEW w \in Writers, Kill(w) PROVE Released'
  BY <1>3 DEF ReleasedBy, Kill, world, TypeOK, Released, Reservation
<1>4. CASE Flush
  BY <1>4 DEF ReleasedBy, Flush, Released, Reservation
<1>5. CASE PowerLoss
  BY <1>5, BoundsAssumption DEF ReleasedBy, PowerLoss, TypeOK, Released
<1>6. CASE Meddle
  BY <1>6 DEF ReleasedBy, Meddle, Released, Reservation, Absent, Link, Old
<1> QED BY <1>1, <1>2, <1>3, <1>4, <1>5, <1>6 DEF Next

\* With at most one failing call and no power loss, no run that gave up leaves its
\* reservation at the path, whatever the other writers and strangers do there.
THEOREM ReservationReleased == Spec => []NoReservationLeft
<1>1. Init => Released
  BY DEF Init, Released, ReleasedBy, Absent, Link, Old, Reservation
<1>2. Released => NoReservationLeft
  BY DEF Released, ReleasedBy, NoReservationLeft
<1> QED BY <1>1, <1>2, ReleasedNext, OutputTypeCorrect, PTL DEF Spec

-----------------------------------------------------------------------------
(* Writers without --force, when nobody else touches the path *)

\* The inductive invariant behind the promise: between its reservation and its
\* rename a writer has the path to itself.
Pinned ==
  /\ SyncedFirst
  /\ \A w \in Writers : found[w] = FALSE
  /\ \A w \in Writers : pc[w] \in {"rename", "release"} => file = Reservation(w)

\* Initially nobody has found or reserved anything.
LEMMA PinnedInit == Init => Pinned
BY SyncedFirstInit DEF Init, Pinned

\* Without --force and without meddling nobody takes a reserved path away.
LEMMA PinnedNext ==
  ASSUME Forced = {}, MaxMeddling = 0, Pinned, [Next]_vars
  PROVE  Pinned'
<1> USE DEF Pinned, SyncedFirst, TypeOK
<1>1. SyncedFirst'
  BY SyncedFirstNext
<1>2. CASE UNCHANGED vars
  BY <1>1, <1>2 DEF vars
<1>3. ASSUME NEW w \in Writers, Write(w) PROVE Pinned'
  <2>1. \A v \in Writers : found'[v] = FALSE
    BY <1>3 DEF Write, Inspect, Create, Fill, Sync, Reserve, Rename, Release, Cleanup, Goes
  <2>2. pc'[w] \in {"rename", "release"} => file' = Reservation(w)
    BY <1>3 DEF Write, Inspect, Create, Fill, Sync, Reserve, Rename, Release, Cleanup, Goes
  <2>3. ASSUME NEW v \in Writers, v # w, pc'[v] \in {"rename", "release"} PROVE file' = Reservation(v)
    <3>1. pc[v] = pc'[v]
      BY <1>3, <2>3 DEF Write, Inspect, Create, Fill, Sync, Reserve, Rename, Release, Cleanup, Goes
    <3>2. file = Reservation(v) /\ file # Reservation(w) /\ file # Absent
      BY <2>3, <3>1 DEF Reservation, Absent
    <3>3. file' = file
      BY <1>3, <3>2 DEF Write, Inspect, Create, Fill, Sync, Reserve, Rename, Release, Cleanup, Goes
    <3> QED BY <3>2, <3>3
  <2> QED BY <1>1, <2>1, <2>2, <2>3
<1>4. ASSUME NEW w \in Writers, Kill(w) PROVE Pinned'
  BY <1>1, <1>4 DEF Kill
<1>5. CASE Flush
  BY <1>1, <1>5 DEF Flush
<1>6. CASE PowerLoss
  BY <1>1, <1>6 DEF PowerLoss, Begun, Returned
<1>7. CASE Meddle
  BY <1>7 DEF Meddle
<1> QED
  BY <1>2, <1>3, <1>4, <1>5, <1>6, <1>7 DEF Next

\* The initial states are initial states of the promise.
LEMMA PromiseInit == Init => Promise!Init
BY DEF Init, Promise!Init, Outcome, Ended, Absent, Link, Old, Promise!Absent, Promise!Link, Promise!Old

\* What a writer's step means for its outcome: nothing before its last one.
LEMMA OutcomeStep ==
  ASSUME TypeOK, NEW w \in Writers, NEW to, pc' = [pc EXCEPT ![w] = to]
  PROVE  /\ Outcome' = [Outcome EXCEPT ![w] = Ended(to)]
         /\ Ended(to) = Outcome[w] => Outcome' = Outcome
BY DEF TypeOK, Outcome

\* Every step is a step of the promise, or invisible to it.
LEMMA PromiseNext ==
  ASSUME Pinned, [Next]_vars, Forced = {}, MaxMeddling = 0
  PROVE  [Promise!Next]_(Promise!promised)
<1> DEFINE Same == UNCHANGED <<file, disk, Outcome>>
<1> USE DEF Pinned, SyncedFirst, TypeOK, Goes, world
<1>1. CASE UNCHANGED vars
  BY <1>1 DEF vars, Promise!promised, Outcome
<1>2. ASSUME NEW w \in Writers, Write(w) \/ Kill(w)
      PROVE  \/ Same
             \/ Promise!Reserve(w) \/ Promise!Publish(w) \/ Promise!Withdraw(w)
             \/ Promise!Fail(w) \/ Promise!Die(w)
  <2>0. ASSUME NEW from, NEW to, Goes(w, from, to)
        PROVE  /\ Outcome[w] = Ended(from)
               /\ Outcome' = [Outcome EXCEPT ![w] = Ended(to)]
               /\ Ended(to) = Ended(from) => Outcome' = Outcome
    BY <2>0, OutcomeStep DEF Outcome
  <2>1. CASE Inspect(w)
    BY <2>0, <2>1 DEF Inspect, Ended, Promise!Fail
  <2>2. CASE Create(w)
    BY <2>0, <2>2 DEF Create, Ended, Promise!Fail
  <2>3. CASE Fill(w) \/ Sync(w)
    BY <2>0, <2>3 DEF Fill, Sync, Ended
  <2>4. CASE Reserve(w)
    BY <2>0, <2>4 DEF Reserve, Ended, Promise!Reserve, Promise!Absent, Promise!Reservation, Absent,
                      Reservation
  <2>5. CASE Rename(w)
    <3>1. file = Reservation(w) /\ Installed(w) = Body(w)
      BY <2>5 DEF Rename, Installed
    <3> QED BY <2>0, <2>5, <3>1 DEF Rename, Ended, Promise!Publish, Promise!Body, Promise!Reservation,
                                    Body, Reservation
  <2>6. CASE Release(w)
    BY <2>0, <2>6 DEF Release, Ended, Promise!Withdraw, Promise!Absent, Promise!Reservation, Absent,
                      Reservation
  <2>7. CASE Cleanup(w)
    <3>1. Goes(w, "cleanup", "error") /\ UNCHANGED <<file, disk>>
      BY <2>7 DEF Cleanup
    <3>2. Outcome[w] = "pending" /\ Outcome' = [Outcome EXCEPT ![w] = "error"]
      BY <2>0, <3>1 DEF Ended
    <3> QED BY <3>1, <3>2 DEF Promise!Fail
  <2>8. CASE Kill(w)
    <3>1. pc[w] \notin Returned /\ pc' = [pc EXCEPT ![w] = "killed"] /\ UNCHANGED <<file, disk>>
      BY <2>8 DEF Kill, Begun
    <3>2. Outcome[w] = "pending" /\ Outcome' = [Outcome EXCEPT ![w] = "dead"]
      BY <3>1, OutcomeStep DEF Outcome, Ended, Returned
    <3> QED BY <3>1, <3>2 DEF Promise!Die
  <2> QED BY <1>2, <2>1, <2>2, <2>3, <2>4, <2>5, <2>6, <2>7, <2>8 DEF Write
<1>3. ASSUME Flush PROVE Promise!Persist
  <2>1. disk' = file /\ UNCHANGED <<file, pc>>
    BY <1>3 DEF Flush, NeverTorn, Whole, Absent, Link, Old, Reservation, Body, Cached
  <2> QED BY <2>1 DEF Promise!Persist, Outcome
<1>4. ASSUME PowerLoss PROVE Promise!LosePower
  <2> DEFINE dead == {w \in Writers : Begun(w)}
  <2>1. \A w \in dead : Outcome[w] = "pending"
    BY DEF Outcome, Ended, Begun, Returned
  <2>2. Outcome' = [w \in Writers |-> IF w \in dead THEN "dead" ELSE Outcome[w]]
    BY <1>4 DEF PowerLoss, Outcome, Ended
  <2>3. dead \in SUBSET {w \in Writers : Outcome[w] = "pending"}
    BY <2>1
  <2> HIDE DEF dead
  <2> QED BY <1>4, <2>2, <2>3 DEF PowerLoss, Promise!LosePower
<1>5. ~Meddle
  BY DEF Meddle
<1> QED
  BY <1>1, <1>2, <1>3, <1>4, <1>5 DEF Next, Promise!Next, Promise!promised

\* Any number of runs without --force that share a path with nobody else keep the
\* promise: each installs a whole file on a path it found free and reserved, or
\* leaves what was there.
THEOREM PromiseKept ==
  ASSUME Forced = {}, MaxMeddling = 0
  PROVE  Spec => KeepsPromise
<1>1. Pinned /\ [Next]_vars => Pinned' /\ [Promise!Next]_(Promise!promised)
  BY PinnedNext, PromiseNext
<1> QED
  BY <1>1, PinnedInit, PromiseInit, PTL DEF Spec, KeepsPromise, Promise!Spec
=============================================================================
