----------------------------- MODULE OutputFile -----------------------------
(***************************************************************************)
(* internal/snapshot.Write, system call by system call: the baseline of a  *)
(* preflight and every report go through it.  Several runs of Doctor may   *)
(* name one path, any call may fail, a run may be killed between two calls *)
(* and the machine may lose its power.  A writer that has not begun stands *)
(* for a later run.                                                        *)
(*                                                                         *)
(* The path "-" (standard output) and the contents are left out.           *)
(***************************************************************************)
EXTENDS Integers, FiniteSets

CONSTANTS Writers,      \* runs of Doctor writing to the path
          Forced,       \* those given --force
          MaxErrors,    \* bound on the system calls that fail
          MaxLosses,    \* bound on the power losses
          MaxMeddling   \* bound on what others do to the path

ASSUME ForcedAssumption == Forced \subseteq Writers
ASSUME BoundsAssumption == MaxErrors \in Nat /\ MaxLosses \in Nat /\ MaxMeddling \in Nat

Absent == [what |-> "absent"]
Link   == [what |-> "link"]
Old    == [what |-> "old"]
Reservation(w) == [what |-> "empty", by |-> w]
Body(w)        == [what |-> "full", by |-> w]
Cached(w)      == [what |-> "cached", by |-> w]   \* complete, but not yet on the disk
Torn(w)        == [what |-> "torn", by |-> w]     \* part of a body

Whole == {Absent, Link, Old} \cup {Reservation(w) : w \in Writers} \cup {Body(w) : w \in Writers}
Contents == Whole \cup {Cached(w) : w \in Writers} \cup {Torn(w) : w \in Writers}

VARIABLES file,      \* what the path holds
          disk,      \* what it would hold after a power loss
          pc,        \* writer -> the call it is about to make
          found,     \* writer -> did the path exist when it looked
          temp,      \* writer -> state of its temporary file
          errors, losses, meddling

vars == <<file, disk, pc, found, temp, errors, losses, meddling>>
world == <<disk, losses, meddling>>

Returned == {"ok", "error", "killed"}

Goes(w, from, to) == pc[w] = from /\ pc' = [pc EXCEPT ![w] = to]

\* A system call fails.
Error == errors < MaxErrors /\ errors' = errors + 1

-----------------------------------------------------------------------------
\* os.Lstat: a link is refused, and without --force whatever is there.
Inspect(w) ==
  /\ \/ /\ file = Absent
        /\ Goes(w, "inspect", "create")
        /\ found' = [found EXCEPT ![w] = FALSE]
        /\ UNCHANGED errors
     \/ /\ file \notin {Absent, Link} /\ w \in Forced
        /\ Goes(w, "inspect", "create")
        /\ found' = [found EXCEPT ![w] = TRUE]
        /\ UNCHANGED errors
     \/ /\ file = Link \/ (file # Absent /\ w \notin Forced)
        /\ Goes(w, "inspect", "error")
        /\ UNCHANGED <<found, errors>>
     \/ Goes(w, "inspect", "error") /\ Error /\ UNCHANGED found
  /\ UNCHANGED <<file, temp, world>>

\* os.MkdirAll and os.CreateTemp
Create(w) ==
  /\ \/ /\ Goes(w, "create", "fill")
        /\ temp' = [temp EXCEPT ![w] = "empty"]
        /\ UNCHANGED errors
     \/ Goes(w, "create", "error") /\ Error /\ UNCHANGED temp
  /\ UNCHANGED <<file, found, world>>

\* Chmod and Write: a body may be written in part.
Fill(w) ==
  /\ \/ /\ Goes(w, "fill", "sync")
        /\ temp' = [temp EXCEPT ![w] = "cached"]
        /\ UNCHANGED errors
     \/ /\ Goes(w, "fill", "cleanup") /\ Error
        /\ temp' = [temp EXCEPT ![w] = "torn"]
  /\ UNCHANGED <<file, found, world>>

\* Mutant: the body is not synced before it is installed.
Sync_Skipped(w) ==
  /\ Goes(w, "sync", IF found[w] THEN "rename" ELSE "reserve")
  /\ UNCHANGED <<temp, errors, file, found, world>>

\* Sync, Close and the restriction of the permissions
Sync(w) ==
  /\ \/ /\ Goes(w, "sync", IF found[w] THEN "rename" ELSE "reserve")
        /\ temp' = [temp EXCEPT ![w] = "synced"]
        /\ UNCHANGED errors
     \/ Goes(w, "sync", "cleanup") /\ Error /\ UNCHANGED temp
  /\ UNCHANGED <<file, found, world>>

\* Mutant: the path is reserved without O_EXCL.
Reserve_Shared(w) ==
  /\ Goes(w, "reserve", "rename")
  /\ file' = IF file = Absent THEN Reservation(w) ELSE file
  /\ UNCHANGED <<found, temp, errors, world>>

\* os.OpenFile with O_EXCL
Reserve(w) ==
  /\ \/ /\ file = Absent
        /\ Goes(w, "reserve", "rename")
        /\ file' = Reservation(w)
        /\ UNCHANGED errors
     \/ file # Absent /\ Goes(w, "reserve", "cleanup") /\ UNCHANGED <<file, errors>>
     \/ Goes(w, "reserve", "cleanup") /\ Error /\ UNCHANGED file
  /\ UNCHANGED <<found, temp, world>>

Installed(w) == IF temp[w] = "synced" THEN Body(w) ELSE Cached(w)

\* Mutant: a failed rename forgets the reservation.
Rename_Forgets(w) ==
  /\ \/ /\ Goes(w, "rename", "ok")
        /\ file' = Installed(w)
        /\ temp' = [temp EXCEPT ![w] = "none"]
        /\ UNCHANGED errors
     \/ Goes(w, "rename", "cleanup") /\ Error /\ UNCHANGED <<file, temp>>
  /\ UNCHANGED <<found, world>>

\* os.Rename
Rename(w) ==
  /\ \/ /\ Goes(w, "rename", "ok")
        /\ file' = Installed(w)
        /\ temp' = [temp EXCEPT ![w] = "none"]
        /\ UNCHANGED errors
     \/ Goes(w, "rename", IF found[w] THEN "cleanup" ELSE "release") /\ Error /\ UNCHANGED <<file, temp>>
  /\ UNCHANGED <<found, world>>

\* os.Remove of the reserved path, whatever it now holds; its error is ignored.
Release(w) ==
  /\ Goes(w, "release", "cleanup")
  /\ \/ file' = Absent /\ UNCHANGED errors
     \/ Error /\ UNCHANGED file
  /\ UNCHANGED <<found, temp, world>>

\* The deferred os.Remove of the temporary file; its error is ignored.
Cleanup(w) ==
  /\ Goes(w, "cleanup", "error")
  /\ \/ temp' = [temp EXCEPT ![w] = "none"] /\ UNCHANGED errors
     \/ Error /\ UNCHANGED temp
  /\ UNCHANGED <<file, found, world>>

-----------------------------------------------------------------------------
Begun(w) == pc[w] \notin {"inspect"} \cup Returned

Kill(w) == /\ Begun(w)
           /\ pc' = [pc EXCEPT ![w] = "killed"]
           /\ UNCHANGED <<file, found, temp, errors, world>>

\* The directory entry reaches the disk, with as much of the contents as has.
Flush == /\ disk' \in IF \E w \in Writers : file = Cached(w) THEN {Body(file.by), Torn(file.by)} ELSE {file}
         /\ UNCHANGED <<file, pc, found, temp, errors, losses, meddling>>

PowerLoss == /\ losses < MaxLosses
             /\ losses' = losses + 1
             /\ file' = disk
             /\ pc' = [w \in Writers |-> IF Begun(w) THEN "killed" ELSE pc[w]]
             /\ UNCHANGED <<disk, found, temp, errors, meddling>>

\* Somebody else removes the file, puts another or a link in its place.
Meddle == /\ meddling < MaxMeddling
          /\ meddling' = meddling + 1
          /\ file' \in {Absent, Link, Old} \ {file}
          /\ UNCHANGED <<disk, pc, found, temp, errors, losses>>

Init == /\ file \in {Absent, Link, Old}
        /\ disk = file
        /\ pc = [w \in Writers |-> "inspect"]
        /\ found = [w \in Writers |-> FALSE]
        /\ temp = [w \in Writers |-> "none"]
        /\ errors = 0 /\ losses = 0 /\ meddling = 0

Write(w) == \/ Inspect(w) \/ Create(w) \/ Fill(w) \/ Sync(w) \/ Reserve(w) \/ Rename(w)
            \/ Release(w) \/ Cleanup(w)

Next == \/ \E w \in Writers : Write(w) \/ Kill(w)
        \/ Flush \/ PowerLoss \/ Meddle

Spec == Init /\ [][Next]_vars

-----------------------------------------------------------------------------
(* What is expected of it *)

\* Type correctness; a writer reserves or renames only once its body is synced.
TypeOK ==
  /\ file \in Contents /\ disk \in Contents
  /\ pc \in [Writers -> {"inspect", "create", "fill", "sync", "reserve", "rename", "release",
                         "cleanup"} \cup Returned]
  /\ found \in [Writers -> BOOLEAN]
  /\ temp \in [Writers -> {"none", "empty", "torn", "cached", "synced"}]
  /\ \A w \in Writers : pc[w] \in {"reserve", "rename"} => temp[w] = "synced"
  /\ errors \in 0..MaxErrors /\ losses \in 0..MaxLosses /\ meddling \in 0..MaxMeddling

\* The installation is atomic: whoever interferes, fails or is killed, a reader
\* of the path never sees a part of a body, not even after a power loss.
NeverTorn == file \in Whole /\ disk \in Whole

\* One failing system call leaves no reservation behind that would lock the
\* path against later runs without --force.
NoReservationLeft ==
  errors <= 1 /\ losses = 0 =>
    \A w \in Writers : pc[w] = "error" => file # Reservation(w)

\* The promise of AtomicOutput.
Ended(at) == CASE at = "ok" -> "ok"
               [] at = "error" -> "error"
               [] at = "killed" -> "dead"
               [] OTHER -> "pending"

Outcome == [w \in Writers |-> Ended(pc[w])]

Promise == INSTANCE AtomicOutput WITH outcome <- Outcome

\* Writers without --force keep the promise among themselves.
KeepsPromise == Promise!Spec

\* README, lines 116-117: existing files are not replaced unless --force is
\* supplied.  No step of a writer without it replaces or removes a whole file.
KeepsExisting ==
  [][\A w \in Writers \ Forced : Write(w) /\ file # file' => file \in {Absent, Reservation(w)}]_vars
=============================================================================
