---------------------------- MODULE AtomicOutput ----------------------------
(***************************************************************************)
(* What internal/snapshot.Write promises of an output path (README,        *)
(* "Outputs"): the file appears whole or not at all, and a writer without  *)
(* --force replaces nothing that was there.  Writers are runs of Doctor    *)
(* that name the same path.  The only thing a reader may see besides whole *)
(* files is the empty one with which a writer reserves a free path.        *)
(***************************************************************************)
CONSTANTS Writers,   \* runs of Doctor writing to the path
          Forced     \* those given --force

\* What the path holds: nothing, a symbolic link, somebody else's file, the
\* reservation of a writer, or its body.
Absent == [what |-> "absent"]
Link   == [what |-> "link"]
Old    == [what |-> "old"]
Reservation(w) == [what |-> "empty", by |-> w]
Body(w)        == [what |-> "full", by |-> w]

Whole == {Absent, Link, Old} \cup {Reservation(w) : w \in Writers} \cup {Body(w) : w \in Writers}

VARIABLES file,      \* what the path holds
          disk,      \* what it would hold after a power loss
          outcome    \* writer -> "pending", or how its call of Write ended:
                     \* "ok", "error", "dead"

promised == <<file, disk, outcome>>

Reserve(w) == /\ outcome[w] = "pending"
              /\ file = Absent
              /\ file' = Reservation(w)
              /\ UNCHANGED <<disk, outcome>>

Publish(w) == /\ outcome[w] = "pending"
              /\ w \in Forced \/ file = Reservation(w)
              /\ file' = Body(w)
              /\ outcome' = [outcome EXCEPT ![w] = "ok"]
              /\ UNCHANGED disk

Withdraw(w) == /\ outcome[w] = "pending"
               /\ file = Reservation(w)
               /\ file' = Absent
               /\ UNCHANGED <<disk, outcome>>

Fail(w) == /\ outcome[w] = "pending"
           /\ outcome' = [outcome EXCEPT ![w] = "error"]
           /\ UNCHANGED <<file, disk>>

Die(w) == /\ outcome[w] = "pending"
          /\ outcome' = [outcome EXCEPT ![w] = "dead"]
          /\ UNCHANGED <<file, disk>>

Persist == disk' = file /\ UNCHANGED <<file, outcome>>

LosePower == /\ file' = disk
             /\ \E dead \in SUBSET {w \in Writers : outcome[w] = "pending"} :
                  outcome' = [w \in Writers |-> IF w \in dead THEN "dead" ELSE outcome[w]]
             /\ UNCHANGED disk

Init == /\ file \in {Absent, Link, Old}
        /\ disk = file
        /\ outcome = [w \in Writers |-> "pending"]

Next == \/ \E w \in Writers : Reserve(w) \/ Publish(w) \/ Withdraw(w) \/ Fail(w) \/ Die(w)
        \/ Persist \/ LosePower

Spec == Init /\ [][Next]_promised
=============================================================================
