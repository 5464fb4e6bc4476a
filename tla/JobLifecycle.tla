---------------------------- MODULE JobLifecycle ----------------------------
(***************************************************************************)
(* What the tool history promises of a recorded job, whoever acts on it:   *)
(* the file is stored before the row lists it and is removed before the    *)
(* row goes, whether the owner deletes the job or its retention ends.      *)
(*                                                                         *)
(*    new -> stored -> listed -> expired -> emptied -> gone                *)
(*                        \----------------/                               *)
(*                                                                         *)
(* A job whose own storage or database operation failed is struck: nothing *)
(* is promised of it.                                                      *)
(***************************************************************************)
CONSTANT Jobs
VARIABLE phase

Phases == {"new", "stored", "listed", "expired", "emptied", "gone", "struck"}

Arrows ==
    { <<"new", "stored">>,       \* the upload
      <<"new", "gone">>,         \* the run was never recorded
      <<"stored", "listed">>,    \* the insert
      <<"listed", "expired">>,   \* seven days later
      <<"listed", "emptied">>,   \* the owner's delete, first half
      <<"expired", "emptied">>,  \* the cleaner, or the owner's delete
      <<"emptied", "gone">> }    \* the row is deleted or pruned
      \cup {<<p, "struck">> : p \in Phases}

Init == phase = [j \in Jobs |-> "new"]

Moves(j) == phase'[j] = phase[j] \/ <<phase[j], phase'[j]>> \in Arrows

\* Time, a prune or a crash moves several jobs at once.
Next == /\ phase' \in [Jobs -> Phases]
        /\ \A j \in Jobs : Moves(j)

Spec == Init /\ [][Next]_phase
=============================================================================
