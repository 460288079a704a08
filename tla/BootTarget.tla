----------------------------- MODULE BootTarget -----------------------------
(***************************************************************************)
(* What the install promises about the disk, with every step of it taken   *)
(* away: where a default boot ends up.  "loader" is the loader's own boot  *)
(* environment, a model is the DSM installed for it, "broken" is a disk    *)
(* whose boot menu and kernel partition do not belong together.            *)
(***************************************************************************)
CONSTANT Models
VARIABLE target

Init == target = "loader"

\* The switch from the loader to DSM is one step, and it ends in a system that
\* boots; so does the completion of an interrupted re-install.
Commit(m) == target \in {"loader", "broken"} /\ target' = m

\* Only an installed DSM can break, by being overwritten.
Overwrite == target \in Models /\ target' = "broken"

\* The bootstrap menu put back.
Rollback == target # "loader" /\ target' = "loader"

Next == (\E m \in Models : Commit(m)) \/ Overwrite \/ Rollback

Spec == Init /\ [][Next]_target
=============================================================================
