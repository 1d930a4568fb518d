------------------------------ MODULE MCMigrations ------------------------------
(***************************************************************************)
(* Three deployments of the runner: `old`, `amended` (whose repeatable     *)
(* file has changed) and `edited` (whose run-once file has changed).       *)
(***************************************************************************)
EXTENDS Migrations, TLC

CONSTANTS old, amended, edited

MCFiles == <<"001-init", "002-data", "003-more">>
MCRepeatable == {"001-init"}
MCBundle ==
    [r \in Runners |->
        [f \in FileNames |->
            CASE f = "001-init" /\ r = amended -> "c2"
              [] f = "002-data" /\ r = edited  -> "c2"
              [] OTHER                         -> "c1"]]
================================================================================
