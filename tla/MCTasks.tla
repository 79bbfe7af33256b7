------------------------------ MODULE MCTasks ------------------------------
(* The task life cycle for model checking.  The TIDs are 1 to TID_MAX - 1;  *)
(* the roots are model values.  The fair specification is checked, so the   *)
(* roots are not declared symmetric.                                        *)
EXTENDS Tasks

=============================================================================
