------------------------------ MODULE MCTasks ------------------------------
(* The main thread and a pool of one or two workers, on a task table so    *)
(* small that a second live task makes it grow.                            *)
EXTENDS Tasks
=============================================================================
