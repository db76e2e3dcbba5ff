----------------------------- MODULE PoolTests ------------------------------
(***************************************************************************)
(* The programs of the task pool in the sandbox: what tests/test_tasks.py  *)
(* asks of each of them, for every input up to a length and for every      *)
(* failure of the sandbox.                                                 *)
(***************************************************************************)
EXTENDS Sandbox, TaskPool

(* "Every task is sound": the C programs do what their descriptions say,   *)
(* for every constant of a round, input and error path, and a translation  *)
(* that does the same passes every test that both of them got to run.      *)
TasksAreSound == CProgramsAreSound /\ FaithfulPasses

(* "Weak Rust is genuinely different" and "genuinely catchable": it is     *)
(* wrong on some input, by the bug it was given (kv_normalize: one of its  *)
(* two) and by no other, and every test that shows a difference counts     *)
(* against it.                                                             *)
WeakIsCatchable == WeakOnesAreWeak /\ DifferenceIsSeen

=============================================================================
