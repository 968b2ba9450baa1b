---------------------------- MODULE MCCompileClient ---------------------------
(* Instances of CompileClient for TLC. *)
EXTENDS CompileClient, TLC

CONSTANTS t1, t2, j1, j2

PageSymmetry == Permutations(Pages)

Env(js, lossy, impatient, deletable) ==
  [jobs |-> js, lossy |-> lossy, impatient |-> impatient, deletable |-> deletable]
Lossy == Env(Jobs, TRUE, TRUE, FALSE)
Patient == Env({j1}, FALSE, FALSE, TRUE)
LossyOnly == {Lossy}
LossyOrPatient == {Lossy, Patient}
=============================================================================
