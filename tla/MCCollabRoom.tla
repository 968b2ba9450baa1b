----------------------------- MODULE MCCollabRoom -----------------------------
(* Instances of CollabRoom for TLC. *)
EXTENDS CollabRoom, TLC

CONSTANTS p1, p2, x1, x2

Env(ps, xs, d, w, f, n, also) ==
    [puts |-> n, pages |-> ps, paths |-> xs, docs |-> d, words |-> w, faults |-> f, also |-> also]

Swap == Permutations({p1, p2})

Overtake == Env({p1}, {x1}, 1, 2, 0, 2, {})
Restarts == Env({p1, p2}, {x1}, 2, 1, 1, 1, {})
Return == Env({p1, p2}, {x1}, 3, 0, 0, 1, {})
Switch == Env({p1}, {x1, x2}, 2, 1, 0, 2, {"early"})
Outside == Env({p1}, {x1}, 2, 1, 0, 2, {"outside"})
MCEnvs == {Overtake, Restarts, Return, Switch, Outside}
RestoreEnvs == {Outside}
=============================================================================
