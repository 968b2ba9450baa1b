------------------------------ MODULE MCAgentChat ------------------------------
(* Instances of AgentChat for TLC. *)
EXTENDS AgentChat

CONSTANTS f1, f2, c1, c2

\* Two messages whose proposals are settled; a large write; the store fails.
Settled == [sends |-> 2, turns |-> 1, paths |-> {f1, f2}, large |-> {c2},
            faults |-> {"store", "llm"}, also |-> {"settle"}]

\* Three messages with images, over a network that breaks and a page loaded again.
Broke == [sends |-> 3, turns |-> 1, paths |-> {f1}, large |-> {},
          faults |-> {"net", "llm"}, also |-> {"image", "leave"}]

MCEnvs == {Settled, Broke}
=============================================================================
