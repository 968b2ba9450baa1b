--------------------------- MODULE MCCompileManager ---------------------------
(***************************************************************************)
(* Instances of CompileManager for TLC. A request is its own project and   *)
(* options; both ask for the same compile.                                 *)
(***************************************************************************)
EXTENDS CompileManager, TLC

CONSTANTS j1, j2, w1, w2, p1, f1, f2, c1, c2, quick

MCProjectOf == [j \in Jobs |-> p1]
MCOptionsOf == [j \in Jobs |-> quick]

\* One token for each path and content, and c2 an empty file: no two trees give
\* the same bytes, unless ReadFile fails on c1.
MCPathBytes == [f \in Paths |-> <<f>>]
MCContentBytes == [c \in Contents |-> IF c = c2 THEN <<>> ELSE <<c>>]

\* f2 is where LaTeX writes the PDF of f1.
MCSiblingPdf == [f \in Paths |-> IF f = f1 /\ f2 \in Paths THEN f2 ELSE None]
MCNoSiblingPdf == [f \in Paths |-> None]

MCFiles == [p \in Projects |-> [f \in Paths |-> IF f = f1 THEN c1 ELSE None]]

WorkerSymmetry == Permutations(Workers)
=============================================================================
