--------------------------- MODULE MCPaperclawPanel ---------------------------
(* Instances of PaperclawJob and its panel for TLC. *)
EXTENDS PaperclawPanel

CONSTANTS j1, j2, w1, w2, f1, f2, c1, c2

\* Two jobs over two workers whose services fail at will, one stop and a restart.
Failing == [jobs |-> {j1, j2}, workers |-> {w1, w2}, paths |-> {f1}, large |-> {c2},
            turns |-> 1, faults |-> {"db", "store", "llm"}, stops |-> 1, roles |-> TRUE, panel |-> FALSE, clicks |-> {}]

\* Two jobs for a channel of one and one worker, two files; the model may fail.
Burst == [jobs |-> {j1, j2}, workers |-> {w1}, paths |-> {f1, f2}, large |-> {},
          turns |-> 2, faults |-> {"llm"}, stops |-> 0, roles |-> TRUE, panel |-> FALSE, clicks |-> {}]

\* Two jobs of one panel: requests fail; it cancels; it is closed.
Clicked(faults, clicks) ==
  [jobs |-> {j1, j2}, workers |-> {w1}, paths |-> {}, large |-> {}, turns |-> 0,
   faults |-> faults, stops |-> 0, roles |-> FALSE, panel |-> TRUE, clicks |-> clicks]

MCEnvs == {Failing, Burst, Clicked({"net"}, {}), Clicked({}, {"cancel"}), Clicked({"net"}, {"close"})}
=============================================================================
