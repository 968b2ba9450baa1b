---------------------------- MODULE MCProjectsPage ----------------------------
(* Small instances of ProjectsPage for TLC. *)
EXTENDS ProjectsPage

CONSTANTS own, other, copy, t1, t2

\* One tab with everything; two tabs that restore and delete one project.
MCEnvs == {
    [tabs |-> {t1}, views |-> {"all", "archived", "trash"}, acts |-> 4, faults |-> 1,
     buttons |-> {"duplicate", "zip", "archive", "trash", "unarchive", "open"}],
    [tabs |-> {t1}, views |-> Views, acts |-> 3, faults |-> 1,
     buttons |-> Buttons \cup {"create", "open", "logout"}],
    [tabs |-> {t1, t2}, views |-> {"trash"}, acts |-> 8, faults |-> 0,
     buttons |-> {"trash", "restore", "purge"}]}
===============================================================================
