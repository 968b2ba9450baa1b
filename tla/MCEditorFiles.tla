--------------------------- MODULE MCEditorFiles ---------------------------
EXTENDS EditorFiles

M == <<"main.tex">>
A == <<"d", "a.tex">>
T == <<"a.tex">>
I == <<"i.png">>
K == <<"d", ".texpadkeep">>
B == <<"b.bib">>

MCOrder == <<T, B, K, A, I, M>>
MCTex == {T, A, M}
MCBib == {B}
MCBinary == {I}
MCAllowed == {T, B, A, I, M}

MCArchive == {A, M}

All == {"newFile", "newFolder", "upload", "drop", "image", "rename", "move", "delete",
        "deleteFolder", "setMain", "import", "restore", "accept", "save", "other"}

\* One operation of any kind, with typing and switching tabs.
One == [files |-> {A, M}, names |-> {T, M}, kinds |-> All, ops |-> 1, texts |-> 1,
        faults |-> 0, puts |-> 1, early |-> FALSE, browse |-> TRUE]
\* Two operations, which may overlap; an operation with a failure; an image; two
\* saves on their way; commands before the page has heard of the main file;
\* a bibliography as main file.
MCEnvs == {
    One,
    [One EXCEPT !.ops = 2, !.texts = 0, !.browse = FALSE],
    [One EXCEPT !.ops = 2, !.kinds = {"rename", "move", "accept"}, !.names = {T}, !.browse = FALSE],
    [One EXCEPT !.faults = 1, !.browse = FALSE],
    [One EXCEPT !.files = {A, I}, !.names = {T, I}, !.kinds = {"image", "rename", "move"}],
    [One EXCEPT !.kinds = {"save"}, !.texts = 2, !.puts = 2],
    [One EXCEPT !.kinds = {"rename"}, !.names = {T}, !.texts = 0, !.early = TRUE],
    [One EXCEPT !.files = {A, B}, !.names = {T}, !.texts = 0, !.ops = 2, !.browse = FALSE,
                !.kinds = {"delete", "setMain", "rename"}]}
=============================================================================
