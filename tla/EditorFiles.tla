---------------------------- MODULE EditorFiles ----------------------------
(***************************************************************************)
(* The files of a project as one editor page sees and changes them: the    *)
(* list and the tree, the tabs, the editor's models with the load and the  *)
(* autosave of the shown file, and the operations of the file tree and the *)
(* menus, each a series of requests whose answers may be interleaved with  *)
(* everything else the page does.  Editor.tsx, FileTree.tsx.  Without the  *)
(* collaboration server; the collaborative mode is CollabRoom.             *)
(***************************************************************************)
EXTENDS Naturals, Sequences, FiniteSets, FiniteSetsExt, SequencesExt

CONSTANTS
    Order,     \* the paths, each a sequence of segments, as the server sorts them
    Tex, Bib,  \* the paths that end in .tex, and in .bib
    Binary,    \* the paths of images and PDFs, shown as a preview
    Allowed,   \* the paths whose extension the server stores
    Keep,      \* the placeholder of a folder: a path that ends in .texpadkeep
    Default,   \* "main.tex", what the page takes for the main file until told
    InitMain,  \* the main file when the page is opened
    Archive,   \* the paths an imported archive or a restored snapshot brings
    None,      \* no path, no text, nothing under way
    Envs       \* what a behaviour may hold: the stored files, the kinds of
               \* operation, the names the user gives to files, and the bounds on
               \* operations, texts, failures and saves on their way

Path == Range(Order)
Docs == Path \cup {<<"preview">>, <<"garbled">>, <<>>}
Text == [doc : Docs, ver : Nat]
Empty == [doc |-> <<>>, ver |-> 0]
Preview == [doc |-> <<"preview">>, ver |-> 0]
Garbled == [doc |-> <<"garbled">>, ver |-> 0]

ASSUME PathAssumption ==
    /\ Order \in Seq(Path)
    /\ Tex \subseteq Path /\ Bib \subseteq Path /\ Binary \subseteq Path /\ Allowed \subseteq Path
    /\ Archive \subseteq Path /\ InitMain \in Path /\ Default \in Path /\ Keep \in Path
    /\ \A e \in Envs : e.files \subseteq Path /\ InitMain \in e.files /\ e.names \subseteq Path
    /\ None \notin Path /\ None \notin Text /\ None \notin [path : Path, got : Text \cup {None}]
    /\ <<"preview">> \notin Path /\ <<"garbled">> \notin Path /\ <<>> \notin Path

VARIABLES
    env,       \* the element of Envs that the behaviour is in
    stored,    \* server: the text of every file, or None
    main,      \* server: main_tex_path of the project
    mount,     \* page: the two loads of a new page that are not answered yet, and
               \* "role" while it does not know the user's role
    files,     \* page: the list as last loaded
    mainPath,  \* page: what it takes for the main file
    active,    \* page: the shown file
    models,    \* page: the editor's model of a path, or None
    load,      \* page: the load of the shown file under way, or None
    timer,     \* page: the path the armed autosave timer will store to, or None
    puts,      \* the saves on their way, oldest first
    proposals, \* page: the text the agent proposes for a path, or None
    ops,       \* page: the operations started and not ended
    fresh,     \* bound: texts made so far
    faults,    \* bound: failures so far
    started,   \* bound: operations started so far
    excuse     \* history: what went on that the page does not guard against

server == <<stored, main>>
page == <<mount, files, mainPath, active, models, load, timer>>
bounds == <<env, fresh, faults, started>>
vars == <<server, page, puts, proposals, ops, bounds, excuse>>

First(S) == Order[Min({i \in 1 .. Len(Order) : Order[i] \in S})]
FirstOr(S, T, default) ==
    IF S \cap T # {} THEN First(S \cap T) ELSE default
Existing == {p \in Path : stored[p] # None}
PathBasename(p) == <<Last(p)>>
PathUnderFolder(p, d) == IsPrefix(d, p)
NoProposals == [p \in Path |-> None]
New(p) == [doc |-> p, ver |-> fresh + 1]
Made(n) == fresh + n <= env.texts /\ fresh' = fresh + n

(***************************************************************************)
(* Rendering.  Show is what the effects do once React has a new active     *)
(* path: the load of the old file is cancelled and its autosave timer      *)
(* cleared, the new file gets a model and is loaded (a preview is not).    *)
(* Settle is the effect on the list and the main path, which may send the  *)
(* page on to another path, b, as soon as it shows a.                      *)
(***************************************************************************)
Opened(a, ms) ==
    IF ms[a] # None /\ a \notin Binary THEN ms
    ELSE [ms EXCEPT ![a] = IF a \in Binary THEN Preview ELSE Empty]

\* Mutant: a new active path leaves the armed autosave timer as it is.
ShowKeepsTimer(a, b, ms) ==
    /\ active' = b /\ timer' = timer
    /\ IF a = active /\ b = active THEN models' = ms /\ load' = load
       ELSE /\ models' = Opened(b, Opened(a, ms))
            /\ load' = IF b \in Binary THEN None ELSE [path |-> b, got |-> None]

Show(a, b, ms) ==
    /\ active' = b
    /\ IF a = active /\ b = active
       THEN models' = ms /\ UNCHANGED <<load, timer>>
       ELSE /\ models' = Opened(b, IF a = active THEN ms ELSE Opened(a, ms))
            /\ load' = IF b \in Binary THEN None ELSE [path |-> b, got |-> None]
            /\ timer' = None

Settle(fs, mp, a) ==
    IF fs = {} \/ a \in fs THEN a ELSE IF mp \in fs THEN mp ELSE First(fs)

\* The page is rendered with the list fs, the main path mp and the active path a.
Page(fs, mp, a, b, ms) ==
    /\ files' = fs /\ mainPath' = mp
    /\ IF b = None THEN UNCHANGED <<active, models, load, timer>>
       ELSE Show(IF a = None THEN b ELSE a, b, ms)

\* setFiles of a new list; setMainPath, which renders only when it is a change.
ShowList(fs, a, ms) == Page(fs, mainPath, a, Settle(fs, mainPath, a), ms)
ShowMain(mp, a, ms) ==
    Page(files, mp, a, IF mp = mainPath THEN a ELSE Settle(files, mp, a), ms)
ShowPath(a, ms) == Page(files, mainPath, a, a, ms)

\* The project is told.  The effects depend on the role too: when the page first
\* hears it, they run again for the shown file, which is loaded over what was typed.
ShowProject(mp) ==
    IF active = None \/ "role" \notin mount THEN ShowMain(mp, active, models)
    ELSE LET b == IF mp = mainPath THEN active ELSE Settle(files, mp, active)
         IN  /\ files' = files /\ mainPath' = mp /\ active' = b
             /\ models' = Opened(b, Opened(active, models))
             /\ load' = IF b \in Binary THEN None ELSE [path |-> b, got |-> None]
             /\ timer' = None

NewPage ==
    /\ mount' = {"main", "files", "role"}
    /\ files' = {} /\ mainPath' = Default /\ active' = None
    /\ models' = [p \in Path |-> None] /\ load' = None /\ timer' = None

Init ==
    /\ env \in Envs
    /\ stored = [p \in Path |-> IF p \in env.files THEN [doc |-> p, ver |-> 0] ELSE None]
    /\ main = InitMain
    /\ mount = {"main", "files", "role"}
    /\ files = {} /\ mainPath = Default /\ active = None
    /\ models = [p \in Path |-> None] /\ load = None /\ timer = None
    /\ puts = <<>> /\ proposals = NoProposals /\ ops = <<>>
    /\ fresh = 0 /\ faults = 0 /\ started = 0
    /\ excuse = {}

\* A request fails: the server refused it, or it was done and its answer lost.
Outcomes == IF faults < env.faults THEN {"ok", "refused", "lost"} ELSE {"ok"}
JudgeAlso(out, more) ==
    /\ faults' = IF out = "ok" THEN faults ELSE faults + 1
    /\ excuse' = excuse \cup (IF out = "ok" THEN {} ELSE {"fault"}) \cup more
Judge(out) == JudgeAlso(out, {})

\* What a request for the list brings: all files, or some of them where the server's
\* connection to the database breaks between two rows and it answers what it has.
Answers == IF faults < env.faults THEN {"ok", "part", "refused"} ELSE {"ok"}
Listings(out) == CASE out = "ok" -> {Existing}
                   [] out = "part" -> SUBSET Existing \ {Existing}
                   [] out = "refused" -> {{}}

\* Others change a path that a running operation uses.
Uses(op) == {op.from} \cup {op.texts[j].path : j \in DOMAIN op.texts}
Touched(os, i, ps) ==
    [j \in DOMAIN os |-> IF j # i /\ Uses(os[j]) \cap ps # {}
                         THEN [os[j] EXCEPT !.clean = FALSE] ELSE os[j]]

LoadMain ==
    /\ "main" \in mount
    /\ \E out \in Outcomes :
         /\ Judge(out)
         /\ mount' = mount \ (IF out = "ok" THEN {"main", "role"} ELSE {"main"})
         /\ IF out = "ok" THEN ShowProject(main)
            ELSE UNCHANGED <<files, mainPath, active, models, load, timer>>
    /\ UNCHANGED <<server, puts, proposals, ops, env, fresh, started>>

LoadFiles ==
    /\ "files" \in mount
    /\ mount' = mount \ {"files"}
    /\ \E out \in Answers : \E fs \in Listings(out) :
         /\ Judge(out)
         /\ IF out # "refused" THEN ShowList(fs, active, models)
            ELSE UNCHANGED <<files, mainPath, active, models, load, timer>>
    /\ UNCHANGED <<server, puts, proposals, ops, env, fresh, started>>
(***************************************************************************)
(* The shown file.                                                         *)
(***************************************************************************)
\* The server reads the file that is being loaded: not found is a failure too.
FetchProjectFile ==
    /\ load # None /\ load.got = None
    /\ \E out \in Outcomes \ {"lost"} :
         /\ Judge(out)
         /\ load' = [load EXCEPT !.got =
                       IF out = "ok" /\ stored[load.path] # None
                       THEN stored[load.path] ELSE Empty]
    /\ UNCHANGED <<server, mount, files, mainPath, active, models, timer, puts,
                   proposals, ops, env, fresh, started>>

\* The answer replaces what the model holds, and the change arms the autosave.
Loaded ==
    /\ load # None /\ load.got # None
    /\ load' = None
    /\ IF models[load.path] = None THEN UNCHANGED <<models, timer>>
       ELSE /\ models' = [models EXCEPT ![load.path] = load.got]
            /\ timer' = active
    /\ UNCHANGED <<server, mount, files, mainPath, active, puts, proposals, ops,
                   bounds, excuse>>

\* Mutant: no save is scheduled while another is on its way.
TypeWhileSaving ==
    /\ active # None /\ active \notin Binary /\ models[active] # None
    /\ Made(1)
    /\ models' = [models EXCEPT ![active] = New(active)]
    /\ timer' = IF puts = <<>> THEN active ELSE timer
    /\ UNCHANGED <<server, mount, files, mainPath, active, load, puts, proposals,
                   ops, env, faults, started, excuse>>

Type ==
    /\ active # None /\ active \notin Binary /\ models[active] # None
    /\ Made(1)
    /\ models' = [models EXCEPT ![active] = New(active)]
    /\ timer' = active
    /\ UNCHANGED <<server, mount, files, mainPath, active, load, puts, proposals,
                   ops, env, faults, started, excuse>>

\* editorInstRef.current?.getModel()?.getValue() ?? ''
EditorText == IF models[active] = None THEN Empty ELSE models[active]

Autosave ==
    /\ timer # None /\ Len(puts) < env.puts
    /\ puts' = Append(puts, [path |-> timer, text |-> EditorText])
    /\ timer' = None
    /\ UNCHANGED <<server, mount, files, mainPath, active, models, load, proposals,
                   ops, bounds, excuse>>

\* The Save command, also the first half of Save and compile.
Save ==
    /\ "save" \in env.kinds
    /\ active # None /\ active \notin Binary /\ Len(puts) < env.puts
    /\ started < env.ops /\ started' = started + 1
    /\ puts' = Append(puts, [path |-> active, text |-> EditorText])
    /\ UNCHANGED <<server, page, proposals, ops, env, fresh, faults, excuse>>

\* The saves on their way may overtake one another.
PutLands(i) ==
    /\ \E out \in Outcomes :
         LET put == puts[i]
             done == out \in {"ok", "lost"} /\ put.path \in Allowed
             over == \E j \in 1 .. i - 1 : puts[j].path = put.path
         IN  /\ stored' = IF done THEN [stored EXCEPT ![put.path] = put.text] ELSE stored
             /\ JudgeAlso(out, IF over THEN {"overtaken"} ELSE {})
    /\ puts' = RemoveAt(puts, i)
    /\ ops' = Touched(ops, 0, {puts[i].path})
    /\ UNCHANGED <<main, page, proposals, env, fresh, started>>

OpenTab(p) ==
    /\ env.browse /\ p \in files /\ p # active
    /\ Show(p, p, models)
    /\ UNCHANGED <<server, mount, files, mainPath, puts, proposals, ops, bounds, excuse>>

Reload ==
    /\ faults < env.faults /\ faults' = faults + 1
    /\ NewPage /\ proposals' = NoProposals /\ ops' = <<>>
    /\ excuse' = excuse \cup {"fault"}
    /\ UNCHANGED <<server, puts, env, fresh, started>>

\* Another member stores a file.
OtherWrites(p) ==
    /\ "other" \in env.kinds /\ p \in Existing /\ Made(1)
    /\ stored' = [stored EXCEPT ![p] = New(p)]
    /\ excuse' = excuse \cup {"other"}
    /\ ops' = Touched(ops, 0, {p})
    /\ UNCHANGED <<main, page, puts, proposals, env, faults, started>>

(***************************************************************************)
(* The operations.  An operation is the async function that a command      *)
(* calls: what it closed over (the paths, mainPath, activePath) and the     *)
(* requests it still has to make, in order.  An exception drops the rest.  *)
(***************************************************************************)
Op(kind, from, to, texts, todo) ==
    [kind |-> kind, from |-> from, to |-> to, texts |-> texts, todo |-> todo,
     sent |-> 0, main |-> mainPath, active |-> active, next |-> None, clean |-> TRUE]

Start(op) ==
    /\ mount \subseteq {"role"} \/ env.early
    /\ op.kind \in env.kinds /\ started < env.ops /\ started' = started + 1
    /\ ops' = Append(ops, op)
    /\ excuse' = excuse \cup (IF ops = <<>> THEN {} ELSE {"overlap"})
                         \cup (IF mount \subseteq {"role"} THEN {} ELSE {"early"})
    /\ UNCHANGED <<env, server, page, puts, proposals, faults>>

Put(p, t) == [path |-> p, text |-> t]

NewFile(p) ==
    /\ p \in Path /\ Made(1)
    /\ Start(Op("newFile", None, p, <<Put(p, New(p))>>, <<"put", "list">>))

NewFolder ==
    /\ Made(0)
    /\ Start(Op("newFolder", None, Keep, <<Put(Keep, Empty)>>, <<"put", "list">>))

UploadSingleProjectFile(p) ==
    /\ Made(1)
    /\ Start(Op("upload", None, p, <<Put(p, New(p))>>, <<"put", "list">>))

\* Files dropped on a folder are uploaded one after the other.
UploadProjectFilesWithPrefix(p, q) ==
    /\ p \in Path /\ q \in Path /\ Made(1) /\ p # q
    /\ Start(Op("drop", None, None, <<Put(p, New(p)), Put(q, New(q))>>, <<"put", "list">>))

InsertImage(p) ==
    /\ Made(1) /\ p \in Binary /\ active # None
    /\ Start(Op("image", None, p, <<Put(p, New(p))>>, <<"put", "list">>))

\* A text belongs to the path it was made for, until a rename takes it along.
Taken(text, to) == IF text.doc \in Path THEN [text EXCEPT !.doc = to] ELSE text

\* The requests of a rename or a move: of a file that has no model, of the main file.
Relocating(unread, get, isMain) ==
    LET rest == IF isMain THEN <<"put", "del", "patch", "list">> ELSE <<"put", "del", "list">>
    IN  IF unread THEN <<get>> \o rest ELSE rest

\* Mutant: the main path is compared with the shown file, as the rename of the
\* shown file may.
RelocateShown(kind, from, to, get) ==
    LET ms == IF from = active THEN <<Put(to, Taken(EditorText, to))>>
              ELSE IF models[from] # None THEN <<Put(to, Taken(models[from], to))>> ELSE <<>>
    IN  /\ Made(0) /\ from # to
        /\ Start([Op(kind, from, to, ms, Relocating(ms = <<>>, get, mainPath = active))
                   EXCEPT !.clean = stored[from] # None])

\* What is stored under the new name: the model's text when there is one, else
\* the file is fetched first.
Relocate(kind, from, to, get) ==
    LET ms == IF from = active THEN <<Put(to, Taken(EditorText, to))>>
              ELSE IF models[from] # None THEN <<Put(to, Taken(models[from], to))>> ELSE <<>>
    IN  /\ Made(0) /\ from # to
        /\ Start([Op(kind, from, to, ms, Relocating(ms = <<>>, get, mainPath = from))
                   EXCEPT !.clean = stored[from] # None])

\* From the tree's menu; the top bar renames the shown file in the same way.
RenameProjectFile(from, to) ==
    from \in files \cup ({active} \ {None}) /\ Relocate("rename", from, to, "getText")

\* The folders that the tree shows.
Folders == {SubSeq(p, 1, Len(p) - 1) : p \in files} \ {<<>>}

\* A file dragged onto a folder; an existing file is overwritten once confirmed.
MoveProjectFile(from, dir) ==
    /\ from \in files /\ dir \in Folders \cup {<<>>}
    /\ ~ PathUnderFolder(dir, from)
    /\ dir \o PathBasename(from) \in Path
    /\ Relocate("move", from, dir \o PathBasename(from), "getRaw")

DeleteFile(p) ==
    /\ p \in files /\ Made(0)
    /\ Start([Op("delete", p, None, <<>>, <<"del", "list">>) EXCEPT !.next =
                 IF files \ {p} = {} THEN Default ELSE First(files \ {p})])

DeleteFolder(d) ==
    /\ Made(0) /\ d \in Folders
    /\ Start(Op("deleteFolder", d, None, <<>>, <<"delDir", "list", "check">>))

SetMainTex(p) ==
    /\ Made(0)
    /\ Start(Op("setMain", None, p, <<>>, <<"patch">>))

\* In any order: the server stores them all before the page hears of it.
Unpacked ==
    LET order == SetToSeq(Archive)
    IN  [i \in 1 .. Cardinality(Archive) |-> Put(order[i], New(order[i]))]

ImportZip ==
    /\ Made(1)
    /\ Start(Op("import", None, None, Unpacked, <<"unpack", "main", "list">>))

RestoreSnapshot ==
    /\ Made(1)
    /\ Start(Op("restore", None, None, Unpacked, <<"unpack", "list">>))

\* The agent's stream brings proposals, which replace those of the same files.
Propose(ps) ==
    /\ "accept" \in env.kinds /\ Made(1)
    /\ proposals' = [p \in Path |-> IF p \in ps THEN New(p) ELSE proposals[p]]
    /\ UNCHANGED <<server, page, puts, ops, env, faults, started, excuse>>

\* The proposals are stored one after the other, in the order of the list.
AcceptAgentProposals ==
    LET batch == {p \in Path : proposals[p] # None}
        n == Cardinality(batch)
    IN  /\ batch # {} /\ Made(0)
        /\ \E order \in [1 .. n -> batch] :
              /\ IsInjective(order)
              /\ Start(Op("accept", None, None,
                          [j \in 1 .. n |-> Put(order[j], proposals[order[j]])], <<"put", "list">>))

RejectAgentProposals ==
    /\ proposals # NoProposals /\ proposals' = NoProposals
    /\ UNCHANGED <<server, page, puts, ops, bounds, excuse>>

(***************************************************************************)
(* The requests of operation i, each with what the page does at its        *)
(* answer, up to the next request.                                         *)
(***************************************************************************)
Turn(i, request) == ops[i].todo # <<>> /\ Head(ops[i].todo) = request
Tailed(op) == [op EXCEPT !.todo = Tail(@)]
Dropped(op) == [op EXCEPT !.todo = <<>>]

\* The operation goes on as op, having changed the paths ps.
Go(i, op, ps) ==
    LET os == Touched(ops, i, ps)
    IN  ops' = IF op.todo = <<>> THEN RemoveAt(os, i) ELSE [os EXCEPT ![i] = op]

\* Mutant: the status of the answer to a PUT is not looked at.
PutFileUnchecked(i) ==
    LET op == ops[i]
        f == op.texts[op.sent + 1]
        sent == [op EXCEPT !.sent = @ + 1]
    IN  /\ Turn(i, "put")
        /\ stored' = IF f.path \in Allowed THEN [stored EXCEPT ![f.path] = f.text] ELSE stored
        /\ Go(i, IF sent.sent = Len(op.texts) THEN Tailed(sent) ELSE sent, {f.path})
        /\ UNCHANGED <<main, page, puts, proposals, bounds, excuse>>

PutFile(i) ==
    LET op == ops[i]
        f == op.texts[op.sent + 1]
        sent == [op EXCEPT !.sent = @ + 1]
    IN  /\ Turn(i, "put")
        /\ \E out \in Outcomes :
             LET written == out # "refused" /\ f.path \in Allowed
             IN  /\ JudgeAlso(out, IF op.kind = "accept"
                                   THEN IF f.path \in Allowed THEN {} ELSE {"fault"}
                                   ELSE IF f.path = active THEN {"replaced"} ELSE {})
                 /\ stored' = IF written THEN [stored EXCEPT ![f.path] = f.text] ELSE stored
                 /\ Go(i, IF out # "ok" \/ ~ written THEN Dropped(op)
                          ELSE IF sent.sent = Len(op.texts) THEN Tailed(sent) ELSE sent,
                       IF written THEN {f.path} ELSE {})
        /\ UNCHANGED <<main, page, puts, proposals, env, fresh, started>>

\* A rename reads the file as text, a move as bytes.
GetFile(i) ==
    LET op == ops[i]
        raw == stored[op.from]
        got == IF raw = None THEN None ELSE IF op.from \in Binary /\ Turn(i, "getText") THEN Garbled ELSE Taken(raw, op.to)
    IN  /\ Turn(i, "getText") \/ Turn(i, "getRaw")
        /\ \E out \in Outcomes \ {"lost"} :
             /\ Judge(out)
             /\ Go(i, IF out = "ok" /\ raw # None
                      THEN [Tailed(op) EXCEPT !.texts = <<Put(op.to, got)>>] ELSE Dropped(op), {})
        /\ UNCHANGED <<server, page, puts, proposals, env, fresh, started>>

\* The second half of a rename or a move, once the new file is stored.
DeleteOld(i) ==
    LET op == ops[i]
    IN  /\ Turn(i, "del") /\ op.kind # "delete"
        /\ \E out \in Outcomes :
             /\ Judge(out)
             /\ stored' = IF out = "refused" THEN stored ELSE [stored EXCEPT ![op.from] = None]
             /\ Go(i, IF out = "ok" THEN Tailed(op) ELSE Dropped(op), {op.from})
             /\ IF out = "ok"
                THEN ShowPath(IF op.active = op.from THEN op.to ELSE active,
                              [models EXCEPT ![op.from] = None])
                ELSE UNCHANGED <<files, mainPath, active, models, load, timer>>
        /\ UNCHANGED <<main, mount, puts, proposals, env, fresh, started>>

\* Deleting a file: the status of the answer is not looked at, and the main
\* file is not either.
DeleteOne(i) ==
    LET op == ops[i]
    IN  /\ Turn(i, "del") /\ op.kind = "delete"
        /\ \E out \in Outcomes, threw \in BOOLEAN :
             /\ threw => out # "ok"
             /\ JudgeAlso(out, IF op.from = main THEN {"deleted"} ELSE {})
             /\ stored' = IF out = "refused" THEN stored ELSE [stored EXCEPT ![op.from] = None]
             /\ Go(i, IF threw THEN Dropped(op) ELSE Tailed(op), {op.from})
             /\ IF threw THEN UNCHANGED <<files, mainPath, active, models, load, timer>>
                ELSE ShowPath(IF op.active = op.from THEN op.next ELSE active,
                          [models EXCEPT ![op.from] = None])
        /\ UNCHANGED <<main, mount, puts, proposals, env, fresh, started>>

\* The server deletes the files it lists, one by one, and may stop halfway.
Without(f, ps) == [p \in Path |-> IF p \in ps THEN None ELSE f[p]]
DeleteUnder(i) ==
    LET op == ops[i]
        under == {p \in Path : PathUnderFolder(p, op.from)}
    IN  /\ Turn(i, "delDir")
        /\ \E out \in Outcomes \cup Answers, gone \in SUBSET under :
             /\ Judge(out)
             /\ out = "ok" => gone = under
             /\ stored' = IF out = "refused" THEN stored ELSE Without(stored, gone)
             /\ Go(i, IF out \in {"ok", "part"} THEN Tailed(op) ELSE Dropped(op), under)
             /\ IF out \in {"ok", "part"} THEN ShowPath(active, Without(models, under))
                ELSE UNCHANGED <<files, mainPath, active, models, load, timer>>
        /\ UNCHANGED <<main, mount, puts, proposals, env, fresh, started>>

\* The folder is gone: is the main file?  If so, the first .tex file becomes it.
CheckMain(i) ==
    LET op == ops[i]
        nextMain(nf) == IF op.main \in nf THEN op.main ELSE FirstOr(nf, Tex, Default)
        nextActive(nf) == IF ~ PathUnderFolder(op.active, op.from) THEN None
                          ELSE IF nextMain(nf) \in nf THEN nextMain(nf)
                          ELSE FirstOr(nf, Tex, FirstOr(nf, Path, Default))
    IN  /\ Turn(i, "check")
        /\ \E out \in Answers : \E nf \in Listings(out) :
             /\ JudgeAlso(out, IF nextMain(nf) \in nf THEN {} ELSE {"emptied"})
             /\ Go(i, IF out # "refused" /\ op.main \notin nf
                      THEN [op EXCEPT !.todo = <<"patch">>, !.to = nextMain(nf),
                                      !.next = nextActive(nf)]
                      ELSE Dropped(op), {})
             /\ IF out # "refused" /\ op.main \in nf /\ nextActive(nf) # None
                THEN ShowPath(nextActive(nf), models)
                ELSE UNCHANGED <<files, mainPath, active, models, load, timer>>
        /\ UNCHANGED <<server, mount, puts, proposals, env, fresh, started>>

\* PATCH of the project's main_tex_path.  Only deleteFolder goes on after an error.
PatchMain(i) ==
    LET op == ops[i]
        a == IF op.next = None THEN active ELSE op.next
    IN  /\ Turn(i, "patch")
        /\ \E out \in Outcomes :
             /\ Judge(out)
             /\ main' = IF out = "refused" THEN main ELSE op.to
             /\ Go(i, IF out = "ok" THEN Tailed(op) ELSE Dropped(op), {})
             /\ IF out = "ok" THEN ShowMain(op.to, a, models)
                ELSE ShowPath(a, models)
        /\ UNCHANGED <<stored, mount, puts, proposals, env, fresh, started>>

\* What a path holds once the texts are stored.
Written(texts, p) ==
    LET is == {j \in DOMAIN texts : texts[j].path = p}
    IN  IF is = {} THEN stored[p] ELSE texts[CHOOSE j \in is : TRUE].text

\* An archive's or a snapshot's files are stored.  The status of an import is
\* not looked at; an error of a restore ends it.
Unpack(i) ==
    LET op == ops[i]
    IN  /\ Turn(i, "unpack")
        /\ \E out \in Outcomes, threw \in BOOLEAN :
             /\ (threw => out # "ok") /\ (op.kind = "restore" => (threw <=> out # "ok"))
             /\ JudgeAlso(out, IF active \in Archive THEN {"replaced"} ELSE {})
             /\ stored' = IF out = "refused" THEN stored
                          ELSE [p \in Path |-> Written(op.texts, p)]
             /\ Go(i, IF threw THEN Dropped(op) ELSE Tailed(op), Archive)
        /\ UNCHANGED <<main, page, puts, proposals, env, fresh, started>>

LoadMainAgain(i) ==
    /\ Turn(i, "main")
    /\ \E out \in Outcomes \ {"lost"} :
         /\ Judge(out)
         /\ Go(i, IF out = "ok" THEN Tailed(ops[i]) ELSE Dropped(ops[i]), {})
         /\ mount' = mount \ (IF out = "ok" THEN {"role"} ELSE {})
         /\ IF out = "ok" THEN ShowProject(main)
            ELSE UNCHANGED <<files, mainPath, active, models, load, timer>>
    /\ UNCHANGED <<server, puts, proposals, env, fresh, started>>

\* The list is loaded again, and the operation does what it has left to do: a new
\* file is shown, an uploaded image is shown and its command inserted in the
\* editor's model, which is the old one until the page renders.
Inserted(op) ==
    IF op.kind # "image" \/ active \in Binary \/ models[active] = None THEN models
    ELSE [models EXCEPT ![active] = [doc |-> active, ver |-> op.texts[1].text.ver]]

LoadFilesAgain(i) ==
    LET op == ops[i]
        shows == op.kind \in {"newFile", "upload", "image"}
    IN  /\ Turn(i, "list") /\ op.kind \notin {"accept", "restore"}
        /\ \E out \in Answers : \E fs \in Listings(out) :
             /\ Judge(out)
             /\ Go(i, IF out # "refused" THEN Tailed(op) ELSE Dropped(op), {})
             /\ IF out = "refused"
                THEN UNCHANGED <<files, mainPath, active, models, load, timer>>
                ELSE IF shows THEN ShowList(fs, op.to, Inserted(op))
                ELSE ShowList(fs, active, models)
        /\ UNCHANGED <<server, mount, puts, proposals, env, fresh, started>>

\* After a restore the page is loaded again: what it held and was doing is gone.
RestoreEnds(i) ==
    /\ Turn(i, "list") /\ ops[i].kind = "restore"
    /\ \E out \in Outcomes \ {"lost"} :
         /\ Judge(out)
         /\ IF out = "ok" THEN NewPage /\ ops' = <<>> /\ proposals' = NoProposals
            ELSE Go(i, Dropped(ops[i]), {}) /\ UNCHANGED <<page, proposals>>
    /\ UNCHANGED <<server, puts, env, fresh, started>>

\* All proposals are stored: the models of their files take the new text, which
\* arms the autosave when the shown file is one of them, and the banner goes.
AcceptEnds(i) ==
    LET op == ops[i]
        set == {p \in {op.texts[j].path : j \in DOMAIN op.texts} \ Binary : models[p] # None}
        ms == [p \in Path |-> IF p \in set THEN Written(op.texts, p) ELSE models[p]]
    IN  /\ Turn(i, "list") /\ op.kind = "accept"
        /\ \E out \in Answers : \E fs \in Listings(out) :
             /\ Judge(out)
             /\ Go(i, Dropped(op), {})
             /\ IF out = "refused"
                THEN UNCHANGED <<proposals, files, mainPath, active, models, load, timer>>
                ELSE /\ proposals' = NoProposals
                     /\ IF Settle(fs, mainPath, active) = active /\ active \in set
                        THEN /\ files' = fs /\ models' = ms /\ timer' = active
                             /\ UNCHANGED <<mainPath, active, load>>
                        ELSE ShowList(fs, active, ms)
        /\ UNCHANGED <<server, mount, puts, env, fresh, started>>

OperationStep ==
    \E i \in DOMAIN ops :
        \/ PutFile(i) \/ GetFile(i) \/ DeleteOld(i) \/ DeleteOne(i) \/ DeleteUnder(i)
        \/ CheckMain(i) \/ PatchMain(i) \/ Unpack(i) \/ LoadMainAgain(i)
        \/ LoadFilesAgain(i) \/ RestoreEnds(i) \/ AcceptEnds(i)

(***************************************************************************)
(* Where the page offers the operations.                                   *)
(***************************************************************************)
FileMenu ==
    NewFolder \/ ImportZip \/ \E p \in env.names : NewFile(p) \/ UploadSingleProjectFile(p)

\* A row of the tree opens the file, and its menu does the rest.
FileRow == \E p \in files : OpenTab(p)
CanSetMain(p) == p \in Tex \cup Bib /\ p # mainPath
FileRowMenu ==
    \E p \in files :
        \/ CanSetMain(p) /\ SetMainTex(p)
        \/ DeleteFile(p) \/ \E q \in env.names : RenameProjectFile(p, q)
FolderMenu ==
    \/ NewFolder \/ ImportZip
    \/ \E dir \in Folders : DeleteFolder(dir) \/ \E p \in env.names : NewFile(dir \o p)
TreeHead == NewFolder \/ ImportZip \/ \E p \in env.names : NewFile(p)

\* What is dropped on the list or on a folder is a file of the tree or the user's files.
RunDrop ==
    \E dir \in Folders \cup {<<>>} :
        \/ \E p \in files : MoveProjectFile(p, dir)
        \/ \E p, q \in env.names : UploadProjectFilesWithPrefix(dir \o p, dir \o q)

\* The path in the top bar renames the shown file, whether the list has it or not.
RenameActiveFile == active # None /\ \E q \in env.names : RenameProjectFile(active, q)

\* A tab shows its file; closing the shown one shows its neighbour.
TabBar == \E p \in files : OpenTab(p)
\* The .tex files are offered, or all where there are none.
MainTexOptions == IF files \cap Tex # {} THEN files \cap Tex ELSE files
MainTexSelect == \E p \in MainTexOptions \ {mainPath} : SetMainTex(p)

FormatMenu == Type
InsertMenu == Type \/ \E p \in env.names : InsertImage(p)
ProposalsBanner == AcceptAgentProposals \/ RejectAgentProposals
ProposalsDialog == AcceptAgentProposals \/ RejectAgentProposals

Command ==
    \/ FileMenu \/ TabBar \/ FileRow \/ FileRowMenu \/ FolderMenu \/ TreeHead \/ RunDrop
    \/ RenameActiveFile \/ MainTexSelect \/ FormatMenu \/ InsertMenu
    \/ ProposalsBanner \/ ProposalsDialog \/ Save \/ RestoreSnapshot

Outside ==
    \/ \E p \in Path : OtherWrites(p)
    \/ \E ps \in SUBSET env.names : ps # {} /\ Propose(ps)

Next ==
    \/ LoadMain \/ LoadFiles \/ FetchProjectFile \/ Loaded \/ Autosave
    \/ \E i \in DOMAIN puts : PutLands(i)
    \/ Reload \/ Command \/ OperationStep \/ Outside

Spec == Init /\ [][Next]_vars

(***************************************************************************)
(* Properties.                                                             *)
(***************************************************************************)
Excuses == {"fault", "overtaken", "other", "overlap", "early", "deleted", "replaced", "emptied"}

\* Every variable keeps to what the code puts in it.
TypeOK ==
    /\ stored \in [Path -> Text \cup {None}] /\ main \in Path
    /\ mount \subseteq {"main", "files", "role"} /\ files \subseteq Path /\ mainPath \in Path
    /\ active \in Path \cup {None}
    /\ models \in [Path -> Text \cup {None}]
    /\ load = None \/ load \in [path : Path, got : Text \cup {None}]
    /\ timer \in Path \cup {None}
    /\ puts \in Seq([path : Path, text : Text])
    /\ proposals \in [Path -> Text \cup {None}]
    /\ excuse \subseteq Excuses

\* The text of one file is never stored, nor shown, under the path of another
\* unless a rename or a move took it there: the autosave closes over the path
\* but reads the editor (Editor.tsx:1985), and a load writes when its answer
\* comes (:803).
Nobodys == {<<>>, <<"preview">>, <<"garbled">>}
NothingMixed ==
    \A p \in Path :
        /\ stored[p] # None => stored[p].doc \in {p} \cup Nobodys
        /\ models[p] # None => models[p].doc \in {p} \cup Nobodys

\* When the page has nothing left to do, the editor shows what the server holds,
\* whatever was typed, loaded, renamed, moved, deleted or accepted meanwhile.
\* Not so after an error, a save that overtook another, or a file that was
\* replaced under the editor, which the page does not load again.
SavedAtRest ==
    /\ load = None /\ timer = None /\ puts = <<>> /\ ops = <<>>
    /\ active \in Allowed \ Binary /\ models[active] # None
    /\ excuse \cap {"fault", "overtaken", "other", "replaced"} = {}
    => stored[active] = models[active]

\* A rename, a move, an upload or an acceptance goes on only with what is stored,
\* and a renamed file is stored under one of its two names at any moment, as long
\* as nobody else writes the same paths.
OperationKeepsText ==
    \A i \in DOMAIN ops :
        LET op == ops[i]
        IN  op.clean =>
            /\ \A j \in 1 .. op.sent : stored[op.texts[j].path] = op.texts[j].text
            /\ op.kind \in {"rename", "move"} => op.sent = 1 \/ stored[op.from] # None

\* When no operation runs, the project's main file is one of its files: a rename,
\* a move and the deletion of a folder take it along.  The deletion of the file
\* itself does not, nor that of a folder with all .tex files, and operations that
\* overlap or fail may not.
MainNamed ==
    /\ ops = <<>>
    /\ excuse \cap {"fault", "overlap", "early", "deleted", "emptied"} = {}
    => stored[main] # None
=============================================================================
