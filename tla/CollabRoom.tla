------------------------------ MODULE CollabRoom ------------------------------
(***************************************************************************)
(* The collaborative mode of the editor pages: the Yjs document of the     *)
(* shown file, its first content, the room of services/collab that merges  *)
(* the documents of the pages, and the two places it is saved to, the      *)
(* stored state and the file itself, each by timers of its own.            *)
(*                                                                         *)
(* A Yjs document is a set of items that only grows, so merging is union.  *)
(* An item is a word and the documents it was inserted through: a file's   *)
(* text that is inserted into a new document makes new items of old words. *)
(* Deletions are not modelled.  A viewer's page has no room and saves      *)
(* nothing, and is left out.                                               *)
(***************************************************************************)
EXTENDS Naturals, Sequences, FiniteSets, SequencesExt

CONSTANTS
    Pages,    \* the editor pages open on the project
    Paths,    \* its files
    None,     \* nothing stored, no page, no word
    Envs      \* bounds: the pages and files there are, the documents opened, the
              \* words written, the failures, the saves on their way, and what
              \* else may happen: some of {"early", "outside"}

ASSUME RoomAssumption ==
    /\ None \notin Pages \cup Paths
    /\ \A e \in Envs : /\ e.docs \in Nat /\ e.words \in Nat /\ e.faults \in Nat
                       /\ e.puts \in Nat \ {0}
                       /\ e.pages \subseteq Pages /\ e.paths \subseteq Paths
                       /\ e.also \subseteq {"early", "outside"}

VARIABLES
    env,      \* the element of Envs that the behaviour is in
    file,     \* object store: the items of each file's text
    state,    \* project_collab_state of each path, or None
    room,     \* collab server: the document of each room
    shown,    \* page: the active path
    stage,    \* page: where the effect that opens the file is
    doc,      \* page: ydocRef.current, while a file is shown
    client,   \* page: the number of that document
    model,    \* page: the editor's model of each path, or None
    online,   \* page: the provider's socket is open
    timers,   \* page: the armed timers
    puts,     \* the saves on their way, oldest first
    docs, words, faults,  \* bounds: documents, words and failures so far
    typed,    \* history: what was typed into the document of each path
    seeded,   \* history: the paths whose text was inserted into a document
    restored, \* history: the word a restore brought while nothing else was under
              \* way, until somebody types
    excuse    \* history: what went on that the pages do not guard against

stores == <<file, state>>
pages  == <<shown, stage, doc, client, model, online, timers>>
bounds == <<docs, words, faults>>
history == <<typed, seeded, restored, excuse>>
vars == <<env, stores, room, pages, puts, bounds, history>>

Word == Paths \X Nat
Item == [word : Word, through : Seq(Nat)]
Timers == {"autosave", "state", "file"}
Opening == {"state", "file", "again", "connect"}

\* The text of a document: how often each word is in it.
TextOf(items) ==
    [w \in {i.word : i \in items} |-> Cardinality({i \in items : i.word = w})]
Fail == faults < env.faults /\ faults' = faults + 1
Showing(x) == {p \in Pages : shown[p] = x}
Write(x) == [word |-> <<x, words + 1>>, through |-> <<>>]

Init ==
    /\ env \in Envs
    /\ file = [x \in Paths |-> {[word |-> <<x, 0>>, through |-> <<>>]}]
    /\ state = [x \in Paths |-> None] /\ room = [x \in Paths |-> {}]
    /\ shown = [p \in Pages |-> None] /\ stage = [p \in Pages |-> "away"]
    /\ doc = [p \in Pages |-> {}] /\ client = [p \in Pages |-> 0]
    /\ model = [p \in Pages |-> [x \in Paths |-> None]]
    /\ online = [p \in Pages |-> FALSE] /\ timers = [p \in Pages |-> {}]
    /\ puts = <<>>
    /\ docs = 0 /\ words = 0 /\ faults = 0
    /\ typed = [x \in Paths |-> {}] /\ seeded = {} /\ restored = [x \in Paths |-> None]
    /\ excuse = {}

(***************************************************************************)
(* A file is shown.  The cleanup of the effect clears the timers and       *)
(* destroys the document; it runs again for the same path too, when the    *)
(* role arrives.                                                           *)
(***************************************************************************)
\* The page leaves a document that is not all saved, not all sent, or behind that
\* of the room or of another page.
Unsaved(p) ==
    \/ timers[p] # {}
    \/ stage[p] = "bound" /\ doc[p] # room[shown[p]]
    \/ stage[p] = "bound" /\ \E q \in Showing(shown[p]) : ~ doc[q] \subseteq doc[p]
    \/ \E i \in DOMAIN puts : puts[i].then = p

Cleanup(p) ==
    /\ online' = [online EXCEPT ![p] = FALSE]
    /\ timers' = [timers EXCEPT ![p] = {}]
    /\ doc' = [doc EXCEPT ![p] = {}]
    /\ excuse' = excuse \cup (IF Unsaved(p) THEN {"left"} ELSE {})

Show(p, x) ==
    /\ p \in env.pages /\ x \in env.paths
    /\ docs < env.docs /\ docs' = docs + 1
    /\ Cleanup(p)
    /\ shown' = [shown EXCEPT ![p] = x] /\ stage' = [stage EXCEPT ![p] = "state"]
    /\ client' = [client EXCEPT ![p] = docs + 1]
    /\ model' = [model EXCEPT ![p][x] = IF @ = None THEN {} ELSE @]
    /\ UNCHANGED <<env, stores, room, puts, words, faults, typed, seeded, restored>>

Leave(p) ==
    /\ stage[p] # "away"
    /\ Cleanup(p)
    /\ shown' = [shown EXCEPT ![p] = None] /\ stage' = [stage EXCEPT ![p] = "away"]
    /\ model' = [model EXCEPT ![p] = [x \in Paths |-> None]]
    /\ UNCHANGED <<env, stores, room, client, puts, bounds, typed, seeded, restored>>

\* The document starts as s; the provider is made.
Start(p, s) ==
    doc' = [doc EXCEPT ![p] = s] /\ stage' = [stage EXCEPT ![p] = "connect"]

\* Mutant: the file's text is put in front of the stored state.
GetStateSeeding(p) ==
    LET x == shown[p]
    IN  /\ stage[p] = "state" /\ stage' = [stage EXCEPT ![p] = "file"]
        /\ excuse' = excuse /\ doc' = doc
        /\ UNCHANGED <<env, stores, room, shown, client, model, online, timers, puts,
                       bounds, typed, seeded, restored>>

\* The stored state, when there is one, is all of the text.  An error of the
\* database is answered as if there were none.
GetState(p) ==
    LET x == shown[p]
        others == \E q \in Showing(x) : stage[q] \in {"file", "again"}
        none == /\ stage' = [stage EXCEPT ![p] = "file"] /\ UNCHANGED doc
                /\ excuse' = excuse \cup (IF x \in seeded \/ others THEN {"raced"} ELSE {})
    IN  /\ stage[p] = "state"
        /\ \/ IF state[x] = None THEN none /\ UNCHANGED faults
              ELSE Start(p, state[x]) /\ UNCHANGED <<faults, excuse>>
           \/ Fail /\ excuse' = excuse \cup {"fault"} /\ UNCHANGED doc
              /\ \E s \in {"file", "again"} : stage' = [stage EXCEPT ![p] = s]
        /\ UNCHANGED <<env, stores, room, shown, client, model, online, timers, puts,
                       docs, words, typed, seeded, restored>>

\* Otherwise the file's text is inserted; after an error it is asked for once more.
GetFile(p) ==
    LET text == {[i EXCEPT !.through = Append(@, client[p])] : i \in file[shown[p]]}
    IN  /\ stage[p] \in {"file", "again"}
        /\ \/ Start(p, text) /\ seeded' = seeded \cup {shown[p]} /\ UNCHANGED <<faults, excuse>>
           \/ /\ Fail /\ UNCHANGED seeded /\ excuse' = excuse \cup {"fault"}
              /\ IF stage[p] = "again" THEN Start(p, {})
                 ELSE stage' = [stage EXCEPT ![p] = "again"] /\ UNCHANGED doc
        /\ UNCHANGED <<env, stores, room, shown, client, model, online, timers, puts,
                       docs, words, typed, restored>>

\* After the answer of /me the document is bound to the model, which takes its
\* text, and its updates are saved from now on.
Bind(p) ==
    LET x == shown[p]
    IN  /\ stage[p] = "connect" /\ stage' = [stage EXCEPT ![p] = "bound"]
        /\ model' = [model EXCEPT ![p][x] = doc[p]]
        /\ timers' = [timers EXCEPT ![p] = @ \cup
                        IF TextOf(model[p][x]) = TextOf(doc[p]) THEN {} ELSE {"autosave"}]
        /\ UNCHANGED <<env, stores, room, shown, doc, client, online, puts, bounds, history>>

(***************************************************************************)
(* The room.  The provider connects, and connects again, as long as the    *)
(* file is shown; documents and room then send each other what they lack.  *)
(***************************************************************************)
Connect(p) ==
    /\ stage[p] \in {"connect", "bound"} /\ ~ online[p]
    /\ online' = [online EXCEPT ![p] = TRUE]
    /\ UNCHANGED <<env, stores, room, shown, stage, doc, client, model, timers, puts,
                   bounds, history>>

Disconnect(p) ==
    /\ Fail /\ online[p]
    /\ online' = [online EXCEPT ![p] = FALSE]
    /\ UNCHANGED <<env, stores, room, shown, stage, doc, client, model, timers, puts,
                   docs, words, history>>

Behind(p) == stage[p] # "away" /\ ~ room[shown[p]] \subseteq doc[p]

\* The room has what no page that has opened the file shows, and what is not all
\* stored: a save of it is still on its way.
Alone(x) ==
    /\ room[x] # {}
    /\ ~ \E p \in Showing(x) : stage[p] = "bound" /\ room[x] \subseteq doc[p]
    /\ ~ /\ state[x] # None /\ room[x] \subseteq state[x]
         /\ ~ \E i \in DOMAIN puts : puts[i].what = "state" /\ puts[i].path = x

\* What the room alone had is gone.
Restart ==
    /\ Fail
    /\ room' = [x \in Paths |-> {}] /\ online' = [p \in Pages |-> FALSE]
    /\ excuse' = excuse \cup IF (\E p \in Pages : Behind(p)) \/ (\E x \in Paths : Alone(x))
                            THEN {"fault"} ELSE {}
    /\ UNCHANGED <<env, stores, shown, stage, doc, client, model, timers, puts,
                   docs, words, typed, seeded, restored>>

Push(p) ==
    /\ online[p] /\ ~ doc[p] \subseteq room[shown[p]]
    /\ room' = [room EXCEPT ![shown[p]] = @ \cup doc[p]]
    /\ UNCHANGED <<env, stores, pages, puts, bounds, history>>

\* The document of p becomes d: what is bound shows it, and is to be saved.
Update(p, d) ==
    /\ doc' = [doc EXCEPT ![p] = d]
    /\ IF stage[p] = "bound"
       THEN /\ model' = [model EXCEPT ![p][shown[p]] = d]
            /\ timers' = [timers EXCEPT ![p] = Timers]
       ELSE UNCHANGED <<model, timers>>

\* Mutant: what comes from the room is not saved.
PullUnsaved(p) ==
    /\ online[p] /\ ~ room[shown[p]] \subseteq doc[p]
    /\ doc' = [doc EXCEPT ![p] = @ \cup room[shown[p]]]
    /\ model' = [model EXCEPT ![p][shown[p]] = IF stage[p] = "bound" THEN doc'[p] ELSE @]
    /\ UNCHANGED <<env, stores, room, shown, stage, client, online, timers, puts,
                   bounds, history>>

Pull(p) ==
    /\ online[p] /\ ~ room[shown[p]] \subseteq doc[p]
    /\ Update(p, doc[p] \cup room[shown[p]])
    /\ UNCHANGED <<env, stores, room, shown, stage, client, online, puts, bounds, history>>

(***************************************************************************)
(* Typing and saving.                                                      *)
(***************************************************************************)
Type(p) ==
    LET x == shown[p]
        item == [Write(x) EXCEPT !.through = <<client[p]>>]
    IN  /\ stage[p] = "bound"
        /\ words < env.words /\ words' = words + 1
        /\ Update(p, doc[p] \cup {item})
        /\ typed' = [typed EXCEPT ![x] = @ \cup {item}]
        /\ restored' = [restored EXCEPT ![x] = None]
        /\ UNCHANGED <<env, stores, room, shown, stage, client, online, puts, docs,
                       faults, seeded, excuse>>

\* The editor takes keys before the document is bound.
TypeEarly(p) ==
    /\ "early" \in env.also /\ stage[p] \in Opening
    /\ words < env.words /\ words' = words + 1
    /\ model' = [model EXCEPT ![p][shown[p]] = @ \cup {Write(shown[p])}]
    /\ timers' = [timers EXCEPT ![p] = @ \cup {"autosave"}]
    /\ excuse' = excuse \cup {"early"}
    /\ UNCHANGED <<env, stores, room, shown, stage, doc, client, online, puts, docs,
                   faults, typed, seeded, restored>>

\* A save leaves for the server.
Put(what, p, value, then) ==
    /\ Len(puts) < env.puts
    /\ puts' = Append(puts, [what |-> what, path |-> shown[p], value |-> value, then |-> then])

\* The editor's text is stored as the file, and then the document as its state.
Autosave(p) ==
    /\ "autosave" \in timers[p] /\ timers' = [timers EXCEPT ![p] = @ \ {"autosave"}]
    /\ Put("file", p, model[p][shown[p]], p)
    /\ UNCHANGED <<env, stores, room, shown, stage, doc, client, model, online, bounds, history>>

PersistState(p) ==
    /\ "state" \in timers[p] /\ timers' = [timers EXCEPT ![p] = @ \ {"state"}]
    /\ Put("state", p, doc[p], None)
    /\ UNCHANGED <<env, stores, room, shown, stage, doc, client, model, online, bounds, history>>

SyncFile(p) ==
    /\ "file" \in timers[p] /\ timers' = [timers EXCEPT ![p] = @ \ {"file"}]
    /\ Put("file", p, doc[p], None)
    /\ UNCHANGED <<env, stores, room, shown, stage, doc, client, model, online, bounds, history>>

\* The Save command does at once what the autosave does later.
Save(p) ==
    /\ "early" \in env.also /\ stage[p] # "away"
    /\ words < env.words /\ words' = words + 1
    /\ Put("file", p, model[p][shown[p]], p)
    /\ excuse' = excuse \cup IF stage[p] = "bound" THEN {} ELSE {"early"}
    /\ UNCHANGED <<env, stores, room, pages, docs, faults, typed, seeded, restored>>

\* After the file, the state is taken from ydocRef.current: the document that
\* the page shows now.
StateAfter(put) ==
    IF put.then = None \/ stage[put.then] = "away" THEN <<>>
    ELSE <<[what |-> "state", path |-> put.path, value |-> doc[put.then], then |-> None]>>

HandleCollabPutState(x, value) == state' = [state EXCEPT ![x] = value] /\ UNCHANGED file
PutProjectFile(x, value) == file' = [file EXCEPT ![x] = value] /\ UNCHANGED state

\* A save lands, whichever it is: the last one stays.
Land(i) ==
    LET put == puts[i]
        rest == RemoveAt(puts, i)
        over == \E j \in 1 .. i - 1 : puts[j].what = put.what /\ puts[j].path = put.path
        moved == StateAfter(put) # <<>> /\ (shown[put.then] # put.path \/ stage[put.then] # "bound")
    IN  /\ \/ /\ IF put.what = "state" THEN HandleCollabPutState(put.path, put.value)
                 ELSE PutProjectFile(put.path, put.value)
              /\ puts' = rest \o StateAfter(put)
              /\ excuse' = excuse \cup (IF over THEN {"overtaken"} ELSE {})
                                  \cup (IF moved THEN {"switched"} ELSE {})
              /\ UNCHANGED faults
           \/ /\ Fail /\ excuse' = excuse \cup {"fault"}
              /\ puts' = rest
              /\ UNCHANGED stores
        /\ UNCHANGED <<env, room, pages, docs, words, typed, seeded, restored>>

\* Nothing is under way anywhere.
AtRest ==
    /\ puts = <<>>
    /\ \A p \in Pages : /\ timers[p] = {} /\ stage[p] \in {"away", "bound"}
                        /\ stage[p] = "bound" => online[p] /\ doc[p] = room[shown[p]]

\* A file is stored past the documents: by an import, the agent, a plain editor.
OtherWrites(x) ==
    /\ "outside" \in env.also /\ x \in env.paths
    /\ words < env.words /\ words' = words + 1
    /\ file' = [file EXCEPT ![x] = {Write(x)}]
    /\ excuse' = excuse \cup {"outside"}
    /\ UNCHANGED <<env, state, room, pages, puts, docs, faults, typed, seeded, restored>>

\* A snapshot is restored from page p, which then loads itself again.
RestoreSnapshot(p, x) ==
    /\ "outside" \in env.also /\ x \in env.paths /\ stage[p] # "away"
    /\ words < env.words /\ words' = words + 1
    /\ file' = [file EXCEPT ![x] = {Write(x)}]
    /\ restored' = [restored EXCEPT ![x] = IF AtRest THEN Write(x).word ELSE None]
    /\ online' = [online EXCEPT ![p] = FALSE] /\ timers' = [timers EXCEPT ![p] = {}]
    /\ doc' = [doc EXCEPT ![p] = {}]
    /\ shown' = [shown EXCEPT ![p] = None] /\ stage' = [stage EXCEPT ![p] = "away"]
    /\ model' = [model EXCEPT ![p] = [y \in Paths |-> None]]
    /\ excuse' = excuse \cup {"outside"}
    /\ UNCHANGED <<env, state, room, client, puts, docs, faults, typed, seeded>>

Users ==
    \/ \E p \in Pages : Leave(p) \/ Type(p) \/ TypeEarly(p) \/ Save(p)
    \/ \E p \in Pages, x \in Paths : Show(p, x) \/ RestoreSnapshot(p, x)
    \/ \E x \in Paths : OtherWrites(x)

Page(p) ==
    \/ GetState(p) \/ GetFile(p) \/ Bind(p) \/ Connect(p) \/ Push(p) \/ Pull(p)
    \/ Autosave(p) \/ PersistState(p) \/ SyncFile(p)

Next ==
    \/ Users \/ Restart
    \/ \E p \in Pages : Page(p) \/ Disconnect(p)
    \/ \E i \in DOMAIN puts : Land(i)

Spec == Init /\ [][Next]_vars

(***************************************************************************)
(* Properties.                                                             *)
(***************************************************************************)
TypeOK ==
    /\ file \in [Paths -> SUBSET Item] /\ \A x \in Paths : state[x] = None \/ state[x] \subseteq Item
    /\ room \in [Paths -> SUBSET Item]
    /\ shown \in [Pages -> Paths \cup {None}]
    /\ stage \in [Pages -> Opening \cup {"away", "bound"}]
    /\ \A p \in Pages : shown[p] = None <=> stage[p] = "away"
    /\ doc \in [Pages -> SUBSET Item] /\ online \in [Pages -> BOOLEAN]
    /\ timers \in [Pages -> SUBSET Timers]

\* When everything has been sent and saved, what was typed in any page is in the
\* stored state and in the file, and the pages that show the file show just that,
\* whatever connections and restarts of the room's server lay in between.
KeptAtRest ==
    AtRest /\ excuse \subseteq {"raced"} =>
        \A x \in Paths :
            /\ typed[x] # {} => state[x] # None /\ typed[x] \subseteq state[x]
            /\ state[x] # None => TextOf(file[x]) = TextOf(state[x])
            /\ \A p \in Showing(x) : TextOf(model[p][x]) = TextOf(file[x])

\* A document starts with the text of the file once, not once for every page.
SeededOnce ==
    excuse \cap {"raced", "fault", "switched", "early"} = {} =>
        \A x \in Paths, p \in Pages :
            /\ \A w \in DOMAIN TextOf(room[x]) : TextOf(room[x])[w] = 1
            /\ \A w \in DOMAIN TextOf(doc[p]) : TextOf(doc[p])[w] = 1

\* "A snapshot can be restored at any time" (Editor.tsx:3045): what a restore
\* brought, with nothing else under way, stays until somebody types.
RestoreLasts ==
    \A x \in Paths : restored[x] # None => \E i \in file[x] : i.word = restored[x]
=============================================================================
