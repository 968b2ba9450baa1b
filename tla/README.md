# TexPad in TLA+

This directory holds the formal specification of TexPad, the online LaTeX editor
of this repository: TLA+ modules translated from its source, TLC configurations
that check them on small instances, and proofs for every instance that TLAPS
checks. It is read beside the code; line numbers below are those of the commit
it describes, and `PROJECT.json` gives the lines of every definition.

## The system

A single Go process (`backend/cmd/server`) serves the HTTP API and runs two
worker pools. Postgres keeps the tables, MinIO the files and the artifacts,
Redis the compile cache and the rate-limit counters. The browser runs a React
application, the list of projects and the editor; a small Node service
(`services/collab`) relays Yjs updates between editors.

| Part | State it keeps | Operations | What makes it correct | Module |
|------|----------------|------------|-----------------------|--------|
| Compile service (`internal/compile`, `handlers_compile.go`, `handlers_agent_compile.go`) | `compile_jobs` rows, a bounded channel, worker goroutines, artifacts, the cache in Redis | request, enqueue, run (read the project, look in the cache, build, store, record), announce | no job lost or run twice; a success has a PDF of the inputs that were read; an end is final and announced after it was recorded; every job ends | `CompileManager` |
| Notifier and the editor's compile loop (`notify.go`, `handleCompileWS`, `compileNow` in `Editor.tsx`) | subscriber channels, sockets, `compilingRef`, timers, the PDF shown | subscribe, publish, deliver, poll, give up, finalize, download | messages neither lost nor repeated; a page follows one compile and is released from each; the PDF of a success arrives | `CompileClient` |
| Paperclaw jobs (`internal/paperclaw`, `handlers_paperclaw*.go`, `agent/orchestrator.go`) and their panel | `paperclaw_jobs` rows, a channel, workers, drafts (`pendingNew`); the panel's job, timer and button | create, cancel, run the agent's turns, store the drafts; start, poll, cancel, close | no job lost; an end is final; a cancelled run ends; success means the drafts are stored; a panel runs one job at a time | `PaperclawJob`, `PaperclawPanel` |
| Rate limiter (`internal/ratelimit`) | a counter with an expiry per key | `Allow` | at most `max` allowed in any window; a quiet caller is not refused | `RateLimit` |
| Project files (`handlers_files.go`, `storage/minio.go`) | `project_files` rows and objects | get, put, upload, delete (recursively), list, import | every row has an object; what was answered lasts | `ProjectStore` |
| Snapshots (`handlers_extra.go`) | `project_snapshots` rows with manifests, copied objects | create, restore, delete | a restore brings back what the snapshot recorded | `ProjectStore`, `CollabRoom` |
| Project lifecycle (`handlers_projects.go`, `handlers_project_lifecycle.go`, `handlers_import.go`) and the list (`Projects.tsx`) | `projects` rows; the list, its view, dialogs and busy flags | create, import, duplicate, archive, trash, restore, delete for good; list | copies are whole or gone; a restored project stays; the list shows what there is; its buttons come back | `ProjectStore`, `ProjectsPage` |
| The editor's files (`Editor.tsx`, `FileTree.tsx`) | the list, tabs, models, the load and the autosave of the shown file | load, type, save, switch tabs, and each command of the tree and the menus | texts of files never mixed; a page at rest shows what is stored; an operation loses no text; the main file stays named | `EditorFiles` |
| Collaborative editing (`Editor.tsx`, `services/collab`, `handlers_collab.go`) | Yjs documents, rooms, stored states | open, seed, connect, update, save the state and the file | the file's text enters a room once; what was typed is stored in both places | `CollabRoom` |
| Agent stream and proposals (`Editor.tsx`, `EditorAgentPanel.tsx`, `internal/agent`, `handlers_extra.go`) | the conversation, streams, drafts, proposals | send, stream, draft, propose, accept, reject | an answer stays in its turn; no draft is lost; the next message can be sent | `AgentChat`, `EditorFiles` |
| Members, shares, roles (`handlers_members.go`, `server.go`) | `project_members`, `project_shares` | add, remove, look up a role, share links | the role used is one the user has | partly: roles in `PaperclawJob`, `ProjectsPage` |
| The rest | | | | see "What is not modelled" |

They interact like this. `handleCompile` and the agent's compile tool insert a row
and hand its id to the Manager; the Manager calls `OnFinish` when the run
returns, which is `PublishCompileDone`, which sends to the channels of the
project's open sockets; the page on the other end reads the row and downloads
the PDF. A Paperclaw job runs the agent's pipeline, whose tools read and write
the project's files; the same pipeline behind the chat streams its drafts to the
page, which stores those the user accepts. A page saves what is shown, by a timer
of its own, and in collaborative mode by three, to the file and to the stored
state. Everybody who edits a project changes the rows and objects that a compile
job reads one by one. The limiter is asked by the login handlers and before each
compile.

The hard behaviours are: interleavings of workers, requests, edits and deletion
of the project; channels at their capacity, where a goroutine takes over the
blocking send; every call to Postgres, MinIO, Redis or the disk failing, most of
them with an ignored error; a stop of the process, which waits for no worker, and
a start, which looks at no row; on the pages, answers that come late, in any
order or not at all, to async functions that closed over an older state, and
timers that read the state of the moment they fire in; with the agent, a model
that may never answer and a cancellation that is a polled flag. `PROJECT.json`
lists each as a hazard at its line, with the properties that watch it.

## Modules

| Module | Models | Composed with |
|--------|--------|---------------|
| `CompileManager` | the compile service, with the project's files and their edits as it sees them | implements `CompileJob` |
| `CompileJob` | what a client of the API may rely on: statuses, the stored PDF, the announcement | abstract |
| `CompileManagerProofs` | the inductive invariant of `CompileManager`, the theorems that follow, the proof that it implements `CompileJob`, and at its end the theorems about the limiter | extends `CompileManager` and `RateLimit` |
| `CompileClient`, `CompileClientProofs` | notifier, sockets and editor pages, and their theorems | uses the actions of `CompileJob` as the server |
| `PaperclawJob` | Paperclaw's queue, pipeline and drafts | |
| `PaperclawPanel` | the panel that starts, polls and cancels jobs | extends `PaperclawJob` |
| `PaperclawProofs` | the theorems about both | extends `PaperclawPanel` |
| `ProjectStore`, `ProjectStoreProofs` | files, snapshots and copies of projects in Postgres and MinIO, every request that changes them, and the theorems | |
| `ProjectsPage`, `ProjectsPageProofs` | the list of projects in one or more tabs, with the handlers behind its buttons, and the theorems | |
| `EditorFiles`, `EditorFilesProofs` | the files of a project as one page sees and changes them, without collaboration, and the theorems | |
| `CollabRoom`, `CollabRoomProofs` | pages in collaborative mode, rooms and stored states, and the theorems | |
| `AgentChat`, `AgentChatProofs` | the conversation, the server's stream, proposals, and the theorems | |
| `RateLimit` | the limiter on one key | its definitions are named apart (`LimiterInit`, `LimiterSpec`), so that one module can extend it and `CompileManager` |
| `MC...` | instances for TLC | extend the module they name |

`CompileClient` does not repeat the server: it takes the actions of `CompileJob`
(`Server!Start`, `Server!Announce`, ...), and `CompileManagerProofs` proves that
`CompileManager` has only behaviours `CompileJob` allows. What is checked of the
pages therefore holds for the real pipeline.

Several configurations put more than one instance into a run: `env` is a variable
that `Init` chooses out of `Envs` and no step changes, a record of the bounds and
of what may happen. The state space is the union of the instances, and each
property is checked in all of them.

### CompileManager

One step is one access to a shared service; the private work of a worker between
two accesses (directories, files on its disk) belongs to the step that follows.
`pc[w]` names the access a worker makes next and follows `runJob` from top to
bottom:

| `pc` | Code in `manager.go` | Actions |
|------|------|---------|
| `lookup` | SELECT of the row, 217-227 | `Lookup`, `LookupFails` (returns before the deferred `OnFinish` exists) |
| `begin` | UPDATE to running, 233 | `Begin` |
| `main` | SELECT main_tex_path, 234-249 | `ReadMain` (an error means `main.tex`) |
| `list`, `fetch` | `materializeProject`, 425-466 | `ListFiles`, `FetchFile`, in any order of the paths |
| `cache` | GET of the key, 257-267 | `CacheHit`, `CacheMiss` |
| `copy`, `copySyn`, `hit` | 268-280 | `CopyPdf`, `CopySynctex`, `SaveHit` |
| `build` | chktex, latexmk, upload, 285-403 | `Build`, `BuildFails` |
| `putSyn`, `save`, `remember` | 404-422 | `PutSynctex`, `SaveBuilt`, `RememberCache` |
| `fail`, `finish` | `fail`, the deferred `OnFinish` | `Fail`, `Finish` |

`Insert`, `Enqueue` and `SendOverflow` are the request and the goroutine that
waits on a full channel. `PutObject`, `UpsertFileRow`, `DeleteFileRow`,
`SetMain` and `DeleteProject` are the users; an upload is two steps, object
before row, as in `handlePutFile`. `Shutdown`, `Stop` and `Restart` are the
process: after `cancelWorkers` a worker may still take jobs (a `select` with two
ready cases), then everything in memory is gone.

The data is abstract. A PDF is the record of what it was compiled from, so
"this is the PDF of those files" can be said; `uploaded` marks one that was a file
of the project and not LaTeX's output (the code takes any `main.pdf` it finds).
The SHA-256 of the cache key is taken as free of collisions of its own, but what
is hashed is modelled by what it does: `Fingerprint` joins the byte strings of
paths and contents with nothing between, in the order read. The error of
`os.ReadFile` is ignored (462), so an entry of a tree has, beside its text, how much
of it was read back for the hash (`ReadBack`): on a failing disk any part of it, or
nothing. LaTeX compiles the file itself, which is there. `rows.Err()` is never
asked, so a query that breaks between two rows lists any part of the files without
an error (`ListFiles`, the fault `rows`); `misread` is history: the jobs to which
that happened, or whose SELECT of the main file failed. A copy or an upload to the
object store may take effect and be answered with an error (`CopyPdf`,
`CopySynctex`, `Build`, `PutSynctex`): the code then goes on as if nothing was
stored. Redis's 24 hours are
`ExpireCache`, at any moment. LaTeX is a choice between a PDF and none. Options
are one value.

### CompileClient

Each compile opens its own socket and has its own call of `compileNow`, so all
three are named by the job. `call[j]` is the place of that call; the local
`finalized` is not a variable, since exactly the calls that are posting or
tracking are not finalized. `subs`, `buf`, `toSend` and `senders` are the
notifier's list, the channels, the copy of the list a `publish` still has to walk,
and the goroutines blocked on full channels. The interval does not wait for an
earlier tick, so several polls may be on their way; one is kept, because answers
that are not final change nothing and only the first final one does. A message
lost with a broken connection is the step `Unsubscribe` before `Deliver`.

### PaperclawJob and PaperclawPanel

`pc[w]` follows `RunPaperclawJob` and, between `turn` and `tools`, the loop of
`RunAgentPipeline`. `ctxDone` is `runCtx`, `failed` the error the pipeline
returns. The model of the language model is a choice: tools, an answer without
tools, an error, or nothing, ever. Drafts larger than `maxAgentProposalBytes`
are the set `large`. The role is read once, before the run; `ChangeRole` may take
it away later. The panel (`EditorPaperclawPanel.tsx`) is one record: the job it
has an id of, the row it shows, the button, the timer, and the requests to start
and to cancel that are under way. Polls are requests in `gets`, which do not wait
for each other and whose ends all stop the one timer (`PollOnce`). `slipped` is
history: the panel lost sight of a job. Progress messages, and the memories saved
after the loop, are left out, and the deletion of the project during a run.

### ProjectStore

One step is one call of a request to Postgres or MinIO. A request and what it
makes (a project, a snapshot) have one number, so `object[place][path]` is the
whole object store: a place is the prefix of a project's files or of a snapshot.
`pc[r]` names the next call:

| `pc` | Calls | Requests |
|------|-------|----------|
| `find`, `list` | `FindProject`, `List` (which may break between two rows, and passes for whole) | duplicate; snapshot, restore, recursive delete |
| `insert` | `Insert` | snapshot, duplicate, create and archive import (`create`) |
| `store`, `row` | `StoreFile`, `StoreRow`, for each file in `todo` | put and upload, import into a project, create, duplicate, snapshot (no row), restore |
| `undo` | `Undo` | duplicate, create |
| `count`, `welcome`, `welcomeRow` | `EnsureAgentWorkspace` | open, create |
| `erase`, `eraseRows` | `Erase`, `EraseRows` | delete, recursive delete |
| `update`, `tree` | `DropSnapshot`, `RemoveTree`; `Trash` | delete of a snapshot; trash and restore |
| `check`, `delete` | `CheckTrashed`, `DropProject` | delete for good |

The handlers differ in what they do when a file fails, which is `OnError`: a put
ends, an import and a restore go on with the next file, a snapshot only logs, a
duplicate and a create delete the project they began. A failed call may have
taken effect (its answer was lost); once a client is gone, the context of its
request is cancelled and all calls that follow fail, the undo among them. `Kill`
ends the process; nothing is taken up again. Content types, sizes, labels and
names are left out, and so are viewers, whose requests change nothing.

The properties need to say which requests ran alone. `crossed`, `last`, `torn`,
`broken` and `asOf` are history: the requests that ran beside one that touches the
same files, the newest request for each file, the files a removal may have left
in half, the calls that failed, and the files a snapshot or a copy found.

### ProjectsPage

The list of projects (`Projects.tsx`), in one or more tabs, with the handlers
behind its buttons. A tab is one record: the view, the list, the generation and
the loads under way, the busy row, the dialog, the modal and its pending flag. A
command is a record of `calls` that goes through the steps `sent` (to a handler),
`checked` or `filling` (between the two statements of a delete for good, and of a
copy or a new project), `done` or `failed`, and for commands that load the list
again `reading`, then `read`, `part` or `unread`: a query that breaks between two rows
is answered with the rows that came (`Lists`). The buttons of a row differ from view to
view (`RowButtons`), and a dialog covers the page (`Uncovered`), so what is enabled
is what the code enables. A component that was unmounted loses what its handlers
set, but a copy still navigates (`ReloadAnswer`). Names, search, sorting and the
theme are left out.

### EditorFiles

The page without collaboration. `Show` is what the effects do when React has a
new active path: cleanup of the old file's timer and load, a model, a load.
`Settle` is the effect on the list and the main path, which may send the page on.
Both effects of the shown file depend on the role as well, which the page hears with
the project: when that answer comes after the list, they run again for the same file,
whose timer is cleared and which is loaded over what was typed (`ShowProject`, with
`"role"` in `mount` until then). A listing may be answered with a part of the files
(`Listings`), for a query that breaks between two rows is not noticed; the recursive
delete then removes the objects of a part (`DeleteUnder`). The tree offers .tex and
.bib files as main file, the settings the .tex files or, when there are none, all
(`CanSetMain`, `MainTexOptions`).
The shown file has its load in two steps (`FetchProjectFile` at the server,
`Loaded` at the page), its timer, and saves on their way in `puts`, which land in
any order.

Each command of the menus, the tree and the top bar is an operation in `ops`: what
its async function closed over (paths, `mainPath`, `activePath`, texts) and the
requests it has left, in order. Each request is one action with what the page
does at its answer:

| Request | Code | Operations |
|---------|------|------------|
| `put` (`PutFile`) | `putProjectFile`, uploads | new file, new folder, upload, drop, image, rename, move, accept |
| `getText`, `getRaw` (`GetFile`) | `fetchProjectFile`, the bytes of a move | rename, move of a file without a model |
| `del` (`DeleteOld`, `DeleteOne`) | 1441-1456, 1566-1587 | rename, move, delete |
| `delDir`, `check` (`DeleteUnder`, `CheckMain`) | 1458-1515 | delete of a folder |
| `patch` (`PatchMain`) | `handlePatchProject` | rename and move of the main file, delete of a folder, setting the main file |
| `unpack` (`Unpack`) | `handleImportZip`, `handleRestoreSnapshot` | import, restore |
| `main`, `list` (`LoadMainAgain`, `LoadFilesAgain`, `RestoreEnds`, `AcceptEnds`) | the last lines of each | all |

An answer may be refused or lost; some handlers throw on it, some do not look at
the status, and the actions differ accordingly. Texts are a path they were made
for and a version; a preview and a binary file read as text are texts of their
own (`Preview`, `Garbled`), since a rename may store them. What the page does not
guard against is collected in `excuse` as it happens, and each property names the
excuses it excepts.

### CollabRoom

A Yjs document is a set of items that only grows, so merging is union; an item is
a word and the documents it was inserted through, so that a file's text inserted
by two pages is twice there, as in Yjs. `stage[p]` follows the effect that opens a
file: `state` (the stored state is asked for), `file` and `again` (the file, once
more after an error), `connect` (the answer of `/me` and the binding), `bound`.
`Connect`, `Disconnect`, `Push`, `Pull` and `Restart` are the provider and the
room's server, external code modelled from how the page uses it. A page saves by
three timers: `Autosave` (the model as the file and then, in `StateAfter`, the
document that is shown at that moment as the state), `PersistState` and
`SyncFile` (`onYUpdate`). Deletions of text are not modelled.

### AgentChat

`sendAgentMessage` and the panel; `handleAgentStream` with the turns of
`RunAgentPipeline`; accepting and rejecting. A stream carries its place in the
pipeline, its drafts (`pending`), the events on their way (`wire`) and whether the
page still reads. The page applies an event to the last turn of the list
(`ApplyEvent`), whichever that is. `file_write` keeps a draft, or stores a large
content at once (`WriteDraft`, `WriteLarge`). Tools that change no file, prompts
and memories are left out; the text of an event is what turn it came from.

### RateLimit

INCR and EXPIRE are one transaction (`TxPipeline`), so one step. The history
`calls` is what the properties speak of. `handleCompile` lets the request pass when
Redis gives no answer, the login handlers refuse it; a server without Redis
always allows. Neither is in the module.

## What TLC checks

| Run | Instance | Properties |
|-----|----------|------------|
| `compile_faults` | 2 jobs for the same compile, 2 workers, channel of 1, every service and the disk failing, listings that break, 1 edit, 1 stop with restart | `TypeOK`, `HeldOnce`, `SuccessHasPdf`, `CacheSound`, `EndIsFinal`, `ClientSpec` (refinement) |
| `compile_cache` | 2 jobs, 1 worker, channel of 1, 2 files of which one is where the PDF of the other goes, 2 edits, object store and Redis failing, listings that break; fairness | `FreshPdf`, `AnnouncedAfterEnd`, `EveryJobEnds`, `ClientFairSpec` (refinement with liveness) |
| `client_faults` | 2 pages, 2 jobs, channels of 1, requests and sockets failing, the 120 s | `NoticeKept`, `OneCompile`, `FinalizedAfterEnd` |
| `client_live` | 1 page that compiles twice with the same faults; and 1 page without faults and without the 120 s, whose project may be deleted; fairness | `PageReleased`, `PdfArrives` |
| `rate_redis` | limit 2, window 3, clock to 8, 5 calls, some unanswered | `AtMostLimit`, `QuietCallerAllowed` |
| `paperclaw` | 2 jobs over 2 workers, with database, store and model failing and a stop with restart; 2 jobs on a channel of 1 with 2 files, 2 contents and 2 turns; a panel over failing requests, one that cancels, one that is closed; fairness | `NothingForgotten`, `SuccessWrites`, `OneJobAtATime`, `EndIsFinal`, `CancelEnds`, `PanelFollows` |
| `project_store` | 1 project, 2 files, any 3 of 14 requests side by side, 1 failed call, broken listing, disconnection or kill | `RowHasObject`, `AckedKept`, `RestoreBringsBack`, `CopyIsWhole`, `SnapshotKept` |
| `editor_files` | 6 paths (one in a folder, its placeholder, an image, a bibliography); 1 operation of any kind with typing and tabs; 2 that overlap; 1 with a failure or a broken listing; 1 with an image; 2 saves on their way; commands before the page is loaded; a bibliography as main file | `NothingMixed`, `SavedAtRest`, `OperationKeepsText`, `MainNamed` |
| `collab_room` | 1 page whose saves overtake each other; 2 pages on a file with a restart or a failure; a file opened three times; a page that switches between 2 files; a page beside other writers and restores | `KeptAtRest`, `SeededOnce` |
| `collab_restore` | the last of these | `RestoreLasts`: violated |
| `projects_page` | 1 tab, 3 projects, 4 actions and a failure or a broken listing with one half of the buttons, 3 with all and the dialogs; 2 tabs that trash, restore and delete, 8 actions; fairness | `ListShown`, `RestoredStays`, `PageResponds` |
| `agent_chat` | 2 messages, 2 files, a large content, model and store failing, proposals settled; 3 messages with images over a breaking network and a page loaded again; fairness | `OwnTurn`, `DraftsShown`, `SendingEnds` |

The comment over each property says what it means and what it excepts.

**Why the bounds are enough.** Two jobs that ask for the same compile are the
smallest instance in which one is answered with the PDF of the other, a worker
overtakes another, and a job is lost or duplicated; with a channel of one the
second of two requests already finds it full when no worker is free. One content is
empty and the other is not, so that a file that could not be read back hashes like an
empty one and shares its cache entry. A failing disk is in `compile_faults` only:
`FreshPdf` excepts what it does to the hash, and the other failures of the disk
are those of any failed job. Two edits
let a tree be torn and then put back. One stop leaves every kind of rest behind
(a queued row, a running row, an object without a row that names it, a cache
entry). Two pages and two jobs are needed for a message of another page's
compile; one page that compiles twice is enough for an old call to disturb a new
one. The limiter's properties compare two moments at most a window apart, so a
clock a little over twice the window covers every position of the window.
Three requests are a snapshot, an edit or a delete, and a restore; or a copy, an
opening of the copy while it is made, and a delete of its source; two files let a
request fail or be overtaken between its first and its last. A panel with two
jobs has the late poll of the first meet the second.

In `editor_files` one operation beside a load, a timer and a save is every pair of
async functions of which one is a command, and the instances with two operations
are the pairs of commands; two tabs are needed to save the text of one under the
path of the other, three paths outside them for a rename or a move to go to, and
the image because only its text is not its content. In `collab_room` a document
that is opened three times meets a state saved by an earlier one and a file saved
by another; two pages suffice for both to seed a room. In `projects_page` four
actions are two changes of view around a command and its answer; a purge against
a restore takes eight, in two tabs (trash with its dialog, restore, purge with
its dialog, and the lists between). In `agent_chat` a third message is sent while
an earlier one's connection has broken and its server still works.

**Deadlock** is not checked: in each instance every job may have ended, every
edit been made and the clock have reached its horizon, and the system may then
rest. That nothing stops too early is what the liveness properties say.

**Fairness.** A goroutine that can run runs: workers, the goroutines that wait to
send, and the handler that holds a job. Calls to Postgres and the stores return,
with an answer or an error; latexmk does, since it has a time limit. The pages'
timers fire and their requests are answered or fail, in the list of projects as
in the editor and the panel; a browser handles an answer it got. For Paperclaw,
the poller ticks and everything but the model's answer returns (the tools have
time limits of their own); a pending call of the model returns once its context
is cancelled, and otherwise never need to. `SendingEnds` of the conversation does
assume that the model answers or fails: the HTTP client has no time limit
(`agent/service.go:28`), and a chat with a model that is silent for ever stays
locked until the page is loaded again. Nothing is assumed fair of users, of a
stop or a restart, or of a lossy network.

**The violation** (also in `PROJECT.json`). The panel of the snapshots says
"创建快照可保存当前项目文件副本，可随时恢复或删除。" (`Editor.tsx:3045`): a snapshot can
be restored at any time. `handleRestoreSnapshot` puts the files back and leaves
`project_collab_state` alone; the page loads itself again, applies the old state
to the editor, and that change saves the old text over the restored file. TLC
finds it with one page and nothing else under way.

## What the models show beyond that

The exceptions of the checked properties say as much about the code as the
properties. In the order of the components:

- *Compile.* `AnnouncedAfterEnd` holds while Postgres answers: every UPDATE's error
  is ignored, and an INSERT whose answer is lost leaves a queued row nobody will
  run. `EveryJobEnds` holds while the process stays up: after a stop, rows stay
  queued or running for ever. A `main.pdf` among the project's files is taken for
  LaTeX's output. `compilingRef` is released before the PDF is downloaded, so a
  slow download of an older job may replace the PDF of a newer one.
  Three errors nobody looks at decide what is compiled. A listing that breaks
  between two rows compiles a part of the project, and the job is a success if LaTeX
  is content; a failed SELECT of the main file compiles `main.tex` (`FreshPdf` excepts
  both). A file that cannot be read back is hashed by its path and the part that was
  read, and its PDF is stored in the cache under that hash: another version of the
  file that fails the same way, or that has just those bytes, is answered with it
  (`FreshPdf` excepts both ends; `SuccessHasPdf` and `CacheSound` say that PDF and
  hash belong together, not that the hash is of the whole text). And a copy of a
  cached PDF that took effect while its answer was lost is built over, so that
  `EndIsFinal` speaks of the PDF of a job that ended, and of one the cache leads to.
- *Limiter.* "Allow returns true if under limit (max per window)", says `limit.go:19`.
  EXPIRE follows each INCR, refused calls included, so the window never ends for a
  caller who keeps trying: with limit 2 and window 3, calls at 0, 2 and 3 see the
  third refused although one call lies in its window. What holds, and is proved,
  is `QuietCallerAllowed`.
- *Paperclaw.* A content too large to be a draft is stored at once, and an earlier
  draft of the same path is stored over it at the end. An error while storing
  drafts is logged only, and the job is a success, where the repository's
  `README.md:100` says the pending writes are written at the end. `SuccessWrites`
  excepts both. The drafts replace whatever the file has become since the model
  read it, and the role is checked once, before a run of many minutes.
  `CancelEnds` speaks of running jobs, because a queued one waits for a worker
  that a hung call of the model may hold. A poll that fails, or answers late, stops
  the timer of a job that runs, and the button then starts a second one
  (`OneJobAtATime` excepts it).
- *Files, snapshots, copies.* `RowHasObject` excepts deletes that ran beside a write
  of the same file, or were cut short: an upload that stores its object before a
  delete and its row after it leaves a row that nobody can read and that fails every
  compile. `RestoreBringsBack` excepts snapshots and restores in which a copy
  failed, which are answered like all others. `CopyIsWhole` excepts the two calls
  that make and take back the project: a client that leaves while its copy is made
  cancels the undo too, and half a copy stays. It also excepts a copy whose listing
  of the source broke between two rows: it is answered 201, and nothing tells that
  files are missing. A snapshot and a recursive delete pass over the rows that did
  not come in the same way, and count as requests in which a call failed. The dialog
  of a delete for good says the stored files are removed with the database
  (`Projects.tsx:1359`); the handler removes no object. The names of two copies made
  at once may be equal, and two entries of an archive that clean to one path are one
  file, the last.
- *List of projects.* `RestoredStays` excepts a restore that falls between the two
  statements of a delete for good, and one of a copy whose files are still being
  stored: if that fails, the handler deletes what it began. `ListShown` excepts a view
  that is changed under a command, commands that overlap, failures, and a listing that
  broke between two rows, which is shown as if it were the whole: `reloadList`
  shows the list of the view of the click in whatever view is open.
- *The editor's files.* A file whose load fails is shown empty, and the change event
  of showing it stores the empty text. The last two seconds before a switch of tabs
  are not saved. What is typed between the answer with the list and the one with the
  project is dropped: the role that comes with the latter loads the file again.
  `SavedAtRest` excepts saves that overtake each other and files replaced under the
  editor by an upload or an import; accepting a proposal for a file whose extension
  the server refuses counts as an error. A rename stores the page's copy: of an
  image, its bytes decoded as text, or the placeholder of the preview. `MainNamed`
  excepts `deleteFile`, which never repairs the main file, the deletion of a folder
  that holds all the .tex files, and operations that overlap, fail or begin before
  the page has heard which file is the main one. The placeholder of a new folder is
  refused by the server, whose list of extensions lacks it, so a folder is never
  made.
- *Collaboration.* `SeededOnce` excepts two pages that open an empty room at once,
  errors, and a save that ends when another file is shown, whose document becomes
  the state of the first. `KeptAtRest` excepts pages that leave in the middle, and
  a restart of the room's server while it alone has something that is not stored: a
  page types, the autosave stores the file, and the page leaves while the save of
  the state is on its way; the room restarts, the next page opens the older state,
  and what it saves is stored over the newer one.
- *Agent.* `DraftsShown` excepts proposals that arrive while others are accepted,
  which are cleared unstored; the large write over a draft, although the banner says
  of the proposals that they are not yet in the project (`Editor.tsx:3305`); and a
  connection that breaks after them.

## What is proved

With TLAPS, for any sets of jobs, workers, pages, projects, paths and contents, any
capacity of the channels, any faults, any number of requests, edits, clicks,
operations on files, saves on their way, restarts and stops, any menu of requests to
the store, and for the limiter any limit and window:

| Theorem | Module | Statement |
|---------|--------|-----------|
| `TypeCorrect` | `CompileManagerProofs` | `Spec => []TypeOK` |
| `JobsHeldOnce` | | `Spec => []HeldOnce` |
| `SuccessIsReal` | | `Spec => []SuccessHasPdf` |
| `CacheIsSound` | | `Spec => []CacheSound` |
| `AnswersAreFresh` | | `NoCollisions` gives `Spec => []FreshPdf` |
| `EndsAreFinal` | | `Spec => EndIsFinal` |
| `AnnouncedLast` | | `Spec => []AnnouncedAfterEnd` |
| `PipelineImplementsJob` | | `Spec => ClientSpec` |
| `ClientTypes`, `OneCompileAtATime` | `CompileClientProofs` | `Spec => []TypeOK`, `Spec => []OneCompile` |
| `NoticeInOnePlace` | | `Spec => []NoticeKept` |
| `PagesReadTheEnd` | | `Spec => []FinalizedAfterEnd` |
| `ClientsSeeJobs` | | `Spec => Server!Spec` |
| `PaperclawTypes`, `JobsNotForgotten` | `PaperclawProofs` | `Spec => []TypeOK`, `Spec => []NothingForgotten` |
| `EndsAreFinal` | | `Spec => EndIsFinal` |
| `SuccessIsWritten` | | `Spec => []SuccessWrites` |
| `PanelRunsJobs` | | `PanelSpec => Spec` |
| `OneJobActive` | | `PanelSpec => []OneJobAtATime` |
| `StoreTypes`, `RowsCanBeRead` | `ProjectStoreProofs` | `Spec => []TypeOK`, `Spec => []RowHasObject` |
| `AnswersAreKept` | | `Spec => []AckedKept` |
| `CopiesAreWhole` | | `Spec => []CopyIsWhole` |
| `RestoresBringBack` | | `Spec => []RestoreBringsBack` |
| `CopiesUntouched` | | `Spec => SnapshotKept` |
| `PageTypes`, `RestoredAreSpared` | `ProjectsPageProofs` | `Spec => []TypeOK`, `Spec => []RestoredStays` |
| `PageIsShown` | | `Spec => []ListShown` |
| `ChatTypes`, `AnswersInOwnTurn` | `AgentChatProofs` | `Spec => []Typed`, `Spec => []OwnTurn` |
| `DraftsAreShown` | | `Spec => []DraftsShown` |
| `FilesTyped`, `FilesUnmixed` | `EditorFilesProofs` | `Spec => []TypeOK`, `Spec => []NothingMixed` |
| `FilesKept` | | `Spec => []OperationKeepsText` |
| `FilesNamed` | | `Spec => []MainNamed` |
| `FilesSaved` | | `Spec => []SavedAtRest` |
| `RoomTypes`, `RoomSeeds` | `CollabRoomProofs` | `Spec => []TypeOK`, `Spec => []SeededOnce` |
| `RoomKeeps` | | `None \notin SUBSET Item` gives `Spec => []KeptAtRest` |
| `LimiterTypes`, `LimitKept` | `CompileManagerProofs` | `LimiterSpec => []LimiterTypeOK`, `LimiterSpec => []AtMostLimit` |
| `QuietCallerLetIn` | | `LimiterSpec => []QuietCallerAllowed` |

The proofs have one lemma per conjunct, or per conjunct and component, with a step for
each action or group of actions that share what they leave unchanged.

**The compile service.** None of the invariants but `TypeOK` is inductive alone.
The inductive invariant is

    IInv == TypeOK /\ HeldOnce /\ OpenWhileHeld /\ Settling /\ RunSound
            /\ SuccessHasPdf /\ CacheSound

`HeldOnce` needs `OpenWhileHeld`, that a job that waits or runs has an open row, or
it could be inserted a second time. A running job may store its PDF twice, by a copy
whose answer was lost and then by its build; that no other PDF is ever replaced
needs `Settling`: a job the cache leads to, or whose PDF is being copied, neither
waits nor is held by a worker that has yet to store one (`Settled`). `RunSound` ties
each place in `runJob` to what the run has gathered so far: the inputs of a hit are
those of the key that was asked for, the synctex column names an object that exists,
and a worker that is about to save has its PDF stored. From these `SuccessHasPdf`
and `CacheSound` follow step by step. The proof has one lemma per conjunct, in it
one step per action or group of actions that share what they leave unchanged.
`EndIsFinal` is an action property and follows from `IInv` and `Next`.

**Fresh answers.** `FreshPdf` says of a job whose project nobody edits that its PDF
is of the project's files and main file, but for the jobs in `misread` and the PDFs
for which a file could not be read back (`ReadWhole`). To `IInv` comes `Gathered`:
while a worker lists and fetches, what it has read is what the project has of the
paths it has done with, and once it has read all, it keeps the whole. The cache may
then still answer with the PDF of another job, of which `SuccessHasPdf` says only
that its inputs have the same hash. The theorem therefore assumes `NoCollisions`:
trees with the same bytes are the same files. That is not true of all files, since
the hash puts nothing between a path and a content, and files whose bytes run into
each other share a cache entry. It holds where each path and each content is one
token of its own, as in the configurations of `MCCompileManager`, whose trees can be
read back from their bytes. What `Fingerprint` computes is not otherwise used.

**The refinement.** `CompileJob` announces a job once, and only after its end;
`Finish` of the pipeline has no such guard. So two facts are added to the
invariant: a job that was announced has left the pipeline and does not come back
(`ToldOnce`), and a worker past the last UPDATE has a job that ended, while the
database answers (`EndedAtFinish`). Then each action of `CompileManager` that
touches a row, an artifact or `finished` is one action of `CompileJob` on the same
job, or changes nothing a client sees (`InsertRefines`, ..., `DeleteRefines`): an
UPDATE that is lost, one that finds its row deleted, or `Begin` of a job that is
already shown as running. All other actions leave the three variables alone
(`RowFrame`, `PdfFrame`, `FinishedFrame`).

**The pages and the notifier.** `OneCompile` is a count, which no step can be
compared with; `Busy` and `Alone` say the same of `compilingRef` and of pairs of
calls. `NoticeKept` counts places of a message, too. Its invariant has four parts:
the lists and channels repeat nothing (`Lists`); a message due to a page is in the
list still to be walked, in the page's channel, with a blocked sender or at the
page, in one of them only, and a message that is not due is nowhere (`Messages`); only
announced jobs have messages (`Published`); a page that waits for the answer of its
request has no socket (`Sockets`). The lemmas about sequences without repetition
say what sending, receiving and leaving the list do to these places.
`FinalizedAfterEnd` follows from `Heard`: a message at a page, or a final answer of a
poll, tells of a job whose row ended. `ClientsSeeJobs` says that the composition
leaves the server's variables to the actions of `CompileJob`; with
`PipelineImplementsJob`, what pages may rely on and what the pipeline does meet in
one specification.

**Paperclaw.** `Placed` says that a job is in one place (with its request, in the
channel, with a blocked sender, with one worker) and that the row agrees with it:
queued while it waits, active in the pipeline. No UPDATE of a run looks at the
status, so that `EndIsFinal` holds because of the places, not of a guard.
`SuccessWrites` needs an account of the drafts: what a job drafted last for a path is
pending at its worker or, when nothing is, stored, and nothing is pending outside the
turns and the last loop (`PendingInRun`, `DraftsAccounted`). `PanelRunsJobs`
makes all of this hold in `PaperclawPanel`: each step of panel and server is a step
of `PaperclawJob` or none. For `OneJobAtATime`, `Watched` says which job may be active
given what the panel awaits: none before its request, the job of the answer, or
the one it follows while its button is busy; and that an end a poll has read is
still the job's end when it is shown.

**Files, snapshots, copies.** `Typed` has, beside the types, that a request goes
through the labels of its kind and that what it names was made before it; with
`Untouched` and `Copies` (what a request is going to make is empty until it makes
it, and a copy is removed after its row) this is `Sound`, from which `SnapshotKept`
follows. For `RowHasObject`, `RowsSafe` says of each listed file that its object
exists, that it was torn, or that a removal of it is between the object and the row;
`Pending` says of a row about to be written that its object is there.
The other three properties speak of requests that nothing crossed: `Crossing` says that
requests under way together that have a file in common have crossed, `Latest` that
a request that may still write a file of which another is the newest has crossed
that one, and `LateRestore` that a restore of a snapshot that is still being made has
crossed it. Steps of other requests then leave
alone what a request has done (`...Elsewhere`), and its own go from call to call
(`Uploads`, `Removes`, `Duplicates`, `TakenBack`, `Snaps`, `Restores`).

**The list of projects.** `Typed` has, beside the types, that the loads under way
are of different generations, none above the page's, and what the steps of a call say
of its kind. `RestoredStays` follows from `Spared`: no handler under way may still delete
a project that was restored. For `ListShown`, `Right` says of a page that loads that
the load of its generation is of its view and, once read, has the rows the server has;
of one that does not, that it has at most one command under way, of its view, and
with none the right list. A page is followed as long as no exception of the property
has happened.

**The agent's conversation.** `Turns` says that a stream the page reads is the only
one, that its turn is the last of the list and carries its number, and that what it
was sent are the turns before. For `DraftsShown`, `WireRight` says that a stream that goes
on has sent texts only, and that one that is over ends with its drafts, once, and
`done`; `Showing`, that the proposals of the page are what was due and, after that
event, the drafts over it.

**The editor's files.** Each theorem has an invariant of its own beside `Typed`.
`Typed` says of an operation that the requests it has left fit its kind and what it
holds (`Sound`; `Left` lists what each kind may still have to do), of each text that
it belongs to the path it is kept under or to nobody (`Owned`), and of the load and
the timer that they are of the file that is shown; `NothingMixed` is a part of it.
`Safe` is `OperationKeepsText` for one operation, which with `Sound` is inductive:
it is kept by the steps of everybody else because a write to a path that an
operation uses takes away its `clean` (`After`), and by its own one request at a
time.

`MainNamed` speaks of a page with no operation; `Named` says what is true during one.
The page's list has nothing that is not stored, unless the operation has just removed
it (`Stale`); the page's main path is the server's, once it has heard it; operations
run one at a time; and the main file is stored, unless the operation has removed it and
is going to name another that is (`Fits`).

For `SavedAtRest`, `Ends(a, v)` says what will be stored at `a` once every save on
its way has landed in order. `Shown` says that the file the editor shows ends as what
is shown, or that it is being loaded, that the timer will save it, or that an
acceptance will write to it. While nothing is overtaken, saves land in order
(`LeastPosition`, about the minimum of a set of positions); and each way of rendering
the page keeps the file, closes it or loads it again (`Rendered`).

**The rooms.** For `SeededOnce`, a document holds each word once (`OneEach`) and no
word whose number is not given out yet (`UpTo`); a document that nobody has seeded
is nowhere (`Fresh`), neither in a room, a page, the store nor a save on its way; and
of the pages that open a file at most one is going to insert its text (`Opens`).

`KeptAtRest` is about the whole way from a key to the store, and `Kept` follows it. With
nothing left to send, pages and room have the same (`Together`); with nothing left to
save, the last state and the last file sent are what the pages show (`StateSaved`,
`FileSaved`, over `Ends` as above). Nothing typed is lost while some page has the file
open (`AllThere`), and when the last page has gone it is stored or on its way
(`AllStored`). Either the room then has all that is stored, or it was restarted and is
`Parked`: no save of the state is on its way, and every page that opens the file starts
from what is stored. The excepted restart is one that leaves neither. `PageKept` says what
a page at each stage of opening a file holds, `PutKept` that a save whose second half
is due is of a page that still shows the file.

**The limiter.** The counter alone does not give `AtMostLimit`: a call may be let
in because the key was dropped, and the calls counted before that must be shown to
be too old to matter. `Outlived` says the key lives at least a window longer than
any call it let in; `CountedIn`, that from some call on all that were let in are
counted, and those before are a window old; `SetByCall`, that the expiry was set
by a call, from which `QuietCallerAllowed` follows. The sets of calls need their
finiteness and the cardinality of a set with one element more.

The assumptions are those of the modules (`RequestAssumption`, `NoneAssumption`,
`BytesAssumption`, `PathAssumption`, `BoundAssumption`, `ClientAssumption`,
`PaperclawAssumption`, `PanelAssumption`, `StoreAssumption`, `IdsAssumption`,
`ChatAssumption`, `RoomAssumption`, `LimitAssumption`): a request has one project
and options, a content has a length, the null value is no real value and different
from every set, no path, no text and no load of the editor, the channels have a
capacity, limits, windows and bounds are numbers, the menu has requests, the states
of a panel's request are no jobs, what a list starts with are projects, and the tabs
of an instance are finite. TLC evaluates them in the runs of those modules. Two
theorems have a hypothesis beside them. `NoCollisions` is that of `AnswersAreFresh`:
with contents whose bytes collide, `SuccessIsReal` still holds, since it speaks of
equal hashes. `RoomKeeps` has `None \notin SUBSET Item`: that nothing is stored is
told apart from every document, the empty one included, as a missing row is
(`handlers_collab.go:19`; even an empty Yjs document is encoded in two bytes). It is
no `ASSUME` because the items are infinitely many, and TLC could not evaluate it.

Only model-checked: all liveness (`EveryJobEnds`, `PageReleased`, `PdfArrives`,
`CancelEnds`, `PanelFollows`, `PageResponds`, `SendingEnds`, `ClientFairSpec`), which
is out of the prover's reach, as is `ENABLED`; and what `Fingerprint` computes, a fold
over a sequence, hence an induction over data the provers cannot do. Every invariant,
every action property and every safety refinement that a run confirms is a theorem.
`RestoreLasts` is false of the code.

## What is not modelled

- LaTeX, Docker, chktex, the text of logs: a choice of a PDF or none.
- Scanners of text, `parse/latexlog.go`, `lib/outline.ts`, cleaning of paths and of
  entries of archives: each line is matched by regular expressions and no state
  goes from line to line; a model would spell out the expressions.
- The timer of the automatic compile, which calls the `compileNow` of the model.
- Authentication, configuration, migrations, deployment: cryptographic libraries
  and state that changes once.
- The language model's HTTP client, prompts and memories: text, and one call that
  may fail or never return.
- Comments, members, share links: single statements.
- Views: settings, palettes, themes, symbols, search, the PDF viewer.
- A deletion of the project under a running Paperclaw job, deletions of text in
  Yjs, roles that change under open pages.

## Running it

    tlc -workers 2 -config MCCompileFaults.cfg MCCompileManager
    tlapm CompileManagerProofs.tla
    tlapm EditorFilesProofs.tla

Each run of the table has its configuration and module in `PROJECT.json`; the
longest takes between two and three minutes on two cores. `TypeOK` is checked in
`compile_faults` only; elsewhere it is proved. The longest proofs,
`EditorFilesProofs` and `CompileManagerProofs`, take three to five minutes each from
nothing. The definitions marked
"Mutant" are not part of any specification: each is a plausible bug that, put in
the place of the definition after it, makes TLC report the property it is listed
with in `PROJECT.json`.
