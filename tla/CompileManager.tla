---------------------------- MODULE CompileManager ----------------------------
(***************************************************************************)
(* The compile pipeline of the backend (internal/compile/manager.go):      *)
(* handleCompile inserts a compile_jobs row and hands the job's id to the  *)
(* Manager's bounded channel; worker goroutines take ids and run runJob,   *)
(* whose every access to Postgres, the object store or Redis is one step.  *)
(* Users edit the project meanwhile, the process may stop at any point,    *)
(* and the services named in Faults may fail any call made to them.        *)
(*                                                                         *)
(* Work on the worker's private disk shares a step with the access that    *)
(* follows it: nobody can see it before.                                   *)
(***************************************************************************)
EXTENDS Integers, Sequences, FiniteSets

LOCAL INSTANCE SequencesExt

CONSTANTS
  Jobs,         \* ids of compile_jobs rows
  Workers,      \* worker goroutines of Start
  Projects, Paths, Contents,
  Options,      \* engine, draft, halt, clean, syntax check and TeX Live year
  None,         \* NULL, the empty key, the missing object
  ProjectOf, OptionsOf,   \* what the request for each job asks
  PathBytes, ContentBytes,  \* the byte strings that are hashed
  PdfOf,        \* the path the PDF of a main file has on disk, None if not a
                \* path of the project
  DefaultMain,  \* "main.tex"
  MainPaths,    \* what a user sets main_tex_path to
  InitialFiles, \* each project's files when the process first starts
  QueueCap,     \* capacity of the jobs channel (256 in the code)
  Faults,       \* which of "db", "store", "redis", "host" may fail a call, and
                \* "rows": the connection breaks while a SELECT sends its rows
  EditBound,    \* bound on changes users make to projects
  StopBound     \* bound on stops of the process

\* A file of a run: its text on the worker's disk, and how many of its bytes
\* os.ReadFile gave back for the hash.
Entry == [path: Paths, text: Contents, read: Nat]

Pdf == [tree: Seq(Entry), main: Paths, options: Options, uploaded: BOOLEAN]

ASSUME RequestAssumption ==
  ProjectOf \in [Jobs -> Projects] /\ OptionsOf \in [Jobs -> Options]

ASSUME NoneAssumption ==
  None \notin Jobs \cup Paths \cup Contents \cup Pdf

ASSUME PathAssumption ==
  /\ DefaultMain \in Paths /\ MainPaths \subseteq Paths
  /\ PdfOf \in [Paths -> Paths \cup {None}]
  /\ InitialFiles \in [Projects -> [Paths -> Contents \cup {None}]]

ASSUME BytesAssumption == \A c \in Contents : Len(ContentBytes[c]) \in Nat

ASSUME BoundAssumption ==
  QueueCap \in Nat \ {0} /\ EditBound \in Nat /\ StopBound \in Nat

VARIABLES
  proc, stops,              \* the server process and how often it stopped
  handler, chan, overflow,  \* where an accepted job waits
  pc, job, todo, hit, synCol,  \* each worker and its locals in runJob
  row,                      \* the compile_jobs table
  pdfObject, synObject,     \* artifacts of each job in the object store
  cache,                    \* Redis: compile:cache:<hash>
  live, mainTex, rows, objects, edits,  \* projects and their files
  input,      \* the files and the main file each job's run read
  finished,   \* history: jobs for which OnFinish was called
  steady,     \* history: jobs whose project is unchanged since the request
  misread     \* history: jobs whose run took a failed read of Postgres for
              \* an answer

procVars  == <<proc, stops>>
queueVars == <<handler, chan, overflow>>
workVars  == <<pc, job, todo, hit, synCol>>
storeVars == <<pdfObject, synObject>>
userVars  == <<live, mainTex, rows, objects, edits>>
vars == <<procVars, queueVars, workVars, row, storeVars, cache, userVars,
          input, finished, steady, misread>>

Terminal == {"success", "failed"}
Statuses == {"none", "queued", "running", "deleted"} \cup Terminal

PCs == {"idle", "lookup", "begin", "main", "list", "fetch", "cache", "copy",
        "copySyn", "hit", "build", "putSyn", "save", "remember", "fail",
        "finish", "stopped"}

Row == [status: Statuses, pdf: Jobs \cup {None}, synctex: Jobs \cup {None}]
NoHit == [pdf |-> None, synctex |-> None]
NewRow == [status |-> "none", pdf |-> None, synctex |-> None]

\* Mutant: the hash covers the file names only.
FingerprintOfNames(tree) ==
  FlattenSeq([i \in DOMAIN tree |-> PathBytes[tree[i].path]])

\* What materializeProject hashes: each path, then the bytes read back of the
\* file, with nothing in between and in the order the SELECT returned the paths.
Fingerprint(tree) ==
  FlattenSeq([i \in DOMAIN tree |->
                PathBytes[tree[i].path]
                  \o SubSeq(ContentBytes[tree[i].text], 1, tree[i].read)])

\* The inputs runJob hashes into cacheKey for job j.
KeyOf(j) == [tree |-> Fingerprint(input[j].tree), main |-> input[j].main,
             options |-> OptionsOf[j]]

InTree(tree) == {tree[i].path : i \in DOMAIN tree}
JobsOf(p) == {j \in Jobs : ProjectOf[j] = p}
InChan == {chan[i] : i \in DOMAIN chan}
Running == proc \in {"up", "draining"}
Faulty(service) == service \in Faults

\* How much of a file ReadFile returns: a failing disk gives what it had read
\* so far, and the error is ignored.
ReadBack(c) ==
  IF Faulty("host") THEN 0 .. Len(ContentBytes[c]) ELSE {Len(ContentBytes[c])}

\* No file's ReadFile failed.
ReadWhole(tree) ==
  \A i \in DOMAIN tree : tree[i].read = Len(ContentBytes[tree[i].text])

\* UPDATE compile_jobs SET ... WHERE id = j, its error ignored: it changes
\* nothing when the row is gone, and it may be lost.
Update(j, new) ==
  \/ row' = IF row[j].status = "deleted" THEN row ELSE [row EXCEPT ![j] = new]
  \/ Faulty("db") /\ row' = row

-----------------------------------------------------------------------------
(* The request: handleCompile, agentCompileRunForTool                      *)

\* INSERT ... RETURNING id; the handler now holds the id.
Insert(j) ==
  /\ Running
  /\ row[j].status = "none"
  /\ ProjectOf[j] \in live
  /\ row' = [row EXCEPT ![j].status = "queued"]
  /\ \/ handler' = handler \cup {j}
     \/ Faulty("db") /\ UNCHANGED handler   \* committed, the answer lost
  /\ steady' = steady \cup {j}
  /\ UNCHANGED <<procVars, chan, overflow, workVars, storeVars, cache,
                 userVars, input, finished, misread>>

\* Mutant: the channel takes one job more than its capacity.
EnqueueOneMore(j) ==
  /\ Running /\ j \in handler
  /\ handler' = handler \ {j}
  /\ IF Len(chan) <= QueueCap
       THEN chan' = Append(chan, j) /\ UNCHANGED overflow
       ELSE overflow' = overflow \cup {j} /\ UNCHANGED chan
  /\ UNCHANGED <<procVars, workVars, row, storeVars, cache, userVars, input,
                 finished, steady, misread>>

\* Mutant: the sender is started besides the successful send.
EnqueueTwice(j) ==
  /\ Running /\ j \in handler
  /\ handler' = handler \ {j}
  /\ overflow' = overflow \cup {j}
  /\ chan' = IF Len(chan) < QueueCap THEN Append(chan, j) ELSE chan
  /\ UNCHANGED <<procVars, workVars, row, storeVars, cache, userVars, input,
                 finished, steady, misread>>

\* A full channel does not block the request: a goroutine waits to send.
Enqueue(j) ==
  /\ Running
  /\ j \in handler
  /\ handler' = handler \ {j}
  /\ IF Len(chan) < QueueCap
       THEN chan' = Append(chan, j) /\ UNCHANGED overflow
       ELSE overflow' = overflow \cup {j} /\ UNCHANGED chan
  /\ UNCHANGED <<procVars, workVars, row, storeVars, cache, userVars, input,
                 finished, steady, misread>>

SendOverflow(j) ==
  /\ Running
  /\ j \in overflow
  /\ Len(chan) < QueueCap
  /\ chan' = Append(chan, j)
  /\ overflow' = overflow \ {j}
  /\ UNCHANGED <<procVars, handler, workVars, row, storeVars, cache, userVars,
                 input, finished, steady, misread>>

-----------------------------------------------------------------------------
(* The workers: Start, runJob, materializeProject                          *)

Goto(w, l) == pc' = [pc EXCEPT ![w] = l]

At(w, l) == Running /\ pc[w] = l

\* The select of a worker: once the context is cancelled it may still pick a
\* job, since a select with two ready cases takes either.
Take(w) ==
  /\ At(w, "idle")
  /\ chan # <<>>
  /\ job' = [job EXCEPT ![w] = Head(chan)]
  /\ chan' = Tail(chan)
  /\ Goto(w, "lookup")
  /\ UNCHANGED <<procVars, handler, overflow, todo, hit, synCol, row,
                 storeVars, cache, userVars, input, finished, steady, misread>>

WorkerExit(w) ==
  /\ At(w, "idle")
  /\ proc = "draining"
  /\ Goto(w, "stopped")
  /\ UNCHANGED <<procVars, queueVars, job, todo, hit, synCol, row, storeVars,
                 cache, userVars, input, finished, steady, misread>>

\* The locals of runJob go with its return.
Return(w) ==
  /\ Goto(w, "idle")
  /\ job' = [job EXCEPT ![w] = None]
  /\ todo' = [todo EXCEPT ![w] = {}]
  /\ hit' = [hit EXCEPT ![w] = NoHit]
  /\ synCol' = [synCol EXCEPT ![w] = None]

Lookup(w) ==
  /\ At(w, "lookup")
  /\ row[job[w]].status # "deleted"
  /\ Goto(w, "begin")
  /\ UNCHANGED <<procVars, queueVars, job, todo, hit, synCol, row, storeVars,
                 cache, userVars, input, finished, steady, misread>>

\* The row cannot be read: mark it failed and return. The deferred OnFinish is
\* not registered yet.
LookupFails(w) ==
  /\ At(w, "lookup")
  /\ row[job[w]].status = "deleted" \/ Faulty("db")
  /\ Update(job[w], [row[job[w]] EXCEPT !.status = "failed"])
  /\ Return(w)
  /\ UNCHANGED <<procVars, queueVars, storeVars, cache, userVars, input,
                 finished, steady, misread>>

Begin(w) ==
  /\ At(w, "begin")
  /\ Update(job[w], [row[job[w]] EXCEPT !.status = "running"])
  /\ Goto(w, "main")
  /\ UNCHANGED <<procVars, queueVars, job, todo, hit, synCol, storeVars,
                 cache, userVars, input, finished, steady, misread>>

\* SELECT main_tex_path, an error or a missing project meaning main.tex;
\* then MkdirTemp.
ReadMain(w) ==
  LET p == ProjectOf[job[w]]
      main == IF p \in live THEN mainTex[p] ELSE DefaultMain
  IN /\ At(w, "main")
     /\ \E m \in {main} \cup (IF Faulty("db") THEN {DefaultMain} ELSE {}) :
          /\ input' = [input EXCEPT ![job[w]] = [tree |-> <<>>, main |-> m]]
          /\ misread' = IF m = main THEN misread ELSE misread \cup {job[w]}
     /\ \/ Goto(w, "list")
        \/ Faulty("host") /\ Goto(w, "fail")
     /\ UNCHANGED <<procVars, queueVars, job, todo, hit, synCol, row,
                    storeVars, cache, userVars, finished, steady>>

\* Mutant: a project without files is not told from one with files.
ListFilesEvenNone(w) ==
  /\ At(w, "list")
  /\ \/ /\ todo' = [todo EXCEPT ![w] = rows[ProjectOf[job[w]]]]
        /\ Goto(w, "fetch")
     \/ Faulty("db") /\ Goto(w, "fail") /\ UNCHANGED todo
  /\ UNCHANGED <<procVars, queueVars, job, hit, synCol, row, storeVars, cache,
                 userVars, input, finished, steady, misread>>

\* SELECT path FROM project_files. Nobody asks rows.Err(): when the connection
\* breaks between two rows, those that came are taken for all of them.
ListFiles(w) ==
  LET listed == rows[ProjectOf[job[w]]]
  IN /\ At(w, "list")
     /\ \/ \E part \in SUBSET listed :
             /\ part = listed \/ Faulty("rows")
             /\ todo' = [todo EXCEPT ![w] = part]
             /\ misread' = IF part = listed THEN misread
                                            ELSE misread \cup {job[w]}
             /\ Goto(w, IF part = {} THEN "cache" ELSE "fetch")
        \/ Faulty("db") /\ Goto(w, "fail") /\ UNCHANGED <<todo, misread>>
     /\ UNCHANGED <<procVars, queueVars, job, hit, synCol, row, storeVars,
                    cache, userVars, input, finished, steady>>

\* GetFile of the next path: what the object holds now goes to the disk, and
\* what ReadFile gives back of it into the hash.
FetchFile(w, f) ==
  LET j == job[w]
      body == objects[ProjectOf[j]][f]
  IN /\ At(w, "fetch")
     /\ f \in todo[w]
     /\ \/ /\ body # None
           /\ \E n \in ReadBack(body) :
                input' = [input EXCEPT ![j].tree =
                            Append(@, [path |-> f, text |-> body, read |-> n])]
           /\ todo' = [todo EXCEPT ![w] = @ \ {f}]
           /\ Goto(w, IF todo[w] = {f} THEN "cache" ELSE "fetch")
        \/ /\ body = None \/ Faulty("store") \/ Faulty("host")
           /\ Goto(w, "fail")
           /\ UNCHANGED <<input, todo>>
     /\ UNCHANGED <<procVars, queueVars, job, hit, synCol, row, storeVars,
                    cache, userVars, finished, steady, misread>>

\* rdb.Get(cacheKey).
CacheHit(w) ==
  /\ At(w, "cache")
  /\ \E e \in cache :
       /\ e.key = KeyOf(job[w])
       /\ hit' = [hit EXCEPT ![w] = [pdf |-> e.pdf, synctex |-> e.synctex]]
  /\ Goto(w, "copy")
  /\ UNCHANGED <<procVars, queueVars, job, todo, synCol, row, storeVars,
                 cache, userVars, input, finished, steady, misread>>

CacheMiss(w) ==
  /\ At(w, "cache")
  /\ Faulty("redis") \/ \A e \in cache : e.key # KeyOf(job[w])
  /\ Goto(w, "build")
  /\ UNCHANGED <<procVars, queueVars, job, todo, hit, synCol, row, storeVars,
                 cache, userVars, input, finished, steady, misread>>

\* Mutant: the error of the copy is ignored.
CopyPdfUnchecked(w) ==
  /\ At(w, "copy")
  /\ \/ pdfObject' = [pdfObject EXCEPT ![job[w]] = pdfObject[hit[w].pdf]]
     \/ Faulty("store") /\ UNCHANGED pdfObject
  /\ Goto(w, IF hit[w].synctex = None THEN "hit" ELSE "copySyn")
  /\ UNCHANGED <<procVars, queueVars, job, todo, hit, synCol, row, synObject,
                 cache, userVars, input, finished, steady, misread>>

\* CopyObject of the cached PDF to the job's own key. When it fails, without
\* its effect or with it, the job is compiled after all.
CopyPdf(w) ==
  /\ At(w, "copy")
  /\ \/ /\ pdfObject[hit[w].pdf] # None
        /\ pdfObject' = [pdfObject EXCEPT ![job[w]] = pdfObject[hit[w].pdf]]
        /\ \/ Goto(w, IF hit[w].synctex = None THEN "hit" ELSE "copySyn")
           \/ Faulty("store") /\ Goto(w, "build")
     \/ /\ pdfObject[hit[w].pdf] = None \/ Faulty("store")
        /\ Goto(w, "build")
        /\ UNCHANGED pdfObject
  /\ UNCHANGED <<procVars, queueVars, job, todo, hit, synCol, row, synObject,
                 cache, userVars, input, finished, steady, misread>>

CopySynctex(w) ==
  /\ At(w, "copySyn")
  /\ \/ /\ hit[w].synctex \in synObject
        /\ synObject' = synObject \cup {job[w]}
        /\ \/ synCol' = [synCol EXCEPT ![w] = job[w]]
           \/ Faulty("store") /\ UNCHANGED synCol
     \/ /\ hit[w].synctex \notin synObject \/ Faulty("store")
        /\ UNCHANGED <<synObject, synCol>>
  /\ Goto(w, "hit")
  /\ UNCHANGED <<procVars, queueVars, job, todo, hit, row, pdfObject, cache,
                 userVars, input, finished, steady, misread>>

\* The columns of a successful job.
Done(w) == [status |-> "success", pdf |-> job[w], synctex |-> synCol[w]]

SaveHit(w) ==
  /\ At(w, "hit")
  /\ Update(job[w], Done(w))
  /\ Goto(w, "finish")
  /\ UNCHANGED <<procVars, queueVars, job, todo, hit, synCol, storeVars,
                 cache, userVars, input, finished, steady, misread>>

\* Mutant: the failure is not written to the row.
BuildFailsUnsaved(w) ==
  /\ At(w, "build")
  /\ Goto(w, "finish")
  /\ UNCHANGED <<procVars, queueVars, job, todo, hit, synCol, row, storeVars,
                 cache, userVars, input, finished, steady, misread>>

\* No PDF: chktex found errors, LaTeX failed or ran out of time.
BuildFails(w) ==
  /\ At(w, "build")
  /\ Goto(w, "fail")
  /\ UNCHANGED <<procVars, queueVars, job, todo, hit, synCol, row, storeVars,
                 cache, userVars, input, finished, steady, misread>>

\* The file at the main file's .pdf path is uploaded: LaTeX wrote it, or it was
\* a file of the project all along and LaTeX did not replace it. An upload that
\* is answered with an error fails the job though the PDF may be there.
Build(w) ==
  LET i == input[job[w]]
  IN /\ At(w, "build")
     /\ \E uploaded \in BOOLEAN :
          /\ IF uploaded THEN PdfOf[i.main] \in InTree(i.tree)
                         ELSE i.main \in InTree(i.tree)
          /\ pdfObject' = [pdfObject EXCEPT ![job[w]] =
                [tree |-> i.tree, main |-> i.main,
                 options |-> OptionsOf[job[w]], uploaded |-> uploaded]]
     /\ \/ Goto(w, "putSyn")
        \/ Faulty("store") /\ Goto(w, "fail")
     /\ UNCHANGED <<procVars, queueVars, job, todo, hit, synCol, row,
                    synObject, cache, userVars, input, finished, steady,
                    misread>>

\* Mutant: the key of the synctex file is kept when its upload failed.
PutSynctexUnchecked(w) ==
  /\ At(w, "putSyn")
  /\ synObject' = synObject \cup {job[w]} \/ UNCHANGED synObject
  /\ synCol' = [synCol EXCEPT ![w] = job[w]]
  /\ Goto(w, "save")
  /\ UNCHANGED <<procVars, queueVars, job, todo, hit, row, pdfObject, cache,
                 userVars, input, finished, steady, misread>>

\* The synctex file is optional: none was written, or its upload failed.
PutSynctex(w) ==
  /\ At(w, "putSyn")
  /\ \/ /\ synObject' = synObject \cup {job[w]}
        /\ \/ synCol' = [synCol EXCEPT ![w] = job[w]]
           \/ Faulty("store") /\ UNCHANGED synCol
     \/ UNCHANGED <<synObject, synCol>>
  /\ Goto(w, "save")
  /\ UNCHANGED <<procVars, queueVars, job, todo, hit, row, pdfObject, cache,
                 userVars, input, finished, steady, misread>>

SaveBuilt(w) ==
  /\ At(w, "save")
  /\ Update(job[w], Done(w))
  /\ Goto(w, "remember")
  /\ UNCHANGED <<procVars, queueVars, job, todo, hit, synCol, storeVars,
                 cache, userVars, input, finished, steady, misread>>

\* Mutant: a failure to write the cache fails the job.
RememberOrFail(w) ==
  LET key == KeyOf(job[w])
      entry == [key |-> key, pdf |-> job[w], synctex |-> synCol[w]]
  IN /\ At(w, "remember")
     /\ \/ /\ cache' = {e \in cache : e.key # key} \cup {entry}
           /\ Goto(w, "finish")
        \/ Faulty("redis") /\ Goto(w, "fail") /\ UNCHANGED cache
     /\ UNCHANGED <<procVars, queueVars, job, todo, hit, synCol, row,
                    storeVars, userVars, input, finished, steady, misread>>

\* rdb.Set(cacheKey): a later entry for the same key replaces the earlier.
RememberCache(w) ==
  LET key == KeyOf(job[w])
      entry == [key |-> key, pdf |-> job[w], synctex |-> synCol[w]]
  IN /\ At(w, "remember")
     /\ \/ cache' = {e \in cache : e.key # key} \cup {entry}
        \/ Faulty("redis") /\ UNCHANGED cache
     /\ Goto(w, "finish")
     /\ UNCHANGED <<procVars, queueVars, job, todo, hit, synCol, row,
                    storeVars, userVars, input, finished, steady, misread>>

Fail(w) ==
  /\ At(w, "fail")
  /\ Update(job[w], [row[job[w]] EXCEPT !.status = "failed"])
  /\ Goto(w, "finish")
  /\ UNCHANGED <<procVars, queueVars, job, todo, hit, synCol, storeVars,
                 cache, userVars, input, finished, steady, misread>>

\* Mutant: only successes are announced.
FinishSuccess(w) ==
  /\ At(w, "finish")
  /\ finished' = IF row[job[w]].status = "success"
                   THEN finished \cup {job[w]} ELSE finished
  /\ Return(w)
  /\ UNCHANGED <<procVars, queueVars, row, storeVars, cache, userVars, input,
                 steady, misread>>

\* The deferred OnFinish, which publishes compile_done.
Finish(w) ==
  /\ At(w, "finish")
  /\ finished' = finished \cup {job[w]}
  /\ Return(w)
  /\ UNCHANGED <<procVars, queueVars, row, storeVars, cache, userVars, input,
                 steady, misread>>

WorkerStep(w) ==
  \/ Take(w) \/ WorkerExit(w) \/ Lookup(w) \/ LookupFails(w) \/ Begin(w)
  \/ ReadMain(w) \/ ListFiles(w) \/ \E f \in Paths : FetchFile(w, f)
  \/ CacheHit(w) \/ CacheMiss(w) \/ CopyPdf(w) \/ CopySynctex(w)
  \/ SaveHit(w) \/ BuildFails(w) \/ Build(w) \/ PutSynctex(w)
  \/ SaveBuilt(w) \/ RememberCache(w) \/ Fail(w) \/ Finish(w)

-----------------------------------------------------------------------------
(* Users: the object and the row of a file change in separate steps of the *)
(* file handlers, which other requests of the same path may interleave.    *)

Edit(p) ==
  /\ Running
  /\ p \in live
  /\ edits < EditBound
  /\ edits' = edits + 1
  /\ steady' = steady \ JobsOf(p)
  /\ UNCHANGED <<procVars, queueVars, workVars, storeVars, cache, input,
                 finished, misread>>

PutObject(p, f, c) ==
  /\ Edit(p)
  /\ objects[p][f] # c
  /\ objects' = [objects EXCEPT ![p][f] = c]
  /\ UNCHANGED <<row, live, mainTex, rows>>

UpsertFileRow(p, f) ==
  /\ Edit(p)
  /\ f \notin rows[p]
  /\ rows' = [rows EXCEPT ![p] = @ \cup {f}]
  /\ UNCHANGED <<row, live, mainTex, objects>>

DeleteFileRow(p, f) ==
  /\ Edit(p)
  /\ f \in rows[p]
  /\ rows' = [rows EXCEPT ![p] = @ \ {f}]
  /\ UNCHANGED <<row, live, mainTex, objects>>

SetMain(p, f) ==
  /\ Edit(p)
  /\ mainTex[p] # f
  /\ mainTex' = [mainTex EXCEPT ![p] = f]
  /\ UNCHANGED <<row, live, rows, objects>>

\* DELETE FROM projects cascades to its files' and jobs' rows; no object goes.
DeleteProject(p) ==
  /\ Edit(p)
  /\ live' = live \ {p}
  /\ rows' = [rows EXCEPT ![p] = {}]
  /\ row' = [j \in Jobs |-> IF j \in JobsOf(p) /\ row[j].status # "none"
                            THEN [NewRow EXCEPT !.status = "deleted"]
                            ELSE row[j]]
  /\ UNCHANGED <<mainTex, objects>>

-----------------------------------------------------------------------------
(* The process and Redis                                                   *)

\* SIGTERM cancels the workers' context; requests already in are served.
Shutdown ==
  /\ proc = "up"
  /\ stops < StopBound
  /\ proc' = "draining"
  /\ UNCHANGED <<stops, queueVars, workVars, row, storeVars, cache, userVars,
                 input, finished, steady, misread>>

\* main returns without waiting for the workers, or the process is killed:
\* whatever only memory held is gone.
Stop ==
  /\ Running
  /\ stops < StopBound
  /\ proc' = "down"
  /\ stops' = stops + 1
  /\ handler' = {} /\ chan' = <<>> /\ overflow' = {}
  /\ pc' = [w \in Workers |-> "stopped"]
  /\ job' = [w \in Workers |-> None]
  /\ todo' = [w \in Workers |-> {}]
  /\ hit' = [w \in Workers |-> NoHit]
  /\ synCol' = [w \in Workers |-> None]
  /\ UNCHANGED <<row, storeVars, cache, userVars, input, finished, steady,
                 misread>>

\* NewManager and Start: an empty channel and idle workers; the rows left
\* queued or running are not looked at.
Restart ==
  /\ proc = "down"
  /\ proc' = "up"
  /\ pc' = [w \in Workers |-> "idle"]
  /\ UNCHANGED <<stops, queueVars, job, todo, hit, synCol, row, storeVars,
                 cache, userVars, input, finished, steady, misread>>

\* The 24 hours of an entry are over.
ExpireCache ==
  /\ \E e \in cache : cache' = cache \ {e}
  /\ UNCHANGED <<procVars, queueVars, workVars, row, storeVars, userVars,
                 input, finished, steady, misread>>

-----------------------------------------------------------------------------
Init ==
  /\ proc = "up" /\ stops = 0
  /\ handler = {} /\ chan = <<>> /\ overflow = {}
  /\ pc = [w \in Workers |-> "idle"]
  /\ job = [w \in Workers |-> None]
  /\ todo = [w \in Workers |-> {}]
  /\ hit = [w \in Workers |-> NoHit]
  /\ synCol = [w \in Workers |-> None]
  /\ row = [j \in Jobs |-> NewRow]
  /\ pdfObject = [j \in Jobs |-> None] /\ synObject = {}
  /\ cache = {}
  /\ live = Projects
  /\ mainTex = [p \in Projects |-> DefaultMain]
  /\ objects = InitialFiles
  /\ rows = [p \in Projects |-> {f \in Paths : InitialFiles[p][f] # None}]
  /\ edits = 0
  /\ input = [j \in Jobs |-> [tree |-> <<>>, main |-> DefaultMain]]
  /\ finished = {} /\ steady = {} /\ misread = {}

Next ==
  \/ \E j \in Jobs : Insert(j) \/ Enqueue(j) \/ SendOverflow(j)
  \/ \E w \in Workers : WorkerStep(w)
  \/ \E p \in Projects :
       \/ \E f \in Paths : \/ \E c \in Contents \cup {None} : PutObject(p, f, c)
                           \/ UpsertFileRow(p, f) \/ DeleteFileRow(p, f)
       \/ \E f \in MainPaths : SetMain(p, f)
       \/ DeleteProject(p)
  \/ Shutdown \/ Stop \/ Restart \/ ExpireCache

Spec == Init /\ [][Next]_vars

-----------------------------------------------------------------------------
(* Fairness: a goroutine that can run does, the calls it makes return (the *)
(* compile under its timeout), and an accepted request is served.          *)

Fairness ==
  /\ \A w \in Workers : WF_vars(WorkerStep(w))
  /\ \A j \in Jobs : WF_vars(Enqueue(j)) /\ WF_vars(SendOverflow(j))

FairSpec == Spec /\ Fairness

-----------------------------------------------------------------------------
(* Properties                                                              *)

WorkerType ==
  /\ pc \in [Workers -> PCs]
  /\ job \in [Workers -> Jobs \cup {None}]
  /\ \A w \in Workers : job[w] = None <=> pc[w] \in {"idle", "stopped"}
  /\ proc = "down" => \A w \in Workers : pc[w] = "stopped"
  /\ todo \in [Workers -> SUBSET Paths]
  /\ hit \in [Workers -> [pdf: Jobs \cup {None}, synctex: Jobs \cup {None}]]
  /\ \A w \in Workers : pc[w] = "copy" => hit[w].pdf \in Jobs
  /\ synCol \in [Workers -> Jobs \cup {None}]

DataType ==
  /\ proc \in {"up", "draining", "down"} /\ stops \in Nat
  /\ handler \subseteq Jobs /\ overflow \subseteq Jobs
  /\ chan \in Seq(Jobs) /\ Len(chan) <= QueueCap
  /\ row \in [Jobs -> Row]
  /\ pdfObject \in [Jobs -> Pdf \cup {None}] /\ synObject \subseteq Jobs
  /\ \A e \in cache : e.pdf \in Jobs /\ e.synctex \in Jobs \cup {None}
  /\ live \subseteq Projects
  /\ mainTex \in [Projects -> Paths]
  /\ rows \in [Projects -> SUBSET Paths]
  /\ objects \in [Projects -> [Paths -> Contents \cup {None}]]
  /\ edits \in Nat
  /\ input \in [Jobs -> [tree: Seq(Entry), main: Paths]]
  /\ finished \subseteq Jobs /\ steady \subseteq Jobs /\ misread \subseteq Jobs

\* Types, the capacity of the channel, and that a worker has a job exactly
\* while it is in runJob.
TypeOK == WorkerType /\ DataType

InHand == {job[w] : w \in Workers} \ {None}

\* A job is in one place at a time, once: two workers never run the same job,
\* and a goroutine blocked on the full channel does not deliver a job that the
\* channel or a worker already has.
HeldOnce ==
  /\ \A i, k \in DOMAIN chan : chan[i] = chan[k] => i = k
  /\ \A u, v \in Workers : job[u] = job[v] /\ job[u] # None => u = v
  /\ handler \cap (InChan \cup overflow \cup InHand) = {}
  /\ InChan \cap (overflow \cup InHand) = {}
  /\ overflow \cap InHand = {}

\* The inputs a stored PDF was compiled from, as the cache key sees them: each
\* file's path, and its text as far as it could be read back.
PdfKey(o) == [tree |-> Fingerprint(o.tree), main |-> o.main,
              options |-> o.options]

\* A job reported successful names artifacts that exist under its own keys,
\* and its PDF was compiled, by it or by the job the cache led to, from inputs
\* that hash as those its own run read. The hash is of the inputs themselves
\* where ReadFile failed on none of them: SuccessHasPdf and CacheSound say that
\* PDF and hash belong together, FreshPdf when the PDF is of the right inputs.
SuccessHasPdf ==
  \A j \in Jobs : row[j].status = "success" =>
    /\ row[j].pdf = j /\ pdfObject[j] # None
    /\ PdfKey(pdfObject[j]) =
         [tree |-> Fingerprint(input[j].tree), main |-> input[j].main,
          options |-> OptionsOf[j]]
    /\ row[j].synctex # None => row[j].synctex = j /\ j \in synObject

\* A cache entry leads to artifacts that exist, and to a PDF compiled from
\* inputs that hash to the entry's key, whatever failed or stopped since.
CacheSound ==
  \A e \in cache :
    /\ pdfObject[e.pdf] # None /\ PdfKey(pdfObject[e.pdf]) = e.key
    /\ e.synctex # None => e.synctex \in synObject

FilesOf(tree) == {<<tree[i].path, tree[i].text>> : i \in DOMAIN tree}

\* When nobody edits a project from the moment a job is requested, a PDF the
\* job reports is that of exactly the files, the main file and the options the
\* project has, cache or not. The errors nobody looks at are what it takes to
\* be wrong: a failed SELECT of the job's own run taken for an answer, or a
\* ReadFile that failed in it or in the run the cache leads to. The hash joins
\* paths and contents with nothing between them, so this also needs contents
\* of which no two trees give the same bytes.
FreshPdf ==
  \A j \in steady \ misread :
    LET p == ProjectOf[j]
        o == pdfObject[j]
    IN /\ row[j].status = "success"
       /\ ReadWhole(input[j].tree) /\ ReadWhole(o.tree)
       => /\ FilesOf(o.tree) = {<<f, objects[p][f]>> : f \in rows[p]}
          /\ o.main = mainTex[p]
          /\ o.options = OptionsOf[j]

\* compile_done is published when the row has its final status, so a client
\* that reads the row on the message needs no second read.
AnnouncedAfterEnd ==
  ~Faulty("db") =>
    \A j \in finished : row[j].status \in Terminal \cup {"deleted"}

\* The row of a job that ended never changes again, unless its project is
\* deleted, nor does the PDF stored for it, and a PDF the cache points to is
\* never replaced: what a client reads, or a later job copies, stays what it
\* is. (While the job runs, a copy whose answer was lost is built over.)
EndIsFinal ==
  [][/\ \A j \in Jobs : row[j].status \in Terminal =>
          /\ row'[j] = row[j] \/ row'[j].status = "deleted"
          /\ pdfObject'[j] = pdfObject[j]
     /\ \A e \in cache : pdfObject'[e.pdf] = pdfObject[e.pdf]]_vars

\* While the process stays up and Postgres answers, a requested job ends.
EveryJobEnds ==
  \A j \in Jobs : row[j].status = "queued" ~>
                    row[j].status \in Terminal \cup {"deleted"}

-----------------------------------------------------------------------------
(* What clients rely on: the lifecycle of CompileJob.                      *)

Client == INSTANCE CompileJob WITH
  status <- [j \in Jobs |-> row[j].status],
  stored <- {j \in Jobs : pdfObject[j] # None},
  announced <- finished

\* The pipeline is a lifecycle of compile jobs as clients see it.
ClientSpec == Client!Spec

\* ... with every job's end and its announcement, when nothing stops it.
ClientFairSpec == Client!FairSpec
=============================================================================
