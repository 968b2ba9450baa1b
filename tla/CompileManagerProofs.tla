------------------------- MODULE CompileManagerProofs -------------------------
(***************************************************************************)
(* Theorems about CompileManager for every number of jobs, workers and     *)
(* files, any capacity of the channel and any set of failing services; and *)
(* at the end about RateLimit, which handleCompile asks before it inserts  *)
(* a job, for any limit, window, failures and number of calls.             *)
(***************************************************************************)
EXTENDS CompileManager, RateLimit, SequenceTheorems, FiniteSetTheorems, TLAPS

USE DEF Terminal, Statuses, PCs, NoHit, NewRow, Row

USE DEF vars, procVars, queueVars, workVars, storeVars, userVars

LEMMA InitTypeOK == Init => TypeOK
  BY RequestAssumption, NoneAssumption, PathAssumption, BoundAssumption
     DEF Init, TypeOK, WorkerType, DataType

\* An UPDATE, applied or lost, leaves rows.
LEMMA UpdateType ==
  ASSUME TypeOK, NEW j \in Jobs, NEW new \in Row, Update(j, new)
  PROVE  row' \in [Jobs -> Row]
  BY DEF TypeOK, WorkerType, DataType, Update

\* A column of status keeps a row a row.
LEMMA StatusType ==
  ASSUME NEW r \in Row, NEW s \in Statuses
  PROVE  [r EXCEPT !.status = s] \in Row
  OBVIOUS

\* Likewise for what a run has read when it reads one file more.
LEMMA TreeType ==
  ASSUME NEW T, NEW i \in [tree: T, main: Paths], NEW t \in T
  PROVE  [i EXCEPT !.tree = t] \in [tree: T, main: Paths]
  OBVIOUS

\* What a ReadFile gives back is a number of bytes.
LEMMA ReadBackType ==
  ASSUME NEW c \in Contents, NEW n \in ReadBack(c)
  PROVE  n \in Nat
  BY BytesAssumption DEF ReadBack

\* A worker that left "idle" has a job.
LEMMA BusyHasJob ==
  ASSUME TypeOK, NEW w \in Workers, pc[w] \notin {"idle", "stopped"}
  PROVE  job[w] \in Jobs
  BY DEF TypeOK, WorkerType, DataType

\* A file that is fetched is one entry more of the tree of the run: its path,
\* its text as stored now and how much of it was read back.
LEMMA EntryFetched ==
  ASSUME TypeOK, NEW w \in Workers, NEW f \in Paths, FetchFile(w, f),
         job[w] \in Jobs, ~UNCHANGED input
  PROVE  \E e \in Entry :
           /\ e.path = f /\ e.text = objects[ProjectOf[job[w]]][f]
           /\ input' = [input EXCEPT ![job[w]].tree = Append(@, e)]
<1> DEFINE body == objects[ProjectOf[job[w]]][f]
<1>1. body # None
  BY DEF FetchFile
<1>2. body \in Contents
  BY <1>1, RequestAssumption DEF TypeOK, DataType
<1>3. PICK n \in ReadBack(body) :
        input' = [input EXCEPT ![job[w]].tree =
                    Append(@, [path |-> f, text |-> body, read |-> n])]
  BY DEF FetchFile
<1>4. n \in Nat
  BY <1>2, ReadBackType
<1> DEFINE e == [path |-> f, text |-> body, read |-> n]
<1>5. e \in Entry /\ e.path = f /\ e.text = body
  BY <1>2, <1>4 DEF Entry
<1> QED
  BY <1>3, <1>5

\* Every step of the system keeps the types.
LEMMA NextTypeOK == TypeOK /\ [Next]_vars => TypeOK'
<1> SUFFICES ASSUME TypeOK, [Next]_vars PROVE TypeOK'
  OBVIOUS
<1> USE RequestAssumption, NoneAssumption, PathAssumption, BoundAssumption
<1>1. ASSUME NEW j \in Jobs, Insert(j) PROVE TypeOK'
  <2>1. row' \in [Jobs -> Row]
    <3>1. row[j] \in Row
      BY DEF TypeOK, WorkerType, DataType
    <3>2. [row[j] EXCEPT !.status = "queued"] \in Row
      BY <3>1, StatusType
    <3> QED
    BY <1>1, <3>2 DEF Insert, TypeOK, WorkerType, DataType
  <2> QED
  BY <1>1, <2>1 DEF Insert, TypeOK, WorkerType, DataType
<1>2. ASSUME NEW j \in Jobs, Enqueue(j) PROVE TypeOK'
  <2>1. Append(chan, j) \in Seq(Jobs) /\ Len(Append(chan, j)) = Len(chan) + 1
    BY DEF TypeOK, WorkerType, DataType
  <2>2. chan' \in Seq(Jobs) /\ Len(chan') <= QueueCap
    <3>1. CASE chan' = chan
      BY <3>1 DEF TypeOK, DataType
    <3>2. CASE Len(chan) < QueueCap /\ chan' = Append(chan, j)
      <4>1. Len(chan) \in Nat
        BY DEF TypeOK, DataType
      <4>2. Len(chan) + 1 <= QueueCap
        BY <3>2, <4>1
      <4> QED
      BY <2>1, <3>2, <4>2
    <3> QED
    BY <1>2, <3>1, <3>2 DEF Enqueue
  <2> QED
  BY <1>2, <2>2 DEF Enqueue, TypeOK, WorkerType, DataType
<1>3. ASSUME NEW j \in Jobs, SendOverflow(j) PROVE TypeOK'
  BY <1>3 DEF SendOverflow, TypeOK, WorkerType, DataType
<1>4. ASSUME NEW w \in Workers, Take(w) PROVE TypeOK'
  <2>1. Head(chan) \in Jobs /\ Tail(chan) \in Seq(Jobs) /\ Len(Tail(chan)) <= QueueCap
    BY <1>4 DEF Take, TypeOK, WorkerType, DataType
  <2> QED
  BY <1>4, <2>1 DEF Take, At, Goto, TypeOK, WorkerType, DataType
<1>5. ASSUME NEW w \in Workers, WorkerExit(w) PROVE TypeOK'
  BY <1>5 DEF WorkerExit, At, Goto, TypeOK, WorkerType, DataType
<1>6. ASSUME NEW w \in Workers, Lookup(w) PROVE TypeOK'
  BY <1>6 DEF Lookup, At, Goto, TypeOK, WorkerType, DataType
<1>7. ASSUME NEW w \in Workers, LookupFails(w) PROVE TypeOK'
  <2>1. job[w] \in Jobs
    BY <1>7, BusyHasJob DEF LookupFails, At
  <2>2. row' \in [Jobs -> Row]
    <3>1. [row[job[w]] EXCEPT !.status = "failed"] \in Row
      <4>1. row[job[w]] \in Row
        BY <2>1 DEF TypeOK, WorkerType, DataType
      <4> QED
      BY <4>1, StatusType
    <3> QED
    BY <1>7, <2>1, <3>1, UpdateType DEF LookupFails
  <2> QED
  BY <1>7, <2>2 DEF LookupFails, Return, At, Goto, TypeOK, WorkerType, DataType
<1>8. ASSUME NEW w \in Workers, Begin(w) PROVE TypeOK'
  <2>1. job[w] \in Jobs
    BY <1>8, BusyHasJob DEF Begin, At
  <2>2. row' \in [Jobs -> Row]
    <3>1. [row[job[w]] EXCEPT !.status = "running"] \in Row
      <4>1. row[job[w]] \in Row
        BY <2>1 DEF TypeOK, WorkerType, DataType
      <4> QED
      BY <4>1, StatusType
    <3> QED
    BY <1>8, <2>1, <3>1, UpdateType DEF Begin
  <2> QED
  BY <1>8, <2>2 DEF Begin, At, Goto, TypeOK, WorkerType, DataType
<1>9. ASSUME NEW w \in Workers, ReadMain(w) PROVE TypeOK'
  <2>1. job[w] \in Jobs
    BY <1>9, BusyHasJob DEF ReadMain, At
  <2>2. PICK m \in Paths : input' = [input EXCEPT ![job[w]] = [tree |-> <<>>, main |-> m]]
    BY <1>9, <2>1 DEF ReadMain, TypeOK, WorkerType, DataType
  <2>3. input' \in [Jobs -> [tree: Seq(Entry), main: Paths]]
    BY <2>1, <2>2 DEF TypeOK, WorkerType, DataType
  <2>4. misread' \subseteq Jobs
    BY <1>9, <2>1 DEF ReadMain, TypeOK, DataType
  <2> QED
  BY <1>9, <2>3, <2>4 DEF ReadMain, At, Goto, TypeOK, WorkerType, DataType
<1>10. ASSUME NEW w \in Workers, ListFiles(w) PROVE TypeOK'
  <2>1. job[w] \in Jobs
    BY <1>10, BusyHasJob DEF ListFiles, At
  <2>2. rows[ProjectOf[job[w]]] \in SUBSET Paths
    BY <2>1 DEF TypeOK, WorkerType, DataType
  <2>3. todo' \in [Workers -> SUBSET Paths]
    BY <1>10, <2>2 DEF ListFiles, TypeOK, WorkerType, DataType
  <2>4. PICK l \in {"fetch", "cache", "fail"} : pc' = [pc EXCEPT ![w] = l]
    BY <1>10 DEF ListFiles, Goto
  <2>5. WorkerType'
    BY <1>10, <2>3, <2>4 DEF ListFiles, At, TypeOK, WorkerType
  <2>6. DataType'
    BY <1>10, <2>1 DEF ListFiles, TypeOK, DataType
  <2> QED
  BY <2>5, <2>6 DEF TypeOK
<1>11. ASSUME NEW w \in Workers, NEW f \in Paths, FetchFile(w, f) PROVE TypeOK'
  <2>1. job[w] \in Jobs
    BY <1>11, BusyHasJob DEF FetchFile, At
  <2>2. input' \in [Jobs -> [tree: Seq(Entry), main: Paths]]
    <3>1. CASE UNCHANGED input
      BY <3>1 DEF TypeOK, WorkerType, DataType
    <3>2. CASE ~UNCHANGED input
      <4>1. PICK e \in Entry : input' = [input EXCEPT ![job[w]].tree = Append(@, e)]
        BY <1>11, <2>1, <3>2, EntryFetched
      <4>2. input[job[w]] \in [tree: Seq(Entry), main: Paths]
        BY <2>1 DEF TypeOK, DataType
      <4>3. Append(input[job[w]].tree, e) \in Seq(Entry)
        BY <4>1, <4>2, AppendProperties
      <4>4. [input[job[w]] EXCEPT !.tree = Append(input[job[w]].tree, e)]
              \in [tree: Seq(Entry), main: Paths]
        BY <4>2, <4>3, TreeType
      <4>5. input' = [input EXCEPT ![job[w]] =
              [input[job[w]] EXCEPT !.tree = Append(input[job[w]].tree, e)]]
        BY <2>1, <4>1 DEF TypeOK, DataType
      <4> QED
      BY <2>1, <4>4, <4>5 DEF TypeOK, DataType
    <3> QED
    BY <3>1, <3>2
  <2>3. todo' \in [Workers -> SUBSET Paths]
    <3>1. todo' = todo \/ todo' = [todo EXCEPT ![w] = todo[w] \ {f}]
      BY <1>11 DEF FetchFile
    <3> QED
    BY <3>1 DEF TypeOK, WorkerType
  <2>4. pc' = [pc EXCEPT ![w] = pc'[w]] /\ pc'[w] \in {"fetch", "cache", "fail"}
    BY <1>11 DEF FetchFile, Goto, TypeOK, WorkerType, DataType
  <2>5. WorkerType'
    BY <1>11, <2>3, <2>4 DEF FetchFile, At, TypeOK, WorkerType
  <2> QED
  BY <1>11, <2>2, <2>5 DEF FetchFile, TypeOK, DataType
<1>12. ASSUME NEW w \in Workers, CacheHit(w) PROVE TypeOK'
  BY <1>12 DEF CacheHit, At, Goto, TypeOK, WorkerType, DataType
<1>13. ASSUME NEW w \in Workers, CacheMiss(w) PROVE TypeOK'
  BY <1>13 DEF CacheMiss, At, Goto, TypeOK, WorkerType, DataType
<1>14. ASSUME NEW w \in Workers, CopyPdf(w) PROVE TypeOK'
  <2>1. job[w] \in Jobs
    BY <1>14, BusyHasJob DEF CopyPdf, At
  <2>2. pdfObject[hit[w].pdf] \in Pdf \cup {None}
    BY <1>14 DEF CopyPdf, At, TypeOK, WorkerType, DataType
  <2>3. pdfObject' \in [Jobs -> Pdf \cup {None}]
    BY <1>14, <2>1, <2>2 DEF CopyPdf, TypeOK, WorkerType, DataType
  <2>4. WorkerType'
    BY <1>14 DEF CopyPdf, At, Goto, TypeOK, WorkerType
  <2> QED
  BY <1>14, <2>3, <2>4 DEF CopyPdf, TypeOK, DataType
<1>15. ASSUME NEW w \in Workers, CopySynctex(w) PROVE TypeOK'
  BY <1>15, BusyHasJob DEF CopySynctex, At, Goto, TypeOK, WorkerType, DataType
<1>16. ASSUME NEW w \in Workers, SaveHit(w) PROVE TypeOK'
  <2>1. job[w] \in Jobs /\ Done(w) \in Row
    BY <1>16, BusyHasJob DEF SaveHit, At, Done, TypeOK, WorkerType, DataType
  <2>2. row' \in [Jobs -> Row]
    BY <1>16, <2>1, UpdateType DEF SaveHit
  <2> QED
  BY <1>16, <2>2 DEF SaveHit, At, Goto, TypeOK, WorkerType, DataType
<1>17. ASSUME NEW w \in Workers, BuildFails(w) PROVE TypeOK'
  BY <1>17 DEF BuildFails, At, Goto, TypeOK, WorkerType, DataType
<1>18. ASSUME NEW w \in Workers, Build(w) PROVE TypeOK'
  <2>1. job[w] \in Jobs
    BY <1>18, BusyHasJob DEF Build, At
  <2>2. pdfObject' \in [Jobs -> Pdf \cup {None}]
    BY <1>18, <2>1 DEF Build, Pdf, TypeOK, WorkerType, DataType
  <2>3. WorkerType'
    BY <1>18 DEF Build, At, Goto, TypeOK, WorkerType
  <2> QED
  BY <1>18, <2>2, <2>3 DEF Build, TypeOK, DataType
<1>19. ASSUME NEW w \in Workers, PutSynctex(w) PROVE TypeOK'
  BY <1>19, BusyHasJob DEF PutSynctex, At, Goto, TypeOK, WorkerType, DataType
<1>20. ASSUME NEW w \in Workers, SaveBuilt(w) PROVE TypeOK'
  <2>1. job[w] \in Jobs /\ Done(w) \in Row
    BY <1>20, BusyHasJob DEF SaveBuilt, At, Done, TypeOK, WorkerType, DataType
  <2>2. row' \in [Jobs -> Row]
    BY <1>20, <2>1, UpdateType DEF SaveBuilt
  <2> QED
  BY <1>20, <2>2 DEF SaveBuilt, At, Goto, TypeOK, WorkerType, DataType
<1>21. ASSUME NEW w \in Workers, RememberCache(w) PROVE TypeOK'
  <2>1. job[w] \in Jobs
    BY <1>21, BusyHasJob DEF RememberCache, At
  <2> QED
  BY <1>21, <2>1 DEF RememberCache, At, Goto, TypeOK, WorkerType, DataType
<1>22. ASSUME NEW w \in Workers, Fail(w) PROVE TypeOK'
  <2>1. job[w] \in Jobs
    BY <1>22, BusyHasJob DEF Fail, At
  <2>2. row' \in [Jobs -> Row]
    <3>1. [row[job[w]] EXCEPT !.status = "failed"] \in Row
      <4>1. row[job[w]] \in Row
        BY <2>1 DEF TypeOK, WorkerType, DataType
      <4> QED
      BY <4>1, StatusType
    <3> QED
    BY <1>22, <2>1, <3>1, UpdateType DEF Fail
  <2> QED
  BY <1>22, <2>2 DEF Fail, At, Goto, TypeOK, WorkerType, DataType
<1>23. ASSUME NEW w \in Workers, Finish(w) PROVE TypeOK'
  BY <1>23, BusyHasJob DEF Finish, Return, At, Goto, TypeOK, WorkerType, DataType
<1>24. ASSUME NEW p \in Projects, NEW f \in Paths, NEW c \in Contents \cup {None}, PutObject(p, f, c)
       PROVE TypeOK'
  BY <1>24 DEF PutObject, Edit, TypeOK, WorkerType, DataType
<1>25. ASSUME NEW p \in Projects, NEW f \in Paths, UpsertFileRow(p, f) PROVE TypeOK'
  BY <1>25 DEF UpsertFileRow, Edit, TypeOK, WorkerType, DataType
<1>26. ASSUME NEW p \in Projects, NEW f \in Paths, DeleteFileRow(p, f) PROVE TypeOK'
  BY <1>26 DEF DeleteFileRow, Edit, TypeOK, WorkerType, DataType
<1>27. ASSUME NEW p \in Projects, NEW f \in MainPaths, SetMain(p, f) PROVE TypeOK'
  BY <1>27 DEF SetMain, Edit, TypeOK, WorkerType, DataType
<1>28. ASSUME NEW p \in Projects, DeleteProject(p) PROVE TypeOK'
  BY <1>28 DEF DeleteProject, Edit, TypeOK, WorkerType, DataType
<1>29. ASSUME Shutdown PROVE TypeOK'
  BY <1>29 DEF Shutdown, TypeOK, WorkerType, DataType
<1>30. ASSUME Stop PROVE TypeOK'
  BY <1>30 DEF Stop, TypeOK, WorkerType, DataType
<1>31. ASSUME Restart PROVE TypeOK'
  BY <1>31 DEF Restart, TypeOK, WorkerType, DataType
<1>32. ASSUME ExpireCache PROVE TypeOK'
  BY <1>32 DEF ExpireCache, TypeOK, WorkerType, DataType
<1>33. CASE UNCHANGED vars
  BY <1>33 DEF TypeOK, WorkerType, DataType
<1>34. QED
  BY <1>1, <1>2, <1>3, <1>4, <1>5, <1>6, <1>7, <1>8, <1>9, <1>10, <1>11,
     <1>12, <1>13, <1>14, <1>15, <1>16, <1>17, <1>18, <1>19, <1>20, <1>21,
     <1>22, <1>23, <1>24, <1>25, <1>26, <1>27, <1>28, <1>29, <1>30, <1>31,
     <1>32, <1>33 DEF Next, WorkerStep

\* The types, the channel within its capacity, and that a worker has a job
\* exactly while it runs one, hold in every state of every behaviour.
THEOREM TypeCorrect == Spec => []TypeOK
<1>1. Init => TypeOK
  BY InitTypeOK
<1>2. TypeOK /\ [Next]_vars => TypeOK'
  BY NextTypeOK
<1> QED
  BY <1>1, <1>2, PTL DEF Spec

-----------------------------------------------------------------------------
(* The inductive invariant. SuccessHasPdf and CacheSound are about rows and *)
(* cache entries that outlive the run that made them, so they need that     *)
(* their PDFs are not replaced and no run's inputs change once its row says *)
(* success: a job whose PDF is in the cache, or is being copied, is not     *)
(* held before its upload any more (Settling), a job still in the pipeline  *)
(* has not ended (OpenWhileHeld), and between the upload and the end the    *)
(* worker's locals describe its artifact (RunSound).                        *)

\* Where a job waits, and the labels of runJob up to the last UPDATE, and
\* those before a PDF is stored.
Waiting == handler \cup InChan \cup overflow
BeforeEnd == PCs \ {"idle", "stopped", "remember", "finish"}
BeforeStored == BeforeEnd \ {"copySyn", "hit", "putSyn", "save"}

OpenWhileHeld ==
  /\ \A j \in Waiting : row[j].status \notin Terminal \cup {"none"}
  /\ \A w \in Workers : job[w] # None => row[job[w]].status # "none"
  /\ \A w \in Workers :
       pc[w] \in BeforeEnd => row[job[w]].status \notin Terminal

\* Nobody puts a PDF for job k any more.
Settled(k) ==
  /\ k \notin Waiting /\ row[k].status # "none"
  /\ \A w \in Workers : job[w] = k => pc[w] \notin BeforeStored

Settling ==
  /\ \A e \in cache : Settled(e.pdf)
  /\ \A w \in Workers : pc[w] = "copy" => Settled(hit[w].pdf)

\* The object under key k exists and was compiled from inputs of key i.
Holds(k, i) == pdfObject[k] # None /\ PdfKey(pdfObject[k]) = i

RunSound ==
  \A w \in Workers :
    /\ pc[w] = "copy" => Holds(hit[w].pdf, KeyOf(job[w]))
    /\ pc[w] \in {"copySyn", "hit", "putSyn", "save", "remember"} =>
         Holds(job[w], KeyOf(job[w]))
    /\ synCol[w] # None => synCol[w] = job[w] /\ job[w] \in synObject

IInv == /\ TypeOK /\ HeldOnce /\ OpenWhileHeld /\ Settling /\ RunSound
        /\ SuccessHasPdf /\ CacheSound

Stored == {"copySyn", "hit", "putSyn", "save", "remember"}

-----------------------------------------------------------------------------
(* Frames: which steps move what.                                           *)

LEMMA QueueFrame ==
  ASSUME [Next]_vars
  PROVE  \/ UNCHANGED <<queueVars, job>>
         \/ \E j \in Jobs : Insert(j) \/ Enqueue(j) \/ SendOverflow(j)
         \/ \E w \in Workers : Take(w) \/ LookupFails(w) \/ Finish(w)
         \/ Stop
<1>1. ASSUME NEW w \in Workers, WorkerStep(w)
      PROVE  \/ UNCHANGED <<queueVars, job>>
             \/ Take(w) \/ LookupFails(w) \/ Finish(w)
  BY <1>1 DEF WorkerStep, WorkerExit, Lookup, Begin, ReadMain, ListFiles,
     FetchFile, CacheHit, CacheMiss, CopyPdf, CopySynctex, SaveHit, BuildFails,
     Build, PutSynctex, SaveBuilt, RememberCache, Fail
<1> QED
  BY <1>1 DEF Next, PutObject, UpsertFileRow, DeleteFileRow, SetMain,
     DeleteProject, Edit, Shutdown, Restart, ExpireCache

LEMMA RowFrame ==
  ASSUME [Next]_vars
  PROVE  \/ UNCHANGED row
         \/ \E j \in Jobs : Insert(j)
         \/ \E w \in Workers : \/ LookupFails(w) \/ Begin(w) \/ SaveHit(w)
                               \/ SaveBuilt(w) \/ Fail(w)
         \/ \E p \in Projects : DeleteProject(p)
  BY DEF Next, WorkerStep, Enqueue, SendOverflow, Take, WorkerExit, Lookup,
     ReadMain, ListFiles, FetchFile, CacheHit, CacheMiss, CopyPdf,
     CopySynctex, BuildFails, Build, PutSynctex, RememberCache, Finish,
     PutObject, UpsertFileRow, DeleteFileRow, SetMain, Shutdown, Stop,
     Restart, ExpireCache

LEMMA PdfFrame ==
  ASSUME [Next]_vars
  PROVE  UNCHANGED pdfObject \/ \E w \in Workers : CopyPdf(w) \/ Build(w)
  BY DEF Next, WorkerStep, Insert, Enqueue, SendOverflow, Take, WorkerExit,
     Lookup, LookupFails, Begin, ReadMain, ListFiles, FetchFile, CacheHit,
     CacheMiss, CopySynctex, SaveHit, BuildFails, PutSynctex, SaveBuilt,
     RememberCache, Fail, Finish, PutObject, UpsertFileRow, DeleteFileRow,
     SetMain, DeleteProject, Edit, Shutdown, Stop, Restart, ExpireCache

LEMMA SynFrame ==
  ASSUME [Next]_vars
  PROVE  synObject \subseteq synObject'
  BY DEF Next, WorkerStep, Insert, Enqueue, SendOverflow, Take, WorkerExit,
     Lookup, LookupFails, Begin, ReadMain, ListFiles, FetchFile, CacheHit,
     CacheMiss, CopyPdf, CopySynctex, SaveHit, BuildFails, Build, PutSynctex,
     SaveBuilt, RememberCache, Fail, Finish, PutObject, UpsertFileRow,
     DeleteFileRow, SetMain, DeleteProject, Edit, Shutdown, Stop, Restart,
     ExpireCache

LEMMA InputFrame ==
  ASSUME [Next]_vars
  PROVE  \/ UNCHANGED input
         \/ \E w \in Workers : ReadMain(w) \/ \E f \in Paths : FetchFile(w, f)
  BY DEF Next, WorkerStep, Insert, Enqueue, SendOverflow, Take, WorkerExit,
     Lookup, LookupFails, Begin, ListFiles, CacheHit, CacheMiss, CopyPdf,
     CopySynctex, SaveHit, BuildFails, Build, PutSynctex, SaveBuilt,
     RememberCache, Fail, Finish, PutObject, UpsertFileRow, DeleteFileRow,
     SetMain, DeleteProject, Edit, Shutdown, Stop, Restart, ExpireCache

LEMMA CacheFrame ==
  ASSUME [Next]_vars
  PROVE  cache' \subseteq cache \/ \E w \in Workers : RememberCache(w)
  BY DEF Next, WorkerStep, Insert, Enqueue, SendOverflow, Take, WorkerExit,
     Lookup, LookupFails, Begin, ReadMain, ListFiles, FetchFile, CacheHit,
     CacheMiss, CopyPdf, CopySynctex, SaveHit, BuildFails, Build, PutSynctex,
     SaveBuilt, Fail, Finish, PutObject, UpsertFileRow, DeleteFileRow,
     SetMain, DeleteProject, Edit, Shutdown, Stop, Restart, ExpireCache

Moves(w) ==
  /\ job'[w] \in {job[w], None}
  /\ pc'[w] \in BeforeEnd =>
       pc[w] \in BeforeEnd /\ job'[w] = job[w]
  /\ pc'[w] \in BeforeStored =>
       pc[w] \in BeforeStored /\ job'[w] = job[w]
  /\ pc'[w] \in Stored =>
       job'[w] = job[w] /\ (pc[w] \in Stored \/ CopyPdf(w) \/ Build(w))
  /\ pc'[w] = "copy" =>
       /\ job'[w] = job[w]
       /\ CacheHit(w) \/ (pc[w] = "copy" /\ hit'[w] = hit[w])
  /\ \/ synCol'[w] = None
     \/ synCol'[w] = synCol[w] /\ job'[w] = job[w]
     \/ PutSynctex(w) \/ CopySynctex(w)

\* How one worker moves: it keeps its job from Take to the return, and gets to
\* each part of runJob only from the part before.
LEMMA ControlFlow ==
  ASSUME TypeOK, [Next]_vars, NEW w \in Workers, ~Take(w)
  PROVE  Moves(w)
<1> USE DEF TypeOK, WorkerType, BeforeEnd, BeforeStored, Stored,
     Moves
<1>1. ASSUME NEW v \in Workers, WorkerStep(v)
      PROVE  Moves(w)
  BY <1>1 DEF WorkerStep, Take, WorkerExit, Lookup, LookupFails, Begin,
     ReadMain, ListFiles, FetchFile, CacheHit, CacheMiss, CopyPdf,
     CopySynctex, SaveHit, BuildFails, Build, PutSynctex, SaveBuilt,
     RememberCache, Fail, Finish, Return, At, Goto
<1>2. CASE UNCHANGED workVars
  BY <1>2
<1>3. CASE Stop \/ Restart
  BY <1>3 DEF Stop, Restart
<1> QED
  BY <1>1, <1>2, <1>3 DEF Next, Insert, Enqueue, SendOverflow, PutObject,
     UpsertFileRow, DeleteFileRow, SetMain, DeleteProject, Edit, Shutdown,
     ExpireCache

-----------------------------------------------------------------------------
(* The channel as a set.                                                    *)

NoTwice == \A i, k \in DOMAIN chan : chan[i] = chan[k] => i = k

LEMMA SendFacts ==
  ASSUME TypeOK, NEW j \in Jobs, chan' = Append(chan, j)
  PROVE  InChan' = InChan \cup {j} /\ (NoTwice /\ j \notin InChan => NoTwice')
<1>1. /\ chan \in Seq(Jobs) /\ DOMAIN chan = 1 .. Len(chan) /\ Len(chan) \in Nat
      /\ DOMAIN chan' = 1 .. (Len(chan) + 1)
      /\ \A i \in 1 .. Len(chan) : chan'[i] = chan[i]
      /\ chan'[Len(chan) + 1] = j
  BY AppendProperties DEF TypeOK, DataType
<1>2. \A i \in 1 .. (Len(chan) + 1) : i \in 1 .. Len(chan) \/ i = Len(chan) + 1
  BY <1>1
<1>3. InChan' = InChan \cup {j}
  BY <1>1, <1>2 DEF InChan
<1>4. ASSUME NoTwice, j \notin InChan PROVE NoTwice'
  BY <1>1, <1>2, <1>4 DEF NoTwice, InChan
<1> QED
  BY <1>3, <1>4

LEMMA TakeFacts ==
  ASSUME TypeOK, chan # <<>>, chan' = Tail(chan)
  PROVE  /\ Head(chan) \in InChan /\ InChan' \subseteq InChan
         /\ NoTwice => Head(chan) \notin InChan' /\ NoTwice'
<1>1. /\ chan \in Seq(Jobs) /\ DOMAIN chan = 1 .. Len(chan) /\ Len(chan) \in Nat
      /\ Len(chan) > 0 /\ Head(chan) = chan[1]
      /\ DOMAIN chan' = 1 .. (Len(chan) - 1)
      /\ \A i \in 1 .. (Len(chan) - 1) : chan'[i] = chan[i + 1]
  BY HeadTailProperties, EmptySeq DEF TypeOK, DataType
<1>2. \A i \in DOMAIN chan' : i + 1 \in DOMAIN chan /\ i + 1 # 1
  BY <1>1
<1>3. Head(chan) \in InChan /\ InChan' \subseteq InChan
  BY <1>1, <1>2 DEF InChan
<1>4. ASSUME NoTwice PROVE Head(chan) \notin InChan' /\ NoTwice'
  <2>1. 1 \in DOMAIN chan
    BY <1>1
  <2>2. Head(chan) \notin InChan'
    BY <1>1, <1>2, <1>4, <2>1 DEF NoTwice, InChan
  <2>3. NoTwice'
    <3> SUFFICES ASSUME NEW i \in DOMAIN chan', NEW k \in DOMAIN chan',
                        chan'[i] = chan'[k]
                 PROVE  i = k
      BY DEF NoTwice
    <3>1. i + 1 = k + 1
      BY <1>1, <1>2, <1>4 DEF NoTwice
    <3> QED
    BY <1>1, <3>1
  <2> QED
  BY <2>2, <2>3
<1> QED
  BY <1>3, <1>4

-----------------------------------------------------------------------------
(* A job is held once.                                                      *)

LEMMA NextHeldOnce == IInv /\ [Next]_vars => HeldOnce'
<1> SUFFICES ASSUME IInv, [Next]_vars PROVE HeldOnce'
  OBVIOUS
<1>1. TypeOK /\ HeldOnce /\ OpenWhileHeld
  BY DEF IInv
<1>2. CASE UNCHANGED <<queueVars, job>>
  BY <1>1, <1>2 DEF HeldOnce, InChan, InHand
<1>3. ASSUME NEW j \in Jobs, Insert(j) PROVE HeldOnce'
  <2>1. j \notin InChan \cup overflow \cup InHand
    BY <1>1, <1>3 DEF OpenWhileHeld, Waiting, Insert, InHand
  <2> QED
  BY <1>1, <1>3, <2>1 DEF HeldOnce, InChan, InHand, Insert
<1>4. ASSUME NEW j \in Jobs, Enqueue(j) PROVE HeldOnce'
  <2>1. j \notin InChan /\ j \notin overflow /\ j \notin InHand /\ InHand' = InHand
    BY <1>1, <1>4 DEF HeldOnce, Enqueue, InHand
  <2>2. CASE chan' = Append(chan, j) /\ overflow' = overflow
    BY <1>1, <1>4, <2>1, <2>2, SendFacts DEF HeldOnce, Enqueue, NoTwice
  <2>3. CASE chan' = chan /\ overflow' = overflow \cup {j}
    BY <1>1, <1>4, <2>1, <2>3 DEF HeldOnce, Enqueue, InChan
  <2> QED
  BY <1>4, <2>2, <2>3 DEF Enqueue
<1>5. ASSUME NEW j \in Jobs, SendOverflow(j) PROVE HeldOnce'
  <2>1. j \notin InChan /\ j \notin handler /\ j \notin InHand /\ InHand' = InHand
    BY <1>1, <1>5 DEF HeldOnce, SendOverflow, InHand
  <2> QED
  BY <1>1, <1>5, <2>1, SendFacts DEF HeldOnce, SendOverflow, NoTwice
<1>6. ASSUME NEW w \in Workers, Take(w) PROVE HeldOnce'
  <2>1. /\ Head(chan) \in InChan /\ InChan' \subseteq InChan
        /\ Head(chan) \notin InChan' /\ NoTwice'
    BY <1>1, <1>6, TakeFacts DEF Take, HeldOnce, NoTwice
  <2>2. job[w] = None /\ job' = [job EXCEPT ![w] = Head(chan)]
    BY <1>1, <1>6 DEF Take, At, TypeOK, WorkerType
  <2>3. InHand' \subseteq InHand \cup {Head(chan)}
    BY <1>1, <2>2 DEF InHand, TypeOK, WorkerType
  <2>4. Head(chan) \notin handler \cup overflow \cup InHand
    BY <1>1, <2>1 DEF HeldOnce
  <2>5. \A u, v \in Workers : job'[u] = job'[v] /\ job'[u] # None => u = v
    BY <1>1, <2>2, <2>4, NoneAssumption
       DEF HeldOnce, InHand, TypeOK, WorkerType
  <2> QED
  BY <1>1, <1>6, <2>1, <2>3, <2>4, <2>5 DEF HeldOnce, Take, NoTwice
<1>7. ASSUME NEW w \in Workers, LookupFails(w) \/ Finish(w) PROVE HeldOnce'
  <2>1. job' = [job EXCEPT ![w] = None] /\ UNCHANGED queueVars
    BY <1>7 DEF LookupFails, Finish, Return
  <2>2. InHand' \subseteq InHand /\ InChan' = InChan
    BY <1>1, <2>1 DEF InHand, InChan, TypeOK, WorkerType
  <2>3. \A u, v \in Workers : job'[u] = job'[v] /\ job'[u] # None => u = v
    BY <1>1, <2>1 DEF HeldOnce, TypeOK, WorkerType
  <2> QED
  BY <1>1, <2>1, <2>2, <2>3 DEF HeldOnce
<1>8. CASE Stop
  BY <1>8 DEF Stop, HeldOnce, InChan, InHand
<1> QED
  BY <1>2, <1>3, <1>4, <1>5, <1>6, <1>7, <1>8, QueueFrame

-----------------------------------------------------------------------------
(* What a step may do to one job's row, artifact and inputs.                *)

Ends(w, j) ==
  /\ job[w] = j /\ pc[w] \in BeforeEnd
  /\ row'[j].status \in {"running", "success", "failed"}
  /\ row'[j].status \in Terminal => pc'[w] \notin BeforeEnd
  /\ row'[j].status = "success" =>
       row'[j] = Done(w) /\ (SaveHit(w) \/ SaveBuilt(w))

RowMoves(j) ==
  \/ row'[j] = row[j]
  \/ row[j].status = "none" /\ row'[j].status = "queued" /\ Insert(j)
  \/ row[j].status # "none" /\ row'[j].status = "deleted"
  \/ \E w \in Workers : Ends(w, j)

LEMMA RowStep ==
  ASSUME TypeOK, OpenWhileHeld, [Next]_vars, NEW j \in Jobs
  PROVE  RowMoves(j)
<1>1. CASE UNCHANGED row
  BY <1>1 DEF RowMoves
<1>2. ASSUME NEW i \in Jobs, Insert(i) PROVE RowMoves(j)
  BY <1>2 DEF Insert, RowMoves, TypeOK, DataType
<1>3. ASSUME NEW p \in Projects, DeleteProject(p) PROVE RowMoves(j)
  BY <1>3 DEF DeleteProject, RowMoves, TypeOK, DataType
<1>4. ASSUME NEW w \in Workers,
             LookupFails(w) \/ Begin(w) \/ SaveHit(w) \/ SaveBuilt(w) \/ Fail(w)
      PROVE  RowMoves(j)
  <2>1. job[w] \in Jobs /\ pc[w] \in BeforeEnd
    BY <1>4, BusyHasJob
       DEF LookupFails, Begin, SaveHit, SaveBuilt, Fail, At, BeforeEnd
  <2>2. row[job[w]] \in Row /\ Done(w) \in Row /\ Done(w).status = "success"
    BY <2>1 DEF TypeOK, DataType, WorkerType, Done
  <2>3. CASE LookupFails(w)
    BY <2>1, <2>2, <2>3 DEF LookupFails, Return, Goto, Update, RowMoves, Ends,
       TypeOK, DataType, WorkerType, BeforeEnd
  <2>4. CASE Begin(w)
    <3>1. [row[job[w]] EXCEPT !.status = "running"].status = "running"
      BY <2>2
    <3> QED
    BY <2>1, <2>2, <2>4, <3>1 DEF Begin, Update, RowMoves, Ends, TypeOK,
       DataType, OpenWhileHeld
  <2>5. CASE SaveHit(w)
    BY <2>1, <2>2, <2>5 DEF SaveHit, Goto, Update, RowMoves, Ends, TypeOK,
       DataType, WorkerType, BeforeEnd
  <2>6. CASE SaveBuilt(w)
    BY <2>1, <2>2, <2>6 DEF SaveBuilt, Goto, Update, RowMoves, Ends, TypeOK,
       DataType, WorkerType, BeforeEnd
  <2>7. CASE Fail(w)
    BY <2>1, <2>2, <2>7 DEF Fail, Goto, Update, RowMoves, Ends, TypeOK,
       DataType, WorkerType, BeforeEnd
  <2> QED
  BY <1>4, <2>3, <2>4, <2>5, <2>6, <2>7
<1> QED
  BY <1>1, <1>2, <1>3, <1>4, RowFrame

LEMMA WaitingStep ==
  ASSUME TypeOK, [Next]_vars, NEW j \in Waiting'
  PROVE  j \in Waiting \/ (j \in Jobs /\ Insert(j))
<1>1. CASE UNCHANGED <<queueVars, job>>
  BY <1>1 DEF Waiting, InChan
<1>2. ASSUME NEW i \in Jobs, Insert(i) PROVE j \in Waiting \/ j = i
  BY <1>2 DEF Insert, Waiting, InChan
<1>3. ASSUME NEW i \in Jobs, Enqueue(i) PROVE j \in Waiting
  <2>1. InChan' \subseteq InChan \cup {i}
    <3>1. chan' = Append(chan, i) \/ chan' = chan
      BY <1>3 DEF Enqueue
    <3> QED
    BY <3>1, SendFacts DEF InChan
  <2> QED
  BY <1>3, <2>1 DEF Enqueue, Waiting
<1>4. ASSUME NEW i \in Jobs, SendOverflow(i) PROVE j \in Waiting
  BY <1>4, SendFacts DEF SendOverflow, Waiting
<1>5. ASSUME NEW w \in Workers, Take(w) PROVE j \in Waiting
  BY <1>5, TakeFacts DEF Take, Waiting
<1>6. ASSUME NEW w \in Workers, LookupFails(w) \/ Finish(w) PROVE j \in Waiting
  BY <1>6 DEF LookupFails, Finish, Waiting, InChan
<1>7. CASE Stop
  BY <1>7 DEF Stop, Waiting, InChan
<1> QED
  BY <1>1, <1>2, <1>3, <1>4, <1>5, <1>6, <1>7, QueueFrame

\* A PDF is put only by a worker that has the job and did not finish its upload.
LEMMA PdfStep ==
  ASSUME TypeOK, [Next]_vars, NEW k \in Jobs
  PROVE  \/ pdfObject'[k] = pdfObject[k]
         \/ \E w \in Workers : job[w] = k /\ pc[w] \in BeforeStored
<1>1. CASE UNCHANGED pdfObject
  BY <1>1
<1>2. ASSUME NEW w \in Workers, CopyPdf(w) \/ Build(w), pdfObject'[k] # pdfObject[k]
      PROVE  job[w] = k /\ pc[w] \in BeforeStored
  <2>1. pc[w] \in BeforeStored
    BY <1>2 DEF CopyPdf, Build, At, BeforeStored, BeforeEnd
  <2>2. job[w] = k
    BY <1>2 DEF CopyPdf, Build, TypeOK, DataType, WorkerType
  <2> QED
  BY <2>1, <2>2
<1> QED
  BY <1>1, <1>2, PdfFrame

LEMMA InputStep ==
  ASSUME TypeOK, [Next]_vars, NEW j \in Jobs
  PROVE  \/ input'[j] = input[j]
         \/ \E w \in Workers : job[w] = j /\ pc[w] \in {"main", "fetch"}
<1>1. ASSUME NEW w \in Workers, ReadMain(w) \/ \E f \in Paths : FetchFile(w, f),
             input'[j] # input[j]
      PROVE  job[w] = j /\ pc[w] \in {"main", "fetch"}
  BY <1>1 DEF ReadMain, FetchFile, At, TypeOK, DataType
<1> QED
  BY <1>1, InputFrame

-----------------------------------------------------------------------------
(* The inductive step.                                                      *)

LEMMA WaitingNotInHand ==
  ASSUME TypeOK, HeldOnce, NEW j \in Waiting
  PROVE  j \in Jobs /\ ~ \E w \in Workers : job[w] = j
<1>1. InChan \subseteq Jobs
  BY DEF InChan, TypeOK, DataType
<1>2. j \in Jobs
  BY <1>1 DEF Waiting, TypeOK, DataType
<1>3. j \notin InHand
  BY DEF Waiting, HeldOnce
<1> QED
  BY <1>2, <1>3, NoneAssumption DEF InHand

LEMMA NextOpenWhileHeld == IInv /\ [Next]_vars => OpenWhileHeld'
<1> SUFFICES ASSUME IInv, [Next]_vars PROVE OpenWhileHeld'
  OBVIOUS
<1>1. TypeOK /\ HeldOnce /\ OpenWhileHeld
  BY DEF IInv
<1>2. \A j \in Jobs : RowMoves(j)
  BY <1>1, RowStep
<1>3. ASSUME NEW j \in Waiting'
      PROVE  row'[j].status \notin Terminal \cup {"none"}
  <2>1. j \in Waiting \/ (j \in Jobs /\ Insert(j))
    BY <1>1, WaitingStep
  <2>2. CASE j \in Waiting
    <3>1. j \in Jobs /\ ~ \E w \in Workers : job[w] = j
      BY <1>1, <2>2, WaitingNotInHand
    <3> QED
    BY <1>1, <1>2, <2>2, <3>1 DEF OpenWhileHeld, RowMoves, Ends
  <2>3. CASE j \in Jobs /\ Insert(j)
    BY <1>1, <2>3 DEF Insert, TypeOK, DataType
  <2> QED
  BY <2>1, <2>2, <2>3
<1>4. ASSUME NEW w \in Workers, job'[w] # None
      PROVE  row'[job'[w]].status # "none"
  <2>1. CASE Take(w)
    <3>1. job'[w] \in Waiting /\ row' = row
      BY <1>1, <2>1, TakeFacts DEF Take, Waiting, TypeOK, WorkerType
    <3> QED
    BY <1>1, <3>1 DEF OpenWhileHeld
  <2>2. CASE job'[w] = job[w]
    BY <1>1, <1>2, <1>4, <2>2
       DEF OpenWhileHeld, RowMoves, Ends, TypeOK, WorkerType
  <2> QED
  BY <1>1, <1>4, <2>1, <2>2, ControlFlow DEF Moves
<1>5. ASSUME NEW w \in Workers, pc'[w] \in BeforeEnd
      PROVE  row'[job'[w]].status \notin Terminal
  <2>1. CASE Take(w)
    <3>1. job'[w] \in Waiting /\ row' = row
      BY <1>1, <2>1, TakeFacts DEF Take, Waiting, TypeOK, WorkerType
    <3> QED
    BY <1>1, <3>1 DEF OpenWhileHeld
  <2>2. CASE pc[w] \in BeforeEnd /\ job'[w] = job[w]
    <3>1. job[w] \in Jobs
      BY <1>1, <2>2, BusyHasJob DEF BeforeEnd
    <3>2. \A v \in Workers : job[v] = job[w] => v = w
      BY <1>1, <3>1, NoneAssumption DEF HeldOnce
    <3> QED
    BY <1>1, <1>2, <1>5, <2>2, <3>1, <3>2 DEF OpenWhileHeld, RowMoves, Ends
  <2> QED
  BY <1>1, <1>5, <2>1, <2>2, ControlFlow DEF Moves
<1> QED
  BY <1>3, <1>4, <1>5 DEF OpenWhileHeld

\* Two workers do not share a job.
LEMMA OneWorker ==
  ASSUME TypeOK, HeldOnce, NEW u \in Workers, NEW v \in Workers,
         job[u] = job[v], job[u] \in Jobs
  PROVE  u = v
  BY NoneAssumption DEF HeldOnce

\* A job does not come back before its upload.
LEMMA SettledStays ==
  ASSUME TypeOK, OpenWhileHeld, [Next]_vars, NEW k \in Jobs, Settled(k)
  PROVE  Settled(k)'
<1>1. /\ k \notin Waiting /\ row[k].status # "none"
      /\ \A w \in Workers : job[w] = k => pc[w] \notin BeforeStored
  BY DEF Settled
<1>2. k \notin Waiting'
  BY <1>1, WaitingStep DEF Insert
<1>3. row'[k].status # "none"
  BY <1>1, RowStep DEF RowMoves, Ends
<1>4. ASSUME NEW w \in Workers, job'[w] = k PROVE pc'[w] \notin BeforeStored
  <2>1. CASE Take(w)
    <3>1. job'[w] \in Waiting
      BY <2>1, TakeFacts DEF Take, Waiting, TypeOK, WorkerType
    <3> QED
    BY <1>1, <1>4, <3>1
  <2>2. CASE ~Take(w)
    BY <1>1, <1>4, <2>2, ControlFlow DEF Moves
  <2> QED
  BY <2>1, <2>2
<1> QED
  BY <1>2, <1>3, <1>4 DEF Settled

\* A job is settled once its worker has its PDF,
LEMMA StoredIsSettled ==
  ASSUME TypeOK, HeldOnce, OpenWhileHeld, NEW w \in Workers, pc[w] \in Stored
  PROVE  job[w] \in Jobs /\ Settled(job[w])
<1>1. job[w] \in Jobs
  BY BusyHasJob DEF Stored
<1>2. job[w] \notin Waiting
  BY WaitingNotInHand
<1>3. row[job[w]].status # "none"
  BY <1>1, NoneAssumption DEF OpenWhileHeld
<1>4. \A v \in Workers : job[v] = job[w] => v = w
  BY <1>1, OneWorker
<1> QED
  BY <1>1, <1>2, <1>3, <1>4 DEF Settled, Stored, BeforeStored, BeforeEnd

\* and once its row ended.
LEMMA EndedIsSettled ==
  ASSUME OpenWhileHeld, NEW j \in Jobs, row[j].status \in Terminal
  PROVE  Settled(j)
  BY DEF OpenWhileHeld, Settled, BeforeStored

LEMMA NextSettling == IInv /\ [Next]_vars => Settling'
<1> SUFFICES ASSUME IInv, [Next]_vars PROVE Settling'
  OBVIOUS
<1>1. TypeOK /\ HeldOnce /\ OpenWhileHeld /\ Settling
  BY DEF IInv
<1>2. ASSUME NEW e \in cache PROVE Settled(e.pdf)'
  <2>1. e.pdf \in Jobs /\ Settled(e.pdf)
    BY <1>1 DEF Settling, TypeOK, DataType
  <2> QED
  BY <1>1, <2>1, SettledStays
<1>3. ASSUME NEW e \in cache' PROVE Settled(e.pdf)'
  <2>1. ASSUME NEW w \in Workers, RememberCache(w), e \notin cache
        PROVE  Settled(e.pdf)'
    <3>1. e.pdf = job[w] /\ pc[w] \in Stored
      BY <2>1 DEF RememberCache, At, Stored
    <3> QED
    BY <1>1, <3>1, StoredIsSettled, SettledStays
  <2> QED
  BY <1>2, <2>1, CacheFrame
<1>4. ASSUME NEW w \in Workers, pc'[w] = "copy" PROVE Settled(hit[w].pdf)'
  <2>1. ~Take(w)
    BY <1>1, <1>4 DEF Take, Goto, TypeOK, WorkerType
  <2>2. CASE CacheHit(w)
    <3>1. PICK e \in cache : hit'[w].pdf = e.pdf
      BY <1>1, <2>2 DEF CacheHit, TypeOK, WorkerType
    <3>2. e.pdf \in Jobs /\ Settled(e.pdf)
      BY <1>1, <3>1 DEF Settling, TypeOK, DataType
    <3>3. Settled(e.pdf)'
      BY <1>2, <3>1
    <3> QED
    BY <3>1, <3>3 DEF Settled
  <2>3. CASE pc[w] = "copy" /\ hit'[w] = hit[w]
    <3>1. hit[w].pdf \in Jobs /\ Settled(hit[w].pdf)
      BY <1>1, <2>3 DEF Settling, TypeOK, WorkerType
    <3> DEFINE k == hit[w].pdf
    <3>2. k' = k
      BY <2>3
    <3>3. /\ k \notin Waiting' /\ row'[k].status # "none"
          /\ \A v \in Workers : job'[v] = k => pc'[v] \notin BeforeStored
      <4>1. ASSUME NEW i \in Jobs, Settled(i)
            PROVE  /\ i \notin Waiting' /\ row'[i].status # "none"
                   /\ \A v \in Workers : job'[v] = i => pc'[v] \notin BeforeStored
        BY <1>1, <4>1, SettledStays DEF Settled
      <4> QED
      BY <3>1, <4>1
    <3> QED
    BY <3>2, <3>3 DEF Settled
  <2> QED
  BY <1>1, <1>4, <2>1, <2>2, <2>3, ControlFlow DEF Moves
<1> QED
  BY <1>3, <1>4 DEF Settling

\* The PDF of a settled job stays, and so does its key.
LEMMA HoldsKept ==
  ASSUME TypeOK, [Next]_vars, NEW k \in Jobs, Settled(k), NEW i, Holds(k, i)
  PROVE  pdfObject'[k] = pdfObject[k] /\ pdfObject'[k] # None
         /\ PdfKey(pdfObject'[k]) = i
<1>1. pdfObject[k] # None /\ PdfKey(pdfObject[k]) = i
  BY DEF Holds
<1>2. pdfObject'[k] = pdfObject[k]
  BY PdfStep DEF Settled
<1> QED
  BY <1>1, <1>2

LEMMA NextRunSound == IInv /\ [Next]_vars => RunSound'
<1> SUFFICES ASSUME IInv, [Next]_vars, NEW w \in Workers
             PROVE  /\ pc'[w] = "copy" => Holds(hit[w].pdf, KeyOf(job[w]))'
                    /\ pc'[w] \in Stored => Holds(job[w], KeyOf(job[w]))'
                    /\ synCol'[w] # None =>
                         synCol'[w] = job'[w] /\ job'[w] \in synObject'
  BY DEF RunSound, Stored
<1>1. /\ TypeOK /\ TypeOK' /\ HeldOnce /\ OpenWhileHeld /\ Settling /\ RunSound
      /\ CacheSound
  BY NextTypeOK DEF IInv
<1>2. CASE Take(w)
  <2>1. pc'[w] = "lookup" /\ synCol'[w] = synCol[w] /\ job[w] = None /\ synCol[w] = None
    BY <1>1, <1>2, NoneAssumption DEF Take, At, Goto, TypeOK, WorkerType, DataType, RunSound
  <2> QED
  BY <2>1 DEF Stored
<1>3. ASSUME ~Take(w), job[w] \in Jobs, pc[w] \notin {"main", "fetch"}, job'[w] = job[w]
      PROVE  KeyOf(job[w])' = KeyOf(job[w])
  <2>1. input'[job[w]] = input[job[w]]
    BY <1>1, <1>3, InputStep, OneWorker
  <2> QED
  BY <1>3, <2>1 DEF KeyOf
<1>4. ASSUME ~Take(w), pc'[w] = "copy" PROVE Holds(hit[w].pdf, KeyOf(job[w]))'
  <2>1. /\ job'[w] = job[w]
        /\ CacheHit(w) \/ (pc[w] = "copy" /\ hit'[w] = hit[w])
    BY <1>1, <1>4, ControlFlow DEF Moves
  <2>2. pc[w] \in {"cache", "copy"} /\ job[w] \in Jobs
    BY <1>1, <2>1, BusyHasJob DEF CacheHit, At
  <2>3. KeyOf(job[w])' = KeyOf(job[w])
    BY <1>3, <1>4, <2>1, <2>2
  <2>4. CASE CacheHit(w)
    <3>1. PICK e \in cache : e.key = KeyOf(job[w]) /\ hit'[w].pdf = e.pdf
      BY <1>1, <2>4 DEF CacheHit, TypeOK, WorkerType
    <3>2. e.pdf \in Jobs /\ Holds(e.pdf, KeyOf(job[w])) /\ Settled(e.pdf)
      BY <1>1, <3>1 DEF CacheSound, Settling, Holds, TypeOK, DataType
    <3> QED
    BY <1>1, <2>3, <3>1, <3>2, HoldsKept DEF Holds
  <2>5. CASE pc[w] = "copy" /\ hit'[w] = hit[w]
    <3>1. hit[w].pdf \in Jobs /\ Holds(hit[w].pdf, KeyOf(job[w])) /\ Settled(hit[w].pdf)
      BY <1>1, <2>5 DEF RunSound, Settling, TypeOK, WorkerType
    <3> QED
    BY <1>1, <2>3, <2>5, <3>1, HoldsKept DEF Holds
  <2> QED
  BY <2>1, <2>4, <2>5
<1>5. ASSUME ~Take(w), pc'[w] \in Stored PROVE Holds(job[w], KeyOf(job[w]))'
  <2>1. /\ job'[w] = job[w]
        /\ pc[w] \in Stored \/ CopyPdf(w) \/ Build(w)
    BY <1>1, <1>5, ControlFlow DEF Moves
  <2>2. pc[w] \in Stored \cup {"copy", "build"} /\ job[w] \in Jobs
    BY <1>1, <2>1, BusyHasJob DEF CopyPdf, Build, At, Stored
  <2>3. KeyOf(job[w])' = KeyOf(job[w])
    BY <1>3, <1>5, <2>1, <2>2 DEF Stored
  <2>4. CASE pc[w] \in Stored
    <3>1. Holds(job[w], KeyOf(job[w])) /\ Settled(job[w])
      BY <1>1, <2>4, StoredIsSettled DEF RunSound, Stored
    <3> QED
    BY <1>1, <2>1, <2>2, <2>3, <3>1, HoldsKept DEF Holds
  <2>5. CASE CopyPdf(w)
    <3>1. Holds(hit[w].pdf, KeyOf(job[w]))
      BY <1>1, <2>5 DEF RunSound, CopyPdf, At
    <3>2. pdfObject'[job[w]] = pdfObject[hit[w].pdf]
      BY <1>1, <1>5, <2>2, <2>5
         DEF CopyPdf, Goto, Stored, TypeOK, WorkerType, DataType
    <3> QED
    BY <2>1, <2>3, <3>1, <3>2 DEF Holds
  <2>6. CASE Build(w)
    <3>1. PICK up \in BOOLEAN : pdfObject'[job[w]] =
            [tree |-> input[job[w]].tree, main |-> input[job[w]].main,
             options |-> OptionsOf[job[w]], uploaded |-> up]
      BY <1>1, <2>2, <2>6 DEF Build, TypeOK, DataType
    <3>2. PdfKey(pdfObject'[job[w]]) = KeyOf(job[w])
      BY <3>1 DEF PdfKey, KeyOf
    <3>3. pdfObject'[job[w]] \in Pdf
      <4>1. pdfObject'[job[w]] \in Pdf \cup {None}
        BY <1>1, <2>2 DEF TypeOK, DataType
      <4>2. input[job[w]] \in [tree: Seq(Entry), main: Paths]
        BY <1>1, <2>2 DEF TypeOK, DataType
      <4> QED
      BY <2>2, <3>1, <4>2, RequestAssumption DEF Pdf
    <3> QED
    BY <2>1, <2>3, <3>2, <3>3, NoneAssumption DEF Holds
  <2> QED
  BY <2>1, <2>4, <2>5, <2>6
<1>6. ASSUME ~Take(w), synCol'[w] # None
      PROVE  synCol'[w] = job'[w] /\ job'[w] \in synObject'
  <2>1. CASE synCol'[w] = synCol[w] /\ job'[w] = job[w]
    BY <1>1, <1>6, <2>1, SynFrame DEF RunSound
  <2>2. CASE PutSynctex(w) \/ CopySynctex(w)
    <3>1. \/ synCol'[w] = job[w] /\ job[w] \in synObject'
          \/ synCol'[w] = synCol[w]
      BY <1>1, <2>2 DEF PutSynctex, CopySynctex, TypeOK, WorkerType
    <3>2. job'[w] = job[w]
      BY <2>2 DEF PutSynctex, CopySynctex
    <3> QED
    BY <1>1, <1>6, <3>1, <3>2, SynFrame DEF RunSound
  <2> QED
  BY <1>1, <1>6, <2>1, <2>2, ControlFlow DEF Moves
<1> QED
  BY <1>2, <1>4, <1>5, <1>6

LEMMA NextSuccessHasPdf == IInv /\ [Next]_vars => SuccessHasPdf'
<1> SUFFICES ASSUME IInv, [Next]_vars, NEW j \in Jobs, row'[j].status = "success"
             PROVE  /\ row'[j].pdf = j /\ pdfObject'[j] # None
                    /\ PdfKey(pdfObject'[j]) = KeyOf(j)'
                    /\ row'[j].synctex # None =>
                         row'[j].synctex = j /\ j \in synObject'
  BY DEF SuccessHasPdf, KeyOf, PdfKey
<1>1. /\ TypeOK /\ HeldOnce /\ OpenWhileHeld /\ RunSound /\ SuccessHasPdf
  BY DEF IInv
<1>2. row'[j] = row[j] \/ \E w \in Workers : Ends(w, j)
  BY <1>1, RowStep DEF RowMoves
<1>3. CASE row'[j] = row[j]
  <2>1. /\ row[j].pdf = j /\ Holds(j, KeyOf(j))
        /\ row[j].synctex # None => row[j].synctex = j /\ j \in synObject
    BY <1>1, <1>3 DEF SuccessHasPdf, Holds, KeyOf, PdfKey
  <2>2. ~ \E w \in Workers : job[w] = j /\ pc[w] \in {"main", "fetch"}
    BY <1>1, <1>3 DEF OpenWhileHeld, BeforeEnd
  <2>3. KeyOf(j)' = KeyOf(j)
    BY <1>1, <2>2, InputStep DEF KeyOf
  <2>4. Settled(j)
    BY <1>1, <1>3, EndedIsSettled
  <2> QED
  BY <1>1, <1>3, <2>1, <2>3, <2>4, HoldsKept, SynFrame
<1>4. ASSUME NEW w \in Workers, Ends(w, j), SaveHit(w) \/ SaveBuilt(w)
      PROVE  /\ row'[j].pdf = j /\ pdfObject'[j] # None
             /\ PdfKey(pdfObject'[j]) = KeyOf(j)'
             /\ row'[j].synctex # None =>
                  row'[j].synctex = j /\ j \in synObject'
  <2>1. job[w] = j /\ row'[j] = Done(w)
    BY <1>4 DEF Ends
  <2>2. /\ pdfObject' = pdfObject /\ input' = input /\ synObject' = synObject
        /\ pc[w] \in {"hit", "save"}
    BY <1>4 DEF SaveHit, SaveBuilt, At
  <2>3. Holds(j, KeyOf(j)) /\ (synCol[w] # None => synCol[w] = j /\ j \in synObject)
    BY <1>1, <2>1, <2>2 DEF RunSound
  <2>4. KeyOf(j)' = KeyOf(j)
    BY <2>2 DEF KeyOf
  <2> QED
  BY <2>1, <2>2, <2>3, <2>4 DEF Done, Holds
<1> QED
  BY <1>2, <1>3, <1>4 DEF Ends

LEMMA NextCacheSound == IInv /\ [Next]_vars => CacheSound'
<1> SUFFICES ASSUME IInv, [Next]_vars, NEW e \in cache'
             PROVE  /\ pdfObject'[e.pdf] # None
                    /\ PdfKey(pdfObject'[e.pdf]) = e.key
                    /\ e.synctex # None => e.synctex \in synObject'
  BY DEF CacheSound, PdfKey
<1>1. TypeOK /\ Settling /\ RunSound /\ CacheSound
  BY DEF IInv
<1>2. CASE e \in cache
  <2>1. /\ e.pdf \in Jobs /\ Holds(e.pdf, e.key) /\ Settled(e.pdf)
        /\ e.synctex # None => e.synctex \in synObject
    BY <1>1, <1>2 DEF CacheSound, Settling, Holds, TypeOK, DataType
  <2> QED
  BY <1>1, <2>1, HoldsKept, SynFrame
<1>3. ASSUME NEW w \in Workers, RememberCache(w), e \notin cache
      PROVE  /\ pdfObject'[e.pdf] # None
             /\ PdfKey(pdfObject'[e.pdf]) = e.key
             /\ e.synctex # None => e.synctex \in synObject'
  <2>1. /\ e = [key |-> KeyOf(job[w]), pdf |-> job[w], synctex |-> synCol[w]]
        /\ pdfObject' = pdfObject /\ synObject' = synObject /\ pc[w] = "remember"
    BY <1>3 DEF RememberCache, At
  <2>2. Holds(job[w], KeyOf(job[w])) /\ (synCol[w] # None => synCol[w] \in synObject)
    BY <1>1, <2>1 DEF RunSound
  <2> QED
  BY <2>1, <2>2 DEF Holds
<1> QED
  BY <1>2, <1>3, CacheFrame

LEMMA InitIInv == Init => IInv
<1> SUFFICES ASSUME Init PROVE IInv
  OBVIOUS
<1>1. TypeOK
  BY InitTypeOK
<1>2. InChan = {} /\ InHand = {}
  BY DEF Init, InChan, InHand
<1>3. HeldOnce
  BY <1>2 DEF Init, HeldOnce
<1>4. OpenWhileHeld /\ Settling
  BY <1>2 DEF Init, OpenWhileHeld, Settling, Waiting, BeforeEnd
<1>5. RunSound /\ SuccessHasPdf /\ CacheSound
  BY DEF Init, RunSound, SuccessHasPdf, CacheSound
<1> QED
  BY <1>1, <1>3, <1>4, <1>5 DEF IInv

LEMMA NextIInv == IInv /\ [Next]_vars => IInv'
  BY NextTypeOK, NextHeldOnce, NextOpenWhileHeld, NextSettling, NextRunSound,
     NextSuccessHasPdf, NextCacheSound DEF IInv

LEMMA Inductive == Spec => []IInv
<1> QED
  BY InitIInv, NextIInv, PTL DEF Spec

-----------------------------------------------------------------------------
(* The theorems.                                                            *)

\* No job is ever in two places of the pipeline: at most one worker compiles
\* it, whatever the queue overflows and however often the process restarts.
THEOREM JobsHeldOnce == Spec => []HeldOnce
<1>1. IInv => HeldOnce
  BY DEF IInv
<1> QED
  BY <1>1, Inductive, PTL

\* Whatever services fail, before or after their effect, and wherever the process
\* stops, a job whose row says success has a PDF under its own key, compiled from
\* inputs that hash like the ones its run read: the paths its SELECT returned and
\* what could be read back of each file (runJob, materializeProject).
THEOREM SuccessIsReal == Spec => []SuccessHasPdf
<1>1. IInv => SuccessHasPdf
  BY DEF IInv
<1> QED
  BY <1>1, Inductive, PTL

\* Every cache entry leads to artifacts that exist and to a PDF of inputs with the
\* hash in its key (rdb.Set at the end of runJob), however its run or others failed.
THEOREM CacheIsSound == Spec => []CacheSound
<1>1. IInv => CacheSound
  BY DEF IInv
<1> QED
  BY <1>1, Inductive, PTL

\* The row of an ended job never changes, a deleted project apart, nor does its PDF,
\* and no PDF that a cache entry names is replaced; a job whose copy of a cached PDF
\* was stored and answered with an error puts another before it ends (runJob).
THEOREM EndsAreFinal == Spec => EndIsFinal
<1>1. IInv /\ [Next]_vars =>
        [/\ \A j \in Jobs : row[j].status \in Terminal =>
               /\ row'[j] = row[j] \/ row'[j].status = "deleted"
               /\ pdfObject'[j] = pdfObject[j]
         /\ \A e \in cache : pdfObject'[e.pdf] = pdfObject[e.pdf]]_vars
  <2> SUFFICES ASSUME IInv, [Next]_vars
               PROVE  /\ \A j \in Jobs : row[j].status \in Terminal =>
                           /\ row'[j] = row[j] \/ row'[j].status = "deleted"
                           /\ pdfObject'[j] = pdfObject[j]
                      /\ \A e \in cache : pdfObject'[e.pdf] = pdfObject[e.pdf]
    OBVIOUS
  <2>1. TypeOK /\ OpenWhileHeld /\ Settling
    BY DEF IInv
  <2>2. ASSUME NEW k \in Jobs, Settled(k) PROVE pdfObject'[k] = pdfObject[k]
    BY <2>1, <2>2, PdfStep DEF Settled
  <2>3. ASSUME NEW j \in Jobs, row[j].status \in Terminal
        PROVE  /\ row'[j] = row[j] \/ row'[j].status = "deleted"
               /\ pdfObject'[j] = pdfObject[j]
    <3>1. row'[j] = row[j] \/ row'[j].status = "deleted"
      BY <2>1, <2>3, RowStep DEF RowMoves, Ends, OpenWhileHeld
    <3>2. Settled(j)
      BY <2>1, <2>3, EndedIsSettled
    <3> QED
    BY <2>2, <3>1, <3>2
  <2>4. ASSUME NEW e \in cache PROVE pdfObject'[e.pdf] = pdfObject[e.pdf]
    BY <2>1, <2>2 DEF Settling, TypeOK, DataType
  <2> QED
    BY <2>3, <2>4
<1> QED
  BY <1>1, Inductive, PTL DEF EndIsFinal, Spec

-----------------------------------------------------------------------------
(* A PDF is that of the files the project has. The invariant follows a run *)
(* through materializeProject: as long as nobody edits the project, and no *)
(* failed SELECT of the run passed for an answer, what was read so far are *)
(* the files that are not left to read, as they are.                       *)

Read(j) == FilesOf(input[j].tree)
FilesIn(p, paths) == {<<f, objects[p][f]>> : f \in paths}
MainRead(j) == input[j].main = mainTex[ProjectOf[j]]
Whole(j) == Read(j) = FilesIn(ProjectOf[j], rows[ProjectOf[j]]) /\ MainRead(j)

PastRead == {"cache", "copy", "copySyn", "hit", "build", "putSyn", "save", "remember"}

Gathering(w, j) ==
  LET p == ProjectOf[j] IN
  /\ pc[w] = "list" => Read(j) = {} /\ MainRead(j)
  /\ pc[w] = "fetch" => /\ todo[w] \subseteq rows[p]
                        /\ Read(j) = FilesIn(p, rows[p] \ todo[w]) /\ MainRead(j)
  /\ pc[w] \in PastRead => Whole(j)

Gathered ==
  /\ \A j \in steady : ProjectOf[j] \in live
  /\ \A w \in Workers, j \in steady \ misread : job[w] = j => Gathering(w, j)
  /\ \A j \in steady \ misread : row[j].status = "success" => Whole(j)

LEMMA MisreadFrame ==
  ASSUME [Next]_vars
  PROVE  misread \subseteq misread'
  BY DEF Next, WorkerStep, Insert, Enqueue, SendOverflow, Take, WorkerExit,
     Lookup, LookupFails, Begin, ReadMain, ListFiles, FetchFile, CacheHit,
     CacheMiss, CopyPdf, CopySynctex, SaveHit, BuildFails, Build, PutSynctex,
     SaveBuilt, RememberCache, Fail, Finish, PutObject, UpsertFileRow,
     DeleteFileRow, SetMain, DeleteProject, Edit, Shutdown, Stop, Restart,
     ExpireCache

\* An entry more is a file more.
LEMMA FilesAppend ==
  ASSUME NEW t \in Seq(Entry), NEW e \in Entry
  PROVE  FilesOf(Append(t, e)) = FilesOf(t) \cup {<<e.path, e.text>>}
<1> DEFINE n == Len(t)
           u == Append(t, e)
<1>1. /\ n \in Nat /\ DOMAIN t = 1..n /\ DOMAIN u = 1..(n + 1) /\ u[n + 1] = e
      /\ \A k \in 1..n : u[k] = t[k]
  BY AppendProperties, LenProperties
<1> HIDE DEF n, u
<1>2. {<<u[k].path, u[k].text>> : k \in DOMAIN u} =
        {<<t[k].path, t[k].text>> : k \in DOMAIN t} \cup {<<e.path, e.text>>}
  BY <1>1
<1> QED
  BY <1>2 DEF FilesOf, u

\* A project with a job that stays steady is not touched.
LEMMA SteadyKeeps ==
  ASSUME TypeOK, [Next]_vars, NEW j \in steady', ~Insert(j)
  PROVE  LET p == ProjectOf[j] IN
         /\ j \in steady /\ j \in Jobs
         /\ rows'[p] = rows[p] /\ objects'[p] = objects[p] /\ mainTex'[p] = mainTex[p]
         /\ p \in live => p \in live'
<1>1. steady \subseteq Jobs
  BY DEF TypeOK, DataType
<1>2. ASSUME NEW i \in Jobs, Insert(i) PROVE steady' = steady \cup {i} /\ UNCHANGED userVars
  BY <1>2 DEF Insert
<1>3. ASSUME NEW p \in Projects, Edit(p),
             \A q \in Projects \ {p} : /\ rows'[q] = rows[q] /\ objects'[q] = objects[q]
                                       /\ mainTex'[q] = mainTex[q],
             live \ {p} \subseteq live'
      PROVE  LET q == ProjectOf[j] IN
             /\ j \in steady /\ rows'[q] = rows[q] /\ objects'[q] = objects[q]
             /\ mainTex'[q] = mainTex[q] /\ (q \in live => q \in live')
  BY <1>1, <1>3, RequestAssumption DEF Edit, JobsOf
<1>4. ASSUME NEW p \in Projects, DeleteProject(p) PROVE live \ {p} \subseteq live'
  BY <1>4 DEF DeleteProject
<1>5. ASSUME NEW p \in Projects,
             \/ DeleteProject(p)
             \/ \E f \in Paths : \/ \E c \in Contents \cup {None} : PutObject(p, f, c)
                                 \/ UpsertFileRow(p, f) \/ DeleteFileRow(p, f)
             \/ \E f \in MainPaths : SetMain(p, f)
      PROVE  /\ Edit(p) /\ live \ {p} \subseteq live'
             /\ \A q \in Projects \ {p} : /\ rows'[q] = rows[q] /\ objects'[q] = objects[q]
                                          /\ mainTex'[q] = mainTex[q]
  BY <1>4, <1>5
     DEF PutObject, UpsertFileRow, DeleteFileRow, SetMain, DeleteProject, TypeOK, DataType
<1>6. CASE UNCHANGED <<steady, userVars>>
  BY <1>1, <1>6
<1>7. ASSUME NEW w \in Workers, WorkerStep(w) PROVE UNCHANGED <<steady, userVars>>
  BY <1>7 DEF WorkerStep, Take, WorkerExit, Lookup, LookupFails, Begin,
     ReadMain, ListFiles, FetchFile, CacheHit, CacheMiss, CopyPdf,
     CopySynctex, SaveHit, BuildFails, Build, PutSynctex, SaveBuilt,
     RememberCache, Fail, Finish
<1> QED
  BY <1>1, <1>2, <1>3, <1>5, <1>6, <1>7 DEF Next, Enqueue, SendOverflow, Shutdown,
     Stop, Restart, ExpireCache

\* The step of the worker that has the job.
LEMMA GatherStep ==
  ASSUME IInv, NEW w \in Workers, WorkerStep(w), NEW j \in steady \ misread',
         job'[w] = j, ProjectOf[j] \in live, job[w] = j => Gathering(w, j)
  PROVE  Gathering(w, j)'
<1> DEFINE p == ProjectOf[j]
<1> USE DEF Gathering, PastRead
<1>1. /\ TypeOK /\ j \in Jobs /\ p \in Projects /\ j # None
      /\ pc \in [Workers -> PCs] /\ job \in [Workers -> Jobs \cup {None}]
      /\ todo \in [Workers -> SUBSET Paths]
      /\ input \in [Jobs -> [tree: Seq(Entry), main: Paths]]
  BY RequestAssumption, NoneAssumption DEF IInv, TypeOK, DataType, WorkerType
<1>2. UNCHANGED userVars
  BY DEF WorkerStep, Take, WorkerExit, Lookup, LookupFails, Begin,
     ReadMain, ListFiles, FetchFile, CacheHit, CacheMiss, CopyPdf,
     CopySynctex, SaveHit, BuildFails, Build, PutSynctex, SaveBuilt,
     RememberCache, Fail, Finish
<1>3. ASSUME input' = input PROVE (MainRead(j)' <=> MainRead(j)) /\ Read(j)' = Read(j)
             /\ (Whole(j)' <=> Whole(j))
  BY <1>2, <1>3 DEF MainRead, Read, Whole, FilesIn
<1>4. CASE Take(w) \/ WorkerExit(w) \/ Lookup(w) \/ LookupFails(w) \/ Begin(w) \/ Fail(w)
           \/ Finish(w) \/ BuildFails(w) \/ SaveHit(w)
  BY <1>1, <1>4 DEF Take, WorkerExit, Lookup, LookupFails, Begin, Fail, Finish, BuildFails,
     SaveHit, Return, Goto
<1>5. CASE ReadMain(w)
  <2>1. job[w] = j
    BY <1>5 DEF ReadMain
  <2>2. input' = [input EXCEPT ![j] = [tree |-> <<>>, main |-> mainTex[p]]]
    BY <1>1, <1>5, <2>1 DEF ReadMain
  <2>3. input'[j].tree = <<>> /\ input'[j].main = mainTex[p]
    BY <1>1, <2>2
  <2>4. Read(j)' = {} /\ MainRead(j)'
    BY <1>2, <2>3, EmptySeq DEF Read, FilesOf, MainRead
  <2>5. pc'[w] \in {"list", "fail"}
    BY <1>1, <1>5 DEF ReadMain, Goto
  <2> QED
  BY <2>4, <2>5
<1>6. CASE ListFiles(w)
  <2>1. job[w] = j /\ pc[w] = "list" /\ input' = input
    BY <1>6 DEF ListFiles, At
  <2>2. Read(j)' = {} /\ MainRead(j)'
    BY <1>3, <2>1
  <2>3. \/ pc'[w] = "fail"
        \/ rows[p] = {} /\ pc'[w] = "cache"
        \/ pc'[w] = "fetch" /\ todo'[w] = rows[p]
    BY <1>1, <1>6, <2>1 DEF ListFiles, Goto
  <2>4. FilesIn(p, {})' = {}
    BY DEF FilesIn
  <2>5. CASE rows[p] = {} /\ pc'[w] = "cache"
    <3>1. Whole(j)'
      BY <1>2, <2>2, <2>4, <2>5 DEF Whole
    <3> QED
    BY <2>5, <3>1
  <2>6. CASE pc'[w] = "fetch" /\ todo'[w] = rows[p]
    <3>1. rows'[p] = rows[p] /\ rows'[p] \ todo'[w] = {}
      BY <1>2, <2>6
    <3> QED
    BY <2>2, <2>4, <2>6, <3>1
  <2> QED
  BY <2>3, <2>5, <2>6
<1>7. ASSUME NEW f \in Paths, FetchFile(w, f) PROVE Gathering(w, j)'
  <2>1. /\ job[w] = j /\ pc[w] = "fetch" /\ f \in todo[w] /\ todo[w] \subseteq rows[p]
        /\ Read(j) = FilesIn(p, rows[p] \ todo[w]) /\ MainRead(j)
    BY <1>7 DEF FetchFile, At
  <2>2. CASE pc'[w] = "fail"
    BY <2>2
  <2>3. CASE pc'[w] # "fail"
    <3> DEFINE body == objects[p][f]
               i == input[j]
    <3>1. /\ ~UNCHANGED input /\ todo'[w] = todo[w] \ {f}
          /\ pc'[w] = IF todo[w] = {f} THEN "cache" ELSE "fetch"
      <4>1. todo'[w] = todo[w] \ {f} /\ pc'[w] = IF todo[w] = {f} THEN "cache" ELSE "fetch"
        BY <1>1, <1>7, <2>1, <2>3 DEF FetchFile, Goto
      <4>2. PICK e : input' = [input EXCEPT ![j].tree = Append(@, e)]
        BY <1>1, <1>7, <2>1, <2>3 DEF FetchFile, Goto
      <4>3. i \in [tree: Seq(Entry), main: Paths]
        BY <1>1
      <4>4. Len(Append(i.tree, e)) = Len(i.tree) + 1 /\ Len(i.tree) \in Nat
        BY <4>3
      <4>5. Append(i.tree, e) # i.tree
        BY <4>4
      <4>6. input'[j].tree = Append(i.tree, e)
        BY <1>1, <4>2
      <4> QED
      BY <4>1, <4>5, <4>6
    <3>2. PICK e \in Entry : /\ e.path = f /\ e.text = body
                             /\ input' = [input EXCEPT ![j].tree = Append(@, e)]
      <4>1. PICK e \in Entry :
              /\ e.path = f /\ e.text = objects[ProjectOf[job[w]]][f]
              /\ input' = [input EXCEPT ![job[w]].tree = Append(@, e)]
        BY <1>1, <1>7, <2>1, <3>1, EntryFetched
      <4> QED
      BY <2>1, <4>1
    <3>3. /\ i.tree \in Seq(Entry)
          /\ input'[j].tree = Append(i.tree, e) /\ input'[j].main = i.main
      BY <1>1, <3>2
    <3>4. Read(j)' = Read(j) \cup {<<f, body>>}
      BY <3>2, <3>3, FilesAppend DEF Read
    <3>5. MainRead(j)'
      BY <1>2, <2>1, <3>3 DEF MainRead
    <3>6. rows[p] \ todo'[w] = (rows[p] \ todo[w]) \cup {f}
      BY <2>1, <3>1
    <3>7. Read(j)' = FilesIn(p, rows[p] \ todo[w])'
      <4>1. Read(j)' = FilesIn(p, (rows[p] \ todo[w]) \cup {f})
        BY <2>1, <3>4 DEF FilesIn
      <4> QED
      BY <1>2, <3>6, <4>1 DEF FilesIn
    <3>8. todo'[w] \subseteq rows'[p]
      BY <1>2, <2>1, <3>1
    <3>9. CASE todo[w] = {f}
      <4>1. rows'[p] \ todo'[w] = rows'[p]
        BY <3>1, <3>9
      <4>2. Read(j)' = FilesIn(p, rows[p])'
        BY <3>7, <4>1 DEF FilesIn
      <4> QED
      BY <3>1, <3>5, <3>9, <4>2 DEF Whole
    <3> QED
    BY <3>1, <3>5, <3>7, <3>8, <3>9
  <2> QED
  BY <2>2, <2>3
<1>8. CASE CacheHit(w) \/ CacheMiss(w) \/ CopyPdf(w) \/ CopySynctex(w) \/ Build(w)
           \/ PutSynctex(w) \/ SaveBuilt(w) \/ RememberCache(w)
  <2>1. job[w] = j /\ input' = input /\ pc[w] \in PastRead
    BY <1>8 DEF CacheHit, CacheMiss, CopyPdf, CopySynctex, Build, PutSynctex, SaveBuilt,
       RememberCache, At
  <2>2. pc'[w] \in PastRead \cup {"finish", "fail"}
    BY <1>1, <1>8 DEF CacheHit, CacheMiss, CopyPdf, CopySynctex, Build, PutSynctex, SaveBuilt,
       RememberCache, Goto
  <2> QED
  BY <1>3, <2>1, <2>2
<1> QED
  BY <1>4, <1>5, <1>6, <1>7, <1>8 DEF WorkerStep

LEMMA NextGathered == IInv /\ Gathered /\ [Next]_vars => Gathered'
<1> SUFFICES ASSUME IInv, Gathered, [Next]_vars PROVE Gathered'
  OBVIOUS
<1>1. /\ TypeOK /\ HeldOnce /\ OpenWhileHeld /\ TypeOK' /\ OpenWhileHeld'
      /\ misread \subseteq misread'
  BY NextIInv, MisreadFrame DEF IInv
<1>2. ASSUME NEW j \in steady', ~Insert(j), input'[j] = input[j]
      PROVE  Read(j)' = Read(j) /\ (MainRead(j)' <=> MainRead(j)) /\ (Whole(j)' <=> Whole(j))
  BY <1>1, <1>2, SteadyKeeps DEF Read, MainRead, Whole, FilesIn
<1>3. ASSUME NEW j \in steady' PROVE ProjectOf[j] \in live'
  <2>1. CASE Insert(j)
    BY <2>1 DEF Insert
  <2>2. CASE ~Insert(j)
    BY <1>1, <1>3, <2>2, SteadyKeeps DEF Gathered
  <2> QED
  BY <2>1, <2>2
<1>4. ASSUME NEW w \in Workers, NEW j \in steady' \ misread', job'[w] = j
      PROVE  Gathering(w, j)'
  <2> DEFINE p == ProjectOf[j]
  <2>1. j \in Jobs
    BY <1>1, <1>4 DEF TypeOK, DataType
  <2>2. CASE Insert(j)
    <3>1. job' = job /\ row[j].status = "none"
      BY <2>2 DEF Insert
    <3> QED
    BY <1>1, <1>4, <2>1, <3>1, NoneAssumption DEF OpenWhileHeld
  <2>3. CASE ~Insert(j) /\ WorkerStep(w)
    <3>1. j \in steady \ misread' /\ p \in live
      BY <1>1, <1>4, <2>3, SteadyKeeps DEF Gathered
    <3>2. job[w] = j => Gathering(w, j)
      BY <1>1, <3>1 DEF Gathered
    <3> QED
    BY <1>4, <2>3, <3>1, <3>2, GatherStep
  <2>4. CASE ~Insert(j) /\ job'[w] = job[w] /\ pc'[w] = pc[w] /\ todo'[w] = todo[w]
             /\ input'[j] = input[j]
    <3>1. j \in steady /\ Gathering(w, j)
      BY <1>1, <1>4, <2>4, SteadyKeeps DEF Gathered
    <3>2. rows'[p] = rows[p] /\ objects'[p] = objects[p]
      BY <1>1, <1>4, <2>4, SteadyKeeps
    <3>3. Read(j)' = Read(j) /\ (MainRead(j)' <=> MainRead(j)) /\ (Whole(j)' <=> Whole(j))
      BY <1>2, <1>4, <2>4
    <3>4. pc'[w] = pc[w] /\ todo'[w] = todo[w]
      BY <2>4
    <3> QED
    BY <3>1, <3>2, <3>3, <3>4 DEF Gathering, FilesIn
  <2>5. CASE pc'[w] \in {"stopped", "idle"}
    BY <2>5 DEF Gathering, PastRead
  <2>6. ASSUME NEW v \in Workers, v # w, WorkerStep(v)
        PROVE  job'[w] = job[w] /\ pc'[w] = pc[w] /\ todo'[w] = todo[w] /\ input'[j] = input[j]
    <3>1. job'[w] = job[w] /\ pc'[w] = pc[w] /\ todo'[w] = todo[w]
      BY <1>1, <2>6 DEF TypeOK, WorkerType, WorkerStep, Take, WorkerExit, Lookup, LookupFails,
         Begin, ReadMain, ListFiles, FetchFile, CacheHit, CacheMiss, CopyPdf, CopySynctex,
         SaveHit, BuildFails, Build, PutSynctex, SaveBuilt, RememberCache, Fail, Finish,
         Return, Goto
    <3>2. job[v] # j
      BY <1>1, <1>4, <2>1, <2>6, <3>1, OneWorker
    <3>3. input' = input \/ \E t : input' = [input EXCEPT ![job[v]] = t]
      BY <2>6 DEF WorkerStep, Take, WorkerExit, Lookup, LookupFails,
         Begin, ReadMain, ListFiles, FetchFile, CacheHit, CacheMiss, CopyPdf, CopySynctex,
         SaveHit, BuildFails, Build, PutSynctex, SaveBuilt, RememberCache, Fail, Finish
    <3> QED
    BY <1>1, <2>1, <3>1, <3>2, <3>3 DEF TypeOK, DataType
  <2>7. CASE UNCHANGED <<workVars, input>>
    BY <2>2, <2>4, <2>7
  <2>8. CASE Stop \/ Restart
    BY <2>5, <2>8 DEF Stop, Restart
  <2>9. ASSUME NEW v \in Workers, WorkerStep(v) PROVE Gathering(w, j)'
    BY <2>2, <2>3, <2>4, <2>6, <2>9
  <2> QED
  BY <2>7, <2>8, <2>9 DEF Next, Insert, Enqueue, SendOverflow, PutObject,
     UpsertFileRow, DeleteFileRow, SetMain, DeleteProject, Edit, Shutdown, ExpireCache
<1>5. ASSUME NEW j \in steady' \ misread', row'[j].status = "success" PROVE Whole(j)'
  <2>1. j \in Jobs /\ RowMoves(j)
    BY <1>1, <1>5, RowStep DEF TypeOK, DataType
  <2>2. ~Insert(j)
    BY <1>1, <1>5, <2>1 DEF Insert, TypeOK, DataType
  <2>3. j \in steady \ misread
    BY <1>1, <1>5, <2>2, SteadyKeeps
  <2>4. CASE row'[j] = row[j]
    <3>1. Whole(j)
      BY <1>5, <2>3, <2>4 DEF Gathered
    <3>2. input'[j] = input[j]
      BY <1>1, <1>5, <2>1, <2>4, InputStep DEF OpenWhileHeld, BeforeEnd
    <3> QED
    BY <1>2, <2>2, <3>1, <3>2
  <2>5. ASSUME NEW w \in Workers, Ends(w, j) PROVE Whole(j)'
    <3>1. job[w] = j /\ (SaveHit(w) \/ SaveBuilt(w))
      BY <1>5, <2>5 DEF Ends
    <3>2. pc[w] \in PastRead /\ input' = input
      BY <3>1 DEF SaveHit, SaveBuilt, At, PastRead
    <3>3. Whole(j)
      BY <2>3, <3>1, <3>2 DEF Gathered, Gathering
    <3> QED
    BY <1>2, <2>2, <3>2, <3>3
  <2> QED
  BY <1>5, <2>1, <2>2, <2>4, <2>5 DEF RowMoves
<1> QED
  BY <1>3, <1>4, <1>5 DEF Gathered

\* No two trees have the same bytes. The hash puts nothing between paths and contents, so
\* this speaks of what the files hold: it is so when path and content can be told from the
\* bytes, as with texts none of which continues another.
NoCollisions ==
  \A t, u \in Seq(Entry) :
    ReadWhole(t) /\ ReadWhole(u) /\ Fingerprint(t) = Fingerprint(u) => FilesOf(t) = FilesOf(u)

\* When nobody edits a project from the request on, the PDF a job reports is of exactly its
\* files and its main file, compiled or from the cache, whatever other jobs, failures and
\* restarts there are: but for the errors the code does not look at, in the job's own
\* SELECTs, or in a ReadFile of its run or of the run that compiled the PDF
\* (materializeProject, runJob).
THEOREM AnswersAreFresh ==
  ASSUME NoCollisions
  PROVE  Spec => []FreshPdf
<1>1. Init => Gathered
  BY NoneAssumption DEF Init, Gathered
<1>2. IInv /\ Gathered => FreshPdf
  <2> SUFFICES ASSUME IInv, Gathered, NEW j \in steady \ misread, row[j].status = "success",
                      ReadWhole(input[j].tree), ReadWhole(pdfObject[j].tree)
               PROVE  LET p == ProjectOf[j]
                          o == pdfObject[j]
                      IN /\ FilesOf(o.tree) = {<<f, objects[p][f]>> : f \in rows[p]}
                         /\ o.main = mainTex[p]
                         /\ o.options = OptionsOf[j]
    BY DEF FreshPdf
  <2> DEFINE o == pdfObject[j]
             i == input[j]
  <2>1. j \in Jobs /\ Whole(j)
    BY DEF IInv, TypeOK, DataType, Gathered
  <2>2. /\ o # None /\ Fingerprint(o.tree) = Fingerprint(i.tree) /\ o.main = i.main
        /\ o.options = OptionsOf[j]
    BY <2>1 DEF IInv, SuccessHasPdf, PdfKey
  <2>3. o.tree \in Seq(Entry) /\ i.tree \in Seq(Entry)
    BY <2>1, <2>2 DEF IInv, TypeOK, DataType, Pdf
  <2>4. FilesOf(o.tree) = Read(j)
    BY <2>2, <2>3 DEF NoCollisions, Read
  <2> QED
  BY <2>1, <2>2, <2>4 DEF Whole, MainRead, FilesIn
<1> QED
  BY <1>1, <1>2, Inductive, NextGathered, PTL DEF Spec

-----------------------------------------------------------------------------
(* The compile pipeline implements the lifecycle clients rely on: every    *)
(* step of CompileManager is a step of CompileJob or changes nothing a     *)
(* client can see.                                                         *)
(*                                                                         *)
(* The invariant. CompileJob announces a job once and after its end, while *)
(* the pipeline's Finish has neither guard: a job that was announced has   *)
(* left the pipeline and does not come back (ToldOnce), and a worker past  *)
(* the last UPDATE has a job that ended, unless updates get lost           *)
(* (EndedAtFinish).                                                        *)

Ended == Terminal \cup {"deleted"}

ToldOnce ==
  \A j \in finished :
    row[j].status # "none" /\ j \notin Waiting /\ \A w \in Workers : job[w] # j

EndedAtFinish ==
  ~Faulty("db") =>
    \A w \in Workers :
      pc[w] \in {"remember", "finish"} => row[job[w]].status \in Ended

RInv == IInv /\ ToldOnce /\ EndedAtFinish /\ AnnouncedAfterEnd

LEMMA FinishedFrame ==
  ASSUME [Next]_vars
  PROVE  UNCHANGED finished \/ \E w \in Workers : Finish(w)
  BY DEF Next, WorkerStep, Insert, Enqueue, SendOverflow, Take, WorkerExit,
     Lookup, LookupFails, Begin, ReadMain, ListFiles, FetchFile, CacheHit,
     CacheMiss, CopyPdf, CopySynctex, SaveHit, BuildFails, Build, PutSynctex,
     SaveBuilt, RememberCache, Fail, PutObject, UpsertFileRow, DeleteFileRow,
     SetMain, DeleteProject, Edit, Shutdown, Stop, Restart, ExpireCache

\* The tail of runJob is reached through the last UPDATE only.
LEMMA TailFlow ==
  ASSUME TypeOK, [Next]_vars, NEW w \in Workers,
         pc'[w] \in {"remember", "finish"}
  PROVE  /\ job'[w] = job[w]
         /\ \/ pc[w] \in {"remember", "finish"}
            \/ SaveHit(w) \/ SaveBuilt(w) \/ Fail(w)
<1> USE DEF TypeOK, WorkerType
<1>1. ASSUME NEW v \in Workers, WorkerStep(v)
      PROVE  /\ job'[w] = job[w]
             /\ \/ pc[w] \in {"remember", "finish"}
                \/ SaveHit(w) \/ SaveBuilt(w) \/ Fail(w)
  BY <1>1 DEF WorkerStep, Take, WorkerExit, Lookup, LookupFails, Begin,
     ReadMain, ListFiles, FetchFile, CacheHit, CacheMiss, CopyPdf,
     CopySynctex, SaveHit, BuildFails, Build, PutSynctex, SaveBuilt,
     RememberCache, Fail, Finish, Return, At, Goto
<1>2. CASE UNCHANGED workVars
  BY <1>2
<1>3. CASE Stop \/ Restart
  BY <1>3 DEF Stop, Restart
<1> QED
  BY <1>1, <1>2, <1>3 DEF Next, Insert, Enqueue, SendOverflow, PutObject,
     UpsertFileRow, DeleteFileRow, SetMain, DeleteProject, Edit, Shutdown,
     ExpireCache

LEMMA NextToldOnce == IInv /\ ToldOnce /\ [Next]_vars => ToldOnce'
<1> SUFFICES ASSUME IInv, ToldOnce, [Next]_vars, NEW j \in finished'
             PROVE  /\ row'[j].status # "none" /\ j \notin Waiting'
                    /\ \A w \in Workers : job'[w] # j
  BY DEF ToldOnce
<1>1. TypeOK /\ HeldOnce /\ OpenWhileHeld
  BY DEF IInv
<1>2. CASE j \in finished
  <2>1. /\ j \in Jobs /\ row[j].status # "none" /\ j \notin Waiting
        /\ \A w \in Workers : job[w] # j
    BY <1>1, <1>2 DEF ToldOnce, TypeOK, DataType
  <2>2. row'[j].status # "none"
    BY <1>1, <2>1, RowStep DEF RowMoves, Ends
  <2>3. j \notin Waiting'
    BY <1>1, <2>1, WaitingStep DEF Insert
  <2>4. ASSUME NEW w \in Workers PROVE job'[w] # j
    <3>1. CASE Take(w)
      <4>1. job'[w] \in Waiting
        BY <1>1, <3>1, TakeFacts DEF Take, Waiting, TypeOK, WorkerType
      <4> QED
      BY <2>1, <4>1
    <3>2. CASE ~Take(w)
      <4>1. job'[w] \in {job[w], None}
        BY <1>1, <3>2, ControlFlow DEF Moves
      <4> QED
      BY <2>1, <4>1, NoneAssumption
    <3> QED
    BY <3>1, <3>2
  <2> QED
  BY <2>2, <2>3, <2>4
<1>3. ASSUME NEW w \in Workers, Finish(w), j = job[w]
      PROVE  /\ row'[j].status # "none" /\ j \notin Waiting'
             /\ \A v \in Workers : job'[v] # j
  <2>1. j \in Jobs
    BY <1>1, <1>3, BusyHasJob DEF Finish, At
  <2>2. row' = row /\ Waiting' = Waiting /\ job' = [job EXCEPT ![w] = None]
    BY <1>3 DEF Finish, Return, Waiting, InChan
  <2>3. row[j].status # "none"
    BY <1>1, <1>3, <2>1, NoneAssumption DEF OpenWhileHeld
  <2>4. j \notin Waiting
    BY <1>1, <1>3, WaitingNotInHand
  <2>5. \A v \in Workers : job'[v] # j
    BY <1>1, <1>3, <2>1, <2>2, OneWorker, NoneAssumption
       DEF TypeOK, WorkerType
  <2> QED
  BY <2>2, <2>3, <2>4, <2>5
<1> QED
  BY <1>2, <1>3, FinishedFrame DEF Finish

\* A row that ended is only moved by the worker that has its job, before its
\* last UPDATE.
LEMMA EndedStays ==
  ASSUME TypeOK, OpenWhileHeld, [Next]_vars, NEW j \in Jobs,
         row[j].status \in Ended,
         \A w \in Workers : job[w] = j => pc[w] \notin BeforeEnd
  PROVE  row'[j].status \in Ended
  BY RowStep DEF RowMoves, Ends, Ended

LEMMA NextEndedAtFinish == IInv /\ EndedAtFinish /\ [Next]_vars => EndedAtFinish'
<1> SUFFICES ASSUME IInv, EndedAtFinish, [Next]_vars, ~Faulty("db"),
                    NEW w \in Workers, pc'[w] \in {"remember", "finish"}
             PROVE  row'[job'[w]].status \in Ended
  BY DEF EndedAtFinish, Faulty
<1>1. TypeOK /\ HeldOnce /\ OpenWhileHeld
  BY DEF IInv
<1>2. /\ job'[w] = job[w]
      /\ \/ pc[w] \in {"remember", "finish"}
         \/ SaveHit(w) \/ SaveBuilt(w) \/ Fail(w)
  BY <1>1, TailFlow
<1>3. job[w] \in Jobs
  BY <1>1, <1>2, BusyHasJob DEF SaveHit, SaveBuilt, Fail, At
<1>4. CASE pc[w] \in {"remember", "finish"}
  <2>1. \A v \in Workers : job[v] = job[w] => pc[v] \notin BeforeEnd
    BY <1>1, <1>3, <1>4, OneWorker DEF BeforeEnd
  <2> QED
  BY <1>1, <1>2, <1>3, <1>4, <2>1, EndedStays DEF EndedAtFinish
<1>5. CASE SaveHit(w) \/ SaveBuilt(w)
  <2>1. Done(w).status = "success"
    BY DEF Done
  <2>2. \/ row' = row /\ row[job[w]].status = "deleted"
        \/ row' = [row EXCEPT ![job[w]] = Done(w)]
    BY <1>5 DEF SaveHit, SaveBuilt, Update
  <2> QED
  BY <1>1, <1>2, <1>3, <2>1, <2>2 DEF Ended, TypeOK, DataType
<1>6. CASE Fail(w)
  <2>1. [row[job[w]] EXCEPT !.status = "failed"].status = "failed"
    BY <1>1, <1>3 DEF TypeOK, DataType
  <2>2. \/ row' = row /\ row[job[w]].status = "deleted"
        \/ row' = [row EXCEPT ![job[w]] = [row[job[w]] EXCEPT !.status = "failed"]]
    BY <1>6 DEF Fail, Update
  <2> QED
  BY <1>1, <1>2, <1>3, <2>1, <2>2 DEF Ended, TypeOK, DataType
<1> QED
  BY <1>2, <1>4, <1>5, <1>6

LEMMA NextAnnounced ==
  ASSUME RInv, [Next]_vars
  PROVE  AnnouncedAfterEnd'
<1> SUFFICES ASSUME ~Faulty("db"), NEW j \in finished'
             PROVE  row'[j].status \in Ended
  BY DEF AnnouncedAfterEnd, Ended, Faulty
<1>1. /\ TypeOK /\ OpenWhileHeld /\ ToldOnce /\ EndedAtFinish
      /\ \A i \in finished : row[i].status \in Ended
  BY DEF RInv, IInv, AnnouncedAfterEnd, Ended
<1>2. CASE j \in finished
  BY <1>1, <1>2, EndedStays DEF ToldOnce, TypeOK, DataType
<1>3. ASSUME NEW w \in Workers, Finish(w), j = job[w]
      PROVE  row'[j].status \in Ended
  BY <1>1, <1>3 DEF Finish, At, EndedAtFinish
<1> QED
  BY <1>2, <1>3, FinishedFrame DEF Finish

LEMMA InitRInv == Init => RInv
<1> SUFFICES ASSUME Init PROVE RInv
  OBVIOUS
<1>1. ToldOnce /\ EndedAtFinish /\ AnnouncedAfterEnd
  BY DEF Init, ToldOnce, EndedAtFinish, AnnouncedAfterEnd
<1> QED
  BY <1>1, InitIInv DEF RInv

LEMMA NextRInv == RInv /\ [Next]_vars => RInv'
  BY NextIInv, NextToldOnce, NextEndedAtFinish, NextAnnounced DEF RInv

LEMMA RInductive == Spec => []RInv
<1> QED
  BY InitRInv, NextRInv, PTL DEF Spec

-----------------------------------------------------------------------------
(* The steps, as clients see them.                                          *)

USE DEF Client!vars, Client!Terminal, Client!Open

Shown == [i \in Jobs |-> row[i].status]

\* A job's UPDATE that is applied sets its status and nothing else a client sees.
LEMMA UpdateShown ==
  ASSUME TypeOK, NEW j \in Jobs, NEW new, Update(j, new)
  PROVE  \/ row' = row
         \/ Shown' = [Shown EXCEPT ![j] = new.status] /\ Shown[j] # "deleted"
  BY DEF Update, Shown, TypeOK, DataType

LEMMA InsertRefines ==
  ASSUME TypeOK, NEW j \in Jobs, Insert(j)
  PROVE  Client!Submit(j)
<1>1. row' = [row EXCEPT ![j].status = "queued"] /\ row[j].status = "none"
  BY DEF Insert
<1>2. row[j] \in Row /\ [row[j] EXCEPT !.status = "queued"].status = "queued"
  BY DEF TypeOK, DataType
<1>3. Shown' = [Shown EXCEPT ![j] = "queued"]
  BY <1>1, <1>2 DEF Shown, TypeOK, DataType
<1> QED
  BY <1>1, <1>3 DEF Insert, Client!Submit, Shown

\* Begin is the start of a queued job; of a running one it would change nothing.
LEMMA BeginRefines ==
  ASSUME IInv, NEW w \in Workers, Begin(w)
  PROVE  Client!Start(job[w]) \/ UNCHANGED Client!vars
<1>1. TypeOK /\ OpenWhileHeld /\ job[w] \in Jobs
  BY BusyHasJob DEF IInv, Begin, At
<1>2. row[job[w]] \in Row /\ row[job[w]].status \notin Terminal \cup {"none"}
  BY <1>1, NoneAssumption DEF Begin, At, OpenWhileHeld, BeforeEnd, TypeOK, DataType
<1>3. [row[job[w]] EXCEPT !.status = "running"].status = "running"
  BY <1>2
<1>4. \/ row' = row
      \/ Shown' = [Shown EXCEPT ![job[w]] = "running"] /\ Shown[job[w]] # "deleted"
  BY <1>1, <1>3, UpdateShown DEF Begin
<1>5. UNCHANGED <<pdfObject, finished>>
  BY DEF Begin
<1>6. CASE row' = row
  BY <1>5, <1>6 DEF Shown
<1>7. CASE Shown' = [Shown EXCEPT ![job[w]] = "running"] /\ row[job[w]].status = "queued"
  BY <1>1, <1>5, <1>7 DEF Client!Start, Shown
<1>8. CASE Shown' = [Shown EXCEPT ![job[w]] = "running"] /\ row[job[w]].status = "running"
  <2>1. Shown' = Shown
    BY <1>1, <1>8 DEF Shown
  <2> QED
  BY <1>5, <2>1 DEF Shown
<1> QED
  BY <1>1, <1>2, <1>4, <1>6, <1>7, <1>8 DEF Shown

LEMMA SaveRefines ==
  ASSUME IInv, NEW w \in Workers, SaveHit(w) \/ SaveBuilt(w)
  PROVE  Client!Succeed(job[w]) \/ UNCHANGED Client!vars
<1>1. TypeOK /\ OpenWhileHeld /\ RunSound /\ job[w] \in Jobs
  BY BusyHasJob DEF IInv, SaveHit, SaveBuilt, At
<1>2. row[job[w]] \in Row /\ row[job[w]].status \notin Terminal \cup {"none"}
  BY <1>1, NoneAssumption
     DEF SaveHit, SaveBuilt, At, OpenWhileHeld, BeforeEnd, TypeOK, DataType
<1>3. pdfObject[job[w]] # None
  BY <1>1 DEF SaveHit, SaveBuilt, At, RunSound, Holds
<1>4. \/ row' = row
      \/ Shown' = [Shown EXCEPT ![job[w]] = "success"] /\ Shown[job[w]] # "deleted"
  <2>1. Done(w).status = "success" /\ Update(job[w], Done(w))
    BY DEF SaveHit, SaveBuilt, Done
  <2> QED
  BY <1>1, <2>1, UpdateShown
<1>5. UNCHANGED <<pdfObject, finished>>
  BY DEF SaveHit, SaveBuilt
<1> QED
  BY <1>1, <1>2, <1>3, <1>4, <1>5 DEF Client!Succeed, Shown

LEMMA FailRefines ==
  ASSUME IInv, NEW w \in Workers, Fail(w) \/ LookupFails(w)
  PROVE  Client!FailJob(job[w]) \/ UNCHANGED Client!vars
<1>1. TypeOK /\ OpenWhileHeld /\ job[w] \in Jobs
  BY BusyHasJob DEF IInv, Fail, LookupFails, At
<1>2. row[job[w]] \in Row /\ row[job[w]].status \notin Terminal \cup {"none"}
  BY <1>1, NoneAssumption
     DEF Fail, LookupFails, At, OpenWhileHeld, BeforeEnd, TypeOK, DataType
<1>3. \/ row' = row
      \/ Shown' = [Shown EXCEPT ![job[w]] = "failed"] /\ Shown[job[w]] # "deleted"
  <2>1. [row[job[w]] EXCEPT !.status = "failed"].status = "failed"
    BY <1>2
  <2> QED
  BY <1>1, <2>1, UpdateShown DEF Fail, LookupFails
<1>4. UNCHANGED <<pdfObject, finished>>
  BY DEF Fail, LookupFails
<1> QED
  BY <1>1, <1>2, <1>3, <1>4 DEF Client!FailJob, Shown

\* A copied PDF and a compiled one are both the PDF of the job, also the one put
\* over the other.
LEMMA StoreRefines ==
  ASSUME IInv, NEW w \in Workers, CopyPdf(w) \/ Build(w)
  PROVE  Client!StorePdf(job[w]) \/ UNCHANGED Client!vars
<1>1. TypeOK /\ OpenWhileHeld /\ job[w] \in Jobs
  BY BusyHasJob DEF IInv, CopyPdf, Build, At
<1>2. row[job[w]] \in Row /\ row[job[w]].status \notin Terminal \cup {"none"}
  BY <1>1, NoneAssumption
     DEF CopyPdf, Build, At, OpenWhileHeld, BeforeEnd, TypeOK, DataType
<1>4. UNCHANGED <<row, finished>>
  BY DEF CopyPdf, Build
<1>5. CASE pdfObject' = pdfObject
  BY <1>4, <1>5
<1>6. ASSUME NEW o, o # None, pdfObject' = [pdfObject EXCEPT ![job[w]] = o]
      PROVE  Client!StorePdf(job[w]) \/ UNCHANGED Client!vars
  <2>1. {i \in Jobs : pdfObject'[i] # None} =
          {i \in Jobs : pdfObject[i] # None} \cup {job[w]}
    BY <1>1, <1>6 DEF TypeOK, DataType
  <2>2. CASE pdfObject[job[w]] = None
    BY <1>1, <1>2, <1>4, <2>1, <2>2 DEF Client!StorePdf
  <2>3. CASE pdfObject[job[w]] # None
    <3>1. {i \in Jobs : pdfObject'[i] # None} = {i \in Jobs : pdfObject[i] # None}
      BY <1>1, <2>1, <2>3
    <3> QED
    BY <1>4, <3>1
  <2> QED
  BY <2>2, <2>3
<1>7. CASE CopyPdf(w)
  BY <1>5, <1>6, <1>7 DEF CopyPdf
<1>8. CASE Build(w)
  <2>1. PICK up \in BOOLEAN : pdfObject' = [pdfObject EXCEPT ![job[w]] =
          [tree |-> input[job[w]].tree, main |-> input[job[w]].main,
           options |-> OptionsOf[job[w]], uploaded |-> up]]
    BY <1>8 DEF Build
  <2>2. [tree |-> input[job[w]].tree, main |-> input[job[w]].main,
         options |-> OptionsOf[job[w]], uploaded |-> up] \in Pdf
    <3>1. input[job[w]] \in [tree: Seq(Entry), main: Paths]
      BY <1>1 DEF TypeOK, DataType
    <3> QED
    BY <1>1, <3>1, RequestAssumption DEF Pdf
  <2> QED
  BY <1>6, <2>1, <2>2, NoneAssumption
<1> QED
  BY <1>7, <1>8

LEMMA FinishRefines ==
  ASSUME RInv, NEW w \in Workers, Finish(w)
  PROVE  Client!Announce(job[w])
<1>1. TypeOK /\ OpenWhileHeld /\ ToldOnce /\ EndedAtFinish /\ job[w] \in Jobs
  BY BusyHasJob DEF RInv, IInv, Finish, At
<1>2. job[w] \notin finished
  BY <1>1 DEF ToldOnce
<1>3. row[job[w]] \in Row /\ row[job[w]].status # "none"
  BY <1>1, NoneAssumption DEF OpenWhileHeld, TypeOK, DataType
<1>4. ~Faulty("db") => row[job[w]].status \in Ended
  BY <1>1 DEF EndedAtFinish, Finish, At
<1>5. row[job[w]].status \in Terminal \cup {"deleted"} \cup
        (IF "db" \in Faults THEN {"queued", "running"} ELSE {})
  BY <1>3, <1>4 DEF Faulty, Ended
<1>6. UNCHANGED <<row, pdfObject>> /\ finished' = finished \cup {job[w]}
  BY DEF Finish
<1> QED
  BY <1>1, <1>2, <1>5, <1>6 DEF Client!Announce

\* A project without jobs goes unseen.
LEMMA DeleteRefines ==
  ASSUME TypeOK, NEW p \in Projects, DeleteProject(p)
  PROVE  (\E j \in Jobs : Client!Purge(ProjectOf[j])) \/ UNCHANGED Client!vars
<1>1. UNCHANGED <<pdfObject, finished>>
  BY DEF DeleteProject, Edit
<1>2. Shown' = [i \in Jobs |-> IF ProjectOf[i] = p /\ Shown[i] # "none"
                               THEN "deleted" ELSE Shown[i]]
  BY DEF DeleteProject, Shown, JobsOf, TypeOK, DataType
<1>3. ASSUME NEW j \in Jobs, ProjectOf[j] = p PROVE Client!Purge(ProjectOf[j])
  BY <1>1, <1>2, <1>3 DEF Client!Purge, Shown
<1>4. CASE \A j \in Jobs : ProjectOf[j] # p
  BY <1>1, <1>2, <1>4 DEF Shown
<1> QED
  BY <1>3, <1>4

\* Every step of the pipeline is a step of the lifecycle or is not seen.
LEMMA StepRefines == RInv /\ [Next]_vars => [Client!Next]_(Client!vars)
<1> SUFFICES ASSUME RInv, [Next]_vars
             PROVE  Client!Next \/ UNCHANGED Client!vars
  OBVIOUS
<1> HIDE DEF Client!vars
<1>1. IInv /\ TypeOK
  BY DEF RInv, IInv
<1>2. ASSUME NEW w \in Workers,
             \/ Begin(w) \/ SaveHit(w) \/ SaveBuilt(w) \/ Fail(w) \/ LookupFails(w)
             \/ CopyPdf(w) \/ Build(w) \/ Finish(w)
      PROVE  job[w] \in Jobs
  BY <1>1, <1>2, BusyHasJob DEF Begin, SaveHit, SaveBuilt, Fail, LookupFails,
     CopyPdf, Build, Finish, At
<1>3. ASSUME NEW j \in Jobs, Insert(j) PROVE Client!Next
  BY <1>1, <1>3, InsertRefines DEF Client!Next
<1>4. ASSUME NEW w \in Workers, Begin(w)
      PROVE  Client!Next \/ UNCHANGED Client!vars
  <2>1. job[w] \in Jobs
    BY <1>2, <1>4
  <2>2. Client!Start(job[w]) \/ UNCHANGED Client!vars
    BY <1>1, <1>4, BeginRefines
  <2>3. Client!Start(job[w]) => Client!Next
    BY <2>1 DEF Client!Next, Client!Start
  <2> QED
    BY <2>2, <2>3
<1>5. ASSUME NEW w \in Workers, SaveHit(w) \/ SaveBuilt(w)
      PROVE  Client!Next \/ UNCHANGED Client!vars
  <2>1. job[w] \in Jobs
    BY <1>2, <1>5
  <2>2. Client!Succeed(job[w]) \/ UNCHANGED Client!vars
    BY <1>1, <1>5, SaveRefines
  <2>3. Client!Succeed(job[w]) => Client!Next
    BY <2>1 DEF Client!Next, Client!Succeed
  <2> QED
    BY <2>2, <2>3
<1>6. ASSUME NEW w \in Workers, Fail(w) \/ LookupFails(w)
      PROVE  Client!Next \/ UNCHANGED Client!vars
  <2>1. job[w] \in Jobs
    BY <1>2, <1>6
  <2>2. Client!FailJob(job[w]) \/ UNCHANGED Client!vars
    BY <1>1, <1>6, FailRefines
  <2>3. Client!FailJob(job[w]) => Client!Next
    BY <2>1 DEF Client!Next, Client!FailJob
  <2> QED
    BY <2>2, <2>3
<1>7. ASSUME NEW w \in Workers, CopyPdf(w) \/ Build(w)
      PROVE  Client!Next \/ UNCHANGED Client!vars
  <2>1. job[w] \in Jobs
    BY <1>2, <1>7
  <2>2. Client!StorePdf(job[w]) \/ UNCHANGED Client!vars
    BY <1>1, <1>7, StoreRefines
  <2>3. Client!StorePdf(job[w]) => Client!Next
    BY <2>1 DEF Client!Next, Client!StorePdf
  <2> QED
    BY <2>2, <2>3
<1>8. ASSUME NEW w \in Workers, Finish(w) PROVE Client!Next
  BY <1>2, <1>8, FinishRefines DEF Client!Next
<1>9. ASSUME NEW p \in Projects, DeleteProject(p)
      PROVE  Client!Next \/ UNCHANGED Client!vars
  BY <1>1, <1>9, DeleteRefines DEF Client!Next
<1>10. CASE UNCHANGED <<row, pdfObject, finished>>
  BY <1>10 DEF Client!vars
<1> QED
  BY <1>3, <1>4, <1>5, <1>6, <1>7, <1>8, <1>9, <1>10, RowFrame, PdfFrame, FinishedFrame

LEMMA InitRefines == Init => Client!Init
  BY DEF Init, Client!Init

-----------------------------------------------------------------------------
(* The theorems.                                                            *)

\* While Postgres answers, compile_done is published for jobs whose row has
\* its final status, or is gone (the deferred OnFinish of runJob).
THEOREM AnnouncedLast == Spec => []AnnouncedAfterEnd
<1>1. RInv => AnnouncedAfterEnd
  BY DEF RInv
<1> QED
  BY <1>1, RInductive, PTL

\* What the API shows of a job is the lifecycle of CompileJob: queued, maybe
\* running, a PDF before a success, one end, then one message (runJob).
THEOREM PipelineImplementsJob == Spec => ClientSpec
<1> QED
  BY InitRefines, StepRefines, RInductive, PTL DEF Spec, ClientSpec, Client!Spec

-----------------------------------------------------------------------------
(* The limiter.  A call that is let in finds, among the calls of the last  *)
(* window that were let in before it, only ones the key has counted: those *)
(* made before the key was last dropped are a window old, because the      *)
(* expiry is never earlier than a window after a call that was let in.     *)

Allowed(k) == Got(k) = "allowed"

\* The calls let in after the first b.
AllowedAfter(b) == {k \in (b + 1)..Len(calls) : Allowed(k)}

\* The key outlives the window of every call it let in.
Outlived == \A k \in DOMAIN calls :
  Allowed(k) => Made(k) + Window <= now \/ (count > 0 /\ Made(k) + Window <= expires)

\* The calls whose window is not over are counted.
CountedIn == \E b \in 0..Len(calls) :
  /\ \A k \in 1..b : Allowed(k) => Made(k) + Window <= now
  /\ Cardinality(AllowedAfter(b)) <= count

\* The expiry is a window after some call.
SetByCall == count > 0 => \E k \in DOMAIN calls : Made(k) + Window = expires

LimiterIInv ==
  /\ LimiterTypeOK
  /\ Outlived
  /\ CountedIn
  /\ SetByCall
  /\ AtMostLimit
  /\ QuietCallerAllowed

-----------------------------------------------------------------------------
\* The calls let in after the first b are finitely many.
LEMMA AllowedFinite ==
  ASSUME LimiterTypeOK, NEW b \in Nat
  PROVE  IsFiniteSet(AllowedAfter(b)) /\ Cardinality(AllowedAfter(b)) \in Nat
<1>1. Len(calls) \in Nat /\ b + 1 \in Int
  BY DEF LimiterTypeOK
<1>2. IsFiniteSet((b + 1)..Len(calls))
  BY <1>1, FS_Interval
<1>. QED
  BY <1>2, FS_Subset, FS_CardinalityType DEF AllowedAfter

\* What the types say, in the form the steps below use.
LEMMA CallsTyped ==
  ASSUME LimiterTypeOK
  PROVE  /\ now \in Nat /\ count \in Nat /\ expires \in Int
         /\ Len(calls) \in Nat /\ DOMAIN calls = 1..Len(calls)
         /\ \A k \in DOMAIN calls : calls[k].at \in Int
<1>. USE LimitAssumption
<1>1. now \in Nat /\ count \in Nat /\ expires \in Int
  BY DEF LimiterTypeOK
<1>2. calls \in Seq([at: 0..Horizon, answer: {"allowed", "refused", "error"}])
  BY DEF LimiterTypeOK
<1>3. Len(calls) \in Nat /\ DOMAIN calls = 1..Len(calls)
  BY <1>2
<1>4. \A k \in DOMAIN calls : calls[k].at \in Int
  <2>. SUFFICES ASSUME NEW k \in DOMAIN calls PROVE calls[k].at \in Int
    OBVIOUS
  <2>1. calls[k] \in [at: 0..Horizon, answer: {"allowed", "refused", "error"}]
    BY <1>2, <1>3, ElementOfSeq
  <2>. QED
    BY <2>1
<1>. QED
  BY <1>1, <1>3, <1>4

\* The initial state satisfies the invariant.
LEMMA LimiterInitHolds == LimiterInit => LimiterIInv
<1>. SUFFICES ASSUME LimiterInit PROVE LimiterIInv
  OBVIOUS
<1>. USE DEF LimiterInit
<1>1. LimiterTypeOK
  BY LimitAssumption DEF LimiterTypeOK
<1>2. AllowedAfter(0) = {}
  BY DEF AllowedAfter
<1>3. CountedIn
  BY <1>2, FS_EmptySet DEF CountedIn
<1>. QED
  BY <1>1, <1>3 DEF LimiterIInv, Outlived, SetByCall, AtMostLimit, QuietCallerAllowed

\* Time goes by: the key is dropped only when the window of every call it let in
\* is over.
LEMMA TickKeeps == LimiterIInv /\ Tick => LimiterIInv'
<1>. SUFFICES ASSUME LimiterIInv, Tick PROVE LimiterIInv'
  OBVIOUS
<1>. USE LimitAssumption DEF Made, Got, Allowed
<1>0. /\ LimiterTypeOK /\ calls' = calls /\ now' = now + 1 /\ now < Horizon
      /\ IF expires = now + 1 THEN count' = 0 /\ expires' = 0
                              ELSE count' = count /\ expires' = expires
  BY DEF LimiterIInv, Tick
<1>t. /\ now \in Nat /\ count \in Nat /\ expires \in Int
      /\ \A k \in DOMAIN calls : calls[k].at \in Int
      /\ Len(calls) \in Nat /\ DOMAIN calls = 1..Len(calls)
  BY <1>0, CallsTyped
<1>1. LimiterTypeOK'
  <2>1. calls' \in Seq([at: 0..Horizon, answer: {"allowed", "refused", "error"}])
    BY <1>0 DEF LimiterTypeOK
  <2>2. now' \in 0..Horizon /\ count' \in Nat
    BY <1>0, <1>t
  <2>3. IF count' = 0 THEN expires' = 0 ELSE expires' \in (now' + 1)..(now' + Window)
    BY <1>0, <1>t DEF LimiterTypeOK
  <2>. QED
    BY <2>1, <2>2, <2>3 DEF LimiterTypeOK
<1>2. Outlived'
  <2>. SUFFICES ASSUME NEW k \in DOMAIN calls, Allowed(k)
                PROVE  Made(k) + Window <= now' \/ (count' > 0 /\ Made(k) + Window <= expires')
    BY <1>0 DEF Outlived
  <2>1. Made(k) + Window <= now \/ (count > 0 /\ Made(k) + Window <= expires)
    BY DEF LimiterIInv, Outlived
  <2>2. Made(k) \in Int
    BY <1>t
  <2>. QED
    BY <1>0, <1>t, <2>1, <2>2
<1>3. CountedIn'
  <2>1. CASE expires = now + 1 /\ count > 0
    <3>1. /\ Len(calls) \in Nat
          /\ \A k \in 1..Len(calls) : Allowed(k) => Made(k) + Window <= now'
      BY <1>0, <1>t, <2>1 DEF LimiterIInv, Outlived
    <3>2. AllowedAfter(Len(calls))' = {}
      BY <1>0, <1>t DEF AllowedAfter
    <3>3. Cardinality(AllowedAfter(Len(calls))') = 0
      BY <3>2, FS_EmptySet
    <3>4. count' = 0 /\ Len(calls) \in 0..Len(calls)
      BY <1>0, <1>t, <2>1
    <3>. QED
      BY <1>0, <3>1, <3>3, <3>4 DEF CountedIn
  <2>2. CASE ~(expires = now + 1 /\ count > 0)
    <3>1. count' = count
      BY <1>0, <2>2 DEF LimiterTypeOK
    <3>2. PICK b \in 0..Len(calls) :
            /\ \A k \in 1..b : Allowed(k) => Made(k) + Window <= now
            /\ Cardinality(AllowedAfter(b)) <= count
      BY DEF LimiterIInv, CountedIn
    <3>3. \A k \in 1..b : Allowed(k) => Made(k) + Window <= now'
      <4>. SUFFICES ASSUME NEW k \in 1..b, Allowed(k)
                    PROVE  Made(k) + Window <= now'
        OBVIOUS
      <4>1. k \in DOMAIN calls
        BY <1>t
      <4>. QED
        BY <1>0, <1>t, <3>2, <4>1
    <3>4. AllowedAfter(b)' = AllowedAfter(b)
      BY <1>0 DEF AllowedAfter
    <3>. QED
      BY <1>0, <3>1, <3>2, <3>3, <3>4 DEF CountedIn
  <2>. QED
    BY <2>1, <2>2
<1>4. SetByCall'
  BY <1>0, <1>t DEF LimiterIInv, SetByCall
<1>5. AtMostLimit' /\ QuietCallerAllowed'
  BY <1>0 DEF LimiterIInv, AtMostLimit, QuietCallerAllowed, Recent
<1>. QED
  BY <1>1, <1>2, <1>3, <1>4, <1>5 DEF LimiterIInv

\* A call is made: counted, and answered by the count, or an error, counted or not.
CallMade(a) ==
  /\ Record(a) /\ a \in {"allowed", "refused", "error"}
  /\ now' = now
  /\ \/ count' = count + 1 /\ expires' = now + Window
     \/ a = "error" /\ count' = count /\ expires' = expires
  /\ a = "allowed" => count + 1 <= Limit
  /\ a = "refused" => count + 1 > Limit

LEMMA CallKeeps == ASSUME LimiterIInv, NEW a, CallMade(a) PROVE LimiterIInv'
<1>. DEFINE n == Len(calls)
            new == [at |-> now, answer |-> a]
<1>. USE LimitAssumption
<1>0. /\ LimiterTypeOK /\ calls' = Append(calls, new) /\ now' = now
      /\ a \in {"allowed", "refused", "error"}
  BY DEF LimiterIInv, CallMade, Record
<1>t. /\ now \in Nat /\ count \in Nat /\ expires \in Int
      /\ \A k \in DOMAIN calls : calls[k].at \in Int
      /\ n \in Nat /\ DOMAIN calls = 1..n
  BY <1>0, CallsTyped
<1>e. /\ count' \in {count, count + 1}
      /\ expires' \in {expires, now + Window}
      /\ count' = count => expires' = expires /\ a = "error"
      /\ count' = count + 1 => expires' = now + Window
  BY <1>t DEF CallMade
<1>s. /\ Len(calls') = n + 1 /\ DOMAIN calls' = 1..(n + 1)
      /\ \A k \in 1..n : calls'[k] = calls[k]
      /\ calls'[n + 1] = new
  <2>1. calls \in Seq([at: 0..Horizon, answer: {"allowed", "refused", "error"}])
    BY <1>0 DEF LimiterTypeOK
  <2>2. new \in [at: 0..Horizon, answer: {"allowed", "refused", "error"}]
    BY <1>0 DEF LimiterTypeOK
  <2>. QED
    BY <1>0, <1>t, <2>1, <2>2, AppendProperties
<1>x. count > 0 => expires > now /\ expires <= now + Window
  BY <1>0, <1>t DEF LimiterTypeOK
<1>1. LimiterTypeOK'
  <2>1. calls' \in Seq([at: 0..Horizon, answer: {"allowed", "refused", "error"}])
    BY <1>0, AppendProperties DEF LimiterTypeOK
  <2>2. now' \in 0..Horizon /\ count' \in Nat
    BY <1>0, <1>t, <1>e DEF LimiterTypeOK
  <2>3. IF count' = 0 THEN expires' = 0 ELSE expires' \in (now' + 1)..(now' + Window)
    BY <1>0, <1>t, <1>e DEF LimiterTypeOK
  <2>. QED
    BY <2>1, <2>2, <2>3 DEF LimiterTypeOK
<1>2. Outlived'
  <2>. SUFFICES ASSUME NEW k \in DOMAIN calls', Allowed(k)'
                PROVE  Made(k)' + Window <= now
                       \/ (count' > 0 /\ Made(k)' + Window <= expires')
    BY <1>0 DEF Outlived
  <2>1. CASE k = n + 1
    <3>1. Made(k)' = now /\ a = "allowed"
      BY <1>s, <2>1 DEF Made, Allowed, Got
    <3>. QED
      BY <1>t, <1>e, <3>1
  <2>2. CASE k \in 1..n
    <3>1. Made(k)' = Made(k) /\ Allowed(k) /\ Made(k) \in Int
      BY <1>s, <1>t, <2>2 DEF Made, Allowed, Got
    <3>2. Made(k) + Window <= now \/ (count > 0 /\ Made(k) + Window <= expires)
      BY <1>t, <2>2, <3>1 DEF LimiterIInv, Outlived
    <3>. QED
      BY <1>t, <1>e, <1>x, <3>1, <3>2
  <2>. QED
    BY <1>s, <1>t, <2>1, <2>2
<1>3. PICK b \in 0..n :
        /\ \A k \in 1..b : Allowed(k) => Made(k) + Window <= now
        /\ Cardinality(AllowedAfter(b)) <= count
  BY DEF LimiterIInv, CountedIn
<1>f. IsFiniteSet(AllowedAfter(b)) /\ Cardinality(AllowedAfter(b)) \in Nat
  BY <1>0, <1>t, AllowedFinite
<1>4. CountedIn'
  <2>1. \A k \in 1..b : Allowed(k)' => Made(k)' + Window <= now'
    BY <1>0, <1>t, <1>s, <1>3 DEF Allowed, Got, Made
  <2>2. Cardinality(AllowedAfter(b)') <= count'
    <3>1. CASE a = "allowed"
      <4>1. AllowedAfter(b)' = AllowedAfter(b) \cup {n + 1}
        BY <1>t, <1>s, <1>3, <3>1 DEF AllowedAfter, Allowed, Got
      <4>2. n + 1 \notin AllowedAfter(b)
        BY <1>t DEF AllowedAfter
      <4>3. count' = count + 1
        BY <1>t, <1>e, <3>1
      <4>4. Cardinality(AllowedAfter(b)') = Cardinality(AllowedAfter(b)) + 1
        BY <1>f, <4>1, <4>2, FS_AddElement
      <4>. QED
        BY <1>t, <1>f, <1>3, <4>3, <4>4
    <3>2. CASE a # "allowed"
      <4>1. AllowedAfter(b)' = AllowedAfter(b)
        BY <1>t, <1>s, <1>3, <3>2 DEF AllowedAfter, Allowed, Got
      <4>. QED
        BY <1>t, <1>f, <1>e, <1>3, <4>1
    <3>. QED
      BY <3>1, <3>2
  <2>3. b \in 0..Len(calls')
    BY <1>t, <1>s
  <2>. QED
    BY <2>1, <2>2, <2>3 DEF CountedIn
<1>5. SetByCall'
  <2>1. CASE count' = count + 1
    <3>1. PICK k \in DOMAIN calls' : k = n + 1
      BY <1>s, <1>t
    <3>2. Made(k)' + Window = expires'
      BY <1>e, <1>s, <1>t, <2>1, <3>1 DEF Made
    <3>. QED
      BY <3>2 DEF SetByCall
  <2>2. CASE count' = count /\ count > 0
    <3>1. PICK k \in DOMAIN calls : Made(k) + Window = expires
      BY <2>2 DEF LimiterIInv, SetByCall
    <3>2. Made(k)' + Window = expires' /\ k \in DOMAIN calls'
      BY <1>t, <1>s, <1>e, <2>2, <3>1 DEF Made
    <3>. QED
      BY <3>2 DEF SetByCall
  <2>. QED
    BY <1>e, <1>t, <2>1, <2>2 DEF SetByCall
<1>6. \A i \in 1..n : Recent(i)' = Recent(i) /\ \A k \in Recent(i) : Got(k)' = Got(k)
  BY <1>t, <1>s DEF Recent, Made, Got
<1>7. AtMostLimit'
  <2>. SUFFICES ASSUME NEW i \in DOMAIN calls', Got(i)' = "allowed"
                PROVE  Cardinality({k \in Recent(i) : Got(k) = "allowed"}') < Limit
    BY DEF AtMostLimit
  <2>1. CASE i \in 1..n
    <3>1. {k \in Recent(i) : Got(k) = "allowed"}' = {k \in Recent(i) : Got(k) = "allowed"}
      BY <1>6, <2>1
    <3>2. Got(i) = "allowed" /\ i \in DOMAIN calls
      BY <1>s, <1>t, <2>1 DEF Got
    <3>. QED
      BY <3>1, <3>2 DEF LimiterIInv, AtMostLimit
  <2>2. CASE i = n + 1
    <3>1. a = "allowed" /\ Made(i)' = now
      BY <1>s, <2>2 DEF Got, Made
    <3>2. {k \in Recent(i) : Got(k) = "allowed"}' \subseteq AllowedAfter(b)
      <4>. SUFFICES ASSUME NEW k \in Recent(i)', Got(k)' = "allowed"
                    PROVE  k \in AllowedAfter(b)
        OBVIOUS
      <4>1. k \in 1..n /\ Made(k)' > now - Window
        BY <1>t, <2>2, <3>1 DEF Recent
      <4>2. Allowed(k) /\ Made(k) > now - Window /\ Made(k) \in Int
        BY <1>s, <1>t, <4>1 DEF Allowed, Got, Made
      <4>3. ~(k \in 1..b)
        BY <1>3, <1>t, <4>2
      <4>. QED
        BY <1>3, <1>t, <4>1, <4>2, <4>3 DEF AllowedAfter
    <3>3. Cardinality({k \in Recent(i) : Got(k) = "allowed"}') <= Cardinality(AllowedAfter(b))
      BY <1>f, <3>2, FS_Subset
    <3>4. Cardinality({k \in Recent(i) : Got(k) = "allowed"}') \in Nat
      BY <1>f, <3>2, FS_Subset, FS_CardinalityType
    <3>5. count + 1 <= Limit
      BY <3>1 DEF CallMade
    <3>. QED
      BY <1>3, <1>f, <1>t, <3>3, <3>4, <3>5
  <2>. QED
    BY <1>s, <1>t, <2>1, <2>2
<1>8. QuietCallerAllowed'
  <2>. SUFFICES ASSUME NEW i \in DOMAIN calls', Got(i)' = "refused"
                PROVE  Recent(i)' # {}
    BY DEF QuietCallerAllowed
  <2>1. CASE i \in 1..n
    <3>1. Got(i) = "refused" /\ i \in DOMAIN calls
      BY <1>s, <1>t, <2>1 DEF Got
    <3>. QED
      BY <1>6, <2>1, <3>1 DEF LimiterIInv, QuietCallerAllowed
  <2>2. CASE i = n + 1
    <3>1. a = "refused" /\ Made(i)' = now
      BY <1>s, <2>2 DEF Got, Made
    <3>2. count > 0
      BY <1>t, <3>1 DEF CallMade
    <3>3. PICK k \in DOMAIN calls : Made(k) + Window = expires
      BY <3>2 DEF LimiterIInv, SetByCall
    <3>4. k \in 1..n /\ Made(k)' = Made(k) /\ Made(k) \in Int
      BY <1>s, <1>t DEF Made
    <3>. QED
      BY <1>t, <1>x, <2>2, <3>1, <3>2, <3>3, <3>4 DEF Recent
  <2>. QED
    BY <1>s, <1>t, <2>1, <2>2
<1>. QED
  BY <1>1, <1>2, <1>4, <1>5, <1>7, <1>8 DEF LimiterIInv

\* Every step keeps the invariant.
LEMMA LimiterNextKeeps == LimiterIInv /\ [LimiterNext]_limiterVars => LimiterIInv'
<1>. SUFFICES ASSUME LimiterIInv, [LimiterNext]_limiterVars PROVE LimiterIInv'
  OBVIOUS
<1>1. CASE Tick
  BY <1>1, TickKeeps
<1>2. CASE Allow
  <2>1. count \in Nat
    BY CallsTyped DEF LimiterIInv
  <2>2. CallMade(Answer(count + 1))
    BY <1>2, <2>1, LimitAssumption DEF Allow, CallMade, Answer
  <2>. QED
    BY <2>2, CallKeeps
<1>3. CASE AllowErrs
  <2>1. CallMade("error")
    BY <1>3 DEF AllowErrs, CallMade
  <2>. QED
    BY <2>1, CallKeeps
<1>4. CASE UNCHANGED limiterVars
  BY <1>4 DEF limiterVars, LimiterIInv, LimiterTypeOK, Outlived, CountedIn, SetByCall, AtMostLimit,
     QuietCallerAllowed, Allowed, AllowedAfter, Recent, Made, Got
<1>. QED
  BY <1>1, <1>2, <1>3, <1>4 DEF LimiterNext

\* The inductive invariant holds.
LEMMA LimiterInvariant == LimiterSpec => []LimiterIInv
  BY LimiterInitHolds, LimiterNextKeeps, PTL DEF LimiterSpec

-----------------------------------------------------------------------------
\* The key has a value exactly while it has an expiry, which is in the future.
THEOREM LimiterTypes == LimiterSpec => []LimiterTypeOK
<1>1. LimiterIInv => LimiterTypeOK
  BY DEF LimiterIInv
<1>. QED
  BY <1>1, LimiterInvariant, PTL

\* Whatever the limit, the window and the errors, no stretch of time as long as the
\* window sees more than Limit calls let in (Redis.Allow).
THEOREM LimitKept == LimiterSpec => []AtMostLimit
<1>1. LimiterIInv => AtMostLimit
  BY DEF LimiterIInv
<1>. QED
  BY <1>1, LimiterInvariant, PTL

\* A caller silent for a window is let in, whatever was refused before (Redis.Allow).
THEOREM QuietCallerLetIn == LimiterSpec => []QuietCallerAllowed
<1>1. LimiterIInv => QuietCallerAllowed
  BY DEF LimiterIInv
<1>. QED
  BY <1>1, LimiterInvariant, PTL
===============================================================================
