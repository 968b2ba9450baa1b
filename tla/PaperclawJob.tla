----------------------------- MODULE PaperclawJob -----------------------------
(***************************************************************************)
(* The Paperclaw jobs of one project: handlers_paperclaw.go creates and    *)
(* cancels them, paperclaw/manager.go queues them, RunPaperclawJob runs    *)
(* the agent pipeline. What the model asks the tools to write is kept in   *)
(* pendingNew and stored when the pipeline ends (BeforeStreamDone), unless *)
(* it is too large to be kept. The language model answers what it likes,   *)
(* when it likes: the HTTP client has no timeout.                          *)
(***************************************************************************)
EXTENDS Integers, Sequences, FiniteSets, Functions

CONSTANTS
  Jobs,       \* ids of paperclaw_jobs rows
  Workers,
  Paths, Contents,
  None,
  QueueCap,   \* capacity of the jobs channel (64 in the code)
  Envs        \* the surroundings, of which a behaviour has one: records of
              \*   jobs, workers, paths: those in use
              \*   large: the contents beyond maxAgentProposalBytes
              \*   turns: MaxToolSteps of the pipeline (24 in the code)
              \*   faults: which of "db", "store", "llm" may fail a call
              \*   stops: bound on stops of the process
              \*   roles: whether the user's role changes
              \*   panel: whether the requests are those of one panel
              \*   clicks: what is clicked in it besides the start

ASSUME PaperclawAssumption ==
  /\ None \notin Jobs \cup Contents /\ QueueCap \in Nat \ {0}
  /\ \A e \in Envs : e.jobs \subseteq Jobs /\ e.workers \subseteq Workers
                    /\ e.paths \subseteq Paths /\ e.large \subseteq Contents
                    /\ e.turns \in Nat /\ e.stops \in Nat

VARIABLES
  stops, up,              \* the server process
  handler, chan, overflow,  \* where a job waits
  pc, job, turn,          \* each worker and its place in the pipeline
  pending,                \* pendingNew
  ctxDone, failed,        \* runCtx is cancelled; the pipeline returned an error
  status, cancel,         \* the rows; cancel is cancel_requested
  editor,                 \* whether the jobs' user may write to the project
  drafted, written,       \* history: what each job drafted and stored
  env

procVars  == <<stops, up>>
queueVars == <<handler, chan, overflow>>
runVars   == <<job, turn, pending, ctxDone, failed>>
histVars  == <<drafted, written>>
vars == <<procVars, queueVars, pc, runVars, status, cancel, editor, histVars>>

Ends == {"success", "failed", "cancelled"}
PCs == {"idle", "load", "role", "begin", "turn", "tools", "flush", "end", "stopped"}
NoFiles == [f \in Paths |-> None]
InPipeline == {"turn", "tools", "flush", "end"}
Faulty(service) == service \in env.faults

Goto(w, l) == pc' = [pc EXCEPT ![w] = l]

\* UPDATE paperclaw_jobs SET status = s WHERE id = j, its error ignored.
SetStatus(j, s) ==
  \/ status' = [status EXCEPT ![j] = s]
  \/ Faulty("db") /\ UNCHANGED status

-----------------------------------------------------------------------------
(* The requests                                                            *)

Create(j) ==
  /\ up /\ j \in env.jobs
  /\ editor
  /\ status[j] = "none"
  /\ status' = [status EXCEPT ![j] = "queued"]
  /\ \/ handler' = handler \cup {j}
     \/ Faulty("db") /\ UNCHANGED handler   \* committed, the answer lost
  /\ UNCHANGED <<procVars, chan, overflow, pc, runVars, cancel, editor, histVars>>

\* Mutant: a full channel drops the job.
EnqueueOrDrop(j) ==
  /\ up /\ j \in handler
  /\ handler' = handler \ {j}
  /\ chan' = IF Len(chan) < QueueCap THEN Append(chan, j) ELSE chan
  /\ UNCHANGED <<procVars, overflow, pc, runVars, status, cancel, editor, histVars>>

Enqueue(j) ==
  /\ up
  /\ j \in handler
  /\ handler' = handler \ {j}
  /\ IF Len(chan) < QueueCap
       THEN chan' = Append(chan, j) /\ UNCHANGED overflow
       ELSE overflow' = overflow \cup {j} /\ UNCHANGED chan
  /\ UNCHANGED <<procVars, pc, runVars, status, cancel, editor, histVars>>

SendOverflow(j) ==
  /\ up
  /\ j \in overflow
  /\ Len(chan) < QueueCap
  /\ chan' = Append(chan, j)
  /\ overflow' = overflow \ {j}
  /\ UNCHANGED <<procVars, handler, pc, runVars, status, cancel, editor, histVars>>

\* Mutant: the request itself ends the job.
CancelAtOnce(j) ==
  /\ up /\ editor
  /\ status[j] \in {"queued", "running"}
  /\ cancel' = cancel \cup {j}
  /\ status' = [status EXCEPT ![j] = "cancelled"]
  /\ UNCHANGED <<procVars, queueVars, pc, runVars, editor, histVars>>

\* A request to cancel an active job leaves a flag for its run.
Cancel(j) ==
  /\ up
  /\ editor
  /\ status[j] \in {"queued", "running"}
  /\ cancel' = cancel \cup {j}
  /\ UNCHANGED <<procVars, queueVars, pc, runVars, status, editor, histVars>>

\* The owner makes the user a viewer, or an editor again.
ChangeRole ==
  /\ env.roles
  /\ editor' = ~editor
  /\ UNCHANGED <<procVars, queueVars, pc, runVars, status, cancel, histVars>>

-----------------------------------------------------------------------------
(* RunPaperclawJob                                                         *)

At(w, l) == up /\ pc[w] = l

Take(w) ==
  /\ At(w, "idle") /\ w \in env.workers
  /\ chan # <<>>
  /\ job' = [job EXCEPT ![w] = Head(chan)]
  /\ chan' = Tail(chan)
  /\ Goto(w, "load")
  /\ UNCHANGED <<procVars, handler, overflow, turn, pending, ctxDone, failed,
                 status, cancel, editor, histVars>>

Return(w) ==
  /\ Goto(w, "idle")
  /\ job' = [job EXCEPT ![w] = None]
  /\ turn' = [turn EXCEPT ![w] = 0]
  /\ pending' = [pending EXCEPT ![w] = NoFiles]
  /\ ctxDone' = ctxDone \ {w} /\ failed' = failed \ {w}

\* A row that is not queued, or cannot be read, is left as it is.
Load(w) ==
  /\ At(w, "load")
  /\ \/ status[job[w]] = "queued" /\ Goto(w, "role") /\ UNCHANGED runVars
     \/ (status[job[w]] # "queued" \/ Faulty("db")) /\ Return(w)
  /\ UNCHANGED <<procVars, queueVars, status, cancel, editor, histVars>>

CheckRole(w) ==
  /\ At(w, "role")
  /\ \/ editor /\ Goto(w, "begin") /\ UNCHANGED <<runVars, status>>
     \/ /\ ~editor \/ Faulty("db")
        /\ SetStatus(job[w], "failed") /\ Return(w)
  /\ UNCHANGED <<procVars, queueVars, cancel, editor, histVars>>

\* running, whatever the status; the poller starts and the pipeline is entered.
Begin(w) ==
  /\ At(w, "begin")
  /\ SetStatus(job[w], "running")
  /\ Goto(w, "turn")
  /\ UNCHANGED <<procVars, queueVars, runVars, cancel, editor, histVars>>

\* Mutant: the poller finds the flag and only stops.
PollCancelIgnored(w) ==
  /\ up /\ pc[w] \in InPipeline /\ job[w] \in cancel /\ w \notin ctxDone
  /\ UNCHANGED vars

\* The poller finds the flag and cancels runCtx, until stopPoll.
PollCancel(w) ==
  /\ up
  /\ pc[w] \in InPipeline
  /\ job[w] \in cancel /\ w \notin ctxDone
  /\ ctxDone' = ctxDone \cup {w}
  /\ UNCHANGED <<procVars, queueVars, pc, job, turn, pending, failed, status,
                 cancel, editor, histVars>>

\* writeSSEDone: the drafts are stored next, if there are any.
Flush(w) == Goto(w, IF pending[w] = NoFiles THEN "end" ELSE "flush")

\* The model answers with calls of tools.
AskTools(w) ==
  /\ At(w, "turn")
  /\ w \notin ctxDone
  /\ turn[w] < env.turns
  /\ turn' = [turn EXCEPT ![w] = @ + 1]
  /\ Goto(w, "tools")
  /\ UNCHANGED <<procVars, queueVars, job, pending, ctxDone, failed, status,
                 cancel, editor, histVars>>

\* The model answers without tools.
AskDone(w) ==
  /\ At(w, "turn")
  /\ w \notin ctxDone
  /\ turn[w] < env.turns
  /\ Flush(w)
  /\ UNCHANGED <<procVars, queueVars, runVars, status, cancel, editor, histVars>>

\* The model had its last turn: it is not asked again.
LastTurn(w) ==
  /\ At(w, "turn")
  /\ turn[w] = env.turns
  /\ Flush(w)
  /\ UNCHANGED <<procVars, queueVars, runVars, status, cancel, editor, histVars>>

\* The call fails: an answer of the upstream, or runCtx. Drafts are kept.
AskFails(w) ==
  /\ At(w, "turn")
  /\ turn[w] < env.turns
  /\ w \in ctxDone \/ Faulty("llm")
  /\ failed' = failed \cup {w}
  /\ Flush(w)
  /\ UNCHANGED <<procVars, queueVars, job, turn, pending, ctxDone, status,
                 cancel, editor, histVars>>

\* A file_write of the turn.
WriteDraft(w, f, c) ==
  /\ At(w, "tools")
  /\ c \notin env.large
  /\ pending' = [pending EXCEPT ![w][f] = c]
  /\ drafted' = [drafted EXCEPT ![job[w]][f] = c]
  /\ UNCHANGED <<procVars, queueVars, pc, job, turn, ctxDone, failed, status,
                 cancel, editor, written>>

\* A file_write too large to keep is stored at once; the tool reports errors.
WriteLarge(w, f, c) ==
  /\ At(w, "tools")
  /\ c \in env.large
  /\ w \notin ctxDone
  /\ drafted' = [drafted EXCEPT ![job[w]][f] = c]
  /\ written' = [written EXCEPT ![job[w]][f] = c]
  /\ UNCHANGED <<procVars, queueVars, pc, job, turn, pending, ctxDone, failed,
                 status, cancel, editor>>

ToolsDone(w) ==
  /\ At(w, "tools")
  /\ Goto(w, "turn")
  /\ UNCHANGED <<procVars, queueVars, runVars, status, cancel, editor, histVars>>

\* Mutant: one file is stored, the rest left.
FlushOne(w, f) ==
  /\ At(w, "flush")
  /\ pending[w][f] # None
  /\ written' = [written EXCEPT ![job[w]][f] = pending[w][f]]
  /\ pending' = [pending EXCEPT ![w] = NoFiles]
  /\ Goto(w, "end")
  /\ UNCHANGED <<procVars, queueVars, job, turn, ctxDone, failed, status,
                 cancel, editor, drafted>>

\* putBytesFile of the drafts, one after the other and with a context that is
\* not runCtx; an error is logged and the next one tried.
FlushFile(w, f) ==
  /\ At(w, "flush")
  /\ pending[w][f] # None
  /\ pending' = [pending EXCEPT ![w][f] = None]
  /\ Goto(w, IF [pending[w] EXCEPT ![f] = None] = NoFiles THEN "end" ELSE "flush")
  /\ \/ written' = [written EXCEPT ![job[w]][f] = pending[w][f]]
     \/ (Faulty("store") \/ Faulty("db")) /\ UNCHANGED written
  /\ UNCHANGED <<procVars, queueVars, job, turn, ctxDone, failed, status,
                 cancel, editor, drafted>>

\* The outcome: a cancelled runCtx first, then an error of the pipeline.
End(w) ==
  /\ At(w, "end")
  /\ SetStatus(job[w], IF w \in ctxDone THEN "cancelled"
                       ELSE IF w \in failed THEN "failed" ELSE "success")
  /\ Return(w)
  /\ UNCHANGED <<procVars, queueVars, cancel, editor, histVars>>

\* The worker's moves that wait for nobody but Postgres and the object store: a
\* call of the model surely returns once runCtx is cancelled.
Advance(w) ==
  \/ Take(w) \/ Load(w) \/ CheckRole(w) \/ Begin(w) \/ ToolsDone(w)
  \/ w \in ctxDone /\ AskFails(w)
  \/ LastTurn(w) \/ End(w) \/ \E f \in Paths : FlushFile(w, f)

WorkerStep(w) ==
  \/ Advance(w) \/ PollCancel(w) \/ AskTools(w) \/ AskDone(w) \/ AskFails(w)
  \/ \E f \in env.paths, c \in Contents : WriteDraft(w, f, c) \/ WriteLarge(w, f, c)

-----------------------------------------------------------------------------
(* The process: nothing waits for the workers at the end, and a start looks *)
(* at no row.                                                              *)

Stop ==
  /\ up
  /\ stops < env.stops
  /\ stops' = stops + 1 /\ up' = FALSE
  /\ handler' = {} /\ chan' = <<>> /\ overflow' = {}
  /\ pc' = [w \in Workers |-> "stopped"]
  /\ job' = [w \in Workers |-> None] /\ turn' = [w \in Workers |-> 0]
  /\ pending' = [w \in Workers |-> NoFiles]
  /\ ctxDone' = {} /\ failed' = {}
  /\ UNCHANGED <<status, cancel, editor, histVars>>

Restart ==
  /\ ~up
  /\ up' = TRUE
  /\ pc' = [w \in Workers |-> "idle"]
  /\ UNCHANGED <<stops, queueVars, runVars, status, cancel, editor, histVars>>

Init ==
  /\ env \in Envs
  /\ stops = 0 /\ up = TRUE
  /\ handler = {} /\ chan = <<>> /\ overflow = {}
  /\ pc = [w \in Workers |-> "idle"] /\ job = [w \in Workers |-> None]
  /\ turn = [w \in Workers |-> 0] /\ pending = [w \in Workers |-> NoFiles]
  /\ ctxDone = {} /\ failed = {}
  /\ status = [j \in Jobs |-> "none"] /\ cancel = {}
  /\ editor = TRUE
  /\ drafted = [j \in Jobs |-> NoFiles] /\ written = [j \in Jobs |-> NoFiles]

\* What goes on whoever asks.
ServerStep ==
  \/ \E j \in Jobs : Enqueue(j) \/ SendOverflow(j)
  \/ \E w \in Workers : WorkerStep(w)
  \/ ChangeRole \/ Stop \/ Restart

Next == (ServerStep \/ \E j \in Jobs : Create(j) \/ Cancel(j)) /\ UNCHANGED env

Spec == Init /\ [][Next]_<<vars, env>>

\* Goroutines that can run do and the poller ticks; nothing says that the
\* language model ever answers.
Fairness ==
  /\ \A w \in Workers : WF_vars(Advance(w)) /\ WF_vars(PollCancel(w))
  /\ \A j \in Jobs : WF_vars(Enqueue(j)) /\ WF_vars(SendOverflow(j))

FairSpec == Spec /\ Fairness

-----------------------------------------------------------------------------
(* Properties                                                              *)

TypeOK ==
  /\ stops \in Nat /\ up \in BOOLEAN
  /\ handler \subseteq Jobs /\ overflow \subseteq Jobs
  /\ chan \in Seq(Jobs) /\ Len(chan) <= QueueCap
  /\ pc \in [Workers -> PCs] /\ job \in [Workers -> Jobs \cup {None}]
  /\ \A w \in Workers : job[w] = None <=> pc[w] \in {"idle", "stopped"}
  /\ \A w \in Workers : pc[w] = "stopped" <=> ~up
  /\ turn \in [Workers -> 0..env.turns]
  /\ pending \in [Workers -> [Paths -> Contents \cup {None}]]
  /\ ctxDone \subseteq Workers /\ failed \subseteq Workers
  /\ status \in [Jobs -> {"none", "queued", "running"} \cup Ends]
  /\ cancel \subseteq Jobs /\ editor \in BOOLEAN
  /\ drafted \in [Jobs -> [Paths -> Contents \cup {None}]]
  /\ written \in [Jobs -> [Paths -> Contents \cup {None}]]

\* A job that ended stays as it ended: the unconditional UPDATEs of a run never
\* overwrite an end, and a cancel request that comes late finds no active job.
EndIsFinal == [][\A j \in Jobs : status[j] \in Ends => status'[j] = status[j]]_vars

\* While the process stays up and Postgres answers, an active job is with a
\* handler, the channel, a blocked sender or a worker.
NothingForgotten ==
  stops = 0 /\ ~Faulty("db") =>
    \A j \in Jobs : status[j] \in {"queued", "running"} =>
      \/ j \in handler \cup overflow \cup Range(chan)
      \/ \E w \in Workers : job[w] = j

\* "The pipeline is complete; its changes are written to the project": what a
\* successful job drafted last for each path is what it stored last. Excepted
\* are drafts storage refused, which are only logged, and paths that were also
\* written with a content too large to be kept (see the hazards).
SuccessWrites ==
  ~Faulty("store") /\ ~Faulty("db") /\ env.large = {} =>
    \A j \in Jobs : status[j] = "success" => written[j] = drafted[j]

\* A running job that is asked to cancel ends, even if the model never answers,
\* while Postgres does and the process goes on.
CancelEnds == \A j \in Jobs :
  status[j] = "running" /\ j \in cancel /\ ~Faulty("db") /\ env.stops = 0
    ~> status[j] \in Ends
=============================================================================
