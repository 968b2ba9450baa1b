---------------------------- MODULE CompileClient -----------------------------
(***************************************************************************)
(* The editor pages open on one project and the way they learn that a      *)
(* compile job ended: compileNow, finalizeCompile and showPdf of           *)
(* Editor.tsx, the compileNotifier of notify.go and handleCompileWS. The   *)
(* server's jobs are those of CompileJob.                                  *)
(*                                                                         *)
(* Every compile opens a socket of its own, so a socket, the channel that  *)
(* serves it and the call of compileNow are named by the job. The local    *)
(* "finalized" of a call is the label its call has left: only a call that  *)
(* posts or tracks is not finalized.                                       *)
(***************************************************************************)
EXTENDS Integers, Sequences, FiniteSets, Functions

CONSTANTS
  Pages,     \* editor pages open on the project
  Jobs,
  Project,
  None,
  BufferCap, \* capacity of a subscriber's channel (64 in the code)
  Faults,    \* which of "db", "net" may fail
  Envs       \* the surroundings of a behaviour: the jobs asked for, whether the network is lossy,
             \* whether the 120 s of a call may pass before the job ends, and
             \* whether the project may be deleted meanwhile

ASSUME ClientAssumption ==
  /\ BufferCap \in Nat \ {0}
  /\ Envs \subseteq [jobs : SUBSET Jobs, lossy : BOOLEAN, impatient : BOOLEAN, deletable : BOOLEAN]
  /\ None \notin Jobs \cup Pages \cup {"none", "queued", "running", "success",
                                       "failed", "deleted"}

VARIABLES
  env,        \* the element of Envs that the behaviour is in
  status, stored, announced,  \* the jobs, as in CompileJob
  subs,       \* the notifier's list of channels
  buf,        \* each channel
  toSend,     \* publish of each job: channels of its copy still to be sent to
  senders,    \* goroutines blocked in c <- id, as <<channel, job>>
  call, page, \* each call of compileNow and the page that made it
  ws,         \* the call's socket
  polled,     \* the status a poll has read and the page not yet seen
  compiling,  \* each page's compilingRef
  pdf,        \* the job whose PDF a page shows
  due, got    \* history: channels to be told of a job, and those told

serverVars == <<status, stored, announced>>
notifyVars == <<subs, buf, toSend, senders, due, got>>
pageVars   == <<call, page, polled, compiling, pdf>>
vars == <<serverVars, notifyVars, ws, pageVars>>

Server == INSTANCE CompileJob WITH ProjectOf <- [j \in Jobs |-> Project]

Terminal == {"success", "failed"}
Calls == {"none", "posting", "tracking", "finalizing", "download", "done"}
Active == {"posting", "tracking"}
Faulty(service) == service \in Faults /\ (service = "net" => env.lossy)
Impatient == env.impatient
Deletable == env.deletable

-----------------------------------------------------------------------------
(* The page starts a compile                                               *)

CompileNow(t, j) ==
  /\ ~compiling[t]
  /\ j \in env.jobs /\ call[j] = "none"
  /\ call' = [call EXCEPT ![j] = "posting"]
  /\ page' = [page EXCEPT ![j] = t]
  /\ compiling' = [compiling EXCEPT ![t] = TRUE]
  /\ UNCHANGED <<serverVars, notifyVars, ws, polled, pdf>>

\* handleCompile serves the POST.
Post(j) ==
  /\ call[j] = "posting"
  /\ Server!Submit(j)
  /\ UNCHANGED <<notifyVars, ws, pageVars>>

\* The answer arrives: the socket is opened and the interval started, both
\* only now, when the job may have ended already.
Track(j) ==
  /\ call[j] = "posting"
  /\ status[j] # "none"
  /\ call' = [call EXCEPT ![j] = "tracking"]
  /\ ws' = [ws EXCEPT ![j] = "opening"]
  /\ UNCHANGED <<serverVars, notifyVars, page, polled, compiling, pdf>>

\* The call ends and gives the page back.
Release(j, l) ==
  /\ call' = [call EXCEPT ![j] = l]
  /\ compiling' = [compiling EXCEPT ![page[j]] = FALSE]

\* The POST was refused, or its answer lost.
PostFails(j) ==
  /\ call[j] = "posting"
  /\ status[j] = "none" \/ Faulty("net")
  /\ Release(j, "done")
  /\ UNCHANGED <<serverVars, notifyVars, ws, page, polled, pdf>>

-----------------------------------------------------------------------------
(* The notifier and handleCompileWS                                        *)

Subscribe(c) ==
  /\ ws[c] = "opening"
  /\ ws' = [ws EXCEPT ![c] = "open"]
  /\ subs' = Append(subs, c)
  /\ UNCHANGED <<serverVars, buf, toSend, senders, due, got, pageVars>>

\* The handler returns when the page closed its end or the connection broke; the
\* loop of unsubscribe keeps the other channels. A channel is in the list once:
\* handleCompileWS makes its own and subscribes it before it does anything else.
Unsubscribe(c) ==
  /\ ws[c] = "open"
  /\ call[c] # "tracking" \/ Faulty("net")
  /\ ws' = [ws EXCEPT ![c] = "closed"]
  /\ \E i \in DOMAIN subs :
       subs[i] = c /\ subs' = SubSeq(subs, 1, i - 1) \o SubSeq(subs, i + 1, Len(subs))
  /\ UNCHANGED <<serverVars, buf, toSend, senders, due, got, pageVars>>

\* publish copies the list under the lock and sends after releasing it.
Publish(j) ==
  /\ Server!Announce(j)
  /\ toSend' = [toSend EXCEPT ![j] = subs]
  /\ due' = [due EXCEPT ![j] = Range(subs)]
  /\ UNCHANGED <<subs, buf, senders, got, ws, pageVars>>

\* Mutant: a full channel loses the message.
SendOrDrop(j) ==
  LET c == Head(toSend[j])
  IN /\ toSend[j] # <<>>
     /\ toSend' = [toSend EXCEPT ![j] = Tail(@)]
     /\ buf' = IF Len(buf[c]) < BufferCap
                 THEN [buf EXCEPT ![c] = Append(@, j)] ELSE buf
     /\ UNCHANGED <<serverVars, subs, senders, due, got, ws, pageVars>>

\* The send does not block: a goroutine waits for a full channel.
Send(j) ==
  LET c == Head(toSend[j])
  IN /\ toSend[j] # <<>>
     /\ toSend' = [toSend EXCEPT ![j] = Tail(@)]
     /\ IF Len(buf[c]) < BufferCap
          THEN buf' = [buf EXCEPT ![c] = Append(@, j)] /\ UNCHANGED senders
          ELSE senders' = senders \cup {<<c, j>>} /\ UNCHANGED buf
     /\ UNCHANGED <<serverVars, subs, due, got, ws, pageVars>>

SendLate(c, j) ==
  /\ <<c, j>> \in senders
  /\ Len(buf[c]) < BufferCap
  /\ buf' = [buf EXCEPT ![c] = Append(@, j)]
  /\ senders' = senders \ {<<c, j>>}
  /\ UNCHANGED <<serverVars, subs, toSend, due, got, ws, pageVars>>

\* Mutant: the page takes any compile_done of the project for its own.
DeliverAny(c) ==
  LET j == Head(buf[c])
  IN /\ ws[c] = "open" /\ buf[c] # <<>>
     /\ buf' = [buf EXCEPT ![c] = Tail(@)]
     /\ got' = [got EXCEPT ![c] = @ \cup {j}]
     /\ IF call[c] = "tracking"
          THEN Release(c, "finalizing") ELSE UNCHANGED <<call, compiling>>
     /\ UNCHANGED <<serverVars, subs, toSend, senders, due, ws, page, polled, pdf>>

\* The handler writes compile_done and the page's onmessage runs.
Deliver(c) ==
  LET j == Head(buf[c])
  IN /\ ws[c] = "open"
     /\ buf[c] # <<>>
     /\ buf' = [buf EXCEPT ![c] = Tail(@)]
     /\ got' = [got EXCEPT ![c] = @ \cup {j}]
     /\ IF j = c /\ call[c] = "tracking"
          THEN Release(c, "finalizing") ELSE UNCHANGED <<call, compiling>>
     /\ UNCHANGED <<serverVars, subs, toSend, senders, due, ws, page, polled, pdf>>

-----------------------------------------------------------------------------
(* The interval, finalizeCompile and showPdf                               *)

\* The interval ticks while the call is not finalized; handleCompileJob reads
\* the row, if there still is one.
Poll(j) ==
  /\ call[j] = "tracking"
  /\ polled[j] = None
  /\ status[j] # "deleted"
  /\ polled' = [polled EXCEPT ![j] = status[j]]
  /\ UNCHANGED <<serverVars, notifyVars, ws, call, page, compiling, pdf>>

\* Mutant: the answer is used although the call was finalized meanwhile.
PollAnswerLate(j) ==
  /\ polled[j] # None
  /\ polled' = [polled EXCEPT ![j] = None]
  /\ IF polled[j] \in Terminal
       THEN Release(j, "finalizing") ELSE UNCHANGED <<call, compiling>>
  /\ UNCHANGED <<serverVars, notifyVars, ws, page, pdf>>

\* Mutant: the page waits for the message only.
PollAnswerIgnored(j) ==
  /\ polled[j] # None
  /\ polled' = [polled EXCEPT ![j] = None]
  /\ UNCHANGED <<serverVars, notifyVars, ws, page, call, compiling, pdf>>

PollAnswer(j) ==
  /\ polled[j] # None
  /\ polled' = [polled EXCEPT ![j] = None]
  /\ \/ IF call[j] = "tracking" /\ polled[j] \in Terminal
          THEN Release(j, "finalizing") ELSE UNCHANGED <<call, compiling>>
     \/ Faulty("net") /\ UNCHANGED <<call, compiling>>
  /\ UNCHANGED <<serverVars, notifyVars, ws, page, pdf>>

\* Mutant: the page stays locked.
GiveUpLocked(j) ==
  /\ Impatient /\ call[j] = "tracking"
  /\ call' = [call EXCEPT ![j] = "done"]
  /\ UNCHANGED <<serverVars, notifyVars, ws, page, polled, compiling, pdf>>

\* A tick later than 120 s after the start gives up; the job goes on.
GiveUp(j) ==
  /\ Impatient
  /\ call[j] = "tracking"
  /\ Release(j, "done")
  /\ UNCHANGED <<serverVars, notifyVars, ws, page, polled, pdf>>

\* finalizeCompile reads the row once more; showPdf starts by taking the old
\* PDF away.
ReadEnd(j) ==
  /\ call[j] = "finalizing"
  /\ \/ /\ status[j] = "success"
        /\ call' = [call EXCEPT ![j] = "download"]
        /\ pdf' = [pdf EXCEPT ![page[j]] = None]
     \/ /\ status[j] # "success" \/ Faulty("net")
        /\ call' = [call EXCEPT ![j] = "done"]
        /\ UNCHANGED pdf
  /\ UNCHANGED <<serverVars, notifyVars, ws, page, polled, compiling>>

\* handlePDFDownload answers only for a successful job.
Download(j) ==
  /\ call[j] = "download"
  /\ call' = [call EXCEPT ![j] = "done"]
  /\ \/ status[j] = "success" /\ pdf' = [pdf EXCEPT ![page[j]] = j]
     \/ (status[j] # "success" \/ Faulty("net")) /\ UNCHANGED pdf
  /\ UNCHANGED <<serverVars, notifyVars, ws, page, polled, compiling>>

-----------------------------------------------------------------------------
Init ==
  /\ env \in Envs
  /\ Server!Init
  /\ subs = <<>> /\ senders = {}
  /\ buf = [c \in Jobs |-> <<>>] /\ toSend = [j \in Jobs |-> <<>>]
  /\ due = [j \in Jobs |-> {}] /\ got = [c \in Jobs |-> {}]
  /\ ws = [c \in Jobs |-> "none"]
  /\ call = [j \in Jobs |-> "none"] /\ page = [j \in Jobs |-> None]
  /\ polled = [j \in Jobs |-> None]
  /\ compiling = [t \in Pages |-> FALSE] /\ pdf = [t \in Pages |-> None]

\* The workers, and a deleted project.
ServerStep ==
  /\ \/ \E j \in Jobs : \/ Server!Start(j) \/ Server!StorePdf(j)
                        \/ Server!Succeed(j) \/ Server!FailJob(j)
     \/ Deletable /\ Server!Purge(Project)
  /\ UNCHANGED <<notifyVars, ws, pageVars>>

Notify ==
  \/ \E c \in Jobs : Subscribe(c) \/ Unsubscribe(c) \/ Deliver(c)
  \/ \E j \in Jobs : Publish(j) \/ Send(j) \/ \E c \in Jobs : SendLate(c, j)

PageStep(j) ==
  \/ Post(j) \/ Track(j) \/ PostFails(j) \/ Poll(j) \/ PollAnswer(j)
  \/ GiveUp(j) \/ ReadEnd(j) \/ Download(j)

Next ==
  /\ \/ \E t \in Pages, j \in Jobs : CompileNow(t, j)
     \/ \E j \in Jobs : PageStep(j)
     \/ ServerStep
     \/ Notify
  /\ UNCHANGED env

Spec == Init /\ [][Next]_<<vars, env>>

\* The page's timers fire and its requests are answered or fail; goroutines
\* that can run do; the workers end every job (EveryJobEnds of CompileManager).
Fairness ==
  /\ \A j \in Jobs :
       /\ WF_vars(Post(j)) /\ WF_vars(Track(j) \/ PostFails(j))
       /\ WF_vars(Poll(j)) /\ WF_vars(PollAnswer(j)) /\ WF_vars(GiveUp(j))
       /\ WF_vars(ReadEnd(j)) /\ WF_vars(Download(j))
       /\ WF_vars(Server!End(j) /\ UNCHANGED <<notifyVars, ws, pageVars>>)

FairSpec == Spec /\ Fairness

-----------------------------------------------------------------------------
(* Properties                                                              *)

TypeOK ==
  /\ status \in [Jobs -> {"none", "queued", "running", "deleted"} \cup Terminal]
  /\ stored \subseteq Jobs /\ announced \subseteq Jobs
  /\ subs \in Seq(Jobs)
  /\ buf \in [Jobs -> Seq(Jobs)] /\ \A c \in Jobs : Len(buf[c]) <= BufferCap
  /\ toSend \in [Jobs -> Seq(Jobs)] /\ senders \subseteq Jobs \X Jobs
  /\ due \in [Jobs -> SUBSET Jobs] /\ got \in [Jobs -> SUBSET Jobs]
  /\ ws \in [Jobs -> {"none", "opening", "open", "closed"}]
  /\ call \in [Jobs -> Calls] /\ page \in [Jobs -> Pages \cup {None}]
  /\ \A j \in Jobs : call[j] # "none" => page[j] \in Pages
  /\ polled \in [Jobs -> Terminal \cup {"queued", "running", None}]
  /\ compiling \in [Pages -> BOOLEAN] /\ pdf \in [Pages -> Jobs \cup {None}]

\* Where the message of job j for channel c is.
Places(c, j) ==
  {<<"loop", i>> : i \in {k \in DOMAIN toSend[j] : toSend[j][k] = c}} \cup
  {<<"buffer", i>> : i \in {k \in DOMAIN buf[c] : buf[c][k] = j}} \cup
  {<<"sender", 0>> : x \in {<<c, j>>} \cap senders} \cup
  {<<"page", 0>> : x \in {j} \cap got[c]}

\* The message that a job ended is in one place, once, for every page that was
\* subscribed when it was published and still is: a full channel, or pages
\* coming and going during the sends, neither lose nor repeat it.
NoticeKept ==
  \A j \in Jobs : \A c \in due[j] :
    ws[c] = "open" => Cardinality(Places(c, j)) = 1

\* A page follows one compile at a time: compilingRef is set exactly while one
\* of its calls is posting or tracking, whichever of the message, a late poll
\* and the timer ended the calls before.
OneCompile ==
  \A t \in Pages :
    LET active == {j \in Jobs : page[j] = t /\ call[j] \in Active}
    IN Cardinality(active) = IF compiling[t] THEN 1 ELSE 0

\* A page finalizes a call when its job has ended and not before, so the row
\* it then reads is the final one.
FinalizedAfterEnd ==
  ~Faulty("db") =>
    \A j \in Jobs : call[j] \in {"finalizing", "download"} =>
                      status[j] \in Terminal \cup {"deleted"}

\* Every compile gives the page back, whatever is lost on the way.
PageReleased == \A t \in Pages : Impatient /\ compiling[t] ~> ~compiling[t]

\* A page that does not give up, on a network that loses nothing, shows a PDF
\* when the job it follows succeeds, even if the job ended before the socket was
\* subscribed.
PdfArrives ==
  \A t \in Pages :
    /\ ~Faulty("net") /\ ~Impatient
    /\ \E j \in Jobs : page[j] = t /\ call[j] = "tracking" /\ status[j] = "success"
    ~> \E j \in Jobs : page[j] = t /\ (status[j] = "deleted" \/ pdf[t] = j)
=============================================================================
