---------------------------- MODULE PaperclawPanel ----------------------------
(***************************************************************************)
(* The panel that starts, follows and cancels Paperclaw jobs               *)
(* (EditorPaperclawPanel.tsx), composed with the jobs.  It polls the job   *)
(* every 1.5 s; polls do not wait for each other and all of them, of any   *)
(* job, stop the one timer and release the one button.                     *)
(***************************************************************************)
EXTENDS PaperclawJob

CONSTANTS GetBound      \* bound on the polls under way

\* Ids of jobs are UUIDs, none of them a state of the request.
PostStates == {"none", "sent", "orphan", "refused"}

ASSUME PanelAssumption == GetBound \in Nat \ {0} /\ PostStates \cap Jobs = {}

VARIABLES
  panel,    \* open; job (jobId); shown (st); busy; polling: the timer runs;
            \* post: the request to start; cancelling: the request to cancel
  gets,     \* the polls under way: [job, answer]
  slipped   \* history: the panel lost sight of a job (see OneJobAtATime)

panelVars == <<panel, gets, slipped>>
jobVars == <<vars, env>>

Slots == 1..GetBound
Closed == [open |-> FALSE, job |-> None, shown |-> None, busy |-> FALSE, polling |-> FALSE,
           post |-> "none", cancelling |-> None]

Free == {n \in Slots : gets[n] = None}
Poll(j) == gets' = [gets EXCEPT ![CHOOSE n \in Free : TRUE] = [job |-> j, answer |-> "unread"]]
Lossy == "net" \in env.faults \/ ~up

-----------------------------------------------------------------------------
(* Starting a job                                                          *)

StartJob ==
  /\ panel.open /\ ~panel.busy
  /\ panel.post = "none" /\ \E j \in env.jobs : status[j] = "none"
  /\ panel' = [panel EXCEPT !.busy = TRUE, !.shown = None, !.post = "sent"]
  /\ UNCHANGED <<jobVars, gets, slipped>>

\* The request is served; a panel that was closed does not see the answer.
PostServed(j) ==
  /\ panel.post \in {"sent", "orphan"}
  /\ Create(j)
  /\ panel' \in {[panel EXCEPT !.post = IF @ = "orphan" THEN "none" ELSE p] :
                   p \in (IF j \in handler' THEN {j} ELSE {"refused"})
                         \cup (IF Lossy THEN {"refused"} ELSE {})}
  /\ UNCHANGED <<gets, slipped, env>>

PostRefused ==
  /\ panel.post \in {"sent", "orphan"}
  /\ Lossy \/ ~editor \/ Faulty("db")
  /\ panel' = [panel EXCEPT !.post = IF @ = "orphan" THEN "none" ELSE "refused"]
  /\ UNCHANGED <<jobVars, gets, slipped>>

\* Mutant: the button is released when the job was made.
StartedFree ==
  /\ panel.post \in Jobs /\ Free # {}
  /\ panel' = [panel EXCEPT !.job = panel.post, !.post = "none", !.polling = TRUE,
                            !.busy = FALSE]
  /\ Poll(panel.post)
  /\ UNCHANGED <<jobVars, slipped>>

\* The new id replaces the timer, and the job is looked at at once.
Started ==
  /\ panel.post \in Jobs /\ Free # {}
  /\ panel' = [panel EXCEPT !.job = panel.post, !.post = "none", !.polling = TRUE]
  /\ Poll(panel.post)
  /\ UNCHANGED <<jobVars, slipped>>

StartFailed ==
  /\ panel.post = "refused"
  /\ panel' = [panel EXCEPT !.busy = FALSE, !.post = "none"]
  /\ slipped' = TRUE
  /\ UNCHANGED <<jobVars, gets>>

-----------------------------------------------------------------------------
(* Following it                                                            *)

Tick ==
  /\ panel.open /\ panel.polling /\ Free # {}
  /\ Poll(panel.job)
  /\ UNCHANGED <<jobVars, panel, slipped>>

\* handlePaperclawJob reads the row, or the request fails.
GetServed(n) ==
  /\ gets[n] # None /\ gets[n].answer = "unread"
  /\ \/ up /\ gets' = [gets EXCEPT ![n].answer = status[gets[n].job]]
     \/ (Lossy \/ Faulty("db")) /\ gets' = [gets EXCEPT ![n].answer = "error"]
  /\ UNCHANGED <<jobVars, panel, slipped>>

\* Mutant: an end stops the timer and leaves the button.
PollOnceKeepsBusy(n) ==
  /\ gets[n] # None /\ gets[n].answer # "unread"
  /\ LET a == gets[n].answer IN
       /\ panel' = [panel EXCEPT !.shown = IF a = "error" THEN @
                                           ELSE [job |-> gets[n].job, status |-> a],
                                 !.polling = @ /\ a \notin Ends \cup {"error"},
                                 !.busy = @ /\ a # "error"]
       /\ slipped' = (slipped \/ a = "error" \/ ~panel.polling \/ panel.job # gets[n].job)
  /\ gets' = [gets EXCEPT ![n] = None]
  /\ UNCHANGED jobVars

\* The end of pollOnce: an end or an error stops whatever timer runs.
PollOnce(n) ==
  /\ gets[n] # None /\ gets[n].answer # "unread"
  /\ LET a == gets[n].answer
         over == a \in Ends \cup {"error"} IN
       /\ panel' = [panel EXCEPT !.shown = IF a = "error" THEN @
                                           ELSE [job |-> gets[n].job, status |-> a],
                                 !.polling = @ /\ ~over, !.busy = @ /\ ~over]
       /\ slipped' = (slipped \/ a = "error" \/ ~panel.polling \/ panel.job # gets[n].job)
  /\ gets' = [gets EXCEPT ![n] = None]
  /\ UNCHANGED jobVars

-----------------------------------------------------------------------------
(* Cancelling it, and closing the panel                                    *)

CancelJob ==
  /\ "cancel" \in env.clicks
  /\ panel.open /\ panel.cancelling = None
  /\ panel.shown # None /\ panel.shown.status \in {"queued", "running"}
  /\ panel' = [panel EXCEPT !.cancelling = [job |-> panel.shown.job, done |-> FALSE]]
  /\ UNCHANGED <<jobVars, gets, slipped>>

CancelServed ==
  /\ panel.cancelling # None /\ ~panel.cancelling.done
  /\ Cancel(panel.cancelling.job)
  /\ panel' = [panel EXCEPT !.cancelling.done = TRUE]
  /\ UNCHANGED <<gets, slipped, env>>

CancelRefused ==
  /\ panel.cancelling # None /\ ~panel.cancelling.done
  /\ \/ Lossy \/ ~editor \/ Faulty("db")
     \/ status[panel.cancelling.job] \notin {"queued", "running"}
  /\ panel' = [panel EXCEPT !.cancelling = None]
  /\ UNCHANGED <<jobVars, gets, slipped>>

\* A cancelled job is looked at once more, timer or not.
Cancelled ==
  /\ panel.cancelling # None /\ panel.cancelling.done /\ Free # {}
  /\ panel' = [panel EXCEPT !.cancelling = None]
  /\ Poll(panel.cancelling.job)
  /\ UNCHANGED <<jobVars, slipped>>

\* Another tool of the side bar: all that the panel knew is gone, the job goes on.  The bound:
\* not while a request to cancel is under way.
Close ==
  /\ "close" \in env.clicks
  /\ panel.open /\ panel.cancelling = None
  /\ panel' = [Closed EXCEPT !.post = IF panel.post = "sent" THEN "orphan" ELSE "none"]
  /\ gets' = [n \in Slots |-> None]
  /\ slipped' = TRUE
  /\ UNCHANGED jobVars

Open ==
  /\ ~panel.open
  /\ panel' = [panel EXCEPT !.open = TRUE]
  /\ UNCHANGED <<jobVars, gets, slipped>>

-----------------------------------------------------------------------------
PanelInit == Init /\ panel = Closed /\ gets = [n \in Slots |-> None] /\ slipped = FALSE

\* What the browser and the network do by themselves.
Answers ==
  \/ \E j \in Jobs : PostServed(j)
  \/ PostRefused \/ Started \/ StartFailed
  \/ Tick \/ \E n \in Slots : GetServed(n) \/ PollOnce(n)
  \/ CancelServed \/ CancelRefused \/ Cancelled

PanelStep == Open \/ StartJob \/ Answers \/ CancelJob \/ Close

\* Without the panel requests come from anywhere.
PanelNext ==
  \/ ServerStep /\ UNCHANGED <<panelVars, env>>
  \/ ~env.panel /\ (\E j \in Jobs : Create(j) \/ Cancel(j)) /\ UNCHANGED <<panelVars, env>>
  \/ env.panel /\ PanelStep

PanelSpec == PanelInit /\ [][PanelNext]_<<jobVars, panelVars>>

\* The timer ticks and requests are answered or fail; nobody has to click.
PanelFairness ==
  /\ WF_panelVars(env.panel /\ Tick)
  /\ \A n \in Slots : WF_panelVars(env.panel /\ GetServed(n))
                      /\ WF_panelVars(env.panel /\ PollOnce(n))

PanelFairSpec == PanelSpec /\ Fairness /\ PanelFairness
-----------------------------------------------------------------------------
Active == {j \in Jobs : status[j] \in {"queued", "running"}}

\* The button of one panel has one job at a time running, over polls that overlap, a late
\* answer to an earlier one, and a cancellation.  Excepted is a panel that lost sight of
\* its job: it was closed, a request of it failed, or a poll answered after the timer had
\* stopped or been given to the next job (pollOnce, stopPoll).
OneJobAtATime == env.panel /\ ~slipped => Cardinality(Active) <= 1

\* A panel whose job ended does not stay busy with it.
PanelFollows == \A j \in Jobs :
  panel.busy /\ panel.post = "none" /\ panel.job = j /\ status[j] \in Ends
    ~> ~panel.busy \/ panel.job # j
=============================================================================
