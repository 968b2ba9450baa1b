------------------------------ MODULE CompileJob ------------------------------
(***************************************************************************)
(* A compile job as the clients of the HTTP API see it: the status they    *)
(* poll, the PDF they may download and the compile_done message. The       *)
(* editor, the agent's tools and the latest-PDF download rely on no more.  *)
(***************************************************************************)
CONSTANTS
  Jobs,
  ProjectOf,
  Faults    \* services that may fail; with "db" an update can be lost

VARIABLES status, stored, announced

vars == <<status, stored, announced>>

Terminal == {"success", "failed"}
Open == {"queued", "running"}

Submit(j) ==
  /\ status[j] = "none"
  /\ status' = [status EXCEPT ![j] = "queued"]
  /\ UNCHANGED <<stored, announced>>

Start(j) ==
  /\ status[j] = "queued"
  /\ status' = [status EXCEPT ![j] = "running"]
  /\ UNCHANGED <<stored, announced>>

\* The PDF is there before the status can say so. While the job runs it may be
\* put again, which no client sees.
StorePdf(j) ==
  /\ status[j] \in Open \cup {"deleted"}
  /\ j \notin stored
  /\ stored' = stored \cup {j}
  /\ UNCHANGED <<status, announced>>

Succeed(j) ==
  /\ status[j] \in Open
  /\ j \in stored
  /\ status' = [status EXCEPT ![j] = "success"]
  /\ UNCHANGED <<stored, announced>>

FailJob(j) ==
  /\ status[j] \in Open
  /\ status' = [status EXCEPT ![j] = "failed"]
  /\ UNCHANGED <<stored, announced>>

\* The message comes after the end, unless the end could not be recorded.
Announce(j) ==
  /\ status[j] \in Terminal \cup {"deleted"} \cup
       (IF "db" \in Faults THEN Open ELSE {})
  /\ j \notin announced
  /\ announced' = announced \cup {j}
  /\ UNCHANGED <<status, stored>>

\* The jobs of a project go with the project, whatever their state.
Purge(p) ==
  /\ status' = [j \in Jobs |-> IF ProjectOf[j] = p /\ status[j] # "none"
                               THEN "deleted" ELSE status[j]]
  /\ UNCHANGED <<stored, announced>>

Init ==
  /\ status = [j \in Jobs |-> "none"]
  /\ stored = {}
  /\ announced = {}

End(j) == Succeed(j) \/ FailJob(j)

Next ==
  \/ \E j \in Jobs : \/ Submit(j) \/ Start(j) \/ StorePdf(j) \/ Succeed(j)
                     \/ FailJob(j) \/ Announce(j)
  \/ \E j \in Jobs : Purge(ProjectOf[j])

Spec == Init /\ [][Next]_vars

\* Every job ends, and the end of one that still exists is announced.
Fairness ==
  \A j \in Jobs :
    /\ WF_vars(End(j))
    /\ WF_vars(status[j] \in Terminal /\ Announce(j))

FairSpec == Spec /\ Fairness
=============================================================================
