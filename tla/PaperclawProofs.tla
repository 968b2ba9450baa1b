---------------------------- MODULE PaperclawProofs ----------------------------
(***************************************************************************)
(* Theorems about the Paperclaw jobs and the panel that starts them, for   *)
(* every number of jobs, workers, files and turns, any capacity of the     *)
(* channel and any surroundings.                                           *)
(***************************************************************************)
EXTENDS PaperclawPanel, SequenceTheorems, FiniteSetTheorems, TLAPS

USE DEF vars, procVars, queueVars, runVars, histVars

-----------------------------------------------------------------------------
(* Lists and channels without repetition                                   *)

\* What is sent to a channel is in it, and is there once if it was not before.
LEMMA Appended ==
  ASSUME NEW S, NEW s \in Seq(S), NEW e \in S
  PROVE  /\ Range(Append(s, e)) = Range(s) \cup {e}
         /\ IsInjective(s) /\ e \notin Range(s) => IsInjective(Append(s, e))
<1> DEFINE t == Append(s, e)
<1>1. /\ Len(s) \in Nat /\ DOMAIN s = 1..Len(s)
      /\ t \in Seq(S) /\ Len(t) = Len(s) + 1
      /\ \A i \in 1..Len(s) : t[i] = s[i]
      /\ t[Len(s) + 1] = e
  BY AppendProperties, LenProperties
<1>2. DOMAIN t = 1..(Len(s) + 1)
  BY <1>1, LenProperties
<1> HIDE DEF t
<1>3. Range(t) = Range(s) \cup {e}
  <2>1. ASSUME NEW x \in Range(t) PROVE x \in Range(s) \cup {e}
    <3>1. PICK i \in 1..(Len(s) + 1) : x = t[i]
      BY <1>2, <2>1 DEF Range
    <3>2. CASE i = Len(s) + 1
      BY <1>1, <3>1, <3>2
    <3>3. CASE i # Len(s) + 1
      <4>1. i \in 1..Len(s)
        BY <1>1, <3>1, <3>3
      <4> QED
      BY <1>1, <3>1, <4>1 DEF Range
    <3> QED
    BY <3>2, <3>3
  <2>2. ASSUME NEW x \in Range(s) \cup {e} PROVE x \in Range(t)
    <3>1. CASE x = e
      <4>1. Len(s) + 1 \in DOMAIN t
        BY <1>1, <1>2
      <4> QED
      BY <1>1, <3>1, <4>1 DEF Range
    <3>2. CASE x \in Range(s)
      <4>1. PICK i \in 1..Len(s) : x = s[i]
        BY <1>1, <3>2 DEF Range
      <4>2. i \in DOMAIN t
        BY <1>1, <1>2
      <4> QED
      BY <1>1, <4>1, <4>2 DEF Range
    <3> QED
    BY <2>2, <3>1, <3>2
  <2> QED
  BY <2>1, <2>2
<1>4. ASSUME IsInjective(s), e \notin Range(s) PROVE IsInjective(t)
  <2> SUFFICES ASSUME NEW a \in 1..(Len(s) + 1), NEW b \in 1..(Len(s) + 1), t[a] = t[b]
               PROVE  a = b
    BY <1>2 DEF IsInjective
  <2>1. \A i \in 1..Len(s) : t[i] \in Range(s)
    BY <1>1 DEF Range
  <2>2. CASE a \in 1..Len(s) /\ b \in 1..Len(s)
    BY <1>1, <1>4, <2>2 DEF IsInjective
  <2>3. CASE a = Len(s) + 1 \/ b = Len(s) + 1
    BY <1>1, <1>4, <2>1, <2>3
  <2> QED
  BY <1>1, <2>2, <2>3
<1> QED
BY <1>3, <1>4 DEF t

\* What is received was in the channel, and is not any more.
LEMMA Received ==
  ASSUME NEW S, NEW s \in Seq(S), s # <<>>
  PROVE  /\ Range(s) = Range(Tail(s)) \cup {Head(s)}
         /\ IsInjective(s) => Head(s) \notin Range(Tail(s)) /\ IsInjective(Tail(s))
<1> DEFINE t == Tail(s)
<1>1. /\ Len(s) \in Nat \ {0} /\ DOMAIN s = 1..Len(s)
      /\ t \in Seq(S) /\ Len(t) = Len(s) - 1
      /\ \A i \in 1..(Len(s) - 1) : t[i] = s[i + 1]
  BY EmptySeq, HeadTailProperties, LenProperties
<1>2. DOMAIN t = 1..(Len(s) - 1) /\ Head(s) = s[1]
  BY <1>1, LenProperties
<1> HIDE DEF t
<1>3. Range(s) = Range(t) \cup {Head(s)}
  <2>1. ASSUME NEW x \in Range(s) PROVE x \in Range(t) \cup {Head(s)}
    <3>1. PICK i \in 1..Len(s) : x = s[i]
      BY <1>1, <2>1 DEF Range
    <3>2. CASE i = 1
      BY <1>2, <3>1, <3>2
    <3>3. CASE i # 1
      <4>1. i - 1 \in 1..(Len(s) - 1) /\ (i - 1) + 1 = i
        BY <1>1, <3>1, <3>3
      <4>2. t[i - 1] = x
        BY <1>1, <3>1, <4>1
      <4> QED
      BY <1>2, <4>1, <4>2 DEF Range
    <3> QED
    BY <3>2, <3>3
  <2>2. ASSUME NEW i \in 1..(Len(s) - 1) PROVE t[i] \in Range(s)
    <3>1. i + 1 \in DOMAIN s
      BY <1>1
    <3> QED
    BY <1>1, <3>1 DEF Range
  <2>3. Head(s) \in Range(s)
    <3>1. 1 \in DOMAIN s
      BY <1>1
    <3> QED
    BY <1>2, <3>1 DEF Range
  <2>4. Range(t) \subseteq Range(s)
    BY <1>2, <2>2 DEF Range
  <2> QED
  BY <2>1, <2>3, <2>4
<1>4. ASSUME IsInjective(s) PROVE Head(s) \notin Range(t) /\ IsInjective(t)
  <2>1. \A a, b \in 1..Len(s) : s[a] = s[b] => a = b
    BY <1>1, <1>4 DEF IsInjective
  <2>2. \A i \in 1..(Len(s) - 1) : t[i] # Head(s)
    <3> TAKE i \in 1..(Len(s) - 1)
    <3>1. i + 1 \in 1..Len(s) /\ 1 \in 1..Len(s) /\ i + 1 # 1
      BY <1>1
    <3> QED
    BY <1>1, <1>2, <2>1, <3>1
  <2>3. ASSUME NEW a \in 1..(Len(s) - 1), NEW b \in 1..(Len(s) - 1), t[a] = t[b] PROVE a = b
    <3>1. a + 1 \in 1..Len(s) /\ b + 1 \in 1..Len(s)
      BY <1>1
    <3>2. a + 1 = b + 1
      BY <1>1, <2>1, <2>3, <3>1
    <3> QED
    BY <3>2
  <2> QED
  BY <1>2, <2>2, <2>3 DEF IsInjective, Range
<1> QED
BY <1>3, <1>4 DEF t

-----------------------------------------------------------------------------
(* Types                                                                   *)

Typed == TypeOK /\ env \in Envs

\* The requests and the server's steps, whoever asks.
JobStep == ServerStep \/ \E j \in Jobs : Create(j) \/ Cancel(j)

LEMMA InitTyped == Init => Typed
  BY PaperclawAssumption DEF Init, Typed, TypeOK, NoFiles, PCs

\* A worker in the middle of a run has a job.
LEMMA BusyHasJob ==
  ASSUME Typed, NEW w \in Workers, pc[w] \notin {"idle", "stopped"}
  PROVE  job[w] \in Jobs
  BY DEF Typed, TypeOK

LEMMA SetStatusTyped ==
  ASSUME Typed, NEW j \in Jobs, NEW s \in {"running"} \cup Ends, SetStatus(j, s)
  PROVE  status' \in [Jobs -> {"none", "queued", "running"} \cup Ends]
  BY DEF Typed, TypeOK, SetStatus, Ends

\* A worker that returns is free of its job.
LEMMA ReturnTyped ==
  ASSUME Typed, NEW w \in Workers, up, Return(w)
  PROVE  /\ pc' \in [Workers -> PCs] /\ job' \in [Workers -> Jobs \cup {None}]
         /\ \A v \in Workers : job'[v] = None <=> pc'[v] \in {"idle", "stopped"}
         /\ \A v \in Workers : pc'[v] # "stopped"
         /\ turn' \in [Workers -> 0..env.turns]
         /\ pending' \in [Workers -> [Paths -> Contents \cup {None}]]
         /\ ctxDone' \subseteq Workers /\ failed' \subseteq Workers
  BY PaperclawAssumption DEF Typed, TypeOK, Return, Goto, PCs, NoFiles

\* One file of a function from owners to files.
LEMMA FileTyped ==
  ASSUME NEW S, NEW g \in [S -> [Paths -> Contents \cup {None}]], NEW x \in S,
         NEW f \in Paths, NEW c \in Contents \cup {None}
  PROVE  [g EXCEPT ![x][f] = c] \in [S -> [Paths -> Contents \cup {None}]]
<1>1. [g[x] EXCEPT ![f] = c] \in [Paths -> Contents \cup {None}]
  OBVIOUS
<1> QED
BY <1>1

\* Every step of the server keeps the types.
LEMMA JobStepTyped == Typed /\ JobStep /\ UNCHANGED env => Typed'
<1> SUFFICES ASSUME Typed, JobStep, UNCHANGED env PROVE Typed'
  OBVIOUS
<1> USE PaperclawAssumption
<1>0. /\ env.jobs \subseteq Jobs /\ env.workers \subseteq Workers
      /\ env.paths \subseteq Paths /\ env.turns \in Nat
  BY DEF Typed
<1>1. ASSUME NEW j \in Jobs, Create(j) PROVE Typed'
  BY <1>1 DEF Create, Typed, TypeOK
<1>2. ASSUME NEW j \in Jobs, Cancel(j) PROVE Typed'
  BY <1>2 DEF Cancel, Typed, TypeOK
<1>3. ASSUME NEW j \in Jobs, Len(chan) < QueueCap
      PROVE  Append(chan, j) \in Seq(Jobs) /\ Len(Append(chan, j)) <= QueueCap
  <2>1. chan \in Seq(Jobs)
    BY DEF Typed, TypeOK
  <2> QED
  BY <1>3, <2>1, AppendProperties, LenProperties
<1>4. ASSUME NEW j \in Jobs, Enqueue(j) PROVE Typed'
  BY <1>3, <1>4 DEF Enqueue, Typed, TypeOK
<1>5. ASSUME NEW j \in Jobs, SendOverflow(j) PROVE Typed'
  BY <1>3, <1>5 DEF SendOverflow, Typed, TypeOK
<1>6. ASSUME NEW w \in Workers, Take(w) PROVE Typed'
  <2>1. Head(chan) \in Jobs /\ Tail(chan) \in Seq(Jobs) /\ Len(Tail(chan)) <= QueueCap
    BY <1>6, HeadTailProperties, LenProperties DEF Take, Typed, TypeOK
  <2> QED
  BY <1>6, <2>1 DEF Take, At, Goto, Typed, TypeOK, PCs
<1>7. ASSUME NEW w \in Workers, Load(w) PROVE Typed'
  <2>1. CASE Goto(w, "role") /\ UNCHANGED runVars
    BY <1>7, <2>1 DEF Load, At, Goto, Typed, TypeOK, PCs
  <2>2. CASE Return(w)
    BY <1>7, <2>2, ReturnTyped DEF Load, At, Typed, TypeOK
  <2> QED
  BY <1>7, <2>1, <2>2 DEF Load
<1>8. ASSUME NEW w \in Workers, CheckRole(w) PROVE Typed'
  <2>1. CASE Goto(w, "begin") /\ UNCHANGED <<runVars, status>>
    BY <1>8, <2>1 DEF CheckRole, At, Goto, Typed, TypeOK, PCs
  <2>2. CASE SetStatus(job[w], "failed") /\ Return(w)
    <3>1. status' \in [Jobs -> {"none", "queued", "running"} \cup Ends]
      BY <1>8, <2>2, BusyHasJob, SetStatusTyped DEF CheckRole, At, Ends
    <3> QED
    BY <1>8, <2>2, <3>1, ReturnTyped DEF CheckRole, At, Typed, TypeOK
  <2> QED
  BY <1>8, <2>1, <2>2 DEF CheckRole
<1>9. ASSUME NEW w \in Workers, Begin(w) PROVE Typed'
  <2>1. status' \in [Jobs -> {"none", "queued", "running"} \cup Ends]
    BY <1>9, BusyHasJob, SetStatusTyped DEF Begin, At
  <2> QED
  BY <1>9, <2>1 DEF Begin, At, Goto, Typed, TypeOK, PCs
<1>10. ASSUME NEW w \in Workers, PollCancel(w) PROVE Typed'
  BY <1>10 DEF PollCancel, Typed, TypeOK
<1>11. ASSUME NEW w \in Workers, AskTools(w) PROVE Typed'
  <2>1. turn[w] + 1 \in 0..env.turns
    BY <1>0, <1>11 DEF AskTools, Typed, TypeOK
  <2> QED
  BY <1>11, <2>1 DEF AskTools, At, Goto, Typed, TypeOK, PCs
<1>12. ASSUME NEW w \in Workers, AskDone(w) \/ LastTurn(w) \/ AskFails(w) PROVE Typed'
  BY <1>12 DEF AskDone, LastTurn, AskFails, Flush, At, Goto, Typed, TypeOK, PCs
<1>13. ASSUME NEW w \in Workers, NEW f \in env.paths, NEW c \in Contents,
              WriteDraft(w, f, c) \/ WriteLarge(w, f, c)
       PROVE  Typed'
  <2>1. job[w] \in Jobs
    BY <1>13, BusyHasJob DEF WriteDraft, WriteLarge, At
  <2>2. CASE WriteDraft(w, f, c)
    <3>1. /\ pending' \in [Workers -> [Paths -> Contents \cup {None}]]
          /\ drafted' \in [Jobs -> [Paths -> Contents \cup {None}]]
      BY <1>0, <2>1, <2>2, FileTyped DEF WriteDraft, Typed, TypeOK
    <3> QED
    BY <2>2, <3>1 DEF WriteDraft, Typed, TypeOK
  <2>3. CASE WriteLarge(w, f, c)
    <3>1. /\ written' \in [Jobs -> [Paths -> Contents \cup {None}]]
          /\ drafted' \in [Jobs -> [Paths -> Contents \cup {None}]]
      BY <1>0, <2>1, <2>3, FileTyped DEF WriteLarge, Typed, TypeOK
    <3> QED
    BY <2>3, <3>1 DEF WriteLarge, Typed, TypeOK
  <2> QED
  BY <1>13, <2>2, <2>3
<1>14. ASSUME NEW w \in Workers, ToolsDone(w) PROVE Typed'
  BY <1>14 DEF ToolsDone, At, Goto, Typed, TypeOK, PCs
<1>15. ASSUME NEW w \in Workers, NEW f \in Paths, FlushFile(w, f) PROVE Typed'
  <2>1. job[w] \in Jobs
    BY <1>15, BusyHasJob DEF FlushFile, At
  <2>2. pending' \in [Workers -> [Paths -> Contents \cup {None}]]
    BY <1>15, FileTyped DEF FlushFile, Typed, TypeOK
  <2>3. pending[w][f] \in Contents \cup {None}
    BY DEF Typed, TypeOK
  <2>4. written' \in [Jobs -> [Paths -> Contents \cup {None}]]
    <3>1. written \in [Jobs -> [Paths -> Contents \cup {None}]]
      BY DEF Typed, TypeOK
    <3>2. [written EXCEPT ![job[w]][f] = pending[w][f]]
            \in [Jobs -> [Paths -> Contents \cup {None}]]
      BY <2>1, <2>3, <3>1, FileTyped
    <3> QED
    BY <1>15, <3>1, <3>2 DEF FlushFile
  <2> QED
  BY <1>15, <2>2, <2>4 DEF FlushFile, At, Goto, Typed, TypeOK, PCs
<1>16. ASSUME NEW w \in Workers, End(w) PROVE Typed'
  <2>1. status' \in [Jobs -> {"none", "queued", "running"} \cup Ends]
    BY <1>16, BusyHasJob, SetStatusTyped DEF End, At, Ends
  <2> QED
  BY <1>16, <2>1, ReturnTyped DEF End, At, Typed, TypeOK
<1>17. CASE ChangeRole
  BY <1>17 DEF ChangeRole, Typed, TypeOK
<1>18. CASE Stop
  <2>1. <<>> \in Seq(Jobs) /\ Len(<<>>) = 0
    BY EmptySeq
  <2>2. NoFiles \in [Paths -> Contents \cup {None}] /\ 0 \in 0..env.turns /\ "stopped" \in PCs
    BY <1>0 DEF NoFiles, PCs
  <2>3. stops' \in Nat
    BY <1>18 DEF Stop, Typed, TypeOK
  <2>4. /\ pc' \in [Workers -> PCs] /\ job' \in [Workers -> Jobs \cup {None}]
        /\ turn' \in [Workers -> 0..env'.turns]
        /\ pending' \in [Workers -> [Paths -> Contents \cup {None}]]
        /\ \A w \in Workers : job'[w] = None <=> pc'[w] \in {"idle", "stopped"}
        /\ \A w \in Workers : pc'[w] = "stopped" <=> ~up'
    BY <1>18, <2>2 DEF Stop
  <2>5. chan' \in Seq(Jobs) /\ Len(chan') <= QueueCap
    <3>1. chan' = <<>>
      BY <1>18 DEF Stop
    <3>2. chan' \in Seq(Jobs) /\ Len(chan') = 0
      BY <2>1, <3>1
    <3> QED
    BY <3>2
  <2>6. /\ handler' \subseteq Jobs /\ overflow' \subseteq Jobs /\ up' \in BOOLEAN
        /\ ctxDone' \subseteq Workers /\ failed' \subseteq Workers
    BY <1>18 DEF Stop
  <2> QED
  BY <1>18, <2>3, <2>4, <2>5, <2>6 DEF Stop, Typed, TypeOK
<1>19. CASE Restart
  BY <1>19 DEF Restart, Typed, TypeOK, PCs
<1> QED
BY <1>0, <1>1, <1>2, <1>4, <1>5, <1>6, <1>7, <1>8, <1>9, <1>10, <1>11, <1>12, <1>13,
   <1>14, <1>15, <1>16, <1>17, <1>18, <1>19
   DEF JobStep, ServerStep, WorkerStep, Advance
-----------------------------------------------------------------------------
(* Where a job is, and what its row says meanwhile                         *)

Waiting == handler \cup overflow \cup Range(chan)

\* A job is in one place: with its request, in the channel, with a blocked
\* sender, or with one worker.
HeldOnce ==
  /\ handler \cap overflow = {} /\ Range(chan) \cap (handler \cup overflow) = {}
  /\ IsInjective(chan)
  /\ \A w \in Workers : job[w] \notin Waiting
  /\ \A v, w \in Workers : job[v] = job[w] /\ job[v] # None => v = w

\* The row of a job that waits, or whose worker has not begun, is queued; that of
\* a job in the pipeline is active.
RowOfPlace ==
  /\ \A j \in Waiting : status[j] = "queued"
  /\ \A w \in Workers : pc[w] \in {"load", "role", "begin"} => status[job[w]] = "queued"
  /\ \A w \in Workers : pc[w] \in InPipeline => status[job[w]] \in {"queued", "running"}
  /\ \A w \in Workers :
       pc[w] \in InPipeline /\ ~Faulty("db") => status[job[w]] = "running"

Placed == Typed /\ HeldOnce /\ RowOfPlace

LEMMA InitPlaced == Init => Placed
<1> SUFFICES ASSUME Init PROVE HeldOnce /\ RowOfPlace
  BY InitTyped DEF Placed
<1>1. DOMAIN chan = {} /\ Range(chan) = {}
  <2>1. DOMAIN <<>> = 1..0
    BY EmptySeq, LenProperties
  <2> QED
  BY <2>1 DEF Init, Range
<1> QED
BY <1>1 DEF Init, HeldOnce, RowOfPlace, Waiting, IsInjective, InPipeline

\* The steps that move no job and write no row.
LEMMA QuietPlaced ==
  ASSUME Placed, Typed', UNCHANGED <<queueVars, job, status, env>>,
         \A w \in Workers : \/ pc'[w] = pc[w]
                            \/ {pc[w], pc'[w]} \subseteq InPipeline
                            \/ pc[w] \in {"load", "role"} /\ pc'[w] \in {"role", "begin"}
                            \/ pc'[w] \in {"idle", "stopped"}
  PROVE  Placed'
  BY DEF Placed, HeldOnce, RowOfPlace, Waiting, Range, IsInjective, Faulty, InPipeline

\* A worker leaves its job, whose row may have been written.
LEMMA ReturnPlaced ==
  ASSUME Placed, Typed', NEW w \in Workers, Return(w), job[w] \in Jobs,
         UNCHANGED <<queueVars, env>>,
         \A j \in Jobs \ {job[w]} : status'[j] = status[j]
  PROVE  Placed'
<1>1. pc'[w] = "idle" /\ job'[w] = None
  BY DEF Return, Goto, Placed, Typed, TypeOK
<1>2. \A v \in Workers \ {w} : pc'[v] = pc[v] /\ job'[v] = job[v]
  BY DEF Return, Goto, Placed, Typed, TypeOK
<1>3. HeldOnce'
  <2>1. None \notin Waiting
    BY PaperclawAssumption, RangeOfSeq DEF Placed, Typed, TypeOK, Waiting
  <2>2. Waiting' = Waiting /\ Range(chan') = Range(chan) /\ (IsInjective(chan))'
    BY DEF Waiting, Range, IsInjective, Placed, HeldOnce
  <2>3. \A v \in Workers : job'[v] \notin Waiting'
    BY <1>1, <1>2, <2>1, <2>2 DEF Placed, HeldOnce
  <2>4. \A u, v \in Workers : job'[u] = job'[v] /\ job'[u] # None => u = v
    BY <1>1, <1>2 DEF Placed, HeldOnce
  <2> QED
  BY <2>2, <2>3, <2>4 DEF Placed, HeldOnce
<1>4. \A v \in Workers \ {w} : job[v] \in Jobs => status'[job[v]] = status[job[v]]
  BY PaperclawAssumption DEF Placed, HeldOnce
<1>5. \A v \in Workers : pc[v] \in {"load", "role", "begin"} \cup InPipeline => job[v] \in Jobs
  BY DEF Placed, Typed, TypeOK, InPipeline
<1>6. \A j \in Waiting : status'[j] = status[j]
  <2>1. Waiting \subseteq Jobs
    BY RangeOfSeq DEF Placed, Typed, TypeOK, Waiting
  <2>2. job[w] \notin Waiting
    BY DEF Placed, HeldOnce
  <2> QED
  BY <2>1, <2>2
<1>7. Waiting' = Waiting
  BY DEF Waiting, Range
<1>8. RowOfPlace'
  BY <1>1, <1>2, <1>4, <1>5, <1>6, <1>7 DEF Placed, RowOfPlace, Faulty, InPipeline
<1> QED
BY <1>3, <1>8 DEF Placed

\* Every step of the server keeps each job in one place.
LEMMA JobStepPlaced == Placed /\ JobStep /\ UNCHANGED env => Placed'
<1> SUFFICES ASSUME Placed, JobStep, UNCHANGED env PROVE Placed'
  OBVIOUS
<1> USE PaperclawAssumption
<1>0. Typed /\ Typed' /\ Waiting \subseteq Jobs /\ chan \in Seq(Jobs)
  BY JobStepTyped, RangeOfSeq DEF Placed, Typed, TypeOK, Waiting
<1>1. ASSUME NEW j \in Jobs, Create(j) PROVE Placed'
  <2>1. j \notin Waiting /\ \A w \in Workers : job[w] # j
    <3>1. status[j] = "none"
      BY <1>1 DEF Create
    <3>2. ASSUME NEW w \in Workers, job[w] = j PROVE FALSE
      <4>1. pc[w] \in {"load", "role", "begin"} \cup InPipeline
        BY <1>0, <3>2 DEF Typed, TypeOK, PCs, InPipeline
      <4> QED
      BY <3>1, <3>2, <4>1 DEF Placed, RowOfPlace
    <3> QED
    BY <3>1, <3>2 DEF Placed, RowOfPlace
  <2>2. \A w \in Workers : pc[w] \notin {"idle", "stopped"} => job[w] \in Jobs
    BY <1>0, BusyHasJob
  <2>3. \A i \in Jobs : status'[i] = IF i = j THEN "queued" ELSE status[i]
    BY <1>0, <1>1 DEF Create, Typed, TypeOK
  <2>4. Waiting' \in {Waiting, Waiting \cup {j}} /\ handler' \in {handler, handler \cup {j}}
    BY <1>1 DEF Create, Waiting, Range
  <2>5. HeldOnce'
    BY <1>1, <2>1, <2>4 DEF Create, Placed, HeldOnce, Waiting, Range, IsInjective
  <2>6. RowOfPlace'
    <3>1. \A i \in Waiting' : status'[i] = "queued"
      BY <1>0, <2>3, <2>4 DEF Placed, RowOfPlace
    <3>2. \A w \in Workers : pc[w] \notin {"idle", "stopped"} => status'[job[w]] = status[job[w]]
      BY <2>1, <2>2, <2>3
    <3>3. UNCHANGED <<pc, job>>
      BY <1>1 DEF Create
    <3> QED
    BY <3>1, <3>2, <3>3 DEF Placed, RowOfPlace, Faulty, InPipeline
  <2> QED
  BY <1>0, <2>5, <2>6 DEF Placed
<1>2. ASSUME NEW j \in Jobs, Cancel(j) PROVE Placed'
  BY <1>0, <1>2, QuietPlaced DEF Cancel
<1>3. ASSUME NEW j \in Jobs, Enqueue(j) \/ SendOverflow(j) PROVE Placed'
  <2>1. j \in Waiting /\ j \notin Range(chan)
    BY <1>3 DEF Enqueue, SendOverflow, Placed, HeldOnce, Waiting
  <2>2. \/ UNCHANGED chan
        \/ Range(chan') = Range(chan) \cup {j} /\ IsInjective(chan')
    <3>1. /\ Range(Append(chan, j)) = Range(chan) \cup {j}
          /\ IsInjective(Append(chan, j))
      BY <1>0, <2>1, Appended DEF Placed, HeldOnce
    <3>2. chan' \in {chan, Append(chan, j)}
      BY <1>3 DEF Enqueue, SendOverflow
    <3> QED
    BY <3>1, <3>2
  <2>3. Range(chan') \cap (handler' \cup overflow') = {} /\ handler' \cap overflow' = {}
        /\ Waiting' = Waiting
    <3>1. CASE Enqueue(j) /\ UNCHANGED chan /\ overflow' = overflow \cup {j}
      <4>1. handler' = handler \ {j} /\ overflow' = overflow \cup {j}
            /\ Range(chan') = Range(chan) /\ j \in handler
        BY <3>1 DEF Enqueue
      <4> QED
      BY <2>1, <4>1 DEF Placed, HeldOnce, Waiting
    <3>2. ASSUME chan' = Append(chan, j) PROVE Range(chan') = Range(chan) \cup {j}
      BY <1>0, <3>2, Appended
    <3>3. CASE Enqueue(j) /\ chan' = Append(chan, j) /\ UNCHANGED overflow
      BY <2>1, <3>2, <3>3 DEF Enqueue, Placed, HeldOnce, Waiting
    <3>4. CASE SendOverflow(j)
      BY <2>1, <3>2, <3>4 DEF SendOverflow, Placed, HeldOnce, Waiting
    <3> QED
    BY <1>3, <3>1, <3>3, <3>4 DEF Enqueue
  <2>4. UNCHANGED <<pc, job, status>>
    BY <1>3 DEF Enqueue, SendOverflow
  <2>5. HeldOnce'
    BY <2>2, <2>3, <2>4 DEF Placed, HeldOnce
  <2>6. RowOfPlace'
    BY <2>3, <2>4 DEF Placed, RowOfPlace, Faulty
  <2> QED
  BY <1>0, <2>5, <2>6 DEF Placed
<1>4. ASSUME NEW w \in Workers, Take(w) PROVE Placed'
  <2>1. /\ Range(chan) = Range(chan') \cup {Head(chan)} /\ Head(chan) \notin Range(chan')
        /\ IsInjective(chan') /\ Head(chan) \in Jobs
    BY <1>0, <1>4, Received, HeadTailProperties DEF Take, Placed, HeldOnce
  <2>2. UNCHANGED <<handler, overflow, status>>
    BY <1>4 DEF Take
  <2>3. Waiting' = Waiting \ {Head(chan)} /\ Head(chan) \in Waiting
    BY <2>1, <2>2 DEF Waiting, Placed, HeldOnce
  <2>4. \A v \in Workers : /\ job'[v] = IF v = w THEN Head(chan) ELSE job[v]
                           /\ pc'[v] = IF v = w THEN "load" ELSE pc[v]
    BY <1>0, <1>4 DEF Take, Goto, Typed, TypeOK
  <2>5. HeldOnce'
    BY <2>1, <2>2, <2>3, <2>4 DEF Placed, HeldOnce
  <2>6. RowOfPlace'
    BY <2>2, <2>3, <2>4 DEF Placed, RowOfPlace, Faulty, InPipeline
  <2> QED
  BY <1>0, <2>5, <2>6 DEF Placed
<1>5. ASSUME NEW w \in Workers, Load(w) PROVE Placed'
  <2>1. CASE Goto(w, "role") /\ UNCHANGED runVars
    BY <1>0, <1>5, <2>1, QuietPlaced DEF Load, At, Goto, Typed, TypeOK
  <2>2. CASE Return(w)
    BY <1>0, <1>5, <2>2, BusyHasJob, ReturnPlaced DEF Load, At
  <2> QED
  BY <1>5, <2>1, <2>2 DEF Load
<1>6. ASSUME NEW w \in Workers, CheckRole(w) PROVE Placed'
  <2>1. CASE Goto(w, "begin") /\ UNCHANGED <<runVars, status>>
    BY <1>0, <1>6, <2>1, QuietPlaced DEF CheckRole, At, Goto, Typed, TypeOK
  <2>2. CASE SetStatus(job[w], "failed") /\ Return(w)
    <3>1. \A j \in Jobs \ {job[w]} : status'[j] = status[j]
      BY <1>0, <2>2 DEF SetStatus, Typed, TypeOK
    <3> QED
    BY <1>0, <1>6, <2>2, <3>1, BusyHasJob, ReturnPlaced DEF CheckRole, At
  <2> QED
  BY <1>6, <2>1, <2>2 DEF CheckRole
<1>7. ASSUME NEW w \in Workers, Begin(w) PROVE Placed'
  <2>1. job[w] \in Jobs /\ job[w] \notin Waiting
    BY <1>0, <1>7, BusyHasJob DEF Begin, At, Placed, HeldOnce
  <2>2. /\ \A j \in Jobs \ {job[w]} : status'[j] = status[j]
        /\ status'[job[w]] \in {status[job[w]], "running"}
        /\ ~Faulty("db") => status'[job[w]] = "running"
    BY <1>0, <1>7, <2>1 DEF Begin, SetStatus, Typed, TypeOK
  <2>3. \A v \in Workers : pc'[v] = IF v = w THEN "turn" ELSE pc[v]
    BY <1>0, <1>7 DEF Begin, Goto, Typed, TypeOK
  <2>4. UNCHANGED <<queueVars, job>> /\ pc[w] = "begin"
    BY <1>7 DEF Begin, At
  <2>5. Waiting' = Waiting
    BY <2>4 DEF Waiting, Range
  <2>6. HeldOnce'
    BY <2>4, <2>5 DEF Placed, HeldOnce, Range, IsInjective
  <2>7. \A v \in Workers \ {w} : pc[v] \notin {"idle", "stopped"} =>
          job[v] \in Jobs \ {job[w]}
    BY <1>0, <2>1, BusyHasJob DEF Placed, HeldOnce
  <2>8. RowOfPlace'
    BY <1>0, <2>1, <2>2, <2>3, <2>4, <2>5, <2>7 DEF Placed, RowOfPlace, Faulty, InPipeline
  <2> QED
  BY <1>0, <2>6, <2>8 DEF Placed
<1>8. ASSUME NEW w \in Workers, PollCancel(w) PROVE Placed'
  BY <1>0, <1>8, QuietPlaced DEF PollCancel
<1>9. ASSUME NEW w \in Workers,
             AskTools(w) \/ AskDone(w) \/ LastTurn(w) \/ AskFails(w) \/ ToolsDone(w)
      PROVE  Placed'
  <2>1. \A v \in Workers : pc'[v] = pc[v] \/ {pc[v], pc'[v]} \subseteq InPipeline
    BY <1>0, <1>9 DEF AskTools, AskDone, LastTurn, AskFails, ToolsDone, Flush, At, Goto,
                      Typed, TypeOK, InPipeline
  <2>2. UNCHANGED <<queueVars, job, status>>
    BY <1>9 DEF AskTools, AskDone, LastTurn, AskFails, ToolsDone
  <2> QED
  BY <1>0, <2>1, <2>2, QuietPlaced
<1>10. ASSUME NEW w \in Workers, NEW f, NEW c, WriteDraft(w, f, c) \/ WriteLarge(w, f, c)
       PROVE  Placed'
  BY <1>0, <1>10, QuietPlaced DEF WriteDraft, WriteLarge
<1>11. ASSUME NEW w \in Workers, NEW f \in Paths, FlushFile(w, f) PROVE Placed'
  <2>1. \A v \in Workers : pc'[v] = pc[v] \/ {pc[v], pc'[v]} \subseteq InPipeline
    BY <1>0, <1>11 DEF FlushFile, At, Goto, Typed, TypeOK, InPipeline
  <2> QED
  BY <1>0, <1>11, <2>1, QuietPlaced DEF FlushFile
<1>12. ASSUME NEW w \in Workers, End(w) PROVE Placed'
  <2>1. \A j \in Jobs \ {job[w]} : status'[j] = status[j]
    BY <1>0, <1>12 DEF End, SetStatus, Typed, TypeOK
  <2> QED
  BY <1>0, <1>12, <2>1, BusyHasJob, ReturnPlaced DEF End, At
<1>13. CASE ChangeRole
  BY <1>0, <1>13, QuietPlaced DEF ChangeRole
<1>14. CASE Stop
  <2>1. Waiting' = {} /\ Range(chan') = {} /\ IsInjective(chan')
    <3>1. chan' = <<>> /\ handler' = {} /\ overflow' = {} /\ DOMAIN <<>> = {}
      BY <1>14, EmptySeq, LenProperties DEF Stop
    <3> QED
    BY <3>1 DEF Waiting, Range, IsInjective
  <2> QED
  BY <1>0, <1>14, <2>1 DEF Stop, Placed, HeldOnce, RowOfPlace, InPipeline
<1>15. CASE Restart
  <2>1. UNCHANGED <<queueVars, job, status>> /\ \A w \in Workers : pc'[w] = "idle"
    BY <1>15 DEF Restart
  <2> QED
  BY <1>0, <2>1, QuietPlaced
<1> QED
BY <1>1, <1>2, <1>3, <1>4, <1>5, <1>6, <1>7, <1>8, <1>9, <1>10, <1>11, <1>12, <1>13,
   <1>14, <1>15 DEF JobStep, ServerStep, WorkerStep, Advance

-----------------------------------------------------------------------------
(* What a step does to the rows                                            *)

Live == {"queued", "running"}

\* The row that a worker writes is that of a job that has not ended.
LEMMA WorkerRow ==
  ASSUME Placed, NEW w \in Workers, pc[w] \notin {"idle", "stopped"}
  PROVE  job[w] \in Jobs /\ status[job[w]] \in Live
<1>1. job[w] \in Jobs
  BY BusyHasJob DEF Placed
<1>2. pc[w] \in {"load", "role", "begin"} \cup InPipeline
  BY DEF Placed, Typed, TypeOK, PCs, InPipeline
<1> QED
BY <1>1, <1>2 DEF Placed, RowOfPlace, Live

\* The server's steps write rows that have not ended.
LEMMA ServerRows ==
  ASSUME Placed, ServerStep \/ (\E i \in Jobs : Cancel(i)), NEW j \in Jobs
  PROVE  \/ status'[j] = status[j]
         \/ status[j] \in Live /\ status'[j] \in {"running"} \cup Ends
<1>1. ASSUME NEW w \in Workers, NEW new \in {"running"} \cup Ends, pc[w] \in {"role", "begin", "end"},
             status' = status \/ status' = [status EXCEPT ![job[w]] = new]
      PROVE  status'[j] = status[j] \/ (status[j] \in Live /\ status'[j] = new)
  BY <1>1, WorkerRow DEF Placed, Typed, TypeOK
<1>2. ASSUME NEW w \in Workers, CheckRole(w) \/ Begin(w)
      PROVE  status'[j] = status[j] \/ (status[j] \in Live /\ status'[j] \in {"running"} \cup Ends)
  <2>1. \E new \in {"running", "failed"} :
          status' = status \/ status' = [status EXCEPT ![job[w]] = new]
    BY <1>2 DEF CheckRole, Begin, SetStatus
  <2> QED
  BY <1>1, <1>2, <2>1 DEF CheckRole, Begin, At, Ends
<1>3. ASSUME NEW w \in Workers, End(w)
      PROVE  status'[j] = status[j] \/ (status[j] \in Live /\ status'[j] \in Ends)
  <2>1. \E new \in Ends : status' = status \/ status' = [status EXCEPT ![job[w]] = new]
    BY <1>3 DEF End, SetStatus, Ends
  <2> QED
  BY <1>1, <1>3, <2>1 DEF End, At
<1>4. CASE \E w \in Workers : CheckRole(w) \/ Begin(w) \/ End(w)
  BY <1>2, <1>3, <1>4
<1>5. CASE ~\E w \in Workers : CheckRole(w) \/ Begin(w) \/ End(w)
  <2>1. UNCHANGED status
    BY <1>5 DEF ServerStep, Cancel, Enqueue, SendOverflow, WorkerStep, Advance, Take,
                Load, PollCancel, AskTools, AskDone, LastTurn, AskFails, WriteDraft,
                WriteLarge, ToolsDone, FlushFile, ChangeRole, Stop, Restart
  <2> QED
  BY <2>1
<1> QED
BY <1>4, <1>5

\* Only a request makes a row.
LEMMA RowsWritten ==
  ASSUME Placed, JobStep, NEW j \in Jobs
  PROVE  \/ status'[j] = status[j]
         \/ Create(j) /\ status[j] = "none" /\ status'[j] = "queued"
         \/ status[j] \in Live /\ status'[j] \in {"running"} \cup Ends
<1>1. ASSUME NEW i \in Jobs, Create(i)
      PROVE  status'[j] = status[j] \/ (i = j /\ status[j] = "none" /\ status'[j] = "queued")
  BY <1>1 DEF Create, Placed, Typed, TypeOK
<1>2. CASE \E i \in Jobs : Create(i)
  <2>1. PICK i \in Jobs : Create(i)
    BY <1>2
  <2>2. CASE i = j
    <3>1. Create(j)
      BY <2>1, <2>2
    <3> QED
    BY <1>1, <3>1
  <2>3. CASE i # j
    BY <1>1, <2>1, <2>3
  <2> QED
  BY <2>2, <2>3
<1>3. CASE ServerStep \/ \E i \in Jobs : Cancel(i)
  BY <1>3, ServerRows
<1> QED
BY <1>2, <1>3 DEF JobStep

\* The inductive invariant holds in every behaviour of the jobs.
LEMMA JobsPlaced == Spec => []Placed
<1>1. Placed /\ [Next]_<<vars, env>> => Placed'
  <2>1. ASSUME Placed, Next PROVE Placed'
    BY <2>1, JobStepPlaced DEF Next, JobStep
  <2>2. ASSUME Placed, UNCHANGED <<vars, env>> PROVE Placed'
    <3>1. Typed'
      BY <2>2 DEF Placed, Typed, TypeOK
    <3> QED
    BY <2>2, <3>1, QuietPlaced
  <2> QED
  BY <2>1, <2>2
<1> QED
BY <1>1, InitPlaced, PTL DEF Spec

\* Types, and with them that a worker has a job exactly while it runs one.
THEOREM PaperclawTypes == Spec => []TypeOK
<1>1. Placed => TypeOK
  BY DEF Placed, Typed
<1> QED
BY <1>1, JobsPlaced, PTL

\* A row that says how its job ended is never written again: cancelJob finds no
\* active row, and the UPDATEs of RunPaperclawJob, which look at nothing, are
\* those of the one worker that has the job.
THEOREM EndsAreFinal == Spec => EndIsFinal
<1>1. Placed /\ Next => [\A j \in Jobs : status[j] \in Ends => status'[j] = status[j]]_vars
  <2> SUFFICES ASSUME Placed, Next, NEW j \in Jobs, status[j] \in Ends
               PROVE  status'[j] = status[j]
    OBVIOUS
  <2>1. JobStep /\ UNCHANGED env
    BY DEF Next, JobStep
  <2>2. status[j] \notin Live \cup {"none"}
    BY DEF Ends, Live
  <2> QED
  BY <2>1, <2>2, RowsWritten
<1>2. UNCHANGED <<vars, env>>
        => [\A j \in Jobs : status[j] \in Ends => status'[j] = status[j]]_vars
  OBVIOUS
<1> QED
BY <1>1, <1>2, JobsPlaced, PTL DEF Spec, EndIsFinal
-----------------------------------------------------------------------------
(* No job is forgotten                                                     *)

InHand == {job[w] : w \in Workers}

\* A job that is somewhere stays somewhere, unless its worker ends it or the
\* process stops.
LEMMA PlaceKept ==
  ASSUME Placed, JobStep, UNCHANGED env, NEW j \in Waiting \cup (InHand \cap Jobs)
  PROVE  \/ j \in (Waiting \cup InHand)'
         \/ Stop
         \/ \E w \in Workers : job[w] = j /\ (Load(w) \/ CheckRole(w) \/ End(w)) /\ Return(w)
<1>1. ASSUME NEW i \in Jobs, Create(i) PROVE Waiting \subseteq Waiting' /\ InHand' = InHand
  BY <1>1 DEF Create, Waiting, Range, InHand
<1>2. ASSUME NEW i \in Jobs, Enqueue(i) \/ SendOverflow(i)
      PROVE  Waiting \subseteq Waiting' /\ InHand' = InHand
  <2>1. chan \in Seq(Jobs)
    BY DEF Placed, Typed, TypeOK
  <2>2. ASSUME chan' = Append(chan, i) PROVE Range(chan') = Range(chan) \cup {i}
    BY <2>1, <2>2, Appended
  <2>3. CASE Enqueue(i) /\ UNCHANGED chan /\ overflow' = overflow \cup {i}
    <3>1. Range(chan') = Range(chan) /\ handler' = handler \ {i} /\ UNCHANGED job
      BY <2>3 DEF Enqueue
    <3> QED
    BY <2>3, <3>1 DEF Waiting, InHand
  <2>4. CASE Enqueue(i) /\ chan' = Append(chan, i) /\ UNCHANGED overflow
    BY <2>2, <2>4 DEF Enqueue, Waiting, InHand
  <2>5. CASE SendOverflow(i)
    BY <2>2, <2>5 DEF SendOverflow, Waiting, InHand
  <2> QED
  BY <1>2, <2>3, <2>4, <2>5 DEF Enqueue
<1>3. ASSUME NEW w \in Workers, Take(w)
      PROVE  Waiting \cup (InHand \cap Jobs) \subseteq (Waiting \cup InHand)'
  <2>1. chan \in Seq(Jobs) /\ chan # <<>> /\ chan' = Tail(chan) /\ UNCHANGED <<handler, overflow>>
    BY <1>3 DEF Take, Placed, Typed, TypeOK
  <2>2. Range(chan) = Range(chan') \cup {Head(chan)}
    BY <2>1, Received
  <2>3. job[w] = None /\ job'[w] = Head(chan) /\ \A v \in Workers \ {w} : job'[v] = job[v]
    BY <1>3 DEF Take, At, Placed, Typed, TypeOK
  <2>4. Head(chan) \in InHand' /\ InHand \cap Jobs \subseteq InHand'
    BY <2>3, PaperclawAssumption DEF InHand
  <2> QED
  BY <2>1, <2>2, <2>4 DEF Waiting
<1>4. ASSUME NEW w \in Workers, Return(w), UNCHANGED queueVars, job[w] # j
      PROVE  j \in (Waiting \cup InHand)'
  <2>1. Waiting' = Waiting
    BY <1>4 DEF Waiting, Range
  <2>2. \A v \in Workers \ {w} : job'[v] = job[v]
    BY <1>4 DEF Return, Placed, Typed, TypeOK
  <2> QED
  BY <1>4, <2>1, <2>2 DEF InHand
<1>5. ASSUME UNCHANGED <<queueVars, job>> PROVE j \in (Waiting \cup InHand)'
  BY <1>5 DEF Waiting, Range, InHand
<1>6. ASSUME NEW w \in Workers, Load(w) \/ CheckRole(w) \/ End(w)
      PROVE  UNCHANGED <<queueVars, job>> \/ (Return(w) /\ UNCHANGED queueVars)
  BY <1>6 DEF Load, CheckRole, End
<1>7. ASSUME NEW w \in Workers, Load(w) \/ CheckRole(w) \/ End(w)
      PROVE  \/ j \in (Waiting \cup InHand)'
             \/ job[w] = j /\ (Load(w) \/ CheckRole(w) \/ End(w)) /\ Return(w)
  BY <1>4, <1>5, <1>6, <1>7
<1>8. \/ UNCHANGED <<queueVars, job>>
      \/ \E i \in Jobs : Create(i) \/ Enqueue(i) \/ SendOverflow(i)
      \/ \E w \in Workers : Take(w) \/ Load(w) \/ CheckRole(w) \/ End(w)
      \/ Stop
  <2>1. ASSUME NEW w \in Workers, WorkerStep(w)
        PROVE  \/ UNCHANGED <<queueVars, job>>
               \/ Take(w) \/ Load(w) \/ CheckRole(w) \/ End(w)
    BY <2>1 DEF WorkerStep, Advance, Begin, PollCancel, AskTools, AskDone,
                LastTurn, AskFails, WriteDraft, WriteLarge, ToolsDone, FlushFile
  <2>2. ASSUME ChangeRole \/ Restart \/ \E i \in Jobs : Cancel(i)
        PROVE  UNCHANGED <<queueVars, job>>
    BY <2>2 DEF ChangeRole, Restart, Cancel
  <2> QED
  BY <2>1, <2>2 DEF JobStep, ServerStep
<1> QED
BY <1>1, <1>2, <1>3, <1>5, <1>7, <1>8

LEMMA ForgottenStep ==
  Placed /\ NothingForgotten /\ JobStep /\ UNCHANGED env => NothingForgotten'
<1> SUFFICES ASSUME Placed, NothingForgotten, JobStep, UNCHANGED env,
                    stops' = 0, ~Faulty("db"), NEW j \in Jobs, status'[j] \in Live
             PROVE  j \in (Waiting \cup InHand)'
  BY DEF NothingForgotten, Faulty, Live, Waiting, InHand
<1>1. Typed /\ Typed'
  BY JobStepTyped DEF Placed
<1>2. ~Stop /\ stops = 0
  <2>1. UNCHANGED stops \/ Stop
    BY DEF JobStep, ServerStep, Create, Cancel, Enqueue, SendOverflow, WorkerStep, Advance, Take,
           Load, CheckRole, Begin, PollCancel, AskTools, AskDone, LastTurn, AskFails, WriteDraft,
           WriteLarge, ToolsDone, FlushFile, End, ChangeRole, Restart
  <2>2. ~Stop
    BY <1>1 DEF Stop, Typed, TypeOK
  <2> QED
  BY <2>1, <2>2
<1>3. CASE status[j] \in Live
  <2>1. j \in Waiting \cup (InHand \cap Jobs)
    BY <1>2, <1>3 DEF NothingForgotten, Live, Waiting, InHand
  <2>2. ASSUME NEW w \in Workers, job[w] = j, Load(w) \/ CheckRole(w) \/ End(w), Return(w)
        PROVE  FALSE
    <3>1. pc'[w] = "idle"
      BY <1>1, <2>2 DEF Return, Goto, Typed, TypeOK
    <3>2. CASE Load(w)
      BY <1>1, <2>2, <3>1, <3>2 DEF Load, At, Goto, Typed, TypeOK, Placed, RowOfPlace
    <3>3. CASE CheckRole(w)
      BY <1>1, <2>2, <3>1, <3>3 DEF CheckRole, SetStatus, Goto, Typed, TypeOK, Live
    <3>4. CASE End(w)
      BY <1>1, <2>2, <3>4 DEF End, SetStatus, Typed, TypeOK, Live
    <3> QED
    BY <2>2, <3>2, <3>3, <3>4
  <2> QED
  BY <1>2, <2>1, <2>2, PlaceKept
<1>4. CASE status[j] \notin Live
  <2>1. Create(j)
    BY <1>4, RowsWritten DEF Live, Ends
  <2> QED
  BY <2>1 DEF Create, Waiting, Faulty
<1> QED
BY <1>3, <1>4

\* For any number of jobs and workers: until the process stops, and while Postgres
\* answers, every active job is held by someone who will pass it on.
THEOREM JobsNotForgotten == Spec => []NothingForgotten
<1>1. Init => NothingForgotten
  BY DEF Init, NothingForgotten
<1>2. Placed /\ NothingForgotten /\ [Next]_<<vars, env>> => NothingForgotten'
  <2>1. ASSUME Placed, NothingForgotten, Next PROVE NothingForgotten'
    BY <2>1, ForgottenStep DEF Next, JobStep
  <2>2. ASSUME NothingForgotten, UNCHANGED <<vars, env>> PROVE NothingForgotten'
    BY <2>2 DEF NothingForgotten, Faulty, Range
  <2> QED
  BY <2>1, <2>2
<1> QED
BY <1>1, <1>2, JobsPlaced, PTL DEF Spec
-----------------------------------------------------------------------------
(* A successful job stored what it drafted                                 *)

\* Drafts are kept between the first turn and the last file stored.
PendingInRun ==
  \A w \in Workers : pc[w] \notin {"turn", "tools", "flush"} => pending[w] = NoFiles

Refuses == Faulty("store") \/ Faulty("db") \/ env.large # {}

\* A worker's drafts are the files its job drafted and has yet to store; a job that
\* has not begun drafted nothing, one that succeeded stored everything.
DraftsAccounted == ~Refuses =>
  /\ \A w \in Workers : job[w] # None => \A f \in Paths :
       IF pending[w][f] = None THEN written[job[w]][f] = drafted[job[w]][f]
                               ELSE pending[w][f] = drafted[job[w]][f]
  /\ \A j \in Jobs : status[j] \in {"none", "queued", "success"} => written[j] = drafted[j]

LEMMA PendingStep == Placed /\ PendingInRun /\ JobStep /\ UNCHANGED env => PendingInRun'
<1> SUFFICES ASSUME Placed, PendingInRun, JobStep, UNCHANGED env PROVE PendingInRun'
  OBVIOUS
<1>0. Typed
  BY DEF Placed
<1>1. CASE UNCHANGED <<pc, pending>>
  BY <1>1 DEF PendingInRun
<1>2. ASSUME NEW w \in Workers, Return(w) PROVE PendingInRun'
  BY <1>0, <1>2 DEF Return, Goto, Typed, TypeOK, PendingInRun
<1>4. ASSUME NEW w \in Workers, Take(w) \/ Begin(w) PROVE PendingInRun'
  BY <1>0, <1>4 DEF Take, Begin, At, Goto, Typed, TypeOK, PendingInRun
<1>5. ASSUME NEW w \in Workers, Load(w) \/ CheckRole(w) PROVE PendingInRun'
  <2>1. CASE Return(w)
    BY <1>2, <2>1
  <2>2. CASE (Goto(w, "role") \/ Goto(w, "begin")) /\ UNCHANGED pending
    BY <1>0, <1>5, <2>2 DEF Load, CheckRole, At, Goto, Typed, TypeOK, PendingInRun
  <2> QED
  BY <1>5, <2>1, <2>2 DEF Load, CheckRole
<1>6. ASSUME NEW w \in Workers, AskTools(w) \/ ToolsDone(w) PROVE PendingInRun'
  BY <1>0, <1>6 DEF AskTools, ToolsDone, At, Goto, Typed, TypeOK, PendingInRun
<1>7. ASSUME NEW w \in Workers, AskDone(w) \/ LastTurn(w) \/ AskFails(w) PROVE PendingInRun'
  BY <1>0, <1>7 DEF AskDone, LastTurn, AskFails, Flush, At, Goto, Typed, TypeOK, PendingInRun
<1>8. ASSUME NEW w \in Workers, NEW f, NEW c, WriteDraft(w, f, c) PROVE PendingInRun'
  BY <1>0, <1>8 DEF WriteDraft, At, Typed, TypeOK, PendingInRun
<1>9. ASSUME NEW w \in Workers, NEW f \in Paths, FlushFile(w, f) PROVE PendingInRun'
  BY <1>0, <1>9 DEF FlushFile, At, Goto, Typed, TypeOK, PendingInRun
<1>10. CASE Stop \/ Restart
  <2>1. ASSUME Stop, NEW w \in Workers PROVE pending'[w] = NoFiles
    BY <2>1 DEF Stop
  <2>2. ASSUME Restart, NEW w \in Workers PROVE pending'[w] = NoFiles
    BY <1>0, <2>2 DEF Restart, Typed, TypeOK, PendingInRun
  <2> QED
  BY <1>10, <2>1, <2>2 DEF PendingInRun
<1>11. ASSUME NEW w \in Workers, WorkerStep(w) PROVE PendingInRun'
  <2>1. CASE Take(w) \/ Begin(w) \/ Load(w) \/ CheckRole(w) \/ AskTools(w) \/ ToolsDone(w)
             \/ AskDone(w) \/ LastTurn(w) \/ AskFails(w)
    BY <1>4, <1>5, <1>6, <1>7, <2>1
  <2>2. CASE \E f \in env.paths, c \in Contents : WriteDraft(w, f, c)
    BY <1>8, <2>2
  <2>3. CASE \E f \in Paths : FlushFile(w, f)
    BY <1>9, <2>3
  <2>4. CASE End(w)
    BY <1>2, <2>4 DEF End
  <2>5. CASE PollCancel(w) \/ \E f \in env.paths, c \in Contents : WriteLarge(w, f, c)
    BY <1>1, <2>5 DEF PollCancel, WriteLarge
  <2> QED
  BY <1>11, <2>1, <2>2, <2>3, <2>4, <2>5 DEF WorkerStep, Advance
<1>12. CASE ChangeRole \/ \E j \in Jobs : Create(j) \/ Cancel(j) \/ Enqueue(j) \/ SendOverflow(j)
  BY <1>1, <1>12 DEF ChangeRole, Create, Cancel, Enqueue, SendOverflow
<1> QED
BY <1>10, <1>11, <1>12 DEF JobStep, ServerStep
\* The steps that touch no file, and whose writes to rows make no job unbegun or
\* successful.
LEMMA FilesLeft ==
  ASSUME Placed, DraftsAccounted, UNCHANGED <<histVars, env>>,
         \A j \in Jobs : status'[j] \in {"none", "queued", "success"} =>
                           status[j] \in {"none", "queued", "success"},
         \A w \in Workers : job'[w] # None => job'[w] = job[w] /\ pending'[w] = pending[w]
  PROVE  DraftsAccounted'
  BY DEF DraftsAccounted, Refuses, Faulty

LEMMA DraftsStep ==
  Placed /\ PendingInRun /\ DraftsAccounted /\ JobStep /\ UNCHANGED env => DraftsAccounted'
<1> SUFFICES ASSUME Placed, PendingInRun, DraftsAccounted, JobStep, UNCHANGED env, ~Refuses
             PROVE  DraftsAccounted'
  BY DEF DraftsAccounted, Refuses, Faulty
<1> USE PaperclawAssumption
<1>0. Typed /\ ~Faulty("db") /\ ~Faulty("store") /\ env.large = {}
  BY DEF Placed, Refuses
<1>1. CASE \E j \in Jobs : Create(j)
  <2>1. PICK j \in Jobs : Create(j)
    BY <1>1
  <2>2. \A i \in Jobs : status'[i] = status[i] \/ (i = j /\ status[i] = "none")
    BY <1>0, <2>1 DEF Create, Typed, TypeOK
  <2>3. UNCHANGED <<histVars, job, pending>>
    BY <2>1 DEF Create
  <2> QED
  BY <2>2, <2>3, FilesLeft
<1>2. CASE \E w \in Workers : Take(w)
  <2>1. PICK w \in Workers : Take(w)
    BY <1>2
  <2>2. /\ job' = [job EXCEPT ![w] = Head(chan)] /\ Head(chan) \in Jobs
        /\ status[Head(chan)] = "queued" /\ pending[w] = NoFiles
    <3>1. Head(chan) \in Jobs /\ Head(chan) \in Range(chan)
      BY <1>0, <2>1, Received, HeadTailProperties DEF Take, Typed, TypeOK
    <3>2. status[Head(chan)] = "queued"
      BY <3>1 DEF Placed, RowOfPlace, Waiting
    <3> QED
    BY <2>1, <3>1, <3>2 DEF Take, At, PendingInRun
  <2>3. written[Head(chan)] = drafted[Head(chan)]
    BY <1>0, <2>2 DEF DraftsAccounted, Refuses
  <2>4. UNCHANGED <<histVars, status, pending>>
    BY <2>1 DEF Take
  <2>5. \A v \in Workers : job'[v] = IF v = w THEN Head(chan) ELSE job[v]
    BY <1>0, <2>2 DEF Typed, TypeOK
  <2>6. \A f \in Paths : pending[w][f] = None
    BY <2>2 DEF NoFiles
  <2> QED
  BY <2>2, <2>3, <2>4, <2>5, <2>6 DEF DraftsAccounted, Refuses, Faulty
<1>3. ASSUME NEW w \in Workers, Load(w) \/ CheckRole(w) \/ Begin(w) PROVE DraftsAccounted'
  <2>1. UNCHANGED histVars /\ pc[w] \in {"load", "role", "begin"} /\ job[w] \in Jobs
    BY <1>0, <1>3, BusyHasJob DEF Load, CheckRole, Begin, At
  <2>2. \A v \in Workers : job'[v] # None => job'[v] = job[v] /\ pending'[v] = pending[v]
    BY <1>0, <1>3 DEF Load, CheckRole, Begin, Return, Typed, TypeOK
  <2>3. \/ UNCHANGED status
        \/ status' = [status EXCEPT ![job[w]] = "failed"]
        \/ status' = [status EXCEPT ![job[w]] = "running"]
    BY <1>3 DEF Load, CheckRole, Begin, SetStatus
  <2>4. \A j \in Jobs : status'[j] \in {status[j], "failed", "running"}
    BY <1>0, <2>1, <2>3 DEF Typed, TypeOK
  <2> QED
  BY <2>1, <2>2, <2>4, FilesLeft
<1>4. ASSUME NEW w \in Workers, NEW f \in env.paths, NEW c \in Contents, WriteDraft(w, f, c)
      PROVE  DraftsAccounted'
  <2>1. job[w] \in Jobs /\ status[job[w]] = "running" /\ f \in Paths
    BY <1>0, <1>4, BusyHasJob DEF WriteDraft, At, Placed, RowOfPlace, InPipeline, Typed
  <2>2. UNCHANGED <<job, status, written>>
    BY <1>4 DEF WriteDraft
  <2>3. \A v \in Workers, g \in Paths :
          pending'[v][g] = IF v = w /\ g = f THEN c ELSE pending[v][g]
    BY <1>0, <1>4, <2>1 DEF WriteDraft, Typed, TypeOK
  <2>4. \A j \in Jobs, g \in Paths :
          drafted'[j][g] = IF j = job[w] /\ g = f THEN c ELSE drafted[j][g]
    BY <1>0, <1>4, <2>1 DEF WriteDraft, Typed, TypeOK
  <2>5. \A j \in Jobs \ {job[w]} : drafted'[j] = drafted[j]
    BY <1>0, <1>4, <2>1 DEF WriteDraft, Typed, TypeOK
  <2>6. \A j \in Jobs : status[j] \in {"none", "queued", "success"} => j # job[w]
    BY <2>1
  <2>7. ASSUME NEW v \in Workers, job[v] # None, NEW g \in Paths
        PROVE  IF pending'[v][g] = None THEN written[job[v]][g] = drafted'[job[v]][g]
                                        ELSE pending'[v][g] = drafted'[job[v]][g]
    <3>1. job[v] \in Jobs /\ (v # w => job[v] # job[w])
      BY <1>0, <2>1, <2>7 DEF Typed, TypeOK, Placed, HeldOnce
    <3> QED
    BY <1>0, <2>3, <2>4, <2>7, <3>1 DEF DraftsAccounted, Refuses
  <2> QED
  BY <1>0, <2>2, <2>5, <2>6, <2>7 DEF DraftsAccounted, Refuses, Faulty
<1>5. ASSUME NEW w \in Workers, NEW f \in Paths, FlushFile(w, f) PROVE DraftsAccounted'
  <2>1. job[w] \in Jobs /\ status[job[w]] = "running"
    BY <1>0, <1>5, BusyHasJob DEF FlushFile, At, Placed, RowOfPlace, InPipeline
  <2>2. UNCHANGED <<job, status, drafted>> /\ pending[w][f] = drafted[job[w]][f]
    BY <1>0, <1>5, <2>1 DEF FlushFile, DraftsAccounted, Refuses
  <2>3. \A v \in Workers, g \in Paths :
          pending'[v][g] = IF v = w /\ g = f THEN None ELSE pending[v][g]
    BY <1>0, <1>5 DEF FlushFile, Typed, TypeOK
  <2>4. written' = [written EXCEPT ![job[w]][f] = pending[w][f]]
    BY <1>0, <1>5 DEF FlushFile
  <2>5. \A j \in Jobs, g \in Paths :
          written'[j][g] = IF j = job[w] /\ g = f THEN drafted[j][g] ELSE written[j][g]
    BY <1>0, <2>1, <2>2, <2>4 DEF Typed, TypeOK
  <2>6. \A j \in Jobs \ {job[w]} : written'[j] = written[j]
    BY <1>0, <2>1, <2>4 DEF Typed, TypeOK
  <2>7. ASSUME NEW v \in Workers, job[v] # None, NEW g \in Paths
        PROVE  IF pending'[v][g] = None THEN written'[job[v]][g] = drafted[job[v]][g]
                                        ELSE pending'[v][g] = drafted[job[v]][g]
    <3>1. job[v] \in Jobs /\ (v # w => job[v] # job[w])
      BY <1>0, <2>1, <2>7 DEF Typed, TypeOK, Placed, HeldOnce
    <3> QED
    BY <1>0, <2>3, <2>5, <2>7, <3>1 DEF DraftsAccounted, Refuses
  <2>8. \A j \in Jobs : status[j] \in {"none", "queued", "success"} => j # job[w]
    BY <2>1
  <2> QED
  BY <1>0, <2>2, <2>6, <2>7, <2>8 DEF DraftsAccounted, Refuses, Faulty
<1>6. ASSUME NEW w \in Workers, End(w) PROVE DraftsAccounted'
  <2>1. job[w] \in Jobs /\ pending[w] = NoFiles /\ UNCHANGED histVars
    BY <1>0, <1>6, BusyHasJob DEF End, At, PendingInRun
  <2>2. written[job[w]] = drafted[job[w]]
    <3>1. \A f \in Paths : written[job[w]][f] = drafted[job[w]][f]
      BY <1>0, <2>1 DEF DraftsAccounted, Refuses, NoFiles
    <3>2. /\ written[job[w]] \in [Paths -> Contents \cup {None}]
          /\ drafted[job[w]] \in [Paths -> Contents \cup {None}]
      BY <1>0, <2>1 DEF Typed, TypeOK
    <3> QED
    BY <3>1, <3>2
  <2>3. \A j \in Jobs \ {job[w]} : status'[j] = status[j]
    BY <1>0, <1>6 DEF End, SetStatus, Typed, TypeOK
  <2>4. \A v \in Workers : job'[v] # None => job'[v] = job[v] /\ pending'[v] = pending[v]
    BY <1>0, <1>6 DEF End, Return, Typed, TypeOK
  <2> QED
  BY <1>0, <2>1, <2>2, <2>3, <2>4 DEF DraftsAccounted, Refuses, Faulty
<1>7. CASE UNCHANGED <<status, job, pending, histVars>>
  BY <1>7, FilesLeft
<1>8. ASSUME NEW w \in Workers, WorkerStep(w) PROVE DraftsAccounted'
  <2>1. CASE Take(w) \/ Load(w) \/ CheckRole(w) \/ Begin(w) \/ End(w)
    BY <1>2, <1>3, <1>6, <2>1
  <2>2. CASE \E f \in env.paths, c \in Contents : WriteDraft(w, f, c)
    BY <1>4, <2>2
  <2>3. CASE \E f \in Paths : FlushFile(w, f)
    BY <1>5, <2>3
  <2>4. CASE PollCancel(w) \/ AskTools(w) \/ AskDone(w) \/ LastTurn(w) \/ AskFails(w) \/ ToolsDone(w)
    BY <1>7, <2>4 DEF PollCancel, AskTools, AskDone, LastTurn, AskFails, ToolsDone
  <2>5. ~\E f \in env.paths, c \in Contents : WriteLarge(w, f, c)
    BY <1>0 DEF WriteLarge
  <2> QED
  BY <1>8, <2>1, <2>2, <2>3, <2>4, <2>5 DEF WorkerStep, Advance
<1>9. CASE Stop
  <2>1. UNCHANGED <<status, histVars>> /\ \A w \in Workers : job'[w] = None
    BY <1>9 DEF Stop
  <2> QED
  BY <2>1, FilesLeft
<1>10. CASE ChangeRole \/ Restart \/ \E j \in Jobs : Cancel(j) \/ Enqueue(j) \/ SendOverflow(j)
  BY <1>7, <1>10 DEF ChangeRole, Restart, Cancel, Enqueue, SendOverflow
<1> QED
BY <1>1, <1>8, <1>9, <1>10 DEF JobStep, ServerStep

\* "success" is the truth: what the job drafted last for each path is what it
\* stored last, unless storage refused or a content was too large to be kept.
THEOREM SuccessIsWritten == Spec => []SuccessWrites
<1> DEFINE Accounted == PendingInRun /\ DraftsAccounted
<1>1. Init => Accounted
  BY DEF Init, PendingInRun, DraftsAccounted
<1>2. Placed /\ Accounted /\ [Next]_<<vars, env>> => Accounted'
  <2>1. ASSUME Placed, Accounted, Next PROVE Accounted'
    BY <2>1, PendingStep, DraftsStep DEF Next, JobStep
  <2>2. ASSUME Accounted, UNCHANGED <<vars, env>> PROVE Accounted'
    BY <2>2 DEF PendingInRun, DraftsAccounted, Refuses, Faulty
  <2> QED
  BY <2>1, <2>2
<1>3. Accounted => SuccessWrites
  BY DEF DraftsAccounted, Refuses, SuccessWrites
<1> HIDE DEF Accounted
<1> QED
BY <1>1, <1>2, <1>3, JobsPlaced, PTL DEF Spec
-----------------------------------------------------------------------------
(* The panel                                                               *)

USE DEF jobVars, panelVars

Statuses == {"none"} \cup Live \cup Ends
Get == [job: Jobs, answer: {"unread", "error"} \cup Statuses]
Shown == [job: Jobs, status: Statuses]
Cancelling == [job: Jobs, done: BOOLEAN]
Panel == [open: BOOLEAN, job: Jobs \cup {None}, shown: Shown \cup {None}, busy: BOOLEAN,
          polling: BOOLEAN, post: PostStates \cup Jobs, cancelling: Cancelling \cup {None}]

\* What the panel follows, shows and cancels are jobs.
PanelTyped ==
  /\ panel \in Panel /\ gets \in [Slots -> Get \cup {None}] /\ slipped \in BOOLEAN
  /\ panel.polling => panel.job \in Jobs

LEMMA ClosedTyped == \A p \in PostStates : [Closed EXCEPT !.post = p] \in Panel
  BY DEF Closed, Panel

LEMMA PollTyped ==
  ASSUME PanelTyped, Free # {}, NEW j \in Jobs, Poll(j)
  PROVE  gets' \in [Slots -> Get \cup {None}]
<1>1. (CHOOSE n \in Free : TRUE) \in Slots
  BY DEF Free
<1>2. [job |-> j, answer |-> "unread"] \in Get
  BY DEF Get
<1> QED
BY <1>1, <1>2 DEF Poll, PanelTyped

LEMMA PanelStepTyped == Typed /\ PanelTyped /\ PanelStep => PanelTyped'
<1> SUFFICES ASSUME Typed, PanelTyped, PanelStep PROVE PanelTyped'
  OBVIOUS
<1>0. panel \in Panel
  BY DEF PanelTyped
<1>1. CASE StartJob
  BY <1>1 DEF StartJob, PanelTyped, Panel, PostStates
<1>2. ASSUME NEW j \in Jobs, PostServed(j) PROVE PanelTyped'
  <2>1. \E p \in PostStates \cup Jobs : panel' = [panel EXCEPT !.post = p]
    BY <1>2 DEF PostServed, PostStates
  <2> QED
  BY <1>2, <2>1 DEF PostServed, PanelTyped, Panel
<1>3. CASE PostRefused
  <2>1. \E p \in PostStates : panel' = [panel EXCEPT !.post = p]
    BY <1>3 DEF PostRefused, PostStates
  <2> QED
  BY <1>3, <2>1 DEF PostRefused, PanelTyped, Panel
<1>14. CASE StartFailed
  BY <1>14 DEF StartFailed, PanelTyped, Panel, PostStates
<1>4. CASE Started
  <2>1. panel.post \in Jobs /\ Free # {} /\ Poll(panel.post)
    BY <1>4 DEF Started
  <2> QED
  BY <1>4, <2>1, PollTyped DEF Started, PanelTyped, Panel, PostStates
<1>5. CASE Tick
  <2>1. panel.job \in Jobs
    BY <1>5 DEF Tick, PanelTyped
  <2> QED
  BY <1>5, <2>1, PollTyped DEF Tick, PanelTyped
<1>6. ASSUME NEW n \in Slots, GetServed(n) PROVE PanelTyped'
  <2>1. gets[n] \in Get
    BY <1>6 DEF GetServed, PanelTyped
  <2>2. status[gets[n].job] \in Statuses
    BY <2>1 DEF Get, Typed, TypeOK, Statuses, Live
  <2>3. \E a \in {"error"} \cup Statuses : gets' = [gets EXCEPT ![n].answer = a]
    BY <1>6, <2>2 DEF GetServed
  <2>4. \A a \in {"error"} \cup Statuses : [gets[n] EXCEPT !.answer = a] \in Get
    BY <2>1 DEF Get
  <2>5. gets' \in [Slots -> Get \cup {None}]
    BY <2>3, <2>4 DEF PanelTyped
  <2> QED
  BY <1>6, <2>5 DEF GetServed, PanelTyped
<1>7. ASSUME NEW n \in Slots, PollOnce(n) PROVE PanelTyped'
  <2>1. gets[n] \in Get /\ gets[n].answer # "unread"
    BY <1>7 DEF PollOnce, PanelTyped
  <2>2. gets[n].answer # "error"
          => [job |-> gets[n].job, status |-> gets[n].answer] \in Shown
    BY <2>1 DEF Get, Shown
  <2>3. \E sh \in Shown \cup {None}, x \in BOOLEAN :
          panel' = [panel EXCEPT !.shown = sh, !.polling = @ /\ x, !.busy = @ /\ x]
    BY <1>0, <1>7, <2>2 DEF PollOnce, Panel
  <2>4. panel' \in Panel /\ (panel'.polling => panel'.job \in Jobs)
    BY <2>3 DEF PanelTyped, Panel
  <2> QED
  BY <1>7, <2>4 DEF PollOnce, PanelTyped
<1>8. CASE CancelJob
  <2>1. panel.shown.job \in Jobs
    BY <1>0, <1>8 DEF CancelJob, Panel, Shown
  <2> QED
  BY <1>8, <2>1 DEF CancelJob, PanelTyped, Panel, Cancelling
<1>9. CASE CancelServed
  <2>1. panel.cancelling \in Cancelling
    BY <1>0, <1>9 DEF CancelServed, Panel
  <2>2. [panel.cancelling EXCEPT !.done = TRUE] \in Cancelling
    BY <2>1 DEF Cancelling
  <2> QED
  BY <1>9, <2>2 DEF CancelServed, PanelTyped, Panel
<1>10. CASE CancelRefused
  BY <1>10 DEF CancelRefused, PanelTyped, Panel
<1>11. CASE Cancelled
  <2>1. panel.cancelling.job \in Jobs
    BY <1>0, <1>11 DEF Cancelled, Panel, Cancelling
  <2> QED
  BY <1>11, <2>1, PollTyped DEF Cancelled, PanelTyped, Panel
<1>12. CASE Close
  BY <1>12, ClosedTyped DEF Close, PanelTyped, Closed, PostStates
<1>13. CASE Open
  BY <1>13 DEF Open, PanelTyped, Panel
<1> QED
BY <1>1, <1>2, <1>3, <1>4, <1>5, <1>6, <1>7, <1>8, <1>9, <1>10, <1>11, <1>12, <1>13, <1>14
   DEF PanelStep, Answers

\* To the jobs, a panel is one more sender of requests.
LEMMA PanelStepJobs ==
  ASSUME PanelTyped, PanelStep
  PROVE  UNCHANGED jobVars \/ ((\E j \in Jobs : Create(j) \/ Cancel(j)) /\ UNCHANGED env)
<1>1. CASE CancelServed
  <2>1. panel.cancelling.job \in Jobs
    BY <1>1 DEF CancelServed, PanelTyped, Panel, Cancelling
  <2>2. \E j \in Jobs : Cancel(j)
    BY <1>1, <2>1 DEF CancelServed, Cancel
  <2> QED
  BY <1>1, <2>2 DEF CancelServed
<1>2. CASE \E j \in Jobs : PostServed(j)
  BY <1>2 DEF PostServed
<1>3. CASE ~CancelServed /\ ~\E j \in Jobs : PostServed(j)
  BY <1>3 DEF PanelStep, Answers, Open, StartJob, PostRefused, Started, StartFailed, Tick,
         GetServed, PollOnce, CancelJob, CancelRefused, Cancelled, Close
<1> QED
BY <1>1, <1>2, <1>3
LEMMA PanelNextJobs ==
  ASSUME PanelTyped, PanelNext
  PROVE  UNCHANGED env /\ (UNCHANGED vars \/ JobStep)
<1>1. CASE env.panel /\ PanelStep
  BY <1>1, PanelStepJobs DEF JobStep
<1> QED
BY <1>1 DEF PanelNext, JobStep

LEMMA Stuttered == Placed /\ UNCHANGED <<vars, env>> => Placed'
<1> SUFFICES ASSUME Placed, UNCHANGED <<vars, env>> PROVE Placed'
  OBVIOUS
<1>1. Typed'
  BY DEF Placed, Typed, TypeOK
<1> QED
BY <1>1, QuietPlaced

LEMMA PanelStepPlaced ==
  Placed /\ PanelTyped /\ [PanelNext]_<<jobVars, panelVars>> => Placed' /\ PanelTyped'
<1> SUFFICES ASSUME Placed, PanelTyped, [PanelNext]_<<jobVars, panelVars>>
             PROVE  Placed' /\ PanelTyped'
  OBVIOUS
<1>1. CASE PanelNext
  <2>1. Placed'
    BY <1>1, PanelNextJobs, JobStepPlaced, Stuttered
  <2>2. PanelTyped'
    <3>1. CASE env.panel /\ PanelStep
      BY <3>1, PanelStepTyped DEF Placed
    <3>2. CASE UNCHANGED panelVars
      BY <3>2 DEF PanelTyped
    <3> QED
    BY <1>1, <3>1, <3>2 DEF PanelNext
  <2> QED
  BY <2>1, <2>2
<1>2. CASE UNCHANGED <<jobVars, panelVars>>
  BY <1>2, Stuttered DEF PanelTyped
<1> QED
BY <1>1, <1>2

LEMMA PanelPlaced == PanelSpec => [](Placed /\ PanelTyped)
<1>1. PanelInit => Placed /\ PanelTyped
  <2> SUFFICES ASSUME PanelInit PROVE PanelTyped
    BY InitPlaced DEF PanelInit
  <2> QED
  BY DEF PanelInit, PanelTyped, Closed, Panel, PostStates
<1> QED
BY <1>1, PanelStepPlaced, PTL DEF PanelSpec

\* Jobs that a panel starts, follows and cancels behave as jobs do whoever asks for
\* them: whatever holds of the jobs under any requests holds of them in the panel.
THEOREM PanelRunsJobs == PanelSpec => Spec
<1>1. PanelInit => Init
  BY DEF PanelInit
<1>2. Placed /\ PanelTyped /\ [PanelNext]_<<jobVars, panelVars>> => [Next]_<<vars, env>>
  <2>1. ASSUME PanelTyped, PanelNext PROVE [Next]_<<vars, env>>
    BY <2>1, PanelNextJobs DEF JobStep, Next
  <2>2. ASSUME UNCHANGED <<jobVars, panelVars>> PROVE UNCHANGED <<vars, env>>
    BY <2>2
  <2> QED
  BY <2>1, <2>2
<1> QED
BY <1>1, <1>2, PanelPlaced, PTL DEF PanelSpec, Spec

-----------------------------------------------------------------------------
(* One job at a time                                                       *)

\* An end that a poll has read is still the job's end when it is shown.
EndsRead == \A n \in Slots :
  gets[n] # None /\ gets[n].answer \in Ends => status[gets[n].job] \in Ends

\* A panel that has not lost sight of its jobs knows of every active one: it is the
\* job whose start was just answered, or the one it follows with a busy button.
InSight ==
  /\ panel.post # "orphan"
  /\ panel.polling => panel.busy
  /\ panel.post # "none" => panel.busy /\ ~panel.polling
  /\ panel.post = "none" /\ panel.busy => Active \subseteq {panel.job}
  /\ ~panel.busy \/ panel.post = "sent" => Active = {}
  /\ panel.post \in Jobs => Active \subseteq {panel.post}
  /\ panel.post = "refused" => \E j \in Jobs \cup {None} : Active \subseteq {j}

Watched == EndsRead /\ (env.panel /\ ~slipped => InSight)

\* A row that ended stays ended.
LEMMA EndsStay ==
  ASSUME Placed, PanelTyped, PanelNext, NEW j \in Jobs, status[j] \in Ends
  PROVE  status'[j] \in Ends
BY PanelNextJobs, RowsWritten DEF Live, Ends

LEMMA EndsReadStep ==
  Placed /\ PanelTyped /\ EndsRead /\ PanelNext => EndsRead'
<1> SUFFICES ASSUME Placed, PanelTyped, EndsRead, PanelNext, NEW n \in Slots,
                    gets'[n] # None, gets'[n].answer \in Ends
             PROVE  status'[gets'[n].job] \in Ends
  BY DEF EndsRead
<1>1. \A j \in Jobs : status[j] \in Ends => status'[j] \in Ends
  BY EndsStay
<1>2. gets[n] # None => gets[n].job \in Jobs
  BY DEF PanelTyped, Get
<1>3. CASE gets'[n] = gets[n]
  BY <1>1, <1>2, <1>3 DEF EndsRead
<1>4. ASSUME NEW j \in Jobs, Free # {}, Poll(j) PROVE gets'[n] = gets[n] \/ gets'[n].answer = "unread"
  <2>1. (CHOOSE m \in Free : TRUE) \in Slots
    BY <1>4 DEF Free
  <2> QED
  BY <1>4, <2>1 DEF Poll, PanelTyped
<1>5. CASE Started \/ Tick \/ Cancelled
  <2>1. \E j \in Jobs : Free # {} /\ Poll(j)
    <3>1. CASE Started
      BY <3>1 DEF Started
    <3>2. CASE Tick
      BY <3>2 DEF Tick, PanelTyped
    <3>3. CASE Cancelled
      <4>1. panel.cancelling.job \in Jobs
        BY <3>3 DEF Cancelled, PanelTyped, Panel, Cancelling
      <4> QED
      BY <3>3, <4>1 DEF Cancelled
    <3> QED
    BY <1>5, <3>1, <3>2, <3>3
  <2> QED
  BY <1>3, <1>4, <2>1 DEF Ends
<1>6. ASSUME NEW m \in Slots, GetServed(m) PROVE status'[gets'[n].job] \in Ends
  <2>1. CASE n # m
    BY <1>3, <1>6, <2>1 DEF GetServed, PanelTyped
  <2>2. CASE n = m
    <3>1. gets[n] \in Get /\ UNCHANGED status
      BY <1>6, <2>2 DEF GetServed, PanelTyped
    <3>2. \E a : gets'[n] = [gets[n] EXCEPT !.answer = a] /\ (a = "error" \/ a = status[gets[n].job])
      BY <1>6, <2>2, <3>1 DEF GetServed, PanelTyped
    <3>3. gets'[n].job = gets[n].job /\ gets'[n].answer \in {"error", status[gets[n].job]}
      BY <3>1, <3>2 DEF Get
    <3> QED
    BY <3>1, <3>3 DEF Ends
  <2> QED
  BY <2>1, <2>2
<1>7. ASSUME NEW m \in Slots, PollOnce(m) PROVE gets'[n] = gets[n]
  BY <1>7 DEF PollOnce, PanelTyped
<1>8. CASE UNCHANGED gets
  BY <1>3, <1>8
<1>9. CASE PanelStep
  BY <1>3, <1>5, <1>6, <1>7, <1>8, <1>9 DEF PanelStep, Answers, Open, StartJob, PostServed,
     PostRefused, StartFailed, CancelJob, CancelServed, CancelRefused, Close
<1> QED
BY <1>8, <1>9 DEF PanelNext
\* No step of the server makes a job active.
LEMMA ActiveShrinks ==
  ASSUME Placed, ServerStep \/ (\E j \in Jobs : Cancel(j))
  PROVE  Active' \subseteq Active
BY ServerRows DEF Active, Live, Ends

LEMMA InSightStep ==
  ASSUME Placed, PanelTyped, EndsRead, env.panel, InSight, PanelNext, ~slipped'
  PROVE  InSight'
<1>0. panel \in Panel
  BY DEF PanelTyped
<1>1. CASE UNCHANGED panel /\ Active' \subseteq Active
  BY <1>1 DEF InSight
<1>2. CASE ServerStep /\ UNCHANGED <<panelVars, env>>
  BY <1>1, <1>2, ActiveShrinks
<1>4. CASE StartJob
  <2>1. Active' = Active /\ ~panel.busy /\ panel.post = "none"
    BY <1>4 DEF StartJob, Active
  <2>2. panel'.busy /\ panel'.post = "sent" /\ panel'.polling = panel.polling /\ panel'.job = panel.job
    BY <1>0, <1>4 DEF StartJob, Panel
  <2> QED
  BY <2>1, <2>2, PanelAssumption DEF InSight, PostStates
<1>5. ASSUME NEW j \in Jobs, PostServed(j) PROVE InSight'
  <2>1. panel.post = "sent" /\ Active = {}
    BY <1>5 DEF PostServed, InSight
  <2>2. Active' = {j}
    <3>1. \A i \in Jobs : status'[i] = IF i = j THEN "queued" ELSE status[i]
      BY <1>5 DEF PostServed, Create, Placed, Typed, TypeOK
    <3> QED
    BY <2>1, <3>1 DEF Active
  <2>3. \E p \in {j, "refused"} : panel' = [panel EXCEPT !.post = p]
    BY <1>5, <2>1 DEF PostServed
  <2>4. /\ panel'.busy = panel.busy /\ panel'.polling = panel.polling
        /\ panel'.post \in {j, "refused"}
    BY <1>0, <2>3 DEF Panel
  <2> QED
  BY <2>1, <2>2, <2>4, PanelAssumption DEF InSight, PostStates
<1>6. CASE PostRefused
  <2>1. panel.post = "sent" /\ Active = {} /\ Active' = Active
    BY <1>6 DEF PostRefused, InSight, Active
  <2>2. /\ panel'.busy = panel.busy /\ panel'.polling = panel.polling /\ panel'.post = "refused"
    BY <1>0, <1>6, <2>1 DEF PostRefused, Panel
  <2> QED
  BY <2>1, <2>2, PanelAssumption DEF InSight, PostStates
<1>7. CASE Started
  <2>1. panel.post \in Jobs /\ Active' = Active /\ Active \subseteq {panel.post} /\ panel.busy
    BY <1>7, PanelAssumption DEF Started, InSight, Active, PostStates
  <2>2. /\ panel'.busy = panel.busy /\ panel'.post = "none" /\ panel'.job = panel.post
    BY <1>0, <1>7 DEF Started, Panel
  <2> QED
  BY <2>1, <2>2, PanelAssumption DEF InSight, PostStates
<1>8. ASSUME NEW n \in Slots, PollOnce(n) PROVE InSight'
  <2> DEFINE over == gets[n].answer \in Ends \cup {"error"}
  <2>1. /\ gets[n] \in Get /\ gets[n].answer # "error" /\ panel.polling /\ panel.job = gets[n].job
        /\ Active' = Active /\ UNCHANGED status
    BY <1>8 DEF PollOnce, PanelTyped, Active
  <2>2. panel.post = "none" /\ Active \subseteq {panel.job} /\ panel.busy
    BY <2>1 DEF InSight
  <2>3. /\ panel'.busy = (panel.busy /\ ~over) /\ panel'.polling = (panel.polling /\ ~over)
        /\ panel'.post = panel.post /\ panel'.job = panel.job
    BY <1>0, <1>8 DEF PollOnce, Panel
  <2>4. over => Active = {}
    <3> SUFFICES ASSUME over PROVE Active = {}
      OBVIOUS
    <3>1. status[panel.job] \in Ends
      BY <1>8, <2>1 DEF PollOnce, EndsRead
    <3> QED
    BY <2>2, <3>1 DEF Active, Ends
  <2> HIDE DEF over
  <2> QED
  BY <2>1, <2>2, <2>3, <2>4, PanelAssumption DEF InSight, PostStates
<1>9. CASE CancelJob \/ CancelServed \/ CancelRefused \/ Cancelled \/ Open
  <2>1. /\ panel'.busy = panel.busy /\ panel'.polling = panel.polling
        /\ panel'.post = panel.post /\ panel'.job = panel.job
    BY <1>0, <1>9 DEF CancelJob, CancelServed, CancelRefused, Cancelled, Open, Panel
  <2>2. Active' = Active
    BY <1>9 DEF CancelJob, CancelServed, CancelRefused, Cancelled, Open, Cancel, Active
  <2> QED
  BY <2>1, <2>2 DEF InSight
<1>10. CASE StartFailed \/ Close
  BY <1>10 DEF StartFailed, Close
<1>11. CASE Tick \/ \E n \in Slots : GetServed(n)
  BY <1>1, <1>11 DEF Tick, GetServed, Active
<1>12. CASE PanelStep
  BY <1>4, <1>5, <1>6, <1>7, <1>8, <1>9, <1>10, <1>11, <1>12 DEF PanelStep, Answers
<1> QED
BY <1>2, <1>12 DEF PanelNext
\* A panel that has not lost sight of a job lets one job be active at a time,
\* however its polls overlap and in whatever order they are answered.
THEOREM OneJobActive == PanelSpec => []OneJobAtATime
<1>1. PanelInit => Watched
  BY DEF PanelInit, Init, Closed, Watched, EndsRead, InSight, Active
<1>2. Placed /\ PanelTyped /\ Watched /\ [PanelNext]_<<jobVars, panelVars>> => Watched'
  <2>1. ASSUME Placed, PanelTyped, Watched, PanelNext PROVE Watched'
    <3>1. EndsRead'
      BY <2>1, EndsReadStep DEF Watched
    <3>2. UNCHANGED env
      BY <2>1, PanelNextJobs
    <3>3. ~slipped' => ~slipped
      BY <2>1 DEF PanelNext, PanelStep, Answers, Open, StartJob, PostServed, PostRefused, Started,
                  StartFailed, Tick, GetServed, PollOnce, CancelJob, CancelServed, CancelRefused,
                  Cancelled, Close
    <3>4. env.panel /\ ~slipped' => InSight'
      BY <2>1, <3>3, InSightStep DEF Watched
    <3> QED
    BY <3>1, <3>2, <3>4 DEF Watched
  <2>2. ASSUME Watched, UNCHANGED <<jobVars, panelVars>> PROVE Watched'
    BY <2>2 DEF Watched, EndsRead, InSight, Active
  <2> QED
  BY <2>1, <2>2
<1>3. PanelTyped /\ Watched => OneJobAtATime
  <2> SUFFICES ASSUME PanelTyped, Watched, env.panel, ~slipped PROVE Cardinality(Active) <= 1
    BY DEF OneJobAtATime
  <2>1. \E j \in Jobs \cup {None} : Active \subseteq {j}
    <3>1. panel \in Panel
      BY DEF PanelTyped
    <3> QED
    BY <3>1 DEF Watched, InSight, Panel, PostStates
  <2>2. PICK j \in Jobs \cup {None} : Active \subseteq {j}
    BY <2>1
  <2>3. IsFiniteSet({j}) /\ Cardinality({j}) = 1
    BY FS_Singleton
  <2>4. Cardinality(Active) <= Cardinality({j})
    BY <2>2, <2>3, FS_Subset
  <2> QED
  BY <2>3, <2>4
<1> QED
BY <1>1, <1>2, <1>3, PanelPlaced, PTL DEF PanelSpec

================================================================================
