-------------------------- MODULE CompileClientProofs --------------------------
(***************************************************************************)
(* Theorems about the editor pages and the notifier, for every number of   *)
(* pages and jobs, any capacity of the channels, any services that fail    *)
(* and any surroundings.                                                   *)
(***************************************************************************)
EXTENDS CompileClient, SequenceTheorems, FiniteSetTheorems, TLAPS

USE DEF vars, serverVars, notifyVars, pageVars

-----------------------------------------------------------------------------
(* Lists and channels without repetition                                   *)

\* What is sent to a channel is in it, and is there once if it was not before.
LEMMA Appended ==
  ASSUME NEW S, NEW s \in Seq(S), NEW e \in S
  PROVE  /\ Range(Append(s, e)) = Range(s) \cup {e}
         /\ IsInjective(s) /\ e \notin Range(s) => IsInjective(Append(s, e))
<1> DEFINE t == Append(s, e)
<1>1. /\ Len(s) \in Nat /\ DOMAIN s = 1..Len(s)
      /\ t \in Seq(S) /\ Len(t) = Len(s) + 1
      /\ \A i \in 1..Len(s) : t[i] = s[i]
      /\ t[Len(s) + 1] = e
  BY AppendProperties, LenProperties
<1>2. DOMAIN t = 1..(Len(s) + 1)
  BY <1>1, LenProperties
<1> HIDE DEF t
<1>3. Range(t) = Range(s) \cup {e}
  <2>1. ASSUME NEW x \in Range(t) PROVE x \in Range(s) \cup {e}
    <3>1. PICK i \in 1..(Len(s) + 1) : x = t[i]
      BY <1>2, <2>1 DEF Range
    <3>2. CASE i = Len(s) + 1
      BY <1>1, <3>1, <3>2
    <3>3. CASE i # Len(s) + 1
      <4>1. i \in 1..Len(s)
        BY <1>1, <3>1, <3>3
      <4> QED
      BY <1>1, <3>1, <4>1 DEF Range
    <3> QED
    BY <3>2, <3>3
  <2>2. ASSUME NEW x \in Range(s) \cup {e} PROVE x \in Range(t)
    <3>1. CASE x = e
      <4>1. Len(s) + 1 \in DOMAIN t
        BY <1>1, <1>2
      <4> QED
      BY <1>1, <3>1, <4>1 DEF Range
    <3>2. CASE x \in Range(s)
      <4>1. PICK i \in 1..Len(s) : x = s[i]
        BY <1>1, <3>2 DEF Range
      <4>2. i \in DOMAIN t
        BY <1>1, <1>2
      <4> QED
      BY <1>1, <4>1, <4>2 DEF Range
    <3> QED
    BY <2>2, <3>1, <3>2
  <2> QED
  BY <2>1, <2>2
<1>4. ASSUME IsInjective(s), e \notin Range(s) PROVE IsInjective(t)
  <2> SUFFICES ASSUME NEW a \in 1..(Len(s) + 1), NEW b \in 1..(Len(s) + 1), t[a] = t[b]
               PROVE  a = b
    BY <1>2 DEF IsInjective
  <2>1. \A i \in 1..Len(s) : t[i] \in Range(s)
    BY <1>1 DEF Range
  <2>2. CASE a \in 1..Len(s) /\ b \in 1..Len(s)
    BY <1>1, <1>4, <2>2 DEF IsInjective
  <2>3. CASE a = Len(s) + 1 \/ b = Len(s) + 1
    BY <1>1, <1>4, <2>1, <2>3
  <2> QED
  BY <1>1, <2>2, <2>3
<1> QED
BY <1>3, <1>4 DEF t

\* What is received was in the channel, and is not any more.
LEMMA Received ==
  ASSUME NEW S, NEW s \in Seq(S), s # <<>>
  PROVE  /\ Range(s) = Range(Tail(s)) \cup {Head(s)}
         /\ IsInjective(s) => Head(s) \notin Range(Tail(s)) /\ IsInjective(Tail(s))
<1> DEFINE t == Tail(s)
<1>1. /\ Len(s) \in Nat \ {0} /\ DOMAIN s = 1..Len(s)
      /\ t \in Seq(S) /\ Len(t) = Len(s) - 1
      /\ \A i \in 1..(Len(s) - 1) : t[i] = s[i + 1]
  BY EmptySeq, HeadTailProperties, LenProperties
<1>2. DOMAIN t = 1..(Len(s) - 1) /\ Head(s) = s[1]
  BY <1>1, LenProperties
<1> HIDE DEF t
<1>3. Range(s) = Range(t) \cup {Head(s)}
  <2>1. ASSUME NEW x \in Range(s) PROVE x \in Range(t) \cup {Head(s)}
    <3>1. PICK i \in 1..Len(s) : x = s[i]
      BY <1>1, <2>1 DEF Range
    <3>2. CASE i = 1
      BY <1>2, <3>1, <3>2
    <3>3. CASE i # 1
      <4>1. i - 1 \in 1..(Len(s) - 1) /\ (i - 1) + 1 = i
        BY <1>1, <3>1, <3>3
      <4>2. t[i - 1] = x
        BY <1>1, <3>1, <4>1
      <4> QED
      BY <1>2, <4>1, <4>2 DEF Range
    <3> QED
    BY <3>2, <3>3
  <2>2. ASSUME NEW i \in 1..(Len(s) - 1) PROVE t[i] \in Range(s)
    <3>1. i + 1 \in DOMAIN s
      BY <1>1
    <3> QED
    BY <1>1, <3>1 DEF Range
  <2>3. Head(s) \in Range(s)
    <3>1. 1 \in DOMAIN s
      BY <1>1
    <3> QED
    BY <1>2, <3>1 DEF Range
  <2>4. Range(t) \subseteq Range(s)
    BY <1>2, <2>2 DEF Range
  <2> QED
  BY <2>1, <2>3, <2>4
<1>4. ASSUME IsInjective(s) PROVE Head(s) \notin Range(t) /\ IsInjective(t)
  <2>1. \A a, b \in 1..Len(s) : s[a] = s[b] => a = b
    BY <1>1, <1>4 DEF IsInjective
  <2>2. \A i \in 1..(Len(s) - 1) : t[i] # Head(s)
    <3> TAKE i \in 1..(Len(s) - 1)
    <3>1. i + 1 \in 1..Len(s) /\ 1 \in 1..Len(s) /\ i + 1 # 1
      BY <1>1
    <3> QED
    BY <1>1, <1>2, <2>1, <3>1
  <2>3. ASSUME NEW a \in 1..(Len(s) - 1), NEW b \in 1..(Len(s) - 1), t[a] = t[b] PROVE a = b
    <3>1. a + 1 \in 1..Len(s) /\ b + 1 \in 1..Len(s)
      BY <1>1
    <3>2. a + 1 = b + 1
      BY <1>1, <2>1, <2>3, <3>1
    <3> QED
    BY <3>2
  <2> QED
  BY <1>2, <2>2, <2>3 DEF IsInjective, Range
<1> QED
BY <1>3, <1>4 DEF t

\* What is taken out of the middle is gone, and the rest is as it was.
LEMMA Removed ==
  ASSUME NEW S, NEW s \in Seq(S), NEW k \in 1..Len(s)
  PROVE  LET t == SubSeq(s, 1, k - 1) \o SubSeq(s, k + 1, Len(s))
         IN /\ t \in Seq(S) /\ Range(t) \subseteq Range(s)
            /\ IsInjective(s) => IsInjective(t) /\ s[k] \notin Range(t)
<1> DEFINE l == SubSeq(s, 1, k - 1)
           r == SubSeq(s, k + 1, Len(s))
           t == l \o r
           at(i) == IF i < k THEN i ELSE i + 1
<1>1. Len(s) \in Nat /\ DOMAIN s = 1..Len(s) /\ \A i \in 1..Len(s) : s[i] \in S
  BY LenProperties
<1>2. l \in Seq(S) /\ Len(l) = k - 1 /\ \A i \in 1..(k - 1) : l[i] = s[i]
  BY <1>1, SubSeqProperties
<1>3. /\ r \in Seq(S) /\ Len(r) = Len(s) - k
      /\ \A i \in 1..(Len(s) - k) : r[i] = s[i + k]
  <2>1. \A i \in (k + 1)..Len(s) : s[i] \in S
    BY <1>1
  <2>2. /\ r \in Seq(S) /\ Len(r) = IF k + 1 <= Len(s) THEN Len(s) - (k + 1) + 1 ELSE 0
        /\ \A i \in 1..(Len(s) - (k + 1) + 1) : r[i] = s[(k + 1) + i - 1]
    BY <1>1, <2>1, SubSeqProperties
  <2> HIDE DEF r
  <2>3. Len(r) = Len(s) - k
    <3>1. k \in Nat /\ k <= Len(s)
      BY <1>1
    <3>2. Len(r) = IF k + 1 <= Len(s) THEN Len(s) - (k + 1) + 1 ELSE 0
      BY <2>2
    <3>3. CASE k + 1 <= Len(s)
      BY <1>1, <3>1, <3>2, <3>3
    <3>4. CASE k = Len(s)
      BY <1>1, <3>1, <3>2, <3>4
    <3>5. \A n \in Nat : k <= n => k + 1 <= n \/ k = n
      BY <3>1
    <3>6. k + 1 <= Len(s) \/ k = Len(s)
      BY <1>1, <3>1, <3>5
    <3> QED
    BY <3>3, <3>4, <3>6
  <2>4. ASSUME NEW i \in 1..(Len(s) - k) PROVE r[i] = s[i + k]
    <3>1. i \in 1..(Len(s) - (k + 1) + 1) /\ (k + 1) + i - 1 = i + k
      BY <1>1
    <3> QED
    BY <2>2, <3>1
  <2> QED
  BY <2>2, <2>3, <2>4
<1> HIDE DEF l, r
<1>4. /\ t \in Seq(S) /\ Len(t) = Len(s) - 1 /\ DOMAIN t = 1..(Len(s) - 1)
      /\ \A i \in 1..(Len(s) - 1) : t[i] = IF i <= k - 1 THEN l[i] ELSE r[i - (k - 1)]
  <2>1. /\ t \in Seq(S) /\ Len(t) = Len(l) + Len(r)
        /\ \A i \in 1..(Len(l) + Len(r)) :
             t[i] = IF i <= Len(l) THEN l[i] ELSE r[i - Len(l)]
    BY <1>2, <1>3, ConcatProperties
  <2> HIDE DEF t
  <2>2. Len(l) + Len(r) = Len(s) - 1
    BY <1>1, <1>2, <1>3
  <2>3. DOMAIN t = 1..Len(t)
    BY <2>1, LenProperties
  <2> QED
  BY <1>2, <2>1, <2>2, <2>3
<1> HIDE DEF t
<1>5. ASSUME NEW i \in 1..(Len(s) - 1) PROVE t[i] = s[at(i)] /\ at(i) \in 1..Len(s) \ {k}
  <2>1. CASE i < k
    <3>1. i \in 1..(k - 1) /\ i <= k - 1 /\ i \in 1..Len(s) /\ i # k
      BY <1>1, <2>1
    <3> QED
    BY <1>2, <1>4, <2>1, <3>1
  <2>2. CASE ~(i < k)
    <3>1. i - (k - 1) \in 1..(Len(s) - k) /\ i - (k - 1) + k = i + 1
          /\ i + 1 \in 1..Len(s) /\ i + 1 # k /\ ~(i <= k - 1)
      BY <1>1, <2>2
    <3>2. t[i] = r[i - (k - 1)]
      BY <1>4, <3>1
    <3>3. r[i - (k - 1)] = s[i + 1]
      BY <1>3, <3>1
    <3> QED
    BY <2>2, <3>1, <3>2, <3>3
  <2> QED
  BY <2>1, <2>2
<1>6. \A a, b \in 1..(Len(s) - 1) : at(a) = at(b) => a = b
  BY <1>1
<1> HIDE DEF at
<1>7. Range(t) \subseteq Range(s)
  BY <1>1, <1>4, <1>5 DEF Range
<1>8. ASSUME IsInjective(s) PROVE IsInjective(t) /\ s[k] \notin Range(t)
  <2>1. \A a, b \in 1..Len(s) : s[a] = s[b] => a = b
    BY <1>1, <1>8 DEF IsInjective
  <2>2. \A i \in 1..(Len(s) - 1) : t[i] # s[k]
    BY <1>5, <2>1
  <2>3. \A a, b \in 1..(Len(s) - 1) : t[a] = t[b] => a = b
    BY <1>5, <1>6, <2>1
  <2> QED
  BY <1>4, <2>2, <2>3 DEF IsInjective, Range
<1> QED
BY <1>4, <1>7, <1>8 DEF t, l, r

\* What a list without repetition holds is at one place of it.
LEMMA FoundOnce ==
  ASSUME NEW s, IsInjective(s), NEW x
  PROVE  LET at == {i \in DOMAIN s : s[i] = x}
         IN IF x \in Range(s) THEN \E k : at = {k} ELSE at = {}
<1>1. CASE x \in Range(s)
  <2>1. PICK k \in DOMAIN s : s[k] = x
    BY <1>1 DEF Range
  <2>2. {i \in DOMAIN s : s[i] = x} = {k}
    BY <2>1 DEF IsInjective
  <2> QED
  BY <1>1, <2>2
<1>2. CASE x \notin Range(s)
  BY <1>2 DEF Range
<1> QED
BY <1>1, <1>2

-----------------------------------------------------------------------------
(* Types                                                                   *)

\* A call that tracks a job has seen that there is one.
Made == \A j \in Jobs : call[j] \in {"tracking", "finalizing", "download"} => status[j] # "none"

Typed == TypeOK /\ Made

\* What the server does to a job that the pages and the notifier do not see.
LEMMA ServerSteps ==
  ASSUME Typed, ServerStep
  PROVE  /\ status' \in [Jobs -> {"none", "queued", "running", "deleted"} \cup Terminal]
         /\ stored' \subseteq Jobs /\ announced' = announced
         /\ \A j \in Jobs :
              /\ status'[j] = "none" <=> status[j] = "none"
              /\ status[j] \in Terminal \cup {"deleted"} =>
                   status'[j] \in Terminal \cup {"deleted"}
<1> DEFINE Goal == /\ status' \in [Jobs -> {"none", "queued", "running", "deleted"} \cup Terminal]
                   /\ stored' \subseteq Jobs /\ announced' = announced
                   /\ \A j \in Jobs :
                        /\ status'[j] = "none" <=> status[j] = "none"
                        /\ status[j] \in Terminal \cup {"deleted"} =>
                             status'[j] \in Terminal \cup {"deleted"}
<1>0. /\ status \in [Jobs -> {"none", "queued", "running", "deleted"} \cup Terminal]
      /\ stored \subseteq Jobs
  BY DEF Typed, TypeOK
<1>1. ASSUME NEW j \in Jobs, Server!Start(j) PROVE Goal
  BY <1>0, <1>1 DEF Server!Start, Terminal
<1>2. ASSUME NEW j \in Jobs, Server!StorePdf(j) PROVE Goal
  BY <1>0, <1>2 DEF Server!StorePdf
<1>3. ASSUME NEW j \in Jobs, Server!Succeed(j) PROVE Goal
  BY <1>0, <1>3 DEF Server!Succeed, Server!Open, Terminal
<1>4. ASSUME NEW j \in Jobs, Server!FailJob(j) PROVE Goal
  BY <1>0, <1>4 DEF Server!FailJob, Server!Open, Terminal
<1>5. ASSUME Server!Purge(Project) PROVE Goal
  BY <1>0, <1>5 DEF Server!Purge
<1> HIDE DEF Goal
<1>6. Goal
  BY <1>1, <1>2, <1>3, <1>4, <1>5 DEF ServerStep
<1> QED
BY <1>6 DEF Goal

LEMMA InitTyped == Init => Typed
  BY ClientAssumption DEF Init, Server!Init, Typed, TypeOK, Made, Terminal, Calls

LEMMA ReleaseTyped ==
  ASSUME Typed, NEW j \in Jobs, call[j] # "none", NEW l \in Calls, Release(j, l), l # "none"
  PROVE  /\ call' \in [Jobs -> Calls] /\ compiling' \in [Pages -> BOOLEAN]
         /\ \A i \in Jobs : call'[i] # "none" => call[i] # "none"
         /\ \A i \in Jobs : call'[i] = IF i = j THEN l ELSE call[i]
  BY DEF Typed, TypeOK, Release

\* A channel takes no more than it has room for.
LEMMA BufferTyped ==
  ASSUME Typed, NEW c \in Jobs, NEW j \in Jobs, Len(buf[c]) < BufferCap
  PROVE  LET b == [buf EXCEPT ![c] = Append(@, j)]
         IN b \in [Jobs -> Seq(Jobs)] /\ \A d \in Jobs : Len(b[d]) <= BufferCap
<1>1. buf \in [Jobs -> Seq(Jobs)] /\ buf[c] \in Seq(Jobs) /\ BufferCap \in Nat
  BY ClientAssumption DEF Typed, TypeOK
<1>2. /\ Append(buf[c], j) \in Seq(Jobs) /\ Len(Append(buf[c], j)) = Len(buf[c]) + 1
      /\ Len(buf[c]) \in Nat
  BY <1>1, AppendProperties, LenProperties
<1>3. Len(Append(buf[c], j)) <= BufferCap
  BY <1>1, <1>2
<1> QED
BY <1>1, <1>2, <1>3 DEF Typed, TypeOK

LEMMA NotifyTyped == Typed /\ Notify => Typed'
<1> SUFFICES ASSUME Typed, Notify PROVE Typed'
  OBVIOUS
<1>1. ASSUME NEW c \in Jobs, Subscribe(c) PROVE Typed'
  <2>1. subs' \in Seq(Jobs)
    BY <1>1, AppendProperties DEF Subscribe, Typed, TypeOK
  <2> QED
  BY <1>1, <2>1 DEF Subscribe, Typed, TypeOK, Made
<1>2. ASSUME NEW c \in Jobs, Unsubscribe(c) PROVE Typed'
  <2>1. PICK i \in DOMAIN subs :
          subs' = SubSeq(subs, 1, i - 1) \o SubSeq(subs, i + 1, Len(subs))
    BY <1>2 DEF Unsubscribe
  <2>2. subs \in Seq(Jobs) /\ i \in 1..Len(subs)
    BY LenProperties DEF Typed, TypeOK
  <2>3. subs' \in Seq(Jobs)
    BY <2>1, <2>2, Removed
  <2> QED
  BY <1>2, <2>3 DEF Unsubscribe, Typed, TypeOK, Made
<1>3. ASSUME NEW c \in Jobs, Deliver(c) PROVE Typed'
  <2>1. /\ buf[c] \in Seq(Jobs) /\ buf[c] # <<>> /\ Len(buf[c]) <= BufferCap
        /\ BufferCap \in Nat
    BY <1>3, ClientAssumption DEF Deliver, Typed, TypeOK
  <2>2. /\ Head(buf[c]) \in Jobs /\ Tail(buf[c]) \in Seq(Jobs)
        /\ Len(Tail(buf[c])) = Len(buf[c]) - 1 /\ Len(buf[c]) \in Nat
    BY <2>1, HeadTailProperties, LenProperties
  <2>3. Len(Tail(buf[c])) <= BufferCap
    BY <2>1, <2>2
  <2>4. /\ buf' = [buf EXCEPT ![c] = Tail(@)] /\ got' = [got EXCEPT ![c] = @ \cup {Head(buf[c])}]
        /\ UNCHANGED <<serverVars, subs, toSend, senders, due, ws, page, polled, pdf>>
    BY <1>3 DEF Deliver
  <2>5. \/ call[c] = "tracking" /\ Release(c, "finalizing")
        \/ UNCHANGED <<call, compiling>>
    BY <1>3 DEF Deliver
  <2>6. /\ buf' \in [Jobs -> Seq(Jobs)] /\ \A d \in Jobs : Len(buf'[d]) <= BufferCap
        /\ got' \in [Jobs -> SUBSET Jobs]
    BY <2>2, <2>3, <2>4 DEF Typed, TypeOK
  <2>7. CASE call[c] = "tracking" /\ Release(c, "finalizing")
    <3>1. /\ call' \in [Jobs -> Calls] /\ compiling' \in [Pages -> BOOLEAN]
          /\ \A i \in Jobs : call'[i] # "none" => call[i] # "none"
          /\ \A i \in Jobs : call'[i] = IF i = c THEN "finalizing" ELSE call[i]
      BY <2>7, ReleaseTyped DEF Calls
    <3> QED
    BY <2>4, <2>6, <2>7, <3>1 DEF Typed, TypeOK, Made
  <2>8. CASE UNCHANGED <<call, compiling>>
    BY <2>4, <2>6, <2>8 DEF Typed, TypeOK, Made
  <2> QED
  BY <2>5, <2>7, <2>8
<1>4. ASSUME NEW j \in Jobs, Publish(j) PROVE Typed'
  <2>1. Range(subs) \subseteq Jobs
    BY LenProperties DEF Typed, TypeOK, Range
  <2> QED
  BY <1>4, <2>1 DEF Publish, Server!Announce, Typed, TypeOK, Made
<1>5. ASSUME NEW j \in Jobs, Send(j) PROVE Typed'
  <2>1. toSend[j] \in Seq(Jobs) /\ toSend[j] # <<>>
    BY <1>5 DEF Send, Typed, TypeOK
  <2>2. Head(toSend[j]) \in Jobs /\ Tail(toSend[j]) \in Seq(Jobs)
    BY <2>1, HeadTailProperties
  <2>3. toSend' \in [Jobs -> Seq(Jobs)]
    BY <1>5, <2>2 DEF Send, Typed, TypeOK
  <2>4. CASE Len(buf[Head(toSend[j])]) < BufferCap
    <3>0. buf' = [buf EXCEPT ![Head(toSend[j])] = Append(@, j)]
      BY <1>5, <2>4 DEF Send
    <3>1. buf' \in [Jobs -> Seq(Jobs)] /\ \A d \in Jobs : Len(buf'[d]) <= BufferCap
      BY <2>2, <2>4, <3>0, BufferTyped
    <3> QED
    BY <1>5, <2>3, <2>4, <3>1 DEF Send, Typed, TypeOK, Made
  <2>5. CASE ~(Len(buf[Head(toSend[j])]) < BufferCap)
    BY <1>5, <2>2, <2>3, <2>5 DEF Send, Typed, TypeOK, Made
  <2> QED
  BY <2>4, <2>5
<1>6. ASSUME NEW c \in Jobs, NEW j \in Jobs, SendLate(c, j) PROVE Typed'
  <2>1. buf' \in [Jobs -> Seq(Jobs)] /\ \A d \in Jobs : Len(buf'[d]) <= BufferCap
    BY <1>6, BufferTyped DEF SendLate
  <2> QED
  BY <1>6, <2>1 DEF SendLate, Typed, TypeOK, Made
<1> QED
BY <1>1, <1>2, <1>3, <1>4, <1>5, <1>6 DEF Notify

LEMMA PageTyped == \A j \in Jobs : Typed /\ PageStep(j) => Typed'
<1> SUFFICES ASSUME NEW j \in Jobs, Typed, PageStep(j) PROVE Typed'
  OBVIOUS
<1>1. CASE Post(j)
  BY <1>1 DEF Post, Server!Submit, Typed, TypeOK, Made
<1>2. CASE Track(j)
  BY <1>2 DEF Track, Typed, TypeOK, Made, Calls
<1>3. ASSUME NEW l \in {"finalizing", "done"}, Release(j, l), call[j] # "none",
             l = "finalizing" => call[j] = "tracking",
             polled' \in [Jobs -> Terminal \cup {"queued", "running", None}],
             UNCHANGED <<serverVars, notifyVars, ws, page, pdf>>
      PROVE  Typed'
  <2>1. /\ call' \in [Jobs -> Calls] /\ compiling' \in [Pages -> BOOLEAN]
        /\ \A i \in Jobs : call'[i] # "none" => call[i] # "none"
        /\ \A i \in Jobs : call'[i] = IF i = j THEN l ELSE call[i]
    BY <1>3, ReleaseTyped DEF Calls
  <2> QED
  BY <1>3, <2>1 DEF Typed, TypeOK, Made
<1>4. CASE PostFails(j) \/ GiveUp(j)
  <2>1. Release(j, "done") /\ call[j] # "none" /\ UNCHANGED <<serverVars, notifyVars, ws, page, polled, pdf>>
    BY <1>4 DEF PostFails, GiveUp
  <2> QED
  BY <1>3, <2>1 DEF Typed, TypeOK
<1>5. CASE Poll(j)
  BY <1>5 DEF Poll, Typed, TypeOK, Made
<1>6. CASE PollAnswer(j)
  <2>1. /\ polled' \in [Jobs -> Terminal \cup {"queued", "running", None}]
        /\ UNCHANGED <<serverVars, notifyVars, ws, page, pdf>>
    BY <1>6 DEF PollAnswer, Typed, TypeOK
  <2>2. \/ call[j] = "tracking" /\ Release(j, "finalizing")
        \/ UNCHANGED <<call, compiling>>
    BY <1>6 DEF PollAnswer
  <2>3. CASE UNCHANGED <<call, compiling>>
    BY <2>1, <2>3 DEF Typed, TypeOK, Made
  <2> QED
  BY <1>3, <2>1, <2>2, <2>3
<1>7. CASE ReadEnd(j)
  BY <1>7 DEF ReadEnd, Typed, TypeOK, Made, Calls
<1>8. CASE Download(j)
  BY <1>8 DEF Download, Typed, TypeOK, Made, Calls
<1> QED
BY <1>1, <1>2, <1>4, <1>5, <1>6, <1>7, <1>8 DEF PageStep

LEMMA NextTyped == Typed /\ [Next]_<<vars, env>> => Typed'
<1> SUFFICES ASSUME Typed, [Next]_<<vars, env>> PROVE Typed'
  OBVIOUS
<1>1. ASSUME NEW t \in Pages, NEW j \in Jobs, CompileNow(t, j) PROVE Typed'
  BY <1>1 DEF CompileNow, Typed, TypeOK, Made, Calls
<1>2. CASE ServerStep
  <2>1. UNCHANGED <<notifyVars, ws, pageVars>>
    BY <1>2 DEF ServerStep
  <2> QED
  BY <1>2, <2>1, ServerSteps DEF Typed, TypeOK, Made
<1>3. CASE UNCHANGED <<vars, env>>
  BY <1>3 DEF Typed, TypeOK, Made
<1> QED
BY <1>1, <1>2, <1>3, NotifyTyped, PageTyped DEF Next

\* Pages, calls, sockets, channels and jobs keep their types; no channel holds
\* more than it has room for, and a call is some page's.
THEOREM ClientTypes == Spec => []TypeOK
<1>1. Spec => []Typed
  BY InitTyped, NextTyped, PTL DEF Spec
<1> QED
BY <1>1, PTL DEF Typed

-----------------------------------------------------------------------------
(* One compile of a page at a time: compilingRef says what the calls of    *)
(* the page are doing (Busy), and two of them are never active (Alone).    *)

ActiveCall(j) == call[j] \in Active

Busy ==
  \A t \in Pages : compiling[t] <=> \E j \in Jobs : page[j] = t /\ ActiveCall(j)

Alone ==
  \A i, j \in Jobs : page[i] = page[j] /\ ActiveCall(i) /\ ActiveCall(j) => i = j

\* A call becomes active when the page starts it and gives the page back when it
\* ends; the other steps leave both as they are.
LEMMA CallSteps ==
  ASSUME Typed, [Next]_<<vars, env>>
  PROVE  \/ UNCHANGED <<call, page, compiling>>
         \/ \E t \in Pages, j \in Jobs : CompileNow(t, j)
         \/ \E j \in Jobs :
              ActiveCall(j) /\ UNCHANGED page /\ (Release(j, "finalizing") \/ Release(j, "done"))
         \/ \E j \in Jobs :
              /\ UNCHANGED <<page, compiling>>
              /\ \E l \in Calls : /\ call' = [call EXCEPT ![j] = l]
                                  /\ ActiveCall(j) <=> l \in Active
<1> DEFINE Same == UNCHANGED <<call, page, compiling>>
           Ends(j) == ActiveCall(j) /\ UNCHANGED page /\ (Release(j, "finalizing") \/ Release(j, "done"))
           Moves(j) == /\ UNCHANGED <<page, compiling>>
                       /\ \E l \in Calls : /\ call' = [call EXCEPT ![j] = l]
                                           /\ ActiveCall(j) <=> l \in Active
<1> USE DEF ActiveCall, Active, Calls
<1>1. ASSUME NEW j \in Jobs, PageStep(j) PROVE Same \/ Ends(j) \/ Moves(j)
  <2>1. CASE Post(j) \/ Poll(j)
    BY <2>1 DEF Post, Poll
  <2>2. CASE Track(j) \/ ReadEnd(j) \/ Download(j)
    BY <2>2 DEF Track, ReadEnd, Download
  <2>3. CASE PostFails(j) \/ GiveUp(j) \/ PollAnswer(j)
    BY <2>3 DEF PostFails, GiveUp, PollAnswer
  <2> QED
  BY <1>1, <2>1, <2>2, <2>3 DEF PageStep
<1>2. ASSUME NEW c \in Jobs, Deliver(c) PROVE Same \/ Ends(c)
  BY <1>2 DEF Deliver
<1>3. ASSUME ServerStep PROVE Same
  BY <1>3 DEF ServerStep
<1>4. ASSUME Notify PROVE Same \/ \E j \in Jobs : Ends(j)
  BY <1>2, <1>4 DEF Notify, Subscribe, Unsubscribe, Publish, Send, SendLate
<1> HIDE DEF Moves, Ends
<1>5. \/ Same \/ (\E t \in Pages, j \in Jobs : CompileNow(t, j))
      \/ (\E j \in Jobs : Ends(j)) \/ (\E j \in Jobs : Moves(j))
  <2>1. CASE UNCHANGED <<vars, env>>
    BY <2>1
  <2>2. CASE \E j \in Jobs : PageStep(j)
    BY <1>1, <2>2
  <2>3. CASE Notify
    BY <1>4, <2>3
  <2> HIDE DEF Same
  <2> QED
  BY <1>3, <2>1, <2>2, <2>3 DEF Next
<1> QED
BY <1>5 DEF Moves, Ends

LEMMA NextAlone == Typed /\ Busy /\ Alone /\ [Next]_<<vars, env>> => Busy' /\ Alone'
<1> SUFFICES ASSUME Typed, Busy, Alone, [Next]_<<vars, env>> PROVE Busy' /\ Alone'
  OBVIOUS
<1>0. /\ call \in [Jobs -> Calls] /\ page \in [Jobs -> Pages \cup {None}]
      /\ compiling \in [Pages -> BOOLEAN]
      /\ \A j \in Jobs : ActiveCall(j) => page[j] \in Pages
  BY DEF Typed, TypeOK, ActiveCall, Active
<1>1. CASE UNCHANGED <<call, page, compiling>>
  BY <1>1 DEF Busy, Alone, ActiveCall
<1>2. ASSUME NEW t \in Pages, NEW j \in Jobs, CompileNow(t, j) PROVE Busy' /\ Alone'
  <2>1. /\ ~compiling[t] /\ call[j] = "none"
        /\ \A i \in Jobs : call'[i] = IF i = j THEN "posting" ELSE call[i]
        /\ \A i \in Jobs : page'[i] = IF i = j THEN t ELSE page[i]
        /\ \A u \in Pages : compiling'[u] = IF u = t THEN TRUE ELSE compiling[u]
    BY <1>0, <1>2 DEF CompileNow
  <2>2. \A i \in Jobs : ActiveCall(i)' <=> i = j \/ ActiveCall(i)
    BY <2>1 DEF ActiveCall, Active
  <2>3. \A i \in Jobs : ActiveCall(i) => page[i] # t /\ i # j
    BY <2>1 DEF Busy, ActiveCall, Active
  <2>4. Busy'
    <3> SUFFICES ASSUME NEW u \in Pages
                 PROVE  compiling'[u] <=> \E i \in Jobs : page'[i] = u /\ ActiveCall(i)'
      BY DEF Busy
    <3>1. CASE u = t
      BY <2>1, <2>2, <3>1
    <3>2. CASE u # t
      <4>1. compiling'[u] <=> compiling[u]
        BY <2>1, <3>2
      <4>2. ASSUME NEW i \in Jobs
            PROVE  page'[i] = u /\ ActiveCall(i)' <=> page[i] = u /\ ActiveCall(i)
        <5>1. CASE i = j
          BY <2>1, <2>3, <3>2, <5>1
        <5>2. CASE i # j
          BY <2>1, <2>2, <5>2
        <5> QED
        BY <5>1, <5>2
      <4>3. compiling[u] <=> \E i \in Jobs : page[i] = u /\ ActiveCall(i)
        BY DEF Busy
      <4> HIDE DEF ActiveCall
      <4> QED
      BY <4>1, <4>2, <4>3
    <3> QED
    BY <3>1, <3>2
  <2>5. Alone'
    BY <2>1, <2>2, <2>3 DEF Alone
  <2> QED
  BY <2>4, <2>5
<1>3. ASSUME NEW j \in Jobs, ActiveCall(j), UNCHANGED page, NEW l \in {"finalizing", "done"},
             Release(j, l)
      PROVE  Busy' /\ Alone'
  <2>1. /\ \A i \in Jobs : call'[i] = IF i = j THEN l ELSE call[i]
        /\ \A u \in Pages : compiling'[u] = IF u = page[j] THEN FALSE ELSE compiling[u]
    BY <1>0, <1>3 DEF Release
  <2>2. \A i \in Jobs : ActiveCall(i)' <=> i # j /\ ActiveCall(i)
    BY <2>1 DEF ActiveCall, Active
  <2>3. Alone'
    BY <1>3, <2>2 DEF Alone
  <2>4. ASSUME NEW u \in Pages PROVE compiling'[u] <=> \E i \in Jobs : page'[i] = u /\ ActiveCall(i)'
    <3>1. CASE u = page[j]
      <4>1. \A i \in Jobs : page[i] = u /\ ActiveCall(i) => i = j
        BY <1>3, <3>1 DEF Alone
      <4> QED
      BY <1>3, <2>1, <2>2, <3>1, <4>1
    <3>2. CASE u # page[j]
      BY <1>3, <2>1, <2>2, <3>2 DEF Busy
    <3> QED
    BY <3>1, <3>2
  <2> QED
  BY <2>3, <2>4 DEF Busy
<1>4. ASSUME NEW j \in Jobs, UNCHANGED <<page, compiling>>, NEW l \in Calls,
             call' = [call EXCEPT ![j] = l], ActiveCall(j) <=> l \in Active
      PROVE  Busy' /\ Alone'
  <2>1. \A i \in Jobs : ActiveCall(i)' <=> ActiveCall(i)
    BY <1>0, <1>4 DEF ActiveCall
  <2> QED
  BY <1>4, <2>1 DEF Busy, Alone
<1> QED
BY <1>1, <1>2, <1>3, <1>4, CallSteps

\* A page follows one compile at a time and its compilingRef says so, whichever
\* of the message, a late poll, a failed request and the timer ended its calls.
THEOREM OneCompileAtATime == Spec => []OneCompile
<1>1. Init => Busy /\ Alone
  BY DEF Init, Busy, Alone, ActiveCall, Active
<1>2. Busy /\ Alone => OneCompile
  <2> SUFFICES ASSUME Busy, Alone, NEW t \in Pages
               PROVE  Cardinality({j \in Jobs : page[j] = t /\ call[j] \in Active})
                        = IF compiling[t] THEN 1 ELSE 0
    BY DEF OneCompile
  <2> DEFINE active == {j \in Jobs : page[j] = t /\ call[j] \in Active}
  <2>1. CASE compiling[t]
    <3>1. PICK j \in Jobs : page[j] = t /\ ActiveCall(j)
      BY <2>1 DEF Busy
    <3>2. active = {j}
      BY <3>1 DEF Alone, ActiveCall
    <3> QED
    BY <2>1, <3>2, FS_Singleton
  <2>2. CASE ~compiling[t]
    <3>1. active = {}
      BY <2>2 DEF Busy, ActiveCall
    <3> QED
    BY <2>2, <3>1, FS_EmptySet
  <2> QED
  BY <2>1, <2>2
<1> QED
BY <1>1, <1>2, InitTyped, NextTyped, NextAlone, PTL DEF Spec

-----------------------------------------------------------------------------
(* Where the messages are. No list holds a channel or a job twice (Lists), *)
(* and a message is in one of its four places when its channel was in the  *)
(* list that publish copied, and in none otherwise (Messages).             *)

Lists ==
  /\ IsInjective(subs) /\ \A c \in Range(subs) : ws[c] = "open"
  /\ \A j \in Jobs : IsInjective(toSend[j]) /\ IsInjective(buf[j])

InLoop(c, j)   == c \in Range(toSend[j])
InBuffer(c, j) == j \in Range(buf[c])
Blocked(c, j)  == <<c, j>> \in senders
AtPage(c, j)   == j \in got[c]

Nowhere(c, j) == ~InLoop(c, j) /\ ~InBuffer(c, j) /\ ~Blocked(c, j) /\ ~AtPage(c, j)

Once(c, j) ==
  /\ InLoop(c, j) => ~InBuffer(c, j) /\ ~Blocked(c, j) /\ ~AtPage(c, j)
  /\ InBuffer(c, j) => ~Blocked(c, j) /\ ~AtPage(c, j)
  /\ Blocked(c, j) => ~AtPage(c, j)

Messages ==
  \A c, j \in Jobs : Once(c, j) /\ (Nowhere(c, j) <=> c \notin due[j])

Published == \A j \in Jobs : due[j] # {} => j \in announced

\* A call that waits for its answer has no socket yet.
Sockets == \A j \in Jobs : call[j] \in {"none", "posting"} => ws[j] = "none"

Noted == Lists /\ Messages /\ Published /\ Sockets

\* Only the notifier and the handlers of its sockets move messages and close
\* sockets.
LEMMA NotifyFrame ==
  ASSUME Typed, Sockets, [Next]_<<vars, env>>
  PROVE  \/ Notify
         \/ /\ UNCHANGED <<notifyVars>> /\ Sockets'
            /\ \A c \in Jobs : ws[c] = "open" => ws'[c] = "open"
<1> DEFINE Quiet == /\ UNCHANGED <<notifyVars>> /\ Sockets'
                    /\ \A c \in Jobs : ws[c] = "open" => ws'[c] = "open"
<1>0. /\ ws \in [Jobs -> {"none", "opening", "open", "closed"}]
      /\ call \in [Jobs -> Calls]
  BY DEF Typed, TypeOK
<1>1. ASSUME NEW t \in Pages, NEW j \in Jobs, CompileNow(t, j) PROVE Quiet
  BY <1>0, <1>1 DEF CompileNow, Sockets
<1>2. ASSUME NEW j \in Jobs, PageStep(j) PROVE Quiet
  <2>1. CASE Track(j)
    BY <1>0, <2>1 DEF Track, Sockets
  <2>2. CASE Post(j) \/ Poll(j)
    BY <2>2 DEF Post, Poll, Sockets
  <2>3. CASE PostFails(j) \/ GiveUp(j) \/ PollAnswer(j)
    BY <1>0, <2>3 DEF PostFails, GiveUp, PollAnswer, Release, Sockets
  <2>4. CASE ReadEnd(j) \/ Download(j)
    BY <1>0, <2>4 DEF ReadEnd, Download, Sockets
  <2> QED
  BY <1>2, <2>1, <2>2, <2>3, <2>4 DEF PageStep
<1>3. ASSUME ServerStep PROVE Quiet
  BY <1>3 DEF ServerStep, Sockets
<1>4. ASSUME UNCHANGED <<vars, env>> PROVE Quiet
  BY <1>4 DEF Sockets
<1> HIDE DEF Quiet
<1>5. Notify \/ Quiet
  BY <1>1, <1>2, <1>3, <1>4 DEF Next
<1> QED
BY <1>5 DEF Quiet

LEMMA SocketsStep == Typed /\ Sockets /\ [Next]_<<vars, env>> => Sockets'
<1> SUFFICES ASSUME Typed, Sockets, Notify PROVE Sockets'
  BY NotifyFrame
<1>0. /\ ws \in [Jobs -> {"none", "opening", "open", "closed"}]
      /\ call \in [Jobs -> Calls]
  BY DEF Typed, TypeOK
<1>1. ASSUME NEW c \in Jobs, Subscribe(c) \/ Unsubscribe(c) \/ Deliver(c) PROVE Sockets'
  BY <1>0, <1>1 DEF Subscribe, Unsubscribe, Deliver, Release, Sockets
<1>2. ASSUME NEW j \in Jobs, Publish(j) \/ Send(j) \/ \E c \in Jobs : SendLate(c, j)
      PROVE  Sockets'
  BY <1>2 DEF Publish, Send, SendLate, Sockets
<1> QED
BY <1>1, <1>2 DEF Notify

\* The first place is left for the second or the third, which does not hold the
\* message yet.
LEMMA Sent ==
  ASSUME Typed, Noted, NEW j \in Jobs, Send(j)
  PROVE  LET c == Head(toSend[j])
         IN /\ c \in Jobs /\ toSend[j] \in Seq(Jobs) /\ buf[c] \in Seq(Jobs)
            /\ InLoop(c, j) /\ j \notin Range(buf[c])
            /\ c \notin Range(Tail(toSend[j])) /\ IsInjective(Tail(toSend[j]))
            /\ Range(toSend[j]) = Range(Tail(toSend[j])) \cup {c}
            /\ toSend' = [toSend EXCEPT ![j] = Tail(@)]
            /\ \/ buf' = [buf EXCEPT ![c] = Append(@, j)] /\ senders' = senders
               \/ senders' = senders \cup {<<c, j>>} /\ buf' = buf
            /\ UNCHANGED <<subs, announced, due, got, ws>>
<1> DEFINE c == Head(toSend[j])
<1>1. toSend[j] \in Seq(Jobs) /\ toSend[j] # <<>> /\ IsInjective(toSend[j])
  BY DEF Send, Typed, TypeOK, Noted, Lists
<1>2. /\ Range(toSend[j]) = Range(Tail(toSend[j])) \cup {c}
      /\ c \notin Range(Tail(toSend[j])) /\ IsInjective(Tail(toSend[j]))
  BY <1>1, Received
<1>3. c \in Jobs
  BY <1>1, HeadTailProperties
<1>4. InLoop(c, j) /\ j \notin Range(buf[c])
  BY <1>2, <1>3 DEF InLoop, InBuffer, Noted, Messages, Once
<1>5. buf[c] \in Seq(Jobs)
  BY <1>3 DEF Typed, TypeOK
<1>6. /\ toSend' = [toSend EXCEPT ![j] = Tail(@)]
      /\ \/ buf' = [buf EXCEPT ![c] = Append(@, j)] /\ senders' = senders
         \/ senders' = senders \cup {<<c, j>>} /\ buf' = buf
      /\ UNCHANGED <<subs, announced, due, got, ws>>
  BY DEF Send
<1> HIDE DEF c
<1> QED
BY <1>1, <1>2, <1>3, <1>4, <1>5, <1>6 DEF c

\* A blocked goroutine's message is in no channel.
LEMMA SentLate ==
  ASSUME Typed, Noted, NEW c \in Jobs, NEW j \in Jobs, SendLate(c, j)
  PROVE  /\ buf[c] \in Seq(Jobs) /\ Blocked(c, j) /\ j \notin Range(buf[c])
         /\ buf' = [buf EXCEPT ![c] = Append(@, j)] /\ senders' = senders \ {<<c, j>>}
         /\ UNCHANGED <<subs, toSend, announced, due, got, ws>>
  BY DEF SendLate, Typed, TypeOK, Noted, Messages, Once, Blocked, InBuffer

\* What is delivered leaves the channel.
LEMMA Delivered ==
  ASSUME Typed, Noted, NEW c \in Jobs, Deliver(c)
  PROVE  LET j == Head(buf[c])
         IN /\ j \in Jobs /\ buf[c] \in Seq(Jobs) /\ InBuffer(c, j)
            /\ j \notin Range(Tail(buf[c])) /\ IsInjective(Tail(buf[c]))
            /\ Range(buf[c]) = Range(Tail(buf[c])) \cup {j}
            /\ buf' = [buf EXCEPT ![c] = Tail(@)]
            /\ got' = [got EXCEPT ![c] = @ \cup {j}]
            /\ UNCHANGED <<subs, toSend, announced, senders, due, ws>>
<1> DEFINE j == Head(buf[c])
<1>1. buf[c] \in Seq(Jobs) /\ buf[c] # <<>> /\ IsInjective(buf[c])
  BY DEF Deliver, Typed, TypeOK, Noted, Lists
<1>2. /\ Range(buf[c]) = Range(Tail(buf[c])) \cup {j}
      /\ j \notin Range(Tail(buf[c])) /\ IsInjective(Tail(buf[c]))
  BY <1>1, Received
<1>3. j \in Jobs /\ InBuffer(c, j)
  BY <1>1, <1>2, HeadTailProperties DEF InBuffer
<1>4. /\ buf' = [buf EXCEPT ![c] = Tail(@)] /\ got' = [got EXCEPT ![c] = @ \cup {j}]
      /\ UNCHANGED <<subs, toSend, announced, senders, due, ws>>
  BY DEF Deliver
<1> HIDE DEF j
<1> QED
BY <1>1, <1>2, <1>3, <1>4 DEF j

LEMMA ListsStep == Typed /\ Noted /\ [Next]_<<vars, env>> => Lists'
<1> SUFFICES ASSUME Typed, Noted, [Next]_<<vars, env>> PROVE Lists'
  OBVIOUS
<1>0. /\ subs \in Seq(Jobs) /\ buf \in [Jobs -> Seq(Jobs)] /\ toSend \in [Jobs -> Seq(Jobs)]
      /\ ws \in [Jobs -> {"none", "opening", "open", "closed"}]
      /\ Range(subs) \subseteq Jobs /\ Lists /\ Sockets
  BY LenProperties DEF Typed, TypeOK, Noted, Range
<1>1. CASE UNCHANGED <<notifyVars>> /\ \A c \in Jobs : ws[c] = "open" => ws'[c] = "open"
  BY <1>0, <1>1 DEF Lists
<1>2. ASSUME NEW c \in Jobs, Subscribe(c) PROVE Lists'
  <2>1. c \notin Range(subs)
    BY <1>0, <1>2 DEF Subscribe, Lists
  <2>2. Range(subs') = Range(subs) \cup {c} /\ IsInjective(subs')
    BY <1>0, <1>2, <2>1, Appended DEF Subscribe, Lists
  <2>3. \A d \in Range(subs') : ws'[d] = "open"
    BY <1>0, <1>2, <2>2 DEF Subscribe, Lists
  <2> QED
  BY <1>0, <1>2, <2>2, <2>3 DEF Subscribe, Lists
<1>3. ASSUME NEW c \in Jobs, Unsubscribe(c) PROVE Lists'
  <2>1. PICK i \in DOMAIN subs :
          subs[i] = c /\ subs' = SubSeq(subs, 1, i - 1) \o SubSeq(subs, i + 1, Len(subs))
    BY <1>3 DEF Unsubscribe
  <2>2. i \in 1..Len(subs)
    BY <1>0, LenProperties
  <2>3. Range(subs') \subseteq Range(subs) /\ IsInjective(subs') /\ c \notin Range(subs')
    BY <1>0, <2>1, <2>2, Removed DEF Lists
  <2>4. \A d \in Range(subs') : ws'[d] = "open"
    BY <1>0, <1>3, <2>3 DEF Unsubscribe, Lists
  <2> QED
  BY <1>0, <1>3, <2>3, <2>4 DEF Unsubscribe, Lists
<1>4. ASSUME NEW c \in Jobs, Deliver(c) PROVE Lists'
  BY <1>0, <1>4, Delivered DEF Lists
<1>5. ASSUME NEW j \in Jobs, Publish(j) PROVE Lists'
  BY <1>0, <1>5 DEF Publish, Lists
<1>6. ASSUME NEW j \in Jobs, Send(j) PROVE Lists'
  <2>1. IsInjective(Append(buf[Head(toSend[j])], j))
    BY <1>0, <1>6, Sent, Appended DEF Lists
  <2>2. \A i \in Jobs : IsInjective(toSend'[i])
    BY <1>0, <1>6, Sent DEF Lists
  <2>3. \A d \in Jobs : IsInjective(buf'[d])
    <3> DEFINE c == Head(toSend[j])
    <3>1. CASE buf' = [buf EXCEPT ![c] = Append(@, j)]
      <4> HIDE DEF c
      <4>1. \A d \in Jobs : buf'[d] = IF d = c THEN Append(buf[c], j) ELSE buf[d]
        BY <1>0, <3>1
      <4> QED
      BY <1>0, <2>1, <4>1 DEF Lists, c
    <3>2. CASE buf' = buf
      BY <1>0, <3>2 DEF Lists
    <3> QED
    BY <1>6, <3>1, <3>2, Sent
  <2>4. subs' = subs /\ ws' = ws
    BY <1>6, Sent
  <2> QED
  BY <1>0, <2>2, <2>3, <2>4 DEF Lists
<1>7. ASSUME NEW c \in Jobs, NEW j \in Jobs, SendLate(c, j) PROVE Lists'
  <2>1. IsInjective(Append(buf[c], j))
    BY <1>0, <1>7, SentLate, Appended DEF Lists
  <2>2. \A d \in Jobs : IsInjective(buf'[d])
    <3>1. buf' = [buf EXCEPT ![c] = Append(@, j)]
      BY <1>7, SentLate
    <3>2. \A d \in Jobs : buf'[d] = IF d = c THEN Append(buf[c], j) ELSE buf[d]
      BY <1>0, <3>1
    <3> QED
    BY <1>0, <2>1, <3>2 DEF Lists
  <2>3. subs' = subs /\ ws' = ws /\ toSend' = toSend
    BY <1>7, SentLate
  <2> QED
  BY <1>0, <2>2, <2>3 DEF Lists
<1>8. Notify => Lists'
  BY <1>2, <1>3, <1>4, <1>5, <1>6, <1>7 DEF Notify
<1> QED
BY <1>0, <1>1, <1>8, NotifyFrame

LEMMA PublishedStep == Typed /\ Noted /\ [Next]_<<vars, env>> => Published'
<1> SUFFICES ASSUME Typed, Noted, [Next]_<<vars, env>> PROVE Published'
  OBVIOUS
<1>0. Published /\ Sockets /\ due \in [Jobs -> SUBSET Jobs]
  BY DEF Noted, Typed, TypeOK
<1>1. ASSUME NEW j \in Jobs, Publish(j) PROVE Published'
  BY <1>0, <1>1 DEF Publish, Server!Announce, Published
<1>2. ASSUME NEW c \in Jobs, Subscribe(c) \/ Unsubscribe(c) \/ Deliver(c) PROVE Published'
  BY <1>0, <1>2 DEF Subscribe, Unsubscribe, Deliver, Published
<1>3. ASSUME NEW j \in Jobs, Send(j) \/ \E c \in Jobs : SendLate(c, j) PROVE Published'
  BY <1>0, <1>3 DEF Send, SendLate, Published
<1>4. CASE ~Notify
  <2>1. due' = due
    BY <1>0, <1>4, NotifyFrame
  <2>2. announced \subseteq announced'
    <3>1. ASSUME NEW t \in Pages, NEW j \in Jobs, CompileNow(t, j) PROVE announced' = announced
      BY <3>1 DEF CompileNow
    <3>2. ASSUME NEW j \in Jobs, PageStep(j) PROVE announced' = announced
      BY <3>2 DEF PageStep, Post, Server!Submit, Track, PostFails, Poll, PollAnswer, GiveUp,
                  ReadEnd, Download
    <3> QED
    BY <1>4, <3>1, <3>2, ServerSteps DEF Next
  <2> QED
  BY <1>0, <2>1, <2>2 DEF Published
<1> QED
BY <1>1, <1>2, <1>3, <1>4 DEF Notify

\* A message moves from place to place; publish makes one for each channel.
LEMMA MessagesStep == Typed /\ Noted /\ [Next]_<<vars, env>> => Messages'
<1> SUFFICES ASSUME Typed, Noted, [Next]_<<vars, env>> PROVE Messages'
  OBVIOUS
<1>0. /\ subs \in Seq(Jobs) /\ buf \in [Jobs -> Seq(Jobs)] /\ toSend \in [Jobs -> Seq(Jobs)]
      /\ due \in [Jobs -> SUBSET Jobs] /\ got \in [Jobs -> SUBSET Jobs]
      /\ Messages /\ Published /\ Sockets
  BY DEF Typed, TypeOK, Noted
<1>1. CASE UNCHANGED <<buf, toSend, senders, due, got>>
  BY <1>0, <1>1 DEF Messages, Once, Nowhere, InLoop, InBuffer, Blocked, AtPage
<1>2. ASSUME NEW j \in Jobs, Publish(j) PROVE Messages'
  <2>1. /\ \A i \in Jobs : toSend'[i] = IF i = j THEN subs ELSE toSend[i]
        /\ \A i \in Jobs : due'[i] = IF i = j THEN Range(subs) ELSE due[i]
        /\ UNCHANGED <<buf, senders, got>> /\ j \notin announced
    BY <1>0, <1>2 DEF Publish, Server!Announce
  <2>2. \A c \in Jobs : Nowhere(c, j)
    BY <1>0, <2>1 DEF Published, Messages
  <2>3. ASSUME NEW c \in Jobs, NEW i \in Jobs
        PROVE  Once(c, i)' /\ (Nowhere(c, i)' <=> c \notin due'[i])
    <3>1. InBuffer(c, i)' = InBuffer(c, i) /\ Blocked(c, i)' = Blocked(c, i) /\ AtPage(c, i)' = AtPage(c, i)
      BY <2>1 DEF InBuffer, Blocked, AtPage
    <3>2. CASE i = j
      <4>1. InLoop(c, i)' <=> c \in due'[i]
        BY <2>1, <3>2 DEF InLoop
      <4>2. ~InBuffer(c, i) /\ ~Blocked(c, i) /\ ~AtPage(c, i)
        BY <2>2, <3>2 DEF Nowhere
      <4> QED
      BY <3>1, <4>1, <4>2 DEF Once, Nowhere
    <3>3. CASE i # j
      <4>1. InLoop(c, i)' = InLoop(c, i) /\ due'[i] = due[i]
        BY <2>1, <3>3 DEF InLoop
      <4> QED
      BY <1>0, <3>1, <4>1 DEF Messages, Once, Nowhere
    <3> QED
    BY <3>2, <3>3
  <2> QED
  BY <2>3 DEF Messages
<1>3. ASSUME NEW j \in Jobs, Send(j) PROVE Messages'
  <2> DEFINE d == Head(toSend[j])
  <2>1. /\ d \in Jobs /\ InLoop(d, j) /\ d \notin Range(Tail(toSend[j]))
        /\ Range(toSend[j]) = Range(Tail(toSend[j])) \cup {d}
        /\ toSend' = [toSend EXCEPT ![j] = Tail(@)]
        /\ UNCHANGED <<due, got>>
    BY <1>3, Sent
  <2>2. \/ buf' = [buf EXCEPT ![d] = Append(@, j)] /\ senders' = senders
        \/ senders' = senders \cup {<<d, j>>} /\ buf' = buf
    BY <1>3, Sent
  <2>3. Range(Append(buf[d], j)) = Range(buf[d]) \cup {j}
    BY <1>0, <2>1, Appended
  <2> HIDE DEF d
  <2>4. ASSUME NEW c \in Jobs, NEW i \in Jobs
        PROVE  /\ InLoop(c, i)' <=> InLoop(c, i) /\ ~(c = d /\ i = j)
               /\ AtPage(c, i)' <=> AtPage(c, i)
               /\ \/ /\ InBuffer(c, i)' <=> InBuffer(c, i) \/ (c = d /\ i = j)
                     /\ Blocked(c, i)' <=> Blocked(c, i)
                  \/ /\ Blocked(c, i)' <=> Blocked(c, i) \/ (c = d /\ i = j)
                     /\ InBuffer(c, i)' <=> InBuffer(c, i)
    <3>1. InLoop(c, i)' <=> InLoop(c, i) /\ ~(c = d /\ i = j)
      BY <1>0, <2>1 DEF InLoop
    <3>2. AtPage(c, i)' <=> AtPage(c, i)
      BY <2>1 DEF AtPage
    <3>3. CASE buf' = [buf EXCEPT ![d] = Append(@, j)] /\ senders' = senders
      <4>1. InBuffer(c, i)' <=> InBuffer(c, i) \/ (c = d /\ i = j)
        BY <1>0, <2>3, <3>3 DEF InBuffer
      <4>2. Blocked(c, i)' <=> Blocked(c, i)
        BY <3>3 DEF Blocked
      <4> QED
      BY <3>1, <3>2, <4>1, <4>2
    <3>4. CASE senders' = senders \cup {<<d, j>>} /\ buf' = buf
      BY <3>1, <3>2, <3>4 DEF Blocked, InBuffer
    <3> QED
    BY <2>2, <3>3, <3>4
  <2>5. ASSUME NEW c \in Jobs, NEW i \in Jobs
        PROVE  Once(c, i)' /\ (Nowhere(c, i)' <=> c \notin due'[i])
    <3>1. Once(c, i) /\ (Nowhere(c, i) <=> c \notin due[i])
      BY <1>0 DEF Messages
    <3>2. due' = due
      BY <2>1
    <3> QED
    BY <2>1, <2>4, <3>1, <3>2 DEF Once, Nowhere
  <2> QED
  BY <2>5 DEF Messages
<1>4. ASSUME NEW d \in Jobs, NEW j \in Jobs, SendLate(d, j) PROVE Messages'
  <2>1. /\ Blocked(d, j) /\ buf' = [buf EXCEPT ![d] = Append(@, j)]
        /\ senders' = senders \ {<<d, j>>} /\ UNCHANGED <<toSend, due, got>>
    BY <1>4, SentLate
  <2>2. Range(Append(buf[d], j)) = Range(buf[d]) \cup {j}
    BY <1>0, Appended
  <2>3. ASSUME NEW c \in Jobs, NEW i \in Jobs
        PROVE  Once(c, i)' /\ (Nowhere(c, i)' <=> c \notin due'[i])
    <3>1. Once(c, i) /\ (Nowhere(c, i) <=> c \notin due[i])
      BY <1>0 DEF Messages
    <3>2. InLoop(c, i)' = InLoop(c, i) /\ AtPage(c, i)' = AtPage(c, i) /\ due'[i] = due[i]
      BY <2>1 DEF InLoop, AtPage
    <3>3. InBuffer(c, i)' <=> InBuffer(c, i) \/ (c = d /\ i = j)
      BY <1>0, <2>1, <2>2 DEF InBuffer
    <3>4. Blocked(c, i)' <=> Blocked(c, i) /\ ~(c = d /\ i = j)
      BY <2>1 DEF Blocked
    <3> QED
    BY <2>1, <3>1, <3>2, <3>3, <3>4 DEF Once, Nowhere
  <2> QED
  BY <2>3 DEF Messages
<1>5. ASSUME NEW d \in Jobs, Deliver(d) PROVE Messages'
  <2> DEFINE j == Head(buf[d])
  <2>1. /\ j \in Jobs /\ InBuffer(d, j) /\ j \notin Range(Tail(buf[d]))
        /\ Range(buf[d]) = Range(Tail(buf[d])) \cup {j}
        /\ buf' = [buf EXCEPT ![d] = Tail(@)]
        /\ got' = [got EXCEPT ![d] = @ \cup {j}]
        /\ UNCHANGED <<toSend, senders, due>>
    BY <1>5, Delivered
  <2> HIDE DEF j
  <2>2. ASSUME NEW c \in Jobs, NEW i \in Jobs
        PROVE  Once(c, i)' /\ (Nowhere(c, i)' <=> c \notin due'[i])
    <3>1. Once(c, i) /\ (Nowhere(c, i) <=> c \notin due[i])
      BY <1>0 DEF Messages
    <3>2. InLoop(c, i)' = InLoop(c, i) /\ Blocked(c, i)' = Blocked(c, i) /\ due'[i] = due[i]
      BY <2>1 DEF InLoop, Blocked
    <3>3. InBuffer(c, i)' <=> InBuffer(c, i) /\ ~(c = d /\ i = j)
      BY <1>0, <2>1 DEF InBuffer
    <3>4. AtPage(c, i)' <=> AtPage(c, i) \/ (c = d /\ i = j)
      BY <1>0, <2>1 DEF AtPage
    <3> QED
    BY <2>1, <3>1, <3>2, <3>3, <3>4 DEF Once, Nowhere
  <2> QED
  BY <2>2 DEF Messages
<1>6. ASSUME NEW c \in Jobs, Subscribe(c) \/ Unsubscribe(c) PROVE Messages'
  BY <1>1, <1>6 DEF Subscribe, Unsubscribe
<1>7. Notify => Messages'
  BY <1>2, <1>3, <1>4, <1>5, <1>6 DEF Notify
<1>8. ~Notify => UNCHANGED <<buf, toSend, senders, due, got>>
  BY <1>0, NotifyFrame
<1> QED
BY <1>1, <1>7, <1>8

LEMMA InitNoted == Init => Noted
<1> SUFFICES ASSUME Init PROVE Noted
  OBVIOUS
<1>1. Range(<<>>) = {} /\ IsInjective(<<>>)
  BY DEF Range, IsInjective
<1>2. /\ subs = <<>> /\ senders = {}
      /\ \A j \in Jobs : buf[j] = <<>> /\ toSend[j] = <<>> /\ due[j] = {} /\ got[j] = {} /\ ws[j] = "none"
  BY DEF Init
<1> QED
BY <1>1, <1>2 DEF Noted, Lists, Messages, Published, Sockets, Once, Nowhere, InLoop, InBuffer,
                  Blocked, AtPage

LEMMA ClientNoted == Spec => [](Typed /\ Noted)
<1>1. Typed /\ Noted /\ [Next]_<<vars, env>> => Noted'
  BY ListsStep, MessagesStep, PublishedStep, SocketsStep DEF Noted
<1> QED
BY <1>1, InitTyped, InitNoted, NextTyped, PTL DEF Spec

\* The message that a job ended is in one place, once, for every page that was
\* subscribed when it was published: neither a full channel, nor pages that come
\* and go while publish walks its copy of the list, lose or repeat it.
THEOREM NoticeInOnePlace == Spec => []NoticeKept
<1>1. Typed /\ Noted => NoticeKept
  <2> SUFFICES ASSUME Typed, Noted, NEW j \in Jobs, NEW c \in due[j]
               PROVE  Cardinality(Places(c, j)) = 1
    BY DEF NoticeKept
  <2> DEFINE loop == {k \in DOMAIN toSend[j] : toSend[j][k] = c}
             chan == {k \in DOMAIN buf[c] : buf[c][k] = j}
  <2>1. c \in Jobs
    BY DEF Typed, TypeOK
  <2>2. Once(c, j) /\ ~Nowhere(c, j) /\ IsInjective(toSend[j]) /\ IsInjective(buf[c])
    BY <2>1 DEF Noted, Messages, Lists
  <2>3. IF InLoop(c, j) THEN \E k : loop = {k} ELSE loop = {}
    BY <2>2, FoundOnce DEF InLoop
  <2>4. IF InBuffer(c, j) THEN \E k : chan = {k} ELSE chan = {}
    BY <2>2, FoundOnce DEF InBuffer
  <2>5. Places(c, j) = {<<"loop", i>> : i \in loop} \cup {<<"buffer", i>> : i \in chan}
                         \cup (IF Blocked(c, j) THEN {<<"sender", 0>>} ELSE {})
                         \cup (IF AtPage(c, j) THEN {<<"page", 0>>} ELSE {})
    BY DEF Places, Blocked, AtPage
  <2> HIDE DEF loop, chan
  <2>6. \E x : Places(c, j) = {x}
    <3>1. CASE InLoop(c, j)
      <4>1. PICK k : loop = {k}
        BY <2>3, <3>1
      <4>2. Places(c, j) = {<<"loop", k>>}
        BY <2>2, <2>4, <2>5, <3>1, <4>1 DEF Once
      <4> QED
      BY <4>2
    <3>2. CASE InBuffer(c, j)
      <4>1. PICK k : chan = {k}
        BY <2>4, <3>2
      <4>2. Places(c, j) = {<<"buffer", k>>}
        BY <2>2, <2>3, <2>5, <3>2, <4>1 DEF Once
      <4> QED
      BY <4>2
    <3>3. CASE Blocked(c, j)
      BY <2>2, <2>3, <2>4, <2>5, <3>3 DEF Once
    <3>4. CASE AtPage(c, j)
      BY <2>2, <2>3, <2>4, <2>5, <3>4 DEF Once
    <3> QED
    BY <2>2, <3>1, <3>2, <3>3, <3>4 DEF Nowhere
  <2> QED
  BY <2>6, FS_Singleton
<1> QED
BY <1>1, ClientNoted, PTL

-----------------------------------------------------------------------------
(* A page hears of the end of a job from its message or from a poll, and   *)
(* both are true (Heard).                                                  *)

Ended == Terminal \cup {"deleted"}

Told(j) == j \in announced \/ polled[j] \in Terminal \/ call[j] \in {"finalizing", "download"}

Heard == ~Faulty("db") => \A j \in Jobs : Told(j) => status[j] \in Ended

\* A job that ended stays so, and what a step tells of a job ended.
LEMMA HeardStep == Typed /\ Noted /\ Heard /\ [Next]_<<vars, env>> => Heard'
<1> SUFFICES ASSUME Typed, Noted, Heard, [Next]_<<vars, env>>, ~Faulty("db")' PROVE Heard'
  BY DEF Heard
<1> USE DEF Terminal, Ended, Told
<1>0. /\ status \in [Jobs -> {"none", "queued", "running", "deleted"} \cup Terminal]
      /\ call \in [Jobs -> Calls] /\ polled \in [Jobs -> Terminal \cup {"queued", "running", None}]
  BY DEF Typed, TypeOK
<1>1. ~Faulty("db") /\ "db" \notin Faults
  BY DEF Faulty
<1>2. \A j \in Jobs : Told(j) => status[j] \in Ended
  BY <1>1 DEF Heard
<1>3. ASSUME UNCHANGED <<announced, polled, call>>,
             \A j \in Jobs : status[j] \in Ended => status'[j] \in Ended
      PROVE  Heard'
  BY <1>2, <1>3 DEF Heard
<1>4. ASSUME NEW j \in Jobs, NEW l \in Calls, l # "finalizing" \/ status[j] \in Ended,
             l # "download" \/ status[j] \in Ended, call' = [call EXCEPT ![j] = l],
             UNCHANGED <<announced, status>>,
             \A i \in Jobs : polled'[i] \in Terminal => polled[i] \in Terminal
      PROVE  Heard'
  BY <1>0, <1>2, <1>4 DEF Heard
<1>5. ASSUME NEW t \in Pages, NEW j \in Jobs, CompileNow(t, j) PROVE Heard'
  BY <1>4, <1>5 DEF CompileNow, Calls
<1>6. ASSUME NEW j \in Jobs, PageStep(j) PROVE Heard'
  <2>1. CASE Post(j)
    BY <1>0, <1>3, <2>1 DEF Post, Server!Submit
  <2>2. CASE Track(j) \/ PostFails(j) \/ GiveUp(j)
    BY <1>4, <2>2 DEF Track, PostFails, GiveUp, Release, Calls
  <2>3. CASE Poll(j)
    <3>1. \A i \in Jobs : polled'[i] = IF i = j THEN status[j] ELSE polled[i]
      BY <1>0, <2>3 DEF Poll
    <3>2. UNCHANGED <<announced, status, call>>
      BY <2>3 DEF Poll
    <3> QED
    BY <1>2, <3>1, <3>2 DEF Heard
  <2>4. CASE PollAnswer(j)
    <3>1. /\ \A i \in Jobs : polled'[i] \in Terminal => polled[i] \in Terminal
          /\ UNCHANGED <<announced, status>>
      BY <1>0, <2>4, ClientAssumption DEF PollAnswer
    <3>2. \/ polled[j] \in Terminal /\ call' = [call EXCEPT ![j] = "finalizing"]
          \/ call' = call
      BY <2>4 DEF PollAnswer, Release
    <3>3. CASE polled[j] \in Terminal /\ call' = [call EXCEPT ![j] = "finalizing"]
      BY <1>2, <1>4, <3>1, <3>3 DEF Calls
    <3>4. CASE call' = call
      BY <1>2, <3>1, <3>4 DEF Heard
    <3> QED
    BY <3>2, <3>3, <3>4
  <2>5. CASE ReadEnd(j)
    BY <1>2, <1>4, <2>5 DEF ReadEnd, Calls
  <2>6. CASE Download(j)
    BY <1>4, <2>6 DEF Download, Calls
  <2> QED
  BY <1>6, <2>1, <2>2, <2>3, <2>4, <2>5, <2>6 DEF PageStep
<1>7. CASE ServerStep
  <2>1. UNCHANGED <<announced, polled, call>>
    BY <1>7, ServerSteps DEF ServerStep
  <2> QED
  BY <1>3, <1>7, <2>1, ServerSteps
<1>8. ASSUME NEW c \in Jobs, Deliver(c) PROVE Heard'
  <2>1. /\ UNCHANGED <<announced, status, polled>>
        /\ \/ Head(buf[c]) = c /\ call' = [call EXCEPT ![c] = "finalizing"]
           \/ call' = call
    BY <1>8 DEF Deliver, Release
  <2>2. CASE Head(buf[c]) = c /\ call' = [call EXCEPT ![c] = "finalizing"]
    <3>1. InBuffer(c, c)
      BY <1>8, <2>2, Delivered
    <3>2. c \in announced
      BY <3>1 DEF Noted, Messages, Nowhere, Published
    <3> QED
    BY <1>2, <1>4, <2>1, <2>2, <3>2 DEF Calls
  <2>3. CASE call' = call
    BY <1>3, <2>1, <2>3
  <2> QED
  BY <2>1, <2>2, <2>3
<1>9. ASSUME NEW j \in Jobs, Publish(j) PROVE Heard'
  <2>1. status[j] \in Ended /\ announced' = announced \cup {j} /\ UNCHANGED <<status, polled, call>>
    BY <1>1, <1>9 DEF Publish, Server!Announce, Server!Terminal
  <2> QED
  BY <1>2, <2>1 DEF Heard
<1>10. CASE Notify
  BY <1>3, <1>8, <1>9, <1>10 DEF Notify, Subscribe, Unsubscribe, Send, SendLate
<1>11. CASE UNCHANGED <<vars, env>>
  BY <1>3, <1>11
<1> QED
BY <1>5, <1>6, <1>7, <1>10, <1>11 DEF Next

\* Unless the database loses an UPDATE, a page that finalizes a call reads the
\* last state of the job: the message and the polls tell of jobs that ended only.
THEOREM PagesReadTheEnd == Spec => []FinalizedAfterEnd
<1>1. Init => Heard
  BY ClientAssumption DEF Init, Server!Init, Heard, Told, Terminal
<1>2. Heard => FinalizedAfterEnd
  BY DEF Heard, Told, Ended, FinalizedAfterEnd
<1> QED
BY <1>1, <1>2, HeardStep, ClientNoted, PTL DEF Spec

-----------------------------------------------------------------------------
(* The jobs the pages see are those of CompileJob: what is proved of every *)
(* behaviour of that module is true of the jobs here.                      *)

\* Whatever pages and notifier do, the jobs behave as the API promises.
THEOREM ClientsSeeJobs == Spec => Server!Spec
<1>1. Init => Server!Init
  BY DEF Init
<1>2. Typed /\ [Next]_<<vars, env>> => [Server!Next]_(Server!vars)
  <2> SUFFICES ASSUME Typed, [Next]_<<vars, env>> PROVE [Server!Next]_(Server!vars)
    OBVIOUS
  <2>1. ASSUME NEW t \in Pages, NEW j \in Jobs, CompileNow(t, j) PROVE UNCHANGED serverVars
    BY <2>1 DEF CompileNow
  <2>2. ASSUME NEW j \in Jobs, PageStep(j) PROVE Server!Submit(j) \/ UNCHANGED serverVars
    BY <2>2 DEF PageStep, Post, Track, PostFails, Poll, PollAnswer, GiveUp, ReadEnd, Download
  <2>3. ASSUME ServerStep
        PROVE  \/ \E j \in Jobs : \/ Server!Start(j) \/ Server!StorePdf(j)
                                  \/ Server!Succeed(j) \/ Server!FailJob(j)
               \/ Server!Purge(Project)
    BY <2>3 DEF ServerStep
  <2>4. ASSUME Notify PROVE (\E j \in Jobs : Server!Announce(j)) \/ UNCHANGED serverVars
    BY <2>4 DEF Notify, Subscribe, Unsubscribe, Deliver, Publish, Send, SendLate
  <2>5. ASSUME Server!Purge(Project) PROVE [Server!Next]_(Server!vars)
    <3>1. CASE Jobs = {}
      <4>1. status' = status
        BY <2>5, <3>1 DEF Server!Purge, Typed, TypeOK
      <4> QED
      BY <2>5, <4>1 DEF Server!Purge, Server!vars
    <3>2. ASSUME NEW j \in Jobs PROVE [Server!Next]_(Server!vars)
      <4>1. Server!Purge([i \in Jobs |-> Project][j])
        BY <2>5
      <4> QED
      BY <4>1 DEF Server!Next
    <3> QED
    BY <3>1, <3>2
  <2>6. ASSUME UNCHANGED serverVars PROVE [Server!Next]_(Server!vars)
    BY <2>6 DEF Server!vars
  <2>7. CASE \E j \in Jobs : \/ Server!Submit(j) \/ Server!Start(j) \/ Server!StorePdf(j)
                            \/ Server!Succeed(j) \/ Server!FailJob(j) \/ Server!Announce(j)
    BY <2>7 DEF Server!Next
  <2> QED
  BY <2>1, <2>2, <2>3, <2>4, <2>5, <2>6, <2>7 DEF Next
<1> QED
BY <1>1, <1>2, InitTyped, NextTyped, PTL DEF Spec, Server!Spec

================================================================================
