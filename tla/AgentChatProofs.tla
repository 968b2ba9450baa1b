---------------------------- MODULE AgentChatProofs ----------------------------
(***************************************************************************)
(* Theorems about the conversation with the agent, for any files, texts,   *)
(* faults and bounds.                                                      *)
(***************************************************************************)
EXTENDS AgentChat, SequenceTheorems, TLAPS

-----------------------------------------------------------------------------
(* Types.                                                                  *)

Messages == [role : {"user", "assistant"}, n : Nat, from : SUBSET Nat]
Files == [Paths -> Contents \cup {None}]
Events == [type : {"text", "proposals", "done"}, files : Files]
Chats == [messages : Seq(Messages), draft : {"none", "text", "image"}, sending : BOOLEAN,
          reading : BOOLEAN]
StreamType ==
  [pc : PCs, turn : Nat, pending : Files, wire : Seq(Events), read : BOOLEAN, proposed : BOOLEAN,
   history : Seq(Messages)]
Batches == [all : Files, left : Files]

Typed ==
  /\ env \in Envs
  /\ chat \in Chats
  /\ proposals \in Files /\ due \in Files /\ batch \in Batches \cup {None}
  /\ stream \in Seq(StreamType) /\ said \in Seq(Files) /\ Len(said) = Len(stream)

\* The events and the empty files have their types.
LEMMA EventTypes ==
  /\ NoFiles \in Files /\ Text \in Events /\ Done \in Events
  /\ \A f \in Files : Proposals(f) \in Events
  /\ Text.type = "text" /\ Done.type = "done"
  /\ \A f : Proposals(f).type = "proposals" /\ Proposals(f).files = f
BY DEF NoFiles, Files, Text, Done, Proposals, Events

LEMMA OverTypes ==
  ASSUME NEW new \in Files, NEW old \in Files
  PROVE  /\ Over(new, old) \in Files
         /\ Over(NoFiles, old) = old /\ Over(old, NoFiles) = old
<1>1. Over(new, old) \in Files
  BY DEF Over, Files
<1>2. Over(NoFiles, old) = old
  BY DEF Over, Files, NoFiles
<1>3. Over(old, NoFiles) = old
  <2>1. \A f \in Paths : Over(old, NoFiles)[f] = old[f]
    BY DEF Over, Files, NoFiles
  <2> QED
  BY <2>1 DEF Over, Files
<1> QED
BY <1>1, <1>2, <1>3

\* A stream is replaced.
LEMMA StreamPut ==
  ASSUME Typed, NEW n \in Streams, NEW t \in StreamType
  PROVE  LET new == [stream EXCEPT ![n] = t]
         IN  /\ new \in Seq(StreamType) /\ Len(new) = Len(stream) /\ DOMAIN new = Streams
             /\ new[n] = t /\ \A m \in Streams : m # n => new[m] = stream[m]
<1>1. Streams = 1..Len(stream)
  BY LenProperties DEF Typed, Streams
<1> QED
BY <1>1, ExceptSeq, LenProperties DEF Typed

LEMMA StreamIs ==
  ASSUME Typed, NEW n \in Streams
  PROVE  /\ stream[n] \in StreamType /\ said[n] \in Files /\ n \in Nat \ {0}
         /\ Streams = 1..Len(stream) /\ DOMAIN said = Streams /\ Len(stream) \in Nat
         /\ stream[n].pc \in PCs /\ stream[n].turn \in Nat /\ stream[n].pending \in Files
         /\ stream[n].wire \in Seq(Events) /\ stream[n].read \in BOOLEAN
         /\ stream[n].proposed \in BOOLEAN /\ stream[n].history \in Seq(Messages)
<1>1. Streams = 1..Len(stream) /\ DOMAIN said = 1..Len(said) /\ Len(stream) \in Nat
  BY LenProperties DEF Typed, Streams
<1>2. stream[n] \in StreamType /\ said[n] \in Files
  BY <1>1, ElementOfSeq DEF Typed
<1> QED
BY <1>1, <1>2 DEF Typed, StreamType

LEMMA ChatIs ==
  ASSUME Typed
  PROVE  /\ chat.messages \in Seq(Messages) /\ chat.sending \in BOOLEAN /\ chat.reading \in BOOLEAN
         /\ Len(chat.messages) \in Nat /\ DOMAIN chat.messages = 1..Len(chat.messages)
         /\ \A i \in DOMAIN chat.messages : chat.messages[i] \in Messages
<1>1. chat.messages \in Seq(Messages) /\ chat.sending \in BOOLEAN /\ chat.reading \in BOOLEAN
  BY DEF Typed, Chats
<1> QED
BY <1>1, LenProperties, ElementOfSeq

-----------------------------------------------------------------------------
(* What the server does to its stream. Whether the page reads it, what the *)
(* page had of it and what it was sent are not the server's.               *)

\* The events of a stream whose answer ends: the drafts and the end are written, too.
Closing(s) ==
  s.wire \o (IF s.pending = NoFiles THEN <<>> ELSE <<Proposals(s.pending)>>) \o <<Done>>

Served(n, t) ==
  /\ stream' = [stream EXCEPT ![n] = t] /\ t \in StreamType
  /\ t.read = stream[n].read /\ t.history = stream[n].history /\ t.proposed = stream[n].proposed
  /\ UNCHANGED <<chat, proposals, batch, due>>
  /\ said' \in Seq(Files) /\ Len(said') = Len(said)
  /\ \A m \in Streams : m # n => said'[m] = said[m]
  /\ excuse \subseteq excuse'
  /\ stream[n].pc # "over"
  /\ stream[n].read =>
       IF t.pc # "over" THEN t.wire = stream[n].wire \/ t.wire = Append(stream[n].wire, Text)
       ELSE t.wire = Closing(stream[n])
  /\ t.pc = "over" => t.pending = stream[n].pending
  /\ excuse' = {} /\ said[n] = stream[n].pending => said'[n] = t.pending

\* The stream s, when one more text was written to it.
Emitted(s) == IF s.read THEN [s EXCEPT !.wire = Append(@, Text)] ELSE s

LEMMA EmitText ==
  ASSUME Typed, NEW n \in Streams, NEW s \in StreamType, s.read = stream[n].read
  PROVE  Emit([stream EXCEPT ![n] = s], n, Text) = [stream EXCEPT ![n] = Emitted(s)]
<1> DEFINE new == [stream EXCEPT ![n] = s]
<1>1. new[n] = s /\ \A m \in Streams : m # n => new[m] = stream[m]
  BY StreamPut
<1>2. new = [m \in Streams |-> IF m = n THEN s ELSE stream[m]]
  BY LenProperties DEF Typed, Streams
<1>3. CASE s.read
  <2>1. Emit(new, n, Text) = [new EXCEPT ![n] = [s EXCEPT !.wire = Append(@, Text)]]
    BY <1>1, <1>3 DEF Emit
  <2>2. Emitted(s) = [s EXCEPT !.wire = Append(@, Text)]
    BY <1>3 DEF Emitted
  <2> HIDE DEF new
  <2>3. [new EXCEPT ![n] = Emitted(s)] = [m \in Streams |-> IF m = n THEN Emitted(s) ELSE stream[m]]
    BY <1>2
  <2>4. [stream EXCEPT ![n] = Emitted(s)] = [m \in Streams |-> IF m = n THEN Emitted(s) ELSE stream[m]]
    BY LenProperties DEF Typed, Streams
  <2> QED
  BY <2>1, <2>2, <2>3, <2>4 DEF new
<1>4. CASE ~s.read
  BY <1>1, <1>4 DEF Emit, Emitted
<1> QED
BY <1>3, <1>4

\* A step of the pipeline that goes on to another place, with or without a text.
LEMMA PassOn ==
  ASSUME Typed, NEW n \in Streams, NEW s \in StreamType,
         s.pc # "over", s.wire = stream[n].wire, s.read = stream[n].read,
         s.proposed = stream[n].proposed, s.history = stream[n].history, s.pending = stream[n].pending,
         stream[n].pc # "over",
         \/ stream' = [stream EXCEPT ![n] = s]
         \/ stream' = Emit([stream EXCEPT ![n] = s], n, Text),
         UNCHANGED <<chat, proposals, batch, due, said, excuse>>
  PROVE  \E t : Served(n, t)
<1>1. said \in Seq(Files)
  BY DEF Typed
<1>2. CASE stream' = [stream EXCEPT ![n] = s]
  BY <1>1, <1>2 DEF Served
<1>3. CASE stream' = Emit([stream EXCEPT ![n] = s], n, Text)
  <2> DEFINE t == Emitted(s)
  <2>1. stream' = [stream EXCEPT ![n] = t]
    BY <1>3, EmitText
  <2>2. Append(s.wire, Text) \in Seq(Events)
    BY StreamIs, EventTypes, AppendProperties
  <2>3. /\ t \in StreamType /\ t.pc = s.pc /\ t.read = s.read /\ t.proposed = s.proposed
        /\ t.history = s.history /\ t.pending = s.pending
        /\ s.read => t.wire = Append(s.wire, Text)
    <3>1. CASE s.read
      <4>1. t = [s EXCEPT !.wire = Append(s.wire, Text)]
        BY <3>1 DEF Emitted, StreamType
      <4> QED
      BY <2>2, <4>1 DEF StreamType
    <3>2. CASE ~s.read
      BY <3>2 DEF Emitted
    <3> QED
    BY <3>1, <3>2
  <2> HIDE DEF t
  <2> QED
  BY <1>1, <2>1, <2>3 DEF Served
<1> QED
BY <1>2, <1>3

LEMMA PipelineServes ==
  ASSUME Typed, NEW n \in Streams, Pipeline(n)
  PROVE  \E t : Served(n, t)
<1> DEFINE s == stream[n]
           piped(pc) == [s EXCEPT !.pc = pc]
<1>1. /\ s \in StreamType /\ s.pc \in PCs /\ s.turn \in Nat /\ s.pending \in Files
      /\ s.wire \in Seq(Events) /\ s.read \in BOOLEAN
  BY StreamIs
<1>2. \A pc : Pipe(n, pc) = [stream EXCEPT ![n] = piped(pc)]
  BY <1>1 DEF Pipe
<1>3. \A pc \in PCs : /\ piped(pc) \in StreamType /\ piped(pc).pc = pc
                      /\ piped(pc).wire = s.wire /\ piped(pc).read = s.read
                      /\ piped(pc).proposed = s.proposed /\ piped(pc).history = s.history
                      /\ piped(pc).pending = s.pending
  BY <1>1 DEF StreamType
<1>4. /\ "think" \in PCs /\ "end" \in PCs /\ "turn" \in PCs /\ "tools" \in PCs /\ "over" \in PCs
  BY DEF PCs
<1> HIDE DEF piped
<1>5. ASSUME NEW pc \in PCs \ {"over"}, s.pc # "over",
             stream' = Pipe(n, pc) \/ stream' = Emit(Pipe(n, pc), n, Text),
             UNCHANGED <<Server, said, excuse>>
      PROVE  \E t : Served(n, t)
  <2>1. UNCHANGED <<chat, proposals, batch, due, said, excuse>>
    BY <1>5 DEF Server
  <2>2. \/ stream' = [stream EXCEPT ![n] = piped(pc)]
        \/ stream' = Emit([stream EXCEPT ![n] = piped(pc)], n, Text)
    BY <1>2, <1>5
  <2> QED
  BY <1>3, <1>5, <2>1, <2>2, PassOn
<1>6. CASE Begin(n)
  BY <1>4, <1>5, <1>6 DEF Begin, At
<1>7. CASE Think(n)
  BY <1>4, <1>5, <1>7 DEF Think, At
<1>8. CASE AskTools(n)
  <2> DEFINE k == s.turn + 1
             u == [s EXCEPT !.pc = "tools", !.turn = k]
  <2>0. k \in Nat
    BY <1>1
  <2> HIDE DEF k
  <2>1. /\ u \in StreamType /\ u.pc = "tools" /\ u.wire = s.wire /\ u.read = s.read
        /\ u.proposed = s.proposed /\ u.history = s.history /\ u.pending = s.pending
    BY <1>1, <1>4, <2>0 DEF StreamType
  <2>2. [stream EXCEPT ![n].pc = "tools", ![n].turn = @ + 1] = [stream EXCEPT ![n] = u]
    <3>1. stream = [m \in Streams |-> stream[m]]
      BY LenProperties DEF Typed, Streams
    <3>2. [[stream EXCEPT ![n].pc = "tools"] EXCEPT ![n].turn = @ + 1] = [stream EXCEPT ![n] = u]
      BY <1>1, <3>1 DEF StreamType, k
    <3> QED
    BY <3>2
  <2> HIDE DEF u
  <2>3. s.pc = "turn" /\ UNCHANGED <<chat, proposals, batch, due, said, excuse>>
        /\ stream' = Emit([stream EXCEPT ![n] = u], n, Text)
    BY <1>8, <2>2 DEF AskTools, At, Server
  <2> QED
  BY <2>1, <2>3, PassOn
<1>9. CASE AskDone(n)
  BY <1>4, <1>5, <1>9 DEF AskDone, At
<1>10. CASE AskFails(n)
  BY <1>4, <1>5, <1>10 DEF AskFails, At
<1>11. CASE ToolsDone(n)
  BY <1>4, <1>5, <1>11 DEF ToolsDone, At
<1>12. CASE WriteSSEDone(n)
  <2> DEFINE drafts == IF s.pending = NoFiles THEN <<>> ELSE <<Proposals(s.pending)>>
             w == s.wire \o drafts \o <<Done>>
             u == [s EXCEPT !.pc = "over", !.wire = w]
  <2>1. s.pc = "end" /\ UNCHANGED <<chat, proposals, batch, due, said, excuse>>
    BY <1>12 DEF WriteSSEDone, At, Server
  <2>2. drafts \in Seq(Events) /\ <<Done>> \in Seq(Events)
    BY <1>1, EventTypes
  <2>3. w \in Seq(Events)
    BY <1>1, <2>2, ConcatProperties
  <2>4. said \in Seq(Files)
    BY DEF Typed
  <2>5. CASE s.read
    <3>1. stream' = [stream EXCEPT ![n].pc = "over", ![n].wire = @ \o drafts \o <<Done>>]
      BY <1>12, <2>5 DEF WriteSSEDone
    <3>2. stream = [m \in Streams |-> stream[m]]
      BY LenProperties DEF Typed, Streams
    <3> HIDE DEF drafts
    <3>3. [[stream EXCEPT ![n].pc = "over"] EXCEPT ![n].wire = @ \o drafts \o <<Done>>]
          = [stream EXCEPT ![n] = u]
      BY <1>1, <3>2 DEF StreamType
    <3>4. stream' = [stream EXCEPT ![n] = u]
      BY <3>1, <3>3
    <3> HIDE DEF w
    <3>5. /\ u \in StreamType /\ u.pc = "over" /\ u.wire = w /\ u.read = s.read
          /\ u.proposed = s.proposed /\ u.history = s.history /\ u.pending = s.pending
      BY <1>1, <1>4, <2>3 DEF StreamType
    <3> HIDE DEF u
    <3>6. u.wire = Closing(s)
      BY <3>5 DEF w, drafts, Closing
    <3> QED
    BY <2>1, <2>4, <3>4, <3>5, <3>6 DEF Served
  <2>6. CASE ~s.read
    <3>1. stream' = [stream EXCEPT ![n] = piped("over")]
      BY <1>2, <1>12, <2>6 DEF WriteSSEDone
    <3> QED
    BY <1>3, <1>4, <2>1, <2>4, <2>6, <3>1 DEF Served
  <2> QED
  BY <1>1, <2>5, <2>6
<1> QED
BY <1>6, <1>7, <1>8, <1>9, <1>10, <1>11, <1>12 DEF Pipeline

LEMMA WriteServes ==
  ASSUME Typed, NEW n \in Streams, NEW f \in env.paths, NEW c \in Contents,
         WriteDraft(n, f, c) \/ WriteLarge(n, f, c)
  PROVE  \E t : Served(n, t)
<1> DEFINE s == stream[n]
<1>1. /\ s \in StreamType /\ s.pending \in Files /\ said[n] \in Files /\ s.wire \in Seq(Events)
      /\ said \in Seq(Files) /\ n \in 1..Len(said) /\ f \in Paths
      /\ Streams = 1..Len(said)
  BY StreamIs, ChatAssumption, LenProperties DEF Typed
<1>2. ASSUME NEW g \in Files, said' = [said EXCEPT ![n] = g]
      PROVE  /\ said' \in Seq(Files) /\ Len(said') = Len(said) /\ said'[n] = g
             /\ \A m \in Streams : m # n => said'[m] = said[m]
  BY <1>1, <1>2, ExceptSeq
<1>3. CASE WriteDraft(n, f, c)
  <2> DEFINE p == [s.pending EXCEPT ![f] = c]
             u == [s EXCEPT !.pending = p]
             g == [said[n] EXCEPT ![f] = c]
  <2>1. p \in Files /\ g \in Files
    BY <1>1 DEF Files
  <2>2. stream' = [stream EXCEPT ![n] = u] /\ said' = [said EXCEPT ![n] = g] /\ s.pc = "tools"
        /\ UNCHANGED <<chat, proposals, batch, due, excuse>>
    BY <1>3 DEF WriteDraft, Server, At
  <2>3. said[n] = s.pending => g = p
    OBVIOUS
  <2> HIDE DEF p, g
  <2>4. /\ u \in StreamType /\ u.pc = s.pc /\ u.wire = s.wire /\ u.read = s.read
        /\ u.proposed = s.proposed /\ u.history = s.history /\ u.pending = p
    BY <1>1, <2>1 DEF StreamType
  <2> HIDE DEF u
  <2> QED
  BY <1>2, <2>1, <2>2, <2>3, <2>4 DEF Served
<1>4. CASE WriteLarge(n, f, c)
  <2> DEFINE g == [said[n] EXCEPT ![f] = None]
  <2>1. g \in Files
    BY <1>1 DEF Files
  <2>2. UNCHANGED stream /\ said' = [said EXCEPT ![n] = g] /\ s.pc = "tools"
        /\ UNCHANGED <<chat, proposals, batch, due>>
        /\ excuse' = excuse \cup (IF s.pending[f] = None THEN {} ELSE {"shadowed"})
    BY <1>4 DEF WriteLarge, Server, At
  <2>3. excuse' = {} /\ said[n] = s.pending => g = s.pending
    <3>1. SUFFICES ASSUME excuse' = {}, said[n] = s.pending PROVE g = s.pending
      OBVIOUS
    <3>2. s.pending[f] = None
      BY <2>2, <3>1
    <3> QED
    BY <1>1, <3>1, <3>2 DEF Files
  <2> HIDE DEF g
  <2>4. stream' = [stream EXCEPT ![n] = s]
    BY <2>2, LenProperties DEF Typed, Streams
  <2>5. excuse \subseteq excuse'
    BY <2>2
  <2> QED
  BY <1>1, <1>2, <2>1, <2>2, <2>3, <2>4, <2>5 DEF Served
<1> QED
BY <1>3, <1>4

-----------------------------------------------------------------------------
(* What the page does with what it reads.                                  *)

\* The last turn takes what an event brings; all else stays.
Spoken(new, n) ==
  /\ new \in Chats
  /\ new.sending = chat.sending /\ new.reading = chat.reading
  /\ Len(new.messages) = Len(chat.messages)
  /\ \A i \in DOMAIN chat.messages :
       /\ new.messages[i].n = chat.messages[i].n /\ new.messages[i].role = chat.messages[i].role
       /\ new.messages[i].from \subseteq
            chat.messages[i].from \cup (IF i = Len(chat.messages) /\ chat.messages[i].role = "assistant"
                                        THEN {n} ELSE {})

LEMMA ApplySpeaks ==
  ASSUME Typed, NEW n \in Nat PROVE Spoken(ApplyEvent(n), n)
<1> DEFINE last == Len(chat.messages)
           m == chat.messages[last]
           said1 == [m EXCEPT !.from = m.from \cup {n}]
           ms == [chat.messages EXCEPT ![last] = said1]
<1>1. /\ chat.messages \in Seq(Messages) /\ chat.sending \in BOOLEAN /\ chat.reading \in BOOLEAN
      /\ last \in Nat /\ DOMAIN chat.messages = 1..last /\ chat \in Chats
      /\ \A i \in DOMAIN chat.messages : chat.messages[i] \in Messages
  BY ChatIs DEF Typed
<1>2. CASE last = 0 \/ m.role # "assistant"
  BY <1>1, <1>2 DEF ApplyEvent, Spoken
<1>3. CASE last # 0 /\ m.role = "assistant"
  <2>1. last \in 1..last /\ m \in Messages
    BY <1>1, <1>3
  <2>2. /\ said1 \in Messages /\ said1.n = m.n /\ said1.role = m.role
        /\ said1.from = m.from \cup {n}
    BY <2>1 DEF Messages
  <2> HIDE DEF said1
  <2>3. /\ ms \in Seq(Messages) /\ Len(ms) = last
        /\ \A i \in 1..last : ms[i] = IF i = last THEN said1 ELSE chat.messages[i]
    BY <1>1, <2>1, <2>2, ExceptSeq
  <2>4. ApplyEvent(n) = [chat EXCEPT !.messages = ms]
    BY <1>1, <1>3, <2>1 DEF ApplyEvent, Chats, said1
  <2> HIDE DEF ms
  <2>5. /\ ApplyEvent(n) \in Chats /\ ApplyEvent(n).messages = ms
        /\ ApplyEvent(n).sending = chat.sending /\ ApplyEvent(n).reading = chat.reading
    BY <1>1, <2>3, <2>4 DEF Chats
  <2>6. m = chat.messages[last]
    OBVIOUS
  <2> HIDE DEF m
  <2> QED
  BY <1>1, <1>3, <2>2, <2>3, <2>5, <2>6 DEF Spoken
<1> QED
BY <1>2, <1>3

PageReads(n, t) ==
  /\ stream' = [stream EXCEPT ![n] = t] /\ t \in StreamType
  /\ stream[n].read /\ t.history = stream[n].history /\ t.pending = stream[n].pending
  /\ UNCHANGED <<batch, said>> /\ excuse \subseteq excuse'
  /\ \/ /\ t.read /\ t.pc = stream[n].pc /\ t.proposed = stream[n].proposed
        /\ stream[n].wire # <<>> /\ Head(stream[n].wire).type = "text" /\ t.wire = Tail(stream[n].wire)
        /\ chat' = ApplyEvent(n) /\ UNCHANGED <<proposals, due>>
     \/ /\ t.read /\ t.pc = stream[n].pc /\ t.proposed
        /\ stream[n].wire # <<>> /\ Head(stream[n].wire).type = "proposals" /\ t.wire = Tail(stream[n].wire)
        /\ proposals' = Over(Head(stream[n].wire).files, proposals) /\ UNCHANGED <<chat, due>>
     \/ /\ ~t.read /\ stream[n].wire # <<>> /\ Head(stream[n].wire).type = "done"
        /\ chat' = [chat EXCEPT !.sending = FALSE]
        /\ due' = Over(said[n], due) /\ UNCHANGED proposals
     \/ /\ ~t.read /\ (stream[n].pc # "over" \/ ~stream[n].proposed \/ excuse' # {})
        /\ chat' = [ApplyEvent(n) EXCEPT !.sending = FALSE] /\ UNCHANGED <<proposals, due>>

LEMMA PageMoves ==
  ASSUME Typed, NEW n \in Streams, Reads(n) \/ Refused(n) \/ Broken(n)
  PROVE  \E t : PageReads(n, t)
<1> DEFINE s == stream[n]
           w == Tail(s.wire)
<1>1. /\ s \in StreamType /\ s.pc \in PCs /\ s.wire \in Seq(Events) /\ s.read \in BOOLEAN
      /\ s.proposed \in BOOLEAN
  BY StreamIs
<1>2. s.wire # <<>> => w \in Seq(Events)
  BY <1>1, HeadTailProperties
<1>3. stream = [m \in Streams |-> stream[m]]
  BY LenProperties DEF Typed, Streams
<1>4. Popped(n) = [stream EXCEPT ![n] = [s EXCEPT !.wire = w]]
  BY <1>1 DEF Popped, StreamType
<1>5. CASE ReadEvent(n)
  <2> DEFINE t == [s EXCEPT !.wire = w]
  <2>1. /\ s.read /\ s.wire # <<>> /\ Head(s.wire).type = "text" /\ chat' = ApplyEvent(n)
        /\ UNCHANGED <<proposals, batch, said, due, excuse>> /\ stream' = [stream EXCEPT ![n] = t]
    BY <1>4, <1>5 DEF ReadEvent, Arrives, Coming
  <2> HIDE DEF w
  <2>2. /\ t \in StreamType /\ t.wire = w /\ t.read = s.read /\ t.pc = s.pc
        /\ t.proposed = s.proposed /\ t.history = s.history /\ t.pending = s.pending
    BY <1>1, <1>2, <2>1 DEF StreamType
  <2> HIDE DEF t
  <2> QED
  BY <2>1, <2>2 DEF PageReads, w
<1>6. CASE ReadProposals(n)
  <2> DEFINE t == [s EXCEPT !.wire = w, !.proposed = TRUE]
  <2>1. [Popped(n) EXCEPT ![n].proposed = TRUE] = [stream EXCEPT ![n] = t]
    BY <1>1, <1>3, <1>4 DEF StreamType
  <2>2. /\ s.read /\ s.wire # <<>> /\ Head(s.wire).type = "proposals" /\ excuse \subseteq excuse'
        /\ proposals' = Over(Head(s.wire).files, proposals)
        /\ UNCHANGED <<chat, batch, said, due>> /\ stream' = [stream EXCEPT ![n] = t]
    BY <1>6, <2>1 DEF ReadProposals, Arrives, Coming
  <2> HIDE DEF w
  <2>3. /\ t \in StreamType /\ t.wire = w /\ t.read = s.read /\ t.pc = s.pc
        /\ t.proposed = TRUE /\ t.history = s.history /\ t.pending = s.pending
    BY <1>1, <1>2, <2>2 DEF StreamType
  <2> HIDE DEF t
  <2> QED
  BY <2>2, <2>3 DEF PageReads, w
<1>7. CASE ReadDone(n)
  <2> DEFINE t == [s EXCEPT !.wire = w, !.read = FALSE]
  <2>1. [Popped(n) EXCEPT ![n].read = FALSE] = [stream EXCEPT ![n] = t]
    BY <1>1, <1>3, <1>4 DEF StreamType
  <2>2. /\ s.read /\ s.wire # <<>> /\ Head(s.wire).type = "done"
        /\ chat' = [chat EXCEPT !.sending = FALSE] /\ due' = Over(said[n], due)
        /\ UNCHANGED <<proposals, batch, said, excuse>> /\ stream' = [stream EXCEPT ![n] = t]
    BY <1>7, <2>1 DEF ReadDone, Arrives, Coming, Ends
  <2> HIDE DEF w
  <2>3. /\ t \in StreamType /\ t.wire = w /\ t.read = FALSE
        /\ t.history = s.history /\ t.pending = s.pending
    BY <1>1, <1>2, <2>2 DEF StreamType
  <2> HIDE DEF t
  <2> QED
  BY <2>2, <2>3 DEF PageReads
<1>8. CASE Refused(n)
  <2> DEFINE t == [s EXCEPT !.pc = "over", !.read = FALSE]
  <2>1. [stream EXCEPT ![n].pc = "over", ![n].read = FALSE] = [stream EXCEPT ![n] = t]
    BY <1>1, <1>3 DEF StreamType
  <2>2. /\ s.read /\ s.pc = "sent"
        /\ chat' = [ApplyEvent(n) EXCEPT !.sending = FALSE] /\ due' = due
        /\ UNCHANGED <<proposals, batch, said, excuse>> /\ stream' = [stream EXCEPT ![n] = t]
    BY <1>8, <2>1 DEF Refused, At, Ends
  <2>3. t \in StreamType /\ t.read = FALSE /\ t.history = s.history /\ t.pending = s.pending
    BY <1>1 DEF StreamType, PCs
  <2> HIDE DEF t
  <2> QED
  BY <2>2, <2>3 DEF PageReads
<1>9. CASE Broken(n)
  <2> DEFINE t == [s EXCEPT !.wire = <<>>, !.read = FALSE]
  <2>1. [stream EXCEPT ![n].wire = <<>>, ![n].read = FALSE] = [stream EXCEPT ![n] = t]
    BY <1>1, <1>3 DEF StreamType
  <2>2. /\ s.read /\ (~s.proposed \/ excuse' # {}) /\ excuse \subseteq excuse'
        /\ chat' = [ApplyEvent(n) EXCEPT !.sending = FALSE] /\ due' = due
        /\ UNCHANGED <<proposals, batch, said>> /\ stream' = [stream EXCEPT ![n] = t]
    BY <1>9, <2>1 DEF Broken, Ends
  <2>3. <<>> \in Seq(Events)
    BY EmptySeq
  <2>4. t \in StreamType /\ t.read = FALSE /\ t.history = s.history /\ t.pending = s.pending
    BY <1>1, <2>3 DEF StreamType
  <2> HIDE DEF t
  <2> QED
  BY <2>2, <2>4 DEF PageReads
<1> QED
BY <1>5, <1>6, <1>7, <1>8, <1>9 DEF Reads

-----------------------------------------------------------------------------
(* A turn is posted: two messages and a stream more.                       *)

LEMMA PostAdds ==
  ASSUME Typed, Posted(chat.messages)
  PROVE  LET n == Len(stream) + 1
             k == Len(chat.messages)
         IN  /\ chat' \in Chats /\ chat'.sending /\ ~chat'.reading
             /\ Len(chat'.messages) = k + 2
             /\ \A i \in 1..k : chat'.messages[i] = chat.messages[i]
             /\ chat'.messages[k + 1] = User(n) /\ chat'.messages[k + 2] = Assistant(n)
             /\ stream' \in Seq(StreamType) /\ Len(stream') = n
             /\ said' \in Seq(Files) /\ Len(said') = n
             /\ \A m \in 1..Len(stream) : stream'[m] = stream[m] /\ said'[m] = said[m]
             /\ stream'[n] = Stream(Append(chat.messages, User(n))) /\ said'[n] = NoFiles
<1> DEFINE n == Len(stream) + 1
           k == Len(chat.messages)
           two == <<User(n), Assistant(n)>>
           all == chat.messages \o two
           h == Append(chat.messages, User(n))
           new == Stream(h)
<1>1. chat.messages \in Seq(Messages) /\ k \in Nat /\ Len(stream) \in Nat /\ n \in Nat
  BY ChatIs, LenProperties DEF Typed
<1>2. chat' = [messages |-> all, draft |-> "none", sending |-> TRUE, reading |-> FALSE]
      /\ stream' = Append(stream, new) /\ said' = Append(said, NoFiles)
  BY DEF Posted
<1>3. User(n) \in Messages /\ Assistant(n) \in Messages
  <2> HIDE DEF n
  <2> QED
  BY <1>1 DEF User, Assistant, Messages
<1>4. two \in Seq(Messages) /\ Len(two) = 2 /\ two[1] = User(n) /\ two[2] = Assistant(n)
  <2>1. \A a, b \in Messages : <<a, b>> \in Seq(Messages) /\ Len(<<a, b>>) = 2
    OBVIOUS
  <2>2. two[1] = User(n) /\ two[2] = Assistant(n)
    OBVIOUS
  <2> QED
  BY <1>3, <2>1, <2>2
<1> HIDE DEF two
<1>5. all \in Seq(Messages) /\ Len(all) = k + 2
      /\ \A i \in 1..(k + 2) : all[i] = IF i <= k THEN chat.messages[i] ELSE two[i - k]
  <2>1. all \in Seq(Messages)
    BY <1>1, <1>4, ConcatProperties
  <2>2. Len(all) = k + 2
    <3>1. Len(all) = Len(chat.messages) + Len(two)
      BY <1>1, <1>4, ConcatProperties
    <3> QED
    BY <1>4, <3>1
  <2>3. \A i \in 1..(k + 2) : all[i] = IF i <= k THEN chat.messages[i] ELSE two[i - k]
    BY <1>1, <1>4, ConcatProperties
  <2> QED
  BY <2>1, <2>2, <2>3
<1>6. /\ \A i \in 1..k : all[i] = chat.messages[i]
      /\ all[k + 1] = User(n) /\ all[k + 2] = Assistant(n)
  <2>1. \A i \in 1..k : all[i] = chat.messages[i]
    BY <1>1, <1>5
  <2>2. k + 1 \in 1..(k + 2) /\ k + 2 \in 1..(k + 2) /\ ~(k + 1 <= k) /\ ~(k + 2 <= k)
        /\ k + 1 - k = 1 /\ k + 2 - k = 2
    BY <1>1
  <2> QED
  BY <1>4, <1>5, <2>1, <2>2
<1>7. h \in Seq(Messages)
  BY <1>1, <1>3, AppendProperties
<1>8. new \in StreamType
  <2>1. <<>> \in Seq(Events) /\ NoFiles \in Files /\ "sent" \in PCs
    BY EmptySeq, EventTypes DEF PCs
  <2> HIDE DEF h
  <2> QED
  BY <1>7, <2>1 DEF Stream, StreamType
<1> HIDE DEF new, all, h
<1>9. /\ chat' \in Chats /\ chat'.sending /\ ~chat'.reading /\ chat'.messages = all
  BY <1>2, <1>5 DEF Chats
<1>10. /\ stream' \in Seq(StreamType) /\ Len(stream') = n /\ stream'[n] = new
       /\ \A m \in 1..Len(stream) : stream'[m] = stream[m]
  <2>1. stream \in Seq(StreamType)
    BY DEF Typed
  <2> QED
  BY <1>2, <1>8, <2>1, AppendProperties
<1>11. /\ said' \in Seq(Files) /\ Len(said') = n /\ said'[n] = NoFiles
       /\ \A m \in 1..Len(stream) : said'[m] = said[m]
  <2>1. said \in Seq(Files) /\ Len(said) = Len(stream)
    BY DEF Typed
  <2> QED
  BY <1>2, <2>1, EventTypes, AppendProperties
<1> QED
BY <1>5, <1>6, <1>9, <1>10, <1>11 DEF new, h

-----------------------------------------------------------------------------
(* What the user settles, and a page that is loaded again.                 *)

LEMMA ListOf ==
  ASSUME NEW S, NEW k \in Nat, NEW g \in [1..k -> S]
  PROVE  g \in Seq(S) /\ Len(g) = k /\ DOMAIN g = 1..k
BY SeqDef

LEMMA Settled ==
  ASSUME Typed, Settle
  PROVE  /\ proposals' = NoFiles /\ due' = NoFiles /\ NoFiles \in Files
         /\ said' \in Seq(Files) /\ Len(said') = Len(stream)
         /\ \A n \in Streams : said'[n] = IF stream[n].proposed THEN NoFiles ELSE said[n]
<1>1. Streams = 1..Len(stream) /\ Len(stream) \in Nat /\ NoFiles \in Files
  BY EventTypes, LenProperties DEF Typed, Streams
<1>2. \A n \in Streams : said[n] \in Files
  BY StreamIs
<1>3. said' \in [1..Len(stream) -> Files]
  BY <1>1, <1>2 DEF Settle
<1>4. said' \in Seq(Files) /\ Len(said') = Len(stream)
  BY <1>1, <1>3, ListOf
<1> QED
BY <1>1, <1>4 DEF Settle

LEMMA Reloaded ==
  ASSUME Typed, Reload
  PROVE  /\ chat' = EmptyChat /\ EmptyChat \in Chats /\ Len(EmptyChat.messages) = 0
         /\ ~EmptyChat.sending /\ ~EmptyChat.reading
         /\ proposals' = NoFiles /\ due' = NoFiles /\ NoFiles \in Files
         /\ said' \in Seq(Files) /\ Len(said') = Len(stream)
         /\ stream' \in Seq(StreamType) /\ Len(stream') = Len(stream)
         /\ \A n \in Streams : ~stream'[n].read
<1>1. Streams = 1..Len(stream) /\ Len(stream) \in Nat /\ NoFiles \in Files
  BY EventTypes, LenProperties DEF Typed, Streams
<1>2. chat' = EmptyChat /\ proposals' = NoFiles /\ due' = NoFiles
      /\ stream' = [n \in Streams |-> [stream[n] EXCEPT !.wire = <<>>, !.read = FALSE]]
      /\ said' = [n \in Streams |-> NoFiles]
  BY DEF Reload
<1>3. \A n \in Streams : /\ [stream[n] EXCEPT !.wire = <<>>, !.read = FALSE] \in StreamType
                         /\ ~[stream[n] EXCEPT !.wire = <<>>, !.read = FALSE].read
  <2>1. TAKE n \in Streams
  <2>2. stream[n] \in StreamType /\ <<>> \in Seq(Events)
    BY StreamIs, EmptySeq
  <2> QED
  BY <2>2 DEF StreamType
<1>4. stream' \in [1..Len(stream) -> StreamType] /\ \A n \in Streams : ~stream'[n].read
  BY <1>1, <1>2, <1>3
<1>5. said' \in [1..Len(stream) -> Files]
  BY <1>1, <1>2
<1>6. EmptyChat \in Chats /\ Len(EmptyChat.messages) = 0 /\ ~EmptyChat.sending /\ ~EmptyChat.reading
  <2>1. <<>> \in Seq(Messages) /\ Len(<<>>) = 0
    BY EmptySeq
  <2> QED
  BY <2>1 DEF EmptyChat, Chats
<1>7. said' \in Seq(Files) /\ Len(said') = Len(stream)
  BY <1>1, <1>5, ListOf
<1>8. stream' \in Seq(StreamType) /\ Len(stream') = Len(stream)
  BY <1>1, <1>4, ListOf
<1> QED
BY <1>1, <1>2, <1>4, <1>6, <1>7, <1>8

-----------------------------------------------------------------------------
(* Every variable has its type.                                            *)

LEMMA InitTyped ==
  ASSUME Init PROVE Typed
<1>1. <<>> \in Seq(Messages) /\ <<>> \in Seq(StreamType) /\ <<>> \in Seq(Files) /\ Len(<<>>) = 0
  BY EmptySeq
<1>2. NoFiles \in Files
  BY EventTypes
<1>3. EmptyChat \in Chats
  BY <1>1 DEF EmptyChat, Chats
<1> QED
BY <1>1, <1>2, <1>3 DEF Init, Typed

LEMMA ServedTyped ==
  ASSUME Typed, NEW n \in Streams, NEW t, Served(n, t), UNCHANGED env
  PROVE  Typed'
<1>1. stream' \in Seq(StreamType) /\ Len(stream') = Len(stream)
  BY StreamPut DEF Served
<1>2. /\ chat' = chat /\ proposals' = proposals /\ batch' = batch /\ due' = due
      /\ said' \in Seq(Files) /\ Len(said') = Len(said)
  BY DEF Served
<1> QED
BY <1>1, <1>2 DEF Typed

LEMMA PageTyped ==
  ASSUME Typed, NEW n \in Streams, NEW t, PageReads(n, t), UNCHANGED env
  PROVE  Typed'
<1>1. stream' \in Seq(StreamType) /\ Len(stream') = Len(stream)
  BY StreamPut DEF PageReads
<1>2. n \in Nat /\ said[n] \in Files /\ stream[n].wire \in Seq(Events)
      /\ proposals \in Files /\ due \in Files /\ chat \in Chats
  BY StreamIs DEF Typed
<1>3. ApplyEvent(n) \in Chats
  BY <1>2, ApplySpeaks DEF Spoken
<1>4. \A c \in Chats : [c EXCEPT !.sending = FALSE] \in Chats
  BY DEF Chats
<1>5. chat' \in Chats
  BY <1>2, <1>3, <1>4 DEF PageReads
<1>6. stream[n].wire # <<>> => Head(stream[n].wire).files \in Files
  <2>1. stream[n].wire # <<>> => Head(stream[n].wire) \in Events
    BY <1>2, HeadTailProperties
  <2> QED
  BY <2>1 DEF Events
<1>7. due' \in Files
  BY <1>2, OverTypes DEF PageReads
<1>8. proposals' \in Files
  BY <1>2, <1>6, OverTypes DEF PageReads
<1>9. UNCHANGED <<batch, said>>
  BY DEF PageReads
<1> QED
BY <1>1, <1>5, <1>7, <1>8, <1>9 DEF Typed

LEMMA TypedKept ==
  ASSUME Typed, [Next]_<<vars, env>>
  PROVE  Typed'
<1> USE DEF Typed
<1>1. CASE UNCHANGED <<vars, env>>
  BY <1>1 DEF vars
<1>2. ASSUME NEW what \in {"text", "image"}, Compose(what), UNCHANGED env PROVE Typed'
  BY <1>2 DEF Compose, Chats
<1>3. CASE RemoveImage /\ UNCHANGED env
  BY <1>3 DEF RemoveImage, Chats
<1>4. CASE SendImages /\ UNCHANGED env
  BY <1>4 DEF SendImages, Chats
<1>5. CASE Posted(chat.messages) /\ UNCHANGED <<proposals, batch, file, due, excuse>> /\ UNCHANGED env
  BY <1>5, PostAdds
<1>6. CASE Send /\ UNCHANGED env
  BY <1>5, <1>6 DEF Send
<1>7. CASE ImagesRead /\ UNCHANGED env
  <2>1. CASE /\ chat' = [chat EXCEPT !.sending = FALSE, !.reading = FALSE]
             /\ UNCHANGED <<stream, said>>
    BY <1>7, <2>1 DEF ImagesRead, Chats
  <2> QED
  BY <1>5, <1>7, <2>1 DEF ImagesRead
<1>8. CASE Accept /\ UNCHANGED env
  BY <1>8 DEF Accept, Batches
<1>9. ASSUME NEW f \in Paths, AcceptPut(f), UNCHANGED env PROVE Typed'
  <2>1. batch \in Batches
    BY <1>9 DEF AcceptPut
  <2>2. [batch EXCEPT !.left[f] = None] \in Batches
    BY <2>1 DEF Batches, Files
  <2> QED
  BY <1>9, <2>2 DEF AcceptPut
<1>10. CASE Settle /\ batch' \in {batch, None} /\ UNCHANGED <<chat, stream, env>>
  BY <1>10, Settled
<1>11. CASE AcceptDone /\ UNCHANGED env
  <2>1. CASE UNCHANGED <<proposals, said, due>>
    BY <1>11, <2>1 DEF AcceptDone
  <2> QED
  BY <1>10, <1>11, <2>1 DEF AcceptDone
<1>12. CASE Reject /\ UNCHANGED env
  BY <1>10, <1>12 DEF Reject
<1>13. CASE Reload /\ UNCHANGED env
  <2>1. batch' = None
    BY <1>13 DEF Reload
  <2> QED
  BY <1>13, <2>1, Reloaded
<1>14. ASSUME NEW n \in Streams, Pipeline(n), UNCHANGED env PROVE Typed'
  BY <1>14, PipelineServes, ServedTyped
<1>15. ASSUME NEW n \in Streams, NEW f \in env.paths, NEW c \in Contents,
              WriteDraft(n, f, c) \/ WriteLarge(n, f, c), UNCHANGED env PROVE Typed'
  BY <1>15, WriteServes, ServedTyped
<1>16. ASSUME NEW n \in Streams, Reads(n) \/ Refused(n) \/ Broken(n), UNCHANGED env PROVE Typed'
  BY <1>16, PageMoves, PageTyped
<1> QED
BY <1>1, <1>2, <1>3, <1>4, <1>6, <1>7, <1>8, <1>9, <1>11, <1>12, <1>13, <1>14, <1>15, <1>16
   DEF Next, Users, Network, Writes, Goes

-----------------------------------------------------------------------------
(* Every stream writes in its own turn.                                    *)

\* The last message is the turn of the n-th stream, s, which was sent what is above it.
InTurn(messages, s, n) ==
  LET last == Len(messages) IN
  /\ last >= 1 /\ messages[last].role = "assistant" /\ messages[last].n = n
  /\ Len(s.history) = last - 1
  /\ \A k \in 1..(last - 1) : s.history[k].n = messages[k].n

Own(messages) == \A i \in 1..Len(messages) : messages[i].from \subseteq {messages[i].n}

\* A stream that is read holds the panel: nothing else is sent, so that at most one is read.
Turns ==
  /\ Own(chat.messages)
  /\ chat.reading => chat.sending
  /\ \A n \in Streams : stream[n].read =>
       chat.sending /\ ~chat.reading /\ InTurn(chat.messages, stream[n], n)

LEMMA TurnsGiveOwnTurn ==
  ASSUME Typed, Turns PROVE OwnTurn
<1>1. Len(chat.messages) \in Nat /\ DOMAIN chat.messages = 1..Len(chat.messages)
  BY ChatIs
<1>2. ASSUME NEW n \in Streams, stream[n].read
      PROVE  \E i \in DOMAIN chat.messages :
               /\ chat.messages[i].role = "assistant" /\ chat.messages[i].n = n
               /\ StreamingThis(i)
               /\ [k \in DOMAIN stream[n].history |-> stream[n].history[k].n] =
                  [k \in 1 .. i - 1 |-> chat.messages[k].n]
  <2> DEFINE last == Len(chat.messages)
  <2>1. chat.sending /\ InTurn(chat.messages, stream[n], n)
    BY <1>2 DEF Turns
  <2>2. last \in DOMAIN chat.messages /\ StreamingThis(last)
    BY <1>1, <2>1 DEF InTurn, StreamingThis
  <2>3. DOMAIN stream[n].history = 1..(last - 1)
    BY <1>2, <2>1, StreamIs, LenProperties DEF InTurn
  <2> QED
  BY <2>1, <2>2, <2>3 DEF InTurn
<1> QED
BY <1>1, <1>2 DEF Turns, Own, OwnTurn

LEMMA OneReads ==
  ASSUME Turns, NEW n \in Streams, NEW m \in Streams, stream[n].read, stream[m].read
  PROVE  n = m
BY DEF Turns, InTurn

LEMMA InitTurns ==
  ASSUME Init PROVE Turns
<1>1. Len(<<>>) = 0 /\ DOMAIN <<>> = {}
  BY EmptySeq
<1> QED
BY <1>1 DEF Init, EmptyChat, Turns, Own, Streams

\* What is said in the last turn, by its own stream.
LEMMA SpokenTurns ==
  ASSUME Typed, Turns, NEW n \in Streams, stream[n].read, NEW new, Spoken(new, n)
  PROVE  Own(new.messages) /\ (\A s : InTurn(chat.messages, s, n) => InTurn(new.messages, s, n))
<1> DEFINE last == Len(chat.messages)
<1>1. /\ last \in Nat /\ DOMAIN chat.messages = 1..last /\ Len(new.messages) = last
      /\ InTurn(chat.messages, stream[n], n) /\ Own(chat.messages)
  BY ChatIs DEF Turns, Spoken
<1>2. \A i \in 1..last : new.messages[i].n = chat.messages[i].n
                         /\ new.messages[i].role = chat.messages[i].role
  BY <1>1 DEF Spoken
<1>3. ASSUME NEW i \in 1..last PROVE new.messages[i].from \subseteq {new.messages[i].n}
  <2>1. chat.messages[i].from \subseteq {chat.messages[i].n}
    BY <1>1 DEF Own
  <2>2. i = last => chat.messages[i].n = n
    BY <1>1 DEF InTurn
  <2>3. new.messages[i].from \subseteq chat.messages[i].from \cup
          (IF i = last /\ chat.messages[i].role = "assistant" THEN {n} ELSE {})
    BY <1>1 DEF Spoken
  <2> QED
  BY <1>2, <2>1, <2>2, <2>3
<1>4. ASSUME NEW s, InTurn(chat.messages, s, n) PROVE InTurn(new.messages, s, n)
  BY <1>1, <1>2, <1>4 DEF InTurn
<1> QED
BY <1>1, <1>3, <1>4 DEF Own

LEMMA PostTurns ==
  ASSUME Typed, Turns, Posted(chat.messages), \A m \in Streams : ~stream[m].read
  PROVE  Turns'
<1> DEFINE n == Len(stream) + 1
           k == Len(chat.messages)
           h == Append(chat.messages, User(n))
<1>1. /\ chat' \in Chats /\ chat'.sending /\ ~chat'.reading
      /\ Len(chat'.messages) = k + 2
      /\ \A i \in 1..k : chat'.messages[i] = chat.messages[i]
      /\ chat'.messages[k + 1] = User(n) /\ chat'.messages[k + 2] = Assistant(n)
      /\ stream' \in Seq(StreamType) /\ Len(stream') = n
      /\ \A m \in 1..Len(stream) : stream'[m] = stream[m]
      /\ stream'[n] = Stream(h)
  BY PostAdds
<1>2. k \in Nat /\ Len(stream) \in Nat /\ Streams = 1..Len(stream) /\ Streams' = 1..n
      /\ chat.messages \in Seq(Messages)
  BY <1>1, ChatIs, LenProperties DEF Typed, Streams
<1>3. Own(chat'.messages)
  <2>1. SUFFICES ASSUME NEW i \in 1..(k + 2)
                 PROVE  chat'.messages[i].from \subseteq {chat'.messages[i].n}
    BY <1>1 DEF Own
  <2>2. CASE i \in 1..k
    BY <1>1, <2>2 DEF Turns, Own
  <2>3. CASE i = k + 1
    BY <1>1, <2>3 DEF User
  <2>4. CASE i = k + 2
    BY <1>1, <2>4 DEF Assistant
  <2>5. \A m \in Nat : i \in 1..(m + 2) => i \in 1..m \/ i = m + 1 \/ i = m + 2
    OBVIOUS
  <2>6. i \in 1..k \/ i = k + 1 \/ i = k + 2
    BY <1>2, <2>5
  <2> QED
  BY <2>2, <2>3, <2>4, <2>6
<1>4. InTurn(chat'.messages, stream'[n], n)
  <2>1. User(n) \in Messages
    <3> HIDE DEF n
    <3>1. n \in Nat
      BY <1>2 DEF n
    <3> QED
    BY <3>1 DEF User, Messages
  <2>2. Len(h) = k + 1 /\ h[k + 1] = User(n) /\ \A i \in 1..k : h[i] = chat.messages[i]
    BY <1>2, <2>1, AppendProperties
  <2> HIDE DEF h
  <2>3. stream'[n].history = h
    BY <1>1 DEF Stream
  <2>4. chat'.messages[k + 2].role = "assistant" /\ chat'.messages[k + 2].n = n
    BY <1>1 DEF Assistant
  <2>5. ASSUME NEW i \in 1..(k + 1) PROVE h[i].n = chat'.messages[i].n
    <3>1. CASE i \in 1..k
      BY <1>1, <2>2, <3>1
    <3>2. CASE i = k + 1
      BY <1>1, <2>2, <3>2
    <3> QED
    BY <1>2, <3>1, <3>2
  <2> HIDE DEF n
  <2> QED
  BY <1>1, <1>2, <2>2, <2>3, <2>4, <2>5 DEF InTurn
<1>5. ASSUME NEW m \in 1..n, stream'[m].read PROVE m = n
  BY <1>1, <1>2, <1>5
<1> HIDE DEF n, h
<1> QED
BY <1>1, <1>2, <1>3, <1>4, <1>5 DEF Turns

LEMMA TurnsKept ==
  ASSUME Typed, Turns, [Next]_<<vars, env>>
  PROVE  Turns'
<1>1. CASE UNCHANGED <<chat, stream>>
  BY <1>1 DEF Turns, Streams
<1>2. ASSUME UNCHANGED stream, chat'.messages = chat.messages, \A n \in Streams : ~stream[n].read,
             chat'.reading => chat'.sending
      PROVE  Turns'
  BY <1>2 DEF Turns, Streams
<1>3. ~chat.sending \/ chat.reading => \A n \in Streams : ~stream[n].read
  BY DEF Turns
<1>4. ASSUME NEW what \in {"text", "image"}, Compose(what) PROVE Turns'
  <2>1. chat'.messages = chat.messages /\ chat'.reading = chat.reading /\ chat'.sending = chat.sending
    BY <1>4 DEF Compose, Typed, Chats
  <2> QED
  BY <1>2, <1>3, <1>4, <2>1 DEF Compose, Turns
<1>5. CASE RemoveImage
  <2>1. /\ chat'.messages = chat.messages /\ chat'.reading = chat.reading
        /\ chat'.sending = chat.sending /\ UNCHANGED stream
    BY <1>5 DEF RemoveImage, Typed, Chats
  <2> QED
  BY <2>1 DEF Turns, Streams
<1>6. CASE SendImages
  <2>1. chat'.messages = chat.messages /\ chat'.sending
    BY <1>6 DEF SendImages, Typed, Chats
  <2> QED
  BY <1>2, <1>3, <1>6, <2>1 DEF SendImages
<1>7. CASE Send
  BY <1>3, <1>7, PostTurns DEF Send
<1>8. CASE ImagesRead
  <2>1. CASE chat' = [chat EXCEPT !.sending = FALSE, !.reading = FALSE] /\ UNCHANGED stream
    <3>1. chat'.messages = chat.messages /\ ~chat'.reading
      BY <2>1 DEF Typed, Chats
    <3> QED
    BY <1>2, <1>3, <1>8, <2>1, <3>1 DEF ImagesRead
  <2> QED
  BY <1>3, <1>8, <2>1, PostTurns DEF ImagesRead
<1>9. CASE Reload
  <2>1. Streams' = Streams
    BY <1>9, Reloaded, LenProperties DEF Typed, Streams
  <2> QED
  BY <1>9, <2>1, Reloaded DEF Turns, Own
<1>10. ASSUME NEW n \in Streams, NEW t, Served(n, t) PROVE Turns'
  <2>1. /\ Streams' = Streams /\ stream'[n] = t
        /\ \A m \in Streams : m # n => stream'[m] = stream[m]
    BY <1>10, StreamPut DEF Served, Streams
  <2>2. chat' = chat /\ t.read = stream[n].read /\ t.history = stream[n].history
    BY <1>10 DEF Served
  <2>3. \A m \in Streams : stream'[m].read = stream[m].read /\ stream'[m].history = stream[m].history
    BY <2>1, <2>2
  <2> QED
  BY <2>1, <2>2, <2>3 DEF Turns, InTurn
<1>11. ASSUME NEW n \in Streams, NEW t, PageReads(n, t) PROVE Turns'
  <2>1. /\ Streams' = Streams /\ stream'[n] = t
        /\ \A m \in Streams : m # n => stream'[m] = stream[m]
    BY <1>11, StreamPut DEF PageReads, Streams
  <2>2. stream[n].read /\ t.history = stream[n].history
    BY <1>11 DEF PageReads
  <2>3. \A m \in Streams : m # n => ~stream'[m].read
    BY <2>1, <2>2, OneReads
  <2>4. Spoken(ApplyEvent(n), n) /\ ApplyEvent(n) \in Chats /\ chat \in Chats
    BY ApplySpeaks, StreamIs DEF Spoken, Typed
  <2>5. Own(ApplyEvent(n).messages) /\ (\A s : InTurn(chat.messages, s, n)
                                                => InTurn(ApplyEvent(n).messages, s, n))
    BY <2>2, <2>4, SpokenTurns
  <2>6. chat.sending /\ ~chat.reading /\ InTurn(chat.messages, stream[n], n) /\ Own(chat.messages)
    BY <2>2 DEF Turns
  <2>7. InTurn(chat.messages, t, n)
    BY <2>2, <2>6 DEF InTurn
  <2>8. \A c \in Chats : [c EXCEPT !.sending = FALSE].messages = c.messages
                         /\ [c EXCEPT !.sending = FALSE].reading = c.reading
    BY DEF Chats
  <2>9. ~ApplyEvent(n).reading /\ ApplyEvent(n).sending
    BY <2>4, <2>6 DEF Spoken
  <2>10. CASE chat' = ApplyEvent(n) /\ t.read
    BY <2>1, <2>3, <2>5, <2>7, <2>9, <2>10 DEF Turns
  <2>11. CASE chat' = chat /\ t.read
    BY <2>1, <2>3, <2>6, <2>7, <2>11 DEF Turns
  <2>12. CASE chat' = [chat EXCEPT !.sending = FALSE] /\ ~t.read
    BY <2>1, <2>3, <2>4, <2>6, <2>8, <2>12 DEF Turns
  <2>13. CASE chat' = [ApplyEvent(n) EXCEPT !.sending = FALSE] /\ ~t.read
    BY <2>1, <2>3, <2>4, <2>5, <2>8, <2>9, <2>13 DEF Turns
  <2> QED
  BY <1>11, <2>10, <2>11, <2>12, <2>13 DEF PageReads
<1>12. CASE UNCHANGED <<vars, env>>
  BY <1>1, <1>12 DEF vars
<1>13. CASE Users
  BY <1>1, <1>4, <1>5, <1>6, <1>7, <1>9, <1>13 DEF Users, Accept, Reject
<1>14. CASE Network
  BY <1>11, <1>14, PageMoves DEF Network
<1>15. CASE Writes
  BY <1>10, <1>15, WriteServes DEF Writes
<1>16. CASE Goes
  BY <1>1, <1>8, <1>10, <1>11, <1>16, PipelineServes, PageMoves DEF Goes, AcceptDone, AcceptPut
<1> QED
BY <1>12, <1>13, <1>14, <1>15, <1>16 DEF Next

\* Every variable of the conversation has its type, over failed requests, broken
\* connections and a page that is loaded again.
THEOREM ChatTypes == Spec => []Typed
<1>1. Init => Typed
  BY InitTyped
<1>2. Typed /\ [Next]_<<vars, env>> => Typed'
  BY TypedKept
<1> QED
BY <1>1, <1>2, PTL DEF Spec

\* OwnTurn: what a stream brings goes to the turn it was asked for, which the panel marks as
\* being written, and the conversation it was sent is the one shown above (sendAgentMessage).
THEOREM AnswersInOwnTurn == Spec => []OwnTurn
<1>1. Init => Typed /\ Turns
  BY InitTyped, InitTurns
<1>2. Typed /\ Turns /\ [Next]_<<vars, env>> => Typed' /\ Turns'
  BY TypedKept, TurnsKept
<1>3. Typed /\ Turns => OwnTurn
  BY TurnsGiveOwnTurn
<1> QED
BY <1>1, <1>2, <1>3, PTL DEF Spec

-----------------------------------------------------------------------------
(* What is on its way to the page: texts, then the drafts, then the end.   *)

WireOpen(s) == ~s.proposed /\ \A i \in 1..Len(s.wire) : s.wire[i].type = "text"

WireClosed(s) ==
  LET last == Len(s.wire) IN
  /\ last >= 1 /\ s.wire[last].type = "done"
  /\ \A i \in 1..(last - 1) : s.wire[i].type # "done"
  /\ \A i \in 1..last : s.wire[i].type = "proposals" =>
       i = last - 1 /\ s.wire[i].files = s.pending /\ ~s.proposed
  /\ ~s.proposed /\ s.pending # NoFiles => last >= 2 /\ s.wire[last - 1].type = "proposals"

WireRight(s) == IF s.pc = "over" THEN WireClosed(s) ELSE WireOpen(s)

\* Proposals are what is due, and what the stream drafted once they came.
Showing(s, drafted, props, owed) ==
  IF s.proposed THEN props = Over(drafted, owed) ELSE props = owed /\ drafted = s.pending

Drafts ==
  /\ \A n \in Streams : stream[n].read => WireRight(stream[n])
  /\ excuse = {} =>
       /\ (\A n \in Streams : ~stream[n].read) => proposals = due
       /\ \A n \in Streams : stream[n].read => Showing(stream[n], said[n], proposals, due)

LEMMA DraftsGiveShown ==
  ASSUME Turns, Drafts PROVE DraftsShown
BY DEF Turns, Drafts, DraftsShown

LEMMA InitDrafts ==
  ASSUME Init PROVE Drafts
<1>1. DOMAIN <<>> = {}
  BY EmptySeq
<1> QED
BY <1>1 DEF Init, Drafts, Streams

LEMMA WireGrows ==
  ASSUME NEW s, NEW t, s.wire \in Seq(Events), s.pc # "over", t.pc # "over",
         WireRight(s), t.proposed = s.proposed,
         t.wire = s.wire \/ t.wire = Append(s.wire, Text)
  PROVE  WireRight(t)
<1>1. WireOpen(s) /\ Len(s.wire) \in Nat
  BY LenProperties DEF WireRight
<1>2. CASE t.wire = s.wire
  BY <1>1, <1>2 DEF WireRight, WireOpen
<1>3. CASE t.wire = Append(s.wire, Text)
  <2> DEFINE k == Len(s.wire)
  <2>1. /\ Len(t.wire) = k + 1 /\ t.wire[k + 1] = Text
        /\ \A i \in 1..k : t.wire[i] = s.wire[i]
    BY <1>3, EventTypes, AppendProperties
  <2>2. \A i \in 1..(k + 1) : t.wire[i].type = "text"
    BY <1>1, <2>1, EventTypes DEF WireOpen
  <2> QED
  BY <1>1, <2>1, <2>2 DEF WireRight, WireOpen
<1> QED
BY <1>2, <1>3

LEMMA IsClosed ==
  ASSUME NEW s, NEW k \in Nat, Len(s.wire) = k + 1, s.wire[k + 1].type = "done",
         \A i \in 1..k : s.wire[i].type # "done",
         \A i \in 1..k : s.wire[i].type = "proposals" =>
           i = k /\ s.wire[i].files = s.pending /\ ~s.proposed,
         ~s.proposed /\ s.pending # NoFiles => k >= 1 /\ s.wire[k].type = "proposals"
  PROVE  WireClosed(s)
<1>1. k + 1 >= 1 /\ k + 1 - 1 = k
  OBVIOUS
<1>2. ASSUME NEW i \in 1..(k + 1), s.wire[i].type = "proposals"
      PROVE  i = k /\ s.wire[i].files = s.pending /\ ~s.proposed
  <2>1. i # k + 1
    BY <1>2
  <2>2. i \in 1..k
    BY <2>1
  <2> QED
  BY <1>2, <2>2
<1> QED
BY <1>1, <1>2 DEF WireClosed

LEMMA WireEnds ==
  ASSUME NEW s, NEW t, s.wire \in Seq(Events), s.pending \in Files, s.pc # "over", t.pc = "over",
         WireRight(s), t.proposed = s.proposed, t.pending = s.pending,
         t.wire = Closing(s)
  PROVE  WireRight(t)
<1> DEFINE k == Len(s.wire)
           p == Proposals(s.pending)
<1>1. k \in Nat /\ ~s.proposed /\ \A i \in 1..k : s.wire[i].type = "text"
  BY LenProperties DEF WireRight, WireOpen
<1>2. p \in Events /\ Done \in Events /\ p.type = "proposals" /\ p.files = s.pending
      /\ Done.type = "done"
  BY EventTypes
<1> HIDE DEF p, k
<1>3. CASE s.pending = NoFiles
  <2>1. t.wire = Append(s.wire, Done)
    <3>1. s.wire \o <<>> = s.wire
      BY ConcatEmptySeq
    <3>2. s.wire \o <<Done>> = Append(s.wire, Done)
      BY <1>2, AppendIsConcat
    <3> QED
    BY <1>3, <3>1, <3>2 DEF Closing
  <2>2. /\ Len(t.wire) = k + 1 /\ t.wire[k + 1] = Done
        /\ \A i \in 1..k : t.wire[i] = s.wire[i]
    BY <1>2, <2>1, AppendProperties DEF k
  <2>3. \A i \in 1..k : t.wire[i].type = "text"
    BY <1>1, <2>2
  <2>4. WireClosed(t)
    BY <1>1, <1>2, <1>3, <2>2, <2>3, IsClosed
  <2> QED
  BY <2>4 DEF WireRight
<1>4. CASE s.pending # NoFiles
  <2> DEFINE a == Append(s.wire, p)
  <2>1. t.wire = Append(a, Done) /\ a \in Seq(Events)
    <3>1. s.wire \o <<p>> = a /\ a \in Seq(Events)
      BY <1>2, AppendIsConcat, AppendProperties
    <3> HIDE DEF a
    <3>2. a \o <<Done>> = Append(a, Done)
      BY <1>2, <3>1, AppendIsConcat
    <3>3. t.wire = s.wire \o <<p>> \o <<Done>>
      BY <1>4 DEF p, Closing
    <3> QED
    BY <3>1, <3>2, <3>3
  <2>2. Len(a) = k + 1 /\ a[k + 1] = p /\ \A i \in 1..k : a[i] = s.wire[i]
    BY <1>2, AppendProperties DEF k
  <2> HIDE DEF a
  <2>3. Len(t.wire) = k + 2 /\ t.wire[k + 2] = Done /\ \A i \in 1..(k + 1) : t.wire[i] = a[i]
    <3>1. Len(t.wire) = Len(a) + 1 /\ t.wire[Len(a) + 1] = Done
          /\ \A i \in 1..Len(a) : t.wire[i] = a[i]
      BY <1>2, <2>1, AppendProperties
    <3> QED
    BY <1>1, <2>2, <3>1
  <2>4. t.wire[k + 1] = p /\ \A i \in 1..k : t.wire[i].type = "text"
    BY <1>1, <2>2, <2>3
  <2>5. ASSUME NEW i \in 1..(k + 1) PROVE t.wire[i].type # "done"
    <3>1. CASE i \in 1..k
      BY <2>4, <3>1
    <3>2. CASE i = k + 1
      BY <1>2, <2>4, <3>2
    <3> QED
    BY <1>1, <3>1, <3>2
  <2>6. ASSUME NEW i \in 1..(k + 1), t.wire[i].type = "proposals" PROVE i = k + 1
    BY <1>1, <2>4, <2>6
  <2> DEFINE l == k + 1
  <2>7. l \in Nat /\ l >= 1 /\ Len(t.wire) = l + 1 /\ t.wire[l + 1] = Done /\ t.wire[l] = p
    BY <1>1, <2>3, <2>4
  <2> HIDE DEF l
  <2>8. WireClosed(t)
    <3>1. \A i \in 1..l : t.wire[i].type # "done"
      BY <2>5 DEF l
    <3>2. ASSUME NEW i \in 1..l, t.wire[i].type = "proposals"
          PROVE  i = l /\ t.wire[i].files = t.pending /\ ~t.proposed
      <4>1. i = l
        BY <2>6, <3>2 DEF l
      <4> QED
      BY <1>1, <1>2, <2>7, <4>1
    <3>3. t.wire[l + 1].type = "done" /\ t.wire[l].type = "proposals"
      BY <1>2, <2>7
    <3> QED
    BY <2>7, <3>1, <3>2, <3>3, IsClosed
  <2> QED
  BY <2>8 DEF WireRight
<1> QED
BY <1>3, <1>4

\* The page takes a text.
LEMMA WireShifts ==
  ASSUME NEW s, NEW t, s.wire \in Seq(Events), s.wire # <<>>, WireRight(s),
         Head(s.wire).type = "text", t.wire = Tail(s.wire),
         t.pc = s.pc, t.pending = s.pending, t.proposed = s.proposed
  PROVE  WireRight(t)
<1> DEFINE k == Len(s.wire)
<1>1. /\ k \in Nat /\ k >= 1 /\ Head(s.wire) = s.wire[1] /\ Len(t.wire) = k - 1
      /\ \A i \in 1..(k - 1) : t.wire[i] = s.wire[i + 1]
  BY HeadTailProperties, EmptySeq, LenProperties
<1> HIDE DEF k
<1>2. \A i \in 1..(k - 1) : i + 1 \in 1..k
  BY <1>1
<1>3. CASE s.pc # "over"
  BY <1>1, <1>2, <1>3 DEF WireRight, WireOpen, k
<1>4. CASE s.pc = "over"
  <2>1. WireClosed(s)
    BY <1>4 DEF WireRight
  <2>2. k >= 2
    BY <1>1, <2>1 DEF WireClosed, k
  <2>3. k - 1 \in 1..(k - 1) /\ k - 1 + 1 = k
    BY <1>1, <2>2
  <2>4. t.wire[k - 1].type = "done"
    BY <1>1, <2>1, <2>3 DEF WireClosed, k
  <2>5. ASSUME NEW i \in 1..(k - 1 - 1) PROVE t.wire[i].type # "done"
    <3>1. i \in 1..(k - 1) /\ i + 1 \in 1..(k - 1)
      BY <1>1
    <3> QED
    BY <1>1, <2>1, <3>1 DEF WireClosed, k
  <2>6. ASSUME NEW i \in 1..(k - 1), t.wire[i].type = "proposals"
        PROVE  i = k - 1 - 1 /\ t.wire[i].files = t.pending /\ ~t.proposed
    <3>1. t.wire[i] = s.wire[i + 1] /\ i + 1 \in 1..k
      BY <1>1, <1>2
    <3>2. i + 1 = k - 1 /\ s.wire[i + 1].files = s.pending /\ ~s.proposed
      BY <2>1, <2>6, <3>1 DEF WireClosed, k
    <3> QED
    BY <1>1, <3>1, <3>2
  <2>7. ASSUME ~t.proposed, t.pending # NoFiles
        PROVE  k - 1 >= 2 /\ t.wire[k - 1 - 1].type = "proposals"
    <3>1. s.wire[k - 1].type = "proposals"
      BY <2>1, <2>7 DEF WireClosed, k
    <3>2. k - 1 # 1
      BY <1>1, <3>1
    <3>3. k - 1 >= 2 /\ k - 1 - 1 \in 1..(k - 1) /\ k - 1 - 1 + 1 = k - 1
      BY <1>1, <2>2, <3>2
    <3> QED
    BY <1>1, <3>1, <3>3
  <2>8. k - 1 >= 1
    BY <1>1, <2>2
  <2> QED
  BY <1>1, <1>4, <2>4, <2>5, <2>6, <2>7, <2>8 DEF WireRight, WireClosed, k
<1> QED
BY <1>3, <1>4

\* The page takes the proposals: they are what the stream drafted, and the end is next.
LEMMA WireProposes ==
  ASSUME NEW s, NEW t, s.wire \in Seq(Events), s.wire # <<>>, WireRight(s),
         Head(s.wire).type = "proposals", t.wire = Tail(s.wire),
         t.pc = s.pc, t.pending = s.pending, t.proposed
  PROVE  WireRight(t) /\ Head(s.wire).files = s.pending /\ ~s.proposed
<1> DEFINE k == Len(s.wire)
<1>1. /\ k \in Nat /\ k >= 1 /\ Head(s.wire) = s.wire[1] /\ Len(t.wire) = k - 1
      /\ \A i \in 1..(k - 1) : t.wire[i] = s.wire[i + 1]
  BY HeadTailProperties, EmptySeq, LenProperties
<1>2. 1 \in 1..k /\ s.wire[1].type = "proposals"
  BY <1>1
<1>3. s.pc = "over" /\ WireClosed(s)
  BY <1>2 DEF WireRight, WireOpen
<1>4. 1 = k - 1 /\ s.wire[1].files = s.pending /\ ~s.proposed
  BY <1>2, <1>3 DEF WireClosed
<1>5. k = 2 /\ Len(t.wire) = 1 /\ t.wire[1] = s.wire[2]
  BY <1>1, <1>4
<1>6. t.wire[1].type = "done"
  BY <1>3, <1>5 DEF WireClosed
<1>7. WireClosed(t)
  <2>1. 0 \in Nat /\ 0 + 1 = 1 /\ 1..0 = {}
    OBVIOUS
  <2> QED
  BY <1>5, <1>6, <2>1, IsClosed
<1> QED
BY <1>1, <1>3, <1>4, <1>7 DEF WireRight

\* The page takes the end: what was drafted was proposed before.
LEMMA WireDone ==
  ASSUME NEW s, s.wire \in Seq(Events), s.wire # <<>>, WireRight(s), Head(s.wire).type = "done"
  PROVE  s.proposed \/ s.pending = NoFiles
<1> DEFINE k == Len(s.wire)
<1>1. k \in Nat /\ k >= 1 /\ Head(s.wire) = s.wire[1]
  BY HeadTailProperties, EmptySeq, LenProperties
<1>2. 1 \in 1..k /\ s.wire[1].type = "done"
  BY <1>1
<1>3. WireClosed(s)
  BY <1>2 DEF WireRight, WireOpen
<1>4. ~(1 \in 1..(k - 1))
  BY <1>2, <1>3 DEF WireClosed
<1> QED
BY <1>1, <1>3, <1>4 DEF WireClosed

-----------------------------------------------------------------------------
(* The proposals are what the agent drafted and nobody settled.            *)

LEMMA ServedDrafts ==
  ASSUME Typed, Turns, Drafts, NEW n \in Streams, NEW t, Served(n, t)
  PROVE  Drafts'
<1> DEFINE s == stream[n]
<1>1. /\ Streams' = Streams /\ stream'[n] = t
      /\ \A m \in Streams : m # n => stream'[m] = stream[m]
  BY StreamPut DEF Served, Streams
<1>2. /\ t.read = s.read /\ t.proposed = s.proposed /\ UNCHANGED <<proposals, due>>
      /\ excuse \subseteq excuse' /\ \A m \in Streams : m # n => said'[m] = said[m]
      /\ s.pc # "over"
      /\ excuse' = {} /\ said[n] = s.pending => said'[n] = t.pending
  BY DEF Served
<1>3. ASSUME NEW m \in Streams, stream'[m].read PROVE WireRight(stream'[m])
  <2>1. CASE m # n
    BY <1>1, <1>3, <2>1 DEF Drafts
  <2>2. CASE m = n
    <3>1. s.read /\ WireRight(s) /\ s.wire \in Seq(Events) /\ s.pending \in Files
      BY <1>1, <1>2, <1>3, <2>2, StreamIs DEF Drafts
    <3>2. CASE t.pc # "over"
      <4>1. t.wire = s.wire \/ t.wire = Append(s.wire, Text)
        BY <3>1, <3>2 DEF Served
      <4> QED
      BY <1>1, <1>2, <2>2, <3>1, <3>2, <4>1, WireGrows
    <3>3. CASE t.pc = "over"
      <4>1. t.wire = Closing(s) /\ t.pending = s.pending
        BY <3>1, <3>3 DEF Served
      <4> QED
      BY <1>1, <1>2, <2>2, <3>1, <3>3, <4>1, WireEnds
    <3> QED
    BY <3>2, <3>3
  <2> QED
  BY <2>1, <2>2
<1>4. ASSUME excuse' = {}, NEW m \in Streams, stream'[m].read
      PROVE  Showing(stream'[m], said'[m], proposals', due')
  <2>1. excuse = {}
    BY <1>2, <1>4
  <2>2. CASE m # n
    BY <1>1, <1>2, <1>4, <2>1, <2>2 DEF Drafts, Showing
  <2>3. CASE m = n
    <3>1. s.read /\ WireRight(s) /\ Showing(s, said[n], proposals, due)
      BY <1>1, <1>2, <1>4, <2>1, <2>3 DEF Drafts
    <3>2. ~s.proposed
      BY <1>2, <3>1 DEF WireRight, WireOpen
    <3> QED
    BY <1>1, <1>2, <1>4, <2>3, <3>1, <3>2 DEF Showing
  <2> QED
  BY <2>2, <2>3
<1>5. ASSUME excuse' = {}, \A m \in Streams : ~stream'[m].read PROVE proposals' = due'
  <2>1. excuse = {} /\ \A m \in Streams : ~stream[m].read
    BY <1>1, <1>2, <1>5
  <2> QED
  BY <1>2, <2>1 DEF Drafts
<1> HIDE DEF s
<1> QED
BY <1>1, <1>3, <1>4, <1>5 DEF Drafts

LEMMA PageDrafts ==
  ASSUME Typed, Turns, Drafts, NEW n \in Streams, NEW t, PageReads(n, t)
  PROVE  Drafts'
<1> DEFINE s == stream[n]
<1>1. /\ Streams' = Streams /\ stream'[n] = t
      /\ \A m \in Streams : m # n => stream'[m] = stream[m]
  BY StreamPut DEF PageReads, Streams
<1>2. /\ s.read /\ t.pending = s.pending /\ UNCHANGED said /\ excuse \subseteq excuse'
  BY DEF PageReads
<1>3. \A m \in Streams : m # n => ~stream'[m].read
  BY <1>1, <1>2, OneReads
<1>4. /\ WireRight(s) /\ s.wire \in Seq(Events) /\ s.pending \in Files /\ said[n] \in Files
      /\ proposals \in Files /\ due \in Files
      /\ excuse' = {} => Showing(s, said[n], proposals, due)
  BY <1>2, StreamIs DEF Drafts, Typed
<1>5. ASSUME t.read, WireRight(t), excuse' = {} => Showing(t, said'[n], proposals', due')
      PROVE  Drafts'
  BY <1>1, <1>3, <1>5 DEF Drafts
<1>6. ASSUME ~t.read, excuse' = {} => proposals' = due'
      PROVE  Drafts'
  BY <1>1, <1>3, <1>6 DEF Drafts
<1>7. ASSUME t.read, t.pc = s.pc, t.proposed = s.proposed, s.wire # <<>>,
             Head(s.wire).type = "text", t.wire = Tail(s.wire), UNCHANGED <<proposals, due>>
      PROVE  Drafts'
  <2>1. WireRight(t)
    BY <1>2, <1>4, <1>7, WireShifts
  <2>2. excuse' = {} => Showing(t, said'[n], proposals', due')
    BY <1>2, <1>4, <1>7 DEF Showing
  <2> QED
  BY <1>5, <1>7, <2>1, <2>2
<1>8. ASSUME t.read, t.pc = s.pc, t.proposed, s.wire # <<>>, UNCHANGED due,
             Head(s.wire).type = "proposals", t.wire = Tail(s.wire),
             proposals' = Over(Head(s.wire).files, proposals)
      PROVE  Drafts'
  <2>1. WireRight(t) /\ Head(s.wire).files = s.pending /\ ~s.proposed
    BY <1>2, <1>4, <1>8, WireProposes
  <2>2. ASSUME excuse' = {} PROVE Showing(t, said'[n], proposals', due')
    <3>1. proposals = due /\ said[n] = s.pending
      BY <1>4, <2>1, <2>2 DEF Showing
    <3> QED
    BY <1>2, <1>8, <2>1, <3>1 DEF Showing
  <2> QED
  BY <1>5, <1>8, <2>1, <2>2
<1>9. ASSUME ~t.read, s.wire # <<>>, Head(s.wire).type = "done",
             due' = Over(said[n], due), UNCHANGED proposals
      PROVE  Drafts'
  <2>1. ASSUME excuse' = {} PROVE proposals' = due'
    <3>1. s.proposed \/ s.pending = NoFiles
      BY <1>4, <1>9, WireDone
    <3>2. CASE s.proposed
      BY <1>4, <1>9, <2>1, <3>2 DEF Showing
    <3>3. CASE ~s.proposed
      <4>1. proposals = due /\ said[n] = NoFiles
        BY <1>4, <2>1, <3>1, <3>3 DEF Showing
      <4> QED
      BY <1>4, <1>9, <4>1, OverTypes
    <3> QED
    BY <3>2, <3>3
  <2> QED
  BY <1>6, <1>9, <2>1
<1>10. ASSUME ~t.read, s.pc # "over" \/ ~s.proposed \/ excuse' # {}, UNCHANGED <<proposals, due>>
       PROVE  Drafts'
  <2>1. ~s.proposed \/ excuse' # {}
    BY <1>4, <1>10 DEF WireRight, WireOpen
  <2>2. excuse' = {} => proposals' = due'
    BY <1>4, <1>10, <2>1 DEF Showing
  <2> QED
  BY <1>6, <1>10, <2>2
<1> QED
BY <1>7, <1>8, <1>9, <1>10 DEF PageReads

LEMMA PostDrafts ==
  ASSUME Typed, Turns, Drafts, Posted(chat.messages), \A m \in Streams : ~stream[m].read,
         UNCHANGED <<proposals, due, excuse>>
  PROVE  Drafts'
<1> DEFINE n == Len(stream) + 1
           h == Append(chat.messages, User(n))
<1>1. /\ stream' \in Seq(StreamType) /\ Len(stream') = n
      /\ \A m \in 1..Len(stream) : stream'[m] = stream[m]
      /\ stream'[n] = Stream(h) /\ said'[n] = NoFiles
  BY PostAdds
<1>2. Len(stream) \in Nat /\ Streams = 1..Len(stream) /\ Streams' = 1..n
  BY <1>1, LenProperties DEF Typed, Streams
<1> HIDE DEF h
<1>3. ASSUME NEW m \in 1..n, stream'[m].read PROVE m = n
  BY <1>1, <1>2, <1>3
<1>4. /\ Stream(h).pc = "sent" /\ ~Stream(h).proposed /\ Stream(h).pending = NoFiles
      /\ Stream(h).wire = <<>> /\ Stream(h).read
  BY DEF Stream
<1>5. WireRight(stream'[n])
  <2>1. Len(Stream(h).wire) = 0
    BY <1>4, EmptySeq
  <2>2. WireOpen(Stream(h))
    BY <1>4, <2>1 DEF WireOpen
  <2> QED
  BY <1>1, <1>4, <2>2 DEF WireRight
<1>6. excuse' = {} => Showing(stream'[n], said'[n], proposals', due')
  BY <1>1, <1>4 DEF Drafts, Showing
<1>7. n \in 1..n /\ stream'[n].read
  BY <1>1, <1>2, <1>4
<1> HIDE DEF n
<1> QED
BY <1>2, <1>3, <1>5, <1>6, <1>7 DEF Drafts

LEMMA SettleDrafts ==
  ASSUME Typed, Drafts, Settle, UNCHANGED <<stream, excuse>>
  PROVE  Drafts'
<1>1. /\ proposals' = NoFiles /\ due' = NoFiles /\ NoFiles \in Files
      /\ \A n \in Streams : said'[n] = IF stream[n].proposed THEN NoFiles ELSE said[n]
  BY Settled
<1>2. Over(NoFiles, NoFiles) = NoFiles
  BY <1>1, OverTypes
<1>3. ASSUME excuse = {}, NEW n \in Streams, stream[n].read
      PROVE  Showing(stream[n], said'[n], NoFiles, NoFiles)
  BY <1>1, <1>2, <1>3 DEF Drafts, Showing
<1> QED
BY <1>1, <1>3 DEF Drafts, Streams

LEMMA DraftsKept ==
  ASSUME Typed, Turns, Drafts, [Next]_<<vars, env>>
  PROVE  Drafts'
<1>1. CASE UNCHANGED <<proposals, stream, said, due, excuse>>
  BY <1>1 DEF Drafts, Streams
<1>2. ~chat.sending \/ chat.reading => \A n \in Streams : ~stream[n].read
  BY DEF Turns
<1>3. CASE Send
  BY <1>2, <1>3, PostDrafts DEF Send
<1>4. CASE ImagesRead
  BY <1>1, <1>2, <1>4, PostDrafts DEF ImagesRead
<1>5. CASE Reject
  BY <1>5, SettleDrafts DEF Reject
<1>6. CASE AcceptDone
  BY <1>1, <1>6, SettleDrafts DEF AcceptDone
<1>7. CASE Reload
  <2>1. Streams' = Streams
    BY <1>7, Reloaded, LenProperties DEF Typed, Streams
  <2>2. /\ \A n \in Streams : ~stream'[n].read
        /\ proposals' = NoFiles /\ due' = NoFiles
    BY <1>7, Reloaded
  <2> QED
  BY <2>1, <2>2 DEF Drafts
<1>8. CASE Users
  BY <1>1, <1>3, <1>5, <1>7, <1>8 DEF Users, Compose, RemoveImage, SendImages, Accept
<1>9. CASE Network
  BY <1>9, PageMoves, PageDrafts DEF Network
<1>10. CASE Writes
  BY <1>10, WriteServes, ServedDrafts DEF Writes
<1>11. CASE Goes
  BY <1>1, <1>4, <1>6, <1>11, PipelineServes, PageMoves, ServedDrafts, PageDrafts
     DEF Goes, AcceptPut
<1>12. CASE UNCHANGED <<vars, env>>
  BY <1>1, <1>12 DEF vars
<1> QED
BY <1>8, <1>9, <1>10, <1>11, <1>12 DEF Next

\* DraftsShown: what the agent drafted, in answers the page read to their end, is proposed
\* until it is accepted or rejected (BeforeStreamDone, the proposals event, acceptProposals).
THEOREM DraftsAreShown == Spec => []DraftsShown
<1>1. Init => Typed /\ Turns /\ Drafts
  BY InitTyped, InitTurns, InitDrafts
<1>2. Typed /\ Turns /\ Drafts /\ [Next]_<<vars, env>> => Typed' /\ Turns' /\ Drafts'
  BY TypedKept, TurnsKept, DraftsKept
<1>3. Turns /\ Drafts => DraftsShown
  BY DraftsGiveShown
<1> QED
BY <1>1, <1>2, <1>3, PTL DEF Spec
================================================================================
