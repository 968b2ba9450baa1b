------------------------------- MODULE AgentChat -------------------------------
(***************************************************************************)
(* The conversation with the agent: sendAgentMessage of Editor.tsx and its *)
(* panel, handleAgentStream and RunAgentPipeline on the server, the events *)
(* that go from one to the other, and the proposals: the texts the agent   *)
(* gave to file_write, which the user accepts or rejects.                  *)
(*                                                                         *)
(* Streams are numbered in the order they are sent.  Of a turn's text the  *)
(* model keeps which streams it came from; of a file, one text out of      *)
(* Contents.  Tools that change no file, memory and prompts are left out.  *)
(***************************************************************************)
EXTENDS Naturals, Sequences, FiniteSets

CONSTANTS
    Paths, Contents,
    None,
    Envs      \* bounds: the messages sent, the turns of the model, the paths and
              \* the large contents it writes, the faults, and what the user does
              \* besides: some of {"image", "settle", "leave"}

ASSUME ChatAssumption ==
    /\ None \notin Contents
    /\ \A e \in Envs : /\ e.sends \in Nat \ {0} /\ e.turns \in Nat
                       /\ e.paths \subseteq Paths /\ e.large \subseteq Contents
                       /\ e.faults \subseteq {"net", "llm", "store"}
                       /\ e.also \subseteq {"image", "settle", "leave"}

VARIABLES
    env,       \* the element of Envs that the behaviour is in
    chat,      \* page: messages, draft (what is composed), sending, reading
    proposals, \* page: the text proposed for each path, or None
    batch,     \* page: the proposals being accepted, or None, and those not yet stored
    stream,    \* the streams sent, first to last (see Stream)
    file,      \* object store: each file's text
    said,      \* history: what each stream gave to file_write and is not settled
    due,       \* history: what the ended streams drafted and nobody settled
    excuse     \* history: what went on that page and server do not guard against

vars == <<chat, proposals, batch, stream, file, said, due, excuse>>

NoFiles == [f \in Paths |-> None]
Over(new, old) == [f \in Paths |-> IF new[f] = None THEN old[f] ELSE new[f]]

\* A stream: where the server's pipeline is, the turns of the model, pendingNew, the events
\* on their way, whether the page still reads them, whether it had the proposals, the
\* history it was sent.
Stream(history) == [pc |-> "sent", turn |-> 0, pending |-> NoFiles, wire |-> <<>>,
                    read |-> TRUE, proposed |-> FALSE, history |-> history]
Streams == DOMAIN stream
PCs == {"sent", "think", "turn", "tools", "end", "over"}

User(n) == [role |-> "user", n |-> n, from |-> {n}]
Assistant(n) == [role |-> "assistant", n |-> n, from |-> {}]

EmptyChat == [messages |-> <<>>, draft |-> "none", sending |-> FALSE, reading |-> FALSE]

Init ==
    /\ env \in Envs
    /\ chat = EmptyChat /\ proposals = NoFiles /\ batch = None /\ stream = <<>>
    /\ file = NoFiles
    /\ said = <<>> /\ due = NoFiles /\ excuse = {}

\* The events: text of any kind for the turn, proposals, the end of the answer.
Text == [type |-> "text", files |-> NoFiles]
Proposals(files) == [type |-> "proposals", files |-> files]
Done == [type |-> "done", files |-> NoFiles]

\* One field of a stream.
Pipe(n, pc) == [stream EXCEPT ![n].pc = pc]
\* An event is written to the stream; nobody reads it when the connection is gone.
Emit(s, n, e) == IF s[n].read THEN [s EXCEPT ![n].wire = Append(@, e)] ELSE s
Faulty(fault) == fault \in env.faults

(***************************************************************************)
(* Sending.                                                                *)
(***************************************************************************)
\* Text, or images, or a quick question; the fields are closed while a stream runs.
Compose(what) ==
    /\ ~chat.sending /\ chat.draft = "none" /\ Len(stream) < env.sends
    /\ what = "image" => "image" \in env.also
    /\ chat' = [chat EXCEPT !.draft = what]
    /\ UNCHANGED <<proposals, batch, stream, file, said, due, excuse>>

\* The cross of an image is there while it is being read, too.
RemoveImage ==
    /\ chat.draft = "image"
    /\ chat' = [chat EXCEPT !.draft = "none"]
    /\ UNCHANGED <<proposals, batch, stream, file, said, due, excuse>>

\* Both turns are shown, and the conversation so far is posted with the new one.
Posted(messages) ==
    LET n == Len(stream) + 1 IN
    /\ chat' = [messages |-> messages \o <<User(n), Assistant(n)>>, draft |-> "none",
                sending |-> TRUE, reading |-> FALSE]
    /\ stream' = Append(stream, Stream(Append(messages, User(n))))
    /\ said' = Append(said, NoFiles)

\* Mutant: a message can be sent while the answer to another comes in.
SendAnyway ==
    /\ Len(stream) < env.sends /\ (chat.draft = "text" \/ chat.sending)
    /\ Posted(chat.messages)
    /\ UNCHANGED <<proposals, batch, file, due, excuse>>

Send ==
    /\ ~chat.sending /\ chat.draft = "text" /\ Len(stream) < env.sends
    /\ Posted(chat.messages)
    /\ UNCHANGED <<proposals, batch, file, due, excuse>>

\* Images are read first.
SendImages ==
    /\ ~chat.sending /\ chat.draft = "image" /\ Len(stream) < env.sends
    /\ chat' = [chat EXCEPT !.sending = TRUE, !.reading = TRUE]
    /\ UNCHANGED <<proposals, batch, stream, file, said, due, excuse>>

\* All were read, and are sent even when one was removed meanwhile; or one was not.
ImagesRead ==
    /\ chat.reading
    /\ \/ Posted(chat.messages)
       \/ /\ chat' = [chat EXCEPT !.sending = FALSE, !.reading = FALSE]
          /\ UNCHANGED <<stream, said>>
    /\ UNCHANGED <<proposals, batch, file, due, excuse>>

(***************************************************************************)
(* The server.  The connection's end cancels the context of everything.    *)
(***************************************************************************)
At(n, pc) == n \in Streams /\ stream[n].pc = pc
Server == <<chat, proposals, batch, due>>

\* Without a model configured a note is all there is.
Begin(n) ==
    /\ At(n, "sent")
    /\ \/ stream' = Pipe(n, "think")
       \/ Faulty("llm") /\ stream' = Emit(Pipe(n, "end"), n, Text)
    /\ UNCHANGED <<Server, file, said, excuse>>

Think(n) ==
    /\ At(n, "think")
    /\ \/ stream' = Pipe(n, "turn")
       \/ stream[n].read /\ stream' = Emit(Pipe(n, "turn"), n, Text)
    /\ UNCHANGED <<Server, file, said, excuse>>

\* The model answers with calls of tools, or with its last words; or had all its turns.
AskTools(n) ==
    /\ At(n, "turn") /\ stream[n].read /\ stream[n].turn < env.turns
    /\ stream' = Emit([stream EXCEPT ![n].pc = "tools", ![n].turn = @ + 1], n, Text)
    /\ UNCHANGED <<Server, file, said, excuse>>

AskDone(n) ==
    /\ At(n, "turn")
    /\ \/ stream[n].read /\ stream' = Emit(Pipe(n, "end"), n, Text)
       \/ stream[n].turn = env.turns /\ stream' = Pipe(n, "end")
    /\ UNCHANGED <<Server, file, said, excuse>>

\* Mutant: the stream ends on an error without the drafts.
AskFailsEmpty(n) ==
    /\ At(n, "turn") /\ (Faulty("llm") \/ ~stream[n].read)
    /\ stream' = Emit([stream EXCEPT ![n].pc = "end", ![n].pending = NoFiles], n, Text)
    /\ UNCHANGED <<Server, file, said, excuse>>

\* An error is shown as text; the drafts made before it are proposed.
AskFails(n) ==
    /\ At(n, "turn") /\ (Faulty("llm") \/ ~stream[n].read)
    /\ stream' = Emit(Pipe(n, "end"), n, Text)
    /\ UNCHANGED <<Server, file, said, excuse>>

\* file_write keeps a draft, over an earlier one of the stream.
WriteDraft(n, f, c) ==
    /\ At(n, "tools") /\ c \notin env.large
    /\ stream' = [stream EXCEPT ![n].pending[f] = c]
    /\ said' = [said EXCEPT ![n][f] = c]
    /\ UNCHANGED <<Server, file, excuse>>

\* More than 512 KiB are stored at once; an earlier draft stays, to be proposed.
WriteLarge(n, f, c) ==
    /\ At(n, "tools") /\ c \in env.large /\ stream[n].read
    /\ file' = [file EXCEPT ![f] = c]
    /\ said' = [said EXCEPT ![n][f] = None]
    /\ excuse' = excuse \cup (IF stream[n].pending[f] = None THEN {} ELSE {"shadowed"})
    /\ UNCHANGED <<Server, stream>>

ToolsDone(n) ==
    /\ At(n, "tools")
    /\ stream' = Emit(Pipe(n, "turn"), n, Text)
    /\ UNCHANGED <<Server, file, said, excuse>>

\* The check of the citations, BeforeStreamDone, and the end of the answer.
WriteSSEDone(n) ==
    LET drafts == IF stream[n].pending = NoFiles THEN <<>> ELSE <<Proposals(stream[n].pending)>> IN
    /\ At(n, "end")
    /\ stream' = IF stream[n].read
                 THEN [stream EXCEPT ![n].pc = "over", ![n].wire = @ \o drafts \o <<Done>>]
                 ELSE Pipe(n, "over")
    /\ UNCHANGED <<Server, file, said, excuse>>

Pipeline(n) ==
    \/ Begin(n) \/ Think(n) \/ AskTools(n) \/ AskDone(n) \/ AskFails(n) \/ ToolsDone(n)
    \/ WriteSSEDone(n)

(***************************************************************************)
(* The page reads the stream.                                              *)
(***************************************************************************)
\* The last turn takes what an event brings.
ApplyEvent(n) ==
    LET last == Len(chat.messages) IN
    IF last = 0 \/ chat.messages[last].role # "assistant" THEN chat
    ELSE [chat EXCEPT !.messages[last].from = @ \cup {n}]

\* The end of a stream, however it comes: what it drafted is due if the page had it all.
Ends(n, after, whole) ==
    /\ chat' = [after EXCEPT !.sending = FALSE]
    /\ due' = IF whole THEN Over(said[n], due) ELSE due

Arrives(n) == n \in Streams /\ stream[n].read /\ stream[n].wire # <<>>
Coming(n) == Head(stream[n].wire)
Popped(n) == [stream EXCEPT ![n].wire = Tail(@)]

ReadEvent(n) ==
    /\ Arrives(n) /\ Coming(n).type = "text"
    /\ chat' = ApplyEvent(n) /\ stream' = Popped(n)
    /\ UNCHANGED <<proposals, batch, file, said, due, excuse>>

\* Proposals replace earlier ones of the same path, also while others are accepted.
ReadProposals(n) ==
    /\ Arrives(n) /\ Coming(n).type = "proposals"
    /\ proposals' = Over(Coming(n).files, proposals)
    /\ stream' = [Popped(n) EXCEPT ![n].proposed = TRUE]
    /\ excuse' = excuse \cup (IF batch = None THEN {} ELSE {"overlap"})
    /\ UNCHANGED <<chat, batch, file, said, due>>

ReadDone(n) ==
    /\ Arrives(n) /\ Coming(n).type = "done"
    /\ Ends(n, chat, TRUE)
    /\ stream' = [Popped(n) EXCEPT ![n].read = FALSE]
    /\ UNCHANGED <<proposals, batch, file, said, excuse>>

\* Mutant: a refused request returns before the button is released.
RefusedLocked(n) ==
    /\ At(n, "sent") /\ stream[n].read /\ Faulty("net")
    /\ chat' = ApplyEvent(n) /\ UNCHANGED due
    /\ stream' = [stream EXCEPT ![n].pc = "over", ![n].read = FALSE]
    /\ UNCHANGED <<proposals, batch, file, said, excuse>>

\* The request is answered with an error, or reaches nobody.
Refused(n) ==
    /\ At(n, "sent") /\ stream[n].read /\ Faulty("net")
    /\ Ends(n, ApplyEvent(n), FALSE)
    /\ stream' = [stream EXCEPT ![n].pc = "over", ![n].read = FALSE]
    /\ UNCHANGED <<proposals, batch, file, said, excuse>>

\* The connection breaks: what is on its way is lost.
Broken(n) ==
    /\ n \in Streams /\ stream[n].read /\ Faulty("net")
    /\ Ends(n, ApplyEvent(n), FALSE)
    /\ stream' = [stream EXCEPT ![n].wire = <<>>, ![n].read = FALSE]
    /\ excuse' = excuse \cup (IF stream[n].proposed THEN {"broken"} ELSE {})
    /\ UNCHANGED <<proposals, batch, file, said>>

Reads(n) == ReadEvent(n) \/ ReadProposals(n) \/ ReadDone(n)

(***************************************************************************)
(* Accepting and rejecting.                                                *)
(***************************************************************************)
\* What the page showed is settled; what has not arrived is not.
Settle ==
    /\ proposals' = NoFiles /\ due' = NoFiles
    /\ said' = [n \in Streams |-> IF stream[n].proposed THEN NoFiles ELSE said[n]]

\* The bound: one acceptance at a time.
Accept ==
    /\ "settle" \in env.also /\ proposals # NoFiles /\ batch = None
    /\ batch' = [all |-> proposals, left |-> proposals]
    /\ UNCHANGED <<chat, proposals, stream, file, said, due, excuse>>

\* The texts are stored one by one; an error leaves the proposals as they are.
AcceptPut(f) ==
    /\ batch # None /\ batch.left[f] # None
    /\ \/ batch' = [batch EXCEPT !.left[f] = None]
          /\ file' = [file EXCEPT ![f] = batch.left[f]]
       \/ Faulty("store") /\ batch' = None /\ UNCHANGED file
    /\ UNCHANGED <<chat, proposals, stream, said, due, excuse>>

\* The list of files is read again, which may fail; the proposals are cleared.
AcceptDone ==
    /\ batch # None /\ batch.left = NoFiles /\ batch' = None
    /\ \/ Settle
       \/ Faulty("store") /\ UNCHANGED <<proposals, said, due>>
    /\ UNCHANGED <<chat, stream, file, excuse>>

Reject ==
    /\ "settle" \in env.also /\ proposals # NoFiles
    /\ Settle
    /\ UNCHANGED <<chat, batch, stream, file, excuse>>

\* The page is loaded again: the conversation and the proposals are gone.
Reload ==
    /\ "leave" \in env.also
    /\ chat' = EmptyChat /\ proposals' = NoFiles /\ batch' = None /\ due' = NoFiles
    /\ stream' = [n \in Streams |-> [stream[n] EXCEPT !.wire = <<>>, !.read = FALSE]]
    /\ said' = [n \in Streams |-> NoFiles]
    /\ UNCHANGED <<file, excuse>>

Users ==
    \/ \E what \in {"text", "image"} : Compose(what)
    \/ RemoveImage \/ Send \/ SendImages \/ Accept \/ Reject \/ Reload

Network == \E n \in Streams : Refused(n) \/ Broken(n)

Writes == \E n \in Streams, f \in env.paths, c \in Contents :
              WriteDraft(n, f, c) \/ WriteLarge(n, f, c)

Goes ==
    \/ ImagesRead \/ AcceptDone \/ \E f \in Paths : AcceptPut(f)
    \/ \E n \in Streams : Pipeline(n) \/ Reads(n)

Next == (Users \/ Network \/ Writes \/ Goes) /\ UNCHANGED env

Spec == Init /\ [][Next]_<<vars, env>>

\* The model answers or fails, the server goes on and the page reads; nobody has to click.
FairSpec ==
    /\ Spec
    /\ WF_vars(ImagesRead /\ UNCHANGED env)
    /\ WF_vars((\E n \in Streams : Pipeline(n)) /\ UNCHANGED env)
    /\ WF_vars((\E n \in Streams : Reads(n)) /\ UNCHANGED env)

(***************************************************************************)
(* Properties.                                                             *)
(***************************************************************************)
\* The turn the panel marks as being written.
StreamingThis(i) == chat.sending /\ i = Len(chat.messages)

\* A stream writes in its own turn only, which is the one marked, and was sent
\* the conversation that is shown above it: over failed requests, broken
\* connections, slow images and a page loaded again.
OwnTurn ==
    /\ \A i \in DOMAIN chat.messages : chat.messages[i].from \subseteq {chat.messages[i].n}
    /\ \A n \in Streams : stream[n].read =>
           \E i \in DOMAIN chat.messages :
               /\ chat.messages[i].role = "assistant" /\ chat.messages[i].n = n
               /\ StreamingThis(i)
               /\ [k \in DOMAIN stream[n].history |-> stream[n].history[k].n] =
                  [k \in 1 .. i - 1 |-> chat.messages[k].n]

\* What the agent drafted, in streams the page read to their end, is proposed until
\* it is accepted or rejected: the last text of every path, over errors of the model
\* and later streams.  Excepted are proposals that arrive while others are accepted,
\* a large write over a draft, and a connection that breaks after the proposals.
DraftsShown == ~chat.sending /\ excuse = {} => proposals = due

\* The panel takes the next message once the answer ended or failed.
SendingEnds == chat.sending ~> ~chat.sending
=============================================================================
