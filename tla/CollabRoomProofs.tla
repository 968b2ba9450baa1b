--------------------------- MODULE CollabRoomProofs ---------------------------
(***************************************************************************)
(* Theorems about the collaborative mode, for every number of pages, files *)
(* and saves on their way, any failures and any surroundings.              *)
(***************************************************************************)
EXTENDS CollabRoom, SequenceTheorems, FiniteSetTheorems, TLAPS

USE DEF vars, stores, pages, bounds, history

-----------------------------------------------------------------------------
(* Lists of saves.                                                         *)

\* What is left when a save has landed: the others, in their order.
LEMMA Rest ==
  ASSUME NEW S, NEW s \in Seq(S), NEW k \in 1..Len(s)
  PROVE  LET t == RemoveAt(s, k)
         IN /\ t \in Seq(S) /\ Len(t) = Len(s) - 1
            /\ \A i \in 1..Len(t) : t[i] = s[IF i < k THEN i ELSE i + 1]
<1> DEFINE l == SubSeq(s, 1, k - 1)
           r == SubSeq(s, k + 1, Len(s))
           t == l \o r
<1>1. Len(s) \in Nat /\ k \in Nat /\ 1 <= k /\ k <= Len(s)
      /\ \A i \in 1..Len(s) : s[i] \in S
  BY LenProperties
<1>2. l \in Seq(S) /\ Len(l) = k - 1 /\ \A i \in 1..(k - 1) : l[i] = s[i]
  BY <1>1, SubSeqProperties
<1>3. /\ r \in Seq(S) /\ Len(r) = Len(s) - k
      /\ \A i \in 1..(Len(s) - k) : r[i] = s[i + k]
  <2>1. /\ r \in Seq(S) /\ Len(r) = IF k + 1 <= Len(s) THEN Len(s) - (k + 1) + 1 ELSE 0
        /\ \A i \in 1..(Len(s) - (k + 1) + 1) : r[i] = s[(k + 1) + i - 1]
    <3>1. \A i \in (k + 1)..Len(s) : s[i] \in S
      BY <1>1
    <3> QED
    BY <1>1, <3>1, SubSeqProperties
  <2> HIDE DEF r
  <2>2. Len(r) = Len(s) - k
    <3>1. CASE k + 1 <= Len(s)
      BY <1>1, <2>1, <3>1
    <3>2. CASE k = Len(s)
      BY <1>1, <2>1, <3>2
    <3>3. \A n \in Nat : k <= n => k + 1 <= n \/ k = n
      BY <1>1
    <3>4. k + 1 <= Len(s) \/ k = Len(s)
      BY <1>1, <3>3
    <3> QED
    BY <3>1, <3>2, <3>4
  <2>3. ASSUME NEW i \in 1..(Len(s) - k) PROVE r[i] = s[i + k]
    <3>1. i \in 1..(Len(s) - (k + 1) + 1) /\ (k + 1) + i - 1 = i + k
      BY <1>1
    <3> QED
    BY <2>1, <3>1
  <2> QED
  BY <2>1, <2>2, <2>3
<1> HIDE DEF l, r
<1>4. /\ t \in Seq(S) /\ Len(t) = Len(l) + Len(r)
      /\ \A i \in 1..(Len(l) + Len(r)) : t[i] = IF i <= Len(l) THEN l[i] ELSE r[i - Len(l)]
  BY <1>2, <1>3, ConcatProperties
<1> HIDE DEF t
<1>5. Len(t) = Len(s) - 1
  BY <1>1, <1>2, <1>3, <1>4
<1>6. ASSUME NEW i \in 1..Len(t) PROVE t[i] = s[IF i < k THEN i ELSE i + 1]
  <2>1. CASE i < k
    <3>1. i \in 1..(k - 1) /\ i <= Len(l) /\ i \in 1..(Len(l) + Len(r))
      BY <1>1, <1>2, <1>3, <1>5, <2>1
    <3> QED
    BY <1>2, <1>4, <2>1, <3>1
  <2>2. CASE ~(i < k)
    <3>1. i - (k - 1) \in 1..(Len(s) - k) /\ i - (k - 1) + k = i + 1
          /\ ~(i <= Len(l)) /\ i \in 1..(Len(l) + Len(r)) /\ i - Len(l) = i - (k - 1)
      BY <1>1, <1>2, <1>3, <1>5, <2>2
    <3>2. t[i] = r[i - (k - 1)]
      BY <1>4, <3>1
    <3>3. r[i - (k - 1)] = s[i + 1]
      BY <1>3, <3>1
    <3> QED
    BY <2>2, <3>2, <3>3
  <2> QED
  BY <2>1, <2>2
<1>7. RemoveAt(s, k) = t
  BY DEF RemoveAt, t, l, r
<1> QED
BY <1>4, <1>5, <1>6, <1>7

-----------------------------------------------------------------------------
(* Types.                                                                  *)

Texts == SUBSET Item
Puts == [what : {"file", "state"}, path : Paths, value : Texts, then : Pages \cup {None}]

Typed ==
  /\ env \in Envs
  /\ file \in [Paths -> Texts] /\ room \in [Paths -> Texts]
  /\ state \in [Paths -> Texts \cup {None}]
  /\ shown \in [Pages -> Paths \cup {None}]
  /\ stage \in [Pages -> Opening \cup {"away", "bound"}]
  /\ \A p \in Pages : shown[p] = None <=> stage[p] = "away"
  /\ doc \in [Pages -> Texts] /\ client \in [Pages -> Nat]
  /\ model \in [Pages -> [Paths -> Texts \cup {None}]]
  /\ \A p \in Pages : stage[p] # "away" => model[p][shown[p]] \in Texts
  /\ \A p \in Pages : online[p] => stage[p] \in {"connect", "bound"}
  /\ \A p \in Pages : stage[p] = "away" => timers[p] = {}
  /\ online \in [Pages -> BOOLEAN] /\ timers \in [Pages -> SUBSET Timers]
  /\ puts \in Seq(Puts)
  /\ docs \in Nat /\ words \in Nat /\ faults \in Nat

\* A word that is written is an item of its own.
LEMMA Writes ==
  ASSUME NEW x \in Paths, words \in Nat
  PROVE  /\ Write(x) \in Item /\ Write(x).word = <<x, words + 1>>
         /\ \A c \in Nat : /\ [Write(x) EXCEPT !.through = <<c>>] \in Item
                           /\ [Write(x) EXCEPT !.through = <<c>>].word = <<x, words + 1>>
<1>1. <<x, words + 1>> \in Word /\ <<>> \in Seq(Nat) /\ \A c \in Nat : <<c>> \in Seq(Nat)
  BY DEF Word
<1>2. ASSUME NEW t \in Seq(Nat) PROVE [word |-> <<x, words + 1>>, through |-> t] \in Item
  BY <1>1, <1>2 DEF Item
<1>3. Write(x) = [word |-> <<x, words + 1>>, through |-> <<>>]
  BY DEF Write
<1>4. \A c \in Nat : [Write(x) EXCEPT !.through = <<c>>] = [word |-> <<x, words + 1>>, through |-> <<c>>]
  BY <1>3
<1> QED
  BY <1>1, <1>2, <1>3, <1>4

\* What is on the screen is a file with a text.
LEMMA Shows ==
  ASSUME Typed, NEW p \in Pages, stage[p] # "away"
  PROVE  shown[p] \in Paths /\ doc[p] \in Texts /\ model[p][shown[p]] \in Texts
         /\ room[shown[p]] \in Texts /\ file[shown[p]] \in Texts
BY DEF Typed

LEMMA UpdateTyped ==
  ASSUME Typed, NEW p \in Pages, stage[p] # "away", NEW d \in Texts, Update(p, d)
  PROVE  /\ doc' \in [Pages -> Texts]
         /\ model' \in [Pages -> [Paths -> Texts \cup {None}]]
         /\ \A q \in Pages : stage[q] # "away" => model'[q][shown[q]] \in Texts
         /\ timers' \in [Pages -> SUBSET Timers]
         /\ \A q \in Pages : stage[q] = "away" => timers'[q] = {}
<1>1. shown[p] \in Paths /\ Timers \in SUBSET Timers
  BY Shows
<1>2. CASE stage[p] = "bound"
  <2>1. /\ doc' = [doc EXCEPT ![p] = d] /\ timers' = [timers EXCEPT ![p] = Timers]
        /\ model' = [model EXCEPT ![p] = [@ EXCEPT ![shown[p]] = d]]
    BY <1>2 DEF Update
  <2>2. [model[p] EXCEPT ![shown[p]] = d] \in [Paths -> Texts \cup {None}]
    BY <1>1 DEF Typed
  <2>3. model' \in [Pages -> [Paths -> Texts \cup {None}]]
    BY <2>1, <2>2 DEF Typed
  <2>4. ASSUME NEW q \in Pages, stage[q] # "away" PROVE model'[q][shown[q]] \in Texts
    BY <1>1, <2>1, <2>4, Shows DEF Typed
  <2> QED
    BY <1>1, <2>1, <2>3, <2>4 DEF Typed
<1>3. CASE stage[p] # "bound"
  BY <1>3 DEF Typed, Update
<1> QED
  BY <1>2, <1>3

LEMMA PutTyped ==
  ASSUME Typed, NEW p \in Pages, stage[p] # "away", NEW what \in {"file", "state"},
         NEW v \in Texts, NEW then \in Pages \cup {None}, Put(what, p, v, then)
  PROVE  puts' \in Seq(Puts)
<1>1. [what |-> what, path |-> shown[p], value |-> v, then |-> then] \in Puts
  BY Shows DEF Puts
<1> QED
  BY <1>1, AppendProperties DEF Put, Typed

LEMMA StateAfterTyped ==
  ASSUME Typed, NEW put \in Puts PROVE StateAfter(put) \in Seq(Puts)
<1>1. CASE put.then = None \/ stage[put.then] = "away"
  BY <1>1 DEF StateAfter
<1>2. CASE ~(put.then = None \/ stage[put.then] = "away")
  <2> DEFINE e == [what |-> "state", path |-> put.path, value |-> doc[put.then], then |-> None]
  <2>1. e \in Puts
    BY <1>2 DEF Puts, Typed
  <2>2. StateAfter(put) = <<e>>
    BY <1>2 DEF StateAfter
  <2> QED
  BY <2>1, <2>2
<1> QED
  BY <1>1, <1>2

LEMMA LandTyped ==
  ASSUME Typed, NEW k \in DOMAIN puts, Land(k)
  PROVE  /\ file' \in [Paths -> Texts] /\ state' \in [Paths -> Texts \cup {None}]
         /\ puts' \in Seq(Puts) /\ faults' \in Nat
<1>1. puts \in Seq(Puts) /\ k \in 1..Len(puts) /\ puts[k] \in Puts /\ faults \in Nat
  BY LenProperties, ElementOfSeq DEF Typed
<1>2. RemoveAt(puts, k) \in Seq(Puts) /\ StateAfter(puts[k]) \in Seq(Puts)
  BY <1>1, Rest, StateAfterTyped
<1>3. RemoveAt(puts, k) \o StateAfter(puts[k]) \in Seq(Puts)
  BY <1>2, ConcatProperties
<1>4. puts[k].path \in Paths /\ puts[k].value \in Texts
  BY <1>1 DEF Puts
<1>5. \/ faults' = faults \/ faults' = faults + 1
  BY DEF Land, Fail
<1>6. file' \in [Paths -> Texts] /\ state' \in [Paths -> Texts \cup {None}]
  BY <1>4 DEF Land, Typed, HandleCollabPutState, PutProjectFile
<1>7. puts' = RemoveAt(puts, k) \/ puts' = RemoveAt(puts, k) \o StateAfter(puts[k])
  BY DEF Land
<1>8. faults' \in Nat
  BY <1>1, <1>5
<1>9. puts' \in Seq(Puts)
  BY <1>2, <1>3, <1>7
<1> QED
  BY <1>6, <1>8, <1>9

LEMMA UsersTyped == Typed /\ Users => Typed'
<1> SUFFICES ASSUME Typed, Users PROVE Typed'
  OBVIOUS
<1>1. ASSUME NEW p \in Pages, NEW x \in Paths, Show(p, x) PROVE Typed'
  BY <1>1, RoomAssumption DEF Show, Cleanup, Typed, Texts, Opening
<1>2. ASSUME NEW p \in Pages, Leave(p) PROVE Typed'
  BY <1>2 DEF Leave, Cleanup, Typed, Texts
<1>3. ASSUME NEW p \in Pages, Type(p) PROVE Typed'
  <2> DEFINE item == [Write(shown[p]) EXCEPT !.through = <<client[p]>>]
  <2>1. stage[p] # "away" /\ words + 1 \in Nat
    BY <1>3 DEF Type, Typed
  <2>2. item \in Item
    BY <2>1, Shows, Writes DEF Typed
  <2>3. doc[p] \cup {item} \in Texts
    BY <2>1, <2>2, Shows DEF Texts
  <2>4. Update(p, doc[p] \cup {item}) /\ words' = words + 1
    BY <1>3 DEF Type
  <2> HIDE DEF item
  <2> QED
    BY <1>3, <2>1, <2>3, <2>4, UpdateTyped DEF Type, Typed
<1>4. ASSUME NEW p \in Pages, TypeEarly(p) PROVE Typed'
  <2>1. stage[p] # "away" /\ words + 1 \in Nat /\ Write(shown[p]) \in Item
    BY <1>4, Shows, Writes DEF TypeEarly, Typed, Opening
  <2>2. model[p][shown[p]] \cup {Write(shown[p])} \in Texts /\ shown[p] \in Paths
    BY <2>1, Shows DEF Texts
  <2> QED
    BY <1>4, <2>1, <2>2 DEF TypeEarly, Typed, Timers
<1>5. ASSUME NEW p \in Pages, Save(p) PROVE Typed'
  <2>1. stage[p] # "away" /\ words + 1 \in Nat /\ puts' \in Seq(Puts)
    BY <1>5, Shows, PutTyped DEF Save, Typed
  <2> QED
    BY <1>5, <2>1 DEF Save, Typed
<1>6. ASSUME NEW x \in Paths, OtherWrites(x) PROVE Typed'
  <2>1. words + 1 \in Nat /\ {Write(x)} \in Texts
    BY Writes DEF Typed, Texts
  <2> QED
    BY <1>6, <2>1 DEF OtherWrites, Typed
<1>7. ASSUME NEW p \in Pages, NEW x \in Paths, RestoreSnapshot(p, x) PROVE Typed'
  <2>1. words + 1 \in Nat /\ {Write(x)} \in Texts /\ {} \in Texts
    BY Writes DEF Typed, Texts
  <2> QED
    BY <1>7, <2>1 DEF RestoreSnapshot, Typed
<1> QED
  BY <1>1, <1>2, <1>3, <1>4, <1>5, <1>6, <1>7 DEF Users

\* A page goes on to open its file.
LEMMA OpensTyped ==
  ASSUME Typed, NEW p \in Pages, stage[p] \in Opening \ {"connect"},
         NEW s \in {"file", "again", "connect"}, NEW d \in Texts,
         stage' = [stage EXCEPT ![p] = s], doc' = [doc EXCEPT ![p] = d], faults' \in Nat,
         UNCHANGED <<env, stores, room, shown, client, model, online, timers, puts, docs, words>>
  PROVE  Typed'
<1>1. stage' \in [Pages -> Opening \cup {"away", "bound"}] /\ doc' \in [Pages -> Texts]
  BY DEF Typed, Opening
<1>2. /\ stage[p] # "away" /\ stage[p] \notin {"connect", "bound"} /\ stage'[p] = s /\ s # "away"
      /\ \A q \in Pages : q # p => stage'[q] = stage[q]
  BY DEF Typed, Opening
<1>3. ~ online[p]
  BY <1>2 DEF Typed
<1>4. ASSUME NEW q \in Pages
      PROVE  /\ shown[q] = None <=> stage'[q] = "away"
             /\ stage'[q] # "away" => model[q][shown[q]] \in Texts
             /\ online[q] => stage'[q] \in {"connect", "bound"}
             /\ stage'[q] = "away" => timers[q] = {}
  <2>1. CASE q = p
    BY <1>2, <1>3, <2>1 DEF Typed
  <2>2. CASE q # p
    BY <1>2, <2>2 DEF Typed
  <2> QED
    BY <2>1, <2>2
<1> QED
  BY <1>1, <1>4 DEF Typed

LEMMA FailTyped ==
  ASSUME Typed, Fail \/ UNCHANGED faults PROVE faults' \in Nat
BY DEF Typed, Fail

LEMMA GetStateTyped ==
  ASSUME Typed, NEW p \in Pages, GetState(p) PROVE Typed'
<1>1. stage[p] \in Opening \ {"connect"} /\ shown[p] \in Paths /\ doc[p] \in Texts
  BY DEF GetState, Typed, Opening
<1>2. Fail \/ UNCHANGED faults
  BY DEF GetState
<1>3. faults' \in Nat
  BY <1>2, FailTyped
<1>4. \/ state[shown[p]] # None /\ Start(p, state[shown[p]])
      \/ \E s \in {"file", "again"} : stage' = [stage EXCEPT ![p] = s] /\ doc' = doc
  BY DEF GetState
<1>5. UNCHANGED <<env, stores, room, shown, client, model, online, timers, puts, docs, words>>
  BY DEF GetState
<1>6. CASE state[shown[p]] # None /\ Start(p, state[shown[p]])
  <2>1. state[shown[p]] \in Texts
    BY <1>1, <1>6 DEF Typed
  <2> QED
    BY <1>1, <1>3, <1>5, <1>6, <2>1, OpensTyped DEF Start
<1>7. CASE \E s \in {"file", "again"} : stage' = [stage EXCEPT ![p] = s] /\ doc' = doc
  <2>1. doc' = [doc EXCEPT ![p] = doc[p]]
    BY <1>7 DEF Typed
  <2> QED
    BY <1>1, <1>3, <1>5, <1>7, <2>1, OpensTyped
<1> QED
  BY <1>4, <1>6, <1>7

\* The text of the file, inserted into document c.
Inserted(x, c) == {[i EXCEPT !.through = Append(@, c)] : i \in file[x]}

\* An item that is inserted once more.
LEMMA Through ==
  ASSUME NEW i \in Item, NEW c \in Nat
  PROVE  [i EXCEPT !.through = Append(@, c)] \in Item
<1>1. i.through \in Seq(Nat) /\ i.word \in Word
  BY DEF Item
<1>2. PICK t \in Seq(Nat) : t = Append(i.through, c)
  BY <1>1, AppendProperties
<1>3. [i EXCEPT !.through = t] \in Item
  BY <1>1, <1>2 DEF Item
<1> QED
  BY <1>2, <1>3

LEMMA InsertedTyped ==
  ASSUME Typed, NEW x \in Paths, NEW c \in Nat PROVE Inserted(x, c) \in Texts
<1>1. ASSUME NEW i \in file[x] PROVE [i EXCEPT !.through = Append(@, c)] \in Item
  <2>1. i \in Item
    BY DEF Typed, Texts
  <2> QED
    BY <2>1, Through
<1> QED
  BY <1>1 DEF Inserted, Texts

LEMMA GetFileTyped ==
  ASSUME Typed, NEW p \in Pages, GetFile(p) PROVE Typed'
<1>1. /\ stage[p] \in Opening \ {"connect"} /\ shown[p] \in Paths /\ client[p] \in Nat
      /\ doc[p] \in Texts
  BY DEF GetFile, Typed, Opening
<1>2. Inserted(shown[p], client[p]) \in Texts /\ {} \in Texts
  BY <1>1, InsertedTyped DEF Texts
<1>3. Fail \/ UNCHANGED faults
  BY DEF GetFile
<1>4. faults' \in Nat
  BY <1>3, FailTyped
<1>5. UNCHANGED <<env, stores, room, shown, client, model, online, timers, puts, docs, words>>
  BY DEF GetFile
<1>6. \/ Start(p, Inserted(shown[p], client[p])) \/ Start(p, {})
      \/ stage' = [stage EXCEPT ![p] = "again"] /\ doc' = doc
  BY DEF GetFile, Inserted
<1>7. CASE Start(p, Inserted(shown[p], client[p])) \/ Start(p, {})
  BY <1>1, <1>2, <1>4, <1>5, <1>7, OpensTyped DEF Start
<1>8. CASE stage' = [stage EXCEPT ![p] = "again"] /\ doc' = doc
  <2>1. doc' = [doc EXCEPT ![p] = doc[p]]
    BY <1>8 DEF Typed
  <2> QED
    BY <1>1, <1>4, <1>5, <1>8, <2>1, OpensTyped
<1> QED
  BY <1>6, <1>7, <1>8

LEMMA BindTyped ==
  ASSUME Typed, NEW p \in Pages, Bind(p) PROVE Typed'
<1>1. stage[p] # "away" /\ shown[p] \in Paths /\ doc[p] \in Texts
  BY DEF Bind, Typed
<1>2. /\ stage' = [stage EXCEPT ![p] = "bound"]
      /\ model' = [model EXCEPT ![p] = [@ EXCEPT ![shown[p]] = doc[p]]]
      /\ timers' = [timers EXCEPT ![p] = @ \cup {}]
         \/ timers' = [timers EXCEPT ![p] = @ \cup {"autosave"}]
  BY DEF Bind
<1>3. [model[p] EXCEPT ![shown[p]] = doc[p]] \in [Paths -> Texts \cup {None}]
  BY <1>1 DEF Typed
<1>4. model' \in [Pages -> [Paths -> Texts \cup {None}]]
  BY <1>2, <1>3 DEF Typed
<1>5. ASSUME NEW q \in Pages, stage'[q] # "away" PROVE model'[q][shown[q]] \in Texts
  BY <1>1, <1>2, <1>5 DEF Typed
<1>6. timers' \in [Pages -> SUBSET Timers]
  <2>1. timers[p] \cup {} \in SUBSET Timers /\ timers[p] \cup {"autosave"} \in SUBSET Timers
    BY DEF Typed, Timers
  <2> QED
    BY <1>2, <2>1 DEF Typed
<1>7. stage' \in [Pages -> Opening \cup {"away", "bound"}]
      /\ \A q \in Pages : /\ shown[q] = None <=> stage'[q] = "away"
                          /\ online[q] => stage'[q] \in {"connect", "bound"}
             /\ stage'[q] = "away" => timers[q] = {}
  BY <1>1, <1>2 DEF Typed
<1> QED
  BY <1>1, <1>2, <1>4, <1>5, <1>6, <1>7 DEF Bind, Typed

LEMMA RoomTyped ==
  ASSUME Typed, NEW p \in Pages, Connect(p) \/ Disconnect(p) \/ Push(p) \/ Pull(p) \/ Restart
  PROVE  Typed'
<1>1. ASSUME Connect(p) PROVE Typed'
  BY <1>1 DEF Connect, Typed
<1>2. ASSUME Disconnect(p) PROVE Typed'
  BY <1>2 DEF Disconnect, Fail, Typed
<1>3. ASSUME Restart PROVE Typed'
  BY <1>3 DEF Restart, Fail, Typed, Texts
<1>4. ASSUME Push(p) PROVE Typed'
  BY <1>4 DEF Push, Typed, Texts
<1>5. ASSUME Pull(p) PROVE Typed'
  <2>1. stage[p] # "away"
    BY <1>5 DEF Pull, Typed
  <2>2. doc[p] \cup room[shown[p]] \in Texts
    BY <2>1, Shows DEF Texts
  <2> QED
    BY <1>5, <2>1, <2>2, UpdateTyped DEF Pull, Typed
<1> QED
  BY <1>1, <1>2, <1>3, <1>4, <1>5

LEMMA SavesTyped ==
  ASSUME Typed, NEW p \in Pages, Autosave(p) \/ PersistState(p) \/ SyncFile(p)
  PROVE  Typed'
<1>1. \E t \in Timers : t \in timers[p] /\ timers' = [timers EXCEPT ![p] = @ \ {t}]
  BY DEF Autosave, PersistState, SyncFile, Timers
<1>2. timers' \in [Pages -> SUBSET Timers]
  <2>1. PICK t \in Timers : t \in timers[p] /\ timers' = [timers EXCEPT ![p] = @ \ {t}]
    BY <1>1
  <2>2. timers[p] \ {t} \in SUBSET Timers
    BY DEF Typed
  <2> QED
    BY <2>1, <2>2 DEF Typed
<1>3. stage[p] # "away"
  BY <1>1 DEF Typed
<1>4. puts' \in Seq(Puts)
  <2>1. doc[p] \in Texts /\ model[p][shown[p]] \in Texts
    BY <1>3, Shows
  <2> QED
    BY <1>3, <2>1, PutTyped DEF Autosave, PersistState, SyncFile
<1>5. UNCHANGED <<env, stores, room, shown, stage, doc, client, model, online, bounds>>
  BY DEF Autosave, PersistState, SyncFile
<1>6. \A q \in Pages : stage[q] = "away" => timers'[q] = {}
  BY <1>1, <1>3 DEF Typed
<1> QED
  BY <1>2, <1>4, <1>5, <1>6 DEF Typed

LEMMA InitTyped == Init => Typed
<1> SUFFICES ASSUME Init PROVE Typed
  OBVIOUS
<1>1. ASSUME NEW x \in Paths PROVE {[word |-> <<x, 0>>, through |-> <<>>]} \in Texts
  <2>1. <<x, 0>> \in Word /\ <<>> \in Seq(Nat)
    BY DEF Word
  <2>2. [word |-> <<x, 0>>, through |-> <<>>] \in Item
    BY <2>1 DEF Item
  <2> QED
    BY <2>2 DEF Texts
<1>2. <<>> \in Seq(Puts) /\ {} \in Texts
  BY DEF Texts
<1>3. file \in [Paths -> Texts]
  BY <1>1 DEF Init
<1> QED
  BY <1>2, <1>3, RoomAssumption DEF Init, Typed

LEMMA StepTyped == Typed /\ [Next]_vars => Typed'
<1> SUFFICES ASSUME Typed, [Next]_vars PROVE Typed'
  OBVIOUS
<1>1. CASE Users
  BY <1>1, UsersTyped
<1>2. ASSUME NEW p \in Pages, Page(p) \/ Disconnect(p) PROVE Typed'
  BY <1>2, GetStateTyped, GetFileTyped, BindTyped, RoomTyped, SavesTyped DEF Page
<1>3. CASE Restart
  BY <1>3 DEF Restart, Fail, Typed, Texts
<1>4. ASSUME NEW k \in DOMAIN puts, Land(k) PROVE Typed'
  BY <1>4, LandTyped DEF Land, Typed
<1>5. CASE UNCHANGED vars
  BY <1>5 DEF Typed
<1> QED
  BY <1>1, <1>2, <1>3, <1>4, <1>5 DEF Next

\* The variables keep their types, whatever the pages, the files and the saves: a page
\* shows a file exactly when the effect that opens it has begun.
THEOREM RoomTypes == Spec => []TypeOK
<1>1. Spec => []Typed
  BY InitTyped, StepTyped, PTL DEF Spec
<1>2. Typed => TypeOK
  BY DEF Typed, TypeOK, Texts
<1> QED
  BY <1>1, <1>2, PTL

-----------------------------------------------------------------------------
(* The saves on their way, after each kind of step.                        *)

LEMMA PutFields ==
  ASSUME Typed, NEW k \in DOMAIN puts
  PROVE  /\ puts[k] \in Puts /\ puts[k].what \in {"file", "state"} /\ puts[k].path \in Paths
         /\ puts[k].value \in Texts /\ puts[k].then \in Pages \cup {None}
<1>1. puts[k] \in Puts
  BY LenProperties, ElementOfSeq DEF Typed
<1> QED
  BY <1>1 DEF Puts

\* The save of the state that follows one of the file.
After(put) == [what |-> "state", path |-> put.path, value |-> doc[put.then], then |-> None]
Follows(put) == put.then # None /\ stage[put.then] # "away"

LEMMA LandOrder ==
  ASSUME Typed, NEW k \in DOMAIN puts, puts' = RemoveAt(puts, k) \o StateAfter(puts[k])
  PROVE  /\ Len(puts) \in Nat /\ DOMAIN puts = 1..Len(puts)
         /\ \A j \in 1..(Len(puts) - 1) : puts'[j] = puts[IF j < k THEN j ELSE j + 1]
         /\ Follows(puts[k]) => DOMAIN puts' = 1..Len(puts) /\ puts'[Len(puts)] = After(puts[k])
         /\ ~ Follows(puts[k]) => DOMAIN puts' = 1..(Len(puts) - 1)
<1> DEFINE n == Len(puts) - 1
           t == RemoveAt(puts, k)
           a == StateAfter(puts[k])
<1>1. puts \in Seq(Puts) /\ k \in 1..Len(puts) /\ Len(puts) \in Nat /\ DOMAIN puts = 1..Len(puts)
      /\ puts[k] \in Puts
  BY LenProperties, ElementOfSeq DEF Typed
<1>2. t \in Seq(Puts) /\ Len(t) = n /\ \A i \in 1..n : t[i] = puts[IF i < k THEN i ELSE i + 1]
  BY <1>1, Rest
<1>3. a \in Seq(Puts)
  BY <1>1, StateAfterTyped
<1> HIDE DEF t, a
<1>4. /\ t \o a \in Seq(Puts) /\ Len(t \o a) = n + Len(a)
      /\ \A i \in 1..(n + Len(a)) : (t \o a)[i] = IF i <= n THEN t[i] ELSE a[i - n]
  <2>1. /\ t \o a \in Seq(Puts) /\ Len(t \o a) = Len(t) + Len(a)
        /\ \A i \in 1..(Len(t) + Len(a)) : (t \o a)[i] = IF i <= Len(t) THEN t[i] ELSE a[i - Len(t)]
    <3>1. t \in Seq(Puts) /\ a \in Seq(Puts)
      BY <1>2, <1>3
    <3> QED
      BY <3>1, ConcatProperties
  <2>2. Len(t) = n
    BY <1>2
  <2> HIDE DEF n
  <2> QED
    BY <2>1, <2>2
<1>5. puts' = t \o a /\ n \in Nat /\ Len(a) \in Nat
  BY <1>1, <1>3, LenProperties DEF t, a
<1>6. DOMAIN puts' = 1..(n + Len(a))
  <2>1. ASSUME NEW q \in Seq(Puts) PROVE DOMAIN q = 1..Len(q)
    BY <2>1, LenProperties
  <2> HIDE DEF n
  <2> QED
    BY <1>4, <1>5, <2>1
<1> HIDE DEF n
<1>7. ASSUME NEW j \in 1..n PROVE puts'[j] = puts[IF j < k THEN j ELSE j + 1]
  <2>1. j \in 1..(n + Len(a)) /\ j <= n
    BY <1>5
  <2> QED
    BY <1>2, <1>4, <1>5, <2>1
<1>8. n + 1 = Len(puts)
  BY <1>1 DEF n
<1>9. Follows(puts[k]) => DOMAIN puts' = 1..Len(puts) /\ puts'[Len(puts)] = After(puts[k])
  <2> SUFFICES ASSUME Follows(puts[k]) PROVE DOMAIN puts' = 1..Len(puts) /\ puts'[Len(puts)] = After(puts[k])
    OBVIOUS
  <2>1. a = <<After(puts[k])>>
    BY DEF a, StateAfter, Follows, After
  <2>2. Len(a) = 1 /\ a[1] = After(puts[k])
    BY <2>1
  <2>3. n + 1 \in 1..(n + Len(a)) /\ ~(n + 1 <= n) /\ n + 1 - n = 1
    BY <1>5, <2>2
  <2>4. puts'[n + 1] = a[1]
    BY <1>4, <1>5, <2>3
  <2> QED
    BY <1>6, <1>8, <2>2, <2>4
<1>10. ~ Follows(puts[k]) => DOMAIN puts' = 1..n
  <2>1. ~ Follows(puts[k]) => a = <<>>
    BY DEF a, StateAfter, Follows
  <2>2. a = <<>> => n + Len(a) = n
    BY <1>5
  <2> QED
    BY <1>6, <2>1, <2>2
<1> QED
  BY <1>1, <1>7, <1>9, <1>10 DEF n

\* After a step, a save on its way was so before, or is the state that follows a save.
LEMMA LandPuts ==
  ASSUME Typed, NEW k \in DOMAIN puts, puts' = RemoveAt(puts, k) \o StateAfter(puts[k]),
         NEW j \in DOMAIN puts'
  PROVE  \/ \E m \in DOMAIN puts : puts'[j] = puts[m]
         \/ Follows(puts[k]) /\ puts'[j] = After(puts[k])
<1> DEFINE n == Len(puts)
<1>1. /\ n \in Nat /\ DOMAIN puts = 1..n /\ k \in 1..n
      /\ \A i \in 1..(n - 1) : puts'[i] = puts[IF i < k THEN i ELSE i + 1]
      /\ Follows(puts[k]) => DOMAIN puts' = 1..n /\ puts'[n] = After(puts[k])
      /\ ~ Follows(puts[k]) => DOMAIN puts' = 1..(n - 1)
  BY LandOrder
<1> HIDE DEF n
<1>2. CASE j \in 1..(n - 1)
  <2>1. (IF j < k THEN j ELSE j + 1) \in 1..n
    BY <1>1, <1>2
  <2> QED
    BY <1>1, <1>2, <2>1
<1>3. CASE j \notin 1..(n - 1)
  <2>1. Follows(puts[k]) /\ j \in 1..n
    BY <1>1, <1>3
  <2>2. j = n
    BY <1>1, <1>3, <2>1
  <2> QED
    BY <1>1, <2>1, <2>2
<1> QED
  BY <1>2, <1>3

\* A save that leaves is the last one.
LEMMA PutOrder ==
  ASSUME Typed, NEW what, NEW p \in Pages, NEW v, NEW then, Put(what, p, v, then)
  PROVE  /\ Len(puts) \in Nat /\ DOMAIN puts = 1..Len(puts) /\ DOMAIN puts' = 1..(Len(puts) + 1)
         /\ \A j \in DOMAIN puts : puts'[j] = puts[j]
         /\ puts'[Len(puts) + 1] = [what |-> what, path |-> shown[p], value |-> v, then |-> then]
<1> DEFINE e == [what |-> what, path |-> shown[p], value |-> v, then |-> then]
<1>1. puts \in Seq(Puts \cup {e}) /\ e \in Puts \cup {e}
  <2>1. puts \in Seq(Puts)
    BY DEF Typed
  <2>2. /\ Len(puts) \in Nat /\ puts \in [1..Len(puts) -> Puts]
    BY <2>1, LenProperties
  <2>3. puts \in [1..Len(puts) -> Puts \cup {e}]
    BY <2>2
  <2> QED
    BY <2>2, <2>3, SeqDef
<1>2. puts' = Append(puts, e)
  BY DEF Put
<1> HIDE DEF e
<1>3. /\ Append(puts, e) \in Seq(Puts \cup {e}) /\ Len(Append(puts, e)) = Len(puts) + 1
      /\ \A i \in 1..Len(puts) : Append(puts, e)[i] = puts[i]
      /\ Append(puts, e)[Len(puts) + 1] = e
  BY <1>1, AppendProperties
<1>4. Len(puts) \in Nat /\ DOMAIN puts = 1..Len(puts) /\ DOMAIN puts' = 1..(Len(puts) + 1)
  BY <1>1, <1>2, <1>3, LenProperties
<1> QED
  BY <1>2, <1>3, <1>4 DEF e

-----------------------------------------------------------------------------
(* The text of the file is inserted into one document.                     *)

NoExcuse == excuse \cap {"raced", "fault", "switched", "early"} = {}

OfState(put, x) == put.what = "state" /\ put.path = x

\* What is anywhere that a document of x gets items from.
Held(x) ==
  {i \in Item : \/ i \in room[x]
                \/ \E p \in Pages : shown[p] = x /\ i \in doc[p]
                \/ state[x] # None /\ i \in state[x]
                \/ \E k \in DOMAIN puts : OfState(puts[k], x) /\ i \in puts[k].value}

OneEach(S) == \A i, j \in S : i.word = j.word => i = j
UpTo(S, n) == \A i \in S : i.word[2] <= n

\* Until the text of a file is inserted nothing of it is anywhere but in the file, and
\* no page has come further than to ask for it.
Fresh(x) ==
  /\ Held(x) = {} /\ state[x] = None /\ OneEach(file[x])
  /\ \A k \in DOMAIN puts : puts[k].path # x
  /\ \A p \in Pages : shown[p] = x => stage[p] \in {"state", "file"}

SeedsOf(x) ==
  /\ OneEach(Held(x)) /\ UpTo(Held(x), words) /\ UpTo(file[x], words)
  /\ x \notin seeded => Fresh(x)
  /\ \A k \in DOMAIN puts : puts[k].path = x => UpTo(puts[k].value, words)
  /\ \A p, q \in Pages : shown[p] = x /\ shown[q] = x /\ stage[p] = "file" /\ stage[q] = "file"
                            => p = q
  /\ \A p \in Pages : shown[p] = x /\ stage[p] = "file" => x \notin seeded

Opens(p) ==
  /\ stage[p] # "again" /\ (stage[p] \in {"state", "file", "away"} => doc[p] = {})
  /\ timers[p] # {} => stage[p] = "bound"
  /\ stage[p] = "bound" => model[p][shown[p]] = doc[p]

Seeds == /\ \A x \in Paths : SeedsOf(x)
         /\ \A p \in Pages : Opens(p)

LEMMA Has ==
  ASSUME Typed, NEW x \in Paths
  PROVE  /\ room[x] \subseteq Held(x)
         /\ \A p \in Pages : shown[p] = x => doc[p] \subseteq Held(x)
         /\ state[x] # None => state[x] \subseteq Held(x)
         /\ \A k \in DOMAIN puts : OfState(puts[k], x) => puts[k].value \subseteq Held(x)
<1>1. \A k \in DOMAIN puts : puts[k] \in Puts
  BY LenProperties, ElementOfSeq DEF Typed
<1>2. \A k \in DOMAIN puts : puts[k].value \subseteq Item
  BY <1>1 DEF Puts, Texts
<1>3. room[x] \subseteq Item /\ (\A p \in Pages : doc[p] \subseteq Item)
      /\ (state[x] # None => state[x] \subseteq Item)
  BY DEF Typed, Texts
<1> QED
  BY <1>2, <1>3 DEF Held

LEMMA NotMore ==
  ASSUME NEW x \in Paths, NEW T,
         room[x] \subseteq T,
         \A p \in Pages : shown[p] = x => doc[p] \subseteq T,
         state[x] # None => state[x] \subseteq T,
         \A k \in DOMAIN puts : OfState(puts[k], x) => puts[k].value \subseteq T
  PROVE  Held(x) \subseteq T
BY DEF Held

LEMMA UpToMore ==
  ASSUME NEW S, NEW T, S \subseteq T, T \subseteq Item, NEW m \in Nat, UpTo(T, m)
  PROVE  UpTo(S, m) /\ UpTo(S, m + 1)
<1>1. ASSUME NEW i \in S PROVE i.word[2] \in Nat /\ i.word[2] <= m
  BY DEF Item, Word, UpTo
<1>2. ASSUME NEW i \in S PROVE i.word[2] <= m + 1
  BY <1>1
<1> QED
  BY <1>1, <1>2 DEF UpTo

\* A step that brings nothing to x leaves its documents as they should be.
LEMMA StillSeeded ==
  ASSUME Typed, NEW x \in Paths, SeedsOf(x), words' \in {words, words + 1}, seeded' = seeded,
         Held(x)' \subseteq Held(x), UpTo(file'[x], words'),
         x \notin seeded => OneEach(file'[x]) /\ state'[x] = None,
         \A k \in DOMAIN puts' : puts'[k].path = x => x \in seeded /\ UpTo(puts'[k].value, words'),
         \A p \in Pages : shown'[p] = x /\ x \notin seeded => stage'[p] \in {"state", "file"},
         \A p \in Pages : shown'[p] = x /\ stage'[p] = "file" => shown[p] = x /\ stage[p] = "file"
  PROVE  SeedsOf(x)'
<1>1. OneEach(Held(x)')
  BY DEF SeedsOf, OneEach
<1>2. UpTo(Held(x)', words')
  <2>1. Held(x) \subseteq Item /\ UpTo(Held(x), words) /\ words \in Nat
    BY DEF Held, SeedsOf, Typed
  <2> QED
    BY <2>1, UpToMore
<1>3. x \notin seeded' => Fresh(x)'
  <2>1. x \notin seeded => Held(x)' = {}
    BY DEF SeedsOf, Fresh
  <2> QED
    BY <2>1 DEF Fresh
<1>4. /\ \A p, q \in Pages : shown'[p] = x /\ shown'[q] = x /\ stage'[p] = "file" /\ stage'[q] = "file"
                                 => p = q
      /\ \A p \in Pages : shown'[p] = x /\ stage'[p] = "file" => x \notin seeded
  BY DEF SeedsOf
<1> QED
  BY <1>1, <1>2, <1>3, <1>4 DEF SeedsOf

\* A page leaves what it showed: its document is gone, and nothing else comes.
LeavesFor(p, y, s) ==
  /\ doc' = [doc EXCEPT ![p] = {}] /\ shown' = [shown EXCEPT ![p] = y]
  /\ stage' = [stage EXCEPT ![p] = s] /\ timers' = [timers EXCEPT ![p] = {}]
  /\ \A q \in Pages : q # p => model'[q] = model[q]
  /\ UNCHANGED <<state, room, puts, seeded>>

LEMMA LeavesSeeded ==
  ASSUME Typed, Seeds, NEW p \in Pages, NEW y \in Paths \cup {None}, NEW s \in {"state", "away"},
         LeavesFor(p, y, s), s = "away" => y = None, words' \in {words, words + 1},
         \A x \in Paths : file'[x] = file[x] \/ (UpTo(file'[x], words') /\ OneEach(file'[x]))
  PROVE  Seeds'
<1>1. ASSUME NEW q \in Pages
      PROVE  /\ q # p => doc'[q] = doc[q] /\ shown'[q] = shown[q] /\ stage'[q] = stage[q]
                         /\ timers'[q] = timers[q]
             /\ q # p => model'[q] = model[q]
             /\ doc'[p] = {} /\ shown'[p] = y /\ stage'[p] = s /\ timers'[p] = {}
  BY DEF Typed, LeavesFor
<1>0. UNCHANGED <<state, room, puts, seeded>>
  BY DEF LeavesFor
<1>2. ASSUME NEW x \in Paths PROVE SeedsOf(x)'
  <2>1. SeedsOf(x) /\ words \in Nat /\ file[x] \subseteq Item
    BY DEF Seeds, Typed, Texts
  <2>2. Held(x)' \subseteq Held(x)
    <3>1. \A q \in Pages : shown'[q] = x => doc'[q] \subseteq Held(x)
      BY <1>0, <1>1, Has
    <3> QED
      BY <1>0, <3>1, Has, NotMore DEF OfState, Held
  <2>3. UpTo(file'[x], words') /\ (x \notin seeded => OneEach(file'[x]))
    BY <2>1, UpToMore DEF SeedsOf, Fresh
  <2>4. \A k \in DOMAIN puts : puts[k].path = x => x \in seeded /\ UpTo(puts[k].value, words')
    <3>1. ASSUME NEW k \in DOMAIN puts, puts[k].path = x PROVE x \in seeded /\ UpTo(puts[k].value, words')
      <4>1. puts[k].value \subseteq Item
        BY PutFields DEF Texts
      <4> QED
        BY <2>1, <3>1, <4>1, UpToMore DEF SeedsOf, Fresh
    <3> QED
      BY <3>1
  <2>5. \A q \in Pages : shown'[q] = x /\ x \notin seeded => stage'[q] \in {"state", "file"}
    BY <1>1, <2>1, RoomAssumption DEF SeedsOf, Fresh
  <2>6. \A q \in Pages : shown'[q] = x /\ stage'[q] = "file" => shown[q] = x /\ stage[q] = "file"
    BY <1>1
  <2>7. x \notin seeded => state'[x] = None
    BY <1>0, <2>1 DEF SeedsOf, Fresh
  <2> QED
    BY <1>0, <2>1, <2>2, <2>3, <2>4, <2>5, <2>6, <2>7, StillSeeded
<1>3. ASSUME NEW q \in Pages PROVE Opens(q)'
  BY <1>1 DEF Seeds, Opens
<1> QED
  BY <1>2, <1>3 DEF Seeds

LEMMA OneWord ==
  ASSUME Typed, NEW x \in Paths PROVE UpTo({Write(x)}, words + 1) /\ OneEach({Write(x)})
BY Writes DEF Typed, UpTo, OneEach

LEMMA ShowSeeded ==
  ASSUME Typed, Seeds, NEW p \in Pages, NEW x \in Paths, Show(p, x) PROVE Seeds'
<1>1. LeavesFor(p, x, "state") /\ file' = file /\ words' = words
  BY DEF Show, Cleanup, Typed, LeavesFor
<1> QED
  BY <1>1, LeavesSeeded DEF LeavesFor

LEMMA LeaveSeeded ==
  ASSUME Typed, Seeds, NEW p \in Pages, Leave(p) PROVE Seeds'
<1>1. LeavesFor(p, None, "away") /\ file' = file /\ words' = words
  BY DEF Leave, Cleanup, Typed, LeavesFor
<1> QED
  BY <1>1, LeavesSeeded DEF LeavesFor

LEMMA RestoreSeeded ==
  ASSUME Typed, Seeds, NEW p \in Pages, NEW x \in Paths, RestoreSnapshot(p, x) PROVE Seeds'
<1>1. LeavesFor(p, None, "away") /\ words' = words + 1
  BY DEF RestoreSnapshot, Typed, LeavesFor
<1>2. \A y \in Paths : file'[y] = file[y] \/ (UpTo(file'[y], words') /\ OneEach(file'[y]))
  BY OneWord DEF RestoreSnapshot, Typed
<1> QED
  BY <1>1, <1>2, LeavesSeeded DEF LeavesFor

\* A step after which nothing is on its way that was not, and the words are the same.
LEMMA PutsUpTo ==
  ASSUME Typed, NEW x \in Paths, SeedsOf(x)
  PROVE  /\ \A k \in DOMAIN puts : puts[k].path = x =>
                 x \in seeded /\ UpTo(puts[k].value, words) /\ UpTo(puts[k].value, words + 1)
         /\ UpTo(file[x], words) /\ UpTo(file[x], words + 1)
         /\ UpTo(Held(x), words) /\ UpTo(Held(x), words + 1) /\ Held(x) \subseteq Item
<1>1. words \in Nat /\ file[x] \subseteq Item
  BY DEF Typed, Texts
<1>2. Held(x) \subseteq Item
  BY DEF Held
<1>3. ASSUME NEW k \in DOMAIN puts, puts[k].path = x
      PROVE  x \in seeded /\ UpTo(puts[k].value, words) /\ UpTo(puts[k].value, words + 1)
  <2>1. puts[k].value \subseteq Item
    BY PutFields DEF Texts
  <2> QED
    BY <1>1, <1>3, <2>1, UpToMore DEF SeedsOf, Fresh
<1> QED
  BY <1>1, <1>2, <1>3, UpToMore DEF SeedsOf

\* What a page gets from what there is of its file, and nothing else changes.
LEMMA GetsSeeded ==
  ASSUME Typed, Seeds, NEW p \in Pages, stage[p] # "away",
         \A q \in Pages : q # p => doc'[q] = doc[q] /\ stage'[q] = stage[q],
         \A q \in Pages : stage'[q] = "file" => stage[q] = "file",
         stage'[p] \in {"connect", "bound"}, doc'[p] \subseteq Held(shown[p]),
         shown[p] \in seeded,
         \A x \in Paths : room'[x] \subseteq Held(x),
         UNCHANGED <<shown, file, state, puts, seeded, words>>
  PROVE  \A x \in Paths : SeedsOf(x)'
<1> SUFFICES ASSUME NEW x \in Paths PROVE SeedsOf(x)'
  OBVIOUS
<1>1. SeedsOf(x)
  BY DEF Seeds
<1>2. Held(x)' \subseteq Held(x)
  <2>1. \A q \in Pages : shown'[q] = x => doc'[q] \subseteq Held(x)
    BY Has
  <2> QED
    BY <2>1, Has, NotMore DEF Held, OfState
<1>3. \A q \in Pages : shown'[q] = x /\ x \notin seeded => stage'[q] \in {"state", "file"}
  BY <1>1 DEF SeedsOf, Fresh
<1>4. x \notin seeded => OneEach(file'[x]) /\ state'[x] = None
  BY <1>1 DEF SeedsOf, Fresh
<1> QED
  BY <1>1, <1>2, <1>3, <1>4, PutsUpTo, StillSeeded

LEMMA SeededOpen ==
  ASSUME Typed, Seeds, NEW p \in Pages, stage[p] \in {"connect", "bound"}
  PROVE  shown[p] \in Paths /\ shown[p] \in seeded
<1>1. shown[p] \in Paths
  BY DEF Typed
<1> QED
  BY <1>1 DEF Seeds, SeedsOf, Fresh

LEMMA ConnectSeeded ==
  ASSUME Typed, Seeds, NEW p \in Pages, Connect(p) \/ Disconnect(p) PROVE Seeds'
<1>1. UNCHANGED <<file, state, room, shown, stage, doc, model, timers, puts, seeded, words>>
  BY DEF Connect, Disconnect
<1>2. ASSUME NEW x \in Paths PROVE SeedsOf(x)'
  <2>1. Held(x)' = Held(x)
    BY <1>1 DEF Held, OfState
  <2> QED
    BY <1>1, <2>1 DEF Seeds, SeedsOf, Fresh
<1>3. ASSUME NEW q \in Pages PROVE Opens(q)'
  BY <1>1 DEF Seeds, Opens
<1> QED
  BY <1>2, <1>3 DEF Seeds

LEMMA RestartSeeded ==
  ASSUME Typed, Seeds, Restart PROVE Seeds'
<1>1. UNCHANGED <<file, state, shown, stage, doc, model, timers, puts, seeded, words>>
      /\ \A x \in Paths : room'[x] = {}
  BY DEF Restart
<1>2. ASSUME NEW x \in Paths PROVE SeedsOf(x)'
  <2>1. Held(x)' \subseteq Held(x) /\ SeedsOf(x)
    BY <1>1 DEF Held, OfState, Seeds
  <2>2. \A q \in Pages : shown'[q] = x /\ x \notin seeded => stage'[q] \in {"state", "file"}
    BY <1>1, <2>1 DEF SeedsOf, Fresh
  <2>3. x \notin seeded => OneEach(file'[x]) /\ state'[x] = None
    BY <1>1, <2>1 DEF SeedsOf, Fresh
  <2> QED
    BY <1>1, <2>1, <2>2, <2>3, PutsUpTo, StillSeeded
<1>3. ASSUME NEW q \in Pages PROVE Opens(q)'
  BY <1>1 DEF Seeds, Opens
<1> QED
  BY <1>2, <1>3 DEF Seeds

LEMMA GetStateSeeded ==
  ASSUME Typed, Seeds, NEW p \in Pages, GetState(p), NoExcuse' PROVE Seeds'
<1>1. /\ stage[p] = "state" /\ shown[p] \in Paths /\ doc[p] = {}
      /\ UNCHANGED <<file, state, room, shown, model, timers, puts, seeded, words>>
  BY DEF GetState, Typed, Seeds, Opens
<1>2. CASE state[shown[p]] # None /\ Start(p, state[shown[p]])
  <2>1. /\ doc'[p] = state[shown[p]] /\ stage'[p] = "connect"
        /\ \A q \in Pages : q # p => doc'[q] = doc[q] /\ stage'[q] = stage[q]
    BY <1>2 DEF Start, Typed
  <2>2. shown[p] \in seeded
    BY <1>1, <1>2 DEF Seeds, SeedsOf, Fresh
  <2>3. doc'[p] \subseteq Held(shown[p]) /\ \A x \in Paths : room'[x] \subseteq Held(x)
    BY <1>1, <1>2, <2>1, Has
  <2>4. \A x \in Paths : SeedsOf(x)'
    BY <1>1, <2>1, <2>2, <2>3, GetsSeeded
  <2>5. ASSUME NEW q \in Pages PROVE Opens(q)'
    BY <1>1, <2>1 DEF Seeds, Opens
  <2> QED
    BY <2>4, <2>5 DEF Seeds
<1>3. CASE ~ (state[shown[p]] # None /\ Start(p, state[shown[p]]))
  <2>1. /\ stage' = [stage EXCEPT ![p] = "file"] /\ doc' = doc
        /\ shown[p] \notin seeded
        /\ \A q \in Pages : shown[q] = shown[p] => stage[q] \notin {"file", "again"}
    BY <1>3 DEF GetState, NoExcuse, Showing
  <2>2. stage'[p] = "file" /\ \A q \in Pages : q # p => stage'[q] = stage[q]
    BY <2>1 DEF Typed
  <2>3. ASSUME NEW x \in Paths PROVE SeedsOf(x)'
    <3>1. Held(x)' = Held(x)
      BY <1>1, <2>1 DEF Held, OfState
    <3>2. x \notin seeded => Fresh(x)'
      BY <1>1, <2>1, <2>2, <3>1 DEF Seeds, SeedsOf, Fresh
    <3>3. \A a, b \in Pages : shown[a] = x /\ shown[b] = x /\ stage'[a] = "file" /\ stage'[b] = "file"
                                 => a = b
      BY <1>1, <2>1, <2>2 DEF Seeds, SeedsOf
    <3>4. \A a \in Pages : shown[a] = x /\ stage'[a] = "file" => x \notin seeded
      BY <1>1, <2>1, <2>2 DEF Seeds, SeedsOf
    <3> QED
      BY <1>1, <3>1, <3>2, <3>3, <3>4 DEF Seeds, SeedsOf
  <2>4. ASSUME NEW q \in Pages PROVE Opens(q)'
    BY <1>1, <2>1, <2>2 DEF Seeds, Opens
  <2> QED
    BY <2>3, <2>4 DEF Seeds
<1> QED
  BY <1>2, <1>3

\* The text of the file in a new document: each word once, if it was so in the file.
LEMMA InsertedOnce ==
  ASSUME Typed, NEW x \in Paths, NEW c \in Nat, OneEach(file[x]), UpTo(file[x], words)
  PROVE  OneEach(Inserted(x, c)) /\ UpTo(Inserted(x, c), words)
<1>1. ASSUME NEW i \in Inserted(x, c)
      PROVE  \E j \in file[x] : i = [j EXCEPT !.through = Append(@, c)] /\ i.word = j.word
  <2>1. PICK j \in file[x] : i = [j EXCEPT !.through = Append(@, c)]
    BY DEF Inserted
  <2>2. j \in Item
    BY DEF Typed, Texts
  <2>3. i.word = j.word
    BY <2>1, <2>2 DEF Item
  <2> QED
    BY <2>1, <2>3
<1>2. ASSUME NEW i \in Inserted(x, c), NEW k \in Inserted(x, c), i.word = k.word PROVE i = k
  <2>1. PICK j \in file[x] : i = [j EXCEPT !.through = Append(@, c)] /\ i.word = j.word
    BY <1>1
  <2>2. PICK l \in file[x] : k = [l EXCEPT !.through = Append(@, c)] /\ k.word = l.word
    BY <1>1
  <2>3. j = l
    BY <1>2, <2>1, <2>2 DEF OneEach
  <2> QED
    BY <2>1, <2>2, <2>3
<1>3. ASSUME NEW i \in Inserted(x, c) PROVE i.word[2] <= words
  BY <1>1 DEF UpTo
<1> QED
  BY <1>2, <1>3 DEF OneEach, UpTo

LEMMA GetFileSeeded ==
  ASSUME Typed, Typed', Seeds, NEW p \in Pages, GetFile(p), NoExcuse' PROVE Seeds'
<1>0. PICK y \in Paths : y = shown[p]
  BY DEF GetFile, Typed
<1>1. /\ stage[p] = "file" /\ y \in Paths /\ doc[p] = {} /\ client[p] \in Nat
      /\ UNCHANGED <<file, state, room, shown, model, timers, puts, words>>
  BY <1>0 DEF GetFile, Typed, Seeds, Opens
<1>2. Start(p, Inserted(y, client[p])) /\ seeded' = seeded \cup {y}
  BY <1>0 DEF GetFile, NoExcuse, Inserted
<1>3. /\ doc'[p] = Inserted(y, client[p]) /\ stage'[p] = "connect"
      /\ \A q \in Pages : q # p => doc'[q] = doc[q] /\ stage'[q] = stage[q]
  BY <1>2 DEF Start, Typed
<1>4. SeedsOf(y) /\ Fresh(y) /\ y \notin seeded /\ y \in seeded'
  BY <1>0, <1>1, <1>2 DEF Seeds, SeedsOf
<1>5. OneEach(Inserted(y, client[p])) /\ UpTo(Inserted(y, client[p]), words)
  BY <1>1, <1>4, InsertedOnce DEF SeedsOf, Fresh
<1>6. SeedsOf(y)'
  <2>1. Held(y)' \subseteq Inserted(y, client[p])
    <3>1. Held(y) = {}
      BY <1>4 DEF Fresh
    <3>2. \A q \in Pages : shown'[q] = y => doc'[q] \subseteq Inserted(y, client[p])
      BY <1>1, <1>3, <3>1, Has
    <3>3. room'[y] = {} /\ state'[y] = None
      <4>1. room[y] \subseteq {} /\ state[y] = None
        BY <1>1, <1>4, <3>1, Has DEF Fresh
      <4> QED
        BY <1>1, <4>1
    <3>4. \A k \in DOMAIN puts' : ~ OfState(puts'[k], y)
      BY <1>1, <1>4 DEF Fresh, OfState
    <3> QED
      BY <1>1, <3>2, <3>3, <3>4 DEF Held, OfState
  <2>2. OneEach(Held(y)') /\ UpTo(Held(y)', words)
    BY <1>5, <2>1 DEF OneEach, UpTo
  <2>3. \A k \in DOMAIN puts' : puts'[k].path = y => UpTo(puts'[k].value, words')
    BY <1>1, <1>4 DEF Fresh
  <2>4. \A q \in Pages : shown'[q] = y => stage'[q] # "file"
    BY <1>0, <1>1, <1>3, <1>4 DEF SeedsOf
  <2> QED
    BY <1>1, <1>4, <2>2, <2>3, <2>4 DEF SeedsOf
<1>7. ASSUME NEW x \in Paths, x # y PROVE SeedsOf(x)'
  <2>1. SeedsOf(x) /\ (x \in seeded' <=> x \in seeded) /\ shown[p] # x
    BY <1>0, <1>2, <1>7 DEF Seeds
  <2>2. Held(x)' = Held(x)
    BY <1>1, <1>3, <2>1 DEF Held, OfState
  <2>3. \A q \in Pages : shown'[q] = x => shown[q] = x /\ stage'[q] = stage[q]
    BY <1>1, <1>3, <2>1
  <2> QED
    BY <1>1, <2>1, <2>2, <2>3 DEF SeedsOf, Fresh
<1>8. ASSUME NEW q \in Pages PROVE Opens(q)'
  BY <1>1, <1>3 DEF Seeds, Opens
<1> QED
  BY <1>6, <1>7, <1>8 DEF Seeds

LEMMA BindSeeded ==
  ASSUME Typed, Seeds, NEW p \in Pages, Bind(p) PROVE Seeds'
<1>1. /\ stage[p] = "connect" /\ stage' = [stage EXCEPT ![p] = "bound"]
      /\ model' = [model EXCEPT ![p] = [@ EXCEPT ![shown[p]] = doc[p]]]
      /\ UNCHANGED <<file, state, room, shown, doc, puts, words, seeded>>
      /\ \A q \in Pages : q # p => timers'[q] = timers[q]
  BY DEF Bind, Typed
<1>2. /\ stage'[p] = "bound" /\ shown[p] \in Paths /\ shown[p] \in seeded
      /\ model'[p][shown[p]] = doc[p]
      /\ \A q \in Pages : q # p => stage'[q] = stage[q] /\ model'[q] = model[q]
  <2>1. shown[p] \in Paths /\ shown[p] \in seeded
    BY <1>1, SeededOpen
  <2> QED
    BY <1>1, <2>1 DEF Typed
<1>3. doc'[p] \subseteq Held(shown[p]) /\ \A x \in Paths : room'[x] \subseteq Held(x)
  BY <1>1, <1>2, Has
<1>4. \A x \in Paths : SeedsOf(x)'
  BY <1>1, <1>2, <1>3, GetsSeeded
<1>5. ASSUME NEW q \in Pages PROVE Opens(q)'
  BY <1>1, <1>2 DEF Seeds, Opens
<1> QED
  BY <1>4, <1>5 DEF Seeds

LEMMA PushSeeded ==
  ASSUME Typed, Seeds, NEW p \in Pages, Push(p) PROVE Seeds'
<1>1. /\ stage[p] \in {"connect", "bound"} /\ room' = [room EXCEPT ![shown[p]] = @ \cup doc[p]]
      /\ UNCHANGED <<file, state, shown, stage, doc, model, timers, puts, words, seeded>>
  BY DEF Push, Typed
<1>2. shown[p] \in Paths /\ shown[p] \in seeded
  BY <1>1, SeededOpen
<1>3. doc'[p] \subseteq Held(shown[p]) /\ \A x \in Paths : room'[x] \subseteq Held(x)
  BY <1>1, <1>2, Has DEF Typed
<1>4. \A x \in Paths : SeedsOf(x)'
  BY <1>1, <1>2, <1>3, GetsSeeded
<1>5. ASSUME NEW q \in Pages PROVE Opens(q)'
  BY <1>1, <1>2 DEF Seeds, Opens
<1> QED
  BY <1>4, <1>5 DEF Seeds

LEMMA UpdateIs ==
  ASSUME Typed, NEW p \in Pages, stage[p] # "away", NEW d, Update(p, d)
  PROVE  /\ doc'[p] = d /\ \A q \in Pages : q # p => doc'[q] = doc[q]
         /\ \A q \in Pages : q # p => model'[q] = model[q] /\ timers'[q] = timers[q]
         /\ stage[p] = "bound" => model'[p][shown[p]] = d /\ timers'[p] = Timers
         /\ stage[p] # "bound" => model'[p] = model[p] /\ timers'[p] = timers[p]
<1>1. shown[p] \in Paths
  BY DEF Typed
<1> QED
  BY <1>1 DEF Typed, Update

LEMMA PullSeeded ==
  ASSUME Typed, Seeds, NEW p \in Pages, Pull(p) PROVE Seeds'
<1>1. /\ stage[p] \in {"connect", "bound"} /\ Update(p, doc[p] \cup room[shown[p]])
      /\ UNCHANGED <<file, state, room, shown, stage, puts, words, seeded>>
  BY DEF Pull, Typed
<1>2. shown[p] \in Paths /\ shown[p] \in seeded /\ stage[p] # "away"
  BY <1>1, SeededOpen
<1>3. doc[p] \cup room[shown[p]] \subseteq Held(shown[p]) /\ \A x \in Paths : room'[x] \subseteq Held(x)
  BY <1>1, <1>2, Has
<1>4. doc'[p] = doc[p] \cup room[shown[p]] /\ \A q \in Pages : q # p => doc'[q] = doc[q]
  BY <1>1, <1>2, UpdateIs
<1>5. \A x \in Paths : SeedsOf(x)'
  BY <1>1, <1>2, <1>3, <1>4, GetsSeeded
<1>6. ASSUME NEW q \in Pages PROVE Opens(q)'
  BY <1>1, <1>2, <1>4, UpdateIs DEF Seeds, Opens
<1> QED
  BY <1>5, <1>6 DEF Seeds

\* A save that leaves carries what its page has.
LEMMA SavesSeeded ==
  ASSUME Typed, Seeds, NEW p \in Pages, stage[p] = "bound", NEW what \in {"file", "state"},
         NEW then, NEW v \in {doc[p], model[p][shown[p]]}, Put(what, p, v, then),
         words' \in {words, words + 1},
         UNCHANGED <<file, state, room, shown, stage, doc, model, seeded>>,
         \A q \in Pages : timers'[q] # {} => timers[q] # {}
  PROVE  Seeds'
<1>1. shown[p] \in Paths /\ shown[p] \in seeded
  BY SeededOpen
<1>2. v = doc[p] /\ v \subseteq Held(shown[p])
  BY <1>1, Has DEF Seeds, Opens
<1>3. ASSUME NEW k \in DOMAIN puts'
      PROVE  \/ k \in DOMAIN puts /\ puts'[k] = puts[k]
             \/ puts'[k].what = what /\ puts'[k].path = shown[p] /\ puts'[k].value = v
  <2>1. /\ Len(puts) \in Nat /\ DOMAIN puts = 1..Len(puts) /\ DOMAIN puts' = 1..(Len(puts) + 1)
        /\ \A j \in DOMAIN puts : puts'[j] = puts[j]
        /\ puts'[Len(puts) + 1] = [what |-> what, path |-> shown[p], value |-> v, then |-> then]
    BY PutOrder
  <2>2. k \in 1..Len(puts) \/ k = Len(puts) + 1
    BY <2>1
  <2> QED
    BY <2>1, <2>2
<1>4. ASSUME NEW x \in Paths PROVE SeedsOf(x)'
  <2>1. SeedsOf(x)
    BY DEF Seeds
  <2>2. Held(x)' \subseteq Held(x)
    <3>1. ASSUME NEW k \in DOMAIN puts', OfState(puts'[k], x) PROVE puts'[k].value \subseteq Held(x)
      BY <1>2, <1>3, <3>1, Has DEF OfState
    <3>2. room'[x] \subseteq Held(x) /\ (\A q \in Pages : shown'[q] = x => doc'[q] \subseteq Held(x))
          /\ (state'[x] # None => state'[x] \subseteq Held(x))
      BY Has
    <3> QED
      BY <3>1, <3>2 DEF Held, OfState
  <2>3. ASSUME NEW k \in DOMAIN puts', puts'[k].path = x
        PROVE  x \in seeded /\ UpTo(puts'[k].value, words')
    <3>1. CASE k \in DOMAIN puts /\ puts'[k] = puts[k]
      BY <2>1, <2>3, <3>1, PutsUpTo
    <3>2. CASE puts'[k].path = shown[p] /\ puts'[k].value = v
      <4>1. Held(x) \subseteq Item /\ UpTo(Held(x), words) /\ words \in Nat /\ v \subseteq Held(x)
        BY <1>2, <2>1, <2>3, <3>2, PutsUpTo DEF Typed
      <4>2. UpTo(v, words')
        BY <4>1, UpToMore
      <4> QED
        BY <1>1, <2>3, <3>2, <4>2
    <3> QED
      BY <1>3, <3>1, <3>2
  <2>4. x \notin seeded => OneEach(file'[x]) /\ state'[x] = None
    BY <2>1 DEF SeedsOf, Fresh
  <2>5. \A q \in Pages : shown'[q] = x /\ x \notin seeded => stage'[q] \in {"state", "file"}
    BY <2>1 DEF SeedsOf, Fresh
  <2> QED
    BY <2>1, <2>2, <2>3, <2>4, <2>5, PutsUpTo, StillSeeded
<1>5. ASSUME NEW q \in Pages PROVE Opens(q)'
  BY DEF Seeds, Opens
<1> QED
  BY <1>4, <1>5 DEF Seeds

LEMMA SaveStepsSeeded ==
  ASSUME Typed, Seeds, NEW p \in Pages, NoExcuse',
         Autosave(p) \/ PersistState(p) \/ SyncFile(p) \/ Save(p)
  PROVE  Seeds'
<1>1. CASE Save(p)
  <2>1. stage[p] = "bound" /\ Put("file", p, model[p][shown[p]], p) /\ words' = words + 1
        /\ UNCHANGED <<file, state, room, shown, stage, doc, model, seeded, timers>>
    BY <1>1 DEF Save, NoExcuse
  <2> QED
    BY <2>1, SavesSeeded DEF Put
<1>2. CASE Autosave(p)
  <2>1. /\ timers[p] # {} /\ timers' = [timers EXCEPT ![p] = @ \ {"autosave"}]
        /\ Put("file", p, model[p][shown[p]], p)
        /\ UNCHANGED <<file, state, room, shown, stage, doc, model, seeded, words>>
    BY <1>2 DEF Autosave
  <2>2. stage[p] = "bound" /\ \A q \in Pages : timers'[q] # {} => timers[q] # {}
    BY <2>1 DEF Typed, Seeds, Opens
  <2> QED
    BY <2>1, <2>2, SavesSeeded DEF Put
<1>3. CASE PersistState(p)
  <2>1. /\ timers[p] # {} /\ timers' = [timers EXCEPT ![p] = @ \ {"state"}]
        /\ Put("state", p, doc[p], None)
        /\ UNCHANGED <<file, state, room, shown, stage, doc, model, seeded, words>>
    BY <1>3 DEF PersistState
  <2>2. stage[p] = "bound" /\ \A q \in Pages : timers'[q] # {} => timers[q] # {}
    BY <2>1 DEF Typed, Seeds, Opens
  <2> QED
    BY <2>1, <2>2, SavesSeeded DEF Put
<1>4. CASE SyncFile(p)
  <2>1. /\ timers[p] # {} /\ timers' = [timers EXCEPT ![p] = @ \ {"file"}]
        /\ Put("file", p, doc[p], None)
        /\ UNCHANGED <<file, state, room, shown, stage, doc, model, seeded, words>>
    BY <1>4 DEF SyncFile
  <2>2. stage[p] = "bound" /\ \A q \in Pages : timers'[q] # {} => timers[q] # {}
    BY <2>1 DEF Typed, Seeds, Opens
  <2> QED
    BY <2>1, <2>2, SavesSeeded DEF Put
<1> QED
  BY <1>1, <1>2, <1>3, <1>4

LEMMA OtherSeeded ==
  ASSUME Typed, Seeds, NEW y \in Paths, OtherWrites(y) PROVE Seeds'
<1>1. /\ words' = words + 1
      /\ UNCHANGED <<state, room, shown, stage, doc, model, timers, puts, seeded>>
      /\ \A x \in Paths : file'[x] = file[x] \/ (UpTo(file'[x], words') /\ OneEach(file'[x]))
  BY OneWord DEF OtherWrites, Typed
<1>2. ASSUME NEW x \in Paths PROVE SeedsOf(x)'
  <2>1. Held(x)' \subseteq Held(x) /\ SeedsOf(x)
    BY <1>1 DEF Held, OfState, Seeds
  <2>2. \A q \in Pages : shown'[q] = x /\ x \notin seeded => stage'[q] \in {"state", "file"}
    BY <1>1, <2>1 DEF SeedsOf, Fresh
  <2>3. x \notin seeded => OneEach(file'[x]) /\ state'[x] = None
    BY <1>1, <2>1 DEF SeedsOf, Fresh
  <2> QED
    BY <1>1, <2>1, <2>2, <2>3, PutsUpTo, StillSeeded
<1>3. ASSUME NEW q \in Pages PROVE Opens(q)'
  BY <1>1 DEF Seeds, Opens
<1> QED
  BY <1>2, <1>3 DEF Seeds

\* What is typed is a word of its own.
LEMMA TypeSeeded ==
  ASSUME Typed, Seeds, NEW p \in Pages, Type(p) PROVE Seeds'
<1>0. PICK y \in Paths : y = shown[p]
  BY DEF Type, Typed
<1>1. PICK item \in Item : /\ item.word = <<y, words + 1>>
                           /\ Update(p, doc[p] \cup {item})
  <2>1. [Write(y) EXCEPT !.through = <<client[p]>>] \in Item
        /\ [Write(y) EXCEPT !.through = <<client[p]>>].word = <<y, words + 1>>
    BY Writes DEF Typed
  <2> QED
    BY <1>0, <2>1 DEF Type
<1>2. /\ stage[p] = "bound" /\ y \in seeded /\ words' = words + 1
      /\ UNCHANGED <<file, state, room, shown, stage, puts, seeded>>
  BY <1>0, SeededOpen DEF Type
<1>3. /\ doc'[p] = doc[p] \cup {item} /\ model'[p][y] = doc'[p]
      /\ \A q \in Pages : q # p => doc'[q] = doc[q] /\ model'[q] = model[q] /\ timers'[q] = timers[q]
  BY <1>0, <1>1, <1>2, UpdateIs
<1>4. ASSUME NEW x \in Paths PROVE SeedsOf(x)'
  <2>1. SeedsOf(x) /\ words \in Nat
    BY DEF Seeds, Typed
  <2>2. x # y => Held(x)' \subseteq Held(x)
    BY <1>0, <1>2, <1>3 DEF Held, OfState
  <2>3. x = y => Held(x)' \subseteq Held(x) \cup {item}
    BY <1>0, <1>2, <1>3 DEF Held, OfState
  <2>4. x # y => OneEach(Held(x)') /\ UpTo(Held(x)', words')
    BY <1>2, <2>1, <2>2, PutsUpTo DEF SeedsOf, OneEach, UpTo
  <2>5. x = y => OneEach(Held(x)')
    <3>1. \A i \in Held(x) : i.word[2] <= words /\ i.word[2] \in Nat /\ item.word[2] = words + 1
      BY <1>1, <2>1 DEF SeedsOf, UpTo, Held, Item, Word
    <3>2. \A i \in Held(x) : i.word # item.word
      BY <2>1, <3>1
    <3> QED
      BY <2>1, <2>3, <3>2 DEF OneEach, SeedsOf
  <2>6. x = y => UpTo(Held(x)', words')
    <3>1. item.word[2] = words + 1 /\ words + 1 <= words'
      BY <1>1, <1>2, <2>1
    <3>2. UpTo(Held(x), words')
      BY <1>2, <2>1, PutsUpTo
    <3> QED
      BY <2>3, <3>1, <3>2 DEF UpTo
  <2>7. x \notin seeded => Fresh(x)'
    <3>1. x \notin seeded => Held(x)' = {}
      BY <1>2, <2>1, <2>2 DEF SeedsOf, Fresh
    <3> QED
      BY <1>2, <2>1, <3>1 DEF SeedsOf, Fresh
  <2>8. UpTo(file'[x], words') /\ \A k \in DOMAIN puts' : puts'[k].path = x => UpTo(puts'[k].value, words')
    BY <1>2, <2>1, PutsUpTo
  <2> QED
    BY <1>2, <2>1, <2>4, <2>5, <2>6, <2>7, <2>8 DEF SeedsOf
<1>5. ASSUME NEW q \in Pages PROVE Opens(q)'
  BY <1>0, <1>2, <1>3 DEF Seeds, Opens
<1> QED
  BY <1>4, <1>5 DEF Seeds

LEMMA LandSeeded ==
  ASSUME Typed, Seeds, NEW k \in DOMAIN puts, Land(k), NoExcuse' PROVE Seeds'
<1>0. PICK y \in Paths : y = puts[k].path
  BY PutFields
<1>1. /\ puts' = RemoveAt(puts, k) \o StateAfter(puts[k])
      /\ UNCHANGED <<room, shown, stage, doc, model, timers, words, seeded>>
      /\ IF puts[k].what = "state" THEN HandleCollabPutState(y, puts[k].value)
         ELSE PutProjectFile(y, puts[k].value)
  BY <1>0 DEF Land, NoExcuse
<1>2. Follows(puts[k]) => shown[puts[k].then] = y /\ stage[puts[k].then] = "bound"
                          /\ puts[k].then \in Pages
  <2>1. StateAfter(puts[k]) # <<>> => shown[puts[k].then] = y /\ stage[puts[k].then] = "bound"
    BY <1>0 DEF Land, NoExcuse
  <2>2. Follows(puts[k]) => StateAfter(puts[k]) # <<>> /\ puts[k].then \in Pages
    BY PutFields DEF Follows, StateAfter
  <2> QED
    BY <2>1, <2>2
<1>3. y \in seeded /\ UpTo(puts[k].value, words)
  BY <1>0, PutsUpTo DEF Seeds
<1>4. ASSUME NEW j \in DOMAIN puts'
      PROVE  \/ \E m \in DOMAIN puts : puts'[j] = puts[m]
             \/ /\ Follows(puts[k]) /\ puts'[j].what = "state" /\ puts'[j].path = y
                /\ puts'[j].value = doc[puts[k].then]
  <2>1. puts' = RemoveAt(puts, k) \o StateAfter(puts[k])
    BY <1>1
  <2>2. (\E m \in DOMAIN puts : puts'[j] = puts[m]) \/ (Follows(puts[k]) /\ puts'[j] = After(puts[k]))
    BY <2>1, LandPuts
  <2> QED
    BY <1>0, <2>2 DEF After
<1>5. /\ \A x \in Paths : x # y => file'[x] = file[x] /\ state'[x] = state[x]
      /\ file'[y] = file[y] \/ file'[y] = puts[k].value
      /\ state'[y] = state[y] \/ (OfState(puts[k], y) /\ state'[y] = puts[k].value)
  BY <1>0, <1>1 DEF HandleCollabPutState, PutProjectFile, Typed, OfState
<1>6. ASSUME NEW x \in Paths PROVE SeedsOf(x)'
  <2>1. SeedsOf(x)
    BY DEF Seeds
  <2>2. \A j \in DOMAIN puts' : OfState(puts'[j], x) => puts'[j].value \subseteq Held(x)
    BY <1>2, <1>4, Has DEF OfState
  <2>3. state'[x] # None => state'[x] \subseteq Held(x)
    BY <1>5, Has
  <2>4. Held(x)' \subseteq Held(x)
    <3>1. room'[x] \subseteq Held(x) /\ \A q \in Pages : shown'[q] = x => doc'[q] \subseteq Held(x)
      BY <1>1, Has
    <3> QED
      BY <2>2, <2>3, <3>1 DEF Held, OfState
  <2>5. UpTo(file'[x], words')
    BY <1>1, <1>3, <1>5, PutsUpTo, <2>1
  <2>6. ASSUME NEW j \in DOMAIN puts', puts'[j].path = x
        PROVE  x \in seeded /\ UpTo(puts'[j].value, words')
    <3>1. CASE \E m \in DOMAIN puts : puts'[j] = puts[m]
      BY <1>1, <2>1, <2>6, <3>1, PutsUpTo
    <3>2. CASE /\ Follows(puts[k]) /\ puts'[j].path = y /\ puts'[j].value = doc[puts[k].then]
      <4>1. doc[puts[k].then] \subseteq Held(x) /\ Held(x) \subseteq Item /\ UpTo(Held(x), words)
            /\ words \in Nat
        BY <1>2, <2>1, <2>6, <3>2, Has, PutsUpTo DEF Typed
      <4> QED
        BY <1>1, <1>3, <2>6, <3>2, <4>1, UpToMore
    <3> QED
      BY <1>4, <3>1, <3>2
  <2>7. x \notin seeded => OneEach(file'[x]) /\ state'[x] = None
    BY <1>3, <1>5, <2>1 DEF SeedsOf, Fresh
  <2>8. \A q \in Pages : shown'[q] = x /\ x \notin seeded => stage'[q] \in {"state", "file"}
    BY <1>1, <2>1 DEF SeedsOf, Fresh
  <2> QED
    BY <1>1, <2>1, <2>4, <2>5, <2>6, <2>7, <2>8, StillSeeded
<1>7. ASSUME NEW q \in Pages PROVE Opens(q)'
  BY <1>1 DEF Seeds, Opens
<1> QED
  BY <1>6, <1>7 DEF Seeds

LEMMA ExcuseGrows ==
  ASSUME [Next]_vars PROVE excuse \subseteq excuse'
<1>1. CASE Users
  BY <1>1 DEF Users, Leave, Cleanup, Type, TypeEarly, Save, Show, RestoreSnapshot, OtherWrites
<1>2. ASSUME NEW p \in Pages, Page(p) \/ Disconnect(p) PROVE excuse \subseteq excuse'
  BY <1>2 DEF Page, GetState, GetFile, Bind, Connect, Push, Pull, Autosave, PersistState, SyncFile,
              Disconnect
<1>3. CASE Restart
  BY <1>3 DEF Restart
<1>4. ASSUME NEW k \in DOMAIN puts, Land(k) PROVE excuse \subseteq excuse'
  BY <1>4 DEF Land
<1> QED
  BY <1>1, <1>2, <1>3, <1>4 DEF Next

LEMMA InitSeeded == Init => Seeds
<1> SUFFICES ASSUME Init PROVE Seeds
  OBVIOUS
<1>1. puts = <<>> /\ DOMAIN puts = {}
  BY DEF Init
<1>2. ASSUME NEW x \in Paths PROVE SeedsOf(x)
  <2>1. Held(x) = {}
    BY <1>1, RoomAssumption DEF Init, Held
  <2>2. OneEach(file[x]) /\ UpTo(file[x], words)
    BY DEF Init, OneEach, UpTo
  <2> QED
    BY <1>1, <2>1, <2>2, RoomAssumption DEF Init, SeedsOf, Fresh, OneEach, UpTo
<1>3. ASSUME NEW q \in Pages PROVE Opens(q)
  BY DEF Init, Opens
<1> QED
  BY <1>2, <1>3 DEF Seeds

LEMMA StepSeeded ==
  ASSUME Typed, Typed', Seeds, [Next]_vars, NoExcuse' PROVE Seeds'
<1>1. CASE Users
  <2>1. \A p \in Pages : TypeEarly(p) => FALSE
    BY DEF TypeEarly, NoExcuse
  <2> QED
    BY <1>1, <2>1, LeaveSeeded, TypeSeeded, SaveStepsSeeded, ShowSeeded, RestoreSeeded, OtherSeeded
    DEF Users
<1>2. ASSUME NEW p \in Pages, Page(p) \/ Disconnect(p) PROVE Seeds'
  BY <1>2, GetStateSeeded, GetFileSeeded, BindSeeded, ConnectSeeded, PushSeeded, PullSeeded,
     SaveStepsSeeded DEF Page
<1>3. CASE Restart
  BY <1>3, RestartSeeded
<1>4. ASSUME NEW k \in DOMAIN puts, Land(k) PROVE Seeds'
  BY <1>4, LandSeeded
<1>5. CASE UNCHANGED vars
  <2>1. ASSUME NEW x \in Paths PROVE SeedsOf(x)'
    BY <1>5 DEF Seeds, SeedsOf, Fresh, Held, OfState
  <2>2. ASSUME NEW q \in Pages PROVE Opens(q)'
    BY <1>5 DEF Seeds, Opens
  <2> QED
    BY <2>1, <2>2 DEF Seeds
<1> QED
  BY <1>1, <1>2, <1>3, <1>4, <1>5 DEF Next

\* How often a word is in a text of different words.
LEMMA OnceInText ==
  ASSUME NEW S, OneEach(S), NEW w \in DOMAIN TextOf(S) PROVE TextOf(S)[w] = 1
<1>1. PICK i \in S : i.word = w
  BY DEF TextOf
<1>2. {j \in S : j.word = w} = {i}
  BY <1>1 DEF OneEach
<1>3. Cardinality({i}) = 1
  BY FS_Singleton
<1> QED
  BY <1>1, <1>2, <1>3 DEF TextOf

\* As long as no two pages ask for the state of a file at once, no request fails, no
\* page is switched between the two saves and nobody types into a file that opens: each
\* word of a document, in the room and in every page, is there once, however the pages
\* come, go, connect, restart and save.
THEOREM RoomSeeds == Spec => []SeededOnce
<1>1. Spec => []Typed
  BY InitTyped, StepTyped, PTL DEF Spec
<1> DEFINE I == NoExcuse => Seeds
<1>2. Init => I
  BY InitSeeded
<1>3. Typed /\ Typed' /\ I /\ [Next]_vars => I'
  <2> SUFFICES ASSUME Typed, Typed', I, [Next]_vars, NoExcuse' PROVE Seeds'
    OBVIOUS
  <2>1. NoExcuse
    BY ExcuseGrows DEF NoExcuse
  <2> QED
    BY <2>1, StepSeeded
<1>4. Typed /\ I => SeededOnce
  <2> SUFFICES ASSUME Typed, Seeds, NEW x \in Paths, NEW p \in Pages
               PROVE  /\ \A w \in DOMAIN TextOf(room[x]) : TextOf(room[x])[w] = 1
                      /\ \A w \in DOMAIN TextOf(doc[p]) : TextOf(doc[p])[w] = 1
    BY DEF SeededOnce, NoExcuse
  <2>1. OneEach(room[x])
    BY Has DEF Seeds, SeedsOf, OneEach
  <2>2. OneEach(doc[p])
    <3>1. CASE shown[p] \in Paths
      BY <3>1, Has DEF Seeds, SeedsOf, OneEach
    <3>2. CASE shown[p] = None
      BY <3>2 DEF Typed, Seeds, Opens, OneEach
    <3> QED
      BY <3>1, <3>2 DEF Typed
  <2> QED
    BY <2>1, <2>2, OnceInText
<1> HIDE DEF I
<1> QED
  BY <1>1, <1>2, <1>3, <1>4, PTL DEF Spec

-----------------------------------------------------------------------------
(* What will be stored once the saves on their way have landed.            *)

IsFor(put, what, x) == put.what = what /\ put.path = x
Stored(what, x) == IF what = "state" THEN state[x] ELSE file[x]

\* v is what the last save of x leaves there, or what is there if none is on its way.
Ends(what, x, v) ==
  \/ (\A k \in DOMAIN puts : ~ IsFor(puts[k], what, x)) /\ v = Stored(what, x)
  \/ \E k \in DOMAIN puts : /\ IsFor(puts[k], what, x) /\ puts[k].value = v
                            /\ \A j \in DOMAIN puts : IsFor(puts[j], what, x) => j <= k

\* A save that leaves is what will be stored in the end.
LEMMA PutEnds ==
  ASSUME Typed, NEW what, NEW p \in Pages, NEW v, NEW then, Put(what, p, v, then),
         UNCHANGED stores, NEW w, NEW x
  PROVE  /\ w = what /\ x = shown[p] => /\ Ends(w, x, v)'
                                        /\ \A u : Ends(w, x, u)' => u = v
         /\ ~ (w = what /\ x = shown[p]) => \A u : Ends(w, x, u)' <=> Ends(w, x, u)
<1> DEFINE n == Len(puts)
<1>1. /\ n \in Nat /\ DOMAIN puts = 1..n /\ DOMAIN puts' = 1..(n + 1)
      /\ \A j \in DOMAIN puts : puts'[j] = puts[j]
      /\ puts'[n + 1] = [what |-> what, path |-> shown[p], value |-> v, then |-> then]
  BY PutOrder
<1>2. puts'[n + 1].what = what /\ puts'[n + 1].path = shown[p] /\ puts'[n + 1].value = v
  BY <1>1
<1>3. \A j \in 1..(n + 1) : j \in 1..n \/ j = n + 1
  BY <1>1
<1>4. n + 1 \in 1..(n + 1) /\ \A j \in 1..n : j \in 1..(n + 1) /\ ~ (n + 1 <= j)
  BY <1>1
<1>5. \A j \in 1..(n + 1) : j <= n + 1
  BY <1>1
<1> HIDE DEF n
<1>6. Stored(w, x)' = Stored(w, x)
  BY DEF Stored
<1>7. ASSUME w = what, x = shown[p] PROVE Ends(w, x, v)' /\ \A u : Ends(w, x, u)' => u = v
  <2>1. IsFor(puts'[n + 1], w, x)
    BY <1>2, <1>7 DEF IsFor
  <2>2. Ends(w, x, v)'
    BY <1>1, <1>2, <1>4, <1>5, <2>1 DEF Ends, IsFor
  <2>3. ASSUME NEW u, Ends(w, x, u)' PROVE u = v
    <3>1. PICK k \in DOMAIN puts' : /\ IsFor(puts'[k], w, x) /\ puts'[k].value = u
                                    /\ \A j \in DOMAIN puts' : IsFor(puts'[j], w, x) => j <= k
      BY <1>1, <1>4, <2>1, <2>3 DEF Ends, IsFor
    <3>2. k = n + 1
      BY <1>1, <1>3, <1>4, <2>1, <3>1
    <3> QED
      BY <1>2, <3>1, <3>2
  <2> QED
    BY <2>2, <2>3
<1>8. ASSUME ~ (w = what /\ x = shown[p]), NEW u PROVE Ends(w, x, u)' <=> Ends(w, x, u)
  <2>1. ~ IsFor(puts'[n + 1], w, x)
    BY <1>2, <1>8 DEF IsFor
  <2>2. \A k \in DOMAIN puts' : IsFor(puts'[k], w, x) => k \in DOMAIN puts /\ IsFor(puts[k], w, x)
    BY <1>1, <1>3, <2>1
  <2>3. \A k \in DOMAIN puts : IsFor(puts[k], w, x) => k \in DOMAIN puts' /\ IsFor(puts'[k], w, x)
    BY <1>1, <1>4
  <2> QED
    BY <1>1, <1>6, <2>2, <2>3 DEF Ends, IsFor
<1> QED
  BY <1>7, <1>8

LEMMA PutLast ==
  ASSUME Typed, NEW what, NEW p \in Pages, NEW v, NEW then, Put(what, p, v, then),
         UNCHANGED stores, NEW x, x = shown[p]
  PROVE  /\ \A w, y, u : ~ (w = what /\ y = x) => (Ends(w, y, u)' <=> Ends(w, y, u))
         /\ \A w, y : w = what /\ y = x => Ends(w, y, v)'
         /\ \A w, y, u : w = what /\ y = x /\ Ends(w, y, u)' => u = v
<1>1. ASSUME NEW w, NEW y
      PROVE  /\ w = what /\ y = shown[p] => /\ Ends(w, y, v)'
                                            /\ \A u : Ends(w, y, u)' => u = v
             /\ ~ (w = what /\ y = shown[p]) => \A u : Ends(w, y, u)' <=> Ends(w, y, u)
  BY PutEnds
<1> QED
  BY <1>1

\* Where the k-th of a list is taken out: what the j-th was before, and where it is after.
Was(k, j) == IF j < k THEN j ELSE j + 1
Gets(k, j) == IF j < k THEN j ELSE j - 1

LEMMA Shift ==
  ASSUME NEW n \in Nat, NEW k \in 1..n
  PROVE  /\ n \in 1..n /\ \A j \in 1..n : j <= n /\ (j \in 1..(n - 1) \/ j = n)
         /\ \A j \in 1..(n - 1) : j \in 1..n /\ Was(k, j) \in 1..n /\ Was(k, j) # k /\ ~ (n <= j)
         /\ \A j \in 1..n : j # k => Gets(k, j) \in 1..(n - 1) /\ Was(k, Gets(k, j)) = j
         /\ \A i, j \in 1..(n - 1) : i <= j <=> Was(k, i) <= Was(k, j)
         /\ \A j \in 1..n : j \in 1..(k - 1) \/ k <= j
         /\ \A j \in 1..n : j <= k /\ k <= j => j = k
         /\ k <= k
<1>1. k \in Nat /\ 1 <= k /\ k <= n
  OBVIOUS
<1>2. /\ n \in 1..n /\ k <= k
      /\ \A j \in 1..n : /\ j <= n /\ (j \in 1..(n - 1) \/ j = n) /\ (j \in 1..(k - 1) \/ k <= j)
                        /\ j <= k /\ k <= j => j = k
  BY <1>1
<1>3. ASSUME NEW j \in 1..(n - 1)
      PROVE  j \in 1..n /\ Was(k, j) \in 1..n /\ Was(k, j) # k /\ ~ (n <= j)
  BY <1>1 DEF Was
<1>4. ASSUME NEW j \in 1..n, j # k PROVE Gets(k, j) \in 1..(n - 1) /\ Was(k, Gets(k, j)) = j
  BY <1>1, <1>4 DEF Was, Gets
<1>5. ASSUME NEW i \in 1..(n - 1), NEW j \in 1..(n - 1) PROVE i <= j <=> Was(k, i) <= Was(k, j)
  BY <1>1 DEF Was
<1> QED
  BY <1>2, <1>3, <1>4, <1>5

\* A save that lands, and overtakes none, changes that only by the state that follows.
LEMMA LandEnds ==
  ASSUME Typed, NEW k \in DOMAIN puts, puts' = RemoveAt(puts, k) \o StateAfter(puts[k]),
         \A j \in 1..(k - 1) : ~ IsFor(puts[j], puts[k].what, puts[k].path),
         IF puts[k].what = "state" THEN HandleCollabPutState(puts[k].path, puts[k].value)
         ELSE PutProjectFile(puts[k].path, puts[k].value),
         NEW w \in {"state", "file"}, NEW x \in Paths
  PROVE  IF Follows(puts[k]) /\ IsFor(After(puts[k]), w, x)
         THEN \A u : Ends(w, x, u)' <=> u = doc[puts[k].then]
         ELSE \A u : Ends(w, x, u)' <=> Ends(w, x, u)
<1>0. PICK n \in Nat : n = Len(puts) /\ k \in 1..n
  BY LandOrder
<1>1. /\ n \in Nat /\ DOMAIN puts = 1..n /\ k \in 1..n
      /\ \A j \in 1..(n - 1) : puts'[j] = puts[Was(k, j)]
      /\ Follows(puts[k]) => DOMAIN puts' = 1..n /\ puts'[n] = After(puts[k])
      /\ ~ Follows(puts[k]) => DOMAIN puts' = 1..(n - 1)
  BY <1>0, LandOrder DEF Was
<1>2. n \in 1..n /\ \A j \in 1..n : j <= n /\ (j \in 1..(n - 1) \/ j = n)
  BY <1>1, Shift
<1>3. \A j \in 1..(n - 1) : j \in 1..n /\ Was(k, j) \in 1..n /\ Was(k, j) # k /\ ~ (n <= j)
  BY <1>1, Shift
<1>4. \A j \in 1..n : j # k => Gets(k, j) \in 1..(n - 1) /\ Was(k, Gets(k, j)) = j
  BY <1>1, Shift
<1>5. \A i, j \in 1..(n - 1) : i <= j <=> Was(k, i) <= Was(k, j)
  BY <1>1, Shift
<1>6. \A j \in 1..n : j <= k /\ k <= j => j = k
  BY <1>1, Shift
<1>7. k <= k /\ \A j \in 1..n : IsFor(puts[j], puts[k].what, puts[k].path) => k <= j
  BY <1>1, Shift
<1>9. IF IsFor(puts[k], w, x) THEN Stored(w, x)' = puts[k].value ELSE Stored(w, x)' = Stored(w, x)
  <2>1. puts[k].what \in {"state", "file"} /\ puts[k].path \in Paths
    BY PutFields
  <2>2. CASE puts[k].what = "state"
    BY <2>1, <2>2 DEF Typed, IsFor, Stored, HandleCollabPutState
  <2>3. CASE puts[k].what = "file"
    <3>1. /\ file' = [file EXCEPT ![puts[k].path] = puts[k].value] /\ state' = state
          /\ "file" # "state"
      BY <2>3 DEF PutProjectFile
    <3>2. file'[puts[k].path] = puts[k].value /\ \A y \in Paths : y # puts[k].path => file'[y] = file[y]
      BY <2>1, <3>1 DEF Typed
    <3>3. CASE w = "file"
      BY <2>1, <2>3, <3>1, <3>2, <3>3 DEF IsFor, Stored
    <3>4. CASE w = "state"
      BY <2>1, <2>3, <3>1, <3>2, <3>4 DEF IsFor, Stored
    <3> QED
      BY <3>3, <3>4
  <2> QED
    BY <2>1, <2>2, <2>3
<1>10. CASE Follows(puts[k]) /\ IsFor(After(puts[k]), w, x)
  <2>1. PICK d : d = doc[puts[k].then] /\ After(puts[k]).value = d
    BY DEF After
  <2>2. n \in DOMAIN puts' /\ IsFor(puts'[n], w, x) /\ puts'[n].value = d
    BY <1>1, <1>2, <1>10, <2>1
  <2>3. Ends(w, x, d)'
    BY <1>1, <1>2, <1>10, <2>2 DEF Ends, IsFor
  <2>4. ASSUME NEW u, Ends(w, x, u)' PROVE u = d
    <3>1. PICK i \in DOMAIN puts' : /\ IsFor(puts'[i], w, x) /\ puts'[i].value = u
                                    /\ \A j \in DOMAIN puts' : IsFor(puts'[j], w, x) => j <= i
      BY <2>2, <2>4 DEF Ends, IsFor
    <3>2. i = n
      BY <1>1, <1>2, <1>3, <1>10, <2>2, <3>1
    <3> QED
      BY <2>2, <3>1, <3>2
  <2> QED
    BY <1>10, <2>1, <2>3, <2>4
<1>11. CASE ~ (Follows(puts[k]) /\ IsFor(After(puts[k]), w, x))
  <2>1. \A i \in DOMAIN puts' : IsFor(puts'[i], w, x) =>
           i \in 1..(n - 1) /\ puts'[i] = puts[Was(k, i)] /\ Was(k, i) \in DOMAIN puts
    BY <1>1, <1>2, <1>3, <1>11
  <2>2. \A i \in DOMAIN puts : i # k =>
           Gets(k, i) \in 1..(n - 1) /\ Gets(k, i) \in DOMAIN puts' /\ puts'[Gets(k, i)] = puts[i]
    BY <1>1, <1>3, <1>4
  <2>3. ASSUME NEW u, Ends(w, x, u) PROVE Ends(w, x, u)'
    <3>1. CASE (\A i \in DOMAIN puts : ~ IsFor(puts[i], w, x)) /\ u = Stored(w, x)
      <4>1. \A i \in DOMAIN puts' : ~ IsFor(puts'[i], w, x)
        BY <2>1, <3>1
      <4>2. u = Stored(w, x)'
        BY <1>9, <3>1
      <4> QED
        BY <4>1, <4>2 DEF Ends, IsFor
    <3>2. CASE \E i \in DOMAIN puts : /\ IsFor(puts[i], w, x) /\ puts[i].value = u
                                      /\ \A j \in DOMAIN puts : IsFor(puts[j], w, x) => j <= i
      <4>1. PICK i \in DOMAIN puts : /\ IsFor(puts[i], w, x) /\ puts[i].value = u
                                     /\ \A j \in DOMAIN puts : IsFor(puts[j], w, x) => j <= i
        BY <3>2
      <4>2. CASE i = k
        <5>1. \A j \in DOMAIN puts : IsFor(puts[j], w, x) => j = k
          <6>1. \A j \in 1..n : IsFor(puts[j], w, x) => j <= k /\ k <= j
            BY <1>1, <1>7, <4>1, <4>2 DEF IsFor
          <6> QED
            BY <1>1, <1>6, <6>1
        <5>2. \A j \in DOMAIN puts' : ~ IsFor(puts'[j], w, x)
          BY <1>3, <2>1, <5>1
        <5>3. u = Stored(w, x)'
          BY <1>9, <4>1, <4>2
        <5> QED
          BY <5>2, <5>3 DEF Ends, IsFor
      <4>3. CASE i # k
        <5>1. /\ Gets(k, i) \in DOMAIN puts' /\ puts'[Gets(k, i)] = puts[i] /\ Gets(k, i) \in 1..(n - 1)
              /\ Was(k, Gets(k, i)) = i
          BY <1>1, <1>4, <2>2, <4>3
        <5>2. \A j \in DOMAIN puts' : IsFor(puts'[j], w, x) => j <= Gets(k, i)
          BY <1>5, <2>1, <4>1, <5>1
        <5> QED
          BY <4>1, <5>1, <5>2 DEF Ends, IsFor
      <4> QED
        BY <4>2, <4>3
    <3> QED
      BY <2>3, <3>1, <3>2 DEF Ends
  <2>4. ASSUME NEW u, Ends(w, x, u)' PROVE Ends(w, x, u)
    <3>1. CASE (\A i \in DOMAIN puts' : ~ IsFor(puts'[i], w, x)) /\ u = Stored(w, x)'
      <4>1. \A i \in DOMAIN puts : i # k => ~ IsFor(puts[i], w, x)
        BY <2>2, <3>1
      <4>2. CASE IsFor(puts[k], w, x)
        <5>1. \A j \in DOMAIN puts : IsFor(puts[j], w, x) => j = k /\ k <= k
          BY <1>1, <4>1
        <5> QED
          BY <1>9, <3>1, <4>2, <5>1 DEF Ends
      <4>3. CASE ~ IsFor(puts[k], w, x)
        BY <1>9, <3>1, <4>1, <4>3 DEF Ends
      <4> QED
        BY <4>2, <4>3
    <3>2. CASE \E i \in DOMAIN puts' : /\ IsFor(puts'[i], w, x) /\ puts'[i].value = u
                                       /\ \A j \in DOMAIN puts' : IsFor(puts'[j], w, x) => j <= i
      <4>1. PICK i \in DOMAIN puts' : /\ IsFor(puts'[i], w, x) /\ puts'[i].value = u
                                      /\ \A j \in DOMAIN puts' : IsFor(puts'[j], w, x) => j <= i
        BY <3>2
      <4>2. /\ i \in 1..(n - 1) /\ puts'[i] = puts[Was(k, i)] /\ Was(k, i) \in DOMAIN puts
        BY <2>1, <4>1
      <4>3. ASSUME NEW j \in DOMAIN puts, IsFor(puts[j], w, x) PROVE j <= Was(k, i)
        <5>1. CASE j = k
          BY <1>1, <1>7, <4>1, <4>2, <4>3, <5>1 DEF IsFor
        <5>2. CASE j # k
          <6>1. /\ Gets(k, j) \in DOMAIN puts' /\ IsFor(puts'[Gets(k, j)], w, x) /\ Gets(k, j) \in 1..(n - 1)
                /\ Was(k, Gets(k, j)) = j
            BY <1>1, <1>4, <2>2, <4>3, <5>2
          <6> QED
            BY <1>5, <4>1, <4>2, <6>1
        <5> QED
          BY <5>1, <5>2
      <4> QED
        BY <4>1, <4>2, <4>3 DEF Ends
    <3> QED
      BY <2>4, <3>1, <3>2 DEF Ends, IsFor
  <2> QED
    BY <1>11, <2>3, <2>4
<1> QED
  BY <1>10, <1>11

-----------------------------------------------------------------------------
(* What is typed is kept.                                                  *)

Clean == excuse \subseteq {"raced"}

BoundTo(p, x) == stage[p] = "bound" /\ shown[p] = x
Somebody(x) == \E p \in Pages : BoundTo(p, x)

\* Every page that has opened x shows what the room and the others have.
Together(x) ==
  \A p \in Pages : BoundTo(p, x) =>
     room[x] \subseteq doc[p] /\ \A q \in Pages : BoundTo(q, x) => doc[q] \subseteq doc[p]

Somewhere(i, x) == i \in room[x] \/ \E p \in Pages : BoundTo(p, x) /\ i \in doc[p]

\* The page will save the state, or the file, once more.
StateDue(p) == \/ "state" \in timers[p] \/ "autosave" \in timers[p]
               \/ \E k \in DOMAIN puts : puts[k].then = p
FileDue(p) == "file" \in timers[p] \/ "autosave" \in timers[p]

StateSaved(x) ==
  \A s : Ends("state", x, s) /\ Together(x) /\ (\A p \in Pages : BoundTo(p, x) => ~ StateDue(p))
           => \A p \in Pages : BoundTo(p, x) => s = doc[p]
FileSaved(x) ==
  \A f : Ends("file", x, f) /\ Together(x) /\ (\A p \in Pages : BoundTo(p, x) => ~ FileDue(p))
           => \A p \in Pages : BoundTo(p, x) => TextOf(f) = TextOf(doc[p])

AllThere(x) ==
  Somebody(x) =>
    /\ \A i \in typed[x] : Somewhere(i, x)
    /\ \A p \in Pages : ~ BoundTo(p, x) /\ model[p][x] # None =>
                           \A i \in model[p][x] : Somewhere(i, x)

\* The room no longer has what is stored, and no page that opens the file starts from
\* anything else.
Parked(x, s) ==
  /\ \A k \in DOMAIN puts : ~ IsFor(puts[k], "state", x)
  /\ \A q \in Pages : shown[q] = x => /\ stage[q] # "file"
                                      /\ stage[q] = "connect" => s \subseteq doc[q]

\* When no page has x open, all of it is stored, or will be when the saves have landed.
AllStored(x) ==
  ~ Somebody(x) =>
    /\ \A s : Ends("state", x, s) =>
         /\ typed[x] # {} => s # None /\ typed[x] \subseteq s
         /\ \A p \in Pages : model[p][x] \notin {None, {}} => s # None /\ model[p][x] \subseteq s
         /\ s # None => s \subseteq room[x] \/ Parked(x, s)
    /\ \A s, f : Ends("state", x, s) /\ Ends("file", x, f) /\ s # None => TextOf(s) = TextOf(f)

IsText(S) == IsFiniteSet(S) /\ S # {}

KeptOf(x) ==
  /\ StateSaved(x) /\ FileSaved(x) /\ AllThere(x) /\ AllStored(x)
  /\ (\E s : Ends("state", x, s)) /\ (\E f : Ends("file", x, f))
  /\ IsText(file[x]) /\ IsFiniteSet(room[x]) /\ (state[x] # None => IsText(state[x]))

PageKept(p) ==
  /\ stage[p] # "again" /\ (stage[p] \in {"state", "file", "away"} => doc[p] = {})
  /\ stage[p] \in {"connect", "bound"} => IsText(doc[p])
  /\ timers[p] # {} => stage[p] = "bound"
  /\ stage[p] = "bound" => model[p][shown[p]] = doc[p]

PutKept(put) ==
  /\ IsText(put.value)
  /\ put.then # None => put.what = "file" /\ BoundTo(put.then, put.path)

Kept ==
  /\ \A x \in Paths : KeptOf(x)
  /\ \A p \in Pages : PageKept(p)
  /\ \A k \in DOMAIN puts : PutKept(puts[k])

\* A step that does nothing to the documents, the stores and the saves of x.
LEMMA StillKept ==
  ASSUME Typed, NEW x \in Paths, KeptOf(x),
         \A w \in {"state", "file"} : \A u : Ends(w, x, u)' <=> Ends(w, x, u),
         room'[x] = room[x], typed'[x] = typed[x],
         \A q \in Pages : BoundTo(q, x)' <=> BoundTo(q, x),
         \A q \in Pages : BoundTo(q, x) =>
            doc'[q] = doc[q] /\ (StateDue(q) => StateDue(q)') /\ (FileDue(q) => FileDue(q)'),
         \A q \in Pages : ~ BoundTo(q, x) => model'[q][x] = model[q][x] \/ model'[q][x] \in {None, {}},
         \A s : ~ Somebody(x) /\ Ends("state", x, s) /\ s # None /\ ~ s \subseteq room[x] /\ Parked(x, s)
                   => Parked(x, s)',
         IsText(file'[x]), state'[x] # None => IsText(state'[x])
  PROVE  KeptOf(x)'
<1>1. Somebody(x)' <=> Somebody(x)
  BY DEF Somebody
<1>2. Together(x)' => Together(x)
  BY DEF Together
<1>3. \A i : Somewhere(i, x) => Somewhere(i, x)'
  BY DEF Somewhere
<1>4. StateSaved(x)'
  BY <1>2 DEF StateSaved, KeptOf
<1>5. FileSaved(x)'
  BY <1>2 DEF FileSaved, KeptOf
<1>6. AllThere(x)'
  BY <1>1, <1>3 DEF AllThere, KeptOf
<1>7. AllStored(x)'
  <2> SUFFICES ASSUME ~ Somebody(x) PROVE AllStored(x)'
    BY <1>1 DEF AllStored
  <2>1. ASSUME NEW s, Ends("state", x, s)
        PROVE  /\ typed'[x] # {} => s # None /\ typed'[x] \subseteq s
               /\ \A p \in Pages : model'[p][x] \notin {None, {}} => s # None /\ model'[p][x] \subseteq s
               /\ s # None => s \subseteq room'[x] \/ Parked(x, s)'
    BY <2>1 DEF AllStored, KeptOf, Somebody
  <2>2. ASSUME NEW s, NEW f, Ends("state", x, s), Ends("file", x, f), s # None
        PROVE  TextOf(s) = TextOf(f)
    BY <2>2 DEF AllStored, KeptOf
  <2> QED
    BY <2>1, <2>2 DEF AllStored
<1> QED
  BY <1>4, <1>5, <1>6, <1>7 DEF KeptOf

LEMMA SameEnds ==
  ASSUME UNCHANGED <<stores, puts>>, NEW w, NEW x, NEW u PROVE Ends(w, x, u)' <=> Ends(w, x, u)
BY DEF Ends, Stored, IsFor

\* A page leaves a document that is all sent, all saved and not behind.
LEMMA GoesKept ==
  ASSUME Typed, Kept, NEW p \in Pages, NEW y \in Paths \cup {None}, NEW s \in {"state", "away"},
         LeavesFor(p, y, s), UNCHANGED <<file, typed>>, ~ Unsaved(p),
         \A x \in Paths : model'[p][x] = model[p][x] \/ model'[p][x] \in {None, {}},
         None \notin Texts
  PROVE  Kept'
<1>0. UNCHANGED <<file, state, room, puts, typed>>
  BY DEF LeavesFor
<1>1. ASSUME NEW q \in Pages
      PROVE  /\ q # p => doc'[q] = doc[q] /\ shown'[q] = shown[q] /\ stage'[q] = stage[q]
                         /\ timers'[q] = timers[q] /\ model'[q] = model[q]
             /\ doc'[p] = {} /\ shown'[p] = y /\ stage'[p] = s /\ timers'[p] = {}
  BY DEF Typed, LeavesFor
<1>2. timers[p] = {} /\ \A k \in DOMAIN puts : puts[k].then # p
  BY DEF Unsaved
<1>3. \A x \in Paths : BoundTo(p, x) =>
         doc[p] = room[x] /\ \A q \in Pages : BoundTo(q, x) => doc[q] \subseteq doc[p]
  BY DEF Unsaved, BoundTo, Showing
<1>4. \A w, x, u : Ends(w, x, u)' <=> Ends(w, x, u)
  BY <1>0, SameEnds
<1>5. ASSUME NEW x \in Paths, ~ BoundTo(p, x) PROVE KeptOf(x)'
  <2>1. KeptOf(x)
    BY DEF Kept
  <2>2. \A q \in Pages : BoundTo(q, x)' <=> BoundTo(q, x)
    BY <1>1, <1>5 DEF BoundTo
  <2>3. \A q \in Pages : BoundTo(q, x) =>
           doc'[q] = doc[q] /\ (StateDue(q) => StateDue(q)') /\ (FileDue(q) => FileDue(q)')
    BY <1>0, <1>1, <1>5 DEF StateDue, FileDue
  <2>4. \A q \in Pages : ~ BoundTo(q, x) => model'[q][x] = model[q][x] \/ model'[q][x] \in {None, {}}
    BY <1>1
  <2>5. \A t : Parked(x, t) => Parked(x, t)'
    BY <1>0, <1>1 DEF Parked, IsFor
  <2> QED
    BY <1>0, <1>4, <2>1, <2>2, <2>3, <2>4, <2>5, StillKept DEF KeptOf
<1>6. ASSUME NEW x \in Paths, BoundTo(p, x) PROVE KeptOf(x)'
  <2>1. StateSaved(x) /\ FileSaved(x) /\ AllThere(x) /\ Somebody(x)
    BY <1>6 DEF Kept, KeptOf, Somebody
  <2>2. \A q \in Pages : BoundTo(q, x)' <=> BoundTo(q, x) /\ q # p
    BY <1>1, <1>6 DEF BoundTo
  <2>3. \A q \in Pages : BoundTo(q, x)' =>
           doc'[q] = doc[q] /\ (StateDue(q) => StateDue(q)') /\ (FileDue(q) => FileDue(q)')
    BY <1>0, <1>1, <2>2 DEF StateDue, FileDue
  <2>4. ~ StateDue(p) /\ ~ FileDue(p)
    BY <1>2 DEF StateDue, FileDue
  <2>5. Together(x)' => Together(x)
    BY <1>0, <1>3, <1>6, <2>2, <2>3 DEF Together
  <2>6. StateSaved(x)'
    BY <1>4, <2>1, <2>2, <2>3, <2>4, <2>5 DEF StateSaved
  <2>7. FileSaved(x)'
    BY <1>4, <2>1, <2>2, <2>3, <2>4, <2>5 DEF FileSaved
  <2>8. \A i : Somewhere(i, x) => i \in room[x] \/ \E q \in Pages : BoundTo(q, x) /\ q # p /\ i \in doc[q]
    BY <1>3, <1>6 DEF Somewhere
  <2>9. \A i : Somewhere(i, x) => Somewhere(i, x)'
    BY <1>0, <2>2, <2>3, <2>8 DEF Somewhere
  <2>10. model[p][x] = doc[p] /\ doc[p] = room[x] /\ doc[p] \in Texts
    BY <1>3, <1>6 DEF Kept, PageKept, BoundTo, Typed
  <2>11. \A q \in Pages : ~ BoundTo(q, x)' => /\ q # p => ~ BoundTo(q, x) /\ model'[q] = model[q]
                                              /\ q = p => model'[q][x] \in {room[x], None, {}}
    BY <1>1, <2>2, <2>10
  <2>12. AllThere(x)'
    <3>1. ASSUME NEW q \in Pages, ~ BoundTo(q, x)', model'[q][x] # None, NEW i \in model'[q][x]
          PROVE  Somewhere(i, x)
      <4>1. CASE q = p
        <5>1. i \in room[x]
          BY <2>10, <3>1, <4>1
        <5> QED
          BY <5>1 DEF Somewhere
      <4>2. CASE q # p
        <5>1. ~ BoundTo(q, x) /\ model'[q] = model[q]
          BY <1>1, <2>2, <3>1, <4>2
        <5> QED
          BY <2>1, <3>1, <5>1 DEF AllThere
      <4> QED
        BY <4>1, <4>2
    <3> QED
      BY <1>0, <2>1, <2>9, <3>1 DEF AllThere
  <2>13. AllStored(x)'
    <3> SUFFICES ASSUME ~ Somebody(x)' PROVE AllStored(x)'
      BY DEF AllStored
    <3>1. \A q \in Pages : BoundTo(q, x) => q = p
      BY <2>2 DEF Somebody
    <3>2. Together(x)
      BY <1>3, <1>6, <3>1 DEF Together
    <3>3. ASSUME NEW t, Ends("state", x, t) PROVE t = doc[p]
      BY <1>6, <2>1, <2>4, <3>1, <3>2, <3>3 DEF StateSaved
    <3>4. ASSUME NEW f, Ends("file", x, f) PROVE TextOf(f) = TextOf(doc[p])
      BY <1>6, <2>1, <2>4, <3>1, <3>2, <3>4 DEF FileSaved
    <3>5. \A i : Somewhere(i, x) => i \in doc[p]
      BY <1>3, <1>6, <3>1 DEF Somewhere
    <3>6. typed[x] \subseteq doc[p]
      BY <2>1, <3>5 DEF AllThere
    <3>7. \A q \in Pages : model'[q][x] \notin {None, {}} => model'[q][x] \subseteq doc[p]
      <4>1. ASSUME NEW q \in Pages, model'[q][x] \notin {None, {}} PROVE model'[q][x] \subseteq doc[p]
        <5>1. CASE q = p
          BY <2>10, <2>11, <3>1, <2>2, <4>1, <5>1
        <5>2. CASE q # p
          <6>1. ~ BoundTo(q, x) /\ model'[q] = model[q]
            BY <1>1, <3>1, <5>2
          <6>2. \A i \in model[q][x] : Somewhere(i, x)
            BY <2>1, <4>1, <6>1 DEF AllThere
          <6> QED
            BY <3>5, <6>1, <6>2
        <5> QED
          BY <5>1, <5>2
      <4> QED
        BY <4>1
    <3>8. doc[p] # None
      BY <2>10
    <3> QED
      BY <1>0, <1>4, <2>10, <3>3, <3>4, <3>6, <3>7, <3>8 DEF AllStored
  <2> QED
    BY <1>0, <1>4, <2>6, <2>7, <2>12, <2>13 DEF Kept, KeptOf
<1>7. ASSUME NEW q \in Pages PROVE PageKept(q)'
  BY <1>1 DEF Kept, PageKept
<1>8. ASSUME NEW k \in DOMAIN puts PROVE PutKept(puts[k])'
  BY <1>0, <1>1, <1>2, PutFields DEF Kept, PutKept, BoundTo
<1> QED
  BY <1>0, <1>5, <1>6, <1>7, <1>8 DEF Kept

LEMMA ShowKept ==
  ASSUME Typed, Kept, NEW p \in Pages, NEW x \in Paths, Show(p, x), Clean', None \notin Texts
  PROVE  Kept'
<1>1. LeavesFor(p, x, "state") /\ UNCHANGED <<file, typed>>
  BY DEF Show, Cleanup, Typed, LeavesFor
<1>2. ~ Unsaved(p)
  BY DEF Show, Cleanup, Clean
<1>3. \A y \in Paths : model'[p][y] = model[p][y] \/ model'[p][y] \in {None, {}}
  BY DEF Show, Typed
<1> QED
  BY <1>1, <1>2, <1>3, GoesKept DEF LeavesFor

LEMMA LeaveKept ==
  ASSUME Typed, Kept, NEW p \in Pages, Leave(p), Clean', None \notin Texts
  PROVE  Kept'
<1>1. LeavesFor(p, None, "away") /\ UNCHANGED <<file, typed>>
  BY DEF Leave, Cleanup, Typed, LeavesFor
<1>2. ~ Unsaved(p)
  BY DEF Leave, Cleanup, Clean
<1>3. \A y \in Paths : model'[p][y] = model[p][y] \/ model'[p][y] \in {None, {}}
  BY DEF Leave, Typed
<1> QED
  BY <1>1, <1>2, <1>3, GoesKept DEF LeavesFor

LEMMA ConnectKept ==
  ASSUME Typed, Kept, NEW p \in Pages, Connect(p) \/ Disconnect(p) PROVE Kept'
<1>1. UNCHANGED <<file, state, room, shown, stage, doc, model, timers, puts, typed>>
  BY DEF Connect, Disconnect
<1>2. \A w, x, u : Ends(w, x, u)' <=> Ends(w, x, u)
  BY <1>1, SameEnds
<1>3. ASSUME NEW x \in Paths PROVE KeptOf(x)'
  <2>1. KeptOf(x)
    BY DEF Kept
  <2>2. \A q \in Pages : /\ BoundTo(q, x)' <=> BoundTo(q, x)
                         /\ StateDue(q)' <=> StateDue(q)
                         /\ FileDue(q)' <=> FileDue(q)
    BY <1>1 DEF BoundTo, StateDue, FileDue
  <2>3. \A t : Parked(x, t)' <=> Parked(x, t)
    BY <1>1 DEF Parked, IsFor
  <2> QED
    BY <1>1, <1>2, <2>1, <2>2, <2>3, StillKept DEF KeptOf
<1>4. ASSUME NEW q \in Pages PROVE PageKept(q)'
  BY <1>1 DEF Kept, PageKept
<1>5. ASSUME NEW k \in DOMAIN puts PROVE PutKept(puts[k])'
  BY <1>1 DEF Kept, PutKept, BoundTo
<1> QED
  BY <1>1, <1>3, <1>4, <1>5 DEF Kept

\* A page opens its file: no page that has opened one is concerned.
LEMMA OpenKept ==
  ASSUME Typed, Kept, NEW p \in Pages, stage[p] \in {"state", "file"},
         NEW s \in {"file", "connect"}, NEW d, stage' = [stage EXCEPT ![p] = s], doc' = [doc EXCEPT ![p] = d],
         UNCHANGED <<file, state, room, shown, model, timers, puts, typed>>,
         s = "file" => d = {} /\ state[shown[p]] = None,
         s = "connect" => IsText(d) /\ (stage[p] = "state" => d = state[shown[p]])
  PROVE  Kept'
<1>1. /\ stage'[p] = s /\ doc'[p] = d
      /\ \A q \in Pages : q # p => stage'[q] = stage[q] /\ doc'[q] = doc[q]
  BY DEF Typed
<1>2. \A w, x, u : Ends(w, x, u)' <=> Ends(w, x, u)
  BY SameEnds
<1>3. ASSUME NEW x \in Paths PROVE KeptOf(x)'
  <2>1. KeptOf(x)
    BY DEF Kept
  <2>2. \A q \in Pages : /\ BoundTo(q, x)' <=> BoundTo(q, x)
                         /\ BoundTo(q, x) => doc'[q] = doc[q]
                         /\ StateDue(q)' <=> StateDue(q)
                         /\ FileDue(q)' <=> FileDue(q)
    BY <1>1 DEF BoundTo, StateDue, FileDue
  <2>3. ASSUME NEW t, Ends("state", x, t), t # None, Parked(x, t) PROVE Parked(x, t)'
    <3>1. t = state[x]
      BY <2>3 DEF Ends, Parked, Stored
    <3>2. ASSUME NEW q \in Pages, shown[q] = x
          PROVE  stage'[q] # "file" /\ (stage'[q] = "connect" => t \subseteq doc'[q])
      <4>1. CASE q # p
        BY <1>1, <2>3, <3>2, <4>1 DEF Parked
      <4>2. CASE q = p
        BY <1>1, <2>3, <3>1, <3>2, <4>2 DEF Parked
      <4> QED
        BY <4>1, <4>2
    <3> QED
      BY <2>3, <3>2 DEF Parked, IsFor
  <2> QED
    BY <1>2, <2>1, <2>2, <2>3, StillKept DEF KeptOf
<1>4. ASSUME NEW q \in Pages PROVE PageKept(q)'
  BY <1>1 DEF Kept, PageKept, IsText
<1>5. ASSUME NEW k \in DOMAIN puts PROVE PutKept(puts[k])'
  <2>1. PutKept(puts[k]) /\ puts[k].then \in Pages \cup {None}
    BY PutFields DEF Kept
  <2> QED
    BY <1>1, <2>1 DEF PutKept, BoundTo
<1> QED
  BY <1>3, <1>4, <1>5 DEF Kept

LEMMA GetStateKept ==
  ASSUME Typed, Kept, NEW p \in Pages, GetState(p), Clean' PROVE Kept'
<1>1. /\ stage[p] = "state" /\ shown[p] \in Paths /\ doc[p] = {}
      /\ UNCHANGED <<file, state, room, shown, model, timers, puts, typed>>
  BY DEF GetState, Typed, Kept, PageKept
<1>2. CASE state[shown[p]] # None /\ Start(p, state[shown[p]])
  <2>1. PICK d : d = state[shown[p]]
    OBVIOUS
  <2>2. IsText(d)
    BY <1>1, <1>2, <2>1 DEF Kept, KeptOf
  <2>3. stage' = [stage EXCEPT ![p] = "connect"] /\ doc' = [doc EXCEPT ![p] = d]
    BY <1>2, <2>1 DEF Start
  <2> QED
    BY <1>1, <2>1, <2>2, <2>3, OpenKept
<1>3. CASE ~ (state[shown[p]] # None /\ Start(p, state[shown[p]]))
  <2>1. stage' = [stage EXCEPT ![p] = "file"] /\ doc' = doc /\ state[shown[p]] = None
    BY <1>3 DEF GetState, Clean
  <2>2. doc' = [doc EXCEPT ![p] = {}]
    BY <1>1, <2>1 DEF Typed
  <2> QED
    BY <1>1, <2>1, <2>2, OpenKept
<1> QED
  BY <1>2, <1>3

LEMMA InsertedText ==
  ASSUME NEW x \in Paths, IsText(file[x]), NEW c \in Nat PROVE IsText(Inserted(x, c))
<1>1. IsFiniteSet(Inserted(x, c))
  <2> DEFINE T == Inserted(x, c)
             f == [i \in file[x] |-> [i EXCEPT !.through = Append(@, c)]]
  <2>1. f \in Surjection(file[x], T)
    BY DEF Surjection, Inserted
  <2> HIDE DEF f, T
  <2>2. IsFiniteSet(T)
    BY <2>1, FS_Surjection DEF IsText
  <2> QED
    BY <2>2 DEF T
<1>2. Inserted(x, c) # {}
  BY DEF IsText, Inserted
<1> QED
  BY <1>1, <1>2 DEF IsText

LEMMA GetFileKept ==
  ASSUME Typed, Kept, NEW p \in Pages, GetFile(p), Clean' PROVE Kept'
<1>1. /\ stage[p] = "file" /\ shown[p] \in Paths /\ client[p] \in Nat
      /\ UNCHANGED <<file, state, room, shown, model, timers, puts, typed>>
  BY DEF GetFile, Typed, Kept, PageKept
<1>2. Start(p, Inserted(shown[p], client[p]))
  BY DEF GetFile, Clean, Inserted
<1>3. PICK d : d = Inserted(shown[p], client[p])
  OBVIOUS
<1>4. IsText(d)
  BY <1>1, <1>3, InsertedText DEF Kept, KeptOf
<1>5. stage' = [stage EXCEPT ![p] = "connect"] /\ doc' = [doc EXCEPT ![p] = d]
  BY <1>2, <1>3 DEF Start
<1> QED
  BY <1>1, <1>4, <1>5, OpenKept

\* Of two finite documents, one within the other, only equal ones have the same text.
LEMMA SameText ==
  ASSUME NEW A, NEW B, A \subseteq B, IsFiniteSet(B), TextOf(A) = TextOf(B) PROVE A = B
<1> SUFFICES ASSUME NEW i \in B, i \notin A PROVE FALSE
  OBVIOUS
<1> DEFINE w == i.word
           a == {j \in A : j.word = w}
           b == {j \in B : j.word = w}
<1>1. w \in DOMAIN TextOf(B) /\ TextOf(B)[w] = Cardinality(b)
  BY DEF TextOf
<1>2. w \in DOMAIN TextOf(A) /\ TextOf(A)[w] = Cardinality(a)
  <2>1. w \in DOMAIN TextOf(A)
    BY <1>1
  <2>2. TextOf(A) = [v \in {j.word : j \in A} |-> Cardinality({j \in A : j.word = v})]
    BY DEF TextOf
  <2>3. w \in {j.word : j \in A}
    BY <2>1, <2>2
  <2> QED
    BY <2>1, <2>2, <2>3
<1>3. IsFiniteSet(b) /\ a \in SUBSET b
  BY FS_Subset
<1>4. a = b
  BY <1>1, <1>2, <1>3, FS_Subset
<1> QED
  BY <1>4

\* A page that binds the document of the file it opened: the editor's text is replaced,
\* and saved, when it is another one.
LEMMA BindKept ==
  ASSUME Typed, Kept, NEW p \in Pages, Bind(p), None \notin Texts PROVE Kept'
<1>1. /\ stage[p] = "connect" /\ stage' = [stage EXCEPT ![p] = "bound"]
      /\ UNCHANGED <<file, state, room, shown, doc, puts, typed>>
  BY DEF Bind
<1>2. PICK x \in Paths : x = shown[p]
  BY <1>1 DEF Typed
<1>3. /\ model' = [model EXCEPT ![p][x] = doc[p]]
      /\ timers' = [timers EXCEPT ![p] = @ \cup
                      IF TextOf(model[p][x]) = TextOf(doc[p]) THEN {} ELSE {"autosave"}]
  BY <1>2 DEF Bind
<1>4. IsText(doc[p]) /\ doc[p] \in Texts /\ model[p][x] \in Texts
  BY <1>1, <1>2 DEF Kept, PageKept, Typed
<1>5. ASSUME NEW q \in Pages
      PROVE  /\ q # p => stage'[q] = stage[q] /\ timers'[q] = timers[q] /\ model'[q] = model[q]
             /\ stage'[p] = "bound" /\ model'[p][x] = doc[p]
             /\ TextOf(model[p][x]) # TextOf(doc[p]) => "autosave" \in timers'[p]
             /\ timers[q] \subseteq timers'[q]
             /\ \A y \in Paths : y # x => model'[q][y] = model[q][y]
  <2>1. model[p] \in [Paths -> Texts \cup {None}] /\ timers[p] \subseteq timers'[p]
    BY <1>3 DEF Typed
  <2>2. model'[p] = [model[p] EXCEPT ![x] = doc[p]]
    BY <1>3 DEF Typed
  <2> QED
    BY <1>1, <1>2, <1>3, <2>1, <2>2 DEF Typed
<1>6. \A w, y, u : Ends(w, y, u)' <=> Ends(w, y, u)
  BY <1>1, SameEnds
<1>7. \A q \in Pages, y \in Paths : BoundTo(q, y)' <=> BoundTo(q, y) \/ (q = p /\ y = x)
  BY <1>1, <1>2, <1>5 DEF BoundTo
<1>8. \A q \in Pages : /\ StateDue(q) => StateDue(q)'
                       /\ FileDue(q) => FileDue(q)'
  BY <1>1, <1>5 DEF StateDue, FileDue
<1>9. ASSUME NEW y \in Paths, y # x PROVE KeptOf(y)'
  <2>1. KeptOf(y)
    BY DEF Kept
  <2>2. \A q \in Pages : BoundTo(q, y)' <=> BoundTo(q, y)
    BY <1>7, <1>9
  <2>3. \A t : Parked(y, t) => Parked(y, t)'
    BY <1>1, <1>2, <1>5, <1>9 DEF Parked, IsFor
  <2>4. \A q \in Pages : model'[q][y] = model[q][y]
    BY <1>5, <1>9
  <2> QED
    BY <1>1, <1>6, <1>8, <2>1, <2>2, <2>3, <2>4, StillKept DEF KeptOf
<1>10. KeptOf(x)'
  <2>1. KeptOf(x) /\ BoundTo(p, x)' /\ Somebody(x)' /\ ~ BoundTo(p, x)
    BY <1>1, <1>7 DEF Kept, Somebody, BoundTo
  <2>2. Together(x)' => Together(x) /\ room[x] \subseteq doc[p]
                        /\ \A q \in Pages : BoundTo(q, x) => doc[q] = doc[p]
    BY <1>1, <1>7, <2>1 DEF Together
  <2>3. ASSUME ~ Somebody(x), NEW s, Ends("state", x, s)
        PROVE  /\ \A i \in s : s # None => i \in room[x] \/ i \in doc[p]
               /\ typed[x] # {} => s # None /\ typed[x] \subseteq s
               /\ \A q \in Pages : model[q][x] \notin {None, {}} => s # None /\ model[q][x] \subseteq s
    <3>1. s # None => s \subseteq room[x] \/ s \subseteq doc[p]
      BY <1>1, <1>2, <2>1, <2>3 DEF KeptOf, AllStored, Parked
    <3> QED
      BY <2>1, <2>3, <3>1 DEF KeptOf, AllStored
  <2>4. ASSUME ~ Somebody(x), room[x] \subseteq doc[p], TextOf(model[p][x]) = TextOf(doc[p]),
               NEW s, Ends("state", x, s)
        PROVE  s # None /\ s = doc[p]
    <3>1. IsFiniteSet(doc[p]) /\ doc[p] # {}
      BY <1>4 DEF IsText
    <3>2. model[p][x] # {}
      BY <2>4, <3>1, SameText
    <3>3. s # None /\ model[p][x] \subseteq s
      BY <1>4, <2>3, <2>4, <3>2
    <3>4. s \subseteq doc[p]
      BY <2>3, <2>4, <3>3
    <3>5. model[p][x] = doc[p]
      BY <2>4, <3>1, <3>3, <3>4, SameText
    <3> QED
      BY <3>3, <3>4, <3>5
  <2>5. ASSUME Together(x)', \A q \in Pages : BoundTo(q, x)' => ~ StateDue(q)', NEW s, Ends("state", x, s)
        PROVE  \A q \in Pages : BoundTo(q, x)' => s = doc[q]
    <3>1. TextOf(model[p][x]) = TextOf(doc[p])
      BY <1>5, <2>1, <2>5 DEF StateDue
    <3>2. s = doc[p]
      <4>1. CASE Somebody(x)
        <5>1. PICK q \in Pages : BoundTo(q, x)
          BY <4>1 DEF Somebody
        <5>2. \A r \in Pages : BoundTo(r, x) => ~ StateDue(r)
          BY <1>7, <1>8, <2>5
        <5> QED
          BY <2>1, <2>2, <2>5, <5>1, <5>2 DEF KeptOf, StateSaved
      <4>2. CASE ~ Somebody(x)
        BY <2>2, <2>4, <2>5, <3>1, <4>2
      <4> QED
        BY <4>1, <4>2
    <3> QED
      BY <1>7, <2>2, <2>5, <3>2
  <2>6. ASSUME Together(x)', \A q \in Pages : BoundTo(q, x)' => ~ FileDue(q)', NEW f, Ends("file", x, f)
        PROVE  \A q \in Pages : BoundTo(q, x)' => TextOf(f) = TextOf(doc[q])
    <3>1. TextOf(model[p][x]) = TextOf(doc[p])
      BY <1>5, <2>1, <2>6 DEF FileDue
    <3>2. TextOf(f) = TextOf(doc[p])
      <4>1. CASE Somebody(x)
        <5>1. PICK q \in Pages : BoundTo(q, x)
          BY <4>1 DEF Somebody
        <5>2. \A r \in Pages : BoundTo(r, x) => ~ FileDue(r)
          BY <1>7, <1>8, <2>6
        <5> QED
          BY <2>1, <2>2, <2>6, <5>1, <5>2 DEF KeptOf, FileSaved
      <4>2. CASE ~ Somebody(x)
        <5>1. PICK s : Ends("state", x, s)
          BY <2>1 DEF KeptOf
        <5>2. s # None /\ s = doc[p]
          BY <2>2, <2>4, <2>6, <3>1, <4>2, <5>1
        <5>3. TextOf(s) = TextOf(f)
          BY <2>1, <2>6, <4>2, <5>1, <5>2 DEF KeptOf, AllStored
        <5> QED
          BY <5>2, <5>3
      <4> QED
        BY <4>1, <4>2
    <3> QED
      BY <1>7, <2>2, <2>6, <3>2
  <2>7. \A i : Somewhere(i, x) \/ i \in room[x] \/ i \in doc[p] => Somewhere(i, x)'
    BY <1>1, <1>7, <2>1 DEF Somewhere
  <2>8. /\ \A i \in typed[x] : Somewhere(i, x)'
        /\ \A q \in Pages : ~ BoundTo(q, x)' /\ model[q][x] # None => \A i \in model[q][x] : Somewhere(i, x)'
    <3>1. CASE Somebody(x)
      BY <1>7, <2>1, <2>7, <3>1 DEF KeptOf, AllThere
    <3>2. CASE ~ Somebody(x)
      <4>1. PICK s : Ends("state", x, s)
        BY <2>1 DEF KeptOf
      <4>2. \A i \in typed[x] : Somewhere(i, x)'
        BY <2>3, <2>7, <3>2, <4>1
      <4>3. ASSUME NEW q \in Pages, model[q][x] # None, NEW i \in model[q][x] PROVE Somewhere(i, x)'
        BY <2>3, <2>7, <3>2, <4>1, <4>3
      <4> QED
        BY <4>2, <4>3
    <3> QED
      BY <3>1, <3>2
  <2>9. \A q \in Pages : ~ BoundTo(q, x)' => model'[q] = model[q]
    BY <1>5, <2>1
  <2>10. StateSaved(x)'
    BY <1>1, <1>6, <2>5 DEF StateSaved
  <2>11. FileSaved(x)'
    BY <1>1, <1>6, <2>6 DEF FileSaved
  <2>12. AllThere(x)'
    BY <1>1, <2>8, <2>9 DEF AllThere
  <2>13. AllStored(x)'
    BY <2>1 DEF AllStored
  <2> QED
    BY <1>1, <1>6, <2>1, <2>10, <2>11, <2>12, <2>13 DEF KeptOf
<1>11. ASSUME NEW q \in Pages PROVE PageKept(q)'
  BY <1>1, <1>2, <1>4, <1>5 DEF Kept, PageKept
<1>12. ASSUME NEW k \in DOMAIN puts PROVE PutKept(puts[k])'
  <2>1. PutKept(puts[k]) /\ puts[k].path \in Paths /\ puts[k].then \in Pages \cup {None}
    BY PutFields DEF Kept
  <2> QED
    BY <1>1, <1>7, <2>1 DEF PutKept
<1> QED
  BY <1>1, <1>9, <1>10, <1>11, <1>12 DEF Kept

\* The room starts again, and no page was behind, and it alone had nothing that is not
\* stored.
LEMMA RestartKept ==
  ASSUME Typed, Kept, Restart, Clean' PROVE Kept'
<1>1. /\ UNCHANGED <<file, state, shown, stage, doc, model, timers, puts, typed>>
      /\ \A x \in Paths : room'[x] = {}
  BY DEF Restart
<1>2. /\ \A q \in Pages : ~ Behind(q)
      /\ \A x \in Paths : ~ Alone(x)
  BY DEF Restart, Clean
<1>3. \A w, y, u : Ends(w, y, u)' <=> Ends(w, y, u)
  BY <1>1, SameEnds
<1>4. ASSUME NEW x \in Paths PROVE KeptOf(x)'
  <2>1. KeptOf(x)
    BY DEF Kept
  <2>2. \A q \in Pages : /\ BoundTo(q, x)' <=> BoundTo(q, x)
                         /\ StateDue(q)' <=> StateDue(q)
                         /\ FileDue(q)' <=> FileDue(q)
    BY <1>1 DEF BoundTo, StateDue, FileDue
  <2>3. \A q \in Pages : BoundTo(q, x) => room[x] \subseteq doc[q]
    BY <1>2 DEF Behind, BoundTo
  <2>4. (Somebody(x)' <=> Somebody(x)) /\ (Together(x)' => Together(x))
    BY <1>1, <2>2, <2>3 DEF Together, Somebody
  <2>5. StateSaved(x)'
    BY <1>1, <1>3, <2>1, <2>2, <2>4 DEF KeptOf, StateSaved
  <2>6. FileSaved(x)'
    BY <1>1, <1>3, <2>1, <2>2, <2>4 DEF KeptOf, FileSaved
  <2>7. AllThere(x)'
    <3> SUFFICES ASSUME Somebody(x) PROVE AllThere(x)'
      BY <2>4 DEF AllThere
    <3>1. \A i : Somewhere(i, x) => Somewhere(i, x)'
      BY <1>1, <2>2, <2>3 DEF Somewhere, Somebody
    <3> QED
      BY <1>1, <2>1, <2>2, <3>1 DEF KeptOf, AllThere
  <2>8. AllStored(x)'
    <3> SUFFICES ASSUME ~ Somebody(x) PROVE AllStored(x)'
      BY <2>4 DEF AllStored
    <3>1. ASSUME NEW s, Ends("state", x, s), s # None
          PROVE  s \subseteq room'[x] \/ Parked(x, s)'
      <4>1. s \subseteq room[x] \/ Parked(x, s)
        BY <2>1, <3>1 DEF KeptOf, AllStored
      <4>2. CASE Parked(x, s)
        BY <1>1, <4>2 DEF Parked, IsFor
      <4>3. CASE room[x] = {} /\ s \subseteq room[x]
        BY <4>3
      <4>4. CASE room[x] # {} /\ s \subseteq room[x]
        <5>1. \A k \in DOMAIN puts : ~ IsFor(puts[k], "state", x)
          BY <1>2, <4>4 DEF Alone, Showing, Somebody, BoundTo, IsFor
        <5>2. ASSUME NEW q \in Pages, shown[q] = x
              PROVE  stage[q] # "file" /\ (stage[q] = "connect" => s \subseteq doc[q])
          <6>1. stage[q] # "away"
            BY <5>2, RoomAssumption DEF Typed
          <6>2. room[x] \subseteq doc[q]
            BY <1>2, <5>2, <6>1 DEF Behind
          <6>3. stage[q] = "file" => doc[q] = {}
            BY DEF Kept, PageKept
          <6> QED
            BY <4>4, <6>2, <6>3
        <5> QED
          BY <1>1, <5>1, <5>2 DEF Parked, IsFor
      <4> QED
        BY <4>1, <4>2, <4>3, <4>4
    <3> QED
      BY <1>1, <1>3, <2>1, <3>1 DEF KeptOf, AllStored
  <2>9. IsFiniteSet(room'[x])
    BY <1>1, FS_EmptySet
  <2> QED
    BY <1>1, <1>3, <2>1, <2>5, <2>6, <2>7, <2>8, <2>9 DEF KeptOf
<1>5. ASSUME NEW q \in Pages PROVE PageKept(q)'
  BY <1>1 DEF Kept, PageKept
<1>6. ASSUME NEW k \in DOMAIN puts PROVE PutKept(puts[k])'
  BY <1>1 DEF Kept, PutKept, BoundTo
<1> QED
  BY <1>1, <1>4, <1>5, <1>6 DEF Kept

LEMMA PushKept ==
  ASSUME Typed, Kept, NEW p \in Pages, Push(p) PROVE Kept'
<1>1. /\ stage[p] \in {"connect", "bound"} /\ room' = [room EXCEPT ![shown[p]] = @ \cup doc[p]]
      /\ UNCHANGED <<file, state, shown, stage, doc, model, timers, puts, typed>>
  BY DEF Push, Typed
<1>2. IsFiniteSet(doc[p])
  BY <1>1 DEF Kept, PageKept, IsText
<1>3. \A w, y, u : Ends(w, y, u)' <=> Ends(w, y, u)
  BY <1>1, SameEnds
<1>4. ASSUME NEW x \in Paths PROVE KeptOf(x)'
  <2>1. KeptOf(x)
    BY DEF Kept
  <2>2. \A q \in Pages : /\ BoundTo(q, x)' <=> BoundTo(q, x)
                         /\ StateDue(q)' <=> StateDue(q)
                         /\ FileDue(q)' <=> FileDue(q)
    BY <1>1 DEF BoundTo, StateDue, FileDue
  <2>3. room[x] \subseteq room'[x] /\ room'[x] \in {room[x], room[x] \cup doc[p]}
    BY <1>1 DEF Typed
  <2>4. IsFiniteSet(room'[x])
    BY <1>2, <2>1, <2>3, FS_Union DEF KeptOf
  <2>5. (Somebody(x)' <=> Somebody(x)) /\ (Together(x)' => Together(x))
    BY <1>1, <2>2, <2>3 DEF Together, Somebody
  <2>6. \A i : Somewhere(i, x) => Somewhere(i, x)'
    BY <1>1, <2>2, <2>3 DEF Somewhere
  <2>7. StateSaved(x)'
    BY <1>1, <1>3, <2>1, <2>2, <2>5 DEF KeptOf, StateSaved
  <2>8. FileSaved(x)'
    BY <1>1, <1>3, <2>1, <2>2, <2>5 DEF KeptOf, FileSaved
  <2>9. AllThere(x)'
    BY <1>1, <2>1, <2>2, <2>5, <2>6 DEF KeptOf, AllThere
  <2>10. AllStored(x)'
    <3> SUFFICES ASSUME ~ Somebody(x) PROVE AllStored(x)'
      BY <2>5 DEF AllStored
    <3>1. \A s : Parked(x, s) => Parked(x, s)'
      BY <1>1 DEF Parked, IsFor
    <3>2. ASSUME NEW s, Ends("state", x, s), s # None PROVE s \subseteq room'[x] \/ Parked(x, s)'
      BY <2>1, <2>3, <3>1, <3>2 DEF KeptOf, AllStored
    <3> QED
      BY <1>1, <1>3, <2>1, <3>2 DEF KeptOf, AllStored
  <2> QED
    BY <1>1, <1>3, <2>1, <2>4, <2>7, <2>8, <2>9, <2>10 DEF KeptOf
<1>5. ASSUME NEW q \in Pages PROVE PageKept(q)'
  BY <1>1 DEF Kept, PageKept
<1>6. ASSUME NEW k \in DOMAIN puts PROVE PutKept(puts[k])'
  BY <1>1 DEF Kept, PutKept, BoundTo
<1> QED
  BY <1>1, <1>4, <1>5, <1>6 DEF Kept

\* The document of a page that has opened its file grows, and is to be saved.
LEMMA GrowsKept ==
  ASSUME Typed, Kept, NEW p \in Pages, stage[p] = "bound", NEW d \in Texts, Update(p, d),
         doc[p] \subseteq d, IsText(d),
         UNCHANGED <<file, state, room, shown, stage, puts>>,
         \A y \in Paths : typed'[y] = typed[y] \/ (y = shown[p] /\ typed'[y] \subseteq typed[y] \cup d)
  PROVE  Kept'
<1>1. PICK x \in Paths : x = shown[p]
  BY DEF Typed
<1>2. /\ doc'[p] = d /\ model'[p][x] = d /\ timers'[p] = Timers
      /\ \A q \in Pages : q # p => doc'[q] = doc[q] /\ model'[q] = model[q] /\ timers'[q] = timers[q]
      /\ \A y \in Paths : y # x => model'[p][y] = model[p][y]
  <2>1. model' = [model EXCEPT ![p][shown[p]] = d]
    BY DEF Update
  <2> QED
    BY <1>1, <2>1, UpdateIs DEF Typed
<1>3. \A w, y, u : Ends(w, y, u)' <=> Ends(w, y, u)
  BY SameEnds
<1>4. \A q \in Pages, y \in Paths : BoundTo(q, y)' <=> BoundTo(q, y)
  BY DEF BoundTo
<1>5. BoundTo(p, x) /\ StateDue(p)' /\ FileDue(p)'
  BY <1>1, <1>2 DEF BoundTo, StateDue, FileDue, Timers
<1>6. ASSUME NEW y \in Paths, y # x PROVE KeptOf(y)'
  <2>1. KeptOf(y)
    BY DEF Kept
  <2>2. \A q \in Pages : BoundTo(q, y) =>
           doc'[q] = doc[q] /\ (StateDue(q) => StateDue(q)') /\ (FileDue(q) => FileDue(q)')
    BY <1>1, <1>2, <1>6 DEF BoundTo, StateDue, FileDue
  <2>3. \A t : Parked(y, t) => Parked(y, t)'
    BY <1>1, <1>2, <1>6 DEF Parked, IsFor
  <2>4. typed'[y] = typed[y] /\ \A q \in Pages : model'[q][y] = model[q][y]
    BY <1>1, <1>2, <1>6
  <2> QED
    BY <1>3, <1>4, <2>1, <2>2, <2>3, <2>4, StillKept DEF KeptOf
<1>7. KeptOf(x)'
  <2>1. KeptOf(x) /\ Somebody(x) /\ Somebody(x)'
    BY <1>4, <1>5 DEF Kept, Somebody
  <2>2. \A i : Somewhere(i, x) \/ i \in d => Somewhere(i, x)'
    BY <1>2, <1>4, <1>5 DEF Somewhere
  <2>3. \A q \in Pages : ~ BoundTo(q, x)' => ~ BoundTo(q, x) /\ model'[q] = model[q]
    BY <1>2, <1>4, <1>5
  <2>4. StateSaved(x)'
    BY <1>4, <1>5 DEF StateSaved
  <2>5. FileSaved(x)'
    BY <1>4, <1>5 DEF FileSaved
  <2>6. typed'[x] \subseteq typed[x] \cup d
    BY <1>1
  <2>7. AllThere(x)'
    BY <2>1, <2>2, <2>3, <2>6 DEF KeptOf, AllThere
  <2>8. AllStored(x)'
    BY <2>1 DEF AllStored
  <2> QED
    BY <1>3, <2>1, <2>4, <2>5, <2>7, <2>8 DEF KeptOf
<1>8. ASSUME NEW q \in Pages PROVE PageKept(q)'
  BY <1>1, <1>2 DEF Kept, PageKept
<1>9. ASSUME NEW k \in DOMAIN puts PROVE PutKept(puts[k])'
  BY DEF Kept, PutKept, BoundTo
<1> QED
  BY <1>1, <1>6, <1>7, <1>8, <1>9 DEF Kept

LEMMA PullKept ==
  ASSUME Typed, Kept, NEW p \in Pages, Pull(p) PROVE Kept'
<1>1. PICK d : d = doc[p] \cup room[shown[p]]
  OBVIOUS
<1>2. /\ stage[p] \in {"connect", "bound"} /\ Update(p, d)
      /\ UNCHANGED <<file, state, room, shown, stage, puts, typed>>
  BY <1>1 DEF Pull, Typed
<1>3. d \in Texts /\ doc[p] \subseteq d /\ IsText(d)
  <2>1. shown[p] \in Paths /\ d \in Texts
    BY <1>1, <1>2 DEF Typed, Texts
  <2>2. IsText(doc[p]) /\ IsFiniteSet(room[shown[p]])
    BY <1>2, <2>1 DEF Kept, KeptOf, PageKept
  <2> QED
    BY <1>1, <2>1, <2>2, FS_Union DEF IsText
<1>4. CASE stage[p] = "bound"
  BY <1>2, <1>3, <1>4, GrowsKept
<1>5. CASE stage[p] = "connect"
  <2>1. /\ doc'[p] = d /\ UNCHANGED <<model, timers>>
        /\ \A q \in Pages : q # p => doc'[q] = doc[q]
    BY <1>2, <1>5, UpdateIs DEF Update
  <2>2. \A w, y, u : Ends(w, y, u)' <=> Ends(w, y, u)
    BY <1>2, SameEnds
  <2>3. ASSUME NEW x \in Paths PROVE KeptOf(x)'
    <3>1. KeptOf(x)
      BY DEF Kept
    <3>2. \A q \in Pages : /\ BoundTo(q, x)' <=> BoundTo(q, x)
                           /\ BoundTo(q, x) => doc'[q] = doc[q]
                           /\ StateDue(q)' <=> StateDue(q)
                           /\ FileDue(q)' <=> FileDue(q)
      BY <1>2, <1>5, <2>1 DEF BoundTo, StateDue, FileDue
    <3>3. \A t : Parked(x, t) => Parked(x, t)'
      BY <1>2, <1>3, <2>1 DEF Parked, IsFor
    <3> QED
      BY <1>2, <2>1, <2>2, <3>1, <3>2, <3>3, StillKept DEF KeptOf
  <2>4. ASSUME NEW q \in Pages PROVE PageKept(q)'
    BY <1>2, <1>3, <1>5, <2>1 DEF Kept, PageKept
  <2>5. ASSUME NEW k \in DOMAIN puts PROVE PutKept(puts[k])'
    BY <1>2 DEF Kept, PutKept, BoundTo
  <2> QED
    BY <1>2, <2>3, <2>4, <2>5 DEF Kept
<1> QED
  BY <1>2, <1>4, <1>5

LEMMA TypeKept ==
  ASSUME Typed, Kept, NEW p \in Pages, Type(p) PROVE Kept'
<1> DEFINE item == [Write(shown[p]) EXCEPT !.through = <<client[p]>>]
<1>1. PICK d : d = doc[p] \cup {item}
  OBVIOUS
<1>2. /\ stage[p] = "bound" /\ Update(p, d)
      /\ typed' = [typed EXCEPT ![shown[p]] = @ \cup {item}]
      /\ UNCHANGED <<file, state, room, shown, stage, puts>>
  BY <1>1 DEF Type
<1>3. shown[p] \in Paths /\ client[p] \in Nat /\ words \in Nat /\ doc[p] \in Texts
  BY <1>2 DEF Typed
<1>4. item \in Item
  BY <1>3, Writes
<1> HIDE DEF item
<1>5. d \in Texts /\ doc[p] \subseteq d /\ IsText(d)
  <2>1. IsText(doc[p])
    BY <1>2 DEF Kept, PageKept
  <2>2. IsFiniteSet(d)
    BY <1>1, <2>1, FS_AddElement DEF IsText
  <2> QED
    BY <1>1, <1>3, <1>4, <2>2 DEF IsText, Texts
<1>6. \A y \in Paths : typed'[y] = typed[y] \/ (y = shown[p] /\ typed'[y] \subseteq typed[y] \cup d)
  <2>1. typed' = [typed EXCEPT ![shown[p]] = @ \cup {item}] /\ item \in d
    BY <1>1, <1>2
  <2> QED
    BY <2>1
<1> QED
  BY <1>2, <1>5, <1>6, GrowsKept

\* A page that has opened its file sends what it shows; the state that is to follow a
\* file is due as long as that is on its way.
LEMMA SavesKept ==
  ASSUME Typed, Kept, NEW p \in Pages, stage[p] = "bound", NEW what \in {"file", "state"},
         NEW then \in {None, p}, then = p => what = "file",
         NEW v, v = doc[p], NEW x \in Paths, x = shown[p],
         \A w, y, u : ~ (w = what /\ y = x) => (Ends(w, y, u)' <=> Ends(w, y, u)),
         \E u : Ends("state", x, u)', \E u : Ends("file", x, u)',
         what = "state" => \A u : Ends("state", x, u)' => u = v,
         what = "file" => \A u : Ends("file", x, u)' => u = v,
         NEW n \in Nat, DOMAIN puts = 1..n, DOMAIN puts' = 1..(n + 1),
         \A k \in DOMAIN puts : puts'[k] = puts[k],
         puts'[n + 1] = [what |-> what, path |-> x, value |-> v, then |-> then],
         UNCHANGED <<file, state, room, shown, stage, doc, model, typed>>,
         \A q \in Pages : timers'[q] \subseteq timers[q] /\ (q # p => timers'[q] = timers[q]),
         \A t \in timers[p] : \/ t \in timers'[p]
                              \/ t = "state" /\ what = "state"
                              \/ t = "file" /\ what = "file"
                              \/ t = "autosave" /\ then = p
  PROVE  Kept'
<1>1. x \in Paths /\ x = shown[p]
  OBVIOUS
<1>2. /\ \A w, y, u : ~ (w = what /\ y = x) => (Ends(w, y, u)' <=> Ends(w, y, u))
      /\ what = "state" => \A u : Ends("state", x, u)' => u = v
      /\ what = "file" => \A u : Ends("file", x, u)' => u = v
  OBVIOUS
<1>3. /\ DOMAIN puts = 1..n /\ DOMAIN puts' = 1..(n + 1)
      /\ \A k \in DOMAIN puts : puts'[k] = puts[k]
      /\ puts'[n + 1] = [what |-> what, path |-> x, value |-> v, then |-> then]
  OBVIOUS
<1>4. /\ DOMAIN puts \subseteq DOMAIN puts' /\ n + 1 \in DOMAIN puts'
      /\ \A k \in DOMAIN puts' : k \in DOMAIN puts \/ k = n + 1
      /\ \A k \in DOMAIN puts : puts'[k] = puts[k]
      /\ puts'[n + 1].what = what /\ puts'[n + 1].path = x
      /\ puts'[n + 1].value = v /\ puts'[n + 1].then = then
  BY <1>3
<1>5. \A q \in Pages : (\E k \in DOMAIN puts : puts[k].then = q) => \E k \in DOMAIN puts' : puts'[k].then = q
  BY <1>4
<1>6. \A q \in Pages, y \in Paths : BoundTo(q, y)' <=> BoundTo(q, y)
  BY DEF BoundTo
<1>7. /\ BoundTo(p, x) /\ p # None /\ model[p][x] = doc[p] /\ IsText(doc[p])
      /\ \A q \in Pages : BoundTo(q, x) /\ q # p => timers'[q] = timers[q]
  BY <1>1, RoomAssumption DEF BoundTo, Kept, PageKept
<1>8. ASSUME NEW y \in Paths, y # x PROVE KeptOf(y)'
  <2>1. KeptOf(y)
    BY DEF Kept
  <2>2. \A q \in Pages : BoundTo(q, y) => (StateDue(q) => StateDue(q)') /\ (FileDue(q) => FileDue(q)')
    BY <1>1, <1>5, <1>8 DEF BoundTo, StateDue, FileDue
  <2>3. \A t : Parked(y, t) => Parked(y, t)'
    BY <1>4, <1>8 DEF Parked, IsFor
  <2>4. \A w, u : Ends(w, y, u)' <=> Ends(w, y, u)
    BY <1>2, <1>8
  <2> QED
    BY <1>6, <2>1, <2>2, <2>3, <2>4, StillKept DEF KeptOf
<1>9. KeptOf(x)'
  <2>1. KeptOf(x) /\ Somebody(x) /\ Somebody(x)'
    BY <1>6, <1>7 DEF Kept, Somebody
  <2>2. Together(x)' => Together(x) /\ \A q \in Pages : BoundTo(q, x) => doc[q] = doc[p]
    <3> SUFFICES ASSUME Together(x)'
                 PROVE  Together(x) /\ \A q \in Pages : BoundTo(q, x) => doc[q] = doc[p]
      OBVIOUS
    <3>1. \A r \in Pages : BoundTo(r, x) =>
             room[x] \subseteq doc[r] /\ \A q \in Pages : BoundTo(q, x) => doc[q] \subseteq doc[r]
      BY <1>6 DEF Together
    <3>2. ASSUME NEW q \in Pages, BoundTo(q, x) PROVE doc[q] = doc[p]
      <4>1. doc[q] \subseteq doc[p] /\ doc[p] \subseteq doc[q]
        BY <1>7, <3>1, <3>2
      <4> QED
        BY <4>1
    <3>3. Together(x)
      BY <3>1 DEF Together
    <3> QED
      BY <3>2, <3>3
  <2>3. StateSaved(x)'
    <3>1. CASE what = "state"
      <4>1. \A u : Ends("state", x, u)' => u = doc[p]
        BY <1>2, <3>1
      <4>2. Together(x)' => \A q \in Pages : BoundTo(q, x)' => doc'[q] = doc[p]
        BY <1>6, <2>2
      <4> QED
        BY <4>1, <4>2 DEF StateSaved
    <3>2. CASE then = p
      <4>1. StateDue(p)'
        BY <1>4, <3>2 DEF StateDue
      <4> QED
        BY <1>6, <1>7, <4>1 DEF StateSaved
    <3>3. CASE what = "file" /\ then = None
      <4>1. \A q \in Pages : StateDue(q) => StateDue(q)'
        BY <1>5, <1>7, <3>3 DEF StateDue
      <4>2. \A u : Ends("state", x, u)' <=> Ends("state", x, u)
        BY <1>2, <3>3
      <4> QED
        BY <1>6, <2>1, <2>2, <4>1, <4>2 DEF KeptOf, StateSaved
    <3> QED
      BY <3>1, <3>2, <3>3
  <2>4. FileSaved(x)'
    <3>1. CASE what = "file"
      <4>1. \A u : Ends("file", x, u)' => u = doc[p]
        BY <1>2, <3>1
      <4>2. Together(x)' => \A q \in Pages : BoundTo(q, x)' => doc'[q] = doc[p]
        BY <1>6, <2>2
      <4> QED
        BY <4>1, <4>2 DEF FileSaved
    <3>2. CASE what = "state"
      <4>1. \A q \in Pages : FileDue(q) => FileDue(q)'
        BY <1>7, <3>2 DEF FileDue
      <4>2. \A u : Ends("file", x, u)' <=> Ends("file", x, u)
        BY <1>2, <3>2
      <4> QED
        BY <1>6, <2>1, <2>2, <4>1, <4>2 DEF KeptOf, FileSaved
    <3> QED
      BY <3>1, <3>2
  <2>5. \A i : Somewhere(i, x) => Somewhere(i, x)'
    BY <1>6 DEF Somewhere
  <2>6. AllThere(x)'
    BY <1>6, <2>1, <2>5 DEF KeptOf, AllThere
  <2>7. AllStored(x)'
    BY <2>1 DEF AllStored
  <2>8. (\E u : Ends("state", x, u)') /\ (\E u : Ends("file", x, u)')
    OBVIOUS
  <2> QED
    BY <2>1, <2>3, <2>4, <2>6, <2>7, <2>8 DEF KeptOf
<1>10. ASSUME NEW q \in Pages PROVE PageKept(q)'
  BY DEF Kept, PageKept
<1>11. ASSUME NEW k \in DOMAIN puts' PROVE PutKept(puts[k])'
  <2>1. CASE k \in DOMAIN puts
    BY <1>4, <2>1 DEF Kept, PutKept, BoundTo
  <2>2. CASE k = n + 1
    BY <1>4, <1>7, <2>2 DEF PutKept, BoundTo
  <2> QED
    BY <1>4, <2>1, <2>2
<1> QED
  BY <1>8, <1>9, <1>10, <1>11 DEF Kept

LEMMA SentOne ==
  ASSUME Typed, NEW what, NEW p \in Pages, NEW v, NEW then, Put(what, p, v, then),
         UNCHANGED stores, NEW x, x = shown[p]
  PROVE  (\A u : Ends(what, x, u)' => u = v) /\ \E u : Ends(what, x, u)'
<1>1. /\ \A w, y : w = what /\ y = x => Ends(w, y, v)'
      /\ \A w, y, u : w = what /\ y = x /\ Ends(w, y, u)' => u = v
  BY PutLast
<1> QED
  BY <1>1

LEMMA SentOthers ==
  ASSUME Typed, NEW what, NEW p \in Pages, NEW v, NEW then, Put(what, p, v, then),
         UNCHANGED stores, NEW x, x = shown[p]
  PROVE  \A w, y, u : ~ (w = what /\ y = x) => (Ends(w, y, u)' <=> Ends(w, y, u))
BY PutLast

LEMMA SaveStepsKept ==
  ASSUME Typed, Kept, NEW p \in Pages,
         Autosave(p) \/ PersistState(p) \/ SyncFile(p) \/ (Save(p) /\ Clean')
  PROVE  Kept'
<1>1. /\ UNCHANGED <<file, state, room, shown, stage, doc, model, typed>>
      /\ UNCHANGED stores
  BY DEF Autosave, PersistState, SyncFile, Save
<1>2. stage[p] = "bound"
  BY DEF Autosave, PersistState, SyncFile, Save, Clean, Kept, PageKept
<1>3. PICK x \in Paths : x = shown[p]
  BY <1>2 DEF Typed
<1>4. PICK v : v = doc[p]
  OBVIOUS
<1>5. model[p][shown[p]] = v
  BY <1>2, <1>4 DEF Kept, PageKept
<1>6. PICK what \in {"file", "state"}, then \in {None, p} :
         /\ Put(what, p, v, then) /\ (then = p => what = "file")
         /\ \A q \in Pages : timers'[q] \subseteq timers[q] /\ (q # p => timers'[q] = timers[q])
         /\ \A t \in timers[p] : \/ t \in timers'[p]
                                 \/ t = "state" /\ what = "state"
                                 \/ t = "file" /\ what = "file"
                                 \/ t = "autosave" /\ then = p
  <2>0. p # None
    BY RoomAssumption
  <2>1. CASE Autosave(p)
    <3>1. Put("file", p, v, p)
      BY <1>5, <2>1 DEF Autosave
    <3>2. timers' = [timers EXCEPT ![p] = @ \ {"autosave"}]
      BY <2>1 DEF Autosave
    <3> QED
      BY <3>1, <3>2 DEF Typed
  <2>2. CASE PersistState(p)
    <3>1. Put("state", p, v, None)
      BY <1>4, <2>2 DEF PersistState
    <3>2. timers' = [timers EXCEPT ![p] = @ \ {"state"}]
      BY <2>2 DEF PersistState
    <3> QED
      BY <2>0, <3>1, <3>2 DEF Typed
  <2>3. CASE SyncFile(p)
    <3>1. Put("file", p, v, None)
      BY <1>4, <2>3 DEF SyncFile
    <3>2. timers' = [timers EXCEPT ![p] = @ \ {"file"}]
      BY <2>3 DEF SyncFile
    <3> QED
      BY <2>0, <3>1, <3>2 DEF Typed
  <2>4. CASE Save(p)
    <3>1. Put("file", p, v, p) /\ timers' = timers
      BY <1>5, <2>4 DEF Save
    <3> QED
      BY <3>1
  <2> QED
    BY <2>1, <2>2, <2>3, <2>4
<1>7. (\E u : Ends("state", x, u)) /\ (\E u : Ends("file", x, u))
  BY DEF Kept, KeptOf
<1>8. /\ \A w, y, u : ~ (w = what /\ y = x) => (Ends(w, y, u)' <=> Ends(w, y, u))
      /\ what = "state" => (\A u : Ends("state", x, u)' => u = v) /\ \E u : Ends("state", x, u)'
      /\ what = "file" => (\A u : Ends("file", x, u)' => u = v) /\ \E u : Ends("file", x, u)'
  <2>1. Put(what, p, v, then) /\ UNCHANGED stores
    BY <1>1, <1>6
  <2>2. \A w, y, u : ~ (w = what /\ y = x) => (Ends(w, y, u)' <=> Ends(w, y, u))
    BY <1>3, <2>1, SentOthers
  <2>3. ASSUME what = "state" PROVE (\A u : Ends("state", x, u)' => u = v) /\ \E u : Ends("state", x, u)'
    <3>1. Put("state", p, v, then)
      BY <2>1, <2>3 DEF Put
    <3> QED
      BY <1>3, <2>1, <3>1, SentOne
  <2>4. ASSUME what = "file" PROVE (\A u : Ends("file", x, u)' => u = v) /\ \E u : Ends("file", x, u)'
    <3>1. Put("file", p, v, then)
      BY <2>1, <2>4 DEF Put
    <3> QED
      BY <1>3, <2>1, <3>1, SentOne
  <2> QED
    BY <2>2, <2>3, <2>4
<1>10. (\E u : Ends("state", x, u)') /\ (\E u : Ends("file", x, u)')
  BY <1>7, <1>8
<1>9. PICK n \in Nat :
         /\ DOMAIN puts = 1..n /\ DOMAIN puts' = 1..(n + 1)
         /\ \A k \in DOMAIN puts : puts'[k] = puts[k]
         /\ puts'[n + 1] = [what |-> what, path |-> x, value |-> v, then |-> then]
  BY <1>3, <1>6, PutOrder
<1>11. /\ then = p => what = "file"
       /\ \A q \in Pages : timers'[q] \subseteq timers[q] /\ (q # p => timers'[q] = timers[q])
       /\ \A t \in timers[p] : \/ t \in timers'[p]
                               \/ t = "state" /\ what = "state"
                               \/ t = "file" /\ what = "file"
                               \/ t = "autosave" /\ then = p
  BY <1>6
<1>12. /\ \A w, y, u : ~ (w = what /\ y = x) => (Ends(w, y, u)' <=> Ends(w, y, u))
       /\ what = "state" => \A u : Ends("state", x, u)' => u = v
       /\ what = "file" => \A u : Ends("file", x, u)' => u = v
  BY <1>8
<1>13. UNCHANGED <<file, state, room, shown, stage, doc, model, typed>>
  BY <1>1
<1> QED
  BY <1>2, <1>3, <1>4, <1>9, <1>10, <1>11, <1>12, <1>13, SavesKept, SMTT(60)

\* The other saves are still on their way when one has landed.
LEMMA LandLeaves ==
  ASSUME Typed, NEW k \in DOMAIN puts, puts' = RemoveAt(puts, k) \o StateAfter(puts[k]),
         NEW m \in DOMAIN puts, m # k
  PROVE  \E j \in DOMAIN puts' : puts'[j] = puts[m]
<1> DEFINE n == Len(puts)
<1>1. /\ n \in Nat /\ DOMAIN puts = 1..n /\ k \in 1..n /\ m \in 1..n
      /\ \A i \in 1..(n - 1) : puts'[i] = puts[IF i < k THEN i ELSE i + 1]
      /\ DOMAIN puts' = 1..n \/ DOMAIN puts' = 1..(n - 1)
  BY LandOrder
<1> HIDE DEF n
<1>2. CASE m < k
  <2>1. m \in 1..(n - 1)
    BY <1>1, <1>2
  <2> QED
    BY <1>1, <1>2, <2>1
<1>3. CASE ~ (m < k)
  <2>1. m - 1 \in 1..(n - 1) /\ ~ (m - 1 < k) /\ m - 1 + 1 = m
    BY <1>1, <1>3
  <2>2. m - 1 \in DOMAIN puts'
    BY <1>1, <2>1
  <2>3. puts'[m - 1] = puts[m]
    BY <1>1, <2>1
  <2> QED
    BY <2>2, <2>3
<1> QED
  BY <1>2, <1>3

\* A save lands, and none before it is for the same; the state that follows a file is
\* what its page still shows.
LEMMA LandKept ==
  ASSUME Typed, Kept, NEW k \in DOMAIN puts, Land(k), Clean' PROVE Kept'
<1>1. PICK y \in Paths, what \in {"file", "state"}, value \in Texts, then \in Pages \cup {None} :
         puts[k].path = y /\ puts[k].what = what /\ puts[k].value = value /\ puts[k].then = then
  BY PutFields
<1>2. /\ puts' = RemoveAt(puts, k) \o StateAfter(puts[k])
      /\ UNCHANGED <<room, shown, stage, doc, model, timers, typed>>
      /\ IF puts[k].what = "state" THEN HandleCollabPutState(puts[k].path, puts[k].value)
         ELSE PutProjectFile(puts[k].path, puts[k].value)
      /\ \A j \in 1..(k - 1) : ~ IsFor(puts[j], puts[k].what, puts[k].path)
  <2>1. "fault" \notin excuse' /\ "overtaken" \notin excuse'
    BY DEF Clean
  <2>2. \A j \in 1..(k - 1) : ~ IsFor(puts[j], puts[k].what, puts[k].path)
    BY <2>1 DEF Land, IsFor
  <2> QED
    BY <2>1, <2>2 DEF Land
<1>3. /\ IsText(value)
      /\ then # None => what = "file" /\ BoundTo(then, y)
  BY <1>1 DEF Kept, PutKept
<1>4. ASSUME NEW w \in {"state", "file"}, NEW x \in Paths
      PROVE  IF Follows(puts[k]) /\ IsFor(After(puts[k]), w, x)
             THEN \A u : Ends(w, x, u)' <=> u = doc[puts[k].then]
             ELSE \A u : Ends(w, x, u)' <=> Ends(w, x, u)
  BY <1>2, LandEnds
<1>5. /\ Follows(puts[k]) <=> then # None
      /\ \A w, x : IsFor(After(puts[k]), w, x) <=> w = "state" /\ x = y
  BY <1>1, <1>3, RoomAssumption DEF Follows, IsFor, After, BoundTo
<1>6. ASSUME NEW j \in DOMAIN puts'
      PROVE  \/ \E m \in DOMAIN puts : puts'[j] = puts[m]
             \/ /\ then # None /\ puts'[j].what = "state" /\ puts'[j].path = y
                /\ puts'[j].value = doc[then] /\ puts'[j].then = None
  <2>1. PICK put : put = After(puts[k])
    OBVIOUS
  <2>2. CASE \E m \in DOMAIN puts : puts'[j] = puts[m]
    BY <2>2
  <2>3. CASE Follows(puts[k]) /\ puts'[j] = put
    <3>1. then # None
      BY <1>5, <2>3
    <3>2. /\ put.what = "state" /\ put.path = y /\ put.value = doc[then] /\ put.then = None
      BY <1>1, <2>1 DEF After
    <3> QED
      BY <2>3, <3>1, <3>2
  <2> QED
    BY <1>2, <2>1, <2>2, <2>3, LandPuts
<1>7. \A q \in Pages, x \in Paths : BoundTo(q, x)' <=> BoundTo(q, x)
  BY <1>2 DEF BoundTo
<1>8. \A q \in Pages : /\ then # q => (StateDue(q) => StateDue(q)')
                       /\ FileDue(q)' <=> FileDue(q)
  BY <1>1, <1>2, LandLeaves DEF StateDue, FileDue
<1>9. \A x \in Paths : IsText(file'[x]) /\ (state'[x] # None => IsText(state'[x]))
  <2>1. /\ \A x \in Paths : file'[x] = file[x] \/ file'[x] = value
        /\ \A x \in Paths : state'[x] = state[x] \/ state'[x] = value
    BY <1>1, <1>2 DEF HandleCollabPutState, PutProjectFile, Typed
  <2> QED
    BY <1>3, <2>1 DEF Kept, KeptOf
<1>10. ASSUME NEW x \in Paths, x # y \/ then = None PROVE KeptOf(x)'
  <2>1. KeptOf(x)
    BY DEF Kept
  <2>2. \A w \in {"state", "file"} : \A u : Ends(w, x, u)' <=> Ends(w, x, u)
    BY <1>4, <1>5, <1>10
  <2>3. \A q \in Pages : BoundTo(q, x) => (StateDue(q) => StateDue(q)') /\ (FileDue(q) => FileDue(q)')
    BY <1>3, <1>8, <1>10, RoomAssumption DEF BoundTo
  <2>4. ASSUME NEW t, Parked(x, t) PROVE Parked(x, t)'
    <3>1. \A j \in DOMAIN puts' : ~ IsFor(puts'[j], "state", x)
      BY <1>6, <1>10, <2>4 DEF Parked, IsFor
    <3> QED
      BY <1>2, <2>4, <3>1 DEF Parked, IsFor
  <2> QED
    BY <1>2, <1>7, <1>9, <2>1, <2>2, <2>3, <2>4, StillKept
<1>11. ASSUME then # None PROVE KeptOf(y)'
  <2>1. KeptOf(y) /\ BoundTo(then, y) /\ then \in Pages /\ Somebody(y)'
    BY <1>3, <1>7, <1>11 DEF Kept, Somebody
  <2>2. (\A u : Ends("state", y, u)' <=> u = doc[then]) /\ \A u : Ends("file", y, u)' <=> Ends("file", y, u)
    BY <1>1, <1>4, <1>5, <1>11
  <2>3. Together(y)' => Together(y)
    BY <1>2, <1>7 DEF Together
  <2>4. ASSUME Together(y), NEW q \in Pages, BoundTo(q, y) PROVE doc[q] = doc[then]
    <3>1. doc[q] \subseteq doc[then] /\ doc[then] \subseteq doc[q]
      BY <2>1, <2>4 DEF Together
    <3> QED
      BY <3>1
  <2>5. StateSaved(y)'
    BY <1>2, <1>7, <2>2, <2>3, <2>4 DEF StateSaved
  <2>6. FileSaved(y)'
    BY <1>2, <1>7, <1>8, <2>1, <2>2, <2>3 DEF KeptOf, FileSaved
  <2>7. \A i : Somewhere(i, y) => Somewhere(i, y)'
    BY <1>2, <1>7 DEF Somewhere
  <2>8. AllThere(y)'
    BY <1>2, <1>7, <2>1, <2>7 DEF KeptOf, AllThere, Somebody
  <2>9. AllStored(y)'
    BY <2>1 DEF AllStored
  <2> QED
    BY <1>2, <1>9, <2>1, <2>2, <2>5, <2>6, <2>8, <2>9 DEF KeptOf
<1>12. ASSUME NEW q \in Pages PROVE PageKept(q)'
  BY <1>2 DEF Kept, PageKept
<1>13. ASSUME NEW j \in DOMAIN puts' PROVE PutKept(puts[j])'
  <2>1. CASE \E m \in DOMAIN puts : puts'[j] = puts[m]
    BY <1>2, <2>1 DEF Kept, PutKept, BoundTo
  <2>2. CASE then # None /\ puts'[j].value = doc[then] /\ puts'[j].then = None
    <3>1. IsText(doc[then])
      BY <1>3, <2>2 DEF Kept, PageKept, BoundTo
    <3> QED
      BY <2>2, <3>1 DEF PutKept
  <2> QED
    BY <1>6, <2>1, <2>2
<1> QED
  BY <1>10, <1>11, <1>12, <1>13 DEF Kept

LEMMA NothingOnItsWay ==
  ASSUME puts = <<>>, NEW w, NEW x, NEW u
  PROVE  Ends(w, x, u) <=> u = Stored(w, x)
<1>1. DOMAIN puts = {}
  OBVIOUS
<1> QED
  BY <1>1 DEF Ends

LEMMA InitKept == Init => Kept
<1> SUFFICES ASSUME Init PROVE Kept
  OBVIOUS
<1>1. puts = <<>> /\ DOMAIN puts = {}
  BY DEF Init
<1>2. ASSUME NEW x \in Paths PROVE KeptOf(x)
  <2>1. /\ \A q \in Pages : ~ BoundTo(q, x) /\ model[q][x] = None
        /\ typed[x] = {} /\ state[x] = None /\ room[x] = {}
    BY DEF Init, BoundTo
  <2>2. \A s : Ends("state", x, s) => s = None
    BY <1>1, <2>1, NothingOnItsWay DEF Stored
  <2>3. IsText(file[x]) /\ IsFiniteSet(room[x])
    <3>1. file[x] = {[word |-> <<x, 0>>, through |-> <<>>]}
      BY DEF Init
    <3>2. IsFiniteSet(file[x]) /\ file[x] # {}
      BY <3>1, FS_Singleton
    <3>3. IsFiniteSet(room[x])
      BY <2>1, FS_EmptySet
    <3> QED
      BY <3>2, <3>3 DEF IsText
  <2>4. (\E s : Ends("state", x, s)) /\ (\E f : Ends("file", x, f))
    BY <1>1, NothingOnItsWay
  <2>5. StateSaved(x) /\ FileSaved(x)
    BY <2>1 DEF StateSaved, FileSaved
  <2>6. AllThere(x)
    BY <2>1 DEF AllThere, Somebody
  <2>7. AllStored(x)
    BY <2>1, <2>2 DEF AllStored
  <2> QED
    BY <2>1, <2>3, <2>4, <2>5, <2>6, <2>7 DEF KeptOf
<1>3. ASSUME NEW q \in Pages PROVE PageKept(q)
  BY DEF Init, PageKept
<1> QED
  BY <1>1, <1>2, <1>3 DEF Kept

LEMMA StepKept ==
  ASSUME Typed, Kept, [Next]_vars, Clean', None \notin Texts PROVE Kept'
<1>1. ASSUME Users PROVE Kept'
  <2>1. "early" \notin excuse' /\ "outside" \notin excuse'
    BY DEF Clean
  <2>2. ASSUME NEW p \in Pages, Leave(p) \/ Type(p) \/ TypeEarly(p) \/ Save(p) PROVE Kept'
    <3>1. ~ TypeEarly(p)
      BY <2>1 DEF TypeEarly
    <3>2. ASSUME Save(p) PROVE Kept'
      BY <3>2, SaveStepsKept
    <3> QED
      BY <2>2, <3>1, <3>2, LeaveKept, TypeKept
  <2>3. ASSUME NEW p \in Pages, NEW x \in Paths, Show(p, x) \/ RestoreSnapshot(p, x) PROVE Kept'
    BY <2>1, <2>3, ShowKept DEF RestoreSnapshot
  <2>4. ASSUME NEW x \in Paths, OtherWrites(x) PROVE Kept'
    BY <2>1, <2>4 DEF OtherWrites
  <2> QED
    BY <1>1, <2>2, <2>3, <2>4 DEF Users
<1>2. ASSUME NEW p \in Pages, Page(p) \/ Disconnect(p) PROVE Kept'
  <2>1. ASSUME GetState(p) \/ GetFile(p) \/ Bind(p) PROVE Kept'
    BY <2>1, GetStateKept, GetFileKept, BindKept
  <2>2. ASSUME Connect(p) \/ Push(p) \/ Pull(p) \/ Disconnect(p) PROVE Kept'
    BY <2>2, ConnectKept, PushKept, PullKept
  <2>3. ASSUME Autosave(p) \/ PersistState(p) \/ SyncFile(p) PROVE Kept'
    BY <2>3, SaveStepsKept
  <2> QED
    BY <1>2, <2>1, <2>2, <2>3 DEF Page
<1>3. ASSUME Restart PROVE Kept'
  BY <1>3, RestartKept
<1>4. ASSUME NEW k \in DOMAIN puts, Land(k) PROVE Kept'
  BY <1>4, LandKept
<1>5. ASSUME UNCHANGED vars PROVE Kept'
  <2>1. UNCHANGED <<file, state, room, shown, stage, doc, model, timers, puts, typed>>
    BY <1>5
  <2>2. \A w, x, u : Ends(w, x, u)' <=> Ends(w, x, u)
    BY <2>1, SameEnds
  <2>3. ASSUME NEW x \in Paths PROVE KeptOf(x)'
    <3>1. KeptOf(x)
      BY DEF Kept
    <3>2. \A q \in Pages : /\ BoundTo(q, x)' <=> BoundTo(q, x)
                           /\ StateDue(q)' <=> StateDue(q)
                           /\ FileDue(q)' <=> FileDue(q)
      BY <2>1 DEF BoundTo, StateDue, FileDue
    <3>3. \A t : Parked(x, t)' <=> Parked(x, t)
      BY <2>1 DEF Parked, IsFor
    <3> QED
      BY <2>1, <2>2, <3>1, <3>2, <3>3, StillKept DEF KeptOf
  <2>4. ASSUME NEW q \in Pages PROVE PageKept(q)'
    BY <2>1 DEF Kept, PageKept
  <2>5. ASSUME NEW k \in DOMAIN puts PROVE PutKept(puts[k])'
    BY <2>1 DEF Kept, PutKept, BoundTo
  <2> QED
    BY <2>1, <2>3, <2>4, <2>5 DEF Kept
<1> QED
  BY <1>1, <1>2, <1>3, <1>4, <1>5 DEF Next

\* At rest everything is what the room has.
LEMMA RestKeeps ==
  ASSUME Typed, Clean => Kept, None \notin Texts PROVE KeptAtRest
<1> SUFFICES ASSUME AtRest, Kept, NEW x \in Paths
             PROVE  /\ typed[x] # {} => state[x] # None /\ typed[x] \subseteq state[x]
                    /\ state[x] # None => TextOf(file[x]) = TextOf(state[x])
                    /\ \A p \in Showing(x) : TextOf(model[p][x]) = TextOf(file[x])
  BY DEF KeptAtRest, Clean
<1>1. /\ puts = <<>> /\ DOMAIN puts = {}
      /\ \A p \in Pages : timers[p] = {} /\ (BoundTo(p, x) => doc[p] = room[x])
  BY DEF AtRest, BoundTo
<1>2. Ends("state", x, state[x]) /\ Ends("file", x, file[x])
  BY <1>1, NothingOnItsWay DEF Stored
<1>3. \A p \in Pages : p \in Showing(x) <=> BoundTo(p, x)
  BY RoomAssumption DEF AtRest, Typed, Showing, BoundTo
<1>4. KeptOf(x) /\ \A p \in Pages : PageKept(p)
  BY DEF Kept
<1>5. CASE Somebody(x)
  <2>1. PICK p \in Pages : BoundTo(p, x)
    BY <1>5 DEF Somebody
  <2>2. Together(x)
    BY <1>1 DEF Together
  <2>3. \A q \in Pages : ~ StateDue(q) /\ ~ FileDue(q)
    BY <1>1 DEF StateDue, FileDue
  <2>4. state[x] = room[x]
    BY <1>1, <1>2, <1>4, <2>1, <2>2, <2>3 DEF KeptOf, StateSaved
  <2>5. TextOf(file[x]) = TextOf(room[x])
    BY <1>1, <1>2, <1>4, <2>1, <2>2, <2>3 DEF KeptOf, FileSaved
  <2>6. typed[x] \subseteq room[x]
    BY <1>1, <1>4, <1>5 DEF KeptOf, AllThere, Somewhere
  <2>7. room[x] # None
    BY DEF Typed
  <2>8. \A q \in Pages : BoundTo(q, x) => model[q][x] = room[x]
    BY <1>1, <1>4 DEF PageKept, BoundTo
  <2> QED
    BY <1>3, <2>4, <2>5, <2>6, <2>7, <2>8 DEF Showing
<1>6. CASE ~ Somebody(x)
  <2>1. Showing(x) = {}
    BY <1>3, <1>6 DEF Somebody, Showing
  <2>2. typed[x] # {} => state[x] # None /\ typed[x] \subseteq state[x]
    BY <1>2, <1>4, <1>6 DEF KeptOf, AllStored
  <2>3. state[x] # None => TextOf(file[x]) = TextOf(state[x])
    BY <1>2, <1>4, <1>6 DEF KeptOf, AllStored
  <2> QED
    BY <2>1, <2>2, <2>3
<1> QED
  BY <1>5, <1>6

\* When everything has been sent and saved, the stored state has what was typed in any
\* page, the file has the text of that state, and the pages that show the file show just
\* that: for every number of pages, files and saves on their way, and whatever
\* connections and restarts of the room lay in between.  "Nothing stored" is no document.
THEOREM RoomKeeps ==
  ASSUME None \notin SUBSET Item PROVE Spec => []KeptAtRest
<1> DEFINE I == Typed /\ (Clean => Kept)
<1>1. Init => I
  BY InitTyped, InitKept
<1>2. I /\ [Next]_vars => I'
  <2> SUFFICES ASSUME Typed, Clean => Kept, [Next]_vars PROVE Typed' /\ (Clean' => Kept')
    OBVIOUS
  <2>1. Typed'
    BY StepTyped
  <2>2. ASSUME Clean' PROVE Kept'
    <3>1. Clean
      BY <2>2, ExcuseGrows DEF Clean
    <3> QED
      BY <2>2, <3>1, StepKept DEF Texts
  <2> QED
    BY <2>1, <2>2
<1>3. I => KeptAtRest
  BY RestKeeps DEF Texts
<1> QED
  BY <1>1, <1>2, <1>3, PTL DEF Spec
================================================================================
