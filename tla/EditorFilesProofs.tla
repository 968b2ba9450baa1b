--------------------------- MODULE EditorFilesProofs ---------------------------
(***************************************************************************)
(* Theorems about the files of a page, for any paths, files, operations    *)
(* and saves on their way, any failures and any order of the answers.      *)
(***************************************************************************)
EXTENDS EditorFiles, SequenceTheorems, FiniteSetTheorems, TLAPS

USE DEF vars, server, page, bounds

-----------------------------------------------------------------------------
(* Paths.                                                                  *)

\* Some element of a set of positions is the first: without one, the numbers
\* below all positions would be as many as those without 0.
LEMMA LeastPosition ==
  ASSUME NEW n \in Nat, NEW S \in SUBSET (1..n), S # {}
  PROVE  Min(S) \in S
<1>1. SUFFICES \E x \in S : \A y \in S : x <= y
  BY DEF Min
<1> SUFFICES ASSUME \A x \in S : \E y \in S : ~ (x <= y) PROVE FALSE
  OBVIOUS
<1> DEFINE D == {k \in 0..n : \A y \in S : k < y}
           f == [k \in D |-> k + 1]
<1>2. 0 \in D /\ D \subseteq 0..n
  OBVIOUS
<1>3. \A k \in D : k + 1 \in D
  <2> TAKE k \in D
  <2>1. \A y \in S : k + 1 <= y
    OBVIOUS
  <2>2. k + 1 \notin S
    <3> SUFFICES ASSUME k + 1 \in S PROVE FALSE
      OBVIOUS
    <3>1. PICK y \in S : ~ (k + 1 <= y)
      OBVIOUS
    <3> QED
      BY <2>1, <3>1
  <2>3. \A y \in S : k + 1 < y
    BY <2>1, <2>2
  <2>4. PICK y \in S : TRUE
    OBVIOUS
  <2>5. k + 1 \in 0..n
    BY <2>1, <2>4
  <2> QED
    BY <2>3, <2>5
<1>4. \A k \in D : k # 0 => k - 1 \in D
  OBVIOUS
<1>5. IsFiniteSet(D) /\ Cardinality(D) \in Nat
  <2>1. IsFiniteSet(0..n) /\ D \in SUBSET (0..n)
    BY <1>2, FS_Interval
  <2> QED
    BY <2>1, FS_Subset, FS_CardinalityType
<1> HIDE DEF D
<1>6. f \in Bijection(D, D \ {0})
  <2>1. f \in [D -> D \ {0}]
    BY <1>2, <1>3
  <2>2. \A a, b \in D : f[a] = f[b] => a = b
    BY <1>2
  <2>3. \A t \in D \ {0} : \E k \in D : f[k] = t
    <3> TAKE t \in D \ {0}
    <3>1. t - 1 \in D /\ f[t - 1] = t
      BY <1>2, <1>4
    <3> QED
      BY <3>1
  <2> QED
    BY <2>1, <2>2, <2>3 DEF Bijection, Injection, Surjection, IsInjective
<1>7. Cardinality(D \ {0}) = Cardinality(D)
  BY <1>5, <1>6, FS_Bijection DEF ExistsBijection
<1>8. Cardinality(D \ {0}) = Cardinality(D) - 1
  BY <1>2, <1>5, FS_RemoveElement
<1> QED
  BY <1>5, <1>7, <1>8

\* The paths are finitely many.
LEMMA FinitePaths == ASSUME NEW S \in SUBSET Path PROVE IsFiniteSet(S) /\ Cardinality(S) \in Nat
<1>1. Len(Order) \in Nat /\ DOMAIN Order = 1..Len(Order)
  BY PathAssumption, LenProperties
<1> DEFINE D == 1..Len(Order)
<1>2. IsFiniteSet(D)
  BY <1>1, FS_Interval
<1>3. Order \in Surjection(D, Path)
  BY <1>1, PathAssumption DEF Path, Range, Surjection
<1>4. IsFiniteSet(Path)
  BY <1>2, <1>3, FS_Surjection
<1> QED
  BY <1>4, FS_Subset, FS_CardinalityType

\* The first of some paths, as the server sorts them, is one of them.
LEMMA FirstIsOne ==
  ASSUME NEW S, S \cap Path # {}
  PROVE  First(S) \in S \cap Path
<1> DEFINE at == {i \in 1 .. Len(Order) : Order[i] \in S}
<1>1. Len(Order) \in Nat /\ DOMAIN Order = 1..Len(Order)
  BY PathAssumption, LenProperties
<1>2. PICK p \in S \cap Path : TRUE
  OBVIOUS
<1>3. PICK i \in 1..Len(Order) : Order[i] = p
  BY <1>1, <1>2 DEF Path, Range
<1>4. at # {} /\ at \in SUBSET (1..Len(Order))
  BY <1>2, <1>3
<1>5. Min(at) \in at
  BY <1>1, <1>4, LeastPosition
<1>6. Order[Min(at)] \in S /\ Min(at) \in DOMAIN Order
  BY <1>1, <1>5
<1> QED
  BY <1>6 DEF First, Path, Range

LEMMA FirstOrIsOne ==
  ASSUME NEW S, NEW T, NEW d
  PROVE  IF S \cap T \cap Path # {} THEN FirstOr(S, T, d) \in S \cap T \cap Path
         ELSE S \cap T = {} => FirstOr(S, T, d) = d
BY FirstIsOne DEF FirstOr

\* The paths of an archive in some order.
LEMMA Ordered ==
  ASSUME NEW S \in SUBSET Path
  PROVE  SetToSeq(S) \in [1..Cardinality(S) -> S] /\ IsInjective(SetToSeq(S))
<1>1. IsFiniteSet(S) /\ Cardinality(S) \in Nat
  BY FinitePaths
<1>2. PICK n \in Nat : ExistsBijection(1..n, S)
  BY <1>1, FS_NatBijection
<1>3. n = Cardinality(S)
  BY <1>2, FS_CountingElements
<1>4. PICK f : f \in Bijection(1..n, S)
  BY <1>2 DEF ExistsBijection
<1>5. f \in [1..Cardinality(S) -> S] /\ IsInjective(f)
  BY <1>3, <1>4 DEF Bijection, Injection
<1> QED
  BY <1>5 DEF SetToSeq

\* What is left when a save has landed, or an operation has ended: the others, in
\* their order.
LEMMA Rest ==
  ASSUME NEW S, NEW s \in Seq(S), NEW k \in 1..Len(s)
  PROVE  LET t == RemoveAt(s, k)
         IN /\ t \in Seq(S) /\ Len(t) = Len(s) - 1
            /\ \A i \in 1..Len(t) : t[i] = s[IF i < k THEN i ELSE i + 1]
<1> DEFINE l == SubSeq(s, 1, k - 1)
           r == SubSeq(s, k + 1, Len(s))
           t == l \o r
<1>1. Len(s) \in Nat /\ k \in Nat /\ 1 <= k /\ k <= Len(s)
      /\ \A i \in 1..Len(s) : s[i] \in S
  BY LenProperties
<1>2. l \in Seq(S) /\ Len(l) = k - 1 /\ \A i \in 1..(k - 1) : l[i] = s[i]
  BY <1>1, SubSeqProperties
<1>3. /\ r \in Seq(S) /\ Len(r) = Len(s) - k
      /\ \A i \in 1..(Len(s) - k) : r[i] = s[i + k]
  <2>1. /\ r \in Seq(S) /\ Len(r) = IF k + 1 <= Len(s) THEN Len(s) - (k + 1) + 1 ELSE 0
        /\ \A i \in 1..(Len(s) - (k + 1) + 1) : r[i] = s[(k + 1) + i - 1]
    <3>1. \A i \in (k + 1)..Len(s) : s[i] \in S
      BY <1>1
    <3> QED
    BY <1>1, <3>1, SubSeqProperties
  <2> HIDE DEF r
  <2>2. Len(r) = Len(s) - k
    <3>1. CASE k + 1 <= Len(s)
      BY <1>1, <2>1, <3>1
    <3>2. CASE k = Len(s)
      BY <1>1, <2>1, <3>2
    <3>3. \A n \in Nat : k <= n => k + 1 <= n \/ k = n
      BY <1>1
    <3>4. k + 1 <= Len(s) \/ k = Len(s)
      BY <1>1, <3>3
    <3> QED
    BY <3>1, <3>2, <3>4
  <2>3. ASSUME NEW i \in 1..(Len(s) - k) PROVE r[i] = s[i + k]
    <3>1. i \in 1..(Len(s) - (k + 1) + 1) /\ (k + 1) + i - 1 = i + k
      BY <1>1
    <3> QED
    BY <2>1, <3>1
  <2> QED
  BY <2>1, <2>2, <2>3
<1> HIDE DEF l, r
<1>4. /\ t \in Seq(S) /\ Len(t) = Len(l) + Len(r)
      /\ \A i \in 1..(Len(l) + Len(r)) : t[i] = IF i <= Len(l) THEN l[i] ELSE r[i - Len(l)]
  BY <1>2, <1>3, ConcatProperties
<1> HIDE DEF t
<1>5. Len(t) = Len(s) - 1
  BY <1>1, <1>2, <1>3, <1>4
<1>6. ASSUME NEW i \in 1..Len(t) PROVE t[i] = s[IF i < k THEN i ELSE i + 1]
  <2>1. CASE i < k
    <3>1. i \in 1..(k - 1) /\ i <= Len(l) /\ i \in 1..(Len(l) + Len(r))
      BY <1>1, <1>2, <1>3, <1>5, <2>1
    <3> QED
    BY <1>2, <1>4, <2>1, <3>1
  <2>2. CASE ~(i < k)
    <3>1. i - (k - 1) \in 1..(Len(s) - k) /\ i - (k - 1) + k = i + 1
          /\ ~(i <= Len(l)) /\ i \in 1..(Len(l) + Len(r)) /\ i - Len(l) = i - (k - 1)
      BY <1>1, <1>2, <1>3, <1>5, <2>2
    <3>2. t[i] = r[i - (k - 1)]
      BY <1>4, <3>1
    <3>3. r[i - (k - 1)] = s[i + 1]
      BY <1>3, <3>1
    <3> QED
    BY <2>2, <3>2, <3>3
  <2> QED
  BY <2>1, <2>2
<1>7. RemoveAt(s, k) = t
  BY DEF RemoveAt, t, l, r
<1> QED
BY <1>4, <1>5, <1>6, <1>7

-----------------------------------------------------------------------------
(* Operations.                                                             *)

Own(p) == [doc : {p} \cup Nobodys, ver : Nat]
Sends == {put \in [path : Path, text : Text] : put.text \in Own(put.path)}
Dirs == {SubSeq(p, 1, Len(p) - 1) : p \in Path}

Making == {"newFile", "newFolder", "upload", "drop", "image", "accept"}
Moving == {"rename", "move"}
Kinds == Making \cup Moving \cup {"delete", "deleteFolder", "setMain", "import", "restore"}
Gets == {"getText", "getRaw"}

\* What a rename or a move has left: with the new main file to be set, and without.
MovesMain ==
    {<<g>> \o <<"put", "del", "patch", "list">> : g \in Gets}
      \cup {<<"put", "del", "patch", "list">>, <<"del", "patch", "list">>, <<"patch", "list">>}
MovesLeft ==
    MovesMain
      \cup {<<g>> \o <<"put", "del", "list">> : g \in Gets}
      \cup {<<"put", "del", "list">>, <<"del", "list">>, <<"list">>}

Todos ==
    MovesLeft \cup {<<"put", "list">>, <<"delDir", "list", "check">>, <<"list", "check">>,
                    <<"check">>, <<"patch">>, <<"unpack", "main", "list">>, <<"main", "list">>,
                    <<"unpack", "list">>}

OpSet == [kind : Kinds, from : Path \cup {None} \cup Dirs, to : Path \cup {None},
          texts : Seq(Sends), todo : Todos, sent : Nat, main : Path,
          active : Path \cup {None}, next : Path \cup {None}, clean : BOOLEAN]

\* The requests an operation has left.
Left(kind, todo) ==
    \/ kind \in Making /\ todo \in {<<"put", "list">>, <<"list">>}
    \/ kind \in Moving /\ todo \in MovesLeft
    \/ kind = "delete" /\ todo \in {<<"del", "list">>, <<"list">>}
    \/ kind = "deleteFolder" /\ todo \in {<<"delDir", "list", "check">>, <<"list", "check">>,
                                          <<"check">>, <<"patch">>}
    \/ kind = "setMain" /\ todo = <<"patch">>
    \/ kind = "import" /\ todo \in {<<"unpack", "main", "list">>, <<"main", "list">>, <<"list">>}
    \/ kind = "restore" /\ todo \in {<<"unpack", "list">>, <<"list">>}

\* The request that an operation makes next.
Now(o) == Head(o.todo)

Split(t, h, r) == t # <<>> /\ Head(t) = h /\ Tail(t) = r

\* A request before the others.
LEMMA Before ==
  ASSUME NEW S, NEW g \in S, NEW r \in Seq(S)
  PROVE  LET t == <<g>> \o r
         IN  t # <<>> /\ Head(t) = g /\ Tail(t) = r
<1> DEFINE t == <<g>> \o r
<1>1. <<g>> \in Seq(S) /\ Len(<<g>>) = 1 /\ <<g>>[1] = g
  OBVIOUS
<1>2. Len(r) \in Nat
  BY LenProperties
<1>3. /\ t \in Seq(S) /\ Len(t) = 1 + Len(r)
      /\ \A i \in 1..(1 + Len(r)) : t[i] = IF i <= 1 THEN <<g>>[i] ELSE r[i - 1]
  BY <1>1, <1>2, ConcatProperties
<1> HIDE DEF t
<1>4. t # <<>> /\ t[1] = g /\ \A i \in 1..Len(r) : t[i + 1] = r[i]
  <2>1. t[1] = g
    BY <1>1, <1>2, <1>3
  <2>2. ASSUME NEW i \in 1..Len(r) PROVE t[i + 1] = r[i]
    <3>1. i + 1 \in 1..(1 + Len(r)) /\ ~(i + 1 <= 1) /\ (i + 1) - 1 = i
      BY <1>2
    <3> QED
      BY <1>3, <3>1
  <2>3. t # <<>>
    BY <1>2, <1>3, EmptySeq
  <2> QED
    BY <2>1, <2>2, <2>3
<1>5. Head(t) = g
  BY <1>3, <1>4
<1>6. /\ Tail(t) \in Seq(S) /\ Len(Tail(t)) = Len(r)
      /\ \A i \in 1..Len(r) : Tail(t)[i] = t[i + 1]
  BY <1>2, <1>3, <1>4, HeadTailProperties
<1>7. Tail(t) = r
  BY <1>4, <1>6, SeqEqual
<1> QED
  BY <1>4, <1>5, <1>7 DEF t

LEMMA Tuples ==
  /\ \A S : \A a, b, c \in S : <<a, b, c>> \in Seq(S)
  /\ \A S : \A a, b, c, d \in S : <<a, b, c, d>> \in Seq(S)
OBVIOUS

LEMMA Splits ==
  /\ Split(<<"list">>, "list", <<>>)
  /\ Split(<<"check">>, "check", <<>>)
  /\ Split(<<"patch">>, "patch", <<>>)
  /\ Split(<<"put", "list">>, "put", <<"list">>)
  /\ Split(<<"del", "list">>, "del", <<"list">>)
  /\ Split(<<"main", "list">>, "main", <<"list">>)
  /\ Split(<<"patch", "list">>, "patch", <<"list">>)
  /\ Split(<<"unpack", "list">>, "unpack", <<"list">>)
  /\ Split(<<"list", "check">>, "list", <<"check">>)
  /\ Split(<<"delDir", "list", "check">>, "delDir", <<"list", "check">>)
  /\ Split(<<"unpack", "main", "list">>, "unpack", <<"main", "list">>)
  /\ Split(<<"del", "patch", "list">>, "del", <<"patch", "list">>)
  /\ Split(<<"put", "del", "list">>, "put", <<"del", "list">>)
  /\ Split(<<"put", "del", "patch", "list">>, "put", <<"del", "patch", "list">>)
  /\ \A g \in Gets : Split(<<g>> \o <<"put", "del", "list">>, g, <<"put", "del", "list">>)
  /\ \A g \in Gets : Split(<<g>> \o <<"put", "del", "patch", "list">>, g, <<"put", "del", "patch", "list">>)
<1>1. /\ Split(<<"list">>, "list", <<>>)
      /\ Split(<<"check">>, "check", <<>>)
      /\ Split(<<"patch">>, "patch", <<>>)
      /\ Split(<<"put", "list">>, "put", <<"list">>)
      /\ Split(<<"del", "list">>, "del", <<"list">>)
      /\ Split(<<"main", "list">>, "main", <<"list">>)
      /\ Split(<<"patch", "list">>, "patch", <<"list">>)
      /\ Split(<<"unpack", "list">>, "unpack", <<"list">>)
      /\ Split(<<"list", "check">>, "list", <<"check">>)
      /\ Split(<<"delDir", "list", "check">>, "delDir", <<"list", "check">>)
      /\ Split(<<"unpack", "main", "list">>, "unpack", <<"main", "list">>)
      /\ Split(<<"del", "patch", "list">>, "del", <<"patch", "list">>)
      /\ Split(<<"put", "del", "list">>, "put", <<"del", "list">>)
      /\ Split(<<"put", "del", "patch", "list">>, "put", <<"del", "patch", "list">>)
  BY DEF Split
<1> DEFINE S == Gets \cup {"put", "del", "patch", "list"}
<1>2. "put" \in S /\ "del" \in S /\ "patch" \in S /\ "list" \in S /\ \A g \in Gets : g \in S
  OBVIOUS
<1> HIDE DEF S
<1>3. <<"put", "del", "list">> \in Seq(S) /\ <<"put", "del", "patch", "list">> \in Seq(S)
  BY <1>2, Tuples
<1>4. \A g \in Gets : /\ Split(<<g>> \o <<"put", "del", "list">>, g, <<"put", "del", "list">>)
                      /\ Split(<<g>> \o <<"put", "del", "patch", "list">>, g,
                               <<"put", "del", "patch", "list">>)
  BY <1>2, <1>3, Before DEF Split
<1> QED
  BY <1>1, <1>4

\* What is next, and what comes after it.
LEMMA Turns ==
  ASSUME NEW kind, NEW t, Left(kind, t)
  PROVE  /\ t # <<>> /\ t \in Todos
         /\ Tail(t) = <<>> \/ Left(kind, Tail(t))
         /\ Head(t) \in Gets => kind \in Moving /\ Tail(t) # <<>> /\ Head(Tail(t)) = "put"
         /\ Head(t) = "put" => /\ kind \in Making \cup Moving /\ Tail(t) # <<>>
                               /\ Head(Tail(t)) = IF kind \in Moving THEN "del" ELSE "list"
         /\ Head(t) = "del" => /\ kind \in Moving \cup {"delete"} /\ Tail(t) # <<>>
                               /\ \/ Head(Tail(t)) = "list"
                                  \/ Head(Tail(t)) = "patch" /\ kind \in Moving
         /\ Head(t) = "delDir" => kind = "deleteFolder" /\ Tail(t) # <<>> /\ Head(Tail(t)) = "list"
         /\ Head(t) = "check" => kind = "deleteFolder" /\ Tail(t) = <<>>
         /\ Head(t) = "patch" => \/ kind \in {"deleteFolder", "setMain"} /\ Tail(t) = <<>>
                                 \/ kind \in Moving /\ Tail(t) # <<>> /\ Head(Tail(t)) = "list"
         /\ Head(t) = "unpack" => /\ kind \in {"import", "restore"} /\ Tail(t) # <<>>
                                  /\ Head(Tail(t)) \in {"main", "list"}
         /\ Head(t) = "main" => kind = "import" /\ Tail(t) # <<>> /\ Head(Tail(t)) = "list"
         /\ Head(t) = "list" => \/ Tail(t) = <<>> /\ kind # "deleteFolder"
                                \/ /\ kind = "deleteFolder" /\ Tail(t) # <<>>
                                   /\ Head(Tail(t)) = "check"
<1>1. CASE kind \in Making
  <2>1. CASE t = <<"put", "list">>
    BY <1>1, <2>1, Splits DEF Left, Split, Making, Moving, Gets, Todos, MovesLeft, MovesMain
  <2>2. CASE t = <<"list">>
    BY <1>1, <2>2, Splits DEF Left, Split, Making, Moving, Gets, Todos, MovesLeft, MovesMain
  <2> QED
    BY <1>1, <2>1, <2>2 DEF Left, Making, Moving
<1>2. CASE kind \in Moving
  <2>1. CASE \E g \in Gets : t = <<g>> \o <<"put", "del", "patch", "list">>
    <3> PICK g \in Gets : t = <<g>> \o <<"put", "del", "patch", "list">>
      BY <2>1
    <3>1. Split(t, g, <<"put", "del", "patch", "list">>)
      BY Splits
    <3>2. t \in Todos /\ <<"put", "del", "patch", "list">> \in MovesLeft
      BY DEF Todos, MovesLeft, MovesMain
    <3>3. Split(<<"put", "del", "patch", "list">>, "put", <<"del", "patch", "list">>)
      BY Splits
    <3> QED
      BY <1>2, <3>1, <3>2, <3>3 DEF Left, Split, Making, Moving, Gets
  <2>2. CASE \E g \in Gets : t = <<g>> \o <<"put", "del", "list">>
    <3> PICK g \in Gets : t = <<g>> \o <<"put", "del", "list">>
      BY <2>2
    <3>1. Split(t, g, <<"put", "del", "list">>)
      BY Splits
    <3>2. t \in Todos /\ <<"put", "del", "list">> \in MovesLeft
      BY DEF Todos, MovesLeft, MovesMain
    <3>3. Split(<<"put", "del", "list">>, "put", <<"del", "list">>)
      BY Splits
    <3> QED
      BY <1>2, <3>1, <3>2, <3>3 DEF Left, Split, Making, Moving, Gets
  <2>3. CASE t = <<"put", "del", "patch", "list">>
    <3>1. Split(t, "put", <<"del", "patch", "list">>)
          /\ Split(<<"del", "patch", "list">>, "del", <<"patch", "list">>)
      BY <2>3, Splits
    <3>2. t \in Todos /\ <<"del", "patch", "list">> \in MovesLeft
      BY <2>3 DEF Todos, MovesLeft, MovesMain
    <3> QED
      BY <1>2, <3>1, <3>2 DEF Left, Split, Making, Moving, Gets
  <2>4. CASE t = <<"put", "del", "list">>
    <3>1. Split(t, "put", <<"del", "list">>)
          /\ Split(<<"del", "list">>, "del", <<"list">>)
      BY <2>4, Splits
    <3>2. t \in Todos /\ <<"del", "list">> \in MovesLeft
      BY <2>4 DEF Todos, MovesLeft, MovesMain
    <3> QED
      BY <1>2, <3>1, <3>2 DEF Left, Split, Making, Moving, Gets
  <2>5. CASE t = <<"del", "patch", "list">>
    <3>1. Split(t, "del", <<"patch", "list">>)
          /\ Split(<<"patch", "list">>, "patch", <<"list">>)
      BY <2>5, Splits
    <3>2. t \in Todos /\ <<"patch", "list">> \in MovesLeft
      BY <2>5 DEF Todos, MovesLeft, MovesMain
    <3> QED
      BY <1>2, <3>1, <3>2 DEF Left, Split, Making, Moving, Gets
  <2>6. CASE t = <<"del", "list">>
    <3>1. Split(t, "del", <<"list">>) /\ Split(<<"list">>, "list", <<>>)
      BY <2>6, Splits
    <3>2. t \in Todos /\ <<"list">> \in MovesLeft
      BY <2>6 DEF Todos, MovesLeft, MovesMain
    <3> QED
      BY <1>2, <3>1, <3>2 DEF Left, Split, Making, Moving, Gets
  <2>7. CASE t = <<"patch", "list">>
    <3>1. Split(t, "patch", <<"list">>) /\ Split(<<"list">>, "list", <<>>)
      BY <2>7, Splits
    <3>2. t \in Todos /\ <<"list">> \in MovesLeft
      BY <2>7 DEF Todos, MovesLeft, MovesMain
    <3> QED
      BY <1>2, <3>1, <3>2 DEF Left, Split, Making, Moving, Gets
  <2>8. CASE t = <<"list">>
    <3>1. Split(t, "list", <<>>)
      BY <2>8, Splits
    <3>2. t \in Todos
      BY <2>8 DEF Todos, MovesLeft, MovesMain
    <3> QED
      BY <1>2, <3>1, <3>2 DEF Left, Split, Making, Moving, Gets
  <2>9. t \in MovesLeft
    BY <1>2 DEF Left, Making, Moving
  <2> QED
    BY <2>1, <2>2, <2>3, <2>4, <2>5, <2>6, <2>7, <2>8, <2>9 DEF MovesLeft, MovesMain
<1>3. CASE kind = "delete"
  <2>1. t = <<"del", "list">> \/ t = <<"list">>
    BY <1>3 DEF Left, Making, Moving
  <2> QED
    BY <1>3, <2>1, Splits DEF Left, Split, Making, Moving, Gets, Todos, MovesLeft, MovesMain
<1>4. CASE kind = "deleteFolder"
  <2>1. \/ t = <<"delDir", "list", "check">> \/ t = <<"list", "check">>
        \/ t = <<"check">> \/ t = <<"patch">>
    BY <1>4 DEF Left, Making, Moving
  <2> QED
    BY <1>4, <2>1, Splits DEF Left, Split, Making, Moving, Gets, Todos, MovesLeft, MovesMain
<1>5. CASE kind = "setMain"
  <2>1. t = <<"patch">>
    BY <1>5 DEF Left, Making, Moving
  <2> QED
    BY <1>5, <2>1, Splits DEF Left, Split, Making, Moving, Gets, Todos, MovesLeft, MovesMain
<1>6. CASE kind = "import"
  <2>1. t = <<"unpack", "main", "list">> \/ t = <<"main", "list">> \/ t = <<"list">>
    BY <1>6 DEF Left, Making, Moving
  <2> QED
    BY <1>6, <2>1, Splits DEF Left, Split, Making, Moving, Gets, Todos, MovesLeft, MovesMain
<1>7. CASE kind = "restore"
  <2>1. t = <<"unpack", "list">> \/ t = <<"list">>
    BY <1>7 DEF Left, Making, Moving
  <2> QED
    BY <1>7, <2>1, Splits DEF Left, Split, Making, Moving, Gets, Todos, MovesLeft, MovesMain
<1> QED
  BY <1>1, <1>2, <1>3, <1>4, <1>5, <1>6, <1>7 DEF Left

\* An operation as the page may hold it.
Sound(o) ==
    /\ o \in OpSet
    /\ Left(o.kind, o.todo)
    /\ o.sent <= Len(o.texts)
    /\ \A j, k \in DOMAIN o.texts : o.texts[j].path = o.texts[k].path => j = k
    /\ Now(o) = "put" => o.sent < Len(o.texts)
    /\ Now(o) = "patch" => o.to \in Path
    /\ o.kind \in Moving =>
         /\ o.from \in Path /\ o.to \in Path /\ o.from # o.to
         /\ Now(o) \notin Gets => Len(o.texts) = 1 /\ o.texts[1].path = o.to
         /\ o.sent = IF Now(o) \in Gets \cup {"put"} THEN 0 ELSE 1
    /\ o.kind \in {"newFile", "upload", "image"} => o.to \in Path
    /\ o.kind = "image" => o.to \in Binary /\ Len(o.texts) = 1
    /\ o.kind = "delete" => o.from \in Path /\ o.next \in Path
    /\ o.kind \in {"import", "restore"} =>
         o.sent = 0 /\ \A j \in DOMAIN o.texts : o.texts[j].path \in Archive
    /\ o.kind \in {"delete", "deleteFolder", "setMain"} => o.sent = 0

\* A text of each path, or none, that belongs to the path or to nobody.
Owned(f) == f \in [Path -> Text \cup {None}] /\ \A p \in Path : f[p] \in Own(p) \cup {None}

ServerTyped == Owned(stored) /\ main \in Path
PageTyped ==
    /\ Owned(models) /\ mainPath \in Path /\ files \subseteq Path /\ active \in Path \cup {None}
    /\ load = None \/ load \in [path : Path, got : Text \cup {None}]
    /\ load # None => load.path = active /\ load.got \in Own(active) \cup {None}
    /\ timer \in {None, active}
OpsTyped == ops \in Seq(OpSet) /\ \A i \in DOMAIN ops : Sound(ops[i])
RestTyped ==
    /\ env \in Envs /\ mount \subseteq {"main", "files", "role"}
    /\ puts \in Seq(Sends) /\ Owned(proposals)
    /\ fresh \in Nat /\ excuse \subseteq Excuses
Typed == ServerTyped /\ PageTyped /\ OpsTyped /\ RestTyped

\* No text is None: that would be a text.
LEMMA OwnTexts ==
  ASSUME NEW p \in Path
  PROVE  Own(p) \subseteq Text /\ Empty \in Own(p) /\ Preview \in Own(p) /\ Garbled \in Own(p)
BY DEF Own, Text, Docs, Nobodys, Empty, Preview, Garbled

LEMMA NewOwned == ASSUME fresh \in Nat, NEW p \in Path PROVE New(p) \in Own(p)
BY DEF New, Own

LEMMA TakenOwned ==
  ASSUME NEW p \in Path, NEW q \in Path, NEW t \in Own(p) PROVE Taken(t, q) \in Own(q)
<1>1. CASE t.doc \in Path
  BY <1>1 DEF Own, Taken
<1>2. CASE t.doc \notin Path
  BY <1>2 DEF Own, Taken
<1> QED
  BY <1>1, <1>2

-----------------------------------------------------------------------------
(* Rendering.                                                              *)

LEMMA SettleIn ==
  ASSUME NEW fs \in SUBSET Path, NEW mp \in Path, NEW a \in Path \cup {None}
  PROVE  Settle(fs, mp, a) \in Path \cup {None} /\ (a # None => Settle(fs, mp, a) \in Path)
BY FirstIsOne DEF Settle

LEMMA OpenedOwned ==
  ASSUME NEW ms, Owned(ms), NEW a \in Path PROVE Owned(Opened(a, ms))
BY OwnTexts DEF Owned, Opened

LEMMA ShowTyped ==
  ASSUME PageTyped, NEW ms, Owned(ms), NEW a \in Path, NEW b \in Path, Show(a, b, ms),
         mainPath' \in Path, files' \subseteq Path
  PROVE  PageTyped'
<1>1. active' = b
  BY DEF Show
<1>2. CASE a = active /\ b = active
  <2>1. models' = ms /\ UNCHANGED <<active, load, timer>>
    BY <1>1, <1>2 DEF Show
  <2> QED
    BY <2>1 DEF PageTyped
<1>3. CASE ~ (a = active /\ b = active)
  <2>1. Owned(models')
    <3>1. models' = Opened(b, IF a = active THEN ms ELSE Opened(a, ms))
      BY <1>3 DEF Show
    <3> QED
      BY <3>1, OpenedOwned
  <2>2. timer' = None /\ load' = IF b \in Binary THEN None ELSE [path |-> b, got |-> None]
    BY <1>3 DEF Show
  <2> QED
    BY <1>1, <2>1, <2>2 DEF PageTyped
<1> QED
  BY <1>2, <1>3

LEMMA RenderTyped ==
  ASSUME PageTyped, NEW ms, Owned(ms), NEW fs \in SUBSET Path, NEW mp \in Path,
         NEW a \in Path \cup {None}, NEW b \in Path \cup {None}, Page(fs, mp, a, b, ms)
  PROVE  PageTyped'
<1>1. files' = fs /\ mainPath' = mp
  BY DEF Page
<1>2. CASE b = None
  BY <1>1, <1>2 DEF Page, PageTyped
<1>3. CASE b # None
  <2>1. PICK c \in Path : c = (IF a = None THEN b ELSE a) /\ b \in Path
    BY <1>3
  <2>2. Show(c, b, ms)
    BY <1>3, <2>1 DEF Page
  <2> QED
    BY <1>1, <2>1, <2>2, ShowTyped
<1> QED
  BY <1>2, <1>3

LEMMA RendersTyped ==
  ASSUME PageTyped, NEW ms, Owned(ms), NEW a \in Path \cup {None}
  PROVE  /\ \A fs \in SUBSET Path : ShowList(fs, a, ms) => PageTyped'
         /\ ShowPath(a, ms) => PageTyped'
         /\ \A mp \in Path : ShowMain(mp, a, ms) => PageTyped'
<1>1. mainPath \in Path /\ files \in SUBSET Path
  BY DEF PageTyped
<1>2. ASSUME NEW fs \in SUBSET Path, ShowList(fs, a, ms) PROVE PageTyped'
  BY <1>1, <1>2, RenderTyped, SettleIn DEF ShowList
<1>3. ASSUME ShowPath(a, ms) PROVE PageTyped'
  BY <1>1, <1>3, RenderTyped DEF ShowPath
<1>4. ASSUME NEW mp \in Path, ShowMain(mp, a, ms) PROVE PageTyped'
  <2>1. PICK b \in Path \cup {None} : b = IF mp = mainPath THEN a ELSE Settle(files, mp, a)
    BY <1>1, SettleIn
  <2> QED
    BY <1>1, <1>4, <2>1, RenderTyped DEF ShowMain
<1> QED
  BY <1>2, <1>3, <1>4

LEMMA ProjectTyped ==
  ASSUME PageTyped, NEW mp \in Path, ShowProject(mp)
  PROVE  PageTyped'
<1>1. /\ mainPath \in Path /\ files \in SUBSET Path /\ Owned(models)
      /\ active \in Path \cup {None}
  BY DEF PageTyped
<1>2. CASE ShowMain(mp, active, models)
  BY <1>1, <1>2, RendersTyped
<1>3. CASE ~ ShowMain(mp, active, models)
  <2>1. active \in Path /\ active # None
    BY <1>1, <1>3 DEF ShowProject
  <2>2. PICK b \in Path : b = IF mp = mainPath THEN active ELSE Settle(files, mp, active)
    BY <1>1, <2>1, SettleIn, PathAssumption
  <2>3. /\ files' = files /\ mainPath' = mp /\ active' = b /\ timer' = None
        /\ models' = Opened(b, Opened(active, models))
        /\ load' = IF b \in Binary THEN None ELSE [path |-> b, got |-> None]
    BY <1>3, <2>2 DEF ShowProject
  <2>4. Owned(models')
    BY <1>1, <2>1, <2>3, OpenedOwned
  <2> QED
    BY <1>1, <2>3, <2>4 DEF PageTyped
<1> QED
  BY <1>2, <1>3

\* What a request for the list brings.
LEMMA Listing ==
  ASSUME NEW out \in Answers, NEW fs \in Listings(out)
  PROVE  fs \in SUBSET Path /\ (out = "ok" => fs = Existing)
BY DEF Answers, Listings, Existing

LEMMA NewPageTyped == ASSUME NewPage PROVE PageTyped' /\ mount' \subseteq {"main", "files", "role"}
BY PathAssumption DEF NewPage, PageTyped, Owned

-----------------------------------------------------------------------------
(* The operations that a step leaves behind.                               *)

\* o after a step that changes the paths ps: soiled if it uses one of them.
Soiled(o) == [o EXCEPT !.clean = FALSE]
After(o, q, ps) == q = Soiled(o) \/ (q = o /\ Uses(o) \cap ps = {})

LEMMA SoiledSound == ASSUME NEW o, Sound(o) PROVE Sound(Soiled(o))
<1> DEFINE q == Soiled(o)
<1>1. o \in OpSet
  BY DEF Sound
<1>2. /\ q \in OpSet /\ q.kind = o.kind /\ q.from = o.from /\ q.to = o.to /\ q.texts = o.texts
      /\ q.todo = o.todo /\ q.sent = o.sent /\ q.next = o.next
  BY <1>1 DEF Soiled, OpSet
<1>3. Now(q) = Now(o)
  BY <1>2 DEF Now
<1> HIDE DEF q
<1>4. Sound(q)
  BY <1>2, <1>3 DEF Sound
<1> QED
  BY <1>4 DEF q

LEMMA TouchedOps ==
  ASSUME OpsTyped, NEW i \in Nat, NEW ps
  PROVE  LET os == Touched(ops, i, ps)
         IN  /\ os \in Seq(OpSet) /\ DOMAIN os = DOMAIN ops /\ Len(os) = Len(ops)
             /\ \A j \in DOMAIN ops : j # i => After(ops[j], os[j], ps)
             /\ \A j \in DOMAIN os : Sound(os[j])
<1> DEFINE os == Touched(ops, i, ps)
<1>1. Len(ops) \in Nat /\ DOMAIN ops = 1..Len(ops) /\ \A j \in DOMAIN ops : Sound(ops[j]) /\ ops[j] \in OpSet
  BY LenProperties DEF OpsTyped, Sound
<1>2. DOMAIN os = 1..Len(ops)
      /\ \A j \in DOMAIN ops : os[j] = IF j # i /\ Uses(ops[j]) \cap ps # {} THEN Soiled(ops[j]) ELSE ops[j]
  BY <1>1 DEF Touched, Soiled
<1>3. \A j \in DOMAIN os : Sound(os[j]) /\ os[j] \in OpSet
  BY <1>1, <1>2, SoiledSound DEF Sound
<1>4. os = [j \in 1..Len(ops) |-> os[j]]
  BY <1>1 DEF Touched
<1> HIDE DEF os
<1>5. os \in Seq(OpSet) /\ Len(os) = Len(ops)
  <2>1. os \in [1..Len(ops) -> OpSet]
    BY <1>2, <1>3, <1>4
  <2>2. os \in Seq(OpSet)
    BY <1>1, <2>1, SeqDef
  <2> QED
    BY <1>1, <1>2, <2>2, LenProperties
<1> QED
  BY <1>1, <1>2, <1>3, <1>5 DEF After, os

\* The other operations go on as they were, and so does op if it has more to do.
LEMMA Goes ==
  ASSUME OpsTyped, NEW i \in DOMAIN ops, NEW op, NEW ps, Go(i, op, ps),
         op.todo # <<>> => Sound(op)
  PROVE  /\ OpsTyped'
         /\ \A k \in DOMAIN ops' : \/ ops'[k] = op /\ op.todo # <<>>
                                   \/ \E j \in DOMAIN ops : j # i /\ After(ops[j], ops'[k], ps)
         /\ op.todo # <<>> => \E k \in DOMAIN ops' : ops'[k] = op
         /\ \A j \in DOMAIN ops : j # i => \E k \in DOMAIN ops' : After(ops[j], ops'[k], ps)
         /\ Len(ops) <= 1 => IF op.todo = <<>> THEN ops' = <<>>
                             ELSE Len(ops') = 1 /\ ops'[1] = op
<1> DEFINE os == Touched(ops, i, ps)
<1>1. /\ Len(ops) \in Nat /\ DOMAIN ops = 1..Len(ops) /\ i \in 1..Len(ops) /\ i \in Nat
  BY LenProperties DEF OpsTyped
<1>2. /\ os \in Seq(OpSet) /\ DOMAIN os = DOMAIN ops /\ Len(os) = Len(ops)
      /\ \A j \in DOMAIN ops : j # i => After(ops[j], os[j], ps)
      /\ \A j \in DOMAIN os : Sound(os[j])
  BY <1>1, TouchedOps
<1>3. ops' = IF op.todo = <<>> THEN RemoveAt(os, i) ELSE [os EXCEPT ![i] = op]
  BY DEF Go
<1> HIDE DEF os
<1>4. CASE op.todo = <<>>
  <2>1. /\ ops' \in Seq(OpSet) /\ Len(ops') = Len(ops) - 1
        /\ \A k \in 1..Len(ops') : ops'[k] = os[IF k < i THEN k ELSE k + 1]
    BY <1>1, <1>2, <1>3, <1>4, Rest
  <2>2. Len(ops') \in Nat /\ DOMAIN ops' = 1..Len(ops')
    BY <2>1, LenProperties
  <2>3. ASSUME NEW k \in DOMAIN ops'
        PROVE  \E j \in DOMAIN ops : j # i /\ ops'[k] = os[j]
    <3>1. (IF k < i THEN k ELSE k + 1) \in DOMAIN ops \ {i}
      BY <1>1, <2>1, <2>2
    <3> QED
      BY <2>1, <2>2, <3>1
  <2>4. ASSUME NEW j \in DOMAIN ops, j # i
        PROVE  \E k \in DOMAIN ops' : ops'[k] = os[j]
    <3>1. CASE j < i
      <4>1. j \in 1..Len(ops')
        BY <1>1, <2>1, <2>4, <3>1
      <4> QED
        BY <2>1, <2>2, <3>1, <4>1
    <3>2. CASE ~ (j < i)
      <4>1. j - 1 \in 1..Len(ops') /\ ~ (j - 1 < i) /\ (j - 1) + 1 = j
        BY <1>1, <2>1, <2>4, <3>2
      <4> QED
        BY <2>1, <2>2, <4>1
    <3> QED
      BY <3>1, <3>2
  <2>5. OpsTyped'
    BY <1>2, <2>1, <2>3 DEF OpsTyped
  <2>6. Len(ops) <= 1 => ops' = <<>>
    BY <1>1, <2>1, <2>2, EmptySeq
  <2> QED
    BY <1>2, <1>4, <2>3, <2>4, <2>5, <2>6
<1>5. CASE op.todo # <<>>
  <2>1. Sound(op) /\ op \in OpSet
    BY <1>5 DEF Sound
  <2>2. ops' = [os EXCEPT ![i] = op]
    BY <1>3, <1>5
  <2>3. ops' \in Seq(OpSet) /\ Len(ops') = Len(ops) /\ DOMAIN ops' = DOMAIN ops
        /\ ops'[i] = op /\ \A j \in DOMAIN ops : j # i => ops'[j] = os[j]
    BY <1>1, <1>2, <2>1, <2>2, ExceptSeq
  <2>4. OpsTyped'
    BY <1>2, <2>1, <2>3 DEF OpsTyped
  <2>5. Len(ops) <= 1 => Len(ops') = 1 /\ ops'[1] = op
    BY <1>1, <2>3
  <2>6. /\ \A k \in DOMAIN ops' : \/ ops'[k] = op /\ op.todo # <<>>
                                  \/ \E j \in DOMAIN ops : j # i /\ After(ops[j], ops'[k], ps)
        /\ \A j \in DOMAIN ops : j # i => \E k \in DOMAIN ops' : After(ops[j], ops'[k], ps)
    BY <1>2, <1>5, <2>3
  <2> QED
    BY <1>5, <2>3, <2>4, <2>5, <2>6
<1> QED
  BY <1>4, <1>5

-----------------------------------------------------------------------------
(* What an operation becomes at an answer.                                 *)

LEMMA OpFacts ==
  ASSUME OpsTyped, NEW i \in DOMAIN ops
  PROVE  /\ Sound(ops[i]) /\ ops[i] \in OpSet /\ ops[i].todo # <<>>
         /\ \A r : Turn(i, r) <=> Now(ops[i]) = r
<1>1. Sound(ops[i])
  BY DEF OpsTyped
<1>2. ops[i] \in OpSet /\ ops[i].todo # <<>>
  BY <1>1, Turns DEF Sound
<1> QED
  BY <1>1, <1>2 DEF Turn, Now

LEMMA TailedFields ==
  ASSUME NEW o \in OpSet
  PROVE  LET q == Tailed(o)
         IN  /\ q.todo = Tail(o.todo) /\ q.kind = o.kind /\ q.from = o.from /\ q.to = o.to
             /\ q.texts = o.texts /\ q.sent = o.sent /\ q.main = o.main /\ q.active = o.active
             /\ q.next = o.next /\ q.clean = o.clean
             /\ q.todo \in Todos => q \in OpSet
BY DEF Tailed, OpSet

LEMMA DroppedDone == ASSUME NEW o \in OpSet PROVE Dropped(o).todo = <<>>
BY DEF Dropped, OpSet

LEMMA TailedSound ==
  ASSUME NEW o, Sound(o), Now(o) \notin Gets \cup {"put"}, Tail(o.todo) # <<>>
  PROVE  Sound(Tailed(o))
<1>1. PICK q : q = Tailed(o)
  OBVIOUS
<1>2. o \in OpSet /\ Left(o.kind, o.todo)
  BY DEF Sound
<1>3. Left(o.kind, Tail(o.todo)) /\ Tail(o.todo) \in Todos
  BY <1>2, Turns
<1>4. /\ q.todo = Tail(o.todo) /\ q.kind = o.kind /\ q.from = o.from /\ q.to = o.to
      /\ q.texts = o.texts /\ q.sent = o.sent /\ q.next = o.next /\ q \in OpSet
  BY <1>1, <1>2, <1>3, TailedFields
<1>5. o.kind \in Kinds
  BY <1>2 DEF OpSet
<1>6. Head(q.todo) \in {"list", "patch", "main", "check"} /\ (Head(q.todo) = "patch" => o.kind \in Moving)
  <2>1. Head(o.todo) \in {"del", "delDir", "check", "patch", "unpack", "main", "list"}
    <3>1. Head(o.todo) \notin Gets \cup {"put"}
      BY DEF Now
    <3> QED
      BY <1>2, <3>1, Splits DEF Left, MovesLeft, MovesMain, Split
  <2> QED
    BY <1>2, <1>4, <2>1, Turns
<1> QED
  <2>1. Sound(q)
    BY <1>2, <1>3, <1>4, <1>6 DEF Sound, Now, Gets
  <2> QED
    BY <1>1, <2>1

\* The file of an upload, an acceptance, a rename or a move is stored.
LEMMA SentSound ==
  ASSUME NEW o, Sound(o), Now(o) = "put"
  PROVE  LET q == [o EXCEPT !.sent = @ + 1]
             r == IF q.sent = Len(o.texts) THEN Tailed(q) ELSE q
         IN  /\ r.todo # <<>> /\ Sound(r)
             /\ o.sent + 1 \in DOMAIN o.texts /\ o.texts[o.sent + 1] \in Sends
             /\ r.sent = o.sent + 1 /\ r.kind = o.kind /\ r.from = o.from /\ r.texts = o.texts
             /\ r.to = o.to /\ r.clean = o.clean /\ r.main = o.main
             /\ r.todo = IF q.sent = Len(o.texts) THEN Tail(o.todo) ELSE o.todo
             /\ o.kind \in Making \cup Moving /\ (o.kind \in Moving => q.sent = Len(o.texts))
<1>0. PICK q, r : q = [o EXCEPT !.sent = @ + 1] /\ r = IF q.sent = Len(o.texts) THEN Tailed(q) ELSE q
  OBVIOUS
<1>1. o \in OpSet /\ Left(o.kind, o.todo) /\ o.sent < Len(o.texts) /\ o.texts \in Seq(Sends) /\ o.sent \in Nat
  BY DEF Sound, OpSet
<1>2. Len(o.texts) \in Nat /\ DOMAIN o.texts = 1..Len(o.texts)
      /\ o.texts \in [1..Len(o.texts) -> Sends]
  BY <1>1, LenProperties
<1>3. o.sent + 1 \in DOMAIN o.texts /\ o.texts[o.sent + 1] \in Sends
  BY <1>1, <1>2
<1>4. /\ q \in OpSet /\ q.sent = o.sent + 1 /\ q.kind = o.kind /\ q.from = o.from /\ q.to = o.to
      /\ q.texts = o.texts /\ q.todo = o.todo /\ q.next = o.next /\ q.main = o.main
      /\ q.clean = o.clean
  BY <1>0, <1>1 DEF OpSet
<1>5. /\ o.kind \in Making \cup Moving /\ Tail(o.todo) # <<>> /\ Tail(o.todo) \in Todos
      /\ Left(o.kind, Tail(o.todo))
      /\ Head(Tail(o.todo)) = IF o.kind \in Moving THEN "del" ELSE "list"
  BY <1>1, Turns DEF Now
<1>6. o.kind \in Moving => q.sent = Len(o.texts) /\ q.sent = 1
  BY <1>1, <1>4 DEF Sound, Gets
<1>9. /\ o.kind \notin {"delete", "deleteFolder", "setMain", "import", "restore"}
      /\ \A j, k \in DOMAIN o.texts : o.texts[j].path = o.texts[k].path => j = k
      /\ o.kind \in Moving => /\ o.from \in Path /\ o.to \in Path /\ o.from # o.to
                            /\ Len(o.texts) = 1 /\ o.texts[1].path = o.to
      /\ o.kind \in {"newFile", "upload", "image"} => o.to \in Path
      /\ o.kind = "image" => o.to \in Binary /\ Len(o.texts) = 1
  <2>1. o.kind \notin {"delete", "deleteFolder", "setMain", "import", "restore"}
    BY <1>5 DEF Making, Moving
  <2> QED
    BY <2>1 DEF Sound, Gets
<1>7. CASE q.sent = Len(o.texts)
  <2>1. r = Tailed(q) /\ q.todo \in Todos
    BY <1>0, <1>4, <1>7 DEF OpSet
  <2>2. /\ r.todo = Tail(o.todo) /\ r.kind = o.kind /\ r.from = o.from /\ r.to = o.to
        /\ r.texts = o.texts /\ r.sent = o.sent + 1 /\ r.next = o.next /\ r.main = o.main
        /\ r.clean = o.clean /\ r \in OpSet
    BY <1>4, <1>5, <2>1, TailedFields
  <2>3. Sound(r)
    <3>1. Now(r) = IF o.kind \in Moving THEN "del" ELSE "list"
      BY <1>5, <2>2 DEF Now
    <3>2. r.sent <= Len(o.texts) /\ (o.kind \in Moving => r.sent = 1)
      BY <1>2, <1>4, <1>6, <1>7, <2>2
    <3> QED
      BY <1>5, <1>9, <2>2, <3>1, <3>2 DEF Sound, Gets
  <2> QED
    BY <1>0, <1>3, <1>4, <1>5, <1>6, <1>7, <2>2, <2>3
<1>8. CASE q.sent # Len(o.texts)
  <2>1. r = q
    BY <1>0, <1>8
  <2>2. q.sent < Len(o.texts)
    BY <1>1, <1>2, <1>4, <1>8
  <2>3. Sound(r)
    <3>1. Now(r) = "put" /\ o.kind \notin Moving
      BY <1>4, <1>6, <1>8, <2>1 DEF Now
    <3>2. r.sent <= Len(o.texts)
      BY <1>1, <1>2, <1>4, <2>1, <2>2
    <3> QED
      BY <1>1, <1>4, <1>9, <2>1, <2>2, <3>1, <3>2 DEF Sound
  <2> QED
    BY <1>0, <1>1, <1>3, <1>4, <1>5, <1>6, <1>8, <2>1, <2>3, Turns
<1> QED
  BY <1>7, <1>8

\* The file of a rename or a move is fetched.
LEMMA GotSound ==
  ASSUME NEW o, Sound(o), Now(o) \in Gets, NEW t \in Own(o.to)
  PROVE  LET q == [Tailed(o) EXCEPT !.texts = <<Put(o.to, t)>>]
         IN  /\ q.todo # <<>> /\ Sound(q) /\ o.kind \in Moving /\ o.from \in Path /\ o.to \in Path
             /\ q.sent = 0 /\ q.kind = o.kind /\ q.from = o.from /\ q.to = o.to
             /\ q.clean = o.clean /\ q.todo = Tail(o.todo)
<1>0. PICK p, q : p = Tailed(o) /\ q = [p EXCEPT !.texts = <<Put(o.to, t)>>]
  OBVIOUS
<1>1. o \in OpSet /\ Left(o.kind, o.todo)
  BY DEF Sound
<1>2. o.kind \in Moving /\ Tail(o.todo) # <<>> /\ Head(Tail(o.todo)) = "put"
      /\ Tail(o.todo) \in Todos /\ Left(o.kind, Tail(o.todo))
  BY <1>1, Turns DEF Now
<1>3. o.from \in Path /\ o.to \in Path /\ o.from # o.to /\ o.sent = 0
  BY <1>2 DEF Sound
<1>4. /\ p.todo = Tail(o.todo) /\ p.kind = o.kind /\ p.from = o.from /\ p.to = o.to
      /\ p.texts = o.texts /\ p.sent = o.sent /\ p.next = o.next /\ p.clean = o.clean /\ p \in OpSet
  BY <1>0, <1>1, <1>2, TailedFields
<1>5. PICK ts : ts = <<Put(o.to, t)>>
  OBVIOUS
<1>6. ts \in Seq(Sends) /\ Len(ts) = 1 /\ DOMAIN ts = {1} /\ ts[1].path = o.to
  <2>1. Put(o.to, t) \in Sends
    BY <1>3, OwnTexts DEF Put, Sends
  <2> QED
    BY <1>5, <2>1 DEF Put
<1>7. /\ q.todo = Tail(o.todo) /\ q.kind = o.kind /\ q.from = o.from /\ q.to = o.to
      /\ q.texts = ts /\ q.sent = 0 /\ q.next = o.next /\ q.clean = o.clean /\ q \in OpSet
  BY <1>0, <1>3, <1>4, <1>5, <1>6 DEF OpSet
<1>8. Sound(q)
  <2>1. Now(q) = "put" /\ q.kind \in Moving
    BY <1>2, <1>7 DEF Now
  <2>2. q.kind \notin {"newFile", "upload", "image", "delete", "deleteFolder", "setMain", "import", "restore"}
    BY <2>1 DEF Moving
  <2>3. \A j, k \in DOMAIN q.texts : j = k
    BY <1>6, <1>7
  <2>4. q.sent < Len(q.texts) /\ q.sent <= Len(q.texts) /\ Len(q.texts) = 1 /\ q.texts[1].path = q.to
    <3>1. q.texts = ts /\ q.sent = 0 /\ q.to = o.to
      BY <1>7
    <3>2. Len(ts) = 1 /\ ts[1].path = o.to
      BY <1>6
    <3>3. q.sent < Len(q.texts) /\ q.sent <= Len(q.texts)
      BY <3>1, <3>2
    <3> QED
      BY <3>1, <3>2, <3>3
  <2> QED
    BY <1>2, <1>3, <1>7, <2>1, <2>2, <2>3, <2>4 DEF Sound, Gets
<1> QED
  BY <1>0, <1>2, <1>3, <1>7, <1>8

\* The folder is gone, and with it the main file.
Checked(o, m, a) == [o EXCEPT !.todo = <<"patch">>, !.to = m, !.next = a]
LEMMA CheckedSound ==
  ASSUME NEW o, Sound(o), Now(o) = "check", NEW m \in Path, NEW a \in Path \cup {None},
         NEW q, q = Checked(o, m, a)
  PROVE  /\ q.todo # <<>> /\ Sound(q) /\ q.sent = 0 /\ q.kind = "deleteFolder"
         /\ q.to = m /\ q.todo = <<"patch">> /\ q.main = o.main /\ q.clean = o.clean
<1>1. o \in OpSet /\ Left(o.kind, o.todo)
  BY DEF Sound
<1>2. o.kind = "deleteFolder" /\ o.sent = 0
  <2>1. o.kind = "deleteFolder"
    BY <1>1, Turns DEF Now
  <2> QED
    BY <2>1 DEF Sound
<1>3. <<"patch">> \in Todos /\ Left("deleteFolder", <<"patch">>)
      /\ <<"patch">> # <<>> /\ Head(<<"patch">>) = "patch"
  BY Splits DEF Todos, Left, Split
<1>4. /\ q \in OpSet /\ q.todo = <<"patch">> /\ q.kind = o.kind /\ q.from = o.from /\ q.to = m
      /\ q.texts = o.texts /\ q.sent = o.sent /\ q.next = a /\ q.main = o.main /\ q.clean = o.clean
  BY <1>1, <1>3 DEF OpSet, Checked
<1>5. Sound(q)
  BY <1>2, <1>3, <1>4 DEF Sound, Now, Gets, Moving
<1> QED
  BY <1>2, <1>3, <1>4, <1>5

-----------------------------------------------------------------------------
(* What the commands start.                                                *)

LEMMA OpIn ==
  ASSUME PageTyped, NEW kind \in Kinds, NEW from \in Path \cup {None} \cup Dirs,
         NEW to \in Path \cup {None}, NEW texts \in Seq(Sends), NEW todo \in Todos
  PROVE  LET o == Op(kind, from, to, texts, todo)
         IN  /\ o \in OpSet /\ o.kind = kind /\ o.from = from /\ o.to = to /\ o.texts = texts
             /\ o.todo = todo /\ o.sent = 0 /\ o.main = mainPath /\ o.next = None
             /\ o.clean = TRUE
BY DEF Op, OpSet, PageTyped

LEMMA OneText ==
  ASSUME NEW p \in Path, NEW t \in Own(p)
  PROVE  /\ <<Put(p, t)>> \in Seq(Sends) /\ Len(<<Put(p, t)>>) = 1
         /\ DOMAIN <<Put(p, t)>> = {1} /\ <<Put(p, t)>>[1].path = p
<1>1. Put(p, t) \in Sends /\ Put(p, t).path = p
  BY OwnTexts DEF Put, Sends
<1> QED
  BY <1>1

LEMMA TwoTexts ==
  ASSUME NEW p \in Path, NEW t \in Own(p), NEW q \in Path, NEW u \in Own(q), p # q
  PROVE  LET ts == <<Put(p, t), Put(q, u)>>
         IN  /\ ts \in Seq(Sends) /\ Len(ts) = 2
             /\ \A j, k \in DOMAIN ts : ts[j].path = ts[k].path => j = k
<1>1. Put(p, t) \in Sends /\ Put(p, t).path = p /\ Put(q, u) \in Sends /\ Put(q, u).path = q
  BY OwnTexts DEF Put, Sends
<1> QED
  BY <1>1

LEMMA MakingSound ==
  ASSUME PageTyped, NEW kind \in Making, NEW to \in Path \cup {None}, NEW texts \in Seq(Sends),
         0 < Len(texts), \A j, k \in DOMAIN texts : texts[j].path = texts[k].path => j = k,
         kind \in {"newFile", "upload", "image"} => to \in Path,
         kind = "image" => to \in Binary /\ Len(texts) = 1
  PROVE  Sound(Op(kind, None, to, texts, <<"put", "list">>))
<1>0. PICK t : t = <<"put", "list">>
  OBVIOUS
<1>1. PICK o : o = Op(kind, None, to, texts, t)
  OBVIOUS
<1>2. kind \in Kinds /\ t \in Todos /\ Left(kind, t) /\ Head(t) = "put"
  BY <1>0, Splits DEF Kinds, Todos, Left, Split
<1>3. /\ o \in OpSet /\ o.kind = kind /\ o.to = to /\ o.texts = texts
      /\ o.todo = t /\ o.sent = 0
  <2>1. None \in Path \cup {None} \cup Dirs
    OBVIOUS
  <2>2. kind \in Kinds /\ t \in Todos
    BY <1>2
  <2>3. Op(kind, None, to, texts, t) \in OpSet
    BY <2>1, <2>2, OpIn
  <2> QED
    BY <1>1, <2>3 DEF Op
<1>4. Now(o) = "put"
  BY <1>2, <1>3 DEF Now
<1>5. kind \notin Moving \cup {"delete", "deleteFolder", "setMain", "import", "restore"}
  BY DEF Making, Moving
<1>6. 0 <= Len(texts)
  BY LenProperties
<1>7. Sound(o)
  BY <1>2, <1>3, <1>4, <1>5, <1>6 DEF Sound
<1> QED
  BY <1>0, <1>1, <1>7

LEMMA MovesTodo ==
  ASSUME NEW get \in Gets, NEW unread \in BOOLEAN, NEW isMain \in BOOLEAN
  PROVE  LET t == Relocating(unread, get, isMain)
         IN  /\ t \in MovesLeft /\ Head(t) = IF unread THEN get ELSE "put"
             /\ isMain => t \in MovesMain
BY Splits DEF Relocating, MovesLeft, MovesMain, Split

\* An operation as a command starts it: the main path is what the page takes for
\* it, and a rename of the main file will set the new one.
Starts(o) ==
    /\ Sound(o) /\ o.sent = 0 /\ o.main = mainPath
    /\ Now(o) \notin {"list", "check"}
    /\ Now(o) = "patch" => o.kind = "setMain" /\ o.to \in files
    /\ o.kind = "deleteFolder" => Now(o) = "delDir"
    /\ o.kind = "delete" => Now(o) = "del"
    /\ o.kind \in Moving => /\ o.clean => stored[o.from] # None
                            /\ Now(o) \in Gets \cup {"put"}
                            /\ o.from = mainPath => o.todo \in MovesMain

LEMMA MakingStarts ==
  ASSUME PageTyped, NEW kind \in Making, NEW to \in Path \cup {None}, NEW texts \in Seq(Sends),
         0 < Len(texts), \A j, k \in DOMAIN texts : texts[j].path = texts[k].path => j = k,
         kind \in {"newFile", "upload", "image"} => to \in Path,
         kind = "image" => to \in Binary /\ Len(texts) = 1
  PROVE  Starts(Op(kind, None, to, texts, <<"put", "list">>))
<1>1. PICK o : o = Op(kind, None, to, texts, <<"put", "list">>)
  OBVIOUS
<1>2. Sound(o)
  BY <1>1, MakingSound
<1>3. o.kind = kind /\ o.sent = 0 /\ o.main = mainPath /\ o.todo = <<"put", "list">>
  BY <1>1 DEF Op
<1>4. Now(o) = "put"
  BY <1>3, Splits DEF Now, Split
<1>5. kind \notin Moving \cup {"delete", "deleteFolder"}
  BY DEF Making, Moving
<1>6. Starts(o)
  BY <1>2, <1>3, <1>4, <1>5 DEF Starts
<1> QED
  BY <1>1, <1>6

LEMMA MovingStarts ==
  ASSUME PageTyped, NEW kind \in Moving, NEW from \in Path, NEW to \in Path, from # to,
         NEW get \in Gets, NEW ms, ms = <<>> \/ \E t \in Own(to) : ms = <<Put(to, t)>>
  PROVE  Starts([Op(kind, from, to, ms, Relocating(ms = <<>>, get, mainPath = from))
                   EXCEPT !.clean = stored[from] # None])
<1>0. PICK t : t = Relocating(ms = <<>>, get, mainPath = from)
  OBVIOUS
<1>12. PICK c \in BOOLEAN : c = (stored[from] # None)
  OBVIOUS
<1>1. PICK p, o : p = Op(kind, from, to, ms, t) /\ o = [p EXCEPT !.clean = c]
  OBVIOUS
<1>2. /\ t \in MovesLeft /\ Head(t) = IF ms = <<>> THEN get ELSE "put"
      /\ mainPath = from => t \in MovesMain
  BY <1>0, MovesTodo
<1>3. /\ ms \in Seq(Sends) /\ \A j, k \in DOMAIN ms : ms[j].path = ms[k].path => j = k
      /\ 0 <= Len(ms) /\ ms # <<>> => Len(ms) = 1 /\ ms[1].path = to
  <2>1. CASE ms = <<>>
    BY <2>1
  <2>2. ASSUME NEW u \in Own(to), ms = <<Put(to, u)>> PROVE <1>3!:
    BY <2>2, OneText
  <2> QED
    BY <2>1, <2>2
<1>4. /\ p \in OpSet /\ p.kind = kind /\ p.from = from /\ p.to = to /\ p.texts = ms
      /\ p.todo = t /\ p.sent = 0 /\ p.main = mainPath /\ p.next = None
  <2>1. /\ kind \in Kinds /\ t \in Todos
        /\ from \in Path \cup {None} \cup Dirs /\ to \in Path \cup {None}
    BY <1>2 DEF Kinds, Todos
  <2>2. p \in OpSet
    BY <1>1, <1>3, <2>1, OpIn
  <2> QED
    BY <1>1, <2>2 DEF Op
<1>5. /\ o \in OpSet /\ o.kind = kind /\ o.from = from /\ o.to = to /\ o.texts = ms
      /\ o.todo = t /\ o.sent = 0 /\ o.main = mainPath /\ o.clean = c
  BY <1>1, <1>4 DEF OpSet
<1>6. /\ Left(kind, t) /\ kind \notin {"newFile", "upload", "image", "delete", "deleteFolder",
                                      "setMain", "import", "restore"}
  BY <1>2 DEF Left, Moving
<1>7. Now(o) = IF ms = <<>> THEN get ELSE "put"
  BY <1>2, <1>5 DEF Now
<1>8. Now(o) \in Gets \cup {"put"} /\ Now(o) \notin {"list", "check", "patch"}
  BY <1>7 DEF Gets
<1>9. Now(o) \notin Gets => ms # <<>>
  BY <1>7
<1>10. Sound(o)
  <2>1. Now(o) = "put" => o.sent < Len(o.texts)
    BY <1>3, <1>5, <1>7 DEF Gets
  <2>2. /\ o.from \in Path /\ o.to \in Path /\ o.from # o.to
        /\ Now(o) \notin Gets => Len(o.texts) = 1 /\ o.texts[1].path = o.to
        /\ o.sent = IF Now(o) \in Gets \cup {"put"} THEN 0 ELSE 1
    BY <1>3, <1>5, <1>8, <1>9
  <2> QED
    BY <1>3, <1>5, <1>6, <1>8, <2>1, <2>2 DEF Sound
<1>11. Starts(o)
  BY <1>12, <1>2, <1>5, <1>6, <1>8, <1>10 DEF Starts
<1> QED
  BY <1>0, <1>12, <1>1, <1>11

\* The operations that do not send a file.
LEMMA OtherStarts ==
  ASSUME PageTyped, NEW kind \in Kinds \ (Making \cup Moving),
         NEW from \in Path \cup {None} \cup Dirs, NEW to \in Path \cup {None},
         NEW texts \in Seq(Sends), \A j, k \in DOMAIN texts : texts[j].path = texts[k].path => j = k,
         NEW todo, NEW next \in Path \cup {None},
         \/ /\ kind = "delete" /\ todo = <<"del", "list">> /\ from \in Path /\ next \in Path
         \/ kind = "deleteFolder" /\ todo = <<"delDir", "list", "check">>
         \/ kind = "setMain" /\ todo = <<"patch">> /\ to \in files
         \/ /\ kind = "import" /\ todo = <<"unpack", "main", "list">>
            /\ \A j \in DOMAIN texts : texts[j].path \in Archive
         \/ /\ kind = "restore" /\ todo = <<"unpack", "list">>
            /\ \A j \in DOMAIN texts : texts[j].path \in Archive,
         NEW o, \/ o = [Op(kind, from, to, texts, todo) EXCEPT !.next = next]
                \/ o = Op(kind, from, to, texts, todo) /\ kind # "delete"
  PROVE  Starts(o)
<1>1. PICK p : p = Op(kind, from, to, texts, todo)
  OBVIOUS
<1>2. todo \in Todos /\ Left(kind, todo)
  <2>1. CASE kind = "delete"
    BY <2>1 DEF Todos, Left, MovesLeft, MovesMain
  <2>2. CASE kind = "deleteFolder"
    BY <2>2 DEF Todos, Left
  <2>3. CASE kind = "setMain"
    BY <2>3 DEF Todos, Left
  <2>4. CASE kind = "import"
    BY <2>4 DEF Todos, Left
  <2>5. CASE kind = "restore"
    BY <2>5 DEF Todos, Left
  <2> QED
    BY <2>1, <2>2, <2>3, <2>4, <2>5
<1>3. /\ Head(todo) = CASE kind = "delete" -> "del" [] kind = "deleteFolder" -> "delDir"
                        [] kind = "setMain" -> "patch" [] OTHER -> "unpack"
  BY Splits DEF Split
<1>4. /\ p \in OpSet /\ p.kind = kind /\ p.from = from /\ p.to = to /\ p.texts = texts
      /\ p.todo = todo /\ p.sent = 0 /\ p.main = mainPath /\ p.next = None
  <2>1. p \in OpSet
    BY <1>1, <1>2, OpIn
  <2> QED
    BY <1>1, <2>1 DEF Op
<1>5. /\ o \in OpSet /\ o.kind = kind /\ o.from = from /\ o.to = to /\ o.texts = texts
      /\ o.todo = todo /\ o.sent = 0 /\ o.main = mainPath /\ (kind = "delete" => o.next = next)
  <2>1. CASE o = [p EXCEPT !.next = next]
    BY <1>4, <2>1 DEF OpSet
  <2>2. CASE o = p /\ kind # "delete"
    BY <1>4, <2>2
  <2> QED
    BY <1>1, <2>1, <2>2
<1>6. kind \notin Moving \cup {"newFile", "upload", "image"} /\ 0 <= Len(texts)
  <2>1. Len(texts) \in Nat
    BY LenProperties
  <2> QED
    BY <2>1 DEF Making, Moving
<1>7. Now(o) = Head(todo) /\ (kind = "setMain" => to \in Path)
  BY <1>5 DEF Now, PageTyped
<1>8. Sound(o)
  BY <1>2, <1>3, <1>5, <1>6, <1>7 DEF Sound
<1> QED
  BY <1>3, <1>5, <1>6, <1>7, <1>8 DEF Starts

LEMMA EditorTextOwned == ASSUME PageTyped, active \in Path PROVE EditorText \in Own(active)
BY OwnTexts DEF PageTyped, Owned, EditorText

\* Files in some order, each with a text of its own.
LEMMA ListedTexts ==
  ASSUME NEW S \in SUBSET Path, NEW n \in Nat, NEW order \in [1..n -> S], IsInjective(order),
         NEW ts \in [1..n -> Sends], \A j \in 1..n : ts[j].path = order[j]
  PROVE  /\ ts \in Seq(Sends) /\ Len(ts) = n /\ DOMAIN ts = 1..n
         /\ \A j \in 1..n : ts[j].path \in S
         /\ \A j, k \in DOMAIN ts : ts[j].path = ts[k].path => j = k
<1>1. ts \in Seq(Sends)
  BY SeqDef
<1>2. Len(ts) = n /\ DOMAIN ts = 1..n
  BY <1>1, LenProperties
<1> QED
  BY <1>1, <1>2 DEF IsInjective

LEMMA UnpackedTexts ==
  ASSUME fresh \in Nat
  PROVE  /\ Unpacked \in Seq(Sends)
         /\ \A j \in DOMAIN Unpacked : Unpacked[j].path \in Archive
         /\ \A j, k \in DOMAIN Unpacked : Unpacked[j].path = Unpacked[k].path => j = k
<1>1. Archive \in SUBSET Path
  BY PathAssumption
<1>2. PICK n \in Nat : n = Cardinality(Archive)
  BY <1>1, FinitePaths
<1>3. PICK order \in [1..n -> Archive] : order = SetToSeq(Archive) /\ IsInjective(order)
  BY <1>1, <1>2, Ordered
<1>4. PICK ts : ts = Unpacked
  OBVIOUS
<1>5. \A j \in 1..n : Put(order[j], New(order[j])) \in Sends /\ Put(order[j], New(order[j])).path = order[j]
  BY <1>1, NewOwned, OwnTexts DEF Put, Sends
<1>6. ts = [j \in 1..n |-> Put(order[j], New(order[j]))]
  BY <1>2, <1>3, <1>4 DEF Unpacked
<1>7. ts \in [1..n -> Sends] /\ \A j \in 1..n : ts[j].path = order[j]
  BY <1>5, <1>6
<1>8. /\ ts \in Seq(Sends) /\ DOMAIN ts = 1..n /\ \A j \in 1..n : ts[j].path \in Archive
      /\ \A j, k \in DOMAIN ts : ts[j].path = ts[k].path => j = k
  BY <1>1, <1>3, <1>7, ListedTexts
<1> QED
  BY <1>4, <1>8

-----------------------------------------------------------------------------
(* Every command types, opens a tab, saves, rejects, or starts an          *)
(* operation.                                                              *)

Begins == \E o : Starts(o) /\ Start(o) /\ fresh' \in Nat

LEMMA NewOpBegins ==
  ASSUME Typed
  PROVE  /\ \A p : NewFile(p) => Begins
         /\ NewFolder => Begins
         /\ \A p \in Path : UploadSingleProjectFile(p) => Begins
         /\ \A p, q : UploadProjectFilesWithPrefix(p, q) => Begins
         /\ \A p : InsertImage(p) => Begins
<1>1. PageTyped /\ fresh \in Nat
  BY DEF Typed, RestTyped
<1>2. ASSUME NEW n \in Nat, Made(n) PROVE fresh' \in Nat
  BY <1>1, <1>2 DEF Made
<1>3. ASSUME NEW p \in Path, NEW t \in Own(p), NEW kind \in Making, NEW to \in Path \cup {None},
             kind \in {"newFile", "upload", "image"} => to \in Path, kind = "image" => to \in Binary
      PROVE  Starts(Op(kind, None, to, <<Put(p, t)>>, <<"put", "list">>))
  <2>1. PICK ts : ts = <<Put(p, t)>>
    OBVIOUS
  <2>2. ts \in Seq(Sends) /\ Len(ts) = 1 /\ DOMAIN ts = {1}
    BY <2>1, OneText
  <2>3. 0 < Len(ts) /\ \A j, k \in DOMAIN ts : ts[j].path = ts[k].path => j = k
    BY <2>2
  <2> QED
    BY <1>1, <1>3, <2>1, <2>2, <2>3, MakingStarts
<1>4. ASSUME NEW p, NewFile(p) PROVE Begins
  <2>1. p \in Path /\ New(p) \in Own(p) /\ "newFile" \in Making /\ fresh' \in Nat
    BY <1>1, <1>2, <1>4, NewOwned DEF NewFile, Making
  <2> QED
    BY <1>3, <1>4, <2>1 DEF NewFile, Begins
<1>5. ASSUME NewFolder PROVE Begins
  <2>1. Keep \in Path /\ Empty \in Own(Keep) /\ "newFolder" \in Making /\ fresh' \in Nat
    BY <1>2, <1>5, PathAssumption, OwnTexts DEF NewFolder, Making
  <2> QED
    BY <1>3, <1>5, <2>1 DEF NewFolder, Begins
<1>6. ASSUME NEW p \in Path, UploadSingleProjectFile(p) PROVE Begins
  <2>1. New(p) \in Own(p) /\ "upload" \in Making /\ fresh' \in Nat
    BY <1>1, <1>2, <1>6, NewOwned DEF UploadSingleProjectFile, Making
  <2> QED
    BY <1>3, <1>6, <2>1 DEF UploadSingleProjectFile, Begins
<1>7. ASSUME NEW p, NEW q, UploadProjectFilesWithPrefix(p, q) PROVE Begins
  <2>1. /\ p \in Path /\ q \in Path /\ p # q /\ New(p) \in Own(p) /\ New(q) \in Own(q)
        /\ "drop" \in Making \ {"newFile", "upload", "image"} /\ fresh' \in Nat
    BY <1>1, <1>2, <1>7, NewOwned DEF UploadProjectFilesWithPrefix, Making
  <2>2. PICK ts : ts = <<Put(p, New(p)), Put(q, New(q))>>
    OBVIOUS
  <2>3. ts \in Seq(Sends) /\ Len(ts) = 2 /\ \A j, k \in DOMAIN ts : ts[j].path = ts[k].path => j = k
    BY <2>1, <2>2, TwoTexts
  <2>4. Starts(Op("drop", None, None, ts, <<"put", "list">>))
    <3>1. 0 < Len(ts) /\ None \in Path \cup {None}
      BY <2>3
    <3> QED
      BY <1>1, <2>1, <2>3, <3>1, MakingStarts
  <2> QED
    BY <1>7, <2>1, <2>2, <2>4 DEF UploadProjectFilesWithPrefix, Begins
<1>8. ASSUME NEW p, InsertImage(p) PROVE Begins
  <2>1. p \in Path /\ p \in Binary /\ New(p) \in Own(p) /\ "image" \in Making /\ fresh' \in Nat
    BY <1>1, <1>2, <1>8, NewOwned, PathAssumption DEF InsertImage, Making
  <2> QED
    BY <1>3, <1>8, <2>1 DEF InsertImage, Begins
<1> QED
  BY <1>4, <1>5, <1>6, <1>7, <1>8

LEMMA RelocateBegins ==
  ASSUME Typed, NEW kind \in Moving, NEW from \in Path, NEW to \in Path, NEW get \in Gets,
         Relocate(kind, from, to, get)
  PROVE  Begins
<1>1. PageTyped /\ fresh' \in Nat /\ from # to
  BY DEF Typed, RestTyped, Relocate, Made
<1>2. PICK ms : ms = IF from = active THEN <<Put(to, Taken(EditorText, to))>>
                     ELSE IF models[from] # None THEN <<Put(to, Taken(models[from], to))>> ELSE <<>>
  OBVIOUS
<1>3. ms = <<>> \/ \E t \in Own(to) : ms = <<Put(to, t)>>
  <2>1. CASE from = active
    <3>1. Taken(EditorText, to) \in Own(to)
      BY <1>1, <2>1, EditorTextOwned, TakenOwned
    <3> QED
      BY <1>2, <2>1, <3>1
  <2>2. CASE from # active /\ models[from] # None
    <3>1. models[from] \in Own(from)
      BY <1>1, <2>2 DEF PageTyped, Owned
    <3>2. Taken(models[from], to) \in Own(to)
      BY <3>1, TakenOwned
    <3> QED
      BY <1>2, <2>2, <3>2
  <2>3. CASE from # active /\ models[from] = None
    BY <1>2, <2>3
  <2> QED
    BY <2>1, <2>2, <2>3
<1>4. PICK o : o = [Op(kind, from, to, ms, Relocating(ms = <<>>, get, mainPath = from))
                      EXCEPT !.clean = stored[from] # None]
  OBVIOUS
<1>5. Starts(o)
  BY <1>1, <1>3, <1>4, MovingStarts
<1>6. Start(o)
  BY <1>2, <1>4 DEF Relocate
<1> QED
  BY <1>1, <1>5, <1>6 DEF Begins

LEMMA MovesBegin ==
  ASSUME Typed
  PROVE  /\ \A p : \A q \in Path : RenameProjectFile(p, q) => Begins
         /\ \A p, dir : MoveProjectFile(p, dir) => Begins
<1>1. files \subseteq Path /\ active \in Path \cup {None}
      /\ "rename" \in Moving /\ "move" \in Moving /\ "getText" \in Gets /\ "getRaw" \in Gets
  BY DEF Typed, PageTyped, Moving, Gets
<1>2. ASSUME NEW p, NEW q \in Path, RenameProjectFile(p, q) PROVE Begins
  <2>1. p \in Path /\ Relocate("rename", p, q, "getText")
    BY <1>1, <1>2 DEF RenameProjectFile
  <2> QED
    BY <1>1, <2>1, RelocateBegins
<1>3. ASSUME NEW p, NEW dir, MoveProjectFile(p, dir) PROVE Begins
  <2>1. PICK q \in Path : p \in Path /\ Relocate("move", p, q, "getRaw")
    BY <1>1, <1>3 DEF MoveProjectFile
  <2> QED
    BY <1>1, <2>1, RelocateBegins
<1> QED
  BY <1>2, <1>3

LEMMA OthersBegin ==
  ASSUME Typed
  PROVE  /\ \A p : DeleteFile(p) => Begins
         /\ \A d : DeleteFolder(d) => Begins
         /\ \A p \in files : SetMainTex(p) => Begins
         /\ ImportZip => Begins
         /\ RestoreSnapshot => Begins
<1>1. PageTyped /\ fresh \in Nat /\ files \subseteq Path
  BY DEF Typed, RestTyped, PageTyped
<1>2. /\ <<>> \in Seq(Sends) /\ \A j, k \in DOMAIN <<>> : j = k
      /\ None \in Path \cup {None} /\ None \in Path \cup {None} \cup Dirs
  OBVIOUS
<1>3. \A n \in Nat : Made(n) => fresh' \in Nat
  BY <1>1 DEF Made
<1>4. ASSUME NEW p, DeleteFile(p) PROVE Begins
  <2>1. PICK n \in Path : n = IF files \ {p} = {} THEN Default ELSE First(files \ {p})
    BY <1>1, FirstIsOne, PathAssumption
  <2>2. p \in Path /\ p \in Path \cup {None} \cup Dirs /\ "delete" \in Kinds \ (Making \cup Moving)
    BY <1>1, <1>4 DEF DeleteFile, Kinds, Making, Moving
  <2>3. PICK o : o = [Op("delete", p, None, <<>>, <<"del", "list">>) EXCEPT !.next = n]
    OBVIOUS
  <2>4. Starts(o)
    BY <1>1, <1>2, <2>2, <2>3, OtherStarts
  <2> QED
    BY <1>3, <1>4, <2>1, <2>3, <2>4 DEF DeleteFile, Begins
<1>6. ASSUME NEW d, DeleteFolder(d) PROVE Begins
  <2>1. d \in Path \cup {None} \cup Dirs /\ "deleteFolder" \in Kinds \ (Making \cup Moving)
    BY <1>1, <1>6 DEF DeleteFolder, Folders, Dirs, Kinds, Making, Moving
  <2>2. PICK t : t = <<"delDir", "list", "check">>
    OBVIOUS
  <2>3. PICK o : o = Op("deleteFolder", d, None, <<>>, t)
    OBVIOUS
  <2>4. Starts(o)
    BY <1>1, <1>2, <2>1, <2>2, <2>3, OtherStarts
  <2> QED
    BY <1>3, <1>6, <2>2, <2>3, <2>4 DEF DeleteFolder, Begins
<1>7. ASSUME NEW p \in files, SetMainTex(p) PROVE Begins
  <2>1. p \in Path \cup {None} /\ "setMain" \in Kinds \ (Making \cup Moving)
    BY <1>1 DEF Kinds, Making, Moving
  <2>2. PICK t : t = <<"patch">>
    OBVIOUS
  <2>3. PICK o : o = Op("setMain", None, p, <<>>, t)
    OBVIOUS
  <2>4. Starts(o)
    BY <1>1, <1>2, <2>1, <2>2, <2>3, OtherStarts
  <2> QED
    BY <1>3, <1>7, <2>2, <2>3, <2>4 DEF SetMainTex, Begins
<1>8. PICK us : us = Unpacked
  OBVIOUS
<1>9. /\ us \in Seq(Sends) /\ \A j \in DOMAIN us : us[j].path \in Archive
      /\ \A j, k \in DOMAIN us : us[j].path = us[k].path => j = k
  BY <1>1, <1>8, UnpackedTexts
<1>10. ASSUME ImportZip PROVE Begins
  <2>1. "import" \in Kinds \ (Making \cup Moving)
    BY DEF Kinds, Making, Moving
  <2>2. PICK t : t = <<"unpack", "main", "list">>
    OBVIOUS
  <2>3. PICK o : o = Op("import", None, None, us, t)
    OBVIOUS
  <2>4. Starts(o)
    BY <1>1, <1>2, <1>9, <2>1, <2>2, <2>3, OtherStarts
  <2> QED
    BY <1>3, <1>8, <1>10, <2>2, <2>3, <2>4 DEF ImportZip, Begins
<1>11. ASSUME RestoreSnapshot PROVE Begins
  <2>1. "restore" \in Kinds \ (Making \cup Moving)
    BY DEF Kinds, Making, Moving
  <2>2. PICK t : t = <<"unpack", "list">>
    OBVIOUS
  <2>3. PICK o : o = Op("restore", None, None, us, t)
    OBVIOUS
  <2>4. Starts(o)
    BY <1>1, <1>2, <1>9, <2>1, <2>2, <2>3, OtherStarts
  <2> QED
    BY <1>3, <1>8, <1>11, <2>2, <2>3, <2>4 DEF RestoreSnapshot, Begins
<1> QED
  BY <1>4, <1>6, <1>7, <1>10, <1>11

LEMMA AcceptBegins == ASSUME Typed, AcceptAgentProposals PROVE Begins
<1>1. PageTyped /\ fresh \in Nat /\ Owned(proposals)
  BY DEF Typed, RestTyped
<1>2. PICK batch : batch = {p \in Path : proposals[p] # None}
  OBVIOUS
<1>3. batch \in SUBSET Path /\ batch # {} /\ \A p \in batch : proposals[p] \in Own(p)
  BY <1>1, <1>2 DEF AcceptAgentProposals, Owned
<1>4. PICK n \in Nat : n = Cardinality(batch)
  BY <1>3, FinitePaths
<1>5. 0 < n
  BY <1>3, <1>4, FinitePaths, FS_EmptySet
<1>6. PICK order \in [1..n -> batch] :
         /\ IsInjective(order)
         /\ Start(Op("accept", None, None,
                     [j \in 1..n |-> Put(order[j], proposals[order[j]])], <<"put", "list">>))
  BY <1>2, <1>4 DEF AcceptAgentProposals
<1>7. PICK ts : ts = [j \in 1..n |-> Put(order[j], proposals[order[j]])]
  OBVIOUS
<1>8. ts \in Seq(Sends) /\ Len(ts) = n /\ \A j, k \in DOMAIN ts : ts[j].path = ts[k].path => j = k
  <2>1. \A j \in 1..n : /\ Put(order[j], proposals[order[j]]) \in Sends
                        /\ Put(order[j], proposals[order[j]]).path = order[j]
    BY <1>3, <1>6, OwnTexts DEF Put, Sends
  <2>2. ts \in [1..n -> Sends] /\ \A j \in 1..n : ts[j].path = order[j]
    BY <1>7, <2>1
  <2> QED
    <3>1. IsInjective(order) /\ batch \in SUBSET Path
      BY <1>3, <1>6
    <3> QED
      BY <2>2, <3>1, ListedTexts
<1>9. Starts(Op("accept", None, None, ts, <<"put", "list">>))
  <2>1. "accept" \in Making \ {"newFile", "upload", "image"} /\ None \in Path \cup {None}
    BY DEF Making
  <2> QED
    BY <1>1, <1>5, <1>8, <2>1, MakingStarts
<1>10. fresh' \in Nat
  BY <1>1 DEF AcceptAgentProposals, Made
<1> QED
  BY <1>6, <1>7, <1>9, <1>10 DEF Begins

LEMMA Commands ==
  ASSUME Typed, Command
  PROVE  Type \/ Save \/ RejectAgentProposals \/ (\E p \in files : OpenTab(p)) \/ Begins
<1>1. env.names \subseteq Path
  BY PathAssumption DEF Typed, RestTyped
<1>2. FileMenu => Begins
  BY <1>1, NewOpBegins, OthersBegin DEF FileMenu
<1>3. FileRowMenu => Begins
  BY <1>1, MovesBegin, OthersBegin DEF FileRowMenu
<1>4. FolderMenu \/ TreeHead => Begins
  BY <1>1, NewOpBegins, OthersBegin DEF FolderMenu, TreeHead
<1>5. RunDrop => Begins
  BY NewOpBegins, MovesBegin DEF RunDrop
<1>6. RenameActiveFile \/ MainTexSelect => Begins
  BY <1>1, MovesBegin, OthersBegin DEF RenameActiveFile, MainTexSelect, MainTexOptions
<1>7. FormatMenu \/ InsertMenu => Type \/ Begins
  BY NewOpBegins DEF FormatMenu, InsertMenu
<1>8. ProposalsBanner \/ ProposalsDialog => RejectAgentProposals \/ Begins
  BY AcceptBegins DEF ProposalsBanner, ProposalsDialog
<1>9. TabBar \/ FileRow => \E p \in files : OpenTab(p)
  BY DEF TabBar, FileRow
<1>10. RestoreSnapshot => Begins
  BY OthersBegin
<1> QED
  BY <1>2, <1>3, <1>4, <1>5, <1>6, <1>7, <1>8, <1>9, <1>10 DEF Command

-----------------------------------------------------------------------------
(* Every step keeps the types.                                             *)

LEMMA Started ==
  ASSUME OpsTyped, NEW o, Sound(o), Start(o)
  PROVE  /\ OpsTyped' /\ Len(ops') = Len(ops) + 1 /\ DOMAIN ops' = 1..(Len(ops) + 1)
         /\ ops'[Len(ops) + 1] = o /\ DOMAIN ops = 1..Len(ops) /\ Len(ops) \in Nat
         /\ \A j \in DOMAIN ops : ops'[j] = ops[j] /\ j \in DOMAIN ops'
<1>1. ops' = Append(ops, o) /\ o \in OpSet
  BY DEF Start, Sound
<1>2. Len(ops) \in Nat /\ DOMAIN ops = 1..Len(ops) /\ ops \in Seq(OpSet)
  BY LenProperties DEF OpsTyped
<1>3. /\ ops' \in Seq(OpSet) /\ Len(ops') = Len(ops) + 1 /\ DOMAIN ops' = 1..(Len(ops) + 1)
      /\ ops'[Len(ops) + 1] = o /\ \A j \in 1..Len(ops) : ops'[j] = ops[j]
  <2>1. /\ ops' \in Seq(OpSet) /\ Len(ops') = Len(ops) + 1
        /\ ops'[Len(ops) + 1] = o /\ \A j \in 1..Len(ops) : ops'[j] = ops[j]
    BY <1>1, <1>2, AppendProperties
  <2> QED
    BY <2>1, LenProperties
<1>4. \A j \in DOMAIN ops' : Sound(ops'[j])
  BY <1>2, <1>3 DEF OpsTyped
<1> QED
  BY <1>2, <1>3, <1>4 DEF OpsTyped

LEMMA Judged ==
  ASSUME RestTyped, NEW out, NEW more \in SUBSET Excuses, JudgeAlso(out, more)
  PROVE  excuse' \subseteq Excuses
BY DEF RestTyped, JudgeAlso, Excuses

LEMMA RestKept ==
  ASSUME RestTyped, UNCHANGED <<puts, proposals, env, fresh>>,
         mount' \subseteq mount \cup {"main", "files", "role"}, excuse' \subseteq Excuses
  PROVE  RestTyped'
BY DEF RestTyped

LEMMA BeginTyped == ASSUME Typed, Begins PROVE Typed'
<1>1. PICK o : Starts(o) /\ Start(o) /\ fresh' \in Nat
  BY DEF Begins
<1>2. OpsTyped'
  BY <1>1, Started DEF Starts, Typed
<1>3. UNCHANGED <<env, server, page, puts, proposals>> /\ excuse' \subseteq Excuses
  BY <1>1 DEF Start, Typed, RestTyped, Excuses
<1>4. PageTyped' /\ ServerTyped' /\ RestTyped'
  BY <1>1, <1>3 DEF Typed, PageTyped, ServerTyped, RestTyped
<1> QED
  BY <1>2, <1>4 DEF Typed

\* The loads of a page, the shown file, its saves.
LEMMA PageStepsTyped ==
  ASSUME Typed,
         LoadMain \/ LoadFiles \/ FetchProjectFile \/ Loaded \/ Type \/ Autosave \/ Save \/ Reload
           \/ RejectAgentProposals \/ (\E p \in files : OpenTab(p))
  PROVE  Typed'
<1>1. ServerTyped /\ PageTyped /\ OpsTyped /\ RestTyped /\ Owned(models)
  BY DEF Typed, PageTyped
<1>2. active \in Path \cup {None} /\ main \in Path /\ mainPath \in Path /\ files \subseteq Path
  BY <1>1 DEF PageTyped, ServerTyped
<1>3. {} \in SUBSET Excuses
  OBVIOUS
<1>4. CASE LoadMain
  <2>1. PICK out : /\ JudgeAlso(out, {})
                   /\ IF out = "ok" THEN ShowProject(main)
                      ELSE UNCHANGED <<files, mainPath, active, models, load, timer>>
    BY <1>4 DEF LoadMain, Judge
  <2>2. PageTyped'
    <3>1. CASE out = "ok"
      BY <1>1, <1>2, <2>1, <3>1, ProjectTyped
    <3>2. CASE out # "ok"
      BY <1>1, <2>1, <3>2 DEF PageTyped
    <3> QED
      BY <3>1, <3>2
  <2>3. UNCHANGED <<server, ops>> /\ RestTyped'
    <3>1. UNCHANGED <<server, ops, puts, proposals, env, fresh>> /\ mount' \subseteq mount
      BY <1>4 DEF LoadMain
    <3> QED
      BY <1>1, <1>3, <2>1, <3>1, Judged, RestKept
  <2> QED
    BY <1>1, <2>2, <2>3 DEF Typed, ServerTyped, OpsTyped
<1>5. CASE LoadFiles
  <2>1. PICK out \in Answers, fs \in SUBSET Path :
          /\ JudgeAlso(out, {})
          /\ IF out # "refused" THEN ShowList(fs, active, models)
             ELSE UNCHANGED <<files, mainPath, active, models, load, timer>>
    BY <1>5, Listing DEF LoadFiles, Judge
  <2>2. PageTyped'
    <3>1. CASE out # "refused"
      BY <1>1, <1>2, <2>1, <3>1, RendersTyped
    <3>2. CASE out = "refused"
      BY <1>1, <2>1, <3>2 DEF PageTyped
    <3> QED
      BY <3>1, <3>2
  <2>3. UNCHANGED <<server, ops>> /\ RestTyped'
    <3>1. UNCHANGED <<server, ops, puts, proposals, env, fresh>> /\ mount' \subseteq mount
      BY <1>5 DEF LoadFiles
    <3> QED
      BY <1>1, <1>3, <2>1, <3>1, Judged, RestKept
  <2> QED
    BY <1>1, <2>2, <2>3 DEF Typed, ServerTyped, OpsTyped
<1>6. CASE FetchProjectFile
  <2>1. load # None /\ load \in [path : Path, got : Text \cup {None}] /\ load.path = active
        /\ active \in Path
    BY <1>1, <1>6 DEF FetchProjectFile, PageTyped
  <2>2. PICK out, t : /\ JudgeAlso(out, {}) /\ load' = [load EXCEPT !.got = t]
                      /\ t = IF out = "ok" /\ stored[load.path] # None THEN stored[load.path] ELSE Empty
    BY <1>6 DEF FetchProjectFile, Judge
  <2>3. t \in Own(active) /\ t \in Text
    BY <1>1, <2>1, <2>2, OwnTexts DEF ServerTyped, Owned
  <2>4. load' \in [path : Path, got : Text \cup {None}] /\ load'.path = active /\ load'.got = t
    BY <2>1, <2>2, <2>3
  <2>5. UNCHANGED <<server, mount, files, mainPath, active, models, timer, puts, proposals, ops, env, fresh>>
    BY <1>6 DEF FetchProjectFile
  <2>6. PageTyped'
    BY <1>1, <2>3, <2>4, <2>5 DEF PageTyped
  <2>7. RestTyped'
    BY <1>1, <1>3, <2>2, <2>5, Judged, RestKept
  <2> QED
    BY <1>1, <2>5, <2>6, <2>7 DEF Typed, ServerTyped, OpsTyped
<1>7. CASE Loaded
  <2>1. load # None /\ load \in [path : Path, got : Text \cup {None}] /\ load.path = active
        /\ active \in Path /\ load.got \in Own(active)
    BY <1>1, <1>7 DEF Loaded, PageTyped
  <2>2. UNCHANGED <<server, mount, files, mainPath, active, puts, proposals, ops, env, fresh, excuse>>
        /\ load' = None
    BY <1>7 DEF Loaded
  <2>3. Owned(models') /\ timer' \in {None, active}
    <3>1. CASE models[load.path] = None
      BY <1>1, <1>7, <3>1 DEF Loaded, PageTyped
    <3>2. CASE models[load.path] # None
      <4>1. models' = [models EXCEPT ![active] = load.got] /\ timer' = active
        BY <1>7, <2>1, <3>2 DEF Loaded
      <4> QED
        BY <1>1, <2>1, <4>1, OwnTexts DEF Owned
    <3> QED
      BY <3>1, <3>2
  <2>4. PageTyped'
    BY <1>1, <2>2, <2>3 DEF PageTyped
  <2> QED
    BY <1>1, <2>2, <2>4 DEF Typed, ServerTyped, OpsTyped, RestTyped
<1>8. CASE Type
  <2>1. /\ UNCHANGED <<server, mount, files, mainPath, active, load, puts, proposals, ops, env, excuse>>
        /\ models' = [models EXCEPT ![active] = New(active)] /\ timer' = active /\ active \in Path
        /\ fresh' = fresh + 1
    BY <1>2, <1>8 DEF Type, Made
  <2>2. New(active) \in Own(active)
    BY <1>1, <2>1, NewOwned DEF RestTyped
  <2>3. Owned(models')
    BY <1>1, <2>1, <2>2, OwnTexts DEF Owned
  <2>4. PageTyped'
    BY <1>1, <2>1, <2>3 DEF PageTyped
  <2> QED
    BY <1>1, <2>1, <2>4 DEF Typed, ServerTyped, OpsTyped, RestTyped
<1>9. CASE Autosave \/ Save
  <2>1. PICK t : /\ UNCHANGED <<server, mount, files, mainPath, active, models, load, proposals, ops,
                               env, fresh, excuse>>
                 /\ active \in Path /\ t = EditorText
                 /\ puts' = Append(puts, [path |-> active, text |-> t]) /\ timer' \in {None, active}
    BY <1>1, <1>2, <1>9 DEF Autosave, Save, PageTyped
  <2>2. [path |-> active, text |-> t] \in Sends
    <3>1. t \in Own(active)
      BY <1>1, <2>1, EditorTextOwned
    <3> QED
      BY <2>1, <3>1, OwnTexts DEF Sends
  <2>3. puts' \in Seq(Sends)
    BY <1>1, <2>1, <2>2, AppendProperties DEF RestTyped
  <2>4. PageTyped' /\ RestTyped'
    BY <1>1, <2>1, <2>3 DEF PageTyped, RestTyped
  <2> QED
    BY <1>1, <2>1, <2>4 DEF Typed, ServerTyped, OpsTyped
<1>10. CASE Reload
  <2>1. /\ UNCHANGED <<server, puts, env, fresh>> /\ NewPage
        /\ proposals' = NoProposals /\ ops' = <<>> /\ excuse' = excuse \cup {"fault"}
    BY <1>10 DEF Reload
  <2>2. Owned(NoProposals) /\ OpsTyped'
    BY <2>1 DEF Owned, NoProposals, OpsTyped
  <2>3. RestTyped'
    BY <1>1, <2>1, <2>2, NewPageTyped DEF RestTyped, Excuses
  <2> QED
    BY <1>1, <2>1, <2>2, <2>3, NewPageTyped DEF Typed, ServerTyped
<1>11. CASE RejectAgentProposals
  <2>1. UNCHANGED <<server, page, puts, ops, env, fresh, excuse>> /\ proposals' = NoProposals
    BY <1>11 DEF RejectAgentProposals
  <2>2. Owned(NoProposals)
    BY DEF Owned, NoProposals
  <2> QED
    BY <1>1, <2>1, <2>2 DEF Typed, ServerTyped, PageTyped, OpsTyped, RestTyped
<1>12. CASE \E p \in files : OpenTab(p)
  <2>1. PICK p \in Path : OpenTab(p)
    BY <1>2, <1>12
  <2>2. /\ UNCHANGED <<server, mount, files, mainPath, puts, proposals, ops, env, fresh, excuse>>
        /\ Show(p, p, models)
    BY <2>1 DEF OpenTab
  <2>3. PageTyped'
    BY <1>1, <1>2, <2>2, ShowTyped
  <2> QED
    BY <1>1, <2>2, <2>3 DEF Typed, ServerTyped, OpsTyped, RestTyped
<1> QED
  BY <1>4, <1>5, <1>6, <1>7, <1>8, <1>9, <1>10, <1>11, <1>12

LEMMA OutsideTyped ==
  ASSUME Typed, Outside \/ \E i \in DOMAIN puts : PutLands(i)
  PROVE  Typed'
<1>1. ServerTyped /\ PageTyped /\ OpsTyped /\ RestTyped /\ Owned(stored) /\ fresh \in Nat
  BY DEF Typed, ServerTyped, RestTyped
<1>2. ASSUME NEW ps, ops' = Touched(ops, 0, ps) PROVE OpsTyped'
  <2>1. /\ Touched(ops, 0, ps) \in Seq(OpSet)
        /\ \A j \in DOMAIN Touched(ops, 0, ps) : Sound(Touched(ops, 0, ps)[j])
    BY <1>1, TouchedOps
  <2> QED
    BY <1>2, <2>1 DEF OpsTyped
<1>3. ASSUME NEW p \in Path, OtherWrites(p) PROVE Typed'
  <2>1. /\ UNCHANGED <<main, page, puts, proposals, env>> /\ fresh' = fresh + 1
        /\ stored' = [stored EXCEPT ![p] = New(p)] /\ excuse' = excuse \cup {"other"}
        /\ ops' = Touched(ops, 0, {p})
    BY <1>3 DEF OtherWrites, Made
  <2>2. New(p) \in Own(p)
    BY <1>1, NewOwned
  <2>3. ServerTyped'
    BY <1>1, <2>1, <2>2, OwnTexts DEF ServerTyped, Owned
  <2>4. PageTyped'
    BY <1>1, <2>1 DEF PageTyped
  <2>5. RestTyped'
    BY <1>1, <2>1 DEF RestTyped, Excuses
  <2> QED
    BY <1>2, <2>1, <2>3, <2>4, <2>5 DEF Typed
<1>4. ASSUME NEW ps, Propose(ps) PROVE Typed'
  <2>1. /\ UNCHANGED <<server, page, puts, ops, env, excuse>> /\ fresh' = fresh + 1
        /\ proposals' = [p \in Path |-> IF p \in ps THEN New(p) ELSE proposals[p]]
    BY <1>4 DEF Propose, Made
  <2>2. Owned(proposals')
    BY <1>1, <2>1, NewOwned, OwnTexts DEF Owned, RestTyped
  <2>3. RestTyped'
    BY <1>1, <2>1, <2>2 DEF RestTyped
  <2> QED
    BY <1>1, <2>1, <2>3 DEF Typed, ServerTyped, PageTyped, OpsTyped
<1>5. ASSUME NEW i \in DOMAIN puts, PutLands(i) PROVE Typed'
  <2>1. PICK put : put = puts[i] /\ put \in Sends /\ put.path \in Path /\ put.text \in Own(put.path)
    <3>1. puts \in [1..Len(puts) -> Sends] /\ DOMAIN puts = 1..Len(puts)
      BY <1>1, LenProperties DEF RestTyped
    <3> QED
      BY <3>1 DEF Sends
  <2>2. PICK out, more :
           /\ stored' = [stored EXCEPT ![put.path] = put.text] \/ stored' = stored
           /\ JudgeAlso(out, more) /\ more \subseteq {"overtaken"}
    <3>1. PICK out :
             /\ stored' = IF out \in {"ok", "lost"} /\ put.path \in Allowed
                          THEN [stored EXCEPT ![put.path] = put.text] ELSE stored
             /\ JudgeAlso(out, IF \E j \in 1 .. i - 1 : puts[j].path = put.path
                               THEN {"overtaken"} ELSE {})
      BY <1>5, <2>1 DEF PutLands
    <3>2. stored' = [stored EXCEPT ![put.path] = put.text] \/ stored' = stored
      BY <3>1
    <3>3. PICK more : more = IF \E j \in 1 .. i - 1 : puts[j].path = put.path
                             THEN {"overtaken"} ELSE {}
      OBVIOUS
    <3>4. more \subseteq {"overtaken"}
      BY <3>3
    <3> QED
      BY <3>1, <3>2, <3>3, <3>4
  <2>3. /\ puts' = RemoveAt(puts, i) /\ ops' = Touched(ops, 0, {puts[i].path})
        /\ UNCHANGED <<main, page, proposals, env, fresh>>
    BY <1>5 DEF PutLands
  <2>4. ServerTyped'
    BY <1>1, <2>1, <2>2, <2>3, OwnTexts DEF ServerTyped, Owned
  <2>5. puts' \in Seq(Sends)
    <3>1. i \in 1..Len(puts) /\ puts \in Seq(Sends)
      BY <1>1, LenProperties DEF RestTyped
    <3> QED
      BY <2>3, <3>1, Rest
  <2>6. excuse' \subseteq Excuses
    <3>1. more \in SUBSET Excuses
      BY <2>2 DEF Excuses
    <3> QED
      BY <1>1, <2>2, <3>1, Judged
  <2>7. PageTyped' /\ RestTyped'
    BY <1>1, <2>3, <2>5, <2>6 DEF PageTyped, RestTyped
  <2> QED
    BY <1>2, <2>3, <2>4, <2>7 DEF Typed
<1> QED
  BY <1>3, <1>4, <1>5 DEF Outside

\* What an answer makes of an operation: it goes on, is dropped, or has ended.
LEMMA OnlyOps ==
  ASSUME Typed, ServerTyped', PageTyped', OpsTyped',
         mount' \subseteq mount, UNCHANGED <<puts, proposals, env, fresh>>,
         NEW out, NEW more \in SUBSET Excuses, JudgeAlso(out, more)
  PROVE  Typed'
<1>1. excuse' \subseteq Excuses
  BY Judged DEF Typed
<1>2. RestTyped'
  BY <1>1, RestKept DEF Typed
<1> QED
  BY <1>2 DEF Typed

LEMMA GoesTyped ==
  ASSUME OpsTyped, NEW i \in DOMAIN ops, NEW q, NEW ps, Go(i, q, ps),
         \/ q = Dropped(ops[i])
         \/ q.todo # <<>> /\ Sound(q)
         \/ q = Tailed(ops[i]) /\ Now(ops[i]) \notin Gets \cup {"put"}
  PROVE  OpsTyped'
<1>1. q.todo # <<>> => Sound(q)
  <2>1. Sound(ops[i]) /\ ops[i] \in OpSet
    BY OpFacts
  <2>2. CASE q = Dropped(ops[i])
    BY <2>1, <2>2, DroppedDone
  <2>3. CASE q = Tailed(ops[i]) /\ Now(ops[i]) \notin Gets \cup {"put"}
    BY <2>1, <2>3, TailedFields, TailedSound
  <2> QED
    BY <2>2, <2>3
<1> QED
  BY <1>1, Goes

LEMMA PutFileTyped == ASSUME Typed, NEW i \in DOMAIN ops, PutFile(i) PROVE Typed'
<1>1. ServerTyped /\ PageTyped /\ OpsTyped /\ Owned(stored)
  BY DEF Typed, ServerTyped
<1>2. PICK o : o = ops[i] /\ Sound(o) /\ Now(o) = "put"
  BY <1>1, OpFacts DEF PutFile
<1>3. PICK q, r : q = [o EXCEPT !.sent = @ + 1] /\ r = IF q.sent = Len(o.texts) THEN Tailed(q) ELSE q
  OBVIOUS
<1>4. r.todo # <<>> /\ Sound(r) /\ o.sent + 1 \in DOMAIN o.texts /\ o.texts[o.sent + 1] \in Sends
  BY <1>2, <1>3, SentSound
<1>5. PICK f : f = o.texts[o.sent + 1] /\ f \in Sends /\ f.path \in Path /\ f.text \in Own(f.path)
  BY <1>4 DEF Sends
<1>6. PICK out, more, written, ps :
         /\ JudgeAlso(out, more) /\ more \subseteq {"fault", "replaced"}
         /\ stored' = (IF written THEN [stored EXCEPT ![f.path] = f.text] ELSE stored)
         /\ Go(i, IF out # "ok" \/ ~ written THEN Dropped(o) ELSE r, ps)
  <2>1. PICK out, more, written : /\ JudgeAlso(out, more) /\ more \subseteq {"fault", "replaced"}
                    /\ written = (out # "refused" /\ f.path \in Allowed)
                    /\ stored' = (IF written THEN [stored EXCEPT ![f.path] = f.text] ELSE stored)
                    /\ Go(i, IF out # "ok" \/ ~ written THEN Dropped(o) ELSE r,
                          IF written THEN {f.path} ELSE {})
    BY <1>2, <1>3, <1>5 DEF PutFile
  <2> QED
    BY <2>1
<1>7. OpsTyped'
  BY <1>1, <1>2, <1>4, <1>6, GoesTyped
<1>8. UNCHANGED <<main, page, puts, proposals, env, fresh>>
  BY DEF PutFile
<1>9. ServerTyped' /\ PageTyped'
  BY <1>1, <1>5, <1>6, <1>8, OwnTexts DEF ServerTyped, PageTyped, Owned
<1>10. more \in SUBSET Excuses
  BY <1>6 DEF Excuses
<1> QED
  BY <1>6, <1>7, <1>8, <1>9, <1>10, OnlyOps

LEMMA GetFileTyped == ASSUME Typed, NEW i \in DOMAIN ops, GetFile(i) PROVE Typed'
<1>1. ServerTyped /\ PageTyped /\ OpsTyped /\ Owned(stored)
  BY DEF Typed, ServerTyped
<1>2. PICK o : o = ops[i] /\ Sound(o) /\ Now(o) \in Gets
  BY <1>1, OpFacts DEF GetFile, Gets
<1>3. o.from \in Path /\ o.to \in Path
  <2>1. o.kind \in Moving
    BY <1>2, Turns DEF Sound, Now
  <2> QED
    BY <1>2, <2>1 DEF Sound
<1>4. PICK out, t, q :
         /\ JudgeAlso(out, {}) /\ Go(i, q, {})
         /\ \/ q = Dropped(o)
            \/ t \in Own(o.to) /\ q = [Tailed(o) EXCEPT !.texts = <<Put(o.to, t)>>]
  <2>1. PICK raw, t : /\ raw = stored[o.from]
                      /\ t = IF raw = None THEN None
                             ELSE IF o.from \in Binary /\ Turn(i, "getText") THEN Garbled ELSE Taken(raw, o.to)
    OBVIOUS
  <2>2. raw # None => t \in Own(o.to)
    <3>1. raw # None => raw \in Own(o.from)
      BY <1>1, <1>3, <2>1 DEF Owned
    <3> QED
      BY <1>3, <2>1, <3>1, OwnTexts, TakenOwned
  <2>3. PICK out : /\ JudgeAlso(out, {})
                   /\ Go(i, IF out = "ok" /\ raw # None
                            THEN [Tailed(o) EXCEPT !.texts = <<Put(o.to, t)>>] ELSE Dropped(o), {})
    BY <1>2, <2>1 DEF GetFile, Judge
  <2>4. CASE out = "ok" /\ raw # None
    BY <2>2, <2>3, <2>4
  <2>5. CASE ~ (out = "ok" /\ raw # None)
    BY <2>3, <2>5
  <2> QED
    BY <2>4, <2>5
<1>5. OpsTyped'
  <2>1. CASE q = Dropped(o)
    BY <1>1, <1>2, <1>4, <2>1, GoesTyped
  <2>2. CASE t \in Own(o.to) /\ q = [Tailed(o) EXCEPT !.texts = <<Put(o.to, t)>>]
    <3>1. q.todo # <<>> /\ Sound(q)
      BY <1>2, <2>2, GotSound
    <3> QED
      BY <1>1, <1>2, <1>4, <3>1, GoesTyped
  <2> QED
    BY <1>4, <2>1, <2>2
<1>6. UNCHANGED <<server, page, puts, proposals, env, fresh>>
  BY DEF GetFile
<1>7. ServerTyped' /\ PageTyped'
  BY <1>1, <1>6 DEF ServerTyped, PageTyped
<1>8. {} \in SUBSET Excuses
  OBVIOUS
<1> QED
  BY <1>4, <1>5, <1>6, <1>7, <1>8, OnlyOps

\* The page after an answer: rendered, or as it was.
LEMMA RenderedTyped ==
  ASSUME PageTyped, NEW ms, Owned(ms), NEW a \in Path \cup {None},
         \/ ShowPath(a, ms) \/ (\E fs \in SUBSET Path : ShowList(fs, a, ms))
         \/ (\E mp \in Path : ShowMain(mp, a, ms) \/ ShowProject(mp))
         \/ UNCHANGED <<files, mainPath, active, models, load, timer>>
  PROVE  PageTyped'
<1>1. CASE UNCHANGED <<files, mainPath, active, models, load, timer>>
  BY <1>1 DEF PageTyped
<1> QED
  BY <1>1, RendersTyped, ProjectTyped

LEMMA WithoutOwned ==
  ASSUME NEW f, Owned(f), NEW S, NEW p
  PROVE  Owned([f EXCEPT ![p] = None]) /\ Owned(Without(f, S))
BY DEF Owned, Without

LEMMA DeleteOldTyped == ASSUME Typed, NEW i \in DOMAIN ops, DeleteOld(i) PROVE Typed'
<1>1. ServerTyped /\ PageTyped /\ OpsTyped /\ Owned(stored) /\ Owned(models) /\ active \in Path \cup {None}
  BY DEF Typed, ServerTyped, PageTyped
<1>2. PICK o : o = ops[i] /\ Sound(o) /\ Now(o) = "del" /\ o.kind # "delete"
  BY <1>1, OpFacts DEF DeleteOld
<1>3. o.from \in Path /\ o.to \in Path
  <2>1. o.kind \in Moving
    BY <1>2, Turns DEF Sound, Now
  <2> QED
    BY <1>2, <2>1 DEF Sound
<1>4. PICK a \in Path \cup {None} : a = IF o.active = o.from THEN o.to ELSE active
  BY <1>1, <1>3
<1>5. PICK ms : ms = [models EXCEPT ![o.from] = None] /\ Owned(ms)
  BY <1>1, WithoutOwned
<1>6. PICK out :
         /\ JudgeAlso(out, {})
         /\ stored' = IF out = "refused" THEN stored ELSE [stored EXCEPT ![o.from] = None]
         /\ Go(i, IF out = "ok" THEN Tailed(o) ELSE Dropped(o), {o.from})
         /\ IF out = "ok" THEN ShowPath(a, ms)
            ELSE UNCHANGED <<files, mainPath, active, models, load, timer>>
  BY <1>2, <1>4, <1>5 DEF DeleteOld, Judge
<1>7. OpsTyped'
  <2>1. Now(ops[i]) \notin Gets \cup {"put"}
    BY <1>2 DEF Gets
  <2> QED
    BY <1>1, <1>2, <1>6, <2>1, GoesTyped
<1>8. PageTyped'
  BY <1>1, <1>5, <1>6, RenderedTyped
<1>9. UNCHANGED <<main, mount, puts, proposals, env, fresh>>
  BY DEF DeleteOld
<1>10. ServerTyped'
  BY <1>1, <1>6, <1>9, WithoutOwned DEF ServerTyped
<1>11. {} \in SUBSET Excuses
  OBVIOUS
<1> QED
  BY <1>6, <1>7, <1>8, <1>9, <1>10, <1>11, OnlyOps

LEMMA DeleteOneTyped == ASSUME Typed, NEW i \in DOMAIN ops, DeleteOne(i) PROVE Typed'
<1>1. ServerTyped /\ PageTyped /\ OpsTyped /\ Owned(stored) /\ Owned(models) /\ active \in Path \cup {None}
  BY DEF Typed, ServerTyped, PageTyped
<1>2. PICK o : o = ops[i] /\ Sound(o) /\ Now(o) = "del" /\ o.kind = "delete"
  BY <1>1, OpFacts DEF DeleteOne
<1>3. o.from \in Path /\ o.next \in Path
  BY <1>2 DEF Sound
<1>4. PICK a \in Path \cup {None} : a = IF o.active = o.from THEN o.next ELSE active
  BY <1>1, <1>3
<1>5. PICK ms : ms = [models EXCEPT ![o.from] = None] /\ Owned(ms)
  BY <1>1, WithoutOwned
<1>6. PICK out :
         /\ JudgeAlso(out, IF o.from = main THEN {"deleted"} ELSE {})
         /\ stored' = IF out = "refused" THEN stored ELSE [stored EXCEPT ![o.from] = None]
         /\ \/ /\ Go(i, Dropped(o), {o.from})
               /\ UNCHANGED <<files, mainPath, active, models, load, timer>>
            \/ Go(i, Tailed(o), {o.from}) /\ ShowPath(a, ms)
  BY <1>2, <1>4, <1>5 DEF DeleteOne
<1>7. OpsTyped'
  <2>1. Now(ops[i]) \notin Gets \cup {"put"}
    BY <1>2 DEF Gets
  <2> QED
    BY <1>1, <1>2, <1>6, <2>1, GoesTyped
<1>8. PageTyped'
  BY <1>1, <1>5, <1>6, RenderedTyped
<1>9. UNCHANGED <<main, mount, puts, proposals, env, fresh>>
  BY DEF DeleteOne
<1>10. ServerTyped'
  BY <1>1, <1>6, <1>9, WithoutOwned DEF ServerTyped
<1>11. (IF o.from = main THEN {"deleted"} ELSE {}) \in SUBSET Excuses
  BY DEF Excuses
<1> QED
  BY <1>6, <1>7, <1>8, <1>9, <1>10, <1>11, OnlyOps

LEMMA DeleteUnderTyped == ASSUME Typed, NEW i \in DOMAIN ops, DeleteUnder(i) PROVE Typed'
<1>1. ServerTyped /\ PageTyped /\ OpsTyped /\ Owned(stored) /\ Owned(models) /\ active \in Path \cup {None}
  BY DEF Typed, ServerTyped, PageTyped
<1>2. PICK o : o = ops[i] /\ Sound(o) /\ Now(o) = "delDir"
  BY <1>1, OpFacts DEF DeleteUnder
<1>3. PICK under : under = {p \in Path : PathUnderFolder(p, o.from)}
  OBVIOUS
<1>4. PICK ms : ms = Without(models, under) /\ Owned(ms)
  BY <1>1, WithoutOwned
<1>5. PICK out, st :
         /\ JudgeAlso(out, {}) /\ Owned(st)
         /\ stored' = IF out = "refused" THEN stored ELSE st
         /\ Go(i, IF out \in {"ok", "part"} THEN Tailed(o) ELSE Dropped(o), under)
         /\ IF out \in {"ok", "part"} THEN ShowPath(active, ms)
            ELSE UNCHANGED <<files, mainPath, active, models, load, timer>>
  <2>1. PICK out, gone :
           /\ JudgeAlso(out, {})
           /\ stored' = IF out = "refused" THEN stored ELSE Without(stored, gone)
           /\ Go(i, IF out \in {"ok", "part"} THEN Tailed(o) ELSE Dropped(o), under)
           /\ IF out \in {"ok", "part"} THEN ShowPath(active, ms)
              ELSE UNCHANGED <<files, mainPath, active, models, load, timer>>
    BY <1>2, <1>3, <1>4 DEF DeleteUnder, Judge
  <2>2. Owned(Without(stored, gone))
    BY <1>1, WithoutOwned
  <2> QED
    BY <2>1, <2>2
<1>6. OpsTyped'
  <2>1. Now(ops[i]) \notin Gets \cup {"put"}
    BY <1>2 DEF Gets
  <2> QED
    BY <1>1, <1>2, <1>5, <2>1, GoesTyped
<1>7. PageTyped'
  BY <1>1, <1>4, <1>5, RenderedTyped
<1>8. UNCHANGED <<main, mount, puts, proposals, env, fresh>>
  BY DEF DeleteUnder
<1>9. ServerTyped'
  BY <1>1, <1>4, <1>5, <1>8 DEF ServerTyped
<1>10. {} \in SUBSET Excuses
  OBVIOUS
<1> QED
  BY <1>5, <1>6, <1>7, <1>8, <1>9, <1>10, OnlyOps

LEMMA FirstOrPath ==
  ASSUME NEW S \in SUBSET Path, NEW T, NEW d \in Path PROVE FirstOr(S, T, d) \in Path
<1>1. CASE S \cap T = {}
  BY <1>1, FirstOrIsOne
<1>2. CASE S \cap T # {}
  <2>1. S \cap T \cap Path # {}
    BY <1>2
  <2> QED
    BY <2>1, FirstOrIsOne
<1> QED
  BY <1>1, <1>2

\* The answer to the second listing of deleteFolder: nf are the files, m is the main
\* file to be and a the file to show.
Answered(i, o, out, nf, m, a) ==
  /\ out = "ok" => nf = Existing
  /\ m = IF o.main \in nf THEN o.main ELSE FirstOr(nf, Tex, Default)
  /\ JudgeAlso(out, IF m \in nf THEN {} ELSE {"emptied"})
  /\ Go(i, IF out # "refused" /\ o.main \notin nf THEN Checked(o, m, a) ELSE Dropped(o), {})
  /\ IF out # "refused" /\ o.main \in nf /\ a # None
     THEN ShowPath(a, models)
     ELSE UNCHANGED <<files, mainPath, active, models, load, timer>>

LEMMA CheckMainAnswer ==
  ASSUME NEW i \in DOMAIN ops, CheckMain(i), NEW o, o = ops[i], o \in OpSet
  PROVE  \E out \in Answers, nf \in SUBSET Path, m \in Path, a \in Path \cup {None} :
           Answered(i, o, out, nf, m, a)
<1> DEFINE Main(nf) == IF o.main \in nf THEN o.main ELSE FirstOr(nf, Tex, Default)
           Act(nf) == IF ~ PathUnderFolder(o.active, o.from) THEN None
                      ELSE IF Main(nf) \in nf THEN Main(nf)
                      ELSE FirstOr(nf, Tex, FirstOr(nf, Path, Default))
<1>1. PICK out \in Answers : \E nf \in Listings(out) :
         /\ JudgeAlso(out, IF Main(nf) \in nf THEN {} ELSE {"emptied"})
         /\ Go(i, IF out # "refused" /\ o.main \notin nf
                  THEN [o EXCEPT !.todo = <<"patch">>, !.to = Main(nf), !.next = Act(nf)]
                  ELSE Dropped(o), {})
         /\ IF out # "refused" /\ o.main \in nf /\ Act(nf) # None
            THEN ShowPath(Act(nf), models)
            ELSE UNCHANGED <<files, mainPath, active, models, load, timer>>
  BY DEF CheckMain
<1>2. PICK nf \in Listings(out) :
         /\ JudgeAlso(out, IF Main(nf) \in nf THEN {} ELSE {"emptied"})
         /\ Go(i, IF out # "refused" /\ o.main \notin nf
                  THEN [o EXCEPT !.todo = <<"patch">>, !.to = Main(nf), !.next = Act(nf)]
                  ELSE Dropped(o), {})
         /\ IF out # "refused" /\ o.main \in nf /\ Act(nf) # None
            THEN ShowPath(Act(nf), models)
            ELSE UNCHANGED <<files, mainPath, active, models, load, timer>>
  BY <1>1
<1>3. nf \in SUBSET Path /\ (out = "ok" => nf = Existing)
  BY Listing
<1>4. PICK m \in Path : m = Main(nf)
  BY <1>3, FirstOrPath, PathAssumption DEF OpSet
<1>5. PICK a \in Path \cup {None} : a = Act(nf)
  BY <1>3, <1>4, FirstOrPath, PathAssumption
<1>6. Answered(i, o, out, nf, m, a)
  BY <1>2, <1>3, <1>4, <1>5 DEF Answered, Checked
<1> QED
  BY <1>3, <1>6

LEMMA CheckMainTyped == ASSUME Typed, NEW i \in DOMAIN ops, CheckMain(i) PROVE Typed'
<1>1. ServerTyped /\ PageTyped /\ OpsTyped /\ Owned(models)
  BY DEF Typed, PageTyped
<1>2. PICK o : o = ops[i] /\ Sound(o) /\ Now(o) = "check" /\ o \in OpSet
  BY <1>1, OpFacts DEF CheckMain
<1>0. PICK out \in Answers, nf \in SUBSET Path, m \in Path, a \in Path \cup {None} :
        Answered(i, o, out, nf, m, a)
  BY <1>2, CheckMainAnswer
<1>5. /\ JudgeAlso(out, IF m \in nf THEN {} ELSE {"emptied"})
      /\ Go(i, Checked(o, m, a), {}) \/ Go(i, Dropped(o), {})
      /\ ShowPath(a, models) \/ UNCHANGED <<files, mainPath, active, models, load, timer>>
  BY <1>0 DEF Answered
<1>6. OpsTyped'
  <2>1. PICK q : q = Checked(o, m, a)
    OBVIOUS
  <2>2. q.todo # <<>> /\ Sound(q)
    <3>1. Sound(o) /\ Now(o) = "check"
      BY <1>2
    <3> QED
      BY <2>1, <3>1, CheckedSound
  <2>3. Go(i, q, {}) \/ Go(i, Dropped(ops[i]), {})
    BY <1>2, <1>5, <2>1
  <2> QED
    BY <1>1, <2>2, <2>3, GoesTyped
<1>7. PageTyped'
  BY <1>1, <1>5, RenderedTyped
<1>8. UNCHANGED <<server, mount, puts, proposals, env, fresh>>
  BY DEF CheckMain
<1>9. ServerTyped'
  BY <1>1, <1>8 DEF ServerTyped
<1>10. (IF m \in nf THEN {} ELSE {"emptied"}) \in SUBSET Excuses
  BY DEF Excuses
<1> QED
  BY <1>5, <1>6, <1>7, <1>8, <1>9, <1>10, OnlyOps

LEMMA PatchMainTyped == ASSUME Typed, NEW i \in DOMAIN ops, PatchMain(i) PROVE Typed'
<1>1. ServerTyped /\ PageTyped /\ OpsTyped /\ Owned(models) /\ active \in Path \cup {None} /\ main \in Path
  BY DEF Typed, ServerTyped, PageTyped
<1>2. PICK o : o = ops[i] /\ Sound(o) /\ Now(o) = "patch" /\ o \in OpSet /\ o.to \in Path
  BY <1>1, OpFacts DEF PatchMain, Sound
<1>3. PICK a \in Path \cup {None} : a = IF o.next = None THEN active ELSE o.next
  BY <1>1, <1>2 DEF OpSet
<1>4. PICK out :
         /\ JudgeAlso(out, {}) /\ main' = IF out = "refused" THEN main ELSE o.to
         /\ Go(i, IF out = "ok" THEN Tailed(o) ELSE Dropped(o), {})
         /\ IF out = "ok" THEN ShowMain(o.to, a, models) ELSE ShowPath(a, models)
  BY <1>2, <1>3 DEF PatchMain, Judge
<1>5. OpsTyped'
  <2>1. Now(ops[i]) \notin Gets \cup {"put"}
    BY <1>2 DEF Gets
  <2> QED
    BY <1>1, <1>2, <1>4, <2>1, GoesTyped
<1>6. PageTyped'
  BY <1>1, <1>2, <1>4, RenderedTyped
<1>7. UNCHANGED <<stored, mount, puts, proposals, env, fresh>>
  BY DEF PatchMain
<1>8. ServerTyped'
  BY <1>1, <1>2, <1>4, <1>7 DEF ServerTyped
<1>9. {} \in SUBSET Excuses
  OBVIOUS
<1> QED
  BY <1>4, <1>5, <1>6, <1>7, <1>8, <1>9, OnlyOps

\* The texts of an archive go to the paths of the archive.
LEMMA UnpackStores ==
  ASSUME Owned(stored), NEW o, Sound(o), o.kind \in {"import", "restore"},
         NEW st, st = [p \in Path |-> Written(o.texts, p)]
  PROVE  Owned(st) /\ \A p \in Path : st[p] # stored[p] => p \in Archive
<1> DEFINE at(p) == {j \in DOMAIN o.texts : o.texts[j].path = p}
<1>1. o.texts \in Seq(Sends) /\ \A j \in DOMAIN o.texts : o.texts[j].path \in Archive
  BY DEF Sound, OpSet
<1>2. \A j \in DOMAIN o.texts : o.texts[j] \in Sends
  BY <1>1, LenProperties
<1>3. ASSUME NEW p \in Path PROVE st[p] \in Own(p) \cup {None} /\ (st[p] # stored[p] => p \in Archive)
  <2>1. CASE at(p) = {}
    <3>1. st[p] = stored[p]
      BY <2>1 DEF Written
    <3> QED
      BY <3>1 DEF Owned
  <2>2. CASE at(p) # {}
    <3>1. PICK k : k = (CHOOSE j \in at(p) : TRUE) /\ k \in at(p)
      BY <2>2
    <3>2. st[p] = o.texts[k].text /\ k \in DOMAIN o.texts /\ o.texts[k].path = p
      BY <2>2, <3>1 DEF Written
    <3> QED
      BY <1>1, <1>2, <3>2 DEF Sends
  <2> QED
    BY <2>1, <2>2
<1>4. st \in [Path -> Text \cup {None}]
  <2>1. st = [p \in Path |-> st[p]]
    OBVIOUS
  <2> HIDE DEF at
  <2> QED
    BY <1>3, <2>1, OwnTexts
<1> QED
  BY <1>3, <1>4 DEF Owned

LEMMA UnpackTyped == ASSUME Typed, NEW i \in DOMAIN ops, Unpack(i) PROVE Typed'
<1>1. ServerTyped /\ PageTyped /\ OpsTyped /\ Owned(stored)
  BY DEF Typed, ServerTyped
<1>2. PICK o : o = ops[i] /\ Sound(o) /\ Now(o) = "unpack"
  BY <1>1, OpFacts DEF Unpack
<1>3. o.kind \in {"import", "restore"}
  BY <1>2, Turns DEF Sound, Now
<1>4. PICK st : st = [p \in Path |-> Written(o.texts, p)]
  OBVIOUS
<1>5. PICK out :
         /\ JudgeAlso(out, IF active \in Archive THEN {"replaced"} ELSE {})
         /\ stored' = IF out = "refused" THEN stored ELSE st
         /\ Go(i, Dropped(o), Archive) \/ Go(i, Tailed(o), Archive)
  BY <1>2, <1>4 DEF Unpack
<1>6. OpsTyped'
  <2>1. Now(ops[i]) \notin Gets \cup {"put"}
    BY <1>2 DEF Gets
  <2> QED
    BY <1>1, <1>2, <1>5, <2>1, GoesTyped
<1>7. UNCHANGED <<main, page, puts, proposals, env, fresh>>
  BY DEF Unpack
<1>8. ServerTyped' /\ PageTyped'
  <2>1. Owned(st)
    BY <1>1, <1>2, <1>3, <1>4, UnpackStores
  <2> QED
    BY <1>1, <1>5, <1>7, <2>1 DEF ServerTyped, PageTyped
<1>9. (IF active \in Archive THEN {"replaced"} ELSE {}) \in SUBSET Excuses
  BY DEF Excuses
<1> QED
  BY <1>5, <1>6, <1>7, <1>8, <1>9, OnlyOps

LEMMA LoadMainAgainTyped == ASSUME Typed, NEW i \in DOMAIN ops, LoadMainAgain(i) PROVE Typed'
<1>1. ServerTyped /\ PageTyped /\ OpsTyped /\ Owned(models) /\ active \in Path \cup {None} /\ main \in Path
  BY DEF Typed, PageTyped, ServerTyped
<1>2. Now(ops[i]) = "main"
  BY <1>1, OpFacts DEF LoadMainAgain
<1>3. PICK out :
         /\ JudgeAlso(out, {})
         /\ Go(i, IF out = "ok" THEN Tailed(ops[i]) ELSE Dropped(ops[i]), {})
         /\ IF out = "ok" THEN ShowProject(main)
            ELSE UNCHANGED <<files, mainPath, active, models, load, timer>>
  BY DEF LoadMainAgain, Judge
<1>4. OpsTyped'
  <2>1. Now(ops[i]) \notin Gets \cup {"put"}
    BY <1>2 DEF Gets
  <2> QED
    BY <1>1, <1>3, <2>1, GoesTyped
<1>5. PageTyped'
  BY <1>1, <1>3, RenderedTyped
<1>6. UNCHANGED <<server, puts, proposals, env, fresh>> /\ mount' \subseteq mount
  BY DEF LoadMainAgain
<1>7. ServerTyped'
  BY <1>1, <1>6 DEF ServerTyped
<1>8. {} \in SUBSET Excuses
  OBVIOUS
<1> QED
  BY <1>3, <1>4, <1>5, <1>6, <1>7, <1>8, OnlyOps

\* The command for an uploaded image goes to the model of the shown file.
LEMMA InsertedOwned == ASSUME PageTyped, NEW o, Sound(o) PROVE Owned(Inserted(o))
<1>1. CASE o.kind # "image" \/ active \in Binary \/ models[active] = None
  BY <1>1 DEF Inserted, PageTyped
<1>2. CASE o.kind = "image" /\ active \notin Binary /\ models[active] # None
  <2>1. PICK v : v = o.texts[1].text.ver
    OBVIOUS
  <2>2. Inserted(o) = [models EXCEPT ![active] = [doc |-> active, ver |-> v]]
    BY <1>2, <2>1 DEF Inserted
  <2>3. active = None => Inserted(o) = models
    <3>1. None \notin DOMAIN models
      BY PathAssumption DEF PageTyped, Owned
    <3>2. models = [p \in DOMAIN models |-> models[p]]
      BY DEF PageTyped, Owned
    <3> QED
      BY <2>2, <3>1, <3>2
  <2>4. v \in Nat
    <3>1. o.texts \in Seq(Sends) /\ Len(o.texts) = 1
      BY <1>2 DEF Sound, OpSet
    <3>2. o.texts[1] \in Sends
      BY <3>1, LenProperties
    <3> QED
      BY <2>1, <3>2 DEF Sends, Text
  <2>5. active \in Path => [doc |-> active, ver |-> v] \in Own(active)
    BY <2>4 DEF Own
  <2>6. active \in Path => Owned(Inserted(o))
    BY <2>2, <2>5, OwnTexts DEF Owned, PageTyped
  <2> QED
    BY <2>3, <2>6 DEF PageTyped
<1> QED
  BY <1>1, <1>2

LEMMA LoadFilesAgainTyped == ASSUME Typed, NEW i \in DOMAIN ops, LoadFilesAgain(i) PROVE Typed'
<1>1. ServerTyped /\ PageTyped /\ OpsTyped /\ Owned(models) /\ active \in Path \cup {None}
  BY DEF Typed, PageTyped, ServerTyped
<1>2. PICK o : o = ops[i] /\ Sound(o) /\ Now(o) = "list"
  BY <1>1, OpFacts DEF LoadFilesAgain
<1>3. PICK ms : ms = Inserted(o) /\ Owned(ms)
  BY <1>1, <1>2, InsertedOwned
<1>4. PICK out \in Answers, fs \in SUBSET Path :
         /\ JudgeAlso(out, {})
         /\ Go(i, IF out # "refused" THEN Tailed(o) ELSE Dropped(o), {})
         /\ IF out = "refused" THEN UNCHANGED <<files, mainPath, active, models, load, timer>>
            ELSE IF o.kind \in {"newFile", "upload", "image"} THEN ShowList(fs, o.to, ms)
            ELSE ShowList(fs, active, models)
  BY <1>2, <1>3, Listing DEF LoadFilesAgain, Judge
<1>5. OpsTyped'
  <2>1. Now(ops[i]) \notin Gets \cup {"put"}
    BY <1>2 DEF Gets
  <2> QED
    BY <1>1, <1>2, <1>4, <2>1, GoesTyped
<1>6. PageTyped'
  <2>1. CASE out # "refused" /\ o.kind \in {"newFile", "upload", "image"}
    <3>1. o.to \in Path \cup {None} /\ ShowList(fs, o.to, ms)
      BY <1>2, <1>4, <2>1 DEF Sound
    <3> QED
      BY <1>1, <1>3, <3>1, RenderedTyped
  <2>2. CASE ~ (out # "refused" /\ o.kind \in {"newFile", "upload", "image"})
    BY <1>1, <1>4, <2>2, RenderedTyped
  <2> QED
    BY <2>1, <2>2
<1>7. UNCHANGED <<server, mount, puts, proposals, env, fresh>>
  BY DEF LoadFilesAgain
<1>8. ServerTyped'
  BY <1>1, <1>7 DEF ServerTyped
<1>9. {} \in SUBSET Excuses
  OBVIOUS
<1> QED
  BY <1>4, <1>5, <1>6, <1>7, <1>8, <1>9, OnlyOps

LEMMA RestoreEndsTyped == ASSUME Typed, NEW i \in DOMAIN ops, RestoreEnds(i) PROVE Typed'
<1>1. ServerTyped /\ PageTyped /\ OpsTyped /\ RestTyped
  BY DEF Typed
<1>2. PICK out :
         /\ JudgeAlso(out, {})
         /\ IF out = "ok" THEN NewPage /\ ops' = <<>> /\ proposals' = NoProposals
            ELSE Go(i, Dropped(ops[i]), {}) /\ UNCHANGED <<page, proposals>>
  BY DEF RestoreEnds, Judge
<1>3. UNCHANGED <<server, puts, env, fresh>>
  BY DEF RestoreEnds
<1>4. {} \in SUBSET Excuses
  OBVIOUS
<1>5. ServerTyped'
  BY <1>1, <1>3 DEF ServerTyped
<1>6. CASE out = "ok"
  <2>1. Owned(NoProposals) /\ OpsTyped'
    BY <1>2, <1>6 DEF Owned, NoProposals, OpsTyped
  <2>2. excuse' \subseteq Excuses
    BY <1>1, <1>2, <1>4, Judged
  <2>3. RestTyped'
    BY <1>1, <1>2, <1>3, <1>6, <2>1, <2>2, NewPageTyped DEF RestTyped
  <2> QED
    BY <1>2, <1>5, <1>6, <2>1, <2>3, NewPageTyped DEF Typed
<1>7. CASE out # "ok"
  <2>1. Go(i, Dropped(ops[i]), {}) /\ UNCHANGED <<page, proposals>>
    BY <1>2, <1>7
  <2>2. OpsTyped'
    BY <1>1, <2>1, GoesTyped
  <2>3. PageTyped'
    BY <1>1, <2>1 DEF PageTyped
  <2> QED
    BY <1>2, <1>3, <1>4, <1>5, <2>1, <2>2, <2>3, OnlyOps
<1> QED
  BY <1>6, <1>7

\* What is stored of some texts belongs to its path.
LEMMA WrittenOwned ==
  ASSUME NEW texts \in Seq(Sends), NEW p \in Path
  PROVE  /\ (\E j \in DOMAIN texts : texts[j].path = p) => Written(texts, p) \in Own(p)
         /\ (\A j \in DOMAIN texts : texts[j].path # p) => Written(texts, p) = stored[p]
<1> DEFINE at == {j \in DOMAIN texts : texts[j].path = p}
<1>1. Written(texts, p) = IF at = {} THEN stored[p] ELSE texts[CHOOSE j \in at : TRUE].text
  BY DEF Written
<1>2. CASE at = {}
  BY <1>1, <1>2
<1>3. CASE at # {}
  <2>1. PICK k : k = (CHOOSE j \in at : TRUE) /\ k \in at
    BY <1>3
  <2>2. texts[k] \in Sends /\ texts[k].path = p
    BY <2>1, LenProperties
  <2>3. Written(texts, p) = texts[k].text
    BY <1>1, <1>3, <2>1
  <2> QED
    BY <1>3, <2>2, <2>3 DEF Sends
<1> QED
  BY <1>2, <1>3

LEMMA AcceptEndsTyped == ASSUME Typed, NEW i \in DOMAIN ops, AcceptEnds(i) PROVE Typed'
<1>1. /\ ServerTyped /\ PageTyped /\ OpsTyped /\ RestTyped /\ Owned(models) /\ active \in Path \cup {None}
  BY DEF Typed, PageTyped
<1>2. PICK o : o = ops[i] /\ Sound(o) /\ o \in OpSet
  BY <1>1, OpFacts
<1>3. PICK set : set = {p \in {o.texts[j].path : j \in DOMAIN o.texts} \ Binary : models[p] # None}
  OBVIOUS
<1>4. PICK ms : ms = [p \in Path |-> IF p \in set THEN Written(o.texts, p) ELSE models[p]]
  OBVIOUS
<1>5. Owned(ms)
  <2>1. ASSUME NEW p \in Path, p \in set PROVE ms[p] \in Own(p)
    <3>1. o.texts \in Seq(Sends) /\ \E j \in DOMAIN o.texts : o.texts[j].path = p
      BY <1>2, <1>3, <2>1 DEF OpSet
    <3>2. ms[p] = Written(o.texts, p)
      BY <1>4, <2>1
    <3> QED
      BY <3>1, <3>2, WrittenOwned
  <2>2. \A p \in Path : ms[p] \in Own(p) \cup {None}
    BY <1>1, <1>4, <2>1 DEF Owned
  <2>3. \A p \in Path : ms[p] \in Text \cup {None}
    BY <2>2, OwnTexts
  <2>4. ms \in [Path -> Text \cup {None}]
    BY <1>4, <2>3
  <2> QED
    BY <2>2, <2>4 DEF Owned
<1>6. PICK out \in Answers, fs \in SUBSET Path :
         /\ JudgeAlso(out, {}) /\ Go(i, Dropped(o), {})
         /\ IF out = "refused"
            THEN UNCHANGED <<proposals, files, mainPath, active, models, load, timer>>
            ELSE /\ proposals' = NoProposals
                 /\ IF Settle(fs, mainPath, active) = active /\ active \in set
                    THEN /\ files' = fs /\ models' = ms /\ timer' = active
                         /\ UNCHANGED <<mainPath, active, load>>
                    ELSE ShowList(fs, active, ms)
  BY <1>2, <1>3, <1>4, Listing DEF AcceptEnds, Judge
<1>7. OpsTyped'
  BY <1>1, <1>2, <1>6, GoesTyped
<1>8. PageTyped'
  <2>1. CASE UNCHANGED <<files, mainPath, active, models, load, timer>>
    BY <1>1, <2>1 DEF PageTyped
  <2>2. CASE ShowList(fs, active, ms)
    BY <1>1, <1>5, <2>2, RenderedTyped
  <2>3. CASE files' = fs /\ models' = ms /\ timer' = active /\ UNCHANGED <<mainPath, active, load>>
    BY <1>1, <1>5, <2>3 DEF PageTyped
  <2> QED
    BY <1>6, <2>1, <2>2, <2>3
<1>9. UNCHANGED <<server, mount, puts, env, fresh>>
  BY DEF AcceptEnds
<1>10. ServerTyped'
  BY <1>1, <1>9 DEF ServerTyped
<1>11. RestTyped'
  <2>1. Owned(NoProposals)
    BY DEF Owned, NoProposals
  <2>2. Owned(proposals')
    BY <1>1, <1>6, <2>1 DEF RestTyped
  <2>3. {} \in SUBSET Excuses
    OBVIOUS
  <2>4. excuse' \subseteq Excuses
    BY <1>1, <1>6, <2>3, Judged
  <2> QED
    BY <1>1, <1>9, <2>2, <2>4 DEF RestTyped
<1> QED
  BY <1>7, <1>8, <1>10, <1>11 DEF Typed

LEMMA NextTyped == ASSUME Typed, [Next]_vars PROVE Typed'
<1>1. CASE UNCHANGED vars
  BY <1>1 DEF Typed, ServerTyped, PageTyped, OpsTyped, RestTyped
<1>2. CASE OperationStep
  <2>1. PICK i \in DOMAIN ops :
          \/ PutFile(i) \/ GetFile(i) \/ DeleteOld(i) \/ DeleteOne(i) \/ DeleteUnder(i)
          \/ CheckMain(i) \/ PatchMain(i) \/ Unpack(i) \/ LoadMainAgain(i)
          \/ LoadFilesAgain(i) \/ RestoreEnds(i) \/ AcceptEnds(i)
    BY <1>2 DEF OperationStep
  <2> QED
    BY <2>1, PutFileTyped, GetFileTyped, DeleteOldTyped, DeleteOneTyped, DeleteUnderTyped,
       CheckMainTyped, PatchMainTyped, UnpackTyped, LoadMainAgainTyped, LoadFilesAgainTyped,
       RestoreEndsTyped, AcceptEndsTyped
<1>3. CASE Outside \/ \E i \in DOMAIN puts : PutLands(i)
  BY <1>3, OutsideTyped
<1>4. CASE Command
  BY <1>4, Commands, PageStepsTyped, BeginTyped
<1>5. CASE LoadMain \/ LoadFiles \/ FetchProjectFile \/ Loaded \/ Autosave \/ Reload
  BY <1>5, PageStepsTyped
<1> QED
  BY <1>1, <1>2, <1>3, <1>4, <1>5 DEF Next

LEMMA InitTyped == ASSUME Init PROVE Typed
<1>1. \A p \in Path : [doc |-> p, ver |-> 0] \in Own(p) /\ [doc |-> p, ver |-> 0] \in Text
  BY DEF Own, Text, Docs
<1>2. Owned(stored)
  BY <1>1 DEF Init, Owned
<1> QED
  BY <1>2, PathAssumption DEF Init, Typed, ServerTyped, PageTyped, OpsTyped, RestTyped, Owned,
     NoProposals, Excuses

\* Every variable keeps to what the code puts in it, and what an operation has
\* left to do fits its kind and what it holds.
THEOREM FilesTyped == Spec => []TypeOK
<1>1. Init => Typed
  BY InitTyped
<1>2. Typed /\ [Next]_vars => Typed'
  BY NextTyped
<1>3. Typed => TypeOK
  <2>1. Sends \subseteq [path : Path, text : Text]
    BY DEF Sends
  <2>2. ASSUME Typed PROVE puts \in Seq([path : Path, text : Text])
    <3>1. puts \in Seq(Sends)
      BY <2>2 DEF Typed, RestTyped
    <3>2. Len(puts) \in Nat /\ puts \in [1..Len(puts) -> [path : Path, text : Text]]
      BY <2>1, <3>1, LenProperties
    <3> QED
      BY <3>2, SeqDef
  <2> QED
    BY <2>2 DEF TypeOK, Typed, ServerTyped, PageTyped, RestTyped, Owned
<1> QED
  BY <1>1, <1>2, <1>3, PTL DEF Spec

\* The text of one file is never stored, nor shown, under the path of another
\* unless a rename or a move took it there.
THEOREM FilesUnmixed == Spec => []NothingMixed
<1>1. Init => Typed
  BY InitTyped
<1>2. Typed /\ [Next]_vars => Typed'
  BY NextTyped
<1>3. Typed => NothingMixed
  BY DEF Typed, ServerTyped, PageTyped, Owned, Own, NothingMixed
<1> QED
  BY <1>1, <1>2, <1>3, PTL DEF Spec

-----------------------------------------------------------------------------
(* What the running operations have stored and may delete.                 *)

\* What a clean operation has sent is stored in f; and so is the file that a
\* rename or a move takes, until it has sent the new one.
Safe(o, f) ==
    o.clean => /\ \A j \in 1 .. o.sent : f[o.texts[j].path] = o.texts[j].text
               /\ o.kind \in Moving => o.sent = 1 \/ f[o.from] # None
AllSafe == \A i \in DOMAIN ops : Safe(ops[i], stored)

\* The files that a step has not changed are as they were.
Besides(ps) == \A p \in Path : p \notin ps => stored'[p] = stored[p]

LEMMA OtherSafe ==
  ASSUME NEW o, Sound(o), Safe(o, stored), NEW ps, NEW q, After(o, q, ps), Besides(ps)
  PROVE  Safe(q, stored')
<1>1. CASE q = Soiled(o)
  <2>1. q.clean = FALSE
    BY <1>1 DEF Soiled, Sound, OpSet
  <2> QED
    BY <2>1 DEF Safe
<1>2. CASE q = o /\ Uses(o) \cap ps = {}
  <2>1. o.texts \in Seq(Sends) /\ o.sent \in Nat /\ o.sent <= Len(o.texts)
    BY DEF Sound, OpSet
  <2>2. ASSUME NEW j \in 1..o.sent
        PROVE  stored'[o.texts[j].path] = stored[o.texts[j].path]
    <3>1. j \in DOMAIN o.texts
      BY <2>1, LenProperties
    <3>2. o.texts[j] \in Sends
      BY <2>1, <3>1, LenProperties
    <3>3. o.texts[j].path \in Path /\ o.texts[j].path \in Uses(o)
      BY <3>1, <3>2 DEF Sends, Uses
    <3> QED
      BY <1>2, <3>3 DEF Besides
  <2>3. o.kind \in Moving => stored'[o.from] = stored[o.from]
    BY <1>2 DEF Sound, Uses, Besides
  <2> QED
    BY <1>2, <2>2, <2>3 DEF Safe
<1> QED
  BY <1>1, <1>2 DEF After

LEMMA TouchedSafe ==
  ASSUME Typed, AllSafe, NEW ps, ops' = Touched(ops, 0, ps), Besides(ps)
  PROVE  AllSafe'
<1>1. OpsTyped /\ 0 \in Nat /\ \A j \in DOMAIN ops : j # 0
  BY LenProperties DEF Typed, OpsTyped
<1>2. PICK os : os = Touched(ops, 0, ps)
  OBVIOUS
<1>3. DOMAIN os = DOMAIN ops /\ \A j \in DOMAIN ops : After(ops[j], os[j], ps)
  BY <1>1, <1>2, TouchedOps
<1>4. ASSUME NEW j \in DOMAIN os PROVE Safe(os[j], stored')
  <2>1. Sound(ops[j]) /\ Safe(ops[j], stored) /\ After(ops[j], os[j], ps)
    BY <1>1, <1>3 DEF OpsTyped, AllSafe
  <2> QED
    BY <2>1, OtherSafe
<1> QED
  BY <1>2, <1>4 DEF AllSafe

LEMMA GoesSafe ==
  ASSUME Typed, AllSafe, NEW i \in DOMAIN ops, NEW q, NEW ps, Go(i, q, ps), Besides(ps),
         q.todo # <<>> => Sound(q) /\ Safe(q, stored')
  PROVE  AllSafe'
<1>1. OpsTyped
  BY DEF Typed
<1>2. \A k \in DOMAIN ops' : \/ ops'[k] = q /\ q.todo # <<>>
                             \/ \E j \in DOMAIN ops : j # i /\ After(ops[j], ops'[k], ps)
  BY <1>1, Goes
<1>3. ASSUME NEW k \in DOMAIN ops' PROVE Safe(ops'[k], stored')
  <2>1. PICK c : c = ops'[k]
    OBVIOUS
  <2>2. CASE c = q /\ q.todo # <<>>
    BY <2>1, <2>2
  <2>3. CASE \E j \in DOMAIN ops : j # i /\ After(ops[j], c, ps)
    <3>1. PICK j \in DOMAIN ops : After(ops[j], c, ps)
      BY <2>3
    <3>2. Sound(ops[j]) /\ Safe(ops[j], stored)
      BY <1>1 DEF OpsTyped, AllSafe
    <3> QED
      BY <2>1, <3>1, <3>2, OtherSafe
  <2> QED
    BY <1>2, <2>1, <2>2, <2>3
<1> QED
  BY <1>3 DEF AllSafe

\* The rest of an operation, once the answer has been dealt with.
LEMMA RestSafe ==
  ASSUME Typed, AllSafe, NEW i \in DOMAIN ops, NEW ps, Besides(ps),
         Go(i, Tailed(ops[i]), ps) \/ Go(i, Dropped(ops[i]), ps),
         Now(ops[i]) \notin Gets \cup {"put"}, Safe(ops[i], stored')
  PROVE  AllSafe'
<1>1. PICK o : o = ops[i] /\ Sound(o) /\ o \in OpSet
  BY OpFacts DEF Typed
<1>2. PICK q : q = Tailed(o)
  OBVIOUS
<1>3. CASE Go(i, Dropped(o), ps)
  BY <1>1, <1>3, DroppedDone, GoesSafe
<1>4. CASE Go(i, q, ps)
  <2>1. /\ q.todo = Tail(o.todo) /\ q.kind = o.kind /\ q.from = o.from
        /\ q.texts = o.texts /\ q.sent = o.sent /\ q.clean = o.clean
    BY <1>1, <1>2, TailedFields
  <2>2. Safe(q, stored')
    BY <1>1, <2>1 DEF Safe
  <2>3. q.todo # <<>> => Sound(q)
    BY <1>1, <1>2, <2>1, TailedSound
  <2> QED
    BY <1>4, <2>2, <2>3, GoesSafe
<1> QED
  BY <1>1, <1>2, <1>3, <1>4

\* As long as the operation only reads.
LEMMA ReadSafe ==
  ASSUME Typed, AllSafe, NEW i \in DOMAIN ops, NEW ps, stored' = stored,
         Go(i, Tailed(ops[i]), ps) \/ Go(i, Dropped(ops[i]), ps),
         Now(ops[i]) \notin Gets \cup {"put"}
  PROVE  AllSafe'
<1>1. Besides(ps) /\ Safe(ops[i], stored')
  BY DEF Besides, AllSafe
<1> QED
  BY <1>1, RestSafe

\* An operation that does not send and does not move has nothing to lose.
LEMMA IdleSafe ==
  ASSUME NEW o, Sound(o), o.sent = 0, o.kind \notin Moving, NEW f PROVE Safe(o, f)
BY DEF Safe

LEMMA PutFileSafe == ASSUME Typed, AllSafe, NEW i \in DOMAIN ops, PutFile(i) PROVE AllSafe'
<1>1. ServerTyped /\ PageTyped /\ OpsTyped /\ Owned(stored)
  BY DEF Typed, ServerTyped
<1>2. PICK o : o = ops[i] /\ Sound(o) /\ Now(o) = "put" /\ o \in OpSet
  BY <1>1, OpFacts DEF PutFile
<1>3. PICK q, r : q = [o EXCEPT !.sent = @ + 1] /\ r = IF q.sent = Len(o.texts) THEN Tailed(q) ELSE q
  OBVIOUS
<1>4. /\ r.todo # <<>> /\ Sound(r) /\ o.sent + 1 \in DOMAIN o.texts /\ o.texts[o.sent + 1] \in Sends
      /\ r.sent = o.sent + 1 /\ r.kind = o.kind /\ r.from = o.from /\ r.texts = o.texts
      /\ r.clean = o.clean
  BY <1>2, <1>3, SentSound
<1>5. PICK f : f = o.texts[o.sent + 1] /\ f \in Sends /\ f.path \in Path /\ f.text \in Own(f.path)
  BY <1>4 DEF Sends
<1>6. \/ stored' = [stored EXCEPT ![f.path] = f.text] /\ Go(i, r, {f.path})
      \/ stored' = [stored EXCEPT ![f.path] = f.text] /\ Go(i, Dropped(o), {f.path})
      \/ stored' = stored /\ Go(i, Dropped(o), {})
  <2>1. PICK out, written : /\ written = (out # "refused" /\ f.path \in Allowed)
                    /\ stored' = (IF written THEN [stored EXCEPT ![f.path] = f.text] ELSE stored)
                    /\ Go(i, IF out # "ok" \/ ~ written THEN Dropped(o) ELSE r,
                          IF written THEN {f.path} ELSE {})
    BY <1>2, <1>3, <1>5 DEF PutFile
  <2> QED
    BY <2>1
<1>7. CASE stored' = [stored EXCEPT ![f.path] = f.text]
  <2>1. Besides({f.path}) /\ stored'[f.path] = f.text
    BY <1>1, <1>5, <1>7 DEF Besides, Owned
  <2>2. ASSUME Go(i, r, {f.path}) PROVE Safe(r, stored')
    <3> SUFFICES ASSUME r.clean PROVE /\ \A j \in 1 .. r.sent : stored'[r.texts[j].path] = r.texts[j].text
                                      /\ r.kind \in Moving => r.sent = 1
      BY DEF Safe
    <3>1. o.sent \in Nat /\ o.texts \in Seq(Sends) /\ o.sent + 1 <= Len(o.texts)
      BY <1>2, <1>4, LenProperties DEF OpSet
    <3>2. Safe(o, stored) /\ o.clean
      BY <1>2, <1>4 DEF AllSafe
    <3>3. ASSUME NEW j \in 1..o.sent
          PROVE  stored'[o.texts[j].path] = o.texts[j].text
      <4>1. j \in DOMAIN o.texts /\ j # o.sent + 1
        BY <3>1, LenProperties
      <4>2. o.texts[j] \in Sends
        BY <3>1, <4>1, LenProperties
      <4>3. o.texts[j].path # f.path /\ o.texts[j].path \in Path
        BY <1>2, <1>4, <1>5, <4>1, <4>2 DEF Sound, Sends
      <4>4. stored[o.texts[j].path] = o.texts[j].text
        BY <3>2 DEF Safe
      <4> QED
        BY <2>1, <4>3, <4>4 DEF Besides
    <3>4. \A j \in 1..r.sent : j \in 1..o.sent \/ j = o.sent + 1
      BY <1>4, <3>1
    <3>5. \A j \in 1..r.sent : stored'[r.texts[j].path] = r.texts[j].text
      BY <1>4, <1>5, <2>1, <3>3, <3>4
    <3>6. r.kind \in Moving => r.sent = 1
      <4>1. o.kind \in Moving => o.sent = 0
        BY <1>2 DEF Sound, Gets
      <4> QED
        BY <1>4, <4>1
    <3> QED
      BY <3>5, <3>6
  <2>3. CASE Go(i, r, {f.path})
    BY <1>4, <2>1, <2>2, <2>3, GoesSafe
  <2>4. CASE Go(i, Dropped(o), {f.path})
    BY <1>2, <2>1, <2>4, DroppedDone, GoesSafe
  <2>5. CASE stored' = stored /\ Go(i, Dropped(o), {})
    <3>1. Besides({})
      BY <2>5 DEF Besides
    <3> QED
      BY <1>2, <2>5, <3>1, DroppedDone, GoesSafe
  <2> QED
    BY <1>6, <2>3, <2>4, <2>5
<1>8. CASE stored' = stored /\ Go(i, Dropped(o), {})
  <2>1. Besides({})
    BY <1>8 DEF Besides
  <2> QED
    BY <1>2, <1>8, <2>1, DroppedDone, GoesSafe
<1> QED
  BY <1>6, <1>7, <1>8

LEMMA GetFileSafe == ASSUME Typed, AllSafe, NEW i \in DOMAIN ops, GetFile(i) PROVE AllSafe'
<1>1. OpsTyped /\ Owned(stored)
  BY DEF Typed, ServerTyped
<1>2. PICK o : o = ops[i] /\ Sound(o) /\ Now(o) \in Gets /\ o \in OpSet
  BY <1>1, OpFacts DEF GetFile, Gets
<1>3. o.kind \in Moving /\ o.from \in Path /\ o.to \in Path /\ o.sent = 0
  <2>1. o.kind \in Moving
    BY <1>2, Turns DEF Sound, Now
  <2> QED
    BY <1>2, <2>1 DEF Sound
<1>4. stored' = stored
  BY DEF GetFile
<1>5. Besides({})
  BY <1>4 DEF Besides
<1>6. PICK t, q :
         /\ Go(i, q, {})
         /\ \/ q = Dropped(o)
            \/ t \in Own(o.to) /\ q = [Tailed(o) EXCEPT !.texts = <<Put(o.to, t)>>] /\ stored[o.from] # None
  <2>1. PICK raw, t : /\ raw = stored[o.from]
                      /\ t = IF raw = None THEN None
                             ELSE IF o.from \in Binary /\ Turn(i, "getText") THEN Garbled ELSE Taken(raw, o.to)
    OBVIOUS
  <2>2. raw # None => t \in Own(o.to)
    <3>1. raw # None => raw \in Own(o.from)
      BY <1>1, <1>3, <2>1 DEF Owned
    <3> QED
      BY <1>3, <2>1, <3>1, OwnTexts, TakenOwned
  <2>3. PICK out : Go(i, IF out = "ok" /\ raw # None
                         THEN [Tailed(o) EXCEPT !.texts = <<Put(o.to, t)>>] ELSE Dropped(o), {})
    BY <1>2, <2>1 DEF GetFile
  <2>4. CASE out = "ok" /\ raw # None
    BY <2>1, <2>2, <2>3, <2>4
  <2>5. CASE ~ (out = "ok" /\ raw # None)
    BY <2>3, <2>5
  <2> QED
    BY <2>4, <2>5
<1>7. CASE q = Dropped(o)
  BY <1>2, <1>5, <1>6, <1>7, DroppedDone, GoesSafe
<1>8. CASE t \in Own(o.to) /\ q = [Tailed(o) EXCEPT !.texts = <<Put(o.to, t)>>] /\ stored[o.from] # None
  <2>1. Sound(q) /\ q.sent = 0 /\ q.from = o.from
    BY <1>2, <1>8, GotSound
  <2>2. Safe(q, stored')
    BY <1>4, <1>8, <2>1 DEF Safe
  <2> QED
    BY <1>5, <1>6, <2>1, <2>2, GoesSafe
<1> QED
  BY <1>6, <1>7, <1>8

LEMMA DeleteOldSafe == ASSUME Typed, AllSafe, NEW i \in DOMAIN ops, DeleteOld(i) PROVE AllSafe'
<1>1. OpsTyped /\ Owned(stored)
  BY DEF Typed, ServerTyped
<1>2. PICK o : o = ops[i] /\ Sound(o) /\ Now(o) = "del" /\ o.kind # "delete" /\ o \in OpSet
  BY <1>1, OpFacts DEF DeleteOld
<1>3. o.kind \in Moving
  BY <1>2, Turns DEF Sound, Now
<1>4. /\ o.from \in Path /\ o.to \in Path /\ o.from # o.to /\ o.sent = 1
      /\ Len(o.texts) = 1 /\ o.texts[1].path = o.to
  BY <1>2, <1>3 DEF Sound, Gets
<1>5. /\ Go(i, Tailed(o), {o.from}) \/ Go(i, Dropped(o), {o.from})
      /\ stored' = stored \/ stored' = [stored EXCEPT ![o.from] = None]
  BY <1>2 DEF DeleteOld
<1>6. Besides({o.from})
  BY <1>1, <1>5 DEF Besides, Owned
<1>7. stored'[o.to] = stored[o.to]
  BY <1>4, <1>6 DEF Besides
<1>8. Safe(o, stored')
  BY <1>2, <1>4, <1>7 DEF Safe, AllSafe
<1>9. Now(ops[i]) \notin Gets \cup {"put"}
  BY <1>2 DEF Gets
<1> QED
  BY <1>2, <1>5, <1>6, <1>8, <1>9, RestSafe

LEMMA DeleteOneSafe == ASSUME Typed, AllSafe, NEW i \in DOMAIN ops, DeleteOne(i) PROVE AllSafe'
<1>1. OpsTyped /\ Owned(stored)
  BY DEF Typed, ServerTyped
<1>2. PICK o : o = ops[i] /\ Sound(o) /\ Now(o) = "del" /\ o.kind = "delete"
  BY <1>1, OpFacts DEF DeleteOne
<1>3. /\ Go(i, Tailed(o), {o.from}) \/ Go(i, Dropped(o), {o.from})
      /\ stored' = stored \/ stored' = [stored EXCEPT ![o.from] = None]
  BY <1>2 DEF DeleteOne
<1>4. Besides({o.from})
  BY <1>1, <1>3 DEF Besides, Owned
<1>5. Safe(o, stored')
  BY <1>2, IdleSafe DEF Sound, Moving
<1>6. Now(ops[i]) \notin Gets \cup {"put"}
  BY <1>2 DEF Gets
<1> QED
  BY <1>2, <1>3, <1>4, <1>5, <1>6, RestSafe

LEMMA DeleteUnderSafe == ASSUME Typed, AllSafe, NEW i \in DOMAIN ops, DeleteUnder(i) PROVE AllSafe'
<1>1. OpsTyped /\ Owned(stored)
  BY DEF Typed, ServerTyped
<1>2. PICK o : o = ops[i] /\ Sound(o) /\ Now(o) = "delDir"
  BY <1>1, OpFacts DEF DeleteUnder
<1>3. o.kind = "deleteFolder"
  BY <1>2, Turns DEF Sound, Now
<1>4. PICK under : under = {p \in Path : PathUnderFolder(p, o.from)}
  OBVIOUS
<1>5. /\ Go(i, Tailed(o), under) \/ Go(i, Dropped(o), under)
      /\ stored' = stored \/ \E gone \in SUBSET under : stored' = Without(stored, gone)
  BY <1>2, <1>4 DEF DeleteUnder
<1>6. Besides(under)
  BY <1>1, <1>5 DEF Besides, Without
<1>7. Safe(o, stored')
  BY <1>2, <1>3, IdleSafe DEF Sound, Moving
<1>8. Now(ops[i]) \notin Gets \cup {"put"}
  BY <1>2 DEF Gets
<1> QED
  BY <1>2, <1>5, <1>6, <1>7, <1>8, RestSafe

LEMMA CheckMainSafe == ASSUME Typed, AllSafe, NEW i \in DOMAIN ops, CheckMain(i) PROVE AllSafe'
<1>1. OpsTyped
  BY DEF Typed
<1>2. PICK o : o = ops[i] /\ Sound(o) /\ Now(o) = "check" /\ o \in OpSet
  BY <1>1, OpFacts DEF CheckMain
<1>3. PICK out \in Answers, nf \in SUBSET Path, m \in Path, a \in Path \cup {None} :
        Answered(i, o, out, nf, m, a)
  BY <1>2, CheckMainAnswer
<1>5. PICK q : q = Checked(o, m, a)
  OBVIOUS
<1>6. stored' = stored /\ (Go(i, q, {}) \/ Go(i, Dropped(o), {}))
  BY <1>3, <1>5 DEF CheckMain, Answered
<1>7. Besides({})
  BY <1>6 DEF Besides
<1>8. Sound(q) /\ q.sent = 0 /\ q.kind = "deleteFolder"
  <2>1. Sound(o) /\ Now(o) = "check"
    BY <1>2
  <2> QED
    BY <1>5, <2>1, CheckedSound
<1>9. Safe(q, stored')
  BY <1>8, IdleSafe DEF Moving
<1> QED
  BY <1>2, <1>6, <1>7, <1>8, <1>9, DroppedDone, GoesSafe

LEMMA UnpackSafe == ASSUME Typed, AllSafe, NEW i \in DOMAIN ops, Unpack(i) PROVE AllSafe'
<1>1. OpsTyped /\ Owned(stored)
  BY DEF Typed, ServerTyped
<1>2. PICK o : o = ops[i] /\ Sound(o) /\ Now(o) = "unpack"
  BY <1>1, OpFacts DEF Unpack
<1>3. o.kind \in {"import", "restore"}
  BY <1>2, Turns DEF Sound, Now
<1>4. PICK st : st = [p \in Path |-> Written(o.texts, p)]
  OBVIOUS
<1>5. /\ Go(i, Dropped(o), Archive) \/ Go(i, Tailed(o), Archive)
      /\ stored' = stored \/ stored' = st
  BY <1>2, <1>4 DEF Unpack
<1>6. Besides(Archive)
  BY <1>1, <1>2, <1>3, <1>4, <1>5, UnpackStores DEF Besides
<1>7. Safe(o, stored')
  BY <1>2, <1>3, IdleSafe DEF Sound, Moving
<1>8. Now(ops[i]) \notin Gets \cup {"put"}
  BY <1>2 DEF Gets
<1> QED
  BY <1>2, <1>5, <1>6, <1>7, <1>8, RestSafe

LEMMA OperationStepSafe == ASSUME Typed, AllSafe, OperationStep PROVE AllSafe'
<1>1. PICK i \in DOMAIN ops :
        \/ PutFile(i) \/ GetFile(i) \/ DeleteOld(i) \/ DeleteOne(i) \/ DeleteUnder(i)
        \/ CheckMain(i) \/ PatchMain(i) \/ Unpack(i) \/ LoadMainAgain(i)
        \/ LoadFilesAgain(i) \/ RestoreEnds(i) \/ AcceptEnds(i)
  BY DEF OperationStep
<1>2. CASE PatchMain(i) \/ LoadMainAgain(i) \/ LoadFilesAgain(i) \/ RestoreEnds(i) \/ AcceptEnds(i)
  <2>1. Now(ops[i]) \in {"patch", "main", "list"}
    BY <1>2, OpFacts DEF PatchMain, LoadMainAgain, LoadFilesAgain, RestoreEnds, AcceptEnds, Typed
  <2>2. Now(ops[i]) \notin Gets \cup {"put"}
    BY <2>1 DEF Gets
  <2>3. stored' = stored
    BY <1>2 DEF PatchMain, LoadMainAgain, LoadFilesAgain, RestoreEnds, AcceptEnds
  <2>4. \/ Go(i, Tailed(ops[i]), {}) \/ Go(i, Dropped(ops[i]), {})
        \/ ops' = <<>>
    <3>1. CASE PatchMain(i)
      BY <3>1 DEF PatchMain
    <3>2. CASE LoadMainAgain(i)
      BY <3>2 DEF LoadMainAgain
    <3>3. CASE LoadFilesAgain(i)
      BY <3>3 DEF LoadFilesAgain
    <3>4. CASE RestoreEnds(i)
      BY <3>4 DEF RestoreEnds
    <3>5. CASE AcceptEnds(i)
      BY <3>5 DEF AcceptEnds
    <3> QED
      BY <1>2, <3>1, <3>2, <3>3, <3>4, <3>5
  <2>5. CASE ops' = <<>>
    BY <2>5 DEF AllSafe
  <2> QED
    BY <2>2, <2>3, <2>4, <2>5, ReadSafe
<1> QED
  BY <1>1, <1>2, PutFileSafe, GetFileSafe, DeleteOldSafe, DeleteOneSafe, DeleteUnderSafe,
     CheckMainSafe, UnpackSafe

LEMMA BeginSafe == ASSUME Typed, AllSafe, Begins PROVE AllSafe'
<1>1. PICK o : Starts(o) /\ Start(o)
  BY DEF Begins
<1>2. OpsTyped /\ Sound(o)
  BY <1>1 DEF Typed, Starts
<1>3. /\ DOMAIN ops' = 1..(Len(ops) + 1) /\ ops'[Len(ops) + 1] = o
      /\ DOMAIN ops = 1..Len(ops) /\ Len(ops) \in Nat
      /\ \A j \in DOMAIN ops : ops'[j] = ops[j]
  BY <1>1, <1>2, Started
<1>4. stored' = stored
  BY <1>1 DEF Start
<1>5. Safe(o, stored)
  BY <1>1 DEF Starts, Safe
<1>6. ASSUME NEW k \in DOMAIN ops' PROVE Safe(ops'[k], stored')
  <2>1. PICK c : c = ops'[k]
    OBVIOUS
  <2>2. k \in DOMAIN ops \/ k = Len(ops) + 1
    BY <1>3
  <2>3. Safe(c, stored)
    BY <1>3, <1>5, <2>1, <2>2 DEF AllSafe
  <2> QED
    BY <1>4, <2>1, <2>3
<1> QED
  BY <1>6 DEF AllSafe

LEMMA OthersSafe ==
  ASSUME Typed, AllSafe, Outside \/ \E i \in DOMAIN puts : PutLands(i) PROVE AllSafe'
<1>1. CASE \E ps \in SUBSET env.names : Propose(ps)
  <2>1. stored' = stored /\ ops' = ops
    BY <1>1 DEF Propose
  <2> QED
    BY <2>1 DEF AllSafe
<1>2. CASE \E p \in Path : OtherWrites(p)
  <2>1. PICK p \in Path : stored' = [stored EXCEPT ![p] = New(p)] /\ ops' = Touched(ops, 0, {p})
    BY <1>2 DEF OtherWrites
  <2>2. Besides({p})
    BY <2>1 DEF Besides, Typed, ServerTyped, Owned
  <2> QED
    BY <2>1, <2>2, TouchedSafe
<1>3. CASE \E i \in DOMAIN puts : PutLands(i)
  <2>1. PICK i, p : /\ p = puts[i].path /\ ops' = Touched(ops, 0, {p})
                    /\ \/ stored' = stored
                       \/ stored' = [stored EXCEPT ![p] = puts[i].text]
    BY <1>3 DEF PutLands
  <2>2. Besides({p})
    BY <2>1 DEF Besides, Typed, ServerTyped, Owned
  <2> QED
    BY <2>1, <2>2, TouchedSafe
<1> QED
  BY <1>1, <1>2, <1>3 DEF Outside

LEMMA NextSafe == ASSUME Typed, AllSafe, [Next]_vars PROVE AllSafe'
<1>1. CASE UNCHANGED <<stored, ops>>
  BY <1>1 DEF AllSafe
<1>2. CASE Reload
  <2>1. ops' = <<>>
    BY <1>2 DEF Reload
  <2> QED
    BY <2>1 DEF AllSafe
<1>3. UNCHANGED vars \/ LoadMain \/ LoadFiles \/ FetchProjectFile \/ Loaded \/ Autosave
      => UNCHANGED <<stored, ops>>
  BY DEF LoadMain, LoadFiles, FetchProjectFile, Loaded, Autosave
<1>4. Type \/ Save \/ RejectAgentProposals \/ (\E p \in files : OpenTab(p))
      => UNCHANGED <<stored, ops>>
  BY DEF Type, Save, RejectAgentProposals, OpenTab
<1>5. CASE Command
  BY <1>1, <1>4, <1>5, Commands, BeginSafe
<1>6. CASE Outside \/ \E i \in DOMAIN puts : PutLands(i)
  BY <1>6, OthersSafe
<1> QED
  BY <1>1, <1>2, <1>3, <1>5, <1>6, OperationStepSafe DEF Next

\* A rename, a move, an upload or an acceptance goes on only with what is stored,
\* and a renamed file is stored under one of its two names at any moment, as long
\* as nobody else writes the same paths.
THEOREM FilesKept == Spec => []OperationKeepsText
<1>1. Init => Typed /\ AllSafe
  BY InitTyped DEF Init, AllSafe
<1>2. Typed /\ AllSafe /\ [Next]_vars => Typed' /\ AllSafe'
  BY NextTyped, NextSafe
<1>3. AllSafe => OperationKeepsText
  BY DEF AllSafe, Safe, OperationKeepsText, Moving
<1> QED
  BY <1>1, <1>2, <1>3, PTL DEF Spec

-----------------------------------------------------------------------------
(* The main file.                                                          *)

Regular == excuse \cap {"fault", "overlap", "early", "deleted", "emptied"} = {}
At(st) == {p \in Path : st[p] # None}

\* The list has not been loaded since the operation removed files.
Stale(o) ==
    \/ o.kind \in Moving \cup {"delete"} /\ Now(o) \in {"patch", "list"}
    \/ o.kind = "deleteFolder" /\ Now(o) = "list"

\* An operation when st is stored, m is the main file and fs the list of the page:
\* the main file is stored, unless the operation has removed it and will name another.
Fits(o, st, m, fs) ==
    /\ ~ Stale(o) => fs \subseteq At(st)
    /\ \/ st[m] # None
       \/ o.kind = "deleteFolder" /\ Now(o) # "delDir"
       \/ o.kind \in Moving /\ o.from = m /\ Now(o) = "patch"
    /\ o.kind \in Moving =>
         /\ o.from = m => o.todo \in MovesMain
         /\ Now(o) \notin Gets \cup {"put"} => st[o.to] # None
    /\ Now(o) = "patch" /\ o.kind \notin Moving => st[o.to] # None
    /\ o.kind = "deleteFolder" => o.main = m

Named ==
    Regular =>
      /\ Len(ops) <= 1 /\ (ops # <<>> => mount = {}) /\ ("role" \in mount => "main" \in mount)
      /\ "main" \notin mount => mainPath = main
      /\ ops = <<>> => stored[main] # None /\ files \subseteq At(stored)
      /\ \A i \in DOMAIN ops : Fits(ops[i], stored, main, files)

\* A step that removes no file and stores no new one under None.
Grows == \A p \in Path : stored[p] # None => stored'[p] # None

LEMMA FitsGrows ==
  ASSUME NEW o, Sound(o), NEW m \in Path, NEW fs \in SUBSET Path, Fits(o, stored, m, fs), Grows
  PROVE  Fits(o, stored', m, fs) /\ Fits(Soiled(o), stored', m, fs)
<1>1. Now(o) = "patch" \/ o.kind \in Moving => o.to \in Path
  BY DEF Sound
<1>2. At(stored) \subseteq At(stored')
  BY DEF At, Grows
<1>3. Fits(o, stored', m, fs)
  BY <1>1, <1>2 DEF Fits, Grows
<1>4. PICK q : q = Soiled(o)
  OBVIOUS
<1>5. /\ q.todo = o.todo /\ q.kind = o.kind /\ q.from = o.from /\ q.to = o.to /\ q.main = o.main
      /\ Now(q) = Now(o)
  BY <1>4 DEF Soiled, Sound, OpSet, Now
<1>6. Stale(q) <=> Stale(o)
  BY <1>5 DEF Stale
<1>7. Fits(q, stored', m, fs)
  BY <1>3, <1>5, <1>6 DEF Fits
<1> QED
  BY <1>3, <1>4, <1>7

\* Whatever removes no file and leaves the list and the main file as they are.
LEMMA QuietNamed ==
  ASSUME Typed, Named, UNCHANGED <<main, mainPath, files, mount>>, excuse \subseteq excuse', Grows,
         ops' = ops \/ \E ps : ops' = Touched(ops, 0, ps)
  PROVE  Named'
<1> SUFFICES ASSUME Regular' PROVE Named!2'
  BY DEF Named
<1>1. Regular
  BY DEF Regular
<1>2. OpsTyped /\ main \in Path /\ files \in SUBSET Path /\ Len(ops) \in Nat /\ DOMAIN ops = 1..Len(ops)
  BY LenProperties DEF Typed, OpsTyped, ServerTyped, PageTyped
<1>3. At(stored) \subseteq At(stored')
  BY DEF At, Grows
<1>4. /\ DOMAIN ops' = DOMAIN ops /\ Len(ops') = Len(ops)
      /\ \A j \in DOMAIN ops : ops'[j] = ops[j] \/ ops'[j] = Soiled(ops[j])
  <2>1. CASE ops' = ops
    BY <2>1
  <2>2. CASE \E ps : ops' = Touched(ops, 0, ps)
    <3>1. PICK ps, os : os = Touched(ops, 0, ps) /\ ops' = os
      BY <2>2
    <3>2. 0 \in Nat /\ \A j \in DOMAIN ops : j # 0
      BY <1>2
    <3>3. /\ DOMAIN os = DOMAIN ops /\ Len(os) = Len(ops)
          /\ \A j \in DOMAIN ops : After(ops[j], os[j], ps)
      BY <1>2, <3>1, <3>2, TouchedOps
    <3> QED
      BY <3>1, <3>3 DEF After
  <2> QED
    BY <2>1, <2>2
<1>5. ASSUME NEW j \in DOMAIN ops' PROVE Fits(ops'[j], stored', main, files)
  <2>1. Sound(ops[j]) /\ Fits(ops[j], stored, main, files)
    BY <1>1, <1>2, <1>4 DEF OpsTyped, Named
  <2> QED
    BY <1>2, <1>4, <2>1, FitsGrows
<1>6. ops' = <<>> => ops = <<>>
  BY <1>2, <1>4, EmptySeq DEF OpsTyped
<1>7. ops' = <<>> => stored'[main] # None /\ files \subseteq At(stored')
  BY <1>1, <1>2, <1>3, <1>6 DEF Named, Grows
<1>8. ops' # <<>> => ops # <<>>
  BY <1>2, <1>4, EmptySeq DEF OpsTyped
<1> QED
  BY <1>1, <1>4, <1>5, <1>7, <1>8 DEF Named

LEMMA JudgedRegular ==
  ASSUME NEW out, NEW more, JudgeAlso(out, more), Regular'
  PROVE  /\ out = "ok" /\ Regular
         /\ more \cap {"fault", "overlap", "early", "deleted", "emptied"} = {}
BY DEF JudgeAlso, Regular

LEMMA Judgement ==
  ASSUME NEW out, NEW more, JudgeAlso(out, more)
  PROVE  excuse \subseteq excuse' /\ more \subseteq excuse'
BY DEF JudgeAlso

\* What a rendering makes of the list and the main path.
LEMMA Renders ==
  ASSUME NEW a, NEW ms
  PROVE  /\ ShowPath(a, ms) => files' = files /\ mainPath' = mainPath
         /\ \A fs : ShowList(fs, a, ms) => files' = fs /\ mainPath' = mainPath
         /\ Existing = At(stored) /\ \A mp : ShowProject(mp) => files' = files /\ mainPath' = mp
         /\ \A mp : ShowMain(mp, a, ms) => files' = files /\ mainPath' = mp
BY DEF ShowPath, ShowList, ShowMain, ShowProject, Page, Existing, At

\* The one operation goes on as q, or is done.
LEMMA GoesNamed ==
  ASSUME Typed, Named, NEW i \in DOMAIN ops, NEW q, NEW ps, Go(i, q, ps), excuse \subseteq excuse',
         mount' = mount, Regular' => mainPath' = main',
         Regular' /\ q.todo # <<>> => Sound(q) /\ Fits(q, stored', main', files'),
         q.todo # <<>> => Sound(q),
         Regular' /\ q.todo = <<>> => stored'[main'] # None /\ files' \subseteq At(stored')
  PROVE  Named'
<1> SUFFICES ASSUME Regular' PROVE Named!2'
  BY DEF Named
<1>1. Regular /\ Len(ops) <= 1
  BY DEF Regular, Named
<1>2. OpsTyped
  BY DEF Typed
<1>3. ops # <<>>
  OBVIOUS
<1>4. mount' = {}
  BY <1>1, <1>3 DEF Named
<1>5. CASE q.todo = <<>>
  <2>1. ops' = <<>>
    BY <1>1, <1>2, <1>5, Goes
  <2> QED
    BY <1>4, <1>5, <2>1
<1>6. CASE q.todo # <<>>
  <2>1. Len(ops') = 1 /\ ops'[1] = q /\ OpsTyped'
    BY <1>1, <1>2, <1>6, Goes
  <2>2. DOMAIN ops' = {1}
    <3>1. DOMAIN ops' = 1..Len(ops')
      BY <2>1, LenProperties DEF OpsTyped
    <3> QED
      BY <2>1, <3>1
  <2>3. ops' # <<>>
    BY <2>1
  <2>4. Fits(q, stored', main', files')
    BY <1>6
  <2>5. \A k \in DOMAIN ops' : Fits(ops'[k], stored', main', files')
    BY <2>1, <2>2, <2>4
  <2> QED
    BY <1>4, <2>1, <2>3, <2>5
<1> QED
  BY <1>5, <1>6

\* What holds while an operation runs.
LEMMA RunningNamed ==
  ASSUME Typed, Named, Regular, NEW i \in DOMAIN ops
  PROVE  /\ Sound(ops[i]) /\ Fits(ops[i], stored, main, files) /\ mainPath = main
         /\ mount = {} /\ main \in Path /\ files \subseteq Path /\ Owned(stored)
<1>1. ops # <<>>
  OBVIOUS
<1> QED
  BY <1>1 DEF Named, Typed, OpsTyped, ServerTyped, PageTyped

LEMMA LoadsNamed ==
  ASSUME Typed, Named, LoadMain \/ LoadFiles
  PROVE  Named'
<1> SUFFICES ASSUME Regular' PROVE Named!2'
  BY DEF Named
<1>1. CASE LoadMain
  <2>1. PICK out : /\ JudgeAlso(out, {})
                   /\ out = "ok" => ShowProject(main) /\ mount' = mount \ {"main", "role"}
    BY <1>1 DEF LoadMain, Judge
  <2>2. /\ Regular /\ files' = files /\ mainPath' = main
        /\ mount' = mount \ {"main", "role"}
    BY <2>1, JudgedRegular, Renders
  <2>3. UNCHANGED <<stored, main, ops>> /\ mount # {}
    BY <1>1 DEF LoadMain
  <2> QED
    BY <2>2, <2>3 DEF Named
<1>2. CASE LoadFiles
  <2>1. PICK out : /\ JudgeAlso(out, {})
                   /\ out = "ok" => ShowList(Existing, active, models)
    BY <1>2, Listing DEF LoadFiles, Judge
  <2>2. Regular /\ files' = At(stored) /\ mainPath' = mainPath
    BY <2>1, JudgedRegular, Renders
  <2>3. UNCHANGED <<stored, main, ops>> /\ mount # {} /\ mount' = mount \ {"files"}
    BY <1>2 DEF LoadFiles
  <2> QED
    BY <2>2, <2>3 DEF Named
<1> QED
  BY <1>1, <1>2

LEMMA BeginNamed == ASSUME Typed, Named, Begins PROVE Named'
<1> SUFFICES ASSUME Regular' PROVE Named!2'
  BY DEF Named
<1>1. PICK o : Starts(o) /\ Start(o)
  BY DEF Begins
<1>2. UNCHANGED <<server, page>>
  BY <1>1 DEF Start
<1>3. Regular /\ ops = <<>> /\ mount = {}
  <2>1. Regular /\ ops = <<>> /\ mount \subseteq {"role"}
    BY <1>1 DEF Start, Regular
  <2> QED
    BY <2>1 DEF Named
<1>4. stored[main] # None /\ files \subseteq At(stored) /\ mainPath = main
  BY <1>3 DEF Named
<1>5. OpsTyped /\ Sound(o)
  BY <1>1 DEF Typed, Starts
<1>6. Len(ops') = 1 /\ ops'[1] = o /\ DOMAIN ops' = {1}
  <2>1. Len(ops) = 0
    BY <1>3
  <2> QED
    BY <1>1, <1>5, <2>1, Started
<1>7. Fits(o, stored, main, files)
  <2>1. ~ Stale(o)
    <3>1. o.kind \in Moving => Now(o) \notin {"patch", "list"}
      BY <1>1 DEF Starts, Gets
    <3> QED
      BY <1>1, <3>1 DEF Starts, Stale
  <2>2. Now(o) = "patch" => o.to \in At(stored)
    BY <1>1, <1>4 DEF Starts
  <2> QED
    BY <1>1, <1>4, <2>1, <2>2 DEF Fits, Starts, At
<1> QED
  BY <1>2, <1>3, <1>4, <1>6, <1>7

LEMMA MainTail ==
  ASSUME NEW t \in MovesMain
  PROVE  /\ Head(t) # "patch" => Tail(t) \in MovesMain
         /\ Head(t) = "del" => Head(Tail(t)) = "patch"
BY Splits DEF MovesMain, Split, Gets

\* What an operation has become when its request is answered as it should be.
LEMMA TailedFits ==
  ASSUME NEW o, Sound(o), NEW st, NEW m, NEW fs, NEW q, q = Tailed(o),
         o.kind \notin Moving,
         ~ Stale(q) => fs \subseteq At(st),
         st[m] # None \/ (o.kind = "deleteFolder" /\ Now(q) # "delDir"),
         Now(q) # "patch", o.kind = "deleteFolder" => o.main = m
  PROVE  Fits(q, st, m, fs)
<1>1. q.todo = Tail(o.todo) /\ q.kind = o.kind /\ q.main = o.main
  BY TailedFields DEF Sound
<1> QED
  BY <1>1 DEF Fits

LEMMA PutFileNamed == ASSUME Typed, Named, NEW i \in DOMAIN ops, PutFile(i) PROVE Named'
<1> SUFFICES ASSUME Regular' PROVE Named'
  BY DEF Named
<1>1. PICK o : o = ops[i] /\ Sound(o) /\ Now(o) = "put" /\ o \in OpSet
  BY OpFacts DEF PutFile, Typed
<1>2. PICK q, r : q = [o EXCEPT !.sent = @ + 1] /\ r = IF q.sent = Len(o.texts) THEN Tailed(q) ELSE q
  OBVIOUS
<1>3. /\ r.todo # <<>> /\ Sound(r) /\ o.sent + 1 \in DOMAIN o.texts /\ o.texts[o.sent + 1] \in Sends
      /\ r.kind = o.kind /\ r.from = o.from /\ r.to = o.to /\ r.main = o.main
      /\ r.todo = IF q.sent = Len(o.texts) THEN Tail(o.todo) ELSE o.todo
      /\ o.kind \in Making \cup Moving /\ (o.kind \in Moving => q.sent = Len(o.texts))
  BY <1>1, <1>2, SentSound
<1>4. PICK f : f = o.texts[o.sent + 1] /\ f \in Sends /\ f.path \in Path /\ f.text \in Own(f.path)
  BY <1>3 DEF Sends
<1>5. PICK out, more, written : /\ JudgeAlso(out, more)
                    /\ written = (out # "refused" /\ f.path \in Allowed)
                    /\ stored' = (IF written THEN [stored EXCEPT ![f.path] = f.text] ELSE stored)
                    /\ Go(i, IF out # "ok" \/ ~ written THEN Dropped(o) ELSE r,
                          IF written THEN {f.path} ELSE {})
  BY <1>1, <1>2, <1>4 DEF PutFile
<1>6. out = "ok" /\ Regular /\ excuse \subseteq excuse'
  BY <1>5, JudgedRegular, Judgement
<1>7. UNCHANGED <<main, mount, files, mainPath>>
  BY DEF PutFile
<1>8. Fits(o, stored, main, files) /\ mainPath = main /\ main \in Path /\ Owned(stored)
  BY <1>1, <1>6, RunningNamed
<1>9. stored[main] # None /\ files \subseteq At(stored)
  BY <1>1, <1>3, <1>8 DEF Fits, Stale, Making, Moving
<1>10. CASE f.path \notin Allowed
  <2>1. Go(i, Dropped(o), {}) /\ stored' = stored
    BY <1>5, <1>6, <1>10
  <2>2. Dropped(o).todo = <<>>
    BY <1>1, DroppedDone
  <2> QED
    BY <1>6, <1>7, <1>8, <1>9, <2>1, <2>2, GoesNamed
<1>11. CASE f.path \in Allowed
  <2>1. Go(i, r, {f.path}) /\ stored' = [stored EXCEPT ![f.path] = f.text]
    BY <1>5, <1>6, <1>11
  <2>2. f.text # None
    BY <1>4, OwnTexts, PathAssumption
  <2>3. stored'[main] # None /\ files \subseteq At(stored') /\ stored'[f.path] # None
    BY <1>4, <1>8, <1>9, <2>1, <2>2 DEF Owned, At
  <2>4. o.kind \in Moving => /\ o.to = f.path /\ Now(r) = "del"
                             /\ (o.todo \in MovesMain => r.todo \in MovesMain)
    <3> SUFFICES ASSUME o.kind \in Moving
                 PROVE  o.to = f.path /\ Now(r) = "del" /\ (o.todo \in MovesMain => r.todo \in MovesMain)
      OBVIOUS
    <3>1. o.sent = 0 /\ o.texts[1].path = o.to
      BY <1>1 DEF Sound, Gets
    <3>2. r.todo = Tail(o.todo) /\ Head(o.todo) = "put" /\ Left(o.kind, o.todo)
      BY <1>1, <1>3 DEF Now, Sound
    <3>3. Now(r) = "del"
      BY <3>2, Turns DEF Now
    <3> QED
      BY <1>4, <3>1, <3>2, <3>3, MainTail
  <2>5. o.kind \notin Moving => Now(r) \in {"put", "list"}
    BY <1>1, <1>3, Turns DEF Now, Sound
  <2>6. Fits(r, stored', main, files)
    <3>1. r.kind # "deleteFolder" /\ r.kind # "delete"
      BY <1>3 DEF Making, Moving
    <3>2. CASE o.kind \in Moving
      BY <1>3, <1>8, <2>3, <2>4, <3>1, <3>2 DEF Fits
    <3>3. CASE o.kind \notin Moving
      BY <1>3, <2>3, <2>5, <3>1, <3>3 DEF Fits
    <3> QED
      BY <3>2, <3>3
  <2>7. Sound(r) /\ Fits(r, stored', main', files')
    BY <1>3, <1>7, <2>6
  <2>8. mainPath' = main'
    BY <1>7, <1>8
  <2> QED
    BY <1>3, <1>6, <1>7, <2>1, <2>7, <2>8, GoesNamed
<1> QED
  BY <1>10, <1>11

LEMMA GetFileNamed == ASSUME Typed, Named, NEW i \in DOMAIN ops, GetFile(i) PROVE Named'
<1> SUFFICES ASSUME Regular' PROVE Named'
  BY DEF Named
<1>1. PICK o : o = ops[i] /\ Sound(o) /\ Now(o) \in Gets /\ o \in OpSet
  BY OpFacts DEF GetFile, Gets, Typed
<1>2. /\ o.kind \in Moving /\ o.from \in Path /\ o.to \in Path /\ Left(o.kind, o.todo)
      /\ Head(Tail(o.todo)) = "put"
  <2>1. o.kind \in Moving /\ Head(Tail(o.todo)) = "put"
    BY <1>1, Turns DEF Sound, Now
  <2> QED
    BY <1>1, <2>1 DEF Sound
<1>3. UNCHANGED <<stored, main, mount, files, mainPath>>
  BY DEF GetFile
<1>4. PICK raw, t : /\ raw = stored[o.from]
                    /\ t = IF raw = None THEN None
                           ELSE IF o.from \in Binary /\ Turn(i, "getText") THEN Garbled ELSE Taken(raw, o.to)
  OBVIOUS
<1>5. PICK out : /\ JudgeAlso(out, {})
                 /\ Go(i, IF out = "ok" /\ raw # None
                          THEN [Tailed(o) EXCEPT !.texts = <<Put(o.to, t)>>] ELSE Dropped(o), {})
  BY <1>1, <1>4 DEF GetFile, Judge
<1>6. out = "ok" /\ Regular /\ excuse \subseteq excuse'
  BY <1>5, JudgedRegular, Judgement
<1>7. Fits(o, stored, main, files) /\ mainPath = main /\ main \in Path /\ Owned(stored)
  BY <1>1, <1>6, RunningNamed
<1>8. stored[main] # None /\ files \subseteq At(stored)
  BY <1>1, <1>2, <1>7 DEF Fits, Stale, Moving, Gets
<1>9. CASE raw = None
  <2>1. Go(i, Dropped(o), {})
    BY <1>5, <1>9
  <2>2. Dropped(o).todo = <<>>
    BY <1>1, DroppedDone
  <2> QED
    BY <1>3, <1>6, <1>7, <1>8, <2>1, <2>2, GoesNamed
<1>10. CASE raw # None
  <2>1. t \in Own(o.to)
    <3>1. raw \in Own(o.from)
      BY <1>2, <1>4, <1>7, <1>10 DEF Owned
    <3> QED
      BY <1>2, <1>4, <1>10, <3>1, OwnTexts, TakenOwned
  <2>2. PICK q : q = [Tailed(o) EXCEPT !.texts = <<Put(o.to, t)>>]
    OBVIOUS
  <2>3. q.todo # <<>> /\ Sound(q) /\ q.kind = o.kind /\ q.from = o.from /\ q.to = o.to /\ q.todo = Tail(o.todo)
    BY <1>1, <2>1, <2>2, GotSound
  <2>4. Go(i, q, {})
    BY <1>5, <1>6, <1>10, <2>2
  <2>5. Now(q) = "put" /\ (o.todo \in MovesMain => q.todo \in MovesMain)
    BY <1>1, <1>2, <2>3, MainTail DEF Now, Gets
  <2>6. Fits(q, stored, main, files)
    BY <1>2, <1>7, <1>8, <2>3, <2>5 DEF Fits, Moving
  <2>7. Fits(q, stored', main', files') /\ mainPath' = main'
    BY <1>3, <1>7, <2>6
  <2> QED
    BY <1>3, <1>6, <2>3, <2>4, <2>7, GoesNamed
<1> QED
  BY <1>9, <1>10

LEMMA DeleteOldNamed == ASSUME Typed, Named, NEW i \in DOMAIN ops, DeleteOld(i) PROVE Named'
<1> SUFFICES ASSUME Regular' PROVE Named'
  BY DEF Named
<1>1. PICK o : o = ops[i] /\ Sound(o) /\ Now(o) = "del" /\ o.kind # "delete" /\ o \in OpSet
  BY OpFacts DEF DeleteOld, Typed
<1>2. o.kind \in Moving /\ Tail(o.todo) # <<>> /\ Head(Tail(o.todo)) \in {"patch", "list"} /\ Head(o.todo) = "del"
  BY <1>1, Turns DEF Sound, Now
<1>3. o.from \in Path /\ o.to \in Path /\ o.from # o.to
  BY <1>1, <1>2 DEF Sound
<1>4. PICK out, a, ms :
         /\ JudgeAlso(out, {})
         /\ stored' = IF out = "refused" THEN stored ELSE [stored EXCEPT ![o.from] = None]
         /\ Go(i, IF out = "ok" THEN Tailed(o) ELSE Dropped(o), {o.from})
         /\ out = "ok" => ShowPath(a, ms)
  BY <1>1 DEF DeleteOld, Judge
<1>5. out = "ok" /\ Regular /\ excuse \subseteq excuse'
  BY <1>4, JudgedRegular, Judgement
<1>6. UNCHANGED <<main, mount, files, mainPath>>
  <2>1. ShowPath(a, ms) /\ UNCHANGED <<main, mount>>
    BY <1>4, <1>5 DEF DeleteOld
  <2> QED
    BY <2>1, Renders
<1>7. Fits(o, stored, main, files) /\ mainPath = main /\ main \in Path /\ Owned(stored)
  BY <1>1, <1>5, RunningNamed
<1>8. PICK q : q = Tailed(o)
  OBVIOUS
<1>9. /\ Go(i, q, {o.from}) /\ q.todo = Tail(o.todo) /\ q.todo # <<>> /\ q.kind = o.kind
      /\ q.from = o.from /\ q.to = o.to /\ q.main = o.main
  BY <1>1, <1>2, <1>4, <1>5, <1>8, TailedFields
<1>10. Sound(q)
  BY <1>1, <1>2, <1>8, TailedSound DEF Gets
<1>11. stored'[o.to] # None /\ (main # o.from => stored'[main] # None)
  <2>1. stored[o.to] # None /\ (main # o.from => stored[main] # None)
    BY <1>1, <1>2, <1>7 DEF Fits, Gets, Moving
  <2>2. stored' = [stored EXCEPT ![o.from] = None]
    BY <1>4, <1>5
  <2> QED
    BY <1>3, <1>7, <2>1, <2>2 DEF Owned
<1>12. Stale(q) /\ Now(q) \in {"patch", "list"} /\ q.kind # "deleteFolder"
  BY <1>2, <1>9 DEF Stale, Now, Moving
<1>13. q.from = main => q.todo \in MovesMain /\ Now(q) = "patch"
  <2>1. q.from = main => o.todo \in MovesMain
    BY <1>2, <1>7, <1>9 DEF Fits
  <2> QED
    BY <1>2, <1>9, <2>1, MainTail DEF Now
<1>14. Fits(q, stored', main, files)
  BY <1>2, <1>9, <1>11, <1>12, <1>13 DEF Fits
<1>15. Fits(q, stored', main', files') /\ mainPath' = main'
  BY <1>6, <1>7, <1>14
<1> QED
  BY <1>5, <1>6, <1>9, <1>10, <1>15, GoesNamed

LEMMA DeleteOneNamed == ASSUME Typed, Named, NEW i \in DOMAIN ops, DeleteOne(i) PROVE Named'
<1> SUFFICES ASSUME Regular' PROVE Named'
  BY DEF Named
<1>1. PICK o : o = ops[i] /\ Sound(o) /\ Now(o) = "del" /\ o.kind = "delete" /\ o \in OpSet
  BY OpFacts DEF DeleteOne, Typed
<1>2. Tail(o.todo) # <<>> /\ Head(Tail(o.todo)) = "list" /\ o.from \in Path
  BY <1>1, Turns DEF Sound, Now, Moving
<1>3. PICK out, a, ms, more :
         /\ JudgeAlso(out, more) /\ more = IF o.from = main THEN {"deleted"} ELSE {}
         /\ out = "ok" => /\ stored' = [stored EXCEPT ![o.from] = None]
                          /\ Go(i, Tailed(o), {o.from}) /\ ShowPath(a, ms)
  BY <1>1 DEF DeleteOne
<1>4. out = "ok" /\ Regular /\ excuse \subseteq excuse' /\ o.from # main
  <2>1. out = "ok" /\ Regular /\ more \cap {"fault", "overlap", "early", "deleted", "emptied"} = {}
    BY <1>3, JudgedRegular
  <2> QED
    BY <1>3, <2>1, Judgement
<1>5. UNCHANGED <<main, mount, files, mainPath>>
  <2>1. ShowPath(a, ms) /\ UNCHANGED <<main, mount>>
    BY <1>3, <1>4 DEF DeleteOne
  <2> QED
    BY <2>1, Renders
<1>6. Fits(o, stored, main, files) /\ mainPath = main /\ main \in Path /\ Owned(stored)
  BY <1>1, <1>4, RunningNamed
<1>7. PICK q : q = Tailed(o)
  OBVIOUS
<1>8. Go(i, q, {o.from}) /\ q.todo = Tail(o.todo) /\ q.todo # <<>> /\ q.kind = o.kind /\ q.main = o.main
  BY <1>1, <1>2, <1>3, <1>4, <1>7, TailedFields
<1>9. Sound(q)
  BY <1>1, <1>2, <1>7, TailedSound DEF Gets
<1>10. stored'[main] # None
  <2>1. stored[main] # None
    BY <1>1, <1>6 DEF Fits, Moving
  <2> QED
    BY <1>3, <1>4, <1>6, <2>1 DEF Owned
<1>11. Stale(q) /\ Now(q) = "list"
  BY <1>1, <1>2, <1>8 DEF Stale, Now
<1>12. Fits(q, stored', main, files)
  BY <1>1, <1>7, <1>10, <1>11, TailedFits DEF Moving
<1>13. Fits(q, stored', main', files') /\ mainPath' = main'
  BY <1>5, <1>6, <1>12
<1> QED
  BY <1>4, <1>5, <1>8, <1>9, <1>13, GoesNamed

LEMMA DeleteUnderNamed == ASSUME Typed, Named, NEW i \in DOMAIN ops, DeleteUnder(i) PROVE Named'
<1> SUFFICES ASSUME Regular' PROVE Named'
  BY DEF Named
<1>1. PICK o : o = ops[i] /\ Sound(o) /\ Now(o) = "delDir" /\ o \in OpSet
  BY OpFacts DEF DeleteUnder, Typed
<1>2. o.kind = "deleteFolder" /\ Tail(o.todo) # <<>> /\ Head(Tail(o.todo)) = "list"
  BY <1>1, Turns DEF Sound, Now
<1>3. PICK out, ms, under :
         /\ JudgeAlso(out, {})
         /\ out = "ok" => Go(i, Tailed(o), under) /\ ShowPath(active, ms)
  BY <1>1 DEF DeleteUnder, Judge
<1>4. out = "ok" /\ Regular /\ excuse \subseteq excuse'
  BY <1>3, JudgedRegular, Judgement
<1>5. UNCHANGED <<main, mount, files, mainPath>>
  <2>1. ShowPath(active, ms) /\ UNCHANGED <<main, mount>>
    BY <1>3, <1>4 DEF DeleteUnder
  <2> QED
    BY <2>1, Renders
<1>6. Fits(o, stored, main, files) /\ mainPath = main
  BY <1>1, <1>4, RunningNamed
<1>7. PICK q : q = Tailed(o)
  OBVIOUS
<1>8. Go(i, q, under) /\ q.todo = Tail(o.todo) /\ q.todo # <<>> /\ q.kind = o.kind /\ q.main = o.main
  BY <1>1, <1>2, <1>3, <1>4, <1>7, TailedFields
<1>9. Sound(q)
  BY <1>1, <1>2, <1>7, TailedSound DEF Gets
<1>10. Stale(q) /\ Now(q) = "list"
  BY <1>2, <1>8 DEF Stale, Now
<1>11. o.main = main
  BY <1>2, <1>6 DEF Fits
<1>12. Fits(q, stored', main, files)
  BY <1>1, <1>2, <1>7, <1>10, <1>11, TailedFits DEF Moving
<1>13. Fits(q, stored', main', files') /\ mainPath' = main'
  BY <1>5, <1>6, <1>12
<1> QED
  BY <1>4, <1>5, <1>8, <1>9, <1>13, GoesNamed

LEMMA CheckMainNamed == ASSUME Typed, Named, NEW i \in DOMAIN ops, CheckMain(i) PROVE Named'
<1> SUFFICES ASSUME Regular' PROVE Named'
  BY DEF Named
<1>1. Existing \in SUBSET Path /\ Existing = At(stored)
  BY DEF Existing, At
<1>2. PICK o : o = ops[i] /\ Sound(o) /\ Now(o) = "check" /\ o \in OpSet
  BY OpFacts DEF CheckMain, Typed
<1>3. PICK out \in Answers, nf \in SUBSET Path, m \in Path, a \in Path \cup {None} :
        Answered(i, o, out, nf, m, a)
  BY <1>2, CheckMainAnswer
<1>5. PICK q : q = Checked(o, m, a)
  OBVIOUS
<1>4. out = "ok" /\ nf = Existing
  BY <1>3, JudgedRegular DEF Answered
<1>6. PICK more :
         /\ JudgeAlso(out, more) /\ more = IF m \in Existing THEN {} ELSE {"emptied"}
         /\ Go(i, IF o.main \notin Existing THEN q ELSE Dropped(o), {})
         /\ ShowPath(a, models) \/ UNCHANGED <<files, mainPath>>
  BY <1>3, <1>4, <1>5 DEF Answered
<1>7. out = "ok" /\ Regular /\ excuse \subseteq excuse' /\ m \in Existing
  <2>1. out = "ok" /\ Regular /\ more \cap {"fault", "overlap", "early", "deleted", "emptied"} = {}
    BY <1>6, JudgedRegular
  <2> QED
    BY <1>6, <2>1, Judgement
<1>8. UNCHANGED <<stored, main, mount, files, mainPath>>
  <2>1. UNCHANGED <<stored, main, mount>>
    BY DEF CheckMain
  <2> QED
    BY <1>6, <2>1, Renders
<1>9. Fits(o, stored, main, files) /\ mainPath = main
  BY <1>2, <1>7, RunningNamed
<1>10. o.kind = "deleteFolder" /\ o.main = main
  <2>1. Left(o.kind, o.todo) /\ Head(o.todo) = "check"
    BY <1>2 DEF Sound, Now
  <2>2. o.kind = "deleteFolder"
    BY <2>1, Turns
  <2> QED
    BY <1>9, <2>2 DEF Fits
<1>11. files \subseteq At(stored)
  BY <1>2, <1>9, <1>10 DEF Fits, Stale, Moving
<1>12. CASE o.main \in Existing
  <2>1. Go(i, Dropped(o), {}) /\ Dropped(o).todo = <<>>
    BY <1>2, <1>6, <1>12, DroppedDone
  <2>2. stored[main] # None
    BY <1>10, <1>12 DEF Existing
  <2> QED
    BY <1>7, <1>8, <1>9, <1>11, <2>1, <2>2, GoesNamed
<1>13. CASE o.main \notin Existing
  <2>1. Go(i, q, {})
    BY <1>6, <1>7, <1>13
  <2>2. /\ q.todo # <<>> /\ Sound(q) /\ q.kind = "deleteFolder" /\ q.to = m
        /\ q.todo = <<"patch">> /\ q.main = o.main
    <3>1. Sound(o) /\ Now(o) = "check"
      BY <1>2
    <3> QED
      BY <1>5, <3>1, CheckedSound
  <2>3. Now(q) = "patch" /\ stored[q.to] # None
    BY <1>7, <2>2, Splits DEF Now, Split, Existing
  <2>4. Fits(q, stored, main, files)
    BY <1>10, <1>11, <2>2, <2>3 DEF Fits, Moving
  <2>5. Fits(q, stored', main', files') /\ mainPath' = main'
    BY <1>8, <1>9, <2>4
  <2> QED
    BY <1>7, <1>8, <2>1, <2>2, <2>5, GoesNamed
<1> QED
  BY <1>12, <1>13

LEMMA PatchMainNamed == ASSUME Typed, Named, NEW i \in DOMAIN ops, PatchMain(i) PROVE Named'
<1> SUFFICES ASSUME Regular' PROVE Named'
  BY DEF Named
<1>1. PICK o : o = ops[i] /\ Sound(o) /\ Now(o) = "patch" /\ o \in OpSet /\ o.to \in Path
  BY OpFacts DEF PatchMain, Sound, Typed
<1>2. \/ o.kind \in {"deleteFolder", "setMain"} /\ Tail(o.todo) = <<>>
      \/ o.kind \in Moving /\ Tail(o.todo) # <<>> /\ Head(Tail(o.todo)) = "list"
  BY <1>1, Turns DEF Sound, Now
<1>3. PICK out, a :
         /\ JudgeAlso(out, {}) /\ main' = IF out = "refused" THEN main ELSE o.to
         /\ Go(i, IF out = "ok" THEN Tailed(o) ELSE Dropped(o), {})
         /\ out = "ok" => ShowMain(o.to, a, models)
  BY <1>1 DEF PatchMain, Judge
<1>4. out = "ok" /\ Regular /\ excuse \subseteq excuse'
  BY <1>3, JudgedRegular, Judgement
<1>5. UNCHANGED <<stored, mount, files>> /\ main' = o.to /\ mainPath' = o.to
  <2>1. ShowMain(o.to, a, models) /\ UNCHANGED <<stored, mount>> /\ main' = o.to
    BY <1>3, <1>4 DEF PatchMain
  <2> QED
    BY <2>1, Renders
<1>6. Fits(o, stored, main, files) /\ Owned(stored)
  BY <1>1, <1>4, RunningNamed
<1>7. stored[o.to] # None
  BY <1>1, <1>6 DEF Fits, Gets
<1>8. PICK q : q = Tailed(o)
  OBVIOUS
<1>9. Go(i, q, {}) /\ q.todo = Tail(o.todo) /\ q.kind = o.kind /\ q.from = o.from /\ q.to = o.to
  BY <1>1, <1>3, <1>4, <1>8, TailedFields
<1>10. q.todo # <<>> => Sound(q)
  BY <1>1, <1>8, <1>9, TailedSound DEF Gets
<1>11. CASE o.kind \in {"deleteFolder", "setMain"} /\ Tail(o.todo) = <<>>
  <2>1. files \subseteq At(stored)
    BY <1>1, <1>6, <1>11 DEF Fits, Stale, Moving
  <2> QED
    BY <1>4, <1>5, <1>7, <1>9, <1>11, <2>1, GoesNamed
<1>12. CASE o.kind \in Moving /\ Tail(o.todo) # <<>> /\ Head(Tail(o.todo)) = "list"
  <2>1. q.from # o.to /\ Stale(q) /\ Now(q) = "list" /\ q.kind # "deleteFolder"
    BY <1>1, <1>9, <1>12 DEF Stale, Sound, Now, Moving
  <2>2. Fits(q, stored, o.to, files)
    BY <1>7, <1>9, <1>12, <2>1 DEF Fits
  <2>3. Fits(q, stored', main', files') /\ mainPath' = main'
    BY <1>5, <2>2
  <2> QED
    BY <1>4, <1>5, <1>9, <1>10, <1>12, <2>3, GoesNamed
<1> QED
  BY <1>2, <1>11, <1>12

LEMMA UnpackNamed == ASSUME Typed, Named, NEW i \in DOMAIN ops, Unpack(i) PROVE Named'
<1> SUFFICES ASSUME Regular' PROVE Named'
  BY DEF Named
<1>1. PICK o : o = ops[i] /\ Sound(o) /\ Now(o) = "unpack" /\ o \in OpSet
  BY OpFacts DEF Unpack, Typed
<1>2. o.kind \in {"import", "restore"} /\ Tail(o.todo) # <<>> /\ Head(Tail(o.todo)) \in {"main", "list"}
  BY <1>1, Turns DEF Sound, Now
<1>3. PICK out, more :
         /\ JudgeAlso(out, more)
         /\ out = "ok" => /\ stored' = [p \in Path |-> Written(o.texts, p)]
                          /\ Go(i, Tailed(o), Archive)
  BY <1>1 DEF Unpack
<1>4. out = "ok" /\ Regular /\ excuse \subseteq excuse'
  BY <1>3, JudgedRegular, Judgement
<1>5. UNCHANGED <<main, mount, files, mainPath>>
  BY DEF Unpack
<1>6. Fits(o, stored, main, files) /\ mainPath = main /\ main \in Path /\ files \subseteq Path
  BY <1>1, <1>4, RunningNamed
<1>7. Grows
  <2>1. o.texts \in Seq(Sends)
    BY <1>1 DEF OpSet
  <2>2. ASSUME NEW p \in Path, stored[p] # None PROVE stored'[p] # None
    <3>1. stored'[p] = Written(o.texts, p)
      BY <1>3, <1>4
    <3>2. CASE \E j \in DOMAIN o.texts : o.texts[j].path = p
      BY <2>1, <3>1, <3>2, WrittenOwned, OwnTexts, PathAssumption
    <3>3. CASE \A j \in DOMAIN o.texts : o.texts[j].path # p
      BY <2>1, <2>2, <3>1, <3>3, WrittenOwned
    <3> QED
      BY <3>2, <3>3
  <2> QED
    BY <2>2 DEF Grows
<1>8. stored'[main] # None /\ files \subseteq At(stored')
  BY <1>1, <1>2, <1>6, <1>7 DEF Fits, Stale, Grows, At, Moving
<1>9. PICK q : q = Tailed(o)
  OBVIOUS
<1>10. Go(i, q, Archive) /\ q.todo = Tail(o.todo) /\ q.todo # <<>>
  BY <1>1, <1>2, <1>3, <1>4, <1>9, TailedFields
<1>11. Sound(q)
  BY <1>1, <1>2, <1>9, TailedSound DEF Gets
<1>12. Fits(q, stored', main, files)
  BY <1>1, <1>2, <1>8, <1>9, <1>10, TailedFits DEF Moving, Now
<1>13. Fits(q, stored', main', files') /\ mainPath' = main'
  BY <1>5, <1>6, <1>12
<1> QED
  BY <1>4, <1>5, <1>10, <1>11, <1>13, GoesNamed

LEMMA LoadMainAgainNamed ==
  ASSUME Typed, Named, NEW i \in DOMAIN ops, LoadMainAgain(i) PROVE Named'
<1> SUFFICES ASSUME Regular' PROVE Named'
  BY DEF Named
<1>1. PICK o : o = ops[i] /\ Sound(o) /\ Now(o) = "main" /\ o \in OpSet
  BY OpFacts DEF LoadMainAgain, Typed
<1>2. o.kind = "import" /\ Tail(o.todo) # <<>> /\ Head(Tail(o.todo)) = "list"
  BY <1>1, Turns DEF Sound, Now
<1>3. PICK out :
         /\ JudgeAlso(out, {})
         /\ Go(i, IF out = "ok" THEN Tailed(o) ELSE Dropped(o), {})
         /\ out = "ok" => ShowProject(main)
  BY <1>1 DEF LoadMainAgain, Judge
<1>4. out = "ok" /\ Regular /\ excuse \subseteq excuse'
  BY <1>3, JudgedRegular, Judgement
<1>5. UNCHANGED <<stored, main, mount, files>> /\ mainPath' = main
  <2>1. ShowProject(main) /\ UNCHANGED <<stored, main>> /\ mount' \subseteq mount
    BY <1>3, <1>4 DEF LoadMainAgain
  <2>2. mount = {}
    BY <1>4, RunningNamed
  <2> QED
    BY <2>1, <2>2, Renders
<1>6. Fits(o, stored, main, files)
  BY <1>1, <1>4, RunningNamed
<1>7. PICK q : q = Tailed(o)
  OBVIOUS
<1>8. Go(i, q, {}) /\ q.todo = Tail(o.todo) /\ q.todo # <<>>
  BY <1>1, <1>2, <1>3, <1>4, <1>7, TailedFields
<1>9. Sound(q)
  BY <1>1, <1>2, <1>7, TailedSound DEF Gets
<1>10. stored[main] # None /\ files \subseteq At(stored)
  BY <1>1, <1>2, <1>6 DEF Fits, Stale, Moving
<1>11. Fits(q, stored, main, files)
  BY <1>1, <1>2, <1>7, <1>8, <1>10, TailedFits DEF Moving, Now
<1>12. Fits(q, stored', main', files') /\ mainPath' = main'
  BY <1>5, <1>11
<1> QED
  BY <1>4, <1>5, <1>8, <1>9, <1>12, GoesNamed

LEMMA LoadFilesAgainNamed ==
  ASSUME Typed, Named, NEW i \in DOMAIN ops, LoadFilesAgain(i) PROVE Named'
<1> SUFFICES ASSUME Regular' PROVE Named'
  BY DEF Named
<1>1. PICK o : o = ops[i] /\ Sound(o) /\ Now(o) = "list" /\ o \in OpSet
  BY OpFacts DEF LoadFilesAgain, Typed
<1>2. \/ Tail(o.todo) = <<>> /\ o.kind # "deleteFolder"
      \/ o.kind = "deleteFolder" /\ Tail(o.todo) # <<>> /\ Head(Tail(o.todo)) = "check"
  <2>1. Left(o.kind, o.todo) /\ Head(o.todo) = "list"
    BY <1>1 DEF Sound, Now
  <2> QED
    BY <2>1, Turns
<1>3. PICK out :
         /\ JudgeAlso(out, {})
         /\ out = "ok" => Go(i, Tailed(o), {}) /\ \E a, ms : ShowList(Existing, a, ms)
  BY <1>1, Listing DEF LoadFilesAgain, Judge
<1>4. out = "ok" /\ Regular /\ excuse \subseteq excuse'
  BY <1>3, JudgedRegular, Judgement
<1>5. UNCHANGED <<stored, main, mount, mainPath>> /\ files' = At(stored)
  <2>1. PICK a, ms : ShowList(Existing, a, ms)
    BY <1>3, <1>4
  <2>2. UNCHANGED <<stored, main, mount>>
    BY DEF LoadFilesAgain
  <2> QED
    BY <2>1, <2>2, Renders
<1>6. Fits(o, stored, main, files) /\ mainPath = main
  BY <1>1, <1>4, RunningNamed
<1>7. PICK q : q = Tailed(o)
  OBVIOUS
<1>8. Go(i, q, {}) /\ q.todo = Tail(o.todo) /\ q.kind = o.kind /\ q.main = o.main
  BY <1>1, <1>3, <1>4, <1>7, TailedFields
<1>9. q.todo # <<>> => Sound(q)
  BY <1>1, <1>7, <1>8, TailedSound DEF Gets
<1>10. CASE Tail(o.todo) = <<>> /\ o.kind # "deleteFolder"
  <2>1. stored[main] # None
    BY <1>1, <1>6, <1>10 DEF Fits
  <2> QED
    BY <1>4, <1>5, <1>6, <1>8, <1>10, <2>1, GoesNamed
<1>11. CASE o.kind = "deleteFolder" /\ Tail(o.todo) # <<>> /\ Head(Tail(o.todo)) = "check"
  <2>1. Now(q) = "check" /\ o.main = main
    BY <1>6, <1>8, <1>11 DEF Now, Fits
  <2>2. Fits(q, stored, main, At(stored))
    BY <1>1, <1>7, <1>11, <2>1, TailedFits DEF Moving
  <2>3. Fits(q, stored', main', files') /\ mainPath' = main'
    BY <1>5, <1>6, <2>2
  <2> QED
    BY <1>4, <1>5, <1>8, <1>9, <1>11, <2>3, GoesNamed
<1> QED
  BY <1>2, <1>10, <1>11

LEMMA EndsNamed ==
  ASSUME Typed, Named, NEW i \in DOMAIN ops, RestoreEnds(i) \/ AcceptEnds(i) PROVE Named'
<1> SUFFICES ASSUME Regular' PROVE Named'
  BY DEF Named
<1>1. PICK o : o = ops[i] /\ Sound(o) /\ Now(o) = "list" /\ o \in OpSet /\ o.kind \in {"restore", "accept"}
  BY OpFacts DEF RestoreEnds, AcceptEnds, Typed
<1>2. CASE RestoreEnds(i)
  <2>1. PICK out : JudgeAlso(out, {}) /\ (out = "ok" => NewPage /\ ops' = <<>>)
    BY <1>2 DEF RestoreEnds, Judge
  <2>2. Regular /\ NewPage /\ ops' = <<>>
    BY <2>1, JudgedRegular
  <2>3. stored[main] # None /\ stored' = stored /\ main' = main
    <3>1. Fits(o, stored, main, files)
      BY <1>1, <2>2, RunningNamed
    <3> QED
      BY <1>1, <1>2, <3>1 DEF Fits, Moving, RestoreEnds
  <2> QED
    BY <2>2, <2>3 DEF Named, NewPage
<1>3. CASE AcceptEnds(i)
  <2>1. PICK out, ms :
           /\ JudgeAlso(out, {}) /\ Go(i, Dropped(o), {})
           /\ out = "ok" => \/ files' = Existing /\ mainPath' = mainPath
                            \/ ShowList(Existing, active, ms)
    BY <1>1, <1>3, Listing DEF AcceptEnds, Judge
  <2>2. Regular /\ excuse \subseteq excuse' /\ out = "ok"
    BY <2>1, JudgedRegular, Judgement
  <2>3. UNCHANGED <<stored, main, mount, mainPath>> /\ files' = At(stored)
    <3>1. UNCHANGED <<stored, main, mount>>
      BY <1>3 DEF AcceptEnds
    <3>2. Existing = At(stored)
      BY DEF Existing, At
    <3> QED
      BY <2>1, <2>2, <3>1, <3>2, Renders
  <2>4. Fits(o, stored, main, files) /\ mainPath = main
    BY <1>1, <2>2, RunningNamed
  <2>5. stored[main] # None
    BY <1>1, <2>4 DEF Fits, Moving
  <2>6. Dropped(o).todo = <<>>
    BY <1>1, DroppedDone
  <2> QED
    BY <2>1, <2>2, <2>3, <2>4, <2>5, <2>6, GoesNamed
<1> QED
  BY <1>2, <1>3

LEMMA OtherStepsNamed ==
  ASSUME Typed, Named,
         \/ UNCHANGED vars \/ FetchProjectFile \/ Loaded \/ Autosave \/ Type \/ Save
         \/ RejectAgentProposals \/ (\E p \in files : OpenTab(p)) \/ Outside
         \/ \E i \in DOMAIN puts : PutLands(i)
  PROVE  Named'
<1>1. Owned(stored) /\ fresh \in Nat
  BY DEF Typed, ServerTyped, RestTyped
<1>2. CASE FetchProjectFile
  <2>1. UNCHANGED <<stored, main, mainPath, files, mount, ops>>
    BY <1>2 DEF FetchProjectFile
  <2>2. excuse \subseteq excuse'
    BY <1>2, Judgement DEF FetchProjectFile, Judge
  <2> QED
    BY <2>1, <2>2, QuietNamed DEF Grows
<1>3. CASE \/ UNCHANGED vars \/ Loaded \/ Autosave \/ Type \/ Save
           \/ RejectAgentProposals \/ (\E p \in files : OpenTab(p)) \/ \E ps \in SUBSET env.names : Propose(ps)
  <2>1. UNCHANGED <<stored, main, mainPath, files, mount, ops, excuse>>
    BY <1>3 DEF Loaded, Autosave, Type, Save, RejectAgentProposals, OpenTab, Propose
  <2> QED
    BY <2>1, QuietNamed DEF Grows
<1>4. CASE \E p \in Path : OtherWrites(p)
  <2>1. PICK p \in Path : /\ UNCHANGED <<main, mainPath, files, mount>>
                          /\ stored' = [stored EXCEPT ![p] = New(p)]
                          /\ ops' = Touched(ops, 0, {p}) /\ excuse \subseteq excuse'
    BY <1>4 DEF OtherWrites
  <2>2. New(p) # None
    BY <1>1, NewOwned, OwnTexts, PathAssumption
  <2>3. Grows
    BY <1>1, <2>1, <2>2 DEF Grows, Owned
  <2> QED
    BY <2>1, <2>3, QuietNamed
<1>5. CASE \E i \in DOMAIN puts : PutLands(i)
  <2>1. PICK i \in DOMAIN puts : PutLands(i)
    BY <1>5
  <2>2. puts[i] \in Sends
    BY LenProperties DEF Typed, RestTyped
  <2>3. puts[i].text # None
    BY <2>2, PathAssumption DEF Sends
  <2>4. \/ stored' = stored
        \/ stored' = [stored EXCEPT ![puts[i].path] = puts[i].text]
    BY <2>1 DEF PutLands
  <2>5. Grows
    BY <1>1, <2>3, <2>4 DEF Grows, Owned
  <2>6. UNCHANGED <<main, mainPath, files, mount>> /\ ops' = Touched(ops, 0, {puts[i].path})
    BY <2>1 DEF PutLands
  <2>7. excuse \subseteq excuse'
    BY <2>1, Judgement DEF PutLands
  <2> QED
    BY <2>5, <2>6, <2>7, QuietNamed
<1> QED
  BY <1>2, <1>3, <1>4, <1>5 DEF Outside

LEMMA NextNamed == ASSUME Typed, Named, [Next]_vars PROVE Named'
<1>1. CASE Reload
  BY <1>1 DEF Reload, Named, Regular
<1>2. CASE Command
  BY <1>2, Commands, OtherStepsNamed, BeginNamed
<1>3. CASE OperationStep
  <2>1. PICK i \in DOMAIN ops :
          \/ PutFile(i) \/ GetFile(i) \/ DeleteOld(i) \/ DeleteOne(i) \/ DeleteUnder(i)
          \/ CheckMain(i) \/ PatchMain(i) \/ Unpack(i) \/ LoadMainAgain(i)
          \/ LoadFilesAgain(i) \/ RestoreEnds(i) \/ AcceptEnds(i)
    BY <1>3 DEF OperationStep
  <2> QED
    BY <2>1, PutFileNamed, GetFileNamed, DeleteOldNamed, DeleteOneNamed, DeleteUnderNamed,
       CheckMainNamed, PatchMainNamed, UnpackNamed, LoadMainAgainNamed, LoadFilesAgainNamed, EndsNamed
<1> QED
  BY <1>1, <1>2, <1>3, LoadsNamed, OtherStepsNamed DEF Next

\* When no operation runs, the project's main file is one of its files: a rename,
\* a move and the deletion of a folder take it along.
THEOREM FilesNamed == Spec => []MainNamed
<1>1. Init => Typed /\ Named
  <2>1. ASSUME Init PROVE Named
    <3>1. stored[main] # None
      <4>1. main \in Path /\ stored[main] = [doc |-> main, ver |-> 0]
        BY <2>1, PathAssumption DEF Init
      <4>2. [doc |-> main, ver |-> 0] \in Text
        BY <4>1 DEF Text, Docs
      <4> QED
        BY <4>1, <4>2, PathAssumption
    <3> QED
      BY <2>1, <3>1 DEF Init, Named
  <2> QED
    BY <2>1, InitTyped
<1>2. Typed /\ Named /\ [Next]_vars => Typed' /\ Named'
  BY NextTyped, NextNamed
<1>3. Named => MainNamed
  BY DEF Named, Regular, MainNamed
<1> QED
  BY <1>1, <1>2, <1>3, PTL DEF Spec

-----------------------------------------------------------------------------
(* The shown file.                                                         *)

\* v is what is stored under a once the saves on their way have landed in order.
Ends(a, v) ==
    \/ \E k \in DOMAIN puts : /\ puts[k].path = a /\ puts[k].text = v
                              /\ \A j \in DOMAIN puts : puts[j].path = a => j <= k
    \/ (\A j \in DOMAIN puts : puts[j].path # a) /\ stored[a] = v

Calm == excuse \cap {"fault", "overtaken", "other", "replaced"} = {}

\* An acceptance that will put its text in the model of p.
Accepts(o, p) == o.kind = "accept" /\ \E j \in DOMAIN o.texts : o.texts[j].path = p

\* The editor shows what will be stored, unless it is still being loaded, has yet
\* to be saved, or is about to take a text that is being stored.
Shown ==
    Calm /\ active \in Allowed \ Binary /\ models[active] # None
    => \/ load # None \/ timer # None
       \/ \E i \in DOMAIN ops : Accepts(ops[i], active)
       \/ Ends(active, models[active])

\* A rendering leaves the shown file alone, closes it, or loads the next one.
Rendered(ms) ==
    \/ UNCHANGED <<active, models, load, timer>>
    \/ UNCHANGED <<active, load, timer>> /\ models' = ms
    \/ load' # None
    \/ active' \in Binary

LEMMA RenderShows ==
  ASSUME NEW ms, NEW fs, NEW mp, NEW a, NEW b \in Path \cup {None}, Page(fs, mp, a, b, ms)
  PROVE  Rendered(ms)
<1>1. CASE b = None
  BY <1>1 DEF Page, Rendered
<1>2. CASE b # None
  <2>1. PICK c : Show(c, b, ms)
    BY <1>2 DEF Page
  <2>2. CASE c = active /\ b = active
    BY <2>1, <2>2 DEF Show, Rendered
  <2>3. CASE ~ (c = active /\ b = active) /\ b \in Binary
    BY <2>1, <2>3 DEF Show, Rendered
  <2>4. CASE ~ (c = active /\ b = active) /\ b \notin Binary
    <3>1. load' = [path |-> b, got |-> None]
      BY <2>1, <2>4 DEF Show
    <3>2. load' \in [path : Path, got : Text \cup {None}]
      BY <1>2, <3>1
    <3> QED
      BY <3>2, PathAssumption DEF Rendered
  <2> QED
    BY <2>2, <2>3, <2>4
<1> QED
  BY <1>1, <1>2

LEMMA RendersShow ==
  ASSUME PageTyped, NEW ms, NEW a \in Path \cup {None}
  PROVE  /\ \A fs \in SUBSET Path : ShowList(fs, a, ms) => Rendered(ms)
         /\ ShowPath(a, ms) => Rendered(ms)
         /\ \A mp \in Path : ShowMain(mp, a, ms) => Rendered(ms)
<1>1. mainPath \in Path /\ files \in SUBSET Path
  BY DEF PageTyped
<1>2. ASSUME NEW fs \in SUBSET Path, ShowList(fs, a, ms) PROVE Rendered(ms)
  BY <1>1, <1>2, SettleIn, RenderShows DEF ShowList
<1>3. ShowPath(a, ms) => Rendered(ms)
  BY RenderShows DEF ShowPath
<1>4. ASSUME NEW mp \in Path, ShowMain(mp, a, ms) PROVE Rendered(ms)
  <2>1. PICK b \in Path \cup {None} : b = IF mp = mainPath THEN a ELSE Settle(files, mp, a)
    BY <1>1, SettleIn
  <2> QED
    BY <1>4, <2>1, RenderShows DEF ShowMain
<1> QED
  BY <1>2, <1>3, <1>4

LEMMA ProjectShows ==
  ASSUME PageTyped, NEW mp \in Path, ShowProject(mp)
  PROVE  Rendered(models)
<1>1. active \in Path \cup {None} /\ mainPath \in Path /\ files \in SUBSET Path
  BY DEF PageTyped
<1>2. CASE ShowMain(mp, active, models)
  BY <1>1, <1>2, RendersShow
<1>3. CASE ~ ShowMain(mp, active, models)
  <2>1. active \in Path /\ active # None
    BY <1>1, <1>3 DEF ShowProject
  <2>2. PICK b \in Path : b = IF mp = mainPath THEN active ELSE Settle(files, mp, active)
    BY <1>1, <2>1, SettleIn, PathAssumption
  <2>3. active' = b /\ load' = IF b \in Binary THEN None ELSE [path |-> b, got |-> None]
    BY <1>3, <2>2 DEF ShowProject
  <2>4. [path |-> b, got |-> None] \in [path : Path, got : Text \cup {None}]
    OBVIOUS
  <2> QED
    BY <2>3, <2>4, PathAssumption DEF Rendered
<1> QED
  BY <1>2, <1>3

\* The acceptances that have to come are still there.
Awaited(p) == (\E i \in DOMAIN ops : Accepts(ops[i], p)) => \E i \in DOMAIN ops' : Accepts(ops'[i], p)

LEMMA AfterAccepts ==
  ASSUME NEW o, Sound(o), NEW q, NEW ps, After(o, q, ps), NEW p, Accepts(o, p)
  PROVE  Accepts(q, p)
<1>1. CASE q = o
  BY <1>1
<1>2. CASE q = Soiled(o)
  <2>1. q.kind = o.kind /\ q.texts = o.texts
    BY <1>2 DEF Soiled, Sound, OpSet
  <2> QED
    BY <2>1 DEF Accepts
<1> QED
  BY <1>1, <1>2 DEF After

LEMMA GoesAwaited ==
  ASSUME OpsTyped, NEW i \in DOMAIN ops, NEW q, NEW ps, Go(i, q, ps), q.todo # <<>> => Sound(q),
         NEW p, Accepts(ops[i], p) => q.todo # <<>> /\ Accepts(q, p)
  PROVE  Awaited(p)
<1> SUFFICES ASSUME NEW j \in DOMAIN ops, Accepts(ops[j], p)
             PROVE  \E k \in DOMAIN ops' : Accepts(ops'[k], p)
  BY DEF Awaited
<1>1. CASE j = i
  <2>1. PICK k \in DOMAIN ops' : ops'[k] = q
    BY <1>1, Goes
  <2> QED
    BY <1>1, <2>1
<1>2. CASE j # i
  <2>1. PICK k \in DOMAIN ops' : After(ops[j], ops'[k], ps)
    BY <1>2, Goes
  <2>2. Sound(ops[j])
    BY DEF OpsTyped
  <2>3. PICK c : c = ops'[k]
    OBVIOUS
  <2>4. Accepts(c, p)
    BY <2>1, <2>2, <2>3, AfterAccepts
  <2> QED
    BY <2>3, <2>4
<1> QED
  BY <1>1, <1>2

LEMMA TouchedAwaited ==
  ASSUME OpsTyped, NEW ps, ops' = Touched(ops, 0, ps), NEW p
  PROVE  Awaited(p)
<1>1. PICK os : os = Touched(ops, 0, ps)
  OBVIOUS
<1>2. 0 \in Nat /\ \A j \in DOMAIN ops : j # 0
  BY LenProperties DEF OpsTyped
<1>3. DOMAIN os = DOMAIN ops /\ \A j \in DOMAIN ops : After(ops[j], os[j], ps)
  BY <1>1, <1>2, TouchedOps
<1>4. ASSUME NEW j \in DOMAIN ops, Accepts(ops[j], p) PROVE Accepts(os[j], p)
  BY <1>3, <1>4, AfterAccepts DEF OpsTyped
<1> QED
  BY <1>1, <1>3, <1>4 DEF Awaited

\* The page after a step that leaves the saves on their way, and the shown file
\* stored as it is.
LEMMA PageShown ==
  ASSUME Typed, Shown, excuse \subseteq excuse', puts' = puts, NEW ms, Rendered(ms),
         active \in Allowed \ Binary => /\ stored'[active] = stored[active] /\ Awaited(active)
                                        /\ ms[active] = models[active] \/ ms[active] = None
  PROVE  Shown'
<1> SUFFICES ASSUME Calm', active' \in Allowed \ Binary, models'[active'] # None
             PROVE  Shown!2'
  BY DEF Shown
<1>1. Calm
  BY DEF Calm
<1>2. CASE load' # None
  BY <1>2
<1>3. CASE UNCHANGED <<active, load, timer>> /\ (models' = models \/ models' = ms)
  <2>1. PICK a, v : a = active /\ v = models[active]
    OBVIOUS
  <2>2. /\ a \in Allowed \ Binary /\ a = active' /\ stored'[a] = stored[a] /\ Awaited(a)
        /\ models'[a] = v /\ v # None
    BY <1>3, <2>1
  <2>3. load # None \/ timer # None \/ (\E i \in DOMAIN ops : Accepts(ops[i], a)) \/ Ends(a, v)
    BY <1>1, <2>1, <2>2 DEF Shown
  <2>4. CASE load # None \/ timer # None
    BY <1>3, <2>4
  <2>5. CASE \E i \in DOMAIN ops : Accepts(ops[i], a)
    BY <2>2, <2>5 DEF Awaited
  <2>6. CASE Ends(a, v)
    BY <2>2, <2>6 DEF Ends
  <2> QED
    BY <2>3, <2>4, <2>5, <2>6
<1> QED
  BY <1>2, <1>3 DEF Rendered

LEMMA JudgedCalm ==
  ASSUME NEW out, NEW more, JudgeAlso(out, more), Calm'
  PROVE  /\ out = "ok" /\ Calm /\ excuse \subseteq excuse'
         /\ more \cap {"fault", "overtaken", "other", "replaced"} = {}
BY DEF JudgeAlso, Calm

LEMMA LoadsShown ==
  ASSUME Typed, Shown, LoadMain \/ LoadFiles \/ \E p \in files : OpenTab(p)
  PROVE  Shown'
<1> SUFFICES ASSUME Calm' PROVE Shown'
  BY DEF Shown
<1>1. PageTyped /\ active \in Path \cup {None} /\ files \subseteq Path /\ main \in Path
  BY DEF Typed, PageTyped, ServerTyped
<1>2. UNCHANGED <<stored, puts, ops>>
  BY DEF LoadMain, LoadFiles, OpenTab
<1>3. Rendered(models) /\ excuse \subseteq excuse'
  <2>1. CASE LoadMain
    <3>1. PICK out : /\ JudgeAlso(out, {})
                     /\ out = "ok" => ShowProject(main)
      BY <2>1 DEF LoadMain, Judge
    <3> QED
      BY <1>1, <3>1, JudgedCalm, ProjectShows
  <2>2. CASE LoadFiles
    <3>1. PICK out \in Answers, fs \in SUBSET Path :
             JudgeAlso(out, {}) /\ (out = "ok" => ShowList(fs, active, models))
      BY <2>2, Listing DEF LoadFiles, Judge
    <3> QED
      BY <1>1, <3>1, JudgedCalm, RendersShow
  <2>3. CASE \E p \in files : OpenTab(p)
    <3>1. PICK p \in files : Show(p, p, models) /\ UNCHANGED <<files, mainPath>>
      BY <2>3 DEF OpenTab
    <3>2. excuse' = excuse
      BY <2>3 DEF OpenTab
    <3>3. p \in Path \cup {None} /\ p # None
      BY <1>1, PathAssumption
    <3>4. Page(files, mainPath, p, p, models)
      BY <3>1, <3>3 DEF Page
    <3> QED
      BY <3>2, <3>3, <3>4, RenderShows
  <2> QED
    BY <2>1, <2>2, <2>3
<1>4. Awaited(active)
  BY <1>2 DEF Awaited
<1> QED
  BY <1>2, <1>3, <1>4, PageShown

LEMMA EditsShown ==
  ASSUME Typed, Shown,
         FetchProjectFile \/ Loaded \/ Type \/ Autosave \/ Save \/ Reload \/ (\E p \in Path : OtherWrites(p))
  PROVE  Shown'
<1> SUFFICES ASSUME Calm', active' \in Allowed \ Binary, models'[active'] # None
             PROVE  Shown!2'
  BY DEF Shown
<1>1. active' # None /\ active' \in Path
  BY PathAssumption
<1>2. PageTyped /\ puts \in Seq(Sends) /\ Len(puts) \in Nat /\ DOMAIN puts = 1..Len(puts)
  BY LenProperties DEF Typed, RestTyped
<1>3. CASE FetchProjectFile
  <2>1. load # None /\ \E t \in Text \cup {None} : load' = [load EXCEPT !.got = t]
    <3>1. PICK out : /\ load # None
                     /\ load' = [load EXCEPT !.got = IF out = "ok" /\ stored[load.path] # None
                                                     THEN stored[load.path] ELSE Empty]
      BY <1>3 DEF FetchProjectFile
    <3>2. PICK t : t = IF out = "ok" /\ stored[load.path] # None THEN stored[load.path] ELSE Empty
      OBVIOUS
    <3>3. load.path \in Path /\ Empty \in Text
      BY <1>2, <3>1 DEF PageTyped, Text, Docs, Empty
    <3>4. t \in Text \cup {None}
      BY <3>2, <3>3 DEF Typed, ServerTyped, Owned
    <3> QED
      BY <3>1, <3>2, <3>4
  <2>2. load' \in [path : Path, got : Text \cup {None}]
    BY <1>2, <2>1 DEF PageTyped
  <2> QED
    BY <2>2, PathAssumption
<1>4. CASE Loaded
  <2>1. load # None /\ active' = active /\ load.path = active
    BY <1>2, <1>4 DEF Loaded, PageTyped
  <2>2. timer' = active
    BY <1>4, <2>1 DEF Loaded
  <2> QED
    BY <1>1, <2>1, <2>2
<1>5. CASE Type
  BY <1>1, <1>5 DEF Type
<1>6. CASE Autosave \/ Save
  <2>1. /\ UNCHANGED <<active, models>>
        /\ puts' = Append(puts, [path |-> active, text |-> EditorText])
    BY <1>2, <1>6 DEF Autosave, Save, PageTyped
  <2>2. PICK s, v : v = models[active] /\ s = [path |-> active, text |-> v] /\ puts' = Append(puts, s)
    BY <2>1 DEF EditorText
  <2>3. v \in Text
    BY <1>1, <2>1, <2>2 DEF Typed, PageTyped, Owned
  <2>4. s \in Sends
    <3>1. v \in Own(active)
      BY <1>1, <2>1, <2>2 DEF Typed, PageTyped, Owned
    <3> QED
      BY <1>1, <2>1, <2>2, <2>3, <3>1 DEF Sends
  <2>5. /\ DOMAIN puts' = 1..(Len(puts) + 1) /\ puts'[Len(puts) + 1] = s
    BY <1>2, <2>2, <2>4, AppendProperties
  <2>6. Ends(active, v)'
    <3>1. PICK a, k : a = active /\ k = Len(puts) + 1
      OBVIOUS
    <3>2. k \in DOMAIN puts' /\ puts'[k].path = a /\ puts'[k].text = v /\ \A j \in DOMAIN puts' : j <= k
      BY <1>2, <2>2, <2>5, <3>1
    <3>3. Ends(a, v)'
      BY <3>2 DEF Ends
    <3> QED
      BY <2>1, <3>1, <3>3
  <2> QED
    BY <2>1, <2>2, <2>6
<1>7. CASE Reload \/ \E p \in Path : OtherWrites(p)
  BY <1>7 DEF Reload, OtherWrites, Calm
<1> QED
  BY <1>3, <1>4, <1>5, <1>6, <1>7

\* The saves land in order: what is left of them ends in the same text.
LEMMA LandsEnds ==
  ASSUME puts \in Seq(Sends), Owned(stored), NEW i \in DOMAIN puts, puts' = RemoveAt(puts, i),
         NEW a \in Path, NEW v, Ends(a, v),
         IF puts[i].path = a
         THEN stored'[a] = puts[i].text /\ \A j \in 1 .. i - 1 : puts[j].path # a
         ELSE stored'[a] = stored[a]
  PROVE  Ends(a, v)'
<1>1. Len(puts) \in Nat /\ DOMAIN puts = 1..Len(puts) /\ i \in 1..Len(puts) /\ i \in Nat
  BY LenProperties
<1>2. /\ puts' \in Seq(Sends) /\ Len(puts') = Len(puts) - 1
      /\ \A k \in 1..Len(puts') : puts'[k] = puts[IF k < i THEN k ELSE k + 1]
  BY <1>1, Rest
<1>3. DOMAIN puts' = 1..Len(puts')
  BY <1>2, LenProperties
<1>4. ASSUME NEW k \in 1..Len(puts'), k < i
      PROVE  puts'[k] = puts[k] /\ k \in DOMAIN puts
  BY <1>1, <1>2, <1>4
<1>5. ASSUME NEW k \in 1..Len(puts'), ~ (k < i)
      PROVE  puts'[k] = puts[k + 1] /\ k + 1 \in DOMAIN puts /\ k + 1 # i
  BY <1>1, <1>2, <1>5
<1>6. CASE \E k \in DOMAIN puts : /\ k # i /\ puts[k].path = a /\ puts[k].text = v
                                  /\ \A j \in DOMAIN puts : puts[j].path = a => j <= k
  <2>1. PICK k \in DOMAIN puts : /\ k # i /\ puts[k].path = a /\ puts[k].text = v
                                 /\ \A j \in DOMAIN puts : puts[j].path = a => j <= k
    BY <1>6
  <2>2. PICK m \in 1..Len(puts') : m = IF k < i THEN k ELSE k - 1
    BY <1>1, <1>2, <2>1
  <2>3. puts'[m] = puts[k]
    <3>1. CASE k < i
      BY <1>4, <2>2, <3>1
    <3>2. CASE ~ (k < i)
      <4>1. ~ (m < i) /\ m + 1 = k
        BY <1>1, <2>1, <2>2, <3>2
      <4> QED
        BY <1>5, <4>1
    <3> QED
      BY <3>1, <3>2
  <2>4. ASSUME NEW j \in DOMAIN puts', puts'[j].path = a PROVE j <= m
    <3>0. j \in 1..Len(puts')
      BY <1>3
    <3>1. CASE j < i
      <4>1. j <= k
        BY <1>4, <2>1, <2>4, <3>0, <3>1
      <4> QED
        BY <1>1, <2>1, <2>2, <3>0, <3>1, <4>1
    <3>2. CASE ~ (j < i)
      <4>1. j + 1 <= k
        BY <1>5, <2>1, <2>4, <3>0, <3>2
      <4> QED
        BY <1>1, <2>1, <2>2, <3>0, <3>2, <4>1
    <3> QED
      BY <3>1, <3>2
  <2> QED
    BY <1>3, <2>1, <2>2, <2>3, <2>4 DEF Ends
<1>7. CASE stored'[a] = v /\ \A j \in DOMAIN puts : j # i => puts[j].path # a
  <2>1. ASSUME NEW j \in DOMAIN puts' PROVE puts'[j].path # a
    <3>0. j \in 1..Len(puts')
      BY <1>3
    <3>1. CASE j < i
      BY <1>1, <1>4, <1>7, <3>0, <3>1
    <3>2. CASE ~ (j < i)
      BY <1>1, <1>5, <1>7, <3>0, <3>2
    <3> QED
      BY <3>1, <3>2
  <2> QED
    BY <1>7, <2>1 DEF Ends
<1>8. CASE puts[i].path = a
  <2>1. PICK k \in DOMAIN puts : /\ puts[k].path = a /\ puts[k].text = v
                                 /\ \A j \in DOMAIN puts : puts[j].path = a => j <= k
    BY <1>8 DEF Ends
  <2>2. CASE k # i
    BY <1>6, <2>1, <2>2
  <2>3. CASE k = i
    <3>1. \A j \in DOMAIN puts : j # i => puts[j].path # a
      <4> SUFFICES ASSUME NEW j \in DOMAIN puts, j # i, puts[j].path = a PROVE FALSE
        OBVIOUS
      <4>1. j \in 1 .. i - 1
        BY <1>1, <2>1, <2>3
      <4> QED
        BY <1>8, <4>1
    <3> QED
      BY <1>7, <1>8, <2>1, <2>3, <3>1
  <2> QED
    BY <2>2, <2>3
<1>9. CASE puts[i].path # a
  <2>1. CASE \E k \in DOMAIN puts : /\ puts[k].path = a /\ puts[k].text = v
                                    /\ \A j \in DOMAIN puts : puts[j].path = a => j <= k
    BY <1>6, <1>9, <2>1
  <2>2. CASE (\A j \in DOMAIN puts : puts[j].path # a) /\ stored[a] = v
    BY <1>7, <1>9, <2>2
  <2> QED
    BY <2>1, <2>2 DEF Ends
<1> QED
  BY <1>8, <1>9

LEMMA PutLandsShown ==
  ASSUME Typed, Shown, NEW i \in DOMAIN puts, PutLands(i)
  PROVE  Shown'
<1> SUFFICES ASSUME Calm', active' \in Allowed \ Binary, models'[active'] # None
             PROVE  Shown!2'
  BY DEF Shown
<1>1. OpsTyped /\ Owned(stored) /\ puts \in Seq(Sends) /\ puts[i] \in Sends
  BY LenProperties DEF Typed, ServerTyped, RestTyped
<1>2. /\ UNCHANGED <<active, models, load, timer>> /\ puts' = RemoveAt(puts, i)
      /\ ops' = Touched(ops, 0, {puts[i].path})
  BY DEF PutLands
<1>3. PICK out, more :
         /\ JudgeAlso(out, more)
         /\ more = IF \E j \in 1 .. i - 1 : puts[j].path = puts[i].path THEN {"overtaken"} ELSE {}
         /\ out = "ok" => stored' = IF puts[i].path \in Allowed
                                    THEN [stored EXCEPT ![puts[i].path] = puts[i].text] ELSE stored
  BY DEF PutLands
<1>4. /\ Calm /\ \A j \in 1 .. i - 1 : puts[j].path # puts[i].path
      /\ stored' = IF puts[i].path \in Allowed
                   THEN [stored EXCEPT ![puts[i].path] = puts[i].text] ELSE stored
  <2>1. out = "ok" /\ Calm /\ more \cap {"fault", "overtaken", "other", "replaced"} = {}
    BY <1>3, JudgedCalm
  <2> QED
    BY <1>3, <2>1
<1>5. PICK a, v : a = active /\ v = models[active]
  OBVIOUS
<1>6. a \in Allowed \ Binary /\ v # None /\ a \in Path /\ a = active' /\ v = models'[a]
  BY <1>2, <1>5, PathAssumption
<1>7. load # None \/ timer # None \/ (\E j \in DOMAIN ops : Accepts(ops[j], a)) \/ Ends(a, v)
  BY <1>4, <1>5, <1>6 DEF Shown
<1>8. CASE load # None \/ timer # None
  BY <1>2, <1>8
<1>9. CASE \E j \in DOMAIN ops : Accepts(ops[j], a)
  <2>1. Awaited(a)
    BY <1>1, <1>2, TouchedAwaited
  <2> QED
    BY <1>6, <1>9, <2>1 DEF Awaited
<1>10. CASE Ends(a, v)
  <2>1. IF puts[i].path = a
        THEN stored'[a] = puts[i].text /\ \A j \in 1 .. i - 1 : puts[j].path # a
        ELSE stored'[a] = stored[a]
    BY <1>1, <1>4, <1>6 DEF Owned
  <2>2. Ends(a, v)'
    BY <1>1, <1>2, <1>6, <1>10, <2>1, LandsEnds
  <2> QED
    BY <1>6, <2>2
<1> QED
  BY <1>7, <1>8, <1>9, <1>10

\* What all operations but an acceptance need: the others stay.
LEMMA OthersAwaited ==
  ASSUME OpsTyped, NEW i \in DOMAIN ops, NEW ps,
         \/ Go(i, Dropped(ops[i]), ps)
         \/ Go(i, Tailed(ops[i]), ps) /\ Now(ops[i]) \notin Gets \cup {"put"}
         \/ \E q : Go(i, q, ps) /\ (q.todo # <<>> => Sound(q)),
         NEW p, ~ Accepts(ops[i], p)
  PROVE  Awaited(p)
<1>1. PICK o : o = ops[i] /\ Sound(o) /\ o \in OpSet
  BY OpFacts
<1>2. CASE Go(i, Dropped(o), ps)
  BY <1>1, <1>2, DroppedDone, GoesAwaited
<1>3. CASE Go(i, Tailed(o), ps) /\ Now(o) \notin Gets \cup {"put"}
  <2>1. Tailed(o).todo # <<>> => Sound(Tailed(o))
    BY <1>1, <1>3, TailedFields, TailedSound
  <2> QED
    BY <1>1, <1>3, <2>1, GoesAwaited
<1>4. CASE \E q : Go(i, q, ps) /\ (q.todo # <<>> => Sound(q))
  BY <1>4, GoesAwaited
<1> QED
  BY <1>1, <1>2, <1>3, <1>4

LEMMA PutFileShown == ASSUME Typed, Shown, NEW i \in DOMAIN ops, PutFile(i) PROVE Shown'
<1> SUFFICES ASSUME Calm' PROVE Shown'
  BY DEF Shown
<1>1. ServerTyped /\ PageTyped /\ OpsTyped /\ Owned(stored)
  BY DEF Typed, ServerTyped
<1>2. PICK o : o = ops[i] /\ Sound(o) /\ Now(o) = "put" /\ o \in OpSet
  BY <1>1, OpFacts DEF PutFile
<1>3. PICK q, r : q = [o EXCEPT !.sent = @ + 1] /\ r = IF q.sent = Len(o.texts) THEN Tailed(q) ELSE q
  OBVIOUS
<1>4. /\ r.todo # <<>> /\ Sound(r) /\ o.sent + 1 \in DOMAIN o.texts /\ o.texts[o.sent + 1] \in Sends
      /\ r.kind = o.kind /\ r.texts = o.texts
  BY <1>2, <1>3, SentSound
<1>5. PICK f : f = o.texts[o.sent + 1] /\ f \in Sends /\ f.path \in Path /\ f.text \in Own(f.path)
  BY <1>4 DEF Sends
<1>6. PICK out, more, written :
         /\ JudgeAlso(out, more)
         /\ more = IF o.kind = "accept" THEN IF f.path \in Allowed THEN {} ELSE {"fault"}
                   ELSE IF f.path = active THEN {"replaced"} ELSE {}
         /\ written = (out # "refused" /\ f.path \in Allowed)
         /\ stored' = (IF written THEN [stored EXCEPT ![f.path] = f.text] ELSE stored)
         /\ Go(i, IF out # "ok" \/ ~ written THEN Dropped(o) ELSE r,
               IF written THEN {f.path} ELSE {})
  BY <1>2, <1>3, <1>5 DEF PutFile
<1>7. out = "ok" /\ excuse \subseteq excuse' /\ more \cap {"fault", "overtaken", "other", "replaced"} = {}
  BY <1>6, JudgedCalm
<1>8. /\ o.kind = "accept" => f.path \in Allowed
      /\ o.kind # "accept" => f.path # active
  BY <1>6, <1>7
<1>9. /\ Go(i, r, {f.path}) \/ (Go(i, Dropped(o), {}) /\ f.path \notin Allowed)
      /\ stored' = stored \/ stored' = [stored EXCEPT ![f.path] = f.text]
  BY <1>6, <1>7
<1>10. UNCHANGED <<active, models, load, timer, puts>>
  BY DEF PutFile
<1>11. Rendered(models)
  BY <1>10 DEF Rendered
<1>12. CASE o.kind # "accept"
  <2>1. ~ Accepts(o, active)
    BY <1>12 DEF Accepts
  <2>2. Awaited(active)
    BY <1>1, <1>2, <1>4, <1>9, <2>1, OthersAwaited
  <2>3. active \in Path => stored'[active] = stored[active]
    BY <1>1, <1>8, <1>9, <1>12 DEF Owned
  <2>4. active \in Allowed => active \in Path
    BY PathAssumption
  <2> QED
    BY <1>7, <1>10, <1>11, <2>2, <2>3, <2>4, PageShown
<1>13. CASE o.kind = "accept"
  <2>1. Go(i, r, {f.path})
    BY <1>8, <1>9, <1>13
  <2>2. \A p : Accepts(o, p) => Accepts(r, p)
    BY <1>4 DEF Accepts
  <2>3. Awaited(active)
    BY <1>1, <1>2, <1>4, <2>1, <2>2, GoesAwaited
  <2>4. CASE f.path = active
    <3>1. Accepts(ops[i], active)
      BY <1>2, <1>4, <1>5, <1>13, <2>4 DEF Accepts
    <3>2. \E k \in DOMAIN ops' : Accepts(ops'[k], active)
      BY <2>3, <3>1 DEF Awaited
    <3>3. active' = active
      BY <1>10
    <3> QED
      BY <3>2, <3>3 DEF Shown
  <2>5. CASE f.path # active
    <3>1. active \in Path => stored'[active] = stored[active]
      BY <1>1, <1>9, <2>5 DEF Owned
    <3>2. active \in Allowed => active \in Path
      BY PathAssumption
    <3> QED
      BY <1>7, <1>10, <1>11, <2>3, <3>1, <3>2, PageShown
  <2> QED
    BY <2>4, <2>5
<1> QED
  BY <1>12, <1>13

LEMMA GetFileShown == ASSUME Typed, Shown, NEW i \in DOMAIN ops, GetFile(i) PROVE Shown'
<1> SUFFICES ASSUME Calm' PROVE Shown'
  BY DEF Shown
<1>1. OpsTyped /\ Owned(stored)
  BY DEF Typed, ServerTyped
<1>2. PICK o : o = ops[i] /\ Sound(o) /\ Now(o) \in Gets /\ o \in OpSet
  BY <1>1, OpFacts DEF GetFile, Gets
<1>3. /\ o.kind \in Moving /\ o.from \in Path /\ o.to \in Path
  <2>1. o.kind \in Moving
    BY <1>2, Turns DEF Sound, Now
  <2> QED
    BY <1>2, <2>1 DEF Sound
<1>4. PICK raw, t : /\ raw = stored[o.from]
                    /\ t = IF raw = None THEN None
                           ELSE IF o.from \in Binary /\ Turn(i, "getText") THEN Garbled ELSE Taken(raw, o.to)
  OBVIOUS
<1>5. PICK out : /\ JudgeAlso(out, {})
                 /\ Go(i, IF out = "ok" /\ raw # None
                          THEN [Tailed(o) EXCEPT !.texts = <<Put(o.to, t)>>] ELSE Dropped(o), {})
  BY <1>2, <1>4 DEF GetFile, Judge
<1>6. raw # None => t \in Own(o.to)
  <2>1. raw # None => raw \in Own(o.from)
    BY <1>1, <1>3, <1>4 DEF Owned
  <2> QED
    BY <1>3, <1>4, <2>1, OwnTexts, TakenOwned
<1>7. ~ Accepts(o, active)
  BY <1>3 DEF Accepts, Moving
<1>8. Awaited(active)
  <2>1. CASE out = "ok" /\ raw # None
    <3>1. PICK q : q = [Tailed(o) EXCEPT !.texts = <<Put(o.to, t)>>]
      OBVIOUS
    <3>2. Sound(q)
      BY <1>2, <1>6, <2>1, <3>1, GotSound
    <3>3. Go(i, q, {})
      BY <1>5, <2>1, <3>1
    <3> QED
      BY <1>1, <1>2, <1>7, <3>2, <3>3, OthersAwaited
  <2>2. CASE ~ (out = "ok" /\ raw # None)
    BY <1>1, <1>2, <1>5, <1>7, <2>2, OthersAwaited
  <2> QED
    BY <2>1, <2>2
<1>9. UNCHANGED <<stored, active, models, load, timer, puts>>
  BY DEF GetFile
<1>10. Rendered(models)
  BY <1>9 DEF Rendered
<1>11. excuse \subseteq excuse'
  BY <1>5, JudgedCalm
<1> QED
  BY <1>8, <1>9, <1>10, <1>11, PageShown

\* Closing a model, or leaving it with the file as it is stored.
LEMMA ClosedShown ==
  ASSUME Typed, Shown, NEW i \in DOMAIN ops, excuse \subseteq excuse', puts' = puts,
         ops[i].kind # "accept", NEW ps, Go(i, Tailed(ops[i]), ps), Now(ops[i]) \notin Gets \cup {"put"},
         NEW ms, Rendered(ms), UNCHANGED <<active, models>> => models = ms \/ active = None,
         \A p \in Path : ms[p] = None \/ (ms[p] = models[p] /\ stored'[p] = stored[p])
  PROVE  Shown'
<1>1. OpsTyped
  BY DEF Typed
<1>2. Awaited(active)
  <2>1. ~ Accepts(ops[i], active)
    BY DEF Accepts
  <2> QED
    BY <1>1, <2>1, OthersAwaited
<1>3. active \in Allowed => active \in Path
  BY PathAssumption
<1>4. CASE active \in Allowed /\ ms[active] = None
  <2>1. CASE models' = ms /\ active' = active
    BY <1>4, <2>1 DEF Shown
  <2>2. CASE load' # None \/ active' \in Binary
    BY <2>2 DEF Shown
  <2>3. CASE active = None /\ active' = active
    BY <2>3, PathAssumption DEF Shown
  <2> QED
    BY <2>1, <2>2, <2>3 DEF Rendered
<1>5. CASE active \notin Allowed \/ (ms[active] = models[active] /\ stored'[active] = stored[active])
  BY <1>2, <1>5, PageShown
<1> QED
  BY <1>3, <1>4, <1>5

LEMMA ShownPath ==
  ASSUME PageTyped, NEW ms, NEW a \in Path \cup {None}, ShowPath(a, ms), a = None => active = None
  PROVE  Rendered(ms) /\ (UNCHANGED <<active, models>> => models = ms \/ active = None)
<1>1. Rendered(ms)
  BY RendersShow
<1>2. CASE a # None
  <2>1. Show(a, a, ms)
    BY <1>2 DEF ShowPath, Page
  <2>2. a = active => models' = ms
    BY <2>1 DEF Show
  <2>3. active' = a
    BY <2>1 DEF Show
  <2> QED
    BY <1>1, <2>2, <2>3
<1> QED
  BY <1>1, <1>2

LEMMA DeleteOldShown == ASSUME Typed, Shown, NEW i \in DOMAIN ops, DeleteOld(i) PROVE Shown'
<1> SUFFICES ASSUME Calm' PROVE Shown'
  BY DEF Shown
<1>1. OpsTyped /\ PageTyped /\ Owned(stored) /\ Owned(models) /\ active \in Path \cup {None}
  BY DEF Typed, ServerTyped, PageTyped
<1>2. PICK o : o = ops[i] /\ Sound(o) /\ o \in OpSet /\ Now(o) = "del"
  BY <1>1, OpFacts DEF DeleteOld
<1>3. o.kind \in Moving /\ o.to \in Path /\ o.from \in Path
  BY <1>1, <1>2, OpFacts, Turns DEF DeleteOld, Sound, Now
<1>4. PICK a, ms, st :
         /\ a \in Path \cup {None} /\ a = IF o.active = o.from THEN o.to ELSE active
         /\ ms = [models EXCEPT ![o.from] = None] /\ st = [stored EXCEPT ![o.from] = None]
  BY <1>1, <1>3
<1>5. PICK out :
         /\ JudgeAlso(out, {})
         /\ stored' = IF out = "refused" THEN stored ELSE st
         /\ Go(i, IF out = "ok" THEN Tailed(o) ELSE Dropped(o), {o.from})
         /\ out = "ok" => ShowPath(a, ms)
  BY <1>2, <1>4 DEF DeleteOld, Judge
<1>6. out = "ok" /\ excuse \subseteq excuse'
  BY <1>5, JudgedCalm
<1>7. stored' = st /\ Go(i, Tailed(o), {o.from}) /\ ShowPath(a, ms) /\ puts' = puts
  BY <1>5, <1>6 DEF DeleteOld
<1>8. \A p \in Path : ms[p] = None \/ (ms[p] = models[p] /\ stored'[p] = stored[p])
  BY <1>1, <1>3, <1>4, <1>7 DEF Owned
<1>9. a = None => active = None
  BY <1>3, <1>4, PathAssumption
<1>10. Rendered(ms) /\ (UNCHANGED <<active, models>> => models = ms \/ active = None)
  BY <1>1, <1>4, <1>7, <1>9, ShownPath
<1>11. o.kind # "accept" /\ Now(o) \notin Gets \cup {"put"}
  BY <1>2, <1>3 DEF Moving, Gets
<1> QED
  BY <1>2, <1>6, <1>7, <1>8, <1>10, <1>11, ClosedShown

LEMMA DeleteOneShown == ASSUME Typed, Shown, NEW i \in DOMAIN ops, DeleteOne(i) PROVE Shown'
<1> SUFFICES ASSUME Calm' PROVE Shown'
  BY DEF Shown
<1>1. OpsTyped /\ PageTyped /\ Owned(stored) /\ Owned(models) /\ active \in Path \cup {None}
  BY DEF Typed, ServerTyped, PageTyped
<1>2. PICK o : o = ops[i] /\ Sound(o) /\ o \in OpSet /\ Now(o) = "del"
  BY <1>1, OpFacts DEF DeleteOne
<1>3. o.kind = "delete" /\ o.from \in Path /\ o.next \in Path
  BY <1>2 DEF DeleteOne, Sound
<1>4. PICK a, ms, st :
         /\ a \in Path \cup {None} /\ a = IF o.active = o.from THEN o.next ELSE active
         /\ ms = [models EXCEPT ![o.from] = None] /\ st = [stored EXCEPT ![o.from] = None]
  BY <1>1, <1>3
<1>5. PICK out, more :
         /\ JudgeAlso(out, more)
         /\ out = "ok" => stored' = st /\ Go(i, Tailed(o), {o.from}) /\ ShowPath(a, ms)
  BY <1>2, <1>4 DEF DeleteOne
<1>6. out = "ok" /\ excuse \subseteq excuse'
  BY <1>5, JudgedCalm
<1>7. stored' = st /\ Go(i, Tailed(o), {o.from}) /\ ShowPath(a, ms) /\ puts' = puts
  BY <1>5, <1>6 DEF DeleteOne
<1>8. \A p \in Path : ms[p] = None \/ (ms[p] = models[p] /\ stored'[p] = stored[p])
  BY <1>1, <1>3, <1>4, <1>7 DEF Owned
<1>9. a = None => active = None
  BY <1>3, <1>4, PathAssumption
<1>10. Rendered(ms) /\ (UNCHANGED <<active, models>> => models = ms \/ active = None)
  BY <1>1, <1>4, <1>7, <1>9, ShownPath
<1>11. o.kind # "accept" /\ Now(o) \notin Gets \cup {"put"}
  BY <1>2, <1>3 DEF Gets
<1> QED
  BY <1>2, <1>6, <1>7, <1>8, <1>10, <1>11, ClosedShown

LEMMA DeleteUnderShown == ASSUME Typed, Shown, NEW i \in DOMAIN ops, DeleteUnder(i) PROVE Shown'
<1> SUFFICES ASSUME Calm' PROVE Shown'
  BY DEF Shown
<1>1. OpsTyped /\ PageTyped /\ Owned(stored) /\ Owned(models) /\ active \in Path \cup {None}
  BY DEF Typed, ServerTyped, PageTyped
<1>2. PICK o : o = ops[i] /\ Sound(o) /\ o \in OpSet /\ Now(o) = "delDir"
  BY <1>1, OpFacts DEF DeleteUnder
<1>3. o.kind = "deleteFolder"
  BY <1>2, Turns DEF Sound, Now
<1>4. PICK under, ms, st :
         /\ under = {p \in Path : PathUnderFolder(p, o.from)}
         /\ ms = Without(models, under) /\ st = Without(stored, under)
  OBVIOUS
<1>5. PICK out :
         /\ JudgeAlso(out, {})
         /\ out = "ok" => stored' = st /\ Go(i, Tailed(o), under) /\ ShowPath(active, ms)
  BY <1>2, <1>4 DEF DeleteUnder, Judge
<1>6. out = "ok" /\ excuse \subseteq excuse'
  BY <1>5, JudgedCalm
<1>7. stored' = st /\ Go(i, Tailed(o), under) /\ ShowPath(active, ms) /\ puts' = puts
  BY <1>5, <1>6 DEF DeleteUnder
<1>8. \A p \in Path : ms[p] = None \/ (ms[p] = models[p] /\ stored'[p] = stored[p])
  BY <1>1, <1>4, <1>7 DEF Owned, Without
<1>9. Rendered(ms) /\ (UNCHANGED <<active, models>> => models = ms \/ active = None)
  BY <1>1, <1>7, ShownPath
<1>10. o.kind # "accept" /\ Now(o) \notin Gets \cup {"put"}
  BY <1>2, <1>3 DEF Gets
<1> QED
  BY <1>2, <1>6, <1>7, <1>8, <1>9, <1>10, ClosedShown

\* What neither stores nor edits leaves the shown file as it is.
LEMMA ReadShown ==
  ASSUME Typed, Shown, NEW i \in DOMAIN ops, excuse \subseteq excuse', UNCHANGED <<stored, puts>>,
         ops[i].kind # "accept", Rendered(models),
         \/ Go(i, Dropped(ops[i]), {})
         \/ Go(i, Tailed(ops[i]), {}) /\ Now(ops[i]) \notin Gets \cup {"put"}
         \/ \E q : Go(i, q, {}) /\ (q.todo # <<>> => Sound(q))
  PROVE  Shown'
<1>1. OpsTyped
  BY DEF Typed
<1>2. ~ Accepts(ops[i], active)
  BY DEF Accepts
<1>3. Awaited(active)
  BY <1>1, <1>2, OthersAwaited
<1> QED
  BY <1>3, PageShown

LEMMA CheckMainShown == ASSUME Typed, Shown, NEW i \in DOMAIN ops, CheckMain(i) PROVE Shown'
<1> SUFFICES ASSUME Calm' PROVE Shown'
  BY DEF Shown
<1>2. PICK o : o = ops[i] /\ Sound(o) /\ Now(o) = "check" /\ o \in OpSet
  BY OpFacts DEF CheckMain, Typed
<1>3. PICK out \in Answers, nf \in SUBSET Path, m \in Path, a \in Path \cup {None} :
        Answered(i, o, out, nf, m, a)
  BY <1>2, CheckMainAnswer
<1>5. PICK q : q = Checked(o, m, a)
  OBVIOUS
<1>6. PICK more :
         /\ JudgeAlso(out, more)
         /\ Go(i, q, {}) \/ Go(i, Dropped(o), {})
         /\ ShowPath(a, models) \/ UNCHANGED <<active, models, load, timer>>
  BY <1>3, <1>5 DEF Answered
<1>7. out = "ok" /\ excuse \subseteq excuse'
  BY <1>6, JudgedCalm
<1>8. Sound(q) /\ o.kind = "deleteFolder"
  <2>1. Sound(o) /\ Now(o) = "check"
    BY <1>2
  <2>2. Left(o.kind, o.todo) /\ Head(o.todo) = "check"
    BY <1>2 DEF Sound, Now
  <2>3. Sound(q)
    BY <1>5, <2>1, CheckedSound
  <2>4. o.kind = "deleteFolder"
    BY <2>2, Turns
  <2> QED
    BY <2>3, <2>4
<1>9. Go(i, Dropped(o), {}) \/ Go(i, q, {})
  BY <1>6
<1>10. Rendered(models)
  BY <1>6, RendersShow DEF Typed, Rendered
<1>11. UNCHANGED <<stored, puts>>
  BY DEF CheckMain
<1> QED
  BY <1>2, <1>7, <1>8, <1>9, <1>10, <1>11, ReadShown

LEMMA PatchMainShown == ASSUME Typed, Shown, NEW i \in DOMAIN ops, PatchMain(i) PROVE Shown'
<1> SUFFICES ASSUME Calm' PROVE Shown'
  BY DEF Shown
<1>1. PICK o : o = ops[i] /\ Sound(o) /\ Now(o) = "patch" /\ o \in OpSet /\ o.to \in Path
  BY OpFacts DEF PatchMain, Sound, Typed
<1>2. PICK a \in Path \cup {None} : a = IF o.next = None THEN active ELSE o.next
  BY <1>1 DEF OpSet, Typed, PageTyped
<1>3. PICK out :
         /\ JudgeAlso(out, {})
         /\ Go(i, IF out = "ok" THEN Tailed(o) ELSE Dropped(o), {})
         /\ IF out = "ok" THEN ShowMain(o.to, a, models) ELSE ShowPath(a, models)
  BY <1>1, <1>2 DEF PatchMain, Judge
<1>4. out = "ok" /\ excuse \subseteq excuse'
  BY <1>3, JudgedCalm
<1>5. Rendered(models) /\ Go(i, Tailed(o), {})
  BY <1>1, <1>3, <1>4, RendersShow DEF Typed
<1>6. o.kind # "accept" /\ Now(o) \notin Gets \cup {"put"}
  <2>1. o.kind \in {"deleteFolder", "setMain"} \cup Moving
    BY <1>1, Turns DEF Sound, Now
  <2> QED
    BY <1>1, <2>1 DEF Moving, Gets
<1>7. UNCHANGED <<stored, puts>>
  BY DEF PatchMain
<1> QED
  BY <1>1, <1>4, <1>5, <1>6, <1>7, ReadShown

LEMMA LoadMainAgainShown ==
  ASSUME Typed, Shown, NEW i \in DOMAIN ops, LoadMainAgain(i) PROVE Shown'
<1> SUFFICES ASSUME Calm' PROVE Shown'
  BY DEF Shown
<1>1. PICK o : o = ops[i] /\ Sound(o) /\ Now(o) = "main" /\ o \in OpSet
  BY OpFacts DEF LoadMainAgain, Typed
<1>2. PICK out :
         /\ JudgeAlso(out, {})
         /\ Go(i, IF out = "ok" THEN Tailed(o) ELSE Dropped(o), {})
         /\ out = "ok" => ShowProject(main)
  BY <1>1 DEF LoadMainAgain, Judge
<1>3. out = "ok" /\ excuse \subseteq excuse'
  BY <1>2, JudgedCalm
<1>4. PageTyped /\ active \in Path \cup {None} /\ main \in Path
  BY DEF Typed, PageTyped, ServerTyped
<1>5. Rendered(models) /\ Go(i, Tailed(o), {})
  BY <1>2, <1>3, <1>4, ProjectShows
<1>6. o.kind # "accept" /\ Now(o) \notin Gets \cup {"put"}
  <2>1. Left(o.kind, o.todo) /\ Head(o.todo) = "main"
    BY <1>1 DEF Sound, Now
  <2>2. o.kind = "import"
    BY <2>1, Turns
  <2> QED
    BY <1>1, <2>2 DEF Gets
<1>7. UNCHANGED <<stored, puts>>
  BY DEF LoadMainAgain
<1> QED
  BY <1>1, <1>3, <1>5, <1>6, <1>7, ReadShown

\* To show another file is to load it.
LEMMA ElsewhereLoads ==
  ASSUME NEW ms, NEW fs, NEW mp, NEW a, NEW b \in Path, Page(fs, mp, a, b, ms),
         ~ (a = active /\ b = active), a # None
  PROVE  active' = b /\ (load' # None \/ b \in Binary)
<1>1. Show(a, b, ms)
  BY PathAssumption DEF Page
<1>2. CASE b \in Binary
  BY <1>1, <1>2 DEF Show
<1>3. CASE b \notin Binary
  <2>1. load' = [path |-> b, got |-> None] /\ active' = b
    BY <1>1, <1>3 DEF Show
  <2>2. load' \in [path : Path, got : Text \cup {None}]
    BY <2>1
  <2> QED
    BY <2>1, <2>2, PathAssumption
<1> QED
  BY <1>2, <1>3

LEMMA LoadFilesAgainShown ==
  ASSUME Typed, Shown, NEW i \in DOMAIN ops, LoadFilesAgain(i) PROVE Shown'
<1> SUFFICES ASSUME Calm' PROVE Shown'
  BY DEF Shown
<1>1. PICK o : o = ops[i] /\ Sound(o) /\ Now(o) = "list" /\ o \in OpSet
  BY OpFacts DEF LoadFilesAgain, Typed
<1>2. PICK ms : ms = Inserted(o)
  OBVIOUS
<1>3. PICK out \in Answers, fs \in SUBSET Path :
         /\ JudgeAlso(out, {})
         /\ Go(i, Tailed(o), {}) \/ out = "refused"
         /\ out = "ok" => IF o.kind \in {"newFile", "upload", "image"} THEN ShowList(fs, o.to, ms)
                          ELSE ShowList(fs, active, models)
  BY <1>1, <1>2, Listing DEF LoadFilesAgain, Judge
<1>4. out = "ok" /\ excuse \subseteq excuse'
  BY <1>3, JudgedCalm
<1>5. PageTyped /\ active \in Path \cup {None} /\ mainPath \in Path
  BY DEF Typed, PageTyped
<1>6. UNCHANGED <<stored, puts>> /\ o.kind # "accept"
  BY <1>1 DEF LoadFilesAgain
<1>7. CASE o.kind # "image"
  <2>1. ms = models
    BY <1>2, <1>7 DEF Inserted
  <2>2. o.kind \in {"newFile", "upload"} => o.to \in Path
    BY <1>1 DEF Sound
  <2>3. ShowList(fs, active, models) \/ (ShowList(fs, o.to, models) /\ o.to \in Path)
    BY <1>3, <1>4, <1>7, <2>1, <2>2
  <2>4. Rendered(models)
    BY <1>5, <2>3, RendersShow
  <2> QED
    BY <1>1, <1>3, <1>4, <1>6, <2>4, ReadShown DEF Gets
<1>8. CASE o.kind = "image"
  <2>1. o.to \in Path /\ o.to \in Binary
    BY <1>1, <1>8 DEF Sound
  <2>2. PICK b \in Path : b = Settle(fs, mainPath, o.to)
    BY <1>5, <2>1, SettleIn, PathAssumption
  <2>3. Page(fs, mainPath, o.to, b, ms)
    BY <1>3, <1>4, <1>8, <2>2 DEF ShowList
  <2>4. CASE ~ (o.to = active /\ b = active)
    BY <2>1, <2>3, <2>4, ElsewhereLoads, PathAssumption DEF Shown
  <2>5. CASE o.to = active /\ b = active
    <3>1. Show(o.to, b, ms)
      BY <2>1, <2>2, <2>3, PathAssumption DEF Page
    <3>2. active' \in Binary
      BY <2>1, <2>5, <3>1 DEF Show
    <3> QED
      BY <3>2 DEF Shown
  <2> QED
    BY <2>4, <2>5
<1> QED
  BY <1>7, <1>8

LEMMA UnpackShown == ASSUME Typed, Shown, NEW i \in DOMAIN ops, Unpack(i) PROVE Shown'
<1> SUFFICES ASSUME Calm' PROVE Shown'
  BY DEF Shown
<1>1. PICK o : o = ops[i] /\ Sound(o) /\ Now(o) = "unpack" /\ o \in OpSet
  BY OpFacts DEF Unpack, Typed
<1>2. o.kind \in {"import", "restore"}
  BY <1>1, Turns DEF Sound, Now
<1>3. PICK out, more :
         /\ JudgeAlso(out, more) /\ more = IF active \in Archive THEN {"replaced"} ELSE {}
         /\ out = "ok" => /\ stored' = [p \in Path |-> Written(o.texts, p)]
                          /\ Go(i, Tailed(o), Archive)
  BY <1>1 DEF Unpack
<1>4. out = "ok" /\ excuse \subseteq excuse' /\ active \notin Archive
  <2>1. out = "ok" /\ excuse \subseteq excuse' /\ more \cap {"fault", "overtaken", "other", "replaced"} = {}
    BY <1>3, JudgedCalm
  <2> QED
    BY <1>3, <2>1
<1>5. UNCHANGED <<active, models, load, timer, puts>>
  BY DEF Unpack
<1>6. Rendered(models)
  BY <1>5 DEF Rendered
<1>7. active \in Path => stored'[active] = stored[active]
  <2>1. \A j \in DOMAIN o.texts : o.texts[j].path # active
    BY <1>1, <1>2, <1>4 DEF Sound
  <2>2. o.texts \in Seq(Sends)
    BY <1>1 DEF OpSet
  <2>3. active \in Path => Written(o.texts, active) = stored[active]
    BY <2>1, <2>2, WrittenOwned
  <2> QED
    BY <1>3, <1>4, <2>3
<1>8. Awaited(active)
  <2>1. ~ Accepts(o, active) /\ Now(o) \notin Gets \cup {"put"}
    BY <1>1, <1>2 DEF Accepts, Gets
  <2> QED
    BY <1>1, <1>3, <1>4, <2>1, OthersAwaited DEF Typed
<1>9. active \in Allowed => active \in Path
  BY PathAssumption
<1> QED
  BY <1>4, <1>5, <1>6, <1>7, <1>8, <1>9, PageShown

LEMMA RestoreEndsShown == ASSUME Typed, Shown, NEW i \in DOMAIN ops, RestoreEnds(i) PROVE Shown'
<1> SUFFICES ASSUME Calm' PROVE Shown'
  BY DEF Shown
<1>1. PICK out : JudgeAlso(out, {}) /\ (out = "ok" => NewPage)
  BY DEF RestoreEnds, Judge
<1>2. NewPage
  BY <1>1, JudgedCalm
<1> QED
  BY <1>2, PathAssumption DEF NewPage, Shown

LEMMA AcceptEndsShown == ASSUME Typed, Shown, NEW i \in DOMAIN ops, AcceptEnds(i) PROVE Shown'
<1> SUFFICES ASSUME Calm' PROVE Shown'
  BY DEF Shown
<1>1. PICK o : o = ops[i] /\ Sound(o) /\ o \in OpSet
  BY OpFacts DEF Typed
<1>2. PICK set, ms :
         /\ set = {p \in {o.texts[j].path : j \in DOMAIN o.texts} \ Binary : models[p] # None}
         /\ ms = [p \in Path |-> IF p \in set THEN Written(o.texts, p) ELSE models[p]]
  OBVIOUS
<1>3. PICK out \in Answers, fs \in SUBSET Path :
         /\ JudgeAlso(out, {}) /\ Go(i, Dropped(o), {})
         /\ out = "ok" => IF Settle(fs, mainPath, active) = active /\ active \in set
                          THEN timer' = active /\ active' = active
                          ELSE ShowList(fs, active, ms)
  <2>1. PICK out \in Answers : \E fs \in Listings(out) :
          /\ JudgeAlso(out, {}) /\ Go(i, Dropped(o), {})
          /\ IF out = "refused"
             THEN UNCHANGED <<proposals, files, mainPath, active, models, load, timer>>
             ELSE /\ proposals' = NoProposals
                  /\ IF Settle(fs, mainPath, active) = active /\ active \in set
                     THEN /\ files' = fs /\ models' = ms /\ timer' = active
                          /\ UNCHANGED <<mainPath, active, load>>
                     ELSE ShowList(fs, active, ms)
    BY <1>1, <1>2 DEF AcceptEnds, Judge
  <2>2. PICK fs \in Listings(out) :
          /\ JudgeAlso(out, {}) /\ Go(i, Dropped(o), {})
          /\ out = "ok" => IF Settle(fs, mainPath, active) = active /\ active \in set
                           THEN timer' = active /\ active' = active
                           ELSE ShowList(fs, active, ms)
    BY <2>1
  <2>3. fs \in SUBSET Path
    BY Listing
  <2> QED
    BY <2>2, <2>3
<1>4. out = "ok" /\ excuse \subseteq excuse'
  BY <1>3, JudgedCalm
<1>5. PageTyped /\ active \in Path \cup {None} /\ mainPath \in Path
  BY DEF Typed, PageTyped
<1>6. UNCHANGED <<stored, puts>>
  BY DEF AcceptEnds
<1>7. PICK b \in Path \cup {None} : b = Settle(fs, mainPath, active) /\ (active # None => b \in Path)
  BY <1>5, SettleIn
<1>8. CASE b = active /\ active \in set
  <2>1. timer' = active /\ active' = active
    BY <1>3, <1>4, <1>7, <1>8
  <2> QED
    BY <2>1, PathAssumption DEF Shown
<1>9. CASE ~ (b = active /\ active \in set)
  <2>1. ShowList(fs, active, ms) /\ Page(fs, mainPath, active, b, ms)
    BY <1>3, <1>4, <1>7, <1>9 DEF ShowList
  <2>2. CASE b = active /\ active \in Allowed \ Binary /\ models[active] # None
    <3>1. active \in Path /\ active \notin set
      BY <1>9, <2>2, PathAssumption
    <3>2. ms[active] = models[active]
      BY <1>2, <3>1
    <3>3. ~ Accepts(o, active)
      BY <1>2, <2>2, <3>1 DEF Accepts
    <3>4. Awaited(active)
      BY <1>1, <1>3, <3>3, OthersAwaited DEF Typed
    <3>5. Rendered(ms)
      BY <1>5, <2>1, RendersShow
    <3> QED
      BY <1>4, <1>6, <3>2, <3>4, <3>5, PageShown
  <2>3. CASE b = active /\ active \in Path /\ ~ (active \in Allowed \ Binary /\ models[active] # None)
    <3>1. active # None
      BY <2>3, PathAssumption
    <3>2. Show(active, active, ms)
      BY <2>1, <2>3, <3>1 DEF Page
    <3>3. active' = active /\ models' = ms
      BY <3>2 DEF Show
    <3>4. active \notin set => ms[active] = models[active]
      BY <1>2, <2>3
    <3>5. active \in set => active \notin Allowed
      BY <1>2, <2>3
    <3> QED
      BY <2>3, <3>3, <3>4, <3>5 DEF Shown
  <2>4. CASE active \in Path /\ b # active
    <3>1. active # None /\ b \in Path
      BY <1>7, <2>4, PathAssumption
    <3>2. active' = b /\ (load' # None \/ b \in Binary)
      BY <2>1, <2>4, <3>1, ElsewhereLoads
    <3> QED
      BY <3>2 DEF Shown
  <2>5. CASE active = None
    <3>1. CASE b = None
      <4>1. active' = active
        BY <2>1, <3>1 DEF Page
      <4> QED
        BY <2>5, <4>1, PathAssumption DEF Shown
    <3>2. CASE b # None
      <4>1. Show(b, b, ms) /\ b \in Path
        BY <2>1, <2>5, <3>2 DEF Page
      <4>2. Page(fs, mainPath, b, b, ms)
        BY <2>1, <3>2, <4>1 DEF Page
      <4>3. active' = b /\ (load' # None \/ b \in Binary)
        BY <2>5, <3>2, <4>1, <4>2, ElsewhereLoads
      <4> QED
        BY <4>3 DEF Shown
    <3> QED
      BY <3>1, <3>2
  <2> QED
    BY <1>5, <2>2, <2>3, <2>4, <2>5
<1> QED
  BY <1>7, <1>8, <1>9

\* What starts, offers or refuses leaves page and server as they are.
LEMMA QuietShown ==
  ASSUME Typed, Shown, Begins \/ RejectAgentProposals \/ (\E ps \in SUBSET env.names : Propose(ps)) \/ UNCHANGED vars
  PROVE  Shown'
<1>1. UNCHANGED <<stored, puts, active, models, load, timer>> /\ excuse \subseteq excuse'
  BY DEF Begins, Start, RejectAgentProposals, Propose, vars, server, page
<1>2. Rendered(models)
  BY <1>1 DEF Rendered
<1>3. Awaited(active)
  <2>1. CASE Begins
    <3>1. PICK o : Starts(o) /\ Start(o)
      BY <2>1 DEF Begins
    <3>2. OpsTyped /\ Sound(o)
      BY <3>1 DEF Typed, Starts
    <3>3. /\ DOMAIN ops' = 1..(Len(ops) + 1)
          /\ DOMAIN ops = 1..Len(ops) /\ Len(ops) \in Nat
          /\ \A j \in DOMAIN ops : ops'[j] = ops[j]
      BY <3>1, <3>2, Started
    <3>4. \A j \in DOMAIN ops : j \in DOMAIN ops'
      BY <3>3
    <3> QED
      BY <3>3, <3>4 DEF Awaited
  <2>2. CASE ops' = ops
    BY <2>2 DEF Awaited
  <2> QED
    BY <2>1, <2>2 DEF RejectAgentProposals, Propose, vars
<1> QED
  BY <1>1, <1>2, <1>3, PageShown

LEMMA NextShown == ASSUME Typed, Shown, [Next]_vars PROVE Shown'
<1>1. CASE Command
  BY <1>1, Commands, EditsShown, LoadsShown, QuietShown
<1>2. CASE Outside
  BY <1>2, EditsShown, QuietShown DEF Outside
<1>3. CASE OperationStep
  <2>1. PICK i \in DOMAIN ops :
          \/ PutFile(i) \/ GetFile(i) \/ DeleteOld(i) \/ DeleteOne(i) \/ DeleteUnder(i)
          \/ CheckMain(i) \/ PatchMain(i) \/ Unpack(i) \/ LoadMainAgain(i)
          \/ LoadFilesAgain(i) \/ RestoreEnds(i) \/ AcceptEnds(i)
    BY <1>3 DEF OperationStep
  <2> QED
    BY <2>1, PutFileShown, GetFileShown, DeleteOldShown, DeleteOneShown, DeleteUnderShown,
       CheckMainShown, PatchMainShown, UnpackShown, LoadMainAgainShown, LoadFilesAgainShown,
       RestoreEndsShown, AcceptEndsShown
<1> QED
  BY <1>1, <1>2, <1>3, LoadsShown, EditsShown, PutLandsShown, QuietShown DEF Next

\* When the page has nothing left to do, the editor shows what the server holds,
\* whatever was typed, loaded, renamed, moved, deleted or accepted meanwhile.
THEOREM FilesSaved == Spec => []SavedAtRest
<1>1. Init => Typed /\ Shown
  <2>1. Init => Shown
    BY PathAssumption DEF Init, Shown
  <2> QED
    BY <2>1, InitTyped
<1>2. Typed /\ Shown /\ [Next]_vars => Typed' /\ Shown'
  BY NextTyped, NextShown
<1>3. Shown => SavedAtRest
  <2> SUFFICES ASSUME Shown, SavedAtRest!1 PROVE stored[active] = models[active]
    BY DEF SavedAtRest
  <2>1. Ends(active, models[active])
    BY DEF Shown, Calm
  <2>2. DOMAIN puts = {}
    OBVIOUS
  <2> QED
    BY <2>1, <2>2 DEF Ends
<1> QED
  BY <1>1, <1>2, <1>3, PTL DEF Spec
================================================================================
