----------------------------- MODULE EngineProofs -----------------------------
(***************************************************************************)
(* Proofs about Engine: for any files, names, limits and lengths of a day. *)
(***************************************************************************)
EXTENDS Engine, FoldLemmas, SequenceTheorems

-----------------------------------------------------------------------------
(***************************************************************************)
(* Types.                                                                  *)
(***************************************************************************)
\* Functions whose domain is part of A, as the maps of the code.
Maps(A, B) == UNION {[D -> B] : D \in SUBSET A}

Classes == Mod!Class
Pairs == {p \in SUBSET Ino : Cardinality(p) = 2}
Opened == [ino : Ino, day : Nat]
Checked == [ino : Ino, class : Classes, at : Nat]
Streak == [current : Nat, longest : Nat, last : Nat]
Days == [1 .. 2 * Week -> Nat]

Memories ==
  [sessions : Seq(Seq(Ino)), touched : Seq(Ino), total : Nat, opens : Maps(Ino, Nat),
   streaks : Maps(Ino, Streak), daily : Maps(Ino, Days), last_day : Nat,
   names : Maps(Ino, Name), pairs : Maps(Pairs, Nat),
   history : [opens : Seq(Opened), ended : Seq(Seq(Ino))], cut : SUBSET Ino]

Indexes ==
  [files : Maps(Ino, [name : Name, words : SUBSET Word]), df : [Word -> Nat]]

Guards ==
  [baseline : Maps(Ino, Classes), recent : Maps(Ino, Seq(Nat)), threats : Nat,
   writes : Seq(Checked), level : {"none", "pattern", "critical", "extension", "warning"}]

Counts == Maps(Ino, Nat)
Transitions == Maps(Ino \X Ino, Nat)

\* The engine's state; of its last three fields nothing is said.
IsAI(a) ==
  a \in [last : Ino \cup {0}, acc : Maps(Ino, SUBSET Word), markov : Transitions,
         scores : Counts, net : [vocab : Seq(Ino), recent : Seq(Ino)], memory : Memories,
         index : Indexes, guard : Guards, opens : Counts, writes : Counts, computed_at : Nat,
         projects : {a.projects}, answer : {a.answer}, brief : {a.brief}]

\* What the handlers send: something about a file, a search, and the last two.
FileEvent(kind, classes) ==
  [kind : {kind}, ino : Ino, name : Name, words : SUBSET Word, class : classes,
   apart : BOOLEAN]
OwnEvent(kind) ==
  [kind : {kind}, ino : {0}, name : {<<>>}, words : SUBSET Word, class : {""}, apart : {TRUE}]
Events ==
  FileEvent("open", {""}) \cup FileEvent("write", Classes) \cup FileEvent("close", {""})
    \cup FileEvent("delete", {""}) \cup OwnEvent("query") \cup OwnEvent("end")
    \cup OwnEvent("sync")

LEMMA MapsIs ==
  \A A, B, f : f \in Maps(A, B) <=> DOMAIN f \subseteq A /\ f \in [DOMAIN f -> B]
BY DEF Maps

LEMMA WithIs ==
  ASSUME NEW f, NEW x, NEW v
  PROVE  /\ DOMAIN With(f, x, v) = DOMAIN f \cup {x}
         /\ With(f, x, v)[x] = v
         /\ \A y \in DOMAIN f \ {x} : With(f, x, v)[y] = f[y]
         /\ \A A, B : f \in Maps(A, B) /\ x \in A /\ v \in B => With(f, x, v) \in Maps(A, B)
<1>1. DOMAIN With(f, x, v) = DOMAIN f \cup {x}
  BY DEF With
<1>2. With(f, x, v)[x] = v /\ \A y \in DOMAIN f \ {x} : With(f, x, v)[y] = f[y]
  BY DEF With
<1>3. ASSUME NEW A, NEW B, f \in Maps(A, B), x \in A, v \in B
      PROVE  With(f, x, v) \in Maps(A, B)
  <2>1. DOMAIN f \cup {x} \in SUBSET A /\ \A y \in DOMAIN f : f[y] \in B
    BY <1>3, MapsIs
  <2>2. With(f, x, v) \in [DOMAIN f \cup {x} -> B]
    BY <1>3, <2>1 DEF With
  <2> QED
    BY <2>1, <2>2 DEF Maps
<1> QED
  BY <1>1, <1>2, <1>3

LEMMA ValueWith ==
  \A f, x, v, y, d :
    /\ Value(With(f, x, v), y, d) = IF y = x THEN v ELSE Value(f, y, d)
    /\ y \in DOMAIN With(f, x, v) <=> y \in DOMAIN f \/ y = x
    /\ y \in DOMAIN f /\ y # x => With(f, x, v)[y] = f[y]
    /\ With(f, x, v)[x] = v
BY DEF Value, With

LEMMA WithoutIs ==
  ASSUME NEW f, NEW x
  PROVE  /\ DOMAIN Without(f, x) = DOMAIN f \ {x}
         /\ \A y \in DOMAIN f \ {x} : Without(f, x)[y] = f[y]
         /\ \A A, B : f \in Maps(A, B) => Without(f, x) \in Maps(A, B)
<1>1. ASSUME NEW A, NEW B, f \in Maps(A, B) PROVE  Without(f, x) \in Maps(A, B)
  <2>1. DOMAIN f \ {x} \in SUBSET A /\ \A y \in DOMAIN f : f[y] \in B
    BY <1>1, MapsIs
  <2>2. Without(f, x) \in [DOMAIN f \ {x} -> B]
    BY <1>1, <2>1 DEF Without
  <2> QED
    BY <2>1, <2>2 DEF Maps
<1> QED
  BY <1>1 DEF Without

LEMMA ValueIs ==
  ASSUME NEW A, NEW B, NEW f \in Maps(A, B), NEW x, NEW d \in B
  PROVE  Value(f, x, d) \in B
BY MapsIs DEF Value

LEMMA CountedIs ==
  ASSUME NEW A, NEW f \in Maps(A, Nat), NEW x \in A
  PROVE  Counted(f, x) \in Maps(A, Nat)
<1>1. Value(f, x, 0) \in Nat
  BY ValueIs
<1>2. Value(f, x, 0) + 1 \in Nat
  BY <1>1
<1> QED
  BY <1>2, WithIs DEF Counted

LEMMA NoMap == \A A, B : <<>> \in Maps(A, B)
<1> TAKE A, B
<1>1. <<>> \in [{} -> B] /\ {} \in SUBSET A
  OBVIOUS
<1> QED
  BY <1>1 DEF Maps

\* The parts of the engine have the same helpers.
LEMMA SameHelpers ==
  \A f, x, v :
    /\ Mod!With(f, x, v) = With(f, x, v) /\ Mod!Value(f, x, v) = Value(f, x, v)
    /\ Mod!Without(f, x) = Without(f, x)
    /\ Mem!With(f, x, v) = With(f, x, v) /\ Mem!Value(f, x, v) = Value(f, x, v)
    /\ Jar!Value(f, x, v) = Value(f, x, v)
BY DEF Mod!With, Mod!Value, Mod!Without, Mem!With, Mem!Value, Jar!Value, With, Value, Without

LEMMA Constants ==
  /\ Ino \subseteq Nat \ {0, 1} /\ IsFiniteSet(Ino)
  /\ DayLength \in Nat \ {0} /\ Week \in Nat \ {0} /\ PairFiles \in Nat /\ MaxSessions \in Nat
  /\ SavedFiles \in Nat /\ SavedKeys \in Nat /\ MaxEntries \in Nat /\ MaxTracked \in Nat
  /\ Window \in Nat /\ PatternCount \in Nat /\ InputSize \in Nat
  /\ NeglectDays \in Nat /\ NeglectFiles \in Nat /\ WarmFiles \in Nat
BY EngineAssumption

LEMMA TodayIs == now \in Nat => Today \in Nat
BY Constants DEF Today

-----------------------------------------------------------------------------
(***************************************************************************)
(* What each event does to the engine.                                     *)
(***************************************************************************)
\* All but the fields in F are the same.
Fields == {"last", "acc", "markov", "scores", "net", "memory", "index", "guard", "opens",
           "writes", "computed_at", "projects", "answer", "brief"}
SameBut(a, b, F) == \A x \in Fields \ F : b[x] = a[x]

LEMMA ScoreIs ==
  ASSUME NEW s \in Counts, NEW i \in Ino, NEW t \in Mod!record_score(s, i)
  PROVE  t \in Counts
<1> DEFINE more(u) == With(u, i, Value(u, i, 0) + 1)
<1>1. \A u \in Counts : more(u) \in Counts
  BY CountedIs DEF Counted, Counts
<1>2. \A v : Without(s, v) \in Counts
  BY WithoutIs DEF Counts
<1>3. t = more(s) \/ \E v \in DOMAIN s : t = more(Without(s, v))
  BY SameHelpers DEF Mod!record_score
<1> HIDE DEF more
<1> QED
  BY <1>1, <1>2, <1>3

LEMMA TransitionIs ==
  ASSUME NEW t \in Transitions, NEW i \in Ino, NEW j \in Ino
  PROVE  Mod!record_transition(t, i, j) \in Transitions
<1>1. <<i, j>> \in Ino \X Ino
  OBVIOUS
<1>2. With(t, <<i, j>>, Value(t, <<i, j>>, 0) + 1) \in Transitions
  BY <1>1, CountedIs DEF Counted, Transitions
<1> QED
  BY <1>2, SameHelpers DEF Mod!record_transition

LEMMA LearnIs ==
  ASSUME NEW n \in [vocab : Seq(Ino), recent : Seq(Ino)], NEW i \in Ino
  PROVE  Mod!learn(n, i) \in [vocab : Seq(Ino), recent : Seq(Ino)]
<1> DEFINE seen == Append(n.recent, i)
<1>1. seen \in Seq(Ino) /\ seen # <<>> /\ Append(n.vocab, i) \in Seq(Ino)
  BY AppendProperties
<1>2. Tail(seen) \in Seq(Ino)
  BY <1>1, HeadTailProperties
<1>3. Mod!register(n, i) \in [vocab : Seq(Ino), recent : Seq(Ino)]
  BY <1>1 DEF Mod!register
<1> QED
  BY <1>1, <1>2, <1>3 DEF Mod!learn

\* The windows of a memory that has moved on to a day.
IsAdvanced(m, today, t) ==
  /\ t = [m EXCEPT !.daily = t.daily, !.last_day = t.last_day]
  /\ DOMAIN t.daily = DOMAIN m.daily
  /\ t.last_day = IF today <= m.last_day THEN m.last_day ELSE today
  /\ \A i \in DOMAIN m.daily, k \in 1 .. 2 * Week :
       LET j == k + (t.last_day - m.last_day)
       IN  t.daily[i][k] = IF j <= 2 * Week THEN m.daily[i][j] ELSE 0

LEMMA AdvancedIs ==
  ASSUME NEW m \in Memories, NEW today \in Nat
  PROVE  Mem!Advanced(m, today) \in Memories /\ IsAdvanced(m, today, Mem!Advanced(m, today))
<1> DEFINE d == today - m.last_day
           moved(c) == [k \in 1 .. 2 * Week |-> IF k + d <= 2 * Week THEN c[k + d] ELSE 0]
           new == [i \in DOMAIN m.daily |-> moved(m.daily[i])]
<1>1. m.daily \in Maps(Ino, Days) /\ m.last_day \in Nat
  BY DEF Memories
<1>2. DOMAIN m.daily \subseteq Ino /\ \A i \in DOMAIN m.daily : m.daily[i] \in Days
  BY <1>1, MapsIs
<1>3. 2 * Week \in Nat
  BY Constants
<1>4. CASE today <= m.last_day
  <2>1. Mem!Advanced(m, today) = m
    BY <1>4 DEF Mem!Advanced
  <2>2. \A k \in 1 .. 2 * Week : k + (m.last_day - m.last_day) = k /\ k <= 2 * Week
    BY <1>1, <1>3
  <2>3. m = [m EXCEPT !.daily = m.daily, !.last_day = m.last_day]
    BY DEF Memories
  <2>4. IsAdvanced(m, today, m)
    BY <1>4, <2>2, <2>3, Zenon DEF IsAdvanced
  <2> QED
    BY <2>1, <2>4
<1>5. CASE ~(today <= m.last_day)
  <2>1. d \in Nat
    BY <1>1, <1>5
  <2>2. \A c \in Days : moved(c) \in Days
    BY <1>3, <2>1 DEF Days
  <2> DEFINE t == [m EXCEPT !.daily = new, !.last_day = today]
  <2>3. Mem!Advanced(m, today) = t
    BY <1>5 DEF Mem!Advanced
  <2>4. new \in Maps(Ino, Days)
    <3> HIDE DEF moved
    <3>1. new \in [DOMAIN m.daily -> Days]
      BY <1>2, <2>2
    <3> QED
      BY <1>2, <3>1 DEF Maps
  <2>5. \A i \in DOMAIN m.daily, k \in 1 .. 2 * Week :
          new[i][k] = IF k + d <= 2 * Week THEN m.daily[i][k + d] ELSE 0
    BY <1>2 DEF Days
  <2>6. t \in Memories /\ t.daily = new /\ t.last_day = today
        /\ t = [m EXCEPT !.daily = t.daily, !.last_day = t.last_day] /\ DOMAIN new = DOMAIN m.daily
    <3> HIDE DEF new
    <3>1. t \in Memories /\ t.daily = new /\ t.last_day = today
          /\ t = [m EXCEPT !.daily = t.daily, !.last_day = t.last_day]
      BY <2>4 DEF Memories
    <3> QED
      BY <3>1 DEF new
  <2> HIDE DEF t, new
  <2>7. IsAdvanced(m, today, t)
    BY <1>5, <2>5, <2>6 DEF IsAdvanced
  <2> QED
    BY <2>3, <2>6, <2>7
<1> QED
  BY <1>4, <1>5

LEMMA TouchIs ==
  ASSUME NEW s \in Streak, NEW today \in Nat
  PROVE  Mem!touch(s, today) \in Streak
BY DEF Mem!touch, Streak

\* What an open does to the memory.
IsAccessed(m, i, n, today, u) ==
  LET t == Mem!Advanced(m, today)
      c == Value(t.daily, i, [k \in 1 .. 2 * Week |-> 0])
  IN  /\ u.names = With(m.names, i, n)
      /\ u.touched = (IF Contains(m.touched, i) THEN m.touched ELSE Append(m.touched, i))
      /\ u.opens = Counted(m.opens, i)
      /\ u.streaks = With(m.streaks, i, Mem!touch(Value(m.streaks, i, Mem!NewStreak), today))
      /\ u.daily = With(t.daily, i, [c EXCEPT ![2 * Week] = @ + 1])
      /\ u.last_day = t.last_day
      /\ u.history.opens = Append(m.history.opens, [ino |-> i, day |-> today])
      /\ u.history.ended = m.history.ended
      /\ u.sessions = m.sessions /\ u.total = m.total /\ u.pairs = m.pairs /\ u.cut = m.cut

LEMMA AccessIs ==
  ASSUME NEW m \in Memories, NEW i \in Ino, NEW n \in Name, NEW today \in Nat
  PROVE  Mem!record_access(m, i, n, today) \in Memories
         /\ IsAccessed(m, i, n, today, Mem!record_access(m, i, n, today))
<1> DEFINE t == Mem!Advanced(m, today)
           u == Mem!record_access(m, i, n, today)
           c == Value(t.daily, i, [k \in 1 .. 2 * Week |-> 0])
           s == Mem!touch(Value(m.streaks, i, Mem!NewStreak), today)
           touched == IF Contains(m.touched, i) THEN m.touched ELSE Append(m.touched, i)
           names == With(m.names, i, n)
           opens == Counted(m.opens, i)
           streaks == With(m.streaks, i, s)
           daily == With(t.daily, i, [c EXCEPT ![2 * Week] = @ + 1])
           history == Append(m.history.opens, [ino |-> i, day |-> today])
<1>1. t \in Memories /\ t = [m EXCEPT !.daily = t.daily, !.last_day = t.last_day]
  BY AdvancedIs DEF IsAdvanced
<1>2. t.names = m.names /\ t.touched = m.touched /\ t.opens = m.opens /\ t.streaks = m.streaks
      /\ t.history = m.history /\ t.sessions = m.sessions /\ t.total = m.total
      /\ t.pairs = m.pairs /\ t.cut = m.cut
  BY <1>1 DEF Memories
<1>3. u = [t EXCEPT !.names = names, !.touched = touched, !.opens = opens, !.streaks = streaks,
                    !.daily = daily, !.history.opens = history]
  BY <1>2, SameHelpers, ZenonT(40) DEF Mem!record_access, Mem!Contains, Contains, Counted
<1>4. names \in Maps(Ino, Name) /\ opens \in Counts
  BY WithIs, CountedIs DEF Memories, Counts
<1>5. streaks \in Maps(Ino, Streak)
  <2>1. Mem!NewStreak \in Streak
    BY DEF Mem!NewStreak, Streak
  <2>2. Value(m.streaks, i, Mem!NewStreak) \in Streak
    BY <2>1, ValueIs DEF Memories
  <2>3. s \in Streak
    BY <2>2, TouchIs
  <2> QED
    BY <2>3, WithIs DEF Memories
<1>6. daily \in Maps(Ino, Days)
  <2>1. [k \in 1 .. 2 * Week |-> 0] \in Days
    BY DEF Days
  <2>2. c \in Days
    BY <1>1, <2>1, ValueIs DEF Memories
  <2>3. [c EXCEPT ![2 * Week] = @ + 1] \in Days
    BY <2>2, Constants DEF Days
  <2>4. t.daily \in Maps(Ino, Days)
    BY <1>1 DEF Memories
  <2> HIDE DEF t, c
  <2> QED
    BY <2>3, <2>4, WithIs
<1>7. touched \in Seq(Ino) /\ history \in Seq(Opened)
  <2>1. [ino |-> i, day |-> today] \in Opened /\ m.history.opens \in Seq(Opened)
        /\ m.touched \in Seq(Ino)
    BY DEF Opened, Memories
  <2> QED
    BY <2>1, AppendProperties
<1> HIDE DEF t, c, s, touched, names, opens, streaks, daily, history
<1>8. u \in Memories /\ u.names = names /\ u.touched = touched /\ u.opens = opens
      /\ u.streaks = streaks /\ u.daily = daily /\ u.last_day = t.last_day
      /\ u.history = [t.history EXCEPT !.opens = history] /\ u.sessions = t.sessions
      /\ u.total = t.total /\ u.pairs = t.pairs /\ u.cut = t.cut
  <2> HIDE DEF u
  <2> QED
    BY <1>1, <1>3, <1>4, <1>5, <1>6, <1>7 DEF Memories, Counts
<1> HIDE DEF u
<1>9. u.history.opens = history /\ u.history.ended = m.history.ended
  BY <1>2, <1>8 DEF Memories
<1>10. IsAccessed(m, i, n, today, u)
  BY <1>2, <1>8, <1>9 DEF t, c, s, touched, names, opens, streaks, daily, history, IsAccessed
<1> QED
  BY <1>8, <1>10 DEF u

LEMMA OpenIs ==
  ASSUME NEW a, IsAI(a), NEW e \in FileEvent("open", {""}), now \in Nat, NEW b \in OnOpen(a, e)
  PROVE  /\ IsAI(b)
         /\ SameBut(a, b, {"markov", "last", "scores", "net", "memory", "opens"})
         /\ b.memory = Mem!record_access(a.memory, e.ino, e.name, Today)
         /\ b.opens = Counted(a.opens, e.ino)
         /\ b.last = e.ino
         /\ b.markov = IF a.last \in {0, e.ino} THEN a.markov
                       ELSE Mod!record_transition(a.markov, a.last, e.ino)
         /\ b.scores \in Mod!record_score(a.scores, e.ino)
         /\ b.net = Mod!learn(a.net, e.ino)
<1> DEFINE i == e.ino
           markov == IF a.last \in {0, i} THEN a.markov
                     ELSE Mod!record_transition(a.markov, a.last, i)
           net == Mod!learn(a.net, i)
           memory == Mem!record_access(a.memory, i, e.name, Today)
           opens == Counted(a.opens, i)
<1>1. i \in Ino /\ e.name \in Name /\ Today \in Nat
  BY TodayIs DEF FileEvent
<1>2. PICK s \in Mod!record_score(a.scores, i) :
        b = [a EXCEPT !.markov = markov, !.last = i, !.scores = s, !.net = net,
                      !.memory = memory, !.opens = opens]
  BY Zenon DEF OnOpen
<1>3. markov \in Transitions
  BY <1>1, TransitionIs DEF IsAI
<1>4. s \in Counts /\ net \in [vocab : Seq(Ino), recent : Seq(Ino)]
  BY <1>1, ScoreIs, LearnIs DEF IsAI
<1>5. memory \in Memories /\ opens \in Counts
  BY <1>1, AccessIs, CountedIs DEF IsAI, Counts
<1> HIDE DEF markov, net, memory, opens, i
<1>6. /\ b.markov = markov /\ b.last = i /\ b.scores = s /\ b.net = net
      /\ b.memory = memory /\ b.opens = opens /\ IsAI(b)
  BY <1>1, <1>2, <1>3, <1>4, <1>5 DEF IsAI
<1>7. SameBut(a, b, {"markov", "last", "scores", "net", "memory", "opens"})
  BY <1>2 DEF IsAI, SameBut, Fields
<1> QED
  BY <1>6, <1>7 DEF markov, net, memory, opens, i


-----------------------------------------------------------------------------
(***************************************************************************)
(* The loops, as rounds.                                                   *)
(***************************************************************************)
AddRecent(t, s, x) == IF t - x <= Window THEN Append(s, x) ELSE s
Do(loop, s, x) ==
  IF loop.kind = "retain" THEN AddRecent(loop.now, s, x)
  ELSE IF loop.kind = "times" THEN Mod!record_transition(s, loop.from, loop.to)
  ELSE IF loop.kind = "replay" THEN Mod!record_times(s, x, loop.saved[x])
  ELSE IF loop.kind = "index" THEN Mod!index(s, x, loop.files[x].name, loop.files[x].sent.since)
  ELSE Mem!union(s, x)
Looped(loop, s, seq) == FoldLeft(LAMBDA x, y : Do(loop, x, y), s, seq)

\* m is the state after each round.
IsLoop(m, loop, s, seq, n) ==
  /\ m[0] = s /\ Looped(loop, s, seq) = m[n]
  /\ \A k \in 1 .. n : m[k] = Do(loop, m[k - 1], seq[k])

\* A loop whose rounds stay in A has such states.
LEMMA LoopRounds ==
  ASSUME NEW A, NEW loop, NEW n \in Nat, NEW seq, DOMAIN seq = 1 .. n, NEW s \in A,
         \A u \in A : \A k \in 1 .. n : Do(loop, u, seq[k]) \in A
  PROVE  \E m \in [0 .. n -> A] : IsLoop(m, loop, s, seq, n)
<1> DEFINE D == [q \in A \X (1 .. n) |-> Do(loop, q[1], seq[q[2]])]
           Rec(h) == h = [t \in SUBSET (1 .. n) |->
                            IF t = {} THEN s ELSE Do(loop, h[t \ {Max(t)}], seq[Max(t)])]
           h == CHOOSE g : Rec(g)
<1>1. D \in [A \X (1 .. n) -> A]
  OBVIOUS
<1>2. PICK g \in [SUBSET (1 .. n) -> A] : IsFold(g, n, s, D)
  <2> HIDE DEF D
  <2> QED
    BY <1>1, FoldDefined, Zenon
<1>3. Rec(g)
  <2>1. ASSUME NEW t \in SUBSET (1 .. n), t # {}
        PROVE  D[<<g[t \ {Max(t)}], Max(t)>>] = Do(loop, g[t \ {Max(t)}], seq[Max(t)])
    <3>1. Max(t) \in 1 .. n /\ g[t \ {Max(t)}] \in A
      BY <2>1, MaxIn
    <3> QED
      BY <3>1
  <2> HIDE DEF D
  <2> QED
    BY <1>2, <2>1 DEF IsFold
<1>4. Rec(h)
  BY <1>3, Zenon
<1>5. Looped(loop, s, seq) = h[1 .. n]
  BY DEF Looped, FoldLeft, MapThenFoldSet
<1>6. h[{}] = s
  BY <1>4
<1>7. ASSUME NEW t \in SUBSET (1 .. n), t # {}, h[t \ {Max(t)}] \in A
      PROVE  h[t] = D[<<h[t \ {Max(t)}], Max(t)>>]
  <2>1. Max(t) \in 1 .. n
    BY <1>7, MaxIn
  <2>2. D[<<h[t \ {Max(t)}], Max(t)>>] = Do(loop, h[t \ {Max(t)}], seq[Max(t)])
    <3> HIDE DEF h
    <3> QED
      BY <1>7, <2>1
  <2> HIDE DEF h, D
  <2> QED
    BY <1>4, <1>7, <2>2
<1> HIDE DEF h
<1>8. PICK m \in [0 .. n -> A] : IsRounds(m, h, n, s, D)
  <2>1. IsFoldIn(h, n, A, s, D)
    BY <1>6, <1>7 DEF IsFoldIn
  <2> HIDE DEF D
  <2> QED
    BY <1>1, <2>1, FoldRounds, Zenon
<1>9. ASSUME NEW k \in 1 .. n PROVE m[k] = Do(loop, m[k - 1], seq[k])
  <2>1. k - 1 \in 0 .. n
    OBVIOUS
  <2>2. m[k - 1] \in A
    BY <2>1
  <2>3. D[<<m[k - 1], k>>] = Do(loop, m[k - 1], seq[k])
    BY <2>2
  <2> QED
    BY <1>8, <2>3 DEF IsRounds
<1>10. m[0] = s /\ h[1 .. n] = m[n]
  BY <1>8 DEF IsRounds
<1> HIDE DEF D, Rec
<1> QED
  BY <1>5, <1>8, <1>9, <1>10 DEF IsLoop

Retaining(t) == [kind |-> "retain", now |-> t]

LEMMA RetainLoop ==
  \A g, i, t : Mod!Retained(g, i, t) = Looped(Retaining(t), <<>>, Value(g.recent, i, <<>>))
<1> TAKE g, i, t
<1> DEFINE seq == Mod!Value(g.recent, i, <<>>)
           A(f) == f = [u \in SUBSET DOMAIN seq |->
                          IF u = {} THEN <<>> ELSE AddRecent(t, f[u \ {Max(u)}], seq[Max(u)])]
           B(f) == f = [u \in SUBSET DOMAIN seq |->
                          IF u = {} THEN <<>> ELSE Do(Retaining(t), f[u \ {Max(u)}], seq[Max(u)])]
<1>1. \A s, x : Do(Retaining(t), s, x) = AddRecent(t, s, x)
  BY DEF Do, Retaining
<1>2. Mod!Retained(g, i, t) = (CHOOSE f : A(f))[DOMAIN seq]
  BY DEF Mod!Retained, Mod!FoldLeft, Mod!MapThenFoldSet, Mod!Max, Max, AddRecent
<1>3. Looped(Retaining(t), <<>>, seq) = (CHOOSE f : B(f))[DOMAIN seq]
  BY DEF Looped, FoldLeft, MapThenFoldSet
<1>5. seq = Value(g.recent, i, <<>>)
  BY SameHelpers
<1> HIDE DEF seq
<1>4. \A f : A(f) <=> B(f)
  BY <1>1
<1> HIDE DEF A, B
<1> QED
  BY <1>2, <1>3, <1>4, <1>5

-----------------------------------------------------------------------------
(***************************************************************************)
(* The entropy guard.                                                      *)
(***************************************************************************)
\* The first n times in r that are within the window at time u.
NearIn(r, n, u) == {k \in 1 .. n : u - r[k] <= Window}

LEMMA NearStep ==
  ASSUME NEW n \in Nat, NEW r, NEW u
  PROVE  /\ IsFiniteSet(NearIn(r, n, u)) /\ Cardinality(NearIn(r, n, u)) \in Nat
         /\ NearIn(r, 0, u) = {}
         /\ Cardinality(NearIn(r, n + 1, u)) =
              Cardinality(NearIn(r, n, u)) + (IF u - r[n + 1] <= Window THEN 1 ELSE 0)
<1>1. IsFiniteSet(NearIn(r, n, u)) /\ Cardinality(NearIn(r, n, u)) \in Nat
  <2>1. IsFiniteSet(1 .. n)
    BY FS_Interval
  <2>2. NearIn(r, n, u) \in SUBSET (1 .. n)
    BY DEF NearIn
  <2> QED
    BY <2>1, <2>2, FS_Subset, FS_CardinalityType
<1>2. NearIn(r, 0, u) = {}
  BY DEF NearIn
<1>3. CASE u - r[n + 1] <= Window
  <2>1. NearIn(r, n + 1, u) = NearIn(r, n, u) \cup {n + 1} /\ n + 1 \notin NearIn(r, n, u)
    BY <1>3 DEF NearIn
  <2> QED
    BY <1>1, <1>2, <1>3, <2>1, FS_AddElement
<1>4. CASE ~(u - r[n + 1] <= Window)
  <2>1. NearIn(r, n + 1, u) = NearIn(r, n, u)
    BY <1>4 DEF NearIn
  <2> QED
    BY <1>1, <1>2, <1>4, <2>1
<1> QED
  BY <1>3, <1>4

\* What is appended counts once, if it is near.
LEMMA NearAppend ==
  ASSUME NEW r \in Seq(Nat), NEW x \in Nat, NEW u
  PROVE  LET s == Append(r, x)
         IN  Cardinality(NearIn(s, Len(s), u)) =
               Cardinality(NearIn(r, Len(r), u)) + (IF u - x <= Window THEN 1 ELSE 0)
<1> DEFINE s == Append(r, x)
           n == Len(r)
<1>1. n \in Nat /\ Len(s) = n + 1 /\ s[n + 1] = x /\ \A k \in 1 .. n : s[k] = r[k]
  BY AppendProperties
<1> HIDE DEF s, n
<1>2. NearIn(s, n, u) = NearIn(r, n, u)
  BY <1>1 DEF NearIn
<1>3. Cardinality(NearIn(s, n + 1, u)) =
        Cardinality(NearIn(s, n, u)) + (IF u - s[n + 1] <= Window THEN 1 ELSE 0)
  BY <1>1, NearStep
<1> QED
  BY <1>1, <1>2, <1>3 DEF s, n

\* Dropping what is out of the window drops nothing that will be in it later.
LEMMA RetainedIs ==
  ASSUME NEW r \in Seq(Nat), NEW t \in Nat
  PROVE  LET s == Looped(Retaining(t), <<>>, r)
         IN  /\ s \in Seq(Nat)
             /\ Len(s) = Cardinality(NearIn(s, Len(s), t))
             /\ \A u \in Nat : u >= t =>
                  Cardinality(NearIn(s, Len(s), u)) = Cardinality(NearIn(r, Len(r), u))
<1> DEFINE n == Len(r)
           loop == Retaining(t)
<1>1. n \in Nat /\ DOMAIN r = 1 .. n /\ \A k \in 1 .. n : r[k] \in Nat
  OBVIOUS
<1>2. \A u \in Seq(Nat), x \in Nat :
        Do(loop, u, x) = AddRecent(t, u, x)
  BY DEF Do, Retaining
<1>3. \A u \in Seq(Nat), k \in 1 .. n : Do(loop, u, r[k]) \in Seq(Nat)
  <2> SUFFICES ASSUME NEW u \in Seq(Nat), NEW k \in 1 .. n PROVE Do(loop, u, r[k]) \in Seq(Nat)
    OBVIOUS
  <2>1. Append(u, r[k]) \in Seq(Nat)
    BY <1>1, AppendProperties
  <2> QED
    BY <1>1, <1>2, <2>1 DEF AddRecent
<1>4. <<>> \in Seq(Nat)
  OBVIOUS
<1> HIDE DEF loop, n
<1>5. PICK m \in [0 .. n -> Seq(Nat)] : IsLoop(m, loop, <<>>, r, n)
  BY <1>1, <1>3, <1>4, LoopRounds
<1> DEFINE Ok(k) == \A u \in Nat : u >= t =>
                      Cardinality(NearIn(m[k], Len(m[k]), u)) = Cardinality(NearIn(r, k, u))
           In(k) == \A j \in 1 .. Len(m[k]) : t - m[k][j] <= Window
           T == {k \in 0 .. n : Ok(k) /\ In(k)}
<1>6. 0 \in T
  <2>1. m[0] = <<>> /\ Len(m[0]) = 0
    BY <1>5 DEF IsLoop
  <2>2. \A u : NearIn(m[0], Len(m[0]), u) = {} /\ NearIn(r, 0, u) = {}
    BY <2>1 DEF NearIn
  <2>3. Ok(0)
    BY <2>2
  <2>4. In(0)
    BY <2>1
  <2> HIDE DEF Ok, In
  <2> QED
    BY <1>1, <2>3, <2>4
<1>7. ASSUME NEW k \in 0 .. (n - 1), k \in T PROVE k + 1 \in T
  <2>1. k \in Nat /\ k + 1 \in 1 .. n /\ k + 1 \in 0 .. n /\ k \in 0 .. n
    BY <1>1
  <2>2. m[k] \in Seq(Nat) /\ r[k + 1] \in Nat
    BY <1>1, <2>1
  <2>3. m[k + 1] = AddRecent(t, m[k], r[k + 1])
    <3>1. m[k + 1] = Do(loop, m[(k + 1) - 1], r[k + 1]) /\ (k + 1) - 1 = k
      BY <1>5, <2>1 DEF IsLoop
    <3> QED
      BY <1>2, <2>2, <3>1
  <2>4. ASSUME NEW u \in Nat, u >= t
        PROVE  Cardinality(NearIn(m[k + 1], Len(m[k + 1]), u)) = Cardinality(NearIn(r, k + 1, u))
    <3>1. Cardinality(NearIn(r, k + 1, u)) =
            Cardinality(NearIn(r, k, u)) + (IF u - r[k + 1] <= Window THEN 1 ELSE 0)
      BY <2>1, NearStep
    <3>2. Cardinality(NearIn(m[k], Len(m[k]), u)) = Cardinality(NearIn(r, k, u))
      BY <1>7, <2>4
    <3>3. CASE t - r[k + 1] <= Window
      <4>1. m[k + 1] = Append(m[k], r[k + 1])
        BY <2>3, <3>3 DEF AddRecent
      <4>2. Cardinality(NearIn(Append(m[k], r[k + 1]), Len(Append(m[k], r[k + 1])), u)) =
              Cardinality(NearIn(m[k], Len(m[k]), u)) + (IF u - r[k + 1] <= Window THEN 1 ELSE 0)
        BY <2>2, NearAppend
      <4> QED
        BY <3>1, <3>2, <4>1, <4>2
    <3>4. CASE ~(t - r[k + 1] <= Window)
      <4>1. ~(u - r[k + 1] <= Window)
        BY <2>2, <2>4, <3>4, Constants
      <4>2. Cardinality(NearIn(r, k, u)) \in Nat
        BY <2>1, NearStep
      <4>3. m[k + 1] = m[k]
        BY <2>3, <3>4 DEF AddRecent
      <4> QED
        BY <3>1, <3>2, <4>1, <4>2, <4>3
    <3> QED
      BY <3>3, <3>4
  <2>5. In(k + 1)
    <3>1. In(k)
      BY <1>7
    <3>2. CASE t - r[k + 1] <= Window
      <4>1. m[k + 1] = Append(m[k], r[k + 1])
        BY <2>3, <3>2 DEF AddRecent
      <4>2. /\ Len(m[k]) \in Nat /\ Len(Append(m[k], r[k + 1])) = Len(m[k]) + 1
            /\ Append(m[k], r[k + 1])[Len(m[k]) + 1] = r[k + 1]
            /\ \A j \in 1 .. Len(m[k]) : Append(m[k], r[k + 1])[j] = m[k][j]
        BY <2>2, AppendProperties
      <4> QED
        BY <3>1, <3>2, <4>1, <4>2
    <3>3. CASE ~(t - r[k + 1] <= Window)
      BY <2>3, <3>1, <3>3 DEF AddRecent
    <3> QED
      BY <3>2, <3>3
  <2> QED
    BY <2>1, <2>4, <2>5
<1>8. 0 .. n \subseteq T
  <2> HIDE DEF T
  <2> QED
    BY <1>1, <1>6, <1>7, UpTo
<1>9. m[n] \in Seq(Nat) /\ Ok(n) /\ In(n)
  BY <1>1, <1>8
<1>10. Len(m[n]) = Cardinality(NearIn(m[n], Len(m[n]), t))
  <2>1. NearIn(m[n], Len(m[n]), t) = 1 .. Len(m[n])
    BY <1>9 DEF NearIn
  <2>2. \A k \in Nat : Cardinality(1 .. k) = k
    BY FS_Interval
  <2>3. Len(m[n]) \in Nat
    BY <1>9
  <2> QED
    BY <2>1, <2>2, <2>3
<1>11. Looped(loop, <<>>, r) = m[n]
  BY <1>5 DEF IsLoop
<1> QED
  BY <1>9, <1>10, <1>11 DEF loop, n

\* The writes of i that were measured, those of them that count for a pattern
\* at time u, and what the first of them was.
Measured(ws, i) == {k \in 1 .. Len(ws) : ws[k].ino = i /\ ws[k].class # "short"}
Near(ws, i, u) == {k \in Measured(ws, i) : ws[k].class \in Mod!High /\ u - ws[k].at <= Window}
First(ws, i) == CHOOSE k \in Measured(ws, i) : \A j \in Measured(ws, i) : k <= j

\* The guard knows of every file its first class and its high writes, up to time t.
GuardRight(g, t) ==
  /\ \A k \in 1 .. Len(g.writes) : g.writes[k].at <= t
  /\ \A i \in Ino :
       /\ i \in DOMAIN g.baseline <=> Measured(g.writes, i) # {}
       /\ i \in DOMAIN g.baseline => g.baseline[i] = g.writes[First(g.writes, i)].class
       /\ LET r == Value(g.recent, i, <<>>)
          IN  \A u \in Nat : u >= t =>
                Cardinality(NearIn(r, Len(r), u)) = Cardinality(Near(g.writes, i, u))

LEMMA FirstIs ==
  ASSUME NEW ws \in Seq(Checked), NEW i, Measured(ws, i) # {}
  PROVE  /\ First(ws, i) \in Measured(ws, i)
         /\ \A j \in Measured(ws, i) : First(ws, i) <= j
<1>1. Measured(ws, i) \in SUBSET Nat
  BY DEF Measured
<1> QED
  BY <1>1, Least, Zenon DEF First

\* One more write: what it is to file i.
IsMeasured(ws, w, new, i) ==
  /\ Measured(new, i) =
       Measured(ws, i) \cup {k \in {Len(ws) + 1} : w.ino = i /\ w.class # "short"}
  /\ Measured(ws, i) # {} => First(new, i) = First(ws, i)
  /\ Measured(ws, i) = {} /\ w.ino = i /\ w.class # "short" => First(new, i) = Len(ws) + 1
  /\ \A u \in Nat :
       /\ Cardinality(Near(new, i, u)) = Cardinality(Near(ws, i, u)) +
            (IF w.ino = i /\ w.class \in Mod!High /\ u - w.at <= Window THEN 1 ELSE 0)
       /\ IsFiniteSet(Near(ws, i, u)) /\ Cardinality(Near(ws, i, u)) \in Nat

LEMMA MeasuredStep ==
  ASSUME NEW ws \in Seq(Checked), NEW w \in Checked
  PROVE  LET new == Append(ws, w)
         IN  /\ new \in Seq(Checked) /\ Len(new) = Len(ws) + 1 /\ new[Len(ws) + 1] = w
             /\ \A k \in 1 .. Len(ws) : new[k] = ws[k]
             /\ \A i \in Ino : IsMeasured(ws, w, new, i)
<1> DEFINE new == Append(ws, w)
           n == Len(ws) + 1
<1>1. /\ new \in Seq(Checked) /\ Len(new) = n /\ new[n] = w
      /\ \A k \in 1 .. Len(ws) : new[k] = ws[k]
  BY AppendProperties
<1>2. Len(ws) \in Nat /\ 1 .. Len(new) = (1 .. Len(ws)) \cup {n} /\ n \notin 1 .. Len(ws)
  BY <1>1
<1> HIDE DEF new
<1> SUFFICES ASSUME NEW i \in Ino PROVE IsMeasured(ws, w, new, i)
  BY <1>1 DEF new
<1> HIDE DEF n
<1>3. Measured(new, i) = Measured(ws, i) \cup {k \in {n} : w.ino = i /\ w.class # "short"}
  BY <1>1, <1>2 DEF Measured
<1>4. Measured(ws, i) \in SUBSET Nat /\ \A k \in Measured(ws, i) : k < n
  BY <1>2 DEF Measured, n
<1>5. ASSUME Measured(ws, i) # {} PROVE First(new, i) = First(ws, i)
  <2>1. First(ws, i) \in Measured(ws, i) /\ \A j \in Measured(ws, i) : First(ws, i) <= j
    BY <1>5, FirstIs
  <2>2. Measured(new, i) # {}
    BY <1>3, <1>5
  <2>3. First(new, i) \in Measured(new, i) /\ \A j \in Measured(new, i) : First(new, i) <= j
    BY <1>1, <2>2, FirstIs
  <2>4. First(ws, i) \in Measured(new, i) /\ First(ws, i) < n
    BY <1>3, <1>4, <2>1
  <2>5. First(new, i) <= First(ws, i) /\ First(new, i) # n /\ n \in Nat
    BY <1>4, <1>2, <2>1, <2>3, <2>4 DEF n
  <2>6. First(new, i) \in Measured(ws, i)
    BY <1>3, <2>3, <2>5
  <2> QED
    BY <1>4, <2>1, <2>5, <2>6
<1>6. ASSUME Measured(ws, i) = {}, w.ino = i, w.class # "short" PROVE First(new, i) = n
  <2>1. Measured(new, i) = {n}
    BY <1>3, <1>6
  <2> QED
    BY <1>1, <2>1, FirstIs
<1>7. ASSUME NEW u \in Nat
      PROVE  /\ IsFiniteSet(Near(ws, i, u)) /\ Cardinality(Near(ws, i, u)) \in Nat
             /\ Cardinality(Near(new, i, u)) = Cardinality(Near(ws, i, u)) +
                  (IF w.ino = i /\ w.class \in Mod!High /\ u - w.at <= Window THEN 1 ELSE 0)
  <2>1. IsFiniteSet(Near(ws, i, u)) /\ Cardinality(Near(ws, i, u)) \in Nat
    <3>1. Near(ws, i, u) \in SUBSET (1 .. Len(ws)) /\ IsFiniteSet(1 .. Len(ws))
      BY <1>2, FS_Interval DEF Near, Measured
    <3> QED
      BY <3>1, FS_Subset, FS_CardinalityType
  <2> DEFINE hit == w.ino = i /\ w.class \in Mod!High /\ u - w.at <= Window
  <2>2. w.class \in Mod!High => w.class # "short"
    BY DEF Mod!High
  <2>3. \A k \in Measured(ws, i) : new[k] = ws[k]
    BY <1>1 DEF Measured
  <2>4. CASE hit
    <3>1. Near(new, i, u) = Near(ws, i, u) \cup {n} /\ n \notin Near(ws, i, u)
      BY <1>1, <1>2, <1>3, <2>2, <2>3, <2>4 DEF Near, Measured
    <3> QED
      BY <2>1, <2>4, <3>1, FS_AddElement
  <2>5. CASE ~hit
    <3>1. Near(new, i, u) = Near(ws, i, u)
      BY <1>1, <1>2, <1>3, <2>2, <2>3, <2>5 DEF Near
    <3> QED
      BY <2>1, <2>5, <3>1
  <2> QED
    BY <2>1, <2>4, <2>5
<1> QED
  BY <1>3, <1>5, <1>6, <1>7 DEF n, IsMeasured

LEMMA SameCard == \A S : Mod!Cardinality(S) = Cardinality(S)
BY DEF Mod!Cardinality, Cardinality

\* What the guard makes of a write, with the high writes it has kept.
IsChecked(g, i, name, c, t, h) ==
  LET first == Value(g.baseline, i, c)
      kept  == Append(Looped(Retaining(t), <<>>, Value(g.recent, i, <<>>)), t)
      high  == c \in Mod!High
  IN  /\ h.writes = Append(g.writes, [ino |-> i, class |-> c, at |-> t])
      /\ c = "short" => h.baseline = g.baseline /\ h.recent = g.recent /\ h.level = "none"
      /\ c # "short" =>
           /\ h.baseline = With(g.baseline, i, first)
           /\ h.recent = IF high THEN With(g.recent, i, kept) ELSE g.recent
           /\ h.level = IF high /\ Len(kept) >= PatternCount THEN "pattern"
                        ELSE IF c = "noise" /\ first = "text" THEN "critical"
                        ELSE IF name \in Suspicious THEN "extension"
                        ELSE IF high THEN "warning" ELSE "none"

LEMMA CheckIs ==
  ASSUME NEW g \in Guards, NEW i \in Ino, NEW name \in Name, NEW c \in Classes, NEW t \in Nat
  PROVE  LET h == Mod!check_write(g, i, name, c, t)
         IN  h \in Guards /\ IsChecked(g, i, name, c, t, h)
<1> DEFINE w == [ino |-> i, class |-> c, at |-> t]
           new == Append(g.writes, w)
           r == Value(g.recent, i, <<>>)
           R == Looped(Retaining(t), <<>>, r)
           kept == Append(R, t)
           first == Value(g.baseline, i, c)
           high == c \in Mod!High
           many == high /\ Len(kept) >= PatternCount
           crit == c = "noise" /\ first = "text"
           named == name \in Suspicious
           warn == high /\ ~crit /\ ~named
           h == Mod!check_write(g, i, name, c, t)
           level == IF many THEN "pattern" ELSE IF crit THEN "critical"
                    ELSE IF named THEN "extension" ELSE IF warn THEN "warning" ELSE "none"
           One(b) == IF b THEN 1 ELSE 0
           threats == g.threats + One(named) + One(crit) + One(warn) + One(many)
           recent == IF high THEN With(g.recent, i, kept) ELSE g.recent
<1>1. new \in Seq(Checked)
  <2>1. g.writes \in Seq(Checked) /\ w \in Checked
    BY DEF Guards, Checked
  <2> QED
    BY <2>1, AppendProperties
<1>2. kept \in Seq(Nat)
  <2>1. g.recent \in Maps(Ino, Seq(Nat)) /\ <<>> \in Seq(Nat)
    BY DEF Guards
  <2>2. r \in Seq(Nat)
    BY <2>1, ValueIs
  <2>3. R \in Seq(Nat)
    BY <2>2, RetainedIs
  <2> HIDE DEF R
  <2> QED
    BY <2>3, AppendProperties
<1>3. first \in Classes
  BY ValueIs DEF Guards
<1> HIDE DEF R, new
<1>4. With(g.baseline, i, first) \in Maps(Ino, Classes) /\ recent \in Maps(Ino, Seq(Nat))
  <2> HIDE DEF first, kept
  <2> QED
    BY <1>2, <1>3, WithIs DEF Guards
<1>5. threats \in Nat
  BY DEF Guards
<1>6. CASE c = "short"
  <2>1. h = [g EXCEPT !.writes = new, !.level = "none"]
    BY <1>6 DEF Mod!check_write, new
  <2> HIDE DEF h
  <2>2. h \in Guards /\ h.writes = new /\ h.level = "none" /\ h.baseline = g.baseline
        /\ h.recent = g.recent
    BY <1>1, <2>1 DEF Guards
  <2> HIDE DEF first, kept
  <2> QED
    BY <1>6, <2>2 DEF new, h, first, kept, R, IsChecked
<1>7. CASE c # "short"
  <2>1. R = Mod!Retained(g, i, t)
    BY RetainLoop DEF R
  <2>2. h = [g EXCEPT !.writes = new, !.baseline = With(g.baseline, i, first), !.recent = recent,
                      !.threats = threats, !.level = level]
    BY <1>7, <2>1, SameHelpers DEF Mod!check_write, new
  <2>3. level \in {"none", "pattern", "critical", "extension", "warning"}
    OBVIOUS
  <2> HIDE DEF recent, threats, level, h
  <2>4. h \in Guards /\ h.writes = new /\ h.level = level /\ h.recent = recent
        /\ h.baseline = With(g.baseline, i, first)
    <3> HIDE DEF first, kept, many, crit, named, warn
    <3> QED
      BY <1>1, <1>4, <1>5, <2>2, <2>3 DEF Guards
  <2>5. level = IF many THEN "pattern" ELSE IF crit THEN "critical"
                ELSE IF named THEN "extension" ELSE IF high THEN "warning" ELSE "none"
    <3> HIDE DEF many
    <3> QED
      BY DEF level
  <2> HIDE DEF first, kept
  <2> QED
    BY <1>7, <2>4, <2>5 DEF new, h, first, kept, recent, R, IsChecked
<1> QED
  BY <1>6, <1>7

\* A write is taken for what it is, and the guard stays right.
LEMMA CheckRight ==
  ASSUME NEW g \in Guards, NEW i \in Ino, NEW name \in Name, NEW c \in Classes,
         NEW t0 \in Nat, NEW t \in Nat, t0 <= t, GuardRight(g, t0)
  PROVE  LET h == Mod!check_write(g, i, name, c, t)
         IN  /\ h \in Guards
             /\ GuardRight(h, t)
             /\ h.writes = Append(g.writes, [ino |-> i, class |-> c, at |-> t])
             /\ h.level = Mod!Level(h.writes, name)
<1> DEFINE w == [ino |-> i, class |-> c, at |-> t]
           ws == g.writes
           new == Append(ws, w)
           n == Len(ws) + 1
           r(j) == Value(g.recent, j, <<>>)
           R == Looped(Retaining(t), <<>>, r(i))
           kept == Append(R, t)
           first == Value(g.baseline, i, c)
           high == c \in Mod!High
           h == Mod!check_write(g, i, name, c, t)
           Hit(j, u) == j = i /\ high /\ u - t <= Window
<1>1. ws \in Seq(Checked) /\ w \in Checked /\ w.ino = i /\ w.class = c /\ w.at = t
      /\ \A j \in Ino : r(j) \in Seq(Nat)
  <2>1. g.recent \in Maps(Ino, Seq(Nat)) /\ <<>> \in Seq(Nat)
    BY DEF Guards
  <2> QED
    BY <2>1, ValueIs DEF Guards, Checked
<1>2. /\ R \in Seq(Nat) /\ Len(R) = Cardinality(NearIn(R, Len(R), t))
      /\ \A u \in Nat : u >= t =>
           Cardinality(NearIn(R, Len(R), u)) = Cardinality(NearIn(r(i), Len(r(i)), u))
  BY <1>1, RetainedIs
<1>3. /\ h \in Guards /\ h.writes = new
      /\ c = "short" => h.baseline = g.baseline /\ h.recent = g.recent /\ h.level = "none"
      /\ c # "short" =>
           /\ h.baseline = With(g.baseline, i, first)
           /\ h.recent = IF high THEN With(g.recent, i, kept) ELSE g.recent
           /\ h.level = IF high /\ Len(kept) >= PatternCount THEN "pattern"
                        ELSE IF c = "noise" /\ first = "text" THEN "critical"
                        ELSE IF name \in Suspicious THEN "extension"
                        ELSE IF high THEN "warning" ELSE "none"
  <2>1. h \in Guards /\ IsChecked(g, i, name, c, t, h)
    BY CheckIs
  <2> HIDE DEF h
  <2> QED
    BY <2>1 DEF IsChecked
<1>4. Len(kept) = Len(R) + 1 /\ Len(R) \in Nat
      /\ \A u \in Nat : Cardinality(NearIn(kept, Len(kept), u)) =
           Cardinality(NearIn(R, Len(R), u)) + (IF u - t <= Window THEN 1 ELSE 0)
  BY <1>2, NearAppend, AppendProperties, SMTT(30)
<1>5. /\ new \in Seq(Checked) /\ Len(new) = n /\ new[n] = w
      /\ \A k \in 1 .. Len(ws) : new[k] = ws[k]
      /\ \A j \in Ino : IsMeasured(ws, w, new, j)
  BY <1>1, MeasuredStep
<1>6. ASSUME NEW j \in Ino
      PROVE  /\ Measured(new, j) = Measured(ws, j) \cup {k \in {n} : j = i /\ c # "short"}
             /\ Measured(ws, j) # {} => First(new, j) = First(ws, j)
             /\ Measured(ws, j) = {} /\ j = i /\ c # "short" => First(new, j) = n
             /\ \A u \in Nat :
                  /\ Cardinality(Near(ws, j, u)) \in Nat
                  /\ Cardinality(Near(new, j, u)) = Cardinality(Near(ws, j, u)) +
                       (IF Hit(j, u) THEN 1 ELSE 0)
  <2>1. IsMeasured(ws, w, new, j)
    BY <1>5
  <2> HIDE DEF new, w, ws
  <2> QED
    BY <1>1, <2>1 DEF IsMeasured
<1>7. ASSUME NEW j \in Ino, Measured(ws, j) # {}
      PROVE  new[First(new, j)] = ws[First(ws, j)]
  <2>1. First(ws, j) \in 1 .. Len(ws)
    BY <1>1, <1>7, FirstIs DEF Measured
  <2> HIDE DEF new, ws
  <2> QED
    BY <1>5, <1>6, <1>7, <2>1
<1>8. n \in Nat /\ 1 .. n = (1 .. Len(ws)) \cup {n}
  BY <1>1
<1>9. /\ \A k \in 1 .. Len(ws) : ws[k].at <= t0 /\ ws[k].at \in Nat
      /\ \A j \in Ino :
           /\ j \in DOMAIN g.baseline <=> Measured(ws, j) # {}
           /\ j \in DOMAIN g.baseline => g.baseline[j] = ws[First(ws, j)].class
           /\ \A u \in Nat : u >= t0 =>
                Cardinality(NearIn(r(j), Len(r(j)), u)) = Cardinality(Near(ws, j, u))
  <2>1. \A k \in 1 .. Len(ws) : ws[k] \in Checked
    BY <1>1
  <2> QED
    BY <2>1, Zenon DEF GuardRight, Checked
<1> HIDE DEF w, ws, new, n, r, R, kept, h, first
<1>10. \A k \in 1 .. Len(new) : new[k].at <= t
  <2>1. \A k \in 1 .. Len(ws) : new[k].at <= t
    BY <1>5, <1>9
  <2>2. new[n].at <= t
    BY <1>1, <1>5
  <2> QED
    BY <1>5, <1>8, <2>1, <2>2
<1>11. Measured(new, i) = Measured(ws, i) \/ c # "short"
  BY <1>6
<1>12. \A j \in Ino :
         /\ j \in DOMAIN h.baseline <=> Measured(new, j) # {}
         /\ j \in DOMAIN h.baseline => h.baseline[j] = new[First(new, j)].class
  <2> SUFFICES ASSUME NEW j \in Ino
               PROVE  /\ j \in DOMAIN h.baseline <=> Measured(new, j) # {}
                      /\ j \in DOMAIN h.baseline => h.baseline[j] = new[First(new, j)].class
    OBVIOUS
  <2>1. CASE j # i \/ c = "short"
    <3>1. Measured(new, j) = Measured(ws, j)
      BY <1>6, <2>1
    <3>2. /\ j \in DOMAIN h.baseline <=> j \in DOMAIN g.baseline
          /\ j \in DOMAIN g.baseline => h.baseline[j] = g.baseline[j]
      BY <1>3, <2>1, ValueWith
    <3> QED
      BY <1>7, <1>9, <3>1, <3>2
  <2>2. CASE j = i /\ c # "short"
    <3>1. j \in DOMAIN h.baseline /\ h.baseline[j] = first /\ Measured(new, j) # {}
      <4>1. h.baseline = With(g.baseline, i, first)
        BY <1>3, <2>2
      <4>2. Measured(new, j) # {}
        BY <1>6, <2>2
      <4> QED
        BY <2>2, <4>1, <4>2, ValueWith
    <3>2. CASE Measured(ws, j) # {}
      <4>1. first = g.baseline[j]
        BY <1>9, <2>2, <3>2 DEF first, Value
      <4> QED
        BY <1>7, <1>9, <3>1, <3>2, <4>1
    <3>3. CASE Measured(ws, j) = {}
      <4>1. first = c
        BY <1>9, <2>2, <3>3 DEF first, Value
      <4> QED
        BY <1>1, <1>5, <1>6, <2>2, <3>1, <3>3, <4>1
    <3> QED
      BY <3>2, <3>3
  <2> QED
    BY <2>1, <2>2
<1>13. ASSUME NEW j \in Ino, NEW u \in Nat, u >= t
       PROVE  LET q == Value(h.recent, j, <<>>)
              IN  Cardinality(NearIn(q, Len(q), u)) = Cardinality(Near(new, j, u))
  <2>1. Cardinality(NearIn(r(j), Len(r(j)), u)) = Cardinality(Near(ws, j, u))
    BY <1>9, <1>13
  <2>2. /\ Cardinality(Near(ws, j, u)) \in Nat
        /\ Cardinality(Near(new, j, u)) = Cardinality(Near(ws, j, u)) + (IF Hit(j, u) THEN 1 ELSE 0)
    BY <1>6
  <2>3. CASE j = i /\ high
    <3>1. Value(h.recent, j, <<>>) = kept
      <4>1. c # "short"
        BY <2>3 DEF Mod!High
      <4> QED
        BY <1>3, <2>3, <4>1, ValueWith
    <3>2. Cardinality(NearIn(R, Len(R), u)) = Cardinality(Near(ws, j, u))
      BY <1>2, <1>13, <2>1, <2>3
    <3> QED
      BY <1>4, <2>2, <2>3, <3>1, <3>2
  <2>4. CASE ~(j = i /\ high)
    <3>1. h.recent = g.recent \/ (j # i /\ h.recent = With(g.recent, i, kept))
      BY <1>3, <2>4
    <3>2. Value(h.recent, j, <<>>) = r(j)
      BY <3>1, ValueWith DEF r
    <3> QED
      BY <2>1, <2>2, <2>4, <3>2
  <2> QED
    BY <2>3, <2>4
<1>14. GuardRight(h, t)
  BY <1>3, <1>10, <1>12, <1>13 DEF GuardRight
<1>15. h.level = Mod!Level(h.writes, name)
  <2>1. new[Len(new)] = w /\ DOMAIN new = 1 .. Len(new)
    BY <1>5
  <2>2. CASE c = "short"
    BY <1>1, <1>3, <2>1, <2>2, Zenon DEF Mod!Level
  <2>3. CASE c # "short"
    <3>1. Mod!Level(new, name) =
            IF high /\ Cardinality(Near(new, i, t)) >= PatternCount THEN "pattern"
            ELSE IF c = "noise" /\ new[First(new, i)].class = "text" THEN "critical"
            ELSE IF name \in Suspicious THEN "extension" ELSE IF high THEN "warning" ELSE "none"
      BY <1>1, <2>1, <2>3, SameCard DEF Mod!Level, Near, Measured, First
    <3>2. new[First(new, i)].class = first
      BY <1>3, <1>12, <2>3, ValueWith
    <3>3. high => Len(kept) = Cardinality(Near(new, i, t))
      <4>1. t - t <= Window /\ t >= t0 /\ t >= t
        BY Constants
      <4>2. Len(R) = Cardinality(Near(ws, i, t))
        BY <1>2, <1>9, <4>1
      <4> QED
        BY <1>4, <1>6, <4>1, <4>2
    <3> QED
      BY <1>3, <2>3, <3>1, <3>2, <3>3
  <2> QED
    BY <2>2, <2>3
<1> QED
  BY <1>3, <1>14, <1>15 DEF h, new, w, ws

-----------------------------------------------------------------------------
(***************************************************************************)
(* What the other events do to the engine.                                 *)
(***************************************************************************)
LEMMA InNameIs ==
  ASSUME NEW n \in Name, NEW w
  PROVE  Mod!InName(n, w) \in Nat /\ (w \in Range(n) => Mod!InName(n, w) >= 1)
<1> DEFINE S == {k \in DOMAIN n : n[k] = w}
<1>1. n \in Seq(Word)
  BY EngineAssumption
<1>2. Len(n) \in Nat /\ DOMAIN n = 1 .. Len(n)
  BY <1>1
<1>3. S \in SUBSET (1 .. Len(n)) /\ IsFiniteSet(1 .. Len(n))
  BY <1>2, FS_Interval
<1>4. IsFiniteSet(S) /\ Cardinality(S) \in Nat
  BY <1>3, FS_Subset, FS_CardinalityType
<1>5. Mod!InName(n, w) = Cardinality(S)
  BY SameCard DEF Mod!InName
<1>6. ASSUME w \in Range(n) PROVE Cardinality(S) >= 1
  <2>1. S # {}
    BY <1>6 DEF Range
  <2>2. Cardinality(S) # 0
    BY <1>4, <2>1, FS_EmptySet
  <2> QED
    BY <1>4, <2>2
<1> QED
  BY <1>4, <1>5, <1>6

LEMMA SameRange == \A f : Mod!Range(f) = Range(f) /\ Mem!Range(f) = Range(f)
BY DEF Mod!Range, Mem!Range, Range

\* How often w counts for a file of this name and these words.
Has(words, w) == IF w \in words THEN 1 ELSE 0
Counting(name, words, w) == Has(words, w) + Mod!InName(name, w)
Dropped(s, i, words, w) == IF words # {} /\ w \in Mod!WordsOf(s, i) THEN Mod!Less(s.df[w]) ELSE s.df[w]

LEMMA IndexIs ==
  ASSUME NEW s \in Indexes, NEW i \in Ino, NEW n \in Name, NEW words \in SUBSET Word
  PROVE  LET t == Mod!index(s, i, n, words)
         IN  /\ t \in Indexes
             /\ t.files = With(s.files, i, [name |-> n, words |-> words \cup Range(n)])
             /\ \A w \in Word : t.df[w] = Dropped(s, i, words, w) + Counting(n, words, w)
<1> DEFINE t == Mod!index(s, i, n, words)
           entry == [name |-> n, words |-> words \cup Range(n)]
           df == [w \in Word |-> Dropped(s, i, words, w) + Has(words, w) + Mod!InName(n, w)]
<1>1. t = [files |-> With(s.files, i, entry), df |-> df]
  <2>1. CASE words = {}
    BY <2>1, SameHelpers, SameRange DEF Mod!index, Mod!index_by_name, Mod!Indexed, Dropped, Has
  <2>2. CASE words # {}
    BY <2>2, SameHelpers, SameRange DEF Mod!index, Mod!Indexed, Dropped, Has
  <2> QED
    BY <2>1, <2>2
<1>2. \A w \in Word : s.df[w] \in Nat /\ Mod!Less(s.df[w]) \in Nat
  BY DEF Indexes, Mod!Less
<1>3. ASSUME NEW w \in Word
      PROVE  /\ Dropped(s, i, words, w) + Has(words, w) + Mod!InName(n, w) \in Nat
             /\ Dropped(s, i, words, w) + Has(words, w) + Mod!InName(n, w) =
                  Dropped(s, i, words, w) + Counting(n, words, w)
  <2>1. Mod!InName(n, w) \in Nat
    BY InNameIs
  <2>2. Dropped(s, i, words, w) \in Nat
    BY <1>2 DEF Dropped
  <2> QED
    BY <2>1, <2>2 DEF Counting, Has
<1>4. entry \in [name : Name, words : SUBSET Word]
  <2>1. n \in Seq(Word)
    BY EngineAssumption
  <2>2. Range(n) \in SUBSET Word
    BY <2>1 DEF Range
  <2> QED
    BY <2>2
<1>5. With(s.files, i, entry) \in Maps(Ino, [name : Name, words : SUBSET Word])
  <2>1. s.files \in Maps(Ino, [name : Name, words : SUBSET Word])
    BY DEF Indexes
  <2> HIDE DEF entry
  <2> QED
    BY <1>4, <2>1, WithIs
<1>6. df \in [Word -> Nat] /\ \A w \in Word : df[w] = Dropped(s, i, words, w) + Counting(n, words, w)
  BY <1>3
<1> HIDE DEF t, df, entry
<1>7. t.files = With(s.files, i, entry) /\ t.df = df /\ t \in Indexes
  BY <1>1, <1>5, <1>6 DEF Indexes
<1> QED
  BY <1>6, <1>7 DEF t, entry

LEMMA RemoveIs ==
  ASSUME NEW s \in Indexes, NEW i
  PROVE  LET t == Mod!remove(s, i)
         IN  /\ t \in Indexes
             /\ t.files = Without(s.files, i)
             /\ \A w \in Word :
                  t.df[w] = IF w \in Mod!WordsOf(s, i) THEN Mod!Less(s.df[w]) ELSE s.df[w]
<1> DEFINE t == Mod!remove(s, i)
           df == [w \in Word |-> IF w \in Mod!WordsOf(s, i) THEN Mod!Less(s.df[w]) ELSE s.df[w]]
<1>1. t = [files |-> Without(s.files, i), df |-> df]
  BY SameHelpers DEF Mod!remove
<1>2. \A w \in Word : s.df[w] \in Nat /\ Mod!Less(s.df[w]) \in Nat
  BY DEF Indexes, Mod!Less
<1>3. df \in [Word -> Nat]
  BY <1>2
<1>4. Without(s.files, i) \in Maps(Ino, [name : Name, words : SUBSET Word])
  BY WithoutIs DEF Indexes
<1>5. \A w \in Word : df[w] = IF w \in Mod!WordsOf(s, i) THEN Mod!Less(s.df[w]) ELSE s.df[w]
  OBVIOUS
<1> HIDE DEF df, t
<1>6. t.files = Without(s.files, i) /\ t.df = df /\ t \in Indexes
  BY <1>1, <1>3, <1>4 DEF Indexes
<1> QED
  BY <1>5, <1>6 DEF t

\* What pieces of text give together, and what is then indexed.
LEMMA TogetherIs ==
  ASSUME NEW before \in SUBSET Word, NEW words \in SUBSET Word, NEW apart \in BOOLEAN,
         NEW S \in Together(before, words, apart)
  PROVE  /\ S \in SUBSET Word
         /\ apart => S = before \cup words
         /\ \E lost \in AtMostOne : words \ lost \subseteq S
<1>1. {} \in AtMostOne /\ \A lost \in AtMostOne : lost \in SUBSET Word
  BY DEF AtMostOne
<1>2. CASE apart
  <2>1. S = before \cup words
    BY <1>2 DEF Together
  <2>2. words \ {} \subseteq S
    BY <2>1
  <2> QED
    BY <1>1, <2>1, <2>2
<1>3. CASE ~apart
  <2>1. PICK last \in AtMostOne, first \in AtMostOne, joined \in AtMostOne :
          S = (before \ last) \cup (words \ first) \cup joined
    BY <1>3 DEF Together
  <2>2. words \ first \subseteq S
    BY <2>1
  <2> QED
    BY <1>1, <1>3, <2>1, <2>2
<1> QED
  BY <1>2, <1>3

IsText(a, e, words) ==
  words \in IF e.ino \in DOMAIN a.acc THEN Together(a.acc[e.ino], e.words, e.apart) ELSE {e.words}

LEMMA WriteIs ==
  ASSUME NEW a, IsAI(a), NEW e \in FileEvent("write", Classes), now \in Nat, NEW b \in OnWrite(a, e)
  PROVE  \E words \in SUBSET Word :
            /\ IsAI(b)
            /\ SameBut(a, b, {"guard", "acc", "index", "writes"})
            /\ IsText(a, e, words)
            /\ \E lost \in AtMostOne : e.words \ lost \subseteq words
            /\ b.guard = Mod!check_write(a.guard, e.ino, e.name, e.class, now)
            /\ b.acc = With(a.acc, e.ino, words)
            /\ b.index = Mod!index(a.index, e.ino, e.name, words)
            /\ b.writes = Counted(a.writes, e.ino)
<1>1. e.ino \in Ino /\ e.name \in Name /\ e.class \in Classes /\ e.words \in SUBSET Word
      /\ e.apart \in BOOLEAN
  BY DEF FileEvent
<1>2. PICK words : /\ IsText(a, e, words)
                   /\ b = [a EXCEPT !.guard = Mod!check_write(a.guard, e.ino, e.name, e.class, now),
                                    !.acc = With(a.acc, e.ino, words),
                                    !.index = Mod!index(a.index, e.ino, e.name, words),
                                    !.writes = Counted(a.writes, e.ino)]
  BY Zenon DEF OnWrite, IsText
<1>3. words \in SUBSET Word /\ \E lost \in AtMostOne : e.words \ lost \subseteq words
  <2>1. a.acc \in Maps(Ino, SUBSET Word)
    BY DEF IsAI
  <2>2. CASE e.ino \in DOMAIN a.acc
    <3>1. a.acc[e.ino] \in SUBSET Word /\ words \in Together(a.acc[e.ino], e.words, e.apart)
      BY <1>2, <2>1, <2>2, MapsIs DEF IsText
    <3> QED
      BY <1>1, <3>1, TogetherIs
  <2>3. CASE e.ino \notin DOMAIN a.acc
    <3>1. words = e.words
      BY <1>2, <2>3 DEF IsText
    <3>2. {} \in AtMostOne /\ e.words \ {} \subseteq words
      BY <3>1 DEF AtMostOne
    <3> QED
      BY <1>1, <3>1, <3>2
  <2> QED
    BY <2>2, <2>3
<1> DEFINE i == e.ino
           guard == Mod!check_write(a.guard, i, e.name, e.class, now)
           acc == With(a.acc, i, words)
           index == Mod!index(a.index, i, e.name, words)
           writes == Counted(a.writes, i)
<1>4. guard \in Guards
  BY <1>1, CheckIs DEF IsAI
<1>5. acc \in Maps(Ino, SUBSET Word) /\ index \in Indexes /\ writes \in Counts
  BY <1>1, <1>3, WithIs, IndexIs, CountedIs DEF IsAI, Counts
<1>6. b = [a EXCEPT !.guard = guard, !.acc = acc, !.index = index, !.writes = writes]
  BY <1>2
<1> HIDE DEF guard, acc, index, writes, i
<1>7. b.guard = guard /\ b.acc = acc /\ b.index = index /\ b.writes = writes /\ IsAI(b)
  BY <1>4, <1>5, <1>6 DEF IsAI
<1>8. SameBut(a, b, {"guard", "acc", "index", "writes"})
  BY <1>6 DEF IsAI, SameBut, Fields
<1> QED
  BY <1>2, <1>3, <1>7, <1>8 DEF guard, acc, index, writes, i

LEMMA CloseIs ==
  ASSUME NEW a, IsAI(a), NEW e \in FileEvent("close", {""}), NEW b \in OnClose(a, e)
  PROVE  /\ IsAI(b)
         /\ SameBut(a, b, {"scores", "acc"})
         /\ b.scores \in Mod!record_score(a.scores, e.ino)
         /\ b.acc = Without(a.acc, e.ino)
<1> DEFINE acc == Without(a.acc, e.ino)
<1>1. e.ino \in Ino
  BY DEF FileEvent
<1>2. PICK s \in Mod!record_score(a.scores, e.ino) : b = [a EXCEPT !.scores = s, !.acc = acc]
  BY Zenon DEF OnClose
<1>3. s \in Counts /\ acc \in Maps(Ino, SUBSET Word)
  BY <1>1, ScoreIs, WithoutIs DEF IsAI
<1> HIDE DEF acc
<1>4. b.scores = s /\ b.acc = acc /\ IsAI(b)
  BY <1>2, <1>3 DEF IsAI
<1>5. SameBut(a, b, {"scores", "acc"})
  BY <1>2 DEF IsAI, SameBut, Fields
<1> QED
  BY <1>4, <1>5 DEF acc

LEMMA DeleteIs ==
  ASSUME NEW a, IsAI(a), NEW e \in FileEvent("delete", {""}), NEW b \in OnDelete(a, e)
  PROVE  /\ IsAI(b)
         /\ SameBut(a, b, {"index", "acc"})
         /\ b.index = Mod!remove(a.index, e.ino)
         /\ b.acc = Without(a.acc, e.ino)
<1> DEFINE acc == Without(a.acc, e.ino)
           index == Mod!remove(a.index, e.ino)
<1>1. b = [a EXCEPT !.index = index, !.acc = acc]
  BY Zenon DEF OnDelete
<1>2. index \in Indexes /\ acc \in Maps(Ino, SUBSET Word)
  BY RemoveIs, WithoutIs DEF IsAI
<1> HIDE DEF acc, index
<1>3. b.index = index /\ b.acc = acc /\ IsAI(b)
  BY <1>1, <1>2 DEF IsAI
<1>4. SameBut(a, b, {"index", "acc"})
  BY <1>1 DEF IsAI, SameBut, Fields
<1> QED
  BY <1>3, <1>4 DEF acc, index

LEMMA QueryIs ==
  ASSUME NEW a, IsAI(a), NEW e, NEW b \in OnQuery(a, e)
  PROVE  IsAI(b) /\ SameBut(a, b, {"answer"})
<1>1. PICK r : b = [a EXCEPT !.answer = r]
  BY Zenon DEF OnQuery
<1> QED
  BY <1>1 DEF IsAI, SameBut, Fields

LEMMA SameMemCard == \A S : Mem!Cardinality(S) = Cardinality(S)
BY DEF Mem!Cardinality, Cardinality

LEMMA PairedIs ==
  ASSUME NEW t \in Seq(Ino)
  PROVE  Mem!Paired(t) \in SUBSET Pairs
<1> DEFINE n == IF Len(t) < PairFiles THEN Len(t) ELSE PairFiles
           u == SubSeq(t, 1, n)
<1>1. n \in 0 .. Len(t)
  BY Constants
<1>2. u \in Seq(Ino)
  BY <1>1, SubSeqProperties
<1> HIDE DEF u
<1>3. Range(u) \in SUBSET Ino
  BY <1>2 DEF Range
<1>4. Mem!Paired(t) = {p \in SUBSET Range(u) : Cardinality(p) = 2}
  BY SameRange, SameMemCard DEF Mem!Paired, u
<1> QED
  BY <1>3, <1>4 DEF Pairs

\* What the end of a session does to the memory.
IsClosed(m, u) ==
  LET all == Append(m.sessions, m.touched)
      new == Mem!Paired(m.touched)
  IN  /\ u.pairs = [p \in DOMAIN m.pairs \cup new |->
                      Value(m.pairs, p, 0) + (IF p \in new THEN 1 ELSE 0)]
      /\ u.sessions = (IF Len(all) > MaxSessions THEN Tail(all) ELSE all)
      /\ u.total = m.total + 1 /\ u.touched = <<>>
      /\ u.history.ended = Append(m.history.ended, m.touched)
      /\ u.history.opens = m.history.opens
      /\ u.opens = m.opens /\ u.streaks = m.streaks /\ u.daily = m.daily
      /\ u.last_day = m.last_day /\ u.names = m.names /\ u.cut = m.cut

LEMMA SessionIs ==
  ASSUME NEW m \in Memories
  PROVE  Mem!close_session(m) \in Memories /\ IsClosed(m, Mem!close_session(m))
<1> DEFINE all == Append(m.sessions, m.touched)
           new == Mem!Paired(m.touched)
           pairs == [p \in DOMAIN m.pairs \cup new |->
                       Value(m.pairs, p, 0) + (IF p \in new THEN 1 ELSE 0)]
           sessions == IF Len(all) > MaxSessions THEN Tail(all) ELSE all
           ended == Append(m.history.ended, m.touched)
           history == [m.history EXCEPT !.ended = ended]
           total == m.total + 1
           u == Mem!close_session(m)
<1>1. m.touched \in Seq(Ino) /\ m.sessions \in Seq(Seq(Ino)) /\ m.history.ended \in Seq(Seq(Ino))
      /\ m.history.opens \in Seq(Opened) /\ m.pairs \in Maps(Pairs, Nat)
  BY DEF Memories
<1>2. all \in Seq(Seq(Ino)) /\ all # <<>> /\ ended \in Seq(Seq(Ino))
  BY <1>1, AppendProperties, SMTT(30)
<1>3. sessions \in Seq(Seq(Ino))
  BY <1>2, HeadTailProperties
<1>4. new \in SUBSET Pairs
  BY <1>1, PairedIs
<1>5. pairs \in Maps(Pairs, Nat)
  <2>1. DOMAIN m.pairs \cup new \in SUBSET Pairs
    BY <1>1, <1>4, MapsIs
  <2>2. ASSUME NEW p PROVE Value(m.pairs, p, 0) \in Nat
    BY <1>1, MapsIs DEF Value
  <2>3. \A p : Value(m.pairs, p, 0) + (IF p \in new THEN 1 ELSE 0) \in Nat
    BY <2>2
  <2>4. pairs \in [DOMAIN m.pairs \cup new -> Nat]
    BY <2>3
  <2> HIDE DEF pairs
  <2> QED
    BY <2>1, <2>4 DEF Maps
<1>6. u = [m EXCEPT !.pairs = pairs, !.sessions = sessions, !.total = total, !.touched = <<>>,
                    !.history = history]
  BY SameHelpers DEF Mem!close_session
<1>7. <<>> \in Seq(Ino) /\ total \in Nat
  BY DEF Memories
<1>9. /\ history \in [opens : Seq(Opened), ended : Seq(Seq(Ino))]
      /\ history.ended = ended /\ history.opens = m.history.opens
  <2> HIDE DEF ended
  <2> QED
    BY <1>2 DEF Memories
<1> HIDE DEF all, new, pairs, sessions, ended, u, history, total
<1>8. /\ u \in Memories
      /\ u.pairs = pairs /\ u.sessions = sessions /\ u.total = total /\ u.touched = <<>>
      /\ u.history = history
      /\ u.opens = m.opens /\ u.streaks = m.streaks /\ u.daily = m.daily
      /\ u.last_day = m.last_day /\ u.names = m.names /\ u.cut = m.cut
  BY <1>2, <1>3, <1>5, <1>6, <1>7, <1>9 DEF Memories
<1> QED
  BY <1>8, <1>9 DEF IsClosed, all, new, pairs, sessions, ended, u, total

\* What the end of a session does to the engine.
IsEnded(a, b) ==
  LET m == Mem!close_session(a.memory)
  IN  /\ b.memory = m
      /\ \E order \in SetToSeqs(Mem!Close(m)) : b.projects = Mem!discover_projects(m, order)
      /\ \E w \in Jar!recompute(m, a.opens, a.writes, b.projects, Today) :
           b.brief \in Jar!analyse(w)
      /\ b.computed_at = Today /\ b.opens = <<>> /\ b.writes = <<>>

LEMMA EndIs ==
  ASSUME NEW a, IsAI(a), now \in Nat, NEW b \in OnEnd(a)
  PROVE  /\ IsAI(b)
         /\ SameBut(a, b, {"memory", "projects", "brief", "computed_at", "opens", "writes"})
         /\ IsEnded(a, b)
<1> DEFINE m == Mem!close_session(a.memory)
           groups == {Mem!discover_projects(m, order) : order \in SetToSeqs(Mem!Close(m))}
           Closed(g, r) ==
             [a EXCEPT !.memory = m, !.projects = g, !.brief = r,
                       !.computed_at = Today, !.opens = <<>>, !.writes = <<>>]
           Briefs(g) == UNION {Jar!analyse(w) : w \in Jar!recompute(m, a.opens, a.writes, g, Today)}
<1>1. m \in Memories
  BY SessionIs DEF IsAI
<1>2. OnEnd(a) = UNION {{Closed(g, r) : r \in Briefs(g)} : g \in groups}
  BY Zenon DEF OnEnd
<1> HIDE DEF m
<1>10. PICK g \in groups : \E r \in Briefs(g) : b = Closed(g, r)
  <2> HIDE DEF Closed, Briefs, groups
  <2> QED
    BY <1>2
<1>3. PICK r \in Briefs(g) : b = Closed(g, r)
  BY <1>10
<1>4. PICK order \in SetToSeqs(Mem!Close(m)) : g = Mem!discover_projects(m, order)
  BY <1>10
<1>5. PICK w \in Jar!recompute(m, a.opens, a.writes, g, Today) : r \in Jar!analyse(w)
  BY <1>3
<1>6. Today \in Nat /\ <<>> \in Counts
  BY TodayIs, NoMap DEF Counts
<1> HIDE DEF groups, Briefs
<1>7. /\ IsAI(b) /\ b.memory = m /\ b.projects = g /\ b.brief = r /\ b.computed_at = Today
      /\ b.opens = <<>> /\ b.writes = <<>>
  BY <1>1, <1>3, <1>6 DEF IsAI
<1>8. SameBut(a, b, {"memory", "projects", "brief", "computed_at", "opens", "writes"})
  BY <1>3 DEF IsAI, SameBut, Fields
<1>9. IsEnded(a, b)
  BY <1>4, <1>5, <1>7 DEF IsEnded, m
<1> QED
  BY <1>7, <1>8, <1>9

\* One event: what it is, and what it does.
LEMMA HandleIs ==
  ASSUME NEW a, IsAI(a), NEW e \in Events, now \in Nat, NEW b \in handle_event(a, e)
  PROVE  /\ IsAI(b)
         /\ \/ e \in FileEvent("open", {""}) /\ b \in OnOpen(a, e)
            \/ e \in FileEvent("write", Classes) /\ b \in OnWrite(a, e)
            \/ e \in FileEvent("close", {""}) /\ b \in OnClose(a, e)
            \/ e \in FileEvent("delete", {""}) /\ b \in OnDelete(a, e)
            \/ e \in OwnEvent("query") /\ b \in OnQuery(a, e)
            \/ e \in OwnEvent("end") /\ b \in OnEnd(a)
            \/ e \in OwnEvent("sync") /\ b = a
<1>1. CASE e \in FileEvent("open", {""})
  <2>1. e.kind = "open"
    BY <1>1 DEF FileEvent
  <2>2. b \in OnOpen(a, e)
    BY <2>1, Zenon DEF handle_event
  <2> QED
    BY <1>1, <2>2, OpenIs
<1>2. CASE e \in FileEvent("write", Classes)
  <2>1. e.kind = "write"
    BY <1>2 DEF FileEvent
  <2>2. b \in OnWrite(a, e)
    BY <2>1, Zenon DEF handle_event
  <2> QED
    BY <1>2, <2>2, WriteIs
<1>3. CASE e \in FileEvent("close", {""})
  <2>1. e.kind = "close"
    BY <1>3 DEF FileEvent
  <2>2. b \in OnClose(a, e)
    BY <2>1, Zenon DEF handle_event
  <2> QED
    BY <1>3, <2>2, CloseIs
<1>4. CASE e \in FileEvent("delete", {""})
  <2>1. e.kind = "delete"
    BY <1>4 DEF FileEvent
  <2>2. b \in OnDelete(a, e)
    BY <2>1, Zenon DEF handle_event
  <2> QED
    BY <1>4, <2>2, DeleteIs
<1>5. CASE e \in OwnEvent("query")
  <2>1. e.kind = "query"
    BY <1>5 DEF OwnEvent
  <2>2. b \in OnQuery(a, e)
    BY <2>1, Zenon DEF handle_event
  <2> QED
    BY <1>5, <2>2, QueryIs
<1>6. CASE e \in OwnEvent("end")
  <2>1. e.kind = "end"
    BY <1>6 DEF OwnEvent
  <2>2. b \in OnEnd(a)
    BY <2>1, Zenon DEF handle_event
  <2> QED
    BY <1>6, <2>2, EndIs
<1>7. CASE e \in OwnEvent("sync")
  <2>1. e.kind = "sync"
    BY <1>7 DEF OwnEvent
  <2>2. b = a
    BY <2>1 DEF handle_event
  <2> QED
    BY <1>7, <2>2
<1> QED
  BY <1>1, <1>2, <1>3, <1>4, <1>5, <1>6, <1>7 DEF Events

-----------------------------------------------------------------------------
(***************************************************************************)
(* What a mount makes of the files, and an unmount of the memory.          *)
(***************************************************************************)
\* f has every element of S once.
IsOrder(f, S) ==
  /\ Cardinality(S) \in Nat /\ DOMAIN f = 1 .. Cardinality(S) /\ f \in [DOMAIN f -> S]
  /\ \A j, k \in DOMAIN f : j # k => f[j] # f[k]
  /\ \A x \in S : \E k \in DOMAIN f : f[k] = x

LEMMA InjectiveIsOrder ==
  ASSUME NEW S, IsFiniteSet(S), NEW f \in [1 .. Cardinality(S) -> S],
         \A j, k \in 1 .. Cardinality(S) : j # k => f[j] # f[k]
  PROVE  IsOrder(f, S)
<1> DEFINE n == Cardinality(S)
<1>1. n \in Nat
  BY FS_CardinalityType
<1>2. Cardinality(1 .. n) = n
  BY <1>1, FS_Interval
<1>3. Cardinality(S) = n
  OBVIOUS
<1> HIDE DEF n
<1>4. f \in Injection(1 .. n, S)
  BY <1>3 DEF Injection, IsInjective
<1>5. f \in Surjection(1 .. n, S)
  BY <1>1, <1>2, <1>3, <1>4, FS_Injection
<1>6. \A x \in S : \E k \in 1 .. n : f[k] = x
  BY <1>5 DEF Surjection
<1> QED
  BY <1>1, <1>3, <1>6 DEF IsOrder

LEMMA OrderIs ==
  ASSUME NEW S, IsFiniteSet(S), NEW f \in SetToSeqs(S)
  PROVE  IsOrder(f, S)
<1>1. f \in [1 .. Cardinality(S) -> S] /\ \A j, k \in 1 .. Cardinality(S) : j # k => f[j] # f[k]
  BY DEF SetToSeqs
<1> QED
  BY <1>1, InjectiveIsOrder

LEMMA SetToSeqIs ==
  ASSUME NEW S, IsFiniteSet(S)
  PROVE  IsOrder(SetToSeq(S), S)
<1> DEFINE n == Cardinality(S)
           f == SetToSeq(S)
<1>1. ExistsBijection(1 .. n, S)
  BY FS_CardinalityType
<1>2. PICK b \in [1 .. n -> S] : IsInjective(b)
  BY <1>1 DEF ExistsBijection, Bijection, Injection
<1>3. f \in [1 .. n -> S] /\ IsInjective(f)
  BY <1>2, Zenon DEF SetToSeq
<1> HIDE DEF f
<1>4. \A j, k \in 1 .. n : j # k => f[j] # f[k]
  BY <1>3 DEF IsInjective
<1>5. IsOrder(f, S)
  BY <1>3, <1>4, InjectiveIsOrder
<1> QED
  BY <1>5 DEF f

LEMMA FiniteMaps ==
  /\ \A f : \A B : f \in Maps(Ino, B) => IsFiniteSet(DOMAIN f)
  /\ \A f : f \in Transitions => IsFiniteSet(DOMAIN f)
<1>1. IsFiniteSet(Ino) /\ IsFiniteSet(Ino \X Ino)
  BY Constants, FS_Product
<1> QED
  BY <1>1, MapsIs, FS_Subset DEF Transitions

Times(e) == [kind |-> "times", from |-> e[1], to |-> e[2]]
Replaying(saved) == [kind |-> "replay", saved |-> saved]
Indexing(fs) == [kind |-> "index", files |-> fs]
Uniting == [kind |-> "union"]

\* The loops of the models are these.
LEMMA TimesLoop ==
  \A t, e, n : Mod!record_times(t, e, n) = Looped(Times(e), t, [k \in 1 .. n |-> k])
<1> TAKE t, e, n
<1> DEFINE seq == [k \in 1 .. n |-> k]
           A(f) == f = [u \in SUBSET DOMAIN seq |->
                          IF u = {} THEN t ELSE Mod!record_transition(f[u \ {Max(u)}], e[1], e[2])]
           B(f) == f = [u \in SUBSET DOMAIN seq |->
                          IF u = {} THEN t ELSE Do(Times(e), f[u \ {Max(u)}], seq[Max(u)])]
<1>1. \A s, x : Do(Times(e), s, x) = Mod!record_transition(s, e[1], e[2])
  BY DEF Do, Times
<1>2. Mod!record_times(t, e, n) = (CHOOSE f : A(f))[DOMAIN seq]
  BY DEF Mod!record_times, Mod!FoldLeft, Mod!MapThenFoldSet, Mod!Max, Max
<1>3. Looped(Times(e), t, seq) = (CHOOSE f : B(f))[DOMAIN seq]
  BY DEF Looped, FoldLeft, MapThenFoldSet
<1> HIDE DEF seq
<1>4. \A f : A(f) <=> B(f)
  BY <1>1
<1> HIDE DEF A, B
<1>5. Looped(Times(e), t, seq) = Mod!record_times(t, e, n)
  BY <1>2, <1>3, <1>4
<1> QED
  BY <1>5 DEF seq

LEMMA ReplayLoop ==
  \A saved, order : Mod!Replayed(saved, order) = Looped(Replaying(saved), <<>>, order)
<1> TAKE saved, order
<1> DEFINE A(f) == f = [u \in SUBSET DOMAIN order |->
                          IF u = {} THEN <<>>
                          ELSE Mod!record_times(f[u \ {Max(u)}], order[Max(u)], saved[order[Max(u)]])]
           B(f) == f = [u \in SUBSET DOMAIN order |->
                          IF u = {} THEN <<>> ELSE Do(Replaying(saved), f[u \ {Max(u)}], order[Max(u)])]
<1>1. \A s, x : Do(Replaying(saved), s, x) = Mod!record_times(s, x, saved[x])
  BY DEF Do, Replaying
<1>2. Mod!Replayed(saved, order) = (CHOOSE f : A(f))[DOMAIN order]
  BY DEF Mod!Replayed, Mod!FoldLeft, Mod!MapThenFoldSet, Mod!Max, Max
<1>3. Looped(Replaying(saved), <<>>, order) = (CHOOSE f : B(f))[DOMAIN order]
  BY DEF Looped, FoldLeft, MapThenFoldSet
<1>4. \A f : A(f) <=> B(f)
  BY <1>1
<1> HIDE DEF A, B
<1> QED
  BY <1>2, <1>3, <1>4

LEMMA IndexLoop ==
  ASSUME NEW s, NEW fs, NEW order
  PROVE  FoldLeft(LAMBDA x, i : Mod!index(x, i, fs[i].name, fs[i].sent.since), s, order)
           = Looped(Indexing(fs), s, order)
<1> DEFINE A(f) == f = [u \in SUBSET DOMAIN order |->
                          IF u = {} THEN s
                          ELSE Mod!index(f[u \ {Max(u)}], order[Max(u)], fs[order[Max(u)]].name,
                                         fs[order[Max(u)]].sent.since)]
           B(f) == f = [u \in SUBSET DOMAIN order |->
                          IF u = {} THEN s ELSE Do(Indexing(fs), f[u \ {Max(u)}], order[Max(u)])]
<1>1. \A x, i : Do(Indexing(fs), x, i) = Mod!index(x, i, fs[i].name, fs[i].sent.since)
  BY DEF Do, Indexing
<1>2. FoldLeft(LAMBDA x, i : Mod!index(x, i, fs[i].name, fs[i].sent.since), s, order)
        = (CHOOSE f : A(f))[DOMAIN order]
  BY DEF FoldLeft, MapThenFoldSet
<1>3. Looped(Indexing(fs), s, order) = (CHOOSE f : B(f))[DOMAIN order]
  BY DEF Looped, FoldLeft, MapThenFoldSet
<1>4. \A f : A(f) <=> B(f)
  BY <1>1
<1> HIDE DEF A, B
<1> QED
  BY <1>2, <1>3, <1>4

LEMMA TimesIs ==
  ASSUME NEW t \in Transitions, NEW e \in Ino \X Ino, NEW n \in Nat
  PROVE  Mod!record_times(t, e, n) \in Transitions
<1> DEFINE seq == [k \in 1 .. n |-> k]
           loop == Times(e)
<1>1. \A u \in Transitions : \A k \in 1 .. n : Do(loop, u, seq[k]) \in Transitions
  BY TransitionIs DEF Do, Times
<1>2. Mod!record_times(t, e, n) = Looped(loop, t, seq) /\ DOMAIN seq = 1 .. n
  BY TimesLoop
<1> HIDE DEF seq, loop
<1>3. PICK m \in [0 .. n -> Transitions] : IsLoop(m, loop, t, seq, n)
  BY <1>1, <1>2, LoopRounds
<1> QED
  BY <1>2, <1>3 DEF IsLoop

LEMMA ReplayIs ==
  ASSUME NEW saved \in Transitions, NEW order \in SetToSeqs(DOMAIN saved)
  PROVE  Mod!Replayed(saved, order) \in Transitions
<1> DEFINE n == Cardinality(DOMAIN saved)
           loop == Replaying(saved)
<1>1. IsOrder(order, DOMAIN saved)
  BY FiniteMaps, OrderIs
<1>2. n \in Nat /\ DOMAIN order = 1 .. n /\ \A k \in 1 .. n : order[k] \in DOMAIN saved
  BY <1>1 DEF IsOrder
<1>3. \A e \in DOMAIN saved : e \in Ino \X Ino /\ saved[e] \in Nat
  BY MapsIs DEF Transitions
<1>4. \A u \in Transitions : \A k \in 1 .. n : Do(loop, u, order[k]) \in Transitions
  BY <1>2, <1>3, TimesIs DEF Do, Replaying
<1>5. <<>> \in Transitions
  BY NoMap DEF Transitions
<1> HIDE DEF n, loop
<1>6. PICK m \in [0 .. n -> Transitions] : IsLoop(m, loop, <<>>, order, n)
  BY <1>2, <1>4, <1>5, LoopRounds
<1>7. Looped(loop, <<>>, order) \in Transitions
  BY <1>2, <1>6 DEF IsLoop
<1> QED
  BY <1>7, ReplayLoop DEF loop

\* The files as the handlers know them.
Sending ==
  [told : BOOLEAN, open : BOOLEAN, whole : BOOLEAN, since : SUBSET Word, latest : SUBSET Word]
Inode ==
  [name : Name, dir : BOOLEAN, place : {"named", "replaced", "removed"}, sent : Sending]
Inodes == Maps(Ino, Inode)

LEMMA InodesAre ==
  \A f : f \in Inodes <=> /\ DOMAIN f \subseteq Ino /\ f = [i \in DOMAIN f |-> f[i]]
                          /\ \A i \in DOMAIN f : f[i] \in Inode
BY MapsIs DEF Inodes

LEMMA InodeIs ==
  ASSUME NEW fs \in Inodes
  PROVE  DOMAIN fs \subseteq Ino
         /\ \A i \in DOMAIN fs : /\ fs[i] \in Inode
                                /\ fs[i].name \in Name /\ fs[i].dir \in BOOLEAN
                                /\ fs[i].sent \in Sending /\ fs[i].sent.since \in SUBSET Word
<1>1. \A x \in Inode : /\ x.name \in Name /\ x.dir \in BOOLEAN
                       /\ x.sent \in Sending /\ x.sent.since \in SUBSET Word
  BY DEF Inode, Sending
<1> QED
  BY <1>1, InodesAre

\* The index after each of the files has been indexed.
LEMMA IndexRounds ==
  ASSUME NEW fs \in Inodes, NEW s \in Indexes
  PROVE  LET order == SetToSeq(DOMAIN fs)
             n == Cardinality(DOMAIN fs)
         IN  /\ IsOrder(order, DOMAIN fs)
             /\ \E m \in [0 .. n -> Indexes] : IsLoop(m, Indexing(fs), s, order, n)
<1> DEFINE n == Cardinality(DOMAIN fs)
           order == SetToSeq(DOMAIN fs)
           loop == Indexing(fs)
<1>1. IsOrder(order, DOMAIN fs)
  BY FiniteMaps, SetToSeqIs DEF Inodes
<1> HIDE DEF order
<1>2. n \in Nat /\ DOMAIN order = 1 .. n /\ \A k \in 1 .. n : order[k] \in DOMAIN fs
  BY <1>1 DEF IsOrder
<1>3. \A i \in DOMAIN fs : i \in Ino /\ fs[i].name \in Name /\ fs[i].sent.since \in SUBSET Word
  BY InodeIs
<1>4. \A u \in Indexes : \A k \in 1 .. n : Do(loop, u, order[k]) \in Indexes
  BY <1>2, <1>3, IndexIs DEF Do, Indexing
<1> HIDE DEF n, loop
<1>5. \E m \in [0 .. n -> Indexes] : IsLoop(m, loop, s, order, n)
  BY <1>2, <1>4, LoopRounds
<1> QED
  BY <1>1, <1>5 DEF order, n, loop

LEMMA NewIndexIs == Mod!NewIndex \in Indexes /\ Mod!NewIndex.files = <<>> /\ \A w \in Word : Mod!NewIndex.df[w] = 0
BY NoMap DEF Mod!NewIndex, Indexes

LEMMA ReindexIs ==
  ASSUME NEW a, IsAI(a), NEW s \in Indexes, a.index = s, NEW fs \in Inodes
  PROVE  /\ IsAI(Reindexed(a, fs))
         /\ SameBut(a, Reindexed(a, fs), {"index"})
         /\ Reindexed(a, fs).index = Looped(Indexing(fs), s, SetToSeq(DOMAIN fs))
<1> DEFINE index == Looped(Indexing(fs), s, SetToSeq(DOMAIN fs))
           n == Cardinality(DOMAIN fs)
<1>1. Reindexed(a, fs) = [a EXCEPT !.index = index]
  BY IndexLoop DEF Reindexed
<1>2. index \in Indexes
  <2>1. n \in Nat
    BY IndexRounds DEF IsOrder
  <2>2. PICK m \in [0 .. n -> Indexes] : IsLoop(m, Indexing(fs), s, SetToSeq(DOMAIN fs), n)
    BY IndexRounds
  <2> QED
    BY <2>1, <2>2 DEF IsLoop
<1> HIDE DEF index
<1>3. Reindexed(a, fs).index = index /\ IsAI(Reindexed(a, fs))
  BY <1>1, <1>2 DEF IsAI
<1>4. SameBut(a, Reindexed(a, fs), {"index"})
  BY <1>1 DEF IsAI, SameBut, Fields
<1> QED
  BY <1>3, <1>4 DEF index

\* What a save of memory m may leave of it.
IsReread(m, d) ==
  /\ \E o \in SUBSET DOMAIN m.opens, s \in SUBSET DOMAIN m.streaks,
        y \in SUBSET DOMAIN m.daily, n \in SUBSET DOMAIN m.names :
       /\ d.opens = Mem!On(m.opens, o) /\ d.streaks = Mem!On(m.streaks, s)
       /\ d.daily = Mem!On(m.daily, y) /\ d.names = Mem!On(m.names, n)
       /\ d.cut = m.cut \cup (DOMAIN m.opens \ (o \cap s \cap y \cap n))
  /\ d.touched = <<>> /\ d.total = m.total /\ d.last_day = m.last_day
  /\ d.pairs = m.pairs /\ d.history = m.history
  /\ d.sessions = [k \in DOMAIN m.sessions |->
       SubSeq(m.sessions[k], 1,
              IF Len(m.sessions[k]) < SavedFiles THEN Len(m.sessions[k]) ELSE SavedFiles)]

LEMMA OnIs ==
  ASSUME NEW A, NEW B, NEW f \in Maps(A, B), NEW S \in SUBSET DOMAIN f
  PROVE  /\ Mem!On(f, S) \in Maps(A, B) /\ DOMAIN Mem!On(f, S) = S
         /\ \A x \in S : Mem!On(f, S)[x] = f[x]
<1>1. S \in SUBSET A /\ Mem!On(f, S) \in [S -> B]
  BY MapsIs DEF Mem!On
<1>2. DOMAIN Mem!On(f, S) = S /\ \A x \in S : Mem!On(f, S)[x] = f[x]
  BY DEF Mem!On
<1> QED
  BY <1>1, <1>2 DEF Maps

LEMMA PartIs == \A keys : \A S \in Mem!Part(keys) : S \subseteq keys
BY DEF Mem!Part

LEMMA RereadIs ==
  ASSUME NEW m \in Memories, NEW u \in Mem!Reread(m)
  PROVE  u \in Memories /\ IsReread(m, u)
<1> DEFINE P(k) == SubSeq(m.sessions[k], 1,
                     IF Len(m.sessions[k]) < SavedFiles THEN Len(m.sessions[k]) ELSE SavedFiles)
           sessions == [k \in DOMAIN m.sessions |-> P(k)]
<1>1. PICK o \in Mem!Part(DOMAIN m.opens), s \in Mem!Part(DOMAIN m.streaks),
           y \in Mem!Part(DOMAIN m.daily), n \in Mem!Part(DOMAIN m.names) :
        u = [m EXCEPT !.touched = <<>>, !.sessions = sessions,
               !.opens = Mem!On(m.opens, o), !.streaks = Mem!On(m.streaks, s),
               !.daily = Mem!On(m.daily, y), !.names = Mem!On(m.names, n),
               !.cut = m.cut \cup (DOMAIN m.opens \ (o \cap s \cap y \cap n))]
  <2>1. \E o \in Mem!Part(DOMAIN m.opens), s \in Mem!Part(DOMAIN m.streaks),
           y \in Mem!Part(DOMAIN m.daily), n \in Mem!Part(DOMAIN m.names) :
          u = Mem!Truncated(m, o, s, y, n)
    BY DEF Mem!Reread
  <2> QED
    BY <2>1 DEF Mem!Truncated
<1>2. /\ o \in SUBSET DOMAIN m.opens /\ s \in SUBSET DOMAIN m.streaks
      /\ y \in SUBSET DOMAIN m.daily /\ n \in SUBSET DOMAIN m.names
  BY PartIs
<1> DEFINE opens == Mem!On(m.opens, o)
           streaks == Mem!On(m.streaks, s)
           daily == Mem!On(m.daily, y)
           names == Mem!On(m.names, n)
           cut == m.cut \cup (DOMAIN m.opens \ (o \cap s \cap y \cap n))
<1>3. /\ m.opens \in Maps(Ino, Nat) /\ m.streaks \in Maps(Ino, Streak)
      /\ m.daily \in Maps(Ino, Days) /\ m.names \in Maps(Ino, Name)
  BY DEF Memories
<1>4. /\ opens \in Maps(Ino, Nat) /\ streaks \in Maps(Ino, Streak)
      /\ daily \in Maps(Ino, Days) /\ names \in Maps(Ino, Name)
  BY <1>2, <1>3, OnIs
<1>5. cut \in SUBSET Ino
  <2>1. DOMAIN m.opens \subseteq Ino /\ m.cut \subseteq Ino
    BY <1>3, MapsIs DEF Memories
  <2> QED
    BY <2>1
<1>6. sessions \in Seq(Seq(Ino))
  <2>1. m.sessions \in Seq(Seq(Ino)) /\ DOMAIN m.sessions = 1 .. Len(m.sessions)
    BY DEF Memories
  <2>2. ASSUME NEW k \in DOMAIN m.sessions PROVE P(k) \in Seq(Ino)
    <3>1. m.sessions[k] \in Seq(Ino)
      BY <2>1
    <3>2. (IF Len(m.sessions[k]) < SavedFiles THEN Len(m.sessions[k]) ELSE SavedFiles)
            \in 0 .. Len(m.sessions[k])
      BY <3>1, Constants
    <3> QED
      BY <3>1, <3>2, SubSeqProperties
  <2> HIDE DEF P
  <2>3. sessions \in [1 .. Len(m.sessions) -> Seq(Ino)] /\ Len(m.sessions) \in Nat
    BY <2>1, <2>2
  <2> QED
    BY <2>3
<1>7. <<>> \in Seq(Ino)
  OBVIOUS
<1> HIDE DEF opens, streaks, daily, names, cut, sessions
<1>8. /\ u \in Memories
      /\ u.opens = opens /\ u.streaks = streaks /\ u.daily = daily /\ u.names = names
      /\ u.cut = cut /\ u.sessions = sessions /\ u.touched = <<>> /\ u.total = m.total
      /\ u.last_day = m.last_day /\ u.pairs = m.pairs /\ u.history = m.history
  <2>1. u = [m EXCEPT !.touched = <<>>, !.sessions = sessions, !.opens = opens,
               !.streaks = streaks, !.daily = daily, !.names = names, !.cut = cut]
    BY <1>1 DEF opens, streaks, daily, names, cut, sessions
  <2> QED
    BY <1>4, <1>5, <1>6, <1>7, <2>1 DEF Memories
<1> QED
  BY <1>2, <1>8 DEF IsReread, opens, streaks, daily, names, cut, sessions

\* What is published, and the three files.
Publications == [markov : Transitions, scores : Counts, vocab : Seq(Ino), memory : Memories]
SavedAI == [markov : Transitions, scores : Counts]
IsDisk(d) ==
  /\ d \in [Files -> {d[f] : f \in Files}]
  /\ d["ai"] = {} \/ \E x \in SavedAI : d["ai"] = {x}
  /\ d["neural"] = {} \/ \E x \in Seq(Ino) : d["neural"] = {x}
  /\ d["memory"] = {} \/ \E x \in Memories : d["memory"] = {x}

LEMMA TheIs == \A x : The({x}) = x
BY DEF The

LEMMA FilesAre == Files = {"ai", "neural", "memory"}
BY DEF Files, NextFile

LEMMA NewMemoryIs ==
  ASSUME NEW t \in Nat PROVE Mem!NewMemory(t) \in Memories
<1>1. /\ <<>> \in Seq(Seq(Ino)) /\ <<>> \in Seq(Ino) /\ <<>> \in Maps(Ino, Nat)
      /\ <<>> \in Maps(Ino, Streak) /\ <<>> \in Maps(Ino, Days) /\ <<>> \in Maps(Ino, Name)
      /\ <<>> \in Maps(Pairs, Nat) /\ <<>> \in Seq(Opened)
  BY NoMap
<1> QED
  BY <1>1 DEF Mem!NewMemory, Memories

LEMMA LoadedIs ==
  ASSUME NEW d, IsDisk(d), now \in Nat
  PROVE  /\ load(d["ai"]) \in SavedAI /\ load_memory(d["memory"]) \in Memories
         /\ load_neural(d["neural"]) \in [vocab : Seq(Ino), recent : Seq(Ino)]
         /\ d["ai"] = {} => load(d["ai"]) = [markov |-> <<>>, scores |-> <<>>]
         /\ d["neural"] = {} => load_neural(d["neural"]) = Mod!NewNetwork
         /\ d["memory"] = {} => load_memory(d["memory"]) = Mem!NewMemory(Today)
         /\ \A x : d["ai"] = {x} => load(d["ai"]) = x
         /\ \A x : d["neural"] = {x} => load_neural(d["neural"]).vocab = x
         /\ \A x : d["memory"] = {x} => load_memory(d["memory"]) = x
<1>1. save(Nothing) = [markov |-> <<>>, scores |-> <<>>] /\ save(Nothing) \in SavedAI
  BY NoMap DEF save, Nothing, SavedAI, Transitions, Counts
<1>2. \A f, x : f = {x} => f # NoFile /\ The(f) = x
  BY TheIs DEF NoFile
<1>3. Mem!NewMemory(Today) \in Memories
  BY TodayIs, NewMemoryIs
<1>4. \A v \in Seq(Ino) : Mod!from_bytes(v).vocab = v
        /\ Mod!from_bytes(v) \in [vocab : Seq(Ino), recent : Seq(Ino)]
  <2>1. \A v : Mod!from_bytes(v) = [vocab |-> v, recent |-> <<>>]
    BY DEF Mod!from_bytes, Mod!NewNetwork
  <2>2. <<>> \in Seq(Ino)
    OBVIOUS
  <2> QED
    BY <2>1, <2>2
<1>5. Mod!NewNetwork \in [vocab : Seq(Ino), recent : Seq(Ino)]
  BY DEF Mod!NewNetwork
<1>6. d["ai"] = {} \/ \E x \in SavedAI : d["ai"] = {x}
  BY DEF IsDisk
<1>7. d["neural"] = {} \/ \E x \in Seq(Ino) : d["neural"] = {x}
  BY DEF IsDisk
<1>8. d["memory"] = {} \/ \E x \in Memories : d["memory"] = {x}
  BY DEF IsDisk
<1>9. /\ load(d["ai"]) \in SavedAI /\ (\A x : d["ai"] = {x} => load(d["ai"]) = x)
      /\ (d["ai"] = {} => load(d["ai"]) = [markov |-> <<>>, scores |-> <<>>])
  BY <1>1, <1>2, <1>6 DEF load, NoFile
<1>10. /\ load_neural(d["neural"]) \in [vocab : Seq(Ino), recent : Seq(Ino)]
       /\ (\A x : d["neural"] = {x} => load_neural(d["neural"]).vocab = x)
       /\ (d["neural"] = {} => load_neural(d["neural"]) = Mod!NewNetwork)
  BY <1>2, <1>4, <1>5, <1>7, ZenonT(40) DEF load_neural, NoFile
<1>11. /\ load_memory(d["memory"]) \in Memories
       /\ (\A x : d["memory"] = {x} => load_memory(d["memory"]) = x)
       /\ (d["memory"] = {} => load_memory(d["memory"]) = Mem!NewMemory(Today))
  BY <1>2, <1>3, <1>8 DEF load_memory, NoFile
<1> QED
  BY <1>9, <1>10, <1>11

LEMMA NewGuardIs == Mod!NewGuard \in Guards /\ \A t \in Nat : GuardRight(Mod!NewGuard, t)
<1> DEFINE g == Mod!NewGuard
<1>1. g.baseline = <<>> /\ g.recent = <<>> /\ g.writes = <<>> /\ g \in Guards
  BY NoMap DEF Mod!NewGuard, Guards
<1>2. \A i : Measured(<<>>, i) = {} /\ \A u : Near(<<>>, i, u) = {}
  BY DEF Measured, Near
<1>3. Len(<<>>) = 0 /\ \A u : NearIn(<<>>, 0, u) = {}
  BY DEF NearIn
<1> HIDE DEF g
<1> QED
  BY <1>1, <1>2, <1>3 DEF GuardRight, Value, g

LEMMA NewAIIs ==
  ASSUME now \in Nat
  PROVE  /\ IsAI(NewAI) /\ NewAI.index = Mod!NewIndex /\ NewAI.guard = Mod!NewGuard
         /\ NewAI.memory = Mem!NewMemory(Today) /\ NewAI.acc = <<>>
         /\ NewAI.opens = <<>> /\ NewAI.writes = <<>>
<1>1. /\ Mem!NewMemory(Today) \in Memories /\ Mod!NewIndex \in Indexes /\ Mod!NewGuard \in Guards
      /\ <<>> \in Transitions /\ <<>> \in Counts /\ <<>> \in Maps(Ino, SUBSET Word)
  BY TodayIs, NewMemoryIs, NewIndexIs, NewGuardIs, NoMap DEF Transitions, Counts
<1>2. Mod!NewNetwork \in [vocab : Seq(Ino), recent : Seq(Ino)]
  BY DEF Mod!NewNetwork
<1> QED
  BY <1>1, <1>2 DEF NewAI, IsAI

LEMMA RestoredIs ==
  ASSUME NEW d, IsDisk(d), now \in Nat, NEW order \in Orders(d)
  PROVE  LET a == Restored(d, order)
         IN  /\ IsAI(a)
             /\ SameBut(NewAI, a, {"markov", "scores", "net", "memory"})
             /\ a.markov = Mod!Replayed(load(d["ai"]).markov, order)
             /\ a.scores = load(d["ai"]).scores
             /\ a.net = load_neural(d["neural"])
             /\ a.memory = load_memory(d["memory"])
<1> DEFINE markov == Mod!Replayed(load(d["ai"]).markov, order)
           scores == load(d["ai"]).scores
           net == load_neural(d["neural"])
           memory == load_memory(d["memory"])
           a == Restored(d, order)
<1>1. scores \in Counts /\ net \in [vocab : Seq(Ino), recent : Seq(Ino)] /\ memory \in Memories
      /\ load(d["ai"]).markov \in Transitions
  BY LoadedIs DEF SavedAI
<1>2. markov \in Transitions
  BY <1>1, ReplayIs DEF Orders
<1>3. IsAI(NewAI)
  BY NewAIIs
<1>4. a = [NewAI EXCEPT !.markov = markov, !.scores = scores, !.net = net, !.memory = memory]
  BY DEF Restored
<1> HIDE DEF markov, scores, net, memory, a
<1>5. /\ IsAI(a) /\ a.markov = markov /\ a.scores = scores /\ a.net = net /\ a.memory = memory
  BY <1>1, <1>2, <1>3, <1>4 DEF IsAI
<1>6. SameBut(NewAI, a, {"markov", "scores", "net", "memory"})
  BY <1>3, <1>4 DEF IsAI, SameBut, Fields
<1> QED
  BY <1>5, <1>6 DEF markov, scores, net, memory, a

-----------------------------------------------------------------------------
(***************************************************************************)
(* The types.                                                              *)
(***************************************************************************)
\* A finite set of naturals has a largest element.
LEMMA MaxOfIs ==
  ASSUME NEW S \in SUBSET Nat, IsFiniteSet(S), S # {}
  PROVE  MaxOf(S) \in S /\ \A x \in S : x <= MaxOf(S)
<1>1. \E m \in S : \A x \in S : x <= m
  BY Greatest
<1> QED
  BY <1>1, Zenon DEF MaxOf

Typed ==
  /\ work \in Work
  /\ now \in Nat /\ now >= 2 * DayLength
  /\ IsAI(ai)
  /\ files \in Inodes
  /\ next \in Nat /\ (work = "edits" => \A i \in DOMAIN files : i < next)
  /\ queue \in Seq(Events)
  /\ alive \in BOOLEAN
  /\ mode \in Files \cup {"mounted", "unmounted"}
  /\ shared = {} \/ \E k \in Publications : shared = {k}
  /\ IsDisk(disk) /\ IsDisk(owed)
  /\ asked \in [{"open", "write", "delete"} -> Counts]
  /\ mode = "unmounted" => shared = {} /\ queue = <<>> /\ alive

LEMMA KeptIs ==
  ASSUME NEW a, IsAI(a)
  PROVE  /\ Kept(a) \in Publications
         /\ Kept(a).markov = a.markov /\ Kept(a).scores = a.scores
         /\ Kept(a).vocab = a.net.vocab /\ Kept(a).memory = a.memory
BY DEF IsAI, Kept, Publications, Mod!to_bytes

\* What a request may do besides sending.
LEMMA RequestIs ==
  ASSUME Typed, NEW kinds, NEW e \in Events, Request(kinds, e),
         work = "briefs" => e.kind \in {"open", "write", "delete"} /\ e.ino \in Ino
  PROVE  /\ queue' \in Seq(Events) /\ (queue' = IF alive THEN Append(queue, e) ELSE queue)
         /\ asked' \in [{"open", "write", "delete"} -> Counts]
         /\ asked' = IF work = "briefs" THEN [asked EXCEPT ![e.kind] = Counted(@, e.ino)] ELSE asked
         /\ mode = "mounted" /\ work \in kinds
         /\ UNCHANGED <<ai, shared, alive, disk, mode, now, work, owed>>
<1>1. queue \o <<e>> = Append(queue, e) /\ Append(queue, e) \in Seq(Events)
  <2>1. queue \in Seq(Events)
    BY DEF Typed
  <2> QED
    BY <2>1, AppendProperties
<1>2. asked \in [{"open", "write", "delete"} -> Counts]
  BY DEF Typed
<1>3. work = "briefs" => Counted(asked[e.kind], e.ino) \in Counts
  BY <1>2, CountedIs DEF Counts
<1> QED
  BY <1>1, <1>2, <1>3 DEF Request, Send, Typed

LEMMA EventIn ==
  ASSUME NEW i \in Ino, NEW n \in Name, NEW W \in SUBSET Word
  PROVE  /\ Event("open", i, n, {}, "", TRUE) \in FileEvent("open", {""})
         /\ Event("close", i, n, {}, "", TRUE) \in FileEvent("close", {""})
         /\ Event("delete", i, n, {}, "", TRUE) \in FileEvent("delete", {""})
         /\ \A c \in Classes : \A p \in BOOLEAN : Event("write", i, n, W, c, p) \in FileEvent("write", Classes)
         /\ \A w \in Word : Event("query", 0, <<>>, {w}, "", TRUE) \in OwnEvent("query")
         /\ Event("end", 0, <<>>, {}, "", TRUE) \in OwnEvent("end")
         /\ Event("sync", 0, <<>>, {}, "", TRUE) \in OwnEvent("sync")
BY DEF Event, FileEvent, OwnEvent

LEMMA OwnEventIn ==
         /\ \A w \in Word : Event("query", 0, <<>>, {w}, "", TRUE) \in OwnEvent("query")
         /\ Event("end", 0, <<>>, {}, "", TRUE) \in OwnEvent("end")
         /\ Event("sync", 0, <<>>, {}, "", TRUE) \in OwnEvent("sync")
BY DEF Event, OwnEvent

\* Which kind an event is of is in its name.
LEMMA EventKind ==
  \A e \in Events :
    /\ e.kind \in {"open", "write", "close", "delete"} => e.ino \in Ino /\ e.name \in Name
    /\ e.kind = "open" <=> e \in FileEvent("open", {""})
    /\ e.kind = "write" <=> e \in FileEvent("write", Classes)
    /\ e.kind = "close" <=> e \in FileEvent("close", {""})
    /\ e.kind = "delete" <=> e \in FileEvent("delete", {""})
    /\ e.kind = "query" <=> e \in OwnEvent("query")
    /\ e.kind = "end" <=> e \in OwnEvent("end")
    /\ e.kind = "sync" <=> e \in OwnEvent("sync")
BY DEF Events, FileEvent, OwnEvent

\* What a step of the engine does, if the thread does not die.
LEMMA HandledIs ==
  ASSUME Typed, Handle, NEW e, e = Head(queue)
  PROVE  /\ e \in Events /\ alive /\ mode \in {"mounted", "ai"} /\ queue # <<>>
         /\ UNCHANGED <<files, next, disk, mode, now, work, calls, owed, asked>>
         /\ \/ /\ e.kind = "end" /\ Mem!Panics(Mem!close_session(ai.memory))
               /\ ~alive' /\ alive' \in BOOLEAN /\ UNCHANGED <<ai, shared, queue>>
            \/ /\ IsAI(ai') /\ ai' \in handle_event(ai, e)
               /\ shared' = {Kept(ai')} /\ queue' = Tail(queue) /\ UNCHANGED alive
               /\ e.kind = "end" => ~Mem!Panics(Mem!close_session(ai.memory))
<1>1. queue \in Seq(Events) /\ queue # <<>>
  BY DEF Typed, Handle
<1>2. e \in Events
  BY <1>1, HeadTailProperties
<1>3. IsAI(ai) /\ now \in Nat
  BY DEF Typed
<1>4. ai' \in handle_event(ai, e) => IsAI(ai')
  BY <1>2, <1>3, HandleIs
<1> QED
  BY <1>1, <1>2, <1>4, Zenon DEF Handle, sync_state

LEMMA SendingIs ==
  /\ Unsent \in Sending /\ \A W \in SUBSET Word : Found(W) \in Sending
  /\ \A x \in Sending : \A W \in SUBSET Word : \A p \in BOOLEAN : Written(x, W, p) \in Sending
  /\ \A x \in Sending : [x EXCEPT !.open = FALSE] \in Sending
BY DEF Unsent, Found, Written, Sending

LEMMA FileIs ==
  ASSUME NEW n \in Name, NEW d \in BOOLEAN, NEW x \in Sending
  PROVE  File(n, d, x) \in Inode
         /\ File(n, d, x).name = n /\ File(n, d, x).sent = x /\ File(n, d, x).dir = d
BY DEF File, Inode

\* What a file may have.
IsContent(f, c) ==
  \/ c = {}
  \/ f = "ai" /\ \E x \in SavedAI : c = {x}
  \/ f = "neural" /\ \E x \in Seq(Ino) : c = {x}
  \/ f = "memory" /\ \E x \in Memories : c = {x}

LEMMA DiskIs ==
  \A d : IsDisk(d) <=> /\ DOMAIN d = Files /\ d = [f \in Files |-> d[f]]
                       /\ \A f \in Files : IsContent(f, d[f])
<1> TAKE d
<1>1. ASSUME IsDisk(d)
      PROVE  DOMAIN d = Files /\ d = [f \in Files |-> d[f]] /\ \A f \in Files : IsContent(f, d[f])
  BY <1>1, FilesAre DEF IsDisk, IsContent
<1>2. ASSUME DOMAIN d = Files, d = [f \in Files |-> d[f]], \A f \in Files : IsContent(f, d[f])
      PROVE  IsDisk(d)
  <2>1. d \in [Files -> {d[f] : f \in Files}]
    BY <1>2
  <2>2. \A f \in {"ai", "neural", "memory"} : IsContent(f, d[f])
    BY <1>2, FilesAre
  <2> QED
    BY <2>1, <2>2 DEF IsDisk, IsContent
<1> QED
  BY <1>1, <1>2

LEMMA DiskWith ==
  ASSUME NEW d, IsDisk(d), NEW f \in Files, NEW c, IsContent(f, c)
  PROVE  IsDisk([d EXCEPT ![f] = c])
<1> DEFINE e == [d EXCEPT ![f] = c]
<1>1. DOMAIN d = Files /\ \A g \in Files : IsContent(g, d[g])
  BY DiskIs
<1>2. /\ DOMAIN e = Files /\ e = [g \in Files |-> e[g]]
      /\ e[f] = c /\ \A g \in Files : g # f => e[g] = d[g]
  BY <1>1
<1> HIDE DEF e
<1>3. \A g \in Files : IsContent(g, e[g])
  BY <1>1, <1>2
<1>4. IsDisk(e)
  BY <1>2, <1>3, DiskIs
<1> QED
  BY <1>4 DEF e

\* What is published, and what it is when nothing is.
LEMMA PublishedIs ==
  ASSUME Typed
  PROVE  /\ shared = {} => Published = Nothing
         /\ \A k : shared = {k} => Published = k
         /\ save(Published) \in SavedAI /\ save_neural(Published) \in Seq(Ino)
         /\ shared # {} => Published \in Publications
<1>1. shared = {} \/ \E k \in Publications : shared = {k}
  BY DEF Typed
<1>2. \A k : shared = {k} => Published = k
  BY TheIs DEF Published
<1>3. shared = {} => Published = Nothing
  BY DEF Published
<1>4. <<>> \in Transitions /\ <<>> \in Counts /\ <<>> \in Seq(Ino)
  BY NoMap DEF Transitions, Counts
<1>5. save(Nothing) \in SavedAI /\ save_neural(Nothing) \in Seq(Ino)
  BY <1>4 DEF save, save_neural, Nothing, SavedAI
<1>6. \A k \in Publications : save(k) \in SavedAI /\ save_neural(k) \in Seq(Ino)
  BY DEF save, save_neural, SavedAI, Publications
<1> QED
  BY <1>1, <1>2, <1>3, <1>5, <1>6

LEMMA ContentsIs ==
  ASSUME Typed, mode \in Files, NEW c \in Contents[mode]
  PROVE  IsContent(mode, c)
<1>1. CASE mode = "ai"
  <2>1. c = {save(Published)}
    BY <1>1 DEF Contents
  <2> QED
    BY <1>1, <2>1, PublishedIs DEF IsContent
<1>2. CASE mode = "neural"
  <2>1. c = {save_neural(Published)}
    BY <1>2 DEF Contents
  <2> QED
    BY <1>2, <2>1, PublishedIs DEF IsContent
<1>3. CASE mode = "memory"
  <2>1. c \in save_memory
    BY <1>3 DEF Contents
  <2>2. CASE shared = {}
    <3>1. c = disk.memory
      BY <2>1, <2>2 DEF save_memory
    <3>2. IsContent("memory", disk["memory"])
      BY FilesAre, DiskIs DEF Typed
    <3> QED
      BY <1>3, <3>1, <3>2
  <2>3. CASE shared # {}
    <3>1. PICK m \in Mem!Reread(Published.memory) : c = {m}
      BY <2>1, <2>3 DEF save_memory
    <3>2. Published.memory \in Memories
      BY <2>3, PublishedIs DEF Publications
    <3>3. m \in Memories
      BY <3>1, <3>2, RereadIs
    <3> QED
      BY <1>3, <3>1, <3>3 DEF IsContent
  <2> QED
    BY <2>2, <2>3
<1> QED
  BY <1>1, <1>2, <1>3, FilesAre

LEMMA OwedIs ==
  ASSUME NEW a, IsAI(a)
  PROVE  /\ \A f \in Files : IsContent(f, {Owed(a)[f]})
         /\ Owed(a)["ai"] = [markov |-> a.markov, scores |-> a.scores]
         /\ Owed(a)["neural"] = a.net.vocab /\ Owed(a)["memory"] = a.memory
<1>1. /\ Owed(a)["ai"] = [markov |-> a.markov, scores |-> a.scores]
      /\ Owed(a)["neural"] = a.net.vocab /\ Owed(a)["memory"] = a.memory
  BY DEF Owed, save, save_neural, Kept, Mod!to_bytes
<1>2. /\ [markov |-> a.markov, scores |-> a.scores] \in SavedAI
      /\ a.net.vocab \in Seq(Ino) /\ a.memory \in Memories
  BY DEF IsAI, SavedAI
<1>3. \A f \in {"ai", "neural", "memory"} : IsContent(f, {Owed(a)[f]})
  BY <1>1, <1>2 DEF IsContent
<1> QED
  BY <1>1, <1>3, FilesAre

LEMMA SaveTyped ==
  ASSUME Typed, Save
  PROVE  IsDisk(disk') /\ IsDisk(owed')
<1>1. mode \in Files /\ IsDisk(disk) /\ IsDisk(owed)
  BY DEF Save, Typed
<1>2. PICK c \in Contents[mode] : disk' = [disk EXCEPT ![mode] = c]
  BY DEF Save
<1>3. IsDisk(disk')
  BY <1>1, <1>2, ContentsIs, DiskWith
<1>4. \/ owed' = [owed EXCEPT ![mode] = NoFile]
      \/ owed' = [owed EXCEPT ![mode] = {Owed(ai)[mode]}]
      \/ owed' = owed
  BY DEF Save
<1>5. IsContent(mode, NoFile) /\ IsContent(mode, {Owed(ai)[mode]})
  BY <1>1, OwedIs DEF IsContent, NoFile, Typed
<1> QED
  BY <1>1, <1>3, <1>4, <1>5, DiskWith

LEMMA CrashTyped ==
  ASSUME Typed, Crash
  PROVE  IsDisk(disk') /\ IsDisk(owed')
<1>1. IsDisk(disk) /\ IsDisk(owed)
  BY DEF Typed
<1>2. \/ UNCHANGED <<disk, owed>>
      \/ /\ mode \in Files /\ disk' = [disk EXCEPT ![mode] = NoFile]
         /\ owed' = [owed EXCEPT ![mode] = NoFile] \/ owed' = owed
  BY DEF Crash
<1>3. IsContent(mode, NoFile)
  BY DEF IsContent, NoFile
<1> QED
  BY <1>1, <1>2, <1>3, DiskWith

LEMMA EndedTyped ==
  ASSUME Typed, Ended("unmounted"), UNCHANGED <<files, next, now, work, asked>>,
         IsDisk(disk'), IsDisk(owed')
  PROVE  Typed'
<1>1. IsAI(NewAI) /\ ai' = NewAI'
  BY NewAIIs DEF Typed, Ended, NewAI, Today
<1>2. NewAI' = NewAI
  BY DEF NewAI, Today
<1>3. IsAI(ai)'
  BY <1>1, <1>2 DEF IsAI
<1>4. <<>> \in Seq(Events)
  OBVIOUS
<1> QED
  BY <1>3, <1>4 DEF Typed, Ended, IsDisk

\* A mount, by the files and an order of the transitions.
LEMMA LoadedAI ==
  ASSUME Typed, NEW order \in Orders(disk), NEW found \in Inodes
  PROVE  LET a == Restored(disk, order)
             b == Reindexed(a, found)
         IN  /\ IsAI(a) /\ IsAI(b) /\ SameBut(NewAI, b, {"markov", "scores", "net", "memory", "index"})
             /\ b.markov = a.markov /\ b.scores = a.scores /\ b.net = a.net /\ b.memory = a.memory
             /\ b.index = Looped(Indexing(found), Mod!NewIndex, SetToSeq(DOMAIN found))
<1> DEFINE a == Restored(disk, order)
           b == Reindexed(a, found)
<1>1. IsDisk(disk) /\ now \in Nat
  BY DEF Typed
<1>2. IsAI(a) /\ SameBut(NewAI, a, {"markov", "scores", "net", "memory"})
  BY <1>1, RestoredIs
<1>3. a.index = Mod!NewIndex /\ Mod!NewIndex \in Indexes
  BY <1>1, <1>2, NewAIIs, NewIndexIs DEF SameBut, Fields
<1> HIDE DEF a
<1>4. /\ IsAI(b) /\ SameBut(a, b, {"index"})
      /\ b.index = Looped(Indexing(found), Mod!NewIndex, SetToSeq(DOMAIN found))
  BY <1>1, <1>2, <1>3, ReindexIs
<1> HIDE DEF b
<1>5. SameBut(NewAI, b, {"markov", "scores", "net", "memory", "index"})
  BY <1>2, <1>4 DEF SameBut, Fields
<1>6. b.markov = a.markov /\ b.scores = a.scores /\ b.net = a.net /\ b.memory = a.memory
  BY <1>4 DEF SameBut, Fields
<1> QED
  BY <1>2, <1>4, <1>5, <1>6 DEF a, b

\* The files a mount finds: what was not removed, with some words.
Remaining == {i \in DOMAIN files : files[i].place # "removed"}
FoundWith(text) == [i \in Remaining |-> File(files[i].name, files[i].dir, Found(text[i]))]

LEMMA MountIs ==
  ASSUME Typed, Load
  PROVE  /\ \E order \in Orders(disk) : \E text \in [Remaining -> SUBSET Word] :
              LET a == Restored(disk, order)
              IN  /\ ai' = Reindexed(a, FoundWith(text)) /\ files' = FoundWith(text)
                  /\ owed' = [f \in Files |-> {Owed(a)[f]}]
         /\ \A text \in [Remaining -> SUBSET Word] : FoundWith(text) \in Inodes
         /\ next' = MaxOf(Remaining \cup {1}) + 1
         /\ mode' = "mounted" /\ mode = "unmounted" /\ asked' = NoneAsked
         /\ UNCHANGED <<shared, queue, alive, disk, now, work>>
<1>1. PICK order \in Orders(disk), text \in Texts(Remaining) :
        LET a == Restored(disk, order)
        IN  /\ ai' = Reindexed(a, FoundWith(text)) /\ files' = FoundWith(text)
            /\ owed' = [f \in Files |-> {Owed(a)[f]}]
  BY Zenon DEF Load, Remaining, FoundWith
<1>2. text \in [Remaining -> SUBSET Word]
  BY DEF Texts
<1>3. files \in Inodes /\ Remaining \subseteq DOMAIN files
  BY DEF Typed, Remaining
<1>4. ASSUME NEW t \in [Remaining -> SUBSET Word] PROVE FoundWith(t) \in Inodes
  <2>1. \A i \in Remaining : i \in Ino /\ File(files[i].name, files[i].dir, Found(t[i])) \in Inode
    BY <1>3, <1>4, InodeIs, FileIs, SendingIs
  <2>2. /\ DOMAIN FoundWith(t) = Remaining /\ FoundWith(t) = [i \in Remaining |-> FoundWith(t)[i]]
        /\ \A i \in Remaining : FoundWith(t)[i] \in Inode
    BY <2>1 DEF FoundWith
  <2> QED
    BY <2>1, <2>2, InodesAre
<1>5. /\ next' = MaxOf(Remaining \cup {1}) + 1
      /\ mode' = "mounted" /\ mode = "unmounted" /\ asked' = NoneAsked
      /\ UNCHANGED <<shared, queue, alive, disk, now, work>>
  BY DEF Load, Remaining
<1> QED
  BY <1>1, <1>2, <1>4, <1>5

LEMMA LoadTyped == Typed /\ Load => Typed'
<1> SUFFICES ASSUME Typed, Load PROVE Typed'
  OBVIOUS
<1>1. PICK order \in Orders(disk), text \in [Remaining -> SUBSET Word] :
        LET a == Restored(disk, order)
        IN  /\ ai' = Reindexed(a, FoundWith(text)) /\ files' = FoundWith(text)
            /\ owed' = [f \in Files |-> {Owed(a)[f]}]
  BY MountIs
<1> DEFINE a == Restored(disk, order)
<1>2. FoundWith(text) \in Inodes
  BY MountIs
<1>3. IsAI(a) /\ IsAI(Reindexed(a, FoundWith(text)))
  BY <1>2, LoadedAI
<1>4. IsAI(ai)'
  <2>1. IsAI(ai')
    BY <1>1, <1>3
  <2> QED
    BY <2>1 DEF IsAI
<1>5. IsDisk(owed')
  <2>1. \A f \in Files : IsContent(f, {Owed(a)[f]})
    BY <1>3, OwedIs
  <2>2. owed' = [f \in Files |-> {Owed(a)[f]}]
    BY <1>1
  <2> HIDE DEF a
  <2> QED
    BY <2>1, <2>2, DiskIs
<1>6. files' \in Inodes /\ DOMAIN files' = Remaining /\ Remaining \subseteq Ino
  <2>1. DOMAIN FoundWith(text) = Remaining
    BY DEF FoundWith
  <2> QED
    BY <1>1, <1>2, <2>1, InodeIs
<1>7. next' \in Nat /\ \A i \in DOMAIN files' : i < next'
  <2>1. Remaining \subseteq Nat
    BY <1>6, Constants
  <2>2. IsFiniteSet(Remaining \cup {1}) /\ Remaining \cup {1} \in SUBSET Nat
    <3>1. IsFiniteSet(Remaining)
      BY <1>6, Constants, FS_Subset
    <3>2. IsFiniteSet(Remaining \cup {1})
      BY <3>1, FS_AddElement
    <3> QED
      BY <2>1, <3>2
  <2>3. MaxOf(Remaining \cup {1}) \in Nat /\ \A x \in Remaining : x <= MaxOf(Remaining \cup {1})
    BY <2>2, MaxOfIs
  <2>4. next' = MaxOf(Remaining \cup {1}) + 1
    BY MountIs
  <2>5. \A x \in Remaining : x < MaxOf(Remaining \cup {1}) + 1
    BY <2>1, <2>3
  <2> QED
    BY <1>6, <2>3, <2>4, <2>5
<1>8. /\ mode' = "mounted" /\ asked' = NoneAsked
      /\ UNCHANGED <<shared, queue, alive, disk, now, work>>
  BY MountIs
<1>9. asked' \in [{"open", "write", "delete"} -> Counts]
  BY <1>8, NoMap DEF NoneAsked, Counts
<1> QED
  BY <1>4, <1>5, <1>6, <1>7, <1>8, <1>9 DEF Typed, IsDisk

LEMMA InitTyped == Init => Typed
<1> SUFFICES ASSUME Init PROVE Typed
  OBVIOUS
<1>1. now \in Nat /\ now >= 2 * DayLength
  BY Constants DEF Init
<1>2. FirstName \in Name /\ (CHOOSE n \in Suspicious : TRUE) \in Name
  <2>1. \E n \in Name : n \notin Suspicious
    BY EngineAssumption
  <2>2. \E n \in Suspicious : TRUE
    BY EngineAssumption
  <2>3. FirstName \in Name
    BY <2>1, Zenon DEF FirstName
  <2>4. (CHOOSE n \in Suspicious : TRUE) \in Suspicious
    BY <2>2, Zenon
  <2> QED
    BY <2>3, <2>4, EngineAssumption
<1>3. \A n \in Name : \A d \in BOOLEAN : File(n, d, Found({})) \in Inode
  BY FileIs, SendingIs
<1>4. /\ DOMAIN files \in SUBSET Ino /\ \A i \in DOMAIN files : files[i] \in Inode
      /\ files = [i \in DOMAIN files |-> files[i]]
      /\ work = "edits" => DOMAIN files = {2, 3}
  <2>1. {2, 3} \subseteq Ino /\ work \in {"opens", "edits", "briefs", "alarms"}
    BY EngineAssumption DEF Init
  <2>2. CASE work = "opens"
    BY <1>2, <1>3, <2>2 DEF Init
  <2>3. CASE work = "edits"
    BY <1>2, <1>3, <2>1, <2>3 DEF Init
  <2>4. CASE work = "briefs"
    BY <1>2, <1>3, <2>1, <2>4 DEF Init
  <2>5. CASE work = "alarms"
    <3> DEFINE n(i) == IF i = 2 THEN FirstName ELSE CHOOSE m \in Suspicious : TRUE
    <3>1. files = [i \in {2, 3} |-> File(n(i), FALSE, Found({}))]
      BY <2>5 DEF Init
    <3>2. \A i : n(i) \in Name
      BY <1>2
    <3> HIDE DEF n
    <3> QED
      BY <1>3, <2>1, <2>5, <3>1, <3>2
  <2> QED
    BY <2>1, <2>2, <2>3, <2>4, <2>5
<1>5. files \in Inodes
  BY <1>4, InodesAre
<1>6. next \in Nat /\ (work = "edits" => \A i \in DOMAIN files : i < next)
  <2>1. IsFiniteSet(DOMAIN files) /\ Cardinality(DOMAIN files) \in Nat
    BY <1>4, Constants, FS_Subset, FS_CardinalityType
  <2>2. Cardinality({2, 3}) = 2
    <3>1. IsFiniteSet({2}) /\ Cardinality({2}) = 1
      BY FS_Singleton
    <3>2. 3 \notin {2} /\ {2, 3} = {2} \cup {3}
      OBVIOUS
    <3>3. Cardinality({2} \cup {3}) = 1 + 1
      BY <3>1, <3>2, FS_AddElement
    <3> QED
      BY <3>2, <3>3
  <2>3. next = Cardinality(DOMAIN files) + 2
    BY DEF Init
  <2> QED
    BY <1>4, <2>1, <2>2, <2>3
<1>7. IsAI(ai)
  <2>1. IsAI(NewAI) /\ NewAI.index \in Indexes
    BY <1>1, NewAIIs, NewIndexIs
  <2>2. IsAI(Reindexed(NewAI, files))
    BY <1>5, <2>1, ReindexIs
  <2> QED
    BY <2>2 DEF Init
<1>8. IsDisk(disk) /\ IsDisk(owed)
  <2>1. disk = [f \in {"ai", "neural", "memory"} |-> {}] /\ owed = disk
    BY FilesAre DEF Init, NoFile
  <2>2. DOMAIN disk = Files /\ disk \in [Files -> {disk[f] : f \in Files}]
    BY <2>1, FilesAre
  <2> QED
    BY <2>1, <2>2 DEF IsDisk
<1>9. asked \in [{"open", "write", "delete"} -> Counts]
  <2>1. <<>> \in Counts
    BY NoMap DEF Counts
  <2> QED
    BY <2>1 DEF Init, NoneAsked
<1>10. queue \in Seq(Events) /\ alive \in BOOLEAN /\ mode = "mounted" /\ shared = {} /\ work \in Work
  BY DEF Init
<1>11. mode # "unmounted"
  BY <1>10
<1> QED
  BY <1>1, <1>5, <1>6, <1>7, <1>8, <1>9, <1>10, <1>11 DEF Typed

\* Requests.
LEMMA RequestTyped ==
  ASSUME Typed, NEW kinds, NEW e \in Events, Request(kinds, e), files' \in Inodes, next' \in Nat,
         work = "edits" => \A i \in DOMAIN files' : i < next',
         work = "briefs" => e.kind \in {"open", "write", "delete"} /\ e.ino \in Ino
  PROVE  Typed'
<1>1. /\ queue' \in Seq(Events) /\ asked' \in [{"open", "write", "delete"} -> Counts]
      /\ mode = "mounted" /\ UNCHANGED <<ai, shared, alive, disk, mode, now, work, owed>>
  BY RequestIs
<1> QED
  BY <1>1 DEF Typed, IsAI, IsDisk

LEMMA StepTyped == Typed /\ [Next]_vars => Typed'
<1> SUFFICES ASSUME Typed, [Next]_vars PROVE Typed'
  OBVIOUS
<1>T. /\ files \in Inodes /\ DOMAIN files \subseteq Ino /\ next \in Nat
      /\ \A i \in DOMAIN files : /\ files[i].name \in Name /\ files[i].dir \in BOOLEAN
                                 /\ files[i].sent \in Sending /\ files[i] \in Inode
  BY InodeIs DEF Typed
<1>E. \A fs, i, x : fs \in Inodes /\ i \in Ino /\ x \in Inode => With(fs, i, x) \in Inodes
  BY WithIs DEF Inodes
<1>C. ASSUME NEW i \in DOMAIN files, NEW x \in Inode, files' = [files EXCEPT ![i] = x]
      PROVE  files' \in Inodes /\ DOMAIN files' = DOMAIN files
  BY <1>C, <1>T, InodesAre
<1>S. ASSUME Silent, files' \in Inodes, next' \in Nat, \A j \in DOMAIN files' : j < next'
      PROVE  Typed'
  BY <1>S DEF Silent, Typed, IsAI, IsDisk
<1>N. ASSUME work = "edits", next \in Ino, NEW x \in Inode, files' = With(files, next, x), next' = next + 1
      PROVE  files' \in Inodes /\ next' \in Nat /\ \A j \in DOMAIN files' : j < next'
  <2>1. files' \in Inodes /\ DOMAIN files' = DOMAIN files \cup {next}
    <3>1. DOMAIN With(files, next, x) = DOMAIN files \cup {next}
      BY DEF With
    <3> QED
      BY <1>T, <1>E, <1>N, <3>1
  <2>2. \A j \in DOMAIN files : j < next /\ j \in Nat
    BY <1>T, <1>N, Constants DEF Typed
  <2> QED
    BY <1>T, <1>N, <2>1, <2>2
<1>1. ASSUME NEW i \in Ino, Open(i) PROVE Typed'
  <2> DEFINE e == Event("open", i, files[i].name, {}, "", TRUE)
  <2>1. i \in DOMAIN files /\ Request({"opens", "briefs"}, e) /\ UNCHANGED <<files, next>>
    BY <1>1 DEF Open, Named
  <2>2. e \in Events /\ e.kind = "open" /\ e.ino = i
    BY <1>T, <2>1, EventIn DEF Events, Event
  <2>3. work # "edits"
    BY <2>1 DEF Request
  <2> HIDE DEF e
  <2> QED
    BY <1>T, <2>1, <2>2, <2>3, RequestTyped
<1>2. ASSUME NEW i \in Ino, Release(i) PROVE Typed'
  <2> DEFINE e == Event("close", i, files[i].name, {}, "", TRUE)
             x == [files[i] EXCEPT !.sent.open = FALSE]
  <2>1. /\ i \in DOMAIN files /\ Request({"edits"}, e) /\ next' = next
        /\ files' = [files EXCEPT ![i] = x]
    BY <1>2 DEF Release, IsFile
  <2>2. e \in Events /\ work # "briefs"
    BY <1>T, <2>1, EventIn DEF Events, Request
  <2>3. x \in Inode
    BY <1>T, <2>1 DEF Inode, Sending
  <2>4. files' \in Inodes /\ DOMAIN files' = DOMAIN files
    BY <1>C, <2>1, <2>3
  <2>5. work = "edits" => \A j \in DOMAIN files' : j < next'
    BY <2>1, <2>4 DEF Typed
  <2> HIDE DEF e, x
  <2> QED
    BY <1>T, <2>1, <2>2, <2>4, <2>5, RequestTyped
<1>3. ASSUME NEW i \in Ino, Unlink(i) PROVE Typed'
  <2> DEFINE e == Event("delete", i, files[i].name, {}, "", TRUE)
  <2>1. i \in DOMAIN files /\ Request({"edits", "briefs"}, e) /\ files' = Without(files, i) /\ next' = next
    BY <1>3 DEF Unlink, IsFile
  <2>2. e \in Events /\ e.kind = "delete" /\ e.ino = i
    BY <1>T, <2>1, EventIn DEF Events, Event
  <2>3. files' \in Inodes /\ DOMAIN files' \subseteq DOMAIN files
    <3>1. DOMAIN Without(files, i) = DOMAIN files \ {i} /\ Without(files, i) \in Inodes
      BY <1>T, WithoutIs, Zenon DEF Inodes
    <3> QED
      BY <2>1, <3>1
  <2>4. work = "edits" => \A j \in DOMAIN files' : j < next'
    BY <2>1, <2>3 DEF Typed
  <2> HIDE DEF e
  <2> QED
    BY <1>T, <2>1, <2>2, <2>3, <2>4, RequestTyped
<1>4. ASSUME NEW i \in Ino, NEW W \in SUBSET Word, NEW class \in Classes, NEW apart \in BOOLEAN,
             Write(i, W, class, apart)
      PROVE  Typed'
  <2> DEFINE e == Event("write", i, files[i].name, W, class, apart)
             x == [files[i] EXCEPT !.sent = Written(files[i].sent, W, apart)]
  <2>1. /\ i \in DOMAIN files /\ next' = next /\ files' = [files EXCEPT ![i] = x]
        /\ \E kinds : Request(kinds, e)
    BY <1>4 DEF Write, IsFile
  <2>2. PICK kinds : Request(kinds, e)
    BY <2>1
  <2>3. e \in Events /\ e.kind = "write" /\ e.ino = i
    BY <1>T, <2>1, EventIn DEF Events, Event
  <2>4. Written(files[i].sent, W, apart) \in Sending
    BY <1>T, <2>1, SendingIs
  <2>5. x \in Inode
    BY <1>T, <2>1, <2>4 DEF Inode
  <2>6. files' \in Inodes /\ DOMAIN files' = DOMAIN files
    BY <1>C, <2>1, <2>5
  <2>7. work = "edits" => \A j \in DOMAIN files' : j < next'
    BY <2>1, <2>6 DEF Typed
  <2> HIDE DEF e, x
  <2> QED
    BY <1>T, <2>1, <2>2, <2>3, <2>6, <2>7, RequestTyped
<1>5. ASSUME NEW i \in Ino, NEW n \in Name, Rename(i, n) PROVE Typed'
  <2>1. i \in DOMAIN files /\ Silent /\ next' = next
    BY <1>5 DEF Rename, Named
  <2>2. PICK over \in {{}} \cup {{j} : j \in Replaced(i, n)} :
          files' = [j \in DOMAIN files |->
                      IF j = i THEN [files[j] EXCEPT !.name = n]
                      ELSE IF j \in over THEN [files[j] EXCEPT !.place = "replaced"] ELSE files[j]]
    BY <1>5 DEF Rename
  <2>3. \A j \in DOMAIN files : /\ [files[j] EXCEPT !.name = n] \in Inode
                                /\ [files[j] EXCEPT !.place = "replaced"] \in Inode
    BY <1>T DEF Inode
  <2>4. /\ DOMAIN files' = DOMAIN files /\ files' = [j \in DOMAIN files' |-> files'[j]]
        /\ \A j \in DOMAIN files' : files'[j] \in Inode
    BY <1>T, <2>2, <2>3
  <2>5. files' \in Inodes
    BY <1>T, <2>4, InodesAre
  <2>6. \A j \in DOMAIN files' : j < next'
    BY <2>1, <2>4 DEF Typed, Silent
  <2> QED
    BY <1>S, <1>T, <2>1, <2>5, <2>6
<1>6. ASSUME NEW n \in Name, Create(n) PROVE Typed'
  <2> DEFINE e == Event("open", next, n, {}, "", TRUE)
             x == File(n, FALSE, Unsent)
  <2>1. next \in Ino /\ Request({"edits"}, e) /\ files' = With(files, next, x) /\ next' = next + 1
    BY <1>6 DEF Create
  <2>2. e \in Events /\ work = "edits"
    BY <1>T, <2>1, EventIn DEF Events, Request
  <2>3. x \in Inode
    BY FileIs, SendingIs
  <2> HIDE DEF e, x
  <2>4. files' \in Inodes /\ next' \in Nat /\ \A j \in DOMAIN files' : j < next'
    BY <1>N, <2>1, <2>2, <2>3
  <2> QED
    BY <2>1, <2>2, <2>4, RequestTyped
<1>M. ASSUME NEW n \in Name, Mkdir(n) PROVE Typed'
  <2> DEFINE x == File(n, TRUE, Unsent)
  <2>1. next \in Ino /\ Silent /\ work = "edits" /\ files' = With(files, next, x) /\ next' = next + 1
    BY <1>M DEF Mkdir, Silent
  <2>2. x \in Inode
    BY FileIs, SendingIs
  <2> HIDE DEF x
  <2>3. files' \in Inodes /\ next' \in Nat /\ \A j \in DOMAIN files' : j < next'
    BY <1>N, <2>1, <2>2
  <2> QED
    BY <1>S, <2>1, <2>3
<1>R. ASSUME NEW i \in Ino, Rmdir(i) PROVE Typed'
  <2> DEFINE x == [files[i] EXCEPT !.place = "removed"]
  <2>1. i \in DOMAIN files /\ Silent /\ work = "edits" /\ next' = next /\ files' = [files EXCEPT ![i] = x]
    BY <1>R DEF Rmdir, Named, Silent
  <2>2. x \in Inode
    BY <1>T, <2>1 DEF Inode
  <2>3. files' \in Inodes /\ DOMAIN files' = DOMAIN files
    BY <1>C, <2>1, <2>2
  <2>4. \A j \in DOMAIN files' : j < next'
    BY <2>1, <2>3 DEF Typed
  <2> QED
    BY <1>S, <1>T, <2>1, <2>3, <2>4
<1>7. ASSUME NEW w \in Word, Query(w) PROVE Typed'
  <2> DEFINE e == Event("query", 0, <<>>, {w}, "", TRUE)
  <2>1. Request({"edits"}, e) /\ UNCHANGED <<files, next>>
    BY <1>7 DEF Query
  <2>2. e \in Events /\ work # "briefs"
    BY <2>1, OwnEventIn DEF Events, Request
  <2>3. work = "edits" => \A j \in DOMAIN files' : j < next'
    BY <2>1 DEF Typed
  <2> HIDE DEF e
  <2> QED
    BY <1>T, <2>1, <2>2, <2>3, RequestTyped
<1>8. CASE Tick
  <2>1. now' \in Nat /\ now' >= 2 * DayLength
    BY <1>8, Constants DEF Tick, Typed
  <2> QED
    BY <1>8, <2>1 DEF Tick, Typed, IsAI, IsDisk
<1>9. CASE Handle
  <2> DEFINE e == Head(queue)
  <2>1. /\ UNCHANGED <<files, next, disk, mode, now, work, calls, owed, asked>>
        /\ mode # "unmounted" /\ queue # <<>>
        /\ \/ alive' \in BOOLEAN /\ UNCHANGED <<ai, shared, queue>>
           \/ IsAI(ai') /\ shared' = {Kept(ai')} /\ queue' = Tail(queue) /\ UNCHANGED alive
    BY <1>9, HandledIs
  <2>2. CASE alive' \in BOOLEAN /\ UNCHANGED <<ai, shared, queue>>
    BY <2>1, <2>2 DEF Typed, IsAI, IsDisk
  <2>3. CASE IsAI(ai') /\ shared' = {Kept(ai')} /\ queue' = Tail(queue) /\ UNCHANGED alive
    <3>1. Kept(ai') \in Publications
      BY <2>3, KeptIs
    <3>2. queue' \in Seq(Events)
      BY <2>1, <2>3, HeadTailProperties DEF Typed
    <3>3. IsAI(ai)'
      BY <2>3 DEF IsAI
    <3> QED
      BY <2>1, <2>3, <3>1, <3>2, <3>3 DEF Typed, IsDisk
  <2> QED
    BY <2>1, <2>2, <2>3
<1>10. CASE Destroy
  <2> DEFINE x == Event("end", 0, <<>>, {}, "", TRUE)
             y == Event("sync", 0, <<>>, {}, "", TRUE)
  <2>1. x \in Events /\ y \in Events /\ queue \in Seq(Events)
    BY OwnEventIn DEF Events, Typed
  <2>2. queue' = queue \/ queue' = queue \o <<x, y>>
    BY <1>10 DEF Destroy, Send
  <2> HIDE DEF x, y
  <2>3. queue' \in Seq(Events)
    <3>1. <<x, y>> \in Seq(Events)
      BY <2>1
    <3> HIDE DEF Events
    <3>2. queue \o <<x, y>> \in Seq(Events)
      BY <2>1, <3>1, ConcatProperties
    <3> QED
      BY <2>1, <2>2, <3>2
  <2>4. mode' = "ai" /\ UNCHANGED <<ai, shared, alive, files, next, disk, now, work, owed, asked>>
    BY <1>10 DEF Destroy
  <2> QED
    BY <2>3, <2>4, FilesAre DEF Typed, IsAI, IsDisk
<1>11. CASE Save
  <2>1. mode \in Files /\ UNCHANGED <<files, next, now, work, calls, asked>>
    BY <1>11 DEF Save
  <2>3. IsDisk(disk') /\ IsDisk(owed')
    BY <1>11, SaveTyped
  <2>5. CASE mode = "memory"
    <3>1. Ended("unmounted")
      BY <1>11, <2>5 DEF Save
    <3> QED
      BY <2>1, <2>3, <3>1, EndedTyped
  <2>6. CASE mode # "memory"
    <3>1. mode' = NextFile[mode] /\ UNCHANGED <<ai, shared, queue, alive>>
      BY <1>11, <2>6 DEF Save
    <3>2. mode' \in Files
      BY <2>1, <2>6, <3>1, FilesAre DEF NextFile
    <3>3. mode' # "unmounted"
      BY <3>2, FilesAre
    <3> QED
      BY <2>1, <2>3, <3>1, <3>2, <3>3 DEF Typed, IsAI, IsDisk
  <2> QED
    BY <2>5, <2>6
<1>12. CASE Crash
  <2>1. Ended("unmounted") /\ UNCHANGED <<files, next, now, work, asked>>
    BY <1>12 DEF Crash
  <2>2. IsDisk(disk') /\ IsDisk(owed')
    BY <1>12, CrashTyped
  <2> QED
    BY <2>1, <2>2, EndedTyped
<1>13. CASE Load
  BY <1>13, LoadTyped
<1>14. CASE UNCHANGED vars
  BY <1>14 DEF vars, Typed, IsAI, IsDisk
<1>15. ASSUME NEW i \in Ino,
              \/ \E W \in SUBSET Word, p \in BOOLEAN : Write(i, W, "short", p)
              \/ \E class \in Mod!Class : Write(i, {}, class, TRUE)
       PROVE  Typed'
  <2>1. "short" \in Classes /\ {} \in SUBSET Word /\ Classes = Mod!Class /\ TRUE \in BOOLEAN
    BY DEF Classes, Mod!Class
  <2> QED
    BY <1>4, <1>15, <2>1
<1>16. CASE Next
  BY <1>1, <1>2, <1>3, <1>5, <1>6, <1>7, <1>8, <1>9, <1>10, <1>11, <1>12, <1>13, <1>15, <1>M, <1>R,
     <1>16, Zenon DEF Next
<1> QED
  BY <1>14, <1>16

\* The state has its types.
THEOREM TypeCorrect == Spec => []Typed
<1>1. Init => Typed
  BY InitTyped
<1>2. Typed /\ [Next]_vars => Typed'
  BY StepTyped
<1> QED
  BY <1>1, <1>2, PTL DEF Spec

\* A step that is neither the engine's, nor an unmount's, nor a crash or a mount.
Quiet ==
  /\ UNCHANGED <<ai, shared, alive, disk, work, owed>>
  /\ now' \in Nat /\ now' >= now
  /\ mode' = mode \/ (mode = "mounted" /\ mode' = "ai")

LEMMA Steps == Typed /\ [Next]_vars => Quiet \/ Handle \/ Save \/ Crash \/ Load
<1> SUFFICES ASSUME Typed, [Next]_vars PROVE Quiet \/ Handle \/ Save \/ Crash \/ Load
  OBVIOUS
<1>1. now \in Nat /\ now >= now
  BY DEF Typed
<1>2. \A kinds, e : Request(kinds, e) => Quiet
  BY <1>1 DEF Request, Quiet
<1>3. ASSUME NEW i \in Ino, Open(i) \/ Release(i) \/ Unlink(i) PROVE Quiet
  BY <1>2, <1>3 DEF Open, Release, Unlink
<1>4. ASSUME NEW i, NEW W, NEW c, NEW p, Write(i, W, c, p) PROVE Quiet
  BY <1>2, <1>4 DEF Write
<1>5. ASSUME NEW n, Create(n) PROVE Quiet
  BY <1>2, <1>5 DEF Create
<1>6. ASSUME NEW w, Query(w) PROVE Quiet
  BY <1>2, <1>6 DEF Query
<1>S. Silent => Quiet
  BY <1>1 DEF Silent, Quiet
<1>7. ASSUME NEW i, NEW n, Rename(i, n) \/ Mkdir(n) \/ Rmdir(i) PROVE Quiet
  BY <1>7, <1>S DEF Rename, Mkdir, Rmdir
<1>8. CASE Tick
  BY <1>1, <1>8, Constants DEF Tick, Quiet
<1>9. CASE Destroy
  BY <1>1, <1>9 DEF Destroy, Quiet
<1>10. CASE UNCHANGED vars
  BY <1>1, <1>10 DEF vars, Quiet
<1>11. CASE Next
  BY <1>3, <1>4, <1>5, <1>6, <1>7, <1>8, <1>9, <1>11, Zenon DEF Next
<1> QED
  BY <1>10, <1>11

\* Whatever is done, a behaviour's kind of requests stays.
LEMMA WorkStays == Typed /\ [Next]_vars => work' = work
<1>1. Handle \/ Save \/ Crash \/ Load => work' = work
  BY DEF Handle, Save, Crash, Load
<1> QED
  BY <1>1, Steps DEF Quiet

-----------------------------------------------------------------------------
(***************************************************************************)
(* The alarms.                                                             *)
(***************************************************************************)
\* A write is sent with the name that its file has and keeps.
NamesSent ==
  /\ DOMAIN files = {2, 3} /\ \A i \in DOMAIN files : files[i].place = "named"
  /\ \A k \in 1 .. Len(queue) : queue[k].kind = "write" =>
       queue[k].ino \in {2, 3} /\ queue[k].name = files[queue[k].ino].name

\* The last write was taken for what the writes make of it.
LastRight ==
  LET ws == ai.guard.writes
      last == ws[Len(ws)]
  IN  ws # <<>> => last.ino \in {2, 3} /\ ai.guard.level = Mod!Level(ws, files[last.ino].name)

Alarms ==
  /\ GuardRight(ai.guard, now)
  /\ work = "alarms" => NamesSent /\ LastRight

\* Of a queue of which each element is Ok, so is each of the tail, and what is
\* appended to it has to be.
LEMMA QueueAll ==
  ASSUME NEW q \in Seq(Events)
  PROVE  /\ q # <<>> => /\ Tail(q) \in Seq(Events) /\ Len(Tail(q)) = Len(q) - 1
                        /\ Len(q) >= 1 /\ Head(q) = q[1]
                        /\ \A k \in 1 .. Len(Tail(q)) : Tail(q)[k] = q[k + 1] /\ k + 1 \in 1 .. Len(q)
         /\ \A e \in Events :
              /\ Append(q, e) \in Seq(Events) /\ Len(Append(q, e)) = Len(q) + 1
              /\ Append(q, e)[Len(q) + 1] = e
              /\ \A k \in 1 .. Len(q) : Append(q, e)[k] = q[k]
         /\ \A d, e \in Events :
              /\ q \o <<d, e>> = Append(Append(q, d), e)
         /\ Len(q) \in Nat
<1>1. Len(q) \in Nat
  OBVIOUS
<1>2. ASSUME q # <<>>
      PROVE  /\ Tail(q) \in Seq(Events) /\ Len(Tail(q)) = Len(q) - 1
             /\ Len(q) >= 1 /\ Head(q) = q[1]
             /\ \A k \in 1 .. Len(Tail(q)) : Tail(q)[k] = q[k + 1] /\ k + 1 \in 1 .. Len(q)
  BY <1>2, HeadTailProperties
<1>3. ASSUME NEW d \in Events, NEW e \in Events
      PROVE  q \o <<d, e>> = Append(Append(q, d), e)
  <2>1. /\ Append(q, d) \in Seq(Events) /\ Len(Append(q, d)) = Len(q) + 1
        /\ \A k \in 1 .. Len(q) + 1 : Append(q, d)[k] = IF k = Len(q) + 1 THEN d ELSE q[k]
    OBVIOUS
  <2> QED
    BY <2>1
<1> QED
  BY <1>1, <1>2, <1>3, AppendProperties

\* What a step does to the queue: it may grow at its end, while mounted.
LEMMA SentIs ==
  ASSUME Typed, NEW kinds, NEW e \in Events, Request(kinds, e)
  PROVE  queue' = queue \/ queue' = Append(queue, e)
<1>1. queue \o <<e>> = Append(queue, e)
  <2>1. queue \in Seq(Events)
    BY DEF Typed
  <2> QED
    BY <2>1
<1> QED
  BY <1>1 DEF Request, Send

LEMMA DestroySends ==
  ASSUME Typed, Destroy
  PROVE  LET d == Event("end", 0, <<>>, {}, "", TRUE)
             e == Event("sync", 0, <<>>, {}, "", TRUE)
         IN  /\ d \in OwnEvent("end") /\ e \in OwnEvent("sync") /\ d \in Events /\ e \in Events
             /\ ~alive => queue' = queue
             /\ alive => queue' = Append(Append(queue, d), e)
<1> DEFINE d == Event("end", 0, <<>>, {}, "", TRUE)
           e == Event("sync", 0, <<>>, {}, "", TRUE)
<1>1. d \in OwnEvent("end") /\ e \in OwnEvent("sync") /\ d \in Events /\ e \in Events
  BY OwnEventIn DEF Events
<1>2. queue' = IF alive THEN queue \o <<d, e>> ELSE queue
  BY DEF Destroy, Send
<1>3. queue \in Seq(Events) /\ alive \in BOOLEAN
  BY DEF Typed
<1> HIDE DEF d, e
<1>4. queue \o <<d, e>> = Append(Append(queue, d), e)
  BY <1>1, <1>3, QueueAll
<1>5. (~alive => queue' = queue) /\ (alive => queue' = Append(Append(queue, d), e))
  BY <1>2, <1>3, <1>4
<1> QED
  BY <1>1, <1>5 DEF d, e

\* The names sent are those of the files: all steps.
LEMMA NamesSentStep ==
  ASSUME Typed, [Next]_vars, work = "alarms", NamesSent
  PROVE  /\ NamesSent' /\ work' = work
         /\ \A i \in DOMAIN files : files'[i].name = files[i].name
<1> DEFINE Ok(e) == e.kind = "write" => e.ino \in {2, 3} /\ e.name = files[e.ino].name
           Same == /\ DOMAIN files' = DOMAIN files
                   /\ \A i \in DOMAIN files :
                        files'[i].name = files[i].name /\ files'[i].place = files[i].place
<1>1. queue \in Seq(Events) /\ Len(queue) \in Nat /\ \A k \in 1 .. Len(queue) : Ok(queue[k])
  BY DEF Typed, NamesSent
<1>2. ASSUME Same, NEW q \in Seq(Events), q = queue', \A k \in 1 .. Len(q) : Ok(q[k])
      PROVE  NamesSent' /\ \A i \in DOMAIN files : files'[i].name = files[i].name
  BY <1>2 DEF NamesSent
<1> SUFFICES NamesSent' /\ \A i \in DOMAIN files : files'[i].name = files[i].name
  BY WorkStays
<1>11. ASSUME NEW i \in Ino, NEW W \in SUBSET Word, NEW c \in Classes, NEW p \in BOOLEAN,
              Write(i, W, c, p)
      PROVE  Same /\ queue' \in Seq(Events) /\ \A k \in 1 .. Len(queue') : Ok(queue'[k])
  <2> DEFINE e == Event("write", i, files[i].name, W, c, p)
  <2>1. i \in DOMAIN files /\ files \in Inodes /\ files[i].name \in Name
    BY <1>11, InodeIs DEF Write, IsFile, Typed
  <2>2. e \in Events /\ Ok(e)
    <3>1. e \in FileEvent("write", Classes)
      BY <2>1, EventIn
    <3>2. i \in {2, 3}
      BY <2>1 DEF NamesSent
    <3> QED
      BY <3>1, <3>2 DEF Events, Event
  <2>3. queue' = queue \/ queue' = Append(queue, e)
    <3>1. \E kinds : Request(kinds, e)
      BY <1>11 DEF Write
    <3> QED
      BY <2>2, <3>1, SentIs
  <2>4. Same
    <3>1. files' = [files EXCEPT ![i].sent = Written(@, W, p)]
      BY <1>11 DEF Write
    <3>2. files[i] \in Inode
      BY <2>1, InodeIs
    <3> QED
      BY <2>1, <3>1, <3>2 DEF Inode
  <2> HIDE DEF e, Ok, Same
  <2> QED
    BY <1>1, <2>2, <2>3, <2>4, QueueAll
<1>12. CASE Tick \/ UNCHANGED vars
  BY <1>1, <1>2, <1>12 DEF Tick, vars
<1>13. CASE Destroy
  <2>1. Same
    BY <1>13 DEF Destroy
  <2> DEFINE d == Event("end", 0, <<>>, {}, "", TRUE)
             e == Event("sync", 0, <<>>, {}, "", TRUE)
  <2>2. d \in Events /\ e \in Events /\ Ok(d) /\ Ok(e)
    BY OwnEventIn DEF Events, Event
  <2>3. queue' = queue \/ queue' = Append(Append(queue, d), e)
    BY <1>13, DestroySends DEF Typed
  <2> HIDE DEF d, e, Ok, Same
  <2>4. ASSUME NEW q \in Seq(Events), \A k \in 1 .. Len(q) : Ok(q[k]), NEW x \in Events, Ok(x)
        PROVE  /\ Append(q, x) \in Seq(Events)
               /\ \A k \in 1 .. Len(Append(q, x)) : Ok(Append(q, x)[k])
    <3>1. /\ Append(q, x) \in Seq(Events) /\ Len(Append(q, x)) = Len(q) + 1 /\ Len(q) \in Nat
          /\ Append(q, x)[Len(q) + 1] = x /\ \A k \in 1 .. Len(q) : Append(q, x)[k] = q[k]
      BY QueueAll
    <3> QED
      BY <2>4, <3>1
  <2>5. /\ Append(Append(queue, d), e) \in Seq(Events)
        /\ \A k \in 1 .. Len(Append(Append(queue, d), e)) : Ok(Append(Append(queue, d), e)[k])
    <3>1. /\ Append(queue, d) \in Seq(Events)
          /\ \A k \in 1 .. Len(Append(queue, d)) : Ok(Append(queue, d)[k])
      BY <1>1, <2>2, <2>4
    <3> DEFINE q == Append(queue, d)
    <3> HIDE DEF q
    <3>2. q \in Seq(Events) /\ \A k \in 1 .. Len(q) : Ok(q[k])
      BY <3>1 DEF q
    <3>3. Append(q, e) \in Seq(Events) /\ \A k \in 1 .. Len(Append(q, e)) : Ok(Append(q, e)[k])
      BY <2>2, <2>4, <3>2
    <3> QED
      BY <3>3 DEF q
  <2>6. queue' \in Seq(Events) /\ \A k \in 1 .. Len(queue') : Ok(queue'[k])
    <3>1. CASE queue' = queue
      BY <1>1, <3>1
    <3>2. CASE queue' = Append(Append(queue, d), e)
      BY <2>5, <3>2
    <3> QED
      BY <2>3, <3>1, <3>2
  <2> QED
    BY <1>2, <2>1, <2>6
<1>14. \/ \E i \in Ino : \/ \E W \in SUBSET Word, p \in BOOLEAN : Write(i, W, "short", p)
                       \/ \E class \in Mod!Class : Write(i, {}, class, TRUE)
      \/ Tick \/ Destroy \/ UNCHANGED vars
      \/ Handle \/ Save \/ Crash \/ Load
  <2>1. \A kinds, e : Request(kinds, e) => "alarms" \in kinds
    BY DEF Request
  <2>2. \A i : ~Open(i) /\ ~Release(i) /\ ~Unlink(i)
    BY <2>1 DEF Open, Release, Unlink
  <2>3. \A i, n : ~Rename(i, n) /\ ~Mkdir(n) /\ ~Rmdir(i)
    BY DEF Rename, Mkdir, Rmdir, Silent
  <2>4. \A n : ~Create(n) /\ ~Query(n)
    BY <2>1 DEF Create, Query
  <2> QED
    BY <2>2, <2>3, <2>4, Zenon DEF Next
<1>15. "short" \in Classes /\ {} \in SUBSET Word /\ Classes = Mod!Class
  BY DEF Classes, Mod!Class
<1>16. CASE \E i \in Ino : \/ \E W \in SUBSET Word, p \in BOOLEAN : Write(i, W, "short", p)
                         \/ \E class \in Mod!Class : Write(i, {}, class, TRUE)
  <2>1. PICK i \in Ino : \/ \E W \in SUBSET Word, p \in BOOLEAN : Write(i, W, "short", p)
                        \/ \E class \in Mod!Class : Write(i, {}, class, TRUE)
    BY <1>16
  <2>2. \E W \in SUBSET Word, c \in Classes, p \in BOOLEAN : Write(i, W, c, p)
    BY <1>15, <2>1
  <2>3. Same /\ queue' \in Seq(Events) /\ \A k \in 1 .. Len(queue') : Ok(queue'[k])
    BY <1>11, <2>2
  <2> HIDE DEF Ok, Same
  <2> QED
    BY <1>2, <2>3
<1>17. CASE Handle \/ Save \/ Crash \/ Load
  <2>1. CASE Handle \/ Save
    <3>1. Same
      BY <2>1 DEF Handle, Save
    <3>2. queue' = queue \/ (queue # <<>> /\ queue' = Tail(queue)) \/ queue' = <<>>
      BY <2>1 DEF Handle, Save, Ended
    <3> HIDE DEF Same, Ok
    <3>3. ASSUME queue # <<>>
          PROVE  Tail(queue) \in Seq(Events) /\ \A k \in 1 .. Len(Tail(queue)) : Ok(Tail(queue)[k])
      BY <1>1, <3>3, QueueAll
    <3>4. <<>> \in Seq(Events) /\ Len(<<>>) = 0
      OBVIOUS
    <3>5. queue' \in Seq(Events) /\ \A k \in 1 .. Len(queue') : Ok(queue'[k])
      <4>1. CASE queue' = queue
        BY <1>1, <4>1
      <4>2. CASE queue # <<>> /\ queue' = Tail(queue)
        BY <3>3, <4>2
      <4>3. CASE queue' = <<>>
        BY <3>4, <4>3
      <4> QED
        BY <3>2, <4>1, <4>2, <4>3
    <3> QED
      BY <1>2, <3>1, <3>5
  <2>2. CASE Crash
    <3>1. Same /\ queue' = <<>>
      BY <2>2 DEF Crash, Ended
    <3>2. queue' \in Seq(Events) /\ \A k \in 1 .. Len(queue') : Ok(queue'[k])
      BY <3>1
    <3> HIDE DEF Same, Ok
    <3> QED
      BY <1>2, <3>1, <3>2
  <2>3. CASE Load
    <3>1. PICK text \in [Remaining -> SUBSET Word] : files' = FoundWith(text)
      BY <2>3, MountIs
    <3>2. Remaining = DOMAIN files /\ \A i \in DOMAIN files : files[i].place = "named"
      BY DEF Remaining, NamesSent
    <3>3. Same
      BY <3>1, <3>2 DEF FoundWith, File
    <3>4. queue' = queue
      BY <2>3, MountIs
    <3> HIDE DEF Same, Ok
    <3> QED
      BY <1>1, <1>2, <3>3, <3>4
  <2> QED
    BY <1>17, <2>1, <2>2, <2>3
<1> QED
  BY <1>12, <1>13, <1>14, <1>16, <1>17, WorkStays

\* What time does to the guard's records: nothing.
LEMMA RightLater ==
  ASSUME NEW g \in Guards, NEW t \in Nat, NEW u \in Nat, u >= t, GuardRight(g, t)
  PROVE  GuardRight(g, u)
<1>1. \A k \in 1 .. Len(g.writes) : g.writes[k].at \in Nat
  <2>1. g.writes \in Seq(Checked)
    BY DEF Guards
  <2>2. \A k \in 1 .. Len(g.writes) : g.writes[k] \in Checked
    BY <2>1
  <2> QED
    BY <2>2 DEF Checked
<1>2. \A v \in Nat : v >= u => v >= t
  OBVIOUS
<1>3. \A k \in 1 .. Len(g.writes) : g.writes[k].at <= u
  BY <1>1 DEF GuardRight
<1> QED
  BY <1>2, <1>3, Zenon DEF GuardRight

\* An engine that has just started has checked nothing.
LEMMA FreshAlarms ==
  ASSUME Typed', ai'.guard = Mod!NewGuard
  PROVE  GuardRight(ai'.guard, now') /\ LastRight'
<1>1. now' \in Nat
  BY DEF Typed
<1>2. ai'.guard.writes = <<>>
  BY DEF Mod!NewGuard
<1> QED
  BY <1>1, <1>2, NewGuardIs DEF LastRight

LEMMA InitAlarms == Init => Alarms
<1> SUFFICES ASSUME Init PROVE Alarms
  OBVIOUS
<1>1. now \in Nat /\ ai.guard = Mod!NewGuard
  BY InitTyped, NewAIIs DEF Typed, Init, Reindexed, NewAI
<1>2. GuardRight(ai.guard, now)
  BY <1>1, NewGuardIs
<1>3. ai.guard.writes = <<>>
  BY <1>1 DEF Mod!NewGuard
<1>4. work = "alarms" =>
        DOMAIN files = {2, 3} /\ \A i \in DOMAIN files : files[i].place = "named"
  BY DEF Init, File
<1>5. Len(queue) = 0
  BY DEF Init
<1> QED
  BY <1>2, <1>3, <1>4, <1>5 DEF Alarms, NamesSent, LastRight

\* A write that the engine takes.
LEMMA WriteAlarms ==
  ASSUME Typed, Alarms, NEW e \in FileEvent("write", Classes), ai' \in OnWrite(ai, e), now' = now
  PROVE  /\ GuardRight(ai'.guard, now')
         /\ LET ws == ai'.guard.writes
                last == ws[Len(ws)]
            IN  last.ino = e.ino /\ ai'.guard.level = Mod!Level(ws, e.name)
<1> DEFINE g == ai.guard
           h == Mod!check_write(g, e.ino, e.name, e.class, now)
           w == [ino |-> e.ino, class |-> e.class, at |-> now]
<1>1. g \in Guards /\ now \in Nat /\ IsAI(ai) /\ now <= now /\ GuardRight(g, now)
  BY DEF Typed, IsAI, Alarms
<1>2. e.ino \in Ino /\ e.name \in Name /\ e.class \in Classes /\ w.ino = e.ino
  BY DEF FileEvent
<1>3. ai'.guard = h
  BY <1>1, WriteIs
<1> HIDE DEF g, h
<1>4. GuardRight(h, now) /\ h.writes = Append(g.writes, w) /\ h.level = Mod!Level(h.writes, e.name)
  BY <1>1, <1>2, CheckRight DEF h
<1>5. g.writes \in Seq(Checked) /\ w \in Checked
  BY <1>1, <1>2 DEF Guards, Checked
<1> HIDE DEF w
<1>6. h.writes[Len(h.writes)] = w
  BY <1>4, <1>5, AppendProperties
<1> QED
  BY <1>2, <1>3, <1>4, <1>6

\* Nothing but a write reaches the guard.
LEMMA OtherAlarms ==
  ASSUME Typed, NEW e \in Events, NEW b \in handle_event(ai, e), e.kind # "write"
  PROVE  b.guard = ai.guard
<1>1. IsAI(ai) /\ now \in Nat
  BY DEF Typed
<1>2. \/ e \in FileEvent("open", {""}) /\ b \in OnOpen(ai, e)
      \/ e \in FileEvent("close", {""}) /\ b \in OnClose(ai, e)
      \/ e \in FileEvent("delete", {""}) /\ b \in OnDelete(ai, e)
      \/ e \in OwnEvent("query") /\ b \in OnQuery(ai, e)
      \/ e \in OwnEvent("end") /\ b \in OnEnd(ai)
      \/ e \in OwnEvent("sync") /\ b = ai
  <2>1. e \notin FileEvent("write", Classes)
    BY DEF FileEvent
  <2> QED
    BY <1>1, <2>1, HandleIs
<1>3. \A S : SameBut(ai, b, S) /\ "guard" \notin S => b.guard = ai.guard
  BY DEF SameBut, Fields
<1>4. CASE e \in FileEvent("open", {""}) /\ b \in OnOpen(ai, e)
  BY <1>1, <1>3, <1>4, OpenIs
<1>5. CASE e \in FileEvent("close", {""}) /\ b \in OnClose(ai, e)
  BY <1>1, <1>3, <1>5, CloseIs
<1>6. CASE e \in FileEvent("delete", {""}) /\ b \in OnDelete(ai, e)
  BY <1>1, <1>3, <1>6, DeleteIs
<1>7. CASE e \in OwnEvent("query") /\ b \in OnQuery(ai, e)
  BY <1>1, <1>3, <1>7, QueryIs
<1>8. CASE e \in OwnEvent("end") /\ b \in OnEnd(ai)
  BY <1>1, <1>3, <1>8, EndIs
<1> QED
  BY <1>2, <1>4, <1>5, <1>6, <1>7, <1>8

\* What a step that is none of the handlers' leaves in the engine.
LEMMA GuardKept ==
  ASSUME Typed, [Next]_vars
  PROVE  \/ ai'.guard = ai.guard /\ now' >= now
         \/ ai'.guard = Mod!NewGuard
         \/ Handle /\ now' = now
<1>1. Quiet => ai'.guard = ai.guard /\ now' >= now
  BY DEF Quiet
<1>2. now \in Nat /\ IsDisk(disk)
  BY DEF Typed
<1>3. NewAI.guard = Mod!NewGuard /\ now >= now
  BY <1>2, NewAIIs
<1>4. Save => ai'.guard = Mod!NewGuard \/ (ai' = ai /\ now' = now)
  BY <1>3 DEF Save, Ended
<1>5. Crash => ai'.guard = Mod!NewGuard
  BY <1>3 DEF Crash, Ended
<1>6. ASSUME Load PROVE ai'.guard = Mod!NewGuard
  <2>1. PICK order \in Orders(disk), text \in [Remaining -> SUBSET Word] :
          ai' = Reindexed(Restored(disk, order), FoundWith(text))
    BY <1>6, MountIs
  <2>2. SameBut(NewAI, Restored(disk, order), {"markov", "scores", "net", "memory"})
    BY <1>2, RestoredIs
  <2>3. IsAI(Restored(disk, order))
    BY <1>2, RestoredIs
  <2>4. ai'.guard = Restored(disk, order).guard
    BY <2>1, <2>3 DEF Reindexed, IsAI
  <2> QED
    BY <1>3, <2>2, <2>4 DEF SameBut, Fields
<1>7. Handle => now' = now
  BY DEF Handle
<1> QED
  BY <1>1, <1>2, <1>4, <1>5, <1>6, <1>7, Steps

LEMMA StepAlarms == Typed /\ Alarms /\ [Next]_vars => Alarms'
<1> SUFFICES ASSUME Typed, Alarms, [Next]_vars PROVE Alarms'
  OBVIOUS
<1>1. Typed' /\ now \in Nat /\ now' \in Nat /\ work' = work /\ ai.guard \in Guards
  BY StepTyped, WorkStays DEF Typed, IsAI
<1>2. work = "alarms" => /\ NamesSent' /\ DOMAIN files = {2, 3}
                         /\ \A i \in DOMAIN files : files'[i].name = files[i].name
  BY NamesSentStep DEF Alarms, NamesSent
<1>3. SUFFICES GuardRight(ai'.guard, now') /\ (work = "alarms" => LastRight')
  BY <1>1, <1>2 DEF Alarms
<1>4. ASSUME ai'.guard = ai.guard, now' >= now
      PROVE  GuardRight(ai'.guard, now') /\ (work = "alarms" => LastRight')
  <2>1. GuardRight(ai'.guard, now')
    BY <1>1, <1>4, RightLater DEF Alarms
  <2>2. work = "alarms" => LastRight'
    BY <1>2, <1>4 DEF Alarms, LastRight
  <2> QED
    BY <2>1, <2>2
<1>5. CASE ai'.guard = Mod!NewGuard
  BY <1>1, <1>5, FreshAlarms
<1>6. CASE Handle /\ now' = now
  <2> DEFINE e == Head(queue)
  <2>1. /\ e \in Events /\ queue # <<>> /\ files' = files
        /\ ai' = ai \/ ai' \in handle_event(ai, e)
    BY <1>6, HandledIs
  <2>2. CASE e.kind = "write" /\ ai' # ai
    <3>1. e \in FileEvent("write", Classes) /\ ai' \in OnWrite(ai, e)
      BY <2>1, <2>2, EventKind, Zenon DEF handle_event
    <3>2. /\ GuardRight(ai'.guard, now')
          /\ LET ws == ai'.guard.writes
                 last == ws[Len(ws)]
             IN  last.ino = e.ino /\ ai'.guard.level = Mod!Level(ws, e.name)
      BY <1>6, <3>1, WriteAlarms
    <3>3. work = "alarms" => e.ino \in {2, 3} /\ e.name = files[e.ino].name
      <4>1. queue \in Seq(Events)
        BY DEF Typed
      <4>2. 1 \in 1 .. Len(queue) /\ e = queue[1]
        BY <2>1, <4>1, QueueAll
      <4> QED
        BY <2>2, <4>2 DEF Alarms, NamesSent
    <3> QED
      BY <2>1, <3>2, <3>3 DEF LastRight
  <2>3. CASE e.kind # "write" \/ ai' = ai
    <3>1. ai'.guard = ai.guard
      BY <2>1, <2>3, OtherAlarms
    <3> QED
      BY <1>1, <1>4, <1>6, <3>1
  <2> QED
    BY <2>2, <2>3
<1> QED
  BY <1>4, <1>5, <1>6, GuardKept

\* A write is taken for what the writes of the window, and the file's first
\* one, make of it, however long the guard's lists have become
\* (EntropyGuard::check_write, ai/entropy.rs).
THEOREM AlarmsAreRight == Spec => []AlarmsMatchWindow
<1>1. Typed /\ Alarms => AlarmsMatchWindow
  BY DEF Alarms, AlarmsMatchWindow, LastRight
<1> QED
  BY <1>1, InitTyped, InitAlarms, StepTyped, StepAlarms, PTL DEF Spec

-----------------------------------------------------------------------------
(***************************************************************************)
(* Streaks.                                                                *)
(***************************************************************************)
\* D has n days in a row that end with b.
Row(D, b, n) == (b - n + 1) .. b \subseteq D

\* s is the streak of the days D, of which a longest run of one is none.
StreakRight(s, D) ==
  /\ s.last \in D /\ \A d \in D : d <= s.last
  /\ s.current >= 1 /\ Row(D, s.last, s.current) /\ s.last - s.current \notin D
  /\ s.longest # 0 => s.longest >= 2 /\ \E b \in D : Row(D, b, s.longest)
  /\ \A b \in D : ~Row(D, b, (IF s.longest = 0 THEN 1 ELSE s.longest) + 1)

\* The run that ends with a day is the one, if it can not be longer.
LEMMA RunIs ==
  ASSUME NEW D \in SUBSET Nat, IsFiniteSet(D), NEW b \in D, NEW n \in Nat \ {0},
         Row(D, b, n), b - n \notin D
  PROVE  Mem!RunTo(D, b) = n
<1>1. n <= Cardinality(D) /\ Cardinality(D) \in Nat
  <2>1. b - n + 1 \in Int /\ b \in Int /\ ~(b - n + 1 > b) /\ b - (b - n + 1) + 1 = n
    OBVIOUS
  <2>2. Cardinality((b - n + 1) .. b) = n
    BY <2>1, FS_Interval
  <2>3. Cardinality((b - n + 1) .. b) <= Cardinality(D) /\ Cardinality(D) \in Nat
    BY FS_Subset, FS_CardinalityType DEF Row
  <2> QED
    BY <2>2, <2>3
<1>2. \A k \in 1 .. Cardinality(D) :
        Mem!IsRun(D, b - k + 1, b) /\ b - k \notin D => k = n
  <2> SUFFICES ASSUME NEW k \in 1 .. Cardinality(D), (b - k + 1) .. b \subseteq D, b - k \notin D, k # n
               PROVE FALSE
    BY DEF Mem!IsRun
  <2>1. CASE k < n
    <3>1. b - k \in (b - n + 1) .. b
      BY <2>1
    <3> QED
      BY <3>1 DEF Row
  <2>2. CASE k > n
    <3>1. b - n \in (b - k + 1) .. b
      BY <2>2
    <3> QED
      BY <3>1
  <2> QED
    BY <1>1, <2>1, <2>2
<1>3. n \in 1 .. Cardinality(D) /\ Mem!IsRun(D, b - n + 1, b)
  BY <1>1 DEF Row, Mem!IsRun
<1> QED
  BY <1>2, <1>3, SameMemCard DEF Mem!RunTo

LEMMA RunExists ==
  ASSUME NEW D \in SUBSET Nat, NEW b \in D
  PROVE  \E n \in Nat \ {0} : Row(D, b, n) /\ b - n \notin D
<1> DEFINE T == {n \in Nat : b - n \notin D}
<1>1. b + 1 \in T
  BY DEF T
<1>2. PICK n \in T : \A k \in T : n <= k
  BY <1>1, Least
<1>3. n # 0
  BY <1>2
<1>4. \A d \in (b - n + 1) .. b : d \in D
  <2> SUFFICES ASSUME NEW d \in (b - n + 1) .. b, d \notin D PROVE FALSE
    OBVIOUS
  <2>1. b - d \in Nat /\ b - (b - d) = d
    BY <1>2
  <2>2. b - d \in T
    BY <2>1
  <2> QED
    BY <1>2, <2>2
<1> QED
  BY <1>2, <1>3, <1>4 DEF Row

LEMMA StreakIs ==
  ASSUME NEW D \in SUBSET Nat, IsFiniteSet(D), NEW s \in Streak, StreakRight(s, D)
  PROVE  LET longest == Mem!LongestRun(D)
         IN  s = [current |-> Mem!RunTo(D, Mem!LastDay(D)),
                  longest |-> IF longest > 1 THEN longest ELSE 0, last |-> Mem!LastDay(D)]
<1>1. s.last \in Nat /\ s.current \in Nat \ {0} /\ s.longest \in Nat
  BY DEF Streak, StreakRight
<1>2. Mem!LastDay(D) = s.last
  <2>1. \A d \in D : (\A e \in D : e <= d) => d = s.last
    BY <1>1 DEF StreakRight
  <2> QED
    BY <2>1 DEF Mem!LastDay, StreakRight
<1>3. Mem!RunTo(D, s.last) = s.current
  BY <1>1, RunIs DEF StreakRight
<1> DEFINE M == IF s.longest = 0 THEN 1 ELSE s.longest
           runs == {Mem!RunTo(D, b) : b \in D}
<1>4. \A n \in runs : n \in Nat \ {0} /\ n <= M
  <2> SUFFICES ASSUME NEW b \in D
               PROVE  Mem!RunTo(D, b) \in Nat \ {0} /\ Mem!RunTo(D, b) <= M
    OBVIOUS
  <2>1. PICK n \in Nat \ {0} : Row(D, b, n) /\ b - n \notin D
    BY RunExists
  <2>2. Mem!RunTo(D, b) = n
    BY <2>1, RunIs
  <2>3. n > M => Row(D, b, M + 1)
    BY <1>1, <2>1 DEF Row
  <2> QED
    BY <1>1, <2>2, <2>3 DEF StreakRight
<1>5. M \in runs
  <2>1. CASE s.longest = 0
    <3>1. Mem!RunTo(D, s.last) \in runs
      BY DEF StreakRight
    <3> QED
      BY <1>4, <2>1, <3>1
  <2>2. CASE s.longest # 0
    <3>1. PICK b \in D : Row(D, b, M)
      BY <2>2 DEF StreakRight
    <3>2. b - M \notin D
      <4> SUFFICES ASSUME b - M \in D PROVE FALSE
        OBVIOUS
      <4>1. Row(D, b, M + 1)
        BY <1>1, <3>1 DEF Row
      <4> QED
        BY <4>1 DEF StreakRight
    <3>3. Mem!RunTo(D, b) = M
      BY <1>1, <3>1, <3>2, RunIs
    <3> QED
      BY <3>3
  <2> QED
    BY <2>1, <2>2
<1>6. Mem!LongestRun(D) = M
  <2>1. Mem!LongestRun(D) = CHOOSE n \in runs : \A k \in runs : k <= n
    BY DEF Mem!LongestRun
  <2>2. M \in Nat
    BY <1>1
  <2> HIDE DEF M, runs
  <2>3. \A n \in runs : (\A k \in runs : k <= n) => n = M
    BY <1>4, <1>5, <2>2
  <2> QED
    BY <1>4, <1>5, <2>1, <2>3
<1>7. s.longest = IF Mem!LongestRun(D) > 1 THEN Mem!LongestRun(D) ELSE 0
  BY <1>1, <1>6 DEF StreakRight
<1> QED
  BY <1>2, <1>3, <1>7 DEF Streak

\* Being opened makes a streak that of the days with the new one.
LEMMA TouchFirst ==
  ASSUME NEW t \in Nat, t >= 2
  PROVE  StreakRight(Mem!touch(Mem!NewStreak, t), {t})
<1>1. Mem!touch(Mem!NewStreak, t) = [current |-> 1, longest |-> 0, last |-> t]
  BY DEF Mem!touch, Mem!NewStreak
<1>2. (t - 1 + 1) .. t = {t} /\ t - 1 # t /\ t - 1 \in (t - 2 + 1) .. t
  OBVIOUS
<1> QED
  BY <1>1, <1>2 DEF StreakRight, Row

LEMMA TouchRight ==
  ASSUME NEW D \in SUBSET Nat, NEW s \in Streak, StreakRight(s, D), NEW t \in Nat, t >= s.last
  PROVE  StreakRight(Mem!touch(s, t), D \cup {t})
<1> DEFINE E == D \cup {t}
           u == Mem!touch(s, t)
<1>1. s.last \in Nat /\ s.current \in Nat \ {0} /\ s.longest \in Nat
  BY DEF Streak, StreakRight
<1>2. CASE t = s.last
  <2>1. E = D
    BY <1>2 DEF StreakRight
  <2>2. u = s
    BY <1>1, <1>2 DEF Mem!touch, Streak
  <2> QED
    BY <2>1, <2>2
<1> DEFINE longer == t = s.last + 1 /\ s.current + 1 > s.longest
           now_ == IF t = s.last + 1 THEN s.current + 1 ELSE 1
           most == IF longer THEN s.current + 1 ELSE s.longest
           M == IF s.longest = 0 THEN 1 ELSE s.longest
           N == IF most = 0 THEN 1 ELSE most
<1>3. CASE t > s.last
  <2>1. u.current = now_ /\ u.longest = most /\ u.last = t
    BY <1>1, <1>3 DEF Mem!touch
  <2>2. t \in E /\ (\A d \in E : d <= t) /\ \A d \in D : d < t
    BY <1>1, <1>3 DEF StreakRight
  <2>3. Row(E, t, now_) /\ t - now_ \notin E /\ now_ >= 1
    <3>1. CASE t = s.last + 1
      <4>1. t - (s.current + 1) = s.last - s.current
        BY <1>1, <3>1
      <4>2. (t - (s.current + 1) + 1) .. t = ((s.last - s.current + 1) .. s.last) \cup {t}
        BY <1>1, <3>1
      <4>3. s.last - s.current # t
        BY <1>1, <3>1
      <4> QED
        BY <1>1, <3>1, <4>1, <4>2, <4>3 DEF StreakRight, Row
    <3>2. CASE t # s.last + 1
      <4>1. (t - 1 + 1) .. t = {t} /\ t - 1 > s.last /\ t - 1 # t
        BY <1>1, <1>3, <3>2
      <4>2. t - 1 \notin D
        BY <1>1, <4>1 DEF StreakRight
      <4> QED
        BY <3>2, <4>1, <4>2 DEF Row
    <3> QED
      BY <3>1, <3>2
  <2>4. most # 0 => most >= 2 /\ \E b \in E : Row(E, b, most)
    <3>1. CASE longer
      BY <1>1, <2>2, <2>3, <3>1
    <3>2. CASE ~longer
      BY <3>2 DEF StreakRight, Row
    <3> QED
      BY <3>1, <3>2
  <2>5. M <= N /\ M \in Nat /\ N \in Nat /\ M >= 1 /\ now_ <= N /\ now_ \in Nat
    BY <1>1
  <2>6. ASSUME NEW b \in E, Row(E, b, N + 1) PROVE FALSE
    <3>1. CASE b = t
      <4>1. t - now_ \in (t - (N + 1) + 1) .. t
        BY <2>5
      <4> QED
        BY <2>3, <2>6, <3>1, <4>1 DEF Row
    <3>2. CASE b # t
      <4>1. b \in D /\ b < t
        BY <2>2, <3>2
      <4>2. (b - (M + 1) + 1) .. b \subseteq (b - (N + 1) + 1) .. b
        BY <2>5, <4>1
      <4>3. \A d \in (b - (N + 1) + 1) .. b : d # t
        BY <2>5, <4>1
      <4>4. Row(D, b, M + 1)
        BY <2>6, <4>2, <4>3 DEF Row
      <4> QED
        BY <4>1, <4>4 DEF StreakRight
    <3> QED
      BY <3>1, <3>2
  <2> HIDE DEF now_, most, E, u, longer, M
  <2> QED
    BY <2>1, <2>2, <2>3, <2>4, <2>6 DEF StreakRight, E, u
<1> QED
  BY <1>1, <1>2, <1>3

-----------------------------------------------------------------------------
(***************************************************************************)
(* The days on which files were opened.                                    *)
(***************************************************************************)
Of(h, i) == {k \in 1 .. Len(h) : h[k].ino = i}
DaysIn(h, i) == {h[k].day : k \in Of(h, i)}
OnDay(h, i, d) == {k \in 1 .. Len(h) : h[k].ino = i /\ h[k].day = d}

\* What the memory has of file i is what happened.
FileRight(m, i) ==
  /\ m.opens[i] = Cardinality(Of(m.history.opens, i))
  /\ StreakRight(m.streaks[i], DaysIn(m.history.opens, i))
  /\ \A k \in 1 .. 2 * Week :
       m.daily[i][k] = Cardinality(OnDay(m.history.opens, i, m.last_day - 2 * Week + k))

\* Of the files that no save has cut each table has those that were opened.
DaysRight(m, t) ==
  /\ m.last_day <= t
  /\ \A k \in 1 .. Len(m.history.opens) :
       m.history.opens[k].day >= 2 /\ m.history.opens[k].day <= m.last_day
  /\ \A i \in Ino \ m.cut :
       /\ i \in DOMAIN m.opens <=> Of(m.history.opens, i) # {}
       /\ DOMAIN m.streaks \cap {i} = DOMAIN m.opens \cap {i}
       /\ DOMAIN m.daily \cap {i} = DOMAIN m.opens \cap {i}
       /\ i \in DOMAIN m.opens => FileRight(m, i)

LEMMA HistoryFinite ==
  ASSUME NEW h \in Seq(Opened), NEW i
  PROVE  /\ IsFiniteSet(Of(h, i)) /\ Cardinality(Of(h, i)) \in Nat
         /\ (Cardinality(Of(h, i)) = 0 <=> Of(h, i) = {})
         /\ DaysIn(h, i) \in SUBSET Nat /\ IsFiniteSet(DaysIn(h, i))
         /\ (DaysIn(h, i) = {} <=> Of(h, i) = {})
         /\ \A d : IsFiniteSet(OnDay(h, i, d)) /\ Cardinality(OnDay(h, i, d)) \in Nat
                   /\ (d \notin DaysIn(h, i) => Cardinality(OnDay(h, i, d)) = 0)
<1>1. Len(h) \in Nat /\ IsFiniteSet(1 .. Len(h)) /\ \A k \in 1 .. Len(h) : h[k].day \in Nat
  <2>1. \A k \in 1 .. Len(h) : h[k] \in Opened
    OBVIOUS
  <2>2. Len(h) \in Nat
    OBVIOUS
  <2> QED
    <3>1. IsFiniteSet(1 .. Len(h))
      BY <2>2, FS_Interval
    <3> QED
      BY <2>1, <2>2, <3>1 DEF Opened
<1>2. IsFiniteSet(Of(h, i)) /\ Cardinality(Of(h, i)) \in Nat
      /\ (Cardinality(Of(h, i)) = 0 <=> Of(h, i) = {})
  <2>1. Of(h, i) \in SUBSET (1 .. Len(h))
    BY DEF Of
  <2> QED
    BY <1>1, <2>1, FS_Subset, FS_CardinalityType, FS_EmptySet
<1>3. DaysIn(h, i) \in SUBSET Nat /\ (DaysIn(h, i) = {} <=> Of(h, i) = {})
  BY <1>1 DEF DaysIn, Of
<1>4. IsFiniteSet(DaysIn(h, i))
  <2> DEFINE f == [k \in Of(h, i) |-> h[k].day]
  <2>1. f \in Surjection(Of(h, i), DaysIn(h, i))
    BY DEF Surjection, DaysIn
  <2> QED
    BY <1>2, <2>1, FS_Surjection
<1>5. ASSUME NEW d
      PROVE  IsFiniteSet(OnDay(h, i, d)) /\ Cardinality(OnDay(h, i, d)) \in Nat
             /\ (d \notin DaysIn(h, i) => Cardinality(OnDay(h, i, d)) = 0)
  <2>1. OnDay(h, i, d) \in SUBSET (1 .. Len(h))
    BY DEF OnDay
  <2>2. d \notin DaysIn(h, i) => OnDay(h, i, d) = {}
    BY DEF OnDay, DaysIn, Of
  <2> QED
    BY <1>1, <2>1, <2>2, FS_Subset, FS_CardinalityType, FS_EmptySet
<1> QED
  BY <1>2, <1>3, <1>4, <1>5

\* One more open of file i, on day t.
IsOpened(h, i, t, new) ==
  /\ Len(new) = Len(h) + 1
  /\ \A k \in 1 .. Len(h) : new[k] = h[k]
  /\ new[Len(h) + 1] = [ino |-> i, day |-> t]
  /\ Of(new, i) # {} /\ Cardinality(Of(new, i)) = Cardinality(Of(h, i)) + 1
  /\ DaysIn(new, i) = DaysIn(h, i) \cup {t}
  /\ \A d : Cardinality(OnDay(new, i, d)) =
              Cardinality(OnDay(h, i, d)) + (IF d = t THEN 1 ELSE 0)
  /\ \A j : j # i => /\ Of(new, j) = Of(h, j) /\ DaysIn(new, j) = DaysIn(h, j)
                     /\ \A d : OnDay(new, j, d) = OnDay(h, j, d)

LEMMA HistoryStep ==
  ASSUME NEW h \in Seq(Opened), NEW i \in Ino, NEW t \in Nat
  PROVE  Append(h, [ino |-> i, day |-> t]) \in Seq(Opened)
         /\ IsOpened(h, i, t, Append(h, [ino |-> i, day |-> t]))
<1> DEFINE w == [ino |-> i, day |-> t]
           new == Append(h, w)
           n == Len(h)
<1>1. w \in Opened /\ w.ino = i /\ w.day = t /\ n \in Nat
  BY DEF Opened
<1>2. /\ new \in Seq(Opened) /\ Len(new) = n + 1
      /\ \A k \in 1 .. n : new[k] = h[k]
      /\ new[n + 1] = w
  BY <1>1, AppendProperties
<1> HIDE DEF w, new, n
<1>3. 1 .. Len(new) = (1 .. n) \cup {n + 1} /\ n + 1 \notin 1 .. n
  BY <1>1, <1>2
<1>4. Of(new, i) = Of(h, i) \cup {n + 1} /\ n + 1 \notin Of(h, i)
  BY <1>1, <1>2, <1>3 DEF Of, n
<1>5. \A j : j # i => Of(new, j) = Of(h, j)
  BY <1>1, <1>2, <1>3 DEF Of, n
<1>6. \A j : \A k \in Of(h, j) : new[k] = h[k]
  BY <1>2 DEF Of, n
<1>7. DaysIn(new, i) = DaysIn(h, i) \cup {t}
  BY <1>1, <1>2, <1>4, <1>6 DEF DaysIn
<1>8. \A j : j # i => DaysIn(new, j) = DaysIn(h, j)
  BY <1>5, <1>6 DEF DaysIn
<1>9. \A d : OnDay(new, i, d) = OnDay(h, i, d) \cup {k \in {n + 1} : d = t}
             /\ n + 1 \notin OnDay(h, i, d)
  BY <1>1, <1>2, <1>3 DEF OnDay, n
<1>10. \A j, d : j # i => OnDay(new, j, d) = OnDay(h, j, d)
  BY <1>1, <1>2, <1>3 DEF OnDay, n
<1>11. Cardinality(Of(new, i)) = Cardinality(Of(h, i)) + 1
  BY <1>4, HistoryFinite, FS_AddElement
<1>12. ASSUME NEW d
       PROVE  Cardinality(OnDay(new, i, d)) = Cardinality(OnDay(h, i, d)) + (IF d = t THEN 1 ELSE 0)
  <2>1. IsFiniteSet(OnDay(h, i, d)) /\ Cardinality(OnDay(h, i, d)) \in Nat
    BY HistoryFinite
  <2>2. CASE d = t
    <3>1. OnDay(new, i, d) = OnDay(h, i, d) \cup {n + 1}
      BY <1>9, <2>2
    <3> QED
      BY <1>9, <2>1, <2>2, <3>1, FS_AddElement
  <2>3. CASE d # t
    <3>1. OnDay(new, i, d) = OnDay(h, i, d)
      BY <1>9, <2>3
    <3> QED
      BY <2>1, <2>3, <3>1
  <2> QED
    BY <2>2, <2>3
<1> QED
  BY <1>2, <1>4, <1>5, <1>7, <1>8, <1>10, <1>11, <1>12 DEF w, new, n, IsOpened

LEMMA NewDays == \A t \in Nat : \A u \in Nat : t <= u => DaysRight(Mem!NewMemory(t), u)
<1> SUFFICES ASSUME NEW t \in Nat, NEW u \in Nat, t <= u PROVE DaysRight(Mem!NewMemory(t), u)
  OBVIOUS
<1>1. LET m == Mem!NewMemory(t)
      IN  /\ m.last_day = t /\ m.history.opens = <<>> /\ DOMAIN m.opens = {}
          /\ DOMAIN m.streaks = {} /\ DOMAIN m.daily = {}
  BY DEF Mem!NewMemory
<1>2. Len(<<>>) = 0 /\ \A i : Of(<<>>, i) = {}
  BY DEF Of
<1> QED
  BY <1>1, <1>2 DEF DaysRight

LEMMA AccessDays ==
  ASSUME NEW m \in Memories, NEW i \in Ino, NEW n \in Name, NEW t \in Nat, t >= 2,
         DaysRight(m, t)
  PROVE  DaysRight(Mem!record_access(m, i, n, t), t)
<1> DEFINE u == Mem!record_access(m, i, n, t)
           a == Mem!Advanced(m, t)
           zero == [k \in 1 .. 2 * Week |-> 0]
           c == Value(a.daily, i, zero)
           h == m.history.opens
           new == Append(h, [ino |-> i, day |-> t])
           s == Value(m.streaks, i, Mem!NewStreak)
<1>1. h \in Seq(Opened) /\ m.last_day \in Nat /\ m.last_day <= t /\ 2 * Week \in Nat \ {0}
  BY Constants DEF Memories, DaysRight
<1>2. /\ u.opens = Counted(m.opens, i) /\ u.streaks = With(m.streaks, i, Mem!touch(s, t))
      /\ u.daily = With(a.daily, i, [c EXCEPT ![2 * Week] = @ + 1])
      /\ u.last_day = a.last_day /\ u.cut = m.cut /\ u \in Memories
      /\ u.history.opens = new
  <2>1. u \in Memories /\ IsAccessed(m, i, n, t, u)
    BY AccessIs
  <2> HIDE DEF u
  <2> QED
    BY <2>1 DEF IsAccessed
<1>3. u.history.opens = new
  BY <1>2
<1>4. /\ a.last_day = t /\ DOMAIN a.daily = DOMAIN m.daily
      /\ \A j \in DOMAIN m.daily, k \in 1 .. 2 * Week :
           LET k2 == k + (t - m.last_day)
           IN  a.daily[j][k] = IF k2 <= 2 * Week THEN m.daily[j][k2] ELSE 0
  <2>1. IsAdvanced(m, t, a)
    BY AdvancedIs
  <2> HIDE DEF a
  <2>2. a.last_day = t
    BY <1>1, <2>1 DEF IsAdvanced
  <2> QED
    BY <2>1, <2>2 DEF IsAdvanced
<1>5. new \in Seq(Opened) /\ Len(h) \in Nat /\ IsOpened(h, i, t, new)
  <2> HIDE DEF h
  <2>1. new \in Seq(Opened) /\ IsOpened(h, i, t, new)
    BY <1>1, HistoryStep
  <2> QED
    BY <1>1, <2>1
\* The windows have moved on to day t.
<1>6. ASSUME NEW j \in Ino, NEW k \in 1 .. 2 * Week,
             j \in DOMAIN m.daily => FileRight(m, j), j \notin DOMAIN m.daily => Of(h, j) = {}
      PROVE  Value(a.daily, j, zero)[k] = Cardinality(OnDay(h, j, t - 2 * Week + k))
  <2> DEFINE d == t - 2 * Week + k
             k2 == k + (t - m.last_day)
  <2>0. \A p \in 1 .. Len(h) : h[p].day <= m.last_day
    BY DEF DaysRight
  <2>1. CASE j \notin DOMAIN m.daily
    <3>1. Value(a.daily, j, zero)[k] = 0
      BY <1>4, <2>1 DEF Value
    <3>2. d \notin DaysIn(h, j)
      BY <1>6, <2>1 DEF DaysIn
    <3> HIDE DEF d
    <3>3. Cardinality(OnDay(h, j, d)) = 0
      BY <1>1, <3>2, HistoryFinite
    <3> QED
      BY <3>1, <3>3 DEF d
  <2>2. CASE j \in DOMAIN m.daily
    <3>1. Value(a.daily, j, zero)[k] = IF k2 <= 2 * Week THEN m.daily[j][k2] ELSE 0
      BY <1>4, <2>2 DEF Value
    <3>2. CASE k2 <= 2 * Week
      <4>1. k2 \in 1 .. 2 * Week /\ m.last_day - 2 * Week + k2 = d
        BY <1>1, <3>2
      <4>2. m.daily[j][k2] = Cardinality(OnDay(h, j, m.last_day - 2 * Week + k2))
        BY <1>6, <2>2, <4>1 DEF FileRight
      <4> HIDE DEF k2, d
      <4> QED
        BY <3>1, <3>2, <4>1, <4>2 DEF d
    <3>3. CASE ~(k2 <= 2 * Week)
      <4>1. d > m.last_day /\ d \in Int
        BY <1>1, <3>3
      <4> HIDE DEF d, k2
      <4>2. d \notin DaysIn(h, j)
        <5>1. \A p \in Of(h, j) : h[p].day <= m.last_day
          BY <2>0 DEF Of
        <5> QED
          BY <1>1, <4>1, <5>1 DEF DaysIn
      <4>3. Cardinality(OnDay(h, j, d)) = 0
        BY <1>1, <4>2, HistoryFinite
      <4> QED
        BY <3>1, <3>3, <4>3 DEF d
    <3> QED
      BY <3>2, <3>3
  <2> QED
    BY <2>1, <2>2
<1>7. \A k \in 1 .. Len(new) : new[k].day >= 2 /\ new[k].day <= t
  <2>1. \A k \in 1 .. Len(h) : h[k].day >= 2 /\ h[k].day <= m.last_day /\ h[k].day \in Nat
    <3>1. \A k \in 1 .. Len(h) : h[k] \in Opened
      BY <1>1
    <3> QED
      BY <3>1 DEF DaysRight, Opened
  <2> HIDE DEF h, new
  <2>2. \A k \in 1 .. Len(h) : new[k].day >= 2 /\ new[k].day <= t
    BY <1>1, <1>5, <2>1 DEF IsOpened
  <2>3. new[Len(h) + 1].day = t
    BY <1>5 DEF IsOpened
  <2> QED
    BY <1>5, <2>2, <2>3 DEF IsOpened
<1> HIDE DEF u, a, c, h, new, s, zero
<1>8. ASSUME NEW j \in Ino \ m.cut
      PROVE  /\ j \in DOMAIN u.opens <=> Of(new, j) # {}
             /\ DOMAIN u.streaks \cap {j} = DOMAIN u.opens \cap {j}
             /\ DOMAIN u.daily \cap {j} = DOMAIN u.opens \cap {j}
             /\ j \in DOMAIN u.opens => FileRight(u, j)
  <2>1. /\ j \in DOMAIN m.opens <=> Of(h, j) # {}
        /\ j \in DOMAIN m.streaks <=> j \in DOMAIN m.opens
        /\ j \in DOMAIN m.daily <=> j \in DOMAIN m.opens
        /\ j \in DOMAIN m.opens => FileRight(m, j)
    BY DEF DaysRight, h
  <2>2. \A k \in 1 .. 2 * Week :
          Value(a.daily, j, zero)[k] = Cardinality(OnDay(h, j, t - 2 * Week + k))
    BY <1>6, <2>1
  <2>3. /\ j \in DOMAIN u.opens <=> j \in DOMAIN m.opens \/ j = i
        /\ j \in DOMAIN u.streaks <=> j \in DOMAIN m.streaks \/ j = i
        /\ j \in DOMAIN u.daily <=> j \in DOMAIN m.daily \/ j = i
    BY <1>2, <1>4, ValueWith DEF Counted
  <2>4. CASE j # i
    <3>1. /\ j \in DOMAIN m.opens => u.opens[j] = m.opens[j]
          /\ j \in DOMAIN m.streaks => u.streaks[j] = m.streaks[j]
          /\ j \in DOMAIN m.daily => u.daily[j] = a.daily[j] /\ a.daily[j] = Value(a.daily, j, zero)
      BY <1>2, <1>4, <2>4, ValueWith DEF Counted, Value
    <3>2. ASSUME j \in DOMAIN m.opens PROVE FileRight(u, j)
      <4>1. u.opens[j] = Cardinality(Of(new, j)) /\ StreakRight(u.streaks[j], DaysIn(new, j))
        BY <1>5, <2>1, <2>4, <3>1, <3>2 DEF FileRight, h, IsOpened
      <4>2. \A k \in 1 .. 2 * Week : u.daily[j][k] = Cardinality(OnDay(new, j, t - 2 * Week + k))
        BY <1>5, <2>1, <2>2, <2>4, <3>1, <3>2 DEF IsOpened
      <4> QED
        BY <1>2, <1>3, <1>4, <4>1, <4>2 DEF FileRight
    <3> QED
      BY <1>5, <2>1, <2>3, <2>4, <3>2 DEF IsOpened
  <2>5. CASE j = i
    <3>1. u.opens[i] = Value(m.opens, i, 0) + 1 /\ u.streaks[i] = Mem!touch(s, t)
          /\ u.daily[i] = [c EXCEPT ![2 * Week] = @ + 1]
      BY <1>2, ValueWith DEF Counted
    <3>2. u.opens[i] = Cardinality(Of(new, i))
      <4>1. Value(m.opens, i, 0) = Cardinality(Of(h, i))
        <5>1. Of(h, i) = {} => Cardinality(Of(h, i)) = 0
          BY <1>1, HistoryFinite
        <5> QED
          BY <2>1, <2>5, <5>1 DEF Value, FileRight, h
      <4> QED
        BY <1>5, <3>1, <4>1 DEF IsOpened
    <3>3. StreakRight(u.streaks[i], DaysIn(new, i))
      <4>1. CASE i \in DOMAIN m.streaks
        <5>1. s = m.streaks[i] /\ m.streaks \in Maps(Ino, Streak)
          BY <4>1 DEF s, Value, Memories
        <5>2. s \in Streak /\ StreakRight(s, DaysIn(h, i))
          BY <2>1, <2>5, <4>1, <5>1, MapsIs DEF FileRight, h
        <5>3. t >= s.last
          <6>1. s.last \in DaysIn(h, i)
            BY <5>2 DEF StreakRight
          <6>2. \A k \in Of(h, i) : h[k].day <= m.last_day
            BY DEF Of, h, DaysRight
          <6>3. s.last <= m.last_day /\ s.last \in Nat
            BY <5>2, <6>1, <6>2 DEF DaysIn, Streak
          <6> QED
            BY <1>1, <6>3
        <5>4. DaysIn(h, i) \in SUBSET Nat
          BY <1>1, HistoryFinite
        <5> QED
          BY <1>5, <3>1, <5>2, <5>3, <5>4, TouchRight DEF IsOpened
      <4>2. CASE i \notin DOMAIN m.streaks
        <5>1. s = Mem!NewStreak
          BY <4>2 DEF s, Value
        <5>2. DaysIn(new, i) = {t}
          BY <1>5, <2>1, <2>5, <4>2 DEF DaysIn, IsOpened
        <5> QED
          BY <3>1, <5>1, <5>2, TouchFirst
      <4> QED
        BY <4>1, <4>2
    <3>4. ASSUME NEW k \in 1 .. 2 * Week
          PROVE  u.daily[i][k] = Cardinality(OnDay(new, i, t - 2 * Week + k))
      <4>1. c[k] = Cardinality(OnDay(h, i, t - 2 * Week + k))
        BY <2>2, <2>5 DEF c
      <4>2. c \in Days
        <5>1. a.daily \in Maps(Ino, Days)
          BY AdvancedIs DEF a, Memories
        <5>2. zero \in Days
          BY DEF zero, Days
        <5> QED
          BY <5>1, <5>2, ValueIs DEF c
      <4>3. [c EXCEPT ![2 * Week] = @ + 1][k] = c[k] + (IF k = 2 * Week THEN 1 ELSE 0)
        BY <1>1, <4>2 DEF Days
      <4>4. t - 2 * Week + k = t <=> k = 2 * Week
        BY <1>1
      <4>5. Cardinality(OnDay(new, i, t - 2 * Week + k)) =
              Cardinality(OnDay(h, i, t - 2 * Week + k)) + (IF t - 2 * Week + k = t THEN 1 ELSE 0)
        BY <1>5 DEF IsOpened
      <4> QED
        BY <3>1, <4>1, <4>3, <4>4, <4>5
    <3>5. FileRight(u, i)
      BY <1>2, <1>3, <1>4, <3>2, <3>3, <3>4 DEF FileRight
    <3> QED
      BY <1>5, <2>3, <2>5, <3>5 DEF IsOpened
  <2> QED
    BY <2>4, <2>5
<1>9. t <= t
  OBVIOUS
<1>10. DaysRight(u, t)
  BY <1>2, <1>3, <1>4, <1>7, <1>8, <1>9, Zenon DEF DaysRight
<1> QED
  BY <1>10 DEF u

\* A memory that is right says what happened.
LEMMA DaysAreRight ==
  ASSUME NEW m \in Memories, NEW t, DaysRight(m, t)
  PROVE  Mem!DaysRemembered(m)
<1> DEFINE h == m.history.opens
<1>1. h \in Seq(Opened) /\ DOMAIN h = 1 .. Len(h)
  BY DEF Memories
<1>2. \A k \in 1 .. Len(h) : h[k] \in Opened
  BY <1>1
<1>3. SUFFICES ASSUME NEW i \in DOMAIN m.opens \ m.cut
      PROVE  LET D == Mem!DaysOf(m, i)
                 longest == Mem!LongestRun(D)
             IN  /\ m.opens[i] = Cardinality({k \in DOMAIN h : h[k].ino = i})
                 /\ m.streaks[i] = [current |-> Mem!RunTo(D, Mem!LastDay(D)),
                                    longest |-> IF longest > 1 THEN longest ELSE 0,
                                    last |-> Mem!LastDay(D)]
                 /\ m.daily[i] = [k \in 1 .. 2 * Week |-> Mem!OpensOn(m, i, m.last_day - 2 * Week + k)]
  BY SameMemCard DEF Mem!DaysRemembered
<1>4. /\ m.opens \in Maps(Ino, Nat) /\ m.streaks \in Maps(Ino, Streak) /\ m.daily \in Maps(Ino, Days)
  BY DEF Memories
<1>5. i \in Ino /\ FileRight(m, i) /\ i \in DOMAIN m.streaks /\ i \in DOMAIN m.daily
  BY <1>3, <1>4, MapsIs DEF DaysRight
<1>6. m.streaks[i] \in Streak /\ m.daily[i] \in Days
  BY <1>4, <1>5, MapsIs
<1>7. Mem!DaysOf(m, i) = DaysIn(h, i)
  <2>1. Mem!Range(h) = {h[k] : k \in 1 .. Len(h)}
    BY <1>1 DEF Mem!Range
  <2> QED
    BY <2>1 DEF Mem!DaysOf, DaysIn, Of
<1>8. {k \in DOMAIN h : h[k].ino = i} = Of(h, i)
  BY <1>1 DEF Of
<1>9. \A d : Mem!OpensOn(m, i, d) = Cardinality(OnDay(h, i, d))
  <2> SUFFICES ASSUME NEW d PROVE Mem!OpensOn(m, i, d) = Cardinality(OnDay(h, i, d))
    OBVIOUS
  <2>1. \A k \in 1 .. Len(h) : h[k] = [ino |-> i, day |-> d] <=> h[k].ino = i /\ h[k].day = d
    BY <1>2 DEF Opened
  <2>2. {k \in DOMAIN h : h[k] = [ino |-> i, day |-> d]} = OnDay(h, i, d)
    BY <1>1, <2>1 DEF OnDay
  <2> QED
    BY <2>2, SameMemCard DEF Mem!OpensOn
<1>10. DaysIn(h, i) \in SUBSET Nat /\ IsFiniteSet(DaysIn(h, i))
  BY <1>1, HistoryFinite
<1> HIDE DEF h
<1>11. m.daily[i] = [k \in 1 .. 2 * Week |-> Mem!OpensOn(m, i, m.last_day - 2 * Week + k)]
  BY <1>5, <1>6, <1>9 DEF FileRight, Days, h
<1>12. StreakRight(m.streaks[i], DaysIn(h, i))
  BY <1>5 DEF FileRight, h
<1>13. m.opens[i] = Cardinality(Of(h, i))
  BY <1>5 DEF FileRight, h
<1>14. LET D == DaysIn(h, i)
           longest == Mem!LongestRun(D)
       IN  m.streaks[i] = [current |-> Mem!RunTo(D, Mem!LastDay(D)),
                           longest |-> IF longest > 1 THEN longest ELSE 0,
                           last |-> Mem!LastDay(D)]
  BY <1>6, <1>10, <1>12, StreakIs
<1> QED
  BY <1>7, <1>8, <1>11, <1>13, <1>14

\* A save cuts what it can not keep, and keeps the rest as it is.
LEMMA RereadDays ==
  ASSUME NEW m \in Memories, NEW d \in Memories, IsReread(m, d), NEW t, DaysRight(m, t)
  PROVE  DaysRight(d, t)
<1>1. PICK o \in SUBSET DOMAIN m.opens, s \in SUBSET DOMAIN m.streaks,
           y \in SUBSET DOMAIN m.daily, n \in SUBSET DOMAIN m.names :
        /\ d.opens = Mem!On(m.opens, o) /\ d.streaks = Mem!On(m.streaks, s)
        /\ d.daily = Mem!On(m.daily, y) /\ d.names = Mem!On(m.names, n)
        /\ d.cut = m.cut \cup (DOMAIN m.opens \ (o \cap s \cap y \cap n))
  BY DEF IsReread
<1>2. d.last_day = m.last_day /\ d.history = m.history
  BY DEF IsReread
<1>3. /\ DOMAIN d.opens = o /\ DOMAIN d.streaks = s /\ DOMAIN d.daily = y
      /\ \A i \in o : d.opens[i] = m.opens[i]
      /\ \A i \in s : d.streaks[i] = m.streaks[i]
      /\ \A i \in y : d.daily[i] = m.daily[i]
  BY <1>1 DEF Mem!On
<1>4. ASSUME NEW i \in Ino \ d.cut
      PROVE  /\ i \in DOMAIN d.opens <=> Of(m.history.opens, i) # {}
             /\ DOMAIN d.streaks \cap {i} = DOMAIN d.opens \cap {i}
             /\ DOMAIN d.daily \cap {i} = DOMAIN d.opens \cap {i}
             /\ i \in DOMAIN d.opens => FileRight(d, i)
  <2>1. i \in Ino \ m.cut /\ (i \in DOMAIN m.opens => i \in o /\ i \in s /\ i \in y)
    BY <1>1, <1>4
  <2>2. /\ i \in DOMAIN m.opens <=> Of(m.history.opens, i) # {}
        /\ i \in DOMAIN m.streaks <=> i \in DOMAIN m.opens
        /\ i \in DOMAIN m.daily <=> i \in DOMAIN m.opens
        /\ i \in DOMAIN m.opens => FileRight(m, i)
    BY <2>1 DEF DaysRight
  <2>3. i \in o => FileRight(d, i)
    BY <1>2, <1>3, <2>1, <2>2 DEF FileRight
  <2> QED
    BY <1>3, <2>1, <2>2, <2>3
<1> QED
  BY <1>2, <1>4 DEF DaysRight

-----------------------------------------------------------------------------
(***************************************************************************)
(* Sessions.                                                               *)
(***************************************************************************)
\* The sessions that had both files of p.
With2(ended, p) == {k \in 1 .. Len(ended) : p \in Mem!Paired(ended[k])}

SessionsRight(m) ==
  LET ended == m.history.ended
  IN  /\ m.total = Len(ended)
      /\ \A p \in DOMAIN m.pairs : m.pairs[p] = Cardinality(With2(ended, p))
      /\ \A k \in 1 .. Len(ended) : Mem!Paired(ended[k]) \subseteq DOMAIN m.pairs
      /\ Len(m.sessions) = (IF Len(ended) < MaxSessions THEN Len(ended) ELSE MaxSessions)
      /\ \A k \in 1 .. Len(m.sessions) :
           Mem!IsPrefix(m.sessions[k], ended[Len(ended) - Len(m.sessions) + k])

LEMMA SessionsAreRight ==
  ASSUME NEW m \in Memories, SessionsRight(m)
  PROVE  Mem!SessionsRemembered(m)
<1>1. m.history.ended \in Seq(Seq(Ino)) /\ m.sessions \in Seq(Seq(Ino))
  BY DEF Memories
<1>2. DOMAIN m.history.ended = 1 .. Len(m.history.ended) /\ DOMAIN m.sessions = 1 .. Len(m.sessions)
  BY <1>1
<1> QED
  BY <1>2, SameMemCard DEF Mem!SessionsRemembered, SessionsRight, With2

LEMMA With2Finite ==
  ASSUME NEW e \in Seq(Seq(Ino)), NEW p
  PROVE  IsFiniteSet(With2(e, p)) /\ Cardinality(With2(e, p)) \in Nat
         /\ (With2(e, p) = {} => Cardinality(With2(e, p)) = 0)
<1>1. Len(e) \in Nat
  OBVIOUS
<1>2. IsFiniteSet(1 .. Len(e)) /\ With2(e, p) \in SUBSET (1 .. Len(e))
  BY <1>1, FS_Interval DEF With2
<1> QED
  BY <1>2, FS_Subset, FS_CardinalityType, FS_EmptySet

LEMMA With2Step ==
  ASSUME NEW e \in Seq(Seq(Ino)), NEW s \in Seq(Ino), NEW p
  PROVE  Cardinality(With2(Append(e, s), p)) =
           Cardinality(With2(e, p)) + (IF p \in Mem!Paired(s) THEN 1 ELSE 0)
<1> DEFINE new == Append(e, s)
           n == Len(e)
<1>1. n \in Nat /\ Len(new) = n + 1 /\ new[n + 1] = s /\ \A k \in 1 .. n : new[k] = e[k]
  BY AppendProperties
<1> HIDE DEF new, n
<1>2. 1 .. Len(new) = (1 .. n) \cup {n + 1} /\ n + 1 \notin 1 .. n
  BY <1>1
<1>3. n + 1 \notin With2(e, p)
  BY <1>2 DEF With2, n
<1>4. CASE p \in Mem!Paired(s)
  <2>1. With2(new, p) = With2(e, p) \cup {n + 1}
    BY <1>1, <1>2, <1>4 DEF With2, n
  <2> QED
    BY <1>3, <1>4, <2>1, With2Finite, FS_AddElement DEF new
<1>5. CASE p \notin Mem!Paired(s)
  <2>1. With2(new, p) = With2(e, p)
    BY <1>1, <1>2, <1>5 DEF With2, n
  <2> QED
    BY <1>5, <2>1, With2Finite DEF new
<1> QED
  BY <1>4, <1>5

LEMMA PrefixSelf ==
  ASSUME NEW s \in Seq(Ino) PROVE Mem!IsPrefix(s, s)
BY DEF Mem!IsPrefix

LEMMA PrefixCut ==
  ASSUME NEW s \in Seq(Ino), NEW t \in Seq(Ino), Mem!IsPrefix(s, t), NEW n \in 0 .. Len(s)
  PROVE  Mem!IsPrefix(SubSeq(s, 1, n), t)
<1> DEFINE u == SubSeq(s, 1, n)
<1>1. Len(u) = n /\ u \in Seq(Ino) /\ \A k \in 1 .. n : u[k] = s[k]
  BY SubSeqProperties
<1>2. Len(s) <= Len(t) /\ Len(s) \in Nat /\ Len(t) \in Nat /\ n \in 0 .. Len(t)
  BY DEF Mem!IsPrefix
<1>3. \A k \in 1 .. Len(s) : s[k] = t[k]
  <2>1. SubSeq(s, 1, Len(s)) = SubSeq(t, 1, Len(s))
    BY DEF Mem!IsPrefix
  <2>2. \A k \in 1 .. Len(s) : SubSeq(s, 1, Len(s))[k] = s[k] /\ SubSeq(t, 1, Len(s))[k] = t[k]
    BY <1>2
  <2> QED
    BY <2>1, <2>2
<1> HIDE DEF u
<1>4. SubSeq(u, 1, n) \in Seq(Ino) /\ Len(SubSeq(u, 1, n)) = n
      /\ \A k \in 1 .. n : SubSeq(u, 1, n)[k] = u[k]
  BY <1>1, <1>2, SubSeqProperties
<1>5. SubSeq(t, 1, n) \in Seq(Ino) /\ Len(SubSeq(t, 1, n)) = n
      /\ \A k \in 1 .. n : SubSeq(t, 1, n)[k] = t[k]
  BY <1>2, SubSeqProperties
<1>6. SubSeq(u, 1, n) = SubSeq(t, 1, n)
  <2>1. \A k \in 1 .. n : SubSeq(u, 1, n)[k] = SubSeq(t, 1, n)[k]
    BY <1>1, <1>2, <1>3, <1>4, <1>5
  <2> QED
    BY <1>4, <1>5, <2>1
<1> QED
  BY <1>1, <1>2, <1>6 DEF Mem!IsPrefix, u

LEMMA CloseSessions ==
  ASSUME NEW m \in Memories, SessionsRight(m)
  PROVE  SessionsRight(Mem!close_session(m))
<1> DEFINE u == Mem!close_session(m)
           e == m.history.ended
           s == m.touched
           new == Append(e, s)
           all == Append(m.sessions, s)
           n == Len(e)
           c == Len(m.sessions)
<1>1. e \in Seq(Seq(Ino)) /\ s \in Seq(Ino) /\ m.sessions \in Seq(Seq(Ino)) /\ MaxSessions \in Nat
      /\ m.pairs \in Maps(Pairs, Nat) /\ n \in Nat /\ c \in Nat
  BY Constants DEF Memories
<1>2. /\ u.pairs = [p \in DOMAIN m.pairs \cup Mem!Paired(s) |->
                      Value(m.pairs, p, 0) + (IF p \in Mem!Paired(s) THEN 1 ELSE 0)]
      /\ u.sessions = (IF Len(all) > MaxSessions THEN Tail(all) ELSE all)
      /\ u.total = m.total + 1 /\ u.history.ended = new
  BY SessionIs DEF IsClosed
<1>3. /\ new \in Seq(Seq(Ino)) /\ Len(new) = n + 1 /\ new[n + 1] = s
      /\ \A k \in 1 .. n : new[k] = e[k]
  BY <1>1, AppendProperties
<1>4. /\ all \in Seq(Seq(Ino)) /\ Len(all) = c + 1 /\ all[c + 1] = s /\ all # <<>>
      /\ \A k \in 1 .. c : all[k] = m.sessions[k]
  BY <1>1, AppendProperties
<1>5. /\ m.total = n
      /\ \A p \in DOMAIN m.pairs : m.pairs[p] = Cardinality(With2(e, p))
      /\ \A k \in 1 .. n : Mem!Paired(e[k]) \subseteq DOMAIN m.pairs
      /\ c = (IF n < MaxSessions THEN n ELSE MaxSessions)
      /\ \A k \in 1 .. c : Mem!IsPrefix(m.sessions[k], e[n - c + k])
  BY DEF SessionsRight
<1>6. \A p : Cardinality(With2(new, p)) =
               Cardinality(With2(e, p)) + (IF p \in Mem!Paired(s) THEN 1 ELSE 0)
  BY <1>1, With2Step
<1>7. \A p : p \notin DOMAIN m.pairs => Cardinality(With2(e, p)) = 0
  <2>1. \A p : p \notin DOMAIN m.pairs => With2(e, p) = {}
    BY <1>5 DEF With2
  <2> QED
    BY <1>1, <2>1, With2Finite
<1> HIDE DEF u, e, s, new, all, n, c
<1>8. \A p \in DOMAIN u.pairs : u.pairs[p] = Cardinality(With2(new, p))
  BY <1>2, <1>5, <1>6, <1>7 DEF Value
<1>9. \A k \in 1 .. n + 1 : Mem!Paired(new[k]) \subseteq DOMAIN u.pairs
  <2>1. \A k \in 1 .. n : Mem!Paired(new[k]) \subseteq DOMAIN u.pairs
    BY <1>2, <1>3, <1>5
  <2>2. Mem!Paired(new[n + 1]) \subseteq DOMAIN u.pairs
    BY <1>2, <1>3
  <2>3. \A k \in 1 .. n + 1 : k \in 1 .. n \/ k = n + 1
    BY <1>1
  <2> QED
    BY <2>1, <2>2, <2>3
<1>10. \A k \in 1 .. c + 1 : Mem!IsPrefix(all[k], new[n - c + k])
  <2>1. c <= n
    BY <1>1, <1>5
  <2>2. \A k \in 1 .. c : n - c + k \in 1 .. n
    BY <1>1, <2>1
  <2>3. \A k \in 1 .. c : Mem!IsPrefix(all[k], new[n - c + k])
    BY <1>3, <1>4, <1>5, <2>2
  <2>4. Mem!IsPrefix(all[c + 1], new[n - c + (c + 1)])
    <3>1. n - c + (c + 1) = n + 1
      BY <1>1
    <3> QED
      BY <1>1, <1>3, <1>4, <3>1, PrefixSelf
  <2> QED
    BY <1>1, <2>3, <2>4
<1>11. /\ Len(u.sessions) = (IF n + 1 < MaxSessions THEN n + 1 ELSE MaxSessions)
       /\ \A k \in 1 .. Len(u.sessions) :
            Mem!IsPrefix(u.sessions[k], new[(n + 1) - Len(u.sessions) + k])
  <2>1. CASE c + 1 > MaxSessions
    <3>1. /\ u.sessions = Tail(all) /\ Len(Tail(all)) = c
          /\ \A k \in 1 .. c : Tail(all)[k] = all[k + 1]
      BY <1>1, <1>2, <1>4, <2>1, HeadTailProperties
    <3>2. \A k \in 1 .. c : k + 1 \in 1 .. c + 1 /\ n - c + (k + 1) = (n + 1) - c + k
      BY <1>1
    <3>3. \A k \in 1 .. c : Mem!IsPrefix(Tail(all)[k], new[(n + 1) - c + k])
      BY <1>10, <3>1, <3>2
    <3>4. c = IF n + 1 < MaxSessions THEN n + 1 ELSE MaxSessions
      BY <1>1, <1>5, <2>1
    <3> QED
      BY <3>1, <3>3, <3>4
  <2>2. CASE ~(c + 1 > MaxSessions)
    <3>1. u.sessions = all
      BY <1>2, <1>4, <2>2
    <3>2. c + 1 = (IF n + 1 < MaxSessions THEN n + 1 ELSE MaxSessions) /\ n - c = 0
      BY <1>1, <1>5, <2>2
    <3>3. \A k \in 1 .. c + 1 : (n + 1) - (c + 1) + k = n - c + k
      BY <1>1
    <3> QED
      BY <1>4, <1>10, <3>1, <3>2, <3>3
  <2> QED
    BY <2>1, <2>2
<1>12. u.total = Len(new)
  BY <1>2, <1>3, <1>5
<1>13. SessionsRight(u)
  <2>1. \A k \in 1 .. Len(new) : Mem!Paired(new[k]) \subseteq DOMAIN u.pairs
    BY <1>3, <1>9
  <2>2. Len(u.sessions) = (IF Len(new) < MaxSessions THEN Len(new) ELSE MaxSessions)
    BY <1>3, <1>11
  <2>3. \A k \in 1 .. Len(u.sessions) :
          Mem!IsPrefix(u.sessions[k], new[Len(new) - Len(u.sessions) + k])
    <3>1. Len(new) = n + 1
      BY <1>3
    <3> DEFINE P(x) == \A k \in 1 .. Len(u.sessions) :
                         Mem!IsPrefix(u.sessions[k], new[x - Len(u.sessions) + k])
    <3>2. P(n + 1)
      BY <1>11
    <3> HIDE DEF P
    <3>3. P(Len(new))
      BY <3>1, <3>2
    <3> USE DEF P
    <3> QED
      BY <3>3
  <2>4. u.history.ended = new
    BY <1>2
  <2> QED
    BY <1>8, <1>12, <2>1, <2>2, <2>3, <2>4, Zenon DEF SessionsRight
<1> QED
  BY <1>13 DEF u

LEMMA OtherSessions ==
  ASSUME NEW m, NEW u, SessionsRight(m), u.total = m.total, u.pairs = m.pairs,
         u.sessions = m.sessions, u.history.ended = m.history.ended
  PROVE  SessionsRight(u)
BY DEF SessionsRight

LEMMA RereadSessions ==
  ASSUME NEW m \in Memories, NEW d \in Memories, IsReread(m, d), SessionsRight(m)
  PROVE  SessionsRight(d)
<1> DEFINE e == m.history.ended
           L(k) == IF Len(m.sessions[k]) < SavedFiles THEN Len(m.sessions[k]) ELSE SavedFiles
<1>1. d.total = m.total /\ d.pairs = m.pairs /\ d.history = m.history
      /\ d.sessions = [k \in DOMAIN m.sessions |-> SubSeq(m.sessions[k], 1, L(k))]
  BY DEF IsReread
<1>2. m.sessions \in Seq(Seq(Ino)) /\ e \in Seq(Seq(Ino)) /\ d.sessions \in Seq(Seq(Ino))
  BY DEF Memories
<1>3. DOMAIN m.sessions = 1 .. Len(m.sessions) /\ Len(d.sessions) = Len(m.sessions)
      /\ Len(m.sessions) \in Nat /\ Len(e) \in Nat /\ Len(m.sessions) <= Len(e)
  <2>1. DOMAIN m.sessions = 1 .. Len(m.sessions) /\ DOMAIN d.sessions = 1 .. Len(d.sessions)
        /\ Len(m.sessions) \in Nat /\ Len(d.sessions) \in Nat /\ Len(e) \in Nat
    BY <1>2
  <2>2. DOMAIN d.sessions = DOMAIN m.sessions
    BY <1>1
  <2>3. Len(m.sessions) = (IF Len(e) < MaxSessions THEN Len(e) ELSE MaxSessions)
    BY DEF SessionsRight
  <2>4. d.sessions \in [1 .. Len(m.sessions) -> Seq(Ino)]
    BY <1>2, <2>1, <2>2
  <2>5. Len(d.sessions) = Len(m.sessions)
    BY <2>1, <2>2
  <2> QED
    BY <2>1, <2>3, <2>5, Constants
<1>4. ASSUME NEW k \in 1 .. Len(m.sessions)
      PROVE  Mem!IsPrefix(d.sessions[k], e[Len(e) - Len(m.sessions) + k])
  <2> DEFINE s == m.sessions[k]
             t == e[Len(e) - Len(m.sessions) + k]
  <2>1. Mem!IsPrefix(s, t)
    BY DEF SessionsRight
  <2>2. s \in Seq(Ino)
    BY <1>2
  <2>3. t \in Seq(Ino)
    <3>1. \A a, b \in Nat : b <= a => \A j \in 1 .. b : a - b + j \in 1 .. a
      OBVIOUS
    <3>2. \A j \in 1 .. Len(e) : e[j] \in Seq(Ino)
      BY <1>2
    <3> HIDE DEF e
    <3>3. Len(e) - Len(m.sessions) + k \in 1 .. Len(e)
      BY <1>3, <3>1
    <3> QED
      BY <3>2, <3>3
  <2>4. L(k) \in 0 .. Len(s)
    BY <2>2, Constants
  <2>5. d.sessions[k] = SubSeq(s, 1, L(k))
    BY <1>1, <1>3
  <2> HIDE DEF s, t, L
  <2> QED
    BY <2>1, <2>2, <2>3, <2>4, <2>5, PrefixCut DEF t
<1> HIDE DEF L
<1> QED
  BY <1>1, <1>3, <1>4 DEF SessionsRight

LEMMA NewSessions == \A t : SessionsRight(Mem!NewMemory(t))
<1> SUFFICES ASSUME NEW t PROVE SessionsRight(Mem!NewMemory(t))
  OBVIOUS
<1>1. LET m == Mem!NewMemory(t)
      IN  /\ m.total = 0 /\ m.history.ended = <<>> /\ DOMAIN m.pairs = {} /\ m.sessions = <<>>
  BY DEF Mem!NewMemory
<1>2. Len(<<>>) = 0 /\ MaxSessions \in Nat
  BY Constants
<1> QED
  BY <1>1, <1>2 DEF SessionsRight

-----------------------------------------------------------------------------
(***************************************************************************)
(* Projects: union and find gives the connected components.                *)
(***************************************************************************)
\* G is what find makes of the files N after the pairs E.
Grouped(G, N, E) ==
  /\ \A g \in G : g # {} /\ g \subseteq N /\ Mem!Connected(g, E)
  /\ \A x \in N : \E g \in G : x \in g
  /\ \A g, h \in G : g \cap h # {} => g = h
  /\ \A e \in E, g \in G : e \cap g # {} => e \subseteq g

LEMMA UnionStep ==
  ASSUME NEW N, NEW G, NEW E, Grouped(G, N, E), NEW p \in SUBSET N, p # {}
  PROVE  Grouped(Mem!union(G, p), N, E \cup {p})
<1> DEFINE met == {g \in G : g \cap p # {}}
           U == UNION met
           H == (G \ met) \cup {U}
           F == E \cup {p}
<1>1. Mem!union(G, p) = H
  BY DEF Mem!union
<1>2. /\ \A g \in G : g # {} /\ g \subseteq N /\ Mem!Connected(g, E)
      /\ \A x \in N : \E g \in G : x \in g
      /\ \A g, h \in G : g \cap h # {} => g = h
      /\ \A e \in E, g \in G : e \cap g # {} => e \subseteq g
  BY DEF Grouped
<1>3. p \subseteq U /\ U # {} /\ U \subseteq N
  <2>1. \A x \in p : \E g \in met : x \in g
    BY <1>2
  <2>2. p \subseteq U
    BY <2>1
  <2>3. \A g \in met : g \subseteq N
    BY <1>2
  <2> QED
    BY <2>2, <2>3
<1>4. \A g \in G \ met : g \cap U = {} /\ g \cap p = {}
  <2>1. \A g \in G \ met : \A h \in met : g \cap h = {}
    BY <1>2
  <2> QED
    BY <2>1
<1>5. ASSUME NEW x \in N PROVE \E g \in H : x \in g
  <2>1. PICK g \in G : x \in g
    BY <1>2
  <2>2. CASE g \in met
    BY <2>1, <2>2
  <2>3. CASE g \notin met
    BY <2>1, <2>3
  <2> QED
    BY <2>2, <2>3
<1>6. \A g, h \in H : g \cap h # {} => g = h
  BY <1>2, <1>4
<1>7. \A g : Mem!Connected(g, E) => Mem!Connected(g, F)
  BY DEF Mem!Connected
<1>8. Mem!Connected(U, F)
  <2> SUFFICES ASSUME NEW A \in SUBSET U, A \notin {{}, U}
               PROVE  \E e \in F : e \cap A # {} /\ e \cap (U \ A) # {}
    BY Zenon DEF Mem!Connected
  <2>1. CASE \E g \in met : g \cap A \notin {{}, g}
    <3>1. PICK g \in met : g \cap A \notin {{}, g}
      BY <2>1
    <3>2. g \cap A \in SUBSET g /\ Mem!Connected(g, E)
      BY <1>2
    <3>3. PICK e \in E : e \cap (g \cap A) # {} /\ e \cap (g \ (g \cap A)) # {}
      BY <3>1, <3>2 DEF Mem!Connected
    <3>4. g \ (g \cap A) \subseteq U \ A
      BY <3>1
    <3> QED
      BY <3>3, <3>4
  <2>2. CASE \A g \in met : g \cap A = {} \/ g \subseteq A
    <3>1. PICK x \in A : TRUE
      OBVIOUS
    <3>2. PICK g \in met : x \in g
      BY <3>1
    <3>3. g \subseteq A /\ g \cap p # {}
      BY <2>2, <3>1, <3>2
    <3>4. PICK y \in U : y \notin A
      OBVIOUS
    <3>5. PICK h \in met : y \in h
      BY <3>4
    <3>6. h \cap A = {} /\ h \cap p # {} /\ h \subseteq U
      BY <2>2, <3>4, <3>5
    <3>7. p \cap A # {} /\ p \cap (U \ A) # {}
      BY <3>3, <3>6
    <3> QED
      BY <3>7
  <2>3. (\E g \in met : g \cap A \notin {{}, g}) \/ (\A g \in met : g \cap A = {} \/ g \subseteq A)
    <3> HIDE DEF met
    <3>1. \A g : g \cap A = g => g \subseteq A
      OBVIOUS
    <3> QED
      BY <3>1
  <2> QED
    BY <2>1, <2>2, <2>3, Zenon
<1>9. \A e \in F, g \in H : e \cap g # {} => e \subseteq g
  <2> SUFFICES ASSUME NEW e \in F, NEW g \in H, e \cap g # {} PROVE e \subseteq g
    OBVIOUS
  <2>1. CASE e = p
    BY <1>3, <1>4, <2>1
  <2>2. CASE e \in E /\ g \in G
    BY <1>2, <2>2
  <2>3. CASE e \in E /\ g = U
    <3>1. PICK h \in met : e \cap h # {}
      BY <2>3
    <3>2. e \subseteq h
      BY <1>2, <2>3, <3>1
    <3> QED
      BY <2>3, <3>1, <3>2
  <2> QED
    BY <2>1, <2>2, <2>3
<1>10. ASSUME NEW g \in H PROVE g # {} /\ g \subseteq N /\ Mem!Connected(g, F)
  <2>1. CASE g \in G \ met
    <3>1. g # {} /\ g \subseteq N /\ Mem!Connected(g, E)
      BY <1>2, <2>1
    <3> HIDE DEF F
    <3> QED
      BY <1>7, <3>1
  <2>2. CASE g = U
    <3> HIDE DEF F, U
    <3> QED
      BY <1>3, <1>8, <2>2
  <2> QED
    BY <2>1, <2>2
<1> HIDE DEF met, U, H, F
<1>11. Grouped(H, N, F)
  BY <1>5, <1>6, <1>9, <1>10 DEF Grouped
<1> QED
  BY <1>1, <1>11 DEF F

\* A set is connected, and no pair leaves it, just if it is one of the groups.
LEMMA GroupsAre ==
  ASSUME NEW N, NEW G, NEW E, Grouped(G, N, E), NEW S \in SUBSET N, S # {}
  PROVE  S \in G <=> Mem!Connected(S, E) /\ \A e \in E : e \cap S # {} => e \subseteq S
<1>1. S \in G => Mem!Connected(S, E) /\ \A e \in E : e \cap S # {} => e \subseteq S
  BY DEF Grouped
<1>2. ASSUME Mem!Connected(S, E), \A e \in E : e \cap S # {} => e \subseteq S
      PROVE  S \in G
  <2>1. PICK x \in S : TRUE
    OBVIOUS
  <2>2. PICK g \in G : x \in g
    BY <2>1 DEF Grouped
  <2>3. Mem!Connected(g, E) /\ \A e \in E : e \cap g # {} => e \subseteq g
    BY DEF Grouped
  <2>4. g \subseteq S
    <3> SUFFICES ASSUME ~(g \subseteq S) PROVE FALSE
      OBVIOUS
    <3>1. g \cap S \in SUBSET g /\ g \cap S \notin {{}, g}
      BY <2>1, <2>2
    <3>2. PICK e \in E : e \cap (g \cap S) # {} /\ e \cap (g \ (g \cap S)) # {}
      BY <2>3, <3>1 DEF Mem!Connected
    <3> QED
      BY <1>2, <3>2
  <2>5. S \subseteq g
    <3> SUFFICES ASSUME ~(S \subseteq g) PROVE FALSE
      OBVIOUS
    <3>1. g \in SUBSET S /\ g \notin {{}, S}
      BY <2>2, <2>4
    <3>2. PICK e \in E : e \cap g # {} /\ e \cap (S \ g) # {}
      BY <1>2, <3>1 DEF Mem!Connected
    <3> QED
      BY <2>3, <3>2
  <2>6. S = g
    BY <2>4, <2>5
  <2> QED
    BY <2>6
<1> QED
  BY <1>1, <1>2

LEMMA UnionLoop ==
  \A groups, order : Mem!FoldLeft(Mem!union, groups, order) = Looped(Uniting, groups, order)
<1> TAKE groups, order
<1> DEFINE A(f) == f = [u \in SUBSET DOMAIN order |->
                          IF u = {} THEN groups ELSE Mem!union(f[u \ {Max(u)}], order[Max(u)])]
           B(f) == f = [u \in SUBSET DOMAIN order |->
                          IF u = {} THEN groups ELSE Do(Uniting, f[u \ {Max(u)}], order[Max(u)])]
<1>1. \A s, x : Do(Uniting, s, x) = Mem!union(s, x)
  BY DEF Do, Uniting
<1>2. Mem!FoldLeft(Mem!union, groups, order) = (CHOOSE f : A(f))[DOMAIN order]
  BY DEF Mem!FoldLeft, Mem!MapThenFoldSet, Mem!Max, Max
<1>3. Looped(Uniting, groups, order) = (CHOOSE f : B(f))[DOMAIN order]
  BY DEF Looped, FoldLeft, MapThenFoldSet
<1>4. \A f : A(f) <=> B(f)
  BY <1>1
<1> HIDE DEF A, B
<1> QED
  BY <1>2, <1>3, <1>4

\* All pairs taken, in any order, the groups are those of the pairs.
LEMMA UnionsAre ==
  ASSUME NEW N, NEW E \in SUBSET SUBSET N, IsFiniteSet(E), {} \notin E, NEW order \in SetToSeqs(E)
  PROVE  Grouped(Mem!FoldLeft(Mem!union, {{i} : i \in N}, order), N, E)
<1> DEFINE n == Cardinality(E)
           base == {{i} : i \in N}
           A == SUBSET SUBSET N
           loop == Uniting
           Taken(k) == {order[j] : j \in 1 .. k}
<1>1. n \in Nat /\ DOMAIN order = 1 .. n /\ \A k \in 1 .. n : order[k] \in E
  BY OrderIs DEF IsOrder
<1>2. Taken(n) = E
  BY <1>1, OrderIs DEF IsOrder
<1>3. \A s, x : Do(loop, s, x) = Mem!union(s, x)
  BY DEF Do, Uniting
<1>4. \A s \in A : \A k \in 1 .. n : Do(loop, s, order[k]) \in A
  BY <1>3 DEF Mem!union
<1>5. base \in A
  OBVIOUS
<1> HIDE DEF loop, A
<1>6. PICK m \in [0 .. n -> A] : IsLoop(m, loop, base, order, n)
  <2> HIDE DEF n, base
  <2> QED
    BY <1>1, <1>4, <1>5, LoopRounds
<1> DEFINE T == {k \in 0 .. n : Grouped(m[k], N, Taken(k))}
<1>7. 0 \in T
  <2>1. m[0] = base /\ Taken(0) = {}
    BY <1>6 DEF IsLoop
  <2>2. \A i \in N : Mem!Connected({i}, {})
    BY DEF Mem!Connected
  <2>3. \A g \in base : g # {} /\ g \subseteq N /\ Mem!Connected(g, {})
    BY <2>2
  <2>4. \A x \in N : \E g \in base : x \in g
    <3>1. \A x \in N : {x} \in base /\ x \in {x}
      OBVIOUS
    <3> QED
      BY <3>1
  <2>5. \A g, h \in base : g \cap h # {} => g = h
    <3>1. \A i, j \in N : {i} \cap {j} # {} => {i} = {j}
      OBVIOUS
    <3> QED
      BY <3>1
  <2> HIDE DEF base, Taken
  <2>6. Grouped(base, N, {})
    BY <2>3, <2>4, <2>5 DEF Grouped
  <2>7. Grouped(m[0], N, Taken(0))
    BY <2>1, <2>6
  <2>8. 0 \in 0 .. n
    BY <1>1
  <2> QED
    BY <2>7, <2>8
<1>8. ASSUME NEW k \in 0 .. (n - 1), k \in T PROVE k + 1 \in T
  <2>1. k \in Nat /\ k + 1 \in 1 .. n /\ k + 1 \in 0 .. n /\ (k + 1) - 1 = k
    BY <1>1
  <2>2. m[k + 1] = Mem!union(m[k], order[k + 1])
    BY <1>3, <1>6, <2>1 DEF IsLoop
  <2>3. Taken(k + 1) = Taken(k) \cup {order[k + 1]}
    <3>1. 1 .. k + 1 = (1 .. k) \cup {k + 1}
      BY <2>1
    <3> QED
      BY <3>1
  <2>4. order[k + 1] \in SUBSET N /\ order[k + 1] # {}
    BY <1>1, <2>1
  <2>5. Grouped(m[k], N, Taken(k))
    BY <1>8
  <2> HIDE DEF Taken
  <2>6. Grouped(m[k + 1], N, Taken(k + 1))
    BY <2>2, <2>3, <2>4, <2>5, UnionStep
  <2> QED
    BY <2>1, <2>6
<1>9. n \in T
  <2>1. 0 .. n \subseteq T
    <3> HIDE DEF T
    <3> QED
      BY <1>1, <1>7, <1>8, UpTo
  <2> QED
    BY <1>1, <2>1
<1>10. Grouped(m[n], N, E)
  BY <1>2, <1>9
<1> QED
  BY <1>6, <1>10, UnionLoop DEF IsLoop, loop

\* What discover_projects finds does not depend on the order of a hash map.
LEMMA ProjectsAre ==
  ASSUME NEW m \in Memories, ~Mem!Panics(m), NEW order \in SetToSeqs(Mem!Close(m))
  PROVE  Mem!discover_projects(m, order) = Mem!Components(m)
<1> DEFINE N == DOMAIN m.names
           E == Mem!Close(m)
           G == Mem!FoldLeft(Mem!union, {{i} : i \in N}, order)
<1>1. m.pairs \in Maps(Pairs, Nat) /\ m.names \in Maps(Ino, Name)
  BY DEF Memories
<1>2. E \in SUBSET Pairs /\ IsFiniteSet(E) /\ {} \notin E
  <2>1. E \subseteq DOMAIN m.pairs /\ DOMAIN m.pairs \subseteq Pairs
    BY <1>1, MapsIs DEF Mem!Close
  <2>2. IsFiniteSet(SUBSET Ino)
    BY Constants, FS_SUBSET
  <2>3. E \in SUBSET SUBSET Ino
    BY <2>1 DEF Pairs
  <2>4. Cardinality({}) = 0
    BY FS_EmptySet
  <2> QED
    BY <2>1, <2>2, <2>3, <2>4, FS_Subset DEF Pairs
<1>3. \A S : Cardinality(S) >= 2 => S # {}
  BY FS_EmptySet
<1>4. CASE N = {}
  <2>1. Mem!Components(m) = {}
    <3>1. \A S \in SUBSET N : S = {}
      BY <1>4
    <3> QED
      BY <1>3, <3>1, SameMemCard DEF Mem!Components
  <2> DEFINE n == Cardinality(E)
             A == {{}, {{}}}
  <2>2. n \in Nat /\ DOMAIN order = 1 .. n
    BY <1>2, OrderIs DEF IsOrder
  <2>3. {{i} : i \in N} = {} /\ {} \in A
    BY <1>4
  <2>4. \A s \in A : \A k \in 1 .. n : Do(Uniting, s, order[k]) \in A
    BY DEF Do, Uniting, Mem!union
  <2> HIDE DEF A, n, E
  <2>5. PICK r \in [0 .. n -> A] : IsLoop(r, Uniting, {}, order, n)
    BY <2>2, <2>3, <2>4, LoopRounds
  <2>6. G \in A
    <3>1. G = Mem!FoldLeft(Mem!union, {}, order)
      BY <2>3
    <3>2. G = Looped(Uniting, {}, order)
      BY <3>1, UnionLoop
    <3> HIDE DEF G
    <3>3. Looped(Uniting, {}, order) = r[n] /\ n \in 0 .. n
      BY <2>2, <2>5 DEF IsLoop
    <3>4. r[n] \in A
      BY <3>3
    <3> QED
      BY <3>2, <3>3, <3>4
  <2>7. Mem!discover_projects(m, order) = {g \in G : Cardinality(g) >= 2}
    BY SameMemCard DEF Mem!discover_projects
  <2> HIDE DEF G
  <2>8. \A g \in G : g = {}
    BY <2>6 DEF A
  <2> QED
    BY <1>3, <2>1, <2>7, <2>8
<1>5. CASE N # {}
  <2>1. E \in SUBSET SUBSET N
    <3>1. UNION E \subseteq N
      BY <1>5 DEF Mem!Panics
    <3> QED
      BY <3>1
  <2>2. Mem!discover_projects(m, order) = {g \in G : Cardinality(g) >= 2}
    BY SameMemCard DEF Mem!discover_projects
  <2>3. Mem!Components(m) = {S \in SUBSET N : /\ Cardinality(S) >= 2
                                             /\ Mem!Connected(S, E)
                                             /\ \A e \in E : e \cap S # {} => e \subseteq S}
    BY SameMemCard DEF Mem!Components
  <2> HIDE DEF N, E
  <2>4. Grouped(G, N, E)
    BY <1>2, <2>1, UnionsAre DEF E
  <2> HIDE DEF G
  <2>5. \A g \in G : g \subseteq N
    BY <2>4 DEF Grouped
  <2>6. \A S \in SUBSET N : S # {} =>
          (S \in G <=> Mem!Connected(S, E) /\ \A e \in E : e \cap S # {} => e \subseteq S)
    BY <2>4, GroupsAre
  <2> QED
    BY <1>3, <2>2, <2>3, <2>5, <2>6
<1> QED
  BY <1>4, <1>5

-----------------------------------------------------------------------------
(***************************************************************************)
(* What the memory says, and the projects found in it.                     *)
(***************************************************************************)
\* Days.
LEMMA DivIs ==
  ASSUME NEW a \in Nat, NEW d \in Nat \ {0}
  PROVE  a \div d \in Nat /\ d * (a \div d) <= a /\ a < d * (a \div d) + d
OBVIOUS

LEMMA DivGrows ==
  ASSUME NEW a \in Nat, NEW b \in Nat, a <= b, NEW d \in Nat \ {0}
  PROVE  a \div d <= b \div d
<1> DEFINE p == a \div d
           q == b \div d
<1>1. p \in Nat /\ q \in Nat /\ d * p <= a /\ b < d * q + d
  BY DivIs
<1> HIDE DEF p, q
<1>2. d * p < d * q + d
  <2>1. d * p \in Nat /\ d * q \in Nat
    BY <1>1
  <2> QED
    BY <1>1, <2>1
<1>3. SUFFICES ASSUME p >= q + 1 PROVE FALSE
  BY <1>1 DEF p, q
<1>4. d * p >= d * (q + 1)
  BY <1>1, <1>3
<1>5. d * (q + 1) = d * q + d
  BY <1>1
<1> QED
  BY <1>1, <1>2, <1>4, <1>5

LEMMA DivTwo ==
  ASSUME NEW a \in Nat, NEW d \in Nat \ {0}, a >= 2 * d
  PROVE  a \div d >= 2
<1> DEFINE p == a \div d
<1>1. p \in Nat /\ a < d * p + d
  BY DivIs
<1> HIDE DEF p
<1>2. SUFFICES ASSUME p <= 1 PROVE FALSE
  BY <1>1 DEF p
<1>3. p = 0 \/ p = 1
  BY <1>1, <1>2
<1> QED
  BY <1>1, <1>3

LEMMA TodayGrows ==
  ASSUME Typed, now' \in Nat, now' >= now
  PROVE  Today \in Nat /\ Today >= 2 /\ Today' \in Nat /\ Today <= Today'
<1>1. now \in Nat /\ now >= 2 * DayLength /\ DayLength \in Nat \ {0} /\ now <= now'
  BY Constants DEF Typed
<1> QED
  BY <1>1, DivIs, DivGrows, DivTwo DEF Today

MemoryRight(m, t) == DaysRight(m, t) /\ SessionsRight(m)

LEMMA MemoryLater ==
  ASSUME NEW m \in Memories, NEW t \in Nat, NEW u \in Nat, t <= u, MemoryRight(m, t)
  PROVE  MemoryRight(m, u)
<1>1. m.last_day <= t /\ m.last_day \in Nat
  BY DEF MemoryRight, DaysRight, Memories
<1>2. m.last_day <= u
  BY <1>1
<1> QED
  BY <1>2, Zenon DEF MemoryRight, DaysRight

LEMMA MemoryNew == \A t \in Nat : MemoryRight(Mem!NewMemory(t), t)
BY NewDays, NewSessions DEF MemoryRight

\* The end of a session changes nothing that days are counted by.
LEMMA ClosedDays ==
  ASSUME NEW m, NEW u, NEW t, IsClosed(m, u), DaysRight(m, t)
  PROVE  DaysRight(u, t)
<1>1. /\ u.history.opens = m.history.opens /\ u.opens = m.opens /\ u.streaks = m.streaks
      /\ u.daily = m.daily /\ u.last_day = m.last_day /\ u.cut = m.cut
  BY DEF IsClosed
<1>2. \A i : FileRight(m, i) => FileRight(u, i)
  BY <1>1, Zenon DEF FileRight
<1> QED
  BY <1>1, <1>2, Zenon DEF DaysRight

\* One event leaves the memory right.
LEMMA MemoryHandled ==
  ASSUME Typed, MemoryRight(ai.memory, Today), NEW e \in Events, NEW b \in handle_event(ai, e)
  PROVE  MemoryRight(b.memory, Today)
<1> DEFINE m == ai.memory
<1>1. IsAI(ai) /\ now \in Nat /\ m \in Memories /\ Today \in Nat /\ Today >= 2
  <2>1. IsAI(ai) /\ now \in Nat /\ now >= 2 * DayLength
    BY DEF Typed
  <2>2. DayLength \in Nat \ {0}
    BY Constants
  <2> QED
    BY <2>1, <2>2, DivTwo, DivIs DEF Today, IsAI
<1>2. b.memory = m => MemoryRight(b.memory, Today)
  OBVIOUS
<1>3. "memory" \in Fields
  BY DEF Fields
<1>4. CASE e \in FileEvent("open", {""}) /\ b \in OnOpen(ai, e)
  <2>1. b.memory = Mem!record_access(m, e.ino, e.name, Today)
    BY <1>1, <1>4, OpenIs
  <2>2. e.ino \in Ino /\ e.name \in Name
    BY <1>4 DEF FileEvent
  <2> HIDE DEF m
  <2>3. DaysRight(b.memory, Today)
    BY <1>1, <2>1, <2>2, AccessDays DEF MemoryRight, m
  <2>4. IsAccessed(m, e.ino, e.name, Today, b.memory)
    BY <1>1, <2>1, <2>2, AccessIs
  <2>5. SessionsRight(b.memory)
    BY <2>4, OtherSessions DEF IsAccessed, MemoryRight, m
  <2> QED
    BY <2>3, <2>5 DEF MemoryRight
<1>5. CASE e \in OwnEvent("end") /\ b \in OnEnd(ai)
  <2>1. b.memory = Mem!close_session(m)
    BY <1>1, <1>5, EndIs DEF IsEnded
  <2>2. IsClosed(m, b.memory)
    BY <1>1, <2>1, SessionIs
  <2>3. DaysRight(b.memory, Today)
    <3>1. DaysRight(m, Today)
      BY DEF MemoryRight, m
    <3> HIDE DEF m
    <3> QED
      BY <2>2, <3>1, ClosedDays
  <2>4. SessionsRight(b.memory)
    BY <1>1, <2>1, CloseSessions DEF MemoryRight
  <2> QED
    BY <2>3, <2>4 DEF MemoryRight
<1> HIDE DEF m
<1>6. CASE e \in FileEvent("write", Classes) /\ b \in OnWrite(ai, e)
  <2>1. SameBut(ai, b, {"guard", "acc", "index", "writes"})
    BY <1>1, <1>6, WriteIs
  <2> QED
    BY <1>2, <1>3, <2>1 DEF SameBut, m
<1>7. CASE e \in FileEvent("close", {""}) /\ b \in OnClose(ai, e)
  <2>1. SameBut(ai, b, {"scores", "acc"})
    BY <1>1, <1>7, CloseIs
  <2> QED
    BY <1>2, <1>3, <2>1 DEF SameBut, m
<1>8. CASE e \in FileEvent("delete", {""}) /\ b \in OnDelete(ai, e)
  <2>1. SameBut(ai, b, {"index", "acc"})
    BY <1>1, <1>8, DeleteIs
  <2> QED
    BY <1>2, <1>3, <2>1 DEF SameBut, m
<1>9. CASE e \in OwnEvent("query") /\ b \in OnQuery(ai, e)
  <2>1. SameBut(ai, b, {"answer"})
    BY <1>1, <1>9, QueryIs
  <2> QED
    BY <1>2, <1>3, <2>1 DEF SameBut, m
<1>10. CASE e \in OwnEvent("sync") /\ b = ai
  BY <1>2, <1>10 DEF m
<1> QED
  BY <1>1, <1>4, <1>5, <1>6, <1>7, <1>8, <1>9, <1>10, HandleIs

ProjectsRight == ai.projects = Mem!Components(ai.memory)

\* After the end of a session comes nothing but a publication, and what it has
\* found stays.
EndsRight ==
  mode = "ai" /\ alive =>
    \/ /\ Len(queue) >= 2
       /\ queue[Len(queue) - 1].kind = "end" /\ queue[Len(queue)].kind = "sync"
    \/ Len(queue) = 1 /\ queue[1].kind = "sync" /\ ProjectsRight
    \/ queue = <<>> /\ ProjectsRight

\* What is published is what the engine has, and what is kept was right.
Remembering ==
  /\ MemoryRight(ai.memory, Today)
  /\ shared = {} \/ shared = {Kept(ai)}
  /\ \A d : disk["memory"] = {d} => MemoryRight(d, Today)
  /\ EndsRight

LEMMA InitRemembers == Init => Remembering
<1> SUFFICES ASSUME Init PROVE Remembering
  OBVIOUS
<1>1. now \in Nat /\ Today \in Nat
  BY InitTyped, TodayIs DEF Typed
<1>2. ai.memory = Mem!NewMemory(Today)
  <2>1. IsAI(NewAI) /\ NewAI.memory = Mem!NewMemory(Today)
    BY <1>1, NewAIIs
  <2>2. ai = Reindexed(NewAI, files)
    BY DEF Init
  <2> QED
    BY <2>1, <2>2 DEF Reindexed, IsAI
<1>3. shared = {} /\ mode = "mounted" /\ disk["memory"] = {}
  BY FilesAre DEF Init, NoFile
<1> QED
  BY <1>1, <1>2, <1>3, MemoryNew DEF Remembering, EndsRight

\* Whoever is not the engine leaves the end of the queue right.
LEMMA QuietEnds ==
  ASSUME Typed, [Next]_vars, ~Handle, ~Save, ~Crash, ~Load, EndsRight
  PROVE  EndsRight'
<1>1. CASE Destroy
  <2> DEFINE d == Event("end", 0, <<>>, {}, "", TRUE)
             e == Event("sync", 0, <<>>, {}, "", TRUE)
  <2>1. /\ d \in Events /\ e \in Events /\ d.kind = "end" /\ e.kind = "sync"
        /\ alive => queue' = Append(Append(queue, d), e)
    BY <1>1, DestroySends DEF OwnEvent
  <2>2. queue \in Seq(Events) /\ alive' = alive
    BY <1>1 DEF Destroy, Typed
  <2> HIDE DEF d, e
  <2>3. alive => /\ Len(queue') >= 2 /\ Len(queue') - 1 = Len(queue) + 1
                 /\ queue'[Len(queue') - 1] = d /\ queue'[Len(queue')] = e
    <3>1. /\ Append(queue, d) \in Seq(Events) /\ Len(Append(queue, d)) = Len(queue) + 1
          /\ Append(queue, d)[Len(queue) + 1] = d /\ Len(queue) \in Nat
      BY <2>1, <2>2, QueueAll
    <3> DEFINE q == Append(queue, d)
    <3> HIDE DEF q
    <3>2. /\ Len(Append(q, e)) = Len(q) + 1 /\ Append(q, e)[Len(q) + 1] = e
          /\ \A k \in 1 .. Len(q) : Append(q, e)[k] = q[k]
      BY <2>1, <3>1, QueueAll DEF q
    <3>3. Len(q) = Len(queue) + 1 /\ q[Len(queue) + 1] = d /\ Len(queue) \in Nat
      BY <3>1 DEF q
    <3>4. Append(q, e)[Len(queue) + 1] = d
      BY <3>2, <3>3
    <3> QED
      BY <2>1, <3>2, <3>3, <3>4 DEF q
  <2> QED
    BY <2>1, <2>2, <2>3 DEF EndsRight
<1>2. CASE mode' # "ai"
  BY <1>2 DEF EndsRight
<1>3. CASE mode' = "ai" /\ ~Destroy
  <2>1. queue' = queue /\ mode = "ai" /\ ai' = ai /\ alive' = alive
    <3>1. \A kinds, e : Request(kinds, e) => mode = "mounted" /\ mode' = mode
      BY DEF Request
    <3>2. \A i : ~Open(i) /\ ~Release(i) /\ ~Unlink(i)
      BY <1>3, <3>1 DEF Open, Release, Unlink
    <3>3. \A i, n : ~Rename(i, n) /\ ~Mkdir(n) /\ ~Rmdir(i)
      BY <1>3 DEF Rename, Mkdir, Rmdir, Silent
    <3>4. \A n : ~Create(n) /\ ~Query(n)
      BY <1>3, <3>1 DEF Create, Query
    <3>5. \A i, W, c, p : ~Write(i, W, c, p)
      BY <1>3, <3>1 DEF Write
    <3>6. Tick \/ UNCHANGED vars
      BY <1>3, <3>2, <3>3, <3>4, <3>5, Zenon DEF Next
    <3>8. Tick \/ UNCHANGED vars => queue' = queue /\ mode = mode' /\ ai' = ai /\ alive' = alive
      BY DEF Tick, vars
    <3> QED
      BY <1>3, <3>6, <3>8
  <2> QED
    BY <2>1 DEF EndsRight, ProjectsRight
<1> QED
  BY <1>1, <1>2, <1>3

\* The engine's step, at the end of a session.
LEMMA HandleEnds ==
  ASSUME Typed, Handle, EndsRight
  PROVE  EndsRight'
<1> DEFINE e == Head(queue)
<1>1. /\ e \in Events /\ alive /\ queue # <<>> /\ mode' = mode
      /\ \/ ~alive'
         \/ /\ IsAI(ai') /\ ai' \in handle_event(ai, e) /\ queue' = Tail(queue)
            /\ e.kind = "end" => ~Mem!Panics(Mem!close_session(ai.memory))
  BY HandledIs
<1>2. /\ Tail(queue) \in Seq(Events) /\ Len(Tail(queue)) = Len(queue) - 1
      /\ Len(queue) \in Nat /\ Len(queue) >= 1 /\ e = queue[1]
      /\ \A k \in 1 .. Len(Tail(queue)) : Tail(queue)[k] = queue[k + 1]
  <2>1. queue \in Seq(Events)
    BY DEF Typed
  <2> QED
    BY <1>1, <2>1, QueueAll
<1>3. SUFFICES ASSUME alive', mode = "ai", queue' = Tail(queue), ai' \in handle_event(ai, e),
                      e.kind = "end" => ~Mem!Panics(Mem!close_session(ai.memory))
               PROVE  EndsRight'
  BY <1>1 DEF EndsRight
<1>4. CASE Len(queue) = 1 /\ queue[1].kind = "sync" /\ ProjectsRight
  <2>1. ai' = ai
    BY <1>2, <1>3, <1>4 DEF handle_event
  <2>2. queue' = <<>>
    BY <1>2, <1>3, <1>4
  <2> QED
    BY <1>4, <2>1, <2>2 DEF EndsRight, ProjectsRight
<1>5. CASE /\ Len(queue) >= 2
           /\ queue[Len(queue) - 1].kind = "end" /\ queue[Len(queue)].kind = "sync"
  <2>1. CASE Len(queue) = 2
    <3>1. e.kind = "end"
      BY <1>2, <1>5, <2>1
    <3>2. ai' \in OnEnd(ai) /\ IsAI(ai) /\ now \in Nat
      BY <1>3, <3>1, Zenon DEF handle_event, Typed
    <3>3. IsEnded(ai, ai')
      BY <3>2, EndIs
    <3>4. ai.memory \in Memories /\ Mem!close_session(ai.memory) \in Memories
      BY <3>2, SessionIs DEF IsAI
    <3>5. ai'.memory = Mem!close_session(ai.memory) /\ ~Mem!Panics(ai'.memory)
          /\ \E order \in SetToSeqs(Mem!Close(ai'.memory)) :
               ai'.projects = Mem!discover_projects(ai'.memory, order)
      BY <1>3, <3>1, <3>3 DEF IsEnded
    <3>6. ai'.projects = Mem!Components(ai'.memory)
      BY <3>4, <3>5, ProjectsAre
    <3>7. Len(queue') = 1 /\ queue'[1].kind = "sync"
      BY <1>2, <1>3, <1>5, <2>1
    <3> QED
      BY <3>6, <3>7 DEF EndsRight, ProjectsRight
  <2>2. CASE Len(queue) > 2
    <3> DEFINE n == Len(queue)
    <3>1. n - 1 \in 1 .. n - 1 /\ n - 2 \in 1 .. n - 1 /\ (n - 1) + 1 = n /\ (n - 2) + 1 = n - 1
          /\ n - 1 >= 2 /\ (n - 1) - 1 = n - 2
      BY <1>2, <2>2
    <3>2. queue'[n - 1] = queue[n] /\ queue'[n - 2] = queue[n - 1] /\ Len(queue') = n - 1
      <4> HIDE DEF n
      <4>1. Len(Tail(queue)) = n - 1
        BY <1>2 DEF n
      <4> QED
        BY <1>2, <1>3, <3>1, <4>1
    <3>3. /\ Len(queue') >= 2
          /\ queue'[Len(queue') - 1].kind = "end" /\ queue'[Len(queue')].kind = "sync"
      BY <1>5, <3>1, <3>2
    <3> QED
      BY <3>3 DEF EndsRight
  <2> QED
    BY <1>2, <1>5, <2>1, <2>2
<1> QED
  BY <1>1, <1>3, <1>4, <1>5 DEF EndsRight

LEMMA StepRemembers == Typed /\ Remembering /\ [Next]_vars => Remembering'
<1> SUFFICES ASSUME Typed, Remembering, [Next]_vars PROVE Remembering'
  OBVIOUS
<1>1. /\ Typed' /\ now \in Nat /\ now' \in Nat /\ ai.memory \in Memories /\ IsAI(ai)
      /\ Today \in Nat /\ IsDisk(disk) /\ IsDisk(disk')
  BY StepTyped, TodayIs DEF Typed, IsAI, IsDisk
<1>2. /\ MemoryRight(ai.memory, Today) /\ (shared = {} \/ shared = {Kept(ai)})
      /\ \A d : disk["memory"] = {d} => MemoryRight(d, Today)
      /\ EndsRight
  BY DEF Remembering
<1>3. \A x, y : {x} = {y} => x = y
  OBVIOUS
<1>4. \A d : disk["memory"] = {d} => d \in Memories
  BY <1>1, <1>3 DEF IsDisk
<1>5. CASE Handle
  <2> DEFINE e == Head(queue)
  <2>1. /\ e \in Events /\ UNCHANGED <<disk, now>>
        /\ \/ UNCHANGED <<ai, shared>>
           \/ ai' \in handle_event(ai, e) /\ shared' = {Kept(ai')}
    BY <1>5, HandledIs
  <2>2. MemoryRight(ai'.memory, Today)
    BY <1>2, <2>1, MemoryHandled
  <2>3. Today' = Today
    BY <2>1 DEF Today
  <2>4. shared' = {} \/ shared' = {Kept(ai')}
    BY <1>2, <2>1
  <2>5. EndsRight'
    BY <1>2, <1>5, HandleEnds
  <2>6. Kept(ai)' = Kept(ai')
    BY DEF Kept, Mod!to_bytes
  <2> QED
    BY <1>2, <2>1, <2>2, <2>3, <2>4, <2>5, <2>6 DEF Remembering
<1>6. ASSUME Ended("unmounted"), UNCHANGED now,
             \A d : disk'["memory"] = {d} => MemoryRight(d, Today)
      PROVE  Remembering'
  <2>1. ai' = NewAI /\ shared' = {} /\ mode' = "unmounted" /\ Today' = Today
    BY <1>6 DEF Ended, Today
  <2>2. MemoryRight(ai'.memory, Today)
    BY <1>1, <2>1, NewAIIs, MemoryNew
  <2> QED
    BY <1>6, <2>1, <2>2 DEF Remembering, EndsRight
<1>7. CASE Save
  <2>1. PICK c \in Contents[mode] : disk' = [disk EXCEPT ![mode] = c]
    BY <1>7 DEF Save
  <2>2. DOMAIN disk = Files /\ mode \in Files /\ UNCHANGED now
    BY <1>1, <1>7, DiskIs DEF Save
  <2>3. CASE mode = "memory"
    <3>1. disk'["memory"] = c
      BY <2>1, <2>2, <2>3
    <3>2. c \in save_memory
      BY <2>1, <2>3 DEF Contents
    <3>3. ASSUME NEW d, c = {d} PROVE MemoryRight(d, Today)
      <4>1. CASE shared = {}
        <5>1. c = disk["memory"]
          BY <3>2, <4>1 DEF save_memory
        <5> QED
          BY <1>2, <3>3, <5>1
      <4>2. CASE shared # {}
        <5>1. shared = {Kept(ai)} /\ Published = Kept(ai)
          BY <1>2, <4>2, PublishedIs
        <5>2. Published.memory = ai.memory
          BY <1>1, <5>1, KeptIs
        <5>3. d \in Mem!Reread(ai.memory)
          BY <3>2, <3>3, <4>2, <5>2 DEF save_memory
        <5>4. d \in Memories /\ IsReread(ai.memory, d)
          BY <1>1, <5>3, RereadIs
        <5> QED
          BY <1>1, <1>2, <5>4, RereadDays, RereadSessions DEF MemoryRight
      <4> QED
        BY <4>1, <4>2
    <3>4. Ended("unmounted")
      BY <1>7, <2>3 DEF Save
    <3> QED
      BY <1>6, <2>2, <3>1, <3>3, <3>4
  <2>4. CASE mode # "memory"
    <3>1. disk'["memory"] = disk["memory"]
      BY <2>1, <2>2, <2>4, FilesAre
    <3>2. UNCHANGED <<ai, shared, queue, alive>> /\ mode' = NextFile[mode]
      BY <1>7, <2>4 DEF Save
    <3>3. mode' # "ai"
      BY <2>2, <3>2, FilesAre DEF NextFile
    <3>4. Today' = Today /\ Kept(ai)' = Kept(ai)
      BY <2>2, <3>2 DEF Today, Kept, Mod!to_bytes
    <3> QED
      BY <1>2, <3>1, <3>2, <3>3, <3>4 DEF Remembering, EndsRight
  <2> QED
    BY <2>3, <2>4
<1>8. CASE Crash
  <2>1. Ended("unmounted") /\ UNCHANGED now
    BY <1>8 DEF Crash
  <2>2. disk' = disk \/ (mode \in Files /\ disk' = [disk EXCEPT ![mode] = NoFile])
    BY <1>8 DEF Crash
  <2>3. DOMAIN disk = Files
    BY <1>1, DiskIs
  <2>4. disk'["memory"] = disk["memory"] \/ disk'["memory"] = {}
    BY <2>2, <2>3, FilesAre DEF NoFile
  <2>5. \A d : {} # {d}
    OBVIOUS
  <2>6. \A d : disk'["memory"] = {d} => MemoryRight(d, Today)
    BY <1>2, <2>4, <2>5
  <2> QED
    BY <1>6, <2>1, <2>6
<1>9. CASE Load
  <2>1. PICK order \in Orders(disk), text \in [Remaining -> SUBSET Word] :
          ai' = Reindexed(Restored(disk, order), FoundWith(text))
    BY <1>9, MountIs
  <2>2. ai'.memory = load_memory(disk["memory"])
    <3>1. ai'.memory = Restored(disk, order).memory
      BY <1>9, <2>1, MountIs, LoadedAI
    <3>2. Restored(disk, order).memory = load_memory(disk["memory"])
      BY <1>1, RestoredIs
    <3> QED
      BY <3>1, <3>2
  <2>3. MemoryRight(ai'.memory, Today)
    <3>1. CASE disk["memory"] = {}
      BY <1>1, <2>2, <3>1, LoadedIs, MemoryNew
    <3>2. CASE disk["memory"] # {}
      <4>1. PICK d : disk["memory"] = {d}
        BY <1>1, <3>2 DEF IsDisk
      <4> QED
        BY <1>1, <1>2, <2>2, <4>1, LoadedIs
    <3> QED
      BY <3>1, <3>2
  <2>4. shared = {} /\ UNCHANGED <<shared, disk, now>> /\ mode' = "mounted"
    BY <1>9 DEF Load, Typed
  <2>5. Today' = Today
    BY <2>4 DEF Today
  <2> QED
    BY <1>2, <2>3, <2>4, <2>5 DEF Remembering, EndsRight
<1>10. CASE ~Handle /\ ~Save /\ ~Crash /\ ~Load
  <2>1. Quiet
    BY <1>10, Steps
  <2>2. UNCHANGED <<ai, shared, disk>> /\ now' >= now
    BY <2>1 DEF Quiet
  <2>3. Today' \in Nat /\ Today <= Today'
    BY <1>1, <2>2, TodayGrows
  <2>4. MemoryRight(ai.memory, Today')
    BY <1>1, <1>2, <2>3, MemoryLater
  <2>5. \A d : disk["memory"] = {d} => MemoryRight(d, Today')
    BY <1>1, <1>2, <1>4, <2>3, MemoryLater
  <2>6. EndsRight'
    BY <1>2, <1>10, QuietEnds
  <2>7. Kept(ai)' = Kept(ai)
    BY <2>2 DEF Kept, Mod!to_bytes
  <2> QED
    BY <1>2, <2>2, <2>4, <2>5, <2>6, <2>7 DEF Remembering
<1> QED
  BY <1>5, <1>7, <1>8, <1>9, <1>10

\* The memory says what happened, for any files and over any mounts, crashes and
\* truncations of its file: streaks, daily counts and opens by the history of
\* opens, pairs and sessions by the history of sessions; and the projects that
\* discover_projects found last are the components of the graph of close pairs,
\* in whatever order it took them (ai/memory.rs, ai/workspace.rs).
THEOREM MemoryIsRight == Spec => []MemoryMatchesHistory
<1>1. Typed /\ Remembering => MemoryMatchesHistory
  <2> SUFFICES ASSUME Typed, Remembering PROVE MemoryMatchesHistory
    OBVIOUS
  <2>1. ai.memory \in Memories /\ DaysRight(ai.memory, Today) /\ SessionsRight(ai.memory)
    BY DEF Typed, IsAI, Remembering, MemoryRight
  <2>2. Mem!DaysRemembered(ai.memory) /\ Mem!SessionsRemembered(ai.memory)
    BY <2>1, DaysAreRight, SessionsAreRight
  <2>3. mode = "ai" /\ alive /\ Len(queue) < 2 => ProjectsRight
    <3>1. Len(queue) \in Nat
      BY DEF Typed
    <3> QED
      BY <3>1 DEF Remembering, EndsRight
  <2> QED
    BY <2>2, <2>3, Zenon DEF MemoryMatchesHistory, ProjectsRight
<1> QED
  BY <1>1, InitTyped, InitRemembers, StepTyped, StepRemembers, PTL DEF Spec

-----------------------------------------------------------------------------
(***************************************************************************)
(* Search.                                                                 *)
(***************************************************************************)
\* The files of an index that have word w; and that no word counts for fewer.
Having(s, w) == {i \in DOMAIN s.files : w \in s.files[i].words}
Enough(s) == \A w \in Word : s.df[w] >= Cardinality(Having(s, w))

LEMMA HavingIs ==
  ASSUME NEW s \in Indexes, NEW w \in Word, NEW i
  PROVE  LET H == Having(s, w)
             R == H \ {i}
         IN  /\ IsFiniteSet(H) /\ Cardinality(H) \in Nat /\ s.df[w] \in Nat
             /\ IsFiniteSet(R) /\ Cardinality(R) = Cardinality(H) - (IF i \in H THEN 1 ELSE 0)
             /\ Cardinality(R \cup {i}) = Cardinality(R) + 1
             /\ i \in H => Cardinality(H) >= 1
             /\ i \in H <=> w \in Mod!WordsOf(s, i)
<1> DEFINE H == Having(s, w)
           R == H \ {i}
<1>1. H \in SUBSET Ino /\ s.df[w] \in Nat
  BY MapsIs DEF Indexes, Having
<1>2. IsFiniteSet(H) /\ IsFiniteSet(R)
  BY <1>1, Constants, FS_Subset
<1>3. i \in H <=> w \in Mod!WordsOf(s, i)
  BY DEF Having, Mod!WordsOf
<1> HIDE DEF H
<1>4. Cardinality(H) \in Nat /\ Cardinality(R) \in Nat
  BY <1>2, FS_CardinalityType
<1>5. CASE i \in H
  <2>1. H = R \cup {i} /\ i \notin R
    BY <1>5
  <2>2. Cardinality(R \cup {i}) = Cardinality(R) + 1
    BY <1>2, <2>1, FS_AddElement
  <2>3. Cardinality(H) = Cardinality(R) + 1
    BY <2>1, <2>2
  <2>4. Cardinality(H) >= 1 /\ Cardinality(R) = Cardinality(H) - 1
    BY <1>4, <2>3
  <2> HIDE DEF R
  <2> QED
    BY <1>1, <1>2, <1>3, <1>4, <1>5, <2>2, <2>4 DEF H, R
<1>6. CASE i \notin H
  <2>1. H = R /\ i \notin R
    BY <1>6
  <2>2. Cardinality(R \cup {i}) = Cardinality(R) + 1
    BY <1>2, <2>1, FS_AddElement
  <2> QED
    BY <1>1, <1>2, <1>3, <1>4, <1>6, <2>1, <2>2 DEF H
<1> QED
  BY <1>5, <1>6

LEMMA IndexEnough ==
  ASSUME NEW s \in Indexes, Enough(s), NEW i \in Ino, NEW n \in Name, NEW words \in SUBSET Word
  PROVE  Enough(Mod!index(s, i, n, words))
<1> DEFINE t == Mod!index(s, i, n, words)
           W == words \cup Range(n)
<1>1. /\ t.files = With(s.files, i, [name |-> n, words |-> W])
      /\ \A w \in Word : t.df[w] = Dropped(s, i, words, w) + Counting(n, words, w)
  BY IndexIs
<1> HIDE DEF t
<1> SUFFICES ASSUME NEW w \in Word PROVE t.df[w] >= Cardinality(Having(t, w))
  BY DEF Enough, t
<1> DEFINE H == Having(s, w)
           R == H \ {i}
<1>2. Having(t, w) = IF w \in W THEN R \cup {i} ELSE R
  <2> DEFINE x == [name |-> n, words |-> W]
  <2> HIDE DEF x
  <2>4. t.files = With(s.files, i, x)
    BY <1>1 DEF x
  <2>5. DOMAIN t.files = DOMAIN s.files \cup {i} /\ t.files[i] = x
        /\ \A j \in DOMAIN s.files \ {i} : t.files[j] = s.files[j]
    BY <2>4 DEF With
  <2>1. DOMAIN t.files = DOMAIN s.files \cup {i} /\ t.files[i].words = W
        /\ \A j \in DOMAIN s.files \ {i} : t.files[j] = s.files[j]
    BY <2>5 DEF x
  <2> HIDE DEF W
  <2> QED
    BY <2>1 DEF Having
<1>3. /\ Cardinality(H) \in Nat /\ s.df[w] \in Nat
      /\ Cardinality(R) = Cardinality(H) - (IF i \in H THEN 1 ELSE 0)
      /\ Cardinality(R \cup {i}) = Cardinality(R) + 1
      /\ i \in H => Cardinality(H) >= 1
      /\ i \in H <=> w \in Mod!WordsOf(s, i)
  BY HavingIs
<1>4. s.df[w] >= Cardinality(H)
  BY DEF Enough
<1> HIDE DEF H, R
<1>5. Dropped(s, i, words, w) >= Cardinality(R) /\ Dropped(s, i, words, w) \in Nat
      /\ Cardinality(R) \in Nat
  BY <1>3, <1>4 DEF Dropped, Mod!Less
<1>6. Counting(n, words, w) \in Nat /\ (w \in W => Counting(n, words, w) >= 1)
  BY InNameIs DEF Counting, Has
<1> HIDE DEF W
<1> QED
  BY <1>1, <1>2, <1>3, <1>5, <1>6

LEMMA RemoveEnough ==
  ASSUME NEW s \in Indexes, Enough(s), NEW i
  PROVE  Enough(Mod!remove(s, i))
<1> DEFINE t == Mod!remove(s, i)
<1>1. /\ t.files = Without(s.files, i)
      /\ \A w \in Word :
           t.df[w] = IF w \in Mod!WordsOf(s, i) THEN Mod!Less(s.df[w]) ELSE s.df[w]
  BY RemoveIs
<1> HIDE DEF t
<1> SUFFICES ASSUME NEW w \in Word PROVE t.df[w] >= Cardinality(Having(t, w))
  BY DEF Enough, t
<1> DEFINE H == Having(s, w)
           R == H \ {i}
<1>2. Having(t, w) = R
  <2>1. DOMAIN t.files = DOMAIN s.files \ {i}
        /\ \A j \in DOMAIN s.files \ {i} : t.files[j] = s.files[j]
    BY <1>1 DEF Without
  <2> QED
    BY <2>1 DEF Having
<1>3. /\ Cardinality(H) \in Nat /\ s.df[w] \in Nat
      /\ Cardinality(R) = Cardinality(H) - (IF i \in H THEN 1 ELSE 0)
      /\ i \in H => Cardinality(H) >= 1
      /\ i \in H <=> w \in Mod!WordsOf(s, i)
  BY HavingIs
<1>4. s.df[w] >= Cardinality(H)
  BY DEF Enough
<1> HIDE DEF H, R
<1> QED
  BY <1>1, <1>2, <1>3, <1>4 DEF Mod!Less

\* After a mount the index has what there is.
LEMMA ReindexedRight ==
  ASSUME NEW fs \in Inodes
  PROVE  LET s == Looped(Indexing(fs), Mod!NewIndex, SetToSeq(DOMAIN fs))
         IN  /\ Enough(s) /\ DOMAIN s.files = DOMAIN fs
             /\ \A i \in DOMAIN fs : fs[i].sent.since \subseteq s.files[i].words
<1> DEFINE order == SetToSeq(DOMAIN fs)
           n == Cardinality(DOMAIN fs)
           loop == Indexing(fs)
           new == Mod!NewIndex
           Taken(k) == {order[j] : j \in 1 .. k}
           Right(s, D) == /\ Enough(s) /\ DOMAIN s.files = D
                          /\ \A i \in D : fs[i].sent.since \subseteq s.files[i].words
<1>1. new \in Indexes /\ new.files = <<>> /\ \A w \in Word : new.df[w] = 0
  BY NewIndexIs
<1>2. n \in Nat /\ DOMAIN order = 1 .. n /\ (\A k \in 1 .. n : order[k] \in DOMAIN fs)
      /\ Taken(n) = DOMAIN fs
  <2>1. IsOrder(order, DOMAIN fs)
    BY <1>1, IndexRounds
  <2> HIDE DEF order
  <2> QED
    BY <2>1, ZenonT(40) DEF IsOrder
<1>3. PICK m \in [0 .. n -> Indexes] : IsLoop(m, loop, new, order, n)
  BY <1>1, IndexRounds
<1>4. \A i \in DOMAIN fs : i \in Ino /\ fs[i].name \in Name /\ fs[i].sent.since \in SUBSET Word
  BY InodeIs
<1>5. \A s, i : Do(loop, s, i) = Mod!index(s, i, fs[i].name, fs[i].sent.since)
  BY DEF Do, Indexing
<1> HIDE DEF order, n, loop, new
<1>6. Right(new, {})
  <2>1. \A w : Having(new, w) = {}
    BY <1>1 DEF Having
  <2>2. Enough(new)
    <3>1. Cardinality({}) = 0
      BY FS_EmptySet
    <3>2. ASSUME NEW w \in Word PROVE new.df[w] >= Cardinality(Having(new, w))
      <4>1. Cardinality(Having(new, w)) = 0
        BY <2>1, <3>1, Zenon
      <4> QED
        BY <1>1, <4>1
    <3> QED
      BY <3>2 DEF Enough
  <2> QED
    BY <1>1, <2>2
<1>7. ASSUME NEW s \in Indexes, NEW D \in SUBSET DOMAIN fs, Right(s, D), NEW i \in DOMAIN fs
      PROVE  Right(Do(loop, s, i), D \cup {i})
  <2> DEFINE t == Mod!index(s, i, fs[i].name, fs[i].sent.since)
  <2>1. Enough(t)
    BY <1>4, <1>7, IndexEnough
  <2> DEFINE x == [name |-> fs[i].name, words |-> fs[i].sent.since \cup Range(fs[i].name)]
  <2>2. t.files = With(s.files, i, x)
    BY <1>4, IndexIs
  <2>6. fs[i].sent.since \subseteq x.words
    OBVIOUS
  <2> HIDE DEF t, x
  <2>3. /\ DOMAIN t.files = D \cup {i} /\ fs[i].sent.since \subseteq t.files[i].words
        /\ \A j \in D \ {i} : t.files[j] = s.files[j]
    BY <1>7, <2>2, <2>6 DEF With
  <2>4. \A j \in D \cup {i} : fs[j].sent.since \subseteq t.files[j].words
    BY <1>7, <2>3
  <2> QED
    BY <1>5, <2>1, <2>3, <2>4 DEF t
<1> DEFINE T == {k \in 0 .. n : Right(m[k], Taken(k))}
<1>8. 0 \in T
  <2>1. m[0] = new /\ Taken(0) = {} /\ 0 \in 0 .. n
    BY <1>2, <1>3 DEF IsLoop
  <2> HIDE DEF Right, Taken
  <2> QED
    BY <1>6, <2>1
<1>9. ASSUME NEW k \in 0 .. (n - 1), k \in T PROVE k + 1 \in T
  <2>1. k \in Nat /\ k + 1 \in 1 .. n /\ k + 1 \in 0 .. n /\ (k + 1) - 1 = k /\ k \in 0 .. n
    BY <1>2
  <2>2. m[k + 1] = Do(loop, m[k], order[k + 1])
    BY <1>3, <2>1 DEF IsLoop
  <2>3. Taken(k + 1) = Taken(k) \cup {order[k + 1]} /\ Taken(k) \in SUBSET DOMAIN fs
    <3>1. 1 .. k + 1 = (1 .. k) \cup {k + 1} /\ 1 .. k \subseteq 1 .. n
      BY <2>1, <1>2
    <3> QED
      BY <1>2, <3>1
  <2>4. m[k] \in Indexes /\ order[k + 1] \in DOMAIN fs /\ Right(m[k], Taken(k))
    BY <1>2, <1>9, <2>1
  <2> HIDE DEF Right, Taken
  <2>5. Right(m[k + 1], Taken(k + 1))
    BY <1>7, <2>2, <2>3, <2>4
  <2> QED
    BY <2>1, <2>5
<1>10. Right(m[n], DOMAIN fs)
  <2>1. 0 .. n \subseteq T
    <3> HIDE DEF T
    <3> QED
      BY <1>2, <1>8, <1>9, UpTo
  <2>2. n \in T
    BY <1>2, <2>1
  <2> HIDE DEF Right, Taken
  <2> QED
    BY <1>2, <2>2
<1>11. Looped(loop, new, order) = m[n]
  BY <1>3 DEF IsLoop
<1>12. Right(Looped(loop, new, order), DOMAIN fs)
  <2> HIDE DEF Right
  <2> QED
    BY <1>10, <1>11
<1> QED
  BY <1>12 DEF loop, new, order

\* After place k of the queue something of this kind, of file i, waits.
Sent(q, kind, k, i) == \E j \in k + 1 .. Len(q) : q[j].kind = kind /\ q[j].ino = i

\* File i is gone: what the engine has of it, and any write of it that waits, is
\* followed by the delete.
Gone(q, a, i) ==
  /\ i \in DOMAIN a.index.files \cup DOMAIN a.acc => Sent(q, "delete", 0, i)
  /\ \A k \in 1 .. Len(q) : q[k].kind = "write" /\ q[k].ino = i => Sent(q, "delete", k, i)

\* File i is there: what was sent of it after what the engine has taken.
After(s, e, i) ==
  IF e.ino = i /\ e.kind = "write" THEN Written(s, e.words, e.apart)
  ELSE IF e.ino = i /\ e.kind = "close" THEN [s EXCEPT !.open = FALSE] ELSE s

SameText(s, t) == s.told = t.told /\ s.whole = t.whole /\ s.since = t.since /\ s.latest = t.latest

Chain(q, i, sent, h) ==
  /\ h \in [0 .. Len(q) -> Sending] /\ h[Len(q)] = sent
  /\ \A k \in 1 .. Len(q) : h[k] = After(h[k - 1], q[k], i)
  /\ \A k \in 0 .. Len(q) : ~Sent(q, "write", k, i) => SameText(h[k], sent)

\* What the engine has of it, when s is what it has taken.
Tracks(a, i, s) ==
  /\ s.open <=> i \in DOMAIN a.acc
  /\ s.open /\ s.whole => s.since \subseteq a.acc[i]
  /\ s.told => /\ i \in DOMAIN a.index.files
               /\ s.whole => s.since \subseteq a.index.files[i].words
               /\ \E lost \in AtMostOne : s.latest \ lost \subseteq a.index.files[i].words

Live(q, sent, a, i) ==
  /\ ~Sent(q, "delete", 0, i)
  /\ \E h : Chain(q, i, sent, h) /\ Tracks(a, i, h[0])

LEMMA AfterIs ==
  ASSUME NEW s \in Sending, NEW e \in Events, NEW i
  PROVE  /\ After(s, e, i) \in Sending
         /\ ~(e.ino = i /\ e.kind = "write") => SameText(After(s, e, i), s)
         /\ ~(e.ino = i /\ e.kind \in {"write", "close"}) => After(s, e, i) = s
<1>1. CASE e.ino = i /\ e.kind = "write"
  <2>1. e.words \in SUBSET Word /\ e.apart \in BOOLEAN
    BY DEF Events, FileEvent, OwnEvent
  <2>2. After(s, e, i) = Written(s, e.words, e.apart)
    BY <1>1 DEF After
  <2> QED
    BY <1>1, <2>1, <2>2, SendingIs
<1>2. CASE e.ino = i /\ e.kind = "close"
  <2>1. After(s, e, i) = [s EXCEPT !.open = FALSE]
    BY <1>2 DEF After
  <2>2. SameText([s EXCEPT !.open = FALSE], s)
    BY DEF Sending, SameText
  <2> QED
    BY <1>2, <2>1, <2>2, SendingIs
<1>3. CASE ~(e.ino = i /\ e.kind \in {"write", "close"})
  BY <1>3 DEF After, SameText
<1> QED
  BY <1>1, <1>2, <1>3

\* What is sent, and what is taken.
LEMMA SentOne ==
  ASSUME NEW q \in Seq(Events), NEW e \in Events, NEW kind, NEW i
  PROVE  \A k \in 0 .. Len(q) :
           Sent(Append(q, e), kind, k, i) <=> Sent(q, kind, k, i) \/ (e.kind = kind /\ e.ino = i)
<1> DEFINE p == Append(q, e)
<1>1. Len(p) = Len(q) + 1 /\ p[Len(q) + 1] = e /\ (\A k \in 1 .. Len(q) : p[k] = q[k])
      /\ Len(q) \in Nat
  BY QueueAll
<1> HIDE DEF p
<1> SUFFICES ASSUME NEW k \in 0 .. Len(q)
             PROVE  Sent(p, kind, k, i) <=> Sent(q, kind, k, i) \/ (e.kind = kind /\ e.ino = i)
  BY DEF p
<1>2. k + 1 .. Len(p) = (k + 1 .. Len(q)) \cup {Len(q) + 1} /\ k + 1 .. Len(q) \subseteq 1 .. Len(q)
  BY <1>1
<1> QED
  BY <1>1, <1>2 DEF Sent

LEMMA SentTail ==
  ASSUME NEW q \in Seq(Events), q # <<>>, NEW kind, NEW i
  PROVE  /\ \A k \in 0 .. Len(Tail(q)) : Sent(Tail(q), kind, k, i) <=> Sent(q, kind, k + 1, i)
         /\ Sent(q, kind, 0, i) <=> Sent(q, kind, 1, i) \/ (q[1].kind = kind /\ q[1].ino = i)
         /\ \A k \in 1 .. Len(q) : Sent(q, kind, k, i) => Sent(q, kind, 0, i)
<1> DEFINE p == Tail(q)
<1>1. Len(p) = Len(q) - 1 /\ (\A k \in 1 .. Len(p) : p[k] = q[k + 1]) /\ Len(q) \in Nat /\ Len(q) >= 1
  BY QueueAll
<1> HIDE DEF p
<1>2. ASSUME NEW k \in 0 .. Len(p) PROVE Sent(p, kind, k, i) <=> Sent(q, kind, k + 1, i)
  <2>1. \A j \in k + 1 .. Len(p) : j + 1 \in (k + 1) + 1 .. Len(q) /\ p[j] = q[j + 1]
    BY <1>1
  <2>2. \A j \in (k + 1) + 1 .. Len(q) : j - 1 \in k + 1 .. Len(p) /\ p[j - 1] = q[j]
    <3>1. \A j \in (k + 1) + 1 .. Len(q) : j - 1 \in k + 1 .. Len(p) /\ (j - 1) + 1 = j
      BY <1>1
    <3> QED
      BY <2>1, <3>1
  <2> QED
    BY <2>1, <2>2, ZenonT(40) DEF Sent
<1>3. 0 + 1 .. Len(q) = (1 + 1 .. Len(q)) \cup {1}
  BY <1>1
<1>4. \A k \in 1 .. Len(q) : k + 1 .. Len(q) \subseteq 0 + 1 .. Len(q)
  BY <1>1
<1> QED
  BY <1>2, <1>3, <1>4 DEF Sent, p

LEMMA SentSome ==
  ASSUME NEW q \in Seq(Events), NEW kind, NEW i
  PROVE  Sent(q, kind, 0, i) <=> \E k \in DOMAIN q : q[k].kind = kind /\ q[k].ino = i
<1>1. DOMAIN q = 0 + 1 .. Len(q)
  OBVIOUS
<1> QED
  BY <1>1 DEF Sent

\* What is sent of another file, or is nothing to the index.
LEMMA AppendGone ==
  ASSUME NEW q \in Seq(Events), NEW e \in Events, NEW a, NEW i, Gone(q, a, i),
         ~(e.kind = "write" /\ e.ino = i)
  PROVE  Gone(Append(q, e), a, i)
<1> DEFINE p == Append(q, e)
<1>1. Len(p) = Len(q) + 1 /\ p[Len(q) + 1] = e /\ (\A k \in 1 .. Len(q) : p[k] = q[k])
      /\ Len(q) \in Nat
  BY QueueAll
<1>2. \A k \in 0 .. Len(q) : Sent(q, "delete", k, i) => Sent(p, "delete", k, i)
  BY SentOne
<1> HIDE DEF p
<1>3. \A k \in 1 .. Len(p) : k \in 1 .. Len(q) \/ k = Len(q) + 1
  BY <1>1
<1>4. 0 \in 0 .. Len(q) /\ \A k \in 1 .. Len(q) : k \in 0 .. Len(q)
  BY <1>1
<1> QED
  BY <1>1, <1>2, <1>3, <1>4 DEF Gone, p

\* The delete of file i.
LEMMA AppendDelete ==
  ASSUME NEW q \in Seq(Events), NEW e \in Events, NEW a, NEW i, e.kind = "delete", e.ino = i
  PROVE  Gone(Append(q, e), a, i)
<1> DEFINE p == Append(q, e)
<1>1. Len(p) = Len(q) + 1 /\ p[Len(q) + 1] = e /\ Len(q) \in Nat
  BY QueueAll
<1>2. \A k \in 0 .. Len(q) : Sent(p, "delete", k, i)
  BY SentOne
<1> HIDE DEF p
<1>3. \A k \in 1 .. Len(p) : k \in 0 .. Len(q) \/ k = Len(q) + 1
  BY <1>1
<1>4. 0 \in 0 .. Len(q) /\ p[Len(q) + 1].kind # "write"
  BY <1>1
<1> QED
  BY <1>2, <1>3, <1>4 DEF Gone, p

\* What is sent of a file follows what was sent of it before.
LEMMA AppendChain ==
  ASSUME NEW q \in Seq(Events), NEW e \in Events, NEW i, NEW sent \in Sending, NEW h,
         Chain(q, i, sent, h)
  PROVE  \E g : Chain(Append(q, e), i, After(sent, e, i), g) /\ g[0] = h[0]
<1> DEFINE p == Append(q, e)
           n == Len(q)
           new == After(sent, e, i)
           g == [k \in 0 .. n + 1 |-> IF k = n + 1 THEN new ELSE h[k]]
<1>1. Len(p) = n + 1 /\ p[n + 1] = e /\ (\A k \in 1 .. n : p[k] = q[k]) /\ n \in Nat
  BY QueueAll
<1>2. \A k \in 0 .. n : Sent(p, "write", k, i) <=> Sent(q, "write", k, i) \/ (e.kind = "write" /\ e.ino = i)
  BY SentOne
<1>3. /\ h \in [0 .. n -> Sending] /\ h[n] = sent
      /\ \A k \in 1 .. n : h[k] = After(h[k - 1], q[k], i)
      /\ \A k \in 0 .. n : ~Sent(q, "write", k, i) => SameText(h[k], sent)
  BY DEF Chain
<1>4. /\ new \in Sending
      /\ ~(e.ino = i /\ e.kind = "write") => SameText(new, sent)
  BY AfterIs
<1> HIDE DEF p, n
<1>5. /\ g \in [0 .. n + 1 -> Sending] /\ g[n + 1] = new
      /\ \A k \in 0 .. n : g[k] = h[k]
  <2>1. \A k \in 0 .. n + 1 : k = n + 1 \/ k \in 0 .. n
    BY <1>1
  <2>2. \A k \in 0 .. n : k # n + 1 /\ k \in 0 .. n + 1
    BY <1>1
  <2>3. n + 1 \in 0 .. n + 1
    BY <1>1
  <2> HIDE DEF new
  <2> QED
    BY <1>3, <1>4, <2>1, <2>2, <2>3
<1> HIDE DEF g
<1>6. ASSUME NEW k \in 1 .. n + 1 PROVE g[k] = After(g[k - 1], p[k], i)
  <2>1. CASE k = n + 1
    <3>1. k - 1 = n /\ n \in 0 .. n
      BY <1>1, <2>1
    <3> QED
      BY <1>1, <1>3, <1>5, <2>1, <3>1
  <2>2. CASE k # n + 1
    <3>1. k \in 1 .. n /\ k \in 0 .. n /\ k - 1 \in 0 .. n
      BY <1>1, <2>2
    <3> QED
      BY <1>1, <1>3, <1>5, <3>1
  <2> QED
    BY <2>1, <2>2
<1>7. ASSUME NEW k \in 0 .. n + 1, ~Sent(p, "write", k, i) PROVE SameText(g[k], new)
  <2>1. CASE k = n + 1
    BY <1>5, <2>1 DEF SameText
  <2>2. CASE k # n + 1
    <3>1. k \in 0 .. n
      BY <1>1, <2>2
    <3>2. SameText(h[k], sent) /\ SameText(new, sent)
      BY <1>2, <1>3, <1>4, <1>7, <3>1
    <3> QED
      BY <1>5, <3>1, <3>2 DEF SameText
  <2> QED
    BY <2>1, <2>2
<1>8. Chain(p, i, new, g)
  BY <1>1, <1>5, <1>6, <1>7 DEF Chain
<1>9. g[0] = h[0]
  <2>1. 0 \in 0 .. n
    BY <1>1
  <2> QED
    BY <1>5, <2>1
<1> QED
  BY <1>8, <1>9 DEF p

\* What is taken leaves the rest.
LEMMA TailChain ==
  ASSUME NEW q \in Seq(Events), q # <<>>, NEW i, NEW sent, NEW h, Chain(q, i, sent, h)
  PROVE  \E g : Chain(Tail(q), i, sent, g) /\ g[0] = After(h[0], q[1], i)
<1> DEFINE p == Tail(q)
           n == Len(q)
           g == [k \in 0 .. n - 1 |-> h[k + 1]]
<1>1. Len(p) = n - 1 /\ (\A k \in 1 .. Len(p) : p[k] = q[k + 1]) /\ n \in Nat /\ n >= 1
  BY QueueAll
<1>2. \A k \in 0 .. Len(p) : Sent(p, "write", k, i) <=> Sent(q, "write", k + 1, i)
  BY SentTail
<1>3. /\ h \in [0 .. n -> Sending] /\ h[n] = sent
      /\ \A k \in 1 .. n : h[k] = After(h[k - 1], q[k], i)
      /\ \A k \in 0 .. n : ~Sent(q, "write", k, i) => SameText(h[k], sent)
  BY DEF Chain
<1> HIDE DEF p, n
<1>4. \A k \in 0 .. n - 1 : k + 1 \in 0 .. n /\ k + 1 \in 1 .. n /\ (k + 1) - 1 = k
  BY <1>1
<1>5. /\ g \in [0 .. n - 1 -> Sending] /\ \A k \in 0 .. n - 1 : g[k] = h[k + 1]
  BY <1>3, <1>4
<1> HIDE DEF g
<1>6. g[n - 1] = sent
  <2>1. n - 1 \in 0 .. n - 1 /\ (n - 1) + 1 = n
    BY <1>1
  <2> QED
    BY <1>3, <1>5, <2>1
<1>7. ASSUME NEW k \in 1 .. n - 1 PROVE g[k] = After(g[k - 1], p[k], i)
  <2>1. k \in 0 .. n - 1 /\ k - 1 \in 0 .. n - 1 /\ (k - 1) + 1 = k /\ k + 1 \in 1 .. n /\ (k + 1) - 1 = k
    BY <1>1
  <2>2. g[k] = h[k + 1] /\ g[k - 1] = h[k] /\ p[k] = q[k + 1]
    BY <1>1, <1>5, <2>1
  <2>3. h[k + 1] = After(h[k], q[k + 1], i)
    BY <1>3, <2>1
  <2> QED
    BY <2>2, <2>3
<1>8. \A k \in 0 .. n - 1 : ~Sent(p, "write", k, i) => SameText(g[k], sent)
  BY <1>1, <1>2, <1>3, <1>4, <1>5
<1>9. Chain(p, i, sent, g)
  BY <1>1, <1>5, <1>6, <1>7, <1>8 DEF Chain
<1>10. g[0] = After(h[0], q[1], i)
  <2>1. 0 \in 0 .. n - 1 /\ 1 \in 1 .. n /\ 0 + 1 = 1 /\ 1 - 1 = 0
    BY <1>1
  <2>2. h[1] = After(h[1 - 1], q[1], i)
    BY <1>3, <2>1
  <2> QED
    BY <1>5, <2>1, <2>2
<1> QED
  BY <1>9, <1>10 DEF p

\* Any event but its delete.
LEMMA AppendLive ==
  ASSUME NEW q \in Seq(Events), NEW e \in Events, NEW sent \in Sending, NEW a, NEW i,
         Live(q, sent, a, i), ~(e.kind = "delete" /\ e.ino = i)
  PROVE  Live(Append(q, e), After(sent, e, i), a, i)
<1>1. PICK h : Chain(q, i, sent, h) /\ Tracks(a, i, h[0])
  BY DEF Live
<1>2. PICK g : Chain(Append(q, e), i, After(sent, e, i), g) /\ g[0] = h[0]
  BY <1>1, AppendChain
<1>3. Sent(Append(q, e), "delete", 0, i) <=> Sent(q, "delete", 0, i) \/ (e.kind = "delete" /\ e.ino = i)
  <2>1. 0 \in 0 .. Len(q)
    BY QueueAll
  <2> QED
    BY <2>1, SentOne
<1>4. ~Sent(Append(q, e), "delete", 0, i)
  BY <1>3 DEF Live
<1> QED
  BY <1>1, <1>2, <1>4 DEF Live

\* A new file, of which nothing waits and the engine has nothing.
LEMMA NewLive ==
  ASSUME NEW q \in Seq(Events), NEW a, NEW i, Gone(q, a, i), \A k \in 1 .. Len(q) : q[k].ino # i
  PROVE  Live(q, Unsent, a, i)
<1> DEFINE n == Len(q)
           h == [k \in 0 .. n |-> Unsent]
<1>1. n \in Nat /\ Unsent \in Sending /\ Unsent.open = FALSE /\ Unsent.told = FALSE
  BY QueueAll, SendingIs DEF Unsent
<1>2. ~Sent(q, "delete", 0, i)
  <2>1. 0 + 1 .. Len(q) = 1 .. Len(q)
    BY <1>1
  <2> QED
    BY <2>1 DEF Sent
<1>3. i \notin DOMAIN a.index.files \cup DOMAIN a.acc
  BY <1>2 DEF Gone
<1> HIDE DEF n
<1>4. h \in [0 .. n -> Sending] /\ \A k \in 0 .. n : h[k] = Unsent
  BY <1>1
<1> HIDE DEF h
<1>5. 0 \in 0 .. n /\ n \in 0 .. n /\ \A k \in 1 .. n : k \in 0 .. n /\ k - 1 \in 0 .. n
  BY <1>1
<1>6. \A k \in 1 .. n : h[k] = After(h[k - 1], q[k], i)
  <2> TAKE k \in 1 .. n
  <2>1. q[k].ino # i
    BY DEF n
  <2>2. After(h[k - 1], q[k], i) = h[k - 1]
    BY <2>1 DEF After
  <2> QED
    BY <1>4, <1>5, <2>2
<1>7. \A k \in 0 .. n : SameText(h[k], Unsent)
  BY <1>4 DEF SameText
<1>8. Chain(q, i, Unsent, h)
  BY <1>4, <1>5, <1>6, <1>7 DEF Chain, n
<1>9. Tracks(a, i, h[0])
  BY <1>1, <1>3, <1>4, <1>5 DEF Tracks
<1> QED
  BY <1>2, <1>8, <1>9 DEF Live

\* What the engine makes of event e, as far as the index and the words that it
\* gathers go.
Took(a, b, e) ==
  LET old == a.index.files
      new == b.index.files
  IN  /\ \A j \in DOMAIN old \ {e.ino} : j \in DOMAIN new => new[j] = old[j]
      /\ \A j \in DOMAIN a.acc \ {e.ino} : j \in DOMAIN b.acc => b.acc[j] = a.acc[j]
      /\ \/ /\ e.kind = "write"
            /\ DOMAIN new = DOMAIN old \cup {e.ino} /\ DOMAIN b.acc = DOMAIN a.acc \cup {e.ino}
            /\ b.acc[e.ino] \subseteq new[e.ino].words
            /\ e.ino \notin DOMAIN a.acc => b.acc[e.ino] = e.words
            /\ e.ino \in DOMAIN a.acc /\ e.apart => b.acc[e.ino] = a.acc[e.ino] \cup e.words
            /\ \E lost \in AtMostOne : e.words \ lost \subseteq b.acc[e.ino]
         \/ /\ e.kind = "delete"
            /\ DOMAIN new = DOMAIN old \ {e.ino} /\ DOMAIN b.acc = DOMAIN a.acc \ {e.ino}
         \/ e.kind = "close" /\ new = old /\ DOMAIN b.acc = DOMAIN a.acc \ {e.ino}
         \/ e.kind \notin {"write", "close", "delete"} /\ new = old /\ b.acc = a.acc

LEMMA TookIs ==
  ASSUME Typed, Enough(ai.index), NEW e \in Events, NEW b \in handle_event(ai, e)
  PROVE  Took(ai, b, e) /\ Enough(b.index)
<1>1. IsAI(ai) /\ now \in Nat /\ ai.index \in Indexes
  BY DEF Typed, IsAI
<1>2. /\ \A F : SameBut(ai, b, F) /\ "index" \notin F => b.index = ai.index
      /\ \A F : SameBut(ai, b, F) /\ "acc" \notin F => b.acc = ai.acc
  BY DEF SameBut, Fields
<1>3. ASSUME e.kind \notin {"write", "close", "delete"}, b.index = ai.index, b.acc = ai.acc
      PROVE  Took(ai, b, e) /\ Enough(b.index)
  BY <1>3 DEF Took
<1>4. CASE e \in FileEvent("open", {""}) /\ b \in OnOpen(ai, e)
  <2>1. SameBut(ai, b, {"markov", "last", "scores", "net", "memory", "opens"})
    BY <1>1, <1>4, OpenIs
  <2>2. e.kind = "open"
    BY <1>4 DEF FileEvent
  <2> QED
    BY <1>2, <1>3, <2>1, <2>2
<1>5. CASE e \in FileEvent("write", Classes) /\ b \in OnWrite(ai, e)
  <2>1. PICK words \in SUBSET Word :
          /\ IsText(ai, e, words) /\ b.acc = With(ai.acc, e.ino, words)
          /\ \E lost \in AtMostOne : e.words \ lost \subseteq words
          /\ b.index = Mod!index(ai.index, e.ino, e.name, words)
    BY <1>1, <1>5, WriteIs
  <2>2. e.ino \in Ino /\ e.name \in Name /\ e.kind = "write" /\ e.apart \in BOOLEAN
        /\ e.words \in SUBSET Word
    BY <1>5 DEF FileEvent
  <2> DEFINE x == [name |-> e.name, words |-> words \cup Range(e.name)]
  <2>3. words \subseteq x.words
    OBVIOUS
  <2>4. b.index.files = With(ai.index.files, e.ino, x) /\ Enough(b.index)
    BY <1>1, <2>1, <2>2, IndexIs, IndexEnough
  <2> HIDE DEF x
  <2>5. /\ DOMAIN b.index.files = DOMAIN ai.index.files \cup {e.ino} /\ b.index.files[e.ino] = x
        /\ \A j \in DOMAIN ai.index.files \ {e.ino} : b.index.files[j] = ai.index.files[j]
    BY <2>4 DEF With
  <2>6. /\ DOMAIN b.acc = DOMAIN ai.acc \cup {e.ino} /\ b.acc[e.ino] = words
        /\ \A j \in DOMAIN ai.acc \ {e.ino} : b.acc[j] = ai.acc[j]
    BY <2>1 DEF With
  <2>7. /\ e.ino \notin DOMAIN ai.acc => words = e.words
        /\ e.ino \in DOMAIN ai.acc /\ e.apart => words = ai.acc[e.ino] \cup e.words
    BY <2>1 DEF IsText, Together
  <2> QED
    BY <2>1, <2>2, <2>3, <2>4, <2>5, <2>6, <2>7 DEF Took
<1>6. CASE e \in FileEvent("close", {""}) /\ b \in OnClose(ai, e)
  <2>1. SameBut(ai, b, {"scores", "acc"}) /\ b.acc = Without(ai.acc, e.ino)
    BY <1>1, <1>6, CloseIs
  <2>2. e.kind = "close" /\ b.index = ai.index
    BY <1>2, <1>6, <2>1 DEF FileEvent
  <2>3. /\ DOMAIN b.acc = DOMAIN ai.acc \ {e.ino}
        /\ \A j \in DOMAIN ai.acc \ {e.ino} : b.acc[j] = ai.acc[j]
    BY <2>1 DEF Without
  <2> QED
    BY <2>2, <2>3 DEF Took
<1>7. CASE e \in FileEvent("delete", {""}) /\ b \in OnDelete(ai, e)
  <2>1. b.index = Mod!remove(ai.index, e.ino) /\ b.acc = Without(ai.acc, e.ino)
    BY <1>1, <1>7, DeleteIs
  <2>2. b.index.files = Without(ai.index.files, e.ino) /\ Enough(b.index)
    BY <1>1, <2>1, RemoveIs, RemoveEnough
  <2>3. /\ DOMAIN b.index.files = DOMAIN ai.index.files \ {e.ino}
        /\ \A j \in DOMAIN ai.index.files \ {e.ino} : b.index.files[j] = ai.index.files[j]
        /\ DOMAIN b.acc = DOMAIN ai.acc \ {e.ino}
        /\ \A j \in DOMAIN ai.acc \ {e.ino} : b.acc[j] = ai.acc[j]
    BY <2>1, <2>2 DEF Without
  <2>4. e.kind = "delete"
    BY <1>7 DEF FileEvent
  <2> QED
    BY <2>2, <2>3, <2>4 DEF Took
<1>8. CASE e \in OwnEvent("query") /\ b \in OnQuery(ai, e)
  <2>1. SameBut(ai, b, {"answer"}) /\ e.kind = "query"
    BY <1>1, <1>8, QueryIs DEF OwnEvent
  <2> QED
    BY <1>2, <1>3, <2>1
<1>9. CASE e \in OwnEvent("end") /\ b \in OnEnd(ai)
  <2>1. SameBut(ai, b, {"memory", "projects", "brief", "computed_at", "opens", "writes"})
    BY <1>1, <1>9, EndIs
  <2>2. e.kind = "end"
    BY <1>9 DEF OwnEvent
  <2> QED
    BY <1>2, <1>3, <2>1, <2>2
<1>10. CASE e \in OwnEvent("sync") /\ b = ai
  BY <1>3, <1>10 DEF OwnEvent
<1> QED
  BY <1>1, <1>4, <1>5, <1>6, <1>7, <1>8, <1>9, <1>10, HandleIs

LEMMA TakeGone ==
  ASSUME NEW q \in Seq(Events), q # <<>>, NEW a, NEW b, NEW i, Gone(q, a, i), Took(a, b, q[1])
  PROVE  Gone(Tail(q), b, i)
<1> DEFINE p == Tail(q)
           e == q[1]
<1>1. Len(p) = Len(q) - 1 /\ (\A k \in 1 .. Len(p) : p[k] = q[k + 1]) /\ Len(q) \in Nat /\ Len(q) >= 1
  BY QueueAll
<1>2. /\ \A k \in 0 .. Len(p) : Sent(p, "delete", k, i) <=> Sent(q, "delete", k + 1, i)
      /\ Sent(q, "delete", 0, i) <=> Sent(q, "delete", 1, i) \/ (e.kind = "delete" /\ e.ino = i)
  BY SentTail
<1> HIDE DEF p
<1>3. 0 \in 0 .. Len(p) /\ 1 \in 1 .. Len(q) /\ 0 + 1 = 1
      /\ \A k \in 1 .. Len(p) : k + 1 \in 1 .. Len(q) /\ k \in 0 .. Len(p)
  BY <1>1
<1>4. Sent(p, "delete", 0, i) <=> Sent(q, "delete", 1, i)
  BY <1>2, <1>3
<1>5. \A k \in 1 .. Len(p) : p[k].kind = "write" /\ p[k].ino = i => Sent(p, "delete", k, i)
  BY <1>1, <1>2, <1>3 DEF Gone
<1>6. ASSUME i \in DOMAIN b.index.files \cup DOMAIN b.acc PROVE Sent(p, "delete", 0, i)
  <2>1. CASE e.kind = "write" /\ e.ino = i
    BY <1>3, <1>4, <2>1 DEF Gone
  <2>2. CASE e.kind = "delete" /\ e.ino = i
    BY <1>6, <2>2 DEF Took
  <2>3. CASE ~(e.kind \in {"write", "delete"} /\ e.ino = i)
    <3>1. i \in DOMAIN a.index.files \cup DOMAIN a.acc
      BY <1>6, <2>3 DEF Took
    <3>2. Sent(q, "delete", 0, i)
      BY <3>1 DEF Gone
    <3> QED
      BY <1>2, <1>4, <2>3, <3>2
  <2> QED
    BY <2>1, <2>2, <2>3
<1> QED
  BY <1>5, <1>6 DEF Gone, p

\* One event leaves the engine with what it has taken.
LEMMA TakeTracks ==
  ASSUME NEW a, NEW b, NEW i, NEW e \in Events, NEW s \in Sending, Tracks(a, i, s), Took(a, b, e),
         ~(e.kind = "delete" /\ e.ino = i)
  PROVE  Tracks(b, i, After(s, e, i))
<1>1. CASE e.ino = i /\ e.kind = "write"
  <2> DEFINE t == Written(s, e.words, e.apart)
  <2>1. After(s, e, i) = t
    BY <1>1 DEF After
  <2>2. /\ t.told /\ t.open /\ t.latest = e.words
        /\ t.whole = (s.open => s.whole /\ e.apart)
        /\ t.since = IF s.open THEN s.since \cup e.words ELSE e.words
    BY DEF Written
  <2> HIDE DEF t
  <2>3. /\ i \in DOMAIN b.index.files /\ i \in DOMAIN b.acc
        /\ b.acc[i] \subseteq b.index.files[i].words
        /\ i \notin DOMAIN a.acc => b.acc[i] = e.words
        /\ i \in DOMAIN a.acc /\ e.apart => b.acc[i] = a.acc[i] \cup e.words
        /\ \E lost \in AtMostOne : e.words \ lost \subseteq b.acc[i]
    BY <1>1 DEF Took
  <2>4. ASSUME t.whole PROVE t.since \subseteq b.acc[i]
    <3>1. CASE s.open
      <4>1. s.whole /\ e.apart /\ i \in DOMAIN a.acc /\ s.since \subseteq a.acc[i]
        BY <2>2, <2>4, <3>1 DEF Tracks
      <4>2. b.acc[i] = a.acc[i] \cup e.words /\ t.since = s.since \cup e.words
        BY <2>2, <2>3, <3>1, <4>1
      <4> QED
        BY <4>1, <4>2
    <3>2. CASE ~s.open
      <4>1. i \notin DOMAIN a.acc
        BY <3>2 DEF Tracks
      <4> QED
        BY <2>2, <2>3, <3>2, <4>1
    <3> QED
      BY <3>1, <3>2
  <2>5. t.whole => t.since \subseteq b.index.files[i].words
    BY <2>3, <2>4
  <2>6. \E lost \in AtMostOne : t.latest \ lost \subseteq b.index.files[i].words
    BY <2>2, <2>3
  <2> QED
    BY <2>1, <2>2, <2>3, <2>4, <2>5, <2>6 DEF Tracks
<1>2. CASE e.ino = i /\ e.kind = "close"
  <2> DEFINE t == [s EXCEPT !.open = FALSE]
  <2>1. After(s, e, i) = t
    BY <1>2 DEF After
  <2>2. t.open = FALSE /\ SameText(t, s)
    BY DEF Sending, SameText
  <2> HIDE DEF t
  <2>3. b.index.files = a.index.files /\ i \notin DOMAIN b.acc
    BY <1>2 DEF Took
  <2> QED
    BY <2>1, <2>2, <2>3 DEF Tracks, SameText
<1>3. CASE ~(e.ino = i /\ e.kind \in {"write", "close"})
  <2>1. After(s, e, i) = s
    BY <1>3, AfterIs
  <2>2. CASE e.ino # i
    <3>1. /\ i \in DOMAIN a.index.files => i \in DOMAIN b.index.files /\ b.index.files[i] = a.index.files[i]
          /\ i \in DOMAIN a.acc <=> i \in DOMAIN b.acc
          /\ i \in DOMAIN a.acc => b.acc[i] = a.acc[i]
      BY <2>2 DEF Took
    <3> QED
      BY <2>1, <3>1 DEF Tracks
  <2>3. CASE e.ino = i
    <3>1. b.index.files = a.index.files /\ b.acc = a.acc
      BY <1>3, <2>3 DEF Took
    <3> QED
      BY <2>1, <3>1 DEF Tracks
  <2> QED
    BY <2>2, <2>3
<1> QED
  BY <1>1, <1>2, <1>3

LEMMA TakeLive ==
  ASSUME NEW q \in Seq(Events), q # <<>>, NEW a, NEW b, NEW i, NEW sent,
         Live(q, sent, a, i), Took(a, b, q[1])
  PROVE  Live(Tail(q), sent, b, i)
<1> DEFINE e == q[1]
<1>1. Len(q) \in Nat /\ Len(q) >= 1 /\ e \in Events /\ Len(Tail(q)) \in Nat
  <2>1. Len(q) \in Nat /\ Len(q) >= 1 /\ Len(Tail(q)) = Len(q) - 1
    BY QueueAll
  <2> QED
    BY <2>1
<1>2. PICK h : Chain(q, i, sent, h) /\ Tracks(a, i, h[0])
  BY DEF Live
<1>3. PICK g : Chain(Tail(q), i, sent, g) /\ g[0] = After(h[0], e, i)
  BY <1>2, TailChain
<1>4. ~Sent(Tail(q), "delete", 0, i) /\ ~(e.kind = "delete" /\ e.ino = i)
  <2>1. 0 \in 0 .. Len(Tail(q)) /\ 0 + 1 = 1
    BY <1>1
  <2>2. /\ Sent(Tail(q), "delete", 0, i) <=> Sent(q, "delete", 1, i)
        /\ Sent(q, "delete", 0, i) <=> Sent(q, "delete", 1, i) \/ (e.kind = "delete" /\ e.ino = i)
    BY <2>1, SentTail
  <2> QED
    BY <2>2 DEF Live
<1>5. h[0] \in Sending
  <2>1. h \in [0 .. Len(q) -> Sending] /\ 0 \in 0 .. Len(q)
    BY <1>1, <1>2 DEF Chain
  <2> QED
    BY <2>1
<1> HIDE DEF e
<1>6. Tracks(b, i, g[0])
  BY <1>1, <1>2, <1>3, <1>4, <1>5, TakeTracks DEF e
<1> QED
  BY <1>3, <1>4, <1>6 DEF Live

\* The index, and the queue, follow the files.
Followed(q, fs, a) ==
  /\ \A i \in Ino : i \notin DOMAIN fs => Gone(q, a, i)
  /\ \A i \in DOMAIN fs : Live(q, fs[i].sent, a, i)

\* What is told is told of files whose numbers were given; none is given again.
Older(q, n) == \A k \in 1 .. Len(q) : q[k].ino \in Ino => q[k].ino < n

Searching ==
  /\ Enough(ai.index)
  /\ mode = "mounted" /\ alive =>
       Followed(queue, files, ai) /\ (work = "edits" => Older(queue, next))

\* With nothing in the queue: at a mount.
LEMMA MountFollows ==
  ASSUME NEW fs, DOMAIN fs \subseteq Ino, NEW a, a.acc = <<>>, DOMAIN a.index.files = DOMAIN fs,
         \A i \in DOMAIN fs : fs[i].sent.since \subseteq a.index.files[i].words,
         \A i \in DOMAIN fs : \E W \in SUBSET Word : fs[i].sent = Found(W)
  PROVE  Followed(<<>>, fs, a) /\ \A n : Older(<<>>, n)
<1>1. Len(<<>>) = 0 /\ DOMAIN <<>> = {} /\ 0 .. 0 = {0} /\ 1 .. 0 = {}
  OBVIOUS
<1>2. \A kind, i : ~Sent(<<>>, kind, 0, i)
  BY <1>1 DEF Sent
<1>3. \A i : i \notin DOMAIN fs => Gone(<<>>, a, i)
  BY <1>1 DEF Gone
<1>4. ASSUME NEW i \in DOMAIN fs PROVE Live(<<>>, fs[i].sent, a, i)
  <2>1. PICK W \in SUBSET Word : fs[i].sent = Found(W)
    OBVIOUS
  <2> DEFINE s == fs[i].sent
             h == [k \in 0 .. 0 |-> s]
  <2>2. s \in Sending /\ s.open = FALSE /\ s.since = W /\ s.latest = W
    BY <2>1, SendingIs, ZenonT(40) DEF Found, Unsent
  <2>3. h \in [0 .. 0 -> Sending] /\ h[0] = s /\ SameText(h[0], s)
    BY <1>1, <2>2 DEF SameText
  <2>4. Chain(<<>>, i, s, h)
    <3> HIDE DEF h, s
    <3> QED
      BY <1>1, <2>3 DEF Chain
  <2>5. Tracks(a, i, h[0])
    <3>1. s.since \subseteq a.index.files[i].words /\ i \in DOMAIN a.index.files /\ i \notin DOMAIN a.acc
      BY <1>1
    <3>2. {} \in AtMostOne /\ s.latest \ {} \subseteq a.index.files[i].words
      BY <2>2, <3>1 DEF AtMostOne
    <3> HIDE DEF h, s
    <3> QED
      BY <2>2, <2>3, <3>1, <3>2 DEF Tracks
  <2> QED
    BY <1>2, <2>4, <2>5 DEF Live
<1>5. \A n : Older(<<>>, n)
  BY <1>1 DEF Older
<1> QED
  BY <1>3, <1>4, <1>5 DEF Followed

LEMMA InitSearches == Init => Searching
<1> SUFFICES ASSUME Init PROVE Searching
  OBVIOUS
<1>1. Typed /\ files \in Inodes /\ now \in Nat /\ DOMAIN files \subseteq Ino
  BY InitTyped, InodeIs DEF Typed
<1>2. /\ IsAI(NewAI) /\ NewAI.acc = <<>> /\ NewAI.index = Mod!NewIndex /\ Mod!NewIndex \in Indexes
  BY <1>1, NewAIIs, NewIndexIs
<1>3. /\ SameBut(NewAI, ai, {"index"})
      /\ ai.index = Looped(Indexing(files), Mod!NewIndex, SetToSeq(DOMAIN files))
  BY <1>1, <1>2, ReindexIs DEF Init
<1>4. ai.acc = <<>>
  BY <1>2, <1>3 DEF SameBut, Fields
<1>5. /\ Enough(ai.index) /\ DOMAIN ai.index.files = DOMAIN files
      /\ \A i \in DOMAIN files : files[i].sent.since \subseteq ai.index.files[i].words
  BY <1>1, <1>3, ReindexedRight
<1>6. \A i \in DOMAIN files : files[i].sent = Found({})
  <2>1. \A n, d : File(n, d, Found({})).sent = Found({})
    BY DEF File
  <2>2. work \in {"opens", "edits", "briefs", "alarms"}
    BY EngineAssumption DEF Init
  <2>3. CASE work = "opens"
    BY <2>1, <2>3 DEF Init
  <2>4. CASE work = "edits"
    BY <2>1, <2>4 DEF Init
  <2>5. CASE work = "briefs"
    BY <2>1, <2>5 DEF Init
  <2>6. CASE work = "alarms"
    <3> DEFINE n(i) == IF i = 2 THEN FirstName ELSE CHOOSE m \in Suspicious : TRUE
    <3>1. files = [i \in {2, 3} |-> File(n(i), FALSE, Found({}))]
      BY <2>6 DEF Init
    <3> HIDE DEF n
    <3> QED
      BY <2>1, <3>1
  <2> QED
    BY <2>2, <2>3, <2>4, <2>5, <2>6
<1>7. Followed(<<>>, files, ai) /\ \A n : Older(<<>>, n)
  BY <1>1, <1>4, <1>5, <1>6, MountFollows
<1> QED
  BY <1>5, <1>7 DEF Searching, Init

\* A request of file i, of whatever kind.
LEMMA RequestFollows ==
  ASSUME Typed, NEW kinds, NEW e \in Events, Request(kinds, e), Searching,
         mode = "mounted" /\ alive =>
           Followed(Append(queue, e), files', ai)
             /\ (work = "edits" => Older(Append(queue, e), next'))
  PROVE  Searching'
<1>1. /\ queue' = (IF alive THEN Append(queue, e) ELSE queue)
      /\ UNCHANGED <<ai, alive, mode, work>> /\ mode = "mounted" /\ alive \in BOOLEAN
  <2>1. queue \in Seq(Events) /\ alive \in BOOLEAN
    BY DEF Typed
  <2>2. queue \o <<e>> = Append(queue, e)
    BY <2>1, AppendProperties
  <2> QED
    BY <2>1, <2>2 DEF Request, Send
<1> QED
  BY <1>1 DEF Searching

\* The numbers told of stay below the next, when they are of files that are there.
LEMMA OlderStays ==
  ASSUME NEW q \in Seq(Events), NEW e \in Events, NEW n \in Nat, NEW m \in Nat, n <= m,
         Older(q, n), e.ino \in Ino => e.ino < m
  PROVE  Older(Append(q, e), m) /\ Older(q, m)
<1> DEFINE p == Append(q, e)
<1>1. Len(p) = Len(q) + 1 /\ p[Len(q) + 1] = e /\ (\A k \in 1 .. Len(q) : p[k] = q[k])
      /\ Len(q) \in Nat
  BY QueueAll
<1> HIDE DEF p
<1>2. \A k \in 1 .. Len(p) : k \in 1 .. Len(q) \/ k = Len(q) + 1
  BY <1>1
<1>3. \A i \in Ino : i < n => i < m
  BY Constants
<1> QED
  BY <1>1, <1>2, <1>3 DEF Older, p

LEMMA RequestsFollow ==
  ASSUME Typed, [Next]_vars, Searching, ~Handle, ~Save, ~Crash, ~Load
  PROVE  Searching'
<1>1. /\ files \in Inodes /\ DOMAIN files \subseteq Ino /\ next \in Nat /\ queue \in Seq(Events)
      /\ \A i \in DOMAIN files : files[i].name \in Name /\ files[i].sent \in Sending
                                 /\ files[i] \in Inode
      /\ next <= next
  BY InodeIs DEF Typed
<1>2. mode = "mounted" /\ alive =>
        /\ \A i \in Ino : i \notin DOMAIN files => Gone(queue, ai, i)
        /\ \A i \in DOMAIN files : Live(queue, files[i].sent, ai, i)
        /\ work = "edits" => Older(queue, next)
  BY DEF Searching, Followed
<1>3. work = "edits" => \A i \in DOMAIN files : i < next
  BY DEF Typed
<1>4. ASSUME NEW kinds, NEW e \in Events, Request(kinds, e), next' = next,
             e.kind # "delete", e.ino \in Ino => e.ino \in DOMAIN files,
             DOMAIN files' = DOMAIN files,
             \A j \in DOMAIN files : files'[j].sent = After(files[j].sent, e, j)
      PROVE  Searching'
  <2>1. ASSUME mode = "mounted", alive
        PROVE  Followed(Append(queue, e), files', ai)
               /\ (work = "edits" => Older(Append(queue, e), next'))
    <3>1. \A i \in Ino : i \notin DOMAIN files => Gone(Append(queue, e), ai, i)
      BY <1>1, <1>2, <1>4, <2>1, AppendGone
    <3>2. \A i \in DOMAIN files : Live(Append(queue, e), After(files[i].sent, e, i), ai, i)
      BY <1>1, <1>2, <1>4, <2>1, AppendLive
    <3>3. work = "edits" => Older(Append(queue, e), next)
      BY <1>1, <1>2, <1>3, <1>4, <2>1, OlderStays
    <3> QED
      BY <1>4, <3>1, <3>2, <3>3 DEF Followed
  <2> QED
    BY <1>4, <2>1, RequestFollows
<1>5. ASSUME NEW i \in Ino, Open(i) PROVE Searching'
  <2> DEFINE e == Event("open", i, files[i].name, {}, "", TRUE)
  <2>1. Request({"opens", "briefs"}, e) /\ UNCHANGED <<files, next>> /\ i \in DOMAIN files
    BY <1>5 DEF Open, Named
  <2>2. e \in Events /\ e.kind = "open" /\ e.ino = i
    BY <1>1, <2>1, EventIn DEF Events, Event
  <2> HIDE DEF e
  <2>3. \A j \in DOMAIN files : files'[j].sent = After(files[j].sent, e, j)
    BY <2>1, <2>2 DEF After
  <2> QED
    BY <1>4, <2>1, <2>2, <2>3
<1>6. ASSUME NEW i \in Ino, Release(i) PROVE Searching'
  <2> DEFINE e == Event("close", i, files[i].name, {}, "", TRUE)
  <2>1. /\ Request({"edits"}, e) /\ next' = next /\ i \in DOMAIN files
        /\ files' = [files EXCEPT ![i].sent.open = FALSE]
    BY <1>6 DEF Release, IsFile
  <2>2. e \in Events /\ e.kind = "close" /\ e.ino = i
    BY <1>1, <2>1, EventIn DEF Events, Event
  <2> HIDE DEF e
  <2>3. /\ DOMAIN files' = DOMAIN files /\ files'[i].sent = [files[i].sent EXCEPT !.open = FALSE]
        /\ \A j \in DOMAIN files \ {i} : files'[j] = files[j]
    <3>1. files[i] \in Inode
      BY <1>1, <2>1
    <3> QED
      BY <2>1, <3>1 DEF Inode
  <2>4. \A j \in DOMAIN files : files'[j].sent = After(files[j].sent, e, j)
    BY <2>1, <2>2, <2>3 DEF After
  <2> QED
    BY <1>4, <2>1, <2>2, <2>3, <2>4
<1>7. ASSUME NEW w \in Word, Query(w) PROVE Searching'
  <2> DEFINE e == Event("query", 0, <<>>, {w}, "", TRUE)
  <2>1. Request({"edits"}, e) /\ UNCHANGED <<files, next>>
    BY <1>7 DEF Query
  <2>2. e \in Events /\ e.kind = "query" /\ e.ino \notin Ino
    BY OwnEventIn, Constants DEF Events, Event
  <2> HIDE DEF e
  <2>3. \A j \in DOMAIN files : files'[j].sent = After(files[j].sent, e, j)
    BY <2>1, <2>2 DEF After
  <2> QED
    BY <1>4, <2>1, <2>2, <2>3
<1>8. ASSUME NEW i \in Ino, NEW W \in SUBSET Word, NEW c \in Classes, NEW p \in BOOLEAN,
             Write(i, W, c, p)
      PROVE  Searching'
  <2> DEFINE e == Event("write", i, files[i].name, W, c, p)
  <2>1. /\ i \in DOMAIN files /\ next' = next
        /\ \E kinds : Request(kinds, e)
        /\ files' = [files EXCEPT ![i].sent = Written(@, W, p)]
    BY <1>8 DEF Write, IsFile
  <2>2. e \in Events /\ e.kind = "write" /\ e.ino = i /\ e.words = W /\ e.apart = p
    BY <1>1, <2>1, EventIn DEF Events, Event
  <2> HIDE DEF e
  <2>3. /\ DOMAIN files' = DOMAIN files /\ files'[i].sent = Written(files[i].sent, W, p)
        /\ \A j \in DOMAIN files \ {i} : files'[j] = files[j]
    <3>1. files[i] \in Inode
      BY <1>1, <2>1
    <3> QED
      BY <2>1, <3>1 DEF Inode
  <2>4. \A j \in DOMAIN files : files'[j].sent = After(files[j].sent, e, j)
    BY <2>1, <2>2, <2>3 DEF After
  <2>5. PICK kinds : Request(kinds, e)
    BY <2>1
  <2> QED
    BY <1>4, <2>1, <2>2, <2>3, <2>4, <2>5
<1>9. ASSUME NEW i \in Ino, Unlink(i) PROVE Searching'
  <2> DEFINE e == Event("delete", i, files[i].name, {}, "", TRUE)
  <2>1. /\ i \in DOMAIN files /\ next' = next /\ files' = Without(files, i)
        /\ Request({"edits", "briefs"}, e)
    BY <1>9 DEF Unlink, Named
  <2>2. e \in Events /\ e.kind = "delete" /\ e.ino = i
    BY <1>1, <2>1, EventIn DEF Events, Event
  <2>3. DOMAIN files' = DOMAIN files \ {i} /\ \A j \in DOMAIN files \ {i} : files'[j] = files[j]
    BY <2>1 DEF Without
  <2> HIDE DEF e
  <2>4. ASSUME mode = "mounted", alive
        PROVE  Followed(Append(queue, e), files', ai)
               /\ (work = "edits" => Older(Append(queue, e), next'))
    <3>1. \A j \in Ino : j \notin DOMAIN files' => Gone(Append(queue, e), ai, j)
      <4>1. Gone(Append(queue, e), ai, i)
        BY <1>1, <2>2, AppendDelete
      <4>2. \A j \in Ino : j \notin DOMAIN files => Gone(Append(queue, e), ai, j)
        BY <1>1, <1>2, <2>2, <2>4, AppendGone
      <4> QED
        BY <2>3, <4>1, <4>2
    <3>2. \A j \in DOMAIN files' : Live(Append(queue, e), files'[j].sent, ai, j)
      <4>1. \A j \in DOMAIN files \ {i} :
              Live(Append(queue, e), After(files[j].sent, e, j), ai, j)
        BY <1>1, <1>2, <2>2, <2>4, AppendLive
      <4>2. \A j \in DOMAIN files \ {i} : After(files[j].sent, e, j) = files[j].sent
        BY <2>2 DEF After
      <4> QED
        BY <2>3, <4>1, <4>2
    <3>3. work = "edits" => Older(Append(queue, e), next)
      BY <1>1, <1>2, <1>3, <2>1, <2>2, <2>4, OlderStays
    <3> QED
      BY <2>1, <3>1, <3>2, <3>3 DEF Followed
  <2> QED
    BY <2>1, <2>2, <2>4, RequestFollows
<1>10. ASSUME NEW dir \in BOOLEAN, NEW n \in Name, next \in Ino, work = "edits",
              mode = "mounted", alive, files' = With(files, next, File(n, dir, Unsent))
       PROVE  /\ Followed(queue, files', ai) /\ DOMAIN files' = DOMAIN files \cup {next}
              /\ files'[next].sent = Unsent
              /\ \A j \in DOMAIN files : files'[j] = files[j]
  <2> DEFINE x == File(n, dir, Unsent)
  <2>1. x.sent = Unsent
    BY DEF File
  <2> HIDE DEF x
  <2>2. next \notin DOMAIN files
    <3>1. \A j \in DOMAIN files : j < next
      BY <1>3, <1>10
    <3> QED
      BY <1>1, <3>1
  <2>3. /\ DOMAIN files' = DOMAIN files \cup {next} /\ files'[next] = x
        /\ \A j \in DOMAIN files : files'[j] = files[j]
    BY <1>10, <2>2 DEF With, x
  <2>4. Live(queue, Unsent, ai, next)
    <3>1. Gone(queue, ai, next)
      BY <1>2, <1>10, <2>2
    <3>2. \A k \in 1 .. Len(queue) : queue[k].ino # next
      <4>1. ~(next < next)
        BY <1>1
      <4> QED
        BY <1>2, <1>10, <4>1 DEF Older
    <3> QED
      BY <1>1, <3>1, <3>2, NewLive
  <2>5. \A j \in Ino : j \notin DOMAIN files' => Gone(queue, ai, j)
    BY <1>2, <1>10, <2>3
  <2>6. \A j \in DOMAIN files' : Live(queue, files'[j].sent, ai, j)
    BY <1>2, <1>10, <2>1, <2>3, <2>4
  <2> QED
    BY <2>1, <2>3, <2>5, <2>6 DEF Followed
<1>11. ASSUME NEW n \in Name, Create(n) PROVE Searching'
  <2> DEFINE e == Event("open", next, n, {}, "", TRUE)
  <2>1. /\ next \in Ino /\ Request({"edits"}, e) /\ next' = next + 1
        /\ files' = With(files, next, File(n, FALSE, Unsent))
    BY <1>11 DEF Create
  <2>2. e \in Events /\ e.kind = "open" /\ e.ino = next /\ work = "edits"
    BY <1>1, <2>1, EventIn DEF Events, Event, Request
  <2> HIDE DEF e
  <2>3. ASSUME mode = "mounted", alive
        PROVE  Followed(Append(queue, e), files', ai)
               /\ (work = "edits" => Older(Append(queue, e), next'))
    <3>1. /\ Followed(queue, files', ai) /\ DOMAIN files' = DOMAIN files \cup {next}
          /\ files'[next].sent = Unsent
          /\ \A j \in DOMAIN files : files'[j] = files[j]
      BY <1>10, <2>1, <2>2, <2>3
    <3>2. \A j \in DOMAIN files' : files'[j].sent \in Sending
      BY <1>1, <3>1, SendingIs
    <3>3. \A j \in Ino : j \notin DOMAIN files' => Gone(Append(queue, e), ai, j)
      BY <1>1, <2>2, <3>1, AppendGone DEF Followed
    <3>4. \A j \in DOMAIN files' : Live(Append(queue, e), After(files'[j].sent, e, j), ai, j)
      BY <1>1, <2>2, <3>1, <3>2, AppendLive DEF Followed
    <3>5. \A j \in DOMAIN files' : After(files'[j].sent, e, j) = files'[j].sent
      BY <2>2 DEF After
    <3>6. Older(Append(queue, e), next + 1)
      <4>1. next + 1 \in Nat /\ next <= next + 1 /\ next < next + 1
        BY <1>1
      <4> QED
        BY <1>1, <1>2, <2>2, <2>3, <4>1, OlderStays
    <3> QED
      BY <2>1, <3>3, <3>4, <3>5, <3>6 DEF Followed
  <2> QED
    BY <2>1, <2>2, <2>3, RequestFollows
<1>12. ASSUME NEW n \in Name, Mkdir(n) PROVE Searching'
  <2>1. /\ next \in Ino /\ next' = next + 1 /\ files' = With(files, next, File(n, TRUE, Unsent))
        /\ UNCHANGED <<ai, queue, alive, mode, work>> /\ work = "edits" /\ mode = "mounted"
    BY <1>12 DEF Mkdir, Silent
  <2>2. ASSUME alive PROVE Followed(queue, files', ai) /\ Older(queue, next + 1)
    <3>1. Followed(queue, files', ai)
      BY <1>10, <2>1, <2>2
    <3>2. \A i \in Ino : i < next => i < next + 1
      BY <1>1, Constants
    <3>3. Older(queue, next)
      BY <1>2, <2>1, <2>2
    <3> QED
      BY <3>1, <3>2, <3>3 DEF Older
  <2> QED
    BY <2>1, <2>2 DEF Searching
<1>13. ASSUME UNCHANGED <<ai, queue, alive, next, mode, work>>, DOMAIN files' = DOMAIN files,
              \A j \in DOMAIN files : files'[j].sent = files[j].sent
       PROVE  Searching'
  <2>1. Followed(queue, files, ai) => Followed(queue, files', ai)
    BY <1>13 DEF Followed
  <2> QED
    BY <1>13, <2>1 DEF Searching
<1>14. ASSUME NEW i \in Ino, Rmdir(i) PROVE Searching'
  <2>1. /\ i \in DOMAIN files /\ files' = [files EXCEPT ![i].place = "removed"]
        /\ UNCHANGED <<ai, queue, alive, next, mode, work>>
    BY <1>14 DEF Rmdir, Silent, Named
  <2>2. files[i] \in Inode
    BY <1>1, <2>1
  <2>3. DOMAIN files' = DOMAIN files /\ \A j \in DOMAIN files : files'[j].sent = files[j].sent
    BY <2>1, <2>2 DEF Inode
  <2> QED
    BY <1>13, <2>1, <2>3
<1>15. ASSUME NEW i \in Ino, NEW n \in Name, Rename(i, n) PROVE Searching'
  <2>1. UNCHANGED <<ai, queue, alive, next, mode, work>>
    BY <1>15 DEF Rename, Silent
  <2>2. PICK over :
          files' = [j \in DOMAIN files |->
                     IF j = i THEN [files[j] EXCEPT !.name = n]
                     ELSE IF j \in over THEN [files[j] EXCEPT !.place = "replaced"] ELSE files[j]]
    BY <1>15 DEF Rename
  <2>3. \A x \in Inode : [x EXCEPT !.name = n].sent = x.sent /\ [x EXCEPT !.place = "replaced"].sent = x.sent
    BY DEF Inode
  <2>4. DOMAIN files' = DOMAIN files /\ \A j \in DOMAIN files : files'[j].sent = files[j].sent
    BY <1>1, <2>2, <2>3
  <2> QED
    BY <1>13, <2>1, <2>4
<1>16. CASE Tick \/ UNCHANGED vars
  BY <1>16 DEF Tick, vars, Searching
<1>17. CASE Destroy
  BY <1>17 DEF Destroy, Searching
<1>18. ASSUME NEW i \in Ino,
              \/ \E W \in SUBSET Word, p \in BOOLEAN : Write(i, W, "short", p)
              \/ \E class \in Mod!Class : Write(i, {}, class, TRUE)
       PROVE  Searching'
  <2>1. "short" \in Classes /\ {} \in SUBSET Word /\ Classes = Mod!Class /\ TRUE \in BOOLEAN
    BY DEF Classes, Mod!Class
  <2> QED
    BY <1>8, <1>18, <2>1
<1>19. CASE Next
  BY <1>5, <1>6, <1>7, <1>9, <1>11, <1>12, <1>14, <1>15, <1>16, <1>17, <1>18, <1>19, Zenon DEF Next
<1> QED
  BY <1>16, <1>19

LEMMA StepSearches == Typed /\ Searching /\ [Next]_vars => Searching'
<1> SUFFICES ASSUME Typed, Searching, [Next]_vars PROVE Searching'
  OBVIOUS
<1>1. now \in Nat /\ queue \in Seq(Events) /\ files \in Inodes /\ IsAI(ai) /\ IsDisk(disk)
      /\ DOMAIN files \subseteq Ino /\ Enough(ai.index)
  BY InodeIs DEF Typed, Searching
<1>2. Enough(Mod!NewIndex)
  <2>1. \A w \in Word : Cardinality(Having(Mod!NewIndex, w)) = 0 /\ Mod!NewIndex.df[w] = 0
    <3>1. Mod!NewIndex.files = <<>> /\ \A w \in Word : Mod!NewIndex.df[w] = 0
      BY NewIndexIs
    <3>2. \A w : Having(Mod!NewIndex, w) = {}
      BY <3>1 DEF Having
    <3>3. Cardinality({}) = 0
      BY FS_EmptySet
    <3> QED
      BY <3>1, <3>2, <3>3, Zenon
  <2> QED
    BY <2>1 DEF Enough
<1>3. ASSUME Ended("unmounted") PROVE Searching'
  <2>1. ai' = NewAI /\ mode' = "unmounted"
    BY <1>3 DEF Ended
  <2>2. ai'.index = Mod!NewIndex
    BY <1>1, <2>1, NewAIIs
  <2> QED
    BY <1>2, <2>1, <2>2 DEF Searching
<1>4. CASE Handle
  <2> DEFINE e == Head(queue)
  <2>1. /\ e \in Events /\ alive /\ queue # <<>> /\ UNCHANGED <<files, next, mode, work>>
        /\ \/ ~alive' /\ UNCHANGED ai
           \/ ai' \in handle_event(ai, e) /\ queue' = Tail(queue)
    BY <1>4, HandledIs
  <2>2. CASE ~alive' /\ UNCHANGED ai
    BY <2>2 DEF Searching
  <2>3. CASE ai' \in handle_event(ai, e) /\ queue' = Tail(queue)
    <3>1. Took(ai, ai', e) /\ Enough(ai'.index)
      BY <1>1, <2>1, <2>3, TookIs
    <3>2. e = queue[1] /\ Len(Tail(queue)) = Len(queue) - 1 /\ Len(queue) \in Nat
          /\ \A k \in 1 .. Len(Tail(queue)) : Tail(queue)[k] = queue[k + 1] /\ k + 1 \in 1 .. Len(queue)
      BY <1>1, <2>1, QueueAll
    <3>3. Followed(queue, files, ai) => Followed(queue', files', ai')
      BY <1>1, <2>1, <2>3, <3>1, <3>2, TakeGone, TakeLive DEF Followed
    <3>4. Older(queue, next) => Older(queue', next')
      BY <2>1, <2>3, <3>2 DEF Older
    <3> QED
      BY <2>1, <3>1, <3>3, <3>4 DEF Searching
  <2> QED
    BY <2>1, <2>2, <2>3
<1>5. CASE Save
  <2>1. CASE mode = "memory"
    BY <1>3, <1>5, <2>1 DEF Save
  <2>2. CASE mode # "memory"
    <3>1. mode \in Files /\ mode' = NextFile[mode] /\ UNCHANGED ai
      BY <1>5, <2>2 DEF Save
    <3>2. mode' # "mounted"
      BY <3>1, FilesAre DEF NextFile
    <3> QED
      BY <1>1, <3>1, <3>2 DEF Searching
  <2> QED
    BY <2>1, <2>2
<1>6. CASE Crash
  BY <1>3, <1>6 DEF Crash
<1>7. CASE Load
  <2>1. PICK order \in Orders(disk), text \in [Remaining -> SUBSET Word] :
          ai' = Reindexed(Restored(disk, order), FoundWith(text)) /\ files' = FoundWith(text)
    BY <1>7, MountIs
  <2> DEFINE found == FoundWith(text)
  <2>2. found \in Inodes /\ queue' = <<>>
    <3>1. queue = <<>>
      BY <1>7 DEF Load, Typed
    <3> QED
      BY <1>7, <2>1, <3>1, MountIs
  <2>3. \A i \in DOMAIN found : \E W \in SUBSET Word : found[i].sent = Found(W)
    <3>1. \A n, d, s : File(n, d, s).sent = s
      BY DEF File
    <3> QED
      BY <3>1 DEF FoundWith
  <2> HIDE DEF found
  <2>4. /\ SameBut(NewAI, ai', {"markov", "scores", "net", "memory", "index"})
        /\ ai'.index = Looped(Indexing(found), Mod!NewIndex, SetToSeq(DOMAIN found))
    BY <2>1, <2>2, LoadedAI DEF found
  <2>5. ai'.acc = <<>>
    BY <1>1, <2>4, NewAIIs DEF SameBut, Fields
  <2>6. /\ Enough(ai'.index) /\ DOMAIN ai'.index.files = DOMAIN found
        /\ \A i \in DOMAIN found : found[i].sent.since \subseteq ai'.index.files[i].words
    BY <2>2, <2>4, ReindexedRight
  <2>7. Followed(<<>>, found, ai') /\ \A n : Older(<<>>, n)
    <3>1. DOMAIN found \subseteq Ino
      BY <2>2, InodeIs
    <3> QED
      BY <2>3, <2>5, <2>6, <3>1, MountFollows
  <2> QED
    BY <2>1, <2>2, <2>6, <2>7 DEF Searching, found
<1> QED
  BY <1>4, <1>5, <1>6, <1>7, RequestsFollow

\* The search index follows the files, late by what is in the queue, for any
\* files, directories and words and any limit of the queue: what was written since a
\* file was last closed is in it or on its way to it, but for the words at the seams
\* of pieces that ran into one another, of which the last piece loses one at most; a
\* file unlinked is not in it or is on its way out, as directories removed and files
\* replaced are not; and no word counts for fewer files than have it
\* (SearchIndex::index_by_name, index_content and remove, ai/search.rs, with the
\* events of fuse/mod.rs and ai/engine.rs).
THEOREM SearchIsRight == Spec => []SearchFollowsFiles
<1>1. Typed /\ Searching => SearchFollowsFiles
  <2> SUFFICES ASSUME Typed, Searching, mode = "mounted", alive PROVE SearchFollowsFiles
    BY DEF SearchFollowsFiles
  <2>1. /\ Enough(ai.index) /\ queue \in Seq(Events) /\ ai.index \in Indexes
        /\ ai.acc \in Maps(Ino, SUBSET Word)
        /\ \A i \in Ino : i \notin DOMAIN files => Gone(queue, ai, i)
        /\ \A i \in DOMAIN files : Live(queue, files[i].sent, ai, i)
    BY DEF Typed, IsAI, Searching, Followed
  <2>2. \A kind, i : Sent(queue, kind, 0, i) <=> Pending(kind, i)
    BY <2>1, SentSome DEF Pending
  <2>3. DOMAIN ai.index.files \subseteq Ino /\ DOMAIN ai.acc \subseteq Ino
    BY <2>1, MapsIs DEF Indexes
  <2>4. \A i \in DOMAIN ai.index.files \cup DOMAIN ai.acc : i \in DOMAIN files \/ Pending("delete", i)
    BY <2>1, <2>2, <2>3 DEF Gone
  <2>5. ASSUME NEW i \in DOMAIN files, files[i].sent.told, ~Pending("write", i)
        PROVE  /\ i \in DOMAIN ai.index.files
               /\ files[i].sent.whole => files[i].sent.since \subseteq ai.index.files[i].words
               /\ \E lost \in AtMostOne : files[i].sent.latest \ lost \subseteq ai.index.files[i].words
    <3> DEFINE f == files[i].sent
    <3>1. PICK h : Chain(queue, i, f, h) /\ Tracks(ai, i, h[0])
      BY <2>1 DEF Live
    <3>2. SameText(h[0], f)
      <4>1. 0 \in 0 .. Len(queue)
        BY <2>1, QueueAll
      <4> QED
        BY <2>2, <2>5, <3>1, <4>1 DEF Chain
    <3> QED
      BY <2>5, <3>1, <3>2 DEF Tracks, SameText
  <2>6. \A w \in Word : ai.index.df[w] >=
          Cardinality({i \in DOMAIN ai.index.files : w \in ai.index.files[i].words})
    BY <2>1 DEF Enough, Having
  <2> QED
    BY <2>4, <2>5, <2>6, Zenon DEF SearchFollowsFiles
<1> QED
  BY <1>1, InitTyped, InitSearches, StepTyped, StepSearches, PTL DEF Spec

-----------------------------------------------------------------------------
(***************************************************************************)
(* What was learned: by how much the engine, and the files, have of it.    *)
(***************************************************************************)
Full(f, n) == Cardinality(DOMAIN f) = n

\* f counts what g counts, and as far.
Counts2(f, g) == \A x \in DOMAIN g : x \in DOMAIN f /\ f[x] >= g[x]
Covers(f, g, n) == Full(f, n) \/ Counts2(f, g)

FewTransitions(t) == Cardinality(DOMAIN t) <= MaxEntries /\ \A e \in DOMAIN t : t[e] >= 1
FewScores(s) == Cardinality(DOMAIN s) <= MaxTracked

\* The memory has the names of the files it has, but for those it was cut of.
NamesHeld(m) == \A i \in Ino \ m.cut : i \in DOMAIN m.names <=> i \in DOMAIN m.opens

\* Of what is owed: transitions t and scores s, a vocabulary v, a memory m.
ModelsHeld(t, s, W) ==
  /\ FewTransitions(t) /\ FewScores(s)
  /\ \A o \in W : Covers(t, o.markov, MaxEntries) /\ Covers(s, o.scores, MaxTracked)
NetHeld(v, W) == \A o \in W : IsPrefix(o, v)
Recalls(m, o) ==
  Remembers(m, o) /\ \A i \in DOMAIN o.opens \ m.cut : i \in DOMAIN o.streaks
MemoryHeld(m, W) == NamesHeld(m) /\ \A o \in W : Recalls(m, o)

EngineHolds(a, w) ==
  /\ ModelsHeld(a.markov, a.scores, w["ai"])
  /\ NetHeld(a.net.vocab, w["neural"])
  /\ MemoryHeld(a.memory, w["memory"])

\* The files have what is owed, on whatever day a memory is made in place of
\* one that is missing.
FileHolds(f, c, W) ==
  CASE f = "ai"     -> ModelsHeld(load(c).markov, load(c).scores, W)
    [] f = "neural" -> NetHeld(load_neural(c).vocab, W)
    [] f = "memory" -> /\ \A m \in c : MemoryHeld(m, W)
                       /\ c = {} => \A t \in Nat : MemoryHeld(Mem!NewMemory(t), W)

LEMMA OneMore ==
  ASSUME NEW S, IsFiniteSet(S), NEW x
  PROVE  /\ Cardinality(S) \in Nat
         /\ x \notin S => Cardinality(S \cup {x}) = Cardinality(S) + 1
         /\ x \in S => S \cup {x} = S /\ Cardinality(S \ {x}) = Cardinality(S) - 1
         /\ IsFiniteSet(S \cup {x}) /\ IsFiniteSet(S \ {x})
BY FS_AddElement, FS_RemoveElement, FS_CardinalityType

LEMMA CountCovers ==
  ASSUME NEW A, NEW f \in Maps(A, Nat), NEW g \in Maps(A, Nat), Counts2(f, g), NEW x
  PROVE  Counts2(Counted(f, x), g)
<1> SUFFICES ASSUME NEW y \in DOMAIN g
             PROVE  y \in DOMAIN Counted(f, x) /\ Counted(f, x)[y] >= g[y]
  BY DEF Counts2
<1>1. y \in DOMAIN f /\ f[y] >= g[y] /\ f[y] \in Nat /\ g[y] \in Nat
  BY MapsIs DEF Counts2
<1>2. y \in DOMAIN Counted(f, x) /\ (y # x => Counted(f, x)[y] = f[y])
      /\ (y = x => Counted(f, x)[y] = f[y] + 1)
  BY <1>1 DEF Counted, With, Value
<1> QED
  BY <1>1, <1>2

LEMMA TransitionHolds ==
  ASSUME NEW t \in Transitions, FewTransitions(t), NEW i \in Ino, NEW j \in Ino,
         NEW u, u = Mod!record_transition(t, i, j)
  PROVE  /\ FewTransitions(u)
         /\ \A g \in Transitions : Covers(t, g, MaxEntries) => Covers(u, g, MaxEntries)
<1> DEFINE x == <<i, j>>
<1>1. /\ IsFiniteSet(DOMAIN t) /\ Cardinality(DOMAIN t) \in Nat /\ MaxEntries \in Nat
      /\ \A e \in DOMAIN t : t[e] \in Nat /\ t[e] >= 1
  <2>1. IsFiniteSet(DOMAIN t)
    BY FiniteMaps
  <2>2. Cardinality(DOMAIN t) \in Nat
    BY <2>1, FS_CardinalityType
  <2>3. MaxEntries \in Nat
    BY Constants
  <2>4. \A e \in DOMAIN t : t[e] \in Nat
    BY MapsIs DEF Transitions
  <2>5. \A e \in DOMAIN t : t[e] >= 1
    BY DEF FewTransitions
  <2> QED
    BY <2>1, <2>2, <2>3, <2>4, <2>5
<1>2. Mod!Cardinality(DOMAIN t) = Cardinality(DOMAIN t)
  BY SameCard
<1>3. u = IF Cardinality(DOMAIN t) >= MaxEntries THEN t ELSE Counted(t, x)
  BY <1>2, SameHelpers DEF Mod!record_transition, Counted
<1>4. CASE Cardinality(DOMAIN t) >= MaxEntries
  BY <1>3, <1>4
<1>5. CASE ~(Cardinality(DOMAIN t) >= MaxEntries)
  <2>1. u = Counted(t, x) /\ Cardinality(DOMAIN t) + 1 <= MaxEntries
    BY <1>1, <1>3, <1>5
  <2>2. DOMAIN u = DOMAIN t \cup {x}
    BY <2>1 DEF Counted, With
  <2>3. Cardinality(DOMAIN u) <= MaxEntries
    <3>1. Cardinality(DOMAIN u) = Cardinality(DOMAIN t) \/ Cardinality(DOMAIN u) = Cardinality(DOMAIN t) + 1
      <4>1. x \notin DOMAIN t => Cardinality(DOMAIN t \cup {x}) = Cardinality(DOMAIN t) + 1
        BY <1>1, OneMore
      <4> QED
        BY <2>2, <4>1
    <3> QED
      BY <1>1, <2>1, <3>1
  <2>4. \A e \in DOMAIN u : u[e] >= 1
    <3> TAKE e \in DOMAIN u
    <3>1. CASE e = x /\ x \in DOMAIN t
      <4>1. u[e] = t[e] + 1
        BY <2>1, <3>1 DEF Counted, With, Value
      <4> QED
        BY <1>1, <3>1, <4>1
    <3>2. CASE e = x /\ x \notin DOMAIN t
      <4>1. u[e] = 0 + 1
        BY <2>1, <3>2 DEF Counted, With, Value
      <4> QED
        BY <4>1
    <3>3. CASE e # x
      <4>1. e \in DOMAIN t /\ u[e] = t[e]
        BY <2>1, <2>2, <3>3 DEF Counted, With, Value
      <4> QED
        BY <1>1, <4>1
    <3> QED
      BY <3>1, <3>2, <3>3
  <2>5. ASSUME NEW g \in Transitions, Covers(t, g, MaxEntries) PROVE Counts2(u, g)
    <3>1. Counts2(t, g)
      BY <1>1, <1>5, <2>5 DEF Covers, Full
    <3> QED
      BY <2>1, <3>1, CountCovers DEF Transitions
  <2> QED
    BY <2>3, <2>4, <2>5 DEF FewTransitions, Covers
<1> QED
  BY <1>4, <1>5

LEMMA ScoreHolds ==
  ASSUME NEW s \in Counts, FewScores(s), NEW i \in Ino, NEW t \in Mod!record_score(s, i)
  PROVE  /\ FewScores(t)
         /\ \A g \in Counts : Covers(s, g, MaxTracked) => Covers(t, g, MaxTracked)
<1>1. /\ IsFiniteSet(DOMAIN s) /\ Cardinality(DOMAIN s) \in Nat /\ MaxTracked \in Nat
      /\ Cardinality(DOMAIN s) <= MaxTracked
  <2>1. IsFiniteSet(DOMAIN s)
    BY FiniteMaps DEF Counts
  <2>2. Cardinality(DOMAIN s) \in Nat
    BY <2>1, FS_CardinalityType
  <2>3. MaxTracked \in Nat
    BY Constants
  <2>4. Cardinality(DOMAIN s) <= MaxTracked
    BY DEF FewScores
  <2> QED
    BY <2>1, <2>2, <2>3, <2>4
<1>2. Mod!Cardinality(DOMAIN s) = Cardinality(DOMAIN s)
  BY SameCard
<1>3. CASE i \notin DOMAIN s /\ Cardinality(DOMAIN s) >= MaxTracked
  <2>1. PICK v \in DOMAIN s : t = Counted(Without(s, v), i)
    BY <1>2, <1>3, SameHelpers DEF Mod!record_score, Counted
  <2>2. DOMAIN t = (DOMAIN s \ {v}) \cup {i}
    BY <2>1 DEF Counted, With, Without
  <2>3. Cardinality(DOMAIN s \ {v}) = Cardinality(DOMAIN s) - 1 /\ IsFiniteSet(DOMAIN s \ {v})
    BY <1>1, OneMore
  <2>4. Cardinality(DOMAIN t) = Cardinality(DOMAIN s \ {v}) + 1
    BY <1>3, <2>2, <2>3, OneMore, ZenonT(40)
  <2>5. Cardinality(DOMAIN t) = MaxTracked
    BY <1>1, <1>3, <2>3, <2>4
  <2> QED
    BY <1>1, <2>5 DEF FewScores, Covers, Full
<1>4. CASE ~(i \notin DOMAIN s /\ Cardinality(DOMAIN s) >= MaxTracked)
  <2>1. t = Counted(s, i)
    BY <1>2, <1>4, SameHelpers DEF Mod!record_score, Counted
  <2>2. DOMAIN t = DOMAIN s \cup {i}
    BY <2>1 DEF Counted, With
  <2>3. /\ i \in DOMAIN s => DOMAIN t = DOMAIN s
        /\ i \notin DOMAIN s => Cardinality(DOMAIN t) = Cardinality(DOMAIN s) + 1
    BY <1>1, <2>2, OneMore
  <2>4. Cardinality(DOMAIN t) <= MaxTracked
    BY <1>1, <1>4, <2>3
  <2>5. Full(s, MaxTracked) => Full(t, MaxTracked)
    BY <1>1, <1>4, <2>3 DEF Full
  <2>6. ASSUME NEW g \in Counts, Counts2(s, g) PROVE Counts2(t, g)
    BY <2>1, <2>6, CountCovers DEF Counts
  <2> QED
    BY <2>4, <2>5, <2>6 DEF FewScores, Covers
<1> QED
  BY <1>3, <1>4

LEMMA LearnHolds ==
  ASSUME NEW n \in [vocab : Seq(Ino), recent : Seq(Ino)], NEW i \in Ino, NEW o \in Seq(Ino),
         IsPrefix(o, n.vocab)
  PROVE  IsPrefix(o, Mod!learn(n, i).vocab)
<1> DEFINE v == n.vocab
           u == Append(v, i)
<1>1. v \in Seq(Ino) /\ Len(o) <= Len(v) /\ Len(o) \in Nat /\ Len(v) \in Nat
      /\ SubSeq(o, 1, Len(o)) = SubSeq(v, 1, Len(o))
  BY DEF IsPrefix
<1>2. Mod!learn(n, i).vocab = v \/ Mod!learn(n, i).vocab = u
  BY DEF Mod!learn, Mod!register
<1>3. Len(u) = Len(v) + 1 /\ u \in Seq(Ino) /\ \A k \in 1 .. Len(v) : u[k] = v[k]
  BY <1>1, AppendProperties
<1> HIDE DEF u, v
<1>4. SubSeq(u, 1, Len(o)) = SubSeq(v, 1, Len(o))
  <2>1. /\ Len(o) \in 0 .. Len(u) /\ Len(o) \in 0 .. Len(v)
    BY <1>1, <1>3
  <2>2. /\ SubSeq(u, 1, Len(o)) \in Seq(Ino) /\ Len(SubSeq(u, 1, Len(o))) = Len(o)
        /\ \A k \in 1 .. Len(o) : SubSeq(u, 1, Len(o))[k] = u[k]
        /\ SubSeq(v, 1, Len(o)) \in Seq(Ino) /\ Len(SubSeq(v, 1, Len(o))) = Len(o)
        /\ \A k \in 1 .. Len(o) : SubSeq(v, 1, Len(o))[k] = v[k]
    BY <1>1, <1>3, <2>1, SubSeqProperties
  <2>3. \A k \in 1 .. Len(o) : SubSeq(u, 1, Len(o))[k] = SubSeq(v, 1, Len(o))[k]
    BY <1>1, <1>3, <2>2
  <2> QED
    BY <2>2, <2>3
<1>5. IsPrefix(o, u)
  BY <1>1, <1>3, <1>4 DEF IsPrefix
<1> QED
  BY <1>2, <1>5 DEF v

LEMMA AccessHolds ==
  ASSUME NEW m \in Memories, NEW today \in Nat, DaysRight(m, today), NEW i \in Ino,
         NEW n \in Name, NEW W \in SUBSET Memories, MemoryHeld(m, W)
  PROVE  MemoryHeld(Mem!record_access(m, i, n, today), W)
<1> DEFINE u == Mem!record_access(m, i, n, today)
           x == Mem!touch(Value(m.streaks, i, Mem!NewStreak), today)
<1>1. /\ u \in Memories /\ IsAccessed(m, i, n, today, u)
  BY AccessIs
<1>2. /\ u.names = With(m.names, i, n) /\ u.opens = Counted(m.opens, i)
      /\ u.streaks = With(m.streaks, i, x) /\ u.total = m.total /\ u.pairs = m.pairs
      /\ u.cut = m.cut
  BY <1>1 DEF IsAccessed
<1>3. /\ m.opens \in Maps(Ino, Nat) /\ m.streaks \in Maps(Ino, Streak) /\ m.total \in Nat
      /\ m.pairs \in Maps(Pairs, Nat) /\ m.history.opens \in Seq(Opened)
      /\ DOMAIN m.opens \subseteq Ino
  BY MapsIs DEF Memories
<1> HIDE DEF u
<1>4. /\ \A j : j \in DOMAIN u.names <=> j \in DOMAIN m.names \/ j = i
      /\ \A j : j \in DOMAIN u.opens <=> j \in DOMAIN m.opens \/ j = i
      /\ \A j \in DOMAIN m.opens : u.opens[j] = IF j = i THEN m.opens[j] + 1 ELSE m.opens[j]
      /\ \A j \in DOMAIN m.streaks : u.streaks[j] = IF j = i THEN x ELSE m.streaks[j]
  BY <1>2 DEF With, Counted, Value
<1>5. NamesHeld(u)
  BY <1>2, <1>4 DEF MemoryHeld, NamesHeld
<1>6. ASSUME NEW j \in DOMAIN m.opens \ m.cut
      PROVE  /\ j \in DOMAIN m.streaks /\ m.streaks[j] \in Streak
             /\ u.opens[j] >= m.opens[j]
             /\ u.streaks[j].longest >= m.streaks[j].longest
             /\ u.streaks[j].last >= m.streaks[j].last
  <2>1. j \in Ino \ m.cut /\ j \in DOMAIN m.streaks /\ FileRight(m, j)
    BY <1>3, <1>6 DEF DaysRight
  <2>2. m.streaks[j] \in Streak /\ m.opens[j] \in Nat
    BY <1>3, <1>6, <2>1, MapsIs
  <2>3. m.streaks[j].last <= today
    <3>1. m.streaks[j].last \in DaysIn(m.history.opens, j)
      BY <2>1 DEF FileRight, StreakRight
    <3>2. PICK k \in 1 .. Len(m.history.opens) : m.history.opens[k].day = m.streaks[j].last
      BY <3>1 DEF DaysIn, Of
    <3>3. m.streaks[j].last <= m.last_day /\ m.last_day <= today
      BY <3>2 DEF DaysRight
    <3> QED
      BY <2>2, <3>3 DEF Memories, Streak
  <2>4. u.opens[j] >= m.opens[j]
    BY <1>4, <1>6, <2>2
  <2>5. CASE j = i
    <3>1. u.streaks[j] = Mem!touch(m.streaks[j], today)
      BY <1>4, <2>1, <2>5 DEF Value
    <3>2. Mem!touch(m.streaks[j], today).last = today
          /\ Mem!touch(m.streaks[j], today).longest >= m.streaks[j].longest
      BY <2>2 DEF Mem!touch, Streak
    <3> QED
      BY <2>1, <2>2, <2>3, <2>4, <3>1, <3>2
  <2>6. CASE j # i
    <3>1. u.streaks[j] = m.streaks[j]
      BY <1>4, <2>1, <2>6
    <3> QED
      BY <2>1, <2>2, <2>4, <3>1 DEF Streak
  <2> QED
    BY <2>5, <2>6
<1>7. ASSUME NEW o \in W PROVE Recalls(u, o)
  <2>1. /\ Remembers(m, o) /\ o \in Memories
        /\ \A j \in DOMAIN o.opens \ m.cut : j \in DOMAIN o.streaks
    BY <1>7 DEF MemoryHeld, Recalls
  <2>2. /\ o.opens \in Maps(Ino, Nat) /\ o.streaks \in Maps(Ino, Streak)
    BY <2>1 DEF Memories
  <2>3. ASSUME NEW j \in DOMAIN o.opens \ u.cut
        PROVE  /\ j \in DOMAIN u.opens /\ u.opens[j] >= o.opens[j] /\ j \in DOMAIN u.names
               /\ u.streaks[j].longest >= o.streaks[j].longest
               /\ u.streaks[j].last >= o.streaks[j].last
    <3>1. /\ j \in DOMAIN m.opens /\ m.opens[j] >= o.opens[j] /\ j \in DOMAIN m.names
          /\ m.streaks[j].longest >= o.streaks[j].longest
          /\ m.streaks[j].last >= o.streaks[j].last
      BY <1>2, <2>1, <2>3 DEF Remembers
    <3>2. j \in DOMAIN m.opens \ m.cut /\ j \in DOMAIN o.opens \ m.cut
      BY <1>2, <2>3, <3>1
    <3>3. o.opens[j] \in Nat /\ o.streaks[j] \in Streak
      BY <2>1, <2>2, <3>2, MapsIs
    <3>4. /\ j \in DOMAIN m.streaks /\ m.streaks[j] \in Streak
          /\ u.opens[j] >= m.opens[j] /\ u.streaks[j].longest >= m.streaks[j].longest
          /\ u.streaks[j].last >= m.streaks[j].last
      BY <1>6, <3>2
    <3>5. m.opens[j] \in Nat /\ j \in DOMAIN u.opens /\ j \in DOMAIN u.names
      BY <1>3, <1>4, <3>1, MapsIs
    <3>6. j \in DOMAIN u.streaks
      BY <1>2, <3>4 DEF With
    <3>7. u.opens \in Maps(Ino, Nat) /\ u.streaks \in Maps(Ino, Streak)
      BY <1>1 DEF Memories
    <3>8. u.opens[j] \in Nat /\ u.streaks[j] \in Streak
      BY <3>5, <3>6, <3>7, MapsIs
    <3> QED
      BY <3>1, <3>3, <3>4, <3>5, <3>8 DEF Streak
  <2>4. Remembers(u, o)
    BY <1>2, <2>1, <2>3 DEF Remembers
  <2> QED
    BY <1>2, <2>1, <2>4 DEF Recalls
<1> QED
  BY <1>5, <1>7 DEF MemoryHeld, u

\* A mount counts each transition up again, as far as the table holds.
Few == {t \in Transitions : FewTransitions(t)}

\* u is t with x, which t does not have, counted k times, or as often as it could be.
Adds(t, u, x, k) ==
  /\ \A y : y # x => (y \in DOMAIN u <=> y \in DOMAIN t) /\ (y \in DOMAIN t => u[y] = t[y])
  /\ x \in DOMAIN u => u[x] <= k
  /\ \/ Full(u, MaxEntries)
     \/ k = 0 /\ x \notin DOMAIN u
     \/ x \in DOMAIN u /\ u[x] = k
  /\ Full(t, MaxEntries) => Full(u, MaxEntries)

\* u is what is saved of the transitions in D, or as much as the table holds.
Built(u, saved, D) ==
  /\ DOMAIN u \subseteq D /\ \A y \in DOMAIN u : u[y] <= saved[y]
  /\ \/ Full(u, MaxEntries)
     \/ \A y \in D : y \in DOMAIN u /\ u[y] = saved[y]

LEMMA RecordIs ==
  ASSUME NEW t \in Few, NEW x \in Ino \X Ino, NEW u, u = Mod!record_transition(t, x[1], x[2])
  PROVE  /\ u \in Few
         /\ Full(t, MaxEntries) => u = t
         /\ ~Full(t, MaxEntries) => u = Counted(t, x)
<1>1. t \in Transitions /\ FewTransitions(t) /\ x[1] \in Ino /\ x[2] \in Ino /\ x = <<x[1], x[2]>>
  BY DEF Few
<1>2. u \in Few
  BY <1>1, TransitionIs, TransitionHolds DEF Few
<1>3. Cardinality(DOMAIN t) \in Nat /\ MaxEntries \in Nat
  BY <1>1, FiniteMaps, FS_CardinalityType, Constants
<1>4. u = IF Cardinality(DOMAIN t) >= MaxEntries THEN t ELSE Counted(t, x)
  <2>1. Mod!Cardinality(DOMAIN t) = Cardinality(DOMAIN t)
    BY SameCard
  <2> QED
    BY <1>1, <2>1, SameHelpers DEF Mod!record_transition, Counted
<1>5. Full(t, MaxEntries) <=> Cardinality(DOMAIN t) >= MaxEntries
  BY <1>1, <1>3 DEF Full, FewTransitions
<1> QED
  BY <1>2, <1>4, <1>5

LEMMA AddsStep ==
  ASSUME NEW t, NEW u \in Few, NEW x \in Ino \X Ino, NEW k \in Nat, Adds(t, u, x, k),
         NEW v, v = Mod!record_transition(u, x[1], x[2])
  PROVE  Adds(t, v, x, k + 1)
<1>1. \A y \in DOMAIN u : u[y] \in Nat
  BY MapsIs DEF Few, Transitions
<1>2. CASE Full(u, MaxEntries)
  <2>1. v = u
    BY <1>2, RecordIs
  <2> QED
    BY <1>1, <1>2, <2>1 DEF Adds
<1>3. CASE ~Full(u, MaxEntries)
  <2>1. v = Counted(u, x)
    BY <1>3, RecordIs
  <2>2. /\ \A y : y # x => (y \in DOMAIN v <=> y \in DOMAIN u) /\ (y \in DOMAIN u => v[y] = u[y])
        /\ x \in DOMAIN v /\ v[x] = Value(u, x, 0) + 1
    BY <2>1 DEF Counted, With
  <2>3. ~Full(t, MaxEntries)
    BY <1>3 DEF Adds
  <2>4. v[x] = k + 1
    BY <1>3, <2>2 DEF Adds, Value
  <2> QED
    BY <2>2, <2>3, <2>4 DEF Adds
<1> QED
  BY <1>2, <1>3

LEMMA TimesAdds ==
  ASSUME NEW t \in Few, NEW x \in Ino \X Ino, NEW n \in Nat,
         NEW u, u = Mod!record_times(t, x, n)
  PROVE  u \in Few /\ (x \notin DOMAIN t => Adds(t, u, x, n))
<1> DEFINE seq == [k \in 1 .. n |-> k]
           loop == Times(x)
<1>1. \A s, y : Do(loop, s, y) = Mod!record_transition(s, x[1], x[2])
  BY DEF Do, Times
<1>2. u = Looped(loop, t, seq) /\ DOMAIN seq = 1 .. n
  BY TimesLoop
<1> HIDE DEF seq, loop
<1>3. \A s \in Few : \A k \in 1 .. n : Do(loop, s, seq[k]) \in Few
  BY <1>1, RecordIs
<1>4. PICK m \in [0 .. n -> Few] : IsLoop(m, loop, t, seq, n)
  BY <1>2, <1>3, LoopRounds
<1>5. u = m[n] /\ u \in Few /\ m[0] = t
  BY <1>2, <1>4 DEF IsLoop
<1> SUFFICES ASSUME x \notin DOMAIN t PROVE Adds(t, u, x, n)
  BY <1>5
<1> DEFINE T == {k \in 0 .. n : Adds(t, m[k], x, k)}
<1>6. 0 \in T
  <2>1. Adds(t, t, x, 0)
    BY DEF Adds
  <2> QED
    BY <1>5, <2>1
<1>7. ASSUME NEW k \in 0 .. (n - 1), k \in T PROVE k + 1 \in T
  <2>1. k \in Nat /\ k + 1 \in 1 .. n /\ k + 1 \in 0 .. n /\ (k + 1) - 1 = k /\ k \in 0 .. n
    OBVIOUS
  <2>2. m[k + 1] = Mod!record_transition(m[k], x[1], x[2])
    BY <1>1, <1>4, <2>1 DEF IsLoop
  <2>3. Adds(t, m[k + 1], x, k + 1)
    BY <1>7, <2>1, <2>2, AddsStep
  <2> QED
    BY <2>1, <2>3
<1>8. n \in T
  <2>1. 0 .. n \subseteq T
    <3> HIDE DEF T
    <3> QED
      BY <1>6, <1>7, UpTo
  <2> HIDE DEF T
  <2> QED
    BY <2>1
<1> QED
  BY <1>5, <1>8

LEMMA BuiltStep ==
  ASSUME NEW saved \in Few, NEW D \in SUBSET DOMAIN saved, NEW x \in DOMAIN saved \ D,
         NEW t \in Few, Built(t, saved, D), NEW u, u = Mod!record_times(t, x, saved[x])
  PROVE  Built(u, saved, D \cup {x})
<1>1. x \in Ino \X Ino /\ saved[x] \in Nat /\ saved[x] >= 1 /\ x \notin DOMAIN t
  BY MapsIs DEF Few, FewTransitions, Transitions, Built
<1>2. Adds(t, u, x, saved[x])
  BY <1>1, TimesAdds
<1>3. DOMAIN u \subseteq D \cup {x} /\ \A y \in DOMAIN u : u[y] <= saved[y]
  BY <1>2 DEF Adds, Built
<1>4. CASE Full(u, MaxEntries)
  BY <1>3, <1>4 DEF Built
<1>5. CASE ~Full(u, MaxEntries)
  <2>1. \A y \in D : y \in DOMAIN t /\ t[y] = saved[y]
    BY <1>2, <1>5 DEF Adds, Built
  <2>2. x \in DOMAIN u /\ u[x] = saved[x]
    BY <1>1, <1>2, <1>5 DEF Adds
  <2>3. \A y \in D \cup {x} : y \in DOMAIN u /\ u[y] = saved[y]
    BY <1>2, <2>1, <2>2 DEF Adds
  <2> QED
    BY <1>3, <2>3 DEF Built
<1> QED
  BY <1>4, <1>5

LEMMA ReplayHolds ==
  ASSUME NEW saved \in Few, NEW order \in SetToSeqs(DOMAIN saved),
         NEW r, r = Mod!Replayed(saved, order)
  PROVE  /\ r \in Few /\ Counts2(saved, r) /\ Covers(r, saved, MaxEntries)
<1> DEFINE n == Cardinality(DOMAIN saved)
           loop == Replaying(saved)
           Taken(k) == {order[j] : j \in 1 .. k}
<1>1. IsOrder(order, DOMAIN saved) /\ saved \in Transitions
  BY FiniteMaps, OrderIs DEF Few
<1>2. /\ n \in Nat /\ DOMAIN order = 1 .. n /\ Taken(n) = DOMAIN saved
      /\ \A k \in 1 .. n : order[k] \in DOMAIN saved
      /\ \A j, k \in 1 .. n : j # k => order[j] # order[k]
  BY <1>1, ZenonT(40) DEF IsOrder
<1>3. \A e \in DOMAIN saved : e \in Ino \X Ino /\ saved[e] \in Nat
  BY <1>1, MapsIs DEF Transitions
<1>4. \A s, x : Do(loop, s, x) = Mod!record_times(s, x, saved[x])
  BY DEF Do, Replaying
<1>5. \A u \in Few : \A k \in 1 .. n : Do(loop, u, order[k]) \in Few
  BY <1>2, <1>3, <1>4, TimesAdds
<1>6. <<>> \in Few
  <2>1. <<>> \in Transitions /\ DOMAIN <<>> = {}
    BY NoMap DEF Transitions
  <2>2. Cardinality({}) = 0
    BY FS_EmptySet
  <2> QED
    BY <2>1, <2>2, Constants DEF Few, FewTransitions
<1>7. r = Looped(loop, <<>>, order)
  BY ReplayLoop
<1> HIDE DEF n, loop
<1>8. PICK m \in [0 .. n -> Few] : IsLoop(m, loop, <<>>, order, n)
  BY <1>2, <1>5, <1>6, LoopRounds
<1>9. r = m[n] /\ m[0] = <<>>
  BY <1>7, <1>8 DEF IsLoop
<1> DEFINE T == {k \in 0 .. n : Built(m[k], saved, Taken(k))}
<1>10. 0 \in T
  <2>1. Taken(0) = {} /\ DOMAIN <<>> = {} /\ 0 \in 0 .. n
    BY <1>2
  <2> HIDE DEF Taken
  <2>2. Built(<<>>, saved, Taken(0))
    BY <2>1 DEF Built
  <2> QED
    BY <1>9, <2>1, <2>2
<1>11. ASSUME NEW k \in 0 .. (n - 1), k \in T PROVE k + 1 \in T
  <2>1. k \in Nat /\ k + 1 \in 1 .. n /\ k + 1 \in 0 .. n /\ (k + 1) - 1 = k /\ k \in 0 .. n
    BY <1>2
  <2>2. m[k + 1] = Mod!record_times(m[k], order[k + 1], saved[order[k + 1]])
    BY <1>4, <1>8, <2>1 DEF IsLoop
  <2>3. Taken(k + 1) = Taken(k) \cup {order[k + 1]} /\ Taken(k) \in SUBSET DOMAIN saved
    <3>1. 1 .. k + 1 = (1 .. k) \cup {k + 1} /\ 1 .. k \subseteq 1 .. n
      BY <1>2, <2>1
    <3> QED
      BY <1>2, <3>1
  <2>4. order[k + 1] \in DOMAIN saved \ Taken(k)
    <3>1. \A j \in 1 .. k : j \in 1 .. n /\ j # k + 1
      BY <1>2, <2>1
    <3> QED
      BY <1>2, <2>1, <3>1
  <2>5. m[k] \in Few /\ Built(m[k], saved, Taken(k))
    BY <1>11, <2>1
  <2> HIDE DEF Taken
  <2>6. Built(m[k + 1], saved, Taken(k + 1))
    BY <2>2, <2>3, <2>4, <2>5, BuiltStep
  <2> QED
    BY <2>1, <2>6
<1>12. Built(r, saved, DOMAIN saved)
  <2>1. 0 .. n \subseteq T
    <3> HIDE DEF T
    <3> QED
      BY <1>2, <1>10, <1>11, UpTo
  <2>2. n \in T
    BY <1>2, <2>1
  <2> QED
    BY <1>2, <1>9, <2>2
<1>13. r \in Few
  BY <1>2, <1>9
<1>14. Counts2(saved, r)
  <2>1. \A y \in DOMAIN r : r[y] \in Nat
    BY <1>13, MapsIs DEF Few, Transitions
  <2> QED
    BY <1>3, <1>12, <2>1 DEF Built, Counts2
<1>15. Covers(r, saved, MaxEntries)
  BY <1>3, <1>12 DEF Built, Covers, Counts2
<1> QED
  BY <1>13, <1>14, <1>15

\* A memory has all of itself.
LEMMA RemembersSelf ==
  ASSUME NEW m \in Memories, NEW t, DaysRight(m, t), NamesHeld(m)
  PROVE  Recalls(m, m)
<1>1. /\ m.total \in Nat /\ m.opens \in Maps(Ino, Nat) /\ m.streaks \in Maps(Ino, Streak)
      /\ m.pairs \in Maps(Pairs, Nat)
  BY DEF Memories
<1>2. ASSUME NEW i \in DOMAIN m.opens \ m.cut
      PROVE  /\ m.opens[i] >= m.opens[i] /\ i \in DOMAIN m.names
             /\ m.streaks[i].longest >= m.streaks[i].longest
             /\ m.streaks[i].last >= m.streaks[i].last
  <2>1. i \in Ino /\ m.opens[i] \in Nat
    BY <1>1, <1>2, MapsIs
  <2>2. i \in DOMAIN m.streaks /\ i \in DOMAIN m.names
    BY <1>2, <2>1 DEF DaysRight, NamesHeld
  <2>3. m.streaks[i] \in Streak
    BY <1>1, <2>2, MapsIs
  <2> QED
    BY <2>1, <2>2, <2>3 DEF Streak
<1>3. \A p \in DOMAIN m.pairs : m.pairs[p] >= m.pairs[p]
  BY <1>1, MapsIs
<1>4. \A i \in DOMAIN m.opens \ m.cut : i \in DOMAIN m.streaks
  BY <1>1, MapsIs DEF DaysRight
<1> QED
  BY <1>1, <1>2, <1>3, <1>4 DEF Remembers, Recalls

LEMMA RereadHolds ==
  ASSUME NEW m \in Memories, NEW u, IsReread(m, u), NEW W, MemoryHeld(m, W)
  PROVE  MemoryHeld(u, W)
<1>1. PICK o \in SUBSET DOMAIN m.opens, s \in SUBSET DOMAIN m.streaks,
           y \in SUBSET DOMAIN m.daily, n \in SUBSET DOMAIN m.names :
        /\ u.opens = Mem!On(m.opens, o) /\ u.streaks = Mem!On(m.streaks, s)
        /\ u.daily = Mem!On(m.daily, y) /\ u.names = Mem!On(m.names, n)
        /\ u.cut = m.cut \cup (DOMAIN m.opens \ (o \cap s \cap y \cap n))
  BY DEF IsReread
<1>2. /\ DOMAIN u.opens = o /\ DOMAIN u.names = n
      /\ \A i \in o : u.opens[i] = m.opens[i]
      /\ \A i \in s : u.streaks[i] = m.streaks[i]
      /\ u.total = m.total /\ u.pairs = m.pairs
  BY <1>1 DEF Mem!On, IsReread
<1>3. \A i : i \notin u.cut => i \notin m.cut /\ (i \in DOMAIN m.opens => i \in o \cap s \cap y \cap n)
  BY <1>1
<1>4. NamesHeld(u)
  BY <1>2, <1>3 DEF NamesHeld, MemoryHeld
<1>5. ASSUME NEW w \in W PROVE Recalls(u, w)
  <2>1. Remembers(m, w) /\ \A i \in DOMAIN w.opens \ m.cut : i \in DOMAIN w.streaks
    BY <1>5 DEF MemoryHeld, Recalls
  <2>2. \A i \in DOMAIN w.opens \ u.cut :
          i \in DOMAIN m.opens /\ i \in o \cap s \cap y \cap n /\ i \in DOMAIN w.opens \ m.cut
    BY <1>3, <2>1 DEF Remembers
  <2> QED
    BY <1>2, <1>3, <2>1, <2>2 DEF Remembers, Recalls
<1> QED
  BY <1>4, <1>5 DEF MemoryHeld

LEMMA CloseHolds ==
  ASSUME NEW m \in Memories, NEW u, IsClosed(m, u), NEW W \in SUBSET Memories, MemoryHeld(m, W)
  PROVE  MemoryHeld(u, W)
<1> DEFINE new == Mem!Paired(m.touched)
<1>1. /\ u.pairs = [p \in DOMAIN m.pairs \cup new |->
                      Value(m.pairs, p, 0) + (IF p \in new THEN 1 ELSE 0)]
      /\ u.total = m.total + 1 /\ u.opens = m.opens /\ u.streaks = m.streaks
      /\ u.names = m.names /\ u.cut = m.cut
  BY DEF IsClosed
<1> HIDE DEF new
<1>2. \A p \in DOMAIN m.pairs : p \in DOMAIN u.pairs /\ m.pairs[p] \in Nat
                               /\ u.pairs[p] \in Nat /\ u.pairs[p] >= m.pairs[p]
  <2> TAKE p \in DOMAIN m.pairs
  <2>1. m.pairs[p] \in Nat
    BY MapsIs DEF Memories
  <2>2. u.pairs[p] = m.pairs[p] + (IF p \in new THEN 1 ELSE 0) /\ p \in DOMAIN u.pairs
    BY <1>1 DEF Value
  <2> QED
    BY <2>1, <2>2
<1>3. ASSUME NEW o \in W PROVE Recalls(u, o)
  <2>1. /\ Remembers(m, o) /\ o.total \in Nat /\ m.total \in Nat /\ o.pairs \in Maps(Pairs, Nat)
        /\ \A i \in DOMAIN o.opens \ m.cut : i \in DOMAIN o.streaks
    BY <1>3 DEF MemoryHeld, Memories, Recalls
  <2>2. u.total >= o.total
    BY <1>1, <2>1 DEF Remembers
  <2>3. \A p \in DOMAIN o.pairs : p \in DOMAIN u.pairs /\ u.pairs[p] >= o.pairs[p]
    <3> TAKE p \in DOMAIN o.pairs
    <3>1. p \in DOMAIN m.pairs /\ m.pairs[p] >= o.pairs[p] /\ o.pairs[p] \in Nat
      BY <2>1, MapsIs DEF Remembers
    <3> QED
      BY <1>2, <3>1
  <2>4. \A i \in DOMAIN o.opens \ u.cut :
          /\ i \in DOMAIN u.opens /\ u.opens[i] >= o.opens[i] /\ i \in DOMAIN u.names
          /\ u.streaks[i].longest >= o.streaks[i].longest
          /\ u.streaks[i].last >= o.streaks[i].last
    BY <1>1, <2>1 DEF Remembers
  <2> QED
    BY <1>1, <2>1, <2>2, <2>3, <2>4 DEF Remembers, Recalls
<1>4. NamesHeld(u)
  BY <1>1 DEF MemoryHeld, NamesHeld
<1> QED
  BY <1>3, <1>4 DEF MemoryHeld

\* What is owed is what an engine had.
LEMMA OwedAre ==
  ASSUME NEW w, IsDisk(w)
  PROVE  /\ \A o \in w["ai"] : o.markov \in Transitions /\ o.scores \in Counts
         /\ w["neural"] \in SUBSET Seq(Ino) /\ w["memory"] \in SUBSET Memories
BY DEF IsDisk, SavedAI

LEMMA CoversSelf ==
  ASSUME NEW A, NEW f \in Maps(A, Nat), NEW n
  PROVE  Covers(f, f, n)
<1>1. \A x \in DOMAIN f : f[x] \in Nat
  BY MapsIs
<1> QED
  BY <1>1 DEF Covers, Counts2

\* One event takes nothing of what is owed.
LEMMA HandledHolds ==
  ASSUME Typed, DaysRight(ai.memory, Today), NEW w, IsDisk(w), EngineHolds(ai, w),
         NEW e \in Events, NEW b \in handle_event(ai, e)
  PROVE  EngineHolds(b, w)
<1>1. IsAI(ai) /\ now \in Nat /\ Today \in Nat
  BY TodayIs DEF Typed
<1>2. /\ ai.markov \in Transitions /\ ai.scores \in Counts /\ ai.memory \in Memories
      /\ ai.net \in [vocab : Seq(Ino), recent : Seq(Ino)] /\ ai.last \in Ino \cup {0}
  BY <1>1 DEF IsAI
<1>3. /\ \A o \in w["ai"] : o.markov \in Transitions /\ o.scores \in Counts
      /\ w["neural"] \in SUBSET Seq(Ino) /\ w["memory"] \in SUBSET Memories
  BY OwedAre
<1>4. /\ FewTransitions(ai.markov) /\ FewScores(ai.scores)
      /\ \A o \in w["ai"] : /\ Covers(ai.markov, o.markov, MaxEntries)
                            /\ Covers(ai.scores, o.scores, MaxTracked)
      /\ \A o \in w["neural"] : IsPrefix(o, ai.net.vocab)
      /\ MemoryHeld(ai.memory, w["memory"])
  BY DEF EngineHolds, ModelsHeld, NetHeld
<1> DEFINE Markov(m) == FewTransitions(m) /\ \A o \in w["ai"] : Covers(m, o.markov, MaxEntries)
           Scores(s) == FewScores(s) /\ \A o \in w["ai"] : Covers(s, o.scores, MaxTracked)
           Vocab(v) == \A o \in w["neural"] : IsPrefix(o, v)
<1>5. \A m : \A s : \A v : \A u :
        Markov(m) /\ Scores(s) /\ Vocab(v) /\ MemoryHeld(u, w["memory"])
          /\ b.markov = m /\ b.scores = s /\ b.net.vocab = v /\ b.memory = u => EngineHolds(b, w)
  BY DEF EngineHolds, ModelsHeld, NetHeld
<1>6. /\ Markov(ai.markov) /\ Scores(ai.scores) /\ Vocab(ai.net.vocab)
  BY <1>4
<1>7. ASSUME NEW i \in Ino, NEW s \in Mod!record_score(ai.scores, i) PROVE Scores(s)
  BY <1>2, <1>3, <1>4, <1>7, ScoreHolds
<1> HIDE DEF Markov, Scores, Vocab
<1>8. {"markov", "scores", "net", "memory"} \subseteq Fields
  BY DEF Fields
<1>9. ASSUME NEW F, SameBut(ai, b, F), F \cap {"markov", "scores", "net", "memory"} = {}
      PROVE  EngineHolds(b, w)
  <2>1. b.markov = ai.markov /\ b.scores = ai.scores /\ b.net = ai.net /\ b.memory = ai.memory
    BY <1>8, <1>9 DEF SameBut
  <2> QED
    BY <1>4, <1>5, <1>6, <2>1
<1>10. CASE e \in FileEvent("open", {""}) /\ b \in OnOpen(ai, e)
  <2>1. /\ b.memory = Mem!record_access(ai.memory, e.ino, e.name, Today)
        /\ b.markov = IF ai.last \in {0, e.ino} THEN ai.markov
                      ELSE Mod!record_transition(ai.markov, ai.last, e.ino)
        /\ b.scores \in Mod!record_score(ai.scores, e.ino)
        /\ b.net = Mod!learn(ai.net, e.ino)
    BY <1>1, <1>10, OpenIs
  <2>2. e.ino \in Ino /\ e.name \in Name
    BY <1>10 DEF FileEvent
  <2>3. MemoryHeld(b.memory, w["memory"])
    BY <1>1, <1>2, <1>3, <1>4, <2>1, <2>2, AccessHolds
  <2>4. Markov(b.markov)
    <3>1. CASE ai.last \in {0, e.ino}
      BY <1>6, <2>1, <3>1
    <3>2. CASE ai.last \notin {0, e.ino}
      <4>1. ai.last \in Ino /\ b.markov = Mod!record_transition(ai.markov, ai.last, e.ino)
        BY <1>2, <2>1, <3>2
      <4> QED
        BY <1>2, <1>3, <1>4, <2>2, <4>1, TransitionHolds DEF Markov
    <3> QED
      BY <3>1, <3>2
  <2>5. Scores(b.scores)
    BY <1>7, <2>1, <2>2
  <2>6. Vocab(b.net.vocab)
    BY <1>2, <1>3, <1>4, <2>1, <2>2, LearnHolds DEF Vocab
  <2> QED
    BY <1>5, <2>3, <2>4, <2>5, <2>6
<1>11. CASE e \in FileEvent("close", {""}) /\ b \in OnClose(ai, e)
  <2>1. SameBut(ai, b, {"scores", "acc"}) /\ b.scores \in Mod!record_score(ai.scores, e.ino)
    BY <1>1, <1>11, CloseIs
  <2>2. e.ino \in Ino
    BY <1>11 DEF FileEvent
  <2>3. b.markov = ai.markov /\ b.net = ai.net /\ b.memory = ai.memory
    BY <1>8, <2>1 DEF SameBut
  <2>4. Scores(b.scores)
    BY <1>7, <2>1, <2>2
  <2> QED
    BY <1>4, <1>5, <1>6, <2>3, <2>4
<1>12. CASE e \in OwnEvent("end") /\ b \in OnEnd(ai)
  <2>1. /\ SameBut(ai, b, {"memory", "projects", "brief", "computed_at", "opens", "writes"})
        /\ b.memory = Mem!close_session(ai.memory)
    BY <1>1, <1>12, EndIs DEF IsEnded
  <2>2. b.markov = ai.markov /\ b.scores = ai.scores /\ b.net = ai.net
    BY <1>8, <2>1 DEF SameBut
  <2>3. IsClosed(ai.memory, b.memory)
    BY <1>2, <2>1, SessionIs
  <2>4. MemoryHeld(b.memory, w["memory"])
    BY <1>2, <1>3, <1>4, <2>3, CloseHolds
  <2> QED
    BY <1>5, <1>6, <2>2, <2>4
<1>13. CASE e \in FileEvent("write", Classes) /\ b \in OnWrite(ai, e)
  BY <1>1, <1>9, <1>13, WriteIs
<1>14. CASE e \in FileEvent("delete", {""}) /\ b \in OnDelete(ai, e)
  BY <1>1, <1>9, <1>14, DeleteIs
<1>15. CASE e \in OwnEvent("query") /\ b \in OnQuery(ai, e)
  BY <1>1, <1>9, <1>15, QueryIs
<1>16. CASE e \in OwnEvent("sync") /\ b = ai
  BY <1>16
<1> QED
  BY <1>1, <1>10, <1>11, <1>12, <1>13, <1>14, <1>15, <1>16, HandleIs

\* What the engine has of what file f is owed.
Holds(f, a, W) ==
  CASE f = "ai"     -> ModelsHeld(a.markov, a.scores, W)
    [] f = "neural" -> NetHeld(a.net.vocab, W)
    [] f = "memory" -> MemoryHeld(a.memory, W)

LEMMA HasAll == \A a, w : EngineHolds(a, w) <=> \A f \in Files : Holds(f, a, w[f])
BY FilesAre DEF EngineHolds, Holds

\* An engine with tables of their sizes, and names, has all of itself.
Fits(a) == FewTransitions(a.markov) /\ FewScores(a.scores) /\ NamesHeld(a.memory)

LEMMA HasFits ==
  ASSUME NEW a, NEW w, EngineHolds(a, w)
  PROVE  Fits(a)
BY DEF Fits, EngineHolds, ModelsHeld, MemoryHeld

LEMMA OwedModels ==
  ASSUME NEW a, IsAI(a)
  PROVE  Owed(a)["ai"].markov = a.markov /\ Owed(a)["ai"].scores = a.scores
<1>1. Owed(a)["ai"] = [markov |-> a.markov, scores |-> a.scores]
  BY OwedIs
<1> QED
  BY <1>1

LEMMA HasSelf ==
  ASSUME NEW a, IsAI(a), NEW t, DaysRight(a.memory, t), Fits(a), NEW f \in Files
  PROVE  Holds(f, a, {Owed(a)[f]})
<1>1. /\ a.markov \in Maps(Ino \X Ino, Nat) /\ a.scores \in Maps(Ino, Nat)
      /\ a.net.vocab \in Seq(Ino) /\ a.memory \in Memories
  BY DEF IsAI, Transitions, Counts
<1>2. CASE f = "ai"
  <2>1. Covers(a.markov, a.markov, MaxEntries) /\ Covers(a.scores, a.scores, MaxTracked)
    BY <1>1, CoversSelf
  <2>2. Owed(a)[f].markov = a.markov /\ Owed(a)[f].scores = a.scores
    BY <1>2, OwedModels
  <2> QED
    BY <1>2, <2>1, <2>2 DEF Holds, ModelsHeld, Fits
<1>3. CASE f = "neural"
  <2>1. Owed(a)[f] = a.net.vocab
    BY <1>3, OwedIs
  <2>2. IsPrefix(a.net.vocab, a.net.vocab)
    BY <1>1 DEF IsPrefix
  <2> QED
    BY <1>3, <2>1, <2>2 DEF Holds, NetHeld
<1>4. CASE f = "memory"
  <2>1. Owed(a)[f] = a.memory
    BY <1>4, OwedIs
  <2>2. Recalls(a.memory, a.memory)
    BY <1>1, RemembersSelf DEF Fits
  <2> QED
    BY <1>4, <2>1, <2>2 DEF Holds, MemoryHeld, Fits
<1> QED
  BY <1>2, <1>3, <1>4, FilesAre

\* Nothing is no less than nothing.
LEMMA NoneFits ==
  /\ FewTransitions(<<>>) /\ FewScores(<<>>)
  /\ \A t \in Nat : /\ NamesHeld(Mem!NewMemory(t))
                    /\ \A u \in Nat : Recalls(Mem!NewMemory(t), Mem!NewMemory(u))
<1>1. DOMAIN <<>> = {} /\ Cardinality({}) = 0
  BY FS_EmptySet
<1>2. FewTransitions(<<>>) /\ FewScores(<<>>)
  BY <1>1, Constants DEF FewTransitions, FewScores
<1>3. \A t : /\ Mem!NewMemory(t).opens = <<>> /\ Mem!NewMemory(t).names = <<>>
             /\ Mem!NewMemory(t).total = 0 /\ Mem!NewMemory(t).pairs = <<>>
  BY DEF Mem!NewMemory
<1>4. \A t : NamesHeld(Mem!NewMemory(t)) /\ \A u : Recalls(Mem!NewMemory(t), Mem!NewMemory(u))
  BY <1>1, <1>3 DEF NamesHeld, Remembers, Recalls
<1> QED
  BY <1>2, <1>4

LEMMA NoneHolds == \A f \in Files : FileHolds(f, {}, {})
<1>1. load({}).markov = <<>> /\ load({}).scores = <<>>
  BY DEF load, NoFile, save, Nothing
<1>2. FileHolds("ai", {}, {}) /\ FileHolds("neural", {}, {}) /\ FileHolds("memory", {}, {})
  BY <1>1, NoneFits DEF FileHolds, ModelsHeld, NetHeld, MemoryHeld
<1> QED
  BY <1>2, FilesAre

\* The ways of losing that are let pass.
LossesPass == {"unpublished", "torn", "cap"} \subseteq Excuse

\* The files have what is owed, and the engine too, which has published when it
\* has handled an event.
Learning ==
  /\ \A f \in Files : FileHolds(f, disk[f], owed[f])
  /\ mode # "unmounted" => EngineHolds(ai, owed)
  /\ mode \in Files /\ alive => queue # <<>> \/ shared # {}

LEMMA InitLearns == Init => Learning
<1> SUFFICES ASSUME Init PROVE Learning
  OBVIOUS
<1>1. /\ \A f \in Files : disk[f] = {} /\ owed[f] = {}
      /\ mode = "mounted" /\ ai = Reindexed(NewAI, files) /\ now \in Nat
  BY InitTyped DEF Init, NoFile, Typed
<1>2. /\ ai.markov = <<>> /\ ai.scores = <<>> /\ ai.memory = Mem!NewMemory(Today)
  BY <1>1 DEF Reindexed, NewAI
<1>3. Today \in Nat
  BY <1>1, TodayIs
<1>4. EngineHolds(ai, owed)
  BY <1>1, <1>2, <1>3, NoneFits, FilesAre DEF EngineHolds, ModelsHeld, NetHeld, MemoryHeld
<1> QED
  BY <1>1, <1>4, NoneHolds, FilesAre DEF Learning

\* A file that is there has what it has.
LEMMA FileHas == \A x : load({x}) = x /\ load_neural({x}).vocab = x
<1> TAKE x
<1>1. {x} # NoFile /\ The({x}) = x
  BY TheIs DEF NoFile
<1>2. load({x}) = x
  BY <1>1 DEF load
<1>3. load_neural({x}) = Mod!from_bytes(x)
  BY <1>1 DEF load_neural
<1> QED
  BY <1>2, <1>3 DEF Mod!from_bytes, Mod!NewNetwork

\* What is written of an engine that has published has what it has.
LEMMA WrittenHolds ==
  ASSUME Typed, mode \in Files, shared = {Kept(ai)}, NEW c \in Contents[mode],
         NEW W, Holds(mode, ai, W)
  PROVE  FileHolds(mode, c, W)
<1>1. IsAI(ai) /\ Published = Kept(ai)
  BY PublishedIs DEF Typed
<1>2. /\ Kept(ai).markov = ai.markov /\ Kept(ai).scores = ai.scores
      /\ Kept(ai).vocab = ai.net.vocab /\ Kept(ai).memory = ai.memory
  BY <1>1, KeptIs
<1>3. CASE mode = "ai"
  <2>1. c = {[markov |-> ai.markov, scores |-> ai.scores]}
    BY <1>1, <1>2, <1>3 DEF Contents, save
  <2>2. load(c).markov = ai.markov /\ load(c).scores = ai.scores
    <3>1. load(c) = [markov |-> ai.markov, scores |-> ai.scores]
      BY <2>1, FileHas
    <3> QED
      BY <3>1
  <2> QED
    BY <1>3, <2>2 DEF FileHolds, Holds
<1>4. CASE mode = "neural"
  <2>1. c = {ai.net.vocab}
    BY <1>1, <1>2, <1>4 DEF Contents, save_neural
  <2>2. load_neural(c).vocab = ai.net.vocab
    BY <2>1, FileHas
  <2> QED
    BY <1>4, <2>2 DEF FileHolds, Holds
<1>5. CASE mode = "memory"
  <2>1. PICK m \in Mem!Reread(ai.memory) : c = {m}
    BY <1>1, <1>2, <1>5 DEF Contents, save_memory
  <2>2. IsReread(ai.memory, m) /\ ai.memory \in Memories
    BY <1>1, RereadIs DEF IsAI
  <2>3. MemoryHeld(m, W)
    BY <1>5, <2>2, RereadHolds DEF Holds
  <2> QED
    BY <1>5, <2>1, <2>3 DEF FileHolds
<1> QED
  BY <1>3, <1>4, <1>5, FilesAre

LEMMA SaveLearns ==
  ASSUME Typed, Remembering, Learning, Save, LossesPass
  PROVE  Learning'
<1>1. /\ mode \in Files /\ IsDisk(disk) /\ IsDisk(owed) /\ IsAI(ai)
      /\ DOMAIN disk = Files /\ DOMAIN owed = Files
      /\ shared = {} \/ shared = {Kept(ai)}
  BY DiskIs DEF Typed, Save, Remembering
<1>2. PICK c \in Contents[mode] : disk' = [disk EXCEPT ![mode] = c]
  BY DEF Save
<1>3. owed' = IF shared = {} /\ mode # "memory" THEN [owed EXCEPT ![mode] = {}]
              ELSE IF queue = <<>> /\ alive THEN [owed EXCEPT ![mode] = {Owed(ai)[mode]}]
              ELSE owed
  <2>1. Let("unpublished")
    BY DEF LossesPass, Let
  <2> QED
    BY <2>1 DEF Save, NoFile
<1>4. /\ \A f \in Files : FileHolds(f, disk[f], owed[f])
      /\ EngineHolds(ai, owed) /\ (alive => queue # <<>> \/ shared # {})
  BY <1>1, FilesAre DEF Learning
<1>5. \A f \in Files \ {mode} : disk'[f] = disk[f] /\ owed'[f] = owed[f]
  BY <1>1, <1>2, <1>3
<1>6. disk'[mode] = c
  BY <1>1, <1>2
<1>7. \A f \in Files : Holds(f, ai, owed[f])
  BY <1>4, HasAll
<1>8. Holds(mode, ai, {Owed(ai)[mode]})
  BY <1>1, <1>4, HasFits, HasSelf DEF Remembering, MemoryRight
<1>9. ASSUME shared = {Kept(ai)}
      PROVE  Holds(mode, ai, owed'[mode]) /\ FileHolds(mode, disk'[mode], owed'[mode])
  <2>1. shared # {}
    BY <1>9
  <2>2. owed'[mode] = {Owed(ai)[mode]} \/ owed'[mode] = owed[mode]
    BY <1>1, <1>3, <2>1
  <2>3. Holds(mode, ai, owed'[mode])
    BY <1>1, <1>7, <1>8, <2>2
  <2> QED
    BY <1>1, <1>2, <1>6, <1>9, <2>3, WrittenHolds
<1>10. ASSUME shared = {}, mode = "memory"
       PROVE  Holds(mode, ai, owed'[mode]) /\ FileHolds(mode, disk'[mode], owed'[mode])
  <2>1. owed' = owed
    BY <1>3, <1>4, <1>10
  <2>2. c = disk["memory"]
    BY <1>10 DEF Contents, save_memory
  <2> QED
    BY <1>1, <1>4, <1>6, <1>7, <1>10, <2>1, <2>2
<1>11. ASSUME shared = {}, mode # "memory"
       PROVE  Holds(mode, ai, owed'[mode]) /\ FileHolds(mode, disk'[mode], owed'[mode])
  <2>1. owed'[mode] = {}
    BY <1>1, <1>3, <1>11
  <2>2. Published = Nothing
    BY <1>11, PublishedIs
  <2>3. CASE mode = "ai"
    <3>1. c = {save(Nothing)}
      BY <2>2, <2>3 DEF Contents
    <3>2. load(c).markov = <<>> /\ load(c).scores = <<>>
      <4>1. load(c) = save(Nothing)
        BY <3>1, FileHas
      <4> QED
        BY <4>1 DEF save, Nothing
    <3> QED
      BY <1>4, <1>6, <2>1, <2>3, <3>2, HasFits, NoneFits DEF Holds, FileHolds, ModelsHeld, Fits
  <2>4. CASE mode = "neural"
    BY <2>1, <2>4 DEF Holds, FileHolds, NetHeld
  <2> QED
    BY <1>1, <1>11, <2>3, <2>4, FilesAre
<1>12. Holds(mode, ai, owed'[mode]) /\ FileHolds(mode, disk'[mode], owed'[mode])
  BY <1>1, <1>9, <1>10, <1>11
<1>13. \A f \in Files : Holds(f, ai, owed'[f]) /\ FileHolds(f, disk'[f], owed'[f])
  BY <1>4, <1>5, <1>7, <1>12
<1>14. EngineHolds(ai, owed')
  BY <1>13, HasAll
<1>15. CASE mode = "memory"
  <2>1. mode' = "unmounted"
    BY <1>15 DEF Save, Ended
  <2> QED
    BY <1>13, <2>1, FilesAre DEF Learning
<1>16. CASE mode # "memory"
  <2>1. UNCHANGED <<ai, shared, queue, alive>>
    BY <1>16 DEF Save
  <2> QED
    BY <1>4, <1>13, <1>14, <2>1 DEF Learning
<1> QED
  BY <1>15, <1>16

\* A mount has what the files have, and the files what it has.
LEMMA LoadHolds ==
  ASSUME Typed, Remembering, Learning, mode = "unmounted", NEW order \in Orders(disk),
         NEW a, a = Restored(disk, order)
  PROVE  /\ IsAI(a) /\ Fits(a) /\ DaysRight(a.memory, Today)
         /\ \A f \in Files : FileHolds(f, disk[f], {Owed(a)[f]})
         /\ \A f \in Files : Holds(f, a, owed[f])
<1> DEFINE saved == load(disk["ai"])
           net == load_neural(disk["neural"])
           memory == load_memory(disk["memory"])
<1>1. IsDisk(disk) /\ IsDisk(owed) /\ now \in Nat /\ Today \in Nat
  BY TodayIs DEF Typed
<1>2. /\ IsAI(a) /\ a.markov = Mod!Replayed(saved.markov, order) /\ a.scores = saved.scores
      /\ a.net = net /\ a.memory = memory
  BY <1>1, RestoredIs
<1>3. saved \in SavedAI /\ order \in SetToSeqs(DOMAIN saved.markov)
  BY <1>1, LoadedIs DEF Orders
<1>4. disk["memory"] = {} \/ \E m \in Memories : disk["memory"] = {m}
  BY <1>1 DEF IsDisk
<1>5. disk["memory"] = {} => memory = Mem!NewMemory(Today)
  BY <1>1, LoadedIs
<1>6. \A m : disk["memory"] = {m} => memory = m
  BY <1>1, LoadedIs
<1> HIDE DEF saved, net, memory
<1>7. /\ ModelsHeld(saved.markov, saved.scores, owed["ai"])
      /\ NetHeld(net.vocab, owed["neural"])
      /\ \A m \in disk["memory"] : MemoryHeld(m, owed["memory"])
      /\ disk["memory"] = {} => \A t \in Nat : MemoryHeld(Mem!NewMemory(t), owed["memory"])
  BY FilesAre DEF Learning, FileHolds, saved, net
<1>8. MemoryHeld(memory, owed["memory"])
  BY <1>1, <1>4, <1>5, <1>6, <1>7
<1>9. DaysRight(memory, Today)
  <2>1. \A d : disk["memory"] = {d} => MemoryRight(d, Today)
    BY DEF Remembering
  <2> QED
    BY <1>1, <1>4, <1>5, <1>6, <2>1, MemoryNew DEF MemoryRight
<1>10. saved.markov \in Few /\ saved.markov \in Transitions /\ saved.scores \in Counts
  BY <1>3, <1>7 DEF SavedAI, ModelsHeld, Few
<1>11. /\ a.markov \in Few /\ Counts2(saved.markov, a.markov)
       /\ Covers(a.markov, saved.markov, MaxEntries)
  BY <1>2, <1>3, <1>10, ReplayHolds
<1>12. Fits(a)
  BY <1>2, <1>7, <1>8, <1>11 DEF Fits, Few, ModelsHeld, MemoryHeld
<1>13. FileHolds("ai", disk["ai"], {Owed(a)["ai"]})
  <2>1. Owed(a)["ai"].markov = a.markov /\ Owed(a)["ai"].scores = saved.scores
    BY <1>2, OwedModels
  <2>2. Covers(saved.scores, saved.scores, MaxTracked)
    BY <1>10, CoversSelf DEF Counts
  <2>3. Covers(saved.markov, a.markov, MaxEntries)
    BY <1>11 DEF Covers
  <2>4. ModelsHeld(saved.markov, saved.scores, {Owed(a)["ai"]})
    BY <1>7, <2>1, <2>2, <2>3 DEF ModelsHeld
  <2> QED
    BY <2>4 DEF FileHolds, saved
<1>14. FileHolds("neural", disk["neural"], {Owed(a)["neural"]})
  <2>1. Holds("neural", a, {Owed(a)["neural"]})
    BY <1>2, <1>9, <1>12, HasSelf, FilesAre
  <2>2. NetHeld(net.vocab, {Owed(a)["neural"]})
    BY <1>2, <2>1 DEF Holds
  <2> QED
    BY <2>2 DEF FileHolds, net
<1>15. FileHolds("memory", disk["memory"], {Owed(a)["memory"]})
  <2>1. Owed(a)["memory"] = memory
    BY <1>2, OwedIs
  <2>2. CASE disk["memory"] = {}
    <3>1. \A t \in Nat : MemoryHeld(Mem!NewMemory(t), {memory})
      BY <1>1, <1>5, <2>2, NoneFits DEF MemoryHeld
    <3> QED
      BY <2>1, <2>2, <3>1 DEF FileHolds
  <2>3. ASSUME NEW m \in Memories, disk["memory"] = {m}
        PROVE  FileHolds("memory", disk["memory"], {Owed(a)["memory"]})
    <3>1. memory = m
      BY <1>6, <2>3
    <3>2. Holds("memory", a, {Owed(a)["memory"]})
      BY <1>2, <1>9, <1>12, HasSelf, FilesAre
    <3>3. MemoryHeld(m, {Owed(a)["memory"]})
      BY <1>2, <3>1, <3>2 DEF Holds
    <3> QED
      BY <2>3, <3>3 DEF FileHolds
  <2> QED
    BY <1>4, <2>2, <2>3
<1>16. Holds("ai", a, owed["ai"])
  <2>1. \A o \in owed["ai"] : o.markov \in Transitions
    BY <1>1, OwedAre
  <2>2. ASSUME NEW o \in owed["ai"] PROVE Covers(a.markov, o.markov, MaxEntries)
    <3>1. Covers(saved.markov, o.markov, MaxEntries)
      BY <1>7, <2>2 DEF ModelsHeld
    <3>2. CASE Full(a.markov, MaxEntries)
      BY <3>2 DEF Covers
    <3>3. CASE ~Full(a.markov, MaxEntries)
      <4>1. Counts2(a.markov, saved.markov)
        BY <1>11, <3>3 DEF Covers
      <4>2. DOMAIN a.markov = DOMAIN saved.markov
        BY <1>11, <4>1 DEF Counts2
      <4>3. Counts2(saved.markov, o.markov)
        BY <3>1, <3>3, <4>2 DEF Covers, Full
      <4>4. /\ \A x \in DOMAIN a.markov : a.markov[x] \in Nat
            /\ \A x \in DOMAIN saved.markov : saved.markov[x] \in Nat
            /\ \A x \in DOMAIN o.markov : o.markov[x] \in Nat
        BY <1>10, <1>11, <2>1, MapsIs DEF Few, Transitions
      <4>5. Counts2(a.markov, o.markov)
        BY <4>1, <4>3, <4>4 DEF Counts2
      <4> QED
        BY <4>5 DEF Covers
    <3> QED
      BY <3>2, <3>3
  <2> QED
    BY <1>2, <1>7, <1>11, <2>2 DEF Holds, ModelsHeld, Few
<1>17. Holds("neural", a, owed["neural"]) /\ Holds("memory", a, owed["memory"])
  BY <1>2, <1>7, <1>8 DEF Holds
<1> QED
  BY <1>2, <1>9, <1>12, <1>13, <1>14, <1>15, <1>16, <1>17, FilesAre

\* Requests only add to the queue, and the unmount leaves something in it.
LEMMA QuietSends ==
  ASSUME Typed, [Next]_vars, ~Handle, ~Save, ~Crash, ~Load, mode' \in Files, alive
  PROVE  queue' # <<>> \/ (mode' = mode /\ queue' = queue)
<1>1. \A kinds, e : Request(kinds, e) => mode' = "mounted"
  BY DEF Request
<1>2. mode' # "mounted"
  BY FilesAre
<1>3. ~(\E i \in Ino : Open(i) \/ Release(i) \/ Unlink(i))
  BY <1>1, <1>2 DEF Open, Release, Unlink
<1>4. \A i, W, c, p : ~Write(i, W, c, p)
  BY <1>1, <1>2 DEF Write
<1>5. (\A n : ~Create(n)) /\ (\A w : ~Query(w))
  BY <1>1, <1>2 DEF Create, Query
<1>6. \A i, n : ~Rename(i, n) /\ ~Mkdir(n) /\ ~Rmdir(i)
  BY <1>2 DEF Rename, Mkdir, Rmdir, Silent
<1>7. CASE Destroy
  <2>1. PICK d, e \in Events : queue' = Append(Append(queue, d), e)
    BY <1>7, DestroySends
  <2>2. queue \in Seq(Events)
    BY DEF Typed
  <2>3. Append(queue, d) \in Seq(Events)
    BY <2>2, AppendProperties
  <2> QED
    BY <2>1, <2>3, AppendProperties
<1>8. CASE Tick
  BY <1>8 DEF Tick
<1>9. CASE UNCHANGED vars
  BY <1>9 DEF vars
<1>10. CASE Next
  BY <1>3, <1>4, <1>5, <1>6, <1>7, <1>8, <1>10, Zenon DEF Next
<1> QED
  BY <1>9, <1>10

LEMMA StepLearns == Typed /\ Remembering /\ Learning /\ LossesPass /\ [Next]_vars => Learning'
<1> SUFFICES ASSUME Typed, Remembering, Learning, LossesPass, [Next]_vars PROVE Learning'
  OBVIOUS
<1>1. /\ IsDisk(disk) /\ IsDisk(owed) /\ IsAI(ai) /\ DaysRight(ai.memory, Today)
      /\ DOMAIN disk = Files /\ DOMAIN owed = Files
  BY DiskIs DEF Typed, Remembering, MemoryRight
<1>2. /\ \A f \in Files : FileHolds(f, disk[f], owed[f])
      /\ mode # "unmounted" => EngineHolds(ai, owed)
      /\ mode \in Files /\ alive => queue # <<>> \/ shared # {}
  BY DEF Learning
<1>3. CASE Handle
  <2> DEFINE e == Head(queue)
  <2>1. /\ e \in Events /\ mode # "unmounted" /\ UNCHANGED <<disk, mode, owed>>
        /\ \/ ~alive' /\ UNCHANGED ai
           \/ ai' \in handle_event(ai, e) /\ shared' = {Kept(ai')}
    BY <1>3, HandledIs, FilesAre
  <2> HIDE DEF e
  <2>2. EngineHolds(ai', owed)
    BY <1>1, <1>2, <2>1, HandledHolds
  <2>3. \A x : {x} # {}
    OBVIOUS
  <2> QED
    BY <1>2, <2>1, <2>2, <2>3 DEF Learning
<1>4. CASE Save
  BY <1>4, SaveLearns
<1>5. CASE Crash
  <2>1. mode' = "unmounted" /\ "unmounted" \notin Files
    BY <1>5, FilesAre DEF Crash, Ended
  <2>2. \/ UNCHANGED <<disk, owed>>
        \/ /\ mode \in Files /\ disk' = [disk EXCEPT ![mode] = {}]
           /\ owed' = [owed EXCEPT ![mode] = {}]
    BY <1>5 DEF Crash, LossesPass, Let, NoFile
  <2>3. \A f \in Files : \/ disk'[f] = disk[f] /\ owed'[f] = owed[f]
                         \/ disk'[f] = {} /\ owed'[f] = {}
    BY <1>1, <2>2
  <2>4. \A f \in Files : FileHolds(f, disk'[f], owed'[f])
    BY <1>2, <2>3, NoneHolds
  <2> QED
    BY <2>1, <2>4 DEF Learning
<1>6. CASE Load
  <2>1. PICK order \in Orders(disk), text \in [Remaining -> SUBSET Word] :
          /\ ai' = Reindexed(Restored(disk, order), FoundWith(text))
          /\ owed' = [f \in Files |-> {Owed(Restored(disk, order))[f]}]
    BY <1>6, MountIs
  <2>2. mode = "unmounted" /\ mode' = "mounted" /\ UNCHANGED disk /\ mode' \notin Files
    BY <1>6, FilesAre DEF Load
  <2> DEFINE a == Restored(disk, order)
  <2>3. /\ IsAI(a) /\ Fits(a) /\ DaysRight(a.memory, Today)
        /\ \A f \in Files : FileHolds(f, disk[f], {Owed(a)[f]})
    BY <2>2, LoadHolds
  <2>4. /\ ai'.markov = a.markov /\ ai'.scores = a.scores /\ ai'.net = a.net
        /\ ai'.memory = a.memory
    BY <1>6, <2>1, MountIs, LoadedAI
  <2>5. \A f \in Files : owed'[f] = {Owed(a)[f]}
    BY <2>1
  <2> HIDE DEF a
  <2>6. \A f \in Files : Holds(f, a, owed'[f])
    BY <2>3, <2>5, HasSelf
  <2>7. EngineHolds(a, owed')
    BY <2>6, HasAll
  <2>8. EngineHolds(ai', owed')
    BY <2>4, <2>7 DEF EngineHolds
  <2> QED
    BY <2>2, <2>3, <2>5, <2>8 DEF Learning
<1>7. CASE ~Handle /\ ~Save /\ ~Crash /\ ~Load
  <2>1. Quiet
    BY <1>7, Steps
  <2>2. UNCHANGED <<ai, shared, alive, disk, owed>> /\ (mode' # "unmounted" => mode # "unmounted")
    BY <2>1 DEF Quiet
  <2>3. mode' \in Files /\ alive => queue' # <<>> \/ shared # {}
    BY <1>2, <1>7, QuietSends
  <2> QED
    BY <1>2, <2>2, <2>3 DEF Learning
<1> QED
  BY <1>3, <1>4, <1>5, <1>6, <1>7

\* Over any unmounts, crashes and mounts the files have what earlier mounts have
\* learned and, where the engine kept up, what this one has, in whatever order
\* load takes the transitions: counted as far as the tables hold, if it has
\* published before an unmount, and the process has not died in a write
\* (flush_all; load and save, ai/persist.rs; memory_persist.rs).
THEOREM LearnedIsKept ==
  ASSUME LossesPass
  PROVE  Spec => []LearnedSurvives
<1>1. Typed /\ Remembering /\ Learning => LearnedSurvives
  <2> SUFFICES ASSUME Typed, Remembering, Learning, mode = "unmounted", NEW order \in Orders(disk)
               PROVE  LET a == Restored(disk, order)
                          full(f, n) == Cardinality(DOMAIN f) = n
                      IN  /\ \A o \in owed.ai :
                               /\ \A e \in DOMAIN o.markov :
                                    \/ e \in DOMAIN a.markov /\ a.markov[e] >= o.markov[e]
                                    \/ Let("cap") /\ full(a.markov, MaxEntries)
                               /\ \A i \in DOMAIN o.scores :
                                    \/ i \in DOMAIN a.scores /\ a.scores[i] >= o.scores[i]
                                    \/ full(a.scores, MaxTracked)
                          /\ \A o \in owed.neural : IsPrefix(o, a.net.vocab)
                          /\ \A o \in owed.memory : Remembers(a.memory, o)
    BY Zenon DEF LearnedSurvives
  <2> DEFINE a == Restored(disk, order)
  <2>1. /\ Holds("ai", a, owed["ai"]) /\ Holds("neural", a, owed["neural"])
        /\ Holds("memory", a, owed["memory"])
    BY LoadHolds, FilesAre
  <2>2. Let("cap")
    BY DEF LossesPass, Let
  <2> HIDE DEF a
  <2>3. /\ \A o \in owed["ai"] : /\ Covers(a.markov, o.markov, MaxEntries)
                                 /\ Covers(a.scores, o.scores, MaxTracked)
        /\ \A o \in owed["neural"] : IsPrefix(o, a.net.vocab)
        /\ \A o \in owed["memory"] : Remembers(a.memory, o)
    BY <2>1 DEF Holds, ModelsHeld, NetHeld, MemoryHeld, Recalls
  <2> QED
    BY <2>2, <2>3 DEF Covers, Counts2, Full, a
<1>2. Typed /\ Remembering /\ Learning /\ [Next]_vars => (Typed /\ Remembering /\ Learning)'
  BY StepTyped, StepRemembers, StepLearns
<1> QED
  BY <1>1, <1>2, InitTyped, InitRemembers, InitLearns, PTL DEF Spec

-----------------------------------------------------------------------------
(***************************************************************************)
(* The brief.                                                              *)
(***************************************************************************)
\* The suggestions of one kind in a set of them, and the files they name.
Said(brief, kind) == {s \in brief : s.kind = kind}
Told(brief, kind) == UNION {s.files : s \in Said(brief, kind)}

\* How often it was asked to open or write file i, by tally.
Asked(tally, i) == Value(tally, i, 0)

\* The brief is drawn from the memory and from what was asked in the mount.
BriefRight(a, asks) ==
  LET m == a.memory
      Ever(i) == Cardinality({k \in DOMAIN m.history.opens : m.history.opens[k].ino = i})
      Idle(i) == a.computed_at - Mem!LastDay(Mem!DaysOf(m, i))
      opens(i) == Asked(asks["open"], i)
      writes(i) == Asked(asks["write"], i)
      seen == {i \in DOMAIN m.names : opens(i) > 0}
      groups == Mem!Components(m)
      neglected == {g \in groups : \A i \in g : Idle(i) >= NeglectDays}
  IN  m.cut = {} =>
        /\ Told(a.brief, "stall") =
             {i \in seen : Ever(i) >= StallOpens /\ opens(i) >= 2 /\ writes(i) <= 1}
        /\ Told(a.brief, "continuity") = {i \in seen : opens(i) >= 2 /\ writes(i) > 0}
        /\ Told(a.brief, "focus") = {i \in seen : opens(i) >= 3 /\ writes(i) = 0}
        /\ \A s \in Said(a.brief, "neglect") : \E g \in neglected : NamesOf(s, g, NeglectFiles)
        /\ \A g \in neglected : \E s \in Said(a.brief, "neglect") : NamesOf(s, g, NeglectFiles)
        /\ \A s \in Said(a.brief, "prewarm") : \E g \in groups : NamesOf(s, g, WarmFiles)

LEMMA SameJarCard == \A S : Jar!Cardinality(S) = Cardinality(S)
BY DEF Jar!Cardinality, Cardinality

OpensOf(m, g) == Jar!MapThenSumSet(LAMBDA j : Jar!Opens(m, j), g)

\* A project of files that were all opened was active.
LEMMA ActiveIs ==
  ASSUME NEW m, NEW g, IsFiniteSet(g), \A j \in g : Jar!Opens(m, j) \in Nat /\ Jar!Opens(m, j) >= 1
  PROVE  OpensOf(m, g) >= Cardinality(g)
<1> DEFINE d == [j \in g |-> Jar!Opens(m, j)]
           Rec(h) == h = [t \in SUBSET g |->
                            IF t = {} THEN 0 ELSE Jar!Opens(m, Pick(t)) + h[t \ {Pick(t)}]]
           h == CHOOSE f : Rec(f)
<1>1. d \in [g -> Nat] /\ \A x \in g : d[x] >= 1
  OBVIOUS
<1>2. PICK f \in [SUBSET g -> Nat] : IsSum(f, g, d)
  BY <1>1, SumDefined
<1>3. \A t \in SUBSET g : t # {} => /\ Pick(t) \in g /\ d[Pick(t)] = Jar!Opens(m, Pick(t))
                                   /\ t \ {Pick(t)} \in SUBSET g
  BY PickIn
<1>4. Rec(f)
  <2>1. \A t \in SUBSET g : t # {} => f[t] = Jar!Opens(m, Pick(t)) + f[t \ {Pick(t)}]
    <3> SUFFICES ASSUME NEW t \in SUBSET g, t # {}
                 PROVE  f[t] = Jar!Opens(m, Pick(t)) + f[t \ {Pick(t)}]
      OBVIOUS
    <3>1. f[t] = f[t \ {Pick(t)}] + d[Pick(t)]
      BY <1>2 DEF IsSum
    <3>2. f[t \ {Pick(t)}] \in Nat /\ d[Pick(t)] \in Nat
      BY <1>1, <1>2, <1>3
    <3> HIDE DEF d
    <3> QED
      BY <1>3, <3>1, <3>2
  <2>2. f[{}] = 0
    BY <1>2 DEF IsSum
  <2> HIDE DEF d
  <2> QED
    BY <1>2, <2>1, <2>2
<1>5. Rec(h)
  BY <1>4, Zenon
<1>6. OpensOf(m, g) = h[g]
  BY DEF OpensOf, Jar!MapThenSumSet, Jar!MapThenFoldSet, Pick
<1> HIDE DEF h
<1>7. h[{}] = 0 /\ \A t \in SUBSET g : t # {} => h[t] = d[Pick(t)] + h[t \ {Pick(t)}]
  BY <1>3, <1>5, Zenon
<1> HIDE DEF d
<1>8. h[g] >= Cardinality(g)
  BY <1>1, <1>7, SumAtLeast
<1> QED
  BY <1>6, <1>8, Zenon

\* All suggestions of A are of one kind.
OfKind(A, kind) == \A s \in A : s.kind = kind

LEMMA SaidIs ==
  ASSUME NEW A, NEW kind, OfKind(A, kind)
  PROVE  /\ Said(A, kind) = A
         /\ \A k : k # kind => Said(A, k) = {}
BY DEF OfKind, Said

LEMMA SaidAll ==
  ASSUME NEW A, NEW B, NEW C, NEW D, NEW E, NEW brief, brief = A \cup B \cup C \cup D \cup E, NEW k
  PROVE  Said(brief, k) = Said(A, k) \cup Said(B, k) \cup Said(C, k) \cup Said(D, k) \cup Said(E, k)
BY DEF Said

Neglected(w) == {p \in w.projects : p.days >= NeglectDays /\ p.active}

LEMMA AnalyseIs ==
  ASSUME NEW w, NEW brief \in Jar!analyse(w)
  PROVE  /\ Told(brief, "stall") = DOMAIN w.stalls
         /\ Told(brief, "continuity") = w.unfinished
         /\ Told(brief, "focus") =
              IF w.last_session.kind = "debugging" THEN w.last_session.reopened ELSE {}
         /\ \A s \in Said(brief, "neglect") :
              \E p \in Neglected(w) : s.files \in Jar!First(p.files, NeglectFiles)
         /\ \A p \in Neglected(w) :
              \E s \in Said(brief, "neglect") : s.files \in Jar!First(p.files, NeglectFiles)
         /\ \A s \in Said(brief, "prewarm") :
              \E p \in w.projects : s.files \in Jar!First(p.files, WarmFiles)
<1> DEFINE S == Jar!check_stalls(w)
           C == Jar!check_continuity(w)
           F == Jar!check_focus_pattern(w)
<1>1. PICK N \in Jar!check_neglect(w), warm \in Jar!check_prewarm(w) :
        brief = S \cup C \cup N \cup F \cup warm
  BY DEF Jar!analyse
<1>2. \A x, kind, is : /\ Jar!Suggestion(x, kind, is).kind = kind
                       /\ Jar!Suggestion(x, kind, is).files = is
  BY DEF Jar!Suggestion
<1>3. OfKind(S, "stall") /\ UNION {s.files : s \in S} = DOMAIN w.stalls
  <2> DEFINE made(i) == Jar!Suggestion(IF w.stalls[i] >= 5 THEN "high" ELSE "medium", "stall", {i})
  <2>1. S = {made(i) : i \in DOMAIN w.stalls}
    BY Zenon DEF Jar!check_stalls
  <2>2. \A i : made(i).kind = "stall" /\ made(i).files = {i}
    BY <1>2, ZenonT(30)
  <2> HIDE DEF S, made
  <2>3. \A s \in S : s.kind = "stall" /\ \E i \in DOMAIN w.stalls : s.files = {i}
    BY <2>1, <2>2
  <2>4. \A i \in DOMAIN w.stalls : \E s \in S : s.files = {i}
    BY <2>1, <2>2
  <2>5. ASSUME NEW s \in S, NEW x \in s.files PROVE x \in DOMAIN w.stalls
    BY <2>3
  <2>6. ASSUME NEW i \in DOMAIN w.stalls PROVE \E s \in S : i \in s.files
    BY <2>4
  <2>7. UNION {s.files : s \in S} = DOMAIN w.stalls
    BY <2>5, <2>6
  <2> QED
    BY <2>3, <2>7 DEF OfKind
<1>4. OfKind(C, "continuity") /\ UNION {s.files : s \in C} = w.unfinished
  BY <1>2 DEF Jar!check_continuity, OfKind
<1>5. /\ OfKind(N, "neglect")
      /\ \A s \in N : \E p \in Neglected(w) : s.files \in Jar!First(p.files, NeglectFiles)
      /\ \A p \in Neglected(w) : \E s \in N : s.files \in Jar!First(p.files, NeglectFiles)
  <2> DEFINE made(p, f) ==
               Jar!Suggestion(IF p.days > 14 THEN "medium" ELSE "low", "neglect", f[p])
  <2>1. PICK f : /\ \A p \in Neglected(w) : f[p] \in Jar!First(p.files, NeglectFiles)
                 /\ N = {made(p, f) : p \in Neglected(w)}
    BY Zenon DEF Jar!check_neglect, Neglected
  <2>2. \A p : made(p, f).kind = "neglect" /\ made(p, f).files = f[p]
    BY <1>2
  <2> HIDE DEF made
  <2> QED
    BY <2>1, <2>2 DEF OfKind
<1>6. /\ OfKind(F, "focus")
      /\ UNION {s.files : s \in F} =
           IF w.last_session.kind = "debugging" THEN w.last_session.reopened ELSE {}
  <2>1. CASE w.last_session.kind = "debugging"
    <3>1. F = {Jar!Suggestion("medium", "focus", w.last_session.reopened)}
      BY <2>1 DEF Jar!check_focus_pattern
    <3> QED
      BY <1>2, <2>1, <3>1 DEF OfKind
  <2>2. CASE w.last_session.kind # "debugging"
    <3>1. F = {Jar!Suggestion("low", "focus", {})} \/ F = {}
      BY <2>2 DEF Jar!check_focus_pattern
    <3> QED
      BY <1>2, <2>2, <3>1 DEF OfKind
  <2> QED
    BY <2>1, <2>2
<1>7. /\ OfKind(warm, "prewarm")
      /\ \A s \in warm : \E p \in w.projects : s.files \in Jar!First(p.files, WarmFiles)
  <2>1. \/ warm = {}
        \/ \E p \in w.projects : \E F_ \in Jar!First(p.files, WarmFiles) :
             warm = {Jar!Suggestion("low", "prewarm", F_)}
    <3> DEFINE primary == {p \in w.projects : p.name \in w.last_session.primary}
               Warms(p) == {{Jar!Suggestion("low", "prewarm", F_)} : F_ \in Jar!First(p.files, WarmFiles)}
    <3>1. Jar!check_prewarm(w) = IF primary = {} THEN {{}} ELSE UNION {Warms(p) : p \in primary}
      BY Zenon DEF Jar!check_prewarm
    <3>2. \A p \in primary : p \in w.projects
      OBVIOUS
    <3>3. \A p : \A x \in Warms(p) : \E F_ \in Jar!First(p.files, WarmFiles) :
            x = {Jar!Suggestion("low", "prewarm", F_)}
      OBVIOUS
    <3> HIDE DEF primary, Warms
    <3>4. warm = {} \/ \E p \in primary : warm \in Warms(p)
      BY <3>1
    <3> QED
      BY <3>2, <3>3, <3>4
  <2>2. CASE warm = {}
    BY <2>2 DEF OfKind
  <2>3. ASSUME NEW p \in w.projects, NEW F_ \in Jar!First(p.files, WarmFiles),
               warm = {Jar!Suggestion("low", "prewarm", F_)}
        PROVE  /\ OfKind(warm, "prewarm")
               /\ \A s \in warm : s.files \in Jar!First(p.files, WarmFiles)
    BY <1>2, <2>3 DEF OfKind
  <2> QED
    BY <2>1, <2>2, <2>3
<1> HIDE DEF S, C, F
<1>8. \A k : Said(brief, k) = Said(S, k) \cup Said(C, k) \cup Said(N, k) \cup Said(F, k) \cup Said(warm, k)
  BY <1>1, SaidAll
<1>9. Said(S, "stall") = S /\ \A k : k # "stall" => Said(S, k) = {}
  BY <1>3, SaidIs
<1>10. Said(C, "continuity") = C /\ \A k : k # "continuity" => Said(C, k) = {}
  BY <1>4, SaidIs
<1>11. Said(N, "neglect") = N /\ \A k : k # "neglect" => Said(N, k) = {}
  BY <1>5, SaidIs
<1>12. Said(F, "focus") = F /\ \A k : k # "focus" => Said(F, k) = {}
  BY <1>6, SaidIs
<1>13. Said(warm, "prewarm") = warm /\ \A k : k # "prewarm" => Said(warm, k) = {}
  BY <1>7, SaidIs
<1>14. /\ Said(brief, "stall") = S
       /\ Said(brief, "continuity") = C
       /\ Said(brief, "neglect") = N
       /\ Said(brief, "focus") = F
       /\ Said(brief, "prewarm") = warm
  BY <1>8, <1>9, <1>10, <1>11, <1>12, <1>13
<1>15. /\ Told(brief, "stall") = UNION {s.files : s \in S}
       /\ Told(brief, "continuity") = UNION {s.files : s \in C}
       /\ Told(brief, "focus") = UNION {s.files : s \in F}
  BY <1>14 DEF Told
<1> QED
  BY <1>3, <1>4, <1>5, <1>6, <1>7, <1>14, <1>15

\* The first files of a group are as many as may be named.
LEMMA NamedFirstIs ==
  ASSUME NEW s, NEW g, IsFiniteSet(g), NEW most \in Nat, s.files \in Jar!First(g, most)
  PROVE  NamesOf(s, g, most)
<1>1. Cardinality(g) \in Nat /\ \A S : Jar!Cardinality(S) = Cardinality(S)
  BY FS_CardinalityType, SameJarCard
<1>2. CASE Cardinality(g) <= most
  <2>1. s.files = g
    BY <1>1, <1>2, Zenon DEF Jar!First
  <2> QED
    BY <1>1, <1>2, <2>1 DEF NamesOf
<1>3. CASE ~(Cardinality(g) <= most)
  <2>1. s.files \in SUBSET g /\ Jar!Cardinality(s.files) = most
    BY <1>1, <1>3, Zenon DEF Jar!First
  <2> QED
    BY <1>1, <1>3, <2>1 DEF NamesOf
<1> QED
  BY <1>2, <1>3

LEMMA JarMaxIs ==
  ASSUME NEW S \in SUBSET Nat, IsFiniteSet(S), S # {}
  PROVE  Jar!Max(S) \in S /\ \A x \in S : Jar!Max(S) >= x
<1>1. MaxOf(S) \in S /\ \A x \in S : x <= MaxOf(S)
  BY MaxOfIs
<1>2. \E x \in S : \A y \in S : x >= y
  BY <1>1
<1> QED
  BY <1>2, Zenon DEF Jar!Max

\* What the memory has of a file that it has not been cut of.
LEMMA FileSaid ==
  ASSUME NEW m \in Memories, NEW t \in Nat, DaysRight(m, t), NamesHeld(m), m.cut = {},
         NEW i \in DOMAIN m.names
  PROVE  /\ i \in Ino /\ i \in DOMAIN m.opens /\ i \in DOMAIN m.streaks
         /\ m.opens[i] \in Nat /\ m.opens[i] >= 1
         /\ m.opens[i] = Cardinality({k \in DOMAIN m.history.opens : m.history.opens[k].ino = i})
         /\ m.streaks[i].last = Mem!LastDay(Mem!DaysOf(m, i))
         /\ m.streaks[i].last \in Nat /\ m.streaks[i].last >= 2
<1> DEFINE h == m.history.opens
<1>1. /\ m.names \in Maps(Ino, Name) /\ h \in Seq(Opened) /\ m.streaks \in Maps(Ino, Streak)
      /\ m.opens \in Maps(Ino, Nat)
  BY DEF Memories
<1>2. i \in Ino
  BY <1>1, MapsIs
<1>3. i \in DOMAIN m.opens /\ i \in Ino \ m.cut
  BY <1>2 DEF NamesHeld
<1>4. /\ Of(h, i) # {} /\ i \in DOMAIN m.streaks /\ FileRight(m, i)
      /\ \A k \in 1 .. Len(h) : h[k].day >= 2
  BY <1>3 DEF DaysRight
<1>5. m.opens[i] = Cardinality(Of(h, i)) /\ m.opens[i] \in Nat /\ m.opens[i] >= 1
  <2>1. Cardinality(Of(h, i)) \in Nat /\ Cardinality(Of(h, i)) # 0
    BY <1>1, <1>4, HistoryFinite
  <2> QED
    BY <1>4, <2>1 DEF FileRight
<1>6. m.streaks[i].last \in DaysIn(h, i) /\ m.streaks[i].last \in Nat
  <2>1. m.streaks[i] \in Streak
    BY <1>1, <1>4, MapsIs
  <2>2. StreakRight(m.streaks[i], DaysIn(h, i))
    BY <1>4 DEF FileRight
  <2> QED
    BY <2>1, <2>2 DEF Streak, StreakRight
<1>7. m.streaks[i].last >= 2
  BY <1>4, <1>6 DEF DaysIn, Of
<1>8. /\ m.opens[i] = Cardinality({k \in DOMAIN h : h[k].ino = i})
      /\ m.streaks[i].last = Mem!LastDay(Mem!DaysOf(m, i))
  <2>1. Mem!DaysRemembered(m) /\ i \in DOMAIN m.opens \ m.cut
    BY <1>3, DaysAreRight
  <2>2. /\ m.opens[i] = Mem!Cardinality({k \in DOMAIN h : h[k].ino = i})
        /\ m.streaks[i] = [current |-> Mem!RunTo(Mem!DaysOf(m, i), Mem!LastDay(Mem!DaysOf(m, i))),
                           longest |-> IF Mem!LongestRun(Mem!DaysOf(m, i)) > 1
                                       THEN Mem!LongestRun(Mem!DaysOf(m, i)) ELSE 0,
                           last |-> Mem!LastDay(Mem!DaysOf(m, i))]
    BY <2>1, Zenon DEF Mem!DaysRemembered
  <2> QED
    BY <2>2, SameMemCard
<1> QED
  BY <1>2, <1>3, <1>4, <1>5, <1>6, <1>7, <1>8

\* The projects of the brief are those found, each as old as its last opened file.
LEMMA ProjectIs ==
  ASSUME NEW m \in Memories, NEW t \in Nat, DaysRight(m, t), NamesHeld(m), m.cut = {},
         NEW g \in Mem!Components(m), NEW i, NEW p, p = Jar!Project(m, g, i, t)
  PROVE  /\ p.files = g /\ p.active /\ IsFiniteSet(g)
         /\ p.days >= NeglectDays <=>
              \A j \in g : t - Mem!LastDay(Mem!DaysOf(m, j)) >= NeglectDays
<1>1. g \subseteq DOMAIN m.names /\ g # {} /\ IsFiniteSet(g)
  <2>1. g \in SUBSET DOMAIN m.names /\ Cardinality(g) >= 2
    BY SameMemCard DEF Mem!Components
  <2>2. DOMAIN m.names \subseteq Ino
    BY MapsIs DEF Memories
  <2>3. IsFiniteSet(g)
    BY <2>1, <2>2, Constants, FS_Subset
  <2> QED
    BY <2>1, <2>3, FS_EmptySet
<1>2. \A j \in g : /\ j \in DOMAIN m.opens /\ m.opens[j] \in Nat /\ m.opens[j] >= 1
                   /\ j \in DOMAIN m.streaks
                   /\ m.streaks[j].last = Mem!LastDay(Mem!DaysOf(m, j))
                   /\ m.streaks[j].last \in Nat /\ m.streaks[j].last >= 2
  BY <1>1, FileSaid
<1>3. \A j \in g : Jar!Opens(m, j) \in Nat /\ Jar!Opens(m, j) >= 1
  BY <1>2 DEF Jar!Opens, Jar!Value
<1>4. /\ p.files = g /\ p.days = Jar!days_inactive(m, g, t)
      /\ p.active = (OpensOf(m, g) >= Jar!Cardinality(g))
  BY DEF Jar!Project, OpensOf
<1>5. p.active
  <2>1. OpensOf(m, g) >= Cardinality(g)
    BY <1>1, <1>3, ActiveIs
  <2>2. Jar!Cardinality(g) = Cardinality(g)
    BY SameJarCard
  <2> QED
    BY <1>4, <2>1, <2>2, Zenon
<1> DEFINE L == Jar!LastActive(m, g)
           last(j) == m.streaks[j].last
<1>6. L \in {last(j) : j \in g} /\ \A j \in g : L >= last(j)
  <2> DEFINE S == {last(j) : j \in g}
  <2>1. S \in SUBSET Nat /\ S # {} /\ IsFiniteSet(S)
    <3>1. IsFiniteSet(S)
      <4> DEFINE f == [j \in g |-> last(j)]
      <4>1. f \in Surjection(g, S)
        BY DEF Surjection
      <4> QED
        BY <1>1, <4>1, FS_Surjection
    <3> QED
      BY <1>1, <1>2, <3>1
  <2>2. L = Jar!Max(S)
    <3>1. \A j \in g : Jar!Value(m.streaks, j, [last |-> 0]).last = last(j)
      BY <1>2 DEF Jar!Value
    <3>2. {Jar!Value(m.streaks, j, [last |-> 0]).last : j \in g} = S
      BY <3>1
    <3> HIDE DEF S
    <3> QED
      BY <3>2 DEF Jar!LastActive
  <2> HIDE DEF S, L
  <2>3. L \in S /\ \A x \in S : L >= x
    BY <2>1, <2>2, JarMaxIs
  <2> QED
    BY <2>3 DEF S
<1> HIDE DEF L
<1>7. L \in Nat /\ L >= 2
  BY <1>2, <1>6
<1>8. p.days = t - L
  BY <1>4, <1>7 DEF Jar!days_inactive, L
<1>9. \A j \in g : t - L <= t - last(j)
  BY <1>2, <1>6, <1>7
<1>10. p.days >= NeglectDays <=> \A j \in g : t - last(j) >= NeglectDays
  <2>1. NeglectDays \in Nat
    BY Constants
  <2>2. ASSUME p.days >= NeglectDays, NEW j \in g PROVE t - last(j) >= NeglectDays
    BY <1>2, <1>7, <1>8, <1>9, <2>1, <2>2
  <2>3. ASSUME \A j \in g : t - last(j) >= NeglectDays PROVE p.days >= NeglectDays
    BY <1>6, <1>8, <2>3
  <2> QED
    BY <2>2, <2>3
<1>11. \A j \in g : last(j) = Mem!LastDay(Mem!DaysOf(m, j))
  BY <1>2
<1> HIDE DEF last
<1>12. (\A j \in g : t - last(j) >= NeglectDays) <=>
       \A j \in g : t - Mem!LastDay(Mem!DaysOf(m, j)) >= NeglectDays
  BY <1>11
<1> QED
  BY <1>1, <1>4, <1>5, <1>10, <1>12

\* The brief made at the end of a session, of what was opened and written in it.
LEMMA BriefIs ==
  ASSUME NEW m \in Memories, NEW t \in Nat, DaysRight(m, t), NamesHeld(m),
         NEW opens \in Counts, NEW writes \in Counts, NEW asks,
         \A i \in Ino : /\ Asked(asks["open"], i) = Asked(opens, i)
                        /\ Asked(asks["write"], i) = Asked(writes, i),
         NEW w \in Jar!recompute(m, opens, writes, Mem!Components(m), t),
         NEW a, a.memory = m, a.brief \in Jar!analyse(w), a.computed_at = t
  PROVE  BriefRight(a, asks)
<1> DEFINE G == Mem!Components(m)
           Ever(i) == Cardinality({k \in DOMAIN m.history.opens : m.history.opens[k].ino = i})
           Idle(i) == t - Mem!LastDay(Mem!DaysOf(m, i))
           o(i) == Asked(asks["open"], i)
           r(i) == Asked(asks["write"], i)
           seen == {i \in DOMAIN m.names : o(i) > 0}
           idle == {g \in G : \A i \in g : Idle(i) >= NeglectDays}
<1> SUFFICES ASSUME m.cut = {}
             PROVE  /\ Told(a.brief, "stall") =
                         {i \in seen : Ever(i) >= StallOpens /\ o(i) >= 2 /\ r(i) <= 1}
                    /\ Told(a.brief, "continuity") = {i \in seen : o(i) >= 2 /\ r(i) > 0}
                    /\ Told(a.brief, "focus") = {i \in seen : o(i) >= 3 /\ r(i) = 0}
                    /\ \A s \in Said(a.brief, "neglect") :
                         \E g \in idle : NamesOf(s, g, NeglectFiles)
                    /\ \A g \in idle :
                         \E s \in Said(a.brief, "neglect") : NamesOf(s, g, NeglectFiles)
                    /\ \A s \in Said(a.brief, "prewarm") :
                         \E g \in G : NamesOf(s, g, WarmFiles)
  BY Zenon DEF BriefRight
<1>1. PICK projects \in Jar!Projects(m, G, t) :
        \E session \in Jar!profile_session(m, opens, writes, projects) :
          w = [projects |-> projects, last_session |-> session,
               stalls |-> [i \in Jar!detect_stalls(m, opens, writes) |-> opens[i]],
               unfinished |-> Jar!Unfinished(m, opens, writes)]
  <2> DEFINE Made(p) ==
        {[projects |-> p, last_session |-> session,
          stalls |-> [i \in Jar!detect_stalls(m, opens, writes) |-> opens[i]],
          unfinished |-> Jar!Unfinished(m, opens, writes)] :
            session \in Jar!profile_session(m, opens, writes, p)}
  <2>1. w \in UNION {Made(p) : p \in Jar!Projects(m, G, t)}
    BY Zenon DEF Jar!recompute
  <2>2. PICK p \in Jar!Projects(m, G, t) : w \in Made(p)
    <3> HIDE DEF Made, G
    <3> QED
      BY <2>1
  <2> QED
    BY <2>2
<1>2. PICK session \in Jar!profile_session(m, opens, writes, projects) :
        w = [projects |-> projects, last_session |-> session,
             stalls |-> [i \in Jar!detect_stalls(m, opens, writes) |-> opens[i]],
             unfinished |-> Jar!Unfinished(m, opens, writes)]
  BY <1>1
<1>3. /\ w.projects = projects /\ w.last_session = session
      /\ DOMAIN w.stalls = Jar!detect_stalls(m, opens, writes)
      /\ w.unfinished = Jar!Unfinished(m, opens, writes)
  BY <1>2
<1>4. /\ session.kind = Jar!Kind(m, opens, writes)
      /\ session.reopened = Jar!Reopened(m, opens, writes)
  BY DEF Jar!profile_session
<1>5. \A i \in DOMAIN m.names :
        /\ o(i) = (IF i \in DOMAIN opens THEN opens[i] ELSE 0) /\ o(i) \in Nat
        /\ r(i) = Jar!Value(writes, i, 0) /\ r(i) \in Nat
        /\ Jar!Opens(m, i) = Ever(i)
  <2> TAKE i \in DOMAIN m.names
  <2>1. i \in Ino /\ i \in DOMAIN m.opens /\ m.opens[i] = Ever(i)
    BY FileSaid
  <2>2. o(i) = Asked(opens, i) /\ r(i) = Asked(writes, i)
    BY <2>1
  <2>3. Jar!Opens(m, i) = m.opens[i]
    BY <2>1 DEF Jar!Opens, Jar!Value
  <2>4. /\ i \in DOMAIN opens => opens[i] \in Nat
        /\ i \in DOMAIN writes => writes[i] \in Nat
    BY MapsIs DEF Counts
  <2> QED
    BY <2>1, <2>2, <2>3, <2>4, SameHelpers DEF Asked, Value
<1>6. Jar!detect_stalls(m, opens, writes) =
        {i \in seen : Ever(i) >= StallOpens /\ o(i) >= 2 /\ r(i) <= 1}
  <2> HIDE DEF Ever, o, r
  <2> QED
    BY <1>5 DEF Jar!detect_stalls, Jar!Named
<1>7. Jar!Unfinished(m, opens, writes) = {i \in seen : o(i) >= 2 /\ r(i) > 0}
  <2> HIDE DEF Ever, o, r
  <2> QED
    BY <1>5 DEF Jar!Unfinished, Jar!Named
<1>8. Jar!Reopened(m, opens, writes) = {i \in seen : o(i) >= 3 /\ r(i) = 0}
  <2> HIDE DEF Ever, o, r
  <2> QED
    BY <1>5 DEF Jar!Reopened, Jar!Named
<1>9. (IF session.kind = "debugging" THEN session.reopened ELSE {}) = Jar!Reopened(m, opens, writes)
  <2>1. CASE Jar!Reopened(m, opens, writes) # {}
    <3>1. Jar!Kind(m, opens, writes) = "debugging"
      BY <2>1 DEF Jar!Kind
    <3> QED
      BY <1>4, <3>1
  <2>2. CASE Jar!Reopened(m, opens, writes) = {}
    BY <1>4, <2>2
  <2> QED
    BY <2>1, <2>2
<1>10. PICK first : projects = {Jar!Project(m, g, first[g], t) : g \in G}
  <2> HIDE DEF G
  <2> QED
    BY DEF Jar!Projects
<1> DEFINE Made(g) == Jar!Project(m, g, first[g], t)
<1>11. \A g \in G : /\ Made(g).files = g /\ Made(g).active /\ IsFiniteSet(g)
                    /\ Made(g).days >= NeglectDays <=> \A i \in g : Idle(i) >= NeglectDays
  <2> HIDE DEF Made
  <2> QED
    BY ProjectIs DEF Made
<1>12. projects = {Made(g) : g \in G}
  BY <1>10
<1> HIDE DEF Made, G, Idle
<1>13. /\ \A p \in Neglected(w) : p.files \in idle /\ IsFiniteSet(p.files)
       /\ \A g \in idle : \E p \in Neglected(w) : p.files = g
  BY <1>3, <1>11, <1>12 DEF Neglected
<1>14. \A p \in w.projects : p.files \in G /\ IsFiniteSet(p.files)
  BY <1>3, <1>11, <1>12
<1> HIDE DEF idle
<1> HIDE DEF Ever, o, r, seen
<1> DEFINE brief == a.brief
<1>15. brief \in Jar!analyse(w)
  OBVIOUS
<1> HIDE DEF brief
<1>16. /\ Told(brief, "stall") = DOMAIN w.stalls
       /\ Told(brief, "continuity") = w.unfinished
       /\ Told(brief, "focus") =
            IF w.last_session.kind = "debugging" THEN w.last_session.reopened ELSE {}
       /\ \A s \in Said(brief, "neglect") :
            \E p \in Neglected(w) : s.files \in Jar!First(p.files, NeglectFiles)
       /\ \A p \in Neglected(w) :
            \E s \in Said(brief, "neglect") : s.files \in Jar!First(p.files, NeglectFiles)
       /\ \A s \in Said(brief, "prewarm") :
            \E p \in w.projects : s.files \in Jar!First(p.files, WarmFiles)
  BY <1>15, AnalyseIs
<1>17. Told(brief, "focus") = Jar!Reopened(m, opens, writes)
  BY <1>3, <1>9, <1>16, Zenon
<1>18. NeglectFiles \in Nat /\ WarmFiles \in Nat
  BY Constants
<1>19. \A s \in Said(brief, "neglect") : \E g \in idle : NamesOf(s, g, NeglectFiles)
  BY <1>13, <1>16, <1>18, NamedFirstIs
<1>20. \A g \in idle : \E s \in Said(brief, "neglect") : NamesOf(s, g, NeglectFiles)
  BY <1>13, <1>16, <1>18, NamedFirstIs
<1>21. \A s \in Said(brief, "prewarm") : \E g \in G : NamesOf(s, g, WarmFiles)
  BY <1>14, <1>16, <1>18, NamedFirstIs
<1> QED
  BY <1>3, <1>6, <1>7, <1>8, <1>16, <1>17, <1>19, <1>20, <1>21, Zenon DEF brief

-----------------------------------------------------------------------------
\* The events of a kind about file i that wait in q.
Waiting(q, kind, i) == {k \in 1 .. Len(q) : q[k].kind = kind /\ q[k].ino = i}
Waits(q, kind, i) == Cardinality(Waiting(q, kind, i))

LEMMA WaitsNat ==
  ASSUME NEW q \in Seq(Events), NEW kind, NEW i
  PROVE  /\ IsFiniteSet(Waiting(q, kind, i)) /\ Waits(q, kind, i) \in Nat
         /\ Waiting(q, kind, i) = {} => Waits(q, kind, i) = 0
<1>1. Len(q) \in Nat
  OBVIOUS
<1>2. IsFiniteSet(1 .. Len(q)) /\ Waiting(q, kind, i) \in SUBSET (1 .. Len(q))
  BY <1>1, FS_Interval DEF Waiting
<1> QED
  BY <1>2, FS_Subset, FS_CardinalityType, FS_EmptySet DEF Waits

LEMMA WaitsAppend ==
  ASSUME NEW q \in Seq(Events), NEW e \in Events, NEW kind, NEW i
  PROVE  Waits(Append(q, e), kind, i) =
           Waits(q, kind, i) + (IF e.kind = kind /\ e.ino = i THEN 1 ELSE 0)
<1> DEFINE n == Len(q)
           p == Append(q, e)
<1>1. /\ p \in Seq(Events) /\ Len(p) = n + 1 /\ p[n + 1] = e /\ n \in Nat
      /\ \A k \in 1 .. n : p[k] = q[k]
  BY QueueAll
<1>2. 1 .. Len(p) = (1 .. n) \cup {n + 1} /\ n + 1 \notin 1 .. n
  BY <1>1
<1> HIDE DEF n, p
<1>3. n + 1 \notin Waiting(q, kind, i)
  BY <1>2 DEF Waiting, n
<1>4. CASE e.kind = kind /\ e.ino = i
  <2>1. Waiting(p, kind, i) = Waiting(q, kind, i) \cup {n + 1}
    BY <1>1, <1>2, <1>4 DEF Waiting, n
  <2>2. IsFiniteSet(Waiting(q, kind, i))
    BY WaitsNat
  <2>3. Cardinality(Waiting(q, kind, i) \cup {n + 1}) = Cardinality(Waiting(q, kind, i)) + 1
    BY <1>3, <2>2, FS_AddElement
  <2> QED
    BY <1>4, <2>1, <2>3 DEF Waits, p
<1>5. CASE ~(e.kind = kind /\ e.ino = i)
  <2>1. Waiting(p, kind, i) = Waiting(q, kind, i)
    BY <1>1, <1>2, <1>5 DEF Waiting, n
  <2> QED
    BY <1>5, <2>1, WaitsNat DEF Waits, p
<1> QED
  BY <1>4, <1>5

LEMMA WaitsTail ==
  ASSUME NEW q \in Seq(Events), q # <<>>, NEW kind, NEW i
  PROVE  Waits(q, kind, i) =
           Waits(Tail(q), kind, i) + (IF Head(q).kind = kind /\ Head(q).ino = i THEN 1 ELSE 0)
<1> DEFINE n == Len(q)
           t == Tail(q)
           W == Waiting(t, kind, i)
           moved == {k + 1 : k \in W}
           f == [k \in W |-> k + 1]
<1>1. /\ t \in Seq(Events) /\ Len(t) = n - 1 /\ n \in Nat /\ n >= 1 /\ Head(q) = q[1]
      /\ \A k \in 1 .. Len(t) : t[k] = q[k + 1]
  BY QueueAll
<1>2. W \in SUBSET (1 .. n - 1) /\ IsFiniteSet(W)
  <2>1. IsFiniteSet(W)
    <3> HIDE DEF t
    <3> QED
      BY <1>1, WaitsNat
  <2> HIDE DEF t
  <2> QED
    BY <1>1, <2>1 DEF Waiting
<1> HIDE DEF t, W
<1>3. f \in Bijection(W, moved)
  <2>1. f \in [W -> moved] /\ \A k \in W : f[k] = k + 1
    OBVIOUS
  <2>2. \A a, b \in W : f[a] = f[b] => a = b
    BY <1>2, <2>1
  <2>3. \A y \in moved : \E k \in W : f[k] = y
    OBVIOUS
  <2> HIDE DEF f, moved
  <2> QED
    BY <2>1, <2>2, <2>3 DEF Bijection, Injection, Surjection, IsInjective
<1>4. IsFiniteSet(moved) /\ Cardinality(moved) = Cardinality(W)
  <2> HIDE DEF moved, f
  <2> QED
    BY <1>2, <1>3, FS_Bijection DEF ExistsBijection
<1>5. 1 \notin moved
  BY <1>2
<1>6. \A k \in 2 .. n : k \in moved <=> q[k].kind = kind /\ q[k].ino = i
  <2> TAKE k \in 2 .. n
  <2>1. k - 1 \in 1 .. Len(t) /\ t[k - 1] = q[k]
    <3>1. k - 1 \in 1 .. Len(t) /\ (k - 1) + 1 = k
      BY <1>1
    <3> QED
      BY <1>1, <3>1
  <2>2. k \in moved <=> k - 1 \in W
    BY <1>2
  <2> QED
    BY <2>1, <2>2 DEF W, Waiting
<1>7. moved \subseteq 2 .. n
  BY <1>1, <1>2
<1>8. 1 .. n = {1} \cup (2 .. n)
  BY <1>1
<1> HIDE DEF n, moved, f
<1>9. CASE Head(q).kind = kind /\ Head(q).ino = i
  <2>1. Waiting(q, kind, i) = moved \cup {1}
    BY <1>1, <1>6, <1>7, <1>8, <1>9 DEF Waiting, n
  <2> QED
    BY <1>4, <1>5, <1>9, <2>1, FS_AddElement DEF Waits, W, t
<1>10. CASE ~(Head(q).kind = kind /\ Head(q).ino = i)
  <2>1. Waiting(q, kind, i) = moved
    BY <1>1, <1>6, <1>7, <1>8, <1>10 DEF Waiting, n
  <2>2. Waits(t, kind, i) \in Nat
    BY <1>1, WaitsNat
  <2> QED
    BY <1>4, <1>10, <2>1, <2>2 DEF Waits, W, t
<1> QED
  BY <1>9, <1>10

\* The memory has the names of the files it has, and so has the one in the file.
Naming == NamesHeld(ai.memory) /\ \A m \in disk["memory"] : NamesHeld(m)

LEMMA NamesAre == \A m : NamesHeld(m) <=> MemoryHeld(m, {})
BY DEF MemoryHeld

LEMMA InitNames == Init => Naming
<1> SUFFICES ASSUME Init PROVE Naming
  OBVIOUS
<1>1. ai.memory = Mem!NewMemory(Today) /\ disk["memory"] = {} /\ Today \in Nat
  BY InitTyped, TodayIs, FilesAre DEF Init, NoFile, Typed, Reindexed, NewAI
<1> QED
  BY <1>1, NoneFits DEF Naming

\* One event leaves the memory the names of its files.
LEMMA HandledNames ==
  ASSUME Typed, DaysRight(ai.memory, Today), NamesHeld(ai.memory),
         NEW e \in Events, NEW b \in handle_event(ai, e)
  PROVE  NamesHeld(b.memory)
<1>1. IsAI(ai) /\ ai.memory \in Memories /\ now \in Nat /\ Today \in Nat
  BY TodayIs DEF Typed, IsAI
<1>2. b.memory = ai.memory => NamesHeld(b.memory)
  OBVIOUS
<1>3. "memory" \in Fields
  BY DEF Fields
<1>4. CASE e \in FileEvent("open", {""}) /\ b \in OnOpen(ai, e)
  <2>1. b.memory = Mem!record_access(ai.memory, e.ino, e.name, Today)
    BY <1>1, <1>4, OpenIs
  <2>2. e.ino \in Ino /\ e.name \in Name
    BY <1>4 DEF FileEvent
  <2>3. MemoryHeld(ai.memory, {}) /\ {} \in SUBSET Memories
    BY NamesAre
  <2>4. MemoryHeld(b.memory, {})
    BY <1>1, <2>1, <2>2, <2>3, AccessHolds
  <2> QED
    BY <2>4, NamesAre
<1>5. CASE e \in OwnEvent("end") /\ b \in OnEnd(ai)
  <2>1. b.memory = Mem!close_session(ai.memory)
    BY <1>1, <1>5, EndIs DEF IsEnded
  <2>2. IsClosed(ai.memory, b.memory)
    BY <1>1, <2>1, SessionIs
  <2> QED
    BY <2>2 DEF IsClosed, NamesHeld
<1>6. CASE e \in FileEvent("write", Classes) /\ b \in OnWrite(ai, e)
  <2>1. SameBut(ai, b, {"guard", "acc", "index", "writes"})
    BY <1>1, <1>6, WriteIs
  <2> QED
    BY <1>2, <1>3, <2>1 DEF SameBut
<1>7. CASE e \in FileEvent("close", {""}) /\ b \in OnClose(ai, e)
  <2>1. SameBut(ai, b, {"scores", "acc"})
    BY <1>1, <1>7, CloseIs
  <2> QED
    BY <1>2, <1>3, <2>1 DEF SameBut
<1>8. CASE e \in FileEvent("delete", {""}) /\ b \in OnDelete(ai, e)
  <2>1. SameBut(ai, b, {"index", "acc"})
    BY <1>1, <1>8, DeleteIs
  <2> QED
    BY <1>2, <1>3, <2>1 DEF SameBut
<1>9. CASE e \in OwnEvent("query") /\ b \in OnQuery(ai, e)
  <2>1. SameBut(ai, b, {"answer"})
    BY <1>1, <1>9, QueryIs
  <2> QED
    BY <1>2, <1>3, <2>1 DEF SameBut
<1>10. CASE e \in OwnEvent("sync") /\ b = ai
  BY <1>2, <1>10
<1> QED
  BY <1>1, <1>4, <1>5, <1>6, <1>7, <1>8, <1>9, <1>10, HandleIs

LEMMA StepNames == Typed /\ Remembering /\ Naming /\ [Next]_vars => Naming'
<1> SUFFICES ASSUME Typed, Remembering, Naming, [Next]_vars PROVE Naming'
  OBVIOUS
<1>1. /\ IsAI(ai) /\ ai.memory \in Memories /\ IsDisk(disk) /\ DOMAIN disk = Files
      /\ now \in Nat /\ Today \in Nat /\ DaysRight(ai.memory, Today)
      /\ shared = {} \/ shared = {Kept(ai)}
  BY DiskIs, TodayIs DEF Typed, Remembering, MemoryRight, IsAI
<1>2. NamesHeld(ai.memory) /\ \A m \in disk["memory"] : NamesHeld(m)
  BY DEF Naming
<1>3. CASE Handle
  <2> DEFINE e == Head(queue)
  <2>1. /\ e \in Events /\ UNCHANGED disk
        /\ UNCHANGED ai \/ ai' \in handle_event(ai, e)
    BY <1>3, HandledIs
  <2> HIDE DEF e
  <2>2. CASE UNCHANGED ai
    BY <1>2, <2>1, <2>2 DEF Naming
  <2>3. ai' \in handle_event(ai, e) => NamesHeld(ai'.memory)
    BY <1>1, <1>2, <2>1, HandledNames
  <2> QED
    BY <1>2, <2>1, <2>2, <2>3 DEF Naming
<1>4. \A t \in Nat : NamesHeld(Mem!NewMemory(t))
  BY NoneFits
<1>5. ASSUME Ended("unmounted"), UNCHANGED now, \A m \in disk'["memory"] : NamesHeld(m)
      PROVE  Naming'
  <2>1. ai' = NewAI /\ NewAI.memory = Mem!NewMemory(Today)
    BY <1>1, <1>5, NewAIIs DEF Ended
  <2> QED
    BY <1>1, <1>4, <1>5, <2>1 DEF Naming
<1>6. CASE Save
  <2>1. PICK c \in Contents[mode] : disk' = [disk EXCEPT ![mode] = c]
    BY <1>6 DEF Save
  <2>2. mode \in Files /\ UNCHANGED now
    BY <1>6 DEF Save
  <2>3. CASE mode = "memory"
    <3>1. disk'["memory"] = c /\ c \in save_memory /\ Ended("unmounted")
      BY <1>1, <1>6, <2>1, <2>2, <2>3 DEF Contents, Save
    <3>2. CASE shared = {}
      BY <1>2, <1>5, <2>2, <3>1, <3>2 DEF save_memory
    <3>3. CASE shared # {}
      <4>1. shared = {Kept(ai)} /\ Published = Kept(ai) /\ Kept(ai).memory = ai.memory
        BY <1>1, <3>3, PublishedIs, KeptIs
      <4>2. PICK m \in Mem!Reread(ai.memory) : c = {m}
        BY <3>1, <3>3, <4>1 DEF save_memory
      <4>3. MemoryHeld(m, {})
        <5>1. IsReread(ai.memory, m) /\ MemoryHeld(ai.memory, {})
          BY <1>1, <1>2, <4>2, RereadIs, NamesAre
        <5> QED
          BY <1>1, <5>1, RereadHolds
      <4>4. \A x \in disk'["memory"] : NamesHeld(x)
        BY <3>1, <4>2, <4>3, NamesAre
      <4> QED
        BY <1>5, <2>2, <3>1, <4>4
    <3> QED
      BY <3>2, <3>3
  <2>4. CASE mode # "memory"
    <3>1. disk'["memory"] = disk["memory"] /\ ai' = ai
      BY <1>1, <1>6, <2>1, <2>2, <2>4, FilesAre DEF Save
    <3> QED
      BY <1>2, <3>1 DEF Naming
  <2> QED
    BY <2>3, <2>4
<1>7. CASE Crash
  <2>1. Ended("unmounted") /\ UNCHANGED now
    BY <1>7 DEF Crash
  <2>2. disk' = disk \/ (mode \in Files /\ disk' = [disk EXCEPT ![mode] = {}])
    BY <1>7 DEF Crash, NoFile
  <2>3. disk'["memory"] = disk["memory"] \/ disk'["memory"] = {}
    BY <1>1, <2>2, FilesAre
  <2> QED
    BY <1>2, <1>5, <2>1, <2>3
<1>8. CASE Load
  <2>1. PICK order \in Orders(disk), text \in [Remaining -> SUBSET Word] :
          ai' = Reindexed(Restored(disk, order), FoundWith(text))
    BY <1>8, MountIs
  <2>2. ai'.memory = load_memory(disk["memory"])
    BY <1>1, <1>8, <2>1, MountIs, LoadedAI, RestoredIs
  <2>3. NamesHeld(ai'.memory)
    <3>1. CASE disk["memory"] = {}
      BY <1>1, <1>4, <2>2, <3>1, LoadedIs
    <3>2. CASE disk["memory"] # {}
      <4>1. PICK d : disk["memory"] = {d}
        BY <1>1, <3>2 DEF IsDisk
      <4> QED
        BY <1>1, <1>2, <2>2, <4>1, LoadedIs
    <3> QED
      BY <3>1, <3>2
  <2>4. UNCHANGED disk
    BY <1>8 DEF Load
  <2> QED
    BY <1>2, <2>3, <2>4 DEF Naming
<1>9. CASE ~Handle /\ ~Save /\ ~Crash /\ ~Load
  <2>1. UNCHANGED <<ai, disk>>
    BY <1>9, Steps DEF Quiet
  <2> QED
    BY <1>2, <2>1 DEF Naming
<1> QED
  BY <1>3, <1>6, <1>7, <1>8, <1>9

\* What was asked of each file is what the engine has counted and what waits.
Asking ==
  \A i \in Ino :
    /\ Asked(asked["open"], i) = Asked(ai.opens, i) + Waits(queue, "open", i)
    /\ Asked(asked["write"], i) = Asked(ai.writes, i) + Waits(queue, "write", i)

\* A session ends with the unmount, and nothing is sent after that.
EndLast ==
  \A k \in 1 .. Len(queue) : queue[k].kind = "end" => mode = "ai" /\ k >= Len(queue) - 1

\* Until the session ends what was asked is counted, and then the brief is right.
Briefing ==
  work = "briefs" /\ alive /\ mode \in {"mounted", "ai"} =>
    /\ EndLast
    /\ mode = "ai" /\ Len(queue) < 2 => BriefRight(ai, asked)
    /\ mode = "mounted" \/ Len(queue) >= 2 => Asking

LEMMA AskedCounted ==
  ASSUME NEW f, NEW x, NEW i
  PROVE  Asked(Counted(f, x), i) = IF i = x THEN Asked(f, i) + 1 ELSE Asked(f, i)
BY DEF Asked, Counted, With, Value

LEMMA AskedNat == \A f \in Counts : \A i : Asked(f, i) \in Nat
BY MapsIs DEF Counts, Asked, Value

\* One event counts an open or a write, if it is not the end of the session.
LEMMA HandledCounts ==
  ASSUME NEW a, IsAI(a), now \in Nat, NEW e \in Events, NEW b \in handle_event(a, e), e.kind # "end"
  PROVE  /\ b.opens = IF e.kind = "open" THEN Counted(a.opens, e.ino) ELSE a.opens
         /\ b.writes = IF e.kind = "write" THEN Counted(a.writes, e.ino) ELSE a.writes
<1>1. {"opens", "writes"} \subseteq Fields
  BY DEF Fields
<1>2. CASE e \in FileEvent("open", {""}) /\ b \in OnOpen(a, e)
  <2>1. /\ SameBut(a, b, {"markov", "last", "scores", "net", "memory", "opens"})
        /\ b.opens = Counted(a.opens, e.ino)
    BY <1>2, OpenIs
  <2> QED
    BY <1>1, <1>2, <2>1 DEF SameBut, FileEvent
<1>3. CASE e \in FileEvent("write", Classes) /\ b \in OnWrite(a, e)
  <2>1. /\ SameBut(a, b, {"guard", "acc", "index", "writes"})
        /\ b.writes = Counted(a.writes, e.ino)
    BY <1>3, WriteIs
  <2> QED
    BY <1>1, <1>3, <2>1 DEF SameBut, FileEvent
<1>4. CASE e \in FileEvent("close", {""}) /\ b \in OnClose(a, e)
  <2>1. SameBut(a, b, {"scores", "acc"})
    BY <1>4, CloseIs
  <2> QED
    BY <1>1, <1>4, <2>1 DEF SameBut, FileEvent
<1>5. CASE e \in FileEvent("delete", {""}) /\ b \in OnDelete(a, e)
  <2>1. SameBut(a, b, {"index", "acc"})
    BY <1>5, DeleteIs
  <2> QED
    BY <1>1, <1>5, <2>1 DEF SameBut, FileEvent
<1>6. CASE e \in OwnEvent("query") /\ b \in OnQuery(a, e)
  <2>1. SameBut(a, b, {"answer"})
    BY <1>6, QueryIs
  <2> QED
    BY <1>1, <1>6, <2>1 DEF SameBut, OwnEvent
<1>7. CASE e \in OwnEvent("sync") /\ b = a
  BY <1>7 DEF OwnEvent
<1>8. e \notin OwnEvent("end")
  BY DEF OwnEvent
<1> QED
  BY <1>2, <1>3, <1>4, <1>5, <1>6, <1>7, <1>8, HandleIs

\* A request is counted as asked and waits.
LEMMA RequestAsks ==
  ASSUME Typed, NEW kinds, NEW e \in Events, Request(kinds, e), work = "briefs", alive,
         e.kind \in {"open", "write", "delete"}, e.ino \in Ino, Asking, EndLast
  PROVE  Asking' /\ EndLast'
<1>1. /\ queue \in Seq(Events) /\ queue' = Append(queue, e) /\ mode = "mounted" /\ mode' = mode
      /\ asked' = [asked EXCEPT ![e.kind] = Counted(@, e.ino)] /\ ai' = ai
      /\ asked \in [{"open", "write", "delete"} -> Counts] /\ IsAI(ai)
  BY RequestIs DEF Typed
<1>2. ASSUME NEW kind \in {"open", "write"}, NEW f \in Counts, NEW i \in Ino,
             Asked(asked[kind], i) = Asked(f, i) + Waits(queue, kind, i)
      PROVE  Asked(asked'[kind], i) = Asked(f, i) + Waits(queue', kind, i)
  <2>1. Waits(queue', kind, i) =
          Waits(queue, kind, i) + (IF e.kind = kind /\ e.ino = i THEN 1 ELSE 0)
    BY <1>1, WaitsAppend
  <2>2. Asked(asked'[kind], i) =
          Asked(asked[kind], i) + (IF e.kind = kind /\ e.ino = i THEN 1 ELSE 0)
    <3>1. asked[kind] \in Counts
      BY <1>1
    <3>2. Asked(asked[kind], i) \in Nat
      BY <3>1, AskedNat
    <3>3. CASE e.kind = kind
      <4>1. asked'[kind] = Counted(asked[kind], e.ino)
        BY <1>1, <3>3
      <4>2. Asked(asked'[kind], i) = IF i = e.ino THEN Asked(asked[kind], i) + 1 ELSE Asked(asked[kind], i)
        BY <4>1, AskedCounted
      <4> QED
        BY <3>2, <3>3, <4>2
    <3>4. CASE e.kind # kind
      <4>1. asked'[kind] = asked[kind]
        BY <1>1, <3>4
      <4> QED
        BY <3>2, <3>4, <4>1
    <3> QED
      BY <3>3, <3>4
  <2>3. Asked(f, i) \in Nat /\ Waits(queue, kind, i) \in Nat
    BY <1>1, AskedNat, WaitsNat
  <2> QED
    BY <1>2, <2>1, <2>2, <2>3
<1>3. ai.opens \in Counts /\ ai.writes \in Counts
  BY <1>1 DEF IsAI
<1>4. Asking'
  BY <1>1, <1>2, <1>3 DEF Asking
<1>5. EndLast'
  <2>1. /\ Len(queue') = Len(queue) + 1 /\ queue'[Len(queue) + 1] = e /\ Len(queue) \in Nat
        /\ \A k \in 1 .. Len(queue) : queue'[k] = queue[k]
    BY <1>1, QueueAll
  <2> SUFFICES ASSUME NEW k \in 1 .. Len(queue'), queue'[k].kind = "end" PROVE FALSE
    BY DEF EndLast
  <2>2. k # Len(queue) + 1
    BY <2>1
  <2>3. k \in 1 .. Len(queue) /\ queue[k].kind = "end"
    BY <2>1, <2>2
  <2> QED
    BY <1>1, <2>3 DEF EndLast
<1> QED
  BY <1>4, <1>5

\* The end of the session is neither an open nor a write.
LEMMA DestroyAsks ==
  ASSUME Typed, Destroy, alive, Asking, EndLast
  PROVE  Asking' /\ EndLast' /\ Len(queue') >= 2
<1> DEFINE d == Event("end", 0, <<>>, {}, "", TRUE)
           e == Event("sync", 0, <<>>, {}, "", TRUE)
<1>1. /\ d \in Events /\ e \in Events /\ d.kind = "end" /\ e.kind = "sync"
      /\ queue' = Append(Append(queue, d), e)
  BY DestroySends DEF OwnEvent
<1>2. /\ queue \in Seq(Events) /\ mode = "mounted" /\ mode' = "ai" /\ ai' = ai /\ asked' = asked
  BY DEF Destroy, Typed
<1> HIDE DEF d, e
<1> DEFINE q == Append(queue, d)
<1>3. /\ q \in Seq(Events) /\ Len(q) = Len(queue) + 1 /\ q[Len(queue) + 1] = d /\ Len(queue) \in Nat
      /\ \A k \in 1 .. Len(queue) : q[k] = queue[k]
  BY <1>1, <1>2, QueueAll
<1>4. \A kind \in {"open", "write"} : \A i : Waits(q, kind, i) = Waits(queue, kind, i)
  <2> TAKE kind \in {"open", "write"}
  <2> TAKE i
  <2>1. Waits(q, kind, i) = Waits(queue, kind, i) + 0
    BY <1>1, <1>2, WaitsAppend
  <2> QED
    BY <1>2, <2>1, WaitsNat
<1> HIDE DEF q
<1>5. /\ Len(queue') = Len(q) + 1 /\ queue'[Len(q) + 1] = e
      /\ \A k \in 1 .. Len(q) : queue'[k] = q[k]
  <2>1. queue' = Append(q, e)
    BY <1>1 DEF q
  <2> QED
    BY <1>1, <1>3, <2>1, QueueAll
<1>6. \A kind \in {"open", "write"} : \A i : Waits(queue', kind, i) = Waits(queue, kind, i)
  <2> TAKE kind \in {"open", "write"}
  <2> TAKE i
  <2>1. Waits(Append(q, e), kind, i) = Waits(q, kind, i) + 0
    BY <1>1, <1>3, WaitsAppend
  <2>2. queue' = Append(q, e)
    BY <1>1 DEF q
  <2> QED
    BY <1>2, <1>4, <2>1, <2>2, WaitsNat
<1>7. Asking'
  BY <1>2, <1>6 DEF Asking
<1>8. EndLast'
  <2> SUFFICES ASSUME NEW k \in 1 .. Len(queue'), queue'[k].kind = "end" PROVE k >= Len(queue') - 1
    BY <1>2 DEF EndLast
  <2>1. k \in 1 .. Len(queue) => queue[k].kind = "end"
    BY <1>3, <1>5
  <2>2. k \notin 1 .. Len(queue)
    BY <1>2, <2>1 DEF EndLast
  <2> QED
    BY <1>3, <1>5, <2>2
<1> QED
  BY <1>3, <1>5, <1>7, <1>8

\* An event that waited has been counted.
LEMMA HandleAsks ==
  ASSUME Typed, Handle, Head(queue).kind # "end", alive', Asking
  PROVE  Asking'
<1> DEFINE e == Head(queue)
<1>1. /\ e \in Events /\ queue # <<>> /\ asked' = asked /\ e.kind # "end"
      /\ ai' \in handle_event(ai, e) /\ queue' = Tail(queue)
  BY HandledIs
<1>2. IsAI(ai) /\ now \in Nat /\ queue \in Seq(Events)
  BY DEF Typed
<1>3. Tail(queue) \in Seq(Events)
  BY <1>1, <1>2, QueueAll
<1>4. \A kind, i : Waits(queue, kind, i) =
                     Waits(queue', kind, i) + (IF e.kind = kind /\ e.ino = i THEN 1 ELSE 0)
  BY <1>1, <1>2, WaitsTail
<1> HIDE DEF e
<1>5. /\ ai'.opens = IF e.kind = "open" THEN Counted(ai.opens, e.ino) ELSE ai.opens
      /\ ai'.writes = IF e.kind = "write" THEN Counted(ai.writes, e.ino) ELSE ai.writes
  BY <1>1, <1>2, HandledCounts
<1>6. \A i : /\ Asked(ai'.opens, i) =
                  Asked(ai.opens, i) + (IF e.kind = "open" /\ e.ino = i THEN 1 ELSE 0)
             /\ Asked(ai'.writes, i) =
                  Asked(ai.writes, i) + (IF e.kind = "write" /\ e.ino = i THEN 1 ELSE 0)
  <2> TAKE i
  <2>1. Asked(ai.opens, i) \in Nat /\ Asked(ai.writes, i) \in Nat
    BY <1>2, AskedNat DEF IsAI
  <2>2. \A f : Asked(Counted(f, e.ino), i) = IF i = e.ino THEN Asked(f, i) + 1 ELSE Asked(f, i)
    BY AskedCounted
  <2>3. Asked(ai'.opens, i) =
          Asked(ai.opens, i) + (IF e.kind = "open" /\ e.ino = i THEN 1 ELSE 0)
    <3>1. CASE e.kind = "open"
      <4>1. Asked(ai'.opens, i) = IF i = e.ino THEN Asked(ai.opens, i) + 1 ELSE Asked(ai.opens, i)
        BY <1>5, <2>2, <3>1
      <4> QED
        BY <2>1, <3>1, <4>1
    <3>2. CASE e.kind # "open"
      BY <1>5, <2>1, <3>2
    <3> QED
      BY <3>1, <3>2
  <2>4. Asked(ai'.writes, i) =
          Asked(ai.writes, i) + (IF e.kind = "write" /\ e.ino = i THEN 1 ELSE 0)
    <3>1. CASE e.kind = "write"
      <4>1. Asked(ai'.writes, i) = IF i = e.ino THEN Asked(ai.writes, i) + 1 ELSE Asked(ai.writes, i)
        BY <1>5, <2>2, <3>1
      <4> QED
        BY <2>1, <3>1, <4>1
    <3>2. CASE e.kind # "write"
      BY <1>5, <2>1, <3>2
    <3> QED
      BY <3>1, <3>2
  <2> QED
    BY <2>3, <2>4
<1>7. \A kind, i : Waits(queue', kind, i) \in Nat
  BY <1>1, <1>3, WaitsNat
<1>8. \A i : Asked(ai.opens, i) \in Nat /\ Asked(ai.writes, i) \in Nat
  BY <1>2, AskedNat DEF IsAI
<1> SUFFICES ASSUME NEW i \in Ino
             PROVE  /\ Asked(asked["open"], i) = Asked(ai'.opens, i) + Waits(queue', "open", i)
                    /\ Asked(asked["write"], i) = Asked(ai'.writes, i) + Waits(queue', "write", i)
  BY <1>1 DEF Asking
<1>9. /\ Asked(asked["open"], i) = Asked(ai.opens, i) + Waits(queue, "open", i)
      /\ Asked(asked["write"], i) = Asked(ai.writes, i) + Waits(queue, "write", i)
  BY DEF Asking
<1>10. /\ Waits(queue', "open", i) \in Nat /\ Waits(queue', "write", i) \in Nat
       /\ Asked(ai.opens, i) \in Nat /\ Asked(ai.writes, i) \in Nat
       /\ Waits(queue, "open", i) =
            Waits(queue', "open", i) + (IF e.kind = "open" /\ e.ino = i THEN 1 ELSE 0)
       /\ Waits(queue, "write", i) =
            Waits(queue', "write", i) + (IF e.kind = "write" /\ e.ino = i THEN 1 ELSE 0)
  BY <1>4, <1>7, <1>8
<1>11. Asked(asked["open"], i) = Asked(ai'.opens, i) + Waits(queue', "open", i)
  BY <1>6, <1>9, <1>10
<1>12. Asked(asked["write"], i) = Asked(ai'.writes, i) + Waits(queue', "write", i)
  BY <1>6, <1>9, <1>10
<1> QED
  BY <1>11, <1>12

\* At the end of the session nothing that was asked waits, and the brief is made.
LEMMA EndBriefs ==
  ASSUME Typed, Handle, Head(queue).kind = "end", alive', Asking, Len(queue) = 2,
         queue[2].kind = "sync", DaysRight(ai.memory, Today), NamesHeld(ai.memory),
         ProjectsRight'
  PROVE  BriefRight(ai', asked)
<1> DEFINE e == Head(queue)
<1>1. /\ e \in Events /\ queue # <<>> /\ e.kind = "end"
      /\ ai' \in handle_event(ai, e) /\ queue' = Tail(queue)
  BY HandledIs
<1>2. IsAI(ai) /\ now \in Nat /\ queue \in Seq(Events) /\ ai.memory \in Memories /\ Today \in Nat
  BY TodayIs DEF Typed, IsAI
<1>3. e = queue[1]
  BY <1>1, <1>2, QueueAll
<1> HIDE DEF e
<1>4. \A kind \in {"open", "write"} : \A i : Waits(queue, kind, i) = 0
  <2> TAKE kind \in {"open", "write"}
  <2> TAKE i
  <2>1. Waiting(queue, kind, i) = {}
    <3> SUFFICES ASSUME NEW k \in 1 .. 2, queue[k].kind = kind PROVE FALSE
      BY DEF Waiting
    <3>1. k = 1 \/ k = 2
      OBVIOUS
    <3> QED
      BY <1>1, <1>3, <3>1
  <2> QED
    BY <1>2, <2>1, WaitsNat
<1>5. ai.opens \in Counts /\ ai.writes \in Counts
  BY <1>2 DEF IsAI
<1>6. \A i \in Ino : /\ Asked(asked["open"], i) = Asked(ai.opens, i)
                     /\ Asked(asked["write"], i) = Asked(ai.writes, i)
  <2> TAKE i \in Ino
  <2>1. /\ Asked(asked["open"], i) = Asked(ai.opens, i) + 0
        /\ Asked(asked["write"], i) = Asked(ai.writes, i) + 0
    BY <1>4 DEF Asking
  <2> QED
    BY <1>5, <2>1, AskedNat
<1> DEFINE a == ai'
           m == a.memory
<1>7. a \in OnEnd(ai)
  BY <1>1, Zenon DEF handle_event
<1>8. IsEnded(ai, a)
  BY <1>2, <1>7, EndIs
<1>9. a.projects = Mem!Components(m)
  BY DEF ProjectsRight
<1>10. a \in handle_event(ai, e)
  BY <1>1
<1> HIDE DEF a
<1>11. NamesHeld(m)
  BY <1>1, <1>10, HandledNames
<1>12. m = Mem!close_session(ai.memory) /\ m \in Memories
  BY <1>2, <1>8, SessionIs DEF IsEnded
<1>13. DaysRight(m, Today)
  <2>1. IsClosed(ai.memory, m)
    BY <1>2, <1>12, SessionIs
  <2> QED
    BY <2>1, ClosedDays
<1>14. /\ \E w \in Jar!recompute(m, ai.opens, ai.writes, a.projects, Today) : a.brief \in Jar!analyse(w)
       /\ a.computed_at = Today
  BY <1>8, <1>12, Zenon DEF IsEnded
<1>15. PICK w \in Jar!recompute(m, ai.opens, ai.writes, Mem!Components(m), Today) :
         a.brief \in Jar!analyse(w)
  BY <1>9, <1>14
<1> HIDE DEF m
<1>16. a.memory = m
  BY DEF m
<1>17. BriefRight(a, asked)
  BY <1>2, <1>5, <1>6, <1>11, <1>12, <1>13, <1>14, <1>15, <1>16, BriefIs
<1> QED
  BY <1>17 DEF a

LEMMA HandleBriefs ==
  ASSUME Typed, Remembering, Naming, Briefing, Handle, Remembering'
  PROVE  Briefing'
<1> SUFFICES ASSUME work' = "briefs", alive', mode' \in {"mounted", "ai"}
             PROVE  /\ EndLast'
                    /\ mode' = "ai" /\ Len(queue') < 2 => BriefRight(ai', asked')
                    /\ mode' = "mounted" \/ Len(queue') >= 2 => Asking'
  BY DEF Briefing
<1> DEFINE e == Head(queue)
<1>1. /\ e \in Events /\ alive /\ queue # <<>> /\ UNCHANGED <<mode, work, asked>>
      /\ ai' \in handle_event(ai, e) /\ queue' = Tail(queue)
  BY HandledIs
<1>2. /\ queue \in Seq(Events) /\ DaysRight(ai.memory, Today) /\ NamesHeld(ai.memory) /\ EndsRight
  BY DEF Typed, Remembering, MemoryRight, Naming
<1>3. /\ EndLast
      /\ mode = "ai" /\ Len(queue) < 2 => BriefRight(ai, asked)
      /\ mode = "mounted" \/ Len(queue) >= 2 => Asking
  BY <1>1 DEF Briefing
<1>4. /\ Len(queue') = Len(queue) - 1 /\ Len(queue) \in Nat /\ Len(queue) >= 1 /\ e = queue[1]
      /\ \A k \in 1 .. Len(queue') : queue'[k] = queue[k + 1] /\ k + 1 \in 1 .. Len(queue)
  BY <1>1, <1>2, QueueAll
<1> HIDE DEF e
<1>5. EndLast'
  <2> SUFFICES ASSUME NEW k \in 1 .. Len(queue'), queue'[k].kind = "end"
               PROVE  mode = "ai" /\ k >= Len(queue') - 1
    BY <1>1 DEF EndLast
  <2>1. k + 1 \in 1 .. Len(queue) /\ queue[k + 1].kind = "end"
    BY <1>4
  <2>2. mode = "ai" /\ k + 1 >= Len(queue) - 1
    BY <1>3, <2>1 DEF EndLast
  <2> QED
    BY <1>4, <2>2
<1>6. CASE mode = "mounted"
  <2>1. e.kind # "end"
    BY <1>3, <1>4, <1>6 DEF EndLast
  <2>2. Asking'
    BY <1>3, <1>6, <2>1, HandleAsks DEF e
  <2> QED
    BY <1>1, <1>5, <1>6, <2>2
<1>7. CASE mode = "ai" /\ Len(queue) < 2
  <2>1. Len(queue) = 1 /\ queue' = <<>> /\ Len(queue') = 0
    BY <1>1, <1>2, <1>4, <1>7
  <2>2. e.kind = "sync"
    BY <1>1, <1>2, <1>4, <1>7, <2>1 DEF EndsRight
  <2>3. ai' = ai /\ asked' = asked
    BY <1>1, <2>2 DEF handle_event
  <2>4. BriefRight(ai, asked)
    BY <1>3, <1>7
  <2>5. BriefRight(ai', asked')
    BY <2>3, <2>4
  <2>6. mode' # "mounted" /\ ~(Len(queue') >= 2)
    BY <1>1, <1>7, <2>1
  <2> QED
    BY <1>5, <2>5, <2>6
<1>8. CASE mode = "ai" /\ Len(queue) >= 2
  <2>1. queue[Len(queue) - 1].kind = "end" /\ queue[Len(queue)].kind = "sync"
    BY <1>1, <1>2, <1>4, <1>8 DEF EndsRight
  <2>2. CASE Len(queue) = 2
    <3>1. e.kind = "end" /\ queue[2].kind = "sync"
      BY <1>4, <2>1, <2>2
    <3>2. Len(queue') = 1
      BY <1>4, <2>1, <2>2
    <3>3. mode' = "ai" /\ ~(Len(queue') >= 2) /\ queue' # <<>>
      <4>1. mode' = "ai"
        BY <1>1, <1>8
      <4>2. Len(<<>>) = 0
        OBVIOUS
      <4> QED
        BY <3>2, <4>1, <4>2
    <3>4. EndsRight'
      BY DEF Remembering
    <3>5. ProjectsRight'
      BY <3>3, <3>4 DEF EndsRight
    <3>6. BriefRight(ai', asked)
      BY <1>2, <1>3, <1>8, <2>2, <3>1, <3>5, EndBriefs DEF e
    <3>7. BriefRight(ai', asked')
      BY <1>1, <3>6
    <3>8. mode' # "mounted"
      BY <3>3
    <3> QED
      BY <1>5, <3>3, <3>7, <3>8
  <2>3. CASE Len(queue) > 2
    <3>1. e.kind # "end"
      <4>1. 1 \in 1 .. Len(queue) /\ ~(1 >= Len(queue) - 1)
        BY <1>4, <2>3
      <4> QED
        BY <1>3, <1>4, <4>1 DEF EndLast
    <3>2. Asking'
      BY <1>3, <1>8, <3>1, HandleAsks DEF e
    <3>3. ~(Len(queue') < 2)
      BY <1>4, <2>3
    <3> QED
      BY <1>5, <3>2, <3>3
  <2> QED
    BY <1>4, <1>8, <2>2, <2>3
<1> QED
  BY <1>1, <1>4, <1>6, <1>7, <1>8

\* With nothing asked, sent or counted.
LEMMA NoneAsks ==
  /\ \A kind, i : Waits(<<>>, kind, i) = 0
  /\ \A i : Asked(<<>>, i) = 0
  /\ NoneAsked["open"] = <<>> /\ NoneAsked["write"] = <<>>
<1>1. \A kind, i : Waits(<<>>, kind, i) = 0
  <2> TAKE kind, i
  <2>1. <<>> \in Seq(Events) /\ Waiting(<<>>, kind, i) = {}
    BY DEF Waiting
  <2> QED
    BY <2>1, WaitsNat
<1>2. \A i : Asked(<<>>, i) = 0
  BY DEF Asked, Value
<1> QED
  BY <1>1, <1>2 DEF NoneAsked

LEMMA InitBriefs == Init => Briefing
<1> SUFFICES ASSUME Init PROVE Briefing
  OBVIOUS
<1>1. /\ now \in Nat /\ mode = "mounted" /\ queue = <<>> /\ asked = NoneAsked
      /\ ai.opens = <<>> /\ ai.writes = <<>>
  BY InitTyped, NewAIIs DEF Typed, Init, Reindexed, NewAI
<1>2. Asking
  BY <1>1, NoneAsks DEF Asking
<1>3. EndLast
  BY <1>1 DEF EndLast
<1> QED
  BY <1>1, <1>2, <1>3 DEF Briefing

\* What a step that sends nothing and counts nothing leaves.
LEMMA StillBriefs ==
  ASSUME Typed, Briefing, UNCHANGED <<ai, queue, mode, work, alive, asked>>
  PROVE  Briefing'
<1>1. /\ ai' = ai /\ queue' = queue /\ mode' = mode /\ work' = work /\ alive' = alive
      /\ asked' = asked
  OBVIOUS
<1>2. EndLast => EndLast'
  BY <1>1 DEF EndLast
<1>3. BriefRight(ai, asked) => BriefRight(ai', asked')
  BY <1>1
<1>4. Asking => Asking'
  BY <1>1 DEF Asking
<1> QED
  BY <1>1, <1>2, <1>3, <1>4 DEF Briefing

LEMMA StepBriefs == Typed /\ Remembering /\ Naming /\ Briefing /\ [Next]_vars => Briefing'
<1> SUFFICES ASSUME Typed, Remembering, Naming, Briefing, [Next]_vars,
                    work' = "briefs", alive', mode' \in {"mounted", "ai"}
             PROVE  Briefing'
  BY DEF Briefing
<1>1. work = "briefs" /\ Typed'
  BY WorkStays, StepTyped
<1>2. ASSUME NEW kinds, NEW e \in Events, Request(kinds, e),
             e.kind \in {"open", "write", "delete"}, e.ino \in Ino
      PROVE  Briefing'
  <2>1. mode = "mounted" /\ mode' = "mounted" /\ alive
    BY <1>2 DEF Request
  <2>2. Asking /\ EndLast
    BY <1>1, <2>1 DEF Briefing
  <2>3. Asking' /\ EndLast'
    BY <1>1, <1>2, <2>1, <2>2, RequestAsks
  <2> QED
    BY <2>1, <2>3 DEF Briefing
<1>3. \A i \in DOMAIN files : i \in Ino /\ files[i].name \in Name
  BY InodeIs DEF Typed
<1>4. ASSUME NEW i \in Ino, Open(i) PROVE Briefing'
  <2> DEFINE e == Event("open", i, files[i].name, {}, "", TRUE)
  <2>1. i \in DOMAIN files /\ Request({"opens", "briefs"}, e)
    BY <1>4 DEF Open, Named
  <2>2. e \in FileEvent("open", {""})
    BY <1>3, <2>1, EventIn
  <2> HIDE DEF e
  <2> QED
    BY <1>2, <2>1, <2>2 DEF Events, FileEvent
<1>5. ASSUME NEW i \in Ino, NEW W \in SUBSET Word, NEW c \in Classes, NEW p \in BOOLEAN,
             Write(i, W, c, p)
      PROVE  Briefing'
  <2> DEFINE e == Event("write", i, files[i].name, W, c, p)
  <2>1. /\ i \in DOMAIN files
        /\ \E kinds : Request(kinds, e)
    BY <1>5 DEF Write, IsFile
  <2>2. e \in FileEvent("write", Classes)
    BY <1>3, <2>1, EventIn
  <2> HIDE DEF e
  <2> QED
    BY <1>2, <2>1, <2>2 DEF Events, FileEvent
<1>6. ASSUME NEW i \in Ino, Unlink(i) PROVE Briefing'
  <2> DEFINE e == Event("delete", i, files[i].name, {}, "", TRUE)
  <2>1. i \in DOMAIN files /\ Request({"edits", "briefs"}, e)
    BY <1>6 DEF Unlink, IsFile
  <2>2. e \in FileEvent("delete", {""})
    BY <1>3, <2>1, EventIn
  <2> HIDE DEF e
  <2> QED
    BY <1>2, <2>1, <2>2 DEF Events, FileEvent
<1>7. /\ \A i \in Ino : ~Release(i) /\ ~Rmdir(i) /\ \A n \in Name : ~Rename(i, n)
      /\ \A n \in Name : ~Create(n) /\ ~Mkdir(n)
      /\ \A w \in Word : ~Query(w)
  BY <1>1 DEF Release, Rmdir, Rename, Create, Mkdir, Query, Request, Silent
<1>8. CASE Tick
  BY <1>8, StillBriefs DEF Tick
<1>9. CASE UNCHANGED vars
  BY <1>9, StillBriefs DEF vars
<1>10. CASE Handle
  BY <1>10, StepRemembers, HandleBriefs
<1>11. CASE Destroy
  <2>1. mode = "mounted" /\ mode' = "ai" /\ alive
    BY <1>11 DEF Destroy
  <2>2. Asking /\ EndLast
    BY <1>1, <2>1 DEF Briefing
  <2>3. Asking' /\ EndLast' /\ Len(queue') >= 2
    BY <1>11, <2>1, <2>2, DestroyAsks
  <2>4. ~(Len(queue') < 2)
    <3>1. Len(queue') \in Nat
      BY <1>1 DEF Typed
    <3> QED
      BY <2>3, <3>1
  <2> QED
    BY <2>3, <2>4 DEF Briefing
<1>12. ~Save
  <2> SUFFICES ASSUME Save PROVE FALSE
    OBVIOUS
  <2>1. /\ mode \in {"ai", "neural", "memory"}
        /\ mode' = IF mode = "memory" THEN "unmounted" ELSE NextFile[mode]
    BY FilesAre DEF Save, Ended
  <2> QED
    BY <2>1 DEF NextFile
<1>13. ~Crash
  BY DEF Crash, Ended
<1>14. CASE Load
  <2>1. PICK order \in Orders(disk), text \in [Remaining -> SUBSET Word] :
          ai' = Reindexed(Restored(disk, order), FoundWith(text))
    BY <1>14, MountIs
  <2>2. /\ mode = "unmounted" /\ mode' = "mounted" /\ asked' = NoneAsked /\ queue' = queue
    BY <1>14 DEF Load
  <2>3. queue' = <<>> /\ now \in Nat
    BY <2>2 DEF Typed
  <2>4. ai'.opens = <<>> /\ ai'.writes = <<>>
    <3>1. SameBut(NewAI, ai', {"markov", "scores", "net", "memory", "index"})
      BY <1>14, <2>1, MountIs, LoadedAI
    <3> QED
      BY <2>3, <3>1, NewAIIs DEF SameBut, Fields
  <2>5. Asking'
    BY <2>2, <2>3, <2>4, NoneAsks DEF Asking
  <2>6. EndLast'
    BY <2>3 DEF EndLast
  <2> QED
    BY <2>2, <2>5, <2>6 DEF Briefing
<1>15. ASSUME NEW i \in Ino, \/ \E W \in SUBSET Word, p \in BOOLEAN : Write(i, W, "short", p)
                             \/ \E c \in Mod!Class : Write(i, {}, c, TRUE)
       PROVE  Briefing'
  <2>1. "short" \in Classes /\ {} \in SUBSET Word /\ Mod!Class = Classes /\ TRUE \in BOOLEAN
    BY DEF Classes, Mod!Class
  <2> QED
    BY <1>5, <1>15, <2>1
<1> QED
  BY <1>4, <1>6, <1>7, <1>8, <1>9, <1>10, <1>11, <1>12, <1>13, <1>14, <1>15, Zenon DEF Next

\* The brief an unmount makes says of every file what was asked of it in this
\* session and how often, and when, it was opened in all the mounts before:
\* what still waited when the session ended has been counted, and of a group of
\* files as many are named as there is room for (WorkspaceModel::recompute,
\* JarvisEngine::analyse).
THEOREM BriefIsRight == Spec => []BriefMatchesHistory
<1>1. Typed /\ Briefing => BriefMatchesHistory
  <2> SUFFICES ASSUME Typed, Briefing, work = "briefs", mode = "ai", alive, Len(queue) < 2
               PROVE  BriefMatchesHistory
    BY DEF BriefMatchesHistory
  <2>1. BriefRight(ai, asked)
    BY DEF Briefing
  <2> QED
    BY <2>1, Zenon DEF BriefRight, BriefMatchesHistory, Said, Told, Asked
<1> QED
  BY <1>1, InitTyped, InitRemembers, InitNames, InitBriefs,
     StepTyped, StepRemembers, StepNames, StepBriefs, PTL DEF Spec
=============================================================================
