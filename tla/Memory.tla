------------------------------- MODULE Memory -------------------------------
(***************************************************************************)
(* What is learned across sessions: MemoryEngine (ai/memory.rs), as a      *)
(* record m and its operations, and the groups of files found in it        *)
(* (ai/workspace.rs).  Hours, durations and counts of reads and writes are *)
(* left out.                                                               *)
(***************************************************************************)
EXTENDS Integers, Sequences, FiniteSets, SequencesExt

CONSTANTS
  Week,         \* days compared with as many before
  PairFiles,    \* files of a session that are paired
  MaxSessions,  \* MAX_SESSIONS
  SavedFiles,   \* files of a session that are saved
  SavedKeys,    \* entries of a table that are saved
  CoThreshold   \* CO_THRESHOLD

(***************************************************************************)
(* The fields of m: sessions, the files opened in each, and touched, those *)
(* of the current one; total, the sessions ended; by file its opens,       *)
(* streak, daily counts (the last is last_day's) and name; by pair of      *)
(* files the sessions that had both.  To state properties: the history of  *)
(* m, and cut, the files some table has lost in a save.                    *)
(***************************************************************************)
With(f, x, v) == [y \in DOMAIN f \cup {x} |-> IF y = x THEN v ELSE f[y]]
Value(f, x, default) == IF x \in DOMAIN f THEN f[x] ELSE default

NewMemory(today) ==
  [sessions |-> <<>>, touched |-> <<>>, total |-> 0, opens |-> <<>>, streaks |-> <<>>,
   daily |-> <<>>, last_day |-> today, names |-> <<>>, pairs |-> <<>>,
   history |-> [opens |-> <<>>, ended |-> <<>>], cut |-> {}]

NewStreak == [current |-> 0, longest |-> 0, last |-> 0]

\* Mutant: a day's second open counts as a break.
TouchTwice(s, today) ==
  LET days == IF today = s.last + 1 THEN s.current + 1 ELSE 1
  IN  [current |-> days, longest |-> IF days > s.longest /\ days > 1 THEN days ELSE s.longest,
       last |-> today]
touch(s, today) ==
  LET days == IF today = s.last THEN s.current
              ELSE IF today = s.last + 1 THEN s.current + 1 ELSE 1
  IN  [current |-> days,
       longest |-> IF today = s.last + 1 /\ days > s.longest THEN days ELSE s.longest,
       last |-> today]

\* TrendTracker::record's first part: the windows of all files move on.
Advanced(m, today) ==
  LET moved(c) == [k \in 1 .. 2 * Week |->
                     IF k + (today - m.last_day) <= 2 * Week THEN c[k + (today - m.last_day)] ELSE 0]
  IN  IF today <= m.last_day THEN m
      ELSE [m EXCEPT !.daily = [i \in DOMAIN @ |-> moved(@[i])], !.last_day = today]

record_access(m, ino, name, today) ==
  LET t == Advanced(m, today)
      c == Value(t.daily, ino, [k \in 1 .. 2 * Week |-> 0])
  IN  [t EXCEPT !.names = With(@, ino, name),
         !.touched = IF Contains(@, ino) THEN @ ELSE Append(@, ino),
         !.opens   = With(@, ino, Value(@, ino, 0) + 1),
         !.streaks = With(@, ino, touch(Value(@, ino, NewStreak), today)),
         !.daily   = With(@, ino, [c EXCEPT ![2 * Week] = @ + 1]),
         !.history.opens = Append(@, [ino |-> ino, day |-> today])]

\* record_session: every two of a session's first files.
Paired(files) ==
  LET first == Range(SubSeq(files, 1, IF Len(files) < PairFiles THEN Len(files) ELSE PairFiles))
  IN  {p \in SUBSET first : Cardinality(p) = 2}

close_session(m) ==
  LET all == Append(m.sessions, m.touched)
      new == Paired(m.touched)
  IN  [m EXCEPT
         !.pairs = [p \in DOMAIN @ \cup new |-> Value(@, p, 0) + (IF p \in new THEN 1 ELSE 0)],
         !.sessions = IF Len(all) > MaxSessions THEN Tail(all) ELSE all,
         !.total = @ + 1, !.touched = <<>>,
         !.history.ended = Append(@, m.touched)]

(***************************************************************************)
(* What comes back of what to_bytes wrote: of a table that is too large    *)
(* the entries a hash map iterates over first, in each its own; not the    *)
(* current session.                                                        *)
(***************************************************************************)
Part(keys) ==
  IF Cardinality(keys) <= SavedKeys THEN {keys} ELSE {S \in SUBSET keys : Cardinality(S) = SavedKeys}
On(f, S) == [x \in S |-> f[x]]

Truncated(m, o, s, d, n) ==
  [m EXCEPT !.touched = <<>>,
     !.sessions = [k \in DOMAIN @ |->
       SubSeq(@[k], 1, IF Len(@[k]) < SavedFiles THEN Len(@[k]) ELSE SavedFiles)],
     !.opens = On(@, o), !.streaks = On(@, s), !.daily = On(@, d), !.names = On(@, n),
     !.cut = @ \cup (DOMAIN m.opens \ (o \cap s \cap d \cap n))]

Reread(m) ==
  {Truncated(m, o, s, d, n) :
     o \in Part(DOMAIN m.opens), s \in Part(DOMAIN m.streaks),
     d \in Part(DOMAIN m.daily), n \in Part(DOMAIN m.names)}

-----------------------------------------------------------------------------
(***************************************************************************)
(* discover_projects, over the files that have a name: the union and find  *)
(* are those of a partition, whose parent pointers are left out.           *)
(***************************************************************************)
Close(m) == {p \in DOMAIN m.pairs : m.pairs[p] >= CoThreshold}

\* It looks up both files of a pair, and panics if one has no name.
Panics(m) == DOMAIN m.names # {} /\ (UNION Close(m)) \ DOMAIN m.names # {}

\* union: the groups that find gives the two files of a pair become one.
union(groups, p) ==
  LET met == {g \in groups : g \cap p # {}} IN (groups \ met) \cup {UNION met}

discover_projects(m, order) ==
  {g \in FoldLeft(union, {{i} : i \in DOMAIN m.names}, order) : Cardinality(g) >= 2}

-----------------------------------------------------------------------------
(***************************************************************************)
(* What m should say, by its history.                                      *)
(***************************************************************************)
DaysOf(m, i) == {h.day : h \in {h \in Range(m.history.opens) : h.ino = i}}
OpensOn(m, i, day) ==
  Cardinality({k \in DOMAIN m.history.opens : m.history.opens[k] = [ino |-> i, day |-> day]})

IsRun(D, a, b) == a .. b \subseteq D
RunTo(D, b) == CHOOSE n \in 1 .. Cardinality(D) :
                 IsRun(D, b - n + 1, b) /\ (b - n) \notin D
LastDay(D) == CHOOSE d \in D : \A e \in D : e <= d
LongestRun(D) ==
  LET runs == {RunTo(D, b) : b \in D} IN CHOOSE n \in runs : \A k \in runs : k <= n

\* Streaks and windows are those of the days the file was opened on; a run
\* of one day does not count as a longest one.
DaysRemembered(m) ==
  \A i \in DOMAIN m.opens \ m.cut :
    LET D == DaysOf(m, i)
        longest == LongestRun(D)
    IN  /\ m.opens[i] = Cardinality({k \in DOMAIN m.history.opens : m.history.opens[k].ino = i})
        /\ m.streaks[i] = [current |-> RunTo(D, LastDay(D)),
                           longest |-> IF longest > 1 THEN longest ELSE 0, last |-> LastDay(D)]
        /\ m.daily[i] = [k \in 1 .. 2 * Week |-> OpensOn(m, i, m.last_day - 2 * Week + k)]

\* Pairs count the sessions that had both, and the sessions kept are the last.
SessionsRemembered(m) ==
  LET ended == m.history.ended
      Had(k, p) == p \in Paired(ended[k])
  IN  /\ m.total = Len(ended)
      /\ \A p \in DOMAIN m.pairs :
           m.pairs[p] = Cardinality({k \in DOMAIN ended : Had(k, p)})
      /\ \A k \in DOMAIN ended : Paired(ended[k]) \subseteq DOMAIN m.pairs
      /\ Len(m.sessions) = (IF Len(ended) < MaxSessions THEN Len(ended) ELSE MaxSessions)
      /\ \A k \in DOMAIN m.sessions :
           IsPrefix(m.sessions[k], ended[Len(ended) - Len(m.sessions) + k])

\* The sets of files that paths of close pairs connect.
Connected(S, edges) ==
  \A A \in SUBSET S : A \notin {{}, S} =>
    \E e \in edges : e \cap A # {} /\ e \cap (S \ A) # {}
Components(m) ==
  {S \in SUBSET DOMAIN m.names :
     /\ Cardinality(S) >= 2
     /\ Connected(S, Close(m))
     /\ \A e \in Close(m) : e \cap S # {} => e \subseteq S}
=============================================================================
