------------------------------- MODULE Engine -------------------------------
(***************************************************************************)
(* The AI engine (ai/engine.rs): a thread that learns from events the      *)
(* handlers of fuse/mod.rs send it through a channel, publishes what it    *)
(* knows after each, and three files in which an unmount keeps what was    *)
(* published (flush_all, ai/persist.rs, ai/memory_persist.rs).             *)
(*                                                                         *)
(* What is written to the files themselves is in VexFS: here the disk      *)
(* keeps all of it.                                                        *)
(***************************************************************************)
EXTENDS Integers, Sequences, FiniteSets, SequencesExt

CONSTANTS
  Ino,        \* inode numbers, from 2 on; bounds the files created in a mount
  Name,       \* sequences of words
  DayLength,  \* the seconds of a day
  Work,       \* bound: kinds of requests, of which a behaviour has one
  Excuse,     \* the ways of losing what was learned that are let pass
  MaxCalls,   \* bound, by kind: requests, ticks of the clock, mounts
  MaxQueue,   \* bound, by kind: events that wait when another is sent
  Week, PairFiles, MaxSessions, SavedFiles, SavedKeys, CoThreshold,
  MaxEntries, MaxTracked, InputSize, Word, Suspicious, Window, PatternCount,
  StallOpens, ExploreFiles, NeglectDays, NeglectFiles, WarmFiles

\* Names are made of words; a file with a suspicious name is one.
ASSUME EngineAssumption ==
  /\ Ino \subseteq Nat \ {0, 1} /\ {2, 3} \subseteq Ino /\ IsFiniteSet(Ino)
  /\ Suspicious \subseteq Name /\ Suspicious # {} /\ Name \ Suspicious # {}
  /\ Name \subseteq Seq(Word)
  /\ Work \subseteq {"opens", "edits", "briefs", "alarms"}
  /\ DayLength \in Nat \ {0} /\ Week \in Nat \ {0}
  /\ {PairFiles, MaxSessions, SavedFiles, SavedKeys, CoThreshold, MaxEntries, MaxTracked,
      InputSize, Window, PatternCount, StallOpens, ExploreFiles, NeglectDays,
      NeglectFiles, WarmFiles} \subseteq Nat

Mem == INSTANCE Memory
Mod == INSTANCE Models
Jar == INSTANCE Jarvis

VARIABLES
  ai,      \* the engine's own state, while mounted
  shared,  \* what it published last: a set of none or one
  queue,   \* events sent and not taken
  alive,   \* the engine's thread runs
  files,   \* the files and directories, but for those unlinked
  next,    \* the next inode number
  disk,    \* the three files
  mode,    \* "mounted", the file that an unmount is about to write, or "unmounted"
  now,     \* seconds
  work, calls,
  owed,    \* to state properties: what each file should have,
  asked    \* and how often files were opened and written in this mount

vars == <<ai, shared, queue, alive, files, next, disk, mode, now, work, calls, owed, asked>>

Today == now \div DayLength
Without(f, x) == [y \in DOMAIN f \ {x} |-> f[y]]
With(f, x, v) == [y \in DOMAIN f \cup {x} |-> IF y = x THEN v ELSE f[y]]
Value(f, x, default) == IF x \in DOMAIN f THEN f[x] ELSE default
Counted(f, x) == With(f, x, Value(f, x, 0) + 1)

-----------------------------------------------------------------------------
(***************************************************************************)
(* handle_event: the states an event may leave the engine in.              *)
(***************************************************************************)
Event(kind, ino, name, words, class, apart) ==
  [kind |-> kind, ino |-> ino, name |-> name, words |-> words, class |-> class, apart |-> apart]

OnOpen(a, e) ==
  {[a EXCEPT !.markov = IF a.last \in {0, e.ino} THEN @ ELSE Mod!record_transition(@, a.last, e.ino),
             !.last   = e.ino,
             !.scores = s,
             !.net    = Mod!learn(@, e.ino),
             !.memory = Mem!record_access(@, e.ino, e.name, Today),
             !.opens  = Counted(@, e.ino)] :
     s \in Mod!record_score(a.scores, e.ino)}

\* The words of two pieces of text put together: if nothing parts them, the last
\* of one and the first of the other become another, if they are words at all.
AtMostOne == {{}} \cup {{w} : w \in Word}
Together(before, words, apart) ==
  IF apart THEN {before \cup words}
  ELSE {(before \ last) \cup (words \ first) \cup joined : last, first, joined \in AtMostOne}

\* What was written since the file was closed is indexed as one text, piece after
\* piece, wherever in the file each was written.
OnWrite(a, e) ==
  {[a EXCEPT !.guard = Mod!check_write(@, e.ino, e.name, e.class, now),
             !.acc   = With(@, e.ino, words),
             !.index = Mod!index(@, e.ino, e.name, words),
             !.writes = Counted(@, e.ino)] :
     words \in IF e.ino \in DOMAIN a.acc THEN Together(a.acc[e.ino], e.words, e.apart)
              ELSE {e.words}}

OnClose(a, e) ==
  {[a EXCEPT !.scores = s, !.acc = Without(@, e.ino)] : s \in Mod!record_score(a.scores, e.ino)}

\* Mutant: the memory forgets the file's name.
OnDeleteForgetting(a, e) ==
  {[a EXCEPT !.index = Mod!remove(@, e.ino), !.acc = Without(@, e.ino),
             !.memory.names = Without(@, e.ino)]}
OnDelete(a, e) == {[a EXCEPT !.index = Mod!remove(@, e.ino), !.acc = Without(@, e.ino)]}

OnQuery(a, e) == {[a EXCEPT !.answer = Mod!search(a.index, w)] : w \in e.words}

OnEnd(a) ==
  LET m == Mem!close_session(a.memory)
      groups == {Mem!discover_projects(m, order) : order \in SetToSeqs(Mem!Close(m))}
      Closed(g, brief) ==
        [a EXCEPT !.memory = m, !.projects = g, !.brief = brief,
                  !.computed_at = Today, !.opens = <<>>, !.writes = <<>>]
  IN  UNION {{Closed(g, brief) :
                brief \in UNION {Jar!analyse(w) :
                                   w \in Jar!recompute(m, a.opens, a.writes, g, Today)}} :
             g \in groups}

handle_event(a, e) ==
  CASE e.kind = "open"   -> OnOpen(a, e)
    [] e.kind = "write"  -> OnWrite(a, e)
    [] e.kind = "close"  -> OnClose(a, e)
    [] e.kind = "delete" -> OnDelete(a, e)
    [] e.kind = "query"  -> OnQuery(a, e)
    [] e.kind = "end"    -> OnEnd(a)
    [] e.kind = "sync"   -> {a}

\* What of it is published to be kept.
Kept(a) ==
  [markov |-> a.markov, scores |-> a.scores, vocab |-> Mod!to_bytes(a.net), memory |-> a.memory]

sync_state(a) == {Kept(a)}

-----------------------------------------------------------------------------
(***************************************************************************)
(* The files, each a set of none or one: a file that was being written     *)
(* when the process died counts as missing, for its checksum.              *)
(***************************************************************************)
NextFile == [ai |-> "neural", neural |-> "memory", memory |-> "unmounted"]
Files == DOMAIN NextFile
NoFile == {}
The(S) == CHOOSE x \in S : TRUE

Nothing == [markov |-> <<>>, scores |-> <<>>, vocab |-> <<>>]
Published == IF shared = {} THEN Nothing ELSE The(shared)

save(k) == [markov |-> k.markov, scores |-> k.scores]
save_neural(k) == k.vocab

\* Mutant: a missing memory makes the file empty.
SaveMemoryAlways == IF shared = {} THEN {NoFile} ELSE {{m} : m \in Mem!Reread(Published.memory)}

\* Only what there is of a memory is written.
save_memory == IF shared = {} THEN {disk.memory} ELSE {{m} : m \in Mem!Reread(Published.memory)}

load(f) == IF f = NoFile THEN save(Nothing) ELSE The(f)
load_neural(f) == IF f = NoFile THEN Mod!NewNetwork ELSE Mod!from_bytes(The(f))
load_memory(f) == IF f = NoFile THEN Mem!NewMemory(Today) ELSE The(f)

\* What each file may become.
Contents ==
  [ai |-> {{save(Published)}}, neural |-> {{save_neural(Published)}}, memory |-> save_memory]

NewAI ==
  [last |-> 0, acc |-> <<>>, markov |-> <<>>, scores |-> <<>>, net |-> Mod!NewNetwork,
   memory |-> Mem!NewMemory(Today), index |-> Mod!NewIndex, guard |-> Mod!NewGuard,
   projects |-> {}, answer |-> {}, opens |-> <<>>, writes |-> <<>>,
   brief |-> {}, computed_at |-> 0]

Restored(d, order) ==
  [NewAI EXCEPT
     !.markov = Mod!Replayed(load(d.ai).markov, order), !.scores = load(d.ai).scores,
     !.net = load_neural(d.neural), !.memory = load_memory(d.memory)]

\* The index is made from the files found, directories among them.
Reindexed(a, found) ==
  [a EXCEPT !.index =
     FoldLeft(LAMBDA s, i : Mod!index(s, i, found[i].name, found[i].sent.since),
              @, SetToSeq(DOMAIN found))]

Orders(d) == SetToSeqs(DOMAIN load(d.ai).markov)

-----------------------------------------------------------------------------
(***************************************************************************)
(* Four ways of losing what was learned are known:                         *)
(*   "unpublished"  the engine has handled nothing before the unmount saves*)
(*   "torn"         the process dies while it writes a file                *)
(*   "cap"          a full table of transitions is counted up again from 1 *)
(*   "names"        a file's name did not fit the memory's file: the thread*)
(*                  dies of a pair of files that has it                    *)
(***************************************************************************)
Let(cause) == cause \in Excuse

-----------------------------------------------------------------------------
(***************************************************************************)
(* A file or directory: its name, whether it is still found by it, or was  *)
(* replaced by a rename, or removed by rmdir; and, to state properties,    *)
(* what the engine was sent of it: whether anything was (told), anything   *)
(* since it was closed (open), the words of it since then and those of the *)
(* last piece (since, latest), and if no piece ran into the next (whole).  *)
(***************************************************************************)
Unsent == [told |-> FALSE, open |-> FALSE, whole |-> TRUE, since |-> {}, latest |-> {}]
Found(words) == [Unsent EXCEPT !.told = TRUE, !.since = words, !.latest = words]
Written(s, words, apart) ==
  [told |-> TRUE, open |-> TRUE, latest |-> words,
   whole |-> s.open => s.whole /\ apart,
   since |-> IF s.open THEN s.since \cup words ELSE words]

File(name, dir, sent) == [name |-> name, dir |-> dir, place |-> "named", sent |-> sent]
Named(i) == i \in DOMAIN files /\ files[i].place = "named"
IsFile(i) == i \in DOMAIN files /\ ~files[i].dir

NoneAsked == [kind \in {"open", "write", "delete"} |-> <<>>]
FirstName == CHOOSE n \in Name : n \notin Suspicious

Init ==
  /\ work \in Work
  /\ now = 2 * DayLength
  /\ files = CASE work = "opens"  -> [i \in Ino |-> File(FirstName, FALSE, Found({}))]
               [] work = "edits"  -> [i \in {2, 3} |-> File(FirstName, i = 3, Found({}))]
               [] work = "briefs" -> [i \in {2, 3} |-> File(FirstName, FALSE, Found({}))]
               [] work = "alarms" -> [i \in {2, 3} |->
                    File(IF i = 2 THEN FirstName ELSE CHOOSE n \in Suspicious : TRUE,
                         FALSE, Found({}))]
  /\ next = Cardinality(DOMAIN files) + 2
  /\ disk = [f \in Files |-> NoFile] /\ owed = disk
  /\ ai = Reindexed(NewAI, files)
  /\ shared = {} /\ queue = <<>> /\ alive = TRUE
  /\ mode = "mounted" /\ calls = 0 /\ asked = NoneAsked

Call == calls < MaxCalls[work] /\ calls' = calls + 1

\* A send to a thread that died fails, which is ignored.
Send(events) == queue' = IF alive THEN queue \o events ELSE queue
Request(kinds, e) ==
  /\ mode = "mounted" /\ work \in kinds /\ Call
  /\ Len(queue) < MaxQueue[work]
  /\ Send(<<e>>)
  /\ asked' = IF work = "briefs" THEN [asked EXCEPT ![e.kind] = Counted(@, e.ino)] ELSE asked
  /\ UNCHANGED <<ai, shared, alive, disk, mode, now, work, owed>>

\* lookup, of directories too
Open(i) ==
  /\ Named(i)
  /\ Request({"opens", "briefs"}, Event("open", i, files[i].name, {}, "", TRUE))
  /\ UNCHANGED <<files, next>>

Create(n) ==
  /\ next \in Ino
  /\ Request({"edits"}, Event("open", next, n, {}, "", TRUE))
  /\ files' = With(files, next, File(n, FALSE, Unsent))
  /\ next' = next + 1

\* A piece of text, wherever in the file: what the file then has is in VexFS.
Write(i, words, class, apart) ==
  /\ IsFile(i)
  /\ Request(IF class # "short" THEN {"alarms"}
             ELSE IF words = {} /\ apart THEN {"edits", "briefs"} ELSE {"edits"},
             Event("write", i, files[i].name, words, class, apart))
  /\ files' = [files EXCEPT ![i].sent = Written(@, words, apart)]
  /\ UNCHANGED next

Release(i) ==
  /\ IsFile(i)
  /\ Request({"edits"}, Event("close", i, files[i].name, {}, "", TRUE))
  /\ files' = [files EXCEPT ![i].sent.open = FALSE]
  /\ UNCHANGED next

Unlink(i) ==
  /\ Named(i) /\ IsFile(i)
  /\ Request({"edits", "briefs"}, Event("delete", i, files[i].name, {}, "", TRUE))
  /\ files' = Without(files, i)
  /\ UNCHANGED next

\* A write to .vexfs-search
Query(w) ==
  /\ Request({"edits"}, Event("query", 0, <<>>, {w}, "", TRUE))
  /\ UNCHANGED <<files, next>>

\* Of these the engine is not told.
Silent ==
  /\ mode = "mounted" /\ work = "edits" /\ Call
  /\ UNCHANGED <<ai, shared, queue, alive, disk, mode, now, work, owed, asked>>

Mkdir(n) ==
  /\ Silent
  /\ next \in Ino
  /\ files' = With(files, next, File(n, TRUE, Unsent))
  /\ next' = next + 1

\* Which files a directory has is in Namespace: here it may have none.
Rmdir(i) ==
  /\ Silent
  /\ Named(i) /\ files[i].dir
  /\ files' = [files EXCEPT ![i].place = "removed"]
  /\ UNCHANGED next

\* The file that has the name, if it is in the same directory, loses it.
Replaced(i, n) ==
  {j \in DOMAIN files \ {i} : Named(j) /\ files[j].name = n /\ files[j].dir = files[i].dir}
Rename(i, n) ==
  /\ Silent
  /\ Named(i)
  /\ \E over \in {{}} \cup {{j} : j \in Replaced(i, n)} :
       files' = [j \in DOMAIN files |->
                   IF j = i THEN [files[j] EXCEPT !.name = n]
                   ELSE IF j \in over THEN [files[j] EXCEPT !.place = "replaced"] ELSE files[j]]
  /\ UNCHANGED next

Tick ==
  /\ work \in {"opens", "alarms", "briefs"} /\ Call
  /\ now' = now + (IF work = "alarms" THEN 1 ELSE DayLength)
  /\ UNCHANGED <<ai, shared, queue, alive, files, next, disk, mode, work, owed, asked>>

\* While the files are written, nothing is published: the lock is held.
Handle ==
  /\ queue # <<>> /\ alive /\ mode \in {"mounted", "ai"}
  /\ IF Head(queue).kind = "end" /\ Mem!Panics(Mem!close_session(ai.memory))
     THEN alive' = FALSE /\ UNCHANGED <<ai, shared, queue>>
     ELSE /\ ai' \in handle_event(ai, Head(queue))
          /\ shared' = sync_state(ai')
          /\ queue' = Tail(queue)
          /\ UNCHANGED alive
  /\ UNCHANGED <<files, next, disk, mode, now, work, calls, owed, asked>>

\* flush_all.  It gives the engine 50 ms, which it may not have needed or may
\* not be enough.
Destroy ==
  /\ mode = "mounted" /\ Call
  /\ Send(<<Event("end", 0, <<>>, {}, "", TRUE), Event("sync", 0, <<>>, {}, "", TRUE)>>)
  /\ mode' = "ai"
  /\ UNCHANGED <<ai, shared, alive, files, next, disk, now, work, owed, asked>>

\* The process has ended, with what it had in memory.
Ended(s) ==
  /\ ai' = NewAI /\ shared' = {} /\ queue' = <<>> /\ alive' = TRUE
  /\ mode' = s

\* What is owed: all the engine was sent, if it has kept up.
Owed(a) == [ai |-> save(Kept(a)), neural |-> save_neural(Kept(a)), memory |-> a.memory]

Save ==
  /\ mode \in Files
  /\ \E c \in Contents[mode] : disk' = [disk EXCEPT ![mode] = c]
  /\ owed' = IF shared = {} /\ mode # "memory" /\ Let("unpublished")
             THEN [owed EXCEPT ![mode] = NoFile]
             ELSE IF queue = <<>> /\ alive
             THEN [owed EXCEPT ![mode] = {Owed(ai)[mode]}]
             ELSE owed
  /\ IF mode = "memory" THEN Ended("unmounted")
     ELSE mode' = NextFile[mode] /\ UNCHANGED <<ai, shared, queue, alive>>
  /\ UNCHANGED <<files, next, now, work, calls, asked>>

Crash ==
  /\ mode # "unmounted" /\ Call
  /\ Ended("unmounted")
  /\ \/ UNCHANGED <<disk, owed>>
     \/ /\ mode \in Files
        /\ disk' = [disk EXCEPT ![mode] = NoFile]
        /\ owed' = IF Let("torn") THEN [owed EXCEPT ![mode] = NoFile] ELSE owed
  /\ UNCHANGED <<files, next, now, work, asked>>

MaxOf(S) == CHOOSE x \in S : \A y \in S : y <= x

\* What is in the files is in VexFS: here any words, where any are written.
Texts(kept) ==
  {text \in [kept -> IF work = "edits" THEN SUBSET Word ELSE {{}}] :
     \A i \in kept : files[i].dir => text[i] = {}}

Load ==
  /\ mode = "unmounted" /\ Call
  /\ LET kept == {i \in DOMAIN files : files[i].place # "removed"}
     IN  /\ \E order \in Orders(disk), text \in Texts(kept) :
              LET a == Restored(disk, order)
                  found == [i \in kept |-> File(files[i].name, files[i].dir, Found(text[i]))]
              IN  /\ ai' = Reindexed(a, found) /\ files' = found
                  /\ owed' = [f \in Files |-> {Owed(a)[f]}]
         /\ next' = MaxOf(kept \cup {1}) + 1
  /\ mode' = "mounted" /\ asked' = NoneAsked
  /\ UNCHANGED <<shared, queue, alive, disk, now, work>>

Next ==
  \/ \E i \in Ino :
       \/ Open(i) \/ Release(i) \/ Unlink(i) \/ Rmdir(i)
       \/ \E words \in SUBSET Word, apart \in BOOLEAN : Write(i, words, "short", apart)
       \/ \E class \in Mod!Class : Write(i, {}, class, TRUE)
       \/ \E n \in Name : Rename(i, n)
  \/ \E n \in Name : Create(n) \/ Mkdir(n)
  \/ \E w \in Word : Query(w)
  \/ Tick \/ Handle \/ Destroy \/ Save \/ Crash \/ Load

\* The thread waits for events and for nothing else; requests, and time, are
\* the environment's.
Spec == Init /\ [][Next]_vars /\ WF_vars(Handle)

-----------------------------------------------------------------------------
(***************************************************************************)
(* Properties.                                                             *)
(***************************************************************************)
\* Every event is handled, but for those that the save at the unmount
\* overtakes: nothing the thread has learned makes it die of one, which nobody
\* would notice (engine.rs:117-122; the result of a send is ignored).
AlwaysHandled ==
  (queue # <<>> /\ mode \in {"mounted", "ai"}) ~>
    \/ queue = <<>> \/ mode \in {"neural", "memory", "unmounted"}
    \/ /\ Let("names") /\ ~alive
       /\ LET m == Mem!close_session(ai.memory)
          IN  (UNION Mem!Close(m)) \ DOMAIN m.names \subseteq m.cut

\* What a mount finds in memory m covers what memory o had.
Remembers(m, o) ==
  /\ m.total >= o.total
  /\ \A i \in DOMAIN o.opens \ m.cut :
       i \in DOMAIN m.opens /\ m.opens[i] >= o.opens[i] /\ i \in DOMAIN m.names
         /\ m.streaks[i].longest >= o.streaks[i].longest /\ m.streaks[i].last >= o.streaks[i].last
  /\ \A p \in DOMAIN o.pairs : p \in DOMAIN m.pairs /\ m.pairs[p] >= o.pairs[p]

\* An unmount never loses what earlier mounts have learned and, where the
\* engine has kept up, nothing of what this one did; nor does a crash
\* (memory.rs:3 "Normal filesystems forget everything when you unmount them.
\* VexFS remembers"; "Restore AI state", fuse/mod.rs:263).
LearnedSurvives ==
  mode = "unmounted" =>
    \A order \in Orders(disk) :
      LET a == Restored(disk, order)
          full(f, n) == Cardinality(DOMAIN f) = n
      IN  /\ \A o \in owed.ai :
               /\ \A e \in DOMAIN o.markov :
                    \/ e \in DOMAIN a.markov /\ a.markov[e] >= o.markov[e]
                    \/ Let("cap") /\ full(a.markov, MaxEntries)
               /\ \A i \in DOMAIN o.scores :
                    \/ i \in DOMAIN a.scores /\ a.scores[i] >= o.scores[i]
                    \/ full(a.scores, MaxTracked)
          /\ \A o \in owed.neural : IsPrefix(o, a.net.vocab)
          /\ \A o \in owed.memory : Remembers(a.memory, o)

Pending(kind, i) == \E k \in DOMAIN queue : queue[k].kind = kind /\ queue[k].ino = i

\* The search index follows the files, late by what is in the queue.  It has no
\* file that was unlinked; directories removed, and files replaced, it keeps.  It
\* has each file that was written, or found at the mount, with all that was written
\* since it was last closed, and where pieces have run into one another all that was
\* written last but for a word.  And no word counts in fewer files than have it, as
\* would make a common word decide a search.
SearchFollowsFiles ==
  (mode = "mounted" /\ alive) =>
    LET s == ai.index
    IN  /\ \A i \in DOMAIN s.files \cup DOMAIN ai.acc :
             i \in DOMAIN files \/ Pending("delete", i)
        /\ \A i \in DOMAIN files :
             LET f == files[i].sent
             IN  f.told =>
                   \/ Pending("write", i)
                   \/ /\ i \in DOMAIN s.files
                      /\ f.whole => f.since \subseteq s.files[i].words
                      /\ \E lost \in AtMostOne : f.latest \ lost \subseteq s.files[i].words
        /\ \A w \in Word :
             s.df[w] >= Cardinality({i \in DOMAIN s.files : w \in s.files[i].words})

\* The memory says what happened, over all the mounts it has come through:
\* streaks and daily counts by the days on which files were opened, pairs by
\* the sessions that had both; and the projects are what pairs connect,
\* whatever order a hash map iterates in (memory.rs:7-11).
MemoryMatchesHistory ==
  /\ Mem!DaysRemembered(ai.memory)
  /\ Mem!SessionsRemembered(ai.memory)
  /\ (mode = "ai" /\ alive /\ Len(queue) < 2) => ai.projects = Mem!Components(ai.memory)

\* The suggestion names as many of the files as it may.
NamesOf(s, group, most) ==
  /\ s.files \subseteq group
  /\ Cardinality(s.files) = IF Cardinality(group) < most THEN Cardinality(group) ELSE most

\* The brief an unmount makes is drawn from all that happened, in this mount and
\* in those the memory has come through: it names the files opened again and
\* again and those left in the middle, and of each group of files that nobody has
\* opened for days, and of one to be read ahead, as many as it has room for
\* (jarvis.rs:1-9, workspace.rs:150-151).  Files deleted since are named too.
BriefMatchesHistory ==
  (work = "briefs" /\ mode = "ai" /\ alive /\ Len(queue) < 2) =>
    LET m == ai.memory
        Opened(i)  == Value(asked["open"], i, 0)
        Wrote(i)   == Value(asked["write"], i, 0)
        Ever(i)    == Cardinality({k \in DOMAIN m.history.opens : m.history.opens[k].ino = i})
        Idle(i)    == ai.computed_at - Mem!LastDay(Mem!DaysOf(m, i))
        Said(kind) == {s \in ai.brief : s.kind = kind}
        Told(kind) == UNION {s.files : s \in Said(kind)}
        seen       == {i \in DOMAIN m.names : Opened(i) > 0}
        groups     == Mem!Components(m)
        neglected  == {g \in groups : \A i \in g : Idle(i) >= NeglectDays}
    IN  m.cut = {} =>
          /\ Told("stall") = {i \in seen : Ever(i) >= StallOpens /\ Opened(i) >= 2 /\ Wrote(i) <= 1}
          /\ Told("continuity") = {i \in seen : Opened(i) >= 2 /\ Wrote(i) > 0}
          /\ Told("focus") = {i \in seen : Opened(i) >= 3 /\ Wrote(i) = 0}
          /\ \A s \in Said("neglect") : \E g \in neglected : NamesOf(s, g, NeglectFiles)
          /\ \A g \in neglected : \E s \in Said("neglect") : NamesOf(s, g, NeglectFiles)
          /\ \A s \in Said("prewarm") : \E g \in groups : NamesOf(s, g, WarmFiles)

\* A write is taken for what the writes of the last minute, and the first one,
\* make of it (entropy.rs:7-9).
AlarmsMatchWindow ==
  LET g == ai.guard
  IN  (g.writes # <<>> /\ work = "alarms" /\ DOMAIN files = {2, 3}) =>
        LET last == g.writes[Len(g.writes)]
        IN  g.level = Mod!Level(g.writes, files[last.ino].name)
=============================================================================
