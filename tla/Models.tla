------------------------------- MODULE Models -------------------------------
(***************************************************************************)
(* The models the AI engine keeps beside its memory, as values and the     *)
(* operations on them: transitions (ai/markov.rs), scores                  *)
(* (ai/importance.rs), the network's vocabulary (ai/neural.rs), the search *)
(* index (ai/search.rs) and the entropy guard (ai/entropy.rs).  Weights,   *)
(* frequencies and scores themselves are left out.                         *)
(***************************************************************************)
EXTENDS Integers, Sequences, FiniteSets, SequencesExt

CONSTANTS
  MaxEntries,  \* transitions that are kept
  MaxTracked,  \* MAX_TRACKED_FILES
  InputSize,   \* INPUT_SIZE
  Word,        \* a file's name is a sequence of these, its contents are a set
  Suspicious,  \* names with a suspicious extension
  Window,      \* window_secs
  PatternCount \* pattern_count

With(f, x, v) == [y \in DOMAIN f \cup {x} |-> IF y = x THEN v ELSE f[y]]
Without(f, x) == [y \in DOMAIN f \ {x} |-> f[y]]
Value(f, x, default) == IF x \in DOMAIN f THEN f[x] ELSE default

-----------------------------------------------------------------------------
(***************************************************************************)
(* MarkovPrefetcher: how often a file was opened after another.            *)
(***************************************************************************)

record_transition(t, prev, next) ==
  IF Cardinality(DOMAIN t) >= MaxEntries THEN t
  ELSE With(t, <<prev, next>>, Value(t, <<prev, next>>, 0) + 1)

\* What load makes of saved counts: it records each as often as it counts.
record_times(t, e, n) ==
  FoldLeft(LAMBDA u, k : record_transition(u, e[1], e[2]), t, [k \in 1 .. n |-> k])
Replayed(saved, order) ==
  FoldLeft(LAMBDA t, e : record_times(t, e, saved[e]), <<>>, order)

(***************************************************************************)
(* ImportanceEngine: the values a new access may leave.  Which file has    *)
(* the lowest score, and goes when there are too many, is not modelled.    *)
(***************************************************************************)
record_score(s, ino) ==
  LET more(t) == With(t, ino, Value(t, ino, 0) + 1)
  IN  IF ino \notin DOMAIN s /\ Cardinality(DOMAIN s) >= MaxTracked
      THEN {more(Without(s, v)) : v \in DOMAIN s}
      ELSE {more(s)}

(***************************************************************************)
(* NeuralPrefetcher: its vocabulary, an output neuron for each entry, and  *)
(* the last files opened.                                                  *)
(***************************************************************************)
NewNetwork == [vocab |-> <<>>, recent |-> <<>>]
register(n, ino) == IF Contains(n.vocab, ino) THEN n ELSE [n EXCEPT !.vocab = Append(@, ino)]
learn(n, ino) ==
  LET seen == Append(n.recent, ino)
  IN  [register(n, ino) EXCEPT !.recent = IF Len(seen) > InputSize THEN Tail(seen) ELSE seen]


\* What is kept of a network, and what it is from then on: it has to see the
\* next files before it predicts.
to_bytes(n) == n.vocab
from_bytes(vocab) == [NewNetwork EXCEPT !.vocab = vocab]

-----------------------------------------------------------------------------
(***************************************************************************)
(* SearchIndex: a file's name and words, and in how many files a word is.  *)
(* A word of the name counts once for every time it is there, and again if *)
(* it is in the contents too; indexing by name alone takes nothing back.   *)
(***************************************************************************)
NewIndex == [files |-> <<>>, df |-> [w \in Word |-> 0]]

InName(name, w) == Cardinality({k \in DOMAIN name : name[k] = w})
Less(n) == IF n = 0 THEN 0 ELSE n - 1
WordsOf(s, ino) == IF ino \in DOMAIN s.files THEN s.files[ino].words ELSE {}

Indexed(s, ino, name, words, dropped) ==
  [files |-> With(s.files, ino, [name |-> name, words |-> words \cup Range(name)]),
   df |-> [w \in Word |-> (IF w \in dropped THEN Less(s.df[w]) ELSE s.df[w])
                            + (IF w \in words THEN 1 ELSE 0) + InName(name, w)]]

index_by_name(s, ino, name) == Indexed(s, ino, name, {}, {})

\* Mutant: the words that go are those that come.
IndexDroppingNew(s, ino, name, words) ==
  IF words = {} THEN index_by_name(s, ino, name)
  ELSE Indexed(s, ino, name, words, words \cup Range(name))
index(s, ino, name, words) ==
  IF words = {} THEN index_by_name(s, ino, name)
  ELSE Indexed(s, ino, name, words, WordsOf(s, ino))

remove(s, ino) ==
  [files |-> Without(s.files, ino),
   df |-> [w \in Word |-> IF w \in WordsOf(s, ino) THEN Less(s.df[w]) ELSE s.df[w]]]

\* A word of the contents only scores if not every file seems to have it.
search(s, w) ==
  {i \in DOMAIN s.files :
     \/ w \in s.files[i].words /\ s.df[w] < Cardinality(DOMAIN s.files)
     \/ w \in Range(s.files[i].name)}

-----------------------------------------------------------------------------
(***************************************************************************)
(* EntropyGuard.  A write is "short" (too small to be measured), "text",   *)
(* "packed", "dense" (from threshold_warn on) or "noise" (from             *)
(* threshold_crit on).  To state properties: the writes checked, and what  *)
(* the last of them was taken for.                                         *)
(***************************************************************************)
Class == {"short", "text", "packed", "dense", "noise"}
High == {"dense", "noise"}

NewGuard == [baseline |-> <<>>, recent |-> <<>>, threats |-> 0, writes |-> <<>>, level |-> "none"]

\* Mutant: a record as old as the window is dropped.
RecentWithin(g, ino, now) ==
  FoldLeft(LAMBDA kept, at : IF now - at < Window THEN Append(kept, at) ELSE kept,
           <<>>, Value(g.recent, ino, <<>>))
Retained(g, ino, now) ==
  FoldLeft(LAMBDA kept, at : IF now - at <= Window THEN Append(kept, at) ELSE kept,
           <<>>, Value(g.recent, ino, <<>>))

check_write(g, ino, name, class, now) ==
  LET first == Value(g.baseline, ino, class)
      named == name \in Suspicious
      crit  == class = "noise" /\ first = "text"
      warn  == class \in High /\ ~crit /\ ~named
      kept  == Append(Retained(g, ino, now), now)
      many  == class \in High /\ Len(kept) >= PatternCount
      One(b) == IF b THEN 1 ELSE 0
      seen  == [g EXCEPT !.writes = Append(@, [ino |-> ino, class |-> class, at |-> now])]
  IN  IF class = "short" THEN [seen EXCEPT !.level = "none"]
      ELSE [seen EXCEPT
        !.baseline = With(@, ino, first),
        !.recent   = IF class \in High THEN With(@, ino, kept) ELSE @,
        !.threats  = @ + One(named) + One(crit) + One(warn) + One(many),
        !.level    = IF many THEN "pattern" ELSE IF crit THEN "critical"
                     ELSE IF named THEN "extension" ELSE IF warn THEN "warning" ELSE "none"]

\* What the last write is, by the writes before it.
Level(writes, name) ==
  LET last  == writes[Len(writes)]
      same  == {k \in DOMAIN writes : writes[k].ino = last.ino /\ writes[k].class # "short"}
      near  == {k \in same : writes[k].class \in High /\ last.at - writes[k].at <= Window}
      first == CHOOSE k \in same : \A j \in same : k <= j
  IN  IF last.class = "short" THEN "none"
      ELSE IF last.class \in High /\ Cardinality(near) >= PatternCount THEN "pattern"
      ELSE IF last.class = "noise" /\ writes[first].class = "text" THEN "critical"
      ELSE IF name \in Suspicious THEN "extension"
      ELSE IF last.class \in High THEN "warning" ELSE "none"
=============================================================================
