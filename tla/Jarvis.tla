------------------------------- MODULE Jarvis -------------------------------
(***************************************************************************)
(* The brief made at the end of a session: WorkspaceModel                  *)
(* (ai/workspace.rs), drawn from the memory and from how often each file   *)
(* was opened and written in the session, and the suggestions JarvisEngine *)
(* (ai/jarvis.rs) makes of it.  A suggestion is its priority, its kind and *)
(* the files it names; the texts, and the order, are left out.             *)
(*                                                                         *)
(* What depends on the order a hash map iterates in is the set of what it  *)
(* may be.                                                                 *)
(***************************************************************************)
EXTENDS Integers, FiniteSets, FiniteSetsExt

CONSTANTS
  StallOpens,    \* MIN_OPENS_FOR_STALL
  ExploreFiles,  \* the files of a session that make it an exploration
  NeglectDays,   \* the days after which a project counts as neglected
  NeglectFiles,  \* of whose files a suggestion names the first,
  WarmFiles      \* as it does of those of a project to be read ahead

Value(f, x, default) == IF x \in DOMAIN f THEN f[x] ELSE default

-----------------------------------------------------------------------------
(***************************************************************************)
(* Projects: the groups of files found in memory m.                        *)
(***************************************************************************)
\* Mutant: a project is as old as the file longest untouched.
FirstActive(m, g) == Min({Value(m.streaks, i, [last |-> 0]).last : i \in g})
LastActive(m, g) == Max({Value(m.streaks, i, [last |-> 0]).last : i \in g})

days_inactive(m, g, today) == IF LastActive(m, g) > 0 THEN today - LastActive(m, g) ELSE 0

Opens(m, i) == Value(m.opens, i, 0)
MostOpened(m, g) == {i \in g : \A j \in g : Opens(m, j) <= Opens(m, i)}

\* It was active if its files were opened once on average.
Project(m, g, i, today) ==
  [name |-> m.names[i], files |-> g, days |-> days_inactive(m, g, today),
   active |-> MapThenSumSet(LAMBDA j : Opens(m, j), g) >= Cardinality(g)]

Projects(m, groups, today) ==
  {{Project(m, g, first[g], today) : g \in groups} :
     first \in {f \in [groups -> UNION groups] : \A g \in groups : f[g] \in MostOpened(m, g)}}

-----------------------------------------------------------------------------
(***************************************************************************)
(* The session, by the opens and writes of each file.                      *)
(***************************************************************************)
Named(m, S) == S \cap DOMAIN m.names

Reopened(m, opens, writes) ==
  Named(m, {i \in DOMAIN opens : opens[i] >= 3 /\ Value(writes, i, 0) = 0})

Kind(m, opens, writes) ==
  LET files == Cardinality(DOMAIN opens)
      made  == MapThenSumSet(LAMBDA i : writes[i], DOMAIN writes)
  IN  IF Reopened(m, opens, writes) # {} THEN "debugging"
      ELSE IF files <= 3 /\ made >= 5 THEN "focus"
      ELSE IF files >= ExploreFiles /\ made <= files THEN "exploration" ELSE "mixed"

\* The name of the project that had most files opened, if there is one.
Primary(projects, opens) ==
  LET had(p) == Cardinality(p.files \cap DOMAIN opens)
  IN  {{p.name} : p \in {p \in projects : \A q \in projects : had(q) <= had(p)}}
        \cup (IF projects = {} THEN {{}} ELSE {})

profile_session(m, opens, writes, projects) ==
  {[kind |-> Kind(m, opens, writes), primary |-> primary,
    reopened |-> Reopened(m, opens, writes), made |-> DOMAIN writes] :
     primary \in Primary(projects, opens)}

\* Many opens, hardly a write.
detect_stalls(m, opens, writes) ==
  {i \in Named(m, DOMAIN opens) :
     Opens(m, i) >= StallOpens /\ opens[i] >= 2 /\ Value(writes, i, 0) <= 1}

Unfinished(m, opens, writes) ==
  Named(m, {i \in DOMAIN opens : opens[i] >= 2 /\ Value(writes, i, 0) > 0})

\* What recompute may make of it.
recompute(m, opens, writes, groups, today) ==
  UNION {{[projects |-> projects, last_session |-> session,
           stalls     |-> [i \in detect_stalls(m, opens, writes) |-> opens[i]],
           unfinished |-> Unfinished(m, opens, writes)] :
            session \in profile_session(m, opens, writes, projects)} :
         projects \in Projects(m, groups, today)}

-----------------------------------------------------------------------------
(***************************************************************************)
(* The suggestions that may be drawn from model w.                         *)
(***************************************************************************)
Suggestion(priority, kind, files) == [priority |-> priority, kind |-> kind, files |-> files]

check_stalls(w) ==
  {Suggestion(IF w.stalls[i] >= 5 THEN "high" ELSE "medium", "stall", {i}) : i \in DOMAIN w.stalls}

check_continuity(w) ==
  IF w.unfinished = {} THEN {} ELSE {Suggestion("medium", "continuity", w.unfinished)}

\* The first most files of a project, which are in no order.
First(files, most) ==
  IF Cardinality(files) <= most THEN {files} ELSE {S \in SUBSET files : Cardinality(S) = most}

check_neglect(w) ==
  LET neglected == {p \in w.projects : p.days >= NeglectDays /\ p.active}
  IN  {{Suggestion(IF p.days > 14 THEN "medium" ELSE "low", "neglect", first[p]) : p \in neglected} :
         first \in {f \in [neglected -> SUBSET UNION {p.files : p \in neglected}] :
                     \A p \in neglected : f[p] \in First(p.files, NeglectFiles)}}

check_focus_pattern(w) ==
  LET s == w.last_session
  IN  IF s.kind = "debugging" THEN {Suggestion("medium", "focus", s.reopened)}
      ELSE IF s.kind = "exploration" /\ s.made = {} THEN {Suggestion("low", "focus", {})} ELSE {}

\* The first project of the name is taken, which may not be the only one; it has
\* more than one file, as all have.
check_prewarm(w) ==
  LET primary == {p \in w.projects : p.name \in w.last_session.primary}
  IN  IF primary = {} THEN {{}}
      ELSE UNION {{{Suggestion("low", "prewarm", S)} : S \in First(p.files, WarmFiles)} : p \in primary}

analyse(w) ==
  {check_stalls(w) \cup check_continuity(w) \cup neglect \cup check_focus_pattern(w) \cup warm :
     neglect \in check_neglect(w), warm \in check_prewarm(w)}
=============================================================================
