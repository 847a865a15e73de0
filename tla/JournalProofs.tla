--------------------------- MODULE JournalProofs ---------------------------
(***************************************************************************)
(* Proofs about Journal, for every journal size, set of locations and      *)
(* number of crashes: the type invariant, and, for the crash windows in    *)
(* which the code keeps its promise (Windows = {}), that transaction ids   *)
(* are fresh, that the journal has no stale tail, and the write-ahead rule.*)
(* Then that the journal is durable: between operations, the next mount    *)
(* makes of the disk exactly what is on it; that it implements the atomic  *)
(* store of AtomicStore; and that, with a reserve of at least one slot, the*)
(* checkpoint keeps room in it, unless entries of a dead transaction clog  *)
(* it.                                                                     *)
(***************************************************************************)
EXTENDS Journal, WellFoundedInduction, TLAPS

-----------------------------------------------------------------------------
(***************************************************************************)
(* The inductive invariant, part by part.                                  *)
(***************************************************************************)

\* What the control state says about the transaction in progress.
ControlOK ==
  /\ phase \in {"append", "header"} =>
       Len(writes) > 0 /\ cursor <= Len(writes) /\ nextTx > 0
  /\ phase = "append" => cursor <= next_slot
  /\ phase = "header" => cursor < next_slot
  /\ phase = "apply" => cursor < Len(writes) /\ nextTx > 0
  /\ phase = "zero" => cursor < MaxEntries /\ next_slot = 0
  /\ phase = "replay" => cursor <= next_slot

TypeInv == TypeOK /\ ControlOK

LEMMA WritesTyped ==
  ASSUME NEW ws \in InodeWrites \cup DataWrites
  PROVE  ws \in Seq(Write) /\ Len(ws) > 0
<1>1. CASE ws \in InodeWrites
  <2>1. PICK w \in Write : ws = <<w>>
    BY <1>1 DEF InodeWrites
  <2> QED
    BY <2>1
<1>2. CASE ws \in DataWrites
  <2>1. PICK e \in Extents : \E v \in [DOMAIN e -> Val] :
              ws = [k \in DOMAIN e |-> [loc |-> e[k], val |-> v[k]]]
    BY <1>2 DEF DataWrites
  <2>v. PICK v \in [DOMAIN e -> Val] :
              ws = [k \in DOMAIN e |-> [loc |-> e[k], val |-> v[k]]]
    BY <2>1
  <2>2. e \in Seq(Loc) /\ e # <<>>
    BY JournalAssumption
  <2>3. DOMAIN e = 1..Len(e) /\ Len(e) \in Nat /\ Len(e) > 0
    BY <2>2
  <2>4. \A k \in 1..Len(e) : [loc |-> e[k], val |-> v[k]] \in Write
    BY <2>2, <2>3 DEF Write
  <2> QED
    BY <2>v, <2>3, <2>4
<1> QED
  BY <1>1, <1>2

LEMMA FreeTyped == FreeEntry \in Entry
BY DEF FreeEntry, Entry

LEMMA LoggedTyped ==
  ASSUME NEW t \in Nat, NEW w \in Write
  PROVE  WriteEntry(t, w) \in Entry /\ CommitEntry(t) \in Entry
BY DEF WriteEntry, CommitEntry, Entry, Write

LEMMA InitTypeInv == Init => TypeInv
BY JournalAssumption, FreeTyped DEF Init, TypeInv, TypeOK, ControlOK, Phases

LEMMA NextTypeInv == TypeInv /\ [Next]_vars => TypeInv'
<1> SUFFICES ASSUME TypeInv, [Next]_vars PROVE TypeInv'
  OBVIOUS
<1> USE JournalAssumption
<1> DEFINE Beginning(ws) == ws \in InodeWrites \cup DataWrites /\ Begin(ws)
<1>1. ASSUME NEW ws, Beginning(ws) PROVE TypeInv'
  <2>1. ws \in Seq(Write) /\ Len(ws) > 0
    BY <1>1, WritesTyped
  <2> QED
    BY <1>1, <2>1 DEF Begin, TypeInv, TypeOK, ControlOK, Phases
<1>2. ASSUME NEW ws \in DataWrites, WriteFileDataFull(ws) PROVE TypeInv'
  BY <1>2 DEF WriteFileDataFull, TypeInv, TypeOK, ControlOK
<1>3. CASE AppendEntry
  <2>1. next_slot \in Slots /\ next_slot + 1 \in 0..MaxEntries
    BY <1>3 DEF AppendEntry, JournalFull, TypeInv, TypeOK, Slots
  <2>2. cursor < Len(writes) => writes[cursor + 1] \in Write
    BY DEF TypeInv, TypeOK
  <2>3. nextTx - 1 \in Nat
    BY <1>3 DEF AppendEntry, TypeInv, TypeOK, ControlOK
  <2> DEFINE new == IF cursor < Len(writes) THEN WriteEntry(nextTx - 1, writes[cursor + 1])
                                            ELSE CommitEntry(nextTx - 1)
  <2>4. new \in Entry
    BY <2>2, <2>3, LoggedTyped DEF CommitEntry, Entry
  <2>5. entries' = [entries EXCEPT ![next_slot] = new]
    BY <1>3 DEF AppendEntry
  <2> HIDE DEF new
  <2>6. entries' \in [Slots -> Entry]
    BY <2>1, <2>4, <2>5 DEF TypeInv, TypeOK
  <2> QED
    BY <1>3, <2>1, <2>6 DEF AppendEntry, TypeInv, TypeOK, ControlOK, Phases
<1>4. CASE AppendFull
  BY <1>4 DEF AppendFull, TypeInv, TypeOK, ControlOK, Phases
<1>5. CASE WriteHeader
  BY <1>5 DEF WriteHeader, PersistedTx, LoggedAll, TypeInv, TypeOK, ControlOK, Phases
<1>6. CASE ApplyInPlace
  <2>1. writes[cursor + 1] \in Write
    BY <1>6 DEF ApplyInPlace, TypeInv, TypeOK, ControlOK
  <2>2. home' \in [Loc -> Val]
    BY <1>6, <2>1 DEF ApplyInPlace, TypeInv, TypeOK, Write
  <2>3. CASE cursor + 1 < Len(writes)
    BY <1>6, <2>2, <2>3 DEF ApplyInPlace, TypeInv, TypeOK, ControlOK, Phases
  <2>4. CASE ~(cursor + 1 < Len(writes))
    <3>1. writes' = <<>> /\ cursor' = 0 /\ phase' \in {"clear", "idle"}
      BY <1>6, <2>4 DEF ApplyInPlace
    <3> QED
      BY <1>6, <2>2, <3>1 DEF ApplyInPlace, TypeInv, TypeOK, ControlOK, Phases
  <2> QED
    BY <2>3, <2>4
<1>7. CASE ClearHeader
  BY <1>7 DEF ClearHeader, TypeInv, TypeOK, ControlOK, Phases
<1>8. CASE ZeroEntry
  <2>1. entries' \in [Slots -> Entry]
    BY <1>8, FreeTyped DEF ZeroEntry, TypeInv, TypeOK
  <2> QED
    BY <1>8, <2>1 DEF ZeroEntry, ZeroedAll, TypeInv, TypeOK, ControlOK, Phases
<1>9. CASE Crash
  BY <1>9 DEF Crash, diskVars, TypeInv, TypeOK, ControlOK, Phases
<1>10. CASE Open
  BY <1>10 DEF Open, TypeInv, TypeOK, ControlOK, Phases
<1>11. CASE ReplayEntry
  <2>1. ASSUME Replayable(cursor) PROVE entries[cursor].val \in Val
    <3>1. cursor \in Slots
      BY <1>11 DEF ReplayEntry, TypeInv, TypeOK, Slots
    <3>2. entries[cursor] \in Entry /\ entries[cursor].type = "write"
      BY <2>1, <3>1 DEF TypeInv, TypeOK, Replayable
    <3> QED
      BY <3>2 DEF Entry, FreeEntry
  <2>2. home' \in [Loc -> Val]
    BY <1>11, <2>1 DEF ReplayEntry, TypeInv, TypeOK
  <2> QED
    BY <1>11, <2>2 DEF ReplayEntry, TypeInv, TypeOK, ControlOK, Phases
<1>12. CASE ReplayDone
  BY <1>12 DEF ReplayDone, TypeInv, TypeOK, ControlOK, Phases
<1>13. CASE UNCHANGED vars
  BY <1>13 DEF vars, TypeInv, TypeOK, ControlOK
<1> QED
  BY <1>1, <1>2, <1>3, <1>4, <1>5, <1>6, <1>7, <1>8, <1>9, <1>10, <1>11, <1>12, <1>13
     DEF Next, Request, Step, WriteInode, WriteFileData

(***************************************************************************)
(* THEOREM: the journal never runs past its region, and every variable has *)
(* its type, whatever crash windows are admitted.                          *)
(***************************************************************************)
THEOREM TypeCorrect == Spec => []TypeOK
<1>1. TypeInv => TypeOK
  BY DEF TypeInv
<1> QED
  BY <1>1, InitTypeInv, NextTypeInv, PTL DEF Spec

-----------------------------------------------------------------------------
\* The entries on disk are the slots lo..n-1, where lo moves while clear() zeroes.
Lo == IF phase = "zero" THEN cursor ELSE 0
Filled(n) == \A i \in Slots : Used(i) <=> (Lo <= i /\ i < n)
PrefixInv ==
  /\ phase \notin {"zero", "down"} => Filled(next_slot)
  /\ phase \in {"zero", "down"} => \E n \in 0..MaxEntries : Filled(n)

\* Ids on disk are below the one that comes next, in memory and in the header.
IdInv ==
  /\ phase # "down" => hdrTx <= nextTx
  /\ phase # "down" => \A i \in Slots : Used(i) => entries[i].tx < nextTx
  /\ ~HalfOpenTx => \A i \in Slots : Used(i) => entries[i].tx < hdrTx
  /\ phase \in {"append", "header"} /\ cursor > 0 => hdrTx = nextTx
  /\ phase \in {"apply", "clear", "zero", "replay"} => hdrTx = nextTx

\* The last n entries are the first n of the transaction in progress.
TxEntry(k) == IF k <= Len(writes) THEN WriteEntry(nextTx - 1, writes[k])
                                  ELSE CommitEntry(nextTx - 1)
Logged(n) ==
  n <= next_slot /\ \A k \in 1..n : entries[next_slot - n + k - 1] = TxEntry(k)
LogInv ==
  /\ phase = "append" => Logged(cursor)
  /\ phase = "header" => Logged(cursor + 1)
  /\ phase = "apply" => Logged(Len(writes) + 1)

SafeWindows == Windows = {}

LEMMA UsedAfterAppend ==
  ASSUME TypeInv, AppendEntry
  PROVE  /\ next_slot \in Slots
         /\ entries' = [entries EXCEPT ![next_slot] = TxEntry(cursor + 1)]
         /\ TxEntry(cursor + 1).type # "free"
         /\ TxEntry(cursor + 1).tx = nextTx - 1
<1> USE JournalAssumption
<1>1. next_slot \in Slots
  BY DEF AppendEntry, JournalFull, TypeInv, TypeOK, Slots
<1>2. cursor < Len(writes) <=> cursor + 1 <= Len(writes)
  BY DEF TypeInv, TypeOK
<1>3. entries' = [entries EXCEPT ![next_slot] = TxEntry(cursor + 1)]
  BY <1>2 DEF AppendEntry, TxEntry
<1> QED
  BY <1>1, <1>3 DEF TxEntry, WriteEntry, CommitEntry

LEMMA PrefixStep == TypeInv /\ PrefixInv /\ SafeWindows /\ [Next]_vars => PrefixInv'
<1> SUFFICES ASSUME TypeInv, PrefixInv, SafeWindows, [Next]_vars PROVE PrefixInv'
  OBVIOUS
<1> USE JournalAssumption
<1>1. ASSUME NEW ws, Begin(ws) PROVE PrefixInv'
  BY <1>1 DEF Begin, PrefixInv, Filled, Lo, Used
<1>2. ASSUME NEW ws \in DataWrites, WriteFileDataFull(ws) PROVE PrefixInv'
  BY <1>2 DEF WriteFileDataFull, PrefixInv, Filled, Lo, Used
<1>3. CASE AppendEntry
  <2>1. Filled(next_slot) /\ phase' = "header" /\ next_slot' = next_slot + 1
    BY <1>3 DEF AppendEntry, PrefixInv
  <2>2. \A i \in Slots : Used(i)' <=> (Used(i) \/ i = next_slot)
    BY <1>3, UsedAfterAppend DEF Used, TypeInv, TypeOK
  <2> QED
    BY <1>3, <2>1, <2>2 DEF AppendEntry, PrefixInv, Filled, Lo, TypeInv, TypeOK, Slots
<1>4. CASE AppendFull
  BY <1>4 DEF AppendFull, PrefixInv, Filled, Lo, Used
<1>5. CASE WriteHeader
  BY <1>5 DEF WriteHeader, PrefixInv, Filled, Lo, Used
<1>6. CASE ApplyInPlace
  <2>1. phase' \in {"apply", "clear", "idle"} /\ UNCHANGED <<entries, next_slot>>
    BY <1>6 DEF ApplyInPlace
  <2> QED
    BY <1>6, <2>1 DEF ApplyInPlace, PrefixInv, Filled, Lo, Used
<1>7. CASE ClearHeader
  BY <1>7 DEF ClearHeader, PrefixInv, Filled, Lo, Used, TypeInv, TypeOK
<1>8. CASE ZeroEntry
  <2>1. PICK n \in 0..MaxEntries : Filled(n)
    BY <1>8 DEF ZeroEntry, PrefixInv
  <2>2. \A i \in Slots : Used(i)' <=> (Used(i) /\ i # cursor)
    BY <1>8 DEF ZeroEntry, Used, FreeEntry, TypeInv, TypeOK
  <2>3. CASE ZeroedAll
    <3>1. \A i \in Slots : ~Used(i)'
      BY <1>8, <2>1, <2>2, <2>3 DEF ZeroEntry, ZeroedAll, Filled, Lo, Slots, TypeInv, TypeOK, ControlOK
    <3>2. phase' = "idle" /\ next_slot' = 0
      BY <1>8, <2>3 DEF ZeroEntry, TypeInv, ControlOK
    <3> QED
      BY <3>1, <3>2 DEF PrefixInv, Filled, Lo, Slots
  <2>4. CASE ~ZeroedAll
    <3>1. phase' = "zero" /\ cursor' = cursor + 1
      BY <1>8, <2>4 DEF ZeroEntry
    <3>2. \A i \in Slots : Used(i)' <=> (cursor + 1 <= i /\ i < n)
      BY <1>8, <2>1, <2>2 DEF ZeroEntry, Filled, Lo, Slots, TypeInv, TypeOK
    <3> QED
      BY <2>1, <3>1, <3>2 DEF PrefixInv, Filled, Lo
  <2> QED
    BY <2>3, <2>4
<1>9. CASE Crash
  <2>1. phase # "down" /\ phase' = "down" /\ entries' = entries
    BY <1>9 DEF Crash, diskVars
  <2>2. CASE phase # "zero"
    BY <2>1, <2>2 DEF PrefixInv, Filled, Lo, Used, TypeInv, TypeOK
  <2>3. CASE phase = "zero"
    <3>1. PICK n \in 0..MaxEntries : Filled(n)
      BY <2>3 DEF PrefixInv
    <3>2. ~HalfCleared
      BY <1>9 DEF Crash, SafeWindows
    <3>3. CASE cursor = 0
      BY <2>1, <2>3, <3>1, <3>3 DEF PrefixInv, Filled, Lo, Used
    <3>4. CASE cursor > 0
      <4>1. \A i \in Slots : ~Used(i)
        BY <2>3, <3>1, <3>2, <3>4 DEF HalfCleared, Filled, Lo
      <4> QED
        BY <2>1, <4>1 DEF PrefixInv, Filled, Lo, Used, Slots
    <3> QED
      BY <3>3, <3>4 DEF TypeInv, TypeOK
  <2> QED
    BY <2>2, <2>3
<1>10. CASE Open
  <2>1. PICK n0 \in 0..MaxEntries : Filled(n0)
    BY <1>10 DEF Open, PrefixInv
  <2>2. PICK n \in 0..MaxEntries :
          /\ \A i \in 0..(n - 1) : Used(i)
          /\ n < MaxEntries => ~Used(n)
          /\ next_slot' = n
    BY <1>10 DEF Open
  <2>3. \A i \in Slots : Used(i) <=> i < n0
    BY <1>10, <2>1 DEF Open, Filled, Lo, Slots
  <2>4. n0 < MaxEntries => n0 \in Slots /\ ~Used(n0)
    BY <2>3 DEF Slots, Used
  <2>5. ~(n0 < n)
    BY <2>2, <2>4 DEF Used
  <2>6. ~(n < n0)
    <3>1. n < n0 => n \in Slots /\ Used(n)
      BY <2>3 DEF Slots, Used
    <3> QED
      BY <2>2, <3>1 DEF Used
  <2>7. n = n0
    BY <2>5, <2>6
  <2>8. phase' = "replay" /\ entries' = entries /\ next_slot' = n0
    BY <1>10, <2>2, <2>7 DEF Open
  <2>9. \A i \in Slots : Used(i)' <=> i < n0
    BY <2>3, <2>8 DEF Used
  <2> QED
    BY <2>8, <2>9 DEF PrefixInv, Filled, Lo, Slots
<1>11. CASE ReplayEntry
  BY <1>11 DEF ReplayEntry, PrefixInv, Filled, Lo, Used
<1>12. CASE ReplayDone
  BY <1>12 DEF ReplayDone, PrefixInv, Filled, Lo, Used
<1>13. CASE UNCHANGED vars
  BY <1>13 DEF vars, PrefixInv, Filled, Lo, Used
<1> QED
  BY <1>1, <1>2, <1>3, <1>4, <1>5, <1>6, <1>7, <1>8, <1>9, <1>10, <1>11, <1>12, <1>13
     DEF Next, Request, Step, WriteInode, WriteFileData

LEMMA IdStep == TypeInv /\ IdInv /\ SafeWindows /\ [Next]_vars => IdInv'
<1> SUFFICES ASSUME TypeInv, IdInv, SafeWindows, [Next]_vars PROVE IdInv'
  OBVIOUS
<1> USE JournalAssumption DEF HalfOpenTx
<1>1. ASSUME NEW ws, Begin(ws) PROVE IdInv'
  <2>1. \A i \in Slots : entries[i].tx \in Nat
    BY DEF TypeInv, TypeOK, Entry, FreeEntry
  <2> QED
    BY <1>1, <2>1 DEF Begin, IdInv, Used, TypeInv, TypeOK
<1>2. ASSUME NEW ws \in DataWrites, WriteFileDataFull(ws) PROVE IdInv'
  <2>1. \A i \in Slots : entries[i].tx \in Nat
    BY DEF TypeInv, TypeOK, Entry, FreeEntry
  <2> QED
    BY <1>2, <2>1 DEF WriteFileDataFull, IdInv, Used, TypeInv, TypeOK
<1>3. CASE AppendEntry
  <2>1. \A i \in Slots : Used(i)' => entries'[i].tx = nextTx - 1 \/ (Used(i) /\ entries'[i] = entries[i])
    BY <1>3, UsedAfterAppend DEF Used, TypeInv, TypeOK
  <2>2. phase' = "header" /\ UNCHANGED <<hdrTx, nextTx, cursor>>
    BY <1>3 DEF AppendEntry
  <2> QED
    BY <1>3, <2>1, <2>2 DEF AppendEntry, IdInv, TypeInv, TypeOK, ControlOK
<1>4. CASE AppendFull
  BY <1>4 DEF AppendFull, IdInv, Used
<1>5. CASE WriteHeader
  BY <1>5 DEF WriteHeader, PersistedTx, IdInv, Used, TypeInv, TypeOK
<1>6. CASE ApplyInPlace
  <2>1. phase' \in {"apply", "clear", "idle"} /\ UNCHANGED <<entries, hdrTx, nextTx>>
    BY <1>6 DEF ApplyInPlace
  <2> QED
    BY <1>6, <2>1 DEF ApplyInPlace, IdInv, Used
<1>7. CASE ClearHeader
  BY <1>7 DEF ClearHeader, IdInv, Used, TypeInv, TypeOK
<1>8. CASE ZeroEntry
  <2>1. \A i \in Slots : Used(i)' => Used(i) /\ entries'[i] = entries[i]
    BY <1>8 DEF ZeroEntry, Used, FreeEntry, TypeInv, TypeOK
  <2>2. phase' \in {"zero", "idle"} /\ UNCHANGED <<hdrTx, nextTx>>
    BY <1>8 DEF ZeroEntry
  <2> QED
    BY <1>8, <2>1, <2>2 DEF ZeroEntry, IdInv
<1>9. CASE Crash
  <2>1. ~HalfOpenTx
    BY <1>9 DEF Crash, SafeWindows
  <2> QED
    BY <1>9, <2>1 DEF Crash, diskVars, IdInv, Used
<1>10. CASE Open
  BY <1>10 DEF Open, IdInv, Used, TypeInv, TypeOK
<1>11. CASE ReplayEntry
  BY <1>11 DEF ReplayEntry, IdInv, Used
<1>12. CASE ReplayDone
  BY <1>12 DEF ReplayDone, IdInv, Used
<1>13. CASE UNCHANGED vars
  BY <1>13 DEF vars, IdInv, Used
<1> QED
  BY <1>1, <1>2, <1>3, <1>4, <1>5, <1>6, <1>7, <1>8, <1>9, <1>10, <1>11, <1>12, <1>13
     DEF Next, Request, Step, WriteInode, WriteFileData

LEMMA LogStep == TypeInv /\ LogInv /\ [Next]_vars => LogInv'
<1> SUFFICES ASSUME TypeInv, LogInv, [Next]_vars PROVE LogInv'
  OBVIOUS
<1> USE DEF LogInv, Logged
<1>1. ASSUME NEW ws, Begin(ws) PROVE LogInv'
  BY <1>1 DEF Begin, TypeInv, TypeOK
<1>2. ASSUME NEW ws \in DataWrites, WriteFileDataFull(ws) PROVE LogInv'
  BY <1>2 DEF WriteFileDataFull
<1>3. CASE AppendEntry
  <2>1. /\ phase = "append" /\ phase' = "header" /\ next_slot' = next_slot + 1
        /\ UNCHANGED <<nextTx, writes, cursor>>
    BY <1>3 DEF AppendEntry
  <2>2. cursor <= next_slot /\ next_slot \in Slots /\ cursor \in Nat
    BY <1>3, <2>1, UsedAfterAppend DEF TypeInv, TypeOK, ControlOK
  <2>3. \A k : TxEntry(k)' = TxEntry(k)
    BY <2>1 DEF TxEntry
  <2>4. entries'[next_slot] = TxEntry(cursor + 1)
    BY <1>3, <2>2, UsedAfterAppend DEF TypeInv, TypeOK
  <2>n. next_slot \in Nat
    BY JournalAssumption DEF TypeInv, TypeOK
  <2>5. \A k \in 1..cursor : entries'[next_slot - cursor + k - 1] = TxEntry(k)
    <3> SUFFICES ASSUME NEW k \in 1..cursor
                 PROVE  entries'[next_slot - cursor + k - 1] = TxEntry(k)
      OBVIOUS
    <3>1. next_slot - cursor + k - 1 \in Slots \ {next_slot}
      BY <2>2, <2>n, JournalAssumption DEF Slots
    <3>2. entries[next_slot - cursor + k - 1] = TxEntry(k)
      BY <2>1
    <3>3. \A i \in Slots \ {next_slot} : entries'[i] = entries[i]
      BY <1>3, <2>2, UsedAfterAppend DEF TypeInv, TypeOK
    <3> QED
      BY <3>1, <3>2, <3>3
  <2>6. \A k \in 1..(cursor + 1) : entries'[next_slot + 1 - (cursor + 1) + k - 1] = TxEntry(k)
    <3> SUFFICES ASSUME NEW k \in 1..(cursor + 1)
                 PROVE  entries'[next_slot + 1 - (cursor + 1) + k - 1] = TxEntry(k)
      OBVIOUS
    <3>1. CASE k = cursor + 1
      BY <2>2, <2>4, <2>n, <3>1
    <3>2. CASE k # cursor + 1
      <4>1. k \in 1..cursor /\ next_slot + 1 - (cursor + 1) + k - 1 = next_slot - cursor + k - 1
        BY <2>2, <2>n, <3>2
      <4> QED
        BY <2>5, <4>1
    <3> QED
      BY <3>1, <3>2
  <2> QED
    BY <2>1, <2>2, <2>3, <2>6, <2>n
<1>4. CASE AppendFull
  BY <1>4 DEF AppendFull
<1>5. CASE WriteHeader
  <2>1. UNCHANGED <<entries, next_slot, nextTx, writes>> /\ Logged(cursor + 1)
    BY <1>5 DEF WriteHeader
  <2>2. \A n : Logged(n)' <=> Logged(n)
    BY <2>1 DEF TxEntry
  <2>3. CASE LoggedAll
    <3>1. cursor + 1 = Len(writes) + 1
      BY <1>5, <2>3 DEF WriteHeader, LoggedAll, TypeInv, TypeOK, ControlOK
    <3> QED
      BY <1>5, <2>1, <2>2, <2>3, <3>1 DEF WriteHeader
  <2>4. CASE ~LoggedAll
    BY <1>5, <2>1, <2>2, <2>4 DEF WriteHeader
  <2> QED
    BY <2>3, <2>4
<1>6. CASE ApplyInPlace
  <2>1. CASE cursor + 1 < Len(writes)
    BY <1>6, <2>1 DEF ApplyInPlace, TxEntry
  <2>2. CASE ~(cursor + 1 < Len(writes))
    BY <1>6, <2>2 DEF ApplyInPlace
  <2> QED
    BY <2>1, <2>2
<1>7. CASE ClearHeader
  BY <1>7 DEF ClearHeader
<1>8. CASE ZeroEntry
  BY <1>8 DEF ZeroEntry
<1>9. CASE Crash
  BY <1>9 DEF Crash
<1>10. CASE Open
  BY <1>10 DEF Open
<1>11. CASE ReplayEntry
  BY <1>11 DEF ReplayEntry
<1>12. CASE ReplayDone
  BY <1>12 DEF ReplayDone
<1>13. CASE UNCHANGED vars
  BY <1>13 DEF vars, TxEntry
<1> QED
  BY <1>1, <1>2, <1>3, <1>4, <1>5, <1>6, <1>7, <1>8, <1>9, <1>10, <1>11, <1>12, <1>13
     DEF Next, Request, Step, WriteInode, WriteFileData

IInv == TypeInv /\ PrefixInv /\ IdInv /\ LogInv

LEMMA InitIInv == Init => IInv
<1> SUFFICES ASSUME Init PROVE IInv
  OBVIOUS
<1>1. TypeInv
  BY InitTypeInv
<1>2. PrefixInv
  BY JournalAssumption DEF Init, PrefixInv, Filled, Lo, Used, FreeEntry, Slots
<1>3. IdInv
  BY DEF Init, IdInv, Used, FreeEntry
<1>4. LogInv
  BY DEF Init, LogInv
<1> QED
  BY <1>1, <1>2, <1>3, <1>4 DEF IInv

LEMMA NextIInv == SafeWindows /\ IInv /\ [Next]_vars => IInv'
BY NextTypeInv, PrefixStep, IdStep, LogStep DEF IInv

LEMMA Inductive ==
  ASSUME SafeWindows
  PROVE  Spec => []IInv
<1>1. IInv /\ [Next]_vars => IInv'
  BY NextIInv
<1> QED
  BY InitIInv, <1>1, PTL DEF Spec

(***************************************************************************)
(* THEOREM: outside the two unsafe crash windows no entry on disk carries  *)
(* an id that begin() can still hand out.                                  *)
(***************************************************************************)
THEOREM FreshIds ==
  ASSUME SafeWindows
  PROVE  Spec => []TxIdsFresh
<1>1. IInv => TxIdsFresh
  BY DEF IInv, IdInv, TxIdsFresh
<1> QED
  BY <1>1, Inductive, PTL

(***************************************************************************)
(* THEOREM: outside them the entries on disk are the slots below next_slot.*)
(***************************************************************************)
THEOREM NoTail ==
  ASSUME SafeWindows
  PROVE  Spec => []NoStaleTail
<1>1. IInv => NoStaleTail
  <2> SUFFICES ASSUME IInv, phase \notin {"zero", "down"}, NEW i \in Slots
               PROVE  Used(i) <=> i < next_slot
    BY DEF NoStaleTail
  <2> QED
    BY JournalAssumption DEF IInv, PrefixInv, Filled, Lo, Slots
<1> QED
  BY <1>1, Inductive, PTL

-----------------------------------------------------------------------------
Covered(l, v) == \E i \in Slots : Replayable(i) /\ entries[i].loc = l /\ entries[i].val = v

\* What is written in place has its entry, and its commit entry, in the journal.
AppliedSlot == next_slot - (Len(writes) + 1) + cursor
LEMMA AppliedEntry ==
  ASSUME IInv, ApplyInPlace
  PROVE  /\ AppliedSlot \in Slots
         /\ Replayable(AppliedSlot)
         /\ entries[AppliedSlot] = WriteEntry(nextTx - 1, writes[cursor + 1])
<1> DEFINE n == Len(writes) + 1
           i == next_slot - n + cursor
           c == next_slot - 1
<1>1. /\ cursor \in Nat /\ cursor < Len(writes) /\ Len(writes) \in Nat
      /\ next_slot \in 0..MaxEntries /\ phase = "apply"
  BY DEF ApplyInPlace, IInv, TypeInv, TypeOK, ControlOK
<1>2. n <= next_slot /\ \A k \in 1..n : entries[next_slot - n + k - 1] = TxEntry(k)
  BY <1>1 DEF IInv, LogInv, Logged
<1>3. i \in Slots /\ c \in Slots /\ i < c
  BY <1>1, <1>2, JournalAssumption DEF Slots
<1>4. entries[i] = WriteEntry(nextTx - 1, writes[cursor + 1])
  <2>1. cursor + 1 \in 1..n /\ next_slot - n + (cursor + 1) - 1 = i
    BY <1>1
  <2>2. entries[i] = TxEntry(cursor + 1)
    BY <1>2, <2>1
  <2> QED
    BY <1>1, <2>2 DEF TxEntry
<1>5. entries[c] = CommitEntry(nextTx - 1)
  <2>1. n \in 1..n /\ next_slot - n + n - 1 = c /\ ~(n <= Len(writes))
    BY <1>1
  <2>2. entries[c] = TxEntry(n)
    BY <1>2, <2>1
  <2> QED
    BY <2>1, <2>2 DEF TxEntry
<1>6. \A j \in Slots : j < next_slot => Used(j)
  BY <1>1 DEF IInv, PrefixInv, Filled, Lo, Slots
<1>7. Scanned(i) /\ Scanned(c)
  <2>1. \A j \in 0..c : j \in Slots /\ j < next_slot
    BY <1>1, JournalAssumption DEF Slots
  <2>2. \A j \in 0..c : Used(j)
    BY <1>6, <2>1 DEF Used
  <2>3. \A j \in 0..i : j \in 0..c
    BY <1>1, <1>3 DEF Slots
  <2> QED
    BY <2>2, <2>3 DEF Scanned, Used
<1> HIDE DEF i, c
<1>8. Committed(nextTx - 1)
  BY <1>3, <1>5, <1>7 DEF Committed, CommitEntry
<1>9. Replayable(i)
  BY <1>4, <1>7, <1>8 DEF Replayable, WriteEntry
<1>10. i = AppliedSlot
  BY DEF i, AppliedSlot
<1> QED
  BY <1>3, <1>4, <1>9, <1>10

LEMMA ApplyIsCovered ==
  ASSUME IInv, ApplyInPlace
  PROVE  Covered(writes[cursor + 1].loc, writes[cursor + 1].val)
BY AppliedEntry DEF Covered, WriteEntry

(***************************************************************************)
(* THEOREM: the write-ahead rule.  Outside the unsafe windows no location  *)
(* changes in place unless the journal on disk already holds, in a         *)
(* committed transaction, the value it changes to.                         *)
(***************************************************************************)
THEOREM WriteAheadRule ==
  ASSUME SafeWindows
  PROVE  Spec => WriteAhead
<1> DEFINE Rule == \A l \in Loc : home'[l] # home[l] => Covered(l, home'[l])
<1>1. IInv /\ [Next]_vars => [Rule]_vars
  <2> SUFFICES ASSUME IInv, Next, NEW l \in Loc, home'[l] # home[l]
               PROVE  Covered(l, home'[l])
    OBVIOUS
  <2> USE DEF IInv, TypeInv, TypeOK
  <2>1. CASE ApplyInPlace
    <3>1. l = writes[cursor + 1].loc /\ home'[l] = writes[cursor + 1].val
      BY <2>1 DEF ApplyInPlace
    <3> QED
      BY <2>1, <3>1, ApplyIsCovered
  <2>2. CASE ReplayEntry
    <3>1. Replayable(cursor) /\ l = entries[cursor].loc /\ home'[l] = entries[cursor].val
      BY <2>2 DEF ReplayEntry
    <3>2. cursor \in Slots
      BY <2>2, JournalAssumption DEF ReplayEntry, Slots
    <3> QED
      BY <3>1, <3>2 DEF Covered
  <2>3. CASE ~ApplyInPlace /\ ~ReplayEntry
    <3>1. home' = home
      BY <2>3 DEF Next, Request, Step, WriteInode, WriteFileData, WriteFileDataFull, Begin,
         AppendEntry, AppendFull, WriteHeader, ClearHeader, ZeroEntry, Crash, diskVars, Open,
         ReplayDone
    <3> QED
      BY <3>1
  <2> QED
    BY <2>1, <2>2, <2>3
<1>2. [Rule]_vars => [\A l \in Loc : home'[l] # home[l] =>
                        \E i \in Slots : Replayable(i) /\ entries[i].loc = l /\ entries[i].val = home'[l]]_vars
  BY DEF Covered
<1> QED
  BY <1>1, <1>2, Inductive, PTL DEF Spec, WriteAhead

-----------------------------------------------------------------------------
(***************************************************************************)
(* Durability: the inductive invariant, beyond the one above.              *)
(***************************************************************************)

\* The entries before the last n belong to older transactions.
Older(n) == \A i \in Slots : i < next_slot - n => entries[i].tx < nextTx - 1
AgeInv ==
  /\ phase = "append" => Older(cursor)
  /\ phase = "header" => Older(cursor + 1)

\* The disk has what a replay would put at l.
Settled(l) == \A i \in Slots : LastFor(i, l) => home[l] = entries[i].val

\* A write to l comes after the first n of the transaction in progress.
Awaited(l, n) == \E k \in 1..Len(writes) : k > n /\ writes[k].loc = l

\* The disk lags behind the journal only between a commit entry and the writes
\* in place it announces, and until a mount has replayed what it found.
DurableInv ==
  /\ phase \in {"idle", "append", "clear", "zero"} => \A l \in Loc : Settled(l)
  /\ phase = "header" => \A l \in Loc : (LoggedAll /\ Awaited(l, 0)) \/ Settled(l)
  /\ phase = "apply" => \A l \in Loc : Awaited(l, cursor) \/ Settled(l)
  /\ phase = "replay" =>
       \A l \in Loc, i \in Slots : LastFor(i, l) /\ i < cursor => home[l] = entries[i].val

DInv == IInv /\ AgeInv /\ DurableInv

-----------------------------------------------------------------------------
LEMMA AgeStep == IInv /\ AgeInv /\ [Next]_vars => AgeInv'
<1> SUFFICES ASSUME IInv, AgeInv, [Next]_vars PROVE AgeInv'
  OBVIOUS
<1> USE JournalAssumption DEF AgeInv, Older, IInv, TypeInv, TypeOK
<1>1. ASSUME NEW ws, Begin(ws) PROVE AgeInv'
  <2>1. /\ phase = "idle" /\ phase' = "append" /\ cursor' = 0
        /\ nextTx' = nextTx + 1 /\ UNCHANGED <<entries, next_slot>>
    BY <1>1 DEF Begin
  <2>2. \A i \in Slots : i < next_slot => Used(i)
    BY <2>1 DEF PrefixInv, Filled, Lo, Slots
  <2>3. \A i \in Slots : i < next_slot => entries[i].tx < nextTx
    BY <2>1, <2>2 DEF IdInv
  <2> QED
    BY <2>1, <2>3
<1>2. CASE AppendEntry
  <2>1. /\ phase = "append" /\ phase' = "header" /\ next_slot' = next_slot + 1
        /\ UNCHANGED <<nextTx, cursor>>
    BY <1>2 DEF AppendEntry
  <2>2. \A i \in Slots : i < next_slot => entries'[i] = entries[i]
    BY <1>2, UsedAfterAppend
  <2> QED
    BY <2>1, <2>2 DEF Slots
<1>3. CASE WriteHeader
  BY <1>3 DEF WriteHeader
<1>4. CASE UNCHANGED vars
  BY <1>4 DEF vars
<1>5. ASSUME phase' \notin {"append", "header"} PROVE AgeInv'
  BY <1>5
<1>6. ASSUME NEW ws \in DataWrites, WriteFileDataFull(ws) PROVE AgeInv'
  BY <1>6 DEF WriteFileDataFull
<1>7. AppendFull \/ ApplyInPlace \/ ClearHeader \/ ZeroEntry \/ Crash \/ Open
        \/ ReplayEntry \/ ReplayDone => phase' \notin {"append", "header"}
  BY DEF AppendFull, ApplyInPlace, ClearHeader, ZeroEntry, Crash, Open, ReplayEntry, ReplayDone
<1> QED
  BY <1>1, <1>2, <1>3, <1>4, <1>5, <1>6, <1>7 DEF Next, Request, Step, WriteInode, WriteFileData

-----------------------------------------------------------------------------
(***************************************************************************)
(* What logging an entry does to the next replay.                          *)
(***************************************************************************)
LEMMA AppendKeeps ==
  ASSUME IInv, AppendEntry
  PROVE  /\ \A i \in Slots : i < next_slot => /\ entries'[i] = entries[i]
                                             /\ Scanned(i) /\ Scanned(i)'
         /\ \A i \in Slots : Used(i) <=> i < next_slot
         /\ \A i \in Slots : Used(i)' <=> i <= next_slot
<1> USE JournalAssumption
<1>1. next_slot \in Slots /\ phase = "append"
  BY UsedAfterAppend DEF IInv, AppendEntry
<1>2. \A i \in Slots : i # next_slot => entries'[i] = entries[i]
  BY UsedAfterAppend DEF IInv, TypeInv, TypeOK
<1>3. \A i \in Slots : Used(i) <=> i < next_slot
  BY <1>1 DEF IInv, PrefixInv, Filled, Lo, Slots
<1>4. entries'[next_slot].type # "free"
  BY <1>1, UsedAfterAppend DEF IInv, TypeInv, TypeOK
<1>5. \A i \in Slots : Used(i)' <=> i <= next_slot
  BY <1>1, <1>2, <1>3, <1>4 DEF Used, Slots
<1>6. \A i \in Slots : i < next_slot => Scanned(i) /\ Scanned(i)'
  <2>1. \A i \in Slots : \A j \in 0..i : j \in Slots /\ (i < next_slot => j < next_slot)
    BY <1>1 DEF Slots
  <2> QED
    BY <1>1, <1>3, <1>5, <2>1 DEF Scanned, Slots
<1> QED
  BY <1>1, <1>2, <1>3, <1>5, <1>6 DEF Slots

\* The entries of the transaction in progress, seen from the slots.
LEMMA OwnEntries ==
  ASSUME IInv, AgeInv, phase = "append", NEW i \in Slots, i < next_slot,
         entries[i].tx = nextTx - 1
  PROVE  \E k \in 1..cursor : k <= Len(writes) /\ entries[i] = WriteEntry(nextTx - 1, writes[k])
<1> USE DEF IInv, TypeInv, TypeOK
<1>1. /\ phase = "append" /\ cursor \in Nat /\ cursor <= Len(writes) /\ Len(writes) \in Nat
      /\ next_slot \in 0..MaxEntries
  BY DEF ControlOK
<1>2. cursor <= next_slot /\ \A k \in 1..cursor : entries[next_slot - cursor + k - 1] = TxEntry(k)
  BY <1>1 DEF LogInv, Logged
<1>3. nextTx \in Nat
  OBVIOUS
<1>4. ~(i < next_slot - cursor)
  BY <1>1, <1>3 DEF AgeInv, Older
<1> DEFINE k == i + 1 - (next_slot - cursor)
<1>5. k \in 1..cursor /\ next_slot - cursor + k - 1 = i
  BY <1>1, <1>2, <1>4, JournalAssumption DEF Slots
<1>6. entries[i] = TxEntry(k) /\ k <= Len(writes)
  BY <1>1, <1>2, <1>5
<1> HIDE DEF k
<1> QED
  BY <1>5, <1>6 DEF TxEntry

\* The entry of a write makes nothing replayable.
LEMMA WriteEntryIsInert ==
  ASSUME IInv, AgeInv, AppendEntry, cursor < Len(writes)
  PROVE  \A i \in Slots : Replayable(i)' <=> Replayable(i)
<1>1. next_slot \in Slots /\ entries'[next_slot].type = "write"
        /\ entries'[next_slot].tx = nextTx - 1
  BY UsedAfterAppend DEF AppendEntry, WriteEntry, IInv, TypeInv, TypeOK
<1>2. \A i \in Slots : (Scanned(i) => Used(i)) /\ (Scanned(i)' => Used(i)')
  BY JournalAssumption DEF Scanned, Slots
<1>3. \A t : Committed(t)' <=> Committed(t)
  BY <1>1, <1>2, AppendKeeps DEF Committed, Slots
<1>4. ~Committed(nextTx - 1)
  <2> SUFFICES ASSUME NEW i \in Slots, Scanned(i), entries[i].type = "commit",
                      entries[i].tx = nextTx - 1
               PROVE  FALSE
    BY DEF Committed
  <2>1. i < next_slot
    BY <1>2, AppendKeeps
  <2>2. PICK k \in 1..cursor : k <= Len(writes) /\ entries[i] = WriteEntry(nextTx - 1, writes[k])
    BY <2>1, OwnEntries DEF AppendEntry
  <2> QED
    BY <2>2 DEF WriteEntry
<1>5. UNCHANGED nextTx
  BY DEF AppendEntry
<1> SUFFICES ASSUME NEW i \in Slots PROVE Replayable(i)' <=> Replayable(i)
  OBVIOUS
<1>6. CASE i < next_slot
  BY <1>3, <1>6, AppendKeeps DEF Replayable
<1>7. CASE i = next_slot
  BY <1>1, <1>2, <1>3, <1>4, <1>7, AppendKeeps DEF Replayable, Slots
<1>8. CASE i > next_slot
  BY <1>1, <1>2, <1>8, AppendKeeps DEF Replayable, Slots
<1> QED
  BY <1>1, <1>6, <1>7, <1>8 DEF Slots

\* What was replayable stays so.
LEMMA StaysReplayable ==
  ASSUME IInv, AppendEntry, NEW j \in Slots, Replayable(j)
  PROVE  Replayable(j)' /\ j < next_slot
<1>1. \A i \in Slots : Scanned(i) => Used(i)
  BY JournalAssumption DEF Scanned, Slots
<1>2. \A t : Committed(t) => Committed(t)'
  BY <1>1, AppendKeeps DEF Committed
<1> QED
  BY <1>1, <1>2, AppendKeeps DEF Replayable

\* The commit entry only makes replayable what the transaction wrote.
LEMMA CommitEntryIsLocal ==
  ASSUME IInv, AgeInv, AppendEntry, cursor = Len(writes),
         NEW l \in Loc, ~Awaited(l, 0), NEW i \in Slots, LastFor(i, l)'
  PROVE  LastFor(i, l)
<1>1. next_slot \in Slots /\ entries'[next_slot].type = "commit"
        /\ entries'[next_slot].tx = nextTx - 1
  BY UsedAfterAppend DEF AppendEntry, CommitEntry, IInv, TypeInv, TypeOK
<1>2. \A j \in Slots : (Scanned(j) => Used(j)) /\ (Scanned(j)' => Used(j)')
  BY JournalAssumption DEF Scanned, Slots
<1>4. \A j \in Slots : Replayable(j) => Replayable(j)' /\ j < next_slot
  BY StaysReplayable
<1>5. Replayable(i)' /\ entries'[i].loc = l /\ i < next_slot /\ entries[i] = entries'[i]
  BY <1>1, <1>2, AppendKeeps DEF LastFor, Replayable, Slots
<1>6. entries[i].type = "write" /\ entries[i].loc = l
  BY <1>5 DEF Replayable
<1>7. entries[i].tx # nextTx - 1
  <2> SUFFICES ASSUME entries[i].tx = nextTx - 1 PROVE FALSE
    OBVIOUS
  <2>1. PICK k \in 1..cursor : k <= Len(writes) /\ entries[i] = WriteEntry(nextTx - 1, writes[k])
    BY <1>5, OwnEntries DEF AppendEntry
  <2> QED
    BY <1>6, <2>1 DEF Awaited, WriteEntry
<1>8. Committed(entries[i].tx)
  <2>1. PICK j \in Slots : /\ Scanned(j)' /\ entries'[j].type = "commit"
                           /\ entries'[j].tx = entries[i].tx
    BY <1>5 DEF Replayable, Committed
  <2>2. j < next_slot
    BY <1>1, <1>2, <1>7, <2>1, AppendKeeps DEF Slots
  <2> QED
    BY <2>1, <2>2, AppendKeeps DEF Committed
<1>9. Replayable(i)
  BY <1>5, <1>6, <1>8, AppendKeeps DEF Replayable
<1> QED
  BY <1>4, <1>6, <1>9, AppendKeeps DEF LastFor

-----------------------------------------------------------------------------
(***************************************************************************)
(* What the writes in place do.                                            *)
(***************************************************************************)
LEMMA SameJournal ==
  ASSUME UNCHANGED entries, NEW i, NEW l
  PROVE  LastFor(i, l)' <=> LastFor(i, l)
BY DEF LastFor, Replayable, Scanned, Committed, Used

LEMMA SameSettled ==
  ASSUME UNCHANGED <<entries, home>>, NEW l
  PROVE  Settled(l)' <=> Settled(l)
BY SameJournal DEF Settled

\* A location is settled by the last write to it.
LEMMA ApplySettles ==
  ASSUME IInv, DurableInv, ApplyInPlace, NEW l \in Loc, ~Awaited(l, cursor + 1)
  PROVE  Settled(l)'
<1> USE DEF IInv, TypeInv, TypeOK
<1> DEFINE n == Len(writes) + 1
<1>1. /\ phase = "apply" /\ cursor \in Nat /\ cursor < Len(writes) /\ Len(writes) \in Nat
      /\ next_slot \in 0..MaxEntries /\ UNCHANGED entries
      /\ home' = [home EXCEPT ![writes[cursor + 1].loc] = writes[cursor + 1].val]
  BY DEF ApplyInPlace, ControlOK
<1>2. CASE l # writes[cursor + 1].loc
  <2>1. ~Awaited(l, cursor)
    BY <1>1, <1>2 DEF Awaited
  <2>2. Settled(l) /\ home'[l] = home[l]
    BY <1>1, <1>2, <2>1 DEF DurableInv
  <2> QED
    BY <1>1, <2>2, SameJournal DEF Settled
<1>3. CASE l = writes[cursor + 1].loc
  <2> SUFFICES ASSUME NEW i \in Slots, LastFor(i, l)
               PROVE  entries[i].val = writes[cursor + 1].val
    BY <1>1, <1>3, SameJournal DEF Settled
  <2>1. /\ AppliedSlot \in Slots /\ Replayable(AppliedSlot)
        /\ entries[AppliedSlot].loc = l /\ entries[AppliedSlot].val = writes[cursor + 1].val
    BY <1>3, AppliedEntry DEF WriteEntry
  <2>2. ~(i < AppliedSlot)
    BY <2>1 DEF LastFor
  <2>3. Replayable(i) /\ entries[i].loc = l /\ entries[i].type = "write" /\ Used(i)
    BY JournalAssumption DEF LastFor, Replayable, Scanned, Slots
  <2>4. i < next_slot
    BY <1>1, <2>3 DEF PrefixInv, Filled
  <2>5. ASSUME i > AppliedSlot PROVE FALSE
    <3> DEFINE k == i + 1 - (next_slot - n)
    <3>1. k \in 1..n /\ k > cursor + 1 /\ next_slot - n + k - 1 = i
      BY <1>1, <2>1, <2>4, <2>5 DEF AppliedSlot, Slots
    <3>2. entries[i] = TxEntry(k)
      BY <1>1, <3>1 DEF LogInv, Logged
    <3> HIDE DEF k
    <3>3. k <= Len(writes)
      BY <2>3, <3>2 DEF TxEntry, CommitEntry
    <3>4. entries[i].loc = writes[k].loc
      BY <3>2, <3>3 DEF TxEntry, WriteEntry
    <3> QED
      BY <1>1, <2>3, <3>1, <3>3, <3>4 DEF Awaited
  <2> QED
    BY <2>1, <2>2, <2>5 DEF Slots
<1> QED
  BY <1>2, <1>3

-----------------------------------------------------------------------------
LEMMA DurableStep ==
  ASSUME IInv, IInv', AgeInv, DurableInv, [Next]_vars
  PROVE  DurableInv'
<1> USE JournalAssumption
<1>1. ASSUME NEW ws, Begin(ws) PROVE DurableInv'
  BY <1>1, SameSettled DEF Begin, DurableInv
<1>2. ASSUME NEW ws \in DataWrites, WriteFileDataFull(ws) PROVE DurableInv'
  BY <1>2, SameSettled DEF WriteFileDataFull, DurableInv
<1>3. CASE AppendEntry
  <2>1. /\ phase = "append" /\ phase' = "header" /\ UNCHANGED <<home, writes, cursor>>
        /\ cursor \in Nat /\ Len(writes) \in Nat /\ cursor <= Len(writes)
    BY <1>3 DEF AppendEntry, IInv, TypeInv, TypeOK, ControlOK
  <2>2. \A l \in Loc : Settled(l)
    BY <2>1 DEF DurableInv
  <2> SUFFICES ASSUME NEW l \in Loc PROVE (LoggedAll' /\ Awaited(l, 0)') \/ Settled(l)'
    BY <2>1 DEF DurableInv
  <2>4. CASE cursor < Len(writes)
    <3>1. \A i \in Slots : Replayable(i) => entries'[i] = entries[i]
      BY <1>3, AppendKeeps DEF Replayable, Scanned, Slots
    <3>2. ASSUME NEW i \in Slots, LastFor(i, l)' PROVE LastFor(i, l) /\ entries'[i] = entries[i]
      BY <1>3, <2>4, <3>1, <3>2, WriteEntryIsInert DEF LastFor
    <3> QED
      BY <2>1, <2>2, <3>2 DEF Settled
  <2>5. CASE cursor = Len(writes) /\ ~Awaited(l, 0)
    <3>1. ASSUME NEW i \in Slots, LastFor(i, l)' PROVE LastFor(i, l) /\ entries'[i] = entries[i]
      <4>1. LastFor(i, l)
        BY <1>3, <2>5, <3>1, CommitEntryIsLocal
      <4>2. Used(i)
        BY <4>1 DEF LastFor, Replayable, Scanned, Slots
      <4> QED
        BY <1>3, <4>1, <4>2, AppendKeeps
    <3> QED
      BY <2>1, <2>2, <3>1 DEF Settled
  <2>6. CASE cursor = Len(writes) /\ Awaited(l, 0)
    <3>1. LoggedAll' /\ Awaited(l, 0)'
      BY <2>1, <2>6 DEF LoggedAll, Awaited
    <3> QED
      BY <3>1
  <2> QED
    BY <2>1, <2>4, <2>5, <2>6
<1>4. CASE AppendFull
  BY <1>4, SameSettled DEF AppendFull, DurableInv
<1>5. CASE WriteHeader
  <2>1. phase = "header" /\ UNCHANGED <<entries, home, writes>>
    BY <1>5 DEF WriteHeader
  <2>2. CASE LoggedAll
    BY <1>5, <2>1, <2>2, SameSettled DEF WriteHeader, DurableInv, Awaited
  <2>3. CASE ~LoggedAll
    BY <1>5, <2>1, <2>3, SameSettled DEF WriteHeader, DurableInv
  <2> QED
    BY <2>2, <2>3
<1>6. CASE ApplyInPlace
  <2>1. cursor \in Nat /\ cursor < Len(writes) /\ Len(writes) \in Nat
    BY <1>6 DEF ApplyInPlace, IInv, TypeInv, TypeOK, ControlOK
  <2>2. CASE cursor + 1 < Len(writes)
    <3>1. phase' = "apply" /\ cursor' = cursor + 1 /\ writes' = writes
      BY <1>6, <2>2 DEF ApplyInPlace
    <3>2. \A l \in Loc : Awaited(l, cursor)' <=> Awaited(l, cursor + 1)
      BY <3>1 DEF Awaited
    <3>3. \A l \in Loc : ~Awaited(l, cursor + 1) => Settled(l)'
      BY <1>6, ApplySettles
    <3> QED
      BY <3>1, <3>2, <3>3 DEF DurableInv
  <2>3. CASE ~(cursor + 1 < Len(writes))
    <3>1. phase' \in {"clear", "idle"}
      BY <1>6, <2>3 DEF ApplyInPlace
    <3>2. \A l \in Loc : ~Awaited(l, cursor + 1)
      BY <2>1, <2>3 DEF Awaited
    <3>3. \A l \in Loc : Settled(l)'
      BY <1>6, <3>2, ApplySettles
    <3> QED
      BY <3>1, <3>3 DEF DurableInv
  <2> QED
    BY <2>2, <2>3
<1>7. CASE ClearHeader
  BY <1>7, SameSettled DEF ClearHeader, DurableInv
<1>8. CASE ZeroEntry
  <2>1. phase' \in {"zero", "idle"} /\ (phase' = "zero" => cursor' > 0)
    BY <1>8 DEF ZeroEntry, IInv, TypeInv, TypeOK
  <2>2. ~Used(0)'
    <3>1. CASE phase' = "zero"
      BY <2>1, <3>1 DEF IInv, TypeInv, TypeOK, PrefixInv, Filled, Lo, Slots
    <3>2. CASE phase' = "idle"
      <4>1. next_slot' = 0
        BY <1>8 DEF ZeroEntry, IInv, TypeInv, ControlOK
      <4> QED
        BY <3>2, <4>1 DEF IInv, PrefixInv, Filled, Lo, Slots
    <3> QED
      BY <2>1, <3>1, <3>2
  <2>3. \A i \in Slots, l \in Loc : ~LastFor(i, l)'
    BY <2>2 DEF LastFor, Replayable, Scanned, Slots
  <2> QED
    BY <2>1, <2>3 DEF DurableInv, Settled
<1>9. CASE Crash
  BY <1>9 DEF Crash, DurableInv
<1>10. CASE Open
  BY <1>10 DEF Open, DurableInv, Slots
<1>11. CASE ReplayEntry
  <2>1. /\ phase = "replay" /\ phase' = "replay" /\ cursor' = cursor + 1 /\ entries' = entries
        /\ cursor \in Nat /\ cursor < next_slot /\ cursor \in Slots
    BY <1>11 DEF ReplayEntry, IInv, TypeInv, TypeOK, Slots
  <2> SUFFICES ASSUME NEW l \in Loc, NEW i \in Slots, LastFor(i, l), i < cursor + 1
               PROVE  home'[l] = entries[i].val
    BY <2>1, SameJournal DEF DurableInv
  <2>2. CASE Replayable(cursor) /\ entries[cursor].loc = l
    <3>1. i = cursor
      BY <2>1, <2>2 DEF LastFor, Slots
    <3> QED
      BY <1>11, <2>2, <3>1 DEF ReplayEntry, IInv, TypeInv, TypeOK
  <2>3. CASE ~(Replayable(cursor) /\ entries[cursor].loc = l)
    <3>1. home'[l] = home[l]
      BY <1>11, <2>3 DEF ReplayEntry, IInv, TypeInv, TypeOK
    <3>2. i < cursor
      BY <2>1, <2>3 DEF LastFor, Slots
    <3> QED
      BY <2>1, <3>1, <3>2 DEF DurableInv
  <2> QED
    BY <2>2, <2>3
<1>12. CASE ReplayDone
  <2>1. /\ phase = "replay" /\ cursor = next_slot /\ UNCHANGED <<home, entries>>
        /\ phase' \in {"clear", "idle"}
    BY <1>12 DEF ReplayDone
  <2>2. \A i \in Slots, l \in Loc : LastFor(i, l) => i < next_slot
    BY <2>1 DEF LastFor, Replayable, Scanned, Slots, IInv, PrefixInv, Filled
  <2>3. \A l \in Loc : Settled(l)
    BY <2>1, <2>2 DEF DurableInv, Settled
  <2> QED
    BY <2>1, <2>3, SameSettled DEF DurableInv
<1>13. CASE UNCHANGED vars
  <2>1. UNCHANGED <<entries, home, writes, cursor, phase>>
    BY <1>13 DEF vars
  <2> QED
    BY <2>1, SameSettled, SameJournal DEF DurableInv, Awaited, LoggedAll
<1> QED
  BY <1>1, <1>2, <1>3, <1>4, <1>5, <1>6, <1>7, <1>8, <1>9, <1>10, <1>11, <1>12, <1>13
     DEF Next, Request, Step, WriteInode, WriteFileData

LEMMA DurableInductive ==
  ASSUME SafeWindows
  PROVE  Spec => []DInv
<1>1. Init => DInv
  <2> SUFFICES ASSUME Init PROVE AgeInv /\ DurableInv
    BY InitIInv DEF DInv
  <2>1. \A i \in Slots, l \in Loc : ~LastFor(i, l)
    BY DEF Init, LastFor, Replayable, FreeEntry
  <2> QED
    BY <2>1 DEF Init, AgeInv, DurableInv, Settled
<1>2. DInv /\ [Next]_vars => DInv'
  BY NextIInv, AgeStep, DurableStep DEF DInv
<1> QED
  BY <1>1, <1>2, PTL DEF Spec

(***************************************************************************)
(* THEOREM: what an operation has returned from is durable.  Outside the   *)
(* unsafe windows a mount would show, whenever the journal is idle, the    *)
(* disk as it is: it neither undoes nor adds anything (Journal::commit,    *)
(* clear and replay_entry taken together).                                 *)
(***************************************************************************)
THEOREM Durability ==
  ASSUME SafeWindows
  PROVE  Spec => []CommitIsDurable
<1>1. DInv => CommitIsDurable
  <2> SUFFICES ASSUME DInv, phase = "idle" PROVE Recovered = home
    BY DEF CommitIsDurable
  <2>1. home \in [Loc -> Val]
    BY DEF DInv, IInv, TypeInv, TypeOK
  <2>2. \A l \in Loc : Settled(l)
    BY DEF DInv, DurableInv
  <2>3. \A l \in Loc : Recovered[l] = home[l]
    <3> SUFFICES ASSUME NEW l \in Loc PROVE Recovered[l] = home[l]
      OBVIOUS
    <3>1. CASE \E i \in Slots : LastFor(i, l)
      <4> DEFINE c == CHOOSE i \in Slots : LastFor(i, l)
      <4>1. c \in Slots /\ LastFor(c, l)
        BY <3>1
      <4>2. Recovered[l] = entries[c].val
        BY <3>1 DEF Recovered
      <4> HIDE DEF c
      <4> QED
        BY <2>2, <4>1, <4>2 DEF Settled
    <3>2. CASE ~\E i \in Slots : LastFor(i, l)
      BY <3>2 DEF Recovered
    <3> QED
      BY <3>1, <3>2
  <2>4. Recovered = [l \in Loc |-> Recovered[l]] /\ home = [l \in Loc |-> home[l]]
    BY <2>1 DEF Recovered
  <2> QED
    BY <2>3, <2>4
<1> QED
  BY <1>1, DurableInductive, PTL

-----------------------------------------------------------------------------
(***************************************************************************)
(* The refinement: what is on disk, once replayed, is the abstract store.  *)
(***************************************************************************)
\* A transaction writes no location twice.
Distinct == \A j, k \in 1..Len(writes) : writes[j].loc = writes[k].loc => j = k

RInv == DInv /\ Distinct

LEMMA MaxExists ==
  ASSUME NEW S \in SUBSET Slots, S # {}
  PROVE  \E m \in S : \A i \in S : i <= m
<1> DEFINE T == {MaxEntries - i : i \in S}
           R == OpToRel(<, Nat)
<1>1. T \subseteq Nat /\ T # {}
  <2>1. PICK s \in S : TRUE
    OBVIOUS
  <2>2. MaxEntries - s \in T
    OBVIOUS
  <2>3. \A i \in S : MaxEntries - i \in Nat
    BY JournalAssumption DEF Slots
  <2> QED
    BY <2>2, <2>3
<1>2. PICK x \in T : \A y \in T : ~(<<y, x>> \in R)
  <2> HIDE DEF T, R
  <2>1. IsWellFoundedOn(R, Nat)
    BY NatLessThanWellFounded DEF R
  <2> QED
    BY <1>1, <2>1, WFMin
<1>3. \A y \in T : ~(y < x)
  BY <1>1, <1>2 DEF OpToRel
<1>4. PICK m \in S : x = MaxEntries - m
  OBVIOUS
<1>5. \A i \in S : i <= m
  <2> SUFFICES ASSUME NEW i \in S PROVE i <= m
    OBVIOUS
  <2>1. ~(MaxEntries - i < MaxEntries - m)
    BY <1>3, <1>4
  <2> QED
    BY <2>1, JournalAssumption DEF Slots
<1> QED
  BY <1>5

\* What is replayable for a location has a last entry.
LEMMA LastExists ==
  ASSUME NEW l, NEW i \in Slots, Replayable(i), entries[i].loc = l
  PROVE  \E j \in Slots : LastFor(j, l)
<1> DEFINE S == {j \in Slots : Replayable(j) /\ entries[j].loc = l}
<1>1. PICK m \in S : \A j \in S : j <= m
  BY MaxExists
<1>2. \A j \in Slots : j > m /\ Replayable(j) => entries[j].loc # l
  <2> SUFFICES ASSUME NEW j \in Slots, j > m, j \in S PROVE FALSE
    OBVIOUS
  <2> QED
    BY <1>1 DEF Slots
<1> QED
  BY <1>1, <1>2 DEF LastFor

LEMMA RecoveredAt ==
  \A l \in Loc, i \in Slots : LastFor(i, l) => Recovered[l] = entries[i].val
<1> SUFFICES ASSUME NEW l \in Loc, NEW i \in Slots, LastFor(i, l)
             PROVE  Recovered[l] = entries[i].val
  OBVIOUS
<1> DEFINE c == CHOOSE j \in Slots : LastFor(j, l)
<1>1. c \in Slots /\ LastFor(c, l)
  OBVIOUS
<1>2. Recovered[l] = entries[c].val
  BY DEF Recovered
<1> HIDE DEF c
<1>3. c = i
  BY <1>1 DEF LastFor, Slots
<1> QED
  BY <1>2, <1>3

LEMMA RecoveredElse ==
  \A l \in Loc : (\A i \in Slots : ~LastFor(i, l)) => Recovered[l] = home[l]
BY DEF Recovered

LEMMA RecoveredNext ==
  /\ \A l \in Loc, i \in Slots : LastFor(i, l)' => Recovered'[l] = entries'[i].val
  /\ \A l \in Loc : (\A i \in Slots : ~LastFor(i, l)') => Recovered'[l] = home'[l]
  /\ \A l, i : i \in Slots /\ Replayable(i)' /\ entries'[i].loc = l => \E j \in Slots : LastFor(j, l)'
<1>1. (\A l \in Loc, i \in Slots : LastFor(i, l) => Recovered[l] = entries[i].val)'
  BY RecoveredAt, PTL
<1>2. (\A l \in Loc : (\A i \in Slots : ~LastFor(i, l)) => Recovered[l] = home[l])'
  BY RecoveredElse, PTL
<1>3. \A l, i : i \in Slots /\ Replayable(i) /\ entries[i].loc = l => \E j \in Slots : LastFor(j, l)
  BY LastExists
<1>4. (\A l, i : i \in Slots /\ Replayable(i) /\ entries[i].loc = l => \E j \in Slots : LastFor(j, l))'
  BY <1>3, PTL
<1> QED
  BY <1>1, <1>2, <1>4

\* A step that leaves the last entries, and the disk where there is none, shows
\* the same at the next mount.
LEMMA SameRecovered ==
  ASSUME \A l \in Loc, i \in Slots : LastFor(i, l)' <=> LastFor(i, l),
         \A l \in Loc, i \in Slots : LastFor(i, l) => entries'[i] = entries[i],
         \A l \in Loc : (\A i \in Slots : ~LastFor(i, l)) => home'[l] = home[l]
  PROVE  Recovered' = Recovered
<1> SUFFICES ASSUME NEW l \in Loc PROVE Recovered'[l] = Recovered[l]
  BY DEF Recovered
<1>1. CASE \E i \in Slots : LastFor(i, l)
  BY <1>1, RecoveredAt, RecoveredNext
<1>2. CASE \A i \in Slots : ~LastFor(i, l)
  BY <1>2, RecoveredElse, RecoveredNext
<1> QED
  BY <1>1, <1>2

LEMMA SameJournalRecovered ==
  ASSUME UNCHANGED entries,
         \A l \in Loc : (\A i \in Slots : ~LastFor(i, l)) => home'[l] = home[l]
  PROVE  Recovered' = Recovered
BY SameRecovered, SameJournal

-----------------------------------------------------------------------------
LEMMA DistinctStep == IInv /\ Distinct /\ [Next]_vars => Distinct'
<1> SUFFICES ASSUME IInv, Distinct, [Next]_vars PROVE Distinct'
  OBVIOUS
<1>1. ASSUME NEW ws \in InodeWrites \cup DataWrites, Begin(ws) PROVE Distinct'
  <2> SUFFICES ASSUME NEW j \in 1..Len(ws), NEW k \in 1..Len(ws), ws[j].loc = ws[k].loc
               PROVE  j = k
    BY <1>1 DEF Begin, Distinct
  <2>1. CASE ws \in InodeWrites
    BY <2>1 DEF InodeWrites
  <2>2. CASE ws \in DataWrites
    <3>1. PICK e \in Extents : \E v \in [DOMAIN e -> Val] :
            ws = [m \in DOMAIN e |-> [loc |-> e[m], val |-> v[m]]]
      BY <2>2 DEF DataWrites
    <3>2. e \in Seq(Loc)
      BY JournalAssumption
    <3>3. DOMAIN ws = 1..Len(e) /\ Len(ws) = Len(e) /\ DOMAIN e = 1..Len(e)
      BY <3>1, <3>2
    <3>4. e[j] = e[k]
      BY <3>1, <3>3
    <3> QED
      BY <3>3, <3>4, JournalAssumption
  <2> QED
    BY <2>1, <2>2
<1>2. CASE writes' = writes
  BY <1>2 DEF Distinct
<1>3. CASE writes' = <<>>
  BY <1>3 DEF Distinct
<1>4. ~(\E ws \in InodeWrites \cup DataWrites : Begin(ws)) => writes' \in {writes, <<>>}
  BY DEF Next, Request, Step, WriteInode, WriteFileData, WriteFileDataFull, AppendEntry, AppendFull,
     WriteHeader, ApplyInPlace, ClearHeader, ZeroEntry, Crash, Open, ReplayEntry, ReplayDone, vars
<1> QED
  BY <1>1, <1>2, <1>3, <1>4

-----------------------------------------------------------------------------
(***************************************************************************)
(* The commit entry is the one instant at which a transaction takes effect.*)
(***************************************************************************)
LEMMA CommitOverwrites ==
  ASSUME RInv, AppendEntry, cursor = Len(writes), NEW l \in Loc
  PROVE  Recovered'[l] = Abstract!Overwrite(Recovered, writes)[l]
<1>0. IInv /\ AgeInv /\ Distinct
  BY DEF RInv, DInv
<1>1. /\ phase = "append" /\ Len(writes) \in Nat /\ DOMAIN writes = 1..Len(writes)
      /\ cursor \in Nat /\ next_slot \in Nat /\ MaxEntries \in Nat
      /\ cursor <= next_slot /\ next_slot < MaxEntries /\ next_slot \in Slots
      /\ UNCHANGED <<home, nextTx>>
      /\ entries'[next_slot] = CommitEntry(nextTx - 1)
  BY <1>0, JournalAssumption, UsedAfterAppend DEF AppendEntry, IInv, TypeInv, TypeOK, ControlOK, Slots
<1>2. CASE ~Awaited(l, 0)
  <2>1. Abstract!Overwrite(Recovered, writes)[l] = Recovered[l]
    BY <1>1, <1>2 DEF Abstract!Overwrite, Awaited
  <2>2. CASE \E i \in Slots : LastFor(i, l)'
    <3>1. PICK i \in Slots : LastFor(i, l)'
      BY <2>2
    <3>2. LastFor(i, l)
      BY <1>0, <1>2, <3>1, CommitEntryIsLocal
    <3>3. i < next_slot
      BY <1>0, <3>2, StaysReplayable DEF LastFor
    <3>4. entries'[i] = entries[i]
      BY <1>0, <3>3, AppendKeeps
    <3> QED
      BY <2>1, <3>1, <3>2, <3>4, RecoveredAt, RecoveredNext
  <2>3. CASE \A i \in Slots : ~LastFor(i, l)'
    <3>1. ASSUME NEW i \in Slots, LastFor(i, l) PROVE FALSE
      <4>1. Replayable(i)' /\ entries'[i].loc = l
        BY <1>0, <3>1, StaysReplayable, AppendKeeps DEF LastFor
      <4> QED
        BY <2>3, <4>1, RecoveredNext
    <3> QED
      BY <1>1, <2>1, <2>3, <3>1, RecoveredElse, RecoveredNext
  <2> QED
    BY <2>2, <2>3
<1>3. CASE Awaited(l, 0)
  <2>1. PICK k \in 1..Len(writes) : writes[k].loc = l
    BY <1>3 DEF Awaited
  <2>2. Abstract!Overwrite(Recovered, writes)[l] = writes[k].val
    <3> DEFINE c == CHOOSE m \in DOMAIN writes : writes[m].loc = l
    <3>1. c \in DOMAIN writes /\ writes[c].loc = l
      BY <1>1, <2>1
    <3>2. Abstract!Overwrite(Recovered, writes)[l] = writes[c].val
      BY <1>1, <2>1 DEF Abstract!Overwrite
    <3> HIDE DEF c
    <3> QED
      BY <1>0, <1>1, <2>1, <3>1, <3>2 DEF Distinct
  <2>3. \A m \in 1..cursor : entries[next_slot - cursor + m - 1] = WriteEntry(nextTx - 1, writes[m])
    <3>1. Logged(cursor)
      BY <1>0, <1>1 DEF IInv, LogInv
    <3> QED
      BY <1>1, <3>1 DEF Logged, TxEntry
  <2>4. PICK e \in Slots : e = next_slot - cursor + k - 1
    <3>1. next_slot - cursor + k - 1 \in Slots
      BY <1>1, <2>1 DEF Slots
    <3> QED
      BY <3>1
  <2>e. e < next_slot
    BY <1>1, <2>1, <2>4
  <2>5. entries'[e] = WriteEntry(nextTx - 1, writes[k])
    BY <1>0, <2>1, <2>3, <2>4, <2>e, AppendKeeps
  <2>6. Committed(nextTx - 1)'
    <3>1. PICK c \in Slots : c = next_slot
      BY <1>1
    <3>2. \A j \in 0..c : Used(j)'
      <4>1. \A j \in 0..c : j \in Slots /\ j <= next_slot
        BY <1>1, <3>1 DEF Slots
      <4> QED
        BY <1>0, <4>1, AppendKeeps
    <3>3. Scanned(c)'
      BY <3>2 DEF Scanned
    <3> QED
      BY <1>1, <3>1, <3>3 DEF Committed, CommitEntry
  <2>7. Replayable(e)' /\ entries'[e].loc = l /\ entries'[e].val = writes[k].val
    BY <1>0, <1>1, <2>1, <2>e, <2>5, <2>6, AppendKeeps DEF Replayable, WriteEntry
  <2>8. PICK i \in Slots : LastFor(i, l)'
    BY <2>4, <2>7, RecoveredNext
  <2>9. /\ Used(i)' /\ entries'[i].type = "write" /\ entries'[i].loc = l
        /\ ~(i < e)
    BY <2>4, <2>7, <2>8, JournalAssumption DEF LastFor, Replayable, Scanned, Slots
  <2>10. i < next_slot
    BY <1>0, <1>1, <2>9, AppendKeeps DEF CommitEntry, Slots
  <2>11. i = e
    <3> DEFINE m == i + 1 - (next_slot - cursor)
    <3>1. m \in 1..cursor /\ m >= k /\ next_slot - cursor + m - 1 = i
      BY <1>1, <2>1, <2>4, <2>9, <2>10 DEF Slots
    <3>m. m = i + 1 - (next_slot - cursor)
      OBVIOUS
    <3> HIDE DEF m
    <3>2. entries'[i] = WriteEntry(nextTx - 1, writes[m])
      BY <1>0, <2>3, <2>10, <3>1, AppendKeeps
    <3>3. writes[m].loc = l
      BY <2>9, <3>2 DEF WriteEntry
    <3>4. m = k
      BY <1>0, <1>1, <2>1, <3>1, <3>3 DEF Distinct
    <3> QED
      BY <1>1, <2>1, <2>4, <3>1, <3>4, <3>m DEF Slots
  <2> QED
    BY <2>2, <2>7, <2>8, <2>11, RecoveredNext
<1> QED
  BY <1>2, <1>3

-----------------------------------------------------------------------------
(***************************************************************************)
(* Every other step leaves what the next mount shows.                      *)
(***************************************************************************)
LEMMA WriteEntryShowsNothing ==
  ASSUME RInv, AppendEntry, cursor < Len(writes)
  PROVE  Recovered' = Recovered
<1>1. IInv /\ AgeInv /\ UNCHANGED home
  BY DEF RInv, DInv, AppendEntry
<1>2. \A i \in Slots : Replayable(i)' <=> Replayable(i)
  BY <1>1, WriteEntryIsInert
<1>3. \A i \in Slots : Replayable(i) => entries'[i] = entries[i]
  BY <1>1, StaysReplayable, AppendKeeps
<1>4. \A l \in Loc, i \in Slots : LastFor(i, l)' <=> LastFor(i, l)
  BY <1>2, <1>3 DEF LastFor
<1>5. \A l \in Loc, i \in Slots : LastFor(i, l) => entries'[i] = entries[i]
  BY <1>3 DEF LastFor
<1> QED
  BY <1>1, <1>4, <1>5, SameRecovered

LEMMA ApplyShowsNothing ==
  ASSUME RInv, ApplyInPlace
  PROVE  Recovered' = Recovered
<1>1. IInv /\ UNCHANGED entries
  BY DEF RInv, DInv, ApplyInPlace
<1> SUFFICES ASSUME NEW l \in Loc, \A i \in Slots : ~LastFor(i, l)
             PROVE  home'[l] = home[l]
  BY <1>1, SameJournalRecovered
<1>2. l # writes[cursor + 1].loc
  <2>1. /\ AppliedSlot \in Slots /\ Replayable(AppliedSlot)
        /\ entries[AppliedSlot].loc = writes[cursor + 1].loc
    BY <1>1, AppliedEntry DEF WriteEntry
  <2> QED
    BY <2>1, LastExists
<1> QED
  BY <1>1, <1>2 DEF ApplyInPlace, IInv, TypeInv, TypeOK

LEMMA ReplayShowsNothing ==
  ASSUME RInv, ReplayEntry
  PROVE  Recovered' = Recovered
<1>1. IInv /\ UNCHANGED entries /\ cursor \in Slots
  BY JournalAssumption DEF RInv, DInv, ReplayEntry, IInv, TypeInv, TypeOK, Slots
<1> SUFFICES ASSUME NEW l \in Loc, \A i \in Slots : ~LastFor(i, l)
             PROVE  home'[l] = home[l]
  BY <1>1, SameJournalRecovered
<1>2. ~(Replayable(cursor) /\ entries[cursor].loc = l)
  BY <1>1, LastExists
<1> QED
  BY <1>1, <1>2 DEF ReplayEntry, IInv, TypeInv, TypeOK

\* clear() forgets entries whose writes are in place.
LEMMA ZeroShowsNothing ==
  ASSUME RInv, RInv', ZeroEntry
  PROVE  Recovered' = Recovered
<1> SUFFICES ASSUME NEW l \in Loc PROVE Recovered'[l] = Recovered[l]
  BY DEF Recovered
<1>1. phase = "zero" /\ phase' \in {"zero", "idle"} /\ UNCHANGED home
  BY DEF ZeroEntry
<1>2. Settled(l) /\ Settled(l)'
  BY <1>1 DEF RInv, DInv, DurableInv
<1>3. Recovered[l] = home[l]
  BY <1>2, RecoveredAt, RecoveredElse DEF Settled
<1>4. Recovered'[l] = home'[l]
  BY <1>2, RecoveredNext DEF Settled
<1> QED
  BY <1>1, <1>3, <1>4

LEMMA QuietShowsNothing == UNCHANGED <<entries, home>> => Recovered' = Recovered
BY SameJournalRecovered

-----------------------------------------------------------------------------
(***************************************************************************)
(* Every step of the journal is a step of the abstract store, or none.     *)
(***************************************************************************)
LEMMA StepRefines ==
  ASSUME RInv, RInv', [Next]_vars
  PROVE  [Abstract!Next]_(Abstract!vars)
<1> USE DEF Abstract!vars, Uncommitted
<1>0. /\ cursor \in Nat /\ Len(writes) \in Nat /\ writes \in Seq(Write)
      /\ phase \in {"append", "header"} => writes # <<>> /\ cursor <= Len(writes)
  BY DEF RInv, DInv, IInv, TypeInv, TypeOK, ControlOK
<1>1. ASSUME NEW ws \in InodeWrites \cup DataWrites, Begin(ws) PROVE Abstract!Next
  <2>1. UNCHANGED Recovered
    BY <1>1, QuietShowsNothing DEF Begin
  <2>2. Abstract!Begin(ws)
    BY <1>1, <2>1 DEF Begin, Abstract!Begin
  <2> QED
    BY <2>2 DEF Abstract!Next
<1>2. ASSUME NEW ws \in DataWrites, WriteFileDataFull(ws) PROVE UNCHANGED Abstract!vars
  BY <1>2, QuietShowsNothing DEF WriteFileDataFull
<1>3. CASE AppendEntry
  <2>1. /\ phase = "append" /\ phase' = "header" /\ UNCHANGED <<writes, cursor>>
    BY <1>3 DEF AppendEntry
  <2>2. CASE cursor < Len(writes)
    BY <1>3, <2>1, <2>2, WriteEntryShowsNothing
  <2>3. CASE cursor = Len(writes)
    <3>1. \A l \in Loc : Recovered'[l] = Abstract!Overwrite(Recovered, writes)[l]
      BY <1>3, <2>3, CommitOverwrites
    <3>2. Recovered' = Abstract!Overwrite(Recovered, writes)
      BY <3>1 DEF Recovered, Abstract!Overwrite
    <3>3. Abstract!Commit
      BY <1>0, <2>1, <2>3, <3>2 DEF Abstract!Commit
    <3> QED
      BY <3>3 DEF Abstract!Next
  <2> QED
    BY <1>0, <2>1, <2>2, <2>3
<1>4. CASE AppendFull
  <2>1. UNCHANGED Recovered
    BY <1>4, QuietShowsNothing DEF AppendFull
  <2>2. Abstract!Abandon
    BY <1>0, <1>4, <2>1 DEF AppendFull, Abstract!Abandon
  <2> QED
    BY <2>2 DEF Abstract!Next
<1>5. CASE WriteHeader
  <2>1. UNCHANGED Recovered
    BY <1>5, QuietShowsNothing DEF WriteHeader
  <2> QED
    BY <1>0, <1>5, <2>1 DEF WriteHeader, LoggedAll
<1>6. CASE ApplyInPlace
  <2>1. phase = "apply" /\ phase' \in {"apply", "clear", "idle"}
    BY <1>6 DEF ApplyInPlace
  <2> QED
    BY <1>6, <2>1, ApplyShowsNothing
<1>7. CASE ClearHeader
  BY <1>7, QuietShowsNothing DEF ClearHeader
<1>8. CASE ZeroEntry
  <2>1. phase = "zero" /\ phase' \in {"zero", "idle"}
    BY <1>8 DEF ZeroEntry
  <2> QED
    BY <1>8, <2>1, ZeroShowsNothing
<1>9. CASE Crash
  <2>1. UNCHANGED Recovered /\ phase' = "down"
    BY <1>9, QuietShowsNothing DEF Crash, diskVars
  <2>2. CASE Uncommitted
    <3>1. Abstract!Abandon
      BY <1>0, <2>1, <2>2 DEF Abstract!Abandon
    <3> QED
      BY <3>1 DEF Abstract!Next
  <2>3. CASE ~Uncommitted
    BY <2>1, <2>3
  <2> QED
    BY <2>2, <2>3
<1>10. CASE Open
  BY <1>10, QuietShowsNothing DEF Open
<1>11. CASE ReplayEntry
  <2>1. phase = "replay" /\ phase' = "replay"
    BY <1>11 DEF ReplayEntry
  <2> QED
    BY <1>11, <2>1, ReplayShowsNothing
<1>12. CASE ReplayDone
  <2>1. phase = "replay" /\ phase' \in {"clear", "idle"} /\ UNCHANGED Recovered
    BY <1>12, QuietShowsNothing DEF ReplayDone
  <2> QED
    BY <2>1
<1>13. CASE UNCHANGED vars
  BY <1>13, QuietShowsNothing DEF vars
<1> QED
  BY <1>1, <1>2, <1>3, <1>4, <1>5, <1>6, <1>7, <1>8, <1>9, <1>10, <1>11, <1>12, <1>13
     DEF Next, Request, Step, WriteInode, WriteFileData

LEMMA RInductive ==
  ASSUME SafeWindows
  PROVE  Spec => []RInv
<1>1. Init => Distinct
  BY DEF Init, Distinct
<1>2. DInv /\ Distinct /\ [Next]_vars => Distinct'
  BY DistinctStep DEF DInv
<1> QED
  BY <1>1, <1>2, DurableInductive, PTL DEF Spec, RInv

(***************************************************************************)
(* THEOREM: the journal implements the atomic store.  Outside the unsafe   *)
(* windows a transaction takes effect completely, at the instant its       *)
(* commit entry is on disk, or not at all, and no write in place, replay,  *)
(* checkpoint or crash changes what the next mount shows.                  *)
(***************************************************************************)
THEOREM Refinement ==
  ASSUME SafeWindows
  PROVE  Spec => AtomicCommit
<1>1. Init => Abstract!Init
  <2> SUFFICES ASSUME Init PROVE Recovered \in [Loc -> Val] /\ ~Uncommitted
    BY DEF Abstract!Init
  <2>1. \A i \in Slots, l \in Loc : ~LastFor(i, l)
    BY DEF Init, LastFor, Replayable, FreeEntry
  <2> QED
    BY <2>1 DEF Init, Recovered, Uncommitted
<1>2. RInv /\ RInv' /\ [Next]_vars => [Abstract!Next]_(Abstract!vars)
  BY StepRefines
<1> QED
  BY <1>1, <1>2, RInductive, PTL DEF Spec, AtomicCommit, Abstract!Spec

(***************************************************************************)
(* THEOREM: a dead or unfinished transaction is never replayed.  Outside   *)
(* the unsafe windows logging an entry, the commit entry included, changes *)
(* what the next mount shows only where the transaction itself writes.     *)
(***************************************************************************)
THEOREM NeverAdopted ==
  ASSUME SafeWindows
  PROVE  Spec => UncommittedNeverReplayed
<1> DEFINE Rule == phase = "append" =>
             \A l \in Loc : Recovered'[l] # Recovered[l] =>
               \E k \in DOMAIN writes : writes[k].loc = l
<1>1. RInv /\ [Next]_vars => [Rule]_vars
  <2> SUFFICES ASSUME RInv, Next, phase = "append", NEW l \in Loc, Recovered'[l] # Recovered[l]
               PROVE  \E k \in DOMAIN writes : writes[k].loc = l
    OBVIOUS
  <2>1. cursor \in Nat /\ Len(writes) \in Nat /\ cursor <= Len(writes)
    BY DEF RInv, DInv, IInv, TypeInv, TypeOK, ControlOK
  <2>2. ~UNCHANGED <<entries, home>>
    BY QuietShowsNothing
  <2>3. AppendEntry
    BY <2>2 DEF Next, Request, Step, WriteInode, WriteFileData, WriteFileDataFull, Begin, AppendFull,
       WriteHeader, ApplyInPlace, ClearHeader, ZeroEntry, Crash, diskVars, Open, ReplayEntry, ReplayDone
  <2>4. cursor = Len(writes)
    BY <2>1, <2>3, WriteEntryShowsNothing
  <2>5. Recovered'[l] = Abstract!Overwrite(Recovered, writes)[l]
    BY <2>3, <2>4, CommitOverwrites
  <2> QED
    BY <2>5 DEF Abstract!Overwrite
<1> QED
  BY <1>1, RInductive, PTL DEF Spec, UncommittedNeverReplayed

-----------------------------------------------------------------------------
(***************************************************************************)
(* The journal's room: the inductive invariant, beyond IInv and AgeInv.    *)
(***************************************************************************)

\* A commit entry comes after a write of its transaction, until clear() zeroes it.
WroteBefore(i) ==
  \E j \in Slots : j < i /\ entries[j].type = "write" /\ entries[j].tx = entries[i].tx
CommitInv ==
  phase # "zero" \/ cursor = 0 =>
    \A i \in Slots : entries[i].type = "commit" => WroteBefore(i)

Unclogged == \A i \in Slots : Used(i) => Committed(entries[i].tx)
RoomInv ==
  phase = "idle" \/ (phase = "append" /\ cursor = 0) =>
    (Unclogged => next_slot < MaxEntries - Reserve)

RoomDInv == IInv /\ AgeInv /\ CommitInv /\ RoomInv

-----------------------------------------------------------------------------
LEMMA CommitStep ==
  ASSUME SafeWindows, IInv, CommitInv, [Next]_vars
  PROVE  CommitInv'
<1> USE JournalAssumption DEF CommitInv
<1>1. ASSUME UNCHANGED entries, phase # "zero" \/ cursor = 0 PROVE CommitInv'
  BY <1>1 DEF WroteBefore
<1>2. CASE AppendEntry
  <2>1. /\ phase = "append" /\ cursor \in Nat /\ Len(writes) \in Nat /\ Len(writes) > 0
        /\ cursor <= Len(writes) /\ next_slot \in Slots /\ next_slot \in Nat
    BY <1>2, UsedAfterAppend DEF AppendEntry, IInv, TypeInv, TypeOK, ControlOK
  <2>2. \A i \in Slots : i # next_slot => entries'[i] = entries[i]
    BY <1>2, UsedAfterAppend DEF IInv, TypeInv, TypeOK
  <2>3. \A i \in Slots : entries[i].type = "write" => i < next_slot
    BY <2>1 DEF IInv, PrefixInv, Filled, Used
  <2> SUFFICES ASSUME NEW i \in Slots, entries'[i].type = "commit"
               PROVE  \E j \in Slots : /\ j < i /\ entries'[j].type = "write"
                                       /\ entries'[j].tx = entries'[i].tx
    BY DEF WroteBefore
  <2>4. CASE i # next_slot
    <3>1. PICK j \in Slots : j < i /\ entries[j].type = "write" /\ entries[j].tx = entries[i].tx
      BY <2>1, <2>2, <2>4 DEF WroteBefore
    <3>2. j # next_slot
      BY <2>1, <2>3, <3>1
    <3> QED
      BY <2>2, <2>4, <3>1, <3>2
  <2>5. CASE i = next_slot
    <3>1. entries'[i] = CommitEntry(nextTx - 1) /\ cursor = Len(writes)
      BY <1>2, <2>1, <2>5, UsedAfterAppend DEF AppendEntry, WriteEntry, CommitEntry, IInv, TypeInv, TypeOK
    <3>2. cursor <= next_slot /\ entries[next_slot - cursor + cursor - 1] = TxEntry(cursor)
      BY <2>1, <3>1 DEF IInv, LogInv, Logged
    <3>3. PICK j \in Slots : j = next_slot - 1
      <4>1. next_slot - 1 \in Slots
        BY <2>1, <3>1, <3>2 DEF Slots
      <4> QED
        BY <4>1
    <3>4. next_slot - cursor + cursor - 1 = j /\ j < next_slot
      BY <2>1, <3>3
    <3>5. entries[j] = WriteEntry(nextTx - 1, writes[cursor])
      BY <3>1, <3>2, <3>4 DEF TxEntry
    <3> QED
      BY <2>1, <2>2, <2>5, <3>1, <3>4, <3>5 DEF WriteEntry, CommitEntry
  <2> QED
    BY <2>4, <2>5
<1>3. CASE ZeroEntry
  <2>1. \/ phase' = "zero" /\ cursor' > 0
        \/ phase' = "idle" /\ next_slot' = 0
    BY <1>3 DEF ZeroEntry, IInv, TypeInv, TypeOK, ControlOK
  <2>2. CASE phase' = "idle" /\ next_slot' = 0
    <3>1. \A i \in Slots : ~Used(i)'
      BY <2>2, NextIInv DEF IInv, PrefixInv, Filled, Lo, Slots
    <3> QED
      BY <3>1 DEF Used
  <2> QED
    BY <2>1, <2>2
<1>4. CASE Crash
  <2>1. phase' = "down" /\ UNCHANGED entries /\ ~HalfCleared
    BY <1>4 DEF Crash, diskVars, SafeWindows
  <2>2. CASE phase = "zero" /\ cursor # 0
    <3>1. \A i \in Slots : ~Used(i)
      BY <2>1, <2>2 DEF HalfCleared, IInv, TypeInv, TypeOK, PrefixInv, Filled, Lo
    <3> QED
      BY <2>1, <3>1 DEF Used
  <2> QED
    BY <1>1, <2>1, <2>2
<1>5. CASE UNCHANGED vars
  BY <1>5 DEF vars, WroteBefore
<1>6. ~AppendEntry /\ ~ZeroEntry /\ ~Crash /\ Next =>
        UNCHANGED entries /\ phase # "zero"
  BY DEF Next, Request, Step, WriteInode, WriteFileData, WriteFileDataFull, Begin, AppendFull,
     WriteHeader, ApplyInPlace, ClearHeader, Open, ReplayEntry, ReplayDone
<1> QED
  BY <1>1, <1>2, <1>3, <1>4, <1>5, <1>6

\* A logged write of the transaction in progress clogs the journal.
LEMMA OwnEntryClogs ==
  ASSUME IInv, AgeInv, phase = "append", cursor > 0
  PROVE  ~Unclogged
<1> SUFFICES ASSUME Unclogged PROVE FALSE
  OBVIOUS
<1> USE JournalAssumption
<1>1. /\ cursor \in Nat /\ next_slot \in 0..MaxEntries /\ cursor <= next_slot
      /\ Len(writes) \in Nat /\ cursor <= Len(writes)
  BY DEF IInv, TypeInv, TypeOK, ControlOK
<1>2. PICK i \in Slots : i = next_slot - 1
  <2>1. next_slot - 1 \in Slots
    BY <1>1 DEF Slots
  <2> QED
    BY <2>1
<1>3. entries[i] = WriteEntry(nextTx - 1, writes[cursor])
  <2>1. entries[next_slot - cursor + cursor - 1] = TxEntry(cursor)
    BY <1>1 DEF IInv, LogInv, Logged
  <2>2. next_slot - cursor + cursor - 1 = i
    BY <1>1, <1>2
  <2> QED
    BY <1>1, <2>1, <2>2 DEF TxEntry
<1>4. Committed(nextTx - 1)
  <2>1. Used(i) /\ entries[i].tx = nextTx - 1
    BY <1>3 DEF Used, WriteEntry
  <2> QED
    BY <2>1 DEF Unclogged
<1>5. PICK c \in Slots : Scanned(c) /\ entries[c].type = "commit" /\ entries[c].tx = nextTx - 1
  BY <1>4 DEF Committed
<1>6. c < next_slot
  BY <1>5 DEF IInv, PrefixInv, Filled, Used
<1>7. PICK k \in 1..cursor : entries[c] = WriteEntry(nextTx - 1, writes[k])
  BY <1>5, <1>6, OwnEntries
<1> QED
  BY <1>5, <1>7 DEF WriteEntry

LEMMA RoomStep ==
  ASSUME SafeWindows, Reserve < MaxEntries, IInv, AgeInv, CommitInv, RoomInv, [Next]_vars
  PROVE  RoomInv'
<1> USE JournalAssumption DEF RoomInv
<1>1. ASSUME UNCHANGED <<entries, next_slot>>,
             phase = "idle" \/ (phase = "append" /\ cursor = 0)
      PROVE  RoomInv'
  BY <1>1 DEF Unclogged, Committed, Scanned, Used
<1>2. ASSUME NEW ws, Begin(ws) PROVE RoomInv'
  BY <1>1, <1>2 DEF Begin
<1>3. ASSUME NEW ws \in DataWrites, WriteFileDataFull(ws) PROVE RoomInv'
  BY <1>1, <1>3 DEF WriteFileDataFull
<1>4. CASE AppendFull
  <2>1. /\ phase = "append" /\ UNCHANGED <<entries, next_slot>> /\ cursor \in Nat
    BY <1>4 DEF AppendFull, IInv, TypeInv, TypeOK
  <2>2. CASE cursor = 0
    BY <1>1, <2>1, <2>2
  <2>3. CASE cursor > 0
    <3>1. ~Unclogged
      BY <2>1, <2>3, OwnEntryClogs
    <3> QED
      BY <2>1, <3>1 DEF Unclogged, Committed, Scanned, Used
  <2> QED
    BY <2>1, <2>2, <2>3
<1>5. CASE WriteHeader
  BY <1>5 DEF WriteHeader, IInv, TypeInv, TypeOK
<1>6. CASE ApplyInPlace
  <2>1. phase' = "idle" => ~NeedsCheckpoint /\ next_slot' = next_slot
    BY <1>6 DEF ApplyInPlace
  <2>2. phase' \in {"apply", "clear", "idle"}
    BY <1>6 DEF ApplyInPlace
  <2> QED
    BY <2>1, <2>2 DEF NeedsCheckpoint, IInv, TypeInv, TypeOK
<1>7. CASE ZeroEntry
  BY <1>7 DEF ZeroEntry, IInv, TypeInv, ControlOK
<1>8. CASE ReplayDone
  <2>1. /\ phase = "replay" /\ UNCHANGED <<entries, next_slot>>
        /\ phase' \in {"clear", "idle"}
        /\ phase' = "idle" => \A i \in Slots : ~Replayable(i)
    BY <1>8 DEF ReplayDone
  <2> SUFFICES ASSUME phase' = "idle", Unclogged, next_slot # 0 PROVE FALSE
    BY <2>1 DEF Unclogged, Committed, Scanned, Used, IInv, TypeInv, TypeOK
  <2>2. 0 \in Slots /\ Used(0)
    BY <2>1 DEF IInv, TypeInv, TypeOK, PrefixInv, Filled, Lo, Slots
  <2>3. Committed(entries[0].tx)
    BY <2>2 DEF Unclogged
  <2>4. PICK c \in Slots : Scanned(c) /\ entries[c].type = "commit" /\ entries[c].tx = entries[0].tx
    BY <2>3 DEF Committed
  <2>5. PICK j \in Slots : j < c /\ entries[j].type = "write" /\ entries[j].tx = entries[c].tx
    BY <2>1, <2>4 DEF CommitInv, WroteBefore
  <2>6. Scanned(j)
    BY <2>4, <2>5 DEF Scanned, Slots
  <2>7. Replayable(j)
    BY <2>3, <2>4, <2>5, <2>6 DEF Replayable
  <2> QED
    BY <2>1, <2>7
<1>9. CASE UNCHANGED vars
  BY <1>9 DEF vars, Unclogged, Committed, Scanned, Used
<1>10. AppendEntry \/ ClearHeader \/ Crash \/ Open \/ ReplayEntry => phase' \notin {"idle", "append"}
  BY DEF AppendEntry, ClearHeader, Crash, Open, ReplayEntry
<1> QED
  BY <1>2, <1>3, <1>4, <1>5, <1>6, <1>7, <1>8, <1>9, <1>10
     DEF Next, Request, Step, WriteInode, WriteFileData

(***************************************************************************)
(* THEOREM: an operation that starts on a journal with no dead entries     *)
(* finds more than the reserve free, so that needs_checkpoint, asked after *)
(* every operation, keeps metadata writes from meeting "journal full".     *)
(***************************************************************************)
THEOREM Room ==
  ASSUME SafeWindows, Reserve < MaxEntries
  PROVE  Spec => []CheckpointKeepsRoom
<1>1. Init => RoomDInv
  <2> SUFFICES ASSUME Init PROVE AgeInv /\ CommitInv /\ RoomInv
    BY InitIInv DEF RoomDInv
  <2> QED
    BY JournalAssumption DEF Init, AgeInv, CommitInv, RoomInv, FreeEntry
<1>2. RoomDInv /\ [Next]_vars => RoomDInv'
  BY NextIInv, AgeStep, CommitStep, RoomStep DEF RoomDInv
<1>3. RoomDInv => CheckpointKeepsRoom
  BY DEF RoomDInv, RoomInv, Unclogged, CheckpointKeepsRoom
<1> QED
  BY <1>1, <1>2, <1>3, PTL DEF Spec
=============================================================================
