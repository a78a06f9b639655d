---------------------------- MODULE UndoLogProofs ----------------------------
(***************************************************************************)
(* The undo log of an arena is atomic and durable for every set of words,  *)
(* every set of values and every number of log entries.                    *)
(*                                                                         *)
(* LogInv is inductive (LogInvStep); it gives CommitDurable directly and   *)
(* is what the refinement of DurableTx needs of each step.                 *)
(***************************************************************************)
EXTENDS UndoLog, TLAPS

\* A first arena satisfies the invariant: nothing is logged.
LEMMA LogInvInit == Init => LogInv
<1> SUFFICES ASSUME Init PROVE LogInv
  OBVIOUS
<1> DEFINE c == CHOOSE a \in Addr : TRUE
<1>c. c \in Addr
  BY AddrAssumption
<1>1. TypeOK
  <2>1. mem \in [Addr -> Val] /\ nvm \in [Addr -> Val]
    BY InitValAssumption DEF Init
  <2>2. logs = [s \in Slot |-> [off |-> c, val |-> InitVal]] /\ nlogs = logs
    BY DEF Init
  <2>3. logs \in [Slot -> [off : Addr, val : Val]]
    <3> HIDE DEF c
    <3> QED BY <2>2, <1>c, InitValAssumption
  <2>4. /\ num \in 0..MaxLogEntries /\ nnum \in 0..MaxLogEntries
        /\ pc \in PCs /\ i \in 1..(MaxLogEntries + 1)
    BY MaxLogEntriesAssumption DEF Init, PCs
  <2> QED
    BY <2>1, <2>2, <2>3, <2>4 DEF TypeOK
<1>2. LogSafe
  <2>1. mem = nvm /\ num = 0 /\ nnum = 0
    BY DEF Init
  <2>2. Live = {}
    BY <2>1 DEF Live, Slot
  <2> QED
    BY <2>1, <2>2 DEF LogSafe, EntriesDurable, EntriesDistinct, WriteAhead
<1>3. AtStep
  BY DEF Init, AtStep, AtLogPersist, AtNumStore, AtNumPersist, AtCommit, AtReset,
         AtRevert, AtRevertPersist, AtDown, CountDurable
<1> QED
  BY <1>1, <1>2, <1>3 DEF LogInv

\* Every step of the client, of a call in progress and of the hardware keeps
\* the words and the log in their types.
LEMMA TypeStep == LogInv /\ [Next]_vars => TypeOK'
<1> SUFFICES ASSUME TypeOK, LogSafe, AtStep, [Next]_vars PROVE TypeOK'
  BY DEF LogInv
<1> USE MaxLogEntriesAssumption DEF TypeOK, Slot, PCs, cpu, durable
<1>1. ASSUME NEW a \in Addr, LogEntry(a) PROVE TypeOK'
  BY <1>1 DEF LogEntry
<1>2. ASSUME NEW a \in Addr, Persist(a) PROVE TypeOK'
  BY <1>2 DEF Persist
<1>3. ASSUME NEW a \in Addr, NEW v \in Val, Store(a, v) PROVE TypeOK'
  BY <1>3 DEF Store
<1>4. CASE CommitLog
  BY <1>4 DEF CommitLog
<1>5. CASE ResetLog
  BY <1>5 DEF ResetLog
<1>6. CASE LogPersist
  BY <1>6 DEF LogPersist, AtStep, AtLogPersist
<1>7. CASE NumStore
  BY <1>7 DEF NumStore, AtStep, AtLogPersist
<1>8. CASE NumPersist
  BY <1>8 DEF NumPersist
<1>9. CASE CommitPersist
  BY <1>9 DEF CommitPersist
<1>10. CASE CommitReset
  BY <1>10 DEF CommitReset
<1>11. CASE ResetPersist
  BY <1>11 DEF ResetPersist
<1>12. CASE RevertLog
  BY <1>12 DEF RevertLog
<1>13. CASE RevertStore
  BY <1>13 DEF RevertStore
<1>14. CASE RevertPersist
  BY <1>14 DEF RevertPersist, AtStep, AtRevert
<1>15. CASE RevertReset
  BY <1>15 DEF RevertReset
<1>16. ASSUME NEW a \in Addr, EvictData(a) PROVE TypeOK'
  BY <1>16 DEF EvictData
<1>17. ASSUME NEW s \in Slot, EvictOff(s) PROVE TypeOK'
  BY <1>17 DEF EvictOff
<1>18. ASSUME NEW s \in Slot, EvictVal(s) PROVE TypeOK'
  BY <1>18 DEF EvictVal
<1>19. CASE EvictNum
  BY <1>19 DEF EvictNum
<1>20. CASE Crash
  BY <1>20 DEF Crash
<1>21. CASE UNCHANGED vars
  BY <1>21 DEF vars
<1> QED
  BY <1>1, <1>2, <1>3, <1>4, <1>5, <1>6, <1>7, <1>8, <1>9, <1>10, <1>11, <1>12,
     <1>13, <1>14, <1>15, <1>16, <1>17, <1>18, <1>19, <1>20, <1>21
  DEF Next, Client, Continue, Hardware

\* An entry that the CPU or durable memory counts is the same in both.
LEMMA CountedEntry ==
  ASSUME TypeOK, EntriesDurable, NEW s \in Nat, s >= 1, s <= num \/ s <= nnum
  PROVE  s \in Live /\ s \in Slot /\ nlogs[s] = logs[s]
BY MaxLogEntriesAssumption DEF TypeOK, EntriesDurable, Live, Slot

\* When every word under a log entry is durable, every word is.
LEMMA AllDurable ==
  ASSUME TypeOK, EntriesDurable, WriteAhead, nnum = num,
         \A s \in 1..num : nvm[logs[s].off] = mem[logs[s].off]
  PROVE  nvm = mem
<1>1. \A a \in Addr : nvm[a] = mem[a]
  <2> SUFFICES ASSUME NEW a \in Addr, nvm[a] # mem[a] PROVE FALSE
    OBVIOUS
  <2>1. PICK s \in 1..nnum : nlogs[s].off = a
    BY DEF WriteAhead
  <2>2. nlogs[s] = logs[s]
    BY CountedEntry, <2>1 DEF TypeOK
  <2> QED BY <2>1, <2>2
<1> QED BY <1>1 DEF TypeOK

\* No step spoils the log: entries that count stay durable and distinct, and a
\* word ahead of its durable copy stays covered by a durable entry.
LEMMA SafeStep == LogInv /\ [Next]_vars => LogSafe'
<1> SUFFICES ASSUME TypeOK, LogSafe, AtStep, [Next]_vars, TypeOK' PROVE LogSafe'
  BY TypeStep DEF LogInv
<1> USE DEF TypeOK, LogSafe, AtStep, Slot, Live, cpu, durable,
            EntriesDurable, EntriesDistinct, WriteAhead,
            AtLogPersist, AtNumStore, AtNumPersist, AtCommit, AtReset,
            AtRevert, AtRevertPersist, AtDown, CountDurable
<1>1. ASSUME NEW a \in Addr, LogEntry(a) PROVE LogSafe'
  BY <1>1 DEF LogEntry
<1>2. ASSUME NEW a \in Addr, Persist(a) PROVE LogSafe'
  BY <1>2 DEF Persist
<1>3. ASSUME NEW a \in Addr, NEW v \in Val, Store(a, v) PROVE LogSafe'
  <2>1. EntriesDurable' /\ EntriesDistinct'
    BY <1>3 DEF Store
  <2>a. nnum = num
    BY <1>3 DEF Store
  <2>b. PICK t \in 1..num : logs[t].off = a
    BY <1>3 DEF Store, Logged
  <2>2. nlogs[t].off = a
    BY <2>a, <2>b, CountedEntry
  <2>3. WriteAhead'
    <3> SUFFICES ASSUME NEW b \in Addr, mem'[b] # nvm'[b]
                 PROVE  \E u \in 1..nnum' : nlogs'[u].off = b
      OBVIOUS
    <3>1. CASE b = a
      BY <1>3, <2>2, <3>1 DEF Store
    <3>2. CASE b # a
      BY <1>3, <3>2 DEF Store
    <3> QED BY <3>1, <3>2
  <2> QED BY <2>1, <2>3
<1>4. CASE CommitLog
  BY <1>4 DEF CommitLog
<1>5. CASE ResetLog
  BY <1>5 DEF ResetLog
<1>6. CASE LogPersist
  BY <1>6 DEF LogPersist
<1>7. CASE NumStore
  BY <1>7 DEF NumStore
<1>8. CASE NumPersist
  BY <1>8 DEF NumPersist
<1>9. CASE CommitPersist
  BY <1>9 DEF CommitPersist
<1>10. CASE CommitReset
  BY <1>10 DEF CommitReset
<1>11. CASE ResetPersist
  BY <1>11 DEF ResetPersist
<1>12. CASE RevertLog
  BY <1>12 DEF RevertLog
<1>13. CASE RevertStore
  <2>1. EntriesDurable' /\ EntriesDistinct'
    BY <1>13 DEF RevertStore
  <2>a. i \in 1..num /\ nnum = num
    BY <1>13 DEF RevertStore
  <2>2. i \in 1..nnum /\ nlogs[i] = logs[i]
    BY <2>a, CountedEntry
  <2>3. WriteAhead'
    <3> SUFFICES ASSUME NEW b \in Addr, mem'[b] # nvm'[b]
                 PROVE  \E u \in 1..nnum' : nlogs'[u].off = b
      OBVIOUS
    <3>1. CASE b = logs[i].off
      BY <1>13, <2>2, <3>1 DEF RevertStore
    <3>2. CASE b # logs[i].off
      BY <1>13, <3>2 DEF RevertStore
    <3> QED BY <3>1, <3>2
  <2> QED BY <2>1, <2>3
<1>14. CASE RevertPersist
  BY <1>14 DEF RevertPersist
<1>15. CASE RevertReset
  BY <1>15 DEF RevertReset
<1>16. ASSUME NEW a \in Addr, EvictData(a) PROVE LogSafe'
  BY <1>16 DEF EvictData
<1>17. ASSUME NEW s \in Slot, EvictOff(s) PROVE LogSafe'
  BY <1>17 DEF EvictOff
<1>18. ASSUME NEW s \in Slot, EvictVal(s) PROVE LogSafe'
  BY <1>18 DEF EvictVal
<1>19. CASE EvictNum
  BY <1>19 DEF EvictNum
<1>20. CASE Crash
  BY <1>20 DEF Crash
<1>21. CASE UNCHANGED vars
  BY <1>21 DEF vars
<1> QED
  BY <1>1, <1>2, <1>3, <1>4, <1>5, <1>6, <1>7, <1>8, <1>9, <1>10, <1>11, <1>12,
     <1>13, <1>14, <1>15, <1>16, <1>17, <1>18, <1>19, <1>20, <1>21
  DEF Next, Client, Continue, Hardware

\* Every step leaves the call in progress with what its next statement needs.
LEMMA AtStepStep == LogInv /\ [Next]_vars => AtStep'
<1> SUFFICES ASSUME TypeOK, LogSafe, AtStep, [Next]_vars, TypeOK', LogSafe' PROVE AtStep'
  BY TypeStep, SafeStep DEF LogInv
<1> USE DEF TypeOK, LogSafe, AtStep, Slot, Live, cpu, durable,
            EntriesDurable, EntriesDistinct, WriteAhead,
            AtLogPersist, AtNumStore, AtNumPersist, AtCommit, AtReset,
            AtRevert, AtRevertPersist, AtDown, CountDurable
<1>1. ASSUME NEW a \in Addr, LogEntry(a) PROVE AtStep'
  <2>1. pc' = "logPersist" /\ num' = num /\ nnum' = nnum /\ nnum = num
    BY <1>1 DEF LogEntry
  <2>2. logs'[num + 1] = [off |-> a, val |-> mem[a]] /\ num < MaxLogEntries
    BY <1>1 DEF LogEntry
  <2>3. \A s \in 1..num : nlogs'[s].off # a
    <3> SUFFICES ASSUME NEW s \in 1..num PROVE nlogs[s].off # a
      BY <1>1 DEF LogEntry
    <3>1. logs[s].off # a
      BY <1>1 DEF LogEntry, Logged
    <3> QED BY <3>1, CountedEntry
  <2>4. mem' = mem
    BY <1>1 DEF LogEntry
  <2>5. AtLogPersist'
    BY <2>1, <2>2, <2>3, <2>4
  <2> QED BY <2>1, <2>5
<1>2. ASSUME NEW a \in Addr, Persist(a) PROVE AtStep'
  BY <1>2 DEF Persist
<1>3. ASSUME NEW a \in Addr, NEW v \in Val, Store(a, v) PROVE AtStep'
  BY <1>3 DEF Store
<1>4. CASE CommitLog
  BY <1>4 DEF CommitLog
<1>5. CASE ResetLog
  <2>1. \A s \in 1..num : nvm[logs[s].off] = mem[logs[s].off]
    BY <1>5 DEF ResetLog, Logged
  <2>2. nvm = mem
    <3>1. nnum = num
      BY <1>5 DEF ResetLog
    <3> QED BY <2>1, <3>1, AllDurable
  <2>3. pc' = "resetPersist" /\ num' = 0 /\ nvm' = nvm /\ mem' = mem
    BY <1>5 DEF ResetLog
  <2> QED BY <2>2, <2>3
<1>6. CASE LogPersist
  BY <1>6 DEF LogPersist
<1>7. CASE NumStore
  BY <1>7 DEF NumStore
<1>8. CASE NumPersist
  BY <1>8 DEF NumPersist
<1>9. CASE CommitPersist
  BY <1>9 DEF CommitPersist
<1>10. CASE CommitReset
  <2>1. \A s \in 1..num : nvm[logs[s].off] = mem[logs[s].off]
    BY <1>10 DEF CommitReset
  <2>2. nvm = mem
    <3>1. nnum = num
      BY <1>10 DEF CommitReset
    <3> QED BY <2>1, <3>1, AllDurable
  <2>3. pc' = "resetPersist" /\ num' = 0 /\ nvm' = nvm /\ mem' = mem
    BY <1>10 DEF CommitReset
  <2> QED BY <2>2, <2>3
<1>11. CASE ResetPersist
  BY <1>11 DEF ResetPersist
<1>12. CASE RevertLog
  BY <1>12 DEF RevertLog
<1>13. CASE RevertStore
  <2>1. i \in 1..num /\ nnum = num /\ pc' = "revertPersist"
    BY <1>13 DEF RevertStore
  <2>2. \A s \in 1..(i - 1) : logs[s].off # logs[i].off
    BY <2>1, CountedEntry
  <2>3. AtRevert'
    BY <1>13, <2>1, <2>2 DEF RevertStore
  <2>4. AtRevertPersist'
    BY <1>13, <2>1 DEF RevertStore
  <2>5. CountDurable'
    BY <1>13, <2>1 DEF RevertStore
  <2> QED BY <2>1, <2>3, <2>4, <2>5
<1>14. CASE RevertPersist
  BY <1>14 DEF RevertPersist
<1>15. CASE RevertReset
  <2>1. \A s \in 1..num : nvm[logs[s].off] = mem[logs[s].off]
    BY <1>15 DEF RevertReset
  <2>2. nvm = mem
    <3>1. nnum = num
      BY <1>15 DEF RevertReset
    <3> QED BY <2>1, <3>1, AllDurable
  <2>3. pc' = "resetPersist" /\ num' = 0 /\ nvm' = nvm /\ mem' = mem
    BY <1>15 DEF RevertReset
  <2> QED BY <2>2, <2>3
<1>16. ASSUME NEW a \in Addr, EvictData(a) PROVE AtStep'
  BY <1>16 DEF EvictData
<1>17. ASSUME NEW s \in Slot, EvictOff(s) PROVE AtStep'
  BY <1>17 DEF EvictOff
<1>18. ASSUME NEW s \in Slot, EvictVal(s) PROVE AtStep'
  BY <1>18 DEF EvictVal
<1>19. CASE EvictNum
  BY <1>19 DEF EvictNum
<1>20. CASE Crash
  BY <1>20 DEF Crash
<1>21. CASE UNCHANGED vars
  BY <1>21 DEF vars
<1> QED
  BY <1>1, <1>2, <1>3, <1>4, <1>5, <1>6, <1>7, <1>8, <1>9, <1>10, <1>11, <1>12,
     <1>13, <1>14, <1>15, <1>16, <1>17, <1>18, <1>19, <1>20, <1>21
  DEF Next, Client, Continue, Hardware

\* Type correctness of the undo log (pmemLog.go 218-275): the count never leaves
\* 0..MaxLogEntries, so logEntry never writes past pa.logs.
THEOREM TypeCorrect == Spec => []TypeOK
<1>1. Init => LogInv
  BY LogInvInit
<1>2. LogInv /\ [Next]_vars => LogInv'
  BY TypeStep, SafeStep, AtStepStep DEF LogInv
<1>3. LogInv => TypeOK
  BY DEF LogInv
<1> QED
  BY <1>1, <1>2, <1>3, PTL DEF Spec

\* The inductive invariant holds in every behaviour.
THEOREM LogInvariant == Spec => []LogInv
<1>1. LogInv /\ [Next]_vars => LogInv'
  BY TypeStep, SafeStep, AtStepStep DEF LogInv
<1> QED
  BY LogInvInit, <1>1, PTL DEF Spec

------------------------------------------------------------------------------
(* What a restart recovers.                                                *)

\* A logged word is recovered from its (only) entry, any other word from
\* durable memory.
RecoveredFacts ==
  /\ Recovered \in [Addr -> Val]
  /\ \A s \in 1..nnum : Recovered[nlogs[s].off] = nlogs[s].val
  /\ \A a \in Addr : (\A s \in 1..nnum : nlogs[s].off # a) => Recovered[a] = nvm[a]

\* RecoveredFacts follow from the invariant: the log is well formed.
LEMMA RecoveredValue == LogInv => RecoveredFacts
<1> SUFFICES ASSUME LogInv PROVE RecoveredFacts
  OBVIOUS
<1> DEFINE Entry(a) == CHOOSE s \in 1..nnum : nlogs[s].off = a
<1>1. ASSUME NEW a \in Addr, NEW s \in 1..nnum, nlogs[s].off = a
      PROVE  Entry(a) = s /\ Recovered[a] = nlogs[s].val /\ nlogs[s].val \in Val
  <2>1. Entry(a) \in 1..nnum /\ nlogs[Entry(a)].off = a
    BY <1>1
  <2>2. s \in Live /\ s \in Slot
    BY CountedEntry DEF LogInv, LogSafe, TypeOK
  <2>3. Entry(a) \in Live
    BY <2>1, CountedEntry DEF LogInv, LogSafe, TypeOK
  <2>4. Entry(a) = s
    <3> HIDE DEF Entry
    <3> QED BY <1>1, <2>1, <2>2, <2>3 DEF LogInv, LogSafe, EntriesDistinct
  <2>5. Recovered[a] = nlogs[Entry(a)].val
    BY <1>1 DEF Recovered
  <2> QED
    BY <2>2, <2>4, <2>5 DEF LogInv, TypeOK
<1>2. ASSUME NEW a \in Addr, \A s \in 1..nnum : nlogs[s].off # a
      PROVE  Recovered[a] = nvm[a]
  BY <1>2 DEF Recovered
<1>3. \A a \in Addr : Recovered[a] \in Val
  BY <1>1, <1>2 DEF LogInv, TypeOK
<1>4. Recovered \in [Addr -> Val]
  <2>1. Recovered = [a \in Addr |-> Recovered[a]]
    BY DEF Recovered
  <2> QED BY <1>3, <2>1
<1>5. \A s \in 1..nnum : nlogs[s].off \in Addr
  BY CountedEntry DEF LogInv, LogSafe, TypeOK
<1> QED
  BY <1>1, <1>2, <1>4, <1>5 DEF RecoveredFacts

\* A step that keeps the counted entries, and every word without one, does not
\* change what is recovered.
LEMMA SameRecovered ==
  ASSUME LogInv, LogInv', nnum' = nnum,
         \A s \in 1..nnum : nlogs'[s] = nlogs[s],
         \A a \in Addr : (\A s \in 1..nnum : nlogs[s].off # a) => nvm'[a] = nvm[a]
  PROVE  Recovered' = Recovered
<1>1. RecoveredFacts
  BY RecoveredValue
<1>2. RecoveredFacts'
  BY RecoveredValue, PTL
<1>3. ASSUME NEW a \in Addr PROVE Recovered'[a] = Recovered[a]
  <2>1. CASE \E s \in 1..nnum : nlogs[s].off = a
    BY <1>1, <1>2, <2>1 DEF RecoveredFacts
  <2>2. CASE \A s \in 1..nnum : nlogs[s].off # a
    <3>1. Recovered[a] = nvm[a]
      BY <1>1, <2>2 DEF RecoveredFacts
    <3>2. \A s \in 1..nnum' : nlogs'[s].off # a
      BY <2>2
    <3>3. Recovered'[a] = nvm'[a]
      BY <1>2, <3>2 DEF RecoveredFacts
    <3> QED BY <2>2, <3>1, <3>3
  <2> QED BY <2>1, <2>2
<1>4. Recovered \in [Addr -> Val] /\ Recovered' \in [Addr -> Val]
  BY <1>1, <1>2 DEF RecoveredFacts
<1> QED
  BY <1>3, <1>4

\* With an empty durable log durable memory is what is recovered.
LEMMA EmptyLog == LogInv /\ nnum = 0 => Recovered = nvm
BY RecoveredValue DEF RecoveredFacts, LogInv, TypeOK

\* Durability: when commitLog, resetLog or revertLog has returned and nothing is
\* logged, a crash takes back no word (pmemLog.go 261-275).
THEOREM Durability == Spec => []CommitDurable
<1>1. LogInv => CommitDurable
  <2> SUFFICES ASSUME LogInv, pc = "idle", num = 0
               PROVE  Recovered = mem /\ nnum = 0
    BY DEF CommitDurable
  <2>1. nnum = num
    BY DEF LogInv, AtStep, CountDurable
  <2>2. nvm = mem
    BY <2>1, AllDurable DEF LogInv, LogSafe
  <2> QED
    BY <2>1, <2>2, EmptyLog
<1> QED
  BY LogInvariant, <1>1, PTL

------------------------------------------------------------------------------
(* The refinement.                                                         *)

\* A word that PersistRange or an eviction copies to durable memory was logged,
\* or was durable already: what is recovered does not change.
LEMMA CopyBack ==
  ASSUME LogInv, LogInv', NEW a \in Addr,
         nvm' = [nvm EXCEPT ![a] = mem[a]], nlogs' = nlogs, nnum' = nnum
  PROVE  Recovered' = Recovered
<1>1. ASSUME NEW b \in Addr, \A s \in 1..nnum : nlogs[s].off # b
      PROVE  nvm'[b] = nvm[b]
  <2>1. mem[b] = nvm[b]
    BY <1>1 DEF LogInv, LogSafe, WriteAhead
  <2> QED BY <2>1 DEF LogInv, TypeOK
<1> QED
  BY <1>1, SameRecovered

\* When every logged word has been restored, memory is what is recovered.
LEMMA Reverted ==
  ASSUME LogInv, nnum = num,
         \A s \in 1..num : mem[logs[s].off] = logs[s].val
  PROVE  Recovered = mem
<1>1. ASSUME NEW a \in Addr PROVE Recovered[a] = mem[a]
  <2>1. CASE \E s \in 1..nnum : nlogs[s].off = a
    <3>1. PICK s \in 1..nnum : nlogs[s].off = a
      BY <2>1
    <3>2. nlogs[s] = logs[s]
      BY CountedEntry DEF LogInv, LogSafe, TypeOK
    <3>3. Recovered[a] = nlogs[s].val
      BY <3>1, RecoveredValue DEF RecoveredFacts
    <3> QED BY <3>1, <3>2, <3>3
  <2>2. CASE \A s \in 1..nnum : nlogs[s].off # a
    BY <2>2, RecoveredValue DEF RecoveredFacts, LogInv, LogSafe, WriteAhead
  <2> QED BY <2>1, <2>2
<1> QED
  BY <1>1, RecoveredValue DEF RecoveredFacts, LogInv, TypeOK

\* Every step of the undo log is a step of the transactional memory, or none.
LEMMA RefinementStep == LogInv /\ LogInv' /\ [Next]_vars => [Tx!Next]_(Tx!vars)
<1> SUFFICES ASSUME LogInv, LogInv', [Next]_vars
             PROVE  [Tx!Next]_(Tx!vars)
  OBVIOUS
<1> DEFINE Same == Recovered' = Recovered /\ Working' = Working
<1>a. Same => [Tx!Next]_(Tx!vars)
  BY DEF Tx!vars
<1>b. TypeOK /\ LogSafe /\ AtStep
  BY DEF LogInv
<1>c. ASSUME NEW a \in Addr, nvm' = [nvm EXCEPT ![a] = mem[a]],
             UNCHANGED <<cpu, nlogs, nnum>>,
             pc' = pc \/ (pc = "revertPersist" /\ pc' = "revert")
      PROVE  Same
  <2>1. Recovered' = Recovered
    BY <1>c, CopyBack
  <2> QED BY <1>c, <2>1 DEF Working, cpu
<1>1. ASSUME NEW a \in Addr, LogEntry(a) PROVE Same
  <2>1. Recovered' = Recovered
    BY <1>1 DEF LogEntry, durable, Recovered
  <2> QED BY <1>1, <2>1 DEF LogEntry, Working
<1>2. ASSUME NEW a \in Addr, Persist(a) PROVE Same
  BY <1>2, <1>c DEF Persist
<1>3. ASSUME NEW a \in Addr, NEW v \in Val, Store(a, v) PROVE [Tx!Next]_(Tx!vars)
  <2>1. Recovered' = Recovered
    BY <1>3 DEF Store, durable, Recovered
  <2>2. Working = mem /\ Working' = mem'
    BY <1>3 DEF Store, Working
  <2>3. Tx!Write(a, v)
    BY <1>3, <2>1, <2>2 DEF Store, Tx!Write
  <2> QED BY <2>3 DEF Tx!Next
<1>4. CASE CommitLog
  BY <1>4, <1>a DEF CommitLog, cpu, durable, Recovered, Working
<1>5. CASE ResetLog
  BY <1>5, <1>a DEF ResetLog, durable, Recovered, Working
<1>6. CASE LogPersist
  <2>1. nnum = num /\ num \in Nat /\ nnum' = nnum /\ nvm' = nvm
    BY <1>6, <1>b DEF LogPersist, AtStep, CountDurable, TypeOK
  <2>2. \A s \in 1..nnum : nlogs'[s] = nlogs[s]
    BY <1>6, <1>b, <2>1 DEF LogPersist, TypeOK, Slot
  <2>3. Recovered' = Recovered
    BY <2>1, <2>2, SameRecovered
  <2> QED BY <1>6, <1>a, <2>3 DEF LogPersist, Working, cpu
<1>7. CASE NumStore
  <2>1. Recovered' = Recovered
    BY <1>7 DEF NumStore, durable, Recovered
  <2> QED BY <1>7, <1>a, <2>1 DEF NumStore, Working
<1>8. CASE NumPersist \/ (EvictNum /\ pc = "numPersist")
  <2>1. nnum' = num /\ nlogs' = nlogs /\ nvm' = nvm /\ cpu' = cpu /\ pc = "numPersist"
    BY <1>8 DEF NumPersist, EvictNum
  <2>2. pc' \in {"idle", "numPersist"}
    BY <1>8 DEF NumPersist, EvictNum
  <2>3. Recovered' = Recovered
    <3>1. CASE nnum = num
      BY <2>1, <3>1, SameRecovered
    <3>2. CASE nnum # num
      <4>1. num \in Slot /\ nnum = num - 1 /\ nnum' = num
        BY <1>b, <2>1, <3>2 DEF AtStep, AtNumPersist
      <4> DEFINE b == logs[num].off
      <4>2. nlogs[num] = logs[num] /\ b \in Addr
        BY <1>b, <4>1 DEF LogSafe, EntriesDurable, Live, TypeOK, Slot
      <4>3. \A s \in 1..nnum : nlogs[s].off # b
        <5> SUFFICES ASSUME NEW s \in 1..nnum PROVE nlogs[s].off # nlogs[num].off
          BY <4>2
        <5>1. s # num /\ s \in Live /\ num \in Live
          BY <1>b, <4>1, MaxLogEntriesAssumption DEF Live, Slot, TypeOK
        <5> QED BY <1>b, <5>1 DEF LogSafe, EntriesDistinct
      <4>4. nvm[b] = logs[num].val
        <5>1. nvm[b] = mem[b]
          BY <1>b, <4>2, <4>3 DEF LogSafe, WriteAhead
        <5> QED BY <1>b, <2>1, <5>1 DEF AtStep, AtNumPersist
      <4>5. RecoveredFacts /\ RecoveredFacts'
        BY RecoveredValue, PTL
      <4>6. ASSUME NEW a \in Addr PROVE Recovered'[a] = Recovered[a]
        <5>1. CASE a = b
          <6>1. Recovered[a] = nvm[b]
            BY <4>3, <4>5, <5>1 DEF RecoveredFacts
          <6>2. num \in 1..nnum' /\ nlogs'[num].off = a /\ nlogs'[num].val = logs[num].val
            BY <2>1, <4>1, <4>2, <5>1 DEF Slot
          <6>3. Recovered'[a] = logs[num].val
            BY <4>5, <6>2 DEF RecoveredFacts
          <6> QED BY <4>4, <6>1, <6>3
        <5>2. CASE a # b /\ \E s \in 1..nnum : nlogs[s].off = a
          <6>1. PICK s \in 1..nnum : nlogs[s].off = a
            BY <5>2
          <6>2. s \in 1..nnum'
            BY <4>1 DEF Slot
          <6> QED BY <2>1, <4>5, <6>1, <6>2 DEF RecoveredFacts
        <5>3. CASE a # b /\ \A s \in 1..nnum : nlogs[s].off # a
          <6>1. \A s \in 1..nnum' : nlogs'[s].off # a
            BY <2>1, <4>1, <4>2, <5>3 DEF Slot
          <6>2. Recovered[a] = nvm[a] /\ Recovered'[a] = nvm'[a]
            BY <4>5, <5>3, <6>1 DEF RecoveredFacts
          <6> QED BY <2>1, <6>2
        <5> QED BY <5>1, <5>2, <5>3
      <4> QED BY <4>5, <4>6 DEF RecoveredFacts
    <3> QED BY <3>1, <3>2
  <2> QED BY <1>a, <2>1, <2>2, <2>3 DEF Working, cpu
<1>9. CASE CommitPersist
  <2>1. logs[i].off \in Addr
    BY <1>9, <1>b, MaxLogEntriesAssumption DEF CommitPersist, TypeOK, Slot
  <2> QED BY <1>9, <1>a, <1>c, <2>1 DEF CommitPersist
<1>10. CASE CommitReset
  BY <1>10, <1>a DEF CommitReset, durable, Recovered, Working
<1>11. CASE ResetPersist \/ (EvictNum /\ pc = "resetPersist")
  <2>1. nnum' = 0 /\ nvm' = nvm /\ nvm = mem /\ mem' = mem /\ pc = "resetPersist"
    BY <1>11, <1>b DEF ResetPersist, EvictNum, cpu, AtStep, AtReset
  <2>2. Recovered' = mem
    <3>1. (LogInv /\ nnum = 0)'
      BY <2>1
    <3>2. (Recovered = nvm)'
      BY <3>1, EmptyLog, PTL
    <3> QED BY <2>1, <3>2
  <2>3. Working = mem /\ Working' = mem
    BY <1>11, <2>1 DEF ResetPersist, EvictNum, Working
  <2>4. Tx!Commit
    BY <2>2, <2>3 DEF Tx!Commit
  <2> QED BY <2>4 DEF Tx!Next
<1>12. CASE RevertLog
  <2>1. Recovered' = Recovered
    BY <1>12 DEF RevertLog, durable, Recovered
  <2>2. CASE num = 0
    <3>1. Recovered = mem
      BY <1>12, <1>b, <2>2, EmptyLog DEF RevertLog, AtStep, AtDown, CountDurable
    <3> QED BY <1>12, <1>a, <2>1, <2>2, <3>1 DEF RevertLog, Working, cpu
  <2>3. CASE num # 0
    BY <1>12, <1>a, <2>1, <2>3 DEF RevertLog, Working
  <2> QED BY <2>2, <2>3
<1>13. CASE RevertStore
  <2>1. Recovered' = Recovered
    BY <1>13 DEF RevertStore, durable, Recovered
  <2> QED BY <1>13, <1>a, <2>1 DEF RevertStore, Working
<1>14. CASE RevertPersist
  <2>1. logs[i].off \in Addr
    BY <1>14, <1>b, MaxLogEntriesAssumption DEF RevertPersist, TypeOK, Slot, AtStep, AtRevert
  <2> QED BY <1>14, <1>a, <1>c, <2>1 DEF RevertPersist
<1>15. CASE RevertReset
  <2>1. Recovered' = Recovered
    BY <1>15 DEF RevertReset, durable, Recovered
  <2>2. Recovered = mem
    <3>1. nnum = num /\ \A s \in 1..num : mem[logs[s].off] = logs[s].val
      BY <1>15, <1>b DEF RevertReset, AtStep, AtRevert, CountDurable, TypeOK
    <3> QED BY <3>1, Reverted
  <2> QED BY <1>15, <1>a, <2>1, <2>2 DEF RevertReset, Working
<1>16. ASSUME NEW a \in Addr, EvictData(a) PROVE Same
  BY <1>16, <1>c DEF EvictData
<1>17. ASSUME NEW s \in Slot, EvictOff(s) \/ EvictVal(s) PROVE Same
  <2>1. \A t \in 1..nnum : nlogs'[t] = nlogs[t]
    <3> SUFFICES ASSUME NEW t \in 1..nnum PROVE nlogs'[t] = nlogs[t]
      OBVIOUS
    <3>1. t \in Slot /\ nlogs[t] = logs[t]
      BY <1>b, CountedEntry DEF LogSafe, TypeOK
    <3> QED BY <1>17, <1>b, <3>1 DEF EvictOff, EvictVal, TypeOK
  <2>2. Recovered' = Recovered
    BY <1>17, <2>1, SameRecovered DEF EvictOff, EvictVal
  <2> QED BY <1>17, <2>2 DEF EvictOff, EvictVal, Working, cpu
<1>18. CASE EvictNum /\ pc \notin {"numPersist", "resetPersist"}
  <2>1. nnum' = nnum
    BY <1>18, <1>b DEF EvictNum, AtStep, CountDurable
  <2> QED BY <1>18, <1>a, <2>1 DEF EvictNum, Recovered, Working, cpu
<1>19. CASE Crash
  <2>1. Recovered' = Recovered
    BY <1>19 DEF Crash, durable, Recovered
  <2>2. Tx!Abort
    BY <1>19, <2>1 DEF Crash, Working, Tx!Abort
  <2> QED BY <2>2 DEF Tx!Next
<1>20. CASE UNCHANGED vars
  BY <1>20, <1>a DEF vars, Recovered, Working
<1> HIDE DEF Same
<1> QED
  BY <1>a, <1>1, <1>2, <1>3, <1>4, <1>5, <1>6, <1>7, <1>8, <1>9, <1>10, <1>11,
     <1>12, <1>13, <1>14, <1>15, <1>16, <1>17, <1>18, <1>19, <1>20
  DEF Next, Client, Continue, Hardware

\* Atomicity: the undo log implements a memory whose updates are durable all
\* together or not at all, whatever is written back early and wherever, and
\* however often, power fails (pmemLog.go 218-275).
THEOREM Refinement == Spec => ImplementsDurableTx
<1>1. Init => Tx!Init
  <2> SUFFICES ASSUME Init PROVE Tx!Init
    OBVIOUS
  <2>1. Recovered = nvm /\ nvm \in [Addr -> Val]
    BY LogInvInit, EmptyLog DEF Init, LogInv, TypeOK
  <2>2. Working = mem /\ nvm = mem
    BY DEF Init, Working
  <2> QED BY <2>1, <2>2 DEF Tx!Init
<1> QED
  BY <1>1, RefinementStep, LogInvariant, PTL DEF Spec, ImplementsDurableTx, Tx!Spec

==============================================================================
