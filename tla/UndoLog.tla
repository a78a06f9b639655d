------------------------------- MODULE UndoLog -------------------------------
(***************************************************************************)
(* The undo log in the header of a persistent memory arena:                *)
(* logEntry, commitLog, resetLog and revertLog of                          *)
(* src/src/runtime/pmemLog.go, down to the single 8-byte store and the     *)
(* single PersistRange call.                                               *)
(*                                                                         *)
(* Every word exists twice: as the CPU sees it (mem, logs, num) and as a   *)
(* power failure would leave it (nvm, nlogs, nnum).  A store changes the   *)
(* first copy.  PersistRange (flush, then fence) copies the words of its   *)
(* range to the second.  A cache line may also be written back at any      *)
(* moment on its own (the Evict actions).  Words are durable one by one:   *)
(* no order between two words is assumed that no PersistRange enforces.    *)
(*                                                                         *)
(* The client is one goroutine, as for every arena in swizzleArenas and    *)
(* swizzle.  It logs an address at most once before the log is emptied,    *)
(* stores only to logged addresses, and calls resetLog only once it has    *)
(* persisted what it stored: this is how pmemHeap.go uses the log.         *)
(***************************************************************************)
EXTENDS Naturals

CONSTANTS Addr,           \* the words of the arena that may be logged
          Val,            \* the values of a word
          MaxLogEntries,  \* maxLogEntries (2 in the code)
          InitVal         \* the value of every word at first

ASSUME MaxLogEntriesAssumption == MaxLogEntries \in Nat \ {0}
ASSUME InitValAssumption == InitVal \in Val
ASSUME AddrAssumption == Addr # {}

VARIABLES mem, nvm,    \* the arena's data words, CPU view and durable view
          logs, nlogs, \* pa.logs
          num, nnum,   \* pa.numLogEntries
          pc,          \* the next statement of the client
          i            \* the loop variable of commitLog and revertLog

cpu     == <<mem, logs, num>>
durable == <<nvm, nlogs, nnum>>
vars    == <<mem, nvm, logs, nlogs, num, nnum, pc, i>>

Slot == 1..MaxLogEntries

PCs == {"idle", "logPersist", "numStore", "numPersist", "commit",
        "resetPersist", "down", "revert", "revertPersist"}

\* The words of the arena and of its log stay in their ranges: numLogEntries never
\* exceeds maxLogEntries, so logEntry writes no slot behind pa.logs.
TypeOK == /\ mem \in [Addr -> Val]
          /\ nvm \in [Addr -> Val]
          /\ logs \in [Slot -> [off : Addr, val : Val]]
          /\ nlogs \in [Slot -> [off : Addr, val : Val]]
          /\ num \in 0..MaxLogEntries
          /\ nnum \in 0..MaxLogEntries
          /\ pc \in PCs
          /\ i \in 1..(MaxLogEntries + 1)

\* A fresh arena: the file is all zeroes, the log is empty and its slots hold
\* whatever they hold.
Init == /\ mem = [a \in Addr |-> InitVal]
        /\ nvm = mem
        /\ logs = [s \in Slot |-> [off |-> CHOOSE a \in Addr : TRUE, val |-> InitVal]]
        /\ nlogs = logs
        /\ num = 0
        /\ nnum = 0
        /\ pc = "idle"
        /\ i = 1

\* The addresses named by the log, as the CPU sees it.
Logged == {logs[s].off : s \in 1..num}

------------------------------------------------------------------------------
(* logEntry(a): fill the next slot, persist it, then count it.             *)

\* Variant: the check for a free slot is off by one.
LogEntryOffByOne(a) == /\ pc = "idle"
                       /\ num <= MaxLogEntries
                       /\ a \notin Logged
                       /\ logs' = [logs EXCEPT ![num + 1] = [off |-> a, val |-> mem[a]]]
                       /\ pc' = "logPersist"
                       /\ UNCHANGED <<mem, num, durable, i>>

\* The two throw()s of logEntry are the guard: the address lies in the arena
\* and a slot is free.
LogEntry(a) == /\ pc = "idle"
               /\ num < MaxLogEntries
               /\ a \notin Logged
               /\ logs' = [logs EXCEPT ![num + 1] = [off |-> a, val |-> mem[a]]]
               /\ pc' = "logPersist"
               /\ UNCHANGED <<mem, num, durable, i>>

\* Variant: the entry is counted before it is persisted.
LogNotPersisted == /\ pc = "logPersist"
                   /\ pc' = "numStore"
                   /\ UNCHANGED <<cpu, durable, i>>

LogPersist == /\ pc = "logPersist"
              /\ nlogs' = [nlogs EXCEPT ![num + 1] = logs[num + 1]]
              /\ pc' = "numStore"
              /\ UNCHANGED <<cpu, nvm, nnum, i>>

NumStore == /\ pc = "numStore"
            /\ num' = num + 1
            /\ pc' = "numPersist"
            /\ UNCHANGED <<mem, logs, durable, i>>

NumPersist == /\ pc = "numPersist"
              /\ nnum' = num
              /\ pc' = "idle"
              /\ UNCHANGED <<cpu, nvm, nlogs, i>>

------------------------------------------------------------------------------
(* The client's own stores and its own PersistRange calls.                 *)

Store(a, v) == /\ pc = "idle"
               /\ a \in Logged
               /\ mem' = [mem EXCEPT ![a] = v]
               /\ UNCHANGED <<logs, num, durable, pc, i>>

Persist(a) == /\ pc = "idle"
              /\ nvm' = [nvm EXCEPT ![a] = mem[a]]
              /\ UNCHANGED <<cpu, nlogs, nnum, pc, i>>

------------------------------------------------------------------------------
(* commitLog persists every logged address and empties the log; resetLog   *)
(* only empties it.                                                        *)

CommitLog == /\ pc = "idle"
             /\ pc' = "commit"
             /\ i' = 1
             /\ UNCHANGED <<cpu, durable>>

\* Variant: commitLog empties the log without persisting the data, like resetLog.
CommitNoPersist == /\ pc = "commit"
                   /\ i <= num
                   /\ i' = i + 1
                   /\ UNCHANGED <<cpu, durable, pc>>

CommitPersist == /\ pc = "commit"
                 /\ i <= num
                 /\ nvm' = [nvm EXCEPT ![logs[i].off] = mem[logs[i].off]]
                 /\ i' = i + 1
                 /\ UNCHANGED <<cpu, nlogs, nnum, pc>>

CommitReset == /\ pc = "commit"
               /\ i > num
               /\ num' = 0
               /\ pc' = "resetPersist"
               /\ UNCHANGED <<mem, logs, durable, i>>

ResetLog == /\ pc = "idle"
            /\ \A a \in Logged : nvm[a] = mem[a]
            /\ num' = 0
            /\ pc' = "resetPersist"
            /\ UNCHANGED <<mem, logs, durable, i>>

\* Variant: the emptied log is not persisted.
ResetNotPersisted == /\ pc = "resetPersist"
                     /\ pc' = "idle"
                     /\ UNCHANGED <<cpu, durable, i>>

\* The last statement of commitLog, resetLog and revertLog.
ResetPersist == /\ pc = "resetPersist"
                /\ nnum' = num
                /\ pc' = "idle"
                /\ UNCHANGED <<cpu, nvm, nlogs, i>>

------------------------------------------------------------------------------
(* revertLog, at the start of the next run.                                *)

RevertLog == /\ pc = "down"
             /\ i' = 1
             /\ pc' = IF num = 0 THEN "idle" ELSE "revert"
             /\ UNCHANGED <<cpu, durable>>

RevertStore == /\ pc = "revert"
               /\ i <= num
               /\ mem' = [mem EXCEPT ![logs[i].off] = logs[i].val]
               /\ pc' = "revertPersist"
               /\ UNCHANGED <<logs, num, durable, i>>

RevertPersist == /\ pc = "revertPersist"
                 /\ nvm' = [nvm EXCEPT ![logs[i].off] = mem[logs[i].off]]
                 /\ i' = i + 1
                 /\ pc' = "revert"
                 /\ UNCHANGED <<cpu, nlogs, nnum>>

RevertReset == /\ pc = "revert"
               /\ i > num
               /\ num' = 0
               /\ pc' = "resetPersist"
               /\ UNCHANGED <<mem, logs, durable, i>>

------------------------------------------------------------------------------
(* The hardware: a dirty word is written back, or power fails.             *)

EvictData(a) == /\ nvm' = [nvm EXCEPT ![a] = mem[a]]
                /\ UNCHANGED <<cpu, nlogs, nnum, pc, i>>

EvictOff(s) == /\ nlogs' = [nlogs EXCEPT ![s].off = logs[s].off]
               /\ UNCHANGED <<cpu, nvm, nnum, pc, i>>

EvictVal(s) == /\ nlogs' = [nlogs EXCEPT ![s].val = logs[s].val]
               /\ UNCHANGED <<cpu, nvm, nnum, pc, i>>

EvictNum == /\ nnum' = num
            /\ UNCHANGED <<cpu, nvm, nlogs, pc, i>>

Crash == /\ mem' = nvm
         /\ logs' = nlogs
         /\ num' = nnum
         /\ pc' = "down"
         /\ UNCHANGED <<durable, i>>

------------------------------------------------------------------------------
Client == \/ \E a \in Addr : LogEntry(a) \/ Persist(a)
          \/ \E a \in Addr, v \in Val : Store(a, v)
          \/ CommitLog
          \/ ResetLog

\* The statements a call or a restart still has to execute.
Continue == \/ LogPersist \/ NumStore \/ NumPersist
            \/ CommitPersist \/ CommitReset \/ ResetPersist
            \/ RevertLog \/ RevertStore \/ RevertPersist \/ RevertReset

Hardware == \/ \E a \in Addr : EvictData(a)
            \/ \E s \in Slot : EvictOff(s) \/ EvictVal(s)
            \/ EvictNum
            \/ Crash

Next == Client \/ Continue \/ Hardware

Spec == Init /\ [][Next]_vars

------------------------------------------------------------------------------
(* What the log guarantees.                                                *)

\* The image the next run starts from if power fails now: the log is reverted,
\* every other word is as durable memory has it.
Recovered == [a \in Addr |->
                IF \E s \in 1..nnum : nlogs[s].off = a
                THEN nlogs[CHOOSE s \in 1..nnum : nlogs[s].off = a].val
                ELSE nvm[a]]

\* The image the client works on.  While the log is being reverted nobody reads
\* the half-restored words.
Working == IF pc \in {"down", "revert", "revertPersist"} THEN Recovered ELSE mem

Tx == INSTANCE DurableTx WITH committed <- Recovered, working <- Working

\* Atomicity (commitLog and revertLog, pmemLog.go 242-275): whatever words are
\* written back early and wherever power fails, also inside logEntry, commitLog
\* or revertLog, and repeatedly, the image found by the next run is the one of
\* the last commit, never a mixture.
ImplementsDurableTx == Tx!Spec

\* Durability (commitLog, resetLog): once the call has returned, and before
\* anything else is logged, no crash can take back a single word.
CommitDurable == (pc = "idle" /\ num = 0) => (Recovered = mem /\ nnum = 0)
------------------------------------------------------------------------------
(* The inductive invariant behind these guarantees.                        *)

\* The slots that count, in either view: while logEntry has counted its entry
\* but not persisted the count num is ahead, while the log is being emptied
\* nnum may be.
Live == {s \in Slot : s <= num \/ s <= nnum}

\* A slot that counts is durable, and no address has two of them (revertLog
\* restores in the order of logging: a second entry for an address would win
\* over the first).
EntriesDurable == \A s \in Live : nlogs[s] = logs[s]
EntriesDistinct == \A s, t \in Live : nlogs[s].off = nlogs[t].off => s = t

\* A word differs from its durable copy only under a durable log entry.
WriteAhead == \A a \in Addr :
                mem[a] # nvm[a] => \E s \in 1..nnum : nlogs[s].off = a

\* What holds between the statements of each operation.
AtLogPersist == pc \in {"logPersist", "numStore"} =>
                  /\ num < MaxLogEntries
                  /\ \A s \in 1..num : nlogs[s].off # logs[num + 1].off
                  /\ logs[num + 1].val = mem[logs[num + 1].off]
AtNumStore   == pc = "numStore" => nlogs[num + 1] = logs[num + 1]
AtNumPersist == pc = "numPersist" =>
                  /\ num \in Slot
                  /\ nnum \in {num - 1, num}
                  /\ logs[num].val = mem[logs[num].off]
AtCommit     == pc = "commit" =>
                  /\ i <= num + 1
                  /\ \A s \in 1..(i - 1) : nvm[logs[s].off] = mem[logs[s].off]
AtReset      == pc = "resetPersist" => num = 0 /\ nvm = mem
AtRevert     == pc \in {"revert", "revertPersist"} =>
                  /\ i <= num + 1
                  /\ pc = "revertPersist" => i <= num
                  /\ \A s \in 1..(i - 1) :
                        /\ mem[logs[s].off] = logs[s].val
                        /\ nvm[logs[s].off] = logs[s].val
AtRevertPersist == pc = "revertPersist" => mem[logs[i].off] = logs[i].val
AtDown       == pc = "down" => mem = nvm /\ logs = nlogs
CountDurable == pc \notin {"numPersist", "resetPersist"} => nnum = num

\* The log itself, in every state; and the state of the call in progress.
LogSafe == EntriesDurable /\ EntriesDistinct /\ WriteAhead
AtStep  == /\ AtLogPersist /\ AtNumStore /\ AtNumPersist
           /\ AtCommit /\ AtReset
           /\ AtRevert /\ AtRevertPersist /\ AtDown
           /\ CountDurable

\* The inductive invariant of logEntry, commitLog, resetLog and revertLog: each
\* of them is safe because of what the earlier ones left behind.
LogInv == TypeOK /\ LogSafe /\ AtStep

==============================================================================
