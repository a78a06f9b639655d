------------------------------ MODULE LogStore ------------------------------
(***************************************************************************)
(* What the compiler makes of a txn() block: gc/ssa.go lowers each         *)
(* assignment to stores and marks one of them (LogThisStore), the pass     *)
(* logStore puts a call of tx.Log3 in front of every marked store that may *)
(* go to persistent memory, and the code around the block gets and returns *)
(* the transaction handle of the goroutine.  The model lowers and rewrites *)
(* the functions of a program one after the other and then runs them.      *)
(*                                                                         *)
(* A memory word is eight bytes.  An assignment has an object of its own   *)
(* or shares it with others; its value is the number of the run of the     *)
(* function that assigns it.  A function is                                *)
(*      txn() { head; if c { branch }; tail }                              *)
(* and a call in it calls function 2.                                      *)
(***************************************************************************)
EXTENDS Naturals, Sequences, FiniteSets, SequencesExt, FiniteSetsExt

CONSTANTS Programs,     \* the programs: sequences of functions
          Object,       \* the objects that they assign
          Persistent,   \* the objects in persistent memory
          MaxWords,     \* the words of an object
          MaxRuns       \* bound: calls of function 1

ASSUME ObjectAssumption == Persistent \subseteq Object
ASSUME BoundsAssumption == MaxWords \in Nat /\ MaxRuns \in Nat

VARIABLES program,
          phase,    \* "pass", "run" or "failed"
          fn,       \* the function that is being compiled
          blocks,   \* f.Blocks of that function
          done,     \* blockDone
          cur,      \* the block and the value that the pass looks at
          code,     \* the blocks of the compiled functions
          frames,   \* the calls under way, the innermost last
          gtx,      \* g.tx: whether the goroutine has a handle
          level,    \* external: how many Begins of the transaction wait for their End
          undo,     \* external: what Log3 recorded, the oldest first
          mem,      \* the words of the objects
          runs,     \* calls of function 1
          pre,      \* history: mem at the outermost Begin
          touched,  \* history: the assignments whose stores ran since then
          left      \* history: blocks that were left by a jump or a panic

compiling == <<phase, fn, blocks, done, cur, code>>
txn       == <<gtx, level, undo, pre, touched>>
vars      == <<program, compiling, frames, txn, mem, runs, left>>

Word == 0..(MaxWords - 1)

------------------------------------------------------------------------------
(* Types: a single field of some kind, or a struct of such fields.  An     *)
(* array of one element, which is stored like its element, is left out.    *)

Kind == {"int", "ptr", "string", "slice", "iface"}
Type == [struct : BOOLEAN, fields : Seq(Kind)]

Size(kind)     == CASE kind \in {"int", "ptr"} -> 1 [] kind \in {"string", "iface"} -> 2 [] kind = "slice" -> 3
FieldOff(t, i) == LET off[j \in 1..(Len(t.fields) + 1)] ==
                        IF j = 1 THEN 0 ELSE off[j - 1] + Size(t.fields[j - 1])
                  IN  off[i]
TypeSize(t)    == FieldOff(t, Len(t.fields) + 1)

Call == [op |-> "call"]

\* A store of one word through a pointer to a type of elem words; left is TRUE
\* when that pointer is the address of the assignment itself.
Store1(w, elem, left1) == [op |-> "Store", words |-> {w}, at |-> w, elem |-> elem, left |-> left1]

StoreTypeScalars(kind, off, left1, skip) ==
  CASE kind = "int"    -> <<Store1(off, 1, left1)>>
    [] kind = "ptr"    -> <<>>
    [] kind = "string" -> IF "len" \in skip THEN <<>> ELSE <<Store1(off + 1, 1, FALSE)>>
    [] kind = "slice"  -> (IF "len" \in skip THEN <<>> ELSE <<Store1(off + 1, 1, FALSE)>>)
                          \o (IF "cap" \in skip THEN <<>> ELSE <<Store1(off + 2, 1, FALSE)>>)
    [] kind = "iface"  -> <<Store1(off, 2, left1)>>

StoreTypePtrs(kind, off, left1) ==
  CASE kind = "int"               -> <<>>
    [] kind \in {"ptr", "string", "slice"} -> <<Store1(off, Size(kind), left1)>>
    [] kind = "iface"             -> <<Store1(off + 1, 1, FALSE)>>

\* Variant: no special case for slices.
ScalarsFirst(t, skip) ==
  StoreTypeScalars(t.fields[1], 0, TRUE, skip)
  \o (IF "ptr" \in skip THEN <<>> ELSE StoreTypePtrs(t.fields[1], 0, TRUE))

\* A single field: scalars first, but the pointer of a slice before its length.
StoreSingle(t, skip) ==
  LET ptrs    == IF "ptr" \in skip THEN <<>> ELSE StoreTypePtrs(t.fields[1], 0, TRUE)
      scalars == StoreTypeScalars(t.fields[1], 0, TRUE, skip)
  IN  IF t.fields[1] = "slice" THEN ptrs \o scalars ELSE scalars \o ptrs

\* A struct: the scalars of all fields, then their pointers.  (One without
\* pointers is stored whole and split into its fields by the opt pass, which
\* leaves the mark on the last one.)
StoreStruct(t) ==
  LET fs == [i \in DOMAIN t.fields |-> StoreTypeScalars(t.fields[i], FieldOff(t, i), FALSE, {})]
      ps == [i \in DOMAIN t.fields |-> StoreTypePtrs(t.fields[i], FieldOff(t, i), FALSE)]
  IN  FlattenSeq(fs) \o FlattenSeq(ps)

\* An append in place stores the words of the slice without passing through assign;
\* the elements, which lie behind the old length, are left out.
AppendInPlace(grows) ==
  (IF grows THEN <<Store1(2, 1, FALSE), Store1(0, 3, FALSE)>> ELSE <<>>) \o <<Store1(1, 1, FALSE)>>

StoresOf(st) ==
  CASE st.op \in {"Move", "Zero"} ->
         <<[op |-> st.op, words |-> 0..(TypeSize(st.typ) - 1), at |-> 0,
            elem |-> TypeSize(st.typ), left |-> TRUE]>>
    [] st.op = "append" -> AppendInPlace(st.grows)
    [] st.op = "assign" -> IF st.typ.struct THEN StoreStruct(st.typ) ELSE StoreSingle(st.typ, st.skip)

\* storeTypePtrs notes on the address where the slice that it stores was allocated.
\* The address of a program's statement is a value of its own here; in the code two
\* statements may share one, and the second then finds the note of the first.
StoresSlice(st) == st.op = "assign" /\ ~st.typ.struct /\ st.typ.fields = <<"slice">> /\ "ptr" \notin st.skip

AddrOf(st) ==
  IF StoresSlice(st)
  THEN [st.addr EXCEPT ![1].pmem  = @ \/ st.rhs = "pmem",
                       ![1].vheap = @ \/ st.rhs = "vheap"]
  ELSE st.addr

\* assign marks the first store through the address of the assignment, or else the
\* last memory operation there is when it returns, if that is a store.
Assigned(vals, st) ==
  LET stores == StoresOf(st)
      new  == [i \in DOMAIN stores |-> [op |-> "store", s |-> stores[i], addr |-> AddrOf(st),
                                        st |-> st, mark |-> FALSE]]
      all  == vals \o new
      hits == {i \in DOMAIN new : stores[i].left}
      k    == IF hits # {} THEN Len(vals) + Min(hits) ELSE Len(all)
  IN  IF st.op = "append" \/ k = 0 \/ all[k].op # "store" THEN all ELSE [all EXCEPT ![k].mark = TRUE]

LowerStmt(vals, st) == IF st.op = "call" THEN Append(vals, Call) ELSE Assigned(vals, st)

Lower(stmts) == LET low[i \in 0..Len(stmts)] == IF i = 0 THEN <<>> ELSE LowerStmt(low[i - 1], stmts[i])
                IN  low[Len(stmts)]

Block(vals, preds, succs, kind) ==
  [vals |-> vals, preds |-> preds, succs |-> succs, kind |-> kind, phi |-> <<>>]

\* The blocks of a function: the head with the condition, the branch and the tail.
BuildSSA(f) == <<Block(Lower(f.head), <<>>, <<2, 3>>, "if"),
                 Block(Lower(f.branch), <<1>>, <<3>>, "plain"),
                 Block(Lower(f.tail), <<1, 2>>, <<>>, "ret")>>

------------------------------------------------------------------------------
(* The pass.  An address is the row of values that lead to it, the outermost *)
(* first: what each one is, and what the compiler knows of its allocation.   *)

Derived == {"OffPtr", "AddPtr", "PtrIndex", "Copy"}

WillAccessVmem(addr) ==
  LET v == addr[Min({i \in DOMAIN addr : addr[i].op \notin Derived})]
  IN  v.op \in {"SP", "LocalAddr"} \/ (v.op = "Load" /\ v.vheap)

WillAccessPmem(addr) ==
  addr[Min({i \in DOMAIN addr : addr[i].pmem \/ addr[i].op \notin Derived \cup {"Load"}})].pmem

\* A statement: an assignment to an object through an address, or a call.
Node == [op : Derived \cup {"Load", "SP", "LocalAddr", "Arg", "Addr"}, pmem : BOOLEAN, vheap : BOOLEAN]
Assignment == [op : {"assign", "append", "Move", "Zero"}, typ : Type, skip : SUBSET {"ptr", "len", "cap"},
               rhs : {"other", "pmem", "vheap"}, grows : BOOLEAN, addr : Seq(Node), obj : Object]
Function == LET Stmts == Seq(Assignment \cup {Call}) IN [head : Stmts, branch : Stmts, tail : Stmts]

\* What the compiler notes of an address is true, and the address has a root.
GoodStmt(st) == st # Call =>
  /\ st.op = "assign" /\ ~st.typ.struct => Len(st.typ.fields) = 1
  /\ \E i \in DOMAIN st.addr : st.addr[i].op \notin Derived \cup {"Load"}
  /\ WillAccessVmem(st.addr) => st.obj \notin Persistent

\* A program has functions, and the second one if there are calls.
ASSUME ProgramsAssumption == \A p \in Programs :
  /\ p \in Seq(Function) /\ p # <<>>
  /\ \A n \in DOMAIN p : \A st \in Range(p[n].head) \cup Range(p[n].branch) \cup Range(p[n].tail) :
       /\ GoodStmt(st)
       /\ st = Call => Len(p) >= 2

Init == /\ program \in Programs
        /\ phase = "pass" /\ fn = 1
        /\ blocks = BuildSSA(program[1])
        /\ done = {} /\ cur = [b |-> 0, i |-> 0]
        /\ code = <<>>
        /\ frames = <<>>
        /\ gtx = FALSE /\ level = 0 /\ undo = <<>>
        /\ mem = [o \in Object |-> [w \in Word |-> 0]]
        /\ runs = 0
        /\ pre = mem /\ touched = {} /\ left = 0

\* The next block that is not done yet.
PassBlock ==
  /\ phase = "pass" /\ cur.b = 0
  /\ \E b \in DOMAIN blocks \ done :
       /\ \A c \in 1..(b - 1) : c \in done
       /\ cur' = [b |-> b, i |-> 1]
       /\ done' = done \cup {b}
  /\ UNCHANGED <<program, phase, fn, blocks, code, frames, txn, mem, runs, left>>

Vals    == blocks[cur.b].vals
V       == Vals[cur.i]
AtValue == phase = "pass" /\ cur.b # 0 /\ cur.i <= Len(Vals)
IsMarked == AtValue /\ V.op = "store" /\ V.mark

PassBlockEnd ==
  /\ phase = "pass" /\ cur.b # 0 /\ cur.i > Len(Vals)
  /\ cur' = [b |-> 0, i |-> 0]
  /\ UNCHANGED <<program, phase, fn, blocks, done, code, frames, txn, mem, runs, left>>

PassSkip ==
  /\ AtValue /\ ~IsMarked
  /\ cur' = [cur EXCEPT !.i = @ + 1]
  /\ UNCHANGED <<program, phase, fn, blocks, done, code, frames, txn, mem, runs, left>>

\* needLog: the store goes to volatile memory.
PassVmem ==
  /\ IsMarked /\ WillAccessVmem(V.addr)
  /\ blocks' = [blocks EXCEPT ![cur.b].vals[cur.i].mark = FALSE]
  /\ cur' = [cur EXCEPT !.i = @ + 1]
  /\ UNCHANGED <<program, phase, fn, done, code, frames, txn, mem, runs, left>>

NeedsLog == IsMarked /\ ~WillAccessVmem(V.addr)

\* Variant: LogThisStore is not reset.
StillMarked == [V EXCEPT !.mark = TRUE]

Unmarked == [V EXCEPT !.mark = FALSE]

TxLog3Call == [op |-> "log", s |-> V.s, st |-> V.st]
Before     == SubSeq(Vals, 1, cur.i - 1)

\* Variant: the values after the store, without the store.
AfterStore == SubSeq(Vals, cur.i + 1, Len(Vals))

After      == <<Unmarked>> \o SubSeq(Vals, cur.i + 1, Len(Vals))

\* RemoveArg(2) takes the memory argument of a Store or a Move; a Zero has only
\* two arguments and the compiler panics.
HasMemoryArg == V.s.op # "Zero"

\* The address is known to be persistent: log in this block and look at it again.
PassPmem ==
  /\ NeedsLog /\ HasMemoryArg /\ WillAccessPmem(V.addr)
  /\ blocks' = [blocks EXCEPT ![cur.b].vals = Before \o <<TxLog3Call>> \o After]
  /\ done' = done \ {cur.b}
  /\ cur' = [b |-> 0, i |-> 0]
  /\ UNCHANGED <<program, phase, fn, code, frames, txn, mem, runs, left>>

\* It is not known: call inpmem, log in bThen, go on in bEnd.
PassTest ==
  /\ NeedsLog /\ HasMemoryArg /\ ~WillAccessPmem(V.addr)
  /\ LET b == cur.b
         bThen == Len(blocks) + 1
         bEnd  == Len(blocks) + 2
     IN  blocks' = [j \in DOMAIN blocks |->
                      IF j = b THEN [blocks[b] EXCEPT !.vals = Append(Before, [op |-> "inpmem", st |-> V.st]),
                                                      !.succs = <<bThen, bEnd>>, !.kind = "inpmem"]
                      ELSE IF j \in Range(blocks[b].succs)
                      THEN [blocks[j] EXCEPT !.preds = [k \in DOMAIN @ |-> IF @[k] = b THEN bEnd ELSE @[k]]]
                      ELSE blocks[j]]
                   \o <<Block(<<TxLog3Call>>, <<b>>, <<bEnd>>, "plain"),
                        [Block(After, <<b, bThen>>, blocks[b].succs, blocks[b].kind) EXCEPT !.phi = <<b, bThen>>]>>
  /\ cur' = [b |-> 0, i |-> 0]
  /\ UNCHANGED <<program, phase, fn, done, code, frames, txn, mem, runs, left>>

PassPanics ==
  /\ NeedsLog /\ ~HasMemoryArg
  /\ phase' = "failed"
  /\ UNCHANGED <<program, fn, blocks, done, cur, code, frames, txn, mem, runs, left>>

\* The function is compiled; the next one follows, and then the program runs.
PassEnd ==
  /\ phase = "pass" /\ cur.b = 0 /\ DOMAIN blocks \subseteq done
  /\ code' = Append(code, blocks)
  /\ fn' = fn + 1
  /\ IF fn < Len(program)
     THEN blocks' = BuildSSA(program[fn + 1]) /\ done' = {} /\ phase' = "pass"
     ELSE blocks' = <<>> /\ done' = {} /\ phase' = "run"
  /\ UNCHANGED <<program, cur, frames, txn, mem, runs, left>>

------------------------------------------------------------------------------
(* The run.                                                                *)

Top       == frames[Len(frames)]
At(pc)    == frames # <<>> /\ Top.pc = pc
SetTop(f) == [frames EXCEPT ![Len(frames)] = f]
Entered(n) == [fn |-> n, pc |-> "get", b |-> 1, i |-> 1, ran |-> <<>>]

Start ==
  /\ phase = "run" /\ frames = <<>> /\ runs < MaxRuns
  /\ runs' = runs + 1
  /\ frames' = <<Entered(1)>>
  /\ UNCHANGED <<program, compiling, txn, mem, left>>

\* initTxHandleInG
GetTxHandle ==
  /\ At("get")
  /\ frames' = SetTop([Top EXCEPT !.pc = IF gtx THEN "begin" ELSE "new"])
  /\ UNCHANGED <<program, compiling, txn, mem, runs, left>>

NewTxHandle ==
  /\ At("new")
  /\ gtx' = TRUE
  /\ frames' = SetTop([Top EXCEPT !.pc = "begin"])
  /\ UNCHANGED <<program, compiling, level, undo, pre, touched, mem, runs, left>>

Begin ==
  /\ At("begin")
  /\ level' = level + 1
  /\ IF level = 0 THEN pre' = mem /\ touched' = {} ELSE UNCHANGED <<pre, touched>>
  /\ frames' = SetTop([Top EXCEPT !.pc = "body"])
  /\ UNCHANGED <<program, compiling, gtx, undo, mem, runs, left>>

CurBlock == code[Top.fn][Top.b]
Executing(op) == At("body") /\ Top.i <= Len(CurBlock.vals) /\ CurBlock.vals[Top.i].op = op
Val     == CurBlock.vals[Top.i]
Stepped == [Top EXCEPT !.i = @ + 1]

\* What a value does for the source program.
Effect(v) == IF v.op = "store" THEN <<v.st, v.s>> ELSE <<"call">>

RunStore ==
  /\ Executing("store")
  /\ mem' = [mem EXCEPT ![Val.st.obj] = [w \in Word |-> IF w \in Val.s.words THEN runs ELSE @[w]]]
  /\ touched' = touched \cup {Val.st}
  /\ frames' = SetTop([Stepped EXCEPT !.ran = Append(@, Effect(Val))])
  /\ UNCHANGED <<program, compiling, gtx, level, undo, pre, runs, left>>

Logged(o, s) == [obj |-> o, old |-> [w \in s.at..(s.at + s.elem - 1) |-> mem[o][w]]]

\* Log3 records the words behind the pointer.
RunLog ==
  /\ Executing("log")
  /\ undo' = Append(undo, Logged(Val.st.obj, Val.s))
  /\ frames' = SetTop(Stepped)
  /\ UNCHANGED <<program, compiling, gtx, level, pre, touched, mem, runs, left>>

RunCall ==
  /\ Executing("call")
  /\ frames' = Append(SetTop([Stepped EXCEPT !.ran = Append(@, Effect(Val))]), Entered(2))
  /\ UNCHANGED <<program, compiling, txn, mem, runs, left>>

\* The end of a block: an inpmem test, a condition, or a jump.
RunJump ==
  /\ At("body")
  /\ Executing("inpmem") \/ (Top.i > Len(CurBlock.vals) /\ CurBlock.kind \in {"if", "plain"})
  /\ \E k \in DOMAIN CurBlock.succs :
       /\ Executing("inpmem") => k = (IF Val.st.obj \in Persistent THEN 1 ELSE 2)
       /\ frames' = SetTop([Top EXCEPT !.b = CurBlock.succs[k], !.i = 1])
  /\ UNCHANGED <<program, compiling, txn, mem, runs, left>>

RunReturn ==
  /\ At("body") /\ Top.i > Len(CurBlock.vals) /\ CurBlock.kind = "ret"
  /\ frames' = SetTop([Top EXCEPT !.pc = "end"])
  /\ UNCHANGED <<program, compiling, txn, mem, runs, left>>

\* resetTxHandleInG: End answers TRUE for the outermost block and commits.
End ==
  /\ At("end")
  /\ level' = level - 1
  /\ IF level = 1 THEN undo' = <<>> /\ frames' = SetTop([Top EXCEPT !.pc = "release"])
     ELSE UNCHANGED undo /\ frames' = Front(frames)
  /\ UNCHANGED <<program, compiling, gtx, pre, touched, mem, runs, left>>

\* Variant: the handle stays with the goroutine.
ReleaseOnly ==
  /\ At("release")
  /\ frames' = Front(frames)
  /\ UNCHANGED <<program, compiling, txn, mem, runs, left>>

Release ==
  /\ At("release")
  /\ gtx' = FALSE
  /\ frames' = Front(frames)
  /\ UNCHANGED <<program, compiling, level, undo, pre, touched, mem, runs, left>>

\* A break, continue or goto out of the block, or a panic that is recovered
\* outside: nothing ends the transaction.
Leave ==
  /\ At("body")
  /\ left' = left + 1
  /\ frames' = Front(frames)
  /\ UNCHANGED <<program, compiling, txn, mem, runs>>

LogStorePass == PassBlock \/ PassBlockEnd \/ PassSkip \/ PassVmem \/ PassPmem \/ PassTest \/ PassPanics \/ PassEnd
Run          == \/ Start \/ GetTxHandle \/ NewTxHandle \/ Begin
                \/ RunStore \/ RunLog \/ RunCall \/ RunJump \/ RunReturn \/ End \/ Release \/ Leave

Next == LogStorePass \/ Run
Spec == Init /\ [][Next]_vars

------------------------------------------------------------------------------
(* Properties.                                                             *)

\* The control flow graph stays one: succs and preds are each other's inverse and
\* the phi of a bEnd has its arguments in the order of its predecessors.
GraphOK(bs) == \A b \in DOMAIN bs :
  /\ \A c \in Range(bs[b].succs) : c \in DOMAIN bs /\ b \in Range(bs[c].preds)
  /\ \A c \in Range(bs[b].preds) : c \in DOMAIN bs /\ b \in Range(bs[c].succs)
  /\ bs[b].phi # <<>> => bs[b].phi = bs[b].preds

\* The pass adds two blocks for every statement at most, and what it leaves is
\* a control flow graph whose phis fit.
TypeOK ==
  /\ phase \in {"pass", "run", "failed"}
  /\ phase = "pass" => LET f == program[fn] IN Len(blocks) <= 3 + 2 * (Len(f.head) + Len(f.branch) + Len(f.tail))
  /\ GraphOK(blocks) /\ \A n \in DOMAIN code : GraphOK(code[n])
  /\ done \subseteq DOMAIN blocks
  /\ gtx \in BOOLEAN /\ level \in Nat /\ left \in Nat
  /\ mem \in [Object -> [Word -> 0..MaxRuns]] /\ pre \in [Object -> [Word -> 0..MaxRuns]]
  /\ \A n \in DOMAIN frames : frames[n].pc \in {"get", "new", "begin", "body", "end", "release"}

\* The stores and calls of a statement list, in source order.
Source(stmts) == LET vals == Lower(stmts) IN [i \in DOMAIN vals |-> Effect(vals[i])]

\* Whatever blocks and tests the pass has inserted, a run of a function performs
\* its stores and calls in the order of the source, each once, with or without the
\* branch.
StoresInOrder ==
  \A n \in DOMAIN frames :
    LET f == program[frames[n].fn]
    IN  \E path \in {Source(f.head) \o Source(f.branch) \o Source(f.tail),
                     Source(f.head) \o Source(f.tail)} :
          /\ IsPrefix(frames[n].ran, path)
          /\ frames[n].pc \in {"end", "release"} => frames[n].ran = path

\* Recovery from a power failure: undo what was logged, the latest first.
Undone(m, e) == [m EXCEPT ![e.obj] = [w \in Word |-> IF w \in DOMAIN e.old THEN e.old[w] ELSE @[w]]]
Recovered == LET back[i \in 0..Len(undo)] ==
                    IF i = 0 THEN mem ELSE Undone(back[i - 1], undo[Len(undo) + 1 - i])
             IN  back[Len(undo)]

\* The word that the last store of a struct writes: the pointer of the last field
\* that has one, or the last field.
LastWord(t) ==
  LET ptrs == {i \in DOMAIN t.fields : t.fields[i] # "int"}
      i    == IF ptrs = {} THEN Len(t.fields) ELSE Max(ptrs)
  IN  FieldOff(t, i) + (IF t.fields[i] = "iface" THEN 1 ELSE 0)

\* What the log does not cover: all words of an append in place and of a volatile
\* slice that is stored through a pointer just loaded; the length of a string
\* that comes with its pointer, and of a slice that is resliced with a capacity, which
\* are stored before the call of Log3; and all of a struct but the word stored last.
Uncovered(st) ==
  IF st.op = "append" THEN IF st.grows THEN 0..2 ELSE {1}
  ELSE IF st.op # "assign" THEN {}
  ELSE IF st.typ.struct THEN (0..(TypeSize(st.typ) - 1)) \ {LastWord(st.typ)}
  ELSE IF StoresSlice(st) /\ st.rhs = "vheap" /\ st.addr[1].op = "Load" THEN 0..2
  ELSE IF st.typ.fields = <<"string">> THEN IF "ptr" \in st.skip THEN {} ELSE {1}
  ELSE IF st.skip = {"ptr"} THEN {1}
  ELSE {}

\* At every step of a transaction, recovery brings the persistent words back to
\* what they were when the outermost block began, except for the words listed
\* above: no path through the tests and blocks that the pass inserts reaches a
\* store before its log.
RollbackComplete ==
  level > 0 => \A o \in Persistent, w \in Word :
     Recovered[o][w] # pre[o][w] => \E st \in touched : st.obj = o /\ w \in Uncovered(st)

\* As long as no block was left by a jump or a panic, the goroutine has a handle
\* exactly while it is in a block, and the transaction counts the blocks: a block
\* outside all others starts a new transaction and its end commits.
HandleMatchesBlocks ==
  LET In(pcs) == {n \in DOMAIN frames : frames[n].pc \in pcs}
  IN  left = 0 => /\ gtx <=> In({"begin", "body", "end", "release"}) # {}
                  /\ level = Cardinality(In({"body", "end"}))
                  /\ level = 0 => undo = <<>>
=============================================================================
