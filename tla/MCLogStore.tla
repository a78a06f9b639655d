---------------------------- MODULE MCLogStore ----------------------------
(***************************************************************************)
(* Every single assignment on every kind of address, pairs of assignments  *)
(* on both sides of a branch, and functions that call each other.          *)
(***************************************************************************)
EXTENDS LogStore

CONSTANTS pObj, qObj, vObj   \* two persistent objects and a volatile one

Flags(op, inPmem, inVheap) == [op |-> op, pmem |-> inPmem, vheap |-> inVheap]
Plain(op) == Flags(op, FALSE, FALSE)

\* A local variable, the result of pnew, the result of new, a pointer that was
\* loaded from a persistent object, an argument, and a pointer in a global variable.
Local  == <<Plain("LocalAddr")>>
Pnew   == <<Plain("OffPtr"), Flags("Load", TRUE, FALSE), Plain("SP")>>
New    == <<Plain("OffPtr"), Flags("Load", FALSE, TRUE), Plain("SP")>>
Field  == <<Plain("OffPtr"), Plain("Load")>> \o Pnew
Arg    == <<Plain("PtrIndex"), Plain("Arg")>>
Global == <<Plain("Load"), Plain("Addr")>>

Targets == [addr : {Local, New}, obj : {vObj}] \cup [addr : {Pnew}, obj : {pObj}]
           \cup [addr : {Field, Arg, Global}, obj : {pObj, vObj}]

One(kind)  == [struct |-> FALSE, fields |-> <<kind>>]
Struct(fs) == [struct |-> TRUE, fields |-> fs]
Stmt(op, typ, target) == [op |-> op, typ |-> typ, skip |-> {}, rhs |-> "other", grows |-> FALSE,
                          addr |-> target.addr, obj |-> target.obj]

Plainly(t) == {Stmt("assign", One(k), t) : k \in {"int", "ptr", "string", "slice", "iface"}}
Structs(t) == {Stmt("assign", Struct(fs), t) : fs \in {<<"int", "int">>, <<"string", "int">>,
                                                       <<"ptr", "iface">>, <<"slice">>}}
Slices(t)  == {[Stmt("assign", One("slice"), t) EXCEPT !.skip = s, !.rhs = r] :
                  s \in {{"ptr"}, {"ptr", "cap"}, {"ptr", "len", "cap"}, {}}, r \in {"vheap", "pmem"}}
Strings(t) == {[Stmt("assign", One("string"), t) EXCEPT !.skip = s] : s \in {{"ptr"}, {"ptr", "len"}}}
Appends(t) == {[Stmt("append", One("slice"), t) EXCEPT !.grows = g] : g \in BOOLEAN}
Large(t)   == {Stmt(op, Struct(<<"slice", "int">>), t) : op \in {"Move", "Zero"}}

Singles == UNION {Plainly(t) \cup Structs(t) \cup Slices(t) \cup Strings(t) \cup Appends(t) \cup Large(t) : t \in Targets}
Fn(head, branch, tail) == [head |-> head, branch |-> branch, tail |-> tail]

\* Assignments for which the pass does different things, of one object and of two.
Mixed == {Stmt("assign", One("slice"), [addr |-> Arg, obj |-> pObj]), Stmt("assign", One("iface"), [addr |-> Pnew, obj |-> pObj]),
          Stmt("assign", One("slice"), [addr |-> Field, obj |-> qObj]), Stmt("assign", One("int"), [addr |-> Arg, obj |-> vObj])}

MCPrograms == {<<Fn(<<s>>, <<>>, <<>>)>> : s \in Singles}
              \cup {<<Fn(<<s>>, <<t>>, <<u>>)>> : s, t, u \in Mixed}
              \cup {<<Fn(<<s, Call, u>>, <<>>, <<>>), Fn(<<>>, <<t>>, <<>>)>> : s, t, u \in Mixed}
=============================================================================
