---------------------------- MODULE LuaSemantics ----------------------------
(***************************************************************************)
(* What a program means: the semantics that the reference manual gives to  *)
(* the language, as an interpreter of syntax trees with an environment of  *)
(* variables and a store.  It is the specification the compiler and the    *)
(* virtual machine are compared with: there are no registers, no jumps, no *)
(* upvalues and no yields here.  A state S has                             *)
(*   env     variables in scope, innermost last: [name, kind, cell]        *)
(*   cells   the store      tables, closures   objects                     *)
(*   va      extra arguments of the function (<<values>>, or <<>>)         *)
(*   vatab   0, or the table of its vararg parameter                       *)
(*   vals    values of the last expression                                 *)
(*   tbc     values to close     log   calls of the host                   *)
(*   sig     "" or why the program does not go on with the next statement: *)
(*           "break", "goto" (to lab), "return" (with vals), "error" (err) *)
(***************************************************************************)
EXTENDS Integers, Sequences, SequencesExt, LuaValues

Val(S, v)   == [S EXCEPT !.vals = <<v>>]
Err(S, m)   == [S EXCEPT !.sig = "error", !.err = m, !.vals = <<Nil>>]
One(S)      == Val(S, IF S.vals = <<>> THEN Nil ELSE S.vals[1])
Value(S)    == S.vals[1]
Host(S, f, args) == [S EXCEPT !.log = @ \o HostEvent(f, args), !.vals = HostResults(f, args)]
Adjusted(vals, n) == [i \in 1..n |-> IF i <= Len(vals) THEN vals[i] ELSE Nil]

Bind(S, name, kind, v) ==
    [S EXCEPT !.cells = Append(@, v), !.env = Append(@, [name |-> name, kind |-> kind, cell |-> Len(S.cells) + 1])]
Declare(S, name) == [S EXCEPT !.env = Append(@, [name |-> name, kind |-> "global", cell |-> 0])]
Binding(S, n) ==
    LET found == {i \in DOMAIN S.env : S.env[i].name = n}
    IN  IF found = {} THEN [name |-> n, kind |-> "global", cell |-> 0]
        ELSE S.env[CHOOSE i \in found : \A j \in found : j <= i]
EnvTable(S) == S.cells[Binding(S, "_ENV").cell]

Index(S, t, key) ==
    CASE S.sig # ""   -> S
      [] ttistable(t) -> Val(S, luaH_get(S.tables[t.tab], key))
      [] hastm(t)     -> One(Host(S, "index", <<t, key>>))
      [] OTHER        -> Err(S, "index")
SetIndex(S, t, key, v) ==
    CASE S.sig # "" -> S
      [] ttistable(t) /\ key # Nil -> [S EXCEPT !.tables[t.tab] = luaH_set(@, key, v)]
      [] hastm(t)     -> Host(S, "newindex", <<t, key, v>>)
      [] OTHER        -> Err(S, "index")

Metamethod(S, event, x, y, m) == IF hastm(x) \/ hastm(y) THEN One(Host(S, event, <<x, y>>)) ELSE Err(S, m)
Truth(S) == IF S.sig = "" THEN Val(S, Bool(~l_isfalse(Value(S)))) ELSE S
Negate(S) == IF S.sig = "" THEN Val(S, Bool(l_isfalse(Value(S)))) ELSE S
Binary(S, o, x, y) ==
    CASE S.sig # "" -> S
      [] o \in ArithOps -> CASE ~(ttisinteger(x) /\ ttisinteger(y)) -> Metamethod(S, o, x, y, "arith")
                             [] ttisinteger(x) /\ ttisinteger(y) /\ ~validop(o, y) -> Err(S, "zero")
                             [] OTHER -> Val(S, luaO_rawarith(o, x, y))
      [] o = "concat" -> IF cvt2str(x) /\ cvt2str(y) THEN Val(S, Str(tostring(x) \o tostring(y)))
                         ELSE Metamethod(S, o, x, y, "concat")
      [] o = "eq" -> IF x # y /\ hastm(x) /\ hastm(y) THEN Truth(Metamethod(S, o, x, y, "")) ELSE Val(S, Bool(x = y))
      [] o \in OrderOps -> IF (ttisinteger(x) /\ ttisinteger(y)) \/ (ttisstring(x) /\ ttisstring(y))
                           THEN Val(S, Bool(ordered(o, x, y)))
                           ELSE Truth(Metamethod(S, o, x, y, "compare"))
Unary(S, o, x) ==
    CASE S.sig # "" -> S
      [] o = "not" -> Val(S, Bool(l_isfalse(x)))
      [] o = "unm" -> IF ttisinteger(x) THEN Val(S, Num(-x.int)) ELSE Metamethod(S, o, x, x, "arith")
      [] o = "len" -> CASE ttistable(x)  -> Val(S, Num(luaH_getn(S.tables[x.tab])))
                        [] ttisstring(x) -> Val(S, Num(Len(x.str)))
                        [] OTHER -> Metamethod(S, o, x, x, "len")

\* close what was declared since there were n values to close
RECURSIVE CloseTo(_, _)
CloseTo(S, n) ==
    IF S.sig = "error" \/ Len(S.tbc) <= n THEN S
    ELSE CloseTo([Host(S, "close", <<Last(S.tbc)>>) EXCEPT !.vals = S.vals, !.tbc = Front(@)], n)
ToClose(S, v) ==
    CASE S.sig # "" \/ l_isfalse(v) -> S
      [] hastm(v) -> [S EXCEPT !.tbc = Append(@, v)]
      [] OTHER    -> Err(S, "close")

RECURSIVE Eval(_, _), Call(_, _, _), Run(_, _, _, _), Exec(_, _)

EvalList(S, es) ==
    FoldLeftDomain(LAMBDA T, i : LET r == Eval(T, es[i])
                                     one == IF i < Len(es) THEN One(r) ELSE r
                                 IN  [one EXCEPT !.vals = T.vals \o @],
                   [S EXCEPT !.vals = <<>>], es)
Closure(S, f, ismethod) ==
    [Val(S, [fun |-> Len(S.closures) + 1]) EXCEPT !.closures =
        Append(@, [params |-> (IF ismethod THEN <<"self">> ELSE <<>>) \o f.params, vararg |-> f.vararg,
                   body |-> f.body, env |-> S.env])]
NewTable(S) == [Val(S, [tab |-> Len(S.tables) + 1]) EXCEPT !.tables = Append(@, emptytable)]
\* the fields of a constructor from the i-th on; n list items are stored
RECURSIVE Fields(_, _, _, _, _)
Fields(S, t, fields, i, n) ==
    LET fl == fields[i]
        v  == Eval(S, fl.val)
        items == IF i = Len(fields) THEN v.vals ELSE One(v).vals
        Store(T, j) == SetIndex(T, t, Num(n + j), items[j])
        k  == One(Eval(S, fl.key))
        r  == One(Eval(k, fl.val))
    IN  CASE S.sig # "" \/ i > Len(fields) -> Val(S, t)
          [] fl.op = "item" -> Fields(FoldLeftDomain(Store, v, items), t, fields, i + 1, n + Len(items))
          [] fl.op = "rec"  -> Fields(SetIndex(r, t, Value(k), Value(r)), t, fields, i + 1, n)
\* extra arguments, which a vararg table keeps when the parameter has a name
VarArgs(S) ==
    LET t == S.tables[S.vatab]
        n == luaH_get(t, Str("n"))
    IN  CASE S.vatab = 0 -> [S EXCEPT !.vals = S.va]
          [] S.vatab # 0 /\ ttisinteger(n) -> [S EXCEPT !.vals = [i \in 1..n.int |-> luaH_get(t, Num(i))]]
          [] OTHER -> Err(S, "vararg")

Eval(S, x) ==
    LET b == Binding(S, x.n)
        a == One(Eval(S, x.x))
        y == One(Eval(a, x.y))
        t == One(Eval(S, x.obj))
        k == One(Eval(t, x.key))
        f == One(Eval(S, x.fn))
        m == Index(t, Value(t), Str(x.n))
        Args(T, self) == LET r == EvalList(T, x.args) IN [r EXCEPT !.vals = self \o @]
    IN  CASE S.sig # "" -> S
          [] x.op = "const" -> Val(S, x.v)
          [] x.op = "name"  -> IF b.kind = "global" THEN Index(S, EnvTable(S), Str(x.n)) ELSE Val(S, S.cells[b.cell])
          [] x.op = "dots"  -> VarArgs(S)
          [] x.op = "paren" -> a
          [] x.op = "function" -> Closure(S, x.f, FALSE)
          [] x.op = "index" -> Index(k, Value(t), Value(k))
          [] x.op = "un"    -> Unary(a, x.o, Value(a))
          [] x.op = "bin" /\ x.o = "and" -> IF a.sig # "" \/ l_isfalse(Value(a)) THEN a ELSE y
          [] x.op = "bin" /\ x.o = "or"  -> IF a.sig # "" \/ ~l_isfalse(Value(a)) THEN a ELSE y
          [] x.op = "bin" /\ x.o = "ne"  -> Negate(Binary(y, "eq", Value(a), Value(y)))
          [] x.op = "bin" /\ x.o = "gt"  -> Binary(y, "lt", Value(y), Value(a))
          [] x.op = "bin" /\ x.o = "ge"  -> Binary(y, "le", Value(y), Value(a))
          [] x.op = "bin" /\ x.o \in ArithOps \cup OrderOps \cup {"eq", "concat"} -> Binary(y, x.o, Value(a), Value(y))
          [] x.op = "call"   -> LET r == Args(f, <<>>) IN Call(r, Value(f), r.vals)
          [] x.op = "method" -> LET r == Args(m, <<Value(t)>>) IN Call(r, Value(m), r.vals)
          [] x.op = "table"  -> Fields(NewTable(S), Value(NewTable(S)), x.fields, 1, 0)

-----------------------------------------------------------------------------
(* Blocks and functions *)

\* run the statements of a block from the i-th on; marks tells the scope at each
Run(S, b, i, marks) ==
    LET here == [env |-> S.env, tbc |-> Len(S.tbc)]
        m    == (i :> here) @@ marks
        r    == Exec(S, b[i])
        targets == {j \in DOMAIN b : b[j].op = "label" /\ b[j].n = r.lab}
        j    == CHOOSE t \in targets : TRUE
        skipped == [k \in i..j |-> here] @@ m
        back == CloseTo([r EXCEPT !.sig = ""], m[j].tbc)
    IN  CASE i > Len(b) -> S
          [] i <= Len(b) /\ r.sig = "" -> Run(r, b, i + 1, m)
          [] i <= Len(b) /\ r.sig = "goto" /\ targets # {} ->
                 IF j > i THEN Run([r EXCEPT !.sig = "", !.env = S.env], b, j, skipped)
                 ELSE Run([back EXCEPT !.env = m[j].env], b, j, m)
          [] OTHER -> r
\* a block, and the condition that ends a repeat loop, which sees its variables
Block(S, b, until) ==
    LET r == Run(S, b, 1, <<>>)
        u == IF until # <<>> /\ r.sig = "" THEN One(Eval(r, until[1])) ELSE r
    IN  [CloseTo(u, Len(S.tbc)) EXCEPT !.env = S.env]

Call(S, f, args) ==
    LET cl   == S.closures[f.fun]
        np   == Len(cl.params)
        more == SubSeq(args, np + 1, Len(args))
        named == cl.vararg \notin {"", "..."}
        in   == FoldLeftDomain(LAMBDA T, i : Bind(T, cl.params[i], "local", Adjusted(args, np)[i]),
                               [S EXCEPT !.env = cl.env, !.va = more, !.vatab = 0], cl.params)
        t    == NewTable(in)
        full == FoldLeftDomain(LAMBDA T, i : SetIndex(T, Value(t), Num(i), more[i]),
                               SetIndex(t, Value(t), Str("n"), Num(Len(more))), more)
        r    == Block(IF named THEN [Bind(full, cl.vararg, "const", Value(t)) EXCEPT !.vatab = Value(t).tab] ELSE in,
                      cl.body, <<>>)
        out  == [r EXCEPT !.env = S.env, !.va = S.va, !.vatab = S.vatab]
    IN  CASE S.sig # "" -> S
          [] DOMAIN f = {"ext"} -> Host(S, f.ext, args)
          [] hastm(f) -> Host(S, "call", <<f>> \o args)
          [] DOMAIN f = {"fun"} -> CASE out.sig = "return" -> [out EXCEPT !.sig = ""]
                                     [] out.sig = ""  -> [out EXCEPT !.vals = <<>>]
                                     [] OTHER -> out
          [] OTHER -> Err(S, "call")

-----------------------------------------------------------------------------
(* Statements *)

EndLoop(S) == IF S.sig = "break" THEN [S EXCEPT !.sig = ""] ELSE S
RECURSIVE While(_, _), Repeat(_, _), Count(_, _, _, _, _), Iterate(_, _, _, _, _)
While(S, s) ==
    LET c == One(Eval(S, s.c))
        r == Block(c, s.b, <<>>)
    IN  CASE c.sig # "" \/ l_isfalse(Value(c)) -> c
          [] c.sig = "" /\ ~l_isfalse(Value(c)) /\ r.sig = "" -> While(r, s)
          [] OTHER -> EndLoop(r)
Repeat(S, s) ==
    LET r == Block(S, s.b, <<s.c>>)
    IN  IF r.sig = "" /\ l_isfalse(Value(r)) THEN Repeat(r, s) ELSE EndLoop(r)
\* a numeric loop; its variable is new in each iteration
Count(S, s, i, limit, step) ==
    LET r == [Block(Bind(S, s.n, "const", Num(i)), s.b, <<>>) EXCEPT !.env = S.env]
    IN  CASE (IF step > 0 THEN i > limit ELSE i < limit) -> S
          [] (IF step > 0 THEN i <= limit ELSE i >= limit) /\ r.sig = "" -> Count(r, s, i + step, limit, step)
          [] OTHER -> EndLoop(r)
Iterate(S, s, f, state, control) ==
    LET c == Call(S, f, <<state, control>>)
        v == Adjusted(c.vals, Len(s.names))
        r == Block(FoldLeftDomain(LAMBDA T, i : Bind(T, s.names[i], "local", v[i]), c, s.names), s.b, <<>>)
    IN  CASE c.sig # "" \/ v[1] = Nil -> c
          [] c.sig = "" /\ v[1] # Nil /\ r.sig = "" -> Iterate([r EXCEPT !.env = S.env], s, f, state, v[1])
          [] OTHER -> EndLoop([r EXCEPT !.env = S.env])

\* the places an assignment writes to, [cell] or [t, key]
Place(S, x) ==
    LET b == Binding(S, x.n)
        t == One(Eval(S, x.obj))
        k == One(Eval(t, x.key))
        Put(T, p) == [T EXCEPT !.places = Append(@, p)]
    IN  CASE S.sig # "" -> S
          [] x.op = "index" -> Put(k, [t |-> Value(t), key |-> Value(k)])
          [] x.op = "name" /\ b.kind = "global" -> Put(S, [t |-> EnvTable(S), key |-> Str(x.n)])
          [] x.op = "name" /\ b.kind # "global" -> Put(S, [cell |-> b.cell])
StoreAt(S, p, v) ==
    CASE S.sig # "" -> S
      [] DOMAIN p = {"cell"} -> [S EXCEPT !.cells[p.cell] = v]
      [] OTHER -> SetIndex(S, p.t, p.key, v)
Assign(S, lhs, exps) ==
    LET p == FoldLeft(Place, [S EXCEPT !.places = <<>>], lhs)
        v == EvalList(p, exps)
    IN  FoldLeftDomain(LAMBDA T, i : StoreAt(T, p.places[i], Adjusted(v.vals, Len(lhs))[i]), v, lhs)
\* a global that a declaration initializes must not exist yet
InitGlobal(S, name, v) ==
    LET old == Index(S, EnvTable(S), Str(name))
    IN  IF old.sig = "" /\ Value(old) # Nil THEN Err(old, "global") ELSE SetIndex(old, EnvTable(S), Str(name), v)

RECURSIVE If(_, _, _)
If(S, s, i) ==
    LET c == One(Eval(S, s.tests[i].c)) IN
    CASE i > Len(s.tests) -> IF s.els = <<>> THEN S ELSE Block(S, s.els[1], <<>>)
      [] i <= Len(s.tests) /\ c.sig # "" -> c
      [] OTHER -> IF l_isfalse(Value(c)) THEN If(c, s, i + 1) ELSE Block(c, s.tests[i].b, <<>>)

Exec(S, s) ==
    LET es  == EvalList(S, s.exps)
        v(n) == Adjusted(es.vals, n)
        Local(T, i) == LET b == Bind(T, s.names[i], "local", v(Len(s.names))[i])
                       IN  IF s.attribs[i] = "close" THEN ToClose(b, v(Len(s.names))[i]) ELSE b
        names == IF s.names = <<"*">> THEN <<>> ELSE s.names
        ges   == FoldLeft(Declare, es, names)
        down  == [i \in DOMAIN names |-> Len(names) + 1 - i]
        Sig(n) == [S EXCEPT !.sig = n]
    IN  CASE s.op = "if" -> If(S, s, 1)
          [] s.op = "while"  -> While(S, s)
          [] s.op = "do"     -> Block(S, s.b, <<>>)
          [] s.op = "repeat" -> Repeat(S, s)
          [] s.op = "fornum" ->
                 LET all == IF Len(s.exps) = 3 THEN v(3) ELSE v(2) \o <<Num(1)>>
                     run == Count(es, s, all[1].int, all[2].int, all[3].int)
                 IN  CASE es.sig # "" -> es
                       [] \E i \in 1..3 : ~ttisinteger(all[i]) -> Err(es, "for")
                       [] OTHER -> IF all[3] = Num(0) THEN Err(es, "for") ELSE run
          [] s.op = "forlist" ->
                 LET tbc == ToClose(es, v(4)[4])
                 IN  IF tbc.sig # "" THEN tbc ELSE CloseTo(Iterate(tbc, s, v(4)[1], v(4)[2], v(4)[3]), Len(S.tbc))
          [] s.op = "function" ->
                 LET p == Place([S EXCEPT !.places = <<>>], s.target)
                     f == Closure(p, s.f, s.ismethod)
                 IN  IF p.sig # "" THEN p ELSE StoreAt(f, p.places[1], Value(f))
          [] s.op = "localfunc" ->
                 LET f == Closure(Bind(S, s.n, "local", Nil), s.f, FALSE)
                 IN  [f EXCEPT !.cells[Len(f.cells)] = Value(f)]
          [] s.op = "local"  -> IF es.sig # "" THEN es ELSE FoldLeftDomain(Local, es, s.names)
          [] s.op = "global" -> IF s.exps = <<>> \/ es.sig # "" THEN ges
                                ELSE FoldLeft(LAMBDA T, i : InitGlobal(T, names[i], Adjusted(ges.vals, Len(names))[i]), ges, down)
          [] s.op = "globalfunc" ->
                 LET f == Closure(Declare(S, s.n), s.f, FALSE) IN InitGlobal(f, s.n, Value(f))
          [] s.op = "label"  -> S
          [] s.op = "return" -> IF es.sig # "" THEN es ELSE [es EXCEPT !.sig = "return"]
          [] s.op = "break"  -> Sig("break")
          [] s.op = "goto"   -> [S EXCEPT !.sig = "goto", !.lab = s.n]
          [] s.op = "assign" -> Assign(S, s.lhs, s.exps)
          [] s.op = "call"   -> Eval(S, s.x)

\* the run of a chunk: what it returns or why it fails, and what the host saw
Meaning(chunk, args) ==
    LET S0 == [env |-> <<[name |-> "_ENV", kind |-> "local", cell |-> 1]>>, cells |-> <<[tab |-> 1]>>,
               tables |-> <<HostGlobals>>, closures |-> <<>>, va |-> args, vatab |-> 0, vals |-> <<>>,
               tbc |-> <<>>, log |-> <<>>, places |-> <<>>, sig |-> "", lab |-> "", err |-> ""]
        S  == Block(S0, chunk, <<>>)
    IN  IF S.sig = "error" THEN [status |-> "error", err |-> S.err, result |-> <<>>, log |-> S.log]
        ELSE [status |-> "done", err |-> "", log |-> S.log,
              result |-> IF S.sig = "return" THEN [i \in DOMAIN S.vals |-> Shown(S.vals[i])] ELSE <<>>]
-----------------------------------------------------------------------------
(* What the compiler must refuse.  A scope C has the variables in sight,   *)
(* innermost last; the statement at work in each open block of the         *)
(* function, [b, i, rep]; the names of the labels that are active; whether *)
(* there is a loop to break, and extra arguments.                          *)

IsGlobal(v) == v.kind \in {"GDKREG", "GDKCONST"}
\* how a name is declared: globals are, as long as no declaration says which
KindOf(C, n) ==
    LET named == {i \in DOMAIN C.vars : C.vars[i].name = n}
        star  == {i \in DOMAIN C.vars : C.vars[i].name = "*"}
        last(s) == C.vars[CHOOSE i \in s : \A j \in s : j <= i].kind
    IN  CASE named # {} -> last(named)
          [] named = {} /\ star # {} -> last(star)
          [] OTHER -> IF \E i \in DOMAIN C.vars : IsGlobal(C.vars[i]) THEN "undeclared" ELSE "GDKREG"
WithVars(C, names, kinds) ==
    [C EXCEPT !.vars = @ \o [i \in DOMAIN names |-> [name |-> names[i], kind |-> kinds[i]]]]
Vars(C, names) == WithVars(C, names, [i \in DOMAIN names |-> "var"])
Declares(s) == s.op \in {"local", "localfunc", "global", "globalfunc"}
After(C, s) ==
    CASE s.op = "local"  -> WithVars(C, s.names, [i \in DOMAIN s.names |-> IF s.attribs[i] = "" THEN "var" ELSE "const"])
      [] s.op = "localfunc"  -> Vars(C, <<s.n>>)
      [] s.op = "global"     -> WithVars(C, s.names, [i \in DOMAIN s.names |-> s.kind])
      [] s.op = "globalfunc" -> WithVars(C, <<s.n>>, <<"GDKREG">>)
      [] s.op = "label"      -> [C EXCEPT !.labels = @ \cup {s.n}]
      [] OTHER -> C

\* a goto sees the labels of the blocks around it, and enters no scope; a label
\* at the end of a block is behind the scopes of its variables
GotoErrors(C, n) ==
    LET Place1(f)  == {j \in DOMAIN f.b : f.b[j].op = "label" /\ f.b[j].n = n}
        seen   == {k \in DOMAIN C.frames : Place1(C.frames[k]) # {}}
        f      == C.frames[CHOOSE k \in seen : \A m \in seen : m <= k]
        j      == CHOOSE t \in Place1(f) : TRUE
        enters == \E k \in (f.i + 1)..(j - 1) : Declares(f.b[k])
        atend  == ~f.rep /\ \A k \in j..Len(f.b) : f.b[k].op = "label"
    IN  CASE seen = {} -> {"no visible label"}
          [] seen # {} /\ enters /\ ~atend -> {"jumps into the scope"}
          [] OTHER -> {}

RECURSIVE ExpErrors(_, _), StatErrors(_, _), ListErrors(_, _, _, _)
ExpsErrors(C, es) == UNION {ExpErrors(C, es[i]) : i \in DOMAIN es}
BodyErrors(C, f, ismethod) ==
    LET in == Vars([C EXCEPT !.frames = <<>>, !.labels = {}, !.loop = FALSE, !.dots = f.vararg # ""],
                   (IF ismethod THEN <<"self">> ELSE <<>>) \o f.params)
    IN  ListErrors(IF f.vararg \in {"", "..."} THEN in ELSE WithVars(in, <<f.vararg>>, <<"const">>), f.body, 1, FALSE)
ExpErrors(C, x) ==
    CASE x.op = "const" -> {}
      [] x.op = "name"  -> IF KindOf(C, x.n) = "undeclared" THEN {"undeclared"} ELSE {}
      [] x.op = "dots"  -> IF C.dots THEN {} ELSE {"dots"}
      [] x.op = "function" -> BodyErrors(C, x.f, FALSE)
      [] x.op \in {"paren", "un"} -> ExpErrors(C, x.x)
      [] x.op = "bin"   -> ExpErrors(C, x.x) \cup ExpErrors(C, x.y)
      [] x.op = "index" -> ExpErrors(C, x.obj) \cup ExpErrors(C, x.key)
      [] x.op = "call"  -> ExpErrors(C, x.fn) \cup ExpsErrors(C, x.args)
      [] x.op = "method" -> ExpErrors(C, x.obj) \cup ExpsErrors(C, x.args)
      [] x.op = "table" -> UNION {(IF x.fields[i].op = "rec" THEN ExpErrors(C, x.fields[i].key) ELSE {})
                                    \cup ExpErrors(C, x.fields[i].val) : i \in DOMAIN x.fields}
ListErrors(C, b, i, rep) ==
    IF i > Len(b) THEN {}
    ELSE StatErrors([C EXCEPT !.frames = Append(@, [b |-> b, i |-> i, rep |-> rep])], b[i])
         \cup ListErrors(After(C, b[i]), b, i + 1, rep)
\* the scope at the end of a block, which the condition of a repeat loop sees
EndScope(C, b) == FoldLeft(After, C, b)
TargetErrors(C, x) ==
    ExpErrors(C, x) \cup IF x.op = "name" /\ KindOf(C, x.n) \in {"const", "GDKCONST"} THEN {"const"} ELSE {}
StatErrors(C, s) ==
    LET In(names) == Vars([C EXCEPT !.loop = TRUE], names)
        InLoop(b) == ListErrors([C EXCEPT !.loop = TRUE], b, 1, FALSE)
        Inner(b)  == ListErrors(C, b, 1, FALSE)
    IN  CASE s.op = "if" -> UNION {ExpErrors(C, s.tests[i].c) \cup Inner(s.tests[i].b) : i \in DOMAIN s.tests}
                              \cup UNION {Inner(s.els[i]) : i \in DOMAIN s.els}
          [] s.op = "while"  -> ExpErrors(C, s.c) \cup InLoop(s.b)
          [] s.op = "do"     -> Inner(s.b)
          [] s.op = "repeat" -> ListErrors([C EXCEPT !.loop = TRUE], s.b, 1, TRUE) \cup ExpErrors(EndScope(C, s.b), s.c)
          [] s.op = "fornum" -> ExpsErrors(C, s.exps) \cup ListErrors(WithVars(In(<<>>), <<s.n>>, <<"const">>), s.b, 1, FALSE)
          [] s.op = "forlist" -> ExpsErrors(C, s.exps)
                 \cup ListErrors(Vars(WithVars(In(<<>>), <<s.names[1]>>, <<"const">>), Tail(s.names)), s.b, 1, FALSE)
          [] s.op = "function"   -> TargetErrors(C, s.target) \cup BodyErrors(C, s.f, s.ismethod)
          [] s.op \in {"localfunc", "globalfunc"} -> BodyErrors(After(C, s), s.f, FALSE)
          [] s.op = "local"  -> ExpsErrors(C, s.exps) \cup
                 IF \E i, j \in DOMAIN s.names : i # j /\ s.attribs[i] = "close" /\ s.attribs[j] = "close"
                 THEN {"multiple to-be-closed"} ELSE {}
          [] s.op = "global" -> ExpsErrors(C, s.exps)
          [] s.op = "label"  -> IF s.n \in C.labels THEN {"label already defined"} ELSE {}
          [] s.op = "return" -> ExpsErrors(C, s.exps)
          [] s.op = "break"  -> IF C.loop THEN {} ELSE {"break outside loop"}
          [] s.op = "goto"   -> GotoErrors(C, s.n)
          [] s.op = "assign" -> ExpsErrors(C, s.exps) \cup UNION {TargetErrors(C, s.lhs[i]) : i \in DOMAIN s.lhs}
          [] s.op = "call"   -> ExpErrors(C, s.x)

\* the errors of a chunk that can be seen without running it
ChunkErrors(chunk) ==
    ListErrors([vars |-> <<[name |-> "_ENV", kind |-> "var"]>>, frames |-> <<>>, labels |-> {}, loop |-> FALSE, dots |-> TRUE],
               chunk, 1, FALSE)
=============================================================================
