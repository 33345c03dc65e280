------------------------------- MODULE LuaVM -------------------------------
(***************************************************************************)
(* The virtual machine of Lua (lvm.c) with the calls of ldo.c, the varargs *)
(* of ltm.c and the upvalues of lfunc.c, running the code that LuaParser   *)
(* makes of a program.  One action is one instruction.                     *)
(*   L.stack, L.top   the stack; positions count from 0, the main function *)
(*                    is at 0                                              *)
(*   L.ci     call infos, the running one last: [func, top, pc, nresults,  *)
(*            nextra, nres]                                                *)
(*   L.upv    upvalues: [at, v], open at a stack position or closed (-1)   *)
(*   L.tbc    positions of the pending to-be-closed variables              *)
(*   L.closures, L.tables   objects, the first table holds the globals     *)
(*   L.log    calls of functions of the host, seen with their arguments    *)
(*   L.status "run", "yielded", "done", "error", or "refused" by the       *)
(*            compiler;  L.err its reason;  L.ok no assertion has failed   *)
(* The program runs in a coroutine: every call of the host, as function or *)
(* as metamethod, may yield before its results come back.  An error ends   *)
(* the program; hooks, floats and reallocations of the stack are left out. *)
(***************************************************************************)
EXTENDS Integers, FiniteSetsExt, SequencesExt, TLC, LuaValues

CONSTANTS Code,       \* main functions, as mainfunc of LuaParser leaves them
          Inputs,     \* sequences of arguments of the main function
          Meanings,   \* of each program: [errors, runs], what the compiler must
                      \* refuse it for and its meaning with each of the inputs
          StackSize   \* bound on the stack

ASSUME StackSizeAssumption == StackSize \in Nat

VARIABLES program, input, L
vars == <<program, input, L>>

Fun(n) == [fun |-> n]
Tab(n) == [tab |-> n]
ci(l)   == l.ci[Len(l.ci)]
base(l) == ci(l).func + 1
closure(l) == l.closures[l.stack[ci(l).func].fun]
Proto(path) == FoldLeft(LAMBDA f, i : f.p[i], Code[program], path)
code(l) == Proto(closure(l).path).code

I == code(L)[ci(L).pc]
R(a) == L.stack[base(L) + a]
Jump(l, target) == [l EXCEPT !.ci[Len(l.ci)].pc = target]
\* the state with the next instruction fetched
N == Jump(L, ci(L).pc + 1)
At(op) == L.status = "run" /\ I.op = op

vm_assert(l, p) == [l EXCEPT !.ok = @ /\ p]
\* a register is inside of the frame that the function has asked for
Set(l, a, v) == [vm_assert(l, base(l) + a < ci(l).top) EXCEPT !.stack[base(l) + a] = v]
Raise(l, kind) == [l EXCEPT !.status = "error", !.err = kind]
Push(l, vals) ==
    [vm_assert(l, l.top + Len(vals) <= StackSize) EXCEPT !.top = @ + Len(vals),
        !.stack = [s \in DOMAIN @ |-> IF s \in l.top..(l.top + Len(vals) - 1) THEN vals[s - l.top + 1] ELSE @[s]]]
Values(l, from) == [i \in 1..(l.top - from) |-> l.stack[from + i - 1]]
savestate(l) == [l EXCEPT !.top = ci(l).top]

-----------------------------------------------------------------------------
(* Calls of the host and metamethods.  Operations that make one return the *)
(* set of states they may end in: completed, or yielded in the middle.     *)

moveresults(l, res, vals, wanted) ==
    LET n == IF wanted = -1 THEN Len(vals) ELSE wanted
    IN  Push([l EXCEPT !.top = res], [i \in 1..n |-> IF i <= Len(vals) THEN vals[i] ELSE Nil])
precallC(l, func, wanted) ==
    LET f == l.stack[func].ext
        args == Values(l, func + 1)
    IN  moveresults([l EXCEPT !.log = @ \o HostEvent(f, args)], func, HostResults(f, args), wanted)
Outcomes(called, done) ==
    IF called.status = "error" THEN {called} ELSE {done, [called EXCEPT !.status = "yielded"]}

\* the result of a metamethod is left on the top
luaT_callTMres(l, event, p1, p2) == precallC(Push(l, <<Ext(event), p1, p2>>), l.top, 1)
luaT_callTM(l, event, p1, p2, p3) == precallC(Push(l, <<Ext(event), p1, p2, p3>>), l.top, 0)
callbinTM(l, p1, p2, event, kind) ==
    IF hastm(p1) \/ hastm(p2) THEN luaT_callTMres(l, event, p1, p2) ELSE Raise(l, kind)
TopValue(l) == l.stack[l.top - 1]
PopTo(l, a) == Set([l EXCEPT !.top = @ - 1], a, TopValue(l))

luaV_finishget(l, t, key, a) ==
    LET c == luaT_callTMres(savestate(l), "index", t, key)
    IN  IF hastm(t) THEN Outcomes(c, PopTo(c, a)) ELSE {Raise(l, "index")}
luaV_get(l, t, key, a) ==
    IF ttistable(t) THEN {Set(l, a, luaH_get(l.tables[t.tab], key))} ELSE luaV_finishget(l, t, key, a)
luaV_finishset(l, t, key, v) ==
    LET c == luaT_callTM(savestate(l), "newindex", t, key, v)
    IN  IF hastm(t) THEN Outcomes(c, c) ELSE {Raise(l, "index")}
luaV_set(l, t, key, v) ==
    CASE ttistable(t) /\ key # Nil -> {[l EXCEPT !.tables[t.tab] = luaH_set(@, key, v)]}
      [] ttistable(t) /\ key = Nil -> {Raise(l, "index")}
      [] OTHER -> luaV_finishset(l, t, key, v)

\* a test: its jump follows
docondjump(l, cnd, k) ==
    IF cnd # k THEN Jump(l, ci(l).pc + 1) ELSE Jump(l, code(l)[ci(l).pc].b)
CondTM(called, k) == Outcomes(called, docondjump([called EXCEPT !.top = @ - 1], ~l_isfalse(TopValue(called)), k))
Order(op, x, y) ==
    CASE (ttisinteger(x) /\ ttisinteger(y)) \/ (ttisstring(x) /\ ttisstring(y)) ->
             {docondjump(N, ordered(op, x, y), I.k)}
      [] OTHER -> CondTM(callbinTM(savestate(N), x, y, op, "compare"), I.k)

\* concatenate the values from top - total on
RECURSIVE luaV_concat(_, _)
luaV_concat(l, total) ==
    LET v(i)   == l.stack[l.top - i]
        strs   == Max({n \in 1..total : \A i \in 1..n : cvt2str(v(i))})
        joined == FoldLeft(LAMBDA s, i : tostring(v(i)) \o s, "", [i \in 1..strs |-> i])
        called == callbinTM(l, v(2), v(1), "concat", "concat")
        Replace(m, n, x) == Push([m EXCEPT !.top = l.top - n], <<x>>)
    IN  CASE total = 1 -> {l}
          [] total > 1 /\ cvt2str(v(1)) /\ cvt2str(v(2)) ->
                 luaV_concat(Replace(l, strs, Str(joined)), total - strs + 1)
          [] OTHER -> IF called.status = "error" THEN {called}
                      ELSE {[called EXCEPT !.status = "yielded"]}
                           \cup luaV_concat(Replace(called, 2, TopValue(called)), total - 1)

-----------------------------------------------------------------------------
(* Upvalues and to-be-closed variables *)

UpAt(l, level) == {u \in DOMAIN l.upv : l.upv[u].at = level}
luaF_findupval(l, level) ==
    IF UpAt(l, level) # {} THEN l ELSE [l EXCEPT !.upv = Append(@, [at |-> level, v |-> Nil])]
luaF_closeupval(l, level) ==
    [l EXCEPT !.upv = Rewritten(l.upv, LAMBDA u :
        IF l.upv[u].at >= level THEN [at |-> -1, v |-> l.stack[l.upv[u].at]] ELSE l.upv[u])]
UpValue(l, u) == IF l.upv[u].at = -1 THEN l.upv[u].v ELSE l.stack[l.upv[u].at]

luaF_newtbcupval(l, level) ==
    CASE l_isfalse(l.stack[level]) -> l
      [] ~l_isfalse(l.stack[level]) /\ ~hastm(l.stack[level]) -> Raise(l, "close")
      [] OTHER -> [vm_assert(l, \A i \in DOMAIN l.tbc : l.tbc[i] < level) EXCEPT !.tbc = Append(@, level)]
\* ktop: the values above the level are still wanted, as results
RECURSIVE luaF_close(_, _, _)
luaF_close(l, level, ktop) ==
    LET up  == luaF_closeupval(l, level)
        tbc == Last(l.tbc)
        pop == [up EXCEPT !.tbc = Front(@), !.top = IF ktop THEN @ ELSE tbc + 1]
        called == precallC(Push(pop, <<Ext("close"), l.stack[tbc]>>), pop.top, 0)
    IN  IF l.tbc = <<>> \/ tbc < level THEN {up}
        ELSE {[called EXCEPT !.status = "yielded"]} \cup luaF_close(called, level, ktop)

-----------------------------------------------------------------------------
(* Calls and returns *)

tryfuncTM(l, func) ==
    [l EXCEPT !.top = @ + 1, !.stack = [s \in DOMAIN @ |->
        CASE s = func -> Ext("call") [] s \in (func + 1)..l.top -> @[s - 1] [] OTHER -> @[s]]]
\* C functions are done, or yielded; a Lua function has a call info afterwards
luaD_precall(l, func, nresults) ==
    LET f  == l.stack[func]
        p  == Proto(l.closures[f.fun].path)
        narg == l.top - func - 1
        lua == Push(l, [i \in 1..Max({0, p.numparams - narg}) |-> Nil])
        c  == precallC(l, func, nresults)
        tm == precallC(tryfuncTM(l, func), func, nresults)
    IN  CASE DOMAIN f = {"ext"} -> Outcomes(c, c)
          [] DOMAIN f = {"fun"} ->
                 {[lua EXCEPT !.ci = Append(@, [func |-> func, top |-> func + 1 + p.maxstack, pc |-> 1,
                                                nresults |-> nresults, nextra |-> 0, nres |-> 0])]}
          [] hastm(f) -> Outcomes(tm, tm)
          [] OTHER -> {Raise(l, "call")}

luaD_poscall(l, n) ==
    LET m == moveresults(l, ci(l).func, Values(l, l.top - n), ci(l).nresults)
    IN  [m EXCEPT !.ci = Front(@), !.status = IF Len(l.ci) = 1 THEN "done" ELSE @]
\* 'func' of a vararg function below its hidden arguments
Virtual(l, nparams1) ==
    [l EXCEPT !.ci[Len(l.ci)].func = @ - (IF nparams1 # 0 THEN ci(l).nextra + nparams1 ELSE 0)]

luaD_pretailcall(l, func, nparams1) ==
    LET f    == l.stack[func]
        args == Values(l, func)
        v    == Virtual(l, nparams1)
        p    == Proto(l.closures[f.fun].path)
        down == Push([v EXCEPT !.top = ci(v).func],
                     [i \in 1..Max({Len(args), p.numparams + 1}) |-> IF i <= Len(args) THEN args[i] ELSE Nil])
        c    == IF hastm(f) THEN precallC(tryfuncTM(l, func), func, -1) ELSE precallC(l, func, -1)
    IN  CASE DOMAIN f = {"fun"} ->
                 {[down EXCEPT !.ci[Len(l.ci)] = [@ EXCEPT !.top = ci(v).func + 1 + p.maxstack, !.pc = 1]]}
          [] DOMAIN f = {"ext"} \/ hastm(f) -> Outcomes(c, luaD_poscall(Virtual(c, nparams1), c.top - func))
          [] OTHER -> {Raise(l, "call")}

-----------------------------------------------------------------------------
(* Vararg functions *)

createvarargtab(l, vals) ==
    [l EXCEPT !.tables = Append(@, (Str("n") :> Num(Len(vals))) @@ [k \in {Num(i) : i \in DOMAIN vals} |-> vals[k.int]])]
NonNil(t) == [k \in {x \in DOMAIN t : t[x] # Nil} |-> t[k]]
buildhiddenargs(l, total, nfix) ==
    LET func  == ci(l).func
        moved == Push(l, [i \in 1..(nfix + 1) |-> l.stack[func + i - 1]])
        c     == [ci(l) EXCEPT !.func = @ + total + 1, !.top = @ + total + 1, !.nextra = total - nfix]
    IN  [moved EXCEPT !.ci[Len(l.ci)] = c,
                      !.stack = [s \in DOMAIN @ |-> IF s \in (func + 1)..(func + nfix) THEN Nil ELSE @[s]]]
luaT_adjustvarargs(l, p) ==
    LET func  == ci(l).func
        total == l.top - func - 1
        tab   == createvarargtab(l, Values(l, func + p.numparams + 1))
        n     == Len(tab.tables)
        hid   == buildhiddenargs(l, total, p.numparams)
    IN  vm_assert(IF p.vatab THEN Set([tab EXCEPT !.tables[n] = NonNil(@)], p.numparams, Tab(n))
                  ELSE [hid EXCEPT !.stack[base(hid) + p.numparams] = Nil],
                  p.vatab # p.vahid /\ (p.vahid => hid.top <= ci(hid).top))

\* an element of the hidden arguments, as if there were a table
luaT_getvararg(l, a, key) ==
    LET n == ci(l).nextra IN
    Set(l, a, CASE ttisinteger(key) /\ key.int \in 1..n -> l.stack[ci(l).func - n + key.int - 1]
                [] key = Str("n") -> Num(n)
                [] OTHER -> Nil)
getnumargs(l, h) == IF h = <<>> THEN Num(ci(l).nextra) ELSE luaH_get(h[1], Str("n"))
luaT_getvarargs(l, a, wanted, h) ==
    LET n     == getnumargs(l, h)
        where == base(l) + a
        count == IF wanted < 0 THEN n.int ELSE wanted
        val(i) == CASE i > n.int -> Nil
                    [] i <= n.int /\ h = <<>> -> l.stack[ci(l).func - n.int + i - 1]
                    [] OTHER -> luaH_get(h[1], Num(i))
        got   == Push([l EXCEPT !.top = where], [i \in 1..count |-> val(i)])
    IN  IF ~ttisinteger(n) \/ (ttisinteger(n) /\ n.int \notin 0..StackSize) THEN Raise(l, "vararg")
        ELSE vm_assert([got EXCEPT !.top = IF wanted < 0 THEN @ ELSE l.top],
                       wanted >= 0 => where + wanted <= ci(l).top)

-----------------------------------------------------------------------------
(* Instructions.  Loads, upvalues and tables. *)

OP_MOVE      == At("MOVE") /\ L' = Set(N, I.a, R(I.b))
OP_LOADI     == At("LOADI") /\ L' = Set(N, I.a, I.b)
OP_LOADK     == At("LOADK") /\ L' = Set(N, I.a, I.b)
OP_LOADFALSE == At("LOADFALSE") /\ L' = Set(N, I.a, False)
OP_LFALSESKIP == At("LFALSESKIP") /\ L' = Jump(Set(N, I.a, False), ci(N).pc + 1)
OP_LOADTRUE  == At("LOADTRUE") /\ L' = Set(N, I.a, True)
OP_LOADNIL   == At("LOADNIL") /\ L' = FoldLeft(LAMBDA l, i : Set(l, I.a + i - 1, Nil), N, [i \in 1..(I.b + 1) |-> i])

UpvalOf(n) == closure(L).upvals[n]
OP_GETUPVAL == At("GETUPVAL") /\ L' = Set(N, I.a, UpValue(L, UpvalOf(I.b)))
OP_SETUPVAL ==
    /\ At("SETUPVAL")
    /\ LET u == UpvalOf(I.b)
       IN  L' = IF L.upv[u].at = -1 THEN [N EXCEPT !.upv[u].v = R(I.a)]
                ELSE [N EXCEPT !.stack[L.upv[u].at] = R(I.a)]

OP_GETTABUP == At("GETTABUP") /\ L' \in luaV_get(N, UpValue(L, UpvalOf(I.b)), I.c, I.a)
OP_GETTABLE == At("GETTABLE") /\ L' \in luaV_get(N, R(I.b), R(I.c), I.a)
OP_GETI     == At("GETI") /\ L' \in luaV_get(N, R(I.b), I.c, I.a)
OP_GETFIELD == At("GETFIELD") /\ L' \in luaV_get(N, R(I.b), I.c, I.a)
RKC == IF I.k THEN I.c ELSE R(I.c)
OP_SETTABUP == At("SETTABUP") /\ L' \in luaV_set(N, UpValue(L, UpvalOf(I.a)), I.b, RKC)
OP_SETTABLE == At("SETTABLE") /\ L' \in luaV_set(N, R(I.a), R(I.b), RKC)
OP_SETI     == At("SETI") /\ L' \in luaV_set(N, R(I.a), I.b, RKC)
OP_SETFIELD == At("SETFIELD") /\ L' \in luaV_set(N, R(I.a), I.b, RKC)
OP_NEWTABLE ==
    At("NEWTABLE") /\ L' = Set([N EXCEPT !.tables = Append(@, emptytable)], I.a, Tab(Len(L.tables) + 1))
OP_SELF     == At("SELF") /\ L' \in luaV_get(Set(N, I.a + 1, R(I.b)), R(I.b), I.c, I.a)
OP_SETLIST ==
    /\ At("SETLIST")
    /\ LET n == IF I.b = 0 THEN L.top - (base(L) + I.a) - 1 ELSE I.b
           Store(t, i) == luaH_set(t, Num(I.c + i), R(I.a + i))
       IN  L' = [N EXCEPT !.tables[R(I.a).tab] = FoldLeft(Store, @, [i \in 1..n |-> i])]

-----------------------------------------------------------------------------
(* Operators *)

EventOf == [ADD |-> "add", SUB |-> "sub", MUL |-> "mul", MOD |-> "mod", IDIV |-> "idiv",
            BAND |-> "band", SHL |-> "shl", SHR |-> "shr",
            ADDK |-> "add", SUBK |-> "sub", MULK |-> "mul", MODK |-> "mod", IDIVK |-> "idiv", BANDK |-> "band"]
\* on integers the instruction for the metamethod is skipped
Arith(op, x, y) ==
    CASE ~(ttisinteger(x) /\ ttisinteger(y)) -> N
      [] ttisinteger(x) /\ ttisinteger(y) /\ ~validop(op, y) -> Raise(N, "zero")
      [] OTHER -> Jump(Set(N, I.a, luaO_rawarith(op, x, y)), ci(N).pc + 1)
op_arith  == \E op \in {"ADD", "SUB", "MUL", "MOD", "IDIV"} : At(op) /\ L' = Arith(EventOf[op], R(I.b), R(I.c))
op_arithK == \E op \in {"ADDK", "SUBK", "MULK", "MODK", "IDIVK"} : At(op) /\ L' = Arith(EventOf[op], R(I.b), I.c)
op_bitwise  == \E op \in {"BAND", "SHL", "SHR"} : At(op) /\ L' = Arith(EventOf[op], R(I.b), R(I.c))
op_bitwiseK == At("BANDK") /\ L' = Arith("band", R(I.b), I.c)
OP_ADDI == At("ADDI") /\ L' = Arith("add", R(I.b), I.c)
OP_SHLI == At("SHLI") /\ L' = Arith("shl", I.c, R(I.b))
OP_SHRI == At("SHRI") /\ L' = Arith("shr", R(I.b), I.c)

\* the metamethod for the previous instruction, which tells the result's register
luaT_trybinTM(x, y, a, event) ==
    LET c == callbinTM(savestate(N), x, y, event, "arith") IN Outcomes(c, PopTo(c, a))
Assoc(x, y, flip, event) ==
    LET a == code(L)[ci(L).pc - 1].a
    IN  IF flip THEN luaT_trybinTM(y, x, a, event) ELSE luaT_trybinTM(x, y, a, event)
OP_MMBIN  == At("MMBIN")  /\ L' \in Assoc(R(I.a), R(I.b), FALSE, I.c)
OP_MMBINI == At("MMBINI") /\ L' \in Assoc(R(I.a), I.b, I.k, I.c)
OP_MMBINK == At("MMBINK") /\ L' \in Assoc(R(I.a), I.b, I.k, I.c)

OP_UNM == /\ At("UNM")
          /\ L' \in IF ttisinteger(R(I.b)) THEN {Set(N, I.a, Num(-R(I.b).int))}
                    ELSE luaT_trybinTM(R(I.b), R(I.b), I.a, "unm")
OP_NOT == At("NOT") /\ L' = Set(N, I.a, Bool(l_isfalse(R(I.b))))
luaV_objlen(v) ==
    LET c == callbinTM(savestate(N), v, v, "len", "len")
    IN  CASE ttistable(v)  -> {Set(N, I.a, Num(luaH_getn(L.tables[v.tab])))}
          [] ttisstring(v) -> {Set(N, I.a, Num(Len(v.str)))}
          [] OTHER -> Outcomes(c, PopTo(c, I.a))
OP_LEN == At("LEN") /\ L' \in luaV_objlen(R(I.b))
OP_CONCAT == At("CONCAT") /\ L' \in luaV_concat([N EXCEPT !.top = base(L) + I.a + I.b], I.b)

luaV_equalobj(x, y) ==
    IF x # y /\ hastm(x) /\ hastm(y) THEN CondTM(luaT_callTMres(savestate(N), "eq", x, y), I.k)
    ELSE {docondjump(N, x = y, I.k)}
OP_EQ  == At("EQ") /\ L' \in luaV_equalobj(R(I.a), R(I.b))
OP_EQK == At("EQK") /\ L' = docondjump(N, R(I.a) = I.b, I.k)
OP_EQI == At("EQI") /\ L' = docondjump(N, ttisinteger(R(I.a)) /\ R(I.a) = I.b, I.k)
op_order == \E op \in {"LT", "LE"} : At(op) /\ L' \in Order(IF op = "LT" THEN "lt" ELSE "le", R(I.a), R(I.b))
op_orderI ==
    \/ \E op \in {"LTI", "LEI"} : At(op) /\ L' \in Order(IF op = "LTI" THEN "lt" ELSE "le", R(I.a), I.b)
    \/ \E op \in {"GTI", "GEI"} : At(op) /\ L' \in Order(IF op = "GTI" THEN "lt" ELSE "le", I.b, R(I.a))
OP_TEST == At("TEST") /\ L' = docondjump(N, ~l_isfalse(R(I.a)), I.k)
OP_TESTSET ==
    /\ At("TESTSET")
    /\ L' = IF l_isfalse(R(I.b)) = I.k THEN Jump(N, ci(N).pc + 1)
            ELSE docondjump(Set(N, I.a, R(I.b)), I.k, I.k)
OP_JMP == At("JMP") /\ L' = Jump(N, I.b)

-----------------------------------------------------------------------------
(* Calls, loops and functions *)

\* the values from register a on: b of them, or up to the top
UpToTop(l) == IF I.b = 0 THEN l ELSE [l EXCEPT !.top = base(l) + I.a + I.b]
OP_CALL == At("CALL") /\ L' \in luaD_precall(UpToTop(N), base(L) + I.a, I.c - 1)
OP_TAILCALL ==
    /\ At("TAILCALL")
    /\ LET closed == vm_assert(luaF_closeupval(UpToTop(N), base(L)), \A i \in DOMAIN L.tbc : L.tbc[i] < base(L))
       IN  L' \in luaD_pretailcall(IF I.k THEN closed ELSE UpToTop(N), base(L) + I.a, I.c)

Return(l, n) == luaD_poscall([Virtual(l, I.c) EXCEPT !.top = base(L) + I.a + n], n)
OP_RETURN ==
    /\ At("RETURN")
    /\ LET n  == IF I.b = 0 THEN L.top - (base(L) + I.a) ELSE I.b - 1
           up == [N EXCEPT !.ci[Len(L.ci)].nres = n, !.top = Max({@, ci(L).top})]
       IN  L' \in IF I.k THEN {IF l.status = "run" THEN Return(l, n) ELSE l : l \in luaF_close(up, base(L), TRUE)}
                  ELSE {Return(N, n)}
OP_RETURN0 == At("RETURN0") /\ L' = luaD_poscall([N EXCEPT !.top = base(L) + I.a], 0)
OP_RETURN1 == At("RETURN1") /\ L' = luaD_poscall([N EXCEPT !.top = base(L) + I.a + 1], 1)

\* integer loops count their iterations before they start
forcount(init, limit, step) ==
    IF step > 0 THEN (limit - init) \div step ELSE (init - limit) \div (-step)
forprep(l, a) ==
    LET v == [i \in 0..2 |-> R(a + i).int]
        runs == IF v[2] > 0 THEN v[0] <= v[1] ELSE v[0] >= v[1]
        loop == Set(Set(Set(l, a, Num(forcount(v[0], v[1], v[2]))), a + 1, Num(v[2])), a + 2, Num(v[0]))
    IN  CASE \E i \in 0..2 : ~ttisinteger(R(a + i)) -> Raise(l, "for")
          [] (\A i \in 0..2 : ttisinteger(R(a + i))) /\ v[2] = 0 -> Raise(l, "for")
          [] OTHER -> IF runs THEN loop ELSE Jump(l, I.b + 1)
OP_FORPREP == At("FORPREP") /\ L' = forprep(N, I.a)
OP_FORLOOP ==
    /\ At("FORLOOP")
    /\ LET next == Set(Set(N, I.a, Num(R(I.a).int - 1)), I.a + 2, Num(R(I.a + 2).int + R(I.a + 1).int))
       IN  L' = IF R(I.a).int > 0 THEN Jump(next, I.b) ELSE N
OP_TFORPREP ==
    /\ At("TFORPREP")
    /\ L' = luaF_newtbcupval(Jump(Set(Set(N, I.a + 2, R(I.a + 3)), I.a + 3, R(I.a + 2)), I.b), base(L) + I.a + 2)
OP_TFORCALL ==
    /\ At("TFORCALL")
    /\ LET frame == Set(Set(Set(N, I.a + 5, R(I.a + 3)), I.a + 4, R(I.a + 1)), I.a + 3, R(I.a))
       IN  L' \in luaD_precall([frame EXCEPT !.top = base(L) + I.a + 6], base(L) + I.a + 3, I.c)
OP_TFORLOOP == At("TFORLOOP") /\ L' = IF R(I.a + 3) # Nil THEN Jump(N, I.b) ELSE N

pushclosure(l, path, a) ==
    LET ups   == Proto(path).upvals
        open  == FoldLeft(LAMBDA s, u : IF u.instack THEN luaF_findupval(s, base(l) + u.idx) ELSE s, l, ups)
        Of(u) == IF u.instack THEN Max(UpAt(open, base(l) + u.idx)) ELSE closure(l).upvals[u.idx]
        cl    == [path |-> path, upvals |-> [i \in DOMAIN ups |-> Of(ups[i])]]
    IN  Set([open EXCEPT !.closures = Append(@, cl)], a, Fun(Len(open.closures) + 1))
OP_CLOSURE == At("CLOSURE") /\ L' = pushclosure(N, Append(closure(L).path, I.b), I.a)
OP_CLOSE   == /\ At("CLOSE")
              /\ L' \in luaF_close(vm_assert(savestate(N), I.b = 0), base(L) + I.a, FALSE)
OP_TBC     == At("TBC") /\ L' = luaF_newtbcupval(N, base(L) + I.a)

OP_VARARGPREP == At("VARARGPREP") /\ L' = luaT_adjustvarargs(N, Proto(closure(L).path))
OP_VARARG ==
    /\ At("VARARG")
    /\ L' = luaT_getvarargs(N, I.a, I.c - 1, IF I.k THEN <<L.tables[R(I.b).tab]>> ELSE <<>>)
OP_GETVARG == At("GETVARG") /\ L' = luaT_getvararg(N, I.a, R(I.c))
OP_ERRNNIL == At("ERRNNIL") /\ L' = IF R(I.a) = Nil THEN N ELSE Raise(N, "global")

-----------------------------------------------------------------------------
(* After a yield the call has put its results where it was called, and     *)
(* luaV_finishOp does what the interrupted instruction still has to do.    *)

luaV_finishOp(l) ==
    LET pc == ci(l).pc
        i  == code(l)[pc - 1]
        Cond(k) == IF l_isfalse(TopValue(l)) = k THEN Jump(l, pc + 1) ELSE l
        \* the operands of the metamethod are replaced by its result
        cat == [l EXCEPT !.top = @ - 2, !.stack[l.top - 3] = TopValue(l)]
    IN  CASE i.op \in {"MMBIN", "MMBINI", "MMBINK"} -> {PopTo(l, code(l)[pc - 2].a)}
          [] i.op \in {"UNM", "LEN", "GETTABUP", "GETTABLE", "GETI", "GETFIELD", "SELF"} -> {PopTo(l, i.a)}
          [] i.op \in {"LT", "LE", "LTI", "LEI", "GTI", "GEI", "EQ"} -> {[Cond(i.k) EXCEPT !.top = @ - 1]}
          [] i.op = "CONCAT" -> luaV_concat(cat, l.top - 2 - (base(l) + i.a))
          [] i.op = "CLOSE"  -> {Jump(l, pc - 1)}
          [] i.op = "RETURN" -> {[Jump(l, pc - 1) EXCEPT !.top = base(l) + i.a + ci(l).nres]}
          [] OTHER -> {l}
Resume == L.status = "yielded" /\ L' \in luaV_finishOp([L EXCEPT !.status = "run"])

Init ==
    /\ program \in DOMAIN Code
    /\ input \in DOMAIN Inputs
    /\ LET main  == [func |-> 0, top |-> 1 + Code[program].maxstack, pc |-> 1, nresults |-> -1, nextra |-> 0, nres |-> 0]
           stack == <<Fun(1)>> \o Inputs[input]
           c     == Code[program]
       IN  L = [stack |-> [s \in 0..(StackSize - 1) |-> IF s < Len(stack) THEN stack[s + 1] ELSE Nil],
                top |-> Len(stack), ci |-> <<main>>, upv |-> <<[at |-> -1, v |-> Tab(1)]>>, tbc |-> <<>>,
                closures |-> <<[path |-> <<>>, upvals |-> <<1>>]>>, tables |-> <<HostGlobals>>, log |-> <<>>,
                status |-> IF c.err = "" THEN "run" ELSE "refused", err |-> c.err, ok |-> c.ok]

Execute ==
    \/ OP_MOVE \/ OP_LOADI \/ OP_LOADK \/ OP_LOADFALSE \/ OP_LFALSESKIP \/ OP_LOADTRUE \/ OP_LOADNIL
    \/ OP_GETUPVAL \/ OP_SETUPVAL \/ OP_GETTABUP \/ OP_GETTABLE \/ OP_GETI \/ OP_GETFIELD
    \/ OP_SETTABUP \/ OP_SETTABLE \/ OP_SETI \/ OP_SETFIELD \/ OP_NEWTABLE \/ OP_SELF \/ OP_SETLIST
    \/ op_arith \/ op_arithK \/ op_bitwise \/ op_bitwiseK \/ OP_ADDI \/ OP_SHLI \/ OP_SHRI
    \/ OP_MMBIN \/ OP_MMBINI \/ OP_MMBINK \/ OP_UNM \/ OP_NOT \/ OP_LEN \/ OP_CONCAT
    \/ OP_EQ \/ OP_EQK \/ OP_EQI \/ op_order \/ op_orderI \/ OP_TEST \/ OP_TESTSET \/ OP_JMP
    \/ OP_CALL \/ OP_TAILCALL \/ OP_RETURN \/ OP_RETURN0 \/ OP_RETURN1
    \/ OP_FORPREP \/ OP_FORLOOP \/ OP_TFORPREP \/ OP_TFORCALL \/ OP_TFORLOOP
    \/ OP_CLOSURE \/ OP_CLOSE \/ OP_TBC \/ OP_VARARGPREP \/ OP_VARARG \/ OP_GETVARG \/ OP_ERRNNIL
Ended == L.status \in {"done", "error", "refused"}
Stop  == Ended /\ UNCHANGED vars
Next ==
    \/ (Execute \/ Resume) /\ UNCHANGED <<program, input>>
    \/ Stop
Spec == Init /\ [][Next]_vars

-----------------------------------------------------------------------------
(* Properties *)

Observed ==
    [status |-> L.status, err |-> L.err, log |-> L.log,
     result |-> IF L.status = "done" THEN [i \in 1..L.top |-> Shown(L.stack[i - 1])] ELSE <<>>]

\* A program that has ended did what the language says, wherever it has yielded:
\* the same results or error, and the host was called in the same order with the
\* same arguments (lcode.c, lparser.c, lvm.c, and luaV_finishOp after a yield).
Agrees == L.status \in {"done", "error"} => Observed = Meanings[program].runs[input]

\* The compiler refuses exactly the programs that break the rules of scopes:
\* gotos into the scope of a variable or without a label, assignments to
\* constants, names without a declaration (closegoto, check_readonly, buildvar).
ScopesMatch ==
    LET errors == Meanings[program].errors
    IN  IF L.status = "refused" THEN L.err \in errors ELSE errors = {}

\* No assertion of the compiler or of the virtual machine fails, and no
\* instruction writes a register outside of the frame its function asked for
\* (lua_assert, maxstacksize, luaP_isIT).
Asserts == L.ok

\* A function that returns, or is replaced by the one it calls in its tail,
\* leaves no upvalue open in its frame and nothing to be closed
\* (needclose of lparser.c; OP_RETURN, OP_TAILCALL).
ReturnsClose ==
    [][ Len(L'.ci) < Len(L.ci) \/ (At("TAILCALL") /\ L'.status = "run") =>
          /\ \A u \in DOMAIN L'.upv : L'.upv[u].at < base(L)
          /\ \A i \in DOMAIN L'.tbc : L'.tbc[i] < base(L) ]_vars
=============================================================================
