------------------------------ MODULE MCLuaVM ------------------------------
(* Programs for the compiler and the virtual machine, as syntax trees, and *)
(* what their runs must show.                                              *)
EXTENDS LuaVM, LuaParser

Sem == INSTANCE LuaSemantics

\* syntax trees
K(n)       == [op |-> "const", v |-> Num(n)]
KS(s)      == [op |-> "const", v |-> Str(s)]
KV(v)      == [op |-> "const", v |-> v]
V(n)       == [op |-> "name", n |-> n]
Dots       == [op |-> "dots"]
Bin(o, x, y) == [op |-> "bin", o |-> o, x |-> x, y |-> y]
Un(o, x)   == [op |-> "un", o |-> o, x |-> x]
Paren(x)   == [op |-> "paren", x |-> x]
Idx(x, k)  == [op |-> "index", obj |-> x, key |-> k]
Fld(x, n)  == Idx(x, KS(n))
App(f, args) == [op |-> "call", fn |-> f, args |-> args]
Meth(x, n, args) == [op |-> "method", obj |-> x, n |-> n, args |-> args]
Item(x)    == [op |-> "item", val |-> x]
Rec(k, x)  == [op |-> "rec", key |-> k, val |-> x]
Table(fs)  == [op |-> "table", fields |-> fs]
F(params, vararg, b) == [params |-> params, vararg |-> vararg, body |-> b]
Lambda(params, vararg, b) == [op |-> "function", f |-> F(params, vararg, b)]
Do(x)      == [op |-> "call", x |-> x]
Local(names, es) == [op |-> "local", names |-> names, attribs |-> [i \in DOMAIN names |-> ""], exps |-> es]
LocalA(n, attr, e) == [op |-> "local", names |-> <<n>>, attribs |-> <<attr>>, exps |-> <<e>>]
Let(n, e)  == Local(<<n>>, <<e>>)
LocalF(n, params, vararg, b) == [op |-> "localfunc", n |-> n, f |-> F(params, vararg, b)]
FunStat(target, f, m) == [op |-> "function", target |-> target, f |-> f, ismethod |-> m]
Set1(x, e) == [op |-> "assign", lhs |-> <<x>>, exps |-> <<e>>]
SetN(lhs, es) == [op |-> "assign", lhs |-> lhs, exps |-> es]
Ret(es)    == [op |-> "return", exps |-> es]
IfElse(c, b, e) == [op |-> "if", tests |-> <<[c |-> c, b |-> b]>>, els |-> <<e>>]
If(c, b)   == [op |-> "if", tests |-> <<[c |-> c, b |-> b]>>, els |-> <<>>]
If2(c1, b1, c2, b2, els) == [op |-> "if", tests |-> <<[c |-> c1, b |-> b1], [c |-> c2, b |-> b2]>>, els |-> els]
WhileDo(c, b) == [op |-> "while", c |-> c, b |-> b]
Block(b)   == [op |-> "do", b |-> b]
RepeatUntil(b, c) == [op |-> "repeat", b |-> b, c |-> c]
For(n, es, b) == [op |-> "fornum", n |-> n, exps |-> es, b |-> b]
ForIn(names, es, b) == [op |-> "forlist", names |-> names, exps |-> es, b |-> b]
Break      == [op |-> "break"]
Goto(n)    == [op |-> "goto", n |-> n]
Label(n)   == [op |-> "label", n |-> n]
Global(names, es) == [op |-> "global", names |-> names, kind |-> "GDKREG", exps |-> es]
GlobalC(names, es) == [op |-> "global", names |-> names, kind |-> "GDKCONST", exps |-> es]
GlobalF(n, f) == [op |-> "globalfunc", n |-> n, f |-> f]
P(args)    == Do(App(V("p"), args))

a == V("a")
b == V("b")
AB == Local(<<"a", "b">>, <<Dots>>)

Pairs(s, t) == [i \in 1..(Len(s) * Len(t)) |-> <<s[((i - 1) \div Len(t)) + 1], t[((i - 1) % Len(t)) + 1]>>] \o <<>>
Each(s, Op(_)) == [i \in DOMAIN s |-> Op(s[i])] \o <<>>

ValueOps == <<"add", "sub", "mul", "mod", "idiv", "band", "concat", "eq", "ne", "lt", "le", "gt", "ge">>
Atoms == <<a, b, K(1), K(-3), K(200), KV(Nil), Un("unm", a)>>
Shifts == Each(Pairs(<<"shl", "shr">>, Pairs(<<a, b, K(1), K(200)>>, <<a, b, K(2), K(-2), K(200)>>)),
               LAMBDA x : Bin(x[1], x[2][1], x[2][2]))
Simple == Shifts \o Each(Pairs(ValueOps, Pairs(Atoms, Atoms)), LAMBDA x : Bin(x[1], x[2][1], x[2][2]))
Conds  == <<a, b, Un("not", a), Bin("ne", a, K(1)), Bin("lt", b, a), KV(Nil), KV(True), App(V("p"), <<a>>)>>
Logic2 == Each(Pairs(<<"and", "or">>, Pairs(Conds, Conds)), LAMBDA x : Bin(x[1], x[2][1], x[2][2]))
Negated == Each(Logic2, LAMBDA x : Un("not", x))
Logic3 == Each(Pairs(<<"and", "or", "eq">>, Pairs(Logic2, <<Un("not", b), Bin("gt", b, K(0))>>)),
               LAMBDA x : Bin(x[1], x[2][1], x[2][2]))

\* an expression as a value, in a local variable, as a condition, in the middle
AsValue(x) == <<AB, Ret(<<x>>)>>
AsLocal(x) == <<AB, Let("c", x), P(<<V("c"), a>>), Set1(b, x), Ret(<<b, a>>)>>
AsCond(x)  == <<AB, IfElse(x, <<P(<<K(1)>>)>>, <<P(<<K(2)>>)>>), WhileDo(x, <<P(<<K(3)>>), Break>>)>>
AsArg(x)   == <<AB, Ret(<<App(V("p"), <<K(7), x, a>>), Table(<<Item(x)>>)>>)>>

inc(n) == Set1(V(n), Bin("add", V(n), K(1)))
\* loops and closures: each iteration has variables of its own
Loops == <<
  <<Let("t", Table(<<>>)), For("i", <<K(1), K(3)>>, <<Set1(Idx(V("t"), V("i")), Lambda(<<>>, "", <<Ret(<<V("i")>>)>>))>>),
    Ret(<<App(Idx(V("t"), K(1)), <<>>), App(Idx(V("t"), K(3)), <<>>)>>)>>,
  <<AB, For("i", <<a, b, K(1)>>, <<P(<<V("i")>>)>>), For("j", <<b, a, K(-1)>>, <<P(<<V("j")>>)>>), For("j", <<K(5), a, b>>, <<Break>>)>>,
  <<AB, For("i", <<K(3), K(1), a>>, <<P(<<V("i")>>)>>)>>,
  <<Let("f", KV(Nil)), Let("n", K(0)),
    WhileDo(Bin("lt", V("n"), K(3)), <<Let("x", V("n")), If(Bin("eq", V("n"), K(1)), <<Set1(V("f"), Lambda(<<>>, "", <<inc("x"), Ret(<<V("x")>>)>>))>>),
                                 inc("n")>>),
    Ret(<<App(V("f"), <<>>), App(V("f"), <<>>), V("n")>>)>>,
  <<Let("n", K(0)), Let("g", KV(Nil)),
    RepeatUntil(<<Let("x", V("n")), LocalF("h", <<>>, "", <<Ret(<<V("x")>>)>>), inc("n"), Set1(V("g"), V("h"))>>, Bin("ge", V("x"), K(2))),
    Ret(<<V("n"), App(V("g"), <<>>)>>)>>,
  <<Let("n", K(0)), RepeatUntil(<<inc("n"), If(Bin("eq", V("n"), K(2)), <<Break>>)>>, KV(False)), Ret(<<V("n")>>)>>,
  <<AB, RepeatUntil(<<Let("x", a), LocalF("h", <<>>, "", <<Ret(<<V("x")>>)>>), If(V("x"), <<Break>>)>>, Un("not", V("x"))), Ret(<<b>>)>>,
  <<Let("r", KV(Nil)), ForIn(<<"i", "m">>, <<V("it"), K(2), K(0)>>, <<P(<<V("i"), V("m")>>), Set1(V("r"), Lambda(<<>>, "", <<Ret(<<V("i")>>)>>))>>),
    Ret(<<App(V("r"), <<>>)>>)>>,
  <<AB, ForIn(<<"i">>, <<V("it"), K(2), K(0), a>>, <<P(<<V("i")>>), If(Bin("eq", V("i"), K(1)), <<Break>>)>>)>>,
  <<AB, ForIn(<<"i">>, <<V("it"), K(1), K(0), V("o")>>, <<Ret(<<App(V("p"), <<V("i")>>)>>)>>)>>,
  <<LocalF("iter", <<"s", "c">>, "", <<If(Bin("lt", V("c"), V("s")), <<Ret(<<Bin("add", V("c"), K(1)), V("c")>>)>>)>>),
    ForIn(<<"i", "j", "k">>, <<V("iter"), K(2), K(0)>>, <<P(<<V("i"), V("j"), V("k")>>)>>)>>,
  <<AB, ForIn(<<"i">>, <<a>>, <<P(<<V("i")>>), Break>>)>>,
  <<AB, WhileDo(KV(True), <<If2(a, <<Break>>, b, <<Ret(<<b>>)>>, <<<<Set1(a, KV(True))>>>>)>>), Ret(<<a>>)>>,
  <<AB, If2(a, <<P(<<K(1)>>)>>, Bin("eq", b, K(1)), <<P(<<K(2)>>)>>, <<>>), If(Un("not", a), <<>>), Ret(<<>>)>>
>>

\* jumps: continue, out of and back into scopes with upvalues, to closed blocks
Jumps2 == <<
  <<For("i", <<K(1), K(3)>>, <<Let("x", V("i")), Let("f", Lambda(<<>>, "", <<Ret(<<V("x")>>)>>)), If(Bin("eq", V("i"), K(2)), <<Goto("cont")>>),
                               P(<<App(V("f"), <<>>)>>), Label("cont")>>)>>,
  <<Let("n", K(0)), Let("t", Table(<<>>)), Label("top"), Let("x", V("n")), Set1(Idx(V("t"), V("n")), Lambda(<<>>, "", <<inc("x"), Ret(<<V("x")>>)>>)), inc("n"),
    If(Bin("lt", V("n"), K(3)), <<Goto("top")>>), Ret(<<App(Idx(V("t"), K(0)), <<>>), App(Idx(V("t"), K(2)), <<>>), App(Idx(V("t"), K(0)), <<>>)>>)>>,
  <<AB, Block(<<LocalA("x", "close", a), If(b, <<Goto("out")>>), P(<<K(1)>>)>>), Label("out"), P(<<K(2)>>)>>,
  <<Let("n", K(0)), Label("top"), Block(<<LocalA("x", "close", V("o")), inc("n"), If(Bin("lt", V("n"), K(2)), <<Goto("top")>>)>>), Ret(<<V("n")>>)>>,
  <<Let("n", K(0)), Block(<<Label("top"), LocalA("x", "close", V("o")), inc("n"), If(Bin("lt", V("n"), K(3)), <<Goto("top")>>)>>), Ret(<<V("n")>>)>>,
  <<Block(<<Goto("l1"), Block(<<Label("l1")>>), Label("l1"), Goto("l2"), Let("x", K(1)), Label("l2")>>), P(<<K(1)>>)>>,
  <<Goto("l2"), Let("x", K(1)), Label("l2"), P(<<K(1)>>)>>,
  <<RepeatUntil(<<If(V("o"), <<Goto("c")>>), Let("x", K(1)), Label("c")>>, V("x"))>>,
  <<RepeatUntil(<<Let("x", K(1)), Label("c"), LocalF("f", <<>>, "", <<Ret(<<V("x")>>)>>), If(Bin("eq", App(V("p"), <<V("x")>>), K(1)), <<inc("x"), Goto("c")>>)>>, KV(True))>>,
  <<Goto("nowhere")>>, <<Break>>, <<LocalF("f", <<>>, "", <<Goto("l")>>), Label("l")>>,
  <<Label("l"), Block(<<Label("l")>>)>>, <<Block(<<Label("l")>>), Label("l"), Ret(<<K(1)>>)>>,
  <<WhileDo(KV(True), <<Let("x", K(1)), LocalF("f", <<>>, "", <<Ret(<<V("x")>>)>>), Block(<<Break>>)>>), Ret(<<K(2)>>)>>,
  <<Let("k", K(0)), Label("a"), Label("b"), inc("k"), If(Bin("lt", V("k"), K(2)), <<Goto("a")>>), If(Bin("lt", V("k"), K(4)), <<Goto("b")>>), Ret(<<V("k")>>)>>,
  <<Goto("g"), Global(<<"*">>, <<>>), Label("g"), P(<<K(1)>>)>>
>>

\* to-be-closed variables
Closes == <<
  <<AB, LocalA("x", "close", a), LocalA("y", "close", V("q")), P(<<K(1)>>), Ret(<<App(V("p"), <<a, b>>)>>)>>,
  <<LocalF("f", <<"x">>, "", <<LocalA("y", "close", V("x")), Ret(<<App(V("p"), <<V("x"), K(3)>>)>>)>>), AB, Ret(<<App(V("f"), <<a>>), App(V("f"), <<V("q")>>)>>)>>,
  <<LocalF("f", <<>>, "...", <<Local(<<"x", "y">>, <<Dots>>), LocalA("z", "close", V("o")), LocalF("g", <<>>, "", <<Ret(<<V("z"), V("x")>>)>>), Ret(<<Dots>>)>>),
    Ret(<<App(V("f"), <<K(1), K(2), K(3)>>)>>)>>,
  <<Block(<<LocalA("x", "close", V("o")), Block(<<LocalA("y", "close", V("q")), LocalF("f", <<>>, "", <<Ret(<<V("y")>>)>>), P(<<App(V("f"), <<>>)>>)>>), P(<<K(4)>>)>>)>>,
  <<[op |-> "local", names |-> <<"x", "y">>, attribs |-> <<"close", "close">>, exps |-> <<>>]>>,
  <<[op |-> "local", names |-> <<"x", "y", "z">>, attribs |-> <<"const", "close", "">>, exps |-> <<K(1), V("o")>>], Ret(<<V("x"), V("z")>>)>>
>>

\* calls: numbers of values, methods, tails, varargs
Calls == <<
  <<LocalF("f", <<"x", "y">>, "", <<Ret(<<V("y"), V("x")>>)>>), Ret(<<App(V("f"), <<K(1)>>), App(V("f"), <<K(1), K(2), K(3)>>), Paren(App(V("f"), <<K(4), K(5)>>))>>)>>,
  <<LocalF("f", <<"n", "acc">>, "", <<If(Bin("eq", V("n"), K(0)), <<Ret(<<V("acc")>>)>>), Ret(<<App(V("f"), <<Bin("sub", V("n"), K(1)), Bin("add", V("acc"), V("n"))>>)>>)>>),
    Ret(<<App(V("f"), <<K(3), K(0)>>)>>)>>,
  <<LocalF("f", <<"n">>, "...", <<If(Bin("eq", V("n"), K(0)), <<Ret(<<Dots>>)>>), Ret(<<App(V("f"), <<Bin("sub", V("n"), K(1)), V("n"), Dots>>)>>)>>),
    Ret(<<App(V("f"), <<K(3), KV(Nil)>>)>>)>>,
  <<AB, LocalF("f", <<"x">>, "...", <<Ret(<<App(V("x"), <<Dots>>)>>)>>), Ret(<<App(V("f"), <<a, K(1), K(2)>>)>>)>>,
  <<AB, LocalF("f", <<"x">>, "...", <<Ret(<<App(V("p"), <<V("x"), Dots>>)>>)>>), P(<<App(V("f"), <<>>), App(V("f"), <<a, b, K(1)>>)>>)>>,
  <<AB, Let("t", Table(<<Rec(KS("n"), K(5))>>)), FunStat(Fld(V("t"), "m"), F(<<"x">>, "", <<Ret(<<Fld(V("self"), "n"), V("x")>>)>>), TRUE),
    Ret(<<Meth(V("t"), "m", <<a>>)>>)>>,
  <<AB, Ret(<<Meth(a, "m", <<b, K(1)>>)>>)>>,
  <<AB, Do(App(a, <<b>>)), Local(<<"x", "y", "z">>, <<App(a, <<>>), App(V("p"), <<b, K(2)>>)>>), Ret(<<V("z"), V("y"), V("x")>>)>>,
  <<Let("v", Lambda(<<>>, "va", <<Ret(<<Fld(V("va"), "n"), Idx(V("va"), K(1)), Idx(V("va"), K(3)), Idx(V("va"), KS("x"))>>)>>)), Ret(<<App(V("v"), <<K(1), K(2)>>), App(V("v"), <<>>)>>)>>,
  <<Let("v", Lambda(<<"f">>, "va", <<Set1(Idx(V("va"), K(1)), K(9)), Ret(<<Dots>>)>>)), Ret(<<App(V("v"), <<K(0), K(1), K(2)>>)>>)>>,
  <<AB, Let("v", Lambda(<<>>, "va", <<Set1(Fld(V("va"), "n"), a), Ret(<<Dots>>)>>)), Ret(<<App(V("v"), <<K(6), K(7)>>)>>)>>,
  <<Let("v", Lambda(<<>>, "va", <<Local(<<"x", "y">>, <<Dots>>), Let("w", V("va")), Ret(<<V("x"), V("y"), Un("len", V("w"))>>)>>)), Ret(<<App(V("v"), <<K(1)>>)>>)>>,
  <<Let("v", Lambda(<<"k">>, "va", <<LocalF("g", <<>>, "", <<Ret(<<Idx(V("va"), V("k"))>>)>>), Ret(<<App(V("g"), <<>>), Idx(V("va"), V("k"))>>)>>)), Ret(<<App(V("v"), <<K(2), K(1), K(4)>>)>>)>>,
  <<LocalF("f", <<>>, "", <<Ret(<<Dots>>)>>)>>,
  <<Let("v", Lambda(<<>>, "va", <<Set1(V("va"), K(1))>>))>>
>>

\* tables, assignments, declarations
Stores == <<
  <<AB, Local(<<"i", "t">>, <<K(1), Table(<<>>)>>), SetN(<<Idx(V("t"), V("i")), V("i")>>, <<K(20), Bin("add", V("i"), K(1))>>), Ret(<<V("i"), Idx(V("t"), K(1)), Idx(V("t"), K(2))>>)>>,
  <<Let("t", Table(<<Item(K(1))>>)), Let("u", V("t")), SetN(<<Idx(V("t"), K(1)), V("t"), Fld(V("t"), "x")>>, <<K(8), KV(Nil), K(9)>>), Ret(<<V("t"), Idx(V("u"), K(1)), Fld(V("u"), "x")>>)>>,
  <<Let("t", Table(<<>>)), LocalF("f", <<>>, "", <<SetN(<<Fld(V("t"), "x"), V("t")>>, <<K(1), K(2)>>)>>), Let("u", V("t")), Do(App(V("f"), <<>>)), Ret(<<V("t"), Fld(V("u"), "x")>>)>>,
  <<AB, SetN(<<a, b>>, <<b, a>>), Ret(<<a, b>>)>>,
  <<AB, SetN(<<a, b>>, <<App(V("p"), <<K(1), K(2), K(3)>>)>>), P(<<a, b>>), SetN(<<a, b>>, <<K(5)>>), P(<<a, b>>), SetN(<<a, b>>, <<K(1), K(2), App(V("p"), <<>>)>>), Ret(<<a, b>>)>>,
  <<AB, Let("t", Table(<<Item(a), Rec(KS("k"), b), Item(b), Item(K(1)), Item(App(V("p"), <<K(2), K(3)>>))>>)), Ret(<<Un("len", V("t")), Fld(V("t"), "k"), Idx(V("t"), K(5))>>)>>,
  <<AB, Let("t", Table(<<Item(K(1)), Item(K(2)), Item(K(3)), Item(K(4)), Item(K(5))>>)), Ret(<<Un("len", V("t")), Idx(V("t"), K(2)), Idx(V("t"), K(5))>>)>>,
  <<AB, Let("t", Table(<<Rec(a, b), Item(Dots)>>)), Ret(<<Idx(V("t"), a)>>)>>,
  <<AB, Set1(Fld(a, "x"), b), Ret(<<Fld(a, "x"), Idx(a, b), Idx(a, K(1)), Idx(a, K(-1))>>)>>,
  <<AB, Set1(V("g"), a), Set1(Fld(V("_ENV"), "h"), V("g")), Ret(<<V("h"), Fld(V("_ENV"), "g")>>)>>,
  <<AB, Let("_ENV", Table(<<Rec(KS("x"), a)>>)), Set1(V("y"), V("x")), LocalF("f", <<>>, "", <<Ret(<<V("y")>>)>>), Ret(<<App(V("f"), <<>>)>>)>>,
  <<LocalA("c", "const", K(5)), LocalF("f", <<>>, "", <<Ret(<<Bin("add", V("c"), K(1))>>)>>), Ret(<<App(V("f"), <<>>), V("c")>>)>>,
  <<LocalA("c", "const", K(5)), Set1(V("c"), K(6))>>,
  <<AB, LocalA("c", "const", a), LocalF("f", <<>>, "", <<Set1(V("c"), K(6))>>)>>,
  <<For("i", <<K(1), K(2)>>, <<Set1(V("i"), K(1))>>)>>,
  <<AB, GlobalC(<<"*">>, <<>>), Global(<<"x", "y">>, <<a, b>>), Ret(<<V("x"), V("y")>>)>>,
  <<AB, Global(<<"x">>, <<>>), Ret(<<V("x"), V("y")>>)>>,
  <<GlobalC(<<"*">>, <<>>), Set1(V("x"), K(1))>>,
  <<Global(<<"p">>, <<>>), GlobalF("f", F(<<>>, "", <<P(<<K(1)>>)>>)), Do(App(V("f"), <<>>)), GlobalF("f", F(<<>>, "", <<>>))>>,
  <<AB, Global(<<"p", "x">>, <<K(1), K(2)>>)>>,
  <<Let("x", K(1)), Block(<<Global(<<"x", "p">>, <<>>), Set1(V("x"), K(2)), LocalF("f", <<>>, "", <<P(<<V("x")>>)>>), Do(App(V("f"), <<>>))>>), Ret(<<V("x")>>)>>,
  <<LocalF("f", <<"x">>, "", <<LocalF("g", <<>>, "", <<inc("x"), Ret(<<V("x")>>)>>), LocalF("h", <<>>, "", <<LocalF("k", <<>>, "", <<Set1(V("x"), Bin("mul", V("x"), K(10)))>>), Do(App(V("k"), <<>>)), Ret(<<V("x")>>)>>), Ret(<<V("g"), V("h")>>)>>),
    Local(<<"g", "h">>, <<App(V("f"), <<K(1)>>)>>), Local(<<"g2">>, <<App(V("f"), <<K(7)>>)>>), Ret(<<App(V("g"), <<>>), App(V("h"), <<>>), App(V("g"), <<>>), App(V("g2"), <<>>)>>)>>,
  <<AB, Local(<<"c", "d">>, <<>>), Block(<<Local(<<"e", "f">>, <<>>), P(<<V("c"), V("f")>>)>>), Local(<<"g", "h">>, <<a>>), Ret(<<V("c"), V("g"), V("h")>>)>>,
  <<AB, Ret(<<Bin("concat", a, Bin("concat", K(1), Bin("concat", b, KS("z"))))>>)>>,
  <<AB, Ret(<<Bin("concat", Bin("concat", a, K(2)), b), Bin("add", Bin("mul", a, K(2)), Bin("sub", b, a)), Un("len", a)>>)>>
>>
StatPrograms == Loops \o Jumps2 \o Closes \o Calls \o Stores

Few(s, n) == [i \in 1..(Len(s) \div n) |-> s[i * n]] \o <<>>
Sources == StatPrograms \o Each(Few(Simple, 2), AsValue) \o Each(Few(Logic2, 2), AsCond) \o Each(Logic2, AsArg)
           \o Each(Negated, AsLocal) \o Each(Few(Logic3, 2), AsValue)

ConstInputs == <<<<Num(1), Num(2)>>, <<Obj("o"), Num(1)>>, <<Nil, Obj("o")>>, <<Obj("o"), Obj("q")>>, <<False, Num(0)>>>>
\* a program that must be refused has no runs
MeaningOf(chunk) ==
    LET errors == Sem!ChunkErrors(chunk)
        run(args) == Sem!Meaning(chunk, args)
    IN  [errors |-> errors, runs |-> IF errors = {} THEN Each(ConstInputs, run) ELSE <<>>]
\* the constants name these through LET, where TLC's coverage does not follow
Compiled == Each(Sources, mainfunc)
Expected == Each(Sources, MeaningOf)
ConstCode     == LET main == Compiled IN main
ConstMeanings == LET meanings == Expected IN meanings
=============================================================================
