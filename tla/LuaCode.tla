------------------------------ MODULE LuaCode ------------------------------
(***************************************************************************)
(* The code generator of Lua (lcode.c), as functions from a state of the   *)
(* compilation to the next.  A state is a record fs, the FuncState of the  *)
(* function being compiled, with these fields used here:                   *)
(*   code        the instructions, [op, a, b, c, k]; a jump has its target *)
(*               in b, 0 (NO_JUMP) while it is unknown or last in a list   *)
(*   free        freereg           maxstack    f->maxstacksize             *)
(*   lasttarget  last jump target  e           the expdesc at work         *)
(*   actvar, nactvar               declared and active variables           *)
(*   needclose, vahid, vatab       flags of the function                   *)
(*   ok          FALSE once a lua_assert of the compiler failed            *)
(*   err         "" or the first error of the program                      *)
(* An expdesc is [k, i, x, t, f, ro]: kind, register or position (info),   *)
(* value or key, and the two lists of jumps.  Operands that refer to the   *)
(* table of constants hold the constant itself; positions count from 1 and *)
(* jumps are absolute.  Limits, line numbers and floats are left out.      *)
(***************************************************************************)
EXTENDS Integers, Sequences, FiniteSetsExt, LuaValues

NO_JUMP == 0
NO_REG  == 255

\* instructions that test, and so are followed by a jump
TestOps == {"EQ", "LT", "LE", "EQK", "EQI", "LTI", "LEI", "GTI", "GEI", "TEST", "TESTSET"}

E(k, i, x) == [k |-> k, i |-> i, x |-> x, t |-> NO_JUMP, f |-> NO_JUMP, ro |-> FALSE]
\* another kind of value in the same expression: its jumps stay
Become(fs, k, i, x) == [fs EXCEPT !.e.k = k, !.e.i = i, !.e.x = x]
With(fs, e) == [fs EXCEPT !.e = e]
\* an error ends the compilation: what follows is not run
lua_assert(fs, p) == [fs EXCEPT !.ok = @ /\ (fs.err # "" \/ p)]
hasjumps(e) == e.t # e.f
tonumeral(e) == e.k = "VKINT" /\ ~hasjumps(e)
fitsC(n) == n \in -127..128
isSCint(e) == tonumeral(e) /\ fitsC(e.x.int)
isCint(e)  == tonumeral(e) /\ e.x.int \in 0..255
luaK_exp2const(e) == ~hasjumps(e) /\ e.k \in {"VNIL", "VTRUE", "VFALSE", "VKSTR", "VKINT", "VCONST"}

-----------------------------------------------------------------------------
(* Instructions, jumps and registers *)

luaK_codeABCk(fs, op, a, b, c, k) ==
    [fs EXCEPT !.code = Append(@, [op |-> op, a |-> a, b |-> b, c |-> c, k |-> k])]
luaK_codeABC(fs, op, a, b, c) == luaK_codeABCk(fs, op, a, b, c, FALSE)
\* the instruction just coded becomes the expression, in a register to be chosen
Relocatable(fs) == Become(fs, "VRELOC", Len(fs.code), 0)

varinreg(v) == v.kind \in {"VDKREG", "RDKCONST", "RDKVAVAR", "RDKTOCLOSE"}
\* the register level below the first n variables
reglevel(fs, n) ==
    LET held == {i \in 1..n : varinreg(fs.actvar[i])}
    IN  IF held = {} THEN 0 ELSE fs.actvar[Max(held)].ridx + 1
luaY_nvarstack(fs) == reglevel(fs, fs.nactvar)

luaK_reserveregs(fs, n) ==
    [fs EXCEPT !.free = @ + n, !.maxstack = Max({@, fs.free + n})]
freereg(fs, r) ==
    IF r >= luaY_nvarstack(fs)
    THEN [lua_assert(fs, r = fs.free - 1) EXCEPT !.free = @ - 1] ELSE fs
freeregs(fs, r1, r2) == freereg(freereg(fs, Max({r1, r2})), Min({r1, r2}))
RegOf(e) == IF e.k = "VNONRELOC" THEN e.i ELSE -1
freeexp(fs) == freereg(fs, RegOf(fs.e))
freeexps(fs, e1, e2) == freeregs(fs, RegOf(e1), RegOf(e2))

luaK_getlabel(fs) == [fs EXCEPT !.lasttarget = Len(fs.code) + 1]
\* the previous instruction, unless a jump may come between
previous(fs) == IF Len(fs.code) >= fs.lasttarget /\ fs.code # <<>>
                THEN fs.code[Len(fs.code)].op ELSE "none"

\* loading nil extends the previous instruction when the ranges touch
luaK_nil(fs, from, n) ==
    LET p     == fs.code[Len(fs.code)]
        last  == from + n - 1
        plast == p.a + p.b
    IN  IF previous(fs) = "LOADNIL" /\ (from \in p.a..(plast + 1) \/ p.a \in from..(last + 1))
        THEN LET a == Min({p.a, from})
             IN  [fs EXCEPT !.code[Len(fs.code)] = [@ EXCEPT !.a = a, !.b = Max({plast, last}) - a]]
        ELSE luaK_codeABC(fs, "LOADNIL", from, n - 1, 0)

luaK_jump(fs) == luaK_codeABC(fs, "JMP", 0, NO_JUMP, 0)
condjump(fs, op, a, b, k) == luaK_jump(luaK_codeABCk(fs, op, a, b, 0, k))
luaK_ret(fs, first, nret) ==
    luaK_codeABC(fs, CASE nret = 0 -> "RETURN0" [] nret = 1 -> "RETURN1" [] OTHER -> "RETURN",
                 first, nret + 1, 0)

\* the jumps of a list, linked through their targets
RECURSIVE Jumps(_, _)
Jumps(fs, l) == IF l = NO_JUMP THEN {} ELSE {l} \cup Jumps(fs, fs.code[l].b)
getjumpcontrol(fs, j) == IF j > 1 /\ fs.code[j - 1].op \in TestOps THEN j - 1 ELSE j
need_value(fs, l) == \E j \in Jumps(fs, l) : fs.code[getjumpcontrol(fs, j)].op # "TESTSET"

\* luaK_concat: the joined list starts at Head(l1, l2), and Link ties the last
\* jump of l1 to l2
Head1(l1, l2) == IF l1 = NO_JUMP THEN l2 ELSE l1
Link(fs, l1, l2) ==
    IF l1 = NO_JUMP \/ l2 = NO_JUMP THEN fs
    ELSE LET last == CHOOSE j \in Jumps(fs, l1) : fs.code[j].b = NO_JUMP
         IN  [fs EXCEPT !.code[last].b = l2]

\* a TESTSET gets its register, or becomes a TEST when no value is wanted
patchtestreg(i, reg) ==
    IF reg # NO_REG /\ reg # i.b THEN [i EXCEPT !.a = reg]
    ELSE [i EXCEPT !.op = "TEST", !.a = i.b, !.b = 0]
Testset(fs, i) == i \in DOMAIN fs.code /\ fs.code[i].op = "TESTSET"
removevalues(fs, l) ==
    [fs EXCEPT !.code = Rewritten(fs.code, LAMBDA i :
        IF i + 1 \in Jumps(fs, l) /\ Testset(fs, i) THEN patchtestreg(fs.code[i], NO_REG)
        ELSE fs.code[i])]
patchlistaux(fs, l, vtarget, reg, dtarget) ==
    LET list == Jumps(fs, l)
        patched(i) == CASE i \in list -> [fs.code[i] EXCEPT !.b = IF Testset(fs, i - 1) THEN vtarget ELSE dtarget]
                        [] i + 1 \in list /\ Testset(fs, i) -> patchtestreg(fs.code[i], reg)
                        [] OTHER -> fs.code[i]
    IN  [lua_assert(fs, \A j \in list : fs.code[j].op = "JMP")
            EXCEPT !.code = Rewritten(fs.code, patched)]
luaK_patchlist(fs, l, target) == patchlistaux(fs, l, target, NO_REG, target)
luaK_patchtohere(fs, l) == luaK_patchlist(luaK_getlabel(fs), l, Len(fs.code) + 1)

-----------------------------------------------------------------------------
(* Values of expressions: into a register, a constant or a jump *)

luaK_setreturns(fs, nresults) ==
    LET g == [fs EXCEPT !.code[fs.e.i].c = nresults + 1]
    IN  IF fs.e.k = "VCALL" THEN g
        ELSE luaK_reserveregs([g EXCEPT !.code[fs.e.i].a = fs.free], 1)
luaK_setoneret(fs) ==
    IF fs.e.k = "VCALL" THEN Become(lua_assert(fs, fs.code[fs.e.i].c = 2), "VNONRELOC", fs.code[fs.e.i].a, 0)
    ELSE Become([fs EXCEPT !.code[fs.e.i].c = 2], "VRELOC", fs.e.i, 0)

\* a vararg parameter used as a value needs its table
luaK_vapar2local(fs) == [fs EXCEPT !.vatab = TRUE, !.e.k = "VLOCAL"]

const2exp(fs) ==
    LET v == fs.e.x
    IN  Become(fs, CASE v = Nil -> "VNIL" [] v = True -> "VTRUE" [] v = False -> "VFALSE"
                     [] ttisinteger(v) -> "VKINT" [] OTHER -> "VKSTR", 0, v)

luaK_dischargevars(fs) ==
    LET e == fs.e IN
    CASE e.k = "VCONST"    -> const2exp(fs)
      [] e.k = "VVARGVAR"  -> Become(luaK_vapar2local(fs), "VNONRELOC", e.i, 0)
      [] e.k = "VLOCAL"    -> Become(fs, "VNONRELOC", e.i, 0)
      [] e.k = "VUPVAL"    -> Relocatable(luaK_codeABC(fs, "GETUPVAL", 0, e.i, 0))
      [] e.k = "VINDEXUP"  -> Relocatable(luaK_codeABC(fs, "GETTABUP", 0, e.i, e.x))
      [] e.k = "VINDEXI"   -> Relocatable(luaK_codeABC(freereg(fs, e.i), "GETI", 0, e.i, e.x))
      [] e.k = "VINDEXSTR" -> Relocatable(luaK_codeABC(freereg(fs, e.i), "GETFIELD", 0, e.i, e.x))
      [] e.k = "VINDEXED"  -> Relocatable(luaK_codeABC(freeregs(fs, e.i, e.x), "GETTABLE", 0, e.i, e.x))
      [] e.k = "VVARGIND"  -> Relocatable(luaK_codeABC(freeregs(fs, e.i, e.x), "GETVARG", 0, e.i, e.x))
      [] e.k \in {"VVARARG", "VCALL"} -> luaK_setoneret(fs)
      [] OTHER -> fs

discharge2reg(fs, reg) ==
    LET d == luaK_dischargevars(fs)
        e == d.e
        g == CASE e.k = "VNIL"   -> luaK_nil(d, reg, 1)
               [] e.k = "VFALSE" -> luaK_codeABC(d, "LOADFALSE", reg, 0, 0)
               [] e.k = "VTRUE"  -> luaK_codeABC(d, "LOADTRUE", reg, 0, 0)
               [] e.k \in {"VK", "VKSTR"} -> luaK_codeABC(d, "LOADK", reg, e.x, 0)
               [] e.k = "VKINT"  -> luaK_codeABC(d, "LOADI", reg, e.x, 0)
               [] e.k = "VRELOC" -> [d EXCEPT !.code[e.i].a = reg]
               [] e.k = "VNONRELOC" /\ reg # e.i -> luaK_codeABC(d, "MOVE", reg, e.i, 0)
               [] OTHER -> lua_assert(d, e.k \in {"VNONRELOC", "VJMP"})
    IN  IF e.k = "VJMP" THEN d ELSE Become(g, "VNONRELOC", reg, 0)
discharge2anyreg(fs) ==
    IF fs.e.k = "VNONRELOC" THEN fs
    ELSE LET g == luaK_reserveregs(fs, 1) IN discharge2reg(g, g.free - 1)

code_loadbool(fs, a, op) == luaK_codeABC(luaK_getlabel(fs), op, a, 0, 0)

\* the final value in a register: jumps that bring no value go to instructions
\* that load false or true
exp2reg(fs, reg) ==
    LET d    == discharge2reg(fs, reg)
        test == d.e.k = "VJMP"
        j    == IF test THEN [Link(d, d.e.t, d.e.i) EXCEPT !.e.t = Head1(@, d.e.i)] ELSE d
        need == need_value(j, j.e.t) \/ need_value(j, j.e.f)
        s    == IF test THEN j ELSE luaK_jump(j)
        b    == code_loadbool(code_loadbool(s, reg, "LFALSESKIP"), reg, "LOADTRUE")
        p_f  == Len(s.code) + 1
        v    == IF ~need THEN j ELSE luaK_patchtohere(b, IF test THEN NO_JUMP ELSE Len(s.code))
        g    == luaK_getlabel(v)
        final == Len(g.code) + 1
        p    == patchlistaux(patchlistaux(g, j.e.f, final, reg, p_f), j.e.t, final, reg, p_f + 1)
    IN  With(IF hasjumps(j.e) THEN p ELSE j, E("VNONRELOC", reg, 0))

luaK_exp2nextreg(fs) ==
    LET g == luaK_reserveregs(freeexp(luaK_dischargevars(fs)), 1) IN exp2reg(g, g.free - 1)
luaK_exp2anyreg(fs) ==
    LET d == luaK_dischargevars(fs)
    IN  CASE d.e.k = "VNONRELOC" /\ ~hasjumps(d.e) -> d
          [] d.e.k = "VNONRELOC" /\ hasjumps(d.e) /\ d.e.i >= luaY_nvarstack(d) -> exp2reg(d, d.e.i)
          [] OTHER -> luaK_exp2nextreg(d)
luaK_exp2anyregup(fs) ==
    IF fs.e.k \in {"VUPVAL", "VVARGVAR"} /\ ~hasjumps(fs.e) THEN fs ELSE luaK_exp2anyreg(fs)
luaK_exp2val(fs) ==
    IF fs.e.k = "VJMP" \/ hasjumps(fs.e) THEN luaK_exp2anyreg(fs) ELSE luaK_dischargevars(fs)

\* the constant an expression stands for, as an operand
ConstOf(e) == CASE e.k = "VTRUE" -> True [] e.k = "VFALSE" -> False [] e.k = "VNIL" -> Nil [] OTHER -> e.x
isK(e) == ~hasjumps(e) /\ e.k \in {"VTRUE", "VFALSE", "VNIL", "VKINT", "VKSTR", "VK"}
exp2RK(fs) == IF isK(fs.e) THEN Become(fs, "VK", 0, ConstOf(fs.e)) ELSE luaK_exp2anyreg(fs)
Operand(e) == IF e.k = "VK" THEN e.x ELSE e.i
codeABRK(fs, op, a, b) ==
    LET g == exp2RK(fs) IN luaK_codeABCk(g, op, a, b, Operand(g.e), g.e.k = "VK")

\* store the expression at work into a variable
luaK_storevar(fs, var) ==
    CASE var.k = "VLOCAL"    -> exp2reg(freeexp(fs), var.i)
      [] var.k = "VUPVAL"    -> LET g == luaK_exp2anyreg(fs)
                                IN  freeexp(luaK_codeABC(g, "SETUPVAL", g.e.i, var.i, 0))
      [] var.k = "VINDEXUP"  -> freeexp(codeABRK(fs, "SETTABUP", var.i, var.x))
      [] var.k = "VINDEXI"   -> freeexp(codeABRK(fs, "SETI", var.i, var.x))
      [] var.k = "VINDEXSTR" -> freeexp(codeABRK(fs, "SETFIELD", var.i, var.x))
      [] var.k = "VVARGIND"  -> freeexp(codeABRK([fs EXCEPT !.vatab = TRUE], "SETTABLE", var.i, var.x))
      [] var.k = "VINDEXED"  -> freeexp(codeABRK(fs, "SETTABLE", var.i, var.x))

luaK_self(fs, key) ==
    LET r == luaK_exp2anyreg(fs)
        g == freeexp(r)
    IN  luaK_codeABC(luaK_reserveregs(With(g, E("VNONRELOC", g.free, 0)), 2), "SELF", g.free, r.e.i, key)

\* t[k], with k the expression at work
luaK_indexed(fs, t) ==
    LET key == IF fs.e.k = "VKSTR" THEN Become(fs, "VK", 0, fs.e.x) ELSE fs
        str == key.e.k = "VK" /\ ~hasjumps(key.e)
        up  == t.k = "VUPVAL" /\ ~str
        g   == IF up THEN luaK_exp2anyreg(With(key, t)) ELSE key
        tt  == IF up THEN g.e ELSE t
        r   == luaK_exp2anyreg(With(g, key.e))
        asserted(h) == lua_assert(h, ~hasjumps(tt) /\ tt.k \in {"VLOCAL", "VVARGVAR", "VNONRELOC", "VUPVAL"})
    IN  asserted(CASE tt.k = "VUPVAL"   -> With(g, E("VINDEXUP", tt.i, key.e.x))
                   [] tt.k = "VVARGVAR" -> With(r, E("VVARGIND", tt.i, r.e.i))
                   [] tt.k \notin {"VUPVAL", "VVARGVAR"} /\ str -> With(g, E("VINDEXSTR", tt.i, key.e.x))
                   [] tt.k \notin {"VUPVAL", "VVARGVAR"} /\ isCint(key.e) -> With(g, E("VINDEXI", tt.i, key.e.x))
                   [] OTHER -> With(r, E("VINDEXED", tt.i, r.e.i)))

-----------------------------------------------------------------------------
(* Conditions *)

negatecondition(fs) ==
    LET c == getjumpcontrol(fs, fs.e.i)
    IN  [lua_assert(fs, fs.code[c].op \in TestOps \ {"TEST", "TESTSET"}) EXCEPT !.code[c].k = ~@]

\* jump when the expression is cond; the position of the jump is left in e.i
jumponcond(fs, cond) ==
    LET not == fs.e.k = "VRELOC" /\ fs.code[fs.e.i].op = "NOT"
        bare == [fs EXCEPT !.code = SubSeq(@, 1, Len(@) - 1)]
        d   == discharge2anyreg(fs)
        j   == IF not THEN condjump(bare, "TEST", fs.code[fs.e.i].b, 0, ~cond)
               ELSE condjump(freeexp(d), "TESTSET", NO_REG, d.e.i, cond)
    IN  [j EXCEPT !.e.i = Len(j.code)]
Through(fs) == [fs EXCEPT !.e.i = NO_JUMP]

luaK_goiftrue(fs) ==
    LET d == luaK_dischargevars(fs)
        j == CASE d.e.k = "VJMP" -> negatecondition(d)
               [] d.e.k \in {"VK", "VKINT", "VKSTR", "VTRUE"} -> Through(d)
               [] OTHER -> jumponcond(d, FALSE)
    IN  [luaK_patchtohere(Link(j, j.e.f, j.e.i), j.e.t) EXCEPT !.e.f = Head1(@, j.e.i), !.e.t = NO_JUMP]
luaK_goiffalse(fs) ==
    LET d == luaK_dischargevars(fs)
        j == CASE d.e.k = "VJMP" -> d
               [] d.e.k \in {"VNIL", "VFALSE"} -> Through(d)
               [] OTHER -> jumponcond(d, TRUE)
    IN  [luaK_patchtohere(Link(j, j.e.t, j.e.i), j.e.f) EXCEPT !.e.t = Head1(@, j.e.i), !.e.f = NO_JUMP]

codenot(fs) ==
    LET d == discharge2anyreg(fs)
        g == CASE fs.e.k \in {"VNIL", "VFALSE"} -> Become(fs, "VTRUE", 0, 0)
               [] fs.e.k \in {"VK", "VKINT", "VKSTR", "VTRUE"} -> Become(fs, "VFALSE", 0, 0)
               [] fs.e.k = "VJMP" -> negatecondition(fs)
               [] OTHER -> Relocatable(luaK_codeABC(freeexp(d), "NOT", 0, d.e.i, 0))
        s == [g EXCEPT !.e.f = g.e.t, !.e.t = g.e.f]
    IN  removevalues(removevalues(s, s.e.f), s.e.t)

-----------------------------------------------------------------------------
(* Operators.  The second operand, or the only one, is the expression at   *)
(* work.                                                                   *)

Opcode == [add |-> "ADD", sub |-> "SUB", mul |-> "MUL", mod |-> "MOD", idiv |-> "IDIV",
           band |-> "BAND", shl |-> "SHL", shr |-> "SHR", lt |-> "LT", le |-> "LE"]
Commuted == [gt |-> "lt", ge |-> "le"]

\* both operands are numerals and the operation cannot fail
constfolds(op, e1, e2) ==
    op \in ArithOps /\ tonumeral(e1) /\ tonumeral(e2) /\ validop(op, e2.x)
codeunexpval(fs, op) ==
    LET r == luaK_exp2anyreg(fs) IN Relocatable(luaK_codeABC(freeexp(r), op, 0, r.e.i, 0))

\* the operation, and after it the instruction that calls the metamethod with
\* the original second operand w; flip tells that the operands were swapped
finishbinexpval(fs, e1, e2, op, v2, w, flip, mmop, event) ==
    LET g == luaK_exp2anyreg(With(fs, e1))
        h == Relocatable(freeexps(luaK_codeABC(g, op, 0, g.e.i, v2), g.e, e2))
    IN  luaK_codeABCk(h, mmop, g.e.i, w, event, flip)
codebini(fs, e1, e2, op, flip, event) ==
    finishbinexpval(fs, e1, e2, op, e2.x, e2.x, flip, "MMBINI", event)
codebinK(fs, opr, e1, e2, flip) ==
    finishbinexpval(fs, e1, E("VK", 0, e2.x), Opcode[opr] \o "K", e2.x, e2.x, flip, "MMBINK", opr)
codebinexpval(fs, opr, e1, e2) ==
    LET g == luaK_exp2anyreg(With(fs, e2))
    IN  finishbinexpval(g, e1, g.e, Opcode[opr], g.e.i, g.e.i, FALSE, "MMBIN", opr)
codebinNoK(fs, opr, e1, e2, flip) ==
    IF flip THEN codebinexpval(fs, opr, e2, e1) ELSE codebinexpval(fs, opr, e1, e2)
codearith(fs, opr, e1, e2, flip) ==
    IF tonumeral(e2) THEN codebinK(fs, opr, e1, e2, flip) ELSE codebinNoK(fs, opr, e1, e2, flip)
codecommutative(fs, opr, e1, e2) ==
    LET flip == tonumeral(e1)
        a == IF flip THEN e2 ELSE e1
        b == IF flip THEN e1 ELSE e2
    IN  IF opr = "add" /\ isSCint(b) THEN codebini(fs, a, b, "ADDI", flip, "add")
        ELSE codearith(fs, opr, a, b, flip)
codebitwise(fs, opr, e1, e2) ==
    LET flip == e1.k = "VKINT"
        a == IF flip THEN e2 ELSE e1
        b == IF flip THEN e1 ELSE e2
    IN  IF tonumeral(b) THEN codebinK(fs, opr, a, b, flip) ELSE codebinNoK(fs, opr, a, b, flip)
\* subtract, or shift by, a small constant with the opposite operation
negatable(e) == isSCint(e) /\ fitsC(-e.x.int)
finishbinexpneg(fs, e1, e2, op, event) ==
    finishbinexpval(fs, e1, e2, op, Num(-e2.x.int), e2.x, FALSE, "MMBINI", event)

codeorder(fs, opr, e1, e2) ==
    LET immop == IF isSCint(e2) THEN [lt |-> "LTI", le |-> "LEI"] ELSE [lt |-> "GTI", le |-> "GEI"]
        imm   == IF isSCint(e2) THEN e2 ELSE e1
        g     == luaK_exp2anyreg(With(fs, IF isSCint(e2) THEN e1 ELSE e2))
        r1    == luaK_exp2anyreg(With(fs, e1))
        r2    == luaK_exp2anyreg(With(r1, e2))
        j     == IF isSCint(e1) \/ isSCint(e2)
                 THEN condjump(freeexps(g, g.e, imm), immop[opr], g.e.i, imm.x, TRUE)
                 ELSE condjump(freeexps(r2, r1.e, r2.e), Opcode[opr], r1.e.i, r2.e.i, TRUE)
    IN  With(j, E("VJMP", Len(j.code), 0))
codeeq(fs, opr, e1, e2) ==
    LET a  == IF e1.k = "VNONRELOC" THEN e1 ELSE e2
        b  == IF e1.k = "VNONRELOC" THEN e2 ELSE e1
        g  == luaK_exp2anyreg(With(fs, a))
        h  == IF isSCint(b) THEN With(g, b) ELSE exp2RK(With(g, b))
        op == CASE isSCint(b) -> "EQI" [] h.e.k = "VK" -> "EQK" [] OTHER -> "EQ"
        j  == condjump(freeexps(h, g.e, h.e), op, g.e.i, IF op = "EQ" THEN h.e.i ELSE h.e.x, opr = "eq")
    IN  With(lua_assert(j, e1.k \in {"VNONRELOC", "VK", "VKINT"}), E("VJMP", Len(j.code), 0))

luaK_prefix(fs, op) ==
    LET d == luaK_dischargevars(fs)
    IN  CASE op = "unm" /\ tonumeral(d.e) -> Become(d, "VKINT", 0, Num(-d.e.x.int))
          [] op = "unm" /\ ~tonumeral(d.e) -> codeunexpval(d, "UNM")
          [] op = "len" -> codeunexpval(d, "LEN")
          [] op = "not" -> codenot(d)

luaK_infix(fs, op) ==
    LET d == luaK_dischargevars(fs)
    IN  CASE op = "and"    -> luaK_goiftrue(d)
          [] op = "or"     -> luaK_goiffalse(d)
          [] op = "concat" -> luaK_exp2nextreg(d)
          [] op \in ArithOps -> IF tonumeral(d.e) THEN d ELSE luaK_exp2anyreg(d)
          [] op \in {"eq", "ne"} -> IF tonumeral(d.e) THEN d ELSE exp2RK(d)
          [] op \in {"lt", "le", "gt", "ge"} -> IF isSCint(d.e) THEN d ELSE luaK_exp2anyreg(d)

\* e1 .. e2, merged with a concatenation that ends e2
codeconcat(fs, e1) ==
    LET last == Len(fs.code)
    IN  With(IF previous(fs) = "CONCAT"
             THEN freeexp([lua_assert(fs, e1.i + 1 = fs.code[last].a)
                             EXCEPT !.code[last] = [@ EXCEPT !.a = e1.i, !.b = @ + 1]])
             ELSE freeexp(luaK_codeABC(fs, "CONCAT", e1.i, 2, 0)), e1)

luaK_posfix(fs, op, e1) ==
    LET d  == luaK_dischargevars(fs)
        e2 == d.e
    IN  CASE constfolds(op, e1, e2) -> With(d, [e1 EXCEPT !.x = luaO_rawarith(op, @, e2.x)])
          [] op = "and" -> [lua_assert(Link(d, e2.f, e1.f), e1.t = NO_JUMP) EXCEPT !.e.f = Head1(@, e1.f)]
          [] op = "or"  -> [lua_assert(Link(d, e2.t, e1.t), e1.f = NO_JUMP) EXCEPT !.e.t = Head1(@, e1.t)]
          [] op = "concat" -> codeconcat(luaK_exp2nextreg(d), e1)
          [] op \in {"eq", "ne"} -> codeeq(d, op, e1, e2)
          [] op \in {"gt", "ge"} -> codeorder(d, Commuted[op], e2, e1)
          [] op \in {"lt", "le"} -> codeorder(d, op, e1, e2)
          [] op \in ArithOps /\ ~constfolds(op, e1, e2) ->
             CASE op \in {"add", "mul"} -> codecommutative(d, op, e1, e2)
               [] op = "sub" /\ negatable(e2) -> finishbinexpneg(d, e1, e2, "ADDI", "sub")
               [] op \in {"idiv", "mod"} \/ (op = "sub" /\ ~negatable(e2)) -> codearith(d, op, e1, e2, FALSE)
               [] op = "band" -> codebitwise(d, op, e1, e2)
               [] op = "shl" /\ isSCint(e1) -> codebini(d, e2, e1, "SHLI", TRUE, "shl")
               [] op = "shl" /\ ~isSCint(e1) /\ negatable(e2) -> finishbinexpneg(d, e1, e2, "SHRI", "shl")
               [] op = "shr" /\ isSCint(e2) -> codebini(d, e1, e2, "SHRI", FALSE, "shr")
               [] OTHER -> codebinexpval(d, op, e1, e2)

luaK_setlist(fs, base, nelems, tostore) ==
    [luaK_codeABC(lua_assert(fs, tostore # 0), "SETLIST", base, IF tostore = -1 THEN 0 ELSE tostore, nelems)
        EXCEPT !.free = base + 1]
\* a check that a global is not defined yet
luaK_codecheckglobal(fs) ==
    LET g == luaK_exp2anyreg(fs) IN freeexp(luaK_codeABC(g, "ERRNNIL", g.e.i, 0, 0))

-----------------------------------------------------------------------------
(* The final pass over the code of a function *)

RECURSIVE finaltarget(_, _, _)
finaltarget(code, i, count) ==
    IF count = 100 \/ code[i].op # "JMP" THEN i ELSE finaltarget(code, code[i].b, count + 1)

\* instructions that leave, or take, a number of values known only by 'top'
isOT(i) == (i.op \in {"CALL", "VARARG"} /\ i.c = 0) \/ i.op = "TAILCALL"
isIT(i) == i.op \in {"CALL", "TAILCALL", "RETURN", "SETLIST"} /\ i.b = 0

luaK_finish(fs) ==
    LET hid == fs.vahid /\ ~fs.vatab
        finish(pc) ==
            LET i  == fs.code[pc]
                op == IF i.op \in {"RETURN0", "RETURN1"} /\ (fs.needclose \/ hid) THEN "RETURN" ELSE i.op
            IN  CASE op \in {"RETURN", "TAILCALL"} ->
                         [i EXCEPT !.op = op, !.k = @ \/ fs.needclose, !.c = IF hid THEN fs.numparams + 1 ELSE @]
                  [] op = "GETVARG" /\ fs.vatab -> [i EXCEPT !.op = "GETTABLE"]
                  [] op = "VARARG" /\ fs.vatab  -> [i EXCEPT !.k = TRUE]
                  [] op = "JMP" -> [i EXCEPT !.b = finaltarget(fs.code, @, 0)]
                  [] OTHER -> i
    IN  [lua_assert(fs, \A i \in 2..Len(fs.code) : isOT(fs.code[i - 1]) <=> isIT(fs.code[i]))
            EXCEPT !.vahid = hid, !.code = Rewritten(fs.code, finish)]
=============================================================================
