----------------------------- MODULE LuaParser -----------------------------
(***************************************************************************)
(* The parser of Lua (lparser.c): one operator per rule of the grammar,    *)
(* from the state of the compilation (see LuaCode) to the next, over the   *)
(* syntax tree of a chunk instead of its tokens.  More fields of a state:  *)
(*   actvar   variables of the function: [name, kind, ridx, val]           *)
(*   upvals   its upvalues: [name, instack, idx, kind]                     *)
(*   bl       its open blocks, innermost last: [isloop, nactvar,           *)
(*            firstlabel, firstgoto, upval, insidetbc]                     *)
(*   gt, label  pending gotos and active labels: [name, pc, nactvar, close]*)
(*   lh       targets of the assignment at work                            *)
(*   p        prototypes inside      prev   <<>> or <<enclosing state>>    *)
(* Expressions are records with an op among const, name, dots, function,   *)
(* call, method, index, paren, un, bin and table; a function is [params,   *)
(* vararg ("" | "..." | name), body]; a block is a sequence of statements. *)
(* A constructor stores at most MaxToStore pending items with one SETLIST. *)
(***************************************************************************)
EXTENDS LuaCode, SequencesExt

CONSTANT MaxToStore
ASSUME MaxToStoreAssumption == MaxToStore \in Nat \ {0}

Fail(fs, m) == [fs EXCEPT !.err = IF @ = "" THEN m ELSE @]
hasmultret(e) == e.k \in {"VCALL", "VVARARG"}
vkisindexed(e) == e.k \in {"VINDEXED", "VVARGIND", "VINDEXUP", "VINDEXI", "VINDEXSTR"}
varglobal(v) == v.kind \in {"GDKREG", "GDKCONST"}
Void == E("VVOID", 0, 0)
block1(fs) == fs.bl[Len(fs.bl)]

-----------------------------------------------------------------------------
(* Variables *)

new_varkind(fs, name, kind) ==
    [fs EXCEPT !.actvar = Append(@, [name |-> name, kind |-> kind, ridx |-> 0, val |-> Nil])]

\* the next n declared variables get registers and enter their scope
adjustlocalvars(fs, n) ==
    LET level == luaY_nvarstack(fs)
        scope == (fs.nactvar + 1)..(fs.nactvar + n)
    IN  [fs EXCEPT !.nactvar = @ + n,
                   !.actvar = Rewritten(fs.actvar, LAMBDA i : IF i \notin scope THEN fs.actvar[i]
                       ELSE [fs.actvar[i] EXCEPT !.ridx = level + i - fs.nactvar - 1])]
removevars(fs, tolevel) ==
    [fs EXCEPT !.actvar = SubSeq(@, 1, Len(@) - (fs.nactvar - tolevel)), !.nactvar = tolevel]

newupvalue(fs, name, v) ==
    LET prev == fs.prev[1]
        kind == IF v.k = "VLOCAL" THEN prev.actvar[v.x].kind ELSE prev.upvals[v.i].kind
    IN  [fs EXCEPT !.upvals = Append(@, [name |-> name, instack |-> v.k = "VLOCAL", idx |-> v.i, kind |-> kind])]

\* The innermost variable with a name.  Without one, e.x tells what a global
\* name means here: "default" while there is no global declaration, then
\* "undeclared", or the kind of the innermost collective declaration.
searchvar(fs, n) ==
    LET active == {i \in 1..fs.nactvar : fs.actvar[i].name = n}
        vd     == fs.actvar[Max(active)]
        Globals(star) == {i \in 1..fs.nactvar : varglobal(fs.actvar[i]) /\ (fs.actvar[i].name = "*") = star}
    IN  CASE active # {} /\ varglobal(vd) -> E("VGLOBAL", 0, vd.kind)
          [] active # {} /\ vd.kind = "RDKCTC" -> E("VCONST", 0, vd.val)
          [] active # {} /\ vd.kind = "RDKVAVAR" -> E("VVARGVAR", vd.ridx, Max(active))
          [] active # {} /\ vd.kind \in {"VDKREG", "RDKCONST", "RDKTOCLOSE"} -> E("VLOCAL", vd.ridx, Max(active))
          [] active = {} /\ fs.e.x \in {"default", "undeclared"} /\ Globals(TRUE) # {} ->
                 E("VVOID", 0, fs.actvar[Max(Globals(TRUE))].kind)
          [] active = {} /\ fs.e.x = "default" /\ Globals(TRUE) = {} /\ Globals(FALSE) # {} -> E("VVOID", 0, "undeclared")
          [] OTHER -> E("VVOID", 0, fs.e.x)

\* a captured variable marks its block only
markupval_block(fs, vidx) ==
    [fs EXCEPT !.bl[Max({i \in DOMAIN fs.bl : fs.bl[i].nactvar < vidx})].upval = TRUE]
\* the block that declares a variable must close it, and so must the function
markupval(fs, vidx) ==
    LET b == Max({i \in DOMAIN fs.bl : fs.bl[i].nactvar < vidx})
    IN  [fs EXCEPT !.bl[b].upval = TRUE, !.needclose = TRUE]
marktobeclosed(fs) ==
    [fs EXCEPT !.bl[Len(fs.bl)] = [@ EXCEPT !.upval = TRUE, !.insidetbc = TRUE], !.needclose = TRUE]

RECURSIVE singlevaraux(_, _, _)
singlevaraux(fs, n, base) ==
    LET v   == searchvar(fs, n)
        old == {i \in DOMAIN fs.upvals : fs.upvals[i].name = n}
        up  == singlevaraux(With(fs.prev[1], v), n, FALSE)
        g   == With([fs EXCEPT !.prev = <<up>>], up.e)
        loc == IF v.k = "VVARGVAR" THEN luaK_vapar2local(With(fs, v)) ELSE With(fs, v)
    IN  CASE v.k # "VVOID" /\ base -> With(fs, v)
          [] v.k # "VVOID" /\ ~base -> IF loc.e.k = "VLOCAL" THEN markupval(loc, v.x) ELSE loc
          [] v.k = "VVOID" /\ old # {} -> With(fs, E("VUPVAL", Max(old), 0))
          [] v.k = "VVOID" /\ old = {} /\ fs.prev = <<>> -> With(fs, E("VGLOBAL", 0, v.x))
          [] OTHER -> IF g.e.k \in {"VLOCAL", "VUPVAL"}
                      THEN With(newupvalue(g, n, g.e), E("VUPVAL", Len(g.upvals) + 1, 0)) ELSE g

lookup(fs, n) == singlevaraux(With(fs, E("VVOID", 0, "default")), n, TRUE)
buildglobal(fs, n) ==
    LET env == lookup(fs, "_ENV")
        g   == luaK_exp2anyregup(env)
    IN  IF env.e.k = "VGLOBAL" THEN Fail(env, "env") ELSE luaK_indexed(With(g, E("VKSTR", 0, Str(n))), g.e)
buildvar(fs, n) ==
    LET v == lookup(fs, n)
    IN  CASE v.e.k = "VGLOBAL" /\ v.e.x = "undeclared" -> Fail(v, "undeclared")
          [] v.e.k = "VGLOBAL" /\ v.e.x # "undeclared" ->
                 [buildglobal(v, n) EXCEPT !.e.ro = (v.e.x = "GDKCONST")]
          [] OTHER -> v

\* an assignment to a constant is an error; one to an element of the vararg
\* parameter needs its table
check_readonly(fs) ==
    LET e  == fs.e
        ro == CASE e.k = "VCONST" -> TRUE
                [] e.k \in {"VLOCAL", "VVARGVAR"} -> fs.actvar[e.x].kind # "VDKREG"
                [] e.k = "VUPVAL" -> fs.upvals[e.i].kind # "VDKREG"
                [] OTHER -> e.ro
        g  == IF e.k = "VVARGIND" THEN [fs EXCEPT !.vatab = TRUE, !.e.k = "VINDEXED"] ELSE fs
    IN  IF ro THEN Fail(g, "const") ELSE g

\* an assignment that forgets the registers of the missing values
adjust_assign_unreserved(fs, nvars, nexps) ==
    LET needed == nvars - nexps
        g == IF fs.e.k = "VVOID" THEN fs ELSE luaK_exp2nextreg(fs)
        s == CASE hasmultret(fs.e) -> luaK_setreturns(fs, Max({0, needed + 1}))
               [] ~hasmultret(fs.e) /\ needed > 0 -> luaK_nil(g, g.free, needed)
               [] OTHER -> g
    IN  [s EXCEPT !.free = @ + needed]
\* nexps expressions, the last of them at work, give values to nvars variables
adjust_assign(fs, nvars, nexps) ==
    LET needed == nvars - nexps
        c == [fs EXCEPT !.maxstack = Max({@, fs.free + needed})]
        g == IF fs.e.k = "VVOID" THEN c ELSE luaK_exp2nextreg(c)
        s == CASE hasmultret(fs.e) -> luaK_setreturns(c, Max({0, needed + 1}))
               [] ~hasmultret(fs.e) /\ needed > 0 -> luaK_nil(g, g.free, needed)
               [] OTHER -> g
    IN  [s EXCEPT !.free = @ + needed, !.maxstack = Max({@, s.free + needed})]

-----------------------------------------------------------------------------
(* Blocks, labels and gotos *)

newlabelentry(fs, name, pc) == [name |-> name, pc |-> pc, nactvar |-> fs.nactvar, close |-> FALSE]
\* a jump and the room for a CLOSE before it
newgotoentry(fs, name) ==
    LET j == luaK_jump(fs)
    IN  luaK_codeABC([j EXCEPT !.gt = Append(@, newlabelentry(j, name, Len(j.code)))], "CLOSE", 0, 1, 0)
\* a label that is never taken as the end of its block
createlabel_never_last(fs, name, last) ==
    LET g == luaK_getlabel(fs) IN [g EXCEPT !.label = Append(@, newlabelentry(g, name, Len(g.code) + 1))]
createlabel(fs, name, last) ==
    LET g == luaK_getlabel(fs)
        l == newlabelentry(g, name, Len(g.code) + 1)
    IN  [g EXCEPT !.label = Append(@, IF last THEN [l EXCEPT !.nactvar = block1(fs).nactvar] ELSE l)]
findlabel(fs, name, first) ==
    LET found == {i \in DOMAIN fs.label : i > first /\ fs.label[i].name = name}
    IN  IF found = {} THEN 0 ELSE Min(found)

\* the g-th pending goto jumps to a label
closegoto(fs, g, label, bup) ==
    LET gt    == fs.gt[g]
        close == gt.close \/ (label.nactvar < gt.nactvar /\ bup)
        inst  == [op |-> "CLOSE", a |-> reglevel(fs, label.nactvar), b |-> 0, c |-> 0, k |-> FALSE]
        moved == [fs EXCEPT !.code[gt.pc + 1] = fs.code[gt.pc], !.code[gt.pc] = inst]
        jump  == IF close THEN luaK_patchlist(moved, gt.pc + 1, label.pc)
                 ELSE luaK_patchlist(fs, gt.pc, label.pc)
    IN  IF gt.nactvar < label.nactvar THEN Fail(fs, "jumps into the scope")
        ELSE [jump EXCEPT !.gt = RemoveAt(@, g)]

\* the gotos of the block that ends, from number igt on, find their label in it
\* or move to the enclosing block
RECURSIVE solvegotos(_, _)
solvegotos(fs, igt) ==
    LET bl == block1(fs)
        gt == fs.gt[igt]
        lb == findlabel(fs, gt.name, bl.firstlabel)
        escapes == bl.upval /\ reglevel(fs, gt.nactvar) > reglevel(fs, bl.nactvar)
    IN  CASE fs.err # "" \/ igt > Len(fs.gt) -> [fs EXCEPT !.label = SubSeq(@, 1, bl.firstlabel)]
          [] fs.err = "" /\ igt <= Len(fs.gt) /\ lb # 0 -> solvegotos(closegoto(fs, igt, fs.label[lb], bl.upval), igt)
          [] OTHER -> solvegotos([fs EXCEPT !.gt[igt] = [@ EXCEPT !.close = @ \/ escapes, !.nactvar = bl.nactvar]], igt + 1)

enterblock(fs, isloop) ==
    [lua_assert(fs, fs.free = luaY_nvarstack(fs)) EXCEPT !.bl = Append(@,
        [isloop |-> isloop, nactvar |-> fs.nactvar, firstlabel |-> Len(fs.label), firstgoto |-> Len(fs.gt),
         upval |-> FALSE, insidetbc |-> fs.bl # <<>> /\ block1(fs).insidetbc])]
leaveblock(fs) ==
    LET bl     == block1(fs)
        level  == reglevel(fs, bl.nactvar)
        closed == IF Len(fs.bl) > 1 /\ bl.upval THEN luaK_codeABC(fs, "CLOSE", level, 0, 0) ELSE fs
        gone   == [removevars(closed, bl.nactvar) EXCEPT !.free = level]
        broken == IF bl.isloop = 2 THEN createlabel(gone, "break", FALSE) ELSE gone
        \* the level of a pending goto counts variables that are gone by now
        solved == solvegotos([broken EXCEPT !.actvar = fs.actvar], bl.firstgoto + 1)
        left   == [solved EXCEPT !.actvar = gone.actvar, !.bl = SubSeq(@, 1, Len(@) - 1)]
    IN  IF Len(fs.bl) = 1 /\ Len(left.gt) > bl.firstgoto THEN Fail(left, "no visible label") ELSE left

-----------------------------------------------------------------------------
(* Functions *)

open_func(prev) ==
    enterblock([code |-> <<>>, free |-> 0, maxstack |-> 2, lasttarget |-> 0, e |-> Void, actvar |-> <<>>,
                nactvar |-> 0, needclose |-> FALSE, vararg |-> FALSE, vahid |-> FALSE, vatab |-> FALSE,
                numparams |-> 0, upvals |-> <<>>, bl |-> <<>>, gt |-> <<>>, label |-> <<>>, lh |-> <<>>,
                p |-> <<>>, prev |-> prev, ok |-> TRUE, err |-> ""], 0)
close_func(fs) ==
    LET g == leaveblock(luaK_ret(fs, luaY_nvarstack(fs), 0)) IN IF g.err = "" THEN luaK_finish(g) ELSE g
setvararg(fs) == luaK_codeABC([fs EXCEPT !.vahid = TRUE, !.vararg = TRUE], "VARARGPREP", 0, 0, 0)
parlist(fs, f) ==
    LET named == FoldLeft(LAMBDA g, n : new_varkind(g, n, "VDKREG"), fs, f.params)
        dots  == new_varkind(named, IF f.vararg = "..." THEN "(vararg table)" ELSE f.vararg,
                             IF f.vararg = "..." THEN "VDKREG" ELSE "RDKVAVAR")
        Fixed(g) == LET a == adjustlocalvars(g, Len(f.params)) IN [a EXCEPT !.numparams = a.nactvar]
        all   == IF f.vararg = "" THEN Fixed(named) ELSE adjustlocalvars(setvararg(Fixed(dots)), 1)
    IN  luaK_reserveregs(all, all.nactvar)

RECURSIVE statlist(_, _, _, _)
\* the code of a function, and the closure in the next register of the enclosing one
body(fs, f, ismethod) ==
    LET new   == open_func(<<fs>>)
        self  == IF ismethod THEN adjustlocalvars(new_varkind(new, "self", "VDKREG"), 1) ELSE new
        in    == close_func(statlist(parlist(self, f), f.body, 1, FALSE))
        proto == [code |-> in.code, p |-> in.p, upvals |-> in.upvals, numparams |-> in.numparams,
                  vahid |-> in.vahid, vatab |-> in.vatab, maxstack |-> in.maxstack]
        out   == [in.prev[1] EXCEPT !.p = Append(@, proto), !.ok = @ /\ in.ok,
                                    !.err = IF @ = "" THEN in.err ELSE @]
    IN  luaK_exp2nextreg(Relocatable(luaK_codeABC(With(out, Void), "CLOSURE", 0, Len(out.p), 0)))

-----------------------------------------------------------------------------
(* Expressions *)

RECURSIVE expr(_, _), suffixedexp(_, _), fields(_, _, _, _, _)

explist(fs, es) ==
    FoldLeftDomain(LAMBDA g, i : expr(IF i = 1 THEN g ELSE luaK_exp2nextreg(g), es[i]), With(fs, Void), es)

funcargs(fs, args) ==
    LET base == fs.e.i
        a == explist(fs, args)
        m == hasmultret(a.e)
        g == CASE m -> luaK_setreturns(a, -1)
               [] a.e.k = "VVOID" -> a
               [] OTHER -> luaK_exp2nextreg(a)
        c == luaK_codeABC(lua_assert(g, fs.e.k = "VNONRELOC"), "CALL", base, IF m THEN 0 ELSE g.free - base, 2)
    IN  [With(c, E("VCALL", Len(c.code), 0)) EXCEPT !.free = base + 1]

suffixedexp(fs, x) ==
    CASE x.op = "name"  -> buildvar(fs, x.n)
      [] x.op = "paren" -> luaK_dischargevars(expr(fs, x.x))
      [] x.op = "index" -> LET t == luaK_exp2anyregup(suffixedexp(fs, x.obj))
                           IN  luaK_indexed(luaK_exp2val(expr(t, x.key)), t.e)
      [] x.op = "method" -> funcargs(luaK_self(suffixedexp(fs, x.obj), Str(x.n)), x.args)
      [] x.op = "call"   -> funcargs(luaK_exp2nextreg(suffixedexp(fs, x.fn)), x.args)

\* the fields of a constructor from the i-th on; the last list item is at work,
\* na items are stored and tostore are pending
fields(fs, x, t, i, cc) ==
    LET pend  == luaK_exp2nextreg(fs)
        full  == cc.tostore >= MaxToStore
        next  == IF fs.e.k = "VVOID" THEN fs
                 ELSE With(IF full THEN luaK_setlist(pend, t.i, cc.na, cc.tostore) ELSE pend, Void)
        nextc == IF fs.e.k # "VVOID" /\ full THEN [na |-> cc.na + cc.tostore, tostore |-> 0] ELSE cc
        fl    == x.fields[i]
        key   == luaK_indexed(luaK_exp2val(expr(next, fl.key)), t)
        rec   == luaK_storevar(expr(key, fl.val), key.e)
    IN  CASE i > Len(x.fields) /\ cc.tostore = 0 -> With(fs, t)
          [] i > Len(x.fields) /\ cc.tostore # 0 ->
                 With(CASE hasmultret(fs.e) -> luaK_setlist(luaK_setreturns(fs, -1), t.i, cc.na, -1)
                        [] fs.e.k = "VVOID" -> luaK_setlist(fs, t.i, cc.na, cc.tostore)
                        [] OTHER -> luaK_setlist(pend, t.i, cc.na, cc.tostore), t)
          [] i <= Len(x.fields) /\ fl.op = "item" ->
                 fields(expr(next, fl.val), x, t, i + 1, [nextc EXCEPT !.tostore = @ + 1])
          [] i <= Len(x.fields) /\ fl.op = "rec" ->
                 fields(With([rec EXCEPT !.free = next.free], Void), x, t, i + 1, nextc)
constructor(fs, x) ==
    LET g == luaK_codeABC(fs, "NEWTABLE", fs.free, 0, 0)
    IN  fields(With(luaK_reserveregs(g, 1), Void), x, E("VNONRELOC", fs.free, 0), 1, [na |-> 0, tostore |-> 0])

simpleexp(fs, x) ==
    LET v == x.v IN
    CASE x.op = "const" -> const2exp(With(fs, E("VCONST", 0, v)))
      [] x.op = "dots"  -> LET g == luaK_codeABC(fs, "VARARG", 0, fs.numparams, 1)
                           IN  IF fs.vararg THEN With(g, E("VVARARG", Len(g.code), 0)) ELSE Fail(fs, "dots")
      [] x.op = "table" -> constructor(fs, x)
      [] x.op = "function" -> body(fs, x.f, FALSE)
      [] OTHER -> suffixedexp(fs, x)

\* the tree says which operator binds stronger: see subexpr's table of priorities
expr(fs, x) ==
    CASE x.op = "un"  -> luaK_prefix(expr(fs, x.x), x.o)
      [] x.op = "bin" -> LET l == luaK_infix(expr(fs, x.x), x.o) IN luaK_posfix(expr(l, x.y), x.o, l.e)
      [] OTHER -> simpleexp(fs, x)

-----------------------------------------------------------------------------
(* Assignments and declarations *)

\* an assignment that does not look at the targets before
conflict_ignored(fs) == fs
\* A target seen before uses the variable assigned now as its table or key: it
\* shall use a copy, in the next register.
check_conflict(fs) ==
    LET v == fs.e
        TableUp(lh)  == lh.k = "VINDEXUP" /\ v.k = "VUPVAL" /\ lh.i = v.i
        TableLoc(lh) == lh.k # "VINDEXUP" /\ vkisindexed(lh) /\ v.k = "VLOCAL" /\ lh.i = v.i
        Key(lh)      == lh.k = "VINDEXED" /\ v.k = "VLOCAL" /\ lh.x = v.i
        conflict == \E i \in DOMAIN fs.lh : TableUp(fs.lh[i]) \/ TableLoc(fs.lh[i]) \/ Key(fs.lh[i])
        safe(i) == LET lh == fs.lh[i] IN
                   [lh EXCEPT !.k = IF TableUp(lh) THEN "VINDEXSTR" ELSE @,
                               !.i = IF TableUp(lh) \/ TableLoc(lh) THEN fs.free ELSE @,
                               !.x = IF Key(lh) THEN fs.free ELSE @]
    IN  IF ~conflict \/ vkisindexed(v) THEN fs
        ELSE luaK_reserveregs(luaK_codeABC([fs EXCEPT !.lh = Rewritten(fs.lh, safe)],
                                  IF v.k = "VLOCAL" THEN "MOVE" ELSE "GETUPVAL", fs.free, v.i, 0), 1)

storevartop(fs, var) == luaK_storevar(With(fs, E("VNONRELOC", fs.free - 1, 0)), var)
restassign(fs, s) ==
    LET nvars == Len(s.lhs)
        Target(g, x) == LET t == check_readonly(check_conflict(suffixedexp(g, x)))
                        IN  [t EXCEPT !.lh = Append(@, t.e)]
        lhs == FoldLeft(Target, [fs EXCEPT !.lh = <<>>], s.lhs)
        es  == explist(lhs, s.exps)
        StoreDown(g, n) == FoldLeft(LAMBDA h, v : storevartop(h, v), g, Reverse(SubSeq(g.lh, 1, n)))
    IN  CASE lhs.err # "" -> lhs
          [] lhs.err = "" /\ Len(s.exps) # nvars -> StoreDown(adjust_assign(es, nvars, Len(s.exps)), nvars)
          [] OTHER -> LET last == luaK_storevar(IF hasmultret(es.e) THEN luaK_setoneret(es) ELSE es, es.lh[nvars])
                      IN  StoreDown(last, nvars - 1)

checktoclose(fs, level) == luaK_codeABC(marktobeclosed(fs), "TBC", reglevel(fs, level), 0, 0)
LocalKind(attr) == CASE attr = "" -> "VDKREG" [] attr = "const" -> "RDKCONST" [] attr = "close" -> "RDKTOCLOSE"
localstat(fs, s) ==
    LET n     == Len(s.names)
        tbc   == {i \in 1..n : s.attribs[i] = "close"}
        decl  == FoldLeftDomain(LAMBDA g, i : new_varkind(g, s.names[i], LocalKind(s.attribs[i])), fs, s.names)
        es    == explist(decl, s.exps)
        \* a last variable that is a constant known now needs no register
        ctc   == n = Len(s.exps) /\ s.attribs[n] = "const" /\ luaK_exp2const(es.e)
        known == [adjustlocalvars(es, n - 1) EXCEPT !.nactvar = @ + 1,
                     !.actvar[Len(es.actvar)].kind = "RDKCTC", !.actvar[Len(es.actvar)].val = ConstOf(es.e)]
        done  == IF ctc THEN known ELSE adjustlocalvars(adjust_assign(es, n, Len(s.exps)), n)
    IN  CASE Cardinality(tbc) > 1 -> Fail(fs, "multiple to-be-closed")
          [] Cardinality(tbc) = 1 -> checktoclose(done, fs.nactvar + Min(tbc) - 1)
          [] OTHER -> done
localfunc(fs, s) == body(adjustlocalvars(new_varkind(fs, s.n, "VDKREG"), 1), s.f, FALSE)

checkglobal(fs, n) == luaK_codecheckglobal(buildglobal(fs, n))
\* the descriptions of all globals are built before the values, and used after
RECURSIVE initglobal(_, _, _)
initglobal(fs, s, n) ==
    IF n > Len(s.names) THEN adjust_assign(explist(fs, s.exps), Len(s.names), Len(s.exps))
    ELSE LET var == buildglobal(fs, s.names[n])
         IN  storevartop(checkglobal(initglobal(var, s, n + 1), s.names[n]), var.e)
globalstat(fs, s) ==
    LET decl == FoldLeft(LAMBDA g, n : new_varkind(g, n, s.kind), fs, s.names)
        init == IF s.exps = <<>> THEN decl ELSE initglobal(decl, s, 1)
    IN  [init EXCEPT !.nactvar = @ + Len(s.names)]
globalfunc(fs, s) ==
    LET var == buildglobal([new_varkind(fs, s.n, "GDKREG") EXCEPT !.nactvar = @ + 1], s.n)
        b   == body(var, s.f, FALSE)
    IN  luaK_storevar(With(checkglobal(b, s.n), b.e), var.e)
funcstat(fs, s) ==
    LET var == check_readonly(suffixedexp(fs, s.target))
    IN  IF var.err # "" THEN var ELSE luaK_storevar(body(var, s.f, s.ismethod), var.e)
exprstat(fs, s) == LET g == suffixedexp(fs, s.x) IN [lua_assert(g, g.e.k = "VCALL") EXCEPT !.code[g.e.i].c = 1]

-----------------------------------------------------------------------------
(* Control structures *)

block(fs, b) == leaveblock(statlist(enterblock(fs, 0), b, 1, FALSE))
\* goes through when the condition is true; the jumps for false are left in e.f
cond(fs, x) ==
    LET v == expr(fs, x) IN luaK_goiftrue(IF v.e.k = "VNIL" THEN [v EXCEPT !.e.k = "VFALSE"] ELSE v)
luaK_jumpto(fs, t) == LET j == luaK_jump(fs) IN luaK_patchlist(j, Len(j.code), t)

whilestat(fs, s) ==
    LET init == luaK_getlabel(fs)
        c    == cond(init, s.c)
        b    == block(enterblock(c, 1), s.b)
    IN  luaK_patchtohere(leaveblock(luaK_jumpto(b, init.lasttarget)), c.e.f)
repeatstat(fs, s) ==
    LET init == luaK_getlabel(fs)
        c    == cond(statlist(enterblock(enterblock(init, 1), 0), s.b, 1, TRUE), s.c)
        done == leaveblock(c)
        exit == luaK_jump(done)
        fix  == luaK_jump(luaK_codeABC(luaK_patchtohere(exit, c.e.f), "CLOSE", reglevel(exit, block1(c).nactvar), 0, 0))
        g    == IF block1(c).upval THEN luaK_patchtohere(fix, Len(exit.code)) ELSE done
    IN  leaveblock(luaK_patchlist(g, IF block1(c).upval THEN Len(fix.code) ELSE c.e.f, init.lasttarget))

exp1(fs, x) == luaK_exp2nextreg(expr(fs, x))
forbody(fs, base, nvars, isgen, b) ==
    LET prep  == luaK_codeABC(fs, IF isgen THEN "TFORPREP" ELSE "FORPREP", base, 0, 0)
        in    == luaK_reserveregs(adjustlocalvars(enterblock([prep EXCEPT !.free = @ - 1], 0), nvars), nvars)
        out   == luaK_getlabel(leaveblock(block(in, b)))
        jump  == [out EXCEPT !.code[Len(prep.code)].b = out.lasttarget]
        call  == IF isgen THEN luaK_codeABC(jump, "TFORCALL", base, 0, nvars) ELSE jump
    IN  luaK_codeABC(call, IF isgen THEN "TFORLOOP" ELSE "FORLOOP", base, Len(prep.code) + 1, 0)
States(fs, n) == FoldLeft(LAMBDA g, i : new_varkind(g, "(for state)", "VDKREG"), fs, [i \in 1..n |-> i])
fornum(fs, s) ==
    LET decl == new_varkind(States(fs, 2), s.n, "RDKCONST")
        lim  == exp1(exp1(decl, s.exps[1]), s.exps[2])
        step == IF Len(s.exps) = 3 THEN exp1(lim, s.exps[3])
                ELSE luaK_reserveregs(luaK_codeABC(lim, "LOADI", lim.free, Num(1), 0), 1)
    IN  forbody(adjustlocalvars(step, 2), fs.free, 1, FALSE, s.b)
forlist(fs, s) ==
    LET decl == new_varkind(States(fs, 3), s.names[1], "RDKCONST")
        all  == FoldLeft(LAMBDA g, n : new_varkind(g, n, "VDKREG"), decl, Tail(s.names))
        es   == adjust_assign(explist(all, s.exps), 4, Len(s.exps))
        tbc  == marktobeclosed(adjustlocalvars(es, 3))
    IN  forbody([tbc EXCEPT !.maxstack = Max({@, tbc.free + 2})], fs.free, Len(s.names), TRUE, s.b)
forstat(fs, s) ==
    leaveblock(IF s.op = "fornum" THEN fornum(enterblock(fs, 1), s) ELSE forlist(enterblock(fs, 1), s))

\* the parts of an if statement from the i-th on; esc lists the jumps to its end
RECURSIVE test_then_block(_, _, _, _)
test_then_block(fs, s, i, esc) ==
    LET c    == cond(fs, s.tests[i].c)
        b    == block(c, s.tests[i].b)
        more == i < Len(s.tests) \/ s.els # <<>>
        j    == luaK_jump(b)
        g    == luaK_patchtohere(IF more THEN Link(j, esc, Len(j.code)) ELSE b, c.e.f)
        all  == IF more THEN Head1(esc, Len(j.code)) ELSE esc
    IN  CASE i < Len(s.tests) -> test_then_block(g, s, i + 1, all)
          [] i = Len(s.tests) /\ s.els # <<>> -> luaK_patchtohere(block(g, s.els[1]), all)
          [] OTHER -> luaK_patchtohere(g, all)
ifstat(fs, s) == test_then_block(fs, s, 1, NO_JUMP)

breakstat(fs) ==
    LET loops == {i \in DOMAIN fs.bl : fs.bl[i].isloop # 0}
    IN  IF loops = {} THEN Fail(fs, "break outside loop")
        ELSE newgotoentry([fs EXCEPT !.bl[Max(loops)].isloop = 2], "break")
\* last tells that only labels follow in a block that ends its scope here
labelstat(fs, name, last) ==
    IF findlabel(fs, name, 0) # 0 THEN Fail(fs, "label already defined") ELSE createlabel(fs, name, last)

retstat(fs, s) ==
    LET first == luaY_nvarstack(fs)
        es    == explist(fs, s.exps)
        m     == luaK_setreturns(es, -1)
        tail  == es.e.k = "VCALL" /\ Len(s.exps) = 1 /\ ~block1(fs).insidetbc
        one   == luaK_exp2anyreg(es)
        all   == luaK_exp2nextreg(es)
    IN  CASE s.exps = <<>> -> luaK_ret(fs, first, 0)
          [] s.exps # <<>> /\ hasmultret(es.e) ->
                 luaK_ret(IF tail THEN [lua_assert(m, m.code[m.e.i].a = first) EXCEPT !.code[m.e.i].op = "TAILCALL"]
                          ELSE m, first, -1)
          [] Len(s.exps) = 1 /\ ~hasmultret(es.e) -> luaK_ret(one, one.e.i, 1)
          [] OTHER -> luaK_ret(lua_assert(all, Len(s.exps) = all.free - first), first, Len(s.exps))

statement(fs, s, last) ==
    LET g == CASE s.op = "if"         -> ifstat(fs, s)
               [] s.op = "while"      -> whilestat(fs, s)
               [] s.op = "do"         -> block(fs, s.b)
               [] s.op \in {"fornum", "forlist"} -> forstat(fs, s)
               [] s.op = "repeat"     -> repeatstat(fs, s)
               [] s.op = "function"   -> funcstat(fs, s)
               [] s.op = "localfunc"  -> localfunc(fs, s)
               [] s.op = "local"      -> localstat(fs, s)
               [] s.op = "global"     -> globalstat(fs, s)
               [] s.op = "globalfunc" -> globalfunc(fs, s)
               [] s.op = "label"      -> labelstat(fs, s.n, last)
               [] s.op = "return"     -> retstat(fs, s)
               [] s.op = "break"      -> breakstat(fs)
               [] s.op = "goto"       -> newgotoentry(fs, s.n)
               [] s.op = "assign"     -> restassign(fs, s)
               [] s.op = "call"       -> exprstat(fs, s)
    IN  [lua_assert(g, g.maxstack >= g.free /\ g.free >= luaY_nvarstack(g)) EXCEPT !.free = luaY_nvarstack(g)]
statlist(fs, b, i, until) ==
    IF i > Len(b) \/ fs.err # "" THEN fs
    ELSE statlist(statement(fs, b[i], ~until /\ \A j \in i..Len(b) : b[j].op = "label"), b, i + 1, until)

\* the main function: vararg, with the environment as its only upvalue
mainfunc(chunk) ==
    LET env == [name |-> "_ENV", instack |-> TRUE, idx |-> 0, kind |-> "VDKREG"]
        fs  == close_func(statlist([setvararg(open_func(<<>>)) EXCEPT !.upvals = <<env>>], chunk, 1, FALSE))
    IN  lua_assert(fs, fs.err = "" => fs.actvar = <<>> /\ fs.gt = <<>> /\ fs.label = <<>> /\ Len(fs.upvals) = 1)
=============================================================================
