------------------------------ MODULE LuaCalls ------------------------------
(* Calls, protected calls, errors, to-be-closed variables and coroutines of *)
(* ldo.c, lfunc.c, lstate.c, lapi.c and lcorolib.c. The state has both of   *)
(* the stacks of the interpreter: the call infos and values of each Lua     *)
(* thread, and the one C stack, whose records are the C functions that wait *)
(* for a call. An error or a yield cuts the C stack at the innermost        *)
(* luaD_rawrunprotected of its thread; what was cut off must be finished    *)
(* from the call infos alone.                                               *)
(* Lua functions do anything a program may do: their steps are chosen       *)
(* freely, up to the bounds in Programs and MaxVars.                        *)
EXTENDS Integers, Sequences, FiniteSets, SequencesExt

CONSTANTS main,            \* the main thread
          Coroutines,      \* coroutines, each created with a Lua function
          MaxVars,         \* to-be-closed variables in one function
          LUAI_MAXCCALLS,  \* limit of nested C calls
          ErrorCcalls,     \* the limit while an overflow is handled
          Programs,        \* kinds of programs: their coroutines, the operations these choose
                           \* from, how many of them (fuel), and those of the main thread
          SelfCloseFailed  \* whether a coroutine may close itself from a '__close'
                           \* that closing it after an error has called
Threads == {main} \cup Coroutines
ASSUME CallsAssumption == /\ main \notin Coroutines
                          /\ LUAI_MAXCCALLS \in Nat \ {0} /\ ErrorCcalls \in Nat
                          /\ LUAI_MAXCCALLS <= ErrorCcalls

VARIABLES th,       \* the Lua threads
          cstack,   \* the C stack
          ret,      \* what the C function that ended last returned, or "none"
          seen,     \* the values that the Lua code running now was given last
          items,    \* the activations of each thread, as LuaCoroutines has them
          program   \* the kind of program, and the fuel it has left
vars == <<th, cstack, ret, seen, items, program>>

CLOSEKTOP == "CLOSEKTOP"
Innermost(S) == IF S = {} THEN 0 ELSE CHOOSE k \in S : \A j \in S : j <= k
IsError(status) == status \in {"LUA_ERRRUN", "LUA_ERRERR"}
LuaFrame == "lua"

(* A call info. 'op' is the instruction that a Lua function waits for and   *)
(* 'block' its argument; 'u2' is the union of funcidx, nyield and nres.     *)
CallInfo(fn, func, nres, fresh) ==
  [fn |-> fn, func |-> func, nresults |-> nres, fresh |-> fresh, op |-> "run", block |-> 0, u2 |-> 0,
   tbc |-> FALSE, clsret |-> FALSE, ypcall |-> FALSE, recst |-> "LUA_OK", oldErrfunc |-> 0]

Top == Last(cstack)
L   == Top.th               \* the thread that runs
T   == th[L]
ci  == Last(T.ci)
Under == Front(cstack)
At(fn) == Top.fn = fn

isLua(c)     == c.fn = LuaFrame
Var(k)       == ci.func + 2 + k              \* register of the k-th variable
RA(c)        == c.func + 3 + MaxVars         \* first register for calls
CiTop(c)     == RA(c) + 3
Slot(X, i)   == IF i \in DOMAIN X.stack THEN X.stack[i] ELSE "nil"
OpenVars(X)  == Len(SelectSeq(X.tbclist, LAMBDA p : p > Last(X.ci).func))
yieldable(X) == X.nny = 0
gettop(X)    == X.top - (Last(X.ci).func + 1)
Peek(X)      == Slot(X, X.top - 1)
Values(X, n) == [i \in 1..n |-> Slot(X, X.top - n - 1 + i)]

(* 'vals' are stored from position 'i' on, with the top after them. *)
Written(stack, i, vals) == [j \in DOMAIN stack \cup i..i + Len(vals) - 1 |->
                              IF j < i \/ j >= i + Len(vals) THEN stack[j] ELSE vals[j - i + 1]]
Store(X, i, vals) == [X EXCEPT !.top = i + Len(vals), !.stack = Written(@, i, vals)]
Push(X, vals) == Store(X, X.top, vals)
SetCi(X, c)   == [X EXCEPT !.ci = Append(Front(@), c)]
SeterrorobjLate(X, oldtop) == Store([X EXCEPT !.top = oldtop + 1], oldtop, <<Slot(X, oldtop)>>)   \* mutant
luaD_seterrorobj(X, oldtop) == Store(X, oldtop, <<Peek(X)>>)

(* ---- the activations of a thread as LuaCoroutines has them: call infos,  *)
(* variables to be closed and errors being raised, in the order of their    *)
(* places on the stack. 'items' records them after each step. ---- *)
Records(t, fn) == {k \in DOMAIN cstack : cstack[k].fn = fn /\ cstack[k].th = t}
(* Records above the closing of a thread by itself, if it closes itself. *)
Marks(t, fn) == {k \in Records(t, fn) : \A j \in Records(t, "lua_closethread") : j <= k}
Above(t, pos) ==     \* the lowest position of an activation above 'pos'
  LET ps == {p \in {th[t].ci[i].func : i \in DOMAIN th[t].ci} \cup
                   {cstack[k].pos : k \in Marks(t, "luaG_errormsg")} : p > pos}
  IN IF ps = {} THEN th[t].top ELSE CHOOSE p \in ps : \A q \in ps : p <= q
ErrorOver(t, pos) == Slot(th[t], Above(t, pos) - 1)
Item(fn, op, err, arg) == [fn |-> fn, op |-> op, err |-> err, arg |-> arg, res |-> <<>>]

LuaItem(t, c) ==
  [Item("lua", c.op, "none", c.block) EXCEPT !.res =
     IF Above(t, c.func) < th[t].top \/ c # Last(th[t].ci) THEN <<>>
     ELSE CASE c.op = "call" -> <<Slot(th[t], RA(c)), Slot(th[t], RA(c) + 1)>>
            [] c.op = "meta" -> <<Peek(th[t])>>
            [] OTHER -> <<>>]

CItem(t, i) ==
  LET c == th[t].ci[i]
      arg == Slot(th[t], c.func + 1)
      failed == \/ c.recst # "LUA_OK"
                \/ \E k \in Marks(t, "luaD_closeprotected") :
                     cstack[k - 1].fn = "luaD_pcall" /\ cstack[k].oldci = i
      op == CASE failed -> "unwind"
              [] c.clsret -> "return"
              [] L = t /\ Top.fn = c.fn /\ ret = "none" /\ i = Len(th[t].ci) -> "start"
              [] OTHER -> "run"
  IN Item(IF i = 1 THEN "host" ELSE c.fn, op, IF failed THEN ErrorOver(t, c.func) ELSE "none",
          IF arg \in Threads /\ c.func + 1 < th[t].top /\
             c.fn \in {"luaB_coresume", "luaB_auxwrap", "luaB_close", "luaB_costatus"} THEN arg ELSE 0)

BaseItem(t) ==
  LET closes == Marks(t, "lua_closethread")
      status == cstack[Innermost(closes) + 1].status
      beginning == At("resume") /\ L = t /\ ret = "none"
      active == \E k \in DOMAIN cstack : cstack[k].th = t
      e == ErrorOver(t, 1)
  IN CASE closes # {} -> Item("base", "closing", IF IsError(status) THEN e ELSE "none", 0)
       [] IsError(th[t].status) -> Item("base", "dead", Peek(th[t]), 0)
       [] Len(th[t].ci) > 1 \/ (active /\ ~beginning) -> Item("base", "run", "none", 0)
       [] gettop(th[t]) = 0 -> Item("base", "done", "none", 0)
       [] OTHER -> Item("base", "start", "none", 0)

ErrorItem(k) ==
  IF k < Len(cstack) THEN Item("error", "handling", "none", 0)
  ELSE Item("error", IF ret = "none" THEN "start" ELSE "throw", Peek(T), 0)

Items(t) ==
  LET X == th[t]
      dropped == IsError(X.status)       \* a dead thread keeps its variables only
      frames == [i \in 1..(IF dropped THEN 1 ELSE Len(X.ci)) |->
                   <<2 * X.ci[i].func + 1, CASE i = 1 /\ t # main -> BaseItem(t)
                                             [] isLua(X.ci[i]) -> LuaItem(t, X.ci[i])
                                             [] OTHER -> CItem(t, i)>>]
      variables == [i \in DOMAIN X.tbclist |-> <<2 * X.tbclist[i], Item("var", "", "none", 0)>>]
      errors == [i \in DOMAIN cstack |-> IF i \in Marks(t, "luaG_errormsg")
                   THEN <<2 * cstack[i].pos, ErrorItem(i)>> ELSE <<0>>]
      order == SortSeq(frames \o variables \o SelectSeq(errors, LAMBDA e : e[1] > 0), LAMBDA a, b : a[1] < b[1])
  IN [i \in 1..Len(order) |-> order[i][2]]

View == [t \in Threads |-> Items(t)]
------------------------------------------------------------------------------
Goes(X, cs, r) == th' = [th EXCEPT ![L] = X] /\ cstack' = cs /\ ret' = r /\ items' = View'
Quiet == UNCHANGED <<seen, program>>

Bases == {"host", "lua_resume", "lua_closethread"}     \* where the count of non-yieldable calls begins
(* ---- records of the C stack: 'inc' and 'nny' are what the function added *)
(* to the count of C calls and to that of non-yieldable calls ---- *)
Rec(fn, t) == [fn |-> fn, th |-> t, inc |-> 0, nny |-> 0]
luaV_execute(t, inc, nny) == [fn |-> "luaV_execute", th |-> t, inc |-> inc, nny |-> nny]
errormsg(t, pos, inc, nny) == [fn |-> "luaG_errormsg", th |-> t, inc |-> inc, nny |-> nny, pos |-> pos]
resumed(t, from) == [fn |-> "lua_resume", th |-> t, inc |-> 1, nny |-> 0, from |-> from]
closethread(t, from) == [fn |-> "lua_closethread", th |-> t, inc |-> 0, nny |-> 0, from |-> from]
luaF_close(t, level, status, yy) ==
  [fn |-> "luaF_close", th |-> t, inc |-> 0, nny |-> 0, level |-> level, status |-> status, yy |-> yy]
closeprotected(t, level, status, oldci) ==
  [fn |-> "luaD_closeprotected", th |-> t, inc |-> 0, nny |-> 0, level |-> level, status |-> status, oldci |-> oldci]
pcall(t, oldci, oldtop, ef) ==
  [fn |-> "luaD_pcall", th |-> t, inc |-> 0, nny |-> 0, oldci |-> oldci, oldtop |-> oldtop, olderrfunc |-> ef]
poscall(t, n) == [fn |-> "luaD_poscall", th |-> t, inc |-> 0, nny |-> 0, n |-> n]
recovering(t, status) == [fn |-> "finishpcallk", th |-> t, inc |-> 0, nny |-> 0, status |-> status]

(* luaD_rawrunprotected called by 'cs': what it saves, and the new thread. *)
rawrun(cs, t, X) ==
  Append(cs, [fn |-> "luaD_rawrunprotected", th |-> t, inc |-> 0, nny |-> 0,
              nC |-> X.nC, oldnny |-> X.nny, previous |-> X.errorJmp])
Armed(cs, X) == [X EXCEPT !.errorJmp = Len(cs) + 1]

genmoveresults(X, res, nres, wanted) ==
  LET n == IF wanted = -1 THEN nres ELSE wanted
      vals == Values(X, nres) \o [i \in 1..n |-> "nil"]
  IN Store(X, res, SubSeq(vals, 1, n))

(* A function with 'nres' results on the top ends; a C function that has    *)
(* variables to close does that first, and may be interrupted by a yield.   *)
(* 'cs' is the C stack without the function.                                *)
Poscall(X, nres) ==
  LET c == Last(X.ci) IN
  [genmoveresults(X, c.func, nres, c.nresults) EXCEPT !.ci = Front(@)]
luaD_poscall(X, cs, nres) ==
  LET c == Last(X.ci) IN
  IF c.tbc THEN Goes(SetCi(X, [c EXCEPT !.u2 = nres, !.clsret = TRUE]),
                     cs \o <<poscall(L, nres), luaF_close(L, c.func, CLOSEKTOP, TRUE)>>, "none")
           ELSE Goes(Poscall(X, nres), cs, "done")
------------------------------------------------------------------------------
(* ---- errors ---- *)
Both(X, t, Y, cs, r) == /\ th' = [th EXCEPT ![L] = X, ![t] = Y]
                        /\ cstack' = cs /\ ret' = r /\ items' = View'

luaG_runerror(X, cs, msg, inc, nny) ==
  Goes(Push(X, <<msg>>), Append(cs, errormsg(L, X.top, inc, nny)), "none")

(* lua_closethread of 'X', by 'from': everything is dropped but the values  *)
(* that are to be closed.                                                   *)
resetCI(X, from) ==
  [X EXCEPT !.nC = th[from].nC, !.nny = 0, !.ci = SubSeq(@, 1, 1), !.status = "LUA_OK",
            !.errfunc = 0, !.stack[1] = "nil"]
lua_closethread(cs, t, X, from) ==
  cs \o <<closethread(t, from), closeprotected(t, 2, IF X.status = "LUA_YIELD" THEN "LUA_OK" ELSE X.status, 1)>>

(* lua_resume ends: luaB_coresume or luaB_auxwrap, on the top of 'cs', gets *)
(* what the coroutine yields or returns, or its error.                      *)
auxresume(X, cs, from, status) ==
  LET F == th[from]
      wrap == Last(cs).fn = "luaB_auxwrap"
      n == IF status = "LUA_YIELD" THEN Last(X.ci).u2 ELSE gettop(X)
      msg == Peek(X)
      dead == [luaD_seterrorobj(X, X.top) EXCEPT !.top = X.top, !.status = status]
      moved == Values(X, n)
  IN \/ IsError(status) /\ wrap /\
            Both(resetCI(dead, from), from, Push(F, <<msg>>), lua_closethread(cs, L, dead, from), "none")
     \/ IsError(status) /\ ~wrap /\
            Both(dead, from, Poscall(Push(F, <<"false", msg>>), 2), Front(cs), "done")
     \/ ~IsError(status) /\
            Both([X EXCEPT !.top = @ - n], from,
                 IF wrap THEN Poscall(Push(F, moved), n)
                         ELSE Poscall(Push(F, <<"true">> \o moved), n + 1), Front(cs), "done")

findpcall(X) == Innermost({i \in 1..Len(X.ci) : X.ci[i].ypcall})

(* lua_resume goes on with 'status': it recovers from an error inside of a  *)
(* protected call, or ends. 'cs' has its record on the top.                 *)
precover(X, cs, status) ==
  LET p == findpcall(X) IN
  IF IsError(status) /\ p > 0
  THEN LET Y == [X EXCEPT !.ci = Append(SubSeq(@, 1, p - 1), [@[p] EXCEPT !.recst = status])]
       IN Goes(Armed(cs, Y), Append(rawrun(cs, L, Y), Rec("unroll", L)), "none")
  ELSE auxresume(X, Front(cs), Last(cs).from, status)

(* What luaD_rawrunprotected restores when it ends, in whatever way. *)
RestoredNotCount(X, r) == [X EXCEPT !.errorJmp = r.previous]                        \* mutant
RestoredNotJump(X, r)  == [X EXCEPT !.nC = r.nC, !.nny = r.oldnny]                  \* mutant
Restored(X, r) == [X EXCEPT !.errorJmp = r.previous, !.nC = r.nC, !.nny = r.oldnny]

(* A long jump to the innermost luaD_rawrunprotected of the thread, and     *)
(* what the function that called it does first with the status.             *)
luaD_throw(X, cs, status) ==
  LET r == cs[X.errorJmp]
      below == SubSeq(cs, 1, X.errorJmp - 1)
      Y == Restored(X, r)
      caller == Last(below)
      cut(c) == [Y EXCEPT !.ci = SubSeq(@, 1, c.oldci)]
  IN \/ caller.fn = "luaD_pcall" /\
            Goes(cut(caller), Append(below, closeprotected(L, caller.oldtop, status, caller.oldci)), "none")
     \/ caller.fn = "luaD_closeprotected" /\ status # "LUA_OK" /\
            Goes(cut(caller), Append(Front(below), [caller EXCEPT !.status = status]), "none")
     \/ caller.fn = "luaD_closeprotected" /\ status = "LUA_OK" /\ Goes(Y, below, "LUA_OK")
     \/ caller.fn = "lua_resume" /\ precover(Y, below, status)

------------------------------------------------------------------------------
(* ---- calls ---- *)
NewFrame(X, fn, func, nres, fresh) == [X EXCEPT !.ci = Append(@, CallInfo(fn, func, nres, fresh))]

(* A Lua function is called with the arguments after 'func'. *)
luaD_precall(X, cs, func, nres, fresh) ==
  LET Y == Store(X, X.top, SubSeq(<<"nil", "nil">>, X.top - func, 2)) IN
  /\ Goes(NewFrame(Y, LuaFrame, func, nres, fresh), cs, "none")
  /\ seen' = <<Slot(Y, func + 1), Slot(Y, func + 2)>>

(* A Lua function is called by C code. *)
ccall(X, cs, func, nres, inc, nny) ==
  LET Y == [X EXCEPT !.nC = @ + inc, !.nny = @ + nny] IN
  \/ /\ Y.nC = LUAI_MAXCCALLS                             \* luaE_checkcstack
     /\ luaG_runerror(Y, cs, "C stack overflow", inc, nny) /\ UNCHANGED seen
  \/ /\ Y.nC # LUAI_MAXCCALLS /\ Y.nC >= ErrorCcalls
     /\ luaD_throw(Push(Y, <<"error in error handling">>), cs, "LUA_ERRERR") /\ UNCHANGED seen
  \/ /\ Y.nC # LUAI_MAXCCALLS /\ Y.nC < ErrorCcalls
     /\ luaD_precall(Y, Append(cs, luaV_execute(L, inc, nny)), func, nres, TRUE)

Running == At("luaV_execute") /\ ret = "none" /\ ci.op = "run"
Does(op) == Running /\ \/ L = main /\ op \in program.mainOps /\ UNCHANGED program
                       \/ /\ L # main /\ op \in program.ops /\ program.fuel > 0
                          /\ program' = [program EXCEPT !.fuel = @ - 1]
Waits(X, op) == SetCi(X, [Last(X.ci) EXCEPT !.op = op])
OperateLow(op) == Waits(T, op)                                                     \* mutant
Operate(op) == Waits([T EXCEPT !.top = CiTop(ci)], op)

OP_TBC == /\ Does("tbc") /\ OpenVars(T) < MaxVars
          /\ LET pos == Var(OpenVars(T) + 1) IN
             Goes([T EXCEPT !.tbclist = Append(@, pos), !.stack = Written(@, pos, <<"tbc">>)], cstack, "none")
          /\ UNCHANGED seen

OP_CALL_lua == /\ Does("lua")
               /\ luaD_precall(Waits(Store(T, RA(ci), <<LuaFrame>>), "call"), cstack, RA(ci), 2, FALSE)

OP_CALL_c(op, fn, args) ==
  /\ Does(op) /\ UNCHANGED seen
  /\ Goes(NewFrame(Waits(Store(T, RA(ci), <<fn>> \o args), "call"), fn, RA(ci), 2, FALSE),
          Append(cstack, Rec(fn, L)), "none")

BaseLevel == CHOOSE j \in 1..Len(cstack) :
               cstack[j].fn = "luaD_rawrunprotected" /\ cstack[j].th = L /\ cstack[j].previous = 0
ClosesFailed ==      \* the coroutine runs a '__close' of lua_closethread, after an error
  LET r == cstack[BaseLevel - 1] IN r.fn = "luaD_closeprotected" /\ IsError(r.status)
OP_CALL == \/ OP_CALL_lua
           \/ OP_CALL_c("pcall", "luaB_pcall", <<LuaFrame>>)
           \/ OP_CALL_c("xpcall", "luaB_xpcall", <<LuaFrame, LuaFrame>>)
           \/ OP_CALL_c("call", "lua_call", <<LuaFrame>>)
           \/ OP_CALL_c("callk", "lua_callk", <<LuaFrame>>)
           \/ OP_CALL_c("yield", "luaB_yield", <<"yv">>)
           \/ OP_CALL_c("yieldable", "luaB_yieldable", <<>>)
           \/ /\ Running /\ (L # main /\ ClosesFailed => SelfCloseFailed)
              /\ OP_CALL_c("closeself", "luaB_close", <<>>)
           \/ \E t \in {main} \cup program.cos : OP_CALL_c("status", "luaB_costatus", <<t>>)
           \/ \E t \in {main} \cup program.cos : OP_CALL_c("resume", "luaB_coresume", <<t, "rv">>)
           \/ \E t \in program.cos : OP_CALL_c("wrap", "luaB_auxwrap", <<t, "rv">>)
           \/ \E t \in program.cos \ {L} : OP_CALL_c("close", "luaB_close", <<t>>)

luaT_callTMres == /\ Does("meta")
                  /\ LET X == Operate("meta") IN
                     ccall(Push(X, <<"tm", "obj", "obj">>), cstack, X.top, 1, 1, 0)

OP_ERROR == /\ Does("error") /\ UNCHANGED seen
            /\ luaG_runerror([T EXCEPT !.top = CiTop(ci)], cstack, "e1", 0, 0)

DoClose(X) == Goes(X, Append(cstack, luaF_close(L, Last(X.ci).func + 3 + Last(X.ci).block, "LUA_OK", TRUE)), "none")
OP_CLOSE == /\ Does("close") /\ UNCHANGED seen
            /\ \E k \in 0..OpenVars(T) - 1 : DoClose(SetCi(Operate("close"), [ci EXCEPT !.op = "close", !.block = k]))

DoReturn(X, n) ==
  LET Y == SetCi(X, [Last(X.ci) EXCEPT !.op = "return", !.u2 = n]) IN
  Goes([Y EXCEPT !.top = IF @ < CiTop(ci) THEN CiTop(ci) ELSE @],
       Append(cstack, luaF_close(L, ci.func + 1, CLOSEKTOP, TRUE)), "none")
OP_RETURN == Running /\ DoReturn(Store(T, RA(ci), <<"ret">>), 1) /\ Quiet

(* luaV_execute goes on after a call, or after variables were closed. *)
Continue == /\ At("luaV_execute") /\ ret # "none" /\ UNCHANGED program
  /\ \/ /\ ci.op = "call" /\ Goes(Waits(T, "run"), cstack, "none")
        /\ seen' = <<Slot(T, RA(ci)), Slot(T, RA(ci) + 1)>>
     \/ /\ ci.op = "meta" /\ Goes(Waits(Store(T, RA(ci), <<Peek(T)>>), "run"), cstack, "none")
        /\ seen' = <<Peek(T)>>
     \/ /\ ci.op = "close" /\ Goes(SetCi(T, [ci EXCEPT !.op = "run", !.block = 0]), cstack, "none")
        /\ seen' = <<>>
     \/ /\ ci.op = "return" /\ UNCHANGED seen
        /\ LET X == Poscall([T EXCEPT !.top = RA(ci) + ci.u2], ci.u2) IN
           IF ci.fresh THEN Goes([X EXCEPT !.nC = @ - Top.inc, !.nny = @ - Top.nny], Under, "done")
                       ELSE Goes(X, cstack, "done")
------------------------------------------------------------------------------
(* ---- closing variables ---- *)
luaF_closeLoop == At("luaF_close") /\ UNCHANGED program /\
  IF T.tbclist # <<>> /\ Last(T.tbclist) >= Top.level
  THEN LET tbc == Last(T.tbclist)
           P == [T EXCEPT !.tbclist = Front(@)]     \* poptbclist
           X == CASE Top.status = CLOSEKTOP -> P     \* prepcallclosemth
                  [] Top.status = "LUA_OK" -> [P EXCEPT !.top = tbc + 1]
                  [] OTHER -> luaD_seterrorobj(P, tbc + 1)
           args == IF IsError(Top.status) THEN <<"close", "tbc", Peek(X)>> ELSE <<"close", "tbc">>
       IN ccall(Push(X, args), cstack, X.top, 0, 1, IF Top.yy THEN 0 ELSE 1)
  ELSE Goes(T, Under, "done") /\ UNCHANGED seen

PoscallClosed == At("luaD_poscall") /\ Quiet /\
  Goes(Poscall(SetCi(T, [ci EXCEPT !.clsret = FALSE]), Top.n), Under, "done")

RawrunEnds == At("luaD_rawrunprotected") /\ Quiet /\
  Goes(Restored(T, Top), Under, "LUA_OK")

(* luaB_pcall or luaB_xpcall returns what finishpcall says. *)
finishpcall(X, cs, failed) ==
  IF failed THEN luaD_poscall(Push(X, <<"false", Peek(X)>>), cs, 2)
            ELSE luaD_poscall(X, cs, gettop(X) - (IF Last(X.ci).fn = "luaB_xpcall" THEN 2 ELSE 0))

luaD_closeprotected == At("luaD_closeprotected") /\ ret = "none" /\ Quiet /\
  Goes(Armed(cstack, T),
       Append(rawrun(cstack, L, T), luaF_close(L, Top.level, Top.status, FALSE)), "none")

(* All variables are closed: the end of luaD_pcall that failed. *)
PcallClosed ==
  /\ At("luaD_closeprotected") /\ ret # "none" /\ Last(Under).fn = "luaD_pcall" /\ Quiet
  /\ cstack[Len(cstack) - 2].fn # "host"
  /\ finishpcall([luaD_seterrorobj(T, Top.level) EXCEPT !.errfunc = Last(Under).olderrfunc],
                 SubSeq(cstack, 1, Len(cstack) - 3), TRUE)

(* All variables are closed: the end of luaE_resetthread. *)
luaE_resetthread ==
  /\ At("luaD_closeprotected") /\ ret # "none" /\ Last(Under).fn = "lua_closethread" /\ Quiet
  /\ LET status == Top.status
         from == Last(Under).from
         cs == SubSeq(cstack, 1, Len(cstack) - 2)      \* without lua_closethread
         X == IF IsError(status) THEN luaD_seterrorobj(T, 2) ELSE [T EXCEPT !.top = 2]
         popped == [X EXCEPT !.top = @ - 1]
         F == th[from]
     IN \/ from = L /\ luaD_throw([X EXCEPT !.errorJmp = BaseLevel], cs, status)   \* luaD_throwbaselevel
        \/ from # L /\ ~IsError(status) /\
               Both(X, from, Poscall(Push(F, <<"true">>), 1), Front(cs), "done")
        \/ from # L /\ IsError(status) /\ Last(cs).fn = "luaB_close" /\
               Both(popped, from, Poscall(Push(F, <<"false", Peek(X)>>), 2), Front(cs), "done")
        \/ from # L /\ IsError(status) /\ Last(cs).fn = "luaB_auxwrap" /\
               Both(popped, from, Push(F, <<Peek(X)>>), Append(cs, errormsg(from, F.top, 0, 0)), "none")

luaG_errormsg == At("luaG_errormsg") /\ UNCHANGED program /\
  IF ret = "none" /\ T.errfunc # 0
  THEN ccall(Store(T, T.top - 1, <<Slot(T, T.errfunc), Peek(T)>>), cstack, T.top - 1, 1, 1, 1)
  ELSE luaD_throw(T, Under, "LUA_ERRRUN") /\ UNCHANGED seen
------------------------------------------------------------------------------
(* ---- C functions called by Lua code: they begin ---- *)
Begins(fn) == At(fn) /\ ret = "none"
Arg == Slot(T, ci.func + 1)
getco == Arg      \* a thread: the functions that take one refuse other values

(* lua_pcallk: a protected call in the C stack or, if the thread may yield, *)
(* one that is only marked in the call info. X has the function on the top. *)
lua_pcallk(X, ef) ==
  LET func == X.top - 1
      c == Last(X.ci)
      Y == [X EXCEPT !.errfunc = ef]
      cs == Append(cstack, pcall(L, Len(X.ci), func, X.errfunc))
  IN IF yieldable(X)
     THEN ccall(SetCi(Y, [c EXCEPT !.u2 = func, !.oldErrfunc = X.errfunc, !.ypcall = TRUE]),
                cstack, func, -1, 1, 0)
     ELSE ccall(Armed(cs, Y), rawrun(cs, L, Y), func, -1, 1, 1)
luaB_pcall == Begins("luaB_pcall") /\ UNCHANGED program /\
  lua_pcallk(Store(T, ci.func + 1, <<"true", Arg>>), 0)
luaB_xpcall == Begins("luaB_xpcall") /\ UNCHANGED program /\
  lua_pcallk(Store(T, T.top, <<"true", Arg>>), ci.func + 2)

(* lua_pcallk after the function, which returned or, in the C stack only,   *)
(* was finished by luaD_pcall.                                              *)
PcallReturns ==
  /\ At("luaB_pcall") \/ At("luaB_xpcall")
  /\ ret = "done" /\ Quiet
  /\ LET X == IF ci.ypcall THEN [SetCi(T, [ci EXCEPT !.ypcall = FALSE]) EXCEPT !.errfunc = ci.oldErrfunc]
                           ELSE T
     IN finishpcall(X, Under, FALSE)
luaD_pcall == At("luaD_pcall") /\ ret = "LUA_OK" /\ Quiet /\
  Goes([T EXCEPT !.errfunc = Top.olderrfunc], Under, "done")

(* C functions that call another: with lua_call, and with lua_callk, which  *)
(* has a continuation, after they marked a value to be closed.              *)
lua_call == Begins("lua_call") /\ UNCHANGED program /\ ccall(T, cstack, ci.func + 1, 1, 1, 1)
lua_callk == Begins("lua_callk") /\ UNCHANGED program /\
  LET X == SetCi([Store(T, ci.func + 1, <<"tbc", Arg>>) EXCEPT !.tbclist = Append(@, ci.func + 1)],
                 [ci EXCEPT !.tbc = TRUE])                           \* lua_toclose
  IN ccall(X, cstack, X.top - 1, 1, 1, IF yieldable(T) THEN 0 ELSE 1)
CallReturns == (At("lua_call") \/ At("lua_callk")) /\ ret = "done" /\ Quiet /\ luaD_poscall(T, Under, 1)

luaB_yieldable == Begins("luaB_yieldable") /\ Quiet /\
  luaD_poscall(Push(T, <<IF yieldable(T) THEN "true" ELSE "false">>), Under, 1)

auxstatus(co) ==
  IF co = L THEN "running" ELSE IF th[co].status = "LUA_YIELD" THEN "suspended"
  ELSE IF IsError(th[co].status) THEN "dead" ELSE IF Len(th[co].ci) > 1 THEN "normal"
  ELSE IF gettop(th[co]) = 0 THEN "dead" ELSE "suspended"
luaB_costatus == Begins("luaB_costatus") /\ Quiet /\
  luaD_poscall(Push(T, <<auxstatus(Arg)>>), Under, 1)

(* lua_yieldk without a continuation *)
luaB_yield == Begins("luaB_yield") /\ Quiet /\
  IF yieldable(T)
  THEN luaD_throw(SetCi([T EXCEPT !.status = "LUA_YIELD"], [ci EXCEPT !.u2 = gettop(T)]), cstack, "LUA_YIELD")
  ELSE luaG_runerror(T, cstack, IF L = main THEN "outside a coroutine" ELSE "across a C-call boundary", 0, 0)

luaB_close == Begins("luaB_close") /\ Quiet /\
  LET co == IF gettop(T) = 0 THEN L ELSE getco IN
  /\ co \in Threads
  /\ \/ /\ auxstatus(co) \in {"dead", "suspended"}
        /\ Both(T, co, resetCI(th[co], L), lua_closethread(cstack, co, th[co], L), "none")
     \/ /\ auxstatus(co) = "normal"
        /\ luaG_runerror(T, cstack, "cannot close a normal coroutine", 0, 0)
     \/ /\ auxstatus(co) = "running" /\ L = main
        /\ luaG_runerror(T, cstack, "cannot close main thread", 0, 0)
     \/ /\ auxstatus(co) = "running" /\ L # main
        /\ Goes(resetCI(T, L), lua_closethread(cstack, L, T, L), "none")
------------------------------------------------------------------------------
(* ---- coroutines ---- *)
(* lua_resume, up to the protected call; what it refuses is an error of the *)
(* caller and leaves the coroutine as it is.                                *)
lua_resume == (Begins("luaB_coresume") \/ Begins("luaB_auxwrap")) /\ Quiet /\
  LET co == getco
      C == th[co]
      refused == IF C.status = "LUA_OK" /\ Len(C.ci) > 1 THEN "non-suspended"
                 ELSE IF (C.status = "LUA_OK" /\ gettop(C) = 0) \/ IsError(C.status) THEN "dead"
                 ELSE IF T.nC >= LUAI_MAXCCALLS THEN "C stack overflow" ELSE "none"
      Y == [Push(C, <<"rv">>) EXCEPT !.nC = T.nC + 1, !.nny = 0]
      cs == Append(cstack, resumed(co, L))
  IN /\ co \in Threads
     /\ \/ refused = "none" /\
            Both(T, co, Armed(cs, Y), Append(rawrun(cs, co, Y), Rec("resume", co)), "none")
        \/ refused # "none" /\ At("luaB_coresume") /\ luaD_poscall(Push(T, <<"false", refused>>), Under, 2)
        \/ refused # "none" /\ At("luaB_auxwrap") /\ luaG_runerror(T, cstack, refused, 0, 0)

resume == Begins("resume") /\ UNCHANGED program /\
  IF T.status = "LUA_OK" THEN ccall(T, cstack, T.top - 2, -1, 0, 0)
  ELSE luaD_poscall([T EXCEPT !.status = "LUA_OK"], Append(Under, Rec("unroll", L)), 1) /\ UNCHANGED seen
ResumeEnds == At("resume") /\ ret = "done" /\ Quiet /\ Goes(T, Under, "done")
ResumeReturns == At("lua_resume") /\ ret = "LUA_OK" /\ Quiet /\ precover(T, cstack, "LUA_OK")

(* The call infos that a yield, or an error, left without their C functions *)
(* are finished, from the last to the first.                                *)
FinishOpSkips == Goes(T, Append(cstack, luaV_execute(L, 0, 0)), "done")             \* mutant
luaV_finishOp ==
  LET cs == Append(cstack, luaV_execute(L, 0, 0)) IN
  \/ ci.op \in {"call", "meta"} /\ Goes(T, cs, "done")
  \/ ci.op = "close" /\ Goes(T, Append(cs, luaF_close(L, ci.func + 3 + ci.block, "LUA_OK", TRUE)), "none")
  \/ ci.op = "return" /\
     LET X == [T EXCEPT !.top = RA(ci) + ci.u2] IN
     Goes([X EXCEPT !.top = IF @ < CiTop(ci) THEN CiTop(ci) ELSE @],
          Append(cs, luaF_close(L, ci.func + 1, CLOSEKTOP, TRUE)), "none")

finishCcall ==
  IF ci.clsret THEN luaD_poscall(T, cstack, ci.u2)
  ELSE IF ~ci.ypcall THEN luaD_poscall(T, cstack, 1)               \* continuation of lua_callk
  ELSE IF ci.recst = "LUA_OK"
  THEN finishpcall([SetCi(T, [ci EXCEPT !.ypcall = FALSE]) EXCEPT !.errfunc = ci.oldErrfunc], cstack, FALSE)
  ELSE Goes(T, cstack \o <<recovering(L, ci.recst), luaF_close(L, ci.u2, ci.recst, TRUE)>>, "none")

unroll == At("unroll") /\ Quiet /\
  IF Len(T.ci) = 1 THEN Goes(T, Under, "done") ELSE IF isLua(ci) THEN luaV_finishOp ELSE finishCcall

finishpcallk == At("finishpcallk") /\ Quiet /\
  finishpcall([SetCi(luaD_seterrorobj(T, ci.u2), [ci EXCEPT !.recst = "LUA_OK", !.ypcall = FALSE])
                 EXCEPT !.errfunc = ci.oldErrfunc], Under, TRUE)
------------------------------------------------------------------------------
NewThread == [status |-> "LUA_OK", ci |-> <<CallInfo("base", 1, 0, FALSE)>>, top |-> 3, tbclist |-> <<>>,
              nC |-> 0, nny |-> 0, errorJmp |-> 0, errfunc |-> 0, stack |-> <<"nil", LuaFrame>>]

(* The host program has called a Lua function with lua_pcall. *)
Init ==
  LET host == <<Rec("host", main), pcall(main, 1, 2, 0)>>
      M == [NewThread EXCEPT !.nny = 1]           \* the main thread never yields
      X == Store(Armed(host, M), 3, <<"nil", "nil">>)
  IN /\ th = [t \in Threads |-> IF t = main
                THEN NewFrame([X EXCEPT !.nC = 1, !.nny = 2], LuaFrame, 2, -1, TRUE) ELSE NewThread]
     /\ cstack = Append(rawrun(host, main, M), luaV_execute(main, 1, 1))
     /\ ret = "none" /\ seen = <<"nil", "nil">> /\ program \in Programs /\ items = View

(* The call of the host has ended, or has failed and closed all variables. *)
Stop == /\ \/ At("host")
           \/ At("luaD_closeprotected") /\ ret # "none" /\ cstack[Len(cstack) - 2].fn = "host"
        /\ UNCHANGED vars

Next == \/ OP_TBC \/ OP_CALL \/ luaT_callTMres \/ OP_ERROR \/ OP_CLOSE \/ OP_RETURN \/ Continue
        \/ luaF_closeLoop \/ PoscallClosed \/ RawrunEnds \/ luaD_closeprotected \/ PcallClosed
        \/ luaE_resetthread \/ luaG_errormsg \/ luaB_pcall \/ luaB_xpcall \/ PcallReturns \/ luaD_pcall
        \/ lua_call \/ lua_callk \/ CallReturns \/ luaB_yieldable \/ luaB_costatus \/ luaB_yield
        \/ luaB_close \/ lua_resume \/ resume \/ ResumeEnds \/ ResumeReturns \/ unroll \/ finishpcallk
        \/ Stop
Spec == Init /\ [][Next]_vars
------------------------------------------------------------------------------
(* ---- properties ---- *)
Promised == INSTANCE LuaCoroutines WITH
  cur <- L, status <- [t \in Threads |-> CASE th[t].status = "LUA_OK" -> "ok"
                                           [] th[t].status = "LUA_YIELD" -> "yield"
                                           [] OTHER -> "dead"]

(* Whatever yields, errors and '__close' methods do to the C stack, a       *)
(* program sees calls, errors and coroutines as LuaCoroutines has them:     *)
(* each variable is closed once, innermost first, with the latest error,    *)
(* calls interrupted by a yield return what they would have returned, and   *)
(* a thread may yield exactly when no C function without a continuation,    *)
(* message handler or closing of a coroutine is in between (ldo.c).         *)
KeepsPromise == Promised!Spec

(* The count of C calls of the running thread is the number of C calls that *)
(* are on the C stack, and that of its non-yieldable calls those since the  *)
(* thread was resumed: no error, yield or resume loses or adds one. The     *)
(* calls never exceed the limit for handling an overflow (lstate.c:131).    *)
CountsRight ==
  LET calls == {k \in DOMAIN cstack : cstack[k].inc = 1}
      from  == Innermost({k \in DOMAIN cstack : cstack[k].fn \in Bases /\ cstack[k].th = L})
      nnys  == {k \in DOMAIN cstack : k >= from /\ cstack[k].nny = 1}
  IN /\ T.nC = Cardinality(calls) /\ T.nC <= ErrorCcalls
     /\ T.nny = (IF L = main THEN 1 ELSE 0) + Cardinality(nnys)

(* A long jump goes to a function that is still on the C stack: the handler *)
(* of each thread is its innermost luaD_rawrunprotected there, and a thread *)
(* without one has no handler.                                              *)
JumpsLive ==
  \A t \in Threads : th[t].errorJmp = Innermost(Records(t, "luaD_rawrunprotected"))

(* The list of variables to be closed goes up the stack and holds variables *)
(* whose values nothing has overwritten, the message handler is a function, *)
(* and call infos are in the order of their functions.                      *)
StackRight ==
  \A t \in Threads : LET X == th[t] IN
    /\ \A i \in DOMAIN X.tbclist : X.stack[X.tbclist[i]] = "tbc"
    /\ \A i, j \in DOMAIN X.tbclist : i < j => X.tbclist[i] < X.tbclist[j]
    /\ \A i \in 1..Len(X.ci) - 1 : X.ci[i].func < X.ci[i + 1].func
    /\ ~IsError(X.status) /\ X.errfunc # 0 => X.stack[X.errfunc] = LuaFrame

(* luaD_seterrorobj asserts, for each error, "with a non-nil object"        *)
(* (ldo.c:118).                                                             *)
ErrorNotNil ==
  Top.fn \in {"luaF_close", "luaD_closeprotected", "finishpcallk"} /\ IsError(Top.status) => Peek(T) # "nil"
==============================================================================
