--------------------------- MODULE LuaCoroutines ---------------------------
(* What calls, errors, to-be-closed variables and coroutines promise to a   *)
(* Lua program, without a C stack: every thread is a stack of activations   *)
(* in which an error unwinds to the nearest protected call, closing the     *)
(* variables above it innermost first, once each and with the latest error; *)
(* a yield leaves the stack as it is and a resume goes on from there.       *)
(* LuaCalls shows that ldo.c, with its calls through C, long jumps and      *)
(* continuations, does exactly this.                                        *)
EXTENDS Integers, Sequences, SequencesExt

CONSTANTS Threads, main

VARIABLES items,    \* of each thread: its activations and the variables to close
          status,   \* of each thread: "ok", "yield" or "dead" (by an error)
          cur,      \* the thread that runs
          seen      \* the values that the Lua code running now was given last
vars == <<items, status, cur, seen>>

(* An item is the base of a thread, a function (Lua or C), a to-be-closed   *)
(* variable, or an error being raised. 'res' holds the results that a call  *)
(* has left for the Lua function below it.                                  *)
Item(fn, op, err, arg) == [fn |-> fn, op |-> op, err |-> err, arg |-> arg, res |-> <<>>]
Variable == Item("var", "", "none", 0)
Lua      == Item("lua", "run", "none", 0)
Error(e) == Item("error", "start", e, 0)

IsFrame(it) == it.fn # "var"
Protects(it) == \/ it.fn \in {"luaB_pcall", "luaB_xpcall", "host"}
                \/ it.fn = "base" /\ it.op = "closing"

S      == items[cur]
f      == SelectLastInSeq(S, IsFrame)     \* the activation on the top
Frame  == S[f]
Opened == Len(S) - f                      \* variables to be closed above it
Below  == SubSeq(S, 1, f - 1)
Set(s, i, op, err) == [s EXCEPT ![i].op = op, ![i].err = err, ![i].res = <<>>]
Pad(s) == SubSeq(s \o <<"nil", "nil">>, 1, 2)

(* Stack 's' once its top activation has given 'vals' to the one below: to  *)
(* a Lua function that called it, or to 'error' as the new error object.    *)
Deliver(s, vals) ==
  LET g == SelectLastInSeq(s, IsFrame) IN
  CASE s[g].fn = "lua" /\ s[g].op = "call" -> [s EXCEPT ![g].res = Pad(vals)]
    [] s[g].fn = "lua" /\ s[g].op = "meta" -> [s EXCEPT ![g].res = <<Pad(vals)[1]>>]
    [] s[g].fn = "error" -> [s EXCEPT ![g].op = "throw", ![g].err = Pad(vals)[1]]
    [] OTHER -> s

Yieldable(t) == /\ t # main
                /\ \A i \in 1..Len(items[t]) :
                     /\ items[t][i].fn \notin {"lua_call", "error"}
                     /\ items[t][i].op # "closing"
Handler == LET p == SelectLastInSeq(S, Protects) IN p > 0 /\ S[p].fn = "luaB_xpcall"
Waits(p, t) == /\ p # t /\ Last(items[p]).fn \in {"luaB_coresume", "luaB_auxwrap", "luaB_close"}
               /\ Last(items[p]).op = "run" /\ Last(items[p]).arg = t

Runs(op) == Frame.fn = "lua" /\ Frame.op = op
Put(s)   == items' = [items EXCEPT ![cur] = s]
Same     == UNCHANGED <<status, cur>>

(* The variables left when everything above item 'i' of 's' is abandoned. *)
Kept(s, i) == SubSeq(s, 1, i) \o SelectSeq(SubSeq(s, i + 1, Len(s)), LAMBDA it : it.fn = "var")

(* Thread 'p' waited for 'cur', which is now 's': p's call returns 'vals'. *)
HandOver(p, s, vals) ==
  /\ items' = [items EXCEPT ![cur] = s, ![p] = Deliver(Front(items[p]), vals)]
  /\ cur' = p

(* An error object reaches its handler: a protected call, which closes what *)
(* is above it; a coroutine being closed; or none, and the coroutine dies.  *)
Throw(s, err) ==
  LET i == SelectLastInSeq(s, Protects) IN
  \/ /\ i > 0 /\ Put(Kept(Set(s, i, IF s[i].fn = "base" THEN "closing" ELSE "unwind", err), i))
     /\ Same
  \/ /\ i = 0
     /\ \E p \in Threads : Waits(p, cur) /\
          \/ /\ Last(items[p]).fn = "luaB_coresume"
             /\ HandOver(p, Kept(Set(s, 1, "dead", err), 1), <<"false", err>>)
             /\ status' = [status EXCEPT ![cur] = "dead"]
          \/ /\ Last(items[p]).fn = "luaB_auxwrap"
             /\ Put(Kept(Set(s, 1, "closing", err), 1)) /\ cur' = cur
             /\ status' = [status EXCEPT ![cur] = "ok"]

(* A call made by C code: the function starts, or C calls are too many. *)
CallC(s, args) == \/ Put(Append(s, Lua)) /\ seen' = args /\ Same
                  \/ Put(Append(s, Error("C stack overflow"))) /\ Same /\ UNCHANGED seen
                  \/ Throw(s, "error in error handling") /\ UNCHANGED seen
------------------------------------------------------------------------------
(* ---- steps of a Lua function ---- *)
Declare == Runs("run") /\ Put(Append(S, Variable)) /\ Same /\ UNCHANGED seen

CallLua == /\ Runs("run") /\ Put(Append(Set(S, f, "call", "none"), Lua))
           /\ seen' = <<"nil", "nil">> /\ Same

CallFunction == Runs("run") /\
  \E fn \in {"luaB_pcall", "luaB_xpcall", "lua_call", "lua_callk", "luaB_coresume", "luaB_auxwrap",
             "luaB_close", "luaB_yield", "luaB_yieldable", "luaB_costatus"}, t \in Threads \cup {0} :
    /\ Put(Append(Set(S, f, "call", "none"), Item(fn, "start", "none", t)))
    /\ Same /\ UNCHANGED seen

CallMetamethod == Runs("run") /\ CallC(Set(S, f, "meta", "none"), <<"obj", "obj">>)

Fail == /\ Runs("run") /\ \E e \in {"e1"} : Put(Append(S, Error(e)))
        /\ Same /\ UNCHANGED seen

LeaveBlock == /\ Runs("run") /\ \E k \in 0..Opened - 1 :
                   Put([Set(S, f, "close", "none") EXCEPT ![f].arg = k])
              /\ Same /\ UNCHANGED seen

Return == Runs("run") /\ Put(Set(S, f, "return", "none")) /\ Same /\ UNCHANGED seen

Continue == /\ Frame.res # <<>> /\ Put(Set(S, f, "run", "none"))
            /\ seen' = Frame.res /\ Same
------------------------------------------------------------------------------
(* ---- closing variables: of a block, of a function that returns, of a     *)
(* protected call that failed, of a coroutine that is closed ---- *)
Closing == Frame.op \in {"close", "return", "unwind", "closing"}
Left    == IF Frame.op = "close" THEN Opened - Frame.arg ELSE Opened

CloseNext == /\ Closing /\ Left > 0
             /\ CallC(Front(S), <<"tbc", IF Frame.err = "none" THEN "nil" ELSE Frame.err>>)

BlockLeft == /\ Frame.op = "close" /\ Left = 0
             /\ Put([Set(S, f, "run", "none") EXCEPT ![f].arg = 0])
             /\ seen' = <<>> /\ Same

Returned == /\ Frame.op = "return" /\ Left = 0 /\ Put(Deliver(Below, <<"ret">>))
            /\ Same /\ UNCHANGED seen

Caught == /\ Frame.op = "unwind" /\ Left = 0 /\ Frame.fn # "host"
          /\ Put(Deliver(Below, <<"false", Frame.err>>)) /\ Same /\ UNCHANGED seen

(* A coroutine has been closed, by another one or by itself. *)
Closed == /\ Frame.op = "closing" /\ Left = 0 /\ UNCHANGED seen
  /\ \E p \in Threads : Waits(p, cur) /\
       LET done == Set(S, 1, "done", "none")
           err  == Frame.err IN
       CASE Last(items[p]).fn = "luaB_close" ->
              /\ HandOver(p, done, IF err = "none" THEN <<"true">> ELSE <<"false", err>>)
              /\ UNCHANGED status
         [] Last(items[p]).fn = "luaB_coresume" /\ err = "none" ->
              HandOver(p, done, <<"true">>) /\ UNCHANGED status
         [] Last(items[p]).fn = "luaB_coresume" ->
              /\ HandOver(p, Set(S, 1, "dead", err), <<"false", err>>)
              /\ status' = [status EXCEPT ![cur] = "dead"]
         [] err = "none" -> HandOver(p, done, <<>>) /\ UNCHANGED status
         [] OTHER -> /\ items' = [items EXCEPT ![cur] = done, ![p] = Append(@, Error(err))]
                     /\ cur' = p /\ UNCHANGED status
------------------------------------------------------------------------------
(* ---- C functions ---- *)
Starts(fn) == Frame.fn = fn /\ Frame.op = "start"
Started    == Set(S, f, "run", "none")
Answer(vals) == Put(Deliver(Below, vals)) /\ Same /\ UNCHANGED seen

Calls == /\ \/ \E fn \in {"luaB_pcall", "luaB_xpcall", "lua_call"} : Starts(fn) /\ CallC(Started, <<"nil", "nil">>)
            \/ Starts("lua_callk") /\ CallC(Append(Started, Variable), <<"nil", "nil">>)

Finished == /\ Frame.op = "run"
            /\ \/ Frame.fn \in {"luaB_pcall", "luaB_xpcall"} /\ Answer(<<"true", "ret">>)
               \/ Frame.fn = "lua_call" /\ Answer(<<"ret">>)
               \/ /\ Frame.fn = "lua_callk" /\ Put(Set(S, f, "return", "none"))
                  /\ Same /\ UNCHANGED seen

Observe == \/ Starts("luaB_yieldable") /\ Answer(<<IF Yieldable(cur) THEN "true" ELSE "false">>)
           \/ Starts("luaB_costatus") /\ Answer(<<
                LET t == Frame.arg IN
                CASE t = cur -> "running"
                  [] status[t] = "yield" \/ items[t][1].op = "start" -> "suspended"
                  [] status[t] = "dead" \/ items[t][1].op = "done" -> "dead"
                  [] OTHER -> "normal">>)

Raise(msg) == Put(Append(Started, Error(msg))) /\ Same /\ UNCHANGED seen

CanResume(t) == \/ status[t] = "yield"
                \/ status[t] = "ok" /\ items[t][1].op = "start"

Resume == \E fn \in {"luaB_coresume", "luaB_auxwrap"} : Starts(fn) /\
  \/ CanResume(Frame.arg) /\ Put(Started) /\ cur' = Frame.arg /\ UNCHANGED <<status, seen>>
  \/ \E msg \in {"C stack overflow"} \cup
                {IF status[Frame.arg] = "dead" \/ items[Frame.arg][1].op = "done" THEN "dead" ELSE "non-suspended"} :
       /\ CanResume(Frame.arg) => msg = "C stack overflow"
       /\ IF fn = "luaB_coresume" THEN Answer(<<"false", msg>>) ELSE Raise(msg)

(* The coroutine that was resumed begins, or goes on after its yield. *)
Begin == /\ cur # main /\ Frame.fn = "base" /\ Frame.op = "start"
         /\ CallC(Set(S, 1, "run", "none"), <<"rv", "nil">>)
GoOn  == /\ status[cur] = "yield" /\ status' = [status EXCEPT ![cur] = "ok"]
         /\ Put(Deliver(Below, <<"rv">>)) /\ UNCHANGED <<cur, seen>>

Yield == Starts("luaB_yield") /\
  \/ /\ Yieldable(cur) /\ status' = [status EXCEPT ![cur] = "yield"] /\ UNCHANGED seen
     /\ \E p \in Threads : Waits(p, cur) /\
          HandOver(p, Started, IF Last(items[p]).fn = "luaB_coresume" THEN <<"true", "yv">> ELSE <<"yv">>)
  \/ /\ ~Yieldable(cur)
     /\ Raise(IF cur = main THEN "outside a coroutine" ELSE "across a C-call boundary")

Ends == /\ Frame.fn = "base" /\ Frame.op = "run" /\ UNCHANGED <<status, seen>>
        /\ \E p \in Threads : Waits(p, cur) /\
             HandOver(p, Set(S, 1, "done", "none"),
                      IF Last(items[p]).fn = "luaB_coresume" THEN <<"true", "ret">> ELSE <<"ret">>)

Close == Starts("luaB_close") /\ UNCHANGED seen /\
  LET t == IF Frame.arg = 0 THEN cur ELSE Frame.arg
      err == IF status[t] = "dead" THEN items[t][1].err ELSE "none"
      emptied == Kept(Set(items[t], 1, "closing", err), 1) IN
  CASE t = cur /\ t = main -> Put(Append(Started, Error("cannot close main thread"))) /\ Same
    [] t = cur -> Put(emptied) /\ Same
    [] status[t] # "ok" \/ items[t][1].op \in {"start", "done"} ->
         /\ items' = [items EXCEPT ![cur] = Started, ![t] = emptied]
         /\ status' = [status EXCEPT ![t] = "ok"] /\ cur' = t
    [] OTHER -> Put(Append(Started, Error("cannot close a normal coroutine"))) /\ Same

(* ---- errors ---- *)
Handle == /\ Frame.fn = "error" /\ Frame.op = "start"
          /\ \/ Handler /\ CallC(Set(S, f, "handling", "none"), <<Frame.err, "nil">>)
             \/ ~Handler /\ Throw(S, Frame.err) /\ UNCHANGED seen
Thrown == Frame.fn = "error" /\ Frame.op = "throw" /\ Throw(S, Frame.err) /\ UNCHANGED seen
------------------------------------------------------------------------------
Init == /\ items = [t \in Threads |-> IF t = main THEN <<Item("host", "run", "none", 0), Lua>>
                                      ELSE <<Item("base", "start", "none", 0)>>]
        /\ status = [t \in Threads |-> "ok"]
        /\ cur = main /\ seen = <<"nil", "nil">>

Next == \/ Declare \/ CallLua \/ CallFunction \/ CallMetamethod \/ Fail \/ LeaveBlock \/ Return
        \/ Continue \/ CloseNext \/ BlockLeft \/ Returned \/ Caught \/ Closed \/ Calls \/ Finished
        \/ Observe \/ Resume \/ Begin \/ GoOn \/ Yield \/ Ends \/ Close \/ Handle \/ Thrown

Spec == Init /\ [][Next]_vars
==============================================================================
