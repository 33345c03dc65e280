--------------------------- MODULE LuaGenerations ---------------------------
(***************************************************************************)
(* The generational mode of the collector (lgc.c): ages, the sublists of   *)
(* 'allgc' and 'finobj', barriers that make objects old or touched, young  *)
(* collections, the change to major collections and back, full ones.       *)
(*                                                                         *)
(* What is abstracted.  A young collection is one step, as in the code; so *)
(* is, for a major one, the marking, whose steps are in LuaGC.  Its sweep  *)
(* takes the objects in any order.  Sizes are left out: a collection, and  *)
(* the shift between minor and major ones, may happen at any time.         *)
(***************************************************************************)
EXTENDS Naturals, FiniteSets, Sequences, SequencesExt

CONSTANTS Objects,       \* addresses
          Type,          \* of each: thread, table, weak (weak values), closure, upval
          MainThread, Registry, null,
          Programs       \* kinds of programs: the <<object, value>> pairs that they store,
                         \* objects that they give a finalizer, collections that they ask for
                         \* and whether lua_upvaluejoin takes upvalues that are open

VARIABLES program,
          g,        \* global_State, with the objects
          waits,    \* what the program waits for: "no", "finalizers" or "entergen"
          infin     \* a finalizer runs
vars == <<program, g, waits, infin>>

Threads == {o \in Objects : Type[o] = "thread"}
Upvals  == {o \in Objects : Type[o] = "upval"}
Fields  == {"survival", "old1", "reallyold", "firstold1"}
FinFields == {"finobjsur", "finobjold1", "finobjrold"}

IsWhite(s, o) == s.color[o] \in {"white", "dead"}        \* "dead" has the other white
IsBlack(s, o) == s.color[o] = "black"
IsOld(s, o)   == s.age[o] \notin {"new", "survival"}
IsOpen(s, u)  == s.home[u] # null
Open(s, th)   == {u \in Upvals : s.home[u] = th}
keepinvariant(s) == s.gcstate = "propagate"
Paint(s, o, c) == [s EXCEPT !.color[o] = c]
SetAge(s, o, a) == [s EXCEPT !.age[o] = a]
------------------------------------------------------------------------------
(* ---- marking ---- *)
Gray(s, o) == [s EXCEPT !.color[o] = "gray", !.gray = @ \cup {o}]
RECURSIVE MarkAll(_, _)
reallymarkobject(s, o) ==
  IF Type[o] = "upval" THEN MarkAll(Paint(s, o, IF IsOpen(s, o) THEN "gray" ELSE "black"), s.slots[o])
  ELSE Gray(s, o)
MarkAll(s, O) ==                   \* markobject for each
  LET white == {o \in O : IsWhite(s, o)} IN
  IF white = {} THEN s
  ELSE LET o == CHOOSE x \in white : TRUE IN MarkAll(reallymarkobject(s, o), O \ {o})

genlink(s, o) == CASE s.age[o] = "touched1" -> [s EXCEPT !.color[o] = "gray", !.grayagain = @ \cup {o}]
                   [] s.age[o] = "touched2" -> SetAge(s, o, "old")
                   [] OTHER -> s
traversethread(s, th) ==
  MarkAll(IF IsOld(s, th) THEN [s EXCEPT !.color[th] = "gray", !.grayagain = @ \cup {th}] ELSE s,
          s.slots[th] \cup Open(s, th))
traverseweakvalue(s, h) == IF \E v \in s.slots[h] : IsWhite(s, v)
                           THEN [s EXCEPT !.color[h] = "gray", !.weak = @ \cup {h}] ELSE genlink(s, h)
propagatemark(s, o) ==
  LET b == [s EXCEPT !.color[o] = "black", !.gray = @ \ {o}] IN
  CASE Type[o] = "thread"  -> traversethread(b, o)
    [] Type[o] = "table"   -> genlink(MarkAll(b, s.slots[o]), o)
    [] Type[o] = "weak"    -> traverseweakvalue(b, o)
    [] Type[o] = "closure" -> MarkAll(b, s.slots[o])
RECURSIVE propagateall(_)
propagateall(s) == IF s.gray = {} THEN s ELSE propagateall(propagatemark(s, CHOOSE o \in s.gray : TRUE))

(* Open upvalues of threads that are not marked: their values are. *)
remarkupvals(s) ==
  MarkAll(s, UNION {s.slots[u] : u \in {x \in Upvals : IsOpen(s, x) /\ IsWhite(s, s.home[x]) /\ ~IsWhite(s, x)}})
clearbyvalues(s) ==
  [s EXCEPT !.slots = [o \in Objects |-> IF o \in s.weak THEN {v \in @[o] : ~IsWhite(s, v)} ELSE @[o]]]

Below(list, p) == IF p = null THEN Len(list) ELSE CHOOSE i \in 0..Len(list) - 1 : list[i + 1] = p
Next1(list, o) == LET i == Below(list, o) + 2 IN IF i > Len(list) THEN null ELSE list[i]     \* o->next
First(list)    == IF list = <<>> THEN null ELSE list[1]
checkpointers(s, list, ps, o) == [f \in DOMAIN s |-> IF f \in ps /\ s[f] = o THEN Next1(list, o) ELSE s[f]]

(* White objects before 'finobjold1' are to be finalized. *)
RECURSIVE separatetobefnz(_, _)
separatetobefnz(s, todo) ==
  IF todo = <<>> THEN s
  ELSE LET o == Head(todo) IN
       separatetobefnz(IF ~IsWhite(s, o) THEN s
                       ELSE [checkpointers(s, s.finobj, {"finobjsur"}, o)
                             EXCEPT !.finobj = SelectSeq(@, LAMBDA x : x # o), !.tobefnz = Append(@, o)], Tail(todo))
atomic(s) ==
  LET s1 == propagateall(MarkAll([s EXCEPT !.grayagain = {}, !.weak = {}], {MainThread, Registry}))
      s2 == propagateall(remarkupvals(s1))
      s3 == propagateall([s2 EXCEPT !.gray = s.grayagain])
      s4 == clearbyvalues(s3)
      s5 == separatetobefnz(s4, SubSeq(s4.finobj, 1, Below(s4.finobj, s4.finobjold1)))
      s6 == clearbyvalues(propagateall(MarkAll(s5, Range(s5.tobefnz))))
  IN [s6 EXCEPT !.color = [o \in Objects |-> IF @[o] = "white" THEN "dead" ELSE @[o]]]
------------------------------------------------------------------------------
(* ---- barriers ---- *)
luaC_barrier(s, o, v) ==
  IF ~(IsBlack(s, o) /\ IsWhite(s, v)) THEN s
  ELSE IF keepinvariant(s)
       THEN LET m == reallymarkobject(s, v) IN IF IsOld(s, o) THEN SetAge(m, v, "old0") ELSE m
       ELSE IF s.gckind # "minor" THEN Paint(s, o, "white") ELSE s
BarrierbackOnce(s, o, v) ==       \* faulty: a touched object is not touched again
  IF ~(IsBlack(s, o) /\ IsWhite(s, v)) \/ s.age[o] = "touched2" THEN s
  ELSE [s EXCEPT !.color[o] = "gray", !.grayagain = @ \cup {o},
                                                     !.age[o] = IF IsOld(s, o) THEN "touched1" ELSE @]
luaC_barrierback(s, o, v) ==
  IF ~(IsBlack(s, o) /\ IsWhite(s, v)) THEN s
  ELSE LET p == [s EXCEPT !.color[o] = "gray",
                          !.grayagain = IF s.age[o] = "touched2" THEN @ ELSE @ \cup {o}]
       IN IF IsOld(s, o) THEN SetAge(p, o, "touched1") ELSE p
luaF_closeupval(s, u) ==
  LET c == [s EXCEPT !.home[u] = null] IN
  IF IsWhite(s, u) THEN c
  ELSE LET v == s.slots[u] IN
       IF v = {} THEN Paint(c, u, "black") ELSE luaC_barrier(Paint(c, u, "black"), u, CHOOSE x \in v : TRUE)
RECURSIVE CloseAll(_, _)
CloseAll(s, U) == IF U = {} THEN s ELSE LET u == CHOOSE x \in U : TRUE IN CloseAll(luaF_closeupval(s, u), U \ {u})
------------------------------------------------------------------------------
(* ---- sweeping ---- *)
freeobj(s, o) ==
  LET c == CloseAll(s, Open(s, o)) IN
  [c EXCEPT !.color[o] = "free", !.age[o] = "new", !.slots[o] = {}, !.home[o] = null,
            !.allgc = SelectSeq(@, LAMBDA x : x # o), !.finobj = SelectSeq(@, LAMBDA x : x # o),
            !.tobefnz = SelectSeq(@, LAMBDA x : x # o)]
NextageOld(a) ==                  \* faulty: no object is OLD1
  CASE a = "new" -> "survival" [] a \in {"survival", "old0", "old1"} -> "old" [] OTHER -> a
nextage(a) == CASE a = "new" -> "survival" [] a \in {"survival", "old0"} -> "old1" [] a = "old1" -> "old" [] OTHER -> a

RECURSIVE sweepgen(_, _, _)
sweepgen(s, todo, first) ==         \* 'first': the list keeps 'firstold1'
  IF todo = <<>> THEN s
  ELSE LET o == Head(todo) IN
       sweepgen(IF IsWhite(s, o) THEN freeobj(s, o)
                ELSE IF s.age[o] = "new" THEN [s EXCEPT !.color[o] = "white", !.age[o] = nextage(@)]
                ELSE [s EXCEPT !.age[o] = nextage(@),
                               !.firstold1 = IF first /\ @ = null /\ nextage(s.age[o]) = "old1" THEN o ELSE @],
                Tail(todo), first)
RECURSIVE sweep2old(_, _)
sweep2old(s, todo) ==
  IF todo = <<>> THEN s
  ELSE LET o == Head(todo) IN
       sweep2old(CASE IsWhite(s, o) -> freeobj(s, o)
                   [] ~IsWhite(s, o) /\ Type[o] = "thread" -> [s EXCEPT !.color[o] = "gray", !.age[o] = "old", !.grayagain = @ \cup {o}]
                   [] ~IsWhite(s, o) /\ Type[o] # "thread" ->
                        [s EXCEPT !.age[o] = "old", !.color[o] = IF Type[o] = "upval" /\ IsOpen(s, o) THEN "gray" ELSE "black"],
                 Tail(todo))

(* All gray lists become one, without what is white or no longer touched. *)
correctgraylists(s) ==
  LET L == {o \in s.grayagain \cup s.weak : ~IsWhite(s, o)}
      touched == {o \in L : s.age[o] = "touched1"}
      threads == {o \in L \ touched : Type[o] = "thread"}
  IN [s EXCEPT !.grayagain = touched \cup threads, !.weak = {},
               !.color = [o \in Objects |-> IF o \in L \ threads THEN "black" ELSE @[o]],
               !.age   = [o \in Objects |-> IF o \in touched THEN "touched2"
                                            ELSE IF o \in L \ threads /\ @[o] = "touched2" THEN "old" ELSE @[o]]]
finishgencycle(s) == [correctgraylists(s) EXCEPT !.gcstate = "propagate"]
------------------------------------------------------------------------------
(* ---- young collections ---- *)
RECURSIVE markold(_, _)
markold(s, todo) ==
  IF todo = <<>> THEN s
  ELSE LET o == Head(todo)
           a == SetAge(s, o, "old")
       IN markold(IF s.age[o] # "old1" THEN s ELSE IF IsBlack(s, o) THEN reallymarkobject(a, o) ELSE a, Tail(todo))
MarkOlds(s) ==
  LET from == IF s.firstold1 = null THEN <<>>
              ELSE SubSeq(s.allgc, Below(s.allgc, s.firstold1) + 1, Below(s.allgc, s.reallyold))
      s1 == [markold(s, from) EXCEPT !.firstold1 = null]
      s2 == markold(s1, SubSeq(s1.finobj, 1, Below(s1.finobj, s1.finobjrold)))
  IN markold(s2, s2.tobefnz)

(* The live part of 'list' from position n + 1 on begins with ... *)
Behind(list, live, n) == First(SelectSeq(SubSeq(list, n + 1, Len(list)), LAMBDA o : o \in Range(live)))
SweepYoung(s) ==
  LET all  == s.allgc
      s1   == sweepgen([s EXCEPT !.gcstate = "sweep"], SubSeq(all, 1, Below(all, s.old1)), TRUE)
      s2   == [s1 EXCEPT !.reallyold = s.old1, !.old1 = Behind(all, s1.allgc, Below(all, s.survival)), !.survival = First(s1.allgc)]
      fin  == s2.finobj
      s3   == sweepgen(s2, SubSeq(fin, 1, Below(fin, s2.finobjold1)), FALSE)
      s4   == [s3 EXCEPT !.finobjrold = s3.finobjold1, !.finobjold1 = Behind(fin, s3.finobj, Below(fin, s3.finobjsur)),
                         !.finobjsur = First(s3.finobj)]
  IN sweepgen(s4, s4.tobefnz, FALSE)
entersweep(s) == [s EXCEPT !.gcstate = "sweep", !.tosweep = Range(s.allgc) \cup Range(s.finobj) \cup Range(s.tobefnz)]
minor2inc(s, kind) ==
  entersweep([f \in DOMAIN s |-> IF f \in {"reallyold", "old1", "survival"} \cup FinFields THEN null
                                 ELSE IF f = "gckind" THEN kind ELSE s[f]])
Calls == waits' = IF g'.tobefnz = <<>> THEN "no" ELSE "finalizers"     \* callallpendingfinalizers
Asks(what) == what \in program.asks
(* The shift to major mode is decided by sizes. *)
youngcollection ==
  /\ g.gckind = "minor" /\ waits = "no" /\ ~infin
  /\ LET s == SweepYoung(atomic(MarkOlds(g))) IN
     \/ g' = finishgencycle(s) /\ Calls
     \/ Asks("major") /\ g' = minor2inc(s, "major") /\ waits' = "no"
  /\ UNCHANGED <<program, infin>>
------------------------------------------------------------------------------
(* ---- major collections, entering and leaving the mode ---- *)
atomic2gen(s) ==
  LET clear == [s EXCEPT !.gray = {}, !.grayagain = {}, !.weak = {}, !.gcstate = "sweep", !.tosweep = {}]
      s1 == sweep2old(clear, clear.allgc)
      s2 == sweep2old(s1, s1.finobj)
      s3 == sweep2old(s2, s2.tobefnz)
      p  == First(s3.allgc)
      q  == First(s3.finobj)
  IN finishgencycle([s3 EXCEPT !.gckind = "minor", !.firstold1 = null, !.survival = p, !.old1 = p, !.reallyold = p,
                               !.finobjsur = q, !.finobjold1 = q, !.finobjrold = q])
restartcollection(s) ==
  MarkAll([s EXCEPT !.gray = {}, !.grayagain = {}, !.weak = {}, !.gcstate = "propagate"],
          {MainThread, Registry} \cup Range(s.tobefnz))
SweepObject(s, o) ==               \* sweeplist
  LET f == [s EXCEPT !.tosweep = @ \ {o}] IN
  IF s.color[o] = "dead" THEN freeobj(f, o) ELSE [f EXCEPT !.color[o] = "white", !.age[o] = "new"]
RECURSIVE SweepAll(_)
SweepAll(s) == IF s.tosweep = {} THEN [s EXCEPT !.gcstate = "callfin"]
               ELSE SweepAll(SweepObject(s, CHOOSE o \in s.tosweep : TRUE))

sweepstep ==
  /\ g.gcstate = "sweep" /\ waits = "no" /\ ~infin
  /\ IF g.tosweep = {} THEN g' = [g EXCEPT !.gcstate = "callfin"] ELSE \E o \in g.tosweep : g' = SweepObject(g, o)
  /\ UNCHANGED <<program, waits, infin>>
(* A cycle of a major collection, which goes back to minor ones or not. *)
MajorCycle ==
  /\ g.gcstate = "callfin" /\ g.tobefnz = <<>> /\ waits = "no" /\ ~infin
  /\ LET s == atomic(restartcollection(g)) IN
     \/ g.gckind = "major" /\ g' = atomic2gen(s) /\ Calls
     \/ g' = entersweep(s) /\ UNCHANGED waits
  /\ UNCHANGED <<program, infin>>

entergen(s) == atomic2gen(atomic(restartcollection(s)))
(* luaC_fullgc in generational mode, and collectgarbage("generational"):    *)
(* finalizers of the old cycle are called before the new one, except in an  *)
(* emergency, which may also come in a finalizer.                           *)
fullgen ==
  /\ Asks("full") /\ g.gckind = "minor" /\ waits = "no" /\ ~infin
  /\ g' = SweepAll(minor2inc(g, "inc")) /\ waits' = "entergen" /\ UNCHANGED <<program, infin>>
Emergency ==
  /\ Asks("emergency") /\ g.gckind = "minor" /\ (infin \/ waits = "no")
  /\ g' = entergen(SweepAll(minor2inc(g, "inc"))) /\ UNCHANGED <<program, waits, infin>>
luaC_changemode ==
  /\ Asks("mode") /\ waits = "no" /\ ~infin
  /\ IF g.gckind = "minor" THEN g' = minor2inc(g, "inc") /\ UNCHANGED waits
     ELSE g' = [SweepAll(g) EXCEPT !.gckind = "inc"] /\ waits' = "entergen"
  /\ UNCHANGED <<program, infin>>
EnterGen ==
  /\ waits = "entergen" /\ g.tobefnz = <<>> /\ ~infin
  /\ g' = entergen(g) /\ Calls /\ UNCHANGED <<program, infin>>
------------------------------------------------------------------------------
(* ---- finalizers ---- *)
UdataNotFirst(s) ==               \* faulty: 'firstold1' stays behind the object
  LET o == Head(s.tobefnz)
      m == [s EXCEPT !.tobefnz = Tail(@), !.allgc = <<o>> \o @]
  IN IF s.gcstate = "sweep" THEN [m EXCEPT !.color[o] = "white", !.age[o] = "new"] ELSE m
udata2finalize(s) ==
  LET o == Head(s.tobefnz)
      m == [s EXCEPT !.tobefnz = Tail(@), !.allgc = <<o>> \o @]
  IN CASE s.gcstate = "sweep" -> [m EXCEPT !.color[o] = "white", !.age[o] = "new"]
       [] s.gcstate # "sweep" /\ s.age[o] = "old1" -> [m EXCEPT !.firstold1 = o]
       [] OTHER -> m
GCTM ==
  /\ g.tobefnz # <<>> /\ ~infin
  /\ waits # "no" \/ g.gcstate = "callfin"
  /\ LET s == udata2finalize(g) IN g' = [s EXCEPT !.slots[MainThread] = @ \cup {Head(g.tobefnz)}]
  /\ infin' = TRUE /\ UNCHANGED <<program, waits>>
EndFinalizer ==
  /\ infin /\ infin' = FALSE /\ UNCHANGED <<program, g>>
  /\ IF waits = "finalizers" THEN Calls ELSE UNCHANGED waits
------------------------------------------------------------------------------
(* ---- the program ---- *)
Runs == waits = "no" \/ infin
Refs(o) == g.slots[o] \cup Open(g, o)
RECURSIVE ReachFrom(_)
ReachFrom(R) == LET S == R \cup UNION {Refs(o) : o \in R} IN IF S = R THEN R ELSE ReachFrom(S)
Accessible == ReachFrom({MainThread, Registry})
Stored(o, v) == <<o, v>> \in program.stores /\ {o, v} \subseteq Accessible
Program(s) == Runs /\ g' = s /\ UNCHANGED <<program, waits, infin>>
Add(s, o, v) == [s EXCEPT !.slots[o] = @ \cup {v}]

NewObject == \E o \in Objects \ Upvals :
  /\ g.color[o] = "free" /\ <<MainThread, o>> \in program.stores
  /\ Program([Add(g, MainThread, o) EXCEPT !.color[o] = "white", !.age[o] = "new", !.allgc = <<o>> \o @])
luaF_findupval == \E u \in Upvals, th \in Threads \cap Accessible : \E v \in {{}} \cup {{x} : x \in g.slots[th]} :
  /\ g.color[u] = "free" /\ (\A x \in v : <<u, x>> \in program.stores)
  /\ Program([g EXCEPT !.color[u] = "white", !.age[u] = "new", !.home[u] = th, !.slots[u] = v, !.allgc = <<u>> \o @])
Push == \E th \in Threads, v \in Objects : Stored(th, v) /\ v \notin Upvals /\ Program(Add(g, th, v))     \* no barrier
Pop  == \E th \in Threads \cap Accessible : \E v \in g.slots[th] \ UNION {g.slots[u] : u \in Open(g, th)} :
          Program([g EXCEPT !.slots[th] = @ \ {v}])
SetTable == \E o, v \in Objects :
  Type[o] \in {"table", "weak"} /\ Stored(o, v) /\ Program(luaC_barrierback(Add(g, o, v), o, v))
lua_setmetatable == \E o, v \in Objects :
  Type[o] = "table" /\ Type[v] = "table" /\ Stored(o, v) /\ Program(luaC_barrier(Add(g, o, v), o, v))
Remove1 == \E o \in Accessible \ (Threads \cup Upvals) : \E v \in g.slots[o] : Program([g EXCEPT !.slots[o] = @ \ {v}])
(* The upvalue of a C closure, or of a Lua closure that gets its upvalues:  *)
(* only a new closure, or lua_upvaluejoin, takes one that is open.          *)
SetUpvalue == \E f, v \in Objects :
  /\ Type[f] = "closure" /\ Stored(f, v)
  /\ v \in Upvals => ~IsOpen(g, v) \/ IsWhite(g, f) \/ program.joins
  /\ Program(luaC_barrier(Add(g, f, v), f, v))
lua_setupvalue == \E u \in Upvals, v \in Objects :
  /\ Stored(u, v)
  /\ LET s == [g EXCEPT !.slots[u] = {v}] IN
     Program(luaC_barrier(IF IsOpen(g, u) THEN Add(s, g.home[u], v) ELSE s, u, v))
CloseUpval == \E u \in Upvals \cap Accessible : IsOpen(g, u) /\ Program(luaF_closeupval(g, u))
luaC_checkfinalizer == \E o \in program.finalizers \cap Accessible :
  /\ o \in Range(g.allgc)
  /\ LET s == IF g.gcstate = "sweep" THEN [g EXCEPT !.color[o] = "white", !.age[o] = "new", !.tosweep = @ \ {o}]
              ELSE checkpointers(g, g.allgc, Fields, o)
     IN Program([s EXCEPT !.allgc = SelectSeq(@, LAMBDA x : x # o), !.finobj = <<o>> \o @])

(* The state was put in generational mode when it had nothing else. *)
Init ==
  /\ g = [color |-> [o \in Objects |-> CASE o = MainThread -> "gray" [] o = Registry -> "black" [] OTHER -> "free"],
          age   |-> [o \in Objects |-> IF o \in {MainThread, Registry} THEN "old" ELSE "new"],
          slots |-> [o \in Objects |-> {}], home |-> [o \in Objects |-> null],
          allgc |-> <<Registry, MainThread>>, finobj |-> <<>>, tobefnz |-> <<>>,
          survival |-> Registry, old1 |-> Registry, reallyold |-> Registry, firstold1 |-> null,
          finobjsur |-> null, finobjold1 |-> null, finobjrold |-> null,
          gray |-> {}, grayagain |-> {MainThread}, weak |-> {}, tosweep |-> {},
          gcstate |-> "propagate", gckind |-> "minor"]
  /\ waits = "no" /\ infin = FALSE /\ program \in Programs
Next == \/ NewObject \/ luaF_findupval \/ Push \/ Pop \/ SetTable \/ lua_setmetatable \/ Remove1
        \/ SetUpvalue \/ lua_setupvalue \/ CloseUpval \/ luaC_checkfinalizer
        \/ youngcollection \/ sweepstep \/ MajorCycle \/ fullgen \/ Emergency \/ luaC_changemode \/ EnterGen
        \/ GCTM \/ EndFinalizer
Spec == Init /\ [][Next]_vars
------------------------------------------------------------------------------
(* ---- properties ---- *)
(* Nothing that the program can reach, no object that waits for its         *)
(* finalizer and nothing in the collector's lists is freed or dead, in      *)
(* particular by a young collection, which does not visit old objects.      *)
NothingLost ==
  \A o \in Accessible \cup Range(g.tobefnz) \cup (IF g.gckind = "minor" THEN g.grayagain \cup g.gray ELSE {}) :
    g.color[o] \notin {"free", "dead"}

Young(o) == g.age[o] \in {"new", "survival"}
(* Between young collections an object that will not be visited by the next *)
(* one refers to no young object: one that does is gray or touched and      *)
(* listed, or on the way to get old, or an open upvalue (luaC_barrierback_, *)
(* luaC_barrier_, correctgraylists, markold).                               *)
Visited(o) == \/ o \in g.grayagain \cup g.gray
              \/ IsWhite(g, o) \/ g.age[o] \in {"old0", "old1"}
              \/ Type[o] = "upval" /\ IsOpen(g, o)
OldHidesNoYoung == g.gckind = "minor" =>
  \A o \in Objects : g.color[o] # "free" /\ ~Visited(o) => \A v \in g.slots[o] : ~Young(v)

Segment(list, from, to) == {list[i] : i \in Below(list, from) + 1..Below(list, to)}
(* The sublists that a young collection sweeps and marks hold every object  *)
(* that has to be: new ones come first, then survivals, then those that are *)
(* old, and an OLD1 object is between 'firstold1' and 'reallyold'.          *)
SublistsRight == g.gckind = "minor" =>
  /\ Below(g.allgc, g.survival) <= Below(g.allgc, g.old1) /\ Below(g.allgc, g.old1) <= Below(g.allgc, g.reallyold)
  /\ Below(g.finobj, g.finobjsur) <= Below(g.finobj, g.finobjold1) /\ Below(g.finobj, g.finobjold1) <= Below(g.finobj, g.finobjrold)
  /\ \A o \in Segment(g.allgc, g.old1, null) \cup Segment(g.finobj, g.finobjold1, null) : ~IsWhite(g, o) /\ ~Young(o)
  /\ \A o \in Segment(g.allgc, g.survival, null) \cup Segment(g.finobj, g.finobjsur, null) : g.age[o] # "new"
  /\ \A o \in Range(g.allgc) : g.age[o] = "old1" =>
       g.firstold1 # null /\ o \in Segment(g.allgc, g.firstold1, g.reallyold)
  /\ \A o \in Range(g.finobj) : g.age[o] = "old1" => o \in Segment(g.finobj, First(g.finobj), g.finobjrold)
=============================================================================
