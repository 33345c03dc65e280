------------------------------- MODULE LuaGC -------------------------------
(***************************************************************************)
(* The incremental garbage collector of the Lua core (lgc.c, lgc.h) and    *)
(* every operation of the mutator that the collector depends on: creating  *)
(* objects, writing references through the write barriers, opening and     *)
(* closing upvalues, interning strings, setting metatables, asking for a   *)
(* full collection and closing the state.                                  *)
(*                                                                         *)
(* What is abstracted.  The singly linked lists are sets: which list an    *)
(* object is in is kept ('list', 'gray', 'grayagain', 'tosweep'), its      *)
(* position is not, so the collector takes "some" object where the code    *)
(* takes the first one.  An object has its type for ever (its address is   *)
(* reused for objects of the same type only).  The mutator may be          *)
(* interrupted by a collector step after any of its operations, where the  *)
(* code steps only at luaC_checkGC, when the debt is positive.             *)
(***************************************************************************)
EXTENDS FiniteSets

CONSTANTS
  Obj,         \* the addresses collectable objects can live at
  Kind,        \* [Obj -> Kinds], the type of the object at an address
  MainThread,  \* the main thread, mainthread(g)
  Registry,    \* the registry table, g->l_registry
  Prim,        \* any value that is not collectable (number, boolean, ...)
  MetaGC,      \* the tables that, used as metatable, have a '__gc'
  Stores,      \* bound: the <<key, value>> pairs the program may put in an
               \* object, <<Prim, value>> for a stack, upvalue or closure
  Metas,       \* bound: the metatables the program may give to an object
               \* (Prim: none)
  TypeMetas,   \* bound: the metatables it may give to a basic type
  SetModes,    \* bound: the '__mode's the program may give to a table
  Requests,    \* which of "collect", "emergency", "close" the program does
  LowStack     \* whether luaD_checkminstack may fail

Kinds == {"table", "udata", "closure", "thread", "upval", "string"}
Modes == {"strong", "weakvalue", "ephemeron", "allweak"}

ASSUME ObjAssumption ==
  /\ Kind \in [Obj -> Kinds]
  /\ MainThread \in Obj /\ Kind[MainThread] = "thread"
  /\ Registry \in Obj /\ Kind[Registry] = "table"
  /\ Prim \notin Obj
  /\ MetaGC \subseteq Obj
  /\ Stores \in [Obj -> SUBSET ((Obj \cup {Prim}) \X (Obj \cup {Prim}))]
  /\ Metas \in [Obj -> SUBSET (Obj \cup {Prim})]
  /\ TypeMetas \subseteq Obj
  /\ SetModes \in [Obj -> SUBSET Modes]
  /\ Requests \subseteq {"collect", "emergency", "close"}
  /\ LowStack \in BOOLEAN

VARIABLES
  color,         \* color bits of 'marked', "free" when no object is there
  currentwhite,  \* g->currentwhite
  slots,         \* array-like references: stack, upvalues, value of an upvalue
  meta,          \* the metatable, as a set with at most one element
  entries,       \* the <<key, value>> entries of a table (Prim key: array part)
  mode,          \* the '__mode' a table has for the tables it is metatable of
  owner,         \* the threads in whose 'openupval' list an upvalue is
  list,          \* the list an object is in: allgc, finobj or tobefnz
  gray,          \* g->gray
  grayagain,     \* g->grayagain
  twups,         \* g->twups, threads with open upvalues
  tosweep,       \* what *g->sweepgc still has to sweep in the current list
  gcstate,       \* g->gcstate
  mt,            \* g->mt[], metatables of the basic types
  strcache,      \* g->strcache[][]
  full,          \* progress of luaC_fullgc, "none" outside of it
  emergency,     \* g->gcemergency
  infin,         \* a finalizer runs (g->gcstp has GCSTPGC)
  saved,         \* 'full' of the luaC_fullgc that runs the finalizer
  life           \* "open"; "closing" (g->gcstp has GCSTPCLS); "closed"

heap   == <<slots, meta, entries, mode, owner, mt, strcache>>
marks  == <<color, gray, grayagain>>
sweeps == <<currentwhite, gcstate, tosweep>>
run    == <<full, emergency, infin, saved, life>>
vars   == <<heap, marks, sweeps, run, list, twups>>

Whites  == {"white0", "white1"}
Colors  == Whites \cup {"gray", "black", "free"}
Sweeping  == {"swpallgc", "swpfinobj", "swptobefnz", "swpend"}
Marking   == {"propagate", "enteratomic"}
GCStates  == Sweeping \cup Marking \cup {"callfin", "pause"}
FullPhases == {"none", "tostart", "tocallfin", "topause"}

----------------------------------------------------------------------------
(***************************************************************************)
(* The heap as a graph.                                                    *)
(***************************************************************************)

Upvals  == {o \in Obj : Kind[o] = "upval"}
Threads == {o \in Obj : Kind[o] = "thread"}
Strings == {o \in Obj : Kind[o] = "string"}
Tables  == {o \in Obj : Kind[o] = "table"}
HasMeta == {o \in Obj : Kind[o] \in {"table", "udata"}}

(* What a program can hold in a variable: upvalues are internal objects.   *)
Values  == Obj \ Upvals

IsWhite(o) == color[o] \in Whites
OtherWhite == IF currentwhite = "white0" THEN "white1" ELSE "white0"
IsDead(o)  == color[o] = OtherWhite
Allocated(o) == color[o] # "free"

OpenUpvals(th) == {u \in Upvals : th \in owner[u]}
IsOpen(u)      == owner[u] # {}

(* getmode: only tables are weak, and the metatable says how.              *)
Mode(o) == IF Kind[o] = "table" /\ \E m \in meta[o] : mode[m] # "strong"
           THEN mode[CHOOSE m \in meta[o] : TRUE]
           ELSE "strong"

Keys(es) == {e[1] : e \in es} \ {Prim}
Vals(es) == {e[2] : e \in es} \ {Prim}

(* Every object another object refers to, weakly or strongly.              *)
Refs(o) == slots[o] \cup meta[o] \cup Keys(entries[o]) \cup Vals(entries[o])
             \cup OpenUpvals(o)

Roots == {MainThread, Registry} \cup mt

(* What can be reached from a set of objects, the entries of weak tables   *)
(* included: the least set with them that is closed under Refs.            *)
Least(F)     == CHOOSE S \in F : \A T \in F : S \subseteq T
Closed(S)    == \A o \in S : Refs(o) \subseteq S
ReachFrom(R) == Least({S \in SUBSET Obj : R \subseteq S /\ Closed(S)})

(* The objects the mutator can get hold of.                                *)
Accessible == ReachFrom(Roots)

In(l) == {o \in Obj : list[o] = l /\ Allocated(o)}

----------------------------------------------------------------------------
(***************************************************************************)
(* Marking (reallymarkobject).  A marked upvalue has its value marked at   *)
(* once; strings and closed upvalues turn black, an open upvalue stays     *)
(* gray outside of every list, and everything else goes to 'gray'.         *)
(***************************************************************************)

keepinvariant == gcstate \in Marking
issweepphase  == gcstate \in Sweeping

(* The white objects that marking the objects in S reaches.                *)
Reached(S) ==
  LET w == {o \in S : IsWhite(o)}
  IN  w \cup {v \in UNION {slots[u] : u \in w \cap Upvals} : IsWhite(v)}

Blackens(o) == Kind[o] = "string" \/ (Kind[o] = "upval" /\ ~IsOpen(o))

MarkColor(S) == [o \in Obj |-> IF o \notin Reached(S) THEN color[o]
                               ELSE IF Blackens(o) THEN "black" ELSE "gray"]
MarkGray(S)  == gray \cup {o \in Reached(S) : Kind[o] \notin {"string", "upval"}}

(* luaC_barrier_: mark 'v' while marking, whiten 'o' while sweeping.       *)
Barrier(o, v) ==
  /\ IF color[o] = "black" /\ IsWhite(v)
     THEN IF keepinvariant
          THEN color' = MarkColor({v}) /\ gray' = MarkGray({v})
          ELSE color' = [color EXCEPT ![o] = currentwhite] /\ UNCHANGED gray
     ELSE UNCHANGED <<color, gray>>
  /\ UNCHANGED grayagain

(* luaC_barrierback_: a black object goes gray and into 'grayagain'.       *)
BarrierBack(o, V) ==
  /\ IF color[o] = "black" /\ \E v \in V : IsWhite(v)
     THEN /\ color' = [color EXCEPT ![o] = "gray"]
          /\ grayagain' = grayagain \cup {o}
     ELSE UNCHANGED <<color, grayagain>>
  /\ UNCHANGED gray

----------------------------------------------------------------------------
(***************************************************************************)
(* The mutator.  It runs outside of luaC_fullgc, and while the state is    *)
(* being closed only inside finalizers.  'acc' is the set Accessible.      *)
(***************************************************************************)

MutatorRuns == full = "none" /\ (life = "open" \/ (life = "closing" /\ infin))

Push(th, x) ==
  /\ <<Prim, x>> \in Stores[th]
  /\ slots' = [slots EXCEPT ![th] = @ \cup {x}]

(* luaC_newobjdt: a white object at the head of 'allgc', anchored by the   *)
(* caller in the stack of the running thread.                              *)
NewObject(th, o) ==
  /\ color[o] = "free" /\ Kind[o] # "upval"
  /\ color' = [color EXCEPT ![o] = currentwhite]
  /\ list' = [list EXCEPT ![o] = "allgc"]
  /\ Push(th, o)
  /\ UNCHANGED <<meta, entries, mode, owner, mt, strcache, gray, grayagain,
                 sweeps, run, twups>>

(* A value read from anywhere goes to a stack; threads have no barrier.    *)
PushValue(th, x) ==
  /\ x \in Values \ slots[th]
  /\ Push(th, x)
  /\ UNCHANGED <<meta, entries, mode, owner, mt, strcache, marks, sweeps, run,
                 list, twups>>

PopValue(th, x) ==
  /\ x \in slots[th]
  /\ slots' = [slots EXCEPT ![th] = @ \ {x}]
  /\ UNCHANGED <<meta, entries, mode, owner, mt, strcache, marks, sweeps, run,
                 list, twups>>

(* Faulty SetEntry: luaH_newkey forgets its barrier for the new key.       *)
SetEntryKeyUnmarked(t, k, v) ==
  LET new == {e \in entries[t] : k = Prim \/ e[1] # k} \cup {<<k, v>>}
  IN  /\ Kind[t] = "table"
      /\ <<k, v>> \in Stores[t] \ entries[t]
      /\ entries' = [entries EXCEPT ![t] = new]
      /\ BarrierBack(t, {v} \ {Prim})
      /\ UNCHANGED <<slots, meta, mode, owner, mt, strcache, sweeps, run, list, twups>>

(* t[k] = v with v not nil (aux_rawset, luaV_finishset): luaH_newkey has   *)
(* the barrier for a new key, the caller the one for the value.            *)
SetEntry(t, k, v) ==
  LET kept == {e \in entries[t] : k = Prim \/ e[1] # k}
      new  == kept \cup {<<k, v>>}
  IN  /\ Kind[t] = "table"
      /\ <<k, v>> \in Stores[t] \ entries[t]
      /\ entries' = [entries EXCEPT ![t] = new]
      /\ BarrierBack(t, {k, v} \ {Prim})
      /\ UNCHANGED <<slots, meta, mode, owner, mt, strcache, sweeps, run, list, twups>>

(* t[k] = nil: an absent value needs no barrier.                           *)
ClearEntry(t, e) ==
  /\ e \in entries[t]
  /\ entries' = [entries EXCEPT ![t] = @ \ {e}]
  /\ UNCHANGED <<slots, meta, mode, owner, mt, strcache, marks, sweeps, run,
                 list, twups>>

(* lua_setiuservalue: a user value, with the backward barrier.             *)
SetUserValue(u, v) ==
  /\ Kind[u] = "udata"
  /\ entries[u] # {<<Prim, v>>} /\ <<Prim, v>> \in Stores[u]
  /\ entries' = [entries EXCEPT ![u] = {<<Prim, v>>}]
  /\ BarrierBack(u, {v})
  /\ UNCHANGED <<slots, meta, mode, owner, mt, strcache, sweeps, run, list, twups>>

(* References of closures and prototypes (pushclosure, lua_pushcclosure,   *)
(* lua_upvaluejoin, lua_setupvalue, addk): the forward barrier.            *)
SetReference(c, x) ==
  /\ Kind[c] = "closure"
  /\ slots[c] # {x} /\ <<Prim, x>> \in Stores[c]
  /\ slots' = [slots EXCEPT ![c] = {x}]
  /\ Barrier(c, x)
  /\ UNCHANGED <<meta, entries, mode, owner, mt, strcache, sweeps, run, list, twups>>

(* luaF_findupval when it makes a new upvalue: it captures a stack slot    *)
(* that holds x, and the thread enters 'twups'.                            *)
FindUpval(th, u, x) ==
  /\ color[u] = "free" /\ Kind[u] = "upval"
  /\ x \in slots[th]
  /\ color' = [color EXCEPT ![u] = currentwhite]
  /\ list' = [list EXCEPT ![u] = "allgc"]
  /\ owner' = [owner EXCEPT ![u] = {th}]
  /\ slots' = [slots EXCEPT ![u] = {x}]
  /\ twups' = twups \cup {th}
  /\ UNCHANGED <<meta, entries, mode, mt, strcache, gray, grayagain, sweeps, run>>

(* Assigning to the variable behind an upvalue: OP_SETUPVAL, or a write to *)
(* the register while the upvalue is open (gray or white: no barrier).     *)
SetUpval(u, v) ==
  /\ Kind[u] = "upval" /\ slots[u] # {v} /\ <<Prim, v>> \in Stores[u]
  /\ slots' = [slots EXCEPT ![u] = {v}]
  /\ Barrier(u, v)
  /\ UNCHANGED <<meta, entries, mode, owner, mt, strcache, sweeps, run, list, twups>>

(* Faulty CloseUpval: the closed upvalue stays gray.                       *)
CloseUpvalGray(u) ==
  /\ Kind[u] = "upval" /\ IsOpen(u)
  /\ owner' = [owner EXCEPT ![u] = {}]
  /\ UNCHANGED <<slots, meta, entries, mode, mt, strcache, marks, sweeps, run,
                 list, twups>>

WhiteSlots(u) == {x \in slots[u] : IsWhite(x)}

(* One round of luaF_closeupval: the value moves into the upvalue, which   *)
(* may not stay gray.                                                      *)
CloseUpval(u) ==
  /\ Kind[u] = "upval" /\ IsOpen(u)
  /\ owner' = [owner EXCEPT ![u] = {}]
  /\ IF IsWhite(u)
     THEN UNCHANGED <<color, gray>>
     ELSE IF WhiteSlots(u) = {}
     THEN color' = [color EXCEPT ![u] = "black"] /\ UNCHANGED gray
     ELSE IF keepinvariant
     THEN /\ color' = [MarkColor(WhiteSlots(u)) EXCEPT ![u] = "black"]
          /\ gray' = MarkGray(WhiteSlots(u))
     ELSE color' = [color EXCEPT ![u] = currentwhite] /\ UNCHANGED gray
  /\ UNCHANGED <<slots, meta, entries, mode, mt, strcache, grayagain, sweeps, run,
                 list, twups>>

(* lua_setmetatable on a table or userdata, with luaC_checkfinalizer: an   *)
(* object that 'moves' leaves 'allgc' for list 'to', and a sweep in        *)
(* progress sweeps it right away.                                          *)
SetMetaAndMove(o, m, moves, to) ==
  /\ o \in HasMeta /\ m \in Tables \cap Metas[o]
  /\ meta' = [meta EXCEPT ![o] = {m}]
  /\ IF moves /\ issweepphase
     THEN color' = [color EXCEPT ![o] = currentwhite]
          /\ UNCHANGED <<gray, grayagain>>
     ELSE Barrier(o, m)
  /\ list' = IF moves THEN [list EXCEPT ![o] = to] ELSE list
  /\ tosweep' = IF moves THEN tosweep \ {o} ELSE tosweep
  /\ UNCHANGED <<slots, entries, mode, owner, mt, strcache, currentwhite,
                 gcstate, run, twups>>

(* Faulty SetMetatables: an object is registered while the state is being  *)
(* closed, with the others or to be finalized at once.                     *)
SetMetatableAlways(o, m) ==
  SetMetaAndMove(o, m, list[o] = "allgc" /\ m \in MetaGC, "finobj")
SetMetatableQueues(o, m) ==
  SetMetaAndMove(o, m, list[o] = "allgc" /\ m \in MetaGC,
                 IF life = "open" THEN "finobj" ELSE "tobefnz")

(* An object is registered for finalization when its metatable, a new one  *)
(* or the one it has already, has a '__gc': also again, after its          *)
(* finalizer was called, but not while the state is being closed.          *)
SetMetatable(o, m) ==
  SetMetaAndMove(o, m, list[o] = "allgc" /\ m \in MetaGC /\ life = "open", "finobj")

(* lua_setmetatable with nil: no barrier, and 'finobj' keeps the object.   *)
ClearMetatable(o) ==
  /\ meta[o] # {} /\ Prim \in Metas[o]
  /\ meta' = [meta EXCEPT ![o] = {}]
  /\ UNCHANGED <<slots, entries, mode, owner, mt, strcache, marks, sweeps, run,
                 list, twups>>

(* Assigning to the '__mode' field of a table.                             *)
SetMode(m, md) ==
  /\ m \in Tables /\ md \in SetModes[m] \ {mode[m]}
  /\ mode' = [mode EXCEPT ![m] = md]
  /\ UNCHANGED <<slots, meta, entries, owner, mt, strcache, marks, sweeps, run,
                 list, twups>>

(* Faulty SetTypeMetatable: any collectable object is taken.               *)
SetTypeMetatableAny(m) ==
  /\ m \in TypeMetas /\ mt # {m}
  /\ mt' = {m}
  /\ UNCHANGED <<slots, meta, entries, mode, owner, strcache, marks, sweeps, run,
                 list, twups>>

(* lua_setmetatable on a value of a basic type: a root without barrier.    *)
SetTypeMetatable(m) ==
  /\ m \in Tables \cap TypeMetas /\ mt # {m}
  /\ mt' = {m}
  /\ UNCHANGED <<slots, meta, entries, mode, owner, strcache, marks, sweeps, run,
                 list, twups>>

(* internshrstr finds the string in the string table, whatever its color,  *)
(* and brings a dead one back; luaS_new also enters it in the string cache.*)
InternString(th, s) ==
  /\ Kind[s] = "string" /\ Allocated(s)
  /\ s \notin slots[th]
  /\ color' = IF IsDead(s) THEN [color EXCEPT ![s] = currentwhite] ELSE color
  /\ Push(th, s)
  /\ \E c \in {strcache, strcache \cup {s}} : strcache' = c
  /\ UNCHANGED <<meta, entries, mode, owner, mt, gray, grayagain, sweeps, run,
                 list, twups>>

(* luaS_new hits the cache: the cached string is used as it is.            *)
CachedString(th, s) ==
  /\ s \in strcache \ slots[th]
  /\ Push(th, s)
  /\ UNCHANGED <<meta, entries, mode, owner, mt, strcache, marks, sweeps, run,
                 list, twups>>

MutatorOn(acc) ==
  LET val == acc \cap Values
  IN  \/ \E th \in acc \cap Threads, o \in Obj : NewObject(th, o)
      \/ \E th \in acc \cap Threads, x \in val : PushValue(th, x)
      \/ \E th \in acc \cap Threads, x \in val : PopValue(th, x)
      \/ \E t \in acc \cap Tables, k \in val \cup {Prim}, v \in val \cup {Prim} :
           SetEntry(t, k, v)
      \/ \E t \in acc \cap Tables : \E e \in entries[t] : ClearEntry(t, e)
      \/ \E u \in acc, v \in val : SetUserValue(u, v)
      \/ \E c \in acc, x \in acc : SetReference(c, x)
      \/ \E th \in acc \cap Threads, u \in Obj, x \in val : FindUpval(th, u, x)
      \/ \E u \in acc, v \in val : SetUpval(u, v)
      \/ \E u \in acc : CloseUpval(u)
      \/ \E o \in acc, m \in acc : SetMetatable(o, m)
      \/ \E o \in acc : ClearMetatable(o)
      \/ \E m \in acc, md \in Modes : SetMode(m, md)
      \/ \E m \in acc : SetTypeMetatable(m)
      \/ \E th \in acc \cap Threads, s \in Obj : InternString(th, s)
      \/ \E th \in acc \cap Threads, s \in strcache : CachedString(th, s)

Mutator == MutatorRuns /\ \E acc \in {Accessible} : MutatorOn(acc)

----------------------------------------------------------------------------
(***************************************************************************)
(* The collector, one action per singlestep.  It steps inside luaC_fullgc  *)
(* until the state that phase runs to, and else between two operations of  *)
(* the mutator unless g->gcstp stops it.                                   *)
(***************************************************************************)

FullTarget == [tostart |-> "pause", tocallfin |-> "callfin", topause |-> "pause"]

GCRuns == IF full = "none" THEN life = "open" /\ ~infin
                           ELSE gcstate # FullTarget[full]

(* GCSpause: restartcollection marks the roots and empties the gray lists. *)
Restart ==
  LET rootset == Roots \cup In("tobefnz")
  IN  /\ gcstate = "pause"
      /\ gcstate' = "propagate"
      /\ color' = MarkColor(rootset)
      /\ gray' = {o \in Reached(rootset) : Kind[o] \notin {"string", "upval"}}
      /\ grayagain' = {}
      /\ UNCHANGED <<heap, currentwhite, tosweep, run, list, twups>>

(* The open upvalues of a thread and the stack slots they refer to.        *)
StackUpvals(o) == OpenUpvals(o) \cup UNION {slots[u] : u \in OpenUpvals(o)}

(* What traversing object o outside of the atomic phase marks (propagation *)
(* within an ephemeron table sees the colors before the traversal).        *)
Traversed(o) ==
  meta[o] \cup slots[o] \cup StackUpvals(o)
    \cup (CASE Mode(o) = "strong" -> Keys(entries[o]) \cup Vals(entries[o])
             [] Mode(o) = "weakvalue" -> Keys(entries[o])
                  \cup (Vals(entries[o]) \cap Strings)
             [] Mode(o) = "ephemeron" -> (Keys(entries[o]) \cap Strings)
                  \cup Vals({e \in entries[o] : \/ e[1] \in Strings \cup {Prim}
                                               \/ ~IsWhite(e[1])})
             [] OTHER -> {})

(* Faulty PropagateMark: a traversed thread is not visited again.          *)
PropagateMarkOnce(o) ==
  LET again  == Mode(o) # "strong"
      marked == MarkColor(Traversed(o))
  IN  /\ gcstate = "propagate" /\ full = "none"
      /\ o \in gray
      /\ color' = IF again THEN marked ELSE [marked EXCEPT ![o] = "black"]
      /\ gray' = MarkGray(Traversed(o)) \ {o}
      /\ grayagain' = IF again THEN grayagain \cup {o} ELSE grayagain
      /\ UNCHANGED <<heap, sweeps, run, list, twups>>

(* GCSpropagate: propagatemark traverses one gray object.  Threads and     *)
(* weak tables have to be visited again in the atomic phase.               *)
PropagateMark(o) ==
  LET again  == Kind[o] = "thread" \/ Mode(o) # "strong"
      marked == MarkColor(Traversed(o))
  IN  /\ gcstate = "propagate" /\ full = "none"
      /\ o \in gray
      /\ color' = IF again THEN marked ELSE [marked EXCEPT ![o] = "black"]
      /\ gray' = MarkGray(Traversed(o)) \ {o}
      /\ grayagain' = IF again THEN grayagain \cup {o} ELSE grayagain
      /\ UNCHANGED <<heap, sweeps, run, list, twups>>

(* With 'fast' the propagate phase leaves its work to the atomic phase.    *)
FinishPropagate ==
  /\ gcstate = "propagate"
  /\ gcstate' = "enteratomic"
  /\ UNCHANGED <<heap, marks, currentwhite, tosweep, run, list, twups>>

(* What traversing o in the atomic phase marks when S is marked and the    *)
(* tables hold ent: black objects are not traversed again, an upvalue has  *)
(* its value marked with it or by remarkupvals.                            *)
AtomicEntries(o, S, es) ==
  CASE Mode(o) = "strong"    -> Keys(es) \cup Vals(es)
    [] Mode(o) = "weakvalue" -> Keys(es) \cup (Vals(es) \cap Strings)
    [] Mode(o) = "ephemeron" -> (Keys(es) \cap Strings)
         \cup Vals({e \in es : e[1] \in Strings \cup {Prim} \cup S})
    [] OTHER -> Vals(es) \cap Strings

(* Faulty UpvalRefs: atomic forgets remarkupvals.                          *)
UpvalRefsNoRemark(u) == IF IsWhite(u) THEN slots[u] ELSE {}
UpvalRefs(u) == IF IsWhite(u) \/ owner[u] \cap twups # {} THEN slots[u] ELSE {}

AtomicRefs(o, S, ent) ==
  IF color[o] = "black" THEN {}
  ELSE IF Kind[o] = "upval" THEN UpvalRefs(o)
  ELSE meta[o] \cup slots[o] \cup StackUpvals(o) \cup AtomicEntries(o, S, ent[o])

(* propagateall and convergeephemerons: all that the objects in M lead to. *)
Converged(M, ent) ==
  Least({S \in SUBSET Obj : /\ M \subseteq S
                            /\ \A p \in S : AtomicRefs(p, S, ent) \subseteq S})

(* clearbyvalues and clearbykeys on the weak tables T, when S is marked.   *)
Weak(S) == Strings \cup {Prim} \cup S
ClearByValuesLate(T, S, ent) ==   \* faulty: keeps objects to be finalized
  [t \in Obj |-> IF t \in T /\ Mode(t) \in {"weakvalue", "allweak"} /\ color[t] # "black"
                 THEN {e \in ent[t] : e[2] \in Weak(S \cup In("finobj"))} ELSE ent[t]]
ClearByValues(T, S, ent) ==
  [t \in Obj |-> IF t \in T /\ Mode(t) \in {"weakvalue", "allweak"} /\ color[t] # "black"
                 THEN {e \in ent[t] : e[2] \in Weak(S)} ELSE ent[t]]
ClearByKeys(T, S, ent) ==
  [t \in Obj |-> IF t \in T /\ Mode(t) \in {"ephemeron", "allweak"} /\ color[t] # "black"
                 THEN {e \in ent[t] : e[1] \in Weak(S)} ELSE ent[t]]

(* What the atomic phase leaves behind when m1 was marked before weak      *)
(* values were cleared, m2 with the resurrected objects fz before weak     *)
(* keys were, and m3 at the end; e2 are the entries without the dead keys. *)
AtomicResult(m1, fz, m2, e2, m3) ==
  /\ color' = [o \in Obj |-> IF o \notin m3 THEN color[o]
                             ELSE IF o \in Upvals /\ IsOpen(o) THEN "gray"
                             ELSE "black"]
  /\ entries' = ClearByValues(m2 \ m1, m2, e2)
  /\ twups' = {th \in m2 \cap Threads : OpenUpvals(th) # {}}
  /\ list' = [o \in Obj |-> IF o \in fz THEN "tobefnz" ELSE list[o]]
  /\ strcache' = strcache \cap m3

AtomicRoots(L) == {o \in Obj : color[o] \in {"gray", "black"}} \cup {L, Registry} \cup mt

(* Clearing keys of 'allweak' tables marks the strings among them.         *)
KeyStrings(T, ent) ==
  {s \in Strings : \E t \in T : /\ Mode(t) = "allweak" /\ color[t] # "black"
                                /\ s \in Keys(ent[t])}

(* GCSenteratomic: atomic and entersweep in one indivisible step.  L is    *)
(* the running thread, e1 the entries without dead values, and             *)
(* separatetobefnz moves fz to 'tobefnz'.                                  *)
Atomic(L) ==
  /\ gcstate = "enteratomic"
  /\ \E m1 \in {Converged(AtomicRoots(L), entries)} :
     \E e1 \in {ClearByValues(m1, m1, entries)}, fz \in {In("finobj") \ m1} :
     \E m2 \in {Converged(m1 \cup In("tobefnz") \cup fz, e1)} :
     \E e2 \in {ClearByKeys(m2, m2, e1)} :
       AtomicResult(m1, fz, m2, e2, m2 \cup KeyStrings(m2, e2))
  /\ gray' = {} /\ grayagain' = {}
  /\ currentwhite' = OtherWhite
  /\ gcstate' = "swpallgc"
  /\ tosweep' = In("allgc")
  /\ UNCHANGED <<slots, meta, mode, owner, mt, run>>

(* freeobj: a thread closes its open upvalues, an open upvalue leaves its  *)
(* thread.  The address becomes free.                                      *)
FreeObj(o) ==
  /\ color' = [p \in Obj |->
                 IF p = o THEN "free"
                 ELSE IF o \notin owner[p] \/ IsWhite(p) THEN color[p]
                 ELSE IF \E v \in slots[p] : IsWhite(v) THEN currentwhite
                 ELSE "black"]
  /\ owner' = [p \in Obj |-> IF p = o THEN {} ELSE owner[p] \ {o}]
  /\ slots' = [slots EXCEPT ![o] = {}]
  /\ meta' = [meta EXCEPT ![o] = {}]
  /\ entries' = [entries EXCEPT ![o] = {}]
  /\ mode' = [mode EXCEPT ![o] = "strong"]
  /\ list' = [list EXCEPT ![o] = "allgc"]

(* Faulty SweepOne: dead objects are taken for live ones.                  *)
SweepOneKeeps(o) ==
  /\ o \in tosweep
  /\ tosweep' = tosweep \ {o}
  /\ color' = [color EXCEPT ![o] = currentwhite]
  /\ UNCHANGED <<heap, list, gray, grayagain, currentwhite, gcstate, run, twups>>

(* sweeplist, one object.                                                  *)
SweepOne(o) ==
  /\ o \in tosweep
  /\ tosweep' = tosweep \ {o}
  /\ IF IsDead(o)
     THEN FreeObj(o)
     ELSE /\ color' = [color EXCEPT ![o] = currentwhite]
          /\ UNCHANGED <<owner, slots, meta, entries, mode, list>>
  /\ UNCHANGED <<mt, strcache, gray, grayagain, currentwhite, gcstate, run, twups>>

(* sweepstep when the list is finished, and GCSswpend.                     *)
SweepNext ==
  /\ issweepphase /\ tosweep = {}
  /\ \E next \in {[swpallgc |-> "swpfinobj", swpfinobj |-> "swptobefnz",
                   swptobefnz |-> "swpend", swpend |-> "callfin"]} :
       gcstate' = next[gcstate]
  /\ tosweep' = CASE gcstate = "swpallgc" -> In("finobj")
                  [] gcstate = "swpfinobj" -> In("tobefnz")
                  [] OTHER -> {}
  /\ UNCHANGED <<heap, marks, currentwhite, run, list, twups>>

(* Faulty GCTM: the object is not swept.                                   *)
GCTMUnswept(th, o) ==
  LET calls == meta[o] \cap MetaGC # {}
  IN  /\ o \in In("tobefnz")
      /\ list' = [list EXCEPT ![o] = "allgc"]
      /\ tosweep' = tosweep \ {o}
      /\ slots' = IF calls THEN [slots EXCEPT ![th] = @ \cup {o}] ELSE slots
      /\ infin' = calls
      /\ saved' = IF calls THEN full ELSE saved
      /\ full' = IF calls THEN "none" ELSE full
      /\ UNCHANGED <<meta, entries, mode, owner, mt, strcache, marks,
                     currentwhite, gcstate, emergency, life, twups>>

(* GCTM: one object goes back to 'allgc', and its finalizer is called with *)
(* it if its metatable still has one.                                      *)
GCTM(th, o) ==
  LET calls == meta[o] \cap MetaGC # {}
  IN  /\ o \in In("tobefnz")
      /\ list' = [list EXCEPT ![o] = "allgc"]
      /\ tosweep' = tosweep \ {o}
      /\ color' = IF issweepphase THEN [color EXCEPT ![o] = currentwhite] ELSE color
      /\ slots' = IF calls THEN [slots EXCEPT ![th] = @ \cup {o}] ELSE slots
      /\ infin' = calls
      /\ saved' = IF calls THEN full ELSE saved
      /\ full' = IF calls THEN "none" ELSE full
      /\ UNCHANGED <<meta, entries, mode, owner, mt, strcache, gray, grayagain,
                     currentwhite, gcstate, emergency, life, twups>>

(* GCScallfin.                                                             *)
CallFinalizer(th, o) ==
  /\ gcstate = "callfin" /\ ~emergency
  /\ GCTM(th, o)

FinishCycleEarly ==   \* faulty: leaves with finalizers pending
  /\ gcstate = "callfin"
  /\ gcstate' = "pause"
  /\ UNCHANGED <<heap, marks, currentwhite, tosweep, run, list, twups>>
FinishCycle ==
  /\ gcstate = "callfin"
  /\ In("tobefnz") = {} \/ emergency \/ LowStack
  /\ gcstate' = "pause"
  /\ UNCHANGED <<heap, marks, currentwhite, tosweep, run, list, twups>>

SingleStep(acc) ==
  \/ Restart
  \/ \E o \in gray : PropagateMark(o)
  \/ FinishPropagate
  \/ \E L \in acc \cap Threads : Atomic(L)
  \/ \E o \in tosweep : SweepOne(o)
  \/ SweepNext
  \/ \E th \in acc \cap Threads, o \in Obj : CallFinalizer(th, o)
  \/ FinishCycle

Collector == GCRuns /\ \E acc \in {Accessible} : SingleStep(acc)

(* The finalizer returns, normally or with an error that GCTM catches.     *)
EndFinalizer ==
  /\ infin /\ full = "none"
  /\ infin' = FALSE
  /\ full' = saved
  /\ saved' = "none"
  /\ UNCHANGED <<heap, marks, sweeps, emergency, life, list, twups>>

----------------------------------------------------------------------------
(***************************************************************************)
(* luaC_fullgc and closing the state.                                      *)
(***************************************************************************)

(* lua_gc(LUA_GCCOLLECT) outside of finalizers, or an allocation that      *)
(* failed (luaM_'s tryagain), which collects even inside one.  Black       *)
(* objects are swept back to white without a flip.                         *)
FullGC(isemergency) ==
  /\ full = "none"
  /\ IF isemergency
     THEN "emergency" \in Requests /\ MutatorRuns
     ELSE "collect" \in Requests /\ life = "open" /\ ~infin
  /\ full' = "tostart"
  /\ emergency' = isemergency
  /\ IF keepinvariant
     THEN gcstate' = "swpallgc" /\ tosweep' = In("allgc")
     ELSE UNCHANGED <<gcstate, tosweep>>
  /\ UNCHANGED <<heap, marks, currentwhite, infin, saved, life, list, twups>>

(* The next luaC_runtilstate of fullinc, or its return.                    *)
FullNext ==
  /\ full # "none" /\ gcstate = FullTarget[full]
  /\ \E next \in {[tostart |-> "tocallfin", tocallfin |-> "topause", topause |-> "none"]} :
       /\ full' = next[full]
       /\ emergency' = (emergency /\ full' # "none")
  /\ UNCHANGED <<heap, marks, sweeps, infin, saved, life, list, twups>>

(* close_state up to the first finalizer: the stack of the main thread is  *)
(* emptied and every object with a finalizer is separated.                 *)
CloseState ==
  /\ "close" \in Requests
  /\ life = "open" /\ full = "none" /\ ~infin
  /\ OpenUpvals(MainThread) = {}
  /\ life' = "closing"
  /\ slots' = [slots EXCEPT ![MainThread] = {}]
  /\ list' = [o \in Obj |-> IF o \in In("finobj") THEN "tobefnz" ELSE list[o]]
  /\ tosweep' = IF gcstate = "swpfinobj" THEN {} ELSE tosweep
  /\ UNCHANGED <<meta, entries, mode, owner, mt, strcache, marks, currentwhite,
                 gcstate, full, emergency, infin, saved, twups>>

(* callallpendingfinalizers.                                               *)
CloseFinalizer(o) ==
  /\ life = "closing" /\ full = "none" /\ ~infin
  /\ GCTM(MainThread, o)

(* deletelist, and the rest of close_state: every object is freed, then    *)
(* the main thread and the global state with all its lists.                *)
FreeAll ==
  LET none == [o \in Obj |-> {}]
  IN  /\ life = "closing" /\ full = "none" /\ ~infin
      /\ In("tobefnz") = {}
      /\ life' = "closed"
      /\ color' = [o \in Obj |-> "free"]
      /\ slots' = none /\ meta' = none /\ entries' = none /\ owner' = none
      /\ gray' = {} /\ grayagain' = {} /\ twups' = {} /\ tosweep' = {}
      /\ mt' = {} /\ strcache' = {} /\ gcstate' = "pause"
      /\ UNCHANGED <<mode, list, currentwhite, full, emergency, infin, saved>>

Closing == CloseState \/ (\E o \in Obj : CloseFinalizer(o)) \/ FreeAll

----------------------------------------------------------------------------
(* lua_newstate: the main thread and the registry, nothing else.           *)
Init ==
  /\ color = [o \in Obj |-> IF o \in {MainThread, Registry} THEN "white0" ELSE "free"]
  /\ currentwhite = "white0"
  /\ slots = [o \in Obj |-> {}]
  /\ meta = [o \in Obj |-> {}]
  /\ entries = [o \in Obj |-> {}]
  /\ mode = [o \in Obj |-> "strong"]
  /\ owner = [o \in Obj |-> {}]
  /\ list = [o \in Obj |-> "allgc"]
  /\ gray = {} /\ grayagain = {} /\ twups = {} /\ tosweep = {}
  /\ gcstate = "pause"
  /\ mt = {} /\ strcache = {}
  /\ full = "none" /\ emergency = FALSE
  /\ infin = FALSE /\ saved = "none"
  /\ life = "open"

Next ==
  \/ Mutator
  \/ Collector
  \/ EndFinalizer
  \/ \E isemergency \in BOOLEAN : FullGC(isemergency)
  \/ FullNext
  \/ Closing

Spec == Init /\ [][Next]_vars

(* The collector goes on (the program keeps allocating, so luaC_checkGC    *)
(* keeps finding a positive debt), finalizers return, and a collection or  *)
(* a lua_close that has begun runs to its end.                             *)
Fairness ==
  /\ WF_vars(Collector) /\ WF_vars(EndFinalizer) /\ WF_vars(FullNext)
  /\ WF_vars((\E o \in Obj : CloseFinalizer(o)) \/ FreeAll)

FairSpec == Spec /\ Fairness

----------------------------------------------------------------------------
(***************************************************************************)
(* Properties.                                                             *)
(***************************************************************************)

(* The shape of the state: what every list, reference and flag of the      *)
(* collector may hold.                                                     *)
TypeOK ==
  /\ color \in [Obj -> Colors]
  /\ currentwhite \in Whites
  /\ slots \in [Obj -> SUBSET Obj]
  /\ meta \in [Obj -> SUBSET Obj]
  /\ entries \in [Obj -> SUBSET ((Obj \cup {Prim}) \X (Obj \cup {Prim}))]
  /\ mode \in [Obj -> Modes]
  /\ owner \in [Obj -> SUBSET Threads]
  /\ list \in [Obj -> {"allgc", "finobj", "tobefnz"}]
  /\ gray \subseteq Obj /\ grayagain \subseteq Obj /\ tosweep \subseteq Obj
  /\ twups \subseteq Threads
  /\ gcstate \in GCStates
  /\ mt \subseteq Tables /\ strcache \subseteq Strings
  /\ full \in FullPhases /\ saved \in FullPhases
  /\ emergency \in BOOLEAN /\ infin \in BOOLEAN
  /\ life \in {"open", "closing", "closed"}

(* Everything the program or a pending finalizer can still get hold of,    *)
(* through strong or weak references, is a live object: never freed, and   *)
(* never one the sweep in progress is about to free (checkliveness).       *)
Live == ReachFrom(Roots \cup strcache \cup In("tobefnz"))
NoDangling ==
  life # "closed" => \A o \in Live : Allocated(o) /\ ~IsDead(o)

(* lgc.h's main invariant: while the collector marks, a black object never *)
(* points to a white one, whatever the mutator wrote in between.           *)
TriColor ==
  keepinvariant =>
    \A o \in Obj : color[o] = "black" => \A p \in Refs(o) : ~IsWhite(p)

(* While the collector marks, "any gray object must be in a gray list" so  *)
(* that it is visited again: exactly one list, but for open upvalues,      *)
(* which are never black and are found through the threads in 'twups'.     *)
GrayListed ==
  keepinvariant =>
    /\ gray \cap grayagain = {}
    /\ \A o \in Obj : o \in gray \cup grayagain <=>
                      (color[o] = "gray" /\ o \notin Upvals)
    /\ \A u \in Upvals : color[u] = "gray" <=> (IsOpen(u) /\ ~IsWhite(u))
    /\ \A u \in Upvals : owner[u] \subseteq twups

(* An object with a finalizer is never freed before it was called: it goes *)
(* from 'finobj' to 'tobefnz' to a stack, as the argument of '__gc' (or is *)
(* released because its metatable lost the '__gc' meanwhile), even when    *)
(* the state is closed.                                                    *)
FinalizedFirstStep(o) ==
  Allocated(o) /\ list[o] # "allgc" =>
    /\ Allocated(o)'
    /\ list[o] = "finobj" => list'[o] \in {"finobj", "tobefnz"}
    /\ list[o] = "tobefnz" =>
         \/ list'[o] = "tobefnz"
         \/ /\ list'[o] = "allgc"
            /\ meta[o] \cap MetaGC = {} \/ (infin' /\ \E th \in Threads : o \in slots'[th])
FinalizedFirst == [][\A o \in Obj : FinalizedFirstStep(o)]_vars

AtomicStep == gcstate = "enteratomic" /\ currentwhite' # currentwhite

(* What is strongly reachable, in the words of the reference manual: a     *)
(* value of an ephemeron table counts only if its key is reachable.        *)
StrongRefs(o, S) ==
  slots[o] \cup meta[o] \cup OpenUpvals(o)
    \cup {x \in Obj : \E e \in entries[o] :
            \/ x \in Strings \cap {e[1], e[2]}
            \/ x \in {e[1], e[2]} /\ Mode(o) = "strong"
            \/ x = e[1] /\ Mode(o) = "weakvalue"
            \/ x = e[2] /\ Mode(o) = "ephemeron" /\ e[1] \in Weak(S)}
StronglyReachable ==
  Least({S \in SUBSET Obj : /\ Roots \subseteq S
                            /\ \A p \in S : StrongRefs(p, S) \subseteq S})

(* Clearing weak tables never loses an entry of a table in use whose key   *)
(* and value are both strongly reachable, or in which the collectable side *)
(* is not weak.                                                            *)
ClearsOnlyGarbage ==
  [][AtomicStep =>
       \A t \in Accessible : \A e \in entries[t] \ entries'[t] :
         \/ (Mode(t) \in {"weakvalue", "allweak"} /\ e[2] \notin Weak(StronglyReachable))
         \/ (Mode(t) \in {"ephemeron", "allweak"} /\ e[1] \notin Weak(StronglyReachable))
    ]_vars

(* Objects found dead but waiting for their finalizer are removed from     *)
(* weak values before it runs, and stay as keys of ephemeron tables until  *)
(* they are really collected.  As values of an ephemeron table they stay   *)
(* when they bring its key back to life.                                   *)
WeakOrder ==
  [][AtomicStep =>
       \A t \in StronglyReachable : \A e \in entries[t], o \in Obj :
         (list[o] = "finobj" /\ list'[o] = "tobefnz") =>
            /\ o = e[2] /\ Mode(t) # "ephemeron" => e \notin entries'[t]
            /\ o = e[1] /\ Mode(t) = "ephemeron" => e \in entries'[t]
    ]_vars

(* Every object that became garbage is freed, unless a finalizer or the    *)
(* string table brings it back: no cycle, upvalue of a dead thread or weak *)
(* table leaks.                                                            *)
GarbageFreed ==
  \A o \in Obj \ {MainThread, Registry} : (Allocated(o) /\ o \notin Accessible)
                  ~> (~Allocated(o) \/ o \in Accessible)

(* Every object with a finalizer that became garbage, or whose state is    *)
(* being closed, has its finalizer called.                                 *)
PendingFinalized ==
  \A o \in HasMeta : (list[o] = "finobj" /\ (o \notin Accessible \/ life = "closing"))
                  ~> (list[o] = "allgc" \/ (o \in Accessible /\ life = "open"))

(* lua_close ends, although each finalizer that it calls may set its       *)
(* object's metatable again: what is registered while the state is being   *)
(* closed (gcstp has GCSTPCLS) is not queued once more.                    *)
CloseEnds == (life = "closing") ~> (life = "closed")

----------------------------------------------------------------------------
(***************************************************************************)
(* The inductive invariant behind NoDangling, TriColor and GrayListed.     *)
(***************************************************************************)

Sound(o) == Allocated(o) /\ ~IsDead(o)

(* Strings have no references and upvalues one value; a free address has   *)
(* nothing; threads that own open upvalues are there, and in 'twups'       *)
(* unless they are about to be freed.                                      *)
WellFormed ==
  \A o \in Obj :
    /\ o \in Strings \/ ~Allocated(o) => slots[o] = {}
    /\ o \in Strings \cup Upvals \/ ~Allocated(o) => meta[o] = {} /\ entries[o] = {}
    /\ o \in Upvals => slots[o] \subseteq Values
    /\ o \notin Upvals \/ ~Allocated(o) => owner[o] = {}
    /\ \A th \in owner[o] : Allocated(th) /\ (IsDead(th) \/ th \in twups)

(* Sound objects, and all the places the collector starts from, refer to   *)
(* sound objects only.                                                     *)
RefsSound ==
  /\ \A o \in Obj : Sound(o) => \A p \in Refs(o) : Sound(p)
  /\ \A o \in Roots \cup strcache \cup In("tobefnz") : Sound(o)

(* What the sweep still has to see is in the list that it sweeps, and dead *)
(* objects are among them.                                                 *)
SweptList == [swpallgc |-> "allgc", swpfinobj |-> "finobj", swptobefnz |-> "tobefnz"]
DeadToSweep ==
  /\ tosweep # {} => gcstate \in DOMAIN SweptList
  /\ \A o \in tosweep : Allocated(o) /\ list[o] = SweptList[gcstate]
  /\ \A o \in Obj : IsDead(o) => gcstate = "swpallgc" /\ o \in tosweep

(* What the sweep has seen is white, and all is when it has ended.         *)
ToBeSwept ==
  CASE gcstate = "swpallgc"   -> tosweep \cup In("finobj") \cup In("tobefnz")
    [] gcstate = "swpfinobj"  -> tosweep \cup In("tobefnz")
    [] gcstate = "swptobefnz" -> tosweep
    [] gcstate \in Marking    -> Obj
    [] OTHER                  -> {}
SweptWhite ==
  \A o \in Obj \ ToBeSwept : Allocated(o) => color[o] = currentwhite

(* While marking, the main thread has been marked, and threads are never   *)
(* black, as they have no barrier.                                         *)
ThreadsGray ==
  keepinvariant => /\ ~IsWhite(MainThread)
                   /\ \A th \in Threads : color[th] # "black"

HeapInv == WellFormed /\ RefsSound /\ DeadToSweep /\ SweptWhite
MarkInv == TriColor /\ GrayListed /\ ThreadsGray

(* Closing takes every finalizer out of 'finobj', and nothing is left of a *)
(* closed state.                                                           *)
CloseInv ==
  /\ life = "closing" => In("finobj") = {}
  /\ life = "closed" => /\ gcstate = "pause" /\ full = "none" /\ ~infin
                        /\ \A o \in Obj : ~Allocated(o)

(* The invariant that every step preserves: a heap that is sound in every  *)
(* phase of the collector, until a closed state is left empty.             *)
IInv == TypeOK /\ CloseInv /\ (life # "closed" => HeapInv /\ MarkInv)
=============================================================================
