----------------------------- MODULE MCLuaModes -----------------------------
(***************************************************************************)
(* What the generational mode of the collector adds to the incremental one *)
(* (LuaGC): collections that sweep strings in both modes (MCLuaStrings),   *)
(* and the ages of objects (LuaGenerations). Strings have no references,   *)
(* so the two share no variable: a behaviour is about one of them, and     *)
(* nothing happens in the other.                                           *)
(***************************************************************************)
EXTENDS MCLuaStrings, GenerationPrograms

CONSTANTS null, Objects, Type, MainThread, Registry, Programs
VARIABLES part, g, waits, infin, program

Gen == INSTANCE LuaGenerations
genvars  == <<g, waits, infin, program>>
Strings  == part = "strings" /\ UNCHANGED <<part, genvars>>
Ages     == part = "ages" /\ UNCHANGED <<part, vars>>

ModesInit ==
  /\ part \in {"strings", "ages"} /\ Init /\ Gen!Init
  /\ part = "strings" => program = CHOOSE p \in Programs : TRUE
ModesNext ==
  \/ \E o \in Obj : (Strings /\ Found(o)) \/ (Strings /\ Create(o)) \/ (Strings /\ Drop(o)) \/ (Strings /\ SweepString(o))
  \/ \E c \in Contents : Strings /\ NotFound(c)
  \/ \E S \in SUBSET Garbage : Strings /\ YoungCollection(S)
  \/ (Strings /\ Full) \/ (Strings /\ Grow) \/ (Strings /\ GrowFails) \/ (Strings /\ CreateFails) \/ (Strings /\ Atomic)
  \/ (Strings /\ SweepEnd) \/ (Strings /\ EnterGen) \/ (Strings /\ EnterInc) \/ (Strings /\ Shrink)
  \/ (Strings /\ ShrinkUndone) \/ (Strings /\ Emergency)
  \/ (Ages /\ Gen!NewObject) \/ (Ages /\ Gen!luaF_findupval) \/ (Ages /\ Gen!Push) \/ (Ages /\ Gen!Pop)
  \/ (Ages /\ Gen!SetTable) \/ (Ages /\ Gen!lua_setmetatable) \/ (Ages /\ Gen!Remove1) \/ (Ages /\ Gen!SetUpvalue)
  \/ (Ages /\ Gen!lua_setupvalue) \/ (Ages /\ Gen!CloseUpval) \/ (Ages /\ Gen!luaC_checkfinalizer) \/ (Ages /\ Gen!youngcollection)
  \/ (Ages /\ Gen!sweepstep) \/ (Ages /\ Gen!MajorCycle) \/ (Ages /\ Gen!fullgen) \/ (Ages /\ Gen!Emergency)
  \/ (Ages /\ Gen!luaC_changemode) \/ (Ages /\ Gen!EnterGen) \/ (Ages /\ Gen!GCTM) \/ (Ages /\ Gen!EndFinalizer)
ModesSpec == ModesInit /\ [][ModesNext]_<<part, vars, genvars>>
------------------------------------------------------------------------------
(* Young collections lose nothing, because old objects hide no young ones   *)
(* and are where the sweep expects them (see LuaGenerations; lgc.c).        *)
NothingLost     == Gen!NothingLost
OldHidesNoYoung == Gen!OldHidesNoYoung
SublistsRight   == Gen!SublistsRight
=============================================================================
