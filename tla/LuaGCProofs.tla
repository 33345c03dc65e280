---------------------------- MODULE LuaGCProofs ----------------------------
(***************************************************************************)
(* Proofs about LuaGC, for every heap, every assignment of types and every *)
(* program: least fixed points, reachability and type correctness.         *)
(***************************************************************************)
EXTENDS LuaGC, TLAPS

USE DEF Colors, Whites, Modes, FullPhases, GCStates, Sweeping, Marking

(* Least(F) is the least set of a family that is closed under intersection.*)
LEMMA LeastIsLeast ==
  ASSUME NEW F \in SUBSET SUBSET Obj,
         {o \in Obj : \A S \in F : o \in S} \in F
  PROVE  Least(F) \in F /\ \A T \in F : Least(F) \subseteq T
<1> DEFINE X == {o \in Obj : \A S \in F : o \in S}
<1>1. X \in F /\ \A T \in F : X \subseteq T
  OBVIOUS
<1> QED BY <1>1 DEF Least

LEMMA ReachIsLeast ==
  ASSUME TypeOK, NEW R \in SUBSET Obj
  PROVE  /\ ReachFrom(R) \subseteq Obj /\ R \subseteq ReachFrom(R)
         /\ Closed(ReachFrom(R))
         /\ \A S \in SUBSET Obj : R \subseteq S /\ Closed(S) => ReachFrom(R) \subseteq S
<1> DEFINE F == {S \in SUBSET Obj : R \subseteq S /\ Closed(S)}
           X == {o \in Obj : \A S \in F : o \in S}
<1>1. \A o \in Obj : Refs(o) \subseteq Obj
  BY DEF TypeOK, Refs, Keys, Vals, OpenUpvals, Upvals
<1>2. X \in F
  <2>1. X \in SUBSET Obj /\ R \subseteq X
    OBVIOUS
  <2>2. Closed(X)
    BY <1>1 DEF Closed
  <2> QED BY <2>1, <2>2
<1>3. Least(F) \in F /\ \A T \in F : Least(F) \subseteq T
  BY <1>2, LeastIsLeast
<1> QED BY <1>3 DEF ReachFrom

----------------------------------------------------------------------------
(***************************************************************************)
(* Type correctness.                                                       *)
(***************************************************************************)

LEMMA RefsType ==
  ASSUME TypeOK, NEW o \in Obj
  PROVE  Refs(o) \subseteq Obj
BY DEF TypeOK, Refs, Keys, Vals, OpenUpvals, Upvals

LEMMA AccessibleType ==
  ASSUME TypeOK
  PROVE  Accessible \in SUBSET Obj
<1>1. Roots \in SUBSET Obj
  BY ObjAssumption DEF Roots, TypeOK, Tables
<1> QED BY <1>1, ReachIsLeast DEF Accessible

LEMMA MarkType ==
  ASSUME TypeOK, NEW S \in SUBSET Obj
  PROVE  /\ Reached(S) \in SUBSET Obj
         /\ MarkColor(S) \in [Obj -> Colors]
         /\ MarkGray(S) \in SUBSET Obj
<1>1. Reached(S) \in SUBSET Obj
  BY DEF TypeOK, Reached, Upvals
<1> QED BY <1>1 DEF TypeOK, MarkColor, MarkGray

LEMMA BarrierType ==
  ASSUME TypeOK, NEW o \in Obj, NEW v \in Obj, Barrier(o, v)
  PROVE  color' \in [Obj -> Colors] /\ gray' \subseteq Obj /\ grayagain' \subseteq Obj
BY MarkType, {v} \in SUBSET Obj DEF TypeOK, Barrier

LEMMA BarrierBackType ==
  ASSUME TypeOK, NEW o \in Obj, NEW V, BarrierBack(o, V)
  PROVE  color' \in [Obj -> Colors] /\ gray' \subseteq Obj /\ grayagain' \subseteq Obj
BY DEF TypeOK, BarrierBack

LEMMA InitType == Init => TypeOK
BY ObjAssumption, ZenonT(40) DEF Init, TypeOK, Threads, Tables, Strings

LEMMA MutatorType ==
  ASSUME TypeOK, Mutator
  PROVE  TypeOK'
<1> USE ObjAssumption
<1> DEFINE acc == Accessible
           val == acc \cap Values
<1>1. acc \in SUBSET Obj /\ val \in SUBSET Obj
  BY AccessibleType
<1> HIDE DEF acc
<1>2. MutatorOn(acc)
  BY DEF Mutator, acc
<1> USE DEF heap, marks, sweeps, run, Push
<1>a. ASSUME NEW th \in acc \cap Threads, NEW o \in Obj, NewObject(th, o)  PROVE TypeOK'
  BY <1>a, <1>1 DEF NewObject, TypeOK
<1>b. ASSUME NEW th \in acc \cap Threads, NEW x \in val,
             PushValue(th, x) \/ PopValue(th, x)
      PROVE  TypeOK'
  BY <1>b, <1>1 DEF PushValue, PopValue, TypeOK
<1>c. ASSUME NEW t \in acc \cap Tables, NEW k \in val \cup {Prim}, NEW v \in val \cup {Prim},
             SetEntry(t, k, v)
      PROVE  TypeOK'
  BY <1>c, <1>1, BarrierBackType DEF SetEntry, TypeOK
<1>d. ASSUME NEW t \in acc \cap Tables, NEW e \in entries[t], ClearEntry(t, e)  PROVE TypeOK'
  BY <1>d, <1>1 DEF ClearEntry, TypeOK
<1>e. ASSUME NEW u \in acc, NEW v \in val, SetUserValue(u, v)  PROVE TypeOK'
  BY <1>e, <1>1, BarrierBackType DEF SetUserValue, TypeOK
<1>f. ASSUME NEW c \in acc, NEW x \in acc, SetReference(c, x)  PROVE TypeOK'
  BY <1>f, <1>1, BarrierType DEF SetReference, TypeOK
<1>g. ASSUME NEW th \in acc \cap Threads, NEW u \in Obj, NEW x \in val, FindUpval(th, u, x)
      PROVE  TypeOK'
  BY <1>g, <1>1 DEF FindUpval, TypeOK
<1>h. ASSUME NEW u \in acc, NEW v \in val, SetUpval(u, v)  PROVE TypeOK'
  BY <1>h, <1>1, BarrierType DEF SetUpval, TypeOK
<1>i. ASSUME NEW u \in acc, CloseUpval(u)  PROVE TypeOK'
  <2>1. WhiteSlots(u) \in SUBSET Obj
    BY <1>1 DEF WhiteSlots, TypeOK
  <2>2. color' \in [Obj -> Colors] /\ gray' \subseteq Obj
    BY <1>i, <1>1, <2>1, MarkType DEF CloseUpval, TypeOK
  <2> QED BY <1>i, <1>1, <2>2, ZenonT(40) DEF CloseUpval, TypeOK
<1>j. ASSUME NEW o \in acc, NEW m \in acc, SetMetatable(o, m)  PROVE TypeOK'
  <2>1. color' \in [Obj -> Colors] /\ gray' \subseteq Obj /\ grayagain' \subseteq Obj
    BY <1>j, <1>1, BarrierType DEF SetMetatable, SetMetaAndMove, TypeOK
  <2> QED BY <1>j, <1>1, <2>1, ZenonT(40) DEF SetMetatable, SetMetaAndMove, TypeOK
<1>k. ASSUME NEW o \in acc, ClearMetatable(o)  PROVE TypeOK'
  BY <1>k, <1>1 DEF ClearMetatable, TypeOK
<1>l. ASSUME NEW m \in acc, NEW md \in Modes, SetMode(m, md)  PROVE TypeOK'
  BY <1>l, <1>1 DEF SetMode, TypeOK
<1>m. ASSUME NEW m \in acc, SetTypeMetatable(m)  PROVE TypeOK'
  BY <1>m, <1>1 DEF SetTypeMetatable, TypeOK, Tables
<1>n. ASSUME NEW th \in acc \cap Threads, NEW s \in Obj, InternString(th, s)  PROVE TypeOK'
  BY <1>n, <1>1 DEF InternString, TypeOK, Strings
<1>o. ASSUME NEW th \in acc \cap Threads, NEW s \in strcache, CachedString(th, s)
      PROVE  TypeOK'
  BY <1>o, <1>1 DEF CachedString, TypeOK, Strings
<1> QED
  BY <1>2, <1>a, <1>b, <1>c, <1>d, <1>e, <1>f, <1>g, <1>h, <1>i, <1>j, <1>k, <1>l, <1>m,
     <1>n, <1>o DEF MutatorOn

LEMMA TraversedType ==
  ASSUME TypeOK, NEW o \in Obj
  PROVE  Traversed(o) \in SUBSET Obj
<1>1. StackUpvals(o) \in SUBSET Obj
  BY DEF StackUpvals, OpenUpvals, Upvals, TypeOK
<1>2. /\ Keys(entries[o]) \in SUBSET Obj
      /\ \A es \in SUBSET entries[o] : Vals(es) \in SUBSET Obj
  BY DEF TypeOK, Keys, Vals
<1>3. meta[o] \cup slots[o] \in SUBSET Obj
  BY DEF TypeOK
<1>4. Vals({e \in entries[o] : e[1] \in Strings \cup {Prim} \/ ~IsWhite(e[1])}) \in SUBSET Obj
  BY <1>2
<1> DEFINE E1 == Vals({e \in entries[o] : e[1] \in Strings \cup {Prim} \/ ~IsWhite(e[1])})
<1> HIDE DEF E1
<1>5. E1 \in SUBSET Obj
  BY <1>4 DEF E1
<1>6. Traversed(o) =
        meta[o] \cup slots[o] \cup StackUpvals(o)
          \cup (CASE Mode(o) = "strong" -> Keys(entries[o]) \cup Vals(entries[o])
                  [] Mode(o) = "weakvalue" -> Keys(entries[o]) \cup (Vals(entries[o]) \cap Strings)
                  [] Mode(o) = "ephemeron" -> (Keys(entries[o]) \cap Strings) \cup E1
                  [] OTHER -> {})
  BY DEF Traversed, E1
<1>7. Vals(entries[o]) \in SUBSET Obj
  BY <1>2
<1> QED BY <1>1, <1>2, <1>3, <1>5, <1>6, <1>7

LEMMA FreeObjType ==
  ASSUME TypeOK, NEW o \in Obj, FreeObj(o)
  PROVE  /\ color' \in [Obj -> Colors]
         /\ slots' \in [Obj -> SUBSET Obj] /\ meta' \in [Obj -> SUBSET Obj]
         /\ entries' \in [Obj -> SUBSET ((Obj \cup {Prim}) \X (Obj \cup {Prim}))]
         /\ mode' \in [Obj -> Modes] /\ owner' \in [Obj -> SUBSET Threads]
         /\ list' \in [Obj -> {"allgc", "finobj", "tobefnz"}]
BY DEF TypeOK, FreeObj

LEMMA GCTMType ==
  ASSUME TypeOK, NEW th \in Threads, NEW o \in Obj, GCTM(th, o), UNCHANGED gcstate
  PROVE  TypeOK'
BY DEF TypeOK, GCTM, marks, Threads

LEMMA AtomicParts ==
  ASSUME NEW L, Atomic(L)
  PROVE  \E m1, e1, fz, m2, e2 :
           /\ m1 = Converged(AtomicRoots(L), entries)
           /\ e1 = ClearByValues(m1, m1, entries)
           /\ fz = In("finobj") \ m1
           /\ m2 = Converged(m1 \cup In("tobefnz") \cup fz, e1)
           /\ e2 = ClearByKeys(m2, m2, e1)
           /\ AtomicResult(m1, fz, m2, e2, m2 \cup KeyStrings(m2, e2))
BY Zenon DEF Atomic

LEMMA ClearedSubset ==
  ASSUME NEW T, NEW S, NEW ent, NEW o \in Obj
  PROVE  ClearByValues(T, S, ent)[o] \subseteq ent[o] /\ ClearByKeys(T, S, ent)[o] \subseteq ent[o]
BY DEF ClearByValues, ClearByKeys

LEMMA AtomicType ==
  ASSUME TypeOK, NEW L \in Threads, Atomic(L)
  PROVE  TypeOK'
<1> USE ObjAssumption
<1>1. PICK m1, e1, fz, m2, e2 :
        /\ e1 = ClearByValues(m1, m1, entries)
        /\ e2 = ClearByKeys(m2, m2, e1)
        /\ AtomicResult(m1, fz, m2, e2, m2 \cup KeyStrings(m2, e2))
  BY AtomicParts
<1>2. \A o \in Obj : entries'[o] \subseteq entries[o]
  BY <1>1, ClearedSubset DEF AtomicResult
<1>3. entries' = [o \in Obj |-> entries'[o]]
  BY <1>1 DEF AtomicResult, ClearByValues
<1>4. entries' \in [Obj -> SUBSET ((Obj \cup {Prim}) \X (Obj \cup {Prim}))]
  BY <1>2, <1>3 DEF TypeOK
<1> QED BY <1>1, <1>4 DEF Atomic, AtomicResult, TypeOK, run, OtherWhite, In

LEMMA CollectorType ==
  ASSUME TypeOK, Collector
  PROVE  TypeOK'
<1> USE ObjAssumption
<1> DEFINE acc == Accessible
<1>1. acc \in SUBSET Obj
  BY AccessibleType
<1> HIDE DEF acc
<1>2. SingleStep(acc)
  BY DEF Collector, acc
<1> USE DEF heap, marks, sweeps, run
<1>a. CASE Restart
  <2>1. Roots \cup In("tobefnz") \in SUBSET Obj
    BY DEF Roots, In, TypeOK, Tables
  <2> QED BY <1>a, <2>1, MarkType DEF Restart, TypeOK
<1>b. ASSUME NEW o \in gray, PropagateMark(o)  PROVE TypeOK'
  <2>1. o \in Obj
    BY DEF TypeOK
  <2>2. MarkColor(Traversed(o)) \in [Obj -> Colors] /\ MarkGray(Traversed(o)) \in SUBSET Obj
    BY <2>1, TraversedType, MarkType
  <2> QED BY <1>b, <2>1, <2>2 DEF PropagateMark, TypeOK
<1>c. CASE FinishPropagate
  BY <1>c DEF FinishPropagate, TypeOK
<1>d. ASSUME NEW L \in acc \cap Threads, Atomic(L)  PROVE TypeOK'
  BY <1>d, AtomicType
<1>e. ASSUME NEW o \in tosweep, SweepOne(o)  PROVE TypeOK'
  <2>1. o \in Obj
    BY DEF TypeOK
  <2>2. CASE IsDead(o)
    BY <1>e, <2>1, <2>2, FreeObjType DEF SweepOne, TypeOK
  <2>3. CASE ~IsDead(o)
    BY <1>e, <2>1, <2>3 DEF SweepOne, TypeOK
  <2> QED BY <2>2, <2>3
<1>f. CASE SweepNext
  <2>1. gcstate' \in GCStates
    BY <1>f DEF SweepNext, issweepphase
  <2> QED BY <1>f, <2>1 DEF SweepNext, TypeOK, In
<1>g. ASSUME NEW th \in acc \cap Threads, NEW o \in Obj, CallFinalizer(th, o)  PROVE TypeOK'
  BY <1>g, GCTMType DEF CallFinalizer, GCTM
<1>h. CASE FinishCycle
  BY <1>h DEF FinishCycle, TypeOK
<1> QED BY <1>2, <1>a, <1>b, <1>c, <1>d, <1>e, <1>f, <1>g, <1>h DEF SingleStep

LEMMA TypeStep ==
  ASSUME TypeOK, [Next]_vars
  PROVE  TypeOK'
<1> USE DEF heap, marks, sweeps, run
<1>1. CASE Mutator
  BY <1>1, MutatorType
<1>2. CASE Collector
  BY <1>2, CollectorType
<1>3. CASE EndFinalizer
  BY <1>3 DEF EndFinalizer, TypeOK
<1>4. ASSUME NEW isemergency \in BOOLEAN, FullGC(isemergency)  PROVE TypeOK'
  BY <1>4 DEF FullGC, TypeOK, In
<1>5. CASE FullNext
  BY <1>5 DEF FullNext, TypeOK
<1>6. CASE CloseState
  BY <1>6, ObjAssumption DEF CloseState, TypeOK
<1>7. ASSUME NEW o \in Obj, CloseFinalizer(o)  PROVE TypeOK'
  <2>1. MainThread \in Threads
    BY ObjAssumption DEF Threads
  <2> QED BY <1>7, <2>1, GCTMType DEF CloseFinalizer, GCTM
<1>8. CASE FreeAll
  BY <1>8 DEF FreeAll, TypeOK
<1>9. CASE UNCHANGED vars
  BY <1>9 DEF TypeOK, vars
<1> QED BY <1>1, <1>2, <1>3, <1>4, <1>5, <1>6, <1>7, <1>8, <1>9 DEF Next, Closing

(* The heap, the lists and the collector's state always have their types:  *)
(* 'mt' holds tables only, owners are threads, the string cache strings.   *)
THEOREM TypeCorrect == Spec => []TypeOK
BY InitType, TypeStep, PTL DEF Spec
=============================================================================
