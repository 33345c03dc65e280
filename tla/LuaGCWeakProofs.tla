-------------------------- MODULE LuaGCWeakProofs --------------------------
(***************************************************************************)
(* Proofs about LuaGC and its weak tables, for every heap and every        *)
(* program: what the first marking of the atomic phase does not reach is   *)
(* not strongly reachable in the words of the reference manual, so that    *)
(* clearing weak tables loses garbage only and in the order that           *)
(* finalizers need.                                                        *)
(***************************************************************************)
EXTENDS LuaGCInvariant

USE DEF Sound, Allocated, IsDead, OtherWhite, IsWhite, keepinvariant, Whites, Marking

----------------------------------------------------------------------------
(***************************************************************************)
(* Strong reachability.                                                    *)
(***************************************************************************)

LEMMA RootsType ==
  ASSUME TypeOK
  PROVE  Roots \in SUBSET Obj
BY ObjAssumption DEF TypeOK, Roots, Tables

LEMMA StrongRefsBound ==
  ASSUME NEW o \in Obj, NEW S
  PROVE  StrongRefs(o, S) \subseteq Refs(o)
<1> SUFFICES ASSUME NEW x \in StrongRefs(o, S), x \notin slots[o] \cup meta[o] \cup OpenUpvals(o)
             PROVE  x \in Keys(entries[o]) \cup Vals(entries[o])
  BY DEF Refs
<1>1. PICK e \in entries[o] : x \in Obj /\ x \in {e[1], e[2]}
  BY DEF StrongRefs
<1> QED BY <1>1, ObjAssumption DEF Keys, Vals

LEMMA StrongRefsType ==
  ASSUME TypeOK, NEW o \in Obj, NEW S
  PROVE  StrongRefs(o, S) \subseteq Obj
BY StrongRefsBound, RefsType

LEMMA StrongRefsMono ==
  ASSUME NEW o, NEW S, NEW T, S \subseteq T
  PROVE  StrongRefs(o, S) \subseteq StrongRefs(o, T)
<1>1. Weak(S) \subseteq Weak(T)
  BY DEF Weak
<1> QED BY <1>1 DEF StrongRefs

(* StronglyReachable is part of every set with the roots that is closed    *)
(* under strong references.                                                *)
LEMMA StrongIsLeast ==
  ASSUME TypeOK, NEW T \in SUBSET Obj, Roots \subseteq T,
         \A p \in T : StrongRefs(p, T) \subseteq T
  PROVE  StronglyReachable \subseteq T
<1> DEFINE F == {S \in SUBSET Obj : /\ Roots \subseteq S
                                    /\ \A p \in S : StrongRefs(p, S) \subseteq S}
           X == {o \in Obj : \A S \in F : o \in S}
<1>1. Roots \subseteq X
  BY RootsType
<1>2. \A p \in X : StrongRefs(p, X) \subseteq X
  <2> SUFFICES ASSUME NEW p \in X, NEW x \in StrongRefs(p, X)
               PROVE  x \in X
    OBVIOUS
  <2>1. x \in Obj
    BY StrongRefsType
  <2>2. ASSUME NEW S \in F  PROVE x \in S
    <3>1. X \subseteq S /\ p \in S
      OBVIOUS
    <3>2. StrongRefs(p, X) \subseteq StrongRefs(p, S)
      BY <3>1, StrongRefsMono
    <3>3. StrongRefs(p, S) \subseteq S
      BY <3>1, <2>2
    <3> HIDE DEF X, F
    <3> QED BY <3>2, <3>3
  <2>3. X = {o \in Obj : \A S \in F : o \in S}
    OBVIOUS
  <2> HIDE DEF X, F
  <2> QED BY <2>1, <2>2, <2>3
<1>3. X \in F
  BY <1>1, <1>2
<1>4. T \in F
  OBVIOUS
<1> HIDE DEF X
<1>5. \A S \in F : Least(F) \subseteq S
  BY <1>3, LeastIsLeast DEF X
<1>6. StronglyReachable = Least(F)
  BY DEF StronglyReachable
<1> QED BY <1>4, <1>5, <1>6

----------------------------------------------------------------------------
(***************************************************************************)
(* The atomic phase.                                                       *)
(***************************************************************************)

(* Its marks, as in AtomicFacts, for the tables before anything is cleared.*)
WeakFacts(L, m1, e1, fz, m2, e2) ==
  /\ fz = In("finobj") \ m1
  /\ e1 = ClearByValues(m1, m1, entries)
  /\ e2 = ClearByKeys(m2, m2, e1)
  /\ AtomicResult(m1, fz, m2, e2, m2 \cup KeyStrings(m2, e2))
  /\ m1 \in SUBSET Obj /\ AtomicRoots(L) \subseteq m1
  /\ m1 \subseteq m2 /\ fz \subseteq m2
  /\ \A o \in m1 : AtomicRefs(o, m1, entries) \subseteq m1

LEMMA WeakMarks ==
  ASSUME TypeOK, HeapInv, MarkInv, NEW L \in Threads, Sound(L), Atomic(L)
  PROVE  \E m1, e1, fz, m2, e2 : WeakFacts(L, m1, e1, fz, m2, e2)
<1>1. PICK m1, e1, fz, m2, e2 :
        /\ m1 = Converged(AtomicRoots(L), entries)
        /\ e1 = ClearByValues(m1, m1, entries)
        /\ fz = In("finobj") \ m1
        /\ m2 = Converged(m1 \cup In("tobefnz") \cup fz, e1)
        /\ e2 = ClearByKeys(m2, m2, e1)
        /\ AtomicResult(m1, fz, m2, e2, m2 \cup KeyStrings(m2, e2))
  BY AtomicParts
<1>2. RefsSound /\ \A o \in Obj : Allocated(o) => Sound(o)
  BY DEF HeapInv, DeadToSweep, Atomic
<1>3. /\ AtomicRoots(L) \in SUBSET Obj /\ \A o \in AtomicRoots(L) : Sound(o)
  BY <1>2, RootsSound, ObjAssumption DEF AtomicRoots, Roots, Threads, TypeOK
<1> DEFINE M1 == Converged(AtomicRoots(L), entries)
<1>4. /\ AtomicRoots(L) \subseteq M1 /\ (\A o \in M1 : o \in Obj /\ Sound(o))
      /\ \A o \in M1 : AtomicRefs(o, M1, entries) \subseteq M1
  <2>1. \A o \in Obj : entries[o] \subseteq entries[o]
    OBVIOUS
  <2> QED BY <1>2, <1>3, <2>1, ConvergedIsLeast
<1> HIDE DEF M1
<1>5. m1 = M1
  BY <1>1 DEF M1
<1> DEFINE K == m1 \cup In("tobefnz") \cup fz
<1>6. K \in SUBSET Obj /\ \A o \in K : Sound(o)
  BY <1>1, <1>2, <1>4, <1>5 DEF In
<1>7. \A o \in Obj : e1[o] \subseteq entries[o]
  BY <1>1, ClearedSubset
<1>8. m2 = Converged(K, e1)
  BY <1>1
<1> HIDE DEF K
<1> DEFINE M2 == Converged(K, e1)
<1> HIDE DEF M2
<1>9. K \subseteq M2
  BY <1>2, <1>6, <1>7, ConvergedIsLeast DEF M2
<1>10. m1 \subseteq m2 /\ fz \subseteq m2
  BY <1>8, <1>9 DEF K, M2
<1>11. WeakFacts(L, m1, e1, fz, m2, e2)
  BY <1>1, <1>4, <1>5, <1>10 DEF WeakFacts
<1> QED BY <1>11

(* What the traversal of an object that is not black marks is all that the *)
(* object strongly refers to, but for strings in weak tables.              *)
LEMMA TraversedStrong ==
  ASSUME TypeOK, NEW p \in Obj, p \notin Upvals, color[p] # "black", NEW m,
         AtomicRefs(p, m, entries) \subseteq m
  PROVE  StrongRefs(p, m \cup Strings) \subseteq m \cup Strings
<1> SUFFICES ASSUME NEW x \in StrongRefs(p, m \cup Strings), x \notin Strings
             PROVE  x \in m
  OBVIOUS
<1>1. AtomicRefs(p, m, entries) =
        meta[p] \cup slots[p] \cup StackUpvals(p) \cup AtomicEntries(p, m, entries[p])
  BY DEF AtomicRefs, Upvals
<1>2. CASE x \in slots[p] \cup meta[p] \cup OpenUpvals(p)
  BY <1>1, <1>2 DEF StackUpvals
<1>3. CASE x \notin slots[p] \cup meta[p] \cup OpenUpvals(p)
  <2>1. PICK e \in entries[p] :
          /\ x \in Obj
          /\ \/ x \in {e[1], e[2]} /\ Mode(p) = "strong"
             \/ x = e[1] /\ Mode(p) = "weakvalue"
             \/ x = e[2] /\ Mode(p) = "ephemeron" /\ e[1] \in Weak(m \cup Strings)
    BY <1>3 DEF StrongRefs
  <2>2. x # Prim
    BY <2>1, ObjAssumption
  <2>3. CASE x \in {e[1], e[2]} /\ Mode(p) = "strong"
    BY <1>1, <2>2, <2>3 DEF AtomicEntries, Keys, Vals
  <2>4. CASE x = e[1] /\ Mode(p) = "weakvalue"
    BY <1>1, <2>2, <2>4 DEF AtomicEntries, Keys
  <2>5. CASE x = e[2] /\ Mode(p) = "ephemeron" /\ e[1] \in Weak(m \cup Strings)
    <3>1. e \in {d \in entries[p] : d[1] \in Strings \cup {Prim} \cup m}
      BY <2>5 DEF Weak
    <3>2. x \in Vals({d \in entries[p] : d[1] \in Strings \cup {Prim} \cup m})
      BY <2>2, <2>5, <3>1 DEF Vals
    <3>3. x \in AtomicEntries(p, m, entries[p])
      BY <2>5, <3>2 DEF AtomicEntries
    <3> QED BY <1>1, <3>3
  <2> QED BY <2>1, <2>3, <2>4, <2>5
<1> QED BY <1>2, <1>3

(* Whatever is strongly reachable is marked before weak values are cleared,*)
(* except for strings, which are never removed from weak tables.           *)
LEMMA StrongMarked ==
  ASSUME TypeOK, HeapInv, MarkInv, NEW L \in Threads, gcstate = "enteratomic",
         NEW m \in SUBSET Obj, AtomicRoots(L) \subseteq m,
         \A o \in m : AtomicRefs(o, m, entries) \subseteq m
  PROVE  StronglyReachable \subseteq m \cup Strings
<1> DEFINE T == m \cup Strings
<1>1. T \in SUBSET Obj
  BY DEF Strings
<1>2. \A o \in Obj : color[o] \in {"gray", "black"} => o \in m
  BY DEF AtomicRoots
<1>3. Roots \subseteq T
  <2>1. color[MainThread] \in {"gray", "black"} /\ MainThread \in Obj
    BY ObjAssumption DEF MarkInv, ThreadsGray, HeapInv, RefsSound, Roots, TypeOK, Colors
  <2> QED BY <1>2, <2>1 DEF Roots, AtomicRoots
<1>4. ASSUME NEW p \in T  PROVE StrongRefs(p, T) \subseteq T
  <2>0. p \in Obj
    BY <1>1
  <2>1. CASE p \in Strings
    BY <2>0, <2>1, StrongRefsBound, LeafRefs DEF HeapInv, Strings, Upvals
  <2>2. CASE p \in m /\ color[p] = "black"
    <3>1. \A x \in Refs(p) : x \in Obj /\ color[x] \in {"gray", "black"}
      <4>1. \A x \in Refs(p) : x \in Obj /\ Sound(x) /\ ~IsWhite(x)
        BY <2>0, <2>2, RefsType DEF HeapInv, RefsSound, MarkInv, TriColor, TypeOK
      <4> QED BY <4>1 DEF TypeOK, Colors
    <3> QED BY <1>2, <2>0, <3>1, StrongRefsBound
  <2>3. CASE p \in m /\ color[p] # "black" /\ p \in Upvals
    <3>1. StrongRefs(p, T) \subseteq slots[p]
      BY <2>0, <2>3, StrongRefsBound, LeafRefs DEF HeapInv
    <3>2. AtomicRefs(p, m, entries) = UpvalRefs(p)
      BY <2>3 DEF AtomicRefs, Upvals
    <3>3. UpvalRefs(p) = slots[p]
      <4>1. CASE IsWhite(p)
        BY <4>1 DEF UpvalRefs
      <4>2. CASE ~IsWhite(p)
        <5>1. slots[p] # {} => color[p] = "gray"
          BY <2>0, <2>3, <4>2 DEF TypeOK, Colors, HeapInv, WellFormed
        <5>2. color[p] = "gray" => owner[p] \cap twups # {}
          BY <2>0, <2>3 DEF MarkInv, GrayListed, IsOpen
        <5> QED BY <5>1, <5>2 DEF UpvalRefs
      <4> QED BY <4>1, <4>2
    <3> QED BY <2>3, <3>1, <3>2, <3>3
  <2>4. CASE p \in m /\ color[p] # "black" /\ p \notin Upvals
    BY <2>0, <2>4, TraversedStrong
  <2> QED BY <2>1, <2>2, <2>3, <2>4
<1> HIDE DEF T
<1>5. StronglyReachable \subseteq T
  BY <1>1, <1>3, <1>4, StrongIsLeast
<1> QED BY <1>5 DEF T

(* Only tables and userdata have finalizers.                               *)
FinalizerKinds == \A o \in Obj : list[o] # "allgc" => o \in HasMeta

(* The mutator does not flip the whites.                                   *)
LEMMA MutatorWhite ==
  ASSUME TypeOK, Mutator
  PROVE  currentwhite' = currentwhite /\ (FinalizerKinds => FinalizerKinds')
<1> DEFINE acc == Accessible
           Same == currentwhite' = currentwhite /\ (FinalizerKinds => FinalizerKinds')
<1>1. MutatorOn(acc)
  BY DEF Mutator
<1>2. ASSUME currentwhite' = currentwhite, list' = list  PROVE Same
  BY <1>2 DEF FinalizerKinds
<1>3. ASSUME NEW o, currentwhite' = currentwhite, list' = [list EXCEPT ![o] = "allgc"]  PROVE Same
  BY <1>3 DEF FinalizerKinds, TypeOK
<1> HIDE DEF acc
<1> HIDE DEF Same
<1> USE DEF sweeps
<1>a. ASSUME NEW th, NEW o, NewObject(th, o)  PROVE Same
  BY <1>a, <1>3 DEF NewObject
<1>b. ASSUME NEW th, NEW u, NEW x, FindUpval(th, u, x)  PROVE Same
  BY <1>b, <1>3 DEF FindUpval
<1>c. ASSUME NEW th, NEW x, PushValue(th, x) \/ PopValue(th, x) \/ CachedString(th, x)
      PROVE  Same
  BY <1>c, <1>2 DEF PushValue, PopValue, CachedString
<1>d. ASSUME NEW t, NEW k, NEW v, SetEntry(t, k, v)  PROVE Same
  BY <1>d, <1>2 DEF SetEntry
<1>e. ASSUME NEW u, NEW v, SetUserValue(u, v) \/ SetReference(u, v) \/ SetUpval(u, v)  PROVE Same
  BY <1>e, <1>2 DEF SetUserValue, SetReference, SetUpval
<1>f. ASSUME NEW o, NEW x, ClearEntry(o, x) \/ ClearMetatable(o) \/ SetMode(o, x)
             \/ SetTypeMetatable(o)
      PROVE  Same
  BY <1>f, <1>2 DEF ClearEntry, ClearMetatable, SetMode, SetTypeMetatable
<1>g. ASSUME NEW u, CloseUpval(u)  PROVE Same
  BY <1>g, <1>2 DEF CloseUpval
<1>h. ASSUME NEW th, NEW s, InternString(th, s)  PROVE Same
  BY <1>h, <1>2 DEF InternString
<1>i. ASSUME NEW o, NEW m, SetMetatable(o, m)  PROVE Same
  <2>1. o \in HasMeta /\ currentwhite' = currentwhite
        /\ list' \in {list, [list EXCEPT ![o] = "finobj"]}
    BY <1>i DEF SetMetatable, SetMetaAndMove
  <2> QED BY <2>1 DEF Same, FinalizerKinds, TypeOK
<1>4. Same
  BY <1>1, <1>a, <1>b, <1>c, <1>d, <1>e, <1>f, <1>g, <1>h, <1>i DEF MutatorOn
<1> QED BY <1>4 DEF Same

LEMMA FinalizerKindsStep ==
  ASSUME TypeOK, FinalizerKinds, [Next]_vars
  PROVE  FinalizerKinds'
<1> USE DEF FinalizerKinds
<1>1. CASE Mutator
  BY <1>1, MutatorWhite
<1>2. ASSUME \A o \in Obj : list'[o] # "allgc" => list[o] # "allgc"  PROVE FinalizerKinds'
  BY <1>2
<1>3. CASE Collector
  <2>1. CASE \E L : Atomic(L)
    <3>1. PICK m1, e1, fz, m2, e2 : AtomicResult(m1, fz, m2, e2, m2 \cup KeyStrings(m2, e2))
                                    /\ fz = In("finobj") \ m1
      BY <2>1, AtomicParts
    <3>2. \A o \in Obj : list'[o] # "allgc" => list[o] # "allgc"
      BY <3>1 DEF AtomicResult, In
    <3> QED BY <1>2, <3>2
  <2>2. CASE \E o \in tosweep : SweepOne(o)
    <3>1. \A o \in Obj : list'[o] # "allgc" => list[o] # "allgc"
      BY <2>2 DEF SweepOne, FreeObj, TypeOK
    <3> QED BY <1>2, <3>1
  <2>3. CASE \E th, o : CallFinalizer(th, o)
    <3>1. \A o \in Obj : list'[o] # "allgc" => list[o] # "allgc"
      BY <2>3 DEF CallFinalizer, GCTM, TypeOK
    <3> QED BY <1>2, <3>1
  <2>4. CASE Restart \/ (\E o : PropagateMark(o)) \/ FinishPropagate \/ SweepNext \/ FinishCycle
    BY <2>4 DEF Restart, PropagateMark, FinishPropagate, SweepNext, FinishCycle
  <2> QED BY <1>3, <2>1, <2>2, <2>3, <2>4 DEF Collector, SingleStep
<1>4. CASE EndFinalizer \/ FullNext \/ (\E isemergency \in BOOLEAN : FullGC(isemergency))
  BY <1>4 DEF EndFinalizer, FullNext, FullGC
<1>5. CASE Closing
  <2>1. \A o \in Obj : list'[o] # "allgc" => list[o] # "allgc"
    BY <1>5 DEF Closing, CloseState, CloseFinalizer, GCTM, FreeAll, In, TypeOK
  <2> QED BY <1>2, <2>1
<1>6. CASE UNCHANGED vars
  BY <1>6 DEF vars
<1> QED BY <1>1, <1>3, <1>4, <1>5, <1>6 DEF Next

(* The steps of the property are those of Atomic.                          *)
LEMMA AtomicSteps ==
  ASSUME IInv, [Next]_vars, AtomicStep
  PROVE  /\ TypeOK /\ HeapInv /\ MarkInv
         /\ \E L \in Threads : Sound(L) /\ Atomic(L)
<1>1. TypeOK /\ HeapInv /\ MarkInv
  BY DEF IInv, CloseInv, AtomicStep
<1>2. currentwhite' # currentwhite /\ gcstate = "enteratomic"
  BY DEF AtomicStep
<1>3. ~Mutator
  BY <1>1, <1>2, MutatorWhite
<1>4. ~(EndFinalizer \/ FullNext \/ (\E isemergency \in BOOLEAN : FullGC(isemergency)) \/ Closing)
  BY <1>2 DEF EndFinalizer, FullNext, FullGC, Closing, CloseState, CloseFinalizer, GCTM, FreeAll, sweeps
<1>5. Collector
  BY <1>2, <1>3, <1>4 DEF Next, vars, sweeps
<1>6. \E L \in Accessible \cap Threads : Atomic(L)
  BY <1>2, <1>5 DEF Collector, SingleStep, Restart, PropagateMark, FinishPropagate, SweepOne,
     SweepNext, CallFinalizer, GCTM, FinishCycle, sweeps
<1>7. \A o \in Accessible : Sound(o)
  BY <1>1, AccessibleSound DEF HeapInv
<1> QED BY <1>1, <1>6, <1>7

----------------------------------------------------------------------------
(* An entry leaves a weak table in the atomic phase.                       *)
LEMMA ClearedEntry ==
  ASSUME NEW m1, NEW m2, m1 \subseteq m2,
         NEW e1, e1 = ClearByValues(m1, m1, entries),
         NEW e2, e2 = ClearByKeys(m2, m2, e1),
         NEW t \in Obj, NEW e \in entries[t], e \notin ClearByValues(m2 \ m1, m2, e2)[t]
  PROVE  \/ Mode(t) \in {"weakvalue", "allweak"} /\ e[2] \notin Weak(m1)
         \/ Mode(t) \in {"ephemeron", "allweak"} /\ e[1] \notin Weak(m2)
<1>1. Weak(m1) \subseteq Weak(m2)
  BY DEF Weak
<1>2. e \notin e1[t] => Mode(t) \in {"weakvalue", "allweak"} /\ e[2] \notin Weak(m1)
  BY DEF ClearByValues
<1>3. e \in e1[t] /\ e \notin e2[t] => Mode(t) \in {"ephemeron", "allweak"} /\ e[1] \notin Weak(m2)
  BY DEF ClearByKeys
<1>4. e \in e2[t] => Mode(t) \in {"weakvalue", "allweak"} /\ e[2] \notin Weak(m2)
  BY DEF ClearByValues
<1> QED BY <1>1, <1>2, <1>3, <1>4

ClearsOnlyGarbageStep ==
  AtomicStep =>
    \A t \in Accessible : \A e \in entries[t] \ entries'[t] :
      \/ (Mode(t) \in {"weakvalue", "allweak"} /\ e[2] \notin Weak(StronglyReachable))
      \/ (Mode(t) \in {"ephemeron", "allweak"} /\ e[1] \notin Weak(StronglyReachable))

LEMMA ClearsStep ==
  ASSUME IInv, [Next]_vars
  PROVE  ClearsOnlyGarbageStep
<1> SUFFICES ASSUME AtomicStep, NEW t \in Accessible, NEW e \in entries[t] \ entries'[t]
             PROVE  \/ (Mode(t) \in {"weakvalue", "allweak"} /\ e[2] \notin Weak(StronglyReachable))
                    \/ (Mode(t) \in {"ephemeron", "allweak"} /\ e[1] \notin Weak(StronglyReachable))
  BY DEF ClearsOnlyGarbageStep
<1>1. TypeOK /\ HeapInv /\ MarkInv /\ \E L \in Threads : Sound(L) /\ Atomic(L)
  BY AtomicSteps
<1>2. PICK L \in Threads : Sound(L) /\ Atomic(L)
  BY <1>1
<1>3. PICK m1, e1, fz, m2, e2 : WeakFacts(L, m1, e1, fz, m2, e2)
  BY <1>1, <1>2, WeakMarks
<1>4. gcstate = "enteratomic"
  BY <1>2 DEF Atomic
<1>5. StronglyReachable \subseteq m1 \cup Strings
  BY <1>1, <1>3, <1>4, StrongMarked DEF WeakFacts
<1>6. t \in Obj
  BY <1>1, AccessibleType
<1>7. entries' = ClearByValues(m2 \ m1, m2, e2)
  BY <1>3 DEF WeakFacts, AtomicResult
<1>8. \/ Mode(t) \in {"weakvalue", "allweak"} /\ e[2] \notin Weak(m1)
      \/ Mode(t) \in {"ephemeron", "allweak"} /\ e[1] \notin Weak(m2)
  BY <1>3, <1>6, <1>7, ClearedEntry DEF WeakFacts
<1>9. Weak(StronglyReachable) \subseteq Weak(m1) /\ Weak(m1) \subseteq Weak(m2)
  BY <1>3, <1>5 DEF Weak, WeakFacts
<1> QED BY <1>8, <1>9

WeakOrderStep ==
  AtomicStep =>
    \A t \in StronglyReachable : \A e \in entries[t], o \in Obj :
      (list[o] = "finobj" /\ list'[o] = "tobefnz") =>
         /\ o = e[2] /\ Mode(t) # "ephemeron" => e \notin entries'[t]
         /\ o = e[1] /\ Mode(t) = "ephemeron" => e \in entries'[t]

LEMMA OrderStep ==
  ASSUME IInv, FinalizerKinds, [Next]_vars
  PROVE  WeakOrderStep
<1> SUFFICES ASSUME AtomicStep, NEW t \in StronglyReachable, NEW e \in entries[t], NEW o \in Obj,
                    list[o] = "finobj", list'[o] = "tobefnz"
             PROVE  /\ o = e[2] /\ Mode(t) # "ephemeron" => e \notin entries'[t]
                    /\ o = e[1] /\ Mode(t) = "ephemeron" => e \in entries'[t]
  BY DEF WeakOrderStep
<1>1. TypeOK /\ HeapInv /\ MarkInv /\ \E L \in Threads : Sound(L) /\ Atomic(L)
  BY AtomicSteps
<1>2. PICK L \in Threads : Sound(L) /\ Atomic(L)
  BY <1>1
<1>3. PICK m1, e1, fz, m2, e2 : WeakFacts(L, m1, e1, fz, m2, e2)
  BY <1>1, <1>2, WeakMarks
<1>4. gcstate = "enteratomic"
  BY <1>2 DEF Atomic
<1>5. StronglyReachable \subseteq m1 \cup Strings
  BY <1>1, <1>3, <1>4, StrongMarked DEF WeakFacts
<1>6. /\ o \in fz /\ o \notin m1 /\ o \in m2 /\ o # Prim
      /\ o \notin Strings
  BY <1>3, ObjAssumption DEF WeakFacts, AtomicResult, FinalizerKinds, HasMeta, Strings
<1>7. t \in m1 /\ t \in Obj /\ t \notin Upvals
  <2>1. t \in Obj
    BY <1>3, <1>5 DEF WeakFacts, Strings
  <2>2. t \notin Strings \cup Upvals
    BY <1>1, <2>1 DEF HeapInv, WellFormed
  <2> QED BY <1>5, <2>1, <2>2
<1>8. entries' = ClearByValues(m2 \ m1, m2, e2)
  BY <1>3 DEF WeakFacts, AtomicResult
<1>9. ASSUME o = e[2], Mode(t) # "ephemeron"  PROVE e \notin entries'[t]
  <2>1. o \in Refs(t)
    BY <1>6, <1>9 DEF Refs, Vals
  <2>2. color[t] # "black"
    <3>1. color[t] = "black" => ~IsWhite(o)
      BY <1>4, <1>7, <2>1, <1>1 DEF MarkInv, TriColor
    <3>2. Allocated(o)
      BY <1>3, <1>6 DEF WeakFacts, In
    <3>3. ~IsWhite(o) => o \in AtomicRoots(L)
      BY <1>1, <3>2 DEF AtomicRoots, TypeOK, Colors
    <3> QED BY <1>3, <1>6, <3>1, <3>3 DEF WeakFacts
  <2>3. AtomicEntries(t, m1, entries[t]) \subseteq m1
    BY <1>3, <1>7, <2>2 DEF WeakFacts, AtomicRefs, Upvals
  <2>4. Mode(t) # "strong"
    <3>1. Mode(t) = "strong" => o \in AtomicEntries(t, m1, entries[t])
      BY <1>6, <1>9 DEF AtomicEntries, Vals
    <3> QED BY <1>6, <2>3, <3>1
  <2>5. Mode(t) \in {"weakvalue", "allweak"}
    <3>1. Mode(t) \in Modes
      BY <1>1, <1>7 DEF Mode, TypeOK, Modes
    <3> QED BY <1>9, <2>4, <3>1 DEF Modes
  <2>6. e[2] \notin Weak(m1)
    BY <1>6, <1>9 DEF Weak
  <2>7. e \notin e1[t]
    BY <1>3, <1>7, <2>2, <2>5, <2>6 DEF WeakFacts, ClearByValues
  <2> QED BY <1>3, <1>7, <1>8, <2>7, ClearedSubset DEF WeakFacts
<1>10. ASSUME o = e[1], Mode(t) = "ephemeron"  PROVE e \in entries'[t]
  <2>1. e[1] \in Weak(m2)
    BY <1>6, <1>10 DEF Weak
  <2>2. e \in entries'[t]
    BY <1>3, <1>7, <1>8, <1>10, <2>1, ClearedEntry DEF WeakFacts
  <2> QED BY <2>2
<1> QED BY <1>9, <1>10

(* Clearing weak tables never loses an entry of a table in use whose key   *)
(* and value are both strongly reachable in the words of the manual, or in *)
(* which the collectable side is not weak.                                 *)
THEOREM GarbageOnlyCleared == Spec => ClearsOnlyGarbage
<1>1. IInv /\ [Next]_vars => [ClearsOnlyGarbageStep]_vars
  BY ClearsStep
<1>2. ClearsOnlyGarbage <=> [][ClearsOnlyGarbageStep]_vars
  BY DEF ClearsOnlyGarbage, ClearsOnlyGarbageStep
<1> QED BY <1>1, <1>2, Invariant, PTL DEF Spec

(* Dead objects with a finalizer leave weak values before it is called and *)
(* stay as keys of ephemeron tables until they are collected.              *)
THEOREM WeakValuesFirst == Spec => WeakOrder
<1>1. Init => FinalizerKinds
  BY DEF Init, FinalizerKinds
<1>2. IInv /\ FinalizerKinds /\ [Next]_vars => FinalizerKinds'
  BY FinalizerKindsStep DEF IInv
<1>3. IInv /\ FinalizerKinds /\ [Next]_vars => [WeakOrderStep]_vars
  BY OrderStep
<1>4. WeakOrder <=> [][WeakOrderStep]_vars
  BY DEF WeakOrder, WeakOrderStep
<1> QED BY <1>1, <1>2, <1>3, <1>4, Invariant, PTL DEF Spec

=============================================================================
