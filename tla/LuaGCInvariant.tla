-------------------------- MODULE LuaGCInvariant ---------------------------
(***************************************************************************)
(* The inductive invariant of LuaGC: proof that every operation of the     *)
(* mutator, every step of the collector and every step of closing a state  *)
(* preserve it, and what follows from it: nothing in use is ever freed.    *)
(***************************************************************************)
EXTENDS LuaGCProofs

USE DEF Colors, Whites, Modes, FullPhases, GCStates, Sweeping, Marking,
        Sound, Allocated, IsDead, OtherWhite, IsWhite, keepinvariant

----------------------------------------------------------------------------
(***************************************************************************)
(* What the program and the pending finalizers can reach is sound.         *)
(***************************************************************************)

LEMMA ReachSound ==
  ASSUME TypeOK, RefsSound, NEW R \in SUBSET Obj, \A o \in R : Sound(o)
  PROVE  \A o \in ReachFrom(R) : o \in Obj /\ Sound(o)
<1> DEFINE S == {o \in Obj : Sound(o)}
<1>1. R \subseteq S
  OBVIOUS
<1>2. Closed(S)
  BY RefsType DEF Closed, RefsSound
<1>3. S \in SUBSET Obj
  OBVIOUS
<1> HIDE DEF S
<1>4. ReachFrom(R) \subseteq S
  BY <1>1, <1>2, <1>3, ReachIsLeast
<1> QED BY <1>4 DEF S

LEMMA RootsSound ==
  ASSUME TypeOK, RefsSound
  PROVE  /\ Roots \cup strcache \cup In("tobefnz") \in SUBSET Obj
         /\ \A o \in Roots \cup strcache \cup In("tobefnz") : Sound(o)
BY ObjAssumption DEF RefsSound, Roots, TypeOK, In, Tables, Strings

LEMMA LiveSound ==
  ASSUME TypeOK, RefsSound
  PROVE  \A o \in Live : Allocated(o) /\ ~IsDead(o)
BY RootsSound, ReachSound DEF Live

LEMMA AccessibleSound ==
  ASSUME TypeOK, RefsSound
  PROVE  \A o \in Accessible : o \in Obj /\ Sound(o)
<1>1. Roots \in SUBSET Obj /\ \A o \in Roots : Sound(o)
  BY RootsSound
<1> QED BY <1>1, ReachSound DEF Accessible

----------------------------------------------------------------------------
(***************************************************************************)
(* Marking and barriers.                                                   *)
(***************************************************************************)

LEMMA LeafRefs ==
  ASSUME TypeOK, WellFormed, NEW p \in Obj, p \in Strings \cup Upvals \/ ~Allocated(p)
  PROVE  Refs(p) = IF p \in Upvals THEN slots[p] ELSE {}
BY DEF WellFormed, TypeOK, Refs, Keys, Vals, OpenUpvals, Upvals, Strings, Threads

LEMMA MarkFacts ==
  ASSUME TypeOK, WellFormed, RefsSound, NEW S \in SUBSET Obj, \A p \in S : Sound(p),
         NEW c, c = MarkColor(S)
  PROVE  /\ \A p \in Obj : c[p] # color[p] =>
              IsWhite(p) /\ Sound(p) /\ c[p] = IF Blackens(p) THEN "black" ELSE "gray"
         /\ \A p \in S : c[p] \notin Whites
         /\ \A p \in Obj : c[p] # color[p] /\ Blackens(p) =>
              \A v \in Refs(p) : c[v] \notin Whites
         /\ MarkGray(S) = gray \cup {p \in Obj : c[p] # color[p] /\ p \notin Strings \cup Upvals}
         /\ Reached(S) = {p \in Obj : c[p] # color[p]}
<1>1. \A p \in Reached(S) : p \in Obj /\ Sound(p) /\ IsWhite(p)
  BY DEF Reached, RefsSound, Refs, TypeOK, Upvals
<1>2. \A p \in Obj : c[p] # color[p] <=> p \in Reached(S)
  BY <1>1 DEF MarkColor, IsWhite
<1>3. \A p \in S : IsWhite(p) => p \in Reached(S)
  BY DEF Reached
<1>4. \A p \in S : c[p] \notin Whites
  BY <1>3 DEF MarkColor, IsWhite
<1>5. \A p \in Reached(S) \cap Upvals : p \in S
  BY DEF Reached, WellFormed, Values
<1>6. \A p \in Reached(S) \cap Upvals : \A v \in slots[p] : c[v] \notin Whites
  <2> SUFFICES ASSUME NEW p \in Reached(S) \cap Upvals, NEW v \in slots[p]
               PROVE  c[v] \notin Whites
    OBVIOUS
  <2>1. p \in S /\ IsWhite(p) /\ v \in Obj
    BY <1>1, <1>5 DEF TypeOK
  <2>2. IsWhite(v) => v \in Reached(S)
    BY <2>1 DEF Reached
  <2> QED BY <2>1, <2>2 DEF MarkColor, IsWhite
<1>7. \A p \in Reached(S) : Blackens(p) => \A v \in Refs(p) : c[v] \notin Whites
  BY <1>1, <1>6, LeafRefs DEF Blackens, Upvals, Strings
<1> QED BY <1>1, <1>2, <1>4, <1>7 DEF MarkColor, MarkGray, IsWhite, Upvals, Strings
LEMMA BarrierFacts ==
  ASSUME TypeOK, WellFormed, RefsSound, NEW o \in Obj, NEW v \in Obj, Sound(o), Sound(v), Barrier(o, v)
  PROVE  /\ keepinvariant =>
            /\ \A p \in Obj : color'[p] # color[p] =>
                 IsWhite(p) /\ Sound(p) /\ color'[p] = IF Blackens(p) THEN "black" ELSE "gray"
            /\ \A p \in Obj : color'[p] # color[p] /\ Blackens(p) =>
                 \A x \in Refs(p) : color'[x] \notin Whites
            /\ color[o] = "black" => color'[v] \notin Whites
            /\ \A p \in Obj : color'[p] # color[p] => color[o] = "black"
            /\ gray' = gray \cup {p \in Obj : color'[p] # color[p] /\ p \notin Strings \cup Upvals}
         /\ ~keepinvariant =>
            /\ \A p \in Obj : color'[p] # color[p] =>
                 p = o /\ color[p] = "black" /\ color'[p] = currentwhite
            /\ gray' = gray
         /\ grayagain' = grayagain
<1>1. CASE keepinvariant /\ color[o] = "black" /\ IsWhite(v)
  <2>1. color' = MarkColor({v}) /\ gray' = MarkGray({v}) /\ {v} \in SUBSET Obj
    BY <1>1 DEF Barrier
  <2> QED BY <1>1, <2>1, MarkFacts DEF Barrier
<1>2. CASE ~(keepinvariant /\ color[o] = "black" /\ IsWhite(v))
  BY <1>2 DEF Barrier, TypeOK, IsWhite
<1> QED BY <1>1, <1>2

----------------------------------------------------------------------------
(***************************************************************************)
(* The mutator.                                                            *)
(***************************************************************************)

(* Operations without a barrier: only threads get new references, and to   *)
(* sound objects.                                                          *)
LEMMA PlainStep ==
  ASSUME TypeOK, HeapInv, MarkInv, WellFormed', TypeOK',
         UNCHANGED <<marks, sweeps, list, owner, twups>>,
         \A p \in Obj : \A x \in Refs(p)' \ Refs(p) : Sound(x) /\ p \in Threads,
         \A x \in (mt' \ mt) \cup (strcache' \ strcache) : Sound(x)
  PROVE  HeapInv' /\ MarkInv'
<1> USE ObjAssumption DEF HeapInv, MarkInv, marks, sweeps
<1>1. RefsSound'
  BY RefsType DEF RefsSound, TypeOK, Roots, In, Tables, Strings
<1>2. DeadToSweep' /\ SweptWhite'
  BY DEF DeadToSweep, SweptWhite, ToBeSwept, In
<1>3. TriColor'
  BY DEF TriColor, ThreadsGray
<1>4. GrayListed' /\ ThreadsGray'
  BY DEF GrayListed, ThreadsGray, IsOpen
<1> QED BY <1>1, <1>2, <1>3, <1>4

LEMMA PushKeeps ==
  ASSUME TypeOK, HeapInv, MarkInv, TypeOK',
         NEW th \in Threads, NEW x \in Obj, Sound(th), Sound(x), Push(th, x),
         UNCHANGED <<meta, entries, owner, mt, marks, sweeps, list, twups>>,
         strcache' \subseteq strcache \cup {x}
  PROVE  HeapInv' /\ MarkInv'
<1>1. WellFormed'
  BY DEF HeapInv, WellFormed, TypeOK, Push, Threads, Strings, Upvals, marks, sweeps
<1>2. \A p \in Obj : Refs(p)' \subseteq Refs(p) \cup (IF p = th THEN {x} ELSE {})
  BY DEF Refs, Push, TypeOK, OpenUpvals
<1> QED BY <1>1, <1>2, PlainStep

LEMMA PopValueKeeps ==
  ASSUME TypeOK, HeapInv, MarkInv, TypeOK', NEW th \in Threads, NEW x, PopValue(th, x)
  PROVE  HeapInv' /\ MarkInv'
<1> USE DEF PopValue, marks, sweeps
<1>1. WellFormed'
  BY DEF HeapInv, WellFormed, TypeOK, Upvals, Threads
<1>2. \A p \in Obj : Refs(p)' \subseteq Refs(p)
  BY DEF Refs, TypeOK, OpenUpvals
<1> QED BY <1>1, <1>2, PlainStep

LEMMA ClearKeeps ==
  ASSUME TypeOK, HeapInv, MarkInv, TypeOK', NEW o \in Obj,
         ClearMetatable(o) \/ \E e \in entries[o] : ClearEntry(o, e)
  PROVE  HeapInv' /\ MarkInv'
<1> USE DEF ClearMetatable, ClearEntry, marks, sweeps
<1>1. WellFormed'
  BY DEF HeapInv, WellFormed, TypeOK
<1>2. \A p \in Obj : Refs(p)' \subseteq Refs(p)
  BY DEF Refs, TypeOK, OpenUpvals, Keys, Vals
<1> QED BY <1>1, <1>2, PlainStep

LEMMA SetModeKeeps ==
  ASSUME TypeOK, HeapInv, MarkInv, TypeOK', NEW m, NEW md, SetMode(m, md)
  PROVE  HeapInv' /\ MarkInv'
<1> USE DEF SetMode, marks, sweeps
<1>1. WellFormed'
  BY DEF HeapInv, WellFormed
<1>2. \A p \in Obj : Refs(p)' = Refs(p)
  BY DEF Refs, OpenUpvals
<1> QED BY <1>1, <1>2, PlainStep

LEMMA SetTypeMetatableKeeps ==
  ASSUME TypeOK, HeapInv, MarkInv, TypeOK', NEW m \in Obj, Sound(m), SetTypeMetatable(m)
  PROVE  HeapInv' /\ MarkInv'
<1> USE DEF SetTypeMetatable, marks, sweeps
<1>1. WellFormed'
  BY DEF HeapInv, WellFormed
<1>2. \A p \in Obj : Refs(p)' = Refs(p)
  BY DEF Refs, OpenUpvals
<1> QED BY <1>1, <1>2, PlainStep

LEMMA NewObjectKeeps ==
  ASSUME TypeOK, HeapInv, MarkInv, TypeOK',
         NEW th \in Threads, NEW o \in Obj, Sound(th), NewObject(th, o)
  PROVE  HeapInv' /\ MarkInv'
<1> USE ObjAssumption DEF HeapInv, MarkInv, NewObject, Push, marks, sweeps, run
<1>1. /\ \A p \in Obj : color'[p] = IF p = o THEN currentwhite ELSE color[p]
      /\ color[o] = "free" /\ o \notin tosweep
  BY DEF TypeOK, DeadToSweep
<1>2. \A p \in Obj : Refs(p)' \subseteq Refs(p) \cup (IF p = th THEN {o} ELSE {})
  BY DEF Refs, TypeOK, OpenUpvals
<1>3. Refs(o)' = {} /\ \A p \in Obj : Sound(p) => o \notin Refs(p)
  BY DEF WellFormed, RefsSound, Refs, OpenUpvals, Keys, Vals, TypeOK, Upvals
<1>4. WellFormed'
  BY <1>1 DEF WellFormed, TypeOK, Threads, Strings, Upvals
<1>5. RefsSound'
  BY <1>1, <1>2, <1>3, RefsType DEF RefsSound, TypeOK, Roots, In, Tables, Strings
<1>6. DeadToSweep' /\ SweptWhite'
  BY <1>1 DEF DeadToSweep, SweptWhite, ToBeSwept, In, TypeOK
<1>7. TriColor'
  BY <1>1, <1>2, <1>3 DEF TriColor, ThreadsGray, TypeOK
<1>8. GrayListed'
  BY <1>1 DEF GrayListed, IsOpen, TypeOK, Upvals
<1>9. ThreadsGray'
  BY <1>1 DEF ThreadsGray, TypeOK, RefsSound, Roots
<1> QED BY <1>4, <1>5, <1>6, <1>7, <1>8, <1>9

LEMMA InternStringKeeps ==
  ASSUME TypeOK, HeapInv, MarkInv, TypeOK',
         NEW th \in Threads, NEW s \in Obj, Sound(th), InternString(th, s)
  PROVE  HeapInv' /\ MarkInv'
<1> USE ObjAssumption DEF HeapInv, MarkInv, InternString, Push, marks, sweeps, run
<1>1. /\ \A p \in Obj : color'[p] = IF p = s /\ IsDead(s) THEN currentwhite ELSE color[p]
      /\ IsDead(s) => gcstate = "swpallgc" /\ s \in tosweep
  BY DEF TypeOK, DeadToSweep
<1>2. \A p \in Obj : Refs(p)' \subseteq Refs(p) \cup (IF p = th THEN {s} ELSE {})
  BY DEF Refs, TypeOK, OpenUpvals
<1>3. Refs(s)' = {}
  BY DEF WellFormed, Refs, OpenUpvals, Keys, Vals, TypeOK, Upvals, Threads, Strings
<1>4. WellFormed'
  BY <1>1 DEF WellFormed, TypeOK, Threads, Strings, Upvals
<1>5. RefsSound'
  BY <1>1, <1>2, <1>3, RefsType DEF RefsSound, TypeOK, Roots, In, Tables, Strings
<1>6. DeadToSweep' /\ SweptWhite'
  BY <1>1 DEF DeadToSweep, SweptWhite, ToBeSwept, In, TypeOK, SweptList
<1>7. TriColor'
  BY <1>1, <1>2, <1>3 DEF TriColor, ThreadsGray, TypeOK
<1>8. GrayListed' /\ ThreadsGray'
  BY <1>1 DEF GrayListed, ThreadsGray, IsOpen, TypeOK, Upvals
<1> QED BY <1>4, <1>5, <1>6, <1>7, <1>8

(* Changes of color while marking: objects leave white for gray or, when   *)
(* all they refer to has left white, for black; 'mid' are new references.  *)
LEMMA BarrierKeeps ==
  ASSUME TypeOK, HeapInv, MarkInv, TypeOK', WellFormed',
         NEW o \in Obj, NEW v \in Obj, Sound(o), Sound(v), o \notin Threads, Barrier(o, v),
         UNCHANGED <<owner, mt, strcache, sweeps, twups>>,
         issweepphase => UNCHANGED list,
         \A p \in Obj : list'[p] = "tobefnz" => list[p] = "tobefnz",
         \A p \in Obj : Refs(p)' \subseteq Refs(p) \cup (IF p = o THEN {v} ELSE {})
  PROVE  HeapInv' /\ MarkInv'
<1> USE ObjAssumption DEF HeapInv, MarkInv, sweeps
<1>1. \A p \in Obj : Blackens(p)' = Blackens(p)
  BY DEF Blackens, IsOpen
<1>2. /\ \A p \in Obj : Sound(p) => Sound(p)'
      /\ \A p \in Obj : IsDead(p)' = IsDead(p) /\ Allocated(p)' = Allocated(p)
  BY BarrierFacts DEF TypeOK
<1>3. RefsSound'
  BY <1>2, RefsType DEF RefsSound, Roots, In, TypeOK, Tables, Strings
<1>4. DeadToSweep'
  BY <1>2 DEF DeadToSweep, SweptList, TypeOK, issweepphase
<1>5. SweptWhite'
  BY BarrierFacts DEF SweptWhite, ToBeSwept, In, TypeOK, issweepphase
<1>6. TriColor'
  <2> SUFFICES ASSUME keepinvariant, NEW p \in Obj, color'[p] = "black", NEW x \in Refs(p)'
               PROVE  color'[x] \notin Whites
    BY DEF TriColor
  <2>1. x \in Obj /\ x \in Refs(p) \cup (IF p = o THEN {v} ELSE {})
    BY RefsType
  <2>2. CASE color[p] = "black"
    <3>1. x \in Refs(p) => color[x] \notin Whites
      BY <2>2 DEF TriColor
    <3> QED BY <2>1, <2>2, <3>1, BarrierFacts
  <2>3. CASE color[p] # "black"
    <3>1. Blackens(p) /\ p # o
      BY <2>3, BarrierFacts
    <3> QED BY <2>1, <2>3, <3>1, BarrierFacts
  <2> QED BY <2>2, <2>3
<1>7. GrayListed'
  BY <1>2, BarrierFacts DEF GrayListed, Blackens, IsOpen, Upvals, Strings
<1>8. ThreadsGray'
  BY <1>2, BarrierFacts DEF ThreadsGray, Blackens, Threads
<1> QED BY <1>3, <1>4, <1>5, <1>6, <1>7, <1>8

LEMMA SetSlotKeeps ==
  ASSUME TypeOK, HeapInv, MarkInv, TypeOK', NEW c \in Obj, NEW x \in Obj, Sound(c), Sound(x),
         SetReference(c, x) \/ (SetUpval(c, x) /\ x \in Values)
  PROVE  HeapInv' /\ MarkInv'
<1> USE DEF SetReference, SetUpval, HeapInv, sweeps
<1>1. \A p \in Obj : Refs(p)' \subseteq Refs(p) \cup (IF p = c THEN {x} ELSE {})
  BY DEF Refs, TypeOK, OpenUpvals
<1>2. WellFormed'
  BY BarrierFacts DEF WellFormed, TypeOK, Threads, Strings, Upvals
<1> QED BY <1>1, <1>2, BarrierKeeps DEF Threads

LEMMA BarrierBackKeeps ==
  ASSUME TypeOK, HeapInv, MarkInv, TypeOK', NEW o \in HasMeta, Sound(o), NEW V \in SUBSET Obj,
         \A v \in V : Sound(v), BarrierBack(o, V),
         \A p \in Obj \ {o} : entries'[p] = entries[p],
         Keys(entries'[o]) \cup Vals(entries'[o])
           \subseteq Keys(entries[o]) \cup Vals(entries[o]) \cup V,
         UNCHANGED <<slots, meta, owner, mt, strcache, sweeps, list, twups>>
  PROVE  HeapInv' /\ MarkInv'
<1> USE ObjAssumption DEF HeapInv, MarkInv, sweeps, HasMeta
<1>1. \A p \in Obj : Refs(p)' \subseteq Refs(p) \cup (IF p = o THEN V ELSE {})
  BY DEF Refs, OpenUpvals
<1>2. /\ \A p \in Obj : color'[p] # color[p] =>
           p = o /\ color[p] = "black" /\ color'[p] = "gray" /\ p \in grayagain'
      /\ color'[o] = "black" => \A v \in V : ~IsWhite(v)
      /\ gray' = gray /\ grayagain' \subseteq grayagain \cup {o} /\ grayagain \subseteq grayagain'
      /\ o \in grayagain' \ grayagain => color[o] = "black" /\ color'[o] = "gray"
  BY DEF BarrierBack, TypeOK
<1>3. WellFormed'
  BY <1>2 DEF WellFormed, TypeOK, Threads, Strings, Upvals
<1>4. RefsSound'
  BY <1>1, <1>2, RefsType DEF RefsSound, Roots, In, TypeOK, Tables, Strings
<1>5. DeadToSweep'
  BY <1>2 DEF DeadToSweep, TypeOK
<1>6. SweptWhite'
  BY <1>2 DEF SweptWhite, ToBeSwept, In, TypeOK
<1>7. TriColor'
  BY <1>1, <1>2, RefsType DEF TriColor
<1>8. GrayListed'
  BY <1>2 DEF GrayListed, IsOpen, Upvals
<1>9. ThreadsGray'
  BY <1>2 DEF ThreadsGray, Threads
<1> QED BY <1>3, <1>4, <1>5, <1>6, <1>7, <1>8, <1>9

LEMMA SetEntryKeeps ==
  ASSUME TypeOK, HeapInv, MarkInv, TypeOK', NEW t \in Tables, Sound(t),
         NEW k \in Obj \cup {Prim}, NEW v \in Obj \cup {Prim},
         k # Prim => Sound(k), v # Prim => Sound(v), SetEntry(t, k, v)
  PROVE  HeapInv' /\ MarkInv'
<1> DEFINE V == {k, v} \ {Prim}
<1>1. V \in SUBSET Obj /\ \A x \in V : Sound(x)
  OBVIOUS
<1>2. Keys(entries'[t]) \cup Vals(entries'[t]) \subseteq Keys(entries[t]) \cup Vals(entries[t]) \cup V
  BY DEF SetEntry, Keys, Vals, TypeOK, Tables
<1>3. BarrierBack(t, V) /\ t \in HasMeta
  BY DEF SetEntry, Tables, HasMeta
<1>4. \A p \in Obj \ {t} : entries'[p] = entries[p]
  BY DEF SetEntry, TypeOK
<1> HIDE DEF V
<1> QED BY <1>1, <1>2, <1>3, <1>4, BarrierBackKeeps DEF SetEntry

LEMMA SetUserValueKeeps ==
  ASSUME TypeOK, HeapInv, MarkInv, TypeOK', NEW u \in Obj, Sound(u),
         NEW v \in Obj, Sound(v), SetUserValue(u, v)
  PROVE  HeapInv' /\ MarkInv'
<1>1. Keys(entries'[u]) \cup Vals(entries'[u]) \subseteq Keys(entries[u]) \cup Vals(entries[u]) \cup {v}
  BY DEF SetUserValue, Keys, Vals, TypeOK
<1>2. BarrierBack(u, {v}) /\ u \in HasMeta
  BY DEF SetUserValue, HasMeta
<1>3. \A p \in Obj \ {u} : entries'[p] = entries[p]
  BY DEF SetUserValue, TypeOK
<1> QED BY <1>1, <1>2, <1>3, BarrierBackKeeps DEF SetUserValue

LEMMA FindUpvalKeeps ==
  ASSUME TypeOK, HeapInv, MarkInv, TypeOK', NEW th \in Threads, Sound(th),
         NEW u \in Obj, NEW x \in Values, FindUpval(th, u, x)
  PROVE  HeapInv' /\ MarkInv'
<1> USE ObjAssumption DEF HeapInv, MarkInv, FindUpval, sweeps, run
<1>1. /\ \A p \in Obj : color'[p] = IF p = u THEN currentwhite ELSE color[p]
      /\ color[u] = "free" /\ u \notin tosweep /\ Sound(x) /\ owner[u] = {}
  BY DEF TypeOK, DeadToSweep, RefsSound, Refs, Values, Threads, WellFormed
<1>2. \A p \in Obj : Refs(p)' \subseteq Refs(p) \cup (IF p = th THEN {u} ELSE {})
                                        \cup (IF p = u THEN {x} ELSE {})
  BY DEF Refs, TypeOK, OpenUpvals
<1>3. \A p \in Obj : Sound(p) => u \notin Refs(p)
  BY <1>1 DEF RefsSound
<1>4. Refs(u)' = {x}
  BY <1>1 DEF WellFormed, Refs, OpenUpvals, Keys, Vals, TypeOK, Upvals, Threads
<1>5. WellFormed'
  BY <1>1 DEF WellFormed, TypeOK, Threads, Strings, Upvals
<1>6. RefsSound'
  BY <1>1, <1>2, <1>3, <1>4, RefsType DEF RefsSound, TypeOK, Roots, In, Tables, Strings
<1>7. DeadToSweep' /\ SweptWhite'
  BY <1>1 DEF DeadToSweep, SweptWhite, ToBeSwept, In, TypeOK
<1>8. TriColor'
  BY <1>1, <1>2, <1>3 DEF TriColor, ThreadsGray, TypeOK
<1>9. GrayListed'
  BY <1>1 DEF GrayListed, IsOpen, TypeOK, Upvals
<1>10. ThreadsGray'
  BY <1>1 DEF ThreadsGray, TypeOK, RefsSound, Roots
<1> QED BY <1>5, <1>6, <1>7, <1>8, <1>9, <1>10

LEMMA SetMetatableKeeps ==
  ASSUME TypeOK, HeapInv, MarkInv, TypeOK', NEW o \in Obj, NEW m \in Obj, Sound(o), Sound(m),
         SetMetatable(o, m)
  PROVE  HeapInv' /\ MarkInv'
<1> DEFINE moves == list[o] = "allgc" /\ m \in MetaGC /\ life = "open"
<1> USE ObjAssumption DEF HeapInv, MarkInv
<1>1. /\ o \in HasMeta /\ list' = IF moves THEN [list EXCEPT ![o] = "finobj"] ELSE list
      /\ tosweep' = IF moves THEN tosweep \ {o} ELSE tosweep
      /\ UNCHANGED <<slots, entries, owner, mt, strcache, currentwhite, gcstate, twups>>
  BY DEF SetMetatable, SetMetaAndMove, run
<1>2. \A p \in Obj : Refs(p)' \subseteq Refs(p) \cup (IF p = o THEN {m} ELSE {})
  BY DEF SetMetatable, SetMetaAndMove, Refs, TypeOK, OpenUpvals
<1>3. CASE moves /\ issweepphase
  <2>1. /\ \A p \in Obj : color'[p] = IF p = o THEN currentwhite ELSE color[p]
        /\ UNCHANGED <<gray, grayagain>>
        /\ gcstate \in Sweeping /\ gcstate \notin Marking
    BY <1>3 DEF SetMetatable, SetMetaAndMove, TypeOK, issweepphase
  <2>2. WellFormed'
    BY <1>1, <2>1 DEF SetMetatable, SetMetaAndMove, HasMeta, WellFormed, TypeOK, Threads, Strings, Upvals
  <2>3. RefsSound'
    BY <1>1, <1>2, <1>3, <2>1, RefsType DEF RefsSound, TypeOK, Roots, In, Tables, Strings
  <2>4. DeadToSweep'
    BY <1>1, <1>3, <2>1 DEF DeadToSweep, TypeOK, SweptList
  <2>5. SweptWhite'
    BY <1>1, <1>3, <2>1 DEF SweptWhite, ToBeSwept, In, TypeOK
  <2>6. MarkInv'
    BY <1>1, <2>1 DEF TriColor, GrayListed, ThreadsGray
  <2> QED BY <2>2, <2>3, <2>4, <2>5, <2>6
<1>4. CASE ~(moves /\ issweepphase)
  <2>1. Barrier(o, m)
    BY <1>4 DEF SetMetatable, SetMetaAndMove
  <2>2. WellFormed'
    BY <1>1, <2>1, BarrierFacts DEF SetMetatable, SetMetaAndMove, HasMeta, WellFormed, TypeOK, Threads, Strings, Upvals
  <2>3. UNCHANGED <<owner, mt, strcache, sweeps, twups>>
    BY <1>1, <1>4 DEF sweeps, DeadToSweep, SweptList, issweepphase
  <2>4. /\ issweepphase => UNCHANGED list
        /\ \A p \in Obj : list'[p] = "tobefnz" => list[p] = "tobefnz"
    BY <1>1, <1>4 DEF TypeOK
  <2> QED BY <1>1, <1>2, <2>1, <2>2, <2>3, <2>4, BarrierKeeps DEF HasMeta, Threads
<1> QED BY <1>3, <1>4

LEMMA CloseUpvalKeeps ==
  ASSUME TypeOK, HeapInv, MarkInv, TypeOK', NEW u \in Obj, Sound(u), CloseUpval(u)
  PROVE  HeapInv' /\ MarkInv'
<1> USE ObjAssumption DEF HeapInv, MarkInv, sweeps, run
<1> DEFINE v == WhiteSlots(u)
           c == MarkColor(v)
<1>1. /\ u \in Upvals /\ owner[u] # {} /\ owner' = [owner EXCEPT ![u] = {}]
      /\ UNCHANGED <<slots, meta, entries, mt, strcache, grayagain, sweeps, list, twups>>
      /\ slots[u] \subseteq Refs(u)
  BY DEF CloseUpval, IsOpen, Upvals, Refs
<1>2. v \in SUBSET Obj /\ \A x \in v : Sound(x)
  BY <1>1 DEF WhiteSlots, RefsSound, TypeOK
<1>3. \A p \in Obj : Refs(p)' \subseteq Refs(p)
  BY <1>1 DEF Refs, OpenUpvals, TypeOK
<1>4. Refs(u)' \subseteq slots[u]
  BY <1>1, LeafRefs DEF Refs, OpenUpvals, WellFormed, Threads, Upvals, TypeOK
<1>5. CASE IsWhite(u)
  <2>1. UNCHANGED <<color, gray>>
    BY <1>5 DEF CloseUpval
  <2>2. WellFormed' /\ RefsSound'
    BY <1>1, <1>3, <2>1, RefsType DEF WellFormed, RefsSound, Roots, In, TypeOK, Upvals, Tables, Strings
  <2>3. DeadToSweep' /\ SweptWhite' /\ TriColor' /\ ThreadsGray'
    BY <1>1, <1>3, <2>1 DEF DeadToSweep, SweptWhite, ToBeSwept, In, TriColor, ThreadsGray
  <2>4. GrayListed'
    BY <1>1, <1>5, <2>1 DEF GrayListed, IsOpen, TypeOK, Upvals
  <2> QED BY <2>2, <2>3, <2>4
<1>6. CASE ~IsWhite(u) /\ keepinvariant
  <2>1. /\ \A p \in Obj : color'[p] = IF p = u THEN "black" ELSE c[p]
        /\ gray' = MarkGray(v)
    <3>1. CASE v = {}
      <4>1. c = color /\ MarkGray(v) = gray
        BY <3>1 DEF MarkColor, MarkGray, Reached, TypeOK
      <4> QED BY <1>6, <3>1, <4>1 DEF CloseUpval, TypeOK
    <3>2. CASE v # {}
      BY <1>2, <1>6, <3>2, MarkType DEF CloseUpval
    <3> QED BY <3>1, <3>2
  <2> HIDE DEF v, c
  <2>2. /\ \A p \in Obj : c[p] # color[p] =>
             IsWhite(p) /\ Sound(p) /\ c[p] = IF Blackens(p) THEN "black" ELSE "gray"
        /\ \A p \in v : c[p] \notin Whites
        /\ \A p \in Obj : c[p] # color[p] /\ Blackens(p) => \A x \in Refs(p) : c[x] \notin Whites
        /\ gray' = gray \cup {p \in Obj : c[p] # color[p] /\ p \notin Strings \cup Upvals}
    BY <1>2, <2>1, MarkFacts DEF c
  <2>3. /\ \A p \in Obj : Sound(p) => Sound(p)'
        /\ \A p \in Obj : IsDead(p)' = IsDead(p) /\ Allocated(p)' = Allocated(p)
    BY <1>1, <1>6, <2>1, <2>2 DEF TypeOK
  <2>4. WellFormed'
    BY <1>1, <2>3 DEF WellFormed, TypeOK, Threads, Strings, Upvals
  <2>5. RefsSound'
    BY <1>1, <1>3, <2>3, RefsType DEF RefsSound, Roots, In, TypeOK, Tables, Strings
  <2>6. DeadToSweep'
    BY <1>1, <2>3 DEF DeadToSweep, TypeOK
  <2>7. SweptWhite'
    BY <1>1, <1>6 DEF SweptWhite, ToBeSwept
  <2>8. TriColor'
    <3>1. \A x \in slots[u] : c[x] \notin Whites
      BY <1>1, <2>2 DEF v, WhiteSlots, TypeOK
    <3>2. \A p \in Obj \ {u} : color'[p] = "black" => \A x \in Refs(p) : c[x] \notin Whites
      <4> SUFFICES ASSUME NEW p \in Obj \ {u}, color'[p] = "black", NEW x \in Refs(p)
                   PROVE  c[x] \notin Whites
        OBVIOUS
      <4>1. CASE color[p] = "black"
        BY <1>6, <2>2, <4>1, RefsType DEF TriColor
      <4>2. CASE color[p] # "black"
        BY <2>1, <2>2, <4>2
      <4> QED BY <4>1, <4>2
    <3> QED BY <1>3, <1>4, <2>1, <3>1, <3>2, RefsType DEF TriColor
  <2>9. GrayListed'
    BY <1>1, <1>6, <2>1, <2>2 DEF GrayListed, Blackens, IsOpen, Upvals, Strings, TypeOK
  <2>10. ThreadsGray'
    BY <1>1, <1>6, <2>1, <2>2 DEF ThreadsGray, Blackens, Threads, Upvals
  <2> QED BY <2>4, <2>5, <2>6, <2>7, <2>8, <2>9, <2>10
<1>7. CASE ~IsWhite(u) /\ ~keepinvariant
  <2>1. /\ \A p \in Obj \ {u} : color'[p] = color[p]
        /\ color'[u] \in {"black", currentwhite} /\ gray' = gray
    BY <1>7 DEF CloseUpval, TypeOK
  <2>2. WellFormed'
    BY <1>1, <2>1 DEF WellFormed, TypeOK, Threads, Strings, Upvals
  <2>3. RefsSound'
    BY <1>1, <1>3, <2>1, RefsType DEF RefsSound, Roots, In, TypeOK, Tables, Strings
  <2>4. DeadToSweep'
    BY <1>1, <2>1 DEF DeadToSweep, TypeOK
  <2>5. SweptWhite'
    BY <1>1, <1>7, <2>1 DEF SweptWhite, ToBeSwept, In, TypeOK
  <2>6. MarkInv'
    BY <1>1, <1>7 DEF TriColor, GrayListed, ThreadsGray
  <2> QED BY <2>2, <2>3, <2>4, <2>5, <2>6
<1> QED BY <1>5, <1>6, <1>7

LEMMA MutatorKeeps ==
  ASSUME TypeOK, HeapInv, MarkInv, Mutator, TypeOK'
  PROVE  HeapInv' /\ MarkInv'
<1> USE ObjAssumption DEF Values
<1> DEFINE acc == Accessible
           val == acc \cap Values
<1>1. /\ acc \in SUBSET Obj /\ \A o \in acc : Sound(o)
      /\ \A s \in strcache : s \in Obj /\ Sound(s)
  BY AccessibleType, AccessibleSound DEF HeapInv, RefsSound, TypeOK, Strings
<1> HIDE DEF acc
<1>2. MutatorOn(acc)
  BY DEF Mutator, acc
<1>a. ASSUME NEW th \in acc \cap Threads, NEW o \in Obj, NewObject(th, o)
      PROVE  HeapInv' /\ MarkInv'
  BY <1>a, <1>1, NewObjectKeeps
<1>b. ASSUME NEW th \in acc \cap Threads, NEW x \in val, PushValue(th, x)
      PROVE  HeapInv' /\ MarkInv'
  BY <1>b, <1>1, PushKeeps DEF PushValue
<1>c. ASSUME NEW th \in acc \cap Threads, NEW x \in val, PopValue(th, x)
      PROVE  HeapInv' /\ MarkInv'
  BY <1>c, <1>1, PopValueKeeps
<1>d. ASSUME NEW t \in acc \cap Tables, NEW k \in val \cup {Prim}, NEW v \in val \cup {Prim},
             SetEntry(t, k, v)
      PROVE  HeapInv' /\ MarkInv'
  BY <1>d, <1>1, SetEntryKeeps
<1>e. ASSUME NEW t \in acc \cap Tables, NEW e \in entries[t], ClearEntry(t, e)
      PROVE  HeapInv' /\ MarkInv'
  BY <1>e, <1>1, ClearKeeps
<1>f. ASSUME NEW u \in acc, NEW v \in val, SetUserValue(u, v)
      PROVE  HeapInv' /\ MarkInv'
  BY <1>f, <1>1, SetUserValueKeeps
<1>g. ASSUME NEW c \in acc, NEW x \in acc, SetReference(c, x)
      PROVE  HeapInv' /\ MarkInv'
  BY <1>g, <1>1, SetSlotKeeps
<1>h. ASSUME NEW th \in acc \cap Threads, NEW u \in Obj, NEW x \in val, FindUpval(th, u, x)
      PROVE  HeapInv' /\ MarkInv'
  BY <1>h, <1>1, FindUpvalKeeps
<1>i. ASSUME NEW u \in acc, NEW v \in val, SetUpval(u, v)
      PROVE  HeapInv' /\ MarkInv'
  BY <1>i, <1>1, SetSlotKeeps
<1>j. ASSUME NEW u \in acc, CloseUpval(u)
      PROVE  HeapInv' /\ MarkInv'
  BY <1>j, <1>1, CloseUpvalKeeps
<1>k. ASSUME NEW o \in acc, NEW m \in acc, SetMetatable(o, m)
      PROVE  HeapInv' /\ MarkInv'
  BY <1>k, <1>1, SetMetatableKeeps
<1>l. ASSUME NEW o \in acc, ClearMetatable(o)
      PROVE  HeapInv' /\ MarkInv'
  BY <1>l, <1>1, ClearKeeps
<1>m. ASSUME NEW m \in acc, NEW md \in Modes, SetMode(m, md)
      PROVE  HeapInv' /\ MarkInv'
  BY <1>m, SetModeKeeps
<1>n. ASSUME NEW m \in acc, SetTypeMetatable(m)
      PROVE  HeapInv' /\ MarkInv'
  BY <1>n, <1>1, SetTypeMetatableKeeps
<1>o. ASSUME NEW th \in acc \cap Threads, NEW s \in Obj, InternString(th, s)
      PROVE  HeapInv' /\ MarkInv'
  BY <1>o, <1>1, InternStringKeeps
<1>p. ASSUME NEW th \in acc \cap Threads, NEW s \in strcache, CachedString(th, s)
      PROVE  HeapInv' /\ MarkInv'
  BY <1>p, <1>1, PushKeeps DEF CachedString
<1> QED
  BY <1>2, <1>a, <1>b, <1>c, <1>d, <1>e, <1>f, <1>g, <1>h, <1>i, <1>j, <1>k, <1>l, <1>m,
     <1>n, <1>o, <1>p DEF MutatorOn

----------------------------------------------------------------------------
(***************************************************************************)
(* The collector outside of its atomic phase.                              *)
(***************************************************************************)

LEMMA RestartKeeps ==
  ASSUME TypeOK, HeapInv, MarkInv, TypeOK', Restart
  PROVE  HeapInv' /\ MarkInv'
<1> USE ObjAssumption DEF HeapInv, MarkInv
<1> DEFINE S == Roots \cup In("tobefnz")
           c == MarkColor(S)
<1>1. S \in SUBSET Obj /\ \A o \in S : Sound(o)
  BY RootsSound
<1>2. /\ gcstate = "pause" /\ gcstate' = "propagate" /\ color' = c /\ grayagain' = {}
      /\ gray' = {o \in Reached(S) : o \notin Strings \cup Upvals}
      /\ UNCHANGED <<slots, meta, entries, owner, list, currentwhite, twups, tosweep, mt, strcache>>
  BY <1>1, MarkType DEF Restart, heap, run, Strings, Upvals
<1>3. \A p \in Obj : (Allocated(p) => color[p] = currentwhite) /\ ~IsDead(p)
  BY <1>2 DEF SweptWhite, ToBeSwept, DeadToSweep, TypeOK
<1>5. MainThread \in S
  BY DEF Roots
<1> HIDE DEF S, c
<1>4. /\ \A p \in Obj : c[p] # color[p] =>
           IsWhite(p) /\ Sound(p) /\ c[p] = IF Blackens(p) THEN "black" ELSE "gray"
      /\ \A p \in S : c[p] \notin Whites
      /\ \A p \in Obj : c[p] # color[p] /\ Blackens(p) => \A v \in Refs(p) : c[v] \notin Whites
      /\ Reached(S) = {p \in Obj : c[p] # color[p]}
  BY <1>1, MarkFacts DEF c
<1>6. \A p \in Obj : Refs(p)' = Refs(p) /\ Allocated(p)' = Allocated(p) /\ ~IsDead(p)'
  BY <1>2, <1>3, <1>4 DEF Refs, OpenUpvals, TypeOK
<1>7. WellFormed'
  BY <1>2, <1>3, <1>6 DEF WellFormed, TypeOK, Threads
<1>8. RefsSound'
  <2>1. Roots' = Roots /\ strcache' = strcache /\ In("tobefnz")' = In("tobefnz")
    BY <1>2, <1>6 DEF Roots, In
  <2>2. \A p \in Obj : Sound(p) <=> Sound(p)'
    BY <1>2, <1>3, <1>6
  <2> QED BY <1>6, <2>1, <2>2, RootsSound, RefsType DEF RefsSound
<1>9. DeadToSweep' /\ SweptWhite'
  BY <1>2, <1>6 DEF DeadToSweep, SweptWhite, ToBeSwept, SweptList, TypeOK
<1>10. TriColor'
  BY <1>2, <1>3, <1>4, <1>6, RefsType DEF TriColor, TypeOK
<1>11. GrayListed'
  <2>1. \A u \in Upvals : owner[u] \subseteq twups
    BY <1>3 DEF WellFormed, TypeOK, Threads, Upvals
  <2> QED BY <1>2, <1>3, <1>4, <2>1 DEF GrayListed, WellFormed, IsOpen, Blackens, Upvals, Strings, TypeOK
<1>12. ThreadsGray'
  BY <1>2, <1>3, <1>4, <1>5 DEF ThreadsGray, Blackens, Threads, TypeOK
<1> QED BY <1>7, <1>8, <1>9, <1>10, <1>11, <1>12

LEMMA TraversedSound ==
  ASSUME TypeOK, WellFormed, RefsSound, NEW o \in Obj, Sound(o)
  PROVE  /\ \A x \in Traversed(o) : Sound(x)
         /\ Mode(o) = "strong" => Refs(o) \subseteq Traversed(o)
<1>1. \A x \in Refs(o) : x \in Obj /\ Sound(x)
  BY RefsType DEF RefsSound
<1>2. OpenUpvals(o) \subseteq Refs(o) /\ \A u \in OpenUpvals(o) : slots[u] \subseteq Refs(u)
  BY DEF Refs
<1>3. \A x \in StackUpvals(o) : Sound(x)
  BY <1>1, <1>2, RefsType DEF StackUpvals, RefsSound
<1>4. \A es \in SUBSET entries[o] : Keys(es) \subseteq Refs(o) /\ Vals(es) \subseteq Refs(o)
  BY DEF Refs, Keys, Vals
<1> DEFINE E1 == {e \in entries[o] : e[1] \in Strings \cup {Prim} \/ ~IsWhite(e[1])}
<1>5. E1 \in SUBSET entries[o]
  OBVIOUS
<1> HIDE DEF E1
<1>6. Traversed(o) =
        meta[o] \cup slots[o] \cup StackUpvals(o)
          \cup (CASE Mode(o) = "strong" -> Keys(entries[o]) \cup Vals(entries[o])
                  [] Mode(o) = "weakvalue" -> Keys(entries[o]) \cup (Vals(entries[o]) \cap Strings)
                  [] Mode(o) = "ephemeron" -> (Keys(entries[o]) \cap Strings) \cup Vals(E1)
                  [] OTHER -> {})
  BY DEF Traversed, E1
<1>7. meta[o] \cup slots[o] \cup Keys(entries[o]) \cup Vals(entries[o]) \cup Vals(E1) \subseteq Refs(o)
  BY <1>4, <1>5 DEF Refs
<1>8. \A x \in Traversed(o) : x \in Refs(o) \cup StackUpvals(o)
  BY <1>6, <1>7
<1>9. Mode(o) = "strong" => Refs(o) \subseteq Traversed(o)
  BY <1>6 DEF Refs, StackUpvals
<1> QED BY <1>1, <1>3, <1>8, <1>9

LEMMA PropagateMarkKeeps ==
  ASSUME TypeOK, HeapInv, MarkInv, TypeOK', NEW o \in gray, PropagateMark(o)
  PROVE  HeapInv' /\ MarkInv'
<1> USE ObjAssumption DEF HeapInv, MarkInv
<1> DEFINE S == Traversed(o)
           c == MarkColor(S)
           again == Kind[o] = "thread" \/ Mode(o) # "strong"
<1>1. /\ o \in Obj /\ color[o] = "gray" /\ o \notin Upvals /\ keepinvariant /\ Sound(o)
      /\ o \notin grayagain
  BY DEF GrayListed, TypeOK, PropagateMark
<1>2. S \in SUBSET Obj /\ (\A x \in S : Sound(x)) /\ (Mode(o) = "strong" => Refs(o) \subseteq S)
  BY <1>1, TraversedType, TraversedSound
<1>3. /\ color' = IF again THEN c ELSE [c EXCEPT ![o] = "black"]
      /\ gray' = MarkGray(S) \ {o}
      /\ grayagain' = IF again THEN grayagain \cup {o} ELSE grayagain
      /\ UNCHANGED <<heap, sweeps, list, twups>>
  BY DEF PropagateMark
<1>4. c \in [Obj -> Colors]
  BY <1>2, MarkType
<1> HIDE DEF S, c, again
<1>5. /\ \A p \in Obj : c[p] # color[p] =>
           IsWhite(p) /\ Sound(p) /\ c[p] = IF Blackens(p) THEN "black" ELSE "gray"
      /\ \A p \in S : c[p] \notin Whites
      /\ \A p \in Obj : c[p] # color[p] /\ Blackens(p) => \A v \in Refs(p) : c[v] \notin Whites
      /\ gray' = (gray \cup {p \in Obj : c[p] # color[p] /\ p \notin Strings \cup Upvals}) \ {o}
  BY <1>2, <1>3, MarkFacts DEF c
<1>6. /\ \A p \in Obj : color'[p] = IF p = o /\ ~again THEN "black" ELSE c[p]
      /\ c[o] = "gray"
  BY <1>1, <1>3, <1>4, <1>5
<1>7. /\ \A p \in Obj : Refs(p)' = Refs(p)
      /\ UNCHANGED <<owner, list, currentwhite, gcstate, twups, tosweep, mt, strcache>>
  BY <1>3 DEF heap, sweeps, Refs, OpenUpvals
<1>8. \A p \in Obj : (Sound(p) => Sound(p)') /\ IsDead(p)' = IsDead(p) /\ Allocated(p)' = Allocated(p)
  BY <1>1, <1>5, <1>6, <1>7 DEF TypeOK
<1>9. WellFormed'
  BY <1>3, <1>7, <1>8 DEF WellFormed, TypeOK, Threads, heap
<1>10. RefsSound'
  BY <1>7, <1>8, RefsType DEF RefsSound, Roots, In, TypeOK, Tables, Strings
<1>11. DeadToSweep' /\ SweptWhite'
  BY <1>1, <1>7, <1>8 DEF DeadToSweep, SweptWhite, ToBeSwept, TypeOK
<1>12. TriColor'
  <2>1. ~again => \A x \in Refs(o) : c[x] \notin Whites
    BY <1>2, <1>5 DEF again
  <2>2. \A p \in Obj : c[p] = "black" => \A x \in Refs(p) : c[x] \notin Whites
    <3> SUFFICES ASSUME NEW p \in Obj, c[p] = "black", NEW x \in Refs(p)
                 PROVE  c[x] \notin Whites
      OBVIOUS
    <3>1. CASE color[p] = "black"
      BY <1>1, <1>5, <3>1, RefsType DEF TriColor
    <3>2. CASE color[p] # "black"
      BY <1>5, <3>2
    <3> QED BY <3>1, <3>2
  <2> QED BY <1>6, <1>7, <2>1, <2>2, RefsType DEF TriColor
<1>13. GrayListed'
  BY <1>1, <1>3, <1>5, <1>6, <1>7 DEF GrayListed, IsOpen, Blackens, Upvals, Strings
<1>14. ThreadsGray'
  BY <1>1, <1>5, <1>6, <1>7 DEF ThreadsGray, Blackens, Threads, again
<1> QED BY <1>9, <1>10, <1>11, <1>12, <1>13, <1>14

LEMMA SweepDeadKeeps ==
  ASSUME TypeOK, HeapInv, MarkInv, TypeOK', NEW o \in tosweep, IsDead(o), SweepOne(o)
  PROVE  HeapInv' /\ MarkInv'
<1> USE ObjAssumption DEF HeapInv, MarkInv
<1>1. /\ o \in Obj /\ gcstate = "swpallgc" /\ list[o] = "allgc" /\ ~Sound(o)
      /\ UNCHANGED <<mt, strcache, gray, grayagain, currentwhite, gcstate, twups>>
      /\ tosweep' = tosweep \ {o}
  BY DEF SweepOne, DeadToSweep, SweptList, TypeOK, run
<1>2. /\ \A p \in Obj : color'[p] = IF p = o THEN "free"
                                    ELSE IF o \notin owner[p] \/ IsWhite(p) THEN color[p]
                                    ELSE color'[p]
      /\ \A p \in Obj : p # o /\ o \in owner[p] /\ ~IsWhite(p) => color'[p] \in {currentwhite, "black"}
      /\ owner' = [p \in Obj |-> IF p = o THEN {} ELSE owner[p] \ {o}]
      /\ slots' = [slots EXCEPT ![o] = {}] /\ meta' = [meta EXCEPT ![o] = {}]
      /\ entries' = [entries EXCEPT ![o] = {}] /\ list' = [list EXCEPT ![o] = "allgc"]
  BY <1>1 DEF SweepOne, FreeObj
<1>3. \A p \in Obj : /\ Allocated(p)' <=> Allocated(p) /\ p # o
                     /\ IsDead(p)' <=> IsDead(p) /\ p # o
                     /\ p # o /\ IsWhite(p) => color'[p] = color[p]
  BY <1>1, <1>2 DEF WellFormed, TypeOK
<1>4. \A p \in Obj : Refs(p)' \subseteq Refs(p)
  <2>1. \A p \in Obj : /\ slots'[p] \subseteq slots[p] /\ meta'[p] \subseteq meta[p]
                       /\ entries'[p] \subseteq entries[p] /\ owner'[p] \subseteq owner[p]
    BY <1>1, <1>2 DEF TypeOK
  <2>2. \A p \in Obj : OpenUpvals(p)' \subseteq OpenUpvals(p)
    BY <2>1 DEF OpenUpvals, Upvals
  <2> QED BY <2>1, <2>2 DEF Refs, Keys, Vals
<1>5. WellFormed'
  BY <1>1, <1>2, <1>3 DEF WellFormed, TypeOK, Threads, Strings, Upvals
<1>6. RefsSound'
  <2>1. \A p \in Obj : Sound(p)' <=> Sound(p)
    BY <1>1, <1>3
  <2>2. Roots' = Roots /\ strcache' = strcache /\ In("tobefnz")' \subseteq In("tobefnz")
    BY <1>1, <1>2, <1>3 DEF Roots, In, TypeOK
  <2> QED BY <1>4, <2>1, <2>2, RootsSound, RefsType DEF RefsSound
<1>7. DeadToSweep'
  BY <1>1, <1>2, <1>3 DEF DeadToSweep, TypeOK
<1>8. SweptWhite'
  BY <1>1, <1>2, <1>3 DEF SweptWhite, ToBeSwept, In, TypeOK
<1>9. MarkInv'
  BY <1>1 DEF TriColor, GrayListed, ThreadsGray
<1> QED BY <1>5, <1>6, <1>7, <1>8, <1>9

LEMMA SweepLiveKeeps ==
  ASSUME TypeOK, HeapInv, MarkInv, TypeOK', NEW o \in tosweep, ~IsDead(o), SweepOne(o)
  PROVE  HeapInv' /\ MarkInv'
<1> USE ObjAssumption DEF HeapInv, MarkInv
<1>1. /\ o \in Obj /\ Sound(o) /\ gcstate \in DOMAIN SweptList /\ list[o] = SweptList[gcstate]
      /\ \A p \in Obj : color'[p] = IF p = o THEN currentwhite ELSE color[p]
      /\ tosweep' = tosweep \ {o}
      /\ UNCHANGED <<mt, strcache, gray, grayagain, currentwhite, gcstate, twups, list,
                     slots, meta, entries, owner>>
  BY DEF SweepOne, DeadToSweep, TypeOK, run
<1>2. \A p \in Obj : Refs(p)' = Refs(p)
  BY <1>1 DEF Refs, OpenUpvals
<1>3. WellFormed'
  BY <1>1 DEF WellFormed, TypeOK, Threads
<1>4. RefsSound'
  BY <1>1, <1>2, RefsType DEF RefsSound, Roots, In, TypeOK, Tables, Strings
<1>5. DeadToSweep'
  BY <1>1 DEF DeadToSweep, TypeOK
<1>6. SweptWhite'
  BY <1>1 DEF SweptWhite, ToBeSwept, SweptList, In, TypeOK
<1>7. MarkInv'
  BY <1>1 DEF TriColor, GrayListed, ThreadsGray, SweptList
<1> QED BY <1>3, <1>4, <1>5, <1>6, <1>7

(* The steps that change no color and no reference.                        *)
LEMMA PhaseStep ==
  ASSUME TypeOK, HeapInv, MarkInv, TypeOK', DeadToSweep', SweptWhite',
         UNCHANGED <<color, currentwhite, slots, meta, entries, owner, list, twups,
                     mt, strcache, gray, grayagain>>,
         keepinvariant' => keepinvariant
  PROVE  HeapInv' /\ MarkInv'
<1> USE DEF HeapInv, MarkInv
<1>1. \A p \in Obj : Refs(p)' = Refs(p)
  BY DEF Refs, OpenUpvals
<1>2. WellFormed' /\ RefsSound'
  BY <1>1 DEF WellFormed, RefsSound, Roots, In
<1>3. MarkInv'
  BY <1>1 DEF TriColor, GrayListed, ThreadsGray, IsOpen
<1> QED BY <1>2, <1>3

LEMMA SweepNextKeeps ==
  ASSUME TypeOK, HeapInv, MarkInv, TypeOK', SweepNext
  PROVE  HeapInv' /\ MarkInv'
<1>1. /\ gcstate \in Sweeping /\ tosweep = {}
      /\ gcstate' \notin Marking
      /\ gcstate = "swpallgc" => gcstate' = "swpfinobj" /\ tosweep' = In("finobj")
      /\ gcstate = "swpfinobj" => gcstate' = "swptobefnz" /\ tosweep' = In("tobefnz")
      /\ gcstate = "swptobefnz" => gcstate' = "swpend" /\ tosweep' = {}
      /\ gcstate = "swpend" => gcstate' = "callfin" /\ tosweep' = {}
      /\ UNCHANGED <<color, currentwhite, slots, meta, entries, owner, list, twups,
                     mt, strcache, gray, grayagain>>
  BY DEF SweepNext, issweepphase, heap, marks
<1>2. \A o \in Obj : ~IsDead(o)
  BY <1>1 DEF HeapInv, DeadToSweep
<1>3. DeadToSweep'
  BY <1>1, <1>2 DEF DeadToSweep, SweptList, In
<1>4. SweptWhite'
  BY <1>1 DEF HeapInv, SweptWhite, ToBeSwept, In
<1> QED BY <1>1, <1>3, <1>4, PhaseStep

LEMMA FinishKeeps ==
  ASSUME TypeOK, HeapInv, MarkInv, TypeOK', FinishPropagate \/ FinishCycle
  PROVE  HeapInv' /\ MarkInv'
<1> USE DEF FinishPropagate, FinishCycle, HeapInv, heap, marks
<1>1. DeadToSweep' /\ SweptWhite'
  BY DEF DeadToSweep, SweptList, SweptWhite, ToBeSwept
<1> QED BY <1>1, PhaseStep

LEMMA FinalizerKeeps ==
  ASSUME TypeOK, HeapInv, MarkInv, TypeOK', NEW th \in Threads, Sound(th), NEW o \in Obj,
         GCTM(th, o), UNCHANGED gcstate
  PROVE  HeapInv' /\ MarkInv'
<1> USE ObjAssumption DEF HeapInv, MarkInv
<1>1. /\ list[o] = "tobefnz" /\ Sound(o)
      /\ list' = [list EXCEPT ![o] = "allgc"] /\ tosweep' = tosweep \ {o}
      /\ \A p \in Obj : color'[p] = IF p = o /\ gcstate \in Sweeping THEN currentwhite ELSE color[p]
      /\ slots' \in {slots, [slots EXCEPT ![th] = @ \cup {o}]}
      /\ UNCHANGED <<meta, entries, owner, mt, strcache, gray, grayagain, currentwhite, twups>>
  BY DEF GCTM, issweepphase, In, RefsSound, TypeOK
<1>2. \A p \in Obj : Refs(p)' \subseteq Refs(p) \cup (IF p = th THEN {o} ELSE {})
  BY <1>1 DEF Refs, OpenUpvals, TypeOK
<1>3. WellFormed'
  BY <1>1 DEF WellFormed, TypeOK, Threads, Strings, Upvals
<1>4. RefsSound'
  BY <1>1, <1>2, RefsType DEF RefsSound, Roots, In, TypeOK, Tables, Strings
<1>5. DeadToSweep'
  BY <1>1 DEF DeadToSweep, SweptList, TypeOK
<1>6. SweptWhite'
  BY <1>1 DEF SweptWhite, ToBeSwept, In, TypeOK
<1>7. TriColor'
  BY <1>1, <1>2, RefsType DEF TriColor, ThreadsGray
<1>8. GrayListed' /\ ThreadsGray'
  BY <1>1 DEF GrayListed, ThreadsGray, IsOpen, Upvals, Threads
<1> QED BY <1>3, <1>4, <1>5, <1>6, <1>7, <1>8

----------------------------------------------------------------------------
(***************************************************************************)
(* The atomic phase.  No object is dead when it begins; afterwards the     *)
(* marked objects are sound, all others are dead and wait in 'allgc'.      *)
(***************************************************************************)

LEMMA EntriesMono ==
  ASSUME NEW o, NEW S, NEW T, S \subseteq T, NEW es
  PROVE  AtomicEntries(o, S, es) \subseteq AtomicEntries(o, T, es)
<1>1. Vals({e \in es : e[1] \in Strings \cup {Prim} \cup S})
        \subseteq Vals({e \in es : e[1] \in Strings \cup {Prim} \cup T})
  BY DEF Vals
<1> QED BY <1>1 DEF AtomicEntries

LEMMA EntriesBound ==
  ASSUME NEW o, NEW S, NEW es
  PROVE  AtomicEntries(o, S, es) \subseteq Keys(es) \cup Vals(es)
<1>1. Vals({e \in es : e[1] \in Strings \cup {Prim} \cup S}) \subseteq Vals(es)
  BY DEF Vals
<1> QED BY <1>1 DEF AtomicEntries

LEMMA AtomicRefsMono ==
  ASSUME NEW o, NEW S, NEW T, S \subseteq T, NEW ent
  PROVE  AtomicRefs(o, S, ent) \subseteq AtomicRefs(o, T, ent)
BY EntriesMono DEF AtomicRefs

(* What the atomic phase marks from sound objects is sound.                *)
LEMMA AtomicRefsSound ==
  ASSUME TypeOK, RefsSound, NEW o \in Obj, Sound(o), NEW S, NEW ent,
         ent[o] \subseteq entries[o]
  PROVE  \A x \in AtomicRefs(o, S, ent) : x \in Obj /\ Sound(x)
<1>1. \A x \in Refs(o) : x \in Obj /\ Sound(x)
  BY RefsType DEF RefsSound
<1>2. OpenUpvals(o) \subseteq Refs(o) /\ \A u \in OpenUpvals(o) : slots[u] \subseteq Refs(u)
  BY DEF Refs
<1>3. \A x \in StackUpvals(o) : x \in Obj /\ Sound(x)
  BY <1>1, <1>2, RefsType DEF StackUpvals, RefsSound
<1>4. AtomicEntries(o, S, ent[o]) \subseteq Refs(o)
  BY EntriesBound DEF Refs, Keys, Vals
<1>5. meta[o] \cup slots[o] \cup UpvalRefs(o) \subseteq Refs(o)
  BY DEF Refs, UpvalRefs
<1> QED BY <1>1, <1>3, <1>4, <1>5 DEF AtomicRefs

LEMMA AtomicRefsType ==
  ASSUME TypeOK, NEW o \in Obj, NEW S, NEW ent, ent[o] \subseteq entries[o]
  PROVE  AtomicRefs(o, S, ent) \subseteq Obj
<1>1. meta[o] \cup slots[o] \cup UpvalRefs(o) \cup StackUpvals(o) \subseteq Obj
  BY DEF TypeOK, UpvalRefs, StackUpvals, OpenUpvals, Upvals
<1>2. Keys(ent[o]) \cup Vals(ent[o]) \subseteq Obj
  BY DEF Keys, Vals, TypeOK
<1>3. AtomicEntries(o, S, ent[o]) \subseteq Obj
  BY <1>2, EntriesBound
<1> QED BY <1>1, <1>3 DEF AtomicRefs

(* Converged is the least set that the marking loop can end with, and      *)
(* consists of sound objects.                                              *)
LEMMA ConvergedIsLeast ==
  ASSUME TypeOK, RefsSound, NEW M \in SUBSET Obj, \A o \in M : Sound(o),
         NEW ent, \A o \in Obj : ent[o] \subseteq entries[o]
  PROVE  LET C == Converged(M, ent)
         IN  /\ M \subseteq C /\ \A o \in C : o \in Obj /\ Sound(o)
             /\ \A o \in C : AtomicRefs(o, C, ent) \subseteq C
<1> DEFINE F == {S \in SUBSET Obj : /\ M \subseteq S
                                    /\ \A p \in S : AtomicRefs(p, S, ent) \subseteq S}
           X == {o \in Obj : \A S \in F : o \in S}
           Z == {o \in Obj : Sound(o)}
<1>1. M \subseteq X
  OBVIOUS
<1>2. \A p \in X : AtomicRefs(p, X, ent) \subseteq X
  <2> SUFFICES ASSUME NEW p \in X, NEW x \in AtomicRefs(p, X, ent)
               PROVE  x \in X
    OBVIOUS
  <2>1. x \in Obj
    BY AtomicRefsType
  <2>2. ASSUME NEW S \in F  PROVE x \in S
    <3>1. X \subseteq S /\ p \in S
      OBVIOUS
    <3>2. AtomicRefs(p, X, ent) \subseteq AtomicRefs(p, S, ent)
      BY <3>1, AtomicRefsMono
    <3>3. AtomicRefs(p, S, ent) \subseteq S
      BY <3>1, <2>2
    <3> HIDE DEF X, F
    <3> QED BY <3>2, <3>3
  <2>3. X = {o \in Obj : \A S \in F : o \in S}
    OBVIOUS
  <2> HIDE DEF X, F
  <2> QED BY <2>1, <2>2, <2>3
<1>3. X \in F
  BY <1>1, <1>2
<1>4. Z \in F
  BY AtomicRefsSound
<1> HIDE DEF X, Z
<1>5. Least(F) \in F /\ \A T \in F : Least(F) \subseteq T
  BY <1>3, LeastIsLeast DEF X
<1>6. Converged(M, ent) = Least(F)
  BY DEF Converged
<1> DEFINE C == Least(F)
<1>7. M \subseteq C /\ C \subseteq Z /\ \A o \in C : AtomicRefs(o, C, ent) \subseteq C
  <2> HIDE DEF C
  <2>1. C \in F /\ C \subseteq Z
    BY <1>4, <1>5 DEF C
  <2> QED BY <2>1
<1>8. \A o \in Z : o \in Obj /\ Sound(o)
  BY DEF Z
<1>9. C = Converged(M, ent)
  BY <1>6
<1> HIDE DEF C
<1> QED BY <1>7, <1>8, <1>9

(* The marks of the atomic phase: m1 before weak values are cleared, m2    *)
(* with the objects fz to be finalized; e1 and e2 are the cleared tables.  *)
AtomicFacts(L, m1, e1, fz, m2, e2) ==
  /\ fz = In("finobj") \ m1
  /\ e1 = ClearByValues(m1, m1, entries)
  /\ e2 = ClearByKeys(m2, m2, e1)
  /\ AtomicResult(m1, fz, m2, e2, m2 \cup KeyStrings(m2, e2))
  /\ m1 \subseteq m2 /\ \A o \in m2 : o \in Obj /\ Sound(o)
  /\ AtomicRoots(L) \subseteq m1 /\ In("tobefnz") \cup fz \subseteq m2
  /\ \A o \in m2 : AtomicRefs(o, m2, e1) \subseteq m2
  /\ \A s \in KeyStrings(m2, e2) : s \in Strings /\ Sound(s)

LEMMA AtomicMarks ==
  ASSUME TypeOK, HeapInv, MarkInv, NEW L \in Threads, Sound(L), Atomic(L)
  PROVE  \E m1, e1, fz, m2, e2 : AtomicFacts(L, m1, e1, fz, m2, e2)
<1>1. PICK m1, e1, fz, m2, e2 :
        /\ m1 = Converged(AtomicRoots(L), entries)
        /\ e1 = ClearByValues(m1, m1, entries)
        /\ fz = In("finobj") \ m1
        /\ m2 = Converged(m1 \cup In("tobefnz") \cup fz, e1)
        /\ e2 = ClearByKeys(m2, m2, e1)
        /\ AtomicResult(m1, fz, m2, e2, m2 \cup KeyStrings(m2, e2))
  BY AtomicParts
<1>2. RefsSound /\ \A o \in Obj : Allocated(o) => Sound(o)
  BY DEF HeapInv, DeadToSweep, Atomic
<1>3. /\ AtomicRoots(L) \in SUBSET Obj /\ \A o \in AtomicRoots(L) : Sound(o)
  BY <1>2, RootsSound, ObjAssumption DEF AtomicRoots, Roots, Threads, TypeOK
<1>4. /\ AtomicRoots(L) \subseteq m1 /\ \A o \in m1 : o \in Obj /\ Sound(o)
  BY <1>1, <1>2, <1>3, ConvergedIsLeast
<1> DEFINE K == m1 \cup In("tobefnz") \cup fz
<1>5. K \in SUBSET Obj /\ \A o \in K : Sound(o)
  BY <1>1, <1>2, <1>4 DEF In
<1>6. \A o \in Obj : e1[o] \subseteq entries[o]
  BY <1>1, ClearedSubset
<1> DEFINE M2 == Converged(K, e1)
<1> HIDE DEF K, M2
<1>7. K \subseteq M2 /\ (\A o \in M2 : o \in Obj /\ Sound(o))
      /\ \A o \in M2 : AtomicRefs(o, M2, e1) \subseteq M2
  BY <1>2, <1>5, <1>6, ConvergedIsLeast DEF M2
<1>8. m2 = M2
  BY <1>1 DEF M2, K
<1>9. \A s \in KeyStrings(m2, e2) : s \in Strings /\ Sound(s)
  <2>1. \A o \in Obj : e2[o] \subseteq entries[o]
    BY <1>1, <1>6, ClearedSubset
  <2>2. \A t \in Obj : Sound(t) => \A s \in Keys(e2[t]) : Sound(s)
    BY <1>2, <2>1, RefsType DEF RefsSound, Refs, Keys
  <2>3. \A s \in KeyStrings(m2, e2) : s \in Strings /\ \E t \in m2 : s \in Keys(e2[t])
    BY DEF KeyStrings
  <2> QED BY <1>7, <1>8, <2>2, <2>3
<1>10. /\ m1 \subseteq m2 /\ \A o \in m2 : o \in Obj /\ Sound(o)
       /\ In("tobefnz") \cup fz \subseteq m2
       /\ \A o \in m2 : AtomicRefs(o, m2, e1) \subseteq m2
  BY <1>7, <1>8 DEF K
<1>11. AtomicFacts(L, m1, e1, fz, m2, e2)
  BY <1>1, <1>4, <1>9, <1>10 DEF AtomicFacts
<1> QED BY <1>11

(* What is left in a table that the atomic phase has traversed is marked.  *)
LEMMA AtomicEntriesMarked ==
  ASSUME TypeOK, NEW o \in Obj, color[o] # "black", NEW m1, NEW m2, o \in m2, m1 \subseteq m2,
         NEW e1, e1 = ClearByValues(m1, m1, entries),
         NEW e2, e2 = ClearByKeys(m2, m2, e1),
         AtomicEntries(o, m2, e1[o]) \subseteq m2,
         NEW e \in ClearByValues(m2 \ m1, m2, e2)[o]
  PROVE  \A x \in {e[1], e[2]} \ {Prim} : x \in m2 \cup KeyStrings(m2, e2)
<1>1. e \in e2[o] /\ e \in e1[o]
  BY ClearedSubset
<1>2. (e[1] # Prim => e[1] \in Keys(e2[o]) /\ e[1] \in Keys(e1[o]))
      /\ (e[2] # Prim => e[2] \in Vals(e1[o]))
  BY <1>1 DEF Keys, Vals
<1>3. Mode(o) \in {"weakvalue", "allweak"} => e[2] \in Weak(m2)
  <2>1. CASE o \in m1
    BY <1>1, <2>1 DEF ClearByValues, Weak
  <2>2. CASE o \notin m1
    BY <2>2 DEF ClearByValues
  <2> QED BY <2>1, <2>2
<1>4. Mode(o) \in {"ephemeron", "allweak"} => e[1] \in Weak(m2)
  BY <1>1 DEF ClearByKeys
<1>5. Mode(o) \in Modes
  BY DEF Mode, TypeOK
<1>6. CASE Mode(o) = "strong"
  BY <1>2, <1>6 DEF AtomicEntries
<1>7. CASE Mode(o) = "weakvalue"
  BY <1>2, <1>3, <1>7 DEF AtomicEntries, Weak
<1>8. CASE Mode(o) = "ephemeron"
  <2>1. e[2] # Prim => e[2] \in Vals({d \in e1[o] : d[1] \in Strings \cup {Prim} \cup m2})
    BY <1>1, <1>4, <1>8 DEF Vals, Weak
  <2>2. AtomicEntries(o, m2, e1[o]) = (Keys(e1[o]) \cap Strings)
          \cup Vals({d \in e1[o] : d[1] \in Strings \cup {Prim} \cup m2})
    BY <1>8 DEF AtomicEntries
  <2> QED BY <1>2, <1>4, <1>8, <2>1, <2>2 DEF Weak
<1>9. CASE Mode(o) = "allweak"
  <2>1. e[2] \in Strings => e[2] \in m2 \/ e[2] = Prim
    BY <1>2, <1>9 DEF AtomicEntries
  <2>2. e[1] \in Strings => e[1] \in KeyStrings(m2, e2) \/ e[1] = Prim
    BY <1>2, <1>9 DEF KeyStrings
  <2> QED BY <1>3, <1>4, <1>9, <2>1, <2>2 DEF Weak
<1> QED BY <1>5, <1>6, <1>7, <1>8, <1>9

LEMMA AtomicKeeps ==
  ASSUME TypeOK, HeapInv, MarkInv, TypeOK', NEW L \in Threads, Sound(L), Atomic(L)
  PROVE  HeapInv' /\ MarkInv'
<1>a. PICK m1, e1, fz, m2, e2 : AtomicFacts(L, m1, e1, fz, m2, e2)
  BY AtomicMarks
<1>1. /\ fz = In("finobj") \ m1
      /\ e1 = ClearByValues(m1, m1, entries)
      /\ e2 = ClearByKeys(m2, m2, e1)
      /\ AtomicResult(m1, fz, m2, e2, m2 \cup KeyStrings(m2, e2))
      /\ m1 \subseteq m2 /\ \A o \in m2 : o \in Obj /\ Sound(o)
      /\ AtomicRoots(L) \subseteq m1 /\ In("tobefnz") \cup fz \subseteq m2
      /\ \A o \in m2 : AtomicRefs(o, m2, e1) \subseteq m2
      /\ \A s \in KeyStrings(m2, e2) : s \in Strings /\ Sound(s)
  BY <1>a DEF AtomicFacts
<1> DEFINE m3 == m2 \cup KeyStrings(m2, e2)
<1>2. /\ gcstate = "enteratomic" /\ gcstate' = "swpallgc" /\ currentwhite' = OtherWhite
      /\ tosweep' = In("allgc") /\ UNCHANGED <<slots, meta, owner, mt>>
  BY DEF Atomic, run
<1>3. /\ m1 \subseteq m2 /\ \A o \in m2 : o \in Obj /\ Sound(o)
      /\ AtomicRoots(L) \subseteq m1 /\ In("tobefnz") \cup fz \subseteq m2
      /\ \A o \in m2 : AtomicRefs(o, m2, e1) \subseteq m2
  BY <1>1
<1> USE ObjAssumption DEF HeapInv, MarkInv
<1>4. \A o \in Obj : Allocated(o) => Sound(o)
  BY <1>2 DEF DeadToSweep
<1>5. \A o \in Obj : e2[o] \subseteq entries[o] /\ entries'[o] \subseteq entries[o]
  BY <1>1, ClearedSubset DEF AtomicResult
<1>6. m2 \subseteq m3 /\ m3 \subseteq m2 \cup Strings /\ \A o \in m3 : o \in Obj /\ Sound(o)
  BY <1>1, <1>3 DEF Strings
<1>7. /\ \A o \in Obj : color'[o] = IF o \notin m3 THEN color[o]
                                    ELSE IF o \in Upvals /\ IsOpen(o) THEN "gray"
                                    ELSE "black"
      /\ entries' = ClearByValues(m2 \ m1, m2, e2)
      /\ twups' = {th \in m2 \cap Threads : OpenUpvals(th) # {}}
      /\ \A o \in Obj : list'[o] = IF o \in fz THEN "tobefnz" ELSE list[o]
      /\ strcache' = strcache \cap m3
  BY <1>1 DEF AtomicResult
<1>8. \A o \in Obj : color[o] \in {"gray", "black"} => o \in m1
  BY <1>3 DEF AtomicRoots
<1> HIDE DEF m3
<1>9. \A o \in Obj : /\ Sound(o)' <=> o \in m3
                     /\ IsDead(o)' <=> o \notin m3 /\ Allocated(o)
                     /\ Allocated(o)' <=> Allocated(o)
  BY <1>2, <1>3, <1>4, <1>6, <1>7, <1>8 DEF TypeOK
<1>10. \A o \in Obj : Refs(o)' \subseteq Refs(o) /\ OpenUpvals(o)' = OpenUpvals(o)
  BY <1>2, <1>5 DEF Refs, Keys, Vals, OpenUpvals
<1>11. \A o \in Obj : color[o] = "black" => \A x \in Refs(o) : x \in m1
  BY <1>2, <1>4, <1>8, RefsType DEF TriColor, RefsSound, TypeOK
<1>12. ASSUME NEW o \in m3, NEW x \in Refs(o)'  PROVE x \in m3
  <2>1. o \in Obj /\ x \in Refs(o) /\ Sound(o)
    BY <1>6, <1>10
  <2>2. CASE color[o] = "black"
    BY <1>3, <1>6, <1>11, <2>1, <2>2
  <2>3. CASE o \in Strings
    BY <2>1, <2>3, LeafRefs DEF Strings, Upvals
  <2>4. CASE o \in Upvals /\ color[o] # "black"
    <3>1. o \in m2 /\ x \in slots[o]
      BY <1>6, <2>1, <2>4, LeafRefs DEF Strings, Upvals
    <3>2. UpvalRefs(o) = slots[o]
      BY <1>2, <2>1, <2>4 DEF UpvalRefs, GrayListed, IsOpen, TypeOK
    <3>3. AtomicRefs(o, m2, e1) = slots[o]
      BY <2>4, <3>2 DEF AtomicRefs, Upvals
    <3> QED BY <1>3, <1>6, <3>1, <3>3
  <2>5. CASE o \notin Strings \cup Upvals /\ color[o] # "black"
    <3>1. o \in m2
      BY <1>6, <2>5
    <3>2. AtomicRefs(o, m2, e1)
            = meta[o] \cup slots[o] \cup StackUpvals(o) \cup AtomicEntries(o, m2, e1[o])
      BY <2>1, <2>5 DEF AtomicRefs, Upvals
    <3>3. meta[o] \cup slots[o] \cup OpenUpvals(o) \subseteq m2
      BY <1>3, <3>1, <3>2 DEF StackUpvals
    <3>4. AtomicEntries(o, m2, e1[o]) \subseteq m2
      BY <1>3, <3>1, <3>2
    <3>5. \A e \in entries'[o] : \A y \in {e[1], e[2]} \ {Prim} : y \in m3
      <4> SUFFICES ASSUME NEW e \in ClearByValues(m2 \ m1, m2, e2)[o]
                   PROVE  \A y \in {e[1], e[2]} \ {Prim} : y \in m2 \cup KeyStrings(m2, e2)
        BY <1>7 DEF m3
      <4>1. /\ e1 = ClearByValues(m1, m1, entries) /\ e2 = ClearByKeys(m2, m2, e1)
            /\ o \in Obj /\ color[o] # "black" /\ o \in m2 /\ m1 \subseteq m2
        BY <1>1, <2>1, <2>5, <3>1
      <4> QED BY <3>4, <4>1, AtomicEntriesMarked
    <3>6. x \in meta[o] \cup slots[o] \cup OpenUpvals(o) \cup Keys(entries'[o]) \cup Vals(entries'[o])
      BY <1>2, <1>10, <2>1 DEF Refs
    <3>7. Keys(entries'[o]) \cup Vals(entries'[o]) \subseteq m3
      BY <3>5 DEF Keys, Vals
    <3> QED BY <1>6, <3>3, <3>6, <3>7
  <2> QED BY <2>1, <2>2, <2>3, <2>4, <2>5
<1>13. RefsSound'
  <2>1. Roots' \subseteq m3
    BY <1>2, <1>3, <1>4, <1>6, <1>8, RootsSound
       DEF Roots, AtomicRoots, ThreadsGray, RefsSound, TypeOK
  <2>2. In("tobefnz")' \subseteq m3
    BY <1>3, <1>6, <1>7, <1>9 DEF In
  <2>3. Roots' \cup strcache' \cup In("tobefnz")' \subseteq m3
    BY <1>7, <2>1, <2>2
  <2> QED BY <1>6, <1>9, <1>12, <2>3 DEF RefsSound
<1>14. WellFormed'
  <2>1. \A o \in Obj : \A th \in owner'[o] :
          Allocated(th)' /\ (IsDead(th)' \/ th \in twups')
    BY <1>2, <1>6, <1>7, <1>9 DEF WellFormed, OpenUpvals, Threads, Strings, Upvals, TypeOK
  <2> QED BY <1>2, <1>5, <1>9, <2>1 DEF WellFormed
<1>15. DeadToSweep'
  <2>1. \A o \in Obj : o \in fz <=> list[o] = "finobj" /\ Allocated(o) /\ o \notin m1
    BY <1>1 DEF In
  <2>2. \A o \in Obj : IsDead(o)' => o \in In("allgc")
    BY <1>3, <1>6, <1>9, <2>1 DEF In, TypeOK
  <2>3. \A o \in In("allgc") : o \in Obj /\ Allocated(o)' /\ list'[o] = "allgc"
    BY <1>7, <1>9, <2>1 DEF In
  <2> QED BY <1>2, <2>2, <2>3 DEF DeadToSweep, SweptList
<1>16. SweptWhite'
  BY <1>2, <1>7, <1>9, <1>1 DEF SweptWhite, ToBeSwept, In, TypeOK
<1>17. MarkInv'
  BY <1>2 DEF TriColor, GrayListed, ThreadsGray
<1> QED BY <1>13, <1>14, <1>15, <1>16, <1>17

LEMMA CollectorKeeps ==
  ASSUME TypeOK, HeapInv, MarkInv, Collector, TypeOK'
  PROVE  HeapInv' /\ MarkInv'
<1> DEFINE acc == Accessible
<1>1. \A o \in acc : o \in Obj /\ Sound(o)
  BY AccessibleSound DEF HeapInv
<1>2. SingleStep(acc)
  BY DEF Collector
<1> HIDE DEF acc
<1>3. ASSUME NEW o \in gray, PropagateMark(o)  PROVE HeapInv' /\ MarkInv'
  BY <1>3, PropagateMarkKeeps
<1>4. ASSUME NEW L \in acc \cap Threads, Atomic(L)  PROVE HeapInv' /\ MarkInv'
  BY <1>1, <1>4, AtomicKeeps
<1>5. ASSUME NEW o \in tosweep, SweepOne(o)  PROVE HeapInv' /\ MarkInv'
  BY <1>5, SweepDeadKeeps, SweepLiveKeeps
<1>6. ASSUME NEW th \in acc \cap Threads, NEW o \in Obj, CallFinalizer(th, o)
      PROVE  HeapInv' /\ MarkInv'
  <2>1. GCTM(th, o) /\ UNCHANGED gcstate
    BY <1>6 DEF CallFinalizer, GCTM
  <2> QED BY <1>1, <2>1, FinalizerKeeps
<1> QED BY <1>2, <1>3, <1>4, <1>5, <1>6, RestartKeeps, SweepNextKeeps, FinishKeeps DEF SingleStep

----------------------------------------------------------------------------
(***************************************************************************)
(* Full collections and closing the state.                                 *)
(***************************************************************************)

LEMMA FullKeeps ==
  ASSUME TypeOK, HeapInv, MarkInv, TypeOK',
         EndFinalizer \/ FullNext \/ \E isemergency \in BOOLEAN : FullGC(isemergency)
  PROVE  HeapInv' /\ MarkInv'
<1> USE DEF heap, marks, sweeps
<1>1. CASE EndFinalizer \/ FullNext
  <2>1. DeadToSweep' /\ SweptWhite'
    BY <1>1 DEF HeapInv, EndFinalizer, FullNext, DeadToSweep, SweptWhite, ToBeSwept, In
  <2> QED BY <1>1, <2>1, PhaseStep DEF EndFinalizer, FullNext
<1>2. ASSUME NEW isemergency \in BOOLEAN, FullGC(isemergency)  PROVE HeapInv' /\ MarkInv'
  <2>1. CASE keepinvariant
    <3>1. gcstate' = "swpallgc" /\ tosweep' = In("allgc")
          /\ UNCHANGED <<color, currentwhite, list>>
      BY <1>2, <2>1 DEF FullGC
    <3>2. DeadToSweep'
      BY <2>1, <3>1 DEF HeapInv, DeadToSweep, SweptList, In
    <3>3. SweptWhite'
      BY <3>1 DEF SweptWhite, ToBeSwept, In, TypeOK
    <3> QED BY <1>2, <2>1, <3>2, <3>3, PhaseStep DEF FullGC
  <2>2. CASE ~keepinvariant
    <3>1. DeadToSweep' /\ SweptWhite'
      BY <1>2, <2>2 DEF HeapInv, FullGC, DeadToSweep, SweptWhite, ToBeSwept, In
    <3> QED BY <1>2, <2>2, <3>1, PhaseStep DEF FullGC
  <2> QED BY <2>1, <2>2
<1> QED BY <1>1, <1>2

LEMMA CloseStateKeeps ==
  ASSUME TypeOK, HeapInv, MarkInv, TypeOK', CloseState
  PROVE  HeapInv' /\ MarkInv'
<1> USE DEF HeapInv, MarkInv
<1>1. /\ \A o \in Obj : list'[o] = IF list[o] = "finobj" /\ Allocated(o) THEN "tobefnz" ELSE list[o]
      /\ tosweep' = IF gcstate = "swpfinobj" THEN {} ELSE tosweep
      /\ \A o \in Obj : slots'[o] \subseteq slots[o]
      /\ UNCHANGED <<color, gray, grayagain, meta, entries, owner, mt, strcache, currentwhite,
                     gcstate, twups>>
  BY DEF CloseState, In, marks, TypeOK
<1>2. \A o \in Obj : Refs(o)' \subseteq Refs(o)
  BY <1>1 DEF Refs, OpenUpvals
<1>3. WellFormed'
  BY <1>1 DEF WellFormed
<1>4. RefsSound'
  <2>1. \A o \in In("tobefnz")' : Sound(o)
    BY <1>1 DEF In, DeadToSweep, SweptList, RefsSound
  <2> QED BY <1>1, <1>2, <2>1 DEF RefsSound, Roots
<1>5. DeadToSweep'
  BY <1>1 DEF DeadToSweep, SweptList, TypeOK
<1>6. SweptWhite'
  BY <1>1 DEF SweptWhite, DeadToSweep, SweptList, ToBeSwept, In, TypeOK
<1>7. MarkInv'
  BY <1>1, <1>2 DEF TriColor, GrayListed, ThreadsGray, IsOpen
<1> QED BY <1>3, <1>4, <1>5, <1>6, <1>7

LEMMA CloseFinalizerKeeps ==
  ASSUME TypeOK, HeapInv, MarkInv, TypeOK', NEW o \in Obj, CloseFinalizer(o)
  PROVE  HeapInv' /\ MarkInv'
<1>1. MainThread \in Threads /\ Sound(MainThread)
  BY ObjAssumption DEF Threads, HeapInv, RefsSound, Roots
<1>2. GCTM(MainThread, o) /\ UNCHANGED gcstate
  BY DEF CloseFinalizer, GCTM
<1> QED BY <1>1, <1>2, FinalizerKeeps

----------------------------------------------------------------------------
(***************************************************************************)
(* The invariant and what follows from it.                                 *)
(***************************************************************************)

LEMMA InitInv == Init => IInv
<1> SUFFICES ASSUME Init  PROVE IInv
  OBVIOUS
<1> USE ObjAssumption DEF Init
<1>1. TypeOK
  BY InitType
<1>2. \A o \in Obj : Refs(o) = {}
  <2>1. \A o \in Obj : OpenUpvals(o) = {} /\ slots[o] = {} /\ meta[o] = {}
    BY DEF OpenUpvals, Upvals
  <2>2. Keys({}) = {} /\ Vals({}) = {}
    BY DEF Keys, Vals
  <2> QED BY <2>1, <2>2 DEF Refs
<1>3. WellFormed
  BY DEF WellFormed
<1>4. RefsSound
  BY <1>2 DEF RefsSound, Roots, In
<1>5. DeadToSweep /\ SweptWhite
  BY DEF DeadToSweep, SweptWhite, ToBeSwept
<1>6. MarkInv
  BY DEF MarkInv, TriColor, GrayListed, ThreadsGray
<1>7. CloseInv
  BY DEF CloseInv
<1> QED BY <1>1, <1>3, <1>4, <1>5, <1>6, <1>7 DEF IInv, HeapInv

(* The mutator frees nothing, and moves an object with a finalizer out of  *)
(* 'allgc' only while the state is open.                                   *)
ListsKept == \A o \in Obj :
  /\ Allocated(o) => Allocated(o)'
  /\ Allocated(o) => list'[o] = list[o]
                     \/ (life = "open" /\ list[o] = "allgc" /\ list'[o] = "finobj")
  /\ ~Allocated(o) /\ Allocated(o)' => list'[o] = "allgc"

LEMMA MarkAllocated ==
  ASSUME TypeOK, NEW S, NEW p \in Obj
  PROVE  MarkColor(S)[p] = "free" <=> color[p] = "free"
BY DEF MarkColor, Reached, TypeOK

LEMMA MutatorLists ==
  ASSUME TypeOK, RefsSound, Mutator
  PROVE  life' = life /\ life # "closed" /\ ListsKept
<1> DEFINE acc == Accessible
           Kept == life' = life /\ ListsKept
<1>1. MutatorOn(acc) /\ life # "closed" /\ \A o \in acc : o \in Obj /\ Allocated(o)
  BY AccessibleSound DEF Mutator, MutatorRuns
<1>2. ASSUME life' = life, list' = list, \A p \in Obj : color'[p] = "free" <=> color[p] = "free"
      PROVE  Kept
  BY <1>2 DEF ListsKept
<1> HIDE DEF acc
<1>3. \A o \in Obj : \A v : Barrier(o, v) => \A p \in Obj : color'[p] = "free" <=> color[p] = "free"
  BY MarkAllocated DEF Barrier, TypeOK
<1>4. \A o, V : BarrierBack(o, V) => \A p \in Obj : color'[p] = "free" <=> color[p] = "free"
  BY DEF BarrierBack, TypeOK
<1> HIDE DEF Kept
<1> USE DEF run, marks
<1>a. ASSUME NEW th, NEW o \in Obj, NewObject(th, o)  PROVE Kept
  BY <1>a DEF NewObject, Kept, ListsKept, TypeOK
<1>b. ASSUME NEW th, NEW u \in Obj, NEW x, FindUpval(th, u, x)  PROVE Kept
  BY <1>b DEF FindUpval, Kept, ListsKept, TypeOK
<1>c. ASSUME NEW th, NEW x, PushValue(th, x) \/ PopValue(th, x) \/ CachedString(th, x)
      PROVE  Kept
  BY <1>c, <1>2 DEF PushValue, PopValue, CachedString
<1>d. ASSUME NEW t, NEW k, NEW v, SetEntry(t, k, v)  PROVE Kept
  BY <1>d, <1>2, <1>4 DEF SetEntry
<1>e. ASSUME NEW u, NEW v, SetUserValue(u, v)  PROVE Kept
  BY <1>e, <1>2, <1>4 DEF SetUserValue
<1>f. ASSUME NEW c \in Obj, NEW v, SetReference(c, v) \/ SetUpval(c, v)  PROVE Kept
  BY <1>f, <1>2, <1>3 DEF SetReference, SetUpval
<1>g. ASSUME NEW o, NEW x, ClearEntry(o, x) \/ ClearMetatable(o) \/ SetMode(o, x)
             \/ SetTypeMetatable(o)
      PROVE  Kept
  BY <1>g, <1>2 DEF ClearEntry, ClearMetatable, SetMode, SetTypeMetatable
<1>h. ASSUME NEW u \in Obj, CloseUpval(u), Allocated(u)  PROVE Kept
  <2>1. MarkColor(WhiteSlots(u)) \in [Obj -> Colors]
    <3>1. WhiteSlots(u) \in SUBSET Obj
      BY DEF WhiteSlots, TypeOK
    <3> QED BY <3>1, MarkType
  <2> DEFINE c == MarkColor(WhiteSlots(u))
  <2>2. \A p \in Obj : c[p] = "free" <=> color[p] = "free"
    BY MarkAllocated
  <2> HIDE DEF c
  <2>3. color' \in {color, [color EXCEPT ![u] = "black"], [color EXCEPT ![u] = currentwhite],
                    [c EXCEPT ![u] = "black"]}
    BY <1>h DEF CloseUpval, c
  <2>4. \A p \in Obj : color'[p] = "free" <=> color[p] = "free"
    BY <1>h, <2>1, <2>2, <2>3 DEF TypeOK, c
  <2> QED BY <1>h, <1>2, <2>4 DEF CloseUpval
<1>i. ASSUME NEW o \in Obj, NEW m, SetMetatable(o, m), Allocated(o)  PROVE Kept
  <2>1. \A p \in Obj : color'[p] = "free" <=> color[p] = "free"
    BY <1>i, <1>3 DEF SetMetatable, SetMetaAndMove, TypeOK
  <2> QED BY <1>i, <2>1 DEF SetMetatable, SetMetaAndMove, Kept, ListsKept, TypeOK
<1>j. ASSUME NEW th, NEW s \in Obj, InternString(th, s)  PROVE Kept
  <2>1. \A p \in Obj : color'[p] = "free" <=> color[p] = "free"
    BY <1>j DEF InternString, TypeOK
  <2> QED BY <1>j, <1>2, <2>1 DEF InternString
<1> QED BY <1>1, <1>a, <1>b, <1>c, <1>d, <1>e, <1>f, <1>g, <1>h, <1>i, <1>j DEF MutatorOn, Kept

(* Nothing runs any more once the state is closed.                         *)
LEMMA ClosedStops ==
  ASSUME CloseInv, life = "closed", [Next]_vars
  PROVE  UNCHANGED vars
BY DEF CloseInv, Next, Mutator, MutatorRuns, Collector, GCRuns, EndFinalizer, FullGC, FullNext,
   Closing, CloseState, CloseFinalizer, FreeAll

(* Where a step that is not one of the mutator's may move an object.       *)
ListsMoved == /\ \A o \in Obj : FinalizedFirstStep(o)
              /\ In("finobj")' \subseteq In("finobj")

LEMMA SameLists ==
  ASSUME list' = list, \A o \in Obj : color'[o] = "free" <=> color[o] = "free"
  PROVE  ListsMoved
BY DEF ListsMoved, FinalizedFirstStep, In

LEMMA GCTMLists ==
  ASSUME TypeOK, NEW th \in Threads, NEW o \in Obj, GCTM(th, o), gcstate' = gcstate
  PROVE  life' = life /\ ListsMoved
<1>1. /\ list' = [list EXCEPT ![o] = "allgc"] /\ list[o] = "tobefnz" /\ life' = life
      /\ \A p \in Obj : color'[p] = "free" <=> color[p] = "free"
      /\ meta[o] \cap MetaGC = {} \/ (infin' /\ o \in slots'[th])
  BY DEF GCTM, In, TypeOK, Threads
<1> QED BY <1>1 DEF ListsMoved, FinalizedFirstStep, In, TypeOK

LEMMA CollectorLists ==
  ASSUME TypeOK, HeapInv, MarkInv, Collector, TypeOK'
  PROVE  life' = life /\ ListsMoved
<1> DEFINE acc == Accessible
<1>1. SingleStep(acc)
  BY DEF Collector
<1> HIDE DEF acc
<1> USE DEF run, marks, sweeps
<1>2. CASE Restart
  BY <1>2, MarkAllocated, SameLists DEF Restart
<1>3. ASSUME NEW o \in gray, PropagateMark(o)  PROVE life' = life /\ ListsMoved
  <2>1. o \in Obj /\ Traversed(o) \in SUBSET Obj
    BY TraversedType DEF TypeOK
  <2>2. MarkColor(Traversed(o)) \in [Obj -> Colors]
    BY <2>1, MarkType
  <2>3. color[o] # "free"
    BY <1>3, <2>1 DEF MarkInv, GrayListed, PropagateMark
  <2>4. \A p \in Obj : color'[p] = "free" <=> color[p] = "free"
    BY <1>3, <2>1, <2>2, <2>3, MarkAllocated DEF PropagateMark
  <2> QED BY <1>3, <2>4, SameLists DEF PropagateMark
<1>4. ASSUME NEW L \in Threads \cap acc, Atomic(L)  PROVE life' = life /\ ListsMoved
  <2>1. Sound(L)
    BY AccessibleSound DEF HeapInv, acc
  <2>a. PICK m1, e1, fz, m2, e2 : AtomicFacts(L, m1, e1, fz, m2, e2)
    BY <1>4, <2>1, AtomicMarks
  <2>2. /\ fz = In("finobj") \ m1
        /\ AtomicResult(m1, fz, m2, e2, m2 \cup KeyStrings(m2, e2))
        /\ \A o \in m2 : o \in Obj /\ Sound(o)
        /\ \A s \in KeyStrings(m2, e2) : s \in Strings /\ Sound(s)
    BY <2>a DEF AtomicFacts
  <2>3. \A o \in Obj : color[o] # "free" => color'[o] # "free"
    BY <2>2 DEF AtomicResult
  <2>4. \A o \in Obj : list'[o] = IF o \in fz THEN "tobefnz" ELSE list[o]
    BY <2>2 DEF AtomicResult
  <2>5. \A o \in Obj : color'[o] # "free" => color[o] # "free"
    BY <2>2 DEF AtomicResult
  <2> QED BY <1>4, <2>2, <2>3, <2>4, <2>5 DEF ListsMoved, FinalizedFirstStep, In, Atomic
<1>5. ASSUME NEW o \in tosweep, SweepOne(o)  PROVE life' = life /\ ListsMoved
  <2>1. o \in Obj /\ Allocated(o) /\ (IsDead(o) => list[o] = "allgc")
    BY DEF HeapInv, DeadToSweep, SweptList, TypeOK
  <2>2. CASE IsDead(o)
    <3>1. FreeObj(o) /\ life' = life
      BY <1>5, <2>2 DEF SweepOne
    <3>2. \A p \in Obj \ {o} : color'[p] = "free" <=> color[p] = "free"
      BY <2>1, <3>1 DEF FreeObj, HeapInv, WellFormed, TypeOK
    <3>3. list'[o] = "allgc" /\ \A p \in Obj : list'[p] = list[p]
      BY <2>1, <2>2, <3>1 DEF FreeObj, TypeOK
    <3> QED BY <2>1, <2>2, <3>1, <3>2, <3>3 DEF ListsMoved, FinalizedFirstStep, In
  <2>3. CASE ~IsDead(o)
    <3>1. \A p \in Obj : color'[p] = "free" <=> color[p] = "free"
      BY <1>5, <2>1, <2>3 DEF SweepOne, TypeOK
    <3> QED BY <1>5, <2>3, <3>1, SameLists DEF SweepOne
  <2> QED BY <2>2, <2>3
<1>6. ASSUME NEW th \in Threads, NEW o \in Obj, CallFinalizer(th, o)
      PROVE  life' = life /\ ListsMoved
  BY <1>6, GCTMLists DEF CallFinalizer, GCTM
<1>7. CASE FinishPropagate \/ SweepNext \/ FinishCycle
  BY <1>7, SameLists DEF FinishPropagate, SweepNext, FinishCycle
<1> QED BY <1>1, <1>2, <1>3, <1>4, <1>5, <1>6, <1>7 DEF SingleStep

LEMMA CloseStep ==
  ASSUME TypeOK, HeapInv, MarkInv, CloseInv, life # "closed", [Next]_vars, TypeOK'
  PROVE  CloseInv' /\ \A o \in Obj : FinalizedFirstStep(o)
<1>1. CASE Mutator
  <2>1. life' = life /\ ListsKept
    BY <1>1, MutatorLists DEF HeapInv
  <2>2. \A o \in Obj : FinalizedFirstStep(o)
    BY <2>1 DEF ListsKept, FinalizedFirstStep
  <2>3. life # "open" => In("finobj")' \subseteq In("finobj")
    BY <2>1 DEF ListsKept, In
  <2> QED BY <2>1, <2>2, <2>3 DEF CloseInv
<1>2. ASSUME life' = life, ListsMoved
      PROVE  CloseInv' /\ \A o \in Obj : FinalizedFirstStep(o)
  BY <1>2 DEF CloseInv, ListsMoved
<1>3. CASE Collector
  BY <1>2, <1>3, CollectorLists
<1>4. CASE EndFinalizer \/ FullNext \/ \E isemergency \in BOOLEAN : FullGC(isemergency)
  BY <1>2, <1>4, SameLists DEF EndFinalizer, FullNext, FullGC, marks
<1>5. CASE CloseState
  <2>1. /\ life' = "closing" /\ color' = color
        /\ \A o \in Obj : list'[o] = IF list[o] = "finobj" /\ Allocated(o) THEN "tobefnz" ELSE list[o]
    BY <1>5 DEF CloseState, In, marks
  <2> QED BY <2>1 DEF CloseInv, FinalizedFirstStep, In
<1>6. ASSUME NEW o \in Obj, CloseFinalizer(o)
      PROVE  CloseInv' /\ \A p \in Obj : FinalizedFirstStep(p)
  <2>1. MainThread \in Threads /\ GCTM(MainThread, o) /\ gcstate' = gcstate
    BY <1>6, ObjAssumption DEF Threads, CloseFinalizer, GCTM
  <2> QED BY <1>2, <2>1, GCTMLists
<1>7. CASE FreeAll
  <2>1. \A o \in Obj : Allocated(o) => list[o] = "allgc"
    BY <1>7 DEF FreeAll, CloseInv, In, TypeOK
  <2>2. CloseInv'
    BY <1>7 DEF FreeAll, CloseInv
  <2> QED BY <2>1, <2>2 DEF FinalizedFirstStep
<1>8. CASE UNCHANGED vars
  BY <1>2, <1>8, SameLists DEF vars, marks, run
<1> QED BY <1>1, <1>3, <1>4, <1>5, <1>6, <1>7, <1>8 DEF Next, Closing

LEMMA InvStep ==
  ASSUME IInv, [Next]_vars
  PROVE  IInv' /\ \A o \in Obj : FinalizedFirstStep(o)
<1>1. TypeOK /\ TypeOK' /\ CloseInv
  BY TypeStep DEF IInv
<1>2. CASE life = "closed"
  <2>1. UNCHANGED vars
    BY <1>1, <1>2, ClosedStops
  <2>2. CloseInv' /\ life' = "closed"
    BY <1>1, <1>2, <2>1 DEF CloseInv, In, vars, run, marks, sweeps
  <2>3. \A o \in Obj : FinalizedFirstStep(o)
    BY <1>1, <1>2 DEF CloseInv, FinalizedFirstStep
  <2> QED BY <1>1, <2>2, <2>3 DEF IInv
<1>3. CASE life # "closed"
  <2>1. HeapInv /\ MarkInv
    BY <1>3 DEF IInv
  <2>2. CloseInv' /\ \A o \in Obj : FinalizedFirstStep(o)
    BY <1>1, <1>3, <2>1, CloseStep
  <2>3. ASSUME life' # "closed"  PROVE HeapInv' /\ MarkInv'
    <3>1. CASE Mutator
      BY <1>1, <2>1, <3>1, MutatorKeeps
    <3>2. CASE Collector
      BY <1>1, <2>1, <3>2, CollectorKeeps
    <3>3. CASE EndFinalizer \/ FullNext \/ \E isemergency \in BOOLEAN : FullGC(isemergency)
      BY <1>1, <2>1, <3>3, FullKeeps
    <3>4. CASE Closing
      BY <1>1, <2>1, <2>3, <3>4, CloseStateKeeps, CloseFinalizerKeeps DEF Closing, FreeAll
    <3>5. CASE UNCHANGED vars
      <4>1. DeadToSweep' /\ SweptWhite'
        BY <2>1, <3>5 DEF HeapInv, DeadToSweep, SweptWhite, ToBeSwept, In,
           vars, heap, marks, sweeps
      <4> QED BY <1>1, <2>1, <3>5, <4>1, PhaseStep DEF vars, heap, marks, sweeps
    <3> QED BY <3>1, <3>2, <3>3, <3>4, <3>5 DEF Next
  <2> QED BY <1>1, <2>2, <2>3 DEF IInv
<1> QED BY <1>2, <1>3

(* The inductive invariant holds in every reachable state.                 *)
THEOREM Invariant == Spec => []IInv
<1>1. IInv /\ [Next]_vars => IInv'
  BY InvStep
<1> QED BY <1>1, InitInv, PTL DEF Spec

(* Nothing that the program or a pending finalizer can still reach is ever *)
(* freed or about to be, whatever the program does between two steps of    *)
(* the collector.                                                          *)
THEOREM NothingDangles == Spec => []NoDangling
<1>1. IInv => NoDangling
  BY LiveSound DEF IInv, HeapInv, NoDangling
<1> QED BY <1>1, Invariant, PTL

(* lgc.h's main invariant: while the collector marks, no black object      *)
(* points to a white one.                                                  *)
THEOREM BlackNeverPointsToWhite == Spec => []TriColor
<1>1. IInv => TriColor
  BY DEF IInv, MarkInv, CloseInv, TriColor
<1> QED BY <1>1, Invariant, PTL

(* While the collector marks, every gray object waits in exactly one gray  *)
(* list, or is an open upvalue of a thread that atomic will look at.       *)
THEOREM GrayObjectsListed == Spec => []GrayListed
<1>1. IInv => GrayListed
  BY DEF IInv, MarkInv, CloseInv, GrayListed
<1> QED BY <1>1, Invariant, PTL

(* An object with a finalizer is freed only after it was called, or once   *)
(* its metatable lost the '__gc', also when the state is closed.           *)
THEOREM FinalizersBeforeFree == Spec => FinalizedFirst
<1>1. IInv /\ [Next]_vars => [\A o \in Obj : FinalizedFirstStep(o)]_vars
  BY InvStep
<1> QED BY <1>1, Invariant, PTL DEF Spec, FinalizedFirst
=============================================================================
