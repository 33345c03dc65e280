----------------------------- MODULE LuaStrings -----------------------------
(***************************************************************************)
(* The table of short strings (lstring.c): interning, growing, shrinking,  *)
(* and removal by the collector, when allocations fail and start emergency *)
(* collections in between.                                                 *)
(*                                                                         *)
(* What is abstracted.  A bucket is a set: the order of its chain does not *)
(* matter.  Of the collector (LuaGC has the rest) only what it does to     *)
(* strings is left: which are dead, when they are removed, when the table  *)
(* shrinks and whether emergency collections are stopped meanwhile.        *)
(***************************************************************************)
EXTENDS Integers, FiniteSets

CONSTANTS
  Obj,           \* addresses a string object can have
  Content,       \* the bytes of the string that may live at an address
  Hash,          \* luaS_hash of these bytes
  InitSize,      \* MINSTRTABSIZE
  MaxSize,       \* MAXSTRTB, the largest table
  MaxUse,        \* INT_MAX, the most strings
  Kinds,         \* bound: the modes of the collector the program asks for
  ShrinkFails    \* bound: the modes in which an allocation fails that
                 \* makes a block smaller

Contents == {Content[o] : o \in Obj}

ASSUME StringsAssumption ==
  /\ IsFiniteSet(Obj)
  /\ Hash \in [Contents -> Nat]
  /\ InitSize \in Nat \ {0} /\ MaxSize \in Nat /\ MaxUse \in Nat \ {0}
  /\ Kinds \subseteq {"incremental", "generational"}
  /\ ShrinkFails \subseteq {"incremental", "generational"}

VARIABLES
  hash,      \* tb->hash, the buckets
  size,      \* tb->size
  nuse,      \* tb->nuse
  status,    \* of the object at an address: "free", "live" or "dead"
  held,      \* the strings that the program can reach
  gckind,    \* g->gckind
  sweeping,  \* the incremental collector has yet to sweep
  op,        \* the operation in progress, see Idle
  lost       \* luaS_remove ran off the end of a chain

vars == <<hash, size, nuse, status, held, gckind, sweeping, op, lost>>

(* Where internshrstr or luaS_resize is: 'str' the string it makes, 'list' *)
(* the bucket for it, 'tried' whether the allocation has been tried again. *)
Idle == [at |-> "idle", str |-> CHOOSE c \in Contents : TRUE, list |-> 0, tried |-> FALSE]
At(place, c, l) == [at |-> place, str |-> c, list |-> l, tried |-> FALSE]

(* lmod: the sizes are powers of 2.                                        *)
Bucket(c, n) == Hash[c] % n

----------------------------------------------------------------------------
(* tablerehash: the strings of 'h' by their bucket among n, in a vector of *)
(* m entries.                                                              *)
Rehash(h, n, m) ==
  LET strings == UNION {h[i] : i \in DOMAIN h}
  IN  [i \in 0..m-1 |-> {o \in strings : Bucket(Content[o], n) = i}]

(* luaS_remove and the freeing of the strings of S.                        *)
Remove(S) ==
  /\ hash' = [i \in DOMAIN hash |-> hash[i] \ S]
  /\ lost' = \E o \in S : o \notin hash[Bucket(Content[o], size)]
  /\ status' = [o \in Obj |-> IF o \in S THEN "free" ELSE status[o]]
  /\ nuse' = nuse - Cardinality(S)

Garbage == {o \in Obj : status[o] # "free"} \ held

----------------------------------------------------------------------------
(***************************************************************************)
(* Interning (internshrstr, growstrtab).                                   *)
(***************************************************************************)

Ready == op.at = "idle" /\ ~lost

FoundDead(o) ==              \* faulty: a dead string is not resurrected
  /\ Ready
  /\ status[o] # "free" /\ o \in hash[Bucket(Content[o], size)]
  /\ held' = held \cup {o}
  /\ UNCHANGED <<hash, size, nuse, status, gckind, sweeping, op, lost>>
Found(o) ==
  /\ Ready
  /\ status[o] # "free" /\ o \in hash[Bucket(Content[o], size)]
  /\ status' = [status EXCEPT ![o] = "live"]
  /\ held' = held \cup {o}
  /\ UNCHANGED <<gckind, hash, size, nuse, sweeping, op, lost>>

(* No string c in its bucket: the table may have to grow before.           *)
NotFound(c) ==
  /\ Ready
  /\ \A o \in hash[Bucket(c, size)] : Content[o] # c
  /\ op' = At(IF nuse < size THEN "create"
              ELSE IF nuse = MaxUse THEN "full"
              ELSE IF size <= MaxSize \div 2 THEN "grow"
              ELSE "create",
              c, Bucket(c, size))
  /\ UNCHANGED <<hash, size, nuse, status, held, gckind, sweeping, lost>>

(* Too many strings: a full collection, and an error if it freed none.     *)
Full ==
  /\ op.at = "full" /\ ~lost
  /\ Remove(Garbage)
  /\ op' = IF nuse' = MaxUse THEN Idle
           ELSE [op EXCEPT !.at = IF size <= MaxSize \div 2 THEN "grow" ELSE "create"]
  /\ sweeping' = FALSE
  /\ UNCHANGED <<size, held, gckind>>

(* luaS_resize doubles the table, or leaves it as it is.                   *)
GrowStale ==                 \* faulty: 'list' is not looked up again
  /\ op.at = "grow" /\ ~lost
  /\ hash' = Rehash(hash, 2 * size, 2 * size)
  /\ size' = 2 * size
  /\ op' = At("create", op.str, op.list)
  /\ UNCHANGED <<nuse, status, held, gckind, sweeping, lost>>
Grow ==
  /\ op.at = "grow" /\ ~lost
  /\ hash' = Rehash(hash, 2 * size, 2 * size)
  /\ size' = 2 * size
  /\ op' = At("create", op.str, Bucket(op.str, 2 * size))
  /\ UNCHANGED <<nuse, status, held, gckind, sweeping, lost>>

GrowFails ==
  /\ op.at = "grow" /\ ~lost /\ op.tried
  /\ op' = At("create", op.str, op.list)
  /\ UNCHANGED <<hash, size, nuse, status, held, gckind, sweeping, lost>>

(* createstrobj, and the link into the bucket found before.                *)
Create(o) ==
  /\ op.at = "create" /\ ~lost
  /\ status[o] = "free" /\ Content[o] = op.str
  /\ status' = [status EXCEPT ![o] = "live"]
  /\ hash' = [hash EXCEPT ![op.list] = @ \cup {o}]
  /\ nuse' = nuse + 1
  /\ held' = held \cup {o}
  /\ op' = Idle
  /\ UNCHANGED <<gckind, size, sweeping, lost>>

CreateFails ==
  /\ op.at = "create" /\ ~lost /\ op.tried
  /\ op' = Idle
  /\ UNCHANGED <<hash, size, nuse, status, held, gckind, sweeping, lost>>

Drop(o) ==
  /\ Ready /\ o \in held
  /\ held' = held \ {o}
  /\ UNCHANGED <<hash, size, nuse, status, gckind, sweeping, op, lost>>

----------------------------------------------------------------------------
(***************************************************************************)
(* The collector.                                                          *)
(***************************************************************************)

(* atomic: what is not marked is dead.                                     *)
Atomic ==
  /\ Ready /\ gckind = "incremental" /\ ~sweeping
  /\ status' = [o \in Obj |-> IF o \in Garbage THEN "dead" ELSE status[o]]
  /\ sweeping' = TRUE
  /\ UNCHANGED <<hash, size, nuse, held, gckind, op, lost>>

SweepString(o) ==
  /\ Ready /\ sweeping /\ status[o] = "dead"
  /\ Remove({o})
  /\ UNCHANGED <<size, held, gckind, sweeping, op>>

(* checkSizes: luaS_resize halves a table that is mostly empty; first it   *)
(* moves the strings out of the upper half.                                *)
CheckSizes(h, n) ==
  IF n < size \div 4
  THEN /\ hash' = Rehash(h, size \div 2, size)
       /\ op' = At("shrink", Idle.str, 0)
  ELSE /\ hash' = h
       /\ UNCHANGED op

SweepEnd ==
  /\ Ready /\ sweeping
  /\ \A o \in Obj : status[o] # "dead"
  /\ CheckSizes(hash, nuse)
  /\ sweeping' = FALSE
  /\ UNCHANGED <<size, nuse, status, held, gckind, lost>>

(* youngcollection frees garbage that is young, entergen all garbage, and  *)
(* both end in finishgencycle.                                             *)
FinishGen(S) ==
  /\ status' = [o \in Obj |-> IF o \in S THEN "free" ELSE status[o]]
  /\ nuse' = nuse - Cardinality(S)
  /\ lost' = \E o \in S : o \notin hash[Bucket(Content[o], size)]
  /\ CheckSizes([i \in DOMAIN hash |-> hash[i] \ S], nuse - Cardinality(S))
  /\ UNCHANGED <<size, held, sweeping>>

YoungCollection(S) ==
  /\ Ready /\ gckind = "generational"
  /\ S \subseteq Garbage
  /\ FinishGen(S)
  /\ UNCHANGED gckind

(* luaC_changemode.  entergen ends a sweep in progress first; minor2inc    *)
(* goes on with a sweep that finds nothing dead.                           *)
EnterGen ==
  /\ Ready /\ gckind = "incremental" /\ "generational" \in Kinds /\ ~sweeping
  /\ FinishGen(Garbage)
  /\ gckind' = "generational"

EnterInc ==
  /\ Ready /\ gckind = "generational" /\ "incremental" \in Kinds
  /\ gckind' = "incremental"
  /\ sweeping' = TRUE
  /\ UNCHANGED <<hash, size, nuse, status, held, op, lost>>

Shrink ==
  /\ op.at = "shrink" /\ ~lost
  /\ hash' = [i \in 0..(size \div 2)-1 |-> hash[i]]
  /\ size' = size \div 2
  /\ op' = Idle
  /\ UNCHANGED <<nuse, status, held, gckind, sweeping, lost>>

(* gcstopem: singlestep sets it, youngcollection and entergen do not.      *)
NeverStopped == FALSE        \* faulty: singlestep does not set it
StopEm == op.at = "shrink" /\ gckind = "incremental"

(* The allocation fails for good: the table gets its size back.            *)
ShrinkUndoneNot ==          \* faulty: the strings stay in the lower half
  /\ op.at = "shrink" /\ ~lost /\ gckind \in ShrinkFails
  /\ op.tried \/ StopEm
  /\ op' = Idle
  /\ UNCHANGED <<hash, size, nuse, status, held, gckind, sweeping, lost>>
ShrinkUndone ==
  /\ op.at = "shrink" /\ ~lost /\ gckind \in ShrinkFails
  /\ op.tried \/ StopEm
  /\ hash' = Rehash(hash, size, size)
  /\ op' = Idle
  /\ UNCHANGED <<size, nuse, status, held, gckind, sweeping, lost>>

(* tryagain: an allocation fails, a full collection frees all garbage (and *)
(* neither calls finalizers nor shrinks the table).                        *)
Emergency ==
  /\ op.at \in {"grow", "create", "shrink"} /\ ~op.tried /\ ~lost
  /\ ~StopEm /\ (op.at = "shrink" => gckind \in ShrinkFails)
  /\ Remove(Garbage)
  /\ op' = [op EXCEPT !.tried = TRUE]
  /\ sweeping' = FALSE
  /\ UNCHANGED <<size, held, gckind>>

----------------------------------------------------------------------------
(* luaS_init.                                                              *)
Init ==
  /\ hash = [i \in 0..InitSize-1 |-> {}]
  /\ size = InitSize
  /\ nuse = 0
  /\ status = [o \in Obj |-> "free"]
  /\ held = {}
  /\ gckind = "incremental"
  /\ sweeping = FALSE
  /\ op = Idle
  /\ lost = FALSE

Next ==
  \/ \E o \in Obj : Found(o) \/ Create(o) \/ Drop(o) \/ SweepString(o)
  \/ \E c \in Contents : NotFound(c)
  \/ Full \/ Grow \/ GrowFails \/ CreateFails
  \/ Atomic \/ SweepEnd
  \/ \E S \in SUBSET Garbage : YoungCollection(S)
  \/ EnterGen \/ EnterInc
  \/ Shrink \/ ShrinkUndone \/ Emergency

Spec == Init /\ [][Next]_vars

----------------------------------------------------------------------------
(***************************************************************************)
(* Properties.                                                             *)
(***************************************************************************)

(* The vector has as many buckets as the table says, and 'nuse' counts the *)
(* strings.                                                                *)
StringsTypeOK ==
  /\ size \in Nat \ {0}
  /\ hash \in [0..size-1 -> SUBSET Obj]
  /\ status \in [Obj -> {"free", "live", "dead"}]
  /\ nuse = Cardinality({o \in Obj : status[o] # "free"})
  /\ held \subseteq Obj

(* Every string is in its bucket, unless luaS_resize is moving strings,    *)
(* whatever allocations fail and collections run in between.               *)
InBucket ==
  (op.at # "shrink" /\ ~lost) =>
    \A o \in Obj, i \in 0..size-1 :
      o \in hash[i] <=> (status[o] # "free" /\ i = Bucket(Content[o], size))

(* Strings of the same bytes are the same object, or comparing pointers    *)
(* (eqshrstr) would not compare strings.                                   *)
Interned == \A o, p \in held : Content[o] = Content[p] => o = p

(* What the program got from internshrstr is not freed, even if it was     *)
(* dead when it was found.                                                 *)
HeldLive == \A o \in held : status[o] = "live"

(* luaS_remove always finds the string in its chain: it does not look for  *)
(* the end of it.                                                          *)
RemoveFinds == ~lost
=============================================================================
