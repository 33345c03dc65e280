-------------------------- MODULE LuaStringsProofs --------------------------
(***************************************************************************)
(* Proofs about LuaStrings, for any number of strings, any hash function   *)
(* and any limits: every string is in its bucket, equal strings are one    *)
(* object, what the program holds is alive, and luaS_remove finds what it  *)
(* removes, unless the allocation that shrinks the table may fail in       *)
(* generational mode.                                                      *)
(***************************************************************************)
EXTENDS LuaStrings, FiniteSetTheorems, TLAPS

Used(s) == {o \in Obj : s[o] # "free"}

(* The buckets h hold the strings in use, in their buckets of n.           *)
Placed(h, s, n) ==
  \A o \in Obj, i \in DOMAIN h : o \in h[i] <=> o \in Used(s) /\ i = Bucket(Content[o], n)

Places == {"idle", "full", "grow", "create", "shrink"}
Adding == op.at \in {"full", "grow", "create"}

TypeInv ==
  /\ StringsTypeOK
  /\ op \in [at : Places, str : Contents \cup {Idle.str}, list : Nat, tried : BOOLEAN]
  /\ gckind \in {"incremental", "generational"}
  /\ sweeping \in BOOLEAN /\ lost \in BOOLEAN

(* While the table shrinks, its strings are already in the lower half.     *)
Buckets ==
  IF op.at = "shrink" THEN size > 1 /\ Placed(hash, status, size \div 2) ELSE Placed(hash, status, size)

(* No two strings in use are equal, and none is equal to the one that is   *)
(* being added, whose bucket was found in the table as it is now.          *)
Unique ==
  /\ \A o, p \in Used(status) : Content[o] = Content[p] => o = p
  /\ Adding => /\ op.str \in Contents /\ op.list = Bucket(op.str, size)
               /\ \A o \in Used(status) : Content[o] # op.str

IInv == TypeInv /\ Buckets /\ Unique /\ HeldLive

----------------------------------------------------------------------------
(* lmod gives a bucket of the table.                                       *)
LEMMA BucketRange ==
  ASSUME NEW c \in Contents, NEW n \in Nat \ {0}
  PROVE  Bucket(c, n) \in 0..n-1
<1>1. Hash[c] \in Nat
  BY StringsAssumption
<1> QED BY <1>1 DEF Bucket

(* tablerehash puts every string into its bucket.                          *)
LEMMA RehashPlaces ==
  ASSUME NEW st, NEW h, NEW K, h \in [K -> SUBSET Obj],
         NEW j \in Nat \ {0}, 0..j-1 \subseteq K, Placed(h, st, j),
         NEW n \in Nat \ {0}, NEW m \in Nat \ {0}, n <= m
  PROVE  /\ Rehash(h, n, m) \in [0..m-1 -> SUBSET Obj]
         /\ Placed(Rehash(h, n, m), st, n)
<1> DEFINE strings == UNION {h[i] : i \in DOMAIN h}
<1>1. \A o \in Obj : Content[o] \in Contents
  BY DEF Contents
<1>2. \A o \in strings : o \in Used(st)
  BY DEF Placed
<1>3. ASSUME NEW o \in Used(st) PROVE o \in strings
  <2>1. o \in Obj
    BY DEF Used
  <2>2. Bucket(Content[o], j) \in DOMAIN h
    BY <1>1, <2>1, BucketRange
  <2> QED BY <1>3, <2>1, <2>2 DEF Placed
<1>4. strings \subseteq Obj
  OBVIOUS
<1> HIDE DEF strings
<1>5. Rehash(h, n, m) = [i \in 0..m-1 |-> {o \in strings : Bucket(Content[o], n) = i}]
  BY DEF Rehash, strings
<1> QED BY <1>2, <1>3, <1>4, <1>5 DEF Placed

(* Removing strings from all chains leaves the others in their buckets.    *)
LEMMA RemovePlaces ==
  ASSUME NEW h, NEW n, NEW S \in SUBSET Used(status),
         NEW s, s = [o \in Obj |-> IF o \in S THEN "free" ELSE status[o]],
         Placed(h, status, n)
  PROVE  Placed([i \in DOMAIN h |-> h[i] \ S], s, n)
BY DEF Placed, Used

(* The strings that are left are counted.                                  *)
LEMMA RemoveCounts ==
  ASSUME TypeInv, NEW S \in SUBSET Used(status),
         NEW s, s = [o \in Obj |-> IF o \in S THEN "free" ELSE status[o]]
  PROVE  /\ s \in [Obj -> {"free", "live", "dead"}]
         /\ Used(s) = Used(status) \ S
         /\ nuse - Cardinality(S) = Cardinality(Used(s)) /\ nuse - Cardinality(S) \in Nat
<1>1. Used(s) = Used(status) \ S
  BY DEF Used
<1>2. IsFiniteSet(Used(status)) /\ nuse = Cardinality(Used(status))
  BY StringsAssumption, FS_Subset DEF TypeInv, StringsTypeOK, Used
<1>3. IsFiniteSet(Used(s)) /\ Cardinality(Used(s)) = Cardinality(Used(status)) - Cardinality(S)
  <2>1. Used(status) \cap S = S
    OBVIOUS
  <2> QED BY <1>1, <1>2, <2>1, FS_Difference, ZenonT(40)
<1>4. Cardinality(Used(s)) \in Nat
  BY <1>3, FS_CardinalityType
<1>5. s \in [Obj -> {"free", "live", "dead"}]
  BY DEF TypeInv, StringsTypeOK
<1> QED BY <1>1, <1>2, <1>3, <1>4, <1>5

----------------------------------------------------------------------------
(***************************************************************************)
(* The invariant is inductive.                                             *)
(***************************************************************************)

LEMMA InitInv == Init => IInv
<1> SUFFICES ASSUME Init PROVE IInv
  OBVIOUS
<1> USE DEF Init
<1>1. TypeInv
  <2>1. Used(status) = {} /\ nuse = Cardinality({})
    BY FS_EmptySet DEF Used
  <2>2. StringsTypeOK
    BY <2>1, StringsAssumption, FS_EmptySet DEF StringsTypeOK, Used
  <2> QED BY <2>2 DEF TypeInv, Places, Idle
<1>2. Buckets /\ Unique /\ HeldLive
  BY DEF Buckets, Placed, Unique, Adding, Used, HeldLive, Idle
<1> QED BY <1>1, <1>2 DEF IInv

(* A collection, or a part of one, that frees the garbage S.               *)
LEMMA RemoveInv ==
  ASSUME IInv, NEW S \in SUBSET Garbage, Remove(S), UNCHANGED <<size, held, gckind>>,
         sweeping' \in BOOLEAN,
         op' \in [at : Places, str : Contents \cup {Idle.str}, list : Nat, tried : BOOLEAN],
         op.at = "shrink" <=> op'.at = "shrink",
         Adding' => Adding /\ op'.str = op.str /\ op'.list = op.list
  PROVE  IInv'
<1>1. S \in SUBSET Used(status)
  BY DEF Garbage, Used
<1>2. /\ status' \in [Obj -> {"free", "live", "dead"}]
      /\ Used(status') = Used(status) \ S
      /\ nuse' = Cardinality(Used(status')) /\ nuse' \in Nat
  BY <1>1, RemoveCounts DEF Remove, IInv
<1>3. StringsTypeOK' /\ TypeInv'
  BY <1>2 DEF IInv, TypeInv, StringsTypeOK, Remove, Used
<1>4. ASSUME NEW n, Placed(hash, status, n) PROVE Placed(hash', status', n)
  BY <1>1, <1>4, RemovePlaces DEF Remove
<1>5. Buckets'
  BY <1>4 DEF IInv, Buckets
<1>6. Unique'
  BY <1>2 DEF IInv, Unique
<1>7. HeldLive'
  BY DEF IInv, TypeInv, StringsTypeOK, HeldLive, Garbage, Remove
<1> QED BY <1>3, <1>5, <1>6, <1>7 DEF IInv

(* luaS_resize may begin once the strings S are removed.                   *)
LEMMA CheckSizesInv ==
  ASSUME IInv, op.at = "idle", NEW S \in SUBSET Garbage,
         status' = [o \in Obj |-> IF o \in S THEN "free" ELSE status[o]],
         nuse' = nuse - Cardinality(S),
         CheckSizes([i \in DOMAIN hash |-> hash[i] \ S], nuse - Cardinality(S)),
         UNCHANGED <<size, held>>,
         gckind' \in {"incremental", "generational"}, sweeping' \in BOOLEAN, lost' \in BOOLEAN
  PROVE  IInv'
<1> DEFINE h == [i \in DOMAIN hash |-> hash[i] \ S]
<1>1. S \in SUBSET Used(status)
  BY DEF Garbage, Used
<1>2. /\ status' \in [Obj -> {"free", "live", "dead"}]
      /\ Used(status') = Used(status) \ S
      /\ nuse' = Cardinality(Used(status')) /\ nuse' \in Nat
  BY <1>1, RemoveCounts DEF IInv
<1>3. h \in [0..size-1 -> SUBSET Obj] /\ size \in Nat \ {0}
  BY DEF IInv, TypeInv, StringsTypeOK
<1>4. Placed(h, status', size)
  BY <1>1, RemovePlaces DEF IInv, Buckets
<1>5. CASE nuse' < size \div 4
  <2>1. size \div 2 \in Nat \ {0} /\ size \div 2 <= size /\ size > 1
    BY <1>2, <1>3, <1>5
  <2>2. hash' = Rehash(h, size \div 2, size) /\ op' = At("shrink", Idle.str, 0)
    BY <1>5 DEF CheckSizes
  <2>3. /\ hash' \in [0..size-1 -> SUBSET Obj]
        /\ Placed(hash', status', size \div 2)
    <3> HIDE DEF h
    <3>1. /\ Rehash(h, size \div 2, size) \in [0..size-1 -> SUBSET Obj]
          /\ Placed(Rehash(h, size \div 2, size), status', size \div 2)
      BY <1>3, <1>4, <2>1, RehashPlaces
    <3> QED BY <2>2, <3>1
  <2>4. Buckets'
    BY <2>1, <2>2, <2>3 DEF Buckets, At
  <2>5. TypeInv'
    BY <1>2, <1>3, <2>2, <2>3 DEF IInv, TypeInv, StringsTypeOK, Places, At, Used
  <2>6. Unique'
    BY <1>2, <2>2 DEF IInv, Unique, Adding, At
  <2>7. HeldLive'
    BY DEF IInv, TypeInv, StringsTypeOK, HeldLive, Garbage
  <2> QED BY <2>4, <2>5, <2>6, <2>7 DEF IInv
<1>6. CASE ~(nuse' < size \div 4)
  <2>1. hash' = h /\ op' = op
    BY <1>6 DEF CheckSizes
  <2>2. Buckets'
    BY <1>4, <2>1 DEF Buckets
  <2>3. TypeInv'
    BY <1>2, <1>3, <2>1 DEF IInv, TypeInv, StringsTypeOK, Used
  <2>4. Unique'
    BY <1>2, <2>1 DEF IInv, Unique, Adding
  <2>5. HeldLive'
    BY DEF IInv, TypeInv, StringsTypeOK, HeldLive, Garbage
  <2> QED BY <2>2, <2>3, <2>4, <2>5 DEF IInv
<1> QED BY <1>5, <1>6
(* A string with the bytes c would be in its bucket: none there, none at   *)
(* all.                                                                    *)
LEMMA NotFoundInv ==
  ASSUME IInv, NEW c \in Contents, NotFound(c)
  PROVE  IInv'
<1>1. size \in Nat \ {0} /\ hash \in [0..size-1 -> SUBSET Obj] /\ op.at = "idle"
  BY DEF IInv, TypeInv, StringsTypeOK, NotFound, Ready
<1>2. Bucket(c, size) \in 0..size-1
  BY <1>1, BucketRange
<1>3. \A o \in Used(status) : Content[o] # c
  <2>1. Used(status) \subseteq Obj
    BY DEF Used
  <2> QED BY <1>1, <1>2, <2>1 DEF IInv, Buckets, Placed, NotFound
<1>4. /\ op'.at \in {"create", "full", "grow"} /\ op'.str = c /\ op'.list = Bucket(c, size)
      /\ op' \in [at : Places, str : Contents \cup {Idle.str}, list : Nat, tried : BOOLEAN]
  <2>1. Bucket(c, size) \in Nat
    BY <1>1, <1>2
  <2> QED BY <2>1 DEF NotFound, At, Places
<1>5. UNCHANGED <<hash, size, nuse, status, held, gckind, sweeping, lost>>
  BY DEF NotFound
<1>6. TypeInv'
  BY <1>4, <1>5 DEF IInv, TypeInv, StringsTypeOK
<1>7. Buckets'
  BY <1>1, <1>4, <1>5 DEF IInv, Buckets
<1>8. Unique'
  BY <1>3, <1>4, <1>5 DEF IInv, Unique, Adding
<1> QED BY <1>5, <1>6, <1>7, <1>8 DEF IInv, HeldLive

(* createstrobj links the new string into the bucket that was found, or    *)
(* found again after the table had grown.                                  *)
LEMMA CreateInv ==
  ASSUME IInv, NEW o \in Obj, Create(o)
  PROVE  IInv'
<1>1. /\ status[o] = "free" /\ op.at = "create" /\ Content[o] = op.str
      /\ size \in Nat \ {0} /\ hash \in [0..size-1 -> SUBSET Obj]
      /\ status \in [Obj -> {"free", "live", "dead"}]
      /\ op.list = Bucket(op.str, size) /\ op.str \in Contents
  BY DEF IInv, TypeInv, StringsTypeOK, Create, Unique, Adding
<1>2. op.list \in 0..size-1
  BY <1>1, BucketRange
<1>3. Used(status') = Used(status) \cup {o} /\ o \notin Used(status)
  BY <1>1 DEF Create, Used
<1>4. StringsTypeOK'
  <2>1. IsFiniteSet(Used(status)) /\ nuse = Cardinality(Used(status))
    BY StringsAssumption, FS_Subset DEF IInv, TypeInv, StringsTypeOK, Used
  <2>2. Cardinality(Used(status')) = Cardinality(Used(status)) + 1
    BY <1>3, <2>1, FS_AddElement
  <2>3. nuse' = Cardinality({p \in Obj : status'[p] # "free"})
    BY <2>1, <2>2 DEF Create, Used
  <2> QED BY <1>1, <1>2, <2>3 DEF IInv, TypeInv, StringsTypeOK, Create
<1>5. TypeInv'
  BY <1>4 DEF IInv, TypeInv, Create, Idle, Places
<1>6. Buckets'
  <2>1. Placed(hash, status, size)
    BY <1>1 DEF IInv, Buckets
  <2>2. hash' = [hash EXCEPT ![op.list] = @ \cup {o}] /\ size' = size /\ op'.at = "idle"
    BY DEF Create, Idle
  <2>3. Placed(hash', status', size)
    BY <1>1, <1>2, <1>3, <2>1, <2>2 DEF Placed
  <2> QED BY <2>2, <2>3 DEF Buckets
<1>7. Unique'
  BY <1>1, <1>3, ZenonT(40) DEF IInv, Unique, Adding, Create, Idle
<1>8. HeldLive'
  BY <1>1 DEF IInv, HeldLive, Create
<1> QED BY <1>5, <1>6, <1>7, <1>8 DEF IInv

LEMMA GrowInv ==
  ASSUME IInv, Grow
  PROVE  IInv'
<1>1. /\ op.at = "grow" /\ size \in Nat \ {0} /\ hash \in [0..size-1 -> SUBSET Obj]
      /\ op.str \in Contents /\ Placed(hash, status, size)
  BY DEF IInv, TypeInv, StringsTypeOK, Grow, Unique, Adding, Buckets
<1>2. hash' \in [0..(2 * size)-1 -> SUBSET Obj] /\ Placed(hash', status, 2 * size)
  <2>1. /\ 2 * size \in Nat \ {0} /\ 2 * size <= 2 * size
        /\ hash \in [DOMAIN hash -> SUBSET Obj] /\ 0..size-1 \subseteq DOMAIN hash
    BY <1>1
  <2>2. /\ Rehash(hash, 2 * size, 2 * size) \in [0..(2 * size)-1 -> SUBSET Obj]
        /\ Placed(Rehash(hash, 2 * size, 2 * size), status, 2 * size)
    BY <1>1, <2>1, RehashPlaces
  <2> QED BY <2>2 DEF Grow
<1>3. Bucket(op.str, 2 * size) \in Nat
  BY <1>1, BucketRange
<1>4. op' = At("create", op.str, Bucket(op.str, 2 * size)) /\ size' = 2 * size
  BY DEF Grow
<1>5. TypeInv'
  BY <1>1, <1>2, <1>3, <1>4 DEF IInv, TypeInv, StringsTypeOK, Grow, At, Places
<1>6. Buckets' /\ Unique' /\ HeldLive'
  BY <1>1, <1>2, <1>4 DEF IInv, Buckets, Unique, Adding, HeldLive, Grow, At
<1> QED BY <1>5, <1>6 DEF IInv

LEMMA ShrinkInv ==
  ASSUME IInv, Shrink \/ ShrinkUndone
  PROVE  IInv'
<1>1. /\ op.at = "shrink" /\ size \in Nat /\ size > 1 /\ hash \in [0..size-1 -> SUBSET Obj]
      /\ Placed(hash, status, size \div 2)
  BY DEF IInv, TypeInv, StringsTypeOK, Shrink, ShrinkUndone, Buckets
<1>2. size \div 2 \in Nat \ {0} /\ size \div 2 <= size
  BY <1>1
<1>3. UNCHANGED <<nuse, status, held, gckind, sweeping, lost>> /\ op' = Idle
  BY DEF Shrink, ShrinkUndone
<1>4. Unique' /\ HeldLive'
  BY <1>3 DEF IInv, Unique, Adding, HeldLive, Idle
<1>5. CASE Shrink
  <2>1. hash' \in [0..(size \div 2)-1 -> SUBSET Obj] /\ size' = size \div 2
    BY <1>1, <1>2, <1>5 DEF Shrink
  <2>2. Placed(hash', status, size \div 2)
    BY <1>1, <1>2, <1>5 DEF Placed, Shrink
  <2> QED BY <1>2, <1>3, <1>4, <2>1, <2>2
          DEF IInv, TypeInv, StringsTypeOK, Buckets, Idle, Places
<1>6. CASE ShrinkUndone
  <2>1. hash' \in [0..size-1 -> SUBSET Obj] /\ Placed(hash', status, size)
    <3>1. /\ 0..(size \div 2)-1 \subseteq DOMAIN hash /\ size \in Nat \ {0} /\ size <= size
          /\ hash \in [DOMAIN hash -> SUBSET Obj]
      BY <1>1, <1>2
    <3>2. /\ Rehash(hash, size, size) \in [0..size-1 -> SUBSET Obj]
          /\ Placed(Rehash(hash, size, size), status, size)
      BY <1>1, <1>2, <3>1, RehashPlaces
    <3> QED BY <1>6, <3>2 DEF ShrinkUndone
  <2> QED BY <1>3, <1>4, <1>6, <2>1
          DEF IInv, TypeInv, StringsTypeOK, Buckets, Idle, Places, ShrinkUndone
<1> QED BY <1>5, <1>6
LEMMA FoundInv ==
  ASSUME IInv, NEW o \in Obj, Found(o)
  PROVE  IInv'
<1>1. UNCHANGED <<gckind, hash, size, nuse, sweeping, op, lost>> /\ status[o] # "free"
  BY DEF Found
<1>2. /\ status' \in [Obj -> {"free", "live", "dead"}]
      /\ \A p \in Obj : status'[p] = "free" <=> status[p] = "free"
      /\ status'[o] = "live" /\ \A p \in Obj : status[p] = "live" => status'[p] = "live"
  BY <1>1 DEF IInv, TypeInv, StringsTypeOK, Found
<1>3. Used(status') = Used(status)
  BY <1>2 DEF Used
<1>4. StringsTypeOK'
  <2>1. {p \in Obj : status'[p] # "free"} = {p \in Obj : status[p] # "free"}
    BY <1>3 DEF Used
  <2> QED BY <1>1, <1>2, <2>1 DEF IInv, TypeInv, StringsTypeOK, Found
<1>5. TypeInv' /\ Buckets'
  BY <1>1, <1>3, <1>4 DEF IInv, TypeInv, Buckets, Placed
<1>6. Unique' /\ HeldLive'
  BY <1>1, <1>2, <1>3, ZenonT(40) DEF IInv, TypeInv, StringsTypeOK, Unique, Adding, HeldLive, Found
<1> QED BY <1>5, <1>6 DEF IInv

LEMMA AtomicInv ==
  ASSUME IInv, Atomic
  PROVE  IInv'
<1>1. UNCHANGED <<hash, size, nuse, held, gckind, op, lost>> /\ sweeping' = TRUE
  BY DEF Atomic
<1>2. /\ status' \in [Obj -> {"free", "live", "dead"}]
      /\ \A p \in Obj : status'[p] = "free" <=> status[p] = "free"
      /\ \A p \in held : status'[p] = status[p]
  BY DEF IInv, TypeInv, StringsTypeOK, Atomic, Garbage
<1>3. Used(status') = Used(status)
  BY <1>2 DEF Used
<1>4. StringsTypeOK'
  <2>1. {p \in Obj : status'[p] # "free"} = {p \in Obj : status[p] # "free"}
    BY <1>3 DEF Used
  <2> QED BY <1>1, <1>2, <2>1 DEF IInv, TypeInv, StringsTypeOK
<1> QED BY <1>1, <1>2, <1>3, <1>4
        DEF IInv, TypeInv, Buckets, Placed, Unique, Adding, HeldLive

(* The rest of the actions free garbage, or change one of the marks that   *)
(* the invariant leaves open.                                              *)
LEMMA NextInv ==
  ASSUME IInv, [Next]_vars
  PROVE  IInv'
<1> DEFINE OpType == [at : Places, str : Contents \cup {Idle.str}, list : Nat, tried : BOOLEAN]
<1>0. Garbage \in SUBSET Garbage
  OBVIOUS
<1>1. ASSUME NEW o \in Obj, Drop(o) PROVE IInv'
  BY <1>1 DEF Drop, IInv, TypeInv, StringsTypeOK, Buckets, Placed, Unique, Adding, HeldLive
<1>2. ASSUME NEW o \in Obj, SweepString(o) PROVE IInv'
  <2>1. {o} \in SUBSET Garbage
    BY <1>2 DEF SweepString, Garbage, IInv, HeldLive
  <2> QED BY <1>2, <2>1, RemoveInv DEF SweepString, IInv, TypeInv, Adding
<1>3. CASE Full
  <2>1. op.at = "full" /\ op \in OpType
    BY <1>3 DEF Full, IInv, TypeInv
  <2>2. /\ op' \in OpType /\ op'.at # "shrink"
        /\ Adding' => op'.str = op.str /\ op'.list = op.list
    BY <1>3, <2>1 DEF Full, Idle, Places, Adding
  <2> QED BY <1>0, <1>3, <2>1, <2>2, RemoveInv DEF Full, Adding
<1>4. CASE Emergency
  <2>1. /\ op \in OpType /\ op'.at = op.at
        /\ op' \in OpType /\ op'.str = op.str /\ op'.list = op.list
    BY <1>4 DEF Emergency, IInv, TypeInv
  <2> QED BY <1>0, <1>4, <2>1, RemoveInv DEF Emergency, Adding
<1>5. CASE GrowFails
  BY <1>5 DEF GrowFails, At, Places, IInv, TypeInv, StringsTypeOK, Buckets, Placed, Unique, Adding, HeldLive
<1>6. CASE CreateFails
  BY <1>6 DEF CreateFails, Idle, Places, IInv, TypeInv, StringsTypeOK, Buckets, Placed, Unique, Adding, HeldLive
<1>7. CASE SweepEnd
  <2>1. PICK S \in SUBSET Garbage : S = {}
    OBVIOUS
  <2>2. IsFiniteSet(Used(status)) /\ nuse = Cardinality(Used(status))
    BY StringsAssumption, FS_Subset DEF IInv, TypeInv, StringsTypeOK, Used
  <2>3. nuse \in Nat /\ Cardinality(S) = 0
    BY <2>1, <2>2, FS_CardinalityType, FS_EmptySet
  <2>4. /\ status = [o \in Obj |-> IF o \in S THEN "free" ELSE status[o]]
        /\ nuse = nuse - Cardinality(S)
        /\ [i \in DOMAIN hash |-> hash[i] \ S] = hash
    BY <2>1, <2>3 DEF IInv, TypeInv, StringsTypeOK
  <2>5. /\ CheckSizes(hash, nuse) /\ sweeping' = FALSE /\ op.at = "idle"
        /\ UNCHANGED <<size, nuse, status, held, gckind, lost>>
    BY <1>7 DEF SweepEnd, Ready
  <2> HIDE <2>1
  <2> QED BY <2>4, <2>5, CheckSizesInv DEF IInv, TypeInv
<1>8. ASSUME NEW S \in SUBSET Garbage, YoungCollection(S) PROVE IInv'
  BY <1>8, CheckSizesInv DEF YoungCollection, FinishGen, Ready, IInv, TypeInv
<1>9. CASE EnterGen
  BY <1>0, <1>9, CheckSizesInv DEF EnterGen, FinishGen, Ready, IInv, TypeInv
<1>10. CASE EnterInc
  BY <1>10 DEF EnterInc, IInv, TypeInv, StringsTypeOK, Buckets, Placed, Unique, Adding, HeldLive
<1>11. CASE UNCHANGED vars
  BY <1>11 DEF vars, IInv, TypeInv, StringsTypeOK, Buckets, Placed, Unique, Adding, HeldLive
<1> QED
  BY <1>1, <1>2, <1>3, <1>4, <1>5, <1>6, <1>7, <1>8, <1>9, <1>10, <1>11,
     FoundInv, NotFoundInv, CreateInv, GrowInv, ShrinkInv, AtomicInv DEF Next

----------------------------------------------------------------------------
(***************************************************************************)
(* What the runs check.                                                    *)
(***************************************************************************)

(* The table is well formed and counts its strings in every reachable      *)
(* state.                                                                  *)
THEOREM Invariant == Spec => []IInv
BY InitInv, NextInv, PTL DEF Spec

(* Every string in use is in its bucket and in no other, whatever          *)
(* allocations fail and collections run while the table grows or shrinks   *)
(* (internshrstr, luaS_resize).                                            *)
THEOREM StringsInBuckets == Spec => []InBucket
<1>1. IInv => InBucket
  BY DEF IInv, TypeInv, StringsTypeOK, Buckets, Placed, Used, InBucket
<1> QED BY <1>1, Invariant, PTL

(* Equal strings that the program holds are one object.                    *)
THEOREM EqualStringsAreOne == Spec => []Interned
<1>1. IInv => Interned
  BY DEF IInv, TypeInv, StringsTypeOK, Unique, Used, HeldLive, Interned
<1> QED BY <1>1, Invariant, PTL

(* No string that the program holds is freed or dead, although it may have *)
(* been dead when it was found.                                            *)
THEOREM HeldStringsLive == Spec => []HeldLive
<1>1. IInv => HeldLive
  BY DEF IInv
<1> QED BY <1>1, Invariant, PTL

(* luaS_remove finds its string in the chain, if an allocation that makes  *)
(* the table smaller does not fail in generational mode.  Where it may,    *)
(* the run "strings_shrink" shows a walk off the end of a chain.           *)
THEOREM RemoveFindsString ==
  ASSUME "generational" \notin ShrinkFails
  PROVE  Spec => []RemoveFinds
<1>1. Init => RemoveFinds
  BY DEF Init, RemoveFinds
<1>2. ASSUME IInv, op.at # "shrink", NEW S \in SUBSET Garbage
      PROVE  \A o \in S : o \in hash[Bucket(Content[o], size)]
  <2>1. size \in Nat \ {0} /\ DOMAIN hash = 0..size-1 /\ Placed(hash, status, size)
    BY <1>2 DEF IInv, TypeInv, StringsTypeOK, Buckets
  <2>2. \A o \in S : o \in Used(status) /\ o \in Obj /\ Content[o] \in Contents
    BY DEF Garbage, Used, Contents
  <2> QED BY <2>1, <2>2, BucketRange DEF Placed
<1>3. ASSUME IInv, RemoveFinds, [Next]_vars PROVE RemoveFinds'
  <2> USE DEF RemoveFinds
  <2>1. ASSUME NEW o \in Obj, SweepString(o) PROVE ~lost'
    <3>1. {o} \in SUBSET Garbage /\ op.at # "shrink"
      BY <1>3, <2>1 DEF SweepString, Garbage, IInv, HeldLive, Ready
    <3> QED BY <1>2, <1>3, <2>1, <3>1 DEF SweepString, Remove
  <2>2. CASE Full
    BY <1>2, <1>3, <2>2 DEF Full, Remove
  <2>3. CASE Emergency
    <3>1. op.at # "shrink"
      BY <1>3, <2>3 DEF Emergency, StopEm, IInv, TypeInv
    <3> QED BY <1>2, <1>3, <2>3, <3>1 DEF Emergency, Remove
  <2>4. ASSUME NEW S \in SUBSET Garbage, YoungCollection(S) PROVE ~lost'
    BY <1>2, <1>3, <2>4 DEF YoungCollection, FinishGen, Ready
  <2>5. CASE EnterGen
    BY <1>2, <1>3, <2>5 DEF EnterGen, FinishGen, Ready
  <2>6. CASE SweepEnd
    BY <1>3, <2>6 DEF SweepEnd
  <2> QED
    BY <1>3, <2>1, <2>2, <2>3, <2>4, <2>5, <2>6
       DEF Next, vars, Found, Create, Drop, NotFound, Grow, GrowFails, CreateFails, Atomic,
           EnterInc, Shrink, ShrinkUndone
<1> QED BY <1>1, <1>3, Invariant, PTL DEF Spec
=============================================================================
