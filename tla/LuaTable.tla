------------------------------ MODULE LuaTable ------------------------------
(* A table (ltable.c): the array, the nodes with their chains and dead      *)
(* keys, rehashing with allocations that may fail, traversal and length,    *)
(* under a program that assigns, forgets and re-creates objects while the   *)
(* collector clears weak entries and kills the keys of removed ones.        *)
EXTENDS Integers, Sequences, FiniteSets, FiniteSetsExt, SequencesExt

CONSTANTS Objects,       \* addresses of collectable keys and values
          Hash,          \* of each object
          nil, none, invalid,
          MaxInt,        \* LUA_MAXINTEGER
          MAXABITS,      \* an array has at most 2^MAXABITS elements
          MAXHBITS,      \* and there are at most 2^MAXHBITS nodes
          LIMFORLAST,    \* log of the size from which nodes have a 'lastfree'
          Seeds,         \* random seeds of the state
          Programs,      \* kinds of programs: the value to assign to each key, what the
                         \* table refers to weakly, the sizes it is created with
          ShrinkFails    \* whether the array of a table with weak values may fail to shrink

twoto[i \in 0..MAXABITS] == IF i = 0 THEN 1 ELSE 2 * twoto[i - 1]

(* A program works on integers and on collectable keys and values, and      *)
(* creates a table with sizes that luaH_resize accepts (ltable.c:721).      *)
ASSUME TableAssumption ==
  /\ MAXABITS \in Nat /\ MAXHBITS \in 0..MAXABITS
  /\ MaxInt \in Nat /\ twoto[MAXABITS] + 1 < MaxInt
  /\ Seeds \subseteq Nat /\ Objects \cap Int = {}
  /\ \A o \in Objects : Hash[o] \in Nat
  /\ {nil, none, invalid} \cap (Objects \cup Int) = {}
  /\ nil # none /\ nil # invalid /\ none # invalid
  /\ \A p \in Programs :
       /\ p.objects \subseteq Objects /\ p.weak \subseteq {"k", "v"}
       /\ DOMAIN p.stored \subseteq Int \cup p.objects
       /\ \A k \in DOMAIN p.stored : p.stored[k] \in Int \cup p.objects
       /\ p.asize \in 0..twoto[MAXABITS] /\ p.nsize \in 0..twoto[MAXHBITS]

VARIABLES t,        \* the table
          program,
          alloc,    \* objects that are allocated
          held,     \* objects that the program refers to, not counting the table
          key,      \* the last key of the traversal, nil before the first, or none
          left,     \* keys the traversal has yet to visit, to compare with LuaMap
          pending   \* a luaH_resize that waits for memory, or none
vars == <<t, program, alloc, held, key, left, pending>>

AllKeys == DOMAIN program.stored
Idle == pending = none

Node == [key |-> nil, dead |-> FALSE, val |-> nil, next |-> 0]    \* 'next' is a position
isdummy(T)  == T.node = <<>>
Sizenode(T) == IF isdummy(T) THEN 1 ELSE Len(T.node)
asize(T)    == Len(T.arr)
InArray(T, k)   == k \in 1..asize(T)              \* ikeyinarray
iscollectable(k) == k \in program.objects

Hashmod(n, size) == 1 + (n % (IF size % 2 = 0 THEN size - 1 ELSE size))
mainposition(T, k) == Hashmod(IF iscollectable(k) THEN Hash[k] ELSE k, Len(T.node))

EqualkeyLive(k, n, deadok) == n.key = k /\ ~n.dead      \* a dead key is never found
equalkey(k, n, deadok) == n.key = k /\ (deadok \/ ~n.dead)

(* The position of a key in the nodes, or 0: 'find[n]' follows 'n' links.    *)
getgeneric(T, k, deadok) ==
  LET find[n \in 0..Len(T.node)] == [i \in {0} \cup DOMAIN T.node |->
        IF i = 0 \/ equalkey(k, T.node[i], deadok) THEN i
        ELSE IF n = 0 THEN 0 ELSE find[n - 1][T.node[i].next]]
  IN IF isdummy(T) THEN 0 ELSE find[Len(T.node)][mainposition(T, k)]

luaH_get(T, k) ==
  IF InArray(T, k) THEN T.arr[k]
  ELSE LET p == getgeneric(T, k, FALSE) IN IF p = 0 THEN nil ELSE T.node[p].val
------------------------------------------------------------------------------
(* ---- inserting a key ---- *)
haslastfree(T) == Len(T.node) >= 2 ^ LIMFORLAST
getfreepos(T) == Max({0} \cup {i \in DOMAIN T.node :
                   /\ T.node[i].key = nil /\ (haslastfree(T) => i < T.lastfree)})

Put(T, p, k, v) == [T EXCEPT !.node[p].key = k, !.node[p].dead = FALSE, !.node[p].val = v]
Previous(T, p) == CHOOSE i \in DOMAIN T.node : T.node[i].next = p

(* The colliding node at 'mp' is not in its main position: it moves to 'f'. *)
MoveNode(T, mp, f) ==
  [T EXCEPT !.node = [@ EXCEPT ![Previous(T, mp)].next = f, ![f] = T.node[mp],
                               ![mp].next = 0, ![mp].val = nil]]
(* It is: the new node is chained after it. *)
ChainLost(T, mp, f) == [T EXCEPT !.node[mp].next = f]    \* drops the rest of the chain
ChainNode(T, mp, f) ==
  [T EXCEPT !.node = [@ EXCEPT ![f].next = T.node[mp].next, ![mp].next = f]]

Fits(T, k) == ~isdummy(T) /\ (T.node[mainposition(T, k)].val = nil \/ getfreepos(T) # 0)
insertkey(T, k, v) ==
  LET mp == mainposition(T, k)
      f  == getfreepos(T)
      U  == IF haslastfree(T) THEN [T EXCEPT !.lastfree = f] ELSE T
  IN CASE ~Fits(T, k) -> T
       [] Fits(T, k) /\ T.node[mp].val = nil -> Put(T, mp, k, v)
       [] Fits(T, k) /\ T.node[mp].val # nil /\ mainposition(T, T.node[mp].key) # mp ->
            Put(MoveNode(U, mp, f), mp, k, v)
       [] OTHER -> Put(ChainNode(U, mp, f), f, k, v)

newcheckedkey(T, k, v) == IF InArray(T, k) THEN [T EXCEPT !.arr[k] = v] ELSE insertkey(T, k, v)

------------------------------------------------------------------------------
(* ---- rehash ---- *)
Ceillog2(n) == CHOOSE i \in 0..MAXABITS : twoto[i] >= n /\ (i = 0 \/ twoto[i - 1] < n)
arrayXhash(na, nh) == na <= 3 * nh

(* The best size of the array for array indices 'ints'. *)
computesizes(ints) ==
  Max({0} \cup {twoto[i] : i \in {j \in 0..MAXABITS :
        LET upto == {k \in ints : k <= twoto[j]} IN
        /\ arrayXhash(twoto[j], Cardinality(ints))
        /\ \E k \in upto : 2 * k > twoto[j]
        /\ arrayXhash(twoto[j], Cardinality(upto))}})

Used(T) == {i \in DOMAIN T.node : T.node[i].val # nil}
arrayindex == 1..twoto[MAXABITS]

(* The sizes of the array and of the nodes for the keys of T and the key k. *)
RehashSizes(T, k) ==
  LET total == Cardinality(Used(T)) + 1
      ints == ({T.node[i].key : i \in Used(T)} \cup {k}) \cap arrayindex
      all  == ints \cup {i \in DOMAIN T.arr : T.arr[i] # nil}
      na   == IF ints = {} THEN asize(T) ELSE computesizes(all)
      nh   == IF ints = {} THEN total
              ELSE total + Cardinality(all \ ints) - Cardinality({i \in all : i <= na})
      deleted == Used(T) # DOMAIN T.node \/ T.node = <<>>   \* the dummy node is empty
  IN [asize |-> na, nsize |-> IF deleted THEN nh + nh \div 4 ELSE nh]

setnodevector(size) ==
  LET n == IF size = 0 THEN 0 ELSE twoto[Ceillog2(size)] IN [i \in 1..n |-> Node] \o <<>>

(* A table with new nodes, into which go the keys of a vanishing part of    *)
(* the array.                                                               *)
reinsertOldSlice(T, newasize, nodes) ==
  LET first == Min({newasize, asize(T)})
      U[i \in first..asize(T)] ==
        IF i = first THEN [T EXCEPT !.node = nodes, !.lastfree = Len(nodes) + 1]
        ELSE IF T.arr[i] = nil THEN U[i - 1] ELSE insertkey(U[i - 1], i, T.arr[i])
  IN U[asize(T)]

reinserthash(U, nodes) ==
  LET V[j \in 0..Len(nodes)] ==
        IF j = 0 THEN U
        ELSE IF nodes[j].val = nil THEN V[j - 1] ELSE newcheckedkey(V[j - 1], nodes[j].key, nodes[j].val)
  IN V[Len(nodes)]

(* Both allocations have succeeded; 'newt' has the new nodes. *)
FinishResize(T, newt, newasize) ==
  LET keep == SubSeq(T.arr, 1, Min({newasize, asize(T)}))
      arr  == keep \o [i \in 1..newasize - Len(keep) |-> nil]
      hint == IF newasize > 0 THEN newasize \div 2 ELSE T.hint
  IN reinserthash([newt EXCEPT !.arr = arr, !.hint = hint], T.node)
------------------------------------------------------------------------------
(* ---- traversal and length ---- *)
(* The index after which the traversal goes on; -1 for an invalid key. *)
findindex(T, k) ==
  IF k = nil THEN 0 ELSE IF InArray(T, k) THEN k
  ELSE LET p == getgeneric(T, k, TRUE) IN IF p = 0 THEN -1 ELSE asize(T) + p

luaH_next(T, k) ==
  LET keys == [i \in 1..asize(T) |-> IF T.arr[i] = nil THEN nil ELSE i] \o
              [i \in DOMAIN T.node |-> IF T.node[i].val = nil THEN nil ELSE T.node[i].key]
      i == findindex(T, k)
      rest == SelectInSubSeq(keys, i + 1, Len(keys), LAMBDA x : x # nil)
  IN CASE i = -1 -> invalid
       [] i # -1 /\ rest = 0 -> none
       [] OTHER -> keys[rest]

Empty(T, i) == luaH_get(T, i) = nil

HalvePast(T, s) ==      \* goes on after a present key
  IF s[2] - s[1] <= 1 THEN s
  ELSE LET m == (s[1] + s[2]) \div 2 IN IF Empty(T, m) THEN <<s[1], m>> ELSE <<m + 1, s[2]>>
(* One turn of a search between 's[1]', which is present or 0, and 's[2]',  *)
(* which is absent.                                                         *)
Halve(T, s) ==
  IF s[2] - s[1] <= 1 THEN s
  ELSE LET m == (s[1] + s[2]) \div 2 IN IF Empty(T, m) THEN <<s[1], m>> ELSE <<m, s[2]>>
binsearch(T, i, j) ==
  LET s[n \in 0..j] == IF n = 0 THEN <<i, j>> ELSE Halve(T, s[n - 1]) IN s[j][1]

(* A turn of the search for an absent key; 's[1]' is present.               *)
Double(T, s) ==
  IF Empty(T, s[2]) \/ s[2] > MaxInt \div 2 - 1 THEN s
  ELSE <<s[2], 2 * s[2] + (s[3] % 2), s[3] \div 2>>
hash_search(T, rnd) ==
  LET first == asize(T) + 1
      width == twoto[IF asize(T) > 0 THEN Ceillog2(asize(T)) ELSE 0]
      incr  == (rnd % width) + 1
      s[n \in 0..MaxInt] ==
        IF n = 0 THEN <<first, IF incr <= MaxInt - first THEN first + incr ELSE first + 1, rnd \div width>>
        ELSE Double(T, s[n - 1])
      i == s[MaxInt][1]
      j == s[MaxInt][2]
  IN IF Empty(T, j) THEN binsearch(T, i, j)
     ELSE IF Empty(T, MaxInt) THEN binsearch(T, j, MaxInt) ELSE MaxInt

MaxVicinity == 4
(* The length of T, and the hint that is kept for the next time. *)
luaH_getn(T, rnd) ==
  LET limit == IF T.hint = 0 THEN 1 ELSE T.hint
      size  == asize(T)
      before == {i \in 1..limit - 1 : i >= limit - MaxVicinity /\ ~Empty(T, i)}
      after  == {i \in limit + 1..size : i <= limit + MaxVicinity /\ Empty(T, i)}
      Hint(n) == [n |-> n, hint |-> n]
  IN CASE size > 0 /\ Empty(T, limit) ->
            Hint(IF before # {} THEN Max(before) ELSE binsearch(T, 0, Max({1, limit - MaxVicinity})))
       [] size > 0 /\ ~Empty(T, limit) /\ after # {} -> Hint(Min(after) - 1)
       [] size > 0 /\ ~Empty(T, limit) /\ after = {} /\ Empty(T, size) ->
            Hint(binsearch(T, Min({size, limit + MaxVicinity}), size))
       [] OTHER -> [n |-> IF isdummy(T) \/ Empty(T, size + 1) THEN size ELSE hash_search(T, rnd),
                    hint |-> IF size > 0 THEN size ELSE T.hint]
------------------------------------------------------------------------------
(* ---- the program ---- *)
Roots == held \cup {key}
Knows(x) == iscollectable(x) => x \in Roots

(* A traversal ends when a new key is assigned. *)
Assigned(T, k, v) ==
  /\ t' = T /\ pending' = none
  /\ IF luaH_get(t, k) = nil /\ v # nil THEN key' = none /\ left' = {}
     ELSE UNCHANGED key /\ left' = (IF v = nil THEN left \ {k} ELSE left)

luaH_set(k, v) == Idle /\ Knows(k) /\ Knows(v) /\
  LET p == getgeneric(t, k, FALSE) IN
  /\ UNCHANGED <<program, alloc, held>>
  /\ CASE InArray(t, k) -> Assigned([t EXCEPT !.arr[k] = v], k, v)
       [] ~InArray(t, k) /\ p # 0 -> Assigned([t EXCEPT !.node[p].val = v], k, v)
       [] ~InArray(t, k) /\ p = 0 /\ v = nil -> Assigned(t, k, v)
       [] ~InArray(t, k) /\ p = 0 /\ v # nil /\ Fits(t, k) -> Assigned(insertkey(t, k, v), k, v)
       [] OTHER -> /\ LET sizes == RehashSizes(t, k) IN
                      pending' = [k |-> k, v |-> v, newt |-> none,
                                  asize |-> sizes.asize, nsize |-> sizes.nsize]
                   /\ UNCHANGED <<t, key, left>>

Set == \E k \in AllKeys : luaH_set(k, program.stored[k]) \/ luaH_set(k, nil)

Finish(newt) == Assigned(newcheckedkey(FinishResize(t, newt, pending.asize), pending.k, pending.v),
                         pending.k, pending.v)
(* The first allocation of luaH_resize, and the second if there is one. *)
AllocNodes == /\ ~Idle /\ pending.newt = none /\ UNCHANGED <<program, alloc, held>>
  /\ pending.nsize <= twoto[MAXHBITS]              \* else "table overflow"
  /\ LET newt == reinsertOldSlice(t, pending.asize, setnodevector(pending.nsize)) IN
     IF pending.asize \in {0, asize(t)} THEN Finish(newt)
     ELSE pending' = [pending EXCEPT !.newt = newt] /\ UNCHANGED <<t, key, left>>
AllocArray == /\ ~Idle /\ pending.newt # none /\ UNCHANGED <<program, alloc, held>>
              /\ Finish(pending.newt)
AllocFails == /\ ~Idle /\ pending' = none /\ UNCHANGED <<t, program, alloc, held, key, left>>

luaH_getn_hint == \E rnd \in Seeds : /\ Idle /\ t' = [t EXCEPT !.hint = luaH_getn(t, rnd).hint]
                                     /\ UNCHANGED <<program, alloc, held, key, left, pending>>

StartTraversal == /\ Idle /\ key = none /\ key' = nil
                  /\ left' = {k \in AllKeys : luaH_get(t, k) # nil}
                  /\ UNCHANGED <<t, program, alloc, held, pending>>
Traverse == /\ Idle /\ key \notin {none, invalid} /\ key' = luaH_next(t, key) /\ left' = left \ {key'}
            /\ UNCHANGED <<t, program, alloc, held, pending>>

(* Objects are forgotten, taken out of the table and created. *)
Forget(o) == o \in held /\ held' = held \ {o} /\ UNCHANGED alloc
Fetch(o)  == /\ \E k \in AllKeys : luaH_get(t, k) # nil /\ o \in {k, luaH_get(t, k)} /\ Knows(k)
             /\ o \notin held /\ held' = held \cup {o} /\ UNCHANGED alloc
Create(o) == o \notin alloc /\ alloc' = alloc \cup {o} /\ held' = held \cup {o}
Forgets == /\ Idle /\ UNCHANGED <<t, program, key, left, pending>>
           /\ \E o \in program.objects : Forget(o) \/ Fetch(o) \/ Create(o)

(* A whole collection, also one that an allocation starts when it fails.    *)
(* The nodes that wait in 'newt' are not seen by it.                        *)
Weak(x) == x \in program.weak
clearkey(n) == IF n.val = nil /\ iscollectable(n.key) THEN [n EXCEPT !.dead = TRUE] ELSE n
InUse == {i \in DOMAIN t.node : t.node[i].val # nil}
(* The objects marked: the value of a weak key once its key is.             *)
Traversed(S) ==
  /\ Roots \cap program.objects \subseteq S
  /\ Weak("k") \/ {t.node[i].key : i \in InUse} \cap program.objects \subseteq S
  /\ Weak("v") \/ /\ {t.arr[i] : i \in DOMAIN t.arr} \cap program.objects \subseteq S
                  /\ \A i \in InUse : (iscollectable(t.node[i].key) => t.node[i].key \in S)
                                     => {t.node[i].val} \cap program.objects \subseteq S
Marked == {o \in program.objects : \A S \in SUBSET program.objects : Traversed(S) => o \in S}
iscleared(x) == iscollectable(x) /\ x \notin Marked
ClearAllButLast(arr) ==        \* an off-by-one in the loop of clearbyvalues
  [i \in DOMAIN arr |-> IF Weak("v") /\ i < Len(arr) /\ iscleared(arr[i]) THEN nil ELSE arr[i]] \o <<>>
ClearArray(arr) == [i \in DOMAIN arr |-> IF Weak("v") /\ iscleared(arr[i]) THEN nil ELSE arr[i]] \o <<>>
Collected ==
  [t EXCEPT !.arr  = ClearArray(@),
            !.node = [i \in DOMAIN @ |-> clearkey(
                        IF (Weak("v") /\ iscleared(@[i].val)) \/ (Weak("k") /\ iscleared(@[i].key))
                        THEN [@[i] EXCEPT !.val = nil] ELSE @[i])] \o <<>>]
Shrinking == ~Idle /\ pending.newt # none /\ pending.asize < asize(t)
Collect == /\ Shrinking /\ Weak("v") => ShrinkFails
           /\ t' = Collected /\ alloc' = alloc \cap Marked
           /\ left' = {k \in left : luaH_get(Collected, k) # nil}
           /\ UNCHANGED <<program, held, key, pending>>
------------------------------------------------------------------------------
Init == /\ program \in Programs /\ alloc = program.objects /\ held = program.objects
        /\ key = none /\ left = {} /\ pending = none
        /\ t = [arr |-> [i \in 1..program.asize |-> nil] \o <<>>, hint |-> program.asize \div 2,
                node |-> setnodevector(program.nsize), lastfree |-> Len(setnodevector(program.nsize)) + 1]

Next == \/ Set \/ AllocNodes \/ AllocArray \/ AllocFails \/ luaH_getn_hint
        \/ StartTraversal \/ Traverse \/ Forgets \/ Collect
Spec == Init /\ [][Next]_vars
------------------------------------------------------------------------------
(* ---- properties ---- *)
Map == INSTANCE LuaMap WITH map <- [k \in AllKeys |-> luaH_get(t, k)], weak <- program.weak

(* Whatever collisions, rehashes, failing allocations and collections do to *)
(* the nodes, a program sees a map: an assignment changes one key, a        *)
(* rehash or one that fails changes none, and a traversal visits each entry *)
(* once although entries are removed, their keys die and the addresses of   *)
(* dead keys are used again (ltable.c:361, 716, 846).                       *)
KeepsMap == Map!Spec

(* The length is a border, whatever the hint, the seed and the part of the  *)
(* table that the search goes through (luaH_getn).                          *)
LengthIsBorder ==
  \A rnd \in Seeds :
    LET n == luaH_getn(t, rnd).n IN
    /\ n = 0 \/ luaH_get(t, n) # nil
    /\ n = MaxInt \/ luaH_get(t, n + 1) = nil

(* The table refers to no object that was freed, and a resize that fails at *)
(* any of its allocations leaves it "in its original state" (ltable.c:670). *)
NoDanglingEntry ==
  /\ \A i \in DOMAIN t.arr : iscollectable(t.arr[i]) => t.arr[i] \in alloc
  /\ \A i \in InUse : {t.node[i].key, t.node[i].val} \cap Objects \subseteq alloc

(* A node has one predecessor, free nodes are below 'lastfree', and a key   *)
(* that was created at the address of a dead one is found before it.        *)
ChainsRight ==
  /\ \A i, j \in DOMAIN t.node : i # j /\ t.node[i].next = t.node[j].next => t.node[i].next = 0
  /\ haslastfree(t) => \A i \in DOMAIN t.node : t.node[i].key = nil => i < t.lastfree
  /\ \A i \in InUse : getgeneric(t, t.node[i].key, TRUE) = i
==============================================================================
