---------------------------- MODULE LuaTableLib ----------------------------
(***************************************************************************)
(* The table library (ltablib.c) and the references of lauxlib.c, on       *)
(* tables that are functions from integers to values; a table has no       *)
(* metamethods, the order function of sort answers anything.               *)
(***************************************************************************)
EXTENDS LuaNumbers, SequencesExt, Bitwise

CONSTANTS absent,     \* nil
          RANLIMIT,   \* intervals larger than this may use random pivots,
          IMBALANCE   \* when this many times the other one is smaller

geti(a, i) == IF i \in DOMAIN a THEN a[i] ELSE absent
seti(a, i, v) == IF i \in DOMAIN a THEN [a EXCEPT ![i] = v] ELSE a @@ (i :> v)
Upto(i, j) == [k \in 1..(IF j < i THEN 0 ELSE j - i + 1) |-> i + k - 1]

(* t[to + k] = t[from + k] for the numbers k of the sequence. *)
Shift(a, from, to, ks) == FoldLeft(LAMBDA b, k : seti(b, Wrap(to + k), geti(b, Wrap(from + k))), a, ks)

(* A table in the range of integers with the elements of s from 'first' on. *)
TableOf(s, first) == [i \in LuaIntegers |-> IF i - first + 1 \in DOMAIN s THEN s[i - first + 1] ELSE absent]
------------------------------------------------------------------------------
(* size is the length of a; error when the position is out of bounds. *)
tinsert(a, size, pos, v) ==
  LET e == Wrap(size + 1) IN
  IF ~(l_castS2U(l_castS2U(pos) - 1) < l_castS2U(e)) THEN error
  ELSE seti(Shift(a, -1, 0, Reverse(Upto(pos + 1, e))), pos, v)

tremove(a, size, pos) ==
  IF pos # size /\ ~(l_castS2U(l_castS2U(pos) - 1) <= l_castS2U(size)) THEN error
  ELSE [v |-> geti(a, pos),
        a |-> seti(Shift(a, 1, 0, Upto(pos, size - 1)), IF pos < size THEN size ELSE pos, absent)]

tmove(a, f, e, t) ==
  CASE e < f -> a
    [] e >= f /\ ~(f > 0 \/ e < Wrap(LUA_MAXINTEGER + f)) -> error
    [] e >= f /\ (f > 0 \/ e < Wrap(LUA_MAXINTEGER + f)) /\ t > LUA_MAXINTEGER - (e - f + 1) + 1 -> error
    [] OTHER -> IF t > e \/ t <= f THEN Shift(a, f, t, Upto(0, e - f))
                ELSE Shift(a, f, t, Reverse(Upto(0, e - f)))

(* All elements from i to e; 'most' is the number that the stack may take. *)
tunpack(a, i, e, most) ==
  LET n == l_castS2U(l_castS2U(e) - l_castS2U(i)) IN
  CASE i > e -> <<>>
    [] i <= e /\ n + 1 > most -> error
    [] OTHER -> [k \in 1..n |-> geti(a, Wrap(i + k - 1))] \o <<geti(a, e)>>
(* The values of a list from the i-th on, from the end for a negative one. *)
luaB_select(list, i) ==
  LET n == Len(list) + 1                  \* with i itself
      first == CASE i < 0 -> n + i [] i > n -> n [] OTHER -> i
  IN IF first < 1 THEN error ELSE SubSeq(list, first, n - 1)
------------------------------------------------------------------------------
(* ---- sort: s is [a, ok, reads, asked, at], the table, no error so far,     *)
(* the indices read, the number of comparisons, the place of the pivot.     *)
(* The order is a relation whose answer is wrong when 'asked' is one of the *)
(* numbers that it lies at, so that it may answer anything.                 *)
Swap(a, i, j) == seti(seti(a, i, geti(a, j)), j, geti(a, i))                    \* set2
sort_comp(s, x, y, less) == (<<x, y>> \in less.order) # (s.asked \in less.lies)
Asked(s, n, is) == [s EXCEPT !.asked = @ + n, !.reads = @ \cup is]

(* Swaps the elements at i < j if they are out of order. *)
SortPair(s, i, j, less) ==
  LET r == Asked(s, 1, {i, j}) IN
  IF sort_comp(s, geti(s.a, j), geti(s.a, i), less) THEN [r EXCEPT !.a = Swap(@, i, j)] ELSE r
(* The smallest of three goes to 'lo', the largest to 'up'. *)
SortLowOnly(s, lo, p, up, less) == SortPair(s, lo, p, less)     \* forgets 'up'
SortThree(s, lo, p, up, less) ==
  LET r == SortPair(s, lo, p, less)
  IN IF sort_comp(s, geti(s.a, p), geti(s.a, lo), less) THEN r ELSE SortPair(r, p, up, less)

RECURSIVE PartitionFrom(_, _, _, _, _, _)
PartitionFrom(s, lo, up, i, j, less) ==
  LET P  == s.a[up - 1]
      Less(k) == sort_comp([s EXCEPT !.asked = @ + k - i - 1], geti(s.a, k), P, less)
      up2[k \in Nat] == IF Less(k) /\ k # up - 1 THEN up2[k + 1] ELSE k      \* repeat ++i
      ni == up2[i + 1]
      t  == Asked(s, ni - i, i + 1..ni)
      Greater(k) == sort_comp([t EXCEPT !.asked = @ + j - k - 1], P, geti(s.a, k), less)
      down[k \in Int] == IF Greater(k) /\ k >= ni THEN down[k - 1] ELSE k   \* repeat --j
      nj == down[j - 1]
      r  == Asked(t, j - nj, nj..j - 1)
  IN CASE Less(ni) -> [t EXCEPT !.ok = FALSE]
       [] ~Less(ni) /\ Greater(nj) -> [r EXCEPT !.ok = FALSE]
       [] ~Less(ni) /\ ~Greater(nj) /\ nj < ni -> [r EXCEPT !.a = Swap(@, up - 1, ni), !.at = ni]
       [] OTHER -> PartitionFrom([r EXCEPT !.a = Swap(@, ni, nj)], lo, up, ni, nj, less)
partition(s, lo, up, less) == PartitionFrom(s, lo, up, lo, up - 1, less)

(* The "random" number is that of the order, mixed with the limits.         *)
choosePivot(lo, up, rnd) ==
  LET r4 == (up - lo) \div 4 IN (((rnd ^^ lo) ^^ up) % (r4 * 2)) + lo + r4

RECURSIVE auxsort(_, _, _, _, _)
auxsort(s, lo, up, rnd, less) ==
  LET p  == IF up - lo < RANLIMIT \/ rnd = 0 THEN (lo + up) \div 2 ELSE choosePivot(lo, up, rnd)
      s2 == SortPair(s, lo, up, less)
      s3 == SortThree(s2, lo, p, up, less)
      s4 == partition([s3 EXCEPT !.a = Swap(@, p, up - 1)], lo, up, less)
      at == s4.at
      lower == at - lo < up - at      \* the interval that is smaller, sorted first
      n    == IF lower THEN at - lo ELSE up - at
      size == IF lower THEN up - (at + 1) ELSE at - 1 - lo
      new  == IF size > 0 /\ size \div IMBALANCE > n THEN less.seed ELSE rnd
  IN CASE lo >= up \/ ~s.ok -> s
       [] lo < up /\ s.ok /\ up - lo = 1 -> s2
       [] lo < up /\ s.ok /\ up - lo = 2 -> s3
       [] lo < up /\ s.ok /\ up - lo > 2 /\ ~s4.ok -> s4
       [] OTHER -> IF lower THEN auxsort(auxsort(s4, lo, at - 1, rnd, less), at + 1, up, new, less)
                   ELSE auxsort(auxsort(s4, at + 1, up, rnd, less), lo, at - 1, new, less)
sort(a, less) == auxsort([a |-> a, ok |-> TRUE, reads |-> {}, asked |-> 0, at |-> 0], 1, Len(a), 0, less)
------------------------------------------------------------------------------
(* ---- references: a table whose first element starts a list of free ones ---- *)
LUA_REFNIL == -1
rawlen(t) == CHOOSE n \in 0..Cardinality(DOMAIN t) : geti(t, n + 1) = absent /\ \A i \in 1..n : geti(t, i) # absent
RefKept(t, v) ==        \* leaves the reference in the list of free ones
  LET t1 == IF geti(t, 1) = absent THEN seti(t, 1, 0) ELSE t
      ref == IF t1[1] # 0 THEN t1[1] ELSE rawlen(t1) + 1
  IN [t |-> seti(t1, ref, v), ref |-> ref]
luaL_ref(t, v) ==
  LET ref == IF geti(t, 1) = absent THEN 0 ELSE t[1]
      t1  == IF geti(t, 1) = absent THEN seti(t, 1, 0) ELSE t
      new == rawlen(t1) + 1
  IN CASE v = absent -> [t |-> t, ref |-> LUA_REFNIL]
       [] v # absent /\ ref # 0 -> [t |-> seti(seti(t1, 1, t1[ref]), ref, v), ref |-> ref]
       [] OTHER -> [t |-> seti(t1, new, v), ref |-> new]
luaL_unref(t, ref) == IF ref < 0 THEN t ELSE seti(seti(t, ref, geti(t, 1)), 1, ref)
=============================================================================
